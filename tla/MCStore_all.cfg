SPECIFICATION Spec
CONSTANTS
    None = None
    Usernames = {u1, u2}
    NamespaceIDs = {n1}
    PIDs = {p1}
    BaseURIs = {b1}
    Patterns = {g1}
    KeyIDs = {k1, k2}
    Prefixes = {x1}
    Suffixes = {s1}
    KeyScopes = {g0}
    Passwords = {w1}
    Times = {1, 2}
    Contents = {c1}
    MaxBatch = 2
    Formats <- OneFormat
SYMMETRY StoreSymmetry
INVARIANTS TypeOK LookupIsUnambiguous GrantsBelongToUsers FiledUnderNamespaces
PROPERTIES NewAccountsAreClean PIDsArePermanent
