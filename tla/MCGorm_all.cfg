SPECIFICATION MCSpec
CONSTANTS
    None = None
    Plain = Plain
    taken = taken
    tagged = tagged
    password = password
    key = key
    prefix = prefix
    suffix = suffix
    full = full
    Usernames = {u1}
    NamespaceIDs = {n1}
    PIDs = {taken, fresh, free}
    BaseURIs = {b1}
    Patterns = {g1}
    KeyIDs = {key, k2}
    Prefixes = {prefix}
    Suffixes = {suffix}
    KeyScopes = {full}
    Passwords = {password}
    Times = {2}
    Contents = {Plain, tagged}
    Formats <- OneFormat
    MaxBatch = 2
    SomeRoles = {"none", "manager"}
    Sessions = {c1, c2}
    MaxOps = 2
SYMMETRY SessionSymmetry
INVARIANTS GormTypeOK RowsHaveOwners OnlyRivalsDeadlock
PROPERTIES ImplementsContract StoredPIDsStay
CHECK_DEADLOCK FALSE
