SPECIFICATION FairAllocSpec
CONSTANTS
    None = None
    p1 = p1
    p2 = p2
    p3 = p3
    Usernames = {}
    NamespaceIDs = {n1}
    PIDs = {p1, p2, p3}
    BaseURIs = {}
    Patterns = {}
    KeyIDs = {}
    Prefixes = {}
    Suffixes = {}
    KeyScopes = {}
    Passwords = {}
    Times = {1}
    Contents = {c1}
    MaxBatch = 3
    Formats <- MCFormats
    Requests = {r1, r2}
    MaxPIDAttempts = 2
    MaxBatchItems = 2
INVARIANTS AllocTypeOK EveryPIDHasOneOwner PIDsMatchFormat GivingUpMeansTaken PullsAreBounded
PROPERTIES ImplementsRegistry RequestsEnd
CHECK_DEADLOCK FALSE
