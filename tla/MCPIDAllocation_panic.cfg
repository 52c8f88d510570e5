SPECIFICATION AllocSpec
CONSTANTS
    None = None
    p1 = p1
    p2 = p2
    p3 = p3
    Usernames = {}
    NamespaceIDs = {n1}
    PIDs = {p1, p2, p3}
    BaseURIs = {}
    Patterns = {}
    KeyIDs = {}
    Prefixes = {}
    Suffixes = {}
    KeyScopes = {}
    Passwords = {}
    Times = {1}
    Contents = {c1}
    MaxBatch = 3
    Formats <- MCFormats
    Requests = {r1}
    MaxPIDAttempts = 2
    MaxBatchItems = 2
INVARIANTS OnlyDocumentedOutcomes
CHECK_DEADLOCK FALSE
