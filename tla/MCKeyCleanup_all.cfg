SPECIFICATION FairCleanupSpec
CONSTANTS
    None = None
    Usernames = {1, 2}
    NamespaceIDs = {}
    PIDs = {}
    BaseURIs = {}
    Patterns = {}
    KeyIDs = {1, 2}
    Prefixes = {x1}
    Suffixes = {1, 2}
    KeyScopes = {g0}
    Passwords = {}
    Times <- MCTimes
    Contents = {}
    MaxBatch = 0
    Formats <- OneFormat
    PageLimit = 1
    MaxClock = 2
    MaxEvents = 3
INVARIANTS CleanupTypeOK PassIsComplete
PROPERTIES RevokesOnlyExpired ExpiredKeysGo StopIsHeeded
CHECK_DEADLOCK FALSE
