SPECIFICATION FairMCSpec
CONSTANTS
    None = None
    root = root
    alice = alice
    home = home
    away = away
    key = key
    old = old
    new = new
    prefix = prefix
    pid = pid
    base = base
    pattern = pattern
    password = password
    content = content
    Usernames = {root, alice}
    NamespaceIDs = {home, away}
    PIDs = {pid}
    BaseURIs = {base}
    Patterns = {pattern}
    KeyIDs = {key}
    Prefixes = {prefix}
    Suffixes = {old, new}
    KeyScopes <- SomeScopes
    Passwords = {password}
    Times = {1, 2}
    Contents = {content}
    Formats <- AllPIDs
    MaxBatch = 2
    Handlers = {h}
    Covers <- AllCovered
    Offered <- DocumentationOffer
    MaxRequests = 1
    MaxEvents = 1
PROPERTY OptionsAreSet
