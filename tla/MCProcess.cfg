SPECIFICATION ProcessSpec
CONSTANTS
    None = None
    Servers = {s1, s2}
    Root = root
    Admin = admin
    Names = {root, admin}
    Configs <- StartConfigs
    Requests = {r1}
INVARIANTS
    ProcessTypeOK
    BackendOutlivesItsUsers
    ZeroMeansNothingCutOff
    
    OneBootstrapKey
PROPERTIES
    SignalsEndProcesses
CONSTRAINT OneThingAtATime
CHECK_DEADLOCK FALSE
