SPECIFICATION FairSpec
CONSTANTS
    Conns = {c1, c2, c3}
    Hosts = {listed, unlisted}
    AllowHosts = {listed}
    PrivateHosts = {listed}
    Promptable = {unlisted}
    MaxConnections = 2
INVARIANTS ServedWithinLimit OnePromptPerHost TunnelsPermitted
PROPERTIES ImplementsPolicy NoLostWakeup
CHECK_DEADLOCK TRUE
