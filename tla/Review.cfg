SPECIFICATION Spec
CONSTANTS
    AllowedFlags = {"agent_state"}
    OpenFlags = {"ssh", "github"}
    PresetOpen = {"ssh", "github"}
    Extras = {"x11"}
    OpenExtras = {"x11"}
    EnvNames = {"TOKEN"}
    UnsetNames = {}
    Dirs = {"home", "project"}
    BroadDirs = {"home"}
    Nested <- MCPairs
    Keys = {"k"}
    Requests <- MCRequests
    Reviews <- MCReviews
    ConfigureOnly = FALSE
INVARIANTS OpenConfirmed DecidedFirst
PROPERTIES NoDoubleEnter DecisionsHold
CHECK_DEADLOCK FALSE
