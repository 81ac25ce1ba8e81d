SPECIFICATION FairSpec
CONSTANTS
    Signals = {sigint, sigterm}
    NoSignal = nosignal
    Main = main
    Workers = {worker}
    MaxRaises = 3
INVARIANTS NoLostSignal AgentSignalCancels NothingLeftBehind
PROPERTIES CancelledLaunchEnds
CHECK_DEADLOCK FALSE
