SPECIFICATION FairSpec
CONSTANTS
    Maps <- MCMaps
    Inside <- MCInside
    Overlap <- MCOverlap
    Depth <- MCDepth
    Credential <- MCCredential
    SamePath <- MCSamePath
    ProjectDir = "project"
    Worktree = "repository"
    HomeDir = "elsewhere"
    GitDir = "worktrees"
    Harnesses <- MCHarnesses
    Browsers <- MCBrowsers
    ApiHosts <- MCApiHosts
    ApiKey <- MCApiKey
    RegistryHosts <- MCRegistryHosts
    ForgeAccess <- MCForgeAccess
    Selections <- MCSelections
    Launches <- MCLaunches
    MaxLaunches = 2
    Ports <- MCPorts
    JailClients = {j1, j2}
    HostClients = {h1, h2}
    MaxConnections = 1
CHECK_DEADLOCK FALSE
INVARIANTS
    ProjectOnlyTightens
    TightenedStaysTight
    LaunchesWhatWasConfirmed
    EnvironmentHidesSecrets
    PortsReachTheAgent
    ConnectionsBounded
    MountsKeepPolicy
    ProfileKeepsPolicy
    PlatformsAgree
    LayersAgree
PROPERTIES
    WritesOnlyWhenAsked
    ClientsAnswered
