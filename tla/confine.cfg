\* One sandbox and runs beside it, both mechanisms, one kill or failed write.
SPECIFICATION Spec
CONSTANTS
    None = None
    HostPaths <- Host
    Denotes <- Links
    WorkspaceWords = {"workspace", "workspaces"}
    HostEnv <- Env
    HostFiles <- HostContents
    SystemDirs <- Systems
    Policies <- AllPolicies
    DefaultPolicy <- Default
    Workdirs <- WorkAndOther
    Commands <- FewCommands
    Dashed = {"-v", "--network"}
    Mechs = {"podman", "mac"}
    MaxCommands = 3
    MaxFaults = 1
INVARIANTS TypeOK SeatbeltConfines ContainerConfines ConfinedAsOne ProxyIsOurs SecretsInjected CommandIntact
CHECK_DEADLOCK FALSE
