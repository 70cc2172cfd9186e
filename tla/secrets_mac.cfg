\* A create and an exec.
SPECIFICATION Spec
CONSTANTS
    None = None
    HostPaths <- Host
    Denotes <- Links
    WorkspaceWords = {"workspace", "workspaces"}
    HostEnv <- Env
    HostFiles <- HostContents
    SystemDirs <- Systems
    Policies <- OnlyListed
    DefaultPolicy <- Default
    Workdirs <- WorkAndOther
    Commands <- FewCommands
    Dashed = {"-v", "--network"}
    Mechs = {"podman", "mac"}
    MaxCommands = 2
    MaxFaults = 0
INVARIANTS SecretsReach
CHECK_DEADLOCK FALSE
