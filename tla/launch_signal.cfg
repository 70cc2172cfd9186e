\* A run whose command is killed.
SPECIFICATION Spec
CONSTANTS
    None = None   Signal = Signal   Unreadable = Unreadable
    Word = 256   Kilo = 2   HostMemory = 64   HostMillicores = 8
    DefaultPolicy <- Default
    PolicyFiles <- Allowlists
    CpuOptions <- NoOptions
    MemoryOptions <- NoOptions
    MechOptions <- NoOptions
    Systems = {"macos", "linux"}
    ExitCodes = {0, 1, 2}
INVARIANTS SuccessIsSuccess
CHECK_DEADLOCK FALSE
