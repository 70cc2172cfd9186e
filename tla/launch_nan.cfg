\* A policy that asks for NaN cpus.
SPECIFICATION Spec
CONSTANTS
    None = None   Signal = Signal   Unreadable = Unreadable
    Word = 256   Kilo = 2   HostMemory = 64   HostMillicores = 8
    DefaultPolicy <- Default
    PolicyFiles <- AllFiles
    CpuOptions <- FewCpus
    MemoryOptions <- NoOptions
    MechOptions <- NoOptions
    Systems = {"macos", "linux"}
    ExitCodes = {0, 1, 2}
INVARIANTS CpusArePositive
CHECK_DEADLOCK FALSE
