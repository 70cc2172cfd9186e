\* Every document and option that tries one limit.
SPECIFICATION Spec
CONSTANTS
    None = None   Signal = Signal   Unreadable = Unreadable
    Word = 256   Kilo = 2   HostMemory = 64   HostMillicores = 8
    DefaultPolicy <- Default
    PolicyFiles <- AllFiles
    CpuOptions <- FewCpus
    MemoryOptions <- FewSizes
    MechOptions <- AllMechs
    Systems = {"macos", "linux", "other"}
    ExitCodes = {0, 1, 2}
INVARIANTS TypeOK StartedFits MechanismAsNamed ProxyHeld ReportsFailure
PROPERTIES SoundIsAccepted
CHECK_DEADLOCK FALSE
