\* One invocation at a time, one killed, two sandbox names.
SPECIFICATION Spec
CONSTANTS
    None = None
    a = a   b = b   p1 = p1   p2 = p2   q1 = q1   q2 = q2
    Procs = {p1}
    Names = {a, b}
    Keys <- NamesOrNone
    Policies = {q1, q2}
    Mechs = {"podman", "mac"}
    Ops = {"create", "run", "exec", "rm", "set", "show"}
    EngineMayFail = FALSE
    MaxCommands = 4
    MaxConcurrent = 1
    MaxCrashes = 1
SYMMETRY NamePolicySymmetry
INVARIANTS ListedHasRuntime LastUsedIsListed TornOnlyByCrash CreatedIsListed NoOrphan CopiesAgree
PROPERTIES ImplementsRegistry
CHECK_DEADLOCK FALSE
