\* Two invocations at a time, scheduled fairly, the engine up.
SPECIFICATION FairSpec
CONSTANTS
    None = None
    a = a   b = b   p1 = p1   p2 = p2   q1 = q1   q2 = q2
    Procs = {p1, p2}
    Names = {a}
    Keys <- AnyKey
    Policies = {q1}
    Mechs = {"podman", "mac"}
    Ops = {"create", "run", "exec", "rm"}
    EngineMayFail = FALSE
    MaxCommands = 3
    MaxConcurrent = 2
    MaxCrashes = 0
PROPERTIES Terminates RemovalCompletes
CHECK_DEADLOCK FALSE
