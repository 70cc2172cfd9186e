\* A shell without a name, and another command meanwhile.
SPECIFICATION Spec
CONSTANTS
    None = None
    a = a   b = b   p1 = p1   p2 = p2   q1 = q1   q2 = q2
    Procs = {p1, p2}
    Names = {a, b}
    Keys <- NamesOrNone
    Policies = {q1}
    Mechs = {"podman", "mac"}
    Ops = {"create", "exec", "shell"}
    EngineMayFail = FALSE
    MaxCommands = 4
    MaxConcurrent = 2
    MaxCrashes = 0
INVARIANTS ShellFits
CHECK_DEADLOCK FALSE
