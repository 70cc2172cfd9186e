\* Two invocations at a time, one killed, both mechanisms, one sandbox name.
SPECIFICATION Spec
CONSTANTS
    None = None
    a = a   b = b   p1 = p1   p2 = p2   q1 = q1   q2 = q2
    Procs = {p1, p2}
    Names = {a}
    Keys <- AnyKey
    Policies = {q1}
    Mechs = {"podman", "mac"}
    Ops = {"create", "run", "exec", "rm", "set", "show", "shell"}
    EngineMayFail = TRUE
    MaxCommands = 4
    MaxConcurrent = 2
    MaxCrashes = 1
SYMMETRY ProcSymmetry
INVARIANTS TypeOK IndexWellFormed
PROPERTIES BrickedForGood OnlyItsRmKills
CHECK_DEADLOCK FALSE
