\* Two creates at a time.
SPECIFICATION Spec
CONSTANTS
    None = None
    a = a   b = b   p1 = p1   p2 = p2   q1 = q1   q2 = q2
    Procs = {p1, p2}
    Names = {a, b}
    Keys <- NamesOrNone
    Policies = {q1}
    Mechs = {"podman"}
    Ops = {"create"}
    EngineMayFail = FALSE
    MaxCommands = 2
    MaxConcurrent = 2
    MaxCrashes = 0
INVARIANTS CreatedIsListed
CHECK_DEADLOCK FALSE
