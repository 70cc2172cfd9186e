\* Two creates of one name on mac.
SPECIFICATION Spec
CONSTANTS
    None = None
    a = a   b = b   p1 = p1   p2 = p2   q1 = q1   q2 = q2
    Procs = {p1}
    Names = {a}
    Keys <- NamesOrNone
    Policies = {q1, q2}
    Mechs = {"mac"}
    Ops = {"create"}
    EngineMayFail = FALSE
    MaxCommands = 2
    MaxConcurrent = 1
    MaxCrashes = 0
INVARIANTS HashIsOfStored
CHECK_DEADLOCK FALSE
