-------------------------- MODULE LaunchProperties --------------------------
(***************************************************************************)
(* What `ssbx create` and `ssbx run` promise about the policies they       *)
(* accept, the mechanism they choose, the proxy and the exit code.  The    *)
(* meaning of a policy is stated here in exact arithmetic.                 *)
(***************************************************************************)
EXTENDS Launch

\* Each variable has its type.
TypeOK ==
    /\ inv \in Invocations
    /\ stage \in {"load", "override", "resolve", "preflight", "secrets", "proxy",
                  "spawn", "wait", "report", "done"}
    /\ policy \in Documents
    /\ proxy \in {"none", "up", "failed", "dropped"} /\ child \in {"none", "running", "ended"}
    /\ status \in ExitCodes \cup {None, Signal}
    /\ engine \in BOOLEAN /\ exit \in ExitCodes \cup {None, 1}
    /\ (exit # None) = (stage = "done")

-----------------------------------------------------------------------------
(* Policies *)

Bytes(s) == s.num * Multiplier(s.unit)

\* The number of cpus is m millicores, rounded half up.
Is(c, m) == c.is = "number" /\ 10 * m - 5 <= c.tenths /\ c.tenths < 10 * m + 5

\* A policy as its schema means it, on a host of this capacity.
MemoryFits(q) == q.memory.num # Junk /\ Bytes(q.memory) <= HostMemory
CpusFit(q) == \E m \in 0 .. HostMillicores : Is(q.cpus, m)
CpusPositive(q) == q.cpus.is = "inf" \/ (q.cpus.is = "number" /\ q.cpus.tenths > 0)
WellFormed(q) ==
    /\ q.version = 1 /\ q.secrets # "blank"
    /\ q.mode = "allowlist" => q.listed

Started == proxy # "none" \/ child # "none"

\* Nothing is started, not even the proxy, for a policy that is malformed or
\* asks for more than the host has, wherever the number came from (file, option
\* or default) and whatever its unit: preflight's "reject policies that
\* oversubscribe host pools", of the mathematical value and not of a wrapped
\* one.  NaN, which is no number of cpus, is CpusArePositive's business.
StartedFits ==
    Started => WellFormed(policy) /\ MemoryFits(policy) /\ (CpusFit(policy) \/ policy.cpus = NaN)

Honourable(q) == WellFormed(q) /\ MemoryFits(q) /\ CpusPositive(q) /\ CpusFit(q)

\* What a check looks at: the file as read, then with the options in it.
Examined ==
    IF stage = "load" THEN inv.file ELSE IF stage = "override" THEN Overridden ELSE policy

\* The checks turn down nothing the host can honour: every refusal by validate,
\* of the file or of what the options make of it, or by preflight has its reason
\* in what it looked at, unless there was no document to look at.
SoundIsAccepted ==
    [][(stage \in {"load", "override", "preflight"} /\ stage' = "done")
        => Examined = Unreadable \/ ~Honourable(Examined)]_vars

\* "resources.cpus must be > 0" (sandbox-policy/src/lib.rs:241): what is started
\* has a number of cpus, and it is positive.
CpusArePositive == Started => CpusPositive(policy)

-----------------------------------------------------------------------------
(* The mechanism *)

Named == IF inv.mech # None THEN inv.mech
         ELSE IF inv.file \notin {None, Unreadable} THEN inv.file.mechanism
         ELSE DefaultPolicy.mechanism

\* A sandbox is started by the mechanism the command line names, else by the one
\* the policy names, and by podman in place of auto; only `run` on macOS may turn
\* podman into mac, and nothing ever turns mac or krun into podman.
MechanismAsNamed ==
    child # "none" =>
        \/ policy.mechanism = Named
        \/ Named \in {None, "auto"} /\ inv.os # "other" /\ policy.mechanism = "podman"
        \/ Named \in {None, "auto"} /\ inv.os = "other" /\ policy.mechanism = "mac"
        \/ /\ Named \in {None, "auto", "podman"} /\ policy.mechanism = "mac"
           /\ inv.op = "run" /\ inv.os = "macos"

-----------------------------------------------------------------------------
(* The proxy and the exit code *)

Mediated == policy.mode = "allowlist" /\ child = "running"

\* While the command of an ephemeral run runs, the proxy it is pointed at has
\* been started and its handle is held: cmd_run binds it before the command
\* starts and drops it after.  Only the proxy's own accept error ends it sooner,
\* which ssbx does not see.
ProxyHeld == Mediated /\ inv.op = "run" => proxy \in {"up", "failed"}

\* ssbx leaves nothing of a run behind, and reports success only of a sandbox
\* that it did start: a refused invocation is never mistaken for one that ran,
\* and a run that failed by its own code never for one that succeeded.
ReportsFailure ==
    stage = "done" =>
        /\ exit = 0 => child # "none" /\ status \in {0, Signal, None}
        /\ inv.op = "run" => child # "running" /\ proxy \notin {"up", "failed"}

\* "Set for ephemeral runs so the CLI can propagate the child exit code."
\* (sandbox-core/src/lib.rs:54): success is reported of a command that succeeded.
SuccessIsSuccess == exit = 0 /\ inv.op = "run" => status = 0
=============================================================================
