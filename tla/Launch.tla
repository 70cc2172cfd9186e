------------------------------- MODULE Launch -------------------------------
(***************************************************************************)
(* One `ssbx create` or `ssbx run` from its arguments to its exit code:    *)
(* the policy it puts together, the checks it makes, the allowlist proxy   *)
(* it starts, the sandbox it starts and what it reports.  The state        *)
(* directory is in Ssbx, the proxy's inside in Proxy.                      *)
(***************************************************************************)
EXTENDS Policy

CONSTANTS
    None,
    DefaultPolicy,   \* SandboxPolicy::restrictive_default
    PolicyFiles,     \* what --policy can name: documents, or Unreadable
    Unreadable,      \* a file that is not there or does not parse
    CpuOptions, MemoryOptions, MechOptions,   \* --cpus, --memory, --mechanism
    Systems,         \* target_os it is built for: "macos", "linux", "other"
    ExitCodes,       \* codes a command can exit with, 0 among them
    Signal           \* the other way for it to end: a signal kills it

\* A SandboxPolicy: listed says whether there are endpoints, secrets whether
\* their entries are filled in and their sources there.
Documents ==
    [version : Nat, cpus : CpuValues, memory : Sizes,
     mode : {"none", "allowlist", "unrestricted"}, listed : BOOLEAN,
     mechanism : {None, "auto", "podman", "mac", "krun"},
     secrets : {"none", "there", "missing", "blank"}]

ASSUME LaunchAssumption ==
    /\ DefaultPolicy \in Documents
    /\ PolicyFiles \subseteq Documents \cup {Unreadable}
    /\ CpuOptions \subseteq CpuValues /\ MemoryOptions \subseteq Sizes
    /\ MechOptions \subseteq {"auto", "podman", "mac", "krun"}
    /\ Systems \subseteq {"macos", "linux", "other"}
    /\ 0 \in ExitCodes /\ None \notin ExitCodes \cup {1, Signal}

VARIABLES
    inv,      \* the invocation: command, arguments, and the build that runs it
    stage,    \* what it does next
    policy,   \* the policy it has put together
    proxy,    \* its allowlist proxy: "none", "up", "failed" (it has stopped by
              \* itself, its handle is held) or "dropped"
    child,    \* the sandbox it started: "none", "running", "ended"
    status,   \* how an ephemeral command ended: a code, or Signal
    engine,   \* podman answers
    exit      \* the exit code of ssbx

vars == <<inv, stage, policy, proxy, child, status, engine, exit>>

Invocations ==
    [op : {"create", "run"}, file : PolicyFiles \cup {None},
     cpus : CpuOptions \cup {None}, memory : MemoryOptions \cup {None},
     mech : MechOptions \cup {None}, os : Systems]

-----------------------------------------------------------------------------

At(s) == stage = s
Goto(s) == stage' = s

\* main: an error ends the process with code 1.  What run() held is dropped,
\* the proxy with it.
DropProxy == proxy' = IF proxy = "none" THEN "none" ELSE "dropped"

\* Mutant: main returns what run() had so far.
FinishZero(code) ==
    /\ Goto("done")
    /\ exit' = 0
    /\ DropProxy

Finish(code) ==
    /\ Goto("done")
    /\ exit' = code
    /\ DropProxy

Fail ==
    /\ Finish(1)
    /\ UNCHANGED <<inv, policy, child, status, engine>>

\* podman can come up or go down at any time before ssbx has ended.
EngineChanges ==
    /\ stage # "done"
    /\ engine' = ~engine
    /\ UNCHANGED <<inv, stage, policy, proxy, child, status, exit>>

-----------------------------------------------------------------------------
(* load_policy *)

LoadFile ==
    /\ At("load")
    /\ LET q == IF inv.file = None THEN DefaultPolicy ELSE inv.file
       IN  /\ q # Unreadable
           /\ inv.file # None => Validates(q)
           /\ policy' = q
    /\ Goto("override")
    /\ UNCHANGED <<inv, proxy, child, status, engine, exit>>

LoadFails ==
    /\ At("load")
    /\ inv.file # None
    /\ inv.file # Unreadable => ~Validates(inv.file)
    /\ Fail

\* Mutant: the file's mechanism wins over --mechanism.
OverriddenByFile ==
    [policy EXCEPT !.cpus = IF inv.cpus = None THEN @ ELSE inv.cpus,
                   !.memory = IF inv.memory = None THEN @ ELSE inv.memory,
                   !.mechanism = IF inv.mech = None \/ @ # None THEN @ ELSE inv.mech]

\* The options replace what the file says, and the result is validated anew.
Overridden ==
    [policy EXCEPT !.cpus = IF inv.cpus = None THEN @ ELSE inv.cpus,
                   !.memory = IF inv.memory = None THEN @ ELSE inv.memory,
                   !.mechanism = IF inv.mech = None THEN @ ELSE inv.mech]

Override ==
    /\ At("override")
    /\ Validates(Overridden)
    /\ policy' = Overridden
    /\ Goto("resolve")
    /\ UNCHANGED <<inv, proxy, child, status, engine, exit>>

OverrideFails ==
    /\ At("override")
    /\ ~Validates(Overridden)
    /\ Fail

-----------------------------------------------------------------------------
(* Which mechanism *)

\* resolve_mechanism of mechanism_or_auto
ResolveMechanism(kind) ==
    IF kind \notin {None, "auto"} THEN kind
    ELSE IF inv.os \in {"macos", "linux"} THEN "podman" ELSE "mac"

\* prefer_available: run only, and only when the engine is down right now.
PreferAvailable(kind) ==
    IF inv.op = "run" /\ kind = "podman" /\ ~engine /\ inv.os = "macos" THEN "mac" ELSE kind

Resolve ==
    /\ At("resolve")
    /\ policy' = [policy EXCEPT !.mechanism = PreferAvailable(ResolveMechanism(@))]
    /\ Goto("preflight")
    /\ UNCHANGED <<inv, proxy, child, status, engine, exit>>

-----------------------------------------------------------------------------
(* preflight, secrets, proxy *)

PassPreflight ==
    /\ At("preflight")
    /\ Preflight(policy)
    /\ Goto("secrets")
    /\ UNCHANGED <<inv, policy, proxy, child, status, engine, exit>>

PreflightFails ==
    /\ At("preflight")
    /\ ~Preflight(policy)
    /\ Fail

\* resolve_secrets and to_env_pairs: every source has to be there.
ResolveSecrets ==
    /\ At("secrets")
    /\ policy.secrets # "missing"
    /\ Goto("proxy")
    /\ UNCHANGED <<inv, policy, proxy, child, status, engine, exit>>

SecretsFail ==
    /\ At("secrets")
    /\ policy.secrets = "missing"
    /\ Fail

\* Mutant: `let _ =` in place of `let _proxy =`, which drops the handle at once.
StartProxyDropped ==
    /\ At("proxy")
    /\ proxy' = IF policy.mode = "allowlist" THEN "dropped" ELSE proxy
    /\ Goto("spawn")
    /\ UNCHANGED <<inv, policy, child, status, engine, exit>>

\* maybe_start_proxy; the handle lives as long as cmd_create or cmd_run does.
StartProxy ==
    /\ At("proxy")
    /\ proxy' = IF policy.mode = "allowlist" THEN "up" ELSE proxy
    /\ Goto("spawn")
    /\ UNCHANGED <<inv, policy, child, status, engine, exit>>

\* The accept loop ends by itself, as in Proxy's AcceptFails: nobody is told.
ProxyDies ==
    /\ proxy = "up"
    /\ proxy' = "failed"
    /\ UNCHANGED <<inv, stage, policy, child, status, engine, exit>>

\* No port to listen on.
ProxyFails ==
    /\ At("proxy")
    /\ policy.mode = "allowlist"
    /\ Fail

-----------------------------------------------------------------------------
(* Mechanism::create *)

CanCreate ==
    \/ policy.mechanism = "podman" /\ engine
    \/ policy.mechanism = "mac" /\ inv.os = "macos"

\* The runtime is not there, the mechanism is the krun stub, a file cannot be
\* written, or the engine refuses the sandbox.
SpawnFails ==
    /\ At("spawn")
    /\ Fail

Spawn ==
    /\ At("spawn")
    /\ CanCreate
    /\ child' = "running"
    /\ Goto(IF inv.op = "run" THEN "wait" ELSE "report")
    /\ UNCHANGED <<inv, policy, proxy, status, engine, exit>>

\* The command of a run exits or is killed, by its cpu limit for one.
ChildEnds ==
    /\ At("wait")
    /\ child = "running"
    /\ child' = "ended"
    /\ status' \in ExitCodes \cup {Signal}
    /\ UNCHANGED <<inv, stage, policy, proxy, engine, exit>>

\* Mutant: the status is passed on as it is.
ExitCodeRaw(s) == s

\* `exit_code.unwrap_or(0)` of status.code(), which a signal leaves None.
ExitCode(s) == IF s = Signal THEN 0 ELSE s

ReportRun ==
    /\ At("wait")
    /\ child = "ended"
    /\ Finish(ExitCode(status))
    /\ UNCHANGED <<inv, policy, child, status, engine>>

\* create records the sandbox and leaves it running.
ReportCreate ==
    /\ At("report")
    /\ Finish(0)
    /\ UNCHANGED <<inv, policy, child, status, engine>>

\* Recording it fails, as in Ssbx.
RecordFails ==
    /\ At("report")
    /\ Fail

-----------------------------------------------------------------------------

Init ==
    /\ inv \in Invocations
    /\ stage = "load"
    /\ policy = DefaultPolicy
    /\ proxy = "none"
    /\ child = "none"
    /\ status = None
    /\ engine \in BOOLEAN
    /\ exit = None

Next ==
    \/ EngineChanges
    \/ LoadFile \/ LoadFails \/ Override \/ OverrideFails \/ Resolve
    \/ PassPreflight \/ PreflightFails \/ ResolveSecrets \/ SecretsFail
    \/ StartProxy \/ ProxyFails \/ ProxyDies
    \/ Spawn \/ SpawnFails \/ ChildEnds \/ ReportRun \/ ReportCreate \/ RecordFails

Spec == Init /\ [][Next]_vars
=============================================================================
