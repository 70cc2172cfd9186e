------------------------------ MODULE Confine -------------------------------
(***************************************************************************)
(* What one sandbox and the ephemeral runs beside it are confined by: the  *)
(* way from a policy and a working directory, through secrets, proxy and   *)
(* mechanism, to the process that a run or an exec starts, when create,    *)
(* run, exec and rm follow one another, and one of them can be killed or   *)
(* fail to write a file.                                                   *)
(* Interleavings and the index are in Ssbx, validation is in Policy.       *)
(***************************************************************************)
EXTENDS HostFile, Secrets, RunArgs, Seatbelt

CONSTANTS
    None,
    Policies,        \* policy documents
    DefaultPolicy,   \* SandboxPolicy::default
    Workdirs,        \* directories ssbx is started in: getcwd's, so real paths
    Commands,        \* what the user has executed; <<>> for nothing
    Dashed,          \* words that begin with "-"
    Mechs,           \* mechanisms the policies come to
    MaxCommands,     \* bound: invocations in a behaviour
    MaxFaults        \* bound: kills and failed writes in it

\* A policy: paths are Absolute(..) or Relative(..), a secret is [env, from].
PolicyType(q) ==
    /\ DOMAIN q = {"workdir", "read_only", "read_write", "network", "millicores", "memory", "secrets"}
    /\ q.workdir \in BOOLEAN
    /\ q.network \in {"none", "allowlist", "unrestricted"}
    /\ q.millicores \in Nat /\ q.memory \in Nat
    /\ \A s \in {q.read_only, q.read_write, q.secrets} : s \in Seq(Range(s))
    /\ \A ps \in {q.read_only, q.read_write} : \A i \in DOMAIN ps : ps[i].absolute \in BOOLEAN

ASSUME ConfineAssumption ==
    /\ \A q \in Policies \cup {DefaultPolicy} : PolicyType(q)
    /\ Workdirs \subseteq HostPaths \ {<<>>}
    /\ \A c \in Commands : c \in Seq(Range(c))
    /\ Mechs \subseteq {"podman", "mac"}
    /\ MaxCommands \in Nat /\ MaxFaults \in Nat

VARIABLES
    job,        \* the invocation that runs: its request and what it does next
    port,       \* SSBX_PROXY_PORT in its environment; 0 when not set
    proxy,      \* the port of its allowlist proxy, None when it has none
    listed,     \* mechanism of the sandbox's record, None when not listed
    container,  \* podman's container of the sandbox, or None
    instance,   \* profile.sb, workdir and policy.yaml of the mac instance
    process,    \* what runs in a sandbox at the hands of the invocation
    asked,      \* the creates that got to the point of making something
    count, faults

vars == <<job, port, proxy, listed, container, instance, process, asked, count, faults>>

NoInstance == [profile |-> Absent, workdir |-> Absent, limits |-> Absent]

StalePort == MaxCommands + 1   \* left in the user's environment by somebody

At(step) == job # None /\ job.step = step
Goto(step) == job' = [job EXCEPT !.step = step]

\* Mutant: the handle is leaked, and the proxy stays.
EndLeaks == job' = None /\ port' = 0 /\ UNCHANGED proxy

\* The invocation ends, and with it its environment and its proxy.
End == job' = None /\ port' = 0 /\ proxy' = None

-----------------------------------------------------------------------------
(* create and run, up to the mechanism *)

Begin(j) ==
    /\ job = None /\ count < MaxCommands
    /\ job' = j
    /\ port' \in {0, StalePort}
    /\ count' = count + 1
    /\ UNCHANGED <<proxy, listed, container, instance, process, asked, faults>>

BeginCreate ==
    \E q \in Policies, w \in Workdirs, m \in Mechs, c \in Commands, e \in BOOLEAN :
        /\ e \/ c = <<>>
        /\ Begin([step |-> "secrets", ephemeral |-> e, mech |-> m,
                  policy |-> q, workdir |-> w, command |-> c, env |-> <<>>])

\* inject_secrets, and the two refusals of it.
InjectSecrets ==
    /\ At("secrets")
    /\ Resolvable(job.policy.secrets, job.workdir)
    /\ LET map == ResolveSecrets(job.policy.secrets, job.workdir)
       IN  /\ IsText(map)
           /\ job' = [job EXCEPT !.env = map, !.step = "proxy"]
    /\ UNCHANGED <<port, proxy, listed, container, instance, process, asked, count, faults>>

SecretsFail ==
    /\ At("secrets")
    /\ Resolvable(job.policy.secrets, job.workdir)
       => ~IsText(ResolveSecrets(job.policy.secrets, job.workdir))
    /\ End
    /\ UNCHANGED <<listed, container, instance, process, asked, count, faults>>

\* Mutant: a port that is set already is kept.
KeepPort ==
    /\ At("proxy")
    /\ IF job.policy.network = "allowlist"
       THEN proxy' = count /\ port' = IF port = 0 THEN count ELSE port
       ELSE UNCHANGED <<proxy, port>>
    /\ Goto("make")
    /\ UNCHANGED <<listed, container, instance, process, asked, count, faults>>

\* A proxy has a port nobody else has; set_var overrides what is set.
MaybeStartProxy ==
    /\ At("proxy")
    /\ IF job.policy.network = "allowlist"
       THEN proxy' = count /\ port' = count
       ELSE UNCHANGED <<proxy, port>>
    /\ Goto("make")
    /\ UNCHANGED <<listed, container, instance, process, asked, count, faults>>

Args == CreateArgs(job, port)

\* The request as far as it says how to confine.
Request == [mech |-> job.mech, policy |-> job.policy, workdir |-> job.workdir]

\* A process starts in a sandbox, and the invocation waits for it.  What was
\* typed is kept beside what runs.
Spawn(op, request, b, command) ==
    process' = [op |-> op, mech |-> job.mech, request |-> request, command |-> command,
                typed |-> job.command, read |-> b.read, write |-> b.write, net |-> b.net,
                env |-> b.env, cwd |-> b.cwd, cpus |-> b.cpus, memory |-> b.memory]

\* spawn_sandboxed: what the profile allows, limits as far as they are taken,
\* and the rest from the policy.
Sandboxed(profile, lim, policy, workdir, env) ==
    LET box == Allowed(profile)
    IN  [read |-> box.read, write |-> box.write, net |-> box.net,
         env |-> SpawnEnv(policy, HostEnv, env, port, ProxyVars),
         cwd |-> workdir, cpus |-> lim.cpus, memory |-> lim.memory]

Shell(command, shell) == IF command = <<>> THEN shell ELSE command

\* The command follows `sandbox-exec -f PROFILE` with no `--` between.
TakenForOptions(command) == command # <<>> /\ Head(command) \in Dashed

\* What sandbox-exec makes of `-f PROFILE COMMAND..`.  A first word with a dash
\* is an option of its own, and so may words after it be, which can name another
\* profile; the rest is the command.  External.
SandboxExec(profile, command) ==
    IF TakenForOptions(command)
    THEN [profile : {profile, AllowsAll},
          command : {SubSeq(command, k, Len(command)) : k \in 2 .. Len(command)}]
    ELSE {[profile |-> profile, command |-> Shell(command, <<"zsh">>)]}

\* The process it starts, in the directory and with the limits given it.
SpawnSandboxed(op, request, profile, policy, workdir) ==
    \E x \in SandboxExec(profile, job.command), lim \in Rlimits(policy) :
        Spawn(op, request, Sandboxed(x.profile, lim, policy, workdir, job.env), x.command)

-----------------------------------------------------------------------------
(* Mechanism::create of podman *)

\* The container's working directory is that of the host which is mounted.
Made(c) == [c EXCEPT !.cwd = IF @ = "workspace" THEN job.workdir ELSE <<>>]

CreatePodman ==
    /\ At("make") /\ job.mech = "podman" /\ ~job.ephemeral
    /\ Mountable(Args) /\ container = None
    /\ container' = Made(ContainerOf(Args))
    /\ asked' = asked \cup {Request}
    /\ Goto("insert")
    /\ UNCHANGED <<port, proxy, listed, instance, process, count, faults>>

RunPodman ==
    /\ At("make") /\ job.mech = "podman" /\ job.ephemeral
    /\ Mountable(Args)
    /\ LET c == Made(ContainerOf(Args)) IN Spawn("run", Request, c, c.command)
    /\ Goto("running")
    /\ UNCHANGED <<port, proxy, listed, container, instance, asked, count, faults>>

\* Two volumes in one place, or a container of that name: a run has its own.
EngineRefuses ==
    /\ At("make") /\ job.mech = "podman"
    /\ ~Mountable(Args) \/ (~job.ephemeral /\ container # None)
    /\ End
    /\ UNCHANGED <<listed, container, instance, process, asked, count, faults>>

-----------------------------------------------------------------------------
(* Mechanism::create of mac *)

Profile == GenerateSeatbeltProfile(job.policy, job.workdir)

RunMac ==
    /\ At("make") /\ job.mech = "mac" /\ job.ephemeral
    /\ SpawnSandboxed("run", Request, Profile, job.policy, job.workdir)
    /\ Goto("running")
    /\ UNCHANGED <<port, proxy, listed, container, instance, asked, count, faults>>

\* Which file of the instance a step writes, what into it, and what follows.
Writes == [make |-> "profile", workdir |-> "workdir", limits |-> "limits"]
Follows == [make |-> "workdir", workdir |-> "limits", limits |-> "insert"]

Written ==
    [profile |-> Profile, workdir |-> job.workdir, limits |-> job.policy]

InInstance(step) ==
    At(step) /\ job.mech = "mac" /\ ~job.ephemeral

\* Mutant: the files of an instance that is there are left as they are.
KeepFiles(step) ==
    /\ InInstance(step)
    /\ LET f == Writes[step]
       IN  instance' = IF instance[f] = Absent \/ f = "profile"
                       THEN [instance EXCEPT ![f] = Holds(Written[f])] ELSE instance
    /\ asked' = asked \cup {Request}
    /\ Goto(Follows[step])
    /\ UNCHANGED <<port, proxy, listed, container, process, count, faults>>

\* profile.sb, then workdir, then policy.yaml, over those of an instance that
\* is there.
WriteInstance(step) ==
    /\ InInstance(step)
    /\ LET f == Writes[step] IN instance' = [instance EXCEPT ![f] = Holds(Written[f])]
    /\ asked' = asked \cup {Request}
    /\ Goto(Follows[step])
    /\ UNCHANGED <<port, proxy, listed, container, process, count, faults>>

\* The last of them is allowed to fail: create goes on with policy.yaml as it
\* was, or empty.
LimitsNotWritten ==
    /\ InInstance("limits") /\ faults < MaxFaults
    /\ instance' \in {instance, [instance EXCEPT !.limits = Empty]}
    /\ Goto("insert")
    /\ faults' = faults + 1
    /\ UNCHANGED <<port, proxy, listed, container, process, asked, count>>

-----------------------------------------------------------------------------
(* Store::insert, and rm *)

InsertRecord ==
    /\ At("insert") /\ listed = None
    /\ listed' = job.mech
    /\ End
    /\ UNCHANGED <<container, instance, process, asked, count, faults>>

AlreadyExists ==
    /\ At("insert") /\ listed # None
    /\ End
    /\ UNCHANGED <<listed, container, instance, process, asked, count, faults>>

\* The mechanism of the record removes what it made.
Rm ==
    /\ job = None /\ listed # None /\ count < MaxCommands
    /\ IF listed = "podman" THEN container' = None /\ UNCHANGED instance
                            ELSE instance' = NoInstance /\ UNCHANGED container
    /\ listed' = None
    /\ count' = count + 1
    /\ UNCHANGED <<job, port, proxy, process, asked, faults>>

-----------------------------------------------------------------------------
(* exec *)

\* cmd_exec: no environment, and /workspace for the working directory.
BeginExec ==
    /\ listed # None
    /\ \E c \in Commands, w \in Workdirs :
            Begin([step |-> "exec", mech |-> listed, workdir |-> w, command |-> c, env |-> <<>>])

\* `exec -w /workspace` in a container that has none is an error of the engine.
ExecPodman ==
    /\ At("exec") /\ job.mech = "podman"
    /\ container # None /\ container.cwd # <<>>
    /\ Spawn("exec", None, container, Shell(job.command, <<"sh">>))
    /\ Goto("running")
    /\ UNCHANGED <<port, proxy, listed, container, instance, asked, count, faults>>

\* policy.yaml, or the default policy when it is not there or does not parse.
InstancePolicy ==
    IF Readable(instance.limits) THEN instance.limits.data ELSE DefaultPolicy

\* parse_mac_runtime: the directory of create, or that of exec without the file.
InstanceWorkdir ==
    IF instance.workdir = Absent THEN job.workdir ELSE instance.workdir.data

\* sandbox-exec refuses a profile that is not whole, and the working directory
\* of an empty file, "", cannot be entered.
ExecMac ==
    /\ At("exec") /\ job.mech = "mac"
    /\ Readable(instance.profile) /\ instance.workdir # Empty
    /\ SpawnSandboxed("exec", None, instance.profile.data, InstancePolicy, InstanceWorkdir)
    /\ Goto("running")
    /\ UNCHANGED <<port, proxy, listed, container, instance, asked, count, faults>>

ExecFails ==
    /\ At("exec")
    /\ IF job.mech = "podman" THEN container = None \/ container.cwd = <<>>
       ELSE ~Readable(instance.profile) \/ instance.workdir = Empty
    /\ End
    /\ UNCHANGED <<listed, container, instance, process, asked, count, faults>>

\* sandbox-exec does not know an option, or finds no command after them.
SandboxExecRefuses ==
    /\ At("exec") \/ (At("make") /\ job.ephemeral)
    /\ job.mech = "mac" /\ TakenForOptions(job.command)
    /\ End
    /\ UNCHANGED <<listed, container, instance, process, asked, count, faults>>

\* The command ends, and so does the invocation that waits for it.
ProcessEnds ==
    /\ At("running")
    /\ process' = None
    /\ End
    /\ UNCHANGED <<listed, container, instance, asked, count, faults>>

-----------------------------------------------------------------------------

\* Killed before the next step, or inside its fs::write, which leaves the file
\* empty, as one of profile.sb or workdir that fails does: create ends there.
\* What runs in a sandbox by then is not followed any further.
Killed ==
    /\ job # None /\ faults < MaxFaults
    /\ \/ UNCHANGED <<instance, asked>>
       \/ \E s \in DOMAIN Writes :
            /\ InInstance(s)
            /\ instance' = [instance EXCEPT ![Writes[s]] = Empty]
            /\ asked' = asked \cup {Request}
    /\ End
    /\ process' = None
    /\ faults' = faults + 1
    /\ UNCHANGED <<listed, container, count>>

Init ==
    /\ job = None /\ port = 0 /\ proxy = None
    /\ listed = None /\ container = None /\ instance = NoInstance
    /\ process = None
    /\ asked = {} /\ count = 0 /\ faults = 0

Next ==
    \/ BeginCreate \/ InjectSecrets \/ SecretsFail \/ MaybeStartProxy
    \/ CreatePodman \/ RunPodman \/ EngineRefuses
    \/ RunMac \/ \E s \in DOMAIN Writes : WriteInstance(s)
    \/ LimitsNotWritten \/ SandboxExecRefuses
    \/ InsertRecord \/ AlreadyExists \/ Rm
    \/ BeginExec \/ ExecPodman \/ ExecMac \/ ExecFails
    \/ ProcessEnds \/ Killed

Spec == Init /\ [][Next]_vars
=============================================================================
