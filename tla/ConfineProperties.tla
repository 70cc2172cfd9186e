------------------------- MODULE ConfineProperties --------------------------
(***************************************************************************)
(* What a process in a sandbox can do, against what a policy asks for.     *)
(***************************************************************************)
EXTENDS Confine

Requests == [mech : Mechs, policy : Policies, workdir : Workdirs]

Nets == SUBSET {"host", "outside"}

Envs == {<<>>} \cup {ResolveSecrets(q.secrets, w) : q \in Policies, w \in Workdirs}

\* The invocations of create and run, and those of exec.
Creates ==
    [step : {"secrets", "proxy", "make", "workdir", "limits", "insert", "running"},
     ephemeral : BOOLEAN, mech : Mechs, policy : Policies, workdir : Workdirs,
     command : Commands, env : Envs]

Execs ==
    [step : {"exec", "running"}, mech : Mechs, workdir : Workdirs, command : Commands, env : {<<>>}]

ASSUME NoneAssumption == None \notin Creates \cup Execs \cup Mechs \cup Nat

\* Each variable has its type.
TypeOK ==
    /\ job \in Creates \cup Execs \cup {None}
    /\ port \in 0 .. StalePort
    /\ proxy # None => proxy \in 1 .. MaxCommands /\ job # None
    /\ listed \in Mechs \cup {None}
    /\ \A box \in {container, process} \ {None} :
            box.read \subseteq HostPaths /\ box.write \subseteq HostPaths /\ box.net \in Nets
    /\ instance.profile \in {Absent, Empty} \/ Readable(instance.profile)
    /\ instance.workdir \in {Absent, Empty} \cup {Holds(w) : w \in Workdirs}
    /\ instance.limits \in {Absent, Empty} \cup {Holds(q) : q \in Policies}
    /\ asked \subseteq Requests
    /\ count \in 0 .. MaxCommands /\ faults \in 0 .. MaxFaults

-----------------------------------------------------------------------------
(* What a policy grants: the directories of resolve_host_paths, which the   *)
(* policy crate has for it and no mechanism uses, and the network mode      *)

Granted(r) == ResolveHostPaths(r.policy, r.workdir)

\* Files are those the listed paths stand for, through links and `..`.  Beyond
\* the policy, a seatbelt process reads the system and shares the temporary
\* directories; a container has its own of both.
MayRead(r) ==
    Below(Real(Granted(r).ro \cup Granted(r).rw)) \cup (IF r.mech = "mac" THEN Below(SystemDirs) ELSE {})

MayWrite(r) ==
    Below(Real(Granted(r).rw)) \cup (IF r.mech = "mac" THEN Below(TempDirs) ELSE {})

\* The network granted.  An allowlist on podman is a proxy to be honoured
\* ("best-effort", sandbox-mech-podman/src/lib.rs:428), on mac a proxy and
\* nothing else of the outside.
MayReach(r) ==
    CASE r.policy.network = "none" -> {}
      [] r.policy.network = "allowlist" -> IF r.mech = "mac" THEN {"host"} ELSE {"host", "outside"}
      [] OTHER -> {"host", "outside"}

WithinGrant(box, r) ==
    /\ box.read \subseteq MayRead(r)
    /\ box.write \subseteq MayWrite(r)
    /\ box.net \subseteq MayReach(r)

\* What podman does not mount although it is listed: paths spelt /workspace..,
\* the root, what ends in `..`, and /tmp, of which the container has its own.
NotMounted(r) ==
    LET ps == Range(r.policy.read_only) \cup Range(r.policy.read_write)
    IN  {Resolve(p, r.workdir) : p \in {q \in ps : StartsWithWorkspace(q)}} \cup {<<>>, <<"tmp">>}
        \cup {d \in Granted(r).ro \cup Granted(r).rw : ~HasFileName(d)}

\* What is granted is there: every directory listed that exists, but for those,
\* and, under seatbelt, for what is written through a link or `..`, which is in
\* the profile as written and so not the path of any file.
CoversGrant(box, r) ==
    LET skipped == IF r.mech = "podman" THEN NotMounted(r) ELSE DOMAIN Denotes
        There(dirs) == Below(Real({d \in dirs \ skipped : Exists(d)}))
    IN  /\ There(Granted(r).ro \cup Granted(r).rw) \subseteq box.read
        /\ There(Granted(r).rw) \subseteq box.write

AsAsked(box, r) == WithinGrant(box, r) /\ CoversGrant(box, r)

\* The requests that can have confined a process: its own, or for an exec those
\* of the creates there were.
Origins(box) ==
    {r \in IF box.op = "run" THEN {box.request} ELSE asked : r.mech = box.mech}

\* sandbox-exec took the first words of the command for options of its own.
AsOptions(box) == box.mech = "mac" /\ TakenForOptions(box.typed)

\* Under seatbelt a process has no file and no network beyond what one request
\* asked for, and of the directories it asked for every one that is written as
\* its real path, be it started by run or by an exec that finds the profile of an
\* earlier create, and wherever a create was killed (generate_seatbelt_profile
\* against resolve_host_paths).  Excepted is a command that begins with a dash.
SeatbeltConfines ==
    process # None /\ process.mech = "mac" /\ ~AsOptions(process)
    => \E r \in Origins(process) : AsAsked(process, r)

\* A container, of a run or a persistent one, has what one request asked for, but
\* for what podman does not mount: the arguments of podman, patched for an
\* allowlist and read by the engine, come to it (build_run_args and mount_spec
\* against resolve_host_paths).
ContainerConfines ==
    /\ process # None /\ process.mech = "podman" => \E r \in Origins(process) : AsAsked(process, r)
    /\ container # None => \E r \in asked : r.mech = "podman" /\ AsAsked(container, r)

-----------------------------------------------------------------------------
(* exec *)

\* The limits of a policy, or on mac none where setrlimit has failed.
Limited(box, r) ==
    IF r.mech = "mac" THEN [cpus |-> box.cpus, memory |-> box.memory] \in Rlimits(r.policy)
    ELSE box.memory = r.policy.memory /\ box.cpus = r.policy.millicores

\* The host directory a process starts in; none when it is the image's.
StartsIn(r) == IF r.mech = "mac" \/ r.policy.workdir THEN r.workdir ELSE <<>>

\* An exec is confined by one create as a whole, in files and network, in
\* limits and in its directory: whatever creates there were, the files of a mac
\* instance are of one of them, unless one was killed or failed to write one.
ConfinedAsOne ==
    process # None /\ process.op = "exec" /\ faults = 0 /\ ~AsOptions(process)
    => \E r \in Origins(process) :
            AsAsked(process, r) /\ Limited(process, r) /\ process.cwd = StartsIn(r)

-----------------------------------------------------------------------------
(* Environment and command *)

\* A run under an allowlist is sent to the proxy of its own invocation, and to
\* no other: whatever SSBX_PROXY_PORT the user's environment has, and whatever
\* secret is named like a proxy variable.
ProxyIsOurs ==
    process # None /\ process.op = "run" /\ process.request.policy.network = "allowlist"
    => /\ proxy # None
       /\ \A v \in ProxyVars :
            v \in DOMAIN process.env /\ process.env[v] \in {Url("gateway", proxy), Url("localhost", proxy)}

\* The secrets a policy names, by the last reference to each variable, except
\* those that an allowlist overrides with its proxy, NO_PROXY among them.
SecretOf(r, var) ==
    LET refs == r.policy.secrets
        last == CHOOSE i \in DOMAIN refs :
                    refs[i].env = var /\ \A j \in DOMAIN refs : refs[j].env = var => j <= i
    IN  LoadSecretBytes(refs[last].from, r.workdir)

HasSecrets(box, r) ==
    \A i \in DOMAIN r.policy.secrets :
        LET var == r.policy.secrets[i].env
        IN  \/ r.policy.network = "allowlist" /\ var \in ProxyVars \cup {"NO_PROXY"}
            \/ var \in DOMAIN box.env /\ box.env[var] = SecretOf(r, var)

\* Every source a policy refers to could be loaded, those overridden by a later
\* reference to their variable too, and what is left is text.
SecretsThere(r) ==
    \A i \in DOMAIN r.policy.secrets :
        LET s == r.policy.secrets[i]
        IN  LoadSecretBytes(s.from, r.workdir) # Missing /\ SecretOf(r, s.env)[1] = "text"

\* A run has the secrets of its policy, and so has an exec in a container, and
\* all of them were there and are text: with one that is not, nothing starts.
SecretsInjected ==
    LET Injected(r) == HasSecrets(process, r) /\ SecretsThere(r)
    IN  process # None =>
            /\ process.op = "run" => Injected(process.request)
            /\ process.op = "exec" /\ process.mech = "podman"
               => \E r \in Origins(process) : Injected(r)

\* "Named secrets to inject as environment variables (resolved by supervisor)."
\* (sandbox-policy/src/lib.rs:38)
SecretsReach ==
    process # None /\ process.op = "exec" => \E r \in Origins(process) : HasSecrets(process, r)

\* What a sandbox executes is what the user typed: no word of the command is
\* taken for an option or for the image.  Excepted are a run on podman under an
\* allowlist, which loses each --network of the command with the word after it,
\* and nothing else, and on mac a command whose first word begins with a dash.
CommandIntact ==
    process # None /\ job.command # <<>> /\ ~AsOptions(process) =>
        \/ process.command = job.command
        \/ /\ process.op = "run" /\ process.mech = "podman"
           /\ process.request.policy.network = "allowlist"
           /\ Words(process.command) = Cleaned(Words(job.command))
=============================================================================
