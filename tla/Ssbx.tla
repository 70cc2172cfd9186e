-------------------------------- MODULE Ssbx --------------------------------
(***************************************************************************)
(* The ssbx command line program at work on one state directory.           *)
(*                                                                         *)
(* Every invocation of ssbx is an operating system process: it opens the   *)
(* store, runs one command to its end and exits.  Nothing locks the        *)
(* directory, so the system calls of several invocations interleave, and   *)
(* an invocation can be killed between any two of them.  A process here is *)
(* a slot that runs one invocation after another.                          *)
(*                                                                         *)
(* One action is one system call (or one call of the container engine)     *)
(* together with the computation before it: a read of the index and what   *)
(* the command decides from it, the truncation of a file, its write, an    *)
(* unlink.  A program step that starts an fs::write leaves it in wr[p];    *)
(* Truncate and Fill perform it, and the program goes on afterwards.       *)
(***************************************************************************)
EXTENDS HostFile, StoreState, FiniteSets

CONSTANTS
    Procs,          \* slots for concurrent ssbx processes
    Names,          \* sandbox names
    Keys,           \* arguments [name] of the commands: names, ids, None
    Policies,       \* policy documents
    Mechs,          \* mechanisms the policies ask for
    Ops,            \* commands users give
    EngineMayFail,  \* TRUE if podman can be missing or down
    MaxCommands,    \* bound: invocations in a behaviour
    MaxConcurrent,  \* bound: invocations alive at once
    MaxCrashes      \* bound: invocations killed

AllOps == {"create", "run", "exec", "shell", "set", "show", "rm"}

ASSUME SsbxAssumption ==
    /\ None \notin Names \cup Policies \cup Nat
    /\ Names \cap Nat = {}
    /\ Keys \subseteq Names \cup Nat \cup {None}
    /\ Mechs \subseteq {"podman", "mac", "krun"}
    /\ Ops \subseteq AllOps
    /\ EngineMayFail \in BOOLEAN
    /\ MaxCommands \in Nat /\ MaxConcurrent \in Nat /\ MaxCrashes \in Nat

VARIABLES
    file,       \* the files of the state directory
    container,  \* podman's container ssbx-<name>, or None
    pc,         \* the next program point of each process
    cmd,        \* the command it runs
    rec,        \* the record it holds in a local variable
    wr,         \* the fs::write it is in the middle of
    fresh,      \* next uuid and container id
    acked,      \* ids of the records a create reported and no rm took since
    refused,    \* names of the creates that insert refused, their work done
    started,    \* invocations so far
    crashes     \* invocations killed so far

vars == <<file, container, pc, cmd, rec, wr, fresh, acked, refused, started,
          crashes>>
hostVars == <<file, container>>
ghostVars == <<acked, refused, started, crashes>>

\* index.json, policies/<name>.yaml, mac/instances/<name>/profile.sb and
\* mac/instances/<name>/policy.yaml.  The instance's workdir file is left out:
\* it is written between the last two, and nothing depends on what it holds.
Index == <<"index", None>>
PolicyFile(n) == <<"policy", n>>
Profile(n) == <<"profile", n>>
Limits(n) == <<"limits", n>>
Files == {Index} \cup ({"policy", "profile", "limits"} \X Names)

\* remove_dir_all and create_dir_all see the instance directory; it is there
\* exactly when its first file is.
NoInstance(n) == file[Profile(n)] = Absent

Commands ==
    LET Form(ops, keys, mechs, policies) ==
            [op : Ops \cap ops, key : keys, mech : mechs, policy : policies]
    IN  UNION {Form({"create", "run"}, Names, Mechs, Policies),
               Form({"exec", "shell", "show"}, Keys, {None}, {None}),
               Form({"set"}, Keys, {None}, Policies),
               Form({"rm"}, Keys \ {None}, {None}, {None})}

FirstPoint(op) ==
    CASE op = "create" -> "create"
      [] op = "run"    -> "run"
      [] op = "rm"     -> "remove"
      [] op = "shell"  -> "peek"
      [] OTHER         -> "get"

Busy == {p \in Procs : pc[p] # "idle"}

-----------------------------------------------------------------------------
(* Building blocks of the actions. *)

\* The process is at program point l and not inside an fs::write.
At(p, l) == pc[p] = l /\ wr[p] = None

Goto(p, l) == pc' = [pc EXCEPT ![p] = l]

\* The invocation ends, with Ok or with an error.
Exit(p) ==
    /\ pc' = [pc EXCEPT ![p] = "idle"]
    /\ cmd' = [cmd EXCEPT ![p] = None]
    /\ rec' = [rec EXCEPT ![p] = None]
    /\ UNCHANGED <<wr, fresh, hostVars, ghostVars>>

\* fs::write(f, d) begins.
Write(p, f, d) == wr' = [wr EXCEPT ![p] = [file |-> f, data |-> d, stage |-> "open"]]

\* A file is unlinked.  A process that has it open keeps writing to the
\* unlinked file, where nobody sees it: for the others its write is over.
Unlink(F) ==
    /\ file' = [f \in Files |-> IF f \in F THEN Absent ELSE file[f]]
    /\ wr' = [q \in Procs |->
                IF wr[q] # None /\ wr[q].stage = "fill" /\ wr[q].file \in F
                THEN None ELSE wr[q]]

\* load_index: what the index file holds when it parses.
Loaded == Readable(file[Index])
Stored == file[Index].data

-----------------------------------------------------------------------------
(* fs::write *)

\* Mutant: open without O_TRUNC, as OpenOptions would.
OpenNoTrunc(p) ==
    /\ wr[p] # None /\ wr[p].stage = "open"
    /\ wr' = [wr EXCEPT ![p].stage = "fill"]
    /\ UNCHANGED <<hostVars, pc, cmd, rec, fresh, ghostVars>>

\* open(O_CREAT | O_TRUNC).  The instance's policy.yaml is written best
\* effort: when its directory is gone the error is dropped.
Truncate(p) ==
    /\ wr[p] # None /\ wr[p].stage = "open"
    /\ LET f == wr[p].file
           gone == f[1] = "limits" /\ NoInstance(f[2])
       IN  IF gone
           THEN wr' = [wr EXCEPT ![p] = None] /\ UNCHANGED file
           ELSE /\ file' = [file EXCEPT ![f] = Empty]
                /\ wr' = [wr EXCEPT ![p].stage = "fill"]
    /\ UNCHANGED <<container, pc, cmd, rec, fresh, ghostVars>>

\* write(2)
Fill(p) ==
    /\ wr[p] # None /\ wr[p].stage = "fill"
    /\ \E c \in Overwrite(file[wr[p].file], wr[p].data) :
            file' = [file EXCEPT ![wr[p].file] = c]
    /\ wr' = [wr EXCEPT ![p] = None]
    /\ UNCHANGED <<container, pc, cmd, rec, fresh, ghostVars>>

-----------------------------------------------------------------------------
(* What every command begins with *)

\* A user, a script or an agent starts ssbx.
Start(p) ==
    /\ pc[p] = "idle"
    /\ started < MaxCommands /\ Cardinality(Busy) < MaxConcurrent
    /\ \E c \in Commands : cmd' = [cmd EXCEPT ![p] = c]
    /\ Goto(p, "open")
    /\ started' = started + 1
    /\ UNCHANGED <<hostVars, rec, wr, fresh, acked, refused, crashes>>

\* Mutant: an index that does not parse is replaced too.
OpenHealing(p) ==
    /\ At(p, "open")
    /\ IF Loaded THEN UNCHANGED wr ELSE Write(p, Index, DefaultState)
    /\ Goto(p, FirstPoint(cmd[p].op))
    /\ UNCHANGED <<hostVars, cmd, rec, fresh, ghostVars>>

\* Store::open looks whether there is an index, and writes the empty one when
\* there was none.
OpenStore(p) ==
    /\ At(p, "open")
    /\ IF file[Index] = Absent THEN Write(p, Index, DefaultState) ELSE UNCHANGED wr
    /\ Goto(p, FirstPoint(cmd[p].op))
    /\ UNCHANGED <<hostVars, cmd, rec, fresh, ghostVars>>

\* Mutant: load_index is tried again until it parses.
LoadAgain(p) ==
    /\ pc[p] \in {"insert", "peek", "get", "touch", "update", "remove"}
    /\ wr[p] = None /\ ~Loaded
    /\ UNCHANGED vars

\* load_index()? with an index that does not parse.
CannotLoad(p) ==
    /\ pc[p] \in {"insert", "peek", "get", "touch", "update", "remove"}
    /\ wr[p] = None /\ ~Loaded
    /\ Exit(p)

-----------------------------------------------------------------------------
(* create and run *)

\* load_policy, preflight or resolve_secrets refuses, or the mechanism is the
\* krun stub: nothing has been touched.  Which policies are refused is the
\* business of Policy.tla.
Refuse(p) ==
    /\ At(p, "create") \/ At(p, "run")
    /\ Exit(p)

NewRecord(p, runtime) ==
    rec' = [rec EXCEPT ![p] =
        [id |-> fresh, name |-> cmd[p].key, mechanism |-> cmd[p].mech,
         runtime_id |-> runtime, policy_hash |-> Hash(cmd[p].policy)]]

\* `podman run -d --name ssbx-<name>`: the engine gives the container a fresh
\* id, and refuses when the name is taken.
CreatePodman(p) ==
    /\ At(p, "create") /\ cmd[p].mech = "podman"
    /\ container[cmd[p].key] = None
    /\ container' = [container EXCEPT ![cmd[p].key] =
                        [cid |-> fresh, policy |-> cmd[p].policy, ephemeral |-> FALSE]]
    /\ NewRecord(p, fresh)
    /\ fresh' = fresh + 1
    /\ Goto(p, "save")
    /\ UNCHANGED <<file, cmd, wr, ghostVars>>

ContainerNameInUse(p) ==
    /\ At(p, "create") \/ At(p, "run")
    /\ cmd[p].mech = "podman"
    /\ container[cmd[p].key] # None
    /\ Exit(p)

\* The seatbelt profile replaces whatever instance of that name there is.
CreateMac(p) ==
    /\ At(p, "create") /\ cmd[p].mech = "mac"
    /\ Write(p, Profile(cmd[p].key), cmd[p].policy)
    /\ Goto(p, "limits")
    /\ UNCHANGED <<hostVars, cmd, rec, fresh, ghostVars>>

\* Mutant: no policy is left for exec, as it once was.
NoLimits(p) ==
    /\ At(p, "limits")
    /\ ~NoInstance(cmd[p].key)
    /\ NewRecord(p, cmd[p].key)
    /\ fresh' = fresh + 1
    /\ Goto(p, "save")
    /\ UNCHANGED <<hostVars, wr, cmd, ghostVars>>

\* Next to it the workdir, whose failure is an error of create, and the policy
\* exec reads rlimits and proxy settings from.
WriteLimits(p) ==
    /\ At(p, "limits")
    /\ ~NoInstance(cmd[p].key)
    /\ Write(p, Limits(cmd[p].key), cmd[p].policy)
    /\ NewRecord(p, cmd[p].key)
    /\ fresh' = fresh + 1
    /\ Goto(p, "save")
    /\ UNCHANGED <<hostVars, cmd, ghostVars>>

InstanceGone(p) ==
    /\ At(p, "limits")
    /\ NoInstance(cmd[p].key)
    /\ Exit(p)

SavePolicy(p) ==
    /\ At(p, "save")
    /\ Write(p, PolicyFile(rec[p].name), cmd[p].policy)
    /\ Goto(p, "insert")
    /\ UNCHANGED <<hostVars, cmd, rec, fresh, ghostVars>>

\* Mutant: insert without its AlreadyExists check.
InsertUnchecked(p) ==
    /\ At(p, "insert") /\ Loaded
    /\ Write(p, Index, Insert(Stored, rec[p]))
    /\ Goto(p, "created")
    /\ UNCHANGED <<hostVars, cmd, rec, fresh, ghostVars>>

InsertRecord(p) ==
    /\ At(p, "insert") /\ Loaded
    /\ ~HasName(Stored, rec[p].name)
    /\ Write(p, Index, Insert(Stored, rec[p]))
    /\ Goto(p, "created")
    /\ UNCHANGED <<hostVars, cmd, rec, fresh, ghostVars>>

\* The runtime made for the record and the policy saved for it stay.
AlreadyExists(p) ==
    /\ At(p, "insert") /\ Loaded
    /\ HasName(Stored, rec[p].name)
    /\ refused' = refused \cup {rec[p].name}
    /\ pc' = [pc EXCEPT ![p] = "idle"]
    /\ cmd' = [cmd EXCEPT ![p] = None]
    /\ rec' = [rec EXCEPT ![p] = None]
    /\ UNCHANGED <<hostVars, wr, fresh, acked, started, crashes>>

\* "created sandbox": the user has the answer.
ReportCreated(p) ==
    /\ At(p, "created")
    /\ acked' = acked \cup {rec[p].id}
    /\ pc' = [pc EXCEPT ![p] = "idle"]
    /\ cmd' = [cmd EXCEPT ![p] = None]
    /\ rec' = [rec EXCEPT ![p] = None]
    /\ UNCHANGED <<hostVars, wr, fresh, refused, started, crashes>>

\* `podman run --rm --name ssbx-<name>`: the names are those of the persistent
\* sandboxes.  A run on mac has a profile of its own and shares nothing.
Run(p) ==
    /\ At(p, "run")
    /\ \/ /\ cmd[p].mech = "podman" /\ container[cmd[p].key] = None
          /\ container' = [container EXCEPT ![cmd[p].key] =
                              [cid |-> fresh, policy |-> cmd[p].policy, ephemeral |-> TRUE]]
          /\ fresh' = fresh + 1
       \/ cmd[p].mech = "mac" /\ UNCHANGED <<container, fresh>>
    /\ Goto(p, "running")
    /\ UNCHANGED <<file, cmd, rec, wr, ghostVars>>

\* Mutant: the container stays, as without --rm.
RunStays(p) ==
    /\ At(p, "running")
    /\ Exit(p)

\* The command of a run ends: its container goes, its status is reported.
RunEnds(p) ==
    /\ At(p, "running")
    /\ container' = IF cmd[p].mech = "podman"
                    THEN [container EXCEPT ![cmd[p].key] = None] ELSE container
    /\ pc' = [pc EXCEPT ![p] = "idle"]
    /\ cmd' = [cmd EXCEPT ![p] = None]
    /\ rec' = [rec EXCEPT ![p] = None]
    /\ UNCHANGED <<file, wr, fresh, ghostVars>>

\* So does that of a run whose ssbx was killed.
OrphanEnds(n) ==
    /\ container[n] # None /\ container[n].ephemeral
    /\ \A p \in Procs : pc[p] = "running" /\ cmd[p].mech = "podman" => cmd[p].key # n
    /\ container' = [container EXCEPT ![n] = None]
    /\ UNCHANGED <<file, pc, cmd, rec, wr, fresh, ghostVars>>

-----------------------------------------------------------------------------
(* exec, shell, policy get, logs, ls: the commands that look a record up *)

\* shell resolves the sandbox once to choose the program to start: sh for a
\* podman container, the host's shell otherwise.  cmd[p].mech remembers which.
PeekShell(p) ==
    /\ At(p, "peek") /\ Loaded
    /\ LET r == GetOrLast(Stored, cmd[p].key)
       IN  /\ r # None
           /\ cmd' = [cmd EXCEPT ![p].mech = r.mechanism]
    /\ Goto(p, "get")
    /\ UNCHANGED <<hostVars, rec, wr, fresh, ghostVars>>

NextAfterGet(op) ==
    CASE op = "set"  -> "set"
      [] op = "show" -> "shown"
      [] OTHER       -> "touch"

Get(p) ==
    /\ At(p, "get") /\ Loaded
    /\ LET r == GetOrLast(Stored, cmd[p].key)
       IN  /\ r # None
           /\ rec' = [rec EXCEPT ![p] = r]
    /\ Goto(p, NextAfterGet(cmd[p].op))
    /\ UNCHANGED <<hostVars, cmd, wr, fresh, ghostVars>>

NotFound(p) ==
    /\ wr[p] = None /\ Loaded
    /\ \/ pc[p] \in {"peek", "get"} /\ GetOrLast(Stored, cmd[p].key) = None
       \/ pc[p] = "remove" /\ Find(Stored, cmd[p].key) = None
       \/ pc[p] = "update" /\ ~HasName(Stored, rec[p].name)
    /\ Exit(p)

\* Mutant: what the user typed is touched, not the name it stands for.
TouchKey(p) ==
    /\ At(p, "touch") /\ Loaded
    /\ Write(p, Index, Touch(Stored, cmd[p].key))
    /\ Goto(p, "exec")
    /\ UNCHANGED <<hostVars, cmd, rec, fresh, ghostVars>>

\* touch_last_used loads the index a second time and saves it.
TouchLastUsed(p) ==
    /\ At(p, "touch") /\ Loaded
    /\ Write(p, Index, Touch(Stored, rec[p].name))
    /\ Goto(p, "exec")
    /\ UNCHANGED <<hostVars, cmd, rec, fresh, ghostVars>>

\* The command runs inside and ends, or the runtime is not there: either way
\* its exit status is reported and the state directory is left alone.
Exec(p) ==
    /\ At(p, "exec")
    /\ Exit(p)

\* policy get, logs and ls print what they read, or fail to read it.
Show(p) ==
    /\ At(p, "shown")
    /\ Exit(p)

-----------------------------------------------------------------------------
(* policy set *)

\* load_file or preflight refuses the new policy.
RefusePolicy(p) ==
    /\ At(p, "set")
    /\ Exit(p)

\* update_policy replaces the stored policy before it looks for the record.
SetPolicy(p) ==
    /\ At(p, "set")
    /\ Write(p, PolicyFile(rec[p].name), cmd[p].policy)
    /\ Goto(p, "update")
    /\ UNCHANGED <<hostVars, cmd, rec, fresh, ghostVars>>

UpdateRecord(p) ==
    /\ At(p, "update") /\ Loaded
    /\ HasName(Stored, rec[p].name)
    /\ Write(p, Index, UpdatePolicy(Stored, rec[p].name, cmd[p].policy))
    /\ Goto(p, "shown")
    /\ UNCHANGED <<hostVars, cmd, rec, fresh, ghostVars>>

-----------------------------------------------------------------------------
(* rm: the record first, the runtime last *)

RemoveRecord(p) ==
    /\ At(p, "remove") /\ Loaded
    /\ Hits(Stored, cmd[p].key) # {}
    /\ rec' = [rec EXCEPT ![p] = Find(Stored, cmd[p].key)]
    /\ acked' = acked \ {Find(Stored, cmd[p].key).id}
    /\ Write(p, Index, RemoveKey(Stored, cmd[p].key))
    /\ Goto(p, "unlink")
    /\ UNCHANGED <<hostVars, cmd, fresh, refused, started, crashes>>

\* Mutant: rm ends without Mechanism::remove.
UnlinkOnly(p) ==
    /\ At(p, "unlink")
    /\ Unlink({PolicyFile(rec[p].name)})
    /\ Goto(p, "shown")
    /\ UNCHANGED <<container, cmd, rec, fresh, ghostVars>>

UnlinkPolicy(p) ==
    /\ At(p, "unlink")
    /\ Unlink({PolicyFile(rec[p].name)})
    /\ Goto(p, "kill")
    /\ UNCHANGED <<container, cmd, rec, fresh, ghostVars>>

\* Mutant: `podman rm -f ssbx-<name>`.
KillByName(p) ==
    /\ At(p, "kill") /\ rec[p].mechanism = "podman"
    /\ container' = [container EXCEPT ![rec[p].name] = None]
    /\ Goto(p, "shown")
    /\ UNCHANGED <<file, cmd, rec, wr, fresh, ghostVars>>

\* Mutant: `podman rm`, which leaves a running container alone.
KillWithoutForce(p) ==
    /\ At(p, "kill") /\ rec[p].mechanism = "podman"
    /\ Goto(p, "shown")
    /\ UNCHANGED <<hostVars, cmd, rec, wr, fresh, ghostVars>>

\* `podman rm -f <container id>`: no container but that one can answer.
KillPodman(p) ==
    /\ At(p, "kill") /\ rec[p].mechanism = "podman"
    /\ container' = [n \in Names |->
            IF container[n] # None /\ container[n].cid = rec[p].runtime_id
            THEN None ELSE container[n]]
    /\ Goto(p, "shown")
    /\ UNCHANGED <<file, cmd, rec, wr, fresh, ghostVars>>

\* No podman binary, or `rm -f` fails, which remove reports as success.
KillFails(p) ==
    /\ EngineMayFail
    /\ At(p, "kill") /\ rec[p].mechanism = "podman"
    /\ Exit(p)

\* remove_dir_all of the directory the record's profile is in.
KillMac(p) ==
    /\ At(p, "kill") /\ rec[p].mechanism = "mac"
    /\ Unlink({Profile(rec[p].runtime_id), Limits(rec[p].runtime_id)})
    /\ Goto(p, "shown")
    /\ UNCHANGED <<container, cmd, rec, fresh, ghostVars>>

-----------------------------------------------------------------------------

\* An invocation is interrupted or killed; what it wrote stays.
Crash(p) ==
    /\ pc[p] # "idle" /\ crashes < MaxCrashes
    /\ pc' = [pc EXCEPT ![p] = "idle"]
    /\ cmd' = [cmd EXCEPT ![p] = None]
    /\ rec' = [rec EXCEPT ![p] = None]
    /\ wr' = [wr EXCEPT ![p] = None]
    /\ crashes' = crashes + 1
    /\ UNCHANGED <<hostVars, fresh, acked, refused, started>>

Init ==
    /\ file = [f \in Files |-> Absent]
    /\ container = [n \in Names |-> None]
    /\ pc = [p \in Procs |-> "idle"]
    /\ cmd = [p \in Procs |-> None]
    /\ rec = [p \in Procs |-> None]
    /\ wr = [p \in Procs |-> None]
    /\ fresh = 0
    /\ acked = {}
    /\ refused = {}
    /\ started = 0
    /\ crashes = 0

CreateStep(p) ==
    \/ Refuse(p) \/ CreatePodman(p) \/ ContainerNameInUse(p)
    \/ CreateMac(p) \/ WriteLimits(p) \/ InstanceGone(p)
    \/ SavePolicy(p) \/ InsertRecord(p) \/ AlreadyExists(p) \/ ReportCreated(p)
    \/ Run(p)

LookUpStep(p) == PeekShell(p) \/ Get(p) \/ NotFound(p) \/ TouchLastUsed(p) \/ Show(p)

SetStep(p) == RefusePolicy(p) \/ SetPolicy(p) \/ UpdateRecord(p)

RmStep(p) ==
    \/ RemoveRecord(p) \/ UnlinkPolicy(p)
    \/ KillPodman(p) \/ KillFails(p) \/ KillMac(p)

\* What the program does by itself once started.  The command a sandbox
\* executes or is run for is not part of it: it may go on for ever.
Work(p) ==
    \/ Truncate(p) \/ Fill(p)
    \/ OpenStore(p) \/ CannotLoad(p)
    \/ CreateStep(p) \/ LookUpStep(p) \/ SetStep(p) \/ RmStep(p)

Next ==
    \/ \E p \in Procs : Start(p) \/ Work(p) \/ Exec(p) \/ RunEnds(p) \/ Crash(p)
    \/ \E n \in Names : OrphanEnds(n)

Spec == Init /\ [][Next]_vars

\* The operating system runs every process that can run.
FairSpec == Spec /\ \A p \in Procs : WF_vars(Work(p))
=============================================================================
