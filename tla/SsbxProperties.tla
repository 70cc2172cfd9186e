--------------------------- MODULE SsbxProperties ---------------------------
(***************************************************************************)
(* What ssbx keeps true of its state directory and of the sandboxes: under *)
(* any interleaving, when one invocation runs at a time, and when none is  *)
(* killed.  MaxConcurrent and MaxCrashes select the setting.               *)
(***************************************************************************)
EXTENDS Ssbx

Records ==
    [id : Nat, name : Names, mechanism : {"podman", "mac"},
     runtime_id : Nat \cup Names, policy_hash : {Hash(q) : q \in Policies}]

States == [last_used : Names \cup {None}, sandboxes : Seq(Records)]

DataOf(f) == IF f = Index THEN States ELSE Policies

FileType(f, c) ==
    c \in {Absent, Empty, Garbled} \cup [state : {"holds"}, data : DataOf(f)]

WriteType(w) ==
    w.file \in Files /\ w \in [file : {w.file}, data : DataOf(w.file), stage : {"open", "fill"}]

CommandType ==
    [op : Ops, key : Keys \cup Names, mech : Mechs \cup {None, "podman", "mac"},
     policy : Policies \cup {None}]

Containers == [cid : Nat, policy : Policies, ephemeral : BOOLEAN]

\* Option::None is no Some: not a container, a record, a command or a write.
ASSUME NoneAssumption ==
    None \notin Containers \cup Records \cup CommandType \cup
                [file : Files, data : States \cup Policies, stage : {"open", "fill"}]

\* Each variable has its type; only the index is unlike the other files.
TypeOK ==
    /\ DOMAIN file = Files /\ \A f \in Files : FileType(f, file[f])
    /\ container \in [Names -> {None} \cup Containers]
    /\ pc \in [Procs -> {"idle", "open", "create", "limits", "save", "insert",
                         "created", "run", "running", "peek", "get", "touch", "exec", "shown",
                         "set", "update", "remove", "unlink", "kill"}]
    /\ cmd \in [Procs -> {None} \cup CommandType]
    /\ rec \in [Procs -> {None} \cup Records]
    /\ DOMAIN wr = Procs /\ \A p \in Procs : wr[p] = None \/ WriteType(wr[p])
    /\ fresh \in Nat /\ acked \subseteq Nat /\ refused \subseteq Names
    /\ started \in Nat /\ crashes \in Nat

-----------------------------------------------------------------------------
(* Under any interleaving, with invocations killed at any point *)

UniqueRecords(st) ==
    \A i, j \in DOMAIN st.sandboxes :
        \/ st.sandboxes[i].name = st.sandboxes[j].name
        \/ st.sandboxes[i].id = st.sandboxes[j].id
        => i = j

\* Whatever the processes lose of each other's work, an index that parses never
\* lists two sandboxes of one name or of one id: Store::insert's AlreadyExists
\* and the fresh uuid are enough even without a lock (state.rs, insert).
IndexWellFormed == Loaded => UniqueRecords(Stored)

WritingIndex(p) == wr[p] # None /\ wr[p].file = Index

\* The index is there, does not parse, and nobody is about to write it.
Bricked == /\ file[Index] \in {Empty, Garbled}
           /\ \A p \in Procs : ~WritingIndex(p)

\* There is no way back: every command loads the index before it writes it, and
\* Store::open replaces an absent index only.  One torn or overlapping
\* save_index ends the state directory for good.
BrickedForGood == [][Bricked => Bricked']_vars

\* The container of a persistent sandbox goes away only at the hands of an rm
\* that took the very record made with it, for an argument that names that
\* record; never because of another container that had its name, nor of a run
\* of that name (cmd_rm, PodmanMechanism::remove).
OnlyItsRmKills ==
    [][\A n \in Names :
        container[n] # None /\ ~container[n].ephemeral /\ container'[n] # container[n]
        => \E p \in Procs : /\ pc[p] = "kill"
                            /\ rec[p].runtime_id = container[n].cid
                            /\ rec[p].name = n
                            /\ Answers(rec[p], cmd[p].key)]_vars

\* No invocation waits for another: without a lock each one ends, or reaches
\* the program it runs inside the sandbox, whatever the others do and whatever
\* state they leave the files in.
Terminates ==
    \A p \in Procs : pc[p] # "idle" ~> pc[p] \in {"idle", "exec", "running"}

HasTaken(p, i) ==
    pc[p] \in {"unlink", "kill"} /\ rec[p].mechanism = "podman" /\ rec[p].runtime_id = i

Runs(i) == \E n \in Names : container[n] # None /\ container[n].cid = i

\* With the engine up and nobody killed, the container of a record that rm has
\* taken out of the index does stop, also when several rm race for it.
RemovalCompletes ==
    \A i \in 0 .. MaxCommands : (\E p \in Procs : HasTaken(p, i)) ~> ~Runs(i)

-----------------------------------------------------------------------------
(* One invocation at a time *)

Listed == IF Loaded THEN {Stored.sandboxes[i] : i \in DOMAIN Stored.sandboxes} ELSE {}

HasRuntime(r) ==
    \/ /\ r.mechanism = "podman"
       /\ container[r.name] # None /\ container[r.name].cid = r.runtime_id
    \/ r.mechanism = "mac" /\ ~NoInstance(r.name)

\* The index never lists a sandbox whose container or seatbelt instance is not
\* there, wherever an invocation is killed: create makes the runtime before it
\* lists it and rm unlists it before it destroys it.
ListedHasRuntime == \A r \in Listed : HasRuntime(r)

\* last_used is unset exactly when nothing is listed, and else names a listed
\* sandbox, so `ssbx exec` without a name always has the one meant: what
\* remove, touch_last_used, insert and update_policy keep up together.
LastUsedIsListed ==
    Loaded => IF Stored.sandboxes = <<>> THEN Stored.last_used = None
              ELSE HasName(Stored, Stored.last_used)

\* A file is torn only by a killed writer, and never mixes two documents.
TornOnlyByCrash ==
    \A f \in Files :
        /\ file[f] # Garbled
        /\ file[f] = Empty => \/ crashes > 0
                              \/ \E p \in Procs : wr[p] # None /\ wr[p].file = f

\* A sandbox whose create was reported is listed until an rm takes it ("Create
\* a persistent sandbox", main.rs:36).
CreatedIsListed ==
    Loaded /\ (\A p \in Procs : ~WritingIndex(p))
    => acked \subseteq {r.id : r \in Listed}

-----------------------------------------------------------------------------
(* One invocation at a time, none killed: what holds between invocations *)

Quiet == crashes = 0 /\ \A p \in Procs : pc[p] = "idle"

StoredPolicy(r) == file[PolicyFile(r.name)]

\* The hash listed for a sandbox is that of the policy stored for it ("Content
\* hash for change detection", sandbox-policy/src/lib.rs:262).
HashMatches(r) == Readable(StoredPolicy(r)) /\ r.policy_hash = Hash(StoredPolicy(r).data)
HashIsOfStored == Quiet => \A r \in Listed : HashMatches(r)

\* No container runs that is not listed, as long as the engine obeys: a create
\* that insert would refuse is refused by the engine first, and a run leaves
\* nothing.  Excepted are the names of which insert did refuse a create: the
\* engine knows nothing of a sandbox of that name on mac (main.rs, cmd_create).
NoOrphan ==
    Quiet => \A n \in Names \ refused : container[n] # None =>
                \E r \in Listed : r.name = n /\ HasRuntime(r)

\* After any sequence of commands three things hold of what is listed.  There is
\* a stored policy for `policy get` to print (Store::save_policy).  A seatbelt
\* instance enforces one policy: the file its rlimits come from is of the policy
\* its profile is of (MacMechanism::create).  The hash listed is that of the
\* stored policy (Store::update_policy), save after a create that insert
\* refused, by which HashIsOfStored is refuted.  Nothing is said of the stored
\* policy against the enforced one: a policy set, and a refused create of the
\* name on the other mechanism, change the former and not the latter.
CopiesAgree ==
    Quiet => \A r \in Listed :
        /\ Readable(StoredPolicy(r))
        /\ r.mechanism = "mac" => /\ Readable(file[Profile(r.name)])
                                 /\ file[Limits(r.name)] = file[Profile(r.name)]
        /\ r.name \notin refused => HashMatches(r)

-----------------------------------------------------------------------------

\* "For podman use sh inside container" (main.rs:199): the program shell starts
\* is the one for the sandbox it enters.
ShellFits ==
    \A p \in Procs : pc[p] = "exec" /\ cmd[p].op = "shell"
                     => cmd[p].mech = rec[p].mechanism
=============================================================================
