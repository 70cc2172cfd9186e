---------------------------- MODULE SerialProofs ----------------------------
(***************************************************************************)
(* One invocation at a time (MaxConcurrent = 1), any number of them, over  *)
(* any names and policies, any of them killed at any point: what the index *)
(* says of the sandboxes is true, and no file is torn but by a kill.       *)
(***************************************************************************)
EXTENDS SsbxProofs, SsbxRegistry, FiniteSetTheorems

-----------------------------------------------------------------------------
(* The invariant *)

\* At most one process runs, and only it can be inside an fs::write.
Alone ==
    /\ \A p, q \in Procs : pc[p] # "idle" /\ pc[q] # "idle" => p = q
    /\ \A p \in Procs : wr[p] # None => pc[p] # "idle"

Fills(p, f) == wr[p] # None /\ wr[p].file = f /\ wr[p].stage = "fill"

\* A write(2) finds its file as open(O_TRUNC) left it.
TornInv ==
    /\ \A f \in Files : file[f] # Garbled
    /\ \A f \in Files : file[f] = Empty => crashes > 0 \/ \E p \in Procs : Fills(p, f)
    /\ \A p \in Procs, f \in Files : Fills(p, f) => file[f] = Empty

\* The records the index lists once the write under way, if any, is done.
Coming ==
    IF \E q \in Procs : WritingIndex(q)
    THEN UNION {RecordsOf(wr[q].data) : q \in {x \in Procs : WritingIndex(x)}}
    ELSE Listed

LastUsedOK(d) ==
    IF d.sandboxes = <<>> THEN d.last_used = None ELSE HasName(d, d.last_used)

\* What is true of every index document, stored or about to be.
DocInv(d) ==
    /\ LastUsedOK(d)
    /\ \A r \in RecordsOf(d) : HasRuntime(r)
    /\ acked \subseteq IdsIn(d)

\* What the process counts on at its program point.
PointInv(p) ==
    /\ pc[p] \in {"save", "insert"} => HasRuntime(rec[p])
    /\ pc[p] = "created" => rec[p] \in Coming
    /\ pc[p] = "touch" => \E r \in Coming : r.name = rec[p].name
    /\ pc[p] \in {"unlink", "kill"} => \A r \in Coming : r.name # rec[p].name
    /\ pc[p] = "kill" => wr[p] = None

DocsInv ==
    /\ Loaded => DocInv(Stored)
    /\ \A p \in Procs : WritingIndex(p) => DocInv(wr[p].data)
    /\ file[Index] = Absent => acked = {}

Base == RuntimeInv /\ IndexInv /\ Alone /\ TornInv

SerialInv == Base /\ DocsInv /\ \A p \in Procs : PointInv(p)

-----------------------------------------------------------------------------
(* The steps, with those that only end the invocation taken together *)

Quits(p) == Exit(p) /\ wr[p] = None /\ pc[p] # "idle"

\* The steps of the system, by the program points they are taken from.
LEMMA Steps ==
    ASSUME [Next]_vars
    PROVE  \/ UNCHANGED vars
           \/ \E n \in Names : OrphanEnds(n)
           \/ \E p \in Procs :
                \/ Start(p) \/ Crash(p) \/ Truncate(p) \/ Fill(p) \/ OpenStore(p) \/ Quits(p)
                \/ CreatePodman(p) \/ CreateMac(p) \/ WriteLimits(p) \/ SavePolicy(p)
                \/ InsertRecord(p) \/ AlreadyExists(p) \/ ReportCreated(p)
                \/ Run(p) \/ RunEnds(p) \/ PeekShell(p) \/ Get(p) \/ TouchLastUsed(p)
                \/ SetPolicy(p) \/ UpdateRecord(p) \/ RemoveRecord(p) \/ UnlinkPolicy(p)
                \/ KillPodman(p) \/ KillMac(p)
<1>1. ASSUME NEW p \in Procs
      PROVE  /\ Refuse(p) \/ ContainerNameInUse(p) \/ InstanceGone(p) \/ Show(p) => Quits(p)
             /\ CannotLoad(p) \/ NotFound(p) \/ RefusePolicy(p) \/ KillFails(p) \/ Exec(p) => Quits(p)
  BY DEF Refuse, ContainerNameInUse, InstanceGone, Show, CannotLoad, NotFound, RefusePolicy,
         KillFails, Exec, Quits, At
<1>. QED
  BY <1>1 DEF Next, Work, CreateStep, LookUpStep, SetStep, RmStep

-----------------------------------------------------------------------------
(* One process at a time *)

\* Where one process is busy no other is.
LEMMA Idle ==
    ASSUME Alone, NEW p \in Procs, pc[p] # "idle"
    PROVE  \A q \in Procs : q # p => pc[q] = "idle" /\ wr[q] = None
BY DEF Alone

\* One invocation at a time stays one at a time.
LEMMA AloneStep ==
    ASSUME MaxConcurrent = 1, TypeInv, Alone, [Next]_vars
    PROVE  Alone'
<1>. USE DEF TypeInv, TypeOK
<1>0. ASSUME NEW p \in Procs, pc[p] # "idle",
             \A q \in Procs : q # p => pc'[q] = pc[q] /\ wr'[q] \in {wr[q], None},
             wr'[p] # None => pc'[p] # "idle"
      PROVE  Alone'
  BY <1>0 DEF Alone
<1>1. CASE UNCHANGED vars
  BY <1>1 DEF Alone, vars
<1>2. ASSUME NEW n \in Names, OrphanEnds(n) PROVE Alone'
  BY <1>2 DEF Alone, OrphanEnds
<1>3. ASSUME NEW p \in Procs, Start(p) PROVE Alone'
  <2>1. ASSUME NEW q \in Procs, pc[q] # "idle" PROVE FALSE
    <3>1. Busy = {q}
      BY <2>1 DEF Busy, Alone
    <3>2. Cardinality(Busy) = 1
      BY <3>1, FS_Singleton
    <3>. QED
      BY <1>3, <3>2 DEF Start
  <2>. QED
    BY <1>3, <2>1 DEF Start, Goto, Alone
<1>4. ASSUME NEW p \in Procs, Crash(p) \/ Quits(p) \/ Truncate(p) \/ Fill(p) \/ OpenStore(p)
      PROVE  Alone'
  <2>1. CASE Crash(p) \/ Quits(p)
    BY <1>0, <2>1 DEF Crash, Quits, Exit
  <2>2. CASE Truncate(p) \/ Fill(p)
    BY <1>0, <2>2 DEF Truncate, Fill, Alone
  <2>3. CASE OpenStore(p)
    <3>1. FirstPoint(cmd[p].op) # "idle"
      BY DEF FirstPoint
    <3>. QED
      BY <1>0, <2>3, <3>1 DEF OpenStore, At, Goto, Write
  <2>. QED
    BY <1>4, <2>1, <2>2, <2>3
<1>5. ASSUME NEW p \in Procs, CreatePodman(p) \/ CreateMac(p) \/ WriteLimits(p) \/ SavePolicy(p)
      PROVE  Alone'
  BY <1>0, <1>5 DEF CreatePodman, CreateMac, WriteLimits, SavePolicy, At, Goto, Write
<1>6. ASSUME NEW p \in Procs, InsertRecord(p) \/ AlreadyExists(p) \/ ReportCreated(p) \/ Run(p)
      PROVE  Alone'
  BY <1>0, <1>6 DEF InsertRecord, AlreadyExists, ReportCreated, Run, At, Goto, Write, hostVars
<1>7. ASSUME NEW p \in Procs, RunEnds(p) \/ PeekShell(p) \/ Get(p) \/ TouchLastUsed(p)
      PROVE  Alone'
  <2>1. NextAfterGet(cmd[p].op) # "idle"
    BY DEF NextAfterGet
  <2>. QED
    BY <1>0, <1>7, <2>1 DEF RunEnds, PeekShell, Get, TouchLastUsed, At, Goto, Write
<1>8. ASSUME NEW p \in Procs, SetPolicy(p) \/ UpdateRecord(p) \/ RemoveRecord(p)
      PROVE  Alone'
  BY <1>0, <1>8 DEF SetPolicy, UpdateRecord, RemoveRecord, At, Goto, Write
<1>9. ASSUME NEW p \in Procs, UnlinkPolicy(p) \/ KillPodman(p) \/ KillMac(p)
      PROVE  Alone'
  BY <1>0, <1>9 DEF UnlinkPolicy, KillPodman, KillMac, At, Goto, Unlink
<1>. QED
  BY <1>1, <1>2, <1>3, <1>4, <1>5, <1>6, <1>7, <1>8, <1>9, Steps

-----------------------------------------------------------------------------
(* Files *)

\* The files of different kinds and names are different.
LEMMA FilesDiffer ==
    \A m, n :
        /\ {PolicyFile(n), Profile(n), Limits(n)} \cap {Index} = {}
        /\ PolicyFile(m) # Profile(n) /\ PolicyFile(m) # Limits(n) /\ Profile(m) # Limits(n)
        /\ PolicyFile(m) = PolicyFile(n) => m = n
        /\ Profile(m) = Profile(n) => m = n
        /\ Limits(m) = Limits(n) => m = n
BY DEF PolicyFile, Profile, Limits, Index

\* The files of a name are files.
LEMMA FilesOf ==
    /\ Index \in Files
    /\ \A n \in Names : {PolicyFile(n), Profile(n), Limits(n)} \subseteq Files
BY DEF Files, PolicyFile, Profile, Limits, Index

\* Contents are told apart by their state.
LEMMA ContentsDiffer ==
    /\ Absent # Empty /\ Absent # Garbled /\ Empty # Garbled
    /\ \A d : Holds(d) \notin {Absent, Empty, Garbled} /\ Readable(Holds(d)) /\ Holds(d).data = d
    /\ ~ Readable(Absent) /\ ~ Readable(Empty) /\ ~ Readable(Garbled)
BY DEF Absent, Empty, Garbled, Holds, Readable

\* Beginning a write leaves p at its first system call.
LEMMA WriteBegins ==
    ASSUME TypeInv, NEW p \in Procs, NEW f \in Files, NEW d \in DataOf(f), Write(p, f, d)
    PROVE  /\ wr'[p] # None /\ wr'[p].file = f /\ wr'[p].data = d /\ wr'[p].stage = "open"
           /\ \A q \in Procs : q # p => wr'[q] = wr[q]
<1>1. /\ wr'[p] = [file |-> f, data |-> d, stage |-> "open"]
      /\ \A q \in Procs : q # p => wr'[q] = wr[q]
  BY DEF TypeInv, TypeOK, Write
<1>2. [file |-> f, data |-> d, stage |-> "open"]
        \in [file : Files, data : States \cup Policies, stage : {"open", "fill"}]
  BY DEF DataOf
<1>3. wr'[p] # None
  BY <1>1, <1>2, NoneAssumption
<1>. QED
  BY <1>1, <1>3

\* The writes of other files than the index hold a policy.
LEMMA OtherWrites ==
    ASSUME TypeInv, NEW p \in Procs,
           CreateMac(p) \/ WriteLimits(p) \/ SavePolicy(p) \/ SetPolicy(p)
    PROVE  /\ \E f \in Files : \E d \in DataOf(f) : Write(p, f, d) /\ f # Index
           /\ wr[p] = None /\ file' = file /\ crashes' = crashes
<1>1. cmd[p].policy \in Policies
  BY Running DEF CreateMac, WriteLimits, SavePolicy, SetPolicy, At, Points, Complete
<1>2. CASE CreateMac(p) \/ WriteLimits(p)
  <2>1. cmd[p].key \in Names
    BY <1>2, Running DEF CreateMac, WriteLimits, At, Points, Complete
  <2>. QED
    BY <1>1, <1>2, <2>1, FilesOf, FilesDiffer
    DEF CreateMac, WriteLimits, DataOf, At, hostVars, ghostVars
<1>3. CASE SavePolicy(p) \/ SetPolicy(p)
  <2>1. rec[p].name \in Names
    BY <1>3, Running DEF SavePolicy, SetPolicy, At, HoldingPoints, Records
  <2>. QED
    BY <1>1, <1>3, <2>1, FilesOf, FilesDiffer
    DEF SavePolicy, SetPolicy, DataOf, At, hostVars, ghostVars
<1>. QED
  BY <1>2, <1>3

\* A step that writes no file.
LEMMA TornFrame ==
    ASSUME TornInv, file' = file, crashes' = crashes,
           \A q \in Procs, f \in Files : (Fills(q, f)' <=> Fills(q, f))
    PROVE  TornInv'
BY DEF TornInv

\* A step that begins no write and leaves the files alone, or begins one.
LEMMA TornWrite ==
    ASSUME TypeInv, TornInv, NEW p \in Procs, wr[p] = None, file' = file, crashes' = crashes,
           NEW f \in Files, NEW d \in DataOf(f), Write(p, f, d)
    PROVE  TornInv'
<1>1. \A q \in Procs, g \in Files : (Fills(q, g)' <=> Fills(q, g))
  BY WriteBegins DEF Fills
<1>. QED
  BY <1>1, TornFrame

\* A step that removes files.
LEMMA TornUnlink ==
    ASSUME TypeInv, Alone, TornInv, NEW p \in Procs, At(p, pc[p]), pc[p] # "idle", NEW F, Unlink(F),
           crashes' = crashes
    PROVE  TornInv' /\ \A q \in Procs : wr[q] = None /\ wr'[q] = None
<1>1. \A q \in Procs : wr[q] = None
  BY Idle DEF At
<1>2. \A q \in Procs : wr'[q] = None
  BY <1>1 DEF Unlink, TypeInv, TypeOK
<1>3. \A f \in Files : file'[f] \in {file[f], Absent}
  BY DEF Unlink
<1>. QED
  BY <1>1, <1>2, <1>3, ContentsDiffer DEF TornInv, Fills

\* A file that is truncated is about to be written.
LEMMA TornTruncate ==
    ASSUME TypeInv, Alone, TornInv, NEW p \in Procs, Truncate(p)
    PROVE  TornInv'
<1>. DEFINE f == wr[p].file
<1>. USE DEF TypeInv, TypeOK
<1>1. WriteType(wr[p]) /\ f \in Files /\ wr[p].stage = "open" /\ wr[p] # None /\ crashes' = crashes
  BY DEF Truncate, WriteType, ghostVars
<1>2. \A q \in Procs, g \in Files : ~ Fills(q, g)
  BY <1>1, Idle DEF Fills, Alone
<1>3. CASE wr' = [wr EXCEPT ![p] = None] /\ file' = file
  <2>1. \A q \in Procs, g \in Files : ~ Fills(q, g)'
    BY <1>2, <1>3 DEF Fills
  <2>. QED
    BY <1>1, <1>2, <1>3, <2>1, TornFrame
<1>4. CASE file' = [file EXCEPT ![f] = Empty] /\ wr' = [wr EXCEPT ![p].stage = "fill"]
  <2>1. wr'[p] = [wr[p] EXCEPT !.stage = "fill"]
    BY <1>4
  <2>2. WriteType(wr'[p])
    BY <1>1, <2>1 DEF WriteType
  <2>3. wr'[p] \in [file : Files, data : States \cup Policies, stage : {"open", "fill"}]
    BY <2>2 DEF WriteType, DataOf
  <2>4. wr'[p] # None
    BY <2>3, NoneAssumption
  <2>5. wr'[p].file = f /\ wr'[p].stage = "fill"
    BY <1>1, <2>1 DEF WriteType
  <2>6. Fills(p, f)'
    BY <2>4, <2>5 DEF Fills
  <2>7. \A q \in Procs, g \in Files : Fills(q, g)' => g = f
    BY <1>2, <1>4, <2>5 DEF Fills
  <2>. QED
    BY <1>1, <1>2, <1>4, <2>6, <2>7, ContentsDiffer DEF TornInv
<1>. QED
  BY <1>3, <1>4 DEF Truncate

\* A write puts the document of the writer in the file.
LEMMA FillWrites ==
    ASSUME TypeInv, TornInv, NEW p \in Procs, Fill(p)
    PROVE  /\ wr[p].file \in Files /\ wr[p].data \in DataOf(wr[p].file)
           /\ file' = [file EXCEPT ![wr[p].file] = Holds(wr[p].data)]
<1>1. WriteType(wr[p]) /\ wr[p] # None /\ wr[p].stage = "fill"
  BY DEF Fill, TypeInv, TypeOK
<1>2. wr[p].file \in Files /\ wr[p].data \in DataOf(wr[p].file)
  BY <1>1 DEF WriteType
<1>3. file[wr[p].file] = Empty
  BY <1>1, <1>2 DEF TornInv, Fills
<1>. QED
  BY <1>2, <1>3 DEF Fill, Overwrite

\* A file that was truncated is whole again.
LEMMA TornFill ==
    ASSUME TypeInv, Alone, TornInv, NEW p \in Procs, Fill(p)
    PROVE  TornInv'
<1>. DEFINE f == wr[p].file
<1>. USE DEF TypeInv, TypeOK
<1>1. f \in Files /\ file' = [file EXCEPT ![f] = Holds(wr[p].data)] /\ Fills(p, f)
  BY FillWrites DEF Fill, Fills
<1>2. \A q \in Procs : q # p => wr[q] = None
  BY Idle DEF Alone, Fill
<1>3. \A q \in Procs, g \in Files : ~ Fills(q, g)' /\ (Fills(q, g) => g = f)
  BY <1>2 DEF Fill, Fills
<1>. QED
  BY <1>1, <1>3, ContentsDiffer DEF TornInv, Fill, ghostVars

\* No step but a kill leaves a torn file.
LEMMA TornStep ==
    ASSUME TypeInv, Alone, TornInv, [Next]_vars
    PROVE  TornInv'
<1>. USE DEF TypeInv, TypeOK
<1>0. ASSUME UNCHANGED <<file, wr, crashes>> PROVE TornInv'
  BY <1>0, TornFrame DEF Fills
<1>1. CASE UNCHANGED vars
  BY <1>0, <1>1 DEF vars
<1>2. ASSUME NEW n \in Names, OrphanEnds(n) PROVE TornInv'
  BY <1>0, <1>2 DEF OrphanEnds, ghostVars
<1>3. ASSUME NEW p \in Procs, Start(p) \/ Quits(p) \/ CreatePodman(p) PROVE TornInv'
  BY <1>0, <1>3 DEF Start, Quits, Exit, CreatePodman, hostVars, ghostVars
<1>4. ASSUME NEW p \in Procs, Crash(p) PROVE TornInv'
  <2>1. crashes' > 0 /\ file' = file
    BY <1>4 DEF Crash, hostVars
  <2>2. \A q \in Procs, f \in Files : Fills(q, f)' => Fills(q, f)
    BY <1>4 DEF Crash, Fills
  <2>. QED
    BY <2>1, <2>2 DEF TornInv
<1>5. ASSUME NEW p \in Procs, OpenStore(p) PROVE TornInv'
  <2>1. DefaultState \in DataOf(Index) /\ Index \in Files
    BY DefaultIsState, FilesOf DEF DataOf
  <2>. QED
    BY <1>0, <1>5, <2>1, TornWrite DEF OpenStore, At, hostVars, ghostVars
<1>6. ASSUME NEW p \in Procs, CreateMac(p) \/ WriteLimits(p) \/ SavePolicy(p) \/ SetPolicy(p)
      PROVE  TornInv'
  BY <1>6, OtherWrites, TornWrite
<1>7. ASSUME NEW p \in Procs, InsertRecord(p) \/ TouchLastUsed(p) \/ UpdateRecord(p) \/ RemoveRecord(p)
      PROVE  TornInv'
  <2>1. PICK d : Write(p, Index, d)
    BY <1>7 DEF InsertRecord, TouchLastUsed, UpdateRecord, RemoveRecord
  <2>2. wr' = [wr EXCEPT ![p] = [file |-> Index, data |-> d, stage |-> "open"]]
    BY <2>1 DEF Write
  <2>3. wr[p] = None /\ file' = file /\ crashes' = crashes
    BY <1>7 DEF InsertRecord, TouchLastUsed, UpdateRecord, RemoveRecord, At, hostVars, ghostVars
  <2>4. \A q \in Procs, f \in Files : (Fills(q, f)' <=> Fills(q, f))
    BY <2>2, <2>3 DEF Fills
  <2>. QED
    BY <2>3, <2>4, TornFrame
<1>8. ASSUME NEW p \in Procs, AlreadyExists(p) \/ ReportCreated(p) \/ Run(p) \/ RunEnds(p)
      PROVE  TornInv'
  BY <1>0, <1>8 DEF AlreadyExists, ReportCreated, Run, RunEnds, hostVars, ghostVars
<1>9. ASSUME NEW p \in Procs, PeekShell(p) \/ Get(p) \/ KillPodman(p) PROVE TornInv'
  BY <1>0, <1>9 DEF PeekShell, Get, KillPodman, hostVars, ghostVars
<1>10. ASSUME NEW p \in Procs, UnlinkPolicy(p) \/ KillMac(p) PROVE TornInv'
  BY <1>10, TornUnlink DEF UnlinkPolicy, KillMac, At, ghostVars
<1>. QED
  BY <1>1, <1>2, <1>3, <1>4, <1>5, <1>6, <1>7, <1>8, <1>9, <1>10, TornTruncate, TornFill, Steps

-----------------------------------------------------------------------------
(* Documents *)

\* What a document lists, in terms of its records.
LEMMA NamesListed ==
    ASSUME NEW st \in States
    PROVE  /\ \A n : HasName(st, n) <=> \E r \in RecordsOf(st) : r.name = n
           /\ IdsIn(st) = {r.id : r \in RecordsOf(st)}
           /\ st.sandboxes = <<>> <=> RecordsOf(st) = {}
<1>1. DOMAIN <<>> = {}
  BY EmptySeq
<1>2. st.sandboxes # <<>> => 1 \in DOMAIN st.sandboxes
  BY StateFields, EmptySeq
<1>. QED
  BY <1>1, <1>2 DEF HasName, RecordsOf, IdsIn

\* LastUsedOK depends on the records alone.
LEMMA LastUsedRecords ==
    ASSUME NEW st \in States
    PROVE  LastUsedOK(st) <=> IF RecordsOf(st) = {} THEN st.last_used = None
                              ELSE \E r \in RecordsOf(st) : r.name = st.last_used
BY NamesListed DEF LastUsedOK

\* Unique names make the record that remove takes out the only one of its name.
LEMMA RemoveGone ==
    ASSUME NEW st \in States, NEW key, Hits(st, key) # {}, UniqueRecords(st)
    PROVE  \A r \in RecordsOf(RemoveKey(st, key)) : r.name # Find(st, key).name
<1>. DEFINE s == st.sandboxes
            at == Min(Hits(st, key))
            t == RemoveAt(s, at)
<1>1. at \in 1 .. Len(s) /\ Len(s) \in Nat /\ DOMAIN s = 1 .. Len(s) /\ Find(st, key) = s[at]
  BY FindListed, StateFields
<1>2. /\ t \in Seq(Records) /\ Len(t) = Len(s) - 1
      /\ \A i \in 1 .. Len(s) - 1 : t[i] = s[IF i < at THEN i ELSE i + 1]
  BY <1>1, StateFields, RemoveAtProperties
<1>3. DOMAIN t = 1 .. Len(s) - 1
  BY <1>2, LenProperties
<1>4. RemoveKey(st, key).sandboxes = t
  BY DEF RemoveKey
<1>. HIDE DEF t, at
<1>5. ASSUME NEW r \in RecordsOf(RemoveKey(st, key))
      PROVE  r.name # Find(st, key).name
  <2>1. PICK i \in 1 .. Len(s) - 1 : r = t[i]
    BY <1>3, <1>4, <1>5 DEF RecordsOf
  <2>. DEFINE j == IF i < at THEN i ELSE i + 1
  <2>2. j \in DOMAIN s /\ j # at /\ at \in DOMAIN s
    BY <1>1
  <2>3. r = s[j]
    BY <1>2, <2>1
  <2>. HIDE DEF j
  <2>. QED
    BY <1>1, <2>2, <2>3 DEF UniqueRecords
<1>. QED
  BY <1>5

\* Unique names make the record that update_policy changes the only one of its name.
LEMMA UpdateExact ==
    ASSUME NEW st \in States, NEW name \in Names, HasName(st, name), UniqueRecords(st),
           NEW q \in Policies
    PROVE  \E s \in RecordsOf(st) :
            /\ s.name = name /\ \A r \in RecordsOf(st) : r.name = name => r = s
            /\ RecordsOf(UpdatePolicy(st, name, q))
                = (RecordsOf(st) \ {s}) \cup {[s EXCEPT !.policy_hash = Hash(q)]}
<1>. DEFINE s == st.sandboxes
            S == {i \in DOMAIN s : s[i].name = name}
            at == Min(S)
            t == [s EXCEPT ![at].policy_hash = Hash(q)]
<1>1. /\ Len(s) \in Nat /\ DOMAIN s = 1 .. Len(s) /\ \A i \in DOMAIN s : s[i] \in Records
      /\ s = [i \in DOMAIN s |-> s[i]]
  BY StateFields, LenProperties
<1>2. at \in DOMAIN s /\ s[at].name = name
  <2>1. S \subseteq Nat /\ S # {}
    BY <1>1 DEF HasName
  <2>2. at \in S
    BY <2>1, MinIn
  <2>. QED
    BY <2>2
<1>3. UpdatePolicy(st, name, q).sandboxes = t
  BY DEF UpdatePolicy
<1>. HIDE DEF at
<1>4. DOMAIN t = DOMAIN s /\ t[at] = [s[at] EXCEPT !.policy_hash = Hash(q)]
      /\ \A i \in DOMAIN s : i # at => t[i] = s[i]
  BY <1>1, <1>2
<1>. HIDE DEF t
<1>. DEFINE u == [s[at] EXCEPT !.policy_hash = Hash(q)]
<1>5. RecordsOf(UpdatePolicy(st, name, q)) = {t[i] : i \in DOMAIN s}
  BY <1>3, <1>4 DEF RecordsOf
<1>6. \A i \in DOMAIN s : s[i].name = name => i = at
  BY <1>2 DEF UniqueRecords
<1>7. \A i \in DOMAIN s : i # at => s[i] # s[at]
  BY <1>2, <1>6
<1>8. {t[i] : i \in DOMAIN s} = ({s[i] : i \in DOMAIN s} \ {s[at]}) \cup {u}
  <2>. HIDE DEF u
  <2>1. t[at] = u
    BY <1>4 DEF u
  <2>2. ASSUME NEW i \in DOMAIN s PROVE t[i] \in ({s[j] : j \in DOMAIN s} \ {s[at]}) \cup {u}
    BY <1>4, <1>7, <2>1
  <2>3. ASSUME NEW i \in DOMAIN s, s[i] # s[at] PROVE s[i] \in {t[j] : j \in DOMAIN s}
    BY <1>4, <2>3
  <2>4. u \in {t[j] : j \in DOMAIN s}
    BY <1>2, <2>1
  <2>. QED
    BY <2>2, <2>3, <2>4
<1>9. s[at] \in RecordsOf(st) /\ \A r \in RecordsOf(st) : r.name = name => r = s[at]
  BY <1>2, <1>6 DEF RecordsOf
<1>. QED
  BY <1>2, <1>5, <1>8, <1>9 DEF RecordsOf

\* remove, touch_last_used, insert and update_policy keep last_used right.
LEMMA RemoveLastUsed ==
    ASSUME NEW st \in States, NEW key, Hits(st, key) # {}, LastUsedOK(st)
    PROVE  LastUsedOK(RemoveKey(st, key))
<1>. DEFINE e == RemoveKey(st, key)
            f == Find(st, key)
            left == RemoveAt(st.sandboxes, Min(Hits(st, key)))
<1>1. e \in States /\ f \in RecordsOf(st) /\ f = st.sandboxes[Min(Hits(st, key))]
  BY RemoveListed, FindFrom, FindListed
<1>2. /\ e.sandboxes = left
      /\ e.last_used = IF st.last_used # f.name THEN st.last_used
                       ELSE IF left = <<>> THEN None ELSE Last(left).name
  BY <1>1 DEF RemoveKey
<1>3. st.last_used # None => \E r \in RecordsOf(st) : r.name = st.last_used
  BY LastUsedRecords
<1>4. CASE st.last_used # f.name
  <2>1. PICK r \in RecordsOf(st) : r.name = st.last_used
    BY <1>1, LastUsedRecords
  <2>2. r \in RecordsOf(e)
    BY <1>4, <2>1, RemoveFrom
  <2>. QED
    BY <1>1, <1>2, <1>4, <2>1, <2>2, LastUsedRecords
<1>5. CASE st.last_used = f.name
  <2>1. left # <<>> => Last(left) \in RecordsOf(e)
    BY <1>1, <1>2, StateFields, EmptySeq DEF Last, RecordsOf
  <2>. QED
    BY <1>1, <1>2, <1>5, <2>1, LastUsedRecords, NamesListed
<1>. QED
  BY <1>4, <1>5

\* insert makes the new sandbox the last used.
LEMMA InsertLastUsed ==
    ASSUME NEW st \in States, NEW r \in Records
    PROVE  LastUsedOK(Insert(st, r))
<1>1. Insert(st, r).last_used = r.name
  BY DEF Insert
<1>. QED
  BY <1>1, InsertListed, InsertFrom, LastUsedRecords

\* touch_last_used names a listed sandbox.
LEMMA TouchLastUsedOK ==
    ASSUME NEW st \in States, NEW n \in Names, \E r \in RecordsOf(st) : r.name = n
    PROVE  LastUsedOK(Touch(st, n)) /\ RecordsOf(Touch(st, n)) = RecordsOf(st)
<1>1. Touch(st, n).last_used = n
  BY DEF Touch, States
<1>2. RecordsOf(Touch(st, n)) = RecordsOf(st)
  BY TouchListed DEF RecordsOf
<1>. QED
  BY <1>1, <1>2, TouchListed, LastUsedRecords

\* policy set keeps the last used.
LEMMA UpdateLastUsed ==
    ASSUME NEW st \in States, NEW n \in Names, HasName(st, n), NEW q \in Policies
    PROVE  LastUsedOK(UpdatePolicy(st, n, q))
<1>1. UpdatePolicy(st, n, q).last_used = n
  BY DEF UpdatePolicy
<1>2. PICK s \in RecordsOf(st) : s.name = n
  BY NamesListed
<1>3. PICK r \in RecordsOf(UpdatePolicy(st, n, q)) : Same(r, s)
  BY <1>2, UpdateFrom
<1>. QED
  BY <1>1, <1>2, <1>3, UpdateListed, LastUsedRecords DEF Same

-----------------------------------------------------------------------------
(* The index, step by step *)

\* The records that are coming: those being written, else those listed.
LEMMA ComingIs ==
    ASSUME TypeInv, Alone
    PROVE  /\ \A p \in Procs : WritingIndex(p) => Coming = RecordsOf(wr[p].data) /\ wr[p].data \in States
           /\ (\A p \in Procs : ~ WritingIndex(p)) => Coming = Listed
           /\ Loaded => Listed = RecordsOf(Stored) /\ Stored \in States
           /\ ~ Loaded => Listed = {}
<1>1. ASSUME NEW p \in Procs, WritingIndex(p)
      PROVE  Coming = RecordsOf(wr[p].data) /\ wr[p].data \in States
  <2>1. {x \in Procs : WritingIndex(x)} = {p}
    BY <1>1 DEF WritingIndex, Alone
  <2>2. WriteType(wr[p]) /\ wr[p].file = Index
    BY <1>1 DEF TypeInv, TypeOK, WritingIndex
  <2>3. wr[p].data \in States
    BY <2>2 DEF WriteType, DataOf
  <2>4. UNION {RecordsOf(wr[q].data) : q \in {p}} = RecordsOf(wr[p].data)
    OBVIOUS
  <2>. QED
    BY <1>1, <2>1, <2>3, <2>4 DEF Coming
<1>2. Loaded => Listed = RecordsOf(Stored) /\ Stored \in States
  BY StoredIsState DEF TypeInv, Listed, RecordsOf
<1>. QED
  BY <1>1, <1>2 DEF Coming, Listed

\* The index file and the write of it, if any, are as before.
IndexStill ==
    /\ file'[Index] = file[Index]
    /\ \A q \in Procs : /\ WritingIndex(q)' <=> WritingIndex(q)
                        /\ WritingIndex(q) => wr'[q].data = wr[q].data

\* A step that leaves the index leaves what it lists.
LEMMA StillIndex ==
    ASSUME IndexStill
    PROVE  (Loaded' <=> Loaded) /\ Stored' = Stored /\ Listed' = Listed /\ Coming' = Coming
<1>1. (Loaded' <=> Loaded) /\ Stored' = Stored
  BY DEF IndexStill, Loaded, Stored
<1>2. Listed' = Listed
  BY <1>1 DEF Listed
<1>3. {x \in Procs : WritingIndex(x)'} = {x \in Procs : WritingIndex(x)}
  BY DEF IndexStill
<1>4. \A q \in {x \in Procs : WritingIndex(x)} : RecordsOf(wr'[q].data) = RecordsOf(wr[q].data)
  BY DEF IndexStill
<1>5. UNION {RecordsOf(wr'[q].data) : q \in {x \in Procs : WritingIndex(x)}}
        = UNION {RecordsOf(wr[q].data) : q \in {x \in Procs : WritingIndex(x)}}
  BY <1>4
<1>6. (\E q \in Procs : WritingIndex(q)') <=> \E q \in Procs : WritingIndex(q)
  BY DEF IndexStill
<1>. QED
  BY <1>1, <1>2, <1>3, <1>5, <1>6 DEF Coming, RecordsOf

\* The steps that have nothing to do with the index.
LEMMA StillSteps ==
    ASSUME TypeInv, NEW p \in Procs
    PROVE  /\ UNCHANGED <<file, wr>> => IndexStill
           /\ \A f \in Files : \A d : wr[p] = None /\ file' = file /\ Write(p, f, d) /\ f # Index => IndexStill
           /\ Truncate(p) /\ ~ WritingIndex(p) => IndexStill
           /\ Fill(p) /\ ~ WritingIndex(p) => IndexStill
           /\ UnlinkPolicy(p) \/ KillMac(p) => IndexStill
<1>. USE DEF TypeInv, TypeOK
<1>1. UNCHANGED <<file, wr>> => IndexStill
  BY DEF IndexStill, WritingIndex
<1>2. ASSUME NEW f \in Files, NEW d, wr[p] = None, file' = file, Write(p, f, d), f # Index
      PROVE  IndexStill
  BY <1>2 DEF Write, IndexStill, WritingIndex
<1>3. ASSUME Truncate(p), ~ WritingIndex(p) PROVE IndexStill
  BY <1>3, FilesOf DEF Truncate, IndexStill, WritingIndex, WriteType
<1>4. ASSUME Fill(p), ~ WritingIndex(p) PROVE IndexStill
  BY <1>4, FilesOf DEF Fill, IndexStill, WritingIndex
<1>5. ASSUME NEW F, Unlink(F), Index \notin F PROVE IndexStill
  <2>1. file'[Index] = file[Index]
    BY <1>5, FilesOf DEF Unlink
  <2>. QED
    BY <1>5, <2>1 DEF Unlink, IndexStill, WritingIndex
<1>6. UnlinkPolicy(p) \/ KillMac(p) => IndexStill
  BY <1>5, FilesDiffer DEF UnlinkPolicy, KillMac
<1>. QED
  BY <1>1, <1>2, <1>3, <1>4, <1>6

\* A step that begins to write the index.
LEMMA BeginIndex ==
    ASSUME TypeInv, Alone, NEW p \in Procs, pc[p] # "idle", wr[p] = None, file' = file,
           NEW d \in States, Write(p, Index, d)
    PROVE  /\ Coming = Listed /\ Coming' = RecordsOf(d)
           /\ (Loaded' <=> Loaded) /\ Stored' = Stored
           /\ \A q \in Procs : WritingIndex(q)' => q = p /\ wr'[q].data = d
           /\ WritingIndex(p)'
<1>1. \A q \in Procs : wr[q] = None
  BY Idle
<1>2. d \in DataOf(Index) /\ Index \in Files
  BY FilesOf DEF DataOf
<1>3. /\ wr'[p] # None /\ wr'[p].file = Index /\ wr'[p].data = d
      /\ \A q \in Procs : q # p => wr'[q] = None
  BY <1>1, <1>2, WriteBegins
<1>4. \A q \in Procs : WritingIndex(q)' <=> q = p
  BY <1>3 DEF WritingIndex
<1>5. Coming = Listed
  BY <1>1 DEF Coming, WritingIndex
<1>6. {x \in Procs : WritingIndex(x)'} = {p}
  BY <1>4
<1>7. Coming' = UNION {RecordsOf(wr[q].data)' : q \in {p}}
  BY <1>4, <1>6 DEF Coming
<1>8. RecordsOf(wr[p].data)' = RecordsOf(d)
  BY <1>3 DEF RecordsOf
<1>. QED
  BY <1>3, <1>4, <1>5, <1>7, <1>8 DEF Loaded, Stored

\* The two system calls of that write.
LEMMA IndexCalls ==
    ASSUME TypeInv, Alone, TornInv, NEW p \in Procs, WritingIndex(p)
    PROVE  /\ Truncate(p) => /\ ~ Loaded' /\ file'[Index] = Empty /\ WritingIndex(p)'
                             /\ wr'[p].data = wr[p].data /\ wr'[p].stage = "fill"
                             /\ Coming' = Coming
                             /\ \A q \in Procs : q # p => wr'[q] = None
           /\ Fill(p) => /\ Loaded' /\ Stored' = wr[p].data /\ Coming' = Coming
                         /\ \A q \in Procs : wr'[q] = None
<1>. USE DEF TypeInv, TypeOK
<1>1. /\ \A q \in Procs : q # p => wr[q] = None
      /\ Index \in Files /\ WriteType(wr[p]) /\ wr[p].file = Index /\ wr[p] # None
  BY Idle, FilesOf DEF WritingIndex, Alone
<1>2. Coming = RecordsOf(wr[p].data)
  BY ComingIs
<1>3. ASSUME Truncate(p)
      PROVE  /\ ~ Loaded' /\ file'[Index] = Empty /\ WritingIndex(p)'
             /\ wr'[p].data = wr[p].data /\ wr'[p].stage = "fill"
             /\ Coming' = Coming
             /\ \A q \in Procs : q # p => wr'[q] = None
  <2>1. file' = [file EXCEPT ![Index] = Empty] /\ wr' = [wr EXCEPT ![p].stage = "fill"]
    BY <1>1, <1>3 DEF Truncate, Index
  <2>2. wr'[p] = [wr[p] EXCEPT !.stage = "fill"]
    BY <2>1
  <2>3. /\ wr'[p] \in [file : Files, data : States \cup Policies, stage : {"open", "fill"}]
        /\ wr'[p].data = wr[p].data /\ wr'[p].file = Index /\ wr'[p].stage = "fill"
    BY <1>1, <2>2 DEF WriteType, DataOf
  <2>4. WritingIndex(p)' /\ \A q \in Procs : q # p => wr'[q] = None /\ ~ WritingIndex(q)'
    BY <1>1, <2>1, <2>3, NoneAssumption DEF WritingIndex
  <2>5. ~ Loaded' /\ file'[Index] = Empty
    BY <1>1, <2>1, ContentsDiffer DEF Loaded
  <2>6. {x \in Procs : WritingIndex(x)'} = {p}
    BY <2>4
  <2>7. Coming' = UNION {RecordsOf(wr[q].data)' : q \in {p}}
    BY <2>4, <2>6 DEF Coming
  <2>8. RecordsOf(wr[p].data)' = RecordsOf(wr[p].data)
    BY <2>3 DEF RecordsOf
  <2>. QED
    BY <1>2, <2>3, <2>4, <2>5, <2>7, <2>8
<1>4. ASSUME Fill(p)
      PROVE  /\ Loaded' /\ Stored' = wr[p].data /\ Coming' = Coming
             /\ \A q \in Procs : wr'[q] = None
  <2>1. file'[Index] = Holds(wr[p].data)
    BY <1>1, <1>4, FillWrites
  <2>2. \A q \in Procs : wr'[q] = None
    BY <1>1, <1>4 DEF Fill
  <2>3. Loaded' /\ Stored' = wr[p].data
    BY <2>1, ContentsDiffer DEF Loaded, Stored
  <2>4. Coming' = Listed' /\ Listed' = RecordsOf(Stored)'
    BY <2>2, <2>3 DEF Coming, WritingIndex, Listed, RecordsOf
  <2>5. RecordsOf(Stored)' = RecordsOf(wr[p].data)
    BY <2>3 DEF RecordsOf
  <2>. QED
    BY <1>2, <2>2, <2>3, <2>4, <2>5
<1>. QED
  BY <1>3, <1>4

\* The steps that leave the index.
LEMMA StillStep ==
    ASSUME TypeInv, NEW p \in Procs,
           \/ Start(p) \/ Quits(p) \/ CreatePodman(p) \/ CreateMac(p) \/ WriteLimits(p)
           \/ SavePolicy(p) \/ AlreadyExists(p) \/ ReportCreated(p)
           \/ Run(p) \/ RunEnds(p) \/ PeekShell(p) \/ Get(p) \/ SetPolicy(p)
           \/ UnlinkPolicy(p) \/ KillPodman(p) \/ KillMac(p)
           \/ (OpenStore(p) /\ file[Index] # Absent)
           \/ (Truncate(p) /\ ~ WritingIndex(p)) \/ (Fill(p) /\ ~ WritingIndex(p))
    PROVE  IndexStill
<1>1. CASE CreateMac(p) \/ WriteLimits(p) \/ SavePolicy(p) \/ SetPolicy(p)
  BY <1>1, OtherWrites, StillSteps
<1>2. CASE \/ Start(p) \/ Quits(p) \/ CreatePodman(p) \/ AlreadyExists(p) \/ ReportCreated(p)
           \/ Run(p) \/ RunEnds(p) \/ PeekShell(p) \/ Get(p) \/ KillPodman(p)
           \/ OpenStore(p) /\ file[Index] # Absent
  <2>1. UNCHANGED <<file, wr>>
    BY <1>2
    DEF Start, Quits, Exit, CreatePodman, AlreadyExists, ReportCreated, Run, RunEnds, PeekShell,
        Get, KillPodman, OpenStore, hostVars
  <2>. QED
    BY <2>1, StillSteps
<1>. QED
  BY <1>1, <1>2, StillSteps

-----------------------------------------------------------------------------
(* The runtimes *)

\* The runtime of a record goes only when rm destroys that of its name.
LEMMA RuntimeStays ==
    ASSUME RuntimeInv, Alone, [Next]_vars, NEW r \in Records, Tied(r), HasRuntime(r),
           \A p \in Procs : pc[p] = "kill" => r.name # rec[p].name
    PROVE  HasRuntime(r)'
<1>. USE DEF RuntimeInv
<1>0. r.name \in Names /\ r.mechanism \in {"podman", "mac"} /\ Profile(r.name) \in Files
  BY FilesOf DEF Records
<1>1. CASE r.mechanism = "podman"
  <2>1. container[r.name] # None /\ container[r.name].cid = r.runtime_id
    BY <1>1 DEF HasRuntime
  <2>2. ~ container[r.name].ephemeral
    BY <1>0, <1>1, <2>1 DEF Tied
  <2>3. container'[r.name] # container[r.name] => \E p \in Procs : pc[p] = "kill" /\ rec[p].name = r.name
    BY <1>0, <2>1, <2>2, KillsStep
  <2>. QED
    BY <1>1, <2>1, <2>3 DEF HasRuntime
<1>2. CASE r.mechanism = "mac"
  <2>. DEFINE f == Profile(r.name)
  <2>1. file[f] # Absent
    BY <1>2 DEF HasRuntime, NoInstance
  <2>2. ASSUME file'[f] # file[f] PROVE file'[f] # Absent
    <3>1. ASSUME NEW p \in Procs, NEW F, Unlink(F), f \notin F PROVE FALSE
      BY <1>0, <2>2, <3>1 DEF Unlink
    <3>2. ASSUME NEW p \in Procs, UnlinkPolicy(p) \/ KillMac(p) PROVE FALSE
      <4>1. CASE UnlinkPolicy(p)
        BY <3>1, <4>1, FilesDiffer DEF UnlinkPolicy
      <4>2. CASE KillMac(p)
        <5>1. rec[p] \in Known /\ rec[p].mechanism = "mac" /\ pc[p] = "kill"
          BY <4>2 DEF KillMac, At, Known, HoldingPoints
        <5>2. rec[p].runtime_id = rec[p].name /\ rec[p].name # r.name
          BY <5>1 DEF Tied
        <5>. QED
          BY <3>1, <4>2, <5>2, FilesDiffer DEF KillMac
      <4>. QED
        BY <3>2, <4>1, <4>2
    <3>3. ASSUME NEW p \in Procs, Truncate(p) \/ Fill(p) PROVE file'[f] # Absent
      <4>1. WriteType(wr[p])
        BY <3>3 DEF Truncate, Fill, TypeInv, TypeOK
      <4>2. CASE Truncate(p)
        BY <1>0, <2>1, <4>1, <4>2, ContentsDiffer DEF Truncate, TypeInv, TypeOK
      <4>3. CASE Fill(p)
        <5>1. PICK c : /\ c \in {Holds(wr[p].data), Garbled}
                       /\ file' = [file EXCEPT ![wr[p].file] = c]
          BY <4>3 DEF Fill, Overwrite
        <5>. QED
          BY <1>0, <2>1, <5>1, ContentsDiffer DEF TypeInv, TypeOK
      <4>. QED
        BY <3>3, <4>2, <4>3
    <3>4. file' # file
      BY <2>2
    <3>5. ASSUME NEW p \in Procs,
                 \/ Start(p) \/ Crash(p) \/ OpenStore(p) \/ Quits(p)
                 \/ CreatePodman(p) \/ CreateMac(p) \/ WriteLimits(p) \/ SavePolicy(p)
                 \/ InsertRecord(p) \/ AlreadyExists(p) \/ ReportCreated(p)
          PROVE  FALSE
      BY <3>4, <3>5
      DEF Start, Crash, OpenStore, Quits, Exit, CreatePodman, CreateMac, WriteLimits, SavePolicy,
          InsertRecord, AlreadyExists, ReportCreated, hostVars
    <3>6. ASSUME NEW p \in Procs,
                 \/ Run(p) \/ RunEnds(p) \/ PeekShell(p) \/ Get(p) \/ TouchLastUsed(p)
                 \/ SetPolicy(p) \/ UpdateRecord(p) \/ RemoveRecord(p) \/ KillPodman(p)
          PROVE  FALSE
      BY <3>4, <3>6
      DEF Run, RunEnds, PeekShell, Get, TouchLastUsed, SetPolicy, UpdateRecord, RemoveRecord,
          KillPodman, hostVars
    <3>7. ASSUME NEW n \in Names, OrphanEnds(n) PROVE FALSE
      BY <3>4, <3>7 DEF OrphanEnds
    <3>. QED
      BY <3>2, <3>3, <3>4, <3>5, <3>6, <3>7, Steps DEF vars
  <2>. QED
    BY <1>2, <2>1, <2>2 DEF HasRuntime, NoInstance
<1>. QED
  BY <1>0, <1>1, <1>2

-----------------------------------------------------------------------------
(* The documents stay true *)

\* A document in play, in whatever state the step leaves the rest.
LEMMA DocKept ==
    ASSUME SerialInv, [Next]_vars, NEW d \in States, DocInv(d), acked' \subseteq IdsIn(d),
           \/ Loaded /\ d = Stored
           \/ \E q \in Procs : WritingIndex(q) /\ d = wr[q].data
    PROVE  DocInv(d)'
<1>. USE DEF SerialInv, Base
<1>1. TypeInv
  BY DEF RuntimeInv
<1>2. RecordsOf(d) \subseteq Known
  BY DEF Known
<1>3. ASSUME NEW p \in Procs, pc[p] = "kill", NEW r \in RecordsOf(d)
      PROVE  r.name # rec[p].name
  <2>1. wr[p] = None /\ \A q \in Procs : wr[q] = None
    BY <1>3, Idle DEF PointInv
  <2>2. Coming = RecordsOf(d)
    BY <1>1, <2>1, ComingIs DEF WritingIndex
  <2>. QED
    BY <1>3, <2>2 DEF PointInv
<1>4. ASSUME NEW r \in RecordsOf(d)
      PROVE  HasRuntime(r)'
  <2>1. r \in Records /\ Tied(r) /\ HasRuntime(r)
    BY <1>2, RecordsAreRecords DEF RuntimeInv, DocInv
  <2>. QED
    BY <1>3, <1>4, <2>1, RuntimeStays
<1>. QED
  BY <1>4 DEF DocInv, LastUsedOK, RecordsOf, IdsIn, HasName

\* A document is the same in the next state.
LEMMA DocPrimed ==
    ASSUME NEW d, DocInv(d)'
    PROVE  /\ Stored' = d => DocInv(Stored)'
           /\ \A q : wr'[q].data = d => DocInv(wr[q].data)'
BY DEF DocInv, LastUsedOK, RecordsOf, IdsIn, HasName

\* Documents that were there before the step are as good after it.
LEMMA DocsFrame ==
    ASSUME SerialInv, [Next]_vars, acked' \subseteq acked,
           Loaded' => \/ Loaded /\ Stored' = Stored
                      \/ \E q \in Procs : WritingIndex(q) /\ Stored' = wr[q].data,
           \A q \in Procs : WritingIndex(q)' => WritingIndex(q) /\ wr'[q].data = wr[q].data,
           file'[Index] = Absent => file[Index] = Absent
    PROVE  DocsInv'
<1>. USE DEF SerialInv, Base
<1>1. TypeInv
  BY DEF RuntimeInv
<1>2. ASSUME NEW d, \/ Loaded /\ d = Stored
                    \/ \E q \in Procs : WritingIndex(q) /\ d = wr[q].data
      PROVE  DocInv(d)'
  <2>1. d \in States
    BY <1>1, <1>2, ComingIs
  <2>2. DocInv(d)
    BY <1>2 DEF DocsInv
  <2>3. acked' \subseteq IdsIn(d)
    BY <2>2 DEF DocInv
  <2>. QED
    BY <1>2, <2>1, <2>2, <2>3, DocKept
<1>3. Loaded' => DocInv(Stored)'
  BY <1>2, DocPrimed
<1>4. \A q \in Procs : WritingIndex(q)' => DocInv(wr[q].data)'
  BY <1>2, DocPrimed
<1>5. file'[Index] = Absent => acked' = {}
  BY DEF DocsInv
<1>. QED
  BY <1>3, <1>4, <1>5 DEF DocsInv

\* A step that begins to write the index d.
LEMMA DocsWrite ==
    ASSUME SerialInv, [Next]_vars, NEW p \in Procs, pc[p] # "idle", wr[p] = None,
           file' = file, container' = container, NEW d \in States, Write(p, Index, d),
           acked' \subseteq acked, DocInv(d)'
    PROVE  DocsInv'
<1>. USE DEF SerialInv, Base
<1>1. TypeInv
  BY DEF RuntimeInv
<1>2. /\ (Loaded' <=> Loaded) /\ Stored' = Stored
      /\ \A q \in Procs : WritingIndex(q)' => q = p /\ wr'[q].data = d
  BY <1>1, BeginIndex
<1>3. Loaded' => DocInv(Stored)'
  <2>. SUFFICES ASSUME Loaded' PROVE DocInv(Stored)'
    OBVIOUS
  <2>1. Stored \in States /\ DocInv(Stored)
    BY <1>1, <1>2, ComingIs DEF DocsInv
  <2>2. acked' \subseteq IdsIn(Stored)
    BY <2>1 DEF DocInv
  <2>3. \A x : x = Stored => DocInv(x)'
    BY <1>2, <2>1, <2>2, DocKept
  <2>. QED
    BY <1>2, <2>3, DocPrimed
<1>4. \A q \in Procs : WritingIndex(q)' => DocInv(wr[q].data)'
  BY <1>2, DocPrimed
<1>5. file'[Index] = Absent => acked' = {}
  BY DEF DocsInv
<1>. QED
  BY <1>3, <1>4, <1>5 DEF DocsInv

\* Whatever the step, every index, stored or about to be, lists the sandboxes that
\* were reported, each with its runtime.
LEMMA DocsSteps ==
    ASSUME SerialInv, [Next]_vars
    PROVE  DocsInv'
<1>. USE DEF SerialInv, Base
<1>0. TypeInv /\ TypeOK
  BY DEF RuntimeInv, TypeInv
<1>1. ASSUME IndexStill, acked' \subseteq acked PROVE DocsInv'
  BY <1>1, StillIndex, DocsFrame DEF IndexStill
<1>2. CASE UNCHANGED vars
  BY <1>1, <1>2 DEF vars, IndexStill, WritingIndex
<1>3. ASSUME NEW n \in Names, OrphanEnds(n) PROVE DocsInv'
  BY <1>1, <1>3 DEF OrphanEnds, ghostVars, IndexStill, WritingIndex
<1>4. ASSUME NEW p \in Procs,
             \/ Start(p) \/ Quits(p) \/ CreatePodman(p) \/ CreateMac(p) \/ WriteLimits(p)
             \/ SavePolicy(p) \/ AlreadyExists(p)
             \/ Run(p) \/ RunEnds(p) \/ PeekShell(p) \/ Get(p) \/ SetPolicy(p)
             \/ UnlinkPolicy(p) \/ KillPodman(p) \/ KillMac(p)
      PROVE  DocsInv'
  <2>1. acked' = acked
    BY <1>4
    DEF Start, Quits, Exit, CreatePodman, CreateMac, WriteLimits, SavePolicy, AlreadyExists, Run,
        RunEnds, PeekShell, Get, SetPolicy, UnlinkPolicy, KillPodman, KillMac, ghostVars
  <2>. QED
    BY <1>0, <1>1, <1>4, <2>1, StillStep
<1>5. ASSUME NEW p \in Procs, ReportCreated(p) PROVE DocsInv'
  <2>1. IndexStill
    BY <1>0, <1>5, StillStep
  <2>2. wr[p] = None /\ pc[p] = "created" /\ acked' = acked \cup {rec[p].id}
    BY <1>5 DEF ReportCreated, At
  <2>3. \A q \in Procs : ~ WritingIndex(q)
    BY <2>2, Idle DEF WritingIndex
  <2>4. rec[p] \in Listed /\ Loaded /\ Stored \in States /\ Listed = RecordsOf(Stored)
    BY <1>0, <2>2, <2>3, ComingIs DEF PointInv
  <2>5. DocInv(Stored)
    BY <2>4 DEF DocsInv
  <2>6. acked' \subseteq IdsIn(Stored)
    BY <2>2, <2>4, <2>5, NamesListed DEF DocInv
  <2>7. Loaded' /\ Stored' = Stored
    BY <2>1, <2>4, StillIndex
  <2>8. \A d : d = Stored => DocInv(d)'
    BY <2>4, <2>5, <2>6, DocKept
  <2>9. DocInv(Stored)'
    BY <2>7, <2>8, DocPrimed
  <2>10. file'[Index] # Absent
    BY <2>7, ContentsDiffer DEF Loaded
  <2>. QED
    BY <2>1, <2>3, <2>9, <2>10 DEF DocsInv, IndexStill
<1>6. ASSUME NEW p \in Procs, Crash(p) PROVE DocsInv'
  BY <1>0, <1>6, DocsFrame DEF Crash, Loaded, Stored, WritingIndex, hostVars, TypeOK
<1>7. ASSUME NEW p \in Procs, Truncate(p) PROVE DocsInv'
  <2>1. acked' = acked
    BY <1>7 DEF Truncate, ghostVars
  <2>2. CASE WritingIndex(p)
    BY <1>0, <1>7, <2>1, <2>2, IndexCalls, ContentsDiffer, DocsFrame DEF WritingIndex
  <2>3. CASE ~ WritingIndex(p)
    BY <1>0, <1>1, <1>7, <2>1, <2>3, StillStep
  <2>. QED
    BY <2>2, <2>3
<1>8. ASSUME NEW p \in Procs, Fill(p) PROVE DocsInv'
  <2>1. acked' = acked
    BY <1>8 DEF Fill, ghostVars
  <2>2. CASE WritingIndex(p)
    <3>1. Loaded' /\ Stored' = wr[p].data /\ \A q \in Procs : ~ WritingIndex(q)'
      BY <1>0, <1>8, <2>2, IndexCalls DEF WritingIndex
    <3>2. file'[Index] # Absent
      BY <3>1, ContentsDiffer DEF Loaded
    <3>. QED
      BY <2>1, <2>2, <3>1, <3>2, DocsFrame
  <2>3. CASE ~ WritingIndex(p)
    BY <1>0, <1>1, <1>8, <2>1, <2>3, StillStep
  <2>. QED
    BY <2>2, <2>3
<1>9. ASSUME NEW p \in Procs, OpenStore(p) PROVE DocsInv'
  <2>1. acked' = acked
    BY <1>9 DEF OpenStore, ghostVars
  <2>2. CASE file[Index] = Absent
    <3>1. LastUsedOK(DefaultState)
      BY DEF LastUsedOK, DefaultState
    <3>2. DocInv(DefaultState)'
      BY <2>1, <2>2, <3>1, DefaultRecords
      DEF DocsInv, DocInv, LastUsedOK, RecordsOf, IdsIn, HasName, DefaultState
    <3>. QED
      BY <1>9, <2>1, <2>2, <3>2, DefaultIsState, DocsWrite DEF OpenStore, At, hostVars
  <2>3. CASE file[Index] # Absent
    BY <1>0, <1>1, <1>9, <2>1, <2>3, StillStep
  <2>. QED
    BY <2>2, <2>3
<1>10. ASSUME NEW p \in Procs,
              InsertRecord(p) \/ TouchLastUsed(p) \/ UpdateRecord(p) \/ RemoveRecord(p)
       PROVE  DocsInv'
  <2>1. pc[p] # "idle" /\ wr[p] = None /\ Loaded /\ file' = file /\ container' = container
    BY <1>10 DEF InsertRecord, TouchLastUsed, UpdateRecord, RemoveRecord, At, hostVars
  <2>2. /\ Stored \in States /\ DocInv(Stored) /\ UniqueRecords(Stored)
        /\ Coming = RecordsOf(Stored)
    BY <1>0, <2>1, Idle, ComingIs DEF DocsInv, IndexInv, DocOK, WritingIndex
  <2>3. (\A r : HasRuntime(r)' <=> HasRuntime(r))
    BY <2>1 DEF HasRuntime, NoInstance
  <2>4. ASSUME NEW d \in States, Write(p, Index, d), LastUsedOK(d),
               \A r \in RecordsOf(d) : HasRuntime(r), acked' \subseteq acked, acked' \subseteq IdsIn(d)
        PROVE  DocsInv'
    <3>1. DocInv(d)'
      BY <2>3, <2>4 DEF DocInv, LastUsedOK, RecordsOf, IdsIn, HasName
    <3>. QED
      BY <2>1, <2>4, <3>1, DocsWrite
  <2>5. CASE InsertRecord(p)
    <3>1. rec[p] \in Records /\ HasRuntime(rec[p]) /\ acked' = acked
      BY <1>0, <2>5, Running DEF InsertRecord, At, HoldingPoints, PointInv, ghostVars
    <3>2. \A r \in RecordsOf(Insert(Stored, rec[p])) : HasRuntime(r)
      BY <2>2, <3>1, InsertFrom DEF DocInv
    <3>3. acked' \subseteq IdsIn(Insert(Stored, rec[p]))
      BY <2>2, <3>1, InsertListed DEF DocInv
    <3>. QED
      BY <2>2, <2>4, <2>5, <3>1, <3>2, <3>3, InsertListed, InsertLastUsed DEF InsertRecord
  <2>6. CASE TouchLastUsed(p)
    <3>1. rec[p].name \in Names /\ acked' = acked
      BY <1>0, <2>6, Running DEF TouchLastUsed, At, HoldingPoints, Records, ghostVars
    <3>2. \E r \in RecordsOf(Stored) : r.name = rec[p].name
      BY <2>2, <2>6 DEF TouchLastUsed, At, PointInv
    <3>3. Touch(Stored, rec[p].name) \in States
      BY <2>2, <3>1, TouchListed
    <3>4. acked' \subseteq IdsIn(Touch(Stored, rec[p].name))
      BY <2>2, <3>1, <3>2, <3>3, TouchLastUsedOK, NamesListed DEF DocInv
    <3>5. \A r \in RecordsOf(Touch(Stored, rec[p].name)) : HasRuntime(r)
      BY <2>2, <3>1, <3>2, TouchLastUsedOK DEF DocInv
    <3>. QED
      BY <2>2, <2>4, <2>6, <3>1, <3>2, <3>3, <3>4, <3>5, TouchLastUsedOK DEF TouchLastUsed
  <2>7. CASE UpdateRecord(p)
    <3>. DEFINE n == rec[p].name
                q == cmd[p].policy
    <3>1. n \in Names /\ q \in Policies /\ acked' = acked /\ HasName(Stored, n)
      BY <1>0, <2>7, Running
      DEF UpdateRecord, At, HoldingPoints, Records, Points, Complete, ghostVars
    <3>2. UpdatePolicy(Stored, n, q) \in States /\ acked' \subseteq IdsIn(UpdatePolicy(Stored, n, q))
      BY <2>2, <3>1, UpdateListed DEF DocInv
    <3>3. ASSUME NEW r \in RecordsOf(UpdatePolicy(Stored, n, q)) PROVE HasRuntime(r)
      <4>1. PICK s \in RecordsOf(Stored) : Same(r, s)
        BY <2>2, <3>1, UpdateFrom
      <4>2. HasRuntime(s)
        BY <2>2 DEF DocInv
      <4>. QED
        BY <4>1, <4>2 DEF HasRuntime, Same
    <3>4. LastUsedOK(UpdatePolicy(Stored, n, q)) /\ Write(p, Index, UpdatePolicy(Stored, n, q))
      BY <2>2, <2>7, <3>1, UpdateLastUsed DEF UpdateRecord
    <3>. HIDE DEF n, q
    <3>. QED
      BY <2>4, <3>1, <3>2, <3>3, <3>4
  <2>8. CASE RemoveRecord(p)
    <3>. DEFINE k == cmd[p].key
                e == RemoveKey(Stored, k)
    <3>1. Hits(Stored, k) # {} /\ acked' = acked \ {Find(Stored, k).id} /\ Write(p, Index, e)
      BY <2>8 DEF RemoveRecord
    <3>2. e \in States /\ LastUsedOK(e)
      BY <2>2, <3>1, RemoveListed, RemoveLastUsed DEF DocInv
    <3>3. \A r \in RecordsOf(e) : HasRuntime(r)
      BY <2>2, <3>1, RemoveFrom DEF DocInv
    <3>4. acked' \subseteq IdsIn(e)
      <4>1. ASSUME NEW i \in acked' PROVE i \in IdsIn(e)
        <5>1. PICK r \in RecordsOf(Stored) : r.id = i
          BY <2>2, <3>1, <4>1, NamesListed DEF DocInv
        <5>2. r \in RecordsOf(e)
          BY <2>2, <3>1, <4>1, <5>1, RemoveFrom
        <5>. QED
          BY <3>2, <5>1, <5>2, NamesListed
      <4>. QED
        BY <4>1
    <3>. HIDE DEF e
    <3>. QED
      BY <2>4, <3>1, <3>2, <3>3, <3>4
  <2>. QED
    BY <1>10, <2>5, <2>6, <2>7, <2>8
<1>. QED
  BY <1>2, <1>3, <1>4, <1>5, <1>6, <1>7, <1>8, <1>9, <1>10, Steps

-----------------------------------------------------------------------------
(* What a process counts on stays so *)

\* Only the process that runs moves; the others count on nothing.
LEMMA PointFrame ==
    ASSUME Alone, NEW p \in Procs, pc[p] # "idle",
           \A q \in Procs : q # p => pc'[q] = pc[q], PointInv(p)'
    PROVE  \A q \in Procs : PointInv(q)'
<1>1. \A q \in Procs : q # p => pc'[q] = "idle"
  BY Idle
<1>. QED
  BY <1>1 DEF PointInv

\* A record in the hands of create keeps its runtime.
LEMMA HeldStays ==
    ASSUME SerialInv, [Next]_vars, NEW p \in Procs, pc[p] \in {"save", "insert"}, rec'[p] = rec[p]
    PROVE  HasRuntime(rec[p])'
<1>. USE DEF SerialInv, Base
<1>1. rec[p] \in Records /\ rec[p] \in Known
  BY Running DEF RuntimeInv, HoldingPoints, Known
<1>2. Tied(rec[p]) /\ HasRuntime(rec[p])
  BY <1>1 DEF RuntimeInv, PointInv
<1>3. \A q \in Procs : pc[q] # "kill"
  BY Idle
<1>4. \A r : r = rec[p] => HasRuntime(r)'
  BY <1>1, <1>2, <1>3, RuntimeStays
<1>. QED
  BY <1>4 DEF HasRuntime, NoInstance

\* What an invocation has at each of its program points.
LEMMA PointStep ==
    ASSUME SerialInv, [Next]_vars
    PROVE  \A p \in Procs : PointInv(p)'
<1>. USE DEF SerialInv, Base
<1>0. TypeInv /\ TypeOK
  BY DEF RuntimeInv, TypeInv
<1>1. CASE UNCHANGED vars
  <2>1. IndexStill
    BY <1>1 DEF vars, IndexStill, WritingIndex
  <2>. QED
    BY <1>1, <2>1, StillIndex DEF vars, PointInv, HasRuntime, NoInstance
<1>2. ASSUME NEW n \in Names, OrphanEnds(n), NEW p \in Procs PROVE PointInv(p)'
  <2>1. IndexStill /\ pc' = pc /\ rec' = rec /\ wr' = wr
    BY <1>2 DEF OrphanEnds, IndexStill, WritingIndex
  <2>. QED
    BY <2>1, StillIndex, HeldStays DEF PointInv
<1>3. ASSUME NEW p \in Procs, Start(p) PROVE \A q \in Procs : PointInv(q)'
  <2>1. IndexStill /\ rec' = rec /\ wr' = wr
    BY <1>0, <1>3, StillStep DEF Start
  <2>2. \A q \in Procs : q # p => pc'[q] = pc[q]
    BY <1>0, <1>3 DEF Start, Goto, TypeOK
  <2>3. pc'[p] = "open"
    BY <1>0, <1>3 DEF Start, Goto, TypeOK
  <2>4. ASSUME NEW q \in Procs, q # p PROVE PointInv(q)'
    BY <2>1, <2>2, <2>4, StillIndex, HeldStays DEF PointInv
  <2>. QED
    BY <2>3, <2>4 DEF PointInv
<1>4. ASSUME NEW p \in Procs,
             \/ Crash(p) \/ Quits(p) \/ AlreadyExists(p) \/ ReportCreated(p) \/ RunEnds(p)
      PROVE  \A q \in Procs : PointInv(q)'
  <2>1. pc[p] # "idle" /\ pc' = [pc EXCEPT ![p] = "idle"]
    BY <1>4 DEF Crash, Quits, Exit, AlreadyExists, ReportCreated, RunEnds, At
  <2>2. PointInv(p)' /\ \A q \in Procs : q # p => pc'[q] = pc[q]
    BY <1>0, <2>1 DEF TypeOK, PointInv
  <2>. QED
    BY <2>1, <2>2, PointFrame
<1>5. ASSUME NEW p \in Procs, Truncate(p) \/ Fill(p) PROVE \A q \in Procs : PointInv(q)'
  <2>1. Coming' = Coming
    BY <1>0, <1>5, IndexCalls, StillStep, StillIndex
  <2>2. pc' = pc /\ rec' = rec /\ wr[p] # None /\ pc[p] # "idle"
    BY <1>5 DEF Truncate, Fill, Alone
  <2>3. pc[p] # "kill"
    BY <2>2 DEF PointInv
  <2>4. PointInv(p)'
    BY <2>1, <2>2, <2>3, HeldStays DEF PointInv
  <2>. QED
    BY <2>2, <2>4, PointFrame
<1>6. ASSUME NEW p \in Procs,
             \/ OpenStore(p) \/ CreateMac(p) \/ Run(p) \/ PeekShell(p) \/ SetPolicy(p)
             \/ UpdateRecord(p) \/ TouchLastUsed(p) \/ KillPodman(p) \/ KillMac(p)
      PROVE  \A q \in Procs : PointInv(q)'
  <2>1. FirstPoint(cmd[p].op) \in {"create", "run", "remove", "peek", "get"}
    BY DEF FirstPoint
  <2>2. PICK l \in {"create", "run", "remove", "peek", "get", "limits", "running", "update",
                    "shown", "exec"} : Goto(p, l)
    BY <1>6, <2>1
    DEF OpenStore, CreateMac, Run, PeekShell, SetPolicy, UpdateRecord, TouchLastUsed, KillPodman,
        KillMac
  <2>3. pc[p] # "idle"
    BY <1>6
    DEF OpenStore, CreateMac, Run, PeekShell, SetPolicy, UpdateRecord, TouchLastUsed, KillPodman,
        KillMac, At
  <2>4. pc'[p] = l /\ \A q \in Procs : q # p => pc'[q] = pc[q]
    BY <1>0, <2>2 DEF Goto, TypeOK
  <2>5. PointInv(p)'
    BY <2>4 DEF PointInv
  <2>. QED
    BY <2>3, <2>4, <2>5, PointFrame
<1>7. ASSUME NEW p \in Procs, CreatePodman(p) \/ WriteLimits(p)
      PROVE  \A q \in Procs : PointInv(q)'
  <2>1. cmd[p].op = "create" /\ cmd[p].key \in Names /\ pc[p] # "idle"
    BY <1>0, <1>7, Running DEF CreatePodman, WriteLimits, At, Points, Complete
  <2>2. HasRuntime(rec[p])'
    <3>1. CASE CreatePodman(p)
      <4>1. /\ rec'[p].mechanism = "podman" /\ rec'[p].name = cmd[p].key
            /\ rec'[p].runtime_id = fresh
        BY <1>0, <3>1 DEF CreatePodman, NewRecord, TypeOK
      <4>2. container'[cmd[p].key] = [cid |-> fresh, policy |-> cmd[p].policy, ephemeral |-> FALSE]
        BY <1>0, <2>1, <3>1 DEF CreatePodman, TypeOK
      <4>3. container'[cmd[p].key] \in Containers
        BY <1>0, <2>1, <3>1, <4>2, Running DEF CreatePodman, At, Containers, Complete, TypeOK
      <4>4. container'[cmd[p].key] # None
        BY <4>3, NoneAssumption
      <4>5. container'[cmd[p].key].cid = fresh
        BY <4>2
      <4>. QED
        BY <4>1, <4>4, <4>5 DEF HasRuntime
    <3>2. CASE WriteLimits(p)
      <4>1. cmd[p].mech = "mac"
        BY <1>0, <3>2, Running DEF WriteLimits, At
      <4>2. rec'[p].mechanism = "mac" /\ rec'[p].name = cmd[p].key
        BY <1>0, <3>2, <4>1 DEF WriteLimits, NewRecord, TypeOK
      <4>. QED
        BY <3>2, <4>2 DEF WriteLimits, HasRuntime, NoInstance, hostVars
    <3>. QED
      BY <1>7, <3>1, <3>2
  <2>3. pc'[p] = "save" /\ \A q \in Procs : q # p => pc'[q] = pc[q]
    BY <1>0, <1>7 DEF CreatePodman, WriteLimits, Goto, TypeOK
  <2>4. PointInv(p)'
    BY <2>2, <2>3 DEF PointInv
  <2>. QED
    BY <2>1, <2>3, <2>4, PointFrame
<1>8. ASSUME NEW p \in Procs, SavePolicy(p) PROVE \A q \in Procs : PointInv(q)'
  <2>1. pc[p] = "save" /\ rec' = rec
    BY <1>8 DEF SavePolicy, At
  <2>2. pc'[p] = "insert" /\ \A q \in Procs : q # p => pc'[q] = pc[q]
    BY <1>0, <1>8 DEF SavePolicy, Goto, TypeOK
  <2>3. PointInv(p)'
    BY <2>1, <2>2, HeldStays DEF PointInv
  <2>. QED
    BY <2>1, <2>2, <2>3, PointFrame
<1>9. ASSUME NEW p \in Procs, InsertRecord(p) PROVE \A q \in Procs : PointInv(q)'
  <2>1. /\ pc[p] = "insert" /\ wr[p] = None /\ Loaded /\ rec' = rec /\ file' = file
        /\ Write(p, Index, Insert(Stored, rec[p]))
    BY <1>9 DEF InsertRecord, At, hostVars
  <2>2. rec[p] \in Records /\ Stored \in States
    BY <1>0, <2>1, Running, ComingIs DEF HoldingPoints
  <2>3. Coming' = RecordsOf(Stored) \cup {rec[p]}
    BY <1>0, <2>1, <2>2, InsertListed, InsertFrom, BeginIndex
  <2>4. pc'[p] = "created" /\ \A q \in Procs : q # p => pc'[q] = pc[q]
    BY <1>0, <1>9 DEF InsertRecord, Goto, TypeOK
  <2>5. PointInv(p)'
    BY <2>1, <2>3, <2>4 DEF PointInv
  <2>. QED
    BY <2>1, <2>4, <2>5, PointFrame
<1>10. ASSUME NEW p \in Procs, Get(p) PROVE \A q \in Procs : PointInv(q)'
  <2>1. pc[p] = "get" /\ wr[p] = None /\ Loaded /\ IndexStill
    BY <1>0, <1>10, StillStep DEF Get, At
  <2>2. rec'[p] \in RecordsOf(Stored) /\ Stored \in States
    <3>1. rec'[p] = GetOrLast(Stored, cmd[p].key) /\ rec'[p] # None
      BY <1>0, <1>10 DEF Get, TypeOK
    <3>. QED
      BY <1>0, <2>1, <3>1, ComingIs, GetOrLastFrom
  <2>3. Coming' = RecordsOf(Stored)
    BY <1>0, <2>1, Idle, ComingIs, StillIndex DEF WritingIndex
  <2>4. pc'[p] \in {"set", "shown", "touch"} /\ \A q \in Procs : q # p => pc'[q] = pc[q]
    BY <1>0, <1>10 DEF Get, Goto, NextAfterGet, TypeOK
  <2>5. PointInv(p)'
    BY <2>2, <2>3, <2>4 DEF PointInv
  <2>. QED
    BY <2>1, <2>4, <2>5, PointFrame
<1>11. ASSUME NEW p \in Procs, RemoveRecord(p) PROVE \A q \in Procs : PointInv(q)'
  <2>. DEFINE k == cmd[p].key
  <2>1. /\ pc[p] = "remove" /\ wr[p] = None /\ Loaded /\ file' = file /\ Hits(Stored, k) # {}
        /\ Write(p, Index, RemoveKey(Stored, k))
    BY <1>11 DEF RemoveRecord, At, hostVars
  <2>2. rec'[p] = Find(Stored, k)
    BY <1>0, <1>11 DEF RemoveRecord, TypeOK
  <2>3. Stored \in States /\ UniqueRecords(Stored)
    BY <1>0, <2>1, ComingIs DEF IndexInv, DocOK
  <2>4. Coming' = RecordsOf(RemoveKey(Stored, k))
    BY <1>0, <2>1, <2>3, RemoveListed, BeginIndex
  <2>5. \A r \in Coming' : r.name # rec'[p].name
    BY <2>1, <2>2, <2>3, <2>4, RemoveGone
  <2>6. pc'[p] = "unlink" /\ \A q \in Procs : q # p => pc'[q] = pc[q]
    BY <1>0, <1>11 DEF RemoveRecord, Goto, TypeOK
  <2>7. PointInv(p)'
    BY <2>5, <2>6 DEF PointInv
  <2>. QED
    BY <2>1, <2>6, <2>7, PointFrame
<1>12. ASSUME NEW p \in Procs, UnlinkPolicy(p) PROVE \A q \in Procs : PointInv(q)'
  <2>1. pc[p] = "unlink" /\ IndexStill /\ rec' = rec
    BY <1>0, <1>12, StillStep DEF UnlinkPolicy, At
  <2>2. Coming' = Coming
    BY <2>1, StillIndex
  <2>3. wr'[p] = None
    BY <1>12 DEF UnlinkPolicy, Unlink, At
  <2>4. pc'[p] = "kill" /\ \A q \in Procs : q # p => pc'[q] = pc[q]
    BY <1>0, <1>12 DEF UnlinkPolicy, Goto, TypeOK
  <2>5. PointInv(p)'
    BY <2>1, <2>2, <2>3, <2>4 DEF PointInv
  <2>. QED
    BY <2>1, <2>4, <2>5, PointFrame
<1>. QED
  BY <1>1, <1>2, <1>3, <1>4, <1>5, <1>6, <1>7, <1>8, <1>9, <1>10, <1>11, <1>12, Steps

-----------------------------------------------------------------------------

\* SerialInv is inductive where one invocation runs at a time.
LEMMA SerialInvStep ==
    ASSUME MaxConcurrent = 1
    PROVE  SerialInv /\ [Next]_vars => SerialInv'
<1>. SUFFICES ASSUME SerialInv, [Next]_vars PROVE SerialInv'
  OBVIOUS
<1>1. RuntimeInv' /\ Alone' /\ TornInv'
  BY RuntimeInvStep, AloneStep, TornStep DEF SerialInv, Base, RuntimeInv
<1>2. IndexInv'
  BY InvStep DEF SerialInv, Base, RuntimeInv, Inv
<1>. QED
  BY <1>1, <1>2, DocsSteps, PointStep DEF SerialInv, Base

\* SerialInv holds at first.
LEMMA SerialInvInit == Init => SerialInv
<1>. SUFFICES ASSUME Init PROVE SerialInv
  OBVIOUS
<1>1. RuntimeInv /\ IndexInv
  BY RuntimeInvInit, InvInit DEF Inv
<1>2. Alone
  BY DEF Init, Alone
<1>3. \A f \in Files : file[f] = Absent
  BY DEF Init
<1>4. \A p \in Procs : wr[p] = None /\ pc[p] = "idle"
  BY DEF Init
<1>5. TornInv
  BY <1>3, <1>4, ContentsDiffer DEF TornInv, Fills
<1>6. DocsInv
  BY <1>3, <1>4, FilesOf, ContentsDiffer DEF DocsInv, Loaded, WritingIndex, Init
<1>7. \A p \in Procs : PointInv(p)
  BY <1>4 DEF PointInv
<1>. QED
  BY <1>1, <1>2, <1>5, <1>6, <1>7 DEF SerialInv, Base

\* And so always.
LEMMA SerialAlways ==
    ASSUME MaxConcurrent = 1
    PROVE  Spec => []SerialInv
BY SerialInvInit, SerialInvStep, PTL DEF Spec

\* One invocation at a time, the index never lists a sandbox whose container
\* or seatbelt instance is gone, wherever any of them is killed: create makes
\* the runtime before it lists it, rm unlists it first, and no run, rm or other
\* create takes the runtime of a listed sandbox (cmd_create, cmd_rm).
THEOREM ListedAlwaysRuns ==
    ASSUME MaxConcurrent = 1
    PROVE  Spec => []ListedHasRuntime
<1>1. SerialInv => ListedHasRuntime
  BY DEF SerialInv, DocsInv, DocInv, ListedHasRuntime, Listed, RecordsOf
<1>. QED
  BY <1>1, SerialAlways, PTL

\* One invocation at a time, last_used names a listed sandbox whenever one is
\* listed, so a command without a name finds one (state.rs, remove and
\* touch_last_used).
THEOREM LastUsedAlwaysListed ==
    ASSUME MaxConcurrent = 1
    PROVE  Spec => []LastUsedIsListed
<1>1. SerialInv => LastUsedIsListed
  BY DEF SerialInv, DocsInv, DocInv, LastUsedOK, LastUsedIsListed
<1>. QED
  BY <1>1, SerialAlways, PTL

\* One invocation at a time, no file is empty or mixed but after a kill.
THEOREM TornByCrashOnly ==
    ASSUME MaxConcurrent = 1
    PROVE  Spec => []TornOnlyByCrash
<1>1. SerialInv => TornOnlyByCrash
  BY DEF SerialInv, Base, TornInv, Fills, TornOnlyByCrash
<1>. QED
  BY <1>1, SerialAlways, PTL

\* One invocation at a time, a sandbox whose create was reported is listed
\* until an rm takes it, as long as the index parses.
THEOREM CreatedStaysListed ==
    ASSUME MaxConcurrent = 1
    PROVE  Spec => []CreatedIsListed
<1>1. SerialInv => CreatedIsListed
  <2>. SUFFICES ASSUME SerialInv, Loaded PROVE acked \subseteq {r.id : r \in Listed}
    BY DEF CreatedIsListed
  <2>1. TypeInv /\ Alone
    BY DEF SerialInv, Base, RuntimeInv
  <2>2. Listed = RecordsOf(Stored) /\ Stored \in States
    BY <2>1, ComingIs
  <2>. QED
    BY <2>2, NamesListed DEF SerialInv, DocsInv, DocInv
<1>. QED
  BY <1>1, SerialAlways, PTL

-----------------------------------------------------------------------------
(* Every command is one step of Registry *)

\* Each invocation takes at most one uuid, and its own is yet to come until then.
FreshInv ==
    /\ fresh <= started /\ started <= MaxCommands
    /\ \A p \in Procs : pc[p] \in {"open", "create", "run", "limits"} => fresh < started

\* No step takes a second uuid for its invocation.
LEMMA FreshStep ==
    ASSUME MaxConcurrent = 1, SerialInv, FreshInv, [Next]_vars
    PROVE  FreshInv'
<1>. USE DEF SerialInv, Base
<1>0. TypeInv /\ TypeOK /\ fresh \in Nat /\ started \in Nat /\ MaxCommands \in Nat
  BY SsbxAssumption DEF RuntimeInv, TypeInv, TypeOK
<1>1. CASE UNCHANGED vars
  BY <1>1 DEF vars, FreshInv
<1>2. ASSUME NEW n \in Names, OrphanEnds(n) PROVE FreshInv'
  BY <1>2 DEF OrphanEnds, ghostVars, FreshInv
<1>3. ASSUME NEW p \in Procs, Start(p) PROVE FreshInv'
  BY <1>0, <1>3 DEF Start, FreshInv
<1>4. ASSUME NEW p \in Procs, fresh' = fresh, started' = started,
             \A q \in Procs : q # p => pc'[q] = pc[q],
             \/ pc'[p] \notin {"open", "create", "run", "limits"}
             \/ pc[p] \in {"open", "create", "run", "limits"}
      PROVE  FreshInv'
  BY <1>4 DEF FreshInv
<1>5. ASSUME NEW p \in Procs,
             \/ Crash(p) \/ Quits(p) \/ AlreadyExists(p) \/ ReportCreated(p) \/ RunEnds(p)
      PROVE  FreshInv'
  <2>1. pc'[p] = "idle" /\ (\A q \in Procs : q # p => pc'[q] = pc[q]) /\ UNCHANGED <<fresh, started>>
    BY <1>0, <1>5 DEF Crash, Quits, Exit, AlreadyExists, ReportCreated, RunEnds, ghostVars, TypeOK
  <2>. QED
    BY <1>4, <2>1
<1>6. ASSUME NEW p \in Procs, Truncate(p) \/ Fill(p) PROVE FreshInv'
  BY <1>6 DEF Truncate, Fill, ghostVars, FreshInv
<1>7. ASSUME NEW p \in Procs,
             \/ OpenStore(p) \/ CreateMac(p) \/ SavePolicy(p) \/ InsertRecord(p) \/ PeekShell(p)
             \/ Get(p) \/ TouchLastUsed(p)
      PROVE  FreshInv'
  <2>1. (\A q \in Procs : q # p => pc'[q] = pc[q]) /\ UNCHANGED <<fresh, started>>
    BY <1>0, <1>7
    DEF OpenStore, CreateMac, SavePolicy, InsertRecord, PeekShell, Get, TouchLastUsed, Goto,
        ghostVars, TypeOK
  <2>2. \/ pc'[p] \notin {"open", "create", "run", "limits"}
        \/ pc[p] \in {"open", "create", "run", "limits"}
    BY <1>0, <1>7
    DEF OpenStore, CreateMac, SavePolicy, InsertRecord, PeekShell, Get, NextAfterGet,
        TouchLastUsed, At, Goto, TypeOK
  <2>. QED
    BY <1>4, <2>1, <2>2
<1>8. ASSUME NEW p \in Procs,
             \/ SetPolicy(p) \/ UpdateRecord(p) \/ RemoveRecord(p) \/ UnlinkPolicy(p)
             \/ KillPodman(p) \/ KillMac(p)
      PROVE  FreshInv'
  <2>1. /\ \A q \in Procs : q # p => pc'[q] = pc[q]
        /\ UNCHANGED <<fresh, started>> /\ pc'[p] \notin {"open", "create", "run", "limits"}
    BY <1>0, <1>8
    DEF SetPolicy, UpdateRecord, RemoveRecord, UnlinkPolicy, KillPodman, KillMac, Goto, ghostVars,
        TypeOK
  <2>. QED
    BY <1>4, <2>1
<1>9. ASSUME NEW p \in Procs, CreatePodman(p) \/ WriteLimits(p) \/ Run(p) PROVE FreshInv'
  <2>1. /\ pc[p] \in {"create", "limits", "run"} /\ pc'[p] \in {"save", "running"}
        /\ \A q \in Procs : q # p => pc'[q] = pc[q]
        /\ fresh' \in {fresh, fresh + 1} /\ started' = started
    BY <1>0, <1>9 DEF CreatePodman, WriteLimits, Run, At, Goto, ghostVars, TypeOK
  <2>2. \A q \in Procs : q # p => pc'[q] = "idle"
    BY <2>1, Idle
  <2>. QED
    BY <1>0, <2>1, <2>2 DEF FreshInv
<1>. QED
  BY <1>1, <1>2, <1>3, <1>5, <1>6, <1>7, <1>8, <1>9, Steps

\* What Registry allows of the index d and its successor e.
Adds(d, e) ==
    \E r \in RegistryRecords :
        /\ r.name \notin {x.name : x \in RecordsOf(d)} /\ r.id \notin {x.id : x \in RecordsOf(d)}
        /\ RecordsOf(e) = RecordsOf(d) \cup {r} /\ e.last_used = r.name

Drops(d, e) ==
    \E r \in RecordsOf(d) :
        /\ RecordsOf(e) = RecordsOf(d) \ {r}
        /\ IF d.last_used # r.name THEN e.last_used = d.last_used
           ELSE e.last_used \in IF RecordsOf(e) = {} THEN {None} ELSE {x.name : x \in RecordsOf(e)}

Uses(d, e) == \E r \in RecordsOf(d) : e.last_used = r.name /\ RecordsOf(e) = RecordsOf(d)

Amends(d, e) ==
    \E r \in RecordsOf(d), s \in RegistryRecords :
        /\ s = [r EXCEPT !.policy_hash = s.policy_hash]
        /\ RecordsOf(e) = (RecordsOf(d) \ {r}) \cup {s} /\ e.last_used = r.name

Follows(d, e) == Adds(d, e) \/ Drops(d, e) \/ Uses(d, e) \/ Amends(d, e)

\* A write of the index that is about to begin follows what is there.
BeginInv ==
    \A p \in Procs : WritingIndex(p) /\ wr[p].stage = "open" =>
        \/ file[Index] = Absent /\ wr[p].data = DefaultState
        \/ Loaded /\ Follows(Stored, wr[p].data)

\* The ids of the records in play are those of some invocation.
LEMMA InRegistry ==
    ASSUME SerialInv, FreshInv, NEW r \in Records, Tied(r), r.id < fresh
    PROVE  r \in RegistryRecords
<1>1. /\ r.id \in Nat /\ r.name \in Names /\ r.mechanism \in {"podman", "mac"}
      /\ r.policy_hash \in {Hash(q) : q \in Policies}
      /\ r = [id |-> r.id, name |-> r.name, mechanism |-> r.mechanism,
              runtime_id |-> r.runtime_id, policy_hash |-> r.policy_hash]
  BY DEF Records
<1>2. fresh \in Nat /\ started \in Nat /\ MaxCommands \in Nat
  BY SsbxAssumption DEF SerialInv, Base, RuntimeInv, TypeInv, TypeOK
<1>3. r.id \in Ids
  BY <1>1, <1>2 DEF FreshInv, Ids
<1>4. r.runtime_id \in Ids \cup Names
  BY <1>1, <1>2 DEF Tied, FreshInv, Ids
<1>. QED
  BY <1>1, <1>3, <1>4 DEF RegistryRecords

\* What each command writes follows what it read.
LEMMA WritesFollow ==
    ASSUME SerialInv, FreshInv, NEW p \in Procs,
           InsertRecord(p) \/ TouchLastUsed(p) \/ UpdateRecord(p) \/ RemoveRecord(p)
    PROVE  Loaded /\ \E d \in States : Write(p, Index, d) /\ Follows(Stored, d)
<1>. USE DEF SerialInv, Base
<1>0. TypeInv /\ TypeOK
  BY DEF RuntimeInv, TypeInv
<1>1. pc[p] # "idle" /\ wr[p] = None /\ Loaded
  BY DEF InsertRecord, TouchLastUsed, UpdateRecord, RemoveRecord, At
<1>2. /\ Stored \in States /\ DocInv(Stored) /\ UniqueRecords(Stored)
      /\ Coming = RecordsOf(Stored) /\ \A k \in IdsIn(Stored) : k < fresh
  BY <1>0, <1>1, Idle, ComingIs DEF DocsInv, IndexInv, DocOK, WritingIndex
<1>3. CASE InsertRecord(p)
  <2>1. /\ rec[p] \in Records /\ ~ HasName(Stored, rec[p].name) /\ pc[p] = "insert"
        /\ Write(p, Index, Insert(Stored, rec[p]))
    BY <1>0, <1>3, Running DEF InsertRecord, At, HoldingPoints
  <2>2. rec[p].id < fresh /\ rec[p].id \notin IdsIn(Stored)
    BY <1>1, <2>1 DEF IndexInv, Inserting
  <2>3. Tied(rec[p])
    BY <2>1 DEF RuntimeInv, Known, HoldingPoints
  <2>4. rec[p] \in RegistryRecords
    BY <2>1, <2>2, <2>3, InRegistry
  <2>5. /\ rec[p].name \notin {x.name : x \in RecordsOf(Stored)}
        /\ rec[p].id \notin {x.id : x \in RecordsOf(Stored)}
    BY <1>2, <2>1, <2>2, NamesListed
  <2>6. Insert(Stored, rec[p]).last_used = rec[p].name
    BY DEF Insert
  <2>7. Adds(Stored, Insert(Stored, rec[p]))
    BY <1>2, <2>1, <2>4, <2>5, <2>6, InsertFrom DEF Adds
  <2>. QED
    BY <1>1, <1>2, <2>1, <2>7, InsertListed DEF Follows
<1>4. CASE TouchLastUsed(p)
  <2>. DEFINE d == Touch(Stored, rec[p].name)
  <2>1. rec[p].name \in Names /\ \E r \in RecordsOf(Stored) : r.name = rec[p].name
    BY <1>0, <1>2, <1>4, Running DEF TouchLastUsed, At, HoldingPoints, Records, PointInv
  <2>2. d \in States /\ RecordsOf(d) = RecordsOf(Stored)
    BY <1>2, <2>1, TouchListed, TouchLastUsedOK
  <2>3. d.last_used = rec[p].name
    BY <1>2 DEF Touch, States
  <2>4. Uses(Stored, d)
    BY <2>1, <2>2, <2>3 DEF Uses
  <2>. QED
    BY <1>1, <1>4, <2>2, <2>4 DEF Follows, TouchLastUsed
<1>5. CASE UpdateRecord(p)
  <2>. DEFINE m == rec[p].name
              c == cmd[p].policy
              d == UpdatePolicy(Stored, m, c)
  <2>1. m \in Names /\ c \in Policies /\ HasName(Stored, m) /\ Write(p, Index, d)
    BY <1>0, <1>5, Running DEF UpdateRecord, At, HoldingPoints, Records, Points, Complete
  <2>2. d \in States /\ d.last_used = m
    <3>1. d.last_used = m
      BY DEF UpdatePolicy
    <3>. QED
      BY <1>2, <2>1, <3>1, UpdateListed
  <2>. HIDE DEF m, c
  <2>3. PICK s \in RecordsOf(Stored) :
            /\ s.name = m
            /\ RecordsOf(d) = (RecordsOf(Stored) \ {s}) \cup {[s EXCEPT !.policy_hash = Hash(c)]}
    BY <1>2, <2>1, UpdateExact
  <2>. DEFINE t == [s EXCEPT !.policy_hash = Hash(c)]
  <2>4. s \in Records /\ Tied(s) /\ s.id < fresh
    BY <1>1, <1>2, <2>3, RecordsAreRecords, NamesListed DEF RuntimeInv, Known
  <2>5. t \in Records /\ t.policy_hash = Hash(c) /\ t.id = s.id /\ Same(t, s)
    BY <2>1, <2>4 DEF Records, Same
  <2>6. t \in RegistryRecords
    <3>1. Tied(t)
      BY <2>4, <2>5 DEF Tied, Same
    <3>. QED
      BY <2>4, <2>5, <3>1, InRegistry
  <2>7. t = [s EXCEPT !.policy_hash = t.policy_hash]
    BY <2>5
  <2>. HIDE DEF d, t
  <2>8. RecordsOf(d) = (RecordsOf(Stored) \ {s}) \cup {t}
    BY <2>3 DEF t
  <2>9. Amends(Stored, d)
    BY <2>2, <2>3, <2>6, <2>7, <2>8 DEF Amends
  <2>. QED
    BY <1>1, <2>1, <2>2, <2>9 DEF Follows
<1>6. CASE RemoveRecord(p)
  <2>. DEFINE k == cmd[p].key
              d == RemoveKey(Stored, k)
              f == Find(Stored, k)
  <2>1. Hits(Stored, k) # {} /\ Write(p, Index, d)
    BY <1>6 DEF RemoveRecord
  <2>2. d \in States /\ f \in RecordsOf(Stored) /\ LastUsedOK(d)
    BY <1>2, <2>1, RemoveListed, FindFrom, RemoveLastUsed DEF DocInv
  <2>3. RecordsOf(d) = RecordsOf(Stored) \ {f}
    BY <1>2, <2>1, RemoveFrom, RemoveGone
  <2>4. Stored.last_used # f.name => d.last_used = Stored.last_used
    BY <1>2, <2>1, FindListed DEF RemoveKey
  <2>5. d.last_used \in IF RecordsOf(d) = {} THEN {None} ELSE {x.name : x \in RecordsOf(d)}
    BY <2>2, LastUsedRecords
  <2>6. Drops(Stored, d)
    BY <2>2, <2>3, <2>4, <2>5 DEF Drops
  <2>. QED
    BY <1>1, <2>1, <2>2, <2>6 DEF Follows
<1>. QED
  BY <1>3, <1>4, <1>5, <1>6

\* A step that leaves the index and begins no write of it.
LEMMA BeginFrame ==
    ASSUME BeginInv, file'[Index] = file[Index],
           \A q \in Procs : WritingIndex(q)' /\ wr'[q].stage = "open" =>
                WritingIndex(q) /\ wr[q].stage = "open" /\ wr'[q].data = wr[q].data
    PROVE  BeginInv'
BY DEF BeginInv, Loaded, Stored

\* A write begins from the index that is there.
LEMMA BeginStep ==
    ASSUME SerialInv, FreshInv, BeginInv, [Next]_vars
    PROVE  BeginInv'
<1>. USE DEF SerialInv, Base
<1>0. TypeInv /\ TypeOK
  BY DEF RuntimeInv, TypeInv
<1>1. ASSUME UNCHANGED <<file, wr>> PROVE BeginInv'
  BY <1>1, BeginFrame DEF WritingIndex
<1>2. ASSUME NEW p \in Procs, pc[p] # "idle", wr[p] = None, IndexStill PROVE BeginInv'
  <2>1. \A q \in Procs : ~ WritingIndex(q)'
    BY <1>2, Idle DEF IndexStill, WritingIndex
  <2>. QED
    BY <2>1 DEF BeginInv
<1>3. ASSUME NEW p \in Procs, Crash(p) PROVE BeginInv'
  BY <1>0, <1>3, BeginFrame DEF Crash, hostVars, WritingIndex, TypeOK
<1>4. ASSUME NEW p \in Procs, Start(p) PROVE BeginInv'
  BY <1>1, <1>4 DEF Start, hostVars
<1>5. ASSUME NEW p \in Procs,
             \/ Quits(p) \/ CreatePodman(p) \/ CreateMac(p) \/ WriteLimits(p) \/ SavePolicy(p)
             \/ AlreadyExists(p) \/ ReportCreated(p) \/ Run(p) \/ RunEnds(p)
             \/ PeekShell(p) \/ Get(p) \/ SetPolicy(p)
             \/ UnlinkPolicy(p) \/ KillPodman(p) \/ KillMac(p)
             \/ (OpenStore(p) /\ file[Index] # Absent)
      PROVE  BeginInv'
  <2>1. pc[p] # "idle" /\ wr[p] = None
    BY <1>5
    DEF Quits, CreatePodman, CreateMac, WriteLimits, SavePolicy, AlreadyExists, ReportCreated, Run,
        RunEnds, PeekShell, Get, SetPolicy, UnlinkPolicy, KillPodman, KillMac, OpenStore, At
  <2>2. IndexStill
    BY <1>0, <1>5, StillStep
  <2>. QED
    BY <1>2, <2>1, <2>2
<1>6. ASSUME NEW p \in Procs, Truncate(p) \/ Fill(p) PROVE BeginInv'
  <2>1. \A q \in Procs : q # p => wr'[q] = None
    BY <1>0, <1>6, Idle DEF Truncate, Fill, Alone, TypeOK
  <2>2. wr'[p] # None => wr'[p].stage = "fill"
    BY <1>0, <1>6 DEF Truncate, Fill, WriteType, TypeOK
  <2>. QED
    BY <2>1, <2>2 DEF BeginInv, WritingIndex
<1>7. ASSUME NEW p \in Procs, pc[p] # "idle", wr[p] = None, file' = file, NEW d \in States,
             Write(p, Index, d),
             \/ file[Index] = Absent /\ d = DefaultState
             \/ Loaded /\ Follows(Stored, d)
      PROVE  BeginInv'
  <2>1. /\ \A q \in Procs : WritingIndex(q)' => q = p /\ wr'[q].data = d
        /\ (Loaded' <=> Loaded) /\ Stored' = Stored
    BY <1>0, <1>7, BeginIndex
  <2>. QED
    BY <1>7, <2>1 DEF BeginInv
<1>8. ASSUME NEW p \in Procs, OpenStore(p), file[Index] = Absent PROVE BeginInv'
  BY <1>7, <1>8, DefaultIsState DEF OpenStore, At, hostVars
<1>9. ASSUME NEW p \in Procs,
             InsertRecord(p) \/ TouchLastUsed(p) \/ UpdateRecord(p) \/ RemoveRecord(p)
      PROVE  BeginInv'
  <2>1. pc[p] # "idle" /\ wr[p] = None /\ file' = file
    BY <1>9 DEF InsertRecord, TouchLastUsed, UpdateRecord, RemoveRecord, At, hostVars
  <2>. QED
    BY <1>7, <1>9, <2>1, WritesFollow
<1>10. CASE UNCHANGED vars
  BY <1>1, <1>10 DEF vars
<1>11. ASSUME NEW n \in Names, OrphanEnds(n) PROVE BeginInv'
  BY <1>1, <1>11 DEF OrphanEnds
<1>. QED
  BY <1>3, <1>4, <1>5, <1>6, <1>8, <1>9, <1>10, <1>11, Steps

\* The document is that of the write under way, or what the index holds.
LEMMA DocumentIs ==
    /\ Filling = {} => Document = IF Loaded THEN Stored ELSE DefaultState
    /\ \A p : Filling = {p} => Document = wr[p].data
    /\ Filling' = {} => Document' = IF Loaded' THEN Stored' ELSE DefaultState
    /\ \A p : Filling' = {p} => Document' = wr'[p].data
BY DEF Document

\* A step that leaves the document is none of the registry.
LEMMA RegistryStutters ==
    ASSUME Document' = Document, IsLost' <=> IsLost
    PROVE  UNCHANGED R!vars
<1>1. IsLost' = IsLost
  BY DEF IsLost
<1>. QED
  BY <1>1 DEF R!vars

\* Nothing happens to the register while nobody writes the index.
LEMMA RegistryStill ==
    ASSUME file'[Index] = file[Index], Filling = {}, Filling' = {}
    PROVE  UNCHANGED R!vars
<1>1. Document' = Document
  BY DocumentIs DEF Loaded, Stored
<1>2. IsLost' <=> IsLost
  BY DEF IsLost
<1>. QED
  BY <1>1, <1>2, RegistryStutters

\* The document a write of the index leaves, once it has truncated it.
LEMMA RegistryFollows ==
    ASSUME Follows(Document, Document'), ~ IsLost, ~ IsLost'
    PROVE  R!Next
<1>1. /\ RecordsOf(Document) = {Document.sandboxes[i] : i \in DOMAIN Document.sandboxes}
      /\ RecordsOf(Document') = {Document.sandboxes[i] : i \in DOMAIN Document.sandboxes}'
  BY DEF RecordsOf
<1>2. IsLost' = IsLost
  BY DEF IsLost
<1>3. CASE Adds(Document, Document')
  <2>1. \E r \in RegistryRecords : R!Add(r)
    BY <1>1, <1>3 DEF Adds, R!Add, R!NamesOf, R!IdsOf
  <2>. QED
    BY <1>2, <2>1 DEF R!Next
<1>4. CASE Drops(Document, Document')
  <2>1. \E r \in RecordsOf(Document) : R!Drop(r)
    BY <1>1, <1>4 DEF Drops, R!Drop, R!NamesOf
  <2>. QED
    BY <1>1, <1>2, <2>1 DEF R!Next
<1>5. CASE Uses(Document, Document')
  <2>1. \E r \in RecordsOf(Document) : R!Use(r)
    BY <1>1, <1>5 DEF Uses, R!Use
  <2>. QED
    BY <1>1, <1>2, <2>1 DEF R!Next
<1>6. CASE Amends(Document, Document')
  <2>1. \E r \in RecordsOf(Document), s \in RegistryRecords : R!Amend(r, s)
    BY <1>1, <1>6 DEF Amends, R!Amend
  <2>. QED
    BY <1>1, <1>2, <2>1 DEF R!Next
<1>. QED
  BY <1>3, <1>4, <1>5, <1>6 DEF Follows

\* Every step is one of the registry, or leaves it.
LEMMA RegistryStep ==
    ASSUME SerialInv, BeginInv, [Next]_vars
    PROVE  R!Next \/ UNCHANGED R!vars
<1>. USE DEF SerialInv, Base
<1>0. TypeInv /\ TypeOK /\ Alone /\ TornInv
  BY DEF RuntimeInv, TypeInv
<1>. DEFINE Good == R!Next \/ UNCHANGED R!vars
<1>1. ASSUME UNCHANGED <<file, wr>> PROVE Good
  <2>1. Filling' = Filling
    BY <1>1 DEF Filling, WritingIndex
  <2>2. Document' = Document
    BY <1>1, <2>1 DEF Document, Loaded, Stored
  <2>3. IsLost' <=> IsLost
    BY <1>1, <2>1 DEF IsLost
  <2>. QED
    BY <2>2, <2>3, RegistryStutters
<1>2. ASSUME NEW p \in Procs, pc[p] # "idle", ~ WritingIndex(p), IndexStill PROVE Good
  <2>1. \A q \in Procs : ~ WritingIndex(q) /\ ~ WritingIndex(q)'
    BY <1>0, <1>2, Idle DEF IndexStill, WritingIndex
  <2>2. Filling = {} /\ Filling' = {}
    BY <2>1 DEF Filling
  <2>. QED
    BY <1>2, <2>2, RegistryStill DEF IndexStill
<1>3. ASSUME NEW p \in Procs, Start(p) PROVE Good
  BY <1>1, <1>3 DEF Start, hostVars
<1>4. ASSUME NEW n \in Names, OrphanEnds(n) PROVE Good
  BY <1>1, <1>4 DEF OrphanEnds
<1>5. CASE UNCHANGED vars
  BY <1>1, <1>5 DEF vars
<1>6. ASSUME NEW p \in Procs,
             \/ Quits(p) \/ CreatePodman(p) \/ CreateMac(p) \/ WriteLimits(p) \/ SavePolicy(p)
             \/ AlreadyExists(p) \/ ReportCreated(p) \/ Run(p) \/ RunEnds(p)
             \/ PeekShell(p) \/ Get(p) \/ SetPolicy(p)
             \/ UnlinkPolicy(p) \/ KillPodman(p) \/ KillMac(p)
             \/ (OpenStore(p) /\ file[Index] # Absent)
      PROVE  Good
  <2>1. pc[p] # "idle" /\ wr[p] = None
    BY <1>6
    DEF Quits, CreatePodman, CreateMac, WriteLimits, SavePolicy, AlreadyExists, ReportCreated, Run,
        RunEnds, PeekShell, Get, SetPolicy, UnlinkPolicy, KillPodman, KillMac, OpenStore, At
  <2>2. IndexStill
    BY <1>0, <1>6, StillStep
  <2>. QED
    BY <1>2, <2>1, <2>2 DEF WritingIndex
\* Beginning the write changes nothing yet.
<1>7. ASSUME NEW p \in Procs,
             \/ InsertRecord(p) \/ TouchLastUsed(p) \/ UpdateRecord(p) \/ RemoveRecord(p)
             \/ (OpenStore(p) /\ file[Index] = Absent)
      PROVE  Good
  <2>1. pc[p] # "idle" /\ wr[p] = None /\ file' = file
    BY <1>7 DEF InsertRecord, TouchLastUsed, UpdateRecord, RemoveRecord, OpenStore, At, hostVars
  <2>2. PICK d : Write(p, Index, d)
    BY <1>7 DEF InsertRecord, TouchLastUsed, UpdateRecord, RemoveRecord, OpenStore
  <2>3. \A q \in Procs : wr[q] = None
    BY <1>0, <2>1, Idle
  <2>4. wr' = [wr EXCEPT ![p] = [file |-> Index, data |-> d, stage |-> "open"]]
    BY <2>2 DEF Write
  <2>5. \A q \in Procs : wr'[q] # None => wr'[q].stage = "open"
    BY <1>0, <2>3, <2>4 DEF TypeOK
  <2>6. Filling = {} /\ Filling' = {}
    BY <2>3, <2>5 DEF Filling, WritingIndex
  <2>. QED
    BY <2>1, <2>6, RegistryStill
\* open(O_TRUNC) of the index: the command takes effect.
<1>8. ASSUME NEW p \in Procs, Truncate(p), WritingIndex(p) PROVE Good
  <2>. DEFINE d == wr[p].data
  <2>1. wr[p].stage = "open" /\ \A q \in Procs : q # p => wr[q] = None
    BY <1>0, <1>8, Idle DEF Truncate, WritingIndex, Alone
  <2>2. /\ WritingIndex(p)' /\ wr'[p].data = d /\ wr'[p].stage = "fill"
        /\ \A q \in Procs : q # p => wr'[q] = None
    BY <1>0, <1>8, IndexCalls
  <2>3. Filling = {} /\ Filling' = {p}
    BY <2>1, <2>2 DEF Filling, WritingIndex
  <2>4. Document' = d /\ ~ IsLost'
    BY <2>2, <2>3, DocumentIs DEF IsLost
  <2>5. CASE file[Index] = Absent /\ d = DefaultState
    <3>1. Document = DefaultState /\ ~ IsLost
      BY <2>3, <2>5, DocumentIs, ContentsDiffer DEF Loaded, IsLost
    <3>. QED
      BY <2>4, <2>5, <3>1, RegistryStutters
  <2>6. CASE Loaded /\ Follows(Stored, d)
    <3>1. Document = Stored /\ ~ IsLost
      BY <2>3, <2>6, DocumentIs, ContentsDiffer DEF Loaded, IsLost
    <3>2. Follows(Document, Document')
      BY <2>4, <2>6, <3>1
    <3>. QED
      BY <2>4, <3>1, <3>2, RegistryFollows
  <2>. QED
    BY <1>8, <2>1, <2>5, <2>6 DEF BeginInv
\* write(2) of the index: what was to come is there.
<1>9. ASSUME NEW p \in Procs, Fill(p), WritingIndex(p) PROVE Good
  <2>1. /\ wr[p].stage = "fill" /\ \A q \in Procs : q # p => wr[q] = None
    BY <1>0, <1>9, Idle DEF Fill, WritingIndex, Alone
  <2>2. Loaded' /\ Stored' = wr[p].data /\ \A q \in Procs : wr'[q] = None
    BY <1>0, <1>9, IndexCalls
  <2>3. Filling = {p} /\ Filling' = {}
    BY <1>9, <2>1, <2>2 DEF Filling, WritingIndex
  <2>4. Document' = Document
    BY <2>2, <2>3, DocumentIs
  <2>5. ~ IsLost /\ ~ IsLost'
    BY <2>2, <2>3, ContentsDiffer DEF IsLost, Loaded
  <2>. QED
    BY <2>4, <2>5, RegistryStutters
<1>10. ASSUME NEW p \in Procs, Truncate(p) \/ Fill(p), ~ WritingIndex(p) PROVE Good
  BY <1>0, <1>2, <1>10, StillStep DEF Truncate, Fill, Alone
\* A kill between the two loses everything, and otherwise nothing.
<1>11. ASSUME NEW p \in Procs, Crash(p) PROVE Good
  <2>1. pc[p] # "idle" /\ file' = file /\ wr'[p] = None
    BY <1>0, <1>11 DEF Crash, hostVars, TypeOK
  <2>2. \A q \in Procs : (q # p => wr[q] = None) /\ wr'[q] = None
    BY <1>0, <1>11, <2>1, Idle DEF Crash, TypeOK
  <2>3. Filling' = {}
    BY <2>2 DEF Filling, WritingIndex
  <2>4. CASE p \notin Filling
    <3>1. Filling = {}
      BY <2>2, <2>4 DEF Filling, WritingIndex
    <3>. QED
      BY <2>1, <2>3, <3>1, RegistryStill
  <2>5. CASE p \in Filling
    <3>1. file[Index] = Empty /\ Filling # {}
      BY <1>0, <2>5, FilesOf DEF TornInv, Fills, Filling, WritingIndex
    <3>2. ~ IsLost /\ IsLost'
      BY <2>1, <2>3, <3>1 DEF IsLost
    <3>3. Document' = DefaultState
      BY <2>1, <2>3, <3>1, DocumentIs, ContentsDiffer DEF Loaded
    <3>4. {Document.sandboxes[i] : i \in DOMAIN Document.sandboxes}' = {}
      BY <3>3 DEF DefaultState
    <3>5. Document'.last_used = None
      BY <3>3 DEF DefaultState
    <3>6. R!Lose
      BY <3>2, <3>4, <3>5 DEF R!Lose, IsLost
    <3>. QED
      BY <3>2, <3>6 DEF R!Next
  <2>. QED
    BY <2>4, <2>5
<1>. QED
  BY <1>3, <1>4, <1>5, <1>6, <1>7, <1>8, <1>9, <1>10, <1>11, Steps

\* The registry begins empty.
LEMMA RegistryInit == Init => R!Init /\ FreshInv /\ BeginInv
<1>. SUFFICES ASSUME Init PROVE R!Init /\ FreshInv /\ BeginInv
  OBVIOUS
<1>1. file[Index] = Absent /\ \A p \in Procs : wr[p] = None /\ pc[p] = "idle"
  BY FilesOf DEF Init
<1>2. Filling = {}
  BY <1>1 DEF Filling, WritingIndex
<1>3. Document = DefaultState /\ ~ IsLost
  BY <1>1, <1>2, DocumentIs, ContentsDiffer DEF Loaded, IsLost
<1>4. {Document.sandboxes[i] : i \in DOMAIN Document.sandboxes} = {} /\ Document.last_used = None
  BY <1>3 DEF DefaultState
<1>5. IsLost = FALSE
  BY <1>3 DEF IsLost
<1>6. FreshInv
  BY <1>1, SsbxAssumption DEF Init, FreshInv
<1>. QED
  BY <1>1, <1>4, <1>5, <1>6 DEF R!Init, BeginInv, WritingIndex

\* Seen through the document the index holds or is about to, ssbx is the
\* register of Registry: each save_index of create, rm, exec and policy set is
\* one step of it or none, when the file is truncated, and a kill between the
\* truncation and the write loses everything (Store, state.rs).
THEOREM IndexIsRegistry ==
    ASSUME MaxConcurrent = 1
    PROVE  Spec => ImplementsRegistry
<1>1. Init => SerialInv /\ FreshInv /\ BeginInv /\ R!Init
  BY SerialInvInit, RegistryInit
<1>2. SerialInv /\ FreshInv /\ BeginInv /\ [Next]_vars
        => SerialInv' /\ FreshInv' /\ BeginInv' /\ [R!Next]_(R!vars)
  BY SerialInvStep, FreshStep, BeginStep, RegistryStep
<1>. QED
  BY <1>1, <1>2, PTL DEF Spec, ImplementsRegistry, R!Spec
=============================================================================
