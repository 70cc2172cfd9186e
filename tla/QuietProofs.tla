----------------------------- MODULE QuietProofs -----------------------------
(***************************************************************************)
(* One invocation at a time (MaxConcurrent = 1), and none killed so far:   *)
(* what is true between two invocations.  Each invariant says, for every   *)
(* program point, who answers meanwhile for what is not yet, or no longer, *)
(* as it must be when the invocation is over.                              *)
(***************************************************************************)
EXTENDS SerialProofs

-----------------------------------------------------------------------------
(* The index is there, and loads *)

\* Store::open leaves an index behind, or is about to write it.
IndexThere ==
    \A p \in Procs : pc[p] \notin {"idle", "open"} => file[Index] # Absent \/ WritingIndex(p)

\* A step that leaves the index there.
LEMMA ThereFrame ==
    ASSUME IndexThere, file[Index] # Absent => file'[Index] # Absent,
           \A q \in Procs : pc'[q] \notin {"idle", "open"} =>
                /\ pc[q] \notin {"idle", "open"}
                /\ WritingIndex(q) => WritingIndex(q)' \/ file'[Index] # Absent
    PROVE  IndexThere'
BY DEF IndexThere

\* Past Store::open there is an index.
LEMMA ThereStep ==
    ASSUME SerialInv, IndexThere, [Next]_vars
    PROVE  IndexThere'
<1>. USE DEF SerialInv, Base
<1>0. TypeInv /\ TypeOK
  BY DEF RuntimeInv, TypeInv
<1>1. CASE UNCHANGED vars
  BY <1>1 DEF vars, IndexThere, WritingIndex
<1>2. ASSUME NEW n \in Names, OrphanEnds(n) PROVE IndexThere'
  BY <1>2 DEF OrphanEnds, IndexThere, WritingIndex
<1>3. ASSUME NEW p \in Procs, IndexStill, pc'[p] \notin {"idle", "open"} => pc[p] \notin {"idle", "open"},
             \A q \in Procs : q # p => pc'[q] = pc[q]
      PROVE  IndexThere'
  BY <1>3, ThereFrame DEF IndexStill
<1>4. ASSUME NEW p \in Procs,
             \/ Start(p) \/ Quits(p) \/ AlreadyExists(p) \/ ReportCreated(p) \/ RunEnds(p)
      PROVE  IndexThere'
  <2>1. pc'[p] \in {"idle", "open"} /\ \A q \in Procs : q # p => pc'[q] = pc[q]
    BY <1>0, <1>4 DEF Start, Goto, Quits, Exit, AlreadyExists, ReportCreated, RunEnds, TypeOK
  <2>. QED
    BY <1>0, <1>3, <1>4, <2>1, StillStep
<1>5. ASSUME NEW p \in Procs,
             \/ CreatePodman(p) \/ CreateMac(p) \/ WriteLimits(p) \/ SavePolicy(p) \/ Run(p)
             \/ PeekShell(p) \/ Get(p) \/ SetPolicy(p)
             \/ UnlinkPolicy(p) \/ KillPodman(p) \/ KillMac(p)
      PROVE  IndexThere'
  <2>1. pc[p] \notin {"idle", "open"} /\ \A q \in Procs : q # p => pc'[q] = pc[q]
    BY <1>0, <1>5
    DEF CreatePodman, CreateMac, WriteLimits, SavePolicy, Run, PeekShell, Get, SetPolicy,
        UnlinkPolicy, KillPodman, KillMac, At, Goto, TypeOK
  <2>. QED
    BY <1>0, <1>3, <1>5, <2>1, StillStep
<1>6. ASSUME NEW p \in Procs, Truncate(p) PROVE IndexThere'
  <2>1. pc' = pc /\ pc[p] # "idle"
    BY <1>6 DEF Truncate, Alone
  <2>2. CASE WritingIndex(p)
    BY <1>0, <1>6, <2>1, <2>2, IndexCalls, ContentsDiffer DEF IndexThere
  <2>3. CASE ~ WritingIndex(p)
    BY <1>0, <1>3, <1>6, <2>1, <2>3, StillStep
  <2>. QED
    BY <2>2, <2>3
<1>7. ASSUME NEW p \in Procs, Fill(p) PROVE IndexThere'
  <2>1. pc' = pc /\ pc[p] # "idle"
    BY <1>7 DEF Fill, Alone
  <2>2. CASE WritingIndex(p)
    BY <1>0, <1>7, <2>1, <2>2, IndexCalls, ContentsDiffer DEF IndexThere, Loaded
  <2>3. CASE ~ WritingIndex(p)
    BY <1>0, <1>3, <1>7, <2>1, <2>3, StillStep
  <2>. QED
    BY <2>2, <2>3
<1>8. ASSUME NEW p \in Procs, OpenStore(p) PROVE IndexThere'
  <2>1. pc[p] = "open" /\ wr[p] = None /\ file' = file
    BY <1>8 DEF OpenStore, At, hostVars
  <2>2. \A q \in Procs : q # p => pc'[q] = "idle"
    BY <1>0, <1>8, <2>1, Idle DEF OpenStore, Goto, TypeOK
  <2>3. file[Index] = Absent => WritingIndex(p)'
    BY <1>0, <1>8, <2>1, DefaultIsState, BeginIndex DEF OpenStore
  <2>. QED
    BY <2>1, <2>2, <2>3 DEF IndexThere
<1>9. ASSUME NEW p \in Procs,
             InsertRecord(p) \/ TouchLastUsed(p) \/ UpdateRecord(p) \/ RemoveRecord(p)
      PROVE  IndexThere'
  <2>1. pc[p] # "idle" /\ Loaded /\ file' = file
    BY <1>9 DEF InsertRecord, TouchLastUsed, UpdateRecord, RemoveRecord, At, hostVars
  <2>. QED
    BY <2>1, ContentsDiffer DEF IndexThere, Loaded
<1>10. ASSUME NEW p \in Procs, Crash(p) PROVE IndexThere'
  <2>1. /\ pc[p] # "idle" /\ pc'[p] = "idle" /\ \A q \in Procs : q # p => pc'[q] = pc[q]
    BY <1>0, <1>10 DEF Crash, TypeOK
  <2>. QED
    BY <2>1, Idle DEF IndexThere
<1>. QED
  BY <1>1, <1>2, <1>4, <1>5, <1>6, <1>7, <1>8, <1>9, <1>10, Steps

\* A command that gives up, where it has nothing in its hands.
Leaves(p) ==
    /\ Quits(p)
    /\ pc[p] \notin {"save", "insert", "created", "touch", "unlink", "running"}
    /\ pc[p] = "kill" => EngineMayFail
    /\ pc[p] = "limits" => NoInstance(cmd[p].key)
    /\ pc[p] = "update" => ~ HasName(Stored, rec[p].name)

\* load_index does not fail, so no command gives up anywhere else.
LEMMA QuitsEarly ==
    ASSUME SerialInv, IndexThere, crashes = 0, NEW p \in Procs,
           \/ Refuse(p) \/ ContainerNameInUse(p) \/ InstanceGone(p) \/ Show(p) \/ CannotLoad(p)
           \/ NotFound(p) \/ RefusePolicy(p) \/ KillFails(p) \/ Exec(p)
    PROVE  Leaves(p)
<1>. USE DEF SerialInv, Base
<1>1. ~ CannotLoad(p)
  <2>. SUFFICES ASSUME CannotLoad(p) PROVE FALSE
    OBVIOUS
  <2>1. wr[p] = None /\ pc[p] \notin {"idle", "open"} /\ ~ Loaded
    BY DEF CannotLoad
  <2>2. \A q \in Procs : wr[q] = None
    BY <2>1, Idle
  <2>3. file[Index] # Absent /\ file[Index] # Empty /\ file[Index] # Garbled
    BY <2>1, <2>2, FilesOf DEF IndexThere, WritingIndex, TornInv, Fills
  <2>4. FileType(Index, file[Index])
    BY FilesOf DEF RuntimeInv, TypeInv, TypeOK
  <2>. QED
    BY <2>1, <2>3, <2>4 DEF FileType, Loaded, Readable
<1>2. CASE \/ Refuse(p) \/ ContainerNameInUse(p) \/ InstanceGone(p) \/ Show(p) \/ NotFound(p)
           \/ RefusePolicy(p) \/ KillFails(p) \/ Exec(p)
  BY <1>2
  DEF Refuse, ContainerNameInUse, InstanceGone, Show, NotFound, RefusePolicy, KillFails, Exec,
      Leaves, Quits, At
<1>. QED
  BY <1>1, <1>2

\* The steps while no invocation has been killed.
LEMMA QuietSteps ==
    ASSUME SerialInv, IndexThere, [Next]_vars, crashes' = 0
    PROVE  /\ crashes = 0 /\ refused \subseteq refused'
           /\ \/ UNCHANGED vars
              \/ \E n \in Names : OrphanEnds(n)
              \/ \E p \in Procs :
                \/ Start(p) \/ Truncate(p) \/ Fill(p) \/ OpenStore(p) \/ Leaves(p)
                \/ CreatePodman(p) \/ CreateMac(p) \/ WriteLimits(p) \/ SavePolicy(p)
                \/ InsertRecord(p) \/ AlreadyExists(p) \/ ReportCreated(p)
                \/ Run(p) \/ RunEnds(p) \/ PeekShell(p) \/ Get(p) \/ TouchLastUsed(p)
                \/ SetPolicy(p) \/ UpdateRecord(p) \/ RemoveRecord(p) \/ UnlinkPolicy(p)
                \/ KillPodman(p) \/ KillMac(p)
<1>. USE DEF SerialInv, Base
<1>0. crashes \in Nat
  BY DEF RuntimeInv, TypeInv, TypeOK
<1>1. ASSUME NEW p \in Procs, Crash(p) PROVE FALSE
  BY <1>0, <1>1 DEF Crash
<1>2. crashes = 0 /\ refused \subseteq refused'
  <2>1. CASE UNCHANGED vars
    BY <2>1 DEF vars
  <2>2. ASSUME NEW n \in Names, OrphanEnds(n) PROVE crashes = 0 /\ refused \subseteq refused'
    BY <2>2 DEF OrphanEnds, ghostVars
  <2>3. ASSUME NEW p \in Procs,
               \/ Start(p) \/ Truncate(p) \/ Fill(p) \/ OpenStore(p) \/ Quits(p)
               \/ CreatePodman(p) \/ CreateMac(p) \/ WriteLimits(p) \/ SavePolicy(p)
               \/ InsertRecord(p) \/ AlreadyExists(p) \/ ReportCreated(p)
        PROVE  crashes = 0 /\ refused \subseteq refused'
    BY <2>3
    DEF Start, Truncate, Fill, OpenStore, Quits, Exit, CreatePodman, CreateMac, WriteLimits,
        SavePolicy, InsertRecord, AlreadyExists, ReportCreated, ghostVars
  <2>4. ASSUME NEW p \in Procs,
               \/ Run(p) \/ RunEnds(p) \/ PeekShell(p) \/ Get(p) \/ TouchLastUsed(p)
               \/ SetPolicy(p) \/ UpdateRecord(p) \/ RemoveRecord(p) \/ UnlinkPolicy(p)
               \/ KillPodman(p) \/ KillMac(p)
        PROVE  crashes = 0 /\ refused \subseteq refused'
    BY <2>4
    DEF Run, RunEnds, PeekShell, Get, TouchLastUsed, SetPolicy, UpdateRecord, RemoveRecord,
        UnlinkPolicy, KillPodman, KillMac, ghostVars
  <2>. QED
    BY <1>1, <2>1, <2>2, <2>3, <2>4, Steps
<1>3. \A p \in Procs : \/ Refuse(p) \/ ContainerNameInUse(p) \/ InstanceGone(p) \/ Show(p)
                       \/ CannotLoad(p) \/ NotFound(p) \/ RefusePolicy(p) \/ KillFails(p) \/ Exec(p)
                       => Leaves(p)
  BY <1>2, QuitsEarly
<1>. QED
  BY <1>1, <1>2, <1>3 DEF Next, Work, CreateStep, LookUpStep, SetStep, RmStep

-----------------------------------------------------------------------------
(* No container without a record *)

Owns(r, n) == r.mechanism = "podman" /\ r.name = n /\ r.runtime_id = container[n].cid

HeldBy(p, n) == pc[p] \in {"save", "insert", "unlink", "kill"} /\ Owns(rec[p], n)

\* Who answers for container n: a record the index lists or is about to list, a
\* create or rm that has its record in its hands, or the run it belongs to.
Covered(n) ==
    \/ \E r \in Coming : Owns(r, n)
    \/ \E p \in Procs : HeldBy(p, n) \/ RunsIn(p, n)

OrphanInv ==
    crashes = 0 => \A n \in Names \ refused : container[n] # None => Covered(n)

\* A container stays covered if what covers it stays.
LEMMA CoverFrame ==
    ASSUME NEW n, container'[n] = container[n], Covered(n),
           \A r \in Coming : r \in Coming' \/ (Owns(r, n) => Covered(n)'),
           \A q \in Procs : HeldBy(q, n) => HeldBy(q, n)' \/ Covered(n)',
           \A q \in Procs : RunsIn(q, n) => RunsIn(q, n)'
    PROVE  Covered(n)'
<1>1. \A r : Owns(r, n) => Owns(r, n)'
  BY DEF Owns
<1>2. ASSUME NEW r \in Coming, Owns(r, n) PROVE Covered(n)'
  <2>1. CASE r \in Coming'
    BY <1>1, <1>2, <2>1 DEF Covered
  <2>. QED
    BY <1>2, <2>1
<1>3. ASSUME NEW q \in Procs, HeldBy(q, n) \/ RunsIn(q, n) PROVE Covered(n)'
  BY <1>3 DEF Covered
<1>. QED
  BY <1>2, <1>3 DEF Covered

\* The steps that touch neither the index nor a container, and let go of no record.
LEMMA CoverStill ==
    ASSUME TypeInv, NEW n, Covered(n), container' = container, IndexStill, NEW p \in Procs,
           \A q \in Procs : q # p => pc'[q] = pc[q] /\ rec'[q] = rec[q] /\ cmd'[q] = cmd[q],
           HeldBy(p, n) => pc'[p] \in {"save", "insert", "unlink", "kill"} /\ rec'[p] = rec[p],
           ~ RunsIn(p, n) \/ (pc'[p] = pc[p] /\ cmd'[p] = cmd[p])
    PROVE  Covered(n)'
<1>1. Coming' = Coming
  BY StillIndex
<1>2. \A q \in Procs : HeldBy(q, n) => HeldBy(q, n)'
  BY DEF HeldBy, Owns
<1>3. \A q \in Procs : RunsIn(q, n) => RunsIn(q, n)'
  BY DEF RunsIn
<1>. QED
  BY <1>1, <1>2, <1>3, CoverFrame

\* No step leaves a container without a record, an rm or a run.
LEMMA OrphanStep ==
    ASSUME EngineMayFail = FALSE, SerialInv, IndexThere, OrphanInv, [Next]_vars
    PROVE  OrphanInv'
<1>. USE DEF SerialInv, Base
<1>0. TypeInv /\ TypeOK
  BY DEF RuntimeInv, TypeInv
<1>. SUFFICES ASSUME crashes' = 0, NEW n \in Names, n \notin refused', container'[n] # None
              PROVE  Covered(n)'
  BY DEF OrphanInv
<1>a. container[n] # None => Covered(n)
  BY QuietSteps DEF OrphanInv
<1>1. CASE UNCHANGED vars
  <2>1. IndexStill
    BY <1>1 DEF vars, IndexStill, WritingIndex
  <2>. QED
    BY <1>1, <1>a, <2>1, StillIndex DEF vars, Covered, HeldBy, Owns, RunsIn
<1>2. ASSUME NEW m \in Names, OrphanEnds(m) PROVE Covered(n)'
  <2>1. IndexStill
    BY <1>2 DEF OrphanEnds, IndexStill, WritingIndex
  <2>2. container'[n] = container[n] /\ pc' = pc /\ rec' = rec /\ cmd' = cmd
    BY <1>0, <1>2 DEF OrphanEnds, TypeOK
  <2>. QED
    BY <1>a, <2>1, <2>2, StillIndex DEF Covered, HeldBy, Owns, RunsIn
<1>3. ASSUME NEW p \in Procs, container' = container, IndexStill,
             \A q \in Procs : q # p => pc'[q] = pc[q] /\ rec'[q] = rec[q] /\ cmd'[q] = cmd[q],
             HeldBy(p, n) => pc'[p] \in {"save", "insert", "unlink", "kill"} /\ rec'[p] = rec[p],
             ~ RunsIn(p, n) \/ (pc'[p] = pc[p] /\ cmd'[p] = cmd[p])
      PROVE  Covered(n)'
  BY <1>0, <1>3, <1>a, CoverStill
<1>4. ASSUME NEW p \in Procs, Start(p) \/ Leaves(p) \/ ReportCreated(p) PROVE Covered(n)'
  <2>1. IndexStill
    BY <1>0, <1>4, StillStep DEF Leaves
  <2>2. container' = container
    BY <1>4 DEF Start, Leaves, Quits, Exit, ReportCreated, hostVars
  <2>3. \A q \in Procs : q # p => pc'[q] = pc[q] /\ rec'[q] = rec[q] /\ cmd'[q] = cmd[q]
    BY <1>0, <1>4 DEF Start, Goto, Leaves, Quits, Exit, ReportCreated, TypeOK
  <2>4. pc[p] \notin {"save", "insert", "unlink", "kill", "running"}
    BY <1>4 DEF Start, Leaves, ReportCreated, At
  <2>. QED
    BY <1>3, <2>1, <2>2, <2>3, <2>4 DEF HeldBy, RunsIn
<1>5. ASSUME NEW p \in Procs,
             \/ CreateMac(p) \/ WriteLimits(p) \/ SavePolicy(p) \/ PeekShell(p) \/ Get(p)
             \/ SetPolicy(p) \/ UnlinkPolicy(p) \/ KillMac(p)
      PROVE  Covered(n)'
  <2>1. IndexStill
    BY <1>0, <1>5, StillStep
  <2>2. container' = container
    BY <1>5
    DEF CreateMac, WriteLimits, SavePolicy, PeekShell, Get, SetPolicy, UnlinkPolicy, KillMac,
        hostVars
  <2>3. \A q \in Procs : q # p => pc'[q] = pc[q] /\ rec'[q] = rec[q] /\ cmd'[q] = cmd[q]
    BY <1>0, <1>5
    DEF CreateMac, WriteLimits, SavePolicy, PeekShell, Get, SetPolicy, UnlinkPolicy, KillMac,
        NewRecord, Goto, TypeOK
  <2>4. pc[p] # "running"
    BY <1>5
    DEF CreateMac, WriteLimits, SavePolicy, PeekShell, Get, SetPolicy, UnlinkPolicy, KillMac, At
  <2>5. HeldBy(p, n) => pc'[p] \in {"save", "insert", "unlink", "kill"} /\ rec'[p] = rec[p]
    <3>1. CASE SavePolicy(p) \/ UnlinkPolicy(p)
      BY <1>0, <3>1 DEF SavePolicy, UnlinkPolicy, Goto, TypeOK
    <3>2. CASE KillMac(p)
      BY <3>2 DEF KillMac, HeldBy, Owns
    <3>3. CASE CreateMac(p) \/ WriteLimits(p) \/ PeekShell(p) \/ Get(p) \/ SetPolicy(p)
      BY <3>3 DEF CreateMac, WriteLimits, PeekShell, Get, SetPolicy, HeldBy, At
    <3>. QED
      BY <1>5, <3>1, <3>2, <3>3
  <2>. QED
    BY <1>3, <2>1, <2>2, <2>3, <2>4, <2>5 DEF RunsIn
<1>6. ASSUME NEW p \in Procs, Truncate(p) \/ Fill(p) PROVE Covered(n)'
  <2>1. container' = container /\ pc' = pc /\ rec' = rec /\ cmd' = cmd
    BY <1>6 DEF Truncate, Fill
  <2>2. Coming' = Coming
    <3>1. CASE WritingIndex(p)
      BY <1>0, <1>6, <3>1, IndexCalls
    <3>2. CASE ~ WritingIndex(p)
      BY <1>0, <1>6, <3>2, StillStep, StillIndex
    <3>. QED
      BY <3>1, <3>2
  <2>. QED
    BY <1>a, <2>1, <2>2 DEF Covered, HeldBy, Owns, RunsIn
<1>7. ASSUME NEW p \in Procs, OpenStore(p) PROVE Covered(n)'
  <2>1. pc[p] = "open" /\ wr[p] = None /\ file' = file /\ container' = container
    BY <1>7 DEF OpenStore, At, hostVars
  <2>2. /\ \A q \in Procs : q # p => pc'[q] = pc[q]
        /\ rec' = rec /\ cmd' = cmd
    BY <1>0, <1>7 DEF OpenStore, Goto, TypeOK
  <2>3. CASE file[Index] # Absent
    BY <1>0, <1>3, <1>7, <2>1, <2>2, <2>3, StillStep DEF HeldBy, RunsIn
  <2>4. CASE file[Index] = Absent
    <3>1. Coming = {}
      BY <1>0, <2>1, <2>4, Idle, ComingIs, ContentsDiffer DEF Loaded, WritingIndex
    <3>2. \A q \in Procs : /\ HeldBy(q, n) => HeldBy(q, n)'
                           /\ RunsIn(q, n) => RunsIn(q, n)'
      BY <2>1, <2>2 DEF HeldBy, Owns, RunsIn
    <3>. QED
      BY <1>a, <2>1, <3>1, <3>2, CoverFrame
  <2>. QED
    BY <2>3, <2>4
<1>8. ASSUME NEW p \in Procs,
             InsertRecord(p) \/ TouchLastUsed(p) \/ UpdateRecord(p) \/ RemoveRecord(p)
      PROVE  Covered(n)'
  <2>1. /\ pc[p] \in {"insert", "touch", "update", "remove"} /\ wr[p] = None /\ Loaded
        /\ file' = file /\ container' = container /\ cmd' = cmd
    BY <1>8 DEF InsertRecord, TouchLastUsed, UpdateRecord, RemoveRecord, At, hostVars
  <2>2. \A q \in Procs : q # p => pc'[q] = pc[q] /\ rec'[q] = rec[q]
    BY <1>0, <1>8 DEF InsertRecord, TouchLastUsed, UpdateRecord, RemoveRecord, Goto, TypeOK
  <2>3. Stored \in States /\ Coming = RecordsOf(Stored) /\ UniqueRecords(Stored)
    BY <1>0, <2>1, Idle, ComingIs DEF WritingIndex, IndexInv, DocOK
  <2>4. \A q \in Procs : RunsIn(q, n) => RunsIn(q, n)'
    BY <2>1, <2>2 DEF RunsIn
  <2>5. \A q \in Procs : q # p => (HeldBy(q, n) => HeldBy(q, n)')
    BY <2>1, <2>2 DEF HeldBy, Owns
  <2>6. \A d \in States : Write(p, Index, d) => Coming' = RecordsOf(d)
    BY <1>0, <2>1, BeginIndex
  <2>7. \A r \in Coming' : Owns(r, n) => Covered(n)'
    BY <2>1 DEF Owns, Covered
  <2>8. ASSUME \A r \in Coming : r \in Coming' \/ (Owns(r, n) => Covered(n)'),
               HeldBy(p, n) => Covered(n)'
        PROVE  Covered(n)'
    BY <1>a, <2>1, <2>4, <2>5, <2>8, CoverFrame
  <2>9. CASE InsertRecord(p)
    <3>1. rec[p] \in Records
      BY <1>0, <2>9, Running DEF InsertRecord, At, HoldingPoints
    <3>2. Coming' = Coming \cup {rec[p]}
      BY <2>3, <2>6, <2>9, <3>1, InsertListed, InsertFrom DEF InsertRecord
    <3>. QED
      BY <2>7, <2>8, <3>2 DEF HeldBy
  <2>10. CASE TouchLastUsed(p)
    <3>1. rec[p].name \in Names /\ \E r \in RecordsOf(Stored) : r.name = rec[p].name
      BY <1>0, <2>3, <2>10, Running DEF TouchLastUsed, At, HoldingPoints, Records, PointInv
    <3>2. Coming' = Coming
      BY <2>3, <2>6, <2>10, <3>1, TouchListed, TouchLastUsedOK DEF TouchLastUsed
    <3>. QED
      BY <2>8, <2>10, <3>2 DEF HeldBy, TouchLastUsed, At
  <2>11. CASE UpdateRecord(p)
    <3>. DEFINE m == rec[p].name
                c == cmd[p].policy
    <3>1. m \in Names /\ c \in Policies /\ HasName(Stored, m)
      BY <1>0, <2>11, Running DEF UpdateRecord, At, HoldingPoints, Records, Points, Complete
    <3>2. Coming' = RecordsOf(UpdatePolicy(Stored, m, c))
      BY <2>3, <2>6, <2>11, <3>1, UpdateListed DEF UpdateRecord
    <3>. HIDE DEF m, c
    <3>3. ASSUME NEW r \in Coming, Owns(r, n) PROVE Covered(n)'
      <4>1. PICK s \in Coming' : Same(s, r)
        BY <2>3, <3>1, <3>2, <3>3, UpdateFrom
      <4>2. Owns(s, n)
        BY <3>3, <4>1 DEF Owns, Same
      <4>. QED
        BY <2>7, <4>1, <4>2
    <3>. QED
      BY <2>8, <2>11, <3>3 DEF HeldBy, UpdateRecord, At
  <2>12. CASE RemoveRecord(p)
    <3>1. Hits(Stored, cmd[p].key) # {} /\ Write(p, Index, RemoveKey(Stored, cmd[p].key))
      BY <2>12 DEF RemoveRecord
    <3>2. Coming' = RecordsOf(RemoveKey(Stored, cmd[p].key))
      BY <2>3, <2>6, <3>1, RemoveListed
    <3>3. pc'[p] = "unlink" /\ rec'[p] = Find(Stored, cmd[p].key)
      BY <1>0, <2>12 DEF RemoveRecord, Goto, TypeOK
    <3>4. Owns(Find(Stored, cmd[p].key), n) => Covered(n)'
      BY <2>1, <3>3 DEF Owns, HeldBy, Covered
    <3>5. \A r \in Coming : r \in Coming' \/ r = Find(Stored, cmd[p].key)
      BY <2>3, <3>1, <3>2, RemoveFrom
    <3>. QED
      BY <2>8, <2>12, <3>4, <3>5 DEF HeldBy, RemoveRecord, At
  <2>. QED
    BY <1>8, <2>9, <2>10, <2>11, <2>12
<1>9. ASSUME NEW p \in Procs,
             AlreadyExists(p) \/ CreatePodman(p) \/ Run(p) \/ RunEnds(p) \/ KillPodman(p)
      PROVE  Covered(n)'
  <2>1. Coming' = Coming
    BY <1>0, <1>9, StillStep, StillIndex
  <2>2. \A q \in Procs : q # p => pc'[q] = pc[q] /\ rec'[q] = rec[q] /\ cmd'[q] = cmd[q]
    BY <1>0, <1>9
    DEF AlreadyExists, CreatePodman, NewRecord, Run, RunEnds, KillPodman, Goto, TypeOK
  <2>3. ASSUME container'[n] = container[n], ~ HeldBy(p, n), ~ RunsIn(p, n)
        PROVE  Covered(n)'
    <3>1. \A q \in Procs : /\ HeldBy(q, n) => HeldBy(q, n)'
                           /\ RunsIn(q, n) => RunsIn(q, n)'
      BY <2>2, <2>3 DEF HeldBy, Owns, RunsIn
    <3>. QED
      BY <1>a, <2>1, <2>3, <3>1, CoverFrame
  <2>4. CASE AlreadyExists(p)
    <3>1. container' = container /\ pc[p] = "insert" /\ rec[p].name # n
      BY <2>4 DEF AlreadyExists, At, hostVars
    <3>. QED
      BY <2>3, <3>1 DEF HeldBy, Owns, RunsIn
  <2>5. CASE CreatePodman(p)
    <3>1. cmd[p].key \in Names
      BY <1>0, <2>5, Running DEF CreatePodman, At, Points, Complete
    <3>2. CASE n = cmd[p].key
      <4>1. /\ rec'[p].mechanism = "podman" /\ rec'[p].name = n /\ rec'[p].runtime_id = fresh
            /\ pc'[p] = "save"
        BY <1>0, <2>5, <3>2 DEF CreatePodman, NewRecord, Goto, TypeOK
      <4>2. container'[n] = [cid |-> fresh, policy |-> cmd[p].policy, ephemeral |-> FALSE]
        BY <1>0, <2>5, <3>2 DEF CreatePodman, TypeOK
      <4>3. container'[n].cid = fresh
        BY <4>2
      <4>. QED
        BY <4>1, <4>3 DEF Covered, HeldBy, Owns
    <3>3. CASE n # cmd[p].key
      BY <1>0, <2>3, <2>5, <3>3 DEF CreatePodman, At, HeldBy, RunsIn, TypeOK
    <3>. QED
      BY <3>2, <3>3
  <2>6. CASE Run(p)
    <3>1. pc[p] = "run" /\ pc'[p] = "running" /\ cmd' = cmd
      BY <1>0, <2>6 DEF Run, At, Goto, TypeOK
    <3>2. CASE cmd[p].mech = "podman" /\ cmd[p].key = n
      BY <3>1, <3>2 DEF Covered, RunsIn
    <3>3. CASE ~ (cmd[p].mech = "podman" /\ cmd[p].key = n)
      <4>1. container'[n] = container[n]
        BY <1>0, <2>6, <3>3 DEF Run, TypeOK
      <4>. QED
        BY <2>3, <3>1, <4>1 DEF HeldBy, RunsIn
    <3>. QED
      BY <3>2, <3>3
  <2>7. CASE RunEnds(p)
    <3>1. pc[p] = "running" /\ ~ RunsIn(p, n) /\ container'[n] = container[n]
      BY <1>0, <2>7 DEF RunEnds, At, RunsIn, TypeOK
    <3>. QED
      BY <2>3, <3>1 DEF HeldBy
  <2>8. CASE KillPodman(p)
    <3>1. pc[p] = "kill" /\ container'[n] = container[n] /\ container[n].cid # rec[p].runtime_id
      BY <2>8 DEF KillPodman, At
    <3>. QED
      BY <2>3, <3>1 DEF HeldBy, Owns, RunsIn
  <2>. QED
    BY <1>9, <2>4, <2>5, <2>6, <2>7, <2>8
<1>. QED
  BY <1>1, <1>2, <1>4, <1>5, <1>6, <1>7, <1>8, <1>9, QuietSteps

\* There is none at first.
LEMMA QuietInit == Init => IndexThere /\ OrphanInv
BY DEF Init, IndexThere, OrphanInv

\* One invocation at a time, none killed and the engine up, no container runs
\* that the index does not list: a create that insert would refuse is refused
\* by the engine first, a run leaves nothing, rm goes on until the container is
\* gone (cmd_create, cmd_run, cmd_rm).  Only a name that a create was refused
\* for, its sandbox being one on mac, can have a container of its own.
THEOREM NoContainerIsOrphan ==
    ASSUME MaxConcurrent = 1, EngineMayFail = FALSE
    PROVE  Spec => []NoOrphan
<1>. DEFINE I == SerialInv /\ IndexThere /\ OrphanInv
<1>1. Init => I
  BY SerialInvInit, QuietInit
<1>2. I /\ [Next]_vars => I'
  BY SerialInvStep, ThereStep, OrphanStep
<1>3. I => NoOrphan
  <2>. SUFFICES ASSUME I, Quiet, NEW n \in Names \ refused, container[n] # None
                PROVE  \E r \in Listed : r.name = n /\ HasRuntime(r)
    BY DEF NoOrphan
  <2>1. Covered(n)
    BY DEF OrphanInv, Quiet
  <2>2. \A q \in Procs : pc[q] = "idle" /\ ~ WritingIndex(q)
    BY DEF Quiet, SerialInv, Base, Alone, WritingIndex
  <2>3. Coming = Listed
    BY <2>2 DEF Coming
  <2>. QED
    BY <2>1, <2>2, <2>3 DEF Covered, HeldBy, RunsIn, Owns, HasRuntime
<1>. HIDE DEF I
<1>. QED
  BY <1>1, <1>2, <1>3, PTL DEF Spec

-----------------------------------------------------------------------------
(* The copies of a policy *)

\* File f holds d, or does so once the write p is in the middle of is done.
Put(p, f, d) ==
    IF wr[p] # None THEN wr[p].file = f /\ wr[p].data = d ELSE file[f] = Holds(d)

\* What the process has written so far of the policy it works with.
CopyPoint(p) ==
    /\ wr[p] # None /\ wr[p].file # Index => pc[p] \in {"limits", "save", "insert", "update"}
    /\ pc[p] = "limits" => Put(p, Profile(cmd[p].key), cmd[p].policy)
    /\ pc[p] \in {"save", "insert"} =>
        /\ rec[p].name = cmd[p].key /\ rec[p].policy_hash = Hash(cmd[p].policy)
        /\ rec[p].mechanism = "mac" => file[Profile(rec[p].name)] = Holds(cmd[p].policy)
    /\ pc[p] = "save" =>
        IF rec[p].mechanism = "mac" THEN Put(p, Limits(rec[p].name), cmd[p].policy)
        ELSE wr[p] = None
    /\ pc[p] = "insert" /\ rec[p].mechanism = "mac" => file[Limits(rec[p].name)] = Holds(cmd[p].policy)
    /\ pc[p] \in {"insert", "update"} => Put(p, PolicyFile(rec[p].name), cmd[p].policy)

\* The three things CopiesAgree says of a listed sandbox ...
PolicyStored(r) == Readable(StoredPolicy(r))
HashListed(r) == r.name \in refused \/ HashMatches(r)
MacAgrees(r) ==
    r.mechanism = "mac" => /\ Readable(file[Profile(r.name)])
                           /\ file[Limits(r.name)] = file[Profile(r.name)]

\* ... and the points at which each of them is on its way.
Storing(n) == \E p \in Procs : wr[p] # None /\ wr[p].file = PolicyFile(n)
Hashing(n) == \E p \in Procs : pc[p] \in {"insert", "update"} /\ rec[p].name = n
Building(n) ==
    \E p \in Procs : \/ pc[p] = "limits" /\ cmd[p].key = n
                     \/ wr[p] # None /\ wr[p].file = Limits(n)

CopyInv(r) ==
    /\ PolicyStored(r) \/ Storing(r.name)
    /\ HashListed(r) \/ Hashing(r.name)
    /\ MacAgrees(r) \/ Building(r.name)

PointsInv == crashes = 0 => \A p \in Procs : CopyPoint(p)
CopiesInv == crashes = 0 => \A r \in Coming : CopyInv(r)

\* Only the process that runs has written anything.
LEMMA CopyPointFrame ==
    ASSUME TypeInv, Alone, NEW p \in Procs, pc[p] # "idle",
           \A q \in Procs : q # p => pc'[q] = pc[q] /\ wr'[q] \in {wr[q], None}, CopyPoint(p)'
    PROVE  \A q \in Procs : CopyPoint(q)'
<1>1. \A q \in Procs : q # p => pc'[q] = "idle" /\ wr'[q] = None
  BY Idle
<1>. QED
  BY <1>1 DEF CopyPoint

\* The two system calls of a write, as far as its process can tell.
LEMMA PutStays ==
    ASSUME TypeInv, TornInv, NEW p \in Procs, NEW f \in Files, NEW d, Put(p, f, d),
           (Truncate(p) /\ ~ (f[1] = "limits" /\ NoInstance(f[2]))) \/ Fill(p)
    PROVE  Put(p, f, d)' /\ \A g \in Files : g # f => file'[g] = file[g]
<1>. USE DEF TypeInv, TypeOK
<1>1. wr[p] # None /\ wr[p].file = f /\ wr[p].data = d /\ WriteType(wr[p])
  BY DEF Truncate, Fill, Put
<1>2. CASE Truncate(p)
  <2>0. ~ (f[1] = "limits" /\ NoInstance(f[2]))
    BY <1>2 DEF Truncate, Fill
  <2>1. file' = [file EXCEPT ![f] = Empty] /\ wr' = [wr EXCEPT ![p].stage = "fill"]
    BY <1>1, <1>2, <2>0 DEF Truncate
  <2>2. wr'[p] = [wr[p] EXCEPT !.stage = "fill"]
    BY <2>1
  <2>3. /\ wr'[p] \in [file : Files, data : States \cup Policies, stage : {"open", "fill"}]
        /\ wr'[p].file = f /\ wr'[p].data = d
    BY <1>1, <2>2 DEF WriteType, DataOf
  <2>. QED
    BY <2>1, <2>3, NoneAssumption DEF Put
<1>3. CASE Fill(p)
  <2>1. file' = [file EXCEPT ![f] = Holds(d)]
    BY <1>1, <1>3, FillWrites
  <2>2. wr'[p] = None
    BY <1>3 DEF Fill
  <2>. QED
    BY <2>1, <2>2 DEF Put
<1>. QED
  BY <1>2, <1>3

\* A write leaves what its invocation has.
LEMMA CallsPoint ==
    ASSUME TypeInv, TornInv, NEW p \in Procs, pc[p] # "idle", CopyPoint(p), Truncate(p) \/ Fill(p)
    PROVE  CopyPoint(p)'
<1>. USE DEF TypeInv, TypeOK
<1>1. pc' = pc /\ rec' = rec /\ cmd' = cmd /\ wr[p] # None
  BY DEF Truncate, Fill
<1>2. wr'[p] # None => wr'[p].file = wr[p].file
  BY DEF Truncate, Fill, WriteType
<1>3. pc[p] \in {"save", "insert", "update"} => rec[p].name \in Names
  BY Running DEF HoldingPoints, Records
<1>4. pc[p] = "limits" => cmd[p].key \in Names
  BY Running DEF Points, Complete
<1>5. \A n \in Names : /\ {PolicyFile(n), Profile(n), Limits(n)} \subseteq Files
                       /\ PolicyFile(n)[1] # "limits" /\ Profile(n)[1] # "limits"
                       /\ Limits(n)[2] = n
  BY FilesOf DEF PolicyFile, Profile, Limits
<1>6. CASE pc[p] = "limits"
  <2>a. \A f \in Files : \A d : f = Profile(cmd[p].key) /\ d = cmd[p].policy => Put(p, f, d)'
    BY <1>4, <1>5, <1>6, PutStays DEF CopyPoint
  <2>b. \A f, d : f = Profile(cmd[p].key) /\ d = cmd[p].policy /\ Put(p, f, d)'
                 => Put(p, Profile(cmd[p].key), cmd[p].policy)'
    BY <1>1 DEF Put
  <2>1. Put(p, Profile(cmd[p].key), cmd[p].policy)'
    BY <1>4, <1>5, <1>6, <2>a, <2>b DEF CopyPoint
  <2>. QED
    BY <1>1, <1>6, <2>1 DEF CopyPoint
<1>7. CASE pc[p] = "save"
  <2>. DEFINE n == rec[p].name
  <2>1. /\ rec[p].mechanism = "mac" /\ Put(p, Limits(n), cmd[p].policy)
        /\ file[Profile(n)] = Holds(cmd[p].policy) /\ n \in Names
    BY <1>1, <1>3, <1>7 DEF CopyPoint
  <2>2. ~ NoInstance(n)
    BY <2>1, ContentsDiffer DEF NoInstance
  <2>a. \A f \in Files : \A d : f = Limits(n) /\ d = cmd[p].policy
                             => Put(p, f, d)' /\ \A g \in Files : g # f => file'[g] = file[g]
    BY <1>5, <2>1, <2>2, PutStays
  <2>b. \A f, d : f = Limits(n) /\ d = cmd[p].policy /\ Put(p, f, d)' => Put(p, Limits(n), cmd[p].policy)'
    BY <1>1 DEF Put
  <2>3. Put(p, Limits(n), cmd[p].policy)' /\ file'[Profile(n)] = file[Profile(n)]
    BY <1>5, <2>1, <2>a, <2>b, FilesDiffer
  <2>. QED
    BY <1>1, <1>7, <2>1, <2>3 DEF CopyPoint
<1>8. CASE pc[p] \in {"insert", "update"}
  <2>. DEFINE n == rec[p].name
  <2>1. Put(p, PolicyFile(n), cmd[p].policy) /\ n \in Names
    BY <1>3, <1>8 DEF CopyPoint
  <2>a. \A f \in Files : \A d : f = PolicyFile(n) /\ d = cmd[p].policy
                             => Put(p, f, d)' /\ \A g \in Files : g # f => file'[g] = file[g]
    BY <1>5, <2>1, PutStays
  <2>b. \A f, d : f = PolicyFile(n) /\ d = cmd[p].policy /\ Put(p, f, d)'
                 => Put(p, PolicyFile(n), cmd[p].policy)'
    BY <1>1 DEF Put
  <2>2. /\ Put(p, PolicyFile(n), cmd[p].policy)'
        /\ file'[Profile(n)] = file[Profile(n)] /\ file'[Limits(n)] = file[Limits(n)]
    BY <1>5, <2>1, <2>a, <2>b, FilesDiffer
  <2>. QED
    BY <1>1, <1>8, <2>1, <2>2 DEF CopyPoint
<1>9. CASE pc[p] \notin {"limits", "save", "insert", "update"}
  BY <1>1, <1>2, <1>9 DEF CopyPoint
<1>. QED
  BY <1>6, <1>7, <1>8, <1>9

\* What an invocation has put in the copies at each of its program points.
LEMMA PointsStep ==
    ASSUME SerialInv, IndexThere, PointsInv, [Next]_vars
    PROVE  PointsInv'
<1>. USE DEF SerialInv, Base
<1>0. TypeInv /\ TypeOK
  BY DEF RuntimeInv, TypeInv
<1>. SUFFICES ASSUME crashes' = 0
              PROVE  \A q \in Procs : CopyPoint(q)'
  BY DEF PointsInv
<1>a. \A q \in Procs : CopyPoint(q)
  BY QuietSteps DEF PointsInv
<1>1. CASE UNCHANGED vars
  BY <1>1, <1>a DEF vars, CopyPoint, Put
<1>2. ASSUME NEW n \in Names, OrphanEnds(n) PROVE \A q \in Procs : CopyPoint(q)'
  BY <1>2, <1>a DEF OrphanEnds, CopyPoint, Put
<1>3. ASSUME NEW p \in Procs, Start(p) PROVE \A q \in Procs : CopyPoint(q)'
  <2>1. pc'[p] = "open" /\ wr' = wr /\ wr[p] = None
    BY <1>0, <1>3 DEF Start, Goto, TypeOK, Alone
  <2>2. \A q \in Procs : q # p => pc'[q] = pc[q] /\ rec'[q] = rec[q] /\ cmd'[q] = cmd[q]
    BY <1>0, <1>3 DEF Start, Goto, TypeOK
  <2>3. file' = file
    BY <1>3 DEF Start, hostVars
  <2>4. CopyPoint(p)'
    BY <2>1 DEF CopyPoint
  <2>5. \A q \in Procs : q # p => CopyPoint(q)'
    BY <1>a, <2>1, <2>2, <2>3 DEF CopyPoint, Put
  <2>. QED
    BY <2>4, <2>5
<1>4. ASSUME NEW p \in Procs, pc[p] # "idle", pc'[p] \notin {"limits", "save", "insert", "update"},
             \A q \in Procs : q # p => pc'[q] = pc[q] /\ wr'[q] \in {wr[q], None},
             wr'[p] # None => wr'[p].file = Index
      PROVE  \A q \in Procs : CopyPoint(q)'
  <2>1. CopyPoint(p)'
    BY <1>4 DEF CopyPoint
  <2>. QED
    BY <1>0, <1>4, <2>1, CopyPointFrame
<1>5. ASSUME NEW p \in Procs,
             \/ Leaves(p) \/ AlreadyExists(p) \/ ReportCreated(p) \/ Run(p) \/ RunEnds(p)
             \/ PeekShell(p) \/ Get(p) \/ KillPodman(p)
      PROVE  \A q \in Procs : CopyPoint(q)'
  <2>1. pc[p] # "idle" /\ wr[p] = None /\ wr' = wr
    BY <1>5
    DEF Leaves, Quits, Exit, AlreadyExists, ReportCreated, Run, RunEnds, PeekShell, Get,
        KillPodman, At
  <2>2. /\ pc'[p] \notin {"limits", "save", "insert", "update"}
        /\ \A q \in Procs : q # p => pc'[q] = pc[q]
    BY <1>0, <1>5
    DEF Leaves, Quits, Exit, AlreadyExists, ReportCreated, Run, RunEnds, PeekShell, Get,
        NextAfterGet, KillPodman, Goto, TypeOK
  <2>. QED
    BY <1>4, <2>1, <2>2
<1>6. ASSUME NEW p \in Procs,
             \/ OpenStore(p) \/ InsertRecord(p) \/ TouchLastUsed(p) \/ UpdateRecord(p) \/ RemoveRecord(p)
      PROVE  \A q \in Procs : CopyPoint(q)'
  <2>1. pc[p] # "idle" /\ wr[p] = None /\ (wr' = wr \/ \E d : Write(p, Index, d))
    BY <1>6 DEF OpenStore, InsertRecord, TouchLastUsed, UpdateRecord, RemoveRecord, At
  <2>2. /\ pc'[p] \notin {"limits", "save", "insert", "update"}
        /\ \A q \in Procs : q # p => pc'[q] = pc[q]
    BY <1>0, <1>6
    DEF OpenStore, FirstPoint, InsertRecord, TouchLastUsed, UpdateRecord, RemoveRecord, Goto, TypeOK
  <2>3. (wr'[p] # None => wr'[p].file = Index) /\ \A q \in Procs : q # p => wr'[q] = wr[q]
    BY <1>0, <2>1 DEF Write, TypeOK
  <2>. QED
    BY <1>4, <2>1, <2>2, <2>3
<1>7. ASSUME NEW p \in Procs, UnlinkPolicy(p) \/ KillMac(p) PROVE \A q \in Procs : CopyPoint(q)'
  <2>1. pc[p] # "idle" /\ \A q \in Procs : wr[q] = None
    BY <1>7, Idle DEF UnlinkPolicy, KillMac, At
  <2>2. \A q \in Procs : wr'[q] = None
    BY <1>7, <2>1 DEF UnlinkPolicy, KillMac, Unlink
  <2>3. /\ pc'[p] \notin {"limits", "save", "insert", "update"}
        /\ \A q \in Procs : q # p => pc'[q] = pc[q]
    BY <1>0, <1>7 DEF UnlinkPolicy, KillMac, Goto, TypeOK
  <2>. QED
    BY <1>4, <2>1, <2>2, <2>3
<1>8. ASSUME NEW p \in Procs, Truncate(p) \/ Fill(p) PROVE \A q \in Procs : CopyPoint(q)'
  <2>1. pc[p] # "idle" /\ pc' = pc /\ \A q \in Procs : q # p => wr'[q] = wr[q]
    BY <1>0, <1>8 DEF Truncate, Fill, Alone, TypeOK
  <2>. QED
    BY <1>0, <1>8, <1>a, <2>1, CallsPoint, CopyPointFrame
<1>9. ASSUME NEW p \in Procs, CreateMac(p) \/ WriteLimits(p) \/ SavePolicy(p) \/ SetPolicy(p)
      PROVE  \A q \in Procs : CopyPoint(q)'
  <2>1. pc[p] # "idle" /\ wr[p] = None /\ file' = file /\ cmd' = cmd
    BY <1>9 DEF CreateMac, WriteLimits, SavePolicy, SetPolicy, At, hostVars
  <2>2. \A q \in Procs : q # p => pc'[q] = pc[q]
    BY <1>0, <1>9 DEF CreateMac, WriteLimits, SavePolicy, SetPolicy, Goto, TypeOK
  <2>3. cmd[p].policy \in Policies
    BY <1>0, <1>9, Running DEF CreateMac, WriteLimits, SavePolicy, SetPolicy, At, Points, Complete
  <2>4. \A q \in Procs : q # p => wr'[q] = wr[q]
    BY <1>0, <1>9 DEF CreateMac, WriteLimits, SavePolicy, SetPolicy, Write, TypeOK
  <2>5. ASSUME NEW f \in Files, f # Index, Write(p, f, cmd[p].policy)
        PROVE  wr'[p] # None /\ wr'[p].file = f /\ wr'[p].data = cmd[p].policy
    <3>1. cmd[p].policy \in DataOf(f)
      BY <2>3, <2>5 DEF DataOf
    <3>. QED
      BY <1>0, <2>5, <3>1, WriteBegins
  <2>6. CASE CreateMac(p)
    <3>1. Profile(cmd[p].key) \in Files /\ pc'[p] = "limits"
      BY <1>0, <2>6, Running, FilesOf DEF CreateMac, Goto, At, Points, Complete, TypeOK
    <3>2. /\ wr'[p] # None /\ wr'[p].file = Profile(cmd[p].key) /\ wr'[p].data = cmd[p].policy
      BY <2>5, <2>6, <3>1, FilesDiffer DEF CreateMac
    <3>3. CopyPoint(p)'
      BY <2>1, <3>1, <3>2 DEF CopyPoint, Put
    <3>. QED
      BY <1>0, <2>1, <2>2, <2>4, <3>3, CopyPointFrame
  <2>7. CASE WriteLimits(p)
    <3>1. /\ cmd[p].key \in Names /\ Limits(cmd[p].key) \in Files /\ pc'[p] = "save"
          /\ cmd[p].mech = "mac" /\ pc[p] = "limits"
      BY <1>0, <2>7, Running, FilesOf DEF WriteLimits, Goto, At, Points, Complete, TypeOK
    <3>2. wr'[p] # None /\ wr'[p].file = Limits(cmd[p].key) /\ wr'[p].data = cmd[p].policy
      BY <2>5, <2>7, <3>1, FilesDiffer DEF WriteLimits
    <3>3. /\ rec'[p].name = cmd[p].key /\ rec'[p].policy_hash = Hash(cmd[p].policy)
          /\ rec'[p].mechanism = "mac"
      BY <1>0, <2>7, <3>1 DEF WriteLimits, NewRecord, TypeOK
    <3>4. file[Profile(cmd[p].key)] = Holds(cmd[p].policy)
      BY <1>a, <2>1, <3>1 DEF CopyPoint, Put
    <3>5. CopyPoint(p)'
      BY <2>1, <3>1, <3>2, <3>3, <3>4 DEF CopyPoint, Put
    <3>. QED
      BY <1>0, <2>1, <2>2, <2>4, <3>5, CopyPointFrame
  <2>8. CASE SavePolicy(p)
    <3>1. /\ rec' = rec /\ PolicyFile(rec[p].name) \in Files /\ pc'[p] = "insert" /\ pc[p] = "save"
      BY <1>0, <2>8, Running, FilesOf DEF SavePolicy, Goto, At, HoldingPoints, Records, TypeOK
    <3>2. /\ wr'[p] # None /\ wr'[p].file = PolicyFile(rec[p].name) /\ wr'[p].data = cmd[p].policy
      BY <2>5, <2>8, <3>1, FilesDiffer DEF SavePolicy
    <3>3. CopyPoint(p)'
      BY <1>a, <2>1, <3>1, <3>2 DEF CopyPoint, Put
    <3>. QED
      BY <1>0, <2>1, <2>2, <2>4, <3>3, CopyPointFrame
  <2>9. CASE SetPolicy(p)
    <3>1. /\ rec' = rec /\ PolicyFile(rec[p].name) \in Files /\ pc'[p] = "update"
      BY <1>0, <2>9, Running, FilesOf DEF SetPolicy, Goto, At, HoldingPoints, Records, TypeOK
    <3>2. /\ wr'[p] # None /\ wr'[p].file = PolicyFile(rec[p].name) /\ wr'[p].data = cmd[p].policy
      BY <2>5, <2>9, <3>1, FilesDiffer DEF SetPolicy
    <3>3. CopyPoint(p)'
      BY <2>1, <3>1, <3>2 DEF CopyPoint, Put
    <3>. QED
      BY <1>0, <2>1, <2>2, <2>4, <3>3, CopyPointFrame
  <2>. QED
    BY <1>9, <2>6, <2>7, <2>8, <2>9
<1>10. ASSUME NEW p \in Procs, CreatePodman(p) PROVE \A q \in Procs : CopyPoint(q)'
  <2>1. pc[p] # "idle" /\ wr[p] = None /\ wr' = wr /\ cmd' = cmd /\ cmd[p].mech = "podman"
    BY <1>10 DEF CreatePodman, At
  <2>2. /\ pc'[p] = "save" /\ \A q \in Procs : q # p => pc'[q] = pc[q]
    BY <1>0, <1>10 DEF CreatePodman, Goto, TypeOK
  <2>3. /\ rec'[p].name = cmd[p].key /\ rec'[p].policy_hash = Hash(cmd[p].policy)
        /\ rec'[p].mechanism = "podman"
    BY <1>0, <1>10, <2>1 DEF CreatePodman, NewRecord, TypeOK
  <2>4. CopyPoint(p)'
    BY <2>1, <2>2, <2>3 DEF CopyPoint
  <2>. QED
    BY <1>0, <2>1, <2>2, <2>4, CopyPointFrame
<1>. QED
  BY <1>1, <1>2, <1>3, <1>5, <1>6, <1>7, <1>8, <1>9, <1>10, QuietSteps

\* All three at once.
Whole(r) == PolicyStored(r) /\ HashListed(r) /\ MacAgrees(r)

\* A sandbox that nobody is changing has whole copies.
LEMMA WholeNow ==
    ASSUME NEW r, CopyInv(r), \A q \in Procs : wr[q] = None \/ wr[q].file = Index,
           \A q \in Procs : pc[q] = "limits" => cmd[q].key # r.name,
           \A q \in Procs : pc[q] \in {"insert", "update"} => rec[q].name # r.name
    PROVE  Whole(r)
<1>1. ~ Storing(r.name)
  BY FilesDiffer DEF Storing
<1>2. ~ Building(r.name)
  BY FilesDiffer DEF Building
<1>. QED
  BY <1>1, <1>2 DEF CopyInv, Whole, Hashing

\* Copies that are not written stay whole.
LEMMA WholeKept ==
    ASSUME NEW r, Whole(r), refused \subseteq refused',
           file'[PolicyFile(r.name)] = file[PolicyFile(r.name)],
           file'[Profile(r.name)] = file[Profile(r.name)],
           file'[Limits(r.name)] = file[Limits(r.name)]
    PROVE  CopyInv(r)'
<1>1. PolicyStored(r)' /\ HashListed(r)' /\ MacAgrees(r)'
  BY DEF Whole, PolicyStored, HashListed, HashMatches, StoredPolicy, MacAgrees
<1>. QED
  BY <1>1 DEF CopyInv

\* A coming record has a name, and files.
LEMMA ComingNamed ==
    ASSUME TypeInv, Alone, NEW r \in Coming
    PROVE  /\ r \in Records /\ r.name \in Names
           /\ {PolicyFile(r.name), Profile(r.name), Limits(r.name)} \subseteq Files
<1>1. r \in Records
  BY ComingIs, RecordsAreRecords
<1>. QED
  BY <1>1, FilesOf DEF Records

\* The system calls of a write, for the sandboxes listed.
LEMMA CallsCopy ==
    ASSUME SerialInv, NEW p \in Procs, Truncate(p) \/ Fill(p), refused' = refused,
           CopyPoint(p), NEW r \in Coming, CopyInv(r)
    PROVE  CopyInv(r)'
<1>. USE DEF SerialInv, Base
<1>0. TypeInv /\ TypeOK
  BY DEF RuntimeInv, TypeInv
<1>1. /\ pc' = pc /\ rec' = rec /\ cmd' = cmd /\ wr[p] # None /\ pc[p] # "idle"
      /\ WriteType(wr[p])
  BY <1>0 DEF Truncate, Fill, Alone, TypeOK
<1>2. \A q \in Procs : q # p => wr[q] = None /\ pc[q] = "idle"
  BY <1>1, Idle
<1>3. /\ r.name \in Names
      /\ {PolicyFile(r.name), Profile(r.name), Limits(r.name)} \subseteq Files
  BY <1>0, ComingNamed
<1>4. /\ \A g \in Files : g # wr[p].file => file'[g] = file[g]
      /\ wr'[p] # None => wr'[p].file = wr[p].file
  BY <1>0, <1>1, FillWrites DEF Truncate, WriteType, Fill, TypeOK
<1>5. CASE wr[p].file = Index
  <2>1. pc[p] \notin {"limits", "insert", "update"}
    BY <1>1, <1>5, FilesDiffer DEF CopyPoint, Put
  <2>2. Whole(r)
    BY <1>2, <1>5, <2>1, WholeNow
  <2>. QED
    BY <1>3, <1>4, <1>5, <2>2, FilesDiffer, WholeKept
<1>6. CASE pc[p] = "limits"
  <2>1. wr[p].file = Profile(cmd[p].key)
    BY <1>1, <1>6 DEF CopyPoint, Put
  <2>2. CASE cmd[p].key = r.name
    <3>1. PolicyStored(r) /\ HashListed(r)
      BY <1>2, <1>6, <2>1, FilesDiffer DEF CopyInv, Storing, Hashing
    <3>2. file'[PolicyFile(r.name)] = file[PolicyFile(r.name)]
      BY <1>3, <1>4, <2>1, FilesDiffer
    <3>3. PolicyStored(r)' /\ HashListed(r)'
      BY <3>1, <3>2 DEF PolicyStored, HashListed, HashMatches, StoredPolicy
    <3>4. Building(r.name)'
      BY <1>1, <1>6, <2>2 DEF Building
    <3>. QED
      BY <3>3, <3>4 DEF CopyInv
  <2>3. CASE cmd[p].key # r.name
    <3>1. Whole(r)
      <4>1. ~ Storing(r.name) /\ ~ Hashing(r.name) /\ ~ Building(r.name)
        BY <1>2, <1>6, <2>1, <2>3, FilesDiffer DEF Storing, Hashing, Building
      <4>. QED
        BY <4>1 DEF CopyInv, Whole
    <3>. QED
      BY <1>3, <1>4, <2>1, <2>3, <3>1, FilesDiffer, WholeKept
  <2>. QED
    BY <2>2, <2>3
<1>7. CASE pc[p] = "save"
  <2>. DEFINE n == rec[p].name
  <2>1. /\ wr[p].file = Limits(n) /\ wr[p].data = cmd[p].policy
        /\ file[Profile(n)] = Holds(cmd[p].policy) /\ n \in Names
    BY <1>0, <1>1, <1>7, Running DEF CopyPoint, Put, HoldingPoints, Records
  <2>2. CASE n = r.name
    <3>1. PolicyStored(r) /\ HashListed(r)
      BY <1>2, <1>7, <2>1, FilesDiffer DEF CopyInv, Storing, Hashing
    <3>2. /\ file'[PolicyFile(r.name)] = file[PolicyFile(r.name)]
          /\ file'[Profile(r.name)] = file[Profile(r.name)]
      BY <1>3, <1>4, <2>1, FilesDiffer
    <3>3. PolicyStored(r)' /\ HashListed(r)'
      BY <3>1, <3>2 DEF PolicyStored, HashListed, HashMatches, StoredPolicy
    <3>4. CASE Truncate(p)
      <4>1. ~ NoInstance(n)
        BY <2>1, ContentsDiffer DEF NoInstance
      <4>2. wr' = [wr EXCEPT ![p].stage = "fill"]
        BY <2>1, <3>4, <4>1 DEF Truncate, Limits
      <4>3. wr'[p] = [wr[p] EXCEPT !.stage = "fill"]
        BY <1>0, <4>2 DEF TypeOK
      <4>4. wr'[p] \in [file : Files, data : States \cup Policies, stage : {"open", "fill"}]
        BY <1>1, <4>3 DEF WriteType, DataOf
      <4>5. wr'[p] # None
        BY <4>4, NoneAssumption
      <4>6. Building(r.name)'
        BY <1>4, <2>1, <2>2, <4>5 DEF Building
      <4>. QED
        BY <3>3, <4>6 DEF CopyInv
    <3>5. CASE Fill(p)
      <4>1. file'[Limits(r.name)] = Holds(cmd[p].policy)
        BY <1>0, <1>3, <2>1, <2>2, <3>5, FillWrites DEF TypeOK
      <4>2. MacAgrees(r)'
        BY <2>1, <2>2, <3>2, <4>1, ContentsDiffer DEF MacAgrees
      <4>. QED
        BY <3>3, <4>2 DEF CopyInv
    <3>. QED
      BY <3>4, <3>5
  <2>3. CASE n # r.name
    <3>1. Whole(r)
      <4>1. ~ Storing(r.name) /\ ~ Hashing(r.name) /\ ~ Building(r.name)
        BY <1>2, <1>7, <2>1, <2>3, FilesDiffer DEF Storing, Hashing, Building
      <4>. QED
        BY <4>1 DEF CopyInv, Whole
    <3>. QED
      BY <1>3, <1>4, <2>1, <2>3, <3>1, FilesDiffer, WholeKept
  <2>. QED
    BY <2>2, <2>3
<1>8. CASE pc[p] \in {"insert", "update"}
  <2>. DEFINE n == rec[p].name
  <2>1. wr[p].file = PolicyFile(n) /\ wr[p].data = cmd[p].policy
    BY <1>1, <1>8 DEF CopyPoint, Put
  <2>2. ~ Building(r.name)
    BY <1>2, <1>8, <2>1, FilesDiffer DEF Building
  <2>3. MacAgrees(r)
    BY <2>2 DEF CopyInv
  <2>4. /\ file'[Profile(r.name)] = file[Profile(r.name)]
        /\ file'[Limits(r.name)] = file[Limits(r.name)]
    BY <1>3, <1>4, <2>1, FilesDiffer
  <2>5. MacAgrees(r)'
    BY <2>3, <2>4 DEF MacAgrees
  <2>6. CASE n = r.name
    <3>1. Hashing(r.name)'
      BY <1>1, <1>8, <2>6 DEF Hashing
    <3>2. CASE Truncate(p)
      <4>2. wr' = [wr EXCEPT ![p].stage = "fill"]
        BY <2>1, <3>2 DEF Truncate, PolicyFile
      <4>3. wr'[p] = [wr[p] EXCEPT !.stage = "fill"]
        BY <1>0, <4>2 DEF TypeOK
      <4>4. wr'[p] \in [file : Files, data : States \cup Policies, stage : {"open", "fill"}]
        BY <1>1, <4>3 DEF WriteType, DataOf
      <4>5. wr'[p] # None
        BY <4>4, NoneAssumption
      <4>6. Storing(r.name)'
        BY <1>4, <2>1, <2>6, <4>5 DEF Storing
      <4>. QED
        BY <2>5, <3>1, <4>6 DEF CopyInv
    <3>3. CASE Fill(p)
      <4>1. file'[PolicyFile(r.name)] = Holds(cmd[p].policy)
        BY <1>0, <1>3, <2>1, <2>6, <3>3, FillWrites DEF TypeOK
      <4>2. PolicyStored(r)'
        BY <4>1, ContentsDiffer DEF PolicyStored, StoredPolicy
      <4>. QED
        BY <2>5, <3>1, <4>2 DEF CopyInv
    <3>. QED
      BY <3>2, <3>3
  <2>7. CASE n # r.name
    <3>1. Whole(r)
      <4>1. ~ Storing(r.name) /\ ~ Hashing(r.name)
        BY <1>2, <1>8, <2>1, <2>7, FilesDiffer DEF Storing, Hashing
      <4>. QED
        BY <2>2, <4>1 DEF CopyInv, Whole
    <3>. QED
      BY <1>3, <1>4, <2>1, <2>7, <3>1, FilesDiffer, WholeKept
  <2>. QED
    BY <2>6, <2>7
<1>. QED
  BY <1>1, <1>5, <1>6, <1>7, <1>8 DEF CopyPoint

\* The copies of every sandbox stay whole, or are about to be.
LEMMA CopiesStep ==
    ASSUME SerialInv, IndexThere, PointsInv, CopiesInv, [Next]_vars
    PROVE  CopiesInv'
<1>. USE DEF SerialInv, Base
<1>0. TypeInv /\ TypeOK
  BY DEF RuntimeInv, TypeInv
<1>. SUFFICES ASSUME crashes' = 0, NEW r \in Coming'
              PROVE  CopyInv(r)'
  BY DEF CopiesInv
<1>a. /\ \A q \in Procs : CopyPoint(q)
      /\ \A s \in Coming : CopyInv(s)
      /\ refused \subseteq refused'
  BY QuietSteps DEF PointsInv, CopiesInv
<1>1. CASE UNCHANGED vars
  <2>1. IndexStill
    BY <1>1 DEF vars, IndexStill, WritingIndex
  <2>2. CopyInv(r)
    BY <1>a, <2>1, StillIndex
  <2>. QED
    BY <1>1, <2>2
    DEF vars, CopyInv, PolicyStored, StoredPolicy, HashListed, HashMatches, MacAgrees, Storing,
        Hashing, Building
<1>2. ASSUME NEW n \in Names, OrphanEnds(n) PROVE CopyInv(r)'
  <2>1. IndexStill /\ UNCHANGED <<file, pc, cmd, rec, wr, refused>>
    BY <1>2 DEF OrphanEnds, IndexStill, WritingIndex, ghostVars
  <2>2. CopyInv(r)
    BY <1>a, <2>1, StillIndex
  <2>. QED
    BY <2>1, <2>2
    DEF CopyInv, PolicyStored, StoredPolicy, HashListed, HashMatches, MacAgrees, Storing, Hashing,
        Building
\* The steps that leave the record and its files alone, p being at no point
\* that concerns it.
<1>3. ASSUME NEW p \in Procs, r \in Coming, file' = file,
             pc[p] # "idle" => /\ wr[p] = None /\ pc[p] # "limits"
                               /\ pc[p] \in {"insert", "update"} => rec[p].name # r.name,
             \A q \in Procs : q # p => pc[q] = "idle" /\ wr[q] = None
      PROVE  CopyInv(r)'
  <2>1. \A q \in Procs : wr[q] = None
    BY <1>3 DEF Alone
  <2>2. Whole(r)
    BY <1>3, <1>a, <2>1, WholeNow
  <2>. QED
    BY <1>3, <1>a, <2>2, WholeKept
<1>4. ASSUME NEW p \in Procs, Start(p) PROVE CopyInv(r)'
  <2>1. /\ IndexStill /\ UNCHANGED <<file, rec, wr, refused>> /\ pc[p] = "idle" /\ pc'[p] = "open"
        /\ \A q \in Procs : q # p => pc'[q] = pc[q] /\ cmd'[q] = cmd[q]
    BY <1>0, <1>4, StillStep DEF Start, Goto, hostVars, TypeOK
  <2>2. CopyInv(r)
    BY <1>a, <2>1, StillIndex
  <2>3. /\ Storing(r.name) => Storing(r.name)'
        /\ Hashing(r.name) => Hashing(r.name)'
        /\ Building(r.name) => Building(r.name)'
    BY <2>1 DEF Storing, Hashing, Building
  <2>. QED
    BY <2>1, <2>2, <2>3
    DEF CopyInv, PolicyStored, StoredPolicy, HashListed, HashMatches, MacAgrees
<1>5. ASSUME NEW p \in Procs,
             \/ Leaves(p) \/ ReportCreated(p) \/ CreatePodman(p) \/ CreateMac(p) \/ SavePolicy(p)
             \/ Run(p) \/ RunEnds(p) \/ PeekShell(p) \/ Get(p) \/ SetPolicy(p) \/ KillPodman(p)
      PROVE  CopyInv(r)'
  <2>1. IndexStill
    BY <1>0, <1>5, StillStep DEF Leaves
  <2>2. /\ pc[p] # "idle" /\ wr[p] = None /\ pc[p] # "insert" /\ file' = file
        /\ pc[p] = "limits" \/ pc[p] = "update" => Leaves(p)
    BY <1>5
    DEF Leaves, Quits, Exit, ReportCreated, CreatePodman, CreateMac, SavePolicy, Run, RunEnds,
        PeekShell, Get, SetPolicy, KillPodman, At, hostVars
  <2>3. r \in Coming
    BY <2>1, StillIndex
  <2>4. pc[p] # "limits"
    <3>1. ASSUME pc[p] = "limits" PROVE FALSE
      <4>1. file[Profile(cmd[p].key)] = Holds(cmd[p].policy) /\ NoInstance(cmd[p].key)
        BY <1>a, <2>2, <3>1 DEF CopyPoint, Put, Leaves
      <4>. QED
        BY <4>1, ContentsDiffer DEF NoInstance
    <3>. QED
      BY <3>1
  <2>5. pc[p] = "update" => rec[p].name # r.name
    <3>. SUFFICES ASSUME pc[p] = "update" PROVE rec[p].name # r.name
      OBVIOUS
    <3>1. ~ HasName(Stored, rec[p].name)
      BY <2>2 DEF Leaves
    <3>2. Coming = Listed
      BY <1>0, <2>2, Idle, ComingIs DEF WritingIndex
    <3>3. Stored \in States /\ r \in RecordsOf(Stored)
      BY <1>0, <2>3, <3>2, ComingIs
    <3>. QED
      BY <3>1, <3>3, NamesListed
  <2>. QED
    BY <1>3, <2>2, <2>3, <2>4, <2>5, Idle
<1>6. ASSUME NEW p \in Procs, Truncate(p) \/ Fill(p) PROVE CopyInv(r)'
  <2>1. Coming' = Coming
    <3>1. CASE WritingIndex(p)
      BY <1>0, <1>6, <3>1, IndexCalls
    <3>2. CASE ~ WritingIndex(p)
      BY <1>0, <1>6, <3>2, StillStep, StillIndex
    <3>. QED
      BY <3>1, <3>2
  <2>2. refused' = refused
    BY <1>6 DEF Truncate, Fill, ghostVars
  <2>. QED
    BY <1>6, <1>a, <2>1, <2>2, CallsCopy
<1>7. ASSUME NEW p \in Procs, WriteLimits(p) PROVE CopyInv(r)'
  <2>1. /\ IndexStill /\ pc[p] = "limits" /\ wr[p] = None /\ file' = file
        /\ cmd[p].key \in Names /\ cmd[p].policy \in Policies
    BY <1>0, <1>7, StillStep, Running DEF WriteLimits, At, hostVars, Points, Complete
  <2>2. r \in Coming /\ \A q \in Procs : q # p => pc[q] = "idle" /\ wr[q] = None
    BY <2>1, StillIndex, Idle
  <2>3. PolicyStored(r) /\ HashListed(r) /\ (MacAgrees(r) \/ cmd[p].key = r.name)
    BY <1>a, <2>1, <2>2 DEF CopyInv, Storing, Hashing, Building
  <2>4. PolicyStored(r)' /\ HashListed(r)' /\ (MacAgrees(r) => MacAgrees(r)')
    BY <1>a, <2>1, <2>3 DEF PolicyStored, StoredPolicy, HashListed, HashMatches, MacAgrees
  <2>5. wr'[p] # None /\ wr'[p].file = Limits(cmd[p].key)
    <3>1. Limits(cmd[p].key) \in Files /\ cmd[p].policy \in DataOf(Limits(cmd[p].key))
      BY <2>1, FilesOf, FilesDiffer DEF DataOf
    <3>. QED
      BY <1>0, <1>7, <3>1, WriteBegins DEF WriteLimits
  <2>6. cmd[p].key = r.name => Building(r.name)'
    BY <2>5 DEF Building
  <2>. QED
    BY <2>3, <2>4, <2>6 DEF CopyInv
<1>8. ASSUME NEW p \in Procs, AlreadyExists(p) PROVE CopyInv(r)'
  <2>1. /\ IndexStill /\ pc[p] = "insert" /\ wr[p] = None /\ file' = file
        /\ refused' = refused \cup {rec[p].name}
    BY <1>0, <1>8, StillStep DEF AlreadyExists, At, hostVars
  <2>2. r \in Coming /\ \A q \in Procs : q # p => pc[q] = "idle" /\ wr[q] = None
    BY <2>1, StillIndex, Idle
  <2>3. CASE rec[p].name # r.name
    BY <1>3, <2>1, <2>2, <2>3
  <2>4. CASE rec[p].name = r.name
    <3>1. PolicyStored(r) /\ MacAgrees(r)
      BY <1>a, <2>1, <2>2 DEF CopyInv, Storing, Building
    <3>2. PolicyStored(r)' /\ MacAgrees(r)' /\ HashListed(r)'
      BY <2>1, <2>4, <3>1 DEF PolicyStored, StoredPolicy, HashListed, MacAgrees
    <3>. QED
      BY <3>2 DEF CopyInv
  <2>. QED
    BY <2>3, <2>4
<1>9. ASSUME NEW p \in Procs,
             InsertRecord(p) \/ TouchLastUsed(p) \/ UpdateRecord(p) \/ RemoveRecord(p)
      PROVE  CopyInv(r)'
  <2>1. /\ pc[p] \in {"insert", "touch", "update", "remove"} /\ wr[p] = None /\ Loaded
        /\ file' = file /\ refused' = refused
    BY <1>9
    DEF InsertRecord, TouchLastUsed, UpdateRecord, RemoveRecord, At, hostVars, ghostVars
  <2>2. \A q \in Procs : q # p => pc[q] = "idle" /\ wr[q] = None
    BY <2>1, Idle
  <2>3. Stored \in States /\ Coming = RecordsOf(Stored) /\ UniqueRecords(Stored)
    BY <1>0, <2>1, <2>2, ComingIs DEF WritingIndex, IndexInv, DocOK
  <2>4. \A d \in States : Write(p, Index, d) => Coming' = RecordsOf(d)
    BY <1>0, <2>1, BeginIndex
  <2>5. ASSUME r \in Coming, pc[p] \in {"insert", "update"} => rec[p].name # r.name
        PROVE  CopyInv(r)'
    BY <1>3, <2>1, <2>2, <2>5
  <2>6. CASE InsertRecord(p)
    <3>1. rec[p] \in Records /\ ~ HasName(Stored, rec[p].name) /\ pc[p] = "insert"
      BY <1>0, <2>6, Running DEF InsertRecord, At, HoldingPoints
    <3>2. Coming' = Coming \cup {rec[p]}
      BY <2>3, <2>4, <2>6, <3>1, InsertListed, InsertFrom DEF InsertRecord
    <3>3. CASE r \in Coming
      BY <2>3, <2>5, <3>1, <3>3, NamesListed
    <3>4. CASE r = rec[p]
      <4>1. /\ r.policy_hash = Hash(cmd[p].policy)
            /\ file[PolicyFile(r.name)] = Holds(cmd[p].policy)
            /\ r.mechanism = "mac" => /\ file[Profile(r.name)] = Holds(cmd[p].policy)
                                      /\ file[Limits(r.name)] = Holds(cmd[p].policy)
        BY <1>a, <2>1, <3>1, <3>4 DEF CopyPoint, Put
      <4>2. Whole(r)
        BY <4>1, ContentsDiffer
        DEF Whole, PolicyStored, StoredPolicy, HashListed, HashMatches, MacAgrees
      <4>. QED
        BY <1>a, <2>1, <4>2, WholeKept
    <3>. QED
      BY <3>2, <3>3, <3>4
  <2>7. CASE TouchLastUsed(p)
    <3>1. rec[p].name \in Names /\ \E s \in RecordsOf(Stored) : s.name = rec[p].name
      BY <1>0, <2>3, <2>7, Running DEF TouchLastUsed, At, HoldingPoints, Records, PointInv
    <3>2. Coming' = Coming
      BY <2>3, <2>4, <2>7, <3>1, TouchListed, TouchLastUsedOK DEF TouchLastUsed
    <3>. QED
      BY <2>5, <2>7, <3>2 DEF TouchLastUsed, At
  <2>8. CASE UpdateRecord(p)
    <3>. DEFINE m == rec[p].name
                c == cmd[p].policy
    <3>1. m \in Names /\ c \in Policies /\ HasName(Stored, m) /\ pc[p] = "update"
      BY <1>0, <2>8, Running DEF UpdateRecord, At, HoldingPoints, Records, Points, Complete
    <3>2. Coming' = RecordsOf(UpdatePolicy(Stored, m, c))
      BY <2>3, <2>4, <2>8, <3>1, UpdateListed DEF UpdateRecord
    <3>3. file[PolicyFile(m)] = Holds(c)
      BY <1>a, <2>1, <3>1 DEF CopyPoint, Put
    <3>. HIDE DEF m, c
    <3>4. PICK s \in RecordsOf(Stored) :
            /\ s.name = m /\ \A x \in RecordsOf(Stored) : x.name = m => x = s
            /\ RecordsOf(UpdatePolicy(Stored, m, c))
                = (RecordsOf(Stored) \ {s}) \cup {[s EXCEPT !.policy_hash = Hash(c)]}
      BY <2>3, <3>1, UpdateExact
    <3>5. CASE r \in RecordsOf(Stored) \ {s}
      BY <2>3, <2>5, <3>4, <3>5 DEF m
    <3>6. CASE r = [s EXCEPT !.policy_hash = Hash(c)]
      <4>1. s \in Records /\ s \in Coming
        BY <2>3, RecordsAreRecords
      <4>2. r.name = m /\ r.mechanism = s.mechanism /\ r.policy_hash = Hash(c)
        BY <3>4, <3>6, <4>1 DEF Records
      <4>3. MacAgrees(s)
        BY <1>a, <2>1, <2>2, <3>1, <4>1 DEF CopyInv, Building
      <4>4. PolicyStored(r) /\ HashListed(r)
        BY <3>3, <4>2, ContentsDiffer DEF PolicyStored, StoredPolicy, HashListed, HashMatches
      <4>5. Whole(r)
        BY <3>4, <4>2, <4>3, <4>4 DEF Whole, MacAgrees
      <4>. QED
        BY <1>a, <2>1, <4>5, WholeKept
    <3>. QED
      BY <3>2, <3>4, <3>5, <3>6
  <2>9. CASE RemoveRecord(p)
    <3>1. Hits(Stored, cmd[p].key) # {} /\ Write(p, Index, RemoveKey(Stored, cmd[p].key))
      BY <2>9 DEF RemoveRecord
    <3>2. Coming' \subseteq Coming
      BY <2>3, <2>4, <3>1, RemoveListed, RemoveFrom
    <3>. QED
      BY <2>5, <2>9, <3>2 DEF RemoveRecord, At
  <2>. QED
    BY <1>9, <2>6, <2>7, <2>8, <2>9
<1>10. ASSUME NEW p \in Procs, UnlinkPolicy(p) \/ KillMac(p) PROVE CopyInv(r)'
  <2>1. IndexStill /\ pc[p] \in {"unlink", "kill"} /\ wr[p] = None
    BY <1>0, <1>10, StillStep DEF UnlinkPolicy, KillMac, At
  <2>2. /\ r \in Coming /\ rec[p].name # r.name
        /\ \A q \in Procs : q # p => pc[q] = "idle" /\ wr[q] = None
    BY <2>1, StillIndex, Idle DEF PointInv
  <2>3. Whole(r)
    BY <1>a, <2>1, <2>2, WholeNow
  <2>4. {PolicyFile(r.name), Profile(r.name), Limits(r.name)} \subseteq Files
    BY <1>0, <2>2, ComingNamed
  <2>5. /\ file'[PolicyFile(r.name)] = file[PolicyFile(r.name)]
        /\ file'[Profile(r.name)] = file[Profile(r.name)]
        /\ file'[Limits(r.name)] = file[Limits(r.name)]
    <3>1. CASE UnlinkPolicy(p)
      BY <2>2, <2>4, <3>1, FilesDiffer DEF UnlinkPolicy, Unlink
    <3>2. CASE KillMac(p)
      <4>1. rec[p] \in Known /\ rec[p].mechanism = "mac"
        BY <2>1, <3>2 DEF KillMac, Known, HoldingPoints
      <4>2. rec[p].runtime_id = rec[p].name
        BY <4>1 DEF RuntimeInv, Tied
      <4>. QED
        BY <2>2, <2>4, <3>2, <4>2, FilesDiffer DEF KillMac, Unlink
    <3>. QED
      BY <1>10, <3>1, <3>2
  <2>. QED
    BY <1>a, <2>3, <2>5, WholeKept
<1>11. ASSUME NEW p \in Procs, OpenStore(p) PROVE CopyInv(r)'
  <2>1. pc[p] = "open" /\ wr[p] = None /\ file' = file
    BY <1>11 DEF OpenStore, At, hostVars
  <2>2. CASE file[Index] = Absent
    <3>1. Coming' = {}
      BY <1>0, <1>11, <2>1, <2>2, DefaultIsState, DefaultRecords, BeginIndex DEF OpenStore
    <3>. QED
      BY <3>1
  <2>3. CASE file[Index] # Absent
    <3>1. r \in Coming
      BY <1>0, <1>11, <2>3, StillStep, StillIndex
    <3>. QED
      BY <1>3, <2>1, <3>1, Idle
  <2>. QED
    BY <2>2, <2>3
<1>. QED
  BY <1>1, <1>2, <1>4, <1>5, <1>6, <1>7, <1>8, <1>9, <1>10, <1>11, QuietSteps

\* They are at first.
LEMMA CopiesInit == Init => PointsInv /\ CopiesInv
<1>. SUFFICES ASSUME Init PROVE PointsInv /\ CopiesInv
  OBVIOUS
<1>1. \A p \in Procs : wr[p] = None /\ pc[p] = "idle"
  BY DEF Init
<1>2. ~ Loaded
  BY FilesOf, ContentsDiffer DEF Init, Loaded
<1>3. Coming = {}
  BY <1>1, <1>2 DEF Coming, WritingIndex, Listed
<1>. QED
  BY <1>1, <1>3 DEF PointsInv, CopyPoint, CopiesInv

\* One invocation at a time and none killed, between two invocations and after
\* any sequence of them: a listed sandbox has a stored policy, the two files of
\* a seatbelt instance are of one policy, and the listed hash is that of the
\* stored policy, but for a sandbox over which a create was refused by insert
\* only (Store::save_policy before Store::insert; Store::update_policy).
THEOREM CopiesAlwaysAgree ==
    ASSUME MaxConcurrent = 1
    PROVE  Spec => []CopiesAgree
<1>. DEFINE I == SerialInv /\ IndexThere /\ PointsInv /\ CopiesInv
<1>1. Init => I
  BY SerialInvInit, QuietInit, CopiesInit
<1>2. I /\ [Next]_vars => I'
  BY SerialInvStep, ThereStep, PointsStep, CopiesStep
<1>3. I => CopiesAgree
  <2>. SUFFICES ASSUME I, Quiet, NEW r \in Listed PROVE Whole(r)
    BY DEF CopiesAgree, Whole, PolicyStored, HashListed, MacAgrees
  <2>1. \A q \in Procs : pc[q] = "idle" /\ wr[q] = None
    BY DEF Quiet, SerialInv, Base, Alone
  <2>2. r \in Coming
    BY <2>1 DEF Coming, WritingIndex
  <2>. QED
    BY <2>1, <2>2, WholeNow DEF CopiesInv, Quiet
<1>. HIDE DEF I
<1>. QED
  BY <1>1, <1>2, <1>3, PTL DEF Spec
=============================================================================
