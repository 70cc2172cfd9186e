----------------------------- MODULE SsbxProofs -----------------------------
(***************************************************************************)
(* What holds of ssbx for any number of processes, names, policies and     *)
(* commands, with any of the processes killed at any point: first what the *)
(* operators of StoreState return and preserve, then the types, then the   *)
(* index, and last the containers behind its records.  IdsIn is all the    *)
(* proofs about the index need to know of a result: which ids it lists,    *)
(* and that names and ids stay unique.  Of a container, the id a record    *)
(* carries is that of the one persistent container made with it, wherever  *)
(* the record is: in the index, in an index about to be written or in the  *)
(* hands of a process.                                                     *)
(***************************************************************************)
EXTENDS SsbxProperties, SequenceTheorems, WellFoundedInduction, TLAPS

-----------------------------------------------------------------------------
(* The operators of the store *)

IdsIn(st) == {st.sandboxes[i].id : i \in DOMAIN st.sandboxes}

\* A non-empty set of list positions has a least one, which is what find and
\* position stop at.
LEMMA MinIn ==
    ASSUME NEW S, S \subseteq Nat, S # {}
    PROVE  Min(S) \in S
<1>1. PICK x \in S : \A y \in S : ~ (<<y, x>> \in OpToRel(<, Nat))
  BY NatLessThanWellFounded, WFMin
<1>2. ASSUME NEW y \in S, y < x
      PROVE  <<y, x>> \in OpToRel(<, Nat)
  BY <1>2, Zenon DEF OpToRel
<1>3. \A y \in S : ~ (y < x)
  BY <1>1, <1>2, Zenon
<1>4. \A y \in S : x =< y
  BY <1>3
<1>. QED
  BY <1>4 DEF Min

\* The fields of an index, and its records by position.
LEMMA StateFields ==
    ASSUME NEW st \in States
    PROVE  /\ st.sandboxes \in Seq(Records)
           /\ Len(st.sandboxes) \in Nat
           /\ DOMAIN st.sandboxes = 1 .. Len(st.sandboxes)
           /\ \A i \in DOMAIN st.sandboxes : st.sandboxes[i] \in Records
           /\ st.last_used \in Names \cup {None}
<1>1. st.sandboxes \in Seq(Records) /\ st.last_used \in Names \cup {None}
  BY DEF States
<1>2. /\ Len(st.sandboxes) \in Nat
      /\ DOMAIN st.sandboxes = 1 .. Len(st.sandboxes)
      /\ \A i \in 1 .. Len(st.sandboxes) : st.sandboxes[i] \in Records
  BY <1>1, LenProperties, ElementOfSeq
<1>. QED
  BY <1>1, <1>2

\* The default index of Store::open.
LEMMA DefaultIsState ==
    /\ DefaultState \in States
    /\ UniqueRecords(DefaultState)
    /\ IdsIn(DefaultState) = {}
<1>1. <<>> \in Seq(Records) /\ DOMAIN <<>> = {}
  BY EmptySeq
<1>. QED
  BY <1>1 DEF DefaultState, States, UniqueRecords, IdsIn

\* iter().find returns a listed record that answers to the key.
LEMMA FindListed ==
    ASSUME NEW st \in States, NEW key, Hits(st, key) # {}
    PROVE  /\ Min(Hits(st, key)) \in DOMAIN st.sandboxes
           /\ Find(st, key) = st.sandboxes[Min(Hits(st, key))]
           /\ Find(st, key) \in Records
           /\ Answers(Find(st, key), key)
<1>1. Hits(st, key) \subseteq Nat
  BY StateFields DEF Hits
<1>2. Min(Hits(st, key)) \in Hits(st, key)
  BY <1>1, MinIn
<1>. QED
  BY <1>2, StateFields DEF Hits, Find

\* get_or_last returns a record or nothing.
LEMMA GetOrLastType ==
    ASSUME NEW st \in States, NEW key
    PROVE  GetOrLast(st, key) \in Records \cup {None}
<1>1. \A k : Find(st, k) \in Records \cup {None}
  BY FindListed DEF Find
<1>2. st.sandboxes # <<>> => Last(st.sandboxes) \in Records
  BY StateFields, EmptySeq DEF Last
<1>. QED
  BY <1>1, <1>2 DEF GetOrLast

\* insert adds one id, and keeps names and ids unique when both are new.
LEMMA InsertListed ==
    ASSUME NEW st \in States, NEW r \in Records
    PROVE  /\ Insert(st, r) \in States
           /\ IdsIn(Insert(st, r)) = IdsIn(st) \cup {r.id}
           /\ UniqueRecords(st) /\ ~HasName(st, r.name) /\ r.id \notin IdsIn(st)
              => UniqueRecords(Insert(st, r))
<1>. DEFINE s == st.sandboxes
            t == Append(s, r)
<1>1. /\ t \in Seq(Records)
      /\ Len(t) = Len(s) + 1
      /\ \A i \in 1 .. Len(s) : t[i] = s[i]
      /\ t[Len(s) + 1] = r
  BY StateFields, AppendProperties
<1>2. DOMAIN t = 1 .. Len(s) + 1 /\ DOMAIN s = 1 .. Len(s) /\ Len(s) \in Nat
  BY <1>1, StateFields, LenProperties
<1>3. Insert(st, r).sandboxes = t /\ Insert(st, r).last_used = r.name
  BY DEF Insert
<1>4. Insert(st, r) \in States
  BY <1>1 DEF Insert, States, Records
<1>5. IdsIn(Insert(st, r)) = IdsIn(st) \cup {r.id}
  <2>1. IdsIn(Insert(st, r)) \subseteq IdsIn(st) \cup {r.id}
    BY <1>1, <1>2, <1>3 DEF IdsIn
  <2>2. IdsIn(st) \subseteq IdsIn(Insert(st, r))
    BY <1>1, <1>2, <1>3 DEF IdsIn
  <2>3. r.id \in IdsIn(Insert(st, r))
    BY <1>1, <1>2, <1>3 DEF IdsIn
  <2>. QED
    BY <2>1, <2>2, <2>3
<1>6. ASSUME UniqueRecords(st), ~HasName(st, r.name), r.id \notin IdsIn(st)
      PROVE  UniqueRecords(Insert(st, r))
  <2>1. \A i \in 1 .. Len(s) : s[i].name # r.name /\ s[i].id # r.id
    BY <1>2, <1>6 DEF HasName, IdsIn
  <2>. QED
    BY <1>1, <1>2, <1>3, <1>6, <2>1 DEF UniqueRecords
<1>. QED
  BY <1>4, <1>5, <1>6

\* RemoveAt, position by position.
LEMMA RemoveAtProperties ==
    ASSUME NEW S, NEW s \in Seq(S), NEW k \in 1 .. Len(s)
    PROVE  /\ RemoveAt(s, k) \in Seq(S)
           /\ Len(RemoveAt(s, k)) = Len(s) - 1
           /\ \A i \in 1 .. Len(s) - 1 :
                RemoveAt(s, k)[i] = s[IF i < k THEN i ELSE i + 1]
<1>. DEFINE u == SubSeq(s, 1, k-1)
            v == SubSeq(s, k+1, Len(s))
<1>1. Len(s) \in Nat /\ \A i \in 1 .. Len(s) : s[i] \in S
  BY LenProperties, ElementOfSeq
<1>2. /\ u \in Seq(S) /\ Len(u) = k - 1
      /\ \A i \in 1 .. k - 1 : u[i] = s[i]
  <2>1. \A i \in 1 .. k-1 : s[i] \in S
    BY <1>1
  <2>2. k - 1 \in Int /\ 1 \in Int
    BY <1>1
  <2>3. /\ u \in Seq(S)
        /\ Len(u) = IF 1 <= k - 1 THEN (k-1) - 1 + 1 ELSE 0
        /\ \A i \in 1 .. (k-1) - 1 + 1 : u[i] = s[1 + i - 1]
    BY <2>1, <2>2, SubSeqProperties
  <2>. QED
    BY <1>1, <2>3
<1>3. /\ v \in Seq(S) /\ Len(v) = Len(s) - k
      /\ \A i \in 1 .. Len(s) - k : v[i] = s[k + i]
  <2>1. \A i \in k+1 .. Len(s) : s[i] \in S
    BY <1>1
  <2>2. k + 1 \in Int /\ Len(s) \in Int
    BY <1>1
  <2>3. /\ v \in Seq(S)
        /\ Len(v) = IF k + 1 <= Len(s) THEN Len(s) - (k + 1) + 1 ELSE 0
        /\ \A i \in 1 .. Len(s) - (k + 1) + 1 : v[i] = s[(k + 1) + i - 1]
    BY <2>1, <2>2, SubSeqProperties
  <2>. QED
    BY <1>1, <2>3
<1>4. RemoveAt(s, k) = u \o v
  BY DEF RemoveAt
<1>5. /\ u \o v \in Seq(S)
      /\ Len(u \o v) = Len(u) + Len(v)
      /\ \A i \in 1 .. Len(u) + Len(v) :
            (u \o v)[i] = IF i <= Len(u) THEN u[i] ELSE v[i - Len(u)]
  BY <1>2, <1>3, ConcatProperties
<1>. HIDE DEF u, v
<1>6. ASSUME NEW i \in 1 .. Len(s) - 1
      PROVE  (u \o v)[i] = s[IF i < k THEN i ELSE i + 1]
  <2>1. CASE i < k
    BY <1>1, <1>2, <1>3, <1>5, <2>1
  <2>2. CASE ~ (i < k)
    <3>1. i - (k - 1) \in 1 .. Len(s) - k /\ k + (i - (k - 1)) = i + 1
      BY <1>1, <2>2
    <3>2. i \in 1 .. Len(u) + Len(v) /\ ~ (i <= Len(u)) /\ i - Len(u) = i - (k - 1)
      BY <1>1, <1>2, <1>3, <2>2
    <3>3. (u \o v)[i] = v[i - (k - 1)]
      BY <1>5, <3>2
    <3>. QED
      BY <1>3, <2>2, <3>1, <3>3
  <2>. QED
    BY <2>1, <2>2
<1>. QED
  BY <1>1, <1>2, <1>3, <1>4, <1>5, <1>6

\* remove lists no id that was not listed, and keeps names and ids unique.
LEMMA RemoveListed ==
    ASSUME NEW st \in States, NEW key, Hits(st, key) # {}
    PROVE  /\ RemoveKey(st, key) \in States
           /\ IdsIn(RemoveKey(st, key)) \subseteq IdsIn(st)
           /\ UniqueRecords(st) => UniqueRecords(RemoveKey(st, key))
<1>. DEFINE s == st.sandboxes
            at == Min(Hits(st, key))
            t == RemoveAt(s, at)
<1>1. at \in 1 .. Len(s) /\ Len(s) \in Nat /\ DOMAIN s = 1 .. Len(s)
  BY FindListed, StateFields
<1>2. /\ t \in Seq(Records) /\ Len(t) = Len(s) - 1
      /\ \A i \in 1 .. Len(s) - 1 : t[i] = s[IF i < at THEN i ELSE i + 1]
  BY <1>1, StateFields, RemoveAtProperties
<1>3. DOMAIN t = 1 .. Len(s) - 1
  BY <1>2, LenProperties
<1>4. RemoveKey(st, key).sandboxes = t
  BY DEF RemoveKey
<1>5. RemoveKey(st, key) \in States
  <2>1. t # <<>> => Last(t) \in Records
    BY <1>2, EmptySeq, ElementOfSeq DEF Last
  <2>2. RemoveKey(st, key).last_used \in Names \cup {None}
    BY <2>1, StateFields DEF RemoveKey, Records
  <2>. QED
    BY <1>2, <2>2 DEF RemoveKey, States
<1>. HIDE DEF t, at
<1>6. IdsIn(RemoveKey(st, key)) \subseteq IdsIn(st)
  BY <1>1, <1>2, <1>3, <1>4 DEF IdsIn
<1>7. ASSUME UniqueRecords(st)
      PROVE  UniqueRecords(RemoveKey(st, key))
  <2>. SUFFICES ASSUME NEW i \in DOMAIN t, NEW j \in DOMAIN t,
                       t[i].name = t[j].name \/ t[i].id = t[j].id
                PROVE  i = j
    BY <1>4 DEF UniqueRecords
  <2>. DEFINE ii == IF i < at THEN i ELSE i + 1
              jj == IF j < at THEN j ELSE j + 1
  <2>0. i \in 1 .. Len(s) - 1 /\ j \in 1 .. Len(s) - 1 /\ at \in Nat
    BY <1>1, <1>3
  <2>1. ii \in DOMAIN s /\ jj \in DOMAIN s /\ t[i] = s[ii] /\ t[j] = s[jj]
    <3>1. t[i] = s[ii] /\ t[j] = s[jj]
      BY <1>2, <2>0
    <3>2. ii \in 1 .. Len(s) /\ jj \in 1 .. Len(s)
      BY <1>1, <2>0
    <3>. QED
      BY <1>1, <3>1, <3>2
  <2>2. ii = jj
    BY <2>1, <1>7 DEF UniqueRecords
  <2>. QED
    BY <2>0, <2>2
<1>. QED
  BY <1>5, <1>6, <1>7

\* update_policy changes no name and no id.
LEMMA UpdateListed ==
    ASSUME NEW st \in States, NEW name \in Names, HasName(st, name),
           NEW q \in Policies
    PROVE  /\ UpdatePolicy(st, name, q) \in States
           /\ IdsIn(UpdatePolicy(st, name, q)) = IdsIn(st)
           /\ UniqueRecords(st) => UniqueRecords(UpdatePolicy(st, name, q))
<1>. DEFINE s == st.sandboxes
            at == Min({i \in DOMAIN s : s[i].name = name})
            t == [s EXCEPT ![at].policy_hash = Hash(q)]
<1>1. /\ Len(s) \in Nat /\ DOMAIN s = 1 .. Len(s) /\ s \in Seq(Records)
      /\ \A i \in DOMAIN s : s[i] \in Records
  BY StateFields
<1>2. at \in DOMAIN s
  <2>1. {i \in DOMAIN s : s[i].name = name} \subseteq Nat
    BY <1>1
  <2>2. {i \in DOMAIN s : s[i].name = name} # {}
    BY DEF HasName
  <2>. QED
    BY <2>1, <2>2, MinIn
<1>3. UpdatePolicy(st, name, q) = [last_used |-> name, sandboxes |-> t]
  BY DEF UpdatePolicy
<1>. HIDE DEF at
<1>4. [s[at] EXCEPT !.policy_hash = Hash(q)] \in Records
  BY <1>1, <1>2 DEF Records
<1>5. t \in Seq(Records) /\ Len(t) = Len(s)
  BY <1>1, <1>2, <1>4, ExceptSeq
<1>6. /\ DOMAIN t = DOMAIN s
      /\ \A i \in DOMAIN s : t[i].name = s[i].name /\ t[i].id = s[i].id
  BY <1>1, <1>2 DEF Records
<1>. HIDE DEF t
<1>7. UpdatePolicy(st, name, q) \in States
  BY <1>3, <1>5 DEF States
<1>. QED
  BY <1>3, <1>6, <1>7 DEF IdsIn, UniqueRecords

\* touch_last_used changes no record.
LEMMA TouchListed ==
    ASSUME NEW st \in States, NEW name \in Names
    PROVE  /\ Touch(st, name) \in States
           /\ Touch(st, name).sandboxes = st.sandboxes
BY DEF Touch, States

-----------------------------------------------------------------------------
(* Type correctness *)

\* The program points of each command, and what a process has when it is there.
Points(op) ==
    CASE op = "create" -> {"open", "create", "limits", "save", "insert", "created"}
      [] op = "run"    -> {"open", "run", "running"}
      [] op = "rm"     -> {"open", "remove", "unlink", "kill", "shown"}
      [] op = "set"    -> {"open", "get", "set", "update", "shown"}
      [] op = "shell"  -> {"open", "peek", "get", "touch", "exec"}
      [] OTHER         -> {"open", "get", "touch", "exec", "shown"}

HoldingPoints ==
    {"save", "insert", "created", "set", "update", "touch", "exec", "unlink", "kill"}

\* create and run have a name and a policy with a mechanism, set a policy.
Complete(c) ==
    /\ c.op \in {"create", "run"} => c.key \in Names /\ c.mech \in Mechs /\ c.policy \in Policies
    /\ c.op = "set" => c.policy \in Policies

ControlOf(p) ==
    /\ pc[p] # "idle" =>
        /\ cmd[p] \in CommandType /\ pc[p] \in Points(cmd[p].op)
        /\ Complete(cmd[p])
    /\ pc[p] \in HoldingPoints => rec[p] \in Records
    /\ pc[p] = "limits" => cmd[p].mech = "mac"

ControlOK == \A p \in Procs : ControlOf(p)

TypeInv == TypeOK /\ ControlOK

\* The index that parses holds a SandboxState.
LEMMA StoredIsState ==
    ASSUME TypeOK, Loaded
    PROVE  Stored \in States
<1>1. Index \in Files /\ FileType(Index, file[Index])
  BY DEF TypeOK, Files
<1>. QED
  BY <1>1 DEF Loaded, Stored, Readable, FileType, DataOf, Absent, Empty, Garbled

\* Beginning an fs::write of the right kind of data keeps wr typed.
LEMMA WriteIsTyped ==
    ASSUME TypeOK, NEW p \in Procs, NEW f \in Files, NEW d \in DataOf(f), Write(p, f, d)
    PROVE  DOMAIN wr' = Procs /\ \A q \in Procs : wr'[q] = None \/ WriteType(wr'[q])
BY DEF TypeOK, Write, WriteType

\* The end of an invocation.
LEMMA ExitTyped ==
    ASSUME TypeInv, NEW p \in Procs, Exit(p)
    PROVE  TypeInv'
<1>1. TypeOK'
  BY DEF TypeInv, TypeOK, Exit, hostVars, ghostVars, FileType, WriteType
<1>2. ControlOK'
  BY DEF TypeInv, TypeOK, ControlOK, ControlOf, Exit, HoldingPoints, Points
<1>. QED
  BY <1>1, <1>2 DEF TypeInv

\* The same where the last step does something else as well.
LEMMA EndTyped ==
    ASSUME TypeInv, NEW p \in Procs,
           pc' = [pc EXCEPT ![p] = "idle"], cmd' = [cmd EXCEPT ![p] = None],
           rec' = [rec EXCEPT ![p] = None],
           container' \in [Names -> {None} \cup Containers],
           acked' \subseteq Nat, refused' \subseteq Names,
           UNCHANGED <<file, wr, fresh, started, crashes>>
    PROVE  TypeInv'
<1>1. TypeOK'
  BY DEF TypeInv, TypeOK, FileType, WriteType
<1>2. ControlOK'
  BY DEF TypeInv, TypeOK, ControlOK, ControlOf, Complete, HoldingPoints, Points
<1>. QED
  BY <1>1, <1>2 DEF TypeInv

\* Truncate, Fill and Unlink.
LEMMA FilesTyped ==
    ASSUME TypeInv, NEW p \in Procs
    PROVE  /\ Truncate(p) => TypeInv'
           /\ Fill(p) => TypeInv'
           /\ \A F : Unlink(F) => /\ DOMAIN file' = Files
                                  /\ \A f \in Files : FileType(f, file'[f])
                                  /\ DOMAIN wr' = Procs
                                  /\ \A q \in Procs : wr'[q] = None \/ WriteType(wr'[q])
<1>1. ASSUME Truncate(p) PROVE TypeInv'
  <2>1. WriteType(wr[p]) /\ wr[p].file \in Files
    BY <1>1 DEF Truncate, TypeInv, TypeOK, WriteType
  <2>2. DOMAIN file' = Files /\ \A f \in Files : FileType(f, file'[f])
    BY <1>1, <2>1 DEF Truncate, TypeInv, TypeOK, FileType
  <2>3. DOMAIN wr' = Procs /\ \A q \in Procs : wr'[q] = None \/ WriteType(wr'[q])
    BY <1>1, <2>1 DEF Truncate, TypeInv, TypeOK, WriteType
  <2>4. TypeOK'
    BY <1>1, <2>2, <2>3 DEF Truncate, TypeInv, TypeOK, ghostVars
  <2>5. ControlOK'
    BY <1>1 DEF Truncate, TypeInv, ControlOK, ControlOf
  <2>. QED
    BY <2>4, <2>5 DEF TypeInv
<1>2. ASSUME Fill(p) PROVE TypeInv'
  <2>1. WriteType(wr[p])
    BY <1>2 DEF Fill, TypeInv, TypeOK
  <2>2. wr[p].file \in Files /\ wr[p].data \in DataOf(wr[p].file)
    BY <2>1 DEF WriteType
  <2>3. PICK c : /\ c \in {Holds(wr[p].data), Garbled}
                 /\ file' = [file EXCEPT ![wr[p].file] = c]
    BY <1>2 DEF Fill, Overwrite
  <2>4. FileType(wr[p].file, c)
    BY <2>2, <2>3 DEF FileType, Holds
  <2>5. DOMAIN file' = Files /\ \A f \in Files : FileType(f, file'[f])
    BY <2>2, <2>3, <2>4 DEF TypeInv, TypeOK
  <2>6. DOMAIN wr' = Procs /\ \A q \in Procs : wr'[q] = None \/ WriteType(wr'[q])
    BY <1>2 DEF Fill, TypeInv, TypeOK
  <2>7. TypeOK'
    BY <1>2, <2>5, <2>6 DEF Fill, TypeInv, TypeOK, ghostVars
  <2>8. ControlOK'
    BY <1>2 DEF Fill, TypeInv, ControlOK, ControlOf
  <2>. QED
    BY <2>7, <2>8 DEF TypeInv
<1>3. ASSUME NEW F, Unlink(F)
      PROVE  /\ DOMAIN file' = Files
             /\ \A f \in Files : FileType(f, file'[f])
             /\ DOMAIN wr' = Procs
             /\ \A q \in Procs : wr'[q] = None \/ WriteType(wr'[q])
  BY <1>3 DEF Unlink, TypeInv, TypeOK, FileType
<1>. QED
  BY <1>1, <1>2, <1>3

\* A step of a process that leaves the files alone and starts no write.
LEMMA MoveTyped ==
    ASSUME TypeInv, NEW p \in Procs, NEW l,
           Goto(p, l), cmd[p] \in CommandType, l \in Points(cmd[p].op),
           Complete(cmd[p]),
           l \in HoldingPoints => rec'[p] \in Records,
           l = "limits" => cmd[p].mech = "mac",
           rec' = rec \/ \E r \in Records : rec' = [rec EXCEPT ![p] = r],
           cmd' = cmd,
           DOMAIN file' = Files, \A f \in Files : FileType(f, file'[f]),
           DOMAIN wr' = Procs, \A q \in Procs : wr'[q] = None \/ WriteType(wr'[q]),
           container' \in [Names -> {None} \cup Containers],
           fresh' \in Nat, acked' \subseteq Nat, UNCHANGED <<refused, started, crashes>>
    PROVE  TypeInv'
<1>1. /\ l \in {"open", "create", "limits", "save", "insert", "created", "peek",
                "get", "touch", "exec", "shown", "set", "update", "remove",
                "unlink", "kill", "run", "running"}
      /\ l # "idle"
  BY DEF Points
<1>2. TypeOK'
  <2>1. pc' \in [Procs -> {"idle", "open", "create", "limits", "save", "insert",
                           "created", "peek", "get", "touch", "exec", "shown",
                           "set", "update", "remove", "unlink", "kill",
                           "run", "running"}]
    BY <1>1 DEF TypeInv, TypeOK, Goto
  <2>2. rec' \in [Procs -> {None} \cup Records]
    BY DEF TypeInv, TypeOK
  <2>. QED
    BY <2>1, <2>2 DEF TypeInv, TypeOK
<1>3. ControlOK'
  <2>. SUFFICES ASSUME NEW q \in Procs
                PROVE  ControlOf(q)'
    BY DEF ControlOK
  <2>1. CASE q = p
    BY <2>1, <1>1 DEF TypeInv, TypeOK, Goto, ControlOf
  <2>2. CASE q # p
    <3>1. pc'[q] = pc[q] /\ rec'[q] = rec[q] /\ cmd'[q] = cmd[q]
      BY <2>2 DEF TypeInv, TypeOK, Goto
    <3>. QED
      BY <3>1 DEF TypeInv, ControlOK, ControlOf
  <2>. QED
    BY <2>1, <2>2
<1>. QED
  BY <1>2, <1>3 DEF TypeInv

\* What TypeInv says of a process that runs a command.
LEMMA Running ==
    ASSUME TypeInv, NEW p \in Procs, pc[p] # "idle"
    PROVE  /\ cmd[p] \in CommandType /\ pc[p] \in Points(cmd[p].op)
           /\ cmd[p].op \in AllOps
           /\ Complete(cmd[p])
           /\ pc[p] \in HoldingPoints => rec[p] \in Records
           /\ pc[p] = "limits" => cmd[p].mech = "mac"
<1>1. cmd[p] \in CommandType => cmd[p].op \in AllOps
  BY SsbxAssumption DEF CommandType
<1>. QED
  BY <1>1 DEF TypeInv, ControlOK, ControlOf

\* create (cmd_create) keeps the types.
LEMMA CreateTyped ==
    ASSUME TypeInv, NEW p \in Procs, CreateStep(p)
    PROVE  TypeInv'
<1>. USE DEF TypeInv, TypeOK
<1>1. CASE Refuse(p) \/ ContainerNameInUse(p) \/ InstanceGone(p)
  BY <1>1, ExitTyped DEF Refuse, ContainerNameInUse, InstanceGone
<1>2. CASE CreatePodman(p)
  <2>1. cmd[p].op = "create"
    BY <1>2, Running DEF CreatePodman, At, Points
  <2>2. [id |-> fresh, name |-> cmd[p].key, mechanism |-> cmd[p].mech,
         runtime_id |-> fresh, policy_hash |-> Hash(cmd[p].policy)] \in Records
    BY <1>2, <2>1, Running DEF CreatePodman, At, Records, Complete
  <2>3. container' \in [Names -> {None} \cup Containers]
    BY <1>2, <2>1, Running DEF CreatePodman, At, Containers, Complete
  <2>4. (\E r \in Records : rec' = [rec EXCEPT ![p] = r]) /\ rec'[p] \in Records
    BY <1>2, <2>2 DEF CreatePodman, NewRecord
  <2>5. cmd[p] \in CommandType /\ cmd[p].key \in Names /\ cmd[p].mech \in Mechs /\ cmd[p].policy \in Policies
    BY <1>2, <2>1, Running DEF CreatePodman, At, Complete
  <2>6. "save" \in Points(cmd[p].op) /\ fresh' \in Nat
    BY <1>2, <2>1 DEF CreatePodman, Points
  <2>. QED
    BY <1>2, <2>1, <2>3, <2>4, <2>5, <2>6, MoveTyped DEF CreatePodman, Complete, ghostVars
<1>3. CASE CreateMac(p)
  <2>1. cmd[p].op = "create"
    BY <1>3, Running DEF CreateMac, At, Points
  <2>2. Profile(cmd[p].key) \in Files /\ cmd[p].policy \in DataOf(Profile(cmd[p].key))
    BY <1>3, <2>1, Running DEF CreateMac, At, Files, Profile, DataOf, Index, Complete
  <2>3. DOMAIN wr' = Procs /\ \A q \in Procs : wr'[q] = None \/ WriteType(wr'[q])
    BY <1>3, <2>2, WriteIsTyped DEF CreateMac
  <2>. QED
    BY <1>3, <2>1, <2>3, Running, MoveTyped
    DEF CreateMac, At, Points, HoldingPoints, hostVars, ghostVars
<1>4. CASE WriteLimits(p)
  <2>1. cmd[p].op = "create"
    BY <1>4, Running DEF WriteLimits, At, Points
  <2>2. Limits(cmd[p].key) \in Files /\ cmd[p].policy \in DataOf(Limits(cmd[p].key))
    BY <1>4, <2>1, Running DEF WriteLimits, At, Files, Limits, DataOf, Index, Complete
  <2>3. DOMAIN wr' = Procs /\ \A q \in Procs : wr'[q] = None \/ WriteType(wr'[q])
    BY <1>4, <2>2, WriteIsTyped DEF WriteLimits
  <2>4. [id |-> fresh, name |-> cmd[p].key, mechanism |-> cmd[p].mech,
         runtime_id |-> cmd[p].key, policy_hash |-> Hash(cmd[p].policy)] \in Records
    BY <1>4, <2>1, Running DEF WriteLimits, At, Records, Complete
  <2>5. (\E r \in Records : rec' = [rec EXCEPT ![p] = r]) /\ rec'[p] \in Records
    BY <1>4, <2>4 DEF WriteLimits, NewRecord
  <2>6. cmd[p] \in CommandType /\ cmd[p].key \in Names /\ cmd[p].mech \in Mechs /\ cmd[p].policy \in Policies
    BY <1>4, <2>1, Running DEF WriteLimits, At, Complete
  <2>7. "save" \in Points(cmd[p].op) /\ fresh' \in Nat
    BY <1>4, <2>1 DEF WriteLimits, Points
  <2>. QED
    BY <1>4, <2>1, <2>3, <2>5, <2>6, <2>7, MoveTyped
    DEF WriteLimits, Complete, hostVars, ghostVars
<1>5. CASE SavePolicy(p)
  <2>1. cmd[p].op = "create" /\ rec[p] \in Records
    BY <1>5, Running DEF SavePolicy, At, Points, HoldingPoints
  <2>2. PolicyFile(rec[p].name) \in Files /\ cmd[p].policy \in DataOf(PolicyFile(rec[p].name))
    BY <1>5, <2>1, Running DEF SavePolicy, At, Files, PolicyFile, DataOf, Index, Records,
       Complete
  <2>3. DOMAIN wr' = Procs /\ \A q \in Procs : wr'[q] = None \/ WriteType(wr'[q])
    BY <1>5, <2>2, WriteIsTyped DEF SavePolicy
  <2>. QED
    BY <1>5, <2>1, <2>3, Running, MoveTyped DEF SavePolicy, At, Points, hostVars, ghostVars
<1>6. CASE InsertRecord(p)
  <2>1. cmd[p].op = "create" /\ rec[p] \in Records
    BY <1>6, Running DEF InsertRecord, At, Points, HoldingPoints
  <2>2. Index \in Files /\ Insert(Stored, rec[p]) \in DataOf(Index)
    BY <1>6, <2>1, StoredIsState, InsertListed DEF InsertRecord, DataOf, Files
  <2>3. DOMAIN wr' = Procs /\ \A q \in Procs : wr'[q] = None \/ WriteType(wr'[q])
    BY <1>6, <2>2, WriteIsTyped DEF InsertRecord
  <2>. QED
    BY <1>6, <2>1, <2>3, Running, MoveTyped DEF InsertRecord, At, Points, hostVars, ghostVars
<1>7. CASE ReportCreated(p)
  <2>1. rec[p] \in Records /\ rec[p].id \in Nat
    BY <1>7, Running DEF ReportCreated, At, HoldingPoints, Records
  <2>. QED
    BY <1>7, <2>1, EndTyped DEF ReportCreated, hostVars
<1>8. CASE AlreadyExists(p)
  <2>1. rec[p] \in Records /\ rec[p].name \in Names
    BY <1>8, Running DEF AlreadyExists, At, HoldingPoints, Records
  <2>. QED
    BY <1>8, <2>1, EndTyped DEF AlreadyExists, hostVars
<1>9. CASE Run(p)
  <2>1. cmd[p].op = "run" /\ cmd[p] \in CommandType /\ Complete(cmd[p])
    BY <1>9, Running DEF Run, At, Points
  <2>2. cmd[p].key \in Names /\ cmd[p].policy \in Policies
    BY <2>1 DEF Complete
  <2>3. container' \in [Names -> {None} \cup Containers]
    <3>1. [cid |-> fresh, policy |-> cmd[p].policy, ephemeral |-> TRUE] \in Containers
      BY <2>2 DEF Containers
    <3>. QED
      BY <1>9, <2>2, <3>1 DEF Run
  <2>4. "running" \in Points(cmd[p].op) /\ fresh' \in Nat
    BY <1>9, <2>1 DEF Run, Points
  <2>. QED
    BY <1>9, <2>1, <2>3, <2>4, MoveTyped DEF Run, HoldingPoints, ghostVars
<1>. QED
  BY <1>1, <1>2, <1>3, <1>4, <1>5, <1>6, <1>7, <1>8, <1>9 DEF CreateStep

\* The end of a run, waited for or not, keeps the types.
LEMMA RunEndsTyped ==
    ASSUME TypeInv
    PROVE  /\ \A p \in Procs : RunEnds(p) => TypeInv'
           /\ \A n \in Names : OrphanEnds(n) => TypeInv'
<1>1. ASSUME NEW p \in Procs, RunEnds(p) PROVE TypeInv'
  <2>1. container' \in [Names -> {None} \cup Containers]
    BY <1>1 DEF RunEnds, TypeInv, TypeOK
  <2>2. acked' \subseteq Nat /\ refused' \subseteq Names
    BY <1>1 DEF RunEnds, ghostVars, TypeInv, TypeOK
  <2>. QED
    BY <1>1, <2>1, <2>2, EndTyped DEF RunEnds, ghostVars
<1>2. ASSUME NEW n \in Names, OrphanEnds(n) PROVE TypeInv'
  <2>1. container' \in [Names -> {None} \cup Containers]
    BY <1>2 DEF OrphanEnds, TypeInv, TypeOK
  <2>2. TypeOK'
    BY <1>2, <2>1 DEF OrphanEnds, ghostVars, TypeInv, TypeOK, FileType, WriteType
  <2>3. ControlOK'
    BY <1>2 DEF OrphanEnds, TypeInv, ControlOK, ControlOf
  <2>. QED
    BY <2>2, <2>3 DEF TypeInv
<1>. QED
  BY <1>1, <1>2

\* shell and exec (cmd_shell, cmd_exec) keep the types.
LEMMA LookUpTyped ==
    ASSUME TypeInv, NEW p \in Procs, LookUpStep(p)
    PROVE  TypeInv'
<1>. USE DEF TypeInv, TypeOK
<1>1. CASE PeekShell(p)
  <2>1. cmd[p].op = "shell" /\ cmd[p] \in CommandType
    BY <1>1, Running DEF PeekShell, At, Points, AllOps
  <2>2. PICK r : r = GetOrLast(Stored, cmd[p].key) /\ r # None
                 /\ cmd' = [cmd EXCEPT ![p].mech = r.mechanism]
    BY <1>1 DEF PeekShell
  <2>3. r \in Records
    BY <1>1, <2>2, StoredIsState, GetOrLastType DEF PeekShell
  <2>4. [cmd[p] EXCEPT !.mech = r.mechanism] \in CommandType
    BY <2>1, <2>3 DEF CommandType, Records
  <2>5. cmd' = [cmd EXCEPT ![p] = [cmd[p] EXCEPT !.mech = r.mechanism]]
    BY <2>2
  <2>6. TypeOK'
    BY <1>1, <2>4, <2>5 DEF PeekShell, Goto, hostVars, ghostVars, FileType, WriteType
  <2>7. cmd'[p].op = "shell" /\ cmd'[p] \in CommandType /\ pc'[p] = "get"
    BY <1>1, <2>1, <2>4, <2>5 DEF PeekShell, Goto, CommandType
  <2>8. ControlOK'
    <3>. SUFFICES ASSUME NEW q \in Procs
                  PROVE  ControlOf(q)'
    BY DEF ControlOK
    <3>1. CASE q = p
      BY <2>7, <3>1 DEF ControlOf, Points, HoldingPoints, Complete
    <3>2. CASE q # p
      BY <1>1, <2>5, <3>2 DEF PeekShell, Goto, ControlOK, ControlOf
    <3>. QED
      BY <3>1, <3>2
  <2>. QED
    BY <2>6, <2>8
<1>2. CASE Get(p)
  <2>1. cmd[p] \in CommandType /\ cmd[p].op \in {"set", "shell", "exec", "show"}
    BY <1>2, Running DEF Get, At, Points, AllOps
  <2>2. PICK r : r = GetOrLast(Stored, cmd[p].key) /\ r # None
                 /\ rec' = [rec EXCEPT ![p] = r]
    BY <1>2 DEF Get
  <2>3. r \in Records
    BY <1>2, <2>2, StoredIsState, GetOrLastType DEF Get
  <2>4. NextAfterGet(cmd[p].op) \in Points(cmd[p].op) /\ NextAfterGet(cmd[p].op) # "limits"
    BY <2>1 DEF NextAfterGet, Points
  <2>5. Complete(cmd[p])
    BY <1>2, Running DEF Get, At
  <2>6. (\E s \in Records : rec' = [rec EXCEPT ![p] = s]) /\ rec'[p] \in Records
    BY <2>2, <2>3
  <2>. QED
    BY <1>2, <2>1, <2>4, <2>5, <2>6, MoveTyped DEF Get, hostVars, ghostVars
<1>3. CASE TouchLastUsed(p)
  <2>1. cmd[p] \in CommandType /\ cmd[p].op \in {"shell", "exec", "show"} /\ rec[p] \in Records
    BY <1>3, Running DEF TouchLastUsed, At, Points, AllOps, HoldingPoints
  <2>2. Index \in Files /\ Touch(Stored, rec[p].name) \in DataOf(Index)
    BY <1>3, <2>1, StoredIsState, TouchListed DEF TouchLastUsed, DataOf, Files, Records
  <2>3. DOMAIN wr' = Procs /\ \A q \in Procs : wr'[q] = None \/ WriteType(wr'[q])
    BY <1>3, <2>2, WriteIsTyped DEF TouchLastUsed
  <2>4. "exec" \in Points(cmd[p].op)
    BY <2>1 DEF Points
  <2>. QED
    BY <1>3, <2>1, <2>3, <2>4, MoveTyped DEF TouchLastUsed, Complete, hostVars, ghostVars
<1>. QED
  BY <1>1, <1>2, <1>3, ExitTyped DEF LookUpStep, NotFound, Show

\* policy set keeps the types.
LEMMA SetTyped ==
    ASSUME TypeInv, NEW p \in Procs, SetStep(p)
    PROVE  TypeInv'
<1>. USE DEF TypeInv, TypeOK
<1>1. CASE SetPolicy(p)
  <2>1. /\ cmd[p] \in CommandType /\ cmd[p].op = "set" /\ rec[p] \in Records
        /\ cmd[p].policy \in Policies
    BY <1>1, Running DEF SetPolicy, At, Points, AllOps, HoldingPoints, Complete
  <2>2. PolicyFile(rec[p].name) \in Files /\ cmd[p].policy \in DataOf(PolicyFile(rec[p].name))
    BY <2>1 DEF Files, PolicyFile, DataOf, Index, Records
  <2>3. DOMAIN wr' = Procs /\ \A q \in Procs : wr'[q] = None \/ WriteType(wr'[q])
    BY <1>1, <2>2, WriteIsTyped DEF SetPolicy
  <2>4. "update" \in Points(cmd[p].op)
    BY <2>1 DEF Points
  <2>. QED
    BY <1>1, <2>1, <2>3, <2>4, MoveTyped DEF SetPolicy, Complete, hostVars, ghostVars
<1>2. CASE UpdateRecord(p)
  <2>1. /\ cmd[p] \in CommandType /\ cmd[p].op = "set" /\ rec[p] \in Records
        /\ cmd[p].policy \in Policies
    BY <1>2, Running DEF UpdateRecord, At, Points, AllOps, HoldingPoints, Complete
  <2>2. Index \in Files /\ UpdatePolicy(Stored, rec[p].name, cmd[p].policy) \in DataOf(Index)
    BY <1>2, <2>1, StoredIsState, UpdateListed DEF UpdateRecord, DataOf, Files, Records
  <2>3. DOMAIN wr' = Procs /\ \A q \in Procs : wr'[q] = None \/ WriteType(wr'[q])
    BY <1>2, <2>2, WriteIsTyped DEF UpdateRecord
  <2>4. "shown" \in Points(cmd[p].op)
    BY <2>1 DEF Points
  <2>. QED
    BY <1>2, <2>1, <2>3, <2>4, MoveTyped DEF UpdateRecord, Complete, hostVars, ghostVars
<1>. QED
  BY <1>1, <1>2, ExitTyped DEF SetStep, RefusePolicy

\* rm keeps the types.
LEMMA RmTyped ==
    ASSUME TypeInv, NEW p \in Procs, RmStep(p)
    PROVE  TypeInv'
<1>. USE DEF TypeInv, TypeOK
<1>1. CASE RemoveRecord(p)
  <2>1. cmd[p] \in CommandType /\ cmd[p].op = "rm"
    BY <1>1, Running DEF RemoveRecord, At, Points, AllOps
  <2>2. /\ Find(Stored, cmd[p].key) \in Records
        /\ Index \in Files /\ RemoveKey(Stored, cmd[p].key) \in DataOf(Index)
    BY <1>1, StoredIsState, FindListed, RemoveListed DEF RemoveRecord, DataOf, Files
  <2>3. DOMAIN wr' = Procs /\ \A q \in Procs : wr'[q] = None \/ WriteType(wr'[q])
    BY <1>1, <2>2, WriteIsTyped DEF RemoveRecord
  <2>4. (\E s \in Records : rec' = [rec EXCEPT ![p] = s]) /\ rec'[p] \in Records
    BY <1>1, <2>2 DEF RemoveRecord
  <2>5. "unlink" \in Points(cmd[p].op)
    BY <2>1 DEF Points
  <2>. QED
    BY <1>1, <2>1, <2>3, <2>4, <2>5, MoveTyped DEF RemoveRecord, Complete, hostVars
<1>2. CASE UnlinkPolicy(p)
  <2>1. cmd[p] \in CommandType /\ cmd[p].op = "rm" /\ rec[p] \in Records
    BY <1>2, Running DEF UnlinkPolicy, At, Points, AllOps, HoldingPoints
  <2>2. /\ DOMAIN file' = Files /\ \A f \in Files : FileType(f, file'[f])
        /\ DOMAIN wr' = Procs /\ \A q \in Procs : wr'[q] = None \/ WriteType(wr'[q])
    BY <1>2, FilesTyped DEF UnlinkPolicy
  <2>3. "kill" \in Points(cmd[p].op)
    BY <2>1 DEF Points
  <2>. QED
    BY <1>2, <2>1, <2>2, <2>3, MoveTyped DEF UnlinkPolicy, Complete, ghostVars
<1>3. CASE KillPodman(p)
  <2>1. cmd[p] \in CommandType /\ cmd[p].op = "rm"
    BY <1>3, Running DEF KillPodman, At, Points, AllOps
  <2>2. container' \in [Names -> {None} \cup Containers]
    BY <1>3 DEF KillPodman
  <2>3. "shown" \in Points(cmd[p].op)
    BY <2>1 DEF Points
  <2>. QED
    BY <1>3, <2>1, <2>2, <2>3, MoveTyped DEF KillPodman, Complete, HoldingPoints, ghostVars
<1>4. CASE KillMac(p)
  <2>1. cmd[p] \in CommandType /\ cmd[p].op = "rm"
    BY <1>4, Running DEF KillMac, At, Points, AllOps
  <2>2. /\ DOMAIN file' = Files /\ \A f \in Files : FileType(f, file'[f])
        /\ DOMAIN wr' = Procs /\ \A q \in Procs : wr'[q] = None \/ WriteType(wr'[q])
    BY <1>4, FilesTyped DEF KillMac
  <2>3. "shown" \in Points(cmd[p].op)
    BY <2>1 DEF Points
  <2>. QED
    BY <1>4, <2>1, <2>2, <2>3, MoveTyped DEF KillMac, Complete, HoldingPoints, ghostVars
<1>. QED
  BY <1>1, <1>2, <1>3, <1>4, ExitTyped DEF RmStep, KillFails

\* An invocation begins typed.
LEMMA StartTyped ==
    ASSUME TypeInv, NEW p \in Procs, Start(p)
    PROVE  TypeInv'
<1>. USE DEF TypeInv, TypeOK
<1>1. PICK c \in Commands : cmd' = [cmd EXCEPT ![p] = c]
  BY DEF Start
<1>2. /\ c \in CommandType
      /\ Complete(c)
  BY DEF Commands, CommandType, Complete
<1>3. "open" \in Points(c.op)
  BY DEF Points
<1>4. TypeOK'
  BY <1>1, <1>2 DEF Start, Goto, hostVars
<1>5. ControlOK'
  <2>. SUFFICES ASSUME NEW q \in Procs
                PROVE  ControlOf(q)'
    BY DEF ControlOK
  <2>1. CASE q = p
    BY <1>1, <1>2, <1>3, <2>1 DEF Start, Goto, ControlOf, HoldingPoints
  <2>2. CASE q # p
    BY <1>1, <2>2 DEF Start, Goto, ControlOK, ControlOf
  <2>. QED
    BY <2>1, <2>2
<1>. QED
  BY <1>4, <1>5

\* Store::open keeps the types.
LEMMA OpenTyped ==
    ASSUME TypeInv, NEW p \in Procs, OpenStore(p)
    PROVE  TypeInv'
<1>. USE DEF TypeInv, TypeOK
<1>1. cmd[p] \in CommandType /\ cmd[p].op \in AllOps
  BY Running DEF OpenStore, At
<1>2. Index \in Files /\ DefaultState \in DataOf(Index)
  BY DefaultIsState DEF DataOf, Files
<1>3. DOMAIN wr' = Procs /\ \A q \in Procs : wr'[q] = None \/ WriteType(wr'[q])
  BY <1>2, WriteIsTyped DEF OpenStore
<1>4. /\ FirstPoint(cmd[p].op) \in Points(cmd[p].op)
      /\ FirstPoint(cmd[p].op) \notin HoldingPoints \cup {"limits"}
  BY <1>1 DEF FirstPoint, Points, AllOps, HoldingPoints
<1>. QED
  BY <1>1, <1>3, <1>4, Running, MoveTyped DEF OpenStore, At, hostVars, ghostVars

\* A kill keeps the types.
LEMMA CrashTyped ==
    ASSUME TypeInv, NEW p \in Procs, Crash(p)
    PROVE  TypeInv'
<1>1. TypeOK'
  BY DEF TypeInv, TypeOK, Crash, hostVars, FileType, WriteType
<1>2. ControlOK'
  BY DEF TypeInv, TypeOK, ControlOK, ControlOf, Crash, HoldingPoints
<1>. QED
  BY <1>1, <1>2 DEF TypeInv

\* TypeInv is inductive.
LEMMA TypeInvStep == TypeInv /\ [Next]_vars => TypeInv'
<1>. SUFFICES ASSUME TypeInv, [Next]_vars PROVE TypeInv'
  OBVIOUS
<1>1. CASE UNCHANGED vars
  BY <1>1 DEF vars, TypeInv, TypeOK, ControlOK, ControlOf, FileType, WriteType
<1>2. ASSUME NEW p \in Procs, Start(p) \/ Work(p) \/ Exec(p) \/ RunEnds(p) \/ Crash(p)
      PROVE  TypeInv'
  BY <1>2, StartTyped, CrashTyped, FilesTyped, OpenTyped, CreateTyped, LookUpTyped,
     SetTyped, RmTyped, ExitTyped, RunEndsTyped DEF Work, CannotLoad, Exec
<1>. QED
  BY <1>1, <1>2, RunEndsTyped DEF Next

\* TypeInv holds at first.
LEMMA TypeInvInit == Init => TypeInv
<1>. SUFFICES ASSUME Init PROVE TypeInv
  OBVIOUS
<1>1. TypeOK
  BY DEF Init, TypeOK, FileType
<1>2. ControlOK
  BY DEF Init, ControlOK, ControlOf, HoldingPoints
<1>. QED
  BY <1>1, <1>2 DEF TypeInv

\* Every reachable state is typed: in particular what load_index parses is a
\* SandboxState, and a process that goes on after a look-up has a record.
THEOREM TypeCorrect == Spec => [](TypeOK /\ ControlOK)
<1>1. Spec => []TypeInv
  BY TypeInvInit, TypeInvStep, PTL DEF Spec
<1>2. TypeInv => TypeOK /\ ControlOK
  BY DEF TypeInv
<1>. QED
  BY <1>1, <1>2, PTL

-----------------------------------------------------------------------------
(* The index lists no name and no id twice *)

\* The invariant that is inductive: it also speaks of the indexes processes are
\* about to write, and of the ids of records not inserted yet.
Inserting(p) == pc[p] \in {"save", "insert"}

DocOK(st) == UniqueRecords(st) /\ \A k \in IdsIn(st) : k < fresh

IndexInv ==
    /\ Loaded => DocOK(Stored)
    /\ \A p \in Procs : WritingIndex(p) => DocOK(wr[p].data)
    /\ \A p \in Procs : Inserting(p) =>
        /\ rec[p].id < fresh
        /\ Loaded => rec[p].id \notin IdsIn(Stored)
        /\ \A q \in Procs : WritingIndex(q) => rec[p].id \notin IdsIn(wr[q].data)
        /\ \A q \in Procs : Inserting(q) /\ q # p => rec[q].id # rec[p].id

Inv == TypeInv /\ IndexInv

\* No step brings an index document into play but by beginning to write it.
OldDocument ==
    Loaded' => \/ Loaded /\ Stored' = Stored
               \/ \E q \in Procs : WritingIndex(q) /\ Stored' = wr[q].data

OldWrite(q) == WritingIndex(q)' => WritingIndex(q) /\ wr'[q].data = wr[q].data

OldInserting(q) == Inserting(q)' => Inserting(q) /\ rec'[q] = rec[q]

\* Steps that begin no write of the index and make no record.
LEMMA IndexFrame ==
    ASSUME Inv, fresh' = fresh, OldDocument,
           \A q \in Procs : OldWrite(q) /\ OldInserting(q)
    PROVE  IndexInv'
<1>1. Loaded' => DocOK(Stored)'
  BY DEF Inv, IndexInv, OldDocument, DocOK, IdsIn, UniqueRecords
<1>2. \A p \in Procs : WritingIndex(p)' => DocOK(wr[p].data)'
  BY DEF Inv, IndexInv, OldWrite, DocOK, IdsIn, UniqueRecords
<1>3. ASSUME NEW p \in Procs, Inserting(p)'
      PROVE  /\ rec'[p].id < fresh'
             /\ Loaded' => rec'[p].id \notin IdsIn(Stored)'
             /\ \A q \in Procs : WritingIndex(q)' => rec'[p].id \notin IdsIn(wr[q].data)'
             /\ \A q \in Procs : Inserting(q)' /\ q # p => rec'[q].id # rec'[p].id
  BY <1>3 DEF Inv, IndexInv, OldDocument, OldWrite, OldInserting, IdsIn
<1>. QED
  BY <1>1, <1>2, <1>3 DEF IndexInv

\* Steps that begin to write an index d made from what they loaded.
LEMMA IndexWrite ==
    ASSUME Inv, NEW p \in Procs, NEW d, fresh' = fresh, file' = file,
           Write(p, Index, d), DocOK(d),
           \A q \in Procs : OldInserting(q) /\ (Inserting(q)' => rec[q].id \notin IdsIn(d))
    PROVE  IndexInv'
<1>1. /\ Loaded' = Loaded /\ Stored' = Stored
      /\ \A q \in Procs : q # p => WritingIndex(q)' = WritingIndex(q) /\ wr'[q] = wr[q]
      /\ wr'[p].data = d
  BY DEF Inv, TypeInv, TypeOK, Write, Loaded, Stored, WritingIndex
<1>2. DocOK(d)' /\ (Loaded' => DocOK(Stored)')
  BY <1>1 DEF Inv, IndexInv, DocOK, IdsIn, UniqueRecords
<1>3. ASSUME NEW q \in Procs, WritingIndex(q)' PROVE DocOK(wr[q].data)'
  <2>1. CASE q = p
    BY <1>1, <1>2, <2>1 DEF DocOK, IdsIn, UniqueRecords
  <2>2. CASE q # p
    BY <1>1, <1>3, <2>2 DEF Inv, IndexInv, DocOK, IdsIn, UniqueRecords
  <2>. QED
    BY <2>1, <2>2
<1>4. ASSUME NEW o \in Procs, Inserting(o)'
      PROVE  /\ rec'[o].id < fresh'
             /\ Loaded' => rec'[o].id \notin IdsIn(Stored)'
             /\ \A q \in Procs : WritingIndex(q)' => rec'[o].id \notin IdsIn(wr[q].data)'
             /\ \A q \in Procs : Inserting(q)' /\ q # o => rec'[q].id # rec'[o].id
  <2>1. Inserting(o) /\ rec'[o] = rec[o] /\ rec[o].id \notin IdsIn(d)
    BY <1>4 DEF OldInserting
  <2>2. rec'[o].id < fresh' /\ (Loaded' => rec'[o].id \notin IdsIn(Stored)')
    BY <1>1, <2>1 DEF Inv, IndexInv, IdsIn
  <2>3. ASSUME NEW q \in Procs, WritingIndex(q)'
        PROVE  rec'[o].id \notin IdsIn(wr[q].data)'
    <3>1. CASE q = p
      BY <1>1, <2>1, <3>1 DEF IdsIn
    <3>2. CASE q # p
      BY <1>1, <2>1, <2>3, <3>2 DEF Inv, IndexInv, IdsIn
    <3>. QED
      BY <3>1, <3>2
  <2>4. \A q \in Procs : Inserting(q)' /\ q # o => rec'[q].id # rec'[o].id
    BY <2>1 DEF Inv, IndexInv, OldInserting
  <2>. QED
    BY <2>2, <2>3, <2>4
<1>. QED
  BY <1>1, <1>2, <1>3, <1>4 DEF IndexInv

\* The steps that take a fresh id.
LEMMA IndexNewId ==
    ASSUME Inv, NEW p \in Procs, fresh' = fresh + 1, file' = file,
           Inserting(p)' => ~ Inserting(p) /\ rec'[p].id = fresh,
           \A q \in Procs : OldWrite(q) /\ (q # p => OldInserting(q))
    PROVE  IndexInv'
<1>1. Loaded' = Loaded /\ Stored' = Stored /\ fresh \in Nat
  BY DEF Inv, TypeInv, TypeOK, Loaded, Stored
<1>3. /\ Loaded => \A k \in IdsIn(Stored) : k \in Nat
      /\ \A q \in Procs : WritingIndex(q) => \A k \in IdsIn(wr[q].data) : k \in Nat
  <2>1. \A st \in States : \A k \in IdsIn(st) : k \in Nat
    BY StateFields DEF IdsIn, Records
  <2>2. Loaded => Stored \in States
    BY StoredIsState DEF Inv, TypeInv
  <2>3. \A q \in Procs : WritingIndex(q) => wr[q].data \in States
    BY DEF Inv, TypeInv, TypeOK, WritingIndex, WriteType, DataOf
  <2>. QED
    BY <2>1, <2>2, <2>3
<1>4. ASSUME Loaded'
      PROVE  DocOK(Stored)' /\ fresh \notin IdsIn(Stored)
  <2>1. DocOK(Stored) /\ \A k \in IdsIn(Stored) : k \in Nat /\ k < fresh
    BY <1>1, <1>3, <1>4 DEF Inv, IndexInv, DocOK
  <2>. QED
    BY <1>1, <2>1 DEF DocOK, IdsIn, UniqueRecords
<1>5. ASSUME NEW q \in Procs, WritingIndex(q)'
      PROVE  DocOK(wr[q].data)' /\ fresh \notin IdsIn(wr'[q].data)
  <2>1. WritingIndex(q) /\ wr'[q].data = wr[q].data /\ DocOK(wr[q].data)
    BY <1>5 DEF OldWrite, Inv, IndexInv
  <2>2. \A k \in IdsIn(wr[q].data) : k \in Nat /\ k < fresh
    BY <2>1, <1>3 DEF DocOK
  <2>3. fresh \in Nat /\ fresh' = fresh + 1
    BY <1>1
  <2>4. \A k \in IdsIn(wr[q].data) : k < fresh' /\ k # fresh
    BY <2>2, <2>3
  <2>5. UniqueRecords(wr[q].data)
    BY <2>1 DEF DocOK
  <2>6. DocOK(wr[q].data)' = (UniqueRecords(wr'[q].data) /\ \A k \in IdsIn(wr'[q].data) : k < fresh')
    BY DEF DocOK, UniqueRecords, IdsIn
  <2>. QED
    BY <2>1, <2>4, <2>5, <2>6
<1>6. \A q \in Procs : Inserting(q) => rec[q].id \in Nat /\ rec[q].id < fresh
  BY DEF Inv, IndexInv, TypeInv, ControlOK, ControlOf, Inserting, HoldingPoints, Records
<1>7. ASSUME NEW o \in Procs, Inserting(o)'
      PROVE  /\ rec'[o].id < fresh'
             /\ Loaded' => rec'[o].id \notin IdsIn(Stored)'
             /\ \A q \in Procs : WritingIndex(q)' => rec'[o].id \notin IdsIn(wr[q].data)'
             /\ \A q \in Procs : Inserting(q)' /\ q # o => rec'[q].id # rec'[o].id
  <2>1. CASE o = p
    <3>0. rec'[p].id = fresh
      BY <1>7, <2>1
    <3>1. \A q \in Procs : Inserting(q)' /\ q # p => rec'[q].id < fresh /\ rec'[q].id \in Nat
      BY <1>6 DEF OldInserting
    <3>. QED
      BY <1>1, <1>4, <1>5, <2>1, <3>0, <3>1 DEF IdsIn
  <2>2. CASE o # p
    <3>1. Inserting(o) /\ rec'[o] = rec[o] /\ rec[o].id \in Nat /\ rec[o].id < fresh
      BY <1>6, <1>7, <2>2 DEF OldInserting
    <3>2. Loaded' => rec'[o].id \notin IdsIn(Stored)'
      BY <1>1, <3>1 DEF Inv, IndexInv, IdsIn
    <3>3. \A q \in Procs : WritingIndex(q)' => rec'[o].id \notin IdsIn(wr[q].data)'
      BY <3>1 DEF Inv, IndexInv, OldWrite, IdsIn
    <3>4. ASSUME NEW q \in Procs, Inserting(q)', q # o
          PROVE  rec'[q].id # rec'[o].id
      <4>1. CASE q = p
        BY <1>1, <3>1, <3>4, <4>1
      <4>2. CASE q # p
        BY <3>1, <3>4, <4>2 DEF Inv, IndexInv, OldInserting
      <4>. QED
        BY <4>1, <4>2
    <3>. QED
      BY <1>1, <3>1, <3>2, <3>3, <3>4
  <2>. QED
    BY <2>1, <2>2
<1>. QED
  BY <1>4, <1>5, <1>7 DEF IndexInv

\* A step that leaves the index file and the writes of it alone.
LEMMA IndexQuiet ==
    ASSUME Inv, fresh' = fresh, file'[Index] = file[Index],
           \A q \in Procs : OldWrite(q) /\ OldInserting(q)
    PROVE  IndexInv'
BY IndexFrame DEF OldDocument, Loaded, Stored

\* fs::write of another file than the index.
LEMMA OtherWrite ==
    ASSUME Inv, NEW p \in Procs, NEW f, NEW d, Write(p, f, d), f # Index
    PROVE  \A q \in Procs : OldWrite(q)
BY DEF Inv, TypeInv, TypeOK, Write, OldWrite, WritingIndex

\* The files of a sandbox are not the index.
LEMMA OtherFiles ==
    \A n : PolicyFile(n) # Index /\ Profile(n) # Index /\ Limits(n) # Index
BY DEF PolicyFile, Profile, Limits, Index

\* The end of an invocation.
LEMMA EndIndex ==
    ASSUME Inv, NEW p \in Procs, pc' = [pc EXCEPT ![p] = "idle"],
           rec' = [rec EXCEPT ![p] = None], UNCHANGED <<file, wr, fresh>>
    PROVE  IndexInv'
BY IndexQuiet DEF Inv, TypeInv, TypeOK, OldWrite, OldInserting, WritingIndex, Inserting

\* The end of an invocation leaves the index.
LEMMA ExitIndex ==
    ASSUME Inv, NEW p \in Procs, Exit(p)
    PROVE  IndexInv'
BY EndIndex DEF Exit, hostVars

\* A write of the index writes one that was well formed in memory.
LEMMA FileIndex ==
    ASSUME Inv, NEW p \in Procs
    PROVE  /\ Truncate(p) => IndexInv'
           /\ Fill(p) => IndexInv'
<1>. USE DEF Inv, TypeInv, TypeOK
<1>0. Index \in Files
  BY DEF Files
<1>1. ASSUME Truncate(p) PROVE IndexInv'
  <2>1. \A q \in Procs : OldWrite(q) /\ OldInserting(q)
    BY <1>1 DEF Truncate, OldWrite, OldInserting, WritingIndex, Inserting, WriteType
  <2>2. OldDocument
    BY <1>0, <1>1 DEF Truncate, OldDocument, Loaded, Stored, Readable, Empty
  <2>. QED
    BY <1>1, <2>1, <2>2, IndexFrame DEF Truncate
<1>2. ASSUME Fill(p) PROVE IndexInv'
  <2>1. \A q \in Procs : OldWrite(q) /\ OldInserting(q)
    BY <1>2 DEF Fill, OldWrite, OldInserting, WritingIndex, Inserting
  <2>2. PICK c : /\ c \in {Holds(wr[p].data), Garbled}
                 /\ file' = [file EXCEPT ![wr[p].file] = c]
    BY <1>2 DEF Fill, Overwrite
  <2>3. CASE wr[p].file = Index
    <3>1. Loaded' => Stored' = wr[p].data
      BY <1>0, <2>2, <2>3 DEF Loaded, Stored, Readable, Garbled, Holds
    <3>2. WritingIndex(p)
      BY <1>2, <2>3 DEF Fill, WritingIndex
    <3>. QED
      BY <1>2, <2>1, <3>1, <3>2, IndexFrame DEF Fill, OldDocument
  <2>4. CASE wr[p].file # Index
    <3>1. file'[Index] = file[Index]
      BY <1>0, <2>2, <2>4
    <3>. QED
      BY <1>2, <2>1, <3>1, IndexQuiet DEF Fill
  <2>. QED
    BY <2>3, <2>4
<1>. QED
  BY <1>1, <1>2

\* create keeps the index, and the one it is to write, well formed.
LEMMA CreateIndex ==
    ASSUME Inv, NEW p \in Procs, CreateStep(p)
    PROVE  IndexInv'
<1>. USE DEF Inv, TypeInv, TypeOK
<1>1. CASE Refuse(p) \/ ContainerNameInUse(p) \/ InstanceGone(p)
  BY <1>1, ExitIndex DEF Refuse, ContainerNameInUse, InstanceGone
<1>2. CASE CreatePodman(p)
  <2>1. rec'[p].id = fresh /\ ~ Inserting(p)
    BY <1>2 DEF CreatePodman, NewRecord, At, Inserting
  <2>2. \A q \in Procs : OldWrite(q) /\ (q # p => OldInserting(q))
    BY <1>2 DEF CreatePodman, NewRecord, Goto, OldWrite, OldInserting, WritingIndex, Inserting
  <2>. QED
    BY <1>2, <2>1, <2>2, IndexNewId DEF CreatePodman
<1>3. CASE CreateMac(p)
  <2>1. \A q \in Procs : OldWrite(q)
    BY <1>3, OtherWrite, OtherFiles DEF CreateMac
  <2>2. \A q \in Procs : OldInserting(q)
    BY <1>3 DEF CreateMac, Goto, OldInserting, Inserting
  <2>. QED
    BY <1>3, <2>1, <2>2, IndexQuiet DEF CreateMac, hostVars
<1>4. CASE WriteLimits(p)
  <2>1. rec'[p].id = fresh /\ ~ Inserting(p)
    BY <1>4 DEF WriteLimits, NewRecord, At, Inserting
  <2>2. \A q \in Procs : OldWrite(q)
    BY <1>4, OtherWrite, OtherFiles DEF WriteLimits
  <2>3. \A q \in Procs : q # p => OldInserting(q)
    BY <1>4 DEF WriteLimits, NewRecord, Goto, OldInserting, Inserting
  <2>. QED
    BY <1>4, <2>1, <2>2, <2>3, IndexNewId DEF WriteLimits, hostVars
<1>5. CASE SavePolicy(p)
  <2>1. \A q \in Procs : OldWrite(q)
    BY <1>5, OtherWrite, OtherFiles DEF SavePolicy
  <2>2. \A q \in Procs : OldInserting(q)
    BY <1>5 DEF SavePolicy, At, Goto, OldInserting, Inserting
  <2>. QED
    BY <1>5, <2>1, <2>2, IndexQuiet DEF SavePolicy, hostVars
<1>6. CASE InsertRecord(p)
  <2>. DEFINE d == Insert(Stored, rec[p])
  <2>1. Inserting(p) /\ rec[p] \in Records /\ Stored \in States /\ Loaded
    BY <1>6, Running, StoredIsState DEF InsertRecord, At, Inserting, HoldingPoints
  <2>2. DocOK(d)
    BY <1>6, <2>1, InsertListed DEF IndexInv, InsertRecord, DocOK
  <2>3. \A q \in Procs : OldInserting(q) /\ ~ Inserting(p)'
    BY <1>6 DEF InsertRecord, At, Goto, OldInserting, Inserting
  <2>4. \A q \in Procs : Inserting(q)' => rec[q].id \notin IdsIn(d)
    BY <2>1, <2>3, InsertListed DEF IndexInv, OldInserting
  <2>. QED
    BY <1>6, <2>2, <2>3, <2>4, IndexWrite DEF InsertRecord, hostVars
<1>7. CASE ReportCreated(p) \/ AlreadyExists(p)
  BY <1>7, EndIndex DEF ReportCreated, AlreadyExists, hostVars
<1>8. CASE Run(p)
  <2>1. \A q \in Procs : OldWrite(q) /\ OldInserting(q)
    BY <1>8 DEF Run, Goto, OldWrite, OldInserting, WritingIndex, Inserting
  <2>2. ~ Inserting(p)'
    BY <1>8 DEF Run, Goto, Inserting
  <2>3. file' = file /\ fresh' \in {fresh, fresh + 1}
    BY <1>8 DEF Run
  <2>. QED
    BY <2>1, <2>2, <2>3, IndexNewId, IndexQuiet
<1>. QED
  BY <1>1, <1>2, <1>3, <1>4, <1>5, <1>6, <1>7, <1>8 DEF CreateStep

\* The end of a run leaves the index.
LEMMA RunEndsIndex ==
    ASSUME Inv
    PROVE  /\ \A p \in Procs : RunEnds(p) => IndexInv'
           /\ \A n \in Names : OrphanEnds(n) => IndexInv'
<1>1. ASSUME NEW p \in Procs, RunEnds(p) PROVE IndexInv'
  BY <1>1, EndIndex DEF RunEnds
<1>2. ASSUME NEW n \in Names, OrphanEnds(n) PROVE IndexInv'
  BY <1>2, IndexQuiet DEF OrphanEnds, OldWrite, OldInserting, WritingIndex, Inserting,
     Inv, TypeInv, TypeOK
<1>. QED
  BY <1>1, <1>2

\* The three commands that rewrite what they loaded without adding a record.
LEMMA RewriteIndex ==
    ASSUME Inv, NEW p \in Procs, NEW d, fresh' = fresh, file' = file,
           Write(p, Index, d), Loaded,
           IdsIn(d) \subseteq IdsIn(Stored), UniqueRecords(d),
           \A q \in Procs : OldInserting(q)
    PROVE  IndexInv'
<1>1. DocOK(d)
  BY DEF Inv, IndexInv, DocOK
<1>2. \A q \in Procs : Inserting(q)' => rec[q].id \notin IdsIn(d)
  BY DEF Inv, IndexInv, OldInserting
<1>. QED
  BY <1>1, <1>2, IndexWrite

\* So do shell and exec, which write last_used only.
LEMMA LookUpIndex ==
    ASSUME Inv, NEW p \in Procs, LookUpStep(p)
    PROVE  IndexInv'
<1>. USE DEF Inv, TypeInv, TypeOK
<1>1. CASE PeekShell(p) \/ Get(p)
  <2>1. \A q \in Procs : OldWrite(q)
    BY <1>1 DEF PeekShell, Get, OldWrite, WritingIndex
  <2>2. \A q \in Procs : OldInserting(q)
    BY <1>1 DEF PeekShell, Get, At, Goto, NextAfterGet, OldInserting, Inserting
  <2>. QED
    BY <1>1, <2>1, <2>2, IndexQuiet DEF PeekShell, Get, hostVars
<1>2. CASE TouchLastUsed(p)
  <2>1. Stored \in States /\ rec[p].name \in Names
    BY <1>2, Running, StoredIsState DEF TouchLastUsed, At, HoldingPoints, Records
  <2>2. Touch(Stored, rec[p].name).sandboxes = Stored.sandboxes
    BY <2>1, TouchListed
  <2>3. \A q \in Procs : OldInserting(q)
    BY <1>2 DEF TouchLastUsed, At, Goto, OldInserting, Inserting
  <2>. QED
    BY <1>2, <2>2, <2>3, RewriteIndex
    DEF TouchLastUsed, hostVars, IndexInv, DocOK, IdsIn, UniqueRecords
<1>. QED
  BY <1>1, <1>2, ExitIndex DEF LookUpStep, NotFound, Show

\* So does policy set, which writes a hash only.
LEMMA SetIndex ==
    ASSUME Inv, NEW p \in Procs, SetStep(p)
    PROVE  IndexInv'
<1>. USE DEF Inv, TypeInv, TypeOK
<1>1. CASE SetPolicy(p)
  <2>1. \A q \in Procs : OldWrite(q)
    BY <1>1, OtherWrite, OtherFiles DEF SetPolicy
  <2>2. \A q \in Procs : OldInserting(q)
    BY <1>1 DEF SetPolicy, At, Goto, OldInserting, Inserting
  <2>. QED
    BY <1>1, <2>1, <2>2, IndexQuiet DEF SetPolicy, hostVars
<1>2. CASE UpdateRecord(p)
  <2>1. Stored \in States /\ rec[p].name \in Names /\ cmd[p].policy \in Policies
    BY <1>2, Running, StoredIsState
    DEF UpdateRecord, At, HoldingPoints, Records, Points, Complete
  <2>2. \A q \in Procs : OldInserting(q)
    BY <1>2 DEF UpdateRecord, At, Goto, OldInserting, Inserting
  <2>. QED
    BY <1>2, <2>1, <2>2, UpdateListed, RewriteIndex DEF UpdateRecord, hostVars, IndexInv, DocOK
<1>. QED
  BY <1>1, <1>2, ExitIndex DEF SetStep, RefusePolicy

\* Unlinking other files than the index.
LEMMA UnlinkIndex ==
    ASSUME Inv, NEW F, Unlink(F), Index \notin F
    PROVE  /\ file'[Index] = file[Index]
           /\ \A q \in Procs : OldWrite(q)
BY DEF Inv, TypeInv, TypeOK, Unlink, Files, OldWrite, WritingIndex

\* rm takes a record out.
LEMMA RmIndex ==
    ASSUME Inv, NEW p \in Procs, RmStep(p)
    PROVE  IndexInv'
<1>. USE DEF Inv, TypeInv, TypeOK
<1>1. CASE RemoveRecord(p)
  <2>1. Stored \in States
    BY <1>1, StoredIsState DEF RemoveRecord
  <2>2. \A q \in Procs : OldInserting(q)
    BY <1>1 DEF RemoveRecord, At, Goto, OldInserting, Inserting
  <2>. QED
    BY <1>1, <2>1, <2>2, RemoveListed, RewriteIndex DEF RemoveRecord, hostVars, IndexInv, DocOK
<1>2. CASE UnlinkPolicy(p)
  <2>1. \A q \in Procs : OldInserting(q)
    BY <1>2 DEF UnlinkPolicy, At, Goto, OldInserting, Inserting
  <2>. QED
    BY <1>2, <2>1, OtherFiles, UnlinkIndex, IndexQuiet DEF UnlinkPolicy
<1>3. CASE KillPodman(p)
  <2>1. \A q \in Procs : OldWrite(q) /\ OldInserting(q)
    BY <1>3 DEF KillPodman, At, Goto, OldInserting, Inserting, OldWrite, WritingIndex
  <2>. QED
    BY <1>3, <2>1, IndexQuiet DEF KillPodman
<1>4. CASE KillMac(p)
  <2>1. \A q \in Procs : OldInserting(q)
    BY <1>4 DEF KillMac, At, Goto, OldInserting, Inserting
  <2>. QED
    BY <1>4, <2>1, OtherFiles, UnlinkIndex, IndexQuiet DEF KillMac
<1>. QED
  BY <1>1, <1>2, <1>3, <1>4, ExitIndex DEF RmStep, KillFails

\* Store::open writes the default index.
LEMMA OpenIndex ==
    ASSUME Inv, NEW p \in Procs, OpenStore(p)
    PROVE  IndexInv'
<1>. USE DEF Inv, TypeInv, TypeOK
<1>1. \A q \in Procs : OldInserting(q)
  <2>1. cmd[p].op \in AllOps
    BY Running DEF OpenStore, At
  <2>. QED
    BY <2>1 DEF OpenStore, At, Goto, FirstPoint, AllOps, OldInserting, Inserting
<1>2. CASE file[Index] = Absent
  <2>1. DocOK(DefaultState) /\ IdsIn(DefaultState) = {}
    BY DefaultIsState DEF DocOK
  <2>. QED
    BY <1>1, <1>2, <2>1, IndexWrite DEF OpenStore, hostVars
<1>3. CASE file[Index] # Absent
  BY <1>1, <1>3, IndexQuiet DEF OpenStore, hostVars, OldWrite, WritingIndex
<1>. QED
  BY <1>2, <1>3

\* Inv is inductive.
LEMMA InvStep == Inv /\ [Next]_vars => Inv'
<1>. SUFFICES ASSUME Inv, [Next]_vars PROVE IndexInv'
  BY TypeInvStep DEF Inv
<1>1. CASE UNCHANGED vars
  BY <1>1, IndexQuiet DEF vars, OldWrite, OldInserting, WritingIndex, Inserting,
     Inv, TypeInv, TypeOK
<1>2. ASSUME NEW p \in Procs, Start(p) PROVE IndexInv'
  BY <1>2, IndexQuiet DEF Start, Goto, hostVars, OldWrite, OldInserting, WritingIndex, Inserting,
     Inv, TypeInv, TypeOK
<1>3. ASSUME NEW p \in Procs, Crash(p) PROVE IndexInv'
  <2>1. \A q \in Procs : OldInserting(q)
    BY <1>3 DEF Crash, OldInserting, Inserting, Inv, TypeInv, TypeOK
  <2>2. \A q \in Procs : OldWrite(q)
    BY <1>3 DEF Crash, OldWrite, WritingIndex, Inv, TypeInv, TypeOK
  <2>. QED
    BY <1>3, <2>1, <2>2, IndexQuiet DEF Crash, hostVars, Inv, TypeInv, TypeOK
<1>4. ASSUME NEW p \in Procs, Work(p) \/ Exec(p) PROVE IndexInv'
  BY <1>4, FileIndex, OpenIndex, CreateIndex, LookUpIndex, SetIndex, RmIndex, ExitIndex
  DEF Work, CannotLoad, Exec
<1>. QED
  BY <1>1, <1>2, <1>3, <1>4, RunEndsIndex DEF Next

\* Inv holds at first.
LEMMA InvInit == Init => Inv
<1>. SUFFICES ASSUME Init PROVE Inv
  OBVIOUS
<1>1. ~ Loaded /\ \A p \in Procs : ~ WritingIndex(p) /\ ~ Inserting(p)
  BY DEF Init, Loaded, Readable, Absent, WritingIndex, Inserting, Files
<1>. QED
  BY <1>1, TypeInvInit DEF Inv, IndexInv

\* However many invocations run at once and wherever they are killed, an index
\* that parses lists every name and every id at most once.
THEOREM IndexIsWellFormed == Spec => []IndexWellFormed
<1>1. Spec => []Inv
  BY InvInit, InvStep, PTL DEF Spec
<1>2. Inv => IndexWellFormed
  BY DEF Inv, IndexInv, DocOK, IndexWellFormed
<1>. QED
  BY <1>1, <1>2, PTL

-----------------------------------------------------------------------------
(* A bricked index stays bricked *)

\* An index that does not parse is not written by anybody, whatever the step.
LEMMA BrickedStep == TypeInv /\ [Next]_vars => (Bricked => Bricked')
<1>. SUFFICES ASSUME TypeInv, [Next]_vars, Bricked PROVE Bricked'
  OBVIOUS
<1>. USE DEF TypeInv, TypeOK
<1>1. ~ Loaded /\ file[Index] # Absent /\ Index \in Files
  BY DEF Bricked, Loaded, Readable, Empty, Garbled, Absent, Files
<1>2. ASSUME file'[Index] = file[Index],
             \A q \in Procs : WritingIndex(q)' => WritingIndex(q)
      PROVE  Bricked'
  BY <1>2 DEF Bricked
<1>3. CASE UNCHANGED vars
  BY <1>2, <1>3 DEF vars, WritingIndex
<1>4. ASSUME NEW p \in Procs, Exit(p) PROVE Bricked'
  BY <1>2, <1>4 DEF Exit, hostVars, WritingIndex
<1>5. ASSUME NEW p \in Procs, NEW f, NEW d, Write(p, f, d), f # Index, file' = file
      PROVE  Bricked'
  BY <1>2, <1>5 DEF Write, WritingIndex
<1>6. ASSUME NEW F, Unlink(F), Index \notin F PROVE Bricked'
  BY <1>1, <1>2, <1>6 DEF Unlink, WritingIndex
<1>7. ASSUME NEW p \in Procs, Truncate(p) \/ Fill(p) PROVE Bricked'
  <2>1. wr[p].file # Index
    BY <1>7 DEF Truncate, Fill, Bricked, WritingIndex
  <2>2. file'[Index] = file[Index]
    BY <1>1, <1>7, <2>1 DEF Truncate, Fill
  <2>3. \A q \in Procs : WritingIndex(q)' => WritingIndex(q)
    BY <1>7, <2>1 DEF Truncate, Fill, WritingIndex, WriteType
  <2>. QED
    BY <1>2, <2>2, <2>3
<1>8. ASSUME NEW p \in Procs, CreateStep(p) PROVE Bricked'
  BY <1>1, <1>2, <1>4, <1>5, <1>8, OtherFiles
  DEF CreateStep, Refuse, CreatePodman, ContainerNameInUse, CreateMac, WriteLimits, InstanceGone,
      SavePolicy, InsertRecord, AlreadyExists, ReportCreated, Run, hostVars, WritingIndex
<1>9. ASSUME NEW p \in Procs, LookUpStep(p) \/ SetStep(p) \/ OpenStore(p) PROVE Bricked'
  BY <1>1, <1>2, <1>4, <1>5, <1>9, OtherFiles
  DEF LookUpStep, PeekShell, Get, NotFound, TouchLastUsed, Show, SetStep, RefusePolicy, SetPolicy,
      UpdateRecord, OpenStore, hostVars, WritingIndex
<1>10. ASSUME NEW p \in Procs, RmStep(p) PROVE Bricked'
  BY <1>1, <1>2, <1>4, <1>6, <1>10, OtherFiles
  DEF RmStep, RemoveRecord, UnlinkPolicy, KillPodman, KillFails, KillMac, WritingIndex
<1>11. ASSUME NEW p \in Procs, Start(p) \/ Crash(p) PROVE Bricked'
  BY <1>2, <1>11 DEF Start, Crash, hostVars, WritingIndex
<1>12. ASSUME NEW p \in Procs, RunEnds(p) PROVE Bricked'
  BY <1>2, <1>12 DEF RunEnds, WritingIndex
<1>13. ASSUME NEW n \in Names, OrphanEnds(n) PROVE Bricked'
  BY <1>2, <1>13 DEF OrphanEnds, WritingIndex
<1>. QED
  BY <1>3, <1>4, <1>7, <1>8, <1>9, <1>10, <1>11, <1>12, <1>13 DEF Next, Work, CannotLoad, Exec

\* Once the index does not parse and nobody is writing it, no command of any
\* process ever makes it parse again.
THEOREM BrickedIsForGood == Spec => BrickedForGood
<1>1. Spec => []TypeInv
  BY TypeInvInit, TypeInvStep, PTL DEF Spec
<1>2. TypeInv /\ [Next]_vars => [Bricked => Bricked']_vars
  BY BrickedStep
<1>. QED
  BY <1>1, <1>2, PTL DEF Spec, BrickedForGood

-----------------------------------------------------------------------------
(* The containers behind the records *)

RecordsOf(st) == {st.sandboxes[i] : i \in DOMAIN st.sandboxes}

\* policy set changes the hash of a record and nothing else.
Same(r, s) ==
    /\ r.id = s.id /\ r.name = s.name /\ r.mechanism = s.mechanism
    /\ r.runtime_id = s.runtime_id

-----------------------------------------------------------------------------
(* Where the records of a new index come from *)

\* The records of an index are records.
LEMMA RecordsAreRecords ==
    ASSUME NEW st \in States
    PROVE  RecordsOf(st) \subseteq Records
BY StateFields DEF RecordsOf

\* The default index has none.
LEMMA DefaultRecords == RecordsOf(DefaultState) = {}
<1>1. DOMAIN <<>> = {}
  BY EmptySeq
<1>. QED
  BY <1>1 DEF RecordsOf, DefaultState

\* find answers with a record of the index.
LEMMA FindFrom ==
    ASSUME NEW st \in States, NEW key, Hits(st, key) # {}
    PROVE  Find(st, key) \in RecordsOf(st)
BY FindListed DEF RecordsOf

\* get_or_last does, if it answers.
LEMMA GetOrLastFrom ==
    ASSUME NEW st \in States, NEW key, GetOrLast(st, key) # None
    PROVE  GetOrLast(st, key) \in RecordsOf(st)
<1>1. \A k : Find(st, k) # None => Find(st, k) \in RecordsOf(st)
  BY FindFrom DEF Find
<1>2. st.sandboxes # <<>> => Last(st.sandboxes) \in RecordsOf(st)
  BY StateFields, EmptySeq DEF Last, RecordsOf
<1>. QED
  BY <1>1, <1>2 DEF GetOrLast

\* insert adds the record and keeps the others.
LEMMA InsertFrom ==
    ASSUME NEW st \in States, NEW r \in Records
    PROVE  RecordsOf(Insert(st, r)) = RecordsOf(st) \cup {r}
<1>. DEFINE s == st.sandboxes
            t == Append(s, r)
<1>1. /\ Len(s) \in Nat /\ DOMAIN s = 1 .. Len(s)
      /\ t \in Seq(Records) /\ Len(t) = Len(s) + 1
      /\ \A i \in 1 .. Len(s) : t[i] = s[i]
      /\ t[Len(s) + 1] = r
  BY StateFields, AppendProperties
<1>2. DOMAIN t = 1 .. Len(s) + 1
  BY <1>1, LenProperties
<1>3. Insert(st, r).sandboxes = t
  BY DEF Insert
<1>. HIDE DEF t
<1>4. RecordsOf(Insert(st, r)) \subseteq RecordsOf(st) \cup {r}
  BY <1>1, <1>2, <1>3 DEF RecordsOf
<1>5. RecordsOf(st) \subseteq RecordsOf(Insert(st, r))
  BY <1>1, <1>2, <1>3 DEF RecordsOf
<1>6. r \in RecordsOf(Insert(st, r))
  BY <1>1, <1>2, <1>3 DEF RecordsOf
<1>. QED
  BY <1>4, <1>5, <1>6

\* remove takes out the record find returns, and keeps every other.
LEMMA RemoveFrom ==
    ASSUME NEW st \in States, NEW key, Hits(st, key) # {}
    PROVE  /\ RecordsOf(RemoveKey(st, key)) \subseteq RecordsOf(st)
           /\ \A r \in RecordsOf(st) :
                r = Find(st, key) \/ r \in RecordsOf(RemoveKey(st, key))
<1>. DEFINE s == st.sandboxes
            at == Min(Hits(st, key))
            t == RemoveAt(s, at)
<1>1. at \in 1 .. Len(s) /\ Len(s) \in Nat /\ DOMAIN s = 1 .. Len(s) /\ Find(st, key) = s[at]
  BY FindListed, StateFields
<1>2. /\ t \in Seq(Records) /\ Len(t) = Len(s) - 1
      /\ \A i \in 1 .. Len(s) - 1 : t[i] = s[IF i < at THEN i ELSE i + 1]
  BY <1>1, StateFields, RemoveAtProperties
<1>3. DOMAIN t = 1 .. Len(s) - 1
  BY <1>2, LenProperties
<1>4. RemoveKey(st, key).sandboxes = t
  BY DEF RemoveKey
<1>. HIDE DEF t, at
<1>5. ASSUME NEW r \in RecordsOf(RemoveKey(st, key))
      PROVE  r \in RecordsOf(st)
  <2>1. PICK i \in 1 .. Len(s) - 1 : r = t[i]
    BY <1>3, <1>4, <1>5 DEF RecordsOf
  <2>2. (IF i < at THEN i ELSE i + 1) \in 1 .. Len(s)
    BY <1>1
  <2>. QED
    BY <1>1, <1>2, <2>1, <2>2 DEF RecordsOf
<1>6. ASSUME NEW r \in RecordsOf(st), r # Find(st, key)
      PROVE  r \in RecordsOf(RemoveKey(st, key))
  <2>1. PICK j \in 1 .. Len(s) : r = s[j]
    BY <1>1 DEF RecordsOf
  <2>2. j # at
    BY <1>1, <1>6, <2>1
  <2>. DEFINE i == IF j < at THEN j ELSE j - 1
  <2>3. i \in 1 .. Len(s) - 1 /\ (IF i < at THEN i ELSE i + 1) = j
    BY <1>1, <2>2
  <2>. HIDE DEF i
  <2>4. t[i] = r
    BY <1>2, <2>1, <2>3
  <2>. QED
    BY <1>3, <1>4, <2>3, <2>4 DEF RecordsOf
<1>. QED
  BY <1>5, <1>6

\* update_policy leaves every record what it was, but for its hash.
LEMMA UpdateFrom ==
    ASSUME NEW st \in States, NEW name \in Names, HasName(st, name), NEW q \in Policies
    PROVE  /\ \A r \in RecordsOf(UpdatePolicy(st, name, q)) : \E s \in RecordsOf(st) : Same(r, s)
           /\ \A s \in RecordsOf(st) : \E r \in RecordsOf(UpdatePolicy(st, name, q)) : Same(r, s)
<1>. DEFINE s == st.sandboxes
            at == Min({i \in DOMAIN s : s[i].name = name})
            t == [s EXCEPT ![at].policy_hash = Hash(q)]
<1>1. DOMAIN s = 1 .. Len(s) /\ \A i \in DOMAIN s : s[i] \in Records
  BY StateFields
<1>2. UpdatePolicy(st, name, q).sandboxes = t
  BY DEF UpdatePolicy
<1>. HIDE DEF at
<1>3. DOMAIN t = DOMAIN s /\ \A i \in DOMAIN s : Same(t[i], s[i])
  BY <1>1 DEF Records, Same
<1>. HIDE DEF t
<1>. QED
  BY <1>2, <1>3 DEF RecordsOf

-----------------------------------------------------------------------------
(* The invariant *)

\* The runtime of a record is the persistent container of its name, or the
\* seatbelt instance of its name; no other container has its id.
Tied(r) ==
    /\ r.mechanism = "mac" => r.runtime_id = r.name
    /\ r.mechanism = "podman" =>
        /\ r.runtime_id \in Nat /\ r.runtime_id < fresh
        /\ \A n \in Names : container[n] # None /\ container[n].cid = r.runtime_id
                            => r.name = n /\ ~ container[n].ephemeral

\* The records that the index, a write of it or a process can bring into play.
Known ==
    UNION {IF Loaded THEN RecordsOf(Stored) ELSE {},
           UNION {RecordsOf(wr[q].data) : q \in {x \in Procs : WritingIndex(x)}},
           {rec[q] : q \in {x \in Procs : pc[x] \in HoldingPoints}}}

RunsIn(p, n) == pc[p] = "running" /\ cmd[p].mech = "podman" /\ cmd[p].key = n

\* Ids are fresh, and a run has its container to itself.
RunInv ==
    /\ \A n \in Names : container[n] # None => container[n].cid < fresh
    /\ \A p \in Procs, n \in Names :
        RunsIn(p, n) => container[n] # None /\ container[n].ephemeral
    /\ \A p, q \in Procs, n \in Names : RunsIn(p, n) /\ RunsIn(q, n) => p = q

\* What rm is about to destroy answers to its argument.
AskedFor(p) == pc[p] \in {"unlink", "kill"} => Answers(rec[p], cmd[p].key)

RuntimeInv ==
    /\ TypeInv /\ RunInv
    /\ \A r \in Known : Tied(r)
    /\ \A p \in Procs : AskedFor(p)

\* A step ends containers or starts one with a new id.
ContainersKept ==
    /\ fresh' \in Nat /\ fresh <= fresh'
    /\ \A n \in Names : \/ container'[n] \in {None, container[n]}
                        \/ container'[n].cid = fresh /\ fresh < fresh'

\* Then a record stays tied, also when its hash changes.
LEMMA TiedKept ==
    ASSUME TypeInv, ContainersKept, NEW r, NEW s, Tied(s), Same(r, s)
    PROVE  Tied(r)'
<1>1. fresh \in Nat /\ fresh' \in Nat /\ fresh <= fresh'
  BY DEF TypeInv, TypeOK, ContainersKept
<1>2. ASSUME NEW n \in Names, s.mechanism = "podman",
             container'[n] # None, container'[n].cid = s.runtime_id
      PROVE  s.name = n /\ ~ container'[n].ephemeral
  <2>1. container'[n].cid # fresh
    BY <1>1, <1>2 DEF Tied
  <2>2. container'[n] = container[n]
    BY <1>2, <2>1 DEF ContainersKept
  <2>. QED
    BY <1>2, <2>2 DEF Tied
<1>. QED
  BY <1>1, <1>2 DEF Tied, Same

-----------------------------------------------------------------------------
(* The steps that change a container *)

\* Every other step leaves the containers alone and puts no process at running.
LEMMA RunFrame ==
    ASSUME TypeInv, RunInv, ContainersKept,
           \A q \in Procs, n \in Names : RunsIn(q, n)' => RunsIn(q, n) /\ container'[n] = container[n]
    PROVE  RunInv'
<1>1. ASSUME NEW n \in Names, container'[n] # None
      PROVE  container'[n].cid < fresh'
  BY <1>1 DEF RunInv, ContainersKept, TypeInv, TypeOK, Containers
<1>. QED
  BY <1>1 DEF RunInv

\* A step that leaves the containers, and starts no run.
LEMMA ContainersUnchanged ==
    ASSUME TypeInv, RunInv, UNCHANGED container, fresh' \in {fresh, fresh + 1},
           \A q \in Procs, n \in Names : RunsIn(q, n)' => RunsIn(q, n)
    PROVE  ContainersKept /\ RunInv'
<1>1. ContainersKept
  BY DEF ContainersKept, TypeInv, TypeOK
<1>. QED
  BY <1>1, RunFrame

\* A create makes a container with an id of its own.
LEMMA CreateContainer ==
    ASSUME TypeInv, RunInv, NEW p \in Procs, CreatePodman(p)
    PROVE  ContainersKept /\ RunInv'
<1>. USE DEF TypeInv, TypeOK
<1>1. cmd[p].op = "create" /\ cmd[p].key \in Names
  BY Running DEF CreatePodman, At, Points, Complete
<1>2. ContainersKept
  BY <1>1 DEF CreatePodman, ContainersKept
<1>3. ASSUME NEW q \in Procs, NEW n \in Names, RunsIn(q, n)'
      PROVE  RunsIn(q, n) /\ container'[n] = container[n]
  <2>1. RunsIn(q, n)
    BY <1>3 DEF CreatePodman, Goto, RunsIn
  <2>. QED
    BY <1>1, <2>1 DEF CreatePodman, RunInv
<1>. QED
  BY <1>2, <1>3, RunFrame

\* So does a run, and its container is ephemeral.
LEMMA RunContainer ==
    ASSUME TypeInv, RunInv, NEW p \in Procs, Run(p)
    PROVE  ContainersKept /\ RunInv'
<1>. USE DEF TypeInv, TypeOK
<1>1. cmd[p].op = "run" /\ cmd[p].key \in Names
  BY Running DEF Run, At, Points, Complete
<1>2. ContainersKept
  BY <1>1 DEF Run, ContainersKept
<1>3. pc'[p] = "running" /\ pc[p] = "run" /\ cmd' = cmd /\ \A q \in Procs : q # p => pc'[q] = pc[q]
  BY DEF Run, At, Goto
<1>4. CASE cmd[p].mech # "podman"
  <2>1. \A q \in Procs, n \in Names : RunsIn(q, n)' => RunsIn(q, n)
    BY <1>3, <1>4 DEF RunsIn
  <2>2. container' = container /\ fresh' = fresh
    BY <1>4 DEF Run
  <2>. QED
    BY <2>1, <2>2, ContainersUnchanged
<1>5. CASE cmd[p].mech = "podman"
  <2>. DEFINE k == cmd[p].key
  <2>1. /\ container[k] = None /\ fresh' = fresh + 1
        /\ container'[k] = [cid |-> fresh, policy |-> cmd[p].policy, ephemeral |-> TRUE]
        /\ \A n \in Names : n # k => container'[n] = container[n]
    BY <1>1, <1>5 DEF Run
  <2>2. container'[k] # None /\ container'[k].ephemeral
    <3>1. [cid |-> fresh, policy |-> cmd[p].policy, ephemeral |-> TRUE] \in Containers
      BY <1>1, Running DEF Containers, Complete, Run, At
    <3>2. container'[k] # None
      BY <2>1, <3>1, NoneAssumption
    <3>3. container'[k].ephemeral
      BY <2>1
    <3>. QED
      BY <3>2, <3>3
  <2>3. \A q \in Procs : ~ RunsIn(q, k)
    BY <1>1, <2>1 DEF RunInv
  <2>4. ASSUME NEW q \in Procs, NEW n \in Names, RunsIn(q, n)'
        PROVE  \/ q = p /\ n = k
               \/ q # p /\ n # k /\ RunsIn(q, n) /\ container'[n] = container[n]
    BY <1>3, <2>1, <2>3, <2>4 DEF RunsIn
  <2>5. ASSUME NEW n \in Names, container'[n] # None
        PROVE  container'[n].cid < fresh'
    BY <2>1, <2>5 DEF RunInv, Containers
  <2>6. \A q \in Procs, n \in Names : RunsIn(q, n)' => container'[n] # None /\ container'[n].ephemeral
    BY <2>2, <2>4 DEF RunInv
  <2>7. \A q, o \in Procs, n \in Names : RunsIn(q, n)' /\ RunsIn(o, n)' => q = o
    BY <2>4 DEF RunInv
  <2>. QED
    BY <1>2, <2>5, <2>6, <2>7 DEF RunInv
<1>. QED
  BY <1>4, <1>5

\* A run takes its own container with it, and no other.
LEMMA EndContainer ==
    ASSUME TypeInv, RunInv, NEW p \in Procs, RunEnds(p)
    PROVE  ContainersKept /\ RunInv'
<1>. USE DEF TypeInv, TypeOK
<1>1. cmd[p].op = "run" /\ cmd[p].key \in Names /\ pc[p] = "running"
  BY Running DEF RunEnds, At, Points, Complete
<1>2. ContainersKept
  BY <1>1 DEF RunEnds, ContainersKept
<1>3. ASSUME NEW q \in Procs, NEW n \in Names, RunsIn(q, n)'
      PROVE  RunsIn(q, n) /\ container'[n] = container[n]
  <2>1. q # p /\ RunsIn(q, n)
    BY <1>3 DEF RunEnds, RunsIn
  <2>2. cmd[p].mech = "podman" => n # cmd[p].key
    BY <1>1, <2>1 DEF RunInv, RunsIn
  <2>. QED
    BY <1>1, <2>1, <2>2 DEF RunEnds
<1>. QED
  BY <1>2, <1>3, RunFrame

\* A run whose ssbx was killed ends its own container.
LEMMA OrphanContainer ==
    ASSUME TypeInv, RunInv, NEW n \in Names, OrphanEnds(n)
    PROVE  ContainersKept /\ RunInv'
<1>. USE DEF TypeInv, TypeOK
<1>1. ContainersKept
  BY DEF OrphanEnds, ContainersKept
<1>2. ASSUME NEW q \in Procs, NEW m \in Names, RunsIn(q, m)'
      PROVE  RunsIn(q, m) /\ container'[m] = container[m]
  <2>1. RunsIn(q, m) /\ m # n
    BY <1>2 DEF OrphanEnds, RunsIn
  <2>. QED
    BY <2>1 DEF OrphanEnds
<1>. QED
  BY <1>1, <1>2, RunFrame

\* rm destroys no container of a run: the record is tied to another.
LEMMA KillContainer ==
    ASSUME TypeInv, RunInv, NEW p \in Procs, KillPodman(p), Tied(rec[p])
    PROVE  ContainersKept /\ RunInv'
<1>. USE DEF TypeInv, TypeOK
<1>1. ContainersKept
  BY DEF KillPodman, ContainersKept
<1>2. ASSUME NEW q \in Procs, NEW n \in Names, RunsIn(q, n)'
      PROVE  RunsIn(q, n) /\ container'[n] = container[n]
  <2>1. RunsIn(q, n)
    BY <1>2 DEF KillPodman, Goto, RunsIn
  <2>2. container[n] # None /\ container[n].ephemeral
    BY <2>1 DEF RunInv
  <2>3. container[n].cid # rec[p].runtime_id
    BY <2>2 DEF KillPodman, Tied
  <2>. QED
    BY <2>1, <2>3 DEF KillPodman
<1>. QED
  BY <1>1, <1>2, RunFrame

\* Whatever the step, ids stay fresh, and a run alone in its container.
LEMMA ContainerStep ==
    ASSUME RuntimeInv, [Next]_vars
    PROVE  ContainersKept /\ RunInv'
<1>. USE DEF RuntimeInv
<1>0. ASSUME UNCHANGED container, fresh' \in {fresh, fresh + 1},
             \A q \in Procs : pc'[q] = "running" => pc[q] = "running" /\ cmd'[q] = cmd[q]
      PROVE  ContainersKept /\ RunInv'
  <2>1. \A q \in Procs, n \in Names : RunsIn(q, n)' => RunsIn(q, n)
    BY <1>0 DEF RunsIn
  <2>. QED
    BY <1>0, <2>1, ContainersUnchanged
<1>. USE DEF TypeInv, TypeOK
<1>1. CASE UNCHANGED vars
  BY <1>0, <1>1 DEF vars
<1>2. ASSUME NEW p \in Procs, Exit(p) PROVE ContainersKept /\ RunInv'
  BY <1>0, <1>2 DEF Exit, hostVars
<1>3. ASSUME NEW p \in Procs, Start(p) \/ Crash(p) PROVE ContainersKept /\ RunInv'
  BY <1>0, <1>3 DEF Start, Goto, Crash, hostVars
<1>4. ASSUME NEW p \in Procs, Truncate(p) \/ Fill(p) PROVE ContainersKept /\ RunInv'
  BY <1>0, <1>4 DEF Truncate, Fill
<1>5. ASSUME NEW p \in Procs, OpenStore(p) PROVE ContainersKept /\ RunInv'
  <2>1. FirstPoint(cmd[p].op) # "running"
    BY DEF FirstPoint
  <2>. QED
    BY <1>0, <1>5, <2>1 DEF OpenStore, Goto, hostVars
<1>6. ASSUME NEW p \in Procs, CreateStep(p) PROVE ContainersKept /\ RunInv'
  <2>1. CASE CreatePodman(p) \/ Run(p)
    BY <2>1, CreateContainer, RunContainer
  <2>2. CASE CreateMac(p) \/ WriteLimits(p) \/ SavePolicy(p) \/ InsertRecord(p)
    BY <1>0, <2>2 DEF CreateMac, WriteLimits, SavePolicy, InsertRecord, Goto, hostVars
  <2>3. CASE AlreadyExists(p) \/ ReportCreated(p)
    BY <1>0, <2>3 DEF AlreadyExists, ReportCreated, hostVars
  <2>. QED
    BY <1>2, <1>6, <2>1, <2>2, <2>3 DEF CreateStep, Refuse, ContainerNameInUse, InstanceGone
<1>7. ASSUME NEW p \in Procs, LookUpStep(p) PROVE ContainersKept /\ RunInv'
  <2>1. NextAfterGet(cmd[p].op) # "running"
    BY DEF NextAfterGet
  <2>2. CASE PeekShell(p)
    BY <1>0, <2>2 DEF PeekShell, Goto, hostVars
  <2>3. CASE Get(p) \/ TouchLastUsed(p)
    BY <1>0, <2>1, <2>3 DEF Get, TouchLastUsed, Goto, hostVars
  <2>. QED
    BY <1>2, <1>7, <2>2, <2>3 DEF LookUpStep, NotFound, Show
<1>8. ASSUME NEW p \in Procs, SetStep(p) PROVE ContainersKept /\ RunInv'
  BY <1>0, <1>2, <1>8 DEF SetStep, RefusePolicy, SetPolicy, UpdateRecord, Goto, hostVars
<1>9. ASSUME NEW p \in Procs, RmStep(p) PROVE ContainersKept /\ RunInv'
  <2>1. CASE KillPodman(p)
    <3>1. rec[p] \in Known
      BY <2>1 DEF KillPodman, At, Known, HoldingPoints
    <3>. QED
      BY <2>1, <3>1, KillContainer
  <2>2. CASE RemoveRecord(p) \/ UnlinkPolicy(p) \/ KillMac(p)
    BY <1>0, <2>2 DEF RemoveRecord, UnlinkPolicy, KillMac, Goto, hostVars
  <2>. QED
    BY <1>2, <1>9, <2>1, <2>2 DEF RmStep, KillFails
<1>. QED
  BY <1>1, <1>2, <1>3, <1>4, <1>5, <1>6, <1>7, <1>8, <1>9, EndContainer, OrphanContainer
  DEF Next, Work, CannotLoad, Exec

-----------------------------------------------------------------------------
(* The steps that hand records on *)

Old(r) == \E s \in Known : Same(r, s)

OldHolding(q) == pc'[q] \in HoldingPoints => pc[q] \in HoldingPoints /\ rec'[q] = rec[q]

\* A step brings records into play by a write of the index, or by a process
\* that comes to hold one.
LEMMA KnownFrame ==
    ASSUME OldDocument,
           \A q \in Procs : WritingIndex(q)' =>
                OldWrite(q) \/ \A r \in RecordsOf(wr'[q].data) : Old(r),
           \A q \in Procs : pc'[q] \in HoldingPoints =>
                OldHolding(q) \/ Old(rec'[q]) \/ Tied(rec[q])'
    PROVE  \A r \in Known' : Old(r) \/ Tied(r)'
<1>1. \A r \in Known : Old(r)
  BY DEF Old, Same
<1>2. ASSUME Loaded', NEW r \in RecordsOf(Stored)'
      PROVE  Old(r)
  BY <1>1, <1>2 DEF OldDocument, Known, RecordsOf
<1>3. ASSUME NEW q \in Procs, WritingIndex(q)', NEW r \in RecordsOf(wr'[q].data)
      PROVE  Old(r)
  <2>1. CASE OldWrite(q)
    BY <1>1, <1>3, <2>1 DEF OldWrite, Known
  <2>. QED
    BY <1>3, <2>1
<1>4. ASSUME NEW q \in Procs, pc'[q] \in HoldingPoints
      PROVE  Old(rec'[q]) \/ Tied(rec[q])'
  <2>1. CASE OldHolding(q)
    BY <1>1, <1>4, <2>1 DEF OldHolding, Known
  <2>. QED
    BY <1>4, <2>1
<1>. QED
  BY <1>2, <1>3, <1>4 DEF Known, RecordsOf

\* A file that is not written holds the document it held.
LEMMA SameFile ==
    ASSUME file' = file
    PROVE  OldDocument
BY DEF OldDocument, Loaded, Stored

\* A write of the index from records in play.
LEMMA KnownWrite ==
    ASSUME TypeInv, NEW p \in Procs, NEW d, Write(p, Index, d), file' = file,
           \A r \in RecordsOf(d) : Old(r),
           \A q \in Procs : pc'[q] \in HoldingPoints => OldHolding(q) \/ Old(rec'[q])
    PROVE  \A r \in Known' : Old(r) \/ Tied(r)'
<1>1. ASSUME NEW q \in Procs, WritingIndex(q)'
      PROVE  OldWrite(q) \/ \A r \in RecordsOf(wr'[q].data) : Old(r)
  BY DEF TypeInv, TypeOK, Write, OldWrite, WritingIndex
<1>. QED
  BY <1>1, SameFile, KnownFrame

\* What the index lists is known.
LEMMA KnownStored ==
    ASSUME TypeInv, Loaded
    PROVE  Stored \in States /\ RecordsOf(Stored) \subseteq Known
BY StoredIsState DEF TypeInv, Known

\* A step that only ends, or holds no new record and writes no index.
LEMMA KnownQuiet ==
    ASSUME OldDocument, \A q \in Procs : OldWrite(q) /\ OldHolding(q)
    PROVE  \A r \in Known' : Old(r) \/ Tied(r)'
BY KnownFrame

\* The end of an invocation makes nothing known.
LEMMA KnownExit ==
    ASSUME TypeInv, NEW p \in Procs, pc' = [pc EXCEPT ![p] = "idle"],
           rec' = [rec EXCEPT ![p] = None], UNCHANGED <<file, wr>>
    PROVE  \A r \in Known' : Old(r) \/ Tied(r)'
<1>1. \A q \in Procs : OldWrite(q) /\ OldHolding(q)
  BY DEF TypeInv, TypeOK, OldWrite, OldHolding, WritingIndex, HoldingPoints
<1>. QED
  BY <1>1, SameFile, KnownQuiet

\* A write makes nothing known that was not.
LEMMA KnownFiles ==
    ASSUME TypeInv, NEW p \in Procs, Truncate(p) \/ Fill(p)
    PROVE  \A r \in Known' : Old(r) \/ Tied(r)'
<1>. USE DEF TypeInv, TypeOK
<1>0. Index \in Files
  BY DEF Files
<1>1. CASE Truncate(p)
  <2>1. \A q \in Procs : OldWrite(q) /\ OldHolding(q)
    BY <1>1 DEF Truncate, OldWrite, OldHolding, WritingIndex, WriteType
  <2>2. OldDocument
    BY <1>0, <1>1 DEF Truncate, OldDocument, Loaded, Stored, Readable, Empty
  <2>. QED
    BY <2>1, <2>2, KnownQuiet
<1>2. CASE Fill(p)
  <2>1. \A q \in Procs : OldWrite(q) /\ OldHolding(q)
    BY <1>2 DEF Fill, OldWrite, OldHolding, WritingIndex
  <2>2. PICK c : /\ c \in {Holds(wr[p].data), Garbled}
                 /\ file' = [file EXCEPT ![wr[p].file] = c]
    BY <1>2 DEF Fill, Overwrite
  <2>3. OldDocument
    BY <1>0, <1>2, <2>2
    DEF Fill, OldDocument, WritingIndex, Loaded, Stored, Readable, Garbled, Holds
  <2>. QED
    BY <2>1, <2>3, KnownQuiet
<1>. QED
  BY <1>1, <1>2

\* Store::open makes nothing known.
LEMMA KnownOpen ==
    ASSUME TypeInv, NEW p \in Procs, OpenStore(p)
    PROVE  \A r \in Known' : Old(r) \/ Tied(r)'
<1>. USE DEF TypeInv, TypeOK
<1>1. \A q \in Procs : OldHolding(q)
  <2>1. cmd[p].op \in AllOps
    BY Running DEF OpenStore, At
  <2>. QED
    BY <2>1 DEF OpenStore, At, Goto, FirstPoint, AllOps, OldHolding, HoldingPoints
<1>2. file' = file
  BY DEF OpenStore, hostVars
<1>3. CASE file[Index] = Absent
  BY <1>1, <1>2, <1>3, DefaultRecords, KnownWrite DEF OpenStore
<1>4. CASE file[Index] # Absent
  <2>1. \A q \in Procs : OldWrite(q)
    BY <1>4 DEF OpenStore, OldWrite, WritingIndex
  <2>. QED
    BY <1>1, <1>2, <2>1, SameFile, KnownQuiet
<1>. QED
  BY <1>3, <1>4

\* create makes the one new kind of record, tied to the runtime just made.
LEMMA KnownNew ==
    ASSUME RuntimeInv, NEW p \in Procs, CreatePodman(p) \/ WriteLimits(p)
    PROVE  Tied(rec[p])'
<1>. USE DEF RuntimeInv, TypeInv, TypeOK
<1>1. cmd[p].op = "create" /\ cmd[p].key \in Names
  BY Running DEF CreatePodman, WriteLimits, At, Points, Complete
<1>2. CASE CreatePodman(p)
  <2>1. /\ rec'[p].mechanism = "podman" /\ rec'[p].name = cmd[p].key
        /\ rec'[p].runtime_id = fresh /\ fresh' = fresh + 1
    BY <1>2 DEF CreatePodman, NewRecord
  <2>2. ASSUME NEW n \in Names, container'[n] # None, container'[n].cid = fresh
        PROVE  n = cmd[p].key /\ ~ container'[n].ephemeral
    <3>1. n = cmd[p].key
      BY <1>1, <1>2, <2>2 DEF CreatePodman, RunInv, Containers
    <3>2. container'[n] = [cid |-> fresh, policy |-> cmd[p].policy, ephemeral |-> FALSE]
      BY <1>1, <1>2, <3>1 DEF CreatePodman
    <3>. QED
      BY <3>1, <3>2
  <2>. QED
    BY <2>1, <2>2 DEF Tied
<1>3. CASE WriteLimits(p)
  <2>1. cmd[p].mech = "mac"
    BY <1>3, Running DEF WriteLimits, At
  <2>2. rec'[p].mechanism = "mac" /\ rec'[p].runtime_id = rec'[p].name
    BY <1>3, <2>1 DEF WriteLimits, NewRecord
  <2>. QED
    BY <2>2 DEF Tied
<1>. QED
  BY <1>2, <1>3

\* A create makes known the record of the container it made, and no other.
LEMMA KnownCreate ==
    ASSUME RuntimeInv, NEW p \in Procs, CreateStep(p)
    PROVE  \A r \in Known' : Old(r) \/ Tied(r)'
<1>. USE DEF RuntimeInv, TypeInv, TypeOK
<1>1. CASE Refuse(p) \/ ContainerNameInUse(p) \/ InstanceGone(p) \/ AlreadyExists(p) \/ ReportCreated(p)
  BY <1>1, KnownExit
  DEF Refuse, ContainerNameInUse, InstanceGone, AlreadyExists, ReportCreated, Exit, hostVars
<1>2. CASE CreatePodman(p)
  <2>1. Tied(rec[p])'
    BY <1>2, KnownNew
  <2>2. \A q \in Procs : OldWrite(q) /\ (q # p => OldHolding(q))
    BY <1>2 DEF CreatePodman, NewRecord, Goto, OldWrite, OldHolding, WritingIndex
  <2>. QED
    BY <1>2, <2>1, <2>2, SameFile, KnownFrame DEF CreatePodman
<1>3. CASE WriteLimits(p)
  <2>1. Tied(rec[p])'
    BY <1>3, KnownNew
  <2>2. \A q \in Procs : OldWrite(q)
    BY <1>3, OtherFiles DEF WriteLimits, Write, OldWrite, WritingIndex
  <2>3. \A q \in Procs : q # p => OldHolding(q)
    BY <1>3 DEF WriteLimits, NewRecord, Goto, OldHolding
  <2>. QED
    BY <1>3, <2>1, <2>2, <2>3, SameFile, KnownFrame DEF WriteLimits, hostVars
<1>4. CASE CreateMac(p) \/ SavePolicy(p)
  <2>1. \A q \in Procs : OldWrite(q)
    BY <1>4, OtherFiles DEF CreateMac, SavePolicy, Write, OldWrite, WritingIndex
  <2>2. \A q \in Procs : OldHolding(q)
    BY <1>4 DEF CreateMac, SavePolicy, At, Goto, OldHolding, HoldingPoints
  <2>. QED
    BY <1>4, <2>1, <2>2, SameFile, KnownQuiet DEF CreateMac, SavePolicy, hostVars
<1>5. CASE InsertRecord(p)
  <2>1. rec[p] \in Records /\ rec[p] \in Known
    BY <1>5, Running DEF InsertRecord, At, HoldingPoints, Known
  <2>2. \A r \in RecordsOf(Insert(Stored, rec[p])) : Old(r)
    BY <1>5, <2>1, KnownStored, InsertFrom DEF InsertRecord, Old, Same
  <2>3. \A q \in Procs : OldHolding(q)
    BY <1>5 DEF InsertRecord, At, Goto, OldHolding, HoldingPoints
  <2>. QED
    BY <1>5, <2>2, <2>3, KnownWrite DEF InsertRecord, hostVars
<1>6. CASE Run(p)
  <2>1. \A q \in Procs : OldWrite(q) /\ OldHolding(q)
    BY <1>6 DEF Run, Goto, OldWrite, OldHolding, WritingIndex, HoldingPoints
  <2>. QED
    BY <1>6, <2>1, SameFile, KnownQuiet DEF Run
<1>. QED
  BY <1>1, <1>2, <1>3, <1>4, <1>5, <1>6 DEF CreateStep

\* shell and exec have a record of the index.
LEMMA KnownLookUp ==
    ASSUME TypeInv, NEW p \in Procs, LookUpStep(p)
    PROVE  \A r \in Known' : Old(r) \/ Tied(r)'
<1>. USE DEF TypeInv, TypeOK
<1>1. CASE PeekShell(p)
  <2>1. \A q \in Procs : OldWrite(q) /\ OldHolding(q)
    BY <1>1 DEF PeekShell, Goto, OldWrite, OldHolding, WritingIndex, HoldingPoints
  <2>. QED
    BY <1>1, <2>1, SameFile, KnownQuiet DEF PeekShell, hostVars
<1>2. CASE Get(p)
  <2>1. Old(rec'[p])
    BY <1>2, KnownStored, GetOrLastFrom DEF Get, Old, Same
  <2>2. \A q \in Procs : OldWrite(q) /\ (q # p => OldHolding(q))
    BY <1>2 DEF Get, Goto, OldWrite, OldHolding, WritingIndex
  <2>. QED
    BY <1>2, <2>1, <2>2, SameFile, KnownFrame DEF Get, hostVars
<1>3. CASE TouchLastUsed(p)
  <2>1. rec[p].name \in Names
    BY <1>3, Running DEF TouchLastUsed, At, HoldingPoints, Records
  <2>2. RecordsOf(Touch(Stored, rec[p].name)) = RecordsOf(Stored)
    BY <1>3, <2>1, KnownStored, TouchListed DEF TouchLastUsed, RecordsOf
  <2>3. \A q \in Procs : OldHolding(q)
    BY <1>3 DEF TouchLastUsed, At, Goto, OldHolding, HoldingPoints
  <2>4. \A r \in RecordsOf(Touch(Stored, rec[p].name)) : Old(r)
    BY <1>3, <2>2, KnownStored DEF TouchLastUsed, Old, Same
  <2>. QED
    BY <1>3, <2>3, <2>4, KnownWrite DEF TouchLastUsed, hostVars
<1>. QED
  BY <1>1, <1>2, <1>3, KnownExit DEF LookUpStep, NotFound, Show, Exit, hostVars

\* policy set changes a hash, not an id.
LEMMA KnownSet ==
    ASSUME TypeInv, NEW p \in Procs, SetStep(p)
    PROVE  \A r \in Known' : Old(r) \/ Tied(r)'
<1>. USE DEF TypeInv, TypeOK
<1>1. CASE SetPolicy(p)
  <2>1. \A q \in Procs : OldWrite(q)
    BY <1>1, OtherFiles DEF SetPolicy, Write, OldWrite, WritingIndex
  <2>2. \A q \in Procs : OldHolding(q)
    BY <1>1 DEF SetPolicy, At, Goto, OldHolding, HoldingPoints
  <2>. QED
    BY <1>1, <2>1, <2>2, SameFile, KnownQuiet DEF SetPolicy, hostVars
<1>2. CASE UpdateRecord(p)
  <2>1. rec[p].name \in Names /\ cmd[p].policy \in Policies
    BY <1>2, Running DEF UpdateRecord, At, HoldingPoints, Records, Points, Complete
  <2>2. \A r \in RecordsOf(UpdatePolicy(Stored, rec[p].name, cmd[p].policy)) : Old(r)
    BY <1>2, <2>1, KnownStored, UpdateFrom DEF UpdateRecord, Old
  <2>3. \A q \in Procs : OldHolding(q)
    BY <1>2 DEF UpdateRecord, At, Goto, OldHolding, HoldingPoints
  <2>. QED
    BY <1>2, <2>2, <2>3, KnownWrite DEF UpdateRecord, hostVars
<1>. QED
  BY <1>1, <1>2, KnownExit DEF SetStep, RefusePolicy, Exit, hostVars

\* rm has a record of the index.
LEMMA KnownRm ==
    ASSUME TypeInv, NEW p \in Procs, RmStep(p)
    PROVE  \A r \in Known' : Old(r) \/ Tied(r)'
<1>. USE DEF TypeInv, TypeOK
<1>1. CASE RemoveRecord(p)
  <2>1. Old(rec'[p])
    BY <1>1, KnownStored, FindFrom DEF RemoveRecord, Old, Same
  <2>2. \A r \in RecordsOf(RemoveKey(Stored, cmd[p].key)) : Old(r)
    BY <1>1, KnownStored, RemoveFrom DEF RemoveRecord, Old, Same
  <2>3. \A q \in Procs : q # p => OldHolding(q)
    BY <1>1 DEF RemoveRecord, Goto, OldHolding
  <2>. QED
    BY <1>1, <2>1, <2>2, <2>3, KnownWrite DEF RemoveRecord, hostVars
<1>2. CASE UnlinkPolicy(p) \/ KillMac(p)
  <2>1. \A q \in Procs : OldHolding(q)
    BY <1>2 DEF UnlinkPolicy, KillMac, At, Goto, OldHolding, HoldingPoints
  <2>2. \A q \in Procs : OldWrite(q)
    BY <1>2 DEF UnlinkPolicy, KillMac, Unlink, OldWrite, WritingIndex
  <2>3. file'[Index] = file[Index]
    BY <1>2, OtherFiles DEF UnlinkPolicy, KillMac, Unlink, Files
  <2>. QED
    BY <2>1, <2>2, <2>3, KnownQuiet DEF OldDocument, Loaded, Stored
<1>3. CASE KillPodman(p)
  <2>1. \A q \in Procs : OldWrite(q) /\ OldHolding(q)
    BY <1>3 DEF KillPodman, At, Goto, OldWrite, OldHolding, WritingIndex, HoldingPoints
  <2>. QED
    BY <1>3, <2>1, SameFile, KnownQuiet DEF KillPodman
<1>. QED
  BY <1>1, <1>2, <1>3, KnownExit DEF RmStep, KillFails, Exit, hostVars

\* Every record that is known after a step was known, or is of a container of now.
LEMMA KnownStep ==
    ASSUME RuntimeInv, [Next]_vars
    PROVE  \A r \in Known' : Old(r) \/ Tied(r)'
<1>. USE DEF RuntimeInv
<1>1. CASE UNCHANGED vars
  BY <1>1, SameFile, KnownQuiet DEF vars, OldWrite, OldHolding, WritingIndex
<1>2. ASSUME NEW p \in Procs, Start(p) PROVE \A r \in Known' : Old(r) \/ Tied(r)'
  BY <1>2, SameFile, KnownQuiet
  DEF Start, Goto, hostVars, OldWrite, OldHolding, WritingIndex, HoldingPoints, TypeInv, TypeOK
<1>3. ASSUME NEW p \in Procs, Crash(p) PROVE \A r \in Known' : Old(r) \/ Tied(r)'
  BY <1>3, SameFile, KnownQuiet
  DEF Crash, hostVars, OldWrite, OldHolding, WritingIndex, HoldingPoints, TypeInv, TypeOK
<1>4. ASSUME NEW p \in Procs, CannotLoad(p) \/ Exec(p) \/ RunEnds(p)
      PROVE  \A r \in Known' : Old(r) \/ Tied(r)'
  BY <1>4, KnownExit DEF CannotLoad, Exec, RunEnds, Exit, hostVars
<1>5. ASSUME NEW n \in Names, OrphanEnds(n) PROVE \A r \in Known' : Old(r) \/ Tied(r)'
  BY <1>5, SameFile, KnownQuiet DEF OrphanEnds, OldWrite, OldHolding, WritingIndex
<1>. QED
  BY <1>1, <1>2, <1>3, <1>4, <1>5, KnownFiles, KnownOpen, KnownCreate, KnownLookUp,
     KnownSet, KnownRm DEF Next, Work

\* The record rm holds is the one its argument found.
LEMMA AskedForStep ==
    ASSUME RuntimeInv, [Next]_vars
    PROVE  \A p \in Procs : AskedFor(p)'
<1>. USE DEF RuntimeInv, TypeInv, TypeOK
<1>0. ASSUME \A q \in Procs : pc'[q] \in {"unlink", "kill"} =>
                pc[q] \in {"unlink", "kill"} /\ rec'[q] = rec[q] /\ cmd'[q] = cmd[q]
      PROVE  \A p \in Procs : AskedFor(p)'
  BY <1>0 DEF AskedFor
<1>1. CASE UNCHANGED vars
  BY <1>0, <1>1 DEF vars
<1>2. ASSUME NEW p \in Procs, Exit(p) PROVE \A q \in Procs : AskedFor(q)'
  BY <1>0, <1>2 DEF Exit
<1>3. ASSUME NEW p \in Procs, Start(p) \/ Crash(p) \/ Truncate(p) \/ Fill(p)
      PROVE  \A q \in Procs : AskedFor(q)'
  BY <1>0, <1>3 DEF Start, Goto, Crash, Truncate, Fill
<1>4. ASSUME NEW p \in Procs, OpenStore(p) PROVE \A q \in Procs : AskedFor(q)'
  BY <1>0, <1>4 DEF OpenStore, Goto, FirstPoint
<1>5. ASSUME NEW p \in Procs, CreateStep(p) PROVE \A q \in Procs : AskedFor(q)'
  BY <1>0, <1>2, <1>5
  DEF CreateStep, Refuse, CreatePodman, ContainerNameInUse, CreateMac, WriteLimits, InstanceGone,
      SavePolicy, InsertRecord, AlreadyExists, ReportCreated, Run, NewRecord, Goto
<1>6. ASSUME NEW p \in Procs, LookUpStep(p) \/ SetStep(p) PROVE \A q \in Procs : AskedFor(q)'
  BY <1>0, <1>2, <1>6
  DEF LookUpStep, PeekShell, Get, NextAfterGet, NotFound, TouchLastUsed, Show, SetStep,
      RefusePolicy, SetPolicy, UpdateRecord, Goto
<1>7. ASSUME NEW p \in Procs, RmStep(p) PROVE \A q \in Procs : AskedFor(q)'
  <2>1. CASE RemoveRecord(p)
    <3>1. Answers(rec'[p], cmd'[p].key)
      BY <2>1, StoredIsState, FindListed DEF RemoveRecord
    <3>. QED
      BY <2>1, <3>1 DEF RemoveRecord, Goto, AskedFor
  <2>2. CASE UnlinkPolicy(p) \/ KillPodman(p) \/ KillMac(p)
    BY <1>0, <2>2 DEF UnlinkPolicy, KillPodman, KillMac, At, Goto
  <2>. QED
    BY <1>2, <1>7, <2>1, <2>2 DEF RmStep, KillFails
<1>8. ASSUME NEW p \in Procs, RunEnds(p) PROVE \A q \in Procs : AskedFor(q)'
  BY <1>0, <1>8 DEF RunEnds
<1>9. ASSUME NEW n \in Names, OrphanEnds(n) PROVE \A q \in Procs : AskedFor(q)'
  BY <1>0, <1>9 DEF OrphanEnds
<1>. QED
  BY <1>1, <1>2, <1>3, <1>4, <1>5, <1>6, <1>7, <1>8, <1>9 DEF Next, Work, CannotLoad, Exec

\* RuntimeInv is inductive.
LEMMA RuntimeInvStep == RuntimeInv /\ [Next]_vars => RuntimeInv'
<1>. SUFFICES ASSUME RuntimeInv, [Next]_vars PROVE RuntimeInv'
  OBVIOUS
<1>1. TypeInv'
  BY TypeInvStep DEF RuntimeInv
<1>2. ASSUME NEW r \in Known' PROVE Tied(r)'
  <2>1. CASE Old(r)
    BY <2>1, ContainerStep, TiedKept DEF Old, RuntimeInv
  <2>. QED
    BY <1>2, <2>1, KnownStep
<1>. QED
  BY <1>1, <1>2, ContainerStep, AskedForStep DEF RuntimeInv

\* RuntimeInv holds at first.
LEMMA RuntimeInvInit == Init => RuntimeInv
<1>. SUFFICES ASSUME Init PROVE RuntimeInv
  OBVIOUS
<1>1. Known = {}
  BY DEF Init, Known, Loaded, Readable, Absent, Files, WritingIndex, HoldingPoints
<1>2. RunInv
  BY DEF Init, RunInv, RunsIn
<1>. QED
  BY <1>1, <1>2, TypeInvInit DEF Init, RuntimeInv, AskedFor

-----------------------------------------------------------------------------
(* Only rm ends a persistent container *)

\* Only an rm at its `podman rm -f` ends a persistent container, the one of its record.
LEMMA KillsStep ==
    ASSUME RuntimeInv, [Next]_vars, NEW n \in Names,
           container[n] # None, ~ container[n].ephemeral, container'[n] # container[n]
    PROVE  \E p \in Procs : /\ pc[p] = "kill"
                            /\ rec[p].runtime_id = container[n].cid
                            /\ rec[p].name = n
                            /\ Answers(rec[p], cmd[p].key)
<1>. USE DEF RuntimeInv, TypeInv, TypeOK
<1>1. PICK p \in Procs : KillPodman(p)
  <2>0. container' # container
    OBVIOUS
  <2>1. ASSUME NEW p \in Procs, CreatePodman(p) \/ Run(p) PROVE FALSE
    BY <2>1, Running DEF CreatePodman, Run, At, Points, Complete
  <2>2. ASSUME NEW p \in Procs, RunEnds(p) PROVE FALSE
    <3>1. cmd[p].op = "run" /\ cmd[p].key \in Names /\ pc[p] = "running"
      BY <2>2, Running DEF RunEnds, At, Points, Complete
    <3>2. cmd[p].mech = "podman" /\ cmd[p].key = n
      BY <2>2, <3>1 DEF RunEnds
    <3>. QED
      BY <3>1, <3>2 DEF RunInv, RunsIn
  <2>3. ASSUME NEW m \in Names, OrphanEnds(m) PROVE FALSE
    BY <2>3 DEF OrphanEnds
  <2>4. ASSUME NEW p \in Procs, Exit(p) PROVE FALSE
    BY <2>0, <2>4 DEF Exit, hostVars
  <2>5. ASSUME NEW p \in Procs, Start(p) \/ Crash(p) \/ Truncate(p) \/ Fill(p) \/ OpenStore(p) PROVE FALSE
    BY <2>0, <2>5 DEF Start, Crash, Truncate, Fill, OpenStore, hostVars
  <2>6. ASSUME NEW p \in Procs, CreateStep(p) PROVE FALSE
    BY <2>0, <2>1, <2>4, <2>6
    DEF CreateStep, Refuse, ContainerNameInUse, CreateMac, WriteLimits, InstanceGone, SavePolicy,
        InsertRecord, AlreadyExists, ReportCreated, hostVars
  <2>7. ASSUME NEW p \in Procs, LookUpStep(p) \/ SetStep(p) PROVE FALSE
    BY <2>0, <2>4, <2>7
    DEF LookUpStep, PeekShell, Get, NotFound, TouchLastUsed, Show, SetStep, RefusePolicy,
        SetPolicy, UpdateRecord, hostVars
  <2>8. ASSUME NEW p \in Procs, RmStep(p) PROVE KillPodman(p)
    BY <2>0, <2>4, <2>8 DEF RmStep, RemoveRecord, UnlinkPolicy, KillFails, KillMac, hostVars
  <2>. QED
    BY <2>0, <2>2, <2>3, <2>4, <2>5, <2>6, <2>7, <2>8 DEF Next, Work, CannotLoad, Exec, vars
<1>2. pc[p] = "kill" /\ rec[p].mechanism = "podman" /\ rec[p].runtime_id = container[n].cid
  BY <1>1 DEF KillPodman, At
<1>3. rec[p] \in Known
  BY <1>2 DEF Known, HoldingPoints
<1>. QED
  BY <1>2, <1>3 DEF Tied, AskedFor

\* However many invocations run at once and wherever they are killed, the
\* container of a persistent sandbox ends only by an rm that took the record
\* made with it, for an argument that names that record (cmd_rm,
\* PodmanMechanism::remove): `podman rm -f` is given the container's id, no
\* other record carries it, and a run ends no container but its own.
THEOREM OnlyRmEndsContainer == Spec => OnlyItsRmKills
<1>1. Spec => []RuntimeInv
  BY RuntimeInvInit, RuntimeInvStep, PTL DEF Spec
<1>. DEFINE A == \A n \in Names :
        container[n] # None /\ ~ container[n].ephemeral /\ container'[n] # container[n]
        => \E p \in Procs : /\ pc[p] = "kill"
                            /\ rec[p].runtime_id = container[n].cid
                            /\ rec[p].name = n
                            /\ Answers(rec[p], cmd[p].key)
<1>2. RuntimeInv /\ [Next]_vars => [A]_vars
  BY KillsStep
<1>3. OnlyItsRmKills <=> [][A]_vars
  BY DEF OnlyItsRmKills
<1>. HIDE DEF A
<1>. QED
  BY <1>1, <1>2, <1>3, PTL DEF Spec
=============================================================================
