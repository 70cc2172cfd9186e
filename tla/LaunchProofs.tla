---------------------------- MODULE LaunchProofs ----------------------------
(***************************************************************************)
(* What create and run start fits the host and is what was asked for, for  *)
(* every word size, capacity, document and option; and what they report is *)
(* what happened, whenever podman comes and goes.                          *)
(***************************************************************************)
EXTENDS LaunchProperties, TLAPS

\* The arithmetic of parse_size: what passes is the exact product, and fits.
LEMMA ParsedIsExact ==
    ASSUME NEW s \in Sizes, ParseSize(s) # Invalid
    PROVE  s.num # Junk /\ ParseSize(s) = Bytes(s)
  BY SMT, PolicyAssumption DEF ParseSize, CheckedMul, Bytes, Invalid, Junk, Sizes

\* The arithmetic of millicores: a positive number of cpus that a pool below
\* u64::MAX can give is the number asked for, rounded half up.
LEMMA MillicoresFit ==
    ASSUME NEW c \in CpuValues, ~NotPositive(c), c # NaN,
           Millicores(c) <= HostMillicores
    PROVE  \E m \in 0 .. HostMillicores : Is(c, m)
<1>1. c.is = "number" /\ c.tenths \in Int /\ c.tenths > 0
  <2>1. Word - 1 > HostMillicores
    BY PolicyAssumption
  <2>2. c # Infinity
    BY <2>1, PolicyAssumption DEF Millicores, Infinity
  <2>3. c # MinusInfinity
    BY DEF NotPositive, MinusInfinity
  <2>4. c \in [is : {"number"}, tenths : Int]
    BY <2>2, <2>3 DEF CpuValues
  <2> QED
    BY <2>4 DEF NotPositive
<1> DEFINE r == (c.tenths + 5) \div 10
<1>2. r \in Nat /\ 10 * r <= c.tenths + 5 /\ c.tenths + 5 < 10 * r + 10
  BY <1>1
<1>3. r <= HostMillicores
  BY <1>1, <1>2, PolicyAssumption DEF Millicores
<1>4. Is(c, r)
  BY <1>1, <1>2 DEF Is
<1> QED
  BY <1>2, <1>3, <1>4, PolicyAssumption

\* preflight lets pass only what the host can give.
LEMMA PreflightFits ==
    ASSUME NEW q \in Documents, Preflight(q)
    PROVE  WellFormed(q) /\ MemoryFits(q) /\ (CpusFit(q) \/ q.cpus = NaN)
<1>1. q.memory \in Sizes /\ q.cpus \in CpuValues
  BY DEF Documents
<1>2. Validates(q) /\ ParseSize(q.memory) <= HostMemory /\ Millicores(q.cpus) <= HostMillicores
  BY DEF Preflight, Fits
<1>3. WellFormed(q)
  BY <1>2 DEF Validates, WellFormed
<1>4. MemoryFits(q)
  BY <1>1, <1>2, ParsedIsExact DEF Validates, MemoryFits
<1>5. CpusFit(q) \/ q.cpus = NaN
  BY <1>1, <1>2, MillicoresFit DEF Validates, CpusFit
<1> QED
  BY <1>3, <1>4, <1>5

-----------------------------------------------------------------------------
(* Nothing starts before preflight, and nothing changes the policy after it. *)

Early == {"load", "override", "resolve", "preflight"}
Late == {"secrets", "proxy", "spawn", "wait", "report"}

DataType == policy \in Documents /\ inv \in Invocations

StartInv ==
    /\ stage \in Early => ~Started
    /\ stage \in Late \/ Started => Preflight(policy)

Inv == DataType /\ StartInv

\* Inv holds at first.
LEMMA InvInit == Init => Inv
  BY LaunchAssumption DEF Init, Inv, DataType, StartInv, Started, Early, Late

\* The policy after its options is a document.
LEMMA OverriddenType ==
    ASSUME DataType
    PROVE  Overridden \in Documents
  BY LaunchAssumption DEF DataType, Overridden, Documents, Invocations

\* What was read keeps its type.
LEMMA DataTypeStep ==
    ASSUME Inv, [Next]_vars
    PROVE  DataType'
<1> USE DEF Inv
<1>1. CASE LoadFile
  <2>1. IF inv.file = None THEN TRUE ELSE inv.file \in PolicyFiles
    BY DEF DataType, Invocations
  <2> QED
    BY <1>1, <2>1, LaunchAssumption DEF LoadFile, DataType
<1>2. CASE Override
  BY <1>2, OverriddenType DEF Override, DataType
<1>3. CASE Resolve
  <2>1. PreferAvailable(ResolveMechanism(policy.mechanism)) \in {None, "auto", "podman", "mac", "krun"}
    BY DEF PreferAvailable, ResolveMechanism, DataType, Documents
  <2> QED
    BY <1>3, <2>1 DEF Resolve, DataType, Documents
<1>4. CASE UNCHANGED <<policy, inv>>
  BY <1>4 DEF DataType
<1> QED
  BY <1>1, <1>2, <1>3, <1>4 DEF Next, vars, EngineChanges, LoadFails, OverrideFails,
     PassPreflight, PreflightFails, ResolveSecrets, SecretsFail, StartProxy, ProxyFails, ProxyDies,
     Spawn, SpawnFails, ChildEnds, ReportRun, ReportCreate, RecordFails, Fail

\* What goes past preflight fits the host.
LEMMA StartInvStep ==
    ASSUME Inv, [Next]_vars
    PROVE  StartInv'
<1> USE DEF Inv, StartInv, Started, Early, Late
<1>1. CASE LoadFile \/ Override \/ Resolve
  BY <1>1 DEF LoadFile, Override, Resolve, At, Goto
<1>2. CASE PassPreflight
  BY <1>2 DEF PassPreflight, At, Goto, Preflight, Validates
<1>3. CASE ResolveSecrets \/ StartProxy \/ ProxyDies \/ Spawn \/ ChildEnds
  BY <1>3 DEF ResolveSecrets, StartProxy, ProxyDies, Spawn, ChildEnds, At, Goto, Preflight, Validates
<1>4. CASE EngineChanges \/ UNCHANGED vars
  BY <1>4 DEF EngineChanges, vars, Preflight, Validates
<1>5. ASSUME stage' = "done", UNCHANGED <<policy, child>>, DropProxy
      PROVE  StartInv'
  BY <1>5 DEF DropProxy, Preflight, Validates
<1>6. CASE LoadFails \/ OverrideFails \/ PreflightFails \/ SecretsFail \/ ProxyFails
           \/ SpawnFails \/ RecordFails \/ ReportRun \/ ReportCreate
  BY <1>5, <1>6 DEF LoadFails, OverrideFails, PreflightFails, SecretsFail, ProxyFails,
     SpawnFails, RecordFails, ReportRun, ReportCreate, Fail, Finish, Goto
<1> QED
  BY <1>1, <1>2, <1>3, <1>4, <1>6 DEF Next

\* Whatever the file, the options and the build: no proxy and no sandbox is ever
\* started for a policy that is malformed or asks for more memory or cpus than
\* the host's pools hold.
THEOREM StartedFitsHost == Spec => []StartedFits
<1>1. Inv /\ [Next]_vars => Inv'
  BY DataTypeStep, StartInvStep DEF Inv
<1>2. Inv => StartedFits
  BY PreflightFits DEF Inv, DataType, StartInv, StartedFits
<1> QED
  BY <1>1, <1>2, InvInit, PTL DEF Spec

-----------------------------------------------------------------------------
(* The mechanism, from the file and the option to the sandbox *)

FromFile == IF inv.file = None THEN DefaultPolicy.mechanism ELSE inv.file.mechanism

AsNamed ==
    \/ policy.mechanism = Named
    \/ Named \in {None, "auto"} /\ inv.os # "other" /\ policy.mechanism = "podman"
    \/ Named \in {None, "auto"} /\ inv.os = "other" /\ policy.mechanism = "mac"
    \/ /\ Named \in {None, "auto", "podman"} /\ policy.mechanism = "mac"
       /\ inv.op = "run" /\ inv.os = "macos"

MechInv ==
    /\ stage = "override" =>
            (inv.file # None => inv.file # Unreadable) /\ policy.mechanism = FromFile
    /\ stage = "resolve" => policy.mechanism = Named
    /\ stage \in Late \cup {"preflight"} \/ child # "none" => AsNamed

\* The mechanism that was chosen is the one that was named.
LEMMA MechStep ==
    ASSUME Inv, MechInv, [Next]_vars
    PROVE  MechInv'
<1>. USE DEF Inv, StartInv, Started, Early, Late
<1>1. inv' = inv /\ Named' = Named /\ FromFile' = FromFile
  BY DEF Next, vars, EngineChanges, LoadFile, LoadFails, Override, OverrideFails, Resolve,
     PassPreflight, PreflightFails, ResolveSecrets, SecretsFail, StartProxy, ProxyFails, ProxyDies,
     Spawn, SpawnFails, ChildEnds, ReportRun, ReportCreate, RecordFails, Fail, Named, FromFile
<1>2. CASE LoadFile
  <2>1. (inv.file # None => inv.file # Unreadable) /\ policy'.mechanism = FromFile
    BY <1>2 DEF LoadFile, FromFile
  <2>. QED
    BY <1>1, <1>2, <2>1 DEF LoadFile, MechInv, At, Goto
<1>3. CASE Override
  <2>1. policy' = Overridden /\ policy \in Documents
    BY <1>3 DEF Override, DataType
  <2>2. policy'.mechanism = IF inv.mech = None THEN policy.mechanism ELSE inv.mech
    BY <2>1 DEF Overridden, Documents
  <2>3. policy'.mechanism = Named
    BY <1>3, <2>2 DEF Override, At, MechInv, Named, FromFile
  <2>. QED
    BY <1>1, <1>3, <2>3 DEF Override, MechInv, At, Goto
<1>4. CASE Resolve
  <2>1. policy'.mechanism = PreferAvailable(ResolveMechanism(policy.mechanism))
    BY <1>4 DEF Resolve, DataType, Documents
  <2>2. policy.mechanism = Named
    BY <1>4 DEF Resolve, At, MechInv
  <2>3. inv.os \in {"macos", "linux", "other"}
    BY LaunchAssumption DEF DataType, Invocations
  <2>4. AsNamed'
    BY <1>1, <2>1, <2>2, <2>3 DEF AsNamed, PreferAvailable, ResolveMechanism
  <2>. QED
    BY <1>4, <2>4 DEF Resolve, MechInv, At, Goto
<1>5. ASSUME policy' = policy,
             stage' \in Late \cup {"preflight"} \/ child' # "none"
                => stage \in Late \cup {"preflight"} \/ child # "none",
             stage' \in {"override", "resolve"} => stage' = stage
      PROVE  MechInv'
  <2>1. AsNamed' <=> AsNamed
    BY <1>1, <1>5 DEF AsNamed
  <2>. QED
    BY <1>1, <1>5, <2>1 DEF MechInv
<1>6. CASE PassPreflight \/ ResolveSecrets \/ StartProxy \/ Spawn \/ ChildEnds
  BY <1>5, <1>6 DEF PassPreflight, ResolveSecrets, StartProxy, Spawn, ChildEnds, At, Goto
<1>7. CASE LoadFails \/ OverrideFails \/ PreflightFails \/ SecretsFail \/ ProxyFails
           \/ SpawnFails \/ RecordFails \/ ReportRun \/ ReportCreate
  BY <1>5, <1>7 DEF LoadFails, OverrideFails, PreflightFails, SecretsFail, ProxyFails,
     SpawnFails, RecordFails, ReportRun, ReportCreate, Fail, Finish, Goto
<1>8. CASE EngineChanges \/ ProxyDies \/ UNCHANGED vars
  BY <1>5, <1>8 DEF EngineChanges, ProxyDies, vars
<1>. QED
  BY <1>2, <1>3, <1>4, <1>6, <1>7, <1>8 DEF Next

\* Whatever names the mechanism and whenever podman goes or comes back: what is
\* started is what the option, else the policy asks for, and auto is podman
\* where there is podman (mechanism_or_auto, prefer_available).
THEOREM MechanismIsAsNamed == Spec => []MechanismAsNamed
<1>1. Init => Inv /\ MechInv
  BY InvInit DEF Init, MechInv, Late
<1>2. Inv /\ MechInv /\ [Next]_vars => Inv' /\ MechInv'
  BY DataTypeStep, StartInvStep, MechStep DEF Inv
<1>3. MechInv => MechanismAsNamed
  BY DEF MechInv, AsNamed, MechanismAsNamed
<1>. QED
  BY <1>1, <1>2, <1>3, PTL DEF Spec

-----------------------------------------------------------------------------
(* The proxy, the command and the exit code *)

RunInv ==
    /\ stage \in Early \cup {"secrets", "proxy", "spawn"} => child = "none"
    /\ stage = "wait" => inv.op = "run" /\ child # "none"
    /\ stage = "report" => inv.op = "create" /\ child = "running"
    /\ IF child = "ended" THEN status \in ExitCodes \cup {Signal} ELSE status = None
    /\ stage \in {"spawn", "wait", "report"} /\ policy.mode = "allowlist"
            => proxy \in {"up", "failed"}
    /\ stage = "done" =>
        /\ proxy \notin {"up", "failed"} /\ (inv.op = "run" => child # "running")
        /\ exit = 0 => child # "none" /\ status \in {0, Signal, None}

\* A run, its proxy and its exit code go together, step by step.
LEMMA RunStep ==
    ASSUME Inv, TypeOK, RunInv, [Next]_vars
    PROVE  TypeOK' /\ RunInv'
<1>. USE DEF RunInv, Early
<1>1. policy' \in Documents /\ inv' \in Invocations
  BY DataTypeStep DEF DataType
<1>2. CASE LoadFile \/ Override \/ Resolve \/ PassPreflight \/ ResolveSecrets
  BY <1>1, <1>2 DEF LoadFile, Override, Resolve, PassPreflight, ResolveSecrets, At, Goto, TypeOK
<1>3. CASE StartProxy
  BY <1>1, <1>3 DEF StartProxy, At, Goto, TypeOK
<1>4. CASE Spawn
  <2>1. inv.op \in {"create", "run"}
    BY DEF TypeOK, Invocations
  <2>. QED
    BY <1>1, <1>4, <2>1 DEF Spawn, At, Goto, TypeOK
<1>5. CASE ChildEnds
  BY <1>1, <1>5, LaunchAssumption DEF ChildEnds, At, Goto, TypeOK
<1>6. CASE EngineChanges \/ UNCHANGED vars
  BY <1>1, <1>6 DEF EngineChanges, vars, TypeOK
<1>7. ASSUME NEW c \in ExitCodes \cup {1}, Finish(c), UNCHANGED <<inv, policy, child, status, engine>>,
             inv.op = "run" => child # "running",
             c = 0 => child # "none" /\ status \in {0, Signal, None}
      PROVE  TypeOK' /\ RunInv'
  <2>1. proxy' \in {"none", "dropped"} /\ stage' = "done" /\ exit' = c
    BY <1>7 DEF Finish, Goto, DropProxy, TypeOK
  <2>2. exit' # None
    BY <1>7, <2>1, LaunchAssumption
  <2>3. TypeOK'
    BY <1>1, <1>7, <2>1, <2>2 DEF TypeOK
  <2>. QED
    BY <1>7, <2>1, <2>3
<1>8. CASE LoadFails \/ OverrideFails \/ PreflightFails \/ SecretsFail \/ ProxyFails
           \/ SpawnFails \/ RecordFails
  BY <1>7, <1>8 DEF LoadFails, OverrideFails, PreflightFails, SecretsFail, ProxyFails,
     SpawnFails, RecordFails, Fail, At
<1>9. CASE ReportRun
  <2>1. status \in ExitCodes \cup {Signal} /\ child = "ended"
    BY <1>9 DEF ReportRun
  <2>2. ExitCode(status) \in ExitCodes /\ (ExitCode(status) = 0 => status \in {0, Signal})
    BY <2>1, LaunchAssumption DEF ExitCode
  <2>. QED
    BY <1>7, <1>9, <2>1, <2>2 DEF ReportRun
<1>10. CASE ReportCreate
  BY <1>7, <1>10, LaunchAssumption DEF ReportCreate, At
<1>11. CASE ProxyDies
  BY <1>1, <1>11 DEF ProxyDies, TypeOK
<1>. QED
  BY <1>2, <1>3, <1>4, <1>5, <1>6, <1>8, <1>9, <1>10, <1>11 DEF Next

\* They do at first.
LEMMA RunInit == Init => TypeOK /\ RunInv
  BY LaunchAssumption DEF Init, TypeOK, RunInv, Early

\* And so always.
LEMMA RunAlways == Spec => [](TypeOK /\ RunInv)
<1>1. Init => Inv /\ TypeOK /\ RunInv
  BY InvInit, RunInit
<1>2. Inv /\ TypeOK /\ RunInv /\ [Next]_vars => Inv' /\ TypeOK' /\ RunInv'
  BY DataTypeStep, StartInvStep, RunStep DEF Inv
<1>. QED
  BY <1>1, <1>2, PTL DEF Spec

\* Every variable keeps its type, and there is an exit code exactly at the end.
THEOREM TypeCorrect == Spec => []TypeOK
  BY RunAlways, PTL

\* As long as the command of an ephemeral run runs, ssbx holds the proxy it is
\* pointed at: cmd_run binds the handle before it starts the one and ends after
\* the other.  That the proxy serves it all that time is not said: an accept
\* error ends its loop.
THEOREM ProxyIsHeld == Spec => []ProxyHeld
<1>1. TypeOK /\ RunInv => ProxyHeld
  BY DEF TypeOK, RunInv, ProxyHeld, Mediated, Early
<1>. QED
  BY <1>1, RunAlways, PTL

\* Success is only ever reported of a sandbox that was started, and not of a
\* run that failed by its own code; a run leaves neither command nor proxy.
THEOREM FailureIsReported == Spec => []ReportsFailure
<1>1. RunInv => ReportsFailure
  BY DEF RunInv, ReportsFailure
<1>. QED
  BY <1>1, RunAlways, PTL

-----------------------------------------------------------------------------
(* Nothing that the host can honour is turned down *)

\* A unit never makes a size smaller.
LEMMA MultiplierIsPositive ==
    ASSUME NEW unit \in 0 .. 4
    PROVE  Multiplier(unit) \in Nat \ {0}
<1>1. \A a, b \in Nat \ {0} : a * b \in Nat \ {0}
  OBVIOUS
<1>2. Kilo \in Nat \ {0}
  BY PolicyAssumption
<1>3. Kilo * Kilo \in Nat \ {0}
  BY <1>1, <1>2
<1>4. Kilo * Kilo * Kilo \in Nat \ {0}
  BY <1>1, <1>2, <1>3
<1>5. Kilo * Kilo * Kilo * Kilo \in Nat \ {0}
  BY <1>1, <1>2, <1>4
<1>. QED
  BY <1>2, <1>3, <1>4, <1>5 DEF Multiplier

\* A size that fits the host is parsed, as the exact number of bytes: neither
\* the digits alone nor their product overflows.
LEMMA FittingIsParsed ==
    ASSUME NEW s \in Sizes, s.num # Junk, Bytes(s) <= HostMemory
    PROVE  ParseSize(s) = Bytes(s) /\ ParseSize(s) # Invalid
<1>. DEFINE n == s.num
            m == Multiplier(s.unit)
<1>1. n \in Nat /\ m \in Nat /\ m >= 1
  BY MultiplierIsPositive DEF Sizes, Junk
<1>2. n * m < Word
  BY PolicyAssumption, <1>1 DEF Bytes
<1>3. n <= n * m
  <2>. HIDE DEF n, m
  <2>1. n * m = n + n * (m - 1) /\ n * (m - 1) >= 0
    BY <1>1
  <2>2. n * m \in Nat /\ n * (m - 1) \in Int
    BY <1>1
  <2>. QED
    BY <1>1, <2>1, <2>2
<1>4. n * m \in Nat
  BY <1>1
<1>. QED
  BY <1>1, <1>2, <1>3, <1>4, PolicyAssumption DEF ParseSize, CheckedMul, Bytes, Invalid

\* A number of cpus the host has is rounded to the millicores it stands for.
LEMMA FittingIsCounted ==
    ASSUME NEW c \in CpuValues, NEW m \in 0 .. HostMillicores, Is(c, m)
    PROVE  Millicores(c) <= HostMillicores
<1>1. c.is = "number" /\ c.tenths \in Int
  BY DEF Is, CpuValues, NaN, Infinity, MinusInfinity
<1>2. c.tenths >= 0 => (c.tenths + 5) \div 10 = m
  BY <1>1, PolicyAssumption DEF Is
<1>. QED
  BY <1>1, <1>2, PolicyAssumption DEF Millicores

\* validate and preflight accept what the host can honour.
LEMMA HonourableIsAccepted ==
    ASSUME NEW q \in Documents, Honourable(q)
    PROVE  Validates(q) /\ Preflight(q)
<1>1. q.memory \in Sizes /\ q.cpus \in CpuValues
  BY DEF Documents
<1>2. ParseSize(q.memory) # Invalid /\ ParseSize(q.memory) <= HostMemory
  BY <1>1, FittingIsParsed DEF Honourable, MemoryFits
<1>3. ~NotPositive(q.cpus)
  BY <1>1 DEF Honourable, CpusPositive, NotPositive, CpuValues, NaN, Infinity, MinusInfinity
<1>4. Millicores(q.cpus) <= HostMillicores
  BY <1>1, FittingIsCounted DEF Honourable, CpusFit
<1>5. Validates(q)
  BY <1>2, <1>3 DEF Honourable, WellFormed, Validates
<1>. QED
  BY <1>2, <1>4, <1>5 DEF Preflight, Fits

\* validate and preflight turn down nothing the host can honour, whatever the
\* file and the options: each refusal has its reason in the file, or in what the
\* options make of it.
THEOREM RefusalHasReason == Spec => SoundIsAccepted
<1>. DEFINE Refuses == (stage \in {"load", "override", "preflight"} /\ stage' = "done")
                            => Examined = Unreadable \/ ~Honourable(Examined)
<1>1. ASSUME Inv, [Next]_vars
      PROVE  [Refuses]_vars
  <2>. SUFFICES ASSUME stage \in {"load", "override", "preflight"}, stage' = "done",
                       Examined # Unreadable, Honourable(Examined)
                PROVE  FALSE
    OBVIOUS
  <2>1. policy \in Documents /\ Overridden \in Documents
    BY <1>1, OverriddenType DEF Inv, DataType
  <2>2. ASSUME Examined \in Documents
        PROVE  Validates(Examined) /\ Preflight(Examined)
    BY <2>2, HonourableIsAccepted
  <2>3. stage # "load" => Validates(Examined) /\ Preflight(Examined)
    BY <2>1, <2>2 DEF Examined
  <2>4. LoadFails \/ OverrideFails \/ PreflightFails
    BY <1>1 DEF Next, vars, At, Goto, EngineChanges, LoadFile, Override, Resolve,
       PassPreflight, ResolveSecrets, SecretsFail, StartProxy, ProxyFails, ProxyDies, Spawn, SpawnFails,
       ChildEnds, ReportRun, ReportCreate, RecordFails
  <2>5. CASE OverrideFails
    BY <2>3, <2>5 DEF OverrideFails, At, Examined
  <2>6. CASE PreflightFails
    BY <2>3, <2>6 DEF PreflightFails, At, Examined
  <2>7. CASE LoadFails
    <3>1. Examined = inv.file /\ inv.file # None /\ ~Validates(inv.file)
      BY <2>7 DEF LoadFails, At, Examined
    <3>2. inv.file \in Documents
      BY <1>1, <3>1, LaunchAssumption DEF Inv, DataType, Invocations, Examined
    <3>. QED
      BY <2>2, <3>1, <3>2
  <2>. QED
    BY <2>4, <2>5, <2>6, <2>7
<1>2. Inv /\ [Next]_vars => Inv'
  BY DataTypeStep, StartInvStep DEF Inv
<1>3. Spec => [][Refuses]_vars
  BY <1>1, <1>2, InvInit, PTL DEF Spec
<1>. QED
  BY <1>3 DEF SoundIsAccepted
=============================================================================
