---------------------------- MODULE ConfineProofs -----------------------------
(****************************************************************************)
(* A process has the files, the network, the limits, the secrets and the     *)
(* command that one request asked for, whatever the policies, directories,   *)
(* commands, paths and links of the host are, and however often an           *)
(* invocation is killed.  The exceptions are those of the properties.        *)
(* ConfineInv, at the end, is the inductive invariant.                       *)
(****************************************************************************)
EXTENDS RunArgsProofs, ConfineProperties

\* Below and Real are monotone.
LEMMA BelowMonotone ==
    /\ \A A, B : A \subseteq B => Below(A) \subseteq Below(B)
    /\ \A A, B : A \subseteq B => Below(Real(A)) \subseteq Below(Real(B))
<1>1. \A A, B : A \subseteq B => Below(A) \subseteq Below(B)
  BY DEF Below
<1>2. \A A, B : A \subseteq B => Real(A) \subseteq Real(B)
  BY DEF Real
<1>. QED
  BY <1>1, <1>2

\* No file is below a path as written through a link or `..`, so that what is
\* below written paths is below the real ones, and all of it where no path has
\* either.
LEMMA BelowWritten ==
    ASSUME NEW A
    PROVE  /\ Below(A) \subseteq Below(Real(A))
           /\ A \cap DOMAIN Denotes = {} => Real(A) = A
<1>1. \A d \in DOMAIN Denotes : \A h \in HostPaths : ~Under(d, h)
  BY HostPathAssumption DEF Under
<1>2. \A d : d \notin DOMAIN Denotes => Canonical(d) = d
  BY DEF Canonical
<1>3. Below(A) \subseteq Below(Real(A))
  BY <1>1, <1>2 DEF Below, Real
<1>4. A \cap DOMAIN Denotes = {} => Real(A) = A
  BY <1>2 DEF Real
<1>. QED
  BY <1>3, <1>4

Existing(dirs) == {d \in dirs : Exists(d)}

\* The directories that a container mounts are those the request grants, each in
\* its mode.
LEMMA DirsGranted ==
    ASSUME NEW r
    PROVE  LET ro == r.policy.read_only
               rw == r.policy.read_write
               work == IF r.policy.workdir THEN {r.workdir} ELSE {}
               skipped == {Workspace, Temp}
           IN  /\ Dirs(ro, {}, r.workdir) \subseteq Granted(r).ro
               /\ work \cup Dirs(rw, skipped, r.workdir) \subseteq Granted(r).rw
               /\ Existing(Granted(r).ro \ NotMounted(r)) \subseteq Dirs(ro, {}, r.workdir)
               /\ Existing(Granted(r).rw \ NotMounted(r))
                    \subseteq work \cup Dirs(rw, skipped, r.workdir)
<1>. DEFINE ro == r.policy.read_only
            rw == r.policy.read_write
            work == IF r.policy.workdir THEN {r.workdir} ELSE {}
            skipped == {Workspace, Temp}
            R(ps) == {Resolve(ps[i], r.workdir) : i \in DOMAIN ps}
<1>1. Granted(r).ro = R(ro) /\ Granted(r).rw = R(rw) \cup work
  BY DEF Granted, ResolveHostPaths
<1>2. StartsWithWorkspace(Workspace)
  BY HostPathAssumption DEF StartsWithWorkspace, Workspace, Absolute
<1>3. Resolve(Temp, r.workdir) = <<"tmp">>
  BY DEF Resolve, Temp, Absolute
<1>4. \A i \in DOMAIN ro : StartsWithWorkspace(ro[i]) => Resolve(ro[i], r.workdir) \in NotMounted(r)
  BY DEF NotMounted, Range
<1>5. \A i \in DOMAIN rw : StartsWithWorkspace(rw[i]) => Resolve(rw[i], r.workdir) \in NotMounted(r)
  BY DEF NotMounted, Range
<1>6. /\ <<"tmp">> \in NotMounted(r)
      /\ \A d \in R(ro) \cup R(rw) : d \notin NotMounted(r) => HasFileName(d)
  BY <1>1 DEF NotMounted
<1>7. Dirs(ro, {}, r.workdir) \subseteq R(ro) /\ Dirs(rw, skipped, r.workdir) \subseteq R(rw)
  BY DEF Dirs
<1>. HIDE DEF ro, rw, work, skipped
<1>8. \A d \in R(ro) : Exists(d) /\ d \notin NotMounted(r) => d \in Dirs(ro, {}, r.workdir)
  BY <1>4, <1>6 DEF Dirs
<1>9. \A i \in DOMAIN rw :
        Exists(Resolve(rw[i], r.workdir)) /\ Resolve(rw[i], r.workdir) \notin NotMounted(r)
        => Resolve(rw[i], r.workdir) \in Dirs(rw, skipped, r.workdir)
  <2>. SUFFICES ASSUME NEW i \in DOMAIN rw, Exists(Resolve(rw[i], r.workdir)),
                       Resolve(rw[i], r.workdir) \notin NotMounted(r)
                PROVE  Resolve(rw[i], r.workdir) \in Dirs(rw, skipped, r.workdir)
    OBVIOUS
  <2>1. ~StartsWithWorkspace(rw[i]) /\ HasFileName(Resolve(rw[i], r.workdir))
    BY <1>5, <1>6
  <2>2. rw[i] # Workspace
    BY <1>2, <2>1
  <2>3. rw[i] # Temp
    BY <1>3, <1>6
  <2>4. rw[i] \notin skipped
    BY <2>2, <2>3 DEF skipped
  <2>. QED
    BY <2>1, <2>4 DEF Dirs
<1>10. Existing(Granted(r).ro \ NotMounted(r)) \subseteq Dirs(ro, {}, r.workdir)
  BY <1>1, <1>8 DEF Existing
<1>11. Existing(Granted(r).rw \ NotMounted(r)) \subseteq work \cup Dirs(rw, skipped, r.workdir)
  BY <1>1, <1>9 DEF Existing
<1>12. /\ Dirs(ro, {}, r.workdir) \subseteq Granted(r).ro
       /\ work \cup Dirs(rw, skipped, r.workdir) \subseteq Granted(r).rw
  BY <1>1, <1>7
<1>. QED
  BY <1>10, <1>11, <1>12 DEF ro, rw, work, skipped

\* The container of a request has what the request asks for.
LEMMA BoxAsAsked ==
    ASSUME NEW c, NEW req, IsBox(c, req),
           NEW r, r.mech = "podman", r.policy = req.policy, r.workdir = req.workdir,
           NEW box, box.read = c.read, box.write = c.write, box.net = c.net
    PROVE  AsAsked(box, r)
<1>. DEFINE read == WorkDirs(req) \cup RoDirs(req) \cup RwDirs(req)
            write == WorkDirs(req) \cup RwDirs(req)
            ro == Granted(r).ro
            rw == Granted(r).rw
<1>1. box.read = Below(Real(read)) /\ box.write = Below(Real(write))
  BY DEF IsBox
<1>2. /\ RoDirs(req) \subseteq ro /\ write \subseteq rw
      /\ Existing(ro \ NotMounted(r)) \subseteq RoDirs(req)
      /\ Existing(rw \ NotMounted(r)) \subseteq write
  BY DirsGranted DEF WorkDirs, RoDirs, RwDirs
<1>3. box.net \subseteq MayReach(r)
  <2>1. box.net = IF r.policy.network = "none" THEN {} ELSE {"host", "outside"}
    BY DEF IsBox
  <2>. QED
    BY <2>1 DEF MayReach
<1>4. read = RoDirs(req) \cup write
  OBVIOUS
<1>. HIDE DEF read, write, ro, rw
<1>5. Below(Real(read)) \subseteq Below(Real(ro \cup rw)) /\ Below(Real(write)) \subseteq Below(Real(rw))
  BY <1>2, <1>4, BelowMonotone
<1>6. /\ Below(Real(Existing((ro \cup rw) \ NotMounted(r)))) \subseteq Below(Real(read))
      /\ Below(Real(Existing(rw \ NotMounted(r)))) \subseteq Below(Real(write))
  <2>1. Existing((ro \cup rw) \ NotMounted(r)) \subseteq read
    BY <1>2, <1>4 DEF Existing
  <2>. QED
    BY <1>2, <2>1, BelowMonotone
<1>7. MayRead(r) = Below(Real(ro \cup rw)) /\ MayWrite(r) = Below(Real(rw))
  BY DEF MayRead, MayWrite, ro, rw
<1>8. WithinGrant(box, r)
  BY <1>1, <1>3, <1>5, <1>7 DEF WithinGrant
<1>9. CoversGrant(box, r)
  BY <1>1, <1>6 DEF CoversGrant, Existing, ro, rw
<1>. QED
  BY <1>8, <1>9 DEF AsAsked

-----------------------------------------------------------------------------
(* Secrets *)

Refer(x, m, r) == Put(m, r.env, LoadSecretBytes(r.from, x))
Referring == INSTANCE FoldLemmas WITH Step <- Refer

\* i is the last of the first k references that is to v.
LastOf(refs, k, i, v) ==
    i \in 1 .. k /\ refs[i].env = v /\ \A j \in 1 .. k : refs[j].env = v => j <= i

\* The map that the first k references make.
IsMap(m, refs, root, k) ==
    /\ m = [v \in DOMAIN m |-> m[v]] /\ IsFiniteSet(DOMAIN m)
    /\ \A i \in 1 .. k : refs[i].env \in DOMAIN m
    /\ \A v \in DOMAIN m :
         \E i \in 1 .. k : LastOf(refs, k, i, v) /\ m[v] = LoadSecretBytes(refs[i].from, root)

\* One more reference is resolved.
LEMMA MapPut ==
    ASSUME NEW m, NEW refs, NEW root, NEW k \in Nat, IsMap(m, refs, root, k)
    PROVE  IsMap(Put(m, refs[k + 1].env, LoadSecretBytes(refs[k + 1].from, root)), refs, root, k + 1)
<1>. DEFINE var == refs[k + 1].env
            val == LoadSecretBytes(refs[k + 1].from, root)
            p == Put(m, var, val)
<1>1. p = [v \in DOMAIN m \cup {var} |-> IF v = var THEN val ELSE m[v]]
  BY DEF Put
<1>2. k + 1 \in 1 .. k + 1 /\ \A i \in 1 .. k + 1 : i \in 1 .. k \/ i = k + 1
  OBVIOUS
<1>3. \A i \in 1 .. k : i \in 1 .. k + 1 /\ i <= k + 1
  OBVIOUS
<1>4. IsFiniteSet(DOMAIN m \cup {var})
  BY FS_AddElement DEF IsMap
<1>. DEFINE n == k + 1
<1>. HIDE DEF n, p, val
<1>5. DOMAIN p = DOMAIN m \cup {var} /\ p = [v \in DOMAIN p |-> p[v]]
  BY <1>1
<1>6. \A i \in 1 .. n : refs[i].env \in DOMAIN p
  BY <1>2, <1>5 DEF IsMap, n
<1>7. ASSUME NEW v \in DOMAIN p
      PROVE  \E i \in 1 .. n : LastOf(refs, n, i, v) /\ p[v] = LoadSecretBytes(refs[i].from, root)
  <2>1. CASE v = var
    <3>1. p[v] = val
      BY <1>1, <2>1
    <3>2. LastOf(refs, n, n, v)
      BY <1>2, <1>3, <2>1 DEF LastOf, n
    <3>3. n \in 1 .. n /\ val = LoadSecretBytes(refs[n].from, root)
      BY <1>2 DEF n, val
    <3>. QED
      BY <3>1, <3>2, <3>3
  <2>2. CASE v # var
    <3>1. v \in DOMAIN m /\ p[v] = m[v]
      BY <1>1, <1>7, <2>2
    <3>2. PICK i \in 1 .. k : LastOf(refs, k, i, v) /\ m[v] = LoadSecretBytes(refs[i].from, root)
      BY <3>1 DEF IsMap
    <3>3. LastOf(refs, n, i, v)
      BY <1>2, <1>3, <2>2, <3>2 DEF LastOf, n
    <3>4. i \in 1 .. n
      BY <1>3, <3>2 DEF n
    <3>. QED
      BY <3>1, <3>2, <3>3, <3>4
  <2>. QED
    BY <2>1, <2>2
<1>8. IsFiniteSet(DOMAIN p)
  BY <1>4, <1>5
<1>9. IsMap(p, refs, root, n)
  BY <1>5, <1>6, <1>7, <1>8 DEF IsMap
<1>. QED
  BY <1>9 DEF p, n, val

\* resolve_secrets gives the map that all the references make.
LEMMA SecretsMap ==
    ASSUME NEW refs, IsSeq(refs), NEW root
    PROVE  IsMap(ResolveSecrets(refs, root), refs, root, Len(refs))
<1>. DEFINE n == Len(refs)
            m == ResolveSecrets(refs, root)
<1>1. n \in Nat /\ DOMAIN refs = 1 .. n
  BY SeqFacts
<1>2. m = Referring!Value(root, <<>>, refs)
  BY DEF ResolveSecrets, Referring!Value, Refer, FoldLeft, Referring!FoldLeft,
         MapThenFoldSet, Referring!MapThenFoldSet, Max, Referring!Max
<1>. HIDE DEF n, m
<1>3. PICK R : Referring!IsRun(R, root, <<>>, refs, n) /\ m = R[n]
  BY <1>1, <1>2, Referring!FoldRun
<1>. DEFINE Good == {k \in Nat : k <= n => IsMap(R[k], refs, root, k)}
<1>4. 0 \in Good
  <2>1. R[0] = <<>>
    BY <1>3 DEF Referring!IsRun
  <2>2. DOMAIN <<>> = {} /\ 1 .. 0 = {} /\ <<>> = [v \in DOMAIN <<>> |-> <<>>[v]]
    BY EmptyEnv
  <2>3. IsFiniteSet({})
    BY FS_EmptySet
  <2>4. IsMap(<<>>, refs, root, 0)
    BY <2>2, <2>3 DEF IsMap
  <2>. QED
    BY <2>1, <2>4
<1>5. ASSUME NEW k \in Nat, k \in Good PROVE k + 1 \in Good
  <2>. SUFFICES ASSUME k + 1 <= n PROVE IsMap(R[k + 1], refs, root, k + 1)
    OBVIOUS
  <2>1. k <= n /\ k + 1 \in 1 .. n /\ (k + 1) - 1 = k
    BY <1>1
  <2>2. R[k + 1] = Refer(root, R[k], refs[k + 1])
    BY <1>3, <2>1 DEF Referring!IsRun
  <2>3. IsMap(R[k], refs, root, k)
    BY <1>5, <2>1
  <2>. QED
    BY <2>2, <2>3, MapPut DEF Refer
<1>. HIDE DEF Good
<1>6. n \in Good
  BY <1>1, <1>4, <1>5, NatSetInduction
<1>. QED
  BY <1>1, <1>3, <1>6 DEF Good, n, m

\* Every reference of a policy is there, with what the last to that variable gives.
LEMMA ResolvedHasSecrets ==
    ASSUME NEW r, IsSeq(r.policy.secrets)
    PROVE  LET m == ResolveSecrets(r.policy.secrets, r.workdir)
           IN  /\ m = [v \in DOMAIN m |-> m[v]] /\ IsFiniteSet(DOMAIN m)
               /\ \A i \in DOMAIN r.policy.secrets :
                    LET var == r.policy.secrets[i].env
                    IN  var \in DOMAIN m /\ m[var] = SecretOf(r, var)
<1>. DEFINE refs == r.policy.secrets
            n == Len(refs)
            m == ResolveSecrets(refs, r.workdir)
<1>1. IsMap(m, refs, r.workdir, n)
  BY SecretsMap
<1>2. n \in Nat /\ DOMAIN refs = 1 .. n
  BY SeqFacts
<1>3. ASSUME NEW i \in DOMAIN refs
      PROVE  refs[i].env \in DOMAIN m /\ m[refs[i].env] = SecretOf(r, refs[i].env)
  <2>. DEFINE var == refs[i].env
  <2>. HIDE DEF m, n
  <2>1. var \in DOMAIN m
    BY <1>1, <1>2 DEF IsMap
  <2>2. PICK l \in 1 .. n : LastOf(refs, n, l, var) /\ m[var] = LoadSecretBytes(refs[l].from, r.workdir)
    BY <1>1, <2>1 DEF IsMap
  <2>. DEFINE IsLast(k) == refs[k].env = var /\ \A j \in DOMAIN refs : refs[j].env = var => j <= k
  <2>3. l \in DOMAIN refs /\ IsLast(l)
    BY <1>2, <2>2 DEF LastOf
  <2>4. \A k \in DOMAIN refs : IsLast(k) => k = l
    BY <1>2, <2>3
  <2>5. (CHOOSE k \in DOMAIN refs : IsLast(k)) = l
    BY <2>3, <2>4
  <2>6. SecretOf(r, var) = LoadSecretBytes(refs[CHOOSE k \in DOMAIN refs : IsLast(k)].from, r.workdir)
    BY DEF SecretOf
  <2>. QED
    BY <2>1, <2>2, <2>5, <2>6
<1>4. m = [v \in DOMAIN m |-> m[v]] /\ IsFiniteSet(DOMAIN m)
  BY <1>1 DEF IsMap
<1>. QED
  BY <1>3, <1>4

-----------------------------------------------------------------------------
(* What an invocation of create or run makes *)

\* What the environment has once its secrets are in.
EnvResolved ==
    job \in Creates /\ job.step # "secrets" =>
        /\ Resolvable(job.policy.secrets, job.workdir) /\ IsText(job.env)
        /\ job.env = ResolveSecrets(job.policy.secrets, job.workdir)

\* Past its proxy step, the invocation of an allowlist policy has a proxy, whose
\* port is the one in its environment.
PortIsProxys ==
    job \in Creates /\ job.step \notin {"secrets", "proxy"} /\ job.policy.network = "allowlist"
    => port = proxy /\ port \in 1 .. MaxCommands

\* What a policy is made of.
LEMMA PolicyFacts ==
    ASSUME NEW q \in Policies
    PROVE  /\ DOMAIN q = {"workdir", "read_only", "read_write", "network", "millicores", "memory", "secrets"}
           /\ q.network \in {"none", "allowlist", "unrestricted"}
           /\ IsSeq(q.read_only) /\ IsSeq(q.read_write) /\ IsSeq(q.secrets)
<1>1. PolicyType(q)
  BY ConfineAssumption
<1>. QED
  BY <1>1 DEF PolicyType, IsSeq

\* What an invocation of create or run is made of.
LEMMA CreateFields ==
    ASSUME NEW j \in Creates
    PROVE  /\ DOMAIN j = {"step", "ephemeral", "mech", "policy", "workdir", "command", "env"}
           /\ j.ephemeral \in BOOLEAN /\ j.mech \in Mechs /\ j.policy \in Policies
           /\ j.workdir \in Workdirs /\ j.command \in Commands
BY Zenon DEF Creates

\* The request of an invocation whose secrets are in.
LEMMA JobIsRequest ==
    ASSUME job \in Creates, job.step # "secrets", EnvResolved
    PROVE  /\ IsRequest(job) /\ SecretsThere(Request)
           /\ \A i \in DOMAIN job.policy.secrets :
                LET var == job.policy.secrets[i].env
                IN  var \in DOMAIN job.env /\ job.env[var] = SecretOf(Request, var)
<1>1. /\ DOMAIN job = {"step", "ephemeral", "mech", "policy", "workdir", "command", "env"}
      /\ job.policy \in Policies /\ job.command \in Commands
  BY CreateFields
<1>2. /\ DOMAIN job.policy = {"workdir", "read_only", "read_write", "network", "millicores", "memory", "secrets"}
      /\ IsSeq(job.policy.read_only) /\ IsSeq(job.policy.read_write) /\ IsSeq(job.policy.secrets)
  BY <1>1, PolicyFacts
<1>3. IsSeq(job.command)
  BY <1>1, ConfineAssumption DEF IsSeq
<1>4. Request.policy = job.policy /\ Request.workdir = job.workdir
  BY DEF Request
<1>5. job.env = ResolveSecrets(job.policy.secrets, job.workdir)
  BY DEF EnvResolved
<1>6. /\ job.env = [v \in DOMAIN job.env |-> job.env[v]] /\ IsFiniteSet(DOMAIN job.env)
      /\ \A i \in DOMAIN job.policy.secrets :
            LET var == job.policy.secrets[i].env
            IN  var \in DOMAIN job.env /\ job.env[var] = SecretOf(Request, var)
  BY <1>2, <1>4, <1>5, ResolvedHasSecrets
<1>7. /\ \A i \in DOMAIN job.policy.secrets :
            LoadSecretBytes(job.policy.secrets[i].from, job.workdir) # Missing
      /\ \A v \in DOMAIN job.env : job.env[v][1] = "text"
  BY DEF EnvResolved, Resolvable, IsText
<1>8. SecretsThere(Request)
  BY <1>4, <1>6, <1>7 DEF SecretsThere
<1>. QED
  BY <1>1, <1>2, <1>3, <1>6, <1>8 DEF IsRequest

Typed(box) == box.read \subseteq HostPaths /\ box.write \subseteq HostPaths /\ box.net \in Nets

\* All that is asked of a container.
Full(box, r) ==
    /\ AsAsked(box, r) /\ Limited(box, r) /\ box.cwd = StartsIn(r)
    /\ HasSecrets(box, r) /\ SecretsThere(r)

\* The same sandbox, as a container and as the process in it.
SameBox(box, c) ==
    /\ box.read = c.read /\ box.write = c.write /\ box.net = c.net
    /\ box.env = c.env /\ box.cwd = c.cwd /\ box.cpus = c.cpus /\ box.memory = c.memory

\* What holds of a container holds of the process in it.
LEMMA SameFull ==
    ASSUME NEW box, NEW c, SameBox(box, c)
    PROVE  /\ Typed(c) => Typed(box)
           /\ \A r : AsAsked(c, r) => AsAsked(box, r)
           /\ \A r : Full(c, r) => Full(box, r)
<1>1. Typed(c) => Typed(box)
  BY DEF SameBox, Typed
<1>2. \A r : AsAsked(c, r) => AsAsked(box, r)
  BY DEF SameBox, AsAsked, WithinGrant, CoversGrant
<1>3. \A r : Limited(c, r) => Limited(box, r)
  BY DEF SameBox, Limited
<1>4. \A r : HasSecrets(c, r) => HasSecrets(box, r)
  BY DEF SameBox, HasSecrets
<1>5. box.cwd = c.cwd
  BY DEF SameBox
<1>. QED
  BY <1>1, <1>2, <1>3, <1>4, <1>5 DEF Full

\* A proxied environment is the proxy's, and elsewhere what it was.
LEMMA ProxiedFacts ==
    ASSUME NEW p, NEW env
    PROVE  LET m == ProxiedEnv(p, env)
           IN  /\ \A v \in ProxyVars : v \in DOMAIN m /\ m[v] = Url("gateway", p)
               /\ \A v \in DOMAIN env : v \notin ProxyVars \cup {"NO_PROXY"} => v \in DOMAIN m /\ m[v] = env[v]
<1>1. "NO_PROXY" \notin ProxyVars
  BY DEF ProxyVars
<1>2. DOMAIN ProxyEnv(p) = ProxyVars /\ \A v \in ProxyVars : ProxyEnv(p)[v] = Url("gateway", p)
  BY DEF ProxyEnv
<1>. DEFINE a == ProxyEnv(p)
            o == Over(a, env)
<1>. HIDE DEF a
<1>3. /\ DOMAIN o = ProxyVars \cup DOMAIN env
      /\ \A v \in ProxyVars : o[v] = Url("gateway", p)
      /\ \A v \in DOMAIN env : v \notin ProxyVars => o[v] = env[v]
  BY <1>2 DEF Over, a
<1>. HIDE DEF o
<1>. DEFINE m == Put(o, "NO_PROXY", <<"text", "localhost">>)
<1>4. DOMAIN m = DOMAIN o \cup {"NO_PROXY"} /\ \A v \in DOMAIN o : v # "NO_PROXY" => m[v] = o[v]
  BY DEF Put
<1>. HIDE DEF m
<1>5. /\ \A v \in ProxyVars : v \in DOMAIN m /\ m[v] = Url("gateway", p)
      /\ \A v \in DOMAIN env : v \notin ProxyVars \cup {"NO_PROXY"} => v \in DOMAIN m /\ m[v] = env[v]
  BY <1>1, <1>3, <1>4
<1>. QED
  BY <1>5 DEF ProxiedEnv, m, o, a

\* The container of an invocation has all its request asks for, the port of its
\* environment and the command it was given.
LEMMA ContainerMade ==
    ASSUME job \in Creates, job.step \notin {"secrets", "proxy"}, job.mech = "podman",
           EnvResolved, PortIsProxys
    PROVE  LET c == Made(ContainerOf(Args))
           IN  /\ Typed(c) /\ Full(c, Request)
               /\ job.policy.network = "allowlist" =>
                    \A v \in ProxyVars : v \in DOMAIN c.env /\ c.env[v] = Url("gateway", port)
               /\ job.command # <<>> =>
                    \/ c.command = job.command
                    \/ /\ job.policy.network = "allowlist"
                       /\ Words(c.command) = Cleaned(Words(job.command))
<1>. DEFINE b == ContainerOf(Args)
            c == Made(b)
            r == Request
<1>1. /\ IsRequest(job) /\ SecretsThere(r)
      /\ \A i \in DOMAIN job.policy.secrets :
            LET var == job.policy.secrets[i].env
            IN  var \in DOMAIN job.env /\ job.env[var] = SecretOf(r, var)
  BY JobIsRequest
<1>2. job.policy.network \in {"none", "allowlist", "unrestricted"}
  BY CreateFields, PolicyFacts
<1>3. r.mech = "podman" /\ r.policy = job.policy /\ r.workdir = job.workdir
  BY DEF Request
<1>4. job.policy.network # "allowlist" => IsBox(b, job) /\ b.env = job.env /\ b.command = CommandOf(job)
  <2>. SUFFICES ASSUME job.policy.network # "allowlist"
                PROVE  IsBox(b, job) /\ b.env = job.env /\ b.command = CommandOf(job)
    OBVIOUS
  <2>1. Args = BuildRunArgs(job)
    BY DEF Args, CreateArgs
  <2>2. job.policy.network \in {"none", "unrestricted"}
    BY <1>2
  <2>. QED
    BY <1>1, <2>1, <2>2, BuildContainer
<1>5. job.policy.network = "allowlist" =>
        /\ IsBox(b, job) /\ b.env = ProxiedEnv(port, job.env)
        /\ Words(b.command) = Cleaned(Words(CommandOf(job)))
  <2>. SUFFICES ASSUME job.policy.network = "allowlist"
                PROVE  /\ IsBox(b, job) /\ b.env = ProxiedEnv(port, job.env)
                       /\ Words(b.command) = Cleaned(Words(CommandOf(job)))
    OBVIOUS
  <2>1. Args = BuildAllowlistArgs(job, port)
    BY DEF Args, CreateArgs
  <2>2. port # 0
    BY DEF PortIsProxys
  <2>. QED
    BY <1>1, <2>1, <2>2, AllowlistContainer
<1>. HIDE DEF b, r
<1>6. IsBox(b, job)
  BY <1>4, <1>5
<1>7. /\ c.read = b.read /\ c.write = b.write /\ c.net = b.net /\ c.env = b.env
      /\ c.cpus = b.cpus /\ c.memory = b.memory /\ c.command = b.command
      /\ c.cwd = IF b.cwd = "workspace" THEN job.workdir ELSE <<>>
  BY <1>6 DEF IsBox, Made
<1>. HIDE DEF c
<1>8. AsAsked(c, r)
  BY <1>3, <1>6, <1>7, BoxAsAsked
<1>9. Limited(c, r)
  BY <1>3, <1>6, <1>7 DEF IsBox, Limited
<1>10. c.cwd = StartsIn(r)
  BY <1>3, <1>6, <1>7 DEF IsBox, StartsIn
<1>11. HasSecrets(c, r)
  <2>1. CASE job.policy.network # "allowlist"
    BY <1>1, <1>3, <1>4, <1>7, <2>1 DEF HasSecrets
  <2>2. CASE job.policy.network = "allowlist"
    <3>1. c.env = ProxiedEnv(port, job.env)
      BY <1>5, <1>7, <2>2
    <3>2. \A v \in DOMAIN job.env : v \notin ProxyVars \cup {"NO_PROXY"} =>
            v \in DOMAIN c.env /\ c.env[v] = job.env[v]
      BY <3>1, ProxiedFacts
    <3>. QED
      BY <1>1, <1>3, <2>2, <3>2 DEF HasSecrets
  <2>. QED
    BY <2>1, <2>2
<1>12. job.policy.network = "allowlist" =>
         \A v \in ProxyVars : v \in DOMAIN c.env /\ c.env[v] = Url("gateway", port)
  BY <1>5, <1>7, ProxiedFacts
<1>13. Typed(c)
  <2>1. c.read \subseteq HostPaths /\ c.write \subseteq HostPaths
    BY <1>6, <1>7 DEF IsBox, Below
  <2>2. c.net \in Nets
    BY <1>6, <1>7 DEF IsBox, Nets
  <2>. QED
    BY <2>1, <2>2 DEF Typed
<1>14. job.command # <<>> =>
         \/ c.command = job.command
         \/ /\ job.policy.network = "allowlist"
            /\ Words(c.command) = Cleaned(Words(job.command))
  BY <1>4, <1>5, <1>7 DEF CommandOf
<1>15. Full(c, r)
  BY <1>1, <1>8, <1>9, <1>10, <1>11 DEF Full
<1>. QED
  BY <1>12, <1>13, <1>14, <1>15 DEF b, c, r

-----------------------------------------------------------------------------
(* What a generated profile allows *)

\* The directories of the rules of one kind.
LEMMA RulesOn ==
    ASSUME NEW q, NEW w, NEW ro, NEW rw,
           ro = ResolveHostPaths(q, w).ro, rw = ResolveHostPaths(q, w).rw
    PROVE  LET rules == GenerateSeatbeltProfile(q, w)
           IN  /\ On(rules, "read") = SystemDirs \cup ro \cup rw
               /\ On(rules, "write") = rw \cup TempDirs
               /\ On(rules, "network") = {r.on : r \in NetworkRules(q.network)}
<1>. DEFINE rules == GenerateSeatbeltProfile(q, w)
            reads == SystemDirs \cup ro \cup rw
            writes == rw \cup TempDirs
<1>1. rules = AllowAll("read", reads) \cup AllowAll("write", writes) \cup NetworkRules(q.network)
  BY DEF GenerateSeatbeltProfile, ResolveHostPaths
<1>2. \A s \in AllowAll("read", reads) : s.op = "read" /\ s.on \in reads
  BY DEF AllowAll, Allow
<1>3. \A s \in AllowAll("write", writes) : s.op = "write" /\ s.on \in writes
  BY DEF AllowAll, Allow
<1>4. \A s \in NetworkRules(q.network) : s.op = "network"
  BY DEF NetworkRules, Allow
<1>5. \A op, dirs : \A d \in dirs : \E s \in AllowAll(op, dirs) : s.op = op /\ s.on = d
  <2>. SUFFICES ASSUME NEW op, NEW dirs, NEW d \in dirs
                PROVE  \E s \in AllowAll(op, dirs) : s.op = op /\ s.on = d
    OBVIOUS
  <2>1. Allow(op, d) \in AllowAll(op, dirs)
    BY DEF AllowAll
  <2>2. Allow(op, d).op = op /\ Allow(op, d).on = d
    BY DEF Allow
  <2>. QED
    BY <2>1, <2>2
<1>. HIDE DEF reads, writes, rules
<1>7. On(rules, "read") = reads
  BY <1>1, <1>2, <1>3, <1>4, <1>5 DEF On
<1>8. On(rules, "write") = writes
  BY <1>1, <1>2, <1>3, <1>4, <1>5 DEF On
<1>9. On(rules, "network") = {r.on : r \in NetworkRules(q.network)}
  BY <1>1, <1>2, <1>3, <1>4 DEF On
<1>. QED
  BY <1>7, <1>8, <1>9 DEF reads, writes, rules

\* The network a profile opens is the one its policy's mode grants.
LEMMA ProfileReach ==
    ASSUME NEW r, r.mech = "mac"
    PROVE  Allowed(GenerateSeatbeltProfile(r.policy, r.workdir)).net \subseteq MayReach(r)
<1>. DEFINE hosts == {s.on : s \in NetworkRules(r.policy.network)}
<1>1. Allowed(GenerateSeatbeltProfile(r.policy, r.workdir)).net
        = (IF <<"localhost">> \in hosts THEN {"host"} ELSE {})
          \cup (IF <<"*">> \in hosts THEN {"outside"} ELSE {})
  BY RulesOn DEF Allowed
<1>2. r.policy.network = "none" => hosts = {}
  BY DEF NetworkRules
<1>3. r.policy.network = "allowlist" => hosts = {<<"localhost">>}
  BY DEF NetworkRules, Allow
<1>4. <<"*">> # <<"localhost">>
  OBVIOUS
<1>. HIDE DEF hosts
<1>. QED
  BY <1>1, <1>2, <1>3, <1>4 DEF MayReach

\* What sandbox-exec allows under the profile generated for a request is what
\* the request asks for.
LEMMA ProfileAsAsked ==
    ASSUME NEW r, r.mech = "mac", NEW box,
           LET a == Allowed(GenerateSeatbeltProfile(r.policy, r.workdir))
           IN  box.read = a.read /\ box.write = a.write /\ box.net = a.net
    PROVE  AsAsked(box, r)
<1>. DEFINE ro == Granted(r).ro
            rw == Granted(r).rw
            rules == GenerateSeatbeltProfile(r.policy, r.workdir)
<1>1. box.read = Below(SystemDirs \cup ro \cup rw) /\ box.write = Below(rw \cup TempDirs)
  <2>1. On(rules, "read") = SystemDirs \cup ro \cup rw /\ On(rules, "write") = rw \cup TempDirs
    BY RulesOn DEF Granted
  <2>2. box.read = Allowed(rules).read /\ box.write = Allowed(rules).write
    OBVIOUS
  <2>. HIDE DEF rules, ro, rw
  <2>3. Allowed(rules).read = Below(On(rules, "read")) /\ Allowed(rules).write = Below(On(rules, "write"))
    BY DEF Allowed
  <2>. QED
    BY <2>1, <2>2, <2>3
<1>2. WithinGrant(box, r)
  <2>1. Below(SystemDirs \cup ro \cup rw) = Below(ro \cup rw) \cup Below(SystemDirs)
    BY DEF Below
  <2>2. Below(rw \cup TempDirs) = Below(rw) \cup Below(TempDirs)
    BY DEF Below
  <2>3. Below(ro \cup rw) \subseteq Below(Real(ro \cup rw)) /\ Below(rw) \subseteq Below(Real(rw))
    BY BelowWritten
  <2>4. MayRead(r) = Below(Real(ro \cup rw)) \cup Below(SystemDirs)
        /\ MayWrite(r) = Below(Real(rw)) \cup Below(TempDirs)
    BY DEF MayRead, MayWrite
  <2>. QED
    BY <1>1, <2>1, <2>2, <2>3, <2>4, ProfileReach DEF WithinGrant
<1>3. CoversGrant(box, r)
  <2>. DEFINE A == Existing((ro \cup rw) \ DOMAIN Denotes)
              B == Existing(rw \ DOMAIN Denotes)
  <2>1. A \subseteq SystemDirs \cup ro \cup rw /\ B \subseteq rw \cup TempDirs
    BY DEF Existing
  <2>2. A \cap DOMAIN Denotes = {} /\ B \cap DOMAIN Denotes = {}
    BY DEF Existing
  <2>. HIDE DEF A, B, ro, rw
  <2>3. Real(A) = A /\ Real(B) = B
    BY <2>2, BelowWritten
  <2>4. Below(Real(A)) \subseteq box.read /\ Below(Real(B)) \subseteq box.write
    BY <1>1, <2>1, <2>3, BelowMonotone
  <2>. QED
    BY <2>4 DEF CoversGrant, Existing, A, B, ro, rw
<1>. QED
  BY <1>2, <1>3 DEF AsAsked

-----------------------------------------------------------------------------
(* The profile on disk is always one that was asked for *)

InstanceOK == instance = [f \in {"profile", "workdir", "limits"} |-> instance[f]]

\* The strengthening: exec has no request of its own, so what it finds in the
\* instance must be known to come from one.
ProfileAsked ==
    Readable(instance.profile) =>
        \E r \in asked : /\ r.mech = "mac"
                         /\ instance.profile.data = GenerateSeatbeltProfile(r.policy, r.workdir)

Inv == InstanceOK /\ ProfileAsked /\ SeatbeltConfines

\* A step that leaves the process alone, or ends it, and forgets no request.
LEMMA ProcessFrame ==
    ASSUME SeatbeltConfines, asked \subseteq asked', process' = process \/ process' = None
    PROVE  SeatbeltConfines'
<1>1. CASE process' = None
  BY <1>1 DEF SeatbeltConfines
<1>2. CASE process' = process
  <2>1. Origins(process) \subseteq Origins(process)'
    BY <1>2 DEF Origins
  <2>2. \A r : AsAsked(process, r) => AsAsked(process, r)'
    BY <1>2 DEF AsAsked, WithinGrant, CoversGrant
  <2>. QED
    BY <1>2, <2>1, <2>2 DEF SeatbeltConfines
<1>. QED
  BY <1>1, <1>2

\* A step that leaves the instance alone, or removes it.
LEMMA InstanceFrame ==
    ASSUME InstanceOK, ProfileAsked, asked \subseteq asked',
           instance' = instance \/ instance' = NoInstance
    PROVE  InstanceOK' /\ ProfileAsked'
BY DEF InstanceOK, ProfileAsked, NoInstance, Readable, Absent

\* A step that writes a file of the instance, in full or not at all.
LEMMA InstanceWritten ==
    ASSUME InstanceOK, ProfileAsked, NEW s \in DOMAIN Writes, InInstance(s),
           NEW c, c = Holds(Written[Writes[s]]) \/ c = Empty,
           instance' = [instance EXCEPT ![Writes[s]] = c],
           asked' = asked \cup {Request}
    PROVE  InstanceOK' /\ ProfileAsked'
<1>1. Writes[s] \in {"profile", "workdir", "limits"}
  BY DEF Writes
<1>2. InstanceOK'
  BY <1>1 DEF InstanceOK
<1>3. CASE Writes[s] = "profile"
  <2>1. instance'.profile = c
    BY <1>1, <1>3 DEF InstanceOK
  <2>2. CASE c = Empty
    <3>1. ~Readable(instance'.profile)
      BY <2>1, <2>2 DEF Readable, Empty
    <3>. QED
      BY <1>2, <3>1 DEF ProfileAsked, Readable
  <2>3. CASE c = Holds(Written[Writes[s]])
    <3>0. Written[Writes[s]] = Profile
      BY <1>3 DEF Written
    <3>1. instance'.profile.data = GenerateSeatbeltProfile(Request.policy, Request.workdir)
      BY <2>1, <2>3, <3>0 DEF Holds, Profile, Request
    <3>2. Request \in asked' /\ Request.mech = "mac"
      BY DEF Request, InInstance
    <3>3. ProfileAsked'
      BY <3>1, <3>2 DEF ProfileAsked
    <3>. QED
      BY <1>2, <3>3
  <2>. QED
    BY <2>2, <2>3
<1>4. CASE Writes[s] # "profile"
  <2>1. instance'.profile = instance.profile
    BY <1>1, <1>4 DEF InstanceOK
  <2>. QED
    BY <1>2, <2>1 DEF ProfileAsked
<1>. QED
  BY <1>2, <1>3, <1>4

\* The two steps that start a process under seatbelt.
LEMMA SpawnConfined ==
    ASSUME NEW op, NEW request, NEW r, NEW profile, NEW q, NEW w,
           profile = GenerateSeatbeltProfile(r.policy, r.workdir), r.mech = "mac",
           job.mech = "mac",
           \/ op = "run" /\ request = r
           \/ op = "exec" /\ r \in asked,
           SpawnSandboxed(op, request, profile, q, w), asked' = asked
    PROVE  SeatbeltConfines'
<1>1. PICK x \in SandboxExec(profile, job.command), lim \in Rlimits(q) :
            Spawn(op, request, Sandboxed(x.profile, lim, q, w, job.env), x.command)
  BY DEF SpawnSandboxed
<1>2. /\ process'.op = op /\ process'.mech = "mac" /\ process'.request = request
      /\ process'.typed = job.command
      /\ process'.read = Allowed(x.profile).read
      /\ process'.write = Allowed(x.profile).write
      /\ process'.net = Allowed(x.profile).net
  BY <1>1 DEF Spawn, Sandboxed
<1>3. CASE TakenForOptions(job.command)
  BY <1>2, <1>3 DEF SeatbeltConfines, AsOptions
<1>4. CASE ~TakenForOptions(job.command)
  <2>1. x.profile = profile
    BY <1>4 DEF SandboxExec
  <2>2. AsAsked(process', r)
    BY <1>2, <2>1, ProfileAsAsked
  <2>3. r \in Origins(process)'
    BY <1>2 DEF Origins
  <2>. QED
    BY <2>2, <2>3 DEF SeatbeltConfines, AsAsked, WithinGrant, CoversGrant
<1>. QED
  BY <1>3, <1>4

\* Inv is inductive.
LEMMA InvStep == Inv /\ [Next]_vars => Inv'
<1>. SUFFICES ASSUME Inv, [Next]_vars PROVE Inv'
  OBVIOUS
<1>. USE DEF Inv
<1>1. ASSUME asked' = asked, process' = process \/ process' = None,
             instance' = instance \/ instance' = NoInstance
      PROVE  Inv'
  BY <1>1, ProcessFrame, InstanceFrame
<1>2. CASE UNCHANGED vars
  BY <1>1, <1>2 DEF vars
<1>3. CASE BeginCreate \/ BeginExec
  BY <1>1, <1>3 DEF BeginCreate, BeginExec, Begin
<1>4. CASE InjectSecrets \/ SecretsFail \/ MaybeStartProxy
  BY <1>1, <1>4 DEF InjectSecrets, SecretsFail, MaybeStartProxy
<1>5. CASE CreatePodman
  BY <1>5, ProcessFrame, InstanceFrame DEF CreatePodman
<1>6. CASE RunPodman \/ ExecPodman
  <2>1. process'.mech # "mac"
    BY <1>6 DEF RunPodman, ExecPodman, Spawn
  <2>2. UNCHANGED <<instance, asked>>
    BY <1>6 DEF RunPodman, ExecPodman
  <2>. QED
    BY <2>1, <2>2, InstanceFrame DEF SeatbeltConfines
<1>7. CASE EngineRefuses \/ InsertRecord \/ AlreadyExists \/ Rm \/ ExecFails \/ SandboxExecRefuses
           \/ ProcessEnds
  BY <1>1, <1>7 DEF EngineRefuses, InsertRecord, AlreadyExists, Rm, ExecFails, SandboxExecRefuses,
     ProcessEnds
<1>8. CASE RunMac
  <2>1. SpawnSandboxed("run", Request, Profile, job.policy, job.workdir)
    BY <1>8 DEF RunMac
  <2>2. /\ Profile = GenerateSeatbeltProfile(Request.policy, Request.workdir)
        /\ Request.mech = "mac" /\ job.mech = "mac"
        /\ UNCHANGED <<instance, asked>>
    BY <1>8 DEF RunMac, Profile, Request
  <2>3. SeatbeltConfines'
    BY <2>1, <2>2, SpawnConfined
  <2>. QED
    BY <2>2, <2>3, InstanceFrame
<1>9. CASE ExecMac
  <2>1. PICK r \in asked : /\ r.mech = "mac"
                           /\ instance.profile.data = GenerateSeatbeltProfile(r.policy, r.workdir)
    BY <1>9 DEF ExecMac, ProfileAsked
  <2>2. SpawnSandboxed("exec", None, instance.profile.data, InstancePolicy, InstanceWorkdir)
    BY <1>9 DEF ExecMac
  <2>3. job.mech = "mac" /\ UNCHANGED <<instance, asked>>
    BY <1>9 DEF ExecMac
  <2>4. SeatbeltConfines'
    BY <2>1, <2>2, <2>3, SpawnConfined
  <2>. QED
    BY <2>3, <2>4, InstanceFrame
<1>10. ASSUME NEW s \in DOMAIN Writes, WriteInstance(s) PROVE Inv'
  BY <1>10, ProcessFrame, InstanceWritten DEF WriteInstance
<1>11. CASE Killed
  <2>1. process' = None
    BY <1>11 DEF Killed
  <2>2. CASE UNCHANGED <<instance, asked>>
    BY <1>1, <2>1, <2>2
  <2>3. CASE \E s \in DOMAIN Writes :
                /\ InInstance(s)
                /\ instance' = [instance EXCEPT ![Writes[s]] = Empty]
                /\ asked' = asked \cup {Request}
    BY <2>1, <2>3, ProcessFrame, InstanceWritten
  <2>. QED
    BY <1>11, <2>2, <2>3 DEF Killed
<1>12. CASE LimitsNotWritten
  <2>1. process' = process /\ asked' = asked
    BY <1>12 DEF LimitsNotWritten
  <2>2. CASE instance' = instance
    BY <1>1, <2>1, <2>2
  <2>3. CASE instance' = [instance EXCEPT !.limits = Empty]
    <3>1. InstanceOK' /\ instance'.profile = instance.profile
      BY <2>3 DEF InstanceOK
    <3>2. ProfileAsked'
      BY <2>1, <3>1 DEF ProfileAsked
    <3>. QED
      BY <2>1, <3>1, <3>2, ProcessFrame
  <2>. QED
    BY <1>12, <2>2, <2>3 DEF LimitsNotWritten
<1>. QED
  BY <1>2, <1>3, <1>4, <1>5, <1>6, <1>7, <1>8, <1>9, <1>10, <1>11, <1>12 DEF Next

\* Whatever sequence of creates, runs, execs and rms, and wherever they are
\* killed, what seatbelt enforces is what one request asked for: nothing beyond
\* it, and all of it that is written as a real path.  It rests on subpath going
\* by components and on an allow being for the real path of a file (Allowed), and
\* is for commands that do not begin with a dash.
THEOREM SeatbeltIsAsAsked == Spec => []SeatbeltConfines
<1>1. Init => Inv
  BY DEF Init, Inv, InstanceOK, NoInstance, ProfileAsked, SeatbeltConfines, Readable, Absent
<1>2. Inv => SeatbeltConfines
  BY DEF Inv
<1>. QED
  BY <1>1, <1>2, InvStep, PTL DEF Spec

-----------------------------------------------------------------------------
(* What spawn_sandboxed makes *)

\* spawn_sandboxed points the proxy's variables at the proxy's port, and passes on
\* what else it is given.
LEMMA SpawnEnvFacts ==
    ASSUME NEW q, NEW env, NEW p
    PROVE  LET m == SpawnEnv(q, HostEnv, env, p, ProxyVars)
           IN  /\ q.network = "allowlist" /\ p # 0 =>
                    \A v \in ProxyVars : v \in DOMAIN m /\ m[v] = Url("localhost", p)
               /\ \A v \in DOMAIN env :
                    \/ q.network = "allowlist" /\ v \in ProxyVars \cup {"NO_PROXY"}
                    \/ v \in DOMAIN m /\ m[v] = env[v]
<1>. DEFINE some == [v \in ProxyVars |-> <<"url", "localhost", p>>]
            all == Put(some, "NO_PROXY", <<"text", "localhost">>)
            theirs == IF q.network = "allowlist" /\ p # 0 THEN all ELSE <<>>
            o == Over(env, HostEnv)
            m == Over(theirs, o)
<1>1. m = SpawnEnv(q, HostEnv, env, p, ProxyVars)
  BY DEF SpawnEnv
<1>2. "NO_PROXY" \notin ProxyVars
  BY DEF ProxyVars
<1>3. DOMAIN some = ProxyVars /\ \A v \in ProxyVars : some[v] = Url("localhost", p)
  BY DEF Url
<1>. HIDE DEF some
<1>4. DOMAIN all = ProxyVars \cup {"NO_PROXY"} /\ \A v \in ProxyVars : all[v] = Url("localhost", p)
  BY <1>2, <1>3 DEF Put
<1>. HIDE DEF all
<1>5. \A v \in DOMAIN env : v \in DOMAIN o /\ o[v] = env[v]
  BY DEF Over
<1>. HIDE DEF o
<1>6. ~(q.network = "allowlist" /\ p # 0) => DOMAIN theirs = {}
  OBVIOUS
<1>7. q.network = "allowlist" /\ p # 0 => theirs = all
  OBVIOUS
<1>. HIDE DEF theirs
<1>8. /\ DOMAIN m = DOMAIN theirs \cup DOMAIN o
      /\ \A v \in DOMAIN theirs : m[v] = theirs[v]
      /\ \A v \in DOMAIN o : v \notin DOMAIN theirs => m[v] = o[v]
  BY DEF Over
<1>. HIDE DEF m
<1>9. q.network = "allowlist" /\ p # 0 =>
        \A v \in ProxyVars : v \in DOMAIN m /\ m[v] = Url("localhost", p)
  BY <1>4, <1>7, <1>8
<1>10. ASSUME NEW v \in DOMAIN env
       PROVE  \/ q.network = "allowlist" /\ v \in ProxyVars \cup {"NO_PROXY"}
              \/ v \in DOMAIN m /\ m[v] = env[v]
  BY <1>4, <1>5, <1>6, <1>7, <1>8
<1>. QED
  BY <1>1, <1>9, <1>10 DEF m

\* What is sandboxed has the limits of the policy and the directory that are
\* given with the profile.
LEMMA SandboxedFacts ==
    ASSUME NEW profile, NEW q, NEW lim \in Rlimits(q), NEW w, NEW env, NEW box,
           SameBox(box, Sandboxed(profile, lim, q, w, env))
    PROVE  /\ Typed(box) /\ box.cwd = w
           /\ [cpus |-> box.cpus, memory |-> box.memory] \in Rlimits(q)
<1>. DEFINE a == Allowed(profile)
<1>1. /\ box.read = a.read /\ box.write = a.write /\ box.net = a.net
      /\ box.cwd = w /\ box.memory = lim.memory /\ box.cpus = lim.cpus
  BY DEF SameBox, Sandboxed
<1>2. a.read \subseteq HostPaths /\ a.write \subseteq HostPaths /\ a.net \in Nets
  BY DEF Allowed, Below, Nets
<1>3. lim.memory \in {q.memory, NoLimit} /\ lim.cpus \in {CpuSeconds(q.millicores), NoLimit}
  BY DEF Rlimits
<1>4. [cpus |-> box.cpus, memory |-> box.memory] \in Rlimits(q)
  BY <1>1, <1>3 DEF Rlimits
<1>. QED
  BY <1>1, <1>2, <1>4 DEF Typed

\* What is sandboxed by the profile of a request is as it asks.
LEMMA SandboxedAsAsked ==
    ASSUME NEW profile, NEW q, NEW lim \in Rlimits(q), NEW w, NEW env, NEW box,
           SameBox(box, Sandboxed(profile, lim, q, w, env)),
           NEW r, r.mech = "mac", profile = GenerateSeatbeltProfile(r.policy, r.workdir)
    PROVE  AsAsked(box, r)
<1>. DEFINE a == Allowed(profile)
<1>1. box.read = a.read /\ box.write = a.write /\ box.net = a.net
  BY DEF SameBox, Sandboxed
<1>. QED
  BY <1>1, ProfileAsAsked

\* What sandbox-exec runs, and under which profile, when it takes no word of the
\* command for an option.
LEMMA Obeyed ==
    ASSUME NEW profile, NEW command, ~TakenForOptions(command),
           NEW x \in SandboxExec(profile, command)
    PROVE  x.profile = profile /\ x.command = Shell(command, <<"zsh">>)
BY DEF SandboxExec

-----------------------------------------------------------------------------
(* The invocation *)

Counted == job # None => count # 0

CreateSteps == {"secrets", "proxy", "make", "workdir", "limits", "insert", "running"}

\* A create moved on is the same create.
LEMMA StepOfCreate ==
    ASSUME NEW j \in Creates, NEW s \in CreateSteps
    PROVE  LET k == [j EXCEPT !.step = s]
           IN  /\ k \in Creates /\ k.step = s /\ k.policy = j.policy /\ k.workdir = j.workdir
               /\ k.command = j.command /\ k.env = j.env /\ k.mech = j.mech
               /\ k.ephemeral = j.ephemeral
<1>. DEFINE k == [j EXCEPT !.step = s]
<1>1. k \in Creates
  BY Zenon DEF Creates, CreateSteps
<1>2. DOMAIN j = {"step", "ephemeral", "mech", "policy", "workdir", "command", "env"}
  BY CreateFields
<1>. QED
  BY <1>1, <1>2

\* An exec moved on is the same exec.
LEMMA StepOfExec ==
    ASSUME NEW j \in Execs
    PROVE  LET k == [j EXCEPT !.step = "running"]
           IN  /\ k \in Execs /\ k.step = "running" /\ k.command = j.command /\ k.mech = j.mech
BY DEF Execs

\* Which invocations get to which steps.
LEMMA JobKinds ==
    ASSUME TypeOK
    PROVE  /\ \A s \in CreateSteps \ {"running"} : At(s) => job \in Creates /\ job \notin Execs
           /\ At("exec") => job \in Execs /\ job \notin Creates
           /\ job \in Creates \cup Execs \cup {None}
           /\ None \notin Creates \cup Execs
<1>1. job \in Creates \cup Execs \cup {None}
  BY DEF TypeOK
<1>2. \A j \in Creates : DOMAIN j = {"step", "ephemeral", "mech", "policy", "workdir", "command", "env"}
                         /\ j.step # "exec"
  BY Zenon DEF Creates
<1>3. \A j \in Execs : DOMAIN j = {"step", "mech", "workdir", "command", "env"} /\ j.step \in {"exec", "running"}
  BY DEF Execs
<1>4. \A j : ~(j \in Creates /\ j \in Execs)
  BY <1>2, <1>3
<1>5. None \notin Creates \cup Execs
  BY NoneAssumption
<1>. QED
  BY <1>1, <1>2, <1>3, <1>4, <1>5 DEF At, CreateSteps

\* Secrets resolved, a port bound and an invocation begun stay so to its end.
LEMMA JobStep ==
    ASSUME TypeOK, EnvResolved, PortIsProxys, Counted, [Next]_vars
    PROVE  /\ job' \in Creates \cup Execs \cup {None}
           /\ EnvResolved' /\ PortIsProxys' /\ Counted'
           /\ port' \in 0 .. StalePort /\ count' \in 0 .. MaxCommands
           /\ proxy' # None => proxy' \in 1 .. MaxCommands /\ job' # None
<1>. DEFINE Goal == /\ job' \in Creates \cup Execs \cup {None}
                    /\ EnvResolved' /\ PortIsProxys' /\ Counted'
                    /\ port' \in 0 .. StalePort /\ count' \in 0 .. MaxCommands
                    /\ proxy' # None => proxy' \in 1 .. MaxCommands /\ job' # None
<1>0. /\ MaxCommands \in Nat /\ StalePort = MaxCommands + 1
      /\ port \in 0 .. StalePort /\ count \in 0 .. MaxCommands
      /\ proxy # None => proxy \in 1 .. MaxCommands /\ job # None
  BY ConfineAssumption DEF TypeOK, StalePort
<1>00. None \notin Creates \cup Execs
  BY NoneAssumption
<1>1. ASSUME UNCHANGED <<job, port, proxy>>, count' = count PROVE Goal
  BY <1>0, <1>1, JobKinds DEF EnvResolved, PortIsProxys, Counted
<1>2. ASSUME End, count' = count PROVE Goal
  BY <1>0, <1>00, <1>2 DEF End, EnvResolved, PortIsProxys, Counted
<1>3. ASSUME job \in Creates, job.step \notin {"secrets", "proxy"},
             NEW s \in CreateSteps \ {"secrets", "proxy"}, Goto(s),
             UNCHANGED <<port, proxy, count>>
      PROVE  Goal
  <2>1. /\ job' \in Creates /\ job'.step = s /\ job'.policy = job.policy /\ job'.workdir = job.workdir
        /\ job'.env = job.env
    BY <1>3, StepOfCreate DEF Goto
  <2>2. EnvResolved' /\ PortIsProxys'
    BY <1>3, <2>1 DEF EnvResolved, PortIsProxys
  <2>3. job # None /\ job' # None
    BY <1>00, <1>3, <2>1
  <2>. QED
    BY <1>0, <1>3, <2>1, <2>2, <2>3 DEF Counted
<1>4. ASSUME job \in Execs, Goto("running"), UNCHANGED <<port, proxy, count>> PROVE Goal
  <2>1. job' \in Execs /\ job'.step = "running"
    BY <1>4, StepOfExec DEF Goto
  <2>2. job' \notin Creates /\ job' # None /\ job # None
    <3>1. \A j \in Creates : DOMAIN j = {"step", "ephemeral", "mech", "policy", "workdir", "command", "env"}
      BY CreateFields
    <3>2. DOMAIN job' = {"step", "mech", "workdir", "command", "env"}
      BY <2>1 DEF Execs
    <3>. QED
      BY <1>00, <1>4, <2>1, <3>1, <3>2
  <2>. QED
    BY <1>0, <1>4, <2>1, <2>2 DEF EnvResolved, PortIsProxys, Counted
<1>5. CASE UNCHANGED vars
  BY <1>1, <1>5 DEF vars
<1>6. CASE BeginCreate
  <2>1. PICK q \in Policies, w \in Workdirs, m \in Mechs, c \in Commands, e \in BOOLEAN :
            Begin([step |-> "secrets", ephemeral |-> e, mech |-> m,
                   policy |-> q, workdir |-> w, command |-> c, env |-> <<>>])
    BY <1>6 DEF BeginCreate
  <2>2. job' \in Creates /\ job'.step = "secrets"
    <3>1. <<>> \in Envs
      BY DEF Envs
    <3>. DEFINE j == [step |-> "secrets", ephemeral |-> e, mech |-> m,
                      policy |-> q, workdir |-> w, command |-> c, env |-> <<>>]
    <3>2. j \in Creates
      BY <3>1, Zenon DEF Creates
    <3>3. job' = j
      BY <2>1 DEF Begin
    <3>. QED
      BY <3>2, <3>3
  <2>3. /\ job = None /\ count' = count + 1 /\ count < MaxCommands /\ port' \in {0, StalePort}
        /\ proxy' = proxy
    BY <2>1 DEF Begin
  <2>. QED
    BY <1>0, <2>2, <2>3 DEF EnvResolved, PortIsProxys, Counted
<1>7. CASE BeginExec
  <2>1. PICK c \in Commands, w \in Workdirs :
            Begin([step |-> "exec", mech |-> listed, workdir |-> w, command |-> c, env |-> <<>>])
    BY <1>7 DEF BeginExec
  <2>2. listed \in Mechs
    BY <1>7 DEF BeginExec, TypeOK
  <2>3. job' \in Execs /\ job' \notin Creates
    <3>. DEFINE j == [step |-> "exec", mech |-> listed, workdir |-> w, command |-> c, env |-> <<>>]
    <3>1. j \in Execs /\ j.step = "exec"
      BY <2>2 DEF Execs
    <3>2. \A k \in Creates : k.step # "exec"
      BY Zenon DEF Creates
    <3>3. job' = j
      BY <2>1 DEF Begin
    <3>. QED
      BY <3>1, <3>2, <3>3
  <2>4. /\ job = None /\ count' = count + 1 /\ count < MaxCommands /\ port' \in {0, StalePort}
        /\ proxy' = proxy
    BY <2>1 DEF Begin
  <2>. QED
    BY <1>0, <2>3, <2>4 DEF EnvResolved, PortIsProxys, Counted
<1>8. CASE InjectSecrets
  <2>. DEFINE map == ResolveSecrets(job.policy.secrets, job.workdir)
  <2>1. job \in Creates /\ job' = [job EXCEPT !.env = map, !.step = "proxy"]
        /\ UNCHANGED <<port, proxy, count>>
        /\ Resolvable(job.policy.secrets, job.workdir) /\ IsText(map)
    BY <1>8, JobKinds DEF InjectSecrets, CreateSteps
  <2>2. map \in Envs
    BY <2>1, CreateFields DEF Envs
  <2>3. /\ job' \in Creates /\ job'.step = "proxy" /\ job'.env = map
        /\ job'.policy = job.policy /\ job'.workdir = job.workdir
    <3>1. job' \in Creates
      BY <2>1, <2>2, Zenon DEF Creates
    <3>2. DOMAIN job = {"step", "ephemeral", "mech", "policy", "workdir", "command", "env"}
      BY <2>1, CreateFields
    <3>. QED
      BY <2>1, <3>1, <3>2
  <2>. QED
    BY <1>0, <1>00, <2>1, <2>3 DEF EnvResolved, PortIsProxys, Counted
<1>9. CASE MaybeStartProxy
  <2>1. job \in Creates /\ Goto("make") /\ count' = count
    BY <1>9, JobKinds DEF MaybeStartProxy, CreateSteps
  <2>2. /\ job' \in Creates /\ job'.step = "make" /\ job'.policy = job.policy
        /\ job'.workdir = job.workdir /\ job'.env = job.env
    BY <2>1, StepOfCreate DEF Goto, CreateSteps
  <2>3. job # None /\ job' # None
    BY <1>00, <2>1, <2>2
  <2>4. count \in 1 .. MaxCommands
    BY <1>0, <2>3 DEF Counted
  <2>5. EnvResolved'
    BY <1>9, <2>1, <2>2 DEF EnvResolved, MaybeStartProxy, At
  <2>6. IF job.policy.network = "allowlist" THEN proxy' = count /\ port' = count ELSE UNCHANGED <<proxy, port>>
    BY <1>9 DEF MaybeStartProxy
  <2>7. PortIsProxys'
    BY <2>2, <2>4, <2>6 DEF PortIsProxys
  <2>. QED
    BY <1>0, <2>1, <2>2, <2>3, <2>4, <2>5, <2>6, <2>7 DEF Counted
<1>10. CASE SecretsFail \/ EngineRefuses \/ InsertRecord \/ AlreadyExists \/ ExecFails \/ SandboxExecRefuses
            \/ ProcessEnds \/ Killed
  BY <1>2, <1>10 DEF SecretsFail, EngineRefuses, InsertRecord, AlreadyExists, ExecFails, SandboxExecRefuses,
     ProcessEnds, Killed
<1>11. CASE CreatePodman \/ RunPodman \/ RunMac
  <2>1. /\ At("make") /\ UNCHANGED <<port, proxy, count>>
        /\ Goto("insert") \/ Goto("running")
    BY <1>11 DEF CreatePodman, RunPodman, RunMac
  <2>2. job \in Creates /\ job.step = "make"
    BY <2>1, JobKinds DEF CreateSteps, At
  <2>. QED
    BY <1>3, <2>1, <2>2 DEF CreateSteps
<1>12. ASSUME NEW s \in DOMAIN Writes, WriteInstance(s) PROVE Goal
  <2>1. s \in {"make", "workdir", "limits"} /\ Follows[s] \in {"workdir", "limits", "insert"}
    BY DEF Writes, Follows
  <2>2. At(s) /\ Goto(Follows[s]) /\ UNCHANGED <<port, proxy, count>>
    BY <1>12 DEF WriteInstance, InInstance
  <2>3. job \in Creates /\ job.step = s
    BY <2>1, <2>2, JobKinds DEF CreateSteps, At
  <2>. QED
    BY <1>3, <2>1, <2>2, <2>3 DEF CreateSteps
<1>13. CASE Rm
  <2>1. job = None /\ UNCHANGED <<job, port, proxy>> /\ count' = count + 1 /\ count < MaxCommands
    BY <1>13 DEF Rm
  <2>. QED
    BY <1>0, <1>00, <2>1 DEF EnvResolved, PortIsProxys, Counted
<1>14. CASE ExecPodman \/ ExecMac
  <2>1. At("exec") /\ Goto("running") /\ UNCHANGED <<port, proxy, count>>
    BY <1>14 DEF ExecPodman, ExecMac
  <2>. QED
    BY <1>4, <2>1, JobKinds
<1>15. CASE LimitsNotWritten
  <2>1. At("limits") /\ Goto("insert") /\ UNCHANGED <<port, proxy, count>>
    BY <1>15 DEF LimitsNotWritten, InInstance
  <2>2. job \in Creates /\ job.step = "limits"
    BY <2>1, JobKinds DEF CreateSteps, At
  <2>. QED
    BY <1>3, <2>1, <2>2 DEF CreateSteps
<1>. QED
  BY <1>5, <1>6, <1>7, <1>8, <1>9, <1>10, <1>11, <1>12, <1>13, <1>14, <1>15 DEF Next

-----------------------------------------------------------------------------
(* The process *)

Running == process # None => At("running")

\* Only four steps start a process, and while one runs nothing else happens.
LEMMA ProcessStep ==
    ASSUME TypeOK, Running, [Next]_vars
    PROVE  \/ UNCHANGED vars
           \/ process' = None
           \/ RunPodman \/ RunMac \/ ExecPodman \/ ExecMac
<1>1. CASE BeginCreate \/ BeginExec
  BY <1>1 DEF BeginCreate, BeginExec, Begin, Running, At
<1>2. CASE InjectSecrets \/ SecretsFail \/ MaybeStartProxy \/ CreatePodman \/ EngineRefuses
           \/ InsertRecord \/ AlreadyExists \/ Rm \/ ExecFails \/ SandboxExecRefuses \/ ProcessEnds
           \/ LimitsNotWritten \/ Killed
  BY <1>2 DEF InjectSecrets, SecretsFail, MaybeStartProxy, CreatePodman, EngineRefuses,
     InsertRecord, AlreadyExists, Rm, ExecFails, SandboxExecRefuses, ProcessEnds, LimitsNotWritten,
     InInstance, Killed, Running, At
<1>3. ASSUME NEW s \in DOMAIN Writes, WriteInstance(s) PROVE process' = None
  BY <1>3 DEF WriteInstance, InInstance, Writes, Running, At
<1>. QED
  BY <1>1, <1>2, <1>3 DEF Next

\* A step that starts a process moves its invocation on to wait for it.
LEMMA RunningStep ==
    ASSUME TypeOK, Running, [Next]_vars
    PROVE  Running'
<1>1. CASE UNCHANGED vars
  BY <1>1 DEF vars, Running, At
<1>2. CASE process' = None
  BY <1>2 DEF Running
<1>3. CASE RunPodman \/ RunMac
  <2>1. At("make") /\ Goto("running")
    BY <1>3 DEF RunPodman, RunMac
  <2>2. job' \in Creates /\ job'.step = "running"
    BY <2>1, JobKinds, StepOfCreate DEF CreateSteps, Goto
  <2>. QED
    BY <2>2, NoneAssumption DEF Running, At
<1>4. CASE ExecPodman \/ ExecMac
  <2>1. At("exec") /\ Goto("running")
    BY <1>4 DEF ExecPodman, ExecMac
  <2>2. job' \in Execs /\ job'.step = "running"
    BY <2>1, JobKinds, StepOfExec DEF Goto
  <2>. QED
    BY <2>2, NoneAssumption DEF Running, At
<1>. QED
  BY <1>1, <1>2, <1>3, <1>4, ProcessStep

-----------------------------------------------------------------------------
(* The container *)

\* The container that is there is one that was asked for.
ContainerAsked ==
    container # None => \E r \in asked : r.mech = "podman" /\ Full(container, r)

\* What was asked for is never forgotten.
LEMMA AskedStep == [Next]_vars => asked \subseteq asked'
BY DEF Next, vars, BeginCreate, BeginExec, Begin, InjectSecrets, SecretsFail, MaybeStartProxy,
   CreatePodman, RunPodman, EngineRefuses, RunMac, WriteInstance, LimitsNotWritten, InsertRecord,
   AlreadyExists, Rm, ExecPodman, ExecMac, ExecFails, SandboxExecRefuses, ProcessEnds, Killed

\* Only a create makes the container, and an rm removes it.
LEMMA ContainerSteps ==
    [Next]_vars => container' = container \/ container' = None \/ CreatePodman
BY DEF Next, vars, BeginCreate, BeginExec, Begin, InjectSecrets, SecretsFail, MaybeStartProxy,
   RunPodman, EngineRefuses, RunMac, WriteInstance, LimitsNotWritten, InsertRecord, AlreadyExists,
   Rm, ExecPodman, ExecMac, ExecFails, SandboxExecRefuses, ProcessEnds, Killed

\* Full, of the next state's container.
LEMMA FullPrimed ==
    \A r : Full(container', r) => Full(container, r)'
BY DEF Full, AsAsked, WithinGrant, CoversGrant, Limited, HasSecrets, SecretsThere

\* podman makes the container that the request of cmd_create asks for.
LEMMA CreatedContainer ==
    ASSUME TypeOK, EnvResolved, PortIsProxys, CreatePodman
    PROVE  /\ Full(container', Request) /\ Typed(container')
           /\ Request \in asked' /\ Request \in Requests /\ Request.mech = "podman"
<1>1. job \in Creates /\ job.step = "make" /\ job.mech = "podman"
  BY JobKinds DEF CreatePodman, CreateSteps, At
<1>2. container' = Made(ContainerOf(Args)) /\ asked' = asked \cup {Request}
  BY DEF CreatePodman
<1>3. Full(Made(ContainerOf(Args)), Request) /\ Typed(Made(ContainerOf(Args)))
  BY <1>1, ContainerMade
<1>4. Request \in Requests /\ Request.mech = "podman"
  BY <1>1, CreateFields DEF Request, Requests
<1>. QED
  BY <1>2, <1>3, <1>4

\* The container stays one that was asked for.
LEMMA ContainerStep ==
    ASSUME TypeOK, EnvResolved, PortIsProxys, ContainerAsked, [Next]_vars
    PROVE  ContainerAsked'
<1>0. asked \subseteq asked'
  BY AskedStep
<1>1. CASE container' = container
  <2>1. \A r : Full(container, r) => Full(container, r)'
    BY <1>1, FullPrimed
  <2>. QED
    BY <1>0, <1>1, <2>1 DEF ContainerAsked
<1>2. CASE container' = None
  BY <1>2 DEF ContainerAsked
<1>3. CASE CreatePodman
  <2>1. Full(container', Request) /\ Request \in asked' /\ Request.mech = "podman"
    BY <1>3, CreatedContainer
  <2>. DEFINE q == Request
  <2>2. \E r \in asked' : r.mech = "podman" /\ Full(container', r)
    BY <2>1
  <2>. QED
    BY <2>2, FullPrimed DEF ContainerAsked
<1>. QED
  BY <1>1, <1>2, <1>3, ContainerSteps

-----------------------------------------------------------------------------
(* The instance *)

\* The files that a create leaves which is not killed and writes them all.
WholeFor(r) ==
    [profile |-> Holds(GenerateSeatbeltProfile(r.policy, r.workdir)),
     workdir |-> Holds(r.workdir), limits |-> Holds(r.policy)]

\* As long as nothing was killed or failed, the files are of one create, or, while
\* one writes them, those that are written already are of that one.
InstanceWhole ==
    faults = 0 =>
        IF At("workdir") THEN instance.profile = Holds(Profile)
        ELSE IF At("limits") THEN instance.profile = Holds(Profile) /\ instance.workdir = Holds(job.workdir)
        ELSE \/ instance = NoInstance
             \/ \E r \in asked : r.mech = "mac" /\ instance = WholeFor(r)

\* A create writes the files of its own request (create_instance, insert).
LEMMA InstanceWrites ==
    ASSUME TypeOK, InstanceOK, InstanceWhole, NEW s \in DOMAIN Writes, WriteInstance(s)
    PROVE  InstanceWhole'
<1>1. /\ s \in {"make", "workdir", "limits"} /\ At(s) /\ job.mech = "mac" /\ job.step = s
      /\ instance' = [instance EXCEPT ![Writes[s]] = Holds(Written[Writes[s]])]
      /\ asked' = asked \cup {Request} /\ Goto(Follows[s]) /\ faults' = faults
  BY DEF WriteInstance, InInstance, Writes, At
<1>2. job \in Creates
  BY <1>1, JobKinds DEF CreateSteps
<1>3. Follows[s] \in CreateSteps
  BY <1>1 DEF Follows, CreateSteps
<1>4. /\ job' \in Creates /\ job'.step = Follows[s] /\ job'.policy = job.policy
      /\ job'.workdir = job.workdir /\ job' # None /\ job # None
  BY <1>1, <1>2, <1>3, StepOfCreate, NoneAssumption DEF Goto
<1>5. Profile' = Profile
  BY <1>4 DEF Profile
<1>6. Request.policy = job.policy /\ Request.workdir = job.workdir /\ Request.mech = "mac"
  BY <1>1 DEF Request
<1>7. CASE s = "make"
  <2>1. Writes[s] = "profile" /\ Written["profile"] = Profile /\ Follows[s] = "workdir"
    BY <1>7 DEF Writes, Written, Follows
  <2>2. instance'.profile = Holds(Profile)
    BY <1>1, <2>1 DEF InstanceOK
  <2>. QED
    BY <1>4, <1>5, <2>1, <2>2 DEF InstanceWhole, At, Holds
<1>8. CASE s = "workdir"
  <2>1. Writes[s] = "workdir" /\ Written["workdir"] = job.workdir /\ Follows[s] = "limits"
    BY <1>8 DEF Writes, Written, Follows
  <2>2. instance'.profile = instance.profile /\ instance'.workdir = Holds(job.workdir)
    BY <1>1, <2>1 DEF InstanceOK
  <2>3. faults = 0 => instance.profile = Holds(Profile)
    BY <1>1, <1>8 DEF InstanceWhole
  <2>. QED
    BY <1>1, <1>4, <1>5, <2>1, <2>2, <2>3 DEF InstanceWhole, At, Holds
<1>9. CASE s = "limits"
  <2>1. Writes[s] = "limits" /\ Written["limits"] = job.policy /\ Follows[s] = "insert"
    BY <1>9 DEF Writes, Written, Follows
  <2>2. /\ instance'.profile = instance.profile /\ instance'.workdir = instance.workdir
        /\ instance'.limits = Holds(job.policy)
        /\ instance' = [f \in {"profile", "workdir", "limits"} |-> instance'[f]]
    BY <1>1, <2>1 DEF InstanceOK
  <2>3. faults = 0 => instance.profile = Holds(Profile) /\ instance.workdir = Holds(job.workdir)
    BY <1>1, <1>9 DEF InstanceWhole, At
  <2>4. faults = 0 => instance' = WholeFor(Request)
    BY <1>6, <2>2, <2>3 DEF WholeFor, Profile
  <2>5. faults = 0 => \E r \in asked' : r.mech = "mac" /\ instance' = WholeFor(r)
    BY <1>1, <1>6, <2>4
  <2>. QED
    BY <1>1, <1>4, <2>1, <2>5 DEF InstanceWhole, At, WholeFor
<1>. QED
  BY <1>1, <1>7, <1>8, <1>9

\* A step before the instance is written, or after.
LEMMA InstanceFrameWhole ==
    ASSUME InstanceWhole, ~At("workdir"), ~At("limits"), ~At("workdir")', ~At("limits")',
           instance' = instance \/ instance' = NoInstance, asked \subseteq asked', faults' = faults
    PROVE  InstanceWhole'
<1>1. faults = 0 => instance = NoInstance \/ \E r \in asked : r.mech = "mac" /\ instance = WholeFor(r)
  BY DEF InstanceWhole
<1>2. faults' = 0 => instance' = NoInstance \/ \E r \in asked' : r.mech = "mac" /\ instance' = WholeFor(r)
  BY <1>1
<1>. QED
  BY <1>2 DEF InstanceWhole, WholeFor, NoInstance

\* The files stay of one create.
LEMMA InstanceStep ==
    ASSUME TypeOK, InstanceOK, InstanceWhole, [Next]_vars
    PROVE  InstanceWhole'
<1>0. asked \subseteq asked'
  BY AskedStep
<1>00. None \notin Creates \cup Execs
  BY NoneAssumption
<1>1. CASE UNCHANGED vars
  BY <1>1 DEF vars, InstanceWhole, At, Profile, WholeFor
<1>2. CASE BeginCreate \/ BeginExec
  <2>1. job = None /\ UNCHANGED <<instance, faults>> /\ job'.step \in {"secrets", "exec"}
    BY <1>2 DEF BeginCreate, BeginExec, Begin
  <2>. QED
    BY <1>0, <2>1, InstanceFrameWhole DEF At
<1>3. CASE InjectSecrets \/ MaybeStartProxy \/ CreatePodman \/ RunPodman \/ RunMac
  <2>1. /\ At("secrets") \/ At("proxy") \/ At("make")
        /\ \/ job' = [job EXCEPT !.env = ResolveSecrets(job.policy.secrets, job.workdir), !.step = "proxy"]
           \/ Goto("make") \/ Goto("insert") \/ Goto("running")
    BY <1>3 DEF InjectSecrets, MaybeStartProxy, CreatePodman, RunPodman, RunMac
  <2>2. job \in Creates
    BY <2>1, JobKinds DEF CreateSteps
  <2>3. DOMAIN job = {"step", "ephemeral", "mech", "policy", "workdir", "command", "env"}
    BY <2>2, CreateFields
  <2>4. job'.step \in {"proxy", "make", "insert", "running"}
    BY <2>1, <2>3 DEF Goto
  <2>5. UNCHANGED <<instance, faults>>
    BY <1>3 DEF InjectSecrets, MaybeStartProxy, CreatePodman, RunPodman, RunMac
  <2>6. ~At("workdir") /\ ~At("limits") /\ ~At("workdir")' /\ ~At("limits")'
    BY <2>1, <2>4 DEF At
  <2>. QED
    BY <1>0, <2>5, <2>6, InstanceFrameWhole
<1>4. CASE ExecPodman \/ ExecMac
  <2>1. At("exec") /\ Goto("running") /\ UNCHANGED <<instance, faults>>
    BY <1>4 DEF ExecPodman, ExecMac
  <2>2. job \in Execs /\ job'.step = "running"
    BY <2>1, JobKinds, StepOfExec DEF Goto
  <2>3. ~At("workdir") /\ ~At("limits") /\ ~At("workdir")' /\ ~At("limits")'
    BY <2>1, <2>2 DEF At
  <2>. QED
    BY <1>0, <2>1, <2>3, InstanceFrameWhole
<1>5. CASE SecretsFail \/ EngineRefuses \/ InsertRecord \/ AlreadyExists \/ ExecFails \/ SandboxExecRefuses
           \/ ProcessEnds
  <2>1. /\ \E s \in {"secrets", "make", "insert", "exec", "running"} : At(s)
        /\ job' = None /\ UNCHANGED <<instance, faults>>
    BY <1>5 DEF SecretsFail, EngineRefuses, InsertRecord, AlreadyExists, ExecFails, SandboxExecRefuses,
       ProcessEnds, End
  <2>2. ~At("workdir") /\ ~At("limits") /\ ~At("workdir")' /\ ~At("limits")'
    BY <2>1 DEF At
  <2>. QED
    BY <1>0, <2>1, <2>2, InstanceFrameWhole
<1>6. CASE Rm
  <2>1. job = None /\ job' = None /\ faults' = faults /\ (instance' = instance \/ instance' = NoInstance)
    BY <1>6 DEF Rm
  <2>. QED
    BY <1>0, <2>1, InstanceFrameWhole DEF At
<1>7. ASSUME NEW s \in DOMAIN Writes, WriteInstance(s) PROVE InstanceWhole'
  BY <1>7, InstanceWrites
<1>8. CASE Killed \/ LimitsNotWritten
  <2>1. faults' # 0
    <3>1. faults' = faults + 1 /\ faults \in Nat
      BY <1>8, ConfineAssumption DEF Killed, LimitsNotWritten, TypeOK
    <3>. QED
      BY <3>1
  <2>. QED
    BY <2>1 DEF InstanceWhole
<1>. QED
  BY <1>1, <1>2, <1>3, <1>4, <1>5, <1>6, <1>7, <1>8 DEF Next

-----------------------------------------------------------------------------
(* What a step that starts a process starts *)

ProcessConfined ==
    process # None /\ process.mech = "podman" => \E r \in Origins(process) : AsAsked(process, r)

ProcessInv == ProcessConfined /\ ConfinedAsOne /\ ProxyIsOurs /\ SecretsInjected /\ CommandIntact

\* A process is of what it was spawned in.
LEMMA Spawned ==
    ASSUME NEW op, NEW request, NEW b, NEW command, Spawn(op, request, b, command)
    PROVE  /\ SameBox(process', b) /\ process'.op = op /\ process'.mech = job.mech
           /\ process'.request = request /\ process'.command = command
           /\ process'.typed = job.command
BY DEF Spawn, SameBox

\* What a request asks of the next state's process.
LEMMA ProcessPrimed ==
    /\ \A r : AsAsked(process', r) => AsAsked(process, r)'
    /\ \A r : Limited(process', r) => Limited(process, r)'
    /\ \A r : HasSecrets(process', r) => HasSecrets(process, r)'
<1>1. \A r : AsAsked(process', r) => AsAsked(process, r)'
  BY DEF AsAsked, WithinGrant, CoversGrant
<1>2. \A r : Limited(process', r) => Limited(process, r)'
  BY DEF Limited
<1>3. \A r : HasSecrets(process', r) => HasSecrets(process, r)'
  BY DEF HasSecrets
<1>. QED
  BY <1>1, <1>2, <1>3

\* What is to be shown of a process that a run starts.
LEMMA RunKeeps ==
    ASSUME process'.op = "run", NEW r, process'.request = r, r.mech = process'.mech,
           AsOptions(process') \/ AsAsked(process', r),
           HasSecrets(process', r), SecretsThere(r), job'.command = job.command,
           r.policy.network = "allowlist" =>
                /\ proxy' # None
                /\ \A v \in ProxyVars : /\ v \in DOMAIN process'.env
                                        /\ process'.env[v] \in {Url("gateway", proxy'), Url("localhost", proxy')},
           job.command # <<>> /\ ~AsOptions(process') =>
                \/ process'.command = job.command
                \/ /\ process'.mech = "podman" /\ r.policy.network = "allowlist"
                   /\ Words(process'.command) = Cleaned(Words(job.command))
    PROVE  ProcessInv'
<1>1. r \in Origins(process)'
  BY DEF Origins
<1>2. (AsOptions(process') \/ AsAsked(process, r)') /\ HasSecrets(process, r)'
  BY ProcessPrimed
<1>3. ProcessConfined'
  BY <1>1, <1>2 DEF ProcessConfined, AsOptions
<1>4. ConfinedAsOne'
  BY DEF ConfinedAsOne
<1>5. ProxyIsOurs'
  BY DEF ProxyIsOurs
<1>6. SecretsInjected'
  <2>1. HasSecrets(process', process'.request) /\ SecretsThere(process'.request)
    OBVIOUS
  <2>. QED
    BY <2>1 DEF SecretsInjected, HasSecrets, SecretsThere
<1>7. CommandIntact'
  BY DEF CommandIntact, AsOptions
<1>. QED
  BY <1>3, <1>4, <1>5, <1>6, <1>7 DEF ProcessInv

\* What is to be shown of a process that an exec starts.
LEMMA ExecKeeps ==
    ASSUME process'.op = "exec", NEW r \in asked, asked' = asked, r.mech = process'.mech,
           AsOptions(process') \/ AsAsked(process', r), job'.command = job.command,
           faults' = 0 => Limited(process', r) /\ process'.cwd = StartsIn(r),
           process'.mech = "podman" => HasSecrets(process', r) /\ SecretsThere(r),
           job.command # <<>> /\ ~AsOptions(process') => process'.command = job.command
    PROVE  ProcessInv'
<1>1. r \in Origins(process)'
  BY DEF Origins
<1>2. (AsOptions(process') \/ AsAsked(process, r)') /\ (faults' = 0 => Limited(process, r)')
      /\ (process'.mech = "podman" => HasSecrets(process, r)')
  BY ProcessPrimed
<1>3. ProcessConfined'
  BY <1>1, <1>2 DEF ProcessConfined, AsOptions
<1>4. ConfinedAsOne'
  BY <1>1, <1>2 DEF ConfinedAsOne, StartsIn, AsOptions
<1>5. ProxyIsOurs'
  BY DEF ProxyIsOurs
<1>6. SecretsInjected'
  <2>1. process'.mech = "podman" => HasSecrets(process, r)' /\ SecretsThere(r)'
    BY <1>2 DEF SecretsThere
  <2>. QED
    BY <1>1, <2>1 DEF SecretsInjected
<1>7. CommandIntact'
  BY DEF CommandIntact, AsOptions
<1>. QED
  BY <1>3, <1>4, <1>5, <1>6, <1>7 DEF ProcessInv

\* Where no process runs there is nothing to show.
LEMMA NoneKeeps ==
    ASSUME process' = None
    PROVE  ProcessInv'
BY DEF ProcessInv, ProcessConfined, ConfinedAsOne, ProxyIsOurs, SecretsInjected, CommandIntact

\* `ssbx run` under podman: the container of its request, and its command.
LEMMA RunPodmanStep ==
    ASSUME TypeOK, EnvResolved, PortIsProxys, RunPodman
    PROVE  ProcessInv' /\ Typed(process')
<1>. DEFINE c == Made(ContainerOf(Args))
            r == Request
<1>1. /\ job \in Creates /\ job.step = "make" /\ job.mech = "podman"
  BY JobKinds DEF RunPodman, CreateSteps, At
<1>2. Spawn("run", r, c, c.command) /\ Goto("running") /\ UNCHANGED <<port, proxy>>
  BY DEF RunPodman
<1>3. job'.command = job.command
  BY <1>1, <1>2, StepOfCreate DEF Goto, CreateSteps
<1>4. /\ Typed(c) /\ Full(c, r)
      /\ job.policy.network = "allowlist" =>
            \A v \in ProxyVars : v \in DOMAIN c.env /\ c.env[v] = Url("gateway", port)
      /\ job.command # <<>> =>
            \/ c.command = job.command
            \/ /\ job.policy.network = "allowlist"
               /\ Words(c.command) = Cleaned(Words(job.command))
  BY <1>1, ContainerMade
<1>5. r.mech = "podman" /\ r.policy = job.policy
  BY <1>1 DEF Request
<1>6. job.policy.network = "allowlist" => port = proxy /\ proxy' = proxy /\ proxy # None
  <2>1. job.policy.network = "allowlist" => port = proxy /\ port \in 1 .. MaxCommands
    BY <1>1 DEF PortIsProxys
  <2>2. None \notin 1 .. MaxCommands
    BY NoneAssumption, ConfineAssumption
  <2>. QED
    BY <1>2, <2>1, <2>2
<1>. HIDE DEF c, r
<1>7. /\ SameBox(process', c) /\ process'.op = "run" /\ process'.mech = "podman"
      /\ process'.request = r /\ process'.command = c.command
  BY <1>1, <1>2, Spawned
<1>8. Full(process', r) /\ Typed(process')
  BY <1>4, <1>7, SameFull
<1>9. process'.env = c.env
  BY <1>7 DEF SameBox
<1>10. AsAsked(process', r) /\ HasSecrets(process', r) /\ SecretsThere(r)
  BY <1>4, <1>8 DEF Full
<1>11. r.policy.network = "allowlist" =>
          /\ proxy' # None
          /\ \A v \in ProxyVars : /\ v \in DOMAIN process'.env
                                  /\ process'.env[v] \in {Url("gateway", proxy'), Url("localhost", proxy')}
  BY <1>4, <1>5, <1>6, <1>9
<1>12. job.command # <<>> =>
          \/ process'.command = job.command
          \/ /\ process'.mech = "podman" /\ r.policy.network = "allowlist"
             /\ Words(process'.command) = Cleaned(Words(job.command))
  BY <1>4, <1>5, <1>7
<1>13. ProcessInv'
  BY <1>3, <1>5, <1>7, <1>10, <1>11, <1>12, RunKeeps
<1>. QED
  BY <1>8, <1>13

\* `ssbx run` under seatbelt: spawn_sandboxed, with the profile of its request.
LEMMA RunMacStep ==
    ASSUME TypeOK, EnvResolved, PortIsProxys, RunMac
    PROVE  ProcessInv' /\ Typed(process')
<1>. DEFINE r == Request
<1>1. job \in Creates /\ job.step = "make" /\ job.mech = "mac"
  BY JobKinds DEF RunMac, CreateSteps, At
<1>2. r.mech = "mac" /\ r.policy = job.policy /\ r.workdir = job.workdir
  BY <1>1 DEF Request
<1>3. /\ SpawnSandboxed("run", r, Profile, r.policy, r.workdir)
      /\ Profile = GenerateSeatbeltProfile(r.policy, r.workdir)
      /\ Goto("running") /\ UNCHANGED <<port, proxy>>
  BY <1>2 DEF RunMac, Profile
<1>4. job'.command = job.command
  BY <1>1, <1>3, StepOfCreate DEF Goto, CreateSteps
<1>5. PICK x \in SandboxExec(Profile, job.command), lim \in Rlimits(r.policy) :
            Spawn("run", r, Sandboxed(x.profile, lim, r.policy, r.workdir, job.env), x.command)
  BY <1>3 DEF SpawnSandboxed
<1>. DEFINE b == Sandboxed(x.profile, lim, r.policy, r.workdir, job.env)
<1>6. /\ SecretsThere(r)
      /\ \A i \in DOMAIN r.policy.secrets :
            LET var == r.policy.secrets[i].env
            IN  var \in DOMAIN job.env /\ job.env[var] = SecretOf(r, var)
  BY <1>1, <1>2, JobIsRequest
<1>7. r.policy.network = "allowlist" => port = proxy /\ port # 0 /\ proxy' = proxy /\ proxy # None
  <2>1. job.policy.network = "allowlist" => port = proxy /\ port \in 1 .. MaxCommands
    BY <1>1 DEF PortIsProxys
  <2>2. None \notin 1 .. MaxCommands /\ 0 \notin 1 .. MaxCommands
    BY NoneAssumption, ConfineAssumption
  <2>. QED
    BY <1>2, <1>3, <2>1, <2>2
<1>. HIDE DEF r
<1>8. /\ SameBox(process', b) /\ process'.op = "run" /\ process'.mech = "mac"
      /\ process'.request = r /\ process'.command = x.command /\ process'.typed = job.command
  <2>. HIDE DEF b
  <2>. QED
    BY <1>1, <1>5, Spawned DEF b
<1>9. /\ Typed(process') /\ (x.profile = Profile => AsAsked(process', r))
      /\ process'.env = SpawnEnv(r.policy, HostEnv, job.env, port, ProxyVars)
  <2>1. /\ Typed(process')
        /\ process'.env = SpawnEnv(r.policy, HostEnv, job.env, port, ProxyVars)
        /\ \A q : q.mech = "mac" /\ x.profile = GenerateSeatbeltProfile(q.policy, q.workdir)
                  => AsAsked(process', q)
    <3>. DEFINE box == process'
                profile == x.profile
                w == r.workdir
                p == r.policy
                e == job.env
    <3>1. SameBox(box, Sandboxed(profile, lim, p, w, e)) /\ lim \in Rlimits(p)
      BY <1>8
    <3>. HIDE DEF box, profile, w, p, e
    <3>2. Typed(box) /\ box.env = SpawnEnv(p, HostEnv, e, port, ProxyVars)
      <4>1. Typed(box)
        BY <3>1, SandboxedFacts
      <4>2. box.env = SpawnEnv(p, HostEnv, e, port, ProxyVars)
        BY <3>1 DEF SameBox, Sandboxed
      <4>. QED
        BY <4>1, <4>2
    <3>3. ASSUME NEW q, q.mech = "mac", profile = GenerateSeatbeltProfile(q.policy, q.workdir)
          PROVE  AsAsked(box, q)
      BY <3>1, <3>3, SandboxedAsAsked
    <3>. QED
      BY <3>2, <3>3 DEF box, profile, w, p, e
  <2>. QED
    BY <1>2, <1>3, <2>1
<1>10. /\ r.policy.network = "allowlist" /\ port # 0 =>
            \A v \in ProxyVars : v \in DOMAIN process'.env /\ process'.env[v] = Url("localhost", port)
       /\ \A v \in DOMAIN job.env :
            \/ r.policy.network = "allowlist" /\ v \in ProxyVars \cup {"NO_PROXY"}
            \/ v \in DOMAIN process'.env /\ process'.env[v] = job.env[v]
  BY <1>9, SpawnEnvFacts
<1>. HIDE DEF b
<1>11. HasSecrets(process', r)
  BY <1>6, <1>10 DEF HasSecrets
<1>12. r.policy.network = "allowlist" =>
          /\ proxy' # None
          /\ \A v \in ProxyVars : /\ v \in DOMAIN process'.env
                                  /\ process'.env[v] \in {Url("gateway", proxy'), Url("localhost", proxy')}
  BY <1>7, <1>10
<1>13. ~AsOptions(process') =>
          /\ AsAsked(process', r)
          /\ job.command # <<>> => process'.command = job.command
  BY <1>8, <1>9, Obeyed DEF AsOptions, Shell
<1>14. ProcessInv'
  BY <1>2, <1>4, <1>6, <1>8, <1>11, <1>12, <1>13, RunKeeps
<1>. QED
  BY <1>9, <1>14

\* `ssbx exec` in a container: what that container was created with.
LEMMA ExecPodmanStep ==
    ASSUME TypeOK, ContainerAsked, ExecPodman
    PROVE  ProcessInv' /\ Typed(process')
<1>. DEFINE command == Shell(job.command, <<"sh">>)
<1>1. /\ container # None /\ Spawn("exec", None, container, command) /\ Goto("running")
      /\ job.mech = "podman" /\ UNCHANGED <<asked, faults>>
  BY DEF ExecPodman
<1>2. job'.command = job.command
  BY <1>1, JobKinds, StepOfExec DEF Goto, ExecPodman
<1>3. job.command # <<>> => command = job.command
  BY DEF Shell
<1>. HIDE DEF command
<1>4. /\ SameBox(process', container) /\ process'.op = "exec" /\ process'.mech = "podman"
      /\ process'.command = command
  BY <1>1, Spawned
<1>5. PICK r \in asked : r.mech = "podman" /\ Full(container, r)
  BY <1>1 DEF ContainerAsked
<1>6. Typed(container)
  BY <1>1 DEF TypeOK, Typed
<1>7. Full(process', r) /\ Typed(process')
  BY <1>4, <1>5, <1>6, SameFull
<1>8. /\ AsAsked(process', r) /\ Limited(process', r) /\ process'.cwd = StartsIn(r)
      /\ HasSecrets(process', r) /\ SecretsThere(r)
  BY <1>7 DEF Full
<1>9. job.command # <<>> => process'.command = job.command
  BY <1>3, <1>4
<1>10. ProcessInv'
  BY <1>1, <1>2, <1>4, <1>5, <1>8, <1>9, ExecKeeps
<1>. QED
  BY <1>7, <1>10

\* `ssbx exec` in an instance: what the files say, which are of one create.
LEMMA ExecMacStep ==
    ASSUME TypeOK, Inv, InstanceWhole, ExecMac
    PROVE  ProcessInv' /\ Typed(process')
<1>1. /\ At("exec") /\ Readable(instance.profile)
      /\ SpawnSandboxed("exec", None, instance.profile.data, InstancePolicy, InstanceWorkdir)
      /\ Goto("running") /\ job.mech = "mac" /\ UNCHANGED <<asked, faults>>
  BY DEF ExecMac
<1>2. job'.command = job.command
  BY <1>1, JobKinds, StepOfExec DEF Goto
<1>3. PICK x \in SandboxExec(instance.profile.data, job.command), lim \in Rlimits(InstancePolicy) :
            Spawn("exec", None, Sandboxed(x.profile, lim, InstancePolicy, InstanceWorkdir, job.env), x.command)
  BY <1>1 DEF SpawnSandboxed
<1>. DEFINE b == Sandboxed(x.profile, lim, InstancePolicy, InstanceWorkdir, job.env)
<1>4. /\ SameBox(process', b) /\ process'.op = "exec" /\ process'.mech = "mac"
      /\ process'.command = x.command /\ process'.typed = job.command
  <2>. HIDE DEF b
  <2>. QED
    BY <1>1, <1>3, Spawned DEF b
<1>5. ~AsOptions(process') =>
          /\ x.profile = instance.profile.data
          /\ job.command # <<>> => process'.command = job.command
  BY <1>4, Obeyed DEF AsOptions, Shell
<1>6. \E r \in asked : /\ r.mech = "mac"
                       /\ instance.profile.data = GenerateSeatbeltProfile(r.policy, r.workdir)
                       /\ faults = 0 => InstancePolicy = r.policy /\ InstanceWorkdir = r.workdir
  <2>1. CASE faults # 0
    BY <1>1, <2>1 DEF Inv, ProfileAsked
  <2>2. CASE faults = 0
    <3>1. instance # NoInstance
      BY <1>1 DEF NoInstance, Readable, Absent
    <3>2. PICK r \in asked : r.mech = "mac" /\ instance = WholeFor(r)
      BY <1>1, <2>2, <3>1 DEF InstanceWhole, At
    <3>3. instance.profile.data = GenerateSeatbeltProfile(r.policy, r.workdir)
      BY <3>2 DEF WholeFor, Holds
    <3>4. InstancePolicy = r.policy
      BY <3>2 DEF InstancePolicy, WholeFor, Readable, Holds
    <3>5. InstanceWorkdir = r.workdir
      BY <3>2 DEF InstanceWorkdir, WholeFor, Absent, Holds
    <3>. QED
      BY <3>2, <3>3, <3>4, <3>5
  <2>. QED
    BY <2>1, <2>2
<1>7. PICK r \in asked : /\ r.mech = "mac"
                         /\ instance.profile.data = GenerateSeatbeltProfile(r.policy, r.workdir)
                         /\ faults = 0 => InstancePolicy = r.policy /\ InstanceWorkdir = r.workdir
  BY <1>6
<1>8. /\ Typed(process') /\ process'.cwd = InstanceWorkdir
      /\ [cpus |-> process'.cpus, memory |-> process'.memory] \in Rlimits(InstancePolicy)
      /\ \A q : q.mech = "mac" /\ x.profile = GenerateSeatbeltProfile(q.policy, q.workdir)
                => AsAsked(process', q)
  <2>. DEFINE box == process'
              profile == x.profile
              w == InstanceWorkdir
              p == InstancePolicy
              e == job.env
  <2>1. SameBox(box, Sandboxed(profile, lim, p, w, e)) /\ lim \in Rlimits(p)
    BY <1>4
  <2>. HIDE DEF box, profile, w, p, e
  <2>2. Typed(box) /\ box.cwd = w /\ [cpus |-> box.cpus, memory |-> box.memory] \in Rlimits(p)
    BY <2>1, SandboxedFacts
  <2>3. ASSUME NEW q, q.mech = "mac", profile = GenerateSeatbeltProfile(q.policy, q.workdir)
        PROVE  AsAsked(box, q)
    BY <2>1, <2>3, SandboxedAsAsked
  <2>. QED
    BY <2>2, <2>3 DEF box, profile, w, p, e
<1>9. AsOptions(process') \/ AsAsked(process', r)
  BY <1>5, <1>7, <1>8
<1>10. faults = 0 => Limited(process', r) /\ process'.cwd = StartsIn(r)
  BY <1>7, <1>8 DEF Limited, StartsIn
<1>11. ProcessInv'
  BY <1>1, <1>2, <1>4, <1>5, <1>7, <1>9, <1>10, ExecKeeps
<1>. QED
  BY <1>8, <1>11

-----------------------------------------------------------------------------
(* Types *)

\* Containers and processes are typed.
LEMMA BoxTypes ==
    ASSUME TypeOK, Inv, EnvResolved, PortIsProxys, Counted, ContainerAsked, InstanceWhole, Running,
           [Next]_vars
    PROVE  /\ container' # None => Typed(container')
           /\ process' # None => Typed(process')
<1>1. container # None => Typed(container)
  BY DEF TypeOK, Typed
<1>2. process # None => Typed(process)
  BY DEF TypeOK, Typed
<1>3. CreatePodman => Typed(container')
  BY CreatedContainer
<1>4. container' # None => Typed(container')
  BY <1>1, <1>3, ContainerSteps
<1>5. RunPodman \/ RunMac \/ ExecPodman \/ ExecMac => Typed(process')
  BY RunPodmanStep, RunMacStep, ExecPodmanStep, ExecMacStep
<1>6. UNCHANGED vars => process' = process
  BY DEF vars
<1>. QED
  BY <1>2, <1>4, <1>5, <1>6, ProcessStep

FileTypes(i) ==
    /\ i.profile \in {Absent, Empty} \/ Readable(i.profile)
    /\ i.workdir \in {Absent, Empty} \cup {Holds(w) : w \in Workdirs}
    /\ i.limits \in {Absent, Empty} \cup {Holds(q) : q \in Policies}

\* A write leaves a file of the instance typed, torn or not.
LEMMA WrittenTypes ==
    ASSUME InstanceOK, FileTypes(instance), job \in Creates, NEW s \in DOMAIN Writes,
           NEW c, c = Holds(Written[Writes[s]]) \/ c = Empty
    PROVE  FileTypes([instance EXCEPT ![Writes[s]] = c])
<1>. DEFINE i == [instance EXCEPT ![Writes[s]] = c]
<1>0. job.policy \in Policies /\ job.workdir \in Workdirs
  BY CreateFields
<1>1. Writes[s] \in {"profile", "workdir", "limits"}
  BY DEF Writes
<1>2. /\ i.profile = IF Writes[s] = "profile" THEN c ELSE instance.profile
      /\ i.workdir = IF Writes[s] = "workdir" THEN c ELSE instance.workdir
      /\ i.limits = IF Writes[s] = "limits" THEN c ELSE instance.limits
  BY <1>1 DEF InstanceOK
<1>3. Writes[s] = "profile" => c = Empty \/ Readable(c)
  BY DEF Readable, Holds
<1>4. Writes[s] = "workdir" => c = Empty \/ c = Holds(job.workdir)
  BY DEF Written
<1>5. Writes[s] = "limits" => c = Empty \/ c = Holds(job.policy)
  BY DEF Written
<1>. HIDE DEF i
<1>. QED
  BY <1>0, <1>2, <1>3, <1>4, <1>5 DEF FileTypes, i

\* The index, the files, the requests and the count of faults.
LEMMA StoredTypes ==
    ASSUME TypeOK, InstanceOK, [Next]_vars
    PROVE  /\ listed' \in Mechs \cup {None} /\ FileTypes(instance')
           /\ asked' \subseteq Requests /\ faults' \in 0 .. MaxFaults
<1>. DEFINE Goal == /\ listed' \in Mechs \cup {None} /\ FileTypes(instance')
                    /\ asked' \subseteq Requests /\ faults' \in 0 .. MaxFaults
<1>0. /\ listed \in Mechs \cup {None} /\ FileTypes(instance)
      /\ asked \subseteq Requests /\ faults \in 0 .. MaxFaults
  BY DEF TypeOK, FileTypes
<1>1. job \in Creates => Request \in Requests
  BY CreateFields DEF Request, Requests
<1>2. FileTypes(NoInstance)
  BY DEF FileTypes, NoInstance
<1>3. ASSUME UNCHANGED <<listed, instance, asked, faults>> PROVE Goal
  BY <1>0, <1>3
<1>4. CASE UNCHANGED vars
  BY <1>3, <1>4 DEF vars
<1>5. CASE \/ BeginCreate \/ BeginExec \/ InjectSecrets \/ SecretsFail \/ MaybeStartProxy
           \/ RunPodman \/ EngineRefuses \/ RunMac \/ AlreadyExists
           \/ ExecPodman \/ ExecMac \/ ExecFails \/ SandboxExecRefuses \/ ProcessEnds
  BY <1>3, <1>5 DEF BeginCreate, BeginExec, Begin, InjectSecrets, SecretsFail, MaybeStartProxy,
     RunPodman, EngineRefuses, RunMac, AlreadyExists, ExecPodman, ExecMac, ExecFails,
     SandboxExecRefuses, ProcessEnds
<1>6. CASE CreatePodman
  <2>1. job \in Creates
    BY <1>6, JobKinds DEF CreatePodman, CreateSteps
  <2>. QED
    BY <1>0, <1>1, <1>6, <2>1 DEF CreatePodman
<1>7. CASE InsertRecord
  <2>1. job \in Creates
    BY <1>7, JobKinds DEF InsertRecord, CreateSteps
  <2>2. listed' \in Mechs
    BY <1>7, <2>1, CreateFields DEF InsertRecord
  <2>. QED
    BY <1>0, <1>7, <2>2 DEF InsertRecord
<1>8. CASE Rm
  BY <1>0, <1>2, <1>8 DEF Rm
<1>9. ASSUME NEW s \in DOMAIN Writes, InInstance(s) PROVE job \in Creates
  <2>1. s \in CreateSteps \ {"running"} /\ At(s)
    BY <1>9 DEF Writes, CreateSteps, InInstance
  <2>. QED
    BY <2>1, JobKinds
<1>10. ASSUME NEW s \in DOMAIN Writes, WriteInstance(s) PROVE Goal
  <2>1. job \in Creates
    BY <1>9, <1>10 DEF WriteInstance
  <2>2. FileTypes([instance EXCEPT ![Writes[s]] = Holds(Written[Writes[s]])])
    BY <1>0, <2>1, WrittenTypes
  <2>. QED
    BY <1>0, <1>1, <1>10, <2>1, <2>2 DEF WriteInstance
<1>11. CASE Killed
  <2>1. faults' \in 0 .. MaxFaults /\ listed' = listed
    BY <1>0, <1>11, ConfineAssumption DEF Killed
  <2>2. CASE UNCHANGED <<instance, asked>>
    BY <1>0, <2>1, <2>2
  <2>3. ASSUME NEW s \in DOMAIN Writes, InInstance(s),
               instance' = [instance EXCEPT ![Writes[s]] = Empty], asked' = asked \cup {Request}
        PROVE  Goal
    <3>1. job \in Creates
      BY <1>9, <2>3
    <3>2. FileTypes([instance EXCEPT ![Writes[s]] = Empty])
      BY <1>0, <3>1, WrittenTypes
    <3>. QED
      BY <1>0, <1>1, <2>1, <2>3, <3>1, <3>2
  <2>. QED
    BY <1>11, <2>2, <2>3 DEF Killed
<1>12. CASE LimitsNotWritten
  <2>1. /\ faults' \in 0 .. MaxFaults /\ listed' = listed /\ asked' = asked
        /\ instance' \in {instance, [instance EXCEPT !.limits = Empty]}
    BY <1>0, <1>12, ConfineAssumption DEF LimitsNotWritten
  <2>2. FileTypes([instance EXCEPT !.limits = Empty])
    BY <1>0 DEF FileTypes, InstanceOK
  <2>. QED
    BY <1>0, <2>1, <2>2
<1>. QED
  BY <1>4, <1>5, <1>6, <1>7, <1>8, <1>10, <1>11, <1>12 DEF Next

\* Every variable keeps its type.
LEMMA TypeStep ==
    ASSUME TypeOK, Inv, EnvResolved, PortIsProxys, Counted, ContainerAsked, InstanceWhole, Running,
           [Next]_vars
    PROVE  TypeOK'
<1>1. /\ job' \in Creates \cup Execs \cup {None}
      /\ port' \in 0 .. StalePort /\ count' \in 0 .. MaxCommands
      /\ proxy' # None => proxy' \in 1 .. MaxCommands /\ job' # None
  BY JobStep
<1>2. /\ listed' \in Mechs \cup {None} /\ FileTypes(instance')
      /\ asked' \subseteq Requests /\ faults' \in 0 .. MaxFaults
  BY StoredTypes DEF Inv
<1>3. \A box \in {container', process'} \ {None} :
        box.read \subseteq HostPaths /\ box.write \subseteq HostPaths /\ box.net \in Nets
  BY BoxTypes DEF Typed
<1>. QED
  BY <1>1, <1>2, <1>3 DEF TypeOK, FileTypes

-----------------------------------------------------------------------------
(* The theorems *)

ConfineInv ==
    /\ TypeOK /\ Inv
    /\ EnvResolved /\ PortIsProxys /\ Counted /\ Running
    /\ ContainerAsked /\ InstanceWhole /\ ProcessInv

\* The process of the next state, whatever the step.
LEMMA ProcessKept ==
    ASSUME ConfineInv, [Next]_vars
    PROVE  ProcessInv'
<1>1. CASE UNCHANGED vars
  BY <1>1 DEF ConfineInv, vars, ProcessInv, ProcessConfined, ConfinedAsOne, ProxyIsOurs, SecretsInjected,
     CommandIntact, AsOptions, Origins, AsAsked, WithinGrant, CoversGrant, Limited, HasSecrets, SecretsThere
<1>2. CASE process' = None
  BY <1>2, NoneKeeps
<1>3. CASE RunPodman \/ RunMac \/ ExecPodman \/ ExecMac
  BY <1>3, RunPodmanStep, RunMacStep, ExecPodmanStep, ExecMacStep DEF ConfineInv
<1>. QED
  BY <1>1, <1>2, <1>3, ProcessStep DEF ConfineInv

\* ConfineInv is inductive.
LEMMA ConfineStep == ConfineInv /\ [Next]_vars => ConfineInv'
<1>. SUFFICES ASSUME ConfineInv, [Next]_vars PROVE ConfineInv'
  OBVIOUS
<1>1. /\ TypeOK /\ Inv /\ EnvResolved /\ PortIsProxys /\ Counted /\ Running
      /\ ContainerAsked /\ InstanceWhole /\ InstanceOK
  BY DEF ConfineInv, Inv
<1>2. TypeOK'
  BY <1>1, TypeStep
<1>3. Inv'
  BY <1>1, InvStep
<1>4. EnvResolved' /\ PortIsProxys' /\ Counted'
  BY <1>1, JobStep
<1>5. Running'
  BY <1>1, RunningStep
<1>6. ContainerAsked'
  BY <1>1, ContainerStep
<1>7. InstanceWhole'
  BY <1>1, InstanceStep
<1>8. ProcessInv'
  BY ProcessKept
<1>. QED
  BY <1>2, <1>3, <1>4, <1>5, <1>6, <1>7, <1>8 DEF ConfineInv

\* ConfineInv holds at first.
LEMMA ConfineInit == Init => ConfineInv
<1>. SUFFICES ASSUME Init PROVE ConfineInv
  OBVIOUS
<1>0. /\ job = None /\ port = 0 /\ proxy = None /\ listed = None /\ container = None
      /\ instance = NoInstance /\ process = None /\ asked = {} /\ count = 0 /\ faults = 0
  BY DEF Init
<1>00. MaxCommands \in Nat /\ MaxFaults \in Nat /\ None \notin Creates \cup Execs
  BY ConfineAssumption, NoneAssumption
<1>1. TypeOK
  BY <1>0, <1>00 DEF TypeOK, NoInstance, StalePort
<1>2. Inv
  BY <1>0 DEF Inv, InstanceOK, NoInstance, ProfileAsked, SeatbeltConfines, Readable, Absent
<1>3. EnvResolved /\ PortIsProxys /\ Counted /\ Running /\ ContainerAsked
  BY <1>0, <1>00 DEF EnvResolved, PortIsProxys, Counted, Running, ContainerAsked
<1>4. InstanceWhole
  BY <1>0 DEF InstanceWhole, At
<1>5. ProcessInv
  BY <1>0 DEF ProcessInv, ProcessConfined, ConfinedAsOne, ProxyIsOurs, SecretsInjected, CommandIntact
<1>. QED
  BY <1>1, <1>2, <1>3, <1>4, <1>5 DEF ConfineInv

\* And so always.
LEMMA ConfineAlways == Spec => []ConfineInv
BY ConfineInit, ConfineStep, PTL DEF Spec

\* Every variable keeps its type: no invocation is at a step of another command,
\* and the instance's files are absent, empty or what create_instance writes.
THEOREM TypeCorrect == Spec => []TypeOK
<1>1. ConfineInv => TypeOK
  BY DEF ConfineInv
<1>. QED
  BY <1>1, ConfineAlways, PTL

\* A container always has the files and the network that one request to create it
\* asked for, links and `..` resolved (build_run_args, build_allowlist_args,
\* mount_spec), but for what NotMounted names.
THEOREM ContainerIsAsAsked == Spec => []ContainerConfines
<1>1. ConfineInv => ContainerConfines
  <2>1. ContainerAsked => (container # None => \E r \in asked : r.mech = "podman" /\ AsAsked(container, r))
    BY DEF ContainerAsked, Full
  <2>. QED
    BY <2>1 DEF ConfineInv, ProcessInv, ProcessConfined, ContainerConfines
<1>. QED
  BY <1>1, ConfineAlways, PTL

\* As long as nothing was killed and no write has failed, a process that exec
\* starts is confined as one and the same create asked, its files, limits and
\* directory together (cmd_exec, the podman and the mac exec); a limit that
\* setrlimit refuses is none.
THEOREM ExecIsOfOneCreate == Spec => []ConfinedAsOne
<1>1. ConfineInv => ConfinedAsOne
  BY DEF ConfineInv, ProcessInv
<1>. QED
  BY <1>1, ConfineAlways, PTL

\* A run under an allowlist is pointed at the port of the proxy that its own
\* invocation started and still holds (maybe_start_proxy, build_allowlist_args,
\* spawn_sandboxed).
THEOREM ProxyIsItsOwn == Spec => []ProxyIsOurs
<1>1. ConfineInv => ProxyIsOurs
  BY DEF ConfineInv, ProcessInv
<1>. QED
  BY <1>1, ConfineAlways, PTL

\* A process has the secrets of the policy it was started for, of a run under both
\* mechanisms, of an exec in a container, but for those under a name the proxy
\* takes; and it was started only because each could be loaded and is text
\* (resolve_secrets, inject_secrets, to_env_pairs, build_run_args,
\* spawn_sandboxed).
THEOREM SecretsAreThere == Spec => []SecretsInjected
<1>1. ConfineInv => SecretsInjected
  BY DEF ConfineInv, ProcessInv
<1>. QED
  BY <1>1, ConfineAlways, PTL

\* The command that runs is the one that was given, word for word, also where its
\* words are podman's own options; on podman under an allowlist it is that without
\* each --network and the word after it, and nothing else (build_run_args,
\* build_allowlist_args).  On mac it is so unless the first word begins with a
\* dash, when sandbox-exec reads it (spawn_sandboxed puts no `--` before it).
THEOREM CommandIsKept == Spec => []CommandIntact
<1>1. ConfineInv => CommandIntact
  BY DEF ConfineInv, ProcessInv
<1>. QED
  BY <1>1, ConfineAlways, PTL
=============================================================================
