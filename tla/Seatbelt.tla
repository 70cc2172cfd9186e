------------------------------ MODULE Seatbelt ------------------------------
(***************************************************************************)
(* The mac mechanism's profile, rlimits and environment.  A profile is the *)
(* set of its allow rules on files and on the network: the only other      *)
(* rules deny, and an allow that matches is never followed by a deny.      *)
(* Paths go into it unquoted: none here has a quote or a backslash.        *)
(***************************************************************************)
EXTENDS Integers, HostPath, Environ

CONSTANT SystemDirs   \* "System paths needed to run binaries"

TempDirs == {<<"tmp">>, <<"private", "tmp">>, <<"var", "folders">>, <<"private", "var", "folders">>}

Allow(op, on) == [op |-> op, on |-> on]
AllowAll(op, dirs) == {Allow(op, d) : d \in dirs}

\* Mutant: an allowlist profile that leaves the allowing to the proxy alone.
OpenAllowlist(mode) ==
    CASE mode = "none" -> {}
      [] OTHER -> {Allow("network", <<"localhost">>), Allow("network", <<"*">>)}

\* "Fail closed at the kernel": an allowlist opens localhost and nothing else.
NetworkRules(mode) ==
    CASE mode = "none" -> {}
      [] mode = "allowlist" -> {Allow("network", <<"localhost">>)}
      [] OTHER -> {Allow("network", <<"localhost">>), Allow("network", <<"*">>)}

\* generate_seatbelt_profile: the working directory is canonicalized, which
\* what getcwd returned is already, and the rules on what a policy lists keep
\* the path as it is written.
GenerateSeatbeltProfile(policy, workdir) ==
    LET Resolved(ps) == {Resolve(ps[i], workdir) : i \in DOMAIN ps}
        ro == Resolved(policy.read_only)
        rw == Resolved(policy.read_write) \cup (IF policy.workdir THEN {workdir} ELSE {})
    IN  AllowAll("read", SystemDirs \cup ro \cup rw)
        \cup AllowAll("write", rw \cup TempDirs)
        \cup NetworkRules(policy.network)

\* What the rules of one kind are about.
On(profile, op) == {r.on : r \in {s \in profile : s.op = op}}

\* What sandbox-exec lets a process do under a profile: it compares the real
\* path of a file with the path in a rule.  External.
Allowed(profile) ==
    [read  |-> Below(On(profile, "read")),
     write |-> Below(On(profile, "write")),
     net   |-> (IF <<"localhost">> \in On(profile, "network") THEN {"host"} ELSE {})
               \cup (IF <<"*">> \in On(profile, "network") THEN {"outside"} ELSE {})]

\* `(cpus * 3600.0).ceil().max(60)` seconds, from thousandths of a cpu.
CpuSeconds(millicores) ==
    LET s == (millicores * 18 + 4) \div 5 IN IF s < 60 THEN 60 ELSE s

NoLimit == -1

\* apply_rlimits: a setrlimit that fails is logged and forgotten.
Rlimits(policy) ==
    [cpus : {CpuSeconds(policy.millicores), NoLimit}, memory : {policy.memory, NoLimit}]

\* A profile that denies nothing.
AllowsAll ==
    AllowAll("read", {<<>>}) \cup AllowAll("write", {<<>>}) \cup NetworkRules("unrestricted")

\* spawn_sandboxed's environment: inherited, then the request's, then, when the
\* policy has an allowlist and SSBX_PROXY_PORT is set, the proxy's.
SpawnEnv(policy, hostEnv, env, port, proxyVars) ==
    LET proxy == IF policy.network = "allowlist" /\ port # 0
                 THEN Put([v \in proxyVars |-> <<"url", "localhost", port>>],
                          "NO_PROXY", <<"text", "localhost">>)
                 ELSE <<>>
    IN  Over(proxy, Over(env, hostEnv))
=============================================================================
