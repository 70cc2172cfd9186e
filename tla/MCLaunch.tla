------------------------------ MODULE MCLaunch ------------------------------
(* Launch on small instances: an 8-bit u64 with 2 for 1024, a host of 64 bytes
   ("8G") and 8 millicores. *)
EXTENDS LaunchProperties

Default ==
    [version |-> 1, cpus |-> Cpus(20), memory |-> Size(2, 3), mode |-> "none",
     listed |-> FALSE, mechanism |-> None, secrets |-> "none"]

With(field, S) == {[Default EXCEPT ![field] = v] : v \in S}

\* NaN and both infinities; below zero, zero, less than half a millicore, half,
\* the last that rounds down to the host's capacity and the first that does not,
\* and more than a u64 of millicores.
AllCpus == {NaN, Infinity, MinusInfinity}
           \cup {Cpus(t) : t \in {-10, 0, 4, 5, 84, 85, 3000}}

\* Junk, zero, the host's last byte and one more, the largest u64 and one more;
\* every suffix; 64G, whose product passes the u64.
AllSizes == {Size(n, 0) : n \in {Junk, 0, 64, 65, 255, 256}}
            \cup {Size(8, u) : u \in 1 .. 4} \cup {Size(9, 3), Size(16, 4), Size(32, 3)}

AllModes == {[Default EXCEPT !.mode = m, !.listed = l] :
                m \in {"none", "allowlist", "unrestricted"}, l \in BOOLEAN}

\* Documents that each try one thing.
AllFiles ==
    {Unreadable} \cup With("version", {1, 2}) \cup With("cpus", AllCpus)
    \cup With("memory", AllSizes) \cup AllModes
    \cup With("mechanism", {"auto", "podman", "mac", "krun"})
    \cup With("secrets", {"there", "missing", "blank"})

\* Documents with an allowlist only.
Allowlists == {[Default EXCEPT !.mode = "allowlist", !.listed = TRUE]}

NoOptions == {}
FewCpus == {NaN, Cpus(-10), Cpus(85)}
FewSizes == {Size(8, 3), Size(32, 3)}
AllMechs == {"auto", "podman", "mac", "krun"}
=============================================================================
