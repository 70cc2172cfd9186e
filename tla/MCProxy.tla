------------------------------ MODULE MCProxy ------------------------------
(* Proxy on small instances: the constants of the configurations. *)
EXTENDS ProxyProperties, TLC

CONSTANTS c1, good, evil, six   \* a connection; host names, the last an IPv6 literal

Host(n, u) == [name |-> n, upper |-> u, brackets |-> FALSE]
Ask(m, n, u, port, w) == [method |-> m, host |-> Host(n, u), port |-> port, waits |-> w]
AskSix(b, port) ==
    [method |-> "CONNECT", host |-> [Host(six, TRUE) EXCEPT !.brackets = b], port |-> port,
     waits |-> TRUE]

\* The policy spells its host in upper case and lists it on one port; and an
\* IPv6 address, without brackets.
ListedEndpoints == {[host |-> Host(good, TRUE), port |-> 443], [host |-> Host(six, FALSE), port |-> 443]}

\* Listed host in either case, default, listed and unlisted port; unlisted
\* host; another method.  Of clients that wait and of clients that do not.
AllRequests ==
    {Ask("CONNECT", good, u, port, TRUE) : u \in BOOLEAN, port \in {None, 443, 80}}
    \cup {Ask("CONNECT", evil, FALSE, 443, w) : w \in BOOLEAN}
    \cup {Ask("GET", good, FALSE, None, w) : w \in BOOLEAN}
    \cup {Ask("CONNECT", good, FALSE, None, FALSE)}
    \cup {AskSix(b, port) : b \in BOOLEAN, port \in {None, 443}}
=============================================================================
