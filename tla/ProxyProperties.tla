-------------------------- MODULE ProxyProperties --------------------------
(* What the proxy promises the sandbox it serves and the caller that stops it. *)
EXTENDS Proxy

PipeType == [sent : Nat, wire : Seq(Nat), got : Seq(Nat), eof : BOOLEAN,
             deaf : BOOLEAN, task : {"off", "on", "done"}]

Statuses == {None, 200, 403, 405, 502}

\* Each variable has its type.
TypeOK ==
    /\ loop \in {"running", "stopped"} /\ stop \in {"open", "sent"}
    /\ returned \in BOOLEAN
    /\ phase \in [Conns -> {"new", "queued", "reading", "dialling", "answering", "relaying", "closed"}]
    /\ req \in [Conns -> Requests \cup {None}]
    /\ answer \in [Conns -> Statuses]
    /\ dialled \in [Conns -> Allow \cup {None}]
    /\ pipe \in [Conns -> [Directions -> PipeType]]
    /\ gone \in [Conns -> SUBSET {"client", "upstream"}]

SameHost(h, k) == h.name = k.name

\* A sandbox reaches an endpoint only if the policy lists that very host, in
\* whatever case either spells it, and that very port, 443 when the client names
\* none; and only the endpoint it asked for.
OnlyListedReached ==
    \A c \in Conns : dialled[c] # None =>
        /\ SameHost(req[c].host, dialled[c].host)
        /\ dialled[c].port = IF req[c].port = None THEN 443 ELSE req[c].port
        /\ \E e \in Listed : SameHost(e.host, dialled[c].host) /\ e.port = dialled[c].port

\* A request names a listed endpoint, in any case, by the port or by the default;
\* an IPv6 literal only with its port, and in brackets only if listed so: the
\* code compares those as text.
Names(t, e) ==
    /\ SameHost(e.host, t.host) /\ e.host.brackets = t.host.brackets
    /\ e.port = t.port \/ (t.port = None /\ e.port = 443 /\ t.host.name \notin V6)

\* The other way round: a request for a listed endpoint is not forbidden, in
\* whatever case client and policy spell the host, with its port or without if it
\* is 443 (allow_helper's test has the policy side only).  Not promised, and not
\* so: an IPv6 literal that names no port, or that client and policy do not both
\* put in brackets, gets a 403.
ListedNotForbidden ==
    \A c \in Conns : answer[c] = 403 => ~ \E e \in Listed : Names(req[c], e)

\* What a side has received and what is still on its way to it.
Arriving(p) == p.got \o p.wire

\* Clients that send ahead of the 200 can lose bytes to the BufReader; nobody
\* else can.
Ahead(c, d) == d = "up" /\ req[c] # None /\ ~req[c].waits

\* A tunnel is transparent: at every moment what a side has received or will is
\* the last of what the other has sent, in order, once each and without a gap;
\* and all of it, unless the client spoke ahead of the 200 (handle_client's
\* into_inner drops what the BufReader read too far).  Also while one direction
\* has ended and the other goes on, and after a reset.
Transparent ==
    \A c \in Conns, d \in Directions :
        LET p == pipe[c][d]
            lost == p.sent - Len(Arriving(p))
        IN  /\ Arriving(p) = [i \in 1 .. Len(Arriving(p)) |-> lost + i]
            /\ lost >= 0 /\ (lost > 0 => Ahead(c, d))

\* The end of a direction loses nothing: when a side has shut down its half and
\* nobody has been reset, the other side ends up with every byte on its way if it
\* keeps reading, whether or not it ever sends or closes anything itself, and
\* whether or not the first goes on reading: a direction that is stuck (write_all
\* has no timeout) holds up only itself.
EverythingArrives ==
    \A c \in Conns, d \in Directions :
        phase[c] = "relaying" /\ pipe[c][d].eof
        ~> \/ gone[c] # {} \/ pipe[c][d].deaf
           \/ (pipe[c][d].task = "done" /\ pipe[c][d].wire = <<>>)

\* shutdown() comes back to its caller, whatever clients keep doing: it does not
\* wait for their tasks.
ShutdownEnds == stop = "sent" ~> returned

\* Every client that got through the accept queue and has sent a request is
\* answered unless it goes away, also when the proxy is shut down meanwhile and
\* whatever the upstream does.
Answered ==
    \A c \in Conns : phase[c] = "reading" /\ req[c] # None
                     ~> answer[c] # None \/ "client" \in gone[c]
=============================================================================
