------------------------------- MODULE Proxy -------------------------------
(***************************************************************************)
(* The CONNECT allowlist proxy of sandbox-proxy: the accept loop, one task *)
(* per client, two relay tasks per tunnel, and the handle that stops it.   *)
(*                                                                         *)
(* The tasks are tokio tasks, so any two interleave at their awaits.  The  *)
(* clients, the upstream hosts and the kernel's accept queue are the       *)
(* environment.  Bytes are numbered in the order their sender wrote them.  *)
(***************************************************************************)
EXTENDS Naturals, Sequences

CONSTANTS
    Conns,        \* client connections
    HostNames,    \* hosts, whatever the case they are written in
    V6,           \* those that are IPv6 literals, which have colons of their own
    Listed,       \* endpoints of the policy, [host, port] as written there
    Requests,     \* what clients ask for: [method, host, port, waits], the last
                  \* whether the client sends nothing more before the answer
    MaxBytes,     \* bound: bytes one side of a tunnel sends
    None

\* A host as it is written, an IPv6 literal with or without brackets: DNS
\* ignores case and brackets, HashSet<String> does not.
Hosts == {h \in [name : HostNames, upper : BOOLEAN, brackets : BOOLEAN] :
            h.brackets => h.name \in V6}
Lower(host) == [name |-> host.name, upper |-> FALSE, brackets |-> host.brackets]

ASSUME ProxyAssumption ==
    /\ V6 \subseteq HostNames
    /\ \A e \in Listed : e.port # None
    /\ \A t \in Listed \cup Requests : t.host \in Hosts
    /\ None \notin Requests /\ None \notin {200, 403, 405, 502}
    /\ MaxBytes \in Nat

VARIABLES
    loop,      \* the accept loop: running, or stopped
    stop,      \* the oneshot: open, or sent
    returned,  \* ProxyHandle::shutdown has returned to its caller
    phase,     \* what becomes of each connection
    req,       \* the request a client has sent
    answer,    \* the status the proxy has answered
    dialled,   \* the endpoint the proxy has connected to for it
    pipe,      \* the two directions of the tunnel
    gone       \* which ends of a connection have been reset

vars == <<loop, stop, returned, phase, req, answer, dialled, pipe, gone>>

\* "up" carries bytes from the client to the upstream, "down" back.
Directions == {"up", "down"}
Source(d) == IF d = "up" THEN "client" ELSE "upstream"

\* A direction of a tunnel: bytes its source has written, bytes the proxy has
\* written on yet, bytes its sink has received, whether the source has shut it
\* down, whether the sink has stopped reading, and the relay task.
NoPipe == [sent |-> 0, wire |-> <<>>, got |-> <<>>, eof |-> FALSE, deaf |-> FALSE,
           task |-> "off"]

-----------------------------------------------------------------------------
(* The allow set *)

DefaultPort == 443

\* contains(':'): the code's test for a port, which every IPv6 literal passes.
HasColon(t) == t.port # None \/ t.host.name \in V6

\* Mutant: hosts are compared as they are spelt.
KeyAsSpelt(t) == [host |-> t.host, port |-> IF HasColon(t) THEN t.port ELSE DefaultPort]

\* allow_from_endpoints, normalize_allow and the target of a request: host
\* lower-cased, brackets as they stand, 443 for a target without a colon.  What
\* follows the last colon of a bare IPv6 literal is its port, if one is meant.
Key(t) == [host |-> Lower(t.host), port |-> IF HasColon(t) THEN t.port ELSE DefaultPort]

Allow == {Key(e) : e \in Listed}

-----------------------------------------------------------------------------
(* The environment *)

\* A client connects: the kernel queues it while the listener is there.
Connect(c) ==
    /\ phase[c] = "new" /\ loop = "running"
    /\ phase' = [phase EXCEPT ![c] = "queued"]
    /\ UNCHANGED <<loop, stop, returned, req, answer, dialled, pipe, gone>>

SendRequest(c) ==
    /\ phase[c] \in {"queued", "reading"}
    /\ req[c] = None /\ ~pipe[c]["up"].eof
    /\ \E r \in Requests : req' = [req EXCEPT ![c] = r]
    /\ UNCHANGED <<loop, stop, returned, phase, answer, dialled, pipe, gone>>

\* A side writes a byte: the client once it has asked (and, if it is one that
\* waits, has its 200), the upstream once it is connected to.
Send(c, d) ==
    /\ IF d = "up" THEN req[c] # None /\ (req[c].waits => answer[c] = 200)
                   ELSE dialled[c] # None
    /\ phase[c] # "closed" /\ Source(d) \notin gone[c]
    /\ ~pipe[c][d].eof /\ pipe[c][d].sent < MaxBytes
    /\ pipe' = [pipe EXCEPT ![c][d].sent = @ + 1,
                            ![c][d].wire = Append(@, pipe[c][d].sent + 1)]
    /\ UNCHANGED <<loop, stop, returned, phase, req, answer, dialled, gone>>

\* A side shuts down its half.
HalfClose(c, d) ==
    /\ phase[c] \in {"queued", "reading", "dialling", "answering", "relaying"}
    /\ d = "down" => dialled[c] # None
    /\ ~pipe[c][d].eof
    /\ pipe' = [pipe EXCEPT ![c][d].eof = TRUE]
    /\ UNCHANGED <<loop, stop, returned, phase, req, answer, dialled, gone>>

\* The sink of a direction stops reading, for good: what more is written to it
\* stays in the way.
StopReading(c, d) ==
    /\ phase[c] = "relaying" /\ ~pipe[c][d].deaf
    /\ pipe' = [pipe EXCEPT ![c][d].deaf = TRUE]
    /\ UNCHANGED <<loop, stop, returned, phase, req, answer, dialled, gone>>

\* One side resets its connection: the client once it is accepted, the upstream
\* once it is connected to.
Reset(c, side) ==
    /\ phase[c] \in {"reading", "dialling", "answering", "relaying"}
    /\ side = "upstream" => dialled[c] # None
    /\ side \notin gone[c]
    /\ gone' = [gone EXCEPT ![c] = @ \cup {side}]
    /\ UNCHANGED <<loop, stop, returned, phase, req, answer, dialled, pipe>>

-----------------------------------------------------------------------------
(* The accept loop and its handle *)

\* select! takes either branch that is ready.
Accept(c) ==
    /\ loop = "running" /\ phase[c] = "queued"
    /\ phase' = [phase EXCEPT ![c] = "reading"]
    /\ UNCHANGED <<loop, stop, returned, req, answer, dialled, pipe, gone>>

\* The loop ends: the listener closes, and the kernel resets who is queued.
\* Clients already accepted have tasks of their own and are not told.
EndLoop ==
    /\ loop' = "stopped"
    /\ phase' = [c \in Conns |-> IF phase[c] = "queued" THEN "closed" ELSE phase[c]]
    /\ UNCHANGED <<stop, returned, req, answer, dialled, pipe, gone>>

\* Mutant: the loop joins its clients' tasks before it ends.
SeeShutdownJoin ==
    /\ loop = "running" /\ stop = "sent"
    /\ \A c \in Conns : phase[c] \in {"new", "queued", "closed"}
    /\ EndLoop

SeeShutdown == loop = "running" /\ stop = "sent" /\ EndLoop

\* accept() fails, say for want of file descriptors.
AcceptFails == loop = "running" /\ EndLoop

\* shutdown(), or the handle is dropped.
Shutdown ==
    /\ stop = "open"
    /\ stop' = "sent"
    /\ UNCHANGED <<loop, returned, phase, req, answer, dialled, pipe, gone>>

\* shutdown() has awaited the accept loop.
ShutdownReturns ==
    /\ stop = "sent" /\ loop = "stopped" /\ ~returned
    /\ returned' = TRUE
    /\ UNCHANGED <<loop, stop, phase, req, answer, dialled, pipe, gone>>

-----------------------------------------------------------------------------
(* handle_client *)

\* The connection is dropped, with or without an answer.
Close(c, status) ==
    /\ phase' = [phase EXCEPT ![c] = "closed"]
    /\ answer' = [answer EXCEPT ![c] = status]
    /\ UNCHANGED <<loop, stop, returned, req, dialled, gone>>

\* End of stream before a request line.
NoRequest(c) ==
    /\ phase[c] = "reading" /\ req[c] = None /\ pipe[c]["up"].eof
    /\ Close(c, None)
    /\ UNCHANGED pipe

\* The BufReader has read the request, and with it whatever of the bytes behind
\* it had arrived: into_inner drops those.
Buffered(c, k) ==
    pipe' = [pipe EXCEPT ![c]["up"].wire = SubSeq(@, k + 1, Len(@))]

\* Mutant: another method is dropped without an answer.
NotConnectSilent(c) ==
    /\ phase[c] = "reading" /\ req[c] # None
    /\ req[c].method # "CONNECT"
    /\ Close(c, None)
    /\ UNCHANGED pipe

NotConnect(c) ==
    /\ phase[c] = "reading" /\ req[c] # None
    /\ req[c].method # "CONNECT"
    /\ \E k \in 0 .. Len(pipe[c]["up"].wire) : Buffered(c, k)
    /\ Close(c, 405)

Forbid(c) ==
    /\ phase[c] = "reading" /\ req[c] # None
    /\ req[c].method = "CONNECT" /\ Key(req[c]) \notin Allow
    /\ \E k \in 0 .. Len(pipe[c]["up"].wire) : Buffered(c, k)
    /\ Close(c, 403)

\* Mutant: the port is not looked at.
PermitHost(c) ==
    /\ phase[c] = "reading" /\ req[c] # None
    /\ req[c].method = "CONNECT" /\ \E k \in Allow : k.host = Key(req[c]).host
    /\ \E k \in 0 .. Len(pipe[c]["up"].wire) : Buffered(c, k)
    /\ phase' = [phase EXCEPT ![c] = "dialling"]
    /\ UNCHANGED <<loop, stop, returned, req, answer, dialled, gone>>

Permit(c) ==
    /\ phase[c] = "reading" /\ req[c] # None
    /\ req[c].method = "CONNECT" /\ Key(req[c]) \in Allow
    /\ \E k \in 0 .. Len(pipe[c]["up"].wire) : Buffered(c, k)
    /\ phase' = [phase EXCEPT ![c] = "dialling"]
    /\ UNCHANGED <<loop, stop, returned, req, answer, dialled, gone>>

DialFails(c) ==
    /\ phase[c] = "dialling"
    /\ Close(c, 502)
    /\ UNCHANGED pipe

\* Mutant: what the client named is dialled, not the key of the allow set.
DialAsAsked(c) ==
    /\ phase[c] = "dialling"
    /\ phase' = [phase EXCEPT ![c] = "answering"]
    /\ dialled' = [dialled EXCEPT ![c] = [host |-> req[c].host, port |-> req[c].port]]
    /\ UNCHANGED <<loop, stop, returned, req, answer, pipe, gone>>

\* TcpStream::connect(&key): the upstream may speak from now on.
Dial(c) ==
    /\ phase[c] = "dialling"
    /\ phase' = [phase EXCEPT ![c] = "answering"]
    /\ dialled' = [dialled EXCEPT ![c] = Key(req[c])]
    /\ UNCHANGED <<loop, stop, returned, req, answer, pipe, gone>>

\* The 200, then the two relay tasks.
Establish(c) ==
    /\ phase[c] = "answering" /\ "client" \notin gone[c]
    /\ phase' = [phase EXCEPT ![c] = "relaying"]
    /\ answer' = [answer EXCEPT ![c] = 200]
    /\ pipe' = [pipe EXCEPT ![c] = [d \in Directions |-> [@[d] EXCEPT !.task = "on"]]]
    /\ UNCHANGED <<loop, stop, returned, req, dialled, gone>>

\* A read or the write of an answer fails: the task ends, and drops the
\* upstream it may have connected to.
ClientLost(c) ==
    /\ phase[c] \in {"reading", "dialling", "answering"}
    /\ "client" \in gone[c]
    /\ Close(c, None)
    /\ UNCHANGED pipe

-----------------------------------------------------------------------------
(* relay *)

\* Mutant: write in place of write_all, which may take less than was read.
RelayWrite(c, d) ==
    /\ pipe[c][d].task = "on" /\ pipe[c][d].wire # <<>>
    /\ gone[c] = {} /\ ~pipe[c][d].deaf
    /\ \E k \in 1 .. Len(pipe[c][d].wire) : \E w \in 1 .. k :
            pipe' = [pipe EXCEPT ![c][d].got = @ \o SubSeq(pipe[c][d].wire, 1, w),
                                 ![c][d].wire = SubSeq(@, k + 1, Len(@))]
    /\ UNCHANGED <<loop, stop, returned, phase, req, answer, dialled, gone>>

\* read, then write_all of all that was read, which never comes back from a
\* sink that does not read.
Relay(c, d) ==
    /\ pipe[c][d].task = "on" /\ pipe[c][d].wire # <<>>
    /\ gone[c] = {} /\ ~pipe[c][d].deaf
    /\ \E k \in 1 .. Len(pipe[c][d].wire) :
            pipe' = [pipe EXCEPT ![c][d].got = @ \o SubSeq(pipe[c][d].wire, 1, k),
                                 ![c][d].wire = SubSeq(@, k + 1, Len(@))]
    /\ UNCHANGED <<loop, stop, returned, phase, req, answer, dialled, gone>>

\* Mutant: select! in place of join!, the end of one direction ends the other.
RelayEndsBoth(c, d) ==
    /\ pipe[c][d].task = "on"
    /\ \/ pipe[c][d].eof /\ pipe[c][d].wire = <<>>
       \/ gone[c] # {}
    /\ pipe' = [pipe EXCEPT ![c]["up"].task = "done", ![c]["down"].task = "done"]
    /\ UNCHANGED <<loop, stop, returned, phase, req, answer, dialled, gone>>

\* read returns 0, or a read or a write fails: the task ends and drops its half
\* of the sink, which the sink sees as the end of the stream.
RelayEnds(c, d) ==
    /\ pipe[c][d].task = "on"
    /\ \/ pipe[c][d].eof /\ pipe[c][d].wire = <<>>
       \/ gone[c] # {}
    /\ pipe' = [pipe EXCEPT ![c][d].task = "done"]
    /\ UNCHANGED <<loop, stop, returned, phase, req, answer, dialled, gone>>

\* join!: both directions are done.
TunnelCloses(c) ==
    /\ phase[c] = "relaying"
    /\ \A d \in Directions : pipe[c][d].task = "done"
    /\ Close(c, answer[c])
    /\ UNCHANGED pipe

-----------------------------------------------------------------------------

Init ==
    /\ loop = "running" /\ stop = "open" /\ returned = FALSE
    /\ phase = [c \in Conns |-> "new"]
    /\ req = [c \in Conns |-> None]
    /\ answer = [c \in Conns |-> None]
    /\ dialled = [c \in Conns |-> None]
    /\ pipe = [c \in Conns |-> [d \in Directions |-> NoPipe]]
    /\ gone = [c \in Conns |-> {}]

Handle(c) ==
    \/ NoRequest(c) \/ NotConnect(c) \/ Forbid(c) \/ Permit(c)
    \/ DialFails(c) \/ Dial(c) \/ Establish(c) \/ ClientLost(c)

Tunnel(c) == TunnelCloses(c) \/ \E d \in Directions : Relay(c, d) \/ RelayEnds(c, d)

Clients(c) ==
    \/ Connect(c) \/ SendRequest(c)
    \/ \E d \in Directions : \/ Send(c, d) \/ HalfClose(c, d)
                           \/ StopReading(c, d) \/ Reset(c, Source(d))

Next ==
    \/ SeeShutdown \/ AcceptFails \/ Shutdown \/ ShutdownReturns
    \/ \E c \in Conns : Clients(c) \/ Accept(c) \/ Handle(c) \/ Tunnel(c)

Spec == Init /\ [][Next]_vars

\* tokio polls every task that is woken, a connect ends one way or the other,
\* and select! polls its branches in random order, so the shutdown branch is
\* not passed over for ever.  Nothing is assumed of clients and upstreams, not
\* even that they read: a status line fits what their sockets buffer, the bytes
\* of a tunnel need not.  A relay whose connection was reset may stay in a read
\* or a write that the reset does not end.
FairSpec ==
    /\ Spec
    /\ WF_vars(SeeShutdown) /\ WF_vars(ShutdownReturns)
    /\ \A c \in Conns :
        /\ WF_vars(Accept(c)) /\ WF_vars(Handle(c)) /\ WF_vars(TunnelCloses(c))
        /\ \A d \in Directions : WF_vars(Relay(c, d) \/ (RelayEnds(c, d) /\ gone[c] = {}))
=============================================================================
