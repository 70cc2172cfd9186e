----------------------------- MODULE ProxyProofs -----------------------------
(***************************************************************************)
(* The allowlist is exact: for any policy, any number of connections and   *)
(* any requests, what is reached is listed and what is listed is not       *)
(* forbidden.  And the tunnels are transparent, for any number of bytes.   *)
(***************************************************************************)
EXTENDS ProxyProperties, SequenceTheorems, TLAPS

\* The port a target is taken to name: none for an IPv6 literal without one.
PortOf(t) == IF HasColon(t) THEN t.port ELSE 443

\* A target and a listed endpoint have one key iff they have one host, in brackets
\* or not, and the target's port is the listed one.
LEMMA KeyMeansEndpoint ==
    ASSUME NEW e \in Listed, NEW t \in Requests
    PROVE  Key(e) = Key(t) <=>
              /\ SameHost(e.host, t.host) /\ e.host.brackets = t.host.brackets
              /\ e.port = PortOf(t)
<1>1. /\ e.host \in Hosts /\ t.host \in Hosts
      /\ e.port # None
  BY ProxyAssumption
<1>2. ASSUME NEW h \in Hosts
      PROVE  /\ Lower(h) = [name |-> h.name, upper |-> FALSE, brackets |-> h.brackets]
             /\ Lower(h).name = h.name /\ Lower(h).brackets = h.brackets
  BY DEF Lower
<1>3. Lower(e.host) = Lower(t.host) <=>
        SameHost(e.host, t.host) /\ e.host.brackets = t.host.brackets
  <2>1. ASSUME Lower(e.host) = Lower(t.host)
        PROVE  SameHost(e.host, t.host) /\ e.host.brackets = t.host.brackets
    <3>1. /\ Lower(e.host).name = e.host.name /\ Lower(e.host).brackets = e.host.brackets
          /\ Lower(t.host).name = t.host.name /\ Lower(t.host).brackets = t.host.brackets
      BY <1>1, <1>2
    <3> QED
      BY <2>1, <3>1, Zenon DEF SameHost
  <2>2. ASSUME SameHost(e.host, t.host), e.host.brackets = t.host.brackets
        PROVE  Lower(e.host) = Lower(t.host)
    <3>1. /\ Lower(e.host) = [name |-> e.host.name, upper |-> FALSE, brackets |-> e.host.brackets]
          /\ Lower(t.host) = [name |-> t.host.name, upper |-> FALSE, brackets |-> t.host.brackets]
      BY <1>1, <1>2
    <3> QED
      BY <2>2, <3>1, Zenon DEF SameHost
  <2> QED
    BY <2>1, <2>2
<1>4. /\ Key(e) = [host |-> Lower(e.host), port |-> e.port]
      /\ Key(t) = [host |-> Lower(t.host), port |-> PortOf(t)]
  BY <1>1 DEF Key, HasColon, PortOf, DefaultPort
<1>5. Key(e).host = Lower(e.host) /\ Key(e).port = e.port
  BY <1>4
<1>6. Key(t).host = Lower(t.host) /\ Key(t).port = PortOf(t)
  BY <1>4
<1> QED
  BY <1>3, <1>4, <1>5, <1>6

\* A target's key has its host, and the port it names.
LEMMA KeyKeepsHost ==
    ASSUME NEW t \in Requests
    PROVE  SameHost(t.host, Key(t).host) /\ Key(t).port = PortOf(t)
<1>1. t.host \in Hosts
  BY ProxyAssumption
<1>2. Lower(t.host).name = t.host.name
  BY <1>1 DEF Lower, Hosts
<1> QED
  BY <1>2 DEF Key, SameHost, PortOf, DefaultPort

-----------------------------------------------------------------------------

Shape ==
    /\ phase \in [Conns -> {"new", "queued", "reading", "dialling", "answering", "relaying", "closed"}]
    /\ req \in [Conns -> Requests \cup {None}]
    /\ DOMAIN answer = Conns /\ answer = [c \in Conns |-> answer[c]]
    /\ DOMAIN dialled = Conns /\ dialled = [c \in Conns |-> dialled[c]]

\* A connection was checked before it is dialled, and the request it was checked
\* for is still the one it has; a refused one failed that check.
Checked(c) ==
    /\ phase[c] = "dialling" => req[c] # None /\ Key(req[c]) \in Allow
    /\ dialled[c] # None =>
            req[c] # None /\ dialled[c] = Key(req[c]) /\ Key(req[c]) \in Allow
    /\ answer[c] = 403 => req[c] # None /\ Key(req[c]) \notin Allow

CheckInv == \A c \in Conns : Checked(c)

Inv == Shape /\ CheckInv

\* Inv holds at first.
LEMMA InvInit == Init => Inv
  BY ProxyAssumption DEF Init, Inv, Shape, CheckInv, Checked

\* handle_client keeps Inv: what it dials was looked up.
LEMMA HandleKeepsInv ==
    ASSUME Inv, NEW c \in Conns, Handle(c)
    PROVE  Inv'
<1> USE DEF Inv, Shape, CheckInv, Checked
<1>1. CASE NoRequest(c)
  BY <1>1, ProxyAssumption DEF NoRequest, Close
<1>2. CASE NotConnect(c)
  BY <1>2 DEF NotConnect, Close
<1>3. CASE Forbid(c)
  BY <1>3 DEF Forbid, Close
<1>4. CASE Permit(c)
  BY <1>4 DEF Permit
<1>5. CASE DialFails(c)
  BY <1>5 DEF DialFails, Close
<1>6. CASE Dial(c)
  <2>1. /\ phase[c] = "dialling"
        /\ phase' = [phase EXCEPT ![c] = "answering"]
        /\ dialled' = [dialled EXCEPT ![c] = Key(req[c])]
        /\ UNCHANGED <<req, answer>>
    BY <1>6 DEF Dial
  <2>2. /\ phase' \in [Conns -> {"new", "queued", "reading", "dialling", "answering", "relaying", "closed"}]
        /\ req' \in [Conns -> Requests \cup {None}]
    BY <2>1
  <2>3. DOMAIN answer' = Conns /\ answer' = [k \in Conns |-> answer'[k]]
    BY <2>1
  <2>4. DOMAIN dialled' = Conns /\ dialled' = [k \in Conns |-> dialled'[k]]
    BY <2>1
  <2>5. ASSUME NEW k \in Conns, k # c
        PROVE  Checked(k)'
    <3>1. phase'[k] = phase[k] /\ req'[k] = req[k]
      BY <2>1, <2>5
    <3>2. answer'[k] = answer[k]
      BY <2>1, <2>5
    <3>3. dialled'[k] = dialled[k]
      BY <2>1, <2>5
    <3> QED
      BY <3>1, <3>2, <3>3
  <2>6. Checked(c)'
    <3>1. req[c] # None /\ Key(req[c]) \in Allow
      BY <2>1
    <3>2. phase'[c] = "answering" /\ answer'[c] = answer[c] /\ dialled'[c] = Key(req[c]) /\ req'[c] = req[c]
      BY <2>1
    <3> QED
      BY <3>1, <3>2
  <2> QED
    BY <2>2, <2>3, <2>4, <2>5, <2>6
<1>7. CASE Establish(c)
  <2>1. /\ phase' = [phase EXCEPT ![c] = "relaying"]
        /\ answer' = [answer EXCEPT ![c] = 200]
        /\ UNCHANGED <<req, dialled>>
    BY <1>7 DEF Establish
  <2> QED
    BY <2>1
<1>8. CASE ClientLost(c)
  BY <1>8, ProxyAssumption DEF ClientLost, Close
<1> QED
  BY <1>1, <1>2, <1>3, <1>4, <1>5, <1>6, <1>7, <1>8 DEF Handle

\* So does every other step.
LEMMA OthersKeepInv ==
    ASSUME Inv, [Next]_vars, ~ \E c \in Conns : Handle(c)
    PROVE  Inv'
<1> USE DEF Inv, Shape, CheckInv, Checked
<1>1. ASSUME NEW c \in Conns, Connect(c) \/ Accept(c)
      PROVE  Inv'
  BY <1>1 DEF Connect, Accept
<1>2. ASSUME NEW c \in Conns, SendRequest(c)
      PROVE  Inv'
  BY <1>2 DEF SendRequest
<1>3. ASSUME NEW c \in Conns, TunnelCloses(c)
      PROVE  Inv'
  BY <1>3 DEF TunnelCloses, Close
<1>4. CASE SeeShutdown \/ AcceptFails
  BY <1>4 DEF SeeShutdown, AcceptFails, EndLoop
<1>5. CASE UNCHANGED <<phase, req, answer, dialled>>
  BY <1>5
<1>6. ASSUME NEW c \in Conns, NEW d \in Directions,
             \/ Send(c, d) \/ HalfClose(c, d) \/ StopReading(c, d)
             \/ Relay(c, d) \/ RelayEnds(c, d) \/ Reset(c, Source(d))
      PROVE  Inv'
  BY <1>5, <1>6 DEF Send, HalfClose, StopReading, Relay, RelayEnds, Reset
<1>7. CASE Shutdown \/ ShutdownReturns \/ UNCHANGED vars
  BY <1>5, <1>7 DEF Shutdown, ShutdownReturns, vars
<1> QED
  BY <1>1, <1>2, <1>3, <1>4, <1>6, <1>7 DEF Next, Clients, Tunnel

\* Inv is inductive.
LEMMA InvStep == Inv /\ [Next]_vars => Inv'
  BY HandleKeepsInv, OthersKeepInv

\* Whatever is listed and whatever clients ask for, in whatever order: an endpoint
\* is reached only if it is listed and asked for.
THEOREM ReachedIsListed == Spec => []OnlyListedReached
<1>1. ASSUME Inv, NEW c \in Conns, dialled[c] # None
      PROVE  /\ SameHost(req[c].host, dialled[c].host)
             /\ dialled[c].port = IF req[c].port = None THEN 443 ELSE req[c].port
             /\ \E e \in Listed : SameHost(e.host, dialled[c].host) /\ e.port = dialled[c].port
  <2>1. req[c] \in Requests /\ dialled[c] = Key(req[c]) /\ Key(req[c]) \in Allow
    BY <1>1 DEF Inv, Shape, CheckInv, Checked
  <2>2. PICK e \in Listed : Key(e) = Key(req[c])
    BY <2>1 DEF Allow
  <2>3. /\ SameHost(req[c].host, dialled[c].host) /\ dialled[c].port = PortOf(req[c])
        /\ SameHost(e.host, req[c].host) /\ e.port = PortOf(req[c])
    BY <2>1, <2>2, KeyMeansEndpoint, KeyKeepsHost
  <2>4. e.port # None
    BY ProxyAssumption
  <2>5. PortOf(req[c]) = IF req[c].port = None THEN 443 ELSE req[c].port
    BY <2>3, <2>4 DEF PortOf, HasColon
  <2> QED
    BY <2>3, <2>5 DEF SameHost
<1>2. Inv => OnlyListedReached
  BY <1>1 DEF OnlyListedReached
<1> QED
  BY <1>2, InvInit, InvStep, PTL DEF Spec

\* And a 403 is only ever the answer to a request for an endpoint that is not.
THEOREM ForbiddenIsUnlisted == Spec => []ListedNotForbidden
<1>1. ASSUME Inv, NEW c \in Conns, answer[c] = 403, NEW e \in Listed
      PROVE  ~ Names(req[c], e)
  <2>1. req[c] \in Requests /\ Key(req[c]) \notin Allow
    BY <1>1 DEF Inv, Shape, CheckInv, Checked
  <2>2. Key(e) # Key(req[c])
    BY <2>1 DEF Allow
  <2>3. ASSUME Names(req[c], e)
        PROVE  /\ SameHost(e.host, req[c].host) /\ e.host.brackets = req[c].host.brackets
               /\ e.port = PortOf(req[c])
    BY <2>3, ProxyAssumption DEF Names, PortOf, HasColon
  <2> QED
    BY <2>1, <2>2, <2>3, KeyMeansEndpoint
<1>2. Inv => ListedNotForbidden
  BY <1>1 DEF ListedNotForbidden
<1> QED
  BY <1>2, InvInit, InvStep, PTL DEF Spec

-----------------------------------------------------------------------------
(* One direction of a tunnel *)

Lost(p) == p.sent - Len(Arriving(p))

\* What arrives is the last of what was sent, in order and without a gap.
InOrder(p) ==
    /\ Lost(p) >= 0
    /\ \A i \in 1 .. Len(Arriving(p)) : Arriving(p)[i] = Lost(p) + i

\* The parts of a pipe.
LEMMA Fields ==
    ASSUME NEW p \in PipeType
    PROVE  p.wire \in Seq(Nat) /\ p.got \in Seq(Nat) /\ p.sent \in Nat /\ Len(p.wire) \in Nat
BY DEF PipeType

\* What is sent last stands last of all that arrived and is under way.
LEMMA AppendLast ==
    \A g, w \in Seq(Nat), s \in Nat :
      /\ g \o Append(w, s) = Append(g \o w, s)
           /\ Len(g \o w) \in Nat /\ Len(Append(g \o w, s)) = Len(g \o w) + 1
OBVIOUS

\* What arrives is a sequence of bytes.
LEMMA ArrivingType ==
    ASSUME NEW p \in PipeType
    PROVE  /\ Arriving(p) \in Seq(Nat) /\ Len(Arriving(p)) \in Nat /\ Lost(p) \in Int
BY DEF PipeType, Arriving, Lost

\* A byte is sent.
LEMMA SendKeepsOrder ==
    ASSUME NEW p \in PipeType, InOrder(p)
    PROVE  LET q == [p EXCEPT !.sent = @ + 1, !.wire = Append(@, p.sent + 1)]
           IN  q \in PipeType /\ InOrder(q) /\ Lost(q) = Lost(p)
<1>. DEFINE s == p.sent + 1
            w == Append(p.wire, s)
            q == [p EXCEPT !.sent = s, !.wire = w]
            n == Len(Arriving(p))
<1>1. s \in Nat /\ w \in Seq(Nat) /\ p.sent \in Nat /\ p.wire \in Seq(Nat) /\ p.got \in Seq(Nat)
  BY Fields
<1>2. q.sent = s /\ q.wire = w /\ q.got = p.got
  BY DEF PipeType
<1>3. q \in PipeType
  BY <1>1, Zenon DEF PipeType
<1>. HIDE DEF q
<1>4. Arriving(q) = Append(Arriving(p), s) /\ Len(Arriving(q)) = n + 1 /\ n \in Nat
  <2>1. p.got \o Append(p.wire, s) = Append(p.got \o p.wire, s)
    BY <1>1, AppendLast, Zenon
  <2>2. Arriving(q) = Append(Arriving(p), s)
    BY <1>2, <2>1, Zenon DEF Arriving
  <2>3. Len(p.got \o p.wire) \in Nat /\ Len(Append(p.got \o p.wire, s)) = Len(p.got \o p.wire) + 1
    BY <1>1, AppendLast, Zenon
  <2>. QED
    BY <2>2, <2>3, Zenon DEF Arriving
<1>5. Lost(q) = Lost(p) /\ s = Lost(p) + (n + 1) /\ Lost(p) \in Int
  BY <1>1, <1>2, <1>4 DEF Lost
<1>6. ASSUME NEW i \in 1 .. n + 1 PROVE Arriving(q)[i] = Lost(p) + i
  <2>1. CASE i \in 1 .. n
    <3>1. Arriving(q)[i] = Arriving(p)[i]
      BY <1>4, <2>1, ArrivingType
    <3>. QED
      BY <2>1, <3>1 DEF InOrder
  <2>2. CASE i = n + 1
    BY <1>4, <1>5, <2>2, ArrivingType
  <2>. QED
    BY <1>4, <2>1, <2>2
<1>7. InOrder(q)
  BY <1>4, <1>5, <1>6 DEF InOrder
<1>. QED
  BY <1>3, <1>5, <1>7 DEF q

\* What was read is written on: nothing that arrives changes.
LEMMA RelayKeepsOrder ==
    ASSUME NEW p \in PipeType, InOrder(p), NEW k \in 1 .. Len(p.wire)
    PROVE  LET q == [p EXCEPT !.got = @ \o SubSeq(p.wire, 1, k),
                              !.wire = SubSeq(@, k + 1, Len(@))]
           IN  q \in PipeType /\ InOrder(q) /\ Lost(q) = Lost(p)
<1>. DEFINE head == SubSeq(p.wire, 1, k)
            tail == SubSeq(p.wire, k + 1, Len(p.wire))
            g == p.got \o head
            q == [p EXCEPT !.got = g, !.wire = tail]
<1>1. p.sent \in Nat /\ p.wire \in Seq(Nat) /\ p.got \in Seq(Nat) /\ k \in Nat /\ Len(p.wire) \in Nat
  BY Fields
<1>2. head \in Seq(Nat) /\ tail \in Seq(Nat) /\ head \o tail = p.wire
  BY <1>1
<1>3. q.got = g /\ q.wire = tail /\ q.sent = p.sent
  BY DEF PipeType
<1>4. g \in Seq(Nat) /\ tail \in Seq(Nat)
  BY <1>1, <1>2
<1>5. q \in PipeType
  BY <1>4, Zenon DEF PipeType
<1>6. \A a, b, c \in Seq(Nat) : (a \o b) \o c = a \o (b \o c)
  BY ConcatAssociative
<1>. HIDE DEF q, head, tail
<1>7. Arriving(q) = Arriving(p)
  <2>1. (p.got \o head) \o tail = p.got \o (head \o tail)
    BY <1>1, <1>2, <1>6, Zenon
  <2>. QED
    BY <1>2, <1>3, <2>1, Zenon DEF Arriving
<1>. QED
  BY <1>3, <1>5, <1>7 DEF InOrder, Lost, q, head, tail

\* The first bytes are lost before any was passed on: what is left is still the
\* last of what was sent.
LEMMA BufferKeepsOrder ==
    ASSUME NEW p \in PipeType, InOrder(p), p.got = <<>>, NEW k \in 0 .. Len(p.wire)
    PROVE  LET q == [p EXCEPT !.wire = SubSeq(@, k + 1, Len(@))]
           IN  q \in PipeType /\ InOrder(q) /\ Lost(q) = Lost(p) + k
<1>. DEFINE w == p.wire
            tail == SubSeq(w, k + 1, Len(w))
            q == [p EXCEPT !.wire = tail]
<1>1. w \in Seq(Nat) /\ k \in Nat /\ Len(w) \in Nat /\ k <= Len(w) /\ p.sent \in Nat
  BY Fields
<1>2. /\ tail \in Seq(Nat) /\ Len(tail) = Len(w) - k
      /\ \A i \in 1 .. Len(w) - k : tail[i] = w[k + i]
  BY <1>1
<1>3. q.sent = p.sent /\ q.wire = tail /\ q.got = <<>>
  BY DEF PipeType
<1>4. q \in PipeType
  BY <1>2, Zenon DEF PipeType
<1>. HIDE DEF q
<1>5. Arriving(p) = w /\ Arriving(q) = tail
  BY <1>1, <1>2, <1>3 DEF Arriving
<1>6. Lost(q) = Lost(p) + k /\ Lost(p) = p.sent - Len(w) /\ Lost(p) \in Int
  <2>1. Lost(p) = p.sent - Len(w) /\ Lost(q) = p.sent - Len(tail)
    BY <1>3, <1>5 DEF Lost
  <2>. QED
    BY <1>1, <1>2, <2>1
<1>7. ASSUME NEW i \in 1 .. Len(w) - k PROVE tail[i] = Lost(q) + i
  <2>1. k + i \in 1 .. Len(w)
    BY <1>1
  <2>2. w[k + i] = Lost(p) + (k + i)
    BY <1>5, <2>1 DEF InOrder
  <2>. QED
    BY <1>1, <1>2, <1>6, <2>2
<1>8. Lost(q) >= 0
  BY <1>1, <1>6 DEF InOrder
<1>9. InOrder(q)
  BY <1>2, <1>5, <1>7, <1>8 DEF InOrder
<1>. QED
  BY <1>4, <1>6, <1>9 DEF q

\* The pipes after one direction of one of them has become q.
LEMMA PipeSet ==
    ASSUME TypeOK, NEW c \in Conns, NEW d \in Directions, NEW q \in PipeType,
           pipe' = [pipe EXCEPT ![c][d] = q]
    PROVE  /\ pipe' \in [Conns -> [Directions -> PipeType]]
           /\ pipe'[c][d] = q
           /\ \A e \in Directions : e # d => pipe'[c][e] = pipe[c][e]
           /\ \A k \in Conns : k # c => pipe'[k] = pipe[k]
BY DEF TypeOK

\* Every pipe is one.
LEMMA PipeKind ==
    ASSUME TypeOK, NEW c \in Conns, NEW d \in Directions
    PROVE  pipe[c][d] \in PipeType
BY DEF TypeOK

\* What the steps of a tunnel do to one direction of it.
LEMMA SendSets ==
    ASSUME TypeOK, NEW c \in Conns, NEW d \in Directions, Send(c, d)
    PROVE  pipe' = [pipe EXCEPT ![c][d] =
                [pipe[c][d] EXCEPT !.sent = @ + 1, !.wire = Append(@, pipe[c][d].sent + 1)]]
BY DEF TypeOK, Send

\* What a relay does to the pipe of its direction.
LEMMA RelaySets ==
    ASSUME TypeOK, NEW c \in Conns, NEW d \in Directions, Relay(c, d)
    PROVE  \E k \in 1 .. Len(pipe[c][d].wire) : pipe' = [pipe EXCEPT ![c][d] =
                [pipe[c][d] EXCEPT !.got = @ \o SubSeq(pipe[c][d].wire, 1, k),
                                   !.wire = SubSeq(@, k + 1, Len(@))]]
<1>1. PICK k \in 1 .. Len(pipe[c][d].wire) :
        pipe' = [pipe EXCEPT ![c][d].got = @ \o SubSeq(pipe[c][d].wire, 1, k),
                             ![c][d].wire = SubSeq(@, k + 1, Len(@))]
  BY DEF Relay
<1>2. pipe' = [pipe EXCEPT ![c][d] =
                [pipe[c][d] EXCEPT !.got = @ \o SubSeq(pipe[c][d].wire, 1, k),
                                   !.wire = SubSeq(@, k + 1, Len(@))]]
  BY <1>1 DEF TypeOK
<1>. QED
  BY <1>2

\* What the read of the request does to the pipe it reads from.
LEMMA BufferedSets ==
    ASSUME TypeOK, NEW c \in Conns, NEW k, Buffered(c, k)
    PROVE  pipe' = [pipe EXCEPT ![c]["up"] =
                [pipe[c]["up"] EXCEPT !.wire = SubSeq(@, k + 1, Len(@))]]
BY DEF TypeOK, Buffered

-----------------------------------------------------------------------------
(* The tunnels *)

Before == {"new", "queued", "reading", "dialling", "answering"}

\* Until a tunnel is established nothing was answered and nothing passed on; a
\* client that waits for the 200 has sent no byte before it, so that only the
\* bytes of one that does not are ever dropped.
StreamsOK(c) ==
    /\ phase[c] \in Before => answer[c] = None /\ \A d \in Directions : pipe[c][d].task = "off"
    /\ \A d \in Directions : pipe[c][d].task = "off" => pipe[c][d].got = <<>>
    /\ pipe[c]["up"].sent > 0 => req[c] # None /\ (req[c].waits => answer[c] = 200)
    /\ \A d \in Directions :
            InOrder(pipe[c][d]) /\ (Lost(pipe[c][d]) > 0 => Ahead(c, d))

StreamInv == \A c \in Conns : StreamsOK(c)

\* The request stays, a 200 stays, and nothing is taken back.
Goes(c) ==
    /\ req'[c] = req[c] /\ (answer[c] = 200 => answer'[c] = 200)
    /\ phase'[c] \in Before => phase[c] \in Before /\ answer'[c] = answer[c]

\* What StreamsOK asks of direction d of c when it is q.
DirectionOK(c, d, q) ==
    /\ phase'[c] \in Before => q.task = "off"
    /\ q.task = "off" => q.got = <<>>
    /\ d = "up" /\ q.sent > 0 => req[c] # None /\ (req[c].waits => answer[c] = 200)
    /\ InOrder(q) /\ (Lost(q) > 0 => Ahead(c, d))

\* A connection whose pipes do not change.
LEMMA StreamFrame ==
    ASSUME NEW c \in Conns, StreamsOK(c),
           pipe'[c] = pipe[c], Goes(c)
    PROVE  StreamsOK(c)'
<1>1. \A d \in Directions : (InOrder(pipe[c][d]))' <=> InOrder(pipe[c][d])
  BY DEF InOrder, Lost, Arriving
<1>2. \A d \in Directions : (Lost(pipe[c][d]))' = Lost(pipe[c][d])
  BY DEF Lost, Arriving
<1>3. \A d \in Directions : Ahead(c, d)' <=> Ahead(c, d)
  BY DEF Ahead, Goes
<1>. QED
  BY <1>1, <1>2, <1>3 DEF StreamsOK, Goes

\* One direction changes, and stays in order.
LEMMA StreamMoves ==
    ASSUME TypeOK, NEW c \in Conns, NEW d \in Directions, StreamsOK(c), NEW q \in PipeType,
           pipe' = [pipe EXCEPT ![c][d] = q],
           Goes(c), DirectionOK(c, d, q)
    PROVE  StreamsOK(c)'
<1>1. pipe'[c][d] = q /\ \A e \in Directions : e # d => pipe'[c][e] = pipe[c][e]
  BY PipeSet
<1>2. ASSUME NEW e \in Directions
      PROVE  (InOrder(pipe[c][e]))' /\ ((Lost(pipe[c][e]))' > 0 => Ahead(c, e)')
  <2>1. Ahead(c, e)' <=> Ahead(c, e)
    BY DEF Ahead, Goes
  <2>2. ASSUME NEW r, pipe'[c][e] = r
        PROVE  ((InOrder(pipe[c][e]))' <=> InOrder(r)) /\ (Lost(pipe[c][e]))' = Lost(r)
    BY <2>2 DEF InOrder, Lost, Arriving
  <2>3. CASE e = d
    BY <1>1, <2>1, <2>2, <2>3 DEF DirectionOK
  <2>4. CASE e # d
    <3>1. InOrder(pipe[c][e]) /\ (Lost(pipe[c][e]) > 0 => Ahead(c, e))
      BY DEF StreamsOK
    <3>2. pipe'[c][e] = pipe[c][e]
      BY <1>1, <2>4
    <3>. QED
      BY <2>1, <2>2, <3>1, <3>2
  <2>. QED
    BY <2>3, <2>4
<1>3. phase'[c] \in Before =>
        answer'[c] = None /\ \A e \in Directions : pipe'[c][e].task = "off"
  BY <1>1 DEF StreamsOK, Goes, DirectionOK
<1>4. \A e \in Directions : pipe'[c][e].task = "off" => pipe'[c][e].got = <<>>
  BY <1>1 DEF StreamsOK, DirectionOK
<1>5. pipe'[c]["up"].sent > 0 => req'[c] # None /\ (req'[c].waits => answer'[c] = 200)
  BY <1>1 DEF StreamsOK, Directions, Goes, DirectionOK
<1>. QED
  BY <1>2, <1>3, <1>4, <1>5 DEF StreamsOK

\* A change of a direction that leaves its bytes alone leaves their order alone.
LEMMA SameOrder ==
    ASSUME NEW p, NEW q, q.sent = p.sent, q.got = p.got, q.wire = p.wire
    PROVE  (InOrder(q) <=> InOrder(p)) /\ Lost(q) = Lost(p)
BY DEF InOrder, Lost, Arriving

\* Each step of one direction keeps the streams in order.
LEMMA DirectionStep ==
    ASSUME TypeOK, StreamInv, NEW c \in Conns, NEW d \in Directions,
           Send(c, d) \/ Relay(c, d) \/ HalfClose(c, d) \/ StopReading(c, d) \/ RelayEnds(c, d)
    PROVE  pipe' \in [Conns -> [Directions -> PipeType]] /\ StreamInv'
<1>. DEFINE p == pipe[c][d]
<1>1. p \in PipeType /\ StreamsOK(c) /\ InOrder(p) /\ (Lost(p) > 0 => Ahead(c, d))
  BY PipeKind DEF StreamInv, StreamsOK
<1>2. UNCHANGED <<req, answer, phase>> /\ \A k \in Conns : Goes(k)
  BY DEF Send, Relay, HalfClose, StopReading, RelayEnds, Goes
<1>3. ASSUME NEW q \in PipeType, pipe' = [pipe EXCEPT ![c][d] = q], DirectionOK(c, d, q)
      PROVE  pipe' \in [Conns -> [Directions -> PipeType]] /\ StreamInv'
  <2>1. StreamsOK(c)'
    BY <1>1, <1>2, <1>3, StreamMoves
  <2>2. ASSUME NEW k \in Conns, k # c PROVE StreamsOK(k)'
    <3>1. pipe'[k] = pipe[k] /\ StreamsOK(k)
      BY <1>3, <2>2, PipeSet DEF StreamInv
    <3>. QED
      BY <1>2, <3>1, StreamFrame
  <2>. QED
    BY <1>3, <2>1, <2>2, PipeSet DEF StreamInv
<1>4. /\ phase[c] \in Before => p.task = "off"
      /\ p.task = "off" => p.got = <<>>
      /\ d = "up" /\ p.sent > 0 => req[c] # None /\ (req[c].waits => answer[c] = 200)
  BY <1>1 DEF StreamsOK
<1>5. CASE Send(c, d)
  <2>. DEFINE q == [p EXCEPT !.sent = @ + 1, !.wire = Append(@, p.sent + 1)]
  <2>1. q \in PipeType /\ InOrder(q) /\ Lost(q) = Lost(p)
    BY <1>1, SendKeepsOrder
  <2>2. q.task = p.task /\ q.got = p.got
    BY <1>1 DEF PipeType
  <2>3. pipe' = [pipe EXCEPT ![c][d] = q]
    BY <1>5, SendSets
  <2>4. d = "up" => req[c] # None /\ (req[c].waits => answer[c] = 200)
    BY <1>5 DEF Send
  <2>. HIDE DEF q
  <2>5. DirectionOK(c, d, q)
    BY <1>1, <1>2, <1>4, <2>1, <2>2, <2>3, <2>4 DEF DirectionOK
  <2>. QED
    BY <1>3, <2>1, <2>2, <2>3, <2>5
<1>6. CASE Relay(c, d)
  <2>1. PICK k \in 1 .. Len(p.wire) : pipe' = [pipe EXCEPT ![c][d] =
                [p EXCEPT !.got = @ \o SubSeq(p.wire, 1, k),
                          !.wire = SubSeq(@, k + 1, Len(@))]]
    BY <1>6, RelaySets
  <2>. DEFINE q == [p EXCEPT !.got = @ \o SubSeq(p.wire, 1, k),
                             !.wire = SubSeq(@, k + 1, Len(@))]
  <2>2. q \in PipeType /\ InOrder(q) /\ Lost(q) = Lost(p)
    BY <1>1, RelayKeepsOrder
  <2>3. q.task = "on" /\ q.sent = p.sent
    BY <1>1, <1>6 DEF PipeType, Relay
  <2>4. phase[c] \notin Before
    BY <1>4, <1>6 DEF Relay
  <2>5. pipe' = [pipe EXCEPT ![c][d] = q]
    BY <2>1
  <2>. HIDE DEF q
  <2>6. DirectionOK(c, d, q)
    BY <1>1, <1>2, <1>4, <2>2, <2>3, <2>4 DEF DirectionOK
  <2>. QED
    BY <1>3, <2>2, <2>5, <2>6
<1>7. CASE HalfClose(c, d)
  <2>. DEFINE q == [p EXCEPT !.eof = TRUE]
  <2>1. q \in PipeType
    BY <1>1, Zenon DEF PipeType
  <2>2. q.sent = p.sent /\ q.got = p.got /\ q.wire = p.wire /\ q.task = p.task
    BY <1>1 DEF PipeType
  <2>3. pipe' = [pipe EXCEPT ![c][d] = q]
    BY <1>7 DEF HalfClose, TypeOK
  <2>. HIDE DEF q
  <2>5. DirectionOK(c, d, q)
    BY <1>1, <1>2, <1>4, <2>1, <2>2, <2>3, SameOrder DEF DirectionOK
  <2>. QED
    BY <1>3, <2>1, <2>2, <2>3, <2>5
<1>8. CASE RelayEnds(c, d)
  <2>. DEFINE q == [p EXCEPT !.task = "done"]
  <2>1. q \in PipeType
    BY <1>1, Zenon DEF PipeType
  <2>2. q.sent = p.sent /\ q.got = p.got /\ q.wire = p.wire /\ q.task = "done"
    BY <1>1 DEF PipeType
  <2>3. pipe' = [pipe EXCEPT ![c][d] = q]
    BY <1>8 DEF RelayEnds, TypeOK
  <2>4. phase[c] \notin Before
    BY <1>4, <1>8 DEF RelayEnds
  <2>. HIDE DEF q
  <2>5. DirectionOK(c, d, q)
    BY <1>1, <1>2, <1>4, <2>1, <2>2, <2>3, <2>4, SameOrder DEF DirectionOK
  <2>. QED
    BY <1>3, <2>1, <2>2, <2>3, <2>5
<1>9. CASE StopReading(c, d)
  <2>. DEFINE q == [p EXCEPT !.deaf = TRUE]
  <2>1. q \in PipeType
    BY <1>1, Zenon DEF PipeType
  <2>2. q.sent = p.sent /\ q.got = p.got /\ q.wire = p.wire /\ q.task = p.task
    BY <1>1 DEF PipeType
  <2>3. pipe' = [pipe EXCEPT ![c][d] = q]
    BY <1>9 DEF StopReading, TypeOK
  <2>. HIDE DEF q
  <2>4. DirectionOK(c, d, q)
    BY <1>1, <1>2, <1>4, <2>1, <2>2, <2>3, SameOrder DEF DirectionOK
  <2>. QED
    BY <1>3, <2>1, <2>2, <2>3, <2>4
<1>. QED
  BY <1>5, <1>6, <1>7, <1>8, <1>9

\* into_inner drops bytes of a client that spoke ahead of the 200, and of no
\* other: one that waits has not sent any yet.
LEMMA BufferedStep ==
    ASSUME TypeOK, StreamInv, NEW c \in Conns, phase[c] = "reading",
           NEW k \in 0 .. Len(pipe[c]["up"].wire), Buffered(c, k),
           \A j \in Conns : Goes(j)
    PROVE  pipe' \in [Conns -> [Directions -> PipeType]] /\ StreamInv'
<1>. DEFINE p == pipe[c]["up"]
            q == [p EXCEPT !.wire = SubSeq(@, k + 1, Len(@))]
<1>1. "up" \in Directions
  BY DEF Directions
<1>2. p \in PipeType /\ StreamsOK(c) /\ InOrder(p) /\ (Lost(p) > 0 => Ahead(c, "up"))
  BY <1>1, PipeKind DEF StreamInv, StreamsOK
<1>3. p.task = "off" /\ p.got = <<>> /\ answer[c] = None /\ answer[c] # 200
  BY <1>1, <1>2, ProxyAssumption DEF StreamsOK, Before
<1>4. q \in PipeType /\ InOrder(q) /\ Lost(q) = Lost(p) + k
  BY <1>2, <1>3, BufferKeepsOrder
<1>5. q.sent = p.sent /\ q.task = p.task /\ q.got = p.got
  BY <1>2 DEF PipeType
<1>6. pipe' = [pipe EXCEPT ![c]["up"] = q]
  BY BufferedSets
<1>7. p.sent > 0 => req[c] # None /\ (req[c].waits => answer[c] = 200)
  BY <1>2 DEF StreamsOK
<1>8. k > 0 => p.sent > 0
  <2>1. Arriving(p) = p.wire /\ p.sent \in Nat /\ Len(p.wire) \in Nat
    BY <1>2, <1>3, Fields DEF Arriving
  <2>2. Len(p.wire) <= p.sent
    BY <1>2, <2>1 DEF InOrder, Lost
  <2>. QED
    BY <2>1, <2>2
<1>9. Lost(q) > 0 => Ahead(c, "up")
  <2>1. CASE k > 0
    BY <1>3, <1>7, <1>8, <2>1 DEF Ahead
  <2>2. CASE k = 0
    BY <1>2, <1>4, <2>2, ArrivingType
  <2>. QED
    BY <2>1, <2>2
<1>. HIDE DEF p, q
<1>10. DirectionOK(c, "up", q)
  BY <1>3, <1>4, <1>5, <1>7, <1>9 DEF DirectionOK, p
<1>11. StreamsOK(c)'
  BY <1>1, <1>2, <1>4, <1>6, <1>10, StreamMoves
<1>12. ASSUME NEW j \in Conns, j # c PROVE StreamsOK(j)'
  <2>1. pipe'[j] = pipe[j] /\ StreamsOK(j)
    BY <1>1, <1>4, <1>6, <1>12, PipeSet DEF StreamInv
  <2>. QED
    BY <2>1, StreamFrame
<1>. QED
  BY <1>1, <1>4, <1>6, <1>11, <1>12, PipeSet DEF StreamInv

\* The two relays start: no byte moves.
LEMMA EstablishStep ==
    ASSUME TypeOK, StreamInv, NEW c \in Conns, Establish(c)
    PROVE  pipe' \in [Conns -> [Directions -> PipeType]] /\ StreamInv'
<1>. DEFINE On(d) == [pipe[c][d] EXCEPT !.task = "on"]
<1>1. ASSUME NEW d \in Directions
      PROVE  /\ On(d) \in PipeType /\ On(d).task = "on"
             /\ On(d).sent = pipe[c][d].sent /\ On(d).got = pipe[c][d].got
             /\ On(d).wire = pipe[c][d].wire
  <2>1. pipe[c][d] \in PipeType
    BY PipeKind
  <2>2. On(d) \in PipeType
    BY <2>1, Zenon DEF PipeType
  <2>. QED
    BY <2>1, <2>2 DEF PipeType
<1>2. /\ pipe' = [pipe EXCEPT ![c] = [d \in Directions |-> On(d)]]
      /\ answer' = [answer EXCEPT ![c] = 200] /\ phase' = [phase EXCEPT ![c] = "relaying"]
      /\ req' = req
  BY DEF Establish
<1>. HIDE DEF On
<1>3. /\ pipe' \in [Conns -> [Directions -> PipeType]]
      /\ \A d \in Directions : pipe'[c][d] = On(d)
      /\ \A j \in Conns : j # c => pipe'[j] = pipe[j]
  BY <1>1, <1>2 DEF TypeOK
<1>4. ASSUME NEW j \in Conns, j # c PROVE StreamsOK(j)'
  <2>1. answer'[j] = answer[j] /\ phase'[j] = phase[j] /\ req'[j] = req[j]
    BY <1>2, <1>4 DEF TypeOK
  <2>2. Goes(j)
    BY <2>1 DEF Goes
  <2>3. StreamsOK(j) /\ pipe'[j] = pipe[j]
    BY <1>3, <1>4 DEF StreamInv
  <2>. QED
    BY <2>2, <2>3, StreamFrame
<1>5. StreamsOK(c)'
  <2>1. StreamsOK(c)
    BY DEF StreamInv
  <2>2. answer'[c] = 200 /\ phase'[c] = "relaying" /\ req'[c] = req[c]
    BY <1>2 DEF TypeOK
  <2>3. ASSUME NEW d \in Directions
        PROVE  (InOrder(pipe[c][d]))' /\ ((Lost(pipe[c][d]))' > 0 => Ahead(c, d)')
    <3>1. InOrder(pipe[c][d]) /\ (Lost(pipe[c][d]) > 0 => Ahead(c, d))
      BY <2>1 DEF StreamsOK
    <3>2. InOrder(On(d)) /\ Lost(On(d)) = Lost(pipe[c][d])
      BY <1>1, <3>1, SameOrder
    <3>3. ASSUME NEW r, pipe'[c][d] = r
          PROVE  ((InOrder(pipe[c][d]))' <=> InOrder(r)) /\ (Lost(pipe[c][d]))' = Lost(r)
      BY <3>3 DEF InOrder, Lost, Arriving
    <3>4. Ahead(c, d)' <=> Ahead(c, d)
      BY <2>2 DEF Ahead
    <3>. QED
      BY <1>3, <3>1, <3>2, <3>3, <3>4
  <2>4. pipe'[c]["up"].sent = pipe[c]["up"].sent
    BY <1>1, <1>3 DEF Directions
  <2>5. pipe'[c]["up"].sent > 0 => req'[c] # None /\ (req'[c].waits => answer'[c] = 200)
    BY <2>1, <2>2, <2>4 DEF StreamsOK
  <2>6. \A d \in Directions : pipe'[c][d].task # "off"
    BY <1>1, <1>3
  <2>7. phase'[c] \notin Before
    BY <2>2 DEF Before
  <2>. QED
    BY <2>3, <2>5, <2>6, <2>7 DEF StreamsOK
<1>. QED
  BY <1>3, <1>4, <1>5 DEF StreamInv

\* So does the request of a client.
LEMMA RequestStep ==
    ASSUME TypeOK, StreamInv, NEW c \in Conns, SendRequest(c)
    PROVE  StreamInv'
<1>1. req[c] = None /\ phase[c] \in Before /\ UNCHANGED <<phase, answer, pipe>>
  BY DEF SendRequest, Before
<1>2. ASSUME NEW j \in Conns, j # c PROVE StreamsOK(j)'
  <2>1. req'[j] = req[j]
    BY <1>2 DEF SendRequest, TypeOK
  <2>2. Goes(j) /\ StreamsOK(j)
    BY <1>1, <2>1 DEF Goes, StreamInv
  <2>. QED
    BY <1>1, <2>2, StreamFrame
<1>3. StreamsOK(c)'
  <2>1. StreamsOK(c)
    BY DEF StreamInv
  <2>2. \A d \in Directions : (InOrder(pipe[c][d]))' <=> InOrder(pipe[c][d])
    BY <1>1 DEF InOrder, Lost, Arriving
  <2>3. \A d \in Directions : (Lost(pipe[c][d]))' = Lost(pipe[c][d])
    BY <1>1 DEF Lost, Arriving
  <2>4. \A d \in Directions : ~ Ahead(c, d)
    BY <1>1 DEF Ahead
  <2>5. ~ pipe[c]["up"].sent > 0
    BY <1>1, <2>1 DEF StreamsOK
  <2>. QED
    BY <1>1, <2>1, <2>2, <2>3, <2>4, <2>5 DEF StreamsOK
<1>. QED
  BY <1>2, <1>3 DEF StreamInv

\* No other step takes back a request or a 200, or touches a byte.
LEMMA GoesStep ==
    ASSUME TypeOK, StreamInv,
           \/ \E c \in Conns : \/ Connect(c) \/ Accept(c) \/ NoRequest(c) \/ NotConnect(c)
                               \/ Forbid(c) \/ Permit(c) \/ DialFails(c) \/ Dial(c)
                               \/ ClientLost(c) \/ TunnelCloses(c)
                               \/ \E d \in Directions : Reset(c, Source(d))
           \/ SeeShutdown \/ AcceptFails \/ Shutdown \/ ShutdownReturns \/ UNCHANGED vars
    PROVE  \A j \in Conns : Goes(j)
<1>. USE DEF TypeOK
<1>1. \A j \in Conns : phase[j] \in Before => answer[j] = None /\ answer[j] # 200
  BY ProxyAssumption DEF StreamInv, StreamsOK
<1>2. ASSUME NEW c \in Conns,
             Connect(c) \/ Accept(c) \/ Permit(c) \/ Dial(c) \/ TunnelCloses(c)
      PROVE  \A j \in Conns : Goes(j)
  <2>1. req' = req /\ \A j \in Conns : answer'[j] = answer[j]
    BY <1>2 DEF Connect, Accept, Permit, Dial, TunnelCloses, Close
  <2>2. \A j \in Conns : phase'[j] \in Before => phase[j] \in Before
    BY <1>2 DEF Connect, Accept, Permit, Dial, TunnelCloses, Close, Before
  <2>. QED
    BY <2>1, <2>2 DEF Goes
<1>3. ASSUME NEW c \in Conns, NEW s, Close(c, s), phase[c] \in Before
      PROVE  \A j \in Conns : Goes(j)
  <2>1. /\ req' = req /\ phase'[c] = "closed"
        /\ \A j \in Conns : j # c => phase'[j] = phase[j] /\ answer'[j] = answer[j]
    BY <1>3 DEF Close
  <2>2. "closed" \notin Before
    BY DEF Before
  <2>3. ASSUME NEW j \in Conns PROVE Goes(j)
    BY <1>1, <1>3, <2>1, <2>2 DEF Goes
  <2>. QED
    BY <2>3
<1>4. ASSUME NEW c \in Conns,
             NoRequest(c) \/ NotConnect(c) \/ Forbid(c) \/ DialFails(c) \/ ClientLost(c)
      PROVE  \A j \in Conns : Goes(j)
  BY <1>3, <1>4 DEF NoRequest, NotConnect, Forbid, DialFails, ClientLost, Before
<1>5. CASE SeeShutdown \/ AcceptFails
  <2>1. req' = req /\ answer' = answer
    BY <1>5 DEF SeeShutdown, AcceptFails, EndLoop
  <2>2. \A j \in Conns : phase'[j] \in Before => phase[j] \in Before
    BY <1>5 DEF SeeShutdown, AcceptFails, EndLoop, Before
  <2>. QED
    BY <2>1, <2>2 DEF Goes
<1>6. CASE UNCHANGED <<phase, req, answer>>
  BY <1>6 DEF Goes
<1>7. CASE \/ Shutdown \/ ShutdownReturns \/ UNCHANGED vars
           \/ \E c \in Conns : \E d \in Directions : Reset(c, Source(d))
  BY <1>6, <1>7 DEF Shutdown, ShutdownReturns, vars, Reset
<1>. QED
  BY <1>2, <1>4, <1>5, <1>7

\* So does every step.
LEMMA StreamStep ==
    ASSUME TypeOK, StreamInv, [Next]_vars
    PROVE  pipe' \in [Conns -> [Directions -> PipeType]] /\ StreamInv'
<1>1. ASSUME pipe' = pipe, \A j \in Conns : Goes(j)
      PROVE  pipe' \in [Conns -> [Directions -> PipeType]] /\ StreamInv'
  BY <1>1, StreamFrame DEF StreamInv, TypeOK
<1>2. ASSUME NEW c \in Conns, NotConnect(c) \/ Forbid(c) \/ Permit(c)
      PROVE  pipe' \in [Conns -> [Directions -> PipeType]] /\ StreamInv'
  <2>1. PICK k \in 0 .. Len(pipe[c]["up"].wire) : Buffered(c, k)
    BY <1>2 DEF NotConnect, Forbid, Permit
  <2>2. phase[c] = "reading"
    BY <1>2 DEF NotConnect, Forbid, Permit
  <2>. QED
    BY <1>2, <2>1, <2>2, GoesStep, BufferedStep
<1>3. ASSUME NEW c \in Conns, SendRequest(c)
      PROVE  pipe' \in [Conns -> [Directions -> PipeType]] /\ StreamInv'
  BY <1>3, RequestStep DEF SendRequest, TypeOK
<1>4. ASSUME NEW c \in Conns,
             \/ Connect(c) \/ Accept(c) \/ NoRequest(c) \/ DialFails(c) \/ Dial(c)
             \/ ClientLost(c) \/ TunnelCloses(c)
             \/ \E d \in Directions : Reset(c, Source(d))
      PROVE  pipe' \in [Conns -> [Directions -> PipeType]] /\ StreamInv'
  <2>1. pipe' = pipe
    BY <1>4 DEF Connect, Accept, NoRequest, DialFails, Dial, ClientLost, TunnelCloses, Reset
  <2>. QED
    BY <1>1, <1>4, <2>1, GoesStep
<1>5. CASE SeeShutdown \/ AcceptFails \/ Shutdown \/ ShutdownReturns \/ UNCHANGED vars
  <2>1. pipe' = pipe
    BY <1>5 DEF SeeShutdown, AcceptFails, EndLoop, Shutdown, ShutdownReturns, vars
  <2>. QED
    BY <1>1, <1>5, <2>1, GoesStep
<1>. QED
  BY <1>2, <1>3, <1>4, <1>5, DirectionStep, EstablishStep DEF Next, Clients, Handle, Tunnel

\* Every variable keeps its type.
LEMMA TypeStep ==
    ASSUME TypeOK, Inv, StreamInv, [Next]_vars
    PROVE  TypeOK'
<1>. USE DEF TypeOK
<1>1. pipe' \in [Conns -> [Directions -> PipeType]]
  BY StreamStep
<1>2. ASSUME NEW c \in Conns, Connect(c) \/ Accept(c) \/ SendRequest(c) \/ Permit(c)
      PROVE  TypeOK'
  BY <1>1, <1>2 DEF Connect, Accept, SendRequest, Permit
<1>3. ASSUME NEW c \in Conns, NEW s \in Statuses, Close(c, s)
      PROVE  TypeOK'
  BY <1>1, <1>3 DEF Close
<1>4. ASSUME NEW c \in Conns,
             \/ NoRequest(c) \/ NotConnect(c) \/ Forbid(c) \/ DialFails(c) \/ ClientLost(c)
             \/ TunnelCloses(c)
      PROVE  TypeOK'
  BY <1>3, <1>4 DEF NoRequest, NotConnect, Forbid, DialFails, ClientLost, TunnelCloses, Statuses
<1>5. ASSUME NEW c \in Conns, Dial(c) PROVE TypeOK'
  <2>1. Key(req[c]) \in Allow
    BY <1>5 DEF Dial, Inv, CheckInv, Checked
  <2>. QED
    BY <1>1, <1>5, <2>1 DEF Dial
<1>6. ASSUME NEW c \in Conns, Establish(c) PROVE TypeOK'
  BY <1>1, <1>6 DEF Establish, Statuses
<1>7. ASSUME NEW c \in Conns, NEW d \in Directions, Reset(c, Source(d)) PROVE TypeOK'
  BY <1>1, <1>7 DEF Reset, Source
<1>8. CASE SeeShutdown \/ AcceptFails \/ Shutdown \/ ShutdownReturns
  BY <1>1, <1>8 DEF SeeShutdown, AcceptFails, EndLoop, Shutdown, ShutdownReturns
<1>9. CASE UNCHANGED <<loop, stop, returned, phase, req, answer, dialled, gone>>
  BY <1>1, <1>9
<1>10. ASSUME NEW c \in Conns, NEW d \in Directions,
              \/ Send(c, d) \/ HalfClose(c, d) \/ StopReading(c, d)
              \/ Relay(c, d) \/ RelayEnds(c, d)
       PROVE  TypeOK'
  BY <1>9, <1>10 DEF Send, HalfClose, StopReading, Relay, RelayEnds
<1>. QED
  BY <1>2, <1>4, <1>5, <1>6, <1>7, <1>8, <1>9, <1>10 DEF Next, Clients, Handle, Tunnel, vars

\* The streams are in order at first.
LEMMA StreamInit == Init => TypeOK /\ StreamInv
<1>. SUFFICES ASSUME Init PROVE TypeOK /\ StreamInv
  OBVIOUS
<1>1. NoPipe \in PipeType
  BY DEF NoPipe, PipeType
<1>2. TypeOK
  BY <1>1 DEF Init, TypeOK, Statuses
<1>3. Arriving(NoPipe) = <<>> /\ NoPipe.sent = 0 /\ NoPipe.got = <<>> /\ NoPipe.task = "off"
  BY DEF NoPipe, Arriving
<1>4. InOrder(NoPipe) /\ Lost(NoPipe) = 0
  <2>1. Len(Arriving(NoPipe)) = 0
    BY <1>3
  <2>2. Lost(NoPipe) = 0 - 0
    BY <1>3, <2>1, Zenon DEF Lost
  <2>. QED
    BY <2>1, <2>2 DEF InOrder
<1>5. \A c \in Conns : answer[c] = None /\ \A d \in Directions : pipe[c][d] = NoPipe
  BY DEF Init
<1>6. ASSUME NEW c \in Conns PROVE StreamsOK(c)
  BY <1>3, <1>4, <1>5 DEF StreamsOK, Directions
<1>. QED
  BY <1>2, <1>6 DEF StreamInv

\* And so always.
LEMMA StreamsAlways == Spec => [](TypeOK /\ StreamInv)
<1>1. Init => Inv /\ TypeOK /\ StreamInv
  BY InvInit, StreamInit
<1>2. Inv /\ TypeOK /\ StreamInv /\ [Next]_vars => Inv' /\ TypeOK' /\ StreamInv'
  BY InvStep, TypeStep, StreamStep
<1>. QED
  BY <1>1, <1>2, PTL DEF Spec

\* Every variable keeps its type, what is dialled a member of the allow set.
THEOREM TypeCorrect == Spec => []TypeOK
BY StreamsAlways, PTL

\* For any number of connections and of bytes, however relays, resets and ends
\* of streams interleave: each side receives what the other sent, in order,
\* once each and without a gap, and all of it from a client that waits for the
\* 200 (relay, handle_client).
THEOREM TunnelsAreTransparent == Spec => []Transparent
<1>1. ASSUME TypeOK, StreamInv, NEW c \in Conns, NEW d \in Directions
      PROVE  LET p == pipe[c][d]
                 lost == p.sent - Len(Arriving(p))
             IN  /\ Arriving(p) = [i \in 1 .. Len(Arriving(p)) |-> lost + i]
                 /\ lost >= 0 /\ (lost > 0 => Ahead(c, d))
  <2>. DEFINE p == pipe[c][d]
              a == Arriving(p)
  <2>1. p \in PipeType /\ InOrder(p) /\ (Lost(p) > 0 => Ahead(c, d))
    BY <1>1, PipeKind DEF StreamInv, StreamsOK
  <2>2. a \in Seq(Nat)
    BY <2>1, ArrivingType
  <2>3. DOMAIN a = 1 .. Len(a) /\ a = [i \in DOMAIN a |-> a[i]]
    BY <2>2, LenProperties
  <2>4. \A i \in 1 .. Len(a) : a[i] = Lost(p) + i
    BY <2>1 DEF InOrder
  <2>. HIDE DEF a
  <2>5. a = [i \in 1 .. Len(a) |-> Lost(p) + i]
    BY <2>3, <2>4
  <2>. QED
    BY <2>1, <2>5 DEF InOrder, Lost, a
<1>2. TypeOK /\ StreamInv => Transparent
  BY <1>1 DEF Transparent
<1>. QED
  BY <1>2, StreamsAlways, PTL
=============================================================================
