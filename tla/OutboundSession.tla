-------------------------- MODULE OutboundSession --------------------------
(***************************************************************************)
(* Two ends of one stream over the transport: the session the management   *)
(* endpoint dials (Session, driven by Endpoint::poll_outbound) and the     *)
(* onboarding port's stream (Stream, one connection, which listens).  Each *)
(* is the other's peer, over a network that loses and reorders.            *)
(*                                                                         *)
(* dial, session, cache: the dialling end, its connection, its session and *)
(* the neighbour cache's entry for the next hop.  peer, stream: the        *)
(* listening end.  net: the segments in flight to the dialling end (A) and *)
(* to the listening end (B).  The rest is history: said is how many bytes  *)
(* each consumer has handed over, got what each end has kept for its       *)
(* consumer, dropped whether the dialling end has acknowledged bytes it    *)
(* had no room for, accepts how many connections the listener accepted;    *)
(* course is how much this behaviour has of each (see Courses).            *)
(*                                                                         *)
(* A step is what the domain runs to completion: the frames of a drain are *)
(* steps of their own, and a consumer's call and a timer are each followed *)
(* by the poll that the same wakeup makes.                                 *)
(*                                                                         *)
(* A byte is its place in its stream: the dialler's k-th is k, the k-th of *)
(* the listener's n-th connection is 10n + k.  An option is {} or {x}.     *)
(***************************************************************************)
EXTENDS TcpConnection

CONSTANTS
  SEND_CAPACITY, RECEIVE_CAPACITY,       \* of the session
  INBOUND_CAPACITY, OUTBOUND_CAPACITY,   \* of the onboarding stream
  MAX_REQUESTS,
  MaxAccepts,   \* bound: connections the listener accepts
  Courses       \* bounds: for each end, A the dialling and B the listening one,
                \* the bytes its consumer hands over and the segments in flight
                \* to it, as [said |-> [A, B], net |-> [A, B]]

VARIABLES dial, session, cache, peer, stream, net,
          saidA, saidB, gotA, gotB, dropped, accepts, course

diallingEnd  == <<dial, session, cache>>
listeningEnd == <<peer, stream>>
history      == <<saidA, saidB, gotA, gotB, dropped, accepts, course>>
vars == <<diallingEnd, listeningEnd, net, history>>

-----------------------------------------------------------------------------
(* What either end holds of the stream *)

\* A buffer of the bytes owed (out), how many of them are sent, the sequence
\* number of the first (base), and how many received bytes await the consumer.
Empty == [out |-> <<>>, sent |-> 0, base |-> {}, held |-> 0,
          peerClosed |-> FALSE, consumerClosed |-> FALSE]

OwesBytes(b) == b.sent < Len(b.out)
Unsent(b) == SubSeq(b.out, b.sent + 1, Len(b.out))

\* The bytes of a recorded range, {} where the buffer no longer has them.
Range(b, seq, len) ==
  {SubSeq(b.out, DistanceFrom(seq, base) + 1, DistanceFrom(seq, base) + len) :
     base \in {x \in b.base : DistanceFrom(seq, x) + len <= b.sent}}

\* The transport took the next n bytes of b; the first it takes is at the
\* oldest range of the connection c that took them.
Took(b, c, n) ==
  [b EXCEPT !.sent = @ + n,
            !.base = IF @ = {} THEN {OldestUnacked(c).seq} ELSE @]

\* The consumer has ended the stream and everything it handed over is sent.
Finishing(b) == ~OwesBytes(b) /\ b.consumerClosed

\* Release what lies before unreleased.
Release(b, unreleased) ==
  LET base == CHOOSE x \in b.base : TRUE
      n    == Smaller(DistanceFrom(unreleased, base), b.sent)
  IN  IF b.base = {} \/ ~Follows(unreleased, base) THEN b
      ELSE [b EXCEPT !.out = SubSeq(@, n + 1, Len(@)), !.sent = @ - n,
                     !.base = {Add(base, n)}]

\* The part of data that fits a buffer of that capacity.
Kept(b, capacity, data) ==
  SubSeq(data, 1, Smaller(Len(data), capacity - b.held))

\* The networks once segments are put on the way to an end: lost, or to arrive
\* there later, in any order.  One that holds its fill loses what is put on it.
Put(n, end, segments) ==
  {n} \cup {[n EXCEPT ![end] = @ \cup segments] :
              x \in 1 .. (course.net[end] - Cardinality(n[end]))}

Take(n, end, s) == [n EXCEPT ![end] = @ \ {s}]

-----------------------------------------------------------------------------
(* The neighbour cache's entry for the next hop *)

Unasked == [known |-> FALSE, requests |-> 0]
Asked(n) == [known |-> FALSE, requests |-> n]

\* What a resolution may answer, with the entry it leaves.
Resolve(entry) ==
  IF entry.known THEN {[is |-> "Known", entry |-> entry]}
  ELSE IF entry.requests = 0 THEN {[is |-> "Ask", entry |-> Asked(1)]}
  ELSE {[is |-> "Waiting", entry |-> entry],
        IF entry.requests >= MAX_REQUESTS
        THEN [is |-> "Unreachable", entry |-> Unasked]
        ELSE [is |-> "Ask", entry |-> Asked(entry.requests + 1)]}

\* The next hop's reply, taken only where this end asked.
Learn ==
  /\ ~cache.known /\ cache.requests > 0
  /\ cache' = [cache EXCEPT !.known = TRUE]
  /\ UNCHANGED <<dial, session, listeningEnd, net, history>>

-----------------------------------------------------------------------------
(* The dialling end *)

NextHop(s) == IF s.mac THEN {[is |-> "Known", entry |-> cache]}
              ELSE Resolve(cache)

InA == <<listeningEnd, saidB, gotB, accepts, course>>

\* The initial sequence numbers: the dial's passes the end of the space within
\* its first bytes, and no two of the listener's are alike.
IssA == SEQ - 2
IssB(n) == (SEQ - 2 + n * 5) % SEQ

\* Onto the wire to the listener, where the next hop is known.
Framed(s, segments) == IF s.mac THEN segments ELSE {}

\* Compose the SYN, whether or not the next hop is known yet.
ResolveOutbound(s, n) ==
  \E hop \in NextHop(s) :
    LET c  == Open(IssA, RECEIVE_CAPACITY)
        s2 == [s EXCEPT !.phase = "dialling", !.mac = hop.is = "Known"]
    IN  /\ cache' = hop.entry
        /\ CASE hop.is = "Ask" ->
                  dial' = {} /\ session' = s /\ net' = n
             [] hop.is = "Unreachable" ->
                  /\ session' = [s EXCEPT !.phase = "ended"]
                  /\ dial' = {} /\ net' = n
             [] hop.is \in {"Known", "Waiting"} ->
                  /\ dial' = {c} /\ session' = s2
                  /\ net' \in Put(n, "B", Framed(s2, {Syn(c)}))

\* Put what is owed on the wire, or close.
DriveOutbound(c, s, n) ==
  LET up   == [s EXCEPT !.phase = IF @ = "dialling" THEN "established" ELSE @]
      open == [c EXCEPT !.rwnd = RECEIVE_CAPACITY - s.held]
      len  == Smaller(Sendable(open), Len(s.out) - s.sent)
      sent == Sent(open, len)
      data == DataAt(open, open.nxt, SubSeq(Unsent(s), 1, len))
  IN  IF OwesBytes(s) /\ MaySend(open)
      THEN /\ dial' = {sent}
           /\ session' = Took(up, sent, len)
           /\ net' \in Put(n, "B", Framed(s, {data}))
      ELSE IF Finishing(s) /\ MayClose(open)
      THEN /\ dial' = {Close(open)}
           /\ session' = [up EXCEPT !.phase = "closing"]
           /\ net' \in Put(n, "B", Framed(s, {FinAt(open, open.nxt)}))
      ELSE dial' = {open} /\ session' = up /\ net' = n

\* Carry a dialled session forward.  One whose next hop is not known has sent no
\* frame, so its connection is in SYN_SENT and its release owes no reset.
AdvanceOutbound(d, s, n) ==
  \/ /\ d = {}
     /\ session' = [s EXCEPT !.phase = "ended"]
     /\ dial' = {} /\ net' = n
     /\ UNCHANGED cache
  \/ \E c \in d, hop \in NextHop(s) :
       LET s2 == [s EXCEPT !.mac = @ \/ hop.is = "Known"] IN
       /\ cache' = hop.entry
       /\ CASE hop.is = "Ask" -> dial' = d /\ session' = s /\ net' = n
            [] hop.is = "Unreachable" ->
                 /\ session' = [s EXCEPT !.phase = "ended"]
                 /\ dial' = {} /\ net' = n
            [] hop.is \in {"Known", "Waiting"} ->
                 IF c.state \in {"SynSent", "SynReceived"}
                 THEN dial' = d /\ session' = s2 /\ net' = n
                 ELSE IF c.state \in {"Established", "CloseWait"}
                 THEN DriveOutbound(c, s2, n)
                 ELSE /\ session' = [s2 EXCEPT !.phase = "closing"]
                      /\ dial' = d /\ net' = n

\* Endpoint::poll_outbound over the connection d and the session s.
PollOutbound(d, s, n) ==
  CASE s.phase \in {"none", "ended"} ->
         dial' = d /\ session' = s /\ net' = n /\ UNCHANGED cache
    [] s.phase = "resolving" -> ResolveOutbound(s, n)
    [] s.phase \in {"dialling", "established", "closing"} ->
         AdvanceOutbound(d, s, n)

\* A pass of the domain over a quiet ring.
DriveDial ==
  /\ PollOutbound(dial, session, net)
  /\ UNCHANGED <<saidA, gotA, dropped, InA>>

\* The range r sent again, the bytes of one that has any out of the buffer.
Again(c, b, r) ==
  IF r.len = 0 THEN {Control(c, r)}
  ELSE {DataAt(c, r.seq, bytes) : bytes \in Range(b, r.seq, r.len)}

\* A pass that finds the connection's life over takes its slot back.  A life
\* outlasts what is in flight.
Reap ==
  /\ dial # {} /\ net.A \cup net.B = {}
  /\ PollOutbound({}, session, net)
  /\ UNCHANGED <<saidA, gotA, dropped, InA>>

\* A pass that finds the oldest range unacknowledged for its timeout sends it
\* again, or gives the connection up.
Expire ==
  /\ \E c \in dial :
       /\ c.unacked # {}
       /\ IF c.backoff >= MAX_RETRANSMITS
          THEN \E m \in Put(net, "B", Framed(session, Abandonment(c))) :
                 PollOutbound({}, session, m)
          ELSE \E m \in Put(net, "B", Framed(session,
                                  Again(c, session, OldestUnacked(c)))) :
                 PollOutbound({NoteExpiry(c)}, session, m)
  /\ UNCHANGED <<saidA, gotA, dropped, InA>>

\* One segment of a drain.  A segment of no connection is dropped in silence,
\* this end's port listening for none.
TcpReceive(s, n) ==
  /\ \/ dial = {} /\ net' = n /\ UNCHANGED <<dial, session, gotA, dropped>>
     \/ \E c \in dial : \E p \in {Receive(c, s)} :
          LET b    == IF p.finished THEN session
                      ELSE Release(session, Unreleased(p.c))
              take == Kept(b, RECEIVE_CAPACITY, p.data)
          IN /\ dial' = IF p.finished THEN {} ELSE {p.c}
             /\ session' = [b EXCEPT !.held = @ + Len(take),
                                     !.peerClosed = @ \/ p.peerClosed]
             /\ gotA' = gotA \o take
             /\ dropped' = (dropped \/ Len(take) < Len(p.data))
             /\ net' \in Put(n, "B", p.reply)
  /\ UNCHANGED <<cache, saidA, InA>>

Tcp == \E s \in net.A : TcpReceive(s, Take(net, "A", s))

\* The consumer, whose calls a pass makes before it polls: the dial, bytes to
\* send, bytes taken, and the end of what it has to say.
OpenOutbound ==
  /\ session.phase = "none"
  /\ PollOutbound(dial, [session EXCEPT !.phase = "resolving"], net)
  /\ UNCHANGED <<saidA, gotA, dropped, InA>>

PushOutbound ==
  /\ session.phase = "established"
  /\ ~session.consumerClosed
  /\ \E n \in 1 .. Smaller(course.said.A - saidA,
                           SEND_CAPACITY - Len(session.out)) :
       /\ saidA' = saidA + n
       /\ PollOutbound(dial, [session EXCEPT
                                !.out = @ \o [k \in 1 .. n |-> saidA + k]], net)
  /\ UNCHANGED <<gotA, dropped, InA>>

ConsumeOutbound ==
  /\ session.held > 0
  /\ PollOutbound(dial, [session EXCEPT !.held = 0], net)
  /\ UNCHANGED <<saidA, gotA, dropped, InA>>

EndOutboundSession ==
  /\ session.phase \notin {"none", "ended"}
  /\ ~session.consumerClosed
  /\ PollOutbound(dial, [session EXCEPT !.consumerClosed = TRUE], net)
  /\ UNCHANGED <<saidA, gotA, dropped, InA>>

-----------------------------------------------------------------------------
(* The listening end *)

InB == <<diallingEnd, saidA, gotA, dropped, course>>

\* Stream::drive: the next run of what is owed, or the close; the connection,
\* the stream and the segment it leaves.
Driven(c, b) ==
  LET open == [c EXCEPT !.rwnd = INBOUND_CAPACITY - b.held]
      n    == Smaller(Sendable(open), Len(b.out) - b.sent)
      sent == Sent(open, n)
  IN  IF OwesBytes(b) /\ MaySend(open)
      THEN [c |-> sent, b |-> Took(b, sent, n),
            segments |-> {DataAt(open, open.nxt, SubSeq(Unsent(b), 1, n))}]
      ELSE IF Finishing(b) /\ MayClose(open)
      THEN [c |-> Close(open), b |-> b, segments |-> {FinAt(open, open.nxt)}]
      ELSE [c |-> open, b |-> b, segments |-> {}]

\* The end of a wakeup: the stream b is driven over c, where the transport still
\* holds it, and forgotten where it does not.
Wakeup(held, b, n, reply) ==
  IF held = {}
  THEN peer' = {} /\ stream' = Empty /\ net' \in Put(n, "A", reply)
  ELSE \E c \in held :
         \E d \in {Driven(c, b)} :
           /\ peer' = {d.c}
           /\ stream' = d.b
           /\ net' \in Put(n, "A", reply \cup d.segments)

\* A segment for the onboarding port.  A fresh SYN takes the one slot.
Onboarding(s, n) ==
  /\ \/ /\ peer = {}
        /\ {"SYN", "ACK", "RST"} \cap s.flags = {"SYN"}
        /\ IF accepts = MaxAccepts
           THEN net' = n /\ UNCHANGED <<peer, stream, saidB, gotB, accepts>>
           ELSE LET c == Accept(s, IssB(accepts + 1), INBOUND_CAPACITY) IN
                /\ accepts' = accepts + 1
                /\ gotB' = <<>>
                /\ saidB' = Append(saidB, 0)
                /\ Wakeup({c}, Empty, n, {SynAck(c)})
     \/ /\ peer = {}
        /\ {"SYN", "ACK", "RST"} \cap s.flags # {"SYN"}
        /\ Wakeup({}, stream, n, Unknown(s))
        /\ UNCHANGED <<saidB, gotB, accepts>>
     \/ \E c \in peer : \E p \in {Receive(c, s)} :
          LET take == Kept(stream, INBOUND_CAPACITY, p.data)
              b    == [stream EXCEPT !.held = @ + Len(take),
                                     !.peerClosed = @ \/ p.peerClosed]
          IN /\ gotB' = gotB \o take
             /\ Wakeup(IF p.finished THEN {} ELSE {p.c}, b, n, p.reply)
             /\ UNCHANGED <<saidB, accepts>>
  /\ UNCHANGED InB

Listen == \E s \in net.B : Onboarding(s, Take(net, "B", s))

\* The onboarding timers, which outlast what is in flight.
PollOnboarding ==
  /\ net.A \cup net.B = {}
  /\ \E c \in peer :
       \/ Wakeup({}, stream, net, {})
       \/ /\ c.unacked # {}
          /\ IF c.backoff >= MAX_RETRANSMITS
             THEN Wakeup({}, stream, net, Abandonment(c))
             ELSE Wakeup({NoteExpiry(c)}, stream, net,
                         Again(c, stream, OldestUnacked(c)))
  /\ UNCHANGED <<InB, saidB, gotB, accepts>>

Drive ==
  /\ peer # {}
  /\ Wakeup(peer, stream, net, {})
  /\ UNCHANGED <<InB, saidB, gotB, accepts>>

\* The consumer.
Push ==
  /\ \E c \in peer : c.state # "SynReceived"
  /\ ~stream.consumerClosed
  /\ saidB[accepts] < course.said.B /\ Len(stream.out) < OUTBOUND_CAPACITY
  /\ Wakeup(peer,
            [stream EXCEPT !.out = Append(@, 10 * accepts + saidB[accepts] + 1)],
            net, {})
  /\ saidB' = [saidB EXCEPT ![accepts] = @ + 1]
  /\ UNCHANGED <<gotB, accepts, InB>>

Consume ==
  /\ stream.held > 0
  /\ Wakeup(peer, [stream EXCEPT !.held = 0], net, {})
  /\ UNCHANGED <<saidB, gotB, accepts, InB>>

EndSession ==
  /\ peer # {} /\ ~stream.consumerClosed
  /\ Wakeup(peer, [stream EXCEPT !.consumerClosed = TRUE], net, {})
  /\ UNCHANGED <<saidB, gotB, accepts, InB>>

-----------------------------------------------------------------------------

Init ==
  /\ dial = {} /\ peer = {} /\ net = [A |-> {}, B |-> {}]
  /\ session = [phase |-> "none", mac |-> FALSE, out |-> <<>>, sent |-> 0,
                base |-> {}, held |-> 0, peerClosed |-> FALSE,
                consumerClosed |-> FALSE]
  /\ stream = Empty
  /\ cache \in {Asked(n) : n \in 0..MAX_REQUESTS}
                 \cup {[known |-> TRUE, requests |-> 1]}
  /\ saidA = 0 /\ saidB = <<>> /\ gotA = <<>> /\ gotB = <<>>
  /\ dropped = FALSE /\ accepts = 0 /\ course \in Courses

Next ==
  \/ Learn \/ OpenOutbound \/ DriveDial \/ Reap \/ Expire \/ Tcp
  \/ PushOutbound \/ ConsumeOutbound \/ EndOutboundSession
  \/ Listen \/ Drive \/ PollOnboarding \/ Push \/ Consume \/ EndSession

Spec == Init /\ [][Next]_vars

-----------------------------------------------------------------------------

\* got is the first of the bytes said, numbered from from + 1.
Prefix(said, got, from) == got = [k \in 1..Len(got) |-> from + k] /\ Len(got) <= said

\* Every byte an end keeps for its consumer is the next byte the other end's
\* consumer handed over: none is lost, repeated or moved, whatever the network
\* loses or reorders, however often a range is sent again, and across the end of
\* the sequence space.  An end that reports the peer's close has the whole of it,
\* and that consumer did end it: a segment or a FIN that arrives over a hole is
\* never taken (Connection::receive_data, Session::take, Stream::take).  The
\* dialling end promises its own stream only until it has dropped a byte it
\* acknowledged, a drain's segments being taken against a window that only the
\* next pass narrows.
StreamsAreWhole ==
  /\ Prefix(saidA, gotB, 0)
  /\ stream.peerClosed => session.consumerClosed /\ Len(gotB) = saidA
  /\ ~dropped /\ gotA # <<>> =>
       \E n \in 1..accepts : Prefix(saidB[n], gotA, 10 * n)
  /\ \A c \in dial : session.peerClosed /\ ~dropped =>
       \E n \in 1..accepts : c.irs = IssB(n) /\ Len(gotA) = saidB[n]

\* A range the transport has on record is in its caller's buffer, under the
\* sequence number the transport asks for it by, until the record is retired:
\* Session::release never gives up a byte that a retransmission would still have
\* to carry (Connection::unreleased, Session::range, Stream::range).
RangeIsHeld ==
  /\ \A c \in dial : \A r \in c.unacked : r.len > 0 =>
       Range(session, r.seq, r.len)
         = {[k \in 1..r.len |-> DistanceFrom(r.seq, IssA) - 1 + k]}
  /\ \A c \in peer : \A r \in c.unacked : r.len > 0 =>
       Range(stream, r.seq, r.len)
         = {[k \in 1..r.len |->
               10 * accepts + DistanceFrom(r.seq, IssB(accepts)) - 1 + k]}

Dialling == session.phase \in {"resolving", "dialling"}

\* No dial goes on for ever, although the next hop, the network or the listener
\* may never answer: the session is carried to a stream, or ends.  What ends it
\* is the count of the timer's expiries, and the poll that finds the connection
\* gone.
DialSettles == []<>~Dialling

-----------------------------------------------------------------------------

\* Where a pass over a quiet ring has something to do for a dial: a session
\* without its connection, or one whose connection has left the handshake
\* behind its back.
Unserved ==
  /\ Dialling
  /\ \/ dial = {}
     \/ /\ session.phase = "dialling"
        /\ \E c \in dial : c.state \notin {"SynSent", "SynReceived"}

\* The segment of a dial that has not been acknowledged.
Unanswered == Dialling /\ \E c \in dial : c.unacked # {}

\* The domain is woken by its timer while a session runs: a pass is taken where
\* one has something to do, and an outstanding range expires.  Both are weak
\* fairness, written out, and asked for only while the dial is not settled.
\* Nothing is asked of the network, of either consumer or of the listener.
FairSpec ==
  /\ Spec
  /\ []<>~Unserved \/ []<><<Unserved /\ DriveDial>>_vars
  /\ []<>~Unanswered \/ []<><<Unanswered /\ Expire>>_vars
=============================================================================
