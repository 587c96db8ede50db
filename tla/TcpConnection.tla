--------------------------- MODULE TcpConnection ---------------------------
(***************************************************************************)
(* One connection of the transport (datad/crates/tcp): the arithmetic of   *)
(* its sequence numbers, what a segment that arrives does to it, and what  *)
(* its caller and its timer do to it.  Every operator takes a connection   *)
(* and answers a connection, so the module has no state of its own.        *)
(*                                                                         *)
(* A byte of a stream is a model value of the caller's.  Time is left out: *)
(* a deadline may have passed whenever it is set.  The deadline of a       *)
(* retransmission is set exactly while a record is outstanding, the one of *)
(* the connection's life always.  No end scales its window, since neither  *)
(* end's buffer exceeds what sixteen bits express, and both offer the same *)
(* segment size.                                                           *)
(***************************************************************************)
EXTENDS Integers, Sequences, FiniteSets

CONSTANTS
  SEQ,              \* the size of the sequence space, 2^32
  MSS,              \* TCP_MSS
  MAX_UNACKED,
  MAX_RETRANSMITS

-----------------------------------------------------------------------------
(* Sequence numbers *)

Add(a, n) == (a + n) % SEQ
Sub(a, n) == (a - n) % SEQ
DistanceFrom(a, b) == (a - b) % SEQ
Precedes(a, b) == 2 * DistanceFrom(a, b) >= SEQ
Follows(a, b) == Precedes(b, a)
InWindow(a, start, len) == DistanceFrom(a, start) < len

-----------------------------------------------------------------------------
(* Segments and records *)

Segment(flags, seq, ack, wnd, data) ==
  [flags |-> flags, seq |-> seq, ack |-> ack, wnd |-> wnd, data |-> data]

One(b) == IF b THEN 1 ELSE 0

SequenceLength(s) ==
  Len(s.data) + One("SYN" \in s.flags) + One("FIN" \in s.flags)

Unacked(seq, len, syn, fin) ==
  [seq |-> seq, len |-> len, syn |-> syn, fin |-> fin, re |-> FALSE]

End(r) == Add(r.seq, r.len + One(r.syn) + One(r.fin))

\* The oldest range still recorded, which is the one a timeout re-sends.
OldestUnacked(c) ==
  CHOOSE r \in c.unacked : \A q \in c.unacked : ~Precedes(q.seq, r.seq)

\* Mutant: what the peer has acknowledged, whatever is still recorded.
UnreleasedAcknowledged(c) == c.una

\* The oldest number the caller may still be asked for.
Unreleased(c) ==
  IF c.unacked # {} /\ Precedes(OldestUnacked(c).seq, c.una)
  THEN OldestUnacked(c).seq
  ELSE c.una

Held(c) == Cardinality(c.unacked) < MAX_UNACKED

\* Record a segment as sent.  Only where Held(c).
Record(c, seq, len, syn, fin) ==
  [c EXCEPT !.unacked = @ \cup {Unacked(seq, len, syn, fin)}]

-----------------------------------------------------------------------------
(* The two openings *)

Blank == [state |-> "Closed", una |-> 0, nxt |-> 0, wnd |-> 0, wndMax |-> 0,
          wl1 |-> 0, wl2 |-> 0, irs |-> 0, rcv |-> 0, rwnd |-> 0,
          unacked |-> {}, backoff |-> 0]

\* A SYN s is accepted, with the initial number iss and the receive window room.
Accept(s, iss, room) ==
  Record([Blank EXCEPT !.state = "SynReceived",
            !.una = iss, !.nxt = Add(iss, 1), !.wnd = s.wnd, !.wndMax = s.wnd,
            !.wl1 = s.seq, !.wl2 = iss, !.irs = s.seq, !.rcv = Add(s.seq, 1),
            !.rwnd = room],
         iss, 0, TRUE, FALSE)

\* A dial: nothing of the peer's sequence space is known yet.
Open(iss, room) ==
  Record([Blank EXCEPT !.state = "SynSent",
            !.una = iss, !.nxt = Add(iss, 1), !.wl1 = iss, !.wl2 = iss,
            !.irs = iss, !.rcv = iss, !.rwnd = room],
         iss, 0, TRUE, FALSE)

-----------------------------------------------------------------------------
(* What a connection composes *)

Syn(c) == Segment({"SYN"}, c.una, 0, c.rwnd, <<>>)
SynAck(c) == Segment({"SYN", "ACK"}, c.una, c.rcv, c.rwnd, <<>>)
Acknowledgement(c) == Segment({"ACK"}, c.nxt, c.rcv, c.rwnd, <<>>)
DataAt(c, seq, data) == Segment({"ACK"}, seq, c.rcv, c.rwnd, data)
FinAt(c, seq) == Segment({"FIN", "ACK"}, seq, c.rcv, c.rwnd, <<>>)

Reset(c) ==
  IF c.state = "SynSent"
  THEN Segment({"RST"}, c.nxt, 0, c.rwnd, <<>>)
  ELSE Segment({"RST", "ACK"}, c.nxt, c.rcv, c.rwnd, <<>>)

\* The payload-free record r, sent again.
Control(c, r) ==
  IF r.syn /\ c.state = "SynSent" THEN Syn(c)
  ELSE Segment({"ACK"} \cup (IF r.syn THEN {"SYN"} ELSE {})
                      \cup (IF r.fin THEN {"FIN"} ELSE {}),
               r.seq, c.rcv, c.rwnd, <<>>)

\* What an exhausted connection owes its peer: {} or {RST}.
Abandonment(c) == IF c.state = "SynSent" THEN {} ELSE {Reset(c)}

\* What a segment that names no connection draws from a listening stack: {} or
\* {RST}.  A fresh SYN draws none.
Unknown(s) ==
  IF "RST" \in s.flags THEN {}
  ELSE IF "ACK" \in s.flags THEN {Segment({"RST"}, s.ack, 0, 0, <<>>)}
  ELSE {Segment({"RST", "ACK"}, 0, Add(s.seq, SequenceLength(s)), 0, <<>>)}

-----------------------------------------------------------------------------
(* What the caller and the timer do *)

Smaller(a, b) == IF a < b THEN a ELSE b

\* How many payload bytes may be sent now.
Sendable(c) ==
  LET inFlight == DistanceFrom(c.nxt, c.una)
  IN  IF c.wnd < inFlight THEN 0 ELSE Smaller(MSS, c.wnd - inFlight)

MaySend(c) ==
  c.state \in {"Established", "CloseWait"} /\ Sendable(c) > 0 /\ Held(c)

\* len bytes are recorded and the send sequence moves over them.
Sent(c, len) ==
  [Record(c, c.nxt, len, FALSE, FALSE) EXCEPT !.nxt = Add(@, len)]

MayClose(c) == c.state \in {"Established", "CloseWait"} /\ Held(c)

Close(c) ==
  [Record(c, c.nxt, 0, FALSE, TRUE) EXCEPT
     !.nxt = Add(@, 1),
     !.state = IF @ = "Established" THEN "FinWait1" ELSE "LastAck"]

\* Mutant: the expiry is not counted.
NoteExpiryUncounted(c) ==
  [c EXCEPT !.unacked = {IF r = OldestUnacked(c) THEN [r EXCEPT !.re = TRUE]
                         ELSE r : r \in @}]

\* The oldest range is sent again.
NoteExpiry(c) ==
  [c EXCEPT !.unacked = {IF r = OldestUnacked(c) THEN [r EXCEPT !.re = TRUE]
                         ELSE r : r \in @},
            !.backoff = @ + 1]

-----------------------------------------------------------------------------
(* A segment arrives *)

\* What processing it produced: the connection, the answer ({} or {segment}),
\* the bytes delivered, and whether the peer's FIN was taken or the slot freed.
Processed(c, reply) ==
  [c |-> c, reply |-> reply, data |-> <<>>, peerClosed |-> FALSE,
   finished |-> FALSE]

CloseHard(c) == [c EXCEPT !.state = "Closed", !.unacked = {}]
StartTimeWait(c) == [c EXCEPT !.state = "TimeWait", !.unacked = {}]

Finished(c, reply) ==
  [Processed(CloseHard(c), reply) EXCEPT !.finished = TRUE]

\* Retire the ranges ack covers.  A range that was not sent twice yields a
\* round-trip sample, which clears the backoff.
Retire(c, ack) ==
  LET covered == {r \in c.unacked : ~Follows(End(r), ack)}
  IN  [c EXCEPT !.unacked = @ \ covered,
                !.backoff = IF \E r \in covered : ~r.re THEN 0 ELSE @]

ReceiveSynSent(c, s) ==
  LET acked == "ACK" \in s.flags
      wrong == acked /\ (~Follows(s.ack, c.una) \/ Follows(s.ack, c.nxt))
      known == [c EXCEPT !.irs = s.seq, !.rcv = Add(s.seq, 1), !.wnd = s.wnd,
                         !.wndMax = s.wnd, !.wl1 = s.seq]
      both  == [known EXCEPT !.wl2 = c.una, !.state = "SynReceived"]
      open  == [Retire(known, s.ack) EXCEPT !.wl2 = s.ack, !.una = s.ack,
                                            !.state = "Established"]
  IN  CASE wrong ->
             Processed(c, IF "RST" \in s.flags THEN {}
                          ELSE {Segment({"RST"}, s.ack, 0, c.rwnd, <<>>)})
        [] ~wrong /\ "RST" \in s.flags ->
             IF acked THEN Finished(c, {}) ELSE Processed(c, {})
        [] ~wrong /\ {"RST", "SYN"} \cap s.flags = {} -> Processed(c, {})
        [] ~wrong /\ {"RST", "SYN"} \cap s.flags = {"SYN"} ->
             IF acked THEN Processed(open, {Acknowledgement(open)})
             ELSE Processed(both, {SynAck(both)})

Acceptable(c, s) ==
  LET len == SequenceLength(s)
  IN  IF len = 0
      THEN InWindow(s.seq, c.rcv, c.rwnd) \/ (c.rwnd = 0 /\ s.seq = c.rcv)
      ELSE \/ InWindow(s.seq, c.rcv, c.rwnd)
           \/ InWindow(Add(s.seq, len - 1), c.rcv, c.rwnd)

ReceiveReset(c, s) ==
  IF s.seq # c.rcv THEN Processed(c, {Acknowledgement(c)}) ELSE Finished(c, {})

\* The acknowledgement covers what was never sent, or lies further behind than
\* any window the peer offered.
AckRefused(c, s) ==
  IF c.state = "SynReceived"
  THEN ~Follows(s.ack, c.una) \/ Follows(s.ack, c.nxt)
  ELSE Follows(s.ack, c.nxt) \/ Precedes(s.ack, Sub(c.una, c.wndMax))

RefuseAck(c, s) ==
  IF c.state = "SynReceived"
  THEN Finished(c, {Segment({"RST"}, s.ack, 0, c.rwnd, <<>>)})
  ELSE Processed(c, {Acknowledgement(c)})

UpdateWindow(c, s) ==
  IF \/ Follows(s.seq, c.wl1)
     \/ s.seq = c.wl1 /\ ~Precedes(s.ack, c.wl2)
  THEN [c EXCEPT !.wnd = s.wnd, !.wl1 = s.seq, !.wl2 = s.ack,
                 !.wndMax = IF s.wnd > @ THEN s.wnd ELSE @]
  ELSE c

\* The transitions an acknowledged FIN causes.
AdvanceAfterAck(c) ==
  IF \E r \in c.unacked : r.fin \/ r.syn THEN c
  ELSE CASE c.state = "FinWait1" -> [c EXCEPT !.state = "FinWait2"]
         [] c.state = "Closing"  -> StartTimeWait(c)
         [] c.state = "LastAck"  -> CloseHard(c)
         [] OTHER -> c

\* Only where ~AckRefused(c, s).
Acknowledge(c, s) ==
  LET up == IF c.state = "SynReceived" THEN [c EXCEPT !.state = "Established"]
            ELSE c
      retired == IF Follows(s.ack, up.una)
                 THEN [Retire(up, s.ack) EXCEPT !.una = s.ack] ELSE up
  IN  AdvanceAfterAck(UpdateWindow(retired, s))

TakeFin(c) ==
  LET past == [c EXCEPT !.rcv = Add(@, 1)]
  IN  CASE c.state = "Established" -> [past EXCEPT !.state = "CloseWait"]
        [] c.state = "FinWait1" -> [past EXCEPT !.state = "Closing"]
        [] c.state = "FinWait2" -> StartTimeWait(past)
        [] OTHER -> past

\* How many of the segment's bytes lie left of the window.
HadAlready(c, s) == Smaller(DistanceFrom(c.rcv, s.seq), Len(s.data))

\* Mutant: a hole before the segment is not noticed.
NeverAhead(c, s) == FALSE

\* In window, and ahead of the next byte.
Ahead(c, s) == Follows(s.seq, c.rcv)

\* Trim what was received already and what the window has no room for; the FIN
\* counts where the whole payload was taken.  A segment ahead of the next byte
\* is refused.
ReceiveData(c, s) ==
  LET payload == SubSeq(s.data, HadAlready(c, s) + 1, Len(s.data))
      deliver == SubSeq(payload, 1, Smaller(c.rwnd, Len(payload)))
      fin     == "FIN" \in s.flags /\ Len(deliver) = Len(payload)
      taken   == [c EXCEPT !.rcv = Add(@, Len(deliver))]
      after   == IF fin THEN TakeFin(taken) ELSE taken
  IN  IF Ahead(c, s) THEN Processed(c, {Acknowledgement(c)})
      ELSE [c |-> after, data |-> deliver, peerClosed |-> fin,
            finished |-> after.state = "Closed",
            reply |-> IF fin \/ s.data # <<>> THEN {Acknowledgement(after)}
                      ELSE {}]

\* The peer's SYN again, while this end's answer to it is not acknowledged.
HandshakeAgain(c, s) ==
  /\ c.state = "SynReceived"
  /\ {"SYN", "RST"} \cap s.flags = {"SYN"}
  /\ s.seq = c.irs

ReceiveHandshakeAgain(c, s) ==
  LET done == Acknowledge(c, s)
  IN  IF "ACK" \notin s.flags THEN Processed(c, {SynAck(c)})
      ELSE IF AckRefused(c, s) THEN RefuseAck(c, s)
      ELSE Processed(done, {Acknowledgement(done)})

Receive(c, s) ==
  LET acked == Acknowledge(c, s)
  IN  IF c.state = "SynSent" THEN ReceiveSynSent(c, s)
      ELSE IF HandshakeAgain(c, s) THEN ReceiveHandshakeAgain(c, s)
      ELSE IF ~Acceptable(c, s)
      THEN Processed(c, IF "RST" \in s.flags THEN {} ELSE {Acknowledgement(c)})
      ELSE IF "RST" \in s.flags THEN ReceiveReset(c, s)
      ELSE IF "SYN" \in s.flags THEN Processed(c, {Acknowledgement(c)})
      ELSE IF "ACK" \notin s.flags THEN Processed(c, {})
      ELSE IF AckRefused(c, s) THEN RefuseAck(c, s)
      ELSE IF acked.state = "TimeWait"
      THEN Processed(acked, {Acknowledgement(acked)})
      ELSE ReceiveData(acked, s)
=============================================================================
