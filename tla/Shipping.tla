------------------------------ MODULE Shipping ------------------------------
(***************************************************************************)
(* How a recording leaves the appliance and becomes rows on the management *)
(* server.  Four parties take part:                                        *)
(*   - the recorder, which grows a segmented ring on the medium and answers *)
(*     one read at a time (crates/recorder);                               *)
(*   - the management domain's reader, `Downloads`, which keeps the cursor, *)
(*     holds one shipment, and hands it to the relay                        *)
(*     (crates/pd-runtime/src/download.rs, relay.rs);                      *)
(*   - the crypto domain's channel dialogue, which frames a shipment and    *)
(*     judges what the server acknowledges (pds/crypto/src/channel.rs);    *)
(*   - the server: one process per connection (channel/handler.ex), one per *)
(*     ring decoding the stream into rows (ingest/telemetry/ring.ex), and   *)
(*     the durable cursor (telemetry/cursor.ex).                            *)
(* One ring is modelled, the log ring, which is the one that becomes rows.  *)
(* A position is a number of units; a pcapng block is BlockUnits of them,   *)
(* so that a frame can end inside a block.                                  *)
(***************************************************************************)
EXTENDS Integers, Sequences, FiniteSets, SequencesExt, FiniteSetsExt

CONSTANTS
    BlockUnits,    \* units in one pcapng block
    SegBlocks,     \* blocks in a segment; the first is its section header
    Retained,      \* segments the medium keeps (Geometry::segments)
    FrameUnits,    \* units one read and one frame carry (SHIPPED_RING_BYTES)
    Grown,         \* how far it has grown when the appliance first dials
    MaxWritten,    \* bound: how far the recording grows
    MaxWire,       \* frames a connection's send buffer has room for
    MaxSessions,   \* bound: connections the appliance dials
    MaxPending,    \* rows held while the store refuses (@max_pending)
    Tables         \* the tables rows go to (@tables)

ASSUME ShippingConstants ==
    /\ {BlockUnits, SegBlocks, Retained, FrameUnits, MaxSessions, MaxPending}
         \subseteq Nat \ {0}
    /\ MaxWire \in Nat \ {0}
    /\ {Grown, MaxWritten} \subseteq Nat /\ Grown <= MaxWritten
    /\ Grown % BlockUnits = 0
    /\ Tables \subseteq Nat /\ Tables # {}

VARIABLES
    written,   \* recorder: one past the last durable unit
    newest,    \* recorder: the sequence of the segment it has open
    request,   \* the request region: the last read asked for, or {}
    reply,     \* the reply to that read, or {}
    dl,        \* the management domain's reader
    cur,       \* the session the appliance is carrying, 0 for none
    opened,    \* how many sessions it has dialled
    relay,     \* the network end of the relay
    chan,      \* the crypto domain's dialogue
    up,        \* frames on each connection toward the server
    down,      \* positions the server has sent on each connection
    srv,       \* the server's process for each connection
    proc,      \* the server's process for the ring, or {}
    cursor,    \* telemetry_ingest_cursors.position
    rows       \* blocks whose rows the store holds

mediumVars   == <<written, newest>>
recorderVars == <<mediumVars, request, reply>>
sessionVars  == <<cur, opened, relay, chan>>
wireVars     == <<up, down, srv>>
serverVars   == <<proc, cursor, rows>>
vars == <<recorderVars, dl, sessionVars, wireVars, serverVars>>

Sessions  == 1..MaxSessions
Positions == 0..MaxWritten
Segment   == BlockUnits * SegBlocks

-----------------------------------------------------------------------------
(* Blocks *)

Blocks == 0..(MaxWritten \div BlockUnits)
BlockEnd(k) == (k + 1) * BlockUnits
IsHeader(k) == k % SegBlocks = 0
TableOf(k)  == CHOOSE t \in Tables :
                 Cardinality({u \in Tables : u < t}) = (k \div SegBlocks) % Cardinality(Tables)

-----------------------------------------------------------------------------
(* The recorder *)

(* Sink::first_position: the start of the oldest segment still on the medium *)
First ==
    LET oldest == IF newest < Retained - 1 THEN 0 ELSE newest - (Retained - 1)
    IN  oldest * Segment

(* Sink::find and Deck::find: how much of a read is live.  A read never     *)
(* leaves its segment, never crosses the durable end and never exceeds what *)
(* was asked.                                                               *)
Live(position) ==
    Min({FrameUnits, written - position, Segment - (position % Segment)})

Answer(position) ==
    [ is    |-> CASE position >= written -> "delivered"
                  [] position < First    -> "overrun"
                  [] OTHER               -> "delivered",
      len   |-> IF position >= written \/ position < First THEN 0 ELSE Live(position),
      total |-> written,
      first |-> First ]

(* Sink::take_flush and Sink::acknowledge: what the device takes ends on a   *)
(* block boundary, and never leaves the open segment.                        *)
Write ==
    /\ written < (newest + 1) * Segment
    /\ written + BlockUnits <= MaxWritten
    /\ written' = written + BlockUnits
    /\ UNCHANGED <<newest, request, reply, dl, sessionVars, wireVars, serverVars>>

(* Sink::begin_segment, once the segment before it is durable: the oldest    *)
(* segment is given up here, before a byte of the new one is on the medium.  *)
Roll ==
    /\ written = (newest + 1) * Segment
    /\ newest' = newest + 1
    /\ UNCHANGED <<written, request, reply, dl, sessionVars, wireVars, serverVars>>

(* Deck::demand, Deck::find and Deck::answer                                 *)
Serve ==
    \E q \in request :
      /\ reply' = {Answer(q)}
      /\ request' = {}
      /\ UNCHANGED <<mediumVars, dl, sessionVars, wireVars, serverVars>>

(* A read the device fails, or a reply the reader cannot believe.           *)
Refuse ==
    \E q \in request, how \in {"refused", "faulted"} :
      /\ request' = {}
      /\ reply' = {[is |-> how, len |-> 0, total |-> written, first |-> First]}
      /\ UNCHANGED <<mediumVars, dl, sessionVars, wireVars, serverVars>>

-----------------------------------------------------------------------------
(* The management domain's reader *)

(* Relay::shipping: a channel session is carried and its greeting agreed.   *)
IsShipping == cur # 0 /\ relay.agreed

(* RingCursor::new *)
NewCursor == [ position |-> 0, durable |-> 0, answered |-> FALSE,
               holdoff  |-> FALSE, acked |-> 0,
               held |-> {}, outstanding |-> {} ]

NoteDurable(d, total) ==
    [d EXCEPT !.durable = Max({@, total}), !.answered = TRUE]

HoldOff(d) == [d EXCEPT !.holdoff = TRUE]

(* Mutant: a reader that stays where the ring has outrun it *)
StaysPut(d, offset, first) == d

(* Downloads::resynchronise: only ever forward of the position refused      *)
Resynchronise(d, offset, first) ==
    IF first <= offset THEN d ELSE [d EXCEPT !.position = first]

(* Downloads::claim_ring, for an answer that has arrived                    *)
Claimed(d, offset, r) ==
    LET free == [d EXCEPT !.outstanding = {}]
    IN  CASE r.is = "delivered" /\ r.len = 0 ->
               HoldOff(NoteDurable(free, r.total))
          [] r.is = "delivered" /\ r.len > 0 ->
               NoteDurable([free EXCEPT !.held = {[position |-> offset, len |-> r.len]}],
                           r.total)
          [] r.is = "overrun" ->
               HoldOff(Resynchronise(NoteDurable(free, r.total), offset, r.first))
          [] r.is = "refused" ->
               HoldOff(NoteDurable(free, r.total))
          [] r.is = "faulted" -> HoldOff(free)

(* Downloads::claim: nothing out, an answer, or silence, which is kept or    *)
(* given up on as the deadline says.                                         *)
Claim(d, expired) ==
    CASE d.outstanding = {} -> d
      [] d.outstanding # {} /\ reply # {} ->
           Claimed(d, CHOOSE o \in d.outstanding : TRUE, CHOOSE r \in reply : TRUE)
      [] d.outstanding # {} /\ reply = {} ->
           IF expired THEN [d EXCEPT !.outstanding = {}] ELSE d

(* Downloads::ask_medium: nothing out, a session to ship on, nothing held,  *)
(* and not inside the hold-off.                                             *)
MayAsk(d) ==
    IsShipping /\ d.outstanding = {} /\ d.held = {} /\ ~d.holdoff

(* Downloads::poll, one pass: claim, then ask.  A new request moves the     *)
(* sequence on, so an answer to the one before it is never claimed.         *)
Pass(expired) ==
    \E claimed \in {Claim(dl, expired)} :
      LET asks == MayAsk(claimed)
      IN  /\ dl' = IF asks
                   THEN [claimed EXCEPT !.outstanding = {claimed.position}]
                   ELSE claimed
          /\ request' = IF asks
                        THEN {claimed.position}
                        ELSE request
          /\ reply' = IF asks \/ dl.outstanding # {} THEN {} ELSE reply
          /\ UNCHANGED <<mediumVars, sessionVars, wireVars, serverVars>>

Poll == Pass(FALSE) /\ dl' # dl

(* A pass that finds REPLY_TIMEOUT gone by with no answer                    *)
PollExpired == dl.outstanding # {} /\ reply = {} /\ Pass(TRUE)

(* The clock: RING_HOLDOFF runs out                                          *)
HoldoffEnds ==
    /\ dl.holdoff
    /\ dl' = [dl EXCEPT !.holdoff = FALSE]
    /\ UNCHANGED <<recorderVars, sessionVars, wireVars, serverVars>>

-----------------------------------------------------------------------------
(* Upstream: what the relay tells the reader *)

(* Downloads::resume_from: where the session that just opened says to read  *)
(* from, cut to the durable end where that is known.                        *)
ResumeFrom(d, claimed) ==
    [d EXCEPT !.position = IF d.answered /\ claimed > d.durable THEN d.durable
                                                                ELSE claimed]

(* Downloads::acknowledged: forward only *)
Acknowledged(d, claimed) == [d EXCEPT !.acked = Max({@, claimed})]

(* Downloads::shipped *)
Shipped(d) ==
    IF d.held = {} THEN d
    ELSE LET s == CHOOSE h \in d.held : TRUE
         IN  [d EXCEPT !.held = {}, !.position = s.position + s.len]

-----------------------------------------------------------------------------
(* The relay and the dialogue.  An item crosses to the crypto domain, is     *)
(* served there, and its answer is claimed on a later pass.  Issuing and     *)
(* serving are one step here: nothing reads what lies between them, and a    *)
(* session lost between them leaves what one lost before them leaves.        *)

NewRelay == [agreed |-> FALSE, item |-> "none", answer |-> {}]
NewChan  == [agreed |-> FALSE, sent_to |-> 0, held |-> 0]

(* OutboundChannel dials and the server opens: handler.ex `open` greets with *)
(* the durable cursor.                                                       *)
Open ==
    /\ cur = 0 /\ opened < MaxSessions
    /\ opened' = opened + 1
    /\ cur' = opened + 1
    /\ relay' = NewRelay
    /\ chan' = NewChan
    /\ srv' = [srv EXCEPT ![opened + 1] = [is |-> "open", owed |-> FALSE]]
    /\ down' = [down EXCEPT ![opened + 1] = <<cursor>>]
    /\ UNCHANGED <<recorderVars, dl, up, serverVars>>

(* Dialogue::acknowledge: bounded by what this session has sent             *)
Judged(c, claimed) == [c EXCEPT !.held = Max({@, Min({claimed, c.sent_to})})]

(* Dialogue::read_frames: the greeting is taken whole, an ack is judged      *)
ReadPosition(c, position) ==
    IF c.agreed THEN Judged(c, position)
    ELSE [c EXCEPT !.agreed = TRUE, !.held = position]

(* Relay::issue of a Deliver, and ManagementChannel::turn: the answer states *)
(* how far the server has taken the recording and whether the greeting was   *)
(* agreed.                                                                   *)
CarryDeliver ==
    /\ cur # 0 /\ relay.item = "none" /\ down[cur] # <<>>
    /\ chan' = ReadPosition(chan, Head(down[cur]))
    /\ relay' = [relay EXCEPT !.item = "deliver",
                              !.answer = {[agreed |-> chan'.agreed, acked |-> chan'.held]}]
    /\ down' = [down EXCEPT ![cur] = Tail(@)]
    /\ UNCHANGED <<recorderVars, dl, cur, opened, up, srv, serverVars>>

(* Relay::issue of a Ship, which needs room on the connection for what it    *)
(* becomes, and Dialogue::compose: the frame is pushed whole and sent_to     *)
(* moves with it.                                                            *)
CarryShip ==
    /\ IsShipping /\ relay.item = "none" /\ Len(up[cur]) < MaxWire
    /\ \E s \in dl.held :
         /\ up' = [up EXCEPT ![cur] = Append(@, s)]
         /\ chan' = [chan EXCEPT !.sent_to = Max({@, s.position + s.len})]
    /\ relay' = [relay EXCEPT !.item = "ship",
                              !.answer = {[agreed |-> chan.agreed, acked |-> chan.held]}]
    /\ UNCHANGED <<recorderVars, dl, cur, opened, down, srv, serverVars>>

(* Relay::claim: the edge of agreement places the reader, every answer      *)
(* carries the acknowledgement, and an answered shipment is shipped.        *)
ClaimAnswer ==
    /\ cur # 0
    /\ \E a \in relay.answer :
         \E told \in {Acknowledged(IF a.agreed /\ ~relay.agreed
                                   THEN ResumeFrom(dl, a.acked) ELSE dl, a.acked)} :
             /\ dl' = IF relay.item = "ship" THEN Shipped(told) ELSE told
             /\ relay' = [agreed |-> relay.agreed \/ a.agreed, item |-> "none",
                          answer |-> {}]
    /\ UNCHANGED <<recorderVars, cur, opened, chan, wireVars, serverVars>>

(* The connection is lost, or an item is refused, faults or goes unanswered: *)
(* Relay::fail and Relay::finish.  The reader is told nothing.  The last     *)
(* session is let live, which is where the bound on sessions bites.  What    *)
(* was on its way to the appliance is gone; what it sent may still arrive.   *)
Lose ==
    /\ cur # 0 /\ cur < MaxSessions
    /\ cur' = 0
    /\ relay' = NewRelay
    /\ chan' = NewChan
    /\ down' = [down EXCEPT ![cur] = <<>>]
    /\ UNCHANGED <<recorderVars, dl, opened, up, srv, serverVars>>

-----------------------------------------------------------------------------
(* The server *)

(* Ring.init and handle_continue: a process starts knowing the durable       *)
(* cursor and nothing of the stream.                                         *)
NewProc(s) == [ session |-> s, cursor |-> cursor, decoder |-> FALSE, fed |-> 0,
                pending |-> [t \in Tables |-> <<>>], through |-> {} ]

(* Ring.watch: a shipment from another connection moves the watch            *)
Watch(p, s) == [p EXCEPT !.session = s]

(* Mutant: rows built for bytes the cursor says are stored *)
BuiltAgain(p, from, to) ==
    {k \in Blocks : ~IsHeader(k) /\ BlockEnd(k) > from /\ BlockEnd(k) <= to}

(* Ring.feed and Ring.collect: the records completed by the run, cut at the *)
(* cursor.                                                                   *)
Built(p, from, to) ==
    {k \in Blocks : /\ ~IsHeader(k)
                    /\ BlockEnd(k) > from /\ BlockEnd(k) <= to
                    /\ BlockEnd(k) > p.cursor}

(* Pcapng.buffered: the mark is the end of the last whole block              *)
CompleteThrough(to) == to - (to % BlockUnits)

(* Ring.hold, one table's rows oldest first                                  *)
Held(pending, new) ==
    [t \in Tables |-> pending[t] \o SetToSortSeq({k \in new : TableOf(k) = t}, <)]

(* Ring.decode of the units from `from` up to `to`                           *)
Decode(p, from, to) ==
    LET new == Built(p, from, to)
    IN  [p EXCEPT !.decoder = TRUE, !.fed = to,
                  !.pending = Held(@, new),
                  !.through = IF new = {} THEN @ ELSE {CompleteThrough(to)}]

(* Ring.resynchronise: a stream is picked up at a section header and nowhere *)
(* else.                                                                     *)
Resync(p, from, to) ==
    LET heads == {BlockUnits * k : k \in {j \in Blocks : IsHeader(j)}} \cap (from..(to - 1))
    IN  IF heads = {} THEN [p EXCEPT !.decoder = FALSE, !.fed = 0]
        ELSE Decode(p, Min(heads), to)

(* Ring.arrived: the position guard                                          *)
Arrived(p, f) ==
    LET to == f.position + f.len
    IN  IF p.decoder /\ p.fed = f.position THEN Decode(p, f.position, to)
                                           ELSE Resync(p, f.position, to)

(* handler.ex hands ring bytes to the ring's process, starting one if there  *)
(* is none; the session owes an acknowledgement for what it received.        *)
Receive(s) ==
    /\ srv[s].is = "open" /\ up[s] # <<>>
    /\ \E p \in (IF proc = {} THEN {NewProc(s)} ELSE {Watch(q, s) : q \in proc}) :
         proc' = {Arrived(p, Head(up[s]))}
    /\ up' = [up EXCEPT ![s] = Tail(@)]
    /\ srv' = [srv EXCEPT ![s].owed = TRUE]
    /\ UNCHANGED <<recorderVars, dl, sessionVars, down, cursor, rows>>

(* Mutant: an acknowledgement of what arrived *)
AckedArrival == Max({cursor} \cup {p.fed : p \in proc})

(* cursors/1: the positions an acknowledgement names are the ingest's own    *)
AckedPosition == cursor

(* handler.ex `acknowledge`; on a connection the appliance has lost it goes  *)
(* nowhere.                                                                  *)
Ack(s) ==
    /\ srv[s].is = "open" /\ srv[s].owed
    /\ down' = IF s = cur THEN [down EXCEPT ![s] = Append(@, AckedPosition)] ELSE down
    /\ srv' = [srv EXCEPT ![s].owed = FALSE]
    /\ UNCHANGED <<recorderVars, dl, sessionVars, up, serverVars>>

(* Ring.held: rows across the tables together                                *)
HeldRows(pending) == MapThenSumSet(LAMBDA t : Len(pending[t]), Tables)

(* Ring.trim, one turn: the oldest rows of the table that holds the most     *)
TrimTurn(acc, turn) ==
    LET most == Max({Len(acc.pending[t]) : t \in Tables})
        from == Min({t \in Tables : Len(acc.pending[t]) = most})
        take == Min({acc.over, most})
    IN  [ pending |-> [acc.pending EXCEPT ![from] = SubSeq(@, take + 1, Len(@))],
          over    |-> acc.over - take ]

(* Ring.retain: a refused batch is kept, up to the bound on the hold         *)
Retain(pending) ==
    LET over == Max({HeldRows(pending) - MaxPending, 0})
    IN  FoldLeft(TrimTurn, [pending |-> pending, over |-> over],
                 SetToSortSeq(Tables, <)).pending

RowsOf(pending, S) == UNION {ToSet(pending[t]) : t \in S}

(* Ring.insert for each table in turn, `good` being the ones the store takes: *)
(* what is still held, and what went in.  A refusal trims the hold, the       *)
(* batches of the tables behind it included.                                  *)
Inserted(held, good) ==
    FoldLeft(LAMBDA acc, t :
               IF t \in good
               THEN [pending |-> [acc.pending EXCEPT ![t] = <<>>],
                     stored  |-> acc.stored \cup ToSet(acc.pending[t])]
               ELSE IF acc.pending[t] = <<>> THEN acc
               ELSE [acc EXCEPT !.pending = Retain(@)],
             [pending |-> held, stored |-> {}], SetToSortSeq(Tables, <))

(* Mutant: the cursor moves when any table took its batch *)
SettledBySome(p, good) == \E t \in Tables : p.pending[t] # <<>> /\ t \in good

(* Ring.flush and Ring.settle: every batch is in                             *)
Settled(p, good) == \A t \in Tables : p.pending[t] # <<>> => t \in good

(* Ring.stored: the process after a flush                                    *)
Flushed(p, good) ==
    IF Settled(p, good)
    THEN [p EXCEPT !.pending = [t \in Tables |-> <<>>], !.through = {},
                   !.cursor  = Max({@} \cup p.through)]
    ELSE [p EXCEPT !.pending = Inserted(@, good).pending]

(* The rows a flush puts into the store                                      *)
Stored(p, good) ==
    IF Settled(p, good) THEN RowsOf(p.pending, good)
                        ELSE Inserted(p.pending, good).stored

(* Cursor.advance: the larger of the two                                     *)
AdvancedTo(p, good) ==
    IF Settled(p, good) THEN Max({cursor} \cup p.through) ELSE cursor

Flush(good) ==
    \E p \in proc :
      /\ HeldRows(p.pending) > 0
      /\ proc' = {Flushed(p, good)}
      /\ cursor' = AdvancedTo(p, good)
      /\ rows' = rows \cup Stored(p, good)
      /\ UNCHANGED <<recorderVars, dl, sessionVars, wireVars>>

(* The rows are in and Cursor.advance raises: the process is gone with its    *)
(* state, and is not restarted.                                              *)
AdvanceFails ==
    \E p \in proc :
      /\ HeldRows(p.pending) > 0 /\ p.through # {}
      /\ proc' = {}
      /\ rows' = rows \cup RowsOf(p.pending, Tables)
      /\ UNCHANGED <<recorderVars, dl, sessionVars, wireVars, cursor>>

(* The connection's process ends: what is still on the wire is gone, and the  *)
(* ring's process, if it is watching this connection, flushes and stops.      *)
ServerEnds(s, good) ==
    /\ srv[s].is = "open" /\ s # cur
    /\ srv' = [srv EXCEPT ![s] = [is |-> "gone", owed |-> FALSE]]
    /\ up' = [up EXCEPT ![s] = <<>>]
    /\ LET watching == {p \in proc : p.session = s}
       IN  /\ proc' = proc \ watching
           /\ cursor' = Max({cursor} \cup {AdvancedTo(p, good) : p \in watching})
           /\ rows' = rows \cup UNION {Stored(p, good) : p \in watching}
    /\ UNCHANGED <<recorderVars, dl, sessionVars, down>>

-----------------------------------------------------------------------------
Init ==
    /\ written = Grown /\ newest = Grown \div Segment /\ request = {} /\ reply = {}
    /\ dl = NewCursor
    /\ cur = 0 /\ opened = 0 /\ relay = NewRelay /\ chan = NewChan
    /\ up = [s \in Sessions |-> <<>>]
    /\ down = [s \in Sessions |-> <<>>]
    /\ srv = [s \in Sessions |-> [is |-> "none", owed |-> FALSE]]
    /\ proc = {} /\ cursor = 0 /\ rows = {}

Next ==
    \/ Write \/ Roll \/ Serve \/ Refuse
    \/ Poll \/ PollExpired \/ HoldoffEnds
    \/ Open \/ CarryDeliver \/ CarryShip \/ ClaimAnswer \/ Lose
    \/ AdvanceFails
    \/ \E s \in Sessions : Receive(s) \/ Ack(s)
    \/ \E good \in SUBSET Tables : Flush(good)
    \/ \E s \in Sessions, good \in SUBSET Tables : ServerEnds(s, good)

(* Every domain is woken while it has work (notifications and the clock's     *)
(* ticks), the appliance redials, and the server's processes run.  A medium    *)
(* that refused every read would ship nothing, so serving is strongly fair.    *)
Fairness ==
    /\ SF_vars(Serve)
    /\ WF_vars(Poll) /\ WF_vars(HoldoffEnds)
    /\ WF_vars(Open) /\ WF_vars(CarryDeliver) /\ WF_vars(CarryShip)
    /\ WF_vars(ClaimAnswer) /\ \A s \in Sessions : WF_vars(Receive(s))

Spec == Init /\ [][Next]_vars /\ Fairness

-----------------------------------------------------------------------------
(* Properties *)

Frames == [position : Positions, len : 1..FrameUnits]

(* The reader holds at most one shipment or has one read out, never both:    *)
(* `Downloads` keeps one shipment buffer and `ask_medium` skips the rings     *)
(* while it is full.                                                          *)
TypeOK ==
    /\ written \in Positions /\ newest \in Nat
    /\ request \subseteq Positions /\ Cardinality(request) <= 1
    /\ Cardinality(reply) <= 1
    /\ {dl.position, dl.durable, dl.acked} \subseteq Positions
    /\ dl.held \subseteq Frames /\ dl.outstanding \subseteq Positions
    /\ Cardinality(dl.held) + Cardinality(dl.outstanding) <= 1
    /\ cur \in {0, opened} /\ opened \in 0..MaxSessions
    /\ {chan.sent_to, chan.held} \subseteq Positions
    /\ \A s \in Sessions : ToSet(up[s]) \subseteq Frames /\ ToSet(down[s]) \subseteq Positions
    /\ Cardinality(proc) <= 1
    /\ cursor \in Positions /\ rows \subseteq Blocks

(* Nothing is taken as ingested past the ingest's own mark: neither the       *)
(* channel's judgement of an acknowledgement nor the position the reader      *)
(* states to the recorder is ever past the server's durable cursor, whatever  *)
(* connections, late frames and stale greetings come between                  *)
(* (Dialogue::acknowledge, Downloads::acknowledged, handler.ex cursors/1).    *)
(* Below the cursor a row may be missing: one the hold's bound dropped, or    *)
(* one in a gap the decoder resynchronised over.                              *)
AckedBehindCursor ==
    /\ dl.acked <= cursor
    /\ chan.held <= cursor
    /\ \A s \in Sessions : \A i \in DOMAIN down[s] : down[s][i] <= cursor

(* A row waiting to be inserted is never one the durable cursor already       *)
(* covers, so a recording delivered twice is not the same rows twice once the *)
(* mark has passed them, even where an older connection's frames arrive       *)
(* between a newer one's (Ring.feed cuts a run at the cursor).                *)
NothingTwiceBelowCursor ==
    \A p \in proc : \A k \in RowsOf(p.pending, Tables) : BlockEnd(k) > cursor

(* The mark moves only behind the inserts: a step that moves the durable      *)
(* cursor leaves in the store every row the ring's process was holding, in    *)
(* whichever table (Ring.settle: "the cursor moves only once all of them are  *)
(* in").                                                                      *)
MarkedBehindInserts ==
    [][cursor' # cursor => \A p \in proc : RowsOf(p.pending, Tables) \subseteq rows']_vars

(* The reader is never stopped for good: once a session stays up it reaches    *)
(* the end of what the medium has taken, past refusals, silences, hold-offs    *)
(* and a ring that outran it (Downloads::poll: "a cursor is never simply       *)
(* given up on").  What it may have passed over on the way is NeverSkipped's.  *)
ReaderCatchesUp == <>[](dl.position = written)

(* "A frame can cross twice and never be skipped" (Upstream::shipped): what a  *)
(* session is sent begins where the server asked it to or where the last frame *)
(* of that session ended, or before; only what the medium no longer keeps is   *)
(* passed over.                                                                *)
NeverSkipped ==
    [][\A s \in Sessions : Len(up'[s]) > Len(up[s]) =>
         Last(up'[s]).position <= Max({chan.held, chan.sent_to, First})]_vars
====
