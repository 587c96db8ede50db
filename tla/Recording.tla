----------------------------- MODULE Recording -----------------------------
(***************************************************************************)
(* One recording on the medium and how it comes back from a power cut: the *)
(* segmented ring and its superblock (crates/capture-ring), the sink that   *)
(* stages records and flushes them (crates/recorder/src/lib.rs), the pass   *)
(* that drives it (deck.rs), and the boot that reads the superblock back    *)
(* (preload.rs).                                                            *)
(*                                                                         *)
(* A position is a number of sectors from the start of the recording; the   *)
(* segment that is open is a function of the append cursor.  A record takes *)
(* a sector, the padding that seals the sector included.  The device        *)
(* answers when it likes, holds what it took in a cache until a barrier,    *)
(* and a power cut leaves any mixture of what it had cached.                *)
(***************************************************************************)
EXTENDS Integers, FiniteSets

CONSTANTS
    SEGMENT,       \* sectors in a segment (Geometry::segment_bytes)
    SEGMENTS,      \* payload segments of the extent (Geometry::segments)
    PROLOGUE,      \* sectors the opening section of a segment takes
    TAIL_RESERVE,  \* sectors a record leaves free behind it
    STAGING,       \* sectors of the staging area
    Claims,        \* positions the management server claims to have ingested
    MaxTop,        \* bound: how far records are offered
    MaxEvents      \* bound: claims, faults and power cuts together

ASSUME RecordingConstants ==
    /\ {SEGMENT, PROLOGUE, TAIL_RESERVE, STAGING} \subseteq Nat \ {0}
    /\ PROLOGUE + 1 + TAIL_RESERVE <= SEGMENT      \* payload_fits
    /\ PROLOGUE + TAIL_RESERVE <= STAGING
    /\ SEGMENTS \in Nat /\ SEGMENTS >= 2
    /\ Claims \subseteq Nat
    /\ {MaxTop, MaxEvents} \subseteq Nat

VARIABLES
    pc,        \* where the pass stands, or "off", or "parked"
    top,       \* Ring::cursor, as a position
    durable,   \* Sink::durable, which is also where the staging area starts
    flight,    \* Recording::in_flight: {} or {the position the flush ends at}
    rolling,   \* Recording::rolling
    due,       \* Recording::checkpoint_due
    held,      \* Deck::pending: a tap record the sink has not taken
    ckpt,      \* Deck::checkpointing
    gen,       \* Ring::write_generation
    stale,     \* Sink::superblock_stale
    reader,    \* Sink::reader: {} or {position}
    orders,    \* Medium::orders_writes
    io,        \* the device's flush and its barrier or superblock write
    copies,    \* the two superblock copies: what a read finds in each
    after,     \* and what a power cut may leave there
    image,     \* the superblock write handed over: which copies, and the state
    cover,     \* what the device had taken when the barrier was handed over
    solid,     \* what the device has committed; the gap a failed flush leaves
               \* is counted with it
    unbroken,  \* history: no generation was spent in vain since the last
               \* superblock was committed
    ordered,   \* history: the position the last committed superblock names
    acks,      \* claims the management server has made
    faults,    \* requests the device has failed
    mishaps    \* requests it has refused, and power cuts

sinkVars   == <<top, durable, reader, gen, stale>>
recVars    == <<flight, rolling, due, held>>
mediumVars == <<copies, after, cover, solid>>
history    == <<unbroken, ordered>>
vars == <<pc, sinkVars, recVars, ckpt, orders, io, image, mediumVars, history,
          acks, faults, mishaps>>

Copy == {0, 1}

-----------------------------------------------------------------------------
(* The ring *)

\* Cursor::sequence of the segment a position belongs to, and Ring::slack: a
\* segment closed to its end is still the open one until the roll.
Sequence(p) == p \div SEGMENT
Newest == (top - 1) \div SEGMENT
Slack == (Newest + 1) * SEGMENT - top

\* Sink::first_position: the oldest segment Ring::readable still names.
First == LET oldest == Newest - (SEGMENTS - 1)
         IN  IF oldest < 0 THEN 0 ELSE oldest * SEGMENT

Staged == top - durable

-----------------------------------------------------------------------------
(* The superblock *)

\* RingState::new: a reader past the writer's segment is refused.
Describable(at, r) == \A p \in r : Sequence(p) <= Sequence(at)

\* decode_superblock: the newer of the copies that decode, the first on a tie.
\* A copy is {state}, or {} where nothing decodes.
Decode(c) ==
    IF c[0] # {} /\ c[1] # {}
    THEN IF \E a \in c[0], b \in c[1] : b.gen > a.gen THEN c[1] ELSE c[0]
    ELSE c[0] \cup c[1]

\* encode_superblock: the copies a checkpoint of this generation rewrites.
\* Mutant: always the first copy.
SelectedFirst(g) == IF stale THEN Copy ELSE {0}
Selected(g) == IF stale THEN Copy ELSE {g % 2}

\* The newest superblock is in the copy its generation selects, or none was
\* ever attempted.
InPlace(c, g, st) == IF st THEN g = 0 ELSE \E s \in c[g % 2] : s.gen = g

\* What a power cut may leave in the two copies.
Outcomes == {c \in [Copy -> UNION {after[i] : i \in Copy}] :
               \A i \in Copy : c[i] \in after[i]}

\* Where a boot over these copies resumes: at zero where none decodes.
ResumesAt(c) == IF Decode(c) = {} THEN 0 ELSE (CHOOSE s \in Decode(c) : TRUE).at

-----------------------------------------------------------------------------
(* The device *)

Idle == [flush |-> "none", ctl |-> "none"]
NoImage == [copies |-> {}, state |-> {}]

\* What the device has taken: what it answered for, and a flush it has
\* finished that the pass has not settled yet.
Taken == IF io.flush \in {"ok", "failed"} THEN CHOOSE e \in flight : TRUE
                                          ELSE durable

Events == acks + faults + mishaps
Fault(n) == faults' = faults + n /\ Events + n <= MaxEvents
Mishap(n) == mishaps' = mishaps + n /\ Events + n <= MaxEvents

\* A write of payload ends; a failed one is a fault, and its bytes are lost.
DeviceFlush ==
    \E end \in {"ok", "failed"} :
      /\ io.flush = "out"
      /\ Fault(IF end = "ok" THEN 0 ELSE 1)
      /\ io' = [io EXCEPT !.flush = end]
      /\ UNCHANGED <<pc, sinkVars, recVars, ckpt, orders, image, mediumVars,
                     history, acks, mishaps>>

\* A barrier ends; one that succeeds commits what was taken before it was
\* handed over, the superblocks written until then included.
DeviceBarrier ==
    \E end \in {"ok", "failed"} :
      /\ ckpt = "barrier" /\ io.ctl = "out"
      /\ Fault(IF end = "ok" THEN 0 ELSE 1)
      /\ io' = [io EXCEPT !.ctl = end]
      /\ IF end = "ok"
         THEN /\ solid' = cover
              /\ after' = [i \in Copy |-> {copies[i]}]
              /\ ordered' = ResumesAt(copies)
              /\ unbroken' = InPlace(copies, gen, stale)
         ELSE UNCHANGED <<solid, after, ordered, unbroken>>
      /\ UNCHANGED <<pc, sinkVars, recVars, ckpt, orders, image, copies, cover,
                     acks, mishaps>>

\* A superblock write ends.  A failed one may have reached none, some or all
\* of the copies it addressed, or have torn them.
DeviceSuperblock ==
    \E end \in {"ok", "failed"}, c \in Outcomes :
      /\ ckpt = "written" /\ io.ctl = "out"
      /\ Fault(IF end = "ok" THEN 0 ELSE 1)
      /\ io' = [io EXCEPT !.ctl = end]
      /\ \A i \in Copy : IF i \notin image.copies THEN c[i] = copies[i]
                         ELSE end = "ok" => c[i] = {image.state}
      /\ copies' = c
      /\ UNCHANGED <<pc, sinkVars, recVars, ckpt, orders, image, after, cover,
                     solid, history, acks, mishaps>>

-----------------------------------------------------------------------------
(* The pass: Deck::poll, and the demand that follows it *)

\* Sink::acknowledge_reader: what the management server claims to hold, kept
\* between the oldest position and the durable one, and never backward.
\* Mutant: the claim is not held to the durable position.
BoundedBelow(p) == IF p < First THEN First ELSE p
Bounded(p) == LET q == IF p < First THEN First ELSE p
              IN  IF q > durable THEN durable ELSE q
Moved(claim) == {Bounded(p) : p \in {p \in claim :
                   \A r \in reader : Bounded(p) > r}}

\* Deck::settle, for a flush: acknowledged even where the device failed it.
\* Sink::acknowledge moves the durable cursor to the end of the flush.
Arms(claim) == Moved(claim) # {} \/ io.flush \in {"ok", "failed"}
SettledFlush ==
    IF io.flush \in {"ok", "failed"}
    THEN flight' = {} /\ durable' = Taken
    ELSE UNCHANGED <<flight, durable>>

\* Deck::settle, for a barrier and for a superblock.
SettledCtl ==
    CASE io.ctl \in {"none", "out"} -> UNCHANGED <<ckpt, stale, unbroken>>
      [] ckpt = "barrier" /\ io.ctl = "ok" ->
           ckpt' = "ordered" /\ UNCHANGED <<stale, unbroken>>
      [] ckpt = "written" /\ io.ctl = "ok" ->
           ckpt' = "idle" /\ stale' = FALSE /\ UNCHANGED unbroken
      [] OTHER -> /\ ckpt' = "idle" /\ UNCHANGED stale
                  /\ unbroken' = (unbroken /\ ckpt = "barrier")

\* A demand of the management domain at the end of one pass (Deck::demand,
\* with the claim it carries, or none), and the completions that begin the
\* next (Deck::settle, until the device has nothing more).
Settle(claim) ==
    /\ pc = "settle"
    /\ acks' = acks + Cardinality(claim)
    /\ Events + Cardinality(claim) <= MaxEvents
    /\ reader' = IF Moved(claim) = {} THEN reader ELSE Moved(claim)
    /\ due' = (due \/ Arms(claim))
    /\ SettledFlush
    /\ SettledCtl
    /\ io' = [j \in DOMAIN io |-> IF io[j] = "out" THEN "out" ELSE "none"]
    /\ image' = IF io.ctl = "out" THEN image ELSE NoImage
    /\ pc' = "drain"
    /\ UNCHANGED <<top, gen, rolling, held, orders, mediumVars, ordered,
                   faults, mishaps>>

\* Sink::close_segment, from `place`: pad the open segment to its end, where
\* the staging area can hold the padding, and ask for the roll.
\* Mutant: the segment is closed and the roll never asked for.
ClosedUnasked ==
    IF ~rolling /\ Staged + Slack <= STAGING
    THEN top' = top + Slack /\ UNCHANGED rolling
    ELSE UNCHANGED <<top, rolling>>
Closed ==
    IF ~rolling /\ Staged + Slack <= STAGING
    THEN top' = top + Slack /\ rolling' = TRUE
    ELSE UNCHANGED <<top, rolling>>

\* Sink::record and `place`: a record the segment and the staging area have
\* room for is appended; a full segment is closed; a full staging area waits.
Room == 1 + TAIL_RESERVE <= Slack
Placeable == Room /\ Staged + 1 <= STAGING - TAIL_RESERVE
Place == IF Placeable THEN top' = top + 1 /\ UNCHANGED rolling
         ELSE IF ~Room THEN Closed
         ELSE UNCHANGED <<top, rolling>>

\* Deck::drain_tap: the held record is offered first, and nothing is read from
\* the tap while it is owed a place.  A reading or a batch of console lines
\* (frame_snapshot, frame_transcript) is offered the same way and not held.
Offer(kept) ==
    /\ pc = "drain"
    /\ held \/ top + SEGMENT <= MaxTop
    /\ held => kept
    /\ Place
    /\ held' = (kept /\ ~Placeable)
    /\ pc' = IF Placeable THEN "drain" ELSE "advance"
    /\ UNCHANGED <<durable, reader, gen, stale, flight, due, ckpt, orders, io,
                   image, mediumVars, history, acks, faults, mishaps>>

\* Deck::advance: reopen a segment whose close has reached the device
\* (Sink::begin_segment), take a flush of what is staged, and hand it over.
\* The device may refuse; the same flush is offered on the next pass.
Reopens == rolling /\ flight = {} /\ Staged = 0
Advance(refused) ==
    LET next == IF Reopens THEN top + PROLOGUE ELSE top
        taken == IF flight # {} THEN flight
                 ELSE IF next > durable THEN {next} ELSE {}
        submits == taken # {} /\ io.flush = "none"
    IN
    /\ pc = "advance" \/ (pc = "drain" /\ ~held)   \* the tap is empty
    /\ refused => submits
    /\ Mishap(IF refused THEN 1 ELSE 0)
    /\ top' = next
    /\ rolling' = (rolling /\ ~Reopens)
    /\ due' = (due \/ Reopens)
    /\ flight' = taken
    /\ io' = [io EXCEPT !.flush = IF submits /\ ~refused THEN "out" ELSE @]
    /\ pc' = "checkpoint"
    /\ UNCHANGED <<durable, reader, gen, stale, held, ckpt, orders, image,
                   mediumVars, history, acks, faults>>

\* Deck::write_superblock: compose the next superblock over the durable cursor
\* as it is now, and hand it over.  A generation is spent on each attempt; a
\* refused one leaves the checkpoint ordered.
Named == durable
WriteSuperblock(refused) ==
    IF ~Describable(Named, reader)
    THEN /\ ckpt' = "idle" /\ due' = FALSE
         /\ UNCHANGED <<gen, io, image, after, unbroken>>
    ELSE LET s == [gen |-> gen + 1, at |-> Named, reader |-> reader,
                   late |-> ckpt = "ordered" /\ durable > cover]
             c == Selected(gen + 1)
         IN /\ gen' = gen + 1
            /\ unbroken' = (unbroken /\ ~refused)
            /\ IF refused
               THEN ckpt' = "ordered" /\ UNCHANGED <<due, io, image, after>>
               ELSE /\ ckpt' = "written" /\ due' = FALSE
                    /\ io' = [io EXCEPT !.ctl = "out"]
                    /\ image' = [copies |-> c, state |-> s]
                    /\ after' = [i \in Copy |-> IF i \in c
                                   THEN after[i] \cup {{s}, {}} ELSE after[i]]

\* Deck::order_checkpoint: a barrier first, or none on a device that has none.
OrderCheckpoint(refused) ==
    IF refused THEN UNCHANGED <<ckpt, due, io, cover>>
    ELSE /\ ckpt' = "barrier" /\ due' = FALSE
         /\ io' = [io EXCEPT !.ctl = "out"]
         /\ cover' = Taken

\* Deck::checkpoint
\* Mutant: no barrier is taken.
OrderedAlways == TRUE
Ordered == ckpt = "ordered" \/ ~orders
Checkpoint(refused) ==
    /\ pc = "checkpoint"
    /\ pc' = "settle"
    /\ IF ckpt = "ordered" \/ (ckpt = "idle" /\ due)
       THEN /\ Mishap(IF refused THEN 1 ELSE 0)
            /\ IF Ordered
               THEN WriteSuperblock(refused) /\ UNCHANGED cover
               ELSE OrderCheckpoint(refused)
                    /\ UNCHANGED <<gen, image, after, unbroken>>
       ELSE /\ ~refused
            /\ UNCHANGED <<ckpt, due, gen, io, image, after, unbroken, cover,
                           mishaps>>
    /\ UNCHANGED <<top, durable, reader, stale, flight, rolling, held, orders,
                   copies, solid, ordered, acks, faults>>

-----------------------------------------------------------------------------
(* Power cuts and boots *)

\* Everything but the medium is lost.
PowerCut ==
    /\ pc \notin {"off", "parked"}
    /\ Mishap(1)
    /\ copies' \in Outcomes
    /\ after' = [i \in Copy |-> {copies'[i]}]
    /\ pc' = "off"
    /\ top' = 0 /\ durable' = 0 /\ gen' = 0 /\ stale' = TRUE /\ reader' = {}
    /\ flight' = {} /\ rolling' = FALSE /\ due' = FALSE /\ held' = FALSE
    /\ ckpt' = "idle" /\ io' = Idle /\ image' = NoImage
    /\ solid' = ResumesAt(copies') /\ ordered' = ResumesAt(copies')
    /\ cover' = 0 /\ unbroken' = FALSE
    /\ UNCHANGED <<orders, acks, faults>>

\* Deck::new over what preload::read_superblocks found: Sink::resume where a
\* copy decodes, Sink::new where none does.  The prologue is composed either
\* way; where the segment has no room for it the segment is closed instead.
Opened(at, s) ==
    LET slack == SEGMENT - (at % SEGMENT)
    IN
    /\ top' = at + IF PROLOGUE <= slack THEN PROLOGUE ELSE slack
    /\ durable' = at
    /\ gen' = IF s = {} THEN 0 ELSE (CHOOSE x \in s : TRUE).gen
    /\ stale' = (s = {})
    /\ reader' = UNION {x.reader : x \in s}
    /\ unbroken' = InPlace(copies, gen', stale')

Boot ==
    /\ pc = "off"
    /\ Opened(ResumesAt(copies), Decode(copies))
    /\ due' = TRUE
    /\ pc' = "settle"
    /\ UNCHANGED <<flight, rolling, held, ckpt, orders, io, image, mediumVars,
                   ordered, acks, faults, mishaps>>

\* The boot-time read is refused, fails, falls short or is never answered:
\* the domain parks, and only the next power-up tries again.
Park ==
    /\ pc = "off"
    /\ pc' = "parked"
    /\ UNCHANGED <<sinkVars, recVars, ckpt, orders, io, image, mediumVars,
                   history, acks, faults, mishaps>>
PowerUp ==
    /\ pc = "parked"
    /\ pc' = "off"
    /\ UNCHANGED <<sinkVars, recVars, ckpt, orders, io, image, mediumVars,
                   history, acks, faults, mishaps>>

\* The first boot, over an extent nothing wrote.
Init ==
    /\ pc = "settle"
    /\ top = PROLOGUE /\ durable = 0 /\ gen = 0 /\ stale = TRUE /\ reader = {}
    /\ flight = {} /\ rolling = FALSE /\ due = TRUE /\ held = FALSE
    /\ ckpt = "idle" /\ io = Idle
    /\ orders \in BOOLEAN
    /\ copies = [i \in Copy |-> {}] /\ after = [i \in Copy |-> {{}}]
    /\ image = NoImage
    /\ cover = 0 /\ solid = 0 /\ unbroken = TRUE /\ ordered = 0
    /\ acks = 0 /\ faults = 0 /\ mishaps = 0

Pass ==
    \/ \E claim \in {{}} \cup {{p} : p \in Claims} : Settle(claim)
    \/ \E kept \in BOOLEAN : Offer(kept)
    \/ \E refused \in BOOLEAN : Advance(refused) \/ Checkpoint(refused)

Device == DeviceFlush \/ DeviceBarrier \/ DeviceSuperblock

Next == Pass \/ Device \/ PowerCut \/ Boot \/ Park \/ PowerUp

Spec == Init /\ [][Next]_vars

\* The poll loop never stops, the device answers what it was given, and a
\* parked or switched-off appliance is eventually brought up.
Fairness == WF_vars(Pass) /\ WF_vars(DeviceFlush)
            /\ WF_vars(DeviceBarrier \/ DeviceSuperblock)
            /\ WF_vars(PowerUp) /\ SF_vars(Boot)
FairSpec == Spec /\ Fairness

-----------------------------------------------------------------------------
(* Properties *)

\* Every superblock a power cut can leave behind.
Findable == UNION UNION {after[i] : i \in Copy}

\* On a device that honours barriers, and while no generation was spent on a
\* superblock that did not reach its copy, a power cut at any instant, in the
\* middle of a superblock write included, leaves a copy from which the boot
\* resumes no earlier than the position a committed superblock named
\* (encode_superblock's parity, decode_superblock, Deck::settle).
CheckpointSurvives ==
    orders /\ unbroken => \A c \in Outcomes : ResumesAt(c) >= ordered

\* On a device that honours barriers, a superblock a power cut can leave names
\* only payload the device has committed, unless a flush was acknowledged
\* between its barrier and its composition (Deck::order_checkpoint,
\* Deck::write_superblock).
CommittedUnlessLate ==
    orders => \A s \in Findable : s.at <= solid \/ s.late

\* The same without the exception, as deck.rs:5 states it: "A superblock never
\* becomes visible before the payload it describes".  A superblock names the
\* durable cursor of the moment it is composed, and the flushes acknowledged
\* since its barrier was handed over have moved that cursor past what the
\* barrier covers (Deck::order_checkpoint, Deck::write_superblock).
NamesCommitted ==
    orders => \A s \in Findable : s.at <= solid

\* A tap record one pass could not place is placed by a later one, through
\* the close of the segment, its flush, and the roll, whatever the device
\* refuses meanwhile (Deck::settle_pending, `place`, Deck::advance).
HeldIsPlaced == held ~> ~held

\* A recording that falls quiet has a superblock on the medium naming all of
\* it, without waiting for a segment to roll, whatever was refused, claimed by
\* the server or cut before, unless the device failed a request
\* (Recording::checkpoint_due, Sink::acknowledge_reader, Deck::checkpoint).
QuietIsNamed ==
    <>[](faults > 0 \/ (ResumesAt(copies) = durable /\ durable = top))

=============================================================================
