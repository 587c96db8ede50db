----------------------------- MODULE BufferLoan -----------------------------
(***************************************************************************)
(* One direction of the routed dataplane, followed by who owns each packet *)
(* buffer:                                                                 *)
(*                                                                         *)
(*   device -> receiving driver -> forwarder -> transmitting driver -> ... *)
(*        ^         (rx ring)         (tx ring)           |                *)
(*        +------------------- (free ring) ---------------+                *)
(*                                                                         *)
(* The receiving driver owns the pool: a FreeList (packet-buffer) says     *)
(* which buffers it may hand out and PoolOwner (pd-runtime) which ones it  *)
(* has lent.  A buffer posted to its own device and a buffer lent to a     *)
(* peer are both `outstanding`; only the lent set tells them apart.  Past  *)
(* `lend` a buffer is a bare index in a descriptor, and comes back as one. *)
(*                                                                         *)
(* The three domains and the two devices interleave; a step is one turn of *)
(* the loop a domain is in.  A ring is a bounded FIFO of descriptors,      *)
(* which is what SpscRing shows it to be.  `faults` counts what a neighbour*)
(* or a device does outside the protocol: a completion replayed or never   *)
(* earned; a read of a ring that yields an entry no hand-over put there, as*)
(* after a cursor that lapped or started again; a ring that looks full     *)
(* because the neighbour's cursor stands still.                            *)
(***************************************************************************)
EXTENDS Integers, Sequences, FiniteSets

CONSTANTS N,          \* POOL_BUFFERS
          RxQ, TxQ,   \* descriptors of the receive and the transmit virtqueue
          RING_SLOTS, \* slots of a ring, one of them unusable
          MaxFaults,  \* bound on the faults of one behaviour
          StrayIndices, StrayIds \* what a fault names on a ring, in a used ring

ASSUME PoolAssumption == N \in Nat \ {0} /\ RxQ \in Nat \ {0} /\ TxQ \in Nat \ {0}
ASSUME RingAssumption == RING_SLOTS \in Nat /\ RING_SLOTS > N
ASSUME FaultAssumption == MaxFaults \in Nat

DRAIN_LIMIT == RING_SLOTS

Buffer == 0 .. N - 1
RxSlot == 0 .. RxQ - 1
TxSlot == 0 .. TxQ - 1

VARIABLES
  indices, top, outstanding,  \* FreeList: indices[0 .. top-1] are free
  lent,                       \* PoolOwner::lent
  rxPosted, rxState, rxUsed,  \* RxPath::posted; its SplitVirtqueue
  txPosted, txState, txUsed,  \* TxPath::posted; its SplitVirtqueue
  inFlight,                   \* TxPath::in_flight
  rxRing, txRing, freeRing,   \* the rings of the pipeline
  notified,                   \* the forwarder's pending notification
  rxPc, rxLeft, received,     \* where NicPort::poll_once of the receiver is
  txPc, txLeft,               \* ... and of the transmitter
  fwPc, fwLeft,               \* where RouteStage::poll is
  faults

ledger == <<indices, top, outstanding, lent>>
rxQueue == <<rxPosted, rxState, rxUsed>>
txQueue == <<txPosted, txState, txUsed, inFlight>>
receiver == <<rxPc, rxLeft, received>>
transmitter == <<txPc, txLeft>>
forwarder == <<fwPc, fwLeft>>
vars == <<ledger, rxQueue, txQueue, rxRing, txRing, freeRing, notified,
          receiver, transmitter, forwarder, faults>>

\* A descriptor, by its index and whether its next reader can use the frame:
\* on the rx ring, that its span lies within one buffer; on the tx ring, that
\* its verdict is Transmit, its span lies within one buffer and leaves room
\* for the device's header.  Of a return only the index is read.
Descriptor(b, ok) == [buffer |-> b, ok |-> ok]

\* `next == peer_head()`: one slot stays empty.
Full(ring) == Len(ring) >= RING_SLOTS - 1

\* try_enqueue takes the descriptor or hands it back, in a step that has met
\* n faults before it.
Enqueues(ring, n) == ~Full(ring) /\ faults' = faults + n
Refuses(ring, n) == faults' = faults + n + (IF Full(ring) THEN 0 ELSE 1)

Init ==
  /\ indices = [i \in Buffer |-> i] /\ top = N
  /\ outstanding = [b \in Buffer |-> FALSE]
  /\ lent = [b \in Buffer |-> FALSE]
  /\ rxPosted = [s \in RxSlot |-> {}] /\ rxState = [s \in RxSlot |-> "free"]
  /\ txPosted = [s \in TxSlot |-> {}] /\ txState = [s \in TxSlot |-> "free"]
  /\ rxUsed = <<>> /\ txUsed = <<>>
  /\ inFlight = [b \in Buffer |-> FALSE]
  /\ rxRing = <<>> /\ txRing = <<>> /\ freeRing = <<>>
  /\ notified = FALSE
  \* NicPort::prime is a refill before the device is live.
  /\ rxPc = "refill" /\ rxLeft = 0 /\ received = FALSE
  /\ txPc = "reap" /\ txLeft = 0
  /\ fwPc = "idle" /\ fwLeft = 0
  /\ faults = 0

-----------------------------------------------------------------------------
(* SplitVirtqueue, by one descriptor per chain *)

\* add_writable and add_readable, where a descriptor is free ...
Added(state, s) == [state EXCEPT ![s] = "posted"]
\* ... and Completion::recycle.
Recycled(state, s) == [state EXCEPT ![s] = "free"]

\* The used entries one call examines.
Scanned(size, used) == 1 .. (IF Len(used) < size THEN Len(used) ELSE size)

\* Entry i is accepted: an id of this queue, of a descriptor that is posted.
Accepted(state, used, i) ==
  used[i].id \in DOMAIN state /\ state[used[i].id] = "posted"

\* The call answers the completion at entry k, skipping those it refuses ...
Reaps(size, state, used, k) ==
  /\ k \in Scanned(size, used) /\ Accepted(state, used, k)
  /\ \A i \in 1 .. k - 1 : ~Accepted(state, used, i)
\* ... or finds none it accepts.
ReapsNone(size, state, used) ==
  \A i \in Scanned(size, used) : ~Accepted(state, used, i)

After(used, k) == SubSeq(used, k + 1, Len(used))
AfterNone(size, used) == SubSeq(used, size + 1, Len(used))

-----------------------------------------------------------------------------
(* The pool owner: FreeList and PoolOwner *)

\* FreeList::pop
Pop == /\ top > 0
       /\ top' = top - 1
       /\ outstanding' = [outstanding EXCEPT ![indices[top - 1]] = TRUE]
       /\ UNCHANGED indices

\* FreeList::accept, past its three refusals.
Push(b) == /\ outstanding' = [outstanding EXCEPT ![b] = FALSE]
           /\ indices' = [indices EXCEPT ![top] = b]
           /\ top' = top + 1

\* Mutant: a return is checked against the ledger alone.
ReturnableLedger(b) == b \in Buffer /\ outstanding[b] /\ top < N

\* PoolOwner::reclaim takes an index back only if it is lent and the ledger
\* does not refuse it.
Returnable(b) == b \in Buffer /\ lent[b] /\ outstanding[b] /\ top < N

ReclaimIndex(b) ==
  /\ rxPc = "reclaim"
  /\ \/ /\ Returnable(b)
        /\ Push(b)
        /\ lent' = [lent EXCEPT ![b] = FALSE]
     \/ ~Returnable(b) /\ UNCHANGED ledger
  /\ rxLeft' = rxLeft - 1 /\ rxPc' = IF rxLeft = 1 THEN "refill" ELSE "reclaim"
  /\ UNCHANGED <<rxQueue, txQueue, rxRing, txRing, notified, received,
                 transmitter, forwarder>>

ReclaimOne == /\ freeRing # <<>> /\ ReclaimIndex(Head(freeRing))
              /\ freeRing' = Tail(freeRing)
              /\ UNCHANGED faults
ReclaimStray(b) == /\ ReclaimIndex(b)
                   /\ faults' = faults + 1
                   /\ UNCHANGED freeRing

ReclaimDone ==
  /\ rxPc = "reclaim" /\ freeRing = <<>>
  /\ rxPc' = "refill" /\ rxLeft' = 0
  /\ UNCHANGED <<ledger, rxQueue, txQueue, rxRing, txRing, freeRing, notified,
                 received, transmitter, forwarder, faults>>

-----------------------------------------------------------------------------
(* RxPath *)

\* One turn of RxPath::refill: a free buffer into a free descriptor.  Which
\* free descriptor comes first is the virtqueue's; any may.
RefillOne(s) ==
  /\ rxPc = "refill" /\ rxState[s] = "free"
  /\ Pop
  /\ rxPosted' = [rxPosted EXCEPT ![s] = {indices[top - 1]}]
  /\ rxState' = Added(rxState, s)
  /\ UNCHANGED <<lent, rxUsed, txQueue, rxRing, txRing, freeRing, notified,
                 receiver, transmitter, forwarder, faults>>

\* Out of buffers, or out of descriptors: the buffer popped last is released,
\* which puts the stack back as it was.
RefillDone ==
  /\ rxPc = "refill"
  /\ top = 0 \/ \A s \in RxSlot : rxState[s] # "free"
  /\ rxPc' = "drain"
  /\ UNCHANGED <<ledger, rxQueue, txQueue, rxRing, txRing, freeRing, notified,
                 rxLeft, received, transmitter, forwarder, faults>>

\* PoolOwner::lend, and the release of a buffer the ring had no room for.
Lend(b) ==
  \/ /\ Enqueues(rxRing, 0)
     /\ rxRing' = Append(rxRing, Descriptor(b, TRUE))
     /\ lent' = [lent EXCEPT ![b] = TRUE]
     /\ received' = TRUE
     /\ UNCHANGED <<indices, top, outstanding>>
  \/ /\ Refuses(rxRing, 0)
     /\ Push(b)
     /\ UNCHANGED <<rxRing, lent, received>>

\* One turn of RxPath::drain.  Its limit of RxQ turns never ends the loop first:
\* no descriptor is posted within it, so after RxQ completions none is left to
\* accept (and reap likewise).  The slot's buffer is taken, lent or, if
\* the frame is empty once the header is taken off, released; the descriptor
\* is recycled.  PathsAgree: an accepted completion always finds a buffer.
DrainOne(k) ==
  /\ rxPc = "drain" /\ Reaps(RxQ, rxState, rxUsed, k)
  /\ LET s == rxUsed[k].id IN
       \E b \in rxPosted[s] :
         /\ \/ /\ rxUsed[k].runt /\ Push(b)
               /\ UNCHANGED <<rxRing, lent, received, faults>>
            \/ ~rxUsed[k].runt /\ Lend(b)
         /\ rxPosted' = [rxPosted EXCEPT ![s] = {}]
         /\ rxState' = Recycled(rxState, s)
  /\ rxUsed' = After(rxUsed, k)
  /\ UNCHANGED <<txQueue, txRing, freeRing, notified, rxPc, rxLeft, transmitter,
                 forwarder>>

\* Mutant: the peer is notified only when the ring was found full.
DrainDoneSilent ==
  /\ rxPc = "drain"
  /\ ReapsNone(RxQ, rxState, rxUsed) /\ rxUsed' = AfterNone(RxQ, rxUsed)
  /\ notified' = (notified \/ (received /\ Full(rxRing)))
  /\ rxPc' = "reclaim" /\ rxLeft' = DRAIN_LIMIT /\ received' = FALSE
  /\ UNCHANGED <<ledger, rxPosted, rxState, txQueue, rxRing, txRing, freeRing,
                 transmitter, forwarder, faults>>

\* The drain ends, and the peer is notified once for everything it was given.
DrainDone ==
  /\ rxPc = "drain"
  /\ ReapsNone(RxQ, rxState, rxUsed) /\ rxUsed' = AfterNone(RxQ, rxUsed)
  /\ notified' = (notified \/ received)
  /\ rxPc' = "reclaim" /\ rxLeft' = DRAIN_LIMIT /\ received' = FALSE
  /\ UNCHANGED <<ledger, rxPosted, rxState, txQueue, rxRing, txRing, freeRing,
                 transmitter, forwarder, faults>>

-----------------------------------------------------------------------------
(* RouteStage::poll, once per wakeup *)

Wake ==
  /\ fwPc = "idle" /\ notified
  /\ notified' = FALSE
  /\ fwPc' = "poll" /\ fwLeft' = DRAIN_LIMIT
  /\ UNCHANGED <<ledger, rxQueue, txQueue, rxRing, txRing, freeRing, receiver,
                 transmitter, faults>>

RouteTurn == fwLeft' = fwLeft - 1 /\ fwPc' = IF fwLeft = 1 THEN "idle" ELSE "poll"

\* What the stage makes of a frame, from its snapshot to its rewritten header:
\* Verdict::Transmit or, where any of that refuses it, Verdict::Discard.
Transmits == BOOLEAN

\* A descriptor naming no span of the pool is dropped.  Any other goes on under
\* its verdict: a discarded frame's buffer travels to the transmitter as a
\* forwarded one's does.  A full destination loses the descriptor already
\* taken and ends the poll.
Route(d, transmit, n) ==
  /\ fwPc = "poll"
  /\ \/ /\ ~(d.buffer \in Buffer /\ d.ok)
        /\ RouteTurn
        /\ faults' = faults + n
        /\ UNCHANGED txRing
     \/ /\ d.buffer \in Buffer /\ d.ok /\ Enqueues(txRing, n)
        /\ txRing' = Append(txRing, Descriptor(d.buffer, transmit))
        /\ RouteTurn
     \/ /\ d.buffer \in Buffer /\ d.ok /\ Refuses(txRing, n)
        /\ fwPc' = "idle" /\ fwLeft' = 0
        /\ UNCHANGED txRing
  /\ UNCHANGED <<ledger, rxQueue, txQueue, freeRing, notified, receiver,
                 transmitter>>

RouteOne(transmit) == /\ rxRing # <<>> /\ Route(Head(rxRing), transmit, 0)
                      /\ rxRing' = Tail(rxRing)
RouteStray(d, transmit) == Route(d, transmit, 1) /\ UNCHANGED rxRing

RouteDone ==
  /\ fwPc = "poll" /\ rxRing = <<>>
  /\ fwPc' = "idle" /\ fwLeft' = 0
  /\ UNCHANGED <<ledger, rxQueue, txQueue, rxRing, txRing, freeRing, notified,
                 receiver, transmitter, faults>>

-----------------------------------------------------------------------------
(* TxPath *)

\* return_buffer: a full free ring drops the return.
ReturnBuffer(b, n) ==
  \/ Enqueues(freeRing, n) /\ freeRing' = Append(freeRing, b)
  \/ Refuses(freeRing, n) /\ UNCHANGED freeRing

\* One turn of TxPath::reap.
ReapOne(k) ==
  /\ txPc = "reap" /\ Reaps(TxQ, txState, txUsed, k)
  /\ LET s == txUsed[k].id IN
       \E b \in txPosted[s] :
         /\ inFlight' = [inFlight EXCEPT ![b] = FALSE]
         /\ ReturnBuffer(b, 0)
         /\ txPosted' = [txPosted EXCEPT ![s] = {}]
         /\ txState' = Recycled(txState, s)
  /\ txUsed' = After(txUsed, k)
  /\ UNCHANGED <<ledger, rxQueue, rxRing, txRing, notified, receiver,
                 transmitter, forwarder>>

ReapDone ==
  /\ txPc = "reap"
  /\ ReapsNone(TxQ, txState, txUsed) /\ txUsed' = AfterNone(TxQ, txUsed)
  /\ txPc' = "post" /\ txLeft' = DRAIN_LIMIT
  /\ UNCHANGED <<ledger, rxQueue, txPosted, txState, inFlight, rxRing, txRing,
                 freeRing, notified, receiver, forwarder, faults>>

\* Mutant: a frame not for the device is dropped with its buffer.
PostBackNever(d, n) == UNCHANGED freeRing /\ faults' = faults + n

\* What post does with a descriptor it does not hand to the device: back to
\* its owner if the index names a buffer at all.
PostBack(d, n) ==
  \/ d.buffer \in Buffer /\ ReturnBuffer(d.buffer, n)
  \/ d.buffer \notin Buffer /\ UNCHANGED freeRing /\ faults' = faults + n

\* Mutant: the in-flight set is not consulted.
DuplicateNever(d) == FALSE

\* A second descriptor for a buffer this driver already has at the device.
Duplicate(d) == d.buffer \in Buffer /\ inFlight[d.buffer]

\* A frame for the device.
Sendable(d) == d.ok /\ d.buffer \in Buffer

\* One turn of TxPath::post.
Post(d, s, n) ==
  /\ txPc = "post" /\ txState[s] = "free"
  /\ \/ /\ Duplicate(d)
        /\ faults' = faults + n
        /\ UNCHANGED <<txPosted, txState, inFlight, freeRing>>
     \/ /\ ~Duplicate(d) /\ ~Sendable(d)
        /\ PostBack(d, n)
        /\ UNCHANGED <<txPosted, txState, inFlight>>
     \/ /\ ~Duplicate(d) /\ Sendable(d)
        /\ txPosted' = [txPosted EXCEPT ![s] = {d.buffer}]
        /\ txState' = Added(txState, s)
        /\ inFlight' = [inFlight EXCEPT ![d.buffer] = TRUE]
        /\ faults' = faults + n
        /\ UNCHANGED freeRing
  /\ txLeft' = txLeft - 1 /\ txPc' = IF txLeft = 1 THEN "reap" ELSE "post"
  /\ UNCHANGED <<ledger, rxQueue, txUsed, rxRing, notified, receiver, forwarder>>

PostOne(s) == /\ txRing # <<>> /\ Post(Head(txRing), s, 0)
              /\ txRing' = Tail(txRing)
PostStray(d, s) == Post(d, s, 1) /\ UNCHANGED txRing

PostDone ==
  /\ txPc = "post"
  /\ txRing = <<>> \/ \A s \in TxSlot : txState[s] # "free"
  /\ txPc' = "reap" /\ txLeft' = 0
  /\ UNCHANGED <<ledger, rxQueue, txQueue, rxRing, txRing, freeRing, notified,
                 receiver, forwarder, faults>>

-----------------------------------------------------------------------------
(* The devices, and the neighbours outside this direction *)

Completed(used, s) == \E i \in 1 .. Len(used) : used[i].id = s
Entry(id, runt) == [id |-> id, runt |-> runt]

\* A frame arrives: the device fills a posted buffer and completes it.
Receive(s, runt) ==
  /\ rxState[s] = "posted" /\ ~Completed(rxUsed, s) /\ Len(rxUsed) < RxQ
  /\ rxUsed' = Append(rxUsed, Entry(s, runt))
  /\ UNCHANGED <<ledger, rxPosted, rxState, txQueue, rxRing, txRing, freeRing,
                 notified, receiver, transmitter, forwarder, faults>>

\* The device has sent a frame.
Transmitted(s) ==
  /\ txState[s] = "posted" /\ ~Completed(txUsed, s) /\ Len(txUsed) < TxQ
  /\ txUsed' = Append(txUsed, Entry(s, FALSE))
  /\ UNCHANGED <<ledger, rxQueue, txPosted, txState, inFlight, rxRing, txRing,
                 freeRing, notified, receiver, transmitter, forwarder, faults>>

\* A completion the device did not earn: one it has already given, or one for
\* a descriptor that is not posted, or that is none of the queue's.
StrayReceive(id) ==
  /\ Len(rxUsed) < RxQ /\ rxUsed' = Append(rxUsed, Entry(id, FALSE))
  /\ faults' = faults + 1
  /\ UNCHANGED <<ledger, rxPosted, rxState, txQueue, rxRing, txRing, freeRing,
                 notified, receiver, transmitter, forwarder>>

StrayTransmitted(id) ==
  /\ Len(txUsed) < TxQ /\ txUsed' = Append(txUsed, Entry(id, FALSE))
  /\ faults' = faults + 1
  /\ UNCHANGED <<ledger, rxQueue, txPosted, txState, inFlight, rxRing, txRing,
                 freeRing, notified, receiver, transmitter, forwarder>>

-----------------------------------------------------------------------------
ReceiverStep == \/ ReclaimOne \/ ReclaimDone \/ RefillDone \/ DrainDone
                \/ \E s \in RxSlot : RefillOne(s)
                \/ \E k \in 1 .. Len(rxUsed) : DrainOne(k)
ForwarderStep == \/ Wake \/ RouteDone
                 \/ \E transmit \in Transmits : RouteOne(transmit)
TransmitterStep == \/ ReapDone \/ PostDone
                   \/ \E k \in 1 .. Len(txUsed) : ReapOne(k)
                   \/ \E s \in TxSlot : PostOne(s)

Stray ==
  \/ \E id \in StrayIds : StrayReceive(id) \/ StrayTransmitted(id)
  \/ \E b \in StrayIndices :
       \/ ReclaimStray(b)
       \/ \E ok \in BOOLEAN :
            \/ \E transmit \in Transmits : RouteStray(Descriptor(b, ok), transmit)
            \/ \E s \in TxSlot : PostStray(Descriptor(b, ok), s)

Next ==
  /\ \/ ReceiverStep \/ ForwarderStep \/ TransmitterStep
     \/ \E s \in RxSlot, runt \in BOOLEAN : Receive(s, runt)
     \/ \E s \in TxSlot : Transmitted(s)
     \/ Stray
  /\ faults' <= MaxFaults

\* The drivers poll in a busy loop; a notified forwarder is scheduled and its
\* entry point runs to its end; the sending device sends every frame it is given.
\* It is asked only before the first fault, after which nothing is promised.
Fairness == /\ WF_vars(faults = 0 /\ ReceiverStep)
            /\ WF_vars(faults = 0 /\ ForwarderStep)
            /\ WF_vars(faults = 0 /\ TransmitterStep)
            /\ \A s \in TxSlot : WF_vars(faults = 0 /\ Transmitted(s))

Spec == Init /\ [][Next]_vars
FairSpec == Spec /\ Fairness
-----------------------------------------------------------------------------
(* Properties *)

Free(b) == \E i \in 0 .. top - 1 : indices[i] = b
Posted(b) == \E s \in RxSlot : b \in rxPosted[s]

\* FreeList and PoolOwner never disagree and never count a buffer twice,
\* whatever the device completes and whatever comes back on the free ring:
\* each buffer is free once, or posted to the receiving device in one slot,
\* or lent, and `outstanding` is exactly "not free".  So `release` never
\* meets a token its ledger refuses, and a return can never put a buffer the
\* device may still write on the free stack.
SingleOwner ==
  /\ \A i, j \in 0 .. top - 1 : indices[i] = indices[j] => i = j
  /\ \A s, t \in RxSlot : s # t => rxPosted[s] \cap rxPosted[t] = {}
  /\ \A b \in Buffer :
       /\ outstanding[b] <=> ~Free(b)
       /\ Free(b) => ~Posted(b) /\ ~lent[b]
       /\ Posted(b) => ~lent[b]
       /\ Free(b) \/ Posted(b) \/ lent[b]

\* The drivers' own maps and the virtqueues agree: a slot holds a buffer, or a
\* descriptor, exactly while its virtqueue has it posted, the in-flight set is
\* the set of buffers at the sending device, and none is there twice.  So no
\* completion finds an empty slot and no posting displaces another, the
\* InvariantFaults both paths count.
PathsAgree ==
  /\ \A s \in RxSlot : rxState[s] = "posted" <=> rxPosted[s] # {}
  /\ \A s \in TxSlot : txState[s] = "posted" <=> txPosted[s] # {}
  /\ \A b \in Buffer :
       inFlight[b] <=> \E s \in TxSlot : b \in txPosted[s]
  /\ \A s, t \in TxSlot : s # t => txPosted[s] \cap txPosted[t] = {}

Carried(ring, b) == {i \in 1 .. Len(ring) : ring[i].buffer = b}
Sending(b) == {s \in TxSlot : b \in txPosted[s]}

\* Without a fault the loan is exact: a lent buffer is in one place of the
\* round trip and a buffer that is not lent is in none.  No ring was full
\* when a hand-over needed it, no verdict cost the pool a buffer, and no
\* buffer the sending device reads is one the receiving device may write.
LoanIsExact ==
  faults = 0 =>
    \A b \in Buffer :
      Cardinality(Carried(rxRing, b)) + Cardinality(Carried(txRing, b))
        + Cardinality({i \in 1 .. Len(freeRing) : freeRing[i] = b}) + Cardinality(Sending(b))
        = IF lent[b] THEN 1 ELSE 0

\* Without a fault every lent buffer comes back: the one notification of a
\* drain, which the forwarder may be polling past, is never lost.
LoanIsReturned == \A b \in Buffer : []<>(~lent[b] \/ faults > 0)
=============================================================================
