------------------------------ MODULE SpscRing ------------------------------
(***************************************************************************)
(* The single-producer single-consumer descriptor ring every pair of       *)
(* dataplane domains shares (datad/crates/queue/src/lib.rs).               *)
(*                                                                         *)
(* The ring is shared memory: a head cursor the consumer publishes, a tail *)
(* cursor the producer publishes, and CAP slots of which CAP - 1 are       *)
(* usable.  Each side keeps its own position in private memory and never   *)
(* reads its published cursor back.  A slot is several relaxed atomics     *)
(* stored and loaded one at a time; the release store of the cursor behind *)
(* them orders them, so here each access is a step of its own, in program  *)
(* order.                                                                  *)
(*                                                                         *)
(* The n-th descriptor the producer hands over (counting from 0) carries n *)
(* in every field, so a descriptor names the enqueue it came from and a    *)
(* torn one is visible.                                                    *)
(***************************************************************************)
EXTENDS Integers

CONSTANTS CAP,      \* slots of the ring; a power of two, at least 2
          NF,       \* fields of a slot: buffer, offset, len, verdict
          MaxDrain  \* largest limit a caller hands to drain

ASSUME CapAssumption == CAP \in Nat /\ CAP >= 2
ASSUME FieldsAssumption == NF \in Nat /\ NF >= 1
ASSUME DrainAssumption == MaxDrain \in Nat

VARIABLES
  head, tail,           \* the published cursors, in the shared region
  slots,                \* the shared slots: index -> field -> value
  pTail, pPc, pField,   \* RingProducer: position, step, next field to store
  cHead, cPc, cField,   \* RingConsumer: position, step, next field to load
  cItem,                \* the descriptor being assembled by Slot::load
  remaining,            \* Drain::remaining
  sent, got             \* history: descriptors published, descriptors returned

producer == <<tail, pTail, pPc, pField, sent>>
consumer == <<head, cHead, cPc, cField, cItem, remaining, got>>
ringVars == <<head, tail, slots, pTail, pPc, pField, cHead, cPc, cField, cItem,
          remaining, sent, got>>

Index == 0 .. CAP - 1
Field == 1 .. NF

\* A cursor masked into range: `x & MASK`, CAP being a power of two.
Masked(x) == x % CAP

RingInit ==
  /\ head = 0 /\ tail = 0
  /\ slots = [i \in Index |-> [f \in Field |-> 0]]
  /\ pTail = 0 /\ pPc = "idle" /\ pField = 1
  /\ cHead = 0 /\ cPc = "idle" /\ cField = 1
  /\ cItem = [f \in Field |-> 0]
  /\ remaining = 0
  /\ sent = 0 /\ got = 0

-----------------------------------------------------------------------------
(* RingProducer::try_enqueue *)

\* Mutant: the fullness test dropped.
EnqueueTestDropped ==
  /\ pPc = "idle"
  /\ pPc' = "store" /\ pField' = 1
  /\ UNCHANGED <<tail, slots, pTail, sent, consumer>>

\* The fullness test: `next == peer_head()` hands the descriptor back and
\* touches nothing, so only the other outcome is a step.
EnqueueTest ==
  /\ pPc = "idle"
  /\ Masked(pTail + 1) # Masked(head)
  /\ pPc' = "store" /\ pField' = 1
  /\ UNCHANGED <<tail, slots, pTail, sent, consumer>>

\* Slot::store, one relaxed store per field.
EnqueueStore ==
  /\ pPc = "store"
  /\ slots' = [slots EXCEPT ![pTail][pField] = sent]
  /\ pField' = pField + 1
  /\ pPc' = IF pField = NF THEN "publish" ELSE "store"
  /\ UNCHANGED <<tail, pTail, sent, consumer>>

\* Mutant: the private position moves and is never published.
EnqueuePublishPrivate ==
  /\ pPc = "publish"
  /\ pTail' = Masked(pTail + 1)
  /\ sent' = sent + 1
  /\ pPc' = "idle"
  /\ UNCHANGED <<slots, tail, pField, consumer>>

\* The private position moves and the release store publishes it.
EnqueuePublish ==
  /\ pPc = "publish"
  /\ pTail' = Masked(pTail + 1)
  /\ tail' = Masked(pTail + 1)
  /\ sent' = sent + 1
  /\ pPc' = "idle"
  /\ UNCHANGED <<slots, pField, consumer>>

-----------------------------------------------------------------------------
(* RingConsumer::drain and try_dequeue; try_dequeue alone is a drain of 1 *)

DrainStart(limit) ==
  /\ cPc = "idle" /\ remaining = 0
  /\ remaining' = limit
  /\ UNCHANGED <<head, slots, cHead, cPc, cField, cItem, got, producer>>

\* `self.head == self.peer_tail()`: nothing queued at this instant, so the
\* iterator answers None and the caller's loop ends.
DequeueEmpty ==
  /\ cPc = "idle" /\ remaining > 0
  /\ cHead = Masked(tail)
  /\ remaining' = 0
  /\ UNCHANGED <<head, slots, cHead, cPc, cField, cItem, got, producer>>

DequeueTest ==
  /\ cPc = "idle" /\ remaining > 0
  /\ cHead # Masked(tail)
  /\ cPc' = "load" /\ cField' = 1
  /\ UNCHANGED <<head, slots, cHead, cItem, remaining, got, producer>>

\* Slot::load, one relaxed load per field.
DequeueLoad ==
  /\ cPc = "load"
  /\ cItem' = [cItem EXCEPT ![cField] = slots[cHead][cField]]
  /\ cField' = cField + 1
  /\ cPc' = IF cField = NF THEN "publish" ELSE "load"
  /\ UNCHANGED <<head, slots, cHead, remaining, got, producer>>

\* The private position moves, the release store publishes it, and the
\* descriptor is returned to the caller.
DequeuePublish ==
  /\ cPc = "publish"
  /\ cHead' = Masked(cHead + 1)
  /\ head' = Masked(cHead + 1)
  /\ got' = got + 1
  /\ remaining' = remaining - 1
  /\ cPc' = "idle"
  /\ UNCHANGED <<slots, cField, cItem, producer>>

ProducerStep == EnqueueTest \/ EnqueueStore \/ EnqueuePublish
ConsumerStep ==
  \/ \E limit \in 1 .. MaxDrain : DrainStart(limit)
  \/ DequeueEmpty \/ DequeueTest \/ DequeueLoad \/ DequeuePublish

RingNext == ProducerStep \/ ConsumerStep

RingSpec == RingInit /\ [][RingNext]_ringVars

-----------------------------------------------------------------------------
(* Properties *)

\* Every variable of the ring has its type; both private positions index a
\* slot, which is what the unchecked slice index in try_enqueue rests on.
TypeOK ==
  /\ head \in Index /\ tail \in Index
  /\ slots \in [Index -> [Field -> Nat]]
  /\ pTail \in Index /\ pPc \in {"idle", "store", "publish"}
  /\ pField \in 1 .. NF + 1
  /\ cHead \in Index /\ cPc \in {"idle", "load", "publish"}
  /\ cField \in 1 .. NF + 1
  /\ cItem \in [Field -> Nat]
  /\ remaining \in Nat
  /\ sent \in Nat /\ got \in Nat

\* The k-th descriptor try_dequeue returns is the k-th one try_enqueue took,
\* whole: no descriptor is lost, duplicated, reordered or torn between two
\* enqueues, whichever way the two domains' field accesses interleave.
DeliveredInOrder ==
  cPc = "publish" => \A f \in Field : cItem[f] = got

\* While the producer stores into a slot and the consumer loads one, they are
\* at different slots: a descriptor is never overwritten under its reader.
SlotExclusion ==
  (pPc = "store" /\ cPc = "load") => pTail # cHead

\* The ring never holds more than the CAP - 1 descriptors `capacity` states
\* and never hands out one that was not published.
Occupancy == got <= sent /\ sent - got <= CAP - 1

\* What is published is eventually returned, the first descriptor and the first
\* one behind a ring that was full and wrapped, as long as the consuming domain
\* keeps being woken to drain.
Drained == \A n \in {1, CAP + 1} : (sent >= n) ~> (got >= n)
=============================================================================
