-------------------------- MODULE DataplaneProofs --------------------------
(***************************************************************************)
(* The rings of the dataplane and the buffers they carry.                  *)
(*                                                                         *)
(* The descriptor ring is safe for every capacity, every number of slot    *)
(* fields and every run length.  Who owns a buffer is settled for every    *)
(* size of the pool, the queues and the rings, and whatever the devices    *)
(* and the neighbours do: MaxFaults is any number.  The receiving driver's *)
(* books (LedgerInv) and the transmitting driver's (TransmitInv) are       *)
(* inductive each on its own, because what crosses a ring is checked       *)
(* against the reader's own books and never believed.                      *)
(***************************************************************************)
EXTENDS BufferLoan, SpscRing, FiniteSetTheorems, SequenceTheorems, TLAPS

USE ZenonT(60)

-----------------------------------------------------------------------------
(* The descriptor ring *)

\* The index x slots round the ring, for x below two laps: the masked cursor
\* without its modulus, which keeps every obligation linear.
Wrap(x) == IF x < CAP THEN x ELSE x - CAP

\* The descriptors in flight, from the consumer's position up to the
\* producer's, are the consecutive numbers got .. sent - 1.
InFlight ==
  \A j \in 0 .. sent - got - 1 : \A f \in Field :
     slots[Wrap(cHead + j)][f] = got + j

\* The published cursors are the private positions, and the producer's is
\* sent - got slots ahead of the consumer's.
Cursors ==
  /\ head = cHead /\ tail = pTail
  /\ pTail = Wrap(cHead + (sent - got))

\* A producer past its fullness test has a free slot; a consumer past its
\* emptiness test has a full one.
Reserved ==
  /\ pPc # "idle" => sent - got <= CAP - 2
  /\ cPc # "idle" => got < sent

\* The fields already stored belong to the descriptor being handed over, and
\* the fields already loaded to the one being returned.
Partial ==
  /\ pPc = "store" => /\ pField \in Field
                      /\ \A f \in 1 .. pField - 1 : slots[pTail][f] = sent
  /\ pPc = "publish" => \A f \in Field : slots[pTail][f] = sent
  /\ cPc = "load" => /\ cField \in Field
                     /\ \A f \in 1 .. cField - 1 : cItem[f] = got
  /\ cPc = "publish" => \A f \in Field : cItem[f] = got

\* A drain in progress has a descriptor left to return.
Budget == cPc # "idle" => remaining > 0

\* The inductive invariant of the ring.
RingInv == TypeOK /\ Occupancy /\ Cursors /\ InFlight /\ Reserved /\ Partial
        /\ Budget

\* `(x + 1) & MASK` steps an index to its neighbour, round the end.
LEMMA MaskedStep ==
  ASSUME NEW x \in Index
  PROVE  /\ Masked(x + 1) = Wrap(x + 1)
         /\ Masked(x + 1) \in Index
         /\ Masked(x) = x
  <1>1. CASE x + 1 = CAP
    <2>1. CAP % CAP = 0 BY SMTT(60), CapAssumption
    <2>2. x % CAP = x BY SMTT(60), CapAssumption DEF Index
    <2> QED
      BY SMTT(60), <1>1, <2>1, <2>2, CapAssumption DEF Masked, Wrap, Index
  <1>2. CASE x + 1 # CAP
    <2>1. x + 1 < CAP BY SMTT(60), <1>2, CapAssumption DEF Index
    <2>2. (x + 1) % CAP = x + 1 BY SMTT(60), <2>1, CapAssumption DEF Index
    <2>3. x % CAP = x BY SMTT(60), CapAssumption DEF Index
    <2> QED
      BY SMTT(60), <2>1, <2>2, <2>3, CapAssumption DEF Masked, Wrap, Index
  <1> QED BY <1>1, <1>2

\* The empty ring of RingInit satisfies the invariant.
LEMMA InitRingInv == RingInit => RingInv
  <1> SUFFICES ASSUME RingInit PROVE RingInv OBVIOUS
  <1>1. TypeOK
    BY SMTT(60), CapAssumption, FieldsAssumption DEF RingInit, TypeOK, Index, Field
  <1>2. Occupancy BY SMTT(60), CapAssumption DEF RingInit, Occupancy
  <1>3. Cursors BY SMTT(60), CapAssumption DEF RingInit, Cursors, Wrap
  <1>4. InFlight BY SMTT(60) DEF RingInit, InFlight
  <1>5. Reserved /\ Partial /\ Budget BY DEF RingInit, Reserved, Partial, Budget
  <1> QED BY <1>1, <1>2, <1>3, <1>4, <1>5 DEF RingInv

\* A passed fullness test leaves a slot free: the one place the producer
\* reads the consumer's cursor.
LEMMA EnqueueTestRingInv == RingInv /\ EnqueueTest => RingInv'
  <1> SUFFICES ASSUME RingInv, EnqueueTest PROVE RingInv' OBVIOUS
  <1> USE DEF RingInv
  <1>1. TypeOK'
    BY SMTT(60), CapAssumption, FieldsAssumption
       DEF EnqueueTest, TypeOK, consumer
  <1>2. sent - got <= CAP - 2
    <2>1. pTail \in Index /\ head \in Index BY DEF TypeOK
    <2>2. Wrap(pTail + 1) # head BY <2>1, MaskedStep DEF EnqueueTest
    <2> QED BY SMTT(60), <2>1, <2>2, CapAssumption
            DEF Cursors, Wrap, Occupancy, TypeOK, Index
  <1>3. (Occupancy /\ Cursors /\ InFlight /\ Budget)'
    BY DEF EnqueueTest, consumer, Occupancy, Cursors, InFlight, Budget, Wrap
  <1>4. Reserved' BY <1>2 DEF EnqueueTest, consumer, Reserved
  <1>5. Partial'
    BY SMTT(60), FieldsAssumption DEF EnqueueTest, consumer, Partial, Field
  <1> QED BY <1>1, <1>3, <1>4, <1>5

\* Storing a field touches no descriptor in flight, because the slot written
\* lies beyond the last of them and short of the first.
LEMMA EnqueueStoreRingInv == RingInv /\ EnqueueStore => RingInv'
  <1> SUFFICES ASSUME RingInv, EnqueueStore PROVE RingInv' OBVIOUS
  <1> USE DEF RingInv
  <1>a. /\ slots \in [Index -> [Field -> Nat]]
        /\ pTail \in Index /\ pField \in Field
        /\ slots' = [slots EXCEPT ![pTail] =
                        [slots[pTail] EXCEPT ![pField] = sent]]
    BY DEF TypeOK, Partial, EnqueueStore
  <1>b. \A i \in Index : i # pTail => slots'[i] = slots[i] BY <1>a
  <1>c. /\ slots'[pTail][pField] = sent
        /\ \A f \in Field : f # pField => slots'[pTail][f] = slots[pTail][f]
    BY <1>a
  <1>d. slots' \in [Index -> [Field -> Nat]]
    <2>1. [slots[pTail] EXCEPT ![pField] = sent] \in [Field -> Nat]
      BY <1>a DEF TypeOK
    <2> QED BY <1>a, <2>1
  <1>1. TypeOK'
    <2>1. pField' \in 1 .. NF + 1
      BY SMTT(60), <1>a, FieldsAssumption DEF EnqueueStore, Field
    <2> QED BY <1>d, <2>1 DEF EnqueueStore, TypeOK, consumer
  <1>2. (Occupancy /\ Cursors /\ Budget)'
    BY DEF EnqueueStore, consumer, Occupancy, Cursors, Budget, Wrap
  <1>3. InFlight'
    <2> SUFFICES ASSUME NEW j \in 0 .. sent - got - 1, NEW f \in Field
                 PROVE  slots'[Wrap(cHead + j)][f] = got + j
      BY SMTT(60) DEF InFlight, EnqueueStore, consumer, Wrap
    <2>1. Wrap(cHead + j) \in Index /\ Wrap(cHead + j) # pTail
      BY SMTT(60), CapAssumption
         DEF Wrap, Index, Cursors, Occupancy, Reserved, EnqueueStore, TypeOK
    <2>2. slots[Wrap(cHead + j)][f] = got + j BY DEF InFlight
    <2> QED BY <2>1, <2>2, <1>b
  <1>4. Reserved' BY DEF EnqueueStore, consumer, Reserved
  <1>5. Partial'
    <2>1. \A f \in 1 .. pField : slots'[pTail][f] = sent
      BY SMTT(60), <1>a, <1>c DEF Partial, EnqueueStore, Field
    <2>2. pField # NF => pField + 1 \in Field
      BY SMTT(60), <1>a, FieldsAssumption DEF Field
    <2> QED BY SMTT(60), <1>a, <2>1, <2>2, FieldsAssumption
            DEF EnqueueStore, consumer, Partial, Field, TypeOK
  <1> QED BY <1>1, <1>2, <1>3, <1>4, <1>5

\* Publishing the tail adds exactly the stored descriptor to those in flight.
LEMMA EnqueuePublishRingInv == RingInv /\ EnqueuePublish => RingInv'
  <1> SUFFICES ASSUME RingInv, EnqueuePublish PROVE RingInv' OBVIOUS
  <1> USE DEF RingInv
  <1>a. /\ pTail \in Index /\ Masked(pTail + 1) \in Index
        /\ Masked(pTail + 1) = Wrap(pTail + 1)
    BY MaskedStep DEF TypeOK
  <1>b. /\ pTail' = Wrap(pTail + 1) /\ tail' = Wrap(pTail + 1)
        /\ sent' = sent + 1 /\ got' = got /\ cHead' = cHead
        /\ head' = head /\ slots' = slots
    BY <1>a DEF EnqueuePublish, consumer
  <1>1. TypeOK' BY SMTT(60), <1>a DEF EnqueuePublish, TypeOK, consumer
  <1>2. Occupancy'
    BY SMTT(60), CapAssumption
       DEF EnqueuePublish, consumer, Occupancy, Reserved, TypeOK
  <1>3. Cursors'
    <2>1. Wrap(pTail + 1) = Wrap(cHead + (sent + 1 - got))
      BY SMTT(60), CapAssumption
         DEF Wrap, Index, Cursors, Occupancy, Reserved, EnqueuePublish, TypeOK
    <2> QED BY SMTT(60), <1>b, <2>1 DEF Cursors, TypeOK
  <1>4. InFlight'
    <2> SUFFICES ASSUME NEW j \in 0 .. sent + 1 - got - 1, NEW f \in Field
                 PROVE  slots[Wrap(cHead + j)][f] = got + j
      BY SMTT(60), <1>b DEF InFlight, TypeOK
    <2>1. CASE j = sent - got
      BY SMTT(60), <2>1 DEF Cursors, Partial, EnqueuePublish, TypeOK
    <2>2. CASE j # sent - got
      <3>1. j \in 0 .. sent - got - 1 BY SMTT(60), <2>2 DEF TypeOK
      <3> QED BY <3>1 DEF InFlight
    <2> QED BY <2>1, <2>2
  <1>5. (Reserved /\ Partial /\ Budget)'
    BY SMTT(60) DEF EnqueuePublish, consumer, Reserved, Partial, Budget, TypeOK
  <1> QED BY <1>1, <1>2, <1>3, <1>4, <1>5

\* Beginning a drain, or finding the ring empty, moves only the budget.
LEMMA DrainRingInv ==
  RingInv /\ ((\E limit \in 1 .. MaxDrain : DrainStart(limit)) \/ DequeueEmpty)
    => RingInv'
  <1> SUFFICES ASSUME RingInv,
                      \/ \E limit \in 1 .. MaxDrain : DrainStart(limit)
                      \/ DequeueEmpty
               PROVE  RingInv'
    OBVIOUS
  <1>1. /\ UNCHANGED <<head, slots, cHead, cPc, cField, cItem, got, producer>>
        /\ remaining' \in Nat /\ cPc = "idle"
    BY SMTT(60), DrainAssumption DEF DrainStart, DequeueEmpty
  <1> QED BY <1>1 DEF RingInv, TypeOK, Occupancy, Cursors, InFlight, Reserved,
                      Partial, Budget, Wrap, producer

\* A passed emptiness test means a published descriptor at the head.
LEMMA DequeueTestRingInv == RingInv /\ DequeueTest => RingInv'
  <1> SUFFICES ASSUME RingInv, DequeueTest PROVE RingInv' OBVIOUS
  <1> USE DEF RingInv
  <1>1. TypeOK'
    BY SMTT(60), FieldsAssumption DEF DequeueTest, TypeOK, producer
  <1>2. got < sent
    <2>1. tail \in Index /\ cHead \in Index BY DEF TypeOK
    <2>2. cHead # tail BY <2>1, MaskedStep DEF DequeueTest
    <2> QED BY SMTT(60), <2>1, <2>2, CapAssumption
            DEF Cursors, Wrap, Occupancy, TypeOK, Index
  <1>3. (Occupancy /\ Cursors /\ InFlight /\ Budget)'
    BY DEF DequeueTest, producer, Occupancy, Cursors, InFlight, Budget, Wrap
  <1>4. Reserved' BY <1>2 DEF DequeueTest, producer, Reserved
  <1>5. Partial'
    BY SMTT(60), FieldsAssumption DEF DequeueTest, producer, Partial, Field
  <1> QED BY <1>1, <1>3, <1>4, <1>5

\* Loading a field reads the oldest descriptor in flight.
LEMMA DequeueLoadRingInv == RingInv /\ DequeueLoad => RingInv'
  <1> SUFFICES ASSUME RingInv, DequeueLoad PROVE RingInv' OBVIOUS
  <1> USE DEF RingInv
  <1>a. /\ cField \in Field /\ cItem \in [Field -> Nat] /\ cHead \in Index
        /\ slots \in [Index -> [Field -> Nat]]
        /\ cItem' = [cItem EXCEPT ![cField] = slots[cHead][cField]]
    BY DEF TypeOK, Partial, DequeueLoad
  <1>b. slots[cHead][cField] = got
    <2>1. 0 \in 0 .. sent - got - 1 /\ Wrap(cHead + 0) = cHead
      BY SMTT(60), CapAssumption DEF Reserved, DequeueLoad, TypeOK, Wrap, Index
    <2>2. slots[Wrap(cHead + 0)][cField] = got + 0 BY <1>a, <2>1 DEF InFlight
    <2> QED BY SMTT(60), <2>1, <2>2 DEF TypeOK
  <1>1. TypeOK'
    <2>1. cField' \in 1 .. NF + 1
      BY SMTT(60), <1>a, FieldsAssumption DEF DequeueLoad, Field
    <2>2. cItem' \in [Field -> Nat] BY <1>a, <1>b DEF TypeOK
    <2> QED BY <2>1, <2>2 DEF DequeueLoad, TypeOK, producer
  <1>2. (Occupancy /\ Cursors /\ InFlight /\ Budget)'
    BY DEF DequeueLoad, producer, Occupancy, Cursors, InFlight, Budget, Wrap
  <1>3. Reserved' BY DEF DequeueLoad, producer, Reserved
  <1>4. Partial'
    <2>1. \A f \in 1 .. cField : cItem'[f] = got
      BY SMTT(60), <1>a, <1>b DEF Partial, DequeueLoad, Field
    <2>2. cField # NF => cField + 1 \in Field
      BY SMTT(60), <1>a, FieldsAssumption DEF Field
    <2> QED BY SMTT(60), <1>a, <2>1, <2>2, FieldsAssumption
            DEF DequeueLoad, producer, Partial, Field, TypeOK
  <1> QED BY <1>1, <1>2, <1>3, <1>4

\* Publishing the head drops exactly the returned descriptor.
LEMMA DequeuePublishRingInv == RingInv /\ DequeuePublish => RingInv'
  <1> SUFFICES ASSUME RingInv, DequeuePublish PROVE RingInv' OBVIOUS
  <1> USE DEF RingInv
  <1>a. /\ cHead \in Index /\ Masked(cHead + 1) \in Index
        /\ Masked(cHead + 1) = Wrap(cHead + 1)
        /\ got < sent
    BY MaskedStep DEF TypeOK, Reserved, DequeuePublish
  <1>1. TypeOK' BY SMTT(60), <1>a DEF DequeuePublish, TypeOK, producer, Budget
  <1>2. Occupancy'
    BY SMTT(60), <1>a, CapAssumption
       DEF DequeuePublish, producer, Occupancy, TypeOK
  <1>3. Cursors'
    <2>1. Wrap(Wrap(cHead + 1) + (sent - (got + 1))) = pTail
      BY SMTT(60), <1>a, CapAssumption
         DEF Wrap, Index, Cursors, Occupancy, TypeOK
    <2> QED BY <1>a, <2>1 DEF DequeuePublish, producer, Cursors, Wrap
  <1>4. InFlight'
    <2> SUFFICES ASSUME NEW j \in 0 .. sent - (got + 1) - 1, NEW f \in Field
                 PROVE  slots[Wrap(Wrap(cHead + 1) + j)][f] = got + 1 + j
      BY SMTT(60), <1>a DEF InFlight, DequeuePublish, producer, Wrap
    <2>1. j + 1 \in 0 .. sent - got - 1 BY SMTT(60) DEF TypeOK
    <2>2. Wrap(Wrap(cHead + 1) + j) = Wrap(cHead + (j + 1))
      BY SMTT(60), <1>a, CapAssumption DEF Wrap, Index, Occupancy, TypeOK
    <2>3. slots[Wrap(cHead + (j + 1))][f] = got + (j + 1)
      BY <2>1 DEF InFlight
    <2> QED BY SMTT(60), <2>2, <2>3 DEF TypeOK
  <1>5. (Reserved /\ Partial /\ Budget)'
    BY SMTT(60), <1>a, CapAssumption
       DEF DequeuePublish, producer, Reserved, Partial, Budget, TypeOK
  <1> QED BY <1>1, <1>2, <1>3, <1>4, <1>5

\* Every behaviour of the ring satisfies the inductive invariant.
THEOREM RingInvariance == RingSpec => []RingInv
  <1>1. RingInv /\ UNCHANGED ringVars => RingInv'
    BY DEF ringVars, RingInv, TypeOK, Occupancy, Cursors, InFlight, Reserved,
           Partial, Budget, Wrap
  <1>2. RingInv /\ RingNext => RingInv'
    BY EnqueueTestRingInv, EnqueueStoreRingInv, EnqueuePublishRingInv, DrainRingInv,
       DequeueTestRingInv, DequeueLoadRingInv, DequeuePublishRingInv
       DEF RingNext, ProducerStep, ConsumerStep
  <1> QED BY InitRingInv, <1>1, <1>2, PTL DEF RingSpec

\* No descriptor is lost, duplicated, reordered or torn by try_enqueue and
\* try_dequeue, for every capacity and every number of slot fields.
THEOREM RingDelivers == RingSpec => []DeliveredInOrder
  <1>1. RingInv => DeliveredInOrder BY DEF RingInv, Partial, DeliveredInOrder
  <1> QED BY RingInvariance, <1>1, PTL

\* Slot::store and Slot::load never meet at one slot.
THEOREM RingExclusion == RingSpec => []SlotExclusion
  <1>1. RingInv => SlotExclusion
    BY SMTT(60), CapAssumption
       DEF RingInv, SlotExclusion, Cursors, Reserved, Wrap,
       Occupancy, TypeOK, Index
  <1> QED BY RingInvariance, <1>1, PTL

\* The ring holds between none and CAP - 1 descriptors.
THEOREM RingOccupancy == RingSpec => [](TypeOK /\ Occupancy)
  <1>1. RingInv => TypeOK /\ Occupancy BY DEF RingInv
  <1> QED BY RingInvariance, <1>1, PTL

-----------------------------------------------------------------------------
(* The buffers *)

Status == {"free", "posted"}

LedgerTypes ==
  /\ indices \in [Buffer -> Buffer] /\ top \in 0 .. N
  /\ outstanding \in [Buffer -> BOOLEAN] /\ lent \in [Buffer -> BOOLEAN]
  /\ rxPosted \in [RxSlot -> SUBSET Buffer] /\ rxState \in [RxSlot -> Status]

\* A slot names one buffer, and names one exactly while its descriptor is posted.
SlotsAgree(posted, state) ==
  \A s \in DOMAIN posted : /\ \A a, b \in posted[s] : a = b
                           /\ state[s] = "posted" <=> posted[s] # {}

LedgerInv == LedgerTypes /\ SlotsAgree(rxPosted, rxState) /\ SingleOwner

TransmitTypes ==
  /\ txPosted \in [TxSlot -> SUBSET Buffer] /\ txState \in [TxSlot -> Status]
  /\ inFlight \in [Buffer -> BOOLEAN]

TransmitAgrees ==
  /\ \A b \in Buffer : inFlight[b] <=> \E s \in TxSlot : b \in txPosted[s]
  /\ \A s, t \in TxSlot : s # t => txPosted[s] \cap txPosted[t] = {}

TransmitInv == TransmitTypes /\ SlotsAgree(txPosted, txState) /\ TransmitAgrees

-----------------------------------------------------------------------------
(* The free stack *)

\* The free stack has room for a buffer that is not on it: FreeList::accept
\* refuses no token as ListFull, so `release` loses none.
LEMMA Room ==
  ASSUME LedgerTypes, NEW b \in Buffer, ~Free(b),
         \A i, j \in 0 .. top - 1 : indices[i] = indices[j] => i = j
  PROVE  top < N
<1> SUFFICES ASSUME top = N PROVE FALSE
  BY SMTT(60), PoolAssumption DEF LedgerTypes
<1> DEFINE others == Buffer \ {b}
<1>1. IsFiniteSet(Buffer) /\ Cardinality(Buffer) = N
  BY SMTT(60), FS_Interval, PoolAssumption DEF Buffer
<1>2. IsFiniteSet(others) /\ Cardinality(others) = N - 1
  BY <1>1, FS_RemoveElement
<1>3. indices \in [Buffer -> others]
  BY DEF LedgerTypes, Free, Buffer
<1>4. \E i, j \in Buffer : i # j /\ indices[i] = indices[j]
  BY SMTT(60), <1>1, <1>2, <1>3, FS_PigeonHole, PoolAssumption
<1> QED
  BY <1>4, PoolAssumption DEF Buffer

\* What popping does to the set of free buffers.
LEMMA PopFree ==
  ASSUME LedgerTypes, SingleOwner, Pop
  PROVE  /\ indices[top - 1] \in Buffer /\ Free(indices[top - 1])
         /\ top' \in 0 .. N /\ indices' = indices
         /\ outstanding' = [outstanding EXCEPT ![indices[top - 1]] = TRUE]
         /\ \A i, j \in 0 .. top' - 1 : indices'[i] = indices'[j] => i = j
         /\ \A b \in Buffer : Free(b)' <=> Free(b) /\ b # indices[top - 1]
<1>1. top - 1 \in Buffer /\ top - 1 \in 0 .. top - 1 /\ top' = top - 1
  BY SMTT(60), PoolAssumption DEF LedgerTypes, Pop, Buffer
<1>2. indices[top - 1] \in Buffer /\ Free(indices[top - 1])
  BY <1>1 DEF LedgerTypes, Free
<1>3. \A i, j \in 0 .. top' - 1 : indices'[i] = indices'[j] => i = j
  BY SMTT(60), <1>1 DEF LedgerTypes, SingleOwner, Pop
<1>4. ASSUME NEW b \in Buffer PROVE Free(b)' <=> Free(b) /\ b # indices[top - 1]
  <2>1. CASE b = indices[top - 1]
    BY SMTT(60), <2>1, <1>1 DEF LedgerTypes, SingleOwner, Pop, Free
  <2>2. CASE b # indices[top - 1]
    <3>1. \A i \in 0 .. top - 1 : indices[i] = b => i \in 0 .. top' - 1
      BY SMTT(60), <2>2, <1>1 DEF LedgerTypes
    <3> QED
      BY SMTT(60), <2>2, <3>1, <1>1 DEF LedgerTypes, Pop, Free
  <2> QED BY <2>1, <2>2
<1>5. top' \in 0 .. N
  BY SMTT(60), <1>1, PoolAssumption DEF Buffer
<1> QED
  BY <1>2, <1>3, <1>4, <1>5 DEF Pop

\* What pushing does, given a buffer that is not free.
LEMMA PushFree ==
  ASSUME LedgerTypes, SingleOwner, NEW b \in Buffer, ~Free(b), Push(b)
  PROVE  /\ top' \in 0 .. N /\ indices' \in [Buffer -> Buffer]
         /\ outstanding' = [outstanding EXCEPT ![b] = FALSE]
         /\ \A i, j \in 0 .. top' - 1 : indices'[i] = indices'[j] => i = j
         /\ \A c \in Buffer : Free(c)' <=> Free(c) \/ c = b
<1>0. top < N
  BY Room DEF SingleOwner
<1>1. top \in Buffer /\ top \in Nat /\ top' = top + 1 /\ top' \in 0 .. N
  BY SMTT(60), <1>0, PoolAssumption DEF LedgerTypes, Push, Buffer
<1>2. /\ indices' \in [Buffer -> Buffer] /\ indices'[top] = b
      /\ \A i \in 0 .. top - 1 : indices'[i] = indices[i]
      /\ \A i \in 0 .. top' - 1 : i = top \/ i \in 0 .. top - 1
  BY SMTT(60), <1>1 DEF LedgerTypes, Push, Buffer
<1>3. ASSUME NEW i \in 0 .. top' - 1, NEW j \in 0 .. top' - 1,
             indices'[i] = indices'[j]
      PROVE  i = j
  BY SMTT(60), <1>2, <1>3 DEF SingleOwner, Free
<1>4. ASSUME NEW c \in Buffer PROVE Free(c)' <=> Free(c) \/ c = b
  <2>1. top \in 0 .. top' - 1 /\ \A i \in 0 .. top - 1 : i \in 0 .. top' - 1
    BY SMTT(60), <1>1 DEF Buffer
  <2> QED
    BY <2>1, <1>2 DEF Free
<1> QED
  BY <1>1, <1>2, <1>3, <1>4 DEF Push

-----------------------------------------------------------------------------
(* The receiving driver's books *)

books == <<indices, top, outstanding, lent, rxPosted, rxState>>

\* Posting a fresh buffer to the receiving device moves it from free to posted.
LEMMA RefillKeeps ==
  ASSUME LedgerInv, NEW s \in RxSlot, RefillOne(s)
  PROVE  LedgerInv'
<1> DEFINE taken == indices[top - 1]
<1> USE DEF LedgerInv
<1>1. /\ Pop /\ rxState[s] = "free" /\ lent' = lent
      /\ rxPosted' = [rxPosted EXCEPT ![s] = {taken}]
      /\ rxState' = [rxState EXCEPT ![s] = "posted"]
  BY DEF RefillOne, Added
<1>2. /\ taken \in Buffer /\ Free(taken)
      /\ top' \in 0 .. N /\ indices' = indices
      /\ outstanding' = [outstanding EXCEPT ![taken] = TRUE]
      /\ \A i, j \in 0 .. top' - 1 : indices'[i] = indices'[j] => i = j
      /\ \A b \in Buffer : Free(b)' <=> Free(b) /\ b # taken
  BY <1>1, PopFree
<1>3. rxPosted[s] = {}
  BY <1>1 DEF SlotsAgree, LedgerTypes
<1>4. LedgerTypes'
  BY <1>1, <1>2 DEF LedgerTypes, Status
<1>5. \A b \in Buffer : Posted(b)' <=> Posted(b) \/ b = taken
  BY <1>1, <1>3 DEF LedgerTypes, Posted
<1>6. SlotsAgree(rxPosted, rxState)'
  BY <1>1 DEF SlotsAgree, LedgerTypes
<1>7. \A t, u \in RxSlot : t # u => rxPosted'[t] \cap rxPosted'[u] = {}
  <2>1. ~Posted(taken)
    BY <1>2 DEF SingleOwner
  <2> QED
    BY SMTT(60), <2>1, <1>1 DEF LedgerTypes, SingleOwner, Posted
<1>8. ASSUME NEW b \in Buffer
      PROVE  /\ outstanding'[b] <=> ~Free(b)'
             /\ Free(b)' => ~Posted(b)' /\ ~lent'[b]
             /\ Posted(b)' => ~lent'[b]
             /\ Free(b)' \/ Posted(b)' \/ lent'[b]
  <2>1. CASE b = taken
    BY <2>1, <1>1, <1>2, <1>5 DEF SingleOwner, LedgerTypes
  <2>2. CASE b # taken
    BY <2>2, <1>1, <1>2, <1>5 DEF SingleOwner, LedgerTypes
  <2> QED BY <2>1, <2>2
<1> QED
  BY <1>2, <1>4, <1>6, <1>7, <1>8 DEF SingleOwner

\* Taking a received buffer off the device moves it from posted to lent, or back.
LEMMA DrainKeeps ==
  ASSUME LedgerInv, NEW k \in 1 .. Len(rxUsed), DrainOne(k)
  PROVE  LedgerInv'
<1> DEFINE s == rxUsed[k].id
<1> USE DEF LedgerInv
<1>1. PICK b \in rxPosted[s] :
        /\ \/ Push(b) /\ lent' = lent
           \/ lent' = [lent EXCEPT ![b] = TRUE] /\ UNCHANGED <<indices, top, outstanding>>
        /\ rxPosted' = [rxPosted EXCEPT ![s] = {}]
        /\ rxState' = [rxState EXCEPT ![s] = "free"]
  BY DEF DrainOne, Lend, Recycled
<1>2. s \in RxSlot
  BY DEF DrainOne, Reaps, Accepted, LedgerTypes
<1>3. b \in Buffer /\ Posted(b) /\ ~Free(b) /\ ~lent[b] /\ outstanding[b]
  BY <1>2 DEF LedgerTypes, SingleOwner, Posted
<1>4. \A c \in Buffer : Posted(c)' <=> Posted(c) /\ c # b
  BY SMTT(60), <1>1, <1>2 DEF LedgerTypes, SingleOwner, SlotsAgree, Posted
<1>5. SlotsAgree(rxPosted, rxState)'
  BY <1>1, <1>2 DEF SlotsAgree, LedgerTypes
<1>6. \A t, u \in RxSlot : t # u => rxPosted'[t] \cap rxPosted'[u] = {}
  BY <1>1, <1>2 DEF LedgerTypes, SingleOwner
<1>7. CASE Push(b) /\ lent' = lent
  <2>1. /\ top' \in 0 .. N /\ indices' \in [Buffer -> Buffer]
        /\ outstanding' = [outstanding EXCEPT ![b] = FALSE]
        /\ \A i, j \in 0 .. top' - 1 : indices'[i] = indices'[j] => i = j
        /\ \A c \in Buffer : Free(c)' <=> Free(c) \/ c = b
    BY <1>3, <1>7, PushFree
  <2>2. LedgerTypes'
    BY <1>1, <1>7, <2>1 DEF LedgerTypes, Status
  <2>3. ASSUME NEW c \in Buffer
        PROVE  /\ outstanding'[c] <=> ~Free(c)'
               /\ Free(c)' => ~Posted(c)' /\ ~lent'[c]
               /\ Posted(c)' => ~lent'[c]
               /\ Free(c)' \/ Posted(c)' \/ lent'[c]
    <3>1. CASE c = b
      BY <3>1, <1>3, <1>4, <1>7, <2>1 DEF SingleOwner, LedgerTypes
    <3>2. CASE c # b
      BY <3>2, <1>4, <1>7, <2>1 DEF SingleOwner, LedgerTypes
    <3> QED BY <3>1, <3>2
  <2> QED
    BY <1>5, <1>6, <2>1, <2>2, <2>3 DEF SingleOwner
<1>8. CASE lent' = [lent EXCEPT ![b] = TRUE] /\ UNCHANGED <<indices, top, outstanding>>
  <2>1. LedgerTypes'
    BY <1>1, <1>8 DEF LedgerTypes, Status
  <2>2. \A c : Free(c)' <=> Free(c)
    BY <1>8 DEF Free
  <2>3. ASSUME NEW c \in Buffer
        PROVE  /\ outstanding'[c] <=> ~Free(c)'
               /\ Free(c)' => ~Posted(c)' /\ ~lent'[c]
               /\ Posted(c)' => ~lent'[c]
               /\ Free(c)' \/ Posted(c)' \/ lent'[c]
    <3>1. CASE c = b
      BY <3>1, <1>3, <1>4, <1>8, <2>2 DEF SingleOwner, LedgerTypes
    <3>2. CASE c # b
      BY <3>2, <1>4, <1>8, <2>2 DEF SingleOwner, LedgerTypes
    <3> QED BY <3>1, <3>2
  <2>4. \A i, j \in 0 .. top' - 1 : indices'[i] = indices'[j] => i = j
    BY <1>8 DEF SingleOwner
  <2> QED
    BY <1>5, <1>6, <2>1, <2>3, <2>4 DEF SingleOwner
<1> QED
  BY <1>1, <1>7, <1>8

\* Releasing a returned buffer moves it from lent to free.
LEMMA ReclaimKeeps ==
  ASSUME LedgerInv, NEW b, ReclaimIndex(b)
  PROVE  LedgerInv'
<1> USE DEF LedgerInv
<1>1. UNCHANGED <<rxPosted, rxState>>
  BY DEF ReclaimIndex, rxQueue
<1>2. /\ \A c : Posted(c)' <=> Posted(c)
      /\ SlotsAgree(rxPosted, rxState)'
      /\ \A t, u \in RxSlot : t # u => rxPosted'[t] \cap rxPosted'[u] = {}
  BY <1>1 DEF Posted, SlotsAgree, SingleOwner
<1>3. CASE Returnable(b)
  <2>1. b \in Buffer /\ lent[b] /\ ~Free(b) /\ ~Posted(b)
    BY <1>3 DEF Returnable, SingleOwner
  <2>2. Push(b) /\ lent' = [lent EXCEPT ![b] = FALSE]
    BY <1>3 DEF ReclaimIndex
  <2>3. /\ top' \in 0 .. N /\ indices' \in [Buffer -> Buffer]
        /\ outstanding' = [outstanding EXCEPT ![b] = FALSE]
        /\ \A i, j \in 0 .. top' - 1 : indices'[i] = indices'[j] => i = j
        /\ \A c \in Buffer : Free(c)' <=> Free(c) \/ c = b
    BY <2>1, <2>2, PushFree
  <2>4. LedgerTypes'
    BY <1>1, <2>2, <2>3 DEF LedgerTypes
  <2>5. ASSUME NEW c \in Buffer
        PROVE  /\ outstanding'[c] <=> ~Free(c)'
               /\ Free(c)' => ~Posted(c)' /\ ~lent'[c]
               /\ Posted(c)' => ~lent'[c]
               /\ Free(c)' \/ Posted(c)' \/ lent'[c]
    <3>1. CASE c = b
      BY <3>1, <1>2, <2>1, <2>2, <2>3 DEF SingleOwner, LedgerTypes
    <3>2. CASE c # b
      BY <3>2, <1>2, <2>2, <2>3 DEF SingleOwner, LedgerTypes
    <3> QED BY <3>1, <3>2
  <2> QED
    BY <1>2, <2>3, <2>4, <2>5 DEF SingleOwner
<1>4. CASE ~Returnable(b)
  BY SMTT(60), <1>1, <1>2, <1>4
     DEF ReclaimIndex, ledger, LedgerTypes, SingleOwner, Free, Posted
<1> QED
  BY <1>3, <1>4

\* A step that leaves the books alone keeps what is said of them.
LEMMA BooksKeep ==
  ASSUME LedgerInv, UNCHANGED books
  PROVE  LedgerInv'
BY DEF LedgerInv, books, LedgerTypes, SlotsAgree, SingleOwner, Free, Posted

\* Only three steps write the receiving driver's books.
LEMMA WhoWritesBooks ==
  ASSUME [Next]_vars
  PROVE  \/ UNCHANGED books
         \/ \E s \in RxSlot : RefillOne(s)
         \/ \E k \in 1 .. Len(rxUsed) : DrainOne(k)
         \/ \E b : ReclaimIndex(b)
<1> USE DEF books, ledger, rxQueue
<1>1. CASE UNCHANGED vars
  BY <1>1 DEF vars
<1>2. CASE ReceiverStep
  BY <1>2 DEF ReceiverStep, ReclaimOne, ReclaimDone, RefillDone, DrainDone
<1>3. CASE ForwarderStep
  BY <1>3 DEF ForwarderStep, Wake, RouteDone, RouteOne, Route
<1>4. CASE TransmitterStep
  BY <1>4 DEF TransmitterStep, ReapDone, PostDone, ReapOne, PostOne, Post
<1>5. CASE \E s \in RxSlot, runt \in BOOLEAN : Receive(s, runt)
  BY <1>5 DEF Receive
<1>6. CASE \E s \in TxSlot : Transmitted(s)
  BY <1>6 DEF Transmitted
<1>7. CASE Stray
  <2>1. CASE \E id \in StrayIds : StrayReceive(id) \/ StrayTransmitted(id)
    BY <2>1 DEF StrayReceive, StrayTransmitted
  <2>2. CASE \E b \in StrayIndices : ReclaimStray(b)
    BY <2>2 DEF ReclaimStray
  <2>3. CASE \E d, transmit : RouteStray(d, transmit)
    BY <2>3 DEF RouteStray, Route
  <2>4. CASE \E d : \E s \in TxSlot : PostStray(d, s)
    BY <2>4 DEF PostStray, Post
  <2> QED
    BY <1>7, <2>1, <2>2, <2>3, <2>4 DEF Stray
<1> QED
  BY <1>1, <1>2, <1>3, <1>4, <1>5, <1>6, <1>7 DEF Next

\* The pool starts with every buffer free, once.
LEMMA LedgerInit == Init => LedgerInv
<1> SUFFICES ASSUME Init PROVE LedgerInv
  OBVIOUS
<1>1. LedgerTypes
  BY SMTT(60), PoolAssumption DEF Init, LedgerTypes, Buffer, Status
<1>2. SlotsAgree(rxPosted, rxState)
  BY DEF Init, SlotsAgree
<1>3. \A b \in Buffer : Free(b) /\ ~Posted(b)
  BY PoolAssumption DEF Init, Free, Posted, Buffer
<1> QED
  BY <1>1, <1>2, <1>3, PoolAssumption DEF LedgerInv, Init, SingleOwner, Buffer

\* The receiving driver's books are never wrong about a buffer, for every pool,
\* queue and ring and under any number of faults: FreeList and PoolOwner::lent
\* stay a partition of the pool with what is posted to the device.
THEOREM OneOwner == Spec => []SingleOwner
<1>1. ASSUME LedgerInv, [Next]_vars PROVE LedgerInv'
  BY <1>1, WhoWritesBooks, BooksKeep, RefillKeeps, DrainKeeps, ReclaimKeeps
<1>2. LedgerInv => SingleOwner
  BY DEF LedgerInv
<1> QED
  BY LedgerInit, <1>1, <1>2, PTL DEF Spec

-----------------------------------------------------------------------------
(* The transmitting driver's books *)

atDevice == <<txPosted, txState, inFlight>>

\* A completion taken off the sending device empties its slot and its mark.
LEMMA ReapKeeps ==
  ASSUME TransmitInv, NEW k \in 1 .. Len(txUsed), ReapOne(k)
  PROVE  TransmitInv'
<1> DEFINE s == txUsed[k].id
<1> USE DEF TransmitInv
<1>1. PICK b \in txPosted[s] :
        /\ inFlight' = [inFlight EXCEPT ![b] = FALSE]
        /\ txPosted' = [txPosted EXCEPT ![s] = {}]
        /\ txState' = [txState EXCEPT ![s] = "free"]
  BY DEF ReapOne, Recycled
<1>2. s \in TxSlot /\ b \in Buffer
  BY DEF ReapOne, Reaps, Accepted, TransmitTypes
<1>3. TransmitTypes' /\ SlotsAgree(txPosted, txState)'
  BY <1>1, <1>2 DEF TransmitTypes, SlotsAgree, Status
<1>4. \A c \in Buffer : inFlight'[c] <=> \E t \in TxSlot : c \in txPosted'[t]
  <2>1. \A t \in TxSlot : b \in txPosted[t] => t = s
    BY <1>2 DEF TransmitAgrees, TransmitTypes
  <2>2. \A c \in txPosted[s] : c = b
    BY <1>2 DEF SlotsAgree, TransmitTypes
  <2> QED
    BY <1>1, <1>2, <2>1, <2>2 DEF TransmitAgrees, TransmitTypes
<1>5. \A t, u \in TxSlot : t # u => txPosted'[t] \cap txPosted'[u] = {}
  BY <1>1, <1>2 DEF TransmitAgrees, TransmitTypes
<1> QED
  BY <1>3, <1>4, <1>5 DEF TransmitAgrees

\* A posting fills an empty slot with a buffer not at the device.
LEMMA PostKeeps ==
  ASSUME TransmitInv, NEW d, NEW s \in TxSlot, NEW n, Post(d, s, n)
  PROVE  TransmitInv'
<1> USE DEF TransmitInv
<1>1. CASE UNCHANGED atDevice
  BY <1>1 DEF atDevice, TransmitTypes, SlotsAgree, TransmitAgrees
<1>2. CASE /\ ~Duplicate(d) /\ Sendable(d) /\ txState[s] = "free"
           /\ txPosted' = [txPosted EXCEPT ![s] = {d.buffer}]
           /\ txState' = [txState EXCEPT ![s] = "posted"]
           /\ inFlight' = [inFlight EXCEPT ![d.buffer] = TRUE]
  <2> DEFINE b == d.buffer
  <2>1. b \in Buffer /\ ~inFlight[b] /\ txPosted[s] = {}
    BY <1>2 DEF Duplicate, Sendable, SlotsAgree, TransmitTypes
  <2>2. TransmitTypes' /\ SlotsAgree(txPosted, txState)'
    BY <1>2, <2>1 DEF TransmitTypes, SlotsAgree, Status
  <2>3. \A t \in TxSlot : b \notin txPosted[t]
    BY <2>1 DEF TransmitAgrees
  <2>4. \A c \in Buffer : inFlight'[c] <=> \E t \in TxSlot : c \in txPosted'[t]
    BY <1>2, <2>1, <2>3 DEF TransmitAgrees, TransmitTypes
  <2>5. \A t, u \in TxSlot : t # u => txPosted'[t] \cap txPosted'[u] = {}
    BY SMTT(60), <1>2, <2>3 DEF TransmitAgrees, TransmitTypes
  <2> QED
    BY <2>2, <2>4, <2>5 DEF TransmitAgrees
<1> QED
  BY <1>1, <1>2 DEF Post, Added, atDevice

\* A step that leaves the sending device alone keeps what is said of it.
LEMMA AtDeviceKeeps ==
  ASSUME TransmitInv, UNCHANGED atDevice
  PROVE  TransmitInv'
BY DEF TransmitInv, atDevice, TransmitTypes, SlotsAgree, TransmitAgrees

\* Only reaping and posting write the sending device's maps.
LEMMA WhoWritesAtDevice ==
  ASSUME [Next]_vars
  PROVE  \/ UNCHANGED atDevice
         \/ \E k \in 1 .. Len(txUsed) : ReapOne(k)
         \/ \E d, n : \E s \in TxSlot : Post(d, s, n)
<1> USE DEF atDevice, txQueue
<1>1. CASE UNCHANGED vars
  BY <1>1 DEF vars
<1>2. CASE ReceiverStep
  <2>1. ReclaimOne \/ ReclaimDone \/ RefillDone \/ DrainDone => UNCHANGED atDevice
    BY DEF ReclaimOne, ReclaimIndex, ReclaimDone, RefillDone, DrainDone
  <2>2. ASSUME NEW s \in RxSlot, RefillOne(s) PROVE UNCHANGED atDevice
    BY <2>2 DEF RefillOne
  <2>3. ASSUME NEW k \in 1 .. Len(rxUsed), DrainOne(k) PROVE UNCHANGED atDevice
    BY <2>3 DEF DrainOne
  <2> QED
    BY <1>2, <2>1, <2>2, <2>3 DEF ReceiverStep
<1>3. CASE ForwarderStep
  BY <1>3 DEF ForwarderStep, Wake, RouteDone, RouteOne, Route
<1>4. CASE TransmitterStep
  BY <1>4 DEF TransmitterStep, ReapDone, PostDone, PostOne
<1>5. CASE \E s \in RxSlot, runt \in BOOLEAN : Receive(s, runt)
  BY <1>5 DEF Receive
<1>6. CASE \E s \in TxSlot : Transmitted(s)
  BY <1>6 DEF Transmitted
<1>7. CASE Stray
  <2>1. ASSUME NEW id \in StrayIds, StrayReceive(id) PROVE UNCHANGED atDevice
    BY <2>1 DEF StrayReceive
  <2>2. ASSUME NEW id \in StrayIds, StrayTransmitted(id)
        PROVE  UNCHANGED atDevice
    BY <2>2 DEF StrayTransmitted
  <2>3. ASSUME NEW b \in StrayIndices, ReclaimStray(b) PROVE UNCHANGED atDevice
    BY <2>3 DEF ReclaimStray, ReclaimIndex
  <2>4. ASSUME NEW b \in StrayIndices, NEW ok \in BOOLEAN,
               NEW transmit \in Transmits, RouteStray(Descriptor(b, ok), transmit)
        PROVE  UNCHANGED atDevice
    BY <2>4 DEF RouteStray, Route
  <2>5. ASSUME NEW b \in StrayIndices, NEW ok \in BOOLEAN, NEW s \in TxSlot,
               PostStray(Descriptor(b, ok), s)
        PROVE  \/ UNCHANGED atDevice
               \/ \E d, n : \E t \in TxSlot : Post(d, t, n)
    BY <2>5 DEF PostStray
  <2> QED
    BY <1>7, <2>1, <2>2, <2>3, <2>4, <2>5 DEF Stray
<1> QED
  BY <1>1, <1>2, <1>3, <1>4, <1>5, <1>6, <1>7 DEF Next

\* Both drivers' maps agree with their virtqueues, so no InvariantFault is ever
\* counted, whatever completes and whatever is read from a ring.
THEOREM MapsAgree == Spec => []PathsAgree
<1>1. Init => LedgerInv /\ TransmitInv
  BY LedgerInit
     DEF Init, TransmitInv, TransmitTypes, SlotsAgree, TransmitAgrees,
                    Status
<1>2. ASSUME LedgerInv, TransmitInv, [Next]_vars PROVE LedgerInv' /\ TransmitInv'
  <2>1. LedgerInv'
    BY <1>2, WhoWritesBooks, BooksKeep, RefillKeeps, DrainKeeps, ReclaimKeeps
  <2>2. TransmitInv'
    BY <1>2, WhoWritesAtDevice, AtDeviceKeeps, ReapKeeps, PostKeeps
  <2> QED
    BY <2>1, <2>2
<1>3. LedgerInv /\ TransmitInv => PathsAgree
  BY SMTT(60)
     DEF LedgerInv, LedgerTypes, TransmitInv, TransmitTypes, SlotsAgree,
         TransmitAgrees, PathsAgree
<1> QED
  BY <1>1, <1>2, <1>3, PTL DEF Spec

-----------------------------------------------------------------------------
(* The loan *)

Desc == [buffer : Buffer, ok : BOOLEAN]

\* The buffers the descriptors of a ring name, in order.
Indices(ring) == [i \in 1 .. Len(ring) |-> ring[i].buffer]

On(q) == {q[i] : i \in 1 .. Len(q)}
Once(q) == \A i, j \in 1 .. Len(q) : q[i] = q[j] => i = j

\* Before the first fault each lent buffer is on one of the rings, once, or at
\* the sending device, and no other buffer is.
Exact ==
  /\ rxRing \in Seq(Desc) /\ txRing \in Seq(Desc) /\ freeRing \in Seq(Buffer)
  /\ \A i \in 1 .. Len(rxRing) : rxRing[i].ok
  /\ Once(Indices(rxRing)) /\ Once(Indices(txRing)) /\ Once(freeRing)
  /\ \A b \in Buffer :
       /\ lent[b] <=> \/ b \in On(Indices(rxRing)) \/ b \in On(Indices(txRing))
                      \/ b \in On(freeRing) \/ inFlight[b]
       /\ b \in On(Indices(rxRing)) =>
            b \notin On(Indices(txRing)) /\ b \notin On(freeRing) /\ ~inFlight[b]
       /\ b \in On(Indices(txRing)) => b \notin On(freeRing) /\ ~inFlight[b]
       /\ b \in On(freeRing) => ~inFlight[b]

LoanInv == /\ LedgerInv /\ TransmitInv
           /\ faults \in Nat
           /\ faults = 0 => Exact

\* An entry of a ring one was put on.
LEMMA AppendAt ==
  ASSUME NEW S, NEW q \in Seq(S), NEW d \in S, NEW i \in 1 .. Len(Append(q, d))
  PROVE  \/ i \in 1 .. Len(q) /\ Append(q, d)[i] = q[i]
         \/ Append(q, d)[i] = d
BY SMTT(60)

\* A buffer put on a ring it is not on.
LEMMA OnAppend ==
  ASSUME NEW q \in Seq(Buffer), NEW b \in Buffer, Once(q), b \notin On(q)
  PROVE  /\ Append(q, b) \in Seq(Buffer) /\ Once(Append(q, b))
         /\ On(Append(q, b)) = On(q) \cup {b}
<1> DEFINE r == Append(q, b)
<1>1. /\ r \in Seq(Buffer) /\ Len(q) \in Nat /\ Len(r) = Len(q) + 1
      /\ r[Len(q) + 1] = b /\ \A i \in 1 .. Len(q) : r[i] = q[i]
  BY SMTT(60)
<1>2. /\ \A i \in 1 .. Len(r) : i \in 1 .. Len(q) \/ i = Len(r)
      /\ \A i \in 1 .. Len(q) : i \in 1 .. Len(r)
      /\ Len(r) \in 1 .. Len(r) /\ r[Len(r)] = b
  BY SMTT(60), <1>1
<1> HIDE DEF r
<1>3. Once(r)
  BY <1>1, <1>2 DEF Once, On
<1>4. On(r) = On(q) \cup {b}
  BY <1>1, <1>2 DEF On
<1> QED
  BY <1>1, <1>3, <1>4 DEF r

\* The buffer taken off a ring.
LEMMA OnTail ==
  ASSUME NEW q \in Seq(Buffer), q # <<>>, Once(q)
  PROVE  /\ Head(q) \in Buffer /\ Head(q) \in On(q)
         /\ Tail(q) \in Seq(Buffer) /\ Once(Tail(q))
         /\ On(Tail(q)) = On(q) \ {Head(q)}
<1> DEFINE r == Tail(q)
<1>1. /\ r \in Seq(Buffer) /\ Len(q) \in Nat /\ Len(r) = Len(q) - 1 /\ Len(q) > 0
      /\ Head(q) = q[1] /\ q[1] \in Buffer
      /\ \A i \in 1 .. Len(r) : r[i] = q[i + 1]
  BY SMTT(60)
<1> HIDE DEF r
<1>2. /\ 1 \in 1 .. Len(q)
      /\ \A i \in 1 .. Len(r) : i + 1 \in 1 .. Len(q) /\ i + 1 # 1
      /\ \A i \in 1 .. Len(q) : i = 1 \/ (i - 1 \in 1 .. Len(r) /\ r[i - 1] = q[i])
      /\ \A i, j \in 1 .. Len(r) : i + 1 = j + 1 => i = j
  BY SMTT(60), <1>1
<1>3. Once(r)
  <2> SUFFICES ASSUME NEW i \in 1 .. Len(r), NEW j \in 1 .. Len(r), r[i] = r[j]
               PROVE  i = j
    BY DEF Once
  <2>1. q[i + 1] = q[j + 1] BY <1>1
  <2>2. i + 1 = j + 1 BY <1>2, <2>1 DEF Once
  <2> QED BY <1>2, <2>2
<1>4. On(r) = On(q) \ {q[1]}
  <2>1. ASSUME NEW i \in 1 .. Len(r) PROVE r[i] \in On(q) /\ r[i] # q[1]
    <3>1. r[i] = q[i + 1] /\ i + 1 \in 1 .. Len(q) /\ i + 1 # 1
      BY <1>1, <1>2
    <3> QED BY <1>2, <3>1 DEF On, Once
  <2>2. ASSUME NEW i \in 1 .. Len(q), q[i] # q[1] PROVE q[i] \in On(r)
    <3>1. i - 1 \in 1 .. Len(r) /\ r[i - 1] = q[i]
      BY <1>2, <2>2
    <3> QED BY <3>1 DEF On
  <2> QED BY <2>1, <2>2 DEF On
<1> QED
  BY <1>1, <1>2, <1>3, <1>4 DEF r, On

\* A ring has room for a buffer that is not on it.
LEMMA RingRoom ==
  ASSUME NEW q \in Seq(Buffer), Once(q), NEW b \in Buffer, b \notin On(q)
  PROVE  Len(q) < RING_SLOTS - 1
<1> SUFFICES ASSUME Len(q) >= N PROVE FALSE
  BY SMTT(60), RingAssumption, PoolAssumption
<1> DEFINE others == Buffer \ {b}
           first == 1 .. N
           f == [i \in first |-> q[i]]
<1>1. /\ IsFiniteSet(Buffer) /\ Cardinality(Buffer) = N
      /\ IsFiniteSet(first) /\ Cardinality(first) = N
  BY SMTT(60), FS_Interval, PoolAssumption DEF Buffer
<1>2. IsFiniteSet(others) /\ Cardinality(others) = N - 1
  BY <1>1, FS_RemoveElement
<1>3. \A i \in first : i \in 1 .. Len(q) /\ q[i] \in Buffer
  BY SMTT(60), PoolAssumption
<1>4. f \in [first -> others]
  BY <1>3 DEF On
<1>5. Cardinality(others) < Cardinality(first)
  BY SMTT(60), <1>1, <1>2, PoolAssumption
<1> HIDE DEF f, first, others
<1>6. \E i, j \in first : i # j /\ f[i] = f[j]
  BY <1>1, <1>2, <1>4, <1>5, FS_PigeonHole
<1> QED
  BY <1>3, <1>6 DEF Once, f

\* A ring of descriptors names a buffer in each of its places.
LEMMA IndicesTyped ==
  ASSUME NEW ring \in Seq(Desc)
  PROVE  /\ Indices(ring) \in Seq(Buffer) /\ Len(Indices(ring)) = Len(ring)
         /\ \A i \in 1 .. Len(ring) : Indices(ring)[i] = ring[i].buffer
<1>1. Len(ring) \in Nat /\ \A i \in 1 .. Len(ring) : ring[i] \in Desc
  BY LenProperties, ElementOfSeq
<1>2. \A i \in 1 .. Len(ring) : ring[i].buffer \in Buffer
  BY <1>1 DEF Desc
<1> QED
  BY SMTT(60), <1>1, <1>2 DEF Indices

\* What a ring of descriptors names, as one is put on it or taken off.
LEMMA IndicesOf ==
  ASSUME NEW ring \in Seq(Desc)
  PROVE  /\ Indices(ring) \in Seq(Buffer) /\ Len(Indices(ring)) = Len(ring)
         /\ \A d \in Desc :
              /\ Append(ring, d) \in Seq(Desc)
              /\ Indices(Append(ring, d)) = Append(Indices(ring), d.buffer)
         /\ ring # <<>> =>
              /\ Indices(ring) # <<>> /\ Head(ring) \in Desc
              /\ Tail(ring) \in Seq(Desc)
              /\ Head(Indices(ring)) = Head(ring).buffer
              /\ Indices(Tail(ring)) = Tail(Indices(ring))
<1>1. Indices(ring) \in Seq(Buffer) /\ Len(Indices(ring)) = Len(ring)
  BY IndicesTyped
<1>2. ASSUME NEW d \in Desc
      PROVE  /\ Append(ring, d) \in Seq(Desc)
             /\ Indices(Append(ring, d)) = Append(Indices(ring), d.buffer)
  <2>1. Append(ring, d) \in Seq(Desc) /\ d.buffer \in Buffer
    BY SMTT(60) DEF Desc
  <2>2. /\ Indices(Append(ring, d)) \in Seq(Buffer)
        /\ Append(Indices(ring), d.buffer) \in Seq(Buffer)
        /\ Len(Indices(Append(ring, d))) = Len(Append(Indices(ring), d.buffer))
    BY SMTT(60), <1>1, <2>1 DEF Indices, Desc
  <2>3. \A i \in 1 .. Len(ring) + 1 :
          Indices(Append(ring, d))[i] = Append(Indices(ring), d.buffer)[i]
    BY SMTT(60), <1>1, <2>1 DEF Indices
  <2>4. Len(Indices(Append(ring, d))) = Len(ring) + 1
    BY SMTT(60), <2>1 DEF Indices
  <2> QED
    BY <2>1, <2>2, <2>3, <2>4, SeqEqual
<1>3. ASSUME ring # <<>>
      PROVE  /\ Indices(ring) # <<>> /\ Head(ring) \in Desc
             /\ Tail(ring) \in Seq(Desc)
             /\ Head(Indices(ring)) = Head(ring).buffer
             /\ Indices(Tail(ring)) = Tail(Indices(ring))
  <2>1. /\ Head(ring) \in Desc /\ Tail(ring) \in Seq(Desc)
        /\ Len(ring) \in Nat /\ Len(ring) > 0
        /\ Len(Tail(ring)) = Len(ring) - 1
        /\ Head(ring) = ring[1]
        /\ \A i \in 1 .. Len(ring) - 1 : Tail(ring)[i] = ring[i + 1]
    BY SMTT(60), <1>3
  <2>2. Indices(ring) # <<>>
    BY SMTT(60), <1>1, <2>1
  <2>3. Head(Indices(ring)) = Head(ring).buffer
    BY SMTT(60), <1>1, <2>1, <2>2 DEF Indices
  <2>4. /\ Tail(Indices(ring)) \in Seq(Buffer)
        /\ Len(Tail(Indices(ring))) = Len(ring) - 1
        /\ \A i \in 1 .. Len(ring) - 1 : Tail(Indices(ring))[i] = Indices(ring)[i + 1]
    BY SMTT(60), <1>1, <2>1, <2>2
  <2>5. /\ Indices(Tail(ring)) \in Seq(Buffer)
        /\ Len(Indices(Tail(ring))) = Len(ring) - 1
        /\ \A i \in 1 .. Len(ring) - 1 : Indices(Tail(ring))[i] = Tail(ring)[i].buffer
    BY <2>1, IndicesTyped
  <2>6. \A i \in 1 .. Len(ring) - 1 : Indices(ring)[i + 1] = ring[i + 1].buffer
    BY SMTT(60), <2>1 DEF Indices
  <2>7. \A i \in 1 .. Len(ring) - 1 :
          Indices(Tail(ring))[i] = Tail(Indices(ring))[i]
    BY <2>1, <2>4, <2>5, <2>6
  <2> QED
    BY <2>1, <2>2, <2>3, <2>4, <2>5, <2>7, SeqEqual
<1> QED
  BY <1>1, <1>2, <1>3

\* A step that moves no buffer keeps the loan exact.
LEMMA StillExact ==
  ASSUME Exact, UNCHANGED <<rxRing, txRing, freeRing, lent, inFlight>>
  PROVE  Exact'
BY DEF Exact

\* A received frame: its buffer was posted, so it was on no ring.
LEMMA DrainExact ==
  ASSUME LoanInv, Exact, NEW k \in 1 .. Len(rxUsed), DrainOne(k)
  PROVE  Exact'
<1> DEFINE s == rxUsed[k].id
<1>1. s \in RxSlot
  BY DEF DrainOne, Reaps, Accepted, LoanInv, LedgerInv, LedgerTypes
<1>2. /\ UNCHANGED <<txRing, freeRing, inFlight>>
      /\ \E b \in rxPosted[s] :
           \/ UNCHANGED <<rxRing, lent>>
           \/ /\ rxRing' = Append(rxRing, Descriptor(b, TRUE))
              /\ lent' = [lent EXCEPT ![b] = TRUE]
  BY DEF DrainOne, Lend, txQueue
<1>3. CASE UNCHANGED <<rxRing, lent>>
  BY <1>2, <1>3, StillExact
<1>4. ASSUME NEW b \in rxPosted[s],
             rxRing' = Append(rxRing, Descriptor(b, TRUE)),
             lent' = [lent EXCEPT ![b] = TRUE]
      PROVE  Exact'
  <2>1. b \in Buffer /\ ~lent[b] /\ lent \in [Buffer -> BOOLEAN]
    BY <1>1 DEF LoanInv, LedgerInv, LedgerTypes, SingleOwner, Posted
  <2>2. /\ Descriptor(b, TRUE) \in Desc /\ Descriptor(b, TRUE).buffer = b
        /\ Descriptor(b, TRUE).ok
    BY <2>1 DEF Descriptor, Desc
  <2>3. /\ b \notin On(Indices(rxRing)) /\ b \notin On(Indices(txRing))
        /\ b \notin On(freeRing) /\ ~inFlight[b]
    BY <2>1 DEF Exact
  <2>4. /\ rxRing' \in Seq(Desc)
        /\ Indices(rxRing') = Append(Indices(rxRing), b)
        /\ Indices(rxRing) \in Seq(Buffer)
    <3>1. rxRing \in Seq(Desc) BY DEF Exact
    <3>2. /\ Append(rxRing, Descriptor(b, TRUE)) \in Seq(Desc)
          /\ Indices(Append(rxRing, Descriptor(b, TRUE)))
               = Append(Indices(rxRing), Descriptor(b, TRUE).buffer)
          /\ Indices(rxRing) \in Seq(Buffer)
      BY <2>2, <3>1, IndicesOf
    <3> QED BY <1>4, <2>2, <3>2
  <2>5. /\ Once(Indices(rxRing'))
        /\ On(Indices(rxRing')) = On(Indices(rxRing)) \cup {b}
    <3>1. Once(Indices(rxRing)) BY DEF Exact
    <3>2. /\ Once(Append(Indices(rxRing), b))
          /\ On(Append(Indices(rxRing), b)) = On(Indices(rxRing)) \cup {b}
      BY <2>1, <2>3, <2>4, <3>1, OnAppend
    <3> QED BY <2>4, <3>2
  <2>6. \A i \in 1 .. Len(rxRing') : rxRing'[i].ok
    <3>1. \A i \in 1 .. Len(rxRing') :
            \/ i \in 1 .. Len(rxRing) /\ rxRing'[i] = rxRing[i]
            \/ rxRing'[i] = Descriptor(b, TRUE)
      <4>1. rxRing \in Seq(Desc) BY DEF Exact
      <4> DEFINE r == Append(rxRing, Descriptor(b, TRUE))
      <4>2. ASSUME NEW i \in 1 .. Len(r)
            PROVE  \/ i \in 1 .. Len(rxRing) /\ r[i] = rxRing[i]
                   \/ r[i] = Descriptor(b, TRUE)
        <5>1. Descriptor(b, TRUE) \in Desc BY <2>2
        <5> QED BY <4>1, <5>1, AppendAt
      <4>3. rxRing' = r BY <1>4
      <4> HIDE DEF r
      <4> QED BY <4>2, <4>3
    <3> QED BY <2>2, <3>1 DEF Exact
  <2>7. \A c \in Buffer : lent'[c] <=> lent[c] \/ c = b
    BY <1>4, <2>1
  <2> QED
    BY <1>2, <2>3, <2>4, <2>5, <2>6, <2>7 DEF Exact
<1> QED
  BY <1>2, <1>3, <1>4

\* A routed frame, whatever its verdict, moves from one ring to the next, which
\* has room for it.
LEMMA RouteExact ==
  ASSUME LoanInv, Exact, faults = 0, faults' = 0,
         NEW transmit \in BOOLEAN, RouteOne(transmit)
  PROVE  Exact'
<1>0. PICK b : b = Head(rxRing).buffer
  OBVIOUS
<1>1. rxRing # <<>> /\ rxRing' = Tail(rxRing) /\ Route(Head(rxRing), transmit, 0)
  BY DEF RouteOne
<1>2. /\ Head(rxRing) \in Desc /\ rxRing' \in Seq(Desc)
      /\ Indices(rxRing) \in Seq(Buffer) /\ Indices(rxRing) # <<>>
      /\ Head(Indices(rxRing)) = b
      /\ Indices(rxRing') = Tail(Indices(rxRing))
      /\ Indices(txRing) \in Seq(Buffer) /\ Len(Indices(txRing)) = Len(txRing)
  BY <1>0, <1>1, IndicesOf DEF Exact
<1>3. /\ b \in Buffer /\ b \in On(Indices(rxRing))
      /\ Once(Indices(rxRing'))
      /\ On(Indices(rxRing')) = On(Indices(rxRing)) \ {b}
  BY <1>2, OnTail DEF Exact
<1>4. Head(rxRing).ok
  <2>1. Head(rxRing) = rxRing[1] /\ 1 \in 1 .. Len(rxRing)
    BY SMTT(60), <1>1 DEF Exact
  <2> QED BY <2>1 DEF Exact
<1>5. b \notin On(Indices(txRing)) /\ b \notin On(freeRing) /\ ~inFlight[b]
  BY <1>3 DEF Exact
<1>6. ~Full(txRing)
  <2>1. Len(txRing) < RING_SLOTS - 1
    BY <1>2, <1>3, <1>5, RingRoom DEF Exact
  <2>2. Len(txRing) \in Nat
    BY LenProperties DEF Exact
  <2> QED BY SMTT(60), <2>1, <2>2, RingAssumption DEF Full
<1>7. ~Refuses(txRing, 0)
  BY SMTT(60), <1>6 DEF Refuses
<1>8. /\ txRing' = Append(txRing, Descriptor(b, transmit))
      /\ UNCHANGED <<lent, inFlight, freeRing>>
  BY <1>0, <1>1, <1>3, <1>4, <1>7 DEF Route, ledger, txQueue
<1>9. Descriptor(b, transmit) \in Desc /\ Descriptor(b, transmit).buffer = b
  BY <1>3 DEF Descriptor, Desc
<1>10. txRing' \in Seq(Desc) /\ Indices(txRing') = Append(Indices(txRing), b)
  <2>1. txRing \in Seq(Desc) BY DEF Exact
  <2>2. /\ Append(txRing, Descriptor(b, transmit)) \in Seq(Desc)
        /\ Indices(Append(txRing, Descriptor(b, transmit)))
             = Append(Indices(txRing), Descriptor(b, transmit).buffer)
    BY <1>9, <2>1, IndicesOf
  <2> QED BY <1>8, <1>9, <2>2
<1>11. /\ Once(Indices(txRing'))
       /\ On(Indices(txRing')) = On(Indices(txRing)) \cup {b}
  <2>1. Once(Indices(txRing)) BY DEF Exact
  <2>2. /\ Once(Append(Indices(txRing), b))
        /\ On(Append(Indices(txRing), b)) = On(Indices(txRing)) \cup {b}
    BY <1>2, <1>3, <1>5, <2>1, OnAppend
  <2> QED BY <1>10, <2>2
<1>12. \A i \in 1 .. Len(rxRing') : rxRing'[i].ok
  <2>1. \A i \in 1 .. Len(rxRing') :
          i + 1 \in 1 .. Len(rxRing) /\ rxRing'[i] = rxRing[i + 1]
    BY SMTT(60), <1>1 DEF Exact
  <2> QED BY <2>1 DEF Exact
<1> QED
  BY <1>2, <1>3, <1>5, <1>8, <1>10, <1>11, <1>12 DEF Exact

\* A return, from the ring or from the device, finds room on the free ring.
LEMMA ReturnedOnce ==
  ASSUME Exact, faults = 0, faults' = 0, NEW b \in Buffer,
         b \notin On(freeRing), ReturnBuffer(b, 0)
  PROVE  /\ freeRing' \in Seq(Buffer) /\ Once(freeRing')
         /\ On(freeRing') = On(freeRing) \cup {b}
<1>1. Len(freeRing) < RING_SLOTS - 1 /\ Len(freeRing) \in Nat
  BY RingRoom, LenProperties DEF Exact
<1>2. ~Full(freeRing)
  BY SMTT(60), <1>1, RingAssumption DEF Full
<1>3. ~Refuses(freeRing, 0)
  BY SMTT(60), <1>2 DEF Refuses
<1>4. freeRing' = Append(freeRing, b)
  BY <1>3 DEF ReturnBuffer
<1> QED
  BY <1>4, OnAppend DEF Exact

\* A frame that was sent: its buffer moves from the device to the free ring.
LEMMA ReapExact ==
  ASSUME LoanInv, Exact, faults = 0, faults' = 0,
         NEW k \in 1 .. Len(txUsed), ReapOne(k)
  PROVE  Exact'
<1> DEFINE s == txUsed[k].id
<1>1. s \in TxSlot
  BY DEF ReapOne, Reaps, Accepted, LoanInv, TransmitInv, TransmitTypes
<1>2. PICK b \in txPosted[s] : /\ inFlight' = [inFlight EXCEPT ![b] = FALSE]
                               /\ ReturnBuffer(b, 0)
  BY DEF ReapOne
<1>3. b \in Buffer /\ inFlight[b] /\ inFlight \in [Buffer -> BOOLEAN]
  BY <1>1 DEF LoanInv, TransmitInv, TransmitTypes, TransmitAgrees
<1>4. /\ b \notin On(Indices(rxRing)) /\ b \notin On(Indices(txRing))
      /\ b \notin On(freeRing)
  BY <1>3 DEF Exact
<1>5. /\ freeRing' \in Seq(Buffer) /\ Once(freeRing')
      /\ On(freeRing') = On(freeRing) \cup {b}
  BY <1>2, <1>3, <1>4, ReturnedOnce
<1>6. \A c \in Buffer : inFlight'[c] <=> inFlight[c] /\ c # b
  BY <1>2, <1>3
<1>7. UNCHANGED <<rxRing, txRing, lent>>
  BY DEF ReapOne, ledger
<1> QED
  BY <1>3, <1>4, <1>5, <1>6, <1>7 DEF Exact

\* A descriptor of the tx ring goes to the device, or straight back.
LEMMA PostExact ==
  ASSUME LoanInv, Exact, faults = 0, faults' = 0, NEW s \in TxSlot, PostOne(s)
  PROVE  Exact'
<1> DEFINE b == Head(txRing).buffer
<1>1. txRing # <<>> /\ txRing' = Tail(txRing) /\ Post(Head(txRing), s, 0)
  BY DEF PostOne
<1>2. /\ Head(txRing) \in Desc /\ txRing' \in Seq(Desc)
      /\ Indices(txRing) \in Seq(Buffer) /\ Indices(txRing) # <<>>
      /\ Head(Indices(txRing)) = b
      /\ Indices(txRing') = Tail(Indices(txRing))
  BY <1>1, IndicesOf DEF Exact
<1>3. /\ b \in Buffer /\ b \in On(Indices(txRing))
      /\ Once(Indices(txRing'))
      /\ On(Indices(txRing')) = On(Indices(txRing)) \ {b}
  BY <1>2, OnTail DEF Exact
<1>4. b \notin On(Indices(rxRing)) /\ b \notin On(freeRing) /\ ~inFlight[b]
  BY <1>3 DEF Exact
<1>5. UNCHANGED <<rxRing, lent>>
  BY <1>1 DEF Post, ledger
<1>6. \/ ReturnBuffer(b, 0) /\ UNCHANGED inFlight
      \/ inFlight' = [inFlight EXCEPT ![b] = TRUE] /\ UNCHANGED freeRing
  BY <1>1, <1>3, <1>4 DEF Post, PostBack, Duplicate
<1>7. CASE ReturnBuffer(b, 0) /\ UNCHANGED inFlight
  <2>1. /\ freeRing' \in Seq(Buffer) /\ Once(freeRing')
        /\ On(freeRing') = On(freeRing) \cup {b}
    BY <1>3, <1>4, <1>7, ReturnedOnce
  <2> QED
    BY <1>2, <1>3, <1>4, <1>5, <1>7, <2>1 DEF Exact
<1>8. CASE inFlight' = [inFlight EXCEPT ![b] = TRUE] /\ UNCHANGED freeRing
  <2>1. \A c \in Buffer : inFlight'[c] <=> inFlight[c] \/ c = b
    BY <1>3, <1>8 DEF LoanInv, TransmitInv, TransmitTypes
  <2> QED
    BY <1>2, <1>3, <1>4, <1>5, <1>8, <2>1 DEF Exact
<1> QED
  BY <1>6, <1>7, <1>8

\* What comes back is lent, so the owner takes it.
LEMMA ReclaimExact ==
  ASSUME LoanInv, Exact, ReclaimOne
  PROVE  Exact'
<1> DEFINE b == Head(freeRing)
<1>1. freeRing # <<>> /\ freeRing' = Tail(freeRing) /\ ReclaimIndex(b)
  BY DEF ReclaimOne
<1>2. /\ b \in Buffer /\ b \in On(freeRing)
      /\ freeRing' \in Seq(Buffer) /\ Once(freeRing')
      /\ On(freeRing') = On(freeRing) \ {b}
  BY <1>1, OnTail DEF Exact
<1>3. /\ lent[b] /\ b \notin On(Indices(rxRing))
      /\ b \notin On(Indices(txRing)) /\ ~inFlight[b]
  BY <1>2 DEF Exact
<1>4. outstanding[b] /\ ~Free(b)
  BY <1>2, <1>3 DEF LoanInv, LedgerInv, SingleOwner
<1>5. top < N
  BY <1>2, <1>4, Room DEF LoanInv, LedgerInv, SingleOwner
<1>6. /\ lent' = [lent EXCEPT ![b] = FALSE]
      /\ UNCHANGED <<rxRing, txRing, inFlight>>
  BY <1>1, <1>2, <1>3, <1>4, <1>5 DEF ReclaimIndex, Returnable, txQueue
<1>7. \A c \in Buffer : lent'[c] <=> lent[c] /\ c # b
  BY <1>2, <1>6 DEF LoanInv, LedgerInv, LedgerTypes
<1> QED
  BY <1>2, <1>3, <1>6, <1>7 DEF Exact

\* Faults are only ever added, and a stray step adds one.
LEMMA FaultsRise ==
  ASSUME faults \in Nat, Next
  PROVE  faults' \in Nat /\ faults' >= faults /\ (Stray => faults' > faults)
<1> DEFINE Rises == \E n \in {0, 1, 2} : faults' = faults + n
<1>1. Stray => faults' = faults + 1 \/ faults' = faults + 2
  <2>1. ASSUME NEW id, StrayReceive(id) \/ StrayTransmitted(id)
        PROVE  faults' = faults + 1
    BY <2>1 DEF StrayReceive, StrayTransmitted
  <2>2. ASSUME NEW b, ReclaimStray(b) PROVE faults' = faults + 1
    BY <2>2 DEF ReclaimStray
  <2>3. ASSUME NEW d, NEW transmit, RouteStray(d, transmit)
        PROVE  faults' = faults + 1 \/ faults' = faults + 2
    BY SMTT(60), <2>3 DEF RouteStray, Route, Enqueues, Refuses
  <2>4. ASSUME NEW d, NEW s, PostStray(d, s)
        PROVE  faults' = faults + 1 \/ faults' = faults + 2
    BY SMTT(60), <2>4
       DEF PostStray, Post, PostBack, ReturnBuffer, Enqueues, Refuses
  <2> QED
    BY <2>1, <2>2, <2>3, <2>4 DEF Stray
<1>2. ~Stray => faults' = faults \/ faults' = faults + 1
  <2>1. ASSUME ReceiverStep PROVE faults' = faults \/ faults' = faults + 1
    <3>1. ASSUME NEW k, DrainOne(k)
          PROVE  faults' = faults \/ faults' = faults + 1
      <4>1. faults' = faults \/ \E b : Lend(b)
        BY <3>1 DEF DrainOne
      <4>2. faults' = faults \/ Enqueues(rxRing, 0) \/ Refuses(rxRing, 0)
        BY <4>1 DEF Lend
      <4> QED BY SMTT(60), <4>2 DEF Enqueues, Refuses
    <3>2. ASSUME NEW s, RefillOne(s) PROVE faults' = faults
      BY <3>2 DEF RefillOne
    <3> QED BY <2>1, <3>1, <3>2
            DEF ReceiverStep, ReclaimOne, ReclaimDone, RefillDone, DrainDone
  <2>2. ASSUME ForwarderStep PROVE faults' = faults \/ faults' = faults + 1
    <3>1. ASSUME NEW transmit, RouteOne(transmit)
          PROVE  faults' = faults \/ faults' = faults + 1
      BY SMTT(60), <3>1 DEF RouteOne, Route, Enqueues, Refuses
    <3> QED BY <2>2, <3>1 DEF ForwarderStep, Wake, RouteDone
  <2>3. ASSUME TransmitterStep PROVE faults' = faults \/ faults' = faults + 1
    <3>1. ASSUME NEW b, ReturnBuffer(b, 0)
          PROVE  faults' = faults \/ faults' = faults + 1
      BY SMTT(60), <3>1 DEF ReturnBuffer, Enqueues, Refuses
    <3>2. ASSUME NEW k, ReapOne(k)
          PROVE  faults' = faults \/ faults' = faults + 1
      BY <3>1, <3>2 DEF ReapOne
    <3>3. ASSUME NEW s, PostOne(s)
          PROVE  faults' = faults \/ faults' = faults + 1
      <4>1. faults' = faults + 0 \/ \E b : ReturnBuffer(b, 0)
        BY <3>3 DEF PostOne, Post, PostBack
      <4> QED BY SMTT(60), <3>1, <4>1
    <3> QED BY <2>3, <3>2, <3>3 DEF TransmitterStep, ReapDone, PostDone
  <2>4. ASSUME NEW s, NEW runt, Receive(s, runt) \/ Transmitted(s)
        PROVE  faults' = faults
    BY <2>4 DEF Receive, Transmitted
  <2> QED BY <2>1, <2>2, <2>3, <2>4 DEF Next
<1> QED
  BY SMTT(60), <1>1, <1>2

\* Every step before the first fault keeps the loan exact.
LEMMA LoanNext ==
  ASSUME LoanInv, [Next]_vars
  PROVE  LoanInv'
<1>1. LedgerInv' /\ TransmitInv'
  BY WhoWritesBooks, BooksKeep, RefillKeeps, DrainKeeps, ReclaimKeeps,
     WhoWritesAtDevice, AtDeviceKeeps, ReapKeeps, PostKeeps DEF LoanInv
<1>2. CASE UNCHANGED vars
  BY <1>1, <1>2, StillExact DEF LoanInv, vars, ledger, txQueue
<1>3. CASE Next
  <2>1. faults' \in Nat /\ faults' >= faults /\ (Stray => faults' > faults)
    BY <1>3, FaultsRise DEF LoanInv
  <2>2. ASSUME faults' = 0 PROVE Exact'
    <3>1. faults = 0 /\ ~Stray
      BY SMTT(60), <2>1, <2>2 DEF LoanInv
    <3>2. Exact
      BY <3>1 DEF LoanInv
    <3>3. CASE ReceiverStep
      <4>1. ReclaimDone \/ RefillDone \/ DrainDone => Exact'
        BY <3>2, StillExact
           DEF ReclaimDone, RefillDone, DrainDone, ledger, txQueue
      <4>2. ASSUME NEW s \in RxSlot, RefillOne(s) PROVE Exact'
        BY <3>2, <4>2, StillExact DEF RefillOne, txQueue
      <4> QED
        BY <3>2, <3>3, <4>1, <4>2, ReclaimExact, DrainExact DEF ReceiverStep
    <3>4. CASE ForwarderStep
      <4>1. Wake \/ RouteDone => Exact'
        BY <3>2, StillExact DEF Wake, RouteDone, ledger, txQueue
      <4> QED
        BY <2>2, <3>1, <3>2, <3>4, <4>1, RouteExact
           DEF ForwarderStep, Transmits
    <3>5. CASE TransmitterStep
      <4>1. ReapDone \/ PostDone => Exact'
        BY <3>2, StillExact DEF ReapDone, PostDone, ledger, txQueue
      <4> QED
        BY <2>2, <3>1, <3>2, <3>5, <4>1, ReapExact, PostExact
           DEF TransmitterStep
    <3>6. ASSUME NEW s, NEW runt, Receive(s, runt) \/ Transmitted(s)
          PROVE  Exact'
      BY <3>2, <3>6, StillExact DEF Receive, Transmitted, ledger, txQueue
    <3> QED
      BY <1>3, <3>1, <3>3, <3>4, <3>5, <3>6 DEF Next
  <2> QED
    BY <1>1, <2>1, <2>2 DEF LoanInv
<1> QED
  BY <1>2, <1>3

\* One ring's share of the count.
LEMMA CountOnce ==
  ASSUME NEW q, Once(q), NEW b
  PROVE  Cardinality({i \in 1 .. Len(q) : q[i] = b})
           = IF b \in On(q) THEN 1 ELSE 0
<1> DEFINE P == {i \in 1 .. Len(q) : q[i] = b}
<1>1. CASE b \in On(q)
  <2>1. PICK i \in 1 .. Len(q) : q[i] = b
    BY <1>1 DEF On
  <2>2. P = {i}
    BY <2>1 DEF Once
  <2> QED
    BY <1>1, <2>2, FS_Singleton
<1>2. CASE b \notin On(q)
  <2>1. P = {}
    BY <1>2 DEF On
  <2> QED
    BY <1>2, <2>1, FS_EmptySet
<1> QED
  BY <1>1, <1>2

\* Without a fault a lent buffer is in one place of the round trip and a buffer
\* that is not lent in none, for every pool, queue and ring: no ring is ever
\* full when a hand-over needs it, and no verdict costs the pool a buffer.
THEOREM ExactLoan == Spec => []LoanIsExact
<1>1. Init => LoanInv
  <2> SUFFICES ASSUME Init PROVE LoanInv
    OBVIOUS
  <2>1. TransmitInv
    BY DEF Init, TransmitInv, TransmitTypes, SlotsAgree, TransmitAgrees, Status
  <2>2. \A S : <<>> \in Seq(S) /\ Len(<<>>) = 0
    BY EmptySeq
  <2>3. 1 .. 0 = {}
    BY SMTT(60)
  <2>4. Indices(<<>>) = [i \in {} |-> <<>>[i].buffer]
    BY <2>2, <2>3 DEF Indices
  <2>5. Len(Indices(<<>>)) = 0
    BY SMTT(60) DEF Indices
  <2>6. /\ Once(<<>>) /\ On(<<>>) = {}
        /\ Once(Indices(<<>>)) /\ On(Indices(<<>>)) = {}
    BY <2>2, <2>3, <2>5 DEF Once, On
  <2>7. Exact
    BY <2>2, <2>3, <2>6 DEF Exact, Init
  <2> QED
    BY <2>1, <2>7, LedgerInit DEF LoanInv, Init
<1>2. LoanInv => LoanIsExact
  <2> SUFFICES ASSUME LoanInv, faults = 0, NEW b \in Buffer
               PROVE  Cardinality(Carried(rxRing, b))
                        + Cardinality(Carried(txRing, b))
                        + Cardinality({i \in 1 .. Len(freeRing) : freeRing[i] = b})
                        + Cardinality(Sending(b))
                        = IF lent[b] THEN 1 ELSE 0
    BY DEF LoanIsExact
  <2>1. Exact
    BY DEF LoanInv
  <2>2. ASSUME NEW ring \in Seq(Desc)
        PROVE  Carried(ring, b)
                 = {i \in 1 .. Len(Indices(ring)) : Indices(ring)[i] = b}
    BY <2>2, IndicesTyped DEF Carried
  <2>3. /\ Cardinality(Carried(rxRing, b))
             = IF b \in On(Indices(rxRing)) THEN 1 ELSE 0
        /\ Cardinality(Carried(txRing, b))
             = IF b \in On(Indices(txRing)) THEN 1 ELSE 0
    <3>1. rxRing \in Seq(Desc) /\ Once(Indices(rxRing))
      BY <2>1 DEF Exact
    <3>2. txRing \in Seq(Desc) /\ Once(Indices(txRing))
      BY <2>1 DEF Exact
    <3>3. Cardinality({i \in 1 .. Len(Indices(rxRing)) : Indices(rxRing)[i] = b})
            = IF b \in On(Indices(rxRing)) THEN 1 ELSE 0
      BY <3>1, CountOnce
    <3>4. Cardinality({i \in 1 .. Len(Indices(txRing)) : Indices(txRing)[i] = b})
            = IF b \in On(Indices(txRing)) THEN 1 ELSE 0
      BY <3>2, CountOnce
    <3>5. /\ Carried(rxRing, b) = {i \in 1 .. Len(Indices(rxRing)) :
                                     Indices(rxRing)[i] = b}
          /\ Carried(txRing, b) = {i \in 1 .. Len(Indices(txRing)) :
                                     Indices(txRing)[i] = b}
      BY <2>2, <3>1, <3>2
    <3> QED BY <3>3, <3>4, <3>5
  <2>4. Cardinality({i \in 1 .. Len(freeRing) : freeRing[i] = b})
          = IF b \in On(freeRing) THEN 1 ELSE 0
    BY <2>1, CountOnce DEF Exact
  <2>5. Cardinality(Sending(b)) = IF inFlight[b] THEN 1 ELSE 0
    <3>1. CASE inFlight[b]
      <4>1. PICK s \in TxSlot : b \in txPosted[s]
        BY <3>1 DEF LoanInv, TransmitInv, TransmitAgrees
      <4>2. Sending(b) = {s}
        BY <4>1 DEF Sending, LoanInv, TransmitInv, TransmitAgrees
      <4> QED BY <3>1, <4>2, FS_Singleton
    <3>2. CASE ~inFlight[b]
      <4>1. Sending(b) = {}
        BY <3>2 DEF Sending, LoanInv, TransmitInv, TransmitAgrees
      <4> QED BY <3>2, <4>1, FS_EmptySet
    <3> QED BY <3>1, <3>2
  <2> DEFINE rx == b \in On(Indices(rxRing))
             tx == b \in On(Indices(txRing))
             fr == b \in On(freeRing)
  <2>6. /\ lent[b] <=> rx \/ tx \/ fr \/ inFlight[b]
        /\ rx => ~tx /\ ~fr /\ ~inFlight[b]
        /\ tx => ~fr /\ ~inFlight[b]
        /\ fr => ~inFlight[b]
    BY <2>1 DEF Exact
  <2> HIDE DEF rx, tx, fr
  <2> QED
    BY SMTT(60), <2>3, <2>4, <2>5, <2>6 DEF rx, tx, fr
<1> QED
  BY <1>1, LoanNext, <1>2, PTL DEF Spec
=============================================================================
