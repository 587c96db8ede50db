-------------------------- MODULE RecordingProofs --------------------------
(***************************************************************************)
(* What a power cut leaves of a recording, for every geometry of the       *)
(* extent, every staging area and every bound on the events.               *)
(*                                                                         *)
(* The argument.  Generations only rise, also over a boot, and positions   *)
(* rise with them, so the copy a boot takes is the furthest one.  A        *)
(* superblock is written behind a barrier, when each copy is exactly what  *)
(* it reads as; while no generation was spent in vain the newest is in the *)
(* copy its parity selects, and the next one goes to the other.            *)
(***************************************************************************)
EXTENDS Recording, TLAPS

USE ZenonT(60)

Running == pc \notin {"off", "parked"}

\* The superblocks among what a power cut may leave in two copies.
Found(a) == UNION UNION {a[i] : i \in Copy}

\* A copy is one superblock or nothing that decodes.
IsCopy(o) == /\ \A x, y \in o : x = y
             /\ \A s \in o : s.gen \in Nat \ {0} /\ s.at \in Nat

\* A generation is given once, and later ones name later positions.
Rising(S) == \A s, t \in S : /\ s.gen = t.gen => s = t
                             /\ s.gen < t.gen => s.at <= t.at

Certain == \A i \in Copy : after[i] = {copies[i]}

\* A barrier has just ended: everything written before it is committed.
Fresh == ckpt = "ordered" \/ (ckpt = "barrier" /\ io.ctl = "ok")

-----------------------------------------------------------------------------
(* The invariant *)

Words ==
  /\ durable \in Nat /\ gen \in Nat /\ cover \in Nat /\ solid \in Nat
  /\ ordered \in Nat /\ top \in Int
  /\ stale \in BOOLEAN /\ orders \in BOOLEAN /\ unbroken \in BOOLEAN
  /\ DOMAIN io = {"flush", "ctl"}

\* At most one flush is out, and it ends past the durable position.
Flushes ==
  /\ \A e \in flight : e \in Nat /\ e > durable
  /\ \A e, f \in flight : e = f
  /\ io.flush # "none" => flight # {}

Superblocks ==
  /\ copies = [i \in Copy |-> copies[i]]
  /\ \A i \in Copy : copies[i] \in after[i] /\ \A o \in after[i] : IsCopy(o)
  /\ Rising(Findable)
  /\ Running => \A s \in Findable : s.gen <= gen /\ s.at <= durable

SwitchedOff ==
  ~Running => /\ Certain /\ ordered = ResumesAt(copies)
              /\ solid = ResumesAt(copies)
              /\ ckpt = "idle" /\ io = Idle /\ flight = {} /\ cover = 0

\* What is committed was taken, and what a barrier covers is no less than what
\* was committed before it.
Committed ==
  /\ Running => solid <= Taken /\ cover <= Taken
  /\ ckpt = "barrier" => solid <= cover /\ orders
  /\ Fresh /\ orders => solid = cover

\* Both copies are what they read as, the newest in its place.
Settled == Certain /\ ordered = ResumesAt(copies) /\ InPlace(copies, gen, stale)

\* One copy is the committed superblock, and stays it.
Guarded == \E k \in Copy : \E b \in copies[k] : after[k] = {{b}} /\ ordered = b.at

Kept == orders /\ unbroken =>
          \/ ordered = 0
          \/ Settled /\ ckpt # "written"
          \/ Guarded /\ ~Fresh

IInv == /\ Words /\ Flushes /\ Superblocks /\ SwitchedOff /\ Committed /\ Kept
        /\ CommittedUnlessLate

-----------------------------------------------------------------------------
(* Copies *)

\* Findable, over either state of a step.
LEMMA FoundIs ==
  ASSUME NEW a, NEW s
  PROVE  s \in Found(a) <=> \E i \in Copy : \E o \in a[i] : s \in o
  BY DEF Found

\* The copy decode_superblock takes is the newest and the furthest.
LEMMA DecodeIs ==
  ASSUME NEW c, \A i \in Copy : IsCopy(c[i]), Rising(c[0] \cup c[1])
  PROVE  \/ /\ \A i \in Copy : c[i] = {}
            /\ Decode(c) = {} /\ ResumesAt(c) = 0
         \/ \E s \in c[0] \cup c[1] :
              /\ Decode(c) = {s} /\ ResumesAt(c) = s.at
              /\ \A t \in c[0] \cup c[1] : t.gen <= s.gen /\ t.at <= s.at
  <1>1. \A x, y \in c[0] : x = y BY DEF IsCopy, Copy
  <1>2. \A x, y \in c[1] : x = y BY DEF IsCopy, Copy
  <1>3. \A x \in c[0] \cup c[1] : x.gen \in Nat /\ x.at \in Nat
    BY DEF IsCopy, Copy
  <1>4. CASE c[0] = {} /\ c[1] = {}
    BY <1>4 DEF Decode, ResumesAt, Copy
  <1>5. ASSUME NEW s \in c[0] \cup c[1], Decode(c) = {s},
               \A t \in c[0] \cup c[1] : t.gen <= s.gen
        PROVE  /\ ResumesAt(c) = s.at
               /\ \A t \in c[0] \cup c[1] : t.gen <= s.gen /\ t.at <= s.at
    <2>1. ResumesAt(c) = s.at BY <1>5 DEF ResumesAt
    <2>2. ASSUME NEW t \in c[0] \cup c[1] PROVE t.at <= s.at
      BY SMTT(60), <1>3, <1>5 DEF Rising
    <2> QED BY <1>5, <2>1, <2>2
  <1>6. ASSUME NEW s \in c[0], c[1] = {}
        PROVE  Decode(c) = {s} /\ \A t \in c[0] \cup c[1] : t.gen <= s.gen
    BY SMTT(60), <1>1, <1>3, <1>6 DEF Decode
  <1>7. ASSUME NEW s \in c[1], c[0] = {}
        PROVE  Decode(c) = {s} /\ \A t \in c[0] \cup c[1] : t.gen <= s.gen
    BY SMTT(60), <1>2, <1>3, <1>7 DEF Decode
  <1>8. ASSUME NEW a \in c[0], NEW b \in c[1]
        PROVE  \E s \in c[0] \cup c[1] :
                 Decode(c) = {s} /\ \A t \in c[0] \cup c[1] : t.gen <= s.gen
    <2>1. c[0] = {a} /\ c[1] = {b} BY <1>1, <1>2
    <2>2. CASE b.gen > a.gen
      <3>1. Decode(c) = {b} BY <2>1, <2>2 DEF Decode
      <3> QED BY SMTT(60), <1>3, <2>1, <2>2, <3>1
    <2>3. CASE ~(b.gen > a.gen)
      <3>1. Decode(c) = {a} BY <2>1, <2>3 DEF Decode
      <3> QED BY SMTT(60), <1>3, <2>1, <2>3, <3>1
    <2> QED BY <2>2, <2>3
  <1>9. CASE \E s \in c[0] \cup c[1] :
               Decode(c) = {s} /\ \A t \in c[0] \cup c[1] : t.gen <= s.gen
    BY <1>5, <1>9
  <1> QED BY SMTT(60), <1>4, <1>6, <1>7, <1>8, <1>9

\* So it is for what a power cut leaves, and for what reads as the copies.
LEMMA OutcomeIs ==
  ASSUME Superblocks, NEW c, \A i \in Copy : c[i] \in after[i]
  PROVE  /\ \A i \in Copy : IsCopy(c[i])
         /\ \A s \in c[0] \cup c[1] : s \in Findable
         /\ Rising(c[0] \cup c[1])
  <1>1. \A i \in Copy : IsCopy(c[i]) BY DEF Superblocks
  <1>2. \A s \in c[0] \cup c[1] : s \in Findable
    BY FoundIs DEF Findable, Found, Copy
  <1> QED BY <1>1, <1>2 DEF Superblocks, Rising

\* What Kept is for.
LEMMA KeptSurvives ==
  ASSUME IInv PROVE CheckpointSurvives
  <1> SUFFICES ASSUME orders, unbroken, NEW c \in Outcomes
               PROVE  ResumesAt(c) >= ordered
    BY DEF CheckpointSurvives
  <1>1. (\A i \in Copy : c[i] \in after[i]) /\ c = [i \in Copy |-> c[i]]
    BY DEF Outcomes
  <1>2. /\ \A i \in Copy : IsCopy(c[i])
        /\ Rising(c[0] \cup c[1])
    BY <1>1, OutcomeIs DEF IInv
  <1>3. \/ /\ \A i \in Copy : c[i] = {}
           /\ ResumesAt(c) = 0
        \/ \E s \in c[0] \cup c[1] :
             /\ ResumesAt(c) = s.at
             /\ \A t \in c[0] \cup c[1] : t.gen <= s.gen /\ t.at <= s.at
    BY <1>2, DecodeIs
  <1>4. \A s \in c[0] \cup c[1] : s.gen \in Nat /\ s.at \in Nat
    BY <1>2 DEF IsCopy, Copy
  <1>5. CASE ordered = 0 BY SMTT(60), <1>3, <1>4, <1>5
  <1>6. CASE Settled
    <2>1. \A i \in Copy : c[i] = copies[i] BY <1>1, <1>6 DEF Settled, Certain
    <2>2. copies = [i \in Copy |-> copies[i]] BY DEF IInv, Superblocks
    <2>3. c = copies BY <1>1, <2>1, <2>2
    <2> QED BY SMTT(60), <1>3, <1>4, <1>6, <2>3 DEF Settled
  <1>7. CASE Guarded
    <2>1. PICK k \in Copy : \E b \in copies[k] : after[k] = {{b}} /\ ordered = b.at
      BY <1>7 DEF Guarded
    <2>2. PICK b \in copies[k] : after[k] = {{b}} /\ ordered = b.at
      BY <2>1
    <2>3. b \in c[0] \cup c[1] BY <1>1, <2>2 DEF Copy
    <2> QED BY <1>3, <1>4, <2>2, <2>3 DEF Copy
  <1> QED BY <1>5, <1>6, <1>7 DEF IInv, Kept

\* A superblock a power cut may leave is numbered and placed.
LEMMA FindableTyped ==
  ASSUME Superblocks, NEW s \in Findable
  PROVE  s.gen \in Nat \ {0} /\ s.at \in Nat
  <1>1. PICK i \in Copy : \E o \in after[i] : s \in o
    BY FoundIs DEF Findable, Found
  <1> QED BY <1>1 DEF Superblocks, IsCopy

\* What the device has taken is no less than the durable position.
LEMMA TakenIs ==
  ASSUME Words, Flushes
  PROVE  /\ Taken \in Nat /\ Taken >= durable
         /\ io.flush \in {"ok", "failed"} => flight = {Taken}
         /\ io.flush \notin {"ok", "failed"} => Taken = durable
  <1>1. CASE io.flush \in {"ok", "failed"}
    <2>1. PICK e \in flight : flight = {e} BY <1>1 DEF Flushes
    <2>2. Taken = e BY <1>1, <2>1 DEF Taken
    <2> QED BY SMTT(60), <1>1, <2>1, <2>2 DEF Words, Flushes
  <1>2. CASE io.flush \notin {"ok", "failed"}
    BY SMTT(60), <1>2 DEF Taken, Words
  <1> QED BY <1>1, <1>2

-----------------------------------------------------------------------------
(* Steps that leave the medium and the checkpoint alone *)

LEMMA QuietIInv ==
  ASSUME IInv, Running, Running', Words', Flushes',
         Taken' \in Nat, Taken' >= Taken, io'.ctl = io.ctl,
         UNCHANGED <<durable, gen, stale, ckpt, orders, mediumVars, history>>
  PROVE  IInv'
  <1>1. Superblocks'
    BY DEF IInv, Superblocks, Findable, mediumVars
  <1>2. Certain' <=> Certain BY DEF Certain, mediumVars
  <1>3. Fresh' <=> Fresh BY DEF Fresh
  <1>4. Committed'
    <2>1. Taken \in Nat BY TakenIs DEF IInv
    <2> QED BY SMTT(60), <1>3, <2>1 DEF IInv, Committed, Words, mediumVars
  <1>5. Kept'
    BY <1>2, <1>3 DEF IInv, Kept, Settled, Guarded, mediumVars, history
  <1>6. CommittedUnlessLate'
    BY DEF IInv, CommittedUnlessLate, Findable, mediumVars
  <1> QED BY <1>1, <1>4, <1>5, <1>6 DEF IInv, SwitchedOff

LEMMA OfferIInv ==
  ASSUME IInv, NEW kept \in BOOLEAN, Offer(kept)
  PROVE  IInv'
  <1>1. Slack \in Int
    <2>1. SEGMENT \in Nat \ {0} BY RecordingConstants
    <2>2. top \in Int BY DEF IInv, Words
    <2>3. Newest \in Int BY SMTT(60), <2>1, <2>2 DEF Newest
    <2> QED BY SMTT(60), <2>1, <2>2, <2>3 DEF Slack
  <1>2. top' \in Int
    <2>1. top \in Int BY DEF IInv, Words
    <2>2. top' \in {top, top + 1, top + Slack}
      BY DEF Offer, Place, Closed
    <2> QED BY SMTT(60), <1>1, <2>1, <2>2
  <1>3. Words' BY <1>2 DEF Offer, IInv, Words, mediumVars, history
  <1>4. Flushes' BY DEF Offer, IInv, Flushes
  <1>5. Taken' = Taken
    <2>1. UNCHANGED <<io, flight, durable>> BY DEF Offer
    <2> QED BY SMTT(60), <2>1 DEF Taken
  <1>6. Running /\ Running' BY DEF Offer, Running
  <1>7. Taken \in Nat BY TakenIs DEF IInv
  <1>8. Taken' \in Nat /\ Taken' >= Taken BY SMTT(60), <1>5, <1>7
  <1> QED BY <1>3, <1>4, <1>6, <1>8, QuietIInv DEF Offer

LEMMA AdvanceIInv ==
  ASSUME IInv, NEW refused \in BOOLEAN, Advance(refused)
  PROVE  IInv'
  <1> DEFINE next == IF Reopens THEN top + PROLOGUE ELSE top
  <1> DEFINE taken == IF flight # {} THEN flight
                      ELSE IF next > durable THEN {next} ELSE {}
  <1> DEFINE submits == taken # {} /\ io.flush = "none"
  <1>1. next \in Int
    BY SMTT(60), RecordingConstants DEF IInv, Words
  <1>2. /\ top' = next /\ flight' = taken
        /\ io' = [io EXCEPT !.flush =
                    IF submits /\ ~refused THEN "out" ELSE io.flush]
        /\ UNCHANGED <<durable, reader, gen, stale, held, ckpt, orders, image,
                       mediumVars, history, acks, faults>>
    BY DEF Advance
  <1>3. DOMAIN io = {"flush", "ctl"} BY DEF IInv, Words
  <1>4. /\ DOMAIN io' = {"flush", "ctl"} /\ io'.ctl = io.ctl
        /\ io'.flush = IF submits /\ ~refused THEN "out" ELSE io.flush
    BY <1>2, <1>3
  <1> HIDE DEF next
  <1>5. Words' BY <1>1, <1>2, <1>4 DEF IInv, Words, mediumVars, history
  <1>6. Flushes'
    <2>1. CASE flight # {}
      BY <1>2, <1>4, <2>1 DEF IInv, Flushes
    <2>2. CASE flight = {}
      <3>1. io.flush = "none" BY <2>2 DEF IInv, Flushes
      <3> QED
        BY SMTT(60), <1>1, <1>2, <1>4, <2>2, <3>1 DEF IInv, Words, Flushes
    <2> QED BY <2>1, <2>2
  <1>7. Taken' = Taken
    <2>1. CASE io.flush \in {"ok", "failed"}
      <3>1. flight' = flight BY <1>2, <2>1 DEF IInv, Flushes
      <3>2. io'.flush = io.flush BY <1>4, <2>1
      <3> QED BY SMTT(60), <2>1, <3>1, <3>2 DEF Taken
    <2>2. CASE io.flush \notin {"ok", "failed"}
      <3>1. io'.flush \notin {"ok", "failed"} BY <1>4, <2>2
      <3> QED BY <1>2, <2>2, <3>1 DEF Taken
    <2> QED BY <2>1, <2>2
  <1>8. Running /\ Running' BY DEF Advance, Running
  <1>9. Taken' \in Nat /\ Taken' >= Taken BY SMTT(60), <1>7, TakenIs DEF IInv
  <1> QED BY <1>2, <1>4, <1>5, <1>6, <1>8, <1>9, QuietIInv

LEMMA DeviceFlushIInv ==
  ASSUME IInv, DeviceFlush
  PROVE  IInv'
  <1>1. PICK end \in {"ok", "failed"} :
          /\ io.flush = "out" /\ io' = [io EXCEPT !.flush = end]
          /\ UNCHANGED <<pc, sinkVars, recVars, ckpt, orders, image, mediumVars,
                         history, acks, mishaps>>
    BY DEF DeviceFlush
  <1>2. DOMAIN io = {"flush", "ctl"} BY DEF IInv, Words
  <1>3. DOMAIN io' = {"flush", "ctl"} /\ io'.ctl = io.ctl /\ io'.flush = end
    BY <1>1, <1>2
  <1>4. Words'
    BY <1>1, <1>3 DEF IInv, Words, sinkVars, mediumVars, history
  <1>5. flight # {} BY <1>1 DEF IInv, Flushes
  <1>6. Flushes' BY <1>1, <1>3, <1>5 DEF IInv, Flushes, sinkVars, recVars
  <1>7. Taken = durable BY <1>1 DEF Taken
  <1>8. PICK e \in flight : flight = {e} BY <1>5 DEF IInv, Flushes
  <1>9. Taken' = e BY <1>1, <1>3, <1>8 DEF Taken, recVars
  <1>10. Taken' \in Nat /\ Taken' >= Taken
    BY SMTT(60), <1>7, <1>8, <1>9 DEF IInv, Flushes, Words
  <1>11. Running /\ Running'
    <2>1. io.flush # "none" BY <1>1
    <2>2. Running BY <2>1 DEF IInv, SwitchedOff, Idle
    <2> QED BY <1>1, <2>2 DEF Running
  <1> QED BY <1>1, <1>3, <1>4, <1>6, <1>10, <1>11, QuietIInv DEF sinkVars
-----------------------------------------------------------------------------
(* Deck::settle *)

\* What the device took is acknowledged, failed or not.
LEMMA SettleTaken ==
  ASSUME IInv, NEW claim, Settle(claim)
  PROVE  /\ Words' /\ Flushes'
         /\ Taken' = Taken /\ durable' = Taken
         /\ Running /\ Running'
         /\ io'.ctl = IF io.ctl = "out" THEN "out" ELSE "none"
  <1>1. DOMAIN io = {"flush", "ctl"} BY DEF IInv, Words
  <1>2. /\ DOMAIN io' = {"flush", "ctl"}
        /\ io'.flush = IF io.flush = "out" THEN "out" ELSE "none"
        /\ io'.ctl = IF io.ctl = "out" THEN "out" ELSE "none"
    BY <1>1 DEF Settle
  <1>3. SettledFlush /\ SettledCtl BY DEF Settle
  <1>4. /\ Taken \in Nat
        /\ io.flush \in {"ok", "failed"} => flight = {Taken}
        /\ io.flush \notin {"ok", "failed"} => Taken = durable
    BY TakenIs DEF IInv
  <1>5. durable' = Taken
    BY <1>3, <1>4 DEF SettledFlush
  <1>6. Taken' = durable' BY <1>2 DEF Taken
  <1>7. Flushes'
    <2>1. CASE io.flush \in {"ok", "failed"}
      BY <1>2, <1>3, <2>1 DEF SettledFlush, Flushes
    <2>2. CASE io.flush \notin {"ok", "failed"}
      <3>1. UNCHANGED <<flight, durable>> BY <1>3, <2>2 DEF SettledFlush
      <3> QED BY <1>2, <2>2, <3>1 DEF IInv, Flushes
    <2> QED BY <2>1, <2>2
  <1>8. stale' \in BOOLEAN /\ unbroken' \in BOOLEAN
    BY <1>3 DEF SettledCtl, IInv, Words
  <1>9. UNCHANGED <<top, gen, orders, mediumVars, ordered>> BY DEF Settle
  <1>10. Words' BY <1>2, <1>4, <1>5, <1>8, <1>9 DEF IInv, Words, mediumVars
  <1>11. Running /\ Running' BY DEF Settle, Running
  <1> QED BY <1>2, <1>5, <1>6, <1>7, <1>10, <1>11

LEMMA SettleIInv ==
  ASSUME IInv, NEW claim, Settle(claim)
  PROVE  IInv'
  <1>1. /\ Words' /\ Flushes'
        /\ Taken' = Taken /\ durable' = Taken
        /\ Running /\ Running'
        /\ io'.ctl = IF io.ctl = "out" THEN "out" ELSE "none"
    BY SettleTaken
  <1>2. Taken \in Nat /\ Taken >= durable BY TakenIs DEF IInv
  <1>3. UNCHANGED <<copies, after, cover, solid, gen, orders, ordered>>
    BY DEF Settle, mediumVars
  <1>4. SettledCtl BY DEF Settle
  <1>5. Superblocks'
    <2>1. Findable' = Findable BY <1>3 DEF Findable
    <2>2. \A s \in Findable : s.at <= durable'
      BY SMTT(60), <1>1, <1>2, FindableTyped DEF IInv, Words, Superblocks
    <2> QED BY <1>1, <1>3, <2>1, <2>2 DEF IInv, Superblocks
  <1>6. /\ Fresh' => Fresh
        /\ ckpt' = "barrier" => ckpt = "barrier"
        /\ ckpt' = "written" => ckpt = "written"
    BY <1>1, <1>4 DEF SettledCtl, Fresh
  <1>7. Committed'
    BY <1>1, <1>3, <1>6 DEF IInv, Committed
  <1>8. unbroken' => unbroken BY <1>4 DEF SettledCtl
  <1>9. stale' # stale => ckpt = "written" BY <1>4 DEF SettledCtl
  <1>10. Settled /\ ckpt # "written" => Settled'
    BY SMTT(60), <1>3, <1>9 DEF Settled, Certain, InPlace, ResumesAt, Decode
  <1>11. Guarded' <=> Guarded BY <1>3 DEF Guarded
  <1>12. Kept' BY <1>3, <1>6, <1>8, <1>10, <1>11 DEF IInv, Kept
  <1>13. CommittedUnlessLate' BY <1>3 DEF IInv, CommittedUnlessLate, Findable
  <1> QED BY <1>1, <1>5, <1>7, <1>12, <1>13 DEF IInv, SwitchedOff
-----------------------------------------------------------------------------
(* The device *)

\* Copies that are exactly what they read as.
LEMMA CertainFound ==
  ASSUME NEW c, NEW s
  PROVE  s \in Found([i \in Copy |-> {c[i]}]) <=> s \in c[0] \cup c[1]
  BY SMTT(60), FoundIs DEF Copy

LEMMA DeviceBarrierIInv ==
  ASSUME IInv, DeviceBarrier
  PROVE  IInv'
  <1>1. PICK end \in {"ok", "failed"} :
          /\ ckpt = "barrier"
          /\ io' = [io EXCEPT !.ctl = end]
          /\ IF end = "ok"
             THEN /\ solid' = cover
                  /\ after' = [i \in Copy |-> {copies[i]}]
                  /\ ordered' = ResumesAt(copies)
                  /\ unbroken' = InPlace(copies, gen, stale)
             ELSE UNCHANGED <<solid, after, ordered, unbroken>>
          /\ UNCHANGED <<pc, sinkVars, recVars, ckpt, orders, image, copies,
                         cover, acks, mishaps>>
    BY DEF DeviceBarrier
  <1>2. DOMAIN io = {"flush", "ctl"} BY DEF IInv, Words
  <1>3. DOMAIN io' = {"flush", "ctl"} /\ io'.flush = io.flush /\ io'.ctl = end
    BY <1>1, <1>2
  <1>4. /\ UNCHANGED <<durable, flight, gen, stale, orders, ckpt, pc, copies>>
        /\ UNCHANGED <<top, cover>>
    BY <1>1 DEF sinkVars, recVars
  <1>5. Flushes' BY <1>3, <1>4 DEF IInv, Flushes
  <1>6. Taken' = Taken BY SMTT(60), <1>3, <1>4 DEF Taken
  <1>7. Running /\ Running' BY <1>1, <1>4 DEF IInv, SwitchedOff, Running
  <1>8. Taken \in Nat BY TakenIs DEF IInv
  <1>9. CASE end = "failed"
    <2>1. UNCHANGED <<solid, after, ordered, unbroken>> BY <1>1, <1>9
    <2>2. Words' BY <1>3, <1>4, <2>1 DEF IInv, Words
    <2>3. Superblocks' BY <1>4, <1>7, <2>1 DEF IInv, Superblocks, Findable
    <2>4. ~Fresh' BY <1>1, <1>3, <1>4, <1>9 DEF Fresh
    <2>5. Committed' BY <1>4, <1>6, <1>7, <2>1, <2>4 DEF IInv, Committed
    <2>6. Certain' <=> Certain BY <1>4, <2>1 DEF Certain
    <2>7. Kept'
      BY <1>4, <2>1, <2>4, <2>6 DEF IInv, Kept, Settled, Guarded
    <2>8. CommittedUnlessLate'
      BY <1>4, <2>1 DEF IInv, CommittedUnlessLate, Findable
    <2> QED BY <1>5, <1>7, <2>2, <2>3, <2>5, <2>7, <2>8 DEF IInv, SwitchedOff
  <1>10. CASE end = "ok"
    <2>1. /\ solid' = cover /\ after' = [i \in Copy |-> {copies[i]}]
          /\ ordered' = ResumesAt(copies)
          /\ unbroken' = InPlace(copies, gen, stale)
      BY <1>1, <1>10
    <2>2. \A i \in Copy : copies[i] \in after[i] BY DEF IInv, Superblocks
    <2>3. /\ \A i \in Copy : IsCopy(copies[i])
          /\ \A s \in copies[0] \cup copies[1] : s \in Findable
          /\ Rising(copies[0] \cup copies[1])
      BY <2>2, OutcomeIs DEF IInv
    <2>4. Findable' = copies[0] \cup copies[1]
      BY SMTT(60), <2>1, CertainFound DEF Findable, Found
    <2>5. ResumesAt(copies) \in Nat
      BY SMTT(60), <2>3, DecodeIs DEF IsCopy, Copy
    <2>6. unbroken' \in BOOLEAN BY <2>1 DEF InPlace, IInv, Words
    <2>7. Words' BY <1>3, <1>4, <2>1, <2>5, <2>6 DEF IInv, Words
    <2>8. Superblocks'
      <3>1. \A s \in Findable' : s.gen <= gen' /\ s.at <= durable'
        BY <1>4, <1>7, <2>3, <2>4 DEF IInv, Superblocks
      <3>2. \A i \in Copy : /\ copies'[i] \in after'[i]
                            /\ \A o \in after'[i] : IsCopy(o)
        BY <1>4, <2>1, <2>3
      <3>3. copies' = [i \in Copy |-> copies'[i]]
        BY <1>4 DEF IInv, Superblocks
      <3> QED BY <2>3, <2>4, <3>1, <3>2, <3>3 DEF Superblocks
    <2>9. Committed'
      BY SMTT(60), <1>1, <1>4, <1>6, <1>7, <2>1 DEF IInv, Committed, Words
    <2>10. Certain' BY <1>4, <2>1 DEF Certain
    <2>11. Kept' BY <1>1, <1>4, <2>1, <2>10 DEF Kept, Settled
    <2>12. CommittedUnlessLate'
      <3>1. ASSUME orders, NEW s \in Findable' PROVE s.at <= cover \/ s.late
        <4>1. s \in Findable BY <2>3, <2>4
        <4>2. s.at <= solid \/ s.late
          BY <3>1, <4>1 DEF IInv, CommittedUnlessLate
        <4>3. solid <= cover BY <1>1 DEF IInv, Committed
        <4>4. s.at \in Nat BY <4>1, FindableTyped DEF IInv
        <4> QED BY SMTT(60), <4>2, <4>3, <4>4 DEF IInv, Words
      <3> QED BY <1>4, <2>1, <3>1 DEF CommittedUnlessLate
    <2> QED BY <1>5, <1>7, <2>7, <2>8, <2>9, <2>11, <2>12 DEF IInv, SwitchedOff
  <1> QED BY <1>9, <1>10

LEMMA DeviceSuperblockIInv ==
  ASSUME IInv, DeviceSuperblock
  PROVE  IInv'
  <1>1. PICK end \in {"ok", "failed"}, c \in Outcomes :
          /\ ckpt = "written"
          /\ io' = [io EXCEPT !.ctl = end]
          /\ copies' = c
          /\ UNCHANGED <<pc, sinkVars, recVars, ckpt, orders, image, after, cover,
                         solid, history, acks, mishaps>>
    BY DEF DeviceSuperblock
  <1>2. DOMAIN io = {"flush", "ctl"} BY DEF IInv, Words
  <1>3. DOMAIN io' = {"flush", "ctl"} /\ io'.flush = io.flush
    BY <1>1, <1>2
  <1>4. /\ UNCHANGED <<durable, flight, gen, stale, orders, ckpt, pc, after, top>>
        /\ UNCHANGED <<cover, solid, unbroken, ordered>>
    BY <1>1 DEF sinkVars, recVars, history
  <1>5. Words' BY <1>3, <1>4 DEF IInv, Words
  <1>6. Flushes' BY <1>3, <1>4 DEF IInv, Flushes
  <1>7. Taken' = Taken BY SMTT(60), <1>3, <1>4 DEF Taken
  <1>8. Running /\ Running' BY <1>1, <1>4 DEF IInv, SwitchedOff, Running
  <1>9. (\A i \in Copy : c[i] \in after[i]) /\ c = [i \in Copy |-> c[i]]
    BY DEF Outcomes
  <1>10. Superblocks'
    BY <1>1, <1>4, <1>8, <1>9 DEF IInv, Superblocks, Findable
  <1>11. ~Fresh /\ ~Fresh' BY <1>1, <1>4 DEF Fresh
  <1>12. Committed' BY <1>1, <1>4, <1>7, <1>8, <1>11 DEF IInv, Committed
  <1>13. Guarded => Guarded' BY <1>1, <1>4, <1>9 DEF Guarded
  <1>14. Kept'
    <2>1. orders /\ unbroken => ordered = 0 \/ Guarded
      BY <1>1 DEF IInv, Kept
    <2> QED BY <1>4, <1>11, <1>13, <2>1 DEF Kept
  <1>15. CommittedUnlessLate'
    BY <1>4 DEF IInv, CommittedUnlessLate, Findable
  <1> QED BY <1>5, <1>6, <1>8, <1>10, <1>12, <1>14, <1>15 DEF IInv, SwitchedOff
-----------------------------------------------------------------------------
(* Power cuts and boots *)

LEMMA PowerCutIInv ==
  ASSUME IInv, PowerCut
  PROVE  IInv'
  <1>1. PICK c \in Outcomes : copies' = c BY DEF PowerCut
  <1>2. (\A i \in Copy : c[i] \in after[i]) /\ c = [i \in Copy |-> c[i]]
    BY DEF Outcomes
  <1>3. /\ \A i \in Copy : IsCopy(c[i])
        /\ Rising(c[0] \cup c[1])
    BY <1>2, OutcomeIs DEF IInv
  <1>4. /\ after' = [i \in Copy |-> {c[i]}]
        /\ solid' = ResumesAt(c) /\ ordered' = ResumesAt(c)
    BY <1>1 DEF PowerCut
  <1>5. /\ pc' = "off" /\ top' = 0 /\ durable' = 0 /\ gen' = 0 /\ stale' = TRUE
        /\ flight' = {} /\ ckpt' = "idle" /\ io' = Idle /\ cover' = 0
        /\ unbroken' = FALSE /\ orders' = orders
    BY DEF PowerCut
  <1>6. /\ ResumesAt(c) \in Nat
        /\ \A s \in c[0] \cup c[1] : s.at <= ResumesAt(c)
    BY SMTT(60), <1>3, DecodeIs DEF IsCopy, Copy
  <1>7. Findable' = c[0] \cup c[1]
    BY SMTT(60), <1>4, CertainFound DEF Findable, Found
  <1>8. Words'
    <2>1. DOMAIN io' = {"flush", "ctl"} BY <1>5 DEF Idle
    <2>2. /\ durable' \in Nat /\ gen' \in Nat /\ cover' \in Nat /\ solid' \in Nat
          /\ ordered' \in Nat /\ top' \in Int
      BY SMTT(60), <1>4, <1>5, <1>6
    <2>3. stale' \in BOOLEAN /\ orders' \in BOOLEAN /\ unbroken' \in BOOLEAN
      BY <1>5 DEF IInv, Words
    <2> QED BY <2>1, <2>2, <2>3 DEF Words
  <1>9. Flushes' BY <1>5 DEF Flushes, Idle
  <1>10. ~Running' BY <1>5 DEF Running
  <1>11. Superblocks'
    <2>1. copies' = [i \in Copy |-> copies'[i]] BY <1>1, <1>2
    <2>2. \A i \in Copy : /\ copies'[i] \in after'[i]
                          /\ \A o \in after'[i] : IsCopy(o)
      BY <1>1, <1>3, <1>4
    <2> QED BY <1>3, <1>7, <1>10, <2>1, <2>2 DEF Superblocks
  <1>12. Certain' BY <1>1, <1>4 DEF Certain
  <1>13. SwitchedOff' BY <1>1, <1>4, <1>5, <1>12 DEF SwitchedOff
  <1>14. Committed' BY <1>5, <1>10 DEF Committed, Fresh
  <1>15. Kept' BY <1>5 DEF Kept
  <1>16. CommittedUnlessLate' BY <1>4, <1>6, <1>7 DEF CommittedUnlessLate
  <1> QED BY <1>8, <1>9, <1>11, <1>13, <1>14, <1>15, <1>16 DEF IInv

\* Ring::resume: the generation and the position a boot takes over are no less
\* than those of anything on the medium.
LEMMA BootIInv ==
  ASSUME IInv, Boot
  PROVE  IInv'
  <1>1. /\ Opened(ResumesAt(copies), Decode(copies)) /\ pc = "off"
        /\ UNCHANGED <<flight, ckpt, orders, io, copies, after, cover, solid,
                       ordered>>
        /\ pc' = "settle"
    BY DEF Boot, mediumVars
  <1>2. ~Running /\ Running' BY <1>1 DEF Running
  <1>3. /\ Certain /\ ordered = ResumesAt(copies) /\ solid = ResumesAt(copies)
        /\ ckpt = "idle" /\ io = Idle /\ flight = {} /\ cover = 0
    BY <1>2 DEF IInv, SwitchedOff
  <1>4. /\ \A i \in Copy : copies[i] \in after[i]
        /\ copies = [i \in Copy |-> copies[i]]
    BY DEF IInv, Superblocks
  <1>5. /\ \A i \in Copy : IsCopy(copies[i])
        /\ Rising(copies[0] \cup copies[1])
    BY <1>4, OutcomeIs DEF IInv
  <1>6. Findable = copies[0] \cup copies[1]
    <2>1. ASSUME NEW s \in Findable PROVE s \in copies[0] \cup copies[1]
      <3>1. PICK i \in Copy : \E o \in after[i] : s \in o
        BY FoundIs DEF Findable, Found
      <3> QED BY <1>3, <3>1 DEF Certain, Copy
    <2>2. \A s \in copies[0] \cup copies[1] : s \in Findable
      BY <1>4, OutcomeIs DEF IInv
    <2> QED BY <2>1, <2>2
  <1>7. /\ durable' = ResumesAt(copies) /\ stale' = (Decode(copies) = {})
        /\ gen' = IF Decode(copies) = {} THEN 0
                  ELSE (CHOOSE x \in Decode(copies) : TRUE).gen
        /\ unbroken' = InPlace(copies, gen', stale')
    BY <1>1 DEF Opened
  <1>8. /\ gen' \in Nat /\ durable' \in Nat
        /\ \A s \in Findable : s.gen <= gen' /\ s.at <= durable'
    <2>1. CASE /\ \A i \in Copy : copies[i] = {}
               /\ Decode(copies) = {} /\ ResumesAt(copies) = 0
      BY SMTT(60), <1>6, <1>7, <2>1 DEF Copy
    <2>2. CASE \E s \in copies[0] \cup copies[1] :
              /\ Decode(copies) = {s} /\ ResumesAt(copies) = s.at
              /\ \A t \in copies[0] \cup copies[1] :
                   t.gen <= s.gen /\ t.at <= s.at
      <3>1. PICK s \in copies[0] \cup copies[1] :
              /\ Decode(copies) = {s} /\ ResumesAt(copies) = s.at
              /\ \A t \in copies[0] \cup copies[1] :
                   t.gen <= s.gen /\ t.at <= s.at
        BY <2>2
      <3>2. gen' = s.gen BY <1>7, <3>1
      <3>3. s.gen \in Nat /\ s.at \in Nat BY <1>5 DEF IsCopy, Copy
      <3> QED BY <1>6, <1>7, <3>1, <3>2, <3>3
    <2> QED BY <1>5, <2>1, <2>2, DecodeIs
  <1>9. top' \in Int
    <2>1. SEGMENT \in Nat \ {0} /\ PROLOGUE \in Nat BY RecordingConstants
    <2>2. ResumesAt(copies) \in Nat BY <1>7, <1>8
    <2>3. SEGMENT - (ResumesAt(copies) % SEGMENT) \in Int
      BY SMTT(60), <2>1, <2>2
    <2>4. \/ top' = ResumesAt(copies) + PROLOGUE
          \/ top' = ResumesAt(copies) + (SEGMENT - (ResumesAt(copies) % SEGMENT))
      BY <1>1 DEF Opened
    <2> QED BY SMTT(60), <2>1, <2>2, <2>3, <2>4
  <1>10. Words'
    <2>1. stale' \in BOOLEAN BY <1>7
    <2>2. unbroken' \in BOOLEAN BY <1>7, <2>1 DEF InPlace
    <2> QED BY <1>1, <1>8, <1>9, <2>1, <2>2 DEF IInv, Words
  <1>11. Flushes' BY <1>1, <1>3 DEF Flushes, Idle
  <1>12. Superblocks' BY <1>1, <1>8 DEF IInv, Superblocks, Findable
  <1>13. Committed'
    <2>1. Taken' = durable' BY <1>1, <1>3 DEF Taken, Idle
    <2> QED BY SMTT(60), <1>1, <1>3, <1>7, <1>8, <2>1 DEF Committed, Fresh
  <1>14. Kept'
    <2>1. Certain' BY <1>1, <1>3 DEF Certain
    <2>2. (ordered = ResumesAt(copies))' BY <1>1, <1>3
    <2>3. unbroken' => InPlace(copies', gen', stale') BY <1>1, <1>7
    <2> QED BY <1>1, <1>3, <2>1, <2>2, <2>3 DEF Kept, Settled
  <1>15. CommittedUnlessLate'
    BY <1>1 DEF IInv, CommittedUnlessLate, Findable
  <1> QED
    BY <1>2, <1>10, <1>11, <1>12, <1>13, <1>14, <1>15 DEF IInv, SwitchedOff

\* Parking and powering up change nothing but where the appliance stands.
LEMMA ParkedIInv ==
  ASSUME IInv, Park \/ PowerUp
  PROVE  IInv'
  <1>1. /\ pc \in {"off", "parked"} /\ pc' \in {"off", "parked"}
        /\ UNCHANGED <<sinkVars, recVars, ckpt, orders, io, image, mediumVars,
                       history>>
    BY DEF Park, PowerUp
  <1>2. ~Running /\ ~Running' BY <1>1 DEF Running
  <1>3. /\ UNCHANGED <<durable, flight, gen, stale, orders, ckpt, after, top, io>>
        /\ UNCHANGED <<copies, cover, solid, unbroken, ordered>>
    BY <1>1 DEF sinkVars, recVars, mediumVars, history
  <1>4. Words' BY <1>3 DEF IInv, Words
  <1>5. Flushes' BY <1>3 DEF IInv, Flushes
  <1>6. Superblocks' BY <1>2, <1>3 DEF IInv, Superblocks, Findable
  <1>7. Certain' <=> Certain BY <1>3 DEF Certain
  <1>8. SwitchedOff' BY <1>2, <1>3, <1>7 DEF IInv, SwitchedOff
  <1>9. Fresh' <=> Fresh BY <1>3 DEF Fresh
  <1>10. Committed' BY <1>2, <1>3, <1>9 DEF IInv, Committed
  <1>11. Kept' BY <1>3, <1>7, <1>9 DEF IInv, Kept, Settled, Guarded
  <1>12. CommittedUnlessLate' BY <1>3 DEF IInv, CommittedUnlessLate, Findable
  <1> QED BY <1>4, <1>5, <1>6, <1>8, <1>10, <1>11, <1>12 DEF IInv
-----------------------------------------------------------------------------
(* Deck::checkpoint *)

\* What a checkpoint leaves alone.
LEMMA CheckpointFrame ==
  ASSUME IInv, NEW refused \in BOOLEAN, Checkpoint(refused)
  PROVE  /\ Running /\ Running'
         /\ UNCHANGED <<top, durable, stale, flight, orders, copies, solid,
                        ordered>>
  BY DEF Checkpoint, Running

\* No checkpoint is taken, or the next one is only ordered.
LEMMA OrderIInv ==
  ASSUME IInv, NEW refused \in BOOLEAN, Checkpoint(refused),
         UNCHANGED <<gen, after, unbroken>>,
         \/ UNCHANGED <<ckpt, io, cover>>
         \/ ckpt' = "idle" /\ UNCHANGED <<io, cover>>
         \/ /\ ckpt' = "barrier" /\ orders /\ cover' = Taken
            /\ io' = [io EXCEPT !.ctl = "out"]
  PROVE  IInv'
  <1>1. /\ Running /\ Running'
        /\ UNCHANGED <<top, durable, stale, flight, orders, copies, solid,
                       ordered>>
    BY CheckpointFrame
  <1>2. DOMAIN io = {"flush", "ctl"} BY DEF IInv, Words
  <1>3. DOMAIN io' = {"flush", "ctl"} /\ io'.flush = io.flush BY <1>2
  <1>4. Taken' = Taken BY SMTT(60), <1>1, <1>3 DEF Taken
  <1>5. Taken \in Nat BY TakenIs DEF IInv
  <1>6. cover' \in Nat BY <1>5 DEF IInv, Words
  <1>7. Words' BY <1>1, <1>3, <1>6 DEF IInv, Words
  <1>8. Flushes' BY <1>1, <1>3 DEF IInv, Flushes
  <1>9. Superblocks' BY SMTT(60), <1>1 DEF IInv, Superblocks, Findable
  <1>10. (Fresh' => Fresh /\ UNCHANGED cover) /\ (ckpt' = "written" => ckpt = "written")
    BY <1>2 DEF Fresh
  <1>11. Committed'
    BY SMTT(60), <1>1, <1>4, <1>5, <1>10 DEF IInv, Committed, Words
  <1>12. Certain' <=> Certain BY <1>1 DEF Certain
  <1>13. (Settled' <=> Settled) /\ (Guarded' <=> Guarded)
    BY <1>1, <1>12 DEF Settled, Guarded
  <1>14. Kept' BY <1>1, <1>10, <1>13 DEF IInv, Kept
  <1>15. CommittedUnlessLate'
    BY <1>1 DEF IInv, CommittedUnlessLate, Findable
  <1> QED
    BY <1>1, <1>7, <1>8, <1>9, <1>11, <1>14, <1>15 DEF IInv, SwitchedOff

\* A superblock the device refuses costs a generation.
LEMMA RefusedIInv ==
  ASSUME IInv, NEW refused \in BOOLEAN, Checkpoint(refused),
         gen' = gen + 1, unbroken' = FALSE, ckpt' = "ordered",
         ckpt = "ordered" \/ ~orders,
         UNCHANGED <<io, after, cover>>
  PROVE  IInv'
  <1>1. /\ Running /\ Running'
        /\ UNCHANGED <<top, durable, stale, flight, orders, copies, solid,
                       ordered>>
    BY CheckpointFrame
  <1>2. Taken' = Taken BY SMTT(60), <1>1 DEF Taken
  <1>3. gen' \in Nat BY SMTT(60) DEF IInv, Words
  <1>4. unbroken' \in BOOLEAN OBVIOUS
  <1>5. Words' BY <1>1, <1>3, <1>4 DEF IInv, Words
  <1>6. Flushes' BY <1>1 DEF IInv, Flushes
  <1>7. Superblocks'
    <2>1. \A s \in Findable : s.gen <= gen'
      BY SMTT(60), <1>1, FindableTyped DEF IInv, Words, Superblocks
    <2> QED BY <1>1, <2>1 DEF IInv, Superblocks, Findable
  <1>8. Committed' BY <1>1, <1>2 DEF IInv, Committed, Fresh
  <1>9. Kept' BY DEF Kept
  <1>10. CommittedUnlessLate'
    BY <1>1 DEF IInv, CommittedUnlessLate, Findable
  <1> QED
    BY <1>1, <1>5, <1>6, <1>7, <1>8, <1>9, <1>10 DEF IInv, SwitchedOff
\* A superblock behind a barrier goes to the copy the committed one is not in.
LEMMA WrittenKept ==
  ASSUME IInv, Running, ordered = 0 \/ Settled,
         UNCHANGED <<copies, ordered>>,
         \A i \in Copy \ Selected(gen + 1) : after'[i] = after[i],
         ckpt' = "written"
  PROVE  Kept'
  <1>1. CASE ordered = 0 BY <1>1 DEF Kept
  <1>2. CASE Settled
    <2>1. /\ \A i \in Copy : copies[i] \in after[i]
          /\ \A s \in Findable : s.gen <= gen
          /\ gen \in Nat
      BY DEF IInv, Superblocks, Words
    <2>2. /\ \A i \in Copy : IsCopy(copies[i])
          /\ \A s \in copies[0] \cup copies[1] : s \in Findable
          /\ Rising(copies[0] \cup copies[1])
      BY <2>1, OutcomeIs DEF IInv
    <2>3. \A s \in copies[0] \cup copies[1] :
            s.gen <= gen /\ s.gen \in Nat \ {0} /\ s.at \in Nat
      BY <2>1, <2>2 DEF IsCopy, Copy
    <2>4. \/ (\A i \in Copy : copies[i] = {}) /\ ResumesAt(copies) = 0
          \/ \E s \in copies[0] \cup copies[1] :
               /\ ResumesAt(copies) = s.at
               /\ \A t \in copies[0] \cup copies[1] : t.gen <= s.gen
      BY <2>2, DecodeIs
    <2>5. CASE stale
      <3>1. gen = 0 BY <1>2, <2>5 DEF Settled, InPlace
      <3>2. ResumesAt(copies) = 0 BY SMTT(60), <2>3, <2>4, <3>1
      <3> QED BY <1>2, <3>2 DEF Settled, Kept
    <2>6. CASE ~stale
      <3>1. PICK k \in Copy : k = gen % 2 /\ (gen + 1) % 2 # k
        BY SMTT(60), <2>1 DEF Copy
      <3>2. PICK b \in copies[k] : b.gen = gen
        BY <1>2, <2>6, <3>1 DEF Settled, InPlace
      <3>3. b \in copies[0] \cup copies[1] BY <3>2 DEF Copy
      <3>4. ResumesAt(copies) = b.at
        <4>1. PICK s \in copies[0] \cup copies[1] :
                /\ ResumesAt(copies) = s.at
                /\ \A t \in copies[0] \cup copies[1] : t.gen <= s.gen
          BY <2>4, <3>3 DEF Copy
        <4>2. s.gen = b.gen BY SMTT(60), <2>1, <2>3, <3>2, <3>3, <4>1
        <4>3. s = b BY <2>2, <3>3, <4>2 DEF Rising
        <4> QED BY <4>1, <4>3
      <3>5. copies[k] = {b}
        <4>1. \A x, y \in copies[k] : x = y BY <2>2 DEF IsCopy
        <4> QED BY <4>1
      <3>6. after[k] = {{b}} BY <1>2, <3>5 DEF Settled, Certain
      <3>7. k \in Copy \ Selected(gen + 1) BY <2>6, <3>1 DEF Selected
      <3>8. after'[k] = {{b}} BY <3>6, <3>7
      <3>9. ordered = b.at BY <1>2, <3>4 DEF Settled
      <3>10. Guarded' BY <3>8, <3>9 DEF Guarded
      <3>11. ~Fresh' BY DEF Fresh
      <3> QED BY <3>10, <3>11 DEF Kept
    <2> QED BY <2>5, <2>6
  <1> QED BY <1>1, <1>2

LEMMA WrittenIInv ==
  ASSUME IInv, NEW refused \in BOOLEAN, Checkpoint(refused), NEW s, NEW c,
         s.gen = gen + 1, s.at = durable,
         s.late = (ckpt = "ordered" /\ durable > cover),
         c = Selected(gen + 1),
         gen' = gen + 1, unbroken' = unbroken, ckpt' = "written",
         ckpt = "ordered" \/ ~orders, UNCHANGED cover,
         io' = [io EXCEPT !.ctl = "out"],
         after' = [i \in Copy |-> IF i \in c THEN after[i] \cup {{s}, {}}
                                  ELSE after[i]]
  PROVE  IInv'
  <1>1. /\ Running /\ Running'
        /\ UNCHANGED <<top, durable, stale, flight, orders, copies, solid,
                       ordered>>
    BY CheckpointFrame
  <1>2. DOMAIN io = {"flush", "ctl"} BY DEF IInv, Words
  <1>3. DOMAIN io' = {"flush", "ctl"} /\ io'.flush = io.flush BY <1>2
  <1>4. Taken' = Taken BY SMTT(60), <1>1, <1>3 DEF Taken
  <1>5. gen \in Nat /\ gen' \in Nat /\ durable \in Nat
    BY SMTT(60) DEF IInv, Words
  <1>6. Words' BY <1>1, <1>3, <1>5 DEF IInv, Words
  <1>7. Flushes' BY <1>1, <1>3 DEF IInv, Flushes
  <1>8. \A i \in Copy : \A o \in after'[i] : o \in after[i] \/ o = {s} \/ o = {}
    OBVIOUS
  <1>9. \A t \in Findable' : t \in Findable \/ t = s
    <2> TAKE t \in Findable'
    <2>1. PICK i \in Copy : \E o \in after'[i] : t \in o
      BY SMTT(60), FoundIs DEF Findable, Found
    <2>2. PICK o \in after'[i] : t \in o BY <2>1
    <2>3. CASE o \in after[i] BY <2>2, <2>3 DEF Findable
    <2>4. CASE o = {s} \/ o = {} BY <2>2, <2>4
    <2> QED BY <1>8, <2>3, <2>4
  <1>10. \A t \in Findable : /\ t.gen \in Nat /\ t.at \in Nat
                             /\ t.gen <= gen /\ t.at <= durable
    BY <1>1, FindableTyped DEF IInv, Superblocks
  <1>11. Superblocks'
    <2>1. \A i \in Copy : copies'[i] \in after'[i]
      BY <1>1 DEF IInv, Superblocks
    <2>2. IsCopy({s}) /\ IsCopy({}) BY SMTT(60), <1>5 DEF IsCopy
    <2>3. \A i \in Copy : \A o \in after'[i] : IsCopy(o)
      BY <1>8, <2>2 DEF IInv, Superblocks
    <2>4. \A t \in Findable' : t.gen <= gen' /\ t.at <= durable'
      BY SMTT(60), <1>1, <1>5, <1>9, <1>10
    <2>5. Rising(Findable')
      <3>1. SUFFICES ASSUME NEW t \in Findable', NEW u \in Findable'
                     PROVE  /\ t.gen = u.gen => t = u
                            /\ t.gen < u.gen => t.at <= u.at
        BY DEF Rising
      <3>2. CASE t \in Findable /\ u \in Findable
        BY <3>2 DEF IInv, Superblocks, Rising
      <3>3. CASE t = s \/ u = s BY SMTT(60), <1>5, <1>9, <1>10, <3>3
      <3> QED BY <1>9, <3>2, <3>3
    <2>6. copies' = [i \in Copy |-> copies'[i]] BY <1>1 DEF IInv, Superblocks
    <2> QED BY <2>1, <2>3, <2>4, <2>5, <2>6 DEF Superblocks
  <1>12. Committed' BY <1>1, <1>4 DEF IInv, Committed, Fresh
  <1>13. Kept'
    <2>1. CASE orders /\ unbroken
      <3>1. Fresh BY <2>1 DEF Fresh
      <3>2. ordered = 0 \/ Settled BY <2>1, <3>1 DEF IInv, Kept
      <3>3. \A i \in Copy \ Selected(gen + 1) : after'[i] = after[i] OBVIOUS
      <3> QED BY <1>1, <3>2, <3>3, WrittenKept
    <2>2. CASE ~(orders /\ unbroken) BY <1>1, <2>2 DEF Kept
    <2> QED BY <2>1, <2>2
  <1>14. CommittedUnlessLate'
    <2>1. SUFFICES ASSUME orders, NEW t \in Findable'
                   PROVE  t.at <= solid \/ t.late
      BY <1>1 DEF CommittedUnlessLate
    <2>2. CASE t \in Findable BY <2>1, <2>2 DEF IInv, CommittedUnlessLate
    <2>3. CASE t = s
      <3>1. ckpt = "ordered" /\ solid = cover
        BY <2>1 DEF IInv, Committed, Fresh
      <3>2. CASE durable > cover BY <2>3, <3>1, <3>2
      <3>3. CASE ~(durable > cover)
        BY SMTT(60), <1>5, <2>3, <3>1, <3>3 DEF IInv, Words
      <3> QED BY <3>2, <3>3
    <2> QED BY <1>9, <2>2, <2>3
  <1> QED
    BY <1>1, <1>6, <1>7, <1>11, <1>12, <1>13, <1>14 DEF IInv, SwitchedOff
LEMMA CheckpointIInv ==
  ASSUME IInv, NEW refused \in BOOLEAN, Checkpoint(refused)
  PROVE  IInv'
  <1>1. CASE /\ ckpt = "ordered" \/ (ckpt = "idle" /\ due)
             /\ Ordered
    <2>1. WriteSuperblock(refused) /\ UNCHANGED cover
      BY <1>1 DEF Checkpoint
    <2>2. ckpt = "ordered" \/ ~orders BY <1>1 DEF Ordered
    <2>3. CASE ~Describable(Named, reader)
      <3>1. ckpt' = "idle" /\ UNCHANGED <<gen, io, after, unbroken>>
        BY <2>1, <2>3 DEF WriteSuperblock
      <3> QED BY <2>1, <3>1, OrderIInv
    <2>4. CASE Describable(Named, reader) /\ refused
      <3>1. /\ gen' = gen + 1 /\ unbroken' = (unbroken /\ ~refused)
            /\ ckpt' = "ordered" /\ UNCHANGED <<io, after>>
        BY <2>1, <2>4 DEF WriteSuperblock
      <3>2. unbroken' = FALSE BY <2>4, <3>1
      <3> QED BY <2>1, <2>2, <3>1, <3>2, RefusedIInv
    <2>5. CASE Describable(Named, reader) /\ ~refused
      <3> DEFINE s == [gen |-> gen + 1, at |-> Named, reader |-> reader,
                       late |-> ckpt = "ordered" /\ durable > cover]
      <3> DEFINE c == Selected(gen + 1)
      <3>1. /\ gen' = gen + 1 /\ unbroken' = (unbroken /\ ~refused)
            /\ ckpt' = "written" /\ io' = [io EXCEPT !.ctl = "out"]
            /\ after' = [i \in Copy |-> IF i \in c THEN after[i] \cup {{s}, {}}
                                        ELSE after[i]]
        BY <2>1, <2>5 DEF WriteSuperblock
      <3>2. unbroken' = unbroken
        BY <2>5, <3>1 DEF IInv, Words
      <3>3. /\ s.gen = gen + 1 /\ s.at = durable
            /\ s.late = (ckpt = "ordered" /\ durable > cover)
        BY DEF Named
      <3> HIDE DEF s
      <3> QED BY <2>1, <2>2, <3>1, <3>2, <3>3, WrittenIInv
    <2> QED BY <2>3, <2>4, <2>5
  <1>2. CASE /\ ckpt = "ordered" \/ (ckpt = "idle" /\ due)
             /\ ~Ordered
    <2>1. OrderCheckpoint(refused) /\ UNCHANGED <<gen, image, after, unbroken>>
      BY <1>2 DEF Checkpoint
    <2>2. orders BY <1>2 DEF Ordered
    <2>3. \/ UNCHANGED <<ckpt, io, cover>>
          \/ /\ ckpt' = "barrier" /\ cover' = Taken
             /\ io' = [io EXCEPT !.ctl = "out"]
      BY <2>1 DEF OrderCheckpoint
    <2> QED BY <2>1, <2>2, <2>3, OrderIInv
  <1>3. CASE ~(ckpt = "ordered" \/ (ckpt = "idle" /\ due))
    <2>1. UNCHANGED <<ckpt, gen, io, after, unbroken, cover>>
      BY <1>3 DEF Checkpoint
    <2> QED BY <2>1, OrderIInv
  <1> QED BY <1>1, <1>2, <1>3

-----------------------------------------------------------------------------
(* Theorems *)

LEMMA InitIInv ==
  ASSUME Init PROVE IInv
  <1>1. Found(after) = {} BY SMTT(60), FoundIs DEF Init, Copy
  <1>2. Findable = {} BY <1>1 DEF Findable, Found
  <1>3. Words
    <2>1. DOMAIN io = {"flush", "ctl"} BY DEF Init, Idle
    <2>2. PROLOGUE \in Nat BY RecordingConstants
    <2>3. stale \in BOOLEAN /\ orders \in BOOLEAN /\ unbroken \in BOOLEAN
      BY DEF Init
    <2> QED BY SMTT(60), <2>1, <2>2, <2>3 DEF Init, Words
  <1>4. Flushes BY DEF Init, Flushes, Idle
  <1>5. Superblocks
    BY <1>2 DEF Init, Superblocks, IsCopy, Rising
  <1>6. Running BY DEF Init, Running
  <1>7. Committed BY SMTT(60) DEF Init, Committed, Taken, Idle, Fresh
  <1>8. Kept BY DEF Init, Kept
  <1>9. CommittedUnlessLate BY <1>2 DEF CommittedUnlessLate
  <1> QED BY <1>3, <1>4, <1>5, <1>6, <1>7, <1>8, <1>9 DEF IInv, SwitchedOff

LEMMA NextIInv ==
  ASSUME IInv, [Next]_vars PROVE IInv'
  <1>1. ASSUME NEW claim, Settle(claim) PROVE IInv' BY <1>1, SettleIInv
  <1>2. ASSUME NEW kept \in BOOLEAN, Offer(kept) PROVE IInv'
    BY <1>2, OfferIInv
  <1>3. ASSUME NEW refused \in BOOLEAN, Advance(refused) PROVE IInv'
    BY <1>3, AdvanceIInv
  <1>4. ASSUME NEW refused \in BOOLEAN, Checkpoint(refused) PROVE IInv'
    BY <1>4, CheckpointIInv
  <1>5. CASE UNCHANGED vars
    <2>1. UNCHANGED <<pc, sinkVars, recVars, ckpt, orders, io, mediumVars, history>>
      BY <1>5 DEF vars
    <2>2. UNCHANGED <<pc, durable, flight, gen, stale, orders, ckpt, after, top, io,
                      copies, cover, solid, unbroken, ordered>>
      BY <2>1 DEF sinkVars, recVars, mediumVars, history
    <2> QED
      BY <2>2
         DEF IInv, Words, Flushes, Superblocks, SwitchedOff, Committed, Kept,
             CommittedUnlessLate, Findable, Running, Fresh, Certain, Settled,
             Guarded, Taken
  <1> QED
    BY <1>1, <1>2, <1>3, <1>4, <1>5, DeviceFlushIInv, DeviceBarrierIInv,
       DeviceSuperblockIInv, PowerCutIInv, BootIInv, ParkedIInv
       DEF Next, Pass, Device

\* The invariant holds in every state of the recording, whatever the device
\* refuses, fails or loses and whenever the power is cut.
THEOREM Invariance == Spec => []IInv
  <1>1. Init => IInv BY InitIInv
  <1>2. IInv /\ [Next]_vars => IInv' BY NextIInv
  <1> QED BY <1>1, <1>2, PTL DEF Spec

\* On a device that honours barriers a power cut at any instant leaves a copy
\* from which the boot resumes no earlier than the last committed superblock
\* named, while no generation was spent in vain (encode_superblock's parity,
\* decode_superblock, Deck::settle).
THEOREM SurvivesPowerCut == Spec => []CheckpointSurvives
  <1>1. IInv => CheckpointSurvives BY KeptSurvives
  <1> QED BY <1>1, Invariance, PTL

\* On a device that honours barriers a superblock a power cut can leave names
\* only committed payload, unless a flush was acknowledged between its barrier
\* and its composition (Deck::order_checkpoint, Deck::write_superblock).
THEOREM CommittedTheorem == Spec => []CommittedUnlessLate
  <1>1. IInv => CommittedUnlessLate BY DEF IInv
  <1> QED BY <1>1, Invariance, PTL

=============================================================================
