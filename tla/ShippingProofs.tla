--------------------------- MODULE ShippingProofs ---------------------------
(***************************************************************************)
(* What the ingest acknowledges, for every segment and frame size, set of  *)
(* tables and number of connections.                                       *)
(*                                                                         *)
(* A position that was stored once stays stored, so whatever names one is  *)
(* typed by how far the ingest has got: the invariant is one type, which   *)
(* grows with the cursor.                                                  *)
(***************************************************************************)
EXTENDS Shipping, TLAPS

USE ZenonT(60)

Marks(c) == 0..c

Shipment == [position : Int, len : Int]
Reader(c) ==
    [position : Int, durable : Int, answered : BOOLEAN, holdoff : BOOLEAN, acked : Marks(c),
     held : SUBSET Shipment, outstanding : SUBSET Int]
ReadReply == [is : {"delivered", "overrun", "refused", "faulted"}, len : Nat, total : Int,
              first : Int]
Told(c) == [agreed : BOOLEAN, acked : Marks(c)]
NetworkEnd(c) == [agreed : BOOLEAN, item : {"none", "deliver", "ship"}, answer : SUBSET Told(c)]
Channel(c) == [agreed : BOOLEAN, sent_to : Int, held : Marks(c)]

(* The ring's process, whatever rows it holds, and the one mark it owes     *)
Process(pending) ==
    [session : Sessions, cursor : Nat, decoder : BOOLEAN, fed : Int, pending : {pending},
     through : SUBSET Int]
Whole(p) == p \in Process(p.pending)
Owes(p) == \A a, b \in p.through : a = b

Appliance(c) ==
    /\ dl \in Reader(c) /\ relay \in NetworkEnd(c) /\ chan \in Channel(c)
    /\ down \in [Sessions -> Seq(Marks(c))]

Rest ==
    /\ {written, newest} \subseteq Int /\ request \subseteq Int /\ reply \subseteq ReadReply
    /\ opened \in 0..MaxSessions /\ cur \in {0} \cup Sessions
    /\ up \in [Sessions -> Seq(Shipment)]

Server ==
    /\ cursor \in Nat
    /\ \A p, q \in proc : p = q
    /\ \A p \in proc : Whole(p) /\ Owes(p)

IInv == Appliance(cursor) /\ Rest /\ Server

-----------------------------------------------------------------------------

LEMMA MaxOfTwo ==
    ASSUME NEW a \in Int, NEW b \in Int
    PROVE  Max({a, b}) = IF a >= b THEN a ELSE b
<1>1. PICK m \in {a, b} : m = (IF a >= b THEN a ELSE b)
  BY SMTT(60)
<1>2. \A y \in {a, b} : m >= y
  BY <1>1, SMTT(60)
<1>3. \A z \in {a, b} : (\A y \in {a, b} : z >= y) => z = m
  BY <1>1, SMTT(60)
<1>4. Max({a, b}) = CHOOSE z \in {a, b} : \A y \in {a, b} : z >= y
  BY DEF Max
<1> QED  BY <1>1, <1>2, <1>3, <1>4

LEMMA MinOfTwo ==
    ASSUME NEW a \in Int, NEW b \in Int
    PROVE  Min({a, b}) = IF a <= b THEN a ELSE b
<1>1. PICK m \in {a, b} : m = (IF a <= b THEN a ELSE b)
  BY SMTT(60)
<1>2. \A y \in {a, b} : m <= y
  BY <1>1, SMTT(60)
<1>3. \A z \in {a, b} : (\A y \in {a, b} : z <= y) => z = m
  BY <1>1, SMTT(60)
<1>4. Min({a, b}) = CHOOSE z \in {a, b} : \A y \in {a, b} : z <= y
  BY DEF Min
<1> QED  BY <1>1, <1>2, <1>3, <1>4

LEMMA MinOfThree ==
    ASSUME NEW a \in Nat, NEW b \in Nat, NEW c \in Nat
    PROVE  Min({a, b, c}) \in Nat
<1>1. PICK m \in {a, b, c} : \A y \in {a, b, c} : m <= y
  BY SMTT(60)
<1>2. Min({a, b, c}) = CHOOSE z \in {a, b, c} : \A y \in {a, b, c} : z <= y
  BY DEF Min
<1>3. Min({a, b, c}) \in {a, b, c}
  BY <1>1, <1>2
<1> QED  BY <1>3

(* The mark after a step that moves it, and one that does not               *)
LEMMA MaxWith ==
    ASSUME NEW c \in Nat, NEW S, S \subseteq Int, \A a, b \in S : a = b
    PROVE  Max({c} \cup S) \in Nat /\ c <= Max({c} \cup S)
<1>1. CASE S = {}
  <2>1. {c} \cup S = {c, c}
    BY <1>1
  <2>2. Max({c, c}) = c
    BY MaxOfTwo, SMTT(60)
  <2> QED  BY <2>1, <2>2, SMTT(60)
<1>2. CASE S # {}
  <2>1. PICK a \in S : S = {a}
    BY <1>2
  <2>2. {c} \cup S = {c, a} /\ a \in Int /\ c \in Int
    BY <2>1, SMTT(60)
  <2>3. Max({c, a}) = IF c >= a THEN c ELSE a
    BY <2>2, MaxOfTwo
  <2> QED  BY <2>2, <2>3, SMTT(60)
<1> QED  BY <1>1, <1>2

(* Sequences over a set                                                     *)
LEMMA EmptyIsSeq == ASSUME NEW S PROVE <<>> \in Seq(S)
  BY SMTT(60)

LEMMA SeqGrows == ASSUME NEW S, NEW T, S \subseteq T, NEW q \in Seq(S) PROVE q \in Seq(T)
  BY SMTT(60)

LEMMA AppendIsSeq == ASSUME NEW S, NEW q \in Seq(S), NEW e \in S PROVE Append(q, e) \in Seq(S)
  BY SMTT(60)

LEMMA HeadTail ==
    ASSUME NEW S, NEW q \in Seq(S), q # <<>>
    PROVE  Head(q) \in S /\ Tail(q) \in Seq(S)
  BY SMTT(60)

(* What is typed by one mark is typed by every later one.                   *)
LEMMA Grows ==
    ASSUME NEW c \in Nat, NEW e \in Nat, c <= e
    PROVE  /\ Marks(c) \subseteq Marks(e) /\ Reader(c) \subseteq Reader(e)
           /\ NetworkEnd(c) \subseteq NetworkEnd(e) /\ Channel(c) \subseteq Channel(e)
           /\ Seq(Marks(c)) \subseteq Seq(Marks(e))
<1>1. Marks(c) \subseteq Marks(e)
  BY SMTT(60) DEF Marks
<1>2. Reader(c) \subseteq Reader(e)
  BY <1>1 DEF Reader
<1>3. Told(c) \subseteq Told(e)
  BY <1>1 DEF Told
<1>4. NetworkEnd(c) \subseteq NetworkEnd(e)
  BY <1>3 DEF NetworkEnd
<1>5. Channel(c) \subseteq Channel(e)
  BY <1>1 DEF Channel
<1>6. Seq(Marks(c)) \subseteq Seq(Marks(e))
  BY <1>1, SeqGrows
<1> QED  BY <1>1, <1>2, <1>4, <1>5, <1>6

-----------------------------------------------------------------------------
(* The recorder and the reader *)

LEMMA AnswerIs ==
    ASSUME Rest, NEW q \in request
    PROVE  Answer(q) \in ReadReply
           /\ \A how \in {"refused", "faulted"} :
                [is |-> how, len |-> 0, total |-> written, first |-> First] \in ReadReply
<1>1. /\ {written, newest, q, Retained} \subseteq Int
      /\ {BlockUnits, SegBlocks, FrameUnits} \subseteq Nat \ {0}
  BY ShippingConstants, SMTT(60) DEF Rest
<1>2. Segment \in Nat \ {0}
  BY <1>1, SMTT(60) DEF Segment
<1>3. First \in Int
  BY <1>1, <1>2, SMTT(60) DEF First
<1>4. Segment - (q % Segment) \in Nat
  BY <1>1, <1>2, SMTT(60)
<1> DEFINE is == CASE q >= written -> "delivered"
                   [] q < First -> "overrun"
                   [] OTHER -> "delivered"
           len == IF q >= written \/ q < First THEN 0 ELSE Live(q)
<1>5. Answer(q) = [is |-> is, len |-> len, total |-> written, first |-> First]
  BY DEF Answer
<1>6. is \in {"delivered", "overrun", "refused", "faulted"}
  OBVIOUS
<1>7. q < written => Live(q) \in Nat
  <2> SUFFICES ASSUME q < written PROVE Live(q) \in Nat
    OBVIOUS
  <2>1. written - q \in Nat
    BY <1>1, SMTT(60)
  <2> QED  BY <1>1, <1>4, <2>1, MinOfThree DEF Live
<1>8. len \in Nat
  BY <1>1, <1>7, SMTT(60)
<1> HIDE DEF is, len
<1>9. [is |-> is, len |-> len, total |-> written, first |-> First] \in ReadReply
  BY <1>1, <1>3, <1>6, <1>8 DEF ReadReply
<1>10. Answer(q) \in ReadReply
  BY <1>5, <1>9
<1>11. ASSUME NEW how \in {"refused", "faulted"}
       PROVE  [is |-> how, len |-> 0, total |-> written, first |-> First] \in ReadReply
  <2>1. 0 \in Nat
    BY SMTT(60)
  <2> QED  BY <1>1, <1>3, <1>11, <2>1 DEF ReadReply
<1> QED  BY <1>10, <1>11

LEMMA NoteDurableKeeps ==
    ASSUME NEW c, NEW d \in Reader(c), NEW total \in Int
    PROVE  NoteDurable(d, total) \in Reader(c)
<1>1. d.durable \in Int
  BY DEF Reader
<1>2. Max({d.durable, total}) \in Int
  BY <1>1, MaxOfTwo
<1> DEFINE m == Max({d.durable, total})
<1>3. NoteDurable(d, total) = [d EXCEPT !.durable = m, !.answered = TRUE]
  BY DEF NoteDurable
<1>4. m \in Int
  BY <1>2
<1> HIDE DEF m
<1> QED  BY <1>3, <1>4 DEF Reader

LEMMA ClaimedKeeps ==
    ASSUME NEW c, NEW d \in Reader(c), NEW offset \in Int, NEW r \in ReadReply
    PROVE  Claimed(d, offset, r) \in Reader(c)
<1> DEFINE free == [d EXCEPT !.outstanding = {}]
           ship == [position |-> offset, len |-> r.len]
           held == [free EXCEPT !.held = {ship}]
<1>1. r.len \in Nat /\ r.len \in Int /\ r.total \in Int /\ r.first \in Int
      /\ r.is \in {"delivered", "overrun", "refused", "faulted"}
  BY SMTT(60) DEF ReadReply
<1>2. free \in Reader(c)
  BY DEF Reader
<1>3. ship \in Shipment
  BY <1>1 DEF Shipment
<1> HIDE DEF free, ship
<1>4. held \in Reader(c)
  BY <1>2, <1>3 DEF Reader
<1> HIDE DEF held
<1>5. NoteDurable(free, r.total) \in Reader(c) /\ NoteDurable(held, r.total) \in Reader(c)
  BY <1>1, <1>2, <1>4, NoteDurableKeeps
<1>6. \A e \in Reader(c) : HoldOff(e) \in Reader(c)
  BY DEF HoldOff, Reader
<1>7. \A e \in Reader(c) : Resynchronise(e, offset, r.first) \in Reader(c)
  <2> SUFFICES ASSUME NEW e \in Reader(c) PROVE Resynchronise(e, offset, r.first) \in Reader(c)
    OBVIOUS
  <2>1. [e EXCEPT !.position = r.first] \in Reader(c)
    BY <1>1 DEF Reader
  <2> QED  BY <2>1 DEF Resynchronise
<1>8. /\ r.is = "delivered" /\ r.len = 0 =>
           Claimed(d, offset, r) = HoldOff(NoteDurable(free, r.total))
      /\ r.is = "delivered" /\ r.len > 0 => Claimed(d, offset, r) = NoteDurable(held, r.total)
      /\ r.is = "overrun" =>
           Claimed(d, offset, r) =
             HoldOff(Resynchronise(NoteDurable(free, r.total), offset, r.first))
      /\ r.is = "refused" => Claimed(d, offset, r) = HoldOff(NoteDurable(free, r.total))
      /\ r.is = "faulted" => Claimed(d, offset, r) = HoldOff(free)
  BY <1>1, SMTT(60) DEF Claimed, free, held, ship
<1>9. r.len = 0 \/ r.len > 0
  BY <1>1, SMTT(60)
<1> QED  BY <1>1, <1>2, <1>5, <1>6, <1>7, <1>8, <1>9

LEMMA ClaimKeeps ==
    ASSUME IInv, NEW expired
    PROVE  Claim(dl, expired) \in Reader(cursor)
<1>1. /\ dl \in Reader(cursor) /\ dl.outstanding \subseteq Int /\ reply \subseteq ReadReply
  BY DEF IInv, Appliance, Rest, Reader
<1>2. [dl EXCEPT !.outstanding = {}] \in Reader(cursor)
  BY <1>1 DEF Reader
<1>3. CASE dl.outstanding # {} /\ reply # {}
  <2> DEFINE o == CHOOSE o \in dl.outstanding : TRUE
             r == CHOOSE r \in reply : TRUE
  <2>1. o \in Int /\ r \in ReadReply
    BY <1>1, <1>3
  <2>2. Claim(dl, expired) = Claimed(dl, o, r)
    BY <1>3 DEF Claim
  <2> HIDE DEF o, r
  <2> QED  BY <1>1, <2>1, <2>2, ClaimedKeeps
<1>4. CASE dl.outstanding = {} \/ reply = {}
  <2>1. Claim(dl, expired) \in {dl, [dl EXCEPT !.outstanding = {}]}
    BY <1>4 DEF Claim
  <2> QED  BY <1>1, <1>2, <2>1
<1> QED  BY <1>3, <1>4

-----------------------------------------------------------------------------
(* Each action keeps the invariant *)

LEMMA PassKeeps ==
    ASSUME IInv, NEW expired, Pass(expired)
    PROVE  IInv'
<1>1. PICK claimed :
        /\ claimed = Claim(dl, expired)
        /\ dl' = IF MayAsk(claimed) THEN [claimed EXCEPT !.outstanding = {claimed.position}]
                                    ELSE claimed
        /\ request' = IF MayAsk(claimed) THEN {claimed.position} ELSE request
        /\ reply' = IF MayAsk(claimed) \/ dl.outstanding # {} THEN {} ELSE reply
        /\ UNCHANGED <<mediumVars, sessionVars, wireVars, serverVars>>
  BY DEF Pass
<1>2. claimed \in Reader(cursor)
  BY <1>1, ClaimKeeps
<1>3. claimed.position \in Int
  BY <1>2 DEF Reader
<1>4. [claimed EXCEPT !.outstanding = {claimed.position}] \in Reader(cursor)
  <2> DEFINE o == {claimed.position}
  <2>1. o \subseteq Int
    BY <1>3
  <2> HIDE DEF o
  <2> QED  BY <1>2, <2>1 DEF Reader
<1>5. dl' \in Reader(cursor)
  BY <1>1, <1>2, <1>4
<1>6. request' \subseteq Int /\ reply' \subseteq ReadReply
  BY <1>1, <1>3 DEF IInv, Rest
<1>7. UNCHANGED <<written, newest, cur, opened, relay, chan, up, down, srv, proc, cursor, rows>>
  BY <1>1 DEF mediumVars, sessionVars, wireVars, serverVars
<1> QED  BY <1>5, <1>6, <1>7 DEF IInv, Appliance, Rest, Server

LEMMA RecorderKeeps ==
    ASSUME IInv, Write \/ Roll \/ Serve \/ Refuse
    PROVE  IInv'
<1>1. {written, newest, BlockUnits} \subseteq Int
  BY ShippingConstants, SMTT(60) DEF IInv, Rest
<1>2. written + BlockUnits \in Int /\ newest + 1 \in Int
  BY <1>1, SMTT(60)
<1>3. /\ written' \in Int /\ newest' \in Int /\ request' \subseteq Int /\ reply' \subseteq ReadReply
  <2>1. CASE Write \/ Roll
    BY <1>1, <1>2, <2>1 DEF Write, Roll, IInv, Rest
  <2>2. CASE Serve
    BY <1>1, <2>2, AnswerIs DEF Serve, mediumVars, IInv, Rest
  <2>3. CASE Refuse
    BY <1>1, <2>3, AnswerIs DEF Refuse, mediumVars, IInv, Rest
  <2> QED  BY <2>1, <2>2, <2>3
<1>4. UNCHANGED <<dl, cur, opened, relay, chan, up, down, srv, proc, cursor, rows>>
  BY DEF Write, Roll, Serve, Refuse, sessionVars, wireVars, serverVars
<1> QED  BY <1>3, <1>4 DEF IInv, Appliance, Rest, Server

LEMMA HoldoffKeeps ==
    ASSUME IInv, HoldoffEnds
    PROVE  IInv'
<1>1. dl' \in Reader(cursor)
  BY DEF HoldoffEnds, IInv, Appliance, Reader
<1>2. UNCHANGED <<written, newest, request, reply, cur, opened, relay, chan, up, down, srv, proc,
                  cursor, rows>>
  BY DEF HoldoffEnds, recorderVars, mediumVars, sessionVars, wireVars,
         serverVars
<1> QED  BY <1>1, <1>2 DEF IInv, Appliance, Rest, Server

LEMMA NewTyped ==
    ASSUME NEW c \in Nat
    PROVE  NewRelay \in NetworkEnd(c) /\ NewChan \in Channel(c) /\ 0 \in Marks(c) /\ c \in Marks(c)
<1>1. 0 \in Marks(c) /\ c \in Marks(c) /\ 0 \in Int
  BY SMTT(60) DEF Marks
<1>2. NewRelay \in NetworkEnd(c)
  BY DEF NewRelay, NetworkEnd
<1>3. NewChan \in Channel(c)
  BY <1>1 DEF NewChan, Channel
<1> QED  BY <1>1, <1>2, <1>3

LEMMA OpenKeeps ==
    ASSUME IInv, Open
    PROVE  IInv'
<1>1. cursor \in Nat /\ opened \in 0..MaxSessions /\ MaxSessions \in Nat
  BY ShippingConstants DEF IInv, Server, Rest
<1>2. opened + 1 \in Sessions /\ opened + 1 \in 0..MaxSessions
  BY <1>1, SMTT(60) DEF Open, Sessions
<1>3. NewRelay \in NetworkEnd(cursor) /\ NewChan \in Channel(cursor) /\ cursor \in Marks(cursor)
  BY <1>1, NewTyped
<1>4. <<cursor>> \in Seq(Marks(cursor))
  BY <1>3, SMTT(60)
<1> DEFINE n == opened + 1
           q == <<cursor>>
<1>5. /\ opened' = n /\ cur' = n /\ relay' = NewRelay /\ chan' = NewChan
      /\ down' = [down EXCEPT ![n] = q]
      /\ UNCHANGED <<written, newest, request, reply, dl, up, proc, cursor, rows>>
  BY DEF Open, recorderVars, mediumVars, serverVars
<1>6. n \in Sessions /\ n \in 0..MaxSessions /\ q \in Seq(Marks(cursor))
  BY <1>2, <1>4
<1> HIDE DEF n, q
<1>7. down' \in [Sessions -> Seq(Marks(cursor))]
  BY <1>5, <1>6 DEF IInv, Appliance
<1> QED  BY <1>3, <1>5, <1>6, <1>7 DEF IInv, Appliance, Rest, Server

LEMMA ReadPositionKeeps ==
    ASSUME NEW c \in Nat, NEW ch \in Channel(c), NEW position \in Marks(c)
    PROVE  ReadPosition(ch, position) \in Channel(c)
<1>1. ch.sent_to \in Int /\ ch.held \in Marks(c) /\ ch.agreed \in BOOLEAN
  BY DEF Channel
<1>2. ch.held \in Int /\ position \in Int
  BY <1>1, SMTT(60) DEF Marks
<1> DEFINE m == Min({position, ch.sent_to})
           h == Max({ch.held, m})
<1>3. m = IF position <= ch.sent_to THEN position ELSE ch.sent_to
  BY <1>1, <1>2, MinOfTwo
<1>4. m \in Int
  BY <1>1, <1>2, <1>3
<1>5. h = IF ch.held >= m THEN ch.held ELSE m
  BY <1>2, <1>4, MaxOfTwo
<1> HIDE DEF h, m
<1>6. h \in Marks(c)
  BY <1>1, <1>2, <1>3, <1>4, <1>5, SMTT(60) DEF Marks
<1>7. [ch EXCEPT !.held = h] \in Channel(c)
  BY <1>6 DEF Channel
<1>8. [ch EXCEPT !.agreed = TRUE, !.held = position] \in Channel(c)
  BY DEF Channel
<1>9. ReadPosition(ch, position) \in
        {[ch EXCEPT !.held = h], [ch EXCEPT !.agreed = TRUE, !.held = position]}
  BY DEF ReadPosition, Judged, h, m
<1> QED  BY <1>7, <1>8, <1>9

(* An item crosses: what the answer states is what the channel holds.       *)
LEMMA CarriedKeeps ==
    ASSUME IInv, NEW item \in {"deliver", "ship"}, chan' \in Channel(cursor),
           NEW agreed \in BOOLEAN,
           NEW held \in Marks(cursor),
           relay' = [relay EXCEPT !.item = item,
                                  !.answer = {[agreed |-> agreed, acked |-> held]}],
           up' \in [Sessions -> Seq(Shipment)], down' \in [Sessions -> Seq(Marks(cursor))],
           UNCHANGED <<written, newest, request, reply, dl, cur, opened, proc, cursor>>
    PROVE  IInv'
<1> DEFINE a == {[agreed |-> agreed, acked |-> held]}
<1>1. a \subseteq Told(cursor)
  <2>1. [agreed |-> agreed, acked |-> held] \in Told(cursor)
    BY DEF Told
  <2> QED  BY <2>1
<1>2. relay' = [relay EXCEPT !.item = item, !.answer = a]
  OBVIOUS
<1> HIDE DEF a
<1>3. relay' \in NetworkEnd(cursor)
  BY <1>1, <1>2 DEF IInv, Appliance, NetworkEnd
<1> QED  BY <1>3 DEF IInv, Appliance, Rest, Server

LEMMA CarryDeliverKeeps ==
    ASSUME IInv, CarryDeliver
    PROVE  IInv'
<1>1. cursor \in Nat /\ chan \in Channel(cursor) /\ down \in [Sessions -> Seq(Marks(cursor))]
      /\ cur \in Sessions /\ up \in [Sessions -> Seq(Shipment)]
  BY DEF IInv, Appliance, Rest, Server, CarryDeliver
<1>2. down[cur] \in Seq(Marks(cursor)) /\ down[cur] # <<>>
  BY <1>1 DEF CarryDeliver
<1>3. Head(down[cur]) \in Marks(cursor) /\ Tail(down[cur]) \in Seq(Marks(cursor))
  BY <1>2, HeadTail
<1>4. chan' \in Channel(cursor)
  BY <1>1, <1>3, ReadPositionKeeps DEF CarryDeliver
<1>5. chan'.agreed \in BOOLEAN /\ chan'.held \in Marks(cursor)
  BY <1>4 DEF Channel
<1> DEFINE t == Tail(down[cur])
<1>6. down' = [down EXCEPT ![cur] = t]
  BY DEF CarryDeliver
<1> HIDE DEF t
<1>7. down' \in [Sessions -> Seq(Marks(cursor))]
  BY <1>1, <1>3, <1>6 DEF t
<1>8. /\ relay' = [relay EXCEPT !.item = "deliver",
                                !.answer = {[agreed |-> chan'.agreed, acked |-> chan'.held]}]
      /\ UNCHANGED <<written, newest, request, reply, dl, cur, opened, up, proc, cursor>>
  BY DEF CarryDeliver, recorderVars, mediumVars, serverVars
<1> QED  BY <1>1, <1>4, <1>5, <1>7, <1>8, CarriedKeeps

LEMMA CarryShipKeeps ==
    ASSUME IInv, CarryShip
    PROVE  IInv'
<1>1. PICK s \in dl.held :
        /\ up' = [up EXCEPT ![cur] = Append(up[cur], s)]
        /\ chan' = [chan EXCEPT !.sent_to = Max({chan.sent_to, s.position + s.len})]
  BY DEF CarryShip
<1>2. /\ cursor \in Nat /\ chan \in Channel(cursor) /\ down \in [Sessions -> Seq(Marks(cursor))]
      /\ cur \in Sessions /\ up \in [Sessions -> Seq(Shipment)] /\ s \in Shipment
  BY DEF IInv, Appliance, Rest, Server, CarryShip, IsShipping, Reader
<1>3. Append(up[cur], s) \in Seq(Shipment)
  BY <1>2, AppendIsSeq
<1>4. up' \in [Sessions -> Seq(Shipment)]
  BY <1>1, <1>2, <1>3
<1>5. s.position \in Int /\ s.len \in Int /\ chan.sent_to \in Int
      /\ chan.agreed \in BOOLEAN /\ chan.held \in Marks(cursor)
  BY <1>2 DEF Shipment, Channel
<1> DEFINE e == s.position + s.len
           m == Max({chan.sent_to, e})
<1>6. e \in Int
  BY <1>5, SMTT(60)
<1> HIDE DEF e
<1>7. m \in Int
  BY <1>5, <1>6, MaxOfTwo
<1>8. chan' = [chan EXCEPT !.sent_to = m]
  BY <1>1 DEF e
<1> HIDE DEF m
<1>9. chan' \in Channel(cursor)
  BY <1>2, <1>7, <1>8 DEF Channel
<1>10. /\ relay' = [relay EXCEPT !.item = "ship",
                                 !.answer = {[agreed |-> chan.agreed, acked |-> chan.held]}]
       /\ UNCHANGED <<written, newest, request, reply, dl, cur, opened, down, proc, cursor>>
  BY DEF CarryShip, recorderVars, mediumVars, serverVars
<1> QED  BY <1>2, <1>4, <1>5, <1>9, <1>10, CarriedKeeps

LEMMA TellKeeps ==
    ASSUME NEW c \in Nat, NEW d \in Reader(c), NEW claimed \in Marks(c)
    PROVE  /\ ResumeFrom(d, claimed) \in Reader(c) /\ Acknowledged(d, claimed) \in Reader(c)
           /\ Shipped(d) \in Reader(c)
<1>1. claimed \in Int /\ d.durable \in Int /\ d.acked \in Marks(c) /\ d.acked \in Int
      /\ d.held \subseteq Shipment
  BY SMTT(60) DEF Reader, Marks
<1>2. ResumeFrom(d, claimed) \in Reader(c)
  <2> DEFINE p == IF d.answered /\ claimed > d.durable THEN d.durable ELSE claimed
  <2>1. p \in Int
    BY <1>1
  <2>2. ResumeFrom(d, claimed) = [d EXCEPT !.position = p]
    BY DEF ResumeFrom
  <2> HIDE DEF p
  <2> QED  BY <2>1, <2>2 DEF Reader
<1>3. Acknowledged(d, claimed) \in Reader(c)
  <2> DEFINE m == Max({d.acked, claimed})
  <2>1. m \in Marks(c)
    BY <1>1, MaxOfTwo
  <2>2. Acknowledged(d, claimed) = [d EXCEPT !.acked = m]
    BY DEF Acknowledged
  <2> HIDE DEF m
  <2> QED  BY <2>1, <2>2 DEF Reader
<1>4. Shipped(d) \in Reader(c)
  <2>1. CASE d.held = {}
    BY <2>1 DEF Shipped
  <2>2. CASE d.held # {}
    <3> DEFINE s == CHOOSE h \in d.held : TRUE
               p == s.position + s.len
    <3>1. s \in Shipment
      BY <1>1, <2>2
    <3>2. Shipped(d) = [d EXCEPT !.held = {}, !.position = p]
      BY <2>2 DEF Shipped
    <3> HIDE DEF s
    <3>3. p \in Int
      BY <3>1, SMTT(60) DEF Shipment
    <3> HIDE DEF p
    <3> QED  BY <3>2, <3>3 DEF Reader
  <2> QED  BY <2>1, <2>2
<1> QED  BY <1>2, <1>3, <1>4

LEMMA ClaimAnswerKeeps ==
    ASSUME IInv, ClaimAnswer
    PROVE  IInv'
<1>1. PICK a \in relay.answer :
        \E told \in {Acknowledged(IF a.agreed /\ ~relay.agreed THEN ResumeFrom(dl, a.acked) ELSE dl,
                                  a.acked)} :
          /\ dl' = IF relay.item = "ship" THEN Shipped(told) ELSE told
          /\ relay' = [agreed |-> relay.agreed \/ a.agreed, item |-> "none", answer |-> {}]
  BY DEF ClaimAnswer
<1>2. cursor \in Nat /\ dl \in Reader(cursor) /\ relay \in NetworkEnd(cursor)
  BY DEF IInv, Appliance, Server
<1>3. a \in Told(cursor) /\ a.acked \in Marks(cursor)
  BY <1>2 DEF NetworkEnd, Told
<1> DEFINE d == IF a.agreed /\ ~relay.agreed THEN ResumeFrom(dl, a.acked) ELSE dl
<1>4. d \in Reader(cursor)
  BY <1>2, <1>3, TellKeeps
<1>5. PICK told :
        /\ told = Acknowledged(d, a.acked)
        /\ dl' = IF relay.item = "ship" THEN Shipped(told) ELSE told
  BY <1>1
<1> HIDE DEF d
<1>6. told \in Reader(cursor)
  BY <1>2, <1>3, <1>4, <1>5, TellKeeps
<1>7. dl' \in Reader(cursor)
  BY <1>2, <1>3, <1>5, <1>6, TellKeeps
<1>8. relay' \in NetworkEnd(cursor)
  <2> DEFINE g == relay.agreed \/ a.agreed
  <2>1. g \in BOOLEAN
    OBVIOUS
  <2>2. relay' = [agreed |-> g, item |-> "none", answer |-> {}]
    BY <1>1
  <2> HIDE DEF g
  <2> QED  BY <2>1, <2>2 DEF NetworkEnd
<1>9. UNCHANGED <<written, newest, request, reply, cur, opened, chan, up, down, srv, proc, cursor,
                  rows>>
  BY DEF ClaimAnswer, recorderVars, mediumVars, wireVars, serverVars
<1> QED  BY <1>7, <1>8, <1>9 DEF IInv, Appliance, Rest, Server

LEMMA LoseKeeps ==
    ASSUME IInv, Lose
    PROVE  IInv'
<1>1. cursor \in Nat /\ down \in [Sessions -> Seq(Marks(cursor))]
  BY DEF IInv, Appliance, Server
<1>2. NewRelay \in NetworkEnd(cursor) /\ NewChan \in Channel(cursor)
  BY <1>1, NewTyped
<1> DEFINE q == <<>>
<1>3. q \in Seq(Marks(cursor)) /\ down' = [down EXCEPT ![cur] = q]
  BY EmptyIsSeq DEF Lose
<1> HIDE DEF q
<1>4. down' \in [Sessions -> Seq(Marks(cursor))]
  BY <1>1, <1>3
<1>5. /\ cur' = 0 /\ relay' = NewRelay /\ chan' = NewChan
      /\ UNCHANGED <<written, newest, request, reply, dl, opened, up, srv, proc, cursor, rows>>
  BY DEF Lose, recorderVars, mediumVars, serverVars
<1> QED  BY <1>2, <1>4, <1>5 DEF IInv, Appliance, Rest, Server

(* Decoding leaves the process owing one mark, whatever it made of the run. *)
LEMMA ArrivedOwes ==
    ASSUME NEW p, Whole(p), Owes(p), NEW f \in Shipment
    PROVE  Whole(Arrived(p, f)) /\ Owes(Arrived(p, f))
<1> DEFINE to == f.position + f.len
<1>1. f.position \in Int /\ f.len \in Int /\ BlockUnits \in Nat \ {0}
  BY ShippingConstants DEF Shipment
<1>2. to \in Int
  BY <1>1, SMTT(60)
<1>3. CompleteThrough(to) \in Int
  <2> HIDE DEF to
  <2> QED  BY <1>1, <1>2, SMTT(60) DEF CompleteThrough
<1>4. ASSUME NEW from PROVE Whole(Decode(p, from, to)) /\ Owes(Decode(p, from, to))
  <2> DEFINE new == Built(p, from, to)
             rest == Held(p.pending, new)
             mark == IF new = {} THEN p.through ELSE {CompleteThrough(to)}
             q == Decode(p, from, to)
  <2>1. q = [p EXCEPT !.decoder = TRUE, !.fed = to, !.pending = rest, !.through = mark]
    BY DEF Decode
  <2>2. mark \subseteq Int /\ \A a, b \in mark : a = b
    BY <1>3 DEF Owes, Whole, Process
  <2> HIDE DEF new, rest, mark, q, to
  <2>3. q \in Process(rest)
    BY <1>2, <2>1, <2>2 DEF Whole, Process
  <2>4. q.pending = rest /\ q.through = mark
    BY <2>1 DEF Whole, Process
  <2>5. Whole(q) /\ Owes(q)
    BY <2>2, <2>3, <2>4 DEF Whole, Owes
  <2> QED  BY <2>5 DEF q
<1>5. LET q == [p EXCEPT !.decoder = FALSE, !.fed = 0] IN Whole(q) /\ Owes(q)
  <2> DEFINE q == [p EXCEPT !.decoder = FALSE, !.fed = 0]
  <2>1. 0 \in Int
    BY SMTT(60)
  <2>2. q \in Process(p.pending)
    BY <2>1 DEF Whole, Process
  <2>3. q.pending = p.pending /\ q.through = p.through
    BY DEF Whole, Process
  <2> HIDE DEF q
  <2>4. Whole(q) /\ Owes(q)
    BY <2>2, <2>3 DEF Whole, Owes
  <2> QED  BY <2>4 DEF q
<1>6. Whole(Resync(p, f.position, to)) /\ Owes(Resync(p, f.position, to))
  <2> HIDE DEF to
  <2> DEFINE heads == {BlockUnits * k : k \in {j \in Blocks : IsHeader(j)}}
                        \cap (f.position..(to - 1))
  <2>1. Resync(p, f.position, to) = IF heads = {} THEN [p EXCEPT !.decoder = FALSE, !.fed = 0]
                                    ELSE Decode(p, Min(heads), to)
    BY DEF Resync
  <2> HIDE DEF heads
  <2> QED  BY <1>4, <1>5, <2>1
<1>7. Arrived(p, f) = IF p.decoder /\ p.fed = f.position THEN Decode(p, f.position, to)
                      ELSE Resync(p, f.position, to)
  BY DEF Arrived
<1> HIDE DEF to
<1> QED  BY <1>4, <1>6, <1>7

LEMMA ReceiveKeeps ==
    ASSUME IInv, NEW s \in Sessions, Receive(s)
    PROVE  IInv'
<1>1. up \in [Sessions -> Seq(Shipment)] /\ up[s] \in Seq(Shipment) /\ up[s] # <<>>
  BY DEF IInv, Rest, Receive
<1>2. Head(up[s]) \in Shipment /\ Tail(up[s]) \in Seq(Shipment)
  BY <1>1, HeadTail
<1>3. up' \in [Sessions -> Seq(Shipment)]
  <2> DEFINE t == Tail(up[s])
  <2>1. up' = [up EXCEPT ![s] = t]
    BY DEF Receive
  <2> HIDE DEF t
  <2> QED  BY <1>1, <1>2, <2>1 DEF t
<1>4. PICK p \in (IF proc = {} THEN {NewProc(s)} ELSE {Watch(q, s) : q \in proc}) :
        proc' = {Arrived(p, Head(up[s]))}
  BY DEF Receive
<1>5. Whole(p) /\ Owes(p)
  <2>1. CASE proc = {}
    <3> DEFINE none == [t \in Tables |-> <<>>]
    <3>1. p = [session |-> s, cursor |-> cursor, decoder |-> FALSE, fed |-> 0,
               pending |-> none, through |-> {}]
      BY <1>4, <2>1 DEF NewProc
    <3>2. cursor \in Nat /\ 0 \in Int
      BY SMTT(60) DEF IInv, Server
    <3> HIDE DEF none
    <3>3. p \in Process(none) /\ p.pending = none /\ p.through = {}
      BY <3>1, <3>2 DEF Process
    <3> QED  BY <3>3 DEF Whole, Owes
  <2>2. CASE proc # {}
    <3>1. PICK q \in proc : p = Watch(q, s)
      BY <1>4, <2>2
    <3>2. Whole(q) /\ Owes(q)
      BY DEF IInv, Server
    <3>3. p = [q EXCEPT !.session = s]
      BY <3>1 DEF Watch
    <3>4. p \in Process(q.pending) /\ p.pending = q.pending /\ p.through = q.through
      BY <3>2, <3>3 DEF Whole, Process
    <3> QED  BY <3>2, <3>4 DEF Whole, Owes
  <2> QED  BY <2>1, <2>2
<1>6. Whole(Arrived(p, Head(up[s]))) /\ Owes(Arrived(p, Head(up[s])))
  BY <1>2, <1>5, ArrivedOwes
<1>7. UNCHANGED <<written, newest, request, reply, dl, cur, opened, relay, chan, down, cursor,
                  rows>>
  BY DEF Receive, recorderVars, mediumVars, sessionVars
<1> QED  BY <1>3, <1>4, <1>6, <1>7 DEF IInv, Appliance, Rest, Server

LEMMA AckKeeps ==
    ASSUME IInv, NEW s \in Sessions, Ack(s)
    PROVE  IInv'
<1>1. cursor \in Nat /\ down \in [Sessions -> Seq(Marks(cursor))]
  BY DEF IInv, Appliance, Server
<1> DEFINE q == Append(down[s], cursor)
<1>2. q \in Seq(Marks(cursor))
  BY <1>1, NewTyped, AppendIsSeq
<1>3. down' = down \/ down' = [down EXCEPT ![s] = q]
  BY DEF Ack, AckedPosition
<1> HIDE DEF q
<1>4. down' \in [Sessions -> Seq(Marks(cursor))]
  BY <1>1, <1>2, <1>3
<1>5. UNCHANGED <<written, newest, request, reply, dl, cur, opened, relay, chan, up, proc, cursor,
                  rows>>
  BY DEF Ack, recorderVars, mediumVars, sessionVars, serverVars
<1> QED  BY <1>4, <1>5 DEF IInv, Appliance, Rest, Server

(* A step of the ingest: the mark moves forward, if it moves.               *)
LEMMA IngestKeeps ==
    ASSUME IInv, cursor' \in Nat, cursor <= cursor', up' \in [Sessions -> Seq(Shipment)],
           \A p, q \in proc' : p = q, \A p \in proc' : Whole(p) /\ Owes(p),
           UNCHANGED <<written, newest, request, reply, dl, cur, opened, relay, chan, down>>
    PROVE  IInv'
<1>1. cursor \in Nat
  BY DEF IInv, Server
<1>2. /\ Reader(cursor) \subseteq Reader(cursor')
      /\ NetworkEnd(cursor) \subseteq NetworkEnd(cursor')
      /\ Channel(cursor) \subseteq Channel(cursor')
      /\ Seq(Marks(cursor)) \subseteq Seq(Marks(cursor'))
  BY <1>1, Grows
<1>3. Appliance(cursor)'
  BY <1>2 DEF IInv, Appliance
<1>4. Rest' /\ Server'
  BY DEF IInv, Rest, Server
<1> QED  BY <1>3, <1>4 DEF IInv

LEMMA AdvancedForward ==
    ASSUME IInv, NEW p \in proc, NEW good
    PROVE  AdvancedTo(p, good) \in Nat /\ cursor <= AdvancedTo(p, good)
<1>1. cursor \in Nat /\ p.through \subseteq Int /\ \A a, b \in p.through : a = b
  BY DEF IInv, Server, Owes, Whole, Process
<1>2. Max({cursor} \cup p.through) \in Nat /\ cursor <= Max({cursor} \cup p.through)
  BY <1>1, MaxWith
<1>3. cursor <= cursor
  BY <1>1, SMTT(60)
<1> QED  BY <1>1, <1>2, <1>3 DEF AdvancedTo

LEMMA FlushKeeps ==
    ASSUME IInv, NEW good, Flush(good)
    PROVE  IInv'
<1>1. PICK p \in proc : proc' = {Flushed(p, good)} /\ cursor' = AdvancedTo(p, good)
  BY DEF Flush
<1>2. cursor' \in Nat /\ cursor <= cursor'
  BY <1>1, AdvancedForward
<1>3. Whole(p) /\ Owes(p) /\ p.cursor \in Nat /\ p.through \subseteq Int
  BY DEF IInv, Server, Whole, Process
<1> DEFINE none == [t \in Tables |-> <<>>]
           m == Max({p.cursor} \cup p.through)
           left == Inserted(p.pending, good).pending
           q == Flushed(p, good)
<1>4. m \in Nat
  BY <1>3, MaxWith DEF Owes
<1>5. q = IF Settled(p, good) THEN [p EXCEPT !.pending = none, !.through = {}, !.cursor = m]
          ELSE [p EXCEPT !.pending = left]
  BY DEF Flushed
<1> HIDE DEF none, m, left, q
<1>6. CASE Settled(p, good)
  <2>1. q = [p EXCEPT !.pending = none, !.through = {}, !.cursor = m]
    BY <1>5, <1>6
  <2>2. q \in Process(none) /\ q.pending = none /\ q.through = {}
    BY <1>3, <1>4, <2>1 DEF Whole, Process
  <2>3. Whole(q) /\ Owes(q)
    BY <2>2 DEF Whole, Owes
  <2> QED  BY <1>1, <1>2, <2>3, IngestKeeps DEF q, Flush, recorderVars, mediumVars, sessionVars,
           wireVars, IInv, Rest
<1>7. CASE ~Settled(p, good)
  <2>1. q = [p EXCEPT !.pending = left]
    BY <1>5, <1>7
  <2>2. q \in Process(left) /\ q.pending = left /\ q.through = p.through
    BY <1>3, <2>1 DEF Whole, Process
  <2>3. Whole(q) /\ Owes(q)
    BY <1>3, <2>2 DEF Whole, Owes
  <2> QED  BY <1>1, <1>2, <2>3, IngestKeeps DEF q, Flush, recorderVars, mediumVars, sessionVars,
           wireVars, IInv, Rest
<1> QED  BY <1>6, <1>7

LEMMA AdvanceFailsKeeps ==
    ASSUME IInv, AdvanceFails
    PROVE  IInv'
<1>1. proc' = {} /\ UNCHANGED <<written, newest, request, reply, dl, cur, opened, relay, chan, up,
                                down, cursor>>
  BY DEF AdvanceFails, recorderVars, mediumVars, sessionVars, wireVars
<1>2. cursor \in Nat /\ cursor <= cursor
  BY SMTT(60) DEF IInv, Server
<1> QED  BY <1>1, <1>2, IngestKeeps DEF IInv, Rest

(* The mark after the process that watched a connection has flushed         *)
LEMMA EndedForward ==
    ASSUME IInv, NEW watching, watching \subseteq proc, NEW good
    PROVE  LET m == Max({cursor} \cup {AdvancedTo(p, good) : p \in watching})
           IN  m \in Nat /\ cursor <= m
<1> DEFINE S == {AdvancedTo(p, good) : p \in watching}
<1>1. \A p \in watching : AdvancedTo(p, good) \in Int
  <2>1. \A p \in watching : AdvancedTo(p, good) \in Nat
    BY AdvancedForward
  <2> QED  BY <2>1, SMTT(60)
<1>2. S \subseteq Int
  BY <1>1
<1>3. \A p, q \in watching : p = q
  BY DEF IInv, Server
<1>4. \A a, b \in S : a = b
  BY <1>3
<1>5. cursor \in Nat
  BY DEF IInv, Server
<1> HIDE DEF S
<1>6. Max({cursor} \cup S) \in Nat /\ cursor <= Max({cursor} \cup S)
  BY <1>2, <1>4, <1>5, MaxWith
<1> QED  BY <1>6 DEF S

LEMMA ServerEndsKeeps ==
    ASSUME IInv, NEW s \in Sessions, NEW good, ServerEnds(s, good)
    PROVE  IInv'
<1> DEFINE watching == {p \in proc : p.session = s}
<1>1. /\ proc' = proc \ watching
      /\ cursor' = Max({cursor} \cup {AdvancedTo(p, good) : p \in watching})
      /\ UNCHANGED <<written, newest, request, reply, dl, cur, opened, relay, chan, down>>
  BY DEF ServerEnds, recorderVars, mediumVars, sessionVars
<1>2. cursor' \in Nat /\ cursor <= cursor'
  <2>1. watching \subseteq proc
    OBVIOUS
  <2> HIDE DEF watching
  <2> QED  BY <1>1, <2>1, EndedForward
<1>3. up' \in [Sessions -> Seq(Shipment)]
  <2> DEFINE q == <<>>
  <2>1. q \in Seq(Shipment) /\ up' = [up EXCEPT ![s] = q]
    BY EmptyIsSeq DEF ServerEnds
  <2> HIDE DEF q
  <2> QED  BY <2>1 DEF IInv, Rest
<1>4. (\A p, q \in proc' : p = q) /\ \A p \in proc' : Whole(p) /\ Owes(p)
  BY <1>1 DEF IInv, Server
<1> QED  BY <1>1, <1>2, <1>3, <1>4, IngestKeeps

LEMMA InitKeeps ==
    ASSUME Init
    PROVE  IInv
<1>1. /\ 0 \in Nat /\ 0 \in Int /\ 0 \in 0..MaxSessions /\ Grown \in Int
      /\ BlockUnits \in Nat \ {0} /\ SegBlocks \in Nat \ {0}
  BY ShippingConstants, SMTT(60)
<1>2. Segment \in Nat \ {0}
  BY <1>1, SMTT(60) DEF Segment
<1>3. Grown \div Segment \in Int
  BY <1>1, <1>2, SMTT(60)
<1>4. cursor = 0 /\ proc = {}
  BY DEF Init
<1>5. 0 \in Marks(0) /\ NewRelay \in NetworkEnd(0) /\ NewChan \in Channel(0)
  BY <1>1, NewTyped
<1>6. NewCursor \in Reader(0)
  BY <1>1, <1>5 DEF NewCursor, Reader
<1>7. down \in [Sessions -> Seq(Marks(0))] /\ up \in [Sessions -> Seq(Shipment)]
  BY EmptyIsSeq DEF Init
<1>8. Appliance(cursor)
  BY <1>4, <1>5, <1>6, <1>7 DEF Init, Appliance
<1>9. Rest
  BY <1>1, <1>3, <1>7 DEF Init, Rest
<1>10. Server
  BY <1>1, <1>4 DEF Server
<1> QED  BY <1>8, <1>9, <1>10 DEF IInv

LEMMA NextKeeps ==
    ASSUME IInv, [Next]_vars
    PROVE  IInv'
<1>1. CASE Poll \/ PollExpired
  BY <1>1, PassKeeps DEF Poll, PollExpired
<1>2. CASE UNCHANGED vars
  <2>1. UNCHANGED <<written, newest, request, reply, dl, cur, opened, relay, chan, up, down, proc,
                    cursor>>
    BY <1>2
       DEF vars, recorderVars, mediumVars, sessionVars, wireVars,
           serverVars
  <2> QED  BY <2>1 DEF IInv, Appliance, Rest, Server
<1> QED
  BY <1>1, <1>2, RecorderKeeps, HoldoffKeeps, OpenKeeps, CarryDeliverKeeps,
     CarryShipKeeps,
     ClaimAnswerKeeps, LoseKeeps, AdvanceFailsKeeps, ReceiveKeeps, AckKeeps, FlushKeeps,
     ServerEndsKeeps
  DEF Next

LEMMA Invariance == Spec => []IInv
<1>1. Init => IInv
  BY InitKeeps
<1>2. IInv /\ [Next]_vars => IInv'
  BY NextKeeps
<1> QED  BY <1>1, <1>2, PTL DEF Spec

(* Nothing is taken as ingested past the ingest's own mark, for every         *)
(* segment and frame size, number of tables and number of connections: no    *)
(* answer, no judgement of the channel and no position the reader states is   *)
(* past the server's durable cursor (Dialogue::acknowledge, Downloads::acknowledged,          *)
(* handler.ex cursors/1).                                                   *)
THEOREM AckedTheorem == Spec => []AckedBehindCursor
<1>1. IInv => AckedBehindCursor
  <2> SUFFICES ASSUME IInv PROVE AckedBehindCursor
    OBVIOUS
  <2>1. dl.acked \in Marks(cursor) /\ chan.held \in Marks(cursor) /\ cursor \in Nat
    BY DEF IInv, Appliance, Server, Reader, Channel
  <2>2. dl.acked <= cursor /\ chan.held <= cursor
    BY <2>1, SMTT(60) DEF Marks
  <2>3. ASSUME NEW s \in Sessions, NEW i \in DOMAIN down[s] PROVE down[s][i] <= cursor
    <3>1. down[s] \in Seq(Marks(cursor))
      BY DEF IInv, Appliance
    <3>2. down[s][i] \in Marks(cursor)
      BY <2>3, <3>1, SMTT(60)
    <3> QED  BY <2>1, <3>2, SMTT(60) DEF Marks
  <2> QED  BY <2>2, <2>3 DEF AckedBehindCursor
<1> QED  BY <1>1, Invariance, PTL

LEMMA StoredByAll ==
    ASSUME NEW p, NEW good, Settled(p, good)
    PROVE  RowsOf(p.pending, Tables) \subseteq Stored(p, good)
<1> SUFFICES ASSUME NEW t \in Tables, NEW k \in ToSet(p.pending[t])
             PROVE  k \in RowsOf(p.pending, good)
  BY DEF RowsOf, Stored
<1>1. p.pending[t] # <<>>
  <2>1. ToSet(<<>>) = {}
    BY SMTT(60) DEF ToSet
  <2> QED  BY <2>1
<1> QED  BY <1>1 DEF Settled, RowsOf

LEMMA MarkMoves ==
    ASSUME IInv, [Next]_vars, cursor' # cursor, NEW p \in proc
    PROVE  RowsOf(p.pending, Tables) \subseteq rows'
<1>1. \A q \in proc : q = p
  BY DEF IInv, Server
<1>2. ASSUME NEW good, Flush(good) PROVE RowsOf(p.pending, Tables) \subseteq rows'
  <2>1. cursor' = AdvancedTo(p, good) /\ rows' = rows \cup Stored(p, good)
    BY <1>1, <1>2 DEF Flush
  <2>2. Settled(p, good)
    BY <2>1 DEF AdvancedTo
  <2> QED  BY <2>1, <2>2, StoredByAll
<1>3. ASSUME NEW s \in Sessions, NEW good, ServerEnds(s, good)
      PROVE  RowsOf(p.pending, Tables) \subseteq rows'
  <2> DEFINE watching == {q \in proc : q.session = s}
  <2>1. /\ cursor' = Max({cursor} \cup {AdvancedTo(q, good) : q \in watching})
        /\ rows' = rows \cup UNION {Stored(q, good) : q \in watching}
    BY <1>3 DEF ServerEnds
  <2>2. cursor \in Int /\ Max({cursor, cursor}) = cursor
    <3>1. cursor \in Int
      BY SMTT(60) DEF IInv, Server
    <3> QED  BY <3>1, MaxOfTwo
  <2>3. ~(\A q \in watching : AdvancedTo(q, good) = cursor)
    <3>1. SUFFICES ASSUME \A q \in watching : AdvancedTo(q, good) = cursor PROVE FALSE
      OBVIOUS
    <3>2. {cursor} \cup {AdvancedTo(q, good) : q \in watching} = {cursor, cursor}
      BY <3>1
    <3> QED  BY <2>1, <2>2, <3>2
  <2>4. PICK q \in watching : AdvancedTo(q, good) # cursor
    BY <2>3
  <2>5. q = p /\ p \in watching
    BY <1>1, <2>4
  <2>6. Settled(p, good)
    BY <2>4, <2>5 DEF AdvancedTo
  <2>7. RowsOf(p.pending, Tables) \subseteq Stored(p, good)
    BY <2>6, StoredByAll
  <2>8. Stored(p, good) \subseteq rows'
    BY <2>1, <2>5
  <2> QED  BY <2>7, <2>8
<1>4. \/ \E good \in SUBSET Tables : Flush(good)
      \/ \E s \in Sessions, good \in SUBSET Tables : ServerEnds(s, good)
  BY DEF Next, vars, serverVars, Write, Roll, Serve, Refuse, Poll,
         PollExpired, Pass,
         HoldoffEnds, Open, CarryDeliver, CarryShip, ClaimAnswer, Lose, AdvanceFails, Receive, Ack
<1> QED  BY <1>2, <1>3, <1>4

(* The mark moves only behind the inserts, whichever tables the store takes  *)
(* and whoever ends first (Ring.settle, and the flush of a process whose      *)
(* connection ended).                                                        *)
THEOREM MarkedTheorem == Spec => MarkedBehindInserts
<1>1. IInv /\ [Next]_vars =>
        [cursor' # cursor => \A p \in proc : RowsOf(p.pending, Tables) \subseteq rows']_vars
  BY MarkMoves
<1> QED  BY <1>1, Invariance, PTL DEF Spec, MarkedBehindInserts
=============================================================================
