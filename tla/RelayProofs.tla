----------------------------- MODULE RelayProofs -----------------------------
(***************************************************************************)
(* The relay, for every number of connections, items and sequence numbers: *)
(* what crosses it reaches the session it was sent on, and the two domains *)
(* agree on what a session carried.                                        *)
(***************************************************************************)
EXTENDS Relay, FiniteSetTheorems, TLAPS

USE ZenonT(60)

(* What the two regions, and the words taken from them, may hold           *)
Item == [sequence : 0..Sequences, op : Operations, len : {0, 1}, tag : 0..MaxConns]
Demand == [sequence : 0..Sequences, op : Operations \cup {"unread"}, len : {0, 1}, tag : 0..MaxConns]
Answer == [sequence : 0..Sequences, op : Operations, status : {"ok", "refused", "unreadable"},
           closed : BOOLEAN, agreed : BOOLEAN, len : {0, 1}]
Held == [session : 0..MaxConns, relayed : Counts, received : Counts, sent : Counts, agreed : BOOLEAN]
Failures == {"none", "unanswered", "faulted", "refused", "too_long"}
Net == [carried : 0..MaxConns, far : {"open", "closed"}, failure : Failures, agreed : BOOLEAN,
        polled : BOOLEAN, closing : BOOLEAN, relayed : Counts, received : Counts, sent : Counts,
        pending : SUBSET [sequence : 0..Sequences, op : Operations], sequence : 0..Sequences]
Conn == [conn : 0..MaxConns, in : {0, 1}, out : {0, 1}, peer : BOOLEAN, consumer : BOOLEAN]

(* What one pass of the network end works on                               *)
Ends == [n : Net, s : Conn, ship : 0..MaxShip]

Types ==
    /\ half \in {"onboarding", "channel"} /\ conns \in 0..MaxConns
    /\ Here \in Ends
    /\ request \in Item /\ reply \in Answer
    /\ term \in [held : Held, served : 0..Sequences, demand : SUBSET Demand]
    /\ \A d, e \in term.demand : d = e
    /\ stream.conn \in {0, conns}
    /\ term.held.session <= conns /\ \A d \in term.demand : d.tag <= conns

(* The network end as a pass finds and leaves it: one item in flight, under *)
(* the sequence that was issued last, for the session that is carried.     *)
Window(x, q) ==
    /\ \A p, r \in x.n.pending : p = r
    /\ \A p \in x.n.pending : p.sequence = q.sequence /\ p.op = q.op
    /\ x.n.sequence = q.sequence
    /\ x.n.pending # {} \/ x.n.far = "open" => q.tag = x.n.carried
    /\ x.n.carried <= conns /\ q.tag <= conns
    /\ \A p \in x.n.pending : p.op = "ship" => x.ship < MaxShip
    /\ x.n.carried = 0 => x.n = [NewNet EXCEPT !.sequence = x.n.sequence]

(* What the terminating end can be working on, late as it may be: an item  *)
(* on a session is issued only once the session's open was answered, so    *)
(* only an open can overtake an item the other end gave up on.             *)
Turns(x, q) ==
    /\ \A d \in term.demand : d.sequence = term.served
    /\ reply.sequence = q.sequence => term.served = q.sequence /\ term.demand = {}
    /\ x.n.far = "open" /\ x.n.pending = {} => term.served = q.sequence /\ term.demand = {}
    /\ q.op # "open" =>
         /\ term.held.session \in {0, q.tag}
         /\ term.demand # {} => term.served = q.sequence
    /\ term.served = q.sequence =>
         /\ \A d \in term.demand : d.op = "unread" \/ d = q
         /\ q.op = "open" /\ term.demand = {} => term.held.session = q.tag
    /\ \A d \in term.demand : d.op \notin {"unread", "open"} => term.held.session \in {0, d.tag}

(* The two accounts of one session, and the session they are of            *)
Same(n, a) == n.relayed = a.relayed /\ n.received = a.received /\ n.sent = a.sent

(* The books while nothing of the session went unanswered or came back      *)
(* unreadable: between two items they are equal; while an item is out they  *)
(* differ by that item.                                                     *)
Settlement(x, q) ==
    x.n.pending = {} =>
      /\ term.served = q.sequence /\ term.demand = {}
      /\ x.n.far = "open" => term.held.session = x.n.carried /\ Same(x.n, term.held)
      /\ x.n.far = "closed" => account = Account(x.n.carried, x.n)

Opening(x, q) ==
    x.n.pending # {} /\ q.op = "open" =>
      /\ x.n.far = "closed" /\ Same(x.n, NoSession)
      /\ reply.sequence = q.sequence =>
           /\ reply.op = q.op /\ reply.status # "refused" /\ ~reply.closed /\ reply.len = 0
           /\ term.held.session = x.n.carried
           /\ Same(term.held, Counted(NoSession, 0))

Moving(x, q) ==
    x.n.pending # {} /\ q.op # "open" =>
      /\ x.n.far = "open"
      /\ q.op = "close" \/ x.s.out = 0
      /\ q.op = "poll" => q.len = 0
      /\ reply.sequence # q.sequence =>
           /\ term.held.session = x.n.carried
           /\ x.n.relayed = term.held.relayed /\ x.n.sent = term.held.sent
           /\ x.n.received = IF q.op = "deliver" THEN Plus(term.held.received, q.len)
                                                 ELSE term.held.received
      /\ reply.sequence = q.sequence =>
           /\ reply.op = q.op /\ reply.status # "refused"
           /\ q.op = "close" => reply.closed /\ reply.len = 0
           /\ LET over == [relayed |-> Plus(x.n.relayed, 1), received |-> x.n.received,
                           sent |-> Plus(x.n.sent, reply.len)]
              IN  IF reply.closed THEN account = Account(x.n.carried, over)
                  ELSE term.held.session = x.n.carried /\ Same(over, term.held)

Books(x, q) ==
    x.n.carried # 0 /\ x.n.failure \notin {"unanswered", "faulted"} =>
      /\ x.n.failure = "none"
      /\ Settlement(x, q) /\ Opening(x, q) /\ Moving(x, q)

IInv == Types /\ Window(Here, request) /\ Turns(Here, request) /\ Books(Here, request)

-----------------------------------------------------------------------------
(* Arithmetic of the accounts *)

LEMMA MinOfTwo ==
    ASSUME NEW a \in Int, NEW b \in Int
    PROVE  Min({a, b}) = IF a <= b THEN a ELSE b
<1>1. PICK m \in {a, b} : m = (IF a <= b THEN a ELSE b)
  BY SMTT(60)
<1>2. \A y \in {a, b} : m <= y
  BY <1>1, SMTT(60)
<1>3. \A z \in {a, b} : (\A y \in {a, b} : z <= y) => z = m
  BY <1>1, SMTT(60)
<1>4. Min({a, b}) = CHOOSE z \in {a, b} : \A y \in {a, b} : z <= y
  BY DEF Min
<1> QED  BY <1>1, <1>2, <1>3, <1>4

(* A counter stays where it saturates.                                     *)
LEMMA PlusCounts ==
    ASSUME NEW n \in Counts, NEW k \in {0, 1}
    PROVE  Plus(n, k) \in Counts /\ Plus(n, 0) = n
<1> MaxCount \in Nat
  BY RelayConstants
<1> n + k \in Int /\ MaxCount \in Int /\ n + 0 = n /\ n \in Int /\ n <= MaxCount /\ n + k >= 0
  BY SMTT(60) DEF Counts
<1>1. Plus(n, k) = IF n + k <= MaxCount THEN n + k ELSE MaxCount
  BY MinOfTwo DEF Plus
<1>2. Plus(n, 0) = IF n <= MaxCount THEN n ELSE MaxCount
  BY MinOfTwo DEF Plus
<1> QED  BY <1>1, <1>2, SMTT(60) DEF Counts

(* Stream::push keeps an answer whole where there is room for one.         *)
LEMMA PushRoom ==
    ASSUME NEW s \in Conn, NEW len \in {0, 1}
    PROVE  /\ Kept(s, len) \in {0, 1} /\ Kept(s, len) <= len
           /\ len = 0 \/ s.out = 0 => Kept(s, len) = len
           /\ Push(s, len) \in Conn /\ Push(s, len).conn = s.conn
<1> s.out \in {0, 1} /\ s.out + len \in Int /\ 1 - s.out \in Int /\ len \in Int /\ 1 \in Int
  BY SMTT(60) DEF Conn
<1>1. Kept(s, len) = IF len <= 1 - s.out THEN len ELSE 1 - s.out
  BY MinOfTwo DEF Kept
<1>2. Min({s.out + len, 1}) = IF s.out + len <= 1 THEN s.out + len ELSE 1
  BY MinOfTwo
<1>3. Min({s.out + len, 1}) \in {0, 1}
  BY <1>2, SMTT(60)
<1>4. Push(s, len) = [s EXCEPT !.out = Min({s.out + len, 1})]
  BY DEF Push
<1>5. Push(s, len) \in Conn /\ Push(s, len).conn = s.conn
  BY <1>3, <1>4, SMTT(60) DEF Conn
<1> QED  BY <1>1, <1>5, SMTT(60)

-----------------------------------------------------------------------------
(* What each outcome of a claim does to the network end *)

LEMMA EndsFields ==
    ASSUME NEW x \in Ends
    PROVE  x.n \in Net /\ x.s \in Conn /\ x.ship \in 0..MaxShip
           /\ x = [n |-> x.n, s |-> x.s, ship |-> x.ship]
  BY SMTT(60) DEF Ends

LEMMA EndsUpdate ==
    ASSUME NEW x \in Ends, NEW n \in Net, NEW s \in Conn, NEW told \in 0..MaxShip
    PROVE  /\ [n |-> n, s |-> s, ship |-> told] \in Ends
           /\ [x EXCEPT !.n = n] = [n |-> n, s |-> x.s, ship |-> x.ship]
           /\ [x EXCEPT !.s = s] = [n |-> x.n, s |-> s, ship |-> x.ship]
           /\ [x EXCEPT !.n = n, !.s = s] = [n |-> n, s |-> s, ship |-> x.ship]
<1>1. [n |-> n, s |-> s, ship |-> told] \in Ends
  BY SMTT(60) DEF Ends
<1>2. [x EXCEPT !.n = n] = [n |-> n, s |-> x.s, ship |-> x.ship]
  BY SMTT(60) DEF Ends
<1>3. [x EXCEPT !.s = s] = [n |-> x.n, s |-> s, ship |-> x.ship]
  BY SMTT(60) DEF Ends
<1>4. [[n |-> n, s |-> x.s, ship |-> x.ship] EXCEPT !.s = s] = [n |-> n, s |-> s, ship |-> x.ship]
  BY SMTT(60)
<1>5. [x EXCEPT !.n = n, !.s = s] = [[x EXCEPT !.n = n] EXCEPT !.s = s]
  BY SMTT(60) DEF Ends
<1> QED  BY <1>1, <1>2, <1>3, <1>4, <1>5

LEMMA EndSessionConn ==
    ASSUME NEW s \in Conn, NEW c
    PROVE  EndSession(s, c) \in Conn /\ EndSession(s, c).out = s.out
           /\ EndSession(s, c).conn = s.conn
<1>1. [s EXCEPT !.consumer = TRUE] \in Conn
  BY DEF Conn
<1>2. [s EXCEPT !.consumer = TRUE].out = s.out /\ [s EXCEPT !.consumer = TRUE].conn = s.conn
  BY SMTT(60) DEF Conn
<1> QED  BY <1>1, <1>2 DEF EndSession

LEMMA WithFailure ==
    ASSUME NEW n \in Net, NEW v, NEW m, m = [n EXCEPT !.failure = v]
    PROVE  m.failure = v /\ m.carried = n.carried /\ m.far = n.far /\ m.pending = n.pending
           /\ m.sequence = n.sequence /\ m.closing = n.closing
  BY SMTT(60) DEF Net

LEMMA FailFields ==
    ASSUME NEW x \in Ends, NEW why \in Failures \ {"none"}
    PROVE  LET y == Fail(x, why)
           IN  /\ y \in Ends /\ y.ship = x.ship
               /\ y.n.failure = IF x.n.failure = "none" THEN why ELSE x.n.failure
               /\ y.n.carried = x.n.carried /\ y.n.far = x.n.far /\ y.n.pending = x.n.pending
               /\ y.n.sequence = x.n.sequence /\ y.n.closing = x.n.closing
               /\ y.s.out = x.s.out /\ y.s.conn = x.s.conn
<1> DEFINE first == IF x.n.failure = "none" THEN why ELSE x.n.failure
           next == [x.n EXCEPT !.failure = first]
           over == EndSession(x.s, x.n.carried)
<1>1. x.n \in Net /\ x.s \in Conn /\ x.ship \in 0..MaxShip
  BY EndsFields
<1>2. next \in Net
  BY <1>1, SMTT(60) DEF Net
<1>3. over \in Conn /\ over.out = x.s.out /\ over.conn = x.s.conn
  BY <1>1, EndSessionConn
<1>4. Fail(x, why) = [x EXCEPT !.n = next, !.s = over]
  BY <1>1, SMTT(60) DEF Fail, Ends
<1> HIDE DEF first
<1>8. /\ next.failure = first /\ next.carried = x.n.carried /\ next.far = x.n.far
      /\ next.pending = x.n.pending /\ next.sequence = x.n.sequence /\ next.closing = x.n.closing
  BY <1>1, WithFailure, SMTT(60)
<1> HIDE DEF next, over
<1>5. Fail(x, why) = [n |-> next, s |-> over, ship |-> x.ship]
  BY <1>1, <1>2, <1>3, <1>4, EndsUpdate
<1>6. [n |-> next, s |-> over, ship |-> x.ship] \in Ends
  BY <1>1, <1>2, <1>3, EndsUpdate
<1>7. Fail(x, why).n = next /\ Fail(x, why).s = over /\ Fail(x, why).ship = x.ship
  BY <1>5, SMTT(60)
<1> QED  BY <1>3, <1>5, <1>6, <1>7, <1>8 DEF first

(* RelayRequester's window is freed, or the far end is taken for closed.   *)
LEMMA FreeFields ==
    ASSUME NEW x \in Ends
    PROVE  LET y == [x EXCEPT !.n.pending = {}]
           IN  /\ y \in Ends /\ y.s = x.s /\ y.ship = x.ship
               /\ y.n = [x.n EXCEPT !.pending = {}]
<1> DEFINE next == [x.n EXCEPT !.pending = {}]
<1>1. x.n \in Net /\ x.s \in Conn /\ x.ship \in 0..MaxShip
  BY EndsFields
<1>2. next \in Net
  BY <1>1, SMTT(60) DEF Net
<1>3. [x EXCEPT !.n.pending = {}] = [x EXCEPT !.n = next]
  BY <1>1, SMTT(60) DEF Ends
<1> HIDE DEF next
<1>4. [x EXCEPT !.n = next] = [n |-> next, s |-> x.s, ship |-> x.ship]
  BY <1>1, <1>2, EndsUpdate
<1>5. [n |-> next, s |-> x.s, ship |-> x.ship] \in Ends
  BY <1>1, <1>2, EndsUpdate
<1> QED  BY <1>3, <1>4, <1>5, SMTT(60) DEF next

LEMMA ClosedFields ==
    ASSUME NEW x \in Ends
    PROVE  LET y == [x EXCEPT !.n.far = "closed"]
           IN  /\ y \in Ends /\ y.s = x.s /\ y.ship = x.ship
               /\ y.n = [x.n EXCEPT !.far = "closed"]
<1> DEFINE next == [x.n EXCEPT !.far = "closed"]
<1>1. x.n \in Net /\ x.s \in Conn /\ x.ship \in 0..MaxShip
  BY EndsFields
<1>2. next \in Net
  BY <1>1, SMTT(60) DEF Net
<1>3. [x EXCEPT !.n.far = "closed"] = [x EXCEPT !.n = next]
  BY <1>1, SMTT(60) DEF Ends
<1> HIDE DEF next
<1>4. [x EXCEPT !.n = next] = [n |-> next, s |-> x.s, ship |-> x.ship]
  BY <1>1, <1>2, EndsUpdate
<1>5. [n |-> next, s |-> x.s, ship |-> x.ship] \in Ends
  BY <1>1, <1>2, EndsUpdate
<1> QED  BY <1>3, <1>4, <1>5, SMTT(60) DEF next

LEMMA ClosingFields ==
    ASSUME NEW x \in Ends
    PROVE  LET y == [x EXCEPT !.n.closing = TRUE]
           IN  /\ y \in Ends /\ y.s = x.s /\ y.ship = x.ship
               /\ y.n = [x.n EXCEPT !.closing = TRUE]
<1> DEFINE next == [x.n EXCEPT !.closing = TRUE]
<1>1. x.n \in Net /\ x.s \in Conn /\ x.ship \in 0..MaxShip
  BY EndsFields
<1>2. next \in Net
  BY <1>1 DEF Net
<1>3. [x EXCEPT !.n.closing = TRUE] = [x EXCEPT !.n = next]
  BY <1>1, SMTT(60) DEF Ends
<1> HIDE DEF next
<1>4. [x EXCEPT !.n = next] = [n |-> next, s |-> x.s, ship |-> x.ship]
  BY <1>1, <1>2, EndsUpdate
<1>5. [n |-> next, s |-> x.s, ship |-> x.ship] \in Ends
  BY <1>1, <1>2, EndsUpdate
<1> QED  BY <1>3, <1>4, <1>5, SMTT(60) DEF next

(* What an update of one field leaves of the others.                       *)
LEMMA WithFarClosed ==
    ASSUME NEW n \in Net, NEW m, m = [n EXCEPT !.far = "closed"]
    PROVE  m.failure = n.failure /\ m.carried = n.carried /\ m.far = "closed"
           /\ m.pending = n.pending /\ m.sequence = n.sequence
  BY SMTT(60) DEF Net

LEMMA WithNothingPending ==
    ASSUME NEW n \in Net, NEW m, m = [n EXCEPT !.pending = {}]
    PROVE  m.failure = n.failure /\ m.carried = n.carried /\ m.far = n.far
           /\ m.pending = {} /\ m.sequence = n.sequence /\ m.closing = n.closing
           /\ m.relayed = n.relayed /\ m.received = n.received /\ m.sent = n.sent
  BY SMTT(60) DEF Net

LEMMA WithClosing ==
    ASSUME NEW n \in Net, NEW m, m = [n EXCEPT !.closing = TRUE]
    PROVE  m.failure = n.failure /\ m.carried = n.carried /\ m.far = n.far
           /\ m.pending = n.pending /\ m.sequence = n.sequence
  BY SMTT(60) DEF Net

(* An item that is given up on, or whose reply cannot be read, or that is   *)
(* refused, is a failure of the session, and the far end is taken for       *)
(* closed unless a close is still to be asked of it.                        *)
Fails(x, y, why) ==
    /\ y \in Ends /\ y.ship = x.ship /\ y.s.conn = x.s.conn /\ y.n.pending = {}
    /\ y.n.carried = x.n.carried /\ y.n.sequence = x.n.sequence
    /\ y.n.failure = IF x.n.failure = "none" THEN why ELSE x.n.failure
    /\ y.n.far \in {"closed", x.n.far}

LEMMA UnansweredFields ==
    ASSUME NEW x \in Ends
    PROVE  Fails(x, Unanswered(x), "unanswered") /\ Unanswered(x).n.far = "closed"
<1> DEFINE a == Abandon(x)
           b == [a EXCEPT !.n.far = "closed"]
<1>1. a \in Ends /\ a.ship = x.ship /\ a.s = x.s /\ a.n = [x.n EXCEPT !.pending = {}]
  BY FreeFields DEF Abandon
<1> HIDE DEF a
<1>2. b \in Ends /\ b.ship = a.ship /\ b.s = a.s /\ b.n = [a.n EXCEPT !.far = "closed"]
  BY <1>1, ClosedFields
<1> HIDE DEF b
<1>3. "unanswered" \in Failures \ {"none"}
  BY DEF Failures
<1>4. /\ Fail(b, "unanswered") \in Ends /\ Fail(b, "unanswered").ship = b.ship
      /\ Fail(b, "unanswered").s.conn = b.s.conn
      /\ LET m == Fail(b, "unanswered").n
         IN  /\ m.failure = (IF b.n.failure = "none" THEN "unanswered" ELSE b.n.failure)
             /\ m.carried = b.n.carried /\ m.pending = b.n.pending /\ m.sequence = b.n.sequence
             /\ m.far = b.n.far
  BY <1>2, <1>3, FailFields
<1>5. Unanswered(x) = Fail(b, "unanswered")
  BY DEF Unanswered, a, b
<1>6. x.n \in Net /\ a.n \in Net /\ b.n \in Net
  BY <1>1, <1>2, EndsFields
<1>7. /\ a.n.failure = x.n.failure /\ a.n.carried = x.n.carried /\ a.n.pending = {}
      /\ a.n.sequence = x.n.sequence
  BY <1>1, <1>6, WithNothingPending, SMTT(60)
<1>8. /\ b.n.failure = x.n.failure /\ b.n.carried = x.n.carried /\ b.n.pending = {}
      /\ b.n.sequence = x.n.sequence /\ b.n.far = "closed"
  BY <1>2, <1>6, <1>7, WithFarClosed
<1>9. LET m == Fail(b, "unanswered").n
      IN  /\ m.failure = (IF x.n.failure = "none" THEN "unanswered" ELSE x.n.failure)
          /\ m.carried = x.n.carried /\ m.pending = {} /\ m.sequence = x.n.sequence /\ m.far = "closed"
  BY <1>4, <1>8
<1> QED  BY <1>1, <1>2, <1>4, <1>5, <1>9 DEF Fails

LEMMA RefusedFields ==
    ASSUME NEW x \in Ends, x.n.pending = {}
    PROVE  Fails(x, Refused(x), "refused") /\ Refused(x).n.far = "closed"
<1> DEFINE b == [x EXCEPT !.n.far = "closed"]
<1>2. b \in Ends /\ b.ship = x.ship /\ b.s = x.s /\ b.n = [x.n EXCEPT !.far = "closed"]
  BY ClosedFields
<1> HIDE DEF b
<1>3. "refused" \in Failures \ {"none"}
  BY DEF Failures
<1>4. /\ Fail(b, "refused") \in Ends /\ Fail(b, "refused").ship = b.ship
      /\ Fail(b, "refused").s.conn = b.s.conn
      /\ LET m == Fail(b, "refused").n
         IN  /\ m.failure = (IF b.n.failure = "none" THEN "refused" ELSE b.n.failure)
             /\ m.carried = b.n.carried /\ m.pending = b.n.pending /\ m.sequence = b.n.sequence
             /\ m.far = b.n.far
  BY <1>2, <1>3, FailFields
<1>5. Refused(x) = Fail(b, "refused")
  BY DEF Refused, b
<1>6. x.n \in Net /\ b.n \in Net
  BY <1>2, EndsFields
<1>7. /\ b.n.failure = x.n.failure /\ b.n.carried = x.n.carried /\ b.n.pending = {}
      /\ b.n.sequence = x.n.sequence /\ b.n.far = "closed"
  BY <1>2, <1>6, WithFarClosed
<1>8. LET m == Fail(b, "refused").n
      IN  /\ m.failure = (IF x.n.failure = "none" THEN "refused" ELSE x.n.failure)
          /\ m.carried = x.n.carried /\ m.pending = {} /\ m.sequence = x.n.sequence /\ m.far = "closed"
  BY <1>4, <1>7
<1> QED  BY <1>2, <1>4, <1>5, <1>8 DEF Fails

LEMMA FaultedFields ==
    ASSUME NEW x \in Ends, x.n.pending = {}
    PROVE  Fails(x, Faulted(x), "faulted")
<1> DEFINE f == Fail(x, "faulted")
<1>1. "faulted" \in Failures \ {"none"}
  BY DEF Failures
<1>2. /\ f \in Ends /\ f.ship = x.ship /\ f.s.conn = x.s.conn
      /\ f.n.failure = (IF x.n.failure = "none" THEN "faulted" ELSE x.n.failure)
      /\ f.n.carried = x.n.carried /\ f.n.pending = {} /\ f.n.sequence = x.n.sequence
      /\ f.n.far = x.n.far
  BY <1>1, FailFields
<1> HIDE DEF f
<1>3. x.n \in Net /\ f.n \in Net
  BY <1>2, EndsFields
<1>5. ASSUME NEW y, y = [f EXCEPT !.n.closing = TRUE]
      PROVE  Fails(x, y, "faulted")
  <2>1. y \in Ends /\ y.ship = f.ship /\ y.s = f.s /\ y.n = [f.n EXCEPT !.closing = TRUE]
    BY <1>2, <1>5, ClosingFields
  <2>2. /\ y.n.failure = f.n.failure /\ y.n.carried = f.n.carried /\ y.n.far = f.n.far
        /\ y.n.pending = f.n.pending /\ y.n.sequence = f.n.sequence
    BY <1>3, <2>1, WithClosing
  <2> QED  BY <1>2, <2>1, <2>2 DEF Fails
<1>6. ASSUME NEW y, y = [f EXCEPT !.n.far = "closed"]
      PROVE  Fails(x, y, "faulted")
  <2>1. y \in Ends /\ y.ship = f.ship /\ y.s = f.s /\ y.n = [f.n EXCEPT !.far = "closed"]
    BY <1>2, <1>6, ClosedFields
  <2>2. /\ y.n.failure = f.n.failure /\ y.n.carried = f.n.carried /\ y.n.far = "closed"
        /\ y.n.pending = f.n.pending /\ y.n.sequence = f.n.sequence
    BY <1>3, <2>1, WithFarClosed
  <2> QED  BY <1>2, <2>1, <2>2 DEF Fails
<1> QED  BY <1>5, <1>6 DEF Faulted, f

(* An answer is counted with the bytes that were kept of it.               *)
WithAnswer(n, kept, r) ==
    [n EXCEPT !.relayed = Plus(n.relayed, 1), !.sent = Plus(n.sent, kept),
              !.polled = n.polled /\ r.len = 0, !.agreed = n.agreed \/ r.agreed]

LEMMA WithAnswerFields ==
    ASSUME NEW n \in Net, NEW kept \in {0, 1}, NEW r \in Answer, NEW m, m = WithAnswer(n, kept, r)
    PROVE  /\ m \in Net
           /\ m.relayed = Plus(n.relayed, 1) /\ m.sent = Plus(n.sent, kept)
           /\ m.received = n.received /\ m.carried = n.carried /\ m.sequence = n.sequence
           /\ m.pending = n.pending /\ m.far = n.far /\ m.failure = n.failure
<1> DEFINE a == (n.polled /\ r.len = 0)
           b == (n.agreed \/ r.agreed)
           c == Plus(n.relayed, 1)
           d == Plus(n.sent, kept)
<1>1. a \in BOOLEAN /\ b \in BOOLEAN
  OBVIOUS
<1>2. n.relayed \in Counts /\ n.sent \in Counts
  BY DEF Net
<1>3. c \in Counts /\ d \in Counts
  BY <1>2, PlusCounts
<1>4. m = [n EXCEPT !.relayed = c, !.sent = d, !.polled = a, !.agreed = b]
  BY DEF WithAnswer
<1> HIDE DEF a, b, c, d
<1>5. m \in Net
  BY <1>1, <1>3, <1>4 DEF Net
<1>6. /\ m.relayed = c /\ m.sent = d
      /\ m.received = n.received /\ m.carried = n.carried /\ m.sequence = n.sequence
      /\ m.pending = n.pending /\ m.far = n.far /\ m.failure = n.failure
  BY <1>4 DEF Net
<1> QED  BY <1>5, <1>6 DEF c, d

(* An answer is kept whole, and counted, or the session has failed.        *)
LEMMA AnsweredFields ==
    ASSUME NEW x \in Ends, x.n.pending = {}, NEW op \in Operations, NEW r \in Answer,
           op = "ship" => x.ship < MaxShip
    PROVE  LET y == Answered(x, op, r)
           IN  /\ y \in Ends /\ y.n.pending = {} /\ y.s.conn = x.s.conn
               /\ y.n.carried = x.n.carried /\ y.n.sequence = x.n.sequence
               /\ Kept(x.s, r.len) = r.len =>
                    /\ y.n.failure = x.n.failure /\ y.n.far = FarAfter(x.n.far, op, r.closed)
                    /\ y.n.relayed = Plus(x.n.relayed, 1) /\ y.n.sent = Plus(x.n.sent, r.len)
                    /\ y.n.received = x.n.received
               /\ Kept(x.s, r.len) # r.len =>
                    /\ y.n.failure = (IF x.n.failure = "none" THEN "too_long" ELSE x.n.failure)
                    /\ y.n.far = "closed"
<1> DEFINE kept == Kept(x.s, r.len)
           cn == WithAnswer(x.n, kept, r)
           cs == Push(x.s, r.len)
           counted == [x EXCEPT !.s = Push(@, r.len),
                                !.n.relayed = Plus(@, 1),
                                !.n.sent = Plus(@, kept),
                                !.n.polled = @ /\ r.len = 0,
                                !.n.agreed = @ \/ r.agreed]
           far == FarAfter(x.n.far, op, r.closed)
           told == [counted EXCEPT !.n.far = FarAfter(@, op, r.closed),
                                   !.ship = IF op = "ship" THEN @ + 1 ELSE @]
<1>1. /\ x.n \in Net /\ x.s \in Conn /\ x.ship \in 0..MaxShip
      /\ x = [n |-> x.n, s |-> x.s, ship |-> x.ship]
  BY EndsFields
<1>2. r.len \in {0, 1}
  BY DEF Answer
<1>3. kept \in {0, 1} /\ cs \in Conn /\ kept <= r.len /\ cs.conn = x.s.conn
  BY <1>1, <1>2, PushRoom
<1>4. /\ cn \in Net
      /\ cn.relayed = Plus(x.n.relayed, 1) /\ cn.sent = Plus(x.n.sent, kept)
      /\ cn.received = x.n.received /\ cn.carried = x.n.carried /\ cn.sequence = x.n.sequence
      /\ cn.pending = x.n.pending /\ cn.far = x.n.far /\ cn.failure = x.n.failure
  <2> HIDE DEF kept
  <2> QED  BY <1>1, <1>3, WithAnswerFields, SMTT(60)
<1>5. counted = [n |-> cn, s |-> cs, ship |-> x.ship]
  <2> HIDE DEF kept
  <2>1. counted = [x EXCEPT !.n = cn, !.s = cs]
    BY DEF Ends, Net, WithAnswer
  <2> HIDE DEF cn, cs, counted
  <2> QED  BY <1>1, <1>3, <1>4, <2>1, EndsUpdate
<1>6. far \in {"open", "closed"}
  BY <1>1 DEF FarAfter, Net
<1> DEFINE tn == [cn EXCEPT !.far = far]
           ts == IF op = "ship" THEN x.ship + 1 ELSE x.ship
<1>7. /\ tn \in Net /\ tn.far = far
      /\ tn.relayed = cn.relayed /\ tn.sent = cn.sent /\ tn.received = cn.received
      /\ tn.carried = cn.carried /\ tn.sequence = cn.sequence
      /\ tn.pending = cn.pending /\ tn.failure = cn.failure
  <2> HIDE DEF far, cn
  <2> QED  BY <1>4, <1>6 DEF Net
<1>8. ts \in 0..MaxShip
  BY <1>1, RelayConstants, SMTT(60)
<1>9. told = [n |-> tn, s |-> cs, ship |-> ts]
  <2>1. counted.n.far = x.n.far /\ counted.ship = x.ship
    <3> HIDE DEF counted, cn, cs
    <3> QED  BY <1>4, <1>5
  <2>2. told = [counted EXCEPT !.n.far = far, !.ship = ts]
    <3> HIDE DEF counted
    <3> QED  BY <2>1
  <2> HIDE DEF counted, cn, cs, far, ts, told
  <2>3. told = [[n |-> cn, s |-> cs, ship |-> x.ship] EXCEPT !.n.far = far, !.ship = ts]
    BY <1>5, <2>2
  <2> QED  BY <2>3
<1> HIDE DEF counted, cn, cs, tn, ts, told, far
<1>10. Answered(x, op, r) = IF kept < r.len
                            THEN Fail([counted EXCEPT !.n.far = "closed"], "too_long")
                            ELSE IF r.closed THEN [told EXCEPT !.s = EndSession(@, told.n.carried)]
                                             ELSE told
  BY DEF Answered, told, counted
<1> HIDE DEF kept
<1>11. kept < r.len <=> kept # r.len
  BY <1>2, <1>3, SMTT(60)
<1>12. CASE kept # r.len
  <2> DEFINE b == [counted EXCEPT !.n.far = "closed"]
             y == Fail(b, "too_long")
  <2>1. counted \in Ends /\ counted.n = cn /\ counted.s = cs
    <3>1. counted \in Ends
      BY <1>1, <1>3, <1>4, <1>5, EndsUpdate
    <3> QED  BY <1>5, <3>1, SMTT(60)
  <2>2. b \in Ends /\ b.s = cs /\ b.n = [cn EXCEPT !.far = "closed"]
    BY <2>1, ClosedFields
  <2> HIDE DEF b
  <2>3. /\ b.n.failure = x.n.failure /\ b.n.carried = x.n.carried /\ b.n.far = "closed"
        /\ b.n.pending = {} /\ b.n.sequence = x.n.sequence
    BY <1>4, <2>2, WithFarClosed
  <2>4. "too_long" \in Failures \ {"none"}
    BY DEF Failures
  <2>5. /\ y \in Ends /\ y.n.failure = (IF b.n.failure = "none" THEN "too_long" ELSE b.n.failure)
        /\ y.n.carried = b.n.carried /\ y.n.far = b.n.far /\ y.n.pending = b.n.pending
        /\ y.n.sequence = b.n.sequence /\ y.s.conn = cs.conn
    BY <2>2, <2>4, FailFields
  <2>6. Answered(x, op, r) = y
    BY <1>10, <1>11, <1>12 DEF b
  <2> HIDE DEF y
  <2> QED  BY <1>3, <1>12, <2>3, <2>5, <2>6 DEF kept
<1>13. CASE kept = r.len
  <2> DEFINE over == EndSession(cs, told.n.carried)
  <2>1. over \in Conn /\ over.conn = cs.conn
    BY <1>3, EndSessionConn
  <2>2. told \in Ends /\ told.n = tn
    <3>1. told \in Ends
      BY <1>1, <1>3, <1>7, <1>8, <1>9, EndsUpdate
    <3> QED  BY <1>9, <3>1, SMTT(60)
  <2>3. told.s = cs /\ told.ship = ts
    BY <1>9, SMTT(60)
  <2> HIDE DEF over
  <2>4. [told EXCEPT !.s = over] = [n |-> tn, s |-> over, ship |-> ts]
    BY <1>7, <1>8, <2>1, <2>2, <2>3, EndsUpdate
  <2>5. [n |-> tn, s |-> over, ship |-> ts] \in Ends
    BY <1>1, <1>7, <1>8, <2>1, EndsUpdate
  <2>6. [told EXCEPT !.s = EndSession(@, told.n.carried)] = [told EXCEPT !.s = over]
    BY <2>3 DEF over
  <2>7. Answered(x, op, r) \in {told, [n |-> tn, s |-> over, ship |-> ts]}
    BY <1>10, <1>11, <1>13, <2>4, <2>6
  <2>8. /\ Answered(x, op, r) \in Ends /\ Answered(x, op, r).n = tn
        /\ Answered(x, op, r).s.conn = cs.conn
    <3>1. [n |-> tn, s |-> over, ship |-> ts].n = tn /\ [n |-> tn, s |-> over, ship |-> ts].s = over
      OBVIOUS
    <3> QED  BY <2>1, <2>2, <2>3, <2>5, <2>7, <3>1
  <2> QED  BY <1>3, <1>4, <1>7, <1>13, <2>8 DEF kept, far
<1> QED  BY <1>12, <1>13

-----------------------------------------------------------------------------
(* Relay::claim *)

(* A claim that found something leaves the window empty and the session's  *)
(* number alone.                                                           *)
LEMMA ClaimedWindow ==
    ASSUME NEW q, Window(Here, q), Turns(Here, q), net.pending # {}, NEW y \in Ends,
           y.n.pending = {}, y.n.carried = net.carried, y.n.sequence = net.sequence,
           y.n.far = "closed" \/ reply.sequence = q.sequence
    PROVE  Window(y, q) /\ Turns(y, q)
<1>1. Here.n = net
  BY DEF Here
<1>2. net.carried # 0
  <2>1. SUFFICES ASSUME net.carried = 0 PROVE FALSE
    OBVIOUS
  <2>2. net = [NewNet EXCEPT !.sequence = net.sequence]
    BY <1>1, <2>1 DEF Window
  <2>3. net.pending = {}
    BY <2>2, SMTT(60) DEF NewNet
  <2> QED  BY <2>3
<1>3. Window(y, q)
  BY <1>1, <1>2 DEF Window
<1>4. Turns(y, q)
  BY <1>1 DEF Turns
<1> QED  BY <1>3, <1>4

(* A failure is kept, and what it failed is out of the books unless it was  *)
(* refused, which an item on the session that is held never is.            *)
LEMMA FailedBooks ==
    ASSUME NEW q, Books(Here, q), NEW y, NEW why, Fails(Here, y, why),
           \/ why \in {"unanswered", "faulted"}
           \/ net.pending # {} /\ reply.sequence = q.sequence /\ reply.status = "refused"
    PROVE  Books(y, q)
<1>1. Here.n = net
  BY DEF Here
<1>2. SUFFICES ASSUME y.n.carried # 0, y.n.failure \notin {"unanswered", "faulted"}
               PROVE  FALSE
  BY DEF Books
<1>3. net.carried # 0
  BY <1>1, <1>2 DEF Fails
<1>4. CASE net.failure \in {"unanswered", "faulted"}
  BY <1>1, <1>2, <1>4 DEF Fails
<1>5. CASE net.failure \notin {"unanswered", "faulted"}
  <2>1. net.failure = "none" /\ Opening(Here, q) /\ Moving(Here, q)
    BY <1>1, <1>3, <1>5 DEF Books
  <2>2. y.n.failure = why
    BY <1>1, <2>1 DEF Fails
  <2>3. net.pending # {} /\ reply.sequence = q.sequence /\ reply.status = "refused"
    BY <1>2, <2>2
  <2> QED  BY <1>1, <2>1, <2>3 DEF Opening, Moving
<1> QED  BY <1>4, <1>5

LEMMA FarAfterCases ==
    ASSUME NEW far, NEW op
    PROVE  /\ FarAfter(far, op, TRUE) = "closed"
           /\ FarAfter(far, "open", FALSE) = "open"
           /\ op \notin {"open", "close"} => FarAfter(far, op, FALSE) = far
  BY DEF FarAfter

(* The answer to the item that is out, claimed.                            *)
LEMMA AnsweredNet ==
    ASSUME IInv, net.pending # {}, reply.sequence = request.sequence,
           NEW x \in Ends, x.n = [net EXCEPT !.pending = {}], x.s = stream, x.ship = ship,
           NEW y, y = Answered(x, request.op, reply)
    PROVE  /\ y \in Ends /\ y.n.pending = {} /\ y.s.conn = stream.conn
           /\ y.n.carried = net.carried /\ y.n.sequence = net.sequence
           /\ Kept(stream, reply.len) = reply.len =>
                /\ y.n.failure = net.failure /\ y.n.far = FarAfter(net.far, request.op, reply.closed)
                /\ y.n.relayed = Plus(net.relayed, 1) /\ y.n.sent = Plus(net.sent, reply.len)
                /\ y.n.received = net.received
           /\ Kept(stream, reply.len) # reply.len =>
                /\ y.n.failure = (IF net.failure = "none" THEN "too_long" ELSE net.failure)
                /\ y.n.far = "closed"
<1>1. Here.n = net /\ Here.s = stream /\ Here \in Ends /\ net \in Net /\ stream \in Conn
  <2>1. Here.n = net /\ Here.s = stream
    BY DEF Here
  <2> QED  BY <2>1, EndsFields DEF IInv, Types
<1>2. /\ x.n.failure = net.failure /\ x.n.carried = net.carried /\ x.n.far = net.far
      /\ x.n.pending = {} /\ x.n.sequence = net.sequence
      /\ x.n.relayed = net.relayed /\ x.n.received = net.received /\ x.n.sent = net.sent
  BY <1>1, WithNothingPending, SMTT(60)
<1>3. request.op \in Operations /\ reply \in Answer /\ reply.len \in {0, 1} /\ reply.closed \in BOOLEAN
  BY DEF IInv, Types, Item, Answer
<1>4. request.op = "ship" => x.ship < MaxShip
  BY DEF IInv, Window, Here
<1>5. LET z == Answered(x, request.op, reply)
      IN  /\ z \in Ends /\ z.n.pending = {} /\ z.s.conn = x.s.conn
          /\ z.n.carried = x.n.carried /\ z.n.sequence = x.n.sequence
          /\ Kept(x.s, reply.len) = reply.len =>
               /\ z.n.failure = x.n.failure /\ z.n.far = FarAfter(x.n.far, request.op, reply.closed)
               /\ z.n.relayed = Plus(x.n.relayed, 1) /\ z.n.sent = Plus(x.n.sent, reply.len)
               /\ z.n.received = x.n.received
          /\ Kept(x.s, reply.len) # reply.len =>
               /\ z.n.failure = (IF x.n.failure = "none" THEN "too_long" ELSE x.n.failure)
               /\ z.n.far = "closed"
  BY <1>2, <1>3, <1>4, AnsweredFields
<1> QED  BY <1>2, <1>5

(* An answer settles the books.                                            *)
LEMMA AnsweredBooks ==
    ASSUME IInv, net.pending # {}, reply.sequence = request.sequence,
           NEW x \in Ends, x.n = [net EXCEPT !.pending = {}], x.s = stream, x.ship = ship,
           NEW y, y = Answered(x, request.op, reply)
    PROVE  Books(y, request)
<1>1. Here.n = net /\ Here.s = stream /\ Here \in Ends /\ net \in Net /\ stream \in Conn
  <2>1. Here.n = net /\ Here.s = stream
    BY DEF Here
  <2> QED  BY <2>1, EndsFields DEF IInv, Types
<1>3. reply.len \in {0, 1} /\ reply.closed \in BOOLEAN
  BY DEF IInv, Types, Answer
<1>5. /\ y \in Ends /\ y.n.pending = {} /\ y.s.conn = stream.conn
      /\ y.n.carried = net.carried /\ y.n.sequence = net.sequence
      /\ Kept(stream, reply.len) = reply.len =>
           /\ y.n.failure = net.failure /\ y.n.far = FarAfter(net.far, request.op, reply.closed)
           /\ y.n.relayed = Plus(net.relayed, 1) /\ y.n.sent = Plus(net.sent, reply.len)
           /\ y.n.received = net.received
      /\ Kept(stream, reply.len) # reply.len =>
           /\ y.n.failure = (IF net.failure = "none" THEN "too_long" ELSE net.failure)
           /\ y.n.far = "closed"
  BY AnsweredNet
<1>6. SUFFICES ASSUME net.carried # 0, y.n.failure \notin {"unanswered", "faulted"}
               PROVE  /\ y.n.failure = "none"
                      /\ Settlement(y, request) /\ Opening(y, request) /\ Moving(y, request)
  BY <1>5 DEF Books
<1>7. net.failure \notin {"unanswered", "faulted"}
  BY <1>5, <1>6
<1>8. net.failure = "none" /\ Opening(Here, request) /\ Moving(Here, request)
  BY <1>1, <1>6, <1>7 DEF IInv, Books
<1>9. term.served = request.sequence /\ term.demand = {}
  BY DEF IInv, Turns
<1>10. Kept(stream, reply.len) = reply.len
  <2>1. reply.len = 0 \/ stream.out = 0
    BY <1>1, <1>8 DEF Opening, Moving
  <2> QED  BY <1>1, <1>3, <2>1, PushRoom
<1>11. Opening(y, request) /\ Moving(y, request) /\ y.n.failure = "none"
  BY <1>5, <1>8, <1>10 DEF Opening, Moving
<1>12. CASE request.op = "open"
  <2>1. /\ ~reply.closed /\ reply.len = 0 /\ Same(net, NoSession)
        /\ term.held.session = net.carried /\ Same(term.held, Counted(NoSession, 0))
    BY <1>1, <1>8, <1>12 DEF Opening
  <2>2. y.n.far = "open"
    <3>1. reply.closed = FALSE
      BY <1>3, <2>1
    <3>2. y.n.far = FarAfter(net.far, "open", FALSE)
      BY <1>5, <1>10, <1>12, <3>1
    <3> QED  BY <3>2, FarAfterCases
  <2>3. /\ Counted(NoSession, 0).relayed = Plus(NoSession.relayed, 1)
        /\ Counted(NoSession, 0).sent = Plus(NoSession.sent, 0)
        /\ Counted(NoSession, 0).received = NoSession.received
    BY DEF Counted, NoSession
  <2>4. /\ y.n.relayed = Plus(net.relayed, 1) /\ y.n.sent = Plus(net.sent, 0)
        /\ y.n.received = net.received
    BY <1>5, <1>10, <2>1
  <2>6. Same(y.n, term.held)
    BY <2>1, <2>3, <2>4 DEF Same
  <2>5. Settlement(y, request)
    BY <1>5, <1>9, <2>1, <2>2, <2>6 DEF Settlement
  <2> QED  BY <1>11, <2>5
<1>13. CASE request.op # "open"
  <2> DEFINE over == [relayed |-> Plus(net.relayed, 1), received |-> net.received,
                      sent |-> Plus(net.sent, reply.len)]
  <2>1. /\ net.far = "open"
        /\ request.op = "close" => reply.closed
        /\ IF reply.closed THEN account = Account(net.carried, over)
           ELSE term.held.session = net.carried /\ Same(over, term.held)
    BY <1>1, <1>8, <1>13 DEF Moving
  <2>2. over.relayed = y.n.relayed /\ over.received = y.n.received /\ over.sent = y.n.sent
    BY <1>5, <1>10
  <2> HIDE DEF over
  <2>3. y.n.far = IF reply.closed THEN "closed" ELSE "open"
    <3>1. y.n.far = FarAfter("open", request.op, reply.closed)
      BY <1>5, <1>10, <2>1
    <3>2. CASE reply.closed = TRUE
      BY <3>1, <3>2, FarAfterCases
    <3>3. CASE reply.closed = FALSE
      <4>1. request.op \notin {"open", "close"} /\ y.n.far = FarAfter("open", request.op, FALSE)
        BY <1>13, <2>1, <3>1, <3>3
      <4> QED  BY <3>3, <4>1, FarAfterCases
    <3> QED  BY <1>3, <3>2, <3>3
  <2>4. Account(net.carried, over) = Account(y.n.carried, y.n)
    BY <1>5, <2>2 DEF Account
  <2>5. Settlement(y, request)
    BY <1>5, <1>9, <2>1, <2>2, <2>3, <2>4 DEF Settlement, Same
  <2> QED  BY <1>11, <2>5
<1> QED  BY <1>12, <1>13

LEMMA ClaimKeeps ==
    ASSUME IInv, NEW e \in BOOLEAN, NEW y, y = Claim(Here, e)
    PROVE  /\ y \in Ends /\ y.s.conn = stream.conn /\ y.n.carried = net.carried
           /\ Window(y, request) /\ Turns(y, request) /\ Books(y, request)
<1>1. /\ Here.n = net /\ Here.s = stream /\ Here.ship = ship /\ Here \in Ends
      /\ net \in Net /\ stream \in Conn
  <2>1. Here.n = net /\ Here.s = stream /\ Here.ship = ship
    BY DEF Here
  <2> QED  BY <2>1, EndsFields DEF IInv, Types
<1>2. CASE y = Here
  BY <1>1, <1>2 DEF IInv
<1>3. CASE net.pending = {}
  BY <1>1, <1>2, <1>3 DEF Claim
<1>4. CASE net.pending # {}
  <2> DEFINE p == CHOOSE q \in net.pending : TRUE
             free == [Here EXCEPT !.n.pending = {}]
  <2>1. p \in net.pending
    BY <1>4
  <2>2. p.sequence = request.sequence /\ p.op = request.op
    BY <1>1, <2>1 DEF IInv, Window
  <2>3. y = CASE Polled(p) = "outstanding" -> IF e THEN Unanswered(Here) ELSE Here
              [] Polled(p) = "answered"    -> Answered(free, p.op, reply)
              [] Polled(p) = "refused"     -> Refused(free)
              [] Polled(p) = "faulted"     -> Faulted(free)
    BY <1>1, <1>4 DEF Claim
  <2>4. /\ free \in Ends /\ free.s = stream /\ free.ship = ship
        /\ free.n = [net EXCEPT !.pending = {}]
    BY <1>1, FreeFields
  <2> HIDE DEF p, free
  <2>5. /\ free.n.failure = net.failure /\ free.n.carried = net.carried /\ free.n.far = net.far
        /\ free.n.pending = {} /\ free.n.sequence = net.sequence
    BY <1>1, <2>4, WithNothingPending, SMTT(60)
  <2>6. \/ Polled(p) = "outstanding"
        \/ Polled(p) = "answered" /\ reply.sequence = request.sequence
        \/ Polled(p) = "refused" /\ reply.sequence = request.sequence /\ reply.status = "refused"
        \/ Polled(p) = "faulted" /\ reply.sequence = request.sequence
    BY <2>2 DEF Polled
  <2>7. CASE y = Unanswered(Here)
    <3>1. Fails(Here, y, "unanswered") /\ y.n.far = "closed"
      BY <1>1, <2>7, UnansweredFields
    <3>2. Window(y, request) /\ Turns(y, request)
      BY <1>1, <1>4, <3>1, ClaimedWindow DEF Fails, IInv
    <3>3. Books(y, request)
      BY <3>1, FailedBooks DEF IInv
    <3> QED  BY <1>1, <3>1, <3>2, <3>3 DEF Fails
  <2>8. CASE y = Answered(free, p.op, reply) /\ reply.sequence = request.sequence
    <3>1. y = Answered(free, request.op, reply)
      BY <2>2, <2>8
    <3>2. Books(y, request)
      BY <1>4, <2>4, <2>8, <3>1, AnsweredBooks
    <3>3. /\ y \in Ends /\ y.n.pending = {} /\ y.s.conn = stream.conn
          /\ y.n.carried = net.carried /\ y.n.sequence = net.sequence
      BY <1>4, <2>4, <2>8, <3>1, AnsweredNet
    <3>4. Window(y, request) /\ Turns(y, request)
      BY <1>4, <2>8, <3>3, ClaimedWindow DEF IInv
    <3> QED  BY <3>2, <3>3, <3>4
  <2>9. ASSUME NEW why, Fails(free, y, why), reply.sequence = request.sequence,
               why \in {"faulted", "refused"}, why # "faulted" => reply.status = "refused"
        PROVE  /\ y \in Ends /\ y.s.conn = stream.conn /\ y.n.carried = net.carried
               /\ Window(y, request) /\ Turns(y, request) /\ Books(y, request)
    <3>1. Fails(Here, y, why)
      BY <1>1, <2>4, <2>5, <2>9 DEF Fails
    <3>2. Window(y, request) /\ Turns(y, request)
      BY <1>1, <1>4, <2>9, <3>1, ClaimedWindow DEF Fails, IInv
    <3>3. Books(y, request)
      BY <1>4, <2>9, <3>1, FailedBooks DEF IInv
    <3> QED  BY <1>1, <3>1, <3>2, <3>3 DEF Fails
  <2>10. CASE y = Refused(free) /\ reply.sequence = request.sequence /\ reply.status = "refused"
    <3>1. Fails(free, y, "refused")
      BY <2>4, <2>5, <2>10, RefusedFields
    <3> QED  BY <2>9, <2>10, <3>1
  <2>11. CASE y = Faulted(free) /\ reply.sequence = request.sequence
    <3>1. Fails(free, y, "faulted")
      BY <2>4, <2>5, <2>11, FaultedFields
    <3> QED  BY <2>9, <2>11, <3>1
  <2> QED  BY <1>2, <2>3, <2>6, <2>7, <2>8, <2>10, <2>11
<1> QED  BY <1>3, <1>4

-----------------------------------------------------------------------------
(* Relay::issue *)

LEMMA NextSequenceMoves ==
    ASSUME NEW n \in 0..Sequences
    PROVE  NextSequence(n) \in 0..Sequences /\ NextSequence(n) # n
<1>1. Sequences \in Nat /\ Sequences > 3
  BY RelayConstants, SMTT(60)
<1>2. CASE n = Sequences
  <2>1. n % Sequences = 0
    BY <1>1, <1>2, SMTT(60)
  <2> QED  BY <1>1, <1>2, <2>1, SMTT(60) DEF NextSequence
<1>3. CASE n < Sequences
  <2>1. n % Sequences = n
    BY <1>1, <1>3, SMTT(60)
  <2> QED  BY <1>1, <1>3, <2>1, SMTT(60) DEF NextSequence
<1> QED  BY <1>1, <1>2, <1>3, SMTT(60)

(* What an item is issued from: the session as the last claim left it, but  *)
(* for what the item takes off the stream.                                 *)
Prepared(x, z, op, len) ==
    /\ z \in Ends /\ z.ship = x.ship /\ z.s.out = x.s.out /\ z.s.conn = x.s.conn
    /\ z.n.carried = x.n.carried /\ z.n.far = x.n.far /\ z.n.failure = x.n.failure
    /\ z.n.sequence = x.n.sequence /\ z.n.relayed = x.n.relayed /\ z.n.sent = x.n.sent
    /\ z.n.received = IF op = "deliver" THEN Plus(x.n.received, len) ELSE x.n.received

LEMMA AskFields ==
    ASSUME NEW z \in Ends, NEW op \in Operations, NEW len \in {0, 1}, NEW a, a = Ask(z, op, len)
    PROVE  /\ a.x \in Ends /\ a.x.s = z.s /\ a.x.ship = z.ship
           /\ a.x.n.pending = {[sequence |-> a.request.sequence, op |-> op]}
           /\ a.x.n.sequence = a.request.sequence
           /\ a.x.n.carried = z.n.carried /\ a.x.n.far = z.n.far
           /\ a.x.n.failure = z.n.failure /\ a.x.n.relayed = z.n.relayed
           /\ a.x.n.received = z.n.received /\ a.x.n.sent = z.n.sent
           /\ a.request \in Item /\ a.request.op = op
           /\ a.request.len = len /\ a.request.tag = z.n.carried
           /\ a.request.sequence # z.n.sequence
<1> DEFINE q == NextSequence(z.n.sequence)
           item == [sequence |-> q, op |-> op]
           words == [sequence |-> q, op |-> op, len |-> len, tag |-> z.n.carried]
           m == [z.n EXCEPT !.pending = {item}, !.sequence = q]
           w == [z EXCEPT !.n.pending = {item}, !.n.sequence = q]
<1>1. z.n \in Net /\ z.s \in Conn /\ z.ship \in 0..MaxShip
  BY EndsFields
<1>2. q \in 0..Sequences /\ q # z.n.sequence
  <2>1. z.n.sequence \in 0..Sequences
    BY <1>1 DEF Net
  <2> QED  BY <2>1, NextSequenceMoves
<1>3. Ask(z, op, len).x = w /\ Ask(z, op, len).request = words
  BY DEF Ask
<1> HIDE DEF q
<1>4. words \in Item /\ words.sequence = q /\ words.op = op /\ words.len = len
      /\ words.tag = z.n.carried
  <2>1. z.n.carried \in 0..MaxConns
    BY <1>1 DEF Net
  <2> QED  BY <1>2, <2>1 DEF Item
<1>5. {item} \in SUBSET [sequence : 0..Sequences, op : Operations]
  <2>1. item \in [sequence : 0..Sequences, op : Operations]
    BY <1>2
  <2> HIDE DEF item
  <2> QED  BY <2>1
<1> HIDE DEF item, words
<1>6. m \in Net
  BY <1>1, <1>2, <1>5 DEF Net
<1>7. /\ m.pending = {item} /\ m.sequence = q /\ m.carried = z.n.carried /\ m.far = z.n.far
      /\ m.failure = z.n.failure /\ m.relayed = z.n.relayed /\ m.received = z.n.received
      /\ m.sent = z.n.sent
  BY <1>1 DEF Net
<1>8. w = [z EXCEPT !.n = m]
  BY DEF Ends, Net
<1> HIDE DEF m, w
<1>9. w = [n |-> m, s |-> z.s, ship |-> z.ship]
  BY <1>1, <1>6, <1>8, EndsUpdate
<1>10. [n |-> m, s |-> z.s, ship |-> z.ship] \in Ends
  BY <1>1, <1>6, EndsUpdate
<1>11. w \in Ends /\ w.n = m /\ w.s = z.s /\ w.ship = z.ship
  <2>1. w.n = m /\ w.s = z.s /\ w.ship = z.ship
    BY <1>9, SMTT(60)
  <2> QED  BY <1>9, <1>10, <2>1
<1> QED  BY <1>2, <1>3, <1>4, <1>7, <1>11 DEF q, item

(* An item on a session that is open at the far end: the far end is done    *)
(* with the item before it, and holds this session or none.                 *)
LEMMA AskItem ==
    ASSUME NEW x \in Ends, Window(x, request), Turns(x, request), Books(x, request),
           x.n.pending = {}, x.n.carried # 0, x.n.far = "open",
           NEW op \in Operations \ {"open"}, NEW len \in {0, 1}, NEW z, Prepared(x, z, op, len),
           op = "close" \/ x.s.out = 0, op = "poll" => len = 0, op = "ship" => x.ship < MaxShip,
           NEW done, done = Ask(z, op, len),
           done.request.sequence \notin {term.served, reply.sequence}
    PROVE  /\ done.x \in Ends /\ done.request \in Item /\ done.x.s.conn = x.s.conn
           /\ Window(done.x, done.request) /\ Turns(done.x, done.request)
           /\ Books(done.x, done.request)
<1> DEFINE y == done.x
           r == done.request
<1>1. /\ y \in Ends /\ y.s = z.s /\ y.ship = z.ship
      /\ y.n.pending = {[sequence |-> r.sequence, op |-> op]} /\ y.n.sequence = r.sequence
      /\ y.n.carried = z.n.carried /\ y.n.far = z.n.far
      /\ y.n.failure = z.n.failure /\ y.n.relayed = z.n.relayed
      /\ y.n.received = z.n.received /\ y.n.sent = z.n.sent
      /\ r \in Item /\ r.op = op /\ r.len = len /\ r.tag = z.n.carried
  <2>1. z \in Ends /\ op \in Operations
    BY DEF Prepared
  <2> QED  BY <2>1, AskFields, SMTT(60)
<1> HIDE DEF y, r
<1>2. r.sequence # term.served /\ r.sequence # reply.sequence
  BY DEF r
<1>3. /\ y.ship = x.ship /\ y.s.out = x.s.out /\ y.n.carried = x.n.carried
      /\ y.n.far = "open" /\ y.n.failure = x.n.failure /\ y.n.relayed = x.n.relayed
      /\ y.n.sent = x.n.sent /\ y.s.conn = x.s.conn /\ r.tag = x.n.carried
      /\ y.n.received = IF op = "deliver" THEN Plus(x.n.received, len) ELSE x.n.received
  BY <1>1 DEF Prepared
<1>4. term.served = request.sequence /\ term.demand = {}
  BY DEF Turns
<1>5. request.tag = x.n.carried /\ x.n.carried <= conns
  BY DEF Window
<1>6. term.held.session \in {0, x.n.carried}
  BY <1>4, <1>5 DEF Turns
<1>7. Window(y, r)
  <2>1. \A p \in y.n.pending : p = [sequence |-> r.sequence, op |-> op]
    BY <1>1
  <2>2. \A p \in y.n.pending : p.sequence = r.sequence /\ p.op = op
    BY <2>1, SMTT(60)
  <2> QED  BY <1>1, <1>3, <1>5, <2>1, <2>2 DEF Window
<1>8. Turns(y, r)
  BY <1>1, <1>2, <1>3, <1>4, <1>6 DEF Turns
<1>9. Books(y, r)
  <2>1. SUFFICES ASSUME x.n.failure \notin {"unanswered", "faulted"}
                 PROVE  y.n.failure = "none" /\ Moving(y, r)
    BY <1>1, <1>3 DEF Books, Settlement, Opening
  <2>2. x.n.failure = "none" /\ term.held.session = x.n.carried /\ Same(x.n, term.held)
    BY <2>1 DEF Books, Settlement
  <2>3. /\ y.n.relayed = term.held.relayed /\ y.n.sent = term.held.sent
        /\ y.n.received = IF op = "deliver" THEN Plus(term.held.received, len) ELSE term.held.received
    BY <1>3, <2>2 DEF Same
  <2> QED  BY <1>1, <1>2, <1>3, <2>2, <2>3 DEF Moving
<1> QED  BY <1>1, <1>3, <1>7, <1>8, <1>9 DEF y, r

(* The session no connection is carried for                                *)
LEMMA Idle ==
    ASSUME NEW x, NEW q, Window(x, q), x.n.carried = 0
    PROVE  /\ x.n.pending = {} /\ x.n.far = "closed" /\ x.n.failure = "none"
           /\ Same(x.n, NoSession)
<1>1. x.n = [NewNet EXCEPT !.sequence = x.n.sequence]
  BY DEF Window
<1>2. /\ x.n.pending = {} /\ x.n.far = "closed" /\ x.n.failure = "none"
      /\ x.n.relayed = 0 /\ x.n.received = 0 /\ x.n.sent = 0
  BY <1>1, SMTT(60) DEF NewNet
<1>3. NoSession.relayed = 0 /\ NoSession.received = 0 /\ NoSession.sent = 0
  BY DEF NoSession
<1> QED  BY <1>2, <1>3 DEF Same

LEMMA AskOpenFields ==
    ASSUME NEW z \in Ends, NEW a, a = Ask(z, "open", 0)
    PROVE  /\ a.x \in Ends /\ a.x.s = z.s /\ a.x.ship = z.ship
           /\ a.x.n.pending = {[sequence |-> a.request.sequence, op |-> "open"]}
           /\ a.x.n.sequence = a.request.sequence
           /\ a.x.n.carried = z.n.carried /\ a.x.n.far = z.n.far
           /\ a.x.n.failure = z.n.failure /\ a.x.n.relayed = z.n.relayed
           /\ a.x.n.received = z.n.received /\ a.x.n.sent = z.n.sent
           /\ a.request \in Item /\ a.request.op = "open" /\ a.request.tag = z.n.carried
           /\ a.request.sequence # z.n.sequence
<1> DEFINE op == "open"
           len == 0
<1>1. op \in Operations /\ len \in {0, 1}
  BY DEF Operations
<1>2. a = Ask(z, op, len)
  OBVIOUS
<1> HIDE DEF op, len
<1>3. /\ a.x \in Ends /\ a.x.s = z.s /\ a.x.ship = z.ship
      /\ a.x.n.pending = {[sequence |-> a.request.sequence, op |-> op]}
      /\ a.x.n.sequence = a.request.sequence
      /\ a.x.n.carried = z.n.carried /\ a.x.n.far = z.n.far
      /\ a.x.n.failure = z.n.failure /\ a.x.n.relayed = z.n.relayed
      /\ a.x.n.received = z.n.received /\ a.x.n.sent = z.n.sent
      /\ a.request \in Item /\ a.request.op = op /\ a.request.tag = z.n.carried
      /\ a.request.sequence # z.n.sequence
  BY <1>1, <1>2, AskFields, SMTT(60)
<1> QED  BY <1>3 DEF op

(* The open of a session: whatever the far end still works on, its sequence *)
(* is another.                                                             *)
LEMMA CarriedFields ==
    ASSUME NEW x \in Ends, NEW z, z = [x EXCEPT !.n.carried = x.s.conn]
    PROVE  /\ z \in Ends /\ z.s = x.s /\ z.ship = x.ship /\ z.n.carried = x.s.conn
           /\ z.n.far = x.n.far /\ z.n.failure = x.n.failure /\ Same(z.n, x.n)
<1> DEFINE m == [x.n EXCEPT !.carried = x.s.conn]
<1>1. x.n \in Net /\ x.s \in Conn /\ x.ship \in 0..MaxShip /\ x.s.conn \in 0..MaxConns
  <2>1. x.n \in Net /\ x.s \in Conn /\ x.ship \in 0..MaxShip
    BY EndsFields
  <2> QED  BY <2>1 DEF Conn
<1>2. m \in Net
  BY <1>1 DEF Net
<1>3. /\ m.carried = x.s.conn /\ m.far = x.n.far /\ m.failure = x.n.failure /\ Same(m, x.n)
  BY <1>1 DEF Net, Same
<1>4. z = [x EXCEPT !.n = m]
  BY DEF Ends
<1> HIDE DEF m
<1>5. z = [n |-> m, s |-> x.s, ship |-> x.ship]
  BY <1>1, <1>2, <1>4, EndsUpdate
<1>6. [n |-> m, s |-> x.s, ship |-> x.ship] \in Ends
  BY <1>1, <1>2, EndsUpdate
<1>7. z.n = m /\ z.s = x.s /\ z.ship = x.ship
  BY <1>5, SMTT(60)
<1> QED  BY <1>3, <1>5, <1>6, <1>7

LEMMA AskOpen ==
    ASSUME NEW x \in Ends, Window(x, request), Turns(x, request),
           x.n.carried = 0, x.s.conn # 0, x.s.conn = conns,
           NEW z \in Ends, z.s = x.s, z.n.carried = x.s.conn,
           z.n.far = x.n.far, z.n.failure = x.n.failure, Same(z.n, x.n),
           NEW done, done = Ask(z, "open", 0),
           done.request.sequence \notin {term.served, reply.sequence}
    PROVE  /\ done.x \in Ends /\ done.request \in Item /\ done.x.s.conn = x.s.conn
           /\ Window(done.x, done.request) /\ Turns(done.x, done.request)
           /\ Books(done.x, done.request)
<1> DEFINE y == done.x
           r == done.request
<1>1. /\ y \in Ends /\ y.s = z.s
      /\ y.n.pending = {[sequence |-> r.sequence, op |-> "open"]} /\ y.n.sequence = r.sequence
      /\ y.n.carried = z.n.carried /\ y.n.far = z.n.far
      /\ y.n.failure = z.n.failure /\ y.n.relayed = z.n.relayed
      /\ y.n.received = z.n.received /\ y.n.sent = z.n.sent
      /\ r \in Item /\ r.op = "open" /\ r.tag = z.n.carried
  BY AskOpenFields
<1> HIDE DEF y, r
<1>2. r.sequence # term.served /\ r.sequence # reply.sequence
  BY DEF r
<1>3. x.n.far = "closed" /\ x.n.failure = "none" /\ Same(x.n, NoSession)
  BY Idle
<1>4. /\ y.n.carried = conns /\ y.n.far = "closed" /\ y.n.failure = "none" /\ Same(y.n, NoSession)
      /\ r.tag = conns
  BY <1>1, <1>3 DEF Same
<1>5. conns <= conns
  <2>1. x.s.conn \in 0..MaxConns
    BY EndsFields DEF Conn
  <2> QED  BY <2>1, SMTT(60)
<1>6. Window(y, r)
  <2>1. \A p \in y.n.pending : p = [sequence |-> r.sequence, op |-> "open"]
    BY <1>1
  <2>2. \A p \in y.n.pending : p.sequence = r.sequence /\ p.op = "open"
    BY <2>1, SMTT(60)
  <2> QED  BY <1>1, <1>4, <1>5, <2>1, <2>2 DEF Window
<1>7. Turns(y, r)
  BY <1>1, <1>2, <1>4 DEF Turns
<1>8. Books(y, r)
  BY <1>1, <1>2, <1>4 DEF Books, Settlement, Opening, Moving
<1> QED  BY <1>1, <1>6, <1>7, <1>8 DEF y, r

(* Relay::finish leaves the numbering where it was.                        *)
LEMMA FinishKeeps ==
    ASSUME NEW x \in Ends, Window(x, request), Turns(x, request), NEW done, done = Finish(x),
           conns \in Nat
    PROVE  /\ done.x \in Ends /\ done.request = request /\ done.x.s.conn = x.s.conn
           /\ done.x.n.carried = 0
           /\ Window(done.x, request) /\ Turns(done.x, request) /\ Books(done.x, request)
<1> DEFINE m == [NewNet EXCEPT !.sequence = x.n.sequence]
           y == [x EXCEPT !.n = m]
<1>1. x.n \in Net /\ x.s \in Conn /\ x.ship \in 0..MaxShip
  BY EndsFields
<1>2. x.n.sequence \in 0..Sequences /\ 0 \in 0..MaxConns /\ 0 \in Counts
  <2>1. MaxConns \in Nat /\ MaxCount \in Nat
    BY RelayConstants
  <2>2. 0 \in 0..MaxConns /\ 0 \in Counts
    BY <2>1, SMTT(60) DEF Counts
  <2> QED  BY <1>1, <2>2 DEF Net
<1>3. /\ NewNet \in Net
      /\ NewNet.carried = 0 /\ NewNet.pending = {} /\ NewNet.far = "closed"
  <2>1. NewNet \in Net
    <3>1. "none" \in Failures /\ {} \in SUBSET [sequence : 0..Sequences, op : Operations]
      BY DEF Failures
    <3>2. 0 \in 0..Sequences
      BY RelayConstants, SMTT(60)
    <3> QED  BY <1>2, <3>1, <3>2 DEF NewNet, Net
  <2>2. NewNet.carried = 0 /\ NewNet.pending = {} /\ NewNet.far = "closed"
    BY DEF NewNet
  <2> QED  BY <2>1, <2>2
<1>4. m \in Net
  BY <1>2, <1>3 DEF Net
<1>5. /\ m.carried = 0 /\ m.pending = {} /\ m.far = "closed" /\ m.sequence = x.n.sequence
      /\ m = [NewNet EXCEPT !.sequence = m.sequence]
  <2>1. /\ m.carried = NewNet.carried /\ m.pending = NewNet.pending /\ m.far = NewNet.far
        /\ m.sequence = x.n.sequence
    BY <1>3 DEF Net
  <2> QED  BY <1>3, <2>1
<1>6. done.x = y /\ done.request = request
  BY DEF Finish, Nothing
<1> HIDE DEF m
<1>7. y = [n |-> m, s |-> x.s, ship |-> x.ship]
  BY <1>1, <1>4, EndsUpdate
<1> HIDE DEF y
<1>8. y \in Ends /\ y.n = m /\ y.s = x.s
  <2>1. [n |-> m, s |-> x.s, ship |-> x.ship] \in Ends
    BY <1>1, <1>4, EndsUpdate
  <2>2. y.n = m /\ y.s = x.s
    BY <1>7, SMTT(60)
  <2> QED  BY <1>7, <2>1, <2>2
<1>9. 0 <= conns
  BY SMTT(60)
<1>10. Window(y, request)
  BY <1>5, <1>8, <1>9 DEF Window
<1>11. Turns(y, request)
  BY <1>5, <1>8 DEF Turns
<1>12. Books(y, request)
  BY <1>5, <1>8 DEF Books
<1> QED  BY <1>5, <1>6, <1>8, <1>10, <1>11, <1>12

LEMMA DeliverPrepared ==
    ASSUME NEW x \in Ends, NEW z,
           z = [x EXCEPT !.s.in = 0, !.n.received = Plus(@, x.s.in), !.n.polled = FALSE]
    PROVE  Prepared(x, z, "deliver", x.s.in)
<1> DEFINE all == Plus(x.n.received, x.s.in)
           m == [x.n EXCEPT !.received = all, !.polled = FALSE]
           t == [x.s EXCEPT !.in = 0]
<1>1. x.n \in Net /\ x.s \in Conn /\ x.ship \in 0..MaxShip
  BY EndsFields
<1>2. all \in Counts
  <2>1. x.n.received \in Counts /\ x.s.in \in {0, 1}
    BY <1>1 DEF Net, Conn
  <2> QED  BY <2>1, PlusCounts
<1>3. z = [x EXCEPT !.n = m, !.s = t]
  BY DEF Ends, Net
<1> HIDE DEF all
<1>4. m \in Net
  BY <1>1, <1>2 DEF Net
<1>5. t \in Conn
  BY <1>1 DEF Conn
<1>6. /\ m.carried = x.n.carried /\ m.far = x.n.far /\ m.failure = x.n.failure
      /\ m.sequence = x.n.sequence /\ m.relayed = x.n.relayed /\ m.sent = x.n.sent
      /\ m.received = all
  BY <1>1 DEF Net
<1>7. t.out = x.s.out /\ t.conn = x.s.conn
  BY <1>1 DEF Conn
<1> HIDE DEF m, t
<1>8. z = [n |-> m, s |-> t, ship |-> x.ship]
  BY <1>1, <1>3, <1>4, <1>5, EndsUpdate
<1>9. [n |-> m, s |-> t, ship |-> x.ship] \in Ends
  BY <1>1, <1>4, <1>5, EndsUpdate
<1> DEFINE e == [n |-> m, s |-> t, ship |-> x.ship]
<1>10. e.n = m /\ e.s = t /\ e.ship = x.ship
  OBVIOUS
<1>11. e \in Ends /\ z = e
  BY <1>8, <1>9
<1> HIDE DEF e
<1>12. Prepared(x, e, "deliver", x.s.in)
  BY <1>6, <1>7, <1>10, <1>11 DEF Prepared, all
<1> QED  BY <1>11, <1>12

LEMMA PolledPrepared ==
    ASSUME NEW x \in Ends, NEW flag \in BOOLEAN, NEW z, z = [x EXCEPT !.n.polled = flag],
           NEW op, op # "deliver", NEW len
    PROVE  Prepared(x, z, op, len)
<1> DEFINE m == [x.n EXCEPT !.polled = flag]
<1>1. x.n \in Net /\ x.s \in Conn /\ x.ship \in 0..MaxShip
  BY EndsFields
<1>2. m \in Net
  BY <1>1 DEF Net
<1>3. /\ m.carried = x.n.carried /\ m.far = x.n.far /\ m.failure = x.n.failure
      /\ m.sequence = x.n.sequence /\ m.relayed = x.n.relayed /\ m.sent = x.n.sent
      /\ m.received = x.n.received
  BY <1>1 DEF Net
<1>4. z = [x EXCEPT !.n = m]
  BY DEF Ends
<1> HIDE DEF m
<1>5. z = [n |-> m, s |-> x.s, ship |-> x.ship]
  BY <1>1, <1>2, <1>4, EndsUpdate
<1>6. [n |-> m, s |-> x.s, ship |-> x.ship] \in Ends
  BY <1>1, <1>2, EndsUpdate
<1>7. z.n = m /\ z.s = x.s /\ z.ship = x.ship
  BY <1>5, SMTT(60)
<1> QED  BY <1>3, <1>5, <1>6, <1>7 DEF Prepared

(* The arms of Relay::issue, by what they ask.                             *)
Opens(x) == Ask([x EXCEPT !.n.carried = x.s.conn], "open", 0)
Delivers(x) ==
    Ask([x EXCEPT !.s.in = 0, !.n.received = Plus(@, x.s.in), !.n.polled = FALSE], "deliver", x.s.in)
Ships(x) == Ask([x EXCEPT !.n.polled = FALSE], "ship", 1)
Polls(x) == Ask([x EXCEPT !.n.polled = TRUE], "poll", 0)

LEMMA IssueCases ==
    ASSUME NEW x \in Ends
    PROVE  \/ Issue(x) = Nothing(x)
           \/ x.n.pending = {} /\ x.n.carried = 0 /\ x.s.conn # 0 /\ Issue(x) = Opens(x)
           \/ x.n.pending = {} /\ x.n.carried # 0 /\ x.n.far = "closed" /\ Issue(x) = Finish(x)
           \/ x.n.pending = {} /\ x.n.carried # 0 /\ x.n.far = "open"
              /\ \/ Issue(x) = Ask(x, "close", 0)
                 \/ x.s.out = 0 /\ Issue(x) = Delivers(x)
                 \/ x.s.out = 0 /\ x.ship < MaxShip /\ Issue(x) = Ships(x)
                 \/ x.s.out = 0 /\ Issue(x) = Polls(x)
<1>1. x.n.far \in {"open", "closed"}
  BY EndsFields DEF Net
<1>2. Running(x) =
        LET room == RoomForAnAnswer(x.s)
        IN  CASE room /\ x.s.in > 0 -> Delivers(x)
              [] ~(room /\ x.s.in > 0) /\ x.s.peer -> Ask(x, "close", 0)
              [] x.s.in = 0 /\ ~x.s.peer /\ room /\ half = "channel" /\ x.n.agreed /\ x.ship < MaxShip ->
                   Ships(x)
              [] x.s.in = 0 /\ ~x.s.peer /\ room
                 /\ ~(half = "channel" /\ x.n.agreed /\ x.ship < MaxShip) /\ ~x.n.polled ->
                   Polls(x)
              [] OTHER -> Nothing(x)
  BY DEF Running, PollOnce, Delivers, Ships, Polls
<1>3. Issue(x) =
        CASE x.n.pending # {} -> Nothing(x)
          [] x.n.pending = {} /\ x.n.carried = 0 ->
               IF x.s.conn = 0 THEN Nothing(x) ELSE Opens(x)
          [] x.n.pending = {} /\ x.n.carried # 0 /\ x.s.conn # x.n.carried ->
               IF x.n.far = "open" THEN Ask(x, "close", 0) ELSE Finish(x)
          [] x.n.pending = {} /\ x.n.carried # 0 /\ x.s.conn = x.n.carried
             /\ (x.n.failure # "none" \/ x.n.far = "closed") ->
               IF x.n.far = "open" THEN Ask(x, "close", 0) ELSE Nothing(x)
          [] OTHER -> Running(x)
  BY DEF Issue, Opens
<1>4. \/ Running(x) = Nothing(x) \/ Running(x) = Ask(x, "close", 0)
      \/ x.s.out = 0 /\ Running(x) = Delivers(x)
      \/ x.s.out = 0 /\ x.ship < MaxShip /\ Running(x) = Ships(x)
      \/ x.s.out = 0 /\ Running(x) = Polls(x)
  BY <1>2 DEF RoomForAnAnswer
<1>5. \/ Issue(x) = Nothing(x)
      \/ x.n.pending = {} /\ x.n.carried = 0 /\ x.s.conn # 0 /\ Issue(x) = Opens(x)
      \/ x.n.pending = {} /\ x.n.carried # 0 /\ x.n.far = "open" /\ Issue(x) = Ask(x, "close", 0)
      \/ x.n.pending = {} /\ x.n.carried # 0 /\ x.n.far # "open" /\ Issue(x) = Finish(x)
      \/ x.n.pending = {} /\ x.n.carried # 0 /\ x.n.far # "closed" /\ Issue(x) = Running(x)
  BY <1>3
<1> QED  BY <1>1, <1>4, <1>5

(* Every pass of the network end leaves the window, the far end's turn and  *)
(* the books as it found them.                                             *)
LEMMA IssueKeeps ==
    ASSUME NEW x \in Ends, Window(x, request), Turns(x, request), Books(x, request),
           request \in Item, conns \in Nat, x.s.conn \in {0, conns},
           NEW done, done = Issue(x),
           done.request # request => done.request.sequence \notin {term.served, reply.sequence}
    PROVE  /\ done.x \in Ends /\ done.request \in Item /\ done.x.s.conn = x.s.conn
           /\ \/ x.n.carried = 0 \/ done.x.n.carried = x.n.carried
              \/ x.n.pending = {} /\ x.n.far = "closed"
           /\ Window(done.x, done.request) /\ Turns(done.x, done.request)
           /\ Books(done.x, done.request)
<1>1. CASE done = Nothing(x)
  <2>1. Nothing(x).x = x /\ Nothing(x).request = request
    BY DEF Nothing
  <2> QED  BY <1>1, <2>1
<1>2. ASSUME NEW z \in Ends, z.n.sequence = x.n.sequence, NEW op \in Operations, NEW len \in {0, 1},
             done = Ask(z, op, len)
      PROVE  done.request.sequence \notin {term.served, reply.sequence}
  <2>1. done.request.sequence # z.n.sequence
    BY <1>2, AskFields, SMTT(60)
  <2>2. x.n.sequence = request.sequence
    BY DEF Window
  <2> QED  BY <1>2, <2>1, <2>2
<1>3. CASE x.n.carried = 0 /\ x.s.conn # 0 /\ done = Opens(x)
  <2> DEFINE z == [x EXCEPT !.n.carried = x.s.conn]
  <2>1. /\ z \in Ends /\ z.s = x.s /\ z.ship = x.ship /\ z.n.carried = x.s.conn
        /\ z.n.far = x.n.far /\ z.n.failure = x.n.failure /\ Same(z.n, x.n)
    BY CarriedFields
  <2>2. done = Ask(z, "open", 0)
    BY <1>3 DEF Opens
  <2>3. z.n.sequence = x.n.sequence
    BY DEF Ends, Net
  <2> HIDE DEF z
  <2>4. done.request.sequence \notin {term.served, reply.sequence}
    BY <1>2, <2>1, <2>2, <2>3 DEF Operations
  <2> QED  BY <1>3, <2>1, <2>2, <2>4, AskOpen
<1>4. CASE x.n.pending = {} /\ x.n.far = "closed" /\ done = Finish(x)
  BY <1>4, FinishKeeps
<1>5. ASSUME NEW op \in Operations \ {"open"}, NEW len \in {0, 1}, NEW z, Prepared(x, z, op, len),
             x.n.pending = {}, x.n.carried # 0, x.n.far = "open",
             op = "close" \/ x.s.out = 0, op = "poll" => len = 0, op = "ship" => x.ship < MaxShip,
             done = Ask(z, op, len)
      PROVE  /\ done.x \in Ends /\ done.request \in Item /\ done.x.s.conn = x.s.conn
             /\ done.x.n.carried = x.n.carried
             /\ Window(done.x, done.request) /\ Turns(done.x, done.request)
             /\ Books(done.x, done.request)
  <2>1. z \in Ends /\ z.n.sequence = x.n.sequence /\ op \in Operations
    BY <1>5 DEF Prepared
  <2>2. done.request.sequence \notin {term.served, reply.sequence}
    BY <1>2, <1>5, <2>1
  <2>3. done.x.n.carried = x.n.carried
    <3>1. done.x.n.carried = z.n.carried
      BY <1>5, <2>1, AskFields, SMTT(60)
    <3> QED  BY <1>5, <3>1 DEF Prepared
  <2>4. /\ done.x \in Ends /\ done.request \in Item /\ done.x.s.conn = x.s.conn
        /\ Window(done.x, done.request) /\ Turns(done.x, done.request)
        /\ Books(done.x, done.request)
    BY <1>5, <2>2, AskItem
  <2> QED  BY <2>3, <2>4
<1>6. CASE x.n.pending = {} /\ x.n.carried # 0 /\ x.n.far = "open"
  <2>1. CASE done = Ask(x, "close", 0)
    <3>1. Prepared(x, x, "close", 0) /\ "close" \in Operations \ {"open"}
      BY DEF Prepared, Operations
    <3> QED  BY <1>5, <1>6, <2>1, <3>1
  <2>2. CASE x.s.out = 0 /\ done = Delivers(x)
    <3>1. PICK z : z = [x EXCEPT !.s.in = 0, !.n.received = Plus(@, x.s.in), !.n.polled = FALSE]
      OBVIOUS
    <3>2. Prepared(x, z, "deliver", x.s.in)
      BY <3>1, DeliverPrepared
    <3>3. "deliver" \in Operations \ {"open"} /\ x.s.in \in {0, 1}
      BY EndsFields DEF Operations, Conn
    <3>4. done = Ask(z, "deliver", x.s.in)
      BY <2>2, <3>1 DEF Delivers
    <3> QED  BY <1>5, <1>6, <2>2, <3>2, <3>3, <3>4
  <2>3. CASE x.s.out = 0 /\ x.ship < MaxShip /\ done = Ships(x)
    <3>1. PICK z : z = [x EXCEPT !.n.polled = FALSE]
      OBVIOUS
    <3>2. Prepared(x, z, "ship", 1)
      BY <3>1, PolledPrepared
    <3>3. "ship" \in Operations \ {"open"} /\ done = Ask(z, "ship", 1)
      BY <2>3, <3>1 DEF Operations, Ships
    <3> QED  BY <1>5, <1>6, <2>3, <3>2, <3>3
  <2>4. CASE x.s.out = 0 /\ done = Polls(x)
    <3>1. PICK z : z = [x EXCEPT !.n.polled = TRUE]
      OBVIOUS
    <3>2. Prepared(x, z, "poll", 0)
      BY <3>1, PolledPrepared
    <3>3. "poll" \in Operations \ {"open"} /\ done = Ask(z, "poll", 0)
      BY <2>4, <3>1 DEF Operations, Polls
    <3> QED  BY <1>5, <1>6, <2>4, <3>2, <3>3
  <2> QED  BY <1>1, <1>4, <1>6, <2>1, <2>2, <2>3, <2>4, IssueCases
<1> QED  BY <1>1, <1>3, <1>4, <1>6, IssueCases

-----------------------------------------------------------------------------
(* Each action keeps the invariant *)

LEMMA HereFields == Here.n = net /\ Here.s = stream /\ Here.ship = ship
  BY DEF Here

LEMMA PassKeeps ==
    ASSUME IInv, NEW e \in BOOLEAN, Pass(e)
    PROVE  IInv'
<1>1. PICK done : /\ done = Issue(Claim(Here, e))
                  /\ done.request # request =>
                       done.request.sequence \notin {term.served, reply.sequence}
                  /\ net' = done.x.n /\ stream' = done.x.s /\ ship' = done.x.ship
                  /\ request' = done.request
                  /\ UNCHANGED <<half, conns, reply, term, account, budget>>
  BY DEF Pass
<1>2. PICK x : x = Claim(Here, e)
  OBVIOUS
<1>3. /\ x \in Ends /\ x.s.conn = stream.conn
      /\ Window(x, request) /\ Turns(x, request) /\ Books(x, request)
  BY <1>2, ClaimKeeps
<1>4. request \in Item /\ conns \in Nat /\ stream.conn \in {0, conns}
  <2>1. conns \in 0..MaxConns
    BY DEF IInv, Types
  <2>2. conns \in Nat
    BY <2>1, SMTT(60)
  <2> QED  BY <2>2 DEF IInv, Types
<1>5. done = Issue(x)
  BY <1>1, <1>2
<1>6. /\ done.x \in Ends /\ done.request \in Item /\ done.x.s.conn = x.s.conn
      /\ Window(done.x, done.request) /\ Turns(done.x, done.request)
      /\ Books(done.x, done.request)
  BY <1>1, <1>3, <1>4, <1>5, IssueKeeps
<1>7. Here' = done.x
  <2>1. Here' = [n |-> done.x.n, s |-> done.x.s, ship |-> done.x.ship]
    BY <1>1 DEF Here
  <2> QED  BY <1>6, <2>1, EndsFields
<1>8. Types'
  BY <1>1, <1>3, <1>6, <1>7 DEF IInv, Types
<1>9. Window(Here, request)'
  BY <1>1, <1>6, <1>7 DEF Window
<1>10. Turns(Here, request)'
  BY <1>1, <1>6, <1>7 DEF Turns
<1>11. Books(Here, request)'
  BY <1>1, <1>6, <1>7 DEF Books, Settlement, Opening, Moving
<1> QED  BY <1>8, <1>9, <1>10, <1>11 DEF IInv

(* The stream moves on its own: bytes arrive, are sent, and connections     *)
(* come and go under the session.                                          *)
LEMMA StreamKeeps ==
    ASSUME IInv, stream' \in Conn, stream'.out \in {0, stream.out},
           conns' \in 0..MaxConns, conns <= conns', stream'.conn \in {0, conns'},
           UNCHANGED <<half, net, request, reply, term, ship, account>>
    PROVE  IInv'
<1>1. Here.n = net /\ Here.s = stream /\ Here.ship = ship
      /\ Here'.n = net /\ Here'.s = stream' /\ Here'.ship = ship
  BY DEF Here
<1>2. Here \in Ends /\ Here' \in Ends
  <2>1. Here \in Ends
    BY DEF IInv, Types
  <2>2. net \in Net /\ ship \in 0..MaxShip
    BY <1>1, <2>1, EndsFields
  <2> QED  BY <2>1, <2>2, EndsUpdate DEF Here
<1>3. /\ net.carried \in 0..MaxConns /\ request.tag \in 0..MaxConns
      /\ term.held.session \in 0..MaxConns
      /\ \A d \in term.demand : d.tag \in 0..MaxConns
      /\ conns \in 0..MaxConns
  <2>1. net \in Net
    BY <1>1, <1>2, EndsFields
  <2> QED  BY <2>1 DEF IInv, Types, Net, Item, Held, Demand
<1>4. /\ net.carried <= conns /\ request.tag <= conns /\ term.held.session <= conns
      /\ \A d \in term.demand : d.tag <= conns
  BY <1>1 DEF IInv, Types, Window
<1>5. /\ net.carried <= conns' /\ request.tag <= conns' /\ term.held.session <= conns'
      /\ \A d \in term.demand : d.tag <= conns'
  BY <1>3, <1>4, SMTT(60)
<1>6. Types'
  BY <1>2, <1>5 DEF IInv, Types
<1>7. Window(Here, request)'
  BY <1>1, <1>5 DEF IInv, Window
<1>8. Turns(Here, request)'
  BY <1>1 DEF IInv, Turns
<1>9. Books(Here, request)'
  BY <1>1 DEF IInv, Books, Settlement, Opening, Moving
<1> QED  BY <1>6, <1>7, <1>8, <1>9 DEF IInv

LEMMA StreamActions ==
    ASSUME IInv, Connect \/ Arrive \/ PeerCloses \/ Drain \/ Gone
    PROVE  IInv'
<1>1. /\ stream \in Conn /\ conns \in 0..MaxConns /\ stream.conn \in {0, conns}
      /\ stream.out \in {0, 1} /\ stream.conn \in 0..MaxConns /\ MaxConns \in Nat
  <2>1. stream \in Conn
    BY HereFields, EndsFields DEF IInv, Types
  <2> QED  BY <2>1, RelayConstants DEF IInv, Types, Conn
<1>2. conns <= conns /\ 0 \in 0..MaxConns
  BY <1>1, SMTT(60)
<1>3. \A c \in 0..MaxConns :
        NewStream(c) \in Conn /\ NewStream(c).out = 0 /\ NewStream(c).conn = c
  BY DEF NewStream, Conn
<1>4. CASE Connect
  <2>1. conns + 1 \in 0..MaxConns /\ conns <= conns + 1 /\ conns' = conns + 1
    BY <1>1, <1>4, SMTT(60) DEF Connect
  <2> DEFINE c == conns + 1
  <2>2. stream' = NewStream(c)
    BY <1>4 DEF Connect
  <2> HIDE DEF c
  <2>3. c \in 0..MaxConns /\ conns <= c /\ conns' = c
    BY <2>1 DEF c
  <2> QED  BY <1>3, <1>4, <2>2, <2>3, StreamKeeps DEF Connect
<1>5. CASE Arrive
  <2>1. stream' = [stream EXCEPT !.in = 1]
    BY <1>5 DEF Arrive
  <2>2. stream' \in Conn /\ stream'.out = stream.out /\ stream'.conn = stream.conn
    BY <1>1, <2>1 DEF Conn
  <2> QED  BY <1>1, <1>2, <1>5, <2>2, StreamKeeps DEF Arrive
<1>6. CASE PeerCloses
  <2>1. stream' = [stream EXCEPT !.peer = TRUE]
    BY <1>6 DEF PeerCloses
  <2>2. stream' \in Conn /\ stream'.out = stream.out /\ stream'.conn = stream.conn
    BY <1>1, <2>1 DEF Conn
  <2> QED  BY <1>1, <1>2, <1>6, <2>2, StreamKeeps DEF PeerCloses
<1>7. CASE Drain
  <2>1. stream' = [stream EXCEPT !.out = 0]
    BY <1>7 DEF Drain
  <2>2. stream' \in Conn /\ stream'.out = 0 /\ stream'.conn = stream.conn
    BY <1>1, <2>1 DEF Conn
  <2> QED  BY <1>1, <1>2, <1>7, <2>2, StreamKeeps DEF Drain
<1>8. CASE Gone
  <2>1. stream' = NewStream(0)
    BY <1>8 DEF Gone
  <2>2. stream' \in Conn /\ stream'.out = 0 /\ stream'.conn = 0
    BY <1>2, <1>3, <2>1
  <2> QED  BY <1>1, <1>2, <1>8, <2>2, StreamKeeps DEF Gone
<1> QED  BY <1>4, <1>5, <1>6, <1>7, <1>8

TermType == [held : Held, served : 0..Sequences, demand : SUBSET Demand]

(* A step of the terminating end leaves the network end where it is.       *)
LEMMA FarSide ==
    ASSUME IInv, UNCHANGED <<half, conns, stream, net, request, ship>>,
           reply' \in Answer, term' \in TermType,
           \A d, e \in term'.demand : d = e,
           term'.held.session <= conns, \A d \in term'.demand : d.tag <= conns,
           Turns(Here, request)', Books(Here, request)'
    PROVE  IInv'
<1>1. Here' = Here
  BY DEF Here
<1>2. Types'
  BY <1>1 DEF IInv, Types, TermType
<1>3. Window(Here, request)'
  BY <1>1 DEF IInv, Window
<1> QED  BY <1>2, <1>3 DEF IInv

LEMMA TermFields ==
    ASSUME IInv
    PROVE  /\ term \in TermType /\ term.held \in Held /\ term.served \in 0..Sequences
           /\ \A d \in term.demand : d \in Demand /\ term.demand = {d}
           /\ term.held.session <= conns
<1>1. term \in TermType
  BY DEF IInv, Types, TermType
<1>2. \A d, e \in term.demand : d = e
  BY DEF IInv, Types
<1>3. ASSUME NEW d \in term.demand PROVE term.demand = {d}
  BY <1>2
<1>4. term.held.session <= conns
  BY DEF IInv, Types
<1> QED  BY <1>1, <1>3, <1>4 DEF TermType

LEMMA TakeSequenceKeeps ==
    ASSUME IInv, TakeSequence
    PROVE  IInv'
<1> DEFINE d == [sequence |-> request.sequence, op |-> "unread", len |-> 0, tag |-> 0]
<1>1. /\ term.demand = {} /\ request.sequence # term.served
      /\ term' = [term EXCEPT !.served = request.sequence, !.demand = {d}]
      /\ UNCHANGED <<half, conns, stream, net, request, reply, ship, account, budget>>
  BY DEF TakeSequence
<1>2. /\ term \in TermType /\ term.held \in Held /\ term.held.session <= conns
      /\ request \in Item /\ request.sequence \in 0..Sequences /\ conns \in 0..MaxConns
  BY TermFields DEF IInv, Types, Item
<1>3. d.sequence = request.sequence /\ d.op = "unread" /\ d.tag = 0
  OBVIOUS
<1>4. d \in Demand
  <2>1. 0 \in 0..MaxConns
    BY RelayConstants, SMTT(60)
  <2> QED  BY <1>2, <2>1 DEF Demand
<1> HIDE DEF d
<1>5. term' \in TermType
  BY <1>1, <1>2, <1>4 DEF TermType
<1>6. term'.held = term.held /\ term'.served = request.sequence /\ term'.demand = {d}
  BY <1>1, <1>2 DEF TermType
<1>7. 0 <= conns
  BY <1>2, SMTT(60)
<1>8. Here' = Here
  BY <1>1 DEF Here
<1>9. reply.sequence # request.sequence
  BY <1>1 DEF IInv, Turns
<1>10. ~(Here.n.far = "open" /\ Here.n.pending = {})
  BY <1>1 DEF IInv, Turns
<1>11. Turns(Here, request)'
  BY <1>1, <1>3, <1>6, <1>8, <1>9, <1>10 DEF IInv, Turns
<1>12. Books(Here, request)'
  <2>1. SUFFICES ASSUME net.carried # 0, net.failure \notin {"unanswered", "faulted"}
                 PROVE  /\ net.failure = "none" /\ Settlement(Here, request)'
                        /\ Opening(Here, request)' /\ Moving(Here, request)'
    BY <1>1, <1>8, HereFields DEF Books
  <2>2. /\ net.failure = "none" /\ Settlement(Here, request)
        /\ Opening(Here, request) /\ Moving(Here, request)
    BY <2>1, HereFields DEF IInv, Books
  <2>3. Here.n.pending # {}
    BY <1>1, <2>2 DEF Settlement
  <2> QED  BY <1>1, <1>6, <1>8, <1>9, <2>2, <2>3 DEF Settlement, Opening, Moving
<1> QED  BY <1>1, <1>2, <1>3, <1>5, <1>6, <1>7, <1>11, <1>12, FarSide DEF IInv, Types

LEMMA TakeWordsKeeps ==
    ASSUME IInv, TakeWords
    PROVE  IInv'
<1>1. PICK d \in term.demand :
        /\ d.op = "unread"
        /\ term' = [term EXCEPT !.demand = {[request EXCEPT !.sequence = d.sequence]}]
        /\ UNCHANGED <<half, conns, stream, net, request, reply, ship, account, budget>>
  BY DEF TakeWords
<1> DEFINE e == [request EXCEPT !.sequence = d.sequence]
<1>2. /\ term \in TermType /\ term.held \in Held /\ d \in Demand /\ request \in Item
      /\ term.held.session <= conns
  BY TermFields DEF IInv, Types
<1>3. d.sequence = term.served /\ d.sequence \in 0..Sequences
  BY <1>2 DEF IInv, Turns, Demand
<1>4. e \in Item /\ e.sequence = d.sequence /\ e.op = request.op /\ e.tag = request.tag
      /\ (d.sequence = request.sequence => e = request)
  BY <1>2, <1>3 DEF Item
<1>5. term' = [term EXCEPT !.demand = {e}]
  BY <1>1
<1> HIDE DEF e
<1>6. e \in Demand
  BY <1>4 DEF Item, Demand
<1>7. term' \in TermType
  BY <1>2, <1>5, <1>6 DEF TermType
<1>8. term'.held = term.held /\ term'.served = term.served /\ term'.demand = {e}
  BY <1>2, <1>5 DEF TermType
<1>9. request.tag <= conns
  BY DEF IInv, Window
<1>10. Here' = Here
  BY <1>1 DEF Here
<1>11. Turns(Here, request)'
  BY <1>1, <1>3, <1>4, <1>8, <1>10 DEF IInv, Turns
<1>12. Books(Here, request)'
  <2>1. Here.n.pending = {} => ~(Here.n.carried # 0 /\ Here.n.failure \notin {"unanswered", "faulted"})
    BY <1>1 DEF IInv, Books, Settlement
  <2> QED  BY <1>1, <1>8, <1>10, <2>1 DEF IInv, Books, Settlement, Opening, Moving
<1> QED  BY <1>1, <1>2, <1>4, <1>7, <1>8, <1>9, <1>11, <1>12, FarSide DEF IInv, Types

(* What the terminating end's account of a session is once it has answered  *)
(* an item with so many bytes                                              *)
After(held, d, len) ==
    [relayed |-> Plus(held.relayed, 1),
     received |-> IF d.op = "deliver" THEN Plus(held.received, d.len) ELSE held.received,
     sent |-> Plus(held.sent, len)]

(* An answer to an item on the session that is held puts the item in the    *)
(* account it leaves, whether that is the session's or the one it reports.  *)
Entered(d, h) ==
    /\ reply'.op = d.op /\ reply'.status # "refused"
    /\ d.op = "close" => reply'.closed /\ reply'.len = 0
    /\ LET over == After(term.held, d, reply'.len)
       IN  IF reply'.closed THEN account' = Account(term.held.session, over)
           ELSE h.session = term.held.session /\ Same(over, h)

Fresh(h) ==
    /\ reply'.op = "open" /\ reply'.status # "refused" /\ ~reply'.closed /\ reply'.len = 0
    /\ Same(h, Counted(NoSession, 0))

(* Any answer keeps the invariant: it goes to the item that was taken, the  *)
(* session it leaves is the item's own, and the books take it in.           *)
LEMMA AnswerKeeps ==
    ASSUME IInv, NEW d \in term.demand, d.op # "unread", NEW h \in Held,
           term' = [term EXCEPT !.demand = {}, !.held = h],
           reply' \in Answer, reply'.sequence = d.sequence,
           UNCHANGED <<half, conns, stream, net, request, ship>>,
           d.op = "open" => h.session = d.tag /\ Fresh(h),
           d.op # "open" => h.session \in {0, term.held.session},
           d.op # "open" /\ term.held.session # 0 /\ (d.op = "poll" => d.len = 0) => Entered(d, h)
    PROVE  IInv'
<1>1. /\ term \in TermType /\ term.held \in Held /\ d \in Demand /\ term.demand = {d}
      /\ term.held.session <= conns /\ conns \in 0..MaxConns
  BY TermFields DEF IInv, Types
<1>2. term' \in TermType
  BY <1>1 DEF TermType
<1>3. term'.held = h /\ term'.served = term.served /\ term'.demand = {}
  BY <1>1 DEF TermType
<1>4. h.session <= conns
  <2>1. d.tag <= conns
    BY DEF IInv, Types
  <2>2. 0 <= conns
    BY <1>1, SMTT(60)
  <2> QED  BY <1>1, <2>1, <2>2
<1>5. Here' = Here
  BY DEF Here
<1>6. d.sequence = term.served
  BY DEF IInv, Turns
<1>7. term.served = request.sequence => d = request
  BY DEF IInv, Turns
<1>8. request.op # "open" => d = request /\ term.served = request.sequence
  BY <1>1, <1>7 DEF IInv, Turns
<1>9. reply.sequence # request.sequence
  BY DEF IInv, Turns
<1>10. ~(Here.n.far = "open" /\ Here.n.pending = {})
  BY DEF IInv, Turns
<1>11. request.op # "open" => h.session \in {0, request.tag}
  BY <1>8 DEF IInv, Turns
<1>12. term.served = request.sequence /\ request.op = "open" => h.session = request.tag
  BY <1>7
<1>13. Turns(Here, request)'
  BY <1>3, <1>5, <1>6, <1>8, <1>10, <1>11, <1>12 DEF Turns
<1>14. Books(Here, request)'
  <2>1. SUFFICES ASSUME net.carried # 0, net.failure \notin {"unanswered", "faulted"}
                 PROVE  /\ net.failure = "none" /\ Settlement(Here, request)'
                        /\ Opening(Here, request)' /\ Moving(Here, request)'
    BY <1>5, HereFields DEF Books
  <2>2. /\ net.failure = "none" /\ Settlement(Here, request)
        /\ Opening(Here, request) /\ Moving(Here, request)
    BY <2>1, HereFields DEF IInv, Books
  <2>3. Here.n.pending # {}
    BY <2>2 DEF Settlement
  <2>4. request.tag = net.carried
    BY <2>3, HereFields DEF IInv, Window
  <2>5. Settlement(Here, request)'
    BY <1>5, <2>3 DEF Settlement
  <2>6. Opening(Here, request)'
    BY <1>3, <1>5, <1>6, <1>7, <1>12, <2>2, <2>3, <2>4, HereFields DEF Opening, Fresh
  <2>7. Moving(Here, request)'
    <3>1. SUFFICES ASSUME request.op # "open" PROVE Moving(Here, request)'
      BY DEF Moving
    <3>2. /\ net.far = "open"
          /\ request.op = "close" \/ stream.out = 0
          /\ request.op = "poll" => request.len = 0
          /\ term.held.session = net.carried
          /\ net.relayed = term.held.relayed /\ net.sent = term.held.sent
          /\ net.received = IF request.op = "deliver" THEN Plus(term.held.received, request.len)
                                                      ELSE term.held.received
      BY <1>9, <2>2, <2>3, <3>1, HereFields DEF Moving
    <3>3. d = request /\ reply'.sequence = request.sequence
      BY <1>6, <1>8, <3>1
    <3>4. Entered(request, h)
      BY <2>1, <3>1, <3>2, <3>3
    <3>5. After(term.held, request, reply'.len)
            = [relayed |-> Plus(net.relayed, 1), received |-> net.received,
               sent |-> Plus(net.sent, reply'.len)]
      BY <3>2 DEF After
    <3>6. LET over == [relayed |-> Plus(net.relayed, 1), received |-> net.received,
                       sent |-> Plus(net.sent, reply'.len)]
          IN  IF reply'.closed THEN account' = Account(net.carried, over)
              ELSE term'.held.session = net.carried /\ Same(over, term'.held)
      BY <1>3, <3>2, <3>4, <3>5 DEF Entered
    <3>7. reply'.op = request.op /\ reply'.status # "refused"
          /\ (request.op = "close" => reply'.closed /\ reply'.len = 0)
      BY <3>4 DEF Entered
    <3>8. Here'.n = net /\ Here'.s = stream /\ request' = request
      BY <1>5, HereFields
    <3>9. LET over == [relayed |-> Plus(Here'.n.relayed, 1), received |-> Here'.n.received,
                       sent |-> Plus(Here'.n.sent, reply'.len)]
          IN  IF reply'.closed THEN account' = Account(Here'.n.carried, over)
              ELSE term'.held.session = Here'.n.carried /\ Same(over, term'.held)
      BY <3>6, <3>8
    <3> QED  BY <3>2, <3>3, <3>7, <3>8, <3>9 DEF Moving
  <2> QED  BY <2>2, <2>5, <2>6, <2>7
<1> QED  BY <1>2, <1>3, <1>4, <1>13, <1>14, FarSide

Statuses == {"ok", "refused", "unreadable"}
Lengths == {0, 1}

LEMMA ReplyFields ==
    ASSUME NEW d \in Demand, d.op # "unread", NEW status \in Statuses,
           NEW closed \in BOOLEAN, NEW agreed \in BOOLEAN, NEW len \in Lengths
    PROVE  LET r == Reply(d, status, closed, agreed, len)
           IN  /\ r \in Answer /\ r.sequence = d.sequence /\ r.op = d.op /\ r.status = status
               /\ r.closed = closed /\ r.len = len
<1> DEFINE e == [sequence |-> d.sequence, op |-> d.op, status |-> status, closed |-> closed,
                 agreed |-> agreed, len |-> len]
<1>1. d.sequence \in 0..Sequences /\ d.op \in Operations
  BY DEF Demand
<1>2. e \in Answer
  BY <1>1 DEF Answer, Statuses, Lengths
<1>3. /\ e.sequence = d.sequence /\ e.op = d.op /\ e.status = status
      /\ e.closed = closed /\ e.len = len
  OBVIOUS
<1>4. Reply(d, status, closed, agreed, len) = e
  BY DEF Reply
<1> HIDE DEF e
<1> QED  BY <1>2, <1>3, <1>4

LEMMA CountedFields ==
    ASSUME NEW held \in Held, NEW len \in {0, 1}, NEW h, h = Counted(held, len)
    PROVE  /\ h \in Held /\ h.session = held.session /\ h.relayed = Plus(held.relayed, 1)
           /\ h.received = held.received /\ h.sent = Plus(held.sent, len)
<1> DEFINE a == Plus(held.relayed, 1)
           b == Plus(held.sent, len)
<1>1. held.relayed \in Counts /\ held.sent \in Counts
  BY DEF Held
<1>2. a \in Counts /\ b \in Counts
  BY <1>1, PlusCounts
<1>3. h = [held EXCEPT !.relayed = a, !.sent = b]
  BY DEF Counted
<1> HIDE DEF a, b
<1>4. h \in Held
  BY <1>2, <1>3 DEF Held
<1>5. h.session = held.session /\ h.relayed = a /\ h.received = held.received /\ h.sent = b
  BY <1>3 DEF Held
<1> QED  BY <1>4, <1>5 DEF a, b

LEMMA NoSessionHeld ==
    NoSession \in Held /\ NoSession.session = 0
<1>1. 0 \in 0..MaxConns /\ 0 \in Counts
  BY RelayConstants, SMTT(60) DEF Counts
<1> QED  BY <1>1 DEF NoSession, Held

LEMMA AnswerOpenKeeps ==
    ASSUME IInv, NEW d \in term.demand, d.op # "unread", AnswerOpen(d),
           UNCHANGED <<half, conns, stream, net, request, ship>>
    PROVE  IInv'
<1> DEFINE new == [NoSession EXCEPT !.session = d.tag]
           h == Counted(new, 0)
<1>1. d \in Demand /\ d.tag \in 0..MaxConns
  BY TermFields DEF Demand
<1>2. new \in Held /\ new.session = d.tag /\ Same(new, NoSession)
  BY <1>1, NoSessionHeld DEF Held, Same
<1>3. /\ d.op = "open" /\ term' = [term EXCEPT !.demand = {}, !.held = h]
      /\ reply' = Reply(d, "ok", FALSE, FALSE, 0)
  BY DEF AnswerOpen
<1> HIDE DEF new
<1>4. /\ h \in Held /\ h.session = d.tag /\ h.relayed = Plus(new.relayed, 1)
      /\ h.received = new.received /\ h.sent = Plus(new.sent, 0)
  BY <1>2, CountedFields
<1>5. LET c == Counted(NoSession, 0)
      IN  /\ c.relayed = Plus(NoSession.relayed, 1) /\ c.received = NoSession.received
          /\ c.sent = Plus(NoSession.sent, 0)
  BY NoSessionHeld, CountedFields
<1>6. /\ reply' \in Answer /\ reply'.sequence = d.sequence /\ reply'.op = d.op
      /\ reply'.status = "ok" /\ reply'.closed = FALSE /\ reply'.len = 0
  <2> DEFINE no == FALSE
  <2>1. "ok" \in Statuses /\ 0 \in Lengths /\ no \in BOOLEAN
    BY DEF Statuses, Lengths
  <2> HIDE DEF no
  <2>2. LET r == Reply(d, "ok", no, no, 0)
        IN  /\ r \in Answer /\ r.sequence = d.sequence /\ r.op = d.op /\ r.status = "ok"
            /\ r.closed = no /\ r.len = 0
    BY <1>1, <2>1, ReplyFields, SMTT(60)
  <2> QED  BY <1>3, <2>2 DEF no
<1> HIDE DEF h
<1>7. Same(h, Counted(NoSession, 0))
  BY <1>2, <1>4, <1>5 DEF Same
<1>8. Fresh(h)
  BY <1>3, <1>6, <1>7 DEF Fresh
<1> QED  BY <1>3, <1>4, <1>6, <1>8, AnswerKeeps

LEMMA AnswerNoSessionKeeps ==
    ASSUME IInv, NEW d \in term.demand, d.op # "unread", AnswerNoSession(d),
           UNCHANGED <<half, conns, stream, net, request, ship>>
    PROVE  IInv'
<1>1. d \in Demand /\ term \in TermType /\ term.held \in Held
  BY TermFields
<1>2. /\ d.op # "open" /\ term.held.session = 0 /\ term' = [term EXCEPT !.demand = {}]
      /\ reply' = Reply(d, "refused", TRUE, FALSE, 0)
  BY DEF AnswerNoSession
<1>3. term' = [term EXCEPT !.demand = {}, !.held = term.held]
  BY <1>1, <1>2 DEF TermType
<1>4. reply' \in Answer /\ reply'.sequence = d.sequence
  <2> DEFINE yes == TRUE
             no == FALSE
  <2>1. "refused" \in Statuses /\ 0 \in Lengths /\ yes \in BOOLEAN /\ no \in BOOLEAN
    BY DEF Statuses, Lengths
  <2> HIDE DEF yes, no
  <2>2. LET r == Reply(d, "refused", yes, no, 0)
        IN  /\ r \in Answer /\ r.sequence = d.sequence /\ r.op = d.op /\ r.status = "refused"
            /\ r.closed = yes /\ r.len = 0
    BY <1>1, <2>1, ReplyFields, SMTT(60)
  <2> QED  BY <1>2, <2>2 DEF yes, no
<1> QED  BY <1>1, <1>2, <1>3, <1>4, AnswerKeeps

(* Terminating::publish counts the item in the account it leaves.          *)
LEMMA SettleEnters ==
    ASSUME NEW d, NEW held \in Held, term.held.session # 0, held.session = term.held.session,
           NEW len \in {0, 1}, NEW h \in Held,
           held.relayed = term.held.relayed, held.sent = term.held.sent,
           held.received = After(term.held, d, len).received,
           reply'.op = d.op, reply'.status = "ok", reply'.len = len, reply'.closed \in BOOLEAN,
           d.op = "close" => reply'.closed /\ len = 0,
           IF reply'.closed THEN account' = Reported(Counted(held, len)) ELSE h = Counted(held, len)
    PROVE  Entered(d, h)
<1> DEFINE over == After(term.held, d, len)
           c == Counted(held, len)
<1>1. /\ c.session = held.session /\ c.relayed = Plus(held.relayed, 1)
      /\ c.received = held.received /\ c.sent = Plus(held.sent, len)
  BY CountedFields
<1>2. over.relayed = Plus(term.held.relayed, 1) /\ over.sent = Plus(term.held.sent, len)
  BY DEF After
<1> HIDE DEF over, c
<1>3. Same(over, c)
  BY <1>1, <1>2 DEF Same, over
<1>4. CASE reply'.closed
  <2>1. account' = Account(term.held.session, c)
    BY <1>1, <1>4 DEF Reported, c
  <2>2. account' = Account(term.held.session, over)
    BY <1>3, <2>1 DEF Account, Same
  <2> QED  BY <1>4, <2>2 DEF Entered, over
<1>5. CASE ~reply'.closed
  BY <1>1, <1>3, <1>5 DEF Entered, over, c
<1> QED  BY <1>4, <1>5

LEMMA AnswerCloseKeeps ==
    ASSUME IInv, NEW d \in term.demand, d.op # "unread", AnswerClose(d),
           UNCHANGED <<half, conns, stream, net, request, ship>>
    PROVE  IInv'
<1>1. d \in Demand /\ term.held \in Held /\ term.held.agreed \in BOOLEAN
  BY TermFields DEF Held
<1>2. /\ d.op = "close" /\ term.held.session # 0
      /\ term' = [term EXCEPT !.demand = {}, !.held = NoSession]
      /\ reply' = Reply(d, "ok", TRUE, term.held.agreed, 0)
      /\ account' = Reported(Counted(term.held, 0))
  BY DEF AnswerClose
<1>3. /\ reply' \in Answer /\ reply'.sequence = d.sequence /\ reply'.op = d.op
      /\ reply'.status = "ok" /\ reply'.closed = TRUE /\ reply'.len = 0
  <2> DEFINE yes == TRUE
  <2>1. "ok" \in Statuses /\ 0 \in Lengths /\ yes \in BOOLEAN
    BY DEF Statuses, Lengths
  <2> HIDE DEF yes
  <2>2. LET r == Reply(d, "ok", yes, term.held.agreed, 0)
        IN  /\ r \in Answer /\ r.sequence = d.sequence /\ r.op = d.op /\ r.status = "ok"
            /\ r.closed = yes /\ r.len = 0
    BY <1>1, <2>1, ReplyFields, SMTT(60)
  <2> QED  BY <1>2, <2>2 DEF yes
<1>4. After(term.held, d, 0).received = term.held.received
  BY <1>2 DEF After
<1>5. Entered(d, NoSession)
  BY <1>1, <1>2, <1>3, <1>4, NoSessionHeld, SettleEnters
<1> QED  BY <1>2, <1>3, <1>5, NoSessionHeld, AnswerKeeps

LEMMA SettleKeeps ==
    ASSUME IInv, NEW d \in term.demand, d.op \notin {"unread", "open", "close"},
           NEW held \in Held, term.held.session # 0, held.session = term.held.session,
           held.relayed = term.held.relayed, held.sent = term.held.sent,
           (d.op = "poll" => d.len = 0) => held.received = After(term.held, d, 0).received,
           NEW len \in {0, 1}, NEW finished \in BOOLEAN, Settle(d, held, len, finished),
           UNCHANGED <<half, conns, stream, net, request, ship>>
    PROVE  IInv'
<1> DEFINE c == Counted(held, len)
           h == IF finished THEN NoSession ELSE c
<1>1. d \in Demand /\ held.agreed \in BOOLEAN
  BY TermFields DEF Held
<1>2. /\ term' = [term EXCEPT !.demand = {}, !.held = h]
      /\ reply' = Reply(d, "ok", finished, held.agreed, len)
      /\ account' = IF finished THEN Reported(c) ELSE account
  BY DEF Settle
<1>3. /\ reply' \in Answer /\ reply'.sequence = d.sequence /\ reply'.op = d.op
      /\ reply'.status = "ok" /\ reply'.closed = finished /\ reply'.len = len
  <2>1. "ok" \in Statuses /\ len \in Lengths /\ d.op # "unread"
    BY DEF Statuses, Lengths
  <2>2. LET r == Reply(d, "ok", finished, held.agreed, len)
        IN  /\ r \in Answer /\ r.sequence = d.sequence /\ r.op = d.op /\ r.status = "ok"
            /\ r.closed = finished /\ r.len = len
    BY <1>1, <2>1, ReplyFields, SMTT(60)
  <2> QED  BY <1>2, <2>2
<1>4. c \in Held /\ c.session = held.session
  BY CountedFields
<1> HIDE DEF c
<1>5. h \in Held /\ h.session \in {0, term.held.session}
  BY <1>4, NoSessionHeld
<1>6. IF reply'.closed THEN account' = Reported(c) ELSE h = c
  BY <1>2, <1>3
<1> HIDE DEF h
<1>7. After(term.held, d, 0).received = After(term.held, d, len).received
  BY DEF After
<1>8. (d.op = "poll" => d.len = 0) => Entered(d, h)
  BY <1>3, <1>5, <1>6, <1>7, SettleEnters DEF c
<1> QED  BY <1>2, <1>3, <1>5, <1>8, AnswerKeeps

LEMMA AnswerTurnKeeps ==
    ASSUME IInv, NEW d \in term.demand, d.op # "unread", AnswerTurn(d),
           UNCHANGED <<half, conns, stream, net, request, ship>>
    PROVE  IInv'
<1>1. PICK len \in {0, 1}, finished \in BOOLEAN, agrees \in BOOLEAN :
        Settle(d, [term.held EXCEPT !.received = Plus(@, d.len), !.agreed = @ \/ agrees],
               len, finished)
  BY DEF AnswerTurn
<1>2. d.op \in {"deliver", "poll"} /\ term.held.session # 0
  BY DEF AnswerTurn
<1> DEFINE all == Plus(term.held.received, d.len)
           agreed == term.held.agreed \/ agrees
<1>3. PICK held : held = [term.held EXCEPT !.received = all, !.agreed = agreed]
  OBVIOUS
<1>4. Settle(d, held, len, finished)
  BY <1>1, <1>3
<1>5. term.held \in Held /\ d \in Demand /\ d.len \in {0, 1}
  BY TermFields DEF Demand
<1>6. all \in Counts /\ agreed \in BOOLEAN
  <2>1. term.held.received \in Counts /\ term.held.agreed \in BOOLEAN
    BY <1>5 DEF Held
  <2> QED  BY <1>5, <2>1, PlusCounts
<1>7. (d.op = "poll" => d.len = 0) => all = After(term.held, d, 0).received
  <2>1. term.held.received \in Counts
    BY <1>5 DEF Held
  <2>2. Plus(term.held.received, 0) = term.held.received
    BY <2>1, PlusCounts
  <2> QED  BY <1>2, <2>2 DEF After
<1> HIDE DEF all, agreed
<1>8. /\ held \in Held /\ held.session = term.held.session /\ held.relayed = term.held.relayed
      /\ held.sent = term.held.sent /\ held.received = all
  BY <1>3, <1>5, <1>6 DEF Held
<1> QED  BY <1>2, <1>4, <1>7, <1>8, SettleKeeps

LEMMA AnswerShipKeeps ==
    ASSUME IInv, NEW d \in term.demand, d.op # "unread", AnswerShip(d),
           UNCHANGED <<half, conns, stream, net, request, ship>>
    PROVE  IInv'
<1>1. d.op = "ship" /\ term.held.session # 0
  BY DEF AnswerShip
<1>2. PICK len \in {0, 1}, finished \in BOOLEAN : Settle(d, term.held, len, finished)
  BY DEF AnswerShip
<1>3. term.held \in Held
  BY TermFields
<1>4. term.held.received = After(term.held, d, 0).received
  BY <1>1 DEF After
<1> QED  BY <1>1, <1>2, <1>3, <1>4, SettleKeeps

LEMMA GarbleKeeps ==
    ASSUME IInv, Garble
    PROVE  IInv'
<1>1. /\ reply' = [reply EXCEPT !.status = "unreadable"]
      /\ UNCHANGED <<half, conns, stream, net, request, term, ship, account>>
  BY DEF Garble
<1>2. reply \in Answer
  BY DEF IInv, Types
<1>3. /\ reply' \in Answer /\ reply'.sequence = reply.sequence /\ reply'.op = reply.op
      /\ reply'.status = "unreadable" /\ reply'.closed = reply.closed /\ reply'.len = reply.len
  BY <1>1, <1>2 DEF Answer
<1>4. Here' = Here
  BY <1>1 DEF Here
<1>5. Turns(Here, request)'
  BY <1>1, <1>3, <1>4 DEF IInv, Turns
<1>6. Books(Here, request)'
  BY <1>1, <1>3, <1>4 DEF IInv, Books, Settlement, Opening, Moving
<1> QED  BY <1>1, <1>3, <1>5, <1>6, <1>4, FarSide DEF IInv, Types, TermType

LEMMA InitKeeps ==
    ASSUME Init
    PROVE  IInv
<1>1. 0 \in 0..MaxConns /\ 0 \in 0..Sequences /\ 0 \in Counts /\ 0 \in 0..MaxShip /\ 0 <= 0
  BY RelayConstants, SMTT(60) DEF Counts
<1>2. /\ half \in {"onboarding", "channel"} /\ conns = 0 /\ stream = NewStream(0)
      /\ net = NewNet /\ term = NewTerm /\ ship = 0
      /\ request = [sequence |-> 0, op |-> "open", len |-> 0, tag |-> 0]
      /\ reply = [sequence |-> 0, op |-> "open", status |-> "ok", closed |-> FALSE,
                  agreed |-> FALSE, len |-> 0]
  BY DEF Init
<1>3. stream \in Conn /\ stream.conn = 0
  BY <1>1, <1>2 DEF NewStream, Conn
<1>4. /\ net \in Net /\ net.carried = 0 /\ net.pending = {} /\ net.far = "closed"
      /\ net.sequence = 0
  BY <1>1, <1>2 DEF NewNet, Net, Failures
<1>5. net = [NewNet EXCEPT !.sequence = net.sequence]
  BY <1>2 DEF NewNet
<1>6. /\ term \in TermType /\ term.held.session = 0 /\ term.served = 0 /\ term.demand = {}
  BY <1>1, <1>2, NoSessionHeld DEF NewTerm, TermType
<1>7. request \in Item /\ request.sequence = 0 /\ request.op = "open" /\ request.tag = 0
  BY <1>1, <1>2 DEF Item, Operations
<1>8. reply \in Answer
  BY <1>1, <1>2 DEF Answer, Operations
<1>9. Here \in Ends
  BY <1>1, <1>2, <1>3, <1>4 DEF Here, Ends
<1>10. Types
  BY <1>1, <1>2, <1>3, <1>6, <1>7, <1>8, <1>9 DEF Types, TermType
<1>11. Window(Here, request)
  BY <1>1, <1>2, <1>4, <1>5, <1>7, HereFields DEF Window
<1>12. Turns(Here, request)
  BY <1>4, <1>6, <1>7, HereFields DEF Turns
<1>13. Books(Here, request)
  BY <1>4, HereFields DEF Books
<1> QED  BY <1>10, <1>11, <1>12, <1>13 DEF IInv

LEMMA NextKeeps ==
    ASSUME IInv, [Next]_vars
    PROVE  IInv'
<1>1. CASE Connect \/ Arrive \/ PeerCloses \/ Drain \/ Gone
  BY <1>1, StreamActions
<1>2. CASE Poll
  <2> DEFINE no == FALSE
  <2>1. no \in BOOLEAN /\ Pass(no)
    BY <1>2 DEF Poll
  <2> HIDE DEF no
  <2> QED  BY <2>1, PassKeeps
<1>3. CASE PollExpired
  <2> DEFINE yes == TRUE
  <2>1. yes \in BOOLEAN /\ Pass(yes)
    BY <1>3 DEF PollExpired
  <2> HIDE DEF yes
  <2> QED  BY <2>1, PassKeeps
<1>4. CASE TakeSequence
  BY <1>4, TakeSequenceKeeps
<1>5. CASE TakeWords
  BY <1>5, TakeWordsKeeps
<1>6. CASE AnswerDemand
  <2>1. PICK d \in term.demand :
          /\ d.op # "unread"
          /\ AnswerOpen(d) \/ AnswerNoSession(d) \/ AnswerClose(d) \/ AnswerTurn(d) \/ AnswerShip(d)
          /\ UNCHANGED <<half, conns, stream, net, request, ship>>
    BY <1>6 DEF AnswerDemand
  <2> QED  BY <2>1, AnswerOpenKeeps, AnswerNoSessionKeeps, AnswerCloseKeeps, AnswerTurnKeeps,
              AnswerShipKeeps
<1>7. CASE Garble
  BY <1>7, GarbleKeeps
<1>8. CASE UNCHANGED vars
  <2>1. Here' = Here /\ UNCHANGED <<half, conns, request, reply, term, account, stream>>
    BY <1>8 DEF vars, Here
  <2> QED  BY <2>1 DEF IInv, Types, Window, Turns, Books, Settlement, Opening, Moving
<1> QED  BY <1>1, <1>2, <1>3, <1>4, <1>5, <1>6, <1>7, <1>8 DEF Next

LEMMA Invariant == Spec => []IInv
<1>1. Init => IInv
  BY InitKeeps
<1>2. IInv /\ [Next]_vars => IInv'
  BY NextKeeps
<1> QED  BY <1>1, <1>2, PTL DEF Spec

-----------------------------------------------------------------------------

LEMMA AtMostOne ==
    ASSUME NEW S, \A a, b \in S : a = b
    PROVE  Cardinality(S) <= 1
<1>1. CASE S = {}
  <2>1. Cardinality(S) = 0
    BY <1>1, FS_EmptySet
  <2> QED  BY <2>1, SMTT(60)
<1>2. CASE S # {}
  <2>1. PICK a \in S : S = {a}
    BY <1>2
  <2>2. Cardinality(S) = 1
    BY <2>1, FS_Singleton
  <2> QED  BY <2>2, SMTT(60)
<1> QED  BY <1>1, <1>2

(* Every counter of both ends saturates and every region holds one item:   *)
(* whatever is lost, late or garbled, neither end leaves its types          *)
(* (RelayReport, Held, and the one-item window of RelayRequester).          *)
THEOREM TypeTheorem == Spec => []TypeOK
<1>1. IInv => TypeOK
  <2> SUFFICES ASSUME IInv PROVE TypeOK
    OBVIOUS
  <2>1. net \in Net /\ stream \in Conn /\ ship \in 0..MaxShip
    BY HereFields, EndsFields DEF IInv, Types
  <2>2. /\ conns \in 0..MaxConns /\ stream.conn \in {0, conns}
        /\ request.op \in Operations /\ reply.op \in Operations
    BY DEF IInv, Types, Item, Answer
  <2>3. {stream.in, stream.out} \subseteq {0, 1}
    BY <2>1 DEF Conn
  <2>4. /\ net.carried \in 0..MaxConns /\ net.far \in {"open", "closed"}
        /\ net.failure \in {"none", "unanswered", "faulted", "refused", "too_long"}
        /\ {net.relayed, net.received, net.sent} \subseteq Counts /\ net.sequence \in 0..Sequences
    BY <2>1 DEF Net, Failures
  <2>5. /\ term.held.session \in 0..MaxConns /\ term.held.session <= conns
        /\ {term.held.relayed, term.held.received, term.held.sent} \subseteq Counts
    BY TermFields DEF Held
  <2>6. net.carried <= conns
    BY HereFields DEF IInv, Window
  <2>7. net.carried \in 0..conns /\ term.held.session \in 0..conns
    BY <2>2, <2>4, <2>5, <2>6, SMTT(60)
  <2>8. Cardinality(net.pending) <= 1
    BY HereFields, AtMostOne DEF IInv, Window
  <2>9. Cardinality(term.demand) <= 1
    BY AtMostOne DEF IInv, Types
  <2> QED  BY <2>1, <2>2, <2>3, <2>4, <2>5, <2>7, <2>8, <2>9 DEF TypeOK
<1> QED  BY <1>1, Invariant, PTL

(* What a peer sent reaches the session opened for its own connection and  *)
(* no other, for any number of connections, abandoned items and late or     *)
(* torn reads (Terminating::answer and RelayResponder::take).               *)
THEOREM DeliveredTheorem == Spec => []DeliveredToOwnSession
<1>1. IInv => DeliveredToOwnSession
  BY DEF IInv, Turns, DeliveredToOwnSession
<1> QED  BY <1>1, Invariant, PTL

(* Claiming what has not been answered yet changes nothing.                 *)
LEMMA OutstandingStays ==
    ASSUME IInv, NEW p \in net.pending, reply.sequence # p.sequence
    PROVE  Claim(Here, FALSE).n.pending # {}
<1>1. net.pending = {p}
  BY HereFields DEF IInv, Window
<1>2. (CHOOSE q \in net.pending : TRUE) = p
  BY <1>1
<1>3. Polled(p) = "outstanding"
  BY DEF Polled
<1>4. Claim(Here, FALSE) = Here
  BY <1>1, <1>2, <1>3, HereFields DEF Claim
<1> QED  BY <1>1, <1>4, HereFields

(* Only Relay::finish ends a session, and it finds the far end closed.      *)
LEMMA SessionEnds ==
    ASSUME IInv, [Next]_vars
    PROVE  LET n == Claim(Here, FALSE).n
           IN  /\ net.carried # 0 /\ net'.carried = 0
               /\ n.pending = {} /\ n.failure \in {"none", "refused", "too_long"}
               => Account(n.carried, n) = account
<1> DEFINE no == FALSE
<1>1. PICK x : x = Claim(Here, no)
  OBVIOUS
<1>2. SUFFICES ASSUME net.carried # 0, net'.carried = 0, x.n.pending = {},
                      x.n.failure \in {"none", "refused", "too_long"}
               PROVE  Account(x.n.carried, x.n) = account
  BY <1>1
<1>3. CASE Poll
  <2>1. PICK done : /\ done = Issue(x)
                    /\ done.request # request =>
                         done.request.sequence \notin {term.served, reply.sequence}
                    /\ net' = done.x.n
    BY <1>1, <1>3 DEF Poll, Pass
  <2>2. no \in BOOLEAN
    OBVIOUS
  <2> HIDE DEF no
  <2>3. /\ x \in Ends /\ x.s.conn = stream.conn /\ x.n.carried = net.carried
        /\ Window(x, request) /\ Turns(x, request) /\ Books(x, request)
    BY <1>1, <2>2, ClaimKeeps
  <2>4. request \in Item /\ conns \in Nat /\ x.s.conn \in {0, conns}
    <3>1. conns \in 0..MaxConns
      BY DEF IInv, Types
    <3>2. conns \in Nat
      BY <3>1, SMTT(60)
    <3> QED  BY <2>3, <3>2 DEF IInv, Types
  <2>5. x.n.carried = 0 \/ done.x.n.carried = x.n.carried \/ x.n.far = "closed"
    BY <2>1, <2>3, <2>4, IssueKeeps
  <2>6. x.n.far = "closed"
    BY <1>2, <2>1, <2>3, <2>5
  <2> QED  BY <1>2, <2>3, <2>6 DEF Books, Settlement
<1>4. CASE PollExpired
  <2>1. PICK p \in net.pending : reply.sequence # p.sequence
    BY <1>4 DEF PollExpired
  <2> QED  BY <1>1, <1>2, <2>1, OutstandingStays
<1>5. CASE net' = net
  BY <1>2, <1>5
<1> QED
  BY <1>3, <1>4, <1>5
  DEF Next, vars, Connect, Arrive, PeerCloses, Drain, Gone, TakeSequence, TakeWords,
      AnswerDemand, Garble

(* The two domains' accounts of one session are the same numbers, where no  *)
(* item of it went unanswered or came back unreadable, for every session    *)
(* however long and wherever the counters saturate (Relay::finish and        *)
(* Terminating::publish).                                                   *)
THEOREM AccountsTheorem == Spec => AccountsAgree
<1>1. IInv /\ [Next]_vars =>
        [LET n == Claim(Here, FALSE).n
         IN  /\ net.carried # 0 /\ net'.carried = 0
             /\ n.pending = {} /\ n.failure \in {"none", "refused", "too_long"}
             => Account(n.carried, n) = account]_vars
  BY SessionEnds
<1> QED  BY <1>1, Invariant, PTL DEF Spec, AccountsAgree
=============================================================================
