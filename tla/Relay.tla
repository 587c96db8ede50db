-------------------------------- MODULE Relay --------------------------------
(***************************************************************************)
(* The relay between the management domain, which holds connections, and    *)
(* the crypto domain, which terminates what crosses them.  One item is in    *)
(* flight at a time over a request and a reply region of shared memory       *)
(* (crates/wire/src/relay.rs).  The network end, `Relay`, carries one session *)
(* per connection and gives up on an item ANSWER_TIMEOUT after it was asked; *)
(* the terminating end, `Terminating`, answers each item once                *)
(* (crates/pd-runtime/src/relay.rs).  The stream is the connection under a   *)
(* session: the accepted one of the onboarding port                          *)
(* (crates/ip-endpoint/src/onboard.rs) or the one the appliance dials.       *)
(*                                                                           *)
(* Every item and demand carries in `tag` the connection it is for.   *)
(* The code has no such word: it is what the properties are stated over, and *)
(* no guard reads it.                                                        *)
(***************************************************************************)
EXTENDS Integers, FiniteSets, FiniteSetsExt

CONSTANTS
    MaxConns,      \* bound: connections taken or dialled
    Sequences,     \* how many sequence numbers there are (2^32 - 1)
    MaxArrivals,   \* bound: segments the peers send
    MaxSaid,       \* bound: answers the protocol has bytes for on its own account
    MaxShip,       \* bound: shipments the reader has to ship
    MaxGarbled,    \* bound: replies this end cannot read
    MaxCount       \* where the accounts' counters saturate (u64::MAX)

ASSUME RelayConstants ==
    /\ {MaxConns, MaxArrivals, MaxSaid, MaxShip, MaxGarbled} \subseteq Nat
    /\ Sequences \in Nat \ {0, 1, 2, 3} /\ MaxCount \in Nat \ {0}

VARIABLES
    half,      \* which half the stream is: "onboarding" or "channel"
    conns,     \* connections taken so far; the newest is the last number
    stream,    \* the connection under the session
    net,       \* the network end
    request,   \* the request region
    reply,     \* the reply region
    term,      \* the terminating end
    ship,      \* shipments the reader has been told are shipped
    account,   \* the last account the terminating end made of a session
    budget     \* what the environment may still do

vars == <<half, conns, stream, net, request, reply, term, ship,
          account, budget>>

Conns == 1..MaxConns
Operations == {"open", "deliver", "ship", "poll", "close"}

(* saturating_add *)
Plus(n, k) == Min({n + k, MaxCount})

-----------------------------------------------------------------------------
(* The stream *)

NewStream(c) == [conn |-> c, in |-> 0, out |-> 0, peer |-> FALSE, consumer |-> FALSE]

(* Stream::push: as much as there is room for; the room is one answer.        *)
Push(s, offered) == [s EXCEPT !.out = Min({@ + offered, 1})]
Kept(s, offered) == Min({offered, 1 - s.out})

(* Stream::end_session: a close names the session it belongs to               *)
EndSession(s, c) == IF s.conn = c THEN [s EXCEPT !.consumer = TRUE] ELSE s

(* Relayed::room_for_an_answer *)
RoomForAnAnswer(s) == s.out = 0

(* Stream::accepted, which forgets the session before it; OutboundChannel      *)
(* dials no second connection while the relay carries the last.               *)
Connect ==
    /\ conns < MaxConns
    /\ half = "channel" => stream.conn = 0 /\ net.carried = 0
    /\ conns' = conns + 1
    /\ stream' = NewStream(conns + 1)
    /\ UNCHANGED <<half, net, request, reply, term, ship, account, budget>>

(* Stream::take *)
Arrive ==
    /\ stream.conn # 0 /\ ~stream.peer /\ stream.in = 0
    /\ budget.arrivals > 0
    /\ stream' = [stream EXCEPT !.in = 1]
    /\ budget' = [budget EXCEPT !.arrivals = @ - 1]
    /\ UNCHANGED <<half, conns, net, request, reply, term, ship, account>>

(* Stream::note_peer_closed *)
PeerCloses ==
    /\ stream.conn # 0 /\ ~stream.peer
    /\ stream' = [stream EXCEPT !.peer = TRUE]
    /\ UNCHANGED <<half, conns, net, request, reply, term, ship, account, budget>>

(* Stream::drive: what is owed goes out                                       *)
Drain ==
    /\ stream.out > 0
    /\ stream' = [stream EXCEPT !.out = 0]
    /\ UNCHANGED <<half, conns, net, request, reply, term, ship, account, budget>>

(* Stream::reconcile: the transport no longer holds the connection, because   *)
(* both ends closed it or because it was reset, evicted or reaped.            *)
Gone ==
    /\ stream.conn # 0
    /\ stream' = NewStream(0)
    /\ UNCHANGED <<half, conns, net, request, reply, term, ship, account, budget>>

-----------------------------------------------------------------------------
(* The network end *)

(* RelayReport and Held::finished: the numbers an end states of a session     *)
Account(c, a) ==
    [conn |-> c, relayed |-> a.relayed, received |-> a.received, sent |-> a.sent]

NoAccount == [conn |-> 0, relayed |-> 0, received |-> 0, sent |-> 0]

NewNet == [ carried |-> 0, far |-> "closed", failure |-> "none", agreed |-> FALSE,
            polled |-> FALSE, closing |-> FALSE, relayed |-> 0, received |-> 0,
            sent |-> 0, pending |-> {}, sequence |-> 0 ]

(* What one pass works on: this end, the stream, and what is told upstream    *)
Here == [n |-> net, s |-> stream, ship |-> ship]

(* Relay::fail: the first failure is kept, and the connection is taken down.  *)
Fail(x, failure) ==
    [x EXCEPT !.n.failure = IF @ = "none" THEN failure ELSE @,
              !.s = EndSession(@, x.n.carried)]

(* Mutant: an item that is never answered is waited for *)
KeepWaiting(x) == x

(* RelayRequester::abandon frees the window and leaves the sequence            *)
Abandon(x) == [x EXCEPT !.n.pending = {}]

(* Relay::claim, ANSWER_TIMEOUT gone by                                        *)
Unanswered(x) == Fail([Abandon(x) EXCEPT !.n.far = "closed"], "unanswered")

(* Relay::claim of a reply that cannot be read: one close, and no second.     *)
Faulted(x) ==
    LET f == Fail(x, "faulted")
    IN  IF f.n.far = "open" /\ ~f.n.closing
        THEN [f EXCEPT !.n.closing = TRUE]
        ELSE [f EXCEPT !.n.far = "closed"]

Refused(x) == Fail([x EXCEPT !.n.far = "closed"], "refused")

(* The two ends' arms of Relay::claim for what was asked                      *)
FarAfter(far, op, closed) ==
    CASE closed \/ op = "close" -> "closed"
      [] ~closed /\ op = "open" -> "open"
      [] OTHER -> far

(* Relay::claim of an answer: the records go onto the stream, the account      *)
(* moves, the agreement is taken as an edge, a shipment is shipped, and a      *)
(* session the far end closed is ended here.                                  *)
Answered(x, op, r) ==
    LET kept    == Kept(x.s, r.len)
        counted == [x EXCEPT !.s = Push(@, r.len),
                             !.n.relayed = Plus(@, 1),
                             !.n.sent = Plus(@, kept),
                             !.n.polled = @ /\ r.len = 0,
                             !.n.agreed = @ \/ r.agreed]
        told    == [counted EXCEPT !.n.far = FarAfter(@, op, r.closed),
                                   !.ship = IF op = "ship" THEN @ + 1 ELSE @]
    IN  IF kept < r.len
        THEN Fail([counted EXCEPT !.n.far = "closed"], "too_long")
        ELSE IF r.closed THEN [told EXCEPT !.s = EndSession(@, told.n.carried)]
                         ELSE told

(* RelayRequester::poll: a reply under another sequence is no answer, a refusal *)
(* is read before the operation it echoes, and an echo of another operation is  *)
(* a fault.                                                                    *)
Polled(p) ==
    CASE reply.sequence # p.sequence -> "outstanding"
      [] reply.sequence = p.sequence /\ reply.status = "refused" -> "refused"
      [] reply.sequence = p.sequence /\ reply.status = "ok" /\ reply.op = p.op -> "answered"
      [] OTHER -> "faulted"

(* Relay::claim: look once for the answer to what is out                       *)
Claim(x, expired) ==
    IF x.n.pending = {} THEN x
    ELSE LET p    == CHOOSE q \in x.n.pending : TRUE
             free == [x EXCEPT !.n.pending = {}]
         IN  CASE Polled(p) = "outstanding" -> IF expired THEN Unanswered(x) ELSE x
               [] Polled(p) = "answered"    -> Answered(free, p.op, reply)
               [] Polled(p) = "refused"     -> Refused(free)
               [] Polled(p) = "faulted"     -> Faulted(free)

(* RelayRequester::issue steps over zero.  A number is not used again while    *)
(* anything still holds it: it would take 2^32 items without an answer.        *)
NextSequence(n) == (n % Sequences) + 1

Ask(x, op, len) ==
    LET q == NextSequence(x.n.sequence)
    IN  [ x |-> [x EXCEPT !.n.pending = {[sequence |-> q, op |-> op]}, !.n.sequence = q],
          request |-> [sequence |-> q, op |-> op, len |-> len, tag |-> x.n.carried] ]

Nothing(x) == [x |-> x, request |-> request]

(* Relay::finish: the account is made and everything about the session reset  *)
Finish(x) == Nothing([x EXCEPT !.n = [NewNet EXCEPT !.sequence = x.n.sequence]])

(* Mutant: a poll that is not remembered *)
PollAgain(x) == Ask(x, "poll", 0)

(* The last arm of Relay::issue: one poll, until an answer brings bytes        *)
PollOnce(x) == Ask([x EXCEPT !.n.polled = TRUE], "poll", 0)

(* The middle arms of Relay::issue, for a session that is running: a delivery  *)
(* first, then the peer's close, then a shipment, then a poll.                 *)
Running(x) ==
    LET room == RoomForAnAnswer(x.s)
    IN  CASE room /\ x.s.in > 0 ->
               Ask([x EXCEPT !.s.in = 0, !.n.received = Plus(@, x.s.in), !.n.polled = FALSE],
                   "deliver", x.s.in)
          [] ~(room /\ x.s.in > 0) /\ x.s.peer -> Ask(x, "close", 0)
          [] x.s.in = 0 /\ ~x.s.peer /\ room /\ half = "channel" /\ x.n.agreed /\ x.ship < MaxShip ->
               Ask([x EXCEPT !.n.polled = FALSE], "ship", 1)
          [] x.s.in = 0 /\ ~x.s.peer /\ room
             /\ ~(half = "channel" /\ x.n.agreed /\ x.ship < MaxShip) /\ ~x.n.polled ->
               PollOnce(x)
          [] OTHER -> Nothing(x)

(* Relay::issue: what the session needs now, at most one item                  *)
Issue(x) ==
    CASE x.n.pending # {} -> Nothing(x)
      [] x.n.pending = {} /\ x.n.carried = 0 ->
           IF x.s.conn = 0 THEN Nothing(x)
           ELSE Ask([x EXCEPT !.n.carried = x.s.conn], "open", 0)
      [] x.n.pending = {} /\ x.n.carried # 0 /\ x.s.conn # x.n.carried ->
           IF x.n.far = "open" THEN Ask(x, "close", 0) ELSE Finish(x)
      [] x.n.pending = {} /\ x.n.carried # 0 /\ x.s.conn = x.n.carried
         /\ (x.n.failure # "none" \/ x.n.far = "closed") ->
           IF x.n.far = "open" THEN Ask(x, "close", 0) ELSE Nothing(x)
      [] OTHER -> Running(x)

(* Relay::poll: claim, then issue                                             *)
Pass(expired) ==
    \E claimed \in {Claim(Here, expired)} : \E done \in {Issue(claimed)} :
      /\ done.x # Here
      /\ done.request # request =>
           done.request.sequence \notin {term.served, reply.sequence}
      /\ net' = done.x.n /\ stream' = done.x.s /\ ship' = done.x.ship
      /\ request' = done.request
      /\ UNCHANGED <<half, conns, reply, term, account, budget>>

Poll == Pass(FALSE)

PollExpired ==
    /\ \E p \in net.pending : reply.sequence # p.sequence
    /\ Pass(TRUE)

-----------------------------------------------------------------------------
(* The terminating end.  `session` is the connection the session was opened   *)
(* for, 0 where none is held.                                                 *)

NoSession == [session |-> 0, relayed |-> 0, received |-> 0, sent |-> 0, agreed |-> FALSE]

NewTerm == [held |-> NoSession, served |-> 0, demand |-> {}]

(* RelayResponder::take reads the sequence, and then the words                *)
TakeSequence ==
    /\ term.demand = {}
    /\ request.sequence # 0 /\ request.sequence # term.served
    /\ term' = [term EXCEPT !.served = request.sequence,
                            !.demand = {[sequence |-> request.sequence, op |-> "unread",
                                         len |-> 0, tag |-> 0]}]
    /\ UNCHANGED <<half, conns, stream, net, request, reply, ship, account, budget>>

TakeWords ==
    \E d \in term.demand :
      /\ d.op = "unread"
      /\ term' = [term EXCEPT !.demand = {[request EXCEPT !.sequence = d.sequence]}]
      /\ UNCHANGED <<half, conns, stream, net, request, reply, ship, account, budget>>

Reply(d, status, closed, agreed, len) ==
    [sequence |-> d.sequence, op |-> d.op, status |-> status, closed |-> closed,
     agreed |-> agreed, len |-> len]

(* The account of a session that is over, where there was one                 *)
Reported(held) == IF held.session = 0 THEN account ELSE Account(held.session, held)

(* Terminating::publish counts the item against the session it belongs to     *)
Counted(held, len) == [held EXCEPT !.relayed = Plus(@, 1), !.sent = Plus(@, len)]

(* Mutant: an open is believed only where no session is held *)
KeepHeld(d) ==
    /\ d.op = "open"
    /\ term' = [term EXCEPT !.demand = {},
                            !.held = IF @.session # 0 THEN @
                                     ELSE Counted([NoSession EXCEPT !.session = d.tag], 0)]
    /\ reply' = Reply(d, "ok", FALSE, FALSE, 0)
    /\ UNCHANGED <<account, budget>>

(* Terminating::answer of an open: whatever was held is superseded            *)
AnswerOpen(d) ==
    /\ d.op = "open"
    /\ term' = [term EXCEPT !.demand = {},
                            !.held = Counted([NoSession EXCEPT !.session = d.tag], 0)]
    /\ reply' = Reply(d, "ok", FALSE, FALSE, 0)
    /\ account' = Reported(term.held)
    /\ UNCHANGED budget

(* Terminating::refuse: an item on no session                                 *)
AnswerNoSession(d) ==
    /\ d.op # "open" /\ term.held.session = 0
    /\ term' = [term EXCEPT !.demand = {}]
    /\ reply' = Reply(d, "refused", TRUE, FALSE, 0)
    /\ UNCHANGED <<account, budget>>

(* Mutant: the close is not in its own account *)
CloseUncounted(d) ==
    /\ d.op = "close" /\ term.held.session # 0
    /\ term' = [term EXCEPT !.demand = {}, !.held = NoSession]
    /\ reply' = Reply(d, "ok", TRUE, term.held.agreed, 0)
    /\ account' = Reported(term.held)
    /\ UNCHANGED budget

(* Terminating::answer of a close: counted before the session is taken        *)
AnswerClose(d) ==
    /\ d.op = "close" /\ term.held.session # 0
    /\ term' = [term EXCEPT !.demand = {}, !.held = NoSession]
    /\ reply' = Reply(d, "ok", TRUE, term.held.agreed, 0)
    /\ account' = Reported(Counted(term.held, 0))
    /\ UNCHANGED budget

(* Terminating::settle: the protocol's answer goes out, and one that says it   *)
(* is finished ends the session here.                                          *)
Settle(d, held, len, finished) ==
    /\ term' = [term EXCEPT !.demand = {},
                            !.held = IF finished THEN NoSession ELSE Counted(held, len)]
    /\ reply' = Reply(d, "ok", finished, held.agreed, len)
    /\ account' = IF finished THEN Reported(Counted(held, len)) ELSE account

(* Terminating::deliver and Terminating::turn.  What the protocol makes of it   *)
(* is its own: bytes to send or none, a greeting agreed, a session finished.    *)
AnswerTurn(d) ==
    /\ d.op \in {"deliver", "poll"} /\ term.held.session # 0
    /\ \E len \in {0, 1}, finished \in BOOLEAN, agrees \in BOOLEAN :
         /\ len <= budget.said
         /\ agrees => d.op = "deliver"
         /\ LET held == [term.held EXCEPT !.received = Plus(@, d.len),
                                          !.agreed = @ \/ agrees]
            IN  Settle(d, held, len, finished)
         /\ budget' = [budget EXCEPT !.said = @ - len]

(* Terminating::ship: the frame the shipment becomes is the answer, and one    *)
(* that cannot be composed whole ends the session.                            *)
AnswerShip(d) ==
    /\ d.op = "ship" /\ term.held.session # 0
    /\ \E len \in {0, 1}, finished \in BOOLEAN :
         /\ len = 1 \/ finished
         /\ Settle(d, term.held, len, finished)
    /\ UNCHANGED budget

AnswerDemand ==
    \E d \in term.demand :
      /\ d.op # "unread"
      /\ AnswerOpen(d) \/ AnswerNoSession(d) \/ AnswerClose(d) \/ AnswerTurn(d) \/ AnswerShip(d)
      /\ UNCHANGED <<half, conns, stream, net, request, ship>>

(* A reply the network end cannot read: RelayFault                            *)
Garble ==
    /\ budget.garbled > 0
    /\ \E p \in net.pending : reply.sequence = p.sequence
    /\ reply.status = "ok"
    /\ reply' = [reply EXCEPT !.status = "unreadable"]
    /\ budget' = [budget EXCEPT !.garbled = @ - 1]
    /\ UNCHANGED <<half, conns, stream, net, request, term, ship, account>>

-----------------------------------------------------------------------------
Init ==
    /\ half \in {"onboarding", "channel"}
    /\ conns = 0 /\ stream = NewStream(0) /\ net = NewNet /\ term = NewTerm
    /\ request = [sequence |-> 0, op |-> "open", len |-> 0, tag |-> 0]
    /\ reply = [sequence |-> 0, op |-> "open", status |-> "ok", closed |-> FALSE,
                agreed |-> FALSE, len |-> 0]
    /\ ship = 0
    /\ account = NoAccount
    /\ budget = [arrivals |-> MaxArrivals, said |-> MaxSaid, garbled |-> MaxGarbled]

Next ==
    \/ Connect \/ Arrive \/ PeerCloses \/ Drain \/ Gone
    \/ Poll \/ PollExpired
    \/ TakeSequence \/ TakeWords \/ AnswerDemand
    \/ Garble

(* The management domain runs a pass on every wakeup and the clock wakes it,   *)
(* so an item's deadline passes; nothing is assumed of the terminating end.   *)
Fairness == WF_vars(Poll) /\ WF_vars(PollExpired)

Spec == Init /\ [][Next]_vars /\ Fairness

-----------------------------------------------------------------------------
(* Properties *)

Counts == 0..MaxCount

(* Types, and the counters' saturation (RelayReport, Held).                   *)
TypeOK ==
    /\ conns \in 0..MaxConns
    /\ stream.conn \in {0, conns} /\ {stream.in, stream.out} \subseteq {0, 1}
    /\ net.carried \in 0..conns /\ net.far \in {"open", "closed"}
    /\ net.failure \in {"none", "unanswered", "faulted", "refused", "too_long"}
    /\ {net.relayed, net.received, net.sent} \subseteq Counts
    /\ Cardinality(net.pending) <= 1 /\ net.sequence \in 0..Sequences
    /\ request.op \in Operations /\ reply.op \in Operations
    /\ term.held.session \in 0..conns /\ Cardinality(term.demand) <= 1
    /\ {term.held.relayed, term.held.received, term.held.sent} \subseteq Counts
    /\ ship \in 0..MaxShip

(* What a peer sent reaches the session opened for its own connection and no   *)
(* other, whichever items were given up on, taken late or read while the next   *)
(* was being written (Terminating::answer supersedes on an open; a torn read    *)
(* of an abandoned item can only see that open).                               *)
DeliveredToOwnSession ==
    \A d \in term.demand :
      d.op \in {"deliver", "ship"} /\ term.held.session # 0 => d.tag = term.held.session

(* The two domains' accounts of one session are the same numbers, where no      *)
(* item of it went unanswered or came back unreadable (Relay::finish and         *)
(* Terminating::publish: "what makes the two domains' accounts one number").    *)
AccountsAgree ==
    [][LET n == Claim(Here, FALSE).n
       IN  /\ net.carried # 0 /\ net'.carried = 0
           /\ n.pending = {} /\ n.failure \in {"none", "refused", "too_long"}
           => Account(n.carried, n) = account]_vars

(* A session whose connection is gone is reported, whatever the far end does    *)
(* or fails to do (Relay::carrying: "bounded by ANSWER_TIMEOUT whatever the    *)
(* far end does").                                                             *)
GoneIsReported ==
    (net.carried # 0 /\ stream.conn # net.carried) ~> (net.carried = 0)

(* The relay comes to rest: a session with nothing to carry is polled once and  *)
(* not over and over (the `polled` flag).                                      *)
ComesToRest == <>[](net.pending = {})
====
