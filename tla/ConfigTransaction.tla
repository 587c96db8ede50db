-------------------------- MODULE ConfigTransaction --------------------------
(***************************************************************************)
(* A configuration transaction end to end: the management server's rows    *)
(* and channel handlers (ctrld/lib/ctrld/appliances.ex, channel/handler.ex,*)
(* channel/sessions.ex) against the appliance of module ChannelConfig.     *)
(* Each step of the appliance here is one of that module's, taken with     *)
(* what it does to the connection.                                         *)
(*                                                                         *)
(* A connection has a queue each way.  The appliance holds at most one;    *)
(* the server's handler of an older one may linger until it notices, and   *)
(* while it does it keeps the registration.  What was in flight when a     *)
(* connection ends may be lost from any point on.  A handler's mailbox     *)
(* holds the stagings operators asked of it beside the bytes that arrive,  *)
(* and takes them in either order.                                         *)
(***************************************************************************)
EXTENDS ChannelConfig, FiniteSets

CONSTANTS CONFIRM,   \* @confirm_deadline_secs
          Conn,      \* connections that exist at once
          MaxRows    \* bound: versions operators stage

ASSUME TransactionAssumption == CONFIRM \in Asked /\ Valid \subseteq Doc

VARIABLES
  live,        \* the connection the appliance holds: {} or {connection}
  up, down,    \* the frames in flight on each connection
  handler,     \* the server's process of each connection
  registered,  \* Sessions, for this appliance: {} or {connection}
  checked,     \* documents of requests past nothing_in_flight, not inserted
  rows,        \* configuration_versions, in the order of their generation,
               \* and whether the request behind each has sent it
  commits,     \* history: the commits the appliance answered for
  keptAs       \* history: the confirmations it answered for

appliance == <<generation, model, candidate, displaced, durable, recorded,
               offered, answer, confirmed, medium, awaiting, staged, session,
               turn, ending, line, reboots, kept>>
wire == <<live, up, down>>
server == <<handler, registered, checked, rows>>
history == <<commits, keptAs>>
transactionVars == <<appliance, wire, server, history>>

\* A handler's state before a connection has one, and as new_state() opens it.
None == [is |-> "none", staging |-> {}, pending |-> {}, mail |-> <<>>]
NewState == [None EXCEPT !.is = "open"]

TransactionInit ==
  /\ Init
  /\ live = {} /\ up = [c \in Conn |-> <<>>] /\ down = [c \in Conn |-> <<>>]
  /\ handler = [c \in Conn |-> None]
  /\ registered = {} /\ checked = {} /\ rows = <<>>
  /\ commits = <<>> /\ keptAs = <<>>

-----------------------------------------------------------------------------
(* The appliance and its connection *)

\* The appliance's end of its connection is gone.  What it had sent arrives up
\* to some point; what was coming to it does not arrive.
Dropped(sent) ==
  /\ \A c \in live :
       /\ \E k \in 0 .. Len(sent[c]) :
            up' = [sent EXCEPT ![c] = IF handler[c].is = "open"
                                      THEN SubSeq(@, 1, k) ELSE <<>>]
       /\ handler' = [handler EXCEPT ![c].is = IF @ = "open" THEN @ ELSE "none"]
       /\ down' = [down EXCEPT ![c] = <<>>]
  /\ live = {} => up' = sent /\ UNCHANGED <<down, handler>>
  /\ live' = {}

\* What a step of the appliance pushed goes up its connection, if the server
\* still holds the other end.
Pushed == [c \in Conn |-> IF c \in live /\ handler[c].is # "none"
                          THEN up[c] \o line' ELSE up[c]]
Carry == up' = Pushed /\ UNCHANGED <<live, down, handler>>

Said(kind) == line' # <<>> /\ line'[1].is = kind

\* The appliance dials, and greets.
Dial(c) ==
  /\ Opened
  /\ live = {} /\ handler[c].is = "none" /\ up[c] = <<>>
  /\ live' = {c}
  /\ handler' = [handler EXCEPT ![c].is = "dialled"]
  /\ up' = [up EXCEPT ![c] = <<[is |-> "hello", generation |-> 0]>>]
  /\ UNCHANGED <<down, registered, checked, rows, history>>

\* The appliance reads the next frame of its connection.
ReadFrame(c) ==
  /\ c \in live /\ down[c] # <<>>
  /\ LET frame == Head(down[c]) IN
       \/ frame.is = "stage" /\ Stage(frame.doc)
       \/ /\ frame.is = "commit"
          /\ \/ CommitNothing(frame.generation, CONFIRM)
             \/ CommitProvisional(frame.generation, CONFIRM)
       \/ /\ frame.is = "confirm"
          /\ ConfirmBarred(frame.generation) \/ Confirm(frame.generation)
  /\ down' = [down EXCEPT ![c] = Tail(@)]
  /\ up' = Pushed
  /\ commits' = IF Said("unchanged")
                THEN Append(commits, [version |-> Head(down[c]).generation,
                                      doc |-> model])
                ELSE commits
  /\ keptAs' = IF Said("confirmed")
               THEN Append(keptAs, [version |-> generation, doc |-> model])
               ELSE keptAs
  /\ UNCHANGED <<live, server>>

\* The rest of a turn that committed.
Continue ==
  /\ Persist \/ NotPersisted \/ Undo
  /\ Carry
  /\ commits' = IF Said("applied")
                THEN Append(commits, [version |-> generation, doc |-> model])
                ELSE commits
  /\ UNCHANGED <<registered, checked, rows, keptAs>>

\* The end of a turn; the session it ends goes with its connection.
EndTurn ==
  /\ Judge
  /\ IF session' THEN Carry ELSE Dropped(up)
  /\ UNCHANGED <<registered, checked, rows, history>>

\* The connection is lost.
Break ==
  /\ Closed
  /\ Dropped(up)
  /\ UNCHANGED <<registered, checked, rows, history>>

Restart ==
  /\ Reboot
  /\ Dropped(up)
  /\ UNCHANGED <<registered, checked, rows, history>>

\* A second passes, at both ends.
Owed(r) == r.committed /\ ~r.confirmed
Aged == [i \in DOMAIN rows |->
           IF Owed(rows[i]) /\ rows[i].age <= CONFIRM
           THEN [rows[i] EXCEPT !.age = @ + 1] ELSE rows[i]]
Second ==
  /\ \/ Tick
     \/ /\ turn = "idle" /\ \A a \in awaiting : a.left = 0
        /\ UNCHANGED appliance
  /\ rows' = Aged
  /\ UNCHANGED <<wire, handler, registered, checked, history>>

-----------------------------------------------------------------------------
(* Operators *)

\* nothing_in_flight's query
InFlight == \E i \in DOMAIN rows :
  /\ ~rows[i].confirmed
  /\ rows[i].validated = "no" \/ rows[i].committed

\* stage_configuration in its three steps, the check, the insert and the send:
\* another request or a session's write may come between any two of them.
Check(d) ==
  /\ Len(rows) + Cardinality(checked) < MaxRows
  /\ d \notin checked
  /\ ~InFlight
  /\ checked' = checked \cup {d}
  /\ UNCHANGED <<appliance, wire, handler, registered, rows, history>>

Insert(d) ==
  /\ d \in checked
  /\ checked' = checked \ {d}
  /\ rows' = Append(rows, [doc |-> d, validated |-> "no", stated |-> 0,
                           committed |-> FALSE, confirmed |-> FALSE, age |-> 0,
                           sent |-> FALSE])
  /\ UNCHANGED <<appliance, wire, handler, registered, history>>

\* Sessions.stage: sent to the registered session, or to nobody.
Mailed(i) ==
  [c \in Conn |-> IF c \in registered
                  THEN [handler[c] EXCEPT !.mail = Append(@, i)]
                  ELSE handler[c]]

AskSession(i) ==
  /\ i \in DOMAIN rows /\ ~rows[i].sent
  /\ rows' = [rows EXCEPT ![i].sent = TRUE]
  /\ handler' = Mailed(i)
  /\ UNCHANGED <<appliance, wire, registered, checked, history>>

-----------------------------------------------------------------------------
(* A session's handler *)

\* Sessions.register
Registered(c) == IF registered = {} THEN {c} ELSE registered

\* open: a second session for one appliance carries on unregistered.
Accept(c) ==
  /\ handler[c].is = "dialled"
  /\ handler' = [handler EXCEPT ![c] = NewState]
  /\ registered' = Registered(c)
  /\ UNCHANGED <<appliance, wire, checked, rows, history>>

\* send_frame; a frame sent to an appliance that is gone is lost.
Send(c, frame) ==
  down' = IF c \in live THEN [down EXCEPT ![c] = Append(@, frame)] ELSE down

\* stage: dropped while this session awaits a verdict.
TakeMail(c) ==
  /\ handler[c].is = "open" /\ handler[c].mail # <<>>
  /\ LET i == Head(handler[c].mail) IN
       \/ /\ handler[c].staging # {}
          /\ handler' = [handler EXCEPT ![c].mail = Tail(@)]
          /\ down' = down
       \/ /\ handler[c].staging = {}
          /\ handler' = [handler EXCEPT ![c].mail = Tail(@), ![c].staging = {i}]
          /\ Send(c, [is |-> "stage", doc |-> rows[i].doc])
  /\ UNCHANGED <<appliance, live, up, registered, checked, rows, history>>

\* awaiting_confirmation: the newest committed version not confirmed.
AwaitingConfirmation ==
  {i \in DOMAIN rows :
     Owed(rows[i]) /\ \A j \in i + 1 .. Len(rows) : ~Owed(rows[j])}

\* greeted and confirm
Greeted(c) ==
  \/ /\ \A i \in AwaitingConfirmation : rows[i].age > CONFIRM
     /\ UNCHANGED <<down, handler>>
  \/ \E i \in AwaitingConfirmation :
       /\ rows[i].age <= CONFIRM
       /\ Send(c, [is |-> "confirm", generation |-> rows[i].stated])
       /\ handler' = [handler EXCEPT ![c].pending = {<<"confirm", i>>}]

\* validated, and the commit an acceptance earns
Validated(c, i, l) ==
  /\ rows' = [rows EXCEPT
               ![i].validated = IF l.is = "staged" THEN "accepted" ELSE "refused",
               ![i].stated = l.generation]
  /\ IF l.is = "staged"
     THEN /\ Send(c, [is |-> "commit", generation |-> l.generation])
          /\ handler' = [handler EXCEPT ![c].staging = {},
                                        ![c].pending = {<<"commit", i>>}]
     ELSE /\ handler' = [handler EXCEPT ![c].staging = {}]
          /\ down' = down

\* Mutant: an answer to a confirmation is taken for the confirmation.
SettledAnswered(c, step, i, l) ==
  /\ rows' = CASE step = "commit" /\ l.is \in {"applied", "unchanged"} ->
                    [rows EXCEPT ![i].committed = TRUE, ![i].age = 0]
               [] step = "confirm" ->
                    [rows EXCEPT ![i].confirmed = TRUE]
               [] OTHER -> rows
  /\ handler' = [handler EXCEPT ![c].pending = {}]
  /\ down' = down

\* settled
Settled(c, step, i, l) ==
  /\ rows' = CASE step = "commit" /\ l.is \in {"applied", "unchanged"} ->
                    [rows EXCEPT ![i].committed = TRUE, ![i].age = 0]
               [] step = "confirm" /\ l.is = "confirmed" ->
                    [rows EXCEPT ![i].confirmed = TRUE]
               [] OTHER -> rows
  /\ handler' = [handler EXCEPT ![c].pending = {}]
  /\ down' = down

\* receive_frame
Receive(c) ==
  /\ handler[c].is = "open" /\ up[c] # <<>>
  /\ LET h == handler[c]
         l == Head(up[c])
     IN  \/ l.is = "hello" /\ Greeted(c) /\ rows' = rows
         \/ /\ l.is # "hello"
            /\ \/ \E i \in h.staging : Validated(c, i, l)
               \/ /\ h.staging = {}
                  /\ \E p \in h.pending : Settled(c, p[1], p[2], l)
               \/ /\ h.staging = {} /\ h.pending = {}
                  /\ UNCHANGED <<rows, handler, down>>
  /\ up' = [up EXCEPT ![c] = Tail(@)]
  /\ UNCHANGED <<appliance, live, registered, checked, history>>

\* The process of a session ends, for whatever reason: its mailbox and its
\* registration go with it.
Close(c) ==
  /\ handler[c].is = "open"
  /\ handler' = [handler EXCEPT ![c] = None]
  /\ registered' = registered \ {c}
  /\ up' = [up EXCEPT ![c] = <<>>]
  /\ UNCHANGED <<appliance, live, down, checked, rows, history>>

TransactionNext ==
  \/ \E c \in Conn : Dial(c) \/ ReadFrame(c)
  \/ Continue \/ EndTurn \/ Break \/ Restart \/ Second
  \/ \E d \in Doc : Check(d) \/ Insert(d)
  \/ \E i \in 1 .. MaxRows : AskSession(i)
  \/ \E c \in Conn : Accept(c) \/ TakeMail(c) \/ Receive(c) \/ Close(c)

TransactionSpec == TransactionInit /\ [][TransactionNext]_transactionVars

-----------------------------------------------------------------------------
(* Properties *)

Row == [doc : Doc, validated : {"no", "accepted", "refused"},
        stated : 0 .. MAX, committed : BOOLEAN, confirmed : BOOLEAN,
        age : 0 .. CONFIRM + 1, sent : BOOLEAN]

\* Types of the server's state.
TransactionTypeOK ==
  /\ TypeOK
  /\ live \subseteq Conn /\ Cardinality(live) <= 1 /\ session = (live # {})
  /\ registered \subseteq Conn /\ Cardinality(registered) <= 1
  /\ checked \subseteq Doc
  /\ Len(rows) <= MaxRows /\ \A i \in DOMAIN rows : rows[i] \in Row
  /\ \A c \in Conn :
       /\ handler[c].is \in {"none", "dialled", "open"}
       /\ handler[c].staging \subseteq DOMAIN rows
       /\ Cardinality(handler[c].staging) <= 1
       /\ Cardinality(handler[c].pending) <= 1

\* Each mark is "recorded from the answer" (handler.ex receive_frame), of "the
\* one an operator is looking at" (appliances.ex nothing_in_flight): a version
\* marked committed answers to a commit of its own document under its own number
\* that the appliance made durable or found running, and one marked confirmed to
\* a confirmation of the same.
Own(r) == [version |-> r.stated, doc |-> r.doc]
RecordedIsItsOwn ==
  \A i \in DOMAIN rows :
    /\ rows[i].committed => \E k \in DOMAIN commits : commits[k] = Own(rows[i])
    /\ rows[i].confirmed => \E k \in DOMAIN keptAs : keptAs[k] = Own(rows[i])

\* A version the server calls confirmed is one the appliance's medium holds, or
\* holds a successor of.  The last generation is the exception it is to
\* ConfirmedIsDurable of module ChannelConfig: a commit of it that the medium
\* refused cannot be put back, and may still be confirmed.
ConfirmedIsHeld ==
  \A i \in DOMAIN rows :
    rows[i].confirmed =>
      rows[i].stated = MAX \/ \E v \in medium : v.version >= rows[i].stated

==============================================================================
