------------------------- MODULE TransactionProofs -------------------------
(***************************************************************************)
(* A configuration transaction, for every set of documents, every width of *)
(* the generation counter and any number of restarts.  First the           *)
(* appliance's end on its own, whatever a server sends it; then what the   *)
(* management server may believe of the appliance, for any number of       *)
(* connections and versions, and whatever is lost, put back or answered    *)
(* late.                                                                   *)
(***************************************************************************)
EXTENDS ConfigTransaction, FiniteSetTheorems, TLAPS

USE ZenonT(60)

-----------------------------------------------------------------------------
(* The appliance's end on its own *)

\* Every number is a generation, and the word the medium's holder publishes is
\* the number of what lies on the medium.
Numbers ==
  /\ generation \in 0 .. MAX /\ durable \in 0 .. MAX /\ recorded \in 0 .. MAX
  /\ \A v \in medium : v.version = recorded
  /\ \A k \in kept : k.version \in 0 .. MAX

\* What may be committed is what the medium's holder was given to record.
StagedTogether == candidate \subseteq staged /\ \A x, y \in staged : x = y

\* A turn between its commit and its record: the commit is outstanding and
\* armed, newer than anything recorded, and its document is the staged one.
MidTurn ==
  /\ turn \in {"idle", "persist", "undo", "judge"}
  /\ turn \in {"persist", "undo"} =>
       /\ displaced # {} /\ awaiting # {} /\ candidate = {}
       /\ recorded < generation /\ durable < generation
  /\ turn = "persist" => staged = {model}

\* Between turns, what awaits confirmation is on the medium, unless it is the
\* last generation, which nothing can put back.
Placed ==
  turn \in {"idle", "judge"} /\ displaced # {} =>
    generation = MAX \/ medium = {[version |-> generation, doc |-> model]}

\* Nothing recorded is newer than what awaits confirmation.
Newest == displaced # {} => recorded <= generation /\ durable <= generation

\* The inductive invariant.
ApplianceInv == /\ Numbers /\ StagedTogether /\ MidTurn /\ Placed /\ Newest
        /\ ProvisionalIsArmed /\ ConfirmedIsDurable

-----------------------------------------------------------------------------
(* The datastore, as this end meets it *)

\* The floor a wakeup reads is the larger of the old one and the word.
LEMMA FloorRises ==
  ASSUME Numbers
  PROVE  /\ D!Observed \in 0 .. MAX
         /\ D!Observed >= durable /\ D!Observed >= recorded
         /\ D!Observed = durable \/ D!Observed = recorded
  BY SMTT(60), NumberAssumption DEF Numbers, D!Observed, D!Larger

\* The number of an applied commit is new, and a numbering with no number left
\* has its last one in force or on the floor.
LEMMA NextNumber ==
  ASSUME Numbers
  PROVE  /\ D!Successor(D!Latest) \in 0 .. MAX
         /\ ~D!Exhausted => /\ D!Successor(D!Latest) > generation
                            /\ D!Successor(D!Latest) > D!Observed
         /\ D!Exhausted => generation = MAX \/ D!Observed = MAX
  BY SMTT(60), FloorRises, NumberAssumption
     DEF Numbers, D!Successor, D!Latest, D!Larger, D!Exhausted

\* A rollback that happens leaves nothing outstanding, under a number that is a
\* generation.
LEMMA RollbackDoneLeaves ==
  ASSUME Numbers, D!RollbackDone
  PROVE  /\ displaced # {} /\ displaced' = {}
         /\ generation' \in 0 .. MAX /\ durable' \in 0 .. MAX
         /\ UNCHANGED <<candidate, recorded>>
  BY FloorRises, NextNumber DEF D!RollbackDone

\* A rollback that is refused changes the floor alone, and is refused only
\* where nothing is outstanding or no number is left.
LEMMA RollbackRefusedLeaves ==
  ASSUME Numbers, D!RollbackRefused
  PROVE  /\ UNCHANGED <<generation, model, candidate, displaced, recorded>>
         /\ durable' = D!Observed /\ durable' \in 0 .. MAX
         /\ displaced = {} \/ generation = MAX \/ durable' = MAX
  BY FloorRises, NextNumber DEF D!RollbackRefused

-----------------------------------------------------------------------------
(* The steps *)

\* A step that leaves the appliance alone but for the floor keeps the
\* invariant, wherever it leaves the turn among the ones outside a commit.
LEMMA FloorStep ==
  ASSUME ApplianceInv,
         UNCHANGED <<generation, model, displaced, recorded, medium, kept>>,
         durable' = durable \/ durable' = D!Observed,
         candidate' \subseteq staged', \A x, y \in staged' : x = y,
         awaiting' = {} <=> awaiting = {},
         turn \in {"idle", "judge"}, turn' \in {"idle", "judge"}
  PROVE  ApplianceInv'
  <1>1. durable' \in 0 .. MAX /\ Newest'
    BY FloorRises, NumberAssumption DEF ApplianceInv, Numbers, Newest
  <1> QED
    BY <1>1 DEF ApplianceInv, Numbers, StagedTogether, MidTurn, Placed, Newest,
                      ProvisionalIsArmed, ConfirmedIsDurable

\* The state init leaves.
LEMMA InitAppliance == Init => ApplianceInv
  BY SMTT(60), NumberAssumption
     DEF Init, D!Init, ApplianceInv, Numbers, StagedTogether, MidTurn, Placed,
         Newest,
         ProvisionalIsArmed, ConfirmedIsDurable

\* A passed deadline is consumed: by the rollback it asks for, or where none
\* can happen.
LEMMA RevertIInv ==
  ASSUME ApplianceInv, NEW reverted \in BOOLEAN, RevertIfExpired(reverted),
         turn \in {"idle", "judge"}, turn' \in {"idle", "judge"},
         UNCHANGED <<medium, staged, kept>>
  PROVE  ApplianceInv'
  <1>1. CASE D!RollbackDone /\ awaiting' = {}
    BY <1>1, RollbackDoneLeaves
       DEF ApplianceInv, Numbers, StagedTogether, MidTurn, Placed, Newest,
           ProvisionalIsArmed,
           ConfirmedIsDurable
  <1>2. CASE D!RollbackRefused /\ awaiting' = {} /\ Due
    <2>1. displaced # {} BY <1>2 DEF Due, ApplianceInv, ProvisionalIsArmed
    <2>2. durable' <= generation
      BY <1>2, <2>1, RollbackRefusedLeaves, FloorRises DEF ApplianceInv, Newest
    <2>3. generation = MAX
      BY SMTT(60), <1>2, <2>1, <2>2, RollbackRefusedLeaves, NumberAssumption
         DEF ApplianceInv, Numbers
    <2> QED BY <1>2, <2>1, <2>2, <2>3, RollbackRefusedLeaves
            DEF ApplianceInv, Numbers, StagedTogether, MidTurn, Placed, Newest,
                ProvisionalIsArmed, ConfirmedIsDurable
  <1>3. CASE UNCHANGED <<store, awaiting>>
    BY <1>3, FloorStep DEF store, ApplianceInv, StagedTogether
  <1> QED BY <1>1, <1>2, <1>3 DEF RevertIfExpired

\* The clock, the transport, and the judging at the end of a turn.
LEMMA SessionIInv ==
  ASSUME ApplianceInv, Tick \/ Opened \/ Closed \/ Judge PROVE ApplianceInv'
  <1>1. CASE Tick
    BY <1>1, FloorStep DEF Tick, store, ApplianceInv, StagedTogether
  <1>2. CASE Opened
    <2>1. CASE \E reverted \in BOOLEAN : RevertIfExpired(reverted)
      BY <1>2, <2>1, RevertIInv DEF Opened
    <2>2. CASE /\ awaiting' = {[a EXCEPT !.fresh = TRUE] : a \in awaiting}
               /\ UNCHANGED store
      BY <1>2, <2>2, FloorStep DEF Opened, store, ApplianceInv, StagedTogether
    <2> QED BY <1>2, <2>1, <2>2 DEF Opened
  <1>3. CASE Closed
    BY <1>3, FloorStep DEF Closed, store, ApplianceInv, StagedTogether
  <1>4. CASE Judge
    BY <1>4, RevertIInv DEF Judge
  <1> QED BY <1>1, <1>2, <1>3, <1>4

\* A restart forgets what was provisional and keeps the medium.
LEMMA RebootIInv == ASSUME ApplianceInv, Reboot PROVE ApplianceInv'
  <1>1. recorded' \in 0 .. MAX /\ \A v \in medium : v.version = recorded'
    BY SMTT(60), NumberAssumption DEF Reboot, ApplianceInv, Numbers
  <1>2. generation' \in 0 .. MAX /\ durable' \in 0 .. MAX
    BY SMTT(60), NumberAssumption DEF Reboot
  <1> QED BY <1>1, <1>2
          DEF Reboot, ApplianceInv, Numbers, StagedTogether, MidTurn, Placed,
              Newest,
              ProvisionalIsArmed, ConfirmedIsDurable

\* Staging, and everything a frame is refused for.
LEMMA FrameIInv ==
  ASSUME ApplianceInv,
         \/ \E d \in Doc : Stage(d)
         \/ \E g \in 0 .. MAX + 1, secs \in Asked :
              CommitMalformed(g, secs) \/ CommitNothing(g, secs)
         \/ \E g \in 0 .. MAX + 1 : ConfirmBarred(g)
  PROVE  ApplianceInv'
  <1>1. ASSUME NEW d \in Doc, Stage(d) PROVE ApplianceInv'
    <2>1. candidate' \subseteq staged' /\ \A x, y \in staged' : x = y
      BY <1>1 DEF Stage, D!Stage, ApplianceInv, StagedTogether
    <2> QED BY <1>1, <2>1, FloorStep DEF Stage, D!Stage, Reading
  <1>2. ASSUME NEW g \in 0 .. MAX + 1, NEW secs \in Asked,
               CommitMalformed(g, secs)
        PROVE  ApplianceInv'
    BY <1>2, FloorStep
       DEF CommitMalformed, Reading, store, ApplianceInv, StagedTogether
  <1>3. ASSUME NEW g \in 0 .. MAX + 1, NEW secs \in Asked,
               CommitNothing(g, secs)
        PROVE  ApplianceInv'
    BY <1>3, FloorStep DEF CommitNothing, D!CommitRefused, D!CommitUnchanged,
                           Reading, ApplianceInv, StagedTogether
  <1>4. ASSUME NEW g \in 0 .. MAX + 1, ConfirmBarred(g) PROVE ApplianceInv'
    BY <1>4, FloorStep
       DEF ConfirmBarred, Reading, store, ApplianceInv, StagedTogether
  <1> QED BY <1>1, <1>2, <1>3, <1>4

\* A commit that comes into force is armed, newer than anything recorded, and
\* of the document the medium's holder has.
LEMMA CommitIInv ==
  ASSUME ApplianceInv, NEW g \in 0 .. MAX + 1, NEW secs \in Asked,
         CommitProvisional(g, secs)
  PROVE  ApplianceInv'
  <1>1. /\ g > D!Observed /\ generation' = g /\ durable' = D!Observed
        /\ displaced' # {} /\ model' \in candidate /\ candidate' = {}
        /\ UNCHANGED recorded /\ g \in 0 .. MAX
    BY NextNumber DEF CommitProvisional, D!CommitApplied, ApplianceInv
  <1>2. /\ awaiting' # {} /\ turn' = "persist"
        /\ UNCHANGED <<medium, staged, kept>>
    BY DEF CommitProvisional, Armed
  <1>3. staged' = {model'}
    BY <1>1, <1>2 DEF ApplianceInv, StagedTogether
  <1>4. durable' \in 0 .. MAX /\ recorded' < generation' /\ durable' < generation'
    BY SMTT(60), <1>1, FloorRises DEF ApplianceInv, Numbers
  <1> QED BY SMTT(60), <1>1, <1>2, <1>3, <1>4
          DEF ApplianceInv, Numbers, StagedTogether, MidTurn, Placed, Newest,
              ProvisionalIsArmed, ConfirmedIsDurable

\* The medium takes the version: it is newer than the one there before.
LEMMA PersistIInv == ASSUME ApplianceInv, Persist PROVE ApplianceInv'
  <1>1. /\ medium' = {[version |-> generation, doc |-> model]}
        /\ staged' = {} /\ recorded' = generation /\ turn' = "judge"
        /\ UNCHANGED <<generation, model, candidate, displaced, durable,
                       awaiting, kept>>
    BY DEF Persist, D!MediumRecords, D!store, ApplianceInv, MidTurn
  <1>2. candidate = {} /\ recorded < generation
    BY DEF Persist, ApplianceInv, MidTurn
  <1>3. ASSUME NEW k \in kept, k.version # MAX
        PROVE  \E v \in medium' : /\ v.version >= k.version
                                  /\ v.version = k.version => v.doc = k.doc
    <2>1. PICK v \in medium : v.version >= k.version
      BY <1>3 DEF ApplianceInv, ConfirmedIsDurable
    <2>2. v.version = recorded /\ k.version \in 0 .. MAX
      BY DEF ApplianceInv, Numbers
    <2>3. generation > k.version
      BY SMTT(60), <1>2, <2>1, <2>2, NumberAssumption DEF ApplianceInv, Numbers
    <2> QED
      BY SMTT(60), <1>1, <2>2, <2>3, NumberAssumption DEF ApplianceInv, Numbers
  <1>4. ConfirmedIsDurable'
    BY <1>1, <1>3 DEF ConfirmedIsDurable
  <1> QED BY SMTT(60), <1>1, <1>2, <1>4
          DEF ApplianceInv, Numbers, StagedTogether, MidTurn, Placed, Newest,
              ProvisionalIsArmed

\* The medium refuses: the commit stays armed until it is put back.
LEMMA NotPersistedIInv == ASSUME ApplianceInv, NotPersisted PROVE ApplianceInv'
  BY DEF NotPersisted, store, ApplianceInv, Numbers, StagedTogether, MidTurn,
         Placed,
         Newest,
         ProvisionalIsArmed, ConfirmedIsDurable

\* The commit is put back, or was the last there can be.
LEMMA UndoIInv == ASSUME ApplianceInv, Undo PROVE ApplianceInv'
  <1>1. CASE D!RollbackDone /\ awaiting' = {}
    BY <1>1, RollbackDoneLeaves
       DEF Undo, ApplianceInv, Numbers, StagedTogether, MidTurn, Placed,
           Newest,
           ProvisionalIsArmed, ConfirmedIsDurable
  <1>2. CASE D!RollbackRefused /\ awaiting' = awaiting
    <2>1. displaced # {} /\ recorded < generation /\ durable < generation
      BY DEF Undo, ApplianceInv, MidTurn
    <2>2. durable' < generation
      BY <1>2, <2>1, RollbackRefusedLeaves, FloorRises DEF ApplianceInv
    <2>3. generation = MAX
      BY SMTT(60), <1>2, <2>1, <2>2, RollbackRefusedLeaves, NumberAssumption
         DEF ApplianceInv, Numbers
    <2> QED BY SMTT(60), <1>2, <2>3, RollbackRefusedLeaves
            DEF Undo, ApplianceInv, Numbers, StagedTogether, MidTurn, Placed,
                Newest,
                ProvisionalIsArmed, ConfirmedIsDurable
  <1> QED BY <1>1, <1>2 DEF Undo

\* A confirmation keeps what is on the medium.
LEMMA ConfirmIInv ==
  ASSUME ApplianceInv, NEW g \in 0 .. MAX + 1, Confirm(g) PROVE ApplianceInv'
  <1>1. /\ UNCHANGED <<generation, model, candidate, recorded, medium, staged>>
        /\ durable' = D!Observed /\ turn = "idle" /\ turn' = "judge"
    BY DEF Confirm, D!Confirm, Reading
  <1>2. CASE answer'.is = "confirmed"
    <2>1. displaced # {} /\ displaced' = {}
      BY SMTT(60), <1>2 DEF Confirm, D!Confirm, D!Answer
    <2>2. /\ awaiting' = {}
          /\ kept' = {[version |-> generation, doc |-> model]}
      BY <1>2 DEF Confirm
    <2>3. generation = MAX \/ medium = {[version |-> generation, doc |-> model]}
      BY <1>1, <2>1 DEF ApplianceInv, Placed
    <2>4. ConfirmedIsDurable'
      BY SMTT(60), <1>1, <2>2, <2>3, NumberAssumption
         DEF ConfirmedIsDurable, ApplianceInv, Numbers
    <2> QED BY SMTT(60), <1>1, <2>1, <2>2, <2>4, FloorRises
            DEF ApplianceInv, Numbers, StagedTogether, MidTurn, Placed, Newest,
                ProvisionalIsArmed
  <1>3. CASE answer'.is # "confirmed"
    <2>1. UNCHANGED <<displaced, awaiting, kept>>
      BY SMTT(60), <1>3 DEF Confirm, D!Confirm, D!Answer
    <2> QED BY <1>1, <2>1, FloorStep DEF ApplianceInv, StagedTogether
  <1> QED BY <1>2, <1>3

\* Every step of the appliance's end keeps the invariant.
LEMMA NextAppliance == ApplianceInv /\ [Next]_vars => ApplianceInv'
  <1>1. ApplianceInv /\ UNCHANGED vars => ApplianceInv'
    BY DEF vars, store, ApplianceInv, Numbers, StagedTogether, MidTurn,
           Placed, Newest,
           ProvisionalIsArmed, ConfirmedIsDurable
  <1> QED BY <1>1, SessionIInv, RebootIInv, FrameIInv, CommitIInv, PersistIInv,
             NotPersistedIInv, UndoIInv, ConfirmIInv DEF Next

\* The appliance's end keeps its inductive invariant in every behaviour.
THEOREM ApplianceInvariance == Spec => []ApplianceInv
  BY InitAppliance, NextAppliance, PTL DEF Spec

\* A provisional configuration is never left without the deadline that undoes
\* it, and no deadline is armed over a confirmed one, whatever the server sends
\* and whatever the medium refuses (ChannelConfig::commit, undo, confirm).
THEOREM AlwaysArmed == Spec => []ProvisionalIsArmed
  <1>1. ApplianceInv => ProvisionalIsArmed BY DEF ApplianceInv
  <1> QED BY ApplianceInvariance, <1>1, PTL

\* What was confirmed is on the medium under its number, or a newer version is,
\* across refusals of the medium and restarts (ChannelConfig::persist).
THEOREM KeptIsRecorded == Spec => []ConfirmedIsDurable
  <1>1. ApplianceInv => ConfirmedIsDurable BY DEF ApplianceInv
  <1> QED BY ApplianceInvariance, <1>1, PTL

-----------------------------------------------------------------------------
(* The server's end *)

Generations == 0 .. MAX
Answers == [is : {"staged", "refused", "applied", "unchanged", "reverted", "confirmed"},
            generation : Generations]

\* A medium that holds m has version g or a successor of it.
Covers(g, m) == g = MAX \/ \E v \in m : v.version >= g

\* What awaits confirmation is the running configuration.
UnderItsNumber == \A d \in displaced : d.provisional = generation

\* What is known of the appliance, whoever is connected to it.
Appliance == ApplianceInv /\ UnderItsNumber

-----------------------------------------------------------------------------
(* The invariant *)

Reply == Answers \cup [is : {"hello"}, generation : Generations]
Request == [is : {"stage"}, doc : Doc]
             \cup [is : {"commit", "confirm"}, generation : Generations]
VersionRow == [doc : Doc, validated : {"no", "accepted", "refused"}, stated : Generations,
               committed : BOOLEAN, confirmed : BOOLEAN, age : Nat, sent : BOOLEAN]
Process == [is : {"none", "dialled", "open"}, staging : SUBSET Nat,
            pending : SUBSET ({"commit", "confirm"} \X Nat), mail : Seq(Nat)]

Types ==
  /\ rows \in Seq(VersionRow) /\ checked \subseteq Doc
  /\ up \in [Conn -> Seq(Reply)] /\ down \in [Conn -> Seq(Request)]
  /\ handler \in [Conn -> Process]
  /\ live \subseteq Conn /\ registered \subseteq Conn
  /\ \A x, y \in live : x = y
  /\ \A x, y \in registered : x = y

\* A greeting is the first thing an appliance says, and until the server has
\* read it no confirmation is asked for on that connection.
GreetsFirst(u) == \A k \in DOMAIN u : u[k].is = "hello" => k = 1
Greeting(u) == \E r \in Range(u) : r.is = "hello"
Unasked(u, d) == /\ \A f \in Range(d) : f.is # "confirm"
                 /\ \A r \in Range(u) : r.is # "confirmed"
Wire ==
  \A c \in Conn : /\ c \notin live => down[c] = <<>>
                  /\ GreetsFirst(up[c])
                  /\ Greeting(up[c]) => Unasked(up[c], down[c])

\* One confirmation is asked for on a connection, so a "confirmed" on it is of
\* the number that was asked for, which the medium then holds.
Matches(u, d, g, m) == /\ \A f \in Range(d) : f.is = "confirm" => f.generation = g
                       /\ \A r \in Range(u) : r.is = "confirmed" => Covers(g, m)
Decided(i) == i \in DOMAIN rows /\ rows[i].validated # "no"
Asking ==
  \A c \in Conn : \A p \in handler[c].pending :
    /\ Decided(p[2])
    /\ p[1] = "confirm" => Matches(up[c], down[c], rows[p[2]].stated, medium)

\* A version is mailed to one session, once, and is undecided until that
\* session has its verdict.
Wanted(h) == h.staging \cup Range(h.mail)
Orderly(h) == /\ \A x, y \in h.staging : x = y
              /\ \A i \in h.staging : i \notin Range(h.mail)
              /\ \A k, j \in DOMAIN h.mail : h.mail[k] = h.mail[j] => k = j
Post ==
  /\ \A c \in Conn : Orderly(handler[c])
  /\ \A c \in Conn : \A i \in Wanted(handler[c]) :
       i \in DOMAIN rows /\ rows[i].validated = "no"
  /\ \A c, e \in Conn : \A i \in Wanted(handler[c]) : i \in Wanted(handler[e]) => c = e

\* What is recorded of a version, and what that says of the medium.
Recorded ==
  \A i \in DOMAIN rows :
    /\ rows[i].committed \/ rows[i].confirmed => rows[i].validated # "no"
    /\ rows[i].confirmed => Covers(rows[i].stated, medium)

IInv == Appliance /\ Types /\ Wire /\ Asking /\ Post /\ Recorded

\* A version whose request has not sent it is undecided, and in no mailbox.
Unsent == \A i \in DOMAIN rows : ~rows[i].sent =>
            rows[i].validated = "no" /\ \A c \in Conn : i \notin Wanted(handler[c])

-----------------------------------------------------------------------------
(* The appliance *)

\* The next generation, and the floor, are generations.
LEMMA Numbering ==
  ASSUME ApplianceInv
  PROVE  /\ D!Successor(D!Latest) \in Generations
         /\ generation \in Generations
<1>1. Numbers
  BY DEF ApplianceInv
<1> QED  BY <1>1, NextNumber DEF Numbers, Generations

LEMMA StatedTyped ==
  ASSUME NEW g \in Generations,
         NEW k \in {"staged", "refused", "applied", "unchanged", "reverted", "confirmed"}
  PROVE  \E r \in Answers : Stated(k, g) = <<r>>
  BY DEF Stated, Answers

\* Every step pushes one answer or none.
LEMMA LineTyped ==
  ASSUME ApplianceInv, Next
  PROVE  line' = <<>> \/ \E r \in Answers : line' = <<r>>
<1> DEFINE n == D!Successor(D!Latest)
<1>1. n \in Generations /\ generation \in Generations /\ 0 \in Generations
  BY Numbering, NumberAssumption, SMTT(60) DEF Generations
<1> HIDE DEF n
<1>2. Unresolved = Stated("refused", 0)
  BY DEF Unresolved
<1>3. \E r \in Answers : Unresolved = <<r>>
  BY <1>1, <1>2, StatedTyped
<1>4. CASE Tick \/ Opened \/ Closed \/ Judge \/ Reboot \/ NotPersisted
  BY <1>4 DEF Tick, Opened, Closed, Judge, Reboot, NotPersisted
<1>5. ASSUME NEW d \in Doc, Stage(d) PROVE \E r \in Answers : line' = <<r>>
  <2>1. answer' = D!Answer("staged", n) \/ answer' = D!Answer("rejected", generation)
    BY <1>5 DEF Stage, D!Stage, n
  <2>2. answer'.generation \in Generations
    BY <1>1, <2>1, SMTT(60) DEF D!Answer
  <2>3. CASE d \in Valid
    BY <1>5, <2>2, <2>3, StatedTyped DEF Stage
  <2>4. CASE d \notin Valid
    BY <1>5, <2>2, <2>4, StatedTyped DEF Stage
  <2> QED  BY <2>3, <2>4
<1>6. ASSUME NEW g \in 0 .. MAX + 1, NEW secs \in Asked, CommitMalformed(g, secs)
      PROVE  \E r \in Answers : line' = <<r>>
  BY <1>3, <1>6 DEF CommitMalformed
<1>7. ASSUME NEW g \in 0 .. MAX + 1, NEW secs \in Asked, CommitNothing(g, secs)
      PROVE  \E r \in Answers : line' = <<r>>
  <2>1. CASE line' = Unresolved
    BY <1>3, <2>1
  <2>2. CASE D!CommitUnchanged(g) /\ line' = Stated("unchanged", answer'.generation)
    <3>1. answer'.generation = generation
      BY <2>2 DEF D!CommitUnchanged, D!Answer
    <3> QED  BY <1>1, <2>2, <3>1, StatedTyped
  <2> QED  BY <1>7, <2>1, <2>2 DEF CommitNothing
<1>8. ASSUME NEW g \in 0 .. MAX + 1, NEW secs \in Asked, CommitProvisional(g, secs)
      PROVE  line' = <<>>
  BY <1>8 DEF CommitProvisional
<1>9. CASE Persist
  BY <1>1, <1>9, StatedTyped DEF Persist
<1>10. CASE Undo
  <2>1. CASE line' = Unresolved
    BY <1>3, <2>1
  <2>2. CASE D!RollbackDone /\ line' = Stated("reverted", answer'.generation)
    <3>1. answer'.generation = n
      BY <2>2, SMTT(60) DEF D!RollbackDone, D!Answer, n
    <3> QED  BY <1>1, <2>2, <3>1, StatedTyped
  <2> QED  BY <1>10, <2>1, <2>2 DEF Undo
<1>11. ASSUME NEW g \in 0 .. MAX + 1, ConfirmBarred(g) PROVE \E r \in Answers : line' = <<r>>
  BY <1>3, <1>11 DEF ConfirmBarred
<1>12. ASSUME NEW g \in 0 .. MAX + 1, Confirm(g) PROVE \E r \in Answers : line' = <<r>>
  <2>1. g \in Generations
    BY <1>12, NumberAssumption, SMTT(60) DEF Confirm, Generations
  <2>2. line' = Unresolved \/ line' = Stated("confirmed", g)
    BY <1>12 DEF Confirm
  <2> QED  BY <1>3, <2>1, <2>2, StatedTyped
<1> QED  BY <1>4, <1>5, <1>6, <1>7, <1>8, <1>9, <1>10, <1>11, <1>12 DEF Next

\* A commit displaces under the number it runs by, and a rollback leaves
\* nothing displaced.
LEMMA NumberKept ==
  ASSUME UnderItsNumber, Next
  PROVE  UnderItsNumber'
<1>1. CASE D!RollbackDone
  BY <1>1 DEF D!RollbackDone, UnderItsNumber
<1>2. CASE UNCHANGED <<generation, displaced>>
  BY <1>2 DEF UnderItsNumber
<1>3. ASSUME NEW g, D!CommitApplied(g) PROVE UnderItsNumber'
  BY <1>3, SMTT(60) DEF D!CommitApplied, UnderItsNumber
<1>4. ASSUME NEW g, D!Confirm(g) PROVE UnderItsNumber'
  BY <1>4 DEF D!Confirm, UnderItsNumber
<1>5. CASE Reboot
  BY <1>5 DEF Reboot, UnderItsNumber
<1>6. CASE Tick \/ Closed \/ Persist \/ NotPersisted
  BY <1>2, <1>6
     DEF Tick, Closed, Persist, NotPersisted, store, D!MediumRecords, D!store
<1>7. ASSUME NEW b, RevertIfExpired(b) PROVE UnderItsNumber'
  BY <1>1, <1>2, <1>7 DEF RevertIfExpired, D!RollbackRefused, store
<1>8. CASE Opened \/ Judge \/ Undo
  BY <1>1, <1>2, <1>7, <1>8 DEF Opened, Judge, Undo, D!RollbackRefused, store
<1>9. ASSUME NEW d, Stage(d) PROVE UnderItsNumber'
  BY <1>2, <1>9 DEF Stage, D!Stage
<1>10. ASSUME NEW g, NEW s,
              CommitMalformed(g, s) \/ CommitNothing(g, s) \/ CommitProvisional(g, s)
       PROVE  UnderItsNumber'
  BY <1>2, <1>3, <1>10 DEF CommitMalformed, CommitNothing, CommitProvisional,
     D!CommitRefused, D!CommitUnchanged, store
<1>11. ASSUME NEW g, ConfirmBarred(g) \/ Confirm(g) PROVE UnderItsNumber'
  BY <1>2, <1>4, <1>11 DEF ConfirmBarred, Confirm, store
<1> QED  BY <1>5, <1>6, <1>8, <1>9, <1>10, <1>11 DEF Next

\* The version on the medium only rises.
LEMMA MediumRises ==
  ASSUME ApplianceInv, Next, NEW g \in Generations, Covers(g, medium)
  PROVE  Covers(g, medium')
<1>1. CASE medium' = medium
  BY <1>1 DEF Covers
<1>2. CASE Persist
  <2>1. /\ \E d \in staged : medium' = {[version |-> generation, doc |-> d]}
        /\ recorded < generation
    BY <1>2 DEF Persist, ApplianceInv, MidTurn
  <2>2. g = MAX \/ \E v \in medium : v.version = recorded /\ recorded >= g
    BY DEF Covers, ApplianceInv, Numbers
  <2>3. generation \in Int /\ recorded \in Int /\ g \in Int
    BY NumberAssumption, SMTT(60) DEF ApplianceInv, Numbers, Generations
  <2>4. g = MAX \/ generation >= g
    BY <2>1, <2>2, <2>3, SMTT(60)
  <2> QED  BY <2>1, <2>4, SMTT(60) DEF Covers
<1> QED  BY <1>1, <1>2 DEF Next, Tick, Opened, Closed, Judge, Reboot, Stage,
   CommitMalformed, CommitNothing, CommitProvisional, NotPersisted, Undo,
   ConfirmBarred, Confirm

LEMMA ApplianceStep ==
  ASSUME Appliance, Next
  PROVE  Appliance'
  BY NextAppliance, NumberKept DEF Appliance

\* The appliance answers for a confirmation only of the number asked for, and
\* what it then keeps is on the medium.
LEMMA ConfirmedCovers ==
  ASSUME Appliance, NEW g \in Generations, Confirm(g), answer'.is = "confirmed"
  PROVE  Covers(g, medium')
<1>1. PICK d \in displaced : d.provisional = g
  BY SMTT(60) DEF Confirm, D!Confirm, D!Answer
<1>2. g = generation /\ displaced # {} /\ turn = "idle" /\ medium' = medium
  BY <1>1 DEF Appliance, UnderItsNumber, Confirm, Reading
<1>3. generation = MAX \/ medium = {[version |-> generation, doc |-> model]}
  BY <1>2 DEF Appliance, ApplianceInv, Placed
<1>4. generation >= generation
  BY <1>2, NumberAssumption, SMTT(60) DEF Generations
<1>5. CASE generation = MAX
  BY <1>2, <1>5 DEF Covers
<1>6. CASE medium = {[version |-> generation, doc |-> model]}
  <2> DEFINE v == [version |-> generation, doc |-> model]
  <2>1. v \in medium' /\ v.version = g
    BY <1>2, <1>6
  <2> QED  BY <1>2, <1>4, <2>1 DEF Covers
<1> QED  BY <1>3, <1>5, <1>6

-----------------------------------------------------------------------------
(* Sequences *)

LEMMA EmptyRange == Range(<<>>) = {}
  BY SMTT(60) DEF Range

LEMMA AppendRange ==
  ASSUME NEW S, NEW q \in Seq(S), NEW e \in S
  PROVE  /\ Append(q, e) \in Seq(S)
         /\ Range(Append(q, e)) = Range(q) \cup {e}
         /\ DOMAIN q = 1 .. Len(q) /\ Len(q) \in Nat
         /\ DOMAIN Append(q, e) = 1 .. Len(q) + 1
         /\ \A k \in DOMAIN q : k \in DOMAIN Append(q, e) /\ Append(q, e)[k] = q[k]
         /\ Append(q, e)[Len(q) + 1] = e
<1>1. /\ Append(q, e) \in Seq(S)
      /\ DOMAIN q = 1 .. Len(q) /\ Len(q) \in Nat
      /\ DOMAIN Append(q, e) = 1 .. Len(q) + 1
      /\ \A k \in DOMAIN q : k \in DOMAIN Append(q, e) /\ Append(q, e)[k] = q[k]
      /\ Append(q, e)[Len(q) + 1] = e
  BY SMTT(60)
<1>2. DOMAIN Append(q, e) = DOMAIN q \cup {Len(q) + 1}
  BY <1>1, SMTT(60)
<1> DEFINE a == Append(q, e)
           n == Len(q) + 1
<1>3. DOMAIN a = DOMAIN q \cup {n} /\ a[n] = e /\ \A k \in DOMAIN q : a[k] = q[k]
  BY <1>1, <1>2
<1> HIDE DEF a, n
<1>4. \A x : x \in Range(a) <=> \E k \in DOMAIN a : x = a[k]
  BY DEF Range
<1>5. \A x : x \in Range(q) <=> \E k \in DOMAIN q : x = q[k]
  BY DEF Range
<1>6. \A x : x \in Range(a) <=> x \in Range(q) \/ x = e
  BY <1>3, <1>4, <1>5
<1>7. Range(a) = Range(q) \cup {e}
  BY <1>6
<1> QED  BY <1>1, <1>7 DEF a

LEMMA TailRange ==
  ASSUME NEW S, NEW q \in Seq(S), q # <<>>
  PROVE  /\ Tail(q) \in Seq(S) /\ Head(q) \in S /\ Head(q) \in Range(q)
         /\ Range(Tail(q)) \subseteq Range(q)
         /\ 1 \in DOMAIN q /\ Head(q) = q[1]
         /\ \A k \in DOMAIN Tail(q) : k + 1 \in DOMAIN q /\ k + 1 # 1 /\ Tail(q)[k] = q[k + 1]
<1>1. Tail(q) \in Seq(S) /\ Head(q) \in S /\ Head(q) = q[1]
  BY SMTT(60)
<1>2. Len(q) \in Nat /\ Len(q) >= 1 /\ DOMAIN q = 1 .. Len(q)
  BY SMTT(60)
<1>3. DOMAIN Tail(q) = 1 .. (Len(q) - 1)
  BY <1>2, SMTT(60)
<1>4. \A k \in 1 .. (Len(q) - 1) : Tail(q)[k] = q[k + 1]
  BY <1>2, SMTT(60)
<1>5. \A k \in DOMAIN Tail(q) : k + 1 \in DOMAIN q /\ k + 1 # 1
  BY <1>2, <1>3, SMTT(60)
<1>6. 1 \in DOMAIN q
  BY <1>2, SMTT(60)
<1> QED  BY <1>1, <1>3, <1>4, <1>5, <1>6 DEF Range

LEMMA SubRange ==
  ASSUME NEW S, NEW q \in Seq(S), NEW n \in 0 .. Len(q)
  PROVE  /\ SubSeq(q, 1, n) \in Seq(S) /\ Range(SubSeq(q, 1, n)) \subseteq Range(q)
         /\ \A k \in DOMAIN SubSeq(q, 1, n) : k \in DOMAIN q /\ SubSeq(q, 1, n)[k] = q[k]
<1>1. /\ SubSeq(q, 1, n) \in Seq(S)
      /\ \A k \in DOMAIN SubSeq(q, 1, n) : k \in DOMAIN q /\ SubSeq(q, 1, n)[k] = q[k]
  BY SMTT(60)
<1> QED  BY <1>1 DEF Range

-----------------------------------------------------------------------------
(* The steps of the appliance *)

\* What a step of the appliance may do to one connection: begin it with a
\* greeting, or read of it and say one thing more, which is "confirmed" only
\* where a confirmation was asked for and the medium has what was confirmed.
Heard(u, d, un, dn, m) ==
  \/ (\A r \in Range(un) : r.is = "hello") /\ dn = <<>>
  \/ /\ Range(dn) \subseteq Range(d)
     /\ \A r \in Range(un) :
          \/ r \in Range(u)
          \/ /\ r.is # "hello"
             /\ r.is = "confirmed" =>
                  \E f \in Range(d) : f.is = "confirm" /\ Covers(f.generation, m)

LEMMA HeardMatches ==
  ASSUME NEW u, NEW d, NEW un, NEW dn, NEW m, NEW n, Heard(u, d, un, dn, n),
         NEW g, Matches(u, d, g, m), Covers(g, m) => Covers(g, n)
  PROVE  Matches(un, dn, g, n)
<1>1. CASE (\A r \in Range(un) : r.is = "hello") /\ dn = <<>>
  BY <1>1, EmptyRange DEF Matches
<1>2. CASE /\ Range(dn) \subseteq Range(d)
           /\ \A r \in Range(un) :
                \/ r \in Range(u)
                \/ /\ r.is # "hello"
                   /\ r.is = "confirmed" =>
                        \E f \in Range(d) : f.is = "confirm" /\ Covers(f.generation, n)
  BY <1>2 DEF Matches
<1> QED  BY <1>1, <1>2 DEF Heard

LEMMA HeardUnasked ==
  ASSUME NEW u, NEW d, NEW un, NEW dn, NEW n, Heard(u, d, un, dn, n),
         Greeting(u) => Unasked(u, d), Greeting(un)
  PROVE  Unasked(un, dn)
<1>1. CASE (\A r \in Range(un) : r.is = "hello") /\ dn = <<>>
  BY <1>1, EmptyRange DEF Unasked
<1>2. CASE /\ Range(dn) \subseteq Range(d)
           /\ \A r \in Range(un) :
                \/ r \in Range(u)
                \/ /\ r.is # "hello"
                   /\ r.is = "confirmed" =>
                        \E f \in Range(d) : f.is = "confirm" /\ Covers(f.generation, n)
  <2>1. Greeting(u)
    BY <1>2 DEF Greeting
  <2> QED  BY <1>2, <2>1 DEF Unasked
<1> QED  BY <1>1, <1>2 DEF Heard

\* A handler's work is what it was.
SameWork(h, n) == n.staging = h.staging /\ n.pending = h.pending /\ n.mail = h.mail

LEMMA ApplianceSide ==
  ASSUME IInv, Appliance', UNCHANGED <<rows, registered, checked>>,
         \A g \in Generations : Covers(g, medium) => Covers(g, medium'),
         up' \in [Conn -> Seq(Reply)], down' \in [Conn -> Seq(Request)],
         handler' \in [Conn -> Process], live' \subseteq Conn, \A x, y \in live' : x = y,
         \A c \in Conn : SameWork(handler[c], handler'[c]),
         \A c \in Conn : c \notin live' => down'[c] = <<>>,
         \A c \in Conn : GreetsFirst(up'[c]),
         \A c \in Conn : Heard(up[c], down[c], up'[c], down'[c], medium')
  PROVE  IInv'
<1>1. Types'
  BY DEF IInv, Types
<1>2. Wire'
  <2>1. \A c \in Conn : Greeting(up'[c]) => Unasked(up'[c], down'[c])
    BY HeardUnasked DEF IInv, Wire
  <2> QED  BY <2>1 DEF Wire
<1>3. \A i \in DOMAIN rows : rows[i].stated \in Generations
  <2>1. rows \in Seq(VersionRow)
    BY DEF IInv, Types
  <2>2. \A i \in DOMAIN rows : rows[i] \in VersionRow
    BY <2>1, SMTT(60)
  <2> QED  BY <2>2 DEF VersionRow
<1>4. Asking'
  <2>1. SUFFICES ASSUME NEW c \in Conn, NEW p \in handler[c].pending
                 PROVE  /\ Decided(p[2])'
                        /\ p[1] = "confirm" =>
                             Matches(up'[c], down'[c], rows[p[2]].stated, medium')
    BY DEF Asking, SameWork
  <2>2. /\ Decided(p[2])
        /\ p[1] = "confirm" => Matches(up[c], down[c], rows[p[2]].stated, medium)
    BY DEF IInv, Asking
  <2>3. Heard(up[c], down[c], up'[c], down'[c], medium')
    OBVIOUS
  <2>4. rows[p[2]].stated \in Generations
    BY <1>3, <2>2 DEF Decided
  <2>5. p[1] = "confirm" => Matches(up'[c], down'[c], rows[p[2]].stated, medium')
    <3> DEFINE g == rows[p[2]].stated
    <3>1. Covers(g, medium) => Covers(g, medium')
      BY <2>4
    <3> HIDE DEF g
    <3>2. ASSUME Matches(up[c], down[c], g, medium) PROVE Matches(up'[c], down'[c], g, medium')
      BY ONLY <2>3, <3>1, <3>2, HeardMatches, ZenonT(60)
    <3> QED  BY <2>2, <3>2 DEF g
  <2> QED  BY <2>2, <2>5 DEF Decided
<1>5. \A c \in Conn : Wanted(handler'[c]) = Wanted(handler[c]) /\ Orderly(handler'[c])
  BY DEF IInv, Post, SameWork, Wanted, Orderly
<1>6. Post'
  BY <1>5 DEF IInv, Post
<1>7. Recorded'
  BY <1>3 DEF IInv, Recorded
<1> QED  BY <1>1, <1>2, <1>4, <1>6, <1>7 DEF IInv

LEMMA IsChanged ==
  ASSUME NEW h \in Process, NEW x \in {"none", "dialled", "open"}
  PROVE  /\ [h EXCEPT !.is = x] \in Process /\ [h EXCEPT !.is = x].is = x
         /\ SameWork(h, [h EXCEPT !.is = x])
  BY DEF Process, SameWork

\* A handler's state may change while its work does not.
LEMMA HandlersChanged ==
  ASSUME handler \in [Conn -> Process], NEW c \in Conn, NEW x \in {"none", "dialled", "open"},
         handler' = [handler EXCEPT ![c].is = x]
  PROVE  /\ handler' \in [Conn -> Process]
         /\ \A e \in Conn : SameWork(handler[e], handler'[e])
<1> DEFINE h == [handler[c] EXCEPT !.is = x]
<1>1. h \in Process /\ SameWork(handler[c], h)
  BY IsChanged
<1>2. handler' = [handler EXCEPT ![c] = h]
  OBVIOUS
<1> HIDE DEF h
<1>3. handler' \in [Conn -> Process]
  BY <1>1, <1>2
<1>4. \A e \in Conn : handler'[e] = handler[e] \/ (e = c /\ handler'[e] = h)
  BY <1>2
<1> QED  BY <1>1, <1>3, <1>4 DEF SameWork

LEMMA SaysMore ==
  ASSUME NEW q \in Seq(Reply), GreetsFirst(q), NEW l, l = <<>> \/ \E r \in Answers : l = <<r>>
  PROVE  /\ q \o l \in Seq(Reply) /\ GreetsFirst(q \o l)
         /\ \A r \in Range(q \o l) : r \in Range(q) \/ (r \in Answers /\ l = <<r>>)
<1>1. CASE l = <<>>
  <2>1. q \o l = q
    BY <1>1, SMTT(60)
  <2> QED  BY <2>1
<1>2. ASSUME NEW r \in Answers, l = <<r>>
      PROVE  /\ q \o l \in Seq(Reply) /\ GreetsFirst(q \o l)
             /\ \A x \in Range(q \o l) : x \in Range(q) \/ (x \in Answers /\ l = <<x>>)
  <2>1. q \o l = Append(q, r)
    BY <1>2, SMTT(60)
  <2>2. r \in Reply /\ r.is # "hello"
    BY DEF Reply, Answers
  <2>3. /\ Append(q, r) \in Seq(Reply)
        /\ Range(Append(q, r)) = Range(q) \cup {r}
        /\ DOMAIN q = 1 .. Len(q) /\ Len(q) \in Nat
        /\ DOMAIN Append(q, r) = 1 .. Len(q) + 1
        /\ \A k \in DOMAIN q : k \in DOMAIN Append(q, r) /\ Append(q, r)[k] = q[k]
        /\ Append(q, r)[Len(q) + 1] = r
    BY ONLY <2>2, AppendRange, q \in Seq(Reply), SMTT(60)
  <2>4. \A k \in DOMAIN Append(q, r) : k \in DOMAIN q \/ k = Len(q) + 1
    BY <2>3, SMTT(60)
  <2> DEFINE a == Append(q, r)
             n == Len(q) + 1
  <2>7. /\ a \in Seq(Reply) /\ Range(a) = Range(q) \cup {r} /\ a[n] = r
        /\ \A k \in DOMAIN q : a[k] = q[k]
        /\ \A k \in DOMAIN a : k \in DOMAIN q \/ k = n
    BY <2>3, <2>4
  <2> HIDE DEF a, n
  <2>5. GreetsFirst(a)
    BY <2>2, <2>7 DEF GreetsFirst
  <2>6. q \o l = a
    BY <2>1 DEF a
  <2> QED  BY <1>2, <2>5, <2>6, <2>7
<1> QED  BY <1>1, <1>2

LEMMA PushedSays ==
  ASSUME IInv, line' = <<>> \/ \E r \in Answers : line' = <<r>>, up' = Pushed
  PROVE  /\ up' \in [Conn -> Seq(Reply)]
         /\ \A c \in Conn :
              /\ GreetsFirst(up'[c])
              /\ \A r \in Range(up'[c]) :
                   r \in Range(up[c]) \/ (c \in live /\ r \in Answers /\ line' = <<r>>)
<1>1. SUFFICES ASSUME NEW c \in Conn
               PROVE  /\ up'[c] \in Seq(Reply) /\ GreetsFirst(up'[c])
                      /\ \A r \in Range(up'[c]) :
                           r \in Range(up[c]) \/ (c \in live /\ r \in Answers /\ line' = <<r>>)
  BY DEF Pushed
<1>2. up[c] \in Seq(Reply) /\ GreetsFirst(up[c])
  BY DEF IInv, Types, Wire
<1>3. CASE up'[c] = up[c]
  BY <1>2, <1>3
<1>4. CASE c \in live /\ up'[c] = up[c] \o line'
  <2> DEFINE q == up[c]
             l == line'
  <2>1. l = <<>> \/ \E r \in Answers : l = <<r>>
    OBVIOUS
  <2>2. q \in Seq(Reply) /\ GreetsFirst(q) /\ up'[c] = q \o l
    BY <1>2, <1>4
  <2> HIDE DEF q, l
  <2>3. /\ q \o l \in Seq(Reply) /\ GreetsFirst(q \o l)
        /\ \A r \in Range(q \o l) : r \in Range(q) \/ (r \in Answers /\ l = <<r>>)
    BY <2>1, <2>2, SaysMore
  <2> QED  BY <1>4, <2>2, <2>3 DEF q, l
<1> QED  BY <1>3, <1>4 DEF Pushed

\* A step that only says something, and confirms nothing.
LEMMA CarryKeeps ==
  ASSUME IInv, Next, Carry, UNCHANGED <<rows, registered, checked>>,
         \A r : line' = <<r>> => r.is # "confirmed"
  PROVE  IInv'
<1>1. Appliance' /\ \A g \in Generations : Covers(g, medium) => Covers(g, medium')
  BY ApplianceStep, MediumRises DEF IInv, Appliance
<1>2. line' = <<>> \/ \E r \in Answers : line' = <<r>>
  BY LineTyped DEF IInv, Appliance
<1>3. up' = Pushed /\ UNCHANGED <<live, down, handler>>
  BY DEF Carry
<1>4. /\ up' \in [Conn -> Seq(Reply)] /\ \A c \in Conn : GreetsFirst(up'[c])
      /\ \A c \in Conn : \A r \in Range(up'[c]) :
           r \in Range(up[c]) \/ (r \in Answers /\ line' = <<r>>)
  BY <1>2, <1>3, PushedSays
<1>5. \A c \in Conn : Heard(up[c], down[c], up'[c], down'[c], medium')
  BY <1>3, <1>4 DEF Heard, Answers
<1>6. \A c \in Conn : SameWork(handler[c], handler'[c])
  BY <1>3 DEF SameWork
<1> QED  BY <1>1, <1>3, <1>4, <1>5, <1>6, ApplianceSide DEF IInv, Types, Wire

LEMMA SubGreets ==
  ASSUME NEW q \in Seq(Reply), NEW n \in 0 .. Len(q), GreetsFirst(q)
  PROVE  /\ SubSeq(q, 1, n) \in Seq(Reply) /\ GreetsFirst(SubSeq(q, 1, n))
         /\ Range(SubSeq(q, 1, n)) \subseteq Range(q)
  BY SubRange DEF GreetsFirst

\* The appliance's end of its connection goes away.
LEMMA DroppedKeeps ==
  ASSUME IInv, Next, Dropped(up), UNCHANGED <<rows, registered, checked>>
  PROVE  IInv'
<1>1. Appliance' /\ \A g \in Generations : Covers(g, medium) => Covers(g, medium')
  BY ApplianceStep, MediumRises DEF IInv, Appliance
<1>2. live' = {}
  BY DEF Dropped
<1>3. CASE live = {}
  <2>1. UNCHANGED <<up, down, handler>>
    BY <1>3 DEF Dropped
  <2>2. \A c \in Conn : Heard(up[c], down[c], up'[c], down'[c], medium')
    BY <2>1 DEF Heard
  <2>3. \A c \in Conn : SameWork(handler[c], handler'[c])
    BY <2>1 DEF SameWork
  <2> QED  BY <1>1, <1>2, <1>3, <2>1, <2>2, <2>3, ApplianceSide DEF IInv, Types, Wire
<1>4. CASE live # {}
  <2>1. PICK c \in live : TRUE
    BY <1>4
  <2>2. c \in Conn /\ \A e \in Conn : e # c => e \notin live
    BY <2>1 DEF IInv, Types
  <2> DEFINE x == IF handler[c].is = "open" THEN handler[c].is ELSE "none"
  <2>3. PICK k \in 0 .. Len(up[c]) :
          up' = [up EXCEPT ![c] = IF handler[c].is = "open" THEN SubSeq(up[c], 1, k) ELSE <<>>]
    BY <2>1 DEF Dropped
  <2>4. handler' = [handler EXCEPT ![c].is = x] /\ down' = [down EXCEPT ![c] = <<>>]
    BY <2>1 DEF Dropped
  <2>5. /\ up \in [Conn -> Seq(Reply)] /\ down \in [Conn -> Seq(Request)]
        /\ handler \in [Conn -> Process] /\ up[c] \in Seq(Reply) /\ GreetsFirst(up[c])
    BY <2>2 DEF IInv, Types, Wire
  <2>6. x \in {"none", "dialled", "open"}
    OBVIOUS
  <2>7. handler' \in [Conn -> Process] /\ \A e \in Conn : SameWork(handler[e], handler'[e])
    <3> HIDE DEF x
    <3> QED  BY <2>2, <2>4, <2>5, <2>6, HandlersChanged
  <2> DEFINE u == IF handler[c].is = "open" THEN SubSeq(up[c], 1, k) ELSE <<>>
             none == <<>>
  <2>8. u \in Seq(Reply) /\ GreetsFirst(u) /\ Range(u) \subseteq Range(up[c])
    <3>1. SubSeq(up[c], 1, k) \in Seq(Reply) /\ GreetsFirst(SubSeq(up[c], 1, k))
          /\ Range(SubSeq(up[c], 1, k)) \subseteq Range(up[c])
      BY <2>5, SubGreets
    <3>2. <<>> \in Seq(Reply) /\ DOMAIN <<>> = {}
      BY SMTT(60)
    <3>3. GreetsFirst(<<>>) /\ Range(<<>>) \subseteq Range(up[c])
      BY <3>2, EmptyRange DEF GreetsFirst
    <3> QED  BY <3>1, <3>2, <3>3
  <2>9. none \in Seq(Request) /\ Range(none) = {}
    BY EmptyRange, SMTT(60)
  <2>10. up' = [up EXCEPT ![c] = u] /\ down' = [down EXCEPT ![c] = none]
    BY <2>3, <2>4
  <2> HIDE DEF u, none
  <2>11. /\ up' \in [Conn -> Seq(Reply)] /\ down' \in [Conn -> Seq(Request)]
         /\ \A e \in Conn : /\ e = c => up'[e] = u /\ down'[e] = none
                            /\ e # c => up'[e] = up[e] /\ down'[e] = down[e]
    BY <2>2, <2>5, <2>8, <2>9, <2>10
  <2>12. \A e \in Conn : GreetsFirst(up'[e])
    BY <2>8, <2>11 DEF IInv, Wire
  <2>13. \A e \in Conn : e \notin live' => down'[e] = <<>>
    BY <2>2, <2>11 DEF IInv, Wire, none
  <2>14. \A e \in Conn : Range(down'[e]) \subseteq Range(down[e]) /\ Range(up'[e]) \subseteq Range(up[e])
    BY <2>8, <2>9, <2>11
  <2>15. \A e \in Conn : Heard(up[e], down[e], up'[e], down'[e], medium')
    BY <2>14 DEF Heard
  <2> QED  BY <1>1, <1>2, <2>7, <2>11, <2>12, <2>13, <2>15, ApplianceSide
<1> QED  BY <1>3, <1>4

\* The appliance dials and greets.
LEMMA DialKeeps ==
  ASSUME IInv, NEW c \in Conn, Dial(c)
  PROVE  IInv'
<1> DEFINE hello == [is |-> "hello", generation |-> 0]
           u == <<hello>>
<1>1. /\ Next /\ live = {} /\ live' = {c}
      /\ handler' = [handler EXCEPT ![c].is = "dialled"]
      /\ up' = [up EXCEPT ![c] = u]
      /\ UNCHANGED <<down, registered, checked, rows>>
  BY DEF Dial, Next
<1>2. Appliance' /\ \A g \in Generations : Covers(g, medium) => Covers(g, medium')
  BY <1>1, ApplianceStep, MediumRises DEF IInv, Appliance
<1>3. hello \in Reply /\ hello.is = "hello"
  BY NumberAssumption, SMTT(60) DEF Reply, Generations
<1>4. u \in Seq(Reply) /\ DOMAIN u = {1} /\ u[1] = hello
  BY <1>3, SMTT(60)
<1>5. GreetsFirst(u) /\ Range(u) = {hello}
  BY <1>4 DEF GreetsFirst, Range
<1> HIDE DEF hello, u
<1>6. handler \in [Conn -> Process] /\ up \in [Conn -> Seq(Reply)] /\ down \in [Conn -> Seq(Request)]
  BY DEF IInv, Types
<1>7. handler' \in [Conn -> Process] /\ \A e \in Conn : SameWork(handler[e], handler'[e])
  <2> DEFINE x == "dialled"
  <2>1. x \in {"none", "dialled", "open"} /\ handler' = [handler EXCEPT ![c].is = x]
    BY <1>1
  <2> HIDE DEF x
  <2> QED  BY <1>6, <2>1, HandlersChanged
<1>8. up' \in [Conn -> Seq(Reply)] /\ up'[c] = u /\ \A e \in Conn : e # c => up'[e] = up[e]
  BY <1>1, <1>4, <1>6
<1>9. \A e \in Conn : down'[e] = <<>>
  BY <1>1 DEF IInv, Wire
<1>10. \A e \in Conn : GreetsFirst(up'[e])
  BY <1>5, <1>8 DEF IInv, Wire
<1>11. \A e \in Conn : Heard(up[e], down[e], up'[e], down'[e], medium')
  <2>1. Heard(up[c], down[c], up'[c], down'[c], medium')
    BY <1>3, <1>5, <1>8, <1>9 DEF Heard
  <2>2. \A e \in Conn : e # c => Heard(up[e], down[e], up'[e], down'[e], medium')
    BY <1>1, <1>8 DEF Heard
  <2> QED  BY <2>1, <2>2
<1> QED  BY <1>1, <1>2, <1>6, <1>7, <1>8, <1>9, <1>10, <1>11, ApplianceSide

\* A confirmation the appliance answers for was asked for, and is on the medium.
LEMMA ReadConfirms ==
  ASSUME IInv, NEW c \in Conn, ReadFrame(c), NEW r, line' = <<r>>, r.is = "confirmed"
  PROVE  Head(down[c]).is = "confirm" /\ Covers(Head(down[c]).generation, medium')
<1> DEFINE f == Head(down[c])
<1>1. f \in Request
  <2>1. down[c] \in Seq(Request) /\ down[c] # <<>>
    BY DEF IInv, Types, ReadFrame
  <2> QED  BY <2>1, TailRange
<1> HIDE DEF f
<1>2. \A k, g : line' = Stated(k, g) => k = "confirmed"
  BY SMTT(60) DEF Stated
<1>3. line' # Unresolved /\ line' # <<>>
  <2>1. line' # <<>>
    BY SMTT(60)
  <2> QED  BY <1>2, <2>1 DEF Unresolved
<1>4. ~(f.is = "stage" /\ Stage(f.doc))
  BY <1>2 DEF Stage
<1>5. ~(CommitNothing(f.generation, CONFIRM) \/ CommitProvisional(f.generation, CONFIRM))
  BY <1>2, <1>3 DEF CommitNothing, CommitProvisional
<1>6. ~ConfirmBarred(f.generation)
  BY <1>3 DEF ConfirmBarred
<1>7. f.is = "confirm" /\ Confirm(f.generation)
  BY <1>4, <1>5, <1>6 DEF ReadFrame, f
<1>8. answer'.is = "confirmed"
  BY <1>3, <1>7 DEF Confirm
<1>9. f.generation \in Generations
  BY <1>1, <1>7 DEF Request
<1>10. Covers(f.generation, medium')
  <2> DEFINE g == f.generation
  <2>1. g \in Generations /\ Confirm(g)
    BY <1>7, <1>9
  <2> HIDE DEF g
  <2>2. Covers(g, medium')
    BY <1>8, <2>1, ConfirmedCovers DEF IInv
  <2> QED  BY <2>2 DEF g
<1> QED  BY <1>7, <1>10 DEF f

\* A frame is one of those the appliance's end models.
LEMMA ReadIsStep ==
  ASSUME IInv, NEW c \in Conn, ReadFrame(c)
  PROVE  Next
<1> DEFINE f == Head(down[c])
<1>1. f \in Request
  <2>1. down[c] \in Seq(Request) /\ down[c] # <<>>
    BY DEF IInv, Types, ReadFrame
  <2> QED  BY <2>1, TailRange
<1>2. f.is = "stage" => f.doc \in Doc
  BY <1>1, SMTT(60) DEF Request
<1>3. f.is \in {"commit", "confirm"} => f.generation \in 0 .. MAX + 1
  <2>1. f.is \in {"commit", "confirm"} => f.generation \in Generations
    BY <1>1, SMTT(60) DEF Request
  <2> QED  BY <2>1, NumberAssumption, SMTT(60) DEF Generations
<1> QED  BY <1>2, <1>3, TransactionAssumption DEF ReadFrame, Next

\* The appliance reads a frame.
LEMMA ReadFrameKeeps ==
  ASSUME IInv, NEW c \in Conn, ReadFrame(c)
  PROVE  IInv'
<1>1. /\ c \in live /\ down[c] # <<>> /\ down' = [down EXCEPT ![c] = Tail(down[c])]
      /\ up' = Pushed /\ UNCHANGED <<live, handler, registered, checked, rows>>
  BY DEF ReadFrame, server
<1>2. Next
  BY ReadIsStep
<1>3. Appliance' /\ \A g \in Generations : Covers(g, medium) => Covers(g, medium')
  BY <1>2, ApplianceStep, MediumRises DEF IInv, Appliance
<1>4. line' = <<>> \/ \E r \in Answers : line' = <<r>>
  BY <1>2, LineTyped DEF IInv, Appliance
<1>5. /\ up' \in [Conn -> Seq(Reply)] /\ \A e \in Conn : GreetsFirst(up'[e])
      /\ \A e \in Conn : \A r \in Range(up'[e]) :
           r \in Range(up[e]) \/ (e \in live /\ r \in Answers /\ line' = <<r>>)
  BY <1>1, <1>4, PushedSays
<1>6. down \in [Conn -> Seq(Request)] /\ down[c] \in Seq(Request)
  BY DEF IInv, Types
<1> DEFINE d == Tail(down[c])
           f == Head(down[c])
<1>7. d \in Seq(Request) /\ Range(d) \subseteq Range(down[c]) /\ f \in Range(down[c])
  BY <1>1, <1>6, TailRange
<1>8. \A r : line' = <<r>> /\ r.is = "confirmed" =>
        f.is = "confirm" /\ Covers(f.generation, medium')
  BY ReadConfirms
<1>9. down' = [down EXCEPT ![c] = d]
  BY <1>1
<1> HIDE DEF d, f
<1>10. /\ down' \in [Conn -> Seq(Request)] /\ down'[c] = d
       /\ \A e \in Conn : e # c => down'[e] = down[e]
  BY <1>6, <1>7, <1>9
<1>11. \A e \in Conn : e \notin live' => down'[e] = <<>>
  BY <1>1, <1>10 DEF IInv, Wire
<1>12. \A e \in Conn : e \in live => e = c
  BY <1>1 DEF IInv, Types
<1>13. \A e \in Conn : Range(down'[e]) \subseteq Range(down[e])
  BY <1>7, <1>10
<1>14. ASSUME NEW e \in Conn, NEW r \in Range(up'[e]), r \notin Range(up[e])
       PROVE  /\ r.is # "hello"
              /\ r.is = "confirmed" =>
                   \E x \in Range(down[e]) : x.is = "confirm" /\ Covers(x.generation, medium')
  <2>1. e = c /\ r \in Answers /\ line' = <<r>>
    BY <1>5, <1>12, <1>14
  <2>2. r.is # "hello"
    BY <2>1 DEF Answers
  <2> QED  BY <1>7, <1>8, <2>1, <2>2
<1>15. \A e \in Conn : Heard(up[e], down[e], up'[e], down'[e], medium')
  BY <1>13, <1>14 DEF Heard
<1>16. \A e \in Conn : SameWork(handler[e], handler'[e])
  BY <1>1 DEF SameWork
<1> QED  BY <1>1, <1>3, <1>5, <1>10, <1>11, <1>15, <1>16, ApplianceSide DEF IInv, Types

\* The rest of a turn, its end, and what ends a connection.
LEMMA TurnKeeps ==
  ASSUME IInv, Continue \/ EndTurn \/ Break \/ Restart
  PROVE  IInv'
<1>1. CASE Continue
  <2>1. Next /\ Carry /\ UNCHANGED <<rows, registered, checked>>
    BY <1>1 DEF Continue, Next
  <2>2. \A r : line' = <<r>> => r.is # "confirmed"
    <3>1. line' \in {<<>>, Unresolved} \/ line' = Stated("applied", generation)
            \/ line' = Stated("reverted", answer'.generation)
      BY <1>1 DEF Continue, Persist, NotPersisted, Undo
    <3> QED  BY <3>1, SMTT(60) DEF Unresolved, Stated
  <2> QED  BY <2>1, <2>2, CarryKeeps
<1>2. CASE EndTurn
  <2>1. Next /\ line' = <<>> /\ UNCHANGED <<rows, registered, checked>> /\ (Carry \/ Dropped(up))
    BY <1>2 DEF EndTurn, Next, Judge
  <2>2. \A r : line' = <<r>> => r.is # "confirmed"
    BY <2>1, SMTT(60)
  <2> QED  BY <2>1, <2>2, CarryKeeps, DroppedKeeps
<1>3. CASE Break \/ Restart
  <2>1. Next /\ UNCHANGED <<rows, registered, checked>> /\ Dropped(up)
    BY <1>3 DEF Break, Restart, Next
  <2> QED  BY <2>1, DroppedKeeps
<1> QED  BY <1>1, <1>2, <1>3

-----------------------------------------------------------------------------
(* The steps of the server *)

LEMMA ApplianceStill ==
  ASSUME Appliance, UNCHANGED appliance
  PROVE  Appliance' /\ medium' = medium
<1>1. [Next]_vars
  BY DEF appliance, vars, store
<1>2. ApplianceInv'
  BY <1>1, NextAppliance DEF Appliance
<1> QED  BY <1>2 DEF Appliance, appliance, UnderItsNumber

LEMMA RowsTyped ==
  ASSUME Types
  PROVE  /\ Len(rows) \in Nat /\ DOMAIN rows = 1 .. Len(rows)
         /\ \A i \in DOMAIN rows : rows[i] \in VersionRow
<1>1. rows \in Seq(VersionRow)
  BY DEF Types
<1> QED  BY <1>1, SMTT(60)

\* What was decided of a version stays as it was decided.
Advances(s, t) ==
  /\ DOMAIN s \subseteq DOMAIN t
  /\ \A i \in DOMAIN s :
       s[i].validated # "no" => t[i].validated # "no" /\ t[i].stated = s[i].stated

\* A connection on which nothing is added that matters to a confirmation.
Quieter(u, d, un, dn) ==
  /\ Range(un) \subseteq Range(u)
  /\ \A f \in Range(dn) : f \in Range(d) \/ f.is # "confirm"

LEMMA StillAsking ==
  ASSUME IInv, NEW e \in Conn, handler'[e].pending \subseteq handler[e].pending,
         Quieter(up[e], down[e], up'[e], down'[e]), Advances(rows, rows'), medium' = medium,
         NEW p \in handler'[e].pending
  PROVE  /\ Decided(p[2])'
         /\ p[1] = "confirm" => Matches(up'[e], down'[e], rows'[p[2]].stated, medium')
<1> DEFINE i == p[2]
<1>1. /\ Decided(i)
      /\ p[1] = "confirm" => Matches(up[e], down[e], rows[i].stated, medium)
  BY DEF IInv, Asking
<1>2. i \in DOMAIN rows' /\ rows'[i].validated # "no" /\ rows'[i].stated = rows[i].stated
  BY <1>1 DEF Decided, Advances
<1> HIDE DEF i
<1>3. Decided(i)'
  BY <1>2 DEF Decided
<1>4. p[1] = "confirm" => Matches(up'[e], down'[e], rows'[i].stated, medium')
  BY <1>1, <1>2 DEF Matches, Quieter
<1> QED  BY <1>3, <1>4 DEF i

LEMMA StillUnasked ==
  ASSUME NEW u, NEW d, NEW un, NEW dn, Quieter(u, d, un, dn),
         Greeting(u) => Unasked(u, d), Greeting(un)
  PROVE  Unasked(un, dn)
  BY DEF Quieter, Greeting, Unasked

LEMMA StillWanted ==
  ASSUME IInv,
         \A e \in Conn : Orderly(handler'[e]) /\ Wanted(handler'[e]) \subseteq Wanted(handler[e]),
         \A e \in Conn : \A i \in Wanted(handler'[e]) :
           i \in DOMAIN rows' /\ rows'[i].validated = "no"
  PROVE  Post'
  BY DEF IInv, Post

\* The server's end takes the next frame.
LEMMA TakesOne ==
  ASSUME IInv, NEW c \in Conn, up[c] # <<>>, up' = [up EXCEPT ![c] = Tail(@)]
  PROVE  /\ up' \in [Conn -> Seq(Reply)] /\ ~Greeting(up'[c])
         /\ \A e \in Conn : GreetsFirst(up'[e]) /\ Range(up'[e]) \subseteq Range(up[e])
         /\ Head(up[c]) \in Reply /\ Head(up[c]) \in Range(up[c])
<1> DEFINE q == up[c]
           t == Tail(up[c])
<1>1. q \in Seq(Reply) /\ q # <<>> /\ GreetsFirst(q) /\ up \in [Conn -> Seq(Reply)]
  BY DEF IInv, Types, Wire
<1>2. /\ t \in Seq(Reply) /\ Head(q) \in Reply /\ Head(q) \in Range(q) /\ Range(t) \subseteq Range(q)
      /\ \A k \in DOMAIN t : k + 1 \in DOMAIN q /\ k + 1 # 1 /\ t[k] = q[k + 1]
  BY <1>1, TailRange
<1>3. up' = [up EXCEPT ![c] = t]
  OBVIOUS
<1> HIDE DEF q, t
<1>4. \A k \in DOMAIN t : t[k].is # "hello"
  BY <1>1, <1>2 DEF GreetsFirst
<1>5. GreetsFirst(t) /\ ~Greeting(t)
  BY <1>4 DEF GreetsFirst, Greeting, Range
<1>6. /\ up' \in [Conn -> Seq(Reply)] /\ up'[c] = t /\ \A e \in Conn : e # c => up'[e] = up[e]
  BY <1>1, <1>2, <1>3
<1>7. \A e \in Conn : GreetsFirst(up'[e]) /\ Range(up'[e]) \subseteq Range(up[e])
  BY <1>2, <1>5, <1>6 DEF IInv, Wire, q
<1> QED  BY <1>2, <1>5, <1>6, <1>7 DEF q

LEMMA SendSays ==
  ASSUME IInv, NEW c \in Conn, NEW frame \in Request, Send(c, frame)
  PROVE  /\ down' \in [Conn -> Seq(Request)]
         /\ \A e \in Conn : e \notin live => down'[e] = <<>>
         /\ \A e \in Conn : \A f \in Range(down'[e]) :
              f \in Range(down[e]) \/ (e = c /\ f = frame)
<1>1. down \in [Conn -> Seq(Request)] /\ \A e \in Conn : e \notin live => down[e] = <<>>
  BY DEF IInv, Types, Wire
<1>2. CASE c \notin live
  BY <1>1, <1>2 DEF Send
<1>3. CASE c \in live
  <2> DEFINE d == Append(down[c], frame)
  <2>1. d \in Seq(Request) /\ Range(d) = Range(down[c]) \cup {frame}
    <3>1. down[c] \in Seq(Request)
      BY <1>1
    <3> QED  BY ONLY <3>1, frame \in Request, AppendRange, SMTT(60)
  <2>2. down' = [down EXCEPT ![c] = d]
    BY <1>3 DEF Send
  <2> HIDE DEF d
  <2>3. /\ down' \in [Conn -> Seq(Request)] /\ down'[c] = d
        /\ \A e \in Conn : e # c => down'[e] = down[e]
    BY <1>1, <2>1, <2>2
  <2> QED  BY <1>1, <1>3, <2>1, <2>3
<1> QED  BY <1>2, <1>3

LEMMA AgedRows ==
  ASSUME Types, rows' = Aged
  PROVE  /\ rows' \in Seq(VersionRow) /\ DOMAIN rows' = DOMAIN rows
         /\ \A i \in DOMAIN rows :
              /\ rows'[i].validated = rows[i].validated /\ rows'[i].stated = rows[i].stated
              /\ rows'[i].committed = rows[i].committed /\ rows'[i].confirmed = rows[i].confirmed
              /\ rows'[i].sent = rows[i].sent
<1>1. /\ Len(rows) \in Nat /\ DOMAIN rows = 1 .. Len(rows)
      /\ \A i \in DOMAIN rows : rows[i] \in VersionRow
  BY RowsTyped
<1>2. \A v \in VersionRow : LET w == [v EXCEPT !.age = @ + 1] IN
        /\ w \in VersionRow /\ w.validated = v.validated /\ w.stated = v.stated
        /\ w.committed = v.committed /\ w.confirmed = v.confirmed /\ w.sent = v.sent
  BY SMTT(60) DEF VersionRow
<1>3. DOMAIN rows' = DOMAIN rows
  BY DEF Aged
<1>4. \A i \in DOMAIN rows :
        /\ rows'[i] \in VersionRow
        /\ rows'[i].validated = rows[i].validated /\ rows'[i].stated = rows[i].stated
        /\ rows'[i].committed = rows[i].committed /\ rows'[i].confirmed = rows[i].confirmed
        /\ rows'[i].sent = rows[i].sent
  BY <1>1, <1>2 DEF Aged
<1>5. rows' \in Seq(VersionRow)
  <2>1. rows' = [i \in 1 .. Len(rows) |-> rows'[i]]
    BY <1>1 DEF Aged
  <2> QED  BY <1>1, <1>3, <1>4, <2>1, SMTT(60)
<1> QED  BY <1>3, <1>4, <1>5

LEMMA TickKeeps ==
  ASSUME IInv, Second
  PROVE  IInv'
<1>1. Appliance' /\ medium' = medium
  <2>1. CASE Tick
    BY <2>1, ApplianceStep DEF IInv, Next, Tick
  <2>2. CASE UNCHANGED appliance
    BY <2>2, ApplianceStill DEF IInv
  <2> QED  BY <2>1, <2>2 DEF Second
<1>2. UNCHANGED <<live, up, down, handler, registered, checked>> /\ rows' = Aged
  BY DEF Second, wire
<1>3. /\ rows' \in Seq(VersionRow) /\ DOMAIN rows' = DOMAIN rows
      /\ \A i \in DOMAIN rows :
           /\ rows'[i].validated = rows[i].validated /\ rows'[i].stated = rows[i].stated
           /\ rows'[i].committed = rows[i].committed /\ rows'[i].confirmed = rows[i].confirmed
  BY <1>2, AgedRows DEF IInv
<1>4. Types' /\ Wire'
  BY <1>2, <1>3 DEF IInv, Types, Wire
<1>5. Asking'
  <2>1. Advances(rows, rows')
    BY <1>3 DEF Advances
  <2>2. \A e \in Conn : Quieter(up[e], down[e], up'[e], down'[e])
    BY <1>2 DEF Quieter
  <2>3. \A e \in Conn : handler'[e].pending \subseteq handler[e].pending
    BY <1>2
  <2> QED  BY <1>1, <2>1, <2>2, <2>3, StillAsking DEF Asking
<1>6. Post'
  BY <1>2, <1>3, StillWanted DEF IInv, Post
<1>7. Recorded'
  BY <1>1, <1>3 DEF IInv, Recorded
<1> QED  BY <1>1, <1>4, <1>5, <1>6, <1>7 DEF IInv

LEMMA CheckKeeps ==
  ASSUME IInv, NEW d \in Doc, Check(d)
  PROVE  IInv'
<1>1. Appliance' /\ medium' = medium
  BY ApplianceStill DEF IInv, Check
<1>2. UNCHANGED <<live, up, down, handler, registered, rows>> /\ checked' = checked \cup {d}
  BY DEF Check, wire
<1>3. Types' /\ Wire' /\ Post' /\ Recorded'
  BY <1>1, <1>2 DEF IInv, Types, Wire, Post, Recorded
<1>4. Asking'
  BY <1>1, <1>2 DEF IInv, Asking, Decided
<1> QED  BY <1>1, <1>3, <1>4 DEF IInv

\* A handler that has been sent version n, one that has taken the next version
\* from its mailbox, and one that awaits nothing.
LEMMA MailedOrderly ==
  ASSUME NEW h \in Process, Orderly(h), NEW n \in Nat, n \notin Wanted(h), NEW g,
         g = [h EXCEPT !.mail = Append(@, n)]
  PROVE  /\ g \in Process /\ Orderly(g) /\ Wanted(g) = Wanted(h) \cup {n}
         /\ g.pending = h.pending
<1> DEFINE q == h.mail
           a == Append(h.mail, n)
           m == Len(h.mail) + 1
<1>1. q \in Seq(Nat)
  BY DEF Process
<1>2. /\ a \in Seq(Nat) /\ Range(a) = Range(q) \cup {n}
      /\ DOMAIN q = 1 .. Len(q) /\ Len(q) \in Nat /\ DOMAIN a = 1 .. Len(q) + 1
      /\ \A k \in DOMAIN q : a[k] = q[k]
      /\ a[m] = n
  BY ONLY <1>1, n \in Nat, AppendRange, SMTT(60)
<1>3. \A k \in DOMAIN a : k \in DOMAIN q \/ k = m
  BY <1>2, SMTT(60)
<1>4. g \in Process /\ g.staging = h.staging /\ g.pending = h.pending /\ g.mail = a
  <2> HIDE DEF a
  <2>1. g = [h EXCEPT !.mail = a]
    BY DEF a
  <2> QED  BY <1>2, <2>1 DEF Process
<1> HIDE DEF a, m, q
<1>5. Wanted(g) = Wanted(h) \cup {n}
  BY <1>2, <1>4 DEF Wanted, q
<1>6. \A k \in DOMAIN q : q[k] # n
  BY DEF Wanted, Range, q
<1>7. \A k, j \in DOMAIN a : a[k] = a[j] => k = j
  BY <1>2, <1>3, <1>6 DEF Orderly, q
<1>8. \A i \in g.staging : i \notin Range(g.mail)
  BY <1>2, <1>4 DEF Orderly, Wanted, q
<1> QED  BY <1>4, <1>5, <1>7, <1>8 DEF Orderly

LEMMA TakenOrderly ==
  ASSUME NEW h \in Process, Orderly(h), h.mail # <<>>, NEW g,
         \/ g = [h EXCEPT !.mail = Tail(@)]
         \/ h.staging = {} /\ g = [h EXCEPT !.mail = Tail(@), !.staging = {Head(h.mail)}]
  PROVE  /\ g \in Process /\ Orderly(g) /\ Wanted(g) \subseteq Wanted(h)
         /\ g.pending = h.pending /\ Head(h.mail) \in Wanted(h)
<1> DEFINE q == h.mail
           t == Tail(h.mail)
           i == Head(h.mail)
<1>1. q \in Seq(Nat) /\ q # <<>>
  BY DEF Process
<1>2. /\ t \in Seq(Nat) /\ i \in Nat /\ i \in Range(q) /\ Range(t) \subseteq Range(q)
      /\ 1 \in DOMAIN q /\ i = q[1]
      /\ \A k \in DOMAIN t : k + 1 \in DOMAIN q /\ k + 1 # 1 /\ t[k] = q[k + 1]
  BY <1>1, TailRange
<1>3. \A k, j \in DOMAIN q : q[k] = q[j] => k = j
  BY DEF Orderly
<1>4. \A k \in DOMAIN t : k \in Int
  BY <1>2, SMTT(60)
<1> HIDE DEF q, t, i
<1>5. \A k, j \in DOMAIN t : t[k] = t[j] => k = j
  <2>1. \A k, j \in DOMAIN t : t[k] = t[j] => k + 1 = j + 1
    BY <1>2, <1>3
  <2> QED  BY <1>4, <2>1, SMTT(60)
<1>6. i \notin Range(t)
  <2>1. ASSUME NEW k \in DOMAIN t PROVE t[k] # i
    BY <1>2, <1>3
  <2> QED  BY <2>1 DEF Range
<1>7. /\ g \in Process /\ g.mail = t /\ g.pending = h.pending
      /\ g.staging = h.staging \/ (h.staging = {} /\ g.staging = {i})
  <2>1. CASE g = [h EXCEPT !.mail = t]
    BY <1>2, <2>1 DEF Process
  <2>2. CASE h.staging = {} /\ g = [h EXCEPT !.mail = t, !.staging = {i}]
    <3> DEFINE s == {i}
    <3>1. s \in SUBSET Nat /\ g = [h EXCEPT !.mail = t, !.staging = s]
      BY <1>2, <2>2
    <3> HIDE DEF s
    <3>2. g \in Process /\ g.mail = t /\ g.pending = h.pending /\ g.staging = s
      BY <1>2, <3>1 DEF Process
    <3> QED  BY <2>2, <3>2 DEF s
  <2> QED  BY <2>1, <2>2 DEF t, i
<1>8. \A x, y \in g.staging : x = y
  BY <1>7 DEF Orderly
<1>9. \A x \in g.staging : x \notin Range(g.mail)
  BY <1>2, <1>6, <1>7 DEF Orderly, q
<1>10. Wanted(g) \subseteq Wanted(h)
  BY <1>2, <1>7 DEF Wanted, q
<1> QED  BY <1>2, <1>5, <1>7, <1>8, <1>9, <1>10 DEF Orderly, Wanted, q, i

LEMMA FreshProcess ==
  /\ None \in Process /\ Orderly(None) /\ Wanted(None) = {} /\ None.pending = {}
  /\ NewState \in Process /\ Orderly(NewState) /\ Wanted(NewState) = {} /\ NewState.pending = {}
<1>1. <<>> \in Seq(Nat) /\ DOMAIN <<>> = {} /\ Range(<<>>) = {}
  BY EmptyRange, SMTT(60)
<1>2. /\ None \in Process /\ None.staging = {} /\ None.pending = {} /\ None.mail = <<>>
  BY <1>1, SMTT(60) DEF None, Process
<1>3. NewState \in Process /\ NewState.staging = {} /\ NewState.pending = {} /\ NewState.mail = <<>>
  BY <1>2, SMTT(60) DEF NewState, Process
<1> QED  BY <1>1, <1>2, <1>3 DEF Orderly, Wanted

LEMMA InsertKeeps ==
  ASSUME IInv, NEW d \in Doc, Insert(d)
  PROVE  IInv'
<1> DEFINE v == [doc |-> d, validated |-> "no", stated |-> 0,
                 committed |-> FALSE, confirmed |-> FALSE, age |-> 0, sent |-> FALSE]
           n == Len(rows) + 1
<1>1. Appliance' /\ medium' = medium
  BY ApplianceStill DEF IInv, Insert
<1>2. /\ UNCHANGED <<live, up, down, handler, registered>> /\ checked' \subseteq checked
      /\ rows' = Append(rows, v)
  BY DEF Insert, wire
<1>3. v \in VersionRow /\ v.validated = "no" /\ ~v.committed /\ ~v.confirmed
  BY NumberAssumption, SMTT(60) DEF VersionRow, Generations
<1>4. rows \in Seq(VersionRow)
  BY DEF IInv, Types
<1> HIDE DEF v
<1>5. /\ rows' \in Seq(VersionRow) /\ DOMAIN rows = 1 .. Len(rows) /\ Len(rows) \in Nat
      /\ DOMAIN rows' = 1 .. Len(rows) + 1 /\ rows'[n] = v
      /\ \A k \in DOMAIN rows : k \in DOMAIN rows' /\ rows'[k] = rows[k]
  <2> DEFINE r == Append(rows, v)
  <2>1. /\ r \in Seq(VersionRow) /\ DOMAIN rows = 1 .. Len(rows) /\ Len(rows) \in Nat
        /\ DOMAIN r = 1 .. Len(rows) + 1 /\ r[n] = v
        /\ \A k \in DOMAIN rows : k \in DOMAIN r /\ r[k] = rows[k]
    BY ONLY <1>3, <1>4, AppendRange, SMTT(60)
  <2>2. rows' = r
    BY <1>2
  <2> HIDE DEF r
  <2> QED  BY <2>1, <2>2
<1>6. \A k \in DOMAIN rows' : k \in DOMAIN rows \/ k = n
  BY <1>5, SMTT(60)
<1> HIDE DEF n
<1>7. Types' /\ Wire'
  BY <1>2, <1>5 DEF IInv, Types, Wire
<1>8. Asking'
  <2>1. Advances(rows, rows')
    BY <1>5 DEF Advances
  <2>2. \A e \in Conn : Quieter(up[e], down[e], up'[e], down'[e])
    BY <1>2 DEF Quieter
  <2>3. \A e \in Conn : handler'[e].pending \subseteq handler[e].pending
    BY <1>2
  <2> QED  BY <1>1, <2>1, <2>2, <2>3, StillAsking DEF Asking
<1>9. Post'
  BY <1>2, <1>5 DEF IInv, Post
<1>10. Recorded'
  BY <1>1, <1>3, <1>5, <1>6 DEF IInv, Recorded
<1> QED  BY <1>1, <1>7, <1>8, <1>9, <1>10 DEF IInv

\* A step of one handler.
LEMMA HandlerSide ==
  ASSUME IInv, Appliance', medium' = medium, UNCHANGED <<live, checked>>,
         NEW c \in Conn, NEW g \in Process, handler' = [handler EXCEPT ![c] = g],
         Orderly(g), Wanted(g) \subseteq Wanted(handler[c]),
         registered' \subseteq Conn, \A x, y \in registered' : x = y,
         rows' \in Seq(VersionRow), Advances(rows, rows'), Recorded',
         \A e \in Conn : \A i \in Wanted(handler'[e]) :
           i \in DOMAIN rows' /\ rows'[i].validated = "no",
         up' \in [Conn -> Seq(Reply)], down' \in [Conn -> Seq(Request)],
         \A e \in Conn : e \notin live => down'[e] = <<>>,
         \A e \in Conn : GreetsFirst(up'[e]),
         \A e \in Conn : e # c => Quieter(up[e], down[e], up'[e], down'[e]),
         Greeting(up'[c]) => Unasked(up'[c], down'[c]),
         \A p \in g.pending :
           /\ Decided(p[2])'
           /\ p[1] = "confirm" => Matches(up'[c], down'[c], rows'[p[2]].stated, medium')
  PROVE  IInv'
<1>1. handler \in [Conn -> Process]
  BY DEF IInv, Types
<1>2. /\ handler' \in [Conn -> Process] /\ handler'[c] = g
      /\ \A e \in Conn : e # c => handler'[e] = handler[e]
  BY <1>1
<1>3. Types'
  BY <1>2 DEF IInv, Types
<1>4. Wire'
  <2>1. \A e \in Conn : e # c /\ Greeting(up'[e]) => Unasked(up'[e], down'[e])
    BY StillUnasked DEF IInv, Wire
  <2> QED  BY <2>1 DEF Wire
<1>5. Asking'
  <2>1. \A e \in Conn : e # c =>
          \A p \in handler'[e].pending :
            /\ Decided(p[2])'
            /\ p[1] = "confirm" => Matches(up'[e], down'[e], rows'[p[2]].stated, medium')
    BY <1>2, StillAsking
  <2> QED  BY <1>2, <2>1 DEF Asking
<1>6. Post'
  <2>1. \A e \in Conn : Orderly(handler[e])
    BY DEF IInv, Post
  <2>2. \A e \in Conn : Orderly(handler'[e]) /\ Wanted(handler'[e]) \subseteq Wanted(handler[e])
    BY <1>2, <2>1
  <2> QED  BY <2>2, StillWanted
<1> QED  BY <1>3, <1>4, <1>5, <1>6 DEF IInv

\* The same, of a step that leaves the versions and what is said alone.
LEMMA IdleSide ==
  ASSUME IInv, UNCHANGED appliance, UNCHANGED <<live, checked, rows>>,
         NEW c \in Conn, NEW g \in Process, handler' = [handler EXCEPT ![c] = g],
         Orderly(g), Wanted(g) \subseteq Wanted(handler[c]), g.pending \subseteq handler[c].pending,
         registered' \subseteq Conn, \A x, y \in registered' : x = y,
         up' \in [Conn -> Seq(Reply)], down' \in [Conn -> Seq(Request)],
         \A e \in Conn : e \notin live => down'[e] = <<>>,
         \A e \in Conn : GreetsFirst(up'[e]),
         \A e \in Conn : Quieter(up[e], down[e], up'[e], down'[e])
  PROVE  IInv'
<1>1. Appliance' /\ medium' = medium
  BY ApplianceStill DEF IInv
<1>2. rows' \in Seq(VersionRow) /\ Advances(rows, rows') /\ Recorded'
  BY <1>1 DEF IInv, Types, Advances, Recorded
<1>3. handler \in [Conn -> Process]
  BY DEF IInv, Types
<1>4. handler'[c] = g /\ \A e \in Conn : e # c => handler'[e] = handler[e]
  BY <1>3
<1>5. \A e \in Conn : \A i \in Wanted(handler'[e]) : i \in DOMAIN rows' /\ rows'[i].validated = "no"
  BY <1>4 DEF IInv, Post
<1>6. Greeting(up'[c]) => Unasked(up'[c], down'[c])
  BY StillUnasked DEF IInv, Wire
<1>7. \A p \in g.pending :
        /\ Decided(p[2])'
        /\ p[1] = "confirm" => Matches(up'[c], down'[c], rows'[p[2]].stated, medium')
  BY <1>1, <1>2, <1>4, StillAsking
<1> QED  BY <1>1, <1>2, <1>5, <1>6, <1>7, HandlerSide

LEMMA AcceptKeeps ==
  ASSUME IInv, NEW c \in Conn, Accept(c)
  PROVE  IInv'
<1>1. /\ UNCHANGED appliance /\ UNCHANGED <<live, up, down, checked, rows>>
      /\ handler' = [handler EXCEPT ![c] = NewState] /\ registered' = Registered(c)
  BY DEF Accept, wire
<1>2. registered' \subseteq Conn /\ \A x, y \in registered' : x = y
  BY <1>1 DEF Registered, IInv, Types
<1>3. \A e \in Conn : Quieter(up[e], down[e], up'[e], down'[e])
  BY <1>1 DEF Quieter
<1>4. /\ up' \in [Conn -> Seq(Reply)] /\ down' \in [Conn -> Seq(Request)]
      /\ \A e \in Conn : e \notin live => down'[e] = <<>>
      /\ \A e \in Conn : GreetsFirst(up'[e])
  BY <1>1 DEF IInv, Types, Wire
<1> QED  BY <1>1, <1>2, <1>3, <1>4, FreshProcess, IdleSide

LEMMA CloseKeeps ==
  ASSUME IInv, NEW c \in Conn, Close(c)
  PROVE  IInv'
<1> DEFINE z == <<>>
<1>1. /\ UNCHANGED appliance /\ UNCHANGED <<live, down, checked, rows>>
      /\ handler' = [handler EXCEPT ![c] = None] /\ registered' \subseteq registered
      /\ up' = [up EXCEPT ![c] = z]
  BY DEF Close
<1>2. registered' \subseteq Conn /\ \A x, y \in registered' : x = y
  BY <1>1 DEF IInv, Types
<1>3. z \in Seq(Reply) /\ Range(z) = {} /\ DOMAIN z = {}
  BY EmptyRange, SMTT(60)
<1>4. GreetsFirst(z)
  BY <1>3 DEF GreetsFirst
<1>5. up \in [Conn -> Seq(Reply)] /\ \A e \in Conn : GreetsFirst(up[e])
  BY DEF IInv, Types, Wire
<1> HIDE DEF z
<1>6. up' \in [Conn -> Seq(Reply)] /\ up'[c] = z /\ \A e \in Conn : e # c => up'[e] = up[e]
  BY <1>1, <1>3, <1>5
<1>7. \A e \in Conn : GreetsFirst(up'[e])
  BY <1>4, <1>5, <1>6
<1>8. \A e \in Conn : Quieter(up[e], down[e], up'[e], down'[e])
  BY <1>1, <1>3, <1>6 DEF Quieter
<1>9. down' \in [Conn -> Seq(Request)] /\ \A e \in Conn : e \notin live => down'[e] = <<>>
  BY <1>1 DEF IInv, Types, Wire
<1> QED  BY <1>1, <1>2, <1>6, <1>7, <1>8, <1>9, FreshProcess, IdleSide

LEMMA TakeMailKeeps ==
  ASSUME IInv, NEW c \in Conn, TakeMail(c)
  PROVE  IInv'
<1> DEFINE h == handler[c]
           i == Head(h.mail)
           one == [h EXCEPT !.mail = Tail(@)]
           two == [h EXCEPT !.mail = Tail(@), !.staging = {i}]
<1>1. /\ UNCHANGED appliance /\ UNCHANGED <<live, up, registered, checked, rows>> /\ h.mail # <<>>
  BY DEF TakeMail
<1>2. h \in Process /\ Orderly(h) /\ handler \in [Conn -> Process]
  BY DEF IInv, Types, Post
<1>3. \/ handler' = [handler EXCEPT ![c] = one] /\ down' = down
      \/ /\ h.staging = {} /\ handler' = [handler EXCEPT ![c] = two]
         /\ Send(c, [is |-> "stage", doc |-> rows[i].doc])
  BY <1>2 DEF TakeMail
<1> HIDE DEF i
<1>4. /\ one \in Process /\ Orderly(one) /\ Wanted(one) \subseteq Wanted(h)
      /\ one.pending = h.pending /\ i \in Wanted(h)
  BY <1>1, <1>2, TakenOrderly DEF i
<1>5. h.staging = {} =>
        /\ two \in Process /\ Orderly(two) /\ Wanted(two) \subseteq Wanted(h)
        /\ two.pending = h.pending
  BY <1>1, <1>2, TakenOrderly DEF i
<1> HIDE DEF one, two
<1>6. /\ up' \in [Conn -> Seq(Reply)] /\ \A e \in Conn : GreetsFirst(up'[e])
      /\ registered' \subseteq Conn /\ \A x, y \in registered' : x = y
  BY <1>1 DEF IInv, Types, Wire
<1>7. CASE handler' = [handler EXCEPT ![c] = one] /\ down' = down
  <2>1. \A e \in Conn : Quieter(up[e], down[e], up'[e], down'[e])
    BY <1>1, <1>7 DEF Quieter
  <2>2. down' \in [Conn -> Seq(Request)] /\ \A e \in Conn : e \notin live => down'[e] = <<>>
    BY <1>7 DEF IInv, Types, Wire
  <2>3. one.pending \subseteq h.pending
    BY <1>4
  <2> QED  BY <1>1, <1>4, <1>6, <1>7, <2>1, <2>2, <2>3, IdleSide
<1>8. CASE /\ h.staging = {} /\ handler' = [handler EXCEPT ![c] = two]
           /\ Send(c, [is |-> "stage", doc |-> rows[i].doc])
  <2> DEFINE frame == [is |-> "stage", doc |-> rows[i].doc]
  <2>1. i \in DOMAIN rows
    BY <1>4 DEF IInv, Post
  <2>2. rows[i] \in VersionRow
    BY <2>1, RowsTyped DEF IInv
  <2>3. frame \in Request /\ frame.is = "stage"
    BY <2>2 DEF VersionRow, Request
  <2>4. Send(c, frame)
    BY <1>8
  <2> HIDE DEF frame
  <2>5. /\ down' \in [Conn -> Seq(Request)] /\ \A e \in Conn : e \notin live => down'[e] = <<>>
        /\ \A e \in Conn : \A f \in Range(down'[e]) : f \in Range(down[e]) \/ f = frame
    BY <2>3, <2>4, SendSays
  <2>6. \A e \in Conn : Quieter(up[e], down[e], up'[e], down'[e])
    BY <1>1, <2>3, <2>5 DEF Quieter
  <2>7. two.pending \subseteq h.pending
    BY <1>5, <1>8
  <2> QED  BY <1>1, <1>5, <1>6, <1>8, <2>5, <2>6, <2>7, IdleSide
<1> QED  BY <1>3, <1>7, <1>8

\* A greeting is answered, and at most one confirmation asked for.
LEMMA GreetedKeeps ==
  ASSUME IInv, NEW c \in Conn, up[c] # <<>>, Head(up[c]).is = "hello", Greeted(c),
         up' = [up EXCEPT ![c] = Tail(@)], UNCHANGED appliance,
         UNCHANGED <<live, registered, checked, rows>>
  PROVE  IInv'
<1> DEFINE h == handler[c]
<1>1. /\ up' \in [Conn -> Seq(Reply)] /\ ~Greeting(up'[c])
      /\ \A e \in Conn : GreetsFirst(up'[e]) /\ Range(up'[e]) \subseteq Range(up[e])
      /\ Head(up[c]) \in Range(up[c])
  BY TakesOne
<1>2. h \in Process /\ Orderly(h) /\ handler \in [Conn -> Process]
  BY DEF IInv, Types, Post
<1>3. registered' \subseteq Conn /\ \A x, y \in registered' : x = y
  BY DEF IInv, Types
<1>4. CASE UNCHANGED <<down, handler>>
  <2>1. handler' = [handler EXCEPT ![c] = h]
    BY <1>2, <1>4
  <2>2. \A e \in Conn : Quieter(up[e], down[e], up'[e], down'[e])
    BY <1>1, <1>4 DEF Quieter
  <2>3. down' \in [Conn -> Seq(Request)] /\ \A e \in Conn : e \notin live => down'[e] = <<>>
    BY <1>4 DEF IInv, Types, Wire
  <2> QED  BY <1>1, <1>2, <1>3, <2>1, <2>2, <2>3, IdleSide
<1>5. ASSUME NEW i \in AwaitingConfirmation,
             Send(c, [is |-> "confirm", generation |-> rows[i].stated]),
             handler' = [handler EXCEPT ![c].pending = {<<"confirm", i>>}]
      PROVE  IInv'
  <2> DEFINE s == rows[i].stated
             frame == [is |-> "confirm", generation |-> s]
             w == {<<"confirm", i>>}
             g == [h EXCEPT !.pending = w]
  <2>1. i \in DOMAIN rows /\ rows[i].committed
    BY <1>5 DEF AwaitingConfirmation, Owed
  <2>2. rows[i] \in VersionRow /\ i \in Nat /\ rows[i].validated # "no"
    <3>1. DOMAIN rows = 1 .. Len(rows) /\ \A k \in DOMAIN rows : rows[k] \in VersionRow
      BY RowsTyped DEF IInv
    <3>2. i \in Nat
      BY <2>1, <3>1, SMTT(60)
    <3> QED  BY <2>1, <3>1, <3>2 DEF IInv, Recorded
  <2>3. s \in Generations
    BY <2>2 DEF VersionRow
  <2>4. Send(c, frame)
    BY <1>5
  <2> HIDE DEF s
  <2>5. frame \in Request /\ frame.is = "confirm" /\ frame.generation = s
    BY <2>3 DEF Request
  <2> HIDE DEF frame
  <2>6. /\ down' \in [Conn -> Seq(Request)] /\ \A e \in Conn : e \notin live => down'[e] = <<>>
        /\ \A e \in Conn : \A f \in Range(down'[e]) :
             f \in Range(down[e]) \/ (e = c /\ f = frame)
    BY <2>4, <2>5, SendSays
  <2>7. \A e \in Conn : e # c => Quieter(up[e], down[e], up'[e], down'[e])
    BY <1>1, <2>6 DEF Quieter
  <2>8. w \in SUBSET ({"commit", "confirm"} \X Nat)
    BY <2>2, SMTT(60)
  <2>9. handler' = [handler EXCEPT ![c] = g]
    BY <1>2, <1>5
  <2>10. \A p \in w : p[1] = "confirm" /\ p[2] = i
    BY SMTT(60)
  <2> HIDE DEF w
  <2>11. g \in Process /\ g.pending = w /\ g.staging = h.staging /\ g.mail = h.mail
    BY <1>2, <2>8 DEF Process
  <2> HIDE DEF g
  <2>12. Orderly(g) /\ Wanted(g) = Wanted(h)
    BY <1>2, <2>11 DEF Orderly, Wanted
  <2>13. Appliance' /\ medium' = medium
    BY ApplianceStill DEF IInv
  <2>14. rows' \in Seq(VersionRow) /\ Advances(rows, rows') /\ Recorded'
    BY <2>13 DEF IInv, Types, Advances, Recorded
  <2>15. \A e \in Conn : \A k \in Wanted(handler'[e]) :
           k \in DOMAIN rows' /\ rows'[k].validated = "no"
    <3>1. handler'[c] = g /\ \A e \in Conn : e # c => handler'[e] = handler[e]
      BY <1>2, <2>9
    <3> QED  BY <2>12, <3>1 DEF IInv, Post
  <2>16. Unasked(up[c], down[c])
    BY <1>1 DEF IInv, Wire, Greeting
  <2>17. Matches(up'[c], down'[c], s, medium')
    BY <1>1, <2>5, <2>6, <2>16 DEF Matches, Unasked
  <2>18. Decided(i)' /\ rows'[i].stated = s
    BY <2>1, <2>2 DEF Decided, s
  <2>19. \A p \in g.pending :
           /\ Decided(p[2])'
           /\ p[1] = "confirm" => Matches(up'[c], down'[c], rows'[p[2]].stated, medium')
    BY <2>10, <2>11, <2>17, <2>18
  <2> QED  BY <1>1, <1>3, <2>6, <2>7, <2>9, <2>11, <2>12, <2>13, <2>14, <2>15, <2>19, HandlerSide
<1> QED  BY <1>4, <1>5 DEF Greeted

\* A change to what is recorded of one version.
LEMMA RowChanged ==
  ASSUME Types, NEW i \in DOMAIN rows, NEW v \in VersionRow, rows' = [rows EXCEPT ![i] = v]
  PROVE  /\ rows' \in Seq(VersionRow) /\ DOMAIN rows' = DOMAIN rows /\ rows'[i] = v
         /\ \A k \in DOMAIN rows : k # i => rows'[k] = rows[k]
<1>1. rows \in Seq(VersionRow) /\ DOMAIN rows = 1 .. Len(rows) /\ Len(rows) \in Nat
  BY RowsTyped DEF Types
<1> DEFINE t == [rows EXCEPT ![i] = v]
<1>2. DOMAIN t = DOMAIN rows /\ t[i] = v /\ \A k \in DOMAIN rows : k # i => t[k] = rows[k]
  OBVIOUS
<1>3. t \in Seq(VersionRow)
  BY ONLY <1>1, i \in DOMAIN rows, v \in VersionRow, SMTT(60)
<1>4. rows' = t
  OBVIOUS
<1> HIDE DEF t
<1> QED  BY <1>2, <1>3, <1>4

\* A version is sent to the registered session.
LEMMA AskKeeps ==
  ASSUME IInv, Unsent, NEW n, AskSession(n)
  PROVE  IInv'
<1> DEFINE v == [rows[n] EXCEPT !.sent = TRUE]
<1>1. Appliance' /\ medium' = medium
  BY ApplianceStill DEF IInv, AskSession
<1>2. /\ UNCHANGED <<live, up, down, registered, checked>>
      /\ n \in DOMAIN rows /\ handler' = Mailed(n)
  BY DEF AskSession, wire
<1>3. rows[n] \in VersionRow /\ n \in Nat
  <2>1. DOMAIN rows = 1 .. Len(rows) /\ \A k \in DOMAIN rows : rows[k] \in VersionRow
    BY RowsTyped DEF IInv
  <2> QED  BY <1>2, <2>1, SMTT(60)
<1>4. /\ v \in VersionRow /\ v.validated = rows[n].validated /\ v.stated = rows[n].stated
      /\ v.committed = rows[n].committed /\ v.confirmed = rows[n].confirmed
  BY <1>3 DEF VersionRow
<1>5. rows' = [rows EXCEPT ![n] = v]
  BY <1>2 DEF AskSession
<1> HIDE DEF v
<1>6. /\ rows' \in Seq(VersionRow) /\ DOMAIN rows' = DOMAIN rows
      /\ \A k \in DOMAIN rows :
           /\ rows'[k].validated = rows[k].validated /\ rows'[k].stated = rows[k].stated
           /\ rows'[k].committed = rows[k].committed /\ rows'[k].confirmed = rows[k].confirmed
  BY <1>2, <1>4, <1>5, RowChanged DEF IInv
<1>7. handler \in [Conn -> Process] /\ registered \subseteq Conn /\ \A x, y \in registered : x = y
  BY DEF IInv, Types
<1>8. ASSUME NEW c \in Conn
      PROVE  /\ handler'[c] \in Process /\ Orderly(handler'[c])
             /\ handler'[c].pending = handler[c].pending
             /\ Wanted(handler'[c]) = IF c \in registered THEN Wanted(handler[c]) \cup {n}
                                                          ELSE Wanted(handler[c])
  <2> DEFINE h == handler[c]
             g == handler'[c]
  <2>1. h \in Process /\ Orderly(h) /\ n \notin Wanted(h)
    BY <1>2, <1>7 DEF IInv, Post, Unsent, AskSession
  <2>2. g = IF c \in registered THEN [h EXCEPT !.mail = Append(@, n)] ELSE h
    BY <1>2 DEF Mailed
  <2> HIDE DEF h, g
  <2>3. CASE c \in registered
    <3>1. /\ g \in Process /\ Orderly(g) /\ Wanted(g) = Wanted(h) \cup {n}
          /\ g.pending = h.pending
      BY <1>3, <2>1, <2>2, <2>3, MailedOrderly
    <3> QED  BY <2>3, <3>1 DEF h, g
  <2>4. CASE c \notin registered
    BY <2>1, <2>2, <2>4 DEF h, g
  <2> QED  BY <2>3, <2>4
<1>9. Types'
  <2>1. handler' \in [Conn -> Process]
    BY <1>2, <1>8 DEF Mailed
  <2> QED  BY <1>2, <1>6, <2>1 DEF IInv, Types
<1>10. Wire'
  BY <1>2 DEF IInv, Wire
<1>11. Asking'
  <2>1. Advances(rows, rows')
    BY <1>6 DEF Advances
  <2>2. \A e \in Conn : Quieter(up[e], down[e], up'[e], down'[e])
    BY <1>2 DEF Quieter
  <2>3. \A e \in Conn : handler'[e].pending \subseteq handler[e].pending
    BY <1>8
  <2> QED  BY <1>1, <2>1, <2>2, <2>3, StillAsking DEF Asking
<1>12. Post'
  <2>1. \A c \in Conn : \A i \in Wanted(handler[c]) : i \in DOMAIN rows /\ rows[i].validated = "no"
    BY DEF IInv, Post
  <2>2. \A c \in Conn : \A i \in Wanted(handler'[c]) :
          i \in DOMAIN rows' /\ rows'[i].validated = "no"
    <3>1. \A c \in Conn : \A i \in Wanted(handler'[c]) : i \in Wanted(handler[c]) \/ i = n
      BY <1>8
    <3>2. n \in DOMAIN rows' /\ rows'[n].validated = "no"
      BY <1>2, <1>6 DEF Unsent, AskSession
    <3>3. \A i \in DOMAIN rows : i \in DOMAIN rows' /\ rows'[i].validated = rows[i].validated
      BY <1>6
    <3> QED  BY <2>1, <3>1, <3>2, <3>3
  <2>3. ASSUME NEW c \in Conn, NEW e \in Conn, NEW i \in Wanted(handler'[c]),
               i \in Wanted(handler'[e])
        PROVE  c = e
    <3>1. CASE i = n
      BY <1>2, <1>7, <1>8, <2>3, <3>1 DEF Unsent, AskSession
    <3>2. CASE i # n
      BY <1>8, <2>3, <3>2 DEF IInv, Post
    <3> QED  BY <3>1, <3>2
  <2> QED  BY <1>8, <2>2, <2>3 DEF Post
<1>13. Recorded'
  BY <1>1, <1>6 DEF IInv, Recorded
<1> QED  BY <1>1, <1>9, <1>10, <1>11, <1>12, <1>13 DEF IInv

\* The verdict on the version a handler staged.
LEMMA ValidatedKeeps ==
  ASSUME IInv, NEW c \in Conn, up[c] # <<>>, NEW i \in handler[c].staging,
         Head(up[c]).is # "hello", Validated(c, i, Head(up[c])),
         up' = [up EXCEPT ![c] = Tail(@)], UNCHANGED appliance,
         UNCHANGED <<live, registered, checked>>
  PROVE  IInv'
<1> DEFINE h == handler[c]
           l == Head(up[c])
           verdict == IF l.is = "staged" THEN "accepted" ELSE "refused"
           v == [rows[i] EXCEPT !.validated = verdict, !.stated = l.generation]
<1>1. /\ up' \in [Conn -> Seq(Reply)] /\ ~Greeting(up'[c]) /\ l \in Reply
      /\ \A e \in Conn : GreetsFirst(up'[e]) /\ Range(up'[e]) \subseteq Range(up[e])
  BY TakesOne
<1>2. h \in Process /\ Orderly(h) /\ handler \in [Conn -> Process]
  BY DEF IInv, Types, Post
<1>3. registered' \subseteq Conn /\ \A x, y \in registered' : x = y
  BY DEF IInv, Types
<1>4. i \in Wanted(h) /\ i \in DOMAIN rows /\ rows[i].validated = "no"
  BY DEF IInv, Post, Wanted
<1>5. rows[i] \in VersionRow /\ i \in Nat /\ ~rows[i].committed /\ ~rows[i].confirmed
  <2>1. DOMAIN rows = 1 .. Len(rows) /\ \A k \in DOMAIN rows : rows[k] \in VersionRow
    BY RowsTyped DEF IInv
  <2>2. i \in Nat
    BY <1>4, <2>1, SMTT(60)
  <2> QED  BY <1>4, <2>1, <2>2 DEF IInv, Recorded
<1>6. l.generation \in Generations
  BY <1>1 DEF Reply, Answers
<1>7. rows' = [rows EXCEPT ![i] = v]
  BY <1>4, <1>5 DEF Validated
<1>8. verdict \in {"no", "accepted", "refused"} /\ verdict # "no"
  OBVIOUS
<1>9. \/ /\ Send(c, [is |-> "commit", generation |-> l.generation])
         /\ handler' = [handler EXCEPT ![c].staging = {}, ![c].pending = {<<"commit", i>>}]
      \/ handler' = [handler EXCEPT ![c].staging = {}] /\ down' = down
  BY DEF Validated
<1> HIDE DEF verdict, l
<1>10. /\ v \in VersionRow /\ v.validated # "no"
       /\ v.committed = rows[i].committed /\ v.confirmed = rows[i].confirmed
  BY <1>5, <1>6, <1>8 DEF VersionRow
<1> HIDE DEF v
<1>11. /\ rows' \in Seq(VersionRow) /\ DOMAIN rows' = DOMAIN rows /\ rows'[i] = v
       /\ \A k \in DOMAIN rows : k # i => rows'[k] = rows[k]
  BY <1>4, <1>7, <1>10, RowChanged DEF IInv
<1>12. Appliance' /\ medium' = medium
  BY ApplianceStill DEF IInv
<1>13. Advances(rows, rows')
  BY <1>4, <1>11 DEF Advances
<1>14. Recorded'
  BY <1>5, <1>10, <1>11, <1>12 DEF IInv, Recorded
<1>15. ASSUME NEW g \in Process, handler' = [handler EXCEPT ![c] = g],
              g.staging = {}, g.mail = h.mail
       PROVE  /\ Orderly(g) /\ Wanted(g) \subseteq Wanted(h)
              /\ \A e \in Conn : \A k \in Wanted(handler'[e]) :
                   k \in DOMAIN rows' /\ rows'[k].validated = "no"
  <2>1. handler'[c] = g /\ \A e \in Conn : e # c => handler'[e] = handler[e]
    BY <1>2, <1>15
  <2>2. Orderly(g) /\ Wanted(g) \subseteq Wanted(h) /\ i \notin Wanted(g)
    BY <1>2, <1>15 DEF Orderly, Wanted
  <2>3. \A e \in Conn : i \notin Wanted(handler'[e])
    BY <1>4, <2>1, <2>2 DEF IInv, Post
  <2>4. \A e \in Conn : Wanted(handler'[e]) \subseteq Wanted(handler[e])
    BY <2>1, <2>2
  <2> QED  BY <1>11, <2>2, <2>3, <2>4 DEF IInv, Post
<1>16. CASE handler' = [handler EXCEPT ![c].staging = {}] /\ down' = down
  <2> DEFINE z == {}
             g == [h EXCEPT !.staging = z]
  <2>1. handler' = [handler EXCEPT ![c] = g] /\ z \in SUBSET Nat
    BY <1>2, <1>16
  <2>2. z = {}
    OBVIOUS
  <2> HIDE DEF z
  <2>3. g \in Process /\ g.staging = {} /\ g.mail = h.mail /\ g.pending = h.pending
    BY <1>2, <2>1, <2>2 DEF Process
  <2> HIDE DEF g
  <2>4. /\ Orderly(g) /\ Wanted(g) \subseteq Wanted(h)
        /\ \A e \in Conn : \A k \in Wanted(handler'[e]) :
             k \in DOMAIN rows' /\ rows'[k].validated = "no"
    BY <1>15, <2>1, <2>3
  <2>5. \A e \in Conn : Quieter(up[e], down[e], up'[e], down'[e])
    BY <1>1, <1>16 DEF Quieter
  <2>6. down' \in [Conn -> Seq(Request)] /\ \A e \in Conn : e \notin live => down'[e] = <<>>
    BY <1>16 DEF IInv, Types, Wire
  <2>7. handler'[c] = g
    BY <1>2, <2>1
  <2>8. \A p \in g.pending :
          /\ Decided(p[2])'
          /\ p[1] = "confirm" => Matches(up'[c], down'[c], rows'[p[2]].stated, medium')
    BY <1>12, <1>13, <2>3, <2>5, <2>7, StillAsking
  <2> QED  BY <1>1, <1>3, <1>11, <1>12, <1>13, <1>14, <2>1, <2>3, <2>4, <2>5, <2>6, <2>8, HandlerSide
<1>17. CASE /\ Send(c, [is |-> "commit", generation |-> l.generation])
            /\ handler' = [handler EXCEPT ![c].staging = {}, ![c].pending = {<<"commit", i>>}]
  <2> DEFINE frame == [is |-> "commit", generation |-> l.generation]
             z == {}
             w == {<<"commit", i>>}
             g == [h EXCEPT !.staging = z, !.pending = w]
  <2>10. w \in SUBSET ({"commit", "confirm"} \X Nat) /\ \A p \in w : p[1] # "confirm" /\ p[2] = i
    BY <1>5, SMTT(60)
  <2>1. handler' = [handler EXCEPT ![c] = g] /\ z \in SUBSET Nat
    BY <1>2, <1>17
  <2>2. z = {}
    OBVIOUS
  <2>3. frame \in Request /\ frame.is = "commit" /\ Send(c, frame)
    BY <1>6, <1>17 DEF Request
  <2> HIDE DEF z, w, frame
  <2>4. g \in Process /\ g.staging = {} /\ g.mail = h.mail /\ g.pending = w
    BY <1>2, <2>1, <2>2, <2>10 DEF Process
  <2> HIDE DEF g
  <2>5. /\ Orderly(g) /\ Wanted(g) \subseteq Wanted(h)
        /\ \A e \in Conn : \A k \in Wanted(handler'[e]) :
             k \in DOMAIN rows' /\ rows'[k].validated = "no"
    BY <1>15, <2>1, <2>4
  <2>6. /\ down' \in [Conn -> Seq(Request)] /\ \A e \in Conn : e \notin live => down'[e] = <<>>
        /\ \A e \in Conn : \A f \in Range(down'[e]) : f \in Range(down[e]) \/ f = frame
    BY <2>3, SendSays
  <2>7. \A e \in Conn : Quieter(up[e], down[e], up'[e], down'[e])
    BY <1>1, <2>3, <2>6 DEF Quieter
  <2>8. Decided(i)'
    BY <1>4, <1>10, <1>11 DEF Decided
  <2>9. \A p \in g.pending :
          /\ Decided(p[2])'
          /\ p[1] = "confirm" => Matches(up'[c], down'[c], rows'[p[2]].stated, medium')
    BY <2>10, <2>4, <2>8
  <2> QED  BY <1>1, <1>3, <1>11, <1>12, <1>13, <1>14, <2>1, <2>4, <2>5, <2>6, <2>7, <2>9, HandlerSide
<1> QED  BY <1>9, <1>16, <1>17

LEMMA OneMark ==
  ASSUME NEW r \in VersionRow
  PROVE  /\ LET v == [r EXCEPT !.committed = TRUE, !.age = 0]
            IN  /\ v \in VersionRow /\ v.validated = r.validated /\ v.stated = r.stated
                /\ v.confirmed = r.confirmed
         /\ LET v == [r EXCEPT !.confirmed = TRUE]
            IN  /\ v \in VersionRow /\ v.validated = r.validated /\ v.stated = r.stated
                /\ v.committed = r.committed
<1>1. ASSUME NEW b \in BOOLEAN, NEW n \in Nat
      PROVE  /\ LET v == [r EXCEPT !.committed = b, !.age = n]
                IN  /\ v \in VersionRow /\ v.validated = r.validated /\ v.stated = r.stated
                    /\ v.confirmed = r.confirmed
             /\ LET v == [r EXCEPT !.confirmed = b]
                IN  /\ v \in VersionRow /\ v.validated = r.validated /\ v.stated = r.stated
                    /\ v.committed = r.committed
  BY DEF VersionRow
<1>2. TRUE \in BOOLEAN
  OBVIOUS
<1>3. 0 \in Nat
  BY SMTT(60)
<1> QED  BY <1>1, <1>2, <1>3

\* The outcome of what a handler asked for.
LEMMA SettledKeeps ==
  ASSUME IInv, NEW c \in Conn, up[c] # <<>>, NEW p \in handler[c].pending,
         Settled(c, p[1], p[2], Head(up[c])),
         up' = [up EXCEPT ![c] = Tail(@)], UNCHANGED appliance,
         UNCHANGED <<live, registered, checked>>
  PROVE  IInv'
<1> DEFINE h == handler[c]
           l == Head(up[c])
           i == p[2]
           z == {}
           g == [h EXCEPT !.pending = z]
<1>1. /\ up' \in [Conn -> Seq(Reply)] /\ ~Greeting(up'[c]) /\ l \in Range(up[c])
      /\ \A e \in Conn : GreetsFirst(up'[e]) /\ Range(up'[e]) \subseteq Range(up[e])
  BY TakesOne
<1>2. h \in Process /\ Orderly(h) /\ handler \in [Conn -> Process]
  BY DEF IInv, Types, Post
<1>3. registered' \subseteq Conn /\ \A x, y \in registered' : x = y
  BY DEF IInv, Types
<1>4. /\ i \in DOMAIN rows /\ rows[i].validated # "no"
      /\ p[1] = "confirm" => Matches(up[c], down[c], rows[i].stated, medium)
  BY DEF IInv, Asking, Decided
<1>5. rows[i] \in VersionRow
  BY <1>4, RowsTyped DEF IInv
<1>6. Appliance' /\ medium' = medium
  BY ApplianceStill DEF IInv
<1>7. handler' = [handler EXCEPT ![c] = g] /\ down' = down /\ z = {} /\ \A S : z \in SUBSET S
  BY <1>2 DEF Settled
<1>8. \/ rows' = rows
      \/ rows' = [rows EXCEPT ![i].committed = TRUE, ![i].age = 0]
      \/ /\ p[1] = "confirm" /\ l.is = "confirmed"
         /\ rows' = [rows EXCEPT ![i].confirmed = TRUE]
  BY DEF Settled
<1> HIDE DEF i, l, z
<1>9. /\ rows' \in Seq(VersionRow) /\ DOMAIN rows' = DOMAIN rows
      /\ \A k \in DOMAIN rows :
           /\ rows'[k].validated = rows[k].validated /\ rows'[k].stated = rows[k].stated
           /\ rows'[k].committed => rows[k].committed \/ k = i
           /\ rows'[k].confirmed =>
                \/ rows[k].confirmed
                \/ k = i /\ Covers(rows[k].stated, medium)
  <2>1. CASE rows' = rows
    BY <2>1 DEF IInv, Types
  <2>2. CASE rows' = [rows EXCEPT ![i].committed = TRUE, ![i].age = 0]
    <3> DEFINE v == [rows[i] EXCEPT !.committed = TRUE, !.age = 0]
    <3>1. /\ v \in VersionRow /\ v.validated = rows[i].validated /\ v.stated = rows[i].stated
          /\ v.confirmed = rows[i].confirmed
      BY <1>5, OneMark
    <3>2. rows' = [rows EXCEPT ![i] = v]
      BY <1>4, <2>2
    <3> HIDE DEF v
    <3>3. /\ rows' \in Seq(VersionRow) /\ DOMAIN rows' = DOMAIN rows /\ rows'[i] = v
          /\ \A k \in DOMAIN rows : k # i => rows'[k] = rows[k]
      BY <1>4, <3>1, <3>2, RowChanged DEF IInv
    <3> QED  BY <3>1, <3>3
  <2>3. CASE /\ p[1] = "confirm" /\ l.is = "confirmed"
             /\ rows' = [rows EXCEPT ![i].confirmed = TRUE]
    <3> DEFINE v == [rows[i] EXCEPT !.confirmed = TRUE]
    <3>1. /\ v \in VersionRow /\ v.validated = rows[i].validated /\ v.stated = rows[i].stated
          /\ v.committed = rows[i].committed
      BY <1>5, OneMark
    <3>2. rows' = [rows EXCEPT ![i] = v]
      BY <1>4, <2>3
    <3> HIDE DEF v
    <3>3. /\ rows' \in Seq(VersionRow) /\ DOMAIN rows' = DOMAIN rows /\ rows'[i] = v
          /\ \A k \in DOMAIN rows : k # i => rows'[k] = rows[k]
      BY <1>4, <3>1, <3>2, RowChanged DEF IInv
    <3>4. Covers(rows[i].stated, medium)
      BY <1>1, <1>4, <2>3 DEF Matches
    <3> QED  BY <3>1, <3>3, <3>4
  <2> QED  BY <1>8, <2>1, <2>2, <2>3
<1>10. Advances(rows, rows')
  BY <1>9 DEF Advances
<1>11. Recorded'
  BY <1>4, <1>6, <1>9 DEF IInv, Recorded
<1>12. g \in Process /\ g.pending = {} /\ g.staging = h.staging /\ g.mail = h.mail
  BY <1>2, <1>7 DEF Process
<1> HIDE DEF g
<1>13. Orderly(g) /\ Wanted(g) = Wanted(h)
  BY <1>2, <1>12 DEF Orderly, Wanted
<1>14. \A e \in Conn : \A k \in Wanted(handler'[e]) :
         k \in DOMAIN rows' /\ rows'[k].validated = "no"
  <2>1. handler'[c] = g /\ \A e \in Conn : e # c => handler'[e] = handler[e]
    BY <1>2, <1>7
  <2>2. \A e \in Conn : \A k \in Wanted(handler'[e]) : k \in Wanted(handler[e])
    BY <1>13, <2>1
  <2> QED  BY <1>9, <2>2 DEF IInv, Post
<1>15. \A e \in Conn : Quieter(up[e], down[e], up'[e], down'[e])
  BY <1>1, <1>7 DEF Quieter
<1>16. down' \in [Conn -> Seq(Request)] /\ \A e \in Conn : e \notin live => down'[e] = <<>>
  BY <1>7 DEF IInv, Types, Wire
<1> QED  BY <1>1, <1>3, <1>6, <1>7, <1>9, <1>10, <1>11, <1>12, <1>13, <1>14, <1>15, <1>16, HandlerSide

LEMMA ReceiveKeeps ==
  ASSUME IInv, NEW c \in Conn, Receive(c)
  PROVE  IInv'
<1>1. /\ up[c] # <<>> /\ up' = [up EXCEPT ![c] = Tail(@)] /\ UNCHANGED appliance
      /\ UNCHANGED <<live, registered, checked>>
  BY DEF Receive
<1>2. CASE Head(up[c]).is = "hello" /\ Greeted(c) /\ rows' = rows
  BY <1>1, <1>2, GreetedKeeps
<1>3. CASE Head(up[c]).is # "hello" /\ \E i \in handler[c].staging : Validated(c, i, Head(up[c]))
  BY <1>1, <1>3, ValidatedKeeps
<1>4. CASE \E p \in handler[c].pending : Settled(c, p[1], p[2], Head(up[c]))
  BY <1>1, <1>4, SettledKeeps
<1>5. CASE UNCHANGED <<rows, handler, down>>
  <2> DEFINE h == handler[c]
  <2>1. /\ up' \in [Conn -> Seq(Reply)]
        /\ \A e \in Conn : GreetsFirst(up'[e]) /\ Range(up'[e]) \subseteq Range(up[e])
    BY <1>1, TakesOne
  <2>2. h \in Process /\ Orderly(h) /\ handler \in [Conn -> Process]
    BY DEF IInv, Types, Post
  <2>3. handler' = [handler EXCEPT ![c] = h]
    BY <1>5, <2>2
  <2>4. \A e \in Conn : Quieter(up[e], down[e], up'[e], down'[e])
    BY <1>5, <2>1 DEF Quieter
  <2>5. /\ down' \in [Conn -> Seq(Request)] /\ \A e \in Conn : e \notin live => down'[e] = <<>>
        /\ registered' \subseteq Conn /\ \A x, y \in registered' : x = y
    BY <1>1, <1>5 DEF IInv, Types, Wire
  <2> QED  BY <1>1, <1>5, <2>1, <2>2, <2>3, <2>4, <2>5, IdleSide
<1> QED  BY <1>2, <1>3, <1>4, <1>5 DEF Receive

-----------------------------------------------------------------------------
(* What the server may believe *)

LEMMA InitIInv == TransactionInit => IInv
<1> SUFFICES ASSUME TransactionInit PROVE IInv
  OBVIOUS
<1> USE DEF TransactionInit
<1>1. Appliance
  <2>1. ApplianceInv
    BY InitAppliance
  <2>2. displaced = {}
    BY SMTT(60) DEF Init, D!Init
  <2> QED  BY <2>1, <2>2 DEF Appliance, UnderItsNumber
<1>2. \A S : <<>> \in Seq(S) /\ DOMAIN <<>> = {} /\ Range(<<>>) = {}
  BY EmptyRange, SMTT(60)
<1>3. Types
  BY <1>2, FreshProcess DEF Types
<1>4. Wire
  BY <1>2 DEF Wire, GreetsFirst, Greeting
<1>5. Asking
  BY FreshProcess DEF Asking
<1>6. Post
  BY FreshProcess DEF Post
<1>7. Recorded
  BY <1>2 DEF Recorded
<1> QED  BY <1>1, <1>3, <1>4, <1>5, <1>6, <1>7 DEF IInv

\* A version that is mailed has been sent: it stays so while mailboxes only
\* empty and only what was sent is decided.
LEMMA StillUnsent ==
  ASSUME Unsent, DOMAIN rows' = DOMAIN rows,
         \A i \in DOMAIN rows :
           ~rows'[i].sent => ~rows[i].sent /\ rows'[i].validated = rows[i].validated,
         \A c \in Conn : \A i \in DOMAIN rows :
           i \in Wanted(handler'[c]) => i \in Wanted(handler[c]) \/ rows'[i].sent
  PROVE  Unsent'
  BY DEF Unsent

LEMMA SameRowsUnsent ==
  ASSUME Unsent, rows' = rows,
         \A c \in Conn : Wanted(handler'[c]) \subseteq Wanted(handler[c])
  PROVE  Unsent'
  BY DEF Unsent

LEMMA LessWork ==
  ASSUME IInv, NEW c \in Conn, NEW g, handler' = [handler EXCEPT ![c] = g],
         Wanted(g) \subseteq Wanted(handler[c])
  PROVE  \A e \in Conn : Wanted(handler'[e]) \subseteq Wanted(handler[e])
<1>1. handler \in [Conn -> Process]
  BY DEF IInv, Types
<1>2. handler'[c] = g /\ \A e \in Conn : e # c => handler'[e] = handler[e]
  BY <1>1
<1> QED  BY <1>2

LEMMA OtherWork ==
  ASSUME IInv, NEW c \in Conn, NEW x,
         \/ handler' = [handler EXCEPT ![c].is = x]
         \/ handler' = [handler EXCEPT ![c].pending = x]
         \/ handler' = [handler EXCEPT ![c].staging = {}]
         \/ handler' = [handler EXCEPT ![c].staging = {}, ![c].pending = x]
  PROVE  \A e \in Conn : Wanted(handler'[e]) \subseteq Wanted(handler[e])
<1> DEFINE h == handler[c]
<1>1. h \in Process /\ handler \in [Conn -> Process]
  BY DEF IInv, Types
<1>2. CASE handler' = [handler EXCEPT ![c].is = x]
  <2> DEFINE g == [h EXCEPT !.is = x]
  <2>1. g.staging = h.staging /\ g.mail = h.mail /\ handler' = [handler EXCEPT ![c] = g]
    BY <1>1, <1>2 DEF Process
  <2> HIDE DEF g
  <2>2. Wanted(g) \subseteq Wanted(h)
    BY <2>1 DEF Wanted
  <2> QED  BY <2>1, <2>2, LessWork
<1>3. CASE handler' = [handler EXCEPT ![c].pending = x]
  <2> DEFINE g == [h EXCEPT !.pending = x]
  <2>1. g.staging = h.staging /\ g.mail = h.mail /\ handler' = [handler EXCEPT ![c] = g]
    BY <1>1, <1>3 DEF Process
  <2> HIDE DEF g
  <2>2. Wanted(g) \subseteq Wanted(h)
    BY <2>1 DEF Wanted
  <2> QED  BY <2>1, <2>2, LessWork
<1> DEFINE z == {}
<1>4. CASE handler' = [handler EXCEPT ![c].staging = z]
  <2> DEFINE g == [h EXCEPT !.staging = z]
  <2>1. g.staging = z /\ g.mail = h.mail /\ handler' = [handler EXCEPT ![c] = g]
    BY <1>1, <1>4 DEF Process
  <2> HIDE DEF g
  <2>2. Wanted(g) \subseteq Wanted(h)
    BY <2>1 DEF Wanted
  <2> QED  BY <2>1, <2>2, LessWork
<1>5. CASE handler' = [handler EXCEPT ![c].staging = z, ![c].pending = x]
  <2> DEFINE g == [h EXCEPT !.staging = z, !.pending = x]
  <2>1. g.staging = z /\ g.mail = h.mail /\ handler' = [handler EXCEPT ![c] = g]
    BY <1>1, <1>5 DEF Process
  <2> HIDE DEF g
  <2>2. Wanted(g) \subseteq Wanted(h)
    BY <2>1 DEF Wanted
  <2> QED  BY <2>1, <2>2, LessWork
<1> QED  BY <1>2, <1>3, <1>4, <1>5

LEMMA ApplianceUnsent ==
  ASSUME IInv, Unsent,
         \/ \E c \in Conn : Dial(c) \/ ReadFrame(c)
         \/ Continue \/ EndTurn \/ Break \/ Restart
  PROVE  Unsent'
<1>1. rows' = rows
  BY DEF Dial, ReadFrame, Continue, EndTurn, Break, Restart, server
<1>2. CASE handler' = handler
  BY <1>1, <1>2, SameRowsUnsent
<1>3. ASSUME NEW c \in Conn, Dial(c) PROVE Unsent'
  <2>1. handler' = [handler EXCEPT ![c].is = "dialled"]
    BY <1>3 DEF Dial
  <2> QED  BY <1>1, <2>1, OtherWork, SameRowsUnsent
<1>4. CASE Dropped(up)
  <2>1. CASE live = {}
    BY <1>2, <1>4, <2>1 DEF Dropped
  <2>2. CASE live # {}
    <3>1. PICK c \in live : TRUE
      BY <2>2
    <3>2. c \in Conn
      BY <3>1 DEF IInv, Types
    <3>3. \E x : handler' = [handler EXCEPT ![c].is = x]
      BY <1>4, <3>1 DEF Dropped
    <3> QED  BY <1>1, <3>2, <3>3, OtherWork, SameRowsUnsent
  <2> QED  BY <2>1, <2>2
<1> QED  BY <1>2, <1>3, <1>4 DEF ReadFrame, Continue, EndTurn, Break, Restart, Carry, server

LEMMA OperatorUnsent ==
  ASSUME IInv, Unsent,
         \/ Second
         \/ \E d \in Doc : Check(d) \/ Insert(d)
         \/ \E n \in 1 .. MaxRows : AskSession(n)
  PROVE  Unsent'
<1>1. CASE Second
  <2>1. handler' = handler /\ rows' = Aged
    BY <1>1 DEF Second
  <2>2. /\ DOMAIN rows' = DOMAIN rows
        /\ \A i \in DOMAIN rows :
             rows'[i].sent = rows[i].sent /\ rows'[i].validated = rows[i].validated
    BY <2>1, AgedRows DEF IInv
  <2> QED  BY <2>1, <2>2, StillUnsent
<1>2. ASSUME NEW d \in Doc, Check(d) PROVE Unsent'
  BY <1>2, SameRowsUnsent DEF Check
<1>3. ASSUME NEW d \in Doc, Insert(d) PROVE Unsent'
  <2> DEFINE v == [doc |-> d, validated |-> "no", stated |-> 0,
                   committed |-> FALSE, confirmed |-> FALSE, age |-> 0, sent |-> FALSE]
             r == Append(rows, v)
             n == Len(rows) + 1
  <2>1. v \in VersionRow /\ v.validated = "no"
    BY NumberAssumption, SMTT(60) DEF VersionRow, Generations
  <2>2. rows \in Seq(VersionRow) /\ rows' = r /\ handler' = handler
    BY <1>3 DEF IInv, Types, Insert
  <2> HIDE DEF v
  <2>3. /\ DOMAIN rows = 1 .. Len(rows) /\ Len(rows) \in Nat
        /\ DOMAIN r = 1 .. Len(rows) + 1 /\ r[n] = v
        /\ \A k \in DOMAIN rows : k \in DOMAIN r /\ r[k] = rows[k]
    BY ONLY <2>1, <2>2, AppendRange, SMTT(60)
  <2>4. n \notin DOMAIN rows /\ \A k \in DOMAIN r : k \in DOMAIN rows \/ k = n
    BY <2>3, SMTT(60)
  <2> HIDE DEF r, n
  <2>5. \A c \in Conn : n \notin Wanted(handler[c])
    BY <2>4 DEF IInv, Post
  <2> QED  BY <2>1, <2>2, <2>3, <2>4, <2>5 DEF Unsent
<1>4. ASSUME NEW n \in 1 .. MaxRows, AskSession(n) PROVE Unsent'
  <2> DEFINE v == [rows[n] EXCEPT !.sent = TRUE]
  <2>1. n \in DOMAIN rows /\ handler' = Mailed(n)
    BY <1>4 DEF AskSession
  <2>2. rows[n] \in VersionRow /\ n \in Nat
    <3>1. DOMAIN rows = 1 .. Len(rows) /\ \A k \in DOMAIN rows : rows[k] \in VersionRow
      BY RowsTyped DEF IInv
    <3> QED  BY <2>1, <3>1, SMTT(60)
  <2>3. v \in VersionRow /\ v.sent
    BY <2>2 DEF VersionRow
  <2>4. rows' = [rows EXCEPT ![n] = v]
    BY <1>4, <2>1 DEF AskSession
  <2> HIDE DEF v
  <2>5. /\ DOMAIN rows' = DOMAIN rows /\ rows'[n].sent
        /\ \A k \in DOMAIN rows : k # n => rows'[k] = rows[k]
    BY <2>1, <2>3, <2>4, RowChanged DEF IInv
  <2>6. ASSUME NEW c \in Conn PROVE Wanted(handler'[c]) \subseteq Wanted(handler[c]) \cup {n}
    <3> DEFINE h == handler[c]
               g == handler'[c]
    <3>1. h \in Process /\ Orderly(h) /\ n \notin Wanted(h)
      BY <2>1, <1>4 DEF IInv, Types, Post, Unsent, AskSession
    <3>2. g = IF c \in registered THEN [h EXCEPT !.mail = Append(@, n)] ELSE h
      BY <2>1 DEF Mailed
    <3> HIDE DEF h, g
    <3>3. c \in registered => Wanted(g) = Wanted(h) \cup {n}
      BY <2>2, <3>1, <3>2, MailedOrderly
    <3> QED  BY <3>2, <3>3 DEF h, g
  <2> QED  BY <2>5, <2>6, StillUnsent
<1> QED  BY <1>1, <1>2, <1>3, <1>4

LEMMA HandlerUnsent ==
  ASSUME IInv, Unsent, NEW c \in Conn,
         Accept(c) \/ TakeMail(c) \/ Receive(c) \/ Close(c)
  PROVE  Unsent'
<1> DEFINE h == handler[c]
           l == Head(up[c])
<1>1. CASE Accept(c) \/ Close(c)
  <2>1. rows' = rows /\ \E g \in {None, NewState} : handler' = [handler EXCEPT ![c] = g]
    BY <1>1 DEF Accept, Close
  <2> QED  BY <2>1, FreshProcess, LessWork, SameRowsUnsent
<1>2. CASE TakeMail(c)
  <2> DEFINE i == Head(h.mail)
             one == [h EXCEPT !.mail = Tail(@)]
             two == [h EXCEPT !.mail = Tail(@), !.staging = {i}]
  <2>1. h \in Process /\ Orderly(h) /\ handler \in [Conn -> Process] /\ h.mail # <<>>
    BY <1>2 DEF IInv, Types, Post, TakeMail
  <2>2. /\ rows' = rows
        /\ \/ handler' = [handler EXCEPT ![c] = one]
           \/ h.staging = {} /\ handler' = [handler EXCEPT ![c] = two]
    BY <1>2, <2>1 DEF TakeMail
  <2>3. Wanted(one) \subseteq Wanted(h) /\ (h.staging = {} => Wanted(two) \subseteq Wanted(h))
    BY <2>1, TakenOrderly
  <2> HIDE DEF one, two
  <2> QED  BY <2>2, <2>3, LessWork, SameRowsUnsent
<1>3. CASE rows' = rows /\ (Greeted(c) \/ handler' = handler)
  <2>1. handler' = handler \/ \E x : handler' = [handler EXCEPT ![c].pending = x]
    BY <1>3 DEF Greeted
  <2> QED  BY <1>3, <2>1, OtherWork, SameRowsUnsent
<1>4. ASSUME NEW i \in h.staging, Validated(c, i, l) PROVE Unsent'
  <2> DEFINE verdict == IF l.is = "staged" THEN "accepted" ELSE "refused"
             v == [rows[i] EXCEPT !.validated = verdict, !.stated = l.generation]
  <2>1. i \in DOMAIN rows /\ rows[i].sent
    BY DEF IInv, Post, Wanted, Unsent
  <2>2. rows[i] \in VersionRow
    BY <2>1, RowsTyped DEF IInv
  <2>3. rows' = [rows EXCEPT ![i] = v]
    BY <1>4, <2>1, <2>2 DEF Validated
  <2>4. v.sent = rows[i].sent
    <3> HIDE DEF verdict, l
    <3> QED  BY <2>2 DEF VersionRow
  <2> HIDE DEF v
  <2>5. /\ DOMAIN rows' = DOMAIN rows /\ rows'[i] = v
        /\ \A k \in DOMAIN rows : k # i => rows'[k] = rows[k]
    BY <2>1, <2>3
  <2>6. \/ handler' = [handler EXCEPT ![c].staging = {}]
        \/ \E x : handler' = [handler EXCEPT ![c].staging = {}, ![c].pending = x]
    BY <1>4 DEF Validated
  <2>7. \A e \in Conn : Wanted(handler'[e]) \subseteq Wanted(handler[e])
    BY <2>6, OtherWork
  <2> QED  BY <2>1, <2>4, <2>5, <2>7, StillUnsent
<1>5. ASSUME NEW p \in h.pending, Settled(c, p[1], p[2], l) PROVE Unsent'
  <2> DEFINE i == p[2]
  <2>1. i \in DOMAIN rows
    BY DEF IInv, Asking, Decided
  <2>2. rows[i] \in VersionRow
    BY <2>1, RowsTyped DEF IInv
  <2>3. /\ \E x : handler' = [handler EXCEPT ![c].pending = x]
        /\ \/ rows' = rows
           \/ rows' = [rows EXCEPT ![i].committed = TRUE, ![i].age = 0]
           \/ rows' = [rows EXCEPT ![i].confirmed = TRUE]
    BY <1>5 DEF Settled
  <2> HIDE DEF i
  <2>4. \A e \in Conn : Wanted(handler'[e]) \subseteq Wanted(handler[e])
    BY <2>3, OtherWork
  <2>5. ASSUME NEW v, rows' = [rows EXCEPT ![i] = v],
               v.sent = rows[i].sent /\ v.validated = rows[i].validated
        PROVE  Unsent'
    <3>1. /\ DOMAIN rows' = DOMAIN rows /\ rows'[i] = v
          /\ \A k \in DOMAIN rows : k # i => rows'[k] = rows[k]
      BY <2>1, <2>5
    <3> QED  BY <2>4, <2>5, <3>1, StillUnsent
  <2>6. CASE rows' = [rows EXCEPT ![i].committed = TRUE, ![i].age = 0]
    <3> DEFINE v == [rows[i] EXCEPT !.committed = TRUE, !.age = 0]
    <3>1. v.sent = rows[i].sent /\ v.validated = rows[i].validated
      BY <2>2 DEF VersionRow
    <3> QED  BY <2>1, <2>5, <2>6, <3>1
  <2>7. CASE rows' = [rows EXCEPT ![i].confirmed = TRUE]
    <3> DEFINE v == [rows[i] EXCEPT !.confirmed = TRUE]
    <3>1. v.sent = rows[i].sent /\ v.validated = rows[i].validated
      BY <2>2 DEF VersionRow
    <3> QED  BY <2>1, <2>5, <2>7, <3>1
  <2> QED  BY <2>3, <2>4, <2>6, <2>7, SameRowsUnsent
<1> QED  BY <1>1, <1>2, <1>3, <1>4, <1>5 DEF Receive

LEMMA InitUnsent == TransactionInit => Unsent
<1>1. DOMAIN <<>> = {}
  BY SMTT(60)
<1> QED  BY <1>1 DEF TransactionInit, Unsent

LEMMA NextUnsent == IInv /\ Unsent /\ [TransactionNext]_transactionVars => Unsent'
<1> SUFFICES ASSUME IInv, Unsent, [TransactionNext]_transactionVars PROVE Unsent'
  OBVIOUS
<1>1. CASE UNCHANGED transactionVars
  BY <1>1, SameRowsUnsent DEF transactionVars, server
<1>2. CASE TransactionNext
  BY <1>2, ApplianceUnsent, OperatorUnsent, HandlerUnsent DEF TransactionNext
<1> QED  BY <1>1, <1>2

LEMMA NextIInv == IInv /\ Unsent /\ [TransactionNext]_transactionVars => IInv'
<1> SUFFICES ASSUME IInv, Unsent, [TransactionNext]_transactionVars PROVE IInv'
  OBVIOUS
<1>1. CASE UNCHANGED transactionVars
  <2>1. UNCHANGED appliance /\ UNCHANGED <<live, up, down, handler, registered, checked, rows>>
    BY <1>1 DEF transactionVars, wire, server
  <2>2. Appliance' /\ medium' = medium
    BY <2>1, ApplianceStill DEF IInv
  <2>3. Types' /\ Wire' /\ Post' /\ Recorded'
    BY <2>1, <2>2 DEF IInv, Types, Wire, Post, Recorded
  <2>4. Asking'
    BY <2>1, <2>2 DEF IInv, Asking, Decided
  <2> QED  BY <2>2, <2>3, <2>4 DEF IInv
<1>2. ASSUME NEW c \in Conn, Dial(c) \/ ReadFrame(c) PROVE IInv'
  BY <1>2, DialKeeps, ReadFrameKeeps
<1>3. CASE Continue \/ EndTurn \/ Break \/ Restart \/ Second
  BY <1>3, TurnKeeps, TickKeeps
<1>4. ASSUME NEW d \in Doc, Check(d) \/ Insert(d) PROVE IInv'
  BY <1>4, CheckKeeps, InsertKeeps
<1>6. ASSUME NEW n \in 1 .. MaxRows, AskSession(n) PROVE IInv'
  BY <1>6, AskKeeps
<1>5. ASSUME NEW c \in Conn, Accept(c) \/ TakeMail(c) \/ Receive(c) \/ Close(c) PROVE IInv'
  BY <1>5, AcceptKeeps, TakeMailKeeps, ReceiveKeeps, CloseKeeps
<1> QED  BY <1>1, <1>2, <1>3, <1>4, <1>5, <1>6 DEF TransactionNext

LEMMA Invariance == TransactionSpec => [](IInv /\ Unsent)
<1>1. IInv /\ Unsent /\ [TransactionNext]_transactionVars => IInv' /\ Unsent'
  BY NextIInv, NextUnsent
<1> QED  BY <1>1, InitIInv, InitUnsent, PTL DEF TransactionSpec

\* Whatever was lost, put back, answered late or answered on an older
\* connection, a version the server calls confirmed is one the appliance's
\* medium holds, or holds a successor of, the last generation excepted
\* (handler.ex settled, against ChannelConfig::persist and confirm).
THEOREM HeldTheorem == TransactionSpec => []ConfirmedIsHeld
<1>1. IInv => ConfirmedIsHeld
  BY DEF IInv, Recorded, Covers, ConfirmedIsHeld
<1> QED  BY <1>1, Invariance, PTL

\* The appliance keeps its own promises against this server: what is
\* provisional is armed, and what it confirmed is on its medium, over
\* connections that break at any step (channel.rs turn and opened).
THEOREM AgainstServer == TransactionSpec => [](ProvisionalIsArmed /\ ConfirmedIsDurable)
<1>1. IInv => ProvisionalIsArmed /\ ConfirmedIsDurable
  BY DEF IInv, Appliance, ApplianceInv
<1> QED  BY <1>1, Invariance, PTL

-----------------------------------------------------------------------------
(* What the server may count *)

\* The answers of the kinds K in flight, each by its connection and its place.
Flight(u, K) == {q \in [on : Conn, at : Nat] : q.at \in DOMAIN u[q.on] /\ u[q.on][q.at].is \in K}
CommitMarks(r) == {i \in DOMAIN r : r[i].committed}
ConfirmMarks(r) == {i \in DOMAIN r : r[i].confirmed}

\* The marks made and the answers still to be read are at most n.
Balanced(M, F, n) == /\ IsFiniteSet(M) /\ IsFiniteSet(F)
                     /\ n \in Nat /\ Cardinality(M) + Cardinality(F) <= n

Done == {"applied", "unchanged"}
Earned == /\ Balanced(CommitMarks(rows), Flight(up, Done), Len(commits))
          /\ Balanced(ConfirmMarks(rows), Flight(up, {"confirmed"}), Len(keptAs))
          /\ (\E S : keptAs \in Seq(S)) /\ \E S : commits \in Seq(S)

LEMMA FewerInFlight ==
  ASSUME NEW M, NEW F, NEW n, Balanced(M, F, n), NEW E, E \subseteq F
  PROVE  Balanced(M, E, n)
<1>1. IsFiniteSet(E) /\ Cardinality(E) <= Cardinality(F)
  BY FS_Subset DEF Balanced
<1>2. Cardinality(E) \in Nat /\ Cardinality(F) \in Nat /\ Cardinality(M) \in Nat
  BY <1>1, FS_CardinalityType DEF Balanced
<1> QED  BY <1>1, <1>2, SMTT(60) DEF Balanced

LEMMA OneMoreInFlight ==
  ASSUME NEW M, NEW F, NEW n, Balanced(M, F, n), NEW E, NEW x, E \subseteq F \cup {x}
  PROVE  Balanced(M, E, n + 1)
<1> DEFINE G == F \cup {x}
<1>1. IsFiniteSet(F) /\ IsFiniteSet(M)
  BY DEF Balanced
<1>2. /\ IsFiniteSet(G)
      /\ Cardinality(G) = IF x \in F THEN Cardinality(F) ELSE Cardinality(F) + 1
  BY <1>1, FS_AddElement
<1> HIDE DEF G
<1>3. E \in SUBSET G
  BY DEF G
<1>4. IsFiniteSet(E) /\ Cardinality(E) <= Cardinality(G)
  BY <1>2, <1>3, FS_Subset
<1>5. /\ Cardinality(E) \in Nat /\ Cardinality(F) \in Nat /\ Cardinality(M) \in Nat
      /\ Cardinality(G) \in Nat
  BY <1>1, <1>2, <1>4, FS_CardinalityType
<1> QED  BY <1>1, <1>2, <1>4, <1>5, SMTT(60) DEF Balanced

LEMMA OneTaken ==
  ASSUME NEW M, NEW F, NEW n, Balanced(M, F, n), NEW x, NEW E, NEW f \in Injection(E, F \ {x}),
         NEW N, N = M \/ (x \in F /\ \E i : N \subseteq M \cup {i})
  PROVE  Balanced(N, E, n)
<1> DEFINE G == F \ {x}
<1>1. IsFiniteSet(F) /\ IsFiniteSet(M) /\ n \in Nat /\ Cardinality(M) + Cardinality(F) <= n
  BY DEF Balanced
<1>2. /\ IsFiniteSet(G)
      /\ Cardinality(G) = IF x \in F THEN Cardinality(F) - 1 ELSE Cardinality(F)
  BY <1>1, FS_RemoveElement
<1>3. f \in Injection(E, G)
  OBVIOUS
<1> HIDE DEF G
<1>4. IsFiniteSet(E) /\ Cardinality(E) <= Cardinality(G)
  BY <1>2, <1>3, FS_Injection
<1>5. /\ Cardinality(E) \in Nat /\ Cardinality(F) \in Nat /\ Cardinality(M) \in Nat
      /\ Cardinality(G) \in Nat
  BY <1>1, <1>2, <1>4, FS_CardinalityType
<1>6. CASE N = M
  BY <1>1, <1>2, <1>4, <1>5, <1>6, SMTT(60) DEF Balanced
<1>7. ASSUME x \in F, NEW i, N \subseteq M \cup {i} PROVE Balanced(N, E, n)
  <2> DEFINE H == M \cup {i}
  <2>1. /\ IsFiniteSet(H)
        /\ Cardinality(H) = IF i \in M THEN Cardinality(M) ELSE Cardinality(M) + 1
    BY <1>1, FS_AddElement
  <2>2. N \in SUBSET H
    BY <1>7
  <2> HIDE DEF H
  <2>3. IsFiniteSet(N) /\ Cardinality(N) <= Cardinality(H)
    BY <2>1, <2>2, FS_Subset
  <2>4. Cardinality(N) \in Nat /\ Cardinality(H) \in Nat
    BY <2>1, <2>3, FS_CardinalityType
  <2> QED  BY <1>1, <1>2, <1>4, <1>5, <1>7, <2>1, <2>3, <2>4, SMTT(60) DEF Balanced
<1> QED  BY <1>6, <1>7

\* The server reads one answer: the others move up.
LEMMA TakenFlight ==
  ASSUME IInv, NEW c \in Conn, up[c] # <<>>, up' = [up EXCEPT ![c] = Tail(@)], NEW K
  PROVE  LET x == [on |-> c, at |-> 1]
         IN  /\ \E f : f \in Injection(Flight(up', K), Flight(up, K) \ {x})
             /\ Head(up[c]).is \in K => x \in Flight(up, K)
<1> DEFINE x == [on |-> c, at |-> 1]
           q == up[c]
           t == Tail(up[c])
           u == up'
           E == Flight(u, K)
           G == Flight(up, K) \ {x}
           move(r) == IF r.on = c THEN [on |-> c, at |-> r.at + 1] ELSE r
           f == [r \in E |-> move(r)]
<1>1. up \in [Conn -> Seq(Reply)] /\ q \in Seq(Reply) /\ q # <<>>
  BY DEF IInv, Types
<1>2. /\ 1 \in DOMAIN q /\ Head(q) = q[1]
      /\ \A k \in DOMAIN t : k + 1 \in DOMAIN q /\ k + 1 # 1 /\ t[k] = q[k + 1]
  BY <1>1, TailRange
<1>3. u[c] = t /\ \A e \in Conn : e # c => u[e] = up[e]
  BY <1>1
<1>4. 1 \in Nat /\ \A k \in Nat : k + 1 \in Nat
  BY SMTT(60)
<1>5. \A j, k \in Nat : j + 1 = k + 1 => j = k
  BY SMTT(60)
<1>6. x.on = c /\ x.at = 1 /\ x \in [on : Conn, at : Nat]
  BY <1>4
<1>7. Head(q).is \in K => x \in Flight(up, K)
  BY <1>2, <1>6 DEF Flight
<1> HIDE DEF x, q, t, u
<1>8. ASSUME NEW r \in E
      PROVE  move(r) \in G
  <2>1. r \in [on : Conn, at : Nat] /\ r.at \in DOMAIN u[r.on] /\ u[r.on][r.at].is \in K
    BY DEF Flight
  <2>2. CASE r.on = c
    <3> DEFINE m == [on |-> c, at |-> r.at + 1]
    <3>1. m \in [on : Conn, at : Nat] /\ m.on = c /\ m.at = r.at + 1
      BY <1>4, <2>1
    <3>2. m.at \in DOMAIN q /\ m.at # 1 /\ q[m.at].is \in K
      BY <1>2, <1>3, <2>1, <2>2, <3>1
    <3>3. m \in Flight(up, K) /\ m # x
      BY <1>6, <3>1, <3>2 DEF Flight, q
    <3>4. move(r) = m
      BY <2>2
    <3> QED  BY <3>3, <3>4
  <2>3. CASE r.on # c
    <3>1. r \in Flight(up, K) /\ r # x
      BY <1>3, <1>6, <2>1, <2>3 DEF Flight
    <3> QED  BY <2>3, <3>1
  <2> QED  BY <2>2, <2>3
<1>9. ASSUME NEW r \in E, NEW s \in E, move(r) = move(s)
      PROVE  r = s
  <2>1. r \in [on : Conn, at : Nat] /\ s \in [on : Conn, at : Nat]
    BY DEF Flight
  <2>2. move(r).on = r.on /\ move(s).on = s.on
    OBVIOUS
  <2>3. r.on = s.on
    BY <1>9, <2>2
  <2>4. CASE r.on = c
    <3>1. move(r).at = r.at + 1 /\ move(s).at = s.at + 1
      BY <2>3, <2>4
    <3>2. r.at = s.at
      BY <1>5, <1>9, <2>1, <3>1
    <3>3. r = [on |-> r.on, at |-> r.at] /\ s = [on |-> s.on, at |-> s.at]
      BY <2>1
    <3> QED  BY <2>3, <3>2, <3>3
  <2>5. CASE r.on # c
    BY <1>9, <2>3, <2>5
  <2> QED  BY <2>4, <2>5
<1> HIDE DEF E, G, move
<1>10. f \in [E -> G] /\ \A r \in E : f[r] = move(r)
  BY <1>8
<1>11. IsInjective(f)
  BY <1>9, <1>10 DEF IsInjective
<1>12. f \in Injection(E, G)
  BY <1>10, <1>11 DEF Injection
<1> QED  BY <1>7, <1>12 DEF E, G, u, x, q

\* The appliance says at most one thing more.
LEMMA PushedFlight ==
  ASSUME IInv, line' = <<>> \/ \E r \in Answers : line' = <<r>>, up' = Pushed, NEW K
  PROVE  \/ Flight(up', K) \subseteq Flight(up, K)
         \/ /\ \E r \in Answers : line' = <<r>> /\ r.is \in K
            /\ \E x : Flight(up', K) \subseteq Flight(up, K) \cup {x}
<1> DEFINE l == line'
           u == up'
<1>1. up \in [Conn -> Seq(Reply)] /\ \A x, y \in live : x = y
  BY DEF IInv, Types
<1>2. \A e \in Conn : u[e] = up[e] \/ (e \in live /\ u[e] = up[e] \o l)
  BY DEF Pushed
<1>3. l = <<>> \/ \E r \in Answers : l = <<r>>
  OBVIOUS
<1> HIDE DEF l, u
<1>4. CASE l = <<>>
  <2>1. \A e \in Conn : up[e] \o l = up[e]
    BY <1>1, <1>4, SMTT(60)
  <2>2. \A e \in Conn : u[e] = up[e]
    BY <1>2, <2>1
  <2>3. Flight(u, K) \subseteq Flight(up, K)
    BY <2>2 DEF Flight
  <2> QED  BY <2>3 DEF u
<1>5. ASSUME NEW r \in Answers, l = <<r>>
      PROVE  \/ Flight(u, K) \subseteq Flight(up, K)
             \/ r.is \in K /\ \E x : Flight(u, K) \subseteq Flight(up, K) \cup {x}
  <2>1. ASSUME NEW e \in Conn, NEW k \in DOMAIN (up[e] \o l)
        PROVE  \/ k \in DOMAIN up[e] /\ (up[e] \o l)[k] = up[e][k]
               \/ k = Len(up[e]) + 1 /\ (up[e] \o l)[k] = r
    <3>1. up[e] \in Seq(Reply)
      BY <1>1
    <3> QED  BY <1>5, <3>1, SMTT(60)
  <2>2. ASSUME NEW q \in Flight(u, K)
        PROVE  \/ q \in Flight(up, K)
               \/ /\ r.is \in K /\ q.on \in live
                  /\ q = [on |-> q.on, at |-> Len(up[q.on]) + 1]
    <3>1. q \in [on : Conn, at : Nat] /\ q.at \in DOMAIN u[q.on] /\ u[q.on][q.at].is \in K
      BY DEF Flight
    <3>2. CASE u[q.on] = up[q.on]
      BY <3>1, <3>2 DEF Flight
    <3>3. CASE q.on \in live /\ u[q.on] = up[q.on] \o l
      <4>1. \/ q.at \in DOMAIN up[q.on] /\ u[q.on][q.at] = up[q.on][q.at]
            \/ q.at = Len(up[q.on]) + 1 /\ u[q.on][q.at] = r
        BY <2>1, <3>1, <3>3
      <4>2. q = [on |-> q.on, at |-> q.at]
        BY <3>1
      <4> QED  BY <3>1, <3>3, <4>1, <4>2 DEF Flight
    <3> QED  BY <1>2, <3>1, <3>2, <3>3
  <2>3. CASE live = {} \/ r.is \notin K
    BY <2>2, <2>3
  <2>4. CASE live # {} /\ r.is \in K
    <3>1. PICK c \in live : TRUE
      BY <2>4
    <3> DEFINE x == [on |-> c, at |-> Len(up[c]) + 1]
    <3>2. \A q \in Flight(u, K) : q \in Flight(up, K) \/ q = x
      BY <1>1, <2>2, <3>1
    <3> QED  BY <2>4, <3>2
  <2> QED  BY <2>3, <2>4
<1> QED  BY <1>3, <1>4, <1>5 DEF l, u

\* The steps that say nothing, forget some of what was said, or read nothing
\* and mark nothing.
LEMMA NothingEarned ==
  ASSUME Earned, UNCHANGED history, CommitMarks(rows') = CommitMarks(rows),
         ConfirmMarks(rows') = ConfirmMarks(rows),
         \A K : Flight(up', K) \subseteq Flight(up, K)
  PROVE  Earned'
<1>1. commits' = commits /\ keptAs' = keptAs
  BY DEF history
<1>2. /\ Balanced(CommitMarks(rows'), Flight(up', Done), Len(commits'))
      /\ Balanced(ConfirmMarks(rows'), Flight(up', {"confirmed"}), Len(keptAs'))
  BY <1>1, FewerInFlight DEF Earned
<1> QED  BY <1>1, <1>2 DEF Earned

LEMMA DroppedFlight ==
  ASSUME IInv, Dropped(up), NEW K
  PROVE  Flight(up', K) \subseteq Flight(up, K)
<1>1. CASE live = {}
  BY <1>1 DEF Dropped
<1>2. CASE live # {}
  <2>1. PICK c \in live : TRUE
    BY <1>2
  <2>2. c \in Conn /\ up \in [Conn -> Seq(Reply)] /\ up[c] \in Seq(Reply)
    BY <2>1 DEF IInv, Types
  <2>3. PICK k \in 0 .. Len(up[c]) :
          up' = [up EXCEPT ![c] = IF handler[c].is = "open" THEN SubSeq(up[c], 1, k) ELSE <<>>]
    BY <2>1 DEF Dropped
  <2> DEFINE u == IF handler[c].is = "open" THEN SubSeq(up[c], 1, k) ELSE <<>>
  <2>4. \A j \in DOMAIN SubSeq(up[c], 1, k) :
          j \in DOMAIN up[c] /\ SubSeq(up[c], 1, k)[j] = up[c][j]
    BY <2>2, <2>3, SubRange
  <2>5. DOMAIN <<>> = {}
    BY SMTT(60)
  <2>6. \A j \in DOMAIN u : j \in DOMAIN up[c] /\ u[j] = up[c][j]
    BY <2>4, <2>5
  <2>7. up' = [up EXCEPT ![c] = u]
    BY <2>3
  <2> HIDE DEF u
  <2>8. up'[c] = u /\ \A e \in Conn : e # c => up'[e] = up[e]
    BY <2>2, <2>7
  <2> QED  BY <2>6, <2>8 DEF Flight
<1> QED  BY <1>1, <1>2

\* A reading of line', as the counters read it.
LEMMA SaidIs ==
  ASSUME NEW r \in Answers, line' = <<r>>, NEW k
  PROVE  Said(k) <=> r.is = k
<1>1. <<r>> # <<>> /\ <<r>>[1] = r
  BY SMTT(60)
<1> QED  BY <1>1 DEF Said

LEMMA SeqOne ==
  ASSUME NEW q, \E S : q \in Seq(S), NEW e
  PROVE  (\E S : Append(q, e) \in Seq(S)) /\ Len(Append(q, e)) = Len(q) + 1 /\ Len(q) \in Nat
<1>1. PICK S : q \in Seq(S)
  OBVIOUS
<1> DEFINE T == S \cup {e}
<1>2. q \in Seq(T) /\ e \in T
  <2>1. /\ Len(q) \in Nat /\ DOMAIN q = 1 .. Len(q) /\ q = [k \in 1 .. Len(q) |-> q[k]]
        /\ \A k \in 1 .. Len(q) : q[k] \in S
    BY <1>1, SMTT(60)
  <2> QED  BY <2>1, SMTT(60)
<1> HIDE DEF T
<1>3. Append(q, e) \in Seq(T) /\ Len(Append(q, e)) = Len(q) + 1 /\ Len(q) \in Nat
  BY <1>2, SMTT(60)
<1> QED  BY <1>3

LEMMA ReadEarns ==
  ASSUME IInv, Earned, NEW c \in Conn, ReadFrame(c)
  PROVE  Earned'
<1>1. /\ up' = Pushed /\ rows' = rows
      /\ commits' = commits \/ (Said("unchanged") /\ \E e : commits' = Append(commits, e))
      /\ Said("unchanged") => \E e : commits' = Append(commits, e)
      /\ keptAs' = keptAs \/ (Said("confirmed") /\ \E e : keptAs' = Append(keptAs, e))
      /\ Said("confirmed") => \E e : keptAs' = Append(keptAs, e)
  BY DEF ReadFrame, server
<1>2. line' = <<>> \/ \E r \in Answers : line' = <<r>>
  BY ReadIsStep, LineTyped DEF IInv, Appliance
<1>3. \A r : line' = <<r>> => r.is # "applied"
  <2>1. \A k, g : line' = Stated(k, g) => k # "applied"
    <3>1. ASSUME NEW k, NEW g, line' = Stated(k, g), k = "applied" PROVE FALSE
      <4>1. \A j, x : line' = Stated(j, x) => j = "applied"
        BY <3>1, SMTT(60) DEF Stated
      <4>2. line' # <<>>
        BY <3>1, SMTT(60) DEF Stated
      <4> QED  BY <4>1, <4>2 DEF ReadFrame, Stage, CommitNothing, CommitProvisional,
               ConfirmBarred, Confirm, Unresolved
    <3> QED  BY <3>1
  <2>2. \A r : line' = <<r>> /\ r.is = "applied" => line' = Stated("applied", r.generation)
    <3>1. ASSUME NEW r, line' = <<r>>, r.is = "applied"
          PROVE  line' = Stated("applied", r.generation)
      <4>1. r \in Answers
        BY <1>2, <3>1, SMTT(60)
      <4>2. r = [is |-> r.is, generation |-> r.generation]
        BY <4>1 DEF Answers
      <4> QED  BY <3>1, <4>2 DEF Stated
    <3> QED  BY <3>1
  <2> QED  BY <2>1, <2>2
<1>4. (\E S : keptAs \in Seq(S)) /\ \E S : commits \in Seq(S)
  BY DEF Earned
<1>5. (\E S : keptAs' \in Seq(S)) /\ \E S : commits' \in Seq(S)
  BY <1>1, <1>4, SeqOne
<1>6. Balanced(CommitMarks(rows'), Flight(up', Done), Len(commits'))
  <2> DEFINE M == CommitMarks(rows)
             F == Flight(up, Done)
             E == Flight(up', Done)
  <2>1. Balanced(M, F, Len(commits))
    BY DEF Earned
  <2>2. E \subseteq F \/ (Said("unchanged") /\ \E x : E \subseteq F \cup {x})
    <3>1. \/ E \subseteq F
          \/ /\ \E r \in Answers : line' = <<r>> /\ r.is \in Done
             /\ \E x : E \subseteq F \cup {x}
      BY <1>1, <1>2, PushedFlight
    <3>2. \A r \in Answers : line' = <<r>> /\ r.is \in Done => Said("unchanged")
      BY <1>3, SaidIs DEF Done
    <3> QED  BY <3>1, <3>2
  <2> HIDE DEF M, F, E
  <2>3. CASE Said("unchanged")
    <3>1. \E x : E \subseteq F \cup {x}
      BY <2>2
    <3>2. Balanced(M, E, Len(commits) + 1)
      BY <2>1, <3>1, OneMoreInFlight
    <3>3. Len(commits') = Len(commits) + 1
      BY <1>1, <1>4, <2>3, SeqOne
    <3> QED  BY <1>1, <3>2, <3>3 DEF M, E
  <2>4. CASE ~Said("unchanged")
    <3>1. Balanced(M, E, Len(commits))
      BY <2>1, <2>2, <2>4, FewerInFlight
    <3>2. commits' = commits
      BY <1>1, <2>4
    <3> QED  BY <1>1, <3>1, <3>2 DEF M, E
  <2> QED  BY <2>3, <2>4
<1>7. Balanced(ConfirmMarks(rows'), Flight(up', {"confirmed"}), Len(keptAs'))
  <2> DEFINE K == {"confirmed"}
             M == ConfirmMarks(rows)
             F == Flight(up, K)
             E == Flight(up', K)
  <2>1. Balanced(M, F, Len(keptAs))
    BY DEF Earned
  <2>2. E \subseteq F \/ (Said("confirmed") /\ \E x : E \subseteq F \cup {x})
    <3>1. \/ E \subseteq F
          \/ /\ \E r \in Answers : line' = <<r>> /\ r.is \in K
             /\ \E x : E \subseteq F \cup {x}
      BY <1>1, <1>2, PushedFlight
    <3>2. \A r \in Answers : line' = <<r>> /\ r.is \in K => Said("confirmed")
      BY SaidIs
    <3> QED  BY <3>1, <3>2
  <2> HIDE DEF M, F, E
  <2>3. CASE Said("confirmed")
    <3>1. \E x : E \subseteq F \cup {x}
      BY <2>2
    <3>2. Balanced(M, E, Len(keptAs) + 1)
      BY <2>1, <3>1, OneMoreInFlight
    <3>3. Len(keptAs') = Len(keptAs) + 1
      BY <1>1, <1>4, <2>3, SeqOne
    <3> QED  BY <1>1, <3>2, <3>3 DEF M, E
  <2>4. CASE ~Said("confirmed")
    <3>1. Balanced(M, E, Len(keptAs)) /\ keptAs' = keptAs
      BY <1>1, <2>1, <2>2, <2>4, FewerInFlight
    <3> QED  BY <1>1, <3>1 DEF M, E
  <2> QED  BY <2>3, <2>4
<1> QED  BY <1>5, <1>6, <1>7 DEF Earned

LEMMA ContinueEarns ==
  ASSUME IInv, Earned, Continue
  PROVE  Earned'
<1>1. /\ up' = Pushed /\ rows' = rows /\ keptAs' = keptAs
      /\ commits' = commits \/ (Said("applied") /\ \E e : commits' = Append(commits, e))
      /\ Said("applied") => \E e : commits' = Append(commits, e)
  BY DEF Continue, Carry
<1>2. Next
  BY DEF Continue, Next
<1>3. line' = <<>> \/ \E r \in Answers : line' = <<r>>
  BY <1>2, LineTyped DEF IInv, Appliance
<1>4. \A r : line' = <<r>> => r.is # "unchanged" /\ r.is # "confirmed"
  <2>1. line' \in {<<>>, Unresolved} \/ line' = Stated("applied", generation)
          \/ line' = Stated("reverted", answer'.generation)
    BY DEF Continue, Persist, NotPersisted, Undo
  <2> QED  BY <2>1, SMTT(60) DEF Unresolved, Stated
<1> DEFINE K == {"confirmed"}
<1>5. Flight(up', K) \subseteq Flight(up, K)
  BY <1>1, <1>3, <1>4, PushedFlight
<1>6. Balanced(ConfirmMarks(rows'), Flight(up', K), Len(keptAs'))
  BY <1>1, <1>5, FewerInFlight DEF Earned
<1>7. Balanced(CommitMarks(rows'), Flight(up', Done), Len(commits'))
  <2> DEFINE M == CommitMarks(rows)
             F == Flight(up, Done)
             E == Flight(up', Done)
  <2>1. Balanced(M, F, Len(commits)) /\ \E S : commits \in Seq(S)
    BY DEF Earned
  <2>2. E \subseteq F \/ (Said("applied") /\ \E x : E \subseteq F \cup {x})
    <3>1. \/ E \subseteq F
          \/ /\ \E r \in Answers : line' = <<r>> /\ r.is \in Done
             /\ \E x : E \subseteq F \cup {x}
      BY <1>1, <1>3, PushedFlight
    <3>2. \A r \in Answers : line' = <<r>> /\ r.is \in Done => Said("applied")
      BY <1>4, SaidIs DEF Done
    <3> QED  BY <3>1, <3>2
  <2> HIDE DEF M, F, E
  <2>3. CASE Said("applied")
    <3>1. \E x : E \subseteq F \cup {x}
      BY <2>2
    <3>2. Balanced(M, E, Len(commits) + 1)
      BY <2>1, <3>1, OneMoreInFlight
    <3>3. Len(commits') = Len(commits) + 1
      BY <1>1, <2>1, <2>3, SeqOne
    <3> QED  BY <1>1, <3>2, <3>3 DEF M, E
  <2>4. CASE ~Said("applied")
    <3>1. Balanced(M, E, Len(commits))
      BY <2>1, <2>2, <2>4, FewerInFlight
    <3>2. commits' = commits
      BY <1>1, <2>4
    <3> QED  BY <1>1, <3>1, <3>2 DEF M, E
  <2> QED  BY <2>3, <2>4
<1>8. \E S : commits' \in Seq(S)
  BY <1>1, SeqOne DEF Earned
<1> QED  BY <1>1, <1>6, <1>7, <1>8 DEF Earned

LEMMA DialEarns ==
  ASSUME IInv, Earned, NEW c \in Conn, Dial(c)
  PROVE  Earned'
<1> DEFINE u == <<[is |-> "hello", generation |-> 0]>>
<1>1. /\ up' = [up EXCEPT ![c] = u] /\ rows' = rows /\ UNCHANGED history
  BY DEF Dial
<1>2. \A k \in DOMAIN u : u[k].is = "hello"
  BY SMTT(60)
<1>3. up \in [Conn -> Seq(Reply)]
  BY DEF IInv, Types
<1> HIDE DEF u
<1>4. up'[c] = u /\ \A e \in Conn : e # c => up'[e] = up[e]
  BY <1>1, <1>3
<1>5. ASSUME NEW K, "hello" \notin K PROVE Flight(up', K) \subseteq Flight(up, K)
  BY <1>2, <1>4, <1>5 DEF Flight
<1>6. commits' = commits /\ keptAs' = keptAs
  BY <1>1 DEF history
<1>7. /\ Balanced(CommitMarks(rows'), Flight(up', Done), Len(commits'))
      /\ Balanced(ConfirmMarks(rows'), Flight(up', {"confirmed"}), Len(keptAs'))
  <2>1. /\ Flight(up', Done) \subseteq Flight(up, Done)
        /\ Flight(up', {"confirmed"}) \subseteq Flight(up, {"confirmed"})
    BY <1>5 DEF Done
  <2> QED  BY <1>1, <1>6, <2>1, FewerInFlight DEF Earned
<1> QED  BY <1>6, <1>7 DEF Earned

LEMMA EndEarns ==
  ASSUME IInv, Earned, EndTurn \/ Break \/ Restart
  PROVE  Earned'
<1>1. rows' = rows /\ UNCHANGED history
  BY DEF EndTurn, Break, Restart
<1>2. CASE Dropped(up)
  BY <1>1, <1>2, DroppedFlight, NothingEarned
<1>3. CASE EndTurn /\ Carry
  <2>1. line' = <<>> /\ up' = Pushed
    BY <1>3 DEF EndTurn, Carry, Judge
  <2>2. \A r : line' # <<r>>
    BY <2>1, SMTT(60)
  <2>3. \A K : Flight(up', K) \subseteq Flight(up, K)
    BY <2>1, <2>2, PushedFlight
  <2> QED  BY <1>1, <2>3, NothingEarned
<1> QED  BY <1>2, <1>3 DEF EndTurn, Break, Restart

LEMMA StillEarned ==
  ASSUME IInv, Earned,
         \/ Second
         \/ \E d \in Doc : Check(d) \/ Insert(d)
         \/ \E n \in 1 .. MaxRows : AskSession(n)
         \/ \E c \in Conn : Accept(c) \/ TakeMail(c)
  PROVE  Earned'
<1>1. UNCHANGED history /\ up' = up
  BY DEF Second, Check, Insert, AskSession, Accept, TakeMail, wire
<1>2. CommitMarks(rows') = CommitMarks(rows) /\ ConfirmMarks(rows') = ConfirmMarks(rows)
  <2>1. CASE rows' = rows
    BY <2>1
  <2>2. CASE Second
    <3>1. /\ DOMAIN rows' = DOMAIN rows
          /\ \A i \in DOMAIN rows :
               rows'[i].committed = rows[i].committed /\ rows'[i].confirmed = rows[i].confirmed
      BY <2>2, AgedRows DEF IInv, Second
    <3> QED  BY <3>1 DEF CommitMarks, ConfirmMarks
  <2>3. ASSUME NEW d \in Doc, Insert(d)
        PROVE  CommitMarks(rows') = CommitMarks(rows) /\ ConfirmMarks(rows') = ConfirmMarks(rows)
    <3> DEFINE v == [doc |-> d, validated |-> "no", stated |-> 0,
                     committed |-> FALSE, confirmed |-> FALSE, age |-> 0, sent |-> FALSE]
               r == Append(rows, v)
               n == Len(rows) + 1
    <3>1. v \in VersionRow /\ ~v.committed /\ ~v.confirmed
      BY NumberAssumption, SMTT(60) DEF VersionRow, Generations
    <3>2. rows \in Seq(VersionRow) /\ rows' = r
      BY <2>3 DEF IInv, Types, Insert
    <3> HIDE DEF v
    <3>3. /\ DOMAIN rows = 1 .. Len(rows) /\ Len(rows) \in Nat
          /\ DOMAIN r = 1 .. Len(rows) + 1 /\ r[n] = v
          /\ \A k \in DOMAIN rows : k \in DOMAIN r /\ r[k] = rows[k]
      BY ONLY <3>1, <3>2, AppendRange, SMTT(60)
    <3>4. \A k \in DOMAIN r : k \in DOMAIN rows \/ k = n
      BY <3>3, SMTT(60)
    <3> HIDE DEF r, n
    <3>5. /\ \A k : k \in CommitMarks(r) <=> k \in CommitMarks(rows)
          /\ \A k : k \in ConfirmMarks(r) <=> k \in ConfirmMarks(rows)
      BY <3>1, <3>3, <3>4 DEF CommitMarks, ConfirmMarks
    <3>6. CommitMarks(r) = CommitMarks(rows) /\ ConfirmMarks(r) = ConfirmMarks(rows)
      BY <3>5
    <3> QED  BY <3>2, <3>6
  <2>4. ASSUME NEW n \in 1 .. MaxRows, AskSession(n)
        PROVE  CommitMarks(rows') = CommitMarks(rows) /\ ConfirmMarks(rows') = ConfirmMarks(rows)
    <3> DEFINE v == [rows[n] EXCEPT !.sent = TRUE]
    <3>1. n \in DOMAIN rows
      BY <2>4 DEF AskSession
    <3>2. rows[n] \in VersionRow
      BY <3>1, RowsTyped DEF IInv
    <3>3. v.committed = rows[n].committed /\ v.confirmed = rows[n].confirmed
      BY <3>2 DEF VersionRow
    <3>4. rows' = [rows EXCEPT ![n] = v]
      BY <2>4, <3>1 DEF AskSession
    <3> HIDE DEF v
    <3>5. /\ DOMAIN rows' = DOMAIN rows
          /\ \A k \in DOMAIN rows :
               rows'[k].committed = rows[k].committed /\ rows'[k].confirmed = rows[k].confirmed
      BY <3>1, <3>3, <3>4
    <3> QED  BY <3>5 DEF CommitMarks, ConfirmMarks
  <2> QED  BY <2>1, <2>2, <2>3, <2>4 DEF Check, Accept, TakeMail
<1> QED  BY <1>1, <1>2, NothingEarned

LEMMA CloseEarns ==
  ASSUME IInv, Earned, NEW c \in Conn, Close(c)
  PROVE  Earned'
<1> DEFINE z == <<>>
<1>1. up' = [up EXCEPT ![c] = z] /\ rows' = rows /\ UNCHANGED history
  BY DEF Close
<1>2. DOMAIN z = {}
  BY SMTT(60)
<1>3. up \in [Conn -> Seq(Reply)]
  BY DEF IInv, Types
<1> HIDE DEF z
<1>4. up'[c] = z /\ \A e \in Conn : e # c => up'[e] = up[e]
  BY <1>1, <1>3
<1>5. \A K : Flight(up', K) \subseteq Flight(up, K)
  BY <1>2, <1>4 DEF Flight
<1> QED  BY <1>1, <1>5, NothingEarned

\* What reading an answer marks: at most one version, and only for an answer
\* that says so.
LEMMA ReceiveMarks ==
  ASSUME IInv, NEW c \in Conn, Receive(c)
  PROVE  /\ \/ CommitMarks(rows') = CommitMarks(rows)
            \/ Head(up[c]).is \in Done /\ \E i : CommitMarks(rows') \subseteq CommitMarks(rows) \cup {i}
         /\ \/ ConfirmMarks(rows') = ConfirmMarks(rows)
            \/ /\ Head(up[c]).is \in {"confirmed"}
               /\ \E i : ConfirmMarks(rows') \subseteq ConfirmMarks(rows) \cup {i}
<1> DEFINE l == Head(up[c])
<1>1. CASE rows' = rows
  BY <1>1
<1>2. ASSUME NEW i \in handler[c].staging, Validated(c, i, l)
      PROVE  CommitMarks(rows') = CommitMarks(rows) /\ ConfirmMarks(rows') = ConfirmMarks(rows)
  <2> DEFINE verdict == IF l.is = "staged" THEN "accepted" ELSE "refused"
             v == [rows[i] EXCEPT !.validated = verdict, !.stated = l.generation]
  <2>1. i \in DOMAIN rows
    BY DEF IInv, Post, Wanted
  <2>2. rows[i] \in VersionRow
    BY <2>1, RowsTyped DEF IInv
  <2>3. rows' = [rows EXCEPT ![i] = v]
    BY <1>2, <2>1, <2>2 DEF Validated
  <2> HIDE DEF verdict, l
  <2>4. v.committed = rows[i].committed /\ v.confirmed = rows[i].confirmed
    BY <2>2 DEF VersionRow
  <2> HIDE DEF v
  <2>5. /\ DOMAIN rows' = DOMAIN rows /\ rows'[i] = v
        /\ \A k \in DOMAIN rows : k # i => rows'[k] = rows[k]
    BY <2>1, <2>3
  <2>6. \A k \in DOMAIN rows :
          rows'[k].committed = rows[k].committed /\ rows'[k].confirmed = rows[k].confirmed
    BY <2>4, <2>5
  <2> QED  BY <2>5, <2>6 DEF CommitMarks, ConfirmMarks
<1>3. ASSUME NEW p \in handler[c].pending, Settled(c, p[1], p[2], l)
      PROVE  /\ \/ CommitMarks(rows') = CommitMarks(rows)
                \/ l.is \in Done /\ \E i : CommitMarks(rows') \subseteq CommitMarks(rows) \cup {i}
             /\ \/ ConfirmMarks(rows') = ConfirmMarks(rows)
                \/ /\ l.is \in {"confirmed"}
                   /\ \E i : ConfirmMarks(rows') \subseteq ConfirmMarks(rows) \cup {i}
  <2> DEFINE i == p[2]
  <2>1. i \in DOMAIN rows
    BY DEF IInv, Asking, Decided
  <2>2. rows[i] \in VersionRow
    BY <2>1, RowsTyped DEF IInv
  <2>3. \/ rows' = rows
        \/ l.is \in Done /\ rows' = [rows EXCEPT ![i].committed = TRUE, ![i].age = 0]
        \/ l.is \in {"confirmed"} /\ rows' = [rows EXCEPT ![i].confirmed = TRUE]
    BY <1>3 DEF Settled, Done
  <2> HIDE DEF i, l
  <2>4. CASE l.is \in Done /\ rows' = [rows EXCEPT ![i].committed = TRUE, ![i].age = 0]
    <3> DEFINE v == [rows[i] EXCEPT !.committed = TRUE, !.age = 0]
    <3>1. v.confirmed = rows[i].confirmed
      BY <2>2, OneMark
    <3>2. rows' = [rows EXCEPT ![i] = v]
      BY <2>1, <2>4
    <3> HIDE DEF v
    <3>3. /\ DOMAIN rows' = DOMAIN rows /\ rows'[i] = v
          /\ \A k \in DOMAIN rows : k # i => rows'[k] = rows[k]
      BY <2>1, <3>2
    <3>4. ConfirmMarks(rows') = ConfirmMarks(rows)
      <4>1. \A k \in DOMAIN rows : rows'[k].confirmed = rows[k].confirmed
        BY <3>1, <3>3
      <4> QED  BY <3>3, <4>1 DEF ConfirmMarks
    <3>5. CommitMarks(rows') \subseteq CommitMarks(rows) \cup {i}
      BY <3>3 DEF CommitMarks
    <3> QED  BY <2>4, <3>4, <3>5
  <2>5. CASE l.is \in {"confirmed"} /\ rows' = [rows EXCEPT ![i].confirmed = TRUE]
    <3> DEFINE v == [rows[i] EXCEPT !.confirmed = TRUE]
    <3>1. v.committed = rows[i].committed
      BY <2>2, OneMark
    <3>2. rows' = [rows EXCEPT ![i] = v]
      BY <2>1, <2>5
    <3> HIDE DEF v
    <3>3. /\ DOMAIN rows' = DOMAIN rows /\ rows'[i] = v
          /\ \A k \in DOMAIN rows : k # i => rows'[k] = rows[k]
      BY <2>1, <3>2
    <3>4. CommitMarks(rows') = CommitMarks(rows)
      <4>1. \A k \in DOMAIN rows : rows'[k].committed = rows[k].committed
        BY <3>1, <3>3
      <4> QED  BY <3>3, <4>1 DEF CommitMarks
    <3>5. ConfirmMarks(rows') \subseteq ConfirmMarks(rows) \cup {i}
      BY <3>3 DEF ConfirmMarks
    <3> QED  BY <2>5, <3>4, <3>5
  <2> QED  BY <2>3, <2>4, <2>5
<1> QED  BY <1>1, <1>2, <1>3 DEF Receive

LEMMA ReceiveEarns ==
  ASSUME IInv, Earned, NEW c \in Conn, Receive(c)
  PROVE  Earned'
<1> DEFINE x == [on |-> c, at |-> 1]
<1>1. /\ up[c] # <<>> /\ up' = [up EXCEPT ![c] = Tail(@)]
      /\ commits' = commits /\ keptAs' = keptAs
  BY DEF Receive, history
<1>2. ASSUME NEW K
      PROVE  /\ \E f : f \in Injection(Flight(up', K), Flight(up, K) \ {x})
             /\ Head(up[c]).is \in K => x \in Flight(up, K)
  BY <1>1, TakenFlight
<1> HIDE DEF x
<1>3. Balanced(CommitMarks(rows'), Flight(up', Done), Len(commits))
  <2> DEFINE M == CommitMarks(rows)
             N == CommitMarks(rows')
             F == Flight(up, Done)
             E == Flight(up', Done)
  <2>1. Balanced(M, F, Len(commits))
    BY DEF Earned
  <2>2. N = M \/ (x \in F /\ \E i : N \subseteq M \cup {i})
    BY <1>2, ReceiveMarks
  <2>3. \E f : f \in Injection(E, F \ {x})
    BY <1>2
  <2> HIDE DEF M, N, F, E
  <2>4. Balanced(N, E, Len(commits))
    BY <2>1, <2>2, <2>3, OneTaken
  <2> QED  BY <2>4 DEF N, E
<1>4. Balanced(ConfirmMarks(rows'), Flight(up', {"confirmed"}), Len(keptAs))
  <2> DEFINE K == {"confirmed"}
             M == ConfirmMarks(rows)
             N == ConfirmMarks(rows')
             F == Flight(up, K)
             E == Flight(up', K)
  <2>1. Balanced(M, F, Len(keptAs))
    BY DEF Earned
  <2>2. N = M \/ (x \in F /\ \E i : N \subseteq M \cup {i})
    BY <1>2, ReceiveMarks
  <2>3. \E f : f \in Injection(E, F \ {x})
    BY <1>2
  <2> HIDE DEF M, N, F, E
  <2>4. Balanced(N, E, Len(keptAs))
    BY <2>1, <2>2, <2>3, OneTaken
  <2> QED  BY <2>4 DEF N, E
<1> QED  BY <1>1, <1>3, <1>4 DEF Earned

LEMMA InitEarned == TransactionInit => Earned
<1> SUFFICES ASSUME TransactionInit PROVE Earned
  OBVIOUS
<1>1. DOMAIN <<>> = {} /\ <<>> \in Seq({}) /\ Len(<<>>) = 0 /\ 0 \in Nat /\ 0 + 0 <= 0
  BY SMTT(60)
<1>2. rows = <<>> /\ commits = <<>> /\ keptAs = <<>> /\ \A c \in Conn : up[c] = <<>>
  BY DEF TransactionInit
<1>3. CommitMarks(rows) = {} /\ ConfirmMarks(rows) = {} /\ \A K : Flight(up, K) = {}
  BY <1>1, <1>2 DEF CommitMarks, ConfirmMarks, Flight
<1>4. Balanced({}, {}, 0)
  BY <1>1, FS_EmptySet DEF Balanced
<1> QED  BY <1>1, <1>2, <1>3, <1>4 DEF Earned

LEMMA NextEarned == IInv /\ Earned /\ [TransactionNext]_transactionVars => Earned'
<1> SUFFICES ASSUME IInv, Earned, [TransactionNext]_transactionVars PROVE Earned'
  OBVIOUS
<1>1. CASE UNCHANGED transactionVars
  <2>1. UNCHANGED <<rows, up, commits, keptAs>>
    BY <1>1 DEF transactionVars, wire, server, history
  <2> QED  BY <2>1 DEF Earned
<1>2. CASE TransactionNext
  BY <1>2, ReadEarns, ContinueEarns, DialEarns, EndEarns, StillEarned,
     CloseEarns, ReceiveEarns
     DEF TransactionNext
<1> QED  BY <1>1, <1>2

\* The server makes no mark out of nothing: it never marks more versions
\* committed, or confirmed, than the appliance answered for.
NoMoreThanAnswered ==
  /\ Cardinality(CommitMarks(rows)) <= Len(commits)
  /\ Cardinality(ConfirmMarks(rows)) <= Len(keptAs)

\* One answer marks one version at most, and an answer is read at most once,
\* whichever connection it came on and whatever was lost (handler.ex
\* receive_frame and settled).  Which version it marks is another matter:
\* RecordedIsItsOwn of module ConfigTransaction.
THEOREM EarnedTheorem == TransactionSpec => []NoMoreThanAnswered
<1>1. Earned => NoMoreThanAnswered
  <2> SUFFICES ASSUME Earned PROVE NoMoreThanAnswered
    OBVIOUS
  <2>1. ASSUME NEW M, NEW F, NEW n, Balanced(M, F, n) PROVE Cardinality(M) <= n
    <3>1. Cardinality(M) \in Nat /\ Cardinality(F) \in Nat
      BY <2>1, FS_CardinalityType DEF Balanced
    <3> QED  BY <2>1, <3>1, SMTT(60) DEF Balanced
  <2> QED  BY <2>1 DEF Earned, NoMoreThanAnswered
<1>2. IInv /\ Earned /\ [TransactionNext]_transactionVars => Earned'
  BY NextEarned
<1> QED  BY <1>1, <1>2, Invariance, InitEarned, PTL DEF TransactionSpec
====
