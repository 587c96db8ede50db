---------------------------- MODULE ChannelConfig ----------------------------
(***************************************************************************)
(* The appliance's end of a configuration transaction: ChannelConfig of    *)
(* datad/pds/crypto/src/configuration.rs and the turns of                  *)
(* ManagementChannel (channel.rs) that drive it, over the datastore of     *)
(* module Datastore.                                                       *)
(*                                                                         *)
(* The server is whatever it likes here: any frame, naming any document,   *)
(* generation and deadline, may be the next one read.  An exchange with    *)
(* the deciding domain is one datastore action: that domain outranks this  *)
(* one, so it has answered before the first poll reads.  A turn that       *)
(* commits takes several exchanges and is several steps, `turn` naming the *)
(* one that comes next; nothing but a restart comes between them.          *)
(*                                                                         *)
(* The wall clock is kept as the time left to the armed deadline, and the  *)
(* committing session's serial as whether a session has opened since.      *)
(***************************************************************************)
EXTENDS Integers, Sequences

CONSTANTS Doc, Valid, Empty, BootDoc, MAX,
          MIN_CONFIRM_SECONDS, MAX_CONFIRM_SECONDS,
          Asked,       \* the deadlines a commit frame may ask for
          MaxReboots   \* bound: restarts of the appliance

ASSUME NumberAssumption == MAX \in Nat /\ MAX >= 1
ASSUME BandAssumption ==
  /\ MIN_CONFIRM_SECONDS \in Nat \ {0} /\ MAX_CONFIRM_SECONDS \in Nat
  /\ Asked \subseteq Nat

VARIABLES
  generation, model, candidate, displaced, durable, recorded, offered, answer,
  confirmed,   \* the datastore
  medium,      \* the newest version of the history: {} or {record}
  awaiting,    \* ChannelConfig::awaiting: {} or {record}
  staged,      \* ChannelConfig::staged, as the document: {} or {document}
  session,     \* ManagementChannel::session.is_some()
  turn,        \* "idle" between turns, else the step the turn is at
  ending,      \* Carried::committed of this turn
  line,        \* the result frames the last step pushed: <<>> or <<frame>>
  reboots,
  kept         \* history: what the appliance last confirmed

D == INSTANCE Datastore

store == <<generation, model, candidate, displaced, durable, recorded, offered,
           answer, confirmed>>
vars == <<store, medium, awaiting, staged, session, turn, ending, line, reboots,
          kept>>

Version == [version : 0 .. MAX, doc : Doc]
Line == [is : {"staged", "refused", "applied", "unchanged", "reverted",
               "confirmed"},
         generation : 0 .. MAX]

\* Answer::stated and Answer::rejected
Stated(kind, g) == <<[is |-> kind, generation |-> g]>>

\* Answer::unresolved: a refusal that states no generation.
Unresolved == Stated("refused", 0)

\* Awaiting, as a commit arms it: no session has opened since.
Armed(secs) == {[left |-> secs, fresh |-> FALSE]}

Init ==
  /\ D!Init
  /\ medium = {} /\ awaiting = {} /\ staged = {}
  /\ session = FALSE /\ turn = "idle" /\ ending = FALSE /\ line = <<>>
  /\ reboots = 0 /\ kept = {}

-----------------------------------------------------------------------------
(* The deadline *)

\* The test of `expired`.
Due == \E a \in awaiting : a.left = 0

\* ManagementChannel::revert_if_expired: a passed deadline is consumed whether
\* or not the rollback it asks for happens.
RevertIfExpired(reverted) ==
  \/ /\ Due /\ D!RollbackDone /\ reverted
     /\ awaiting' = {}
  \/ /\ Due /\ D!RollbackRefused /\ ~reverted
     /\ awaiting' = {}
  \/ /\ ~Due /\ ~reverted
     /\ UNCHANGED <<store, awaiting>>

\* A second passes.  A turn reads the clock once, so none passes inside one.
Tick ==
  /\ turn = "idle"
  /\ \E a \in awaiting :
       a.left > 0 /\ awaiting' = {[a EXCEPT !.left = @ - 1]}
  /\ line' = <<>>
  /\ UNCHANGED <<store, medium, staged, session, turn, ending, reboots,
                 kept>>

-----------------------------------------------------------------------------
(* Sessions *)

\* ManagementChannel::opened.  The serial moves, so whatever awaits confirmation
\* was committed on an earlier session; then the deadline is judged.
Opened ==
  /\ ~session
  /\ turn = "idle"
  /\ \/ /\ Due
        /\ \E reverted \in BOOLEAN : RevertIfExpired(reverted)
     \/ /\ ~Due
        /\ awaiting' = {[a EXCEPT !.fresh = TRUE] : a \in awaiting}
        /\ UNCHANGED store
  /\ session' = TRUE
  /\ line' = <<>>
  /\ UNCHANGED <<medium, staged, turn, ending, reboots, kept>>

\* The transport went away between two turns.
Closed ==
  /\ session /\ turn = "idle"
  /\ session' = FALSE
  /\ line' = <<>>
  /\ UNCHANGED <<store, medium, awaiting, staged, turn, ending, reboots,
                 kept>>

\* The end of every turn, and the whole of one that carries no frame: the
\* deadline is judged after the frames, and a standing commit or a revert ends
\* the session.
Judge ==
  /\ session
  /\ turn = "judge" \/ (turn = "idle" /\ Due)
  /\ \E reverted \in BOOLEAN :
       /\ RevertIfExpired(reverted)
       /\ session' = ~(ending \/ reverted)
  /\ turn' = "idle" /\ ending' = FALSE /\ line' = <<>>
  /\ UNCHANGED <<medium, staged, reboots, kept>>

\* The appliance restarts.  The deciding domain commits its built-in document,
\* the holder of the medium publishes the newest version it finds there, and
\* everything this domain held is gone.
Reboot ==
  /\ reboots < MaxReboots
  /\ generation' = IF D!Booted THEN 1 ELSE 0
  /\ model' = IF D!Booted THEN BootDoc ELSE Empty
  /\ offered' = generation'
  /\ candidate' = {} /\ displaced' = {} /\ durable' = 0
  /\ \/ /\ medium = {} /\ recorded' = 0
     \/ \E v \in medium : recorded' = v.version
  /\ answer' = D!Answer("none", 0) /\ confirmed' = 0
  /\ awaiting' = {} /\ staged' = {} /\ session' = FALSE /\ turn' = "idle"
  /\ ending' = FALSE /\ line' = <<>>
  /\ reboots' = reboots + 1
  /\ UNCHANGED <<medium, kept>>

-----------------------------------------------------------------------------
(* Frames.  A configuration operation ends the reading of a turn. *)

Reading == session /\ turn = "idle"

\* ChannelConfig::stage: only a document the deciding domain took is put where
\* the holder of the medium reads.
Stage(d) ==
  /\ Reading
  /\ D!Stage(d)
  /\ staged' = IF d \in Valid THEN {d} ELSE staged
  /\ line' = Stated(IF d \in Valid THEN "staged" ELSE "refused",
                    answer'.generation)
  /\ turn' = "judge"
  /\ UNCHANGED <<medium, awaiting, session, ending, reboots, kept>>

\* ChannelConfig::commit refusing what it reads off the frame.
CommitMalformed(g, secs) ==
  /\ Reading
  /\ secs \notin MIN_CONFIRM_SECONDS .. MAX_CONFIRM_SECONDS \/ g > MAX
  /\ line' = Unresolved
  /\ turn' = "judge"
  /\ UNCHANGED <<store, medium, awaiting, staged, session, ending, reboots,
                 kept>>

\* The deciding domain refuses the commit, or already runs its content: neither
\* arms a deadline, and the staged document is not consumed.
CommitNothing(g, secs) ==
  /\ Reading
  /\ secs \in MIN_CONFIRM_SECONDS .. MAX_CONFIRM_SECONDS /\ g <= MAX
  /\ \/ D!CommitRefused(g) /\ line' = Unresolved
     \/ D!CommitUnchanged(g) /\ line' = Stated("unchanged", answer'.generation)
  /\ turn' = "judge"
  /\ UNCHANGED <<medium, awaiting, staged, session, ending, reboots,
                 kept>>

\* The commit is in force, and the deadline armed before it is made durable.
CommitProvisional(g, secs) ==
  /\ Reading
  /\ secs \in MIN_CONFIRM_SECONDS .. MAX_CONFIRM_SECONDS /\ g <= MAX
  /\ D!CommitApplied(g)
  /\ awaiting' = Armed(secs)
  /\ turn' = "persist" /\ line' = <<>>
  /\ UNCHANGED <<medium, staged, session, ending, reboots, kept>>

\* ChannelConfig::persist: the holder of the medium makes the staged document a
\* version of the history and publishes its number.
Persist ==
  /\ turn = "persist"
  /\ \E d \in staged : medium' = {[version |-> generation, doc |-> d]}
  /\ staged' = {}
  /\ D!MediumRecords(generation)
  /\ line' = Stated("applied", generation)
  /\ ending' = TRUE
  /\ turn' = "judge"
  /\ UNCHANGED <<awaiting, session, reboots, kept>>

\* Mutant: a refusal of the medium is passed over.
NotPersistedApplied ==
  /\ turn = "persist"
  /\ staged' = {}
  /\ line' = Stated("applied", generation)
  /\ ending' = TRUE
  /\ turn' = "judge"
  /\ UNCHANGED <<store, medium, awaiting, session, reboots, kept>>

\* The medium refuses, or nothing was staged for it: the token is consumed and
\* the commit is put back.
NotPersisted ==
  /\ turn = "persist"
  /\ staged' = {}
  /\ turn' = "undo" /\ line' = <<>>
  /\ UNCHANGED <<store, medium, awaiting, session, ending, reboots,
                 kept>>

\* ChannelConfig::undo: the deadline is given up only where the reversal
\* happened.
Undo ==
  /\ turn = "undo"
  /\ \/ /\ D!RollbackDone
        /\ awaiting' = {} /\ ending' = ending
        /\ line' = Stated("reverted", answer'.generation)
     \/ /\ D!RollbackRefused
        /\ awaiting' = awaiting /\ ending' = TRUE
        /\ line' = Unresolved
  /\ turn' = "judge"
  /\ UNCHANGED <<medium, staged, session, reboots, kept>>

\* ChannelConfig::confirm refused without asking the deciding domain.
ConfirmBarred(g) ==
  /\ Reading
  /\ awaiting = {} \/ (\E a \in awaiting : ~a.fresh) \/ g > MAX
  /\ line' = Unresolved
  /\ turn' = "judge"
  /\ UNCHANGED <<store, medium, awaiting, staged, session, ending, reboots,
                 kept>>

\* Mutant: the awaited commit is taken before the answer is read.
ConfirmTaking(g) ==
  /\ Reading
  /\ \E a \in awaiting : a.fresh
  /\ g <= MAX
  /\ D!Confirm(g)
  /\ awaiting' = {}
  /\ \/ /\ answer'.is = "confirmed"
        /\ line' = Stated("confirmed", g)
        /\ kept' = {[version |-> generation, doc |-> model]}
     \/ /\ answer'.is # "confirmed"
        /\ line' = Unresolved /\ kept' = kept
  /\ turn' = "judge"
  /\ UNCHANGED <<medium, staged, session, ending, reboots>>

\* ChannelConfig::confirm on a session opened after the commit.
Confirm(g) ==
  /\ Reading
  /\ \E a \in awaiting : a.fresh
  /\ g <= MAX
  /\ D!Confirm(g)
  /\ \/ /\ answer'.is = "confirmed"
        /\ awaiting' = {} /\ line' = Stated("confirmed", g)
        /\ kept' = {[version |-> generation, doc |-> model]}
     \/ /\ answer'.is # "confirmed"
        /\ awaiting' = awaiting /\ line' = Unresolved /\ kept' = kept
  /\ turn' = "judge"
  /\ UNCHANGED <<medium, staged, session, ending, reboots>>

Next ==
  \/ Tick \/ Opened \/ Closed \/ Judge \/ Reboot
  \/ \E d \in Doc : Stage(d)
  \/ \E g \in 0 .. MAX + 1, secs \in Asked :
       \/ CommitMalformed(g, secs)
       \/ CommitNothing(g, secs)
       \/ CommitProvisional(g, secs)
  \/ Persist \/ NotPersisted \/ Undo
  \/ \E g \in 0 .. MAX + 1 : ConfirmBarred(g) \/ Confirm(g)

Spec == Init /\ [][Next]_vars

\* What the appliance's own scheduling gives.  A turn that was begun is finished;
\* the clock runs however many turns there are, which is strong fairness because
\* no tick falls inside one.  Whether a connection is ever established again, or
\* an open one carries anything that makes a turn, is not the appliance's to
\* say: the relay polls a quiet session once.
FinishTurn == turn = "judge" /\ Judge
AloneSpec == Spec /\ SF_vars(Tick) /\ WF_vars(FinishTurn) /\ WF_vars(Undo)
                  /\ WF_vars(Persist \/ NotPersisted)

-----------------------------------------------------------------------------
(* Properties *)

\* Types of the delegation's state.
TypeOK ==
  /\ D!TypeOK
  /\ medium = {} \/ \E v \in Version : medium = {v}
  /\ kept = {} \/ \E v \in Version : kept = {v}
  /\ \/ awaiting = {}
     \/ \E n \in 0 .. MAX_CONFIRM_SECONDS, b \in BOOLEAN :
          awaiting = {[left |-> n, fresh |-> b]}
  /\ staged = {} \/ \E d \in Doc : staged = {d}
  /\ session \in BOOLEAN /\ ending \in BOOLEAN
  /\ turn \in {"idle", "persist", "undo", "judge"}
  /\ line = <<>> \/ \E l \in Line : line = <<l>>
  /\ reboots \in 0 .. MaxReboots

\* A provisional configuration is never left without the deadline that undoes
\* it, whatever is staged, committed, confirmed or refused in between -- unless
\* the numbering is exhausted, when nothing can be put back.  And a deadline is
\* armed over nothing else: no confirmed configuration is reverted by one.
ProvisionalIsArmed ==
  /\ displaced # {} => awaiting # {} \/ generation = MAX
  /\ awaiting # {} => displaced # {}

\* What the appliance has confirmed is on its medium, under the number it was
\* confirmed by, until a newer commit displaces it there.  The last generation
\* is the exception: a commit of it the medium refused cannot be put back, and
\* a server that confirms it keeps what no restart would find.
ConfirmedIsDurable ==
  \A k \in kept : k.version = MAX \/ \E v \in medium :
    /\ v.version >= k.version
    /\ v.version = k.version => v.doc = k.doc

\* "If the confirmation does not arrive by the deadline ... the appliance
\* automatically rolls back" (configuration.md), which "needs nothing from the
\* wire" (configuration.rs): a provisional configuration is settled, being
\* confirmed, replaced or put back, whatever the server does or fails to do.
Outstanding == displaced # {} /\ generation < MAX
ProvisionalSettles ==
  \A g \in 0 .. MAX :
    Outstanding /\ generation = g ~> ~(Outstanding /\ generation = g)

==============================================================================
