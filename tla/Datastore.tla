------------------------------ MODULE Datastore ------------------------------
(***************************************************************************)
(* The configuration domain: the datastore of datad/crates/config          *)
(* (store.rs, provisional.rs, report.rs) behind the demand handler of      *)
(* datad/pds/config/src/main.rs.                                           *)
(*                                                                         *)
(* One wakeup of the domain is one action: it first folds the word the     *)
(* medium's holder publishes into the numbering floor, then serves at most *)
(* one demand, then offers the image of whatever it moved.  A document is  *)
(* a member of Doc; Valid are the ones the reader and the validator take.  *)
(* Two documents of one content are one member, which is what the content  *)
(* comparison of `apply` decides by.                                       *)
(***************************************************************************)
EXTENDS Integers

CONSTANTS Doc,      \* documents somebody may submit, by content
          Valid,    \* the ones load() accepts
          Empty,    \* Model::EMPTY, the fail-closed configuration
          BootDoc,  \* the document built into the appliance
          MAX       \* u32::MAX, the last generation

ASSUME DocAssumption == Valid \subseteq Doc /\ BootDoc \in Doc
ASSUME MaxAssumption == MAX \in Nat /\ MAX >= 1

VARIABLES
  generation,  \* Datastore::generation
  model,       \* Datastore::model; the hash beside it is a function of it
  candidate,   \* Datastore::candidate: {} or {document}
  displaced,   \* Datastore::displaced: {} or {record}
  durable,     \* Datastore::durable, the numbering floor
  recorded,    \* the DurableGeneration word, written by the medium's holder
  offered,     \* ConfigPublisher::offered, the last image handed over
  answer,      \* the last ConfigAnswer
  confirmed    \* history: the last generation a confirmation kept

store == <<generation, model, candidate, displaced, durable>>
vars == <<generation, model, candidate, displaced, durable, recorded, offered,
          answer, confirmed>>

Generation == 0 .. MAX
Content == Doc \cup {Empty}
Displaced == [provisional : Generation, generation : Generation,
              model : Content]
Word == 0 .. MAX + 1   \* a u64; MAX + 1 stands for any version past u32

-----------------------------------------------------------------------------
(* Numbering *)

Larger(a, b) == IF a > b THEN a ELSE b

\* Generation::next, a saturating successor.
Successor(g) == IF g = MAX THEN g ELSE g + 1

\* observe_durable: the floor after reading the word.  It only rises, and a
\* version wider than a generation exhausts the numbering.
Observed == IF recorded > MAX THEN MAX ELSE Larger(durable, recorded)

\* latest(), as it is once the word has been read on this wakeup.
Latest == Larger(Observed, generation)

\* Mutant: a numbering taken to be endless, its successor saturating unseen.
NeverExhausted == FALSE

\* next_generation() is None.
Exhausted == Successor(Latest) = Latest

Answer(kind, g) == [is |-> kind, generation |-> g]
AnswerKind == {"none", "staged", "rejected", "applied", "unchanged",
               "no_candidate", "mismatch", "exhausted", "confirmed",
               "not_provisional", "rolled_back"}

\* ConfigDomain::offer: ConfigPublisher::offer takes a generation newer than
\* the last one offered and refuses any other.
Offer(g) == offered' = IF g > offered THEN g ELSE offered

\* init: the built-in document is committed outright and offered.  One that
\* does not load, or says nothing, leaves the fail-closed configuration.
Booted == BootDoc \in Valid /\ BootDoc # Empty
Init ==
  /\ generation = IF Booted THEN 1 ELSE 0
  /\ model = IF Booted THEN BootDoc ELSE Empty
  /\ offered = generation
  /\ candidate = {}
  /\ displaced = {} /\ durable = 0 /\ recorded = 0
  /\ answer = Answer("none", 0)
  /\ confirmed = 0

-----------------------------------------------------------------------------
(* Actions *)

\* DurableGeneration::publish, by the domain holding the medium.
MediumRecords(r) ==
  /\ recorded' = r
  /\ UNCHANGED <<store, offered, answer, confirmed>>

\* A wakeup with no demand waiting.
Wakeup ==
  /\ durable' = Observed
  /\ UNCHANGED <<generation, model, candidate, displaced, recorded, offered,
                 answer, confirmed>>

\* ConfigOperation::Stage.  A document that does not load replaces nothing.
Stage(d) ==
  /\ durable' = Observed
  /\ \/ /\ d \in Valid
        /\ candidate' = {d}
        /\ answer' = Answer("staged", Successor(Latest))
     \/ /\ d \notin Valid
        /\ candidate' = candidate
        /\ answer' = Answer("rejected", generation)
  /\ UNCHANGED <<generation, model, displaced, recorded, offered, confirmed>>

\* The refusals of ConfigDomain::commit, in the order it decides them.
CommitRefused(g) ==
  /\ durable' = Observed
  /\ \/ /\ Exhausted
        /\ answer' = Answer("exhausted", generation)
     \/ /\ ~Exhausted /\ Successor(Latest) # g
        /\ answer' = Answer("mismatch", Successor(Latest))
     \/ /\ ~Exhausted /\ Successor(Latest) = g /\ candidate = {}
        /\ answer' = Answer("no_candidate", generation)
  /\ UNCHANGED <<generation, model, candidate, displaced, recorded, offered,
                 confirmed>>

\* ConfigOperation::Commit of a candidate that says something new: the
\* provisional `apply`, keeping what it displaces, and the offer.
CommitApplied(g) ==
  /\ ~Exhausted /\ Successor(Latest) = g
  /\ \E d \in candidate :
       /\ d # model
       /\ displaced' = {[provisional |-> g, generation |-> generation,
                         model |-> model]}
       /\ generation' = g /\ model' = d /\ candidate' = {}
  /\ durable' = Observed
  /\ answer' = Answer("applied", g)
  /\ Offer(g)
  /\ UNCHANGED <<recorded, confirmed>>

\* ConfigOperation::Commit of the content already running: it assigns no
\* generation and leaves whatever was outstanding outstanding.
CommitUnchanged(g) ==
  /\ ~Exhausted /\ Successor(Latest) = g
  /\ candidate = {model}
  /\ candidate' = {}
  /\ durable' = Observed
  /\ answer' = Answer("unchanged", generation)
  /\ UNCHANGED <<generation, model, displaced, recorded, offered, confirmed>>

Commit(g) == CommitRefused(g) \/ CommitApplied(g) \/ CommitUnchanged(g)

\* Mutant: a confirmation that forgets to give up what was displaced.
ConfirmKeeping(g) ==
  /\ durable' = Observed
  /\ \/ /\ displaced = {} /\ answer' = Answer("not_provisional", generation)
        /\ UNCHANGED confirmed
     \/ \E d \in displaced :
          /\ d.provisional # g /\ answer' = Answer("mismatch", d.provisional)
          /\ UNCHANGED confirmed
     \/ \E d \in displaced : d.provisional = g /\ confirmed' = g
                             /\ answer' = Answer("confirmed", g)
  /\ UNCHANGED <<generation, model, candidate, displaced, recorded, offered>>

\* ConfigOperation::Confirm
Confirm(g) ==
  /\ durable' = Observed
  /\ \/ /\ displaced = {}
        /\ answer' = Answer("not_provisional", generation)
        /\ UNCHANGED <<displaced, confirmed>>
     \/ \E d \in displaced :
          /\ d.provisional # g
          /\ answer' = Answer("mismatch", d.provisional)
          /\ UNCHANGED <<displaced, confirmed>>
     \/ \E d \in displaced :
          /\ d.provisional = g
          /\ displaced' = {}
          /\ confirmed' = g
          /\ answer' = Answer("confirmed", g)
  /\ UNCHANGED <<generation, model, candidate, recorded, offered>>

\* A rollback with nothing outstanding or no generation left to put the
\* previous configuration back under: nothing moves.
RollbackRefused ==
  /\ displaced = {} \/ Exhausted
  /\ durable' = Observed
  /\ answer' = Answer("not_provisional", generation)
  /\ UNCHANGED <<generation, model, candidate, displaced, recorded, offered,
                 confirmed>>

\* ConfigOperation::Rollback: the displaced configuration comes back in force
\* under a new generation; the candidate is left alone.
RollbackDone ==
  /\ ~Exhausted
  /\ \E d \in displaced :
       /\ generation' = Successor(Latest)
       /\ model' = d.model
       /\ displaced' = {}
       /\ answer' = Answer("rolled_back", Successor(Latest))
       /\ Offer(Successor(Latest))
  /\ durable' = Observed
  /\ UNCHANGED <<candidate, recorded, confirmed>>

Rollback == RollbackRefused \/ RollbackDone

Next ==
  \/ \E r \in Word : MediumRecords(r)
  \/ Wakeup
  \/ \E d \in Doc : Stage(d)
  \/ \E g \in Generation : CommitRefused(g)
  \/ \E g \in Generation : CommitApplied(g)
  \/ \E g \in Generation : CommitUnchanged(g)
  \/ \E g \in Generation : Confirm(g)
  \/ RollbackRefused
  \/ RollbackDone

Spec == Init /\ [][Next]_vars

-----------------------------------------------------------------------------
(* Properties *)

\* Types of the datastore; there is at most one candidate and at most one
\* displaced configuration.
TypeOK ==
  /\ generation \in Generation /\ durable \in Generation
  /\ model \in Content
  /\ candidate = {} \/ \E d \in Valid : candidate = {d}
  /\ displaced = {} \/ \E d \in Displaced : displaced = {d}
  /\ recorded \in Word /\ offered \in Generation
  /\ answer \in [is : AnswerKind, generation : Generation]
  /\ confirmed \in Generation

\* What can be undone is the configuration running now: the outstanding
\* commit is the running generation, it differs from what it displaced, and
\* it is newer.  A confirm or a rollback therefore always speaks of the
\* configuration deciding frames, across any interleaving of stagings,
\* commits of unchanged content, mismatched confirmations and floor changes.
OutstandingIsRunning ==
  \A d \in displaced :
    /\ d.provisional = generation
    /\ d.generation < d.provisional
    /\ d.model # model

\* A rollback never undoes a confirmed configuration nor goes back past the
\* last confirmed one: what is outstanding is newer than every confirmed
\* generation and what it would put back is at least as new.
ConfirmedStays ==
  \A d \in displaced : d.provisional > confirmed /\ d.generation >= confirmed

\* The consumer has been offered exactly what the store runs: no commit or
\* rollback meets the publisher's stale-offer refusal.
OfferedIsRunning == offered = generation

\* Every change of the running configuration takes a generation newer than
\* the one it replaces and than every version the medium was seen to record,
\* the one read on the same wakeup included: a commit or a rollback at the end
\* of the numbering (next_generation) is refused and never reuses a number,
\* which ConfigPublisher would refuse as stale with the new model in force.
Numbered ==
  [][model' # model \/ generation' # generation
       => generation' > generation /\ generation' > durable']_vars

=============================================================================
