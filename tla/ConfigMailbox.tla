--------------------------- MODULE ConfigMailbox ---------------------------
(***************************************************************************)
(* The configuration domain behind its mailbox: the request and the reply  *)
(* region of crates/wire/src/submission.rs, read and written access by     *)
(* access by the cryptography domain (pds/crypto/src/configuration.rs,     *)
(* `exchange`) and by the configuration domain (pds/config/src/main.rs,    *)
(* `serve_channel`), over the datastore of Datastore.                      *)
(*                                                                         *)
(* The requester may stop waiting and issue its next request while the     *)
(* responder still works on the last one.  Nothing orders the two domains  *)
(* but the release and the acquire of the two sequence words.  A document  *)
(* is two words; one copied from two requests may load as anything.  The   *)
(* length and the words beside an answer's generation move with theirs.    *)
(***************************************************************************)
EXTENDS Datastore

CONSTANTS LAST,        \* u32::MAX, the last sequence number
          MaxRequests, \* bound: requests made
          MaxGiveUps,  \* bound: exchanges the requester stops waiting for
          Named,       \* bound: the generations a commit or confirm names
          Recorded     \* bound: the versions the medium comes to record

ASSUME MailboxAssumption ==
  /\ {LAST, MaxRequests, MaxGiveUps} \subseteq Nat /\ LAST > MaxGiveUps + 1
  /\ Named \subseteq Generation /\ Recorded \subseteq Word

VARIABLES
  request,  \* ConfigRequest, the region: sequence, operation, generation, document
  reply,    \* ConfigReply, the region: sequence, status, generation
  crypto,   \* the requester: pc, ConfigRequester::sequence, the words of the
            \* request it is making, and what it has read of the reply
  config,   \* the responder: pc, ConfigResponder::served, and the ConfigDemand
  woken,    \* a notification the configuration domain has not taken
  requests, giveUps   \* how many were made, and given up on

regions == <<request, reply>>
mailbox == <<request, reply, crypto, config, woken, requests, giveUps>>
allVars == <<vars, mailbox>>

NoDoc == <<BootDoc, BootDoc>>   \* the words of a region nothing was written to

NoRequest == [op |-> "stage", gen |-> 0, doc |-> NoDoc]

\* The words beside a sequence number where there is no demand.
NoDemand(s) == [seq |-> s, op |-> "stage", gen |-> 0, doc |-> NoDoc]

\* What the cryptography domain asks for.
Requests ==
  {[op |-> "stage", gen |-> 0, doc |-> <<d, d>>] : d \in Doc}
    \cup {[op |-> o, gen |-> g, doc |-> NoDoc] : o \in {"commit", "confirm"}, g \in Named}
    \cup {[op |-> "rollback", gen |-> 0, doc |-> NoDoc]}

\* ConfigStatus::answers
Answers(is, op) ==
  CASE op = "stage" -> is \in {"staged", "rejected"}
    [] op = "commit" -> is \in {"applied", "unchanged", "exhausted",
                                "no_candidate", "mismatch"}
    [] op = "confirm" -> is \in {"confirmed", "not_provisional", "mismatch"}
    [] op = "rollback" -> is \in {"rolled_back", "not_provisional"}

-----------------------------------------------------------------------------
(* The requester *)

\* ConfigRequester::issue: zero is no request, and is stepped over.
NextSequence(s) == IF s = LAST THEN 1 ELSE s + 1

\* The stores of one request, in order: the document where there is one, then
\* the words beside it, and the sequence with Release.
\* Mutant: the sequence is stored first.
StoresSequenceFirst(op) ==
  IF op = "stage" THEN <<"seq", "doc1", "doc2", "gen", "op">>
                  ELSE <<"seq", "gen", "op">>
Stores(op) == IF op = "stage" THEN <<"doc1", "doc2", "gen", "op", "seq">>
                              ELSE <<"gen", "op", "seq">>

Issue(r) ==
  /\ crypto.pc = "idle"
  /\ requests < MaxRequests /\ requests' = requests + 1
  /\ crypto' = [crypto EXCEPT !.pc = "store", !.at = 1, !.ask = r,
                              !.seq = NextSequence(crypto.seq)]
  /\ UNCHANGED <<vars, regions, config, woken, giveUps>>

Stored(w) ==
  CASE w = "doc1" -> [request EXCEPT !.doc[1] = crypto.ask.doc[1]]
    [] w = "doc2" -> [request EXCEPT !.doc[2] = crypto.ask.doc[2]]
    [] w = "gen"  -> [request EXCEPT !.gen = crypto.ask.gen]
    [] w = "op"   -> [request EXCEPT !.op = crypto.ask.op]
    [] w = "seq"  -> [request EXCEPT !.seq = crypto.seq]

Store ==
  LET words == Stores(crypto.ask.op)
      last  == crypto.at = IF crypto.ask.op = "stage" THEN 5 ELSE 3
  IN
  /\ crypto.pc = "store"
  /\ request' = Stored(words[crypto.at])
  /\ crypto' = [crypto EXCEPT !.pc = IF last THEN "notify" ELSE "store",
                              !.at = IF last THEN 0 ELSE @ + 1]
  /\ UNCHANGED <<vars, reply, config, woken, requests, giveUps>>

\* ChannelConfig::exchange: the notification follows the request.
\* Mutant: the responder is not notified.
NotifyNobody ==
  /\ crypto.pc = "notify"
  /\ crypto' = [crypto EXCEPT !.pc = "poll"]
  /\ UNCHANGED <<vars, regions, config, woken, requests, giveUps>>
Notify ==
  /\ crypto.pc = "notify"
  /\ crypto' = [crypto EXCEPT !.pc = "poll"]
  /\ woken' = TRUE
  /\ UNCHANGED <<vars, regions, config, requests, giveUps>>

\* ConfigRequester::poll: the sequence with Acquire, and nothing else unless
\* it is this request's.
Poll ==
  /\ crypto.pc = "poll" /\ reply.seq = crypto.seq
  /\ crypto' = [crypto EXCEPT !.pc = "status"]
  /\ UNCHANGED <<vars, regions, config, woken, requests, giveUps>>

\* The status word.  One that does not answer the operation is a fault, and
\* ends the exchange.
ReadStatus ==
  /\ crypto.pc = "status"
  /\ crypto' = [crypto EXCEPT !.got = [is |-> reply.is, generation |-> 0],
                  !.pc = IF Answers(reply.is, crypto.ask.op) THEN "generation"
                         ELSE "faulted"]
  /\ UNCHANGED <<vars, regions, config, woken, requests, giveUps>>

ReadGeneration ==
  /\ crypto.pc = "generation"
  /\ crypto' = [crypto EXCEPT !.got.generation = reply.generation,
                              !.pc = "answered"]
  /\ UNCHANGED <<vars, regions, config, woken, requests, giveUps>>

\* POLL_BUDGET reads found nothing: the exchange is over and the handle gone.
GiveUp ==
  /\ crypto.pc = "poll" /\ giveUps < MaxGiveUps
  /\ giveUps' = giveUps + 1
  /\ crypto' = [crypto EXCEPT !.pc = "idle", !.ask = NoRequest]
  /\ UNCHANGED <<vars, regions, config, woken, requests>>

\* The caller has its Answer and may ask again.
Return ==
  /\ crypto.pc \in {"answered", "faulted"}
  /\ crypto' = [crypto EXCEPT !.pc = "idle", !.ask = NoRequest,
                              !.got = Answer("none", 0)]
  /\ UNCHANGED <<vars, regions, config, woken, requests, giveUps>>

-----------------------------------------------------------------------------
(* The responder *)

\* Microkit coalesces notifications: another neighbour's wakes the domain too.
Disturbed ==
  /\ ~woken /\ woken' = TRUE
  /\ UNCHANGED <<vars, regions, crypto, config, requests, giveUps>>

\* ConfigResponder::take yields one demand a change.
Waiting == request.seq # 0 /\ request.seq # config.served

\* ConfigDomain::notified with no demand waiting: the floor is read and
\* nothing served.
NotifiedIdle ==
  /\ config.pc = "idle" /\ woken /\ ~Waiting
  /\ woken' = FALSE
  /\ Wakeup
  /\ UNCHANGED <<regions, crypto, config, requests, giveUps>>

\* ConfigResponder::take reads the sequence, then the operation, then the
\* generation; ConfigResponder::document copies the document.  The floor is
\* read before all of them; it is read here with the decision, which no other
\* domain can tell apart.
Take ==
  /\ config.pc = "idle" /\ woken /\ Waiting
  /\ woken' = FALSE
  /\ config' = [config EXCEPT !.pc = "op", !.demand.seq = request.seq]
  /\ UNCHANGED <<vars, regions, crypto, requests, giveUps>>
ReadDemand ==
  /\ \/ /\ config.pc = "op"
        /\ config' = [config EXCEPT !.pc = "gen", !.demand.op = request.op]
     \/ /\ config.pc = "gen"
        /\ config' = [config EXCEPT !.demand.gen = request.gen,
                        !.pc = IF config.demand.op = "stage" THEN "doc1" ELSE "decide"]
     \/ /\ config.pc = "doc1"
        /\ config' = [config EXCEPT !.pc = "doc2", !.demand.doc[1] = request.doc[1]]
     \/ /\ config.pc = "doc2"
        /\ config' = [config EXCEPT !.pc = "decide", !.demand.doc[2] = request.doc[2]]
  /\ UNCHANGED <<vars, regions, crypto, woken, requests, giveUps>>

\* What a copied document may load as.
Loads(doc) == IF doc[1] = doc[2] THEN {doc[1]} ELSE Doc

\* ConfigDomain::stage, commit, confirm, revert
Decided ==
  LET d == config.demand IN
  \/ d.op = "stage" /\ \E x \in Loads(d.doc) : Stage(x)
  \/ d.op = "commit" /\ CommitRefused(d.gen)
  \/ d.op = "commit" /\ CommitApplied(d.gen)
  \/ d.op = "commit" /\ CommitUnchanged(d.gen)
  \/ d.op = "confirm" /\ Confirm(d.gen)
  \/ d.op = "rollback" /\ RollbackRefused
  \/ d.op = "rollback" /\ RollbackDone
Decide ==
  /\ config.pc = "decide"
  /\ Decided
  /\ config' = [config EXCEPT !.pc = "status"]
  /\ UNCHANGED <<regions, crypto, woken, requests, giveUps>>

\* ConfigResponder::publish: the words of the answer, then the sequence with
\* Release.
\* Mutant: the sequence is stored with the status.
PublishEarly ==
  /\ \/ /\ config.pc = "status"
        /\ reply' = [reply EXCEPT !.is = answer.is, !.seq = config.demand.seq]
        /\ config' = [config EXCEPT !.pc = "generation"]
     \/ /\ config.pc = "generation"
        /\ reply' = [reply EXCEPT !.generation = answer.generation]
        /\ config' = [config EXCEPT !.pc = "idle", !.served = config.demand.seq,
                                   !.demand = NoDemand(config.demand.seq)]
  /\ UNCHANGED <<vars, request, crypto, woken, requests, giveUps>>
Publish ==
  /\ \/ /\ config.pc = "status"
        /\ reply' = [reply EXCEPT !.is = answer.is]
        /\ config' = [config EXCEPT !.pc = "generation"]
     \/ /\ config.pc = "generation"
        /\ reply' = [reply EXCEPT !.generation = answer.generation]
        /\ config' = [config EXCEPT !.pc = "seq"]
     \/ /\ config.pc = "seq"
        /\ reply' = [reply EXCEPT !.seq = config.demand.seq]
        /\ config' = [config EXCEPT !.pc = "idle", !.served = config.demand.seq,
                                   !.demand = NoDemand(config.demand.seq)]
  /\ UNCHANGED <<vars, request, crypto, woken, requests, giveUps>>

-----------------------------------------------------------------------------

\* Both regions are zeroed.
MailboxInit ==
  /\ Init
  /\ request = NoDemand(0)
  /\ reply = [seq |-> 0, is |-> "none", generation |-> 0]
  /\ crypto = [pc |-> "idle", at |-> 0, seq |-> 0,
               ask |-> NoRequest,
               got |-> Answer("none", 0)]
  /\ config = [pc |-> "idle", served |-> 0, demand |-> request]
  /\ woken = FALSE
  /\ requests = 0 /\ giveUps = 0

\* DurableGeneration::publish, by the domain holding the medium.
Records(r) == r > recorded /\ MediumRecords(r) /\ UNCHANGED mailbox

Requester ==
  \/ Store \/ Notify \/ Poll \/ ReadStatus \/ ReadGeneration \/ Return
Responder == NotifiedIdle \/ Take \/ ReadDemand \/ Decide \/ Publish

MailboxNext ==
  \/ \E r \in Requests : Issue(r)
  \/ \E r \in Recorded : Records(r)
  \/ Disturbed
  \/ GiveUp
  \/ Requester
  \/ Responder

\* A notified domain runs, and the requester's reads go on.
MailboxSpec == MailboxInit /\ [][MailboxNext]_allVars
               /\ WF_allVars(Requester) /\ WF_allVars(Responder)

-----------------------------------------------------------------------------
(* Properties *)

\* The request the responder holds is the one the requester is waiting for.
Current == config.demand.seq = crypto.seq
           /\ crypto.pc \notin {"idle", "store"}

\* What is decided on is what was asked: a demand whose requester still waits
\* for it carries that request's operation, generation and document, none of
\* them left over from the last request or taken from the next one
\* (ConfigRequester::issue, ConfigResponder::take and document).
DecidedAsAsked ==
  config.pc = "decide" /\ Current =>
    /\ config.demand.op = crypto.ask.op
    /\ config.demand.gen = crypto.ask.gen
    /\ config.demand.op = "stage" => config.demand.doc = crypto.ask.doc

\* What is believed is what was decided: an exchange that ends with an answer
\* ends with the whole answer the datastore gave, to this request, and none
\* ends with a fault, whichever earlier request was given up on and answered
\* late (ConfigResponder::publish, ConfigRequester::poll).
BelievedIsDecided ==
  /\ crypto.pc = "answered" =>
       Current /\ crypto.got = answer /\ config.pc = "idle"
  /\ crypto.pc # "faulted"

\* A request that was made is served, even one given up on, unless another
\* takes its place: no wakeup is lost, and one another neighbour raised counts
\* as well (ConfigDomain::notified asks the regions and not the wakeup).
Unserved == request.seq # config.served
RequestIsServed ==
  Unserved /\ crypto.pc \in {"poll", "idle"} ~> (~Unserved \/ crypto.pc = "store")

=============================================================================
