------------------------ MODULE ConfigMailboxProofs ------------------------
(***************************************************************************)
(* Safety of the configuration datastore, and of the mailbox in front of   *)
(* it, for every set of documents, every width of the generation counter   *)
(* and every width of the sequence number.                                 *)
(*                                                                         *)
(* The first part is about Datastore alone.  The second shows that the     *)
(* mailbox makes only the datastore's steps, and that each request is      *)
(* decided as it was asked and answered with what was decided.             *)
(***************************************************************************)
EXTENDS ConfigMailbox, TLAPS

USE ZenonT(60)

-----------------------------------------------------------------------------
(* The datastore *)

\* The inductive invariant: what was confirmed is never newer than what runs.
IInv == /\ TypeOK
        /\ OutstandingIsRunning
        /\ ConfirmedStays
        /\ OfferedIsRunning
        /\ confirmed <= generation

\* The floor observe_durable leaves is a generation and is not below the
\* previous one.
LEMMA ObservedRises ==
  ASSUME TypeOK
  PROVE  Observed \in Generation /\ Observed >= durable
  BY SMTT(60), MaxAssumption DEF TypeOK, Observed, Larger, Generation, Word

\* Unless the counter is exhausted, the next generation is past the running
\* one and past the floor.
LEMMA SuccessorIsNew ==
  ASSUME TypeOK, ~Exhausted
  PROVE  /\ Successor(Latest) \in Generation
         /\ Successor(Latest) > generation
         /\ Successor(Latest) > Observed
  BY SMTT(60), ObservedRises, MaxAssumption
     DEF TypeOK, Latest, Larger, Successor, Exhausted, Generation

\* Staging always names a generation.
LEMMA SuccessorTyped ==
  ASSUME TypeOK
  PROVE  Successor(Latest) \in Generation
  BY SMTT(60), ObservedRises, MaxAssumption
     DEF TypeOK, Latest, Larger, Successor, Generation

\* Answers are well formed.
LEMMA AnswerTyped ==
  ASSUME NEW k \in AnswerKind, NEW g \in Generation
  PROVE  Answer(k, g) \in [is : AnswerKind, generation : Generation]
  BY DEF Answer

\* The store init leaves satisfies the invariant.
LEMMA InitIInv == Init => IInv
  BY SMTT(60), DocAssumption, MaxAssumption
     DEF Init, IInv, TypeOK, OutstandingIsRunning, ConfirmedStays,
         OfferedIsRunning, Generation, Content, Word, Answer, AnswerKind, Booted

\* A wakeup that serves nothing, or a word the medium publishes.
LEMMA QuietIInv ==
  ASSUME IInv, Wakeup \/ \E r \in Word : MediumRecords(r)
  PROVE  IInv'
  <1>1. CASE Wakeup
    BY <1>1, ObservedRises
       DEF Wakeup, IInv, TypeOK, OutstandingIsRunning, ConfirmedStays,
           OfferedIsRunning
  <1>2. CASE \E r \in Word : MediumRecords(r)
    BY <1>2 DEF MediumRecords, store, IInv, TypeOK, OutstandingIsRunning,
                ConfirmedStays, OfferedIsRunning
  <1> QED BY <1>1, <1>2

\* Staging moves only the candidate.
LEMMA StageIInv ==
  ASSUME IInv, NEW d \in Doc, Stage(d)
  PROVE  IInv'
  <1>1. answer' \in [is : AnswerKind, generation : Generation]
    BY SMTT(60), AnswerTyped, SuccessorTyped
       DEF Stage, IInv, TypeOK, AnswerKind
  <1>2. candidate' = {} \/ \E v \in Valid : candidate' = {v}
    BY DEF Stage, IInv, TypeOK
  <1>3. TypeOK'
    BY <1>1, <1>2, ObservedRises DEF Stage, IInv, TypeOK
  <1> QED BY <1>3 DEF Stage, IInv, OutstandingIsRunning, ConfirmedStays,
                      OfferedIsRunning

\* A refused commit moves nothing.
LEMMA CommitRefusedIInv ==
  ASSUME IInv, NEW g \in Generation, CommitRefused(g)
  PROVE  IInv'
  <1>1. answer' \in [is : AnswerKind, generation : Generation]
    BY SMTT(60), AnswerTyped, SuccessorTyped
       DEF CommitRefused, IInv, TypeOK, AnswerKind
  <1>2. TypeOK'
    BY <1>1, ObservedRises DEF CommitRefused, IInv, TypeOK
  <1> QED BY <1>2 DEF CommitRefused, IInv, OutstandingIsRunning,
                      ConfirmedStays, OfferedIsRunning

\* An applied commit keeps exactly what it displaced.
LEMMA CommitAppliedIInv ==
  ASSUME IInv, NEW g \in Generation, CommitApplied(g)
  PROVE  IInv'
  <1> DEFINE old == [provisional |-> g, generation |-> generation,
                     model |-> model]
  <1>1. PICK d \in candidate :
          /\ d # model /\ displaced' = {old}
          /\ generation' = g /\ model' = d /\ candidate' = {}
    BY DEF CommitApplied
  <1>2. g > generation /\ g > Observed
    BY SuccessorIsNew DEF CommitApplied, IInv
  <1>3. d \in Content
    BY <1>1, DocAssumption DEF IInv, TypeOK, Content
  <1>4. old \in Displaced BY DEF IInv, TypeOK, Displaced
  <1>5. answer' \in [is : AnswerKind, generation : Generation]
    BY AnswerTyped DEF CommitApplied, AnswerKind
  <1>6. offered' = generation'
    BY <1>1, <1>2 DEF CommitApplied, Offer, IInv, OfferedIsRunning
  <1>7. TypeOK'
    BY <1>1, <1>3, <1>4, <1>5, <1>6, ObservedRises
       DEF CommitApplied, IInv, TypeOK
  <1>8. (OutstandingIsRunning /\ ConfirmedStays /\ confirmed <= generation)'
    <2>1. /\ old.provisional = g /\ old.generation = generation
          /\ old.model = model
      OBVIOUS
    <2>2. confirmed' = confirmed BY DEF CommitApplied
    <2>3. /\ confirmed \in Nat /\ generation \in Nat /\ g \in Nat
          /\ confirmed <= generation
      BY SMTT(60), MaxAssumption DEF IInv, TypeOK, Generation
    <2> HIDE DEF old
    <2> QED BY SMTT(60), <1>1, <1>2, <2>1, <2>2, <2>3
            DEF OutstandingIsRunning, ConfirmedStays
  <1> QED BY <1>6, <1>7, <1>8 DEF IInv, OfferedIsRunning

\* A commit of the running content consumes the candidate only.
LEMMA CommitUnchangedIInv ==
  ASSUME IInv, NEW g \in Generation, CommitUnchanged(g)
  PROVE  IInv'
  <1>1. answer' \in [is : AnswerKind, generation : Generation]
    BY AnswerTyped DEF CommitUnchanged, IInv, TypeOK, AnswerKind
  <1>2. TypeOK'
    BY <1>1, ObservedRises DEF CommitUnchanged, IInv, TypeOK
  <1> QED BY <1>2 DEF CommitUnchanged, IInv, OutstandingIsRunning,
                      ConfirmedStays, OfferedIsRunning

\* A confirmation keeps the running generation, which is the newest.
LEMMA ConfirmIInv ==
  ASSUME IInv, NEW g \in Generation, Confirm(g)
  PROVE  IInv'
  <1>1. \A d \in displaced : d.provisional \in Generation
    BY DEF IInv, TypeOK, Displaced
  <1>2. answer' \in [is : AnswerKind, generation : Generation]
    BY SMTT(60), <1>1, AnswerTyped DEF Confirm, IInv, TypeOK, AnswerKind
  <1>3. /\ displaced' = {} \/ displaced' = displaced
        /\ confirmed' \in Generation
    BY DEF Confirm, IInv, TypeOK
  <1>4. TypeOK'
    BY <1>2, <1>3, ObservedRises DEF Confirm, IInv, TypeOK
  <1>5. CASE UNCHANGED <<displaced, confirmed>>
    BY <1>4, <1>5 DEF Confirm, IInv, OutstandingIsRunning, ConfirmedStays,
                      OfferedIsRunning
  <1>6. CASE displaced' = {} /\ \E d \in displaced :
                                  d.provisional = g /\ confirmed' = g
    <2>1. confirmed' = generation
      BY <1>6 DEF IInv, OutstandingIsRunning
    <2>2. generation <= generation BY SMTT(60), MaxAssumption
      DEF IInv, TypeOK, Generation
    <2> QED BY <1>4, <1>6, <2>1, <2>2
            DEF Confirm, IInv, OutstandingIsRunning, ConfirmedStays,
                OfferedIsRunning
  <1> QED BY <1>5, <1>6 DEF Confirm

\* A refused rollback moves nothing.
LEMMA RollbackRefusedIInv ==
  ASSUME IInv, RollbackRefused
  PROVE  IInv'
  <1>1. answer' \in [is : AnswerKind, generation : Generation]
    BY AnswerTyped DEF RollbackRefused, IInv, TypeOK, AnswerKind
  <1>2. TypeOK'
    BY <1>1, ObservedRises DEF RollbackRefused, IInv, TypeOK
  <1> QED BY <1>2 DEF RollbackRefused, IInv, OutstandingIsRunning,
                      ConfirmedStays, OfferedIsRunning

\* A rollback renumbers forward and leaves nothing outstanding.
LEMMA RollbackDoneIInv ==
  ASSUME IInv, RollbackDone
  PROVE  IInv'
  <1> DEFINE g == Successor(Latest)
  <1>1. PICK d \in displaced :
          /\ generation' = g /\ model' = d.model /\ displaced' = {}
          /\ answer' = Answer("rolled_back", g) /\ Offer(g)
    BY DEF RollbackDone
  <1>2. g \in Generation /\ g > generation
    BY SuccessorIsNew DEF RollbackDone, IInv
  <1>3. d.model \in Content BY DEF IInv, TypeOK, Displaced
  <1> HIDE DEF g
  <1>4. answer' \in [is : AnswerKind, generation : Generation]
    BY <1>1, <1>2, AnswerTyped DEF AnswerKind
  <1>5. offered' = generation'
    BY <1>1, <1>2 DEF Offer, IInv, OfferedIsRunning
  <1>6. TypeOK'
    BY <1>1, <1>2, <1>3, <1>4, <1>5, ObservedRises
       DEF RollbackDone, IInv, TypeOK
  <1>7. (confirmed <= generation)'
    BY SMTT(60), <1>1, <1>2, MaxAssumption
       DEF RollbackDone, IInv, TypeOK, Generation
  <1> QED BY <1>1, <1>5, <1>6, <1>7
          DEF IInv, OfferedIsRunning, OutstandingIsRunning, ConfirmedStays

\* Every step of the configuration domain preserves the invariant.
LEMMA NextIInv == IInv /\ [Next]_vars => IInv'
  <1>1. IInv /\ UNCHANGED vars => IInv'
    BY DEF vars, IInv, TypeOK, OutstandingIsRunning, ConfirmedStays,
           OfferedIsRunning
  <1> QED BY <1>1, QuietIInv, StageIInv, CommitRefusedIInv,
             CommitAppliedIInv, CommitUnchangedIInv, ConfirmIInv,
             RollbackRefusedIInv, RollbackDoneIInv DEF Next

\* The datastore keeps its inductive invariant in every behaviour.
THEOREM Invariance == Spec => []IInv
  BY InitIInv, NextIInv, PTL DEF Spec

\* What a confirm or a rollback decides about is always the configuration
\* running now, and it is always newer than what it displaced.
THEOREM Undoable == Spec => []OutstandingIsRunning
  <1>1. IInv => OutstandingIsRunning BY DEF IInv
  <1> QED BY Invariance, <1>1, PTL

\* No rollback undoes a confirmed generation.
THEOREM Settled == Spec => []ConfirmedStays
  <1>1. IInv => ConfirmedStays BY DEF IInv
  <1> QED BY Invariance, <1>1, PTL

\* Every commit and rollback reaches the consumer's handover.
THEOREM AlwaysOffered == Spec => []OfferedIsRunning
  <1>1. IInv => OfferedIsRunning BY DEF IInv
  <1> QED BY Invariance, <1>1, PTL

\* A change of what runs always takes a generation newer than the running one
\* and than the numbering floor.
THEOREM NumberedForward == Spec => Numbered
  <1> DEFINE Fresh == model' # model \/ generation' # generation
                        => generation' > generation /\ generation' > durable'
  <1>1. ASSUME IInv, [Next]_vars PROVE [Fresh]_vars
    <2>1. CASE UNCHANGED vars BY <2>1 DEF vars
    <2>2. CASE \E g \in Generation : CommitApplied(g)
      <3>1. PICK g \in Generation : CommitApplied(g) BY <2>2
      <3>2. generation' = g /\ durable' = Observed
        BY <3>1 DEF CommitApplied
      <3>3. g > generation /\ g > Observed
        BY <1>1, <3>1, SuccessorIsNew DEF CommitApplied, IInv
      <3> QED BY <3>2, <3>3
    <2>3. CASE RollbackDone
      <3>1. generation' = Successor(Latest) /\ durable' = Observed
        BY <2>3 DEF RollbackDone
      <3>2. Successor(Latest) > generation /\ Successor(Latest) > Observed
        BY <1>1, <2>3, SuccessorIsNew DEF RollbackDone, IInv
      <3> QED BY <3>1, <3>2
    <2>4. CASE UNCHANGED <<model, generation>> BY <2>4
    <2> QED BY <1>1, <2>1, <2>2, <2>3, <2>4
            DEF Next, MediumRecords, store, Wakeup, Stage, CommitRefused,
                CommitUnchanged, Confirm, RollbackRefused
  <1>2. Spec => []IInv BY Invariance
  <1>3. Spec => [][Next]_vars BY DEF Spec
  <1> QED BY <1>1, <1>2, <1>3, PTL DEF Numbered

-----------------------------------------------------------------------------
(* The mailbox *)

Op == {"stage", "commit", "confirm", "rollback"}
Sequence == 0 .. LAST
DocWords == [1 .. 2 -> Doc]
Ask == [op : Op, gen : Generation, doc : DocWords]
Demand == [seq : Sequence, op : Op, gen : Generation, doc : DocWords]

AnswerWords == [is : AnswerKind, generation : Generation]
Reply == [seq : Sequence, is : AnswerKind, generation : Generation]
RequesterState ==
  [pc : {"idle", "store", "notify", "poll", "status", "generation", "answered",
         "faulted"},
   at : 0 .. 5, seq : Sequence, ask : Ask, got : AnswerWords]
ResponderState ==
  [pc : {"idle", "op", "gen", "doc1", "doc2", "decide", "status", "generation",
         "seq"},
   served : Sequence, demand : Demand]

\* Types of the two regions and of the two ends.
MailboxTypeOK ==
  /\ request \in Demand
  /\ reply \in Reply
  /\ crypto \in RequesterState
  /\ config \in ResponderState
  /\ giveUps \in 0 .. MaxGiveUps

\* How many requests were issued after the one numbered q, when the last was
\* numbered c: the numbers go round, past zero.
Age(q, c) == IF c >= q THEN c - q ELSE c + LAST - q

\* How old what the responder holds may be: a request nobody gave up on was
\* answered before the next was issued.
Unanswered == IF crypto.pc \in {"store", "notify", "poll"} THEN giveUps + 1
                                                           ELSE giveUps

\* The sequence numbers tell requests apart: what was taken and what was
\* served is never so old that its number has come round again.
Numbering ==
  /\ crypto.pc = "store" => crypto.seq = NextSequence(request.seq)
  /\ crypto.pc # "store" => crypto.seq = request.seq
  /\ Age(config.served, crypto.seq) <= Unanswered
  /\ Age(config.demand.seq, crypto.seq) <= Unanswered
  /\ crypto.pc = "store" => /\ config.served # crypto.seq
                            /\ config.demand.seq # crypto.seq

\* Who waits for whom: the reply carries the number served, the responder is
\* idle once it has served the last request, and that is what the requester
\* reads the reply of.
Turns ==
  /\ reply.seq = config.served
  /\ config.pc = "idle" => config.demand.seq = config.served
  /\ crypto.pc # "store" /\ config.served = crypto.seq => config.pc = "idle"
  /\ crypto.pc \in {"status", "generation", "answered"} =>
       config.served = crypto.seq
  /\ crypto.pc # "faulted"

\* The words of the request stored so far.
Written ==
  /\ crypto.pc = "store" /\ crypto.ask.op = "stage" =>
       /\ crypto.at \in 1 .. 5
       /\ crypto.at >= 2 => request.doc[1] = crypto.ask.doc[1]
       /\ crypto.at >= 3 => request.doc[2] = crypto.ask.doc[2]
       /\ crypto.at >= 4 => request.gen = crypto.ask.gen
       /\ crypto.at >= 5 => request.op = crypto.ask.op
  /\ crypto.pc = "store" /\ crypto.ask.op # "stage" =>
       /\ crypto.at \in 1 .. 3
       /\ crypto.at >= 2 => request.gen = crypto.ask.gen
       /\ crypto.at >= 3 => request.op = crypto.ask.op
  /\ crypto.pc \notin {"idle", "store"} =>
       /\ request.op = crypto.ask.op
       /\ request.gen = crypto.ask.gen
       /\ crypto.ask.op = "stage" => request.doc[1] = crypto.ask.doc[1]
                                     /\ request.doc[2] = crypto.ask.doc[2]

\* The words of the demand read so far, while its requester waits for it.
Held ==
  Current =>
    /\ config.pc \notin {"idle", "op"} => config.demand.op = crypto.ask.op
    /\ config.pc \in {"doc1", "doc2"} => config.demand.op = "stage"
    /\ config.pc \in {"doc1", "doc2", "decide"} =>
         config.demand.gen = crypto.ask.gen
    /\ config.pc = "doc2" => config.demand.doc[1] = crypto.ask.doc[1]
    /\ config.pc = "decide" /\ config.demand.op = "stage" =>
         /\ config.demand.doc[1] = crypto.ask.doc[1]
         /\ config.demand.doc[2] = crypto.ask.doc[2]

\* The words of the answer published so far, and the whole of it once its
\* sequence is.
Published ==
  /\ config.pc \in {"status", "generation", "seq"} =>
       Answers(answer.is, config.demand.op)
  /\ config.pc \in {"generation", "seq"} => reply.is = answer.is
  /\ config.pc = "seq" => reply.generation = answer.generation
  /\ crypto.pc \notin {"idle", "store"} /\ config.served = crypto.seq =>
       /\ Answers(answer.is, crypto.ask.op)
       /\ reply.is = answer.is
       /\ reply.generation = answer.generation

\* The words of the reply read so far.
Believed ==
  /\ crypto.pc \in {"generation", "answered"} => crypto.got.is = reply.is
  /\ crypto.pc = "answered" => crypto.got.generation = reply.generation

\* The inductive invariant of the mailbox, beside the datastore's.
MInv == /\ MailboxTypeOK
        /\ Numbering
        /\ Turns
        /\ Written
        /\ Held
        /\ Published
        /\ Believed

\* What the assumption says of each constant.
LEMMA Widths ==
  /\ LAST \in Nat /\ MaxGiveUps \in Nat /\ LAST > MaxGiveUps + 1
  /\ Recorded \subseteq Word
  BY SMTT(60), MailboxAssumption

\* The next number is not the one of anything the responder may still hold.
LEMMA AgeNext ==
  ASSUME NEW q \in Sequence, NEW c \in Sequence, NEW n \in 0 .. MaxGiveUps,
         Age(q, c) <= n
  PROVE  /\ NextSequence(c) \in Sequence
         /\ NextSequence(c) # q
         /\ Age(q, NextSequence(c)) <= n + 1
  BY SMTT(60), Widths DEF Age, NextSequence, Sequence

\* The last request, and the one before it.
LEMMA AgeNow ==
  ASSUME NEW c \in Sequence
  PROVE  /\ Age(c, c) = 0
         /\ NextSequence(c) # c
         /\ Age(c, NextSequence(c)) = 1
  BY SMTT(60), Widths DEF Age, NextSequence, Sequence

\* Everything asked is well formed, and so is what says nothing.
LEMMA AskTyped ==
  /\ Requests \subseteq Ask
  /\ NoRequest \in Ask
  /\ \A s \in Sequence : NoDemand(s) \in Demand
  <1>1. NoDoc \in DocWords
    BY SMTT(60), DocAssumption DEF NoDoc, DocWords
  <1>2. \A d \in Doc : <<d, d>> \in DocWords
    BY SMTT(60) DEF DocWords
  <1>3. 0 \in Generation
    BY SMTT(60), MaxAssumption DEF Generation
  <1>4. ASSUME NEW r \in Requests PROVE r \in Ask
    <2>1. CASE \E d \in Doc : r = [op |-> "stage", gen |-> 0, doc |-> <<d, d>>]
      <3>1. PICK d \in Doc : r = [op |-> "stage", gen |-> 0, doc |-> <<d, d>>]
        BY <2>1
      <3>2. <<d, d>> \in DocWords BY <1>2
      <3> QED BY <1>3, <3>1, <3>2 DEF Ask, Op
    <2>2. CASE \E o \in {"commit", "confirm"}, g \in Named :
                 r = [op |-> o, gen |-> g, doc |-> NoDoc]
      <3>1. PICK o \in {"commit", "confirm"}, g \in Named :
              r = [op |-> o, gen |-> g, doc |-> NoDoc]
        BY <2>2
      <3>2. o \in Op /\ g \in Generation BY MailboxAssumption DEF Op
      <3> QED BY <1>1, <3>1, <3>2 DEF Ask
    <2>3. CASE r = [op |-> "rollback", gen |-> 0, doc |-> NoDoc]
      BY <1>1, <1>3, <2>3 DEF Ask, Op
    <2> QED BY SMTT(60), <2>1, <2>2, <2>3 DEF Requests
  <1> QED BY <1>1, <1>3, <1>4 DEF NoRequest, NoDemand, Ask, Demand, Op

\* Both ends are idle over regions nothing was written to.
LEMMA InitMInv == MailboxInit => MInv
  <1> SUFFICES ASSUME MailboxInit PROVE MInv OBVIOUS
  <1>1. 0 \in Sequence /\ 0 \in Generation /\ 0 \in 0 .. MaxGiveUps
        /\ 0 \in 0 .. 5
    BY SMTT(60), Widths, MaxAssumption DEF Sequence, Generation
  <1>2. /\ request = NoDemand(0) /\ NoDemand(0) \in Demand
        /\ request.seq = 0
        /\ reply = [seq |-> 0, is |-> "none", generation |-> 0]
        /\ crypto.pc = "idle" /\ crypto.seq = 0
        /\ config.pc = "idle" /\ config.served = 0 /\ config.demand = request
        /\ giveUps = 0
    BY <1>1, AskTyped DEF MailboxInit, NoDemand
  <1>3. MailboxTypeOK
    <2>1. crypto \in RequesterState
      BY <1>1, AskTyped
         DEF MailboxInit, RequesterState, AnswerWords, AnswerKind, Answer
    <2>2. config \in ResponderState
      BY <1>1, <1>2 DEF MailboxInit, ResponderState
    <2>3. reply \in Reply
      BY <1>1, <1>2 DEF Reply, AnswerKind
    <2> QED BY <1>1, <1>2, <2>1, <2>2, <2>3 DEF MailboxTypeOK
  <1>4. Age(0, 0) <= 0
    BY SMTT(60) DEF Age
  <1>5. Numbering
    BY <1>2, <1>4 DEF Numbering, Unanswered
  <1> QED BY <1>2, <1>3, <1>5
          DEF MInv, Turns, Written, Held, Current, Published, Believed

-----------------------------------------------------------------------------
(* The requester's steps *)

\* A new request takes a number nothing the responder holds still carries.
LEMMA IssueMInv ==
  ASSUME MInv, NEW r \in Requests, Issue(r)
  PROVE  MInv'
  <1> USE DEF MInv
  <1>1. /\ crypto.pc = "idle"
        /\ crypto' = [crypto EXCEPT !.pc = "store", !.at = 1, !.ask = r,
                                    !.seq = NextSequence(crypto.seq)]
        /\ UNCHANGED <<request, reply, config, giveUps, answer>>
    BY DEF Issue, regions, vars
  <1>2. /\ crypto'.pc = "store" /\ crypto'.at = 1 /\ crypto'.ask = r
        /\ crypto'.seq = NextSequence(crypto.seq) /\ crypto'.got = crypto.got
    BY <1>1 DEF MailboxTypeOK, RequesterState
  <1>3. /\ crypto.seq \in Sequence /\ crypto.seq = request.seq
        /\ config.served \in Sequence /\ config.demand.seq \in Sequence
        /\ giveUps \in 0 .. MaxGiveUps
        /\ Age(config.served, crypto.seq) <= giveUps
        /\ Age(config.demand.seq, crypto.seq) <= giveUps
    BY <1>1 DEF MailboxTypeOK, ResponderState, Demand, Numbering, Unanswered
  <1>4. /\ NextSequence(crypto.seq) \in Sequence
        /\ NextSequence(crypto.seq) # config.served
        /\ NextSequence(crypto.seq) # config.demand.seq
        /\ Age(config.served, NextSequence(crypto.seq)) <= giveUps + 1
        /\ Age(config.demand.seq, NextSequence(crypto.seq)) <= giveUps + 1
    BY <1>3, AgeNext
  <1>5. MailboxTypeOK'
    <2>1. r \in Ask /\ 1 \in 0 .. 5
      BY SMTT(60), AskTyped
    <2>2. crypto' \in RequesterState
      BY <1>1, <1>4, <2>1 DEF MailboxTypeOK, RequesterState
    <2> QED BY <1>1, <2>2 DEF MailboxTypeOK
  <1>6. Numbering'
    BY <1>1, <1>2, <1>3, <1>4 DEF Numbering, Unanswered
  <1>7. Written'
    BY SMTT(60), <1>2 DEF Written
  <1> QED BY <1>1, <1>2, <1>4, <1>5, <1>6, <1>7
          DEF Turns, Held, Current, Published, Believed

\* A store of one word.  The sequence is the last.
LEMMA StoreMInv ==
  ASSUME MInv, Store
  PROVE  MInv'
  <1> USE DEF MInv
  <1> DEFINE last == crypto.at = IF crypto.ask.op = "stage" THEN 5 ELSE 3
  <1>1. /\ crypto.pc = "store"
        /\ request' = Stored(Stores(crypto.ask.op)[crypto.at])
        /\ crypto' = [crypto EXCEPT !.pc = IF last THEN "notify" ELSE "store",
                                    !.at = IF last THEN 0 ELSE @ + 1]
        /\ UNCHANGED <<reply, config, giveUps, answer>>
    BY DEF Store, vars
  <1>2. /\ crypto'.pc = (IF last THEN "notify" ELSE "store")
        /\ crypto'.at = (IF last THEN 0 ELSE crypto.at + 1)
        /\ crypto'.ask = crypto.ask /\ crypto'.seq = crypto.seq
        /\ crypto'.got = crypto.got
    BY <1>1 DEF MailboxTypeOK, RequesterState
  <1>3. /\ crypto.ask.op = "stage" => crypto.at \in 1 .. 5
        /\ crypto.ask.op # "stage" => crypto.at \in 1 .. 3
    BY <1>1 DEF Written
  <1>4. /\ crypto.ask.op = "stage" =>
             /\ crypto.at = 1 => request' = Stored("doc1")
             /\ crypto.at = 2 => request' = Stored("doc2")
             /\ crypto.at = 3 => request' = Stored("gen")
             /\ crypto.at = 4 => request' = Stored("op")
             /\ crypto.at = 5 => request' = Stored("seq")
        /\ crypto.ask.op # "stage" =>
             /\ crypto.at = 1 => request' = Stored("gen")
             /\ crypto.at = 2 => request' = Stored("op")
             /\ crypto.at = 3 => request' = Stored("seq")
    BY SMTT(60), <1>1 DEF Stores
  <1>5. /\ Stored("doc1") = [request EXCEPT !.doc[1] = crypto.ask.doc[1]]
        /\ Stored("doc2") = [request EXCEPT !.doc[2] = crypto.ask.doc[2]]
        /\ Stored("gen") = [request EXCEPT !.gen = crypto.ask.gen]
        /\ Stored("op") = [request EXCEPT !.op = crypto.ask.op]
        /\ Stored("seq") = [request EXCEPT !.seq = crypto.seq]
    BY SMTT(60) DEF Stored
  <1>6. /\ crypto.ask.doc[1] \in Doc /\ crypto.ask.doc[2] \in Doc
        /\ crypto.ask.gen \in Generation /\ crypto.ask.op \in Op
        /\ crypto.seq \in Sequence /\ crypto.at \in 0 .. 5
    BY SMTT(60) DEF MailboxTypeOK, RequesterState, Ask, DocWords
  <1>7. request' \in Demand
    <2>1. /\ Stored("doc1") \in Demand /\ Stored("doc2") \in Demand
          /\ Stored("gen") \in Demand /\ Stored("op") \in Demand
          /\ Stored("seq") \in Demand
      BY SMTT(60), <1>5, <1>6 DEF MailboxTypeOK, Demand, DocWords
    <2> QED BY SMTT(60), <1>3, <1>4, <2>1
  <1>8. crypto' \in RequesterState
    <2>1. (IF last THEN 0 ELSE crypto.at + 1) \in 0 .. 5
      BY SMTT(60), <1>3, <1>6
    <2> QED BY <1>1, <2>1 DEF MailboxTypeOK, RequesterState
  <1>9. MailboxTypeOK'
    BY <1>1, <1>7, <1>8 DEF MailboxTypeOK
  <1>10. /\ last => request' = [request EXCEPT !.seq = crypto.seq]
         /\ ~last => request'.seq = request.seq
    <2>1. /\ Stored("doc1").seq = request.seq /\ Stored("doc2").seq = request.seq
          /\ Stored("gen").seq = request.seq /\ Stored("op").seq = request.seq
      BY <1>5 DEF MailboxTypeOK, Demand
    <2>2. last => request' = Stored("seq")
      BY SMTT(60), <1>4
    <2>3. ~last => request' \in {Stored("doc1"), Stored("doc2"),
                                 Stored("gen"), Stored("op")}
      BY SMTT(60), <1>3, <1>4
    <2> QED BY <1>5, <2>1, <2>2, <2>3
  <1>11. /\ last => request'.seq = crypto.seq
         /\ ~last => request'.seq = request.seq
    BY <1>10 DEF MailboxTypeOK, Demand
  <1>12. Numbering'
    <2>1. CASE last
      <3>1. crypto'.pc = "notify" /\ request'.seq = crypto.seq
        BY <1>2, <1>11, <2>1
      <3> HIDE DEF last
      <3> QED BY <1>1, <1>2, <3>1 DEF Numbering, Unanswered
    <2>2. CASE ~last
      BY <1>1, <1>2, <1>11, <2>2 DEF Numbering, Unanswered
    <2> QED BY <2>1, <2>2
  <1>13. Written'
    <2>1. /\ Stored("doc1").doc[1] = crypto.ask.doc[1]
          /\ Stored("doc2").doc[1] = request.doc[1]
          /\ Stored("doc2").doc[2] = crypto.ask.doc[2]
          /\ Stored("gen").doc = request.doc
          /\ Stored("gen").gen = crypto.ask.gen
          /\ Stored("op").doc = request.doc /\ Stored("op").gen = request.gen
          /\ Stored("op").op = crypto.ask.op
          /\ Stored("seq").doc = request.doc /\ Stored("seq").gen = request.gen
          /\ Stored("seq").op = request.op
      BY SMTT(60), <1>5 DEF MailboxTypeOK, Demand, DocWords
    <2>2. CASE crypto.ask.op = "stage"
      <3>1. CASE crypto.at = 1
        BY SMTT(60), <1>1, <1>2, <1>4, <2>1, <2>2, <3>1 DEF Written
      <3>2. CASE crypto.at = 2
        BY SMTT(60), <1>1, <1>2, <1>4, <2>1, <2>2, <3>2 DEF Written
      <3>3. CASE crypto.at = 3
        BY SMTT(60), <1>1, <1>2, <1>4, <2>1, <2>2, <3>3 DEF Written
      <3>4. CASE crypto.at = 4
        BY SMTT(60), <1>1, <1>2, <1>4, <2>1, <2>2, <3>4 DEF Written
      <3>5. CASE crypto.at = 5
        BY SMTT(60), <1>1, <1>2, <1>4, <2>1, <2>2, <3>5 DEF Written
      <3> QED BY SMTT(60), <1>3, <2>2, <3>1, <3>2, <3>3, <3>4, <3>5
    <2>3. CASE crypto.ask.op # "stage"
      <3>1. CASE crypto.at = 1
        BY SMTT(60), <1>1, <1>2, <1>4, <2>1, <2>3, <3>1 DEF Written
      <3>2. CASE crypto.at = 2
        BY SMTT(60), <1>1, <1>2, <1>4, <2>1, <2>3, <3>2 DEF Written
      <3>3. CASE crypto.at = 3
        BY SMTT(60), <1>1, <1>2, <1>4, <2>1, <2>3, <3>3 DEF Written
      <3> QED BY SMTT(60), <1>3, <2>3, <3>1, <3>2, <3>3
    <2> QED BY <2>2, <2>3
  <1>14. config.served # crypto.seq /\ config.demand.seq # crypto.seq
    BY <1>1 DEF Numbering
  <1>15. crypto'.pc \in {"store", "notify"}
    BY <1>2
  <1> HIDE DEF last
  <1> QED BY <1>1, <1>2, <1>9, <1>12, <1>13, <1>14, <1>15
          DEF Turns, Held, Current, Published, Believed

\* The notification, and the read that finds the request answered.
LEMMA WaitMInv ==
  ASSUME MInv, Notify \/ Poll
  PROVE  MInv'
  <1> USE DEF MInv
  <1>1. /\ \/ crypto.pc = "notify" /\ crypto' = [crypto EXCEPT !.pc = "poll"]
           \/ /\ crypto.pc = "poll" /\ reply.seq = crypto.seq
              /\ crypto' = [crypto EXCEPT !.pc = "status"]
        /\ UNCHANGED <<request, reply, config, giveUps, answer>>
    BY DEF Notify, Poll, regions, vars
  <1>2. /\ \/ crypto.pc = "notify" /\ crypto'.pc = "poll"
           \/ crypto.pc = "poll" /\ reply.seq = crypto.seq
              /\ crypto'.pc = "status"
        /\ crypto'.ask = crypto.ask /\ crypto'.seq = crypto.seq
        /\ crypto'.got = crypto.got /\ crypto'.at = crypto.at
    BY <1>1 DEF MailboxTypeOK, RequesterState
  <1>3. MailboxTypeOK'
    BY <1>1 DEF MailboxTypeOK, RequesterState
  <1>4. Turns'
    BY <1>1, <1>2 DEF Turns
  <1>5. Numbering'
    <2>1. CASE crypto'.pc = "poll"
      BY <1>1, <1>2, <2>1 DEF Numbering, Unanswered
    <2>2. CASE crypto.pc = "poll" /\ reply.seq = crypto.seq
               /\ crypto'.pc = "status"
      <3>1. config.served = crypto.seq /\ config.demand.seq = crypto.seq
        BY <2>2 DEF Turns
      <3>2. crypto.seq \in Sequence /\ giveUps \in 0 .. MaxGiveUps
        BY DEF MailboxTypeOK, RequesterState
      <3>3. Age(crypto.seq, crypto.seq) <= giveUps
        BY SMTT(60), <3>2, AgeNow
      <3> QED BY <1>1, <1>2, <2>2, <3>1, <3>3 DEF Numbering, Unanswered
    <2> QED BY <1>2, <2>1, <2>2
  <1> QED BY <1>1, <1>2, <1>3, <1>4, <1>5
          DEF Written, Held, Current, Published, Believed

\* The words of the reply.  The status always answers the operation.
LEMMA ReadMInv ==
  ASSUME MInv, ReadStatus \/ ReadGeneration
  PROVE  MInv'
  <1> USE DEF MInv
  <1>1. UNCHANGED <<request, reply, config, giveUps, answer>>
    BY DEF ReadStatus, ReadGeneration, regions, vars
  <1>2. /\ reply.is \in AnswerKind /\ reply.generation \in Generation
        /\ 0 \in Generation
    BY SMTT(60), MaxAssumption DEF MailboxTypeOK, Reply, Generation
  <1>3. CASE ReadStatus
    <2>1. crypto.pc = "status" BY <1>3 DEF ReadStatus
    <2>2. Answers(reply.is, crypto.ask.op)
      BY <2>1 DEF Turns, Published
    <2>3. crypto' = [crypto EXCEPT !.got = [is |-> reply.is, generation |-> 0],
                                   !.pc = "generation"]
      BY <1>3, <2>2 DEF ReadStatus
    <2>4. /\ crypto'.pc = "generation" /\ crypto'.ask = crypto.ask
          /\ crypto'.seq = crypto.seq /\ crypto'.got.is = reply.is
      BY <2>3 DEF MailboxTypeOK, RequesterState
    <2>5. MailboxTypeOK'
      BY <1>1, <1>2, <2>3 DEF MailboxTypeOK, RequesterState, AnswerWords
    <2> QED BY <1>1, <2>1, <2>4, <2>5
            DEF Numbering, Unanswered, Turns, Written, Held, Current,
                Published, Believed
  <1>4. CASE ReadGeneration
    <2>1. crypto.pc = "generation" BY <1>4 DEF ReadGeneration
    <2>2. crypto' = [crypto EXCEPT !.got.generation = reply.generation,
                                   !.pc = "answered"]
      BY <1>4 DEF ReadGeneration
    <2>3. /\ crypto'.pc = "answered" /\ crypto'.ask = crypto.ask
          /\ crypto'.seq = crypto.seq /\ crypto'.got.is = crypto.got.is
          /\ crypto'.got.generation = reply.generation
      BY SMTT(60), <2>2 DEF MailboxTypeOK, RequesterState, AnswerWords
    <2>4. MailboxTypeOK'
      <3>1. crypto.got \in AnswerWords
        BY DEF MailboxTypeOK, RequesterState
      <3>2. [crypto.got EXCEPT !.generation = reply.generation] \in AnswerWords
        BY <1>2, <3>1 DEF AnswerWords
      <3>3. crypto' \in RequesterState
        BY <2>2, <3>2 DEF MailboxTypeOK, RequesterState
      <3> QED BY <1>1, <3>3 DEF MailboxTypeOK
    <2> QED BY <1>1, <2>1, <2>3, <2>4
            DEF Numbering, Unanswered, Turns, Written, Held, Current,
                Published, Believed
  <1> QED BY <1>3, <1>4

\* The exchange ends, answered or given up on.
LEMMA EndMInv ==
  ASSUME MInv, GiveUp \/ Return
  PROVE  MInv'
  <1> USE DEF MInv
  <1>1. /\ UNCHANGED <<request, reply, config, answer>>
        /\ \/ crypto.pc = "poll" /\ giveUps < MaxGiveUps
              /\ giveUps' = giveUps + 1
           \/ crypto.pc = "answered" /\ giveUps' = giveUps
    BY DEF GiveUp, Return, regions, vars, Turns
  <1>2. /\ crypto'.pc = "idle" /\ crypto'.seq = crypto.seq
        /\ crypto' \in RequesterState
    <2>1. Answer("none", 0) \in [is : AnswerKind, generation : Generation]
      BY SMTT(60), MaxAssumption DEF Answer, AnswerKind, Generation
    <2> QED
      BY <2>1, AskTyped
         DEF GiveUp, Return, MailboxTypeOK, RequesterState, AnswerWords
  <1>3. giveUps' \in 0 .. MaxGiveUps
    BY SMTT(60), <1>1, Widths DEF MailboxTypeOK
  <1>4. MailboxTypeOK'
    BY <1>1, <1>2, <1>3 DEF MailboxTypeOK
  <1>5. Unanswered' = Unanswered
    BY <1>1, <1>2 DEF Unanswered
  <1> QED BY <1>1, <1>2, <1>4, <1>5
          DEF Numbering, Turns, Written, Held, Current, Published, Believed

-----------------------------------------------------------------------------
(* The responder's steps *)

\* A step that leaves the regions, both ends and the answer alone.
LEMMA QuietMInv ==
  ASSUME MInv, UNCHANGED <<request, reply, crypto, config, giveUps, answer>>
  PROVE  MInv'
  BY DEF MInv, MailboxTypeOK, RequesterState, ResponderState, Numbering,
         Unanswered, Turns, Written, Held,
         Current, Published, Believed

\* A demand is taken by its number alone.
LEMMA TakeMInv ==
  ASSUME MInv, Take
  PROVE  MInv'
  <1> USE DEF MInv
  <1>1. /\ config.pc = "idle" /\ request.seq # config.served
        /\ config' = [config EXCEPT !.pc = "op", !.demand.seq = request.seq]
        /\ UNCHANGED <<request, reply, crypto, giveUps, answer>>
    BY DEF Take, Waiting, regions, vars
  <1>2. request.seq \in Sequence /\ giveUps \in 0 .. MaxGiveUps
    BY DEF MailboxTypeOK, Demand
  <1>3. /\ config'.pc = "op" /\ config'.served = config.served
        /\ config'.demand.seq = request.seq
    BY SMTT(60), <1>1 DEF MailboxTypeOK, ResponderState, Demand
  <1>4. MailboxTypeOK'
    <2>1. [config.demand EXCEPT !.seq = request.seq] \in Demand
      BY <1>2 DEF MailboxTypeOK, ResponderState, Demand
    <2>2. config' \in ResponderState
      BY <1>1, <2>1 DEF MailboxTypeOK, ResponderState
    <2> QED BY <1>1, <2>2 DEF MailboxTypeOK
  <1>5. /\ Age(request.seq, crypto.seq) <= Unanswered
        /\ crypto.pc = "store" => request.seq # crypto.seq
    <2>1. CASE crypto.pc = "store"
      <3>1. crypto.seq = NextSequence(request.seq) BY <2>1 DEF Numbering
      <3>2. Unanswered = giveUps + 1 BY <2>1 DEF Unanswered
      <3>3. 1 <= giveUps + 1 BY SMTT(60), <1>2
      <3> QED BY <1>2, <3>1, <3>2, <3>3, AgeNow
    <2>2. CASE crypto.pc # "store"
      <3>1. crypto.seq = request.seq BY <2>2 DEF Numbering
      <3>2. 0 <= Unanswered BY SMTT(60), <1>2 DEF Unanswered
      <3> QED BY <1>2, <2>2, <3>1, <3>2, AgeNow
    <2> QED BY <2>1, <2>2
  <1>6. Numbering'
    BY <1>1, <1>3, <1>5 DEF Numbering, Unanswered
  <1>7. Turns'
    BY <1>1, <1>3 DEF Turns, Numbering
  <1> QED BY <1>1, <1>3, <1>4, <1>6, <1>7
          DEF Written, Held, Current, Published, Believed

\* The other words of a demand.  While its requester waits for it, nobody
\* stores to them.
LEMMA ReadDemandMInv ==
  ASSUME MInv, ReadDemand
  PROVE  MInv'
  <1> USE DEF MInv
  <1>1. UNCHANGED <<request, reply, crypto, giveUps, answer>>
    BY DEF ReadDemand, regions, vars
  <1>2. /\ request.op \in Op /\ request.gen \in Generation
        /\ request.doc[1] \in Doc /\ request.doc[2] \in Doc
    BY SMTT(60) DEF MailboxTypeOK, Demand, DocWords
  <1> DEFINE d == config.demand
  <1> DEFINE Reads(e, to) ==
        \/ /\ config.pc = "op" /\ to = "gen"
           /\ e = [d EXCEPT !.op = request.op]
        \/ /\ config.pc = "gen"
           /\ to = IF d.op = "stage" THEN "doc1" ELSE "decide"
           /\ e = [d EXCEPT !.gen = request.gen]
        \/ /\ config.pc = "doc1" /\ to = "doc2"
           /\ e = [d EXCEPT !.doc = [d.doc EXCEPT ![1] = request.doc[1]]]
        \/ /\ config.pc = "doc2" /\ to = "decide"
           /\ e = [d EXCEPT !.doc = [d.doc EXCEPT ![2] = request.doc[2]]]
  <1>3. PICK e, to : /\ config' = [config EXCEPT !.pc = to, !.demand = e]
                     /\ Reads(e, to)
    <2> DEFINE Goal(e, to) == /\ config' = [config EXCEPT !.pc = to, !.demand = e]
                              /\ Reads(e, to)
    <2>0. config \in ResponderState /\ d \in Demand
      BY DEF MailboxTypeOK, ResponderState
    <2>1. CASE config.pc = "op"
      <3>1. Goal([d EXCEPT !.op = request.op], "gen")
        BY <2>0, <2>1 DEF ReadDemand, ResponderState, Demand
      <3> QED BY <3>1
    <2>2. CASE config.pc = "gen"
      <3>1. Goal([d EXCEPT !.gen = request.gen],
                 IF d.op = "stage" THEN "doc1" ELSE "decide")
        BY <2>0, <2>2 DEF ReadDemand, ResponderState, Demand
      <3> QED BY <3>1
    <2>3. CASE config.pc = "doc1"
      <3>1. Goal([d EXCEPT !.doc = [d.doc EXCEPT ![1] = request.doc[1]]], "doc2")
        BY <2>0, <2>3 DEF ReadDemand, ResponderState, Demand
      <3> QED BY <3>1
    <2>4. CASE config.pc = "doc2"
      <3>1. Goal([d EXCEPT !.doc = [d.doc EXCEPT ![2] = request.doc[2]]], "decide")
        BY <2>0, <2>4 DEF ReadDemand, ResponderState, Demand
      <3> QED BY <3>1
    <2> QED BY <2>1, <2>2, <2>3, <2>4 DEF ReadDemand
  <1>4. /\ d \in Demand /\ d.doc \in DocWords
        /\ [d.doc EXCEPT ![1] = request.doc[1]] \in DocWords
        /\ [d.doc EXCEPT ![2] = request.doc[2]] \in DocWords
    BY SMTT(60), <1>2
       DEF MailboxTypeOK, ResponderState, Demand, DocWords
  <1>5. /\ e \in Demand /\ e.seq = d.seq
        /\ to \in {"gen", "doc1", "doc2", "decide"}
        /\ config.pc \in {"op", "gen", "doc1", "doc2"}
    BY <1>2, <1>3, <1>4 DEF Demand
  <1>6. /\ config'.pc = to /\ config'.served = config.served
        /\ config'.demand = e
    BY <1>3 DEF MailboxTypeOK, ResponderState
  <1>7. MailboxTypeOK'
    <2>1. config' \in ResponderState
      BY <1>3, <1>5 DEF MailboxTypeOK, ResponderState
    <2> QED BY <1>1, <2>1 DEF MailboxTypeOK
  <1>8. Numbering'
    BY <1>1, <1>5, <1>6 DEF Numbering, Unanswered
  <1>9. Turns'
    BY <1>1, <1>5, <1>6 DEF Turns
  <1>10. Held'
    <2> SUFFICES ASSUME Current PROVE Held'
      BY <1>1, <1>5, <1>6 DEF Held, Current
    <2>1. /\ request.op = crypto.ask.op /\ request.gen = crypto.ask.gen
          /\ crypto.ask.op = "stage" => /\ request.doc[1] = crypto.ask.doc[1]
                                        /\ request.doc[2] = crypto.ask.doc[2]
      BY DEF Written, Current
    <2>2. CASE config.pc = "op"
      <3>1. to = "gen" /\ e.op = request.op
        BY <1>3, <1>4, <2>2 DEF Demand
      <3> QED BY <1>1, <1>6, <2>1, <3>1 DEF Held
    <2>3. CASE config.pc = "gen"
      <3>1. /\ to = (IF d.op = "stage" THEN "doc1" ELSE "decide")
            /\ e.op = d.op /\ e.gen = request.gen
        BY <1>3, <1>4, <2>3 DEF Demand
      <3> QED BY <1>1, <1>6, <2>1, <2>3, <3>1 DEF Held
    <2>4. CASE config.pc = "doc1"
      <3>1. /\ to = "doc2" /\ e.op = d.op /\ e.gen = d.gen
            /\ e.doc = [d.doc EXCEPT ![1] = request.doc[1]]
        BY <1>3, <1>4, <2>4 DEF Demand
      <3>2. e.doc[1] = request.doc[1]
        BY SMTT(60), <1>4, <3>1 DEF DocWords
      <3> QED BY <1>1, <1>6, <2>1, <2>4, <3>1, <3>2 DEF Held
    <2>5. CASE config.pc = "doc2"
      <3>1. /\ to = "decide" /\ e.op = d.op /\ e.gen = d.gen
            /\ e.doc = [d.doc EXCEPT ![2] = request.doc[2]]
        BY <1>3, <1>4, <2>5 DEF Demand
      <3>2. e.doc[1] = d.doc[1] /\ e.doc[2] = request.doc[2]
        BY SMTT(60), <1>4, <3>1 DEF DocWords
      <3> QED BY <1>1, <1>6, <2>1, <2>5, <3>1, <3>2 DEF Held
    <2> QED BY <1>5, <2>2, <2>3, <2>4, <2>5
  <1>11. Published'
    BY <1>1, <1>5, <1>6 DEF Published, Turns
  <1> QED BY <1>1, <1>7, <1>8, <1>9, <1>10, <1>11 DEF Written, Believed

\* Whatever is decided answers the operation demanded.
LEMMA DecidedAnswers ==
  ASSUME MInv, Decided
  PROVE  Answers(answer'.is, config.demand.op)
  <1>1. \A k, g : Answer(k, g).is = k
    BY DEF Answer
  <1>2. ASSUME NEW x, Stage(x) PROVE answer'.is \in {"staged", "rejected"}
    BY <1>1, <1>2 DEF Stage
  <1>3. ASSUME NEW g, CommitRefused(g) \/ CommitApplied(g) \/ CommitUnchanged(g)
        PROVE  answer'.is \in {"applied", "unchanged", "exhausted",
                               "no_candidate", "mismatch"}
    <2>1. CASE CommitRefused(g)
      <3>1. \/ answer' = Answer("exhausted", generation)
            \/ answer' = Answer("mismatch", Successor(Latest))
            \/ answer' = Answer("no_candidate", generation)
        BY <2>1 DEF CommitRefused
      <3>2. answer'.is \in {"exhausted", "mismatch", "no_candidate"}
        BY SMTT(60), <1>1, <3>1
      <3> QED BY <3>2
    <2>2. CASE CommitApplied(g) BY <1>1, <2>2 DEF CommitApplied
    <2>3. CASE CommitUnchanged(g) BY <1>1, <2>3 DEF CommitUnchanged
    <2> QED BY <1>3, <2>1, <2>2, <2>3
  <1>4. ASSUME NEW g, Confirm(g)
        PROVE  answer'.is \in {"confirmed", "not_provisional", "mismatch"}
    BY <1>1, <1>4 DEF Confirm
  <1>5. ASSUME RollbackRefused \/ RollbackDone
        PROVE  answer'.is \in {"rolled_back", "not_provisional"}
    BY <1>1, <1>5 DEF RollbackRefused, RollbackDone
  <1>6. \A is : Answers(is, "stage") <=> is \in {"staged", "rejected"}
    BY DEF Answers
  <1>7. \A is : Answers(is, "commit") <=>
                 is \in {"applied", "unchanged", "exhausted", "no_candidate",
                         "mismatch"}
    BY DEF Answers
  <1>8. \A is : Answers(is, "confirm") <=>
                 is \in {"confirmed", "not_provisional", "mismatch"}
    BY DEF Answers
  <1>9. \A is : Answers(is, "rollback") <=>
                 is \in {"rolled_back", "not_provisional"}
    BY DEF Answers
  <1> QED BY <1>2, <1>3, <1>4, <1>5, <1>6, <1>7, <1>8, <1>9 DEF Decided

\* The decision.
LEMMA DecideMInv ==
  ASSUME MInv, Decide
  PROVE  MInv'
  <1> USE DEF MInv
  <1>1. /\ config.pc = "decide" /\ Decided
        /\ config' = [config EXCEPT !.pc = "status"]
        /\ UNCHANGED <<request, reply, crypto, giveUps>>
    BY DEF Decide, regions
  <1>2. /\ config'.pc = "status" /\ config'.served = config.served
        /\ config'.demand = config.demand
    BY <1>1 DEF MailboxTypeOK, ResponderState
  <1>3. Answers(answer'.is, config.demand.op)
    BY <1>1, DecidedAnswers
  <1>4. MailboxTypeOK'
    BY <1>1 DEF MailboxTypeOK, ResponderState
  <1>5. Published'
    BY <1>1, <1>2, <1>3 DEF Published, Turns
  <1> QED BY <1>1, <1>2, <1>4, <1>5
          DEF Numbering, Unanswered, Turns, Written, Held, Current, Believed

\* The words of the answer, and then its sequence.
LEMMA PublishMInv ==
  ASSUME MInv, TypeOK, Publish
  PROVE  MInv'
  <1> USE DEF MInv
  <1>1. UNCHANGED <<request, crypto, giveUps, answer>>
    BY DEF Publish, vars
  <1>2. answer.is \in AnswerKind /\ answer.generation \in Generation
    BY DEF TypeOK
  <1>3. /\ config.pc \in {"status", "generation", "seq"}
        /\ crypto.pc # "store" => config.served # crypto.seq
        /\ crypto.pc \notin {"status", "generation", "answered"}
    BY DEF Publish, Turns
  <1>4. CASE config.pc \in {"status", "generation"}
    <2>1. /\ reply'.seq = reply.seq /\ config'.served = config.served
          /\ config'.demand = config.demand
          /\ config.pc = "status" =>
               config'.pc = "generation" /\ reply'.is = answer.is
          /\ config.pc = "generation" =>
               /\ config'.pc = "seq" /\ reply'.is = reply.is
               /\ reply'.generation = answer.generation
      BY SMTT(60), <1>4 DEF Publish, MailboxTypeOK, Reply, ResponderState
    <2>2. MailboxTypeOK'
      BY SMTT(60), <1>1, <1>2, <1>4
         DEF Publish, MailboxTypeOK, Reply, ResponderState
    <2>3. Published'
      BY <1>1, <1>3, <1>4, <2>1 DEF Published
    <2> QED BY <1>1, <1>3, <1>4, <2>1, <2>2, <2>3
            DEF Numbering, Unanswered, Turns, Written, Held, Current, Believed
  <1>5. CASE config.pc = "seq"
    <2>1. /\ reply' = [reply EXCEPT !.seq = config.demand.seq]
          /\ config' = [config EXCEPT !.pc = "idle",
                                      !.served = config.demand.seq,
                                      !.demand = NoDemand(config.demand.seq)]
      BY <1>5 DEF Publish
    <2>2. /\ config.demand.seq \in Sequence
          /\ NoDemand(config.demand.seq) \in Demand
          /\ NoDemand(config.demand.seq).seq = config.demand.seq
      BY AskTyped DEF MailboxTypeOK, ResponderState, Demand, NoDemand
    <2>3. /\ reply'.seq = config.demand.seq /\ reply'.is = reply.is
          /\ reply'.generation = reply.generation
          /\ config'.pc = "idle" /\ config'.served = config.demand.seq
          /\ config'.demand.seq = config.demand.seq
      BY <2>1, <2>2 DEF MailboxTypeOK, Reply, ResponderState
    <2>4. MailboxTypeOK'
      BY <1>1, <2>1, <2>2 DEF MailboxTypeOK, Reply, ResponderState
    <2>5. Published'
      BY <1>1, <1>3, <1>5, <2>3 DEF Published, Held, Current
    <2> QED BY <1>1, <1>3, <1>5, <2>3, <2>4, <2>5
            DEF Numbering, Unanswered, Turns, Written, Held, Current, Believed
  <1> QED BY <1>3, <1>4, <1>5

-----------------------------------------------------------------------------
(* The theorems about the mailbox *)

\* Every step of the two domains preserves the invariant.
LEMMA NextMInv == MInv /\ TypeOK /\ [MailboxNext]_allVars => MInv'
  <1> SUFFICES ASSUME MInv, TypeOK, [MailboxNext]_allVars PROVE MInv'
    OBVIOUS
  <1>1. CASE UNCHANGED allVars
    BY <1>1, QuietMInv DEF allVars, vars, mailbox
  <1>2. CASE Disturbed \/ NotifiedIdle \/ \E r \in Recorded : Records(r)
    BY <1>2, QuietMInv
       DEF Disturbed, NotifiedIdle, Wakeup, Records, MediumRecords, regions,
           vars, mailbox
  <1>3. CASE \E r \in Requests : Issue(r) BY <1>3, IssueMInv
  <1> QED BY <1>1, <1>2, <1>3, StoreMInv, WaitMInv, ReadMInv, EndMInv,
             TakeMInv, ReadDemandMInv, DecideMInv, PublishMInv
          DEF MailboxNext, Requester, Responder

\* What the mailbox decides is one of the datastore's own steps: the words of
\* a demand are an operation, a generation and a document somebody may submit,
\* torn or not.
LEMMA NextMaps == MInv /\ [MailboxNext]_allVars => [Next]_vars
  <1> SUFFICES ASSUME MInv, [MailboxNext]_allVars PROVE [Next]_vars
    OBVIOUS
  <1>1. CASE UNCHANGED vars BY <1>1
  <1>2. CASE NotifiedIdle BY <1>2 DEF NotifiedIdle, Next
  <1>3. CASE \E r \in Recorded : Records(r)
    BY <1>3, Widths DEF Records, Next
  <1>4. CASE Decide
    <2>1. config.demand.gen \in Generation /\ config.demand.doc \in DocWords
      BY DEF MInv, MailboxTypeOK, ResponderState, Demand
    <2>2. Loads(config.demand.doc) \subseteq Doc
      BY SMTT(60), <2>1 DEF Loads, DocWords
    <2> QED BY <1>4, <2>1, <2>2 DEF Decide, Decided, Next
  <1> QED BY <1>1, <1>2, <1>3, <1>4
          DEF MailboxNext, Requester, Responder, allVars, Issue, Disturbed,
              GiveUp, Store, Notify, Poll, ReadStatus, ReadGeneration, Return,
              Take, ReadDemand, Publish

\* The mailbox and the datastore keep their invariants together.
THEOREM MailboxInvariance == MailboxSpec => [](MInv /\ IInv)
  <1>1. MailboxInit => MInv /\ IInv
    BY InitMInv, InitIInv DEF MailboxInit
  <1>2. MInv /\ IInv /\ [MailboxNext]_allVars => (MInv /\ IInv)'
    BY NextMInv, NextMaps, NextIInv DEF IInv
  <1> QED BY <1>1, <1>2, PTL DEF MailboxSpec

\* The domain behind its mailbox implements the datastore: whatever the two
\* domains interleave, and whatever was given up on, the store only ever makes
\* a whole step of ConfigDomain.
THEOREM MailboxServes == MailboxSpec => Spec
  <1>1. MailboxInit => Init BY DEF MailboxInit
  <1> QED BY <1>1, NextMaps, MailboxInvariance, PTL DEF MailboxSpec, Spec

\* No rollback that reaches the domain through its mailbox undoes a confirmed
\* generation.
THEOREM SettledThroughMailbox == MailboxSpec => []ConfirmedStays
  BY MailboxServes, Settled, PTL

\* A demand whose requester still waits for it carries the operation, the
\* generation and the document that were asked (ConfigRequester::issue,
\* ConfigResponder::take and document).
THEOREM AskedIsDecided == MailboxSpec => []DecidedAsAsked
  <1>1. MInv => DecidedAsAsked
    <2> SUFFICES ASSUME MInv, config.pc = "decide", Current
                 PROVE  /\ config.demand.op = crypto.ask.op
                        /\ config.demand.gen = crypto.ask.gen
                        /\ config.demand.op = "stage" =>
                             config.demand.doc = crypto.ask.doc
      BY DEF DecidedAsAsked
    <2>1. config.demand.doc \in DocWords /\ crypto.ask.doc \in DocWords
      BY DEF MInv, MailboxTypeOK, RequesterState, ResponderState, Demand, Ask
    <2>2. config.demand.op = "stage" => config.demand.doc = crypto.ask.doc
      BY SMTT(60), <2>1 DEF MInv, Held, DocWords
    <2> QED BY <2>2 DEF MInv, Held
  <1> QED BY MailboxInvariance, <1>1, PTL

\* An exchange that ends with an answer ends with the whole answer the store
\* gave to that request, and none ends with a fault (ConfigResponder::publish,
\* ConfigRequester::poll).
THEOREM DecidedIsBelieved == MailboxSpec => []BelievedIsDecided
  <1>1. MInv /\ IInv => BelievedIsDecided
    <2> SUFFICES ASSUME MInv, TypeOK PROVE BelievedIsDecided BY DEF IInv
    <2>1. ASSUME crypto.pc = "answered"
          PROVE  Current /\ config.pc = "idle" /\ crypto.got = answer
      <3>1. /\ config.served = crypto.seq /\ config.pc = "idle"
            /\ config.demand.seq = crypto.seq
        BY <2>1 DEF MInv, Turns
      <3>2. /\ crypto.got.is = answer.is
            /\ crypto.got.generation = answer.generation
        BY <2>1, <3>1 DEF MInv, Published, Believed
      <3>3. /\ crypto.got \in [is : AnswerKind, generation : Generation]
            /\ answer \in [is : AnswerKind, generation : Generation]
        BY DEF MInv, MailboxTypeOK, RequesterState, AnswerWords, TypeOK
      <3>4. crypto.got = answer BY SMTT(60), <3>2, <3>3
      <3> QED BY <2>1, <3>1, <3>4 DEF Current
    <2> QED BY <2>1 DEF BelievedIsDecided, MInv, Turns
  <1> QED BY MailboxInvariance, <1>1, PTL

=============================================================================
