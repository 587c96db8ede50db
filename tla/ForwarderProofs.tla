-------------------------- MODULE ForwarderProofs --------------------------
(***************************************************************************)
(* What the forwarder runs, and what it keeps under it.                    *)
(*                                                                         *)
(* Safety of the configuration handover for every image width, every       *)
(* number of generations and every bound on a reader's attempts; and what  *)
(* a pass over the connection table guarantees, for every table, every set *)
(* of configurations and every order of commits.                           *)
(***************************************************************************)
EXTENDS ConfigHandover, Flows, TLAPS

USE ZenonT(60)

\* The counter's low bit, which load_settled tests.
Even(n) == n % 2 = 0

\* The counter is odd exactly while a publication is in progress; between
\* publications the region holds the last one whole.
Published ==
  /\ pPc = "idle" => Even(publishing) /\ offered = pOffered
                     /\ \A f \in Field : image[f] = pOffered
  /\ pPc # "idle" => ~Even(publishing) /\ pGen > pOffered
  /\ pPc = "write" => pField \in Field
                      /\ \A f \in 1 .. pField - 1 : image[f] = pGen
  /\ pPc \in {"word", "settle"} => \A f \in Field : image[f] = pGen
  /\ pPc = "settle" => offered = pGen

\* A reader whose counter has not moved has copied from a settled region.
Copying ==
  \A r \in Reader :
    /\ pc[r] \in {"word", "copy", "after"} =>
         Even(before[r]) /\ before[r] <= publishing
    /\ pc[r] = "copy" => field[r] \in Field
    /\ pc[r] \in {"copy", "after"} /\ before[r] = publishing
         /\ r = "switch" => word[r] = pOffered
    /\ pc[r] = "copy" /\ before[r] = publishing =>
         \A f \in 1 .. field[r] - 1 : copy[r][f] = pOffered
    /\ pc[r] = "after" /\ before[r] = publishing =>
         \A f \in Field : copy[r][f] = pOffered

\* A reader that is loading has an attempt left.
Trying ==
  \A r \in Reader : pc[r] \in {"before", "word", "copy", "after"} =>
    attempt[r] < LOAD_ATTEMPTS

\* The acknowledgement names what the forwarder holds, and a release never
\* runs ahead of the acknowledgement.
Held ==
  /\ staged = {} => ackStaged = activeGeneration
  /\ \A s \in staged : s.generation = ackStaged
  /\ activeGeneration <= committed
  /\ committed <= ackStaged

\* Nothing refused is held.
Accepted ==
  /\ ackStaged \notin Refused \ {0}
  /\ activeGeneration \notin Refused \ {0}
  /\ committed \notin Refused \ {0}

\* The word a port's reader copied under has been released.
PortReads ==
  pc["committed"] \in {"copy", "after", "judge"} =>
    word["committed"] <= committed

\* The inductive invariant.
IInv ==
  /\ TypeOK /\ Published /\ Copying /\ Trying /\ CopyIsOnePublication
  /\ ActiveIsOnePublication /\ Held /\ Accepted /\ PortReads
  /\ PortFollowsRelease

\* The frames of the invariant's parts.
LEMMA Frames ==
  /\ Published /\ UNCHANGED <<offered, publishing, image, publisher>>
       => Published'
  /\ Copying /\ UNCHANGED <<publishing, pOffered, loads>> => Copying'
  /\ Trying /\ UNCHANGED <<pc, attempt>> => Trying'
  /\ CopyIsOnePublication /\ UNCHANGED <<pc, copy, word>>
       => CopyIsOnePublication'
  /\ ActiveIsOnePublication /\ UNCHANGED <<active, activeGeneration, staged>>
       => ActiveIsOnePublication'
  /\ Held /\ UNCHANGED <<staged, ackStaged, activeGeneration, committed>>
       => Held'
  /\ Accepted /\ UNCHANGED <<ackStaged, activeGeneration, committed>>
       => Accepted'
  /\ PortReads /\ UNCHANGED <<pc, word, committed>> => PortReads'
  /\ PortFollowsRelease /\ UNCHANGED <<port, committed>>
       => PortFollowsRelease'
  BY DEF Published, Copying, Trying, CopyIsOnePublication,
         ActiveIsOnePublication,
         Held, Accepted, PortReads, PortFollowsRelease, publisher, loads, port

\* The zeroed regions satisfy the invariant.
LEMMA InitIInv == Init => IInv
  <1> SUFFICES ASSUME Init PROVE IInv OBVIOUS
  <1>1. Blank \in [Field -> Gen] /\ \A f \in Field : Blank[f] = 0
    BY SMTT(60), GenAssumption DEF Blank, Gen
  <1>2. TypeOK
    <2>1. 0 \in Gen /\ 1 \in 1 .. NF + 1 /\ 0 \in 0 .. LOAD_ATTEMPTS
      BY SMTT(60), FieldsAssumption, GenAssumption, AttemptsAssumption DEF Gen
    <2> QED BY <1>1, <2>1 DEF Init, TypeOK
  <1>3. Published BY SMTT(60), <1>1 DEF Init, Published, Even
  <1>4. Copying /\ Trying /\ CopyIsOnePublication /\ PortReads
    BY DEF Init, Copying, Trying, CopyIsOnePublication, PortReads, Reader
  <1>5. ActiveIsOnePublication BY <1>1 DEF Init, ActiveIsOnePublication
  <1>6. Held /\ Accepted BY SMTT(60) DEF Init, Held, Accepted
  <1>7. PortFollowsRelease BY SMTT(60) DEF Init, PortFollowsRelease
  <1> QED BY <1>2, <1>3, <1>4, <1>5, <1>6, <1>7 DEF IInv

\* A release names what the forwarder acknowledged.
LEMMA TakeAcknowledgementKeeps ==
  ASSUME IInv, TakeAcknowledgement,
         UNCHANGED <<acks, switch, port, word>>,
         pc' = pc
  PROVE  /\ committed' \in Gen /\ committed' >= committed
         /\ wakeForwarder' \in BOOLEAN
         /\ Held' /\ Accepted' /\ PortReads' /\ PortFollowsRelease'
  <1>1. /\ committed' \in Gen /\ wakeForwarder' \in BOOLEAN
        /\ committed' = committed \/ committed' = ackStaged
    BY DEF IInv, TypeOK, TakeAcknowledgement, Acknowledged
  <1>2. committed \in Int /\ ackStaged \in Int /\ activeGeneration \in Int
        /\ committed' \in Int /\ committed <= ackStaged
        /\ activeGeneration <= committed
    BY SMTT(60), <1>1, GenAssumption DEF IInv, TypeOK, Gen, Held
  <1>3. committed' >= committed BY SMTT(60), <1>1, <1>2
  <1>4. Held' BY SMTT(60), <1>1, <1>2, <1>3 DEF IInv, Held, acks, switch
  <1>5. Accepted' BY <1>1 DEF IInv, Accepted, acks, switch
  <1>6. PortReads'
    <2>1. word["committed"] \in Int
      BY SMTT(60), GenAssumption DEF IInv, TypeOK, Gen, Reader
    <2> QED BY SMTT(60), <1>2, <1>3, <2>1 DEF IInv, PortReads
  <1>7. PortFollowsRelease'
    <2>1. taken \in Int BY SMTT(60), GenAssumption DEF IInv, TypeOK, Gen
    <2> QED BY SMTT(60), <1>2, <1>3, <2>1 DEF IInv, PortFollowsRelease, port
  <1> QED BY <1>1, <1>3, <1>4, <1>5, <1>6, <1>7

\* The configuration domain, woken by the forwarder.
LEMMA AckWakeupIInv ==
  ASSUME IInv, AckWakeup PROVE IInv'
  <1>1. TakeAcknowledgement
        /\ UNCHANGED <<offered, publishing, image, acks, publisher, loads,
                       switch, port>>
        /\ wakeConfig' = FALSE
    BY DEF AckWakeup
  <1>2. /\ committed' \in Gen /\ wakeForwarder' \in BOOLEAN
        /\ Held' /\ Accepted' /\ PortReads' /\ PortFollowsRelease'
    BY <1>1, TakeAcknowledgementKeeps DEF loads
  <1>3. TypeOK'
    BY <1>1, <1>2 DEF IInv, TypeOK, acks, publisher, loads, switch, port
  <1>4. Published' /\ Copying' /\ Trying' /\ CopyIsOnePublication'
        /\ ActiveIsOnePublication'
    BY <1>1, Frames DEF IInv, loads, publisher, switch
  <1> QED BY <1>2, <1>3, <1>4 DEF IInv

\* A publication begins: the counter turns odd, so no copy taken before it
\* can be let through after it.
LEMMA DemandWakeupIInv ==
  ASSUME IInv, NEW g \in Gen, DemandWakeup(g) PROVE IInv'
  <1>1. TakeAcknowledgement
        /\ UNCHANGED <<offered, image, pOffered, acks, loads, switch, port>>
        /\ wakeConfig' = FALSE
        /\ pPc = "idle" /\ pPc' = "write" /\ pField' = 1 /\ pGen' = g
        /\ g > pOffered
    BY DEF DemandWakeup
  <1>2. publishing \in Nat /\ Even(publishing)
    BY <1>1 DEF IInv, TypeOK, Published
  <1>3. publishing' = publishing + 1 /\ ~Even(publishing')
    BY SMTT(60), <1>2 DEF DemandWakeup, Even
  <1>4. /\ committed' \in Gen /\ wakeForwarder' \in BOOLEAN
        /\ Held' /\ Accepted' /\ PortReads' /\ PortFollowsRelease'
    BY <1>1, TakeAcknowledgementKeeps DEF loads
  <1>5. TypeOK'
    <2>1. publishing' \in Nat /\ pField' \in 1 .. NF + 1
      BY SMTT(60), <1>1, <1>2, <1>3, FieldsAssumption
    <2> QED BY <1>1, <1>4, <2>1 DEF IInv, TypeOK, acks, loads, switch, port
  <1>6. Published'
    BY SMTT(60), <1>1, <1>3, FieldsAssumption DEF IInv, Published, Field
  <1>7. Copying'
    <2> SUFFICES ASSUME NEW r \in Reader
                 PROVE  /\ pc[r] \in {"word", "copy", "after"} =>
                             /\ Even(before[r])
                             /\ before[r] <= publishing'
                             /\ before[r] # publishing'
                        /\ pc[r] = "copy" => field[r] \in Field
      BY <1>1 DEF Copying, loads
    <2>1. before[r] \in Nat BY DEF IInv, TypeOK
    <2> QED BY SMTT(60), <1>2, <1>3, <2>1 DEF IInv, Copying
  <1>8. Trying' /\ CopyIsOnePublication' /\ ActiveIsOnePublication'
    BY <1>1, Frames DEF IInv, loads, switch
  <1> QED BY <1>4, <1>5, <1>6, <1>7, <1>8 DEF IInv

\* The steps that move bytes under an odd counter.
LEMMA PublishIInv ==
  ASSUME IInv, PublishField \/ PublishWord PROVE IInv'
  <1> USE DEF IInv
  <1>1. UNCHANGED <<committed, publishing, acks, pGen, pOffered, loads,
                    switch, port, wakes>>
    BY DEF PublishField, PublishWord
  <1>2. Copying' /\ Trying' /\ CopyIsOnePublication' /\ ActiveIsOnePublication'
        /\ Held' /\ Accepted' /\ PortReads' /\ PortFollowsRelease'
    BY <1>1, Frames DEF loads, switch, acks
  <1>3. CASE PublishField
    <2>1. pField \in Field /\ image \in [Field -> Gen] /\ pGen \in Gen
          /\ image' = [image EXCEPT ![pField] = pGen]
      BY <1>3 DEF PublishField, Published, TypeOK
    <2>2. image' \in [Field -> Gen] BY <2>1
    <2>3. pField' \in 1 .. NF + 1
      BY SMTT(60), <1>3, <2>1, FieldsAssumption DEF PublishField, Field
    <2>4. TypeOK'
      BY <1>1, <1>3, <2>2, <2>3
         DEF PublishField, TypeOK, acks, loads, switch, port, wakes
    <2>5. \A f \in 1 .. pField : image'[f] = pGen
      BY SMTT(60), <1>3, <2>1 DEF PublishField, Published, Field
    <2>6. pField # NF => pField + 1 \in Field
      BY SMTT(60), <2>1, FieldsAssumption DEF Field
    <2>7. Published'
      BY SMTT(60), <1>3, <2>1, <2>5, <2>6, FieldsAssumption
         DEF PublishField, Published, Field
    <2> QED BY <1>2, <2>4, <2>7
  <1>4. CASE PublishWord
    <2>1. TypeOK'
      BY <1>1, <1>4
         DEF PublishWord, TypeOK, acks, loads, switch, port, wakes
    <2>2. Published' BY <1>4 DEF PublishWord, Published
    <2> QED BY <1>2, <2>1, <2>2
  <1> QED BY <1>3, <1>4

\* The publication settles under a counter no reader has seen.
LEMMA PublishSettleIInv ==
  ASSUME IInv, PublishSettle PROVE IInv'
  <1> USE DEF IInv
  <1>1. /\ UNCHANGED <<offered, committed, image, acks, pField, pGen, loads,
                       switch, port, wakeConfig>>
        /\ publishing' = publishing + 1 /\ pOffered' = pGen
        /\ pPc = "settle" /\ pPc' = "idle" /\ wakeForwarder' = TRUE
    BY DEF PublishSettle
  <1>2. publishing \in Nat /\ ~Even(publishing) BY <1>1 DEF TypeOK, Published
  <1>3. publishing' \in Nat /\ Even(publishing')
    BY SMTT(60), <1>1, <1>2 DEF Even
  <1>4. TypeOK'
    BY <1>1, <1>3 DEF TypeOK, acks, loads, switch, port
  <1>5. Published' BY <1>1, <1>3 DEF Published
  <1>6. Copying'
    <2> SUFFICES ASSUME NEW r \in Reader
                 PROVE  /\ pc[r] \in {"word", "copy", "after"} =>
                             /\ Even(before[r])
                             /\ before[r] <= publishing'
                             /\ before[r] # publishing'
                        /\ pc[r] = "copy" => field[r] \in Field
      BY <1>1 DEF Copying, loads
    <2>1. before[r] \in Nat BY DEF TypeOK
    <2> QED BY SMTT(60), <1>1, <1>2, <1>3, <2>1 DEF Copying
  <1>7. Trying' /\ CopyIsOnePublication' /\ ActiveIsOnePublication'
        /\ Held' /\ Accepted' /\ PortReads' /\ PortFollowsRelease'
    BY <1>1, Frames DEF loads, switch, acks
  <1> QED BY <1>4, <1>5, <1>6, <1>7

\* A reader that only moves on, without a copy to keep.
LEMMA IdleReaderIInv ==
  ASSUME IInv, NEW r \in Reader,
         NEW p \in {"idle", "before", "commit"},
         NEW n \in 0 .. LOAD_ATTEMPTS,
         p = "before" => n < LOAD_ATTEMPTS,
         pc' = [pc EXCEPT ![r] = p],
         attempt' = [attempt EXCEPT ![r] = n],
         wakeForwarder' \in BOOLEAN,
         UNCHANGED <<region, acks, publisher, before, word, field, copy,
                     switch, port, wakeConfig>>
  PROVE  IInv'
  <1> USE DEF IInv
  <1>1. TypeOK'
    BY DEF TypeOK, region, acks, publisher, switch, port
  <1>2. \A q \in Reader :
          \/ pc'[q] = pc[q] /\ attempt'[q] = attempt[q]
          \/ pc'[q] = p /\ attempt'[q] = n
    BY DEF TypeOK
  <1>3. Published' /\ ActiveIsOnePublication' /\ Held' /\ Accepted'
        /\ PortFollowsRelease'
    BY Frames DEF region, acks, switch, publisher
  <1>4. Copying' /\ Trying'
    BY <1>2 DEF Copying, Trying, region, publisher
  <1>5. CopyIsOnePublication'
    BY <1>2 DEF CopyIsOnePublication, Reader
  <1>6. PortReads' BY <1>2 DEF PortReads, Reader, region
  <1> QED BY <1>1, <1>3, <1>4, <1>5, <1>6

\* A copy is given up, to be tried again or not.
LEMMA RetryIInv ==
  ASSUME IInv, NEW r \in Reader, Retry(r),
         pc[r] \in {"before", "after"},
         UNCHANGED <<region, acks, publisher, before, word, field, copy,
                     switch, port, wakes>>
  PROVE  IInv'
  <1>1. attempt[r] \in 0 .. LOAD_ATTEMPTS /\ attempt[r] < LOAD_ATTEMPTS
        /\ wakeForwarder' \in BOOLEAN /\ attempt \in [Reader -> 0 .. LOAD_ATTEMPTS]
    BY DEF IInv, TypeOK, Trying, wakes
  <1> DEFINE n == attempt[r] + 1
             p == IF n = LOAD_ATTEMPTS THEN GaveUp(r) ELSE "before"
  <1>2. n \in 0 .. LOAD_ATTEMPTS /\ (n # LOAD_ATTEMPTS => n < LOAD_ATTEMPTS)
    BY SMTT(60), <1>1, AttemptsAssumption
  <1>3. p \in {"idle", "before", "commit"}
        /\ (p = "before" => n < LOAD_ATTEMPTS)
    BY <1>2 DEF GaveUp
  <1>4. attempt' = [attempt EXCEPT ![r] = n] /\ pc' = [pc EXCEPT ![r] = p]
    BY <1>1 DEF Retry
  <1> HIDE DEF n, p
  <1> QED BY <1>1, <1>2, <1>3, <1>4, IdleReaderIInv DEF wakes

\* Reading the counter before a copy.
LEMMA LoadBeforeIInv ==
  ASSUME IInv, NEW r \in Reader, LoadBefore(r) PROVE IInv'
  <1> USE DEF IInv
  <1>1. CASE Retry(r) /\ UNCHANGED before
    BY <1>1, RetryIInv DEF LoadBefore
  <1>2. CASE publishing % 2 = 0
             /\ before' = [before EXCEPT ![r] = publishing]
             /\ pc' = [pc EXCEPT ![r] = "word"] /\ UNCHANGED attempt
    <2>1. UNCHANGED <<region, acks, publisher, word, field, copy, switch,
                      port, wakes>>
          /\ pc[r] = "before"
      BY DEF LoadBefore
    <2>2. TypeOK'
      BY <1>2, <2>1 DEF TypeOK, region, acks, publisher, switch, port, wakes
    <2>3. /\ pc'[r] = "word" /\ before'[r] = publishing
          /\ \A q \in Reader : q # r => pc'[q] = pc[q] /\ before'[q] = before[q]
      BY <1>2 DEF TypeOK
    <2>4. Published' /\ ActiveIsOnePublication' /\ Held' /\ Accepted'
          /\ PortFollowsRelease'
      BY <2>1, Frames DEF region, acks, switch, publisher
    <2>5. Copying'
      <3>1. publishing \in Nat BY DEF TypeOK
      <3>2. publishing <= publishing /\ Even(publishing)
        BY SMTT(60), <1>2, <3>1 DEF Even
      <3> QED BY <1>2, <2>1, <2>3, <3>2 DEF Copying, region, publisher
    <2>6. CopyIsOnePublication' BY <2>1, <2>3 DEF CopyIsOnePublication, Reader
    <2>7. PortReads' BY <2>1, <2>3 DEF PortReads, Reader, region
    <2>8. Trying' BY <1>2, <2>1, <2>3 DEF Trying
    <2> QED BY <2>2, <2>4, <2>5, <2>6, <2>7, <2>8
  <1> QED BY <1>1, <1>2 DEF LoadBefore

\* Reading the word the copy will be held against.
LEMMA LoadWordIInv ==
  ASSUME IInv, NEW r \in Reader, LoadWord(r) PROVE IInv'
  <1> USE DEF IInv
  <1> DEFINE w == IF r = "switch" THEN offered ELSE committed
  <1>1. /\ UNCHANGED <<region, acks, publisher, before, copy, attempt, switch,
                       port, wakes>>
        /\ pc[r] = "word" /\ pc' = [pc EXCEPT ![r] = "copy"]
        /\ word' = [word EXCEPT ![r] = w] /\ field' = [field EXCEPT ![r] = 1]
    BY DEF LoadWord
  <1>2. w \in Gen /\ 1 \in 1 .. NF + 1 /\ 1 \in Field
    BY SMTT(60), FieldsAssumption DEF TypeOK, Field
  <1>3. TypeOK'
    BY <1>1, <1>2 DEF TypeOK, region, acks, publisher, switch, port, wakes
  <1>4. /\ pc'[r] = "copy" /\ word'[r] = w /\ field'[r] = 1
        /\ \A q \in Reader : q # r =>
             pc'[q] = pc[q] /\ word'[q] = word[q] /\ field'[q] = field[q]
    BY <1>1 DEF TypeOK
  <1>5. Published' /\ ActiveIsOnePublication' /\ Held' /\ Accepted'
        /\ PortFollowsRelease'
    BY <1>1, Frames DEF region, acks, switch, publisher
  <1>6. before[r] = publishing => offered = pOffered
    BY <1>1 DEF Copying, Published
  <1>7. Copying'
    BY SMTT(60), <1>1, <1>2, <1>4, <1>6 DEF Copying, region, publisher
  <1>8. CopyIsOnePublication'
    BY <1>1, <1>4 DEF CopyIsOnePublication, Reader
  <1>9. PortReads'
    <2>1. committed <= committed BY SMTT(60), GenAssumption DEF TypeOK, Gen
    <2> QED BY <1>1, <1>4, <2>1 DEF PortReads, Reader, region
  <1>10. Trying' BY <1>1, <1>4 DEF Trying
  <1> QED BY <1>3, <1>5, <1>7, <1>8, <1>9, <1>10

\* Copying one field.
LEMMA LoadFieldIInv ==
  ASSUME IInv, NEW r \in Reader, LoadField(r) PROVE IInv'
  <1> USE DEF IInv
  <1> DEFINE k == field[r]
             p == IF k = NF THEN "after" ELSE "copy"
  <1>1. /\ UNCHANGED <<region, acks, publisher, before, word, attempt, switch,
                       port, wakes>>
        /\ pc[r] = "copy" /\ pc' = [pc EXCEPT ![r] = p]
        /\ field' = [field EXCEPT ![r] = k + 1]
        /\ copy' = [copy EXCEPT ![r] = [copy[r] EXCEPT ![k] = image[k]]]
    BY DEF LoadField, TypeOK
  <1>2. k \in Field /\ k + 1 \in 1 .. NF + 1 /\ (k # NF => k + 1 \in Field)
    BY SMTT(60), <1>1, FieldsAssumption DEF Copying, Field
  <1>3. image[k] \in Gen BY <1>2 DEF TypeOK
  <1>4. copy' \in [Reader -> [Field -> Gen]]
    BY <1>1, <1>2, <1>3 DEF TypeOK
  <1>5. TypeOK'
    BY <1>1, <1>2, <1>4
       DEF TypeOK, region, acks, publisher, switch, port, wakes
  <1>6. /\ pc'[r] = p /\ field'[r] = k + 1
        /\ copy'[r] = [copy[r] EXCEPT ![k] = image[k]]
        /\ \A q \in Reader : q # r =>
             pc'[q] = pc[q] /\ field'[q] = field[q] /\ copy'[q] = copy[q]
    BY <1>1 DEF TypeOK
  <1>7. Published' /\ ActiveIsOnePublication' /\ Held' /\ Accepted'
        /\ PortFollowsRelease'
    BY <1>1, Frames DEF region, acks, switch, publisher
  <1>8. before[r] = publishing => \A f \in 1 .. k : copy'[r][f] = pOffered
    <2> SUFFICES ASSUME before[r] = publishing, NEW f \in 1 .. k
                 PROVE  copy'[r][f] = pOffered
      OBVIOUS
    <2>1. image[k] = pOffered BY <1>1, <1>2 DEF Copying, Published
    <2>2. copy[r] \in [Field -> Gen] BY DEF TypeOK
    <2>5. f \in Field BY SMTT(60), <1>2, FieldsAssumption DEF Field
    <2>3. f # k => f \in 1 .. k - 1 BY SMTT(60), <1>2 DEF Field
    <2>4. f # k => copy[r][f] = pOffered BY <1>1, <2>3 DEF Copying
    <2> QED BY <1>6, <2>1, <2>2, <2>4, <2>5
  <1>9. Copying'
    <2> SUFFICES ASSUME NEW q \in Reader
        PROVE /\ pc'[q] \in {"word", "copy", "after"} =>
                   Even(before[q]) /\ before[q] <= publishing
              /\ pc'[q] = "copy" => field'[q] \in Field
              /\ pc'[q] \in {"copy", "after"} /\ before[q] = publishing
                   /\ q = "switch" => word[q] = pOffered
              /\ pc'[q] = "copy" /\ before[q] = publishing =>
                   \A f \in 1 .. field'[q] - 1 : copy'[q][f] = pOffered
              /\ pc'[q] = "after" /\ before[q] = publishing =>
                   \A f \in Field : copy'[q][f] = pOffered
      BY <1>1 DEF Copying, region, publisher
    <2>1. CASE q = r
      <3>1. field'[r] - 1 = k BY SMTT(60), <1>2, <1>6 DEF Field
      <3>2. pc'[r] = "after" => Field = 1 .. k BY <1>6 DEF Field
      <3>3. pc'[r] = "copy" => field'[r] \in Field BY <1>2, <1>6
      <3>4. pc'[r] \in {"copy", "after"} BY <1>6
      <3>5. /\ Even(before[r]) /\ before[r] <= publishing
            /\ before[r] = publishing /\ r = "switch" => word[r] = pOffered
        BY <1>1 DEF Copying
      <3> QED BY <1>8, <2>1, <3>1, <3>2, <3>3, <3>4, <3>5
    <2>2. CASE q # r
      <3>1. pc'[q] = pc[q] /\ field'[q] = field[q] /\ copy'[q] = copy[q]
        BY <1>6, <2>2
      <3> QED BY SMTT(60), <3>1 DEF Copying
    <2> QED BY <2>1, <2>2
  <1>10. CopyIsOnePublication'
    BY SMTT(60), <1>1, <1>6 DEF CopyIsOnePublication, Reader
  <1>11. PortReads' BY <1>1, <1>6 DEF PortReads, Reader, region
  <1>12. Trying' BY <1>1, <1>6 DEF Trying
  <1> QED BY <1>5, <1>7, <1>9, <1>10, <1>11, <1>12

\* Reading the counter again: an unchanged one keeps the copy.
LEMMA LoadAfterIInv ==
  ASSUME IInv, NEW r \in Reader, LoadAfter(r) PROVE IInv'
  <1> USE DEF IInv
  <1>1. CASE Retry(r) BY <1>1, RetryIInv DEF LoadAfter
  <1>2. CASE publishing = before[r] /\ pc' = [pc EXCEPT ![r] = "judge"]
             /\ UNCHANGED attempt
    <2>1. UNCHANGED <<region, acks, publisher, before, word, field, copy,
                      switch, port, wakes>> /\ pc[r] = "after"
      BY DEF LoadAfter
    <2>2. TypeOK'
      BY <1>2, <2>1 DEF TypeOK, region, acks, publisher, switch, port, wakes
    <2>3. pc'[r] = "judge" /\ \A q \in Reader : q # r => pc'[q] = pc[q]
      BY <1>2 DEF TypeOK
    <2>4. Published' /\ ActiveIsOnePublication' /\ Held' /\ Accepted'
          /\ PortFollowsRelease'
      BY <2>1, Frames DEF region, acks, switch, publisher
    <2>5. Copying' /\ Trying'
      BY <1>2, <2>1, <2>3 DEF Copying, Trying, region, publisher
    <2>6. 1 \in Field BY SMTT(60), FieldsAssumption DEF Field
    <2>7. CopyIsOnePublication'
      BY SMTT(60), <1>2, <2>1, <2>3, <2>6
         DEF Copying, CopyIsOnePublication, Reader
    <2>8. PortReads' BY <2>1, <2>3 DEF PortReads, Reader, region
    <2> QED BY <2>2, <2>4, <2>5, <2>7, <2>8
  <1> QED BY <1>1, <1>2 DEF LoadAfter

\* A wakeup of the forwarder or of the port.
LEMMA WakeupIInv ==
  ASSUME IInv, SwitchWakeup \/ PortWakeup PROVE IInv'
  <1>1. 0 \in 0 .. LOAD_ATTEMPTS /\ 0 < LOAD_ATTEMPTS
    BY SMTT(60), AttemptsAssumption
  <1>2. wakeForwarder' \in BOOLEAN
    BY DEF IInv, TypeOK, SwitchWakeup, PortWakeup, wakes
  <1>3. CASE SwitchWakeup
    <2>1. PICK p \in {"idle", "before", "commit"} :
            pc' = [pc EXCEPT !["switch"] = p]
      BY <1>3 DEF SwitchWakeup
    <2> QED BY <1>1, <1>2, <1>3, <2>1, IdleReaderIInv DEF SwitchWakeup, Reader
  <1>4. CASE PortWakeup
    BY <1>1, <1>2, <1>4, IdleReaderIInv DEF PortWakeup, Reader, wakes
  <1> QED BY <1>3, <1>4

\* The forwarder judges a copy: what it stages and acknowledges is newer than
\* everything released.
LEMMA JudgeOfferIInv ==
  ASSUME IInv, JudgeOffer PROVE IInv'
  <1> USE DEF IInv
  <1> DEFINE g == word["switch"]
  <1>1. /\ UNCHANGED <<region, ackRunning, publisher, before, word, field, copy,
                       attempt, active, activeGeneration, port, wakeForwarder>>
        /\ pc["switch"] = "judge" /\ pc' = [pc EXCEPT !["switch"] = "commit"]
    BY DEF JudgeOffer
  <1>2. /\ pc'["switch"] = "commit" /\ pc'["committed"] = pc["committed"]
        /\ g \in Gen /\ copy["switch"] \in [Field -> Gen]
        /\ pc' \in [Reader -> {"idle", "before", "word", "copy", "after",
                               "judge", "commit"}]
    BY <1>1 DEF TypeOK, Reader
  <1>3. Published' /\ PortFollowsRelease'
    BY <1>1, Frames DEF region, publisher
  <1>4. Copying' /\ Trying'
    BY <1>1, <1>2 DEF Copying, Trying, Reader, region, publisher
  <1>5. CopyIsOnePublication' /\ PortReads'
    BY <1>1, <1>2 DEF CopyIsOnePublication, PortReads, Reader, region
  <1>6. CASE /\ LooksNew(g) /\ g \notin Refused
             /\ considered' = g /\ ackStaged' = g /\ wakeConfig' = TRUE
             /\ staged' = {[generation |-> g, content |-> copy["switch"]]}
    <2>1. [generation |-> g, content |-> copy["switch"]] \in Staged
      BY <1>2 DEF Staged
    <2>2. TypeOK'
      BY <1>1, <1>2, <1>6, <2>1 DEF TypeOK, region, publisher, port
    <2>3. \A f \in Field : copy["switch"][f] = g
      BY <1>1 DEF CopyIsOnePublication, Reader
    <2>4. ActiveIsOnePublication'
      BY SMTT(60), <1>1, <1>6, <2>3 DEF ActiveIsOnePublication
    <2>5. /\ g \in Int /\ ackStaged \in Int /\ committed \in Int
      BY SMTT(60), <1>2, GenAssumption DEF TypeOK, Gen
    <2>6. g > ackStaged
      BY <1>6 DEF LooksNew, Held, TypeOK
    <2>7. Held'
      <3>1. staged' # {} /\ \A s \in staged' : s.generation = ackStaged'
        BY SMTT(60), <1>6
      <3>2. committed <= ackStaged /\ activeGeneration <= committed BY DEF Held
      <3>3. committed <= g BY SMTT(60), <2>5, <2>6, <3>2
      <3> QED BY <1>1, <1>6, <3>1, <3>2, <3>3 DEF Held, region
    <2>8. Accepted' BY <1>1, <1>6 DEF Accepted, region
    <2> QED BY <1>3, <1>4, <1>5, <2>2, <2>4, <2>7, <2>8
  <1>7. CASE /\ considered' = g \/ considered' = considered
             /\ UNCHANGED <<staged, ackStaged, wakeConfig>>
    <2>1. TypeOK'
      BY <1>1, <1>2, <1>7 DEF TypeOK, region, publisher, port
    <2>2. ActiveIsOnePublication' /\ Held' /\ Accepted'
      BY <1>1, <1>7, Frames DEF region
    <2> QED BY <1>3, <1>4, <1>5, <2>1, <2>2
  <1> QED BY <1>6, <1>7 DEF JudgeOffer

\* The switch.
LEMMA TakeCommitIInv ==
  ASSUME IInv, TakeCommit PROVE IInv'
  <1> USE DEF IInv
  <1>1. /\ UNCHANGED <<region, ackStaged, publisher, before, word, field, copy,
                       attempt, considered, port, wakes>>
        /\ pc["switch"] = "commit" /\ pc' = [pc EXCEPT !["switch"] = "idle"]
    BY DEF TakeCommit
  <1>2. /\ pc'["switch"] = "idle" /\ pc'["committed"] = pc["committed"]
        /\ pc' \in [Reader -> {"idle", "before", "word", "copy", "after",
                               "judge", "commit"}]
    BY <1>1 DEF TypeOK, Reader
  <1>3. Published' /\ PortFollowsRelease'
    BY <1>1, Frames DEF region, publisher
  <1>4. Copying' /\ Trying'
    BY <1>1, <1>2 DEF Copying, Trying, Reader, region, publisher
  <1>5. CopyIsOnePublication' /\ PortReads'
    BY <1>1, <1>2 DEF CopyIsOnePublication, PortReads, Reader, region
  <1>6. CASE \E s \in staged :
               /\ committed >= s.generation
               /\ active' = s.content /\ activeGeneration' = s.generation
               /\ ackRunning' = s.generation
               /\ staged' = {}
    <2>1. PICK s \in staged :
               /\ committed >= s.generation
               /\ active' = s.content /\ activeGeneration' = s.generation
               /\ ackRunning' = s.generation
               /\ staged' = {}
      BY <1>6
    <2>2. s.generation \in Gen /\ s.content \in [Field -> Gen]
      BY DEF TypeOK, Staged
    <2>3. TypeOK'
      BY <1>1, <1>2, <2>1, <2>2 DEF TypeOK, region, publisher, port, wakes
    <2>4. ActiveIsOnePublication'
      BY <2>1 DEF ActiveIsOnePublication
    <2>5. s.generation = ackStaged BY DEF Held
    <2>6. committed \in Int /\ ackStaged \in Int
      BY SMTT(60), GenAssumption DEF TypeOK, Gen
    <2>7. Held' BY <1>1, <2>1, <2>5, <2>6 DEF Held, region
    <2>8. Accepted' BY <1>1, <2>1, <2>5 DEF Accepted, region
    <2> QED BY <1>3, <1>4, <1>5, <2>3, <2>4, <2>7, <2>8
  <1>7. CASE UNCHANGED <<active, activeGeneration, ackRunning, staged>>
    <2>1. TypeOK'
      BY <1>1, <1>2, <1>7 DEF TypeOK, region, publisher, port, wakes
    <2>2. ActiveIsOnePublication' /\ Held' /\ Accepted'
      BY <1>1, <1>7, Frames DEF region
    <2> QED BY <1>3, <1>4, <1>5, <2>1, <2>2
  <1> QED BY <1>6, <1>7 DEF TakeCommit

\* The port takes a released generation.
LEMMA TakeCommittedIInv ==
  ASSUME IInv, TakeCommitted PROVE IInv'
  <1> USE DEF IInv
  <1>1. /\ UNCHANGED <<region, acks, publisher, before, word, field, copy,
                       attempt, switch, wakes>>
        /\ pc["committed"] = "judge"
        /\ pc' = [pc EXCEPT !["committed"] = "idle"]
    BY DEF TakeCommitted
  <1>2. /\ pc'["committed"] = "idle" /\ pc'["switch"] = pc["switch"]
        /\ pc' \in [Reader -> {"idle", "before", "word", "copy", "after",
                               "judge", "commit"}]
        /\ word["committed"] \in Gen
    BY <1>1 DEF TypeOK, Reader
  <1>3. taken' \in Gen
    BY <1>2 DEF TakeCommitted, port, TypeOK
  <1>4. TypeOK'
    BY <1>1, <1>2, <1>3 DEF TypeOK, region, acks, publisher, switch, wakes
  <1>5. Published' /\ ActiveIsOnePublication' /\ Held' /\ Accepted'
    BY <1>1, Frames DEF region, publisher, acks, switch
  <1>6. Copying' /\ Trying'
    BY <1>1, <1>2 DEF Copying, Trying, Reader, region, publisher
  <1>7. CopyIsOnePublication' /\ PortReads'
    BY <1>1, <1>2 DEF CopyIsOnePublication, PortReads, Reader, region
  <1>8. PortFollowsRelease'
    <2>1. CASE UNCHANGED port BY <1>1, <2>1, Frames DEF region
    <2>2. CASE /\ taken' = word["committed"]
               /\ copy["committed"][1] = word["committed"]
               /\ Adopt(copy["committed"][1])
      <3>1. endpoint'.identity = Identity[taken']
        BY <2>2 DEF Adopt, EndpointOf
      <3>2. word["committed"] <= committed BY <1>1 DEF PortReads
      <3> QED BY <1>1, <2>2, <3>1, <3>2 DEF PortFollowsRelease, region
    <2> QED BY <2>1, <2>2 DEF TakeCommitted
  <1> QED BY <1>4, <1>5, <1>6, <1>7, <1>8

\* Every step keeps the invariant.
LEMMA NextIInv == IInv /\ [Next]_vars => IInv'
  <1> SUFFICES ASSUME IInv, [Next]_vars PROVE IInv' OBVIOUS
  <1>1. CASE ConfigStep
    BY <1>1, AckWakeupIInv, PublishIInv, PublishSettleIInv DEF ConfigStep
  <1>2. CASE \E g \in Gen : DemandWakeup(g) BY <1>2, DemandWakeupIInv
  <1>3. CASE SwitchWakeup BY <1>3, WakeupIInv
  <1>4. CASE Load("switch") \/ Load("committed")
    BY <1>4, LoadBeforeIInv, LoadWordIInv, LoadFieldIInv, LoadAfterIInv
       DEF Load, Reader
  <1>5. CASE JudgeOffer \/ TakeCommit BY <1>5, JudgeOfferIInv, TakeCommitIInv
  <1>6. CASE PortWakeup \/ TakeCommitted
    BY <1>6, WakeupIInv, TakeCommittedIInv
  <1>7. CASE UNCHANGED vars
    <2>1. UNCHANGED <<region, acks, publisher, loads, switch, port, wakes>>
      BY <1>7 DEF vars
    <2>2. TypeOK'
      BY <2>1 DEF IInv, TypeOK, region, acks, publisher, loads, switch, port,
                  wakes
    <2> QED BY <2>1, <2>2, Frames
            DEF IInv, region, acks, publisher, loads, switch, port
  <1> QED BY <1>1, <1>2, <1>3, <1>4, <1>5, <1>6, <1>7
          DEF Next, SwitchStep, PortStep

\* The inductive invariant holds of every reachable state.
THEOREM Invariance == Spec => []IInv
  BY InitIInv, NextIInv, PTL DEF Spec

\* A copy load_settled lets through is one publication, for either reader.
THEOREM CopiesWhole == Spec => []CopyIsOnePublication
  <1>1. IInv => CopyIsOnePublication BY DEF IInv
  <1> QED BY Invariance, <1>1, PTL

\* The forwarder runs, and holds ready, one publication under its own number.
THEOREM RunsWhole == Spec => []ActiveIsOnePublication
  <1>1. IInv => ActiveIsOnePublication BY DEF IInv
  <1> QED BY Invariance, <1>1, PTL

\* Nothing runs unreleased and nothing released is dropped.
THEOREM NothingReleasedIsLost == Spec => []ReleasedIsHeld
  <1>1. IInv => ReleasedIsHeld
    <2> SUFFICES ASSUME IInv PROVE ReleasedIsHeld OBVIOUS
    <2>1. committed \in Int /\ activeGeneration \in Int /\ ackStaged \in Int
      BY SMTT(60), GenAssumption DEF IInv, TypeOK, Gen
    <2>2. activeGeneration <= committed /\ committed <= ackStaged
      BY DEF IInv, Held
    <2>3. ASSUME committed > activeGeneration
          PROVE  \E s \in staged : s.generation >= committed
      <3>1. staged # {} BY SMTT(60), <2>1, <2>2, <2>3 DEF IInv, Held
      <3>2. PICK s \in staged : TRUE BY <3>1
      <3>3. s.generation = ackStaged BY DEF IInv, Held
      <3> QED BY <2>1, <2>2, <3>3
    <2> QED BY <2>2, <2>3 DEF ReleasedIsHeld
  <1> QED BY Invariance, <1>1, PTL

\* A generation the forwarder refused is never released and never run.
THEOREM RefusalHolds == Spec => []RefusedNeverRuns
  <1>1. IInv => RefusedNeverRuns BY DEF IInv, Accepted, RefusedNeverRuns
  <1> QED BY Invariance, <1>1, PTL

\* The port follows releases, with the addressing of what it took.
THEOREM PortFollows == Spec => []PortFollowsRelease
  <1>1. IInv => PortFollowsRelease BY DEF IInv
  <1> QED BY Invariance, <1>1, PTL

\* Both readers follow the releases: ConfigurationSwitch and CommittedReader together.
THEOREM BothFollow == Spec => []ReleaseIsFollowed
  <1>1. ReleasedIsHeld /\ PortFollowsRelease => ReleaseIsFollowed
    BY DEF ReleaseIsFollowed
  <1> QED BY NothingReleasedIsLost, PortFollows, <1>1, PTL

-----------------------------------------------------------------------------
(* The connection table *)

(* The pass works from the first bucket to the last.  Behind its cursor    *)
(* only admitted flows are left, unless a commit has come since it began;  *)
(* a flow that was forbidden when it began is still ahead of it.           *)
FlowInv ==
    /\ flows = [k \in Keys |-> flows[k]]
    /\ \A k \in Keys : \A e \in flows[k] : e \in Entry
    /\ condemned \in [Keys -> {0, 1}]
    /\ cursor = {} \/ \E b \in Buckets : cursor = {b}
    /\ deferred \in BOOLEAN /\ (cursor = {} => ~deferred)
    /\ ~deferred => \A k \in Keys : \A e \in flows[k] :
            (\A b \in cursor : BucketOf[k] < b) => AdmittedBy(policy, k, e)
    /\ \A k \in Keys : condemned[k] = 1 =>
            /\ \A b \in cursor : b <= BucketOf[k]
            /\ \E e \in flows[k] : ~AdmittedBy(policy, k, e)

(* A table that holds, of each key, flows of `table` seen from the same    *)
(* side, and otherwise only flows that the configuration in force admits.  *)
Grown(next, table) ==
    /\ next = [k \in Keys |-> next[k]]
    /\ \A k \in Keys : \A n \in next[k] :
        /\ n \in Entry
        /\ AdmittedBy(policy, k, n) \/ \E e \in table[k] : e.origin = n.origin

(* Whether a configuration admits a flow depends on its key and on the     *)
(* side that opened it (FlowEntry::opening), on nothing else.              *)
LEMMA AdmittedByOrigin ==
    ASSUME NEW config, NEW k, NEW e, NEW n, e.origin = n.origin
    PROVE  AdmittedBy(config, k, e) <=> AdmittedBy(config, k, n)
  BY DEF AdmittedBy

(* Releasing flows brings none in.                                         *)
LEMMA ReleaseGrown ==
    ASSUME NEW table, NEW gone, \A k \in Keys : \A e \in table[k] : e \in Entry
    PROVE  /\ Grown(Release(table, gone), table)
           /\ \A k \in Keys : Release(table, gone)[k] \in {{}, table[k]}
  BY DEF Release, Grown

(* What a lookup leaves was there before it.                               *)
LEMMA FindGrown ==
    ASSUME FlowInv, NEW k
    PROVE  Grown(Find(flows, k), flows)
  BY ReleaseGrown DEF Find, FlowInv

(* An opening adds at most the flow it opens, and that only where the      *)
(* filter accepted it.                                                     *)
LEMMA OpenedGrown ==
    ASSUME NEW table, Grown(table, flows), NEW k \in Keys, NEW way \in Ways, NEW state \in States,
           <<k, way>> \in policy.routed, NEW next \in Opened(table, k, way, state)
    PROVE  Grown(next, flows)
<1>1. \A room \in TakeSlot(table) : Grown(room, flows)
  <2>1. ASSUME NEW gone PROVE Grown(Release(table, gone), flows)
    BY ReleaseGrown DEF Grown, Release
  <2> QED BY <2>1 DEF TakeSlot
<1>2. CASE next = table
  BY <1>2
<1>3. CASE next \in TakeSlot(table)
  BY <1>1, <1>3
<1>4. CASE \E room \in TakeSlot(table) :
             Settled(k, way) /\ next = [room EXCEPT ![k] = {NewEntry(state, way)}]
  <2>1. PICK room \in TakeSlot(table) :
             Settled(k, way) /\ next = [room EXCEPT ![k] = {NewEntry(state, way)}]
    BY <1>4
  <2>2. Grown(room, flows)
    BY <1>1
  <2>3. AdmittedBy(policy, k, NewEntry(state, way)) /\ NewEntry(state, way) \in Entry
    BY SMTT(60), <2>1, TableAssumption
       DEF Settled, AdmittedBy, NewEntry, Entry, Ways
  <2>4. next = [j \in Keys |-> next[j]]
    BY <2>1, <2>2 DEF Grown
  <2>5. ASSUME NEW j \in Keys, NEW n \in next[j]
        PROVE  /\ n \in Entry
               /\ AdmittedBy(policy, j, n) \/ \E e \in flows[j] : e.origin = n.origin
    <3>1. CASE j = k
      <4>1. next[j] = {NewEntry(state, way)}
        BY <2>1, <2>2, <3>1 DEF Grown
      <4> QED BY <4>1, <2>3, <3>1
    <3>2. CASE j # k
      <4>1. next[j] = room[j]
        BY <2>1, <2>2, <3>2 DEF Grown
      <4> QED BY <4>1, <2>2 DEF Grown
    <3> QED BY <3>1, <3>2
  <2> QED BY <2>4, <2>5 DEF Grown
<1> QED BY <1>2, <1>3, <1>4 DEF Opened

(* A flow that a packet moves is the flow it was, seen from the same side. *)
LEMMA MovedGrown ==
    ASSUME NEW table, Grown(table, flows), NEW k \in Keys, NEW moved,
           \A n \in moved : n \in Entry /\ \E e \in table[k] : e.origin = n.origin
    PROVE  Grown([table EXCEPT ![k] = moved], flows)
<1> DEFINE next == [table EXCEPT ![k] = moved]
<1>1. next = [j \in Keys |-> next[j]]
  BY DEF Grown
<1>2. ASSUME NEW j \in Keys, NEW n \in next[j]
      PROVE  /\ n \in Entry
             /\ AdmittedBy(policy, j, n) \/ \E e \in flows[j] : e.origin = n.origin
  <2>1. CASE j = k
    <3>1. PICK e \in table[k] : n \in Entry /\ e.origin = n.origin
      BY <1>2, <2>1 DEF Grown
    <3>2. AdmittedBy(policy, k, e) \/ \E f \in flows[k] : f.origin = e.origin
      BY DEF Grown
    <3> QED BY <2>1, <3>1, <3>2, AdmittedByOrigin
  <2>2. CASE j # k
    <3>1. next[j] = table[j]
      BY <2>2 DEF Grown
    <3> QED BY <1>2, <3>1 DEF Grown
  <2> QED BY <2>1, <2>2
<1> QED BY <1>1, <1>2 DEF Grown

(* No packet changes which side opened a flow.                             *)
LEMMA OriginKept ==
    ASSUME NEW e \in Entry, NEW way \in Ways
    PROVE  /\ \A event : \A n \in AdvanceTcp(e, way, event) : n.origin = e.origin
           /\ AdvanceUdp(e, way).origin = e.origin
           /\ \A reply \in BOOLEAN : AdvanceEcho(e, way, reply).origin = e.origin
  BY DEF AdvanceTcp, Recorded, AdvanceUdp, AdvanceEcho, Entry

(* A packet leaves an entry an entry.                                      *)
LEMMA EntryKept ==
    ASSUME NEW e \in Entry, NEW way \in Ways
    PROVE  /\ \A event : AdvanceTcp(e, way, event) \subseteq Entry
           /\ AdvanceUdp(e, way) \in Entry
           /\ \A reply \in BOOLEAN : AdvanceEcho(e, way, reply) \in Entry
<1>1. 0 \in 0..MaxIdle
  BY SMTT(60), TableAssumption
<1>2. ASSUME NEW x \in States, NEW f \in SUBSET Ways, NEW a \in SUBSET Ways
      PROVE  [e EXCEPT !.spoken = @ \cup {way}, !.fin = f, !.finAcked = a, !.idle = 0, !.state = x]
                \in Entry
  BY <1>1 DEF Entry
<1>3. ASSUME NEW x \in States
      PROVE  [e EXCEPT !.spoken = @ \cup {way}, !.idle = 0, !.state = x] \in Entry
  BY <1>1 DEF Entry
<1>4. ASSUME NEW event, NEW acked
      PROVE  Recorded(e, way, event, acked) \in Entry
  <2> DEFINE f == IF event = "Fin" THEN e.fin \cup {way} ELSE e.fin
             a == IF acked THEN e.finAcked \cup {Other(way)} ELSE e.finAcked
  <2>1. f \in SUBSET Ways /\ a \in SUBSET Ways
    BY DEF Entry, Ways, Other
  <2>2. NextState(e.state, event, DirectionOf(e, way), f, a) \in States
    BY DEF NextState, ClosedState, States, TcpStates
  <2> QED BY <1>2, <2>1, <2>2 DEF Recorded
<1>5. \A event : AdvanceTcp(e, way, event) \subseteq Entry
  BY <1>4 DEF AdvanceTcp
<1>6. AdvanceUdp(e, way) \in Entry /\ \A reply \in BOOLEAN : AdvanceEcho(e, way, reply) \in Entry
  <2>1. e.state \in States /\ {"UdpAssured", "IcmpReplied"} \subseteq States
    BY DEF Entry, States
  <2> QED BY <1>3, <2>1 DEF AdvanceUdp, AdvanceEcho
<1> QED BY <1>5, <1>6

(* Every frame of a drain leaves a grown table.                            *)
LEMMA FrameGrown ==
    ASSUME FlowInv, Frame
    PROVE  /\ Grown(flows', flows)
           /\ condemned' = Condemn(flows', policy, 0)
           /\ UNCHANGED <<policy, cursor, deferred>>
<1>1. Grown(flows, flows)
  BY DEF FlowInv, Grown
<1>2. CASE FrameDropped
  BY <1>1, <1>2 DEF FrameDropped, Drained
<1>3. CASE \E k \in Keys : IcmpError(k)
  BY <1>3, FindGrown DEF IcmpError, Drained
<1>4. ASSUME NEW k \in Keys, NEW way \in Ways,
             (\E event \in Events : Segment(k, way, event)) \/ Datagram(k, way)
                \/ \E reply \in BOOLEAN : Echo(k, way, reply)
      PROVE  /\ Grown(flows', flows)
             /\ condemned' = Condemn(flows', policy, 0)
             /\ UNCHANGED <<policy, cursor, deferred>>
  <2> DEFINE table == Find(flows, k)
  <2>1. Grown(table, flows) /\ \A e \in table[k] : e \in Entry
    BY FindGrown DEF Grown
  <2> HIDE DEF table
  <2>2. <<k, way>> \in policy.routed
    BY <1>4 DEF Segment, Datagram, Echo, Carried
  <2>3. {"SynSent", "UdpUnreplied", "IcmpUnreplied"} \subseteq States
    BY DEF States, TcpStates
  <2>4. ASSUME NEW event \in Events, Segment(k, way, event)
        PROVE  flows' = table \/ (\E state \in States : flows' \in Opened(table, k, way, state))
                \/ \E e \in table[k] : \E n \in AdvanceTcp(e, way, event) :
                        flows' = [table EXCEPT ![k] = {n}]
    BY SMTT(60), <2>3, <2>4 DEF Segment, Drained, table
  <2>5. ASSUME Datagram(k, way)
        PROVE  (\E state \in States : flows' \in Opened(table, k, way, state))
                \/ flows' = [table EXCEPT ![k] = {AdvanceUdp(e, way) : e \in table[k]}]
    BY <2>3, <2>5 DEF Datagram, Drained, table
  <2>6. ASSUME NEW reply \in BOOLEAN, Echo(k, way, reply)
        PROVE  flows' = table \/ (\E state \in States : flows' \in Opened(table, k, way, state))
                \/ flows' = [table EXCEPT ![k] = {AdvanceEcho(e, way, reply) : e \in table[k]}]
    BY <2>3, <2>6 DEF Echo, Drained, table
  <2>7. ASSUME NEW state \in States, NEW next \in Opened(table, k, way, state)
        PROVE  Grown(next, flows)
    BY <2>1, <2>2, OpenedGrown
  <2>8. ASSUME NEW event, NEW e \in table[k], NEW n \in AdvanceTcp(e, way, event)
        PROVE  Grown([table EXCEPT ![k] = {n}], flows)
    <3>1. n \in Entry /\ n.origin = e.origin
      BY SMTT(60), <2>1, OriginKept, EntryKept
    <3>2. \A x \in {n} : x \in Entry /\ \E f \in table[k] : f.origin = x.origin
      BY <3>1
    <3> QED BY <2>1, <3>2, MovedGrown
  <2>9. Grown([table EXCEPT ![k] = {AdvanceUdp(e, way) : e \in table[k]}], flows)
    <3>1. \A x \in {AdvanceUdp(e, way) : e \in table[k]} :
             x \in Entry /\ \E f \in table[k] : f.origin = x.origin
      BY SMTT(60), <2>1, OriginKept, EntryKept
    <3> QED BY <2>1, <3>1, MovedGrown
  <2>10. ASSUME NEW reply \in BOOLEAN
         PROVE  Grown([table EXCEPT ![k] = {AdvanceEcho(e, way, reply) : e \in table[k]}], flows)
    <3>1. \A x \in {AdvanceEcho(e, way, reply) : e \in table[k]} :
             x \in Entry /\ \E f \in table[k] : f.origin = x.origin
      BY SMTT(60), <2>1, OriginKept, EntryKept
    <3> QED BY <2>1, <3>1, MovedGrown
  <2>11. Grown(flows', flows)
    <3>1. CASE \E event \in Events : Segment(k, way, event)
      BY <3>1, <2>1, <2>4, <2>7, <2>8
    <3>2. CASE Datagram(k, way)
      BY <3>2, <2>5, <2>7, <2>9
    <3>3. CASE \E reply \in BOOLEAN : Echo(k, way, reply)
      BY <3>3, <2>1, <2>6, <2>7, <2>10
    <3> QED BY <1>4, <3>1, <3>2, <3>3
  <2>12. condemned' = Condemn(flows', policy, 0) /\ UNCHANGED <<policy, cursor, deferred>>
    BY <1>4 DEF Segment, Datagram, Echo, Drained
  <2> QED BY <2>11, <2>12
<1> QED BY <1>2, <1>3, <1>4 DEF Frame

(* A step that only grows the table keeps what the pass has established.   *)
LEMMA GrownStep ==
    ASSUME FlowInv, Grown(flows', flows), condemned' = Condemn(flows', policy, 0),
           UNCHANGED <<policy, cursor, deferred>>
    PROVE  FlowInv'
<1>1. \A k \in Keys : \A n \in flows'[k] :
        n \in Entry /\ (AdmittedBy(policy, k, n)
                            \/ \E e \in flows[k] : AdmittedBy(policy, k, e) <=> AdmittedBy(policy, k, n))
  BY AdmittedByOrigin DEF Grown
<1>2. \A k \in Keys :
        /\ condemned'[k] \in {0, 1}
        /\ condemned'[k] = 1 => condemned[k] = 1 /\ \E n \in flows'[k] : ~AdmittedBy(policy, k, n)
  BY SMTT(60) DEF Condemn, FlowInv
<1>3. condemned' \in [Keys -> {0, 1}]
  BY <1>2 DEF Condemn
<1>4. flows' = [k \in Keys |-> flows'[k]]
  BY DEF Grown
<1>5. ~deferred => \A k \in Keys : \A n \in flows'[k] :
            (\A b \in cursor : BucketOf[k] < b) => AdmittedBy(policy, k, n)
  BY AdmittedByOrigin DEF Grown, FlowInv
<1> QED BY <1>1, <1>2, <1>3, <1>4, <1>5 DEF FlowInv, AdmittedBy

(* The empty table of a fresh boot satisfies the invariant.                *)
LEMMA InitFlowInv == ASSUME FlowInit PROVE FlowInv
<1>1. \A k \in Keys : flows[k] = {} /\ condemned[k] = 0
  BY DEF FlowInit
<1>2. flows = [k \in Keys |-> flows[k]] /\ condemned \in [Keys -> {0, 1}]
  BY DEF FlowInit
<1>3. cursor = {} /\ deferred = FALSE
  BY DEF FlowInit
<1>4. \A k \in Keys :
        /\ \A e \in flows[k] : e \in Entry /\ AdmittedBy(policy, k, e)
        /\ condemned[k] # 1
  BY SMTT(60), <1>1
<1> QED BY <1>2, <1>3, <1>4 DEF FlowInv

(* A commit: a pass starts at the first bucket, or one is queued.          *)
LEMMA CommitInv == ASSUME FlowInv, WakeCommitted PROVE FlowInv'
<1>1. /\ flows' = flows
      /\ cursor' = IF cursor = {} THEN {0} ELSE cursor
      /\ deferred' = (deferred \/ cursor # {})
  BY DEF WakeCommitted, Arm
<1>2. condemned' = Condemn(flows, policy', 0)
  BY DEF WakeCommitted
<1>3. \A k \in Keys :
        /\ condemned'[k] \in {0, 1}
        /\ condemned'[k] = 1 => condemned[k] = 1 /\ \E e \in flows[k] : ~AdmittedBy(policy', k, e)
  BY SMTT(60), <1>2 DEF Condemn, FlowInv
<1>4. condemned' \in [Keys -> {0, 1}]
  BY <1>2, <1>3 DEF Condemn
<1>5. 0 \in Buckets /\ \A k \in Keys : BucketOf[k] \in Nat
  BY SMTT(60), TableAssumption DEF Buckets
<1>6. CASE cursor = {}
  <2>1. cursor' = {0}
    BY <1>1, <1>6
  <2>2. \A k \in Keys : \A b \in cursor' : b <= BucketOf[k] /\ ~(BucketOf[k] < b)
    BY SMTT(60), <2>1, <1>5
  <2>3. \A k \in Keys : ~(\A b \in cursor' : BucketOf[k] < b)
    BY <2>1, <2>2
  <2> QED BY <1>1, <1>3, <1>4, <1>5, <2>1, <2>2, <2>3 DEF FlowInv, AdmittedBy
<1>7. CASE cursor # {}
  <2>1. cursor' = cursor /\ deferred'
    BY <1>1, <1>7
  <2> QED BY <1>1, <1>3, <1>4, <2>1, <1>7 DEF FlowInv, AdmittedBy
<1> QED BY <1>6, <1>7

(* The timeout sweep only releases.                                        *)
LEMMA ReapInv == ASSUME FlowInv, Reap PROVE FlowInv'
<1>1. PICK reaped : flows' = Release(flows, reaped)
  BY DEF Reap
<1>2. Grown(flows', flows)
  BY <1>1, ReleaseGrown DEF FlowInv
<1> QED BY <1>2, GrownStep DEF Reap

(* Time changes no flow's origin.                                          *)
LEMMA ElapseInv == ASSUME FlowInv, Elapse PROVE FlowInv'
<1>1. \A i \in 0..MaxIdle : (IF i < MaxIdle THEN i + 1 ELSE i) \in 0..MaxIdle
  BY SMTT(60), TableAssumption
<1> DEFINE aged(e) == [e EXCEPT !.idle = IF @ < MaxIdle THEN @ + 1 ELSE @]
<1>2. \A e \in Entry : aged(e) \in Entry /\ aged(e).origin = e.origin
  BY <1>1 DEF Entry
<1>3. flows' = [k \in Keys |-> {aged(e) : e \in flows[k]}]
  BY DEF Elapse
<1> HIDE DEF aged
<1>4. \A k \in Keys :
        /\ \A n \in flows'[k] : n \in Entry /\ \E e \in flows[k] : e.origin = n.origin
        /\ \A e \in flows[k] : \E n \in flows'[k] : e.origin = n.origin
  BY SMTT(60), <1>2, <1>3 DEF FlowInv
<1>5. UNCHANGED <<policy, cursor, deferred, condemned>>
  BY DEF Elapse
<1>6. \A k \in Keys : (\E e \in flows[k] : ~AdmittedBy(policy, k, e))
                        => \E n \in flows'[k] : ~AdmittedBy(policy, k, n)
  BY <1>4, AdmittedByOrigin
<1>7. ~deferred => \A k \in Keys : \A n \in flows'[k] :
            (\A b \in cursor : BucketOf[k] < b) => AdmittedBy(policy, k, n)
  BY <1>4, AdmittedByOrigin DEF FlowInv
<1>8. flows' = [k \in Keys |-> flows'[k]]
  BY <1>3
<1> QED BY <1>4, <1>5, <1>6, <1>7, <1>8 DEF FlowInv, AdmittedBy

(* One window: what it walks over is judged by the configuration in force, *)
(* and a pass that ends has judged every bucket.                           *)
LEMMA WindowInv == ASSUME FlowInv, Window PROVE FlowInv'
<1>1. PICK from \in cursor, to \in 1..Capacity :
        /\ WindowEnd(from, to)
        /\ flows' = Release(flows, Revoked(from, to))
        /\ IF to >= Capacity
           THEN /\ cursor' = IF deferred THEN {0} ELSE {}
                /\ deferred' = FALSE
                /\ condemned' = Condemn(flows', policy, 1)
           ELSE /\ cursor' = {to} /\ deferred' = deferred
                /\ condemned' = Condemn(flows', policy, 0)
  BY DEF Window, Resume
<1>2. cursor = {from} /\ from \in Nat /\ to \in Nat /\ Capacity \in Nat /\ 0 \in Buckets
  BY SMTT(60), <1>1, TableAssumption DEF FlowInv, Buckets
<1>3. from < to /\ to <= Capacity
  BY SMTT(60), <1>1, <1>2 DEF WindowEnd
<1>4. \A k \in Keys : BucketOf[k] \in Nat /\ BucketOf[k] < Capacity
  BY SMTT(60), TableAssumption
<1>5. policy' = policy
  BY DEF Window
<1>6. /\ flows' = [k \in Keys |-> flows'[k]]
      /\ \A k \in Keys : \A e \in flows'[k] : e \in flows[k] /\ e \in Entry
  BY <1>1 DEF Release, FlowInv
<1>7. ASSUME NEW k \in Keys, from <= BucketOf[k], BucketOf[k] < to, NEW e \in flows'[k]
      PROVE  AdmittedBy(policy, k, e)
  <2>1. k \notin Revoked(from, to) /\ e \in flows[k]
    BY <1>1, <1>7 DEF Release
  <2> QED BY SMTT(60), <2>1, <1>2, <1>4, <1>7 DEF Revoked, Present
<1>8. ~deferred => \A k \in Keys : \A e \in flows'[k] :
            BucketOf[k] < to => AdmittedBy(policy, k, e)
  <2> SUFFICES ASSUME ~deferred, NEW k \in Keys, NEW e \in flows'[k], BucketOf[k] < to
               PROVE  AdmittedBy(policy, k, e)
    OBVIOUS
  <2>1. CASE BucketOf[k] < from
    BY <2>1, <1>2, <1>6 DEF FlowInv
  <2>2. CASE from <= BucketOf[k]
    BY <2>2, <1>7
  <2> QED BY SMTT(60), <2>1, <2>2, <1>2, <1>4
<1>9. \A k \in Keys : condemned[k] \in {0, 1} /\ (condemned[k] = 1 => from <= BucketOf[k])
  BY <1>2 DEF FlowInv
<1>10. CASE to >= Capacity
  <2>1. \A k \in Keys : condemned[k] = 1 => \A e \in flows'[k] : AdmittedBy(policy, k, e)
    BY SMTT(60), <1>2, <1>3, <1>4, <1>7, <1>9, <1>10
  <2>2. condemned' = Condemn(flows', policy, 1)
    BY <1>1, <1>10
  <2>3. \A k \in Keys :
          /\ condemned'[k] \in {0, 1}
          /\ condemned'[k] = 1 => \E e \in flows'[k] : ~AdmittedBy(policy, k, e)
    BY SMTT(60), <2>1, <2>2, <1>9 DEF Condemn
  <2>4. condemned' \in [Keys -> {0, 1}]
    BY <2>2, <2>3 DEF Condemn
  <2>5. CASE deferred
    <3>1. cursor' = {0} /\ deferred' = FALSE
      BY <1>1, <1>10, <2>5
    <3>2. \A k \in Keys : 0 <= BucketOf[k] /\ ~(BucketOf[k] < 0)
      BY SMTT(60), <1>4
    <3>3. \A k \in Keys : (\A b \in cursor' : b <= BucketOf[k]) /\ ~(\A b \in cursor' : BucketOf[k] < b)
      BY <3>1, <3>2
    <3> QED BY <3>1, <3>3, <2>3, <2>4, <1>2, <1>5, <1>6 DEF FlowInv, AdmittedBy
  <2>6. CASE ~deferred
    <3>1. cursor' = {} /\ deferred' = FALSE
      BY <1>1, <1>10, <2>6
    <3>2. \A k \in Keys : \A e \in flows'[k] : AdmittedBy(policy, k, e)
      BY SMTT(60), <1>8, <2>6, <1>2, <1>3, <1>4, <1>10
    <3> QED BY <3>1, <3>2, <2>3, <2>4, <1>5, <1>6 DEF FlowInv, AdmittedBy
  <2> QED BY <2>5, <2>6 DEF FlowInv
<1>11. CASE ~(to >= Capacity)
  <2>1. cursor' = {to} /\ deferred' = deferred /\ to \in Buckets
    BY SMTT(60), <1>1, <1>2, <1>11 DEF Buckets
  <2>2. condemned' = Condemn(flows', policy, 0)
    BY <1>1, <1>11
  <2>3. \A k \in Keys :
          /\ condemned'[k] \in {0, 1}
          /\ condemned'[k] = 1 => condemned[k] = 1 /\ \E e \in flows'[k] : ~AdmittedBy(policy, k, e)
    BY SMTT(60), <2>2, <1>9 DEF Condemn
  <2>4. condemned' \in [Keys -> {0, 1}]
    BY <2>2, <2>3 DEF Condemn
  <2>5. \A k \in Keys : condemned'[k] = 1 => to <= BucketOf[k]
    BY SMTT(60), <2>3, <1>2, <1>4, <1>7, <1>9
  <2>6. \A k \in Keys : (\A b \in cursor' : BucketOf[k] < b) => BucketOf[k] < to
    BY <2>1
  <2> QED
    BY <2>1, <2>3, <2>4, <2>5, <2>6, <1>5, <1>6, <1>8 DEF FlowInv, AdmittedBy
<1> QED BY <1>10, <1>11

(* Every step keeps the invariant.                                         *)
LEMMA NextFlowInv == ASSUME FlowInv, [FlowNext]_flowVars PROVE FlowInv'
<1>1. CASE WakeCommitted
  BY <1>1, CommitInv
<1>2. CASE Wake
  BY <1>2 DEF Wake, FlowInv, AdmittedBy
<1>3. CASE Frame
  BY <1>3, FrameGrown, GrownStep
<1>4. CASE Reap
  BY <1>4, ReapInv
<1>5. CASE Window
  BY <1>5, WindowInv
<1>6. CASE Elapse
  BY <1>6, ElapseInv
<1>7. CASE UNCHANGED flowVars
  BY <1>7 DEF flowVars, FlowInv, AdmittedBy
<1> QED BY <1>1, <1>2, <1>3, <1>4, <1>5, <1>6, <1>7 DEF FlowNext

(* Once no pass is owed, the table holds only flows that the configuration *)
(* in force admits (PolicySweep::running reading false).                   *)
THEOREM QuietTheorem == FlowSpec => []QuietIsAdmitted
<1>1. FlowInv => QuietIsAdmitted
  BY DEF FlowInv, QuietIsAdmitted
<1> QED BY <1>1, InitFlowInv, NextFlowInv, PTL DEF FlowSpec

(* A flow forbidden all along is gone when a second pass completes,        *)
(* however many commits PolicySweep::arm defers meanwhile.                 *)
THEOREM TwoPassesTheorem == FlowSpec => []GoneInTwoPasses
<1>1. FlowInv => GoneInTwoPasses
  BY SMTT(60) DEF FlowInv, GoneInTwoPasses
<1> QED BY <1>1, InitFlowInv, NextFlowInv, PTL DEF FlowSpec
-----------------------------------------------------------------------------
(* The conversation that keeps its slot.                                   *)

(* A key has one flow at most.                                             *)
Single(table) == \A k \in Keys : \A e, other \in table[k] : e = other

(* Both sides have taken part in k's flow, and it is not over its timeout. *)
Live(k) == \E e \in flows[k] : IsAssured(e.state) /\ ~HasExpired(e)

(* A table on the way to a frame's last one: it has every live flow as it  *)
(* was.                                                                    *)
Lasting(table) ==
    /\ Single(table)
    /\ \A k \in Keys : Live(k) => table[k] = flows[k]

(* The table a step leaves: every live flow still has its slot.            *)
Keeps(table) ==
    /\ Single(table)
    /\ \A k \in Keys : Live(k) => table[k] # {}

(* A live flow that is as it was has its slot.                             *)
LEMMA LastingKeeps ==
    ASSUME NEW table, Lasting(table)
    PROVE  Keeps(table)
  BY DEF Lasting, Keeps, Live

(* An expired flow is not live, and a lookup or the timeout sweep releases *)
(* expired flows only (FlowTable::find, FlowTable::poll).                  *)
LEMMA ExpiryLasts ==
    ASSUME Single(flows), NEW gone \in SUBSET Expired(flows)
    PROVE  Lasting(Release(flows, gone))
<1>1. \A k \in Keys : Live(k) => k \notin Expired(flows)
  BY DEF Live, Expired
<1> QED BY <1>1 DEF Release, Lasting, Single

(* What an eviction scan settles on is expired or never assured, so it is  *)
(* not live (FlowTable::victim).                                           *)
LEMMA VictimNotLive ==
    ASSUME NEW table, Lasting(table), NEW scan, NEW k \in Victims(table, scan), k \in Keys
    PROVE  ~Live(k)
<1> SUFFICES ASSUME NEW e \in flows[k], IsAssured(e.state), ~HasExpired(e), Live(k)
             PROVE  FALSE
  BY DEF Live
<1>1. e \in table[k]
  BY DEF Lasting
<1>2. k \notin Expired(table)
  BY <1>1 DEF Expired
<1>3. ~(\A f \in table[k] : ~IsAssured(f.state))
  BY <1>1
<1> QED BY <1>2, <1>3 DEF Victims

(* Opening a flow takes the slot of none that is live.                     *)
LEMMA OpenedKeeps ==
    ASSUME NEW table, table = [j \in Keys |-> table[j]], Lasting(table), NEW k \in Keys,
           NEW way, NEW state, NEW next \in Opened(table, k, way, state)
    PROVE  Keeps(next)
<1>1. ASSUME NEW room \in TakeSlot(table)
      PROVE  Lasting(room) /\ room = [j \in Keys |-> room[j]]
  <2>1. CASE room = table
    BY <2>1
  <2>2. CASE room # table
    <3>1. PICK scan \in Scans(table) : \E v \in Victims(table, scan) : room = Release(table, {v})
      BY <1>1, <2>2 DEF TakeSlot
    <3>2. PICK v \in Victims(table, scan) : room = Release(table, {v})
      BY <3>1
    <3>3. v \in Keys
      BY <3>1, <3>2 DEF Victims, Scans, Present
    <3>4. ~Live(v)
      BY <3>2, <3>3, VictimNotLive
    <3> QED BY <3>2, <3>4 DEF Release, Lasting, Single
  <2> QED BY <2>1, <2>2
<1>2. CASE next = table
  BY <1>2, LastingKeeps
<1>3. CASE next \in TakeSlot(table)
  BY <1>1, <1>3, LastingKeeps
<1>4. CASE \E room \in TakeSlot(table) : next = [room EXCEPT ![k] = {NewEntry(state, way)}]
  <2>1. PICK room \in TakeSlot(table) : next = [room EXCEPT ![k] = {NewEntry(state, way)}]
    BY <1>4
  <2>2. Keeps(room) /\ room = [j \in Keys |-> room[j]]
    BY <1>1, LastingKeeps
  <2>3. \A j \in Keys : next[j] = IF j = k THEN {NewEntry(state, way)} ELSE room[j]
    BY <2>1, <2>2
  <2> QED BY <2>2, <2>3 DEF Keeps, Single
<1> QED BY <1>2, <1>3, <1>4 DEF Opened

(* A packet of a flow leaves the flow its slot.                            *)
LEMMA MovedKeeps ==
    ASSUME NEW table, table = [j \in Keys |-> table[j]], Lasting(table), NEW k \in Keys, NEW n
    PROVE  Keeps([table EXCEPT ![k] = {n}])
<1> DEFINE next == [table EXCEPT ![k] = {n}]
<1>1. \A j \in Keys : next[j] = IF j = k THEN {n} ELSE table[j]
  OBVIOUS
<1>2. Keeps(table)
  BY LastingKeeps
<1> HIDE DEF next
<1>3. Keeps(next)
  BY <1>1, <1>2 DEF Keeps, Single
<1> QED BY <1>3 DEF next

(* Every frame of a drain leaves the live flows their slots.               *)
LEMMA FrameKeeps ==
    ASSUME FlowInv, Single(flows), Frame
    PROVE  Keeps(flows')
<1>1. ASSUME NEW k
      PROVE  Lasting(Find(flows, k)) /\ Find(flows, k) = [j \in Keys |-> Find(flows, k)[j]]
  <2>1. {k} \cap Expired(flows) \in SUBSET Expired(flows)
    OBVIOUS
  <2> QED BY <2>1, ExpiryLasts DEF Find, Release
<1>2. CASE FrameDropped
  BY <1>2 DEF FrameDropped, Drained, Keeps, Live
<1>3. CASE \E k \in Keys : IcmpError(k)
  BY <1>1, <1>3, LastingKeeps DEF IcmpError, Drained
<1>4. ASSUME NEW k \in Keys, NEW way \in Ways,
             (\E event \in Events : Segment(k, way, event)) \/ Datagram(k, way)
                \/ \E reply \in BOOLEAN : Echo(k, way, reply)
      PROVE  Keeps(flows')
  <2> DEFINE table == Find(flows, k)
  <2>1. Lasting(table) /\ table = [j \in Keys |-> table[j]]
    BY <1>1
  <2>2. \/ flows' = table
        \/ \E state : flows' \in Opened(table, k, way, state)
        \/ \E n : flows' = [table EXCEPT ![k] = {n}]
    <3>1. ASSUME NEW event \in Events, Segment(k, way, event)
          PROVE  \/ flows' = table
                 \/ \E state : flows' \in Opened(table, k, way, state)
                 \/ \E n : flows' = [table EXCEPT ![k] = {n}]
      BY <3>1 DEF Segment, Drained
    <3>2. ASSUME Datagram(k, way)
          PROVE  \/ \E state : flows' \in Opened(table, k, way, state)
                 \/ \E n : flows' = [table EXCEPT ![k] = {n}]
      <4>1. CASE table[k] = {}
        BY <3>2, <4>1 DEF Datagram, Drained
      <4>2. ASSUME NEW e \in table[k]
            PROVE  flows' = [table EXCEPT ![k] = {AdvanceUdp(e, way)}]
        <5>1. \A f \in table[k] : f = e
          BY <2>1, <4>2 DEF Lasting, Single
        <5>2. {AdvanceUdp(f, way) : f \in table[k]} = {AdvanceUdp(e, way)}
          BY <4>2, <5>1
        <5>3. table[k] # {}
          BY <4>2
        <5> QED BY <3>2, <5>2, <5>3 DEF Datagram, Drained
      <4> QED BY <4>1, <4>2
    <3>3. ASSUME NEW reply \in BOOLEAN, Echo(k, way, reply)
          PROVE  \/ flows' = table
                 \/ \E state : flows' \in Opened(table, k, way, state)
                 \/ \E n : flows' = [table EXCEPT ![k] = {n}]
      <4>1. CASE table[k] = {}
        BY <3>3, <4>1 DEF Echo, Drained
      <4>2. ASSUME NEW e \in table[k]
            PROVE  flows' = [table EXCEPT ![k] = {AdvanceEcho(e, way, reply)}]
        <5>1. \A f \in table[k] : f = e
          BY <2>1, <4>2 DEF Lasting, Single
        <5>2. {AdvanceEcho(f, way, reply) : f \in table[k]} = {AdvanceEcho(e, way, reply)}
          BY <4>2, <5>1
        <5>3. table[k] # {}
          BY <4>2
        <5> QED BY <3>3, <5>2, <5>3 DEF Echo, Drained
      <4> QED BY <4>1, <4>2
    <3> QED BY <1>4, <3>1, <3>2, <3>3
  <2> HIDE DEF table
  <2>3. ASSUME NEW state, flows' \in Opened(table, k, way, state)
        PROVE  Keeps(flows')
    BY <2>1, <2>3, OpenedKeeps
  <2>4. ASSUME NEW n, flows' = [table EXCEPT ![k] = {n}]
        PROVE  Keeps(flows')
    <3>1. Keeps([table EXCEPT ![k] = {n}])
      BY <2>1, MovedKeeps
    <3> QED BY <2>4, <3>1
  <2> QED BY <2>1, <2>2, <2>3, <2>4, LastingKeeps
<1> QED BY <1>2, <1>3, <1>4 DEF Frame

(* One step: one flow a key, and a live flow goes only where a window of   *)
(* the re-decision finds it forbidden.                                     *)
LEMMA KeptStep ==
    ASSUME FlowInv, Single(flows), [FlowNext]_flowVars
    PROVE  /\ Single(flows')
           /\ \A k \in Keys : \A e \in flows[k] :
                (IsAssured(e.state) /\ ~HasExpired(e) /\ flows'[k] = {}) =>
                    phase = "sweep" /\ ~AdmittedBy(policy, k, e)
<1> DEFINE Goal ==
      /\ Single(flows')
      /\ \A k \in Keys : \A e \in flows[k] :
            (IsAssured(e.state) /\ ~HasExpired(e) /\ flows'[k] = {}) =>
                phase = "sweep" /\ ~AdmittedBy(policy, k, e)
<1>1. Keeps(flows') => Goal
  BY DEF Keeps, Live
<1>2. CASE flows' = flows
  BY <1>2 DEF Single
<1>3. CASE Frame
  BY <1>1, <1>3, FrameKeeps
<1>4. CASE Reap
  <2>1. PICK reaped \in SUBSET Expired(flows) : flows' = Release(flows, reaped)
    BY <1>4 DEF Reap
  <2> QED BY <1>1, <2>1, ExpiryLasts, LastingKeeps
<1>5. CASE Window
  <2>1. PICK from, to : flows' = Release(flows, Revoked(from, to))
    BY <1>5 DEF Window
  <2>2. Single(flows')
    BY <2>1 DEF Release, Single
  <2>3. ASSUME NEW k \in Keys, NEW e \in flows[k], flows'[k] = {}
        PROVE  ~AdmittedBy(policy, k, e)
    <3>1. k \in Revoked(from, to)
      BY <2>1, <2>3 DEF Release
    <3>2. PICK f \in flows[k] : ~AdmittedBy(policy, k, f)
      BY <3>1 DEF Revoked
    <3> QED BY <3>2, <2>3 DEF Single
  <2> QED BY <2>2, <2>3, <1>5 DEF Window
<1>6. CASE Elapse
  <2> DEFINE aged(e) == [e EXCEPT !.idle = IF @ < MaxIdle THEN @ + 1 ELSE @]
  <2>1. \A k \in Keys : flows'[k] = {aged(e) : e \in flows[k]}
    BY <1>6 DEF Elapse
  <2> HIDE DEF aged
  <2>2. ASSUME NEW k \in Keys
        PROVE  (flows[k] # {} => flows'[k] # {}) /\ \A m, n \in flows'[k] : m = n
    <3>1. \A e, other \in flows[k] : e = other
      BY DEF Single
    <3>2. \A n \in flows'[k] : \E e \in flows[k] : n = aged(e)
      BY <2>1
    <3>3. \A e \in flows[k] : aged(e) \in flows'[k]
      BY <2>1
    <3> QED BY <3>1, <3>2, <3>3
  <2> QED BY <2>2 DEF Single
<1>7. (WakeCommitted \/ Wake \/ UNCHANGED flowVars) => flows' = flows
  BY DEF WakeCommitted, Wake, flowVars
<1> QED BY <1>2, <1>3, <1>4, <1>5, <1>6, <1>7 DEF FlowNext

(* A conversation both sides have taken part in, and that is not over its  *)
(* timeout, loses its slot to the re-decision and to nothing else:         *)
(* FlowTable::victim and FlowTable::poll never take it.                    *)
THEOREM AssuredTheorem == FlowSpec => AssuredIsKept
<1>1. FlowInit => Single(flows)
  BY DEF FlowInit, Single
<1>2. FlowInv /\ Single(flows) /\ [FlowNext]_flowVars => Single(flows)'
  BY KeptStep DEF Single
<1>3. FlowInv /\ Single(flows) /\ [FlowNext]_flowVars =>
        [\A k \in Keys : \A e \in flows[k] :
            (IsAssured(e.state) /\ ~HasExpired(e) /\ flows'[k] = {}) =>
                phase = "sweep" /\ ~AdmittedBy(policy, k, e)]_flowVars
  BY KeptStep
<1> QED BY <1>1, <1>2, <1>3, InitFlowInv, NextFlowInv, PTL DEF FlowSpec, AssuredIsKept
==============================================================================
