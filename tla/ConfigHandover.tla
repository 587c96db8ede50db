--------------------------- MODULE ConfigHandover ---------------------------
(***************************************************************************)
(* The handover of a configuration generation from the configuration       *)
(* domain to the forwarding domain and to the management port: the shared  *)
(* region of datad/crates/wire/src/lib.rs, the three roles over it in      *)
(* datad/crates/pd-runtime/src/handover.rs, and the wakeups the domains    *)
(* send each other.                                                        *)
(*                                                                         *)
(* The region is a counted image: the publisher rewrites it field by field *)
(* under an odd counter, a reader copies it field by field and keeps the   *)
(* copy only if the counter was even before and is unchanged after.  Every *)
(* access to the region is a step, in program order.  The image of         *)
(* generation g holds g in every field, so a copy blended from two         *)
(* publications is one whose fields differ; field 1 is its label.          *)
(***************************************************************************)
EXTENDS Integers

CONSTANTS NF,            \* fields of an image
          MaxGen,        \* bound on the generations ever offered
          LOAD_ATTEMPTS, \* copies one reader tries before giving up
          Refused,       \* generations the forwarder's own check turns down
          Identity,      \* generation -> the management port's MAC, address
                         \* and prefix length
          Gateway        \* generation -> the management port's gateway

ASSUME FieldsAssumption == NF \in Nat /\ NF >= 1
ASSUME AttemptsAssumption == LOAD_ATTEMPTS \in Nat /\ LOAD_ATTEMPTS >= 1
ASSUME GenAssumption == MaxGen \in Nat /\ MaxGen >= 1

Field == 1 .. NF
Gen == 0 .. MaxGen
Reader == {"switch", "committed"}  \* ConfigurationSwitch, CommittedReader

VARIABLES
  offered, committed, publishing, image,  \* the ConfigHandover region
  ackStaged, ackRunning,                  \* the ConfigAck region
  pPc, pField, pGen, pOffered,            \* ConfigPublisher
  pc, before, word, field, copy, attempt, \* load_settled, per reader
  active, activeGeneration,               \* the forwarder's configuration
  staged, considered,                     \* its pending one, its last judged
  taken, endpoint,                        \* CommittedReader, the port's endpoint
  wakeConfig, wakeForwarder               \* notifications not yet delivered

publisher == <<pPc, pField, pGen, pOffered>>
loads == <<pc, before, word, field, copy, attempt>>
switch == <<active, activeGeneration, staged, considered>>
region == <<offered, committed, publishing, image>>
acks == <<ackStaged, ackRunning>>
wakes == <<wakeConfig, wakeForwarder>>
port == <<taken, endpoint>>
vars == <<region, acks, publisher, loads, switch, port, wakes>>

Blank == [f \in Field |-> 0]
Unaddressed == [identity |-> "none", gateway |-> "none"]

Init ==
  /\ offered = 0 /\ committed = 0 /\ publishing = 0 /\ image = Blank
  /\ ackStaged = 0 /\ ackRunning = 0
  /\ pPc = "idle" /\ pField = 1 /\ pGen = 0 /\ pOffered = 0
  /\ pc = [r \in Reader |-> "idle"]
  /\ before = [r \in Reader |-> 0] /\ word = [r \in Reader |-> 0]
  /\ field = [r \in Reader |-> 1] /\ copy = [r \in Reader |-> Blank]
  /\ attempt = [r \in Reader |-> 0]
  /\ active = Blank /\ activeGeneration = 0 /\ staged = {} /\ considered = 0
  /\ taken = 0 /\ endpoint = Unaddressed
  /\ wakeConfig = FALSE /\ wakeForwarder = FALSE

-----------------------------------------------------------------------------
(* The configuration domain: ConfigPublisher, ConfigHandover::publish *)

\* take_acknowledgement's condition.
Acknowledged ==
  pOffered # 0 /\ committed < pOffered /\ ackStaged = pOffered

\* take_acknowledgement, and the notification when it released something.
TakeAcknowledgement ==
  /\ committed' = IF Acknowledged THEN pOffered ELSE committed
  /\ wakeForwarder' = (wakeForwarder \/ Acknowledged)

\* Woken by the forwarder alone.
AckWakeup ==
  /\ pPc = "idle" /\ wakeConfig
  /\ wakeConfig' = FALSE
  /\ TakeAcknowledgement
  /\ UNCHANGED <<offered, publishing, image, acks, publisher, loads, switch,
                 port>>

\* Woken with a demand whose commit or rollback offers generation g; `offer`
\* refuses one that is not newer than the last.  `publishing | 1` first.
DemandWakeup(g) ==
  /\ pPc = "idle" /\ g > pOffered
  /\ wakeConfig' = FALSE
  /\ TakeAcknowledgement
  /\ publishing' = IF publishing % 2 = 1 THEN publishing ELSE publishing + 1
  /\ pPc' = "write" /\ pField' = 1 /\ pGen' = g
  /\ UNCHANGED <<offered, image, pOffered, acks, loads, switch, port>>

PublishField ==
  /\ pPc = "write"
  /\ image' = [image EXCEPT ![pField] = pGen]
  /\ pField' = pField + 1
  /\ pPc' = IF pField = NF THEN "word" ELSE "write"
  /\ UNCHANGED <<offered, committed, publishing, acks, pGen, pOffered, loads,
                 switch, port, wakes>>

PublishWord ==
  /\ pPc = "word"
  /\ offered' = pGen
  /\ pPc' = "settle"
  /\ UNCHANGED <<committed, publishing, image, acks, pField, pGen, pOffered,
                 loads, switch, port, wakes>>

\* Mutant: the offer is made and the consumer is not notified of it.
PublishSettleSilent ==
  /\ pPc = "settle"
  /\ publishing' = publishing + 1
  /\ pOffered' = pGen
  /\ pPc' = "idle"
  /\ UNCHANGED <<offered, committed, image, acks, pField, pGen, loads, switch,
                 port, wakes>>

\* The counter settles, the publisher remembers, the consumer is notified.
PublishSettle ==
  /\ pPc = "settle"
  /\ publishing' = publishing + 1
  /\ pOffered' = pGen
  /\ pPc' = "idle"
  /\ wakeForwarder' = TRUE
  /\ UNCHANGED <<offered, committed, image, acks, pField, pGen, loads, switch,
                 port, wakeConfig>>

-----------------------------------------------------------------------------
(* ConfigHandover::load_settled, for either reader *)

\* Where a reader goes once it has given up: the forwarder still looks for a
\* commit in the same wakeup, the port's reader is done.
GaveUp(r) == IF r = "switch" THEN "commit" ELSE "idle"

\* One copy spent: another, or the end of the call.
Retry(r) ==
  /\ attempt' = [attempt EXCEPT ![r] = @ + 1]
  /\ pc' = [pc EXCEPT ![r] = IF attempt[r] + 1 = LOAD_ATTEMPTS
                             THEN GaveUp(r) ELSE "before"]

LoadBefore(r) ==
  /\ pc[r] = "before"
  /\ \/ /\ publishing % 2 = 1
        /\ Retry(r)
        /\ UNCHANGED before
     \/ /\ publishing % 2 = 0
        /\ before' = [before EXCEPT ![r] = publishing]
        /\ pc' = [pc EXCEPT ![r] = "word"]
        /\ UNCHANGED attempt
  /\ UNCHANGED <<region, acks, publisher, word, field, copy, switch, port,
                 wakes>>

\* load_offer reads the offered word, load_committed the committed one.
LoadWord(r) ==
  /\ pc[r] = "word"
  /\ word' = [word EXCEPT ![r] = IF r = "switch" THEN offered ELSE committed]
  /\ field' = [field EXCEPT ![r] = 1]
  /\ pc' = [pc EXCEPT ![r] = "copy"]
  /\ UNCHANGED <<region, acks, publisher, before, copy, attempt, switch, port,
                 wakes>>

LoadField(r) ==
  /\ pc[r] = "copy"
  /\ copy' = [copy EXCEPT ![r][field[r]] = image[field[r]]]
  /\ field' = [field EXCEPT ![r] = @ + 1]
  /\ pc' = [pc EXCEPT ![r] = IF field[r] = NF THEN "after" ELSE "copy"]
  /\ UNCHANGED <<region, acks, publisher, before, word, attempt, switch, port,
                 wakes>>

\* Mutant: the counter is not read again.
LoadAfterTrusting(r) ==
  /\ pc[r] = "after"
  /\ pc' = [pc EXCEPT ![r] = "judge"]
  /\ UNCHANGED <<attempt, region, acks, publisher, before, word, field, copy,
                 switch, port, wakes>>

LoadAfter(r) ==
  /\ pc[r] = "after"
  /\ \/ /\ publishing = before[r]
        /\ pc' = [pc EXCEPT ![r] = "judge"]
        /\ UNCHANGED attempt
     \/ /\ publishing # before[r]
        /\ Retry(r)
  /\ UNCHANGED <<region, acks, publisher, before, word, field, copy, switch,
                 port, wakes>>

Load(r) == LoadBefore(r) \/ LoadWord(r) \/ LoadField(r) \/ LoadAfter(r)

-----------------------------------------------------------------------------
(* The forwarding domain: take_offer and then take_commit, in one wakeup *)

\* Whether an offered word is one this domain has not taken (highest_taken:
\* the staged generation, or the running one with nothing staged) or judged.
LooksNew(g) ==
  /\ \A s \in staged : g > s.generation
  /\ staged = {} => g > activeGeneration
  /\ g # considered

\* A wakeup, by a notification or by traffic: the offered word is read first.
SwitchWakeup ==
  /\ pc["switch"] = "idle"
  /\ wakeForwarder' = FALSE
  /\ pc' = [pc EXCEPT !["switch"] =
              IF LooksNew(offered) THEN "before" ELSE "commit"]
  /\ attempt' = [attempt EXCEPT !["switch"] = 0]
  /\ UNCHANGED <<region, acks, publisher, before, word, field, copy, switch,
                 port, wakeConfig>>

\* The copied offer is judged: built and acknowledged, or refused and left.
JudgeOffer ==
  /\ pc["switch"] = "judge"
  /\ \/ /\ LooksNew(word["switch"]) /\ word["switch"] \notin Refused
        /\ considered' = word["switch"]
        /\ staged' = {[generation |-> word["switch"],
                       content |-> copy["switch"]]}
        /\ ackStaged' = word["switch"]
        /\ wakeConfig' = TRUE
     \/ /\ LooksNew(word["switch"]) /\ word["switch"] \in Refused
        /\ considered' = word["switch"]
        /\ UNCHANGED <<staged, ackStaged, wakeConfig>>
     \/ /\ ~LooksNew(word["switch"])
        /\ UNCHANGED <<considered, staged, ackStaged, wakeConfig>>
  /\ pc' = [pc EXCEPT !["switch"] = "commit"]
  /\ UNCHANGED <<region, ackRunning, publisher, before, word, field, copy,
                 attempt, active, activeGeneration, port, wakeForwarder>>

\* take_commit: switch to the staged generation once it is released.
TakeCommit ==
  /\ pc["switch"] = "commit"
  /\ \/ \E s \in staged :
          /\ committed >= s.generation
          /\ active' = s.content /\ activeGeneration' = s.generation
          /\ ackRunning' = s.generation
          /\ staged' = {}
     \/ /\ \A s \in staged : committed < s.generation
        /\ UNCHANGED <<active, activeGeneration, ackRunning, staged>>
  /\ pc' = [pc EXCEPT !["switch"] = "idle"]
  /\ UNCHANGED <<region, ackStaged, publisher, before, word, field, copy,
                 attempt, considered, port, wakes>>

-----------------------------------------------------------------------------
(* The management port: CommittedReader::take, take_configuration, adopt *)

PortWakeup ==
  /\ pc["committed"] = "idle"
  /\ committed > taken
  /\ pc' = [pc EXCEPT !["committed"] = "before"]
  /\ attempt' = [attempt EXCEPT !["committed"] = 0]
  /\ UNCHANGED <<region, acks, publisher, before, word, field, copy, switch,
                 port, wakes>>

\* endpoint_from: what the generation says the port is.
EndpointOf(g) == [identity |-> Identity[g], gateway |-> Gateway[g]]

\* adopt: an endpoint whose MAC, address and prefix length have not moved is
\* kept as it stands, connections, gateway and all.
Adopt(g) ==
  endpoint' = IF /\ endpoint.identity # "none" /\ Identity[g] # "none"
                 /\ endpoint.identity = Identity[g]
              THEN endpoint ELSE EndpointOf(g)

\* Mutant: the label inside the image is not compared with the word.
TakeCommittedUnlabelled ==
  /\ pc["committed"] = "judge"
  /\ \/ /\ word["committed"] > taken
        /\ taken' = word["committed"]
        /\ Adopt(copy["committed"][1])
     \/ /\ word["committed"] <= taken
        /\ UNCHANGED port
  /\ pc' = [pc EXCEPT !["committed"] = "idle"]
  /\ UNCHANGED <<region, acks, publisher, before, word, field, copy, attempt,
                 switch, wakes>>

\* A superseded image, whose label is not the committed word, is left; the
\* port re-checks what it takes with the same check the forwarder passed.
TakeCommitted ==
  /\ pc["committed"] = "judge"
  /\ \/ /\ word["committed"] > taken
        /\ copy["committed"][1] = word["committed"]
        /\ taken' = word["committed"]
        /\ Adopt(copy["committed"][1])
     \/ /\ word["committed"] <= taken
           \/ copy["committed"][1] # word["committed"]
        /\ UNCHANGED port
  /\ pc' = [pc EXCEPT !["committed"] = "idle"]
  /\ UNCHANGED <<region, acks, publisher, before, word, field, copy, attempt,
                 switch, wakes>>

-----------------------------------------------------------------------------
ConfigStep == AckWakeup \/ PublishField \/ PublishWord \/ PublishSettle
SwitchStep == Load("switch") \/ JudgeOffer \/ TakeCommit
PortStep == PortWakeup \/ Load("committed") \/ TakeCommitted

Next ==
  \/ ConfigStep
  \/ \E g \in Gen : DemandWakeup(g)
  \/ SwitchWakeup
  \/ SwitchStep
  \/ PortStep

\* A domain that was woken runs its entrypoint to the end; the management
\* port is woken by the clock domain's tick for as long as the node runs.
\* Nothing makes a demand arrive, and nothing wakes the forwarder but a
\* notification it has been sent.
Fairness ==
  /\ WF_vars(ConfigStep)
  /\ WF_vars(wakeForwarder /\ SwitchWakeup)
  /\ WF_vars(SwitchStep)
  /\ WF_vars(PortStep)

Spec == Init /\ [][Next]_vars
FairSpec == Spec /\ Fairness

-----------------------------------------------------------------------------
(* Properties *)

Staged == [generation : Gen, content : [Field -> Gen]]

TypeOK ==
  /\ offered \in Gen /\ committed \in Gen /\ publishing \in Nat
  /\ image \in [Field -> Gen]
  /\ ackStaged \in Gen /\ ackRunning \in Gen
  /\ pPc \in {"idle", "write", "word", "settle"}
  /\ pField \in 1 .. NF + 1 /\ pGen \in Gen /\ pOffered \in Gen
  /\ pc \in [Reader -> {"idle", "before", "word", "copy", "after", "judge",
                        "commit"}]
  /\ before \in [Reader -> Nat] /\ word \in [Reader -> Gen]
  /\ field \in [Reader -> 1 .. NF + 1]
  /\ copy \in [Reader -> [Field -> Gen]]
  /\ attempt \in [Reader -> 0 .. LOAD_ATTEMPTS]
  /\ active \in [Field -> Gen] /\ activeGeneration \in Gen
  /\ staged = {} \/ \E s \in Staged : staged = {s}
  /\ considered \in Gen /\ taken \in Gen
  /\ wakeConfig \in BOOLEAN /\ wakeForwarder \in BOOLEAN

\* What the forwarder decides frames by, and what it holds ready, is always
\* one publication and the one its number names: never a blend of two images,
\* and never one generation's bytes under another's number.
ActiveIsOnePublication ==
  /\ \A f \in Field : active[f] = activeGeneration
  /\ \A s \in staged : \A f \in Field : s.content[f] = s.generation

\* A copy load_settled lets through is one publication, for either reader;
\* for the forwarder it is the one the word named, which take_offer relies on
\* without comparing the two.
CopyIsOnePublication ==
  /\ \A r \in Reader : pc[r] = "judge" =>
       \A f \in Field : copy[r][f] = copy[r][1]
  /\ pc["switch"] = "judge" => copy["switch"][1] = word["switch"]

\* The forwarder never runs an unreleased generation, and a released one it
\* has not switched to is still in its hands, or superseded there by a newer
\* one: a second offer between the release and the switch loses nothing.
ReleasedIsHeld ==
  /\ activeGeneration <= committed
  /\ committed > activeGeneration =>
       \E s \in staged : s.generation >= committed

\* No generation the forwarder's check turned down is ever released or run.
RefusedNeverRuns ==
  /\ activeGeneration \notin Refused \ {0}
  /\ committed \notin Refused \ {0}

\* The management port follows releases only: it never takes a generation
\* before the forwarder could run it, and its addressing is that of the
\* generation it says it runs.
PortFollowsRelease ==
  /\ taken <= committed
  /\ taken # 0 => endpoint.identity = Identity[taken]

\* Both readers follow the releases, the forwarder losing none of them and the
\* port running ahead of none.
ReleaseIsFollowed == ReleasedIsHeld /\ PortFollowsRelease

\* An acceptable offer comes to run in the forwarder and at the management port,
\* in both at once, unless a newer one is begun: no notification is lost, not
\* even when a copy was given up because the publisher was rewriting the region
\* throughout.
OfferIsRun ==
  \A g \in Gen \ (Refused \cup {0}) :
    (pOffered = g) ~> (activeGeneration = g /\ taken = g) \/ pGen > g
=============================================================================
