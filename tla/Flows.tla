-------------------------------- MODULE Flows --------------------------------
(***************************************************************************)
(* The forwarder's wakeup: the connection table, the two halves of the     *)
(* connection stage around the filter, and the re-decision of the table    *)
(* that a committed configuration owes.                                    *)
(*                                                                         *)
(* One wakeup is Wake (ownership and commit), any frames the drain finds,  *)
(* Reap (the timeout sweep) and the windows of the re-decision.  A single  *)
(* protection domain runs it, so nothing interleaves with a wakeup; time   *)
(* passes and configurations change between two of them.                   *)
(*                                                                         *)
(* The table is seen by key: what a bucket's chain and the free list hold  *)
(* is derived from which keys have a flow.  Which slot a flow sits in is   *)
(* abstracted, so the windows of slots that the timeout sweep and the      *)
(* eviction scan walk are any sets of flows of the right size.  Sequence   *)
(* numbers are abstracted to whether a segment is inside its window and    *)
(* whether it acknowledges the peer's FIN.                                 *)
(***************************************************************************)
EXTENDS Integers, FiniteSets

CONSTANTS
    Keys,             \* five-tuples, both orientations of one being one key
    ProtocolOf,       \* [Keys -> {"tcp", "udp", "icmp"}]
    BucketOf,         \* [Keys -> 0..Capacity-1], the key's hash
    Capacity,         \* slots, and buckets
    MaxChain, EvictionScan, SweepStride, RevisitBuckets, RevisitFlows,
    FrameBudget,      \* WAKEUP_FRAME_BUDGET
    FramesPerWindow,
    Configurations,   \* the configurations a commit can put in force
    MaxFrames,        \* bound: frames one drain finds
    MaxIdle           \* bound: ticks of silence told apart

Ways == {"lower", "upper"}
Other(way) == IF way = "lower" THEN "upper" ELSE "lower"
Buckets == 0..(Capacity - 1)

(* What a configuration says of a frame: the stages in front of the filter *)
(* carry it, and the filter accepts it as an opening.                      *)
Configuration == [routed : SUBSET (Keys \X Ways), accepted : SUBSET (Keys \X Ways)]

(* The forwarder before its first commit has no interface and no rule.     *)
Unconfigured == [routed |-> {}, accepted |-> {}]

ASSUME TableAssumption ==
    /\ Capacity \in Nat \ {0}
    /\ BucketOf \in [Keys -> 0..(Capacity - 1)]
    /\ ProtocolOf \in [Keys -> {"tcp", "udp", "icmp"}]
    /\ RevisitBuckets \in Nat \ {0} /\ RevisitFlows \in Nat \ {0}
    /\ FrameBudget \in Nat /\ FramesPerWindow \in Nat \ {0}
    /\ Configurations \subseteq Configuration
    /\ MaxFrames \in Nat /\ MaxIdle \in Nat

VARIABLES
    flows,      \* [Keys -> {} or one entry], the table
    policy,     \* the configuration in force
    owned,      \* the appliance has been adopted
    phase,      \* "idle", "drain" or "sweep": where the wakeup is
    frames,     \* frames this wakeup has drained
    cursor,     \* PolicySweep::cursor, {} while no pass is running
    deferred,   \* PolicySweep::deferred
    windows,    \* windows this wakeup still works off
    length,     \* wakeups the running pass has taken (history)
    condemned   \* [Keys -> 0..2], passes completed while forbidden (history)

flowVars == <<flows, policy, owned, phase, frames, cursor, deferred, windows, length, condemned>>

TcpStates == {"SynSent", "SynReceived", "Established", "FinWait", "CloseWait", "Closing",
              "TimeWait", "Closed"}
States == TcpStates \cup {"UdpUnreplied", "UdpAssured", "IcmpUnreplied", "IcmpReplied"}

Entry == [state : States, origin : Ways, idle : 0..MaxIdle,
          spoken : SUBSET Ways, fin : SUBSET Ways, finAcked : SUBSET Ways]

(* FlowEntry::open and, for the opening packet, DirectionState::open.      *)
NewEntry(state, way) ==
    [state |-> state, origin |-> way, idle |-> 0,
     spoken |-> {way}, fin |-> {}, finAcked |-> {}]

IsAssured(state) ==
    state \in {"Established", "FinWait", "CloseWait", "Closing", "UdpAssured", "IcmpReplied"}

(* The timeouts keep the order of timeout.rs on a scale of ticks: one for  *)
(* a flow that is not assured or is over, two for one that is.             *)
Timeout(state) == IF IsAssured(state) THEN 2 ELSE 1

HasExpired(entry) == entry.idle >= Timeout(entry.state)

Present(table) == {k \in Keys : table[k] # {}}
Expired(table) == {k \in Present(table) : \A e \in table[k] : HasExpired(e)}

(* A flow's slot is given back: unlinked, vacant, on the free list.        *)
Release(table, gone) == [k \in Keys |-> IF k \in gone THEN {} ELSE table[k]]

(* The table a lookup of k leaves: an expired match is released.           *)
Find(table, k) == Release(table, {k} \cap Expired(table))

(***************************************************************************)
(* Opening a flow: a free slot, or a victim's                              *)
(***************************************************************************)
ChainLength(table, bucket) == Cardinality({k \in Present(table) : BucketOf[k] = bucket})

(* The flows an eviction scan meets.  It runs on a full table only, where  *)
(* every slot it walks is occupied.                                        *)
Scans(table) ==
    {scan \in SUBSET Present(table) :
        Cardinality(scan) = (IF EvictionScan < Capacity THEN EvictionScan ELSE Capacity)}

(* Mutant: the scan takes the oldest flow whatever was exchanged on it. *)
OldestOfAll(table, scan) ==
    IF scan \cap Expired(table) # {} THEN scan \cap Expired(table)
    ELSE {k \in scan : \A e \in table[k], other \in scan : \A o \in table[other] : e.idle >= o.idle}

(* An expired flow of the scan, else the oldest that is not assured.       *)
Victims(table, scan) ==
    LET Candidates == {k \in scan : \A e \in table[k] : ~IsAssured(e.state)}
    IN  IF scan \cap Expired(table) # {} THEN scan \cap Expired(table)
        ELSE {k \in Candidates :
                \A e \in table[k], other \in Candidates : \A o \in table[other] : e.idle >= o.idle}

(* The tables with a slot taken: no change, or one flow fewer.             *)
TakeSlot(table) ==
    IF Cardinality(Present(table)) < Capacity THEN {table}
    ELSE {Release(table, {k}) : k \in UNION {Victims(table, scan) : scan \in Scans(table)}}

(* No victim in the slots scanned: TableFull.                              *)
NoSlot(table) ==
    /\ Cardinality(Present(table)) >= Capacity
    /\ \E scan \in Scans(table) : Victims(table, scan) = {}

(* Whether the flow a packet opened outlives the packet: the stage behind  *)
(* the filter withdraws it where the filter refused the packet.            *)
Settled(k, way) == <<k, way>> \in policy.accepted

(* The outcomes of a packet that may open a flow, filter included.         *)
Opened(table, k, way, state) ==
    (IF NoSlot(table) THEN {table} ELSE {}) \cup
    {IF ChainLength(room, BucketOf[k]) >= MaxChain \/ ~Settled(k, way) THEN room
     ELSE [room EXCEPT ![k] = {NewEntry(state, way)}] : room \in TakeSlot(table)}

(***************************************************************************)
(* A packet of an existing flow                                            *)
(***************************************************************************)
Events == {"Syn", "SynAck", "Ack", "Fin", "Reset"}

Admits(state, event, direction) ==
    CASE state \notin TcpStates \ {"Closed"} -> FALSE
      [] event = "Reset" -> TRUE
      [] state = "SynSent" -> event = "Syn" \/ (event = "SynAck" /\ direction = "Reply")
      [] state = "SynReceived" -> TRUE
      [] OTHER -> event \in {"Ack", "Fin"}

(* Where a synchronized flow stands is what its two FINs say.              *)
ClosedState(fin, finAcked) ==
    CASE fin = {} -> "Established"
      [] fin = Ways -> IF finAcked = Ways THEN "TimeWait" ELSE "Closing"
      [] OTHER -> IF fin \subseteq finAcked THEN "CloseWait" ELSE "FinWait"

NextState(state, event, direction, fin, finAcked) ==
    CASE event = "Reset" -> "Closed"
      [] state = "SynSent" /\ event = "Syn" /\ direction = "Original" -> "SynSent"
      [] state \in {"SynSent", "SynReceived"} /\ event \in {"Syn", "SynAck"} -> "SynReceived"
      [] OTHER -> ClosedState(fin, finAcked)

DirectionOf(entry, way) == IF way = entry.origin THEN "Original" ELSE "Reply"

(* Whether the windows authorise a segment is the sequence numbers' to     *)
(* say, except for the first SYN of a side, which nothing holds to         *)
(* anything.                                                               *)
InWindow(entry, way, event) ==
    IF event = "Syn" /\ way \notin entry.spoken THEN {TRUE} ELSE BOOLEAN

(* An acknowledgement can cover the peer's FIN once there is one; a SYN    *)
(* carries none.                                                           *)
Acknowledges(entry, way, event) ==
    IF event = "Syn" \/ Other(way) \notin entry.fin THEN {FALSE} ELSE BOOLEAN

Recorded(entry, way, event, acks) ==
    LET fin      == IF event = "Fin" THEN entry.fin \cup {way} ELSE entry.fin
        finAcked == IF acks THEN entry.finAcked \cup {Other(way)} ELSE entry.finAcked
    IN  [entry EXCEPT !.spoken = @ \cup {way}, !.fin = fin, !.finAcked = finAcked, !.idle = 0,
            !.state = NextState(entry.state, event, DirectionOf(entry, way), fin, finAcked)]

AdvanceTcp(entry, way, event) ==
    (IF Admits(entry.state, event, DirectionOf(entry, way))
     THEN {Recorded(entry, way, event, acks) : acks \in Acknowledges(entry, way, event)}
     ELSE {entry}) \cup
    (IF FALSE \in InWindow(entry, way, event) THEN {entry} ELSE {})

(* A datagram either way refreshes the flow; one from the other side       *)
(* assures it.                                                             *)
AdvanceUdp(entry, way) ==
    [entry EXCEPT !.spoken = @ \cup {way}, !.idle = 0,
        !.state = IF way # entry.origin THEN "UdpAssured" ELSE @]

(* A reply that travels the way the request did answers nothing.           *)
AdvanceEcho(entry, way, reply) ==
    IF reply /\ way = entry.origin THEN entry
    ELSE [entry EXCEPT !.spoken = @ \cup {way}, !.idle = 0,
            !.state = IF reply THEN "IcmpReplied" ELSE @]

(***************************************************************************)
(* The actions of a wakeup                                                 *)
(***************************************************************************)
AdmittedBy(config, k, entry) ==
    <<k, entry.origin>> \in config.routed \cap config.accepted

(* How long each flow has been forbidden, in completed passes: the history *)
(* follows the table and the configuration, and `passes` is 1 when the     *)
(* step completes a pass.                                                  *)
Condemn(table, config, passes) ==
    [k \in Keys |->
        IF \A e \in table[k] : AdmittedBy(config, k, e) THEN 0
        ELSE IF condemned[k] + passes > 2 THEN 2 ELSE condemned[k] + passes]

FlowInit ==
    /\ flows = [k \in Keys |-> {}]
    /\ policy = Unconfigured
    /\ owned = FALSE
    /\ phase = "idle" /\ frames = 0
    /\ cursor = {} /\ deferred = FALSE /\ windows = 0 /\ length = 0
    /\ condemned = [k \in Keys |-> 0]

(* Mutant: a running pass goes on under the new configuration. *)
ArmKept ==
    /\ cursor' = IF cursor = {} THEN {0} ELSE cursor
    /\ length' = IF cursor = {} THEN 0 ELSE length
    /\ UNCHANGED deferred

(* Mutant: a commit starts the running pass over. *)
ArmRestarts == cursor' = {0} /\ length' = 0 /\ UNCHANGED deferred

(* PolicySweep::arm: a running pass finishes and another is owed.          *)
Arm ==
    /\ cursor' = IF cursor = {} THEN {0} ELSE cursor
    /\ deferred' = (deferred \/ cursor # {})
    /\ length' = IF cursor = {} THEN 0 ELSE length

(* The domain is woken with a configuration its publisher has released.    *)
WakeCommitted ==
    /\ phase = "idle"
    /\ \E config \in Configurations :
        /\ policy' = config
        /\ condemned' = Condemn(flows, config, 0)
    /\ owned' \in {owned, TRUE}
    /\ Arm
    /\ phase' = "drain" /\ frames' = 0
    /\ UNCHANGED <<flows, windows>>

(* The domain is woken with none.                                          *)
Wake ==
    /\ phase = "idle"
    /\ owned' \in {owned, TRUE}
    /\ phase' = "drain" /\ frames' = 0
    /\ UNCHANGED <<flows, policy, cursor, deferred, windows, length, condemned>>

(* One frame of the drain, whose table afterwards is one of `tables`.      *)
Drained(tables) ==
    /\ phase = "drain" /\ frames < MaxFrames
    /\ frames' = frames + 1
    /\ flows' \in tables
    /\ condemned' = Condemn(flows', policy, 0)
    /\ UNCHANGED <<policy, owned, phase, cursor, deferred, windows, length>>

(* A frame the stages in front of the tracker settle, or one the tracker   *)
(* cannot read.                                                            *)
FrameDropped == Drained({flows})

(* The stages in front of the tracker let the frame through.               *)
Carried(k, way) == owned /\ <<k, way>> \in policy.routed

Segment(k, way, event) ==
    /\ ProtocolOf[k] = "tcp" /\ Carried(k, way)
    /\ \E table \in {Find(flows, k)} :
        IF table[k] # {}
        THEN Drained({[table EXCEPT ![k] = {next}] :
                        next \in UNION {AdvanceTcp(e, way, event) : e \in table[k]}})
        ELSE Drained(IF event = "Syn" THEN Opened(table, k, way, "SynSent") ELSE {table})

Datagram(k, way) ==
    /\ ProtocolOf[k] = "udp" /\ Carried(k, way)
    /\ \E table \in {Find(flows, k)} :
        IF table[k] # {}
        THEN Drained({[table EXCEPT ![k] = {AdvanceUdp(e, way) : e \in table[k]}]})
        ELSE Drained(Opened(table, k, way, "UdpUnreplied"))

Echo(k, way, reply) ==
    /\ ProtocolOf[k] = "icmp" /\ Carried(k, way)
    /\ \E table \in {Find(flows, k)} :
        IF table[k] # {}
        THEN Drained({[table EXCEPT ![k] = {AdvanceEcho(e, way, reply) : e \in table[k]}]})
        ELSE Drained(IF reply THEN {table} ELSE Opened(table, k, way, "IcmpUnreplied"))

(* An error that quotes a datagram of k.  It moves nothing, whatever the   *)
(* filter then makes of it; the lookup it needs can release the flow.      *)
IcmpError(k) == owned /\ Drained({Find(flows, k)})

(* windows_for: the greater of what the drain left of its budget and what  *)
(* the occupancy needs.                                                    *)
WindowsFor ==
    LET spent     == IF frames > FrameBudget THEN FrameBudget ELSE frames
        slack     == 1 + (FrameBudget - spent) \div FramesPerWindow
        scaled    == Cardinality(Present(flows')) * (RevisitBuckets \div RevisitFlows)
        occupancy == (scaled + Capacity - 1) \div Capacity
    IN  IF occupancy > slack THEN occupancy ELSE slack

(* The drain is over: the timeout sweep walks its window of slots, then    *)
(* the re-decision is given its share of the wakeup.                       *)
Reap ==
    /\ phase = "drain"
    /\ \E reaped \in SUBSET Expired(flows) :
        /\ Cardinality(reaped) <= SweepStride
        /\ flows' = Release(flows, reaped)
    /\ condemned' = Condemn(flows', policy, 0)
    /\ phase' = IF cursor = {} THEN "idle" ELSE "sweep"
    /\ windows' = IF cursor = {} THEN 0 ELSE WindowsFor
    /\ length' = IF cursor = {} THEN length ELSE length + 1
    /\ UNCHANGED <<policy, owned, frames, cursor, deferred>>

Examined(from, to) == Cardinality({k \in Present(flows) : BucketOf[k] \in from..(to - 1)})

(* A window from `from` may stop before bucket `to`.                       *)
Stops(from, to) ==
    to >= Capacity \/ to - from >= RevisitBuckets \/ Examined(from, to) >= RevisitFlows

(* It stops at the first bucket where it may.                              *)
WindowEnd(from, to) ==
    /\ to \in (from + 1)..Capacity
    /\ Stops(from, to)
    /\ \A earlier \in (from + 1)..(to - 1) : ~Stops(from, earlier)

(* Mutant: a pass that another is queued behind takes nothing back. *)
RevokedUnlessDeferred(from, to) ==
    {k \in Present(flows) :
        /\ BucketOf[k] \in from..(to - 1) /\ ~deferred
        /\ \E e \in flows[k] : ~AdmittedBy(policy, k, e)}

(* The flows of a window that the configuration would not let open now.    *)
Revoked(from, to) ==
    {k \in Present(flows) :
        /\ BucketOf[k] \in from..(to - 1)
        /\ \E e \in flows[k] : ~AdmittedBy(policy, k, e)}

(* Where the next window resumes.                                          *)
Resume(to) == {to}

(* One window of PolicySweep::advance.                                     *)
Window ==
    /\ phase = "sweep"
    /\ \E from \in cursor : \E to \in 1..Capacity :
        /\ WindowEnd(from, to)
        /\ flows' = Release(flows, Revoked(from, to))
        /\ IF to >= Capacity
           THEN /\ cursor' = IF deferred THEN {0} ELSE {}
                /\ deferred' = FALSE /\ windows' = 0 /\ length' = 0 /\ phase' = "idle"
                /\ condemned' = Condemn(flows', policy, 1)
           ELSE /\ cursor' = Resume(to)
                /\ windows' = windows - 1
                /\ phase' = IF windows = 1 THEN "idle" ELSE "sweep"
                /\ condemned' = Condemn(flows', policy, 0)
                /\ UNCHANGED <<deferred, length>>
    /\ UNCHANGED <<policy, owned, frames>>

(* Time passes between two wakeups.                                        *)
Elapse ==
    /\ phase = "idle"
    /\ \E k \in Keys : \E e \in flows[k] : e.idle < MaxIdle
    /\ flows' = [k \in Keys |-> {[e EXCEPT !.idle = IF @ < MaxIdle THEN @ + 1 ELSE @] : e \in flows[k]}]
    /\ UNCHANGED <<policy, owned, phase, frames, cursor, deferred, windows, length, condemned>>

Frame ==
    \/ FrameDropped
    \/ \E k \in Keys : IcmpError(k)
    \/ \E k \in Keys, way \in Ways :
        \/ \E event \in Events : Segment(k, way, event)
        \/ Datagram(k, way)
        \/ \E reply \in BOOLEAN : Echo(k, way, reply)

FlowNext == WakeCommitted \/ Wake \/ Frame \/ Reap \/ Window \/ Elapse

(* A wakeup runs to its end.  Whether another comes is up to the drivers   *)
(* and the configuration: nothing wakes a forwarder that is passed nothing.*)
FlowFairness == WF_flowVars(Reap) /\ WF_flowVars(Window)

FlowSpec == FlowInit /\ [][FlowNext]_flowVars /\ FlowFairness

(***************************************************************************)
(* Properties                                                              *)
(***************************************************************************)

(* Every variable stays in its range, a wakeup that still has a window to  *)
(* work off has a pass to work on, and a flow's state is one of its        *)
(* protocol's.                                                             *)
FlowTypeOK ==
    /\ \A k \in Keys :
        /\ \A e, other \in flows[k] : e = other
        /\ \A e \in flows[k] : e \in Entry /\ (e.state \in TcpStates <=> ProtocolOf[k] = "tcp")
    /\ Cardinality(Present(flows)) <= Capacity
    /\ policy \in Configurations \cup {Unconfigured}
    /\ owned \in BOOLEAN /\ deferred \in BOOLEAN
    /\ phase \in {"idle", "drain", "sweep"}
    /\ frames \in 0..MaxFrames
    /\ cursor = {} \/ \E b \in Buckets : cursor = {b}
    /\ windows \in Nat /\ length \in Nat
    /\ phase = "sweep" => cursor # {} /\ windows > 0
    /\ condemned \in [Keys -> 0..2]

(* Once no pass is owed, every flow of the table is one the configuration  *)
(* in force would let open: `running` reading 0 says that the window a     *)
(* commit opened has closed, whatever opened, moved or was committed while *)
(* the pass ran.                                                           *)
QuietIsAdmitted ==
    cursor = {} => \A k \in Keys : \A e \in flows[k] : AdmittedBy(policy, k, e)

(* "Every flow the policy in force forbids is gone within at most two      *)
(* passes": no flow is still there when a second pass completes with the   *)
(* flow forbidden all along, however many commits arrive meanwhile.        *)
GoneInTwoPasses == \A k \in Keys : condemned[k] <= 1

(* A conversation both sides have taken part in, and that is not over its  *)
(* timeout, loses its slot to the re-decision and to nothing else: not to  *)
(* another flow's opening, not to the timeout sweep.                       *)
AssuredIsKept ==
    [][\A k \in Keys : \A e \in flows[k] :
        (IsAssured(e.state) /\ ~HasExpired(e) /\ flows'[k] = {}) =>
            phase = "sweep" /\ ~AdmittedBy(policy, k, e)]_flowVars

(* "A flow the new policy forbids is generating the wakeups that end it":  *)
(* where wakeups go on coming, be they its own frames and be every one of  *)
(* them another commit, a flow the configuration in force forbids goes, or *)
(* a later configuration admits it.  A node that forwards nothing is not   *)
(* woken, and finishes no pass.                                            *)
KeepsWaking == []<><<Wake \/ WakeCommitted>>_flowVars
ForbiddenEnds ==
    KeepsWaking =>
        \A k \in Keys :
            (\E e \in flows[k] : ~AdmittedBy(policy, k, e))
                ~> (\A e \in flows[k] : AdmittedBy(policy, k, e))
==============================================================================
