# librefirewall: formal specifications

TLA+ specifications of librefirewall: the appliance's dataplane and management
domains (`datad`, Rust on seL4/Microkit) and the management server (`ctrld`,
Elixir). Every module is translated from the source; `PROJECT.json` maps each
definition to the lines it models. TLC checks the modules on small instances,
and TLAPS proves the most important safety properties of all but one of the
modules with state for every value of their constants.

To repeat a run: `tlc -config MCForwarder.cfg MCForwarder`. To repeat a proof:
`tlapm ForwarderProofs.tla`.

## 1. The system

An appliance is a set of seL4 protection domains that share nothing but memory
regions and notifications. A domain's entrypoint runs to its end once woken; two
domains interleave at every access to a region they share. The management server
is a set of Erlang processes and a database. One TLS connection, dialled by the
appliance, joins the two.

| Part | State | Operations | Talks to |
|---|---|---|---|
| Packet buffers (`packet-buffer`, `nic-driver-core`, `virtio`) | free stack, lent set, posted slots | refill, lend, route, post, reap, reclaim | drivers, forwarder, devices |
| Descriptor ring (`queue`) | two cursors, slots | enqueue, dequeue, drain | every pair of dataplane domains |
| Configuration domain (`config`, `pds/config`) | candidate, running, displaced; numbering floor | stage, commit, confirm, roll back | crypto domain (demands), store domain (the durable generation), forwarder (offers) |
| Mailbox (`wire/submission`) | request and reply regions, two sequence words | issue, poll, give up, take, decide, publish | crypto domain, configuration domain |
| Handover (`wire`, `pd-runtime/handover`) | counted image, offered and committed words, acknowledgements | offer, stage, release, commit, follow | configuration domain, forwarder, management port |
| Forwarder (`pds/forwarder`, `pipeline`, `flow`) | connection table, cursor of the re-decision | wake, commit, drain, evict, expire, revoke | handover, rings |
| Store domain (`store`, `pds/store`) | A/B record, slots, reset sector | bring up, reset, mint, install, record | crypto domain, configuration domain, block device |
| Channel (`pds/crypto`) | session, awaited commit, deadline, staged document | read a frame, commit, persist, undo, confirm, expire | configuration domain, store domain, server |
| Relay (`wire/relay`, `pd-runtime/relay`) | one item in flight, both ends' accounts | open, deliver, ship, poll, close | management domain, crypto domain |
| Transport (`tcp`, `ip-endpoint`) | connections, session and stream buffers, next hop | dial, drive, receive, send again, close | management domain, peers |
| Recorder (`recorder`, `capture-ring`) | segmented ring, staging, two superblock copies | place, flush, roll, checkpoint, boot | taps, block device |
| Reader (`pd-runtime/download`) | cursor, one held shipment | serve, poll, resume | relay, server |
| Server (`ctrld`) | version rows, session registry, handlers, ring processes, ingest cursors | stage, settle, confirm, decode, insert, mark | appliance |

The remaining parts (cryptography, parsers, metrics, the web interface and
others) are listed in `PROJECT.json` with the reason each is not modelled;
section 7 says what could come next and what could not.

### What is hard here

* **Shared memory read while it is written.** Ring slots, the configuration
  image and the relay's regions are several relaxed accesses each. `SpscRing`
  and `ConfigHandover` take one step per access, `ConfigMailbox` one per word;
  `Relay` separates the read of an item's number from the read of its words.
* **Two copies of one fact, moved by different answers.** The staged document
  and the candidate; the deadline and the displaced configuration; the version
  rows and the appliance's history; the cursor and the rows.
* **Who owns a buffer.** A packet buffer leaves its owner as a bare index and
  comes back as one, through three domains and two devices.
* **A network.** Segments are lost, late and cut differently each time; the
  transport's records and its caller's buffer must agree on what may be sent again.
* **Power cuts.** The medium has a volatile cache that moves sectors to the disk
  in any order; a cut leaves what has moved. Transfers and flushes fail.
* **Work budgeted per wakeup.** A pass over the connection table spans many
  wakeups, and configurations are committed between them.
* **A connection that ends because of what it carried.** A commit ends its own
  session; answers are lost; an old session's process lingers at the server.
* **Numbers at their end.** Generations saturate; the medium's version is wider
  than a generation.

`PROJECT.json` lists these as hazards, at their lines, with the properties that
would catch each.

## 2. The modules

| Module | Models | Lines of the source it stands on |
|---|---|---|
| `SpscRing` | the ring, access by access | `crates/queue` |
| `BufferLoan` | one direction of the dataplane by who owns each buffer, over rings as `SpscRing` shows them | `crates/{packet-buffer,nic-driver-core,virtio}`, `pd-runtime` |
| `Datastore` | one wakeup of the configuration domain per action | `crates/config/{store,provisional,report}.rs`, `pds/config` |
| `ConfigMailbox` | both regions of the mailbox, **composed** with `Datastore`, which it **implements** | `wire/submission.rs`, `pds/crypto/configuration.rs`, `pds/config` |
| `ConfigHandover` | publisher, forwarder's switch and port's reader over the region | `crates/wire/src/lib.rs`, `pd-runtime/{handover,endpoint}.rs`, `pds/config`, `pds/forwarder` |
| `ApplianceState` | the record as a value | `crates/store/{state,slots,document}.rs` |
| `AtomicRecord` | **abstract**: one record, replaced whole | the promise of `book/src/design/configuration.md` |
| `StateRecord` | the store domain and a cached device; **implements** `AtomicRecord` | `pds/store`, `crates/store` |
| `ChannelConfig` | the appliance's end of a transaction, **composed** over `Datastore` | `pds/crypto/{configuration,channel}.rs` |
| `ConfigTransaction` | the server, **composed** with `ChannelConfig`, over breaking connections | `ctrld/.../{appliances,channel/handler,channel/sessions}.ex` |
| `Shipping` | a recording from the medium to rows | `recorder`, `pd-runtime/download.rs`, `pds/crypto/channel.rs`, `ctrld/.../ingest/telemetry/ring.ex` |
| `Recording` | one recording through staging, flushes, checkpoints and power cuts | `crates/{recorder,capture-ring}` |
| `TcpConnection` | one connection as pure operators: no state of its own | `crates/tcp` |
| `OutboundSession` | two ends **composed** of `TcpConnection`, each the other's peer, over a network | `crates/ip-endpoint`, `pd-runtime/endpoint.rs` |
| `Relay` | both ends of the relay, its two regions and the stream under it | `wire/relay.rs`, `pd-runtime/relay.rs`, `ip-endpoint/onboard.rs` |
| `Flows` | the forwarder's wakeup: table, filter stages and re-decision | `crates/{flow,pipeline}`, `pds/forwarder` |
| `MCDataplane`, `MCForwarder`, `MCTransaction`, `MCMailbox` | instances of two or three specifications each, side by side (section 3) | |
| `MCOutboundSession` | the courses of a session the run takes | |
| `DataplaneProofs` | theorems about `SpscRing` and `BufferLoan` | |
| `ConfigMailboxProofs` | theorems about `Datastore` and `ConfigMailbox` | |
| `ForwarderProofs` | theorems about `ConfigHandover` and `Flows` | |
| `StateRecordProofs`, `RecordingProofs`, `RelayProofs`, `ShippingProofs` | theorems about the module each is named for | |
| `TransactionProofs` | theorems about `ChannelConfig` and `ConfigTransaction` | |

Conventions. Where one proof module is about two specifications, the second one's
names say whose they are (`RingSpec`, `FlowSpec`, `StateSpec`, `TransactionSpec`). An option is
a set of at most one element, so `\E d \in candidate` is the code's `if let
Some(d)`. A history variable is marked as such where it is declared, and no guard
reads one. An operator whose comment begins `Mutant:` is a deliberately wrong
variant of the definition after it: with it in that definition's place TLC finds
the named property violated. Mutants are no part of any specification.

### State and actions against the code

**SpscRing.** `head`, `tail`, `slots` are the shared region; `pTail`, `cHead` the
private positions. `try_enqueue` is `EnqueueTest`, `EnqueueStore` per field,
`EnqueuePublish`; `try_dequeue` mirrors it; `drain` is the budget `remaining`.
Descriptor *n* carries *n* in every field, so a torn one shows. A peer that
forges its cursor is outside the model.

**BufferLoan.** `indices`, `top`, `outstanding` are the free stack with its ledger;
`lent` is the owner's own set; `rxPosted`, `txPosted`, `inFlight` are the drivers'
maps and `rxState`, `txState`, `rxUsed`, `txUsed` the virtqueues. A step is one
turn of the loop a domain is in (`ReclaimOne`, `RefillOne`, `DrainOne`,
`RouteOne`, `ReapOne`, `PostOne`), `Receive` and `Transmitted` are the devices,
and `Stray` is what either a device or a neighbour does outside the protocol.

**Datastore.** A wakeup folds the medium's word into the floor (`Observed`),
serves one demand, and offers what it moved. `CommitApplied` is `apply` with the
displaced record and the offer; `RollbackDone` puts the displaced configuration
back under a *new* number.

**ConfigMailbox.** `Issue` starts a request, `Store` writes one word of it, the
sequence last; `Poll`, `ReadStatus` and `ReadGeneration` are the reading of the
reply and `GiveUp` the end of the polling budget. `Take` and `ReadDemand` are the
responder's reads, `Decide` an action of `Datastore`, `Publish` the answer.

**ConfigHandover.** `pc`, `before`, `word`, `field`, `copy`, `attempt` are the
locals of `load_settled`, one instance per reader. `DemandWakeup` opens a
publication, `ConfigStep` continues it field by field or releases an
acknowledged offer; `SwitchWakeup` and `SwitchStep` are the forwarder's offer
and commit; `PortStep` is the management port following the committed word.

**StateRecord.** `seen` is what a read returns, `disk` what a power cut leaves.
`pc` walks the domain through bring-up, reset, mint and the two demands, one
step per transfer or flush; `Device` moves sectors to the disk, and cuts power. A
bring-up that fails ends in `"refused"`: the domain keeps its medium and has no
key, so it signs nothing and publishes no owner. An installation comes over a
session and a recorded document over the channel, and both need that key, so no
demand that writes is modelled there.

**ChannelConfig.** A turn reads frames, carries out at most one commit (in force,
then persisted, else undone) and judges the deadline (`Judge`). The clock is the
time left to the deadline. `D!` actions are the exchanges with the datastore: the
deciding domain outranks the asking one, so an exchange is one step.

**ConfigTransaction.** Rows of `configuration_versions`, the registry, and one
handler per connection with its mailbox. `Check`, `Insert` and
`AskSession` are the two queries of staging and the message to the session; `Receive` is `handle_data`; `Break` loses any suffix of what
is in flight each way.

**Shipping.** Positions are units; a pcapng block is two of them, so a frame can
end inside one. `Serve`/`Refuse` are the recorder, `Poll`/`PollExpired` the
reader, `Carry*`/`ClaimAnswer` the relay's shipment, `Receive`, `Flush`, `Ack`,
`AdvanceFails` and `ServerEnds` the server.

**Recording.** A position is a number of sectors. `Settle`, `Offer`, `Advance` and
`Checkpoint` are one pass of the deck in its order; `Device` completes a flush,
a barrier or a superblock; `PowerCut` keeps any mixture of what was cached, and
`Boot` reads the copies back. `image`, `after` and `cover` say what the device
holds and what a cut may leave of it.

**TcpConnection, OutboundSession.** A connection is a record (`una`, `nxt`, `wnd`,
`rcv`, `rwnd`, the ranges `unacked`, `backoff`); `Receive` is
`Connection::receive` with everything it calls. `dial` and `session` are the
dialling end, `peer` and `stream` the listening one. A wakeup drains frames, then
runs the timers, then makes the consumer's calls, and polls behind each, so
`Tcp` is one frame of a drain and every other action of the dialling end ends in
`PollOutbound`. The listening end drains one frame to a wakeup and each of its
actions ends in `Wakeup`. The sequence numbers start two short of the end of
their space.

**Relay.** `Poll` is one pass of `Relay::poll` (claim an answer, decide, ask the
next item), `PollExpired` the pass that gives up. `TakeSequence`, `TakeWords` and
`AnswerDemand` are the terminating end. `tag` names the connection an item is
for; properties read it and no guard does.

**Flows.** `Wake`/`WakeCommitted`, then `Frame` for each frame the drain finds,
`Reap`, then `Window` until the budget is spent. The table is seen by key: the
slots, chain links and free list are abstracted, so the slots an eviction scan
or timeout sweep visits are any set of the right size. Sequence numbers are
abstracted to whether a segment is in its window and acknowledges the peer's FIN.

## 3. What the runs check

Eight runs pass. Four others expect a violation: each states a promise of the
repository as it is written and shows a behaviour of the code that breaks it
(section 4). Deadlock is checked in every run but those of `Relay`, `Shipping` and
`OutboundSession`, whose environments run out of connections and bytes.

Four `MC` modules hold specifications that do not interact and check them in one
run: a variable `part`, chosen in the initial state and never changed, says which
one moves, and the others keep their initial state. Each part has the behaviours
it has alone.

### Dataplane (`dataplane`)

*Ring* (CAP 4, two fields, nine descriptors): `DeliveredInOrder` (the k-th
descriptor returned is the k-th handed over, whole), `Drained` (everything
published is returned, stated for the first descriptor and for the one that takes
the cursors round again). Nine descriptors take both cursors round the four slots
twice, full and empty on the way; two fields are enough for a torn slot.

*Packet buffers* (two buffers, queues of one and two, one fault): `SingleOwner`
(each buffer is free once, posted once, or lent, whatever comes back on the
rings), `PathsAgree` (the drivers' maps are what their virtqueues have posted),
`LoanIsExact` (without a fault a lent buffer is in one place of the round trip),
`LoanIsReturned` (and comes back). Two buffers are what it takes for one to be
returned in the other's place; one fault anywhere, replayed or invented, takes
every refusing branch.

### Forwarder (`forwarder`)

*Handover* (three generations, the second refused, two fields, two attempts):
`ActiveIsOnePublication` (no blended image is run), `ReleaseIsFollowed` (nothing
unreleased runs in the forwarder or at the port, and a second offer between
release and switch loses nothing), `OfferIsRun` (an acceptable offer comes to run
in both). Three generations let one publication overwrite another under a reader
while a third is outstanding; the first and the third give the port one identity
and two gateways, so both branches of its adoption are taken, and the second, which
is refused, another identity, so an image taken under the wrong number shows.

*Connection table* (three keys, two slots, two buckets, windows of one):
`QuietIsAdmitted` (once no pass is owed, every flow in the table is one the
configuration in force admits), `GoneInTwoPasses` (no forbidden flow survives two
passes, however fast configurations are committed), `AssuredIsKept`,
`ForbiddenEnds` (a forbidden flow is taken back if the forwarder keeps being
woken). Two slots for three keys make the table full, and an eviction scans both;
two keys share a bucket whose chain holds one flow, so both refusals of an opening
happen; a window of one bucket puts wakeups and commits between any two buckets of
a pass.

### Transaction (`transaction`)

*End to end* (two connections, two rows): `ConfirmedIsHeld` (a version the server
calls confirmed is on the appliance's medium, or a successor is). It compares
numbers; whether the number is marked on the right row is `RecordedIsItsOwn`,
section 4. Two connections are what it takes for an old session to keep the
registration, and for an answer to be lost.

*The appliance's end, against any server* (any document, generation or deadline;
one restart; the counter to its end): `ProvisionalIsArmed` (a provisional
configuration always has its deadline, unless it is the last generation, which
nothing can put back; and nothing else has one), `ConfirmedIsDurable` (what was
confirmed is on the medium until a newer commit takes its place there). The
deadlines asked for include both refused ends.

*The medium* (three slots, two documents, four versions, two identities):
`PromisedSurvives` (what was reported durable is what a boot reads),
`RunningIsWhole` (the record never names bytes that are not there), and
`ReplacedWhole`: the store implements `AtomicRecord` under the mapping
`state <- Decode(disk)`. Three slots make a slot be reused; two identities
separate a record from the one before a reset. The mapping lets the record be
lost while a reset overwrites it, and in the first state of section 4.2.

### Shipment (`shipping`: two sessions, eight units, segments of two blocks)

`AckedBehindCursor` (no acknowledgement, on its way or taken, is past the server's
durable cursor), `NothingTwiceBelowCursor` (no row waits to be inserted that the
cursor already covers), `MarkedBehindInserts` (the cursor moves only behind the
rows, in whichever table), `ReaderCatchesUp` (the reader comes to the end of what
the medium has, past refusals, silences and a ring that outran it; what it may
pass over on the way is `NeverSkipped`, section 4). The ring holds two segments,
so it rolls over what the reader has not read; frames are twice a block, so they
end inside one. Two tables let one insert fail and the other succeed.

### Relay (`relay`: two connections, one item of each kind)

`DeliveredToOwnSession` (bytes of one connection are not given to another's
session, though an abandoned item may be read half-way through), `AccountsAgree`
(both domains report the same numbers), `GoneIsReported`, `ComesToRest`. Counts
saturate at three; any answer may finish the session.

### Recording (`recording`: segments of three sectors, two of them, seven positions)

`CheckpointSurvives` (what a committed superblock named is where a boot resumes,
at least), `CommittedUnlessLate` (on a device that honours barriers a superblock
names committed payload, unless a flush overtook its barrier), `HeldIsPlaced`,
`QuietIsNamed`. Seven positions fill a segment, roll twice and evict the first;
one claim, refusal, fault or power cut may come anywhere.

### Mailbox and datastore (`config_mailbox`)

*Through the mailbox* (two valid documents, one invalid; LAST 3): `DecidedAsAsked`
(a demand carries the words of one request), `BelievedIsDecided` (an answer is the
whole answer to this request), `RequestIsServed`. Four requests take the sequence
number past its end; one is given up on, so a late answer meets the next request.

*The datastore alone* (MAX 4, any number of operations): `ConfirmedStays` (no
rollback undoes a confirmed configuration or goes back past one), `Numbered` (a
change of what runs takes a number newer than the running one and the medium's;
at the end of the numbering nothing changes). Four generations hold a
second provisional commit over an outstanding one, or a confirmation followed by a
commit and its rollback, and then exhaust the counter; the medium may name any
version, wider ones included.

### Transport (`outbound_session`: sequence space 16, segments of 2 bytes)

`StreamsAreWhole` (every byte kept is the next byte said; a reported close has all
of them; both until the dialling end drops bytes it acknowledged, section 4.2),
`RangeIsHeld` (a range that may be sent again is still in the buffer, under its
number), `DialSettles` (no dial goes on for ever). Four courses: the dialling end
says three bytes into a window of two, so a range is taken in part; it says two
with two segments under way to the listener; the listener says two with two under
way to the dialling end; both say one. Segments are lost, delayed
and overtaken by later ones, so data and a FIN arrive ahead of the byte expected;
two ranges are on record at once; a window of one byte makes the second range wait
or be cut; numbers wrap; a range may be sent again at any time, and one
retransmission exhausts it; either consumer may end the session at any time.

### Fairness

A protection domain's entrypoint runs to its end and the kernel delivers a
notification that is pending, so a domain's own steps are weakly fair wherever the
code has signalled it (`ConfigStep`, `wakeForwarder /\ SwitchWakeup`,
`SwitchStep`, `Poll`, `Reap`, `Window`). The management domain is also woken by a
periodic tick (`PortStep`, `PollExpired`, `HoldoffEnds`). The forwarder is not: a
driver or the configuration domain wakes it, and nothing else does. `ForbiddenEnds`
therefore says only what follows once it keeps being woken (`KeepsWaking`, in the
property and not in the fairness): a forbidden flow in a forwarder nobody wakes
stays in the table, and forwards nothing while it does. `Shipping` assumes of its
environment that the appliance redials and that a medium that keeps being asked
does not refuse for ever. `Recording` asks that the device answers what it was
given and that an appliance switched off comes up again; `BufferLoan` that, before
the first fault, the drivers poll, a notified forwarder is scheduled and the
sending device sends; `ConfigMailbox` that a notified domain runs.
`OutboundSession` asks only that the dialling domain takes a pass where one has
something to do and that a range on record expires, written out as `[]<>`
formulas; it asks nothing of the network or the listener. `AloneSpec`, of the run
`rollback_alone`, is what the appliance does by itself: the clock runs (strongly
fair: it runs between turns however many there are) and a turn that was begun is
finished; that a connection comes up again or carries anything is not assumed. No
fairness is assumed of the server's operators, of peers, of power cuts or of
failures.

## 4. What was met while modelling

Where the code does something a document or a comment of the repository says it
does not, or something a reader may not expect. The models contain each of them,
but for the choice between two recordings.

### 4.1 Against a promise, shown by a run

Each of these runs expects a violation; `PROJECT.json` quotes the promise under
`findings`.

* **`rollback_alone`: a rollback needs a connection.** The rollback deadline is
  judged only when a session opens or takes a turn. An appliance that a commit has
  cut off from its server never judges it, so `ProvisionalSettles` fails although
  the clock runs and every turn begun is finished.
  `book/src/design/configuration.md:113` and `pds/crypto/src/configuration.rs:38`
  say the appliance rolls back by itself.
* **`never_skipped`: a held shipment goes first.** `resume_from` moves the position
  back to what the server asked for and leaves the shipment held from the session
  before. That one goes first and the position moves past it, so the bytes between
  are not sent. `pd-runtime/src/relay.rs:1004`: "A frame can cross twice and never
  be skipped." Violates `NeverSkipped`.
* **`superblock_before_payload`: a superblock ahead of its barrier.**
  `write_superblock` (`recorder/src/deck.rs:1315`) composes over the durable cursor
  as it is when the barrier has come back. A flush acknowledged while the barrier
  was out has moved it past what that barrier covered, so the superblock names
  payload still in the device's cache. `deck.rs:5`: "A superblock never becomes
  visible before the payload it describes"; `book/src/reference/recordings.md:58`.
  Violates `NamesCommitted`; `CommittedUnlessLate` says what is left, and is proved.
* **`recorded_is_its_own`: a row marked for another's answer.** The check that
  nothing is in flight and the insert are two queries (`appliances.ex:367`), so two
  operators can stage two versions at once. The appliance holds one candidate, a
  result names no version, and the handler writes it to whichever one its session
  has outstanding. `handler.ex:447`: a row must not "assert what this server asked
  for rather than what the appliance did". Violates `RecordedIsItsOwn`;
  `EarnedTheorem` proves what is left: no more marks than answers.

### 4.2 Against a promise, stated around

* **A first record on one copy.** The mint writes both copies of the first record
  in one transfer. If power is cut with copy A alone on the disk, the next boot
  serves that identity; the installation's record, generation 2, has copy A's
  parity, so it is written over the only copy that holds the identity.
  `pds/store/src/main.rs:2253` says the copy relied on is not the one written.
  `PromisedSurvives` excepts the record whose only copy is the next one written (`exposed`).
* **A generation spent in vain.** A generation spent on a refused or failed
  superblock write flips the parity, so the next one rewrites the copy in use; a
  torn first write of both copies can leave the same.
  `capture-ring/src/superblock.rs:19`: "the copy the medium is currently relying
  on is never the copy being overwritten". `CheckpointSurvives` is stated for the
  case in which none was spent so.
* **A window offered twice.** The window of a dialled connection is set in
  `drive_outbound` (`ip-endpoint/src/lib.rs:1216`) and not reduced as bytes are
  delivered, so each acknowledgement of one drain offers the whole of it. A peer
  that honours every window it is offered can have bytes acknowledged and then
  dropped by `Session::take`. `outbound.rs:308` calls such a drop "unreachable
  while the window is honoured". `StreamsAreWhole` promises the dialling end's
  stream until then.

### 4.3 Against no promise, or one that can be read either way

* `handler.ex:502`: a version answered `unchanged` keeps the running generation. If
  the next version commits under the number after it and the answer is lost, the
  server may take a later confirmation for a version the appliance never
  confirmed by that number.
* `handler.ex:559`, `appliances.ex:660`: a commit answered `unchanged`, or rolled back by
  its deadline, is never confirmed, stays in flight, and bars later stagings.
* `ring.ex:251`: a ring process that starts afresh picks up only at a section
  header. A shipment that resumes at the durable cursor in the middle of a
  segment is counted as lost up to the next one, where `cursor.ex:14` speaks of
  "never a gap".
* `pd-runtime/relay.rs:531`: the records of an answer are pushed onto the
  connection the stream holds before the session they were asked for is compared
  with it, so a replacing connection can be sent records of the one before.
* `wire/relay.rs:1334`: an item abandoned between the reading of its number and
  of its words can be answered twice under two numbers; an Open served twice
  leaves one more, empty, account.
* `ring.ex:606`: rows trimmed at the holding bound are counted lost, and the
  cursor later passes them.
* `flow/lib.rs:1303`: an opening refused for a full chain, or by the filter, may
  already have evicted an unassured flow of another bucket.
* A restart comes up with the built-in document under generation 1 while the
  medium names the committed version; only the numbering is carried over. After
  a rollback the medium goes on naming the version that was rolled back.
* `recorder/src/lib.rs:798`: positions served beyond the last committed checkpoint
  are recorded again, with other bytes, after a power cut.
* `order_checkpoint` takes the first recording that is due, so one that is always
  due can keep the other from its checkpoint.
* `wire/submission.rs:1067`: a request given up on may still be decided, or be
  decided from words of the next. The higher priority of the configuration domain
  excludes it on the appliance; the regions do not.
* `tcp/src/connection.rs:1306`: a segment ahead of the next byte is answered, a bare
  acknowledgement included. Two ends that closed at once and lost both FINs answer
  each other until a retransmission timer fires; two in TIME_WAIT do so too.
* `Stream` (`onboard.rs`) never releases acknowledged bytes: a connection of the
  onboarding port can be sent `OUTBOUND_CAPACITY` bytes and no more.
* A closed window is reopened by the next segment only: there is no window update
  and no probe, so a stream whose reopening is lost waits for the idle timeout.
* `pds/forwarder/src/main.rs:79` says a saturated wakeup never spends more on
  re-deciding than the drain cost; `windows_for` of `pipeline/src/lib.rs` says
  it now can. The model follows the code, which is the second.

## 5. What is proved

`tlapm` checks every leaf. The theorems hold for every value of the constants
that satisfies the named assumptions, which TLC evaluates in the runs. A proof
module makes Zenon the default prover (`USE ZenonT(60)`) and names the SMT solver
on the leaves that need arithmetic; translating a large obligation for the SMT
solver takes longer than proving it.

**`DataplaneProofs`**, the ring (CAP >= 2, at least one field). `RingDelivers`,
`RingExclusion`, `RingOccupancy`. The order of delivery is not inductive. `RingInv`
adds to the types and the occupancy: where each cursor stands in terms of the
counts of descriptors sent and returned (`Cursors`); what every slot between the
two cursors holds (`InFlight`); that a producer past its test has a free slot and
a consumer past its own a full one, although the other side's cursor has moved
since (`Reserved`); and how far a half-stored or half-loaded descriptor has got
(`Partial`). One lemma, `MaskedStep`, carries the modular arithmetic. Exclusion
follows: a reserved free slot and a reserved full one are never the same.

The same module, the buffers (any pool, queues and number of faults; rings larger
than the pool). `OneOwner`, `MapsAgree`, `ExactLoan`. The receiving driver's books
(`LedgerInv`) and the transmitting driver's (`TransmitInv`) are inductive each on
its own, because what crosses a ring is checked against the reader's own books and
never believed. `LedgerInv` adds to `SingleOwner` the types and that a slot names
one buffer exactly while its descriptor is posted. That a release always finds
room on the free stack (`Room`) is a pigeonhole over the distinct free indices.

`ExactLoan` needs both books and, before the first fault, the rings between them
(`Exact`): no ring names a buffer twice, no two places have the same one, and the
lent buffers are the ones on a ring or at the sending device. A hand-over finds
room for the same pigeonhole reason (`RingRoom`): a ring names distinct buffers of
the pool and is larger than it. Without that the hand-over would drop a descriptor
and the loan would be short by a buffer.

**`ConfigMailboxProofs`**, the datastore alone (MAX >= 1). `Undoable`, `Settled`,
`AlwaysOffered`, `NumberedForward`. `IInv` is the three invariants with the types
and `confirmed <= generation`; the lemma that carries them is that, unless the
counter is exhausted, the successor is past both the running generation and the
floor read on the same wakeup.

The same module, the datastore behind its mailbox (more sequence numbers than
exchanges given up on, plus one). `AskedIsDecided`, `DecidedIsBelieved`, and
`MailboxServes`: `MailboxSpec` implements the datastore's `Spec`, so what holds of
the datastore holds through the mailbox (`SettledThroughMailbox`). `MInv` counts
how many requests have been issued since the one the responder holds (`Age`): each
was given up on, or is the one being waited for, so the count is below the range
of the numbers and an equal number means the same request (`Numbering`). The
assumption says this and no more; the code's numbers are 32 bits wide and an
exchange given up on costs a whole polling budget. Given that, `Turns` says who
may write which region, and `Written`, `Held`, `Published` and `Believed` follow
the words of one exchange from access to access.

**`ForwarderProofs`**, the handover (any width, number of attempts and
generations). `CopiesWhole`, `RunsWhole`, `RefusalHolds`, `BothFollow` (from
`NothingReleasedIsLost` and `PortFollows`). `IInv` is the argument for a counted
region: an even counter means the image is one whole publication (`Published`); a
reader whose first reading was even, and equals the counter now, has copied so far
from that publication (`Copying`); and a counter never returns to a value. The
rest follows the acknowledgement round the three domains (`Held`, `Accepted`,
`PortReads`).

The same module, the flow table (any table, hash, window and set of
configurations). `QuietTheorem`, `TwoPassesTheorem`, `AssuredTheorem`. `IInv` says
that behind a pass's cursor only admitted flows are left, unless a commit came
since the pass began, in which case another is owed; and that a flow forbidden
since before the pass began is still ahead of its cursor. A flow opened meanwhile
was admitted by the configuration in force, whatever bucket it went to.
`AssuredTheorem` is an action property: each table a frame passes through on its
way to the last one has every live conversation as it was (`Lasting`), because a
lookup and the timeout sweep release expired flows only and an eviction takes one
that is expired or not assured. That a window of the re-decision takes it only if
it is forbidden needs a key to have one flow (`Single`).

**`StateRecordProofs`** (any documents and identities, three slots or more).
`Durability`, `WholeDocuments`, and `Refinement`: the store implements
`AtomicRecord`. None of the three is inductive. While the domain serves, the
record is in one copy, the same in the cache and on the disk, and the next commit
writes the other one (`Holds`), or it is in one copy only, the exposed state of
section 4.2 (`Hangs`). A failed commit may leave a *successor* in the cache: the
flush behind the next document puts it on the disk before its predecessor is
written over, and a second adoption, which has no such flush, is refused because
the cache shows an owner. `IInv` follows this through each `pc`: what bring-up has
cleared, overwritten and minted, what a failed write of it leaves (`Refused`), and
what the record being composed was composed from. Three slots are needed: with two,
a failed commit leaves a successor in the cache and the next document is written
into the slot its predecessor runs, so a power cut finds that one without its
document. The layout has eight.

**`TransactionProofs`**, the appliance's end (any documents, counter, deadlines and
restarts). `AlwaysArmed`, `KeptIsRecorded`. `ApplianceInv` adds where a turn stands:
between the commit and its record the commit is outstanding, armed, and newer than
anything recorded (`MidTurn`); between turns what awaits confirmation is on the
medium under its number (`Placed`), so a confirmation has nothing left to write; and
what may be committed is the document that would be recorded (`StagedTogether`).

The same module, against the server (any number of connections and versions).
`HeldTheorem`, `EarnedTheorem`, and `AgainstServer`: every step of the appliance
here is one of its own, so the promises of its end hold. What a server calls
confirmed is not tied to the medium by any one step: the answer crosses a
connection on which other answers are in flight. `IInv` says why it is the right
one. An appliance greets first, a server asks for a confirmation only once it has
read the greeting, and asks for one per connection (`Wire`), so a "confirmed" on a
connection is of the number asked for on it, which the medium holds by then
(`Asking`); a version is mailed to one session, once, and is undecided until that
session has its verdict (`Post`), so the number a confirmation is asked for does
not move. `Earned` counts: the versions marked and the answers still in flight
together are no more than the answers given. Reading one moves it from the second
set to the first or drops it; a broken connection only shrinks the second. Which
version an answer marks is not part of it, and section 4.1 shows it may be the
wrong one. The
last generation is excepted from `ConfirmedIsHeld` as it is from
`ConfirmedIsDurable`: a commit of it that the medium refused cannot be put back
and may be confirmed. The counter is 32 bits wide, and no state of the run reaches
its end, so there the exception excuses nothing.

**`RecordingProofs`** (any geometry, staging area and number of events).
`SurvivesPowerCut`, `CommittedTheorem`. Generations rise, also over a boot, and the
positions they name rise with them (`Superblocks`), so the copy `decode_superblock`
takes is the furthest one (`DecodeIs`). Behind a barrier both copies are what they
read as and the newest is where its parity puts it (`Settled`); the superblock
written next goes to the other copy, so the committed one is there for certain
until the next barrier (`Guarded`). `Committed` relates what a barrier covered to
what was committed and taken.

**`RelayProofs`** (any number of connections, sequence numbers, items given up on
and torn or late reads). `DeliveredTheorem`, `AccountsTheorem`, `TypeTheorem`. One
item is in flight, under the number issued last and for the session that is
carried (`Window`). `Turns` says what the terminating end can be working on, late
as it may be: an item on a session is issued only once the session's open was
answered, so only an open can overtake an item the other end gave up on. `Books`
relates the two accounts while nothing went unanswered or unreadable: between two
items they are equal, and while one is out they differ by that item, which the
answer then settles; both saturate at the same count.

**`ShippingProofs`** (any segments, frame sizes, tables and connections).
`AckedTheorem`, `MarkedTheorem`. The cursor never goes back, so every value that
was once read from it - the reader's mark, the channel's judgement, an
acknowledgement in flight on any connection - is in one type that grows with it.
The invariant is that type, with the one ring process and the one mark it owes; a
step that moves the cursor widens the type, and no step lowers it. The cursor may
pass a row that was trimmed or lost in a gap (section 4.3), and the theorem says
nothing of such a row.

`Occupancy`, `SlotExclusion`, `OutstandingIsRunning`, `OfferedIsRunning`,
`CopyIsOnePublication`, `RefusedNeverRuns`, and the types of
`SpscRing`, `Datastore`, `ConfigHandover`, `BufferLoan` and `Relay`, are proved
and not repeated in the runs. For `StateRecord` (`StateTypeOK`),
`ChannelConfig`, `ConfigTransaction` (`TransactionTypeOK`), `Shipping` and `Flows`
(`FlowTypeOK`), add the invariant to the configuration to check the types (they
hold).

**Only model-checked:**

* every liveness property (`Drained`, `OfferIsRun`,
  `ReaderCatchesUp`, `GoneIsReported`, `ComesToRest`, `ForbiddenEnds`,
  `LoanIsReturned`, `HeldIsPlaced`, `QuietIsNamed`, `RequestIsServed`,
  `DialSettles`): liveness under fairness is beyond the prover;
* `StreamsAreWhole` and `RangeIsHeld`, which are about sequences cut and joined
  under modular arithmetic, an induction over data;
* `NothingTwiceBelowCursor`: the rows a ring's process holds are sorted sequences
  that folds build, trim and write, and what those compute is an induction over
  data too.

## 6. Abstractions

* Documents, identities and descriptors are values; what a document says is left
  to the reader and validator, and what routing and the ruleset compute from a
  frame is a set per configuration.
* Time is ticks: the time left to a deadline, a flow's idle time up to a cap, an
  answer that is late. A timeout may fire whenever its clock could have run out.
* Memory accesses are sequentially consistent steps in program order. The code
  orders the relaxed ones by release and acquire on the word that publishes them.
* The handover's publication counter does not wrap: a copy would have to span half
  its range of publications to meet the same value twice.
* The transport's table is one connection at each end. Eviction, the limit on
  resets, window scaling and the estimate behind a timeout are left out; a
  retransmission timer may fire at any time, a connection's life ends only when
  nothing is in flight, and a session that has ended is not opened again.
* Counters that only metrics read are left out, as are per-boot budgets (eight
  installations, sixteen recorded configurations), which bound how often
  modelled steps run.
* Peers are honest about the protocol of shared regions, `Stray` in `BufferLoan`
  excepted: a domain that forges a cursor or a number is for the crates' own
  tests.

## 7. What is not modelled

What could come next, in order of what each would tell:

1. **Slot-level connection table**: chains, free list and expiry cursor, shown to
   implement `Flows`; revoking an entry while the walk stands on its chain.
2. **The transport's table**: eviction of a connection a caller still names, a
   second dial after the first, and more than two segments in flight each way,
   which `OutboundSession` is written for and one instance cannot hold.
3. **A power cut in `Shipping`**, over `Recording`.
4. Range downloads, the onboarding limiter, the redial schedule.

Not planned: cryptographic primitives, certificates, parsers and encoders (pure
functions of bytes), register-level drivers, metrics, log wording, the web
interface, accounts and audit (rows changed in single database transactions), and
the build tools. They are most of the repository's lines, and little in them
depends on the order in which several actors take their steps.
