----------------------------- MODULE StateRecord -----------------------------
(***************************************************************************)
(* The appliance's persistent state: the A/B state record, the slot array  *)
(* and the factory-reset sector of datad/crates/store, written by the      *)
(* store domain of datad/pds/store/src/main.rs onto a block device with a  *)
(* volatile cache, across power cuts and failing transfers.                *)
(*                                                                         *)
(* A place of the medium holds {} or {content}: {} is anything its reader  *)
(* does not take for content (zeroes, a torn copy, a document whose digest *)
(* does not match).  `seen` is what a read returns, `disk` what a power    *)
(* cut leaves; the device moves a place from one to the other when it      *)
(* likes, and all of them at a flush.                                      *)
(***************************************************************************)
EXTENDS ApplianceState

CONSTANT MaxGen  \* bound on the record's own generation

ASSUME BoundAssumption == MaxGen \in Nat /\ MaxGen >= 1

VARIABLES
  seen, disk,   \* the medium, through its cache and under it
  pc,           \* where the domain is in its work
  work,         \* what it is composing: the slot, the document, the record
  minted,       \* the identity minted last
  owner,        \* the ownership word it published this boot
  mark,         \* the DurableGeneration word it published this boot: the
                \* high-water mark of the configuration versions
  promised,     \* history: {} or {the record last reported durable}
  erasing,      \* history: the reset's overwrite was submitted this boot and
                \* is not complete
  cleared,      \* history: a request was cleared, and neither the overwrite
                \* completed nor a record was made durable since
  exposed       \* history: the one copy holding the record is the next written

sectors == <<seen, disk>>
words == <<owner, mark>>
stateHistory == <<promised, erasing, cleared, exposed>>
stateVars == <<seen, disk, pc, work, minted, owner, mark, promised, erasing,
               cleared, exposed>>

\* The layout, in sector order: two copies, the request, the slots.
CopyA == 1
CopyB == 2
ResetRequest == 3
SlotSector(s) == 3 + s
Place == 1 .. 3 + SLOT_COUNT

NoWork == [slot |-> {}, doc |-> {}, record |-> {}]

-----------------------------------------------------------------------------
(* The copies: state.rs *)

\* encode_state under Copies::Parity
ParityCopy(g) == IF g % 2 = 0 THEN CopyA ELSE CopyB

\* decode_state: the valid copy of the higher generation, the first on a tie.
Decode(m) ==
  IF \E b \in m[CopyB] : \A a \in m[CopyA] : b.gen > a.gen
  THEN m[CopyB] ELSE m[CopyA]

\* The copy the next commit writes is the only one that holds the record.
Exposed(m) ==
  \E r \in Decode(m) : m[3 - ParityCopy(r.gen + 1)] # {r}

\* verify_document holds the running slot to its entry.
RunningMatches(m, r) ==
  \A s \in r.running : \A e \in r.slots[s] : m[SlotSector(s)] = {e.doc}

-----------------------------------------------------------------------------
(* The device *)

\* A fresh medium, or one whose request was written, in a node switched off.
StateInit ==
  /\ disk = [p \in Place |-> {}] /\ seen = disk
  /\ pc = "off" /\ work = NoWork /\ minted = 0
  /\ owner = FALSE /\ mark = 0
  /\ promised = {} /\ erasing = FALSE /\ cleared = FALSE /\ exposed = FALSE

\* The device writes one place back.
WriteBack(p) ==
  /\ seen[p] # disk[p]
  /\ disk' = [disk EXCEPT ![p] = seen[p]]
  /\ UNCHANGED <<seen, pc, work, minted, words, stateHistory>>

\* Power goes away: a place not written back is as it was, or torn.  The
\* request is one sector and does not tear.
PowerCut ==
  /\ pc # "off"
  /\ \E torn \in SUBSET {p \in Place \ {ResetRequest} : seen[p] # disk[p]} :
       disk' = [p \in Place |-> IF p \in torn THEN {} ELSE disk[p]]
  /\ seen' = disk'
  /\ pc' = "off" /\ work' = NoWork
  /\ owner' = FALSE /\ mark' = 0 /\ erasing' = FALSE
  /\ UNCHANGED <<minted, promised, cleared, exposed>>

\* A transfer the device reports done.
Written(places, content) ==
  seen' = [p \in Place |-> IF p \in places THEN content ELSE seen[p]]

\* A transfer that failed: each place has the content, what it held, or less.
PartlyWritten(places, content) ==
  \E new \in SUBSET places : \E torn \in SUBSET (places \ (new \cup {ResetRequest})) :
    seen' = [p \in Place |-> IF p \in new THEN content
                             ELSE IF p \in torn THEN {} ELSE seen[p]]

\* Whoever holds the medium writes the request; the node is off.
RequestReset ==
  /\ pc = "off" /\ disk[ResetRequest] = {}
  /\ disk' = [disk EXCEPT ![ResetRequest] = {"token"}]
  /\ seen' = disk'
  /\ UNCHANGED <<pc, work, minted, words, stateHistory>>

-----------------------------------------------------------------------------
(* Bring-up: establish *)

Establishing == {"clear", "clear_flush", "overwrite", "overwrite_flush",
                 "mint", "mint_flush"}

\* A step of a demand that fails is answered as a refusal.  One of a boot
\* leaves the domain its medium and no key: it refuses every signature, and
\* publishes no owner, so neither a session that uploads a package nor the
\* channel that brings a document can be opened until the next power-up.
Failed == pc' = (IF pc \in Establishing THEN "refused" ELSE "serve")

\* The words published at the end of init.
Publish(r) == owner' = r.owned /\ mark' = Newest(r)

\* The record is read, then the request; the request is answered first.
Boot ==
  /\ pc = "off"
  /\ \/ /\ seen[ResetRequest] # {}
        /\ pc' = "clear" /\ UNCHANGED <<words, promised, exposed>>
     \/ /\ seen[ResetRequest] = {} /\ Decode(seen) = {}
        /\ pc' = "mint" /\ UNCHANGED <<words, promised, exposed>>
     \/ \E r \in Decode(seen) :
          /\ seen[ResetRequest] = {}
          /\ pc' = "serve" /\ Publish(r)
          /\ promised' = {r} /\ exposed' = Exposed(seen)
     \/ pc' = "refused"  \* a read failed
        /\ UNCHANGED <<words, promised, exposed>>
  /\ UNCHANGED <<seen, disk, work, minted, erasing, cleared>>

\* clear_reset, the write and the flush.
ClearReset ==
  /\ pc = "clear"
  /\ \/ Written({ResetRequest}, {}) /\ pc' = "clear_flush"
     \/ PartlyWritten({ResetRequest}, {}) /\ Failed
  /\ UNCHANGED <<disk, work, minted, words, stateHistory>>

ClearResetFlush ==
  /\ pc = "clear_flush"
  /\ \/ /\ disk' = seen /\ pc' = "overwrite"
        /\ promised' = {} /\ cleared' = TRUE
     \/ Failed /\ UNCHANGED <<disk, promised, cleared>>
  /\ UNCHANGED <<seen, work, minted, words, erasing, exposed>>

\* overwrite_store: every sector of the layout.
Overwrite ==
  /\ pc = "overwrite"
  /\ \/ Written(Place, {}) /\ pc' = "overwrite_flush"
     \/ PartlyWritten(Place, {}) /\ Failed
  /\ erasing' = TRUE
  /\ UNCHANGED <<disk, work, minted, words, promised, cleared, exposed>>

OverwriteFlush ==
  /\ pc = "overwrite_flush"
  /\ \/ /\ disk' = seen /\ pc' = "mint"
        /\ cleared' = FALSE
        /\ erasing' = FALSE
     \/ Failed /\ UNCHANGED <<disk, cleared, erasing>>
  /\ UNCHANGED <<seen, work, minted, words, promised, exposed>>

\* mint_identity into both copies.
Mint ==
  /\ pc = "mint"
  /\ minted' = (minted + 1) % IDS
  /\ \/ Written({CopyA, CopyB}, {Minted(minted')}) /\ pc' = "mint_flush"
     \/ PartlyWritten({CopyA, CopyB}, {Minted(minted')}) /\ Failed
     \/ UNCHANGED seen /\ Failed  \* a generator that will not seed
  /\ UNCHANGED <<disk, work, words, stateHistory>>

MintFlush ==
  /\ pc = "mint_flush"
  /\ \/ /\ disk' = seen /\ pc' = "serve"
        /\ Publish(Minted(minted)) /\ promised' = {Minted(minted)}
        /\ exposed' = FALSE /\ cleared' = FALSE
     \/ Failed /\ UNCHANGED <<disk, words, promised, exposed, cleared>>
  /\ UNCHANGED <<seen, work, minted, erasing>>

-----------------------------------------------------------------------------
(* Demands: install, record_config *)

\* take_ownership up to its commit: the record is read back, and an owned one
\* is refused.
Install ==
  /\ pc = "serve"
  /\ \E r \in Decode(seen) :
       /\ ~r.owned /\ r.gen < MaxGen
       /\ work' = [NoWork EXCEPT !.record = {Adopted(r)}]
  /\ pc' = "commit"
  /\ UNCHANGED <<seen, disk, minted, words, stateHistory>>

\* Mutant: a document no newer than the one running is placed.
RecordConfigAny(v, d) ==
  /\ pc = "serve" /\ owner
  /\ \E r \in Decode(seen), s \in Slot :
       /\ NextForReuse(r, s) /\ r.gen < MaxGen
       /\ work' = [slot |-> {s}, doc |-> {d},
                   record |-> {Recorded(r, s, v, d)}]
  /\ pc' = "document"
  /\ UNCHANGED <<seen, disk, minted, words, stateHistory>>

\* place_document up to its first write.  A document arrives over the
\* management channel, which is opened once an owner is published.
RecordConfig(v, d) ==
  /\ pc = "serve" /\ owner
  /\ \E r \in Decode(seen), s \in Slot :
       /\ ~NotNewest(r, v) /\ NextForReuse(r, s) /\ r.gen < MaxGen
       /\ work' = [slot |-> {s}, doc |-> {d},
                   record |-> {Recorded(r, s, v, d)}]
  /\ pc' = "document"
  /\ UNCHANGED <<seen, disk, minted, words, stateHistory>>

WriteDocument ==
  /\ pc = "document"
  /\ \E s \in work.slot :
       \/ Written({SlotSector(s)}, work.doc) /\ pc' = "document_flush"
       \/ PartlyWritten({SlotSector(s)}, work.doc) /\ Failed
  /\ UNCHANGED <<disk, work, minted, words, stateHistory>>

\* Mutant: the record is written behind the document with no flush between.
WriteDocumentFlushLazy ==
  /\ pc = "document_flush"
  /\ \/ pc' = "commit"
     \/ Failed
  /\ UNCHANGED <<seen, disk, work, minted, words, stateHistory>>

WriteDocumentFlush ==
  /\ pc = "document_flush"
  /\ \/ disk' = seen /\ pc' = "commit"
     \/ Failed /\ UNCHANGED disk
  /\ UNCHANGED <<seen, work, minted, words, stateHistory>>

\* commit under Copies::Parity
Commit ==
  /\ pc = "commit"
  /\ \E r \in work.record :
       \/ Written({ParityCopy(r.gen)}, work.record) /\ pc' = "commit_flush"
       \/ PartlyWritten({ParityCopy(r.gen)}, work.record) /\ Failed
  /\ UNCHANGED <<disk, work, minted, words, stateHistory>>

\* Mutant: the demand is answered once the device took the bytes.
CommitFlushLazy ==
  /\ pc = "commit_flush"
  /\ pc' = "serve"
  /\ \E r \in work.record : Publish(r) /\ promised' = {r}
  /\ exposed' = FALSE
  /\ UNCHANGED <<seen, disk, work, minted, erasing, cleared>>

\* The flush, the words the demand moves, and its answer.
CommitFlush ==
  /\ pc = "commit_flush"
  /\ \/ /\ disk' = seen /\ pc' = "serve"
        /\ \E r \in work.record : Publish(r) /\ promised' = {r}
        /\ exposed' = FALSE /\ cleared' = FALSE
     \/ Failed /\ UNCHANGED <<disk, words, promised, exposed, cleared>>
  /\ UNCHANGED <<seen, work, minted, erasing>>

-----------------------------------------------------------------------------
Domain ==
  \/ Boot \/ ClearReset \/ ClearResetFlush \/ Overwrite \/ OverwriteFlush
  \/ Mint \/ MintFlush \/ Install \/ WriteDocument \/ WriteDocumentFlush
  \/ Commit \/ CommitFlush
  \/ \E v \in Number, d \in Document : RecordConfig(v, d)

Device == PowerCut \/ RequestReset \/ \E p \in Place : WriteBack(p)

StateNext == Domain \/ Device

StateSpec == StateInit /\ [][StateNext]_stateVars

-----------------------------------------------------------------------------
(* Properties *)

\* {} or one record; decode_copy refuses a running slot with no entry.
IsRecord(o) ==
  /\ \A x, y \in o : x = y
  /\ \A r \in o :
       /\ r.gen \in 1 .. MaxGen /\ r.id \in Identity /\ r.owned \in BOOLEAN
       /\ \A s \in Slot : Optional(r.slots[s], Entry)
       /\ Optional(r.running, Slot)
       /\ \A s \in r.running : r.slots[s] # {}

StateTypeOK ==
  /\ \A m \in {seen, disk} :
       /\ IsRecord(m[CopyA]) /\ IsRecord(m[CopyB])
       /\ Optional(m[ResetRequest], {"token"})
       /\ \A s \in Slot : Optional(m[SlotSector(s)], Document)
  /\ pc \in Establishing \cup {"off", "refused", "serve", "document",
                               "document_flush", "commit", "commit_flush"}
  /\ minted \in Identity /\ owner \in BOOLEAN
  /\ mark \in 0 .. MaxVersion
  /\ IsRecord(promised)

\* What the domain reported durable survives any power cut and any failed
\* transfer: a later boot finds that record, or a later one made from it, with
\* the same identity, unless the operator's request was taken.  The one
\* exception is a boot whose mint, written over both copies at once, a power
\* cut interrupted.
PromisedSurvives ==
  ~exposed => \A r \in promised :
    \E x \in Decode(disk) : x.id = r.id /\ x.gen >= r.gen
                            /\ (r.owned => x.owned)

\* A boot finds the running document whole, whatever a power cut interrupted:
\* the record never names bytes that are not on the medium under it.  (A
\* reset whose overwrite was interrupted leaves whatever it leaves.)
RunningIsWhole ==
  ~cleared => \A r \in Decode(disk) : RunningMatches(disk, r)

\* The store's writes are atomic: whatever is written when and in how many
\* transfers, the record a boot would read changes only as AtomicRecord says.
Atomic == INSTANCE AtomicRecord
            WITH state <- Decode(disk), losing <- erasing \/ exposed
ReplacedWhole == Atomic!Spec
=============================================================================
