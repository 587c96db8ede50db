--------------------------- MODULE ApplianceState ---------------------------
(***************************************************************************)
(* The record of what the appliance is, as values: datad/crates/store's    *)
(* state.rs, slots.rs and document.rs, without the medium they lie on.     *)
(*                                                                         *)
(* An option is a set of at most one element.  The sealing key and the     *)
(* certificate are one identity; the CA and the host the channel dials are *)
(* one flag, owned.                                                        *)
(***************************************************************************)
EXTENDS Integers

CONSTANTS SLOT_COUNT,  \* configuration slots
          Document,    \* documents, by digest
          IDS,         \* identities told apart, reused in turn
          MaxVersion   \* bound on the configuration generations recorded

\* The layout has eight.  Two are not enough: see StateRecordProofs.
ASSUME SlotAssumption == SLOT_COUNT \in Nat /\ SLOT_COUNT >= 3
ASSUME IdsAssumption == IDS \in Nat /\ IDS >= 2
ASSUME VersionAssumption == MaxVersion \in Nat

Slot == 1 .. SLOT_COUNT
Identity == 0 .. IDS - 1
Number == 1 .. MaxVersion
Entry == [version : Number, doc : Document]
Optional(o, S) == o \subseteq S /\ \A x, y \in o : x = y

\* State::minted
Minted(k) == [gen |-> 1, id |-> k, owned |-> FALSE,
              slots |-> [s \in Slot |-> {}], running |-> {}]

\* State::adopt
Adopted(r) == [r EXCEPT !.owned = TRUE, !.gen = @ + 1]

\* State::record_document of a running document, through Slots::place
Recorded(r, s, v, d) ==
  [r EXCEPT !.gen = @ + 1, !.slots[s] = {[version |-> v, doc |-> d]},
            !.running = {s}]

\* Slots::next_for_reuse takes s: the first empty slot, else the oldest
\* version that is not running.  No candidate is ever placed.
NextForReuse(r, s) ==
  IF \E t \in Slot : r.slots[t] = {}
  THEN r.slots[s] = {} /\ \A t \in 1 .. s - 1 : r.slots[t] # {}
  ELSE /\ s \notin r.running
       /\ \A t \in Slot \ r.running : \A e \in r.slots[s] :
            \A f \in r.slots[t] : e.version <= f.version

\* staged_entry's bound on the version.
NotNewest(r, v) == \E s \in Slot : \E e \in r.slots[s] : v <= e.version

\* Slots::newest_generation
Newest(r) == CHOOSE v \in 0 .. MaxVersion :
               ~NotNewest(r, v + 1) /\ (v = 0 \/ NotNewest(r, v))
=============================================================================
