---------------------------- MODULE AtomicRecord ----------------------------
(***************************************************************************)
(* What the store promises of the appliance's record, whatever it does to  *)
(* the medium: one record, replaced whole by its successor.  The promise   *)
(* of book/src/design/configuration.md: a power cut at any instant leaves  *)
(* either the old state or the new one.                                    *)
(***************************************************************************)
EXTENDS Naturals

CONSTANTS Slot, Number, Identity, Document,  \* the values of ApplianceState,
          Minted(_), Adopted(_),              \* and what it makes of a record
          Recorded(_, _, _, _), NotNewest(_, _)

VARIABLES state,   \* {} or {the record a boot would read}
          losing   \* the record may be lost: a reset is overwriting it, or
                   \* the one copy that holds it is being written

\* A medium nobody has written.
Init == state = {} /\ losing = FALSE

\* An identity where there was none.
MintOne == state = {} /\ \E k \in Identity : state' = {Minted(k)}

\* The same identity, under an owner.
Adopt == \E r \in state : ~r.owned /\ state' = {Adopted(r)}

\* A newer document, running, in a slot that was not running.
Record ==
  \E r \in state, s \in Slot, v \in Number, d \in Document :
    /\ s \notin r.running /\ ~NotNewest(r, v)
    /\ state' = {Recorded(r, s, v, d)}

\* Nothing, or what the same appliance was before.
Lose ==
  /\ losing
  /\ \E r \in state : \A x \in state' : x.id = r.id /\ x.gen < r.gen

Next == (state' = state \/ MintOne \/ Adopt \/ Record \/ Lose)

Spec == Init /\ [][Next]_<<state, losing>>
=============================================================================
