---------------------------- MODULE MCDataplane ----------------------------
(***************************************************************************)
(* What the domains a frame crosses share: the ring two of them hand       *)
(* descriptors over, and the pool whose buffers those descriptors lend.    *)
(* The two are modelled apart.  The ring has four slots and its producer   *)
(* hands over a bounded number of descriptors: enough for both cursors to  *)
(* wrap while the ring is full.                                            *)
(***************************************************************************)
EXTENDS SpscRing, BufferLoan

CONSTANT MaxSent   \* bound: the descriptors handed over

VARIABLE part   \* "ring" or "pool"

mcVars == <<ringVars, vars, part>>

MCInit == RingInit /\ Init /\ part \in {"ring", "pool"}

InRing(A) == part = "ring" /\ A /\ UNCHANGED <<vars, part>>
InPool(A) == part = "pool" /\ A /\ UNCHANGED <<ringVars, part>>

BoundedProducer ==
  ProducerStep /\ (sent + (IF pPc = "idle" THEN 0 ELSE 1) <= MaxSent)'

MCNext == InRing(BoundedProducer \/ ConsumerStep) \/ InPool(Next)

\* A protection domain's entrypoint runs to its end, and a consumer with
\* descriptors queued is woken to drain them; Fairness of BufferLoan.
MCFairness ==
  /\ WF_mcVars(InRing(BoundedProducer)) /\ WF_mcVars(InRing(ConsumerStep))
  /\ WF_mcVars(InPool(faults = 0 /\ ReceiverStep))
  /\ WF_mcVars(InPool(faults = 0 /\ ForwarderStep))
  /\ WF_mcVars(InPool(faults = 0 /\ TransmitterStep))
  /\ \A s \in TxSlot : WF_mcVars(InPool(faults = 0 /\ Transmitted(s)))

MCSpec == MCInit /\ [][MCNext]_mcVars /\ MCFairness
=============================================================================
