----------------------------- MODULE MCMailbox -----------------------------
(***************************************************************************)
(* The configuration domain behind its mailbox, and the datastore it       *)
(* decides by on its own: without the accesses of an exchange in between,  *)
(* operations of any number and any generation follow one another.         *)
(***************************************************************************)
EXTENDS ConfigMailbox

VARIABLE part   \* "mailbox", or "datastore"

mcVars == <<allVars, part>>

MCInit == MailboxInit /\ part \in {"mailbox", "datastore"}

InMailbox(A) == part = "mailbox" /\ A /\ part' = part

MCNext ==
  \/ InMailbox(MailboxNext)
  \/ part = "datastore" /\ Next /\ UNCHANGED <<mailbox, part>>

MCSpec == MCInit /\ [][MCNext]_mcVars
          /\ WF_mcVars(InMailbox(Requester)) /\ WF_mcVars(InMailbox(Responder))
=============================================================================
