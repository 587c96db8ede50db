---------------------------- MODULE MCTransaction ----------------------------
(***************************************************************************)
(* The appliance's end of a configuration transaction, against the server  *)
(* of module ConfigTransaction and against one that may send any frame;    *)
(* and, on its own, the medium a version it keeps is recorded on.          *)
(***************************************************************************)
EXTENDS ConfigTransaction, StateRecord

VARIABLE part   \* "server", "anyone" or "medium"

mcVars == <<transactionVars, stateVars, part>>

MCInit == TransactionInit /\ StateInit /\ part \in {"server", "anyone", "medium"}

MCNext ==
  /\ part' = part
  /\ \/ part = "server" /\ TransactionNext /\ UNCHANGED stateVars
     \/ part = "anyone" /\ Next /\ UNCHANGED <<wire, server, history, stateVars>>
     \/ part = "medium" /\ StateNext /\ UNCHANGED transactionVars

MCSpec == MCInit /\ [][MCNext]_mcVars
==============================================================================
