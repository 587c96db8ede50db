---------------------------- MODULE MCForwarder ----------------------------
(***************************************************************************)
(* The two halves of the forwarding domain, which share no state: how a    *)
(* configuration reaches it, and what it does to the flows it has passed.  *)
(*                                                                         *)
(* Three generations over an image of two fields: the first gives the      *)
(* management port its identity, the second, which is refused, would move  *)
(* it, and the third moves the gateway alone.  A table of two slots and    *)
(* two buckets, and one key of each protocol, two of them in one bucket    *)
(* whose chain holds one flow.                                             *)
(***************************************************************************)
EXTENDS ConfigHandover, Flows

CONSTANTS Tcp, Udp, Icmp

VARIABLE part   \* "handover" or "flows"

mcVars == <<vars, flowVars, part>>

MCIdentity == [g \in Gen |-> CASE g = 0 -> "none" [] g = 2 -> "second"
                               [] OTHER -> "first"]
MCGateway == [g \in Gen |-> CASE g = 0 -> "none" [] g = 1 -> "near"
                              [] OTHER -> "far"]

MCProtocolOf == [k \in Keys |-> CASE k = Tcp -> "tcp" [] k = Udp -> "udp"
                                  [] OTHER -> "icmp"]
MCBucketOf == [k \in Keys |-> IF k = Tcp THEN 0 ELSE 1]

\* Three configurations: all may open in one way, and the two that forbid
\* some of it; replies are routed unless their key is not.
Allowing(keys) ==
  [routed |-> keys \X Ways, accepted |-> keys \X {"lower"}]
MCConfigurations == {Allowing(Keys), Allowing({Udp}), Allowing({Tcp, Icmp})}

MCInit == Init /\ FlowInit /\ part \in {"handover", "flows"}

InHandover(A) == part = "handover" /\ A /\ UNCHANGED <<flowVars, part>>
InFlows(A) == part = "flows" /\ A /\ UNCHANGED <<vars, part>>

MCNext == InHandover(Next) \/ InFlows(FlowNext)

\* Fairness of ConfigHandover and FlowFairness of Flows.
MCFairness ==
  /\ WF_mcVars(InHandover(ConfigStep))
  /\ WF_mcVars(InHandover(wakeForwarder /\ SwitchWakeup))
  /\ WF_mcVars(InHandover(SwitchStep))
  /\ WF_mcVars(InHandover(PortStep))
  /\ WF_mcVars(InFlows(Reap))
  /\ WF_mcVars(InFlows(Window))

MCSpec == MCInit /\ [][MCNext]_mcVars /\ MCFairness
=============================================================================
