--------------------------- MODULE MCAgentScheduler ---------------------------
(***************************************************************************)
(* Small instances of AgentScheduler.  The fleet is two environments; the  *)
(* first has a group of two agents, a group of one and an agent that       *)
(* reports no group number, so that failover within a group, failover with *)
(* no successor, failover past the agent without a number, and the choice  *)
(* between groups all happen.  Two load balancers of the first environment *)
(* belong to one tenant.                                                   *)
(***************************************************************************)
EXTENDS AgentScheduler, TLC

CONSTANTS a1, a2, a3, a4, a5, l1, l2, t1, e1, e2

MCEnvOf == a1 :> e1 @@ a2 :> e1 @@ a3 :> e1 @@ a4 :> e2 @@ a5 :> e1
MCGroupOf == a1 :> 1 @@ a2 :> 1 @@ a3 :> 2 @@ a4 :> 1 @@ a5 :> NoGroup
MCProviderEnv == l1 :> e1 @@ l2 :> e1
MCTenantOf == l1 :> t1 @@ l2 :> t1

(* Three agents of one environment; two in the group 0. *)
PairEnvOf == a1 :> e1 @@ a2 :> e1 @@ a3 :> e1
ZeroGroupOf == a1 :> 0 @@ a2 :> 0 @@ a3 :> 2
================================================================================
