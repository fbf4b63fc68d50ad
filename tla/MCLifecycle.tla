------------------------------ MODULE MCLifecycle ------------------------------
(* One load balancer and the two agents of its environment and group. *)
EXTENDS LoadBalancerLifecycle, TLC

CONSTANTS a1, a2, l1, t1, e1, s1

MCEnvOf == a1 :> e1 @@ a2 :> e1
MCGroupOf == a1 :> 1 @@ a2 :> 1
MCProviderEnv == l1 :> e1
MCTenantOf == l1 :> t1
================================================================================
