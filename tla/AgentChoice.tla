------------------------------ MODULE AgentChoice ------------------------------
(***************************************************************************)
(* Which agents TenantScheduler.schedule may give to a load balancer that  *)
(* has no agent yet, stated without its loops.                             *)
(*                                                                         *)
(*   cand      the active agents of the load balancer's environment        *)
(*   score     capacity score of each agent (0 idle, Full and above full)  *)
(*   group     environment group number of each agent                      *)
(*   hosting   the agents that already host a load balancer of its tenant  *)
(***************************************************************************)
EXTENDS Integers

CONSTANT Full       \* the score 1.0 of the code: no capacity left

ASSUME FullAssumption == Full \in Nat

Members(cand, group, g) == {a \in cand : group[a] = g}

(* The fullest agent of D is not fuller than the fullest agent of E. *)
NotAbove(D, E, score) == \A d \in D : \E e \in E : score[d] <= score[e]

AffineEvenFull(cand, score, hosting) ==    \* mutant: capacity not checked
  cand \cap hosting

(* Tenant affinity: candidates that serve the tenant and are not full. *)
Affine(cand, score, hosting) == {a \in cand \cap hosting : score[a] < Full}

(* Candidates of a group whose fullest agent is least full of all groups;  *)
(* a group with a full agent counts as full.                               *)
LeastLoaded(cand, score, group) ==
  {a \in cand :
     LET mine == Members(cand, group, group[a])
     IN  /\ \A b \in mine : score[b] < Full
         /\ \A b \in cand : NotAbove(mine, Members(cand, group, group[b]), score)}

Choices(cand, score, group, hosting) ==
  IF Affine(cand, score, hosting) # {}
    THEN Affine(cand, score, hosting)
    ELSE LeastLoaded(cand, score, group)
================================================================================
