---------------------------- MODULE ScheduleChoice ----------------------------
(***************************************************************************)
(* The abstract specification of scheduling an unbound load balancer: one  *)
(* step, which either picks one of the Choices or refuses when there are   *)
(* none.  ScheduleLoop implements it.                                      *)
(***************************************************************************)
EXTENDS AgentChoice

CONSTANTS Agents, Groups, None

VARIABLES cand, score, group, hosting, decided, chosen

inputs == <<cand, score, group, hosting>>

Init ==
  /\ cand \in SUBSET Agents
  /\ score \in [Agents -> Nat]
  /\ group \in [Agents -> Groups]
  /\ hosting \in SUBSET Agents
  /\ decided = FALSE
  /\ chosen = None

Decide ==
  /\ ~decided
  /\ decided' = TRUE
  /\ IF Choices(cand, score, group, hosting) = {}
       THEN chosen' = None
       ELSE chosen' \in Choices(cand, score, group, hosting)
  /\ UNCHANGED inputs

Spec == Init /\ [][Decide]_<<inputs, decided, chosen>>
================================================================================
