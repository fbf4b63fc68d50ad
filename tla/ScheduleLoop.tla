----------------------------- MODULE ScheduleLoop -----------------------------
(***************************************************************************)
(* TenantScheduler.schedule from the point where the load balancer has no  *)
(* binding, one action per iteration.  The candidates come from a database *)
(* query and the groups from a dict, neither in a defined order, so each   *)
(* loop takes the next element from a set.  The inputs (candidates, their  *)
(* configurations, the tenant's bindings) are read under one transaction   *)
(* and do not change during the loop.                                      *)
(***************************************************************************)
EXTENDS AgentChoice

CONSTANTS
  Agents,
  Groups,       \* environment group numbers; DefaultGroup is one of them
  DefaultGroup, \* the group number 1 that selected_group starts from
  Scores,       \* capacity scores the agents report
  None          \* no agent

ASSUME LoopAssumption ==
  /\ DefaultGroup \in Groups
  /\ Scores \subseteq Nat
  /\ None \notin Agents

NoCapacity == -1    \* capacity_by_group has no entry for the group

VARIABLES
  cand, score, group, hosting,  \* the inputs, as in AgentChoice
  pc,             \* "scan" -> "groups" -> "bound", or "refused"
  todo,           \* candidates the scan has not visited
  byGroup,        \* agents_by_group
  capByGroup,     \* capacity_by_group
  todoGroups,     \* groups the second loop has not visited
  lowest,         \* lowest_utilization
  selected,       \* selected_group
  chosen          \* chosen_agent

inputs == <<cand, score, group, hosting>>
vars == <<inputs, pc, todo, byGroup, capByGroup, todoGroups, lowest, selected, chosen>>

TypeOK ==
  /\ cand \in SUBSET Agents
  /\ score \in [Agents -> Scores]
  /\ group \in [Agents -> Groups]
  /\ hosting \in SUBSET Agents
  /\ pc \in {"scan", "groups", "bound", "refused"}
  /\ todo \in SUBSET cand
  /\ byGroup \in [Groups -> SUBSET Agents]
  /\ capByGroup \in [Groups -> Scores \cup {NoCapacity}]
  /\ todoGroups \in SUBSET Groups
  /\ lowest \in Nat
  /\ selected \in Groups
  /\ chosen \in Agents \cup {None}

Init ==
  /\ cand \in SUBSET Agents
  /\ score \in [Agents -> Scores]
  /\ group \in [Agents -> Groups]
  /\ hosting \in SUBSET Agents
  /\ pc = "scan"
  /\ todo = cand
  /\ byGroup = [g \in Groups |-> {}]
  /\ capByGroup = [g \in Groups |-> NoCapacity]
  /\ todoGroups = {}
  /\ lowest = Full
  /\ selected = DefaultGroup
  /\ chosen = None

(* NoActiveLbaasAgent. *)
NoActiveAgent ==
  /\ pc = "scan"
  /\ cand = {}
  /\ pc' = "refused"
  /\ UNCHANGED <<inputs, todo, byGroup, capByGroup, todoGroups, lowest, selected, chosen>>

VisitSums(c) ==             \* mutant: the group's scores added up
  /\ pc = "scan"
  /\ c \in todo
  /\ byGroup' = [byGroup EXCEPT ![group[c]] = @ \cup {c}]
  /\ capByGroup' = [capByGroup EXCEPT ![group[c]] = IF @ = NoCapacity THEN score[c] ELSE @ + score[c]]
  /\ todo' = todo \ {c}
  /\ IF c \in hosting /\ score[c] < Full
       THEN chosen' = c /\ pc' = "bound"
       ELSE UNCHANGED <<chosen, pc>>
  /\ UNCHANGED <<inputs, todoGroups, lowest, selected>>

(* One turn of "for candidate in candidates".  A candidate that serves the *)
(* tenant ends the loop unless it is full.                                 *)
Visit(c) ==
  /\ pc = "scan"
  /\ c \in todo
  /\ byGroup' = [byGroup EXCEPT ![group[c]] = @ \cup {c}]
  /\ capByGroup' = IF score[c] > capByGroup[group[c]]
                     THEN [capByGroup EXCEPT ![group[c]] = score[c]]
                     ELSE capByGroup
  /\ todo' = todo \ {c}
  /\ IF c \in hosting /\ score[c] < Full
       THEN chosen' = c /\ pc' = "bound"
       ELSE UNCHANGED <<chosen, pc>>
  /\ UNCHANGED <<inputs, todoGroups, lowest, selected>>

EndScan ==
  /\ pc = "scan"
  /\ cand # {}
  /\ todo = {}
  /\ pc' = "groups"
  /\ todoGroups' = {g \in Groups : capByGroup[g] # NoCapacity}
  /\ UNCHANGED <<inputs, todo, byGroup, capByGroup, lowest, selected, chosen>>

VisitGroupHighest(g) ==     \* mutant: the comparison turned round
  /\ pc = "groups"
  /\ g \in todoGroups
  /\ todoGroups' = todoGroups \ {g}
  /\ IF capByGroup[g] > lowest
       THEN lowest' = capByGroup[g] /\ selected' = g
       ELSE UNCHANGED <<lowest, selected>>
  /\ UNCHANGED <<inputs, pc, todo, byGroup, capByGroup, chosen>>

(* One turn of "for group, capacity in capacity_by_group.items()". *)
VisitGroup(g) ==
  /\ pc = "groups"
  /\ g \in todoGroups
  /\ todoGroups' = todoGroups \ {g}
  /\ IF capByGroup[g] < lowest
       THEN lowest' = capByGroup[g] /\ selected' = g
       ELSE UNCHANGED <<lowest, selected>>
  /\ UNCHANGED <<inputs, pc, todo, byGroup, capByGroup, chosen>>

PickMemberAny ==            \* mutant: random.choice over an empty dict entry
  /\ pc = "groups"
  /\ todoGroups = {}
  /\ lowest < Full
  /\ chosen' \in byGroup[DefaultGroup]
  /\ pc' = "bound"
  /\ UNCHANGED <<inputs, todo, byGroup, capByGroup, todoGroups, lowest, selected>>

(* random.choice over the selected group, then the binding row is added. *)
PickMember ==
  /\ pc = "groups"
  /\ todoGroups = {}
  /\ lowest < Full
  /\ chosen' \in byGroup[selected]
  /\ pc' = "bound"
  /\ UNCHANGED <<inputs, todo, byGroup, capByGroup, todoGroups, lowest, selected>>

(* NoEligibleLbaasAgent. *)
NoCapacityLeft ==
  /\ pc = "groups"
  /\ todoGroups = {}
  /\ lowest >= Full
  /\ pc' = "refused"
  /\ UNCHANGED <<inputs, todo, byGroup, capByGroup, todoGroups, lowest, selected, chosen>>

Next ==
  \/ NoActiveAgent
  \/ \E c \in Agents : Visit(c)
  \/ EndScan
  \/ \E g \in Groups : VisitGroup(g)
  \/ PickMember
  \/ NoCapacityLeft

Spec == Init /\ [][Next]_vars

--------------------------------------------------------------------------------

(***************************************************************************)
(* Properties                                                              *)
(***************************************************************************)

Choice == INSTANCE ScheduleChoice WITH decided <- pc \in {"bound", "refused"}

(* The two loops of schedule() together make the one choice ScheduleChoice *)
(* states, in whatever order the candidates and the groups come: the agent *)
(* of the tenant if it has room, else an agent of a least loaded group,    *)
(* and a refusal only when there is neither.                               *)
ImplementsChoice == Choice!Spec

(* While the loops run, capacity_by_group holds the maximum over the       *)
(* agents seen in each group, no affine candidate has been passed over,    *)
(* and lowest_utilization is the minimum over the groups seen.             *)
LoopInv ==
  /\ \A a \in Agents, g \in Groups :
        pc \in {"scan", "groups"} =>
          (a \in byGroup[g] <=> a \in cand \ todo /\ group[a] = g)
  /\ \A g \in Groups :
        /\ \A a \in byGroup[g] : score[a] <= capByGroup[g]
        /\ capByGroup[g] # NoCapacity => \E a \in byGroup[g] : score[a] = capByGroup[g]
  /\ pc \in {"scan", "groups"} =>
        \A a \in cand \ todo : ~(a \in hosting /\ score[a] < Full)
  /\ pc = "scan" => lowest = Full
  /\ pc = "groups" =>
        /\ cand # {} /\ todo = {}
        /\ lowest <= Full
        /\ \A g \in todoGroups : capByGroup[g] # NoCapacity
        /\ \A g \in Groups \ todoGroups : capByGroup[g] = NoCapacity \/ lowest <= capByGroup[g]
        /\ lowest < Full => capByGroup[selected] = lowest
  /\ pc \in {"scan", "groups", "refused"} => chosen = None
  /\ pc = "bound" => chosen \in Choices(cand, score, group, hosting)
  /\ pc = "refused" => Choices(cand, score, group, hosting) = {}
================================================================================
