-------------------------- MODULE ScheduleLoopProofs --------------------------
(***************************************************************************)
(* That the loops of schedule() implement ScheduleChoice, for any agents,  *)
(* groups and scores.  LoopInv is the inductive invariant: it says what    *)
(* the dictionaries hold half way, which the outcome alone does not.       *)
(***************************************************************************)
EXTENDS ScheduleLoop, WellFoundedInduction, TLAPS

IInv == TypeOK /\ LoopInv

LEMMA CapacityIsInt == ASSUME IInv PROVE \A g \in Groups : capByGroup[g] \in Int
  <1>1. -1 \in Int
    OBVIOUS
  <1>2. Scores \subseteq Int
    BY LoopAssumption
  <1>3. Scores \cup {NoCapacity} \subseteq Int
    BY <1>1, <1>2 DEF NoCapacity
  <1> QED BY <1>3 DEF IInv, TypeOK

LEMMA InitIInv == Init => IInv
  BY LoopAssumption, FullAssumption DEF Init, IInv, TypeOK, LoopInv, NoCapacity

LEMMA VisitKeepsType == ASSUME IInv, NEW c \in Agents, Visit(c) PROVE TypeOK'
  BY LoopAssumption, FullAssumption DEF IInv, TypeOK, Visit, inputs

(* One turn of the first loop. *)
LEMMA VisitIInv == ASSUME IInv, NEW c \in Agents, Visit(c) PROVE IInv'
  <1>1. TypeOK'
    BY VisitKeepsType
  <1>2. c \in cand /\ group[c] \in Groups /\ score[c] \in Nat
    BY LoopAssumption DEF IInv, TypeOK, Visit
  <1>3. \A g \in Groups : capByGroup[g] \in Int
    BY CapacityIsInt
  <1>4. \A g \in Groups :
           /\ \A a \in byGroup'[g] : score[a] <= capByGroup'[g]
           /\ capByGroup'[g] # NoCapacity => \E a \in byGroup'[g] : score[a] = capByGroup'[g]
    <2> SUFFICES ASSUME NEW g \in Groups
                 PROVE  /\ \A a \in byGroup'[g] : score[a] <= capByGroup'[g]
                        /\ capByGroup'[g] # NoCapacity =>
                             \E a \in byGroup'[g] : score[a] = capByGroup'[g]
      OBVIOUS
    <2>1. CASE g # group[c]
      <3>1. byGroup'[g] = byGroup[g] /\ capByGroup'[g] = capByGroup[g]
        BY <2>1, <1>2 DEF Visit, IInv, TypeOK
      <3> QED BY <3>1 DEF IInv, LoopInv
    <2>2. CASE g = group[c]
      <3>1. byGroup'[g] = byGroup[g] \cup {c}
        BY <2>2, <1>2 DEF Visit, IInv, TypeOK
      <3>2. capByGroup'[g] = IF score[c] > capByGroup[g] THEN score[c] ELSE capByGroup[g]
        BY <2>2, <1>2 DEF Visit, IInv, TypeOK
      <3>3. \A a \in byGroup[g] : a \in Agents /\ score[a] \in Nat
        BY LoopAssumption DEF IInv, TypeOK
      <3>4. /\ \A a \in byGroup[g] : score[a] <= capByGroup[g]
            /\ capByGroup[g] # NoCapacity => \E a \in byGroup[g] : score[a] = capByGroup[g]
        BY DEF IInv, LoopInv
      <3> QED BY <1>2, <1>3, <3>1, <3>2, <3>3, <3>4
    <2> QED BY <2>1, <2>2
  <1>5. \A a \in Agents, g \in Groups :
           a \in byGroup'[g] <=> a \in cand \ todo' /\ group[a] = g
    BY <1>2 DEF Visit, IInv, TypeOK, LoopInv
  <1>6. c \in hosting /\ score[c] < Full =>
           chosen' = c /\ pc' = "bound" /\ c \in Affine(cand, score, hosting)
    BY <1>2 DEF Visit, Affine
  <1>7. ~(c \in hosting /\ score[c] < Full) => UNCHANGED <<chosen, pc>>
    BY DEF Visit
  <1>8. UNCHANGED <<inputs, lowest, selected>> /\ pc = "scan" /\ todo' = todo \ {c}
    BY DEF Visit
  <1>9. c \in Affine(cand, score, hosting) => c \in Choices(cand, score, group, hosting)
    BY DEF Choices
  <1>10. CASE c \in hosting /\ score[c] < Full
    BY <1>1, <1>4, <1>6, <1>8, <1>9, <1>10 DEF IInv, LoopInv, inputs
  <1>11. CASE ~(c \in hosting /\ score[c] < Full)
    BY <1>1, <1>4, <1>5, <1>7, <1>8, <1>11 DEF IInv, LoopInv, inputs
  <1> QED BY <1>10, <1>11

(* What the dictionaries say of the candidates once all are scanned. *)
LEMMA Scanned ==
  ASSUME IInv, pc = "groups"
  PROVE  /\ Affine(cand, score, hosting) = {}
         /\ \A g \in Groups : Members(cand, group, g) = byGroup[g]
         /\ \A b \in cand : /\ group[b] \in Groups
                            /\ b \in byGroup[group[b]]
                            /\ capByGroup[group[b]] # NoCapacity
  <1>1. Affine(cand, score, hosting) = {}
    BY DEF IInv, TypeOK, LoopInv, Affine
  <1>2. \A g \in Groups : Members(cand, group, g) = byGroup[g]
    BY DEF IInv, TypeOK, LoopInv, Members
  <1>3. ASSUME NEW b \in cand
        PROVE  group[b] \in Groups /\ b \in byGroup[group[b]] /\ capByGroup[group[b]] # NoCapacity
    <2>1. b \in Agents /\ group[b] \in Groups /\ score[b] \in Nat
      BY LoopAssumption DEF IInv, TypeOK
    <2>2. b \in byGroup[group[b]]
      BY <2>1, <1>2 DEF Members
    <2>3. score[b] <= capByGroup[group[b]]
      BY <2>1, <2>2 DEF IInv, LoopInv
    <2> QED BY <2>1, <2>2, <2>3 DEF NoCapacity
  <1> QED BY <1>1, <1>2, <1>3

LEMMA PickMemberIInv == ASSUME IInv, PickMember PROVE IInv'
  <1>1. TypeOK'
    BY DEF IInv, TypeOK, PickMember, inputs
  <1>2. pc = "groups"
    BY DEF PickMember
  <1>3. PICK a \in byGroup[selected] : chosen' = a
    BY DEF PickMember
  <1>4. \A h \in Groups : capByGroup[h] \in Int
    BY CapacityIsInt
  <1>5. a \in cand /\ a \in Agents /\ group[a] = selected /\ selected \in Groups
    BY <1>2 DEF IInv, TypeOK, LoopInv
  <1>6. \A b \in cand : score[b] \in Nat
    BY LoopAssumption DEF IInv, TypeOK
  <1>7. lowest < Full /\ capByGroup[selected] = lowest /\ lowest \in Nat
    BY <1>2 DEF IInv, TypeOK, LoopInv, PickMember
  <1>8. \A d \in byGroup[selected] : d \in cand /\ score[d] <= lowest
    BY <1>2, <1>5, <1>7 DEF IInv, TypeOK, LoopInv
  <1>9. ASSUME NEW b \in cand
        PROVE  NotAbove(byGroup[selected], byGroup[group[b]], score)
    <2>1. group[b] \in Groups /\ capByGroup[group[b]] # NoCapacity
      BY <1>2, Scanned
    <2>2. PICK e \in byGroup[group[b]] : score[e] = capByGroup[group[b]]
      BY <2>1 DEF IInv, LoopInv
    <2>3. lowest <= capByGroup[group[b]]
      BY <2>1, <1>2 DEF IInv, LoopInv, PickMember
    <2> QED BY <2>2, <2>3, <1>4, <1>6, <1>7, <1>8, <2>1 DEF NotAbove
  <1>10. \A b \in byGroup[selected] : score[b] < Full
    BY <1>6, <1>7, <1>8, FullAssumption
  <1>11. a \in LeastLoaded(cand, score, group)
    BY <1>2, <1>5, <1>9, <1>10, Scanned DEF LeastLoaded
  <1>12. a \in Choices(cand, score, group, hosting)
    BY <1>2, <1>11, Scanned DEF Choices
  <1> QED BY <1>1, <1>3, <1>12 DEF IInv, LoopInv, PickMember, inputs

LEMMA NoCapacityLeftIInv == ASSUME IInv, NoCapacityLeft PROVE IInv'
  <1>1. TypeOK'
    BY DEF IInv, TypeOK, NoCapacityLeft, inputs
  <1>2. pc = "groups"
    BY DEF NoCapacityLeft
  <1>3. ASSUME NEW a \in LeastLoaded(cand, score, group) PROVE FALSE
    <2>1. a \in cand
      BY DEF LeastLoaded
    <2>2. group[a] \in Groups /\ capByGroup[group[a]] # NoCapacity
      BY <1>2, <2>1, Scanned
    <2>3. PICK e \in byGroup[group[a]] : score[e] = capByGroup[group[a]]
      BY <2>2 DEF IInv, LoopInv
    <2>4. score[e] < Full
      BY <1>2, <2>2, <2>3, Scanned DEF LeastLoaded
    <2>5. lowest <= score[e]
      BY <1>2, <2>2, <2>3 DEF IInv, LoopInv, NoCapacityLeft
    <2>6. lowest >= Full /\ lowest \in Nat /\ score[e] \in Nat
      BY <2>2, <2>3, LoopAssumption DEF NoCapacityLeft, IInv, TypeOK
    <2> QED BY <2>4, <2>5, <2>6, FullAssumption
  <1>4. Choices(cand, score, group, hosting) = {}
    BY <1>2, <1>3, Scanned DEF Choices
  <1> QED BY <1>1, <1>4 DEF IInv, LoopInv, NoCapacityLeft, inputs

LEMMA NoActiveAgentIInv == ASSUME IInv, NoActiveAgent PROVE IInv'
  <1>1. TypeOK'
    BY DEF IInv, TypeOK, NoActiveAgent, inputs
  <1>2. Choices(cand, score, group, hosting) = {}
    BY DEF NoActiveAgent, Choices, Affine, LeastLoaded
  <1> QED BY <1>1, <1>2 DEF IInv, LoopInv, NoActiveAgent, inputs

LEMMA EndScanIInv == ASSUME IInv, EndScan PROVE IInv'
  <1>1. TypeOK'
    BY DEF IInv, TypeOK, EndScan, inputs
  <1> QED BY <1>1, FullAssumption DEF IInv, TypeOK, LoopInv, EndScan, inputs

(* One turn of the second loop. *)
LEMMA VisitGroupIInv == ASSUME IInv, NEW g \in Groups, VisitGroup(g) PROVE IInv'
  <1>1. \A h \in Groups : capByGroup[h] \in Int
    BY CapacityIsInt
  <1>2. capByGroup[g] \in Nat
    BY LoopAssumption DEF IInv, TypeOK, LoopInv, VisitGroup
  <1>3. TypeOK'
    BY <1>2 DEF IInv, TypeOK, VisitGroup, inputs
  <1>4. lowest' <= lowest /\ lowest' <= capByGroup[g] /\ lowest' \in Nat /\ lowest \in Nat
    BY <1>2 DEF IInv, TypeOK, VisitGroup
  <1>5. \A h \in Groups \ todoGroups' : capByGroup'[h] = NoCapacity \/ lowest' <= capByGroup'[h]
    BY <1>1, <1>2, <1>4 DEF IInv, LoopInv, VisitGroup
  <1>6. lowest' <= Full /\ (lowest' < Full => capByGroup'[selected'] = lowest')
    BY <1>2, <1>4, FullAssumption DEF IInv, LoopInv, VisitGroup
  <1> QED BY <1>3, <1>5, <1>6 DEF IInv, LoopInv, VisitGroup, inputs

LEMMA NextIInv == IInv /\ [Next]_vars => IInv'
  <1> SUFFICES ASSUME IInv, [Next]_vars PROVE IInv'
    OBVIOUS
  <1>1. CASE NoActiveAgent
    BY <1>1, NoActiveAgentIInv
  <1>2. CASE \E c \in Agents : Visit(c)
    BY <1>2, VisitIInv
  <1>3. CASE EndScan
    BY <1>3, EndScanIInv
  <1>4. CASE \E g \in Groups : VisitGroup(g)
    BY <1>4, VisitGroupIInv
  <1>5. CASE PickMember
    BY <1>5, PickMemberIInv
  <1>6. CASE NoCapacityLeft
    BY <1>6, NoCapacityLeftIInv
  <1>7. CASE UNCHANGED vars
    BY <1>7 DEF IInv, TypeOK, LoopInv, vars, inputs
  <1> QED BY <1>1, <1>2, <1>3, <1>4, <1>5, <1>6, <1>7 DEF Next

(* The loops keep their dictionaries and counters in range. *)
THEOREM TypeCorrect == Spec => []TypeOK
  <1>1. IInv => TypeOK
    BY DEF IInv
  <1> QED BY <1>1, InitIInv, NextIInv, PTL DEF Spec

(* The loop invariant of schedule(): the agent it binds is always one of   *)
(* the Choices, and it refuses only when there are none.                   *)
THEOREM LoopCorrect == Spec => []LoopInv
  <1>1. IInv => LoopInv
    BY DEF IInv
  <1> QED BY <1>1, InitIInv, NextIInv, PTL DEF Spec

LEMMA InitRefines == Init => Choice!Init
  <1> SUFFICES ASSUME Init PROVE Choice!Init
    OBVIOUS
  <1>1. score \in [Agents -> Nat]
    BY LoopAssumption DEF Init
  <1>2. (pc \in {"bound", "refused"}) = FALSE
    BY DEF Init
  <1> QED BY <1>1, <1>2 DEF Init, Choice!Init

(* The instance's Choices are those of this module. *)
LEMMA SameChoices ==
  Choice!Choices(cand, score, group, hosting) = Choices(cand, score, group, hosting)
  BY DEF Choices, Choice!Choices, Affine, Choice!Affine, LeastLoaded, Choice!LeastLoaded,
         Members, Choice!Members, NotAbove, Choice!NotAbove

(* A step that ends the loops is the abstract decision, the others stutter. *)
LEMMA StepRefines ==
  IInv /\ IInv' /\ [Next]_vars =>
    [Choice!Decide]_<<Choice!inputs, pc \in {"bound", "refused"}, chosen>>
  <1> SUFFICES ASSUME IInv, IInv', [Next]_vars
               PROVE  [Choice!Decide]_<<Choice!inputs, pc \in {"bound", "refused"}, chosen>>
    OBVIOUS
  <1>0. UNCHANGED inputs
    BY DEF Next, NoActiveAgent, Visit, EndScan, VisitGroup, PickMember, NoCapacityLeft, vars
  <1>1. CASE pc \in {"scan", "groups"} /\ pc' = "bound"
    <2>1. chosen' \in Choices(cand, score, group, hosting)
      BY <1>0, <1>1 DEF IInv, LoopInv, inputs
    <2>2. ~(pc \in {"bound", "refused"}) /\ (pc' \in {"bound", "refused"}) = TRUE
      BY <1>1
    <2> QED BY <1>0, <2>1, <2>2, SameChoices DEF Choice!Decide, Choice!inputs, inputs
  <1>2. CASE pc \in {"scan", "groups"} /\ pc' = "refused"
    <2>1. Choices(cand, score, group, hosting) = {} /\ chosen' = None
      BY <1>0, <1>2 DEF IInv, LoopInv, inputs
    <2>2. ~(pc \in {"bound", "refused"}) /\ (pc' \in {"bound", "refused"}) = TRUE
      BY <1>2
    <2> QED BY <1>0, <2>1, <2>2, SameChoices DEF Choice!Decide, Choice!inputs, inputs
  <1>3. CASE UNCHANGED <<chosen>> /\ (pc \in {"bound", "refused"} <=> pc' \in {"bound", "refused"})
    BY <1>0, <1>3 DEF Choice!inputs, inputs
  <1> QED BY <1>1, <1>2, <1>3 DEF Next, NoActiveAgent, Visit, EndScan, VisitGroup,
             PickMember, NoCapacityLeft, vars, IInv, TypeOK

(* The two loops of schedule() implement the single choice of              *)
(* ScheduleChoice, for every set of agents, groups and scores.             *)
THEOREM Implements == Spec => ImplementsChoice
  <1> QED BY InitIInv, NextIInv, InitRefines, StepRefines, PTL
          DEF Spec, ImplementsChoice, Choice!Spec

(***************************************************************************)
(* When schedule() refuses                                                 *)
(***************************************************************************)

(* A set of numbers has a least one. *)
LEMMA LeastOf ==
  ASSUME NEW S, S \subseteq Nat, S # {}
  PROVE  \E n \in S : \A m \in S : n <= m
  <1> DEFINE R == OpToRel(<, Nat)
  <1>1. IsWellFoundedOn(R, Nat)
    BY NatLessThanWellFounded
  <1>2. ASSUME NEW m \in Nat, NEW n \in Nat, m < n PROVE <<m, n>> \in R
    BY <1>2 DEF OpToRel
  <1> HIDE DEF R
  <1>3. PICK n \in S : \A m \in S : ~ (<<m, n>> \in R)
    BY <1>1, WFMin
  <1>4. ASSUME NEW m \in S PROVE n <= m
    <2>1. ~ (m < n)
      BY <1>2, <1>3
    <2> QED BY <2>1
  <1> QED BY <1>4

(* If no agent of some candidate's group is full, there is a choice: of the *)
(* levels that some group keeps within, the least is of a least loaded one. *)
LEMMA RoomIsChosen ==
  ASSUME NEW C, NEW s, NEW g, NEW h,
         \A a \in C : s[a] \in Nat,
         \E a \in C : \A b \in Members(C, g, g[a]) : s[b] < Full
  PROVE  Choices(C, s, g, h) # {}
  <1> SUFFICES ASSUME Affine(C, s, h) = {}
               PROVE  LeastLoaded(C, s, g) # {}
    BY DEF Choices
  <1> DEFINE Fits(a, n) == \A b \in Members(C, g, g[a]) : s[b] <= n
             levels == {n \in Nat : \E a \in C : Fits(a, n)}
  <1>1. PICK r \in C : \A b \in Members(C, g, g[r]) : s[b] < Full
    OBVIOUS
  <1>2. Full - 1 \in levels
    <2>1. r \in Members(C, g, g[r])
      BY DEF Members
    <2>2. Full - 1 \in Nat
      BY <1>1, <2>1, FullAssumption
    <2>3. Fits(r, Full - 1)
      BY <1>1, FullAssumption DEF Members
    <2> QED BY <2>2, <2>3
  <1>3. PICK n \in levels : \A m \in levels : n <= m
    BY <1>2, LeastOf
  <1>4. PICK a \in C : Fits(a, n)
    BY <1>3
  <1>5. \A b \in Members(C, g, g[a]) : s[b] < Full
    <2>1. n <= Full - 1
      BY <1>2, <1>3
    <2> QED BY <1>3, <1>4, <2>1, FullAssumption DEF Members
  <1>6. ASSUME NEW b \in C
        PROVE  NotAbove(Members(C, g, g[a]), Members(C, g, g[b]), s)
    <2>1. \E e \in Members(C, g, g[b]) : n <= s[e]
      <3>1. CASE n = 0
        <4>1. b \in Members(C, g, g[b]) /\ s[b] \in Nat
          BY DEF Members
        <4> QED BY <3>1, <4>1
      <3>2. CASE n # 0
        <4>1. n - 1 \in Nat /\ ~ (n <= n - 1)
          BY <1>3, <3>2
        <4>2. ~ Fits(b, n - 1)
          BY <1>3, <4>1
        <4> QED BY <1>3, <4>1, <4>2 DEF Members
      <3> QED BY <3>1, <3>2
    <2> QED BY <1>3, <1>4, <2>1 DEF NotAbove, Members
  <1> QED BY <1>5, <1>6 DEF LeastLoaded

(* NoActiveLbaasAgent and NoEligibleLbaasAgent mean what they say: every   *)
(* agent that serves the tenant is full, and every group has a full agent. *)
RefusedWhenFull ==
  pc = "refused" =>
    \A a \in cand : /\ a \in hosting => score[a] >= Full
                    /\ \E b \in cand : group[b] = group[a] /\ score[b] >= Full

(* schedule() raises only when no candidate has room, in whatever order the *)
(* candidates and the groups come.                                         *)
THEOREM RefusesOnlyWhenFull == Spec => []RefusedWhenFull
  <1>1. IInv => RefusedWhenFull
    <2> SUFFICES ASSUME IInv, pc = "refused", NEW a \in cand
                 PROVE  /\ a \in hosting => score[a] >= Full
                        /\ \E b \in cand : group[b] = group[a] /\ score[b] >= Full
      BY DEF RefusedWhenFull
    <2>1. Choices(cand, score, group, hosting) = {}
      BY DEF IInv, LoopInv
    <2>2. \A b \in cand : score[b] \in Nat
      BY LoopAssumption DEF IInv, TypeOK
    <2>3. a \in hosting => score[a] >= Full
      BY <2>1, <2>2, FullAssumption DEF Choices, Affine
    <2>4. ~ \A b \in Members(cand, group, group[a]) : score[b] < Full
      BY <2>1, <2>2, RoomIsChosen
    <2>5. \E b \in cand : group[b] = group[a] /\ score[b] >= Full
      BY <2>2, <2>4, FullAssumption DEF Members
    <2> QED BY <2>3, <2>5
  <1> QED BY <1>1, InitIInv, NextIInv, PTL DEF Spec
================================================================================
