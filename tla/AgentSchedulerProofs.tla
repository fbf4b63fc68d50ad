------------------------- MODULE AgentSchedulerProofs -------------------------
(***************************************************************************)
(* Safety of the scheduler for any fleet of agents: bindings stay in their *)
(* environment, move only from down to active agents, and move together.   *)
(* Every rebinding is a call of Rebound, so the argument is one lemma      *)
(* about its successor function and one about each operation that builds   *)
(* one; BoundInEnv is inductive once the types are known.                  *)
(***************************************************************************)
EXTENDS AgentScheduler, TLAPS

IInv == TypeOK /\ BoundInEnv

(* The agents a query for an environment returns are agents of it. *)
LEMMA InEnv ==
  ASSUME NEW env, NEW g, NEW a \in AgentsInEnv(env, g)
  PROVE  a \in Agents /\ EnvOf[a] = env
  BY DEF AgentsInEnv

(* schedule() picks one of its candidates. *)
LEMMA ChoicesAreCandidates ==
  ASSUME NEW cand, NEW s, NEW g, NEW hosting
  PROVE  Choices(cand, s, g, hosting) \subseteq cand
  BY DEF Choices, Affine, LeastLoaded

(* A successor is an active agent of the environment, or the agent itself. *)
LEMMA SuccessorIs ==
  ASSUME NEW d, NEW env, NEW g, NEW a \in Successors(d, env, g)
  PROVE  a = d \/ (a \in Agents /\ EnvOf[a] = env /\ a \in Active)
  BY InEnv DEF Successors, ActiveInEnv

(* A rebinding within environments keeps the invariant. *)
LEMMA ReboundInEnv ==
  ASSUME IInv, NEW to,
         \A d \in DOMAIN to :
            d \in Agents /\ to[d] \in Agents /\ EnvOf[to[d]] = EnvOf[d],
         binding' = Rebound(to), UNCHANGED agentVars
  PROVE  IInv'
  <1>1. ASSUME NEW lb \in LoadBalancers
        PROVE  /\ binding'[lb] \in Agents \cup {None}
               /\ binding'[lb] # None => EnvOf[binding'[lb]] = ProviderEnv[lb]
    <2>1. binding'[lb] = IF binding[lb] \in DOMAIN to THEN to[binding[lb]] ELSE binding[lb]
      BY DEF Rebound
    <2>2. /\ binding[lb] \in Agents \cup {None}
          /\ binding[lb] # None => EnvOf[binding[lb]] = ProviderEnv[lb]
      BY DEF IInv, TypeOK, BoundInEnv
    <2>3. CASE binding[lb] \in DOMAIN to
      BY <2>1, <2>2, <2>3, SchedulerAssumption
    <2>4. CASE binding[lb] \notin DOMAIN to
      BY <2>1, <2>2, <2>4
    <2> QED BY <2>3, <2>4
  <1>2. binding' \in [LoadBalancers -> Agents \cup {None}]
    BY <1>1 DEF Rebound
  <1> QED BY <1>1, <1>2 DEF IInv, TypeOK, BoundInEnv, agentVars

(* What Rebound does to two load balancers, whatever the successors are. *)
LEMMA ReboundTogether ==
  ASSUME NEW to, binding' = Rebound(to), NEW l \in LoadBalancers, NEW m \in LoadBalancers,
         binding[l] = binding[m]
  PROVE  binding'[l] = binding'[m]
  BY DEF Rebound

(* The dead agents of a query are agents of the environment that are not active. *)
LEMMA DeadIs ==
  ASSUME NEW env, NEW g, NEW d \in DeadInEnv(env, g)
  PROVE  d \in Agents /\ EnvOf[d] = env /\ d \notin Active
  BY InEnv DEF DeadInEnv, Active

LEMMA ScrubIInv == ASSUME IInv, NEW env, NEW g, Scrub(env, g) PROVE IInv'
  <1>1. PICK to \in [DeadInEnv(env, g) -> Agents] :
           /\ \A d \in DOMAIN to : to[d] \in Successors(d, env, g)
           /\ binding' = Rebound(to)
    BY DEF Scrub
  <1>2. \A d \in DOMAIN to : d \in Agents /\ to[d] \in Agents /\ EnvOf[to[d]] = EnvOf[d]
    BY <1>1, SuccessorIs, DeadIs
  <1>3. UNCHANGED agentVars
    BY DEF Scrub
  <1> QED BY <1>1, <1>2, <1>3, ReboundInEnv

LEMMA FailoverIInv ==
  ASSUME IInv, NEW lb \in LoadBalancers, NEW a \in Agents, Failover(lb, a) PROVE IInv'
  <1>1. binding[lb] \in Agents /\ EnvOf[binding[lb]] = ProviderEnv[lb]
    BY SchedulerAssumption DEF Failover, IInv, BoundInEnv
  <1>2. EnvOf[a] = ProviderEnv[lb]
    BY InEnv DEF Failover, ActiveInEnv
  <1>3. binding' = Rebound([d \in {binding[lb]} |-> a]) /\ UNCHANGED agentVars
    BY DEF Failover
  <1> DEFINE to == [d \in {binding[lb]} |-> a]
  <1>4. \A d \in DOMAIN to : d \in Agents /\ to[d] \in Agents /\ EnvOf[to[d]] = EnvOf[d]
    BY <1>1, <1>2
  <1> HIDE DEF to
  <1> QED BY <1>3, <1>4, ReboundInEnv DEF to

LEMMA PlaceIInv ==
  ASSUME IInv, NEW lb \in LoadBalancers, NEW a \in Agents, Place(lb, a) PROVE IInv'
  <1>1. EnvOf[a] = ProviderEnv[lb]
    BY ChoicesAreCandidates, InEnv DEF Place, ActiveInEnv
  <1> QED BY <1>1 DEF IInv, TypeOK, BoundInEnv, Place, agentVars

LEMMA AgentStepIInv == ASSUME IInv, AgentStep PROVE IInv'
  <1>1. ASSUME NEW a \in Agents, Expire(a) PROVE IInv'
    BY <1>1 DEF Expire, IInv, TypeOK, BoundInEnv
  <1>2. ASSUME NEW a \in Agents, NEW s \in Scores, ReportState(a, s) PROVE IInv'
    BY <1>2 DEF ReportState, IInv, TypeOK, BoundInEnv
  <1>3. ASSUME NEW a \in Operated, NEW up \in BOOLEAN, SetAgentAdminState(up, a) PROVE IInv'
    BY <1>3, SchedulerAssumption DEF SetAgentAdminState, IInv, TypeOK, BoundInEnv
  <1> QED BY <1>1, <1>2, <1>3 DEF AgentStep

LEMMA InitIInv == Init => IInv
  BY DEF Init, IInv, TypeOK, BoundInEnv

LEMMA NextIInv == IInv /\ [Next]_vars => IInv'
  <1> SUFFICES ASSUME IInv, [Next]_vars PROVE IInv'
    OBVIOUS
  <1>1. ASSUME NEW lb \in LoadBalancers, NEW a \in Agents, Schedule(lb, a) PROVE IInv'
    <2>1. CASE KeepHost(lb, a)
      BY <2>1 DEF KeepHost, vars, IInv, TypeOK, BoundInEnv
    <2> QED BY <1>1, <2>1, FailoverIInv, PlaceIInv DEF Schedule
  <1>2. ASSUME NEW lb \in LoadBalancers, Refuse(lb) PROVE IInv'
    BY <1>2 DEF Refuse, vars, IInv, TypeOK, BoundInEnv
  <1>3. ASSUME NEW lb \in LoadBalancers, DeleteRow(lb) PROVE IInv'
    BY <1>3 DEF DeleteRow, agentVars, IInv, TypeOK, BoundInEnv
  <1>4. ASSUME NEW env \in Envs, NEW g \in GroupNumbers \cup {NoGroup},
               ScrubDeadAgents(env, g) \/ ListLoadbalancers(env, g)
        PROVE  IInv'
    BY <1>4, ScrubIInv DEF ScrubDeadAgents, ListLoadbalancers
  <1>5. CASE UNCHANGED vars
    BY <1>5 DEF vars, IInv, TypeOK, BoundInEnv
  <1> QED BY <1>1, <1>2, <1>3, <1>4, <1>5, AgentStepIInv DEF Next, Request

(* The binding table only ever holds agents. *)
THEOREM TypeCorrect == Spec => []TypeOK
  <1>1. IInv => TypeOK
    BY DEF IInv
  <1> QED BY <1>1, InitIInv, NextIInv, PTL DEF Spec

(* However bindings move, a load balancer stays with agents of its         *)
(* driver's environment.                                                   *)
THEOREM EnvKept == Spec => []BoundInEnv
  <1>1. IInv => BoundInEnv
    BY DEF IInv
  <1> QED BY <1>1, InitIInv, NextIInv, PTL DEF Spec

(* No operation takes a load balancer from an active agent. *)
LEMMA StepMovesToActive ==
  ASSUME IInv, [Next]_vars, NEW lb \in LoadBalancers,
         binding[lb] # None, binding'[lb] \notin {binding[lb], None}
  PROVE  binding[lb] \notin Active /\ binding'[lb] \in Active
  <1>1. ASSUME NEW k \in LoadBalancers, NEW a \in Agents, Schedule(k, a)
        PROVE  binding[lb] \notin Active /\ binding'[lb] \in Active
    <2>1. CASE KeepHost(k, a)
      BY <2>1 DEF KeepHost, vars
    <2>2. CASE Failover(k, a)
      BY <2>2 DEF Failover, Rebound, ActiveInEnv
    <2>3. CASE Place(k, a)
      BY <2>3 DEF Place, IInv, TypeOK
    <2> QED BY <1>1, <2>1, <2>2, <2>3 DEF Schedule
  <1>2. ASSUME NEW env, NEW g, Scrub(env, g)
        PROVE  binding[lb] \notin Active /\ binding'[lb] \in Active
    <2>1. PICK to \in [DeadInEnv(env, g) -> Agents] :
             /\ \A d \in DOMAIN to : to[d] \in Successors(d, env, g)
             /\ binding' = Rebound(to)
      BY <1>2 DEF Scrub
    <2>2. binding[lb] \in DeadInEnv(env, g) /\ binding'[lb] = to[binding[lb]]
      BY <2>1 DEF Rebound
    <2>3. binding'[lb] \in Successors(binding[lb], env, g)
      BY <2>1, <2>2
    <2> QED BY <2>2, <2>3, SuccessorIs, DeadIs
  <1>3. CASE \E k \in LoadBalancers : Refuse(k)
    BY <1>3 DEF Refuse, vars
  <1>4. CASE \E k \in LoadBalancers : DeleteRow(k)
    BY <1>4 DEF DeleteRow, IInv, TypeOK
  <1>5. CASE AgentStep
    BY <1>5 DEF AgentStep, Expire, ReportState, SetAgentAdminState
  <1>6. CASE UNCHANGED vars
    BY <1>6 DEF vars
  <1> QED BY <1>1, <1>2, <1>3, <1>4, <1>5, <1>6
          DEF Next, Request, ScrubDeadAgents, ListLoadbalancers

(* rebind_loadbalancers never takes work from a healthy agent. *)
THEOREM MovesAreFailovers == Spec => MovesOnlyToActive
  <1>1. IInv /\ [Next]_vars =>
          [\A lb \in LoadBalancers :
             binding[lb] # None /\ binding'[lb] \notin {binding[lb], None} =>
               binding[lb] \notin Active /\ binding'[lb] \in Active]_vars
    BY StepMovesToActive
  <1> QED BY <1>1, InitIInv, NextIInv, PTL DEF Spec, MovesOnlyToActive

(* No operation splits two load balancers that share an agent. *)
LEMMA StepTogether ==
  ASSUME IInv, [Next]_vars, NEW l \in LoadBalancers, NEW m \in LoadBalancers,
         binding[l] = binding[m], binding[l] # None
  PROVE  None \in {binding'[l], binding'[m]} \/ binding'[l] = binding'[m]
  <1>1. ASSUME NEW k \in LoadBalancers, NEW a \in Agents, Schedule(k, a)
        PROVE  binding'[l] = binding'[m]
    <2>1. CASE KeepHost(k, a)
      BY <2>1 DEF KeepHost, vars
    <2>2. CASE Failover(k, a)
      BY <2>2, ReboundTogether DEF Failover
    <2>3. CASE Place(k, a)
      BY <2>3 DEF Place, IInv, TypeOK
    <2> QED BY <1>1, <2>1, <2>2, <2>3 DEF Schedule
  <1>2. ASSUME NEW env, NEW g, Scrub(env, g) PROVE binding'[l] = binding'[m]
    BY <1>2, ReboundTogether DEF Scrub
  <1>3. CASE \E k \in LoadBalancers : Refuse(k)
    BY <1>3 DEF Refuse, vars
  <1>4. CASE \E k \in LoadBalancers : DeleteRow(k)
    BY <1>4 DEF DeleteRow, IInv, TypeOK
  <1>5. CASE AgentStep
    BY <1>5 DEF AgentStep, Expire, ReportState, SetAgentAdminState
  <1>6. CASE UNCHANGED vars
    BY <1>6 DEF vars
  <1> QED BY <1>1, <1>2, <1>3, <1>4, <1>5, <1>6
          DEF Next, Request, ScrubDeadAgents, ListLoadbalancers

(* The load balancers of an agent fail over together. *)
THEOREM MovesAreTogether == Spec => FailOverTogether
  <1>1. IInv /\ [Next]_vars =>
          [\A l, m \in LoadBalancers :
             binding[l] = binding[m] /\ binding[l] # None =>
               None \in {binding'[l], binding'[m]} \/ binding'[l] = binding'[m]]_vars
    BY StepTogether
  <1> QED BY <1>1, InitIInv, NextIInv, PTL DEF Spec, FailOverTogether
--------------------------------------------------------------------------------
(* Only a request gives a load balancer without an agent one: a rebinding  *)
(* moves the bindings of agents, and None is not an agent.                 *)
LEMMA OnlyPlaceBinds ==
  ASSUME IInv, [Next]_vars, NEW lb \in LoadBalancers,
         binding[lb] = None, binding'[lb] # None
  PROVE  \E a \in Agents : Place(lb, a)
  <1>1. ASSUME NEW k \in LoadBalancers, NEW a \in Agents, Schedule(k, a)
        PROVE  Place(lb, a)
    <2>1. CASE KeepHost(k, a)
      BY <2>1 DEF KeepHost, vars
    <2>2. CASE Failover(k, a)
      BY <2>2, SchedulerAssumption DEF Failover, Rebound
    <2>3. CASE Place(k, a)
      BY <2>3 DEF Place, IInv, TypeOK
    <2> QED BY <1>1, <2>1, <2>2, <2>3 DEF Schedule
  <1>2. ASSUME NEW env, NEW g, Scrub(env, g) PROVE FALSE
    BY <1>2, DeadIs, SchedulerAssumption DEF Scrub, Rebound
  <1>3. CASE \E k \in LoadBalancers : Refuse(k)
    BY <1>3 DEF Refuse, vars
  <1>4. CASE \E k \in LoadBalancers : DeleteRow(k)
    BY <1>4 DEF DeleteRow, IInv, TypeOK
  <1>5. CASE AgentStep
    BY <1>5 DEF AgentStep, Expire, ReportState, SetAgentAdminState
  <1>6. CASE UNCHANGED vars
    BY <1>6 DEF vars
  <1> QED BY <1>1, <1>2, <1>3, <1>4, <1>5, <1>6
          DEF Next, Request, ScrubDeadAgents, ListLoadbalancers

(* What schedule() chooses has room, and so has all of its group unless it *)
(* serves the tenant already.                                              *)
LEMMA ChosenHasRoom ==
  ASSUME NEW cand, NEW s, NEW g, NEW hosting, NEW a \in Choices(cand, s, g, hosting)
  PROVE  /\ a \in cand /\ s[a] < Full
         /\ a \in hosting \/ \A b \in cand : g[b] = g[a] => s[b] < Full
  <1>1. CASE a \in Affine(cand, s, hosting)
    BY <1>1 DEF Affine
  <1>2. CASE a \in LeastLoaded(cand, s, g)
    BY <1>2 DEF LeastLoaded, Members
  <1> QED BY <1>1, <1>2 DEF Choices

(* A load balancer that had no agent is given an active one with room.     *)
THEOREM PlacesHaveRoom == Spec => NewHomeHasRoom
  <1>1. IInv /\ [Next]_vars =>
          [\A lb \in LoadBalancers :
             binding[lb] = None /\ binding'[lb] # None =>
               /\ binding'[lb] \in Active
               /\ score[binding'[lb]] < Full
               /\ \/ binding'[lb] \in HostingTenant(lb)
                  \/ \A a \in ActiveInEnv(ProviderEnv[lb], NoGroup) :
                       GroupOrDefault[a] = GroupOrDefault[binding'[lb]] => score[a] < Full]_vars
    <2> SUFFICES ASSUME IInv, [Next]_vars, NEW lb \in LoadBalancers,
                        binding[lb] = None, binding'[lb] # None
                 PROVE  /\ binding'[lb] \in Active
                        /\ score[binding'[lb]] < Full
                        /\ \/ binding'[lb] \in HostingTenant(lb)
                           \/ \A a \in ActiveInEnv(ProviderEnv[lb], NoGroup) :
                                GroupOrDefault[a] = GroupOrDefault[binding'[lb]] => score[a] < Full
      OBVIOUS
    <2>1. PICK a \in Agents : Place(lb, a)
      BY OnlyPlaceBinds
    <2>2. binding'[lb] = a
      BY <2>1 DEF Place, IInv, TypeOK
    <2>3. a \in Choices(ActiveInEnv(ProviderEnv[lb], NoGroup), score, GroupOrDefault,
                        HostingTenant(lb))
      BY <2>1 DEF Place
    <2> QED BY <2>2, <2>3, ChosenHasRoom DEF ActiveInEnv
  <1> QED BY <1>1, InitIInv, NextIInv, PTL DEF Spec, NewHomeHasRoom

(* Once no agent reports the number 0, which the query for agents takes for *)
(* "any group", a query that names a group finds agents of that group only. *)
LEMMA NamedGroup ==
  ASSUME NEW env, NEW g \in Nat \ {0}, NEW a \in AgentsInEnv(env, g)
  PROVE  a \in Agents /\ GroupOrDefault[a] = g
  BY SchedulerAssumption DEF AgentsInEnv, GroupOrDefault

LEMMA FailoverInGroup ==
  ASSUME 0 \notin GroupNumbers, NEW lb \in LoadBalancers, NEW a \in Agents, Failover(lb, a)
  PROVE  GroupOrDefault[binding'[lb]] = GroupOrDefault[binding[lb]]
  <1> DEFINE g == GroupOrDefault[binding[lb]]
  <1>1. binding[lb] \in Agents /\ a \in ActiveInEnv(ProviderEnv[lb], g) /\ binding'[lb] = a
    BY DEF Failover, Rebound
  <1>2. g \in Nat \ {0}
    BY <1>1, SchedulerAssumption DEF GroupOrDefault, GroupNumbers
  <1>3. a \in AgentsInEnv(ProviderEnv[lb], g)
    BY <1>1 DEF ActiveInEnv
  <1> HIDE DEF g
  <1>4. GroupOrDefault[a] = g
    BY <1>2, <1>3, NamedGroup
  <1> QED BY <1>1, <1>4 DEF g

LEMMA ListingInGroup ==
  ASSUME 0 \notin GroupNumbers, NEW env, NEW g \in GroupNumbers, ListLoadbalancers(env, g),
         NEW lb \in LoadBalancers
  PROVE  GroupOrDefault[binding'[lb]] = GroupOrDefault[binding[lb]]
  <1>1. PICK to \in [DeadInEnv(env, g) -> Agents] :
          /\ \A d \in DOMAIN to : to[d] \in Successors(d, env, g)
          /\ binding' = Rebound(to)
    BY DEF ListLoadbalancers, Scrub
  <1>2. g \in Nat \ {0}
    BY SchedulerAssumption
  <1>3. CASE binding[lb] \in DOMAIN to
    <2>1. binding'[lb] \in Successors(binding[lb], env, g)
      BY <1>1, <1>3 DEF Rebound
    <2>2. binding[lb] \in AgentsInEnv(env, g)
      BY <1>3 DEF DeadInEnv
    <2>3. binding'[lb] \in AgentsInEnv(env, g)
      BY <2>1, <2>2 DEF Successors, ActiveInEnv
    <2> QED BY <1>2, <2>2, <2>3, NamedGroup
  <1>4. CASE binding[lb] \notin DOMAIN to
    BY <1>1, <1>4 DEF Rebound
  <1> QED BY <1>3, <1>4

(* A request or a listing that names a group takes a load balancer only to *)
(* an agent that counts as one of the group it leaves, provided that no    *)
(* agent reports the group number 0.                                       *)
THEOREM StaysInGroup ==
  ASSUME 0 \notin GroupNumbers
  PROVE  Spec => FailoverStaysInGroup
  <1>1. [\A lb \in LoadBalancers :
           /\ {binding[lb], binding'[lb]} \subseteq Agents
           /\ \/ \E a \in Agents : Failover(lb, a)
              \/ \E env \in Envs, g \in GroupNumbers : ListLoadbalancers(env, g)
           => GroupOrDefault[binding'[lb]] = GroupOrDefault[binding[lb]]]_vars
    BY FailoverInGroup, ListingInGroup
  <1> QED BY <1>1, PTL DEF FailoverStaysInGroup
--------------------------------------------------------------------------------
(* How a dead agent is left: what can be proved of DeadHostIsLeft *)

Load(d) == {lb \in LoadBalancers : binding[lb] = d}

(* An agent that is down gets nothing more, and a listing of an agent of   *)
(* its environment and group that is up leaves it nothing.                 *)
DeadAgentsEmpty ==
  [][\A d \in Agents \ Active :
       /\ Load(d)' \subseteq Load(d)
       /\ \A p \in Active :
            d \notin alive /\ ListLoadbalancers(EnvOf[d], GroupOf[d])
              /\ EnvOf[p] = EnvOf[d] /\ GroupOf[p] = GroupOf[d] => Load(d)' = {}]_vars

LEMMA DownGetsNothing ==
  ASSUME IInv, [Next]_vars, NEW d \in Agents \ Active
  PROVE  Load(d)' \subseteq Load(d)
  <1> SUFFICES ASSUME NEW lb \in LoadBalancers, binding'[lb] = d, binding[lb] # d
               PROVE  FALSE
    BY DEF Load
  <1>1. CASE binding[lb] = None
    <2>1. PICK a \in Agents : Place(lb, a)
      BY <1>1, OnlyPlaceBinds, SchedulerAssumption
    <2>2. binding'[lb] = a
      BY <2>1 DEF Place, IInv, TypeOK
    <2> QED BY <2>1, <2>2, ChosenHasRoom DEF Place, ActiveInEnv
  <1>2. CASE binding[lb] # None
    BY <1>2, StepMovesToActive, SchedulerAssumption
  <1> QED BY <1>1, <1>2

(* Whoever an answered query finds takes over.                             *)
LEMMA ScrubTakesOver ==
  ASSUME ~QueriesMayFail, NEW env, NEW g, Scrub(env, g), ActiveInEnv(env, g) # {},
         NEW lb \in LoadBalancers
  PROVE  binding'[lb] \notin DeadInEnv(env, g)
  <1>1. PICK to \in [DeadInEnv(env, g) -> Agents] :
          /\ \A d \in DOMAIN to : to[d] \in Successors(d, env, g)
          /\ binding' = Rebound(to)
    BY DEF Scrub
  <1>2. CASE binding[lb] \in DOMAIN to
    <2>1. binding'[lb] = to[binding[lb]] /\ to[binding[lb]] \in Active
      BY <1>1, <1>2 DEF Rebound, Successors, ActiveInEnv
    <2> QED BY <2>1, DeadIs
  <1>3. CASE binding[lb] \notin DOMAIN to
    BY <1>1, <1>3 DEF Rebound
  <1> QED BY <1>2, <1>3

(* Every listing that is answered empties the dead agents beside the one   *)
(* that asks, and nothing fills them again while they are down.            *)
THEOREM DeadAreLeft ==
  ASSUME ~QueriesMayFail
  PROVE  Spec => DeadAgentsEmpty
  <1>1. IInv /\ [Next]_vars =>
          [\A d \in Agents \ Active :
             /\ Load(d)' \subseteq Load(d)
             /\ \A p \in Active :
                  d \notin alive /\ ListLoadbalancers(EnvOf[d], GroupOf[d])
                    /\ EnvOf[p] = EnvOf[d] /\ GroupOf[p] = GroupOf[d] => Load(d)' = {}]_vars
    <2> SUFFICES ASSUME IInv, [Next]_vars, NEW d \in Agents \ Active
                 PROVE  /\ Load(d)' \subseteq Load(d)
                        /\ \A p \in Active :
                             d \notin alive /\ ListLoadbalancers(EnvOf[d], GroupOf[d])
                               /\ EnvOf[p] = EnvOf[d] /\ GroupOf[p] = GroupOf[d]
                               => Load(d)' = {}
      OBVIOUS
    <2>1. ASSUME NEW p \in Active, d \notin alive, ListLoadbalancers(EnvOf[d], GroupOf[d]),
                 EnvOf[p] = EnvOf[d], GroupOf[p] = GroupOf[d]
          PROVE  Load(d)' = {}
      <3>1. p \in ActiveInEnv(EnvOf[d], GroupOf[d])
        BY <2>1 DEF ActiveInEnv, AgentsInEnv, Active, IInv, TypeOK
      <3>2. d \in DeadInEnv(EnvOf[d], GroupOf[d])
        BY <2>1 DEF DeadInEnv, AgentsInEnv, Active
      <3> QED BY <2>1, <3>1, <3>2, ScrubTakesOver DEF ListLoadbalancers, Load
    <2> QED BY <2>1, DownGetsNothing
  <1> QED BY <1>1, InitIInv, NextIInv, PTL DEF Spec, DeadAgentsEmpty
================================================================================
