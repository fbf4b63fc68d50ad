---------------------------- MODULE AgentScheduler ----------------------------
(***************************************************************************)
(* TenantScheduler and the RPCs that reach it: which agent hosts which     *)
(* load balancer, while agents die, come back, are set administratively    *)
(* down and report new capacity scores.                                    *)
(*                                                                         *)
(* Every public method runs in one database transaction, so each is one    *)
(* action.  The order in which the database returns agents is not defined, *)
(* so "the first agent of the list" is any agent of it.                    *)
(*                                                                         *)
(* The agents table, the binding table and the agent health test belong to *)
(* neutron and neutron-lbaas; they are modelled from how this code uses    *)
(* them.                                                                   *)
(***************************************************************************)
EXTENDS AgentChoice

CONSTANTS
  Agents,          \* one agent per host
  LoadBalancers,
  Envs,            \* environment prefixes
  EnvOf,           \* environment_prefix in an agent's configurations, or NoEnv
  ProviderEnv,     \* env of the driver instance that serves a load balancer
  TenantOf,        \* tenant_id of a load balancer
  GroupOf,         \* environment_group_number of an agent, or NoGroup
  Scores,          \* values of environment_capacity_score
  NoEnv, NoGroup, None,
  AdminDownIsEligible, \* does is_eligible_agent(active=True) accept an agent
                       \* that beats but is administratively down?
  QueriesMayFail,      \* may the query for agents raise?
  Operated,            \* bound: the agents whose admin state the operator sets
  MayFill              \* bound: the agents that may report a full score

GroupNumbers == {GroupOf[a] : a \in Agents} \ {NoGroup}

ASSUME SchedulerAssumption ==
  /\ EnvOf \in [Agents -> Envs \cup {NoEnv}] /\ NoEnv \notin Envs
  /\ ProviderEnv \in [LoadBalancers -> Envs]
  /\ DOMAIN TenantOf = LoadBalancers
  /\ DOMAIN GroupOf = Agents
  /\ GroupNumbers \subseteq Nat
  /\ NoGroup \notin Nat
  /\ Scores \subseteq Nat
  /\ None \notin Agents
  /\ AdminDownIsEligible \in BOOLEAN /\ QueriesMayFail \in BOOLEAN
  /\ Operated \subseteq Agents
  /\ MayFill \subseteq Agents

VARIABLES
  alive,      \* agents whose heartbeat is recent
  adminUp,    \* agents with admin_state_up
  score,      \* capacity score last reported by each agent
  binding     \* LoadbalancerAgentBinding: load balancer -> agent or None

vars == <<alive, adminUp, score, binding>>
agentVars == <<alive, adminUp, score>>

TypeOK ==
  /\ alive \in SUBSET Agents
  /\ adminUp \in SUBSET Agents
  /\ score \in [Agents -> Scores]
  /\ binding \in [LoadBalancers -> Agents \cup {None}]

Init ==
  /\ alive = Agents
  /\ adminUp = Agents
  /\ score \in [Agents -> {s \in Scores : \A t \in Scores : s <= t}]
  /\ binding = [lb \in LoadBalancers |-> None]

--------------------------------------------------------------------------------
(* Queries *)

(* get_lbaas_agents(active=True), alive for get_agent_hosting_loadbalancer. *)
Active == alive \cap adminUp

AgentsInEnvAnyEnv(env, group) ==       \* mutant: environment_prefix not compared
  {a \in Agents : group \notin {NoGroup, 0} => GroupOf[a] = group}

(* get_agents_in_env before the activity filter.  "if group:" makes the    *)
(* group number 0 mean no group at all, and an agent that reports no group *)
(* number belongs to no numbered group.                                    *)
AgentsInEnv(env, group) ==
  {a \in Agents : EnvOf[a] = env /\ (group \notin {NoGroup, 0} => GroupOf[a] = group)}

ActiveInEnv(env, group) == AgentsInEnv(env, group) \cap Active

(* schedule and get_lbaas_agent_hosting_loadbalancer take a missing group  *)
(* number as 1.                                                            *)
GroupOrDefault == [a \in Agents |-> IF GroupOf[a] = NoGroup THEN 1 ELSE GroupOf[a]]

DeadInEnvBothDown(env, group) ==       \* mutant: "and" for "or"
  {a \in AgentsInEnv(env, group) :
     /\ a \notin IF AdminDownIsEligible THEN alive ELSE Active
     /\ a \notin adminUp /\ a \notin alive}

(* get_dead_agents_in_env. *)
DeadInEnv(env, group) ==
  {a \in AgentsInEnv(env, group) :
     /\ a \notin IF AdminDownIsEligible THEN alive ELSE Active
     /\ a \notin adminUp \/ a \notin alive}

(* Agents that host a load balancer of lb's tenant. *)
HostingTenant(lb) ==
  {binding[m] : m \in {k \in LoadBalancers : TenantOf[k] = TenantOf[lb]}} \ {None}

(* rebind_loadbalancers: every binding of an agent goes to its successor;  *)
(* to[a] = a when the agent keeps them.                                    *)
Rebound(to) ==
  [lb \in LoadBalancers |->
     IF binding[lb] \in DOMAIN to THEN to[binding[lb]] ELSE binding[lb]]

SuccessorsAlsoDown(d, env, group) ==   \* mutant: active=True not passed
  AgentsInEnv(env, group)

(* Where rebind_loadbalancers may send the bindings of agent d. *)
Successors(d, env, group) ==
  LET active == ActiveInEnv(env, group)
  IN  active \cup IF active = {} \/ QueriesMayFail THEN {d} ELSE {}

--------------------------------------------------------------------------------
(* Scheduling *)

(* The bound agent is kept: it is active, or nobody can take over. *)
KeepHost(lb, a) ==
  /\ binding[lb] = a
  /\ a \in Agents
  /\ a \in Active \/ a \in Successors(a, ProviderEnv[lb], GroupOrDefault[a])
  /\ UNCHANGED vars

FailoverOne(lb, a) ==                  \* mutant: only the asked binding moves
  /\ binding[lb] \in Agents \ Active
  /\ a \in ActiveInEnv(ProviderEnv[lb], GroupOrDefault[binding[lb]])
  /\ binding' = [binding EXCEPT ![lb] = a]
  /\ UNCHANGED agentVars

FailoverAnyGroup(lb, a) ==             \* mutant: the group number not passed
  /\ binding[lb] \in Agents \ Active
  /\ a \in ActiveInEnv(ProviderEnv[lb], NoGroup)
  /\ binding' = Rebound([d \in {binding[lb]} |-> a])
  /\ UNCHANGED agentVars

(* The bound agent is down: all its bindings move, and the new one answers. *)
Failover(lb, a) ==
  /\ binding[lb] \in Agents \ Active
  /\ a \in ActiveInEnv(ProviderEnv[lb], GroupOrDefault[binding[lb]])
  /\ binding' = Rebound([d \in {binding[lb]} |-> a])
  /\ UNCHANGED agentVars

(* No binding yet: the loops of ScheduleLoop make one of the Choices. *)
Place(lb, a) ==
  /\ binding[lb] = None
  /\ a \in Choices(ActiveInEnv(ProviderEnv[lb], NoGroup), score, GroupOrDefault,
                   HostingTenant(lb))
  /\ binding' = [binding EXCEPT ![lb] = a]
  /\ UNCHANGED agentVars

(* schedule() returns agent a for lb. *)
Schedule(lb, a) == KeepHost(lb, a) \/ Failover(lb, a) \/ Place(lb, a)

(* schedule() raises NoActiveLbaasAgent or NoEligibleLbaasAgent. *)
Refuse(lb) ==
  /\ binding[lb] = None
  /\ \/ Choices(ActiveInEnv(ProviderEnv[lb], NoGroup), score, GroupOrDefault,
                HostingTenant(lb)) = {}
     \/ QueriesMayFail
  /\ UNCHANGED vars

(* scrub_dead_agents of the scheduler: each dead agent of the environment  *)
(* and group hands its bindings to an active one.                          *)
Scrub(env, group) ==
  /\ \E to \in [DeadInEnv(env, group) -> Agents] :
       /\ \A d \in DOMAIN to : to[d] \in Successors(d, env, group)
       /\ binding' = Rebound(to)
  /\ UNCHANGED agentVars

(* The RPC scrub_dead_agents takes a group and does not pass it on. *)
ScrubDeadAgents(env, group) == Scrub(env, NoGroup)

(* get_all_, get_active_, get_pending_ and get_errored_loadbalancers scrub *)
(* first and then read; what they return is Hosted of the new bindings.    *)
ListLoadbalancers(env, group) == Scrub(env, group)

Hosted(env, group, host) ==
  {lb \in LoadBalancers : /\ binding[lb] \in AgentsInEnv(env, group)
                          /\ host # None => binding[lb] = host}

(* set_agent_admin_state; an unknown host changes nothing. *)
SetAgentAdminState(up, host) ==
  /\ adminUp' = IF up THEN adminUp \cup {host} ELSE adminUp \ {host}
  /\ UNCHANGED <<alive, score, binding>>

DeleteRowKey(lb) ==                    \* mutant: the load balancer forgotten altogether
  /\ binding' = [m \in LoadBalancers \ {lb} |-> binding[m]]
  /\ UNCHANGED agentVars

(* The binding row goes with the load balancer row (delete_loadbalancer). *)
DeleteRow(lb) ==
  /\ binding' = [binding EXCEPT ![lb] = None]
  /\ UNCHANGED agentVars

--------------------------------------------------------------------------------
(* The agents' state reports *)

Expire(a) ==
  /\ alive' = alive \ {a}
  /\ UNCHANGED <<adminUp, score, binding>>

ReportState(a, s) ==
  /\ s < Full \/ a \in MayFill
  /\ alive' = alive \cup {a}
  /\ score' = [score EXCEPT ![a] = s]
  /\ UNCHANGED <<adminUp, binding>>

AgentStep ==
  \/ \E a \in Agents : Expire(a)
  \/ \E a \in Agents, s \in Scores : ReportState(a, s)
  \/ \E a \in Operated, up \in BOOLEAN : SetAgentAdminState(up, a)

Request(lb) == (\E a \in Agents : Schedule(lb, a)) \/ Refuse(lb)

Next ==
  \/ \E lb \in LoadBalancers : Request(lb)
  \/ \E lb \in LoadBalancers : DeleteRow(lb)
  \/ \E env \in Envs, g \in GroupNumbers \cup {NoGroup} :
       ScrubDeadAgents(env, g) \/ ListLoadbalancers(env, g)
  \/ AgentStep

(* A running agent asks for its load balancers periodically, naming its    *)
(* own environment and group.  Fairness: it keeps asking, and the query    *)
(* for agents does not fail every time.                                    *)
Poll(a) ==
  /\ a \in Active
  /\ EnvOf[a] \in Envs
  /\ ListLoadbalancers(EnvOf[a], GroupOf[a])
  /\ \A lb \in LoadBalancers : binding'[lb] \notin DeadInEnv(EnvOf[a], GroupOf[a])

Spec == Init /\ [][Next]_vars
FairSpec == Spec /\ \A a \in Agents : WF_vars(Poll(a))

--------------------------------------------------------------------------------
(***************************************************************************)
(* Properties                                                              *)
(***************************************************************************)

(* However often agents die and bindings move, by a request, by a scrub or *)
(* by an agent's listing, a load balancer is only ever hosted by an agent  *)
(* of the environment its driver serves.                                   *)
BoundInEnv ==
  \A lb \in LoadBalancers : binding[lb] # None => EnvOf[binding[lb]] = ProviderEnv[lb]

(* A load balancer changes agents only from one that is down to one that   *)
(* is active: rebind_loadbalancers never takes work from a healthy agent.  *)
MovesOnlyToActive ==
  [][\A lb \in LoadBalancers :
       binding[lb] # None /\ binding'[lb] \notin {binding[lb], None} =>
         binding[lb] \notin Active /\ binding'[lb] \in Active]_vars

(* The load balancers of an agent fail over together: two that share an    *)
(* agent are never split between two agents.                               *)
FailOverTogether ==
  [][\A l, m \in LoadBalancers :
       binding[l] = binding[m] /\ binding[l] # None =>
         None \in {binding'[l], binding'[m]} \/ binding'[l] = binding'[m]]_vars

(* A load balancer that had no agent is never given one that is down or    *)
(* full, and a tenant without room on its own agents never opens a group   *)
(* that has a full agent while another group has room.                     *)
NewHomeHasRoom ==
  [][\A lb \in LoadBalancers :
       binding[lb] = None /\ binding'[lb] # None =>
         /\ binding'[lb] \in Active
         /\ score[binding'[lb]] < Full
         /\ \/ binding'[lb] \in HostingTenant(lb)
            \/ \A a \in ActiveInEnv(ProviderEnv[lb], NoGroup) :
                 GroupOrDefault[a] = GroupOrDefault[binding'[lb]] => score[a] < Full]_vars

(* "Find another agent in the same environment and environment group if    *)
(* possible" (get_lbaas_agent_hosting_loadbalancer): a request, or a        *)
(* listing that names a group, that takes a load balancer off a down agent *)
(* leaves it with an agent that counts as one of the same group.           *)
FailoverStaysInGroup ==
  [][\A lb \in LoadBalancers :
       /\ {binding[lb], binding'[lb]} \subseteq Agents
       /\ \/ \E a \in Agents : Failover(lb, a)
          \/ \E env \in Envs, g \in GroupNumbers : ListLoadbalancers(env, g)
       => GroupOrDefault[binding'[lb]] = GroupOrDefault[binding[lb]]]_vars

(* A load balancer does not stay for ever on an agent whose heartbeat has  *)
(* stopped while an agent of its environment and group stays up: that      *)
(* agent's listings take the binding over.                                 *)
DeadHostIsLeft ==
  \A lb \in LoadBalancers, p, d \in Agents :
    EnvOf[p] = EnvOf[d] /\ GroupOf[p] = GroupOf[d] =>
      ~ <>[](p \in Active /\ d \notin alive /\ binding[lb] = d)
================================================================================
