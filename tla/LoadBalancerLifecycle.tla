------------------------- MODULE LoadBalancerLifecycle -------------------------
(***************************************************************************)
(* A load balancer from the tenant's request to the agent's confirmation:  *)
(* LoadBalancerManager (driver_v2.py) schedules and casts, the agents work *)
(* and answer, and LBaaSv2PluginCallbacksRPC (plugin_rpc.py) records the   *)
(* answer.  Bindings move as AgentScheduler says.                          *)
(*                                                                         *)
(* A driver call is not one transaction: the agent is chosen in one, and   *)
(* the message is sent after the service definition has been built, so the *)
(* agent may have lost the load balancer by then.  The definition is built *)
(* from self.loadbalancer of the one manager object that all requests of a *)
(* driver instance share, read again after schedule() has waited, so it    *)
(* may describe another request's load balancer.  Messages arrive in any   *)
(* order or not at all.                                                    *)
(*                                                                         *)
(* Only the load balancers in LoadBalancers are followed from request to   *)
(* confirmation; of the others that a driver instance serves the module    *)
(* has what they do to these: they replace self.loadbalancer, and cast     *)
(* what they find in it to agents of their own.                            *)
(*                                                                         *)
(* External, from how this code uses them: the neutron-lbaas API (which    *)
(* admits an update or a delete only from ACTIVE or ERROR, and marks ERROR *)
(* what the driver raised on), the message bus, and the agents, which go   *)
(* by the service definition of a cast and not by its name.                *)
(***************************************************************************)
EXTENDS AgentScheduler, FiniteSets

CONSTANTS
  Servers,                         \* processes, each with a driver per environment
  MaxCalls, MaxTasks, MaxReplies   \* bounds on what is in flight at once

ASSUME LCAssumption == {"start", "noAgent"} \cap Agents = {}

VARIABLES
  prov,       \* provisioning_status, "ABSENT" before and "GONE" after the row
  manager,    \* self.loadbalancer of each driver instance: what it was set
              \* to by the last request, [op, lb], or None for a load balancer
              \* that is not followed
  calls,      \* driver calls in progress: [op, lb, server, at, fell]
  tasks,      \* casts on their way to agents, and load balancers an agent
              \* has listed as pending ("sync"): [op, lb, host]
  replies,    \* confirmations on their way to the driver: [lb, says]
  asked,      \* load balancers the tenant has ever asked to delete
  cutShort    \* load balancers with a driver call lost in a server restart

lcVars == <<vars, prov, manager, calls, tasks, replies, asked, cutShort>>

Pending == {"PENDING_CREATE", "PENDING_UPDATE", "PENDING_DELETE"}
Present == Pending \cup {"ACTIVE", "ERROR"}

(* Where a driver call is: before schedule(), after it refused, or between *)
(* schedule(), which returned an agent, and the cast to that agent's host. *)
Stages == {"start", "noAgent"} \cup Agents

(* The object that the API passes has the status its operation gave it, so *)
(* the definition made from it is one to create, to update or to delete.   *)
Objects == [op : {"create", "update", "delete"}, lb : LoadBalancers]

(* fell records, for the properties only, that the agent has been inactive *)
(* at some time since schedule() returned it.                              *)
Calls == [op : {"create", "update", "delete"}, lb : LoadBalancers, server : Servers,
          at : Stages, fell : BOOLEAN]
Tasks == [op : {"create", "update", "delete", "sync"}, lb : LoadBalancers, host : Agents]
Replies == [lb : LoadBalancers, says : {"ACTIVE", "ERROR", "destroyed"}]

LCTypeOK ==
  /\ TypeOK
  /\ prov \in [LoadBalancers -> Present \cup {"ABSENT", "GONE"}]
  /\ manager \in [Servers \X Envs -> Objects \cup {None}]
  /\ calls \in SUBSET Calls
  /\ tasks \in SUBSET Tasks
  /\ replies \in SUBSET Replies
  /\ asked \in SUBSET LoadBalancers
  /\ cutShort \in SUBSET LoadBalancers

LCInit ==
  /\ Init
  /\ prov = [lb \in LoadBalancers |-> "ABSENT"]
  /\ manager = [driver \in Servers \X Envs |-> None]
  /\ calls = {}
  /\ tasks = {}
  /\ replies = {}
  /\ asked = {}
  /\ cutShort = {}

--------------------------------------------------------------------------------
(* The API in front of the driver *)

(* The request reaches the driver of the load balancer's environment on    *)
(* some server; create, update and delete begin by setting                 *)
(* self.loadbalancer.                                                      *)
Ask(op, lb, status) ==
  /\ Cardinality(calls) < MaxCalls
  /\ prov' = [prov EXCEPT ![lb] = status]
  /\ \E s \in Servers :
       /\ manager' = [manager EXCEPT ![<<s, ProviderEnv[lb]>>] = [op |-> op, lb |-> lb]]
       /\ calls' = calls \cup {[op |-> op, lb |-> lb, server |-> s,
                                at |-> "start", fell |-> FALSE]}
  /\ UNCHANGED <<vars, tasks, replies, cutShort>>

ApiCreate(lb) ==
  prov[lb] = "ABSENT" /\ Ask("create", lb, "PENDING_CREATE") /\ UNCHANGED asked

ApiUpdate(lb) ==
  prov[lb] \in {"ACTIVE", "ERROR"} /\ Ask("update", lb, "PENDING_UPDATE") /\ UNCHANGED asked

ApiDelete(lb) ==
  /\ prov[lb] \in {"ACTIVE", "ERROR"}
  /\ Ask("delete", lb, "PENDING_DELETE")
  /\ asked' = asked \cup {lb}

--------------------------------------------------------------------------------
(* The driver's calls *)

(* The call goes on to a stage; schedule() may return an agent that is down. *)
Advance(c, stage) ==
  calls' = (calls \ {c}) \cup {[c EXCEPT !.at = stage, !.fell = stage \in Agents \ Active]}

End(c) == calls' = calls \ {c}

DriverScheduleUnbound(c) ==   \* mutant: the new agent returned, the binding not moved
  /\ c.at = "start"
  /\ prov[c.lb] \in Present
  /\ \E a \in Agents :
       \/ KeepHost(c.lb, a) /\ Advance(c, a)
       \/ Place(c.lb, a) /\ Advance(c, a)
       \/ /\ binding[c.lb] \in Agents \ Active
          /\ a \in ActiveInEnv(ProviderEnv[c.lb], GroupOrDefault[binding[c.lb]])
          /\ Advance(c, a) /\ UNCHANGED vars
  /\ UNCHANGED <<prov, manager, tasks, replies, asked, cutShort>>

(* _schedule_agent_create_service: schedule() finds an agent. *)
DriverSchedule(c) ==
  /\ c.at = "start"
  /\ prov[c.lb] \in Present
  /\ \E a \in Agents : Schedule(c.lb, a) /\ Advance(c, a)
  /\ UNCHANGED <<prov, manager, tasks, replies, asked, cutShort>>

(* schedule() raises NoActiveLbaasAgent or NoEligibleLbaasAgent. *)
DriverNoAgent(c) ==
  /\ c.at = "start"
  /\ prov[c.lb] \in Present
  /\ Refuse(c.lb)
  /\ Advance(c, "noAgent")
  /\ UNCHANGED <<prov, manager, tasks, replies, asked, cutShort>>

(* build() of self.loadbalancer as it is by now, and the cast to the agent *)
(* that schedule() returned for the call's own load balancer.              *)
DriverCast(c) ==
  /\ c.at \in Agents
  /\ Cardinality({t \in tasks : t.op # "sync"}) < MaxTasks
  /\ LET object == manager[<<c.server, ProviderEnv[c.lb]>>]
     IN  tasks' = tasks \cup
           IF object = None THEN {} ELSE {[op |-> object.op, lb |-> object.lb, host |-> c.at]}
  /\ End(c)
  /\ UNCHANGED <<vars, prov, manager, replies, asked, cutShort>>

(* A request for a load balancer that is not followed begins. *)
OtherBegins(server, env) ==
  /\ manager' = [manager EXCEPT ![<<server, env>>] = None]
  /\ UNCHANGED <<vars, prov, calls, tasks, replies, asked, cutShort>>

(* One that had begun, and was given agent a, builds its definition from   *)
(* what self.loadbalancer is by now.                                       *)
OtherCasts(server, env, a) ==
  /\ EnvOf[a] = env
  /\ manager[<<server, env>>] # None
  /\ Cardinality({t \in tasks : t.op # "sync"}) < MaxTasks
  /\ LET object == manager[<<server, env>>]
     IN  tasks' = tasks \cup {[op |-> object.op, lb |-> object.lb, host |-> a]}
  /\ UNCHANGED <<vars, prov, manager, calls, replies, asked, cutShort>>

RemoveRowOnly(lb) ==          \* mutant: the binding row is left behind
  IF prov[lb] \in Present
    THEN prov' = [prov EXCEPT ![lb] = "GONE"] /\ UNCHANGED vars
    ELSE UNCHANGED <<vars, prov>>

(* delete_loadbalancer of the database: the row goes, and its binding. *)
RemoveRow(lb) ==
  IF prov[lb] \in Present
    THEN prov' = [prov EXCEPT ![lb] = "GONE"] /\ DeleteRow(lb)
    ELSE UNCHANGED <<vars, prov>>

CreateFailedSilently(c) ==    \* mutant: the status update left out, as in update
  /\ c.op = "create" /\ c.at = "noAgent"
  /\ End(c)
  /\ UNCHANGED <<vars, prov, manager, tasks, replies, asked, cutShort>>

CreateFailedRemoves(c) ==     \* mutant: the error path of delete
  /\ c.op = "create" /\ c.at = "noAgent"
  /\ RemoveRow(c.lb)
  /\ End(c)
  /\ UNCHANGED <<manager, tasks, replies, asked, cutShort>>

(* create without an agent: update_status(ERROR). *)
CreateFailed(c) ==
  /\ c.op = "create" /\ c.at = "noAgent"
  /\ prov' = IF prov[c.lb] \in Present THEN [prov EXCEPT ![c.lb] = "ERROR"] ELSE prov
  /\ End(c)
  /\ UNCHANGED <<vars, manager, tasks, replies, asked, cutShort>>

(* update without an agent: _handle_driver_error does nothing. *)
UpdateFailed(c) ==
  /\ c.op = "update" /\ c.at = "noAgent"
  /\ End(c)
  /\ UNCHANGED <<vars, prov, manager, tasks, replies, asked, cutShort>>

(* delete without an agent: nobody holds it, the row is removed at once. *)
DeleteWithoutAgent(c) ==
  /\ c.op = "delete" /\ c.at = "noAgent"
  /\ RemoveRow(c.lb)
  /\ End(c)
  /\ UNCHANGED <<manager, tasks, replies, asked, cutShort>>

(* Any other exception of the call is raised again: the row is gone, or    *)
(* building the service failed.  The API marks the load balancer ERROR.    *)
DriverRaises(c) ==
  /\ c.at \in Agents \cup {"start"}
  /\ prov' = IF prov[c.lb] \in Present THEN [prov EXCEPT ![c.lb] = "ERROR"] ELSE prov
  /\ End(c)
  /\ UNCHANGED <<vars, manager, tasks, replies, asked, cutShort>>

(* A server stops, and all its calls with it. *)
ServerRestart(server) ==
  LET lost == {c \in calls : c.server = server}
  IN  /\ calls' = calls \ lost
      /\ cutShort' = cutShort \cup {c.lb : c \in lost}
      /\ manager' = [driver \in Servers \X Envs |->
                        IF driver[1] = server THEN None ELSE manager[driver]]
      /\ UNCHANGED <<vars, prov, tasks, replies, asked>>

(* stats schedules too, at any time and outside the status rules; its task *)
(* answers with numbers only and is not kept.                              *)
DriverStats(lb) ==
  /\ prov[lb] \in Present
  /\ Request(lb)
  /\ UNCHANGED <<prov, manager, calls, tasks, replies, asked, cutShort>>

--------------------------------------------------------------------------------
(* The agents *)

ListPendingNotDeletes(a) ==   \* mutant: deletes not reported as pending
  /\ a \in alive
  /\ EnvOf[a] \in Envs
  /\ ListLoadbalancers(EnvOf[a], GroupOf[a])
  /\ tasks' = tasks \cup
       {[op |-> "sync", lb |-> lb, host |-> a] :
          lb \in {m \in LoadBalancers :
                   binding'[m] = a /\ prov[m] \in {"PENDING_CREATE", "PENDING_UPDATE"}}}
  /\ UNCHANGED <<prov, manager, calls, replies, asked, cutShort>>

(* get_pending_loadbalancers(env, group, host): scrub, then the caller's   *)
(* load balancers that are neither ACTIVE nor ERROR.                       *)
ListPending(a) ==
  /\ a \in alive
  /\ EnvOf[a] \in Envs
  /\ ListLoadbalancers(EnvOf[a], GroupOf[a])
  /\ tasks' = tasks \cup
       {[op |-> "sync", lb |-> lb, host |-> a] :
          lb \in {m \in LoadBalancers : binding'[m] = a /\ prov[m] \in Pending}}
  /\ UNCHANGED <<prov, manager, calls, replies, asked, cutShort>>

(* The other listings and the scrub RPC: only the bindings move. *)
OtherListing ==
  /\ \E env \in Envs, g \in GroupNumbers \cup {NoGroup} :
       ListLoadbalancers(env, g) \/ ScrubDeadAgents(env, g)
  /\ UNCHANGED <<prov, manager, calls, tasks, replies, asked, cutShort>>

(* What an agent may answer to a task.  For a listed load balancer it      *)
(* first fetches the service (get_service_by_loadbalancer_id) and goes by  *)
(* the status it finds there.                                              *)
Answers(t) ==
  LET deployed == [lb : {t.lb}, says : {"ACTIVE", "ERROR"}]
      destroyed == {[lb |-> t.lb, says |-> "destroyed"]}
  IN  CASE t.op \in {"create", "update"} -> deployed
        [] t.op = "delete" -> destroyed
        [] t.op = "sync" ->
             CASE prov[t.lb] = "PENDING_DELETE" -> destroyed
               [] prov[t.lb] \in {"PENDING_CREATE", "PENDING_UPDATE"} -> deployed
               [] OTHER -> {}

AgentWorks(t) ==
  /\ t.host \in alive
  /\ Cardinality(replies) < MaxReplies
  /\ IF Answers(t) = {}
       THEN UNCHANGED replies
       ELSE \E r \in Answers(t) : replies' = replies \cup {r}
  /\ tasks' = tasks \ {t}
  /\ UNCHANGED <<vars, prov, manager, calls, asked, cutShort>>

LoseTask(t) ==
  /\ tasks' = tasks \ {t}
  /\ UNCHANGED <<vars, prov, manager, calls, replies, asked, cutShort>>

LoseReply(r) ==
  /\ replies' = replies \ {r}
  /\ UNCHANGED <<vars, prov, manager, calls, tasks, asked, cutShort>>

(* Agents fail, come back and report; no call notices. *)
Health ==
  /\ AgentStep
  /\ calls' = {[c EXCEPT !.fell = c.fell \/ c.at \in Agents \ Active'] : c \in calls}
  /\ UNCHANGED <<prov, manager, tasks, replies, asked, cutShort>>

--------------------------------------------------------------------------------
(* The confirmations *)

UpdateStatusPlain(r) ==       \* mutant: PENDING_DELETE overwritten
  /\ r.says \in {"ACTIVE", "ERROR"}
  /\ prov' = IF prov[r.lb] \in Present THEN [prov EXCEPT ![r.lb] = r.says] ELSE prov
  /\ replies' = replies \ {r}
  /\ UNCHANGED <<vars, manager, calls, tasks, asked, cutShort>>

UpdateStatusAnew(r) ==        \* mutant: the row is written again without a look
  /\ r.says \in {"ACTIVE", "ERROR"}
  /\ prov' = IF prov[r.lb] # "PENDING_DELETE" THEN [prov EXCEPT ![r.lb] = r.says] ELSE prov
  /\ replies' = replies \ {r}
  /\ UNCHANGED <<vars, manager, calls, tasks, asked, cutShort>>

UpdateStatusUnchecked(r) ==   \* mutant: any confirmation taken for a status
  /\ prov' = IF prov[r.lb] \in Present \ {"PENDING_DELETE"}
               THEN [prov EXCEPT ![r.lb] = r.says]
               ELSE prov
  /\ replies' = replies \ {r}
  /\ UNCHANGED <<vars, manager, calls, tasks, asked, cutShort>>

(* update_loadbalancer_status: PENDING_DELETE stays; without a row the     *)
(* exception is logged.                                                    *)
UpdateLoadbalancerStatus(r) ==
  /\ r.says \in {"ACTIVE", "ERROR"}
  /\ prov' = IF prov[r.lb] \in Present \ {"PENDING_DELETE"}
               THEN [prov EXCEPT ![r.lb] = r.says]
               ELSE prov
  /\ replies' = replies \ {r}
  /\ UNCHANGED <<vars, manager, calls, tasks, asked, cutShort>>

LoadbalancerDestroyed(r) ==
  /\ r.says = "destroyed"
  /\ RemoveRow(r.lb)
  /\ replies' = replies \ {r}
  /\ UNCHANGED <<manager, calls, tasks, asked, cutShort>>

--------------------------------------------------------------------------------

DriverStep(c) ==
  \/ DriverSchedule(c) \/ DriverNoAgent(c) \/ DriverCast(c)
  \/ CreateFailed(c) \/ UpdateFailed(c) \/ DeleteWithoutAgent(c)
  \/ DriverRaises(c)

Confirm(r) == UpdateLoadbalancerStatus(r) \/ LoadbalancerDestroyed(r)

LCNext ==
  \/ \E lb \in LoadBalancers :
       ApiCreate(lb) \/ ApiUpdate(lb) \/ ApiDelete(lb) \/ DriverStats(lb)
  \/ \E c \in calls : DriverStep(c)
  \/ \E s \in Servers :
       \/ ServerRestart(s)
       \/ \E env \in Envs : \/ OtherBegins(s, env)
                           \/ \E a \in Agents : OtherCasts(s, env, a)
  \/ \E a \in Agents : ListPending(a)
  \/ OtherListing
  \/ \E t \in tasks : AgentWorks(t) \/ LoseTask(t)
  \/ \E r \in replies : Confirm(r) \/ LoseReply(r)
  \/ Health

LCSpec == LCInit /\ [][LCNext]_lcVars

(***************************************************************************)
(* Fairness: a driver call that can go on does; agents that stay up keep   *)
(* listing, and not every query for agents fails; a listed load balancer   *)
(* is worked on if its agent keeps listing it, and a confirmation sent     *)
(* again and again arrives.  Nothing is assumed of the casts: they may all *)
(* be lost.                                                                *)
(***************************************************************************)
LCFairness ==
  /\ \A lb \in LoadBalancers, op \in {"create", "update", "delete"} :
       WF_lcVars(\E c \in calls : c.lb = lb /\ c.op = op /\ DriverStep(c))
  /\ \A a \in Agents : WF_lcVars(Poll(a) /\ ListPending(a))
  /\ \A lb \in LoadBalancers, a \in Agents :
       LET sync == [op |-> "sync", lb |-> lb, host |-> a]
       IN  SF_lcVars(sync \in tasks /\ AgentWorks(sync))
  /\ \A r \in Replies : SF_lcVars(r \in replies /\ Confirm(r))

LCFairSpec == LCSpec /\ LCFairness

--------------------------------------------------------------------------------
(***************************************************************************)
(* Properties                                                              *)
(***************************************************************************)

(* Whatever happens to the bindings between schedule() and the cast, the   *)
(* agent that schedule() returned still has the load balancer, unless the  *)
(* row is gone or that agent was inactive at some time in between.         *)
ScheduledStillHosts ==
  \A c \in calls : c.at \in Agents => binding[c.lb] \in {c.at, None} \/ c.fell

Status == INSTANCE StatusProtocol WITH
  Entities <- LoadBalancers, Subtree <- [lb \in LoadBalancers |-> {lb}],
  Admitted <- {"ACTIVE", "ERROR"}, working <- {c.lb : c \in calls}

(* Requests, driver calls and confirmations in any order keep the protocol *)
(* of provisioning_status: nothing brings a load balancer back, ends its   *)
(* delete by a confirmation, fails it without a call in progress, or       *)
(* removes it unasked.                                                     *)
ImplementsStatus == Status!Spec

(* A task is only ever sent to an agent of the environment the load        *)
(* balancer belongs to, even when the binding moved after schedule().      *)
TasksInEnv ==
  /\ \A t \in tasks : EnvOf[t.host] = ProviderEnv[t.lb]
  /\ \A c \in calls : c.at \in Agents => EnvOf[c.at] = ProviderEnv[c.lb]

(* No request, late or repeated, binds a load balancer whose row is gone.  *)
GoneIsUnbound ==
  \A lb \in LoadBalancers : prov[lb] \notin Present => binding[lb] = None

(* A row is removed only if its tenant asked for it: no late confirmation  *)
(* of another operation removes a load balancer.                           *)
GoneWasAsked ==
  \A lb \in LoadBalancers : prov[lb] = "GONE" => lb \in asked

(* A delete is not undone: from PENDING_DELETE a load balancer goes only   *)
(* to removal, or to ERROR by the failure of a driver call, however late   *)
(* the agents' confirmations of earlier operations arrive.                 *)
DeleteNotUndone ==
  [][\A lb \in LoadBalancers :
       prov[lb] = "PENDING_DELETE" =>
         \/ prov'[lb] \in {"PENDING_DELETE", "GONE"}
         \/ prov'[lb] = "ERROR" /\ \E c \in calls \ calls' : c.lb = lb]_lcVars

(* A create or delete whose load balancer has no agent to finish it is     *)
(* still in the driver's hands, unless a restart cut the call short.       *)
StrandedOnlyByRestart ==
  \A lb \in LoadBalancers :
    prov[lb] \in {"PENDING_CREATE", "PENDING_DELETE"} /\ binding[lb] = None =>
      lb \in cutShort \/ \E c \in calls : c.lb = lb /\ c.op \in {"create", "delete"}

(* From some time on, p is the one agent that is up. *)
OnlyUp(p) == <>[](alive = {p} /\ p \in adminUp)

Serves(p, lb) == \A a \in Agents : EnvOf[a] = ProviderEnv[lb] => GroupOf[a] = GroupOf[p]

Waiting(lb) ==
  /\ prov[lb] \in Pending
  /\ \/ binding[lb] # None
     \/ prov[lb] # "PENDING_UPDATE" /\ lb \notin cutShort

(* With an agent of the group up, every load balancer that is bound leaves *)
(* its PENDING status, though casts and confirmations are lost, agents     *)
(* die, and the server restarts between schedule() and the cast; one that  *)
(* is not bound leaves PENDING_CREATE and PENDING_DELETE.                  *)
PendingResolved ==
  \A lb \in LoadBalancers, p \in Agents :
    EnvOf[p] = ProviderEnv[lb] /\ Serves(p, lb) =>
      (OnlyUp(p) => (Waiting(lb) ~> ~Waiting(lb)))

(* The driver's test of an update without an active agent asserts that the *)
(* load balancer is put in ERROR (test_driver_v2.py): so PENDING_UPDATE    *)
(* ends too, when no restart interferes.                                   *)
UpdateResolved ==
  \A lb \in LoadBalancers, p \in Agents :
    EnvOf[p] = ProviderEnv[lb] =>
      (OnlyUp(p) =>
        (prov[lb] = "PENDING_UPDATE" ~> prov[lb] # "PENDING_UPDATE" \/ lb \in cutShort))
================================================================================
