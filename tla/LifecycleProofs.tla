---------------------------- MODULE LifecycleProofs ----------------------------
(***************************************************************************)
(* Safety of the load balancer's life for any number of calls, tasks and   *)
(* confirmations in flight.  The invariants the runs check are not         *)
(* inductive alone: Provenance adds where every message, status and        *)
(* self.loadbalancer came from, and that a call that was given an agent    *)
(* has its load balancer bound as long as the row exists.                  *)
(***************************************************************************)
EXTENDS LoadBalancerLifecycle, AgentSchedulerProofs

(* What a driver's self.loadbalancer is, one of its requests made it. *)
ManagerIsFrom(s, env) ==
  LET object == manager[<<s, env>>]
  IN  object # None =>
        ProviderEnv[object.lb] = env /\ (object.op = "delete" => object.lb \in asked)

Provenance ==
  /\ \A lb \in LoadBalancers : prov[lb] = "PENDING_DELETE" => lb \in asked
  /\ \A c \in calls : c.op = "delete" => c.lb \in asked
  /\ \A t \in tasks : t.op = "delete" => t.lb \in asked
  /\ \A r \in replies : r.says = "destroyed" => r.lb \in asked
  /\ \A c \in calls : c.at \in Agents => binding[c.lb] # None \/ prov[c.lb] = "GONE"
  /\ \A c \in calls : c.at \in Agents \ Active => c.fell
  /\ \A s \in Servers, env \in Envs : ManagerIsFrom(s, env)

LCInv ==
  /\ LCTypeOK
  /\ BoundInEnv
  /\ TasksInEnv
  /\ GoneIsUnbound
  /\ GoneWasAsked
  /\ ScheduledStillHosts
  /\ StrandedOnlyByRestart
  /\ Provenance

(* What a step of the scheduler may do to the bindings: none is lost, only *)
(* a load balancer that has a row gets one, and active agents keep theirs. *)
BindingsGrow ==
  /\ UNCHANGED agentVars
  /\ \A lb \in LoadBalancers :
       /\ binding[lb] # None => binding'[lb] # None
       /\ binding'[lb] # None => binding[lb] # None \/ prov[lb] \in Present
       /\ binding'[lb] # binding[lb] => binding[lb] \notin Active

LEMMA AgentsAreNoStage == "start" \notin Agents /\ "noAgent" \notin Agents
  BY LCAssumption

LEMMA RowRemoval ==
  ASSUME NEW lb \in LoadBalancers, RemoveRow(lb)
  PROVE  [Next]_vars
  BY DEF RemoveRow, Next, vars

LEMMA ScheduleStep ==
  ASSUME NEW lb \in LoadBalancers, NEW a \in Agents, Schedule(lb, a)
  PROVE  [Next]_vars
  BY DEF Next, Request

LEMMA ListingStep ==
  ASSUME NEW a \in Agents, ListPending(a)
  PROVE  [Next]_vars
  BY DEF ListPending, Next, GroupNumbers

LEMMA CallFields ==
  ASSUME LCTypeOK, NEW c \in calls
  PROVE  /\ c \in Calls
         /\ c.lb \in LoadBalancers
         /\ c.at \in Stages
         /\ c.op \in {"create", "update", "delete"}
         /\ c.server \in Servers
         /\ c.fell \in BOOLEAN
  BY DEF LCTypeOK, Calls

LEMMA CallMoved ==
  ASSUME NEW c \in Calls, NEW stage \in Stages, NEW fallen \in BOOLEAN
  PROVE  LET d == [c EXCEPT !.at = stage, !.fell = fallen]
         IN  d \in Calls /\ d.at = stage /\ d.op = c.op /\ d.lb = c.lb /\ (d.fell <=> fallen)
  BY DEF Calls

LEMMA TaskFields ==
  ASSUME LCTypeOK, NEW t \in tasks
  PROVE  /\ t.lb \in LoadBalancers
         /\ t.host \in Agents
         /\ t.op \in {"create", "update", "delete", "sync"}
  BY DEF LCTypeOK, Tasks

LEMMA ReplyFields ==
  ASSUME LCTypeOK, NEW r \in replies
  PROVE  r.lb \in LoadBalancers /\ r.says \in {"ACTIVE", "ERROR", "destroyed"}
  BY DEF LCTypeOK, Replies

LEMMA ManagerObject ==
  ASSUME LCTypeOK, NEW s \in Servers, NEW env \in Envs, manager[<<s, env>>] # None
  PROVE  /\ manager[<<s, env>>] \in Objects
         /\ manager[<<s, env>>].lb \in LoadBalancers
         /\ manager[<<s, env>>].op \in {"create", "update", "delete"}
  BY DEF LCTypeOK, Objects

(* Every step of the lifecycle is a step of the scheduler or leaves it be. *)
LEMMA StepRefines == LCTypeOK /\ [LCNext]_lcVars => [Next]_vars
  <1> SUFFICES ASSUME LCTypeOK, [LCNext]_lcVars PROVE [Next]_vars
    OBVIOUS
  <1>1. ASSUME NEW lb \in LoadBalancers,
               ApiCreate(lb) \/ ApiUpdate(lb) \/ ApiDelete(lb) \/ DriverStats(lb)
        PROVE  [Next]_vars
    BY <1>1 DEF ApiCreate, ApiUpdate, ApiDelete, Ask, DriverStats, Next, vars
  <1>2. ASSUME NEW c \in calls, DriverStep(c) PROVE [Next]_vars
    <2>1. c.lb \in LoadBalancers
      BY CallFields
    <2>2. CASE DriverSchedule(c)
      BY <2>1, <2>2, ScheduleStep DEF DriverSchedule
    <2>3. CASE DriverNoAgent(c)
      BY <2>3 DEF DriverNoAgent, Refuse, vars
    <2>4. CASE DeleteWithoutAgent(c)
      BY <2>1, <2>4, RowRemoval DEF DeleteWithoutAgent
    <2>5. CASE DriverCast(c) \/ CreateFailed(c) \/ UpdateFailed(c) \/ DriverRaises(c)
      BY <2>5 DEF DriverCast, CreateFailed, UpdateFailed, DriverRaises, vars
    <2> QED BY <1>2, <2>2, <2>3, <2>4, <2>5 DEF DriverStep
  <1>3. ASSUME NEW a \in Agents, ListPending(a) PROVE [Next]_vars
    BY <1>3, ListingStep
  <1>4. CASE OtherListing
    BY <1>4 DEF OtherListing, Next
  <1>5. ASSUME NEW t \in tasks, AgentWorks(t) \/ LoseTask(t) PROVE [Next]_vars
    BY <1>5 DEF AgentWorks, LoseTask, vars
  <1>6. ASSUME NEW r \in replies, Confirm(r) \/ LoseReply(r) PROVE [Next]_vars
    <2>1. r.lb \in LoadBalancers
      BY ReplyFields
    <2> QED BY <1>6, <2>1, RowRemoval
            DEF Confirm, UpdateLoadbalancerStatus, LoadbalancerDestroyed, LoseReply, vars
  <1>7. CASE Health
    BY <1>7 DEF Health, Next
  <1>8. CASE UNCHANGED lcVars
    BY <1>8 DEF lcVars, vars
  <1>9. ASSUME NEW s \in Servers, NEW env \in Envs, NEW a \in Agents, OtherCasts(s, env, a)
        PROVE  [Next]_vars
    BY <1>9 DEF OtherCasts, vars
  <1>10. ASSUME NEW s \in Servers, ServerRestart(s) PROVE [Next]_vars
    BY <1>10 DEF ServerRestart, vars
  <1>11. ASSUME NEW s \in Servers, NEW env \in Envs, OtherBegins(s, env) PROVE [Next]_vars
    BY <1>11 DEF OtherBegins, vars
  <1> QED BY <1>1, <1>2, <1>3, <1>4, <1>5, <1>6, <1>7, <1>8, <1>9, <1>10, <1>11 DEF LCNext

LEMMA SchedulerInv == LCInv /\ [LCNext]_lcVars => IInv'
  BY StepRefines, NextIInv DEF LCInv, LCTypeOK, IInv

LEMMA ScrubGrows == ASSUME IInv, NEW env, NEW g, Scrub(env, g) PROVE BindingsGrow
  <1>1. PICK to \in [DeadInEnv(env, g) -> Agents] : binding' = Rebound(to)
    BY DEF Scrub
  <1>2. \A d \in DOMAIN to : d \in Agents /\ to[d] \in Agents
    BY <1>1, DeadIs
  <1>3. \A lb \in LoadBalancers : binding'[lb] # binding[lb] => binding[lb] \notin Active
    BY <1>1, DeadIs DEF Rebound
  <1> QED BY <1>1, <1>2, <1>3, SchedulerAssumption DEF BindingsGrow, Rebound, Scrub

LEMMA ScheduleGrows ==
  ASSUME IInv, NEW lb \in LoadBalancers, prov[lb] \in Present,
         NEW a \in Agents, Schedule(lb, a)
  PROVE  BindingsGrow /\ binding'[lb] = a /\ EnvOf[a] = ProviderEnv[lb]
  <1>1. CASE KeepHost(lb, a)
    BY <1>1, SchedulerAssumption DEF KeepHost, vars, agentVars, BindingsGrow, IInv, BoundInEnv
  <1>2. CASE Failover(lb, a)
    BY <1>2, InEnv, SchedulerAssumption DEF Failover, Rebound, BindingsGrow, ActiveInEnv
  <1>3. CASE Place(lb, a)
    BY <1>3, InEnv, ChoicesAreCandidates, SchedulerAssumption
       DEF Place, BindingsGrow, ActiveInEnv, IInv, TypeOK, Active
  <1> QED BY <1>1, <1>2, <1>3 DEF Schedule

(* What a call past schedule() knows of its agent, after a step that only  *)
(* moves bindings: the agent was up and keeps the load balancer, or fell.  *)
LEMMA CallsKeepHost ==
  ASSUME LCInv, BindingsGrow, UNCHANGED prov
  PROVE  \A c \in calls : c.at \in Agents => binding'[c.lb] \in {c.at, None} \/ c.fell
  <1> SUFFICES ASSUME NEW c \in calls, c.at \in Agents, ~c.fell
               PROVE  binding'[c.lb] \in {c.at, None}
    OBVIOUS
  <1>1. c.lb \in LoadBalancers /\ c.at \in Active
    BY CallFields DEF LCInv, Provenance
  <1>2. CASE binding[c.lb] = c.at
    BY <1>1, <1>2 DEF BindingsGrow
  <1>3. CASE binding[c.lb] = None
    BY <1>1, <1>3 DEF BindingsGrow, LCInv, Provenance, Present, Pending
  <1> QED BY <1>2, <1>3 DEF LCInv, ScheduledStillHosts

(* A step that only moves bindings keeps the invariant. *)
LEMMA BindingStep ==
  ASSUME LCInv, IInv', BindingsGrow,
         UNCHANGED <<prov, manager, calls, tasks, replies, asked, cutShort>>
  PROVE  LCInv'
  <1>0. Active' = Active
    BY DEF BindingsGrow, agentVars, Active
  <1>1. LCTypeOK' /\ BoundInEnv'
    BY DEF LCInv, LCTypeOK, IInv
  <1>2. TasksInEnv' /\ GoneWasAsked'
    BY DEF LCInv, TasksInEnv, GoneWasAsked
  <1>3. GoneIsUnbound' /\ StrandedOnlyByRestart'
    BY DEF LCInv, GoneIsUnbound, StrandedOnlyByRestart, BindingsGrow
  <1>4. Provenance'
    BY <1>0, CallFields DEF LCInv, Provenance, BindingsGrow, ManagerIsFrom
  <1>5. ScheduledStillHosts'
    BY CallsKeepHost DEF ScheduledStillHosts
  <1> QED BY <1>1, <1>2, <1>3, <1>4, <1>5 DEF LCInv

LEMMA ApiInv ==
  ASSUME LCInv, IInv', NEW lb \in LoadBalancers,
         ApiCreate(lb) \/ ApiUpdate(lb) \/ ApiDelete(lb)
  PROVE  LCInv'
  <1>1. PICK op \in {"create", "update", "delete"}, status \in Pending :
           /\ Ask(op, lb, status)
           /\ prov[lb] \in {"ABSENT", "ACTIVE", "ERROR"}
           /\ op = "delete" => asked' = asked \cup {lb}
           /\ op # "delete" => asked' = asked /\ status # "PENDING_DELETE"
           /\ status \in {"PENDING_CREATE", "PENDING_DELETE"} => op \in {"create", "delete"}
    BY DEF ApiCreate, ApiUpdate, ApiDelete, Pending
  <1>2. PICK s \in Servers :
          /\ prov' = [prov EXCEPT ![lb] = status]
          /\ manager' = [manager EXCEPT ![<<s, ProviderEnv[lb]>>] = [op |-> op, lb |-> lb]]
          /\ calls' = calls \cup {[op |-> op, lb |-> lb, server |-> s,
                                   at |-> "start", fell |-> FALSE]}
          /\ UNCHANGED <<vars, tasks, replies, cutShort>>
    BY <1>1 DEF Ask
  <1> DEFINE c == [op |-> op, lb |-> lb, server |-> s, at |-> "start", fell |-> FALSE]
             object == [op |-> op, lb |-> lb]
  <1>3. asked' \in SUBSET LoadBalancers /\ asked \subseteq asked' /\ (op = "delete" => lb \in asked')
    BY <1>1 DEF LCInv, LCTypeOK
  <1>4. /\ c \in Calls /\ c.at = "start" /\ c.op = op /\ c.lb = lb
        /\ object \in Objects /\ object.op = op /\ object.lb = lb
        /\ calls' = calls \cup {c}
    BY <1>2 DEF Calls, Stages, Objects
  <1>5. \A t \in Servers, env \in Envs :
           (manager[<<t, env>>])' = IF t = s /\ env = ProviderEnv[lb] THEN object ELSE manager[<<t, env>>]
    BY <1>2 DEF LCInv, LCTypeOK
  <1>6. manager' \in [Servers \X Envs -> Objects \cup {None}]
    BY <1>2, <1>4 DEF LCInv, LCTypeOK
  <1> HIDE DEF c, object
  <1>7. LCTypeOK' /\ BoundInEnv'
    BY <1>2, <1>3, <1>4, <1>6 DEF LCInv, LCTypeOK, IInv, Present
  <1>8. TasksInEnv' /\ ScheduledStillHosts'
    BY <1>2, <1>4, AgentsAreNoStage DEF LCInv, TasksInEnv, ScheduledStillHosts, vars
  <1>9. GoneIsUnbound' /\ GoneWasAsked'
    BY <1>1, <1>2, <1>3 DEF LCInv, LCTypeOK, GoneIsUnbound, GoneWasAsked, vars, Present, Pending
  <1>10. StrandedOnlyByRestart'
    BY <1>1, <1>2, <1>4 DEF LCInv, LCTypeOK, StrandedOnlyByRestart, vars
  <1>11. \A t \in Servers, env \in Envs : ManagerIsFrom(t, env)'
    BY <1>3, <1>4, <1>5 DEF LCInv, Provenance, ManagerIsFrom
  <1>12. Provenance'
    BY <1>1, <1>2, <1>3, <1>4, <1>11, CallFields, AgentsAreNoStage
       DEF LCInv, LCTypeOK, Provenance, vars, Pending, Active
  <1> QED BY <1>7, <1>8, <1>9, <1>10, <1>12 DEF LCInv

(* schedule() returned: the call goes on with an agent of the environment. *)
LEMMA DriverScheduleInv ==
  ASSUME LCInv, IInv', NEW c \in calls, DriverSchedule(c)
  PROVE  LCInv'
  <1>1. c \in Calls /\ c.lb \in LoadBalancers /\ c.at = "start" /\ prov[c.lb] \in Present
    BY CallFields DEF LCInv, DriverSchedule
  <1>2. PICK a \in Agents : Schedule(c.lb, a) /\ Advance(c, a)
    BY DEF DriverSchedule
  <1>3. BindingsGrow /\ binding'[c.lb] = a /\ EnvOf[a] = ProviderEnv[c.lb]
    BY <1>1, <1>2, ScheduleGrows DEF LCInv, LCTypeOK, IInv
  <1> DEFINE d == [c EXCEPT !.at = a, !.fell = a \in Agents \ Active]
  <1>4. calls' = (calls \ {c}) \cup {d}
    BY <1>2 DEF Advance
  <1>5. d \in Calls /\ d.at = a /\ d.op = c.op /\ d.lb = c.lb /\ (d.fell <=> a \notin Active)
    <2>1. a \in Stages /\ (a \in Agents \ Active) \in BOOLEAN
      BY DEF Stages
    <2> QED BY <1>1, <2>1, CallMoved, Zenon
  <1> HIDE DEF d
  <1>6. UNCHANGED <<prov, manager, tasks, replies, asked, cutShort>> /\ Active' = Active
    BY <1>3 DEF DriverSchedule, BindingsGrow, agentVars, Active
  <1>7. LCTypeOK' /\ BoundInEnv'
    BY <1>4, <1>5, <1>6 DEF LCInv, LCTypeOK, IInv
  <1>8. TasksInEnv' /\ GoneWasAsked'
    BY <1>3, <1>4, <1>5, <1>6 DEF LCInv, TasksInEnv, GoneWasAsked
  <1>9. GoneIsUnbound'
    BY <1>3, <1>6 DEF LCInv, GoneIsUnbound, BindingsGrow
  <1>10. StrandedOnlyByRestart'
    BY <1>3, <1>4, <1>5, <1>6 DEF LCInv, StrandedOnlyByRestart, BindingsGrow
  <1>11. Provenance'
    <2>1. \A e \in calls' : e.at \in Agents => binding'[e.lb] # None \/ prov'[e.lb] = "GONE"
      BY <1>3, <1>4, <1>5, <1>6, CallFields, SchedulerAssumption DEF LCInv, Provenance, BindingsGrow
    <2>2. \A e \in calls' : e.at \in Agents \ Active' => e.fell
      BY <1>4, <1>5, <1>6 DEF LCInv, Provenance
    <2>3. \A e \in calls' : e.op = "delete" => e.lb \in asked'
      BY <1>4, <1>5, <1>6 DEF LCInv, Provenance
    <2> QED BY <1>6, <2>1, <2>2, <2>3 DEF LCInv, Provenance, ManagerIsFrom
  <1>12. ScheduledStillHosts'
    BY <1>3, <1>4, <1>5, <1>6, CallsKeepHost DEF ScheduledStillHosts
  <1> QED BY <1>7, <1>8, <1>9, <1>10, <1>11, <1>12 DEF LCInv

LEMMA DriverNoAgentInv ==
  ASSUME LCInv, IInv', NEW c \in calls, DriverNoAgent(c)
  PROVE  LCInv'
  <1>1. c \in Calls /\ c.lb \in LoadBalancers
    BY CallFields DEF LCInv
  <1> DEFINE d == [c EXCEPT !.at = "noAgent", !.fell = "noAgent" \in Agents \ Active]
  <1>2. calls' = (calls \ {c}) \cup {d}
    BY DEF DriverNoAgent, Advance
  <1>3. d \in Calls /\ d.at = "noAgent" /\ d.op = c.op /\ d.lb = c.lb
    <2>1. ("noAgent" \in Agents \ Active) = FALSE
      BY AgentsAreNoStage
    <2>2. d = [c EXCEPT !.at = "noAgent", !.fell = FALSE]
      BY <2>1, Zenon
    <2> HIDE DEF d
    <2> QED BY <1>1, <2>2 DEF Calls, Stages
  <1> HIDE DEF d
  <1>4. UNCHANGED <<vars, prov, manager, tasks, replies, asked, cutShort>>
    BY DEF DriverNoAgent, Refuse
  <1>5. LCTypeOK' /\ BoundInEnv'
    BY <1>2, <1>3, <1>4 DEF LCInv, LCTypeOK, IInv
  <1>6. TasksInEnv' /\ GoneWasAsked' /\ GoneIsUnbound' /\ ScheduledStillHosts'
    BY <1>2, <1>3, <1>4, AgentsAreNoStage
       DEF LCInv, TasksInEnv, GoneWasAsked, GoneIsUnbound, ScheduledStillHosts, vars
  <1>7. StrandedOnlyByRestart'
    BY <1>2, <1>3, <1>4 DEF LCInv, StrandedOnlyByRestart, vars
  <1>8. Provenance'
    BY <1>2, <1>3, <1>4, AgentsAreNoStage DEF LCInv, Provenance, ManagerIsFrom, vars, Active
  <1> QED BY <1>5, <1>6, <1>7, <1>8 DEF LCInv

(* A cast tells an agent of the driver's environment what self.loadbalancer *)
(* is, which is of that environment too.                                    *)
LEMMA TaskSent ==
  ASSUME LCInv, NEW s \in Servers, NEW env \in Envs, NEW a \in Agents, EnvOf[a] = env,
         manager[<<s, env>>] # None
  PROVE  LET t == [op |-> manager[<<s, env>>].op, lb |-> manager[<<s, env>>].lb, host |-> a]
         IN  /\ t \in Tasks /\ EnvOf[t.host] = ProviderEnv[t.lb]
             /\ t.op = "delete" => t.lb \in asked
  <1>1. manager[<<s, env>>].lb \in LoadBalancers /\ manager[<<s, env>>].op \in {"create", "update", "delete"}
    BY ManagerObject DEF LCInv
  <1>2. ManagerIsFrom(s, env)
    BY DEF LCInv, Provenance
  <1> QED BY <1>1, <1>2 DEF Tasks, ManagerIsFrom

LEMMA DriverCastInv ==
  ASSUME LCInv, IInv', NEW c \in calls, DriverCast(c)
  PROVE  LCInv'
  <1>1. c.lb \in LoadBalancers /\ c.at \in Agents /\ c.server \in Servers
        /\ EnvOf[c.at] = ProviderEnv[c.lb] /\ ProviderEnv[c.lb] \in Envs
    BY CallFields, SchedulerAssumption DEF LCInv, DriverCast, TasksInEnv
  <1>2. calls' = calls \ {c} /\ UNCHANGED <<vars, prov, manager, replies, asked, cutShort>>
    BY DEF DriverCast, End
  <1>3. \A t \in tasks' \ tasks : /\ t \in Tasks /\ EnvOf[t.host] = ProviderEnv[t.lb]
                                  /\ t.op = "delete" => t.lb \in asked
    BY <1>1, TaskSent DEF DriverCast
  <1>4. LCTypeOK' /\ BoundInEnv'
    BY <1>2, <1>3 DEF LCInv, LCTypeOK, IInv
  <1>5. TasksInEnv' /\ GoneWasAsked' /\ GoneIsUnbound' /\ ScheduledStillHosts'
    BY <1>2, <1>3 DEF LCInv, TasksInEnv, GoneWasAsked, GoneIsUnbound, ScheduledStillHosts, vars
  <1>6. StrandedOnlyByRestart'
    BY <1>1, <1>2 DEF LCInv, Provenance, StrandedOnlyByRestart, vars
  <1>7. Provenance'
    BY <1>2, <1>3 DEF LCInv, Provenance, ManagerIsFrom, vars, Active
  <1> QED BY <1>4, <1>5, <1>6, <1>7 DEF LCInv

(* What the requests for other load balancers do.                          *)
LEMMA OtherInv ==
  ASSUME LCInv, IInv', NEW s \in Servers, NEW env \in Envs,
         OtherBegins(s, env) \/ \E a \in Agents : OtherCasts(s, env, a)
  PROVE  LCInv'
  <1>1. UNCHANGED <<vars, prov, calls, replies, asked, cutShort>>
    BY DEF OtherBegins, OtherCasts
  <1>2. \A t \in tasks' \ tasks : /\ t \in Tasks /\ EnvOf[t.host] = ProviderEnv[t.lb]
                                  /\ t.op = "delete" => t.lb \in asked
    <2> SUFFICES ASSUME NEW t \in tasks' \ tasks
                 PROVE  /\ t \in Tasks /\ EnvOf[t.host] = ProviderEnv[t.lb]
                        /\ t.op = "delete" => t.lb \in asked
      OBVIOUS
    <2>1. PICK a \in Agents : OtherCasts(s, env, a)
      BY DEF OtherBegins
    <2> QED BY <2>1, TaskSent DEF OtherCasts
  <1>3. manager' \in [Servers \X Envs -> Objects \cup {None}]
    BY DEF OtherBegins, OtherCasts, LCInv, LCTypeOK
  <1>4. \A t \in Servers, e \in Envs : (manager[<<t, e>>])' \in {manager[<<t, e>>], None}
    BY DEF OtherBegins, OtherCasts, LCInv, LCTypeOK
  <1>5. LCTypeOK' /\ BoundInEnv'
    BY <1>1, <1>2, <1>3 DEF LCInv, LCTypeOK, IInv
  <1>6. TasksInEnv' /\ GoneWasAsked' /\ GoneIsUnbound' /\ ScheduledStillHosts'
        /\ StrandedOnlyByRestart'
    BY <1>1, <1>2 DEF LCInv, TasksInEnv, GoneWasAsked, GoneIsUnbound, ScheduledStillHosts,
                      StrandedOnlyByRestart, vars
  <1>7. Provenance'
    BY <1>1, <1>2, <1>4 DEF LCInv, Provenance, ManagerIsFrom, vars, Active
  <1> QED BY <1>5, <1>6, <1>7 DEF LCInv

(* A server stops with its calls.                                          *)
LEMMA ServerRestartInv ==
  ASSUME LCInv, IInv', NEW s \in Servers, ServerRestart(s)
  PROVE  LCInv'
  <1> DEFINE lost == {c \in calls : c.server = s}
  <1>1. /\ calls' = calls \ lost /\ cutShort' = cutShort \cup {c.lb : c \in lost}
        /\ UNCHANGED <<vars, prov, tasks, replies, asked>>
    BY DEF ServerRestart
  <1>2. manager' \in [Servers \X Envs -> Objects \cup {None}]
    BY DEF ServerRestart, LCInv, LCTypeOK
  <1>3. \A t \in Servers, e \in Envs : (manager[<<t, e>>])' \in {manager[<<t, e>>], None}
    BY DEF ServerRestart, LCInv, LCTypeOK
  <1>4. cutShort' \in SUBSET LoadBalancers
    BY <1>1, CallFields DEF LCInv, LCTypeOK
  <1>5. \A c \in calls \ calls' : c.lb \in cutShort'
    BY <1>1
  <1>6. calls' \subseteq calls /\ cutShort \subseteq cutShort'
    BY <1>1
  <1> HIDE DEF lost
  <1>7. LCTypeOK' /\ BoundInEnv'
    BY <1>1, <1>2, <1>4, <1>6 DEF LCInv, LCTypeOK, IInv
  <1>8. TasksInEnv' /\ GoneWasAsked' /\ GoneIsUnbound' /\ ScheduledStillHosts'
    BY <1>1, <1>6 DEF LCInv, TasksInEnv, GoneWasAsked, GoneIsUnbound, ScheduledStillHosts, vars
  <1>9. StrandedOnlyByRestart'
    BY <1>1, <1>5, <1>6 DEF LCInv, StrandedOnlyByRestart, vars
  <1>10. Provenance'
    BY <1>1, <1>3, <1>6 DEF LCInv, Provenance, ManagerIsFrom, vars, Active
  <1> QED BY <1>7, <1>8, <1>9, <1>10 DEF LCInv

(* A call ends without a cast: it failed.                                  *)
LEMMA CallEndsInv ==
  ASSUME LCInv, IInv', NEW c \in calls,
         CreateFailed(c) \/ UpdateFailed(c) \/ DriverRaises(c)
  PROVE  LCInv'
  <1>1. c \in Calls /\ c.lb \in LoadBalancers
    BY CallFields DEF LCInv
  <1>2. /\ calls' = calls \ {c}
        /\ UNCHANGED <<vars, manager, tasks, replies, asked, cutShort>>
    BY <1>1 DEF CreateFailed, UpdateFailed, DriverRaises, End
  <1>3. \/ prov' = prov /\ (c.op = "update" \/ prov[c.lb] \notin Present)
        \/ prov[c.lb] \in Present /\ prov' = [prov EXCEPT ![c.lb] = "ERROR"]
    BY DEF CreateFailed, UpdateFailed, DriverRaises
  <1>4. LCTypeOK' /\ BoundInEnv'
    BY <1>1, <1>2, <1>3 DEF LCInv, LCTypeOK, IInv, Present
  <1>5. TasksInEnv' /\ ScheduledStillHosts'
    BY <1>2 DEF LCInv, TasksInEnv, ScheduledStillHosts, vars
  <1>6. GoneWasAsked' /\ GoneIsUnbound'
    BY <1>1, <1>2, <1>3 DEF LCInv, LCTypeOK, GoneWasAsked, GoneIsUnbound, vars, Present
  <1>7. StrandedOnlyByRestart'
    BY <1>1, <1>2, <1>3 DEF LCInv, LCTypeOK, StrandedOnlyByRestart, vars, Present, Pending
  <1>8. Provenance'
    BY <1>1, <1>2, <1>3, CallFields
       DEF LCInv, LCTypeOK, Provenance, ManagerIsFrom, vars, Active, Present, Pending
  <1> QED BY <1>4, <1>5, <1>6, <1>7, <1>8 DEF LCInv

(* A row is removed: by delete without an agent, or by a confirmation.     *)
LEMMA RowGoesInv ==
  ASSUME LCInv, IInv', NEW lb \in LoadBalancers, lb \in asked, RemoveRow(lb),
         calls' \subseteq calls, replies' \subseteq replies,
         \A c \in calls \ calls' : c.lb = lb,
         UNCHANGED <<manager, tasks, asked, cutShort>>
  PROVE  LCInv'
  <1>1. CASE prov[lb] \in Present
    <2>1. /\ prov' = [prov EXCEPT ![lb] = "GONE"] /\ binding' = [binding EXCEPT ![lb] = None]
          /\ Active' = Active
      BY <1>1 DEF RemoveRow, DeleteRow, agentVars, Active
    <2>2. LCTypeOK' /\ BoundInEnv'
      BY <2>1 DEF LCInv, LCTypeOK, IInv
    <2>3. TasksInEnv' /\ ScheduledStillHosts'
      BY <2>1 DEF LCInv, LCTypeOK, TypeOK, TasksInEnv, ScheduledStillHosts
    <2>4. GoneWasAsked' /\ GoneIsUnbound'
      BY <2>1 DEF LCInv, LCTypeOK, TypeOK, GoneWasAsked, GoneIsUnbound
    <2>5. StrandedOnlyByRestart'
      BY <2>1 DEF LCInv, LCTypeOK, TypeOK, StrandedOnlyByRestart
    <2>6. Provenance'
      BY <2>1, CallFields DEF LCInv, LCTypeOK, TypeOK, Provenance, ManagerIsFrom
    <2> QED BY <2>2, <2>3, <2>4, <2>5, <2>6 DEF LCInv
  <1>2. CASE prov[lb] \notin Present
    <2>1. UNCHANGED <<vars, prov>>
      BY <1>2 DEF RemoveRow
    <2>2. LCTypeOK' /\ BoundInEnv'
      BY <2>1 DEF LCInv, LCTypeOK, IInv
    <2>3. TasksInEnv' /\ GoneWasAsked' /\ GoneIsUnbound' /\ ScheduledStillHosts' /\ Provenance'
      BY <2>1 DEF LCInv, TasksInEnv, GoneWasAsked, GoneIsUnbound, ScheduledStillHosts,
                  Provenance, ManagerIsFrom, vars, Active
    <2>4. StrandedOnlyByRestart'
      BY <1>2, <2>1 DEF LCInv, StrandedOnlyByRestart, vars, Present, Pending
    <2> QED BY <2>2, <2>3, <2>4 DEF LCInv
  <1> QED BY <1>1, <1>2

LEMMA ListPendingInv ==
  ASSUME LCInv, IInv', NEW a \in Agents, ListPending(a)
  PROVE  LCInv'
  <1>1. BindingsGrow
    BY ScrubGrows DEF ListPending, ListLoadbalancers, LCInv, LCTypeOK, IInv
  <1>2. \A t \in tasks' \ tasks : /\ t \in Tasks /\ t.op = "sync" /\ t.host = a
                                  /\ binding'[t.lb] = a
    BY DEF ListPending, Tasks
  <1>3. UNCHANGED <<prov, manager, calls, replies, asked, cutShort>> /\ tasks \subseteq tasks'
    BY DEF ListPending
  <1>4. LCTypeOK' /\ BoundInEnv'
    BY <1>2, <1>3 DEF LCInv, LCTypeOK, IInv
  <1>5. \A t \in tasks' \ tasks : EnvOf[t.host] = ProviderEnv[t.lb]
    BY <1>2, SchedulerAssumption DEF IInv, BoundInEnv, Tasks
  <1>6. TasksInEnv' /\ GoneWasAsked'
    BY <1>3, <1>5 DEF LCInv, TasksInEnv, GoneWasAsked
  <1>7. GoneIsUnbound' /\ StrandedOnlyByRestart'
    BY <1>1, <1>3 DEF LCInv, GoneIsUnbound, StrandedOnlyByRestart, BindingsGrow
  <1>8. Provenance'
    BY <1>1, <1>2, <1>3, CallFields
       DEF LCInv, Provenance, ManagerIsFrom, BindingsGrow, agentVars, Active
  <1>9. ScheduledStillHosts'
    BY <1>1, <1>3, CallsKeepHost DEF ScheduledStillHosts
  <1> QED BY <1>4, <1>6, <1>7, <1>8, <1>9 DEF LCInv

(* Tasks and confirmations come and go. *)
LEMMA MessageInv ==
  ASSUME LCInv, IInv', UNCHANGED <<vars, prov, manager, calls, asked, cutShort>>,
         tasks' \subseteq tasks,
         \A r \in replies' \ replies : r \in Replies /\ (r.says = "destroyed" => r.lb \in asked)
  PROVE  LCInv'
  <1>1. LCTypeOK' /\ BoundInEnv'
    BY DEF LCInv, LCTypeOK, IInv
  <1>2. TasksInEnv' /\ GoneWasAsked' /\ GoneIsUnbound' /\ ScheduledStillHosts' /\ StrandedOnlyByRestart'
    BY DEF LCInv, TasksInEnv, GoneWasAsked, GoneIsUnbound, ScheduledStillHosts,
           StrandedOnlyByRestart, vars
  <1>3. Provenance'
    BY DEF LCInv, Provenance, ManagerIsFrom, vars, Active
  <1> QED BY <1>1, <1>2, <1>3 DEF LCInv

(* Agents fail or come back; the calls note it. *)
LEMMA HealthInv == ASSUME LCInv, IInv', Health PROVE LCInv'
  <1> DEFINE Seen(c) == [c EXCEPT !.fell = c.fell \/ c.at \in Agents \ Active']
  <1>1. /\ calls' = {Seen(c) : c \in calls}
        /\ UNCHANGED <<binding, prov, manager, tasks, replies, asked, cutShort>>
    BY DEF Health, AgentStep, Expire, ReportState, SetAgentAdminState
  <1>2. ASSUME NEW c \in calls
        PROVE  /\ Seen(c) \in Calls /\ Seen(c).op = c.op /\ Seen(c).lb = c.lb
               /\ Seen(c).at = c.at
               /\ c.fell => Seen(c).fell
               /\ c.at \in Agents \ Active' => Seen(c).fell
    <2>1. c \in Calls
      BY CallFields DEF LCInv
    <2>2. CASE c.fell \/ c.at \in Agents \ Active'
      <3>1. Seen(c) = [c EXCEPT !.fell = TRUE]
        BY <2>2
      <3> HIDE DEF Seen
      <3> QED BY <2>1, <3>1 DEF Calls
    <2>3. CASE ~(c.fell \/ c.at \in Agents \ Active')
      <3>1. Seen(c) = [c EXCEPT !.fell = FALSE]
        BY <2>3
      <3> HIDE DEF Seen
      <3> QED BY <2>1, <2>3, <3>1 DEF Calls
    <2> QED BY <2>2, <2>3
  <1>3. \A c \in calls : Seen(c) \in calls' /\ Seen(c).op = c.op /\ Seen(c).lb = c.lb
    BY <1>1, <1>2
  <1>4. \A d \in calls' : \E c \in calls : d = Seen(c)
    BY <1>1
  <1> HIDE DEF Seen
  <1>5. LCTypeOK' /\ BoundInEnv'
    BY <1>1, <1>2, <1>4 DEF LCInv, LCTypeOK, IInv
  <1>6. TasksInEnv' /\ GoneWasAsked' /\ GoneIsUnbound' /\ ScheduledStillHosts'
    BY <1>1, <1>2, <1>4 DEF LCInv, TasksInEnv, GoneWasAsked, GoneIsUnbound, ScheduledStillHosts
  <1>7. StrandedOnlyByRestart'
    BY <1>1, <1>3 DEF LCInv, StrandedOnlyByRestart
  <1>8. Provenance'
    BY <1>1, <1>2, <1>4 DEF LCInv, Provenance, ManagerIsFrom
  <1> QED BY <1>5, <1>6, <1>7, <1>8 DEF LCInv

LEMMA AgentWorksInv == ASSUME LCInv, IInv', NEW t \in tasks, AgentWorks(t) PROVE LCInv'
  <1>1. t.lb \in LoadBalancers /\ t.op \in {"create", "update", "delete", "sync"}
    BY TaskFields DEF LCInv
  <1>2. \A r \in Answers(t) :
           r \in Replies /\ (r.says = "destroyed" => t.op = "delete" \/ prov[t.lb] = "PENDING_DELETE")
    BY <1>1 DEF Answers, Replies
  <1>3. \A r \in Answers(t) : r.lb = t.lb
    BY <1>1 DEF Answers
  <1>4. \A r \in replies' \ replies : r \in Answers(t)
    BY DEF AgentWorks
  <1>5. \A r \in replies' \ replies : r \in Replies /\ (r.says = "destroyed" => r.lb \in asked)
    BY <1>1, <1>2, <1>3, <1>4 DEF LCInv, Provenance
  <1>6. tasks' \subseteq tasks /\ UNCHANGED <<vars, prov, manager, calls, asked, cutShort>>
    BY DEF AgentWorks
  <1> QED BY <1>5, <1>6, MessageInv

LEMMA UpdateStatusInv ==
  ASSUME LCInv, IInv', NEW r \in replies, UpdateLoadbalancerStatus(r) PROVE LCInv'
  <1>1. r.lb \in LoadBalancers /\ r.says \in {"ACTIVE", "ERROR"}
    BY ReplyFields DEF LCInv, UpdateLoadbalancerStatus
  <1>2. /\ UNCHANGED <<vars, manager, calls, tasks, asked, cutShort>> /\ replies' \subseteq replies
        /\ \/ prov' = prov
           \/ prov[r.lb] \in Present /\ prov' = [prov EXCEPT ![r.lb] = r.says]
    BY DEF UpdateLoadbalancerStatus
  <1>3. LCTypeOK' /\ BoundInEnv'
    BY <1>1, <1>2 DEF LCInv, LCTypeOK, IInv, Present
  <1>4. TasksInEnv' /\ ScheduledStillHosts'
    BY <1>2 DEF LCInv, TasksInEnv, ScheduledStillHosts, vars
  <1>5. GoneWasAsked' /\ GoneIsUnbound'
    BY <1>1, <1>2 DEF LCInv, LCTypeOK, GoneWasAsked, GoneIsUnbound, vars, Present
  <1>6. StrandedOnlyByRestart'
    BY <1>1, <1>2 DEF LCInv, LCTypeOK, StrandedOnlyByRestart, vars
  <1>7. Provenance'
    BY <1>1, <1>2, CallFields
       DEF LCInv, LCTypeOK, Provenance, ManagerIsFrom, vars, Active, Present, Pending
  <1> QED BY <1>3, <1>4, <1>5, <1>6, <1>7 DEF LCInv

LEMMA LCInitInv == LCInit => LCInv
  <1> SUFFICES ASSUME LCInit PROVE LCInv
    OBVIOUS
  <1>1. TypeOK /\ BoundInEnv
    BY InitIInv DEF LCInit, IInv
  <1> QED BY <1>1 DEF LCInit, Init, LCInv, LCTypeOK, TasksInEnv, GoneIsUnbound, GoneWasAsked,
             ScheduledStillHosts, StrandedOnlyByRestart, Provenance, ManagerIsFrom

LEMMA LCNextInv == LCInv /\ [LCNext]_lcVars => LCInv'
  <1> SUFFICES ASSUME LCInv, [LCNext]_lcVars PROVE LCInv'
    OBVIOUS
  <1>0. IInv' /\ IInv /\ LCTypeOK
    BY SchedulerInv DEF LCInv, LCTypeOK, IInv
  <1>1. ASSUME NEW lb \in LoadBalancers, ApiCreate(lb) \/ ApiUpdate(lb) \/ ApiDelete(lb)
        PROVE  LCInv'
    BY <1>0, <1>1, ApiInv
  <1>2. ASSUME NEW lb \in LoadBalancers, DriverStats(lb) PROVE LCInv'
    <2>1. prov[lb] \in Present /\ UNCHANGED <<prov, manager, calls, tasks, replies, asked, cutShort>>
      BY <1>2 DEF DriverStats
    <2>2. CASE \E a \in Agents : Schedule(lb, a)
      BY <1>0, <2>1, <2>2, ScheduleGrows, BindingStep
    <2>3. CASE Refuse(lb)
      <3>1. BindingsGrow
        BY <2>3 DEF Refuse, vars, agentVars, BindingsGrow
      <3> QED BY <1>0, <2>1, <3>1, BindingStep
    <2> QED BY <1>2, <2>2, <2>3 DEF DriverStats, Request
  <1>3. ASSUME NEW c \in calls, DriverStep(c) PROVE LCInv'
    <2>1. CASE DeleteWithoutAgent(c)
      <3>1. c.lb \in LoadBalancers /\ c.lb \in asked
        BY <1>0, <2>1, CallFields DEF DeleteWithoutAgent, LCInv, Provenance
      <3> QED BY <1>0, <2>1, <3>1, RowGoesInv DEF DeleteWithoutAgent, End
    <2> QED BY <1>0, <1>3, <2>1, DriverScheduleInv, DriverNoAgentInv, DriverCastInv, CallEndsInv
            DEF DriverStep
  <1>4. ASSUME NEW a \in Agents, ListPending(a) PROVE LCInv'
    BY <1>0, <1>4, ListPendingInv
  <1>5. CASE OtherListing
    <2>1. BindingsGrow
      BY <1>0, <1>5, ScrubGrows DEF OtherListing, ListLoadbalancers, ScrubDeadAgents
    <2> QED BY <1>0, <1>5, <2>1, BindingStep DEF OtherListing
  <1>6. ASSUME NEW t \in tasks, AgentWorks(t) PROVE LCInv'
    BY <1>0, <1>6, AgentWorksInv
  <1>7. ASSUME NEW t \in tasks, LoseTask(t) PROVE LCInv'
    BY <1>0, <1>7, MessageInv DEF LoseTask
  <1>8. ASSUME NEW r \in replies, UpdateLoadbalancerStatus(r) PROVE LCInv'
    BY <1>0, <1>8, UpdateStatusInv
  <1>9. ASSUME NEW r \in replies, LoadbalancerDestroyed(r) PROVE LCInv'
    <2>1. r.lb \in LoadBalancers /\ r.lb \in asked
      BY <1>0, <1>9, ReplyFields DEF LoadbalancerDestroyed, LCInv, Provenance
    <2> QED BY <1>0, <1>9, <2>1, RowGoesInv DEF LoadbalancerDestroyed
  <1>10. ASSUME NEW r \in replies, LoseReply(r) PROVE LCInv'
    BY <1>0, <1>10, MessageInv DEF LoseReply
  <1>11. CASE Health
    BY <1>0, <1>11, HealthInv
  <1>12. CASE UNCHANGED lcVars
    BY <1>0, <1>12, MessageInv DEF lcVars
  <1>13. ASSUME NEW s \in Servers, ServerRestart(s) PROVE LCInv'
    BY <1>0, <1>13, ServerRestartInv
  <1>14. ASSUME NEW s \in Servers, NEW env \in Envs,
                OtherBegins(s, env) \/ \E a \in Agents : OtherCasts(s, env, a)
         PROVE  LCInv'
    BY <1>0, <1>14, OtherInv
  <1> QED BY <1>1, <1>2, <1>3, <1>4, <1>5, <1>6, <1>7, <1>8, <1>9, <1>10, <1>11, <1>12, <1>13, <1>14
          DEF LCNext, Confirm

(* The lifecycle keeps its variables in range. *)
THEOREM LifecycleTypeCorrect == LCSpec => []LCTypeOK
  <1>1. LCInv => LCTypeOK
    BY DEF LCInv
  <1> QED BY <1>1, LCInitInv, LCNextInv, PTL DEF LCSpec

(* No task reaches an agent of another environment, however bindings move  *)
(* between schedule() and the cast.                                        *)
THEOREM TasksStayInEnv == LCSpec => []TasksInEnv
  <1>1. LCInv => TasksInEnv
    BY DEF LCInv
  <1> QED BY <1>1, LCInitInv, LCNextInv, PTL DEF LCSpec

(* No request binds a load balancer whose row is gone. *)
THEOREM GoneStaysUnbound == LCSpec => []GoneIsUnbound
  <1>1. LCInv => GoneIsUnbound
    BY DEF LCInv
  <1> QED BY <1>1, LCInitInv, LCNextInv, PTL DEF LCSpec

(* A row is removed only if the tenant asked for it. *)
THEOREM GoneOnlyIfAsked == LCSpec => []GoneWasAsked
  <1>1. LCInv => GoneWasAsked
    BY DEF LCInv
  <1> QED BY <1>1, LCInitInv, LCNextInv, PTL DEF LCSpec

(* Between schedule() and the cast the load balancer stays with the agent  *)
(* that was returned, whatever other requests and listings move, as long   *)
(* as the agent is up and the row is there.                                *)
THEOREM ScheduledKeepsHost == LCSpec => []ScheduledStillHosts
  <1>1. LCInv => ScheduledStillHosts
    BY DEF LCInv
  <1> QED BY <1>1, LCInitInv, LCNextInv, PTL DEF LCSpec

(* A create or delete is abandoned without an agent only by a restart. *)
THEOREM OnlyRestartStrands == LCSpec => []StrandedOnlyByRestart
  <1>1. LCInv => StrandedOnlyByRestart
    BY DEF LCInv
  <1> QED BY <1>1, LCInitInv, LCNextInv, PTL DEF LCSpec

(* Only the removal of the row and a failing driver call take a load       *)
(* balancer out of PENDING_DELETE.                                         *)
LEMMA StepKeepsDelete ==
  ASSUME LCInv, [LCNext]_lcVars, NEW lb \in LoadBalancers, prov[lb] = "PENDING_DELETE"
  PROVE  \/ prov'[lb] \in {"PENDING_DELETE", "GONE"}
         \/ prov'[lb] = "ERROR" /\ \E c \in calls \ calls' : c.lb = lb
  <1>0. LCTypeOK
    BY DEF LCInv
  <1>1. ASSUME NEW k \in LoadBalancers,
               ApiCreate(k) \/ ApiUpdate(k) \/ ApiDelete(k) \/ DriverStats(k)
        PROVE  prov'[lb] = "PENDING_DELETE"
    BY <1>0, <1>1 DEF ApiCreate, ApiUpdate, ApiDelete, DriverStats, Ask, LCTypeOK
  <1>2. ASSUME NEW c \in calls, DriverStep(c)
        PROVE  \/ prov'[lb] \in {"PENDING_DELETE", "GONE"}
               \/ prov'[lb] = "ERROR" /\ \E d \in calls \ calls' : d.lb = lb
    <2>1. c.lb \in LoadBalancers
      BY <1>0, CallFields
    <2>2. CASE CreateFailed(c) \/ DriverRaises(c)
      BY <1>0, <2>1, <2>2 DEF CreateFailed, DriverRaises, End, LCTypeOK
    <2>3. CASE DeleteWithoutAgent(c)
      BY <1>0, <2>1, <2>3 DEF DeleteWithoutAgent, RemoveRow, LCTypeOK
    <2>4. CASE UNCHANGED prov
      BY <2>4
    <2> QED BY <1>2, <2>2, <2>3, <2>4
            DEF DriverStep, DriverSchedule, DriverNoAgent, DriverCast, UpdateFailed
  <1>3. ASSUME NEW r \in replies, Confirm(r) \/ LoseReply(r)
        PROVE  prov'[lb] \in {"PENDING_DELETE", "GONE"}
    BY <1>0, <1>3, ReplyFields
       DEF Confirm, UpdateLoadbalancerStatus, LoadbalancerDestroyed, RemoveRow, LoseReply, LCTypeOK
  <1>4. CASE UNCHANGED prov
    BY <1>4
  <1> QED BY <1>1, <1>2, <1>3, <1>4
          DEF LCNext, ServerRestart, OtherBegins, OtherCasts, ListPending, OtherListing,
              AgentWorks, LoseTask, Health, lcVars

(* A delete is not undone by a late confirmation. *)
THEOREM DeleteStands == LCSpec => DeleteNotUndone
  <1>1. LCInv /\ [LCNext]_lcVars =>
          [\A lb \in LoadBalancers :
             prov[lb] = "PENDING_DELETE" =>
               \/ prov'[lb] \in {"PENDING_DELETE", "GONE"}
               \/ prov'[lb] = "ERROR" /\ \E c \in calls \ calls' : c.lb = lb]_lcVars
    BY StepKeepsDelete
  <1> QED BY <1>1, LCInitInv, LCNextInv, PTL DEF LCSpec, DeleteNotUndone

(* What a lifecycle does to the bindings, the scheduler does.              *)
LEMMA LifecycleSchedules == LCSpec => Spec
  <1>1. LCInit => Init
    BY DEF LCInit
  <1>2. LCInv => LCTypeOK
    BY DEF LCInv
  <1> QED BY <1>1, <1>2, StepRefines, LCInitInv, LCNextInv, PTL DEF LCSpec, Spec

(* In the life of load balancers, too, bindings move only from agents that *)
(* are down to active ones, those of an agent move together, and a new     *)
(* load balancer is given an agent with room.                              *)
THEOREM LifecycleMoves == LCSpec => MovesOnlyToActive /\ FailOverTogether /\ NewHomeHasRoom
  BY LifecycleSchedules, MovesAreFailovers, MovesAreTogether, PlacesHaveRoom

(***************************************************************************)
(* The protocol of provisioning_status                                     *)
(***************************************************************************)

Working == {c.lb : c \in calls}

(* A call that goes on is still for its load balancer.                     *)
LEMMA CallAdvances ==
  ASSUME LCTypeOK, NEW c \in calls, NEW stage, Advance(c, stage)
  PROVE  Working' = Working
  <1> DEFINE next == [c EXCEPT !.at = stage, !.fell = stage \in Agents \ Active]
  <1>1. next.lb = c.lb /\ calls' = (calls \ {c}) \cup {next}
    BY CallFields DEF Advance, Calls
  <1> HIDE DEF next
  <1>2. \A x : x \in Working' <=> x \in Working
    BY <1>1 DEF Working
  <1> QED BY <1>2

(* One that ends leaves it among those worked on, or takes it away.        *)
LEMMA CallEnds ==
  ASSUME NEW c \in calls, End(c)
  PROVE  c.lb \in Working /\ Working' \in {Working, Working \ {c.lb}}
  <1>1. calls' = calls \ {c}
    BY DEF End
  <1>2. CASE \E d \in calls' : d.lb = c.lb
    BY <1>1, <1>2 DEF Working
  <1>3. CASE ~ \E d \in calls' : d.lb = c.lb
    BY <1>1, <1>3 DEF Working
  <1> QED BY <1>2, <1>3 DEF Working

LEMMA ApiIsRequest ==
  ASSUME NEW lb \in LoadBalancers, ApiCreate(lb) \/ ApiUpdate(lb) \/ ApiDelete(lb)
  PROVE  Status!Next
  <1>1. PICK op \in {"create", "update", "delete"}, s \in Servers :
          calls' = calls \cup {[op |-> op, lb |-> lb, server |-> s,
                                at |-> "start", fell |-> FALSE]}
    BY DEF ApiCreate, ApiUpdate, ApiDelete, Ask
  <1>2. Working' = Working \cup {lb}
    <2> DEFINE new == [op |-> op, lb |-> lb, server |-> s, at |-> "start", fell |-> FALSE]
    <2>1. new.lb = lb /\ calls' = calls \cup {new}
      BY <1>1
    <2> HIDE DEF new
    <2>2. \A x : x \in Working' <=> x \in Working \/ x = lb
      BY <2>1 DEF Working
    <2> QED BY <2>2
  <1>3. Status!Request(lb)
    BY <1>2 DEF ApiCreate, ApiUpdate, ApiDelete, Ask, Working, Status!Request, Status!Becomes
  <1> QED BY <1>3 DEF Status!Next

(* Removing a row that its tenant asked to remove.                         *)
LEMMA RowRemovalIsProtocol ==
  ASSUME LCInv, NEW lb \in LoadBalancers, lb \in asked, RemoveRow(lb), UNCHANGED asked,
         Working' \in {Working, Working \ {lb}}
  PROVE  prov' = prov \/ Status!Next
  <1> SUFFICES ASSUME prov[lb] \in Present, prov' = [prov EXCEPT ![lb] = "GONE"]
               PROVE  Status!Next
    BY DEF RemoveRow
  <1>1. prov' = [k \in LoadBalancers |->
                  IF k \in [m \in LoadBalancers |-> {m}][lb] /\ prov[k] \in Status!Present
                    THEN "GONE" ELSE prov[k]]
    BY DEF LCInv, LCTypeOK, Status!Present, Present, Pending
  <1>2. Status!Remove(lb)
    BY <1>1 DEF Status!Remove, Status!CallGoesOn, Working
  <1> QED BY <1>2 DEF Status!Next

LEMMA CallIsProtocol ==
  ASSUME LCInv, NEW c \in calls, DriverStep(c)
  PROVE  [Status!Next]_(Status!vars)
  <1>1. c.lb \in LoadBalancers
    BY CallFields DEF LCInv
  <1>2. UNCHANGED asked
    BY DEF DriverStep, DriverSchedule, DriverNoAgent, DriverCast, CreateFailed, UpdateFailed,
           DeleteWithoutAgent, DriverRaises
  <1>3. CASE DriverSchedule(c) \/ DriverNoAgent(c)
    <2>1. UNCHANGED prov /\ Working' = Working
      BY <1>3, CallAdvances DEF DriverSchedule, DriverNoAgent, LCInv
    <2> QED BY <1>2, <2>1 DEF Status!vars, Working
  <1>4. ASSUME End(c), prov' = prov PROVE Status!Next
    <2>1. Status!EndCall(c.lb)
      BY <1>2, <1>4, CallEnds DEF Status!EndCall, Status!CallGoesOn, Working
    <2> QED BY <1>1, <2>1 DEF Status!Next
  <1>5. ASSUME End(c), prov[c.lb] \in Present, prov' = [prov EXCEPT ![c.lb] = "ERROR"]
        PROVE  Status!Next
    <2>1. Status!Fail(c.lb)
      BY <1>2, <1>5, CallEnds DEF Status!Fail, Status!Becomes, Status!CallGoesOn, Status!Present,
                                  Present, Pending, Working
    <2> QED BY <1>1, <2>1 DEF Status!Next
  <1>6. CASE DriverCast(c) \/ UpdateFailed(c)
    BY <1>4, <1>6 DEF DriverCast, UpdateFailed
  <1>7. CASE CreateFailed(c) \/ DriverRaises(c)
    BY <1>4, <1>5, <1>7 DEF CreateFailed, DriverRaises
  <1>8. CASE DeleteWithoutAgent(c)
    <2>1. c.lb \in asked /\ End(c) /\ RemoveRow(c.lb)
      BY <1>8 DEF DeleteWithoutAgent, LCInv, Provenance
    <2> QED BY <1>1, <1>2, <1>4, <2>1, CallEnds, RowRemovalIsProtocol
  <1> QED BY <1>3, <1>6, <1>7, <1>8 DEF DriverStep

LEMMA ConfirmIsProtocol ==
  ASSUME LCInv, NEW r \in replies, Confirm(r)
  PROVE  [Status!Next]_(Status!vars)
  <1>1. r.lb \in LoadBalancers /\ UNCHANGED <<calls, asked>>
    BY ReplyFields DEF LCInv, Confirm, UpdateLoadbalancerStatus, LoadbalancerDestroyed
  <1>2. Working' = Working
    BY <1>1 DEF Working
  <1>3. CASE prov' = prov
    BY <1>1, <1>2, <1>3 DEF Status!vars, Working
  <1>4. CASE UpdateLoadbalancerStatus(r) /\ prov[r.lb] \in Present \ {"PENDING_DELETE"}
    <2>1. Status!Confirm(r.lb)
      BY <1>1, <1>2, <1>4 DEF UpdateLoadbalancerStatus, Status!Confirm, Status!Becomes,
                              Status!Present, Present, Pending, Working
    <2> QED BY <1>1, <2>1 DEF Status!Next
  <1>5. CASE LoadbalancerDestroyed(r)
    <2>1. r.lb \in asked /\ RemoveRow(r.lb)
      BY <1>5 DEF LoadbalancerDestroyed, LCInv, Provenance
    <2> QED BY <1>1, <1>2, <1>3, <2>1, RowRemovalIsProtocol
  <1> QED BY <1>3, <1>4, <1>5 DEF Confirm, UpdateLoadbalancerStatus

(* The health of agents is nothing to the protocol.                        *)
LEMMA HealthKeepsWorking == ASSUME LCTypeOK, Health PROVE Working' = Working
  <1> DEFINE Seen(c) == [c EXCEPT !.fell = c.fell \/ c.at \in Agents \ Active']
  <1>1. calls' = {Seen(c) : c \in calls}
    BY DEF Health
  <1>2. \A c \in calls : Seen(c).lb = c.lb
    BY CallFields DEF Calls
  <1> HIDE DEF Seen
  <1>3. \A x : x \in Working' <=> x \in Working
    BY <1>1, <1>2 DEF Working
  <1> QED BY <1>3

(* Every step keeps the protocol of provisioning_status or leaves it be.   *)
LEMMA StepIsProtocol == LCInv /\ [LCNext]_lcVars => [Status!Next]_(Status!vars)
  <1> SUFFICES ASSUME LCInv, [LCNext]_lcVars PROVE [Status!Next]_(Status!vars)
    OBVIOUS
  <1>1. CASE \E lb \in LoadBalancers : ApiCreate(lb) \/ ApiUpdate(lb) \/ ApiDelete(lb)
    BY <1>1, ApiIsRequest
  <1>2. CASE \E c \in calls : DriverStep(c)
    BY <1>2, CallIsProtocol
  <1>3. CASE \E r \in replies : Confirm(r)
    BY <1>3, ConfirmIsProtocol
  <1>4. CASE \E s \in Servers : ServerRestart(s)
    <2>1. Working' \subseteq Working /\ UNCHANGED <<prov, asked>>
      BY <1>4 DEF ServerRestart, Working
    <2> QED BY <2>1 DEF Status!Next, Status!Stop, Working
  <1>5. CASE Health
    <2>1. Working' = Working /\ UNCHANGED <<prov, asked>>
      BY <1>5, HealthKeepsWorking DEF LCInv, Health
    <2> QED BY <2>1 DEF Status!vars, Working
  <1>6. ASSUME \/ \E lb \in LoadBalancers : DriverStats(lb)
               \/ \E s \in Servers, env \in Envs :
                    OtherBegins(s, env) \/ \E a \in Agents : OtherCasts(s, env, a)
               \/ \E a \in Agents : ListPending(a)
               \/ OtherListing
               \/ \E t \in tasks : AgentWorks(t) \/ LoseTask(t)
               \/ \E r \in replies : LoseReply(r)
               \/ UNCHANGED lcVars
        PROVE  UNCHANGED <<prov, calls, asked>>
    BY <1>6 DEF DriverStats, OtherBegins, OtherCasts, ListPending, OtherListing, AgentWorks,
                LoseTask, LoseReply, lcVars
  <1>7. CASE UNCHANGED <<prov, calls, asked>>
    BY <1>7 DEF Status!vars
  <1> QED BY <1>1, <1>2, <1>3, <1>4, <1>5, <1>6, <1>7 DEF LCNext

(* A load balancer implements StatusProtocol: whatever is late, lost or    *)
(* repeated, its status moves only as the protocol says.                   *)
THEOREM LifecycleKeepsProtocol == LCSpec => ImplementsStatus
  <1>1. LCInit => Status!Init
    BY DEF LCInit, Status!Init
  <1> QED BY <1>1, StepIsProtocol, LCInitInv, LCNextInv, PTL
          DEF LCSpec, ImplementsStatus, Status!Spec
================================================================================
