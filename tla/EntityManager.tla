----------------------------- MODULE EntityManager -----------------------------
(***************************************************************************)
(* One manager object of driver_v2.py (ListenerManager, PoolManager, ...)  *)
(* and the API threads that share it.  A request leaves its load balancer, *)
(* and for create and delete its own dictionary, in attributes of the      *)
(* manager (self.loadbalancer, self.api_dict), and reads them again later. *)
(* The threads are green: another one runs whenever a call waits for the   *)
(* database, that is inside schedule(), build() and the core plugin calls, *)
(* and nowhere else.  So a step goes from one such call to the next.       *)
(***************************************************************************)
EXTENDS Integers

CONSTANTS
  Requests,       \* calls of the manager's methods
  Kind,           \* which code path a request takes, see Kinds
  LBOf,           \* load balancer its entity is attached to, or None
  LoadBalancers,
  None

(* "shared": create and delete, through _call_rpc and self.api_dict;       *)
(* "own": updates, and the member delete, with dictionaries of their own;  *)
(* "fakePort": member create with unlegacy_setting_placeholder_driver_side *)
(* on, which also makes a port while the request is under way.             *)
Kinds == {"shared", "own", "fakePort"}

ASSUME EntityAssumption ==
  /\ Kind \in [Requests -> Kinds]
  /\ LBOf \in [Requests -> LoadBalancers \cup {None}]
  /\ None \notin LoadBalancers \cup Requests

VARIABLES
  loadbalancer,   \* self.loadbalancer
  apiDict,        \* self.api_dict, named by the request it describes
  at,             \* where each request is
  asked,          \* the load balancer a request had schedule() find an agent for
  built,          \* the load balancer a request had build() describe
  port,           \* the fake pool port of each request: "none", "known" or,
                  \* when create_port answered without an id, "nameless"
  sent,           \* casts: [by, host, dict, service]
  crossed         \* requests that ran while another request ran

vars == <<loadbalancer, apiDict, at, asked, built, port, sent, crossed>>
locals == <<asked, built, port, sent>>

(* "subnet", "port" and "unport" wait for the core plugin, "schedule" and  *)
(* "build" for the calls of _schedule_agent_create_service; "schedule1"    *)
(* and "build1" are the first round of a member create with a port.        *)
Waiting == {"subnet", "schedule1", "build1", "port", "schedule", "build", "unport"}
Over == {"done", "raised"}

Casts == [by : Requests, host : LoadBalancers, dict : Requests, service : LoadBalancers]

TypeOK ==
  /\ loadbalancer \in LoadBalancers \cup {None}
  /\ apiDict \in Requests \cup {None}
  /\ at \in [Requests -> Waiting \cup Over \cup {"new"}]
  /\ asked \in [Requests -> LoadBalancers \cup {None}]
  /\ built \in [Requests -> LoadBalancers \cup {None}]
  /\ port \in [Requests -> {"none", "known", "nameless"}]
  /\ sent \in SUBSET Casts
  /\ crossed \in SUBSET Requests

Init ==
  /\ loadbalancer = None
  /\ apiDict = None
  /\ at = [r \in Requests |-> "new"]
  /\ asked = [r \in Requests |-> None]
  /\ built = [r \in Requests |-> None]
  /\ port = [r \in Requests |-> "none"]
  /\ sent = {}
  /\ crossed = {}

Running == {r \in Requests : at[r] \in Waiting}

Goto(r, place) == at' = [at EXCEPT ![r] = place]

(* _setup_crud up to the wait in schedule(), with lb in self.loadbalancer: *)
(* its id is schedule()'s argument, so it is read before the wait.         *)
SetupCrud(r, lb, place) ==
  IF LBOf[r] # None /\ lb # None
    THEN Goto(r, place) /\ asked' = [asked EXCEPT ![r] = lb]
    ELSE Goto(r, "raised") /\ UNCHANGED asked     \* F5NoAttachedLoadbalancer

(* Mutants: an attribute is set only when it has no value yet. *)
BeginKeepsLB(r) ==
  /\ at[r] = "new"
  /\ loadbalancer' = IF loadbalancer = None THEN LBOf[r] ELSE loadbalancer
  /\ apiDict' = IF Kind[r] = "shared" THEN r ELSE apiDict
  /\ IF Kind[r] = "fakePort"
       THEN Goto(r, "subnet") /\ UNCHANGED asked
       ELSE SetupCrud(r, loadbalancer', "schedule")
  /\ crossed' = IF Running = {} THEN crossed ELSE crossed \cup Running \cup {r}
  /\ UNCHANGED <<built, port, sent>>

BeginKeepsDict(r) ==
  /\ at[r] = "new"
  /\ loadbalancer' = LBOf[r]
  /\ apiDict' = IF Kind[r] = "shared" /\ apiDict = None THEN r ELSE apiDict
  /\ IF Kind[r] = "fakePort"
       THEN Goto(r, "subnet") /\ UNCHANGED asked
       ELSE SetupCrud(r, LBOf[r], "schedule")
  /\ crossed' = IF Running = {} THEN crossed ELSE crossed \cup Running \cup {r}
  /\ UNCHANGED <<built, port, sent>>

(* The method up to its first wait. *)
Begin(r) ==
  /\ at[r] = "new"
  /\ loadbalancer' = LBOf[r]
  /\ apiDict' = IF Kind[r] = "shared" THEN r ELSE apiDict
  /\ IF Kind[r] = "fakePort"
       THEN Goto(r, "subnet") /\ UNCHANGED asked
       ELSE SetupCrud(r, LBOf[r], "schedule")
  /\ crossed' = IF Running = {} THEN crossed ELSE crossed \cup Running \cup {r}
  /\ UNCHANGED <<built, port, sent>>

(* get_subnet returns, and the first _setup_crud of a member create starts. *)
GotSubnet(r) ==
  /\ at[r] = "subnet"
  /\ SetupCrud(r, loadbalancer, "schedule1")
  /\ UNCHANGED <<loadbalancer, apiDict, built, port, sent, crossed>>

(* schedule() returns an agent and build() is called: it is given what     *)
(* self.loadbalancer is now.                                               *)
Scheduled(r) ==
  /\ at[r] \in {"schedule1", "schedule"}
  /\ loadbalancer # None
  /\ built' = [built EXCEPT ![r] = loadbalancer]
  /\ Goto(r, IF at[r] = "schedule1" THEN "build1" ELSE "build")
  /\ UNCHANGED <<loadbalancer, apiDict, asked, port, sent, crossed>>

(* Mutant: the port is forgotten. *)
NoAgentForgets(r) ==
  /\ at[r] \in {"schedule1", "schedule"}
  /\ Goto(r, IF at[r] = "schedule" THEN "done" ELSE "raised")
  /\ UNCHANGED <<loadbalancer, apiDict, locals, crossed>>

(* schedule() finds no agent.  _call_rpc logs that and the method goes on; *)
(* elsewhere it is raised.                                                 *)
NoAgent(r) ==
  /\ at[r] \in {"schedule1", "schedule"}
  /\ Goto(r, CASE at[r] = "schedule" /\ Kind[r] = "fakePort" -> "unport"
               [] at[r] = "schedule" /\ Kind[r] = "shared" -> "done"
               [] OTHER -> "raised")
  /\ UNCHANGED <<loadbalancer, apiDict, locals, crossed>>

(* Any other exception while a call waits, also build() of no load         *)
(* balancer; it is logged and raised again.                                *)
Fails(r) ==
  /\ at[r] \in Waiting
  /\ Goto(r, "raised")
  /\ UNCHANGED <<loadbalancer, apiDict, locals, crossed>>

(* The first build() returns; the port is created on the agent's host.     *)
BuiltForPort(r) ==
  /\ at[r] = "build1"
  /\ Goto(r, "port")
  /\ UNCHANGED <<loadbalancer, apiDict, locals, crossed>>

(* create_port returns, with or without an id; the member's dictionary is  *)
(* left in the manager and _call_rpc starts over with _setup_crud.         *)
GotPort(r) ==
  /\ at[r] = "port"
  /\ port' \in {[port EXCEPT ![r] = how] : how \in {"known", "nameless"}}
  /\ apiDict' = r
  /\ SetupCrud(r, loadbalancer, "schedule")
  /\ UNCHANGED <<loadbalancer, built, sent, crossed>>

(* Mutant: every cast takes its dictionary from the manager. *)
CastShared(r) ==
  /\ at[r] = "build"
  /\ sent' = sent \cup
       {[by |-> r, host |-> asked[r], service |-> built[r], dict |-> apiDict]}
  /\ Goto(r, IF Kind[r] = "fakePort" THEN "unport" ELSE "done")
  /\ UNCHANGED <<loadbalancer, apiDict, asked, built, port, crossed>>

(* build() returns and the cast goes to the host that schedule() gave.     *)
Cast(r) ==
  /\ at[r] = "build"
  /\ sent' = sent \cup
       {[by |-> r, host |-> asked[r], service |-> built[r],
         dict |-> IF Kind[r] = "own" THEN r ELSE apiDict]}
  /\ Goto(r, IF Kind[r] = "fakePort" THEN "unport" ELSE "done")
  /\ UNCHANGED <<loadbalancer, apiDict, asked, built, port, crossed>>

(* delete_port of the fake port; without its id that is logged only.       *)
PortGone(r) ==
  /\ at[r] = "unport"
  /\ port' = IF port[r] = "known" THEN [port EXCEPT ![r] = "none"] ELSE port
  /\ Goto(r, "done")
  /\ UNCHANGED <<loadbalancer, apiDict, asked, built, sent, crossed>>

Step(r) ==
  \/ Begin(r) \/ GotSubnet(r) \/ Scheduled(r) \/ NoAgent(r) \/ Fails(r)
  \/ BuiltForPort(r) \/ GotPort(r) \/ Cast(r) \/ PortGone(r)

Next == \E r \in Requests : Step(r)

Spec == Init /\ [][Next]_vars

--------------------------------------------------------------------------------
(***************************************************************************)
(* Properties                                                              *)
(***************************************************************************)

(* A request without a fake port always reaches the agent of its own load  *)
(* balancer, whichever other requests ran between: schedule() is called    *)
(* with what the same thread has just put into self.loadbalancer.          *)
HostIsOwn ==
  \A m \in sent : Kind[m.by] # "fakePort" => m.host = LBOf[m.by]

(* A request that no other request overlapped sends its own dictionary and *)
(* its own load balancer's service to its own agent: what earlier requests *)
(* left in the manager, failed ones too, does not leak into it.            *)
AloneIsOwn ==
  \A m \in sent :
    m.by \notin crossed => m.host = LBOf[m.by] /\ m.dict = m.by /\ m.service = LBOf[m.by]

(* A request whose entity has no load balancer sends nothing. *)
UnattachedIsSilent ==
  \A m \in sent : LBOf[m.by] # None

(* A fake pool port outlives its request only if the request raised, or    *)
(* the core plugin did not say which port it had made: also when schedule()*)
(* finds no agent on the second round.                                     *)
PortRemoved ==
  \A r \in Requests : port[r] = "known" => at[r] # "done"

(* "Setup CRUD operations for managers to make calls to agent" for the     *)
(* entity that is the "target of the CRUD operation": the driver's tests   *)
(* assert the call with the entity's own dictionary (test_driver_v2.py,    *)
(* test_listenermgr_create).                                               *)
CastIsOwn ==
  \A m \in sent : Kind[m.by] # "fakePort" => m.dict = m.by
================================================================================
