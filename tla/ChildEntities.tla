----------------------------- MODULE ChildEntities -----------------------------
(***************************************************************************)
(* The listeners, pools, members, monitors, policies and rules of one load *)
(* balancer: the managers of driver_v2.py cast its service definition, an  *)
(* agent brings the device to it and confirms each entity by itself, and   *)
(* plugin_rpc.py records the confirmations and tells the agent what on its *)
(* device the database does not know any more.                             *)
(*                                                                         *)
(* What makes this hard: a request locks the load balancer, but the status *)
(* it waits for is the entity's; the confirmations of the two are separate *)
(* messages, late, reordered or lost; and a service definition describes   *)
(* the entities as they were when it was built.                            *)
(*                                                                         *)
(* External, from how this code uses them: the neutron-lbaas API (which    *)
(* admits a request if the load balancer is not PENDING, whatever the      *)
(* status of the entity, and marks ERROR what the driver raised on), its   *)
(* database functions, the message bus and the agent.                      *)
(***************************************************************************)
EXTENDS ServiceTree, Integers

CONSTANTS
  MaxOps,         \* bound on the tenant's requests
  MaxTasks,       \* bound on the casts in flight
  MaxReplies,     \* the agent works when fewer confirmations are in flight
  MayFail,        \* entities that a query may raise for
  MayUpdate,      \* entities that a tenant may update
  InitialRows     \* the sets of entities a behaviour may start with

ASSUME ChildAssumption ==
  /\ MaxOps \in Nat
  /\ MayFail \subseteq Entities /\ MayUpdate \subseteq Entities
  /\ \A rows \in InitialRows :
       rows \subseteq Entities /\ \A e \in rows : ParentOf[e] \in rows \cup {LB}

VARIABLES
  lbPending,      \* the load balancer's provisioning_status is PENDING
  prov,           \* theirs; "ABSENT" before and "GONE" after the row
  calls,          \* driver calls in progress: [of, number]
  tasks,          \* service definitions cast to the agent, or fetched by it
  replies,        \* confirmations on their way to the driver
  device,         \* what the agent has deployed
  ops,            \* requests so far
  since,          \* number of the last request for each entity
  asked,          \* entities the tenant has ever asked to delete
  unknown,        \* off the device because a query for them failed
  leftOut         \* the load balancer was unlocked without them, or a
                  \* confirmation of theirs was lost

ceVars == <<lbPending, prov, calls, tasks, replies, device,
            ops, since, asked, unknown, leftOut>>
tenant == <<ops, since, asked>>

Pending == {"PENDING_CREATE", "PENDING_UPDATE", "PENDING_DELETE"}
Present == Pending \cup {"ACTIVE", "ERROR"}

Rows == {e \in Entities : prov[e] \in Present}

Calls == [of : Entities, number : 0..MaxOps]
Replies == [of : Entities \cup {LB}, says : {"ACTIVE", "ERROR", "destroyed"}, upTo : 0..MaxOps]

CETypeOK ==
  /\ lbPending \in BOOLEAN
  /\ prov \in [Entities -> Present \cup {"ABSENT", "GONE"}]
  /\ calls \in SUBSET Calls
  /\ \A t \in tasks :
       /\ t.via \in {"cast", "fetch"} /\ t.upTo \in 0..MaxOps
       /\ DOMAIN t.status \in SUBSET Entities
       /\ \A e \in DOMAIN t.status : t.status[e] \in Present
  /\ replies \in SUBSET Replies
  /\ device \in SUBSET Entities
  /\ ops \in 0..MaxOps
  /\ since \in [Entities -> 0..MaxOps]
  /\ asked \in SUBSET Entities
  /\ unknown \in SUBSET Entities
  /\ leftOut \in SUBSET Entities

CEInit ==
  /\ lbPending = FALSE
  /\ \E rows \in InitialRows :
       /\ prov = [e \in Entities |-> IF e \in rows THEN "ACTIVE" ELSE "ABSENT"]
       /\ device = rows
  /\ calls = {}
  /\ tasks = {}
  /\ replies = {}
  /\ ops = 0
  /\ since = [e \in Entities |-> 0]
  /\ asked = {}
  /\ unknown = {}
  /\ leftOut = {}

--------------------------------------------------------------------------------
(* The API in front of the driver *)

Ask(e, status) ==
  /\ ops < MaxOps
  /\ ~lbPending
  /\ lbPending' = TRUE
  /\ prov' = [prov EXCEPT ![e] = status]
  /\ calls' = calls \cup {[of |-> e, number |-> ops + 1]}
  /\ ops' = ops + 1
  /\ since' = [since EXCEPT ![e] = ops + 1]
  /\ leftOut' = leftOut \ {e}
  /\ UNCHANGED <<tasks, replies, device, unknown>>

ApiCreate(e) ==
  /\ prov[e] = "ABSENT"
  /\ ParentOf[e] \in Rows \cup {LB}
  /\ Ask(e, "PENDING_CREATE")
  /\ UNCHANGED asked

ApiUpdate(e) == e \in Rows \cap MayUpdate /\ Ask(e, "PENDING_UPDATE") /\ UNCHANGED asked

ApiDelete(e) ==
  /\ e \in Rows
  /\ Ask(e, "PENDING_DELETE")
  /\ asked' = asked \cup {e}

--------------------------------------------------------------------------------
(* The driver's calls *)

(* The service definition: what build() finds, as it is now. *)
Definition(via) == [via |-> via, upTo |-> ops, status |-> [e \in Service(Rows) |-> prov[e]]]

Casts == {t \in tasks : t.via = "cast"}
Fetched == tasks \ Casts

(* _call_rpc, or the update's own code: the cast to the agent. *)
CallCasts(c) ==
  /\ Cardinality(Casts) < MaxTasks
  /\ tasks' = tasks \cup {Definition("cast")}
  /\ calls' = calls \ {c}
  /\ UNCHANGED <<lbPending, prov, replies, device, tenant, unknown, leftOut>>

(* schedule() or build() raises, the method raises it again, and the API   *)
(* marks the entity ERROR and frees the load balancer.                     *)
CallRaises(c) ==
  /\ prov' = IF c.of \in Rows THEN [prov EXCEPT ![c.of] = "ERROR"] ELSE prov
  /\ lbPending' = FALSE
  /\ leftOut' = (leftOut \cup {x \in Rows : prov[x] \in Pending}) \ {c.of}
  /\ calls' = calls \ {c}
  /\ UNCHANGED <<tasks, replies, device, tenant, unknown>>

(* _call_rpc finds no agent, which it only logs, or the server restarts.   *)
CallDropped(c) ==
  /\ calls' = calls \ {c}
  /\ UNCHANGED <<lbPending, prov, tasks, replies, device, tenant, unknown, leftOut>>

--------------------------------------------------------------------------------
(* The agent *)

To(t, statuses) == {e \in DOMAIN t.status : t.status[e] \in statuses}

Said(es, what, number) == {[of |-> e, says |-> what, upTo |-> number] : e \in es}

(* The device is brought to the definition, and everything confirmed. *)
Deploy(t) ==
  LET off == UNION {Subtree[e] : e \in To(t, {"PENDING_DELETE"})}
      on  == DOMAIN t.status \ off
  IN  /\ Cardinality(replies) < MaxReplies
      /\ device' = (device \cup on) \ off
      /\ unknown' = unknown \ on
      /\ replies' = replies
           \cup Said(To(t, {"PENDING_CREATE", "PENDING_UPDATE"}), "ACTIVE", 0)
           \cup Said(To(t, {"PENDING_DELETE"}), "destroyed", 0)
           \cup Said({LB}, "ACTIVE", t.upTo)

(* The agent cannot: it says so, of each pending entity.  The load         *)
(* balancer's confirmation then ends no request (its number is 0).         *)
GiveUp(t) ==
  /\ Cardinality(replies) < MaxReplies
  /\ replies' = replies \cup Said(To(t, Pending), "ERROR", 0) \cup Said({LB}, "ACTIVE", 0)
  /\ UNCHANGED <<device, unknown>>

AgentWorks(t) ==
  /\ Deploy(t) \/ GiveUp(t)
  /\ tasks' = tasks \ {t}
  /\ UNCHANGED <<lbPending, prov, calls, tenant, leftOut>>

(* get_pending_loadbalancers names the load balancer, and the agent fetches*)
(* get_service_by_loadbalancer_id, one answer at a time, to work on it; if *)
(* the build raises the answer is {}, which holds nothing to work on.      *)
AgentFetches(fails) ==
  /\ lbPending
  /\ Fetched = {}
  /\ tasks' = IF fails THEN tasks ELSE {Definition("fetch")} \cup tasks
  /\ UNCHANGED <<lbPending, prov, calls, replies, device, tenant, unknown, leftOut>>

LoseTask(t) ==
  /\ tasks' = tasks \ {t}
  /\ UNCHANGED <<lbPending, prov, calls, replies, device, tenant, unknown, leftOut>>

LoseReply(r) ==
  /\ replies' = replies \ {r}
  /\ leftOut' = leftOut \cup {e \in Rows : e = r.of /\ prov[e] \in Pending}
  /\ UNCHANGED <<lbPending, prov, calls, tasks, device, tenant, unknown>>

--------------------------------------------------------------------------------
(* The confirmations *)

Settle(e, status) ==
  /\ prov' = IF e \in Rows THEN [prov EXCEPT ![e] = status] ELSE prov
  /\ leftOut' = {x \in leftOut : prov'[x] \in Pending}
  /\ UNCHANGED lbPending

(* update_listener_status, update_l7policy_status, update_l7rule_status:   *)
(* PENDING_DELETE is written again.                                        *)
RewriteStatus(r) ==
  /\ r.of \in Entities /\ KindOf[r.of] \in {"listener", "l7policy", "l7rule"}
  /\ r.says \in {"ACTIVE", "ERROR"}
  /\ Settle(r.of, IF prov[r.of] = "PENDING_DELETE" THEN "PENDING_DELETE" ELSE r.says)

WriteStatusUnread(r) ==       \* mutant: any confirmation taken for a status
  /\ r.of \in Entities /\ KindOf[r.of] \in {"pool", "member", "healthmonitor"}
  /\ IF prov[r.of] = "PENDING_DELETE"
       THEN UNCHANGED <<lbPending, prov, leftOut>>
       ELSE Settle(r.of, r.says)

WriteStatusAnew(r) ==         \* mutant: the row is written again without a look
  /\ r.of \in Entities /\ KindOf[r.of] \in {"pool", "member", "healthmonitor"}
  /\ r.says \in {"ACTIVE", "ERROR"}
  /\ IF prov[r.of] = "PENDING_DELETE"
       THEN UNCHANGED <<lbPending, prov, leftOut>>
       ELSE /\ prov' = [prov EXCEPT ![r.of] = r.says]
            /\ leftOut' = {x \in leftOut : prov'[x] \in Pending}
            /\ UNCHANGED lbPending

WriteStatusPlain(r) ==        \* mutant: written over PENDING_DELETE
  /\ r.of \in Entities /\ KindOf[r.of] \in {"pool", "member", "healthmonitor"}
  /\ r.says \in {"ACTIVE", "ERROR"}
  /\ Settle(r.of, r.says)

WriteStatusSettled(r) ==      \* mutant: nothing written over any PENDING status
  /\ r.of \in Entities /\ KindOf[r.of] \in {"pool", "member", "healthmonitor"}
  /\ r.says \in {"ACTIVE", "ERROR"}
  /\ IF prov[r.of] \in Pending
       THEN UNCHANGED <<lbPending, prov, leftOut>>
       ELSE Settle(r.of, r.says)

(* update_pool_status, update_member_status, update_health_monitor_status: *)
(* nothing is written over PENDING_DELETE.                                 *)
WriteStatus(r) ==
  /\ r.of \in Entities /\ KindOf[r.of] \in {"pool", "member", "healthmonitor"}
  /\ r.says \in {"ACTIVE", "ERROR"}
  /\ IF prov[r.of] = "PENDING_DELETE"
       THEN UNCHANGED <<lbPending, prov, leftOut>>
       ELSE Settle(r.of, r.says)

DestroyedAbove(r) ==          \* mutant: the id of what the entity belongs to
  /\ r.says = "destroyed"
  /\ prov' = [e \in Entities |->
               IF e \in Rows /\ (e = r.of \/ e = ParentOf[r.of]) THEN "GONE" ELSE prov[e]]
  /\ UNCHANGED <<lbPending, leftOut>>

(* The *_destroyed calls; without a row the database raises.               *)
Destroyed(r) ==
  /\ r.says = "destroyed"
  /\ prov' = IF r.of \in Rows
               THEN [e \in Entities |-> IF e \in Subtree[r.of] \cap Rows THEN "GONE" ELSE prov[e]]
               ELSE prov
  /\ leftOut' = {x \in leftOut : prov'[x] \in Pending}
  /\ UNCHANGED lbPending

(* update_loadbalancer_status knows nothing of the entities: whatever they *)
(* wait for, the load balancer is free.  A request younger than the        *)
(* definition the agent worked on is left out.                             *)
Unlock(r) ==
  /\ r.of = LB
  /\ lbPending' = FALSE
  /\ leftOut' = IF lbPending
                  THEN leftOut \cup {e \in Rows : prov[e] \in Pending /\ since[e] > r.upTo}
                  ELSE leftOut
  /\ UNCHANGED prov

Confirm(r) ==
  /\ replies' = replies \ {r}
  /\ UNCHANGED <<calls, tasks, device, tenant, unknown>>
  /\ RewriteStatus(r) \/ WriteStatus(r) \/ Destroyed(r) \/ Unlock(r)

--------------------------------------------------------------------------------
(* The agent asks which of what it has deployed is still known, and takes  *)
(* the rest off the device before it works on anything else.               *)

ValidatedStateActive(e, fails) ==   \* mutant: only what is ACTIVE is known
  IF e \in Rows /\ prov[e] = "ACTIVE" /\ ~fails THEN prov[e] ELSE "Unknown"

ValidatedStateRaises(e, fails) ==   \* mutant: an exception is not answered
  prov[e]

(* validate_pools_state, validate_listeners_state: every exception of the  *)
(* query reads as "not there".                                             *)
ValidatedState(e, fails) == IF e \in Rows /\ ~fails THEN prov[e] ELSE "Unknown"

TakeOff(es, wrongly) ==
  /\ UNCHANGED <<lbPending, prov, calls, tasks, replies, tenant, leftOut>>
  /\ device' = device \ es
  /\ unknown' = unknown \cup wrongly

(* fails: the query for it raises. *)
PurgeUnknown(e, fails) ==
  /\ e \in device /\ KindOf[e] \in {"pool", "listener"}
  /\ fails => e \in MayFail
  /\ ValidatedState(e, fails) = "Unknown"
  /\ TakeOff(Subtree[e], IF fails THEN Subtree[e] \cap Rows ELSE {})

(* get_pools_members of the deployed pools. *)
PurgeMembers ==
  LET pools == {q \in device : KindOf[q] = "pool"}
  IN  TakeOff({m \in device : KindOf[m] = "member" /\ ParentOf[m] \in pools}
                \ Members(Rows, pools), {})

(* validate_l7policys_state_by_listener: has it any policy?  The policies  *)
(* of a listener without one go.                                           *)
HasL7Policy(listener) == \E p \in Rows : KindOf[p] = "l7policy" /\ ParentOf[p] = listener

PurgePolicies ==
  LET bare == {l \in device : KindOf[l] = "listener" /\ ~HasL7Policy(l)}
      gone == {p \in device : KindOf[p] = "l7policy" /\ ParentOf[p] \in bare}
  IN  TakeOff(UNION {Subtree[p] : p \in gone}, {})

--------------------------------------------------------------------------------

CENext ==
  \/ \E e \in Entities : ApiCreate(e) \/ ApiUpdate(e) \/ ApiDelete(e)
  \/ \E c \in calls : CallCasts(c) \/ CallRaises(c) \/ CallDropped(c)
  \/ \E fails \in BOOLEAN : AgentFetches(fails)
  \/ \E t \in tasks : AgentWorks(t) \/ LoseTask(t)
  \/ \E r \in replies : Confirm(r) \/ LoseReply(r)
  \/ \E e \in device, fails \in BOOLEAN : PurgeUnknown(e, fails)
  \/ PurgeMembers
  \/ PurgePolicies

CESpec == CEInit /\ [][CENext]_ceVars

(***************************************************************************)
(* Fairness: the agent keeps listing, confirming and purging; not every    *)
(* build of a definition it fetches fails, nor does it give up on each; a  *)
(* confirmation of the load balancer that is sent again and again arrives, *)
(* one of an entity arrives unless it is lost; not every query fails.      *)
(* Nothing is assumed of the casts: they may all be lost.                  *)
(***************************************************************************)
DeploysFetched == \E t \in Fetched : AgentWorks(t) /\ Deploy(t)

Answers(xs) == \E r \in replies : r.of \in xs /\ Confirm(r)

Purge == (\E e \in device : PurgeUnknown(e, FALSE)) \/ PurgeMembers \/ PurgePolicies

CEFairness ==
  /\ SF_ceVars(AgentFetches(FALSE))
  /\ SF_ceVars(DeploysFetched)
  /\ SF_ceVars(Answers({LB}))
  /\ WF_ceVars(Answers(Entities))
  /\ WF_ceVars(Purge)

CEFairSpec == CESpec /\ CEFairness

--------------------------------------------------------------------------------
(***************************************************************************)
(* Properties                                                              *)
(***************************************************************************)

AskedOver(e) == \E a \in asked : e \in Subtree[a]

(* An entity is removed from the database only if its tenant asked to      *)
(* delete it or what it belongs to, whichever confirmations come late.     *)
ChildGoneWasAsked ==
  \A e \in Entities : prov[e] = "GONE" => AskedOver(e)

(* No row is out of the builder's reach, whatever was removed around it:   *)
(* what the queries of build() return is all there is.                     *)
NothingUnreachable == Service(Rows) = Rows

Status == INSTANCE StatusProtocol WITH
  Admitted <- Present, working <- {c.of : c \in calls}

(* Requests, failing calls, late and repeated confirmations together keep  *)
(* the protocol of provisioning_status: nothing brings a row back, ends a  *)
(* delete by a confirmation, fails without a call, or removes a row that   *)
(* is neither asked for nor below one that is.                             *)
ImplementsStatus == Status!Spec

(* What the database calls ACTIVE and nobody asked to delete is on the     *)
(* device, however stale the definitions the agent works on, unless a      *)
(* query for it failed and was answered "Unknown".                         *)
ActiveIsDeployed ==
  \A e \in Entities :
    prov[e] = "ACTIVE" /\ ~AskedOver(e) => e \in device \cup unknown

(* A confirmation never undoes a delete: PENDING_DELETE ends in removal,   *)
(* in the failure of the driver's call, or in the tenant's next request.   *)
ChildDeleteStands ==
  [][\A e \in Entities :
       prov[e] = "PENDING_DELETE" =>
         \/ prov'[e] \in {"PENDING_DELETE", "GONE"}
         \/ prov'[e] = "ERROR" /\ \E c \in calls \ calls' : c.of = e
         \/ prov'[e] = "PENDING_UPDATE" /\ ops' = ops + 1]_ceVars

Unsettled == {e \in Entities \ leftOut : prov[e] \in Pending}

(* Pending entities are all settled, even if their casts are lost, through *)
(* the agent's listing of pending load balancers; except those that the    *)
(* load balancer was unlocked without, by a confirmation older than their  *)
(* request, and those whose own confirmation was lost.                     *)
PendingChildResolved == Unsettled # {} ~> Unsettled = {}

Orphans ==
  {e \in device : /\ prov[e] = "GONE"
                  /\ KindOf[e] \in {"listener", "pool", "member", "l7policy"}
                  /\ KindOf[e] = "l7policy" => ~HasL7Policy(ParentOf[e])}

(* What a stale definition puts back on the device after its removal is    *)
(* purged again: listeners, pools, members, and policies once none is left *)
(* of their listener.                                                      *)
OrphansPurged == Orphans # {} ~> Orphans = {}
================================================================================
