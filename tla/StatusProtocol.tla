---------------------------- MODULE StatusProtocol ----------------------------
(***************************************************************************)
(* The abstract specification of provisioning_status: who may change it    *)
(* and how, without messages, agents and definitions.  LoadBalancerLifecycle*)
(* implements it for load balancers, ChildEntities for everything below    *)
(* one, whatever is late, lost or repeated.                                *)
(*                                                                         *)
(* A confirmation may come at any time; it finds a row and does not end a  *)
(* delete.  Only a call that is in the driver's hands may fail.  A row is  *)
(* removed only after its tenant asked for it, and takes what belongs to   *)
(* it along.  Nothing brings a row back.                                   *)
(***************************************************************************)
CONSTANTS
  Entities,
  Subtree,    \* what the database removes together with each
  Admitted    \* the statuses from which the API takes an update or a delete

VARIABLES
  prov,       \* provisioning_status, "ABSENT" before and "GONE" after the row
  asked,      \* entities the tenant has ever asked to delete
  working     \* entities that a call of the driver is in progress for

vars == <<prov, asked, working>>

Present == {"PENDING_CREATE", "PENDING_UPDATE", "PENDING_DELETE", "ACTIVE", "ERROR"}

Init ==
  /\ prov \in [Entities -> {"ABSENT", "ACTIVE"}]
  /\ asked = {}
  /\ working = {}

Becomes(e, status) == prov' = [prov EXCEPT ![e] = status]

(* The tenant's request, which the manager's call takes on. *)
Request(e) ==
  /\ \/ prov[e] = "ABSENT" /\ Becomes(e, "PENDING_CREATE") /\ UNCHANGED asked
     \/ prov[e] \in Admitted /\ Becomes(e, "PENDING_UPDATE") /\ UNCHANGED asked
     \/ prov[e] \in Admitted /\ Becomes(e, "PENDING_DELETE") /\ asked' = asked \cup {e}
  /\ working' = working \cup {e}

(* A call for e goes on or ends; another one for e may be in progress. *)
CallGoesOn(e) == working' \in {working, working \ {e}}

(* update_*_status. *)
Confirm(e) ==
  /\ prov[e] \in Present \ {"PENDING_DELETE"}
  /\ Becomes(e, "ACTIVE") \/ Becomes(e, "ERROR")
  /\ UNCHANGED <<asked, working>>

(* What the driver raised, or could not schedule, is marked ERROR. *)
Fail(e) ==
  /\ e \in working
  /\ prov[e] \in Present
  /\ Becomes(e, "ERROR")
  /\ CallGoesOn(e)
  /\ UNCHANGED asked

(* The call ends with the cast, without an agent, or with the server. *)
EndCall(e) == e \in working /\ CallGoesOn(e) /\ UNCHANGED <<prov, asked>>

(* A server stops, and what it was working on with it. *)
Stop == working' \subseteq working /\ UNCHANGED <<prov, asked>>

(* *_destroyed, or the driver itself when no agent holds the row. *)
Remove(e) ==
  /\ e \in asked
  /\ prov' = [x \in Entities |->
               IF x \in Subtree[e] /\ prov[x] \in Present THEN "GONE" ELSE prov[x]]
  /\ CallGoesOn(e)
  /\ UNCHANGED asked

Next ==
  \/ \E e \in Entities : Request(e) \/ Confirm(e) \/ Fail(e) \/ EndCall(e) \/ Remove(e)
  \/ Stop

Spec == Init /\ [][Next]_vars
================================================================================
