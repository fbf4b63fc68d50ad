------------------------------ MODULE ServiceTree ------------------------------
(***************************************************************************)
(* What hangs on one load balancer, and which of it the service definition *)
(* of service_builder.py holds: the builder starts from the load balancer  *)
(* and finds everything else by one query per kind, each with the ids that *)
(* the query before it returned.                                           *)
(***************************************************************************)
EXTENDS FiniteSets

CONSTANTS
  Entities,     \* listeners, pools, members, monitors, policies and rules
  KindOf,       \* what each of them is
  ParentOf,     \* what each of them belongs to
  LB,           \* the load balancer
  PolicyFilter  \* the database heeds the listeners of a query for policies

Kinds == {"listener", "l7policy", "l7rule", "pool", "member", "healthmonitor"}

(* The kind that each kind belongs to. *)
AboveKind ==
  [k \in Kinds |-> CASE k \in {"listener", "pool"} -> "loadbalancer"
                     [] k \in {"member", "healthmonitor"} -> "pool"
                     [] k = "l7policy" -> "listener"
                     [] k = "l7rule" -> "l7policy"]

ASSUME TreeAssumption ==
  /\ LB \notin Entities
  /\ PolicyFilter \in BOOLEAN
  /\ KindOf \in [Entities -> Kinds]
  /\ ParentOf \in [Entities -> Entities \cup {LB}]
  /\ \A e \in Entities :
       IF AboveKind[KindOf[e]] = "loadbalancer"
         THEN ParentOf[e] = LB
         ELSE ParentOf[e] \in Entities /\ KindOf[ParentOf[e]] = AboveKind[KindOf[e]]

(* A query for the rows of a kind, filtered by what they belong to. *)
Query(rows, kind, parents) ==
  {e \in rows : KindOf[e] = kind /\ ParentOf[e] \in parents}

Listeners(rows) == Query(rows, "listener", {LB})

PoolsAndHealthmonitors(rows) ==
  LET pools == Query(rows, "pool", {LB})
  IN  pools \cup Query(rows, "healthmonitor", pools)

MembersByLB(rows, pools) == Query(rows, "member", {LB})   \* mutant: the wrong id

Members(rows, pools) == Query(rows, "member", pools)

(* plugin_rpc.py notes that the filter by listener seems to be silenced.   *)
L7Policies(rows, listeners) ==
  IF listeners = {} THEN {}
  ELSE {p \in rows : KindOf[p] = "l7policy" /\ (PolicyFilter => ParentOf[p] \in listeners)}

L7PolicyRules(rows, policies) == Query(rows, "l7rule", policies)

(* build(): the entities the service definition describes. *)
Service(rows) ==
  LET listeners == Listeners(rows)
      pools     == PoolsAndHealthmonitors(rows)
      members   == Members(rows, pools)
      policies  == L7Policies(rows, listeners)
  IN  listeners \cup pools \cup members \cup policies \cup L7PolicyRules(rows, policies)

(* The database removes what belongs to a row together with the row. *)
Below(es) == {e \in Entities : ParentOf[e] \in es}

Subtree == [e \in Entities |-> {e} \cup Below({e}) \cup Below(Below({e}))]
================================================================================
