-------------------------- MODULE ChildEntitiesProofs --------------------------
(***************************************************************************)
(* What late confirmations and stale service definitions cannot do to the  *)
(* entities of a load balancer, for every tree of entities and any number  *)
(* of requests, casts and confirmations in flight.                         *)
(***************************************************************************)
EXTENDS ChildEntities, TLAPS

(* Where a delete comes from: a status, a definition or a confirmation     *)
(* speaks of a removal only if the tenant asked for one.                   *)
DeletesAsked ==
  /\ \A e \in Entities : prov[e] = "GONE" => AskedOver(e)
  /\ \A e \in Entities : prov[e] = "PENDING_DELETE" => e \in asked
  /\ \A t \in tasks : \A e \in DOMAIN t.status :
       t.status[e] = "PENDING_DELETE" => e \in asked
  /\ \A r \in replies : r.says = "destroyed" => r.of \in asked

(* Nobody speaks of an entity before it is in the database. *)
NoneFromNothing ==
  /\ \A e \in device : prov[e] # "ABSENT"
  /\ \A t \in tasks : \A e \in DOMAIN t.status : prov[e] # "ABSENT"
  /\ \A r \in replies : r.of \in Entities => prov[r.of] # "ABSENT"

(* A row belongs to a row. *)
Rooted == \A e \in Rows : ParentOf[e] \in Rows \cup {LB}

(* On the device, off it for a reason. *)
Accounted(e) == e \in device \cup unknown \/ AskedOver(e)

(* ... which holds as soon as the agent confirms that it deployed it. *)
ConfirmedIsAccounted ==
  /\ \A e \in Entities : prov[e] = "ACTIVE" => Accounted(e)
  /\ \A r \in replies : r.of \in Entities /\ r.says = "ACTIVE" => Accounted(r.of)

CEInv ==
  CETypeOK /\ DeletesAsked /\ NoneFromNothing /\ Rooted /\ ConfirmedIsAccounted

--------------------------------------------------------------------------------
(* The tree *)

(* What belongs to a member of a subtree is in the subtree: no chain of    *)
(* entities is longer than listener, policy, rule.                         *)
LEMMA SubtreeClosed ==
  ASSUME NEW e \in Entities, NEW x \in Entities, ParentOf[x] \in Subtree[e]
  PROVE  x \in Subtree[e]
  <1>1. CASE ParentOf[x] = e
    BY <1>1 DEF Subtree, Below
  <1>2. CASE ParentOf[x] \in Below({e})
    BY <1>2 DEF Subtree, Below
  <1>3. CASE ParentOf[x] \in Below(Below({e}))
    <2> DEFINE p == ParentOf[x]
               g == ParentOf[p]
    <2>1. /\ p \in Entities /\ g \in Entities /\ ParentOf[g] = e
          /\ e # LB /\ p # LB /\ g # LB
      BY <1>3, TreeAssumption DEF Below
    <2>2. /\ KindOf[p] = AboveKind[KindOf[x]]
          /\ KindOf[g] = AboveKind[KindOf[p]]
          /\ KindOf[e] = AboveKind[KindOf[g]]
      BY <2>1, TreeAssumption
    <2>3. KindOf[x] \in Kinds /\ KindOf[p] \in Kinds /\ KindOf[g] \in Kinds /\ KindOf[e] \in Kinds
      BY <2>1, TreeAssumption
    <2> QED BY <2>2, <2>3 DEF AboveKind, Kinds
  <1> QED BY <1>1, <1>2, <1>3 DEF Subtree

LEMMA SubtreeType ==
  ASSUME NEW e \in Entities
  PROVE  e \in Subtree[e] /\ Subtree[e] \subseteq Entities
  BY DEF Subtree, Below

LEMMA SubtreeTransitive ==
  ASSUME NEW a \in Entities, NEW e \in Subtree[a], NEW x \in Subtree[e]
  PROVE  x \in Subtree[a]
  <1>1. e \in Entities /\ x \in Entities
    BY SubtreeType
  <1>2. \A y \in Below({e}) : y \in Subtree[a]
    BY <1>1, SubtreeClosed DEF Below
  <1>3. \A y \in Below(Below({e})) : y \in Subtree[a]
    BY <1>2, SubtreeClosed DEF Below
  <1> QED BY <1>1, <1>2, <1>3 DEF Subtree

(* With every row belonging to a row, the queries of build() find all.     *)
LEMMA ServiceIsAll ==
  ASSUME NEW rows \in SUBSET Entities, \A e \in rows : ParentOf[e] \in rows \cup {LB}
  PROVE  Service(rows) = rows
  <1>1. Service(rows) \subseteq rows
    BY DEF Service, Listeners, PoolsAndHealthmonitors, Members, L7Policies, L7PolicyRules, Query
  <1>2. ASSUME NEW e \in rows PROVE e \in Service(rows)
    <2> USE DEF Service, Listeners, PoolsAndHealthmonitors, Members, L7Policies,
                L7PolicyRules, Query, AboveKind, Kinds
    <2>0. KindOf[e] \in Kinds
      BY TreeAssumption
    <2>1. CASE KindOf[e] \in {"listener", "pool"}
      BY <2>1, TreeAssumption
    <2>2. ASSUME NEW x \in rows, AboveKind[KindOf[x]] # "loadbalancer"
          PROVE  ParentOf[x] \in rows /\ KindOf[ParentOf[x]] = AboveKind[KindOf[x]]
      BY <2>2, TreeAssumption
    <2>3. CASE KindOf[e] \in {"member", "healthmonitor"}
      <3>1. ParentOf[e] \in rows /\ KindOf[ParentOf[e]] = "pool"
        BY <2>2, <2>3
      <3>2. ParentOf[ParentOf[e]] = LB
        BY <3>1, TreeAssumption
      <3>3. ParentOf[e] \in Query(rows, "pool", {LB})
        BY <3>1, <3>2
      <3> QED BY <2>3, <3>3
    <2>4. ASSUME NEW p \in rows, KindOf[p] = "l7policy"
          PROVE  p \in L7Policies(rows, Listeners(rows))
      <3>1. ParentOf[p] \in rows /\ KindOf[ParentOf[p]] = "listener"
        BY <2>2, <2>4
      <3>2. ParentOf[ParentOf[p]] = LB
        BY <3>1, TreeAssumption
      <3> QED BY <2>4, <3>1, <3>2
    <2>5. CASE KindOf[e] = "l7policy"
      BY <2>4, <2>5
    <2>6. CASE KindOf[e] = "l7rule"
      <3>1. ParentOf[e] \in rows /\ KindOf[ParentOf[e]] = "l7policy"
        BY <2>2, <2>6
      <3>2. ParentOf[e] \in L7Policies(rows, Listeners(rows))
        BY <2>4, <3>1
      <3>3. e \in L7PolicyRules(rows, L7Policies(rows, Listeners(rows)))
        BY <2>6, <3>2
      <3> QED BY <3>3
    <2> QED BY <2>0, <2>1, <2>3, <2>5, <2>6
  <1> QED BY <1>1, <1>2

--------------------------------------------------------------------------------
(* The type *)

(* A task holds statuses of entities. *)
TaskOK(t) ==
  /\ t.via \in {"cast", "fetch"} /\ t.upTo \in 0..MaxOps
  /\ DOMAIN t.status \in SUBSET Entities
  /\ \A e \in DOMAIN t.status : t.status[e] \in Present

LEMMA RowsType == Rows \in SUBSET Entities
  BY DEF Rows

(* A definition holds the present status of some of the rows. *)
LEMMA DefinitionOfRows ==
  ASSUME CETypeOK, NEW via \in {"cast", "fetch"}
  PROVE  /\ TaskOK(Definition(via))
         /\ DOMAIN Definition(via).status \subseteq Rows
         /\ \A e \in DOMAIN Definition(via).status : Definition(via).status[e] = prov[e]
  <1>1. Service(Rows) \subseteq Rows
    BY DEF Service, Listeners, PoolsAndHealthmonitors, Members, L7Policies, L7PolicyRules, Query
  <1> QED BY <1>1 DEF CETypeOK, Definition, TaskOK, Rows

(* What working on a definition does to the device and the confirmations.  *)
LEMMA DeployEffect ==
  ASSUME CETypeOK, NEW t, TaskOK(t), Deploy(t)
  PROVE  /\ device' \subseteq device \cup DOMAIN t.status
         /\ unknown' \subseteq unknown
         /\ unknown \subseteq unknown' \cup device'
         /\ \A e \in device \cup DOMAIN t.status :
              e \in device' \/ \E x \in To(t, {"PENDING_DELETE"}) : e \in Subtree[x]
         /\ \A r \in replies' :
              \/ r \in replies
              \/ r \in Replies /\ r.of = LB /\ r.says = "ACTIVE"
              \/ r \in Replies /\ r.of \in DOMAIN t.status /\ r.says = "ACTIVE"
              \/ r \in Replies /\ r.of \in To(t, {"PENDING_DELETE"}) /\ r.says = "destroyed"
  <1> DEFINE off == UNION {Subtree[e] : e \in To(t, {"PENDING_DELETE"})}
             on  == DOMAIN t.status \ off
  <1>1. /\ device' = (device \cup on) \ off
        /\ unknown' = unknown \ on
    BY DEF Deploy
  <1>2. \A e \in off : \E x \in To(t, {"PENDING_DELETE"}) : e \in Subtree[x]
    OBVIOUS
  <1>3. 0 \in 0..MaxOps
    BY ChildAssumption
  <1>4. ASSUME NEW r \in replies'
        PROVE  \/ r \in replies
               \/ r \in Replies /\ r.of = LB /\ r.says = "ACTIVE"
               \/ r \in Replies /\ r.of \in DOMAIN t.status /\ r.says = "ACTIVE"
               \/ r \in Replies /\ r.of \in To(t, {"PENDING_DELETE"}) /\ r.says = "destroyed"
    BY <1>3, <1>4 DEF Deploy, Said, To, Replies, TaskOK
  <1>5. \A e \in device \cup DOMAIN t.status : e \in device' \/ e \in off
    BY <1>1
  <1>6. /\ device' \subseteq device \cup DOMAIN t.status
        /\ unknown' \subseteq unknown
        /\ unknown \subseteq unknown' \cup device'
    BY <1>1
  <1> HIDE DEF off, on
  <1>7. \A e \in device \cup DOMAIN t.status :
           e \in device' \/ \E x \in To(t, {"PENDING_DELETE"}) : e \in Subtree[x]
    BY <1>2, <1>5
  <1> QED BY <1>4, <1>6, <1>7

LEMMA GiveUpEffect ==
  ASSUME CETypeOK, NEW t, TaskOK(t), GiveUp(t)
  PROVE  /\ UNCHANGED <<device, unknown>>
         /\ \A r \in replies' :
              \/ r \in replies
              \/ r \in Replies /\ r.of = LB /\ r.says = "ACTIVE"
              \/ r \in Replies /\ r.of \in DOMAIN t.status /\ r.says = "ERROR"
  <1>1. 0 \in 0..MaxOps
    BY ChildAssumption
  <1> QED BY <1>1 DEF GiveUp, Said, To, Replies, TaskOK

(* A confirmation changes statuses and the lock and nothing else. *)
LEMMA ConfirmEffect ==
  ASSUME CETypeOK, NEW r \in replies, Confirm(r)
  PROVE  /\ replies' \subseteq replies
         /\ UNCHANGED <<calls, tasks, device, ops, since, asked, unknown>>
         /\ lbPending' \in BOOLEAN
         /\ prov' \in [Entities -> Present \cup {"ABSENT", "GONE"}]
         /\ leftOut' \in SUBSET Entities
         /\ \/ prov' = prov
            \/ /\ r.of \in Rows /\ r.says \in {"ACTIVE", "ERROR"} /\ prov[r.of] # "PENDING_DELETE"
               /\ prov' = [prov EXCEPT ![r.of] = r.says]
            \/ /\ r.of \in Rows /\ r.says = "destroyed"
               /\ prov' = [e \in Entities |->
                             IF e \in Subtree[r.of] \cap Rows THEN "GONE" ELSE prov[e]]
  <1>0. r \in Replies
    BY DEF CETypeOK
  <1>1. /\ replies' \subseteq replies
        /\ UNCHANGED <<calls, tasks, device, ops, since, asked, unknown>>
    BY DEF Confirm, tenant
  <1>2. CASE RewriteStatus(r)
    <2>1. CASE prov[r.of] = "PENDING_DELETE"
      <3>1. prov' = prov
        BY <1>0, <1>2, <2>1 DEF RewriteStatus, Settle, CETypeOK
      <3> QED BY <1>1, <1>2, <3>1 DEF RewriteStatus, Settle, CETypeOK
    <2>2. CASE prov[r.of] # "PENDING_DELETE"
      BY <1>1, <1>2, <2>2 DEF RewriteStatus, Settle, CETypeOK, Rows, Present
    <2> QED BY <2>1, <2>2
  <1>3. CASE WriteStatus(r)
    BY <1>1, <1>3 DEF WriteStatus, Settle, CETypeOK, Rows, Present
  <1>4. CASE Destroyed(r)
    BY <1>1, <1>4 DEF Destroyed, CETypeOK, Rows
  <1>5. CASE Unlock(r)
    BY <1>1, <1>5 DEF Unlock, CETypeOK, Rows
  <1> QED BY <1>2, <1>3, <1>4, <1>5 DEF Confirm

(* A purge changes only what is on the device. *)
LEMMA PurgeFrame ==
  ASSUME CETypeOK, NEW es, NEW wrongly \in SUBSET Entities, TakeOff(es, wrongly)
  PROVE  /\ CETypeOK'
         /\ UNCHANGED <<lbPending, prov, calls, tasks, replies, ops, since, asked, leftOut>>
         /\ device' = device \ es /\ unknown' = unknown \cup wrongly
  BY DEF TakeOff, tenant, CETypeOK

--------------------------------------------------------------------------------
(* The invariant, action by action *)

LEMMA ApiStep ==
  ASSUME CEInv, NEW e \in Entities, ApiCreate(e) \/ ApiUpdate(e) \/ ApiDelete(e)
  PROVE  CEInv'
  <1> USE DEF CEInv
  <1>1. PICK status \in Pending :
          /\ Ask(e, status)
          /\ asked \subseteq asked' /\ asked' \in SUBSET Entities
          /\ status = "PENDING_DELETE" => e \in asked'
          /\ e \in Rows \/ ParentOf[e] \in Rows \cup {LB}
    BY DEF ApiCreate, ApiUpdate, ApiDelete, Pending, CETypeOK
  <1>2. /\ prov' = [prov EXCEPT ![e] = status]
        /\ UNCHANGED <<tasks, replies, device, unknown>>
    BY <1>1 DEF Ask
  <1>3. CETypeOK'
    BY <1>1, ChildAssumption DEF Ask, CETypeOK, Calls, Present
  <1>4. \A x \in Entities : x # e => prov'[x] = prov[x]
    BY <1>2 DEF CETypeOK
  <1>5. prov'[e] = status
    BY <1>2 DEF CETypeOK
  <1>6. \A x \in Entities : AskedOver(x) => AskedOver(x)'
    BY <1>1 DEF AskedOver
  <1>7. DeletesAsked'
    BY <1>1, <1>2, <1>4, <1>5, <1>6 DEF DeletesAsked, CETypeOK, Pending
  <1>8. NoneFromNothing'
    BY <1>2, <1>4, <1>5 DEF NoneFromNothing, CETypeOK, Pending
  <1>9. Rooted'
    BY <1>1, <1>4, <1>5 DEF Rooted, Rows, Present
  <1>10. ConfirmedIsAccounted'
    BY <1>2, <1>4, <1>5, <1>6 DEF ConfirmedIsAccounted, Accounted, Pending
  <1> QED BY <1>3, <1>7, <1>8, <1>9, <1>10

LEMMA CallStep ==
  ASSUME CEInv, NEW c \in calls, CallCasts(c) \/ CallRaises(c) \/ CallDropped(c)
  PROVE  CEInv'
  <1> USE DEF CEInv
  <1>0. c.of \in Entities
    BY DEF CETypeOK, Calls
  <1>1. /\ UNCHANGED <<replies, device, ops, since, asked, unknown>>
        /\ calls' \subseteq calls
        /\ \A t \in tasks' : t \in tasks \/ t = Definition("cast")
        /\ leftOut' \in SUBSET Entities /\ lbPending' \in BOOLEAN
    BY DEF CallCasts, CallRaises, CallDropped, tenant, CETypeOK, Rows
  <1>2. prov' = prov \/ (c.of \in Rows /\ prov' = [prov EXCEPT ![c.of] = "ERROR"])
    BY DEF CallCasts, CallRaises, CallDropped
  <1>3. \A x \in Entities : prov'[x] = prov[x] \/ (x \in Rows /\ prov'[x] = "ERROR")
    BY <1>0, <1>2 DEF CETypeOK
  <1>4. CETypeOK'
    <2>1. prov' \in [Entities -> Present \cup {"ABSENT", "GONE"}]
      BY <1>0, <1>2 DEF CETypeOK, Present
    <2>2. \A t \in tasks' : TaskOK(t)
      BY <1>1, DefinitionOfRows DEF CETypeOK, TaskOK
    <2> QED BY <1>1, <2>1, <2>2 DEF CETypeOK, TaskOK
  <1>5. \A x \in Entities : AskedOver(x)' = AskedOver(x)
    BY <1>1 DEF AskedOver
  <1>6. /\ \A x \in DOMAIN Definition("cast").status :
             x \in Rows /\ Definition("cast").status[x] = prov[x]
        /\ \A t \in tasks : DOMAIN t.status \subseteq Entities
    BY DefinitionOfRows DEF CETypeOK
  <1>7. DeletesAsked'
    <2>1. \A t \in tasks' : \A x \in DOMAIN t.status :
            t.status[x] = "PENDING_DELETE" => x \in asked'
      BY <1>1, <1>6, RowsType DEF DeletesAsked
    <2> QED BY <1>1, <1>3, <1>5, <2>1 DEF DeletesAsked
  <1>8. NoneFromNothing'
    <2>1. \A x \in Entities : prov[x] # "ABSENT" => prov'[x] # "ABSENT"
      BY <1>3
    <2>2. \A x \in Rows : prov[x] # "ABSENT"
      BY DEF Rows, Present, Pending
    <2>3. \A t \in tasks' : \A x \in DOMAIN t.status : prov'[x] # "ABSENT"
      BY <1>1, <1>6, <2>1, <2>2, RowsType DEF NoneFromNothing
    <2> QED BY <1>1, <2>1, <2>3 DEF NoneFromNothing, CETypeOK
  <1>9. Rows' = Rows
    BY <1>3 DEF Rows, Present
  <1>10. Rooted'
    BY <1>9 DEF Rooted
  <1>11. ConfirmedIsAccounted'
    BY <1>1, <1>3, <1>5 DEF ConfirmedIsAccounted, Accounted
  <1> QED BY <1>4, <1>7, <1>8, <1>10, <1>11

(* A fetched definition is a cast one by another way.                      *)
LEMMA FetchStep ==
  ASSUME CEInv, NEW fails \in BOOLEAN, AgentFetches(fails)
  PROVE  CEInv'
  <1> USE DEF CEInv
  <1>1. /\ UNCHANGED <<lbPending, prov, calls, replies, device, ops, since, asked, unknown, leftOut>>
        /\ \A t \in tasks' : t \in tasks \/ t = Definition("fetch")
    BY DEF AgentFetches, tenant
  <1>2. /\ TaskOK(Definition("fetch"))
        /\ \A x \in DOMAIN Definition("fetch").status :
             x \in Rows /\ Definition("fetch").status[x] = prov[x]
        /\ \A t \in tasks : TaskOK(t)
    BY DefinitionOfRows DEF CETypeOK, TaskOK
  <1>3. CETypeOK'
    <2>1. \A t \in tasks' : TaskOK(t)
      BY <1>1, <1>2
    <2> QED BY <1>1, <2>1 DEF CETypeOK, TaskOK
  <1>4. DeletesAsked'
    <2>1. \A t \in tasks' : \A x \in DOMAIN t.status :
            t.status[x] = "PENDING_DELETE" => x \in asked
      BY <1>1, <1>2, RowsType DEF DeletesAsked
    <2> QED BY <1>1, <2>1 DEF DeletesAsked, AskedOver
  <1>5. NoneFromNothing'
    <2>1. \A t \in tasks' : \A x \in DOMAIN t.status : prov[x] # "ABSENT"
      BY <1>1, <1>2 DEF NoneFromNothing, Rows, Present, Pending
    <2> QED BY <1>1, <2>1 DEF NoneFromNothing
  <1>6. Rooted' /\ ConfirmedIsAccounted'
    BY <1>1 DEF Rooted, Rows, ConfirmedIsAccounted, Accounted, AskedOver
  <1> QED BY <1>3, <1>4, <1>5, <1>6

(* The agent works on what is true of the rows, whether it was just built  *)
(* or is stale.                                                            *)
LEMMA WorkStep ==
  ASSUME CEInv, NEW t, TaskOK(t), Deploy(t) \/ GiveUp(t),
         \A e \in DOMAIN t.status : prov[e] # "ABSENT",
         \A e \in DOMAIN t.status : t.status[e] = "PENDING_DELETE" => e \in asked,
         tasks' \subseteq tasks,
         UNCHANGED <<lbPending, prov, calls, tenant, leftOut>>
  PROVE  CEInv'
  <1> USE DEF CEInv
  <1>1. /\ DOMAIN t.status \subseteq Entities
        /\ UNCHANGED <<lbPending, prov, calls, ops, since, asked, leftOut>>
    BY DEF TaskOK, tenant
  <1>2. /\ device' \subseteq device \cup DOMAIN t.status
        /\ unknown' \subseteq unknown
        /\ \A e \in device \cup unknown : e \in device' \cup unknown' \/ AskedOver(e)
        /\ \A r \in replies' :
             \/ r \in replies
             \/ r \in Replies /\ r.of = LB /\ r.says = "ACTIVE"
             \/ r \in Replies /\ r.of \in DOMAIN t.status /\ r.says = "ERROR"
             \/ /\ r \in Replies /\ r.of \in DOMAIN t.status /\ r.says = "ACTIVE"
                /\ r.of \in device' \/ AskedOver(r.of)
             \/ r \in Replies /\ r.of \in DOMAIN t.status /\ r.of \in asked /\ r.says = "destroyed"
    <2>1. CASE Deploy(t)
      <3>1. \A x \in To(t, {"PENDING_DELETE"}) : x \in asked
        BY DEF To
      <3>2. \A e \in device \cup DOMAIN t.status : e \in device' \/ AskedOver(e)
        BY <2>1, <3>1, DeployEffect DEF AskedOver
      <3>3. \A x \in To(t, {"PENDING_DELETE"}) : x \in DOMAIN t.status
        BY DEF To
      <3> QED BY <2>1, <3>1, <3>2, <3>3, DeployEffect
    <2>2. CASE GiveUp(t)
      BY <2>2, GiveUpEffect
    <2> QED BY <2>1, <2>2
  <1>3. CETypeOK'
    BY <1>1, <1>2 DEF CETypeOK
  <1>4. \A x \in Entities : AskedOver(x)' = AskedOver(x)
    BY <1>1 DEF AskedOver
  <1>5. LB \notin Entities /\ asked \subseteq Entities
    BY TreeAssumption DEF CETypeOK
  <1>6. DeletesAsked'
    BY <1>1, <1>2, <1>4 DEF DeletesAsked
  <1>7. NoneFromNothing'
    BY <1>1, <1>2, <1>5 DEF NoneFromNothing
  <1>8. Rooted'
    BY <1>1 DEF Rooted, Rows
  <1>9. ConfirmedIsAccounted'
    <2>1. \A x \in Entities : Accounted(x) => Accounted(x)'
      BY <1>2, <1>4 DEF Accounted
    <2>2. \A r \in replies' : r.of \in Entities /\ r.says = "ACTIVE" => Accounted(r.of)'
      BY <1>2, <1>4, <1>5, <2>1 DEF ConfirmedIsAccounted, Accounted
    <2> QED BY <1>1, <2>1, <2>2 DEF ConfirmedIsAccounted
  <1> QED BY <1>3, <1>6, <1>7, <1>8, <1>9

LEMMA ConfirmStep ==
  ASSUME CEInv, NEW r \in replies, Confirm(r)
  PROVE  CEInv'
  <1> USE DEF CEInv
  <1>1. /\ replies' \subseteq replies
        /\ UNCHANGED <<calls, tasks, device, ops, since, asked, unknown>>
    BY ConfirmEffect
  <1>2. CETypeOK'
    BY ConfirmEffect DEF CETypeOK
  <1>3. \A x \in Entities : AskedOver(x)' = AskedOver(x) /\ Accounted(x)' = Accounted(x)
    BY <1>1 DEF AskedOver, Accounted
  <1>4. CASE prov' = prov
    BY <1>1, <1>2, <1>3, <1>4
       DEF DeletesAsked, NoneFromNothing, Rooted, Rows, ConfirmedIsAccounted, CETypeOK
  <1>5. CASE /\ r.of \in Rows /\ r.says \in {"ACTIVE", "ERROR"} /\ prov[r.of] # "PENDING_DELETE"
             /\ prov' = [prov EXCEPT ![r.of] = r.says]
    <2>1. /\ r.of \in Entities /\ prov'[r.of] = r.says
          /\ \A x \in Entities : x # r.of => prov'[x] = prov[x]
      BY <1>5, RowsType DEF CETypeOK
    <2>2. DeletesAsked'
      BY <1>1, <1>3, <1>5, <2>1 DEF DeletesAsked
    <2>3. NoneFromNothing'
      BY <1>1, <1>5, <2>1 DEF NoneFromNothing, CETypeOK
    <2>4. Rows' = Rows
      BY <1>5, <2>1 DEF Rows, Present
    <2>5. Rooted'
      BY <2>4 DEF Rooted
    <2>6. ConfirmedIsAccounted'
      BY <1>1, <1>3, <1>5, <2>1 DEF ConfirmedIsAccounted
    <2> QED BY <1>2, <2>2, <2>3, <2>5, <2>6
  <1>6. CASE /\ r.of \in Rows /\ r.says = "destroyed"
             /\ prov' = [e \in Entities |->
                           IF e \in Subtree[r.of] \cap Rows THEN "GONE" ELSE prov[e]]
    <2>1. r.of \in Entities /\ r.of \in asked
      BY <1>6, RowsType DEF DeletesAsked
    <2>2. \A x \in Entities :
            IF x \in Subtree[r.of] \cap Rows THEN prov'[x] = "GONE" ELSE prov'[x] = prov[x]
      BY <1>6
    <2>3. \A x \in Subtree[r.of] : AskedOver(x)
      BY <2>1 DEF AskedOver
    <2>4. DeletesAsked'
      BY <1>1, <1>3, <2>2, <2>3 DEF DeletesAsked
    <2>5. NoneFromNothing'
      BY <1>1, <2>2 DEF NoneFromNothing, CETypeOK
    <2>6. Rows' = Rows \ Subtree[r.of]
      BY <2>2 DEF Rows, Present, Pending
    <2>7. Rooted'
      BY <2>1, <2>6, SubtreeClosed, RowsType DEF Rooted
    <2>8. ConfirmedIsAccounted'
      BY <1>1, <1>3, <2>2 DEF ConfirmedIsAccounted
    <2> QED BY <1>2, <2>4, <2>5, <2>7, <2>8
  <1> QED BY <1>4, <1>5, <1>6, ConfirmEffect

LEMMA LossStep ==
  ASSUME CEInv,
         \/ \E t \in tasks : LoseTask(t)
         \/ \E r \in replies : LoseReply(r)
  PROVE  CEInv'
  <1> USE DEF CEInv
  <1>1. /\ UNCHANGED <<lbPending, prov, calls, device, ops, since, asked, unknown>>
        /\ tasks' \subseteq tasks /\ replies' \subseteq replies
        /\ leftOut' \subseteq leftOut \cup Rows
    BY DEF LoseTask, LoseReply, tenant
  <1>2. CETypeOK'
    BY <1>1, RowsType DEF CETypeOK
  <1>3. \A x \in Entities : AskedOver(x)' = AskedOver(x) /\ Accounted(x)' = Accounted(x)
    BY <1>1 DEF AskedOver, Accounted
  <1> QED BY <1>1, <1>2, <1>3
          DEF DeletesAsked, NoneFromNothing, Rooted, Rows, ConfirmedIsAccounted

(* What is on the device and not in the database was removed from it, so   *)
(* its delete was asked for.                                               *)
LEMMA NoRowWasAsked ==
  ASSUME CEInv, NEW e \in device, e \notin Rows
  PROVE  AskedOver(e)
  BY DEF CEInv, CETypeOK, NoneFromNothing, DeletesAsked, Rows

LEMMA AskedBelow ==
  ASSUME CETypeOK, NEW e \in Entities, AskedOver(e), NEW x \in Subtree[e]
  PROVE  AskedOver(x)
  <1>1. PICK a \in asked : e \in Subtree[a]
    BY DEF AskedOver
  <1>2. x \in Subtree[a]
    BY <1>1, SubtreeTransitive DEF CETypeOK
  <1> QED BY <1>1, <1>2 DEF AskedOver

LEMMA TakeOffStep ==
  ASSUME CEInv, NEW es, NEW wrongly \in SUBSET Entities, TakeOff(es, wrongly),
         \A x \in es \cap device : x \in wrongly \/ AskedOver(x)
  PROVE  CEInv'
  <1> USE DEF CEInv
  <1>1. /\ CETypeOK'
        /\ UNCHANGED <<lbPending, prov, calls, tasks, replies, ops, since, asked, leftOut>>
        /\ device' = device \ es /\ unknown' = unknown \cup wrongly
    BY PurgeFrame
  <1>2. \A x \in Entities : AskedOver(x)' = AskedOver(x)
    BY <1>1 DEF AskedOver
  <1>3. \A x \in Entities : Accounted(x) => Accounted(x)'
    BY <1>1, <1>2 DEF Accounted
  <1> QED BY <1>1, <1>2, <1>3
          DEF DeletesAsked, NoneFromNothing, Rooted, Rows, ConfirmedIsAccounted

(* A purge that takes off only what failed queries or requests account for.*)
Purged ==
  \E es, wrongly \in SUBSET Entities :
    /\ TakeOff(es, wrongly)
    /\ \A x \in es \cap device : x \in wrongly \/ AskedOver(x)

LEMMA TakenOff ==
  ASSUME NEW es, NEW wrongly \in SUBSET Entities, TakeOff(es, wrongly), es \in SUBSET Entities,
         \A x \in es \cap device : x \in wrongly \/ AskedOver(x)
  PROVE  Purged
  BY DEF Purged

(* Every purge is one: what it takes off has no row, or its query failed.  *)
LEMMA PurgedIs ==
  ASSUME CEInv,
         \/ \E e \in device, fails \in BOOLEAN : PurgeUnknown(e, fails)
         \/ PurgeMembers
         \/ PurgePolicies
  PROVE  Purged
  <1>0. device \subseteq Entities
    BY DEF CEInv, CETypeOK
  <1>1. ASSUME NEW e \in device, NEW fails \in BOOLEAN, PurgeUnknown(e, fails)
        PROVE  Purged
    <2> DEFINE wrongly == IF fails THEN Subtree[e] \cap Rows ELSE {}
    <2>1. TakeOff(Subtree[e], wrongly)
      BY <1>1 DEF PurgeUnknown
    <2>2. wrongly \in SUBSET Entities
      BY RowsType
    <2>3. ASSUME NEW x \in Subtree[e] \cap device PROVE x \in wrongly \/ AskedOver(x)
      <3>1. CASE fails
        BY <2>3, <3>1, NoRowWasAsked
      <3>2. CASE ~fails
        <4>1. e \notin Rows
          BY <1>1, <3>2 DEF PurgeUnknown, ValidatedState, Rows, Present, Pending
        <4>2. AskedOver(e)
          BY <4>1, NoRowWasAsked
        <4> QED BY <1>0, <2>3, <4>2, AskedBelow DEF CEInv
      <3> QED BY <1>1, <3>1, <3>2
    <2>4. Subtree[e] \in SUBSET Entities
      BY <1>0, SubtreeType
    <2> HIDE DEF wrongly
    <2> QED BY <2>1, <2>2, <2>3, <2>4, TakenOff
  <1>2. ASSUME PurgeMembers PROVE Purged
    <2> DEFINE pools == {q \in device : KindOf[q] = "pool"}
               es == {m \in device : KindOf[m] = "member" /\ ParentOf[m] \in pools}
                       \ Members(Rows, pools)
    <2>1. TakeOff(es, {})
      BY <1>2 DEF PurgeMembers
    <2>2. \A x \in es \cap device : x \notin Rows
      BY DEF Members, Query
    <2>3. \A x \in es \cap device : AskedOver(x)
      BY <2>2, NoRowWasAsked
    <2>4. es \in SUBSET Entities
      BY <1>0
    <2> HIDE DEF es
    <2> QED BY <2>1, <2>3, <2>4, TakenOff
  <1>3. ASSUME PurgePolicies PROVE Purged
    <2> DEFINE bare == {l \in device : KindOf[l] = "listener" /\ ~HasL7Policy(l)}
               gone == {p \in device : KindOf[p] = "l7policy" /\ ParentOf[p] \in bare}
               es == UNION {Subtree[p] : p \in gone}
    <2>1. TakeOff(es, {})
      BY <1>3 DEF PurgePolicies
    <2>2. \A p \in gone : p \in Entities /\ p \in device /\ p \notin Rows
      BY <1>0 DEF HasL7Policy
    <2>3. \A p \in gone : AskedOver(p)
      BY <2>2, NoRowWasAsked
    <2>4. ASSUME NEW x \in es PROVE AskedOver(x)
      <3>1. PICK p \in gone : x \in Subtree[p]
        OBVIOUS
      <3> QED BY <2>2, <2>3, <3>1, AskedBelow DEF CEInv
    <2>5. es \in SUBSET Entities
      BY <2>2, SubtreeType
    <2> HIDE DEF es
    <2> QED BY <2>1, <2>4, <2>5, TakenOff
  <1> QED BY <1>1, <1>2, <1>3

LEMMA PurgeStep ==
  ASSUME CEInv,
         \/ \E e \in device, fails \in BOOLEAN : PurgeUnknown(e, fails)
         \/ PurgeMembers
         \/ PurgePolicies
  PROVE  CEInv'
  BY PurgedIs, TakeOffStep DEF Purged

LEMMA InitInv == CEInit => CEInv
  <1> SUFFICES ASSUME CEInit PROVE CEInv
    OBVIOUS
  <1>1. PICK rows \in InitialRows :
          /\ prov = [e \in Entities |-> IF e \in rows THEN "ACTIVE" ELSE "ABSENT"]
          /\ device = rows
    BY DEF CEInit
  <1>2. rows \subseteq Entities /\ \A e \in rows : ParentOf[e] \in rows \cup {LB}
    BY ChildAssumption
  <1>3. CETypeOK
    <2>1. /\ lbPending = FALSE /\ calls = {} /\ tasks = {} /\ replies = {}
          /\ ops = 0 /\ since = [e \in Entities |-> 0]
          /\ asked = {} /\ unknown = {} /\ leftOut = {}
      BY DEF CEInit
    <2>2. 0 \in 0..MaxOps
      BY ChildAssumption
    <2>3. since \in [Entities -> 0..MaxOps]
      BY <2>1, <2>2
    <2>4. prov \in [Entities -> Present \cup {"ABSENT", "GONE"}]
      BY <1>1 DEF Present
    <2>5. device \in SUBSET Entities
      BY <1>1, <1>2
    <2> QED BY <2>1, <2>2, <2>3, <2>4, <2>5 DEF CETypeOK
  <1>4. Rows = rows
    BY <1>1, <1>2 DEF Rows, Present, Pending
  <1> QED BY <1>1, <1>2, <1>3, <1>4
          DEF CEInit, CEInv, DeletesAsked, NoneFromNothing, Rooted, ConfirmedIsAccounted, Accounted

LEMMA NextInv == CEInv /\ [CENext]_ceVars => CEInv'
  <1> SUFFICES ASSUME CEInv, [CENext]_ceVars PROVE CEInv'
    OBVIOUS
  <1> USE DEF CEInv
  <1>1. ASSUME NEW t \in tasks, AgentWorks(t) PROVE CEInv'
    <2>1. TaskOK(t)
      BY DEF CETypeOK, TaskOK
    <2>2. \A e \in DOMAIN t.status :
            prov[e] # "ABSENT" /\ (t.status[e] = "PENDING_DELETE" => e \in asked)
      BY DEF NoneFromNothing, DeletesAsked
    <2> HIDE DEF CEInv
    <2> QED BY <1>1, <2>1, <2>2, WorkStep DEF AgentWorks
  <1>2. CASE UNCHANGED ceVars
    BY <1>2 DEF ceVars, tenant, CETypeOK, Calls, DeletesAsked, NoneFromNothing, Rooted, Rows,
                ConfirmedIsAccounted, Accounted, AskedOver
  <1> HIDE DEF CEInv
  <1> QED BY <1>1, <1>2, ApiStep, CallStep, FetchStep, ConfirmStep, LossStep, PurgeStep DEF CENext

--------------------------------------------------------------------------------
(* The theorems *)

LEMMA Invariance == CESpec => []CEInv
  BY InitInv, NextInv, PTL DEF CESpec

(* The variables keep their types, for every tree and every bound.         *)
THEOREM ChildTypeCorrect == CESpec => []CETypeOK
  BY Invariance, PTL DEF CEInv

(* No late or repeated *_destroyed confirmation removes an entity that the *)
(* tenant did not ask to delete, itself or with what it belongs to.        *)
THEOREM ChildGoneOnlyIfAsked == CESpec => []ChildGoneWasAsked
  <1>1. CEInv => ChildGoneWasAsked
    BY DEF CEInv, DeletesAsked, ChildGoneWasAsked
  <1> QED BY <1>1, Invariance, PTL

(* build() describes every row, for every tree and whatever was removed.   *)
THEOREM ServiceComplete == CESpec => []NothingUnreachable
  <1>1. CEInv => NothingUnreachable
    BY ServiceIsAll, RowsType DEF CEInv, Rooted, NothingUnreachable
  <1> QED BY <1>1, Invariance, PTL

(* What the database calls ACTIVE is on the device, unless its delete was  *)
(* asked for or a failed query was answered "Unknown".                     *)
THEOREM ActiveStaysDeployed == CESpec => []ActiveIsDeployed
  <1>1. CEInv => ActiveIsDeployed
    BY DEF CEInv, ConfirmedIsAccounted, Accounted, ActiveIsDeployed
  <1> QED BY <1>1, Invariance, PTL

(* A confirmation leaves PENDING_DELETE as it is or removes the entity.    *)
THEOREM ChildDeleteNotUndone == CESpec => ChildDeleteStands
  <1> DEFINE P(e) == \/ prov'[e] \in {"PENDING_DELETE", "GONE"}
                     \/ prov'[e] = "ERROR" /\ \E c \in calls \ calls' : c.of = e
                     \/ prov'[e] = "PENDING_UPDATE" /\ ops' = ops + 1
             A == \A e \in Entities : prov[e] = "PENDING_DELETE" => P(e)
  <1>1. ASSUME CEInv, [CENext]_ceVars PROVE A
    <2> SUFFICES ASSUME NEW e \in Entities, prov[e] = "PENDING_DELETE" PROVE P(e)
      OBVIOUS
    <2>0. CETypeOK
      BY <1>1 DEF CEInv
    <2>1. ASSUME NEW x \in Entities, ApiCreate(x) \/ ApiUpdate(x) \/ ApiDelete(x) PROVE P(e)
      <3>1. prov' = [prov EXCEPT ![x] = prov'[x]]
        BY <2>0, <2>1 DEF ApiCreate, ApiUpdate, ApiDelete, Ask, CETypeOK
      <3>2. CASE x # e
        BY <2>0, <3>1, <3>2 DEF CETypeOK
      <3>3. CASE x = e
        BY <2>0, <2>1, <3>3 DEF ApiCreate, ApiUpdate, ApiDelete, Ask, CETypeOK
      <3> QED BY <3>2, <3>3
    <2>2. ASSUME NEW c \in calls, CallCasts(c) \/ CallRaises(c) \/ CallDropped(c) PROVE P(e)
      <3>1. CASE c.of # e
        BY <2>0, <2>2, <3>1 DEF CallCasts, CallRaises, CallDropped, CETypeOK
      <3>2. CASE c.of = e
        BY <2>0, <2>2, <3>2 DEF CallCasts, CallRaises, CallDropped, CETypeOK
      <3> QED BY <3>1, <3>2
    <2>3. ASSUME NEW r \in replies, Confirm(r) PROVE P(e)
      BY <2>0, <2>3, ConfirmEffect DEF CETypeOK
    <2>4. CASE UNCHANGED prov
      BY <2>4
    <2>5. ASSUME \/ \E fails \in BOOLEAN : AgentFetches(fails)
                 \/ \E t \in tasks : AgentWorks(t) \/ LoseTask(t)
                 \/ \E r \in replies : LoseReply(r)
                 \/ \E x \in device, fails \in BOOLEAN : PurgeUnknown(x, fails)
                 \/ PurgeMembers
                 \/ PurgePolicies
                 \/ UNCHANGED ceVars
          PROVE  UNCHANGED prov
      BY <2>5 DEF AgentFetches, AgentWorks, LoseTask, LoseReply, PurgeUnknown, PurgeMembers,
                  PurgePolicies, TakeOff, ceVars
    <2> HIDE DEF P
    <2> QED BY <1>1, <2>1, <2>2, <2>3, <2>4, <2>5 DEF CENext
  <1>2. CEInv /\ [CENext]_ceVars => [A]_ceVars
    BY <1>1
  <1> QED BY <1>2, Invariance, PTL DEF CESpec, ChildDeleteStands
(* The agent takes something off the device only if its removal was asked  *)
(* for, itself or with what it belongs to, or if the query for it failed.  *)
TakenOffForAReason ==
  [][\A e \in device \ device' : AskedOver(e) \/ e \in unknown']_ceVars

(* Neither an old definition nor a purge takes a wanted entity off the     *)
(* device: only a failing query, answered "Unknown", does.                 *)
THEOREM NothingTakenWrongly == CESpec => TakenOffForAReason
  <1>1. CEInv /\ [CENext]_ceVars => [\A e \in device \ device' : AskedOver(e) \/ e \in unknown']_ceVars
    <2> SUFFICES ASSUME CEInv, [CENext]_ceVars, NEW e \in device, e \notin device'
                 PROVE  AskedOver(e) \/ e \in unknown'
      OBVIOUS
    <2> USE DEF CEInv
    <2>1. ASSUME NEW t, TaskOK(t), Deploy(t) \/ GiveUp(t),
                 \A x \in DOMAIN t.status : t.status[x] = "PENDING_DELETE" => x \in asked
          PROVE  AskedOver(e)
      <3>1. PICK x \in To(t, {"PENDING_DELETE"}) : e \in Subtree[x]
        BY <2>1, DeployEffect, GiveUpEffect
      <3> QED BY <2>1, <3>1 DEF To, AskedOver
    <2>2. ASSUME NEW t \in tasks, AgentWorks(t) PROVE AskedOver(e)
      BY <2>1, <2>2 DEF AgentWorks, CETypeOK, TaskOK, DeletesAsked
    <2>3. CASE \E fails \in BOOLEAN : AgentFetches(fails)
      BY <2>3 DEF AgentFetches
    <2>4. CASE Purged
      BY <2>4 DEF Purged, TakeOff
    <2>5. ASSUME \/ \E x \in Entities : ApiCreate(x) \/ ApiUpdate(x) \/ ApiDelete(x)
                 \/ \E c \in calls : CallCasts(c) \/ CallRaises(c) \/ CallDropped(c)
                 \/ \E t \in tasks : LoseTask(t)
                 \/ \E r \in replies : Confirm(r) \/ LoseReply(r)
                 \/ UNCHANGED ceVars
          PROVE  UNCHANGED device
      BY <2>5 DEF ApiCreate, ApiUpdate, ApiDelete, Ask, CallCasts, CallRaises, CallDropped,
                  LoseTask, LoseReply, Confirm, ceVars
    <2> QED BY <2>2, <2>3, <2>4, <2>5, PurgedIs DEF CENext
  <1> QED BY <1>1, Invariance, PTL DEF CESpec, TakenOffForAReason
--------------------------------------------------------------------------------
(* The protocol of provisioning_status *)

Working == {c.of : c \in calls}

(* A call that goes leaves its entity among those worked on, if another    *)
(* call is for it, or takes it away.                                       *)
LEMMA CallLeaves ==
  ASSUME NEW c \in calls, calls' = calls \ {c}
  PROVE  c.of \in Working /\ Working' \in {Working, Working \ {c.of}}
  <1>1. CASE \E d \in calls' : d.of = c.of
    BY <1>1 DEF Working
  <1>2. CASE ~ \E d \in calls' : d.of = c.of
    BY <1>2 DEF Working
  <1> QED BY <1>1, <1>2 DEF Working

LEMMA ApiIsRequest ==
  ASSUME CEInv, NEW e \in Entities, ApiCreate(e) \/ ApiUpdate(e) \/ ApiDelete(e)
  PROVE  Status!Next
  <1>1. calls' = calls \cup {[of |-> e, number |-> ops + 1]}
    BY DEF ApiCreate, ApiUpdate, ApiDelete, Ask
  <1>2. Working' = Working \cup {e}
    <2> DEFINE new == [of |-> e, number |-> ops + 1]
    <2>1. new.of = e /\ calls' = calls \cup {new}
      BY <1>1
    <2> HIDE DEF new
    <2>2. \A x : x \in Working' <=> x \in Working \/ x = e
      BY <2>1 DEF Working
    <2> QED BY <2>2
  <1>3. Status!Request(e)
    BY <1>2 DEF ApiCreate, ApiUpdate, ApiDelete, Ask, Rows, Working, Status!Request, Status!Becomes
  <1> QED BY <1>3 DEF Status!Next

LEMMA CallIsProtocol ==
  ASSUME CEInv, NEW c \in calls, CallCasts(c) \/ CallRaises(c) \/ CallDropped(c)
  PROVE  Status!Next
  <1>1. c.of \in Entities /\ calls' = calls \ {c} /\ UNCHANGED asked
    BY DEF CEInv, CETypeOK, Calls, CallCasts, CallRaises, CallDropped, tenant
  <1>2. Status!CallGoesOn(c.of) /\ c.of \in {d.of : d \in calls}
    BY <1>1, CallLeaves DEF Status!CallGoesOn, Working
  <1>3. CASE prov' = prov
    BY <1>1, <1>2, <1>3 DEF Status!EndCall, Status!Next
  <1>4. CASE c.of \in Rows /\ prov' = [prov EXCEPT ![c.of] = "ERROR"]
    <2>1. Status!Fail(c.of)
      BY <1>1, <1>2, <1>4 DEF Status!Fail, Status!Becomes, Status!Present, Rows, Present, Pending
    <2> QED BY <1>1, <2>1 DEF Status!Next
  <1> QED BY <1>3, <1>4 DEF CallCasts, CallRaises, CallDropped

LEMMA ConfirmIsProtocol ==
  ASSUME CEInv, NEW r \in replies, Confirm(r)
  PROVE  [Status!Next]_(Status!vars)
  <1>1. UNCHANGED <<calls, asked>>
    BY ConfirmEffect DEF CEInv
  <1>2. UNCHANGED {c.of : c \in calls}
    BY <1>1
  <1>3. CASE prov' = prov
    BY <1>1, <1>2, <1>3 DEF Status!vars
  <1>4. CASE /\ r.of \in Rows /\ r.says \in {"ACTIVE", "ERROR"} /\ prov[r.of] # "PENDING_DELETE"
             /\ prov' = [prov EXCEPT ![r.of] = r.says]
    <2>1. Status!Confirm(r.of)
      BY <1>1, <1>2, <1>4
         DEF Status!Confirm, Status!Becomes, Status!Present, Rows, Present, Pending
    <2> QED BY <1>4, <2>1 DEF Status!Next, Rows
  <1>5. CASE /\ r.of \in Rows /\ r.says = "destroyed"
             /\ prov' = [e \in Entities |->
                           IF e \in Subtree[r.of] \cap Rows THEN "GONE" ELSE prov[e]]
    <2>1. r.of \in asked
      BY <1>5 DEF CEInv, DeletesAsked
    <2>2. \A e \in Entities : e \in Rows <=> prov[e] \in Status!Present
      BY DEF Rows, Present, Pending, Status!Present
    <2>3. prov' = [e \in Entities |->
                    IF e \in Subtree[r.of] /\ prov[e] \in Status!Present THEN "GONE" ELSE prov[e]]
      BY <1>5, <2>2
    <2>4. Status!Remove(r.of)
      BY <1>1, <1>2, <2>1, <2>3 DEF Status!Remove, Status!CallGoesOn
    <2> QED BY <1>5, <2>4 DEF Status!Next, Rows
  <1> QED BY <1>3, <1>4, <1>5, ConfirmEffect DEF CEInv

(* Every step keeps the protocol of provisioning_status or leaves it be.   *)
LEMMA StepIsProtocol == CEInv /\ [CENext]_ceVars => [Status!Next]_(Status!vars)
  <1> SUFFICES ASSUME CEInv, [CENext]_ceVars PROVE [Status!Next]_(Status!vars)
    OBVIOUS
  <1>1. CASE \E e \in Entities : ApiCreate(e) \/ ApiUpdate(e) \/ ApiDelete(e)
    BY <1>1, ApiIsRequest
  <1>2. CASE \E c \in calls : CallCasts(c) \/ CallRaises(c) \/ CallDropped(c)
    BY <1>2, CallIsProtocol
  <1>3. CASE \E r \in replies : Confirm(r)
    BY <1>3, ConfirmIsProtocol
  <1>4. ASSUME \/ \E fails \in BOOLEAN : AgentFetches(fails)
               \/ \E t \in tasks : AgentWorks(t) \/ LoseTask(t)
               \/ \E r \in replies : LoseReply(r)
               \/ \E x \in device, fails \in BOOLEAN : PurgeUnknown(x, fails)
               \/ PurgeMembers
               \/ PurgePolicies
               \/ UNCHANGED ceVars
        PROVE  UNCHANGED <<prov, calls, asked>>
    BY <1>4 DEF AgentFetches, AgentWorks, LoseTask, LoseReply, PurgeUnknown, PurgeMembers,
                PurgePolicies, TakeOff, ceVars, tenant
  <1>5. CASE UNCHANGED <<prov, calls, asked>>
    BY <1>5 DEF Status!vars
  <1> QED BY <1>1, <1>2, <1>3, <1>4, <1>5 DEF CENext

(* The entities below a load balancer implement StatusProtocol: whatever   *)
(* is late, lost or repeated, their statuses move only as it says.         *)
THEOREM ChildrenKeepProtocol == CESpec => ImplementsStatus
  <1>1. CEInit => Status!Init
    <2> SUFFICES ASSUME CEInit PROVE Status!Init
      OBVIOUS
    <2>1. prov \in [Entities -> {"ABSENT", "ACTIVE"}]
      BY DEF CEInit
    <2> QED BY <2>1 DEF CEInit, Status!Init
  <1> QED BY <1>1, StepIsProtocol, Invariance, PTL DEF CESpec, ImplementsStatus, Status!Spec
--------------------------------------------------------------------------------
(* Nothing pending is forgotten *)

(* A confirmation that settles e is on its way: what an entity that waits  *)
(* for its removal is told of its status does not settle it.               *)
Coming(e) ==
  \E r \in replies : r.of = e /\ (prov[e] = "PENDING_DELETE" => r.says = "destroyed")

(* The numbers of requests: no definition answers a request to come, and   *)
(* what is pending was requested.                                          *)
Numbered ==
  /\ \A t \in tasks : t.upTo <= ops
  /\ \A r \in replies : r.upTo <= ops
  /\ \A e \in Entities : since[e] <= ops /\ (prov[e] \in Pending => since[e] > 0)

(* A definition built after the last request for an entity still pending   *)
(* tells the agent of it.                                                  *)
DefinitionsTell ==
  \A t \in tasks, e \in Entities :
    prov[e] \in Pending /\ since[e] <= t.upTo => e \in DOMAIN t.status /\ t.status[e] = prov[e]

(* A confirmation of the load balancer does not come alone: those of the   *)
(* entities it was requested for are on their way with it.                 *)
UnlockedAfter ==
  \A r \in replies, e \in Unsettled : r.of = LB /\ since[e] <= r.upTo => Coming(e)

(* An unsettled entity holds the load balancer, so that the agent asks for *)
(* it, or its confirmation is on its way.                                  *)
NeverForgotten == \A e \in Unsettled : lbPending \/ Coming(e)

Followed == Numbered /\ DefinitionsTell /\ UnlockedAfter /\ NeverForgotten

(* With every row in its reach, build() tells of all that is pending.      *)
LEMMA DefinitionIsComplete ==
  ASSUME CEInv, NEW e \in Entities, prov[e] \in Pending
  PROVE  \A via : /\ e \in DOMAIN Definition(via).status
                   /\ Definition(via).status[e] = prov[e]
  <1>1. e \in Rows
    BY DEF Rows, Present
  <1>2. Service(Rows) = Rows
    BY ServiceIsAll, RowsType DEF CEInv, Rooted
  <1> QED BY <1>1, <1>2 DEF Definition

LEMMA UnsettledIs ==
  ASSUME NEW e \in Unsettled
  PROVE  e \in Entities /\ e \in Rows /\ e \notin leftOut /\ prov[e] \in Pending /\ e # LB
  BY TreeAssumption DEF Unsettled, Rows, Present

LEMMA ApiFollowed ==
  ASSUME CEInv, Followed, NEW x \in Entities, ApiCreate(x) \/ ApiUpdate(x) \/ ApiDelete(x)
  PROVE  Followed'
  <1> USE DEF Followed
  <1>1. PICK status \in Pending : Ask(x, status)
    BY DEF ApiCreate, ApiUpdate, ApiDelete, Pending
  <1>2. /\ CETypeOK /\ ops \in Nat /\ \A e \in Entities : since[e] \in Nat
        /\ \A t \in tasks : t.upTo \in Nat
        /\ \A r \in replies : r.upTo \in Nat
    BY ChildAssumption DEF CEInv, CETypeOK, Replies
  <1>3. /\ lbPending' = TRUE /\ ops' = ops + 1 /\ since'[x] = ops + 1
        /\ UNCHANGED <<tasks, replies>>
        /\ \A e \in Entities : e # x => prov'[e] = prov[e] /\ since'[e] = since[e]
        /\ leftOut' = leftOut \ {x}
    BY <1>1, <1>2 DEF Ask, CETypeOK
  <1>4. Numbered'
    BY <1>2, <1>3 DEF Numbered
  <1>5. DefinitionsTell'
    BY <1>2, <1>3 DEF DefinitionsTell, Numbered
  <1>6. UnlockedAfter'
    <2> SUFFICES ASSUME NEW r \in replies, NEW e \in Unsettled', r.of = LB, since'[e] <= r.upTo
                 PROVE  Coming(e)'
      BY <1>3 DEF UnlockedAfter
    <2>1. e \in Entities /\ e # x
      BY <1>2, <1>3 DEF Unsettled, Numbered
    <2>2. e \in Unsettled /\ since[e] <= r.upTo
      BY <1>3, <2>1 DEF Unsettled
    <2>3. Coming(e)
      BY <2>2 DEF UnlockedAfter
    <2> QED BY <1>3, <2>1, <2>3 DEF Coming
  <1> QED BY <1>3, <1>4, <1>5, <1>6 DEF NeverForgotten

LEMMA CallFollowed ==
  ASSUME CEInv, Followed, NEW c \in calls, CallCasts(c) \/ CallRaises(c) \/ CallDropped(c)
  PROVE  Followed'
  <1> USE DEF Followed
  <1>1. CETypeOK /\ c.of \in Entities /\ ops \in Nat
    BY ChildAssumption DEF CEInv, CETypeOK, Calls
  <1>2. CASE CallCasts(c)
    <2>1. tasks' = tasks \cup {Definition("cast")} /\ Definition("cast").upTo = ops
          /\ UNCHANGED <<lbPending, prov, replies, ops, since, leftOut>>
      BY <1>2 DEF CallCasts, Definition, tenant
    <2>2. Numbered'
      BY <1>1, <2>1 DEF Numbered
    <2>3. DefinitionsTell'
      BY <2>1, DefinitionIsComplete DEF DefinitionsTell
    <2> QED BY <2>1, <2>2, <2>3 DEF UnlockedAfter, NeverForgotten, Coming, Unsettled
  <1>3. CASE CallRaises(c)
    <2>1. /\ UNCHANGED <<tasks, replies, ops, since>>
          /\ leftOut' = (leftOut \cup {x \in Rows : prov[x] \in Pending}) \ {c.of}
      BY <1>3 DEF CallRaises, tenant
    <2>2. \A e \in Entities : prov'[e] \in Pending => prov'[e] = prov[e] /\ e # c.of
      BY <1>1, <1>3 DEF CallRaises, CETypeOK, Rows, Present, Pending
    <2>3. Unsettled' = {}
      BY <2>1, <2>2 DEF Unsettled, Rows, Present
    <2>4. Numbered'
      BY <2>1, <2>2 DEF Numbered
    <2>5. DefinitionsTell'
      BY <2>1, <2>2 DEF DefinitionsTell
    <2> QED BY <2>3, <2>4, <2>5 DEF UnlockedAfter, NeverForgotten
  <1>4. CASE CallDropped(c)
    BY <1>4 DEF CallDropped, tenant, Numbered, DefinitionsTell, UnlockedAfter, NeverForgotten,
                Coming, Unsettled
  <1> QED BY <1>2, <1>3, <1>4

LEMMA FetchFollowed ==
  ASSUME CEInv, Followed, NEW fails \in BOOLEAN, AgentFetches(fails)
  PROVE  Followed'
  <1> USE DEF Followed
  <1>1. /\ UNCHANGED <<lbPending, prov, replies, ops, since, leftOut>>
        /\ \A t \in tasks' : t \in tasks \/ t = Definition("fetch")
        /\ Definition("fetch").upTo = ops
    BY DEF AgentFetches, Definition, tenant
  <1>2. ops \in Nat
    BY ChildAssumption DEF CEInv, CETypeOK
  <1>3. Numbered'
    BY <1>1, <1>2 DEF Numbered
  <1>4. DefinitionsTell'
    BY <1>1, DefinitionIsComplete DEF DefinitionsTell
  <1> QED BY <1>1, <1>3, <1>4 DEF UnlockedAfter, NeverForgotten, Coming, Unsettled

(* Whatever the agent works on tells of what was requested before it.      *)
LEMMA WorkFollowed ==
  ASSUME CEInv, Followed, NEW t, Deploy(t) \/ GiveUp(t), t.upTo <= ops,
         \A e \in Entities :
           prov[e] \in Pending /\ since[e] <= t.upTo =>
             e \in DOMAIN t.status /\ t.status[e] = prov[e],
         tasks' \subseteq tasks,
         UNCHANGED <<lbPending, prov, calls, tenant, leftOut>>
  PROVE  Followed'
  <1> USE DEF Followed
  <1>1. UNCHANGED <<lbPending, prov, ops, since, leftOut>> /\ Unsettled' = Unsettled
    BY DEF tenant, Unsettled
  <1>2. replies \subseteq replies'
    BY DEF Deploy, GiveUp
  <1>3. \A e : Coming(e) => Coming(e)'
    BY <1>1, <1>2 DEF Coming
  <1>4. /\ ops \in Nat
        /\ \A e \in Entities : since[e] \in Nat
    BY ChildAssumption DEF CEInv, CETypeOK
  <1>5. \A r \in replies' : r \in replies \/ r.upTo = 0 \/ (r.of = LB /\ r.upTo = t.upTo)
    BY DEF Deploy, GiveUp, Said
  <1>6. Numbered'
    BY <1>1, <1>4, <1>5 DEF Numbered
  <1>7. DefinitionsTell'
    BY <1>1 DEF DefinitionsTell
  <1>8. ASSUME NEW r \in replies', NEW e \in Unsettled, r.of = LB, since[e] <= r.upTo
        PROVE  Coming(e)'
    <2>1. e \in Entities /\ prov[e] \in Pending /\ since[e] > 0 /\ e # LB
      BY UnsettledIs DEF Numbered
    <2>2. CASE r \in replies
      BY <1>3, <1>8, <2>2 DEF UnlockedAfter
    <2>3. CASE r.upTo = 0
      BY <1>4, <1>8, <2>1, <2>3
    <2>4. CASE r \notin replies /\ r.upTo = t.upTo /\ r.upTo # 0
      <3>1. Deploy(t)
        BY <1>8, <2>4 DEF GiveUp, Said
      <3>2. e \in DOMAIN t.status /\ t.status[e] = prov[e]
        BY <1>8, <2>1, <2>4
      <3>3. CASE prov[e] = "PENDING_DELETE"
        <4>1. [of |-> e, says |-> "destroyed", upTo |-> 0] \in replies'
          BY <3>1, <3>2, <3>3 DEF Deploy, Said, To
        <4> QED BY <4>1 DEF Coming
      <3>4. CASE prov[e] \in {"PENDING_CREATE", "PENDING_UPDATE"}
        <4>1. [of |-> e, says |-> "ACTIVE", upTo |-> 0] \in replies'
          BY <3>1, <3>2, <3>4 DEF Deploy, Said, To
        <4>2. prov'[e] # "PENDING_DELETE"
          BY <1>1, <3>4
        <4> QED BY <4>1, <4>2 DEF Coming
      <3> QED BY <2>1, <3>3, <3>4 DEF Pending
    <2> QED BY <1>5, <2>2, <2>3, <2>4
  <1>9. UnlockedAfter'
    BY <1>1, <1>8 DEF UnlockedAfter
  <1>10. NeverForgotten'
    BY <1>1, <1>3 DEF NeverForgotten
  <1> QED BY <1>6, <1>7, <1>9, <1>10

(* What a confirmation leaves pending it leaves as it is, and takes none   *)
(* of the confirmations that settle it.                                    *)
LEMMA ConfirmLeaves ==
  ASSUME CEInv, NEW r \in replies, Confirm(r), NEW e \in Entities, prov'[e] \in Pending
  PROVE  /\ prov'[e] = prov[e]
         /\ e \in leftOut => e \in leftOut'
         /\ Coming(e) => Coming(e)'
  <1> USE DEF CEInv
  <1>0. /\ r \in Replies /\ replies' = replies \ {r} /\ LB \notin Entities
        /\ leftOut \subseteq Entities
    BY TreeAssumption DEF Confirm, CETypeOK
  <1>1. prov'[e] = prov[e] /\ (r.of = e => r.says # "destroyed" /\ prov[e] = "PENDING_DELETE")
    <2>1. CASE RewriteStatus(r) \/ WriteStatus(r)
      <3>1. e \in Rows \/ prov'[e] = prov[e]
        BY <2>1 DEF RewriteStatus, WriteStatus, Settle, CETypeOK
      <3>2. CASE e # r.of
        BY <2>1, <3>2 DEF RewriteStatus, WriteStatus, Settle, CETypeOK
      <3>3. CASE e = r.of
        BY <2>1, <3>3 DEF RewriteStatus, WriteStatus, Settle, CETypeOK, Rows, Present, Pending
      <3> QED BY <3>2, <3>3
    <2>2. CASE Destroyed(r)
      <3>1. CASE r.of \in Rows
        <4>1. prov' = [x \in Entities |-> IF x \in Subtree[r.of] \cap Rows THEN "GONE" ELSE prov[x]]
          BY <2>2, <3>1 DEF Destroyed
        <4>2. e \notin Subtree[r.of] \cap Rows
          BY <4>1 DEF Pending
        <4>3. r.of \in Subtree[r.of] \cap Rows
          BY <3>1, RowsType, SubtreeType
        <4> QED BY <4>1, <4>2, <4>3
      <3>2. CASE r.of \notin Rows
        BY <2>2, <3>2 DEF Destroyed, Rows, Present
      <3> QED BY <3>1, <3>2
    <2>3. CASE Unlock(r)
      BY <1>0, <2>3 DEF Unlock
    <2> QED BY <2>1, <2>2, <2>3 DEF Confirm
  <1>2. e \in leftOut => e \in leftOut'
    BY DEF Confirm, RewriteStatus, WriteStatus, Settle, Destroyed, Unlock
  <1>3. Coming(e) => Coming(e)'
    BY <1>0, <1>1 DEF Coming
  <1> QED BY <1>1, <1>2, <1>3

LEMMA ConfirmFollowed ==
  ASSUME CEInv, Followed, NEW r \in replies, Confirm(r)
  PROVE  Followed'
  <1> USE DEF Followed
  <1>1. replies' \subseteq replies /\ UNCHANGED <<tasks, ops, since>>
    BY DEF Confirm, tenant
  <1>2. \A e \in Entities : prov'[e] \in Pending => prov'[e] = prov[e]
    BY ConfirmLeaves
  <1>3. \A e \in Unsettled' : e \in Unsettled /\ (Coming(e) => Coming(e)')
    BY ConfirmLeaves DEF Unsettled
  <1>4. Numbered'
    BY <1>1, <1>2 DEF Numbered
  <1>5. DefinitionsTell'
    BY <1>1, <1>2 DEF DefinitionsTell
  <1>6. UnlockedAfter'
    BY <1>1, <1>3 DEF UnlockedAfter
  <1>7. ASSUME NEW e \in Unsettled', ~lbPending' PROVE Coming(e)
    <2>1. CASE lbPending
      <3>1. Unlock(r)
        BY <1>7, <2>1 DEF Confirm, RewriteStatus, WriteStatus, Settle, Destroyed
      <3>2. ~(since[e] > r.upTo)
        BY <1>3, <1>7, <2>1, <3>1, UnsettledIs DEF Unlock, Unsettled
      <3>3. since[e] \in Int /\ r.upTo \in Int
        BY <1>3, UnsettledIs DEF CEInv, CETypeOK, Replies
      <3> QED BY <1>3, <3>1, <3>2, <3>3 DEF Unlock, UnlockedAfter
    <2>2. CASE ~lbPending
      BY <1>3, <2>2 DEF NeverForgotten
    <2> QED BY <2>1, <2>2
  <1>8. NeverForgotten'
    BY <1>3, <1>7 DEF NeverForgotten
  <1> QED BY <1>4, <1>5, <1>6, <1>8

LEMMA LossFollowed ==
  ASSUME CEInv, Followed,
         (\E t \in tasks : LoseTask(t)) \/ (\E r \in replies : LoseReply(r))
  PROVE  Followed'
  <1> USE DEF Followed, Numbered, DefinitionsTell, UnlockedAfter, NeverForgotten
  <1>1. CASE \E t \in tasks : LoseTask(t)
    BY <1>1 DEF LoseTask, tenant, Coming, Unsettled
  <1>2. ASSUME NEW r \in replies, LoseReply(r) PROVE Followed'
    <2>1. /\ replies' = replies \ {r} /\ UNCHANGED <<lbPending, prov, tasks, ops, since>>
          /\ leftOut' = leftOut \cup {e \in Rows : e = r.of /\ prov[e] \in Pending}
      BY <1>2 DEF LoseReply, tenant
    <2>2. \A e \in Unsettled' : e \in Unsettled /\ e # r.of
      BY <2>1 DEF Unsettled, Rows, Present
    <2>3. \A e \in Unsettled' : Coming(e) => Coming(e)'
      BY <2>1, <2>2 DEF Coming
    <2> QED BY <2>1, <2>2, <2>3
  <1> QED BY <1>1, <1>2

LEMMA InitFollowed == CEInit => Followed
  <1> SUFFICES ASSUME CEInit PROVE Followed
    OBVIOUS
  <1>1. \A e \in Entities : prov[e] \notin Pending /\ since[e] = 0
    BY DEF CEInit, Pending
  <1>2. ops = 0 /\ tasks = {} /\ replies = {}
    BY DEF CEInit
  <1> QED BY <1>1, <1>2
          DEF Followed, Numbered, DefinitionsTell, UnlockedAfter, NeverForgotten, Unsettled

LEMMA NextFollowed == CEInv /\ Followed /\ [CENext]_ceVars => Followed'
  <1> SUFFICES ASSUME CEInv, Followed, [CENext]_ceVars PROVE Followed'
    OBVIOUS
  <1>1. ASSUME NEW t \in tasks, AgentWorks(t) PROVE Followed'
    <2>1. t.upTo <= ops
      BY DEF Followed, Numbered
    <2>2. \A e \in Entities : prov[e] \in Pending /\ since[e] <= t.upTo =>
            e \in DOMAIN t.status /\ t.status[e] = prov[e]
      BY DEF Followed, DefinitionsTell
    <2> QED BY <1>1, <2>1, <2>2, WorkFollowed DEF AgentWorks
  <1>2. ASSUME \/ \E e \in device, fails \in BOOLEAN : PurgeUnknown(e, fails)
               \/ PurgeMembers
               \/ PurgePolicies
               \/ UNCHANGED ceVars
        PROVE  UNCHANGED <<lbPending, prov, tasks, replies, ops, since, leftOut>>
    BY <1>2 DEF PurgeUnknown, PurgeMembers, PurgePolicies, TakeOff, ceVars, tenant
  <1>3. CASE UNCHANGED <<lbPending, prov, tasks, replies, ops, since, leftOut>>
    BY <1>3 DEF Followed, Numbered, DefinitionsTell, UnlockedAfter, NeverForgotten, Coming,
                Unsettled
  <1> QED BY <1>1, <1>2, <1>3, ApiFollowed, CallFollowed, FetchFollowed, ConfirmFollowed,
             LossFollowed
          DEF CENext

(* No order of requests, unlocks and late confirmations forgets a pending  *)
(* entity: unless it was left out of an unlock or its confirmation lost,   *)
(* the load balancer is still locked for it (and the agent's listing finds *)
(* it) or a confirmation that settles it is on its way.                    *)
THEOREM PendingIsFollowed == CESpec => []NeverForgotten
  <1>1. Followed => NeverForgotten
    BY DEF Followed
  <1> QED BY <1>1, InitInv, NextInv, InitFollowed, NextFollowed, PTL DEF CESpec
================================================================================
