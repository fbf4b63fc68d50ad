---------------------------- MODULE MCChildEntities ----------------------------
(* A listener and its policy, a pool and its member. *)
EXTENDS ChildEntities, TLC

CONSTANTS l1, p1, q1, m1

MCKindOf == l1 :> "listener" @@ p1 :> "l7policy" @@ q1 :> "pool" @@ m1 :> "member"
MCParentOf == l1 :> LB @@ p1 :> l1 @@ q1 :> LB @@ m1 :> q1
MCInitialRows == {{l1, q1, m1}}
================================================================================
