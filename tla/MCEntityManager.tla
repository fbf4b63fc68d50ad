---------------------------- MODULE MCEntityManager ----------------------------
(* Three requests that overlap: a create, an update and a member create    *)
(* with a port; and one for an entity without a load balancer.             *)
EXTENDS EntityManager, TLC

CONSTANTS r1, r2, r3, r4, l1, l2

MCKind == r1 :> "shared" @@ r2 :> "own" @@ r3 :> "fakePort" @@ r4 :> "shared"
MCLBOf == r1 :> l1 @@ r2 :> l2 @@ r3 :> l1 @@ r4 :> None

TwoCreates == r1 :> "shared" @@ r2 :> "shared"
TwoLBOf == r1 :> l1 @@ r2 :> l2
================================================================================
