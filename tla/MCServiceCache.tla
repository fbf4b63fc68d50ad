---------------------------- MODULE MCServiceCache ----------------------------
(* Three builds for an environment of two hosts: the VIP's ports of b1 and *)
(* b3 have a segment, the one of b2 has none.  b1 has a member on the VIP's*)
(* own network, where F5's second port names another segment; b2 has one   *)
(* on n2, the VIP's network of b3, where the last host's segment is gone.  *)
EXTENDS ServiceCache, TLC

CONSTANTS b1, b2, b3, n1, n2, s1, s2, sA, sB, v1, v2, v3, p1, p2, h1, h2, h3, env, other

MCNets == b1 :> <<n1, n1>> @@ b2 :> <<n1, n2>> @@ b3 :> <<n2>>
MCVipPort == b1 :> v1 @@ b2 :> v2 @@ b3 :> v3
MCNative == n1 :> s1 @@ n2 :> s2

MCAgentRows == <<[host |-> h1, env |-> env], [host |-> h3, env |-> other],
                 [host |-> h2, env |-> env]>>
MCLevels ==
     v1 :> (h1 :> <<sA>> @@ h2 :> <<>>   @@ h3 :> <<sB>>)
  @@ v2 :> (h1 :> <<>>   @@ h2 :> <<>>   @@ h3 :> <<sB>>)
  @@ v3 :> (h1 :> <<sA>> @@ h2 :> <<None, sB>> @@ h3 :> <<>>)
  @@ p1 :> (h1 :> <<sA>> @@ h2 :> <<sB>> @@ h3 :> <<>>)
  @@ p2 :> (h1 :> <<sA>> @@ h2 :> <<None>> @@ h3 :> <<>>)
MCF5Port ==
     n1 :> (h1 :> p2   @@ h2 :> p1   @@ h3 :> None)
  @@ n2 :> (h1 :> p2   @@ h2 :> None @@ h3 :> None)

MCTableSegments == n1 :> <<s1, sA, sB>> @@ n2 :> <<s2, sA, sB>>
MCUsable == b1 :> {sA} @@ b2 :> {} @@ b3 :> {sA, sB}
================================================================================
