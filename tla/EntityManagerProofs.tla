-------------------------- MODULE EntityManagerProofs --------------------------
(***************************************************************************)
(* What the requests of one manager cannot spoil for each other, for any   *)
(* number of requests, kinds and load balancers.                           *)
(***************************************************************************)
EXTENDS EntityManager, TLAPS

(* Past its _setup_crud a request has asked for an agent of a load         *)
(* balancer, and its entity has one.                                       *)
Attached ==
  \A r \in Requests : at[r] \in {"schedule1", "build1", "port", "schedule", "build"} =>
    asked[r] \in LoadBalancers /\ LBOf[r] # None

(* Only a member create with a port takes the steps around the port. *)
OnlyMembersMakePorts ==
  \A r \in Requests : at[r] \in {"subnet", "schedule1", "build1", "port", "unport"} =>
    Kind[r] = "fakePort"

(* A request without a port waits for the agent of its own load balancer. *)
AskedForOwn ==
  \A r \in Requests : Kind[r] # "fakePort" /\ at[r] \in {"schedule", "build"} =>
    asked[r] = LBOf[r]

(* What a cast needs is there. *)
ReadyToCast ==
  \A r \in Requests :
    /\ at[r] = "build" => built[r] \in LoadBalancers
    /\ at[r] \in {"schedule", "build"} /\ Kind[r] # "own" => apiDict \in Requests

(* A port that exists belongs to a member create that still has to remove  *)
(* it, or that raised.                                                     *)
PortHasOwner ==
  \A r \in Requests : port[r] = "known" =>
    Kind[r] = "fakePort" /\ at[r] \in {"schedule", "build", "unport", "raised"}

IInv ==
  /\ TypeOK
  /\ Attached /\ OnlyMembersMakePorts /\ AskedForOwn /\ ReadyToCast /\ PortHasOwner
  /\ HostIsOwn /\ UnattachedIsSilent

LEMMA InitIInv == Init => IInv
BY EntityAssumption
   DEF Init, IInv, TypeOK, Attached, OnlyMembersMakePorts, AskedForOwn, ReadyToCast,
       PortHasOwner, HostIsOwn, UnattachedIsSilent, Waiting, Over

(* A step of one request keeps the other requests' parts because it leaves *)
(* their places alone; what it sends it has found on its own way.          *)
LEMMA BeginIInv == ASSUME IInv, NEW r \in Requests, Begin(r) PROVE IInv'
BY EntityAssumption
   DEF Begin, SetupCrud, Goto, IInv, TypeOK, Attached, OnlyMembersMakePorts, AskedForOwn,
       ReadyToCast, PortHasOwner, HostIsOwn, UnattachedIsSilent, Waiting, Over,
       Kinds, Running

LEMMA GotSubnetIInv == ASSUME IInv, NEW r \in Requests, GotSubnet(r) PROVE IInv'
BY EntityAssumption
   DEF GotSubnet, SetupCrud, Goto, IInv, TypeOK, Attached, OnlyMembersMakePorts, AskedForOwn,
       ReadyToCast, PortHasOwner, HostIsOwn, UnattachedIsSilent, Waiting, Over

LEMMA ScheduledIInv == ASSUME IInv, NEW r \in Requests, Scheduled(r) PROVE IInv'
BY EntityAssumption
   DEF Scheduled, Goto, IInv, TypeOK, Attached, OnlyMembersMakePorts, AskedForOwn,
       ReadyToCast, PortHasOwner, HostIsOwn, UnattachedIsSilent, Waiting, Over

LEMMA NoAgentIInv == ASSUME IInv, NEW r \in Requests, NoAgent(r) PROVE IInv'
BY EntityAssumption
   DEF NoAgent, Goto, IInv, TypeOK, Attached, OnlyMembersMakePorts, AskedForOwn,
       ReadyToCast, PortHasOwner, HostIsOwn, UnattachedIsSilent, Waiting, Over,
       locals

LEMMA FailsIInv == ASSUME IInv, NEW r \in Requests, Fails(r) PROVE IInv'
BY EntityAssumption
   DEF Fails, Goto, IInv, TypeOK, Attached, OnlyMembersMakePorts, AskedForOwn,
       ReadyToCast, PortHasOwner, HostIsOwn, UnattachedIsSilent, Waiting, Over,
       locals

LEMMA BuiltForPortIInv == ASSUME IInv, NEW r \in Requests, BuiltForPort(r) PROVE IInv'
BY EntityAssumption
   DEF BuiltForPort, Goto, IInv, TypeOK, Attached, OnlyMembersMakePorts, AskedForOwn,
       ReadyToCast, PortHasOwner, HostIsOwn, UnattachedIsSilent, Waiting, Over,
       locals

LEMMA GotPortIInv == ASSUME IInv, NEW r \in Requests, GotPort(r) PROVE IInv'
BY EntityAssumption
   DEF GotPort, SetupCrud, Goto, IInv, TypeOK, Attached, OnlyMembersMakePorts, AskedForOwn,
       ReadyToCast, PortHasOwner, HostIsOwn, UnattachedIsSilent, Waiting, Over

LEMMA CastIInv == ASSUME IInv, NEW r \in Requests, Cast(r) PROVE IInv'
<1> DEFINE m == [by |-> r, host |-> asked[r], service |-> built[r],
                 dict |-> IF Kind[r] = "own" THEN r ELSE apiDict]
<1>1. m \in Casts /\ sent' = sent \cup {m}
  BY DEF Cast, IInv, Attached, ReadyToCast, Casts
<1>2. /\ LBOf[r] # None
      /\ Kind[r] # "fakePort" => asked[r] = LBOf[r]
  BY DEF Cast, IInv, Attached, AskedForOwn
<1>3. TypeOK'
  BY <1>1 DEF Cast, Goto, IInv, TypeOK, Waiting, Over
<1>4. (Attached /\ OnlyMembersMakePorts /\ AskedForOwn /\ ReadyToCast /\ PortHasOwner)'
  BY EntityAssumption
     DEF Cast, Goto, IInv, TypeOK, Attached, OnlyMembersMakePorts, AskedForOwn, ReadyToCast,
         PortHasOwner
<1>5. (HostIsOwn /\ UnattachedIsSilent)'
  BY <1>1, <1>2 DEF IInv, HostIsOwn, UnattachedIsSilent
<1> QED
  BY <1>3, <1>4, <1>5 DEF IInv

LEMMA PortGoneIInv == ASSUME IInv, NEW r \in Requests, PortGone(r) PROVE IInv'
BY EntityAssumption
   DEF PortGone, Goto, IInv, TypeOK, Attached, OnlyMembersMakePorts, AskedForOwn,
       ReadyToCast, PortHasOwner, HostIsOwn, UnattachedIsSilent, Waiting, Over

LEMMA NextIInv == IInv /\ [Next]_vars => IInv'
<1> SUFFICES ASSUME IInv, [Next]_vars PROVE IInv'
  OBVIOUS
<1>1. CASE UNCHANGED vars
  BY <1>1 DEF vars, IInv, TypeOK, Attached, OnlyMembersMakePorts, AskedForOwn, ReadyToCast,
              PortHasOwner, HostIsOwn, UnattachedIsSilent
<1>2. ASSUME NEW r \in Requests, Step(r) PROVE IInv'
  BY <1>2, BeginIInv, GotSubnetIInv, ScheduledIInv, NoAgentIInv, FailsIInv, BuiltForPortIInv,
     GotPortIInv, CastIInv, PortGoneIInv DEF Step
<1> QED
  BY <1>1, <1>2 DEF Next

LEMMA SpecIInv == Spec => []IInv
BY InitIInv, NextIInv, PTL DEF Spec

(* Types: what is cast names a request and load balancers, never None,     *)
(* although the manager's attributes may be None.                          *)
THEOREM TypeCorrect == Spec => []TypeOK
<1>1. IInv => TypeOK
  BY DEF IInv
<1> QED
  BY <1>1, SpecIInv, PTL

(* A request without a port reaches the agent of its own load balancer. *)
THEOREM ReachesOwnHost == Spec => []HostIsOwn
<1>1. IInv => HostIsOwn
  BY DEF IInv
<1> QED
  BY <1>1, SpecIInv, PTL

(* A request without a load balancer sends nothing, whatever earlier       *)
(* requests left in the manager.                                           *)
THEOREM UnattachedSendsNothing == Spec => []UnattachedIsSilent
<1>1. IInv => UnattachedIsSilent
  BY DEF IInv
<1> QED
  BY <1>1, SpecIInv, PTL

(* A fake pool port whose id is known is gone when its request has ended   *)
(* well.                                                                   *)
THEOREM PortsAreRemoved == Spec => []PortRemoved
<1>1. IInv => PortRemoved
  BY DEF IInv, PortHasOwner, PortRemoved
<1> QED
  BY <1>1, SpecIInv, PTL

--------------------------------------------------------------------------------
(* A request that runs alone finds the manager as it left it.              *)

(* Two requests that run at the same time know that they do. *)
CrossedTogether ==
  \A r, s \in Running : r # s => r \in crossed

(* What a request that no other overlapped has put into the manager and    *)
(* got from its calls so far is its own.                                   *)
OwnWhileAlone ==
  \A r \in Running \ crossed :
    /\ loadbalancer = LBOf[r]
    /\ Kind[r] = "shared" => apiDict = r
    /\ Kind[r] = "fakePort" /\ at[r] \in {"schedule", "build"} => apiDict = r
    /\ at[r] \in {"schedule", "build"} => asked[r] = LBOf[r]
    /\ at[r] = "build" => built[r] = LBOf[r]

AloneInv == IInv /\ CrossedTogether /\ OwnWhileAlone /\ AloneIsOwn

(* A step of a request that has begun is not seen by one that runs alone:  *)
(* the two would have crossed.                                             *)
LEMMA OnlyOneAlone ==
  ASSUME CrossedTogether, NEW q \in Running, NEW r \in Running \ crossed
  PROVE  r = q
BY DEF CrossedTogether

LEMMA BeginAlone == ASSUME AloneInv, NEW q \in Requests, Begin(q) PROVE AloneInv'
<1>1. IInv'
  BY BeginIInv DEF AloneInv
<1>2. /\ Running' \subseteq Running \cup {q} /\ q \notin Running
      /\ crossed' = IF Running = {} THEN crossed ELSE crossed \cup Running \cup {q}
      /\ at \in [Requests -> Waiting \cup Over \cup {"new"}]
  BY DEF Begin, SetupCrud, Goto, Running, AloneInv, IInv, TypeOK, Waiting, Over
<1>3. CrossedTogether'
  BY <1>2 DEF AloneInv, CrossedTogether
<1>4. ASSUME NEW r \in Running' \ crossed'
      PROVE  r = q
  BY <1>2, <1>4
<1>5. /\ loadbalancer' = LBOf[q]
      /\ Kind[q] = "shared" => apiDict' = q
      /\ Kind[q] = "fakePort" => at'[q] \notin {"schedule", "build"}
      /\ at'[q] # "build"
      /\ at'[q] = "schedule" => asked'[q] = LBOf[q]
  BY DEF Begin, SetupCrud, Goto, AloneInv, IInv, TypeOK
<1>6. OwnWhileAlone'
  BY <1>4, <1>5 DEF OwnWhileAlone
<1>7. AloneIsOwn'
  BY <1>2 DEF AloneInv, AloneIsOwn, Begin
<1> QED
  BY <1>1, <1>3, <1>6, <1>7 DEF AloneInv

LEMMA GotSubnetAlone == ASSUME AloneInv, NEW q \in Requests, GotSubnet(q) PROVE AloneInv'
<1>1. IInv' /\ at \in [Requests -> Waiting \cup Over \cup {"new"}]
  BY GotSubnetIInv DEF AloneInv, IInv, TypeOK
<1>2. q \in Running /\ Running' \subseteq Running /\ crossed' = crossed
  BY <1>1 DEF GotSubnet, SetupCrud, Goto, Running, Waiting
<1>3. CrossedTogether'
  BY <1>2 DEF AloneInv, CrossedTogether
<1>4. /\ at'[q] \notin {"schedule", "build"}
      /\ UNCHANGED <<loadbalancer, apiDict>>
  BY <1>1 DEF GotSubnet, SetupCrud, Goto
<1>5. OwnWhileAlone'
  BY <1>2, <1>4, OnlyOneAlone DEF AloneInv, OwnWhileAlone
<1>6. AloneIsOwn'
  BY DEF AloneInv, AloneIsOwn, GotSubnet
<1> QED
  BY <1>1, <1>3, <1>5, <1>6 DEF AloneInv

LEMMA ScheduledAlone == ASSUME AloneInv, NEW q \in Requests, Scheduled(q) PROVE AloneInv'
<1>1. /\ IInv'
      /\ at \in [Requests -> Waiting \cup Over \cup {"new"}]
      /\ built \in [Requests -> LoadBalancers \cup {None}]
  BY ScheduledIInv DEF AloneInv, IInv, TypeOK
<1>2. q \in Running /\ Running' \subseteq Running /\ crossed' = crossed
  BY <1>1 DEF Scheduled, Goto, Running, Waiting
<1>3. CrossedTogether'
  BY <1>2 DEF AloneInv, CrossedTogether
<1>4. /\ at'[q] \in {"schedule", "build"} => at[q] = "schedule"
      /\ built'[q] = loadbalancer
      /\ UNCHANGED <<loadbalancer, apiDict, asked>>
  BY <1>1 DEF Scheduled, Goto
<1>5. OwnWhileAlone'
  BY <1>2, <1>4, OnlyOneAlone DEF AloneInv, OwnWhileAlone
<1>6. AloneIsOwn'
  BY DEF AloneInv, AloneIsOwn, Scheduled
<1> QED
  BY <1>1, <1>3, <1>5, <1>6 DEF AloneInv

(* The steps that leave the manager as it is. *)
LEMMA LeavesAlone ==
  ASSUME AloneInv, IInv', NEW q \in Running,
         UNCHANGED <<loadbalancer, apiDict, asked, built, sent, crossed>>,
         NEW place \in {"build1", "port", "unport", "done", "raised"}, Goto(q, place)
  PROVE  AloneInv'
<1>1. at \in [Requests -> Waiting \cup Over \cup {"new"}] /\ q \in Requests
  BY DEF AloneInv, IInv, TypeOK, Running
<1>2. Running' \subseteq Running
  BY <1>1 DEF Goto, Running
<1>3. CrossedTogether'
  BY <1>2 DEF AloneInv, CrossedTogether
<1>4. at'[q] \notin {"schedule", "build"}
  BY <1>1 DEF Goto
<1>5. OwnWhileAlone'
  BY <1>2, <1>4, OnlyOneAlone DEF AloneInv, OwnWhileAlone
<1>6. AloneIsOwn'
  BY DEF AloneInv, AloneIsOwn
<1> QED
  BY <1>3, <1>5, <1>6 DEF AloneInv

LEMMA GotPortAlone == ASSUME AloneInv, NEW q \in Requests, GotPort(q) PROVE AloneInv'
<1>1. /\ IInv'
      /\ at \in [Requests -> Waiting \cup Over \cup {"new"}]
      /\ asked \in [Requests -> LoadBalancers \cup {None}]
  BY GotPortIInv DEF AloneInv, IInv, TypeOK
<1>2. q \in Running /\ Running' \subseteq Running /\ crossed' = crossed
  BY <1>1 DEF GotPort, SetupCrud, Goto, Running, Waiting
<1>3. CrossedTogether'
  BY <1>2 DEF AloneInv, CrossedTogether
<1>4. /\ at'[q] # "build"
      /\ at'[q] = "schedule" => asked'[q] = loadbalancer
      /\ apiDict' = q /\ loadbalancer' = loadbalancer
  BY <1>1 DEF GotPort, SetupCrud, Goto
<1>5. OwnWhileAlone'
  BY <1>2, <1>4, OnlyOneAlone DEF AloneInv, OwnWhileAlone
<1>6. AloneIsOwn'
  BY DEF AloneInv, AloneIsOwn, GotPort
<1> QED
  BY <1>1, <1>3, <1>5, <1>6 DEF AloneInv

LEMMA CastAlone == ASSUME AloneInv, NEW q \in Requests, Cast(q) PROVE AloneInv'
<1>1. IInv' /\ at \in [Requests -> Waiting \cup Over \cup {"new"}]
  BY CastIInv DEF AloneInv, IInv, TypeOK
<1>2. q \in Running /\ Running' \subseteq Running /\ crossed' = crossed
  BY <1>1 DEF Cast, Goto, Running, Waiting
<1>3. CrossedTogether'
  BY <1>2 DEF AloneInv, CrossedTogether
<1>4. /\ at'[q] \notin {"schedule", "build"}
      /\ UNCHANGED <<loadbalancer, apiDict>>
  BY <1>1 DEF Cast, Goto
<1>5. OwnWhileAlone'
  BY <1>2, <1>4, OnlyOneAlone DEF AloneInv, OwnWhileAlone
<1> DEFINE m == [by |-> q, host |-> asked[q], service |-> built[q],
                 dict |-> IF Kind[q] = "own" THEN q ELSE apiDict]
<1>6. sent' = sent \cup {m}
  BY DEF Cast
<1>7. q \notin crossed => m.host = LBOf[q] /\ m.dict = q /\ m.service = LBOf[q]
  BY <1>2, EntityAssumption DEF Cast, AloneInv, OwnWhileAlone, Kinds
<1>8. AloneIsOwn'
  BY <1>2, <1>6, <1>7 DEF AloneInv, AloneIsOwn
<1> QED
  BY <1>1, <1>3, <1>5, <1>8 DEF AloneInv

LEMMA NextAlone == AloneInv /\ [Next]_vars => AloneInv'
<1> SUFFICES ASSUME AloneInv, [Next]_vars PROVE AloneInv'
  OBVIOUS
<1>1. IInv'
  BY NextIInv DEF AloneInv
<1>2. CASE UNCHANGED vars
  BY <1>1, <1>2 DEF vars, AloneInv, CrossedTogether, OwnWhileAlone, AloneIsOwn, Running
<1>3. ASSUME NEW q \in Requests, Step(q) PROVE AloneInv'
  <2>1. CASE NoAgent(q)
    <3>1. q \in Running
      BY <2>1 DEF NoAgent, Running, Waiting
    <3> QED
      BY <1>1, <2>1, <3>1, LeavesAlone DEF NoAgent, locals
  <2>2. CASE Fails(q)
    BY <1>1, <2>2, LeavesAlone DEF Fails, locals, Running
  <2>3. CASE BuiltForPort(q)
    <3>1. q \in Running
      BY <2>3 DEF BuiltForPort, Running, Waiting
    <3> QED
      BY <1>1, <2>3, <3>1, LeavesAlone DEF BuiltForPort, locals
  <2>4. CASE PortGone(q)
    <3>1. q \in Running
      BY <2>4 DEF PortGone, Running, Waiting
    <3> QED
      BY <1>1, <2>4, <3>1, LeavesAlone DEF PortGone
  <2> QED
    BY <1>3, <2>1, <2>2, <2>3, <2>4, BeginAlone, GotSubnetAlone, ScheduledAlone,
       GotPortAlone, CastAlone DEF Step
<1> QED
  BY <1>2, <1>3 DEF Next

(* A request that no other overlapped sends what is its own to its own     *)
(* agent, whatever the requests before it left in the manager.             *)
THEOREM AloneSendsOwn == Spec => []AloneIsOwn
<1>1. Init => AloneInv
  BY InitIInv DEF Init, AloneInv, CrossedTogether, OwnWhileAlone, AloneIsOwn, Running, Waiting
<1>2. AloneInv => AloneIsOwn
  BY DEF AloneInv
<1> QED
  BY <1>1, <1>2, NextAlone, PTL DEF Spec
================================================================================
