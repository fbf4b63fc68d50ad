----------------------------- MODULE SegmentLookup -----------------------------
(***************************************************************************)
(* Which segment of a network a service definition is to name: the lookups *)
(* of disconnected_service.py, and the queries of agent_scheduler.py and   *)
(* service_builder.py that they go by.  Each of them reads a table; the    *)
(* tables stay as they are.                                                *)
(***************************************************************************)
EXTENDS Integers, Sequences
LOCAL INSTANCE FiniteSetsExt

CONSTANTS
  None, Networks, Segments, Hosts, Envs, Ports,
  TableSegments,  \* network -> its rows in ml2_network_segments, in their order
  AgentRows,      \* the agents' table, in its order: [host, env]
  Env,            \* the driver's environment
  Vlan, Opflex,   \* the segments of these types
  Levels,         \* port -> host -> the segments of its binding levels that are
                  \* of an F5 driver, in order; None for a segment that is gone
  F5Port          \* network -> host -> the port of F5's agent there, or None

ASSUME LookupAssumption ==
  /\ None \notin Segments \cup Ports
  /\ TableSegments \in [Networks -> Seq(Segments)]
  /\ AgentRows \in Seq([host : Hosts, env : Envs])
  /\ Vlan \subseteq Segments
  /\ Levels \in [Ports -> [Hosts -> Seq(Segments \cup {None})]]
  /\ F5Port \in [Networks -> [Hosts -> Ports \cup {None}]]

(* rows: a function on numbers; what it has first of the wanted, or None. *)
FirstIn(rows, wanted) ==
  LET First(k) == /\ rows[k] \in wanted
                  /\ \A j \in DOMAIN rows : rows[j] \in wanted => k <= j
  IN  IF \E k \in DOMAIN rows : First(k)
        THEN rows[CHOOSE k \in DOMAIN rows : First(k)] ELSE None

(* usable: in the agent's physical network, with an encapsulation that it  *)
(* supports; current: what the network says now.  Without a segment found, *)
(* the network's own data are the answer.                                  *)
GetNetworkSegment(n, current, usable) ==
  FirstIn(TableSegments[n], usable \cup IF current \in Opflex THEN Vlan ELSE {})

(* Hosts by the places of their agents in the table, alive or not. *)
GetAgentsHostsInEnv ==
  [k \in {k \in DOMAIN AgentRows : AgentRows[k].env = Env} |-> AgentRows[k].host]

(* A host with a level of an F5 driver overrides the hosts before it, also *)
(* when none of its segments is left.                                      *)
GetSegmentId(port) ==
  LET hosts == GetAgentsHostsInEnv
      bound == {k \in DOMAIN hosts : Levels[port][hosts[k]] # <<>>}
  IN  IF bound = {} THEN None ELSE FirstIn(Levels[port][hosts[Max(bound)]], Segments)

(* The first host whose port of F5's on the member's network has one.      *)
(* raised: the places of the hosts for which get_segment_id swallowed an   *)
(* exception, which answers None.                                          *)
MemberSegment(n, raised) ==
  LET hosts == GetAgentsHostsInEnv
  IN  FirstIn([k \in DOMAIN hosts |->
                 IF k \in raised \/ F5Port[n][hosts[k]] = None THEN None
                 ELSE GetSegmentId(F5Port[n][hosts[k]])], Segments)
================================================================================
