------------------------------ MODULE NeutronPorts ------------------------------
(***************************************************************************)
(* The calls by which agents have the driver manage Neutron ports          *)
(* (plugin_rpc.py, "Neutron core plugin core object management").  Each of *)
(* them is a few calls of the core plugin, in transactions of their own,   *)
(* and other calls run between: a creation looks for the name first, a     *)
(* deletion lists the ports and deletes them one by one, and a change of   *)
(* the allowed address pairs reads the list and writes it back.            *)
(*                                                                         *)
(* A port is named by the call that created it.  A pair is named by its    *)
(* address: the calls only add and remove pairs with the port's own MAC.   *)
(* The lists keep their order: add_allowed_address stops at a pair.        *)
(***************************************************************************)
EXTENDS Integers, Sequences, SequencesExt

CONSTANTS
  Calls,
  Names,       \* names of ports
  Addresses,
  PairsListed, \* do the core plugin's ports name their allowed address pairs?
  None

(* create_port_on_network; create_port_on_subnet; delete_port_by_name,     *)
(* which is also delete_port by MAC address; {add,remove}_allowed_address; *)
(* delete_port by the port's id.                                           *)
Requests ==
  [kind : {"onNetwork", "onSubnet", "delete"}, about : Names]
    \cup [kind : {"add", "remove"}, about : Addresses]
    \cup [kind : {"deletePort"}, about : {None}]

ASSUME PortsAssumption == None \notin Calls \cup Requests /\ PairsListed \in BOOLEAN

VARIABLES
  request,     \* what each call asks for, once it has begun
  port,        \* the ports: [status, pairs], or None; the name is the creator's
  at,          \* where each call is
  target,      \* the port that an add or remove is for
  found,       \* the ports that a deletion has still to delete
  list,        \* the list of pairs that an add or remove will write
  returned,    \* the port that a creation gave to the agent
  before,      \* for each call, the calls that were over when it began
  met          \* for each call, the others that ran while it ran

vars == <<request, port, at, target, found, list, returned, before, met>>

Waiting == {"find", "create", "activate", "deleting", "read", "write"}
Over == {"done", "failed"}


TypeOK ==
  /\ request \in [Calls -> Requests \cup {None}]
  /\ port \in [Calls -> [status : {"DOWN", "ACTIVE"}, pairs : Seq(Addresses)] \cup {None}]
  /\ at \in [Calls -> Waiting \cup Over \cup {"new"}]
  /\ target \in [Calls -> Calls \cup {None}]
  /\ found \in [Calls -> SUBSET Calls]
  /\ list \in [Calls -> Seq(Addresses)]
  /\ returned \in [Calls -> Calls \cup {None}]
  /\ before \in [Calls -> SUBSET Calls]
  /\ met \in [Calls -> SUBSET Calls]

Init ==
  /\ request = [c \in Calls |-> None]
  /\ port = [c \in Calls |-> None]
  /\ at = [c \in Calls |-> "new"]
  /\ target = [c \in Calls |-> None]
  /\ found = [c \in Calls |-> {}]
  /\ list = [c \in Calls |-> <<>>]
  /\ returned = [c \in Calls |-> None]
  /\ before = [c \in Calls |-> {}]
  /\ met = [c \in Calls |-> {}]

Kind(c) == request[c].kind
Name(c) == request[c].about
Address(c) == request[c].about

Running == {c \in Calls : at[c] \in Waiting}
Existing == {p \in Calls : port[p] # None}
Goto(c, place) == at' = [at EXCEPT ![c] = place]

(* An agent's call arrives: a creation on a network and a deletion by name *)
(* look for the name, a creation on a subnet does not, and the other calls *)
(* are for a port that exists.                                             *)
Begin(c) ==
  /\ at[c] = "new"
  /\ \E r \in Requests :
       /\ request' = [request EXCEPT ![c] = r]
       /\ \/ /\ r.kind \in {"onNetwork", "delete"}
             /\ Goto(c, "find") /\ UNCHANGED <<target, found>>
          \/ /\ r.kind = "onSubnet"
             /\ Goto(c, "create") /\ UNCHANGED <<target, found>>
          \/ /\ r.kind \in {"add", "remove"}
             /\ Goto(c, "read") /\ UNCHANGED found
             /\ \E p \in Existing : target' = [target EXCEPT ![c] = p]
          \/ /\ r.kind = "deletePort"
             /\ Goto(c, "deleting") /\ UNCHANGED target
             /\ \E p \in Existing : found' = [found EXCEPT ![c] = {p}]
  /\ before' = [before EXCEPT ![c] = {d \in Calls : at[d] \in Over}]
  /\ met' = [d \in Calls |-> CASE d = c -> Running
                               [] d \in Running -> met[d] \cup {c}
                               [] OTHER -> met[d]]
  /\ UNCHANGED <<port, list, returned>>

Named(c) == {p \in Existing : Name(p) = Name(c)}

(* Mutant: only an active port is found again. *)
FindActiveForCreate(c) ==
  /\ at[c] = "find" /\ Kind(c) = "onNetwork"
  /\ \/ /\ \A p \in Named(c) : port[p].status = "DOWN"
        /\ Goto(c, "create") /\ UNCHANGED returned
     \/ /\ Goto(c, "done")
        /\ \E p \in Named(c) : port[p].status = "ACTIVE" /\ returned' = [returned EXCEPT ![c] = p]
  /\ UNCHANGED <<request, port, target, found, list, before, met>>

(* get_ports returns the ports with the name.  A creation takes the first  *)
(* one, whatever its network and status, and creates one if there is none. *)
FindForCreate(c) ==
  /\ at[c] = "find" /\ Kind(c) = "onNetwork"
  /\ \/ Named(c) = {} /\ Goto(c, "create") /\ UNCHANGED returned
     \/ /\ Goto(c, "done")
        /\ \E p \in Named(c) : returned' = [returned EXCEPT ![c] = p]
  /\ UNCHANGED <<request, port, target, found, list, before, met>>

FindForDelete(c) ==
  /\ at[c] = "find" /\ Kind(c) = "delete"
  /\ found' = [found EXCEPT ![c] = Named(c)]
  /\ Goto(c, IF Named(c) = {} THEN "done" ELSE "deleting")
  /\ UNCHANGED <<request, port, target, list, returned, before, met>>

(* create_port; ML2 leaves the new port DOWN. *)
Create(c) ==
  /\ at[c] = "create"
  /\ port' = [port EXCEPT ![c] = [status |-> "DOWN", pairs |-> <<>>]]
  /\ Goto(c, "activate")
  /\ UNCHANGED <<request, target, found, list, returned, before, met>>

(* Mutant: the update replaces the port. *)
ActivateReplaces(c) ==
  /\ at[c] = "activate" /\ port[c] # None
  /\ port' = [port EXCEPT ![c] = [status |-> "ACTIVE"]]
  /\ returned' = [returned EXCEPT ![c] = c]
  /\ Goto(c, "done")
  /\ UNCHANGED <<request, target, found, list, before, met>>

(* update_port; the port may have been deleted since, by its name. *)
Activate(c) ==
  /\ at[c] = "activate" /\ port[c] # None
  /\ port' = [port EXCEPT ![c].status = "ACTIVE"]
  /\ returned' = [returned EXCEPT ![c] = c]
  /\ Goto(c, "done")
  /\ UNCHANGED <<request, target, found, list, before, met>>

(* Mutant: only the first port of the list is deleted. *)
DeleteFirst(c) ==
  /\ at[c] = "deleting"
  /\ \E p \in found[c] :
       /\ port[p] # None
       /\ port' = [port EXCEPT ![p] = None]
       /\ found' = [found EXCEPT ![c] = @ \ {p}]
       /\ Goto(c, "done")
  /\ UNCHANGED <<request, target, list, returned, before, met>>

(* delete_port of the next port of the list, or of the one given. *)
DeleteOne(c) ==
  /\ at[c] = "deleting"
  /\ \E p \in found[c] :
       /\ port[p] # None
       /\ port' = [port EXCEPT ![p] = None]
       /\ found' = [found EXCEPT ![c] = @ \ {p}]
       /\ Goto(c, IF found[c] = {p} THEN "done" ELSE "deleting")
  /\ UNCHANGED <<request, target, list, returned, before, met>>

(* Mutant: the other pairs are not copied. *)
WithAddressOnly(pairs, a) == <<a>>

(* The loop of add_allowed_address ends at the pair it looks for: then it  *)
(* has copied the pairs before that one.                                   *)
WithAddress(pairs, a) ==
  IF Contains(pairs, a)
    THEN SubSeq(pairs, 1, (CHOOSE i \in DOMAIN pairs : pairs[i] = a) - 1)
    ELSE Append(pairs, a)

(* The loop of remove_allowed_address: kept[i] is what it has copied when  *)
(* it is past the first i pairs.                                           *)
WithoutAddress(pairs, a) ==
  LET kept[i \in 0 .. Len(pairs)] ==
        IF i = 0 THEN <<>>
        ELSE IF pairs[i] = a THEN kept[i - 1] ELSE Append(kept[i - 1], pairs[i])
  IN  kept[Len(pairs)]

(* Mutant: a removal breaks off at its pair, as an add does. *)
NewPairsBreaks(c, pairs) ==
  IF ~ PairsListed THEN <<>>
  ELSE IF Kind(c) = "add" \/ Contains(pairs, Address(c)) THEN WithAddress(pairs, Address(c))
  ELSE pairs

(* The list that an add or remove makes of a port's pairs.  A port without *)
(* "allowed_address_pairs" gets an empty list from either.                 *)
NewPairs(c, pairs) ==
  IF ~ PairsListed THEN <<>>
  ELSE IF Kind(c) = "add" THEN WithAddress(pairs, Address(c))
  ELSE WithoutAddress(pairs, Address(c))

(* get_port returns and the new list is made. *)
ReadPairs(c) ==
  /\ at[c] = "read" /\ port[target[c]] # None
  /\ list' = [list EXCEPT ![c] = NewPairs(c, port[target[c]].pairs)]
  /\ Goto(c, "write")
  /\ UNCHANGED <<request, port, target, found, returned, before, met>>

(* update_port with the new list. *)
WritePairs(c) ==
  /\ at[c] = "write" /\ port[target[c]] # None
  /\ port' = [port EXCEPT ![target[c]].pairs = list[c]]
  /\ Goto(c, "done")
  /\ UNCHANGED <<request, target, found, list, returned, before, met>>

(* A call of the core plugin raises: the port is gone, or any other cause. *)
(* create_port_on_network and delete_port pass it on; the others log it,   *)
(* and create_port_on_subnet then returns the port if it has made one.     *)
Fails(c) ==
  /\ at[c] \in Waiting
  /\ Goto(c, "failed")
  /\ returned' = IF Kind(c) = "onSubnet" /\ at[c] = "activate"
                   THEN [returned EXCEPT ![c] = c] ELSE returned
  /\ UNCHANGED <<request, port, target, found, list, before, met>>

Next == \E c \in Calls :
  \/ Begin(c) \/ FindForCreate(c) \/ FindForDelete(c) \/ Create(c) \/ Activate(c)
  \/ DeleteOne(c) \/ ReadPairs(c) \/ WritePairs(c) \/ Fails(c)

Spec == Init /\ [][Next]_vars

--------------------------------------------------------------------------------
(***************************************************************************)
(* Properties                                                              *)
(***************************************************************************)

(* create_port_on_network makes a second port of a name only if two        *)
(* creations crossed: a creation that failed half way is found by the next *)
(* one, which makes no other port.                                         *)
OnePortPerName ==
  \A p, q \in Existing :
    /\ Kind(p) = "onNetwork" /\ Kind(q) = "onNetwork"
    /\ Name(p) = Name(q) /\ p # q
    => q \in met[p]

(* A deletion that ended well has deleted every port of the name whose     *)
(* creation was over when it began.                                        *)
DeletedByName ==
  \A c \in Calls : at[c] = "done" /\ Kind(c) = "delete" =>
    \A p \in before[c] : Name(p) = Name(c) => port[p] = None

(* Another change of the same port's pairs ran while c ran.                *)
Crossed(c) == \E d \in met[c] : target[d] = target[c]

(* c adds an address that an earlier call had added to the port.           *)
AddsAgain(c) ==
  /\ Kind(c) = "add"
  /\ \E e \in before[c] : Kind(e) = "add" /\ Address(e) = Address(c) /\ target[e] = target[c]

(* An address that was added without a crossing change of the port's pairs,*)
(* and that nobody was told to remove or add since, is listed, unless a    *)
(* later change of the port's pairs crossed with another one or added an   *)
(* address again and so cut the list off.                                  *)
Disturbs(d, c) ==
  /\ d # c /\ target[d] = target[c] /\ d \notin before[c]
  /\ d \in met[c] \/ Address(d) = Address(c) \/ Crossed(d) \/ AddsAgain(d)

AddedStays ==
  \A c \in Calls :
    /\ at[c] = "done" /\ Kind(c) = "add" /\ target[c] \in Existing
    /\ ~ AddsAgain(c)
    /\ ~ \E d \in Calls : Disturbs(d, c)
    => Contains(port[target[c]].pairs, Address(c))

(* What other calls do between the read and the write of a removal does    *)
(* not spoil it, unless they change the pairs of the same port: then its   *)
(* own address leaves the list, wherever and however often it stands       *)
(* there, and every other address stays.                                   *)
RemovesOnlyItsOwn ==
  [][\A c \in Calls :
       WritePairs(c) /\ Kind(c) = "remove" /\ ~ Crossed(c) =>
         ToSet(port'[target[c]].pairs) = ToSet(port[target[c]].pairs) \ {Address(c)}]_vars

(* "Add allowed addresss." (plugin_rpc.py, add_allowed_address): an add    *)
(* that no other change of the port's pairs crossed takes nothing out of   *)
(* the list.                                                               *)
AddOnlyAdds ==
  [][\A c \in Calls :
       WritePairs(c) /\ Kind(c) = "add" /\ ~ Crossed(c) =>
         ToSet(port[target[c]].pairs) \subseteq ToSet(port'[target[c]].pairs)]_vars
================================================================================
