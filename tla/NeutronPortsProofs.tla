---------------------------- MODULE NeutronPortsProofs ----------------------------
(***************************************************************************)
(* Safety of the agents' port calls, for any number of calls, names and    *)
(* addresses: names stay unique, deletions are complete, and address pairs *)
(* survive what does not cross them.                                       *)
(*                                                                         *)
(* First what the two loops over a list of pairs compute; then what every  *)
(* step leaves alone; then the invariant in three layers.  Each part is    *)
(* about what a call has read and what has happened since.                 *)
(***************************************************************************)
EXTENDS NeutronPorts, FiniteSetTheorems, SequenceTheorems, TLAPS

(***************************************************************************)
(* The loops over address pairs                                            *)
(***************************************************************************)

(* Induction, for a set of numbers: a smallest number outside it would     *)
(* give a smallest of the intervals 1 .. n that end outside it.            *)
LEMMA NatSetInduction ==
  ASSUME NEW G, 0 \in G, \A n \in Nat : n \in G => n + 1 \in G
  PROVE  Nat \subseteq G
  <1> SUFFICES ASSUME NEW k \in Nat, k \notin G PROVE FALSE
    OBVIOUS
  <1> DEFINE below == {n \in Nat : n \notin G}
             intervals == {S \in FiniteSubsetsOf(Nat) : \E n \in below : S = 1 .. n}
  <1>1. IsWellFoundedOn(StrictSubsetOrdering(Nat), FiniteSubsetsOf(Nat))
    BY FS_StrictSubsetOrderingWellFounded
  <1>2. \A n \in Nat : 1 .. n \in FiniteSubsetsOf(Nat)
    <2> TAKE n \in Nat
    <2>1. IsFiniteSet(1 .. n)
      BY FS_Interval
    <2> QED BY <2>1 DEF FiniteSubsetsOf
  <1>3. intervals # {} /\ intervals \subseteq FiniteSubsetsOf(Nat)
    BY <1>2
  <1> HIDE DEF intervals
  <1>4. PICK S \in intervals : \A R \in intervals : ~ (<<R, S>> \in StrictSubsetOrdering(Nat))
    BY <1>1, <1>3, WFMin
  <1>5. PICK n \in below : S = 1 .. n
    BY <1>4 DEF intervals
  <1>6. n # 0 /\ n - 1 \in below
    <2>1. n # 0
      BY <1>5
    <2>2. n - 1 \in Nat /\ n - 1 + 1 = n
      BY <1>5, <2>1
    <2> QED BY <1>5, <2>1, <2>2
  <1>7. 1 .. (n - 1) \in intervals
    BY <1>2, <1>6 DEF intervals
  <1>8. <<1 .. (n - 1), 1 .. n>> \in StrictSubsetOrdering(Nat)
    <2>1. n \in 1 .. n /\ n \notin 1 .. (n - 1) /\ 1 .. (n - 1) \subseteq 1 .. n
      BY <1>5, <1>6
    <2>2. 1 .. n \in SUBSET Nat /\ 1 .. (n - 1) \in SUBSET Nat
      BY <1>5
    <2> HIDE DEF below
    <2>3. 1 .. (n - 1) # 1 .. n
      BY <2>1
    <2> QED BY <2>1, <2>2, <2>3 DEF StrictSubsetOrdering
  <1> QED BY <1>4, <1>5, <1>7, <1>8

(* One pair of the loop of remove_allowed_address. *)
Copied(k, x, a) == IF x = a THEN k ELSE Append(k, x)

LEMMA CopiedIs ==
  ASSUME NEW S, NEW k \in Seq(S), NEW x \in S, NEW a
  PROVE  /\ Copied(k, x, a) \in Seq(S)
         /\ \A y : Contains(Copied(k, x, a), y) <=> Contains(k, y) \/ (y = x /\ x # a)
  <1>1. CASE x = a
    BY <1>1 DEF Copied
  <1>2. CASE x # a
    <2>1. Copied(k, x, a) = Append(k, x)
      BY <1>2 DEF Copied
    <2>2. /\ Append(k, x) \in Seq(S) /\ Len(k) \in Nat
          /\ Len(Append(k, x)) = Len(k) + 1
          /\ \A i \in 1 .. Len(k) : Append(k, x)[i] = k[i]
          /\ Append(k, x)[Len(k) + 1] = x
      BY AppendProperties, LenProperties
    <2>3. ASSUME NEW y PROVE Contains(Append(k, x), y) <=> Contains(k, y) \/ y = x
      BY <2>2 DEF Contains
    <2> QED BY <1>2, <2>1, <2>2, <2>3
  <1> QED BY <1>1, <1>2

(* What the loop has copied before and after its n-th pair. *)
Passes(kept, pairs, a, n) ==
  kept[0] = <<>> /\ \A i \in 1 .. n : kept[i] = Copied(kept[i - 1], pairs[i], a)

LEMMA LoopEnds ==
  ASSUME NEW S, NEW pairs \in Seq(S), NEW a
  PROVE  \E kept \in [0 .. Len(pairs) -> Seq(S)] : Passes(kept, pairs, a, Len(pairs))
  <1> DEFINE Upto(n) == \E kept \in [0 .. n -> Seq(S)] : Passes(kept, pairs, a, n)
             G == {n \in Nat : n <= Len(pairs) => Upto(n)}
  <1>1. Upto(0)
    <2> DEFINE kept == [i \in 0 .. 0 |-> <<>>]
    <2>1. kept \in [0 .. 0 -> Seq(S)] /\ kept[0] = <<>>
      BY EmptySeq
    <2>2. Passes(kept, pairs, a, 0)
      BY <2>1 DEF Passes
    <2> QED BY <2>1, <2>2
  <1>2. ASSUME NEW n \in Nat, n + 1 <= Len(pairs), Upto(n) PROVE Upto(n + 1)
    <2>1. PICK kept \in [0 .. n -> Seq(S)] : Passes(kept, pairs, a, n)
      BY <1>2
    <2> DEFINE last == Copied(kept[n], pairs[n + 1], a)
               more == [i \in 0 .. n + 1 |-> IF i = n + 1 THEN last ELSE kept[i]]
    <2>2. last \in Seq(S)
      <3>1. pairs[n + 1] \in S
        BY <1>2, LenProperties, ElementOfSeq
      <3>2. kept[n] \in Seq(S)
        BY <2>1
      <3> QED BY <3>1, <3>2, CopiedIs
    <2> HIDE DEF last
    <2>3. more \in [0 .. n + 1 -> Seq(S)]
      BY <2>1, <2>2
    <2>4. ASSUME NEW i \in 1 .. n + 1 PROVE more[i] = Copied(more[i - 1], pairs[i], a)
      <3>1. CASE i = n + 1
        BY <3>1 DEF last
      <3>2. CASE i # n + 1
        BY <2>1, <3>2 DEF Passes
      <3> QED BY <3>1, <3>2
    <2>5. more[0] = <<>>
      BY <2>1 DEF Passes
    <2> HIDE DEF more
    <2>6. Passes(more, pairs, a, n + 1)
      BY <2>4, <2>5 DEF Passes
    <2> QED BY <2>3, <2>6
  <1> HIDE DEF Upto
  <1>3. 0 \in G
    BY <1>1
  <1>4. \A n \in Nat : n \in G => n + 1 \in G
    BY <1>2, LenProperties
  <1> HIDE DEF G
  <1>5. Len(pairs) \in G
    BY <1>3, <1>4, NatSetInduction, LenProperties
  <1> QED BY <1>5, LenProperties DEF G, Upto

(* What WithoutAddress takes is the last value of such a run of the loop.  *)
LEMMA WithoutAddressRuns ==
  ASSUME NEW S, NEW pairs \in Seq(S), NEW a
  PROVE  \E kept : /\ Passes(kept, pairs, a, Len(pairs))
                   /\ WithoutAddress(pairs, a) = kept[Len(pairs)]
  <1> DEFINE Loop(f) == [i \in 0 .. Len(pairs) |->
                           IF i = 0 THEN <<>>
                           ELSE IF pairs[i] = a THEN f[i - 1] ELSE Append(f[i - 1], pairs[i])]
             kept == CHOOSE f : f = Loop(f)
  <1>1. WithoutAddress(pairs, a) = kept[Len(pairs)]
    BY Zenon DEF WithoutAddress
  <1>2. PICK f \in [0 .. Len(pairs) -> Seq(S)] : Passes(f, pairs, a, Len(pairs))
    BY LoopEnds
  <1>3. f = Loop(f)
    <2>1. ASSUME NEW i \in 0 .. Len(pairs) PROVE f[i] = Loop(f)[i]
      <3>1. CASE i = 0
        BY <1>2, <3>1 DEF Passes
      <3>2. CASE i # 0
        <4>1. i \in 1 .. Len(pairs)
          BY <3>2, LenProperties
        <4>2. f[i] = IF pairs[i] = a THEN f[i - 1] ELSE Append(f[i - 1], pairs[i])
          BY <1>2, <4>1 DEF Passes, Copied
        <4> QED BY <3>2, <4>2
      <3> QED BY <3>1, <3>2
    <2>2. f = [i \in 0 .. Len(pairs) |-> f[i]]
      BY <1>2
    <2> QED BY <2>1, <2>2
  <1>4. kept = Loop(kept)
    <2> HIDE DEF Loop
    <2> QED BY <1>3, Zenon
  <1>5. Passes(kept, pairs, a, Len(pairs))
    <2> HIDE DEF kept
    <2>1. \A i \in 0 .. Len(pairs) : kept[i] = Loop(kept)[i]
      BY <1>4, Zenon
    <2> QED BY <2>1, LenProperties DEF Passes, Copied
  <1> QED BY <1>1, <1>5

(* A removal takes out its address and nothing else. *)
LEMMA WithoutAddressIs ==
  ASSUME NEW S, NEW pairs \in Seq(S), NEW a
  PROVE  /\ WithoutAddress(pairs, a) \in Seq(S)
         /\ \A x : Contains(WithoutAddress(pairs, a), x) <=> Contains(pairs, x) /\ x # a
  <1>1. PICK kept : /\ Passes(kept, pairs, a, Len(pairs))
                    /\ WithoutAddress(pairs, a) = kept[Len(pairs)]
    BY WithoutAddressRuns
  <1>2. Len(pairs) \in Nat /\ \A i \in 1 .. Len(pairs) : pairs[i] \in S
    BY LenProperties, ElementOfSeq
  <1> DEFINE Among(n, x) == \E i \in 1 .. n : pairs[i] = x
             Right(n) == /\ kept[n] \in Seq(S)
                         /\ \A x : Contains(kept[n], x) <=> Among(n, x) /\ x # a
             G == {n \in Nat : n <= Len(pairs) => Right(n)}
  <1>3. Right(0)
    BY <1>1, EmptySeq DEF Passes, Contains
  <1>4. ASSUME NEW n \in Nat, n + 1 <= Len(pairs), Right(n) PROVE Right(n + 1)
    <2>1. n + 1 \in 1 .. Len(pairs) /\ pairs[n + 1] \in S
      BY <1>2, <1>4
    <2>2. kept[n + 1] = Copied(kept[n], pairs[n + 1], a)
      BY <1>1, <2>1 DEF Passes
    <2>3. /\ kept[n + 1] \in Seq(S)
          /\ \A y : Contains(kept[n + 1], y)
                      <=> Contains(kept[n], y) \/ (y = pairs[n + 1] /\ pairs[n + 1] # a)
      BY <1>4, <2>1, <2>2, CopiedIs
    <2>4. \A y : Among(n + 1, y) <=> Among(n, y) \/ y = pairs[n + 1]
      OBVIOUS
    <2> HIDE DEF Among
    <2> QED BY <1>4, <2>3, <2>4
  <1> HIDE DEF Right
  <1>5. 0 \in G
    BY <1>3
  <1>6. \A n \in Nat : n \in G => n + 1 \in G
    BY <1>2, <1>4
  <1> HIDE DEF G
  <1>7. Len(pairs) \in G
    BY <1>2, <1>5, <1>6, NatSetInduction
  <1>8. Right(Len(pairs))
    BY <1>2, <1>7 DEF G
  <1> QED BY <1>1, <1>8 DEF Right, Contains

(* An add brings in at most its own address, and takes nothing out of a    *)
(* list that does not have it.                                             *)
LEMMA WithAddressIs ==
  ASSUME NEW S, NEW pairs \in Seq(S), NEW a \in S
  PROVE  /\ WithAddress(pairs, a) \in Seq(S)
         /\ \A x : Contains(WithAddress(pairs, a), x) => Contains(pairs, x) \/ x = a
         /\ ~ Contains(pairs, a) =>
              \A x : Contains(pairs, x) \/ x = a => Contains(WithAddress(pairs, a), x)
  <1>1. CASE ~ Contains(pairs, a)
    <2>1. WithAddress(pairs, a) = Append(pairs, a)
      BY <1>1 DEF WithAddress
    <2>2. /\ Append(pairs, a) \in Seq(S) /\ Len(pairs) \in Nat
          /\ Len(Append(pairs, a)) = Len(pairs) + 1
          /\ \A i \in 1 .. Len(pairs) : Append(pairs, a)[i] = pairs[i]
          /\ Append(pairs, a)[Len(pairs) + 1] = a
      BY AppendProperties, LenProperties
    <2>3. \A x : Contains(Append(pairs, a), x) <=> Contains(pairs, x) \/ x = a
      BY <2>2 DEF Contains
    <2> QED BY <2>1, <2>2, <2>3
  <1>2. CASE Contains(pairs, a)
    <2> DEFINE m == CHOOSE i \in DOMAIN pairs : pairs[i] = a
               n == m - 1
    <2>1. WithAddress(pairs, a) = SubSeq(pairs, 1, n)
      BY <1>2 DEF WithAddress
    <2>2. m \in 1 .. Len(pairs)
      BY <1>2, LenProperties DEF Contains
    <2> HIDE DEF m
    <2>3. n \in 0 .. Len(pairs) /\ Len(pairs) \in Nat
      BY <2>2, LenProperties
    <2> HIDE DEF n
    <2>4. /\ SubSeq(pairs, 1, n) \in Seq(S) /\ Len(SubSeq(pairs, 1, n)) = n
          /\ \A i \in 1 .. n : SubSeq(pairs, 1, n)[i] = pairs[i]
      BY <2>3, SubSeqProperties
    <2>5. \A x : Contains(SubSeq(pairs, 1, n), x) => Contains(pairs, x)
      BY <2>3, <2>4 DEF Contains
    <2> QED BY <1>2, <2>1, <2>4, <2>5
  <1> QED BY <1>1, <1>2

--------------------------------------------------------------------------------
(***************************************************************************)
(* Calls and ports                                                         *)
(***************************************************************************)

Creates == {"onNetwork", "onSubnet"}
Changes == {"add", "remove"}
Deletes == {"delete", "deletePort"}

(* What a call can be doing follows from what it was asked for. *)
Stages ==
  \A c \in Calls :
    /\ at[c] = "new" => request[c] = None /\ target[c] = None /\ before[c] = {} /\ met[c] = {}
    /\ at[c] # "new" => request[c] \in Requests
    /\ at[c] \in {"create", "activate"} => Kind(c) \in Creates
    /\ at[c] = "deleting" => Kind(c) \in Deletes
    /\ at[c] \in {"read", "write"} => Kind(c) \in Changes
    /\ target[c] # None <=> at[c] # "new" /\ Kind(c) \in Changes

(* A call that has made its port, which may be gone again. *)
HasMade(p) == at[p] \in {"activate"} \cup Over /\ Kind(p) \in Creates

PortsMade ==
  /\ \A p \in Existing : HasMade(p)
  /\ \A c \in Calls : target[c] # None => HasMade(target[c])

CallsInv == TypeOK /\ Stages /\ PortsMade

Step(c) ==
  \/ Begin(c) \/ FindForCreate(c) \/ FindForDelete(c) \/ Create(c) \/ Activate(c)
  \/ DeleteOne(c) \/ ReadPairs(c) \/ WritePairs(c) \/ Fails(c)

LEMMA NextIsAStep == Next <=> \E c \in Calls : Step(c)
  BY DEF Next, Step

(* What a step of call c leaves alone.  A call that is over stays so, and  *)
(* what a call was asked for, is about and came after never changes again. *)
LEMMA StepKeeps ==
  ASSUME CallsInv, NEW c \in Calls, Step(c)
  PROVE  /\ at[c] \in Waiting \cup {"new"} /\ at'[c] \in Waiting \cup Over
         /\ \A d \in Calls : at[d] # "new" =>
              /\ request'[d] = request[d] /\ target'[d] = target[d] /\ before'[d] = before[d]
              /\ met[d] \subseteq met'[d]
         /\ \A d \in Calls : d # c =>
              /\ at'[d] = at[d] /\ request'[d] = request[d] /\ target'[d] = target[d]
              /\ list'[d] = list[d] /\ found'[d] = found[d] /\ before'[d] = before[d]
  <1> USE DEF CallsInv, TypeOK, Goto, Waiting, Over
  <1>1. CASE Begin(c)
    BY <1>1 DEF Begin
  <1>2. CASE FindForCreate(c)
    BY <1>2 DEF FindForCreate
  <1>3. CASE FindForDelete(c)
    BY <1>3 DEF FindForDelete
  <1>4. CASE Create(c)
    BY <1>4 DEF Create
  <1>5. CASE Activate(c)
    BY <1>5 DEF Activate
  <1>6. CASE DeleteOne(c)
    BY <1>6 DEF DeleteOne
  <1>7. CASE ReadPairs(c)
    BY <1>7 DEF ReadPairs
  <1>8. CASE WritePairs(c)
    BY <1>8 DEF WritePairs
  <1>9. CASE Fails(c)
    BY <1>9 DEF Fails
  <1> QED BY <1>1, <1>2, <1>3, <1>4, <1>5, <1>6, <1>7, <1>8, <1>9 DEF Step

(* A new call: what it is asked, where it starts, the port it is for and   *)
(* those it has to delete.                                                 *)
Starts(c, r, place, t, f) ==
  /\ request' = [request EXCEPT ![c] = r]
  /\ at' = [at EXCEPT ![c] = place]
  /\ target' = [target EXCEPT ![c] = t]
  /\ found' = [found EXCEPT ![c] = f]
  /\ place = "create" => r.kind \in Creates
  /\ place = "deleting" => r.kind \in Deletes
  /\ place = "read" => r.kind \in Changes
  /\ t # None <=> r.kind \in Changes

LEMMA BeginStarts ==
  ASSUME CallsInv, NEW c \in Calls, Begin(c)
  PROVE  \E r \in Requests, place \in {"find", "create", "read", "deleting"},
            t \in Existing \cup {None}, f \in SUBSET Calls : Starts(c, r, place, t, f)
  <1>0. TypeOK /\ target[c] = None /\ [target EXCEPT ![c] = None] = target
        /\ found[c] \in SUBSET Calls /\ [found EXCEPT ![c] = found[c]] = found
    BY DEF CallsInv, TypeOK, Stages, Begin
  <1>1. PICK r \in Requests :
           /\ request' = [request EXCEPT ![c] = r]
           /\ \/ /\ r.kind \in {"onNetwork", "delete"}
                 /\ at' = [at EXCEPT ![c] = "find"] /\ target' = target /\ found' = found
              \/ /\ r.kind = "onSubnet"
                 /\ at' = [at EXCEPT ![c] = "create"] /\ target' = target /\ found' = found
              \/ /\ r.kind \in Changes
                 /\ at' = [at EXCEPT ![c] = "read"] /\ found' = found
                 /\ \E p \in Existing : target' = [target EXCEPT ![c] = p]
              \/ /\ r.kind = "deletePort"
                 /\ at' = [at EXCEPT ![c] = "deleting"] /\ target' = target
                 /\ \E p \in Existing : found' = [found EXCEPT ![c] = {p}]
    BY DEF Begin, Changes, Goto
  <1>2. CASE /\ r.kind \in {"onNetwork", "delete"}
             /\ at' = [at EXCEPT ![c] = "find"] /\ target' = target /\ found' = found
    <2>1. Starts(c, r, "find", None, found[c])
      BY <1>0, <1>1, <1>2 DEF Starts, Changes
    <2> QED BY <1>0, <2>1
  <1>3. CASE /\ r.kind = "onSubnet"
             /\ at' = [at EXCEPT ![c] = "create"] /\ target' = target /\ found' = found
    <2>1. Starts(c, r, "create", None, found[c])
      BY <1>0, <1>1, <1>3 DEF Starts, Changes, Creates
    <2> QED BY <1>0, <2>1
  <1>4. CASE /\ r.kind \in Changes
             /\ at' = [at EXCEPT ![c] = "read"] /\ found' = found
             /\ \E p \in Existing : target' = [target EXCEPT ![c] = p]
    <2>1. PICK p \in Existing : target' = [target EXCEPT ![c] = p]
      BY <1>4
    <2>2. p # None
      BY PortsAssumption DEF Existing
    <2>3. Starts(c, r, "read", p, found[c])
      BY <1>0, <1>1, <1>4, <2>1, <2>2 DEF Starts
    <2> QED BY <1>0, <2>3
  <1>5. CASE /\ r.kind = "deletePort"
             /\ at' = [at EXCEPT ![c] = "deleting"] /\ target' = target
             /\ \E p \in Existing : found' = [found EXCEPT ![c] = {p}]
    <2>1. PICK p \in Existing : found' = [found EXCEPT ![c] = {p}]
      BY <1>5
    <2>2. Starts(c, r, "deleting", None, {p})
      BY <1>0, <1>1, <1>5, <2>1 DEF Starts, Changes, Deletes
    <2>3. {p} \in SUBSET Calls
      BY DEF Existing
    <2> QED BY <2>2, <2>3
  <1> QED BY <1>1, <1>2, <1>3, <1>4, <1>5

LEMMA BeginType == ASSUME CallsInv, NEW c \in Calls, Begin(c) PROVE TypeOK'
  <1>0. TypeOK
    BY DEF CallsInv
  <1>1. PICK r \in Requests, place \in {"find", "create", "read", "deleting"},
             t \in Existing \cup {None}, f \in SUBSET Calls : Starts(c, r, place, t, f)
    BY BeginStarts
  <1>2. target' \in [Calls -> Calls \cup {None}] /\ found' \in [Calls -> SUBSET Calls]
    BY <1>0, <1>1 DEF Starts, TypeOK, Existing
  <1>3. at' \in [Calls -> Waiting \cup Over \cup {"new"}]
    BY <1>0, <1>1 DEF Starts, TypeOK, Waiting
  <1>4. before' \in [Calls -> SUBSET Calls] /\ met' \in [Calls -> SUBSET Calls]
    BY <1>0 DEF Begin, TypeOK, Running
  <1>5. request' \in [Calls -> Requests \cup {None}]
    BY <1>0, <1>1 DEF Starts, TypeOK
  <1>6. UNCHANGED <<port, list, returned>>
    BY DEF Begin
  <1> QED BY <1>0, <1>2, <1>3, <1>4, <1>5, <1>6 DEF TypeOK

(* A call that changes the pairs of a port is about an address. *)
LEMMA AddressOf ==
  ASSUME CallsInv, NEW c \in Calls, at[c] # "new", Kind(c) \in Changes
  PROVE  Address(c) \in Addresses
  BY DEF CallsInv, Stages, Changes, Requests, Kind, Address

(* The ports of a name and the one that a change is for are ports. *)
LEMMA ReadPairsType == ASSUME CallsInv, NEW c \in Calls, ReadPairs(c) PROVE TypeOK'
  <1>1. Kind(c) \in Changes /\ target[c] \in Calls /\ Address(c) \in Addresses
    BY AddressOf DEF ReadPairs, CallsInv, TypeOK, Stages
  <1>2. port[target[c]].pairs \in Seq(Addresses)
    BY <1>1 DEF ReadPairs, CallsInv, TypeOK
  <1>3. list' \in [Calls -> Seq(Addresses)]
    <2>1. WithAddress(port[target[c]].pairs, Address(c)) \in Seq(Addresses)
      BY <1>1, <1>2, WithAddressIs
    <2>2. WithoutAddress(port[target[c]].pairs, Address(c)) \in Seq(Addresses)
      BY <1>2, WithoutAddressIs
    <2>3. NewPairs(c, port[target[c]].pairs) \in Seq(Addresses)
      BY <2>1, <2>2, EmptySeq DEF NewPairs
    <2> QED BY <2>3 DEF ReadPairs, CallsInv, TypeOK
  <1> QED BY <1>3 DEF ReadPairs, Goto, Waiting, CallsInv, TypeOK

LEMMA StepType == ASSUME CallsInv, NEW c \in Calls, Step(c) PROVE TypeOK'
  <1>0. TypeOK
    BY DEF CallsInv
  <1>1. CASE Begin(c)
    BY <1>1, BeginType
  <1>2. CASE FindForCreate(c)
    <2>1. returned' \in [Calls -> Calls \cup {None}]
      BY <1>0, <1>2 DEF FindForCreate, Named, Existing, TypeOK
    <2>2. at' \in [Calls -> Waiting \cup Over \cup {"new"}]
      BY <1>0, <1>2 DEF FindForCreate, Goto, Waiting, Over, TypeOK
    <2> QED BY <1>0, <1>2, <2>1, <2>2 DEF FindForCreate, TypeOK
  <1>3. CASE FindForDelete(c)
    BY <1>0, <1>3 DEF FindForDelete, Named, Existing, Goto, Waiting, Over, TypeOK
  <1>4. CASE Create(c)
    BY <1>0, <1>4, EmptySeq DEF Create, Goto, Waiting, Over, TypeOK
  <1>5. CASE Activate(c)
    BY <1>0, <1>5 DEF Activate, Goto, Waiting, Over, TypeOK
  <1>6. CASE DeleteOne(c)
    BY <1>0, <1>6 DEF DeleteOne, Goto, Waiting, Over, TypeOK
  <1>7. CASE ReadPairs(c)
    BY <1>7, ReadPairsType
  <1>8. CASE WritePairs(c)
    BY <1>0, <1>8 DEF WritePairs, Goto, Waiting, Over, TypeOK
  <1>9. CASE Fails(c)
    BY <1>0, <1>9 DEF Fails, Goto, Waiting, Over, TypeOK
  <1> QED BY <1>1, <1>2, <1>3, <1>4, <1>5, <1>6, <1>7, <1>8, <1>9 DEF Step

(* A port comes into being in the step that creates it, and only a         *)
(* deletion ends it. *)
LEMMA OnlyCreateMakes ==
  ASSUME CallsInv, NEW c \in Calls, Step(c), NEW p \in Calls, p \in Existing', p \notin Existing
  PROVE  p = c /\ Create(c)
  <1> USE DEF CallsInv, TypeOK, Existing
  <1>1. CASE Begin(c)
    BY <1>1 DEF Begin
  <1>2. CASE FindForCreate(c)
    BY <1>2 DEF FindForCreate
  <1>3. CASE FindForDelete(c)
    BY <1>3 DEF FindForDelete
  <1>4. CASE Create(c)
    BY <1>4 DEF Create
  <1>5. CASE Activate(c)
    BY <1>5 DEF Activate
  <1>6. CASE DeleteOne(c)
    BY <1>6 DEF DeleteOne
  <1>7. CASE ReadPairs(c)
    BY <1>7 DEF ReadPairs
  <1>8. CASE WritePairs(c)
    BY <1>8 DEF WritePairs
  <1>9. CASE Fails(c)
    BY <1>9 DEF Fails
  <1> QED BY <1>1, <1>2, <1>3, <1>4, <1>5, <1>6, <1>7, <1>8, <1>9 DEF Step

LEMMA BeginStages == ASSUME CallsInv, NEW c \in Calls, Begin(c) PROVE Stages'
  <1>0. TypeOK /\ Stages
    BY DEF CallsInv
  <1>1. PICK r \in Requests, place \in {"find", "create", "read", "deleting"},
             t \in Existing \cup {None}, f \in SUBSET Calls : Starts(c, r, place, t, f)
    BY BeginStarts
  <1>2. /\ at'[c] = place /\ request'[c] = r /\ target'[c] = t
        /\ place = "create" => r.kind \in Creates
        /\ place = "deleting" => r.kind \in Deletes
        /\ place = "read" => r.kind \in Changes
        /\ t # None <=> r.kind \in Changes
    BY <1>0, <1>1 DEF Starts, TypeOK
  <1>3. ASSUME NEW d \in Calls, d # c
        PROVE  /\ at'[d] = at[d] /\ request'[d] = request[d] /\ target'[d] = target[d]
               /\ before'[d] = before[d] /\ (at[d] = "new" => met'[d] = met[d])
    <2>1. at'[d] = at[d] /\ request'[d] = request[d] /\ target'[d] = target[d]
      BY <1>0, <1>1, <1>3 DEF Starts, TypeOK
    <2>2. before'[d] = before[d] /\ (at[d] = "new" => met'[d] = met[d])
      BY <1>0, <1>3 DEF Begin, TypeOK, Running, Waiting
    <2> QED BY <2>1, <2>2
  <1>4. ASSUME NEW d \in Calls
        PROVE  /\ at'[d] = "new" => /\ request'[d] = None /\ target'[d] = None
                                    /\ before'[d] = {} /\ met'[d] = {}
               /\ at'[d] # "new" => request'[d] \in Requests
               /\ at'[d] \in {"create", "activate"} => request'[d].kind \in Creates
               /\ at'[d] = "deleting" => request'[d].kind \in Deletes
               /\ at'[d] \in {"read", "write"} => request'[d].kind \in Changes
               /\ target'[d] # None <=> at'[d] # "new" /\ request'[d].kind \in Changes
    <2>1. CASE d = c
      BY <1>2, <2>1
    <2>2. CASE d # c
      <3>1. /\ at[d] = "new" => request[d] = None /\ target[d] = None /\ before[d] = {} /\ met[d] = {}
            /\ at[d] # "new" => request[d] \in Requests
            /\ at[d] \in {"create", "activate"} => request[d].kind \in Creates
            /\ at[d] = "deleting" => request[d].kind \in Deletes
            /\ at[d] \in {"read", "write"} => request[d].kind \in Changes
            /\ target[d] # None <=> at[d] # "new" /\ request[d].kind \in Changes
        BY <1>0 DEF Stages, Kind
      <3> QED BY <1>3, <2>2, <3>1
    <2> QED BY <2>1, <2>2
  <1> QED BY <1>4 DEF Stages, Kind

LEMMA StepStages == ASSUME CallsInv, NEW c \in Calls, Step(c) PROVE Stages'
  <1> USE DEF CallsInv, TypeOK, Stages, Goto, Kind, Creates, Changes, Deletes
  <1>1. CASE Begin(c)
    BY <1>1, BeginStages
  <1>2. CASE FindForCreate(c)
    BY <1>2 DEF FindForCreate
  <1>3. CASE FindForDelete(c)
    BY <1>3 DEF FindForDelete
  <1>4. CASE Create(c)
    BY <1>4 DEF Create
  <1>5. CASE Activate(c)
    BY <1>5 DEF Activate
  <1>6. CASE DeleteOne(c)
    BY <1>6 DEF DeleteOne
  <1>7. CASE ReadPairs(c)
    BY <1>7 DEF ReadPairs
  <1>8. CASE WritePairs(c)
    BY <1>8 DEF WritePairs
  <1>9. CASE Fails(c)
    BY <1>9 DEF Fails, Waiting
  <1> QED BY <1>1, <1>2, <1>3, <1>4, <1>5, <1>6, <1>7, <1>8, <1>9 DEF Step

(* Once made, a port's creation never starts again. *)
LEMMA MadeStays ==
  ASSUME CallsInv, NEW c \in Calls, Step(c), NEW p \in Calls, HasMade(p)
  PROVE  HasMade(p)'
  <1>1. at[p] # "new" /\ request'[p] = request[p]
    BY StepKeeps DEF HasMade, Over
  <1>2. at'[p] \in {"activate"} \cup Over
    <2>1. CASE p # c
      BY <2>1, StepKeeps DEF HasMade
    <2>2. CASE p = c
      <3>1. at[c] = "activate"
        BY <2>2, StepKeeps DEF HasMade, Waiting, Over
      <3>2. at'[c] \in Over
        BY <3>1 DEF Step, Begin, FindForCreate, FindForDelete, Create, Activate, DeleteOne,
                    ReadPairs, WritePairs, Fails, Goto, CallsInv, TypeOK, Over
      <3> QED BY <2>2, <3>2
    <2> QED BY <2>1, <2>2
  <1> QED BY <1>1, <1>2 DEF HasMade, Kind

LEMMA StepPortsMade == ASSUME CallsInv, NEW c \in Calls, Step(c) PROVE PortsMade'
  <1>1. ASSUME NEW p \in Calls, p \in Existing' PROVE HasMade(p)'
    <2>1. CASE p \in Existing
      BY <2>1, MadeStays DEF CallsInv, PortsMade
    <2>2. CASE p \notin Existing
      <3>1. p = c /\ Create(c)
        BY <1>1, <2>2, OnlyCreateMakes
      <3> QED BY <3>1 DEF Create, Goto, HasMade, Kind, CallsInv, TypeOK, Stages
    <2> QED BY <2>1, <2>2
  <1>2. ASSUME NEW d \in Calls, target'[d] # None PROVE HasMade(target[d])'
    <2>1. CASE at[d] # "new"
      <3>1. target'[d] = target[d] /\ target[d] \in Calls
        BY <1>2, <2>1, StepKeeps DEF CallsInv, TypeOK
      <3> QED BY <1>2, <3>1, MadeStays DEF CallsInv, PortsMade
    <2>2. CASE at[d] = "new"
      <3>1. d = c /\ Begin(c)
        <4>1. target[d] = None
          BY <2>2 DEF CallsInv, Stages
        <4>2. d = c
          BY <1>2, <4>1, StepKeeps
        <4> QED BY <2>2, <4>2 DEF Step, Begin, FindForCreate, FindForDelete, Create, Activate,
                                  DeleteOne, ReadPairs, WritePairs, Fails, Waiting
      <3>2. target'[c] \in Existing
        <4>1. PICK r \in Requests, place \in {"find", "create", "read", "deleting"},
                   t \in Existing \cup {None}, f \in SUBSET Calls : Starts(c, r, place, t, f)
          BY <3>1, BeginStarts
        <4> QED BY <1>2, <3>1, <4>1 DEF Starts, CallsInv, TypeOK
      <3> QED BY <3>1, <3>2, MadeStays DEF CallsInv, PortsMade, Existing
    <2> QED BY <2>1, <2>2
  <1> QED BY <1>1, <1>2 DEF PortsMade, Existing

LEMMA StepCallsInv == ASSUME CallsInv, NEW c \in Calls, Step(c) PROVE CallsInv'
  BY StepType, StepStages, StepPortsMade DEF CallsInv

--------------------------------------------------------------------------------
(***************************************************************************)
(* Which calls ran beside which                                            *)
(***************************************************************************)

Begun == {c \in Calls : at[c] # "new"}

(* Calls that run have met; who met whom is mutual and of calls that have  *)
(* begun; what came before is over; and of two calls that have begun, one  *)
(* came before the other or they met.                                      *)
History ==
  /\ \A b, c \in Running : b # c => c \in met[b]
  /\ \A b, c \in Calls : b \in met[c] => c \in met[b] /\ b \in Begun
  /\ \A c \in Calls : \A b \in before[c] : at[b] \in Over
  /\ \A b, c \in Begun : b # c => b \in before[c] \/ c \in before[b] \/ b \in met[c]

LEMMA BeginHistory ==
  ASSUME CallsInv, History, NEW c \in Calls, Begin(c) PROVE History'
  <1>0. /\ TypeOK /\ at[c] = "new" /\ met[c] = {} /\ before[c] = {}
        /\ c \notin Running /\ c \notin Begun
    BY DEF CallsInv, Stages, Begin, Running, Waiting, Begun
  <1>1. \A d \in Calls : d # c => at'[d] = at[d] /\ before'[d] = before[d]
    BY StepKeeps DEF Step
  <1>2. Running' = Running \cup {c} /\ Begun' = Begun \cup {c}
    <2>1. at'[c] \in Waiting
      <3>1. PICK r \in Requests, place \in {"find", "create", "read", "deleting"},
                 t \in Existing \cup {None}, f \in SUBSET Calls : Starts(c, r, place, t, f)
        BY BeginStarts
      <3> QED BY <1>0, <3>1 DEF Starts, TypeOK, Waiting
    <2> QED BY <1>1, <2>1 DEF Running, Begun, Waiting
  <1>3. /\ met'[c] = Running
        /\ \A d \in Running : met'[d] = met[d] \cup {c}
        /\ \A d \in Calls : d # c /\ d \notin Running => met'[d] = met[d]
    <2>1. met' = [d \in Calls |-> CASE d = c -> Running
                                    [] d \in Running -> met[d] \cup {c}
                                    [] OTHER -> met[d]]
      BY DEF Begin
    <2>2. Running \subseteq Calls
      BY DEF Running
    <2> QED BY <1>0, <2>1, <2>2
  <1>4. before'[c] = {d \in Calls : at[d] \in Over}
    BY <1>0 DEF Begin, TypeOK
  <1>5. \A d \in Calls : c \notin met[d]
    BY <1>0 DEF History
  <1>6. \A a, b \in Running' : a # b => b \in met'[a]
    BY <1>2, <1>3 DEF History
  <1>7. ASSUME NEW a \in Calls, NEW b \in Calls, a \in met'[b] PROVE b \in met'[a] /\ a \in Begun'
    <2>1. CASE b = c
      BY <1>2, <1>3, <1>7, <2>1 DEF Running, Begun, Waiting
    <2>2. CASE b # c /\ a = c
      BY <1>2, <1>3, <1>5, <1>7, <2>2
    <2>3. CASE b # c /\ a # c
      <3>1. a \in met[b]
        BY <1>3, <1>7, <2>3
      <3>2. b \in met[a] /\ a \in Begun
        BY <3>1 DEF History
      <3> QED BY <1>2, <1>3, <2>3, <3>2
    <2> QED BY <2>1, <2>2, <2>3
  <1>8. ASSUME NEW a \in Calls, NEW b \in before'[a] PROVE at'[b] \in Over
    <2>1. b \in Calls /\ at[b] \in Over
      BY <1>1, <1>4, <1>8 DEF History, CallsInv, TypeOK
    <2> QED BY <1>0, <1>1, <2>1 DEF Over
  <1>9. ASSUME NEW a \in Begun', NEW b \in Begun', a # b
        PROVE  a \in before'[b] \/ b \in before'[a] \/ a \in met'[b]
    <2>1. \A d \in Begun : d \in Running \/ d \in before'[c]
      BY <1>0, <1>4 DEF Begun, Running, TypeOK
    <2>2. CASE b = c
      BY <1>2, <1>3, <1>9, <2>1, <2>2
    <2>3. CASE a = c
      BY <1>2, <1>3, <1>9, <2>1, <2>3 DEF Begun
    <2>4. CASE a # c /\ b # c
      <3>1. a \in before[b] \/ b \in before[a] \/ a \in met[b]
        BY <1>2, <1>9, <2>4 DEF History
      <3>2. met[b] \subseteq met'[b]
        BY <1>3, <2>4, <1>9 DEF Begun
      <3> QED BY <1>1, <1>9, <2>4, <3>1, <3>2 DEF Begun
    <2> QED BY <2>2, <2>3, <2>4
  <1> QED BY <1>6, <1>7, <1>8, <1>9 DEF History

LEMMA StepHistory ==
  ASSUME CallsInv, History, NEW c \in Calls, Step(c) PROVE History'
  <1>1. CASE Begin(c)
    BY <1>1, BeginHistory
  <1>2. CASE ~ Begin(c)
    <2>1. met' = met /\ before' = before /\ at[c] \in Waiting
      BY <1>2 DEF Step, FindForCreate, FindForDelete, Create, Activate, DeleteOne, ReadPairs,
                  WritePairs, Fails, Waiting
    <2>2. /\ \A d \in Calls : d # c => at'[d] = at[d]
          /\ at'[c] \in Waiting \cup Over
      BY StepKeeps
    <2>3. Running' \subseteq Running /\ Begun' = Begun
      BY <2>1, <2>2 DEF Running, Begun, Waiting, Over
    <2>4. \A d \in Calls : at[d] \in Over => at'[d] = at[d]
      BY <2>1, <2>2 DEF Waiting, Over
    <2>5. \A d \in Calls : \A b \in before[d] : at'[b] \in Over
      BY <2>4 DEF History, CallsInv, TypeOK
    <2> QED BY <2>1, <2>3, <2>5 DEF History
  <1> QED BY <1>1, <1>2

(* A change of pairs that was crossed stays so. *)
LEMMA CrossedStays ==
  ASSUME CallsInv, History, NEW c \in Calls, Step(c), NEW d \in Calls, at[d] # "new", Crossed(d)
  PROVE  Crossed(d)'
  <1>1. PICK e \in met[d] : target[e] = target[d]
    BY DEF Crossed
  <1>2. e \in Calls /\ at[e] # "new"
    BY <1>1 DEF History, Begun, CallsInv, TypeOK
  <1>3. e \in met'[d] /\ target'[e] = target[e] /\ target'[d] = target[d]
    BY <1>1, <1>2, StepKeeps
  <1> QED BY <1>1, <1>3 DEF Crossed

--------------------------------------------------------------------------------
(***************************************************************************)
(* Names                                                                   *)
(***************************************************************************)

(* A creation that found no port of its name has met the creator of every  *)
(* port of the name made since.                                            *)
NamesakesMet ==
  \A c \in Calls : at[c] = "create" /\ Kind(c) = "onNetwork" =>
    \A p \in Existing : Kind(p) = "onNetwork" /\ Name(p) = Name(c) => p \in met[c]

(* A deletion has still on its list every port of the name that was made   *)
(* before it began.                                                        *)
AllFound ==
  \A c \in Calls : at[c] = "deleting" /\ Kind(c) = "delete" =>
    \A p \in before[c] \cap Existing : Name(p) = Name(c) => p \in found[c]

(* A step that makes no port. *)
LEMMA NoNewPort ==
  ASSUME CallsInv, NEW c \in Calls, Step(c), ~ Create(c)
  PROVE  Existing' \subseteq Existing
  BY OnlyCreateMakes DEF Existing

LEMMA StepNamesakesMet ==
  ASSUME CallsInv, History, NamesakesMet, NEW c \in Calls, Step(c) PROVE NamesakesMet'
  <1> SUFFICES ASSUME NEW d \in Calls, (at[d] = "create" /\ Kind(d) = "onNetwork")',
                      NEW p \in Calls, p \in Existing',
                      (Kind(p) = "onNetwork" /\ Name(p) = Name(d))'
               PROVE  p \in met'[d]
    BY DEF NamesakesMet, Existing
  <1>0. p # d
    <2>1. HasMade(p)'
      BY StepCallsInv DEF CallsInv, PortsMade
    <2> QED BY <2>1 DEF HasMade, Over
  <1>1. CASE at[d] = "create"
    <2>1. met[d] \subseteq met'[d] /\ request'[d] = request[d]
      BY <1>1, StepKeeps
    <2>2. CASE p \in Existing
      <3>1. at[p] # "new"
        BY <2>2 DEF CallsInv, PortsMade, HasMade, Over
      <3>2. request'[p] = request[p]
        BY <3>1, StepKeeps
      <3> QED BY <1>1, <2>1, <2>2, <3>2 DEF NamesakesMet, Kind, Name
    <2>3. CASE p \notin Existing
      <3>1. p = c /\ at[c] = "create"
        BY <2>3, OnlyCreateMakes DEF Create
      <3>2. p \in met[d]
        BY <1>0, <1>1, <3>1 DEF History, Running, Waiting
      <3> QED BY <2>1, <3>2
    <2> QED BY <2>2, <2>3
  <1>2. CASE at[d] # "create"
    <2>1. d = c
      BY <1>2, StepKeeps
    <2>2. FindForCreate(c) /\ Named(c) = {}
      <3> USE <2>1, <1>2 DEF CallsInv, TypeOK, Goto
      <3>1. CASE Begin(c)
        <4>1. PICK r \in Requests, place \in {"find", "create", "read", "deleting"},
                   t \in Existing \cup {None}, f \in SUBSET Calls : Starts(c, r, place, t, f)
          BY <3>1, BeginStarts
        <4>2. r.kind = "onNetwork" /\ place = "create"
          BY <4>1 DEF Starts, Kind
        <4> QED BY <3>1, <4>1, <4>2 DEF Begin, Starts
      <3> QED BY <3>1 DEF Step, FindForCreate, FindForDelete, Create, Activate, DeleteOne,
                        ReadPairs, WritePairs, Fails
    <2>3. p \in Existing /\ request' = request
      BY <2>2 DEF FindForCreate, Existing
    <2>4. p \in Named(c)
      BY <2>1, <2>3 DEF Named, Name
    <2> QED BY <2>2, <2>4
  <1> QED BY <1>1, <1>2

LEMMA StepOnePort ==
  ASSUME CallsInv, History, NamesakesMet, OnePortPerName, NEW c \in Calls, Step(c)
  PROVE  OnePortPerName'
  <1> SUFFICES ASSUME NEW p \in Calls, NEW q \in Calls, p \in Existing', q \in Existing',
                      (Kind(p) = "onNetwork" /\ Kind(q) = "onNetwork" /\ Name(p) = Name(q))',
                      p # q
               PROVE  q \in met'[p]
    BY DEF OnePortPerName, Existing
  <1>1. ASSUME NEW r \in Existing
        PROVE  request'[r] = request[r] /\ met[r] \subseteq met'[r]
    <2>1. r \in Calls /\ at[r] # "new"
      BY DEF CallsInv, PortsMade, HasMade, Over, Existing
    <2> QED BY <2>1, StepKeeps
  <1>2. CASE p \in Existing /\ q \in Existing
    BY <1>1, <1>2 DEF OnePortPerName, Kind, Name
  <1>3. ASSUME NEW r \in Existing, NEW s \in Calls, s \notin Existing, s \in Existing',
               (Kind(r) = "onNetwork" /\ Kind(s) = "onNetwork" /\ Name(r) = Name(s))'
        PROVE  r \in met'[s] /\ s \in met'[r]
    <2>1. s = c /\ Create(s)
      BY <1>3, OnlyCreateMakes
    <2>2. request' = request /\ met' = met /\ at[s] = "create"
      BY <2>1 DEF Create
    <2>3. r \in met[s]
      BY <1>3, <2>2 DEF NamesakesMet, Kind, Name
    <2> QED BY <2>2, <2>3 DEF History, Existing
  <1>4. CASE p \in Existing /\ q \notin Existing
    BY <1>3, <1>4
  <1>5. CASE p \notin Existing /\ q \in Existing
    BY <1>3, <1>5
  <1>6. CASE p \notin Existing /\ q \notin Existing
    BY <1>6, OnlyCreateMakes
  <1> QED BY <1>2, <1>4, <1>5, <1>6

(* A port that is over is never made again. *)
LEMMA OverMakesNothing ==
  ASSUME CallsInv, NEW c \in Calls, Step(c), NEW p \in Calls, at[p] \in Over, p \in Existing'
  PROVE  p \in Existing /\ request'[p] = request[p]
  <1>1. at[p] # "create" /\ at[p] # "new"
    BY DEF Over
  <1> QED BY <1>1, OnlyCreateMakes, StepKeeps DEF Create

LEMMA StepAllFound ==
  ASSUME CallsInv, History, AllFound, NEW c \in Calls, Step(c) PROVE AllFound'
  <1> SUFFICES ASSUME NEW d \in Calls, (at[d] = "deleting" /\ Kind(d) = "delete")',
                      NEW p \in Calls, p \in before'[d], p \in Existing', (Name(p) = Name(d))'
               PROVE  p \in found'[d]
    BY DEF AllFound, Existing
  <1>1. CASE at[d] = "new"
    <2>1. Begin(c) /\ d = c
      BY <1>1, StepKeeps DEF Step, FindForCreate, FindForDelete, Create, Activate, DeleteOne,
                             ReadPairs, WritePairs, Fails, Waiting
    <2>2. PICK r \in Requests, place \in {"find", "create", "read", "deleting"},
               t \in Existing \cup {None}, f \in SUBSET Calls : Starts(c, r, place, t, f)
      BY <2>1, BeginStarts
    <2>3. r.kind = "delete" /\ place = "deleting"
      BY <2>1, <2>2 DEF Starts, Kind, CallsInv, TypeOK
    <2> QED BY <2>1, <2>2, <2>3 DEF Begin, Starts, Goto, CallsInv, TypeOK
  <1>2. CASE at[d] # "new"
    <2>0. at[p] \in Over
      BY <1>2, StepKeeps DEF History
    <2>1. p \in before[d] \cap Existing /\ Name(p) = Name(d) /\ Kind(d) = "delete"
      BY <1>2, <2>0, StepKeeps, OverMakesNothing DEF Name, Kind
    <2>2. CASE d # c
      BY <2>1, <2>2, StepKeeps DEF AllFound
    <2>3. CASE d = c
      <3> USE <2>3 DEF CallsInv, TypeOK, Goto
      <3>1. CASE FindForDelete(c)
        BY <2>1, <3>1 DEF FindForDelete, Named
      <3>2. CASE DeleteOne(c)
        <4>1. PICK q \in found[c] : port' = [port EXCEPT ![q] = None]
                                   /\ found' = [found EXCEPT ![c] = @ \ {q}]
          BY <3>2 DEF DeleteOne
        <4>2. p # q
          BY <4>1 DEF Existing
        <4>3. p \in found[c]
          BY <2>1, <3>2 DEF AllFound, DeleteOne
        <4> QED BY <4>1, <4>2, <4>3
      <3> QED BY <1>2, <2>1, <3>1, <3>2
              DEF Step, Begin, FindForCreate, Create, Activate, ReadPairs, WritePairs, Fails
    <2> QED BY <2>2, <2>3
  <1> QED BY <1>1, <1>2

LEMMA StepDeleted ==
  ASSUME CallsInv, History, AllFound, DeletedByName, NEW c \in Calls, Step(c)
  PROVE  DeletedByName'
  <1> SUFFICES ASSUME NEW d \in Calls, (at[d] = "done" /\ Kind(d) = "delete")',
                      NEW p \in Calls, p \in before'[d], p \in Existing', (Name(p) = Name(d))'
               PROVE  FALSE
    <2>1. before' \in [Calls -> SUBSET Calls]
      BY StepCallsInv DEF CallsInv, TypeOK
    <2> QED BY <2>1 DEF DeletedByName, Existing
  <1>1. at[d] # "new"
    <2>1. ASSUME Begin(c) PROVE at'[c] # "done"
      BY <2>1, BeginStarts DEF Starts, CallsInv, TypeOK
    <2> QED BY <2>1, StepKeeps DEF Step, FindForCreate, FindForDelete, Create, Activate,
                                   DeleteOne, ReadPairs, WritePairs, Fails, Waiting
  <1>2. at[p] \in Over
    BY <1>1, StepKeeps DEF History
  <1>3. p \in before[d] /\ p \in Existing /\ Name(p) = Name(d) /\ Kind(d) = "delete"
    BY <1>1, <1>2, StepKeeps, OverMakesNothing DEF Name, Kind
  <1>4. CASE at[d] = "done"
    BY <1>3, <1>4 DEF DeletedByName, Existing
  <1>5. CASE at[d] # "done"
    <2>1. d = c
      BY <1>5, StepKeeps
    <2> USE <2>1 DEF CallsInv, TypeOK, Goto
    <2>2. CASE FindForDelete(c)
      BY <1>3, <2>2 DEF FindForDelete, Named
    <2>3. CASE DeleteOne(c)
      <3>1. found[c] \subseteq {p}
        BY <1>3, <2>3 DEF DeleteOne, AllFound
      <3>2. port'[p] = None
        BY <2>3, <3>1 DEF DeleteOne
      <3> QED BY <3>2 DEF Existing
    <2>4. CASE Begin(c)
      BY <1>1, <2>4 DEF Begin
    <2> QED BY <1>3, <1>5, <2>2, <2>3, <2>4
            DEF Step, FindForCreate, Create, Activate, ReadPairs, WritePairs, Fails,
                Stages, Kind, Creates, Changes
  <1> QED BY <1>4, <1>5

--------------------------------------------------------------------------------
(***************************************************************************)
(* Address pairs                                                           *)
(***************************************************************************)

(* The list that an add or remove makes of the port's present pairs. *)
NewList(c) == NewPairs(c, port[target[c]].pairs)

(* The list of a change that no other change of the port's pairs crossed   *)
(* is not stale when it is written.                                        *)
UncrossedIsCurrent ==
  \A c \in Calls : at[c] = "write" /\ ~ Crossed(c) /\ target[c] \in Existing =>
    list[c] = NewList(c)

Added(p, x) ==
  \E e \in Calls : at[e] = "done" /\ Kind(e) = "add" /\ target[e] = p /\ Address(e) = x

(* Every pair of a port comes from an add that ended well, and every pair  *)
(* that a call will write does, or is its own.                             *)
PairsAreAdded ==
  /\ \A p \in Existing : \A x : Contains(port[p].pairs, x) => Added(p, x)
  /\ \A c \in Calls : at[c] = "write" =>
       \A x : Contains(list[c], x) =>
         (Kind(c) = "add" /\ x = Address(c)) \/ Added(target[c], x)

(* The add of an address that AddedStays speaks of. *)
Undisturbed(c) ==
  /\ Kind(c) = "add"
  /\ ~ AddsAgain(c)
  /\ ~ \E d \in Calls : Disturbs(d, c)

(* Such an add has its address in the list that it will write. *)
ListHasOwn ==
  PairsListed => \A c \in Calls : at[c] = "write" /\ Undisturbed(c) => Contains(list[c], Address(c))

(* What a step does to the pairs of a port that is there after it. *)
LEMMA PairsStep ==
  ASSUME CallsInv, NEW c \in Calls, Step(c), NEW p \in Calls, p \in Existing'
  PROVE  \/ p \in Existing /\ port'[p].pairs = port[p].pairs
         \/ Create(c) /\ p = c /\ port'[p].pairs = <<>>
         \/ p \in Existing /\ WritePairs(c) /\ p = target[c] /\ port'[p].pairs = list[c]
  <1> USE DEF CallsInv, TypeOK, Existing
  <1>1. CASE UNCHANGED port
    BY <1>1
  <1>2. CASE Create(c)
    BY <1>2 DEF Create
  <1>3. CASE Activate(c)
    BY <1>3 DEF Activate
  <1>4. CASE DeleteOne(c)
    BY <1>4 DEF DeleteOne
  <1>5. CASE WritePairs(c)
    BY <1>5 DEF WritePairs
  <1> QED BY <1>1, <1>2, <1>3, <1>4, <1>5
          DEF Step, Begin, FindForCreate, FindForDelete, ReadPairs, Fails

(* Only reading the pairs makes a call ready to write. *)
LEMMA OnlyReadMakesList ==
  ASSUME CallsInv, NEW c \in Calls, Step(c), NEW d \in Calls, at'[d] = "write"
  PROVE  \/ d # c /\ at[d] = "write"
         \/ d = c /\ ReadPairs(c)
  <1>1. CASE d # c
    BY <1>1, StepKeeps
  <1>2. CASE d = c
    <2>1. CASE Begin(c)
      <3>1. PICK r \in Requests, place \in {"find", "create", "read", "deleting"},
                 t \in Existing \cup {None}, f \in SUBSET Calls : Starts(c, r, place, t, f)
        BY <2>1, BeginStarts
      <3>2. at'[c] = place
        BY <3>1 DEF Starts, CallsInv, TypeOK
      <3> QED BY <1>2, <3>2
    <2> QED BY <1>2, <2>1 DEF Step, FindForCreate, FindForDelete, Create, Activate, DeleteOne,
                              WritePairs, Fails, Goto, CallsInv, TypeOK
  <1> QED BY <1>1, <1>2

LEMMA StepUncrossed ==
  ASSUME CallsInv, History, UncrossedIsCurrent, NEW c \in Calls, Step(c)
  PROVE  UncrossedIsCurrent'
  <1> SUFFICES ASSUME NEW d \in Calls, at'[d] = "write", ~ Crossed(d)', target'[d] \in Existing'
               PROVE  list'[d] = NewList(d)'
    BY DEF UncrossedIsCurrent
  <1>1. CASE d # c /\ at[d] = "write"
    <2>1. /\ request'[d] = request[d] /\ target'[d] = target[d] /\ list'[d] = list[d]
          /\ target[d] \in Calls /\ ~ Crossed(d)
      BY <1>1, StepKeeps, CrossedStays DEF CallsInv, TypeOK, Existing
    <2>2. ~ (WritePairs(c) /\ target[c] = target[d])
      <3>1. SUFFICES ASSUME WritePairs(c), target[c] = target[d] PROVE FALSE
        OBVIOUS
      <3>2. c \in met[d]
        BY <1>1, <3>1 DEF WritePairs, History, Running, Waiting
      <3> QED BY <2>1, <3>1, <3>2 DEF Crossed
    <2>3. ~ (Create(c) /\ target[d] = c)
      BY <1>1, <2>1, PortsAssumption DEF CallsInv, PortsMade, HasMade, Over, Create
    <2>4. target[d] \in Existing /\ port'[target[d]].pairs = port[target[d]].pairs
      BY <2>1, <2>2, <2>3, PairsStep
    <2> QED BY <1>1, <2>1, <2>4 DEF UncrossedIsCurrent, NewList, NewPairs, Kind, Address
  <1>2. CASE d = c /\ ReadPairs(c)
    BY <1>2 DEF ReadPairs, NewList, NewPairs, Kind, Address, CallsInv, TypeOK
  <1> QED BY <1>1, <1>2, OnlyReadMakesList

LEMMA AddedKept ==
  ASSUME CallsInv, NEW c \in Calls, Step(c), NEW p, NEW x, Added(p, x)
  PROVE  Added(p, x)'
  <1>1. PICK e \in Calls : at[e] = "done" /\ Kind(e) = "add" /\ target[e] = p /\ Address(e) = x
    BY DEF Added
  <1>2. e # c
    BY <1>1, StepKeeps DEF Waiting
  <1> QED BY <1>1, <1>2, StepKeeps DEF Added, Kind, Address

LEMMA StepPairsAreAdded ==
  ASSUME CallsInv, PairsAreAdded, NEW c \in Calls, Step(c) PROVE PairsAreAdded'
  <1>1. ASSUME NEW p \in Calls, p \in Existing', NEW x, Contains(port'[p].pairs, x)
        PROVE  Added(p, x)'
    <2>1. CASE p \in Existing /\ port'[p].pairs = port[p].pairs
      BY <1>1, <2>1, AddedKept DEF PairsAreAdded
    <2>2. CASE Create(c) /\ p = c /\ port'[p].pairs = <<>>
      BY <1>1, <2>2, EmptySeq DEF Contains
    <2>3. CASE p \in Existing /\ WritePairs(c) /\ p = target[c] /\ port'[p].pairs = list[c]
      <3>1. (Kind(c) = "add" /\ x = Address(c)) \/ Added(p, x)
        BY <1>1, <2>3 DEF PairsAreAdded, WritePairs
      <3>2. at'[c] = "done" /\ request' = request /\ target' = target
        BY <2>3 DEF WritePairs, Goto, CallsInv, TypeOK
      <3> QED BY <2>3, <3>1, <3>2, AddedKept DEF Added, Kind, Address
    <2> QED BY <1>1, <2>1, <2>2, <2>3, PairsStep
  <1>2. ASSUME NEW d \in Calls, at'[d] = "write", NEW x, Contains(list'[d], x)
        PROVE  (Kind(d) = "add" /\ x = Address(d))' \/ Added(target[d], x)'
    <2>1. CASE d # c /\ at[d] = "write"
      <3>1. list'[d] = list[d] /\ request'[d] = request[d] /\ target'[d] = target[d]
        BY <2>1, StepKeeps
      <3>2. (Kind(d) = "add" /\ x = Address(d)) \/ Added(target[d], x)
        BY <1>2, <2>1, <3>1 DEF PairsAreAdded
      <3>3. PICK p : p = target[d]
        OBVIOUS
      <3>4. Added(p, x) => Added(p, x)'
        BY AddedKept
      <3> QED BY <3>1, <3>2, <3>3, <3>4 DEF Added, Kind, Address
    <2>2. CASE d = c /\ ReadPairs(c)
      <3>1. /\ list'[c] = NewList(c) /\ request' = request /\ target' = target
            /\ target[c] \in Existing
        BY <2>2 DEF ReadPairs, NewList, Existing, CallsInv, TypeOK, Stages
      <3>2. Kind(c) \in Changes /\ Address(c) \in Addresses
        BY <2>2, AddressOf DEF ReadPairs, CallsInv, Stages
      <3>3. port[target[c]].pairs \in Seq(Addresses)
        BY <3>1 DEF CallsInv, TypeOK, Existing
      <3>4. Contains(port[target[c]].pairs, x) \/ (Kind(c) = "add" /\ x = Address(c))
        <4>0. CASE ~ PairsListed
          BY <1>2, <2>2, <3>1, <4>0, EmptySeq DEF NewList, NewPairs, Contains
        <4>1. CASE PairsListed /\ Kind(c) = "add"
          BY <1>2, <2>2, <3>1, <3>2, <3>3, <4>1, WithAddressIs DEF NewList, NewPairs
        <4>2. CASE PairsListed /\ Kind(c) # "add"
          BY <1>2, <2>2, <3>1, <3>3, <4>2, WithoutAddressIs DEF NewList, NewPairs
        <4> QED BY <4>0, <4>1, <4>2
      <3>5. PICK p \in Existing : p = target[c]
        BY <3>1
      <3>6. Contains(port[p].pairs, x) => Added(p, x)'
        BY AddedKept DEF PairsAreAdded
      <3> QED BY <2>2, <3>1, <3>4, <3>5, <3>6 DEF Kind, Address, Added
    <2> QED BY <1>2, <2>1, <2>2, OnlyReadMakesList
  <1> QED BY <1>1, <1>2 DEF PairsAreAdded, Existing

(* What disturbs an add still disturbs it later. *)
LEMMA UndisturbedBefore ==
  ASSUME CallsInv, History, NEW c \in Calls, Step(c), NEW d \in Calls, at[d] # "new",
         Undisturbed(d)'
  PROVE  Undisturbed(d)
  <1>0. /\ \A e \in Calls : at[e] # "new" =>
             /\ request'[e] = request[e] /\ target'[e] = target[e] /\ before'[e] = before[e]
             /\ met[e] \subseteq met'[e]
        /\ \A b \in Calls : \A e \in before[b] : e \in Calls /\ at[e] # "new"
        /\ \A e \in Calls : at[e] # "new" /\ Crossed(e) => Crossed(e)'
    BY StepKeeps, CrossedStays DEF History, CallsInv, TypeOK, Over
  <1>1. Kind(d) = "add" /\ target[d] # None
    BY <1>0 DEF Undisturbed, Kind, CallsInv, Stages, Changes
  <1>2. ASSUME NEW e \in Calls, at[e] # "new", AddsAgain(e) PROVE AddsAgain(e)'
    BY <1>0, <1>2 DEF AddsAgain, Kind, Address
  <1>3. ASSUME NEW e \in Calls, Disturbs(e, d) PROVE FALSE
    <2>1. at[e] # "new"
      BY <1>1, <1>3 DEF Disturbs, CallsInv, Stages
    <2>2. e # d /\ target'[e] = target'[d] /\ e \notin before'[d]
      BY <1>0, <1>3, <2>1 DEF Disturbs
    <2>3. e \in met'[d] \/ Address(e)' = Address(d)' \/ Crossed(e)' \/ AddsAgain(e)'
      BY <1>0, <1>2, <1>3, <2>1 DEF Disturbs, Address
    <2>4. Disturbs(e, d)'
      BY <2>2, <2>3 DEF Disturbs
    <2> QED BY <2>4 DEF Undisturbed
  <1> QED BY <1>1, <1>2, <1>3 DEF Undisturbed

(* An undisturbed add finds its address not listed: whoever listed it has  *)
(* added it.                                                               *)
LEMMA StepListHasOwn ==
  ASSUME CallsInv, History, PairsAreAdded, ListHasOwn, NEW c \in Calls, Step(c)
  PROVE  ListHasOwn'
  <1> SUFFICES ASSUME PairsListed, NEW d \in Calls, at'[d] = "write", Undisturbed(d)'
               PROVE  Contains(list'[d], Address(d)')
    BY DEF ListHasOwn
  <1>1. CASE d # c /\ at[d] = "write"
    <2>1. Undisturbed(d)
      BY <1>1, UndisturbedBefore
    <2> QED BY <1>1, <2>1, StepKeeps DEF ListHasOwn, Address
  <1>2. CASE d = c /\ ReadPairs(c)
    <2>1. /\ list'[c] = NewList(c) /\ request' = request /\ at[c] = "read"
          /\ target[c] \in Existing /\ Kind(c) \in Changes
      BY <1>2 DEF ReadPairs, NewList, Existing, CallsInv, TypeOK, Stages
    <2>2. Undisturbed(c)
      BY <1>2, <2>1, UndisturbedBefore
    <2>3. Address(c) \in Addresses /\ port[target[c]].pairs \in Seq(Addresses)
      BY <2>1, AddressOf DEF CallsInv, TypeOK, Existing
    <2>4. ~ Contains(port[target[c]].pairs, Address(c))
      <3>1. SUFFICES ASSUME Contains(port[target[c]].pairs, Address(c)) PROVE FALSE
        OBVIOUS
      <3>2. PICK e \in Calls : /\ at[e] = "done" /\ Kind(e) = "add"
                               /\ target[e] = target[c] /\ Address(e) = Address(c)
        BY <2>1, <3>1 DEF PairsAreAdded, Added
      <3>3. e # c
        BY <2>1, <3>2
      <3> QED BY <2>2, <3>2, <3>3 DEF Undisturbed, Disturbs, AddsAgain
    <2>5. list'[c] = WithAddress(port[target[c]].pairs, Address(c))
      BY <2>1, <2>2 DEF NewList, NewPairs, Undisturbed
    <2> QED BY <1>2, <2>1, <2>3, <2>4, <2>5, WithAddressIs DEF Address
  <1> QED BY <1>1, <1>2, OnlyReadMakesList

(* A call that does not disturb an add that is over leaves the address     *)
(* where it is: no change crossed it, so it writes what it makes of the    *)
(* pairs that are there, it does not remove the address, and no add of its *)
(* own address came before it, so it only appends.                         *)
LEMMA WriteKeeps ==
  ASSUME PairsListed, CallsInv, History, UncrossedIsCurrent, PairsAreAdded,
         NEW c \in Calls, WritePairs(c), NEW d \in Calls, at[d] = "done", Undisturbed(d),
         target[c] = target[d], Contains(port[target[d]].pairs, Address(d))
  PROVE  Contains(list[c], Address(d))
  <1>1. /\ at[c] = "write" /\ target[c] \in Existing /\ Kind(c) \in Changes /\ c # d
        /\ c \in Begun /\ c \notin before[d]
    BY DEF WritePairs, Existing, Begun, CallsInv, TypeOK, Stages, History, Over
  <1>2. ~ Crossed(c) /\ Address(c) # Address(d) /\ ~ AddsAgain(c)
    BY <1>1 DEF Undisturbed, Disturbs
  <1>3. list[c] = NewList(c)
    BY <1>1, <1>2 DEF UncrossedIsCurrent
  <1>4. Address(c) \in Addresses /\ port[target[c]].pairs \in Seq(Addresses)
    BY <1>1, AddressOf DEF CallsInv, TypeOK, Existing, Begun
  <1>5. CASE Kind(c) # "add"
    BY <1>2, <1>3, <1>4, <1>5, WithoutAddressIs DEF NewList, NewPairs
  <1>6. CASE Kind(c) = "add"
    <2>1. ~ Contains(port[target[c]].pairs, Address(c))
      <3>1. SUFFICES ASSUME Contains(port[target[c]].pairs, Address(c)) PROVE FALSE
        OBVIOUS
      <3>2. PICK e \in Calls : /\ at[e] = "done" /\ Kind(e) = "add"
                               /\ Address(e) = Address(c) /\ target[e] = target[c]
        BY <1>1, <3>1 DEF PairsAreAdded, Added
      <3>3. e # c /\ e \in Begun
        BY <1>1, <3>2 DEF Begun
      <3>4. e \notin met[c] /\ c \notin met[e]
        BY <1>2, <3>2 DEF History, Crossed
      <3>5. c \notin before[e]
        BY <1>1, <3>2 DEF History, Over
      <3>6. e \in before[c]
        BY <1>1, <3>3, <3>4, <3>5 DEF History
      <3> QED BY <1>2, <1>6, <3>2, <3>6 DEF AddsAgain
    <2> QED BY <1>3, <1>4, <1>6, <2>1, WithAddressIs DEF NewList, NewPairs
  <1> QED BY <1>5, <1>6

LEMMA StepAddedStays ==
  ASSUME PairsListed, CallsInv, History, UncrossedIsCurrent, PairsAreAdded, ListHasOwn, AddedStays,
         NEW c \in Calls, Step(c)
  PROVE  AddedStays'
  <1> SUFFICES ASSUME NEW d \in Calls, at'[d] = "done", Undisturbed(d)', target'[d] \in Existing'
               PROVE  Contains(port'[target'[d]].pairs, Address(d)')
    BY DEF AddedStays, Undisturbed
  <1>1. at[d] # "new"
    <2>1. CASE Begin(c)
      <3>1. PICK r \in Requests, place \in {"find", "create", "read", "deleting"},
                 t \in Existing \cup {None}, f \in SUBSET Calls : Starts(c, r, place, t, f)
        BY <2>1, BeginStarts
      <3>2. at'[c] = place
        BY <3>1 DEF Starts, CallsInv, TypeOK
      <3> QED BY <3>2, StepKeeps
    <2>2. CASE ~ Begin(c)
      BY <2>2, StepKeeps DEF Step, FindForCreate, FindForDelete, Create, Activate, DeleteOne,
                             ReadPairs, WritePairs, Fails, Waiting
    <2> QED BY <2>1, <2>2
  <1>2. /\ request'[d] = request[d] /\ target'[d] = target[d] /\ Undisturbed(d)
        /\ Kind(d) = "add" /\ target[d] \in Calls
    BY <1>1, StepKeeps, UndisturbedBefore DEF Undisturbed, CallsInv, TypeOK, Stages, Changes
  <1>3. ~ Create(target[d])
    BY <1>2, PortsAssumption DEF CallsInv, PortsMade, HasMade, Over, Create
  <1>4. CASE at[d] = "done"
    <2>1. CASE target[d] \in Existing /\ port'[target[d]].pairs = port[target[d]].pairs
      BY <1>2, <1>4, <2>1 DEF AddedStays, Undisturbed, Address
    <2>2. CASE /\ target[d] \in Existing /\ WritePairs(c) /\ target[d] = target[c]
               /\ port'[target[d]].pairs = list[c]
      <3>1. Contains(port[target[d]].pairs, Address(d))
        BY <1>2, <1>4, <2>2 DEF AddedStays, Undisturbed
      <3>2. Contains(list[c], Address(d))
        BY <1>2, <1>4, <2>2, <3>1, WriteKeeps
      <3> QED BY <1>2, <2>2, <3>2 DEF Address
    <2> QED BY <1>2, <1>3, <2>1, <2>2, PairsStep
  <1>5. CASE at[d] # "done"
    <2>1. d = c
      BY <1>5, StepKeeps
    <2>2. WritePairs(c)
      BY <1>1, <1>2, <1>5, <2>1
         DEF Step, Begin, FindForCreate, FindForDelete, Create, Activate, DeleteOne, ReadPairs,
             Fails, Goto, CallsInv, TypeOK, Stages, Creates, Changes, Deletes
    <2>3. Contains(list[c], Address(c))
      BY <1>2, <2>1, <2>2 DEF ListHasOwn, WritePairs
    <2>4. port'[target[c]].pairs = list[c]
      BY <1>2, <2>1, <2>2 DEF WritePairs, CallsInv, TypeOK
    <2> QED BY <1>2, <2>1, <2>3, <2>4 DEF Address
  <1> QED BY <1>4, <1>5

--------------------------------------------------------------------------------
(***************************************************************************)
(* The invariant                                                           *)
(***************************************************************************)

NamesInv == NamesakesMet /\ OnePortPerName /\ AllFound /\ DeletedByName
PairsInv ==
  /\ UncrossedIsCurrent /\ PairsAreAdded /\ ListHasOwn
  /\ PairsListed => AddedStays

IInv == CallsInv /\ History /\ NamesInv /\ PairsInv

LEMMA InitIInv == Init => IInv
  <1> SUFFICES ASSUME Init PROVE IInv
    OBVIOUS
  <1>1. /\ \A c \in Calls : /\ request[c] = None /\ port[c] = None /\ at[c] = "new"
                            /\ target[c] = None /\ found[c] = {} /\ list[c] = <<>>
                            /\ returned[c] = None /\ before[c] = {} /\ met[c] = {}
        /\ Existing = {} /\ Running = {} /\ Begun = {}
    BY DEF Init, Existing, Running, Begun, Waiting
  <1>2. TypeOK
    BY EmptySeq DEF Init, TypeOK
  <1>3. CallsInv
    BY <1>1, <1>2 DEF CallsInv, Stages, PortsMade
  <1>4. History
    BY <1>1 DEF History
  <1>5. NamesInv
    BY <1>1 DEF NamesInv, NamesakesMet, OnePortPerName, AllFound, DeletedByName
  <1>6. PairsInv
    BY <1>1 DEF PairsInv, UncrossedIsCurrent, PairsAreAdded, ListHasOwn, AddedStays
  <1> QED BY <1>3, <1>4, <1>5, <1>6 DEF IInv

LEMMA NextIInv == IInv /\ [Next]_vars => IInv'
  <1> SUFFICES ASSUME IInv, [Next]_vars PROVE IInv'
    OBVIOUS
  <1>1. ASSUME NEW c \in Calls, Step(c) PROVE IInv'
    <2>1. CallsInv' /\ History'
      BY <1>1, StepCallsInv, StepHistory DEF IInv
    <2>2. NamesInv'
      BY <1>1, StepNamesakesMet, StepOnePort, StepAllFound, StepDeleted DEF IInv, NamesInv
    <2>3. PairsInv'
      BY <1>1, StepUncrossed, StepPairsAreAdded, StepListHasOwn, StepAddedStays DEF IInv, PairsInv
    <2> QED BY <2>1, <2>2, <2>3 DEF IInv
  <1>2. CASE UNCHANGED vars
    <2> USE <1>2 DEF vars, Kind, Name, Address, Existing
    <2>1. CallsInv'
      BY DEF IInv, CallsInv, TypeOK, Stages, PortsMade, HasMade
    <2>2. History'
      BY DEF IInv, History, Running, Begun
    <2>3. NamesInv'
      BY DEF IInv, NamesInv, NamesakesMet, OnePortPerName, AllFound, DeletedByName
    <2>4. PairsInv'
      BY DEF IInv, PairsInv, UncrossedIsCurrent, NewList, NewPairs, Crossed, PairsAreAdded, Added,
             ListHasOwn, Undisturbed, AddsAgain, Disturbs, AddedStays
    <2> QED BY <2>1, <2>2, <2>3, <2>4 DEF IInv
  <1> QED BY <1>1, <1>2, NextIsAStep

(* Ports keep a status and a list of addresses through every update, and   *)
(* what a call remembers is a port or a call.                              *)
THEOREM TypeCorrect == Spec => []TypeOK
  <1>1. IInv => TypeOK
    BY DEF IInv, CallsInv
  <1> QED BY <1>1, InitIInv, NextIInv, PTL DEF Spec

(* Two ports of one name come only from creations that crossed.            *)
THEOREM NamesStayUnique == Spec => []OnePortPerName
  <1>1. IInv => OnePortPerName
    BY DEF IInv, NamesInv
  <1> QED BY <1>1, InitIInv, NextIInv, PTL DEF Spec

(* A deletion by name leaves no port whose creation was over before it.    *)
THEOREM DeletionsAreComplete == Spec => []DeletedByName
  <1>1. IInv => DeletedByName
    BY DEF IInv, NamesInv
  <1> QED BY <1>1, InitIInv, NextIInv, PTL DEF Spec

(* With a core plugin whose ports name their pairs, an address that was    *)
(* added stays listed until a call disturbs it.                            *)
THEOREM AddressesStay == ASSUME PairsListed PROVE Spec => []AddedStays
  <1>1. IInv => AddedStays
    BY DEF IInv, PairsInv
  <1> QED BY <1>1, InitIInv, NextIInv, PTL DEF Spec

(* What a change that no other crossed writes, it makes of the pairs that  *)
(* are there.                                                              *)
LEMMA UncrossedWrites ==
  ASSUME IInv, NEW c \in Calls, WritePairs(c), ~ Crossed(c)
  PROVE  /\ port'[target[c]].pairs = NewList(c)
         /\ Kind(c) \in Changes /\ Address(c) \in Addresses
         /\ port[target[c]].pairs \in Seq(Addresses)
  <1>1. CallsInv /\ UncrossedIsCurrent
    BY DEF IInv, PairsInv
  <1>2. at[c] = "write" /\ target[c] \in Existing /\ Kind(c) \in Changes
    BY <1>1 DEF WritePairs, Existing, CallsInv, TypeOK, Stages
  <1>3. port'[target[c]].pairs = list[c]
    BY <1>1, <1>2 DEF WritePairs, Existing, CallsInv, TypeOK
  <1>4. list[c] = NewList(c)
    BY <1>1, <1>2 DEF UncrossedIsCurrent
  <1>5. Address(c) \in Addresses /\ port[target[c]].pairs \in Seq(Addresses)
    BY <1>1, <1>2, AddressOf DEF CallsInv, TypeOK, Existing
  <1> QED BY <1>2, <1>3, <1>4, <1>5

LEMMA MembersAreContained ==
  ASSUME NEW S, NEW s \in Seq(S), NEW x
  PROVE  x \in ToSet(s) <=> Contains(s, x)
  BY LenProperties DEF ToSet, Contains

(* A removal takes its address out and leaves the others, whatever list    *)
(* the port has by then and whatever other ports' calls do meanwhile.      *)
THEOREM RemovalsAreExact == ASSUME PairsListed PROVE Spec => RemovesOnlyItsOwn
  <1>1. IInv /\ [Next]_vars =>
          [\A c \in Calls :
             WritePairs(c) /\ Kind(c) = "remove" /\ ~ Crossed(c) =>
               ToSet(port'[target[c]].pairs) = ToSet(port[target[c]].pairs) \ {Address(c)}]_vars
    <2> SUFFICES ASSUME IInv, NEW c \in Calls,
                        WritePairs(c), Kind(c) = "remove", ~ Crossed(c)
                 PROVE  ToSet(port'[target[c]].pairs) = ToSet(port[target[c]].pairs) \ {Address(c)}
      OBVIOUS
    <2> DEFINE pairs == port[target[c]].pairs
               left == WithoutAddress(pairs, Address(c))
    <2>1. port'[target[c]].pairs = left /\ pairs \in Seq(Addresses)
      BY UncrossedWrites DEF NewList, NewPairs
    <2> HIDE DEF pairs
    <2>2. left \in Seq(Addresses) /\ \A x : Contains(left, x) <=> Contains(pairs, x) /\ x # Address(c)
      BY <2>1, WithoutAddressIs
    <2> HIDE DEF left
    <2>3. \A x : x \in ToSet(left) <=> x \in ToSet(pairs) /\ x # Address(c)
      BY <2>1, <2>2, MembersAreContained
    <2>4. ToSet(left) = ToSet(pairs) \ {Address(c)}
      BY <2>3
    <2> QED BY <2>1, <2>4 DEF pairs
  <1> QED BY <1>1, InitIInv, NextIInv, PTL DEF Spec, RemovesOnlyItsOwn

(* AddOnlyAdds fails in one case only: an add that no other change of the  *)
(* port's pairs crossed takes nothing out of a list that does not have its *)
(* address yet.                                                            *)
THEOREM FreshAddsOnlyAdd ==
  ASSUME PairsListed
  PROVE  Spec => [][\A c \in Calls :
                      /\ WritePairs(c) /\ Kind(c) = "add" /\ ~ Crossed(c)
                      /\ ~ Contains(port[target[c]].pairs, Address(c))
                      => \A x : Contains(port[target[c]].pairs, x) \/ x = Address(c) =>
                                  Contains(port'[target[c]].pairs, x)]_vars
  <1>1. IInv /\ [Next]_vars =>
          [\A c \in Calls :
               /\ WritePairs(c) /\ Kind(c) = "add" /\ ~ Crossed(c)
               /\ ~ Contains(port[target[c]].pairs, Address(c))
               => \A x : Contains(port[target[c]].pairs, x) \/ x = Address(c) =>
                           Contains(port'[target[c]].pairs, x)]_vars
    <2> SUFFICES ASSUME IInv, NEW c \in Calls,
                        WritePairs(c), Kind(c) = "add", ~ Crossed(c),
                        ~ Contains(port[target[c]].pairs, Address(c)), NEW x,
                        Contains(port[target[c]].pairs, x) \/ x = Address(c)
                 PROVE  Contains(port'[target[c]].pairs, x)
      OBVIOUS
    <2>1. port'[target[c]].pairs = WithAddress(port[target[c]].pairs, Address(c))
      BY UncrossedWrites DEF NewList, NewPairs
    <2> QED BY <2>1, UncrossedWrites, WithAddressIs
  <1> QED BY <1>1, InitIInv, NextIInv, PTL DEF Spec
================================================================================
