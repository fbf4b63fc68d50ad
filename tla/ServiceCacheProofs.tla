-------------------------- MODULE ServiceCacheProofs --------------------------
(***************************************************************************)
(* How old the networks of a build may be, for any number of builds and    *)
(* networks and any length of a day.                                       *)
(***************************************************************************)
EXTENDS ServiceCache, SequenceTheorems, TLAPS

(* TypeOK with the domains of the functions. *)
Shapes ==
  /\ now \in 0 .. MaxTime
  /\ cache \in [Networks -> Dicts \cup {None}]
  /\ dicts \in [Dicts -> Contents \cup {None}]
  /\ at \in [Builds -> Waiting \cup {"new", "done", "raised"}]
  /\ step \in [Builds -> Nat]
  /\ held \in [Builds -> Seq(Dicts)]
  /\ answers \in [Builds -> Seq(Segments \cup {None})]
  /\ started \in [Builds -> 0 .. MaxTime]
  /\ sent \in [Builds -> Seq(Contents)]
  /\ met \in [Builds -> SUBSET Builds]

(* Where a build is says how many networks it has. *)
Progress ==
  \A b \in Builds :
    /\ step[b] \in 1 .. Len(Nets[b])
    /\ Len(held[b]) <= Len(Nets[b]) /\ Len(answers[b]) <= Len(held[b])
    /\ at[b] = "new" => held[b] = <<>> /\ answers[b] = <<>> /\ sent[b] = <<>> /\ step[b] = 1
    /\ at[b] \in {"lookup", "reading", "insert"} => Len(held[b]) = step[b] - 1
    /\ at[b] = "segment" => Len(held[b]) = step[b]
    /\ at[b] \in {"lookup", "reading", "insert", "segment"} => Len(answers[b]) = step[b] - 1

(* Builds that run know each other, and started in this slot or the last. *)
RunningMeet ==
  \A b, c \in Running : b # c => c \in met[b]

RunningRecent ==
  \A b \in Running : started[b] <= now /\ now <= started[b] + 1

(* A build knows only builds that started after the slot before its own. *)
MetRecent ==
  \A b \in Builds : \A c \in met[b] : at[c] # "new" /\ started[b] <= started[c] + 1

(* The cache of a build that found the caches too old is one it emptied:   *)
(* what is in it now came from builds that ran with it.                    *)
CacheOfPeers ==
  \A b \in Running : StartedTooOld(b) =>
    \A n \in Networks : cache[n] # None => cache[n][1] \in met[b] \cup {b}

(* A dictionary that is used is there, and was read after its build began. *)
DictsRead ==
  /\ \A n \in Networks : cache[n] # None => dicts[cache[n]] \in Contents
  /\ \A b \in Builds : \A i \in 1 .. Len(held[b]) : dicts[held[b][i]] \in Contents
  /\ \A b \in Builds : at[b] = "insert" => dicts[<<b, step[b]>>] \in Contents

ReadAfterStart ==
  \A d \in Dicts : dicts[d] # None => at[d[1]] # "new" /\ started[d[1]] <= dicts[d].read

IInv ==
  /\ Shapes /\ Progress
  /\ RunningMeet /\ RunningRecent /\ MetRecent
  /\ CacheOfPeers /\ ReadByAPeer
  /\ DictsRead /\ ReadAfterStart /\ NoOlderThanASlot

LEMMA DictNames ==
  /\ \A d \in Dicts : d[1] \in Builds /\ d[2] \in 1 .. Len(Nets[d[1]]) /\ d = <<d[1], d[2]>>
  /\ \A b \in Builds : \A i \in 1 .. Len(Nets[b]) : <<b, i>> \in Dicts
BY DEF Dicts

LEMMA NetsLength == \A b \in Builds : Nets[b] \in Seq(Networks) /\ Len(Nets[b]) \in Nat \ {0}
<1> SUFFICES ASSUME NEW b \in Builds PROVE Nets[b] \in Seq(Networks) /\ Len(Nets[b]) \in Nat \ {0}
  OBVIOUS
<1>1. Nets[b] \in Seq(Networks) /\ Nets[b] # <<>>
  BY CacheAssumption
<1> QED
  BY <1>1, EmptySeq, LenProperties

LEMMA NetworkType == IInv => \A b \in Builds : Network(b) \in Networks
<1> SUFFICES ASSUME IInv, NEW b \in Builds PROVE Network(b) \in Networks
  OBVIOUS
<1>1. step[b] \in 1 .. Len(Nets[b])
  BY DEF IInv, Progress
<1> QED
  BY <1>1, NetsLength, ElementOfSeq DEF Network

(* A lookup answers with a segment or with nothing. *)
LEMMA FirstInType ==
  ASSUME NEW rows, NEW wanted
  PROVE  FirstIn(rows, wanted) \in wanted \cup {None}
BY Zenon DEF FirstIn

LEMMA AnswerType ==
  ASSUME NEW b \in Builds, NEW d
  PROVE  Answers(b, d) \subseteq Segments \cup {None}
<1>1. Usable[b] \subseteq Segments
  BY CacheAssumption
<1>2. \A p : GetSegmentId(p) \in Segments \cup {None}
  BY FirstInType DEF GetSegmentId
<1>3. \A n, raised : MemberSegment(n, raised) \in Segments \cup {None}
  BY FirstInType DEF MemberSegment
<1>4. \A n, c : /\ GetNetworkSegment(n, c, Usable[b]) \in Segments \cup {None}
                /\ GetNetworkSegment(n, c, {}) \in Segments \cup {None}
  <2> SUFFICES ASSUME NEW n, NEW c, NEW u \in {Usable[b], {}}
               PROVE  GetNetworkSegment(n, c, u) \in Segments \cup {None}
    OBVIOUS
  <2> DEFINE w == u \cup IF c \in Opflex THEN Vlan ELSE {}
  <2>1. w \subseteq Segments
    BY <1>1, LookupAssumption
  <2>2. GetNetworkSegment(n, c, u) = FirstIn(TableSegments[n], w)
    BY DEF GetNetworkSegment
  <2> QED
    BY <2>1, <2>2, FirstInType
<1> QED
  BY <1>2, <1>3, <1>4 DEF Answers, VipAnswers, MemberAnswers

LEMMA InitIInv == Init => IInv
<1> SUFFICES ASSUME Init PROVE IInv
  OBVIOUS
<1>1. Shapes
  <2>1. /\ <<>> \in Seq(Dicts) /\ <<>> \in Seq(Contents)
        /\ <<>> \in Seq(Segments \cup {None})
    BY EmptySeq
  <2>2. /\ held \in [Builds -> Seq(Dicts)] /\ sent \in [Builds -> Seq(Contents)]
        /\ answers \in [Builds -> Seq(Segments \cup {None})]
    BY <2>1 DEF Init
  <2>3. now \in 0 .. MaxTime /\ started \in [Builds -> 0 .. MaxTime]
    BY CacheAssumption DEF Init
  <2>4. cache \in [Networks -> Dicts \cup {None}] /\ dicts \in [Dicts -> Contents \cup {None}]
    BY DEF Init
  <2>5. at \in [Builds -> Waiting \cup {"new", "done", "raised"}]
    BY DEF Init
  <2>6. step \in [Builds -> Nat] /\ met \in [Builds -> SUBSET Builds]
    BY DEF Init
  <2> QED
    BY <2>2, <2>3, <2>4, <2>5, <2>6 DEF Shapes
<1>2. Progress
  <2> SUFFICES ASSUME NEW b \in Builds
               PROVE step[b] = 1 /\ 1 \in 1 .. Len(Nets[b]) /\ held[b] = <<>> /\ sent[b] = <<>>
                     /\ at[b] = "new" /\ Len(held[b]) = 0 /\ 0 <= Len(Nets[b])
                     /\ answers[b] = <<>> /\ Len(answers[b]) = 0
    BY DEF Progress
  <2> QED
    BY NetsLength, EmptySeq DEF Init
<1>3. RunningMeet /\ RunningRecent /\ MetRecent /\ CacheOfPeers
  BY DEF Init, RunningMeet, RunningRecent, MetRecent, CacheOfPeers, Running, Waiting
<1>4. ReadByAPeer /\ NoOlderThanASlot /\ DictsRead /\ ReadAfterStart
  BY DEF Init, ReadByAPeer, NoOlderThanASlot, DictsRead, ReadAfterStart
<1> QED
  BY <1>1, <1>2, <1>3, <1>4 DEF IInv

LEMMA TickIInv == ASSUME IInv, Tick PROVE IInv'
<1>1. Shapes'
  BY CacheAssumption DEF IInv, Tick, Shapes
<1>2. (RunningMeet /\ RunningRecent /\ MetRecent /\ CacheOfPeers)'
  BY <1>1, CacheAssumption
     DEF IInv, Tick, Shapes, RunningMeet, RunningRecent, MetRecent, CacheOfPeers, Running,
         StartedTooOld
<1>3. (Progress /\ ReadByAPeer /\ NoOlderThanASlot /\ DictsRead /\ ReadAfterStart)'
  BY DEF IInv, Tick, Progress, ReadByAPeer, NoOlderThanASlot, DictsRead, ReadAfterStart,
         StartedTooOld
<1> QED
  BY <1>1, <1>2, <1>3 DEF IInv

(* A starting build finds the caches too old and throws them away, or is   *)
(* not promised anything; the builds that run it knows, and they know it.  *)
LEMMA StartIInv == ASSUME IInv, NEW b \in Builds, Start(b) PROVE IInv'
<1>1. Shapes'
  BY DEF IInv, Start, Goto, Shapes, Waiting, Running
<1>2. Progress'
  BY DEF IInv, Start, Goto, Shapes, Progress
<1>3. Running' = Running \cup {b} /\ b \notin Running
  BY DEF IInv, Start, Goto, Shapes, Running, Waiting
<1>4. RunningMeet'
  BY <1>3 DEF IInv, Start, Shapes, RunningMeet, Running
<1>5. RunningRecent'
  BY <1>3, CacheAssumption DEF IInv, Start, Shapes, RunningRecent, Running
<1>6. MetRecent'
  <2> SUFFICES ASSUME NEW a \in Builds, NEW c \in met'[a]
               PROVE at'[c] # "new" /\ started'[a] <= started'[c] + 1
    BY DEF MetRecent
  <2>1. c \in Builds
    BY <1>1 DEF Shapes
  <2>2. at'[c] # "new"
    BY <2>1 DEF IInv, Start, Goto, Shapes, MetRecent, Running, Waiting
  <2>3. CASE a = b
    BY <2>1, <2>3, <1>3, CacheAssumption
       DEF IInv, Start, Shapes, RunningRecent, Running
  <2> DEFINE knows == IF a \in Running THEN met[a] \cup {b} ELSE met[a]
  <2>4. CASE a # b
    <3>1. c \in knows /\ started'[a] = started[a]
      BY <2>4 DEF IInv, Start, Shapes
    <3>2. started[a] \in Int /\ started[c] \in Int /\ now \in Int
      BY <2>1, CacheAssumption DEF IInv, Shapes
    <3>3. CASE c = b
      <4>1. c \notin met[a]
        BY <3>3 DEF IInv, Start, MetRecent
      <4>2. a \in Running /\ started'[c] = now
        BY <3>1, <3>3, <4>1 DEF IInv, Start, Shapes
      <4> QED
        BY <2>2, <3>1, <3>2, <4>2 DEF IInv, RunningRecent
    <3>4. CASE c # b
      <4>1. c \in met[a] /\ started'[c] = started[c]
        BY <2>1, <3>1, <3>4 DEF IInv, Start, Shapes
      <4> QED
        BY <2>2, <3>1, <4>1 DEF IInv, MetRecent
    <3> QED
      BY <3>3, <3>4
  <2> QED
    BY <2>2, <2>3, <2>4
<1>7. CacheOfPeers'
  BY <1>3 DEF IInv, Start, Shapes, CacheOfPeers, StartedTooOld, TooOld, Running
<1>8. ReadByAPeer'
  <2> SUFFICES ASSUME NEW a \in Builds, StartedTooOld(a)', NEW i \in 1 .. Len(held[a])
               PROVE held[a][i][1] \in met'[a] \cup {a}
    BY DEF ReadByAPeer, Start
  <2>1. a # b
    BY NetsLength DEF IInv, Start, Shapes, Progress
  <2>2. StartedTooOld(a) /\ met[a] \subseteq met'[a]
    BY <2>1 DEF IInv, Start, Shapes, StartedTooOld
  <2> QED
    BY <2>2 DEF IInv, ReadByAPeer
<1>9. DictsRead'
  BY DEF IInv, Start, Goto, Shapes, DictsRead
<1>10. ReadAfterStart'
  BY DictNames DEF IInv, Start, Goto, Shapes, ReadAfterStart
<1>11. NoOlderThanASlot'
  <2> SUFFICES ASSUME NEW a \in Builds, StartedTooOld(a)', NEW i \in 1 .. Len(sent[a])
               PROVE sent[a][i].read >= started'[a] - 1
    BY DEF NoOlderThanASlot, Start
  <2>1. a # b
    BY DEF IInv, Start, Progress
  <2>2. started'[a] = started[a]
    BY <2>1 DEF IInv, Start, Shapes
  <2> QED
    BY <2>2 DEF IInv, NoOlderThanASlot, StartedTooOld
<1> QED
  BY <1>1, <1>2, <1>4, <1>5, <1>6, <1>7, <1>8, <1>9, <1>10, <1>11 DEF IInv

(* A network found is appended; where the build was and goes, it runs.     *)
LEMMA FoundKeeps ==
  ASSUME IInv, NEW b \in Builds, NEW d \in Dicts, Found(b, d),
         at[b] \in {"lookup", "insert"},
         dicts[d] \in Contents,
         StartedTooOld(b) => d[1] \in met[b] \cup {b},
         UNCHANGED <<now, dicts, started, sent, met>>
  PROVE  /\ at' \in [Builds -> Waiting \cup {"new", "done", "raised"}]
         /\ step' \in [Builds -> Nat] /\ held' \in [Builds -> Seq(Dicts)]
         /\ answers' \in [Builds -> Seq(Segments \cup {None})]
         /\ Running' = Running
         /\ (Progress /\ RunningMeet /\ RunningRecent /\ MetRecent /\ ReadByAPeer)'
         /\ \A c \in Builds : \A i \in 1 .. Len(held'[c]) : dicts[held'[c][i]] \in Contents
         /\ \A c \in Builds : at'[c] = "insert" => at[c] = "insert" /\ step'[c] = step[c]
         /\ (ReadAfterStart /\ NoOlderThanASlot)'
<1> DEFINE h == Append(held[b], d)
<1>1. held[b] \in Seq(Dicts) /\ Len(held[b]) = step[b] - 1
  BY DEF IInv, Shapes, Progress
<1>2. /\ h \in Seq(Dicts) /\ Len(h) = step[b]
      /\ \A i \in 1 .. Len(held[b]) : h[i] = held[b][i]
      /\ h[step[b]] = d
  BY <1>1 DEF IInv, Shapes
<1>3. held' = [held EXCEPT ![b] = h]
  BY DEF Found
<1>4. held' \in [Builds -> Seq(Dicts)] /\ held'[b] = h
  BY <1>2, <1>3 DEF IInv, Shapes
<1> HIDE DEF h
<1>5. at' = [at EXCEPT ![b] = "segment"] /\ step' = step /\ answers' = answers
  BY DEF Found, Goto
<1>6. /\ at' \in [Builds -> Waiting \cup {"new", "done", "raised"}]
      /\ step' \in [Builds -> Nat] /\ answers' \in [Builds -> Seq(Segments \cup {None})]
      /\ Running' = Running
  BY <1>5 DEF IInv, Shapes, Waiting, Running
<1>7. Progress'
  BY <1>2, <1>3, <1>4, <1>5, NetsLength DEF IInv, Shapes, Progress
<1>8. RunningMeet' /\ RunningRecent'
  BY <1>6 DEF IInv, RunningMeet, RunningRecent
<1>9. MetRecent' /\ ReadAfterStart'
  BY <1>5, DictNames DEF IInv, Shapes, MetRecent, ReadAfterStart
<1>10. \A c \in Builds : \A i \in 1 .. Len(held'[c]) :
         \/ c = b /\ held'[c][i] = d
         \/ i \in 1 .. Len(held[c]) /\ held'[c][i] = held[c][i]
  BY <1>1, <1>2, <1>3, <1>4 DEF IInv, Shapes, Progress
<1>11. ReadByAPeer'
  BY <1>10 DEF IInv, ReadByAPeer, StartedTooOld
<1>12. \A c \in Builds : \A i \in 1 .. Len(held'[c]) : dicts[held'[c][i]] \in Contents
  BY <1>10 DEF IInv, DictsRead
<1>13. \A c \in Builds : at'[c] = "insert" => at[c] = "insert" /\ step'[c] = step[c]
  BY <1>5 DEF IInv, Shapes
<1>14. NoOlderThanASlot'
  BY DEF IInv, NoOlderThanASlot, StartedTooOld
<1> QED
  BY <1>4, <1>6, <1>7, <1>8, <1>9, <1>11, <1>12, <1>13, <1>14

LEMMA HitIInv == ASSUME IInv, NEW b \in Builds, Hit(b) PROVE IInv'
<1> DEFINE d == cache[Network(b)]
<1>1. b \in Running /\ Network(b) \in Networks
  BY NetworkType DEF Hit, Running, Waiting
<1>2. d \in Dicts /\ dicts[d] \in Contents
  BY <1>1 DEF Hit, IInv, Shapes, DictsRead
<1>3. StartedTooOld(b) => d[1] \in met[b] \cup {b}
  BY <1>1 DEF Hit, IInv, CacheOfPeers
<1>4. Found(b, d) /\ at[b] \in {"lookup", "insert"} /\ UNCHANGED <<now, dicts, started, sent, met>>
  BY DEF Hit
<1> HIDE DEF d
<1>5. /\ at' \in [Builds -> Waiting \cup {"new", "done", "raised"}]
      /\ step' \in [Builds -> Nat] /\ held' \in [Builds -> Seq(Dicts)]
      /\ answers' \in [Builds -> Seq(Segments \cup {None})]
      /\ Running' = Running
      /\ (Progress /\ RunningMeet /\ RunningRecent /\ MetRecent /\ ReadByAPeer)'
      /\ \A c \in Builds : \A i \in 1 .. Len(held'[c]) : dicts[held'[c][i]] \in Contents
      /\ \A c \in Builds : at'[c] = "insert" => at[c] = "insert" /\ step'[c] = step[c]
      /\ (ReadAfterStart /\ NoOlderThanASlot)'
  BY <1>2, <1>3, <1>4, FoundKeeps
<1>6. Shapes'
  BY <1>5 DEF Hit, IInv, Shapes
<1>7. CacheOfPeers'
  BY <1>5 DEF Hit, IInv, CacheOfPeers, StartedTooOld
<1>8. DictsRead'
  BY <1>5 DEF Hit, IInv, DictsRead
<1> QED
  BY <1>5, <1>6, <1>7, <1>8 DEF IInv

(* What a build inserts is its own, and all that run with it know it. *)
LEMMA InsertIInv == ASSUME IInv, NEW b \in Builds, Insert(b) PROVE IInv'
<1> DEFINE d == <<b, step[b]>>
<1>1. b \in Running /\ Network(b) \in Networks
  BY NetworkType DEF Insert, Running, Waiting
<1>2. d \in Dicts /\ dicts[d] \in Contents /\ d[1] = b
  BY DictNames DEF Insert, IInv, Progress, DictsRead
<1>3. /\ Found(b, d) /\ at[b] \in {"lookup", "insert"}
      /\ UNCHANGED <<now, dicts, started, sent, met>>
      /\ cache' = [cache EXCEPT ![Network(b)] = d]
  BY DEF Insert
<1> HIDE DEF d
<1>4. /\ at' \in [Builds -> Waiting \cup {"new", "done", "raised"}]
      /\ step' \in [Builds -> Nat] /\ held' \in [Builds -> Seq(Dicts)]
      /\ answers' \in [Builds -> Seq(Segments \cup {None})]
      /\ Running' = Running
      /\ (Progress /\ RunningMeet /\ RunningRecent /\ MetRecent /\ ReadByAPeer)'
      /\ \A c \in Builds : \A i \in 1 .. Len(held'[c]) : dicts[held'[c][i]] \in Contents
      /\ \A c \in Builds : at'[c] = "insert" => at[c] = "insert" /\ step'[c] = step[c]
      /\ (ReadAfterStart /\ NoOlderThanASlot)'
  BY <1>2, <1>3, FoundKeeps
<1>5. Shapes'
  BY <1>1, <1>2, <1>3, <1>4 DEF IInv, Shapes
<1>6. \A n \in Networks : cache'[n] = cache[n] \/ cache'[n] = d
  BY <1>1, <1>3 DEF IInv, Shapes
<1>7. CacheOfPeers'
  BY <1>1, <1>2, <1>3, <1>4, <1>6 DEF IInv, CacheOfPeers, RunningMeet, StartedTooOld, Running
<1>8. DictsRead'
  BY <1>2, <1>3, <1>4, <1>6 DEF IInv, DictsRead
<1> QED
  BY <1>4, <1>5, <1>7, <1>8 DEF IInv

(* Steps that only move a build on: the others see nothing of it. *)
LEMMA MissIInv == ASSUME IInv, NEW b \in Builds, Miss(b) PROVE IInv'
<1>1. Running' = Running
  BY DEF Miss, Goto, IInv, Shapes, Running, Waiting
<1>2. Shapes' /\ Progress'
  BY DEF Miss, Goto, IInv, Shapes, Waiting, Progress
<1>3. (RunningMeet /\ RunningRecent /\ CacheOfPeers /\ ReadByAPeer /\ NoOlderThanASlot)'
  BY <1>1 DEF Miss, IInv, RunningMeet, RunningRecent, CacheOfPeers, ReadByAPeer,
              NoOlderThanASlot, StartedTooOld
<1>4. (MetRecent /\ DictsRead /\ ReadAfterStart)'
  BY DEF Miss, Goto, IInv, Shapes, MetRecent, DictsRead, ReadAfterStart
<1> QED
  BY <1>1, <1>2, <1>3, <1>4 DEF IInv

LEMMA FailsIInv == ASSUME IInv, NEW b \in Builds, Fails(b) PROVE IInv'
<1>1. Running' \subseteq Running
  BY DEF Fails, Goto, IInv, Shapes, Running, Waiting
<1>2. Shapes' /\ Progress'
  BY DEF Fails, Goto, IInv, Shapes, Waiting, Progress
<1>3. (RunningMeet /\ RunningRecent /\ CacheOfPeers /\ ReadByAPeer /\ NoOlderThanASlot)'
  BY <1>1 DEF Fails, IInv, RunningMeet, RunningRecent, CacheOfPeers, ReadByAPeer,
              NoOlderThanASlot, StartedTooOld
<1>4. (MetRecent /\ DictsRead /\ ReadAfterStart)'
  BY DEF Fails, Goto, IInv, Shapes, MetRecent, DictsRead, ReadAfterStart
<1> QED
  BY <1>1, <1>2, <1>3, <1>4 DEF IInv

(* The clock has not left the slot of the build, or is in the next one. *)
LEMMA ReadIInv == ASSUME IInv, NEW b \in Builds, Read(b) PROVE IInv'
<1> DEFINE d == <<b, step[b]>>
           c0 == [read |-> now, segment |-> Native[Network(b)]]
<1>1. d \in Dicts /\ d[1] = b /\ b \in Running
  BY DictNames DEF Read, IInv, Progress, Running, Waiting
<1>2. c0 \in Contents /\ c0.read = now
  BY NetworkType, CacheAssumption DEF IInv, Shapes, Contents
<1>3. dicts' = [dicts EXCEPT ![d] = c0]
  BY DEF Read
<1> HIDE DEF d, c0
<1>4. Running' = Running
  BY DEF Read, Goto, IInv, Shapes, Running, Waiting
<1>5. dicts' \in [Dicts -> Contents \cup {None}] /\ dicts'[d] = c0
  BY <1>1, <1>2, <1>3 DEF IInv, Shapes
<1>6. Shapes' /\ Progress'
  BY <1>5 DEF Read, Goto, IInv, Shapes, Waiting, Progress
<1>7. (RunningMeet /\ RunningRecent /\ CacheOfPeers /\ ReadByAPeer /\ NoOlderThanASlot)'
  BY <1>4 DEF Read, IInv, RunningMeet, RunningRecent, CacheOfPeers, ReadByAPeer,
              NoOlderThanASlot, StartedTooOld
<1>8. MetRecent'
  BY DEF Read, Goto, IInv, Shapes, MetRecent
<1>9. \A e \in Dicts : dicts[e] \in Contents => dicts'[e] \in Contents
  BY <1>2, <1>3, <1>5 DEF IInv, Shapes
<1>10. DictsRead'
  <2>1. \A n \in Networks : cache'[n] # None => dicts'[cache'[n]] \in Contents
    BY <1>9 DEF Read, IInv, Shapes, DictsRead
  <2>2. \A c \in Builds : \A i \in 1 .. Len(held'[c]) : dicts'[held'[c][i]] \in Contents
    <3> SUFFICES ASSUME NEW c \in Builds, NEW i \in 1 .. Len(held[c])
                 PROVE dicts'[held[c][i]] \in Contents
      BY DEF Read
    <3>1. held[c][i] \in Dicts
      BY ElementOfSeq DEF IInv, Shapes
    <3> QED
      BY <3>1, <1>9 DEF IInv, DictsRead
  <2>3. \A c \in Builds : at'[c] = "insert" => dicts'[<<c, step'[c]>>] \in Contents
    <3> SUFFICES ASSUME NEW c \in Builds, at'[c] = "insert"
                 PROVE dicts'[<<c, step[c]>>] \in Contents
      BY DEF Read
    <3>1. CASE c = b
      BY <3>1, <1>2, <1>5 DEF d
    <3>2. CASE c # b
      <4>1. at[c] = "insert" /\ <<c, step[c]>> \in Dicts
        BY <3>2, DictNames DEF Read, Goto, IInv, Shapes, Progress
      <4> QED
        BY <4>1, <1>9 DEF IInv, DictsRead
    <3> QED
      BY <3>1, <3>2
  <2> QED
    BY <2>1, <2>2, <2>3 DEF DictsRead
<1>11. ReadAfterStart'
  <2> SUFFICES ASSUME NEW e \in Dicts, dicts'[e] # None
               PROVE at'[e[1]] # "new" /\ started[e[1]] <= dicts'[e].read
    BY DEF ReadAfterStart, Read
  <2>1. CASE e = d
    <3>1. started[b] <= now
      BY <1>1 DEF IInv, RunningRecent
    <3>2. at'[b] # "new"
      BY DEF Read, Goto, IInv, Shapes
    <3> QED
      BY <2>1, <3>1, <3>2, <1>1, <1>2, <1>5
  <2>2. CASE e # d
    <3>1. dicts'[e] = dicts[e] /\ e[1] \in Builds
      BY <2>2, <1>3, DictNames DEF IInv, Shapes
    <3>2. at[e[1]] # "new" /\ started[e[1]] <= dicts[e].read
      BY <2>2, <3>1 DEF IInv, ReadAfterStart
    <3>3. at'[e[1]] # "new"
      BY <3>1, <3>2 DEF Read, Goto, IInv, Shapes
    <3> QED
      BY <3>1, <3>2, <3>3
  <2> QED
    BY <2>1, <2>2
<1> QED
  BY <1>6, <1>7, <1>8, <1>10, <1>11 DEF IInv

(* Writing the segment into a dictionary leaves its age as it was. *)
LEMMA SegmentIInv == ASSUME IInv, NEW b \in Builds, Segment(b) PROVE IInv'
<1> DEFINE d == held[b][step[b]]
<1>1. d \in Dicts /\ dicts[d] \in Contents /\ Len(held[b]) = step[b]
  <2>1. step[b] \in 1 .. Len(held[b]) /\ Len(held[b]) = step[b]
    BY NetsLength DEF Segment, IInv, Shapes, Progress
  <2> QED
    BY <2>1, ElementOfSeq DEF IInv, Shapes, DictsRead
<1>2. PICK s \in Segments \cup {None} :
        /\ answers' = [answers EXCEPT ![b] = Append(answers[b], s)]
        /\ dicts' = IF s = None THEN dicts ELSE [dicts EXCEPT ![d].segment = s]
  BY AnswerType DEF Segment
<1>3. /\ dicts' \in [Dicts -> Contents \cup {None}]
      /\ \A e \in Dicts : dicts'[e] = dicts[e]
           \/ /\ dicts[e] \in Contents /\ dicts'[e] \in Contents
              /\ dicts'[e].read = dicts[e].read
  <2>1. CASE s = None
    BY <2>1, <1>2 DEF IInv, Shapes
  <2>2. CASE s # None
    <3> DEFINE c0 == [dicts[d] EXCEPT !.segment = s]
    <3>1. c0 \in Contents /\ c0.read = dicts[d].read
      BY <2>2, <1>1 DEF Contents
    <3>2. dicts' = [dicts EXCEPT ![d] = c0]
      BY <2>2, <1>2
    <3>3. d \in Dicts /\ dicts[d] \in Contents
      BY <1>1
    <3> HIDE DEF d, c0
    <3> QED
      BY <3>1, <3>2, <3>3 DEF IInv, Shapes
  <2> QED
    BY <2>1, <2>2
<1>4. /\ answers' \in [Builds -> Seq(Segments \cup {None})]
      /\ Len(answers'[b]) = step[b]
  BY <1>2 DEF Segment, IInv, Shapes, Progress
<1> HIDE DEF d
<1>5. \E place \in {"lookup", "cast"} :
        /\ at' = [at EXCEPT ![b] = place]
        /\ place = "lookup" => /\ step[b] < Len(Nets[b])
                               /\ step' = [step EXCEPT ![b] = step[b] + 1]
        /\ place = "cast" => step' = step
  <2>1. CASE step[b] < Len(Nets[b])
    BY <2>1 DEF Segment, Goto
  <2>2. CASE ~(step[b] < Len(Nets[b]))
    BY <2>2 DEF Segment, Goto
  <2> QED
    BY <2>1, <2>2
<1>6. /\ \A c \in Builds : at'[c] \in Waiting <=> at[c] \in Waiting
      /\ \A c \in Builds : at'[c] = "new" <=> at[c] = "new"
      /\ \A c \in Builds : at'[c] = "insert" => at[c] = "insert" /\ step'[c] = step[c]
  BY <1>5 DEF Segment, IInv, Shapes, Waiting
<1>7. Running' = Running
  BY <1>6 DEF Running
<1>8. Shapes'
  <2>1. step \in [Builds -> Nat] /\ step[b] + 1 \in Nat
        /\ at \in [Builds -> Waiting \cup {"new", "done", "raised"}]
    BY DEF IInv, Shapes
  <2>2. \A place \in {"lookup", "cast"} : place \in Waiting
    BY DEF Waiting
  <2>3. step' \in [Builds -> Nat]
    BY <1>5, <2>1
  <2>4. at' \in [Builds -> Waiting \cup {"new", "done", "raised"}]
    BY <1>5, <2>1, <2>2
  <2> QED
    BY <1>3, <1>4, <2>3, <2>4 DEF Segment, IInv, Shapes
<1>9. Progress'
  BY <1>1, <1>2, <1>4, <1>5, NetsLength DEF Segment, IInv, Shapes, Progress
<1>10. (RunningMeet /\ RunningRecent /\ CacheOfPeers /\ ReadByAPeer /\ NoOlderThanASlot)'
  BY <1>7 DEF Segment, IInv, RunningMeet, RunningRecent, CacheOfPeers, ReadByAPeer,
              NoOlderThanASlot, StartedTooOld
<1>11. MetRecent'
  BY <1>6 DEF Segment, IInv, Shapes, MetRecent
<1>12. DictsRead'
  <2>1. \A e \in Dicts : dicts[e] \in Contents => dicts'[e] \in Contents
    BY <1>3
  <2>2. \A n \in Networks : cache'[n] # None => dicts'[cache'[n]] \in Contents
    BY <2>1 DEF Segment, IInv, Shapes, DictsRead
  <2>3. \A c \in Builds : \A i \in 1 .. Len(held'[c]) : dicts'[held'[c][i]] \in Contents
    <3> SUFFICES ASSUME NEW c \in Builds, NEW i \in 1 .. Len(held[c])
                 PROVE dicts'[held[c][i]] \in Contents
      BY DEF Segment
    <3>1. held[c][i] \in Dicts
      BY ElementOfSeq DEF IInv, Shapes
    <3> QED
      BY <3>1, <2>1 DEF IInv, DictsRead
  <2>4. \A c \in Builds : at'[c] = "insert" => dicts'[<<c, step'[c]>>] \in Contents
    BY <1>6, <2>1, DictNames DEF IInv, Progress, DictsRead
  <2> QED
    BY <2>2, <2>3, <2>4 DEF DictsRead
<1>13. ReadAfterStart'
  <2> SUFFICES ASSUME NEW e \in Dicts, dicts'[e] # None
               PROVE at'[e[1]] # "new" /\ started[e[1]] <= dicts'[e].read
    BY DEF ReadAfterStart, Segment
  <2>1. dicts[e] # None /\ dicts'[e].read = dicts[e].read /\ e[1] \in Builds
    BY <1>3, DictNames, CacheAssumption
  <2> QED
    BY <2>1, <1>6 DEF IInv, ReadAfterStart
<1> QED
  BY <1>8, <1>9, <1>10, <1>11, <1>12, <1>13 DEF IInv

(* What is sent is no older than the slot before the start of the build    *)
(* that read it, and that is the sender or one that it knows.              *)
LEMMA CastIInv == ASSUME IInv, NEW b \in Builds, Cast(b) PROVE IInv'
<1> DEFINE s == [i \in 1 .. Len(held[b]) |-> dicts[held[b][i]]]
<1>1. Len(held[b]) \in Nat /\ \A i \in 1 .. Len(held[b]) : held[b][i] \in Dicts
  BY ElementOfSeq, LenProperties DEF IInv, Shapes
<1>2. \A i \in 1 .. Len(held[b]) : dicts[held[b][i]] \in Contents
  BY DEF IInv, DictsRead
<1>3. s \in Seq(Contents) /\ Len(s) = Len(held[b])
  BY <1>1, <1>2, IsASeq
<1>4. \A i \in 1 .. Len(s) : s[i] = dicts[held[b][i]]
  BY <1>3
<1>5. sent' = [sent EXCEPT ![b] = s]
  BY DEF Cast
<1> HIDE DEF s
<1>6. Running' \subseteq Running
  BY DEF Cast, Goto, IInv, Shapes, Running, Waiting
<1>7. Shapes'
  BY <1>3, <1>5 DEF Cast, Goto, IInv, Shapes, Waiting
<1>8. Progress'
  BY <1>5 DEF Cast, Goto, IInv, Shapes, Progress
<1>9. (RunningMeet /\ RunningRecent /\ CacheOfPeers /\ ReadByAPeer)'
  BY <1>6 DEF Cast, IInv, RunningMeet, RunningRecent, CacheOfPeers, ReadByAPeer, StartedTooOld
<1>10. (MetRecent /\ DictsRead /\ ReadAfterStart)'
  BY DEF Cast, Goto, IInv, Shapes, MetRecent, DictsRead, ReadAfterStart
<1>11. NoOlderThanASlot'
  <2> SUFFICES ASSUME NEW a \in Builds, StartedTooOld(a), NEW i \in 1 .. Len(sent'[a])
               PROVE sent'[a][i].read >= started[a] - 1
    BY DEF NoOlderThanASlot, StartedTooOld, Cast
  <2>1. CASE a # b
    BY <2>1, <1>5 DEF IInv, Shapes, NoOlderThanASlot
  <2>2. CASE a = b
    <3> DEFINE d == held[b][i]
    <3>1. sent'[a] = s /\ i \in 1 .. Len(held[b])
      BY <2>2, <1>3, <1>5 DEF IInv, Shapes
    <3>2. d \in Dicts /\ dicts[d] \in Contents /\ sent'[a][i] = dicts[d] /\ d[1] \in Builds
      BY <3>1, <1>1, <1>2, <1>3, <1>4, DictNames
    <3>3. started[d[1]] <= dicts[d].read
      BY <3>2, CacheAssumption DEF IInv, ReadAfterStart
    <3>4. d[1] = b \/ started[b] <= started[d[1]] + 1
      BY <2>2, <3>1 DEF IInv, ReadByAPeer, MetRecent
    <3>5. started[b] \in Int /\ started[d[1]] \in Int /\ dicts[d].read \in Int
      BY <3>2, CacheAssumption DEF IInv, Shapes, Contents
    <3> HIDE DEF d
    <3> QED
      BY <2>2, <3>2, <3>3, <3>4, <3>5
  <2> QED
    BY <2>1, <2>2
<1> QED
  BY <1>7, <1>8, <1>9, <1>10, <1>11 DEF IInv

LEMMA NextIInv == IInv /\ [Next]_vars => IInv'
<1> SUFFICES ASSUME IInv, [Next]_vars PROVE IInv'
  OBVIOUS
<1>1. CASE UNCHANGED vars
  BY <1>1 DEF vars, IInv, Shapes, Progress, RunningMeet, RunningRecent, MetRecent, CacheOfPeers,
              ReadByAPeer, DictsRead, ReadAfterStart, NoOlderThanASlot, Running, StartedTooOld
<1>2. CASE Tick
  BY <1>2, TickIInv
<1>3. ASSUME NEW b \in Builds,
             Start(b) \/ Hit(b) \/ Miss(b) \/ Read(b) \/ Insert(b) \/ Segment(b) \/ Cast(b)
               \/ Fails(b)
      PROVE IInv'
  BY <1>3, StartIInv, HitIInv, MissIInv, ReadIInv, InsertIInv, SegmentIInv, CastIInv, FailsIInv
<1> QED
  BY <1>1, <1>2, <1>3 DEF Next

LEMMA SpecIInv == Spec => []IInv
BY InitIInv, NextIInv, PTL DEF Spec

(* Types: a cached network always names a dictionary that some build read. *)
THEOREM TypeCorrect == Spec => []TypeOK
<1>1. IInv => TypeOK
  BY DEF IInv, Shapes, Progress, TypeOK
<1> QED
  BY <1>1, SpecIInv, PTL

(* Outside the first slot of a day, a build uses only what it or a build   *)
(* that ran while it ran has read.                                         *)
THEOREM CacheIsOfPeers == Spec => []ReadByAPeer
<1>1. IInv => ReadByAPeer
  BY DEF IInv
<1> QED
  BY <1>1, SpecIInv, PTL

(* So it sends nothing that was read before the slot that precedes its     *)
(* start.                                                                  *)
THEOREM CacheIsFresh == Spec => []NoOlderThanASlot
<1>1. IInv => NoOlderThanASlot
  BY DEF IInv
<1> QED
  BY <1>1, SpecIInv, PTL
================================================================================
