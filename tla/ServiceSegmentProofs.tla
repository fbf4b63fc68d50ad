-------------------------- MODULE ServiceSegmentProofs --------------------------
(***************************************************************************)
(* Which segments the networks of a build are sent with, for any tables    *)
(* that the lookups read and any number of builds.                         *)
(***************************************************************************)
EXTENDS ServiceCacheProofs

--------------------------------------------------------------------------------
(* Never the segment of another network.                                   *)

NetworkOf(d) == Nets[d[1]][d[2]]

(* Neutron's segment for n, or one that a lookup for n answered. *)
Known(given, n, s) ==
  \/ s = Native[n]
  \/ \E c \in Builds : \E j \in 1 .. Len(given[c]) : Nets[c][j] = n /\ given[c][j] = s

CachedUnderName == \A n \in Networks : cache[n] # None => NetworkOf(cache[n]) = n

HeldInOrder ==
  \A b \in Builds : \A i \in 1 .. Len(held[b]) : NetworkOf(held[b][i]) = Nets[b][i]

DictsKnown == \A d \in Dicts : dicts[d] # None => Known(answers, NetworkOf(d), dicts[d].segment)

SegInv == IInv /\ CachedUnderName /\ HeldInOrder /\ DictsKnown /\ SegmentOfNetwork

SegmentsKnown == \A b \in Builds : \A i \in 1 .. Len(sent[b]) : Known(answers, Nets[b][i], sent[b][i].segment)

LEMMA SegmentOfNetworkKnown == SegmentOfNetwork <=> SegmentsKnown
BY DEF SegmentOfNetwork, SegmentsKnown, Known

(* The steps that neither look a segment up nor change what is found. *)
LEMMA KeepsSegInv ==
  ASSUME SegInv, IInv', UNCHANGED <<dicts, answers, sent>>,
         \A n \in Networks : cache'[n] # None => cache'[n] = cache[n] \/ NetworkOf(cache'[n]) = n,
         \A b \in Builds : \A i \in 1 .. Len(held'[b]) :
            \/ i \in 1 .. Len(held[b]) /\ held'[b][i] = held[b][i]
            \/ NetworkOf(held'[b][i]) = Nets[b][i]
  PROVE  SegInv'
<1>1. CachedUnderName'
  BY DEF SegInv, CachedUnderName
<1>2. HeldInOrder'
  BY DEF SegInv, HeldInOrder
<1>3. DictsKnown' /\ SegmentOfNetwork'
  BY DEF SegInv, DictsKnown, SegmentOfNetwork, Known
<1> QED
  BY <1>1, <1>2, <1>3 DEF SegInv

(* A network found is held at the step it was looked up in. *)
LEMMA FoundInOrder ==
  ASSUME IInv, NEW b \in Builds, NEW d \in Dicts, Found(b, d), NetworkOf(d) = Network(b),
         at[b] \in {"lookup", "insert"}
  PROVE  \A c \in Builds : \A i \in 1 .. Len(held'[c]) :
            \/ i \in 1 .. Len(held[c]) /\ held'[c][i] = held[c][i]
            \/ NetworkOf(held'[c][i]) = Nets[c][i]
<1> DEFINE h == Append(held[b], d)
<1>1. held[b] \in Seq(Dicts) /\ Len(held[b]) = step[b] - 1
  BY DEF IInv, Shapes, Progress
<1>2. /\ Len(h) = step[b] /\ h[step[b]] = d
      /\ \A i \in 1 .. Len(held[b]) : h[i] = held[b][i]
  BY <1>1 DEF IInv, Shapes
<1>3. held' = [held EXCEPT ![b] = h]
  BY DEF Found
<1>4. \A i \in 1 .. Len(h) : i = step[b] \/ i \in 1 .. Len(held[b])
  BY <1>1, <1>2 DEF IInv, Shapes
<1> HIDE DEF h
<1> QED
  BY <1>2, <1>3, <1>4 DEF IInv, Shapes, Network

LEMMA SegmentSegInv == ASSUME SegInv, NEW b \in Builds, Segment(b) PROVE SegInv'
<1> DEFINE d == held[b][step[b]]
<1>1. IInv' /\ IInv
  BY SegmentIInv DEF SegInv
<1>2. /\ step[b] \in 1 .. Len(held[b]) /\ step[b] \in Nat
      /\ answers[b] \in Seq(Segments \cup {None}) /\ Len(answers[b]) = step[b] - 1
  BY NetsLength DEF Segment, SegInv, IInv, Shapes, Progress
<1>3. d \in Dicts /\ dicts[d] \in Contents /\ NetworkOf(d) = Nets[b][step[b]]
  BY <1>2, ElementOfSeq DEF SegInv, IInv, Shapes, DictsRead, HeldInOrder
<1>4. PICK s \in Segments \cup {None} :
        /\ answers' = [answers EXCEPT ![b] = Append(answers[b], s)]
        /\ dicts' = IF s = None THEN dicts ELSE [dicts EXCEPT ![d].segment = s]
  BY AnswerType DEF Segment
<1>5. /\ Len(answers'[b]) = step[b] /\ answers'[b][step[b]] = s
      /\ \A j \in 1 .. Len(answers[b]) : j \in 1 .. Len(answers'[b]) /\ answers'[b][j] = answers[b][j]
      /\ \A c \in Builds : c # b => answers'[c] = answers[c]
  BY <1>2, <1>4 DEF SegInv, IInv, Shapes
<1>6. ASSUME NEW n, NEW t, Known(answers, n, t)
      PROVE  Known(answers', n, t)
  BY <1>5, <1>6 DEF Known
<1>7. Known(answers', NetworkOf(d), s)
  BY <1>2, <1>3, <1>5 DEF Known
<1>8. DictsKnown'
  <2> SUFFICES ASSUME NEW e \in Dicts, dicts'[e] # None
               PROVE  Known(answers', NetworkOf(e), dicts'[e].segment)
    BY DEF DictsKnown
  <2>1. CASE s = None \/ e # d
    <3>1. dicts'[e] = dicts[e]
      BY <1>3, <1>4, <2>1 DEF SegInv, IInv, Shapes
    <3> QED
      BY <3>1, <1>6 DEF SegInv, DictsKnown
  <2>2. CASE s # None /\ e = d
    <3>1. dicts'[e].segment = s
      BY <1>3, <1>4, <2>2 DEF SegInv, IInv, Shapes, Contents
    <3> QED
      BY <3>1, <2>2, <1>7
  <2> QED
    BY <2>1, <2>2
<1>9. SegmentOfNetwork'
  <2>1. SegmentsKnown'
    BY <1>6, SegmentOfNetworkKnown DEF SegInv, SegmentsKnown, Segment
  <2> QED
    BY <2>1 DEF SegmentOfNetwork, SegmentsKnown, Known
<1>10. CachedUnderName' /\ HeldInOrder'
  BY DEF SegInv, CachedUnderName, HeldInOrder, Segment
<1> QED
  BY <1>1, <1>8, <1>9, <1>10 DEF SegInv

LEMMA ReadSegInv == ASSUME SegInv, NEW b \in Builds, Read(b) PROVE SegInv'
<1> DEFINE d  == <<b, step[b]>>
           c0 == [read |-> now, segment |-> Native[Network(b)]]
<1>1. IInv'
  BY ReadIInv DEF SegInv
<1>2. d \in Dicts /\ NetworkOf(d) = Network(b)
  BY DictNames DEF Read, SegInv, IInv, Progress, NetworkOf, Network
<1>3. dicts' = [dicts EXCEPT ![d] = c0] /\ c0.segment = Native[Network(b)]
  BY DEF Read
<1> HIDE DEF d, c0
<1>4. answers' = answers
  BY DEF Read
<1>5. DictsKnown'
  <2> SUFFICES ASSUME NEW e \in Dicts, dicts'[e] # None
               PROVE  Known(answers, NetworkOf(e), dicts'[e].segment)
    BY <1>4 DEF DictsKnown
  <2>1. CASE e = d
    BY <1>2, <1>3, <2>1 DEF SegInv, IInv, Shapes, Known
  <2>2. CASE e # d
    BY <1>3, <2>2 DEF SegInv, IInv, Shapes, DictsKnown
  <2> QED
    BY <2>1, <2>2
<1>6. CachedUnderName' /\ HeldInOrder' /\ SegmentOfNetwork'
  BY DEF SegInv, CachedUnderName, HeldInOrder, SegmentOfNetwork, Read
<1> QED
  BY <1>1, <1>5, <1>6 DEF SegInv

LEMMA CastSegInv == ASSUME SegInv, NEW b \in Builds, Cast(b) PROVE SegInv'
<1> DEFINE s == [i \in 1 .. Len(held[b]) |-> dicts[held[b][i]]]
<1>1. IInv' /\ IInv
  BY CastIInv DEF SegInv
<1>2. Len(held[b]) \in Nat /\ \A i \in 1 .. Len(held[b]) : held[b][i] \in Dicts
  BY ElementOfSeq, LenProperties DEF SegInv, IInv, Shapes
<1>3. \A i \in 1 .. Len(held[b]) : dicts[held[b][i]] \in Contents /\ dicts[held[b][i]] # None
  BY CacheAssumption DEF SegInv, IInv, DictsRead
<1>4. sent' = [sent EXCEPT ![b] = s] /\ Len(s) = Len(held[b])
  BY <1>2 DEF Cast
<1>5. \A i \in 1 .. Len(s) : s[i] = dicts[held[b][i]]
  BY <1>4
<1>6. \A i \in 1 .. Len(held[b]) : Known(answers, Nets[b][i], dicts[held[b][i]].segment)
  <2> TAKE i \in 1 .. Len(held[b])
  <2>1. NetworkOf(held[b][i]) = Nets[b][i]
    BY DEF SegInv, HeldInOrder
  <2>2. Known(answers, NetworkOf(held[b][i]), dicts[held[b][i]].segment)
    BY <1>2, <1>3 DEF SegInv, DictsKnown
  <2> QED
    BY <2>1, <2>2
<1> HIDE DEF s
<1>7. answers' = answers
  BY DEF Cast
<1>8. SegmentsKnown'
  <2> SUFFICES ASSUME NEW c \in Builds, NEW i \in 1 .. Len(sent'[c])
               PROVE  Known(answers, Nets[c][i], sent'[c][i].segment)
    BY <1>7 DEF SegmentsKnown
  <2>1. CASE c = b
    <3>1. sent'[c] = s /\ i \in 1 .. Len(held[b])
      BY <1>4, <2>1 DEF SegInv, IInv, Shapes
    <3> QED
      BY <3>1, <2>1, <1>4, <1>5, <1>6
  <2>2. CASE c # b
    <3>1. sent'[c] = sent[c]
      BY <1>4, <2>2 DEF SegInv, IInv, Shapes
    <3> QED
      BY <3>1, SegmentOfNetworkKnown DEF SegInv, SegmentsKnown
  <2> QED
    BY <2>1, <2>2
<1>9. SegmentOfNetwork'
  BY <1>8 DEF SegmentOfNetwork, SegmentsKnown, Known
<1>10. CachedUnderName' /\ HeldInOrder' /\ DictsKnown'
  BY <1>7 DEF SegInv, CachedUnderName, HeldInOrder, DictsKnown, Cast
<1> QED
  BY <1>1, <1>9, <1>10 DEF SegInv

LEMMA NextSegInv == SegInv /\ [Next]_vars => SegInv'
<1> SUFFICES ASSUME SegInv, [Next]_vars PROVE SegInv'
  OBVIOUS
<1>1. IInv' /\ IInv
  BY NextIInv DEF SegInv
<1>2. CASE UNCHANGED vars
  BY <1>1, <1>2, KeepsSegInv DEF vars
<1>3. CASE Tick
  BY <1>1, <1>3, KeepsSegInv DEF Tick
<1>4. ASSUME NEW b \in Builds, Start(b) PROVE SegInv'
  BY <1>1, <1>4, KeepsSegInv DEF Start
<1>5. ASSUME NEW b \in Builds, Hit(b) PROVE SegInv'
  <2> DEFINE d == cache[Network(b)]
  <2>1. d \in Dicts /\ NetworkOf(d) = Network(b)
    BY <1>5, NetworkType DEF Hit, SegInv, IInv, Shapes, CachedUnderName
  <2>2. Found(b, d) /\ at[b] = "lookup" /\ UNCHANGED <<dicts, cache, sent>>
    BY <1>5 DEF Hit
  <2> HIDE DEF d
  <2>3. answers' = answers
    BY <2>2 DEF Found
  <2> QED
    BY <1>1, <2>1, <2>2, <2>3, FoundInOrder, KeepsSegInv
<1>6. ASSUME NEW b \in Builds, Insert(b) PROVE SegInv'
  <2> DEFINE d == <<b, step[b]>>
  <2>1. d \in Dicts /\ NetworkOf(d) = Network(b)
    BY DictNames DEF SegInv, IInv, Progress, NetworkOf, Network
  <2>2. /\ Found(b, d) /\ at[b] = "insert" /\ UNCHANGED <<dicts, sent>>
        /\ cache' = [cache EXCEPT ![Network(b)] = d]
    BY <1>6 DEF Insert
  <2> HIDE DEF d
  <2>3. answers' = answers
    BY <2>2 DEF Found
  <2>4. \A n \in Networks : cache'[n] = cache[n] \/ (cache'[n] = d /\ n = Network(b))
    BY <2>2 DEF SegInv, IInv, Shapes
  <2> QED
    BY <1>1, <2>1, <2>2, <2>3, <2>4, FoundInOrder, KeepsSegInv
<1>7. ASSUME NEW b \in Builds, Miss(b) \/ Fails(b) PROVE SegInv'
  BY <1>1, <1>7, KeepsSegInv DEF Miss, Fails
<1>8. ASSUME NEW b \in Builds, Read(b) \/ Segment(b) \/ Cast(b) PROVE SegInv'
  BY <1>8, ReadSegInv, SegmentSegInv, CastSegInv
<1> QED
  BY <1>2, <1>3, <1>4, <1>5, <1>6, <1>7, <1>8 DEF Next

LEMMA SpecSegInv == Spec => []SegInv
<1>1. Init => SegInv
  BY InitIInv DEF Init, SegInv, CachedUnderName, HeldInOrder, DictsKnown, SegmentOfNetwork
<1> QED
  BY <1>1, NextSegInv, PTL DEF Spec

(* Whatever is written into dictionaries that builds share, a network is   *)
(* sent with Neutron's segment or with one that a lookup for that network  *)
(* answered.                                                               *)
THEOREM SegmentsStayApart == Spec => []SegmentOfNetwork
<1>1. SegInv => SegmentOfNetwork
  BY DEF SegInv
<1> QED
  BY <1>1, SpecSegInv, PTL

--------------------------------------------------------------------------------
(* A build that threw the caches away and overlaps no other one has its    *)
(* own answers in its dictionaries.                                        *)

(* Entry j of a build's answers is the last for network n. *)
IsLast(nets, given, n, j) ==
  /\ nets[j] = n /\ given[j] # None
  /\ \A k \in j + 1 .. Len(given) : nets[k] = n => given[k] = None

LEMMA LastAnswerIs ==
  ASSUME NEW nets, NEW S, NEW given \in Seq(S), NEW n,
         NEW j \in 1 .. Len(given), IsLast(nets, given, n, j)
  PROVE  LastAnswer(nets, given, n) = given[j]
<1>1. Len(given) \in Nat
  BY LenProperties
<1>2. \A k \in 1 .. Len(given) : IsLast(nets, given, n, k) => k = j
  BY <1>1 DEF IsLast
<1> DEFINE c == CHOOSE k \in 1 .. Len(given) : IsLast(nets, given, n, k)
<1>3. c \in 1 .. Len(given) /\ IsLast(nets, given, n, c)
  OBVIOUS
<1>4. LastAnswer(nets, given, n) = given[c]
  BY Zenon DEF LastAnswer, IsLast
<1> QED
  BY <1>2, <1>3, <1>4

LEMMA NoLastAnswer ==
  ASSUME NEW nets, NEW given, NEW n,
         \A j \in 1 .. Len(given) : ~ IsLast(nets, given, n, j)
  PROVE  LastAnswer(nets, given, n) = Native[n]
BY Zenon DEF LastAnswer, IsLast

(* A lookup for another network, or without an answer, changes nothing. *)
LEMMA AnswerElsewhere ==
  ASSUME NEW nets, NEW S, NEW given \in Seq(S), NEW s \in S, NEW n,
         s = None \/ nets[Len(given) + 1] # n
  PROVE  LastAnswer(nets, Append(given, s), n) = LastAnswer(nets, given, n)
<1> DEFINE more == Append(given, s)
<1>1. /\ more \in Seq(S) /\ Len(given) \in Nat /\ Len(more) = Len(given) + 1
      /\ more[Len(given) + 1] = s
      /\ \A j \in 1 .. Len(given) : more[j] = given[j]
  OBVIOUS
<1> HIDE DEF more
<1>2. \A j \in 1 .. Len(given) : IsLast(nets, more, n, j) <=> IsLast(nets, given, n, j)
  BY <1>1 DEF IsLast
<1>3. ~ IsLast(nets, more, n, Len(given) + 1)
  BY <1>1 DEF IsLast
<1>4. CASE \E j \in 1 .. Len(given) : IsLast(nets, given, n, j)
  <2>1. PICK j \in 1 .. Len(given) : IsLast(nets, given, n, j)
    BY <1>4
  <2>2. LastAnswer(nets, given, n) = given[j]
    BY <2>1, LastAnswerIs
  <2>3. LastAnswer(nets, more, n) = more[j]
    BY <1>1, <1>2, <2>1, LastAnswerIs
  <2> QED
    BY <1>1, <2>2, <2>3 DEF more
<1>5. CASE \A j \in 1 .. Len(given) : ~ IsLast(nets, given, n, j)
  <2>1. \A j \in 1 .. Len(more) : ~ IsLast(nets, more, n, j)
    BY <1>1, <1>2, <1>3, <1>5
  <2> QED
    BY <1>5, <2>1, NoLastAnswer DEF more
<1> QED
  BY <1>4, <1>5

(* The answer of a lookup for n is the last one for n. *)
LEMMA AnswerHere ==
  ASSUME NEW nets, NEW S, NEW given \in Seq(S), NEW s \in S, s # None,
         NEW n, nets[Len(given) + 1] = n
  PROVE  LastAnswer(nets, Append(given, s), n) = s
<1> DEFINE more == Append(given, s)
<1>1. /\ more \in Seq(S) /\ Len(given) \in Nat /\ Len(more) = Len(given) + 1
      /\ more[Len(given) + 1] = s
  OBVIOUS
<1> HIDE DEF more
<1>2. IsLast(nets, more, n, Len(given) + 1)
  BY <1>1 DEF IsLast
<1>3. LastAnswer(nets, more, n) = s
  BY <1>1, <1>2, LastAnswerIs
<1> QED
  BY <1>3 DEF more

Alone(b) == at[b] \in Waiting /\ StartedTooOld(b) /\ met[b] = {}

AnswerFor(b, n) == LastAnswer(Nets[b], answers[b], n)

CacheIsAnswered(b) ==
  \A n \in Networks : cache[n] # None => dicts[cache[n]].segment = AnswerFor(b, n)

HoldsCached(b) == \A i \in 1 .. Len(held[b]) : held[b][i] = cache[Nets[b][i]]

ReadsAfresh(b) ==
  /\ at[b] \in {"reading", "insert"} => cache[Network(b)] = None
  /\ at[b] = "insert" => dicts[<<b, step[b]>>].segment = Native[Network(b)]

Own(b) == CacheIsAnswered(b) /\ HoldsCached(b) /\ ReadsAfresh(b)

OwnInv == SegInv /\ (\A b \in Builds : Alone(b) => Own(b)) /\ OwnSegment

(* A network without a dictionary in the cache has had no answer. *)
LEMMA UncachedUnanswered ==
  ASSUME IInv, NEW b \in Builds, HoldsCached(b), NEW n, cache[n] = None
  PROVE  AnswerFor(b, n) = Native[n]
<1>1. /\ Len(answers[b]) \in Nat /\ Len(held[b]) \in Nat /\ Len(answers[b]) <= Len(held[b])
  BY LenProperties DEF IInv, Shapes, Progress
<1>2. ASSUME NEW j \in 1 .. Len(answers[b]) PROVE Nets[b][j] # n
  <2>1. j \in 1 .. Len(held[b])
    BY <1>1
  <2>2. held[b][j] \in Dicts /\ held[b][j] # None
    BY <2>1, ElementOfSeq, CacheAssumption DEF IInv, Shapes
  <2> QED
    BY <2>1, <2>2 DEF HoldsCached
<1>3. \A j \in 1 .. Len(answers[b]) : ~ IsLast(Nets[b], answers[b], n, j)
  BY <1>2 DEF IsLast
<1> QED
  BY <1>3, NoLastAnswer DEF AnswerFor

(* What another build does leaves no build alone. *)
LEMMA NoneIsAlone ==
  ASSUME IInv, NEW c \in Builds, at[c] \in Waiting, NEW b \in Builds, b # c
  PROVE  ~ Alone(b)
BY DEF IInv, RunningMeet, Running, Alone

(* A build that runs sends nothing, so the statement about those that are  *)
(* done is kept.                                                           *)
LEMMA KeepsOwnSegment ==
  ASSUME OwnInv, NEW c \in Builds, UNCHANGED <<sent, met, started>>,
         \A b \in Builds : b # c => at'[b] = at[b] /\ answers'[b] = answers[b],
         at'[c] # "done"
  PROVE  OwnSegment'
BY DEF OwnInv, OwnSegment, StartedTooOld

(* A step of a build that runs, which then only has to keep its own. *)
LEMMA RunningKeeps ==
  ASSUME OwnInv, SegInv', NEW c \in Builds, at[c] \in Waiting,
         UNCHANGED <<sent, met, started>>,
         \A b \in Builds : b # c => at'[b] = at[b] /\ answers'[b] = answers[b],
         at'[c] # "done",
         Alone(c) => Own(c)'
  PROVE  OwnInv'
<1>1. OwnSegment'
  BY KeepsOwnSegment
<1>2. ASSUME NEW b \in Builds, Alone(b)' PROVE Own(b)'
  <2>1. CASE b = c
    BY <1>2, <2>1 DEF Alone, StartedTooOld
  <2>2. CASE b # c
    <3>1. Alone(b)
      BY <1>2, <2>2 DEF Alone, StartedTooOld
    <3> QED
      BY <3>1, <2>2, NoneIsAlone DEF OwnInv, SegInv
  <2> QED
    BY <2>1, <2>2
<1> QED
  BY <1>1, <1>2 DEF OwnInv

LEMMA StartOwn == ASSUME OwnInv, SegInv', NEW b \in Builds, Start(b) PROVE OwnInv'
<1>1. /\ at[b] = "new" /\ at' = [at EXCEPT ![b] = "lookup"]
      /\ started' = [started EXCEPT ![b] = now]
      /\ \A c \in Running : b \in met'[c] \/ c = b
      /\ \A c \in Builds \ Running : c # b => met'[c] = met[c]
      /\ UNCHANGED <<dicts, step, held, answers, sent>>
      /\ TooOld => \A n \in Networks : cache'[n] = None
  BY DEF Start, Goto, Running, OwnInv, SegInv, IInv, Shapes
<1>2. OwnSegment'
  <2> SUFFICES ASSUME NEW c \in Builds, StartedTooOld(c)', met'[c] = {}, at'[c] = "done",
                      NEW i \in 1 .. Len(sent'[c])
               PROVE  sent'[c][i].segment = LastAnswer(Nets[c], answers'[c], Nets[c][i])
    BY DEF OwnSegment
  <2>1. c # b /\ at[c] = "done" /\ c \notin Running
    BY <1>1 DEF OwnInv, SegInv, IInv, Shapes, Running, Waiting
  <2>2. met[c] = {} /\ StartedTooOld(c)
    BY <1>1, <2>1 DEF StartedTooOld, OwnInv, SegInv, IInv, Shapes
  <2> QED
    BY <1>1, <2>1, <2>2 DEF OwnInv, OwnSegment
<1>3. ASSUME NEW c \in Builds, Alone(c)' PROVE Own(c)'
  <2>1. c = b
    BY <1>1, <1>3 DEF Alone, Running, OwnInv, SegInv, IInv, Shapes
  <2>2. TooOld
    BY <1>1, <1>3, <2>1 DEF Alone, StartedTooOld, TooOld, OwnInv, SegInv, IInv, Shapes
  <2>3. held[b] = <<>> /\ at'[b] = "lookup"
    BY <1>1 DEF OwnInv, SegInv, IInv, Shapes, Progress
  <2>4. CacheIsAnswered(b)'
    BY <1>1, <2>2 DEF CacheIsAnswered
  <2>5. HoldsCached(b)' /\ ReadsAfresh(b)'
    BY <1>1, <2>3 DEF HoldsCached, ReadsAfresh
  <2> QED
    BY <2>1, <2>4, <2>5 DEF Own
<1> QED
  BY <1>2, <1>3 DEF OwnInv

(* What a build finds is in the cache. *)
LEMMA FoundHoldsCached ==
  ASSUME IInv, NEW b \in Builds, at[b] \in {"lookup", "insert"}, HoldsCached(b),
         NEW d \in Dicts, Found(b, d), cache'[Network(b)] = d,
         \A i \in 1 .. Len(held[b]) : cache'[Nets[b][i]] = cache[Nets[b][i]]
  PROVE  HoldsCached(b)'
<1> DEFINE h == Append(held[b], d)
<1>1. held[b] \in Seq(Dicts) /\ Len(held[b]) = step[b] - 1 /\ step[b] \in Nat
  BY DEF IInv, Shapes, Progress
<1>2. /\ Len(h) = step[b] /\ h[step[b]] = d
      /\ \A i \in 1 .. Len(held[b]) : h[i] = held[b][i]
  BY <1>1
<1>3. held'[b] = h
  BY DEF Found, IInv, Shapes
<1>4. \A i \in 1 .. Len(h) : i = step[b] \/ i \in 1 .. Len(held[b])
  BY <1>1, <1>2
<1> HIDE DEF h
<1> QED
  BY <1>2, <1>3, <1>4 DEF HoldsCached, Network

LEMMA HitOwn == ASSUME OwnInv, SegInv', NEW b \in Builds, Hit(b) PROVE OwnInv'
<1> DEFINE d == cache[Network(b)]
<1>1. /\ at[b] = "lookup" /\ Found(b, d) /\ at' = [at EXCEPT ![b] = "segment"]
      /\ UNCHANGED <<cache, dicts, answers, sent, met, started>>
  BY DEF Hit, Found, Goto
<1>2. d \in Dicts
  BY NetworkType DEF Hit, OwnInv, SegInv, IInv, Shapes
<1>3. at'[b] = "segment" /\ \A c \in Builds : c # b => at'[c] = at[c]
  BY <1>1 DEF OwnInv, SegInv, IInv, Shapes
<1>4. ASSUME Alone(b) PROVE Own(b)'
  <2>1. CacheIsAnswered(b) /\ HoldsCached(b)
    BY <1>4 DEF OwnInv, Own
  <2>2. CacheIsAnswered(b)'
    BY <1>1, <2>1 DEF CacheIsAnswered, AnswerFor
  <2>3. HoldsCached(b)'
    BY <1>1, <1>2, <2>1, FoundHoldsCached DEF OwnInv, SegInv
  <2>4. ReadsAfresh(b)'
    BY <1>3 DEF ReadsAfresh
  <2> QED
    BY <2>2, <2>3, <2>4 DEF Own
<1> QED
  BY <1>1, <1>3, <1>4, RunningKeeps DEF Waiting

LEMMA MissOwn == ASSUME OwnInv, SegInv', NEW b \in Builds, Miss(b) PROVE OwnInv'
<1>1. /\ at[b] = "lookup" /\ at' = [at EXCEPT ![b] = "reading"]
      /\ cache[Network(b)] = None
      /\ UNCHANGED <<cache, dicts, step, held, answers, sent, met, started>>
  BY DEF Miss, Goto
<1>2. at'[b] = "reading" /\ \A c \in Builds : c # b => at'[c] = at[c]
  BY <1>1 DEF OwnInv, SegInv, IInv, Shapes
<1>3. ASSUME Alone(b) PROVE Own(b)'
  <2>1. CacheIsAnswered(b)' /\ HoldsCached(b)'
    BY <1>1, <1>3 DEF OwnInv, Own, CacheIsAnswered, HoldsCached, AnswerFor
  <2>2. ReadsAfresh(b)'
    BY <1>1, <1>2 DEF ReadsAfresh, Network
  <2> QED
    BY <2>1, <2>2 DEF Own
<1> QED
  BY <1>1, <1>2, <1>3, RunningKeeps DEF Waiting

LEMMA FailsOwn == ASSUME OwnInv, SegInv', NEW b \in Builds, Fails(b) PROVE OwnInv'
<1>1. /\ at[b] \in Waiting /\ at' = [at EXCEPT ![b] = "raised"]
      /\ UNCHANGED <<cache, dicts, step, held, answers, sent, met, started>>
  BY DEF Fails, Goto
<1>2. at'[b] = "raised" /\ \A c \in Builds : c # b => at'[c] = at[c]
  BY <1>1 DEF OwnInv, SegInv, IInv, Shapes
<1>3. ASSUME Alone(b) PROVE Own(b)'
  BY <1>1, <1>2, <1>3 DEF OwnInv, Own, CacheIsAnswered, HoldsCached, AnswerFor, ReadsAfresh
<1> QED
  BY <1>1, <1>2, <1>3, RunningKeeps

LEMMA ReadOwn == ASSUME OwnInv, SegInv', NEW b \in Builds, Read(b) PROVE OwnInv'
<1> DEFINE d  == <<b, step[b]>>
           c0 == [read |-> now, segment |-> Native[Network(b)]]
<1>1. /\ at[b] = "reading" /\ at' = [at EXCEPT ![b] = "insert"]
      /\ dicts' = [dicts EXCEPT ![d] = c0]
      /\ UNCHANGED <<cache, step, held, answers, sent, met, started>>
  BY DEF Read, Goto
<1>2. at'[b] = "insert" /\ \A c \in Builds : c # b => at'[c] = at[c]
  BY <1>1 DEF OwnInv, SegInv, IInv, Shapes
<1>3. d \in Dicts /\ NetworkOf(d) = Network(b)
  BY DictNames DEF OwnInv, SegInv, IInv, Progress, NetworkOf, Network
<1>4. dicts'[d].segment = Native[Network(b)] /\ \A e \in Dicts : e # d => dicts'[e] = dicts[e]
  BY <1>1, <1>3 DEF OwnInv, SegInv, IInv, Shapes
<1>5. ASSUME Alone(b) PROVE Own(b)'
  <2>1. CacheIsAnswered(b) /\ HoldsCached(b) /\ cache[Network(b)] = None
    BY <1>1, <1>5 DEF OwnInv, Own, ReadsAfresh
  <2>2. ASSUME NEW n \in Networks, cache[n] # None PROVE cache[n] \in Dicts /\ cache[n] # d
    BY <1>3, <2>1, <2>2 DEF OwnInv, SegInv, IInv, Shapes, CachedUnderName
  <2> HIDE DEF d
  <2>3. CacheIsAnswered(b)'
    BY <1>1, <1>4, <2>1, <2>2 DEF CacheIsAnswered, AnswerFor
  <2>4. HoldsCached(b)'
    BY <1>1, <2>1 DEF HoldsCached
  <2>5. ReadsAfresh(b)'
    BY <1>1, <1>4, <2>1 DEF ReadsAfresh, Network, d
  <2> QED
    BY <2>3, <2>4, <2>5 DEF Own
<1> QED
  BY <1>1, <1>2, <1>5, RunningKeeps DEF Waiting

LEMMA InsertOwn == ASSUME OwnInv, SegInv', NEW b \in Builds, Insert(b) PROVE OwnInv'
<1> DEFINE d == <<b, step[b]>>
<1>1. /\ at[b] = "insert" /\ Found(b, d) /\ at' = [at EXCEPT ![b] = "segment"]
      /\ cache' = [cache EXCEPT ![Network(b)] = d]
      /\ UNCHANGED <<dicts, answers, sent, met, started>>
  BY DEF Insert, Found, Goto
<1>2. at'[b] = "segment" /\ \A c \in Builds : c # b => at'[c] = at[c]
  BY <1>1 DEF OwnInv, SegInv, IInv, Shapes
<1>3. d \in Dicts /\ Network(b) \in Networks
  BY DictNames, NetworkType DEF OwnInv, SegInv, IInv, Progress
<1>4. cache'[Network(b)] = d /\ \A n \in Networks : n # Network(b) => cache'[n] = cache[n]
  BY <1>1, <1>3 DEF OwnInv, SegInv, IInv, Shapes
<1>5. ASSUME Alone(b) PROVE Own(b)'
  <2>1. /\ CacheIsAnswered(b) /\ HoldsCached(b) /\ cache[Network(b)] = None
        /\ dicts[d].segment = Native[Network(b)]
    BY <1>1, <1>5 DEF OwnInv, Own, ReadsAfresh
  <2>2. AnswerFor(b, Network(b)) = Native[Network(b)]
    BY <2>1, UncachedUnanswered DEF OwnInv, SegInv
  <2> HIDE DEF d
  <2>3. CacheIsAnswered(b)'
    BY <1>1, <1>4, <2>1, <2>2 DEF CacheIsAnswered, AnswerFor
  <2>4. ASSUME NEW i \in 1 .. Len(held[b]) PROVE cache'[Nets[b][i]] = cache[Nets[b][i]]
    <3>1. held[b][i] \in Dicts /\ held[b][i] # None
      BY ElementOfSeq, CacheAssumption DEF OwnInv, SegInv, IInv, Shapes
    <3>2. Nets[b][i] # Network(b)
      BY <2>1, <3>1 DEF HoldsCached
    <3>3. Nets[b][i] \in Networks
      <4>1. i \in 1 .. Len(Nets[b])
        BY NetsLength, LenProperties DEF OwnInv, SegInv, IInv, Shapes, Progress
      <4> QED
        BY <4>1, NetsLength, ElementOfSeq
    <3> QED
      BY <1>4, <3>2, <3>3
  <2>5. HoldsCached(b)'
    BY <1>1, <1>3, <1>4, <2>1, <2>4, FoundHoldsCached DEF OwnInv, SegInv
  <2>6. ReadsAfresh(b)'
    BY <1>2 DEF ReadsAfresh
  <2> QED
    BY <2>3, <2>5, <2>6 DEF Own
<1> QED
  BY <1>1, <1>2, <1>5, RunningKeeps DEF Waiting

LEMMA SegmentOwn == ASSUME OwnInv, SegInv', NEW b \in Builds, Segment(b) PROVE OwnInv'
<1> DEFINE d == held[b][step[b]]
           n == Network(b)
<1>1. /\ at[b] = "segment"
      /\ UNCHANGED <<cache, held, sent, met, started>>
      /\ at' = [at EXCEPT ![b] = "lookup"] \/ at' = [at EXCEPT ![b] = "cast"]
  BY DEF Segment, Goto
<1>2. at'[b] \in {"lookup", "cast"} /\ \A c \in Builds : c # b => at'[c] = at[c]
  BY <1>1 DEF OwnInv, SegInv, IInv, Shapes
<1>3. /\ step[b] \in 1 .. Len(held[b]) /\ step[b] \in Nat
      /\ answers[b] \in Seq(Segments \cup {None}) /\ Len(answers[b]) + 1 = step[b]
  <2>1. /\ step[b] \in Nat /\ Len(held[b]) = step[b] /\ Len(answers[b]) = step[b] - 1
        /\ step[b] \in 1 .. Len(Nets[b]) /\ answers[b] \in Seq(Segments \cup {None})
    BY <1>1 DEF OwnInv, SegInv, IInv, Shapes, Progress
  <2> QED
    BY <2>1, NetsLength
<1>4. d \in Dicts /\ dicts[d] \in Contents /\ NetworkOf(d) = n
  BY <1>3, ElementOfSeq DEF OwnInv, SegInv, IInv, Shapes, DictsRead, HeldInOrder, Network
<1>5. PICK s \in Segments \cup {None} :
        /\ answers' = [answers EXCEPT ![b] = Append(answers[b], s)]
        /\ dicts' = IF s = None THEN dicts ELSE [dicts EXCEPT ![d].segment = s]
  BY AnswerType DEF Segment
<1>6. answers'[b] = Append(answers[b], s) /\ \A c \in Builds : c # b => answers'[c] = answers[c]
  BY <1>5 DEF OwnInv, SegInv, IInv, Shapes
<1>7. /\ s # None => dicts'[d].segment = s
      /\ \A e \in Dicts : s = None \/ e # d => dicts'[e] = dicts[e]
  BY <1>4, <1>5 DEF OwnInv, SegInv, IInv, Shapes, Contents
<1>8. ASSUME Alone(b) PROVE Own(b)'
  <2>1. CacheIsAnswered(b) /\ HoldsCached(b)
    BY <1>8 DEF OwnInv, Own
  <2>2. d = cache[n]
    BY <1>3, <2>1 DEF HoldsCached, Network
  <2> DEFINE AnswerNow(m) == LastAnswer(Nets[b], Append(answers[b], s), m)
  <2>0. Nets[b][Len(answers[b]) + 1] = n
    BY <1>3 DEF Network
  <2> HIDE DEF d, n
  <2>3. ASSUME NEW m, s = None \/ m # n
        PROVE  AnswerNow(m) = AnswerFor(b, m)
    BY <1>3, <2>0, <2>3, AnswerElsewhere DEF AnswerFor
  <2>4. s # None => AnswerNow(n) = s
    BY <1>3, <2>0, AnswerHere
  <2> HIDE DEF AnswerNow
  <2>5. ASSUME NEW m \in Networks, cache[m] # None
        PROVE  dicts'[cache[m]].segment = AnswerNow(m)
    <3>1. cache[m] \in Dicts
      BY <2>5 DEF OwnInv, SegInv, IInv, Shapes
    <3>2. m # n => cache[m] # d
      BY <1>4, <2>5 DEF OwnInv, SegInv, CachedUnderName
    <3>3. CASE s = None \/ m # n
      <4>1. dicts'[cache[m]] = dicts[cache[m]]
        BY <1>7, <3>1, <3>2, <3>3
      <4> QED
        BY <2>1, <2>3, <2>5, <3>3, <4>1 DEF CacheIsAnswered
    <3>4. CASE s # None /\ m = n
      BY <1>7, <2>2, <2>4, <3>4
    <3> QED
      BY <3>3, <3>4
  <2>6. CacheIsAnswered(b)'
    BY <1>1, <1>6, <2>5 DEF CacheIsAnswered, AnswerFor, AnswerNow
  <2>7. HoldsCached(b)' /\ ReadsAfresh(b)'
    BY <1>1, <1>2, <2>1 DEF HoldsCached, ReadsAfresh
  <2> QED
    BY <2>6, <2>7 DEF Own
<1> QED
  BY <1>1, <1>2, <1>6, <1>8, RunningKeeps DEF Waiting

LEMMA CastOwn == ASSUME OwnInv, SegInv', NEW b \in Builds, Cast(b) PROVE OwnInv'
<1> DEFINE s == [i \in 1 .. Len(held[b]) |-> dicts[held[b][i]]]
<1>1. /\ at[b] = "cast" /\ at' = [at EXCEPT ![b] = "done"]
      /\ UNCHANGED <<cache, dicts, step, held, answers, met, started>>
  BY DEF Cast, Goto
<1>2. at'[b] = "done" /\ \A c \in Builds : c # b => at'[c] = at[c]
  BY <1>1 DEF OwnInv, SegInv, IInv, Shapes
<1>3. Len(held[b]) \in Nat
  BY LenProperties DEF OwnInv, SegInv, IInv, Shapes
<1>4. /\ sent'[b] = s /\ Len(s) = Len(held[b])
      /\ \A c \in Builds : c # b => sent'[c] = sent[c]
  BY <1>3 DEF Cast, OwnInv, SegInv, IInv, Shapes
<1>5. \A i \in 1 .. Len(s) : s[i] = dicts[held[b][i]]
  BY <1>4
<1> HIDE DEF s
<1>6. ASSUME Alone(b), NEW i \in 1 .. Len(held[b])
      PROVE  dicts[held[b][i]].segment = AnswerFor(b, Nets[b][i])
  <2>1. CacheIsAnswered(b) /\ HoldsCached(b)
    BY <1>6 DEF OwnInv, Own
  <2>2. held[b][i] \in Dicts /\ held[b][i] # None /\ Nets[b][i] \in Networks
    <3>1. i \in 1 .. Len(Nets[b])
      BY NetsLength, LenProperties DEF OwnInv, SegInv, IInv, Shapes, Progress
    <3> QED
      BY <3>1, NetsLength, ElementOfSeq, CacheAssumption DEF OwnInv, SegInv, IInv, Shapes
  <2> QED
    BY <2>1, <2>2 DEF CacheIsAnswered, HoldsCached
<1>7. OwnSegment'
  <2> SUFFICES ASSUME NEW c \in Builds, StartedTooOld(c)', met'[c] = {}, at'[c] = "done",
                      NEW i \in 1 .. Len(sent'[c])
               PROVE  sent'[c][i].segment = LastAnswer(Nets[c], answers'[c], Nets[c][i])
    BY DEF OwnSegment
  <2>1. StartedTooOld(c) /\ met[c] = {}
    BY <1>1 DEF StartedTooOld
  <2>2. CASE c = b
    <3>1. Alone(b) /\ i \in 1 .. Len(held[b]) /\ sent'[c][i] = dicts[held[b][i]]
      BY <1>1, <1>4, <1>5, <2>1, <2>2 DEF Alone, Waiting
    <3> QED
      BY <1>1, <1>6, <2>2, <3>1 DEF AnswerFor
  <2>3. CASE c # b
    BY <1>1, <1>2, <1>4, <2>1, <2>3 DEF OwnInv, OwnSegment
  <2> QED
    BY <2>2, <2>3
<1>8. ASSUME NEW c \in Builds PROVE ~ Alone(c)'
  <2>1. CASE c = b
    BY <1>2, <2>1 DEF Alone, Waiting
  <2>2. CASE c # b
    <3>1. ~ Alone(c)
      BY <1>1, <2>2, NoneIsAlone DEF OwnInv, SegInv, Waiting
    <3> QED
      BY <1>1, <1>2, <2>2, <3>1 DEF Alone, StartedTooOld
  <2> QED
    BY <2>1, <2>2
<1> QED
  BY <1>7, <1>8 DEF OwnInv

LEMMA NextOwnInv == OwnInv /\ [Next]_vars => OwnInv'
<1> SUFFICES ASSUME OwnInv, [Next]_vars PROVE OwnInv'
  OBVIOUS
<1>1. SegInv'
  BY NextSegInv DEF OwnInv
<1>2. CASE UNCHANGED <<cache, dicts, at, step, held, answers, started, sent, met>>
  BY <1>1, <1>2 DEF OwnInv, OwnSegment, Alone, Own, CacheIsAnswered, HoldsCached, ReadsAfresh,
                    AnswerFor, StartedTooOld, Network
<1>3. CASE Tick
  BY <1>2, <1>3 DEF Tick
<1>4. CASE UNCHANGED vars
  BY <1>2, <1>4 DEF vars
<1>5. ASSUME NEW b \in Builds, Start(b) \/ Hit(b) \/ Miss(b) \/ Read(b) PROVE OwnInv'
  BY <1>1, <1>5, StartOwn, HitOwn, MissOwn, ReadOwn
<1>6. ASSUME NEW b \in Builds, Insert(b) \/ Segment(b) \/ Cast(b) \/ Fails(b) PROVE OwnInv'
  BY <1>1, <1>6, InsertOwn, SegmentOwn, CastOwn, FailsOwn
<1> QED
  BY <1>3, <1>4, <1>5, <1>6 DEF Next

(* Outside the first slot of a day, a build that overlaps no other one     *)
(* sends what its own lookups answered: whatever earlier builds wrote into *)
(* the dictionaries, it holds none of those.                               *)
THEOREM AloneSendsItsAnswers == Spec => []OwnSegment
<1>1. Init => SegInv
  BY InitIInv DEF Init, SegInv, CachedUnderName, HeldInOrder, DictsKnown, SegmentOfNetwork
<1>2. Init => OwnInv
  BY <1>1 DEF Init, OwnInv, OwnSegment, Alone, Waiting
<1>3. OwnInv => OwnSegment
  BY DEF OwnInv
<1> QED
  BY <1>2, <1>3, NextOwnInv, PTL DEF Spec
================================================================================
