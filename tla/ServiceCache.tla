------------------------------ MODULE ServiceCache ------------------------------
(***************************************************************************)
(* The network cache of LBaaSv2ServiceBuilder (service_builder.py) and the *)
(* builds that share it.  A cached network is a Python dictionary that all *)
(* the builds which find it hold, and that build() itself writes: it puts  *)
(* the segment that it looked up into it, for the VIP's network and again  *)
(* for the network of each member.  The builds run on green threads, so    *)
(* another one runs whenever a build waits for the database.  The subnet   *)
(* cache is looked up and filled the same way, and nothing writes into a   *)
(* cached subnet.                                                          *)
(*                                                                         *)
(* Time is counted in slots of NET_CACHE_SECONDS since the epoch.  The age *)
(* of the cache is (now - epoch).seconds, which is the time of the day,    *)
(* for last_cache_update is the epoch for ever: only the first slot of a   *)
(* day is not "> NET_CACHE_SECONDS".                                       *)
(***************************************************************************)
EXTENDS SegmentLookup

CONSTANTS
  Builds,         \* calls of build()
  Nets,           \* the networks a build looks up: the VIP's, then the members'
  VipPort,        \* the VIP's port of a build's load balancer
  Usable,         \* the segments that the agent of a build can use
  Native,         \* the segment that Neutron reports for a network
  Hierarchical,   \* unlegacy_setting_placeholder_driver_side
  Day,            \* slots of a day
  MaxTime         \* bound on the clock

(* A dictionary is named by the build that read it and the step it was in. *)
Dicts == UNION {{b} \X (1 .. Len(Nets[b])) : b \in Builds}

Contents == [read : 0 .. MaxTime, segment : Segments]

ASSUME CacheAssumption ==
  /\ Nets \in [Builds -> Seq(Networks) \ {<<>>}]
  /\ Native \in [Networks -> Segments]
  /\ VipPort \in [Builds -> Ports]
  /\ Usable \in [Builds -> SUBSET Segments]
  /\ Hierarchical \in BOOLEAN
  /\ None \notin Dicts \cup Contents
  /\ Day \in Nat \ {0} /\ MaxTime \in Nat

VARIABLES
  now,
  cache,        \* self.net_cache: network -> dictionary
  dicts,        \* the dictionaries: [read : when Neutron read it, segment]
  at,           \* where each build is
  step,         \* which network it is looking up
  held,         \* the dictionaries it has found so far
  answers,      \* what its lookups of segments answered so far
  started,      \* the slot in which it started
  sent,         \* what was sent of the networks of a finished build
  met           \* for each build, the other builds that ran while it ran

vars == <<now, cache, dicts, at, step, held, answers, started, sent, met>>

Waiting == {"lookup", "reading", "insert", "segment", "cast"}

TypeOK ==
  /\ now \in 0 .. MaxTime
  /\ cache \in [Networks -> Dicts \cup {None}]
  /\ dicts \in [Dicts -> Contents \cup {None}]
  /\ at \in [Builds -> Waiting \cup {"new", "done", "raised"}]
  /\ \A b \in Builds :
       /\ step[b] \in 1 .. Len(Nets[b])
       /\ held[b] \in Seq(Dicts) /\ Len(held[b]) <= Len(Nets[b])
       /\ answers[b] \in Seq(Segments \cup {None}) /\ Len(answers[b]) <= Len(held[b])
       /\ sent[b] \in Seq(Contents)
  /\ started \in [Builds -> 0 .. MaxTime]
  /\ met \in [Builds -> SUBSET Builds]

Init ==
  /\ now = 0
  /\ cache = [n \in Networks |-> None]
  /\ dicts = [d \in Dicts |-> None]
  /\ at = [b \in Builds |-> "new"]
  /\ step = [b \in Builds |-> 1]
  /\ held = [b \in Builds |-> <<>>]
  /\ answers = [b \in Builds |-> <<>>]
  /\ started = [b \in Builds |-> 0]
  /\ sent = [b \in Builds |-> <<>>]
  /\ met = [b \in Builds |-> {}]

Running == {b \in Builds : at[b] \in Waiting}
Network(b) == Nets[b][step[b]]
Goto(b, place) == at' = [at EXCEPT ![b] = place]

(* Mutant: a threshold of two slots. *)
TooOldAfterTwo == now % Day > 1

(* (now - last_cache_update).seconds > NET_CACHE_SECONDS *)
TooOld == now % Day # 0

(* A build ends within a slot of its start. *)
Tick ==
  /\ now < MaxTime
  /\ \A b \in Running : started[b] = now
  /\ now' = now + 1
  /\ UNCHANGED <<cache, dicts, at, step, held, answers, started, sent, met>>

(* Mutants: the caches are never thrown away; they are when not too old. *)
StartKeepsCache(b) ==
  /\ at[b] = "new"
  /\ started' = [started EXCEPT ![b] = now]
  /\ met' = [c \in Builds |-> CASE c = b -> Running
                                [] c \in Running -> met[c] \cup {b}
                                [] OTHER -> met[c]]
  /\ Goto(b, "lookup")
  /\ UNCHANGED <<now, cache, dicts, step, held, answers, sent>>

StartInverted(b) ==
  /\ at[b] = "new"
  /\ cache' = IF TooOld THEN cache ELSE [n \in Networks |-> None]
  /\ started' = [started EXCEPT ![b] = now]
  /\ met' = [c \in Builds |-> CASE c = b -> Running
                                [] c \in Running -> met[c] \cup {b}
                                [] OTHER -> met[c]]
  /\ Goto(b, "lookup")
  /\ UNCHANGED <<now, dicts, step, held, answers, sent>>

(* build() up to its first wait. *)
Start(b) ==
  /\ at[b] = "new"
  /\ cache' = IF TooOld THEN [n \in Networks |-> None] ELSE cache
  /\ started' = [started EXCEPT ![b] = now]
  /\ met' = [c \in Builds |-> CASE c = b -> Running
                                [] c \in Running -> met[c] \cup {b}
                                [] OTHER -> met[c]]
  /\ Goto(b, "lookup")
  /\ UNCHANGED <<now, dicts, step, held, answers, sent>>

(* The build has its network d, and asks which segment it is to name. *)
Found(b, d) ==
  /\ held' = [held EXCEPT ![b] = Append(@, d)]
  /\ Goto(b, "segment")
  /\ UNCHANGED <<step, answers>>

(* Mutant: the membership test is left out. *)
HitUnchecked(b) ==
  /\ at[b] = "lookup"
  /\ Found(b, cache[Network(b)])
  /\ UNCHANGED <<now, cache, dicts, started, sent, met>>

(* _get_network_cached finds the network in the cache. *)
Hit(b) ==
  /\ at[b] = "lookup" /\ cache[Network(b)] # None
  /\ Found(b, cache[Network(b)])
  /\ UNCHANGED <<now, cache, dicts, started, sent, met>>

(* It does not, and asks the core plugin. *)
Miss(b) ==
  /\ at[b] = "lookup" /\ cache[Network(b)] = None
  /\ Goto(b, "reading")
  /\ UNCHANGED <<now, cache, dicts, step, held, answers, started, sent, met>>

(* The database reads the network. *)
Read(b) ==
  /\ at[b] = "reading"
  /\ dicts' = [dicts EXCEPT ![<<b, step[b]>>] =
                 [read |-> now, segment |-> Native[Network(b)]]]
  /\ Goto(b, "insert")
  /\ UNCHANGED <<now, cache, step, held, answers, started, sent, met>>

(* Mutant: a member's network is cached as the VIP's. *)
InsertAsVip(b) ==
  /\ at[b] = "insert"
  /\ cache' = [cache EXCEPT ![Nets[b][1]] = <<b, step[b]>>]
  /\ Found(b, <<b, step[b]>>)
  /\ UNCHANGED <<now, dicts, started, sent, met>>

(* get_network returns; the dictionary goes into whichever cache there is  *)
(* now, over what another build may have put there.                        *)
Insert(b) ==
  /\ at[b] = "insert"
  /\ cache' = [cache EXCEPT ![Network(b)] = <<b, step[b]>>]
  /\ Found(b, <<b, step[b]>>)
  /\ UNCHANGED <<now, dicts, started, sent, met>>

(* What the lookup of a build for its network d may answer.  get_segment_id*)
(* swallows every exception and answers None.  Outside the hierarchical    *)
(* mode a member's lookup goes by an empty agent configuration, which only *)
(* a network of type opflex suits: a VLAN has a physical network.          *)
VipAnswers(b, d) ==
  IF Hierarchical THEN {GetSegmentId(VipPort[b]), None}
  ELSE {GetNetworkSegment(Network(b), dicts[d].segment, Usable[b])}

MemberAnswers(b, d) ==
  IF Hierarchical
    THEN {MemberSegment(Network(b), raised) : raised \in SUBSET DOMAIN GetAgentsHostsInEnv}
  ELSE {GetNetworkSegment(Network(b), dicts[d].segment, {})}

(* Nothing is looked up for a member whose address several ports have.     *)
Answers(b, d) ==
  IF step[b] = 1 THEN VipAnswers(b, d) ELSE MemberAnswers(b, d) \cup {None}

(* The lookup returns, and its answer, if it has one, is written into the  *)
(* shared dictionary.                                                      *)
Segment(b) ==
  /\ at[b] = "segment"
  /\ \E s \in Answers(b, held[b][step[b]]) :
       /\ answers' = [answers EXCEPT ![b] = Append(@, s)]
       /\ dicts' = IF s = None THEN dicts ELSE [dicts EXCEPT ![held[b][step[b]]].segment = s]
  /\ IF step[b] < Len(Nets[b])
       THEN Goto(b, "lookup") /\ step' = [step EXCEPT ![b] = @ + 1]
       ELSE Goto(b, "cast") /\ UNCHANGED step
  /\ UNCHANGED <<now, cache, held, started, sent, met>>

(* The rest of the service has been read and the cast serialises it: the   *)
(* networks go out as their dictionaries are now.                          *)
Cast(b) ==
  /\ at[b] = "cast"
  /\ sent' = [sent EXCEPT ![b] = [i \in 1 .. Len(held[b]) |-> dicts[held[b][i]]]]
  /\ Goto(b, "done")
  /\ UNCHANGED <<now, cache, dicts, step, held, answers, started, met>>

(* A call of a build raises; what it cached stays. *)
Fails(b) ==
  /\ at[b] \in Waiting
  /\ Goto(b, "raised")
  /\ UNCHANGED <<now, cache, dicts, step, held, answers, started, sent, met>>

Next ==
  \/ Tick
  \/ \E b \in Builds :
       \/ Start(b) \/ Hit(b) \/ Miss(b) \/ Read(b) \/ Insert(b)
       \/ Segment(b) \/ Cast(b) \/ Fails(b)

Spec == Init /\ [][Next]_vars

--------------------------------------------------------------------------------
(***************************************************************************)
(* Properties                                                              *)
(***************************************************************************)

StartedTooOld(b) == started[b] % Day # 0

(* Outside the first slot of a day a build sends only what it read itself  *)
(* or what a build it overlapped read, however many caches were thrown     *)
(* away and filled again in between; so nothing older than a slot.         *)
ReadByAPeer ==
  \A b \in Builds : StartedTooOld(b) =>
    \A i \in 1 .. Len(held[b]) : held[b][i][1] \in met[b] \cup {b}

NoOlderThanASlot ==
  \A b \in Builds : StartedTooOld(b) =>
    \A i \in 1 .. Len(sent[b]) : sent[b][i].read >= started[b] - 1

(* The last answer for network n among those that a build was given. *)
LastAnswer(nets, given, n) ==
  LET Last(j) == /\ nets[j] = n /\ given[j] # None
                 /\ \A k \in j + 1 .. Len(given) : nets[k] = n => given[k] = None
  IN  IF \E j \in 1 .. Len(given) : Last(j)
        THEN given[CHOOSE j \in 1 .. Len(given) : Last(j)] ELSE Native[n]

(* Outside the first slot of a day, a build that overlapped no other one   *)
(* sends each network with the segment that its own last lookup for it     *)
(* answered, or with Neutron's if none did: what earlier builds wrote into *)
(* their dictionaries is gone.                                             *)
OwnSegment ==
  \A b \in Builds : StartedTooOld(b) /\ met[b] = {} /\ at[b] = "done" =>
    \A i \in 1 .. Len(sent[b]) : sent[b][i].segment = LastAnswer(Nets[b], answers[b], Nets[b][i])

(* A network is sent with its own segment or with one that a lookup for    *)
(* that very network answered, never with that of another network.         *)
SegmentOfNetwork ==
  \A b \in Builds : \A i \in 1 .. Len(sent[b]) :
    \/ sent[b][i].segment = Native[Nets[b][i]]
    \/ \E c \in Builds : \E j \in 1 .. Len(answers[c]) :
         Nets[c][j] = Nets[b][i] /\ answers[c][j] = sent[b][i].segment

(* "Invalidate cache if it is too old" (service_builder.py): no build      *)
(* works with a network read more than NET_CACHE_SECONDS before the slot   *)
(* of its start.                                                           *)
InvalidatedIfTooOld ==
  \A b \in Builds : \A i \in 1 .. Len(sent[b]) : sent[b][i].read >= started[b] - 1
================================================================================
