# Verification of the F5 OpenStack LBaaSv2 driver

The driver runs inside the Neutron server. Tenants' requests reach it through
neutron-lbaas; it chooses an agent for each load balancer, builds a full
description of the service from the database, and casts it to the agent's
host. Agents call back to report status, list what they host, and manage
Neutron ports. Everything durable is in the Neutron database; the driver's own
memory holds a cache and a few attributes shared by all requests.

Modules are TLA+ (`*.tla`), model-checked with TLC (`*.cfg`), and proved with
TLAPS (`*Proofs.tla`). `PROJECT.json` maps each definition to source lines.

## 1. Inventory

| Component | State | Operations | Correct when |
|---|---|---|---|
| `agent_scheduler.py` TenantScheduler | bindings load balancer -> agent (database) | `schedule`, `rebind_loadbalancers`, `scrub_dead_agents`, queries | bindings stay in the environment, move only off down agents and all together; a new one goes to an agent with room; dead agents are left |
| `driver_v2.py` LoadBalancerManager | `self.loadbalancer`, shared by its requests and read again after `schedule`; provisioning status (database) | `create`, `update`, `delete`, `stats` | no operation is stuck, no delete undone, nothing removed unasked, the agent that `schedule` named still serves at the cast |
| `driver_v2.py` other managers | `self.loadbalancer`, `self.api_dict`, shared by green threads | `create`, `update`, `delete` of six entities | an agent is told of the request's own entity |
| `plugin_rpc.py` status callbacks | status rows | `update_*_status`, `*_destroyed` of six entities | late confirmations remove nothing unasked, undo no delete, and pending entities are settled |
| `plugin_rpc.py` validation | - | `validate_*_state`, `get_pools_members` | what the agent takes off its device by them is what the database does not know |
| `plugin_rpc.py` listings | - | `get_{all,active,pending,errored}_loadbalancers`, `scrub_dead_agents`, `set_agent_admin_state` | every listing takes over dead agents' work first |
| `plugin_rpc.py` ports | Neutron ports | create by name, create on a subnet, delete, allowed address pairs | one port a name, none lost half way, pairs kept |
| `agent_rpc.py` | - | 22 casts to `topic.host` | - |
| `service_builder.py`, `disconnected_service.py` | `net_cache`, `subnet_cache`, `last_cache_update` | `build`, segment lookups | every row of the load balancer is in the definition; fresh networks, each with a segment of its own |
| `utils/environment_library.py` | two files | `generate_driver` | both files written or neither |

**Interaction.** A manager calls `scheduler.schedule` (one transaction), then
`service_builder.build` (another), then `agent_rpc` (a cast, which may be lost
or overtaken). Between the calls it waits, and another request may replace the
attributes of the manager. Agents call `plugin_rpc`, whose listings call the scheduler
again, so bindings move under a request between its steps. `_call_rpc` of the
managers and the builder's cache are shared by green threads, which switch
whenever one waits for the database. An agent that has listed a pending load
balancer fetches its definition with a call of its own. Agents confirm the load balancer and each
of its entities in separate calls, and validate what they have deployed.

**What is hard.** Bindings that move while a request is under way; requests of
one manager that overlap; restarts between schedule and cast; lost and late
messages; partial failures of sequences of core plugin calls; the boundary
score 1.0, group number 0 and the age of the cache. The list with source lines
is under "hazards" in `PROJECT.json`; each entry names the properties that
watch it, or says why none does.

## 2. Modules

| Module | Models | Instances |
|---|---|---|
| `AgentChoice` | which agents `schedule` may choose, without its loops | used by the next four |
| `ScheduleChoice` | the abstract specification: one step that makes one of the choices or refuses | implemented by `ScheduleLoop` |
| `ScheduleLoop` | lines 208-308 of `agent_scheduler.py`, an action per iteration of each loop | `ScheduleLoop.cfg` |
| `AgentScheduler` | bindings among scheduling, failover, scrubs, listings, agent failures and the operator | `MCAgentScheduler`, `GroupZero.cfg` |
| `LoadBalancerLifecycle` (extends `AgentScheduler`) | a load balancer from request to confirmation: driver calls in stages, casts, agents, callbacks | `MCLifecycle`, `UpdateStuck.cfg` |
| `StatusProtocol` | the abstract specification of `provisioning_status`: who may change it and how | implemented by `LoadBalancerLifecycle` and `ChildEntities` |
| `EntityManager` | one manager of `driver_v2.py` and the green threads that share its attributes | `MCEntityManager`, `CastMixed.cfg` |
| `ServiceTree` | what `build` finds below a load balancer: its chains of queries | extended by `ChildEntities` |
| `ChildEntities` | listeners, pools, members, monitors, policies and rules: requests, service definitions, an agent with its device, the status callbacks and the validations | `MCChildEntities` |
| `SegmentLookup` | `get_network_segment`, `get_segment_id`, and the hosts and ports they are asked for | extended by `ServiceCache` |
| `ServiceCache` | the network cache of the builder, builds that share cached dictionaries, the segments written into them | `MCServiceCache`, `CacheStale.cfg` |
| `NeutronPorts` | the agents' port calls as sequences of core plugin calls | `MCNeutronPorts`, `AddressLost.cfg` |
| `ScheduleLoopProofs`, `AgentSchedulerProofs`, `LifecycleProofs`, `EntityManagerProofs`, `ChildEntitiesProofs`, `ServiceCacheProofs`, `ServiceSegmentProofs`, `NeutronPortsProofs` | theorems of the modules they extend | - |

**State and code.** `AgentScheduler.binding` is the table
`LoadbalancerAgentBinding`; `alive`, `adminUp`, `score` are columns of the
agents table, `EnvOf` and `GroupOf` entries of an agent's `configurations`.
`LoadBalancerLifecycle.prov` is `provisioning_status`; a member of `calls` is a
driver call on a thread of one of the `Servers`, whose `at` says whether
`schedule` has returned yet; `manager` is `self.loadbalancer` of each server's
driver for each environment, from which the cast is built. Load balancers
outside `LoadBalancers` are there only by what they do to it: `OtherBegins`
replaces it, and `OtherCasts` casts to an agent of its own what another request
left in it. `tasks` and `replies` are messages, and tasks named "sync" are load balancers
that an agent has just found in `get_pending_loadbalancers`. `fell` remembers, for
one property, that the agent chosen for a call was down since. In
`EntityManager`, `loadbalancer` and `apiDict` are the manager's attributes, `at`
says in which call each thread waits, and `port` of a member's fake pool port whether
its id came back ("nameless" if not). `StatusProtocol` keeps of a load balancer or an
entity its status, whether its tenant ever asked to delete it, and whether a call
of the driver is in progress for it; `Subtree` says what goes with a row, and
`Admitted` from which statuses the API takes an update or a delete (only settled
ones for a load balancer, any for an entity, whose load balancer is what is
locked). In `ChildEntities`, `prov` is the
`provisioning_status` of each entity ("ABSENT" before and "GONE" after its row)
and `lbPending` says whether the load balancer's own is a PENDING one, which is
all that the requests of its entities ask of it; a member of `tasks` is a service
definition with the statuses of the moment it was built, cast with a request or
fetched after a listing (`via`), `device` is what the
agent has deployed. `since` and `upTo` number the requests, `leftOut` and
`unknown` record two kinds of entities that the statements except: they exist for
the properties and decide nothing. In `ServiceCache`, `dicts` is the
heap of network dictionaries, `cache` is `net_cache`, `answers` what each build's
lookups of segments have answered (none for a member whose address several ports have); `Hierarchical` is the option
`unlegacy_setting_placeholder_driver_side`. In `NeutronPorts`, a port
is named by the call that created it and `at` says which core plugin call is
next; whether the core plugin's ports have the key `allowed_address_pairs` at all is a
constant (`PairsListed`). Definitions marked as mutants in a comment are plausible mistakes; they
are used by no specification, and each property is known to catch one.

**Grain.** A method that runs in one `session.begin()` is one action. A method
that waits more than once between the shared state it reads and writes is one
action per wait. The two loops of `schedule` run inside one transaction; they
are modelled apart, in `ScheduleLoop`, and enter `AgentScheduler.Place` as the
choice they are proved to make.

**External.** neutron-lbaas in front of the driver (an update or delete is
admitted only from ACTIVE or ERROR, and what the driver raises becomes ERROR),
its database functions, the core plugin, the message bus and the agents are
modelled from how the code uses them. The object that the API hands to the
driver has the PENDING status of its operation, and an agent goes by the
definition in a cast, not by the name of the cast: so of a cast that crossed
another request the definition decides. `LoadBalancerLifecycle` takes `build` and
the cast in one step, since the message may be delayed for as long as anything
between them takes. Of the agent, `ChildEntities` takes that it
brings its device to the whole definition or gives up, confirms each pending
entity and then the load balancer, and validates what it has deployed and takes
off what is unknown. Whether `is_eligible_agent(active=True)`
accepts an agent that is administratively down is a constant
(`AdminDownIsEligible`), since the repository does not show it. Whether the
database heeds the filter by listener that the builder's query for policies uses,
which a comment (`plugin_rpc.py:831`) says it does not, is another
(`PolicyFilter`): within one load balancer, which is what `ServiceTree` has, the
definition is complete either way, as `ServiceComplete` proves; what an unfiltered
query would add of other load balancers' policies is not modelled.

## 3. Runs

| Run | Instance | Shows |
|---|---|---|
| `schedule_loop` | 3 agents, 2 groups, 3 scores, every combination of candidates, affinity and order | the loops refine `ScheduleChoice` |
| `scheduler` | 5 agents in 2 environments and 2 groups, one of them without a group number, 2 load balancers of a tenant, scores 0 and full, two agents that the operator takes down and that may fill | `BoundInEnv`, `MovesOnlyToActive`, `FailOverTogether`, `NewHomeHasRoom`, `FailoverStaysInGroup`; `DeadHostIsLeft` under fair polling |
| `lifecycle` | 1 load balancer, 2 agents, 1 server, 1 driver call and any number of others that replace or use the shared attribute, 1 cast and 1 confirmation in flight | nothing removed unasked, no delete undone, strandings only by restart, the scheduled agent still hosts at the cast, pending operations end, refinement of `StatusProtocol` |
| `entity_manager` | 4 requests of all kinds, one without a load balancer, core plugin answers with and without an id | what stays right when requests overlap |
| `children` | a listener with a pool and its member to begin with and a policy to come, 2 requests (creates and deletes of all four, updates of the pool), 1 cast and 1 fetched definition in flight, an agent that works while no confirmation is in flight, a listener for which queries may raise | nothing removed unasked, nothing out of the builder's reach, `ACTIVE` means deployed, no delete undone, refinement of `StatusProtocol`; pending entities settled and orphans purged under fairness |
| `service_cache` | 3 builds, 2 networks, hierarchical port binding over 3 hosts of 2 environments, days of 3 slots, the 3 slots of one day | freshness and own segment outside the first slot of a day; never another network's segment |
| `ports` | 4 calls of any kind, 1 name, 2 addresses | unique names, complete deletions, an added pair kept, a removal of its own pair only |
| `group_zero`, `update_stuck`, `cast_mixed`, `cache_stale`, `address_lost` | small instances of the same modules | the five disagreements below |

**Bounds.** `Operated` and `MayFill` (scheduler) are the agents that the operator
takes down and whose score changes: one of the group of two and the one of the
other group, so that each choice between groups and within one is met.
`MaxCalls`, `MaxTasks`, `MaxReplies` (lifecycle) bound what is in
flight: one operation at a time is what the API admits for one load balancer,
and the statements that matter are proved without the bounds. `MaxTime` bounds
the clock of the cache: `service_cache` spans one day, whose later slots are what
its statements are about, and `cache_stale` goes on to the first slot of the
next day, where the disagreement is, without hierarchical port binding. Two
requests of the `children` run are a request and another one, of the same entity
or of what it belongs to, that the first one's late definition and confirmations
cross; `MayUpdate` leaves the updates to the pool, and `MayFail` the failing queries to the
listener, since what they do to the others is proved. The instance has a pair of each kind of
parent and child that the code treats differently. Four port calls are enough for a create, two calls that cross, and a
third that sees the outcome. `Scores` needs a value below `Full` and one at it
(three for the loops, so that maxima and minima differ). `Symmetry` in the port
run permutes calls and addresses, which the module treats alike; the run has no
liveness property.

**Fairness.** `AgentScheduler`: an agent that
stays up polls its listings, and the query for agents does not fail every time
(agents list periodically with their own environment and group). Lifecycle: a
driver call that can go on does; agents poll; a listed load balancer is worked
on if it keeps being listed, and a confirmation that is sent again and again
arrives (strong fairness). Nothing is assumed of casts: all may be lost.
`ChildEntities`: not every build of a definition that the agent fetches fails, the
agent does not give up on each, and the load balancer's confirmation, sent again
and again, arrives (strong); confirmations of entities arrive unless they are lost, and
the agent goes on validating, with queries that do not fail every time (weak). Of
casts nothing is assumed here either.

**What a property leaves out.** `FailoverStaysInGroup` is about the failover of a
request and the listings that name a group: the scrub RPC and a listing without a
group ask for any agent of the environment, and their moves may leave it.
`PortRemoved` excepts requests that raised and ports whose id did not come back,
`AddedStays` and `RemovesOnlyItsOwn` calls of one port that cross, `ActiveIsDeployed`
what a failed query called unknown, `PendingChildResolved` what a later unlock left
out: in each case the code does so, and the hazard's note in `PROJECT.json` says it.

## 4. Findings

1. `group_zero` - `get_agents_in_env` tests `if group:`; group number 0 is no
   group, and a failover leaves it (`agent_scheduler.py:134`).
2. `update_stuck` - `_handle_driver_error` does nothing; an update without an
   agent leaves an unbound load balancer in PENDING_UPDATE, which no listing
   finds (`driver_v2.py:137`).
3. `cast_mixed` - `_call_rpc` sends `self.api_dict` as it is after two waits
   (`driver_v2.py:156`): another request's entity. The service beside it is built from
   `self.loadbalancer`, which crosses in the same way; the managers of load balancers
   do that too (`driver_v2.py:192-193`), and `lifecycle` shows that it does the
   statuses no harm.
4. `cache_stale` - `.seconds` of the age and a `last_cache_update` that is never
   set: in the first half hour of a day nothing is invalidated
   (`service_builder.py:58`).
5. `address_lost` - `add_allowed_address` of a listed address removes it and all
   behind it (`plugin_rpc.py:621`).

## 5. Proofs

The theorems hold for every value of the constants that satisfies the named
`ASSUME`s.

- `ScheduleLoopProofs`: the inductive invariant is `TypeOK /\ LoopInv`. `LoopInv`
  says what the accumulators hold of the candidates seen so far (the group's
  maximum, no affine candidate passed over, the minimum of the groups seen);
  without it `PickMember` could not be shown to choose from a least loaded
  group. From it `Implements` maps every iteration to a stutter and the last
  one to `Decide`. `RefusesOnlyWhenFull` says what a refusal means: of the levels
  that some group keeps within there is a least (`LeastOf`), and a group that keeps
  within it is least loaded (`RoomIsChosen`), so there is a choice unless every
  group has a full agent.
- `AgentSchedulerProofs`: `TypeOK /\ BoundInEnv` is inductive. The action
  properties follow from it step by step: `Rebound` moves all bindings of an
  agent alike, `Successors` are active or the agent itself. `PlacesHaveRoom` is
  about the one action that binds what was unbound (`OnlyPlaceBinds`, `ChosenHasRoom`).
  `StaysInGroup` assumes that no agent reports the group number 0, and says so in
  its statement: `group_zero` is the counterexample without that assumption. An agent
  that reports no number counts as of group 1 there, as it does when it is bound.
  `DeadAreLeft` is the part of `DeadHostIsLeft` that can be proved: what a dead agent
  hosts only shrinks while it is down, and a listing by an agent of its environment and
  group leaves it nothing, if the query is answered (it assumes `~QueriesMayFail`).
  That such a listing comes is fairness, and model-checked.
- `LifecycleProofs`: the inductive invariant `LCInv` adds to the type and to the
  scheduler's invariant where each call, task and confirmation comes from
  ("Provenance": a confirmation "destroyed" exists only for a load balancer whose
  delete was asked, a call past `schedule` has left a binding), which is what makes
  late messages harmless, whichever request's object a cast was built from.
  `ScheduledKeepsHost` is proved from what moves a binding: a scrub, a listing or another
  request takes it only off an agent that is inactive, and then the call has `fell`.
  A step of the lifecycle is one of the scheduler or leaves its variables alone
  (a lemma), so its theorems on how bindings move are reused (`LifecycleMoves`). `LifecycleKeepsProtocol` is the refinement of `StatusProtocol`:
  `Provenance` gives the removal that was asked for, and two lemmas say what the
  end of a call leaves among the load balancers worked on, since several calls may
  be for one.
- `ChildEntitiesProofs`: `CEInv` is the type, `DeletesAsked` (a "destroyed" in
  flight, a PENDING_DELETE in a definition or a row is of an entity whose delete
  was asked), `NoneFromNothing` (an entity that never had a row is on no device and
  in no message), `Rooted` (a row's parent is a row, since a removal takes what is
  below along, and no chain is longer than listener, policy, rule), and
  `ConfirmedIsAccounted` (an `ACTIVE` row, or an "ACTIVE" in flight, is of an entity
  that is on the device, was taken off by a failed query, or was asked to be
  deleted). `ServiceComplete` follows from `Rooted`. `ChildDeleteNotUndone` needs
  the type only: each callback reads the status first. `ChildrenKeepProtocol` is the
  refinement of `StatusProtocol`; `DeletesAsked` makes each "destroyed" a removal that
  the protocol allows, and the frame lemmas of the other actions the stutters.
  `NothingTakenWrongly` says of each step what `ConfirmedIsAccounted` says of each state:
  what leaves the device was asked for, or its query failed. `PendingIsFollowed` is the
  safety core of `PendingChildResolved`: while an entity is unsettled, either the
  load balancer is still locked, so that the agent's listing finds it, or a
  confirmation that settles the entity is on its way. It is inductive with the order
  of requests (`Numbered`), with what a definition in flight tells of requests made
  before it was built (`DefinitionsTell`, from `Rooted`: `build()` misses no row), and
  with what travels beside a confirmation of the load balancer (`UnlockedAfter`).
  A build that fails tells the agent nothing and changes nothing, and a fetched
  definition counts as one in flight.
  That the listing comes and the confirmation arrives is fairness, and model-checked.
- `EntityManagerProofs`: what of a request is safe from the others. The invariant
  says of each waiting request that the load balancer it asked `schedule` for is
  its own, unless it is a member create with a port; that only such a create is
  at the steps around the port (`OnlyMembersMakePorts`), so a port has an owner
  that still has to remove it or raised (`PortHasOwner`); and that `self.api_dict`
  is set whenever a cast reads it (`ReadyToCast`), which the type of `sent` needs.
  `AloneSendsOwn` adds that requests know whom they crossed (`CrossedTogether`)
  and that while a request is alone the manager's attributes are its own
  (`OwnWhileAlone`), although a request that failed leaves its own behind.
- `ServiceCacheProofs`: while a build that threw the caches away runs, whatever is
  in them was read by a build that runs beside it (`CacheOfPeers`, which needs
  `RunningMeet`: builds that run know each other); `ReadByAPeer` follows for what
  it holds. For `NoOlderThanASlot` the invariant adds that a build knows only
  builds that started after the slot before its own (`MetRecent`) and that a
  dictionary was read after its build started (`ReadAfterStart`). The assumption
  is the one `Tick` states: a build ends within a slot of its start.
- `ServiceSegmentProofs`: `SegInv` adds that the cache names each dictionary by the
  network it was read for (`CachedUnderName`), that a build holds them in the order
  of its lookups (`HeldInOrder`), and that each says a segment Neutron or a lookup
  named for its network (`DictsKnown`); `SegmentOfNetwork` follows when it is cast.
  `AloneSendsItsAnswers` proves `OwnSegment` from `OwnInv`: while a build that threw
  the caches away is alone, each cached dictionary says the last answer for its
  network (`CacheIsAnswered`), the build holds exactly what is cached
  (`HoldsCached`), and it reads only what is not (`ReadsAfresh`).

- `NeutronPortsProofs`: first the two loops over address pairs. `WithoutAddress` is a
  recursive function; what its last value lists is shown by induction over a set of
  numbers (`NatSetInduction`), since the prover has no induction over operators. The
  invariant has three layers: `CallsInv` is the type and what each stage of a call
  implies of its request and its port; `History` is what `before` and `met` mean (two
  calls that have begun met, or one was over before the other began); on these
  rest `NamesInv` and `PairsInv`. `OnePortPerName` needs `NamesakesMet`: a creation
  that is about to make a port has met the maker of every port of its name. `DeletedByName` needs `AllFound`: what a deletion has still
  to delete is all there is of what was over before it. `AddedStays` needs
  `UnmetIsCurrent` (the list an uncrossed call holds is made of the current
  one), `PairsAreAdded` (an address is listed only if an add wrote it) and
  `ListHasOwn`. What a removal writes is compared with what the port
  lists by then, by membership (`RemovalsAreExact`). The theorems about pairs assume
  `PairsListed`: without the key in the port, an add writes an empty list
  (`plugin_rpc.py:617`). `FreshAddsOnlyAdd` is what stays true of finding 5: an uncrossed add of
  an address that is not listed takes nothing out.

**Model-checked only.** Liveness (`DeadHostIsLeft`, `PendingResolved`,
`PendingChildResolved`, `OrphansPurged`), which is beyond the prover. Every other
property of a run that passes is a theorem.

## 6. Not modelled, and the plan

What is left to do, in order:

1. The safety core of `OrphansPurged`, like that of the other properties of liveness:
   only a definition in flight puts an orphan back, and each purge leaves fewer.
2. What the port calls return and delete under every crossing, beyond names.

Not modelled, and why:

- `get_clusterwide_agent` (`plugin_rpc.py:724`): two assignments to a dictionary of
  agent objects. What could be wrong is the heartbeat of a kept object, and
  whether that is read again, is the old one, or cannot be read at all is decided
  by the database session that made it, outside the repository.
- `validate_loadbalancers_state`: the code of `validate_pools_state` for load
  balancers; rules and monitors have no validation in the code.
- Two servers inside `schedule` at once: the API admits one operation per load
  balancer, and which of two transactions that cross fails is the database's
  isolation level, not this code's.
- The tunnel endpoints and the tenant check in `service_builder.py`, and the getters
  of ports: they only read, or log. Of the ports of a member only their number matters (one
  looks a segment up) and is modelled; the layout of the dictionaries is no matter of the
  properties.
- The L7 managers of `driver_v2.py` apart: they are requests of the general kind in
  `EntityManager`, whose code they share, and have their tree in `ChildEntities`.
- `get_network_segments`, which nothing calls.
- `neutron_client.py`: a copy of two port calls that only tests use.
- `generate_driver` and the command line front ends: tools apart from the driver.
- Configuration, exceptions, message encoding, packaging, documentation.
