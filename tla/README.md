# A TLA+ verification of the BIRD routing daemon

This directory specifies BIRD 2.19 in TLA+, checks the specifications with TLC on
small instances and proves what matters most about seven components, for instances of any
size, with TLAPS. It is about the *control* of the daemon: which component does what,
when, after which other step. Names, texts and payloads are abstracted to what the
properties tell apart. `PROJECT.json` maps each definition to the lines it models.

1. [The system and its parts](#1-the-system-and-its-parts)
2. [Modules](#2-modules)
3. [Runs, bounds and fairness](#3-runs-bounds-and-fairness)
4. [Theorems](#4-theorems)
5. [Where the code and its documentation disagree](#5-where-the-code-and-its-documentation-disagree)
6. [Not modelled](#6-not-modelled)

## 1. The system and its parts

BIRD is one process with one main loop (`sysdep/unix/io.c`): it runs expired
timers, scheduled events and the hooks of ready sockets one at a time. Nothing is
preempted, except for the sessions of BFD, which have a thread of their own. What
makes the daemon hard to test is therefore not the memory model but *what comes
between two events*: nearly every long operation is cut into passes. A feed, a
reload, the pruning of a table, a next hop update or a reconfiguration goes on
over many turns of the loop, while routes, commands and sessions change everything
in between. Besides, the routing protocols talk over networks that lose packets.

| Part | Modules | What is hard |
|---|---|---|
| Object locks (`nest/locks.c`) | ObjectLocks | hooks that free locks inside the loop, hand-over of waiters |
| Interfaces, neighbors, static and direct routes | Interfaces, Static | callbacks inside updates, lost and late Netlink messages |
| MPLS labels (`nest/mpls.c`) | Mpls | references to labels, FECs and ranges across reconfigurations |
| Configuration (`conf/conf.c`) | Config | requests during a reconfiguration, memory of the old one |
| Protocols and recovery (`nest/proto.c`) | Protocols | shutdowns that end in any order, recovery that ends in any state |
| Channels (`nest/proto.c`, `nest/rt-table.c`) | ChannelExport, ChannelImport | changes in the middle of a feed or a reload |
| Routing tables (`nest/rt-table.c`, `nest/rt-fib.c`) | TablePrune, NextHops, Fib, BgpBest, Aggregator | loops in passes, stored iterators, order of changes |
| Kernel (`sysdep/unix/krt.c`) | Krt | scan and table change independently |
| BMP (`proto/bmp`) | Bmp | a queue at its limit |
| BGP (`proto/bgp`) | BgpSession, BgpPackets, BgpAttrs, BgpUpdates, RouteReplica, BgpDamp | collisions, restarts, order of updates and end marks |
| BFD (`proto/bfd`) | BfdSession, BfdRequests, BirdLoop | a second thread, polls interrupted by timeouts |
| OSPF (`proto/ospf`) | OspfExchange, OspfIface, OspfAreas | lossy exchange, elections that cross, routes through areas |
| Babel, RIP (`proto/babel`, `proto/rip`) | Babel, Rip | feasibility, sequence numbers that wrap, lost acknowledgements |
| RPKI, router advertisements (`proto/rpki`, `proto/radv`) | Rpki, RAdv | timers against slow answers, lingering entries |
| Paths, sets and tries of filters (`nest/a-path.c`, `nest/a-set.c`, `filter/*.c`) | Paths, Trie | pure algorithms, against references |

`PROJECT.json` has all parts as components, with the reason where one is not modelled, and as
hazards the places where the code is exposed to such trouble, with the properties that
would catch it.

## 2. Modules

A component module `M.tla` has the state of the component and one action for each handler,
event or timer. A handler is an action as a whole, with all it calls; where the state is
one C structure it is one record, and the functions of the code are operators from a record
to a record under their C names. `MProofs.tla`, where there is one, has the theorems.

`MC*.tla` have the instances for TLC. One run checks several components that do not
share state: `part` says which one a behaviour runs, the variables of the others stay as
they are, and a property of the run is the conjunction, over the parts, of properties of their
modules. *Scenarios* (`Configs`, `conf`) are configurations together with budgets for
what may come from outside (faults, changes, restarts), so that small questions
are asked of small instances. Pure algorithms have no steps: each input is an initial state.

Definitions whose names say what they get wrong (`ScheduleOnlyIdle`,
`CommitIgnoringObstacles`, ...) are faulty variants of a definition that follows them. They are used
nowhere; with one of them in place of the right one TLC refutes the property that
`PROJECT.json` names with it.

### What protocols share (run `object_locks`)

**ObjectLocks.** `state`, `olock_list` and `waiters` are the fields and lists of the code,
`scheduled` says that `olock_event` is in the event list, `pc` is where `olock_run_event` is:
its loop calls hooks, and a hook may free locks. Locks with the same strictly compared
fields share an `Object`; the local address is compared with a wildcard.

* `ExclusiveUse`: no two granted locks describe the same resource.
* `WaitersKept`: a waiting lock is on exactly one list, that of the owner of its resource, and
  a lock granted but not announced is found by the event, which is scheduled or running.
* `Progress`: a lock that waits, and is not freed, is granted.

**Interfaces, Static.** `Interfaces` has the interface list, the neighbor cache, the direct protocol and
the Netlink driver as operators on one record; `Static` adds the static protocol, with several next hops, BFD and
reconfiguration, and the kernel that sends messages, some of which get lost. `InterfacesFollowed`:
neighbors are those of the interfaces, protocols were told all changes, static and direct
routes are exact, and with no message or scan pending they are what the kernel has.

**Mpls.** Domains, ranges, handles, FEC maps and the labels of routes, over reconfigurations.
`LabelsExact`: references and labels are counted exactly; a label in use leads where its
routes go; when nothing is pending nothing deconfigured is left.

### Configuration, BFD, filter data (run `config`)

**Config.** Configurations are names for allocated memory. The configuration of a shutdown lives
in the memory of the one it replaces (`host`). `target` and `previous` record what the last
request asked for. The commit hooks are represented by the obstacles they add; dumps of MRT hold
the configuration that is active when they begin, and end at any time. `MayRace` allows a command
between the last obstacle and `config_done`.

* `ConfigsAlive`: nothing the manager points to is freed, nor what an obstacle such as a dump refers to.
* `WaitsForOld`: only the active configuration and the one that is left have obstacles (the assertion in `config_free`),
  and a reconfiguration in progress waits for one of the latter or for the event that follows the last of them.
* `TargetReached`: between reconfigurations the daemon runs what the last request wanted.
* `UndoSound`: a queued undo has somewhere to go; while the undo timer runs there is
  something to undo.
* `Progress`: every request takes effect or is replaced by another.

**BfdSession** (two endpoints, lost packets, polls, both timers), **BfdRequests** (requests and
sessions, with the notifications of the BFD thread to the main one), **BirdLoop** (the loop of that
thread, its wakeups, timers and sockets). `BfdRight`: the detection time
covers the interval at which the neighbor sends, a session is up only after an echo; requests are where they should be, no
session leaks and whoever is to be notified will be; no wakeup is lost and no closed
descriptor polled. `Progress` adds that sessions come up, protocols learn of it and the thread stops.

**Paths, Trie.** AS paths, path masks, lists of communities, trees of values and prefix tries.
`FilterDataRight` compares them with definitions over sequences and sets: what a merged, prepended
or filtered path has, which paths a mask matches, which prefixes a set has, and the
order of walks over a trie.

### Protocols and recovery (run `protocols`)

**Protocols.** `proto[p]` is the record of the fields of an instance, with its channels. A BGP instance
represents those that come up and go down by their own events and hold the recovery
from a graceful restart; a kernel instance those that start and stop at once and wait
for its end. `graceful_restart_locks` may become negative and stands for the unsigned counter then.

* `DoneScheduled`: an instance that is down with all its channels closed is scheduled to
  be finished, so a shutdown never hangs between its parts.
* `ClosedWhenDown`: when a protocol is stopping or down, its channels are closed or flushing.
* `RecoverySound`: the recovery ends before its timeout only when no channel holds a lock; after
  it no open channel postpones its export; before it a kernel protocol that takes part exports nothing.
* `ChannelTransitions`: channels go through their states in the documented order.
* `GoalReached`: every instance gets, again and again, to where it should be.

### Where routes go (run `channel_export`)

**ChannelExport.** The table is the set of networks with a route, the export filter the set of networks it
accepts. A feed is the set of networks its iterator has still to pass; one pass offers one
route. A *setup* chooses the limit, automatic reload, and whether the session
may fall back to `PS_START`. `dropped`, `unfed`, `seen` and `bugs` are history variables.

* `ExportComplete`: after a feed the protocol has exactly the acceptable routes, except
  those that the limit rejected. Changes during a feed are not lost.
* `LimitExact`: the limit is respected, and a finished feed leaves a route out only when more
  networks than the limit had acceptable or exported routes since it started.
* `ExportSound`: the assertions of the code hold, and export, feed and channel states fit together,
  during the recovery too.
* `Progress`: a channel that stays up is fed in the end.

**Krt**, the synchronisation with the kernel table, and **Bmp**, the monitoring station behind a queue of
pages, are two receivers. Every request to the kernel may fail on its own. `ReceiversExact`: after a scan
without failures the kernel has exactly the exported routes, and none is taken out that is wanted before and after a
step, over crashes too (unless it has to be deleted and added, and the second request fails); a
station that has read all it was sent knows the peers and the routes of every complete stream, as long as
no message was cut off at the limit (see section 5).

### Where routes come from (run `channel_import`)

**ChannelImport.** The neighbor's routes are in `in_table`, those that passed the filter in `table`,
each with stale flags. A reload keeps the pointer `reload_next_rte` between its passes.

* `ReloadExact`: with no reload waiting, the table agrees with the filter; the stored pointer leads
  to a route that exists.
* `RefreshComplete`: a finished refresh or restart leaves only routes that the neighbor sent again.
* `Progress`: reloads end.

**Rpki** (cache states, timers, versions, records) and **RAdv** (lingering prefixes and routes,
prepared packets, timers, other routers). `ServicesRight`: an established router has the ROAs of the
server at the serial number it remembers, but for those that the prune loop has still to take out; a prepared packet is up to date, a stopped router
is nobody's default router, other routers are forgotten in time.

**Babel** and **Rip**, networks of two or three routers that lose updates, links and
acknowledgements. `DistancesKept`: no Babel router tells its neighbors of a route that is better than its own
feasibility distance, packets of Babel say what was queued whatever the compression, the next hops of a
RIP route are equally good. `Progress` adds that in a network at rest every router has its
shortest paths, hosts have the data of their router and the router those of the server.

### Routing tables (run `prune`)

**TablePrune.** The iterator is the set of networks still to be visited; a new network is put before or
behind it. Units of work are bounded by `Limit`, 2000 in the code. Flags of routes are those of the
code. `tries` has the trie in use, the one being built, the old one, and
their lock counts; a walk (`show route`, a filter) goes over one of them.

* `FlushedEmpty`: a channel is closed only when no route of it is in the table.
* `WorkNotLost`: routes that wait to be pruned are ahead of the iterator of a cycle that
  treats them, or another cycle is scheduled.
* `TriesSafe`: the trie has all networks of the table, through all rebuildings; no walk is left
  with a freed trie, and at most two tries exist.
* `Progress`: a flush ends, unless new stale or discarded routes come for ever.

**NextHops** (host cache, next hop update, flowspec validation), **BgpBest** (deterministic MED),
**Fib** (hash chains with stored iterators), **Aggregator**. `TablesRight`: dependent routes are up to
date when nothing is scheduled; the best route depends on the routes alone and not on the order of changes;
a reader of a FIB misses no entry that stays while others come and go and the table is resized; the peer
table has what is aggregated now.

### BGP (run `bgp`)

**BgpUpdates.** One channel from the sender's table to the receiver's: feeds and changes, buckets and the
withdrawals (`snd`), messages on their way (`wire`), the receiver's routes with stale marks and both
timers of a restart (`rcv`). `log` and `pos` are history: all values exported for a network, and the
place the receiver has got to. **RouteReplica** is the abstract specification: the receiver sees values in the
order of their export, and drops a route that is still exported only when a session is lost or
before it is loaded.

* `ReplicaSpec`: BgpUpdates implements RouteReplica, under the mapping given with the `INSTANCE`.
* `EndMarksTrue`: when End-of-RIB or the end of a refresh counts, the receiver has for every network a value
  that was exported after the marked feed began.
* `Progress`: in the end the receiver has what is exported; sessions come up, and stopping ends.

**BgpSession** is the session between two routers, each with an outgoing and an incoming
connection, collisions, errors, delays, shutdown; **BgpDamp** the route flap dampening of a
channel. `SessionsRight`: at most one connection of a router is established, connections and
sockets belong together; only suppressed routes are held back, and not for ever.

**BgpPackets** (OPEN, NLRI, next hops) and **BgpAttrs** are what one router writes and the other reads.
`MessagesRight`: both take the same from the OPEN messages; a route keeps its attributes,
networks and next hop on its way, in all families (but for the path identifiers of flow rules, see
section 5); no route goes round in circles.

### OSPF (run `ospf`)

**OspfExchange** (two routers from hellos to full adjacency, flooding, aging, the end of sequence
numbers), **OspfIface** (elections on all types of interfaces), **OspfAreas** (origination, shortest
paths, summaries, virtual links, stub areas, NSSA, external routes).

* `AdjacenciesRight`: references are counted exactly, what a Full neighbor may lack is
  retransmitted, and with nothing pending the databases are the same; when hellos
  change nothing any more, all routers name the same designated routers and have the adjacencies that go with them.
* `RoutesReach`: when all is calculated, next hops lead to networks and external routes, and
  inside an area on shortest paths.
* `Converges`: after the last change the routers come to rest.

### How they compose

`Protocols` uses of the table only that a flushing channel is at some time without routes:
`FlushedEmpty` and `Progress` of TablePrune. `ChannelExport` and `ChannelImport` have, for one
channel, the states that `Protocols` gives it. `Config` uses of protocols only that obstacles go
away, `GoalReached` of Protocols. TablePrune takes the FIB iterator to visit every entry that stays, which `Fib` checks.
BgpUpdates has a session that is up or down, which `BgpSession` refines, and stale routes that go at
once, which TablePrune treats in passes. `Static` extends `Interfaces`, `BgpAttrs` extends
`Paths`, and BgpUpdates has RouteReplica as an instance; the other links are made here in prose.

## 3. Runs, bounds and fairness

| Run | Configuration | Result | Distinct states |
|---|---|---|---|
| `object_locks` | `ObjectLocks.cfg` | all properties hold | 133702 |
| `config` | `Config.cfg` | all properties hold | 52042 |
| `protocols` | `Protocols.cfg` | all properties hold | 84528 |
| `channel_export` | `ChannelExport.cfg` | all properties hold | 216125 |
| `channel_import` | `ChannelImport.cfg` | all properties hold | 207899 |
| `prune` | `TablePrune.cfg` | all properties hold | 137249 |
| `bgp` | `Bgp.cfg` | all properties hold | 295904 |
| `ospf` | `Ospf.cfg` | all properties hold | 600238 |
| `object_locks_wildcard` | `ObjectLocksWild.cfg` | `ExclusiveUse` refuted | |
| `config_race` | `ConfigRace.cfg` | `ConfigsAlive` refuted | |

Run one with `tlc -config TablePrune.cfg MCTablePrune` and the like (`Ospf.cfg` with `MCProtocols`). No
symmetry is used, since every passing run checks a liveness property. For every property of a
passing run `PROJECT.json` has a fault of the code that it catches.

Deadlock is checked in every run. Parts whose scenarios come to an end have the step `Over`, which changes
nothing; for the others (locks, channels, protocols, the prune loop, Babel and RIP) it says that the
daemon always has something to do.

Bounds:

* `MaxChanges` (4 in ChannelExport, 5 in ChannelImport) bounds route changes, ROA
  changes, reconfigurations and requests; feeds, reloads, events and timers are not
  bounded. Two networks and a limit of one make the limit block, and four changes let a change hit
  a network already passed, one still ahead, and the refeed that follows. Three
  networks let a reload stand between two others.
* Four locks, three of them for one port: a list of waiters with two members, hand-over, and a hook that frees.
* Four configurations are the most that can be in memory at a time; `MaxObstacles = 2`: one obstacle
  may go while another is left; `MaxDumps = 1`: a dump may begin before a switch, during it and in its successor.
* `Limit = 1` in TablePrune: each unit of work ends a pass, so all interleavings with the
  code's limit of 2000 are covered for these networks.
* Protocols has no bounded counters; two channels make one finish before the other.
* BgpUpdates: two networks, one prefix in a message, one message in flight, so that buckets fill up behind it; two
  changes and two restarts, or a refresh, or a refresh and a restart (`MCConfigs`).
* BgpSession: two links at a time, which is what a collision needs. Two active routers, with different and with equal
  identifiers, collide without faults; with one passive router there are up to two faults. Two
  active routers with one fault were checked separately, with 637712 states.
* BFD: two intervals, with one, none or both of the routers passive.
* OspfExchange: one database description and one request per packet, and one fault of each kind (restart, loss,
  early timer, change, expiry, wrap) at a time; two successive changes, and a loss during the wrap, were
  checked separately, with 1.26 and 1.11 million states. A restart from rest may find the LSAs of the other
  router older than `LSA_MAXAGEDIFF`; otherwise ages differ by less. OspfIface: two routers with all faults,
  three without on an NBMA network; three on a broadcast network were checked separately, with 0.2 million
  states. OspfAreas: three routers, one failing link or router, ten topologies.
* Babel, RIP, RPKI, RAdv, BMP, Krt, MPLS, Static: the budgets of each scenario are in the MC modules.
  Sequence numbers wrap at 16 (Babel, which starts at 15) and 8 (RIP) instead of 2^16; infinity is small.
* BgpDamp keeps the *ratios* of the default parameters. With a maximal suppress time below
  about 1.2 half-lives the scale factor of the code is not defined, and this is left out.
* Inputs of the pure algorithms: paths of up to two segments (three for masks), lists of three values, sets of two patterns
  or three networks over four-bit addresses, with two bits for a node of the trie.

Fairness is that of the event loop, stated in each `MCSpec`:

* *Scheduled events and running timers run* (weak fairness of `olock_run_event`, `config_done`,
  `channel_feed_loop`, `channel_reload_loop`, `rt_event`, `proto_shutdown_loop`, the settle timer,
  `bgp_fire_tx`, ...). `io_loop` runs the events scheduled before each poll and all expired
  timers. Work events have a limit on each turn, and come round all the same.
* *Obstacles go away, closing a connection takes finite time* (`config_del_obstacle`, `Finish`).
  The hold timer runs in the closing state, and flushes end by `Progress` of TablePrune.
* *Owners release* (strong fairness of `Release` in ObjectLocks). A lock is held as long as its
  protocol runs, so this is a hypothesis of `Progress` there, not something the daemon does
  on its own. It is strong because a client cannot act while the loop of the event runs.
* *BFD timers fire* (strong fairness of both timer hooks). The timers of the code run on
  regardless of packets; in the model a transmission needs room in the channel, and a detection
  timer waits for packets in flight (they arrive in time unless they are lost), so the actions are
  enabled again and again, not continuously.
* *While there is work, something is done* for components with finite scenarios: a behaviour that
  has work infinitely long also has infinitely many steps (`[]<>~Busy \/ []<><<TRUE>>_vars`).
  What comes from outside is bounded there, so this is weak fairness of all handlers together.
* The environment (neighbors, operators, routes, faults) is not fair.

Static and Mpls have no liveness property of their own. That everything settles is checked as a
state property: *when* nothing is pending, all is as it should be.

## 4. Theorems

Every statement below is proved for all values of the constants that satisfy the named
assumptions of the modules; these give types and finiteness only. Hypotheses that exclude
behaviours of the code are named with the theorem, and each is explained by a disagreement of section 5.
The properties of the runs are stated under the same names, so that a run shows
them on its instance and a theorem on all.

In each case the property alone is not inductive. The strengthening is proved with a lemma per action
and per conjunct that the action can disturb, and a theorem combines it with the initial states.

**ObjectLocksProofs**, for any locks and resources. `TypeCorrect`, `NeverOrphaned`, `GrantsAnnounced`, and, if no
wildcard competes with a specific address for the same object (`NoMixedWildcard`), `Exclusive`
(`ExclusiveUse`) and `WaitersAreKept` (`WaitersKept`). The inductive invariant is `TypeOK`, `ListInv` (lists have no
duplicates, `olock_list` has exactly the granted locks, lists of waiters are disjoint and belong to
granted locks), `WaitingInv` (every waiting lock is on some list), `ResourceInv` (different members of the
list have different resources, waiters the resource of their owner) and `GrantsInv` (locks to be announced
come first in the list). That a waiter is on one list says nothing about duplicates, and handing a list
over to its first member needs them excluded. Lemmas say what unlinking, pushing and appending do to
the elements of a list, to their distinctness and to their order.

**ConfigProofs**, for any number of configurations, obstacles and dumps, all for `~MayRace`. `TypeCorrect`, `NoDanglingConfig`
(`ConfigsAlive`), `UndoSafe` (`UndoSound`), `RightConfig` (`TargetReached`), `ObstaclesSound`
(`WaitsForOld`). The inductive invariant adds `Pointers` (which configurations are allocated
and distinct, and that a shutdown lives in the old one), `Progress` (what a running
reconfiguration waits for, and where obstacles may be) and `Requests` (what the queue amounts to). That the old configuration may be
freed needs all three. `CommitEffect` says once what the shared commit does.

**ProtocolsProofs**, for any protocols and channels. `TypeCorrect`, `ShutdownsFinish` (`DoneScheduled`),
`TransitionsAllowed` (the action property `ChannelTransitions`), `RecoveryEndsUnlocked`; if no session returns with
fewer channels (`~MayShrink`), `ChannelsAreClosed` (`ClosedWhenDown`); and if moreover no session restarts only some
of its channels (`~MayBePartial`), `RecoveryIsSound` (`RecoverySound`). `BInv` is about each instance
on its own: how its goal, state, queued shutdown and event depend on each other, and which states of channels
go with them. `GInv` relates the counter of recovery locks to the cardinality of the set of channels that hold one:
the counter is never too low, so zero means none. `FInv` says which channels are closed and which wait for the recovery. Each function of `proto.c` has
a lemma about one instance; `OneStep` lifts it to all.

**ChannelExportProofs**, for any networks, limits and setups. `TypeCorrect`, `StatesFollow`, `NothingLost`
(`ExportComplete`), `LimitKept`; if a channel that may be paused does not listen to ROA tables (`NeverBoth`),
`AssertsHold` (`ExportSound`); if the routes of a channel that may be paused fit in its limit (`PausedFit`), `LimitIsExact`
(`LimitExact`). `OfferedAll` says that each network the feed has passed, or any network if no feed runs, was offered in
its present form; changes that the filter or a ROA table makes behind the iterator break it, and the refeed they request
restores it. For the limit, `CountSeen` bounds the count of the feed by the networks seen since it began.

**ChannelImportProofs**, for any networks and setups. `TypeCorrect`, `NothingMissed` (no reload
is forgotten), and, if reloads and enhanced refreshes do not meet in one channel (`NotBoth`), `ReloadsAreExact`
(`ReloadExact`) and `RefreshRemovesTheRest` (`RefreshComplete`). `Filtered` says that what the reload has passed
is in the table exactly if the filter accepts it; `Fresh` that what the neighbor has sent again is
neither stale nor discarded; `Leaving` that routes the neighbor does not have go at the end of the cycle.

**TablePruneProofs**, for any networks, channels, walks and any limit. `TypeCorrect`, `ChannelsClosedEmpty` (`FlushedEmpty`),
`PruneForgetsNothing` (`WorkNotLost`), `TrieHasAllNetworks`, `WalksKeepTheirTrie`, `TriesAreSafe` (`TriesSafe`). They
are proved together: the added conjunct `Cycle` says that all routes of the channels that this cycle flushes
are ahead of its iterator. That a channel is empty when the cycle ends follows
from it with an empty iterator. A pass treats a set of networks, and
`PassEffect`, `TreatedDone` and `NothingDue` say what is left of their routes. The counting
of walks uses the cardinality theorems of finite sets.

**BgpUpdatesLemmas, BgpUpdatesProofs**, for any networks, attributes, sizes and numbers of messages, changes,
refreshes and broken sessions. `TypeCorrect`; `Implements`: `Spec => ReplicaSpec`, the refinement of RouteReplica; `EndsTrue`:
the action property `EndMarksTrue`. The inductive invariant (`IInv`) adds to the types:

* `Logs`: the last value in the history is what the best route is exported as;
* `Down`, `Restart`, `Ends`: what holds between sessions, while a restart is known (which of its two timers may run, and
  that the first one runs on without a restart only with long-lived restarts), and of the one End-of-RIB of a session;
* `Queue`: a bucket or withdrawal that waits is of the present best route;
* `Updates`: messages on their way are values of the history, in its order, after what has arrived;
* `Synced`: a network that does not wait to be sent has its current value in the last message about
  it, or, without one, at the receiver, where it may be stale;
* `Marks`, `Open`: an end mark on its way, or still to be sent, is backed for each network
  by a message before it, by what has arrived, or by a withdrawal since the feed began.

That an end of a refresh drops no exported route (the hard step of the refinement) is `Marks` at the head
of the queue. The lemmas say what each operation on buckets and the building of a message do to the set
of networks that wait, and when the parts survive a message that is appended or received;
there is one lemma per action and part.

Only model-checked, on the instances of section 3:

* all liveness properties (`Progress`, `GoalReached`, `Converges`): liveness under fairness and `ENABLED` are
  beyond the prover used;
* what recursive definitions compute (Paths, Trie, BgpPackets, BgpAttrs, OspfAreas, packets of Babel): the provers do not do
  induction over data, and recursive operators exclude them from whole modules;
* the components without a proof module: sessions, OSPF, BFD, RPKI, RAdv, BMP, kernel, MPLS, interfaces, next
  hops, FIB, aggregator, dampening. Many of their steps are folds over lists, and what a fold
  does needs induction over the list.

## 5. Where the code and its documentation disagree

Two runs refute a sentence of a comment (`findings` in `PROJECT.json` quote them):

1. `object_locks_wildcard`: a lock without a local address and two with different ones compete for the same
   object. `olock_same` is not transitive then, and `olock_free` grants the first waiter without comparing
   it with the rest. By the theorem `Exclusive` nothing else can break exclusion.
2. `config_race`: a command between the last obstacle of a shutdown and `config_done` frees the memory that the
   active configuration lives in. By `NoDanglingConfig` nothing else can.

The following were found while modelling. The scenarios of the passing runs or the hypotheses of
the theorems leave them out, or the properties name them as exceptions. Where a definition is named, TLC refutes it in a suitable scenario.

*Core.*

* `NoAssertFails` of ChannelExport, for a setup with ROA reload and pause: a paused channel keeps its ROA subscriptions (they
  end in `channel_do_flush`, `proto.c:599`), and a ROA change trips `ASSERT(c->channel_state == CS_UP)` (`proto.c:714`).
* `RefreshComplete` of ChannelImport, with reload and enhanced refresh: a reload in the middle of a refresh clears
  `REF_STALE` (`rt-table.c:1346`) of routes that the neighbor did not send, although those "not received during the
  sequence are removed" (`bgp.c:1614`). `rt_prune_sync` does not move `reload_next_rte` either, so
  `ReloadNextLinked` fails there as well.
* `ClosedWhenDown` with `MayShrink`: a channel that a new session disables (`bgp.c:1290`) is passed by in `proto_stop_channels`
  (`proto.c:237`), although "channels are closed automatically by the core when the protocol is going down" (`protocol.h:614`).
* `FlushesFinish` with `MayRepeat`: a route with `LLGR_STALE` is returned unchanged by `bgp_rte_modify_stale` (`attrs.c:2539`),
  keeps `REF_MODIFY`, and the prune loop treats it for ever (`rt-table.c:1788`).
* After a hand-over a lock may wait behind one it does not compete with (wildcards again). A blocked
  export limit outlives the pause of a channel. A failed `configure` cancels the undo timer of the previous one.
* A protocol that goes down from `PS_START` keeps its recovery locks until the timeout, against the
  comment on `channel_graceful_restart_unlock`. `gr_wait` is set on BGP channels that the session does not use.
* NextHops, with `rivals`: `rt_update_hostentry` looks at every route of the best preference, but the host cache is told only
  of a change of the best one (`rt-table.c:1161`). A recursive route beside the best one that comes or goes leaves host entries stale.
* `MastersResolved` of Static: after a scan the masters of all slaves are to be resolved again (`netlink.c:1441`), but `if_update` moves
  the interface to the tail of the list that is being walked, which ends the walk at the first slave. The direct protocol withdraws
  the route of a prefix that two addresses of an interface have when one of them goes (`rt-dev.c:66`).
* `CountsExact` of Mpls, with `stop`: a BGP instance that is reconfigured while it stops gets a new FEC map (`bgp.c:3219`), which
  nobody takes down, so the domain is kept, though "when deconfigured they could be freed just after all labels and ranges
  are freed" (`mpls.c:37`).
* `FiltersConform` of Aggregator: `aggregator_reconfigure` (`aggregator.c:743`) does not reconfigure the channels, so changed filters
  are ignored, against `proto.c:1309`. An emptied bucket forgets its source with the lock on it (`aggregator.c:158`).
* `SameTries` of Trie: `trie_node_same4` and `trie_node_same6` do not compare `local`, which matching uses, so a reconfiguration
  may take two prefix sets to be equal that are not. `DeleteExact` of Paths: `int_set_del` makes room for one element less, so
  deleting a community that a list has twice leaves the end of the result unset (`bird.sgml:2021` says what it should be).

*Protocols.*

* `ConfedStripped` of BgpAttrs: segments of a confederation are stripped from a path, but a route server and a session inside
  of the AS that only ensure that there is a path (`attrs.c:1982`) do not store the stripped one.
* `NoGhosts` of BgpDamp: a graceful restart of the neighbor (`bgp.c:1422`) starts a refresh of the table, but not of the routes that
  dampening holds back. One of them may be released later although the neighbor did not send it again; such routes should be
  "pruned" (`rt-table.c:1840`).
* `NlriFaithful` of BgpPackets, without `WithoutStray`: a flow rule that does not fit into the message any more leaves its path identifier
  behind, since the room is tested after it was written (`packets.c:2089`, `packets.c:2184`); the decoder finds an incomplete rule (`packets.c:2129`).
* `Kept` of Krt, without `HalfReplaced`: a route that is to be replaced is deleted first (`netlink.c:1738`), and stays away until the next
  scan when the kernel refuses the new one.
* BgpUpdates: a new session stops the restart timer only while a channel restarts (`bgp.c:1275`); when the long-lived stale timer
  has ended the restart before, it goes on in the new session, and does nothing when it fires.
* BgpSession: two routers that keep connecting at the same time may refuse each other for ever; `bgp.c:1325` tests a flag
  of graceful restart for the long-lived one.
* `NoLoop` of Babel: "a loop-avoiding distance-vector routing protocol" (`babel.c:17`) has short loops:
  whether a route is feasible is stored when it is received, and not looked at again when the feasibility distance
  decreases. It settles all the same. `RetractionsHeard`: a retraction that is packed behind an update of the receiver's own router ID is ignored
  (`babel.c:1346`), although "Router-id, next-hop and seqno are ignored for retractions" (`babel.c:1394`).
* `SteadyStateSilent` of Rip: a request that the neighbor has nothing to answer with is repeated for ever on a demand circuit,
  against `bird.sgml:6646`. On a triangle
  of demand circuits `Settles` fails.
* `AspaSynced` of Rpki: "kick out missing ones" (`packets.c:764`) is not done for ASPA records.
* `Restarted` of Bmp: a queue at its limit should restart the session (`bird.sgml:4510`), but `bmp_tx_overflow` does nothing when the
  queue has become shorter by then, and the message that was cut off stays in the stream.
* BFD: a timeout forgets a poll that was asked for (`bfd.c:372`). OSPF: `link_back` of OSPFv2 sets the address of the other end for networks only, so a
  virtual link over a point-to-point link does not come up.

## 6. Not modelled

The interpreter of filters (a filter is any predicate on routes), the configuration language, the
client, text formats, memory allocation and system calls, authentication and the security of sessions, MRT, pipe, L3VPN, EVPN and
bridge protocols, which keep no state of their own about routes (of MRT only the hold on the configuration is modelled).
Routes of redirects have their branch in Krt, but no input is one. Of the modelled components: the limits on
import and receive, the export modes other than one route per network, the export
table, channels that come and go in a running protocol, dynamic BGP neighbors, the long-lived restart in
BgpDamp, interface patterns, graceful restart of OSPF, round-trip times of Babel. `components` in `PROJECT.json` says for each part
what is left out and why.
