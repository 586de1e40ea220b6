----------------------------- MODULE TablePrune -----------------------------
(***************************************************************************)
(* The prune loop of a routing table (nest/rt-table.c), which removes the  *)
(* routes of flushing channels and the discarded ones, has stale routes    *)
(* modified, frees networks without routes and rebuilds the prefix trie,   *)
(* all in passes of the main loop between which anything may happen; and   *)
(* the locks that keep a trie for the walks over it.                       *)
(*                                                                         *)
(* A channel has at most one route to a network.  The iterator over the    *)
(* FIB is the set of networks it has still to visit: a new network may be  *)
(* put in front of it or behind.                                           *)
(***************************************************************************)
EXTENDS Integers, FiniteSets

CONSTANTS
    Nets, Channels, Walks,
    Limit,          \* units of work in one pass; 2000 in the code
    Setups,         \* [trie: the table has a trie; stale: the channels that
                    \*  refresh their routes]
    MayRepeat       \* may routes that are marked LLGR_STALE have to be modified?

ASSUME TablePruneAssumption ==
    /\ Limit \in Nat \ {0}
    /\ Setups \subseteq [trie : BOOLEAN, stale : SUBSET Channels]
    /\ MayRepeat \in BOOLEAN
    /\ IsFiniteSet(Nets) /\ IsFiniteSet(Channels) /\ IsFiniteSet(Walks)

VARIABLES
    setup,
    channel_state, flush_active,    \* of the channels
    fib,                            \* the networks
    routes,                         \* <<network, channel>> -> route
    prune_state, prune_fit, event,  \* the loop, its iterator, rt_event
    prune_timer,
    tries,                          \* the tries of the table
    walk                            \* the tries that walks go over

vars == <<setup, channel_state, flush_active, fib, routes, prune_state, prune_fit, event,
          prune_timer, tries, walk>>

Slots == Nets \X Channels

(* Routes: their flags REF_STALE, REF_DISCARD and REF_MODIFY, and whether  *)
(* they have the community LLGR_STALE or NO_LLGR                           *)
NoRoute == [is |-> FALSE, flags |-> {}, community |-> "NONE"]

Route == [is : {TRUE}, flags : SUBSET {"STALE", "DISCARD", "MODIFY"},
          community : {"NONE", "LLGR_STALE", "NO_LLGR"}]

RoutesOf(n, table) == {s \in Slots : s[1] = n /\ table[s].is}

NoTries == [trie |-> {}, new |-> {}, building |-> FALSE, old |-> FALSE, prune |-> FALSE,
            locks |-> 0, old_locks |-> 0]

Init ==
    /\ setup \in Setups
    /\ channel_state = [c \in Channels |-> "DOWN"]
    /\ flush_active = {}
    /\ fib = {}
    /\ routes = [s \in Slots |-> NoRoute]
    /\ prune_state = 0 /\ prune_fit = {} /\ event = FALSE
    /\ prune_timer = FALSE
    /\ tries = NoTries
    /\ walk = [w \in Walks |-> "NONE"]

----------------------------------------------------------------------------
(* Faulty variants of definitions are named for what they get wrong.       *)

ScheduleOnlyIdle(wanted) ==
    /\ prune_state' = IF wanted /\ prune_state = 0 THEN 1 ELSE prune_state
    /\ event' = (event \/ (wanted /\ prune_state = 0))

(* rt_schedule_prune(), if wanted: 0 -> 1, 2 -> 3                          *)
rt_schedule_prune(wanted) ==
    /\ prune_state' = IF wanted /\ prune_state \in {0, 2} THEN prune_state + 1 ELSE prune_state
    /\ event' = (event \/ (wanted /\ prune_state = 0))

----------------------------------------------------------------------------
(* Channels and their routes.                                              *)

ChannelUp(c) ==
    /\ channel_state[c] = "DOWN"
    /\ channel_state' = [channel_state EXCEPT ![c] = "UP"]
    /\ UNCHANGED <<setup, flush_active, fib, routes, prune_state, prune_fit, event,
                   prune_timer, tries, walk>>

channel_do_flush(c) ==
    /\ channel_state[c] = "UP"
    /\ channel_state' = [channel_state EXCEPT ![c] = "FLUSHING"]
    /\ rt_schedule_prune(TRUE)
    /\ UNCHANGED <<setup, flush_active, fib, routes, prune_fit, prune_timer, tries, walk>>

(* net_init_with_trie(), if the network is new                             *)
net_init_with_trie(n) ==
    tries' = IF n \notin fib /\ setup.trie
             THEN [tries EXCEPT !.trie = @ \union {n},
                                !.new  = IF tries.building THEN @ \union {n} ELSE @]
             ELSE tries

(* The channel announces a route; a new network comes before or after the  *)
(* place the prune loop has got to.                                        *)
rte_update(c, n, community, before) ==
    /\ channel_state[c] = "UP"
    /\ community # "NONE" => c \in setup.stale
    /\ net_init_with_trie(n)
    /\ fib' = fib \union {n}
    /\ prune_fit' = IF n \notin fib /\ prune_state \in {2, 3} /\ ~before
                    THEN prune_fit \union {n} ELSE prune_fit
    /\ routes' = [routes EXCEPT ![<<n, c>>] =
                      [is |-> TRUE, flags |-> {}, community |-> community]]
    /\ UNCHANGED <<setup, channel_state, flush_active, prune_state, event, prune_timer, walk>>

(* The channel withdraws a route.  If the network has none now, and there  *)
(* are `many' such networks, the timer is kicked.                          *)
rte_withdraw(c, n, many) ==
    /\ channel_state[c] = "UP" /\ routes[<<n, c>>].is
    /\ routes' = [routes EXCEPT ![<<n, c>>] = NoRoute]
    /\ prune_timer' = (prune_timer \/ (/\ many /\ RoutesOf(n, routes') = {}
                                       /\ prune_state \in {0, 2}))
    /\ UNCHANGED <<setup, channel_state, flush_active, fib, prune_state, prune_fit, event,
                   tries, walk>>

(* There may not be many any more.                                         *)
rt_prune_timer(many) ==
    /\ prune_timer
    /\ prune_timer' = FALSE
    /\ rt_schedule_prune(many)
    /\ UNCHANGED <<setup, channel_state, flush_active, fib, routes, prune_fit, tries, walk>>

Flagged(flag, chosen) ==
    [s \in Slots |-> IF s \in chosen THEN [routes[s] EXCEPT !.flags = @ \union {flag}]
                                     ELSE routes[s]]

StaleOf(c) == {s \in Slots : s[2] = c /\ routes[s].is /\ "STALE" \in routes[s].flags}

rt_refresh_begin(c) ==
    /\ channel_state[c] = "UP" /\ c \in setup.stale
    /\ routes' = Flagged("STALE", {s \in Slots : s[2] = c /\ routes[s].is})
    /\ UNCHANGED <<setup, channel_state, flush_active, fib, prune_state, prune_fit, event,
                   prune_timer, tries, walk>>

EndUnscheduled(c) ==
    /\ channel_state[c] = "UP"
    /\ routes' = Flagged("DISCARD", StaleOf(c))
    /\ UNCHANGED <<setup, channel_state, flush_active, fib, prune_state, prune_fit, event,
                   prune_timer, tries, walk>>

rt_refresh_end(c) ==
    /\ channel_state[c] = "UP"
    /\ routes' = Flagged("DISCARD", StaleOf(c))
    /\ rt_schedule_prune(StaleOf(c) # {})
    /\ UNCHANGED <<setup, channel_state, flush_active, fib, prune_fit, prune_timer, tries, walk>>

rt_modify_stale(c) ==
    /\ channel_state[c] = "UP"
    /\ ~MayRepeat => \A s \in StaleOf(c) : routes[s].community # "LLGR_STALE"
    /\ routes' = Flagged("MODIFY", StaleOf(c))
    /\ rt_schedule_prune(StaleOf(c) # {})
    /\ UNCHANGED <<setup, channel_state, flush_active, fib, prune_fit, prune_timer, tries, walk>>

----------------------------------------------------------------------------
(* rt_prune_table(), one pass.  First, what a new cycle begins with.       *)

Begins == prune_state = 1

Flushing == {c \in Channels : channel_state[c] = "FLUSHING"}

Marked == IF Begins THEN flush_active \union Flushing ELSE flush_active

ToVisit == IF Begins THEN fib ELSE prune_fit

Building == IF Begins THEN tries.prune ELSE tries.building

NewTrie == IF Begins THEN {} ELSE tries.new

Doomed(s) == routes[s].is /\ (s[2] \in Marked \/ "DISCARD" \in routes[s].flags)

ToModify(s) == routes[s].is /\ ~Doomed(s) /\ "MODIFY" \in routes[s].flags

(* bgp_rte_modify_stale() returns a route that is marked already as it is, *)
(* and rte_modify() then changes nothing: the scan of the network begins   *)
(* again, and again finds the route, until the pass is over.               *)
Stuck(s) == ToModify(s) /\ routes[s].community = "LLGR_STALE"

Work(n) == {s \in Slots : s[1] = n /\ (Doomed(s) \/ ToModify(s))}

(* rte_discard() or rte_modify()                                           *)
Treated(s) ==
    IF Doomed(s) \/ (ToModify(s) /\ routes[s].community = "NO_LLGR") THEN NoRoute
    ELSE IF ToModify(s) /\ ~Stuck(s)
         THEN [routes[s] EXCEPT !.flags = @ \ {"MODIFY"}, !.community = "LLGR_STALE"]
         ELSE routes[s]

(* The table after some routes are treated                                 *)
TableAfter(done) == [s \in Slots |-> IF s \in done THEN Treated(s) ELSE routes[s]]

WorkIn(S) == UNION {Work(n) : n \in S}

Orphans(S) == {n \in S : RoutesOf(n, TableAfter(WorkIn(S))) = {}}

AddedToTrie(S) == IF Building THEN S \ Orphans(S) ELSE {}

Cost(S) == Cardinality(WorkIn(S)) + Cardinality(AddedToTrie(S))

(* Can the networks S be visited, in some order, before the limit is       *)
(* reached?  Only the addition to the trie may use its last unit, as the   *)
(* scan of a network begins again after everything else.                   *)
Fits(S) ==
    /\ \A s \in WorkIn(S) : ~Stuck(s)
    /\ Cost(S) < Limit \/ (Cost(S) = Limit /\ AddedToTrie(S) # {})

(* The limit is reached in network n, after the routes `part' of it.       *)
PruneInterrupted(S, n, part) ==
    /\ n \notin S /\ Fits(S)
    /\ \A s \in part : ~Stuck(s)
    /\ \/ Cost(S) + Cardinality(part) = Limit
       \/ Cost(S) + Cardinality(part) < Limit /\ \E s \in Work(n) : Stuck(s)
    /\ routes' = TableAfter(WorkIn(S) \union part)
    /\ fib' = fib \ Orphans(S)
    /\ prune_fit' = ToVisit \ S
    /\ prune_state' = IF Begins THEN 2 ELSE prune_state
    /\ flush_active' = Marked
    /\ event' = TRUE
    /\ tries' = [tries EXCEPT !.building = Building, !.new = NewTrie \union AddedToTrie(S)]
    /\ UNCHANGED <<setup, channel_state, prune_timer, walk>>

(* The trie is replaced; walks over it go on over the old one, if it is    *)
(* kept.  What happens to walks over a trie that is freed is that they are *)
(* "LOST".                                                                 *)
SwapTrie(added) ==
    /\ tries' = [NoTries EXCEPT
                    !.trie = NewTrie \union added,
                    !.old = tries.old \/ tries.locks > 0,
                    !.old_locks = IF tries.locks > 0 THEN tries.locks ELSE tries.old_locks]
    /\ walk' = [w \in Walks |->
                   IF walk[w] = "CURRENT" THEN IF tries.locks > 0 THEN "OLD" ELSE "LOST"
                   ELSE IF walk[w] = "OLD" /\ tries.locks > 0 THEN "LOST" ELSE walk[w]]

(* A trie with more than twice the networks of the FIB is to be rebuilt.   *)
RebuildIgnoringOld(count) == setup.trie /\ Cardinality(tries.trie) > 2 * count

WantsRebuild(count) ==
    setup.trie /\ ~tries.old /\ Cardinality(tries.trie) > 2 * count

(* The loop gets to the end of the table.                                  *)
FinishClosingFlushing ==
    LET left    == fib \ Orphans(ToVisit)
        rebuild == ~Building /\ WantsRebuild(Cardinality(left))
    IN  /\ Fits(ToVisit)
        /\ routes' = TableAfter(WorkIn(ToVisit))
        /\ fib' = left
        /\ prune_fit' = {}
        /\ prune_state' = IF prune_state = 3 \/ rebuild THEN 1 ELSE 0
        /\ event' = (prune_state' > 0)
        /\ IF Building THEN SwapTrie(AddedToTrie(ToVisit))
           ELSE tries' = [tries EXCEPT !.prune = @ \/ rebuild] /\ UNCHANGED walk
        /\ flush_active' = {}
        /\ channel_state' = [c \in Channels |->
                                IF c \in Flushing THEN "DOWN" ELSE channel_state[c]]
        /\ UNCHANGED <<setup, prune_timer>>

PruneFinished ==
    LET left    == fib \ Orphans(ToVisit)
        rebuild == ~Building /\ WantsRebuild(Cardinality(left))
    IN  /\ Fits(ToVisit)
        /\ routes' = TableAfter(WorkIn(ToVisit))
        /\ fib' = left
        /\ prune_fit' = {}
        /\ prune_state' = IF prune_state = 3 \/ rebuild THEN 1 ELSE 0
        /\ event' = (prune_state' > 0)
        /\ IF Building THEN SwapTrie(AddedToTrie(ToVisit))
           ELSE tries' = [tries EXCEPT !.prune = @ \/ rebuild] /\ UNCHANGED walk
        /\ flush_active' = {}
        /\ channel_state' = [c \in Channels |-> IF c \in Marked THEN "DOWN" ELSE channel_state[c]]
        /\ UNCHANGED <<setup, prune_timer>>

rt_prune_table ==
    /\ prune_state > 0
    /\ \/ PruneFinished
       \/ \E S \in SUBSET ToVisit, n \in ToVisit : \E part \in SUBSET Work(n) :
              PruneInterrupted(S, n, part)

rt_event == event /\ rt_prune_table

----------------------------------------------------------------------------
(* Walks over the trie (rt_show_cont()).                                   *)

rt_lock_trie(w) ==
    /\ setup.trie /\ walk[w] = "NONE"
    /\ walk' = [walk EXCEPT ![w] = "CURRENT"]
    /\ tries' = [tries EXCEPT !.locks = @ + 1]
    /\ UNCHANGED <<setup, channel_state, flush_active, fib, routes, prune_state, prune_fit,
                   event, prune_timer>>

UnlockCurrent(w) ==
    /\ walk[w] = "CURRENT"
    /\ tries' = [tries EXCEPT !.locks = @ - 1]
    /\ UNCHANGED <<prune_state, event>>

UnlockOld(w) ==
    LET freed   == tries.old_locks = 1
        rebuild == freed /\ Cardinality(tries.trie) > 2 * Cardinality(fib)
    IN  /\ walk[w] = "OLD"
        /\ tries' = [tries EXCEPT !.old_locks = @ - 1, !.old = ~freed, !.prune = @ \/ rebuild]
        /\ rt_schedule_prune(rebuild)

rt_unlock_trie(w) ==
    /\ UnlockCurrent(w) \/ UnlockOld(w)
    /\ walk' = [walk EXCEPT ![w] = "NONE"]
    /\ UNCHANGED <<setup, channel_state, flush_active, fib, routes, prune_fit, prune_timer>>

----------------------------------------------------------------------------
Next ==
    \/ rt_event
    \/ \E many \in BOOLEAN : rt_prune_timer(many)
    \/ \E c \in Channels :
           \/ ChannelUp(c) \/ channel_do_flush(c)
           \/ rt_refresh_begin(c) \/ rt_refresh_end(c) \/ rt_modify_stale(c)
           \/ \E n \in Nets, community \in {"NONE", "LLGR_STALE", "NO_LLGR"}, before \in BOOLEAN :
                  rte_update(c, n, community, before)
           \/ \E n \in Nets, many \in BOOLEAN : rte_withdraw(c, n, many)
    \/ \E w \in Walks : rt_lock_trie(w) \/ rt_unlock_trie(w)

Spec == Init /\ [][Next]_vars

(* The main loop runs the event.                                           *)
FairSpec == Spec /\ WF_vars(rt_event)

----------------------------------------------------------------------------
(* Types; only networks of the FIB have routes and are visited.          *)
TypeOK ==
    /\ setup \in Setups
    /\ channel_state \in [Channels -> {"DOWN", "UP", "FLUSHING"}]
    /\ flush_active \subseteq Flushing
    /\ fib \subseteq Nets
    /\ routes \in [Slots -> Route \union {NoRoute}]
    /\ \A s \in Slots : routes[s].is => s[1] \in fib
    /\ prune_state \in 0..3
    /\ prune_fit \subseteq fib
    /\ prune_state \in {0, 1} => prune_fit = {}
    /\ event \in BOOLEAN /\ prune_timer \in BOOLEAN
    /\ tries \in [trie : SUBSET Nets, new : SUBSET Nets, building : BOOLEAN, old : BOOLEAN,
                  prune : BOOLEAN, locks : Nat, old_locks : Nat]
    /\ walk \in [Walks -> {"NONE", "CURRENT", "OLD", "LOST"}]

(* A channel that is down has no routes in the table: channel_do_down()    *)
(* never has to say "is down but still has some routes".                   *)
FlushedEmpty ==
    \A s \in Slots : channel_state[s[2]] = "DOWN" => ~routes[s].is

IsDue(r) == "DISCARD" \in r.flags \/ "MODIFY" \in r.flags

(* Work that comes in the middle of a cycle is not forgotten.  While there *)
(* is any, the event is scheduled; a flushing channel is part of the cycle *)
(* or another one follows; a route to be removed or modified is ahead of   *)
(* the iterator or another cycle follows.                                  *)
WorkNotLost ==
    /\ prune_state > 0 => event
    /\ \A c \in Channels : channel_state[c] = "FLUSHING" =>
           c \in flush_active \/ prune_state \in {1, 3}
    /\ \A s \in Slots : IsDue(routes[s]) =>
           s[1] \in prune_fit \/ prune_state \in {1, 3}

(* The trie contains all networks of the table, also after it is rebuilt   *)
(* while networks come and go on both sides of the iterator.               *)
TrieComplete ==
    setup.trie => /\ fib \subseteq tries.trie
                  /\ tries.building => fib \ prune_fit \subseteq tries.new

(* No walk goes over a trie that is freed, the counters count the walks,   *)
(* and no trie is rebuilt while an old one is kept: ASSERT(!tab->trie_old).*)
WalksSafe ==
    /\ \A w \in Walks : walk[w] # "LOST"
    /\ tries.locks = Cardinality({w \in Walks : walk[w] = "CURRENT"})
    /\ tries.old_locks = Cardinality({w \in Walks : walk[w] = "OLD"})
    /\ tries.old <=> tries.old_locks > 0
    /\ tries.building \/ tries.prune => ~tries.old

(* Tries are complete and live as long as somebody walks over them: see    *)
(* TrieComplete and WalksSafe.                                             *)
TriesSafe == TrieComplete /\ WalksSafe

(* A step that gives the loop no new work on routes                        *)
NoNewWork ==
    \A s \in Slots : routes'[s].flags \ routes[s].flags \subseteq {"STALE"}

(* "After that, the channel changes state to CS_DOWN" (protocol.h): no     *)
(* flush lasts for ever, whatever routes and channels come and go          *)
(* meanwhile, if refreshes do not feed the loop faster than it can work.   *)
FlushesFinish ==
    <>[][NoNewWork]_vars => \A c \in Channels : []<>(channel_state[c] # "FLUSHING")
=============================================================================
