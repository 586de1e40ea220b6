------------------------------ MODULE NextHops -------------------------------
(***************************************************************************)
(* Routes that depend on routes of another table: recursive next hops,     *)
(* resolved through the hostcache of the IP table, and flowspec routes,    *)
(* validated against it (nest/rt-table.c).                                 *)
(*                                                                         *)
(* One IP table is the source; one table holds recursive routes, one holds *)
(* flowspec routes.  The three have their own rt_event, so updates of      *)
(* routes come between the steps of the two walks.  A walk over a table is *)
(* the set of networks that its FIB iterator has still to visit.           *)
(***************************************************************************)
EXTENDS Integers, FiniteSets

CONSTANTS Nets,      \* networks of the IP table, a function to their prefix length
          Hosts,     \* next hop addresses, a function to the networks that cover them
          Dsts,      \* networks of the table with recursive routes
          Flows,     \* flowspec networks, a function to
                     \* [asn, dst: networks that cover it, sub: its more specific ones]
          Routes,    \* attributes of IP routes: [asn, recursive]
          None, Unreachable,
          Configs    \* [changes: bound of route changes, rivals: see Change,
                     \*  tables: those in use, of "dst" and "flow"]

VARIABLES conf,
          ip,        \* net -> [best: Routes or None, rival: BOOLEAN]
          hc,        \* the hostcache: host -> None or [src, uc]
          hc_trie,   \* host -> the shortest prefix that matters, Inf if none does
          hcu,       \* hcu_scheduled
          tab,       \* tables "dst" and "flow": [routes, nhu, todo, ev]
          flow_trie, \* flow -> as in hc_trie
          changes
vars == <<conf, ip, hc, hc_trie, hcu, tab, flow_trie, changes>>

Inf == 1000                        \* longer than any prefix

CLEAN == 0
SCHEDULED == 1
RUNNING == 2
DIRTY == 3
-----------------------------------------------------------------------------
(* Looking up *)
\* The longest of the networks that has a route, or None.
net_route(t, covers) ==
  LET with == {n \in covers : t[n].best # None}
  IN  IF with = {} THEN None ELSE CHOOSE n \in with : \A m \in with : Nets[m] <= Nets[n]

PxLen(t, covers) == LET n == net_route(t, covers) IN IF n = None THEN 0 ELSE Nets[n]

\* What a next hop resolves to.  A recursive route does not help another one; it
\* is enough that one of the routes with the best preference is recursive.
Resolve(t, h) ==
  LET n == net_route(t, Hosts[h])
  IN  IF n = None \/ t[n].best.recursive \/ t[n].rival THEN Unreachable ELSE t[n].best

\* The prefixes of the trie: when the loop ends early (goto done), the length of
\* the network was not taken over yet.
TrieLength(t, h) ==
  IF Resolve(t, h) = Unreachable THEN 0 ELSE PxLen(t, Hosts[h])

trie_match_net(trie, covers, n) == n \in covers /\ Nets[n] >= trie

\* The route covering the flow and all more specific ones come from its neighbor.
rt_flowspec_check(t, f) ==
  LET n == net_route(t, Flows[f].dst)
  IN  /\ n # None
      /\ t[n].best.asn = Flows[f].asn
      /\ \A m \in Flows[f].sub : t[m].best # None => t[m].best.asn = t[n].best.asn
-----------------------------------------------------------------------------

(* Scheduling *)
rt_schedule_nhu(t) ==
  [t EXCEPT !.ev = @ \/ t.nhu = CLEAN,
            !.nhu = IF @ \in {CLEAN, SCHEDULED} THEN SCHEDULED ELSE DIRTY]

\* rt_notify_hostcache(), called when the best route of n changes.
rt_notify_hostcache(n) ==
  hcu' = (hcu \/ \E h \in DOMAIN Hosts : trie_match_net(hc_trie[h], Hosts[h], n))

rt_flowspec_notify(flow, n) ==
  IF /\ flow.nhu \in {CLEAN, RUNNING}
     /\ \E f \in DOMAIN Flows : trie_match_net(flow_trie[f], Flows[f].dst \cup Flows[f].sub, n)
  THEN rt_schedule_nhu(flow)
  ELSE flow

\* A route of the IP table changes, the best one of n or another one with the same
\* preference.  Only the former is announced to the hostcache and the flowspecs.
Change(n, r) ==
  /\ changes < conf.changes
  /\ r # ip[n]
  /\ r.best = None => ~r.rival
  /\ ip' = [ip EXCEPT ![n] = r]
  /\ IF r.best # ip[n].best
     THEN rt_notify_hostcache(n) /\ tab' = [tab EXCEPT !["flow"] = rt_flowspec_notify(@, n)]
     ELSE UNCHANGED <<hcu, tab>>
  /\ changes' = changes + 1
  /\ UNCHANGED <<conf, hc, hc_trie, flow_trie>>
-----------------------------------------------------------------------------
(* Recursive routes and flowspec routes come and go *)
\* A new network is hashed to a place the iterator has passed, or has not.
Insert(t, d, r) ==
  {[t EXCEPT !.routes[d] = r, !.todo = todo] :
     todo \in IF t.nhu \in {RUNNING, DIRTY} /\ t.routes[d] = None
              THEN {t.todo, t.todo \cup {d}} ELSE {t.todo}}

\* The use count is the number of routes (through their rta) with the hostentry.
Use(cache, h, k) == IF h = None THEN cache ELSE [cache EXCEPT ![h].uc = @ + k]
HostOf(r) == IF r = None THEN None ELSE r.host

rta_apply_hostentry(h, cache) == [host |-> h, res |-> cache[h].src]

\* rt_get_hostentry() and the import of the route.
Recursive(d, h) ==
  /\ "dst" \in conf.tables /\ changes < conf.changes
  /\ LET he == IF hc[h] # None THEN hc[h] ELSE [src |-> Resolve(ip, h), uc |-> 0]
         cache == [hc EXCEPT ![h] = he]
         r == rta_apply_hostentry(h, cache)
     IN  /\ r # tab["dst"].routes[d]
         /\ hc' = Use(Use(cache, HostOf(tab["dst"].routes[d]), -1), h, 1)
         /\ hc_trie' = IF hc[h] # None THEN hc_trie
                       ELSE [hc_trie EXCEPT ![h] = IF TrieLength(ip, h) < @ THEN TrieLength(ip, h) ELSE @]
         /\ \E t \in Insert(tab["dst"], d, r) : tab' = [tab EXCEPT !["dst"] = t]
  /\ changes' = changes + 1
  /\ UNCHANGED <<conf, ip, hcu, flow_trie>>

\* bgp_apply_flow_validation() and the import of the route.
Flow(f) ==
  /\ "flow" \in conf.tables /\ changes < conf.changes
  /\ flow_trie' = [flow_trie EXCEPT ![f] = IF PxLen(ip, Flows[f].dst) < @
                                           THEN PxLen(ip, Flows[f].dst) ELSE @]
  /\ \E t \in Insert(tab["flow"], f, [valid |-> rt_flowspec_check(ip, f)]) :
       tab' = [tab EXCEPT !["flow"] = t]
  /\ changes' = changes + 1
  /\ UNCHANGED <<conf, ip, hc, hc_trie, hcu>>

Withdraw(k, d) ==
  /\ changes < conf.changes
  /\ tab[k].routes[d] # None
  /\ hc' = IF k = "dst" THEN Use(hc, HostOf(tab[k].routes[d]), -1) ELSE hc
  /\ tab' = [tab EXCEPT ![k].routes[d] = None, ![k].todo = @ \ {d}]
  /\ changes' = changes + 1
  /\ UNCHANGED <<conf, ip, hc_trie, hcu, flow_trie>>
-----------------------------------------------------------------------------
(* rt_event() of the three tables *)
\* All hostentries are resolved again; unused ones are freed.
rt_update_hostcache ==
  /\ hcu
  /\ hcu' = FALSE
  /\ hc' = [h \in DOMAIN Hosts |->
              IF hc[h] = None \/ hc[h].uc = 0 THEN None
              ELSE [hc[h] EXCEPT !.src = Resolve(ip, h)]]
  /\ hc_trie' = [h \in DOMAIN Hosts |-> IF hc'[h] = None THEN Inf ELSE TrieLength(ip, h)]
  /\ tab' = IF \E h \in DOMAIN Hosts : hc'[h] # None /\ hc'[h].src # hc[h].src
            THEN [tab EXCEPT !["dst"] = rt_schedule_nhu(@)] ELSE tab
  /\ UNCHANGED <<conf, ip, flow_trie, changes>>

\* rt_next_hop_update_net() for the routes of one network.
rt_next_hop_update_net(k, d) ==
  LET r == tab[k].routes[d]
  IN  IF k = "flow" THEN [valid |-> rt_flowspec_check(ip, d)]
      ELSE rta_apply_hostentry(r.host, hc)

\* DIRTY -> SCHEDULED, RUNNING -> CLEAN
NhuEnd(t) ==
  [t EXCEPT !.nhu = IF @ = DIRTY THEN SCHEDULED ELSE CLEAN, !.ev = t.nhu = DIRTY]

\* The event begins a walk, continues it with one network (the walk is suspended
\* when enough routes changed), or ends it.
rt_next_hop_update(k) ==
  /\ tab[k].ev
  /\ \/ /\ tab[k].nhu = SCHEDULED
        /\ tab' = [tab EXCEPT ![k].nhu = RUNNING,
                              ![k].todo = {d \in DOMAIN tab[k].routes : tab[k].routes[d] # None}]
        /\ flow_trie' = IF k = "flow" THEN [f \in DOMAIN Flows |-> Inf] ELSE flow_trie
     \/ /\ tab[k].nhu \in {RUNNING, DIRTY}
        /\ \E d \in tab[k].todo :
             /\ tab' = [tab EXCEPT ![k].routes[d] = rt_next_hop_update_net(k, d),
                                   ![k].todo = @ \ {d}]
             /\ flow_trie' = IF k = "flow"
                             THEN [flow_trie EXCEPT ![d] =
                                     IF PxLen(ip, Flows[d].dst) < @ THEN PxLen(ip, Flows[d].dst) ELSE @]
                             ELSE flow_trie
     \/ /\ tab[k].nhu \in {RUNNING, DIRTY} /\ tab[k].todo = {}
        /\ tab' = [tab EXCEPT ![k] = NhuEnd(@)]
        /\ UNCHANGED flow_trie
  /\ UNCHANGED <<conf, ip, hc, hc_trie, hcu, changes>>
-----------------------------------------------------------------------------
Table(D) == [routes |-> [d \in D |-> None], nhu |-> CLEAN, todo |-> {}, ev |-> FALSE]

Init ==
  /\ conf \in Configs
  /\ ip = [n \in DOMAIN Nets |-> [best |-> None, rival |-> FALSE]]
  /\ hc = [h \in DOMAIN Hosts |-> None]
  /\ hc_trie = [h \in DOMAIN Hosts |-> Inf]
  /\ hcu = FALSE
  /\ tab = [dst |-> Table(Dsts), flow |-> Table(DOMAIN Flows)]
  /\ flow_trie = [f \in DOMAIN Flows |-> Inf]
  /\ changes = 0

Next ==
  \/ \E n \in DOMAIN Nets, b \in Routes \cup {None}, v \in conf.rivals :
       Change(n, [best |-> b, rival |-> v])
  \/ \E d \in Dsts, h \in DOMAIN Hosts : Recursive(d, h)
  \/ \E f \in DOMAIN Flows : Flow(f)
  \/ \E d \in Dsts : Withdraw("dst", d)
  \/ \E f \in DOMAIN Flows : Withdraw("flow", f)
  \/ rt_update_hostcache
  \/ rt_next_hop_update("dst")
  \/ rt_next_hop_update("flow")
-----------------------------------------------------------------------------
Quiet == ~hcu /\ ~tab["dst"].ev /\ ~tab["flow"].ev

\* When no event of the tables is waiting, every recursive route has the next hop
\* its address resolves to now, and every flowspec route is marked valid exactly
\* when the IP routes justify it: no change is lost in the tries, in the states
\* of the two walks or in what was freed.
Settled ==
  Quiet => /\ \A d \in Dsts : LET r == tab["dst"].routes[d]
                              IN  r # None => r.res = Resolve(ip, r.host)
           /\ \A f \in DOMAIN Flows : LET r == tab["flow"].routes[f]
                                      IN  r # None => r.valid = rt_flowspec_check(ip, f)

\* A route never keeps a pointer to a freed hostentry: the use counts are the
\* numbers of routes.
HostentriesHeld ==
  \A h \in DOMAIN Hosts :
    LET users == {d \in Dsts : HostOf(tab["dst"].routes[d]) = h}
    IN  IF hc[h] = None THEN users = {} ELSE hc[h].uc = Cardinality(users)

\* The walks end once the routes no longer change.
Settles == <>[]Quiet
=============================================================================
