------------------------------ MODULE BgpBest -------------------------------
(***************************************************************************)
(* Best route selection of one network with deterministic MED:             *)
(* rte_recalculate() and rt_next_hop_update_net() (nest/rt-table.c) keep    *)
(* the best route at the head of the list, bgp_rte_better() and            *)
(* bgp_rte_recalculate() (proto/bgp/attrs.c) decide which one that is.     *)
(*                                                                         *)
(* MED is compared only between routes of one neighboring AS, so           *)
(* bgp_rte_better() alone is no order.  Every group of routes of one AS    *)
(* elects a winner, the others are marked suppressed.                      *)
(***************************************************************************)
EXTENDS Integers, Sequences, FiniteSets, SequencesExt

CONSTANTS Peers,        \* a function to the address of the peer
          RouteAttrs    \* [pref, as, aigp, pathlen, med, igp]

VARIABLES routes,       \* the list of the network: sequence of peers
          attrs,        \* peer with a route -> its attributes
          suppressed    \* peers whose route has BGP_REF_SUPPRESSED
vars == <<routes, attrs, suppressed>>

\* A route is a record of its peer, its attributes and its flag.
Rte(p, at, sup) == [peer |-> p, at |-> at[p], sup |-> p \in sup]

\* The values compared one after another, lower ones win.  The path length stands
\* for the criteria before MED, the metric for those after it that a route has,
\* the address for those of the peer.
Criteria(x, y) ==
  <<IF x.sup THEN 1 ELSE 0, x.at.aigp, x.at.pathlen,
    IF x.at.as = y.at.as THEN x.at.med ELSE 0, x.at.igp, Peers[x.peer]>>

bgp_rte_better(x, y) ==
  LET a == Criteria(x, y)  b == Criteria(y, x)
  IN  \E i \in DOMAIN a : a[i] < b[i] /\ \A j \in 1 .. i - 1 : a[j] = b[j]

rte_better(x, y) ==
  x.at.pref > y.at.pref \/ (x.at.pref = y.at.pref /\ bgp_rte_better(x, y))

\* All criteria but AIGP and those of the peer.
bgp_rte_mergable(x, y) ==
  LET a == Criteria(x, y)  b == Criteria(y, x)
  IN  \A i \in {1, 3, 4, 5} : a[i] = b[i]

same_group(x, y) == x.pref = y.pref /\ x.as = y.as

\* The first route of the sequence that no later one beats, as a loop finds it.
Elect(s, better(_, _)) ==
  FoldLeft(LAMBDA r, x : IF better(x, r) THEN x ELSE r, s[1], s)
-----------------------------------------------------------------------------
\* The group elects again: its new set of suppressed routes, and the winner.
Elected(at, all, group, best) ==
  [sup |-> all \ ({best} \cup {p \in group : bgp_rte_mergable(Rte(best, at, all), Rte(p, at, all))}),
   best |-> {best}]

GroupElection(list, at, sup, new, group) ==
  IF group = {} THEN [sup |-> sup, best |-> {}]
  ELSE LET all == sup \cup group
       IN  Elected(at, all, group,
                   Elect(SetToSeq(new) \o SelectSeq(list, LAMBDA p : p \in group \ new),
                         LAMBDA x, y : bgp_rte_better(Rte(x, at, all), Rte(y, at, all))))

Election(list, at, sup, key, new) ==
  GroupElection(list, at, sup, new, {p \in Range(list) \cup new : same_group(at[p], key)})

\* A suppressed route is replaced by one that is no better, or removed.
StaysSuppressed(at, sup, p, new, old) ==
  \E o \in old :
    /\ o.sup
    /\ new = {} \/ ~bgp_rte_better(Rte(p, at, sup), [o EXCEPT !.sup = TRUE])

\* The result e of the election forces one of the whole table.
WithForce(e, key, new, old, best) ==
  [sup |-> e.sup,
   force |-> IF e.best = {} THEN FALSE
             ELSE IF e.best = new THEN \E b \in best : same_group(b, key)
             ELSE \A o \in old : ~o.sup]

RecalculateKey(list, at, sup, p, key, new, old, best) ==
  IF StaysSuppressed(at, sup, p, new, old) THEN [sup |-> sup, force |-> FALSE]
  ELSE WithForce(Election(list, at, sup, key, new), key, new, old, best)

\* bgp_rte_recalculate() for one group.  p has the new attributes at[p] if new
\* holds it, and had old (a set of at most one route).
RecalculateGroup(list, at, sup, p, new, old, best) ==
  RecalculateKey(list, at, IF new = {} THEN sup \ {p} ELSE sup \cup {p}, p,
                 IF new # {} THEN at[p] ELSE (CHOOSE o \in old : TRUE).at, new, old, best)

\* A route that moves to another group is removed from one and added to the other.
Both(a, b) == [sup |-> b.sup, force |-> a.force \/ b.force]
AddTo(a, list, at, p, new, best) == Both(a, RecalculateGroup(list, at, a.sup, p, new, {}, best))

bgp_rte_recalculate(list, at, sup, p, new, old, best) ==
  IF new # {} /\ \E o \in old : ~same_group(o.at, at[p])
  THEN AddTo(RecalculateGroup(list, at, sup, p, {}, old, best), list, at, p, new, best)
  ELSE RecalculateGroup(list, at, sup, p, new, old, best)

ToFront(list, p) == <<p>> \o SelectSeq(list, LAMBDA q : q # p)
Reelect(list, at, sup) ==
  IF list = << >> THEN list
  ELSE ToFront(list, Elect(list, LAMBDA x, y : rte_better(Rte(x, at, sup), Rte(y, at, sup))))

\* A peer sends a route (new = {p}) or withdraws it (new = {}).
rte_recalculate(p, new, a) ==
  LET old == {Rte(q, attrs, suppressed) : q \in Range(routes) \cap {p}}
      best == IF routes = << >> THEN {} ELSE {Head(routes)}
      pos == IF old = {} THEN Len(routes) + 1 ELSE CHOOSE i \in DOMAIN routes : routes[i] = p
      list == SelectSeq(routes, LAMBDA q : q # p)
      at == [q \in Range(list) \cup new |-> IF q = p THEN a ELSE attrs[q]]
      linked == IF new = {} THEN list ELSE InsertAt(list, pos, p)
      OldBest(sup) == {[Rte(b, attrs, sup) EXCEPT !.sup = IF b = p THEN TRUE ELSE @] : b \in best}
  IN  /\ old # {} \/ new # {}
      /\ new # {} => \A o \in old : o.at # a
      /\ attrs' = at
      /\ \E r \in {bgp_rte_recalculate(list, at, suppressed, p, new, old, {attrs[b] : b \in best})} :
           /\ suppressed' = r.sup
           /\ routes' = IF r.force THEN Reelect(linked, at, r.sup)
                        ELSE IF new # {} /\ \A b \in OldBest(r.sup) : rte_better(Rte(p, at, r.sup), b)
                        THEN <<p>> \o list
                        ELSE IF best = {p} THEN Reelect(linked, at, r.sup)
                        ELSE linked

\* The next hop update changes the metric of some routes of the list, one by one,
\* and then elects the best of all.
rt_next_hop_update_net(metric) ==
  LET step(s, p) ==
        IF s.at[p].igp = metric[p] THEN s
        ELSE LET at == [s.at EXCEPT ![p].igp = metric[p]]
             IN  [at |-> at,
                  sup |-> bgp_rte_recalculate(routes, at, s.sup, p, {p},
                                              {Rte(p, s.at, s.sup)}, {}).sup]
  IN  \E end \in {FoldLeft(step, [at |-> attrs, sup |-> suppressed], routes)} :
        /\ end.at # attrs
        /\ attrs' = end.at
        /\ suppressed' = end.sup
        /\ routes' = Reelect(routes, end.at, end.sup)
-----------------------------------------------------------------------------
Init ==
  /\ routes = << >>
  /\ attrs = << >>
  /\ suppressed = {}

Next ==
  \/ \E p \in DOMAIN Peers, a \in RouteAttrs : rte_recalculate(p, {p}, a)
  \/ \E p \in Range(routes) : rte_recalculate(p, {}, attrs[p])
  \/ \E metric \in [Range(routes) -> {a.igp : a \in RouteAttrs}] : rt_next_hop_update_net(metric)
-----------------------------------------------------------------------------
\* The route RFC 4271 asks for: the best one of the winners of the groups.
Better(x, y) == rte_better(Rte(x, attrs, {}), Rte(y, attrs, {}))
Winners ==
  {p \in Range(routes) :
     \A q \in Range(routes) \ {p} : same_group(attrs[p], attrs[q]) => Better(p, q)}

\* The best route is a function of the routes there are, whatever the order they
\* came, changed and were withdrawn in, although a change only looks at the route
\* that changed, its group and the old best route.
BestByRoutes ==
  routes # << >> =>
    /\ Head(routes) \in Winners
    /\ \A q \in Winners \ {Head(routes)} : Better(Head(routes), q)

\* The winner of a group is not suppressed, and a route that is not suppressed
\* could be merged with the winner of its group.
GroupsHaveWinners ==
  /\ Winners \cap suppressed = {}
  /\ \A p \in Range(routes) \ suppressed : \E w \in Winners :
       /\ same_group(attrs[p], attrs[w])
       /\ bgp_rte_mergable(Rte(w, attrs, {}), Rte(p, attrs, {}))
=============================================================================
