----------------------------- MODULE OspfAreas -----------------------------
(***************************************************************************)
(* The routing table of OSPF and the LSAs it depends on and leads to: the  *)
(* router-, network- and prefix-LSAs of the topology (topology.c), the     *)
(* shortest paths in an area, routes between areas, virtual links, stub    *)
(* and not-so-stubby areas, and external routes (rt.c).                    *)
(*                                                                         *)
(* Flooding is immediate here: OspfExchange is about the rest of it.  A    *)
(* router is a number below 10.  A node of the graph is a router or a      *)
(* network, 10 * interface + designated router.  The address of a router   *)
(* on an interface is known by the two, so a next hop is [gw, if] with the *)
(* gateway 0 on the own network; both are 0 for the next hop through a     *)
(* virtual link.                                                           *)
(***************************************************************************)
EXTENDS Integers, Sequences, FiniteSets, TLC, SequencesExt, FiniteSetsExt

CONSTANTS
    Configs,    \* networks: see Topology below
    LSINFINITY

VARIABLES
    conf,       \* the configuration, and the bounds, which count down
    up,         \* <<router, interface>> of the interfaces that are up
    exports,    \* the external routes given to OSPF, [rt, net, m1, m2, fw]
    lsdb,       \* the LSAs: a set for each type
    vl,         \* for each router, the virtual links that are up
    tr,         \* for each router, the translator state of its NSSAs
    rtf,        \* the routing table of each router
    todo        \* routers with a calculation scheduled

vars == <<conf, up, exports, lsdb, vl, tr, rtf, todo>>

(***************************************************************************)
(* The configuration.  conf.ifaces is a set of [id, area, kind, net, cost] *)
(* where cost is a function on the routers of that network, and            *)
(* conf.areas[a] describes an area.  conf.covers[n] is the sequence of the *)
(* prefixes that contain n, the longest first.                             *)
(***************************************************************************)

Iface(id) == CHOOSE i \in conf.ifaces : i.id = id
Router == UNION {DOMAIN i.cost : i \in conf.ifaces}
AreasOf(r) == {i.area : i \in {j \in conf.ifaces : r \in DOMAIN j.cost}}
                \cup {0 : v \in {w \in conf.vlinks : r \in w.ends}}
IsAbr(r) == Cardinality(AreasOf(r)) > 1

oa_is_stub(a) == conf.areas[a].type = "stub"
oa_is_ext(a) == conf.areas[a].type = "ext"
oa_is_nssa(a) == conf.areas[a].type = "nssa"

DefaultNet == "default"

\* The longest prefix of set that contains net, or none.
fib_route(set, net) ==
    LET found == {i \in DOMAIN conf.covers[net] : conf.covers[net][i] \in set}
    IN  IF found = {} THEN {} ELSE {conf.covers[net][Min(found)]}

ospf_main_area(r) == IF IsAbr(r) THEN 0 ELSE CHOOSE a \in AreasOf(r) : TRUE

(***************************************************************************)
(* Origination of the LSAs that describe the topology                      *)
(***************************************************************************)

IsUp(r, i) == <<r, i.id>> \in up
Members(i) == {r \in DOMAIN i.cost : IsUp(r, i)}
Full(r, q, i) == r # q /\ {r, q} \subseteq Members(i)

\* The designated router of a network; OspfIface is about its election.
Dr(i) == Max(Members(i))
NetNode(i) == 10 * i.id + Dr(i)
IsNet(node) == node >= 10

bcast_net_active(r, i) == IsUp(r, i) /\ Cardinality(Members(i)) > 1

Mine(r, a) == {i \in conf.ifaces : i.area = a /\ r \in DOMAIN i.cost /\ IsUp(r, i)}
VlinkUp(r, q) == q \in DOMAIN vl[r]
VlinkFull(r, q) == VlinkUp(r, q) /\ VlinkUp(q, r)
VlinkPeers(r) == {(CHOOSE q \in v.ends : q # r) : v \in {w \in conf.vlinks : r \in w.ends}}
Through(r, q) == (CHOOSE v \in conf.vlinks : v.ends = {r, q}).area

configured_stubnet(r, a, net) ==
    \E sn \in conf.stubnets : sn.rt = r /\ sn.area = a
                              /\ (IF sn.summary THEN sn.net \in ToSet(conf.covers[net])
                                  ELSE sn.net = net)

get_rt_options(r, a, bitv) ==
    (IF IsAbr(r) THEN {"B"} ELSE {})
    \cup (IF IsAbr(r) /\ oa_is_nssa(a) /\ r \in conf.areas[a].translators THEN {"NT"} ELSE {})
    \cup (IF r \in conf.asbrs /\ ~oa_is_stub(a) THEN {"E"} ELSE {})
    \cup (IF bitv THEN {"V"} ELSE {})

\* The networks of the interfaces and configured stub networks: stub links
\* of the router-LSA in OSPFv2, the prefix-LSA of the router in OSPFv3.
Stubs(r, a) ==
    {[net |-> i.net, metric |-> i.cost[r], if |-> i.id] :
        i \in {j \in Mine(r, a) : /\ ~(j.kind = "lan" /\ bcast_net_active(r, j))
                                  /\ ~configured_stubnet(r, a, j.net)}}
    \cup {[net |-> sn.net, metric |-> sn.cost, if |-> 0] :
             sn \in {s \in conf.stubnets : s.rt = r /\ s.area = a /\ ~s.hidden}}

Links(r, a) ==
    UNION {{[type |-> "PTP", id |-> q, metric |-> i.cost[r], if |-> i.id] :
               q \in {n \in Members(i) : Full(r, n, i)}} :
             i \in {j \in Mine(r, a) : j.kind = "ptp"}}
    \cup {[type |-> "NET", id |-> NetNode(i), metric |-> i.cost[r], if |-> i.id] :
             i \in {j \in Mine(r, a) : j.kind = "lan" /\ bcast_net_active(r, j)}}
    \cup {[type |-> "VLNK", id |-> q, metric |-> vl[r][q].cost, if |-> 0] :
             q \in {p \in VlinkPeers(r) : a = 0 /\ VlinkFull(r, p)}}

\* prepare_rt2_lsa_body(), and the OSPFv3 twin with its prefix-LSA.
RouterLsa(r, a) ==
    [area |-> a, rt |-> r, links |-> Links(r, a), stubs |-> Stubs(r, a),
     options |-> get_rt_options(r, a, \E q \in VlinkPeers(r) :
                                        Through(r, q) = a /\ VlinkFull(r, q))]

\* Network-LSAs of the networks the router is designated for.
NetworkLsas(r, a) ==
    {[area |-> a, rt |-> r, node |-> NetNode(i), net |-> i.net, routers |-> Members(i)] :
        i \in {j \in Mine(r, a) : j.kind = "lan" /\ bcast_net_active(r, j) /\ Dr(j) = r}}

ospf_update_topology(db, r) ==
    [db EXCEPT !.rt = {l \in @ : l.rt # r} \cup {RouterLsa(r, a) : a \in AreasOf(r)},
               !.net = {l \in @ : l.rt # r} \cup UNION {NetworkLsas(r, a) : a \in AreasOf(r)}]

(***************************************************************************)
(* External LSAs from the export of routes (ospf_rt_notify)                *)
(***************************************************************************)

NoAddr == [net |-> "none", rt |-> 0]

\* Of the addresses in the area, one of a stub interface is preferred.
find_surrogate_fwaddr(r, a) ==
    LET stubs == {i \in Mine(r, a) : i.kind = "stub"}
        set == IF stubs # {} THEN stubs ELSE Mine(r, a)
        i == CHOOSE x \in set : \A y \in set : x.id <= y.id
    IN  IF set = {} THEN NoAddr ELSE [net |-> i.net, rt |-> r]

\* The metrics of the exported route; 0 stands for a missing one.  The
\* default of metric 2 is 9 here.
ExtMetric(e) ==
    LET m2 == Min({IF e.m2 # 0 THEN e.m2 ELSE 9, LSINFINITY})
        m2b == IF e.m1 > 0 /\ m2 < LSINFINITY THEN m2 + 1 ELSE m2
        ebit == e.m2 # 0 \/ e.m1 = 0
    IN  [ebit |-> ebit, metric |-> IF ebit THEN m2b ELSE Min({e.m1, LSINFINITY})]

\* The area of an NSSA-LSA, or -1 for an external LSA.
ExportArea(r) ==
    IF ~IsAbr(r) /\ oa_is_nssa(ospf_main_area(r)) THEN ospf_main_area(r) ELSE -1

ExtLsa(r, a, net, metric, ebit, fw, pbit) ==
    [area |-> a, rt |-> r, net |-> net, metric |-> metric, ebit |-> ebit, fw |-> fw,
     prop |-> pbit]

Exported(e) ==
    LET m == ExtMetric(e)
    IN  ExtLsa(e.rt, ExportArea(e.rt), e.net, m.metric, m.ebit, e.fw, ExportArea(e.rt) # -1)

(***************************************************************************)
(* Entries of the routing tables                                           *)
(***************************************************************************)

RTS_OSPF == 1
RTS_OSPF_IA == 2
RTS_OSPF_EXT1 == 3
RTS_OSPF_EXT2 == 4

NoLsa == ExtLsa(0, -1, "none", 0, FALSE, NoAddr, FALSE)
Orta(type, options, metric, rid, a, nhs) ==
    [type |-> type, options |-> options, metric1 |-> metric, metric2 |-> 0, rid |-> rid,
     oa |-> a, voa |-> -1, nhs |-> nhs, en |-> NoLsa]

Dummy == [gw |-> 0, if |-> 0]
Hop(gw, if) == {[gw |-> gw, if |-> if]}

\* Next hops are kept sorted; the one on the own network comes first.
First(nhs) == CHOOSE x \in nhs : \A y \in nhs : x.gw < y.gw \/ (x.gw = y.gw /\ x.if <= y.if)
nh_is_vlink(nhs) == nhs # {} /\ First(nhs).gw = 0 /\ First(nhs).if = 0

epath_preferred(ep) == ep.type = RTS_OSPF /\ ep.oa # 0

orta_prio(nf) ==
    IF {"NSSA", "PROP"} \subseteq nf.options THEN 2
    ELSE IF {"NSSA", "PROP"} \cap nf.options = {} THEN 1 ELSE 0

orta_prefer_lsa(new, old) ==
    \/ orta_prio(new) > orta_prio(old)
    \/ orta_prio(new) = orta_prio(old) /\ new.en.rt > old.en.rt

\* Positive when the new entry is preferred, 0 when both are kept.
orta_compare(new, old) ==
    IF old.type # new.type THEN old.type - new.type
    ELSE IF old.metric1 # new.metric1 THEN old.metric1 - new.metric1
    ELSE IF old.oa # new.oa THEN new.oa - old.oa
    ELSE IF old.nhs = {} THEN -1
    ELSE IF new.nhs = {} THEN 1
    ELSE IF nh_is_vlink(new.nhs) THEN -1
    ELSE IF nh_is_vlink(old.nhs) THEN 1
    ELSE IF conf.ecmp THEN 0
    ELSE IF new.rid > old.rid THEN 1 ELSE -1

Diff(b, c) == IF b = c THEN 0 ELSE IF b THEN 1 ELSE -1

orta_compare_asbr(new, old) ==
    LET pref == IF conf.rfc1583 THEN 0 ELSE Diff(epath_preferred(new), epath_preferred(old))
    IN  IF pref # 0 THEN pref
        ELSE IF old.metric1 # new.metric1 THEN old.metric1 - new.metric1
        ELSE IF new.oa > old.oa THEN 1 ELSE -1

orta_compare_ext(new, old) ==
    LET pref == IF conf.rfc1583 THEN 0 ELSE Diff("PREF" \in new.options, "PREF" \in old.options)
    IN  IF old.type # new.type THEN old.type - new.type
        ELSE IF new.type = RTS_OSPF_EXT2 /\ old.metric2 # new.metric2 THEN old.metric2 - new.metric2
        ELSE IF pref # 0 THEN pref
        ELSE IF old.metric1 # new.metric1 THEN old.metric1 - new.metric1
        ELSE IF conf.ecmp /\ conf.merge_external THEN 0
        ELSE IF orta_prefer_lsa(new, old) THEN 1 ELSE -1

ort_merge(old, new) ==
    [old EXCEPT !.nhs = @ \cup new.nhs, !.rid = Max({@, new.rid})]

ort_merge_ext(old, new) ==
    LET both == [old EXCEPT !.nhs = @ \cup new.nhs]
    IN  IF orta_prefer_lsa(new, old)
        THEN [both EXCEPT !.options = new.options, !.rid = new.rid, !.oa = new.oa, !.en = new.en]
        ELSE both

\* A table with a new entry for key, by the given comparison and merge.
Install(tab, key, new, Compare(_, _), Merge(_, _)) ==
    IF key \notin DOMAIN tab THEN (key :> new) @@ tab
    ELSE LET cmp == Compare(new, tab[key])
         IN  IF cmp > 0 THEN (key :> new) @@ tab
             ELSE IF cmp = 0 THEN (key :> Merge(tab[key], new)) @@ tab
             ELSE tab

ri_install(tab, key, new) == Install(tab, key, new, orta_compare, ort_merge)
ri_install_asbr(tab, key, new) == Install(tab, key, new, orta_compare_asbr, ort_merge)
ri_install_ext(tab, key, new) == Install(tab, key, new, orta_compare_ext, ort_merge_ext)

Drop(tab, keys) == [k \in DOMAIN tab \ keys |-> tab[k]]

(***************************************************************************)
(* Shortest paths in an area.  T has the list of candidates, the nodes     *)
(* that are done, and for each node its distance, next hops and the        *)
(* address of the link back.                                               *)
(***************************************************************************)

RtLsas(db, a, node) == {l \in db.rt : l.area = a /\ l.rt = node}
NetLsas(db, a, node) == {l \in db.net : l.area = a /\ l.node = node}
Exists(db, a, node) == RtLsas(db, a, node) \cup NetLsas(db, a, node) # {}
TheOf(set) == CHOOSE l \in set : TRUE

Nodes(db, a) == {l.rt : l \in {m \in db.rt : m.area = a}}
                \cup {l.node : l \in {m \in db.net : m.area = a}}

\* The address of en on the link back to par, by its interface.  None of a
\* point-to-point link: link_back() sets it for networks only, and OSPFv3
\* takes it from a prefix-LSA later.
LinkBack(db, a, en, par, link) ==
    IF IsNet(en) THEN IF par \in TheOf(NetLsas(db, a, en)).routers THEN {0} ELSE {}
    ELSE {IF l.type = "NET" /\ ~conf.v3 THEN l.if ELSE 0 :
             l \in {m \in TheOf(RtLsas(db, a, en)).links :
                       m.id = par /\ (conf.v3 /\ m.type # "NET" => m.if = link.if)}}

inherit_nexthops(pn) == pn # {} /\ (First(pn).gw # 0 \/ First(pn).if = 0)

calc_next_hop(r, nhs, en, par, link) ==
    LET pn == nhs[par] IN
    IF inherit_nexthops(pn) THEN pn
    ELSE IF par = r /\ IsNet(en) THEN Hop(0, link.if)
    ELSE IF par = r
    THEN IF link.type = "VLNK" THEN {Dummy}
         ELSE IF Full(r, en, Iface(link.if)) THEN Hop(en, link.if) ELSE {}
    ELSE IF ~IsNet(en) /\ IsNet(par) /\ pn # {} THEN Hop(en, First(pn).if)
    ELSE {}

\* Behind the candidates that are nearer, and behind networks as near.
Insert(T, en, d) ==
    LET later == {i \in DOMAIN T.cand : \/ T.dist[T.cand[i]] > d
                                        \/ T.dist[T.cand[i]] = d /\ ~IsNet(T.cand[i])}
    IN  InsertAt(T.cand, IF later = {} THEN Len(T.cand) + 1 ELSE Min(later), en)

\* As add_cand(), but a shorter path to a candidate is missed.
CandFirst(db, r, a, T, en, par, d, link) ==
    LET nhs == calc_next_hop(r, T.nhs, en, par, link)
    IN  IF ~Exists(db, a, en) \/ en \in T.inspf \/ T.nhs[en] # {} \/ nhs = {}
           \/ d >= LSINFINITY \/ LinkBack(db, a, en, par, link) = {} THEN T
        ELSE [T EXCEPT !.cand = Insert(T, en, d), !.nhs[en] = nhs, !.dist[en] = d,
                       !.lb[en] = Max(LinkBack(db, a, en, par, link))]

add_cand(db, r, a, T, en, par, d, link) ==
    LET back == LinkBack(db, a, en, par, link)
        T1 == [T EXCEPT !.lb[en] = Max(back)]
        nhs == calc_next_hop(r, T.nhs, en, par, link)
        T2 == [T1 EXCEPT !.cand = SelectSeq(@, LAMBDA c : c # en)]
    IN  IF ~Exists(db, a, en) \/ en \in T.inspf \/ d > T.dist[en] THEN T
        ELSE IF back = {} THEN [T EXCEPT !.lb[en] = 0]
        ELSE IF nhs = {} THEN T1
        ELSE IF d = T.dist[en] /\ ~nh_is_vlink(T.nhs[en])
        THEN IF ~conf.ecmp \/ nh_is_vlink(nhs) THEN T1 ELSE [T1 EXCEPT !.nhs[en] = @ \cup nhs]
        ELSE [T2 EXCEPT !.cand = Insert(T2, en, d), !.nhs[en] = nhs, !.dist[en] = d]

\* Local networks have the interface as their next hop, configured stub
\* networks have none.
add_network(tab, r, a, stub, d, rid, nhs) ==
    LET hops == IF rid # r THEN nhs ELSE IF stub.if = 0 THEN {} ELSE Hop(0, stub.if)
    IN  ri_install(tab, stub.net, Orta(RTS_OSPF, {}, d + stub.metric, rid, a, hops))

AddStubs(tab, r, a, T, l) ==
    FoldLeft(LAMBDA t, s : add_network(t, r, a, s, T.dist[l.rt], l.rt, T.nhs[l.rt]),
             tab, SetToSeq(l.stubs))

AddNet(tab, a, T, l) ==
    ri_install(tab, l.net, Orta(RTS_OSPF, {}, T.dist[l.node], l.rt, a, T.nhs[l.node]))

\* R holds what the calculation has found so far: T and the tables.
spfa_process_rt(R, r, a, l) ==
    LET T == R.T
        R1 == IF "V" \in l.options THEN [R EXCEPT !.trcap = @ \cup {a}] ELSE R
        R2 == IF {"E", "B"} \cap l.options # {} /\ l.rt # r
              THEN [R1 EXCEPT !.rtr[a] = ri_install(@, l.rt,
                       Orta(RTS_OSPF, l.options, T.dist[l.rt], l.rt, a, T.nhs[l.rt]))]
              ELSE R1
        R3 == IF conf.v3 THEN R2 ELSE [R2 EXCEPT !.rtf = AddStubs(@, r, a, T, l)]
    IN  [R3 EXCEPT !.T = FoldLeft(LAMBDA U, k : add_cand(R.db, r, a, U, k.id, l.rt,
                                                         U.dist[l.rt] + k.metric, k),
                                  T, SetToSeq(l.links))]

NoLink == [type |-> "NONE", id |-> 0, metric |-> 0, if |-> 0]

spfa_process_net(R, r, a, l) ==
    LET R1 == IF conf.v3 THEN R ELSE [R EXCEPT !.rtf = AddNet(@, a, R.T, l)]
    IN  [R1 EXCEPT !.T = FoldLeft(LAMBDA U, q : add_cand(R.db, r, a, U, q, l.node,
                                                         U.dist[l.node], NoLink),
                                  R.T, SetToSeq(l.routers))]

\* OSPFv3: the prefixes of the nodes that were reached.
spfa_process_prefixes(R, r, a) ==
    LET rts == {l \in R.db.rt : l.area = a /\ l.rt \in R.T.inspf}
        nets == {l \in R.db.net : l.area = a /\ l.node \in R.T.inspf}
        tab == FoldLeft(LAMBDA t, l : AddStubs(t, r, a, R.T, l), R.rtf, SetToSeq(rts))
    IN  [R EXCEPT !.rtf = FoldLeft(LAMBDA t, l : AddNet(t, a, R.T, l), tab, SetToSeq(nets)),
                  !.T.lb = [n \in DOMAIN @ |-> IF n \in {l.rt : l \in rts} THEN 1 ELSE @[n]]]

RECURSIVE SpfLoop(_, _, _)
SpfLoop(R, r, a) ==
    IF R.T.cand = <<>> THEN R
    ELSE LET act == Head(R.T.cand)
             R1 == [R EXCEPT !.T.cand = Tail(@), !.T.inspf = @ \cup {act}]
         IN  SpfLoop(IF IsNet(act) THEN spfa_process_net(R1, r, a, TheOf(NetLsas(R.db, a, act)))
                     ELSE spfa_process_rt(R1, r, a, TheOf(RtLsas(R.db, a, act))), r, a)

KeepSpf(R, a) == [R EXCEPT !.spf = (a :> R.T) @@ @]

ospf_rt_spfa(R, r, a) ==
    LET all == Nodes(R.db, a) \cup UNION {{k.id : k \in l.links} : l \in R.db.rt}
                              \cup UNION {l.routers : l \in R.db.net}
        T0 == [cand |-> <<r>>, inspf |-> {}, nhs |-> [n \in all |-> {}],
               dist |-> [n \in all |-> IF n = r THEN 0 ELSE LSINFINITY],
               lb |-> [n \in all |-> 0]]
        Prefixed(S) == IF conf.v3 THEN spfa_process_prefixes(S, r, a) ELSE S
    IN  IF RtLsas(R.db, a, r) = {} THEN R
        ELSE KeepSpf(Prefixed(SpfLoop([R EXCEPT !.T = T0], r, a)), a)

(***************************************************************************)
(* Routes between areas                                                    *)
(***************************************************************************)

\* A summary is usable when its border router is known in that area.
Abr(R, a, rid) ==
    LET tab == R.rtr[a]
    IN  IF rid \in DOMAIN tab /\ "B" \in tab[rid].options /\ tab[rid].type = RTS_OSPF
        THEN {tab[rid]} ELSE {}

SumNetOrta(abr, a, l) == Orta(RTS_OSPF_IA, {}, abr.metric1 + l.metric, l.rt, a, abr.nhs)
SumRtOrta(abr, a, l) == Orta(RTS_OSPF_IA, {"E"}, abr.metric1 + l.metric, l.rt, a, abr.nhs)

ospf_rt_sum(R, r, a) ==
    LET Use(set) == {l \in set : l.area = a /\ l.rt # r /\ l.metric < LSINFINITY
                                 /\ Abr(R, a, l.rt) # {}}
        abr(l) == TheOf(Abr(R, a, l.rt))
        rts == {l \in Use(R.db.asbr) : l.dst # r}
    IN  [R EXCEPT !.rtf = FoldLeft(LAMBDA t, l : ri_install(t, l.net, SumNetOrta(abr(l), a, l)),
                                   @, SetToSeq(Use(R.db.sum))),
                  !.rtr[a] = FoldLeft(LAMBDA t, l : ri_install(t, l.dst, SumRtOrta(abr(l), a, l)),
                                      @, SetToSeq(rts))]

unresolved_vlink(re) == nh_is_vlink(re.nhs)

\* A better way through a transit area for what is reached by the backbone.
Shorten(tab, key, abr, metric, a) ==
    IF key \notin DOMAIN tab THEN tab
    ELSE LET re == tab[key]
             iac == abr.metric1 + metric
         IN  IF /\ re.oa = 0 /\ re.type \in {RTS_OSPF, RTS_OSPF_IA}
                /\ iac < re.metric1 \/ (iac = re.metric1 /\ unresolved_vlink(re))
             THEN (key :> [re EXCEPT !.metric1 = iac, !.voa = a, !.nhs = abr.nhs]) @@ tab
             ELSE tab

ospf_rt_sum_tr(R, r, a) ==
    LET Use(set) == {l \in set : l.area = a /\ l.rt # r /\ l.metric < LSINFINITY
                                 /\ l.rt \in DOMAIN R.rtr[a]}
        abr(l) == R.rtr[a][l.rt]
    IN  [R EXCEPT !.rtf = FoldLeft(LAMBDA t, l : Shorten(t, l.net, abr(l), l.metric, a),
                                   @, SetToSeq(Use(R.db.sum))),
                  !.rtr[0] = FoldLeft(LAMBDA t, l : Shorten(t, l.dst, abr(l), l.metric, a),
                                      @, SetToSeq(Use(R.db.asbr)))]

(***************************************************************************)
(* What a border router tells                                              *)
(***************************************************************************)

SumNet(r, a, net, metric) == [area |-> a, rt |-> r, net |-> net, metric |-> metric]
SumRt(r, a, dst, metric) == [area |-> a, rt |-> r, dst |-> dst, metric |-> metric]

Summaries(a) == oa_is_ext(a) \/ conf.areas[a].summary

\* anet of area b is active when R.anets has its metric.
decide_anet_lsa(R, a, anet, b) ==
    /\ Summaries(a) /\ a # b
    /\ ~(b = 0 /\ a \in R.trcap)
    /\ <<b, anet>> \in DOMAIN R.anets /\ ~conf.areas[b].nets[anet]

decide_sum_lsa(R, a, net, nf, dest) ==
    /\ Summaries(a) /\ nf.type <= RTS_OSPF_IA /\ nf.oa # a /\ nf.voa # a
    /\ nf.metric1 < LSINFINITY
    /\ IF dest = "router" THEN oa_is_ext(a) /\ "E" \in nf.options
       ELSE IF nf.type = RTS_OSPF_IA THEN a # 0
       ELSE (nf.oa = 0 /\ a \in R.trcap) \/ fib_route(DOMAIN conf.areas[nf.oa].nets, net) = {}

check_sum_rt_lsa(R, r) ==
    {SumRt(r, a, dst, R.rtr[0][dst].metric1) : <<a, dst>> \in
        {x \in AreasOf(r) \X DOMAIN R.rtr[0] :
            decide_sum_lsa(R, x[1], DefaultNet, R.rtr[0][x[2]], "router")}}

\* The condensed networks of the areas, and those for external routes.
Anets == [a \in DOMAIN conf.areas |-> conf.areas[a].nets]
Enets == [a \in DOMAIN conf.areas |-> conf.areas[a].enets]

\* The area that net is a condensed network of, among those of the router.
AnetArea(r, net, nets) == {b \in AreasOf(r) : net \in DOMAIN nets[b]}

check_sum_net_lsa(R, r) ==
    LET Owner(net) == AnetArea(r, net, Anets)
        all == (DOMAIN R.rtf \cup {x[2] : x \in DOMAIN R.anets}) \ {DefaultNet}
        Sums(a, net) ==
            IF Owner(net) # {} /\ decide_anet_lsa(R, a, net, TheOf(Owner(net)))
            THEN {SumNet(r, a, net, R.anets[<<TheOf(Owner(net)), net>>])}
            ELSE IF net \in DOMAIN R.rtf /\ decide_sum_lsa(R, a, net, R.rtf[net], "net")
            THEN {SumNet(r, a, net, R.rtf[net].metric1)} ELSE {}
    IN  UNION {Sums(a, net) : <<a, net>> \in AreasOf(r) \X all}

\* The metric of the active condensed networks: the largest of their parts.
Condensed(nets, tab, metric) ==
    LET Of(n) == {<<tab[n].oa, x>> : x \in fib_route(DOMAIN nets[tab[n].oa], n)}
        keys == UNION {Of(n) : n \in DOMAIN metric}
    IN  [k \in keys |-> Max({metric[n] : n \in {m \in DOMAIN metric : k \in Of(m)}})]

\* A link to a peer that the transit area reaches at a known address.
ospf_check_vlinks(R, r) ==
    LET T(q) == R.spf[Through(r, q)]
        found == {q \in VlinkPeers(r) : /\ Through(r, q) \in DOMAIN R.spf
                                        /\ q \in T(q).inspf /\ T(q).lb[q] # 0 /\ T(q).nhs[q] # {}}
    IN  [q \in found |-> [cost |-> T(q).dist[q], if |-> First(T(q).nhs[q]).if, lb |-> T(q).lb[q]]]

ospf_rt_abr1(R, r) ==
    LET Unresolved(tab) == {k \in DOMAIN tab : unresolved_vlink(tab[k])}
        bb == Drop(R.rtr[0], Unresolved(R.rtr[0]))
        tab == Drop(R.rtf, Unresolved(R.rtf))
        intra == {n \in DOMAIN tab : tab[n].type = RTS_OSPF}
        anets == Condensed(Anets, tab, [n \in intra |-> tab[n].metric1])
        covered == {x[2] : x \in DOMAIN anets}
        stubs == {a \in AreasOf(r) : oa_is_stub(a) \/ (oa_is_nssa(a) /\ ~conf.areas[a].summary)}
        nssas == {a \in AreasOf(r) : oa_is_nssa(a) /\ conf.areas[a].default_nssa}
        R1 == [R EXCEPT !.rtr[0] = bb]
        asbrs == {x \in {a \in AreasOf(r) : oa_is_ext(a)} \X Router :
                     x[2] \in DOMAIN R1.rtr[x[1]] /\ "E" \in R1.rtr[x[1]][x[2]].options}
        R2 == [R1 EXCEPT
                 !.rtr[0] = FoldLeft(LAMBDA t, x : ri_install_asbr(t, x[2], R1.rtr[x[1]][x[2]]),
                                     bb, SetToSeq(asbrs)),
                 !.rtf = Drop(tab, {n \in DOMAIN tab \cap covered : tab[n].type = RTS_OSPF_IA}),
                 !.anets = anets,
                 !.sum = {SumNet(r, a, DefaultNet, conf.areas[a].default_cost) : a \in stubs},
                 !.nssa = {ExtLsa(r, a, DefaultNet, conf.areas[a].default_cost, FALSE, NoAddr, FALSE) :
                              a \in nssas}]
    IN  [R2 EXCEPT !.asbr = check_sum_rt_lsa(R2, r), !.vl = ospf_check_vlinks(R2, r)]

(***************************************************************************)
(* External routes                                                         *)
(***************************************************************************)

has_device_nexthops(nhs) == \E n \in nhs : n.gw = 0

fix_device_nexthops(nhs, gw) ==
    IF ~conf.ecmp THEN Hop(gw, First(nhs).if)
    ELSE {IF n.gw = 0 THEN [n EXCEPT !.gw = gw] ELSE n : n \in nhs}

ospf_fib_route(tab, addr) == fib_route(DOMAIN tab, addr.net)

\* The route by which the LSA is used, if it is.
ExtPath(R, r, l, atmp) ==
    LET nf1 == R.rtr[atmp][l.rt]
        found == ospf_fib_route(R.rtf, l.fw)
        nf2 == R.rtf[TheOf(found)]
    IN  IF ~(l.rt \in DOMAIN R.rtr[atmp] /\ "E" \in nf1.options) THEN {}
        ELSE IF /\ l.area # -1 /\ l.net = DefaultNet /\ IsAbr(r)
                /\ ~(l.prop /\ conf.areas[atmp].summary) THEN {}
        ELSE IF l.fw = NoAddr THEN {nf1}
        ELSE IF /\ found # {} /\ nf2.nhs # {}
                /\ IF l.area = -1 THEN nf2.type \in {RTS_OSPF, RTS_OSPF_IA}
                   ELSE nf2.type = RTS_OSPF /\ nf2.oa = atmp
        THEN {[nf2 EXCEPT !.nhs = IF has_device_nexthops(@) THEN fix_device_nexthops(@, l.fw.rt)
                                  ELSE @]}
        ELSE {}

ExtInstall(R, r, l) ==
    LET atmp == IF l.area = -1 THEN ospf_main_area(r) ELSE l.area
        Entry(nf) == [type |-> IF l.ebit THEN RTS_OSPF_EXT2 ELSE RTS_OSPF_EXT1,
                metric1 |-> IF l.ebit THEN nf.metric1 ELSE nf.metric1 + l.metric,
                metric2 |-> IF l.ebit THEN l.metric ELSE 0,
                options |-> (IF epath_preferred(nf) THEN {"PREF"} ELSE {})
                            \cup (IF l.area # -1 THEN {"NSSA"} ELSE {})
                            \cup (IF l.area # -1 /\ l.prop THEN {"PROP"} ELSE {}),
                rid |-> l.rt, oa |-> atmp, voa |-> -1, nhs |-> nf.nhs, en |-> l]
        Install1(S, path) ==
            IF path = {} THEN S
            ELSE [S EXCEPT !.rtf = ri_install_ext(@, l.net, Entry(TheOf(path)))]
    IN  IF l.rt = r \/ l.metric >= LSINFINITY THEN R ELSE Install1(R, ExtPath(R, r, l, atmp))

ospf_ext_spf(R, r) ==
    LET lsas == {l \in R.db.ext : IF l.area = -1 THEN \E a \in AreasOf(r) : oa_is_ext(a)
                                  ELSE l.area \in AreasOf(r)}
    IN  FoldLeft(LAMBDA S, l : ExtInstall(S, r, l), R, SetToSeq(lsas))

\* Another border router of the NSSA that is to translate instead.
Better(R, r, a) ==
    {q \in DOMAIN R.rtr[a] :
        /\ "B" \in R.rtr[a][q].options
        /\ q \in DOMAIN R.rtr[0] /\ "B" \in R.rtr[0][q].options
        /\ q \in R.spf[a].inspf
        /\ "NT" \in TheOf(RtLsas(R.db, a, q)).options \/ r < q}

\* As Elect, with the timer started again and again.
ElectAgain(R, r, a, old) ==
    IF r \in conf.areas[a].translators \/ Better(R, r, a) = {} THEN "ON" ELSE "WAIT"

\* The former translator goes on for a while.
Elect(R, r, a, old) ==
    LET translate == r \in conf.areas[a].translators \/ Better(R, r, a) = {}
    IN  IF translate THEN "ON" ELSE IF old = "ON" THEN "WAIT" ELSE old

EBIT == 1000

\* External LSAs for what the NSSAs have: condensed, or one by one.
check_nssa_lsa(R, r) ==
    LET all == DOMAIN R.rtf \cup {x[2] : x \in DOMAIN R.enets}
        mine == {e.net : e \in {x \in exports : x.rt = r}}
        Owner(net) == AnetArea(r, net, Enets)
        Active(net) == \E b \in Owner(net) : /\ <<b, net>> \in DOMAIN R.enets
                                             /\ ~Enets[b][net] /\ R.tr[b] # "OFF"
        metric(net) == R.enets[<<TheOf(Owner(net)), net>>]
        decide_nssa_lsa(net) ==
            LET nf == R.rtf[net] IN
            /\ net \in DOMAIN R.rtf /\ "NSSA" \in nf.options /\ R.tr[nf.oa] # "OFF"
            /\ fib_route(DOMAIN Enets[nf.oa], net) = {}
            /\ nf.en.area # -1 /\ nf.en.prop /\ nf.en.fw # NoAddr
    IN  UNION {IF Active(net)
               THEN {ExtLsa(r, -1, net, metric(net) % EBIT, metric(net) >= EBIT, NoAddr, FALSE)}
               ELSE IF decide_nssa_lsa(net)
               THEN LET l == R.rtf[net].en IN {ExtLsa(r, -1, net, l.metric, l.ebit, l.fw, FALSE)}
               ELSE {} : net \in all \ mine}

ospf_rt_abr2(R, r) ==
    LET R1 == [R EXCEPT !.tr = [a \in DOMAIN @ |-> Elect(R, r, a, @[a])]]
        parts == {n \in DOMAIN R.rtf : {"NSSA", "PROP"} \subseteq R.rtf[n].options}
        metric(nf) == IF nf.type = RTS_OSPF_EXT1 THEN nf.metric1 ELSE nf.metric2 + 1 + EBIT
        R2 == [R1 EXCEPT !.enets = Condensed(Enets, R.rtf, [n \in parts |-> metric(R.rtf[n])])]
    IN  [R2 EXCEPT !.sum = @ \cup check_sum_net_lsa(R2, r), !.ext = check_nssa_lsa(R2, r)]

(***************************************************************************)
(* The whole calculation                                                   *)
(***************************************************************************)

EmptyTable == [x \in {} |-> x]

ospf_rt_reset(db, r) ==
    [db |-> db, T |-> EmptyTable, spf |-> EmptyTable, rtf |-> EmptyTable,
     rtr |-> [a \in AreasOf(r) |-> EmptyTable], trcap |-> {}, anets |-> EmptyTable,
     enets |-> EmptyTable, sum |-> {}, asbr |-> {}, ext |-> {}, nssa |-> {},
     vl |-> EmptyTable, tr |-> tr[r]]

IntraArea(db, r) ==
    FoldLeft(LAMBDA R, a : ospf_rt_spfa(R, r, a), ospf_rt_reset(db, r), SetToSeq(AreasOf(r)))

TransitAreas(R, r) ==
    FoldLeft(LAMBDA S, a : IF 0 \in AreasOf(r) THEN ospf_rt_sum_tr(S, r, a) ELSE S,
             R, SetToSeq(R.trcap \ {0}))

ospf_rt_spf(db, r) ==
    LET Abr1(R) == IF IsAbr(r) THEN ospf_rt_abr1(R, r) ELSE R
        Abr2(R) == IF IsAbr(r) THEN ospf_rt_abr2(R, r) ELSE R
    IN  Abr2(ospf_ext_spf(Abr1(TransitAreas(
            ospf_rt_sum(IntraArea(db, r), r, ospf_main_area(r)), r)), r))

\* Configured stub networks are dropped, LSAs not originated again flushed.
rt_sync(R, r) ==
    LET Own(set) == {l \in set : l.rt # r}
        local == {Exported(e) : e \in {x \in exports : x.rt = r}}
    IN  [R EXCEPT !.rtf = Drop(@, {n \in DOMAIN @ : @[n].nhs = {}}),
                  !.db = [@ EXCEPT !.sum = Own(@) \cup R.sum, !.asbr = Own(@) \cup R.asbr,
                                   !.ext = Own(@) \cup local \cup R.ext \cup R.nssa]]

(***************************************************************************)
(* Steps                                                                   *)
(***************************************************************************)

\* Who sees that the database has changed.
Sees(r, old, new) ==
    LET here(set) == {l \in set : l.area \in AreasOf(r)}
        exts(set) == {l \in set : l.area \in AreasOf(r)
                                  \/ (l.area = -1 /\ \E a \in AreasOf(r) : oa_is_ext(a))}
    IN  \/ here(old.rt) # here(new.rt) \/ here(old.net) # here(new.net)
        \/ here(old.sum) # here(new.sum) \/ here(old.asbr) # here(new.asbr)
        \/ exts(old.ext) # exts(new.ext)

Init ==
    /\ conf \in Configs
    /\ up = UNION {{<<r, i.id>> : r \in DOMAIN i.cost} : i \in conf.ifaces}
    /\ exports = {}
    /\ lsdb = [rt |-> {}, net |-> {}, sum |-> {}, asbr |-> {}, ext |-> {}]
    /\ vl = [r \in Router |-> EmptyTable]
    /\ tr = [r \in Router |-> [a \in {b \in AreasOf(r) : oa_is_nssa(b)} |-> "OFF"]]
    /\ rtf = [r \in Router |-> EmptyTable]
    /\ todo = Router

\* ospf_disp(): the own LSAs, then the calculation.  A virtual link that
\* changes is a change at its other end too.
ospf_disp(r) ==
    /\ r \in todo
    /\ \E R \in {rt_sync(ospf_rt_spf(ospf_update_topology(lsdb, r), r), r)} :
          /\ lsdb' = R.db
          /\ rtf' = [rtf EXCEPT ![r] = R.rtf]
          /\ vl' = [vl EXCEPT ![r] = R.vl]
          /\ tr' = [tr EXCEPT ![r] = R.tr]
          /\ todo' = (todo \ {r}) \cup {q \in Router \ {r} : Sees(q, lsdb, R.db)}
                     \cup IF R.vl = vl[r] THEN {} ELSE {r} \cup VlinkPeers(r)
    /\ UNCHANGED <<conf, up, exports>>

translator_timer_hook(r, a) ==
    /\ a \in DOMAIN tr[r] /\ tr[r][a] = "WAIT"
    /\ tr' = [tr EXCEPT ![r][a] = "OFF"]
    /\ todo' = todo \cup {r}
    /\ UNCHANGED <<conf, up, exports, lsdb, vl, rtf>>

\* An interface goes down or comes back; its neighbors notice.
IfaceChange(r, i) ==
    /\ conf.fails > 0 /\ conf' = [conf EXCEPT !.fails = @ - 1]
    /\ r \in DOMAIN i.cost /\ i.id \in conf.mayfail
    /\ up' = IF IsUp(r, i) THEN up \ {<<r, i.id>>} ELSE up \cup {<<r, i.id>>}
    /\ todo' = todo \cup DOMAIN i.cost
    /\ UNCHANGED <<exports, lsdb, vl, tr, rtf>>

\* A route is exported to OSPF or withdrawn; the LSA is originated at once.
ospf_rt_notify(r) ==
    /\ conf.changes > 0 /\ conf' = [conf EXCEPT !.changes = @ - 1]
    /\ \E e \in {x \in conf.external : x.rt = r} :
          LET new == [rt |-> r, net |-> e.net, m1 |-> e.m1, m2 |-> e.m2,
                      fw |-> IF ExportArea(r) = -1 THEN NoAddr
                             ELSE find_surrogate_fwaddr(r, ExportArea(r))]
              old == {x \in exports : x.rt = r /\ x.net = e.net}
              mine == {l \in lsdb.ext : l.rt = r /\ l.net = e.net /\ l.area = ExportArea(r)}
              blocked == old # {} /\ IsAbr(r) /\ e.net \in DOMAIN rtf[r]
                         /\ "NSSA" \in rtf[r][e.net].options
          IN  /\ exports' = IF old = {} THEN exports \cup {new} ELSE exports \ old
              /\ lsdb' = [lsdb EXCEPT !.ext = (@ \ mine)
                                              \cup IF old = {} THEN {Exported(new)} ELSE {}]
              /\ todo' = todo \cup {q \in Router \ {r} : Sees(q, lsdb, lsdb')}
                              \cup IF blocked THEN {r} ELSE {}
    /\ UNCHANGED <<up, vl, tr, rtf>>

Next ==
    \/ \E r \in Router : ospf_disp(r) \/ ospf_rt_notify(r)
    \/ \E r \in Router : \E i \in conf.ifaces : IfaceChange(r, i)
    \/ \E r \in Router : \E a \in DOMAIN tr[r] : translator_timer_hook(r, a)

Spec == Init /\ [][Next]_vars

(***************************************************************************)
(* Properties                                                              *)
(***************************************************************************)

Converged == todo = {} /\ \A r \in Router : \A a \in DOMAIN tr[r] : tr[r][a] # "WAIT"

\* Two routers of an area with a path of interfaces that are up, or virtual
\* links, between them.
Adjacent(a) ==
    {<<r, q>> \in Router \X Router :
        \/ r = q /\ a \in AreasOf(r)
        \/ \E i \in conf.ifaces : i.area = a /\ i.kind # "stub" /\ Full(r, q, i)
        \/ a = 0 /\ q \in VlinkPeers(r) /\ VlinkFull(r, q)}

RECURSIVE Spread(_, _)
Spread(set, rel) ==
    LET next == set \cup {x[2] : x \in {y \in rel : y[1] \in set}}
    IN  IF next = set THEN set ELSE Spread(next, rel)

Component(r, a) == Spread({r}, Adjacent(a))
Whole(a) == \A r, q \in Router : a \in AreasOf(r) \cap AreasOf(q) => q \in Component(r, a)

\* The routers with an interface in the network.
Owners(net) == {<<r, i>> \in Router \X conf.ifaces : i.net = net /\ IsUp(r, i)}

\* Following the next hops of net from router r ends in that network; Target
\* has the pairs of router and interface where it may end.
RECURSIVE Delivered(_, _, _, _)
Delivered(r, net, steps, Target) ==
    LET found == fib_route(DOMAIN rtf[r], net)
    IN  \/ <<r, 0>> \in Target
        \/ /\ found # {} /\ steps > 0
           /\ \A h \in rtf[r][TheOf(found)].nhs :
                 IF h.gw = 0 THEN <<r, h.if>> \in Target
                 ELSE Full(r, h.gw, Iface(h.if)) /\ Delivered(h.gw, net, steps - 1, Target)

\* When every router has done its calculation, each network of an interface
\* that is up is reached from every router that areas and virtual links join
\* with it, along next hops that all lead to it and never in a circle;
\* a border router takes other areas from the backbone only, and what an area
\* condenses is found from outside while the area is whole, as default routes
\* in place of summaries are right while the backbone is (ospf_rt_spf and what border routers tell).
NetworksReached ==
    Converged =>
        LET Single(i) == fib_route(DOMAIN conf.areas[i.area].nets, i.net) = {}
            Border(r, a) == {b \in Component(r, a) : IsAbr(b)}
            Backbone(r) == IF IsAbr(r) THEN {r} ELSE Border(r, ospf_main_area(r))
            Joined(r, q, a) == \/ a \in AreasOf(r) /\ q \in Component(r, a)
                               \/ \E x \in Backbone(r) : Component(x, 0) \cap Border(q, a) # {}
        IN  \A i \in conf.ifaces : \A q \in Members(i) : \A r \in Router :
               Joined(r, q, i.area) /\ (Single(i) \/ Whole(i.area))
               /\ (Whole(0) \/ \A a \in AreasOf(r) : Summaries(a)) =>
                   Delivered(r, i.net, Cardinality(Router),
                             UNION {{<<o[1], 0>>, <<o[1], o[2].id>>} : o \in Owners(i.net)})

\* The same for external routes: the next hops lead to a router that exports
\* the route, and every router of the areas that carry them has one.
ExternalsReached ==
    Converged /\ (\A a \in DOMAIN conf.areas : Whole(a)) =>
        \A e \in exports : \A r \in Router :
            Delivered(r, e.net, Cardinality(Router),
                      {<<o.rt, 0>> : o \in {x \in exports : x.net = e.net}})

\* When every router has done its calculation, the metric of a route inside an
\* area is the length of the shortest path: the least of the cost of an own
\* interface in the network and, for each neighbor in the area, the cost of the
\* link plus the metric the neighbor has (ospf_rt_spfa).
PathsShortest ==
    Converged =>
        \A r \in Router : \A net \in DOMAIN rtf[r] :
            LET nf == rtf[r][net]
                own == {o[2].cost[r] : o \in {x \in Owners(net) : x[1] = r}}
                links == {<<q, i>> \in Router \X conf.ifaces :
                             i.area = nf.oa /\ i.kind # "stub" /\ Full(r, q, i)}
                via == {x[2].cost[r] + rtf[x[1]][net].metric1 : x \in
                           {y \in links : net \in DOMAIN rtf[y[1]]}}
                configured == \E sn \in conf.stubnets : sn.net = net
            IN  nf.type = RTS_OSPF /\ nf.oa # 0 /\ ~configured => nf.metric1 = Min(own \cup via)
=============================================================================
