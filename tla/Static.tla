------------------------------- MODULE Static -------------------------------
(***************************************************************************)
(* The static protocol (src/proto/static/static.c) on top of the interface  *)
(* list and the neighbor cache, driven by a kernel whose Netlink messages   *)
(* are delivered later, or lost, and by the periodic scans of the device    *)
(* protocol.                                                                *)
(*                                                                          *)
(*   s     interfaces and neighbors (module Interfaces)                     *)
(*   st    struct static_proto with its routes and what it announced        *)
(*   k     the kernel: device index -> its link and addresses               *)
(*   q     the asynchronous Netlink socket                                  *)
(*                                                                          *)
(* A route of the configuration is [net, dest, aspa, cmds, hops]; a next    *)
(* hop is [via, iface, onlink, weight, bfd].  The runtime fields of the     *)
(* code's struct static_route are kept apart in st.rt.                      *)
(***************************************************************************)
EXTENDS Interfaces, TLC

CONSTANTS Devices,          \* device indexes of the kernel
          Configs           \* what a behaviour starts with

VARIABLES conf, s, st, k, q, done
vars == <<conf, s, st, k, q, done>>

Spend(what) == /\ done[what] < conf[what]
               /\ done' = [done EXCEPT ![what] = @ + 1]
Budgets == {"changes", "losses", "reloads", "reconfigs", "bfds", "restarts", "finds", "rescans"}

-----------------------------------------------------------------------------
(*                          Static routes                                   *)

(* static_index_routes(): routes of one network are numbered in their order.*)
IndexOf(routes, n) == Cardinality({m \in 1..(n - 1) : routes[m].net = routes[n].net})
Key(routes, n) == <<routes[n].net, IndexOf(routes, n)>>
Config(t) == conf.configs[t.cf]
Routes(t) == Config(t).routes

HopFlags(h) ==
  {"STICKY"} \union (IF h.onlink THEN {"ONLINK"} ELSE {})
    \union (IF h.via = IPA_NONE THEN {"IFACE"} ELSE {})
HopKey(h) == NbKey("static", h.via, h.iface, h.onlink)

SRS_DOWN == "DOWN"
SRS_CLEAN == "CLEAN"
SRS_DIRTY == "DIRTY"

Idle(r) == [state |-> SRS_DOWN,
            hops |-> [j \in DOMAIN r.hops |-> [neigh |-> FALSE, active |-> FALSE, req |-> FALSE]]]

(* What a neighbor entry says to its user now.                              *)
Seen(f, key) ==
  LET n == f.nbs[key] IN
  [nb |-> key, scope |-> n.scope, iface |-> n.iface, ifa |-> n.ifa,
   link |-> n.iface # NULL /\ "LINK_UP" \in f.ifs[n.iface].flags]

NextHop(h, iface) == [via |-> h.via, iface |-> iface, weight |-> h.weight]
NextHops(t, f, n) ==
  LET r == Routes(t)[n] IN
  {NextHop(r.hops[j], f.nbs[HopKey(r.hops[j])].iface) :
     j \in {x \in DOMAIN r.hops : t.rt[n].hops[x].active}}

Withdraw(t, n) ==
  IF t.rt[n].state = SRS_DOWN THEN t
  ELSE [t EXCEPT !.table = [x \in DOMAIN @ \ {Key(Routes(t), n)} |-> @[x]] @@ <<>>,
                 !.rt[n].state = SRS_DOWN]

static_announce_rte(t, f, n) ==
  LET r == Routes(t)[n]
      hops == IF r.dest = "unicast" THEN NextHops(t, f, n) ELSE {}
      a == [dest |-> r.dest, hops |-> hops, cmds |-> r.cmds]
  IN IF (r.dest = "unicast" /\ hops = {}) \/ (r.dest = "aspa" /\ ~r.aspa) THEN Withdraw(t, n)
     ELSE IF t.rt[n].state = SRS_CLEAN THEN t
     ELSE [t EXCEPT !.table = (Key(Routes(t), n) :> a) @@ @, !.rt[n].state = SRS_CLEAN]

static_mark_rte(t, n) ==
  IF t.rt[n].state = SRS_DIRTY THEN t
  ELSE [t EXCEPT !.rt[n].state = SRS_DIRTY, !.marked = Append(@, <<t.cf, n>>), !.event = TRUE]

static_mark_all(t) ==
  [t EXCEPT !.rt = [n \in DOMAIN @ |-> [@[n] EXCEPT !.state = IF @ = SRS_CLEAN THEN SRS_DIRTY ELSE @]] @@ <<>>,
            !.marked_all = TRUE, !.marked = << >>, !.event = TRUE]

(* A buffer entry of an earlier configuration is a route that was reset:    *)
(* nothing is announced for it and nothing is left to withdraw.             *)
static_announce_marked(t, f) ==
  LET idle == [t EXCEPT !.event = FALSE]
      dirty == SelectSeq([n \in DOMAIN t.rt |-> n], LAMBDA n : t.rt[n].state = SRS_DIRTY)
      announce(u, n) == static_announce_rte(u, f, n)
      entry(u, e) == IF e[1] = t.cf THEN announce(u, e[2]) ELSE u
  IN IF t.marked_all
     THEN [FoldLeft(announce, idle, dirty) EXCEPT !.marked_all = FALSE]
     ELSE [FoldLeft(entry, idle, t.marked) EXCEPT !.marked = << >>]

(* BFD: the requests for one address share a session, which ends with the   *)
(* last of them and starts down.                                            *)
AllHops(t) == UNION {{<<n, j>> : j \in DOMAIN t.rt[n].hops} : n \in DOMAIN t.rt}
Via(t, x) == Routes(t)[x[1]].hops[x[2]].via
Requested(t) ==
  {Via(t, x) : x \in {y \in AllHops(t) : t.rt[y[1]].hops[y[2]].req}}
    \union UNION {t.old[n] : n \in DOMAIN t.old}
Sessions(t) ==
  [t EXCEPT !.bfd = [v \in DOMAIN @ |-> IF v \in Requested(t) THEN @[v] ELSE "DOWN"] @@ <<>>]

static_update_bfd(t, n, j, seen) ==
  Sessions([t EXCEPT !.rt[n].hops[j].req = seen.scope > 0 /\ Routes(t)[n].hops[j].bfd])

Usable(t, n, j, seen) ==
  /\ seen.scope >= 0
  /\ Config(t).check_link => seen.link
  /\ t.rt[n].hops[j].req => t.bfd[Routes(t)[n].hops[j].via] = "UP"

static_decide(t, n, j, seen) == [t EXCEPT !.rt[n].hops[j].active = Usable(t, n, j, seen)]

(* Decide and mark the route when its next hop changed.                     *)
Redecide(t, n, j, seen) ==
  LET u == static_decide(t, n, j, seen) IN
  IF u = t THEN t ELSE static_mark_rte(u, n)

HopsOf(t, P(_, _)) ==
  SetToSortSeq({x \in AllHops(t) : P(x[1], x[2])},
               LAMBDA x, y : x[1] < y[1] \/ (x[1] = y[1] /\ x[2] < y[2]))

static_neigh_notify(t, seen) ==
  LET mine == HopsOf(t, LAMBDA n, j : t.rt[n].hops[j].neigh /\ HopKey(Routes(t)[n].hops[j]) = seen.nb)
  IN FoldLeft(LAMBDA u, x : Redecide(static_update_bfd(u, x[1], x[2], seen), x[1], x[2], seen), t, mine)

static_bfd_notify(t, f, via, state) ==
  LET mine == HopsOf(t, LAMBDA n, j : t.rt[n].hops[j].req /\ Routes(t)[n].hops[j].via = via)
      redecide(u, x) == Redecide(u, x[1], x[2], Seen(f, HopKey(Routes(t)[x[1]].hops[x[2]])))
  IN FoldLeft(redecide, [t EXCEPT !.bfd[via] = state], mine)

(* static_add_rte(): both states, as the neighbors are asked for here.      *)
UseNeighbor(w, f, n, j, key) ==
  LET found == [w.t EXCEPT !.rt[n].hops[j].neigh = TRUE]
      seen == Seen(f, key)
  IN IF key \notin DOMAIN f.nbs THEN w
     ELSE [f |-> f, t |-> static_decide(static_update_bfd(found, n, j, seen), n, j, seen)]

AddHop(w, n, j) ==
  LET h == Routes(w.t)[n].hops[j]
  IN UseNeighbor(w, neigh_find(w.f, HopKey(h), HopFlags(h)), n, j, HopKey(h))

AnnounceAdded(w, n) == [w EXCEPT !.t = static_announce_rte(@, w.f, n)]

static_add_rte(w, n) ==
  LET r == Routes(w.t)[n]
      hops == IF r.dest = "unicast" THEN [j \in DOMAIN r.hops |-> j] ELSE << >>
  IN AnnounceAdded(FoldLeft(LAMBDA u, j : AddHop(u, n, j), w, hops), n)

static_same_rte(o, n) == o.dest = n.dest /\ o.hops = n.hops /\ o.aspa = n.aspa /\ o.cmds = n.cmds

static_reset_rte(t, on) == Sessions([t EXCEPT !.old[on] = {}])

static_remove_rte(t, o, on) ==
  LET key == Key(o.routes, on) IN
  static_reset_rte(IF o.rt[on].state = SRS_DOWN THEN t
                   ELSE [t EXCEPT !.table = [x \in DOMAIN @ \ {key} |-> @[x]] @@ <<>>], on)

static_reconfigure_rte(w, o, on, nn) ==
  LET changed == o.rt[on].state = SRS_CLEAN /\ ~static_same_rte(o.routes[on], Routes(w.t)[nn])
      state == IF changed THEN SRS_DIRTY ELSE o.rt[on].state
  IN [static_add_rte([w EXCEPT !.t.rt[nn].state = state], nn) EXCEPT !.t = static_reset_rte(@, on)]

(* static_reconfigure(): the two lists are matched from the start while     *)
(* network and index agree, the rest is sorted and merged.                  *)
Matching(or, nr) ==
  LET agree(n) == \A m \in 1..n : m <= Len(or) /\ m <= Len(nr) /\ Key(or, m) = Key(nr, m)
  IN CHOOSE n \in 0..Len(or) : agree(n) /\ ~agree(n + 1)

KeyLess(a, b) == a[1] < b[1] \/ (a[1] = b[1] /\ a[2] < b[2])

MergeKey(w, o, key, from) ==
  LET nr == Routes(w.t)
      on == {n \in (from + 1)..Len(o.routes) : Key(o.routes, n) = key}
      nn == {n \in (from + 1)..Len(nr) : Key(nr, n) = key}
      One(S) == CHOOSE n \in S : TRUE
  IN IF nn = {} THEN [w EXCEPT !.t = static_remove_rte(@, o, One(on))]
     ELSE IF on = {} THEN static_add_rte(w, One(nn))
     ELSE static_reconfigure_rte(w, o, One(on), One(nn))

MergeRest(w, o, rest, from) ==
  IF rest = {} THEN w
  ELSE [FoldLeft(LAMBDA u, key : MergeKey(u, o, key, from), w, SetToSortSeq(rest, KeyLess))
          EXCEPT !.t = [@ EXCEPT !.marked = << >>, !.marked_all = FALSE]]

static_reconfigure(t, f, c) ==
  LET o == [routes |-> Routes(t), rt |-> t.rt]
      nr == conf.configs[c].routes
      from == Matching(o.routes, nr)
      vias(n) == {Via(t, <<n, j>>) : j \in {x \in DOMAIN t.rt[n].hops : t.rt[n].hops[x].req}}
      w == [f |-> f, t |-> [t EXCEPT !.cf = c, !.rt = [n \in DOMAIN nr |-> Idle(nr[n])] @@ <<>>,
                                     !.old = [n \in DOMAIN o.routes |-> vias(n)] @@ <<>>]]
      rest == {Key(o.routes, n) : n \in (from + 1)..Len(o.routes)}
                \union {Key(nr, n) : n \in (from + 1)..Len(nr)}
  IN MergeRest(FoldLeft(LAMBDA u, n : static_reconfigure_rte(u, o, n, n), w, [n \in 1..from |-> n]),
               o, rest, from)

static_start(t, f) ==
  FoldLeft(static_add_rte, [t |-> [t EXCEPT !.up = TRUE], f |-> f], [n \in DOMAIN Routes(t) |-> n])

(* static_shutdown() resets the routes; the nest flushes the table and      *)
(* neigh_prune() the neighbors, the event goes with the pool.               *)
static_shutdown(t) ==
  [t EXCEPT !.up = FALSE, !.event = FALSE, !.marked = << >>, !.marked_all = FALSE, !.table = << >>,
            !.bfd = [v \in DOMAIN @ |-> "DOWN"] @@ <<>>,
            !.rt = [n \in DOMAIN @ |-> Idle(Routes(t)[n])] @@ <<>>]

-----------------------------------------------------------------------------
(*                        Kernel and main loop                              *)

LinkMsg(kern, d) ==
  LET v == kern[d] IN
  [t |-> "newlink", idx |-> d, name |-> v.name, admin |-> v.admin, link |-> v.link,
   kind |-> v.kind, vrf |-> v.vrf, master |-> v.master]
AddrMsg(d, a, t) == [t |-> t, idx |-> d, ip |-> a.ip, len |-> a.len, sec |-> a.sec, peer |-> a.peer]

Present(kern) == SetToSortSeq({d \in Devices : kern[d].on}, <)
Links(kern) == [n \in DOMAIN Present(kern) |-> LinkMsg(kern, Present(kern)[n])]
Addrs(kern) ==
  LET of(d) == [n \in DOMAIN kern[d].addrs |-> AddrMsg(d, kern[d].addrs[n], "newaddr")]
      all == FoldLeft(LAMBDA acc, d : acc \o of(d), << >>, Present(kern))
  IN SelectSeq(all, LAMBDA m : ipa_is_ip4(m.ip)) \o SelectSeq(all, LAMBDA m : ~ipa_is_ip4(m.ip))

(* The kernel changes and tells it; a full socket buffer drops the rest.    *)
Told(msgs) == q' = SubSeq(q \o msgs, 1, IF Len(q \o msgs) < conf.rcvbuf THEN Len(q \o msgs) ELSE conf.rcvbuf)
Turn(d, kern) == k' = kern /\ Told(<<LinkMsg(kern, d)>>)

KernelAdmin(d) == /\ k[d].on /\ "admin" \in conf.may
                  /\ Turn(d, [k EXCEPT ![d].admin = ~@, ![d].link = ~k[d].admin])
KernelLink(d) == /\ k[d].on /\ k[d].admin /\ "link" \in conf.may
                 /\ Turn(d, [k EXCEPT ![d].link = ~@])
KernelKind(d) == /\ k[d].on /\ "kind" \in conf.may /\ k[d].kind \in {"bcast", "ptp"}
                 /\ Turn(d, [k EXCEPT ![d].kind = IF @ = "bcast" THEN "ptp" ELSE "bcast"])
KernelMaster(d) == /\ k[d].on /\ "master" \in conf.may /\ ~k[d].vrf
                   /\ \E m \in {0} \union {e \in Devices : k[e].on /\ k[e].vrf} :
                        m # k[d].master /\ Turn(d, [k EXCEPT ![d].master = m])
KernelRename(d) == /\ k[d].on /\ "rename" \in conf.may
                   /\ \E name \in conf.names \ {k[e].name : e \in {x \in Devices : k[x].on}} :
                        Turn(d, [k EXCEPT ![d].name = name])
KernelAddr(d) ==
  /\ k[d].on /\ "addr" \in conf.may
  /\ \E a \in conf.addrs[d] :
       LET has == \E n \in DOMAIN k[d].addrs : k[d].addrs[n] = a IN
       /\ k' = [k EXCEPT ![d].addrs = IF has THEN Without(@, a) ELSE Append(@, a)]
       /\ Told(<<AddrMsg(d, a, IF has THEN "deladdr" ELSE "newaddr")>>)
KernelRemove(d) ==
  /\ k[d].on /\ "remove" \in conf.may
  /\ k' = [k EXCEPT ![d].on = FALSE, ![d].addrs = << >>]
  /\ Told([n \in DOMAIN k[d].addrs |-> AddrMsg(d, k[d].addrs[n], "deladdr")]
            \o <<[LinkMsg(k, d) EXCEPT !.t = "dellink"]>>)
KernelCreate(d) ==
  /\ ~k[d].on /\ k[d].name \notin {k[e].name : e \in {x \in Devices : k[x].on}}
  /\ Turn(d, [k EXCEPT ![d].on = TRUE])

Kernel ==
  /\ Spend("changes")
  /\ \E d \in Devices : \/ KernelAdmin(d) \/ KernelLink(d) \/ KernelKind(d) \/ KernelMaster(d)
                        \/ KernelRename(d) \/ KernelAddr(d) \/ KernelRemove(d) \/ KernelCreate(d)
  /\ UNCHANGED <<conf, s, st>>

(* The calls to static_neigh_notify() are made while the handler runs; they *)
(* touch no state the rest of it reads, so they are applied at its end.     *)
Apply(f) ==
  /\ s' = [f EXCEPT !.notes = << >>]
  /\ st' = IF st.up THEN FoldLeft(static_neigh_notify, st, f.notes) ELSE st

nl_async_hook ==
  /\ q # << >>
  /\ q' = Tail(q)
  /\ Apply(nl_async_msg(s, q[1]))
  /\ UNCHANGED <<conf, k, done>>

(* ENOBUFS: messages are gone, "will resync on next scan".                  *)
Dropped ==
  /\ q # << >> /\ Spend("losses")
  /\ q' = Tail(q)
  /\ UNCHANGED <<conf, s, st, k>>

kif_scan ==
  /\ Apply(kif_do_scan(s, Links(k), Addrs(k)))
  /\ UNCHANGED <<conf, k, q, done>>

(* The device protocol is restarted: if_flush_ifaces(), then a new scan.    *)
if_flush_ifaces(f) == if_end_update(if_start_update(f))
kif_restart ==
  /\ Spend("rescans")
  /\ Apply(kif_do_scan(if_flush_ifaces(s), Links(k), Addrs(k)))
  /\ UNCHANGED <<conf, k, q>>

Event ==
  /\ st.event
  /\ st' = static_announce_marked(st, s)
  /\ UNCHANGED <<conf, s, k, q, done>>

Start ==
  /\ ~st.up
  /\ \E w \in {static_start(st, s)} : st' = w.t /\ s' = w.f
  /\ UNCHANGED <<conf, k, q, done>>

Stop ==
  /\ st.up /\ Spend("restarts")
  /\ st' = static_shutdown(st)
  /\ s' = neigh_prune(s, "static")
  /\ UNCHANGED <<conf, k, q>>

Reload ==
  /\ st.up /\ Spend("reloads")
  /\ st' = static_mark_all(st)
  /\ UNCHANGED <<conf, s, k, q>>

(* The parser makes a dummy of an interface a route names.                  *)
if_get_by_name(f, i) ==
  IF i \in DOMAIN f.ifs THEN f
  ELSE [f EXCEPT !.list = Append(@, i),
                 !.ifs = (i :> [flags |-> {"SHUTDOWN"}, index |-> 0, mindex |-> 0, master |-> NULL,
                                addrs |-> << >>, best |-> NoBest, neighbors |-> << >>]) @@ @]
Named(cf) ==
  SetToSeq(UNION {{cf.routes[n].hops[j].iface : j \in DOMAIN cf.routes[n].hops} : n \in DOMAIN cf.routes} \ {NULL})
Parsed(f, cf) == FoldLeft(if_get_by_name, f, Named(cf))

Reconfigure ==
  /\ st.up /\ Spend("reconfigs")
  /\ \E c \in DOMAIN conf.configs \ {st.cf} :
       \E w \in {static_reconfigure(st, Parsed(s, conf.configs[c]), c)} : st' = w.t /\ s' = w.f
  /\ UNCHANGED <<conf, k, q>>

BfdChange ==
  /\ Spend("bfds")
  /\ \E via \in Requested(st) :
       st' = static_bfd_notify(st, s, via, IF st.bfd[via] = "UP" THEN "DOWN" ELSE "UP")
  /\ UNCHANGED <<conf, s, k, q>>

(* RIP hears a packet on an interface: neigh_find() of its sender.          *)
RipFind ==
  /\ Spend("finds")
  /\ \E i \in {j \in DOMAIN s.ifs : Up(s, j) /\ "LINK_UP" \in s.ifs[j].flags}, a \in conf.senders :
       LET key == NbKey("rip", a, i, FALSE)
           f == neigh_find(s, key, {})
       IN /\ key \in DOMAIN f.nbs /\ f.nbs[key].scope > 0
          /\ s' = [f EXCEPT !.held = @ \union {key}]
  /\ UNCHANGED <<conf, st, k, q>>

Vias(c) == UNION {{c.configs[x].routes[n].hops[j].via : j \in DOMAIN c.configs[x].routes[n].hops} :
                    <<x, n>> \in {y \in (DOMAIN c.configs) \X (1..4) : y[2] \in DOMAIN c.configs[y[1]].routes}}

Init ==
  /\ conf \in Configs
  /\ s = Parsed([list |-> << >>, ifs |-> << >>, nbs |-> << >>, sticky |-> << >>, notes |-> << >>,
                 held |-> {}, direct |-> {}, pref |-> << >>, conf |-> conf.iface], conf.configs[1])
  /\ st = [cf |-> 1, up |-> FALSE, event |-> FALSE, marked |-> << >>, marked_all |-> FALSE,
           table |-> << >>, bfd |-> [v \in Vias(conf) |-> "DOWN"], old |-> << >>,
           rt |-> [n \in DOMAIN conf.configs[1].routes |-> Idle(conf.configs[1].routes[n])]]
  /\ k = conf.kernel
  /\ q = << >>
  /\ done = [b \in Budgets |-> 0]

Next == \/ Kernel \/ nl_async_hook \/ Dropped \/ kif_scan \/ kif_restart \/ Event \/ Start \/ Stop
        \/ Reload \/ Reconfigure \/ BfdChange \/ RipFind

(* The scan timer is periodic, the socket is polled, events run and a       *)
(* protocol that is down is started.                                        *)
ScanIdle == kif_do_scan(s, Links(k), Addrs(k)) = s
Fairness == /\ ([]<>ScanIdle \/ []<><<kif_scan>>_vars)
            /\ ([]<>(q = << >>) \/ []<><<nl_async_hook>>_vars)
            /\ ([]<>~st.event \/ []<><<Event>>_vars)
            /\ ([]<>st.up \/ []<><<Start>>_vars)
Spec == Init /\ [][Next]_vars /\ Fairness

-----------------------------------------------------------------------------
(* The neighbor entries, list order and flags have the shape of the code's. *)
TypeOK ==
  /\ DOMAIN s.ifs = ToSet(s.list) /\ Len(s.list) = Cardinality(DOMAIN s.ifs)
  /\ \A i \in DOMAIN s.ifs : s.ifs[i].index \in Devices \union {0} /\ s.ifs[i].master \in DOMAIN s.ifs \union {NULL}
  /\ s.notes = << >> /\ s.held \subseteq DOMAIN s.nbs
  /\ DOMAIN st.rt = DOMAIN Routes(st)
  /\ \A n \in DOMAIN st.rt : st.rt[n].state \in {SRS_DOWN, SRS_CLEAN, SRS_DIRTY}
  /\ Len(q) <= conf.rcvbuf

Copies(seq, x) == Cardinality({n \in DOMAIN seq : seq[n] = x})
Listed(key) ==
  LET n == s.nbs[key] IN
  /\ Copies(s.sticky, key) = (IF n.iface = NULL THEN 1 ELSE 0)
  /\ \A i \in DOMAIN s.ifs : Copies(s.ifs[i].neighbors, key) = (IF n.iface = i THEN 1 ELSE 0)

(* neigh_update() and its callers: an active neighbor is where, and by the  *)
(* address, the interface list says it is; a sticky one that waits could    *)
(* not be reached through any interface; each is in the one list that the   *)
(* next change will walk; and no protocol holds an entry that was freed.    *)
NeighborsRight ==
  /\ \A key \in DOMAIN s.nbs :
       LET n == s.nbs[key] IN
       /\ Listed(key)
       /\ IF n.iface # NULL
          THEN if_connected(s, key.addr, n.iface, n.flags) = [scope |-> n.scope, ifa |-> n.ifa]
          ELSE /\ "STICKY" \in n.flags
               /\ \A i \in DOMAIN s.ifs : (InVrf(s, i) /\ key.ifreq \in {NULL, i}) =>
                    if_connected(s, key.addr, i, n.flags).scope < 0
  /\ \A key \in s.held : key \in DOMAIN s.nbs /\ s.nbs[key].scope > 0

BestRight(i, fam) ==
  LET mine == {n \in DOMAIN s.ifs[i].addrs : ~s.ifs[i].addrs[n].sec /\ Family(s.ifs[i].addrs[n]) = fam} IN
  IF mine = {} THEN s.ifs[i].best[fam] = NoIfa
  ELSE s.ifs[i].best[fam] \in {IfaKey(s.ifs[i].addrs[n]) : n \in mine}

DirectNow ==
  {DirectRoute(s, i, s.ifs[i].addrs[n]) :
     <<i, n>> \in {x \in (DOMAIN s.ifs) \X (1..4) :
       /\ Up(s, x[1]) /\ InVrf(s, x[1]) /\ x[2] \in DOMAIN s.ifs[x[1]].addrs
       /\ ~s.ifs[x[1]].addrs[x[2]].sec /\ s.ifs[x[1]].addrs[x[2]].scope > SCOPE_LINK
       /\ s.conf.direct_link => "LINK_UP" \in s.ifs[x[1]].flags}}

(* if_notify_change() and ifa_notify_change(): whatever the order in which  *)
(* interfaces, VRFs, links and addresses changed, a protocol of the VRF     *)
(* that only listens to notifications ends with the direct routes of the    *)
(* addresses that are up, and has seen the preferred addresses in use,      *)
(* none of them deleted or secondary.                                       *)
ProtocolsTold ==
  /\ s.direct = DirectNow
  /\ \A i \in DOMAIN s.ifs :
       Up(s, i) => /\ \A fam \in DOMAIN NoBest : BestRight(i, fam)
                   /\ InVrf(s, i) => s.pref[i] = s.ifs[i].best

Expected(n) ==
  LET r == Routes(st)[n]
      usable(h) == /\ HopKey(h) \in DOMAIN s.nbs
                   /\ s.nbs[HopKey(h)].scope >= 0
                   /\ Config(st).check_link => Seen(s, HopKey(h)).link
                   /\ (h.bfd /\ s.nbs[HopKey(h)].scope > 0) => st.bfd[h.via] = "UP"
  IN {NextHop(r.hops[j], s.nbs[HopKey(r.hops[j])].iface) : j \in {x \in DOMAIN r.hops : usable(r.hops[x])}}

(* static_neigh_notify(), static_bfd_notify() and static_reconfigure(): a   *)
(* route that is not marked for announcement is in the table with exactly   *)
(* the next hops that are usable now, and no other route is there.          *)
StaticExact ==
  st.up =>
    /\ \A n \in DOMAIN st.rt :
         LET r == Routes(st)[n]
             key == Key(Routes(st), n)
             none == IF r.dest = "unicast" THEN Expected(n) = {} ELSE r.dest = "aspa" /\ ~r.aspa
         IN st.rt[n].state # SRS_DIRTY =>
              IF none THEN key \notin DOMAIN st.table
              ELSE /\ key \in DOMAIN st.table
                   /\ st.table[key] = [dest |-> r.dest, cmds |-> r.cmds,
                                       hops |-> IF r.dest = "unicast" THEN Expected(n) ELSE {}]
    /\ DOMAIN st.table \subseteq {Key(Routes(st), n) : n \in DOMAIN st.rt}
    /\ (\E n \in DOMAIN st.rt : st.rt[n].state = SRS_DIRTY) => st.event

(* What the kernel's own state says about a next hop.                       *)
KernelVrf(d) == IF k[d].vrf THEN k[d].name ELSE IF k[d].master = 0 THEN NULL ELSE k[k[d].master].name
Reaches(d, h) ==
  /\ k[d].on /\ k[d].admin /\ h.iface \in {NULL, k[d].name}
  /\ k[d].master # 0 => k[k[d].master].on
  /\ s.conf.vrf_set => KernelVrf(d) = s.conf.vrf
  /\ \/ h.onlink \/ h.via = IPA_NONE
     \/ \E n \in DOMAIN k[d].addrs :
          LET a == k[d].addrs[n] IN
          IF a.peer # IPA_NONE THEN h.via = a.peer ELSE MaskTo(h.via, a.len) = MaskTo(a.ip, a.len)
HopFollows(n, j) ==
  LET h == Routes(st)[n].hops[j]
      key == Key(Routes(st), n)
      ways == {d \in Devices : Reaches(d, h)}
      used == {d \in ways : key \in DOMAIN st.table /\ NextHop(h, k[d].name) \in st.table[key].hops}
      cannot(d) == (Config(st).check_link /\ ~k[d].link) \/ (h.bfd /\ st.bfd[h.via] # "UP")
  IN ways # {} => used # {} \/ \E d \in ways : cannot(d)

KernelFollowed ==
  \A n \in DOMAIN st.rt : Routes(st)[n].dest = "unicast" =>
    /\ \A j \in DOMAIN Routes(st)[n].hops : HopFollows(n, j)
    /\ Key(Routes(st), n) \in DOMAIN st.table =>
         \A x \in st.table[Key(Routes(st), n)].hops :
           \E j \in DOMAIN Routes(st)[n].hops, d \in Devices :
             /\ Reaches(d, Routes(st)[n].hops[j])
             /\ x = NextHop(Routes(st)[n].hops[j], k[d].name)
             /\ Config(st).check_link => k[d].link

(* Whatever Netlink lost, delayed or told twice, once the kernel is quiet   *)
(* every next hop the kernel can reach is in use, unless link or BFD forbid *)
(* it, and no next hop it cannot reach is.                                  *)
FollowsKernel == <>[]KernelFollowed

(* kif_do_scan(), "Re-resolve master interface for slaves": after a scan    *)
(* every interface with a master index points to the interface of that      *)
(* index.                                                                   *)
MastersResolved ==
  [][kif_scan => \A i \in DOMAIN s'.ifs :
       s'.ifs[i].mindex # 0 => s'.ifs[i].master = if_find_by_index(s', s'.ifs[i].mindex)]_vars

=============================================================================
