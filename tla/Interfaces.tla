----------------------------- MODULE Interfaces -----------------------------
(***************************************************************************)
(* The interface list (src/nest/iface.c), the neighbor cache                *)
(* (src/nest/neighbor.c), the direct protocol (src/nest/rt-dev.c) and the   *)
(* part of the Netlink driver that feeds them (src/sysdep/linux/netlink.c,  *)
(* kif in src/sysdep/unix/krt.c).                                           *)
(*                                                                          *)
(* Everything here runs in the main thread as one call tree per Netlink     *)
(* message or scan, so each C function is an operator from a state to a     *)
(* state.  A state s is a record:                                           *)
(*   list    the order of iface_list, a sequence of names                   *)
(*   ifs     name -> struct iface                                           *)
(*   nbs     neighbor cache: key -> struct neighbor                         *)
(*   sticky  sticky_neigh_list, a sequence of keys                          *)
(*   notes   neigh_notify() calls to the static protocol, oldest first      *)
(*   held    the neighbors RIP holds a pointer to                           *)
(*   direct  the routes of the direct protocol                              *)
(*   pref    what the protocols last read of the preferred addresses        *)
(*   conf    the configuration: VRF, check link, preferred addresses        *)
(*                                                                          *)
(* An IP address is a number: the block of 2^IP_WIDTH numbers it is in says *)
(* what it is (block 0 IPv4, block 1 IPv6, block 2 IPv6 link-local), the    *)
(* number in the block is the address, so that prefixes, network and        *)
(* broadcast addresses are what they are in the code, with short lengths.   *)
(***************************************************************************)
EXTENDS Integers, Sequences, FiniteSets, SequencesExt

CONSTANTS IP_WIDTH          \* IP4_MAX_PREFIX_LENGTH and IP6_MAX_PREFIX_LENGTH

SCOPE_HOST == 0
SCOPE_LINK == 1
SCOPE_UNIVERSE == 4
IPA_NONE == -1
NULL == "NULL"

Block(a) == a \div 2^IP_WIDTH
ipa_is_ip4(a) == Block(a) = 0
ipa_is_link_local(a) == Block(a) = 2
ipa_classify(a) == IF ipa_is_link_local(a) THEN SCOPE_LINK ELSE SCOPE_UNIVERSE
MaskTo(a, len) == (a \div 2^(IP_WIDTH - len)) * 2^(IP_WIDTH - len)
ipa_in_netX(a, n) == MaskTo(a, n.len) = n.net
net_in_netX(a, b) == a.len >= b.len /\ ipa_in_netX(a.net, b)

(* struct ifa; two of them are the same one when ip and prefix agree.       *)
ifa_same(a, b) == a.ip = b.ip /\ a.net = b.net /\ a.len = b.len
IfaKey(b) == [ip |-> b.ip, net |-> b.net, len |-> b.len]
Without(seq, x) == SelectSeq(seq, LAMBDA y : y # x)

Up(s, i) == "UP" \in s.ifs[i].flags
Flag(s, i, f) == [s EXCEPT !.ifs[i].flags = @ \union f]
Unflag(s, i, f) == [s EXCEPT !.ifs[i].flags = @ \ f]
if_in_vrf(s, i, vrf) == IF "VRF" \in s.ifs[i].flags THEN i = vrf ELSE s.ifs[i].master = vrf
InVrf(s, i) == s.conf.vrf_set => if_in_vrf(s, i, s.conf.vrf)

-----------------------------------------------------------------------------
(*                            Neighbor cache                                *)

NoIfa == [ip |-> IPA_NONE, net |-> IPA_NONE, len |-> -1]
ifa_better(a, b) == a # NoIfa /\ (b = NoIfa \/ a.len > b.len)
Rank(scope) == IF scope < 0 THEN scope ELSE IF scope = 0 THEN 1 ELSE 0
scope_better(sa, sb) == Rank(sa) > Rank(sb)
scope_remote(sa, sb) == sa > SCOPE_HOST /\ sb > SCOPE_HOST

Gone == [scope |-> -1, ifa |-> NoIfa]
(* The prefix search of if_connected(): addresses in list order, the        *)
(* longest prefix wins, a network or broadcast address ends the search.     *)
SearchAddr(acc, b, a) ==
  IF acc.bad THEN acc
  ELSE IF b.peer
  THEN IF a = b.opposite /\ ifa_better(IfaKey(b), acc.ifa)
       THEN [acc EXCEPT !.ifa = IfaKey(b), !.scope = b.scope] ELSE acc
  ELSE IF ~(ipa_in_netX(a, b) /\ ifa_better(IfaKey(b), acc.ifa)) THEN acc
  ELSE IF ipa_is_ip4(a) /\ b.len < IP_WIDTH - 1 /\ (a = b.net \/ a = b.brd)
       THEN [acc EXCEPT !.bad = TRUE]
       ELSE [acc EXCEPT !.ifa = IfaKey(b), !.scope = b.scope]

Searched(found, a, f) ==
  IF found.bad THEN Gone
  ELSE IF found.ifa # NoIfa THEN [scope |-> found.scope, ifa |-> found.ifa]
  ELSE IF "ONLINK" \in f THEN [scope |-> ipa_classify(a), ifa |-> NoIfa]
  ELSE Gone

if_connected(s, a, i, f) ==
  LET addrs == s.ifs[i].addrs
      own == {k \in DOMAIN addrs : addrs[k].ip = a}
  IN IF "IFACE" \in f
     THEN [scope |-> IF Up(s, i) THEN SCOPE_HOST ELSE -1, ifa |-> NoIfa]
     ELSE IF own # {}
     THEN [scope |-> SCOPE_HOST,
           ifa |-> IfaKey(addrs[CHOOSE k \in own : \A l \in own : k <= l])]
     ELSE IF ~Up(s, i) THEN Gone
     ELSE Searched(FoldLeft(LAMBDA acc, b : SearchAddr(acc, b, a),
                            [bad |-> FALSE, ifa |-> NoIfa, scope |-> -1], addrs), a, f)

Nearer(c, n) ==
  scope_better(c.scope, n.scope)
    \/ (scope_remote(c.scope, n.scope) /\ ifa_better(c.ifa, n.ifa))
On(i, c) == [iface |-> i, scope |-> c.scope, ifa |-> c.ifa]
NearerOf(acc, c) == IF c.scope >= 0 /\ Nearer(c, acc) THEN c ELSE acc

if_connected_any(s, a, f) ==
  FoldLeft(LAMBDA acc, i : IF InVrf(s, i) THEN NearerOf(acc, On(i, if_connected(s, a, i, f))) ELSE acc,
           [iface |-> NULL, scope |-> -1, ifa |-> NoIfa], s.list)

ifa_intersect(s, a, ib) ==
  \E k \in DOMAIN s.ifs[ib].addrs : net_in_netX(a, s.ifs[ib].addrs[k])
if_intersect(s, ia, ib) ==
  \E k \in DOMAIN s.ifs[ia].addrs : ifa_intersect(s, s.ifs[ia].addrs[k], ib)

(* neigh_find(): the key is what the cache is searched for.                 *)
NbKey(proto, a, ifreq, onlink) ==
  [proto |-> proto, addr |-> a, ifreq |-> ifreq, onlink |-> onlink]

Findable(k, f) ==
  /\ IF "IFACE" \in f THEN k.addr = IPA_NONE /\ k.ifreq # NULL
     ELSE k.addr # IPA_NONE /\ (ipa_classify(k.addr) = SCOPE_LINK => k.ifreq # NULL)
  /\ "ONLINK" \in f => k.ifreq # NULL

NewNeigh(s, k, f, c) ==
  LET n == [iface |-> IF c.scope < 0 THEN NULL ELSE c.iface, ifa |-> c.ifa,
            scope |-> c.scope, flags |-> f]
      t == [s EXCEPT !.nbs = (k :> n) @@ @]
  IN IF c.scope < 0 /\ "STICKY" \notin f THEN s
     ELSE IF c.scope >= 0 THEN [t EXCEPT !.ifs[c.iface].neighbors = Append(@, k)]
     ELSE [t EXCEPT !.sticky = Append(@, k)]

neigh_find(s, k, f) ==
  IF k \in DOMAIN s.nbs \/ ~Findable(k, f) THEN s
  ELSE NewNeigh(s, k, f, IF k.ifreq = NULL THEN if_connected_any(s, k.addr, f)
                         ELSE On(k.ifreq, if_connected(s, k.addr, k.ifreq, f)))

Unlink(s, k) ==
  [s EXCEPT !.sticky = Without(@, k),
            !.ifs = [i \in DOMAIN @ |-> [@[i] EXCEPT !.neighbors = Without(@, k)]] @@ <<>>]

(* The static protocol's hook gets what it reads of the neighbor; RIP's     *)
(* drops its pointer when the neighbor is gone or the link is down.         *)
neigh_notify(s, k) ==
  LET n == s.nbs[k]
      link == n.iface # NULL /\ "LINK_UP" \in s.ifs[n.iface].flags
  IN IF k.proto = "static"
     THEN [s EXCEPT !.notes = Append(@, [nb |-> k, scope |-> n.scope, iface |-> n.iface,
                                         ifa |-> n.ifa, link |-> link])]
     ELSE IF n.scope <= 0 \/ ~link THEN [s EXCEPT !.held = @ \ {k}] ELSE s

neigh_up(s, k, i, ifa, scope) ==
  neigh_notify([Unlink([s EXCEPT !.nbs[k] = [@ EXCEPT !.iface = i, !.ifa = ifa, !.scope = scope]], k)
                  EXCEPT !.ifs[i].neighbors = Append(@, k)], k)

neigh_down(s, k) ==
  neigh_notify([Unlink([s EXCEPT !.nbs[k] = [@ EXCEPT !.iface = NULL, !.ifa = NoIfa, !.scope = -1]], k)
                  EXCEPT !.sticky = Append(@, k)], k)

neigh_free(s, k) ==
  [Unlink(s, k) EXCEPT !.nbs = [l \in DOMAIN @ \ {k} |-> @[l]] @@ <<>>]

AfterDown(s, k, c) ==
  IF "STICKY" \notin s.nbs[k].flags THEN neigh_free(s, k)
  ELSE IF c.scope >= 0 THEN neigh_up(s, k, c.iface, c.ifa, c.scope) ELSE s

NeighChange(s, k, c) ==
  LET n == s.nbs[k]
  IN IF c.scope = n.scope /\ c.iface = n.iface
     THEN IF c.ifa = n.ifa THEN s ELSE neigh_notify([s EXCEPT !.nbs[k].ifa = c.ifa], k)
     ELSE AfterDown(IF n.scope >= 0 THEN neigh_down(s, k) ELSE s, k, c)

(* neigh_update() with what its interface offers: a neighbor that has to    *)
(* leave it is looked for elsewhere.                                        *)
NeighUpdate(s, k, n, c) ==
  LET respawn == c.iface = n.iface /\ c.scope < 0 /\ n.scope >= 0
                   /\ k.ifreq = NULL /\ "STICKY" \in n.flags
  IN IF c.iface = n.iface \/ Nearer(c, n)
     THEN NeighChange(s, k, IF respawn THEN if_connected_any(s, k.addr, n.flags) ELSE c)
     ELSE s

neigh_update(s, k, i) ==
  IF (k.ifreq # NULL /\ k.ifreq # i) \/ ~InVrf(s, i) THEN s
  ELSE NeighUpdate(s, k, s.nbs[k], On(i, if_connected(s, k.addr, i, s.nbs[k].flags)))

UpdateAll(s, keys, i) == FoldLeft(LAMBDA t, k : neigh_update(t, k, i), s, keys)
UpdateSticky(s, i) == UpdateAll(s, s.sticky, i)

neigh_if_up(s, i) ==
  UpdateSticky(FoldLeft(LAMBDA t, j : IF j # i /\ if_intersect(t, i, j)
                                      THEN UpdateAll(t, t.ifs[j].neighbors, i) ELSE t,
                        s, s.list), i)

neigh_if_down(s, i) == UpdateAll(s, s.ifs[i].neighbors, i)
neigh_if_link(s, i) == FoldLeft(neigh_notify, s, s.ifs[i].neighbors)

(* Waiting neighbors are not looked at when an address comes.               *)
IfaUpActive(s, i, a) ==
  LET better(t, j) == IF ifa_intersect(t, a, j)
                      THEN UpdateAll(t, t.ifs[j].neighbors, i) ELSE t
  IN FoldLeft(better, s, s.list)

neigh_ifa_up(s, i, a) ==
  UpdateSticky(FoldLeft(LAMBDA t, j : IF ifa_intersect(t, a, j)
                                      THEN UpdateAll(t, t.ifs[j].neighbors, i) ELSE t,
                        s, s.list), i)

neigh_ifa_down(s, i, a) ==
  UpdateAll(s, SelectSeq(s.ifs[i].neighbors, LAMBDA k : s.nbs[k].ifa = IfaKey(a)), i)

neigh_prune(s, proto) ==
  FoldLeft(neigh_free, s, SetToSeq({k \in DOMAIN s.nbs : k.proto = proto}))

-----------------------------------------------------------------------------
(*                           Direct protocol                                *)

(* rte_update2() of the prefix, the interface index is the source.          *)
DirectRoute(s, i, a) == [net |-> a.net, len |-> a.len, src |-> s.ifs[i].index, iface |-> i]

dev_ifa_notify(s, c, i, a) ==
  LET same(r) == r.net = a.net /\ r.len = a.len /\ r.src = s.ifs[i].index
      others == {r \in s.direct : ~same(r)}
  IN IF a.sec \/ a.scope <= SCOPE_LINK THEN s
     ELSE IF "DOWN" \in c THEN [s EXCEPT !.direct = others]
     ELSE IF "UP" \notin c \/ (s.conf.direct_link /\ "LINK_UP" \notin s.ifs[i].flags) THEN s
     ELSE [s EXCEPT !.direct = others \union {DirectRoute(s, i, a)}]

dev_if_notify(s, c, i) ==
  LET ac == IF "LINK_UP" \in s.ifs[i].flags THEN {"UP"} ELSE {"DOWN"} IN
  IF c \intersect {"UP", "DOWN"} # {} \/ "LINK" \notin c \/ ~s.conf.direct_link THEN s
  ELSE FoldLeft(LAMBDA t, a : dev_ifa_notify(t, ac, i, a), s, s.ifs[i].addrs)

-----------------------------------------------------------------------------
(*                           Interface list                                 *)

ifa_send_notify(s, c, i, a) == IF InVrf(s, i) THEN dev_ifa_notify(s, c, i, a) ELSE s

(* An address comes or goes, c says which: down before, up after the notice *)
ifa_notify_change(s, c, i, a) ==
  IF "DOWN" \in c THEN ifa_send_notify(neigh_ifa_down(s, i, a), c, i, a)
  ELSE neigh_ifa_up(ifa_send_notify(s, c, i, a), i, a)

if_send_notify(s, c, i) ==
  IF ~InVrf(s, i) THEN s
  ELSE dev_if_notify([s EXCEPT !.pref = (i :> s.ifs[i].best) @@ @], c, i)

AllAddrs(s, c, i) == FoldLeft(LAMBDA t, a : ifa_send_notify(t, c, i, a), s, s.ifs[i].addrs)

DownBefore(s, c, i) == IF "DOWN" \in c THEN AllAddrs(neigh_if_down(s, i), {"DOWN"}, i) ELSE s
UpAfter(s, c, i) == IF "UP" \in c THEN neigh_if_up(AllAddrs(s, {"UP"}, i), i) ELSE s
LinkAfter(s, c, i) ==
  IF c \intersect {"UP", "DOWN", "LINK"} = {"LINK"} THEN neigh_if_link(s, i) ELSE s

if_notify_change(s, c, i) ==
  LinkAfter(UpAfter(if_send_notify(DownBefore(s, c, i), c, i), c, i), c, i)

if_recalc_flags(f, flags) ==
  IF "ADMIN_UP" \in flags /\ flags \intersect {"SHUTDOWN", "TMP_DOWN"} = {}
     /\ ~(f.mindex # 0 /\ f.master = NULL)
  THEN flags \union {"UP"} ELSE flags \ {"UP"}

if_change_flags(s, i, flags) ==
  LET new == if_recalc_flags(s.ifs[i], flags)
      t == [s EXCEPT !.ifs[i].flags = new]
  IN IF ("UP" \in new) = Up(s, i) THEN t
     ELSE if_notify_change(t, IF "UP" \in new THEN {"UP"} ELSE {"DOWN"}, i)

Minor == {"UP", "SHUTDOWN", "UPDATED", "ADMIN_UP", "LINK_UP", "TMP_DOWN"}
TooMuch(i, j) == i.flags \ Minor # j.flags \ Minor \/ i.index # j.index \/ i.master # j.master
if_what_changed(i, j) ==
  LET differs(f) == (f \in i.flags) # (f \in j.flags) IN
  (IF ~differs("UP") THEN {} ELSE IF "UP" \in i.flags THEN {"DOWN"} ELSE {"UP"})
    \union (IF differs("LINK_UP") THEN {"LINK"} ELSE {})

NoBest == [v4 |-> NoIfa, v6 |-> NoIfa, ll |-> NoIfa]
NewIface(s, f, addrs, best) ==
  [s EXCEPT !.list = Append(Without(@, f.name), f.name),
            !.ifs = (f.name :> [flags |-> (f.flags \ {"UP"}) \union {"UPDATED", "TMP_DOWN"},
                                index |-> f.index, mindex |-> f.mindex, master |-> f.master,
                                addrs |-> addrs, best |-> best, neighbors |-> << >>]) @@ @]

if_update(s, g) ==
  LET f == [g EXCEPT !.flags = if_recalc_flags(g, @)]
      i == s.ifs[f.name]
      c == if_what_changed(i, f)
      copied == [s EXCEPT !.ifs[f.name] =
                   [@ EXCEPT !.flags = f.flags \union (@ \intersect {"TMP_DOWN"}),
                             !.mindex = f.mindex, !.master = f.master]]
  IN IF f.name \notin DOMAIN s.ifs THEN NewIface(s, g, << >>, NoBest)
     ELSE IF TooMuch(i, f)
     THEN NewIface(if_change_flags(s, f.name, i.flags \union {"TMP_DOWN"}), f, i.addrs, i.best)
     ELSE Flag(IF c = {} THEN copied ELSE if_notify_change(copied, c, f.name), f.name, {"UPDATED"})

if_delete(s, name) ==
  if_update(s, [name |-> name, flags |-> {"SHUTDOWN"}, index |-> 0, mindex |-> 0, master |-> NULL])

if_find_by_index(s, idx) ==
  LET at == SelectSeq(s.list, LAMBDA i : s.ifs[i].index = idx /\ "SHUTDOWN" \notin s.ifs[i].flags)
  IN IF at = << >> THEN NULL ELSE at[1]

(* if_recalc_preferred(): a configured address, else the old one, else the  *)
(* first; never a secondary one.                                            *)
Family(a) == IF ipa_is_ip4(a.ip) THEN "v4" ELSE IF ipa_is_link_local(a.ip) THEN "ll" ELSE "v6"
Choose(s, best, a) ==
  IF a.sec \/ (best[Family(a)] # NoIfa /\ a.ip \notin s.conf.prefs) THEN best
  ELSE [best EXCEPT ![Family(a)] = IfaKey(a)]

Lost(fam) == "LOST_" \o fam
if_recalc_preferred(s, i) ==
  LET best == FoldLeft(LAMBDA acc, a : Choose(s, acc, a), s.ifs[i].best, s.ifs[i].addrs)
      change == {fam \in DOMAIN best : best[fam] # s.ifs[i].best[fam]
                                        \/ Lost(fam) \in s.ifs[i].flags}
      t == Unflag([s EXCEPT !.ifs[i].best = best], i,
                  {"NEEDS_RECALC"} \union {Lost(fam) : fam \in DOMAIN best})
  IN IF change = {} THEN t ELSE if_notify_change(t, {"PREFERRED"}, i)

EndTmpDown(s, i) ==
  IF "TMP_DOWN" \in s.ifs[i].flags THEN if_change_flags(s, i, s.ifs[i].flags \ {"TMP_DOWN"}) ELSE s

if_end_partial_update(s, i) ==
  EndTmpDown(IF "NEEDS_RECALC" \in s.ifs[i].flags THEN if_recalc_preferred(s, i) ELSE s, i)

(* The preferred address is unlinked when it goes; the recalculation        *)
(* follows in if_end_partial_update().                                      *)
ifa_delete(s, i, a) ==
  LET at == SelectSeq(s.ifs[i].addrs, LAMBDA b : ifa_same(a, b))
      lost == {fam \in DOMAIN NoBest : s.ifs[i].best[fam] = IfaKey(a)}
      cut == [s EXCEPT !.ifs[i].addrs = SelectSeq(@, LAMBDA b : ~ifa_same(a, b)),
                       !.ifs[i].best = [fam \in DOMAIN @ |-> IF fam \in lost THEN NoIfa ELSE @[fam]] @@ <<>>,
                       !.ifs[i].flags = IF lost = {} THEN @
                                        ELSE @ \union {"NEEDS_RECALC"} \union {Lost(fam) : fam \in lost}]
  IN IF at = << >> THEN s
     ELSE IF Up(s, i) THEN ifa_notify_change(cut, {"DOWN"}, i, at[1]) ELSE cut

AddIfa(s, i, a) ==
  LET added == Flag([s EXCEPT !.ifs[i].addrs = Append(@, a)], i, {"NEEDS_RECALC"})
  IN IF Up(s, i) THEN ifa_notify_change(added, {"UP"}, i, a) ELSE added

ifa_update(s, i, a) ==
  LET same == {k \in DOMAIN s.ifs[i].addrs : ifa_same(s.ifs[i].addrs[k], a)}
      k == CHOOSE x \in same : TRUE
      kept == same # {} /\ [s.ifs[i].addrs[k] EXCEPT !.upd = a.upd] = a
  IN IF kept THEN [s EXCEPT !.ifs[i].addrs[k].upd = TRUE]
     ELSE AddIfa(IF same = {} THEN s ELSE ifa_delete(s, i, a), i, a)

if_start_update(s) ==
  [s EXCEPT !.ifs = [i \in DOMAIN @ |->
     [@[i] EXCEPT !.flags = @ \ {"UPDATED"},
                  !.addrs = [k \in DOMAIN @ |-> [@[k] EXCEPT !.upd = FALSE]] @@ <<>>]] @@ <<>>]

EndUpdate(s, i) ==
  LET stale == SelectSeq(s.ifs[i].addrs, LAMBDA a : ~a.upd) IN
  IF "UPDATED" \notin s.ifs[i].flags
  THEN if_change_flags(s, i, (s.ifs[i].flags \ {"ADMIN_UP"}) \union {"SHUTDOWN"})
  ELSE if_end_partial_update(FoldLeft(LAMBDA t, a : ifa_delete(t, i, a), s, stale), i)

if_end_update(s) == FoldLeft(EndUpdate, s, s.list)

-----------------------------------------------------------------------------
(*                               Netlink                                    *)

(* A link message carries [t, idx, name, admin, link, kind, vrf, master],   *)
(* an address message [t, idx, ip, len, sec, peer].                         *)
LinkFlags(m) ==
  (IF m.admin THEN {"ADMIN_UP"} ELSE {}) \union (IF m.link THEN {"LINK_UP"} ELSE {})
    \union (CASE m.kind = "lo" -> {"MULTIACCESS", "LOOPBACK", "IGNORE"}
              [] m.kind = "ptp" -> {"MULTICAST"}
              [] m.kind = "bcast" -> {"MULTIACCESS", "BROADCAST", "MULTICAST"}
              [] OTHER -> {"MULTIACCESS"})
    \union (IF m.vrf THEN {"VRF"} ELSE {})

NewLink(s, m) ==
  if_update(s, [name |-> m.name, flags |-> LinkFlags(m), index |-> m.idx,
                mindex |-> m.master, master |-> if_find_by_index(s, m.master)])
EndMessage(s, i, scan) == IF scan THEN s ELSE if_end_partial_update(s, i)

ParseLink(s, m, scan) ==
  IF m.t = "dellink" THEN s ELSE EndMessage(NewLink(s, m), m.name, scan)

\* The interface that had this index under another name is deleted first.
nl_parse_link(s, m, scan) ==
  LET ifi == if_find_by_index(s, m.idx)
      keep == ifi = NULL \/ (m.t # "dellink" /\ ifi = m.name)
  IN ParseLink(IF keep THEN s ELSE if_delete(s, ifi), m, scan)

(* The broadcast address is what the kernel offers or what is made up, all  *)
(* ones in both cases.                                                      *)
BuildIfa(m, broadcast) ==
  LET host == m.len = IP_WIDTH
      dst == IF m.peer = IPA_NONE THEN m.ip ELSE m.peer
  IN [ip |-> m.ip, sec |-> m.sec, scope |-> ipa_classify(m.ip), upd |-> TRUE, len |-> m.len,
      net |-> IF host THEN dst ELSE MaskTo(m.ip, m.len),
      peer |-> host /\ dst # m.ip,
      opposite |-> IF host /\ dst # m.ip THEN dst ELSE IPA_NONE,
      brd |-> IF host THEN dst
              ELSE IF ipa_is_ip4(m.ip) /\ broadcast /\ m.len < IP_WIDTH - 1
                   THEN MaskTo(m.ip, m.len) + 2^(IP_WIDTH - m.len) - 1
              ELSE IPA_NONE]

nl_parse_addr(s, m, scan) ==
  LET ifi == if_find_by_index(s, m.idx)
      a == BuildIfa(m, "BROADCAST" \in s.ifs[ifi].flags)
  IN IF ifi = NULL THEN s
     ELSE EndMessage(IF m.t = "newaddr" THEN ifa_update(s, ifi, a) ELSE ifa_delete(s, ifi, a),
                     ifi, scan)

nl_async_msg(s, m) ==
  IF m.t \in {"newlink", "dellink"} THEN nl_parse_link(s, m, FALSE) ELSE nl_parse_addr(s, m, FALSE)

(* "Re-resolve master interface for slaves": if_update() moves the          *)
(* interface to the end of the list that is being walked, so the walk ends. *)
Reresolve(s) ==
  LET wrong(i) == s.ifs[i].mindex # 0 /\ if_find_by_index(s, s.ifs[i].mindex) # s.ifs[i].master
      slaves == SelectSeq(s.list, wrong)
      i == s.ifs[slaves[1]]
  IN IF slaves = << >> THEN s
     ELSE if_update(s, [name |-> slaves[1], flags |-> i.flags, index |-> i.index,
                        mindex |-> i.mindex, master |-> if_find_by_index(s, i.mindex)])

kif_do_scan(s, links, addrs) ==
  if_end_update(
    FoldLeft(LAMBDA t, m : nl_parse_addr(t, m, TRUE),
             Reresolve(FoldLeft(LAMBDA t, m : nl_parse_link(t, m, TRUE), if_start_update(s), links)),
             addrs))

=============================================================================
