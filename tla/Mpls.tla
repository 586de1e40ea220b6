-------------------------------- MODULE Mpls --------------------------------
(***************************************************************************)
(* MPLS labels (nest/mpls.c): domains and their label ranges, which follow *)
(* the configuration and are reference counted; the channels of the        *)
(* protocols, which hold a range; and the FEC maps, which give every       *)
(* labelled route its label, announce the MPLS route of the label and take *)
(* both back when the last route of the label goes.                        *)
(*                                                                         *)
(* The routes of a protocol live in one table, its MPLS routes in another. *)
(* Ranges and handles are numbers; the handlers of the code are operators  *)
(* from state to state.  A failed ASSERT is remembered in s.bug.           *)
(***************************************************************************)
EXTENDS Naturals, Sequences, FiniteSets, FiniteSetsExt, SequencesExt, TLC

CONSTANTS
    Protos,   \* the protocols with an MPLS channel
    Nets,     \* the networks they have routes for
    Configs   \* the scenarios

VARIABLES
    conf,     \* the scenario: plan of configurations, routes, budgets
    s,        \* domains, ranges, handles, protocols, routes
    done      \* how much of each budget is spent

vars == <<conf, s, done>>

None == 0
NoMap == [on |-> FALSE]
NoRoute == [on |-> FALSE]

(* A fresh object: the smallest number not in use.                         *)
Fresh(f) == CHOOSE i \in 1..(Cardinality(DOMAIN f) + 1) : i \notin DOMAIN f

Without(f, x) == [y \in DOMAIN f \ {x} |-> f[y]] @@ <<>>

(* ASSERT: the state remembers that a condition of the code failed.        *)
Check(t, cond) == IF cond THEN t ELSE [t EXCEPT !.bug = TRUE]

----------------------------------------------------------------------------
(* Ranges *)

mpls_lock_range(t, r) == [t EXCEPT !.rng[r].use_count = @ + 1]

mpls_free_range(t, r) ==
    [Check(t, t.rng[r].use_count = 0 /\ t.rng[r].label_count = 0)
       EXCEPT !.rng = Without(@, r)]

mpls_unlock_range(t, r) ==
    IF r \notin DOMAIN t.rng \/ t.rng[r].use_count = 0 THEN Check(t, FALSE)
    ELSE LET u == [t EXCEPT !.rng[r].use_count = @ - 1]
         IN  IF u.rng[r].use_count = 0 /\ u.rng[r].removed
             THEN mpls_free_range(u, r) ELSE u

mpls_new_range(t, d, rc) ==
    LET r == Fresh(t.rng)
    IN  [t EXCEPT !.rng = (r :> [dom |-> d, name |-> rc.name, lo |-> rc.start,
                                 hi |-> rc.start + rc.length, label_count |-> 0,
                                 use_count |-> 0, removed |-> FALSE]) @@ @]

mpls_remove_range(t, r) ==
    LET u == [t EXCEPT !.rng[r].removed = TRUE]
    IN  IF u.rng[r].use_count = 0 THEN mpls_free_range(u, r) ELSE u

(* The range of a name: the deconfigured ones are not found.               *)
mpls_find_range_(t, d, name) ==
    { r \in DOMAIN t.rng : t.rng[r].dom = d /\ t.rng[r].name = name
                            /\ ~t.rng[r].removed }

RangeOf(t, d, name) == CHOOSE r \in mpls_find_range_(t, d, name) : TRUE

(* A range can take its new bounds when they leave no label outside.       *)
CanResize(t, r, rc) ==
    LET used == { n \in t.dom[t.rng[r].dom].labels :
                    n >= t.rng[r].lo /\ n < t.rng[r].hi }
        last == IF used = {} THEN 0 ELSE Max(used)
    IN  ~(rc.start > t.rng[r].lo \/ rc.start + rc.length <= last)

mpls_reconfigure_range(t, r, rc) ==
    [t EXCEPT !.rng[r].lo = rc.start, !.rng[r].hi = rc.start + rc.length]

----------------------------------------------------------------------------
(* Domains *)

NoDomain == [on |-> FALSE, removed |-> FALSE, use_count |-> 0,
             label_count |-> 0, labels |-> {}]

mpls_new_domain(t, d, ranges) ==
    FoldLeft(LAMBDA u, rc : mpls_new_range(u, d, rc),
             [t EXCEPT !.dom[d] = [NoDomain EXCEPT !.on = TRUE, !.labels = {0}]],
             ranges)

(* Every configured range keeps its object or gets a new one; the objects  *)
(* left over are deconfigured.                                             *)
mpls_reconfigure_domain(t, d, ranges) ==
    LET old == { r \in DOMAIN t.rng : t.rng[r].dom = d /\ ~t.rng[r].removed }
        Same(u, rc) == { r \in mpls_find_range_(u, d, rc.name) \cap old : CanResize(u, r, rc) }
        Step(a, rc) ==
            IF Same(a.t, rc) = {}
            THEN [a EXCEPT !.t = mpls_new_range(a.t, d, rc)]
            ELSE LET r == CHOOSE x \in Same(a.t, rc) : TRUE
                 IN  [t |-> mpls_reconfigure_range(a.t, r, rc), kept |-> a.kept \cup {r}]
        new == FoldLeft(Step, [t |-> t, kept |-> {}], ranges)
    IN  FoldLeft(LAMBDA u, r : mpls_remove_range(u, r), new.t,
                 SetToSortSeq(old \ new.kept, <))

mpls_free_domain(t, d) ==
    [Check(t, /\ t.dom[d].use_count = 0 /\ t.dom[d].label_count = 0
              /\ \A h \in DOMAIN t.hnd : t.hnd[h].dom # d)
       EXCEPT !.dom[d] = NoDomain,
              !.rng = [r \in { x \in DOMAIN @ : @[x].dom # d } |-> @[r]] @@ <<>>]

mpls_remove_domain(t, d) ==
    LET u == [t EXCEPT !.dom[d].removed = TRUE]
    IN  IF u.dom[d].use_count = 0 THEN mpls_free_domain(u, d) ELSE u

mpls_lock_domain(t, d) == [t EXCEPT !.dom[d].use_count = @ + 1]

mpls_unlock_domain(t, d) ==
    IF t.dom[d].use_count = 0 THEN Check(t, FALSE)
    ELSE LET u == [t EXCEPT !.dom[d].use_count = @ - 1]
         IN  IF u.dom[d].use_count = 0 /\ u.dom[d].removed
             THEN mpls_free_domain(u, d) ELSE u

(* The domains of a configuration: a function from names to ranges.        *)
mpls_commit(t, domains) ==
    LET Step(u, d) ==
            IF d \in DOMAIN domains
            THEN IF u.dom[d].on THEN mpls_reconfigure_domain(u, d, domains[d])
                 ELSE mpls_new_domain(u, d, domains[d])
            ELSE IF u.dom[d].on THEN mpls_remove_domain(u, d) ELSE u
    IN  FoldLeft(Step, t, SetToSortSeq(DOMAIN t.dom, <))

----------------------------------------------------------------------------
(* Handles and labels *)

mpls_new_handle(t, d, r) ==
    LET h == Fresh(t.hnd)
    IN  [t |-> mpls_lock_range(
                 [t EXCEPT !.hnd = (h :> [dom |-> d, range |-> r, label_count |-> 0]) @@ @], r),
         h |-> h]

mpls_free_handle(t, h) ==
    [mpls_unlock_range(Check(t, t.hnd[h].label_count = 0), t.hnd[h].range)
       EXCEPT !.hnd = Without(@, h)]

(* The first free label of a range, or its end (lib/bitmap.c).             *)
FirstZero(labels, lo, hi) ==
    Min({hi} \cup { n \in lo..hi : n < hi /\ n \notin labels })

(* A label of the range of a handle: the one asked for, or the first free; *)
(* 0 when it is taken, or outside.                                         *)
mpls_new_label(t, d, h, want) ==
    LET r == t.hnd[h].range
        n == IF want = 0 THEN FirstZero(t.dom[d].labels, t.rng[r].lo, t.rng[r].hi) ELSE want
    IN  IF n < t.rng[r].lo \/ n >= t.rng[r].hi \/ n \in t.dom[d].labels
        THEN [t |-> t, label |-> 0]
        ELSE [t |-> [t EXCEPT !.dom[d].label_count = @ + 1, !.rng[r].label_count = @ + 1,
                              !.hnd[h].label_count = @ + 1, !.dom[d].labels = @ \cup {n}],
              label |-> n]

mpls_free_label(t, d, h, n) ==
    LET r == t.hnd[h].range
    IN  IF n \notin t.dom[d].labels \/ t.dom[d].label_count = 0
           \/ t.rng[r].label_count = 0 \/ t.hnd[h].label_count = 0
        THEN Check(t, FALSE)
        ELSE [t EXCEPT !.dom[d].label_count = @ - 1, !.rng[r].label_count = @ - 1,
                       !.hnd[h].label_count = @ - 1, !.dom[d].labels = @ \ {n}]

(* Faulty variants of definitions are named for what they get wrong.       *)
MoveWithoutCount(t, d, from, to, n) == t

mpls_move_label(t, d, from, to, n) ==
    LET fr == t.hnd[from].range
        tr == t.hnd[to].range
        ok == /\ n \in t.dom[d].labels
              /\ n >= t.rng[fr].lo /\ n < t.rng[fr].hi
              /\ n >= t.rng[tr].lo /\ n < t.rng[tr].hi
              /\ t.rng[fr].label_count > 0 /\ t.hnd[from].label_count > 0
    IN  IF ~ok THEN Check(t, FALSE)
        ELSE LET u == [t EXCEPT !.rng[fr].label_count = @ - 1, !.hnd[from].label_count = @ - 1]
             IN  [u EXCEPT !.rng[tr].label_count = @ + 1, !.hnd[to].label_count = @ + 1]

----------------------------------------------------------------------------
(* The MPLS channel of a protocol *)

(* Its configuration c is [domain, range, policy], by name.                *)
mpls_channel_init(t, c) ==
    [domain |-> c.domain, range |-> RangeOf(t, c.domain, c.range),
     policy |-> c.policy, up |-> FALSE]

mpls_channel_start(t, p) ==
    mpls_lock_range(mpls_lock_domain([t EXCEPT !.pr[p].chan.up = TRUE], t.pr[p].chan.domain),
                    t.pr[p].chan.range)

mpls_channel_cleanup(t, p) ==
    mpls_unlock_domain(
        mpls_unlock_range([t EXCEPT !.pr[p].chan.up = FALSE], t.pr[p].chan.range),
        t.pr[p].chan.domain)

mpls_channel_reconfigure(t, p, c) ==
    LET chan == t.pr[p].chan
        new == RangeOf(t, c.domain, c.range)
        moved == new # chan.range
        u == IF moved /\ chan.up THEN mpls_unlock_range(t, chan.range) ELSE t
        v == [u EXCEPT !.pr[p].chan.range = new, !.pr[p].chan.policy = c.policy]
    IN  IF c.domain # chan.domain THEN [t |-> t, ok |-> FALSE, changed |-> FALSE]
        ELSE [t |-> IF moved /\ chan.up THEN mpls_lock_range(v, new) ELSE v,
              ok |-> TRUE, changed |-> moved \/ c.policy # chan.policy]

----------------------------------------------------------------------------
(* The FEC map of a protocol.  fecs is its label_hash; net_hash, rta_hash  *)
(* and vrf_fec are the FECs of the policies that use them, as a FEC leaves *)
(* them when it loses its policy.                                          *)

(* What identifies the next hop of a route: itself, or the host entry that *)
(* resolves it with the labels the route had of its own.                   *)
mpls_get_key_rta(a) ==
    IF a.host = None THEN [host |-> None, nh |-> a.nh, labels |-> a.labels]
    ELSE [host |-> a.host, nh |-> None,
          labels |-> SubSeq(a.labels, Len(a.labels) - a.orig + 1, Len(a.labels))]

NoKey == [host |-> None, nh |-> None, labels |-> <<>>]

mpls_fec_map_new(t, p) ==
    LET c == t.pr[p].chan
        new == mpls_new_handle(mpls_lock_domain(t, c.domain), c.domain, c.range)
    IN  [new.t EXCEPT !.pr[p].map = [on |-> TRUE, freed |-> FALSE, handle |-> new.h,
                                     static_handle |-> None, fecs |-> <<>>]]

StaticRange(t, p) == RangeOf(t, t.pr[p].chan.domain, "static")

(* A FEC stays with its label when the label is in the range that its      *)
(* policy now uses, and otherwise waits, dead, for its routes to go.       *)
MoveFec(t, p, n) ==
    LET m == t.pr[p].map
        fec == m.fecs[n]
        new == IF fec.policy # "STATIC" THEN m.handle ELSE m.static_handle
        r == t.rng[t.hnd[new].range]
    IN  IF fec.policy = "NONE" \/ fec.handle \in {m.handle, m.static_handle} THEN t
        ELSE IF n >= r.lo /\ n < r.hi
        THEN [mpls_move_label(t, t.pr[p].chan.domain, fec.handle, new, n)
                EXCEPT !.pr[p].map.fecs[n].handle = new]
        ELSE [t EXCEPT !.pr[p].map.fecs[n].policy = "NONE"]

DropHandle(t, old, new) ==
    IF old # new /\ t.hnd[old].label_count = 0 THEN mpls_free_handle(t, old) ELSE t

mpls_fec_map_reconfigure(t, p) ==
    LET m == t.pr[p].map
        c == t.pr[p].chan
        dyn == IF t.hnd[m.handle].range # c.range THEN mpls_new_handle(t, c.domain, c.range)
               ELSE [t |-> t, h |-> m.handle]
        st == IF m.static_handle # None
                 /\ t.hnd[m.static_handle].range # StaticRange(t, p)
              THEN mpls_new_handle(dyn.t, c.domain, StaticRange(t, p))
              ELSE [t |-> dyn.t, h |-> m.static_handle]
        u == [st.t EXCEPT !.pr[p].map.handle = dyn.h, !.pr[p].map.static_handle = st.h]
        v == FoldLeft(LAMBDA x, n : MoveFec(x, p, n), u, SetToSortSeq(DOMAIN m.fecs, <))
    IN  IF dyn.h = m.handle /\ st.h = m.static_handle THEN t
        ELSE DropHandle(DropHandle(v, m.handle, dyn.h), m.static_handle, st.h)

(* The labels of a map are freed; its MPLS routes are flushed later.       *)
FreeOne(t, p, n) ==
    LET fec == t.pr[p].map.fecs[n]
        u == mpls_free_label(t, t.pr[p].chan.domain, fec.handle, n)
    IN  IF fec.policy = "NONE" /\ u.hnd[fec.handle].label_count = 0
        THEN mpls_free_handle(u, fec.handle) ELSE u

mpls_fec_map_free(t, p) ==
    LET m == t.pr[p].map
        u == FoldLeft(LAMBDA x, n : FreeOne(x, p, n), t, SetToSortSeq(DOMAIN m.fecs, <))
        v == IF m.static_handle # None THEN mpls_free_handle(u, m.static_handle) ELSE u
    IN  [mpls_unlock_domain(mpls_free_handle(v, m.handle), t.pr[p].chan.domain)
           EXCEPT !.pr[p].map = NoMap]

(* A new FEC, or none when there is no label.                              *)
NewFec(new, p, policy, handle, net, key, class) ==
    IF new.label = 0 THEN new
    ELSE [new EXCEPT !.t.pr[p].map.fecs =
            (new.label :> [uc |-> 0, state |-> "DOWN", policy |-> policy, handle |-> handle,
                           net |-> net, key |-> key, class |-> class]) @@ @]

mpls_get_fec_by_label(t, p, want) ==
    LET d == t.pr[p].chan.domain
        m == t.pr[p].map
        new == IF m.static_handle = None THEN mpls_new_handle(t, d, StaticRange(t, p))
               ELSE [t |-> t, h |-> m.static_handle]
        u == [new.t EXCEPT !.pr[p].map.static_handle = new.h]
    IN  IF want \in DOMAIN m.fecs
        THEN [t |-> t, label |-> IF m.fecs[want].policy = "STATIC" THEN want ELSE 0]
        ELSE NewFec(mpls_new_label(u, d, new.h, want), p, "STATIC", new.h, None, NoKey, 0)

(* The FEC with a key, in the table of its policy, or a new one.           *)
GetFec(t, p, policy, net, key, class) ==
    LET m == t.pr[p].map
        same == { n \in DOMAIN m.fecs : /\ m.fecs[n].policy = policy /\ m.fecs[n].net = net
                                        /\ m.fecs[n].key = key /\ m.fecs[n].class = class }
    IN  IF same # {} THEN [t |-> t, label |-> CHOOSE n \in same : TRUE]
        ELSE NewFec(mpls_new_label(t, t.pr[p].chan.domain, m.handle, 0),
                    p, policy, m.handle, net, key, class)

mpls_get_fec_by_net(t, p, net) == GetFec(t, p, "PREFIX", net, NoKey, 0)

mpls_get_fec_by_rta(t, p, a) == GetFec(t, p, "AGGREGATE", None, mpls_get_key_rta(a), a.class)

mpls_get_fec_for_vrf(t, p) == GetFec(t, p, "VRF", None, NoKey, 0)

(* The MPLS route of a label goes to the MPLS table by rte_update2().      *)
mpls_announce_fec(t, p, n, a) ==
    [Check(t, t.pr[p].st = "up")
       EXCEPT !.pr[p].map.fecs[n].state = "CLEAN",
              !.ilm = (<<p, n>> :> mpls_get_key_rta(a)) @@ @]

mpls_withdraw_fec(t, p, n) ==
    [Check(t, t.pr[p].st = "up")
       EXCEPT !.pr[p].map.fecs[n].state = "DOWN", !.ilm = Without(@, <<p, n>>)]

mpls_free_fec(t, p, n) ==
    LET u == IF t.pr[p].map.fecs[n].state # "DOWN" THEN mpls_withdraw_fec(t, p, n) ELSE t
    IN  [FreeOne(u, p, n) EXCEPT !.pr[p].map.fecs = Without(@, n)]

mpls_lock_fec(t, p, n) == [t EXCEPT !.pr[p].map.fecs[n].uc = @ + 1]

mpls_unlock_fec(t, p, n) ==
    LET u == [t EXCEPT !.pr[p].map.fecs[n].uc = @ - 1]
    IN  IF u.pr[p].map.fecs[n].uc = 0 THEN mpls_free_fec(u, p, n) ELSE u

mpls_damage_fec(t, p, n) ==
    IF n # 0 /\ t.pr[p].map.fecs[n].state = "CLEAN"
    THEN [t EXCEPT !.pr[p].map.fecs[n].state = "DIRTY"] ELSE t

mpls_apply_fec(t, p, a, n) ==
    LET policy == t.pr[p].map.fecs[n].policy
        b == [a EXCEPT !.label = n, !.policy = policy]
    IN  IF policy = "VRF"
        THEN [b EXCEPT !.host = None, !.nh = conf.vrf[p], !.labels = <<>>, !.orig = 0] ELSE b

(* The FEC of a route by its policy: ok is FALSE when the route must be    *)
(* dropped, label 0 when it needs no label.                                *)
SelectFec(t, p, net, a) ==
    LET None_ == [t |-> t, ok |-> TRUE, label |-> 0]
        Got(f, damage) == [t |-> IF damage THEN mpls_damage_fec(f.t, p, f.label) ELSE f.t,
                           ok |-> f.label # 0, label |-> f.label]
    IN  CASE a.policy = "NONE" -> None_
          [] a.policy = "STATIC" ->
               IF a.label < 16 THEN None_ ELSE Got(mpls_get_fec_by_label(t, p, a.label), TRUE)
          [] a.policy = "PREFIX" -> Got(mpls_get_fec_by_net(t, p, net), TRUE)
          [] a.policy = "AGGREGATE" -> Got(mpls_get_fec_by_rta(t, p, a), FALSE)
          [] a.policy = "VRF" ->
               IF conf.vrf[p] = None THEN None_ ELSE Got(mpls_get_fec_for_vrf(t, p), FALSE)

LockFec(f, p, a) ==
    LET u == mpls_lock_fec(f.t, p, f.label)
        b == mpls_apply_fec(u, p, a, f.label)
    IN  IF ~f.ok \/ f.label = 0 THEN [t |-> f.t, ok |-> f.ok, locked |-> 0, a |-> a]
        ELSE [t |-> IF u.pr[p].map.fecs[f.label].state # "CLEAN"
                    THEN mpls_announce_fec(u, p, f.label, b) ELSE u,
              ok |-> TRUE, locked |-> f.label, a |-> b]

mpls_handle_rte(t, p, net, a) == LockFec(SelectFec(t, p, net, a), p, a)

mpls_handle_rte_cleanup(t, p, locked) ==
    IF locked # 0 THEN mpls_unlock_fec(t, p, locked) ELSE t

(* The routes of the table count at the FEC of their label.                *)
Labelled(t, p, a) == a.on /\ a.label >= 16 /\ a.label \in DOMAIN t.pr[p].map.fecs

mpls_rte_insert(t, p, a) == IF Labelled(t, p, a) THEN mpls_lock_fec(t, p, a.label) ELSE t

mpls_rte_remove(t, p, a) == IF Labelled(t, p, a) THEN mpls_unlock_fec(t, p, a.label) ELSE t

rte_recalculate(t, p, net, new) ==
    LET old == t.rt[p][net]
        u == [t EXCEPT !.rt[p][net] = new]
    IN  IF old = new THEN t
        ELSE mpls_rte_insert(mpls_rte_remove(u, p, old), p, new)

(* A route is refused when it gets no label, and dropped at the import     *)
(* limit when it is not there yet.                                         *)
Import(h, p, net, refused) ==
    mpls_handle_rte_cleanup(
        rte_recalculate(h.t, p, net, IF refused \/ ~h.ok THEN NoRoute ELSE h.a), p, h.locked)

rte_update2(t, p, net, a, blocked) ==
    IF ~a.on THEN rte_recalculate(t, p, net, NoRoute)
    ELSE Import(mpls_handle_rte(t, p, net, a), p, net, blocked /\ ~t.rt[p][net].on)

proto_setup_mpls_map(t, p) ==
    LET m == t.pr[p].map
    IN  IF ~m.on THEN mpls_fec_map_new(t, p)
        ELSE IF m.freed THEN Check(t, FALSE)
        ELSE mpls_fec_map_reconfigure(t, p)

proto_shutdown_mpls_map(t, p) ==
    IF t.pr[p].map.on THEN mpls_fec_map_free(t, p) ELSE t

----------------------------------------------------------------------------
(* The protocols.  A static protocol goes down at once when it is shut     *)
(* down, a BGP one waits in PS_STOP for its connections to close.  Both    *)
(* free their map first; the routes are flushed later by the tables.       *)

Spend(what) ==
    /\ done[what] < conf[what]
    /\ done' = [done EXCEPT ![what] = @ + 1]

Wanted(p) == conf.plan[s.cur].protos[p]

(* The attributes a protocol gives to a route: a label asked for makes it  *)
(* static, and the filter of the channel may have the last word.           *)
Attrs(t, p, a) ==
    IF a.policy # "DEFAULT" THEN a
    ELSE [a EXCEPT !.policy = IF a.label # 0 THEN "STATIC" ELSE t.pr[p].chan.policy]

Announced(t, p, net, a, blocked) ==
    rte_update2(t, p, net, IF a.on THEN Attrs(t, p, a) ELSE a, blocked)

(* A protocol announces, replaces or withdraws a route.                    *)
Announce(p, net) ==
    /\ s.pr[p].st = "up"
    /\ Spend("updates")
    /\ \E a \in conf.routes[p] \cup {NoRoute}, blocked \in conf.blocked :
         /\ a # s.src[p][net]
         /\ s' = [Announced(s, p, net, a, blocked) EXCEPT !.src[p][net] = a]
    /\ UNCHANGED conf

(* The reload of a channel after a change of its labels.                   *)
Reload(p, net) ==
    /\ s.pr[p].st = "up" /\ net \in s.pr[p].reload
    /\ s' = [Announced(s, p, net, s.src[p][net], FALSE) EXCEPT !.pr[p].reload = @ \ {net}]
    /\ UNCHANGED <<conf, done>>

Shutdown(t, p) ==
    [proto_shutdown_mpls_map(t, p)
       EXCEPT !.pr[p].st = IF conf.kind[p] = "static" THEN "flush" ELSE "stop",
              !.pr[p].reload = {},
              !.src[p] = [n \in Nets |-> NoRoute]]

Restart(p) ==
    /\ s.pr[p].st \in {"start", "up"}
    /\ Spend("restarts")
    /\ s' = Shutdown(s, p)
    /\ UNCHANGED conf

(* PS_DOWN frees the pool of the protocol, and a map that is left in it.   *)
Stopped(p) ==
    /\ s.pr[p].st = "stop"
    /\ s' = [s EXCEPT !.pr[p].st = "flush",
                      !.pr[p].map = IF @.on THEN [@ EXCEPT !.freed = TRUE] ELSE @]
    /\ UNCHANGED <<conf, done>>

InitChannel(t, p, c) == [t EXCEPT !.pr[p].chan = mpls_channel_init(t, c)]

(* The tables are flushed, and the channel releases what it holds.         *)
Flushed(p) ==
    LET t == [s EXCEPT !.rt[p] = [n \in Nets |-> NoRoute],
                       !.ilm = [k \in { x \in DOMAIN @ : x[1] # p } |-> @[k]] @@ <<>>,
                       !.pr[p].st = "down", !.pr[p].re = FALSE]
        u == IF s.pr[p].chan.up THEN mpls_channel_cleanup(t, p) ELSE t
    IN  /\ s.pr[p].st = "flush"
        /\ s' = IF s.pr[p].re
                THEN [IF Wanted(p).on THEN InitChannel(u, p, Wanted(p)) ELSE u
                        EXCEPT !.pr[p].map = NoMap]
                ELSE u
        /\ UNCHANGED <<conf, done>>

Start(p) ==
    LET t == proto_setup_mpls_map(s, p)
    IN  /\ s.pr[p].st = "down" /\ Wanted(p).on
        /\ s' = IF conf.kind[p] = "static"
                THEN mpls_channel_start([t EXCEPT !.pr[p].st = "up"], p)
                ELSE [t EXCEPT !.pr[p].st = "start"]
        /\ UNCHANGED <<conf, done>>

Established(p) ==
    /\ s.pr[p].st = "start"
    /\ s' = mpls_channel_start([s EXCEPT !.pr[p].st = "up"], p)
    /\ UNCHANGED <<conf, done>>

----------------------------------------------------------------------------
(* Reconfiguration *)

(* A protocol that is down, or no longer wanted, is made anew once it is   *)
(* flushed; the others follow in place when they can.                      *)
Reconfigured(t, p, c) ==
    LET r == mpls_channel_reconfigure(t, p, c)
        u == proto_setup_mpls_map(r.t, p)
        active == t.pr[p].st \in {"start", "up"}
        Anew(x) == [IF active THEN Shutdown(x, p) ELSE x EXCEPT !.pr[p].re = TRUE]
    IN  IF t.pr[p].st = "down" THEN IF c.on THEN InitChannel(t, p, c) ELSE t
        ELSE IF ~c.on \/ t.pr[p].st = "flush" THEN Anew(t)
        ELSE IF ~r.ok THEN Anew(r.t)
        ELSE IF r.changed /\ t.pr[p].st = "up"
        THEN [u EXCEPT !.pr[p].reload = { n \in Nets : t.src[p][n].on }] ELSE u

(* config_commit(): not before the objects of the last one are gone.       *)
Commit ==
    LET new == conf.plan[s.cur + 1]
        t == [mpls_commit(s, new.domains) EXCEPT !.cur = @ + 1]
    IN  /\ s.cur < Len(conf.plan)
        /\ \A d \in DOMAIN s.dom : ~s.dom[d].removed
        /\ \A p \in Protos : ~s.pr[p].re
        /\ conf.stop \/ \A p \in Protos : s.pr[p].st # "stop"
        /\ s' = FoldLeft(LAMBDA u, p : Reconfigured(u, p, new.protos[p]), t,
                         SetToSortSeq(Protos, <))
        /\ UNCHANGED <<conf, done>>

----------------------------------------------------------------------------
Init ==
    LET first(c) == c.plan[1]
        empty(c) == [dom |-> [d \in c.domains |-> NoDomain], rng |-> <<>>, hnd |-> <<>>,
                     rt |-> [p \in Protos |-> [n \in Nets |-> NoRoute]],
                     src |-> [p \in Protos |-> [n \in Nets |-> NoRoute]],
                     ilm |-> <<>>, cur |-> 1, bug |-> FALSE, pr |-> <<>>]
        NoChannel == [domain |-> None, range |-> None, policy |-> "NONE", up |-> FALSE]
        Made(c) == LET t == mpls_commit(empty(c), first(c).domains)
                   IN  [t EXCEPT !.pr = [p \in Protos |->
                          [st |-> "down", re |-> FALSE, reload |-> {}, map |-> NoMap,
                           chan |-> IF first(c).protos[p].on
                                    THEN mpls_channel_init(t, first(c).protos[p])
                                    ELSE NoChannel]]]
    IN  /\ conf \in Configs
        /\ s = Made(conf)
        /\ done = [updates |-> 0, restarts |-> 0]

Next ==
    \/ \E p \in Protos, net \in Nets : Announce(p, net) \/ Reload(p, net)
    \/ \E p \in Protos : \/ Restart(p) \/ Stopped(p) \/ Flushed(p)
                         \/ Start(p) \/ Established(p)
    \/ Commit

(* A protocol starts, connects, closes, is flushed and reloads in the end: *)
(* each is an event or a packet that nothing else waits for.               *)
Pending ==
    \E p \in Protos : \/ s.pr[p].st \in {"start", "stop", "flush"}
                      \/ (s.pr[p].st = "down" /\ Wanted(p).on)
                      \/ (s.pr[p].st = "up" /\ s.pr[p].reload # {})

Fairness == []<>~Pending \/ []<><<Next>>_vars

Spec == Init /\ [][Next]_vars /\ Fairness

----------------------------------------------------------------------------
Maps == { p \in Protos : s.pr[p].map.on /\ ~s.pr[p].map.freed }
Fecs(p) == s.pr[p].map.fecs
Count(S, P(_)) == Cardinality({ x \in S : P(x) })

TypeOK ==
    /\ \A r \in DOMAIN s.rng : s.rng[r].lo < s.rng[r].hi
    /\ \A p \in Protos : s.pr[p].st \in {"down", "start", "up", "stop", "flush"}
    /\ \A p \in Maps : \A n \in DOMAIN Fecs(p) :
         Fecs(p)[n].policy \in {"NONE", "STATIC", "PREFIX", "AGGREGATE", "VRF"}

(* The reference and label counts of domains, ranges and handles           *)
(* (mpls_lock_*, mpls_unlock_*, mpls_new_label, mpls_move_label) are what  *)
(* the maps and channels hold, no assertion of the code fails, a           *)
(* deconfigured range or a replaced handle is there only while it is used, *)
(* and a label belongs to one FEC of one protocol.                         *)
CountsExact ==
    /\ ~s.bug
    /\ \A r \in DOMAIN s.rng :
         /\ s.rng[r].use_count = Count(DOMAIN s.hnd, LAMBDA h : s.hnd[h].range = r)
                + Count(Protos, LAMBDA p : s.pr[p].chan.up /\ s.pr[p].chan.range = r)
         /\ s.rng[r].removed => s.rng[r].use_count > 0
         /\ s.rng[r].label_count =
               FoldFunctionOnSet(LAMBDA h, n : h.label_count + n, 0, s.hnd,
                                 { h \in DOMAIN s.hnd : s.hnd[h].range = r })
    /\ \A h \in DOMAIN s.hnd : \E p \in Maps :
         /\ s.hnd[h].label_count = Count(DOMAIN Fecs(p), LAMBDA n : Fecs(p)[n].handle = h)
         /\ \/ h \in {s.pr[p].map.handle, s.pr[p].map.static_handle}
            \/ s.hnd[h].label_count > 0
    /\ \A d \in DOMAIN s.dom :
         LET users == { p \in Maps : s.pr[p].chan.domain = d }
         IN  /\ s.dom[d].use_count = Cardinality(users)
                   + Count(Protos, LAMBDA p : s.pr[p].chan.up /\ s.pr[p].chan.domain = d)
             /\ s.dom[d].on => s.dom[d].labels = {0} \cup UNION { DOMAIN Fecs(p) : p \in users }
             /\ \A p, q \in users : p # q => DOMAIN Fecs(p) \cap DOMAIN Fecs(q) = {}

(* The labelled routes and the MPLS routes of a protocol correspond        *)
(* (mpls_handle_rte, mpls_rte_insert, mpls_rte_remove): a FEC counts the   *)
(* routes that carry its label, and goes with the last; its MPLS route     *)
(* leads where the routes lead, of a prefix FEC as of its last update;     *)
(* routes of one aggregate FEC have one next hop, those with one next hop  *)
(* one FEC, and no two prefixes a label.                                   *)
LabelsRight ==
    \A p \in Protos : s.pr[p].st = "up" =>
        LET Using(n) == { net \in Nets : s.rt[p][net].on /\ s.rt[p][net].label = n }
        IN  /\ { k[2] : k \in { x \in DOMAIN s.ilm : x[1] = p } } = DOMAIN Fecs(p)
            /\ \A net \in Nets : (s.rt[p][net].on /\ s.rt[p][net].policy # "NONE"
                                     /\ s.rt[p][net].label >= 16)
                   => s.rt[p][net].label \in DOMAIN Fecs(p)
            /\ \A n \in DOMAIN Fecs(p) :
                 /\ Fecs(p)[n].uc = Cardinality(Using(n)) /\ Using(n) # {}
                 /\ Fecs(p)[n].state = "CLEAN"
                 /\ \A net \in Using(n) : s.rt[p][net].policy \in {"PREFIX", "AGGREGATE", "VRF"}
                       => s.ilm[<<p, n>>] = mpls_get_key_rta(s.rt[p][net])
                 /\ Fecs(p)[n].policy = "PREFIX" => Using(n) = {Fecs(p)[n].net}
            /\ \A m, n \in Nets :
                 LET a == s.rt[p][m]
                     b == s.rt[p][n]
                 IN  (/\ a.on /\ b.on /\ a.policy = "AGGREGATE" /\ b.policy = "AGGREGATE"
                      /\ a.label \in DOMAIN Fecs(p) /\ b.label \in DOMAIN Fecs(p)
                      /\ Fecs(p)[a.label].policy # "NONE" /\ Fecs(p)[b.label].policy # "NONE")
                     => ((a.label = b.label) <=>
                           (mpls_get_key_rta(a) = mpls_get_key_rta(b) /\ a.class = b.class))

(* A labelled route of the prefix policy that is updated keeps its label   *)
(* as long as its FEC is alive (mpls_get_fec_by_net).                      *)
LabelKept ==
    [][\A p \in Protos, net \in Nets :
         LET a == s.rt[p][net]
             b == s'.rt[p][net]
         IN  (/\ s.pr[p].st = "up" /\ s'.pr[p].st = "up" /\ a.on /\ b.on
              /\ a.policy = "PREFIX" /\ b.policy = "PREFIX"
              /\ Fecs(p)[a.label].policy = "PREFIX")
             => b.label = a.label]_vars

(* After a change of domains, ranges or policies (mpls_commit,             *)
(* mpls_fec_map_reconfigure) every label comes to lie in the range that is *)
(* now configured, and what was deconfigured is freed: a domain left over  *)
(* would hold up every later configuration.                                *)
Settled ==
    /\ \A d \in DOMAIN s.dom : s.dom[d].on <=> d \in DOMAIN conf.plan[s.cur].domains
    /\ \A d \in DOMAIN s.dom : ~s.dom[d].removed
    /\ \A r \in DOMAIN s.rng : ~s.rng[r].removed
    /\ \A p \in Maps : \A n \in DOMAIN Fecs(p) :
         LET r == s.rng[IF Fecs(p)[n].policy = "STATIC" THEN StaticRange(s, p)
                        ELSE s.pr[p].chan.range]
         IN  n >= r.lo /\ n < r.hi
LabelsMove == <>[]Settled

=============================================================================
