----------------------------- MODULE OspfIface -----------------------------
(***************************************************************************)
(* OSPF routers on one multiaccess network: the interface state machine    *)
(* (iface.c), hello packets (hello.c), the part of the neighbor state      *)
(* machine up to ExStart and the election of the designated router         *)
(* (neighbor.c).  NEIGHBOR_EXSTART stands for every state from it up; what *)
(* follows in these is the subject of OspfExchange.                        *)
(*                                                                         *)
(* A router is known by its router ID, 0 is no router.  An interface is a  *)
(* record; the handlers are operators on it, and out collects the hello    *)
(* packets they send.                                                      *)
(***************************************************************************)
EXTENDS Integers, Sequences, FiniteSets, TLC, SequencesExt

CONSTANTS
    Configs,    \* runs: [type, prio, strict, listed, links, stops, losses, changes]
    Flight      \* bound on the number of hello packets on the way

VARIABLES
    conf,       \* the configuration and the bounds, which count down
    ifa,        \* the interface of each router
    net         \* the hello packets on the way

vars == <<conf, ifa, net>>

Router == DOMAIN conf.prio
NoRouter == 0

\* Interface states, in the order of ospf.h.
OSPF_IS_DOWN == 0
OSPF_IS_LOOP == 1
OSPF_IS_WAITING == 2
OSPF_IS_PTP == 3
OSPF_IS_DROTHER == 4
OSPF_IS_BACKUP == 5
OSPF_IS_DR == 6

NEIGHBOR_DOWN == 0
NEIGHBOR_INIT == 2
NEIGHBOR_2WAY == 3
NEIGHBOR_EXSTART == 4

Elects == conf.type \in {"bcast", "nbma"}
HasNodes == conf.type \in {"nbma", "ptmp"}

\* ospf_iface_new(): nodes are the configured neighbors not found yet.
ospf_iface_new(r) ==
    [rid |-> r, state |-> OSPF_IS_DOWN, prio |-> conf.prio[r], drid |-> NoRouter,
     bdrid |-> NoRouter, sk_dr |-> FALSE, wait |-> FALSE, link |-> TRUE,
     nodes |-> IF HasNodes THEN conf.listed \ {r} ELSE {},
     neigh |-> [q \in {} |-> q], out |-> {}]

(***************************************************************************)
(* Hello packets                                                           *)
(***************************************************************************)

Eligible(q) == conf.prio[q] > 0

\* Who gets a hello of the given kind.
HelloTargets(s, kind) ==
    LET known == DOMAIN s.neigh
        to_all == s.state > OSPF_IS_DROTHER
        me_elig == s.prio > 0
    IN  IF conf.type \in {"bcast", "ptp"} THEN Router \ {s.rid}
        ELSE IF conf.type = "ptmp" THEN known \cup s.nodes
        ELSE IF kind = "POLL" THEN {q \in s.nodes : to_all \/ (me_elig /\ Eligible(q))}
        ELSE {q \in known : \/ to_all
                            \/ me_elig /\ s.neigh[q].prio > 0
                            \/ q \in {s.drid, s.bdrid}}

Hello(s, kind, q) ==
    [from |-> s.rid, to |-> q, prio |-> s.prio, dr |-> s.drid, bdr |-> s.bdrid,
     neighbors |-> IF kind = "SHUTDOWN" THEN {} ELSE DOMAIN s.neigh]

\* The answer of a router that is not eligible goes to one neighbor.
ospf_send_hello(s, kind, dirn) ==
    LET targets == IF dirn # NoRouter THEN {dirn} ELSE HelloTargets(s, kind)
    IN  IF s.state <= OSPF_IS_LOOP THEN s
        ELSE [s EXCEPT !.out = @ \cup {Hello(s, kind, q) : q \in targets}]

(***************************************************************************)
(* Election                                                                *)
(***************************************************************************)

\* Who takes part: the neighbors in 2-Way or higher, and the router itself
\* with what it declares.
Candidates(s, dr, bdr) ==
    {[rid |-> q, prio |-> s.neigh[q].prio, dr |-> s.neigh[q].dr, bdr |-> s.neigh[q].bdr] :
        q \in {n \in DOMAIN s.neigh : s.neigh[n].state >= NEIGHBOR_2WAY
                                       /\ s.neigh[n].prio > 0}}
    \cup (IF s.prio > 0 THEN {[rid |-> s.rid, prio |-> s.prio, dr |-> dr, bdr |-> bdr]} ELSE {})

\* The highest priority wins, then the highest router ID.
Best(set) ==
    IF set = {} THEN NoRouter
    ELSE (CHOOSE c \in set : \A d \in set :
             c.prio > d.prio \/ (c.prio = d.prio /\ c.rid >= d.rid)).rid

elect_bdr(all) ==
    LET rest == {c \in all : c.dr # c.rid}
        declared == {c \in rest : c.bdr = c.rid}
    IN  Best(IF declared # {} THEN declared ELSE rest)

elect_dr(all) == Best({c \in all : c.dr = c.rid})

Elected(s, dr, bdr) ==
    LET all == Candidates(s, dr, bdr)
        nbdr == elect_bdr(all)
        ndr == elect_dr(all)
    IN  [dr |-> IF ndr = NoRouter THEN nbdr ELSE ndr, bdr |-> nbdr]

can_do_adj(s, q) ==
    IF ~Elects THEN TRUE
    ELSE IF s.state = OSPF_IS_WAITING THEN FALSE
    ELSE IF s.state = OSPF_IS_DROTHER
    THEN q \in {s.drid, s.bdrid} /\ s.neigh[q].state >= NEIGHBOR_2WAY
    ELSE s.neigh[q].state >= NEIGHBOR_2WAY

INM_ADJOK(s, q) ==
    IF s.neigh[q].state = NEIGHBOR_2WAY /\ can_do_adj(s, q)
    THEN [s EXCEPT !.neigh[q].state = NEIGHBOR_EXSTART]
    ELSE IF s.neigh[q].state >= NEIGHBOR_EXSTART /\ ~can_do_adj(s, q)
    THEN [s EXCEPT !.neigh[q].state = NEIGHBOR_2WAY]
    ELSE s

(***************************************************************************)
(* The interface state machine                                             *)
(***************************************************************************)

ospf_sk_join_dr(s) == [s EXCEPT !.sk_dr = TRUE]
ospf_sk_leave_dr(s) == [s EXCEPT !.sk_dr = FALSE]

\* Every neighbor is removed; the interface is down, so nothing is elected.
ospf_iface_down(s) ==
    [s EXCEPT !.neigh = [q \in {} |-> q], !.wait = FALSE,
              !.nodes = IF HasNodes THEN conf.listed \ {s.rid} ELSE {}]

ospf_iface_chstate(s, state) ==
    LET s1 == [s EXCEPT !.state = state]
        s2 == IF conf.type # "bcast" THEN s1
              ELSE IF state \in {OSPF_IS_BACKUP, OSPF_IS_DR} THEN ospf_sk_join_dr(s1)
              ELSE ospf_sk_leave_dr(s1)
    IN  IF state = s.state THEN s
        ELSE IF s.state > OSPF_IS_LOOP /\ state <= OSPF_IS_LOOP THEN ospf_iface_down(s2)
        ELSE s2

\* The election is repeated when the router itself gains or loses a role
\* (RFC 2328 9.4 (4)), and adjacencies are reviewed when the result is new.
Repeated(s, e) ==
    IF (s.drid = s.rid) # (e.dr = s.rid) \/ (s.bdrid = s.rid) # (e.bdr = s.rid)
    THEN Elected(s, e.dr, e.bdr) ELSE e

Assumed(s, e) ==
    ospf_iface_chstate([s EXCEPT !.drid = e.dr, !.bdrid = e.bdr, !.wait = FALSE],
                       IF e.dr = s.rid THEN OSPF_IS_DR
                       ELSE IF e.bdr = s.rid THEN OSPF_IS_BACKUP ELSE OSPF_IS_DROTHER)

Roles(s, e) ==
    LET both == {q \in DOMAIN s.neigh : s.neigh[q].state >= NEIGHBOR_2WAY}
        review == IF e.dr = s.drid /\ e.bdr = s.bdrid THEN {} ELSE both
    IN  FoldLeft(INM_ADJOK, Assumed(s, e), SetToSeq(review))

ospf_dr_election(s) == Roles(s, Repeated(s, Elected(s, s.drid, s.bdrid)))

ISM_NEICH(s) == IF s.state >= OSPF_IS_DROTHER THEN ospf_dr_election(s) ELSE s

ISM_BACKS(s) == IF s.state = OSPF_IS_WAITING THEN ospf_dr_election(s) ELSE s

ISM_UP(s) ==
    LET s1 == IF ~Elects THEN ospf_iface_chstate(s, OSPF_IS_PTP)
              ELSE IF s.prio = 0 THEN ospf_iface_chstate(s, OSPF_IS_DROTHER)
              ELSE [ospf_iface_chstate(s, OSPF_IS_WAITING) EXCEPT !.wait = TRUE]
    IN  IF s.state <= OSPF_IS_LOOP THEN ospf_send_hello(s1, "HELLO", NoRouter) ELSE s

ISM_LOOP(s) == IF s.state > OSPF_IS_LOOP THEN ospf_iface_chstate(s, OSPF_IS_LOOP) ELSE s

ISM_UNLOOP(s) == IF s.state = OSPF_IS_LOOP THEN ISM_UP(s) ELSE s

(***************************************************************************)
(* The neighbor                                                            *)
(***************************************************************************)

\* Crossing 2-Way in either direction changes the set of candidates.
ospf_neigh_chstate(s, q, state) ==
    LET old == s.neigh[q].state
        s1 == [s EXCEPT !.neigh[q].state = state]
    IN  IF (state = NEIGHBOR_2WAY /\ old < NEIGHBOR_2WAY)
           \/ (state < NEIGHBOR_2WAY /\ old >= NEIGHBOR_2WAY)
        THEN ISM_NEICH(s1) ELSE s1

ospf_neigh_down(s, q) ==
    [s EXCEPT !.neigh = Restrict(@, DOMAIN @ \ {q}),
              !.nodes = IF HasNodes THEN @ \cup (conf.listed \cap {q}) ELSE @]

INM_INACTTIM(s, q) == ospf_neigh_down(ospf_neigh_chstate(s, q, NEIGHBOR_DOWN), q)

StartAdj(s, q) ==
    IF s.neigh[q].state = NEIGHBOR_2WAY /\ can_do_adj(s, q)
    THEN ospf_neigh_chstate(s, q, NEIGHBOR_EXSTART) ELSE s

INM_2WAYREC(s, q) ==
    StartAdj(IF s.neigh[q].state < NEIGHBOR_2WAY THEN ospf_neigh_chstate(s, q, NEIGHBOR_2WAY)
             ELSE s, q)

INM_1WAYREC(s, q) == ospf_neigh_chstate(s, q, NEIGHBOR_INIT)

(***************************************************************************)
(* Receiving a hello                                                       *)
(***************************************************************************)

\* A neighbor that is not configured, or is with another eligibility.
Denied(s, pkt) ==
    /\ HasNodes /\ pkt.from \notin DOMAIN s.neigh
    /\ \/ pkt.from \notin conf.listed /\ conf.strict
       \/ /\ pkt.from \in conf.listed /\ conf.type = "nbma"
          /\ Eligible(pkt.from) # (pkt.prio > 0)

\* What the hello says of its sender, and what the interface knew of it.
Seen(pkt) == [state |-> NEIGHBOR_DOWN, prio |-> pkt.prio, dr |-> pkt.dr, bdr |-> pkt.bdr]
Known(s, pkt) == IF pkt.from \in DOMAIN s.neigh THEN s.neigh[pkt.from] ELSE Seen(pkt)

INM_HELLOREC(s, pkt) ==
    LET state == Known(s, pkt).state
        entry == [Seen(pkt) EXCEPT !.state = IF state < NEIGHBOR_INIT THEN NEIGHBOR_INIT ELSE state]
    IN  [s EXCEPT !.neigh = (pkt.from :> entry) @@ @, !.nodes = @ \ {pkt.from}]

Answered(s, pkt) ==
    IF conf.type = "nbma" /\ s.prio = 0 /\ pkt.prio > 0
    THEN ospf_send_hello(s, "HELLO", pkt.from) ELSE s

\* The events for the interface, after those for the neighbor.
ReviewRoles(s, pkt, old) ==
    LET q == pkt.from
        backup == (pkt.dr = q /\ pkt.bdr = NoRouter) \/ pkt.bdr = q
        changed == \/ old.prio # pkt.prio
                   \/ (old.dr = q) # (pkt.dr = q)
                   \/ (old.bdr = q) # (pkt.bdr = q)
    IN  IF s.state = OSPF_IS_WAITING THEN IF backup THEN ISM_BACKS(s) ELSE s
        ELSE IF s.state >= OSPF_IS_DROTHER /\ changed THEN ISM_NEICH(s)
        ELSE s

ospf_receive_hello(s, pkt) ==
    LET heard == Answered(INM_HELLOREC(s, pkt), pkt)
    IN  IF s.state <= OSPF_IS_LOOP \/ Denied(s, pkt) THEN s
        ELSE IF s.rid \notin pkt.neighbors THEN INM_1WAYREC(heard, pkt.from)
        ELSE ReviewRoles(INM_2WAYREC(heard, pkt.from), pkt, Known(s, pkt))

(***************************************************************************)
(* Steps                                                                   *)
(***************************************************************************)

Init ==
    /\ conf \in Configs
    /\ ifa = [r \in Router |-> ospf_iface_new(r)]
    /\ net = {}

\* What router r sends is on its way as far as the bound allows; the rest is
\* lost, and sent again by the hello and poll timers.
Step(r, s, rest) ==
    /\ ifa' = [ifa EXCEPT ![r] = [s EXCEPT !.out = {}]]
    /\ IF s.out = {} \/ Cardinality(rest) >= Flight THEN net' = rest
       ELSE \E pkt \in s.out : net' = rest \cup {pkt}

\* The lock is given, the socket is open: the interface starts.
ospf_iface_add(r) ==
    /\ ifa[r].state = OSPF_IS_DOWN
    /\ Step(r, IF ifa[r].link THEN ISM_UP(ifa[r]) ELSE ospf_iface_chstate(ifa[r], OSPF_IS_LOOP),
            net)
    /\ UNCHANGED conf

hello_timer_hook(r) ==
    \E kind \in {"HELLO", "POLL"} :
        /\ kind = "POLL" => conf.type = "nbma"
        /\ ifa[r].state > OSPF_IS_LOOP
        /\ Cardinality(net) < Flight
        /\ Step(r, ospf_send_hello(ifa[r], kind, NoRouter), net)
        /\ UNCHANGED conf

wait_timer_hook(r) ==
    /\ ifa[r].wait
    /\ Step(r, ISM_BACKS([ifa[r] EXCEPT !.wait = FALSE]), net)
    /\ UNCHANGED conf

\* A packet reaches the router, or nobody when its link is down.
ospf_rx_hook(pkt) ==
    /\ Step(pkt.to, IF ifa[pkt.to].link THEN ospf_receive_hello(ifa[pkt.to], pkt)
                    ELSE ifa[pkt.to], net \ {pkt})
    /\ UNCHANGED conf

Targets(q) == HelloTargets(ifa[q], "HELLO")
              \cup (IF conf.type = "nbma" THEN HelloTargets(ifa[q], "POLL") ELSE {})

Talks(q, r) == r \in Targets(q) /\ \A x \in {q, r} : ifa[x].state > OSPF_IS_LOOP /\ ifa[x].link

\* q sends no hellos to r, on its own or in answer to those of r.
Silent(q, r) ==
    /\ ~Talks(q, r)
    /\ ~(conf.type = "nbma" /\ ifa[q].prio = 0 /\ ifa[r].prio > 0 /\ Talks(r, q))

inactivity_timer_hook(r, q) ==
    /\ q \in DOMAIN ifa[r].neigh
    /\ IF Silent(q, r) THEN UNCHANGED conf
       ELSE conf.losses > 0 /\ conf' = [conf EXCEPT !.losses = @ - 1]
    /\ Step(r, INM_INACTTIM(ifa[r], q), net)

\* The link of the interface goes down or comes back, with check link.
ospf_iface_notify(r) ==
    /\ conf.links > 0 /\ conf' = [conf EXCEPT !.links = @ - 1]
    /\ LET s == [ifa[r] EXCEPT !.link = ~@]
       IN  Step(r, IF s.link THEN ISM_UNLOOP(s) ELSE ISM_LOOP(s), net)

\* The interface is removed, after a last hello when the protocol stops.
ospf_iface_remove(r, polite) ==
    /\ ifa[r].state # OSPF_IS_DOWN
    /\ conf.stops > 0 /\ conf' = [conf EXCEPT !.stops = @ - 1]
    /\ LET s == IF polite THEN ospf_send_hello(ifa[r], "SHUTDOWN", NoRouter) ELSE ifa[r]
       IN  Step(r, [ospf_iface_new(r) EXCEPT !.out = s.out, !.link = s.link], net)

\* The priority changes by a reconfiguration; no other change of the
\* interface has an effect on the election.
ospf_iface_reconfigure(r) ==
    /\ conf.changes > 0
    /\ \E prio \in 0..2 :
          /\ prio # ifa[r].prio
          /\ conf' = [conf EXCEPT !.changes = @ - 1, !.prio[r] = prio]
          /\ Step(r, ISM_NEICH([ifa[r] EXCEPT !.prio = prio]), net)

Next ==
    \/ \E r \in Router :
          \/ ospf_iface_add(r) \/ hello_timer_hook(r) \/ wait_timer_hook(r)
          \/ ospf_iface_notify(r) \/ ospf_iface_reconfigure(r)
          \/ \E polite \in BOOLEAN : ospf_iface_remove(r, polite)
          \/ \E q \in Router : inactivity_timer_hook(r, q)
    \/ \E pkt \in net : ospf_rx_hook(pkt)

Spec == Init /\ [][Next]_vars

(***************************************************************************)
(* Properties                                                              *)
(***************************************************************************)

Up(r) == ifa[r].state > OSPF_IS_LOOP

\* No timer, no packet and no further hello changes anything.
Settled ==
    /\ net = {}
    /\ \A r \in Router : ifa[r].state # OSPF_IS_DOWN /\ ~ifa[r].wait
    /\ \A r \in Router : \A q \in DOMAIN ifa[r].neigh : ~Silent(q, r)
    /\ \A r, q \in Router :
          (r # q /\ ~Silent(q, r)) =>
              LET s == ospf_receive_hello(ifa[r], Hello(ifa[q], "HELLO", r))
              IN  [s EXCEPT !.out = {}] = ifa[r]

\* When hellos change nothing any more, all routers of the network name the
\* same designated and backup router, these are two routers when two are
\* eligible, and two routers are adjacent, on both sides, exactly when one of
\* them is one of the two (ospf_dr_election, can_do_adj, ospf_receive_hello).
ElectionAgrees ==
    Settled /\ Elects =>
        LET up == {r \in Router : Up(r)}
            eligible == {r \in up : ifa[r].prio > 0}
        IN  \A r \in up :
              /\ \A q \in up : ifa[q].drid = ifa[r].drid /\ ifa[q].bdrid = ifa[r].bdrid
              /\ Cardinality(eligible) >= 1 => ifa[r].drid \in eligible
              /\ Cardinality(eligible) >= 2 => ifa[r].bdrid \in eligible \ {ifa[r].drid}
              /\ \A q \in DOMAIN ifa[r].neigh :
                    ifa[r].neigh[q].state >= NEIGHBOR_EXSTART
                       <=> {r, q} \cap {ifa[r].drid, ifa[r].bdrid} # {}

\* A router is in the group of the designated routers, to which the others
\* send their updates, exactly while it has one of the two roles, and it never
\* tries an adjacency while it has no right to one (ospf_sk_join_dr,
\* ospf_iface_chstate, INM_ADJOK).
RolesMatch ==
    \A r \in Router : LET s == ifa[r] IN
        /\ s.sk_dr <=> (conf.type = "bcast" /\ s.state \in {OSPF_IS_BACKUP, OSPF_IS_DR})
        /\ Elects => (s.state = OSPF_IS_DR => s.drid = r)
        /\ \A q \in DOMAIN s.neigh : s.neigh[q].state >= NEIGHBOR_EXSTART => can_do_adj(s, q)
        /\ s.state <= OSPF_IS_LOOP => DOMAIN s.neigh = {} /\ ~s.wait
=============================================================================
