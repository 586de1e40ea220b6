---------------------------- MODULE OspfExchange ----------------------------
(***************************************************************************)
(* Two OSPF routers on a point-to-point link: the neighbor state machine   *)
(* (neighbor.c), the database exchange (dbdes.c, lsreq.c), reliable        *)
(* flooding (lsupd.c, lsack.c) and the life of an LSA in the database      *)
(* (topology.c): origination, refresh, wrap of the sequence number, flush. *)
(*                                                                         *)
(* An LSA is known by its key; its header is [key, sn, body, max, aged],   *)
(* where body stands for the content and its checksum, max says that the   *)
(* age is LSA_MAXAGE and aged that it is by more than LSA_MAXAGEDIFF older *)
(* than the ones that are not.  Each router has its router-LSA, which      *)
(* tells whether the link is up (the neighbor is Full), and router 1 has   *)
(* an external LSA.                                                        *)
(***************************************************************************)
EXTENDS Integers, Sequences, FiniteSets, TLC, SequencesExt

CONSTANTS
    Configs,        \* runs: [restarts, losses, early, changes, ages, exported, first, MaxSeq]
    DbdesMax,       \* LSA headers in one database description packet
    LsreqMax        \* requests in one link state request packet

VARIABLES
    conf,           \* the bounds of this run; they count down
    st,             \* the state of each router
    net             \* packets on the way to each router

vars == <<conf, st, net>>

Router == {1, 2}
Other(r) == 3 - r
RouterLsa(r) == IF r = 1 THEN "router1" ELSE "router2"
External == "external1"
Owner(key) == IF key = "router2" THEN 2 ELSE 1

\* Neighbor states, in the order of ospf.h.
NEIGHBOR_DOWN == 0
NEIGHBOR_INIT == 2
NEIGHBOR_2WAY == 3
NEIGHBOR_EXSTART == 4
NEIGHBOR_EXCHANGE == 5
NEIGHBOR_LOADING == 6
NEIGHBOR_FULL == 7

LSA_ZEROSEQNO == 0
DdsModulus == 16    \* bound on the 32-bit DD sequence number

EmptyFunction == [key \in {} |-> key]

(***************************************************************************)
(* LSA headers                                                             *)
(***************************************************************************)

Header(s, key) ==
    [key |-> key, sn |-> s.db[key].sn, body |-> s.db[key].body, max |-> s.db[key].max,
     aged |-> s.db[key].aged]

\* lsa_comp(): MaxAge and a large difference of age tell apart instances with the
\* same sequence number and checksum.
Newer(h1, h2) ==
    \/ h1.sn > h2.sn
    \/ h1.sn = h2.sn /\ h1.body > h2.body
    \/ /\ h1.sn = h2.sn /\ h1.body = h2.body
       /\ (h1.max /\ ~h2.max) \/ (~h1.max /\ ~h2.max /\ ~h1.aged /\ h2.aged)

Same(h1, h2) == ~Newer(h1, h2) /\ ~Newer(h2, h1)

(***************************************************************************)
(* The neighbor and its lists.  lsrql is the list of requested headers,    *)
(* lsrqi the position of the first one not yet requested; lsrt holds the   *)
(* headers that wait for an acknowledgement; dbsi is what remains to be    *)
(* described; tm is the set of running timers.                             *)
(***************************************************************************)

ospf_neighbor_new ==
    [state |-> NEIGHBOR_DOWN, dds |-> 0, ddr |-> 0, myimms |-> {}, imms |-> {},
     ldd |-> <<>>, dbsi |-> <<>>, lsrql |-> <<>>, lsrqi |-> 1,
     lsrt |-> EmptyFunction, direct |-> {}, delay |-> {}, tm |-> {}]

Send(s, pkt) == [s EXCEPT !.out = Append(@, pkt)]

padj(s) == s.n.state \in {NEIGHBOR_EXCHANGE, NEIGHBOR_LOADING}

Requested(n, key) == \E i \in DOMAIN n.lsrql : n.lsrql[i].key = key
RequestAt(n, key) == CHOOSE i \in DOMAIN n.lsrql : n.lsrql[i].key = key

\* Every LSA of the retransmission list loses one reference.
release_lsrtl(s) ==
    LET Unref(key) == [s.db[key] EXCEPT !.ret = IF key \in DOMAIN s.n.lsrt THEN @ - 1 ELSE @]
    IN  [s EXCEPT !.db = [key \in DOMAIN s.db |-> Unref(key)]]

\* As reset_lists(), with the references kept.
ResetKeep(s) ==
    [s EXCEPT !.n = [@ EXCEPT !.lsrql = <<>>, !.lsrqi = 1, !.lsrt = EmptyFunction,
                              !.delay = {}, !.tm = @ \ {"dbdes", "lsrq", "lsrt", "ackd"}]]

reset_lists(s) ==
    LET s1 == release_lsrtl(s) IN
    [s1 EXCEPT !.n = [@ EXCEPT !.lsrql = <<>>, !.lsrqi = 1, !.lsrt = EmptyFunction,
                               !.delay = {}, !.tm = @ \ {"dbdes", "lsrq", "lsrt", "ackd"}]]

\* The step into or out of Full asks for a new router-LSA.
ospf_neigh_chstate(s, state, random) ==
    LET old == s.n.state
        dds == IF old < NEIGHBOR_EXSTART THEN random ELSE s.n.dds
        n1 == [s.n EXCEPT !.state = state]
        n2 == IF state = NEIGHBOR_EXSTART
              THEN [n1 EXCEPT !.dds = (dds + 1) % DdsModulus, !.myimms = {"I", "M", "MS"},
                              !.tm = @ \cup {"dbdes", "ackd"}]
              ELSE n1
        n3 == IF state > NEIGHBOR_EXSTART THEN [n2 EXCEPT !.myimms = @ \ {"I"}] ELSE n2
    IN  IF state = old THEN s
        ELSE [s EXCEPT !.n = n3,
                       !.update = @ \/ (state = NEIGHBOR_FULL) \/ (old = NEIGHBOR_FULL)]

ospf_neigh_down(s) == [release_lsrtl(s) EXCEPT !.n = ospf_neighbor_new]

INM_HELLOREC(s) ==
    LET s1 == IF s.n.state < NEIGHBOR_INIT THEN ospf_neigh_chstate(s, NEIGHBOR_INIT, 0) ELSE s
    IN  [s1 EXCEPT !.n.tm = @ \cup {"inact"}]

\* can_do_adj() holds on a point-to-point link.
StartAdj(s, random) ==
    IF s.n.state = NEIGHBOR_2WAY THEN ospf_neigh_chstate(s, NEIGHBOR_EXSTART, random) ELSE s

INM_2WAYREC(s, random) ==
    StartAdj(IF s.n.state < NEIGHBOR_2WAY THEN ospf_neigh_chstate(s, NEIGHBOR_2WAY, 0) ELSE s, random)

INM_1WAYREC(s) == ospf_neigh_chstate(reset_lists(s), NEIGHBOR_INIT, 0)

INM_SEQMIS(s) ==
    IF s.n.state >= NEIGHBOR_EXCHANGE
    THEN ospf_neigh_chstate(reset_lists(s), NEIGHBOR_EXSTART, 0) ELSE s

INM_EXDONE(s) ==
    ospf_neigh_chstate(s, IF s.n.lsrql # <<>> THEN NEIGHBOR_LOADING ELSE NEIGHBOR_FULL, 0)

INM_INACTTIM(s) == ospf_neigh_down(ospf_neigh_chstate(s, NEIGHBOR_DOWN, 0))

(***************************************************************************)
(* Retransmission and request lists                                        *)
(***************************************************************************)

ospf_lsa_lsrq_down(s, key) ==
    LET i == RequestAt(s.n, key)
        s1 == [s EXCEPT !.n.lsrql = RemoveAt(@, i),
                        !.n.lsrqi = IF i < @ THEN @ - 1 ELSE @]
        s2 == [s1 EXCEPT !.n.tm = @ \ {"lsrq"}]
    IN  IF s1.n.lsrql # <<>> THEN s1
        ELSE IF s2.n.state = NEIGHBOR_LOADING THEN ospf_neigh_chstate(s2, NEIGHBOR_FULL, 0)
        ELSE s2

ospf_lsa_lsrt_up(s, key) ==
    [s EXCEPT !.db[key].ret = IF key \in DOMAIN s.n.lsrt THEN @ ELSE @ + 1,
              !.n.lsrt = (key :> Header(s, key)) @@ @,
              !.n.tm = @ \cup {"lsrt"}]

ospf_lsa_lsrt_down(s, key) ==
    LET s1 == IF key \in DOMAIN s.db THEN [s EXCEPT !.db[key].ret = @ - 1] ELSE s
        s2 == [s1 EXCEPT !.n.lsrt = Restrict(@, DOMAIN @ \ {key})]
    IN  IF key \notin DOMAIN s.n.lsrt THEN s
        ELSE IF s2.n.lsrt = EmptyFunction THEN [s2 EXCEPT !.n.tm = @ \ {"lsrt"}] ELSE s2

\* MaxAge LSAs are not described: they go to the retransmission list.
ospf_add_flushed_to_lsrt(s) ==
    FoldLeft(ospf_lsa_lsrt_up, s,
             SelectSeq(s.lsal, LAMBDA key : s.db[key].max /\ s.db[key].has))

INM_NEGDONE(s) ==
    LET s1 == ospf_neigh_chstate(s, NEIGHBOR_EXCHANGE, 0)
    IN  ospf_add_flushed_to_lsrt([s1 EXCEPT !.n.dbsi = s1.lsal])

(***************************************************************************)
(* Flooding.  There is one neighbor on one interface; from says that the   *)
(* LSA came from it.                                                       *)
(***************************************************************************)

ospf_enqueue_lsa(s, key) ==
    [s EXCEPT !.db[key].ret = @ + 1, !.flood_queue = Append(@, key)]

ospf_flood_lsa(s, key, from) ==
    LET h == Header(s, key)
        asked == s.n.state < NEIGHBOR_FULL /\ Requested(s.n, key)
        req == s.n.lsrql[RequestAt(s.n, key)]
        s1 == IF asked /\ ~Newer(req, h) THEN ospf_lsa_lsrq_down(s, key) ELSE s
    IN  IF s.n.state < NEIGHBOR_EXCHANGE THEN s
        ELSE IF from \/ (asked /\ ~Newer(h, req)) THEN s1
        ELSE ospf_enqueue_lsa(ospf_lsa_lsrt_up(s1, key), key)

ospf_send_lsupd(s, keys) ==
    Send(s, [type |-> "LSUPD", lsas |-> [i \in DOMAIN keys |-> Header(s, keys[i])]])

\* The queue holds entries, not instances: what is sent is the current one.
ospf_flood_event(s) ==
    LET Unref(t, key) == [t EXCEPT !.db[key].ret = @ - 1]
        s1 == ospf_send_lsupd(s, s.flood_queue)
    IN  IF s.flood_queue = <<>> THEN s
        ELSE [FoldLeft(Unref, s1, s.flood_queue) EXCEPT !.flood_queue = <<>>]

(***************************************************************************)
(* The LSA database                                                        *)
(***************************************************************************)

NoEntry == [sn |-> LSA_ZEROSEQNO, body |-> 0, max |-> TRUE, aged |-> FALSE, has |-> FALSE,
            ret |-> 0, next |-> 0, young |-> {}]

\* ospf_hash_get() with the link into lsal: a new entry has MaxAge and no body.
ospf_hash_get(s, key) ==
    IF key \in DOMAIN s.db THEN s
    ELSE [s EXCEPT !.db = @ @@ (key :> NoEntry),
                   !.lsal = Append(@, key),
                   !.n.dbsi = IF @ = <<>> THEN @ ELSE Append(@, key)]

ospf_install_lsa(s, h) ==
    LET s1 == ospf_hash_get(s, h.key) IN
    [s1 EXCEPT !.db[h.key] = [@ EXCEPT !.sn = h.sn, !.body = h.body, !.max = h.max,
                                       !.aged = h.aged, !.has = TRUE, !.young = {"arrival"}]]

\* A self-originated LSA came back: outrun it, wrap, or flush it.
ospf_advance_lsa(s, h) ==
    LET live == h.key \in DOMAIN s.db /\ ~s.db[h.key].max
        e == s.db[h.key]
        s1 == IF live /\ h.sn # conf.MaxSeq
              THEN [s EXCEPT !.db[h.key] = [@ EXCEPT !.sn = h.sn + 1,
                                                     !.aged = FALSE,
                                                     !.young = {"arrival", "interval"}]]
              ELSE IF live
              THEN [s EXCEPT !.db[h.key] =
                       [@ EXCEPT !.next = IF e.next = 0 THEN e.body ELSE e.next,
                                 !.sn = h.sn, !.body = h.body, !.max = TRUE,
                                 !.young = {"arrival"}]]
              ELSE ospf_install_lsa(s, [h EXCEPT !.max = TRUE])
    IN  ospf_flood_lsa(s1, h.key, FALSE)

\* The result tells whether the LSA was originated.
ospf_do_originate_lsa(s, key, body) ==
    LET e == s.db[key]
        wrap == e.sn = conf.MaxSeq
        first == IF wrap THEN LSA_ZEROSEQNO ELSE e.sn
    IN  IF "interval" \in e.young THEN [done |-> FALSE, s |-> s]
        ELSE IF wrap /\ ~e.max
        THEN [done |-> FALSE, s |-> ospf_flood_lsa([s EXCEPT !.db[key].max = TRUE], key, FALSE)]
        ELSE IF wrap /\ (padj(s) \/ e.ret # 0) THEN [done |-> FALSE, s |-> s]
        ELSE [done |-> TRUE,
              s |-> ospf_flood_lsa(
                      [s EXCEPT !.db[key] = [@ EXCEPT !.sn = first + 1, !.body = body,
                                  !.max = FALSE, !.aged = FALSE, !.has = TRUE,
                                  !.young = {"arrival", "interval"}]], key, FALSE)]

\* A postponed origination is kept in next.
Postponed(o, key, body) == IF o.done THEN o.s ELSE [o.s EXCEPT !.db[key].next = body]

OriginateEntry(s, key, body) ==
    LET e == s.db[key]
        s1 == [s EXCEPT !.db[key].next = 0]
    IN  IF e.next = body THEN s
        ELSE IF ~e.max /\ e.body = body THEN s1
        ELSE Postponed(ospf_do_originate_lsa(s1, key, body), key, body)

ospf_originate_lsa(s, key, body) == OriginateEntry(ospf_hash_get(s, key), key, body)

Unpostponed(o, key) == IF o.done THEN [o.s EXCEPT !.db[key].next = 0] ELSE o.s

ospf_originate_next_lsa(s, key) ==
    Unpostponed(ospf_do_originate_lsa(s, key, s.db[key].next), key)

ospf_refresh_lsa(s, key) ==
    IF s.db[key].sn = conf.MaxSeq
    THEN ospf_flood_lsa([s EXCEPT !.db[key] = [@ EXCEPT !.next = s.db[key].body, !.max = TRUE]],
                        key, FALSE)
    ELSE ospf_flood_lsa([s EXCEPT !.db[key] = [@ EXCEPT !.sn = @ + 1, !.aged = FALSE,
                                         !.young = {"arrival", "interval"}]], key, FALSE)

ospf_flush_lsa(s, key) ==
    LET s1 == [s EXCEPT !.db[key].next = 0]
    IN  IF s.db[key].max THEN s1
        ELSE ospf_flood_lsa([s1 EXCEPT !.db[key].max = TRUE], key, FALSE)

ospf_clear_lsa(s, key) ==
    [s EXCEPT !.db[key] = [@ EXCEPT !.has = FALSE,
                                    !.sn = IF @ = conf.MaxSeq THEN LSA_ZEROSEQNO ELSE @]]

ospf_remove_lsa(s, key) ==
    LET Others(k) == k # key
    IN  [s EXCEPT !.db = Restrict(@, DOMAIN @ \ {key}),
                  !.lsal = SelectSeq(@, Others), !.n.dbsi = SelectSeq(@, Others)]

\* old: the keys whose real age has reached LSREFRESHTIME or LSA_MAXAGE.
AgeEntry(r, old, s, key) ==
    LET e == s.db[key]
        s1 == IF e.has /\ ~padj(s) /\ e.ret = 0 THEN ospf_clear_lsa(s, key) ELSE s
    IN  IF e.max
        THEN IF ~s1.db[key].has /\ e.next = 0 /\ (Owner(key) # r \/ key \in old)
             THEN ospf_remove_lsa(s1, key) ELSE s1
        ELSE IF key \notin old \/ e.young # {} THEN s
        ELSE IF Owner(key) = r THEN ospf_refresh_lsa(s, key)
        ELSE ospf_flush_lsa(s, key)

UpdateEntry(r, old, s, key) ==
    AgeEntry(r, old, IF s.db[key].next # 0 THEN ospf_originate_next_lsa(s, key) ELSE s, key)

ospf_update_lsadb(r, old, s0) ==
    LET Update(s, key) == UpdateEntry(r, old, s, key) IN FoldLeft(Update, s0, s0.lsal)

\* The router-LSA; a postponed one would confuse the route calculation, so
\* MinLSInterval is tested before it is built.
RouterBody(s) == IF s.n.state = NEIGHBOR_FULL THEN 2 ELSE 1

ospf_update_topology(r, s) ==
    LET key == RouterLsa(r) IN
    IF ~s.update \/ (key \in DOMAIN s.db /\ ~s.db[key].max /\ s.db[key].young # {}) THEN s
    ELSE [ospf_originate_lsa(s, key, RouterBody(s)) EXCEPT !.update = FALSE, !.rt = TRUE]

(***************************************************************************)
(* Database description                                                    *)
(***************************************************************************)

\* Fill the buffer with the next headers; More is cleared when the list ends.
ospf_prepare_dbdes(s) ==
    LET n == s.n
        Live(i) == ~s.db[n.dbsi[i]].max
        live == {i \in DOMAIN n.dbsi : Live(i)}
        ends == Cardinality(live) < DbdesMax
        last == CHOOSE i \in live : Cardinality({j \in live : j <= i}) = DbdesMax
        taken == SelectSeq(IF ends THEN n.dbsi ELSE SubSeq(n.dbsi, 1, last),
                           LAMBDA key : ~s.db[key].max)
        body == "I" \notin n.myimms /\ "M" \in n.myimms
        my == IF body /\ ends THEN n.myimms \ {"M"} ELSE n.myimms
    IN  [s EXCEPT !.n = [@ EXCEPT
           !.myimms = my,
           !.dbsi = IF ~body THEN @ ELSE IF ends THEN <<>> ELSE SubSeq(@, last + 1, Len(@)),
           !.ldd = <<[type |-> "DBDES", seq |-> n.dds, imms |-> my,
                      lsas |-> IF body THEN [i \in DOMAIN taken |-> Header(s, taken[i])]
                               ELSE <<>>]>>]]

\* Nothing is described before the own router-LSA exists.
ospf_send_dbdes(s) ==
    IF ~s.rt THEN s ELSE LET s1 == ospf_prepare_dbdes(s) IN Send(s1, s1.n.ldd[1])

ospf_rxmt_dbdes(s) == IF s.n.ldd = <<>> THEN INM_SEQMIS(s) ELSE Send(s, s.n.ldd[1])

\* Headers that are new or newer than the local copy are to be requested.
ospf_process_dbdes(s0, lsas) ==
    LET Ask(s, h) ==
          LET n == s.n
              i == IF Requested(n, h.key) THEN RequestAt(n, h.key) ELSE Len(n.lsrql) + 1
          IN  IF h.key \in DOMAIN s.db /\ ~Newer(h, Header(s, h.key)) THEN s
              ELSE [s EXCEPT !.n = [@ EXCEPT
                      !.lsrql = IF i <= Len(@) THEN [@ EXCEPT ![i] = h] ELSE Append(@, h),
                      !.lsrqi = IF @ > Len(n.lsrql) THEN i ELSE @,
                      !.tm = @ \cup {"lsrq"}]]
    IN  FoldLeft(Ask, s0, lsas)

\* After the headers: the last packet ends the exchange.
BothDone(s) == "M" \notin s.n.myimms /\ "M" \notin s.n.imms

MasterNext(s) ==
    IF BothDone(s) THEN INM_EXDONE([s EXCEPT !.n.tm = @ \ {"dbdes"}, !.n.ldd = <<>>])
    ELSE [ospf_send_dbdes(s) EXCEPT !.n.tm = @ \cup {"dbdes"}]

SlaveNext(s) == IF BothDone(s) THEN INM_EXDONE([s EXCEPT !.n.tm = @ \cup {"dbdes"}]) ELSE s

\* The state Exchange of ospf_receive_dbdes(): duplicates are told by the
\* flags and the sequence number of the last packet.
ExchangeDbdes(s, pkt) ==
    LET n == s.n
        s1 == [s EXCEPT !.n.ddr = pkt.seq, !.n.imms = pkt.imms]
        master == "MS" \in n.myimms
        s2 == ospf_process_dbdes([s1 EXCEPT !.n.dds = IF master THEN (@ + 1) % DdsModulus
                                                      ELSE pkt.seq], pkt.lsas)
    IN  IF pkt.imms = n.imms /\ pkt.seq = n.ddr
        THEN IF master THEN s ELSE ospf_rxmt_dbdes(s)
        ELSE IF ("MS" \in pkt.imms) # ("MS" \in n.imms) \/ "I" \in pkt.imms THEN INM_SEQMIS(s)
        ELSE IF pkt.seq # (IF master THEN n.dds ELSE (n.dds + 1) % DdsModulus)
        THEN INM_SEQMIS(s1)
        ELSE IF master THEN MasterNext(s2) ELSE SlaveNext(ospf_send_dbdes(s2))

ReceiveDbdes(r, s, pkt) ==
    LET slave == pkt.imms = {"I", "M", "MS"} /\ Other(r) > r /\ pkt.lsas = <<>>
        master == "I" \notin pkt.imms /\ "MS" \notin pkt.imms /\ Other(r) < r
                  /\ pkt.seq = s.n.dds
    IN  IF s.n.state < NEIGHBOR_EXSTART THEN s
        ELSE IF s.n.state = NEIGHBOR_EXSTART
        THEN IF slave
             THEN ospf_send_dbdes(INM_NEGDONE(
                     [s EXCEPT !.n = [@ EXCEPT !.dds = pkt.seq, !.ddr = pkt.seq,
                                 !.myimms = @ \ {"MS"}, !.imms = pkt.imms,
                                 !.tm = @ \ {"dbdes"}]]))
             ELSE IF master
             THEN ExchangeDbdes(INM_NEGDONE(
                     [s EXCEPT !.n = [@ EXCEPT !.ddr = (pkt.seq - 1) % DdsModulus,
                                               !.imms = pkt.imms]]), pkt)
             ELSE s
        ELSE IF s.n.state = NEIGHBOR_EXCHANGE THEN ExchangeDbdes(s, pkt)
        ELSE IF pkt.imms = s.n.imms /\ pkt.seq = s.n.ddr
        THEN IF "MS" \in s.n.myimms THEN s ELSE ospf_rxmt_dbdes(s)
        ELSE INM_SEQMIS(s)

Negotiating(s, random) == IF s.n.state = NEIGHBOR_INIT THEN INM_2WAYREC(s, random) ELSE s

ospf_receive_dbdes(r, s, pkt, random) ==
    ReceiveDbdes(r, Negotiating(INM_HELLOREC(s), random), pkt)

(***************************************************************************)
(* Requests, updates and acknowledgements                                  *)
(***************************************************************************)

ospf_send_lsreq(s) ==
    LET k == IF Len(s.n.lsrql) < LsreqMax THEN Len(s.n.lsrql) ELSE LsreqMax
    IN  Send([s EXCEPT !.n.lsrqi = k + 1],
             [type |-> "LSREQ", keys |-> [i \in 1..k |-> s.n.lsrql[i].key]])

ospf_receive_lsreq(s, pkt) ==
    LET s1 == INM_HELLOREC(s)
    IN  IF s.n.state < NEIGHBOR_EXCHANGE THEN s
        ELSE IF Range(pkt.keys) \subseteq DOMAIN s.db THEN ospf_send_lsupd(s1, pkt.keys)
        ELSE INM_SEQMIS(s1)

\* One LSA of an update; stop is set by an error that drops the packet.
ReceiveLsa(r, acc, h) ==
    LET s == acc.s
        known == h.key \in DOMAIN s.db
        en == Header(s, h.key)
        asked == Requested(s.n, h.key)
        Direct(t) == [t EXCEPT !.n.direct = @ \cup {h}]
        s1 == ospf_flood_lsa(ospf_install_lsa(ospf_lsa_lsrt_down(s, h.key), h), h.key, TRUE)
        Next(t) == [s |-> t, stop |-> FALSE]
    IN  IF acc.stop THEN acc
        ELSE IF h.max /\ ~known /\ ~padj(s) THEN Next(Direct(s))
        ELSE IF ~known \/ Newer(h, en)
        THEN IF known /\ "arrival" \in s.db[h.key].young THEN acc
             ELSE IF Owner(h.key) = r THEN Next(ospf_advance_lsa(s, h))
             ELSE Next([s1 EXCEPT !.n.delay = @ \cup {h}])
        ELSE IF asked THEN [s |-> INM_SEQMIS(s), stop |-> TRUE]
        ELSE IF Same(h, en)
        THEN Next(IF h.key \in DOMAIN s.n.lsrt THEN ospf_lsa_lsrt_down(s, h.key) ELSE Direct(s))
        ELSE IF en.max /\ en.sn = conf.MaxSeq THEN acc
        ELSE Next(ospf_send_lsupd(s, <<h.key>>))

\* Direct acknowledgements, queued LSAs and the next requests follow at once.
SendDirect(s) ==
    IF s.n.direct = {} THEN s
    ELSE [Send(s, [type |-> "LSACK", acks |-> s.n.direct]) EXCEPT !.n.direct = {}]

SendNextRequest(s) ==
    IF s.n.lsrql # <<>> /\ s.n.lsrqi = 1
    THEN [ospf_send_lsreq(s) EXCEPT !.n.tm = @ \cup {"lsrq"}] ELSE s

FinishLsupd(acc) ==
    IF acc.stop THEN acc.s ELSE SendNextRequest(ospf_flood_event(SendDirect(acc.s)))

ospf_receive_lsupd(r, s, pkt) ==
    LET Receive(acc, h) == ReceiveLsa(r, acc, h)
    IN  IF s.n.state < NEIGHBOR_EXCHANGE THEN s
        ELSE FinishLsupd(FoldLeft(Receive, [s |-> INM_HELLOREC(s), stop |-> FALSE], pkt.lsas))

ospf_receive_lsack(s0, pkt) ==
    LET acked == {h.key : h \in {a \in pkt.acks : a.key \in DOMAIN s0.n.lsrt
                                                  /\ Same(a, s0.n.lsrt[a.key])}}
    IN  IF s0.n.state < NEIGHBOR_EXCHANGE THEN s0
        ELSE FoldLeft(ospf_lsa_lsrt_down, INM_HELLOREC(s0), SetToSeq(acked))

(***************************************************************************)
(* Steps                                                                   *)
(***************************************************************************)

Started == [db |-> EmptyFunction, lsal |-> <<>>, n |-> ospf_neighbor_new,
            flood_queue |-> <<>>, update |-> TRUE, rt |-> FALSE, out |-> <<>>]

\* A router that has run alone for a while, the first one maybe with a route
\* that it exports.
Alone(r) ==
    LET keys == IF r = 1 /\ conf.exported THEN {RouterLsa(r), External} ELSE {RouterLsa(r)}
    IN  [Started EXCEPT !.db = [k \in keys |-> [NoEntry EXCEPT !.sn = conf.first, !.body = 1,
                                                               !.max = FALSE, !.has = TRUE]],
                        !.lsal = SetToSeq(keys), !.update = FALSE, !.rt = TRUE]

Init ==
    /\ conf \in Configs
    /\ st = [r \in Router |-> Alone(r)]
    /\ net = [r \in Router |-> <<>>]

\* Router r goes to s; what it sent is on its way, in order; rest is what
\* remains on the way to r.
Step(r, s, rest) ==
    /\ st' = [st EXCEPT ![r] = [s EXCEPT !.out = <<>>]]
    /\ net' = [net EXCEPT ![r] = rest, ![Other(r)] = @ \o s.out]

\* The timers run in seconds, and a queued or sent packet takes milliseconds;
\* an early timer stands for a slow link.
Quiet == IF \A r \in Router : net[r] = <<>> /\ st[r].flood_queue = <<>> THEN conf' = conf
         ELSE conf.early > 0 /\ conf' = [conf EXCEPT !.early = @ - 1]

\* A hello of the other router, which lists r when it knows r.
ospf_receive_hello(r) ==
    LET s == INM_HELLOREC(st[r])
        listed == st[Other(r)].n.state # NEIGHBOR_DOWN
    IN  /\ Quiet
        /\ Step(r, IF listed THEN INM_2WAYREC(s, 0) ELSE INM_1WAYREC(s), net[r])

ospf_rx_hook(r) ==
    /\ net[r] # <<>>
    /\ LET pkt == Head(net[r])
           s == st[r]
           t == IF pkt.type = "DBDES" THEN ospf_receive_dbdes(r, s, pkt, 0)
                ELSE IF pkt.type = "LSREQ" THEN ospf_receive_lsreq(s, pkt)
                ELSE IF pkt.type = "LSUPD" THEN ospf_receive_lsupd(r, s, pkt)
                ELSE ospf_receive_lsack(s, pkt)
       IN  Step(r, IF s.n.state = NEIGHBOR_DOWN THEN s ELSE t, Tail(net[r]))
    /\ UNCHANGED conf

dbdes_timer_hook(r) ==
    LET s == st[r] IN
    /\ "dbdes" \in s.n.tm
    /\ Quiet
    /\ Step(r, IF s.n.state = NEIGHBOR_EXSTART THEN ospf_send_dbdes(s)
               ELSE IF s.n.state = NEIGHBOR_EXCHANGE /\ "MS" \in s.n.myimms
               THEN ospf_rxmt_dbdes(s)
               ELSE IF s.n.state > NEIGHBOR_LOADING /\ "MS" \notin s.n.myimms
               THEN [s EXCEPT !.n.ldd = <<>>, !.n.tm = @ \ {"dbdes"}]
               ELSE s, net[r])

lsrq_timer_hook(r) ==
    /\ "lsrq" \in st[r].n.tm /\ st[r].n.state >= NEIGHBOR_EXCHANGE /\ st[r].n.lsrql # <<>>
    /\ Quiet
    /\ Step(r, ospf_send_lsreq(st[r]), net[r])

lsrt_timer_hook(r) ==
    /\ "lsrt" \in st[r].n.tm /\ st[r].n.state >= NEIGHBOR_EXCHANGE
    /\ DOMAIN st[r].n.lsrt # {}
    /\ Quiet
    /\ LET known == SetToSeq(DOMAIN st[r].n.lsrt \cap DOMAIN st[r].db)
           s == [st[r] EXCEPT !.n.lsrt = Restrict(@, DOMAIN @ \cap DOMAIN st[r].db)]
       IN  Step(r, IF known = <<>> THEN s ELSE ospf_send_lsupd(s, known), net[r])

ackd_timer_hook(r) ==
    /\ "ackd" \in st[r].n.tm /\ st[r].n.delay # {}
    /\ Step(r, [Send(st[r], [type |-> "LSACK", acks |-> st[r].n.delay])
                  EXCEPT !.n.delay = {}], net[r])
    /\ Quiet

\* No hello came for the dead interval.
inactivity_timer_hook(r) ==
    /\ "inact" \in st[r].n.tm
    /\ conf.losses > 0 /\ conf' = [conf EXCEPT !.losses = @ - 1]
    /\ Step(r, INM_INACTTIM(st[r]), net[r])

FloodEvent(r) ==
    /\ st[r].flood_queue # <<>>
    /\ Step(r, ospf_flood_event(st[r]), net[r])
    /\ UNCHANGED conf

ospf_disp(r) ==
    /\ Quiet
    /\ Step(r, ospf_update_lsadb(r, {}, ospf_update_topology(r, st[r])), net[r])

\* A long time passed since the LSA was originated or installed.
LsaIsOld(r) ==
    \E key \in DOMAIN st[r].db :
        /\ conf.ages > 0 /\ conf' = [conf EXCEPT !.ages = @ - 1]
        /\ Step(r, ospf_update_lsadb(r, {key}, ospf_update_topology(r, st[r])), net[r])

\* MinLSArrival, then MinLSInterval passes.
TimePasses ==
    LET Older(young) == IF "arrival" \in young THEN young \ {"arrival"} ELSE {}
        Entry(e) == [e EXCEPT !.young = Older(@)]
    IN  /\ \E r \in Router : \E key \in DOMAIN st[r].db : st[r].db[key].young # {}
        /\ Quiet
        /\ st' = [r \in Router |-> [st[r] EXCEPT !.db = [key \in DOMAIN st[r].db |->
                                                          Entry(st[r].db[key])]]]
        /\ UNCHANGED net

\* A route appears in the table, changes or is withdrawn.
Export(v) ==
    /\ v \in conf.changes /\ conf' = [conf EXCEPT !.changes = @ \ {v}]
    /\ v = 0 => External \in DOMAIN st[1].db
    /\ Step(1, IF v = 0 THEN ospf_flush_lsa(st[1], External)
               ELSE ospf_originate_lsa(st[1], External, v), net[1])

\* Something of router r is still to happen: a packet, a queue, a running
\* timer that will send, a hello that will be acted on, a postponed LSA.
Pending(r) == LET s == st[r]  n == st[r].n IN
    \/ net[r] # <<>> \/ s.flood_queue # <<>> \/ s.update
    \/ n.state < NEIGHBOR_EXSTART
    \/ "dbdes" \in n.tm /\ n.state = NEIGHBOR_EXSTART
    \/ "dbdes" \in n.tm /\ n.state = NEIGHBOR_EXCHANGE /\ "MS" \in n.myimms
    \/ "lsrq" \in n.tm /\ n.lsrql # <<>>
    \/ "lsrt" \in n.tm /\ DOMAIN n.lsrt # {}
    \/ "ackd" \in n.tm /\ n.delay # {}
    \/ \E key \in DOMAIN s.db : s.db[key].next # 0 /\ Owner(key) = r

\* The router dies and starts again with nothing. When nothing was pending,
\* the other router may have had its LSAs for longer than LSA_MAXAGEDIFF.
Restart(r) ==
    /\ conf.restarts > 0 /\ conf' = [conf EXCEPT !.restarts = @ - 1]
    /\ \E aged \in BOOLEAN :
          /\ aged => \A q \in Router : ~Pending(q) /\ \A e \in Range(st[q].db) : e.young = {}
          /\ st' = [st EXCEPT ![r] = Started,
                              ![Other(r)].db = [key \in DOMAIN @ |->
                                                  [@[key] EXCEPT !.aged = @ \/ aged]]]
    /\ UNCHANGED net

Lose(r) ==
    /\ net[r] # <<>>
    /\ conf.losses > 0 /\ conf' = [conf EXCEPT !.losses = @ - 1]
    /\ net' = [net EXCEPT ![r] = Tail(@)]
    /\ UNCHANGED st

Next ==
    \/ \E r \in Router :
          \/ ospf_receive_hello(r) \/ ospf_rx_hook(r)
          \/ dbdes_timer_hook(r) \/ lsrq_timer_hook(r) \/ lsrt_timer_hook(r)
          \/ ackd_timer_hook(r) \/ inactivity_timer_hook(r)
          \/ FloodEvent(r) \/ ospf_disp(r) \/ LsaIsOld(r)
          \/ Restart(r) \/ Lose(r)
    \/ TimePasses
    \/ \E v \in 0..2 : Export(v)

Spec == Init /\ [][Next]_vars

(***************************************************************************)
(* Properties                                                              *)
(***************************************************************************)

\* The reference count of an LSA, which alone keeps a flushed LSA in the
\* database, is the number of retransmission lists and flood queues it is in
\* (ospf_lsa_lsrt_up, ospf_lsa_lsrt_down_, release_lsrtl, ospf_flood_event).
ReferencesExact ==
    \A r \in Router :
        /\ DOMAIN st[r].n.lsrt \subseteq DOMAIN st[r].db
        /\ \A key \in DOMAIN st[r].db :
              st[r].db[key].ret =
                 Cardinality({i \in DOMAIN st[r].flood_queue : st[r].flood_queue[i] = key})
                 + (IF key \in DOMAIN st[r].n.lsrt THEN 1 ELSE 0)

\* Flooding is reliable: between two routers that are Full with each other,
\* what one has in its database and the other lacks or has an older instance
\* of is on the retransmission list of the first, whatever was lost.
FullIsReliable ==
    \A r \in Router : LET s == st[r]  t == st[Other(r)] IN
        (s.n.state = NEIGHBOR_FULL /\ t.n.state = NEIGHBOR_FULL) =>
            \A key \in DOMAIN s.db :
                s.db[key].has /\ ~s.db[key].max =>
                    \/ key \in DOMAIN t.db /\ ~Newer(Header(s, key), Header(t, key))
                    \/ key \in DOMAIN s.n.lsrt

LiveLsas(s) == {Header(s, key) : key \in {k \in DOMAIN s.db : ~s.db[k].max}}

Synchronized ==
    /\ \A r \in Router : st[r].n.state = NEIGHBOR_FULL
                         /\ RouterLsa(r) \in DOMAIN st[r].db
                         /\ st[r].db[RouterLsa(r)].body = RouterBody(st[r])
    /\ LiveLsas(st[1]) = LiveLsas(st[2])

\* The exchange never gets stuck: when nothing is pending the routers are
\* Full and agree on every LSA that is not being flushed, and the router-LSA
\* of each says so (the timers of ospf_neigh_chstate, the duplicates of
\* ospf_receive_dbdes, the next request of ospf_receive_lsupd).
NeverStuck == (\A r \in Router : ~Pending(r)) => Synchronized
=============================================================================
