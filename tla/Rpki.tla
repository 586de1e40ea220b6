-------------------------------- MODULE Rpki --------------------------------
(***************************************************************************)
(* The RPKI-to-router protocol (proto/rpki/rpki.c, packets.c, transport.c):*)
(* one connection to a cache server, its states, timers and PDUs, and the  *)
(* records imported from it.  The server and the connection are external.  *)
(*                                                                         *)
(* The router is a record and a handler is an operator on it.  Timers are  *)
(* on or off; they fire while nothing is in flight or to be pruned, or     *)
(* before (early).                                                         *)
(***************************************************************************)
EXTENDS Integers, Sequences, FiniteSets, FiniteSetsExt, SequencesExt, TLC

CONSTANTS
  Records,        \* [t |-> "roa4" | "roa6" | "aspa", id |-> a number, max |-> the maximal length]
  Configs

VARIABLES
  conf,           \* the configuration and what may still happen
  c,              \* the router: protocol, cache connection and imported records
  server,         \* data of the server by session and serial number
  ch              \* PDUs in flight to the server and to the router

vars == <<conf, c, server, ch>>

MaxLength == [roa4 |-> 32, roa6 |-> 128, aspa |-> 0]

Close(s) == [s EXCEPT !.conn = "none", !.q = <<>>, !.lost = TRUE]

(***************************************************************************)
(* State changes.  s.q holds the PDUs to send, s.lost says that everything *)
(* in flight belongs to a connection that is closed.                       *)
(***************************************************************************)

rpki_init_cache(s) ==
    [s EXCEPT !.state = "SHUTDOWN", !.request_session_id = TRUE, !.version = conf.max_version,
              !.session_id = 0, !.serial_num = 0, !.last_update = FALSE, !.last_rx_prefix = FALSE,
              !.refresh = FALSE, !.retry = FALSE, !.expire = FALSE]

rpki_send_reset_query(s) == [s EXCEPT !.q = Append(@, [t |-> "RESET_QUERY", ver |-> s.version])]
rpki_send_serial_query(s) ==
    [s EXCEPT !.q = Append(@, [t |-> "SERIAL_QUERY", ver |-> s.version,
                               session_id |-> s.session_id, serial_num |-> s.serial_num])]
rpki_send_error_pdu(s) == [s EXCEPT !.q = Append(@, [t |-> "ERROR", ver |-> s.version])]

rpki_close_connection(s) == [Close(s) EXCEPT !.up = FALSE]

\* rpki_force_restart_proto(): the core flushes the routes of the protocol and
\* starts it again (Start).
rpki_force_restart_proto(s) ==
    [rpki_init_cache(Close(s)) EXCEPT !.up = FALSE, !.down = TRUE, !.table = <<>>,
                                      !.partial = FALSE]

\* One change of state without the changes that follow from it.
Sync(s) == IF s.request_session_id THEN rpki_send_reset_query(s) ELSE rpki_send_serial_query(s)
SYNC_START(s) == Sync([s EXCEPT !.state = "SYNC_START"])
RESET(s) == SYNC_START([s EXCEPT !.request_session_id = TRUE, !.serial_num = 0])
ERROR_TRANSPORT(s) ==
    [rpki_close_connection(s) EXCEPT !.state = "ERROR_TRANSPORT", !.retry = TRUE,
                                     !.refresh = FALSE, !.request_session_id = TRUE]
CONNECTING(s) ==
    LET s1 == [s EXCEPT !.state = "CONNECTING", !.retry = TRUE]
    IN  IF s.conn = "none" THEN [s1 EXCEPT !.conn = "connecting"] ELSE SYNC_START(s1)
ESTABLISHED(s) ==
    [s EXCEPT !.state = "ESTABLISHED", !.refresh = TRUE, !.expire = TRUE, !.retry = FALSE]

rpki_cache_change_state(s, new) ==
    IF s.state = new THEN s
    ELSE CASE new = "CONNECTING" -> CONNECTING(s)
           [] new = "ESTABLISHED" -> ESTABLISHED(s)
           [] new = "RESET" -> RESET(s)
           [] new = "SYNC_START" -> SYNC_START(s)
           [] new = "SYNC_RUNNING" -> [s EXCEPT !.state = new]
           [] new \in {"NO_INCR_UPDATE_AVAIL", "ERROR_NO_DATA_AVAIL"} ->
                  IF s.state = "ESTABLISHED" THEN RESET(s)
                  ELSE [s EXCEPT !.state = new, !.retry = TRUE]
           [] new = "ERROR_FATAL" -> rpki_force_restart_proto(s)
           [] new = "ERROR_TRANSPORT" -> ERROR_TRANSPORT(s)
           [] new = "FAST_RECONNECT" -> CONNECTING(rpki_close_connection(s))

rpki_start(s) == rpki_cache_change_state([rpki_init_cache(s) EXCEPT !.down = FALSE], "CONNECTING")

rpki_connected_hook(s) ==
    rpki_cache_change_state([s EXCEPT !.conn = "up", !.up = TRUE], "SYNC_START")

(***************************************************************************)
(* Timers.  waiting says that received data waits to be read, recent that  *)
(* the last record came less than 10 seconds ago.                          *)
(***************************************************************************)

rpki_sync_is_stuck(s, waiting, recent) == ~waiting /\ (~s.last_rx_prefix \/ ~recent)

rpki_refresh_hook(s, waiting, recent) ==
    LET s1 == IF s.state = "ESTABLISHED" THEN rpki_cache_change_state(s, "SYNC_START")
              ELSE IF /\ s.state \in {"SYNC_START", "SYNC_RUNNING"}
                      /\ rpki_sync_is_stuck(s, waiting, recent)
              THEN rpki_cache_change_state(s, "ERROR_TRANSPORT") ELSE s
    IN  [s1 EXCEPT !.refresh = s1.state \notin {"SHUTDOWN", "ERROR_TRANSPORT"}]

rpki_retry_hook(s, waiting, recent) ==
    LET s1 == IF s.state \in {"ESTABLISHED", "SHUTDOWN"} THEN s
              ELSE IF s.state \in {"CONNECTING", "SYNC_START", "SYNC_RUNNING"}
              THEN IF rpki_sync_is_stuck(s, waiting, recent)
                   THEN rpki_cache_change_state(s, "ERROR_TRANSPORT") ELSE s
              ELSE IF s.state \in {"NO_INCR_UPDATE_AVAIL", "ERROR_NO_DATA_AVAIL"}
              THEN rpki_cache_change_state(s, "RESET")
              ELSE rpki_cache_change_state(s, "CONNECTING")
    IN  [s1 EXCEPT !.retry = s1.state # "ESTABLISHED"]

\* The expire interval has passed since the last update.
rpki_expire_hook(s) == IF s.last_update THEN rpki_force_restart_proto(s)
                       ELSE [s EXCEPT !.expire = FALSE]

(***************************************************************************)
(* Records.  The table has for every network its route: "valid", "stale"   *)
(* (REF_STALE) or "discard" (REF_DISCARD too: to be pruned).               *)
(***************************************************************************)

\* rpki_prefix_pdu_2_net_addr() and the option to ignore maximal lengths.
NetOf(rec) == IF conf.ignore_max_length /\ rec.t # "aspa"
              THEN [rec EXCEPT !.max = MaxLength[rec.t]] ELSE rec

rpki_table_add(s, net) == [s EXCEPT !.table = (net :> "valid") @@ @]
rpki_table_remove(s, net) ==
    [s EXCEPT !.table = [n \in DOMAIN s.table \ {net} |-> s.table[n]] @@ <<>>]

Import(s, pdu) ==
    LET s1 == [s EXCEPT !.last_rx_prefix = TRUE]
    IN  IF pdu.rec.t \notin conf.channels THEN s
        ELSE IF pdu.add THEN rpki_table_add(s1, NetOf(pdu.rec))
        ELSE rpki_table_remove(s1, NetOf(pdu.rec))

rpki_handle_prefix_pdu(s, pdu) ==
    IF pdu.pxlen > pdu.rec.max \/ pdu.rec.max > MaxLength[pdu.rec.t]
    THEN rpki_cache_change_state(rpki_send_error_pdu(s), "ERROR_FATAL")
    ELSE Import(s, pdu)

rpki_handle_aspa_pdu(s, pdu) == Import(s, pdu)

\* rt_refresh_begin() for the two ROA channels
Begin(s) == [s EXCEPT !.refreshing = TRUE,
                      !.table = [n \in DOMAIN @ |-> IF n.t # "aspa" /\ @[n] = "valid"
                                                   THEN "stale" ELSE @[n]] @@ <<>>]

\* rt_refresh_end() for all channels
End(s) == IF ~s.refreshing THEN s
          ELSE [s EXCEPT !.refreshing = FALSE,
                         !.table = [n \in DOMAIN @ |-> IF @[n] = "stale" THEN "discard"
                                                      ELSE @[n]] @@ <<>>]

(***************************************************************************)
(* PDUs from the server                                                    *)
(***************************************************************************)

rpki_handle_serial_notify_pdu(s, pdu) ==
    IF s.request_session_id \/ s.serial_num = pdu.serial_num THEN s
    ELSE rpki_cache_change_state(s, "SYNC_START")

rpki_handle_cache_response_pdu(s, pdu) ==
    LET s1 == IF s.last_update THEN Begin(s) ELSE s
    IN  IF s.request_session_id
        THEN rpki_cache_change_state([s1 EXCEPT !.session_id = pdu.session_id,
                                                !.request_session_id = FALSE], "SYNC_RUNNING")
        ELSE IF s.session_id # pdu.session_id
        THEN rpki_cache_change_state(rpki_send_error_pdu(s), "ERROR_FATAL")
        ELSE rpki_cache_change_state(s, "SYNC_RUNNING")

rpki_handle_end_of_data_pdu(s, pdu) ==
    IF pdu.session_id # s.session_id
    THEN rpki_cache_change_state(rpki_send_error_pdu(s), "ERROR_FATAL")
    ELSE rpki_cache_change_state([End(s) EXCEPT !.last_update = TRUE,
                                                !.serial_num = pdu.serial_num], "ESTABLISHED")

rpki_handle_error_pdu(s, pdu) ==
    IF pdu.error_code = "NO_DATA_AVAIL" THEN rpki_cache_change_state(s, "ERROR_NO_DATA_AVAIL")
    ELSE IF /\ pdu.error_code = "UNSUPPORTED_PROTOCOL_VER"
            /\ pdu.ver < s.version /\ pdu.ver >= conf.min_version
    THEN rpki_cache_change_state([s EXCEPT !.version = pdu.ver], "FAST_RECONNECT")
    ELSE rpki_cache_change_state(s, "ERROR_FATAL")

\* The version the router uses after it has received a PDU, or 0 for an error.
\* (Versions are counted from 1 here.)
rpki_check_receive_packet(s, pdu) ==
    IF pdu.ver = s.version \/ pdu.t = "ERROR" \/ ~s.request_session_id \/ pdu.t = "SERIAL_NOTIFY"
    THEN s.version
    ELSE IF ~s.last_update /\ pdu.ver < s.version /\ pdu.ver >= conf.min_version
    THEN pdu.ver ELSE 0

rpki_rx_packet(s, pdu) ==
    LET ver == rpki_check_receive_packet(s, pdu)
        s1 == [s EXCEPT !.version = ver]
    IN  IF ver = 0 \/ (pdu.t = "ASPA" /\ pdu.ver < 3)
        THEN rpki_cache_change_state(rpki_send_error_pdu(s), "ERROR_FATAL")
        ELSE CASE pdu.t = "SERIAL_NOTIFY" -> rpki_handle_serial_notify_pdu(s1, pdu)
               [] pdu.t = "CACHE_RESPONSE" -> rpki_handle_cache_response_pdu(s1, pdu)
               [] pdu.t = "PREFIX" -> rpki_handle_prefix_pdu(s1, pdu)
               [] pdu.t = "ASPA" -> rpki_handle_aspa_pdu(s1, pdu)
               [] pdu.t = "END_OF_DATA" -> rpki_handle_end_of_data_pdu(s1, pdu)
               [] pdu.t = "CACHE_RESET" -> rpki_cache_change_state(s1, "NO_INCR_UPDATE_AVAIL")
               [] pdu.t = "ERROR" -> rpki_handle_error_pdu(s1, pdu)

(***************************************************************************)
(* Reconfiguration: new is [min_version, max_version, ignore_max_length,   *)
(* intervals, transport]; the last two say that those have changed.        *)
(***************************************************************************)

rpki_reconfigure_cache(s, new) ==
    LET try_reset == new.max_version < s.version \/ new.ignore_max_length # conf.ignore_max_length
        s1 == [s EXCEPT !.version = Min({@, new.max_version})]
        restart == \/ new.transport \/ new.min_version > s.version
                   \/ (try_reset \/ new.intervals) /\ s.state # "ESTABLISHED"
        s2 == IF try_reset THEN [s1 EXCEPT !.request_session_id = TRUE, !.serial_num = 0] ELSE s1
    IN  IF restart THEN rpki_force_restart_proto(s)
        ELSE IF new.intervals THEN rpki_cache_change_state(s2, "FAST_RECONNECT")
        ELSE IF try_reset THEN rpki_cache_change_state(s1, "RESET")
        ELSE s1

(***************************************************************************)
(* The server                                                              *)
(***************************************************************************)

Session == Len(server.hist)
Log == server.hist[Session]
Serial == Len(Log) - 1
Data == Last(Log)

Pdu(rec, add) == [t |-> IF rec.t = "aspa" THEN "ASPA" ELSE "PREFIX", rec |-> rec, add |-> add,
                  pxlen |-> rec.id]
Order(recs) == SetToSortSeq(recs, LAMBDA a, b : a.id < b.id)

Supported(recs, ver) == {rec \in recs : rec.t = "aspa" => ver >= 3}

\* What the server answers to a query, in version ver.
Answer(query, ver) ==
    LET Response(out, new) ==
            <<[t |-> "CACHE_RESPONSE", session_id |-> Session]>>
            \o [i \in DOMAIN out |-> Pdu(out[i], FALSE)]
            \o [i \in DOMAIN new |-> Pdu(new[i], TRUE)]
            \o <<[t |-> "END_OF_DATA", session_id |-> Session, serial_num |-> Serial]>>
        Old == Log[query.serial_num + 1]
        pdus == IF ~server.avail THEN <<[t |-> "ERROR", error_code |-> "NO_DATA_AVAIL"]>>
                ELSE IF query.t = "RESET_QUERY" THEN Response(<<>>, Order(Supported(Data, ver)))
                ELSE IF \/ query.session_id # Session
                        \/ query.serial_num \notin server.first..Serial
                THEN <<[t |-> "CACHE_RESET"]>>
                ELSE Response(Order(Supported(Old \ Data, ver)), Order(Supported(Data \ Old, ver)))
    IN  [i \in DOMAIN pdus |-> pdus[i] @@ [ver |-> ver]]

Init ==
    /\ conf \in Configs
    /\ server = [hist |-> <<<<conf.data>>>>, first |-> 0, avail |-> conf.avail]
    /\ c = LET s == [state |-> "SHUTDOWN", request_session_id |-> TRUE, version |-> 0,
                     session_id |-> 0, serial_num |-> 0, last_update |-> FALSE,
                     last_rx_prefix |-> FALSE, refresh |-> FALSE,
                     retry |-> FALSE, expire |-> FALSE, conn |-> "none", q |-> <<>>, lost |-> FALSE,
                     up |-> FALSE, down |-> TRUE, table |-> <<>>, refreshing |-> FALSE,
                     partial |-> FALSE]
           IN  rpki_init_cache(s)
    /\ ch = [up |-> <<>>, down |-> <<>>]

Become(s, chans) ==
    /\ c' = [s EXCEPT !.q = <<>>, !.lost = FALSE,
                      !.partial = @ \/ (s.lost /\ ~s.down /\ ~s.last_update /\ s.table # <<>>)]
    /\ ch' = [up |-> (IF s.lost THEN <<>> ELSE chans.up) \o
                     (IF s.conn = "up" THEN s.q ELSE <<>>),
              down |-> IF s.lost THEN <<>> ELSE chans.down]

Spend(what) == conf[what] > 0 /\ conf' = [conf EXCEPT ![what] = @ - 1]
Discards == {n \in DOMAIN c.table : c.table[n] = "discard"}
Silent == ch.up = <<>> /\ ch.down = <<>> /\ c.conn # "connecting" /\ ~c.down /\ Discards = {}
Soon(recent) == IF Silent /\ ~recent THEN UNCHANGED conf ELSE Spend("early")

Start == c.down /\ Become(rpki_start(c), ch) /\ UNCHANGED <<conf, server>>

Connected == /\ c.conn = "connecting"
             /\ Become(rpki_connected_hook(c), ch)
             /\ UNCHANGED <<conf, server>>

\* rpki_err_hook(): the connection fails or breaks.
Broken == /\ c.conn # "none"
          /\ Spend("breaks")
          /\ Become(rpki_cache_change_state(c, "ERROR_TRANSPORT"), ch)
          /\ UNCHANGED server

Receive == /\ ch.down # <<>>
           /\ Become(rpki_rx_packet(c, Head(ch.down)), [ch EXCEPT !.down = Tail(@)])
           /\ UNCHANGED <<conf, server>>

Refresh == \E recent \in BOOLEAN :
             /\ c.refresh /\ Soon(recent)
             /\ Become(rpki_refresh_hook(c, ch.down # <<>>, recent), ch) /\ UNCHANGED server
Retry == \E recent \in BOOLEAN :
           /\ c.retry /\ Soon(recent)
           /\ Become(rpki_retry_hook(c, ch.down # <<>>, recent), ch) /\ UNCHANGED server
Expire == /\ c.expire /\ Spend("expiries")
          /\ Become(rpki_expire_hook(c), ch) /\ UNCHANGED server

\* rt_prune_table(), which TablePrune models, reaches a route to be discarded.
Prune(net) ==
    /\ c.table[net] = "discard"
    /\ c' = rpki_table_remove(c, net)
    /\ UNCHANGED <<conf, server, ch>>

Reconfigure ==
    /\ conf.plans # <<>> /\ ~c.down
    /\ Become(rpki_reconfigure_cache(c, Head(conf.plans)), ch)
    /\ conf' = [conf EXCEPT !.plans = Tail(@), !.max_version = Head(conf.plans).max_version,
                            !.min_version = Head(conf.plans).min_version,
                            !.ignore_max_length = Head(conf.plans).ignore_max_length]
    /\ UNCHANGED server

\* Steps of the server: it answers, may not answer, notifies, has new data,
\* forgets old versions of them, or starts a new session.
Serve ==
    /\ ch.up # <<>>
    /\ LET query == Head(ch.up)
           error == [t |-> "ERROR", error_code |-> "UNSUPPORTED_PROTOCOL_VER", ver |-> conf.server]
           answer == IF query.t = "ERROR" THEN <<>>
                     ELSE IF query.ver > conf.server /\ conf.strict THEN <<error>>
                     ELSE Answer(query, Min({query.ver, conf.server}))
       IN  \/ ch' = [up |-> Tail(ch.up), down |-> ch.down \o answer] /\ UNCHANGED conf
           \/ ch' = [up |-> Tail(ch.up), down |-> ch.down] /\ Spend("mutes")
    /\ UNCHANGED <<c, server>>

Notify ==
    /\ c.conn = "up" /\ Spend("notifies")
    /\ ch' = [ch EXCEPT !.down = Append(@, [t |-> "SERIAL_NOTIFY", ver |-> Min({c.version, conf.server}),
                                            serial_num |-> Serial])]
    /\ UNCHANGED <<c, server>>

Publish(rec) ==
    /\ Spend("updates")
    /\ server' = [server EXCEPT !.hist[Session] = Append(@, SymDiff(Data, {rec})), !.avail = TRUE]
    /\ UNCHANGED <<c, ch>>

Forget ==
    /\ Spend("forgets")
    /\ server' = [server EXCEPT !.first = Serial]
    /\ UNCHANGED <<c, ch>>

NewSession ==
    /\ Spend("sessions")
    /\ server' = [server EXCEPT !.hist = Append(@, <<Data>>), !.first = 0]
    /\ UNCHANGED <<c, ch>>

Next == Start \/ Connected \/ Broken \/ Receive \/ Refresh \/ Retry \/ Expire \/ Reconfigure
        \/ Serve \/ Notify \/ Forget \/ NewSession \/ \E rec \in Records : Publish(rec)
        \/ \E net \in DOMAIN c.table : Prune(net)

\* Weak fairness of Next, in a form TLC evaluates quickly: while something is in
\* flight, a route is to be pruned or a timer is on, a step is possible.
Moving == ~Silent \/ c.refresh \/ c.retry
Fairness == []<>~Moving \/ []<><<Next>>_vars
Spec == Init /\ [][Next]_vars /\ Fairness

(***************************************************************************)
(* Properties                                                              *)
(***************************************************************************)

TypeOK ==
    /\ c.conn \in {"none", "connecting", "up"}
    /\ c.version \in 1..3
    /\ c.state # "ERROR_FATAL"
    /\ DOMAIN c.table \subseteq {NetOf(rec) : rec \in Records} \cup Records

Imported(types) == {n \in DOMAIN c.table \ Discards : n.t \in types}
Known(types) == {NetOf(rec) : rec \in {rec \in server.hist[c.session_id][c.serial_num + 1] :
                                           rec.t \in types \cap conf.channels}}

\* In the state ESTABLISHED the imported ROAs, but for those to be pruned, are
\* those the server had at the serial number and in the session the router
\* remembers, whatever was interrupted before.  Records of a first synchronisation that was interrupted
\* may remain.
SyncedExactly ==
    c.state = "ESTABLISHED" =>
        /\ Known({"roa4", "roa6"}) \subseteq Imported({"roa4", "roa6"})
        /\ c.partial \/ Imported({"roa4", "roa6"}) \subseteq Known({"roa4", "roa6"})

\* "We need to load new ones and kick out missing ones": after a synchronisation
\* the router has no ASPA record that the server does not have.
AspaSynced ==
    (c.state = "ESTABLISHED" /\ c.version >= 3 /\ ~c.partial) => Imported({"aspa"}) \subseteq Known({"aspa"})

Synchronized ==
    server.avail /\ conf.server >= conf.min_version =>
        /\ c.session_id = Session /\ c.serial_num = Serial
        /\ c.last_update /\ c.up /\ Discards = {}

\* When the server is reachable, speaks a version the router accepts, and its
\* data do not change any more, the router comes to have them and stays there.
Synchronizes == <>[]Synchronized
=============================================================================
