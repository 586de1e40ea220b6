----------------------------- MODULE Protocols -----------------------------
(***************************************************************************)
(* The life of protocol instances and their channels as the core runs it   *)
(* (nest/proto.c): start, shutdown, restart, limits, reconfiguration, and  *)
(* the recovery of the router from its own graceful restart.               *)
(*                                                                         *)
(* Two kinds of protocols stand for the rest.  A BGP session comes up and  *)
(* goes down by itself, through PS_START and PS_STOP, and holds the        *)
(* recovery for its channels.  A kernel protocol starts and stops at once, *)
(* and only waits for the end of the recovery.  Routes are left out: the   *)
(* table reports at some time that a flushing channel has none.            *)
(***************************************************************************)
EXTENDS Integers, FiniteSets

CONSTANTS
    Bgp, Krt,       \* protocols of the two kinds
    Channels,       \* the channels of a protocol
    MayShrink,      \* may a session that follows a graceful restart of the
                    \* neighbor lack a channel of the one before?
    MayBePartial    \* may a session during the recovery lack channels?

Protos == Bgp \union Krt

ASSUME ProtocolsAssumption ==
    /\ IsFiniteSet(Bgp) /\ IsFiniteSet(Krt) /\ Bgp \intersect Krt = {}
    /\ \A p \in Protos : IsFiniteSet(Channels[p]) /\ Channels[p] # {}
    /\ MayShrink \in BOOLEAN
    /\ MayBePartial \in BOOLEAN

VARIABLES
    proto,                  \* the instances
    graceful_restart_state, \* GRS_*
    graceful_restart_locks, \* a negative n stands for 2^32 + n
    gr_wait_timer           \* "OFF", running ("WAIT"), or due ("NOW")

vars == <<proto, graceful_restart_state, graceful_restart_locks, gr_wait_timer>>

NewChannel ==
    [state |-> "DOWN", disabled |-> FALSE, gr_lock |-> FALSE, gr_wait |-> FALSE,
     export |-> FALSE]

(* proto_init() with a configuration that is disabled or not               *)
proto_init(p, off) ==
    [exists |-> TRUE, state |-> "DOWN", active |-> FALSE, disabled |-> off,
     reconfiguring |-> FALSE, cf_new |-> "NONE", down_sched |-> "NONE",
     gr_recovery |-> FALSE, event |-> FALSE,
     channels |-> [c \in Channels[p] |-> NewChannel]]

NoProto(p) == [proto_init(p, FALSE) EXCEPT !.exists = FALSE]

Init ==
    /\ proto = [p \in Protos |-> NoProto(p)]
    /\ graceful_restart_state \in {"NONE", "INIT"}
    /\ graceful_restart_locks = 0
    /\ gr_wait_timer = "OFF"

----------------------------------------------------------------------------
(* Channels.  Faulty variants of definitions are named for what they get   *)
(* wrong.                                                                  *)

(* channel_set_state() of a channel that is not in that state already      *)
channel_set_state(c, state) ==
    [c EXCEPT !.state = state,
              !.export = (state = "UP" /\ ~c.gr_wait),
              !.gr_wait = @ /\ state # "FLUSHING",
              !.gr_lock = @ /\ state # "FLUSHING"]

channel_is_active(c) == c.state \in {"START", "UP"}

proto_start_channels(r) ==
    [r EXCEPT !.channels = [c \in DOMAIN @ |->
        IF @[c].disabled \/ @[c].state = "UP" THEN @[c] ELSE channel_set_state(@[c], "UP")]]

proto_pause_channels(r) ==
    [r EXCEPT !.channels = [c \in DOMAIN @ |->
        IF ~@[c].disabled /\ @[c].state = "UP" THEN channel_set_state(@[c], "START") ELSE @[c]]]

StopOnlyUp(r) ==
    [r EXCEPT !.channels = [c \in DOMAIN @ |->
        IF ~@[c].disabled /\ @[c].state = "UP"
        THEN channel_set_state(@[c], "FLUSHING") ELSE @[c]]]

proto_stop_channels(r) ==
    [r EXCEPT !.channels = [c \in DOMAIN @ |->
        IF ~@[c].disabled /\ channel_is_active(@[c])
        THEN channel_set_state(@[c], "FLUSHING") ELSE @[c]]]

(* active_channels counts the channels between channel_do_start() and      *)
(* channel_do_down().                                                      *)
active_channels(r) == {c \in DOMAIN r.channels : r.channels[c].state # "DOWN"}

DoneIgnoringChannels(r) == r.state = "DOWN"

proto_is_done(r) == r.state = "DOWN" /\ active_channels(r) = {}

----------------------------------------------------------------------------
(* Protocol states.                                                        *)

proto_do_start(r) == [r EXCEPT !.active = TRUE, !.event = TRUE]

proto_do_stop(r) ==
    proto_stop_channels([r EXCEPT !.down_sched = "NONE", !.gr_recovery = FALSE,
                                  !.event = TRUE])

proto_do_down(r) == [r EXCEPT !.event = @ \/ proto_is_done(r)]

proto_notify_state(r, state) ==
    LET s == [r EXCEPT !.state = state]
    IN  IF state = r.state THEN r
        ELSE IF state = "START"
        THEN IF r.state = "DOWN" THEN proto_do_start(s) ELSE proto_pause_channels(s)
        ELSE IF state = "UP"
        THEN proto_start_channels(IF r.state = "DOWN" THEN proto_do_start(s) ELSE s)
        ELSE IF state = "STOP"
        THEN proto_do_stop(s)
        ELSE proto_do_down(IF r.state # "STOP" THEN proto_do_stop(s) ELSE s)

(* proto_start() and the start hook: bgp_start() locks the recovery, and   *)
(* krt_start() waits for its end.                                          *)
Start(p, r) ==
    LET recovery == graceful_restart_state = "INIT"
        chans    == [c \in Channels[p] |-> [r.channels[c] EXCEPT
                        !.gr_lock = @ \/ (recovery /\ p \in Bgp),
                        !.gr_wait = @ \/ (recovery /\ p \in Krt)]]
    IN  proto_notify_state([r EXCEPT !.gr_recovery = @ \/ recovery, !.channels = chans],
                           IF p \in Bgp THEN "START" ELSE "UP")

(* The shutdown hook: bgp_shutdown() or krt_shutdown()                     *)
Shutdown(p, r) == proto_notify_state(r, IF p \in Bgp THEN "STOP" ELSE "DOWN")

(* proto_rethink_goal(), its first part: an instance that has shut down    *)
(* for a reconfiguration is freed, and replaced if there is a new one.     *)
Renew(p, r) ==
    IF r.reconfiguring /\ ~r.active
    THEN IF r.cf_new = "NONE" THEN NoProto(p) ELSE proto_init(p, r.cf_new = "OFF")
    ELSE r

(* proto_rethink_goal(), the rest                                          *)
Goal(p, r) ==
    IF ~r.exists THEN r
    ELSE IF r.disabled \/ r.reconfiguring
         THEN IF r.state \in {"START", "UP"} THEN Shutdown(p, r) ELSE r
         ELSE IF r.active THEN r ELSE Start(p, r)

RestartGoal(p, r) ==
    Goal(p, [Goal(p, [r EXCEPT !.disabled = TRUE]) EXCEPT !.disabled = FALSE])

----------------------------------------------------------------------------
Locks(w) == {l \in UNION {{p} \X Channels[p] : p \in Protos} :
                 w[l[1]].channels[l[2]].gr_lock}

(* The step from instances `before', after some were freed, to `after',    *)
(* with channel_graceful_restart_lock() and channel_graceful_restart_      *)
(* unlock() for the channels whose gr_lock changes in between.             *)
UpdateEndingEarly(before, after) ==
    /\ proto' = after
    /\ graceful_restart_locks' = graceful_restart_locks
                                 + Cardinality(Locks(after)) - Cardinality(Locks(before))
    /\ gr_wait_timer' = IF /\ graceful_restart_state = "ACTIVE"
                           /\ graceful_restart_locks' < graceful_restart_locks
                        THEN "NOW" ELSE gr_wait_timer
    /\ UNCHANGED graceful_restart_state

Update(before, after) ==
    /\ proto' = after
    /\ graceful_restart_locks' = graceful_restart_locks
                                 + Cardinality(Locks(after)) - Cardinality(Locks(before))
    /\ gr_wait_timer' = IF /\ graceful_restart_state = "ACTIVE"
                           /\ graceful_restart_locks' # graceful_restart_locks
                           /\ graceful_restart_locks' = 0
                        THEN "NOW" ELSE gr_wait_timer
    /\ UNCHANGED graceful_restart_state

UpdateOne(p, r) == Update(proto, [proto EXCEPT ![p] = r])

----------------------------------------------------------------------------
(* Booting and the recovery.                                               *)

(* graceful_restart_done() for one instance                                *)
DoneFor(r) ==
    IF ~r.gr_recovery THEN r
    ELSE [r EXCEPT !.gr_recovery = FALSE,
                   !.channels = [c \in DOMAIN r.channels |-> [r.channels[c] EXCEPT
                       !.export = @ \/ (r.channels[c].state = "UP" /\ r.channels[c].gr_wait),
                       !.gr_wait = FALSE, !.gr_lock = FALSE]]]

(* protos_commit() of the first configuration, in which the protocols `on' *)
(* are enabled and `off' disabled, and graceful_restart_init()             *)
Boot(on, off) ==
    LET booted == [p \in Protos |->
            IF p \in on \union off THEN Goal(p, proto_init(p, p \in off)) ELSE NoProto(p)]
        locks  == Cardinality(Locks(booted))
    IN  /\ graceful_restart_state \in {"NONE", "INIT"}
        /\ \A p \in Protos : ~proto[p].exists
        /\ IF graceful_restart_state = "INIT" /\ locks > 0
           THEN /\ proto' = booted
                /\ graceful_restart_locks' = locks
                /\ graceful_restart_state' = "ACTIVE"
                /\ gr_wait_timer' = "WAIT"
           ELSE /\ proto' = [p \in Protos |-> DoneFor(booted[p])]
                /\ graceful_restart_locks' = 0
                /\ graceful_restart_state' = "DONE"
                /\ UNCHANGED gr_wait_timer

graceful_restart_done ==
    /\ gr_wait_timer # "OFF"
    /\ proto' = [p \in Protos |-> DoneFor(proto[p])]
    /\ graceful_restart_state' = "DONE"
    /\ graceful_restart_locks' = 0
    /\ gr_wait_timer' = "OFF"

----------------------------------------------------------------------------
(* The core: events, commands, limits and reconfiguration.                 *)

EventWithoutGoal(p) ==
    LET r    == [proto[p] EXCEPT !.event = FALSE]
        next == Renew(p, [r EXCEPT !.active = FALSE])
    IN  /\ proto[p].event
        /\ IF proto_is_done(r)
           THEN Update([proto EXCEPT ![p] = next], [proto EXCEPT ![p] = next])
           ELSE UpdateOne(p, r)

proto_event(p) ==
    LET r    == [proto[p] EXCEPT !.event = FALSE]
        next == Renew(p, [r EXCEPT !.active = FALSE])
    IN  /\ proto[p].event
        /\ IF proto_is_done(r)
           THEN Update([proto EXCEPT ![p] = next], [proto EXCEPT ![p] = Goal(p, next)])
           ELSE UpdateOne(p, r)

(* The table has removed the last route of a flushing channel, and calls   *)
(* channel_set_state(CS_DOWN): channel_do_down().                          *)
DownWithoutEvent(p, c) ==
    /\ proto[p].channels[c].state = "FLUSHING"
    /\ UpdateOne(p, [proto[p] EXCEPT !.channels[c] = channel_set_state(@, "DOWN")])

channel_do_down(p, c) ==
    LET r == [proto[p] EXCEPT !.channels[c] = channel_set_state(@, "DOWN")]
    IN  /\ proto[p].channels[c].state = "FLUSHING"
        /\ UpdateOne(p, [r EXCEPT !.event = @ \/ proto_is_done(r)])

proto_cmd_disable(p) ==
    /\ proto[p].exists /\ ~proto[p].disabled
    /\ UpdateOne(p, Goal(p, [proto[p] EXCEPT !.disabled = TRUE]))

proto_cmd_enable(p) ==
    /\ proto[p].exists /\ proto[p].disabled
    /\ UpdateOne(p, Goal(p, [proto[p] EXCEPT !.disabled = FALSE]))

proto_cmd_restart(p) ==
    /\ proto[p].exists /\ ~proto[p].disabled
    /\ UpdateOne(p, RestartGoal(p, proto[p]))

(* channel_notify_limit() with the action `restart' or `disable', and      *)
(* proto_schedule_down()                                                   *)
channel_notify_limit(p, action) ==
    /\ proto[p].state = "UP"
    /\ proto[p].down_sched # "DISABLE"
    /\ UpdateOne(p, [proto[p] EXCEPT !.down_sched = action])

(* The timer that proto_schedule_down() has started                        *)
proto_shutdown_loop ==
    /\ \E p \in Protos : proto[p].down_sched # "NONE"
    /\ Update(proto, [p \in Protos |->
           LET r == proto[p]
           IN  IF r.down_sched = "NONE" THEN r
               ELSE IF r.down_sched = "DISABLE" THEN Goal(p, [r EXCEPT !.disabled = TRUE])
               ELSE RestartGoal(p, r)])

(* protos_commit() of a configuration with the protocols `on' and `off';   *)
(* those in `compatible' can take it over without a restart.  One commit   *)
(* is over before the next one begins (module Config).                     *)
protos_commit(on, off, compatible) ==
    LET keep(p)   == /\ p \in on \union off /\ p \in compatible     \* proto_reconfigure()
                     /\ proto[p].state # "DOWN" /\ proto[p].disabled = (p \in off)
        marked(p) == [proto[p] EXCEPT
                         !.reconfiguring = TRUE,
                         !.cf_new = IF p \in on THEN "ON" ELSE IF p \in off THEN "OFF" ELSE "NONE"]
        base      == [p \in Protos |->
                         IF ~proto[p].exists
                         THEN IF p \in on \union off THEN proto_init(p, p \in off) ELSE proto[p]
                         ELSE IF keep(p) THEN proto[p] ELSE Renew(p, marked(p))]
    IN  /\ graceful_restart_state \in {"ACTIVE", "DONE"}
        /\ \A p \in Protos : ~proto[p].reconfiguring
        /\ Update(base, [p \in Protos |-> Goal(p, base[p])])

----------------------------------------------------------------------------
(* What BGP does by itself.                                                *)

(* bgp_conn_enter_established_state() of a session with the channels in    *)
(* `ready', of which bgp_check_capabilities() demands at least one; the    *)
(* neighbor is or is not ready to help the recovery.                       *)
Established(p, ready, peer_gr_ready) ==
    LET r     == proto[p]
        chans == [c \in Channels[p] |-> [r.channels[c] EXCEPT
                     !.disabled = c \notin ready,
                     !.gr_lock  = @ /\ ~(r.gr_recovery /\ (c \notin ready \/ ~peer_gr_ready)),
                     !.gr_wait  = @ \/ (r.gr_recovery /\ peer_gr_ready)]]
    IN  /\ r.state = "START" /\ ready # {}
        /\ \A c \in Channels[p] : r.channels[c].state = "START" /\ ~MayShrink => c \in ready
        /\ r.gr_recovery /\ ~MayBePartial => ready = Channels[p]
        /\ UpdateOne(p, proto_notify_state([r EXCEPT !.channels = chans], "UP"))

(* bgp_rx_end_mark()                                                       *)
EndOfRib(p, c) ==
    /\ proto[p].state = "UP" /\ proto[p].gr_recovery
    /\ proto[p].channels[c].gr_lock /\ ~proto[p].channels[c].disabled
    /\ UpdateOne(p, [proto[p] EXCEPT !.channels[c].gr_lock = FALSE])

bgp_handle_graceful_restart(p) ==
    /\ proto[p].state = "UP"
    /\ UpdateOne(p, proto_notify_state(proto[p], "START"))

(* An error, or the connection is lost: bgp_stop().  With disable_after_   *)
(* error, the protocol is disabled too.                                    *)
bgp_stop(p, disable) ==
    /\ proto[p].state \in {"START", "UP"}
    /\ UpdateOne(p, proto_notify_state([proto[p] EXCEPT !.disabled = @ \/ disable], "STOP"))

(* bgp_decision() once both connections are idle                           *)
bgp_down(p) ==
    /\ proto[p].state = "STOP"
    /\ UpdateOne(p, proto_notify_state(proto[p], "DOWN"))

(* bgp_initiate(), called in PS_START before the first session, cannot     *)
(* open its listening socket.                                              *)
bgp_initiate(p) ==
    /\ proto[p].state = "START" /\ active_channels(proto[p]) = {}
    /\ UpdateOne(p, proto_notify_state([proto[p] EXCEPT !.disabled = TRUE], "DOWN"))

----------------------------------------------------------------------------
Next ==
    \/ \E on, off \in SUBSET Protos : on \intersect off = {} /\ Boot(on, off)
    \/ graceful_restart_done
    \/ proto_shutdown_loop
    \/ \E on, off, compatible \in SUBSET Protos :
           on \intersect off = {} /\ protos_commit(on, off, compatible)
    \/ \E p \in Protos :
           \/ proto_event(p)
           \/ \E c \in Channels[p] : channel_do_down(p, c)
           \/ proto_cmd_disable(p) \/ proto_cmd_enable(p) \/ proto_cmd_restart(p)
           \/ \E action \in {"RESTART", "DISABLE"} : channel_notify_limit(p, action)
    \/ \E p \in Bgp :
           \/ \E ready \in SUBSET Channels[p], peer_gr_ready \in BOOLEAN :
                  Established(p, ready, peer_gr_ready)
           \/ \E c \in Channels[p] : EndOfRib(p, c)
           \/ bgp_handle_graceful_restart(p)
           \/ \E disable \in BOOLEAN : bgp_stop(p, disable)
           \/ bgp_down(p) \/ bgp_initiate(p)

Spec == Init /\ [][Next]_vars

(* What finishes a shutdown: events, the prune loop of the table, and the  *)
(* closing of connections                                                  *)
Finish(p) ==
    \/ proto_event(p)
    \/ \E c \in Channels[p] : channel_do_down(p, c)
    \/ p \in Bgp /\ bgp_down(p)

(* The main loop runs events and timers, the prune loop comes to an end    *)
(* (module TablePrune), and closing a connection takes finite time, as the *)
(* hold timer runs in BS_CLOSE.                                            *)
FairSpec ==
    /\ Spec
    /\ WF_vars(proto_shutdown_loop)
    /\ \A p \in Protos : WF_vars(Finish(p))

----------------------------------------------------------------------------
Channel == [state : {"DOWN", "START", "UP", "FLUSHING"}, disabled : BOOLEAN,
            gr_lock : BOOLEAN, gr_wait : BOOLEAN, export : BOOLEAN]

(* Types; a shutdown is scheduled only for protocols that are not shutting *)
(* down already, and an instance that is in any state but down is active.  *)
TypeOK ==
    /\ graceful_restart_state \in {"NONE", "INIT", "ACTIVE", "DONE"}
    /\ graceful_restart_locks \in Int
    /\ gr_wait_timer \in {"OFF", "WAIT", "NOW"}
    /\ \A p \in Protos :
           /\ proto[p] \in
                [exists : BOOLEAN, state : {"DOWN", "START", "UP", "STOP"}, active : BOOLEAN,
                 disabled : BOOLEAN, reconfiguring : BOOLEAN, cf_new : {"NONE", "ON", "OFF"},
                 down_sched : {"NONE", "RESTART", "DISABLE"}, gr_recovery : BOOLEAN,
                 event : BOOLEAN, channels : [Channels[p] -> Channel]]
           /\ proto[p].down_sched # "NONE" => proto[p].state \in {"START", "UP"}
           /\ proto[p].state # "DOWN" => proto[p].active

(* An instance that has nothing more to wait for, neither its own shutdown *)
(* nor that of a channel, has its event scheduled: nobody else would       *)
(* finish its shutdown, whichever of the two came last.                    *)
DoneScheduled ==
    \A p \in Protos : proto[p].active /\ proto_is_done(proto[p]) => proto[p].event

(* "channels are closed automatically by the core when the protocol is     *)
(* going down" (protocol.h).                                               *)
ClosedWhenDown ==
    \A p \in Protos : proto[p].state \in {"STOP", "DOWN"} =>
        \A c \in Channels[p] : ~channel_is_active(proto[p].channels[c])

(* Channels take only the transitions that protocol.h allows; in           *)
(* particular none is opened again, or freed, before it is flushed.        *)
ChannelTransitions ==
    [][\A p \in Protos : \A c \in Channels[p] :
           LET old == proto[p].channels[c].state
               new == proto'[p].channels[c].state
           IN  old # new => <<old, new>> \in
                   {<<"DOWN", "START">>, <<"DOWN", "UP">>, <<"START", "UP">>,
                    <<"START", "FLUSHING">>, <<"UP", "START">>, <<"UP", "FLUSHING">>,
                    <<"FLUSHING", "DOWN">>}]_vars

(* The recovery ends before its time only when no channel locks it.        *)
EndsUnlocked == gr_wait_timer = "NOW" => Locks(proto) = {}

(* A channel that is up exports routes, unless it waits for the end of the *)
(* recovery, and after the recovery none waits any more: "Protocols        *)
(* postponing route export until the end of the recovery are awakened".    *)
ExportsResume ==
    \A p \in Protos : \A c \in Channels[p] :
        LET ch == proto[p].channels[c]
        IN  /\ ch.export <=> ch.state = "UP" /\ ~ch.gr_wait
            /\ ch.state = "UP" /\ ch.gr_wait =>
                   graceful_restart_state = "ACTIVE" /\ proto[p].gr_recovery

(* A kernel protocol that takes part in the recovery exports nothing until *)
(* the recovery ends.                                                      *)
KernelWaits ==
    graceful_restart_state = "ACTIVE" =>
        \A p \in Krt : proto[p].gr_recovery =>
            \A c \in Channels[p] : ~proto[p].channels[c].export

(* The recovery from a restart ends in time, holds the exports back until  *)
(* then and lets them go: see EndsUnlocked, ExportsResume and KernelWaits. *)
RecoverySound == EndsUnlocked /\ ExportsResume /\ KernelWaits

(* Whatever commands, limits, errors and reconfigurations come, and        *)
(* however fast, each protocol gets again and again to where it should be: *)
(* restarted or removed by the last reconfiguration, running if it is      *)
(* enabled and shut down completely if it is not.                          *)
GoalReached ==
    \A p \in Protos : []<>
        \/ ~proto[p].exists
        \/ /\ ~proto[p].reconfiguring
           /\ proto[p].down_sched = "NONE"
           /\ IF proto[p].disabled THEN ~proto[p].active
                                   ELSE proto[p].state \in {"START", "UP"}
============================================================================
