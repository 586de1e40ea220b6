-------------------------- MODULE ProtocolsProofs --------------------------
(***************************************************************************)
(* Safety of protocol instances and channels, for any protocols of the two *)
(* kinds and any channels.                                                 *)
(***************************************************************************)
EXTENDS Protocols, FiniteSetTheorems, TLAPS

ChannelStates == {"DOWN", "START", "UP", "FLUSHING"}
ProtoStates == {"DOWN", "START", "UP", "STOP"}

Instance(p) ==
    [exists : BOOLEAN, state : ProtoStates, active : BOOLEAN,
     disabled : BOOLEAN, reconfiguring : BOOLEAN, cf_new : {"NONE", "ON", "OFF"},
     down_sched : {"NONE", "RESTART", "DISABLE"}, gr_recovery : BOOLEAN,
     event : BOOLEAN, channels : [Channels[p] -> Channel]]

(* What channel_set_state() does.                                          *)
LEMMA SetState ==
  ASSUME NEW x \in Channel, NEW s \in ChannelStates
  PROVE  LET y == channel_set_state(x, s)
         IN  /\ y \in Channel /\ y.state = s /\ y.disabled = x.disabled
             /\ y.export <=> s = "UP" /\ ~x.gr_wait
             /\ y.gr_wait <=> x.gr_wait /\ s # "FLUSHING"
             /\ y.gr_lock <=> x.gr_lock /\ s # "FLUSHING"
  BY Zenon DEF channel_set_state, Channel, ChannelStates

(* What happens to the channels of an instance that changes its state.     *)
Started(x) == IF x.disabled \/ x.state = "UP" THEN x ELSE channel_set_state(x, "UP")
Paused(x) == IF ~x.disabled /\ x.state = "UP" THEN channel_set_state(x, "START") ELSE x
Stopped(x) == IF ~x.disabled /\ channel_is_active(x) THEN channel_set_state(x, "FLUSHING") ELSE x

(* r with other channels                                                   *)
With(r, chans) == [r EXCEPT !.channels = chans]

(* The operations on all channels of a protocol, channel by channel.       *)
LEMMA ChannelOps ==
  ASSUME NEW p \in Protos, NEW r \in Instance(p)
  PROVE  /\ proto_start_channels(r) = With(r, [c \in Channels[p] |-> Started(r.channels[c])])
         /\ proto_pause_channels(r) = With(r, [c \in Channels[p] |-> Paused(r.channels[c])])
         /\ proto_stop_channels(r) = With(r, [c \in Channels[p] |-> Stopped(r.channels[c])])
<1>1. DOMAIN r.channels = Channels[p]
  BY DEF Instance
<1> QED
  BY <1>1 DEF proto_start_channels, proto_pause_channels, proto_stop_channels, With, Started, Paused, Stopped

(* Other channels leave the rest of an instance unchanged.                 *)
LEMMA WithType ==
  ASSUME NEW p \in Protos, NEW r \in Instance(p), NEW chans \in [Channels[p] -> Channel]
  PROVE  LET n == With(r, chans)
         IN  /\ n \in Instance(p) /\ n.channels = chans
             /\ n.exists = r.exists /\ n.state = r.state /\ n.active = r.active
             /\ n.disabled = r.disabled /\ n.reconfiguring = r.reconfiguring
             /\ n.cf_new = r.cf_new /\ n.down_sched = r.down_sched
             /\ n.gr_recovery = r.gr_recovery /\ n.event = r.event
  BY DEF With, Instance

(* The operations keep the type of a channel.                              *)
LEMMA ChannelOpsType ==
  ASSUME NEW x \in Channel
  PROVE  Started(x) \in Channel /\ Paused(x) \in Channel /\ Stopped(x) \in Channel
  BY SetState DEF Started, Paused, Stopped, ChannelStates

(* An instance starts, comes up, or is paused.                             *)
LEMMA RunFields ==
  ASSUME NEW p \in Protos, NEW r \in Instance(p), NEW st \in {"START", "UP"}, st # r.state,
         NEW n, n = proto_notify_state(r, st)
  PROVE  /\ n \in Instance(p) /\ n.state = st
         /\ (n.exists <=> r.exists) /\ (n.disabled <=> r.disabled)
         /\ (n.reconfiguring <=> r.reconfiguring) /\ n.cf_new = r.cf_new
         /\ n.down_sched = r.down_sched /\ (n.gr_recovery <=> r.gr_recovery)
         /\ n.active <=> r.active \/ r.state = "DOWN"
         /\ \A c \in Channels[p] :
                n.channels[c] = IF st = "UP" THEN Started(r.channels[c])
                                ELSE IF r.state = "DOWN" THEN r.channels[c]
                                ELSE Paused(r.channels[c])
<1> DEFINE s == [r EXCEPT !.state = st]
           d == IF r.state = "DOWN" THEN proto_do_start(s) ELSE s
<1>1. /\ d \in Instance(p) /\ d.state = st /\ d.channels = r.channels
      /\ (d.exists <=> r.exists) /\ (d.disabled <=> r.disabled)
      /\ (d.reconfiguring <=> r.reconfiguring) /\ d.cf_new = r.cf_new
      /\ d.down_sched = r.down_sched /\ (d.gr_recovery <=> r.gr_recovery)
      /\ d.active <=> r.active \/ r.state = "DOWN"
  BY Zenon DEF Instance, ProtoStates, proto_do_start
<1>2. r.channels \in [Channels[p] -> Channel]
  BY DEF Instance
<1>3. proto_notify_state(r, st) =
        IF st = "UP" THEN proto_start_channels(d)
        ELSE IF r.state = "DOWN" THEN d ELSE proto_pause_channels(d)
  BY DEF proto_notify_state
<1> HIDE DEF d
<1>4. /\ [c \in Channels[p] |-> Started(r.channels[c])] \in [Channels[p] -> Channel]
      /\ [c \in Channels[p] |-> Paused(r.channels[c])] \in [Channels[p] -> Channel]
  BY <1>2, ChannelOpsType
<1>5. CASE st = "UP"
  <2>1. proto_notify_state(r, st) = With(d, [c \in Channels[p] |-> Started(r.channels[c])])
    BY <1>1, <1>3, <1>5, ChannelOps, Zenon
  <2> QED
    BY <1>1, <1>4, <1>5, <2>1, WithType
<1>6. CASE st = "START" /\ r.state = "DOWN"
  BY <1>1, <1>2, <1>3, <1>6
<1>7. CASE st = "START" /\ r.state # "DOWN"
  <2>1. proto_notify_state(r, st) = With(d, [c \in Channels[p] |-> Paused(r.channels[c])])
    BY <1>1, <1>3, <1>7, ChannelOps, Zenon
  <2> QED
    BY <1>1, <1>4, <1>7, <2>1, WithType
<1> QED
  BY <1>5, <1>6, <1>7

(* An instance begins to shut down, in one step or two.                    *)
LEMMA StopFields ==
  ASSUME NEW p \in Protos, NEW r \in Instance(p), NEW st \in {"STOP", "DOWN"},
         r.state \in {"START", "UP"},
         NEW n, n = proto_notify_state(r, st)
  PROVE  /\ n \in Instance(p) /\ n.state = st
         /\ (n.exists <=> r.exists) /\ (n.disabled <=> r.disabled)
         /\ (n.reconfiguring <=> r.reconfiguring) /\ n.cf_new = r.cf_new
         /\ n.down_sched = "NONE" /\ ~n.gr_recovery
         /\ (n.active <=> r.active) /\ n.event
         /\ \A c \in Channels[p] : n.channels[c] = Stopped(r.channels[c])
<1> DEFINE s == [r EXCEPT !.state = st, !.down_sched = "NONE", !.gr_recovery = FALSE,
                          !.event = TRUE]
           t == With(s, [c \in Channels[p] |-> Stopped(r.channels[c])])
<1>1. /\ s \in Instance(p) /\ s.state = st /\ s.channels = r.channels
      /\ (s.exists <=> r.exists) /\ (s.disabled <=> r.disabled)
      /\ (s.reconfiguring <=> r.reconfiguring) /\ s.cf_new = r.cf_new
      /\ s.down_sched = "NONE" /\ s.gr_recovery = FALSE
      /\ (s.active <=> r.active) /\ s.event = TRUE
  BY Zenon DEF Instance, ProtoStates
<1>2. r.channels \in [Channels[p] -> Channel]
  BY DEF Instance
<1>3. proto_do_stop([r EXCEPT !.state = st]) = proto_stop_channels(s)
  BY DEF proto_do_stop, Instance
<1> HIDE DEF s
<1>4. proto_stop_channels(s) = t
  BY <1>1, ChannelOps, Zenon
<1>5. [c \in Channels[p] |-> Stopped(r.channels[c])] \in [Channels[p] -> Channel]
  BY <1>2, ChannelOpsType
<1>6. /\ t \in Instance(p) /\ t.state = st
      /\ (t.exists <=> r.exists) /\ (t.disabled <=> r.disabled)
      /\ (t.reconfiguring <=> r.reconfiguring) /\ t.cf_new = r.cf_new
      /\ t.down_sched = "NONE" /\ t.gr_recovery = FALSE
      /\ (t.active <=> r.active) /\ t.event = TRUE
      /\ t.channels = [c \in Channels[p] |-> Stopped(r.channels[c])]
  BY <1>1, <1>5, WithType
<1>7. proto_notify_state(r, st) = IF st = "STOP" THEN t ELSE proto_do_down(t)
  BY <1>3, <1>4 DEF proto_notify_state
<1> HIDE DEF t
<1>8. proto_do_down(t) = t
  BY <1>6 DEF proto_do_down, Instance
<1> QED
  BY <1>6, <1>7, <1>8

(* An instance that was shutting down is down.                             *)
LEMMA DownFields ==
  ASSUME NEW p \in Protos, NEW r \in Instance(p), r.state = "STOP",
         NEW n, n = proto_notify_state(r, "DOWN")
  PROVE  /\ n \in Instance(p) /\ n.state = "DOWN"
         /\ (n.exists <=> r.exists) /\ (n.disabled <=> r.disabled)
         /\ (n.reconfiguring <=> r.reconfiguring) /\ n.cf_new = r.cf_new
         /\ n.down_sched = r.down_sched /\ (n.gr_recovery <=> r.gr_recovery)
         /\ (n.active <=> r.active) /\ n.channels = r.channels
         /\ proto_is_done(n) => n.event
<1> DEFINE s == [r EXCEPT !.state = "DOWN"]
<1>1. /\ s \in Instance(p) /\ s.state = "DOWN" /\ s.channels = r.channels
      /\ (s.exists <=> r.exists) /\ (s.disabled <=> r.disabled)
      /\ (s.reconfiguring <=> r.reconfiguring) /\ s.cf_new = r.cf_new
      /\ s.down_sched = r.down_sched /\ (s.gr_recovery <=> r.gr_recovery)
      /\ (s.active <=> r.active)
  BY DEF Instance, ProtoStates
<1> DEFINE e == s.event \/ proto_is_done(s)
<1>2. n = [s EXCEPT !.event = e] /\ e \in BOOLEAN
  BY DEF proto_notify_state, proto_do_down
<1>3. proto_is_done(s) => e
  OBVIOUS
<1> HIDE DEF e, s
<1>4. /\ n \in Instance(p) /\ n.state = "DOWN"
      /\ (n.exists <=> r.exists) /\ (n.disabled <=> r.disabled)
      /\ (n.reconfiguring <=> r.reconfiguring) /\ n.cf_new = r.cf_new
      /\ n.down_sched = r.down_sched /\ (n.gr_recovery <=> r.gr_recovery)
      /\ (n.active <=> r.active) /\ n.channels = r.channels /\ (n.event <=> e)
  BY <1>1, <1>2 DEF Instance
<1>5. proto_is_done(n) => proto_is_done(s)
  BY <1>1, <1>4 DEF proto_is_done, active_channels
<1> QED
  BY <1>3, <1>4, <1>5

----------------------------------------------------------------------------
(* What holds of every instance, whatever the sessions are like.           *)
ChanOK(r, x) ==
    /\ x.state = "UP" => ~x.disabled /\ r.state = "UP"
    /\ x.state = "FLUSHING" => r.state \in {"STOP", "DOWN"}
    /\ x.state # "DOWN" => r.active

Base(p, r) ==
    /\ r \in Instance(p)
    /\ r.down_sched # "NONE" => r.state \in {"START", "UP"}
    /\ r.state # "DOWN" => r.active
    /\ r.active /\ proto_is_done(r) => r.event
    /\ ~r.exists => r = NoProto(p)
    /\ \A c \in Channels[p] : ChanOK(r, r.channels[c])

Allowed(old, new) ==
    \/ old = new
    \/ old = "DOWN" /\ new \in {"START", "UP"}
    \/ old = "START" /\ new \in {"UP", "FLUSHING"}
    \/ old = "UP" /\ new \in {"START", "FLUSHING"}
    \/ old = "FLUSHING" /\ new = "DOWN"

Moves(p, r, s) ==
    \A c \in Channels[p] : Allowed(r.channels[c].state, s.channels[c].state)

(* proto_notify_state(): a protocol that starts or comes up keeps the      *)
(* invariant.                                                              *)
LEMMA RunBase ==
  ASSUME NEW p \in Protos, NEW r, Base(p, r), r.exists,
         NEW st \in {"START", "UP"}, st # r.state,
         r.state # "STOP", r.state = "DOWN" => ~r.active
  PROVE  LET n == proto_notify_state(r, st) IN Base(p, n) /\ Moves(p, r, n)
<1> DEFINE n == proto_notify_state(r, st)
<1>1. r \in Instance(p)
  BY DEF Base
<1>2. /\ n \in Instance(p) /\ n.state = st
      /\ (n.exists <=> r.exists) /\ n.down_sched = r.down_sched
      /\ n.active <=> r.active \/ r.state = "DOWN"
      /\ \A c \in Channels[p] :
             n.channels[c] = IF st = "UP" THEN Started(r.channels[c])
                             ELSE IF r.state = "DOWN" THEN r.channels[c]
                             ELSE Paused(r.channels[c])
  BY <1>1, RunFields
<1> HIDE DEF n
<1>3. r.state \in ProtoStates
  BY <1>1 DEF Instance
<1>4. n.active
  BY <1>2, <1>3, Zenon DEF Base
<1>5. ASSUME NEW c \in Channels[p]
      PROVE  ChanOK(n, n.channels[c]) /\ Allowed(r.channels[c].state, n.channels[c].state)
  <2> DEFINE x == r.channels[c]
  <2>1. x \in Channel /\ ChanOK(r, x)
    BY <1>1 DEF Base, Instance
  <2>2. n.channels[c] = IF st = "UP" THEN Started(x)
                        ELSE IF r.state = "DOWN" THEN x ELSE Paused(x)
    BY <1>2
  <2> HIDE DEF x
  <2>3. x.state \in {"DOWN", "START", "UP"} /\ (r.state = "DOWN" => x.state = "DOWN")
    BY <2>1, <1>3 DEF ChanOK, Channel
  <2>4. /\ Started(x).disabled = x.disabled
        /\ ~x.disabled => Started(x).state = "UP"
        /\ x.disabled => Started(x).state = x.state
        /\ Paused(x).disabled = x.disabled
        /\ ~x.disabled /\ x.state = "UP" => Paused(x).state = "START"
        /\ x.disabled \/ x.state # "UP" => Paused(x).state = x.state
    BY <2>1, SetState DEF Started, Paused, ChannelStates
  <2> QED
    BY <1>2, <1>4, <2>1, <2>2, <2>3, <2>4 DEF ChanOK, Allowed, x
<1>6. Base(p, n)
  BY <1>2, <1>4, <1>5 DEF Base, proto_is_done
<1> QED
  BY <1>5, <1>6 DEF Moves, n

(* So does one that stops or goes down,                                    *)
LEMMA StopBase ==
  ASSUME NEW p \in Protos, NEW r, Base(p, r), r.exists,
         NEW st \in {"STOP", "DOWN"}, r.state \in {"START", "UP"}
  PROVE  LET n == proto_notify_state(r, st) IN Base(p, n) /\ Moves(p, r, n)
<1> DEFINE n == proto_notify_state(r, st)
<1>1. r \in Instance(p) /\ r.active
  BY DEF Base
<1>2. /\ n \in Instance(p) /\ n.state = st /\ (n.exists <=> r.exists)
      /\ n.down_sched = "NONE" /\ (n.active <=> r.active) /\ n.event
      /\ \A c \in Channels[p] : n.channels[c] = Stopped(r.channels[c])
  BY <1>1, StopFields
<1> HIDE DEF n
<1>3. ASSUME NEW c \in Channels[p]
      PROVE  ChanOK(n, n.channels[c]) /\ Allowed(r.channels[c].state, n.channels[c].state)
  <2> DEFINE x == r.channels[c]
  <2>1. x \in Channel /\ ChanOK(r, x)
    BY <1>1 DEF Base, Instance
  <2>2. n.channels[c] = Stopped(x)
    BY <1>2
  <2> HIDE DEF x
  <2>3. /\ ~x.disabled /\ x.state \in {"START", "UP"} => Stopped(x).state = "FLUSHING"
        /\ x.disabled \/ x.state \notin {"START", "UP"} => Stopped(x) = x
    BY <2>1, SetState DEF Stopped, channel_is_active, ChannelStates
  <2> QED
    BY <1>1, <1>2, <2>1, <2>2, <2>3 DEF ChanOK, Allowed, x
<1>4. Base(p, n)
  BY <1>1, <1>2, <1>3 DEF Base
<1> QED
  BY <1>3, <1>4 DEF Moves, n

(* and one that has stopped.                                               *)
LEMMA DownBase ==
  ASSUME NEW p \in Protos, NEW r, Base(p, r), r.exists, r.state = "STOP"
  PROVE  LET n == proto_notify_state(r, "DOWN") IN Base(p, n) /\ Moves(p, r, n)
<1> DEFINE n == proto_notify_state(r, "DOWN")
<1>1. r \in Instance(p) /\ r.active
  BY DEF Base
<1>2. /\ n \in Instance(p) /\ n.state = "DOWN" /\ (n.exists <=> r.exists)
      /\ n.down_sched = r.down_sched /\ (n.active <=> r.active)
      /\ n.channels = r.channels /\ (proto_is_done(n) => n.event)
  BY <1>1, DownFields
<1> HIDE DEF n
<1>3. \A c \in Channels[p] :
          ChanOK(n, n.channels[c]) /\ Allowed(r.channels[c].state, n.channels[c].state)
  BY <1>1, <1>2 DEF Base, ChanOK, Allowed
<1>4. Base(p, n)
  BY <1>1, <1>2, <1>3 DEF Base
<1> QED
  BY <1>3, <1>4 DEF Moves, n

(* Steps that leave the states alone.                                      *)
LEMMA SameStates ==
  ASSUME NEW p \in Protos, NEW r, Base(p, r), NEW s \in Instance(p), s.exists,
         s.state = r.state, s.active <=> r.active, s.event <=> r.event,
         s.down_sched # "NONE" => s.state \in {"START", "UP"},
         \A c \in Channels[p] :
             /\ s.channels[c].state = r.channels[c].state
             /\ s.channels[c].disabled => r.channels[c].disabled \/ r.state # "UP"
  PROVE  Base(p, s) /\ Moves(p, r, s)
<1>1. r \in Instance(p) /\ DOMAIN r.channels = Channels[p] /\ DOMAIN s.channels = Channels[p]
  BY DEF Base, Instance
<1>2. proto_is_done(s) => proto_is_done(r)
  BY <1>1 DEF proto_is_done, active_channels
<1>3. \A c \in Channels[p] : ChanOK(s, s.channels[c])
  BY DEF Base, ChanOK
<1>4. Base(p, s)
  BY <1>2, <1>3 DEF Base
<1> QED
  BY <1>4 DEF Moves, Allowed

(* The fields of a new instance, or of none.                               *)
LEMMA InitFields ==
  ASSUME NEW p \in Protos, NEW off \in BOOLEAN, NEW n,
         n = proto_init(p, off) \/ n = NoProto(p)
  PROVE  /\ n \in Instance(p) /\ n.state = "DOWN" /\ ~n.active /\ ~n.reconfiguring
         /\ ~n.gr_recovery /\ n.down_sched = "NONE" /\ ~n.event
         /\ n.exists \/ n = NoProto(p)
         /\ n = proto_init(p, off) => n.exists
         /\ \A c \in Channels[p] : n.channels[c] = NewChannel
<1> DEFINE chans == [c \in Channels[p] |-> NewChannel]
<1>1. NewChannel \in Channel /\ chans \in [Channels[p] -> Channel]
  BY DEF NewChannel, Channel
<1>2. \A c \in Channels[p] : chans[c] = NewChannel
  OBVIOUS
<1> HIDE DEF chans
<1>3. CASE n = proto_init(p, off)
  <2>1. n = [exists |-> TRUE, state |-> "DOWN", active |-> FALSE, disabled |-> off,
             reconfiguring |-> FALSE, cf_new |-> "NONE", down_sched |-> "NONE",
             gr_recovery |-> FALSE, event |-> FALSE, channels |-> chans]
    BY <1>3 DEF proto_init, chans
  <2> QED
    BY <1>1, <1>2, <1>3, <2>1 DEF Instance, ProtoStates
<1>4. CASE n = NoProto(p)
  <2> DEFINE q == proto_init(p, FALSE)
  <2>1. q = [exists |-> TRUE, state |-> "DOWN", active |-> FALSE, disabled |-> FALSE,
             reconfiguring |-> FALSE, cf_new |-> "NONE", down_sched |-> "NONE",
             gr_recovery |-> FALSE, event |-> FALSE, channels |-> chans]
    BY DEF proto_init, chans
  <2>2. n = [q EXCEPT !.exists = FALSE]
    BY <1>4 DEF NoProto
  <2> HIDE DEF q
  <2>3. /\ q \in Instance(p) /\ q.state = "DOWN" /\ ~q.active /\ ~q.reconfiguring
        /\ ~q.gr_recovery /\ q.down_sched = "NONE" /\ ~q.event /\ q.channels = chans
    BY <1>1, <2>1 DEF Instance, ProtoStates
  <2>4. proto_init(p, off).exists
    BY DEF proto_init
  <2> QED
    BY <1>2, <1>4, <2>2, <2>3, <2>4, ZenonT(30) DEF Instance
<1> QED
  BY <1>3, <1>4

(* A new instance satisfies the invariant.                                 *)
LEMMA InitBase ==
  ASSUME NEW p \in Protos, NEW off \in BOOLEAN
  PROVE  Base(p, proto_init(p, off)) /\ Base(p, NoProto(p))
<1>1. NewChannel.state = "DOWN"
  BY DEF NewChannel
<1>2. Base(p, proto_init(p, off))
  BY <1>1, InitFields DEF Base, ChanOK
<1>3. Base(p, NoProto(p))
  BY <1>1, InitFields DEF Base, ChanOK
<1> QED
  BY <1>2, <1>3

(* What proto_start() does before the instance changes its state.          *)
StartRecovery(p, r) ==
    LET recovery == graceful_restart_state = "INIT"
    IN  [r EXCEPT !.gr_recovery = @ \/ recovery,
                  !.channels = [c \in Channels[p] |-> [r.channels[c] EXCEPT
                                   !.gr_lock = @ \/ (recovery /\ p \in Bgp),
                                   !.gr_wait = @ \/ (recovery /\ p \in Krt)]]]

(* What the recovery from a restart adds to an instance that starts.       *)
LEMMA StartFields ==
  ASSUME NEW p \in Protos, NEW r \in Instance(p), NEW s, s = StartRecovery(p, r)
  PROVE  /\ s \in Instance(p) /\ s.state = r.state
         /\ (s.exists <=> r.exists) /\ (s.disabled <=> r.disabled)
         /\ (s.reconfiguring <=> r.reconfiguring) /\ s.cf_new = r.cf_new
         /\ s.down_sched = r.down_sched /\ (s.active <=> r.active) /\ (s.event <=> r.event)
         /\ s.gr_recovery <=> r.gr_recovery \/ graceful_restart_state = "INIT"
         /\ \A c \in Channels[p] :
                /\ s.channels[c].state = r.channels[c].state
                /\ (s.channels[c].disabled <=> r.channels[c].disabled)
                /\ (s.channels[c].export <=> r.channels[c].export)
                /\ (s.channels[c].gr_lock <=> r.channels[c].gr_lock
                                              \/ (graceful_restart_state = "INIT" /\ p \in Bgp))
                /\ (s.channels[c].gr_wait <=> r.channels[c].gr_wait
                                              \/ (graceful_restart_state = "INIT" /\ p \in Krt))
<1> DEFINE lock(c) == r.channels[c].gr_lock \/ (graceful_restart_state = "INIT" /\ p \in Bgp)
           wait(c) == r.channels[c].gr_wait \/ (graceful_restart_state = "INIT" /\ p \in Krt)
           chans   == [c \in Channels[p] |->
                          [r.channels[c] EXCEPT !.gr_lock = lock(c), !.gr_wait = wait(c)]]
           rec     == r.gr_recovery \/ graceful_restart_state = "INIT"
<1>1. s = [r EXCEPT !.gr_recovery = rec, !.channels = chans]
  BY DEF StartRecovery
<1>2. rec \in BOOLEAN /\ \A c \in Channels[p] : lock(c) \in BOOLEAN /\ wait(c) \in BOOLEAN
  OBVIOUS
<1> HIDE DEF lock, wait, rec
<1>3. ASSUME NEW c \in Channels[p]
      PROVE  /\ chans[c] \in Channel /\ chans[c].state = r.channels[c].state
             /\ (chans[c].disabled <=> r.channels[c].disabled)
             /\ (chans[c].export <=> r.channels[c].export)
             /\ (chans[c].gr_lock <=> lock(c)) /\ (chans[c].gr_wait <=> wait(c))
  <2>1. r.channels[c] \in Channel
    BY DEF Instance
  <2> QED
    BY <1>2, <2>1, Zenon DEF Channel
<1>4. chans \in [Channels[p] -> Channel]
  BY <1>3, Zenon
<1> HIDE DEF chans
<1>5. /\ s \in Instance(p) /\ s.state = r.state /\ s.channels = chans
      /\ (s.exists <=> r.exists) /\ (s.disabled <=> r.disabled)
      /\ (s.reconfiguring <=> r.reconfiguring) /\ s.cf_new = r.cf_new
      /\ s.down_sched = r.down_sched /\ (s.active <=> r.active) /\ (s.event <=> r.event)
      /\ (s.gr_recovery <=> rec)
  BY <1>1, <1>2, <1>4, Zenon DEF Instance
<1>6. s.gr_recovery <=> r.gr_recovery \/ graceful_restart_state = "INIT"
  BY <1>5 DEF rec
<1>7. ASSUME NEW c \in Channels[p]
      PROVE  /\ s.channels[c].state = r.channels[c].state
             /\ (s.channels[c].disabled <=> r.channels[c].disabled)
             /\ (s.channels[c].export <=> r.channels[c].export)
             /\ (s.channels[c].gr_lock <=> r.channels[c].gr_lock
                                           \/ (graceful_restart_state = "INIT" /\ p \in Bgp))
             /\ (s.channels[c].gr_wait <=> r.channels[c].gr_wait
                                           \/ (graceful_restart_state = "INIT" /\ p \in Krt))
  <2>1. s.channels[c] = chans[c]
    BY <1>5
  <2>2. lock(c) <=> r.channels[c].gr_lock \/ (graceful_restart_state = "INIT" /\ p \in Bgp)
    BY DEF lock
  <2>3. wait(c) <=> r.channels[c].gr_wait \/ (graceful_restart_state = "INIT" /\ p \in Krt)
    BY DEF wait
  <2> QED
    BY <1>3, <2>1, <2>2, <2>3
<1> QED
  BY <1>5, <1>6, <1>7

(* The state a protocol starts in.                                         *)
LEMMA StartIs ==
  ASSUME NEW p, NEW r
  PROVE  Start(p, r) =
             proto_notify_state(StartRecovery(p, r), IF p \in Bgp THEN "START" ELSE "UP")
  BY DEF Start, StartRecovery

(* Transitions are about the states of channels only.                      *)
LEMMA MovesSame ==
  ASSUME NEW p \in Protos, NEW r, NEW s, NEW t, Moves(p, s, t),
         \A c \in Channels[p] : s.channels[c].state = r.channels[c].state
  PROVE  Moves(p, r, t)
  BY DEF Moves

(* Channels that stay make no transition.                                  *)
LEMMA MovesRefl ==
  ASSUME NEW p \in Protos, NEW r PROVE Moves(p, r, r)
  BY DEF Moves, Allowed

(* proto_rethink_goal() starts an instance only when it is down entirely.  *)
LEMMA GoalBase ==
  ASSUME NEW p \in Protos, NEW r, Base(p, r)
  PROVE  Base(p, Goal(p, r)) /\ Moves(p, r, Goal(p, r))
<1>1. CASE Goal(p, r) = r
  BY <1>1, MovesRefl
<1>2. CASE r.exists /\ r.state \in {"START", "UP"} /\ Goal(p, r) = Shutdown(p, r)
  BY <1>2, StopBase DEF Shutdown
<1>3. CASE r.exists /\ ~r.active /\ Goal(p, r) = Start(p, r)
  <2> DEFINE s == StartRecovery(p, r)
             st == IF p \in Bgp THEN "START" ELSE "UP"
  <2>1. r \in Instance(p) /\ r.state = "DOWN"
    BY <1>3 DEF Base
  <2>2. /\ s \in Instance(p) /\ s.state = r.state /\ (s.exists <=> r.exists)
        /\ s.down_sched = r.down_sched /\ (s.active <=> r.active) /\ (s.event <=> r.event)
        /\ \A c \in Channels[p] :
               /\ s.channels[c].state = r.channels[c].state
               /\ (s.channels[c].disabled <=> r.channels[c].disabled)
    BY <2>1, StartFields
  <2> HIDE DEF s
  <2>3. Base(p, s)
    BY <1>3, <2>1, <2>2, SameStates DEF Base
  <2>4. Goal(p, r) = proto_notify_state(s, st) /\ st \in {"START", "UP"}
    BY <1>3, StartIs DEF s
  <2> HIDE DEF st
  <2>5. Base(p, Goal(p, r)) /\ Moves(p, s, Goal(p, r))
    BY <1>3, <2>1, <2>2, <2>3, <2>4, RunBase
  <2> QED
    BY <2>2, <2>5, MovesSame
<1> QED
  BY <1>1, <1>2, <1>3 DEF Goal

(* A new configuration of an instance that is down keeps the invariant.    *)
LEMMA RenewBase ==
  ASSUME NEW p \in Protos, NEW r, Base(p, r)
  PROVE  /\ Base(p, Renew(p, r))
         /\ \A c \in Channels[p] : Renew(p, r).channels[c].state = r.channels[c].state
<1>1. CASE ~(r.reconfiguring /\ ~r.active)
  BY <1>1 DEF Renew
<1>2. CASE r.reconfiguring /\ ~r.active
  <2>1. PICK off \in BOOLEAN : Renew(p, r) = NoProto(p) \/ Renew(p, r) = proto_init(p, off)
    BY <1>2, Zenon DEF Renew
  <2>2. \A c \in Channels[p] : Renew(p, r).channels[c] = NewChannel
    BY <2>1, InitFields
  <2>3. \A c \in Channels[p] : r.channels[c].state = "DOWN"
    BY <1>2 DEF Base, ChanOK
  <2> QED
    BY <2>1, <2>2, <2>3, InitBase DEF NewChannel
<1> QED
  BY <1>1, <1>2

(* Setting the flag `disabled' of an instance that exists.                 *)
LEMMA DisabledBase ==
  ASSUME NEW p \in Protos, NEW r, Base(p, r), r.exists, NEW off \in BOOLEAN
  PROVE  LET s == [r EXCEPT !.disabled = off]
         IN  Base(p, s) /\ s.exists /\ s.channels = r.channels
             /\ s.state = r.state /\ (s.active <=> r.active) /\ (s.disabled <=> off)
<1> DEFINE s == [r EXCEPT !.disabled = off]
<1>1. r \in Instance(p)
  BY DEF Base
<1>2. /\ s \in Instance(p) /\ s.exists /\ s.state = r.state /\ (s.active <=> r.active)
      /\ (s.event <=> r.event) /\ s.down_sched = r.down_sched /\ s.channels = r.channels
      /\ (s.disabled <=> off)
  BY <1>1 DEF Instance
<1> HIDE DEF s
<1>3. Base(p, s)
  BY <1>2, SameStates DEF Base
<1> QED
  BY <1>2, <1>3 DEF s

(* proto_rethink_goal() after a command to restart keeps the invariant.    *)
LEMMA RestartBase ==
  ASSUME NEW p \in Protos, NEW r, Base(p, r), r.exists
  PROVE  Base(p, RestartGoal(p, r)) /\ Moves(p, r, RestartGoal(p, r))
<1> DEFINE a == [r EXCEPT !.disabled = TRUE]
           b == Goal(p, a)
           d == [b EXCEPT !.disabled = FALSE]
<1>1. RestartGoal(p, r) = Goal(p, d)
  BY DEF RestartGoal
<1>2. /\ Base(p, a) /\ a.exists /\ a.channels = r.channels /\ a.state = r.state
      /\ a.disabled
  BY DisabledBase, Zenon
<1> HIDE DEF a
<1>3. Base(p, b) /\ Moves(p, a, b)
  BY <1>2, GoalBase
<1>4. CASE r.state \in {"START", "UP"}
  <2> DEFINE st == IF p \in Bgp THEN "STOP" ELSE "DOWN"
  <2>1. b = proto_notify_state(a, st)
    BY <1>2, <1>4 DEF Goal, Shutdown
  <2>2. a \in Instance(p) /\ a.active /\ st \in {"STOP", "DOWN"}
    BY <1>2, <1>4 DEF Base
  <2> HIDE DEF b, st
  <2>3. b.exists /\ b.active /\ b.state = st
    BY <1>2, <1>4, <2>1, <2>2, StopFields
  <2>4. /\ Base(p, d) /\ d.exists /\ d.channels = b.channels /\ d.state = b.state
        /\ (d.active <=> b.active)
    BY <1>3, <2>3, DisabledBase, Zenon
  <2> HIDE DEF d
  <2>5. Goal(p, d) = d
    BY <2>2, <2>3, <2>4 DEF Goal
  <2> QED
    BY <1>1, <1>2, <1>3, <2>4, <2>5 DEF Moves
<1>5. CASE r.state \notin {"START", "UP"}
  <2>1. b = a
    BY <1>2, <1>5 DEF Goal
  <2>2. Base(p, d) /\ d.exists /\ d.channels = b.channels
    BY <1>2, <2>1, DisabledBase, Zenon
  <2> HIDE DEF d, b
  <2> QED
    BY <1>1, <1>2, <2>1, <2>2, GoalBase, MovesSame
<1> QED
  BY <1>4, <1>5

----------------------------------------------------------------------------
(* Every step, for all instances together.                                 *)
Shape == proto = [p \in Protos |-> proto[p]]

BInv == Shape /\ \A p \in Protos : Base(p, proto[p])

StepOK == BInv' /\ \A p \in Protos : Moves(p, proto[p], proto'[p])

(* It is enough to look at the protocol that changes.                      *)
LEMMA OneStep ==
  ASSUME BInv, NEW p \in Protos, NEW r, Base(p, r), Moves(p, proto[p], r),
         proto' = [proto EXCEPT ![p] = r]
  PROVE  StepOK
<1>1. proto' = [q \in Protos |-> IF q = p THEN r ELSE proto[q]]
  BY DEF BInv, Shape
<1> QED
  BY <1>1, MovesRefl DEF BInv, Shape, StepOK

(* graceful_restart_done() for one instance                                *)
LEMMA DoneFields ==
  ASSUME NEW p \in Protos, NEW r \in Instance(p), r.gr_recovery, NEW n, n = DoneFor(r)
  PROVE  /\ n \in Instance(p) /\ n.state = r.state
         /\ (n.exists <=> r.exists) /\ (n.active <=> r.active) /\ (n.event <=> r.event)
         /\ n.down_sched = r.down_sched /\ ~n.gr_recovery
         /\ \A c \in Channels[p] :
                /\ n.channels[c].state = r.channels[c].state
                /\ (n.channels[c].disabled <=> r.channels[c].disabled)
                /\ (n.channels[c].export <=> r.channels[c].export
                                 \/ (r.channels[c].state = "UP" /\ r.channels[c].gr_wait))
                /\ ~n.channels[c].gr_wait /\ ~n.channels[c].gr_lock
<1> DEFINE exp(c) == r.channels[c].export \/ (r.channels[c].state = "UP" /\ r.channels[c].gr_wait)
           chans == [c \in Channels[p] |-> [r.channels[c] EXCEPT
                        !.export = exp(c), !.gr_wait = FALSE, !.gr_lock = FALSE]]
<1>1. DOMAIN r.channels = Channels[p]
  BY DEF Instance
<1>2. n = [r EXCEPT !.gr_recovery = FALSE, !.channels = chans]
  BY <1>1 DEF DoneFor
<1>3. \A c \in Channels[p] : exp(c) \in BOOLEAN
  OBVIOUS
<1>4. \A c \in Channels[p] : exp(c) <=> r.channels[c].export
                                  \/ (r.channels[c].state = "UP" /\ r.channels[c].gr_wait)
  OBVIOUS
<1> HIDE DEF exp
<1>5. ASSUME NEW c \in Channels[p]
      PROVE  /\ chans[c] \in Channel /\ chans[c].state = r.channels[c].state
             /\ (chans[c].disabled <=> r.channels[c].disabled) /\ (chans[c].export <=> exp(c))
             /\ ~chans[c].gr_wait /\ ~chans[c].gr_lock
  <2>1. r.channels[c] \in Channel
    BY DEF Instance
  <2> QED
    BY <1>3, <2>1, Zenon DEF Channel
<1>6. chans \in [Channels[p] -> Channel]
  BY <1>5, Zenon
<1> HIDE DEF chans
<1>7. /\ n \in Instance(p) /\ n.state = r.state /\ n.channels = chans
      /\ (n.exists <=> r.exists) /\ (n.active <=> r.active) /\ (n.event <=> r.event)
      /\ n.down_sched = r.down_sched /\ ~n.gr_recovery
  BY <1>2, <1>6, Zenon DEF Instance
<1> QED
  BY <1>4, <1>5, <1>7

(* The end of the recovery keeps the invariant of an instance.             *)
LEMMA DoneBase ==
  ASSUME NEW p \in Protos, NEW r, Base(p, r)
  PROVE  /\ Base(p, DoneFor(r)) /\ Moves(p, r, DoneFor(r))
         /\ \A c \in Channels[p] : DoneFor(r).channels[c].state = r.channels[c].state
<1>1. CASE ~r.gr_recovery
  BY <1>1, MovesRefl, Zenon DEF DoneFor
<1>2. CASE r.gr_recovery
  <2>1. r \in Instance(p) /\ r.exists
    BY <1>2, InitFields, Zenon DEF Base
  <2>2. /\ DoneFor(r) \in Instance(p) /\ DoneFor(r).state = r.state
        /\ DoneFor(r).exists /\ (DoneFor(r).active <=> r.active)
        /\ (DoneFor(r).event <=> r.event) /\ DoneFor(r).down_sched = r.down_sched
        /\ \A c \in Channels[p] :
               /\ DoneFor(r).channels[c].state = r.channels[c].state
               /\ (DoneFor(r).channels[c].disabled <=> r.channels[c].disabled)
    BY <1>2, <2>1, DoneFields
  <2> QED
    BY <2>1, <2>2, SameStates DEF Base
<1> QED
  BY <1>1, <1>2

(* What the invariant says of a protocol that does not exist.              *)
LEMMA NotExisting ==
  ASSUME NEW p \in Protos, NEW r, Base(p, r), ~r.exists
  PROVE  /\ r = NoProto(p) /\ ~r.gr_recovery /\ ~r.active /\ ~r.reconfiguring /\ ~r.event
         /\ r.state = "DOWN" /\ r.down_sched = "NONE"
         /\ \A c \in Channels[p] : r.channels[c] = NewChannel
  BY InitFields, Zenon DEF Base

(* The first configuration keeps the invariant.                            *)
LEMMA BootStep ==
  ASSUME BInv, NEW on \in SUBSET Protos, NEW off \in SUBSET Protos, Boot(on, off)
  PROVE  StepOK
<1> DEFINE booted == [p \in Protos |->
               IF p \in on \union off THEN Goal(p, proto_init(p, p \in off)) ELSE NoProto(p)]
<1>1. ASSUME NEW p \in Protos
      PROVE  Base(p, booted[p]) /\ Moves(p, proto[p], booted[p])
  <2>1. \A c \in Channels[p] : proto[p].channels[c] = NewChannel
    BY NotExisting DEF Boot, BInv
  <2>2. CASE p \in on \union off
    <3>1. booted[p] = Goal(p, proto_init(p, p \in off)) /\ (p \in off) \in BOOLEAN
      BY <2>2
    <3>2. /\ Base(p, proto_init(p, p \in off))
          /\ \A c \in Channels[p] : proto_init(p, p \in off).channels[c] = NewChannel
      BY <3>1, InitFields, InitBase, Zenon
    <3> QED
      BY <2>1, <3>1, <3>2, GoalBase, MovesSame
  <2>3. CASE p \notin on \union off
    <3>1. booted[p] = NoProto(p) /\ FALSE \in BOOLEAN
      BY <2>3
    <3>2. Base(p, NoProto(p)) /\ \A c \in Channels[p] : NoProto(p).channels[c] = NewChannel
      BY <3>1, InitFields, InitBase, Zenon
    <3> QED
      BY <2>1, <3>1, <3>2 DEF Moves, Allowed
  <2> QED
    BY <2>2, <2>3
<1>2. proto' = booted \/ proto' = [p \in Protos |-> DoneFor(booted[p])]
  BY DEF Boot
<1> HIDE DEF booted
<1>3. ASSUME NEW p \in Protos
      PROVE  Base(p, DoneFor(booted[p])) /\ Moves(p, proto[p], DoneFor(booted[p]))
  BY <1>1, DoneBase DEF Moves
<1>4. booted = [p \in Protos |-> booted[p]]
  BY DEF booted
<1> QED
  BY <1>1, <1>2, <1>3, <1>4 DEF StepOK, BInv, Shape

(* The end of the recovery keeps it.                                       *)
LEMMA RecoveryDoneStep ==
  ASSUME BInv, graceful_restart_done
  PROVE  StepOK
<1>1. proto' = [p \in Protos |-> DoneFor(proto[p])]
  BY DEF graceful_restart_done
<1>2. ASSUME NEW p \in Protos
      PROVE  Base(p, DoneFor(proto[p])) /\ Moves(p, proto[p], DoneFor(proto[p]))
  BY DoneBase DEF BInv
<1> QED
  BY <1>1, <1>2 DEF StepOK, BInv, Shape

(* A protocol that is disabled or enabled keeps it.                        *)
LEMMA DisableGoal ==
  ASSUME NEW p \in Protos, NEW r, Base(p, r), r.exists, NEW off \in BOOLEAN, NEW n,
         n = Goal(p, [r EXCEPT !.disabled = off])
  PROVE  Base(p, n) /\ Moves(p, r, n)
<1> DEFINE s == [r EXCEPT !.disabled = off]
<1>1. Base(p, s) /\ s.channels = r.channels /\ n = Goal(p, s)
  BY DisabledBase
<1> HIDE DEF s
<1> QED
  BY <1>1, GoalBase, MovesSame

(* The shutdown of the daemon keeps it.                                    *)
LEMMA ShutdownLoopStep ==
  ASSUME BInv, proto_shutdown_loop
  PROVE  StepOK
<1> DEFINE F(p) == IF proto[p].down_sched = "NONE" THEN proto[p]
                   ELSE IF proto[p].down_sched = "DISABLE"
                   THEN Goal(p, [proto[p] EXCEPT !.disabled = TRUE])
                   ELSE RestartGoal(p, proto[p])
<1>1. proto' = [p \in Protos |-> F(p)]
  BY DEF proto_shutdown_loop, Update
<1>2. ASSUME NEW p \in Protos
      PROVE  Base(p, F(p)) /\ Moves(p, proto[p], F(p))
  <2>1. Base(p, proto[p])
    BY DEF BInv
  <2>2. CASE proto[p].down_sched = "NONE"
    BY <2>1, <2>2, MovesRefl
  <2>3. CASE proto[p].down_sched # "NONE"
    <3>1. proto[p].exists
      BY <2>1, <2>3, NotExisting
    <3> QED
      BY <2>1, <2>3, <3>1, DisableGoal, RestartBase, Zenon
  <2> QED
    BY <2>2, <2>3
<1> HIDE DEF F
<1> QED
  BY <1>1, <1>2 DEF StepOK, BInv, Shape

(* An instance marked for the replacement by a reconfiguration             *)
Marked(r, cf) == [r EXCEPT !.reconfiguring = TRUE, !.cf_new = cf]

(* An instance marked for reconfiguration keeps it.                        *)
LEMMA MarkedBase ==
  ASSUME NEW p \in Protos, NEW r, Base(p, r), r.exists, NEW cf \in {"NONE", "ON", "OFF"}
  PROVE  /\ Base(p, Marked(r, cf)) /\ Marked(r, cf).channels = r.channels
         /\ (Marked(r, cf).gr_recovery <=> r.gr_recovery)
         /\ (Marked(r, cf).active <=> r.active) /\ Marked(r, cf).cf_new = cf
         /\ Marked(r, cf).exists /\ Marked(r, cf).state = r.state
<1> DEFINE n == Marked(r, cf)
<1>1. r \in Instance(p)
  BY DEF Base
<1>2. /\ n \in Instance(p) /\ n.exists /\ n.state = r.state /\ (n.active <=> r.active)
      /\ (n.event <=> r.event) /\ n.down_sched = r.down_sched /\ n.channels = r.channels
      /\ (n.gr_recovery <=> r.gr_recovery) /\ n.cf_new = cf
  BY <1>1, Zenon DEF Instance, Marked
<1> HIDE DEF n
<1>3. Base(p, n)
  BY <1>2, SameStates DEF Base
<1> QED
  BY <1>2, <1>3 DEF n

(* The instances that protos_commit() passes to proto_rethink_goal()       *)
CommitBase(p, on, off, compatible) ==
    IF ~proto[p].exists
    THEN IF p \in on \union off THEN proto_init(p, p \in off) ELSE proto[p]
    ELSE IF /\ p \in on \union off /\ p \in compatible
            /\ proto[p].state # "DOWN" /\ proto[p].disabled = (p \in off)
    THEN proto[p]
    ELSE Renew(p, Marked(proto[p],
                         IF p \in on THEN "ON" ELSE IF p \in off THEN "OFF" ELSE "NONE"))

(* protos_commit(), protocol by protocol.                                  *)
LEMMA CommitIs ==
  ASSUME NEW on, NEW off, NEW compatible, protos_commit(on, off, compatible)
  PROVE  /\ proto' = [p \in Protos |-> proto'[p]]
         /\ \A p \in Protos : proto'[p] = Goal(p, CommitBase(p, on, off, compatible))
         /\ Update([p \in Protos |-> CommitBase(p, on, off, compatible)], proto')
         /\ graceful_restart_state \in {"ACTIVE", "DONE"}
<1> DEFINE base == [p \in Protos |-> CommitBase(p, on, off, compatible)]
<1>1. Update(base, [p \in Protos |-> Goal(p, base[p])])
  BY Zenon DEF protos_commit, CommitBase, Marked
<1>2. [p \in Protos |-> Goal(p, base[p])]
        = [p \in Protos |-> Goal(p, CommitBase(p, on, off, compatible))]
  OBVIOUS
<1> HIDE DEF base
<1>3. proto' = [p \in Protos |-> Goal(p, base[p])]
  BY <1>1 DEF Update
<1> QED
  BY <1>1, <1>2, <1>3, Zenon DEF base, protos_commit

(* What protos_commit() makes of an instance before its goal is looked     *)
(* at.                                                                     *)
LEMMA CommitCases ==
  ASSUME BInv, NEW p \in Protos, NEW on, NEW off, NEW compatible, NEW b,
         b = CommitBase(p, on, off, compatible)
  PROVE  \/ b = proto[p]
         \/ ~proto[p].active /\ \E x \in BOOLEAN : b = proto_init(p, x) \/ b = NoProto(p)
         \/ /\ proto[p].exists
            /\ \E cf \in {"NONE", "ON", "OFF"} :
                   b = Marked(proto[p], cf)
<1>1. Base(p, proto[p]) /\ proto[p] \in Instance(p)
  BY DEF BInv, Base
<1>2. CASE ~proto[p].exists
  <2>1. b = proto[p] \/ b = proto_init(p, p \in off)
    BY <1>2 DEF CommitBase
  <2>2. (p \in off) \in BOOLEAN
    OBVIOUS
  <2> QED
    BY <1>1, <1>2, <2>1, <2>2, NotExisting, Zenon
<1>3. CASE proto[p].exists /\ b # proto[p]
  <2> DEFINE cf == IF p \in on THEN "ON" ELSE IF p \in off THEN "OFF" ELSE "NONE"
             m  == Marked(proto[p], cf)
  <2>1. b = Renew(p, m) /\ cf \in {"NONE", "ON", "OFF"}
    BY <1>3 DEF CommitBase
  <2> HIDE DEF cf
  <2>2. (m.active <=> proto[p].active) /\ m.cf_new = cf
    BY <1>1, <1>3, <2>1, MarkedBase
  <2> HIDE DEF m
  <2>3. CASE m.reconfiguring /\ ~m.active
    <3>1. b = NoProto(p) \/ b = proto_init(p, cf = "OFF")
      BY <2>1, <2>2, <2>3 DEF Renew
    <3>2. (cf = "OFF") \in BOOLEAN
      OBVIOUS
    <3> QED
      BY <2>2, <2>3, <3>1, <3>2, Zenon
  <2>4. CASE ~(m.reconfiguring /\ ~m.active)
    <3>1. b = m
      BY <2>1, <2>4 DEF Renew
    <3> QED
      BY <1>3, <2>1, <3>1 DEF m
  <2> QED
    BY <2>3, <2>4
<1> QED
  BY <1>2, <1>3

(* A reconfiguration keeps the invariant.                                  *)
LEMMA CommitStep ==
  ASSUME BInv, NEW on, NEW off, NEW compatible, protos_commit(on, off, compatible)
  PROVE  StepOK
<1> DEFINE b(p) == CommitBase(p, on, off, compatible)
<1>1. proto' = [p \in Protos |-> proto'[p]] /\ \A p \in Protos : proto'[p] = Goal(p, b(p))
  BY CommitIs, Zenon
<1>2. ASSUME NEW p \in Protos
      PROVE  Base(p, b(p)) /\ \A c \in Channels[p] : b(p).channels[c].state = proto[p].channels[c].state
  <2>1. Base(p, proto[p])
    BY DEF BInv
  <2>2. \/ b(p) = proto[p]
        \/ ~proto[p].active /\ \E x \in BOOLEAN : b(p) = proto_init(p, x) \/ b(p) = NoProto(p)
        \/ /\ proto[p].exists
           /\ \E cf \in {"NONE", "ON", "OFF"} :
                  b(p) = Marked(proto[p], cf)
    BY CommitCases
  <2> HIDE DEF b
  <2>3. CASE b(p) = proto[p]
    BY <2>1, <2>3
  <2>4. ASSUME ~proto[p].active, NEW x \in BOOLEAN, b(p) = proto_init(p, x) \/ b(p) = NoProto(p)
        PROVE  /\ Base(p, b(p))
               /\ \A c \in Channels[p] : b(p).channels[c].state = proto[p].channels[c].state
    <3>1. Base(p, b(p)) /\ \A c \in Channels[p] : b(p).channels[c] = NewChannel
      BY <2>4, InitFields, InitBase, Zenon
    <3>2. \A c \in Channels[p] : proto[p].channels[c].state = "DOWN"
      BY <2>1, <2>4, Zenon DEF Base, ChanOK
    <3> QED
      BY <3>1, <3>2 DEF NewChannel
  <2>5. ASSUME proto[p].exists, NEW cf \in {"NONE", "ON", "OFF"},
               b(p) = Marked(proto[p], cf)
        PROVE  /\ Base(p, b(p))
               /\ \A c \in Channels[p] : b(p).channels[c].state = proto[p].channels[c].state
    BY <2>1, <2>5, MarkedBase
  <2> QED
    BY <2>2, <2>3, <2>4, <2>5
<1> HIDE DEF b
<1>3. ASSUME NEW p \in Protos
      PROVE  Base(p, Goal(p, b(p))) /\ Moves(p, proto[p], Goal(p, b(p)))
  BY <1>2, GoalBase, MovesSame, Zenon
<1> QED
  BY <1>1, <1>3 DEF StepOK, BInv, Shape

(* proto_event(): the instance that is done, and the one that is not       *)
Idle(r) == [[r EXCEPT !.event = FALSE] EXCEPT !.active = FALSE]
Waited(r) == [r EXCEPT !.event = FALSE]

(* The event of an instance that is done, and of one that is not, keeps    *)
(* it.                                                                     *)
LEMMA EventBase ==
  ASSUME NEW p \in Protos, NEW r, Base(p, r), r.exists
  PROVE  /\ Waited(r) \in Instance(p) /\ Waited(r).channels = r.channels
         /\ ~proto_is_done(Waited(r)) => Base(p, Waited(r)) /\ Moves(p, r, Waited(r))
         /\ proto_is_done(Waited(r)) =>
                /\ Base(p, Idle(r)) /\ Idle(r).channels = r.channels /\ ~Idle(r).active
                /\ (Idle(r).gr_recovery <=> r.gr_recovery) /\ r.state = "DOWN"
                /\ Idle(r).exists
<1>1. r \in Instance(p)
  BY DEF Base
<1> DEFINE w == Waited(r)
           i == Idle(r)
<1>2. /\ w \in Instance(p) /\ w.channels = r.channels /\ w.state = r.state /\ w.exists
      /\ (w.active <=> r.active) /\ w.down_sched = r.down_sched
      /\ (w.gr_recovery <=> r.gr_recovery)
  BY <1>1, Zenon DEF Instance, Waited
<1>3. i = [w EXCEPT !.active = FALSE]
  BY DEF Waited, Idle
<1> HIDE DEF w, i
<1>4. /\ i \in Instance(p) /\ i.channels = r.channels /\ i.state = r.state /\ i.exists
      /\ ~i.active /\ i.down_sched = r.down_sched /\ (i.gr_recovery <=> r.gr_recovery)
  BY <1>2, <1>3, Zenon DEF Instance
<1>5. ASSUME ~proto_is_done(w) PROVE Base(p, w) /\ Moves(p, r, w)
  <2>1. \A c \in Channels[p] : ChanOK(w, w.channels[c])
    BY <1>2 DEF Base, ChanOK
  <2> QED
    BY <1>2, <1>5, <2>1 DEF Base, Moves, Allowed
<1>6. ASSUME proto_is_done(w) PROVE Base(p, i) /\ r.state = "DOWN"
  <2>1. r.state = "DOWN" /\ \A c \in Channels[p] : i.channels[c].state = "DOWN"
    BY <1>1, <1>2, <1>4, <1>6 DEF proto_is_done, active_channels, Instance
  <2>2. \A c \in Channels[p] : ChanOK(i, i.channels[c])
    BY <2>1 DEF ChanOK
  <2> QED
    BY <1>4, <2>1, <2>2 DEF Base
<1> QED
  BY <1>2, <1>4, <1>5, <1>6 DEF w, i

(* proto_event(), by whether the instance is done.                         *)
LEMMA EventIs ==
  ASSUME NEW p, proto_event(p)
  PROVE  /\ proto[p].event
         /\ ~proto_is_done(Waited(proto[p])) => UpdateOne(p, Waited(proto[p]))
         /\ proto_is_done(Waited(proto[p])) =>
                Update([proto EXCEPT ![p] = Renew(p, Idle(proto[p]))],
                       [proto EXCEPT ![p] = Goal(p, Renew(p, Idle(proto[p])))])
  BY DEF proto_event, Waited, Idle

(* The event of a protocol keeps the invariant.                            *)
LEMMA EventStep ==
  ASSUME BInv, NEW p \in Protos, proto_event(p)
  PROVE  StepOK
<1> DEFINE r == proto[p]
           n == Renew(p, Idle(r))
<1>1. Base(p, r) /\ r.exists
  BY EventIs, NotExisting, Zenon DEF BInv
<1>2. CASE ~proto_is_done(Waited(r))
  <2>1. proto' = [proto EXCEPT ![p] = Waited(r)]
    BY <1>2, EventIs, Zenon DEF UpdateOne, Update
  <2> QED
    BY <1>1, <1>2, <2>1, EventBase, OneStep, Zenon
<1>3. CASE proto_is_done(Waited(r))
  <2>1. proto' = [proto EXCEPT ![p] = Goal(p, n)]
    BY <1>3, EventIs, Zenon DEF Update
  <2>2. /\ Base(p, n) /\ \A c \in Channels[p] : n.channels[c].state = r.channels[c].state
    BY <1>1, <1>3, EventBase, RenewBase
  <2> HIDE DEF n
  <2>3. Base(p, Goal(p, n)) /\ Moves(p, r, Goal(p, n))
    BY <2>2, GoalBase, MovesSame
  <2> QED
    BY <2>1, <2>3, OneStep, Zenon
<1> QED
  BY <1>2, <1>3

(* channel_set_state(CS_DOWN) of the flushing channel c                    *)
Flushed(r, c) == [r EXCEPT !.channels[c] = channel_set_state(@, "DOWN")]
FlushDone(r, c) == [Flushed(r, c) EXCEPT !.event = @ \/ proto_is_done(Flushed(r, c))]

(* What the end of a flush changes.                                        *)
LEMMA FlushedFields ==
  ASSUME NEW p \in Protos, NEW r, r \in Instance(p), NEW c \in Channels[p], NEW n,
         n = FlushDone(r, c)
  PROVE  /\ n \in Instance(p) /\ n.state = r.state
         /\ (n.exists <=> r.exists) /\ (n.active <=> r.active)
         /\ n.down_sched = r.down_sched /\ (n.gr_recovery <=> r.gr_recovery)
         /\ (proto_is_done(n) => n.event)
         /\ n.channels[c] = channel_set_state(r.channels[c], "DOWN")
         /\ \A d \in Channels[p] \ {c} : n.channels[d] = r.channels[d]
<1> DEFINE f == Flushed(r, c)
           x == channel_set_state(r.channels[c], "DOWN")
           e == f.event \/ proto_is_done(f)
<1>1. r.channels[c] \in Channel /\ DOMAIN r.channels = Channels[p]
  BY DEF Instance
<1>2. x \in Channel
  BY <1>1, SetState DEF ChannelStates
<1>3. f = [r EXCEPT !.channels = [r.channels EXCEPT ![c] = x]]
  BY DEF Flushed, Instance
<1> HIDE DEF x
<1>4. [r.channels EXCEPT ![c] = x] \in [Channels[p] -> Channel]
  BY <1>2 DEF Instance
<1>5. /\ f \in Instance(p) /\ f.state = r.state
      /\ (f.exists <=> r.exists) /\ (f.active <=> r.active)
      /\ f.down_sched = r.down_sched /\ (f.gr_recovery <=> r.gr_recovery)
      /\ f.channels = [r.channels EXCEPT ![c] = x]
  BY <1>3, <1>4 DEF Instance
<1>6. n = [f EXCEPT !.event = e] /\ e \in BOOLEAN
  BY DEF FlushDone
<1>7. proto_is_done(f) => e
  OBVIOUS
<1> HIDE DEF f, e
<1>8. /\ n \in Instance(p) /\ n.state = r.state
      /\ (n.exists <=> r.exists) /\ (n.active <=> r.active)
      /\ n.down_sched = r.down_sched /\ (n.gr_recovery <=> r.gr_recovery)
      /\ n.channels = f.channels /\ (n.event <=> e)
  BY <1>5, <1>6 DEF Instance
<1>9. proto_is_done(n) => proto_is_done(f)
  BY <1>5, <1>8 DEF proto_is_done, active_channels
<1>10. n.channels[c] = x /\ \A d \in Channels[p] \ {c} : n.channels[d] = r.channels[d]
  BY <1>1, <1>5, <1>8
<1> QED
  BY <1>7, <1>8, <1>9, <1>10 DEF x

(* The end of a flush keeps the invariant.                                 *)
LEMMA FlushedStep ==
  ASSUME BInv, NEW p \in Protos, NEW c \in Channels[p], channel_do_down(p, c)
  PROVE  StepOK
<1> DEFINE r == proto[p]
           n == FlushDone(r, c)
<1>1. Base(p, r) /\ r \in Instance(p) /\ r.channels[c] \in Channel
  BY DEF BInv, Base, Instance
<1>2. r.channels[c].state = "FLUSHING" /\ proto' = [proto EXCEPT ![p] = n]
  BY Zenon DEF channel_do_down, UpdateOne, Update, FlushDone, Flushed
<1>3. r.exists /\ r.active
  BY <1>1, <1>2, NotExisting, Zenon DEF Base, ChanOK, NewChannel
<1>4. /\ n \in Instance(p) /\ n.state = r.state
      /\ (n.exists <=> r.exists) /\ (n.active <=> r.active)
      /\ n.down_sched = r.down_sched /\ (proto_is_done(n) => n.event)
      /\ n.channels[c] = channel_set_state(r.channels[c], "DOWN")
      /\ \A d \in Channels[p] \ {c} : n.channels[d] = r.channels[d]
  BY <1>1, FlushedFields
<1>5. n.channels[c].state = "DOWN"
  BY <1>1, <1>4, SetState, SMTT(30) DEF ChannelStates
<1> HIDE DEF n
<1>6. \A d \in Channels[p] : ChanOK(n, n.channels[d]) /\ Allowed(r.channels[d].state, n.channels[d].state)
  BY <1>1, <1>2, <1>4, <1>5, Zenon DEF Base, ChanOK, Allowed
<1>7. Base(p, n)
  BY <1>1, <1>3, <1>4, <1>6 DEF Base
<1> QED
  BY <1>2, <1>6, <1>7, OneStep, Zenon DEF Moves

(* The commands disable, enable and restart keep it.                       *)
LEMMA CommandStep ==
  ASSUME BInv, NEW p \in Protos,
         proto_cmd_disable(p) \/ proto_cmd_enable(p) \/ proto_cmd_restart(p)
  PROVE  StepOK
<1>1. Base(p, proto[p]) /\ proto[p].exists
  BY DEF BInv, proto_cmd_disable, proto_cmd_enable, proto_cmd_restart
<1>2. ASSUME NEW off \in BOOLEAN,
             proto' = [proto EXCEPT ![p] = Goal(p, [proto[p] EXCEPT !.disabled = off])]
      PROVE  StepOK
  BY <1>1, <1>2, DisableGoal, OneStep, Zenon
<1>3. CASE proto_cmd_disable(p) \/ proto_cmd_enable(p)
  BY <1>2, <1>3, Zenon DEF proto_cmd_disable, proto_cmd_enable, UpdateOne, Update
<1>4. CASE proto_cmd_restart(p)
  <2>1. proto' = [proto EXCEPT ![p] = RestartGoal(p, proto[p])]
    BY <1>4 DEF proto_cmd_restart, UpdateOne, Update
  <2> QED
    BY <1>1, <2>1, RestartBase, OneStep, Zenon
<1> QED
  BY <1>3, <1>4

(* A limit that restarts or disables a protocol keeps it.                  *)
LEMMA LimitStep ==
  ASSUME BInv, NEW p \in Protos, NEW action \in {"RESTART", "DISABLE"},
         channel_notify_limit(p, action)
  PROVE  StepOK
<1> DEFINE r == proto[p]
           n == [r EXCEPT !.down_sched = action]
<1>1. Base(p, r) /\ r \in Instance(p) /\ r.state = "UP"
  BY DEF BInv, Base, channel_notify_limit
<1>2. r.exists
  BY <1>1, NotExisting
<1>3. proto' = [proto EXCEPT ![p] = n]
  BY DEF channel_notify_limit, UpdateOne, Update
<1>4. /\ n \in Instance(p) /\ n.state = r.state /\ n.exists
      /\ (n.active <=> r.active) /\ (n.event <=> r.event) /\ n.channels = r.channels
  BY <1>1, <1>2 DEF Instance
<1> HIDE DEF n
<1>5. Base(p, n) /\ Moves(p, r, n)
  BY <1>1, <1>4, SameStates, Zenon
<1> QED
  BY <1>3, <1>5, OneStep, Zenon

(* A session comes up: what bgp_conn_enter_established_state() does before *)
(* the instance changes its state                                          *)
Session(p, r, ready, peer_gr_ready) ==
    [r EXCEPT !.channels = [c \in Channels[p] |-> [r.channels[c] EXCEPT
        !.disabled = c \notin ready,
        !.gr_lock  = @ /\ ~(r.gr_recovery /\ (c \notin ready \/ ~peer_gr_ready)),
        !.gr_wait  = @ \/ (r.gr_recovery /\ peer_gr_ready)]]]

(* What a new BGP session changes of an instance.                          *)
Sessioned(p, r, ready, peer_gr_ready, n) ==
    /\ n \in Instance(p) /\ n.state = r.state /\ (n.exists <=> r.exists)
    /\ (n.active <=> r.active) /\ (n.event <=> r.event) /\ n.down_sched = r.down_sched
    /\ (n.gr_recovery <=> r.gr_recovery)
    /\ \A c \in Channels[p] :
           /\ n.channels[c].state = r.channels[c].state
           /\ (n.channels[c].disabled <=> c \notin ready)
           /\ (n.channels[c].export <=> r.channels[c].export)
           /\ (n.channels[c].gr_lock => r.channels[c].gr_lock)
           /\ (n.channels[c].gr_wait <=> r.channels[c].gr_wait
                                         \/ (r.gr_recovery /\ peer_gr_ready))

(* A new session changes an instance in this way only.                     *)
LEMMA SessionFields ==
  ASSUME NEW p \in Protos, NEW r, r \in Instance(p), NEW ready,
         NEW peer_gr_ready \in BOOLEAN, NEW n, n = Session(p, r, ready, peer_gr_ready)
  PROVE  Sessioned(p, r, ready, peer_gr_ready, n)
<1> DEFINE lock(c) == r.channels[c].gr_lock
                      /\ ~(r.gr_recovery /\ (c \notin ready \/ ~peer_gr_ready))
           wait(c) == r.channels[c].gr_wait \/ (r.gr_recovery /\ peer_gr_ready)
           off(c)  == c \notin ready
           chans   == [c \in Channels[p] |-> [r.channels[c] EXCEPT
                          !.disabled = off(c), !.gr_lock = lock(c), !.gr_wait = wait(c)]]
<1>1. n = [r EXCEPT !.channels = chans]
  BY Zenon DEF Session
<1>2. \A c \in Channels[p] :
          lock(c) \in BOOLEAN /\ wait(c) \in BOOLEAN /\ off(c) \in BOOLEAN
  OBVIOUS
<1>3. \A c \in Channels[p] : /\ lock(c) => r.channels[c].gr_lock
                             /\ wait(c) <=> r.channels[c].gr_wait
                                            \/ (r.gr_recovery /\ peer_gr_ready)
                             /\ off(c) <=> c \notin ready
  OBVIOUS
<1> HIDE DEF lock, wait, off
<1>4. ASSUME NEW c \in Channels[p]
      PROVE  /\ chans[c] \in Channel /\ chans[c].state = r.channels[c].state
             /\ (chans[c].disabled <=> off(c))
             /\ (chans[c].export <=> r.channels[c].export)
             /\ (chans[c].gr_lock <=> lock(c)) /\ (chans[c].gr_wait <=> wait(c))
  <2>1. r.channels[c] \in Channel
    BY DEF Instance
  <2> QED
    BY <1>2, <2>1, Zenon DEF Channel
<1>5. chans \in [Channels[p] -> Channel]
  BY <1>4, Zenon
<1> HIDE DEF chans
<1>6. /\ n \in Instance(p) /\ n.state = r.state /\ (n.exists <=> r.exists)
      /\ (n.active <=> r.active) /\ (n.event <=> r.event) /\ n.down_sched = r.down_sched
      /\ (n.gr_recovery <=> r.gr_recovery) /\ n.channels = chans
  BY <1>1, <1>5 DEF Instance
<1> QED
  BY <1>3, <1>4, <1>6 DEF Sessioned

(* A new session keeps the invariant.                                      *)
LEMMA EstablishedStep ==
  ASSUME BInv, NEW p \in Bgp, NEW ready \in SUBSET Channels[p],
         NEW peer_gr_ready \in BOOLEAN, Established(p, ready, peer_gr_ready)
  PROVE  StepOK
<1> DEFINE r == proto[p]
           s == Session(p, r, ready, peer_gr_ready)
           n == proto_notify_state(s, "UP")
<1>1. p \in Protos /\ Base(p, r) /\ r \in Instance(p) /\ r.state = "START"
  BY Zenon DEF BInv, Base, Established, Protos
<1>2. r.exists
  BY <1>1, NotExisting
<1>3. proto' = [proto EXCEPT ![p] = n]
  BY Zenon DEF Established, UpdateOne, Update, Session
<1>4. /\ s \in Instance(p) /\ s.state = r.state /\ (s.exists <=> r.exists)
      /\ (s.active <=> r.active) /\ (s.event <=> r.event) /\ s.down_sched = r.down_sched
      /\ \A c \in Channels[p] : s.channels[c].state = r.channels[c].state
  <2>1. Sessioned(p, r, ready, peer_gr_ready, s)
    BY <1>1, SessionFields, Zenon
  <2> QED
    BY <2>1, Zenon DEF Sessioned
<1> HIDE DEF s
<1>5. Base(p, s)
  BY <1>1, <1>2, <1>4, SameStates, Zenon
<1>6. Base(p, n) /\ Moves(p, s, n)
  BY <1>1, <1>2, <1>4, <1>5, RunBase, Zenon
<1> HIDE DEF n
<1>7. Moves(p, r, n)
  BY <1>1, <1>4, <1>6, MovesSame, Zenon
<1> QED
  BY <1>1, <1>3, <1>6, <1>7, OneStep, Zenon

(* What End-of-RIB changes: a lock is released.                            *)
LEMMA EndOfRibFields ==
  ASSUME NEW p \in Protos, NEW r, r \in Instance(p), NEW c \in Channels[p], NEW n,
         n = [r EXCEPT !.channels[c].gr_lock = FALSE]
  PROVE  /\ n \in Instance(p) /\ n.state = r.state /\ (n.exists <=> r.exists)
         /\ (n.active <=> r.active) /\ (n.event <=> r.event) /\ n.down_sched = r.down_sched
         /\ (n.gr_recovery <=> r.gr_recovery)
         /\ \A d \in Channels[p] :
                /\ n.channels[d].state = r.channels[d].state
                /\ (n.channels[d].disabled <=> r.channels[d].disabled)
                /\ (n.channels[d].export <=> r.channels[d].export)
                /\ (n.channels[d].gr_wait <=> r.channels[d].gr_wait)
                /\ (n.channels[d].gr_lock => r.channels[d].gr_lock)
<1> DEFINE x == [r.channels[c] EXCEPT !.gr_lock = FALSE]
           chans == [r.channels EXCEPT ![c] = x]
<1>1. r.channels[c] \in Channel /\ r.channels \in [Channels[p] -> Channel]
  BY DEF Instance
<1>2. /\ x \in Channel /\ x.state = r.channels[c].state
      /\ (x.disabled <=> r.channels[c].disabled) /\ (x.export <=> r.channels[c].export)
      /\ (x.gr_wait <=> r.channels[c].gr_wait) /\ ~x.gr_lock
  BY <1>1, Zenon DEF Channel
<1>3. n = [r EXCEPT !.channels = chans]
  BY DEF Instance
<1> HIDE DEF x
<1>4. /\ chans \in [Channels[p] -> Channel] /\ chans[c] = x
      /\ \A d \in Channels[p] \ {c} : chans[d] = r.channels[d]
  BY <1>1, <1>2
<1> HIDE DEF chans
<1>5. /\ n \in Instance(p) /\ n.state = r.state /\ (n.exists <=> r.exists)
      /\ (n.active <=> r.active) /\ (n.event <=> r.event) /\ n.down_sched = r.down_sched
      /\ (n.gr_recovery <=> r.gr_recovery) /\ n.channels = chans
  BY <1>3, <1>4, Zenon DEF Instance
<1>6. ASSUME NEW d \in Channels[p]
      PROVE  /\ n.channels[d].state = r.channels[d].state
             /\ (n.channels[d].disabled <=> r.channels[d].disabled)
             /\ (n.channels[d].export <=> r.channels[d].export)
             /\ (n.channels[d].gr_wait <=> r.channels[d].gr_wait)
             /\ (n.channels[d].gr_lock => r.channels[d].gr_lock)
  BY <1>2, <1>4, <1>5
<1> QED
  BY <1>5, <1>6

(* End-of-RIB keeps the invariant.                                         *)
LEMMA EndOfRibStep ==
  ASSUME BInv, NEW p \in Protos, NEW c \in Channels[p], EndOfRib(p, c)
  PROVE  StepOK
<1> DEFINE r == proto[p]
           n == [r EXCEPT !.channels[c].gr_lock = FALSE]
<1>1. Base(p, r) /\ r \in Instance(p) /\ r.state = "UP"
  BY DEF BInv, Base, EndOfRib
<1>2. r.exists
  BY <1>1, NotExisting
<1>3. proto' = [proto EXCEPT ![p] = n]
  BY DEF EndOfRib, UpdateOne, Update
<1>4. /\ n \in Instance(p) /\ n.state = r.state /\ (n.exists <=> r.exists)
      /\ (n.active <=> r.active) /\ (n.event <=> r.event) /\ n.down_sched = r.down_sched
      /\ \A d \in Channels[p] :
             /\ n.channels[d].state = r.channels[d].state
             /\ (n.channels[d].disabled <=> r.channels[d].disabled)
  BY <1>1, EndOfRibFields
<1> HIDE DEF n
<1>5. Base(p, n) /\ Moves(p, r, n)
  BY <1>1, <1>2, <1>4, SameStates
<1> QED
  BY <1>3, <1>5, OneStep, Zenon

(* So do the ends of a session.                                            *)
LEMMA SessionEndsStep ==
  ASSUME BInv, NEW p \in Protos,
         \/ bgp_handle_graceful_restart(p) \/ bgp_down(p) \/ bgp_initiate(p)
         \/ \E disable \in BOOLEAN : bgp_stop(p, disable)
  PROVE  StepOK
<1> DEFINE r == proto[p]
<1>1. Base(p, r) /\ r \in Instance(p)
  BY DEF BInv, Base
<1>2. r.exists
  BY <1>1, NotExisting, Zenon DEF bgp_handle_graceful_restart, bgp_down, bgp_initiate, bgp_stop
<1>3. CASE bgp_handle_graceful_restart(p)
  <2>1. r.state = "UP" /\ proto' = [proto EXCEPT ![p] = proto_notify_state(r, "START")]
    BY <1>3 DEF bgp_handle_graceful_restart, UpdateOne, Update
  <2> QED
    BY <1>1, <1>2, <2>1, RunBase, OneStep, Zenon
<1>4. CASE bgp_down(p)
  <2>1. r.state = "STOP" /\ proto' = [proto EXCEPT ![p] = proto_notify_state(r, "DOWN")]
    BY <1>4 DEF bgp_down, UpdateOne, Update
  <2> QED
    BY <1>1, <1>2, <2>1, DownBase, OneStep, Zenon
<1>5. ASSUME NEW off \in BOOLEAN, NEW st \in {"STOP", "DOWN"}, r.state \in {"START", "UP"},
             proto' = [proto EXCEPT ![p] =
                           proto_notify_state([proto[p] EXCEPT !.disabled = off], st)]
      PROVE  StepOK
  <2> DEFINE s == [r EXCEPT !.disabled = off]
  <2>1. Base(p, s) /\ s.exists /\ s.channels = r.channels /\ s.state = r.state
    BY <1>1, <1>2, DisabledBase
  <2>2. proto' = [proto EXCEPT ![p] = proto_notify_state(s, st)]
    BY <1>5
  <2> HIDE DEF s
  <2>3. Base(p, proto_notify_state(s, st)) /\ Moves(p, s, proto_notify_state(s, st))
    BY <1>5, <2>1, StopBase
  <2> QED
    BY <2>1, <2>2, <2>3, MovesSame, OneStep, Zenon
<1>6. CASE bgp_initiate(p)
  <2>1. /\ r.state = "START"
        /\ proto' = [proto EXCEPT ![p] = proto_notify_state([proto[p] EXCEPT !.disabled = TRUE], "DOWN")]
    BY <1>6 DEF bgp_initiate, UpdateOne, Update
  <2> QED
    BY <1>5, <2>1, Zenon
<1>7. ASSUME NEW disable \in BOOLEAN, bgp_stop(p, disable) PROVE StepOK
  <2> DEFINE off == proto[p].disabled \/ disable
  <2>1. /\ r.state \in {"START", "UP"} /\ off \in BOOLEAN
        /\ proto' = [proto EXCEPT ![p] = proto_notify_state([proto[p] EXCEPT !.disabled = off], "STOP")]
    BY <1>7, Zenon DEF bgp_stop, UpdateOne, Update
  <2> HIDE DEF off
  <2> QED
    BY <1>5, <2>1, Zenon
<1> QED
  BY <1>3, <1>4, <1>6, <1>7, Zenon

(* Every step keeps the invariant, and its transitions of channels are     *)
(* allowed.                                                                *)
LEMMA BaseStep == BInv /\ [Next]_vars => StepOK
<1> SUFFICES ASSUME BInv, [Next]_vars PROVE StepOK
  OBVIOUS
<1>1. ASSUME NEW on \in SUBSET Protos, NEW off \in SUBSET Protos, Boot(on, off) PROVE StepOK
  BY <1>1, BootStep
<1>2. CASE graceful_restart_done \/ proto_shutdown_loop
  BY <1>2, RecoveryDoneStep, ShutdownLoopStep
<1>3. ASSUME NEW on, NEW off, NEW compatible, protos_commit(on, off, compatible) PROVE StepOK
  BY <1>3, CommitStep
<1>4. ASSUME NEW p \in Protos,
             \/ proto_event(p)
             \/ \E c \in Channels[p] : channel_do_down(p, c)
             \/ proto_cmd_disable(p) \/ proto_cmd_enable(p) \/ proto_cmd_restart(p)
             \/ \E action \in {"RESTART", "DISABLE"} : channel_notify_limit(p, action)
      PROVE  StepOK
  BY <1>4, EventStep, FlushedStep, CommandStep, LimitStep, Zenon
<1>5. ASSUME NEW p \in Bgp,
             \/ \E ready \in SUBSET Channels[p], peer_gr_ready \in BOOLEAN :
                    Established(p, ready, peer_gr_ready)
             \/ \E c \in Channels[p] : EndOfRib(p, c)
             \/ bgp_handle_graceful_restart(p)
             \/ \E disable \in BOOLEAN : bgp_stop(p, disable)
             \/ bgp_down(p) \/ bgp_initiate(p)
      PROVE  StepOK
  <2>1. p \in Protos
    BY DEF Protos
  <2>2. ASSUME NEW ready \in SUBSET Channels[p], NEW peer_gr_ready \in BOOLEAN,
               Established(p, ready, peer_gr_ready)
        PROVE  StepOK
    BY <2>2, EstablishedStep
  <2>3. ASSUME NEW c \in Channels[p], EndOfRib(p, c) PROVE StepOK
    BY <2>1, <2>3, EndOfRibStep
  <2> QED
    BY <1>5, <2>1, <2>2, <2>3, SessionEndsStep
<1>6. CASE UNCHANGED vars
  BY <1>6, MovesRefl DEF vars, BInv, StepOK, Shape
<1> QED
  BY <1>1, <1>2, <1>3, <1>4, <1>5, <1>6 DEF Next

----------------------------------------------------------------------------
(* The invariant holds in the beginning.                                   *)
LEMMA BaseInit == Init => BInv
<1> SUFFICES ASSUME Init PROVE BInv
  OBVIOUS
<1>1. ASSUME NEW p \in Protos PROVE Base(p, proto[p])
  <2>1. proto[p] = NoProto(p) /\ FALSE \in BOOLEAN
    BY DEF Init
  <2> QED
    BY <2>1, InitBase, Zenon
<1> QED
  BY <1>1 DEF BInv, Shape, Init

(* The invariant always holds.                                             *)
LEMMA BaseInvariant == Spec => []BInv
<1>1. BInv /\ [Next]_vars => BInv'
  BY BaseStep DEF StepOK
<1> QED
  BY <1>1, BaseInit, PTL DEF Spec

(* An instance that has nothing more to wait for has its event scheduled,  *)
(* so that nobody's shutdown is forgotten, whatever the sessions are like. *)
THEOREM ShutdownsFinish == Spec => []DoneScheduled
<1>1. BInv => DoneScheduled
  BY DEF BInv, Base, DoneScheduled
<1> QED
  BY <1>1, BaseInvariant, PTL

(* Channels take only the transitions that protocol.h allows.              *)
THEOREM TransitionsAllowed == Spec => ChannelTransitions
<1> DEFINE A == \A p \in Protos : \A c \in Channels[p] :
           LET old == proto[p].channels[c].state
               new == proto'[p].channels[c].state
           IN  old # new => <<old, new>> \in
                   {<<"DOWN", "START">>, <<"DOWN", "UP">>, <<"START", "UP">>,
                    <<"START", "FLUSHING">>, <<"UP", "START">>, <<"UP", "FLUSHING">>,
                    <<"FLUSHING", "DOWN">>}
<1>1. BInv /\ [Next]_vars => A
  <2> SUFFICES ASSUME StepOK PROVE A
    BY BaseStep
  <2> QED
    BY Zenon DEF StepOK, Moves, Allowed
<1> HIDE DEF A
<1>2. Spec => [][A]_vars
  BY <1>1, BaseInvariant, PTL DEF Spec
<1> QED
  BY <1>2, Zenon DEF ChannelTransitions, A

----------------------------------------------------------------------------
(* When a session has all channels of the one before it (~MayShrink), the  *)
(* channels of a protocol are closed with it; when it has all channels     *)
(* during the recovery too (~MayBePartial), those that wait for the end of *)
(* the recovery belong to protocols that take part in it.                  *)
Closed(p, r) ==
    \A c \in Channels[p] :
        r.channels[c].state \in {"START", "UP"} =>
            ~r.channels[c].disabled /\ r.state \in {"START", "UP"}

Waits(r, x) ==
    /\ x.export <=> x.state = "UP" /\ ~x.gr_wait
    /\ x.gr_wait => x.state \in {"START", "UP"} /\ r.gr_recovery

KernelOK(p, r) ==
    p \in Krt => \A c \in Channels[p] : /\ ~r.channels[c].disabled
                                        /\ r.gr_recovery => r.channels[c].gr_wait

Recov(p, r) ==
    /\ r.gr_recovery => r.state \in {"START", "UP"}
    /\ KernelOK(p, r)
    /\ \A c \in Channels[p] : Waits(r, r.channels[c])

Full(p, r) == ~MayShrink => Closed(p, r) /\ (~MayBePartial => Recov(p, r))

(* After the boot nobody joins the recovery any more, or locks it.         *)
Less(p, r, s) ==
    /\ s.gr_recovery => r.gr_recovery
    /\ \A c \in Channels[p] : s.channels[c].gr_lock => r.channels[c].gr_lock

(* An instance has no more locks than itself.                              *)
LEMMA LessRefl ==
  ASSUME NEW p, NEW r PROVE Less(p, r, r)
  BY DEF Less

(* To have no more locks is transitive.                                    *)
LEMMA LessTrans ==
  ASSUME NEW p, NEW r, NEW s, NEW t, Less(p, r, s), Less(p, s, t) PROVE Less(p, r, t)
  BY DEF Less

(* Started(), Paused() and Stopped(), field by field                       *)
LEMMA StartedFields ==
  ASSUME NEW x \in Channel
  PROVE  LET y == Started(x)
         IN  /\ (y.disabled <=> x.disabled) /\ (y.gr_wait <=> x.gr_wait)
             /\ (y.gr_lock <=> x.gr_lock)
             /\ x.disabled => y = x
             /\ ~x.disabled => y.state = "UP"
             /\ (x.export <=> x.state = "UP" /\ ~x.gr_wait) =>
                    (y.export <=> y.state = "UP" /\ ~y.gr_wait)
  BY SetState DEF Started, ChannelStates

(* A paused channel keeps what matters to the recovery.                    *)
LEMMA PausedFields ==
  ASSUME NEW x \in Channel
  PROVE  LET y == Paused(x)
         IN  /\ (y.disabled <=> x.disabled) /\ (y.gr_wait <=> x.gr_wait)
             /\ (y.gr_lock <=> x.gr_lock)
             /\ y.state \in {"START", "UP"} <=> x.state \in {"START", "UP"}
             /\ (x.export <=> x.state = "UP" /\ ~x.gr_wait) =>
                    (y.export <=> y.state = "UP" /\ ~y.gr_wait)
  BY SetState DEF Paused, ChannelStates

(* A stopped channel is closed unless it was disabled, and waits for       *)
(* nothing.                                                                *)
LEMMA StoppedFields ==
  ASSUME NEW x \in Channel
  PROVE  LET y == Stopped(x)
         IN  /\ (y.disabled <=> x.disabled) /\ (y.gr_lock => x.gr_lock)
             /\ (~x.disabled \/ x.state \notin {"START", "UP"}) =>
                    /\ y.state \notin {"START", "UP"}
                    /\ (x.state \in {"START", "UP"} => ~y.export /\ ~y.gr_wait)
                    /\ (x.state \notin {"START", "UP"} => y = x)
  BY SetState DEF Stopped, ChannelStates, channel_is_active

(* A step from r to s keeps the invariant, and adds nothing to the         *)
(* recovery.                                                               *)
Keeps(p, r, s) == (Full(p, r) => Full(p, s)) /\ Less(p, r, s)

(* An instance that stays keeps what matters to the recovery.              *)
LEMMA KeepsRefl ==
  ASSUME NEW p, NEW r PROVE Keeps(p, r, r)
  BY LessRefl DEF Keeps

(* To keep it is transitive.                                               *)
LEMMA KeepsTrans ==
  ASSUME NEW p, NEW r, NEW s, NEW t, Keeps(p, r, s), Keeps(p, s, t) PROVE Keeps(p, r, t)
  BY LessTrans DEF Keeps

(* It depends on the state, the channels and the part in the recovery      *)
(* only.                                                                   *)
LEMMA KeepsSame ==
  ASSUME NEW p, NEW r, NEW s, s.state = r.state, s.gr_recovery <=> r.gr_recovery,
         s.channels = r.channels
  PROVE  Keeps(p, r, s)
<1>1. Closed(p, r) => Closed(p, s)
  BY DEF Closed
<1>2. Recov(p, r) => Recov(p, s)
  BY DEF Recov, KernelOK, Waits
<1> QED
  BY <1>1, <1>2 DEF Keeps, Full, Less

(* What the channels of an instance must be like when it starts or comes   *)
(* up: those that come up may have been told to wait just before.          *)
Open(p, r) ==
    \A c \in Channels[p] : r.channels[c].state \in {"START", "UP"} => ~r.channels[c].disabled

Ready(p, r, st) ==
    /\ KernelOK(p, r)
    /\ \A c \in Channels[p] :
           /\ r.channels[c].export <=> r.channels[c].state = "UP" /\ ~r.channels[c].gr_wait
           /\ r.channels[c].gr_wait =>
                  /\ r.gr_recovery
                  /\ \/ r.channels[c].state \in {"START", "UP"}
                     \/ st = "UP" /\ ~r.channels[c].disabled

(* A protocol that starts or comes up has its channels open and gets no    *)
(* locks.                                                                  *)
LEMMA RunFull ==
  ASSUME NEW p \in Protos, NEW r, r \in Instance(p), NEW st \in {"START", "UP"},
         st # r.state, NEW n, n = proto_notify_state(r, st)
  PROVE  /\ Less(p, r, n)
         /\ Open(p, r) => Closed(p, n)
         /\ Ready(p, r, st) => Recov(p, n)
<1>1. /\ n.state = st /\ (n.gr_recovery <=> r.gr_recovery)
      /\ \A c \in Channels[p] :
             n.channels[c] = IF st = "UP" THEN Started(r.channels[c])
                             ELSE IF r.state = "DOWN" THEN r.channels[c]
                             ELSE Paused(r.channels[c])
  BY RunFields
<1>2. ASSUME NEW c \in Channels[p]
      PROVE  /\ (n.channels[c].disabled <=> r.channels[c].disabled)
             /\ (n.channels[c].gr_wait <=> r.channels[c].gr_wait)
             /\ (n.channels[c].gr_lock <=> r.channels[c].gr_lock)
             /\ n.channels[c].state \in {"START", "UP"} =>
                    r.channels[c].state \in {"START", "UP"} \/ ~r.channels[c].disabled
             /\ r.channels[c].state \in {"START", "UP"} => n.channels[c].state \in {"START", "UP"}
             /\ st = "UP" /\ ~r.channels[c].disabled => n.channels[c].state = "UP"
             /\ (r.channels[c].export <=> r.channels[c].state = "UP" /\ ~r.channels[c].gr_wait) =>
                    (n.channels[c].export <=> n.channels[c].state = "UP" /\ ~n.channels[c].gr_wait)
  <2> DEFINE x == r.channels[c]
  <2>1. x \in Channel
    BY DEF Instance
  <2>2. n.channels[c] = IF st = "UP" THEN Started(x)
                        ELSE IF r.state = "DOWN" THEN x ELSE Paused(x)
    BY <1>1, Zenon
  <2> HIDE DEF x
  <2>3. CASE n.channels[c] = x /\ st # "UP"
    BY <2>3, Zenon DEF x
  <2>4. CASE n.channels[c] = Started(x)
    BY <2>1, <2>4, StartedFields DEF x
  <2>5. CASE n.channels[c] = Paused(x) /\ st # "UP"
    BY <2>1, <2>5, PausedFields DEF x
  <2> QED
    BY <2>2, <2>3, <2>4, <2>5, Zenon
<1>3. Less(p, r, n)
  BY <1>1, <1>2, Zenon DEF Less
<1>4. Open(p, r) => Closed(p, n)
  BY <1>1, <1>2, Zenon DEF Open, Closed
<1>5. ASSUME Ready(p, r, st) PROVE Recov(p, n)
  <2>1. KernelOK(p, n)
    BY <1>1, <1>2, <1>5, Zenon DEF Ready, KernelOK
  <2>2. \A c \in Channels[p] : Waits(n, n.channels[c])
    BY <1>1, <1>2, <1>5, Zenon DEF Ready, Waits
  <2> QED
    BY <1>1, <2>1, <2>2, Zenon DEF Recov
<1> QED
  BY <1>3, <1>4, <1>5, Zenon

(* It keeps what matters to the recovery;                                  *)
LEMMA RunKeeps ==
  ASSUME NEW p \in Protos, NEW r, r \in Instance(p), NEW st \in {"START", "UP"},
         st # r.state, NEW n, n = proto_notify_state(r, st)
  PROVE  Keeps(p, r, n)
<1>1. Closed(p, r) => Open(p, r)
  BY Zenon DEF Closed, Open
<1>2. Recov(p, r) => Ready(p, r, st)
  BY DEF Recov, Waits, Ready
<1> QED
  BY <1>1, <1>2, RunFull, Zenon DEF Keeps, Full

(* so does one that stops or goes down,                                    *)
LEMMA StopKeeps ==
  ASSUME NEW p \in Protos, NEW r, r \in Instance(p), NEW st \in {"STOP", "DOWN"},
         r.state \in {"START", "UP"}, NEW n, n = proto_notify_state(r, st)
  PROVE  Keeps(p, r, n)
<1>1. /\ n.state = st /\ ~n.gr_recovery
      /\ \A c \in Channels[p] : n.channels[c] = Stopped(r.channels[c])
  BY StopFields
<1>2. ASSUME NEW c \in Channels[p]
      PROVE  LET x == r.channels[c]  y == n.channels[c]
             IN  /\ (y.disabled <=> x.disabled) /\ (y.gr_lock => x.gr_lock)
                 /\ (~x.disabled \/ x.state \notin {"START", "UP"}) =>
                        /\ y.state \notin {"START", "UP"}
                        /\ (x.state \in {"START", "UP"} => ~y.export /\ ~y.gr_wait)
                        /\ (x.state \notin {"START", "UP"} => y = x)
  <2>1. r.channels[c] \in Channel
    BY Zenon DEF Instance
  <2> QED
    BY <1>1, <2>1, StoppedFields
<1>3. Less(p, r, n)
  BY <1>1, <1>2, Zenon DEF Less
<1>4. Closed(p, r) => Closed(p, n)
  BY <1>1, <1>2, Zenon DEF Closed
<1>5. ASSUME Closed(p, r), Recov(p, r) PROVE Recov(p, n)
  <2>1. KernelOK(p, n)
    BY <1>1, <1>2, <1>5, Zenon DEF Recov, KernelOK
  <2>2. ASSUME NEW c \in Channels[p] PROVE Waits(n, n.channels[c])
    <3>1. Waits(r, r.channels[c])
          /\ (~r.channels[c].disabled \/ r.channels[c].state \notin {"START", "UP"})
      BY <1>5, Zenon DEF Recov, Closed
    <3> QED
      BY <1>1, <1>2, <3>1, Zenon DEF Waits
  <2> QED
    BY <1>1, <2>1, <2>2, Zenon DEF Recov
<1> QED
  BY <1>3, <1>4, <1>5, Zenon DEF Keeps, Full

(* and one that has stopped.                                               *)
LEMMA DownKeeps ==
  ASSUME NEW p \in Protos, NEW r, r \in Instance(p), r.state = "STOP",
         NEW n, n = proto_notify_state(r, "DOWN")
  PROVE  Keeps(p, r, n)
<1>1. n.state = "DOWN" /\ (n.gr_recovery <=> r.gr_recovery) /\ n.channels = r.channels
  BY DownFields
<1>2. Closed(p, r) => Closed(p, n)
  BY <1>1, Zenon DEF Closed
<1>3. Recov(p, r) => Recov(p, n)
  BY <1>1, Zenon DEF Recov, KernelOK, Waits
<1> QED
  BY <1>1, <1>2, <1>3, Zenon DEF Keeps, Full, Less

(* An instance that starts is ready for the recovery.                      *)
LEMMA StartReady ==
  ASSUME NEW p \in Protos, NEW r, r \in Instance(p), r.state = "DOWN",
         \A c \in Channels[p] : r.channels[c].state = "DOWN",
         NEW s, s = StartRecovery(p, r),
         NEW st, st = IF p \in Bgp THEN "START" ELSE "UP"
  PROVE  /\ graceful_restart_state # "INIT" => Less(p, r, s)
         /\ Open(p, s)
         /\ Recov(p, r) => Ready(p, s, st)
<1>1. /\ s.gr_recovery <=> r.gr_recovery \/ graceful_restart_state = "INIT"
      /\ \A c \in Channels[p] :
             /\ s.channels[c].state = r.channels[c].state
             /\ (s.channels[c].disabled <=> r.channels[c].disabled)
             /\ (s.channels[c].export <=> r.channels[c].export)
             /\ (s.channels[c].gr_lock <=> r.channels[c].gr_lock
                                           \/ (graceful_restart_state = "INIT" /\ p \in Bgp))
             /\ (s.channels[c].gr_wait <=> r.channels[c].gr_wait
                                           \/ (graceful_restart_state = "INIT" /\ p \in Krt))
  BY StartFields
<1>2. p \in Krt => st = "UP"
  BY ProtocolsAssumption, Zenon DEF Protos
<1>3. graceful_restart_state # "INIT" => Less(p, r, s)
  BY <1>1, Zenon DEF Less
<1>4. Open(p, s)
  BY <1>1, Zenon DEF Open
<1>5. ASSUME Recov(p, r) PROVE Ready(p, s, st)
  <2>1. ~r.gr_recovery /\ KernelOK(p, r) /\ \A c \in Channels[p] : Waits(r, r.channels[c])
    BY <1>5, Zenon DEF Recov
  <2>2. KernelOK(p, s)
    BY <1>1, <2>1, Zenon DEF KernelOK
  <2>3. ASSUME NEW c \in Channels[p]
        PROVE  /\ s.channels[c].export <=> s.channels[c].state = "UP" /\ ~s.channels[c].gr_wait
               /\ s.channels[c].gr_wait =>
                      s.gr_recovery /\ st = "UP" /\ ~s.channels[c].disabled
    BY <1>1, <1>2, <2>1, Zenon DEF Waits, KernelOK
  <2> QED
    BY <2>2, <2>3, Zenon DEF Ready
<1> QED
  BY <1>3, <1>4, <1>5, Zenon

(* A new instance has closed channels and no locks.                        *)
LEMMA InitFull ==
  ASSUME NEW p \in Protos, NEW off \in BOOLEAN, NEW n,
         n = proto_init(p, off) \/ n = NoProto(p)
  PROVE  Closed(p, n) /\ Recov(p, n) /\ Full(p, n) /\ \A r : Less(p, r, n)
<1>1. /\ n.state = "DOWN" /\ ~n.gr_recovery
      /\ \A c \in Channels[p] : n.channels[c] = NewChannel
  BY InitFields
<1>2. /\ NewChannel.state = "DOWN" /\ ~NewChannel.disabled /\ ~NewChannel.gr_lock
      /\ ~NewChannel.gr_wait /\ ~NewChannel.export
  BY DEF NewChannel
<1>3. Closed(p, n)
  BY <1>1, <1>2, Zenon DEF Closed
<1>4. Recov(p, n)
  BY <1>1, <1>2, Zenon DEF Recov, KernelOK, Waits
<1>5. \A r : Less(p, r, n)
  BY <1>1, <1>2, Zenon DEF Less
<1> QED
  BY <1>3, <1>4, <1>5, Zenon DEF Full

(* proto_rethink_goal() after the boot, and at the boot                    *)
LEMMA GoalKeeps ==
  ASSUME NEW p \in Protos, NEW r, Base(p, r)
  PROVE  /\ Full(p, r) => Full(p, Goal(p, r))
         /\ graceful_restart_state # "INIT" => Less(p, r, Goal(p, r))
<1>1. CASE Goal(p, r) = r
  BY <1>1, LessRefl, Zenon
<1>2. CASE r.state \in {"START", "UP"} /\ Goal(p, r) = Shutdown(p, r)
  <2>1. r \in Instance(p)
    BY DEF Base
  <2> DEFINE st == IF p \in Bgp THEN "STOP" ELSE "DOWN"
  <2>2. st \in {"STOP", "DOWN"} /\ Goal(p, r) = proto_notify_state(r, st)
    BY <1>2, Zenon DEF Shutdown
  <2> HIDE DEF st
  <2> QED
    BY <1>2, <2>1, <2>2, StopKeeps, Zenon DEF Keeps
<1>3. CASE ~r.active /\ Goal(p, r) = Start(p, r)
  <2> DEFINE s == StartRecovery(p, r)
             st == IF p \in Bgp THEN "START" ELSE "UP"
  <2>1. /\ r \in Instance(p) /\ r.state = "DOWN"
        /\ \A c \in Channels[p] : r.channels[c].state = "DOWN"
    BY <1>3, Zenon DEF Base, ChanOK
  <2>2. s \in Instance(p) /\ s.state = r.state
    BY <2>1, StartFields, Zenon
  <2>3. Goal(p, r) = proto_notify_state(s, st) /\ st \in {"START", "UP"} /\ st # s.state
    BY <1>3, <2>1, <2>2, StartIs, Zenon
  <2>4. /\ graceful_restart_state # "INIT" => Less(p, r, s)
        /\ Open(p, s)
        /\ Recov(p, r) => Ready(p, s, st)
    BY <2>1, StartReady, Zenon
  <2> HIDE DEF s, st
  <2>5. /\ Less(p, s, Goal(p, r))
        /\ Open(p, s) => Closed(p, Goal(p, r))
        /\ Ready(p, s, st) => Recov(p, Goal(p, r))
    BY <2>2, <2>3, RunFull, Zenon
  <2> QED
    BY <2>4, <2>5, LessTrans, Zenon DEF Full
<1> QED
  BY <1>1, <1>2, <1>3, Zenon DEF Goal

(* A new configuration keeps what matters to the recovery,                 *)
LEMMA RenewKeeps ==
  ASSUME NEW p \in Protos, NEW r
  PROVE  Keeps(p, r, Renew(p, r))
<1>1. CASE Renew(p, r) = r
  BY <1>1, KeepsRefl, Zenon
<1>2. CASE r.reconfiguring /\ ~r.active
  <2>1. PICK off \in BOOLEAN : Renew(p, r) = NoProto(p) \/ Renew(p, r) = proto_init(p, off)
    BY <1>2, Zenon DEF Renew
  <2> QED
    BY <2>1, InitFull DEF Keeps
<1> QED
  BY <1>1, <1>2 DEF Renew

(* the mark of a disabled protocol does,                                   *)
LEMMA DisabledKeeps ==
  ASSUME NEW p \in Protos, NEW r, r \in Instance(p), NEW off \in BOOLEAN
  PROVE  Keeps(p, r, [r EXCEPT !.disabled = off])
<1> DEFINE s == [r EXCEPT !.disabled = off]
<1>1. s.state = r.state /\ (s.gr_recovery <=> r.gr_recovery) /\ s.channels = r.channels
  BY DEF Instance
<1> HIDE DEF s
<1>2. Keeps(p, r, s)
  BY <1>1, KeepsSame
<1> QED
  BY <1>2 DEF s

(* and so does what follows from it.                                       *)
LEMMA DisableGoalKeeps ==
  ASSUME NEW p \in Protos, NEW r, Base(p, r), r.exists, NEW off \in BOOLEAN, NEW n,
         n = Goal(p, [r EXCEPT !.disabled = off]), graceful_restart_state # "INIT"
  PROVE  Keeps(p, r, n)
<1> DEFINE s == [r EXCEPT !.disabled = off]
<1>1. Base(p, s) /\ Keeps(p, r, s) /\ n = Goal(p, s)
  BY DisabledBase, DisabledKeeps DEF Base
<1> HIDE DEF s
<1>2. Keeps(p, s, n)
  BY <1>1, GoalKeeps, Zenon DEF Keeps
<1> QED
  BY <1>1, <1>2, KeepsTrans, Zenon

(* An instance exists until it is removed.                                 *)
LEMMA GoalExists ==
  ASSUME NEW p \in Protos, NEW r, Base(p, r), r.exists
  PROVE  Goal(p, r).exists
<1> DEFINE n == Goal(p, r)
<1>1. r \in Instance(p)
  BY DEF Base
<1>2. CASE n = r
  BY <1>2
<1>3. CASE r.state \in {"START", "UP"} /\ n = Shutdown(p, r)
  <2> DEFINE st == IF p \in Bgp THEN "STOP" ELSE "DOWN"
  <2>1. st \in {"STOP", "DOWN"} /\ n = proto_notify_state(r, st)
    BY <1>3, Zenon DEF Shutdown
  <2> HIDE DEF st, n
  <2>2. n.exists
    BY <1>1, <1>3, <2>1, StopFields, SMTT(30)
  <2> QED
    BY <2>2 DEF n
<1>4. CASE ~r.active /\ n = Start(p, r)
  <2> DEFINE s == StartRecovery(p, r)
             st == IF p \in Bgp THEN "START" ELSE "UP"
  <2>1. s \in Instance(p) /\ s.state = r.state /\ s.exists /\ r.state = "DOWN"
    BY <1>1, <1>4, StartFields, Zenon DEF Base
  <2>2. n = proto_notify_state(s, st) /\ st \in {"START", "UP"} /\ st # s.state
    BY <1>4, <2>1, StartIs, Zenon
  <2> HIDE DEF s, st, n
  <2>3. n.exists
    BY <2>1, <2>2, RunFields, ZenonT(30)
  <2> QED
    BY <2>3 DEF n
<1> QED
  BY <1>2, <1>3, <1>4, Zenon DEF Goal

(* A restart keeps what matters to the recovery.                           *)
LEMMA RestartKeeps ==
  ASSUME NEW p \in Protos, NEW r, Base(p, r), r.exists, graceful_restart_state # "INIT"
  PROVE  Keeps(p, r, RestartGoal(p, r))
<1> DEFINE a == [r EXCEPT !.disabled = TRUE]
           b == Goal(p, a)
<1>1. Base(p, a) /\ a.exists
  BY DisabledBase, Zenon
<1>2. Keeps(p, r, b)
  BY DisableGoalKeeps, Zenon
<1>3. RestartGoal(p, r) = Goal(p, [b EXCEPT !.disabled = FALSE])
  BY DEF RestartGoal
<1> HIDE DEF a
<1>4. Base(p, b) /\ b.exists
  BY <1>1, GoalBase, GoalExists, Zenon
<1> HIDE DEF b
<1>5. Keeps(p, b, RestartGoal(p, r))
  BY <1>3, <1>4, DisableGoalKeeps, Zenon
<1> QED
  BY <1>2, <1>5, KeepsTrans, Zenon

(* graceful_restart_done() for one instance                                *)
LEMMA DoneKeeps ==
  ASSUME NEW p \in Protos, NEW r, r \in Instance(p), NEW n, n = DoneFor(r)
  PROVE  Keeps(p, r, n) /\ ~n.gr_recovery
<1>1. CASE ~r.gr_recovery
  BY <1>1, KeepsRefl, Zenon DEF DoneFor
<1>2. CASE r.gr_recovery
  <2>1. /\ n.state = r.state /\ ~n.gr_recovery
        /\ \A c \in Channels[p] :
               /\ n.channels[c].state = r.channels[c].state
               /\ (n.channels[c].disabled <=> r.channels[c].disabled)
               /\ (n.channels[c].export <=> r.channels[c].export
                                \/ (r.channels[c].state = "UP" /\ r.channels[c].gr_wait))
               /\ ~n.channels[c].gr_wait /\ ~n.channels[c].gr_lock
    BY <1>2, DoneFields, ZenonT(30)
  <2>2. Closed(p, r) => Closed(p, n)
    BY <2>1, Zenon DEF Closed
  <2>3. Recov(p, r) => Recov(p, n)
    BY <2>1, Zenon DEF Recov, KernelOK, Waits
  <2> QED
    BY <2>1, <2>2, <2>3, Zenon DEF Keeps, Full, Less
<1> QED
  BY <1>1, <1>2

(* The end of a flush does.                                                *)
LEMMA FlushedKeeps ==
  ASSUME NEW p \in Protos, NEW r, r \in Instance(p), NEW c \in Channels[p],
         r.channels[c].state = "FLUSHING", NEW n, n = FlushDone(r, c)
  PROVE  Keeps(p, r, n)
<1>1. /\ n.state = r.state /\ (n.gr_recovery <=> r.gr_recovery)
      /\ n.channels[c] = channel_set_state(r.channels[c], "DOWN")
      /\ \A d \in Channels[p] \ {c} : n.channels[d] = r.channels[d]
  BY FlushedFields
<1>2. /\ n.channels[c].state = "DOWN" /\ ~n.channels[c].export
      /\ (n.channels[c].disabled <=> r.channels[c].disabled)
      /\ (n.channels[c].gr_wait <=> r.channels[c].gr_wait)
      /\ (n.channels[c].gr_lock <=> r.channels[c].gr_lock)
  <2>1. r.channels[c] \in Channel
    BY Zenon DEF Instance
  <2> QED
    BY <1>1, <2>1, SetState DEF ChannelStates
<1>3. Closed(p, r) => Closed(p, n)
  BY <1>1, <1>2, Zenon DEF Closed
<1>4. ASSUME Recov(p, r) PROVE Recov(p, n)
  <2>1. KernelOK(p, n)
    BY <1>1, <1>2, <1>4, Zenon DEF Recov, KernelOK
  <2>2. \A d \in Channels[p] : Waits(n, n.channels[d])
    BY <1>1, <1>2, <1>4, Zenon DEF Recov, Waits
  <2> QED
    BY <1>1, <1>4, <2>1, <2>2, Zenon DEF Recov
<1>5. Less(p, r, n)
  BY <1>1, <1>2, Zenon DEF Less
<1> QED
  BY <1>3, <1>4, <1>5, Zenon DEF Keeps, Full

(* A new session does, unless it has fewer channels or restarts a part     *)
(* of them.                                                                *)
LEMMA SessionKeeps ==
  ASSUME NEW p \in Bgp, NEW r, Base(p, r), r.state = "START", NEW ready,
         NEW peer_gr_ready \in BOOLEAN,
         \A c \in Channels[p] : r.channels[c].state = "START" /\ ~MayShrink => c \in ready,
         r.gr_recovery /\ ~MayBePartial => ready = Channels[p],
         NEW s, s = Session(p, r, ready, peer_gr_ready), NEW n, n = proto_notify_state(s, "UP")
  PROVE  Keeps(p, r, n)
<1>1. p \in Protos /\ r \in Instance(p) /\ p \notin Krt
  BY ProtocolsAssumption, Zenon DEF Protos, Base
<1>2. /\ s \in Instance(p) /\ s.state = r.state /\ (s.gr_recovery <=> r.gr_recovery)
      /\ \A c \in Channels[p] :
             /\ s.channels[c].state = r.channels[c].state
             /\ (s.channels[c].disabled <=> c \notin ready)
             /\ (s.channels[c].export <=> r.channels[c].export)
             /\ (s.channels[c].gr_lock => r.channels[c].gr_lock)
             /\ (s.channels[c].gr_wait <=> r.channels[c].gr_wait
                                           \/ (r.gr_recovery /\ peer_gr_ready))
  <2>1. Sessioned(p, r, ready, peer_gr_ready, s)
    BY <1>1, SessionFields, Zenon
  <2> QED
    BY <2>1, Zenon DEF Sessioned
<1>3. \A c \in Channels[p] : r.channels[c].state # "UP"
  BY SMTT(30) DEF Base, ChanOK
<1>4. /\ Less(p, s, n)
      /\ Open(p, s) => Closed(p, n)
      /\ Ready(p, s, "UP") => Recov(p, n)
  BY <1>1, <1>2, RunFull, Zenon
<1>5. Less(p, r, s)
  BY <1>2, Zenon DEF Less
<1>6. ~MayShrink => Open(p, s)
  BY <1>2, <1>3, Zenon DEF Open
<1>7. ASSUME ~MayBePartial, Recov(p, r) PROVE Ready(p, s, "UP")
  <2>1. KernelOK(p, s)
    BY <1>1, Zenon DEF KernelOK
  <2>2. ASSUME NEW c \in Channels[p]
        PROVE  /\ s.channels[c].export <=> s.channels[c].state = "UP" /\ ~s.channels[c].gr_wait
               /\ s.channels[c].gr_wait =>
                      /\ s.gr_recovery
                      /\ s.channels[c].state \in {"START", "UP"} \/ ~s.channels[c].disabled
    <3>1. Waits(r, r.channels[c])
      BY <1>7, Zenon DEF Recov
    <3> QED
      BY <1>2, <1>3, <1>7, <3>1, Zenon DEF Waits
  <2> QED
    BY <2>1, <2>2, Zenon DEF Ready
<1> QED
  BY <1>4, <1>5, <1>6, <1>7, LessTrans, Zenon DEF Keeps, Full

(* End-of-RIB does.                                                        *)
LEMMA EndOfRibKeeps ==
  ASSUME NEW p \in Protos, NEW r, r \in Instance(p), NEW c \in Channels[p], NEW n,
         n = [r EXCEPT !.channels[c].gr_lock = FALSE]
  PROVE  Keeps(p, r, n)
<1>1. /\ n.state = r.state /\ (n.gr_recovery <=> r.gr_recovery)
      /\ \A d \in Channels[p] :
             /\ n.channels[d].state = r.channels[d].state
             /\ (n.channels[d].disabled <=> r.channels[d].disabled)
             /\ (n.channels[d].export <=> r.channels[d].export)
             /\ (n.channels[d].gr_wait <=> r.channels[d].gr_wait)
             /\ (n.channels[d].gr_lock => r.channels[d].gr_lock)
  BY EndOfRibFields
<1>2. Closed(p, r) => Closed(p, n)
  BY <1>1, Zenon DEF Closed
<1>3. Recov(p, r) => Recov(p, n)
  BY <1>1, ZenonT(30) DEF Recov, KernelOK, Waits
<1> QED
  BY <1>1, <1>2, <1>3, Zenon DEF Keeps, Full, Less

----------------------------------------------------------------------------
(* The steps after the boot, for all instances together.                   *)
Late == \A p \in Protos : proto[p].exists => graceful_restart_state \in {"ACTIVE", "DONE"}

Good ==
    /\ graceful_restart_state \in {"ACTIVE", "DONE"}
    /\ \A p \in Protos : Full(p, proto[p]) => Full(p, proto'[p])
    /\ \E before : /\ Update(before, proto')
                   /\ \A p \in Protos : /\ Less(p, proto[p], before[p])
                                        /\ Less(p, before[p], proto'[p])

(* It is enough to look at the protocol that changes.                      *)
LEMMA OneGood ==
  ASSUME BInv, graceful_restart_state \in {"ACTIVE", "DONE"}, NEW p \in Protos, NEW r,
         Keeps(p, proto[p], r), UpdateOne(p, r)
  PROVE  Good
<1>1. Update(proto, proto') /\ proto' = [proto EXCEPT ![p] = r]
  BY DEF UpdateOne, Update
<1>2. proto' = [q \in Protos |-> IF q = p THEN r ELSE proto[q]]
  BY <1>1, Zenon DEF BInv, Shape
<1>3. \A q \in Protos : Keeps(q, proto[q], proto'[q])
  BY <1>2, KeepsRefl, Zenon
<1> QED
  BY <1>1, <1>3, LessRefl, Zenon DEF Good, Keeps

(* The shutdown of the daemon is good for the recovery:                    *)
LEMMA ShutdownLoopGood ==
  ASSUME BInv, Late, proto_shutdown_loop
  PROVE  Good
<1> DEFINE F(p) == IF proto[p].down_sched = "NONE" THEN proto[p]
                   ELSE IF proto[p].down_sched = "DISABLE"
                   THEN Goal(p, [proto[p] EXCEPT !.disabled = TRUE])
                   ELSE RestartGoal(p, proto[p])
<1>1. Update(proto, [p \in Protos |-> F(p)])
  BY DEF proto_shutdown_loop
<1>2. proto' = [p \in Protos |-> F(p)]
  BY <1>1, Zenon DEF Update
<1>3. ASSUME NEW p \in Protos, proto[p].down_sched # "NONE" PROVE proto[p].exists
  BY <1>3, NotExisting DEF BInv
<1>4. graceful_restart_state \in {"ACTIVE", "DONE"}
  BY <1>3 DEF proto_shutdown_loop, Late
<1>5. ASSUME NEW p \in Protos PROVE Keeps(p, proto[p], F(p))
  <2>1. Base(p, proto[p])
    BY DEF BInv
  <2>2. CASE proto[p].down_sched = "NONE"
    BY <2>2, KeepsRefl, Zenon
  <2>3. CASE proto[p].down_sched # "NONE"
    BY <1>3, <1>4, <2>1, <2>3, DisableGoalKeeps, RestartKeeps, Zenon
  <2> QED
    BY <2>2, <2>3
<1> HIDE DEF F
<1>6. \A p \in Protos : Keeps(p, proto[p], proto'[p])
  BY <1>2, <1>5, Zenon
<1> QED
  BY <1>1, <1>2, <1>4, <1>6, LessRefl, Zenon DEF Good, Keeps

(* so are a reconfiguration,                                               *)
LEMMA CommitGood ==
  ASSUME BInv, NEW on, NEW off, NEW compatible, protos_commit(on, off, compatible)
  PROVE  Good
<1> DEFINE b(p) == CommitBase(p, on, off, compatible)
           before == [p \in Protos |-> b(p)]
<1>1. /\ \A p \in Protos : proto'[p] = Goal(p, b(p))
      /\ Update(before, proto') /\ graceful_restart_state \in {"ACTIVE", "DONE"}
  BY CommitIs, Zenon
<1>2. ASSUME NEW p \in Protos PROVE Base(p, b(p)) /\ Keeps(p, proto[p], b(p))
  <2>1. Base(p, proto[p])
    BY DEF BInv
  <2>2. \/ b(p) = proto[p]
        \/ \E x \in BOOLEAN : b(p) = proto_init(p, x) \/ b(p) = NoProto(p)
        \/ /\ proto[p].exists
           /\ \E cf \in {"NONE", "ON", "OFF"} : b(p) = Marked(proto[p], cf)
    BY CommitCases
  <2> HIDE DEF b
  <2>3. CASE b(p) = proto[p]
    BY <2>1, <2>3, KeepsRefl, Zenon
  <2>4. ASSUME NEW x \in BOOLEAN, b(p) = proto_init(p, x) \/ b(p) = NoProto(p)
        PROVE  Base(p, b(p)) /\ Keeps(p, proto[p], b(p))
    BY <2>4, InitBase, InitFull, Zenon DEF Keeps
  <2>5. ASSUME proto[p].exists, NEW cf \in {"NONE", "ON", "OFF"},
               b(p) = Marked(proto[p], cf)
        PROVE  Base(p, b(p)) /\ Keeps(p, proto[p], b(p))
    BY <2>1, <2>5, MarkedBase, KeepsSame
  <2> QED
    BY <2>2, <2>3, <2>4, <2>5, Zenon
<1>3. \A p \in Protos : before[p] = b(p)
  BY Zenon
<1> HIDE DEF b, before
<1>4. \A p \in Protos : Keeps(p, b(p), proto'[p])
  BY <1>1, <1>2, GoalKeeps, Zenon DEF Keeps
<1> QED
  BY <1>1, <1>2, <1>3, <1>4, Zenon DEF Good, Keeps

(* the event of a protocol,                                                *)
LEMMA EventGood ==
  ASSUME BInv, Late, NEW p \in Protos, proto_event(p)
  PROVE  Good
<1> DEFINE r == proto[p]
           n == Renew(p, Idle(r))
           before == [proto EXCEPT ![p] = n]
<1>1. Base(p, r) /\ r.exists /\ r \in Instance(p)
  BY EventIs, NotExisting, Zenon DEF BInv, Base
<1>2. graceful_restart_state \in {"ACTIVE", "DONE"}
  BY <1>1, Zenon DEF Late
<1>3. CASE ~proto_is_done(Waited(r))
  <2>1. UpdateOne(p, Waited(r))
    BY <1>3, EventIs, Zenon
  <2>2. /\ Waited(r).state = r.state /\ (Waited(r).gr_recovery <=> r.gr_recovery)
        /\ Waited(r).channels = r.channels
    BY <1>1, Zenon DEF Waited, Instance
  <2> QED
    BY <1>2, <2>1, <2>2, KeepsSame, OneGood, Zenon
<1>4. CASE proto_is_done(Waited(r))
  <2>1. Update(before, [proto EXCEPT ![p] = Goal(p, n)])
    BY <1>4, EventIs, Zenon
  <2>2. /\ Base(p, Idle(r)) /\ Idle(r).channels = r.channels
        /\ (Idle(r).gr_recovery <=> r.gr_recovery)
    BY <1>1, <1>4, EventBase, Zenon
  <2>3. Idle(r).state = r.state
    BY <1>1, Zenon DEF Idle, Instance
  <2>4. Keeps(p, r, Idle(r))
    BY <2>2, <2>3, KeepsSame, Zenon
  <2>5. Base(p, n) /\ Keeps(p, r, n)
    BY <2>2, <2>4, RenewBase, RenewKeeps, KeepsTrans, Zenon
  <2>6. before = [q \in Protos |-> IF q = p THEN n ELSE proto[q]]
    BY DEF BInv, Shape
  <2>7. proto' = [q \in Protos |-> IF q = p THEN Goal(p, n) ELSE proto[q]]
    BY <2>1, Zenon DEF BInv, Shape, Update
  <2>8. Update(before, proto')
    BY <2>1 DEF Update
  <2> HIDE DEF n, before
  <2>9. Keeps(p, n, Goal(p, n))
    BY <1>2, <2>5, GoalKeeps, Zenon DEF Keeps
  <2>10. \A q \in Protos : Keeps(q, proto[q], before[q]) /\ Keeps(q, before[q], proto'[q])
    BY <2>5, <2>6, <2>7, <2>9, KeepsRefl, Zenon
  <2> QED
    BY <1>2, <2>8, <2>10, Zenon DEF Good, Keeps
<1> QED
  BY <1>3, <1>4

(* the end of a flush,                                                     *)
LEMMA FlushedGood ==
  ASSUME BInv, Late, NEW p \in Protos, NEW c \in Channels[p], channel_do_down(p, c)
  PROVE  Good
<1> DEFINE r == proto[p]
           n == FlushDone(r, c)
<1>1. Base(p, r) /\ r \in Instance(p)
  BY Zenon DEF BInv, Base
<1>2. r.channels[c].state = "FLUSHING" /\ UpdateOne(p, n)
  BY Zenon DEF channel_do_down, FlushDone, Flushed
<1>3. r.exists
  BY <1>1, <1>2, NotExisting DEF NewChannel
<1>4. Keeps(p, r, n)
  BY <1>1, <1>2, FlushedKeeps, Zenon
<1> QED
  BY <1>2, <1>3, <1>4, OneGood, Zenon DEF Late

(* a command,                                                              *)
LEMMA CommandGood ==
  ASSUME BInv, Late, NEW p \in Protos,
         proto_cmd_disable(p) \/ proto_cmd_enable(p) \/ proto_cmd_restart(p)
  PROVE  Good
<1>1. Base(p, proto[p]) /\ proto[p].exists
  BY DEF BInv, proto_cmd_disable, proto_cmd_enable, proto_cmd_restart
<1>2. graceful_restart_state \in {"ACTIVE", "DONE"}
  BY <1>1 DEF Late
<1>3. ASSUME NEW off \in BOOLEAN, UpdateOne(p, Goal(p, [proto[p] EXCEPT !.disabled = off]))
      PROVE  Good
  BY <1>1, <1>2, <1>3, DisableGoalKeeps, OneGood, Zenon
<1>4. CASE proto_cmd_disable(p) \/ proto_cmd_enable(p)
  BY <1>3, <1>4, Zenon DEF proto_cmd_disable, proto_cmd_enable
<1>5. CASE proto_cmd_restart(p)
  <2>1. UpdateOne(p, RestartGoal(p, proto[p]))
    BY <1>5, Zenon DEF proto_cmd_restart
  <2> QED
    BY <1>1, <1>2, <2>1, RestartKeeps, OneGood, Zenon
<1> QED
  BY <1>4, <1>5, Zenon

(* a limit,                                                                *)
LEMMA LimitGood ==
  ASSUME BInv, Late, NEW p \in Protos, NEW action \in {"RESTART", "DISABLE"},
         channel_notify_limit(p, action)
  PROVE  Good
<1> DEFINE r == proto[p]
           n == [r EXCEPT !.down_sched = action]
<1>1. Base(p, r) /\ r \in Instance(p) /\ r.state = "UP" /\ UpdateOne(p, n)
  BY DEF BInv, Base, channel_notify_limit
<1>2. r.exists
  BY <1>1, NotExisting
<1>3. n.state = r.state /\ (n.gr_recovery <=> r.gr_recovery) /\ n.channels = r.channels
  BY <1>1, Zenon DEF Instance
<1> HIDE DEF n
<1> QED
  BY <1>1, <1>2, <1>3, KeepsSame, OneGood, Zenon DEF Late

(* a new session,                                                          *)
LEMMA SessionGood ==
  ASSUME BInv, Late, NEW p \in Bgp, NEW ready \in SUBSET Channels[p],
         NEW peer_gr_ready \in BOOLEAN, Established(p, ready, peer_gr_ready)
  PROVE  Good
<1> DEFINE r == proto[p]
           s == Session(p, r, ready, peer_gr_ready)
           n == proto_notify_state(s, "UP")
<1>1. p \in Protos /\ Base(p, r) /\ r.state = "START"
  BY Zenon DEF BInv, Established, Protos
<1>2. r.exists
  BY <1>1, NotExisting, Zenon
<1>3. UpdateOne(p, n)
  BY Zenon DEF Established, Session
<1>4. /\ \A c \in Channels[p] : r.channels[c].state = "START" /\ ~MayShrink => c \in ready
      /\ r.gr_recovery /\ ~MayBePartial => ready = Channels[p]
  BY Zenon DEF Established
<1>5. Keeps(p, r, n)
  BY <1>1, <1>4, SessionKeeps, Zenon
<1> QED
  BY <1>1, <1>2, <1>3, <1>5, OneGood, Zenon DEF Late

(* End-of-RIB,                                                             *)
LEMMA EndOfRibGood ==
  ASSUME BInv, Late, NEW p \in Protos, NEW c \in Channels[p], EndOfRib(p, c)
  PROVE  Good
<1> DEFINE r == proto[p]
           n == [r EXCEPT !.channels[c].gr_lock = FALSE]
<1>1. Base(p, r) /\ r \in Instance(p) /\ r.state = "UP" /\ UpdateOne(p, n)
  BY DEF BInv, Base, EndOfRib
<1>2. r.exists
  BY <1>1, NotExisting, Zenon
<1>3. Keeps(p, r, n)
  BY <1>1, EndOfRibKeeps, Zenon
<1> QED
  BY <1>1, <1>2, <1>3, OneGood, Zenon DEF Late

(* and the end of a session.                                               *)
LEMMA SessionEndsGood ==
  ASSUME BInv, Late, NEW p \in Protos,
         \/ bgp_handle_graceful_restart(p) \/ bgp_down(p) \/ bgp_initiate(p)
         \/ \E disable \in BOOLEAN : bgp_stop(p, disable)
  PROVE  Good
<1> DEFINE r == proto[p]
<1>1. Base(p, r) /\ r \in Instance(p)
  BY Zenon DEF BInv, Base
<1>2. r.exists
  BY <1>1, NotExisting, Zenon DEF bgp_handle_graceful_restart, bgp_down, bgp_initiate, bgp_stop
<1>3. graceful_restart_state \in {"ACTIVE", "DONE"}
  BY <1>2 DEF Late
<1>4. CASE bgp_handle_graceful_restart(p)
  <2>1. r.state = "UP" /\ UpdateOne(p, proto_notify_state(r, "START"))
    BY <1>4, Zenon DEF bgp_handle_graceful_restart
  <2> QED
    BY <1>1, <1>3, <2>1, RunKeeps, OneGood, Zenon
<1>5. CASE bgp_down(p)
  <2>1. r.state = "STOP" /\ UpdateOne(p, proto_notify_state(r, "DOWN"))
    BY <1>5, Zenon DEF bgp_down
  <2> QED
    BY <1>1, <1>3, <2>1, DownKeeps, OneGood, Zenon
<1>6. ASSUME NEW off \in BOOLEAN, NEW st \in {"STOP", "DOWN"}, r.state \in {"START", "UP"},
             UpdateOne(p, proto_notify_state([proto[p] EXCEPT !.disabled = off], st))
      PROVE  Good
  <2> DEFINE s == [r EXCEPT !.disabled = off]
  <2>1. s \in Instance(p) /\ s.state = r.state
    BY <1>1, <1>2, DisabledBase DEF Base
  <2>2. Keeps(p, r, s) /\ UpdateOne(p, proto_notify_state(s, st))
    BY <1>1, <1>6, DisabledKeeps, Zenon
  <2> HIDE DEF s
  <2>3. Keeps(p, s, proto_notify_state(s, st))
    BY <1>6, <2>1, StopKeeps, Zenon
  <2> QED
    BY <1>3, <2>2, <2>3, KeepsTrans, OneGood, Zenon
<1>7. CASE bgp_initiate(p)
  BY <1>6, <1>7, Zenon DEF bgp_initiate
<1>8. ASSUME NEW disable \in BOOLEAN, bgp_stop(p, disable) PROVE Good
  <2> DEFINE off == proto[p].disabled \/ disable
  <2>1. /\ r.state \in {"START", "UP"} /\ off \in BOOLEAN
        /\ UpdateOne(p, proto_notify_state([proto[p] EXCEPT !.disabled = off], "STOP"))
    BY <1>8 DEF bgp_stop
  <2> HIDE DEF off
  <2> QED
    BY <1>6, <2>1, Zenon
<1> QED
  BY <1>4, <1>5, <1>7, <1>8, Zenon

(* Every step after the boot is good, but for the end of the recovery.     *)
LEMMA GoodStep ==
  ASSUME BInv, Late, Next,
         ~ \E on, off \in SUBSET Protos : Boot(on, off), ~graceful_restart_done
  PROVE  Good
<1>1. CASE proto_shutdown_loop
  BY <1>1, ShutdownLoopGood, Zenon
<1>2. ASSUME NEW on, NEW off, NEW compatible, protos_commit(on, off, compatible) PROVE Good
  BY <1>2, CommitGood, Zenon
<1>3. ASSUME NEW p \in Protos,
             \/ proto_event(p)
             \/ \E c \in Channels[p] : channel_do_down(p, c)
             \/ proto_cmd_disable(p) \/ proto_cmd_enable(p) \/ proto_cmd_restart(p)
             \/ \E action \in {"RESTART", "DISABLE"} : channel_notify_limit(p, action)
      PROVE  Good
  BY <1>3, EventGood, FlushedGood, CommandGood, LimitGood, Zenon
<1>4. ASSUME NEW p \in Bgp,
             \/ \E ready \in SUBSET Channels[p], peer_gr_ready \in BOOLEAN :
                    Established(p, ready, peer_gr_ready)
             \/ \E c \in Channels[p] : EndOfRib(p, c)
             \/ bgp_handle_graceful_restart(p)
             \/ \E disable \in BOOLEAN : bgp_stop(p, disable)
             \/ bgp_down(p) \/ bgp_initiate(p)
      PROVE  Good
  <2>1. p \in Protos
    BY DEF Protos
  <2>2. ASSUME NEW ready \in SUBSET Channels[p], NEW peer_gr_ready \in BOOLEAN,
               Established(p, ready, peer_gr_ready)
        PROVE  Good
    BY <2>2, SessionGood, Zenon
  <2>3. ASSUME NEW c \in Channels[p], EndOfRib(p, c) PROVE Good
    BY <2>1, <2>3, EndOfRibGood, Zenon
  <2> QED
    BY <1>4, <2>1, <2>2, <2>3, SessionEndsGood, Zenon
<1> QED
  BY <1>1, <1>2, <1>3, <1>4, Zenon DEF Next

----------------------------------------------------------------------------
(* The locks of the recovery.                                              *)
LEMMA LocksFinite ==
  ASSUME NEW w PROVE IsFiniteSet(Locks(w)) /\ Cardinality(Locks(w)) \in Nat
<1> DEFINE S == {{p} \X Channels[p] : p \in Protos}
           f == [p \in Protos |-> {p} \X Channels[p]]
<1>1. IsFiniteSet(Protos)
  BY ProtocolsAssumption, FS_Union, Zenon DEF Protos
<1>2. f \in Surjection(Protos, S)
  BY DEF Surjection
<1>3. IsFiniteSet(S)
  <2> HIDE DEF f, S
  <2> QED
    BY <1>1, <1>2, FS_Surjection, Zenon
<1>4. ASSUME NEW T \in S PROVE IsFiniteSet(T)
  <2>1. PICK p \in Protos : T = {p} \X Channels[p]
    OBVIOUS
  <2> QED
    BY <2>1, ProtocolsAssumption, FS_Singleton, FS_Product, Zenon
<1>5. IsFiniteSet(UNION S)
  <2> HIDE DEF S
  <2> QED
    BY <1>3, <1>4, FS_UNION, Zenon
<1>6. Locks(w) \in SUBSET (UNION S)
  BY DEF Locks
<1> HIDE DEF S
<1> QED
  BY <1>5, <1>6, FS_Subset, FS_CardinalityType, Zenon

(* If no instance has more locks, there are no more locks.                 *)
LEMMA LessLocks ==
  ASSUME NEW v, NEW w, \A p \in Protos : Less(p, v[p], w[p])
  PROVE  Locks(w) \subseteq Locks(v) /\ Cardinality(Locks(w)) <= Cardinality(Locks(v))
<1>1. ASSUME NEW l \in Locks(w) PROVE l \in Locks(v)
  <2>1. PICK p \in Protos : l \in {p} \X Channels[p]
    BY Zenon DEF Locks
  <2>2. l[1] = p /\ l[2] \in Channels[p]
    BY <2>1
  <2> QED
    BY <1>1, <2>2, Zenon DEF Locks, Less
<1>2. Locks(w) \in SUBSET Locks(v)
  BY <1>1, Zenon
<1> QED
  BY <1>2, LocksFinite, FS_Subset, Zenon

(* The state of the recovery.  As long as it goes on, every channel that   *)
(* locks it is counted.                                                    *)
GInv ==
    /\ graceful_restart_state \in {"NONE", "INIT", "ACTIVE", "DONE"}
    /\ graceful_restart_locks \in Int
    /\ gr_wait_timer \in {"OFF", "WAIT", "NOW"}
    /\ gr_wait_timer # "OFF" <=> graceful_restart_state = "ACTIVE"
    /\ \A p \in Protos : /\ proto[p].exists => graceful_restart_state \in {"ACTIVE", "DONE"}
                         /\ proto[p].gr_recovery => graceful_restart_state = "ACTIVE"
    /\ graceful_restart_state = "ACTIVE" =>
           graceful_restart_locks >= Cardinality(Locks(proto))
    /\ gr_wait_timer = "NOW" => Locks(proto) = {}

FInv == \A p \in Protos : Full(p, proto[p])

(* Good steps keep the invariants of the recovery.                         *)
LEMMA GoodInv ==
  ASSUME GInv, Good PROVE GInv'
<1>1. PICK before : /\ Update(before, proto')
                    /\ \A p \in Protos : /\ Less(p, proto[p], before[p])
                                         /\ Less(p, before[p], proto'[p])
  BY Zenon DEF Good
<1>2. /\ Locks(before) \subseteq Locks(proto) /\ Locks(proto') \subseteq Locks(before)
      /\ Cardinality(Locks(before)) <= Cardinality(Locks(proto))
      /\ Cardinality(Locks(proto')) <= Cardinality(Locks(before))
  BY <1>1, LessLocks, Zenon
<1>3. /\ IsFiniteSet(Locks(proto')) /\ Cardinality(Locks(proto')) \in Nat
      /\ Cardinality(Locks(before)) \in Nat /\ Cardinality(Locks(proto)) \in Nat
  BY LocksFinite, Zenon
<1>4. \A p \in Protos : proto'[p].gr_recovery => proto[p].gr_recovery
  BY <1>1, Zenon DEF Less
<1>5. /\ graceful_restart_locks' = graceful_restart_locks
             + Cardinality(Locks(proto')) - Cardinality(Locks(before))
      /\ gr_wait_timer' = IF /\ graceful_restart_state = "ACTIVE"
                             /\ graceful_restart_locks' # graceful_restart_locks
                             /\ graceful_restart_locks' = 0
                          THEN "NOW" ELSE gr_wait_timer
      /\ graceful_restart_state' = graceful_restart_state
  BY <1>1, Zenon DEF Update
<1>6. /\ graceful_restart_locks' \in Int
      /\ graceful_restart_state' = "ACTIVE" =>
             graceful_restart_locks' >= Cardinality(Locks(proto'))
  BY <1>2, <1>3, <1>5 DEF GInv
<1>7. Cardinality(Locks(proto')) = 0 => Locks(proto') = {}
  BY <1>3, FS_EmptySet, Zenon
<1>8. gr_wait_timer' = "NOW" => Locks(proto') = {}
  <2>1. CASE gr_wait_timer = "NOW"
    BY <1>2, <2>1, Zenon DEF GInv
  <2>2. CASE gr_wait_timer # "NOW"
    BY <1>3, <1>5, <1>6, <1>7, <2>2, SMTT(30)
  <2> QED
    BY <2>1, <2>2, Zenon
<1>9. Locks(proto)' = Locks(proto')
  BY Zenon DEF Locks
<1>10. /\ gr_wait_timer' \in {"OFF", "WAIT", "NOW"}
       /\ gr_wait_timer' # "OFF" <=> graceful_restart_state' = "ACTIVE"
  BY <1>5, Zenon DEF GInv
<1>11. \A p \in Protos :
           /\ proto'[p].exists => graceful_restart_state' \in {"ACTIVE", "DONE"}
           /\ proto'[p].gr_recovery => graceful_restart_state' = "ACTIVE"
  BY <1>4, <1>5, Zenon DEF GInv, Good
<1> QED
  BY <1>5, <1>6, <1>8, <1>9, <1>10, <1>11, Zenon DEF GInv

(* The boot establishes the invariants of the recovery.                    *)
LEMMA BootRecovery ==
  ASSUME BInv, GInv, NEW on \in SUBSET Protos, NEW off \in SUBSET Protos, Boot(on, off)
  PROVE  GInv' /\ FInv'
<1> DEFINE booted == [p \in Protos |->
               IF p \in on \union off THEN Goal(p, proto_init(p, p \in off)) ELSE NoProto(p)]
           locks == Cardinality(Locks(booted))
<1>1. /\ graceful_restart_state \in {"NONE", "INIT"}
      /\ \/ /\ graceful_restart_state = "INIT" /\ locks > 0
            /\ proto' = booted /\ graceful_restart_locks' = locks
            /\ graceful_restart_state' = "ACTIVE" /\ gr_wait_timer' = "WAIT"
         \/ /\ proto' = [p \in Protos |-> DoneFor(booted[p])]
            /\ graceful_restart_locks' = 0 /\ graceful_restart_state' = "DONE"
            /\ gr_wait_timer' = gr_wait_timer
  BY Zenon DEF Boot
<1>2. ASSUME NEW p \in Protos PROVE Full(p, booted[p]) /\ Base(p, booted[p])
  <2>1. CASE p \in on \union off
    <3>1. booted[p] = Goal(p, proto_init(p, p \in off)) /\ (p \in off) \in BOOLEAN
      BY <2>1
    <3>2. Base(p, proto_init(p, p \in off)) /\ Full(p, proto_init(p, p \in off))
      BY <3>1, InitFull, InitBase, Zenon
    <3> QED
      BY <3>1, <3>2, GoalKeeps, GoalBase, Zenon
  <2>2. CASE p \notin on \union off
    <3>1. booted[p] = NoProto(p) /\ FALSE \in BOOLEAN
      BY <2>2, Zenon
    <3> QED
      BY <3>1, InitFull, InitBase, Zenon
  <2> QED
    BY <2>1, <2>2, Zenon
<1>3. locks \in Nat
  BY LocksFinite, Zenon
<1>4. ASSUME NEW p \in Protos
      PROVE  Full(p, DoneFor(booted[p])) /\ ~DoneFor(booted[p]).gr_recovery
  <2>1. booted[p] \in Instance(p)
    BY <1>2, Zenon DEF Base
  <2> HIDE DEF booted
  <2> QED
    BY <1>2, <2>1, DoneKeeps, Zenon DEF Keeps
<1>5. Locks(proto)' = Locks(proto') /\ gr_wait_timer = "OFF"
  BY <1>1, Zenon DEF Locks, GInv
<1> HIDE DEF booted
<1>6. CASE proto' = booted /\ graceful_restart_state' = "ACTIVE" /\ gr_wait_timer' = "WAIT"
           /\ graceful_restart_locks' = locks
  BY <1>2, <1>3, <1>5, <1>6, SMTT(30) DEF GInv, FInv
<1>7. CASE /\ proto' = [p \in Protos |-> DoneFor(booted[p])]
           /\ graceful_restart_locks' = 0 /\ graceful_restart_state' = "DONE"
           /\ gr_wait_timer' = gr_wait_timer
  BY <1>4, <1>5, <1>7, SMTT(30) DEF GInv, FInv
<1> QED
  BY <1>1, <1>6, <1>7, Zenon

(* The end of the recovery keeps its invariants: it lets every channel     *)
(* export.                                                                 *)
LEMMA RecoveryDone ==
  ASSUME BInv, GInv, FInv, graceful_restart_done
  PROVE  GInv' /\ FInv'
<1>1. /\ proto' = [p \in Protos |-> DoneFor(proto[p])] /\ graceful_restart_state' = "DONE"
      /\ graceful_restart_locks' = 0 /\ gr_wait_timer' = "OFF"
  BY DEF graceful_restart_done
<1>2. ASSUME NEW p \in Protos
      PROVE  Full(p, DoneFor(proto[p])) /\ ~DoneFor(proto[p]).gr_recovery
  <2>1. proto[p] \in Instance(p) /\ Full(p, proto[p])
    BY Zenon DEF BInv, Base, FInv
  <2> QED
    BY <2>1, DoneKeeps, Zenon DEF Keeps
<1> QED
  BY <1>1, <1>2 DEF GInv, FInv

(* They hold in the beginning.                                             *)
LEMMA RecoveryInit == Init => GInv /\ FInv
<1> SUFFICES ASSUME Init PROVE GInv /\ FInv
  OBVIOUS
<1>1. ASSUME NEW p \in Protos
      PROVE  Full(p, proto[p]) /\ ~proto[p].exists /\ ~proto[p].gr_recovery
  <2>1. proto[p] = NoProto(p) /\ FALSE \in BOOLEAN
    BY DEF Init
  <2>2. ~NoProto(p).exists
    BY DEF NoProto, proto_init
  <2> QED
    BY <2>1, <2>2, InitFull, InitFields, Zenon
<1> QED
  BY <1>1 DEF GInv, FInv, Init

(* Every step keeps them.                                                  *)
LEMMA RecoveryStep == BInv /\ GInv /\ FInv /\ [Next]_vars => GInv' /\ FInv'
<1> SUFFICES ASSUME BInv, GInv, FInv, [Next]_vars PROVE GInv' /\ FInv'
  OBVIOUS
<1>1. CASE \E on, off \in SUBSET Protos : Boot(on, off)
  BY <1>1, BootRecovery
<1>2. CASE graceful_restart_done
  BY <1>2, RecoveryDone, Zenon
<1>3. CASE /\ Next /\ ~graceful_restart_done
           /\ ~ \E on, off \in SUBSET Protos : Boot(on, off)
  <2>1. Good
    BY <1>3, GoodStep, Zenon DEF GInv, Late
  <2> QED
    BY <2>1, GoodInv, Zenon DEF Good, FInv
<1>4. CASE UNCHANGED vars
  BY <1>4, Zenon DEF vars, GInv, FInv, Locks
<1> QED
  BY <1>1, <1>2, <1>3, <1>4, Zenon

(* They always hold.                                                       *)
LEMMA RecoveryInvariant == Spec => [](GInv /\ FInv)
<1>1. BInv /\ GInv /\ FInv /\ [Next]_vars => (GInv /\ FInv)'
  BY RecoveryStep
<1> QED
  BY <1>1, RecoveryInit, BaseInvariant, PTL DEF Spec

----------------------------------------------------------------------------
(* Types: a shutdown is scheduled only for protocols that run, and an      *)
(* instance that is not down is active.                                    *)
THEOREM TypeCorrect == Spec => []TypeOK
<1>1. BInv /\ GInv => TypeOK
  BY Zenon DEF BInv, GInv, TypeOK, Base, Instance, ProtoStates
<1> QED
  BY <1>1, BaseInvariant, RecoveryInvariant, PTL

(* The channels of a protocol are closed by the core when it goes down, if *)
(* no session lacks a channel of the one before (bgp.c disables a channel  *)
(* that is not in the session, and proto_stop_channels() passes it by).    *)
THEOREM ChannelsAreClosed == ASSUME ~MayShrink PROVE Spec => []ClosedWhenDown
<1>1. FInv => ClosedWhenDown
  BY DEF FInv, Full, Closed, ClosedWhenDown, channel_is_active
<1> QED
  BY <1>1, RecoveryInvariant, PTL

(* The recovery ends before its time only when no channel locks it,        *)
(* whatever the sessions are like: the count of locks is never too low.    *)
THEOREM RecoveryEndsUnlocked == Spec => []EndsUnlocked
<1>1. GInv => EndsUnlocked
  BY DEF GInv, EndsUnlocked
<1> QED
  BY <1>1, RecoveryInvariant, PTL

(* The recovery holds the exports back until its end and lets them go      *)
(* then, if each session has all channels that wait.                       *)
THEOREM RecoveryIsSound ==
  ASSUME ~MayShrink, ~MayBePartial PROVE Spec => []RecoverySound
<1>1. ASSUME GInv, FInv PROVE RecoverySound
  <2>1. \A p \in Protos : Recov(p, proto[p])
    BY <1>1 DEF FInv, Full
  <2>2. EndsUnlocked
    BY <1>1, Zenon DEF GInv, EndsUnlocked
  <2>3. ExportsResume
    BY <1>1, <2>1, Zenon DEF GInv, Recov, Waits, ExportsResume
  <2>4. KernelWaits
    BY <2>1 DEF Recov, KernelOK, Waits, KernelWaits, Protos
  <2> QED
    BY <2>2, <2>3, <2>4, Zenon DEF RecoverySound
<1> QED
  BY <1>1, RecoveryInvariant, PTL
============================================================================
