------------------------------ MODULE BirdLoop ------------------------------
(***************************************************************************)
(* The event loop of the BFD thread, proto/bfd/io.c, and the main thread   *)
(* that works on the loop's timers, events and sockets.                    *)
(*                                                                         *)
(* The loop holds its mutex all the time except while it sleeps in poll(). *)
(* The main thread takes the mutex with birdloop_enter() for every change, *)
(* so each of its operations is one step.  What it changes while the       *)
(* thread sleeps must wake the thread up through a pipe.                   *)
(***************************************************************************)
EXTENDS Naturals, FiniteSets

CONSTANTS
  Socks,     \* the sockets the main thread opens in the loop
  Far,       \* expiry times of timers are 1 .. Far; Far + 1 means none
  MaxOps     \* bound on the operations of the main thread

VARIABLES
  lpc,              \* the thread: "none", "run" or "poll"
  poll_active,
  kicked,           \* something is in the wakeup pipe
  wakeup_masked,    \* 0, 1, or 2 when a wakeup was asked for meanwhile
  events,           \* the event list is not empty
  timer,            \* expiry of the first timer
  timeout,          \* how long poll() sleeps; 0: not at all
  sock,             \* sock[s]: "new", "listed" (in sock_list) or "stopped"
  fd,               \* fd[s]: "none", "open" or "closed"
  polled,           \* the sockets in the arrays poll() got
  nulled,           \* those of them sk_stop() took out
  seen,             \* history: the sockets that ever were in the arrays
  poll_changed, close_scheduled, stop_called,
  ops

vars == <<lpc, poll_active, kicked, wakeup_masked, events, timer, timeout,
          sock, fd, polled, nulled, seen, poll_changed, close_scheduled, stop_called, ops>>

sockvars == <<sock, fd, polled, nulled, seen, poll_changed, close_scheduled>>
Never == Far + 1
-----------------------------------------------------------------------------

wakeup_kick ==
  IF wakeup_masked = 0 THEN kicked' = TRUE /\ UNCHANGED wakeup_masked
  ELSE wakeup_masked' = 2 /\ UNCHANGED kicked

KickIf(c) == IF c THEN wakeup_kick ELSE UNCHANGED <<kicked, wakeup_masked>>

MainOp == ops < MaxOps /\ ops' = ops + 1

ev2_schedule ==
  /\ MainOp
  /\ KickIf(poll_active /\ ~ events)
  /\ events' = TRUE
  /\ UNCHANGED <<lpc, poll_active, timer, timeout, sockvars, stop_called>>

\* tm_set() of a timer that becomes the first one, and tm_stop() of the first.
tm_set(t) ==
  /\ MainOp
  /\ t < timer
  /\ timer' = t
  /\ KickIf(poll_active)
  /\ UNCHANGED <<lpc, poll_active, events, timeout, sockvars, stop_called>>

tm_stop(t) ==
  /\ MainOp
  /\ t > timer
  /\ timer' = t
  /\ UNCHANGED <<lpc, poll_active, kicked, wakeup_masked, events, timeout, sockvars, stop_called>>

sk_start(s) ==
  /\ MainOp
  /\ sock[s] = "new"
  /\ sock' = [sock EXCEPT ![s] = "listed"]
  /\ fd' = [fd EXCEPT ![s] = "open"]
  /\ poll_changed' = TRUE
  /\ KickIf(poll_active)
  /\ UNCHANGED <<lpc, poll_active, events, timer, timeout, polled, nulled,
                 seen, close_scheduled, stop_called>>

sk_stop(s) ==
  /\ MainOp
  /\ sock[s] = "listed"
  /\ sock' = [sock EXCEPT ![s] = "stopped"]
  /\ nulled' = nulled \cup ({s} \cap polled)
  /\ poll_changed' = TRUE
  /\ IF poll_active
     THEN close_scheduled' = TRUE /\ wakeup_kick /\ UNCHANGED fd
     ELSE /\ fd' = [fd EXCEPT ![s] = "closed"]
          /\ UNCHANGED <<close_scheduled, kicked, wakeup_masked>>
  /\ UNCHANGED <<lpc, poll_active, events, timer, timeout, polled, seen, stop_called>>

birdloop_mask_wakeups ==
  /\ wakeup_masked = 0
  /\ MainOp
  /\ wakeup_masked' = 1
  /\ UNCHANGED <<lpc, poll_active, kicked, events, timer, timeout, sockvars, stop_called>>

birdloop_unmask_wakeups ==
  /\ wakeup_masked # 0
  /\ kicked' = (kicked \/ wakeup_masked = 2)
  /\ wakeup_masked' = 0
  /\ UNCHANGED <<lpc, poll_active, events, timer, timeout, sockvars, stop_called, ops>>

birdloop_start ==
  /\ lpc = "none" /\ ~ stop_called
  /\ MainOp
  /\ lpc' = "run"
  /\ UNCHANGED <<poll_active, kicked, wakeup_masked, events, timer, timeout, sockvars, stop_called>>

\* The main thread then waits in pthread_join().
birdloop_stop ==
  /\ lpc # "none" /\ wakeup_masked = 0
  /\ MainOp
  /\ stop_called' = TRUE
  /\ kicked' = TRUE
  /\ UNCHANGED <<lpc, poll_active, wakeup_masked, events, timer, timeout, sockvars>>
-----------------------------------------------------------------------------
(* The thread, birdloop_main().  Event and timer hooks run first; they may *)
(* schedule events and set timers themselves.                              *)
sockets_prepare ==
  /\ polled' = IF poll_changed THEN {s \in Socks : sock[s] = "listed"} ELSE polled
  /\ nulled' = IF poll_changed THEN {} ELSE nulled
  /\ poll_changed' = FALSE
  /\ seen' = seen \cup polled'

PollStart ==
  /\ lpc = "run"
  /\ events' \in BOOLEAN
  /\ timer' \in {timer, Far, Never}
  /\ timeout' = IF events' THEN 0 ELSE timer'
  /\ sockets_prepare
  /\ poll_active' = TRUE
  /\ lpc' = "poll"
  /\ UNCHANGED <<kicked, wakeup_masked, sock, fd, close_scheduled, stop_called, ops>>

sockets_close_fds ==
  /\ fd' = IF close_scheduled
           THEN [s \in Socks |-> IF s \in nulled THEN "closed" ELSE fd[s]] ELSE fd
  /\ close_scheduled' = FALSE

\* poll() returns: woken up, or after its timeout.  The pipe is drained by
\* sockets_fire(), which the loop does not reach when it has to stop.
PollEnd ==
  /\ lpc = "poll"
  /\ kicked \/ timeout # Never
  /\ poll_active' = FALSE
  /\ sockets_close_fds
  /\ lpc' = IF stop_called THEN "none" ELSE "run"
  /\ stop_called' = FALSE
  /\ kicked' = (kicked /\ stop_called)
  /\ UNCHANGED <<wakeup_masked, events, timer, timeout, sock, polled, nulled, seen, poll_changed, ops>>

Init ==
  /\ lpc = "none" /\ poll_active = FALSE
  /\ kicked = FALSE /\ wakeup_masked = 0
  /\ events = FALSE /\ timer = Never /\ timeout = Never
  /\ sock = [s \in Socks |-> "new"] /\ fd = [s \in Socks |-> "none"]
  /\ polled = {} /\ nulled = {} /\ seen = {}
  /\ poll_changed = TRUE /\ close_scheduled = FALSE /\ stop_called = FALSE
  /\ ops = 0

MainThread ==
  \/ ev2_schedule
  \/ \E t \in 1 .. Never : tm_set(t) \/ tm_stop(t)
  \/ \E s \in Socks : sk_start(s) \/ sk_stop(s)
  \/ birdloop_mask_wakeups
  \/ birdloop_start
  \/ birdloop_stop

Next ==
  \/ ~ stop_called /\ MainThread
  \/ birdloop_unmask_wakeups
  \/ PollStart
  \/ PollEnd

Spec == Init /\ [][Next]_vars

\* The thread is scheduled; the main thread unmasks what it masked.
Fairness ==
  /\ WF_vars(PollStart) /\ WF_vars(PollEnd) /\ WF_vars(birdloop_unmask_wakeups)

FairSpec == Spec /\ Fairness
-----------------------------------------------------------------------------
TypeOK ==
  /\ lpc \in {"none", "run", "poll"}
  /\ wakeup_masked \in 0 .. 2
  /\ timer \in 1 .. Never /\ timeout \in 0 .. Never
  /\ sock \in [Socks -> {"new", "listed", "stopped"}]
  /\ fd \in [Socks -> {"none", "open", "closed"}]

\* No lost wakeup: whatever the main thread leaves for the sleeping thread (an
\* event, a timer before the end of the sleep, a changed set of sockets, a
\* request to stop), poll() returns in time, or the wakeup waits for
\* birdloop_unmask_wakeups().
WakesInTime ==
  lpc = "poll" /\ (events \/ timer < timeout \/ poll_changed \/ stop_called)
  => kicked \/ timeout = 0 \/ wakeup_masked = 2

\* poll() never watches a descriptor that was closed meanwhile (its number
\* could be given to another file).
PolledOpen == lpc = "poll" => \A s \in polled : fd[s] = "open"

\* A stopped socket does not keep its descriptor: it is closed, or it will be
\* when poll() returns.  This does not hold for a socket that is started and
\* stopped within one sleep of the thread: it never was in the arrays, where
\* sockets_close_fds() looks for the descriptors to close.
FdsClosed ==
  \A s \in seen :
    sock[s] = "stopped" /\ fd[s] = "open" => close_scheduled /\ s \in nulled

\* A thread that was told to stop ends, so that the main thread is not left
\* waiting for it.
Stopped == stop_called => lpc = "none"
StopsEventually == <>[]Stopped
=============================================================================
