-------------------------- MODULE MCChannelExport --------------------------
(***************************************************************************)
(* For TLC: the export of routes by a channel, and two users of exported   *)
(* routes: the kernel protocol and the monitoring protocol BMP.  The parts *)
(* share no state: a behaviour is one of the part that runs.               *)
(***************************************************************************)
EXTENDS ChannelExport, Integers, TLC

CONSTANTS n1, n2

VARIABLES part, conf, tab, s, p, bgp, st

others == <<part, conf, tab, s, p, bgp, st>>
MCVars == <<vars, others>>

Setup(limit, rpki, pause) ==
    [out_limit |-> limit, rpki_reload |-> rpki, may_pause |-> pause]

(* A channel with a tight limit and automatic reload, that is not paused;  *)
(* one that is paused, with a limit that is never reached.                 *)
MCNets == {n1, n2}
MCSetups == {Setup(1, TRUE, FALSE), Setup(2, FALSE, TRUE)}

----------------------------------------------------------------------------
(* The kernel protocol: updates and failing requests, learning, a restart  *)
(* with and without graceful restart, changes of the filter.               *)
KrtBase ==
    [metric |-> 3, kernel |-> {}, ipv4 |-> TRUE, accept |-> {1, 2}, learn |-> "no",
     persist |-> FALSE, gr |-> FALSE, periodic |-> TRUE, failures |-> 0, updates |-> 0,
     refilters |-> 0, reloads |-> 0, stops |-> 0, crashes |-> 0, aliens |-> 0, drops |-> 0,
     downs |-> 0]
Installed(n, d) == [net |-> n, metric |-> 3, proto |-> "bird", dest |-> d]

KrtConfigs ==
    {[KrtBase EXCEPT !.updates = 3, !.failures = 1],
     [KrtBase EXCEPT !.learn = "all", !.aliens = 2, !.drops = 1, !.downs = 1],
     [KrtBase EXCEPT !.gr = TRUE, !.kernel = {Installed(1, 1), Installed(2, 2)},
                     !.updates = 3, !.crashes = 1],
     [KrtBase EXCEPT !.stops = 1, !.kernel = {Installed(1, 1)}, !.updates = 3],
     [KrtBase EXCEPT !.learn = "alien", !.aliens = 1, !.updates = 1, !.reloads = 1,
                     !.periodic = FALSE],
     [KrtBase EXCEPT !.ipv4 = FALSE, !.refilters = 1, !.updates = 2, !.failures = 1],
     [KrtBase EXCEPT !.learn = "alien", !.aliens = 1, !.updates = 1, !.stops = 1,
                     !.persist = TRUE]}

Krt == INSTANCE Krt WITH Nets <- {1, 2}, Metrics <- {1, 3}, Dests <- {1, 2}, Configs <- KrtConfigs

(* The monitoring protocol: blocked and broken sessions, peers that come   *)
(* and go, a tight limit, reconfigurations.                                *)
BmpBase ==
    [monitored |-> {"pre", "post"}, accepted |-> {1}, up |-> {1, 2}, limit |-> 9,
     tight |-> FALSE, breaks |-> 0, blocks |-> 0, ups |-> 0, downs |-> 0, changes |-> 0,
     plans |-> << >>]
OnePeer == [BmpBase EXCEPT !.up = {1}]
PostOnly == [BmpBase EXCEPT !.monitored = {"post"}, !.accepted = {1, 2}]
Plan(limit, restart) == [limit |-> limit, monitored |-> {"post"}, restart |-> restart]

BmpConfigs ==
    {[OnePeer EXCEPT !.changes = 1, !.blocks = 1],
     [OnePeer EXCEPT !.changes = 1, !.breaks = 1],
     [PostOnly EXCEPT !.downs = 1, !.ups = 1, !.changes = 1],
     [PostOnly EXCEPT !.changes = 1, !.breaks = 1, !.blocks = 1],
     [PostOnly EXCEPT !.limit = 3, !.tight = TRUE, !.blocks = 1, !.changes = 1],
     [OnePeer EXCEPT !.changes = 1, !.plans = <<Plan(8, TRUE), Plan(2, FALSE)>>],
     [OnePeer EXCEPT !.monitored = {"pre"}, !.downs = 1, !.ups = 2]}

Bmp == INSTANCE Bmp WITH Peers <- {1, 2}, Nets <- {1, 2}, PageSize <- 3, MaxCount <- 1,
                         Configs <- BmpConfigs

----------------------------------------------------------------------------
Unused == setup = Setup(1, TRUE, FALSE) /\ routes = {} /\ accepted = {}
MCInit ==
    /\ Init
    /\ \/ part = "export" /\ conf = 0 /\ tab = 0 /\ s = 0 /\ p = 0 /\ bgp = 0 /\ st = 0
       \/ part = "krt" /\ Unused /\ Krt!Init /\ p = 0 /\ bgp = 0 /\ st = 0
       \/ part = "bmp" /\ Unused /\ Bmp!Init /\ tab = 0 /\ s = 0

\* The scenarios of the protocols come to an end.
Over == part # "export" /\ UNCHANGED MCVars

MCNext ==
    \/ part = "export" /\ Next /\ UNCHANGED others
    \/ part = "krt" /\ Krt!Next /\ UNCHANGED <<vars, part, p, bgp, st>>
    \/ part = "bmp" /\ Bmp!Next /\ UNCHANGED <<vars, part, tab, s>>
    \/ Over

\* What finite scenarios leave to do is done: the fairness of Krt and Bmp.
Busy == (part = "krt" /\ Krt!Busy) \/ (part = "bmp" /\ Bmp!Busy)

MCSpec ==
    /\ MCInit /\ [][MCNext]_MCVars
    /\ WF_vars(part = "export" /\ channel_feed_loop /\ Observe)
    /\ WF_vars(part = "export" /\ rt_settle_timer /\ Observe)
    /\ WF_vars(part = "export" /\ graceful_restart_done /\ Observe)
    /\ []<>~Busy \/ []<><<TRUE>>_MCVars

(* See Krt: after a scan the kernel has exactly the exported routes, and   *)
(* none is taken away that is still wanted. See Bmp: a station that has    *)
(* everything sent to it has the routes of every stream that is complete.  *)
ReceiversExact ==
    /\ [](part = "krt" => Krt!TypeOK /\ Krt!KernelSynced)
    /\ [](part = "bmp" => Bmp!TypeOK /\ Bmp!StationExact)
    /\ [][part = "krt" => Krt!Kept]_MCVars

(* See ChannelExport, Krt and Bmp: feeds end, the kernel comes to have the *)
(* exported routes and the station all peers.                              *)
Progress ==
    /\ FeedsFinish
    /\ <>[]((part = "krt" => Krt!Settled) /\ (part = "bmp" => Bmp!Monitored))
============================================================================
