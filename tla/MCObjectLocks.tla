--------------------------- MODULE MCObjectLocks ---------------------------
(***************************************************************************)
(* For TLC: the object locks; the interfaces, neighbors and static routes; *)
(* the MPLS labels.  The parts share no state: each behaviour is one of    *)
(* the part that runs, the variables of the others stay as they are.       *)
(***************************************************************************)
EXTENDS ObjectLocks, Integers, FiniteSets, TLC

CONSTANTS a1, a2, lockB, lockW, other, addrA, addrB, portX, portY

VARIABLES part, conf, s, st, k, q, done

MCVars == <<vars, part, conf, s, st, k, q, done>>

LocksPlain == {a1, a2, lockW, other}
ObjectPlain == [l \in LocksPlain |-> IF l = other THEN portY ELSE portX]
LocalPlain == [l \in LocksPlain |-> AnyAddr]

LocksWild == {a1, lockB, lockW}
ObjectWild == [l \in LocksWild |-> portX]
LocalWild == [l \in LocksWild |->
                CASE l = a1 -> addrA [] l = lockB -> addrB [] OTHER -> AnyAddr]

-----------------------------------------------------------------------------
(* Interfaces and static routes *)

NoName == "NULL"
NoAddr == -1
Hop(via) == [via |-> via, iface |-> NoName, onlink |-> FALSE, weight |-> 0, bfd |-> FALSE]
WithBfd(via) == [Hop(via) EXCEPT !.bfd = TRUE]
Through(via, i) == [Hop(via) EXCEPT !.iface = i]
OnLink(via, i) == [Through(via, i) EXCEPT !.onlink = TRUE]
Route(net, hops) == [net |-> net, dest |-> "unicast", aspa |-> FALSE, cmds |-> 0, hops |-> hops]
Blackhole(net) == [Route(net, << >>) EXCEPT !.dest = "blackhole"]
Aspa(net, x) == [Route(net, << >>) EXCEPT !.dest = "aspa", !.aspa = x]
Plain(routes) == [check_link |-> FALSE, routes |-> routes]
Addr(ip, len) == [ip |-> ip, len |-> len, sec |-> FALSE, peer |-> NoAddr]
Dev(name, addrs) == [on |-> TRUE, name |-> name, admin |-> TRUE, link |-> TRUE, kind |-> "bcast",
                     vrf |-> FALSE, master |-> 0, addrs |-> addrs]
Vrf(on) == [Dev("v", << >>) EXCEPT !.vrf = TRUE, !.on = on]
Three(x, y, z) == (1 :> x) @@ (2 :> y) @@ (3 :> z)

StaticBase ==
  [configs |-> <<Plain(<<Route(1, <<Hop(2)>>)>>)>>,
   kernel |-> Three(Dev("a", <<Addr(1, 2)>>), Dev("b", <<Addr(5, 2)>>), Vrf(FALSE)),
   iface |-> [vrf_set |-> FALSE, vrf |-> NoName, direct_link |-> FALSE, prefs |-> {}],
   may |-> {}, names |-> {"a", "b", "c"}, addrs |-> Three({}, {}, {}), senders |-> {2, 6},
   rcvbuf |-> 3, changes |-> 0, losses |-> 0, reloads |-> 0, reconfigs |-> 0, bfds |-> 0,
   restarts |-> 0, finds |-> 0, rescans |-> 0]

\* Devices, links and addresses come and go, and messages get lost.
Moving == [StaticBase EXCEPT !.changes = 2, !.losses = 1, !.may = {"admin", "link", "addr"},
             !.addrs = Three({Addr(1, 2), Addr(33, 2)}, {Addr(3, 3), Addr(5, 2)}, {})]

\* A VRF.
InVrf(v) == [StaticBase EXCEPT !.changes = 2, !.may = {"master", "admin", "remove"},
               !.kernel = Three([Dev("a", <<Addr(1, 2)>>) EXCEPT !.master = 3],
                                Dev("b", <<Addr(9, 2)>>), Vrf(TRUE)),
               !.iface.vrf_set = TRUE, !.iface.vrf = v,
               !.configs = <<Plain(<<Route(1, <<Hop(2)>>), Route(2, <<Hop(10)>>)>>)>>]

\* Names, kinds, peers, secondary and preferred addresses.
Renaming == [StaticBase EXCEPT !.changes = 2, !.may = {"rename", "kind", "remove", "addr"},
               !.rcvbuf = 4, !.iface.prefs = {13},
               !.kernel = Three(Dev("a", <<Addr(1, 2), Addr(33, 2), [Addr(3, 2) EXCEPT !.sec = TRUE]>>),
                                [Dev("b", <<[Addr(5, 4) EXCEPT !.peer = 9], Addr(17, 2)>>)
                                   EXCEPT !.kind = "ptp"],
                                Vrf(FALSE)),
               !.addrs = Three({Addr(1, 2), Addr(13, 2), Addr(33, 2)},
                               {[Addr(5, 4) EXCEPT !.peer = 9]}, {}),
               !.configs = <<Plain(<<Route(1, <<Hop(2)>>), Route(2, <<Hop(9)>>),
                                     Route(2, <<Through(34, "a"), Through(NoAddr, "b")>>)>>)>>]

\* Several next hops with link state and BFD.
Multipath == [StaticBase EXCEPT !.changes = 2, !.may = {"link", "admin"}, !.bfds = 2, !.reloads = 1,
                !.configs = <<[check_link |-> TRUE, routes |-> <<Route(1, <<WithBfd(2), Hop(6)>>)>>]>>]

Changing == [StaticBase EXCEPT !.changes = 1, !.may = {"link"}, !.bfds = 1, !.reconfigs = 2, !.restarts = 1,
               !.configs = <<Plain(<<Route(1, <<Hop(2), WithBfd(6)>>), Route(2, <<Hop(2)>>), Blackhole(3)>>),
                             Plain(<<Route(1, <<Hop(2), WithBfd(6)>>), Route(2, <<Hop(6)>>), Aspa(3, TRUE)>>),
                             Plain(<<[Route(1, <<Hop(2)>>) EXCEPT !.cmds = 1], Route(1, <<WithBfd(6)>>),
                                     Aspa(3, FALSE)>>)>>]

\* A RIP neighbor is looked up meanwhile.
Looking == [StaticBase EXCEPT !.changes = 1, !.finds = 2, !.rescans = 1,
              !.may = {"link", "admin", "kind", "addr", "remove"},
              !.addrs = Three({Addr(1, 2), Addr(2, 3)}, {}, {}),
              !.configs = <<Plain(<<Route(1, <<OnLink(11, "a")>>)>>)>>]

StaticConfigs == {Moving, InVrf(NoName), InVrf("v"), Renaming, Multipath, Changing, Looking}

Static == INSTANCE Static WITH IP_WIDTH <- 4, Devices <- {1, 2, 3}, Configs <- StaticConfigs

-----------------------------------------------------------------------------
(* MPLS labels *)

Range(n, start, len) == [name |-> n, start |-> start, length |-> len]
Channel(d, r, pol) == [on |-> TRUE, domain |-> d, range |-> r, policy |-> pol]
NoChannel == [on |-> FALSE]
Labelled(lab, h, nh, labs, orig) ==
  [on |-> TRUE, policy |-> "DEFAULT", label |-> lab, class |-> 0, host |-> h, nh |-> nh,
   labels |-> labs, orig |-> orig]
Simple(nh) == Labelled(0, 0, nh, << >>, 0)
Domain1 == <<Range("static", 16, 2), Range("dynamic", 18, 2)>>
Domain2 == <<Range("static", 16, 3), Range("dynamic", 19, 2)>>
Domain3 == <<Range("static", 17, 2), Range("dynamic", 19, 3)>>
Plan(doms, p1, p2) == [domains |-> doms, protos |-> (1 :> p1) @@ (2 :> p2)]

MplsBase ==
  [plan |-> <<Plan(1 :> Domain1, Channel(1, "dynamic", "PREFIX"), Channel(1, "dynamic", "AGGREGATE")),
              Plan(1 :> Domain2, Channel(1, "dynamic", "PREFIX"), Channel(1, "dynamic", "AGGREGATE"))>>,
   domains |-> {1}, kind |-> (1 :> "static") @@ (2 :> "bgp"), vrf |-> (1 :> 0) @@ (2 :> 0),
   routes |-> (1 :> {Simple(1), Simple(3), Labelled(17, 0, 1, << >>, 0)}) @@ (2 :> {Simple(2)}),
   blocked |-> {FALSE}, stop |-> FALSE, updates |-> 3, restarts |-> 1]

\* Both policies change, and the ranges move.
Swapped ==
  [MplsBase EXCEPT !.updates = 2,
     !.routes[2] = {Labelled(0, 1, 1, <<7, 5>>, 1), Labelled(0, 1, 2, <<5>>, 1), Simple(2)},
     !.plan[2] = Plan(1 :> Domain3, Channel(1, "dynamic", "AGGREGATE"), Channel(1, "dynamic", "PREFIX"))]

\* A protocol loses its VRF label and another one its range.
Narrowed ==
  [MplsBase EXCEPT !.updates = 2, !.vrf[2] = 9, !.blocked = BOOLEAN,
     !.plan = <<Plan(1 :> Append(Domain1, Range("extra", 20, 2)),
                     Channel(1, "extra", "PREFIX"), Channel(1, "dynamic", "VRF")),
                Plan(1 :> Domain1, Channel(1, "dynamic", "PREFIX"), Channel(1, "dynamic", "PREFIX"))>>]

\* A domain and a protocol go.
Dropped ==
  [MplsBase EXCEPT !.domains = {1, 2},
     !.plan = <<Plan((1 :> Domain1) @@ (2 :> Domain1),
                     Channel(1, "dynamic", "PREFIX"), Channel(2, "dynamic", "PREFIX")),
                Plan(2 :> Domain1, Channel(2, "dynamic", "PREFIX"), NoChannel)>>]

MplsConfigs == {MplsBase, Swapped, Narrowed, Dropped}

Mpls == INSTANCE Mpls WITH Protos <- {1, 2}, Nets <- {1, 2}, Configs <- MplsConfigs

-----------------------------------------------------------------------------
MCInit ==
  /\ Init
  /\ \/ part = "locks" /\ conf = 0 /\ s = 0 /\ st = 0 /\ k = 0 /\ q = 0 /\ done = 0
     \/ part = "static" /\ Static!Init
     \/ part = "mpls" /\ Mpls!Init /\ st = 0 /\ k = 0 /\ q = 0

\* The scenarios of the last two parts come to an end.
Over == part # "locks" /\ UNCHANGED MCVars

MCNext ==
  \/ part = "locks" /\ Next /\ UNCHANGED <<part, conf, s, st, k, q, done>>
  \/ part = "static" /\ Static!Next /\ UNCHANGED <<vars, part>>
  \/ part = "mpls" /\ Mpls!Next /\ UNCHANGED <<vars, part, st, k, q>>
  \/ Over

\* Nothing of what the kernel or a reconfiguration changed is left to be done.
Idle ==
  /\ part = "static" => Static!ScanIdle /\ q = << >> /\ ~st.event /\ st.up
  /\ part = "mpls" => ~Mpls!Pending

\* The fairness of ObjectLocks.
MCSpec ==
  /\ MCInit /\ [][MCNext]_MCVars
  /\ WF_vars(olock_run_event) /\ \A l \in Locks : SF_vars(Release(l))

(* See Static: neighbors, direct routes and static routes are what the     *)
(* interfaces say.                                                         *)
InterfacesFollowed ==
  part = "static" =>
    /\ Static!TypeOK /\ Static!NeighborsRight /\ Static!ProtocolsTold /\ Static!StaticExact
    /\ Idle => Static!KernelFollowed

(* See Mpls: counts of labels and users are exact, labels lead right.      *)
LabelsExact ==
  part = "mpls" =>
    /\ Mpls!TypeOK /\ Mpls!CountsExact /\ Mpls!LabelsRight
    /\ Idle => Mpls!Settled

(* See ObjectLocks: who waits for a lock gets it.                          *)
Progress == Served(lockW)
=============================================================================
