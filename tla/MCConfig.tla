------------------------------ MODULE MCConfig ------------------------------
(***************************************************************************)
(* For TLC: the configuration manager; the three parts of BFD (a session   *)
(* between two routers, the requests of other protocols, the event loop of *)
(* the BFD thread); and the data of filters (AS paths, path masks, lists   *)
(* of communities, prefix sets), for which each input is an initial state. *)
(* The parts share no state: a behaviour is one of the part that runs.     *)
(***************************************************************************)
EXTENDS Config, Integers, Sequences, TLC

CONSTANTS c1, c2, c3, c4

VARIABLES
  part, input,
  sess, chan, missed, heard, faults,
  proto, loc_state, request_list, wait_list, req, uc, notify_list, tmp_list,
  pipe, bfd_pc, pc, cur, snap, nn, changes, ops,
  lpc, poll_active, kicked, wakeup_masked, events, timer, timeout, sock, fd,
  polled, nulled, seen, poll_changed, close_scheduled, stop_called

session_vars == <<sess, chan, missed, heard, faults>>
request_vars == <<proto, loc_state, request_list, wait_list, req, uc, notify_list,
                  tmp_list, pipe, bfd_pc, pc, cur, snap, nn, changes, ops>>
loop_vars == <<lpc, poll_active, kicked, wakeup_masked, events, timer, timeout,
               sock, fd, polled, nulled, seen, poll_changed, close_scheduled, stop_called, ops>>
bfd_vars == <<session_vars, request_vars, loop_vars>>
MCVars == <<vars, part, input, bfd_vars>>

(* Four configurations are in memory at most: the active one, the old one, *)
(* the queued one and the one being parsed.                                *)
MCConfigs == {c1, c2, c3, c4}

-----------------------------------------------------------------------------
(* BFD *)

Slow(passive) == [min_tx |-> 2, idle_tx |-> 3, min_rx |-> 1, passive |-> passive]
Fast(passive) == [min_tx |-> 1, idle_tx |-> 3, min_rx |-> 2, passive |-> passive]

Session == INSTANCE BfdSession WITH
  Ends <- {"a", "b"}, Configs <- {Slow(TRUE), Slow(FALSE), Fast(TRUE), Fast(FALSE)},
  FirstConfig <- ("a" :> Fast(TRUE)) @@ ("b" :> Slow(FALSE)), MaxInFlight <- 2, MaxFaults <- 2

Requests == INSTANCE BfdRequests WITH
  Reqs <- 1 .. 3, Sessions <- {"s1", "s2"}, Target <- <<"s1", "s1", "s2">>,
  Own <- {2}, Accepted <- {"s1", "s2"},
  IfaceOf <- ("s1" :> "i1") @@ ("s2" :> "i1"), MaxChanges <- 3, MaxOps <- 4

Loop == INSTANCE BirdLoop WITH Socks <- {"k1", "k2"}, Far <- 2, MaxOps <- 5

-----------------------------------------------------------------------------
(* The data of filters; 9 is an AS number of more than two bytes.          *)
Paths == INSTANCE Paths WITH AS16 <- 8, AS_TRANS <- 6, SegMax <- 2

Seg(t, as) == [t |-> t, as |-> as]
PathsOf(segs, n) == UNION {[1..k -> segs] : k \in 0..n}
PathSegs ==
  {Seg(t, as) : t \in {"SET", "SEQUENCE", "CONFED_SEQUENCE"}, as \in {<<1>>, <<1, 2>>, <<2, 9>>}}
  \cup {Seg("CONFED_SET", <<3>>)}
MaskSegs ==
  {Seg("SET", <<1, 2>>), Seg("SET", <<3>>), Seg("SEQUENCE", <<1>>), Seg("SEQUENCE", <<2, 1>>),
   Seg("CONFED_SET", <<1>>)}
Interval(x, y) == [from |-> <<x>>, to |-> <<y>>]
Item(k, f) == [kind |-> k, set |-> Paths!build_tree(f, TRUE)]
Items ==
  {<<Item("ASN", <<Interval(1, 1)>>)>>, <<Item("ASN", <<Interval(2, 3)>>)>>,
   <<Item("QUESTION", << >>)>>, <<Item("ASTERISK", << >>)>>,
   <<Item("ASN", <<Interval(2, 2)>>), Item("LOOP", << >>)>>,
   <<Item("QUESTION", << >>), Item("LOOP", << >>)>>}
Sets ==
  {<< >>, <<Interval(1, 1)>>, <<Interval(2, 9), Interval(1, 1)>>,
   <<Interval(1, 3), Interval(2, 2)>>, <<Interval(3, 4), Interval(2, 3), Interval(9, 9)>>}
Values == {<<1>>, <<2>>, <<3>>}

PathInput ==
  \E p1 \in PathsOf(PathSegs, 2), as \in {1, 9}, n \in 0..3, f \in {<< >>, <<Interval(2, 9)>>},
    p2 \in {<< >>, <<Seg("SEQUENCE", <<1, 2, 2>>)>>, <<Seg("SET", <<1>>), Seg("SEQUENCE", <<2>>)>>} :
    input = <<p1, p2, as, n, f>>
MaskInput ==
  \E p \in PathsOf(MaskSegs, 3), i \in Items, j \in Items \cup {<< >>} : input = <<p, i \o j>>
ListInput ==
  \E l \in PathsOf(Values, 3), k \in {<< >>, <<<<2>>, <<9>>>>, <<<<5>>, <<5>>>>}, v \in Values, f \in Sets :
    input = <<l, k, v, f>>

\* Addresses of four bits, two of them for each node: two patterns of a prefix
\* set, and the networks of a table.
Tries == INSTANCE Trie WITH MAX_PREFIX_LENGTH <- 4, TRIE_STEP <- 2

Pattern(x, n, l, h) == [px |-> Tries!and_mask(x, n), plen |-> n, l |-> l, h |-> h]
TrieInput ==
  \/ \E x \in {0, 6, 12}, n \in {0, 1, 3}, l, h \in 0..4, y \in {0, 5, 8}, m \in {1, 2, 3, 4}, k \in 0..4 :
       n <= m /\ l <= h /\ input = <<Pattern(x, n, l, h), Pattern(y, m, k, 4)>>
  \/ \E x, y, z \in {0, 1, 4, 6, 9, 15}, n, m, k \in {1, 2, 4} :
       x < y /\ input = <<Pattern(x, n, n, n), Pattern(y, m, m, m), Pattern(z, k, k, k)>>

-----------------------------------------------------------------------------
MCInit ==
  /\ Init /\ Session!Init /\ Requests!Init /\ Loop!Init
  /\ \/ part \in {"config", "session", "requests", "loop"} /\ input = 0
     \/ part = "paths" /\ PathInput
     \/ part = "masks" /\ MaskInput
     \/ part = "lists" /\ ListInput
     \/ part = "tries" /\ TrieInput
  /\ part # "config" => config = c1

\* A step of a part, and what it leaves alone.
ConfigStep(A) == part = "config" /\ A /\ UNCHANGED <<part, input, bfd_vars>>
SessionStep(A) ==
  part = "session" /\ A /\ UNCHANGED <<vars, part, input, request_vars, loop_vars>>
RequestsStep(A) ==
  /\ part = "requests" /\ A
  /\ UNCHANGED <<vars, part, input, session_vars, lpc, poll_active, kicked, wakeup_masked,
                 events, timer, timeout, sock, fd, polled, nulled, seen, poll_changed,
                 close_scheduled, stop_called>>
LoopStep(A) ==
  /\ part = "loop" /\ A
  /\ UNCHANGED <<vars, part, input, session_vars, proto, loc_state, request_list, wait_list,
                 req, uc, notify_list, tmp_list, pipe, bfd_pc, pc, cur, snap, nn, changes>>

\* The daemon may have nothing to do.
Over == UNCHANGED MCVars

MCNext ==
  \/ ConfigStep(Next)
  \/ SessionStep(Session!Next)
  \/ RequestsStep(Requests!Next)
  \/ LoopStep(Loop!Next)
  \/ Over

\* The fairness of each part, in the behaviours that run it: one formula serves
\* several parts.
Fairness ==
  /\ \A e \in {"a", "b"} :
       /\ WF_MCVars(SessionStep(Session!bfd_rx_hook(e)))
       /\ SF_MCVars(SessionStep(Session!bfd_tx_timer_hook(e)))
       /\ SF_MCVars(SessionStep(Session!bfd_hold_timer_hook(e)))
  /\ WF_MCVars(\/ ConfigStep(\E n \in 0..MaxObstacles : config_done(n))
               \/ RequestsStep(Requests!bfd_notify_kick)
               \/ LoopStep(Loop!PollStart))
  /\ WF_MCVars(\/ RequestsStep(Requests!MainThread)
               \/ LoopStep(Loop!PollEnd)
               \/ ConfigStep(\E c \in Configs \ {config} : config_del_obstacle(c)))
  /\ WF_MCVars(LoopStep(Loop!birdloop_unmask_wakeups))

MCSpec == MCInit /\ [][MCNext]_MCVars /\ Fairness

(* See BfdSession, BfdRequests and BirdLoop: intervals fit together, and   *)
(* up needs an echo; requests are in the right lists, sessions not leaked, *)
(* and whoever is to be notified will be; no wakeup is lost, no closed     *)
(* descriptor polled.                                                      *)
BfdRight ==
  /\ part = "session" => /\ Session!TypeOK /\ Session!IntervalOrder
                         /\ Session!DetectionCoversTx /\ Session!UpNeedsEcho
  /\ part = "requests" => /\ Requests!TypeOK /\ Requests!NotifiedExist /\ Requests!RequestsPlaced
                          /\ Requests!NoLeak /\ Requests!KickPending
  /\ part = "loop" => /\ Loop!TypeOK /\ Loop!WakesInTime /\ Loop!PolledOpen /\ Loop!FdsClosed

(* See Paths and Trie: operations on paths and lists keep account of what  *)
(* they do; masks and prefix sets match what they say.                     *)
FilterDataRight ==
  /\ part = "paths" => Paths!PathsRight(input[1], input[2], input[3], input[4], input[5])
  /\ part = "masks" => Paths!MatchesExactly(input[1], input[2])
  /\ part = "lists" => Paths!ListsRight(input[1], input[2], input[3], input[4])
  /\ part = "tries" => Tries!TrieRight(input)

(* See Config, BfdSession, BfdRequests and BirdLoop: requests are obeyed,  *)
(* sessions come up, protocols learn of it, the thread stops when told to. *)
Progress ==
  /\ RequestsObeyed
  /\ <>[](/\ part = "session" => Session!Connected
          /\ part = "requests" => Requests!Informed
          /\ part = "loop" => Loop!Stopped)
=============================================================================
