-------------------------- MODULE TablePruneProofs --------------------------
(***************************************************************************)
(* Proofs about the prune loop, for any numbers of networks, channels and  *)
(* walks, and any limit of work in a pass.                                 *)
(***************************************************************************)
EXTENDS TablePrune, FiniteSetTheorems, TLAPS

(* Between cycles no channel is marked and no trie is being built.  In a   *)
(* cycle, the routes of the marked channels are all ahead of the iterator. *)
Cycle ==
    /\ prune_state \in {0, 1} => flush_active = {} /\ ~tries.building
    /\ \A s \in Slots : routes[s].is /\ s[2] \in flush_active => s[1] \in prune_fit

(* The parts that the prune loop itself maintains                          *)
LInv == TypeOK /\ FlushedEmpty /\ WorkNotLost /\ TrieComplete /\ Cycle

IInv == LInv /\ WalksSafe

Routes == [Slots -> Route \union {NoRoute}]

Tries == [trie : SUBSET Nets, new : SUBSET Nets, building : BOOLEAN, old : BOOLEAN,
          prune : BOOLEAN, locks : Nat, old_locks : Nat]

----------------------------------------------------------------------------
(* What a pass does to the routes of the table.                            *)

(* A route that is treated is a route or none; none comes from nothing.    *)
LEMMA TreatedType ==
    ASSUME routes \in Routes, NEW s \in Slots
    PROVE  /\ Treated(s) \in Route \union {NoRoute}
           /\ Treated(s).is => routes[s].is
           /\ Treated(s).flags \subseteq routes[s].flags
<1>1. routes[s] \in Route \union {NoRoute}
  BY DEF Routes
<1>2. CASE Treated(s) = NoRoute
  BY <1>1, <1>2 DEF NoRoute, Route
<1>3. CASE Treated(s) = routes[s]
  BY <1>1, <1>3
<1>4. CASE /\ ToModify(s)
           /\ Treated(s) = [routes[s] EXCEPT !.flags = @ \ {"MODIFY"},
                                             !.community = "LLGR_STALE"]
  <2>1. routes[s] \in Route
    BY <1>1, <1>4 DEF ToModify, NoRoute
  <2> QED
    BY <1>4, <2>1, Zenon DEF Route
<1> QED
  BY <1>2, <1>3, <1>4 DEF Treated

(* A route that had to be treated, and is not stuck, is not due any more.  *)
LEMMA TreatedDone ==
    ASSUME routes \in Routes, NEW s \in Slots, Doomed(s) \/ ToModify(s), ~Stuck(s)
    PROVE  /\ ~IsDue(Treated(s))
           /\ s[2] \in Marked => ~Treated(s).is
<1>1. routes[s] \in Route
  <2>1. routes[s].is
    BY DEF Doomed, ToModify
  <2> QED
    BY <2>1 DEF Routes, NoRoute
<1>2. CASE Treated(s) = NoRoute
  BY <1>2 DEF NoRoute, IsDue
<1>3. CASE Treated(s) # NoRoute
  <2>1. ~Doomed(s) /\ ToModify(s) /\ Treated(s).flags = routes[s].flags \ {"MODIFY"}
    BY <1>1, <1>3 DEF Treated, Route
  <2> QED
    BY <1>1, <2>1 DEF IsDue, Doomed, ToModify
<1> QED
  BY <1>2, <1>3

(* A route that had not to be treated is not due and not of a marked       *)
(* channel.                                                                *)
LEMMA NothingDue ==
    ASSUME routes \in Routes, NEW s \in Slots, ~Doomed(s), ~ToModify(s)
    PROVE  /\ ~IsDue(routes[s])
           /\ s[2] \in Marked => ~routes[s].is
<1>1. CASE routes[s] = NoRoute
  BY <1>1 DEF NoRoute, IsDue
<1>2. CASE routes[s] \in Route
  BY <1>2, Zenon DEF Route, IsDue, Doomed, ToModify
<1> QED
  BY <1>1, <1>2 DEF Routes

(* The table after a pass over the networks S and parts of others.         *)
LEMMA PassEffect ==
    ASSUME routes \in Routes, NEW S, NEW done,
           WorkIn(S) \subseteq done, \A s \in done : ~Stuck(s),
           \A s \in Slots : s \in done => Doomed(s) \/ ToModify(s),
           NEW T, T = TableAfter(done)
    PROVE  /\ T \in Routes
           /\ \A s \in Slots : /\ T[s].is => routes[s].is
                               /\ T[s].flags \subseteq routes[s].flags
                               /\ s[1] \in S => /\ ~IsDue(T[s])
                                                /\ s[2] \in Marked => ~T[s].is
<1>1. \A s \in Slots : T[s] = IF s \in done THEN Treated(s) ELSE routes[s]
  BY DEF TableAfter
<1>2. T \in Routes
  BY <1>1, TreatedType DEF TableAfter, Routes
<1>3. ASSUME NEW s \in Slots
      PROVE  T[s].is => routes[s].is
  BY <1>1, TreatedType
<1>4. ASSUME NEW s \in Slots
      PROVE  T[s].flags \subseteq routes[s].flags
  BY <1>1, TreatedType
<1>5. ASSUME NEW s \in Slots, s[1] \in S
      PROVE  /\ ~IsDue(T[s])
             /\ s[2] \in Marked => ~T[s].is
  <2>1. CASE s \in done
    BY <1>1, <2>1, TreatedDone
  <2>2. CASE s \notin done
    <3>1. ~Doomed(s) /\ ~ToModify(s)
      BY <1>5, <2>2 DEF WorkIn, Work
    <3> QED
      BY <1>1, <2>2, <3>1, NothingDue
  <2> QED
    BY <2>1, <2>2
<1> QED
  BY <1>2, <1>3, <1>4, <1>5
----------------------------------------------------------------------------
(* The steps.   One lemma for each action.                                 *)

(* A scheduled cycle stays scheduled, and one that is wanted is.           *)
LEMMA Scheduled ==
    ASSUME prune_state \in 0..3, event \in BOOLEAN, prune_state > 0 => event,
           NEW wanted \in BOOLEAN, rt_schedule_prune(wanted)
    PROVE  /\ prune_state' \in 0..3 /\ event' \in BOOLEAN
           /\ prune_state' > 0 => event'
           /\ prune_state' \in {0, 1} => prune_state \in {0, 1}
           /\ prune_state \in {1, 3} => prune_state' \in {1, 3}
           /\ wanted => prune_state' \in {1, 3}
<1>1. /\ prune_state' \in 0..3
      /\ prune_state' \in {0, 1} => prune_state \in {0, 1}
      /\ prune_state \in {1, 3} => prune_state' \in {1, 3}
      /\ wanted => prune_state' \in {1, 3}
      /\ prune_state' > 0 => prune_state > 0 \/ (wanted /\ prune_state = 0)
  BY DEF rt_schedule_prune
<1>2. event' = (event \/ (wanted /\ prune_state = 0))
  BY DEF rt_schedule_prune
<1> QED
  BY <1>1, <1>2


(* Flags are added to routes only.                                         *)
LEMMA FlaggedType ==
    ASSUME routes \in Routes, NEW flag \in {"STALE", "DISCARD", "MODIFY"},
           NEW chosen, \A s \in chosen : s \in Slots /\ routes[s].is
    PROVE  Flagged(flag, chosen) \in Routes
<1>1. ASSUME NEW s \in chosen
      PROVE  [routes[s] EXCEPT !.flags = @ \union {flag}] \in Route
  <2>1. routes[s] \in Route
    BY DEF Routes, NoRoute
  <2> QED
    BY <2>1, Zenon DEF Route
<1> QED
  BY <1>1 DEF Flagged, Routes

(* A channel comes up.                                                     *)
LEMMA UpLemma ==
    ASSUME LInv, NEW c \in Channels, ChannelUp(c)
    PROVE  LInv'
<1>1. TypeOK'
  BY DEF LInv, ChannelUp, TypeOK, Flushing
<1>2. FlushedEmpty'
  BY DEF LInv, ChannelUp, TypeOK, FlushedEmpty, Slots
<1>3. WorkNotLost'
  BY DEF LInv, ChannelUp, TypeOK, WorkNotLost, IsDue, Slots
<1>4. TrieComplete'
  BY DEF LInv, ChannelUp, TypeOK, TrieComplete
<1>5. Cycle'
  BY DEF LInv, ChannelUp, TypeOK, Cycle, Flushing, Slots
<1> QED
  BY <1>1, <1>2, <1>3, <1>4, <1>5 DEF LInv

(* A channel begins to flush.                                              *)
LEMMA FlushLemma ==
    ASSUME LInv, NEW c \in Channels, channel_do_flush(c)
    PROVE  LInv'
<1>1. /\ prune_state' \in 0..3 /\ event' \in BOOLEAN
      /\ prune_state' > 0 => event'
      /\ prune_state' \in {0, 1} => prune_state \in {0, 1}
      /\ prune_state \in {1, 3} => prune_state' \in {1, 3}
      /\ TRUE => prune_state' \in {1, 3}
  BY Scheduled, Zenon DEF LInv, TypeOK, WorkNotLost, channel_do_flush
<1>2. TypeOK'
  BY <1>1 DEF LInv, channel_do_flush, TypeOK, Flushing
<1>3. FlushedEmpty'
  BY <1>1 DEF LInv, channel_do_flush, TypeOK, FlushedEmpty, Slots
<1>4. WorkNotLost'
  BY <1>1 DEF LInv, channel_do_flush, TypeOK, WorkNotLost, IsDue, Slots
<1>5. TrieComplete'
  BY <1>1 DEF LInv, channel_do_flush, TypeOK, TrieComplete
<1>6. Cycle'
  BY <1>1 DEF LInv, channel_do_flush, TypeOK, Cycle, Flushing, Slots
<1> QED
  BY <1>2, <1>3, <1>4, <1>5, <1>6 DEF LInv

(* The timer.                                                              *)
LEMMA TimerLemma ==
    ASSUME LInv, NEW many \in BOOLEAN, rt_prune_timer(many)
    PROVE  LInv'
<1>1. /\ prune_state' \in 0..3 /\ event' \in BOOLEAN
      /\ prune_state' > 0 => event'
      /\ prune_state' \in {0, 1} => prune_state \in {0, 1}
      /\ prune_state \in {1, 3} => prune_state' \in {1, 3}
      /\ many => prune_state' \in {1, 3}
  BY Scheduled DEF LInv, TypeOK, WorkNotLost, rt_prune_timer
<1>2. TypeOK'
  BY <1>1, Zenon DEF LInv, rt_prune_timer, TypeOK, Flushing
<1>3. FlushedEmpty'
  BY <1>1 DEF LInv, rt_prune_timer, TypeOK, FlushedEmpty, Slots
<1>4. WorkNotLost'
  BY <1>1 DEF LInv, rt_prune_timer, TypeOK, WorkNotLost, IsDue, Slots
<1>5. TrieComplete'
  BY <1>1 DEF LInv, rt_prune_timer, TypeOK, TrieComplete
<1>6. Cycle'
  BY <1>1 DEF LInv, rt_prune_timer, TypeOK, Cycle, Flushing, Slots
<1> QED
  BY <1>2, <1>3, <1>4, <1>5, <1>6 DEF LInv

(* A route is withdrawn.                                                   *)
LEMMA WithdrawLemma ==
    ASSUME LInv, NEW c \in Channels, NEW n \in Nets, NEW many \in BOOLEAN, rte_withdraw(c, n, many)
    PROVE  LInv'
<1>1. routes' \in Routes /\ prune_timer' \in BOOLEAN
  BY Zenon DEF LInv, TypeOK, rte_withdraw, Routes
<1>2. \A s \in Slots : /\ routes'[s].is => routes[s].is
                       /\ IsDue(routes'[s]) => IsDue(routes[s])
  BY DEF LInv, TypeOK, rte_withdraw, Routes, NoRoute, IsDue
<1>3. UNCHANGED <<channel_state, flush_active, prune_state, prune_fit, event>>
  BY DEF rte_withdraw
<1>4. TypeOK'
  BY <1>1, <1>2, <1>3 DEF LInv, rte_withdraw, TypeOK, Flushing, Routes
<1>5. FlushedEmpty'
  BY <1>1, <1>2, <1>3 DEF LInv, rte_withdraw, TypeOK, FlushedEmpty, Slots, Routes
<1>6. WorkNotLost'
  BY <1>2, <1>3 DEF LInv, TypeOK, WorkNotLost, IsDue
<1>7. TrieComplete'
  BY <1>1, <1>2, <1>3 DEF LInv, rte_withdraw, TypeOK, TrieComplete, Routes
<1>8. Cycle'
  BY <1>1, <1>2, <1>3 DEF LInv, rte_withdraw, TypeOK, Cycle, Flushing, Slots, Routes
<1> QED
  BY <1>4, <1>5, <1>6, <1>7, <1>8 DEF LInv

(* A route is announced.                                                   *)
LEMMA UpdateLemma ==
    ASSUME LInv, NEW c \in Channels, NEW n \in Nets, NEW before \in BOOLEAN,
           NEW community \in {"NONE", "LLGR_STALE", "NO_LLGR"}, rte_update(c, n, community, before)
    PROVE  LInv'
<1>1. routes' \in Routes
  BY Zenon DEF LInv, TypeOK, rte_update, Routes, Route
<1>2. \A s \in Slots : \/ routes'[s] = routes[s]
                       \/ /\ s = <<n, c>> /\ ~IsDue(routes'[s])
  BY DEF LInv, TypeOK, rte_update, IsDue, Slots
<1>3. fib' = fib \union {n} /\ prune_fit \subseteq prune_fit' /\ prune_fit' \subseteq fib'
      /\ prune_fit' \subseteq prune_fit \union {n}
      /\ (prune_state \in {0, 1} => prune_fit' = prune_fit)
  BY DEF LInv, TypeOK, rte_update
<1>4. /\ UNCHANGED <<setup, channel_state, flush_active, prune_state, event, prune_timer, walk>>
      /\ channel_state[c] = "UP"
  BY DEF rte_update
<1>5. /\ tries' \in Tries /\ tries'.building = tries.building
      /\ setup.trie => fib' \subseteq tries'.trie
      /\ setup.trie /\ tries.building => fib' \ prune_fit' \subseteq tries'.new
  <2>1. tries \in Tries
    BY DEF LInv, TypeOK, Tries
  <2>2. CASE n \in fib \/ ~setup.trie
    <3>1. tries' = tries /\ (n \in fib => fib' = fib)
      BY <1>3, <2>2 DEF rte_update, net_init_with_trie
    <3> QED
      BY <1>3, <2>1, <2>2, <3>1 DEF LInv, TrieComplete
  <2>3. CASE n \notin fib /\ setup.trie
    <3> DEFINE new == IF tries.building THEN tries.new \union {n} ELSE tries.new
    <3>1. tries' = [tries EXCEPT !.trie = tries.trie \union {n}, !.new = new]
      BY <2>3 DEF rte_update, net_init_with_trie
    <3>2. new \in SUBSET Nets /\ tries.trie \union {n} \in SUBSET Nets
      BY <2>1 DEF Tries
    <3>3. tries.building => new = tries.new \union {n}
      OBVIOUS
    <3> HIDE DEF new
    <3>4. /\ tries' \in Tries /\ tries'.building = tries.building
          /\ tries'.trie = tries.trie \union {n} /\ tries'.new = new
      BY <2>1, <3>1, <3>2, Zenon DEF Tries
    <3> QED
      BY <1>3, <2>3, <3>3, <3>4 DEF LInv, TrieComplete
  <2> QED
    BY <2>2, <2>3
<1>6. TypeOK'
  <2>1. \A s \in Slots : routes'[s].is => s[1] \in fib'
    BY <1>2, <1>3 DEF LInv, TypeOK
  <2>2. flush_active' \subseteq Flushing' /\ event' \in BOOLEAN /\ prune_timer' \in BOOLEAN
    BY <1>4 DEF LInv, TypeOK, Flushing
  <2>3. prune_state' \in {0, 1} => prune_fit' = {}
    BY <1>3, <1>4 DEF LInv, TypeOK
  <2>4. /\ setup' \in Setups /\ channel_state' \in [Channels -> {"DOWN", "UP", "FLUSHING"}]
        /\ fib' \subseteq Nets /\ prune_state' \in 0..3
        /\ walk' \in [Walks -> {"NONE", "CURRENT", "OLD", "LOST"}]
    BY <1>3, <1>4 DEF LInv, TypeOK
  <2> QED
    BY <1>1, <1>3, <1>5, <2>1, <2>2, <2>3, <2>4 DEF TypeOK, Routes, Tries
<1>7. FlushedEmpty'
  BY <1>2, <1>4 DEF LInv, TypeOK, FlushedEmpty, Slots, IsDue
<1>8. WorkNotLost'
  BY <1>2, <1>3, <1>4 DEF LInv, TypeOK, WorkNotLost, IsDue
<1>9. TrieComplete'
  BY <1>4, <1>5 DEF LInv, TypeOK, TrieComplete, IsDue
<1>10. Cycle'
  BY <1>2, <1>3, <1>4, <1>5 DEF LInv, TypeOK, Cycle, Flushing, Slots, IsDue
<1> QED
  BY <1>6, <1>7, <1>8, <1>9, <1>10 DEF LInv

(* A refresh begins.                                                       *)
LEMMA BeginLemma ==
    ASSUME LInv, NEW c \in Channels, rt_refresh_begin(c)
    PROVE  LInv'
<1>1. UNCHANGED <<prune_state, event>>
  BY DEF rt_refresh_begin
<1>2. routes' = Flagged("STALE", {s \in Slots : s[2] = c /\ routes[s].is})
  BY DEF rt_refresh_begin
<1>3. routes' \in Routes
  BY <1>2, FlaggedType DEF LInv, TypeOK, StaleOf, Routes
<1>4. \A s \in Slots : /\ routes'[s].is => routes[s].is
                       /\ IsDue(routes'[s]) => IsDue(routes[s])
  BY <1>2 DEF LInv, TypeOK, Flagged, StaleOf, IsDue, Route, NoRoute
<1>5. UNCHANGED <<setup, channel_state, flush_active, fib, prune_fit, prune_timer, tries, walk>>
  BY DEF rt_refresh_begin
<1>6. TypeOK'
  BY <1>1, <1>3, <1>4, <1>5 DEF LInv, TypeOK, Routes, Flushing, IsDue
<1>7. FlushedEmpty'
  BY <1>4, <1>5 DEF LInv, TypeOK, FlushedEmpty, IsDue
<1>8. WorkNotLost'
  BY <1>1, <1>4, <1>5 DEF LInv, TypeOK, WorkNotLost, IsDue
<1>9. TrieComplete'
  BY <1>5 DEF LInv, TypeOK, TrieComplete, IsDue
<1>10. Cycle'
  BY <1>1, <1>4, <1>5 DEF LInv, TypeOK, Cycle, IsDue
<1> QED
  BY <1>6, <1>7, <1>8, <1>9, <1>10 DEF LInv

(* A refresh ends.                                                         *)
LEMMA EndLemma ==
    ASSUME LInv, NEW c \in Channels, rt_refresh_end(c)
    PROVE  LInv'
<1>1. /\ prune_state' \in 0..3 /\ event' \in BOOLEAN
      /\ prune_state' > 0 => event'
      /\ prune_state' \in {0, 1} => prune_state \in {0, 1}
      /\ prune_state \in {1, 3} => prune_state' \in {1, 3}
      /\ (StaleOf(c) # {}) => prune_state' \in {1, 3}
  BY Scheduled, Zenon DEF LInv, TypeOK, WorkNotLost, rt_refresh_end
<1>2. routes' = Flagged("DISCARD", StaleOf(c))
  BY DEF rt_refresh_end
<1>3. routes' \in Routes
  BY <1>2, FlaggedType DEF LInv, TypeOK, StaleOf, Routes
<1>4. \A s \in Slots : /\ routes'[s].is => routes[s].is
                       /\ IsDue(routes'[s]) => IsDue(routes[s]) \/ s \in StaleOf(c)
  BY <1>2 DEF LInv, TypeOK, Flagged, StaleOf, IsDue, Route, NoRoute
<1>5. UNCHANGED <<setup, channel_state, flush_active, fib, prune_fit, prune_timer, tries, walk>>
  BY DEF rt_refresh_end
<1>6. TypeOK'
  BY <1>1, <1>3, <1>4, <1>5 DEF LInv, TypeOK, Routes, Flushing, IsDue
<1>7. FlushedEmpty'
  BY <1>4, <1>5 DEF LInv, TypeOK, FlushedEmpty, IsDue
<1>8. WorkNotLost'
  BY <1>1, <1>4, <1>5 DEF LInv, TypeOK, WorkNotLost, IsDue
<1>9. TrieComplete'
  BY <1>5 DEF LInv, TypeOK, TrieComplete, IsDue
<1>10. Cycle'
  BY <1>1, <1>4, <1>5 DEF LInv, TypeOK, Cycle, IsDue
<1> QED
  BY <1>6, <1>7, <1>8, <1>9, <1>10 DEF LInv

(* Stale routes are to be modified.                                        *)
LEMMA ModifyLemma ==
    ASSUME LInv, NEW c \in Channels, rt_modify_stale(c)
    PROVE  LInv'
<1>1. /\ prune_state' \in 0..3 /\ event' \in BOOLEAN
      /\ prune_state' > 0 => event'
      /\ prune_state' \in {0, 1} => prune_state \in {0, 1}
      /\ prune_state \in {1, 3} => prune_state' \in {1, 3}
      /\ (StaleOf(c) # {}) => prune_state' \in {1, 3}
  BY Scheduled, Zenon DEF LInv, TypeOK, WorkNotLost, rt_modify_stale
<1>2. routes' = Flagged("MODIFY", StaleOf(c))
  BY DEF rt_modify_stale
<1>3. routes' \in Routes
  BY <1>2, FlaggedType DEF LInv, TypeOK, StaleOf, Routes
<1>4. \A s \in Slots : /\ routes'[s].is => routes[s].is
                       /\ IsDue(routes'[s]) => IsDue(routes[s]) \/ s \in StaleOf(c)
  BY <1>2 DEF LInv, TypeOK, Flagged, StaleOf, IsDue, Route, NoRoute
<1>5. UNCHANGED <<setup, channel_state, flush_active, fib, prune_fit, prune_timer, tries, walk>>
  BY DEF rt_modify_stale
<1>6. TypeOK'
  BY <1>1, <1>3, <1>4, <1>5 DEF LInv, TypeOK, Routes, Flushing, IsDue
<1>7. FlushedEmpty'
  BY <1>4, <1>5 DEF LInv, TypeOK, FlushedEmpty, IsDue
<1>8. WorkNotLost'
  BY <1>1, <1>4, <1>5 DEF LInv, TypeOK, WorkNotLost, IsDue
<1>9. TrieComplete'
  BY <1>5 DEF LInv, TypeOK, TrieComplete, IsDue
<1>10. Cycle'
  BY <1>1, <1>4, <1>5 DEF LInv, TypeOK, Cycle, IsDue
<1> QED
  BY <1>6, <1>7, <1>8, <1>9, <1>10 DEF LInv

(* What a pass finds at its beginning, also when it begins a cycle.        *)
LEMMA PassBegins ==
    ASSUME LInv, prune_state > 0
    PROVE  /\ Marked \subseteq Flushing
           /\ ToVisit \subseteq fib
           /\ \A s \in Slots : routes[s].is /\ s[2] \in Marked => s[1] \in ToVisit
           /\ \A s \in Slots : IsDue(routes[s]) => s[1] \in ToVisit \/ prune_state = 3
           /\ \A c \in Channels : channel_state[c] = "FLUSHING" => c \in Marked \/ prune_state = 3
           /\ Building \in BOOLEAN /\ NewTrie \in SUBSET Nets
           /\ setup.trie /\ Building => fib \ ToVisit \subseteq NewTrie
           /\ ~Building => ~tries.building
<1>1. ASSUME NEW s \in Slots, IsDue(routes[s])
      PROVE  routes[s].is
  <2>1. routes[s] # NoRoute
    BY <1>1 DEF IsDue, NoRoute
  <2> QED
    BY <2>1, Zenon DEF LInv, TypeOK, Route
<1>2. CASE prune_state = 1
  BY <1>1, <1>2 DEF LInv, TypeOK, Cycle, Begins, Marked, ToVisit, Building, NewTrie, Flushing
<1>3. CASE prune_state \in {2, 3}
  BY <1>3 DEF LInv, TypeOK, WorkNotLost, TrieComplete, Cycle, Begins, Marked, ToVisit,
              Building, NewTrie
<1> QED
  BY <1>2, <1>3 DEF LInv, TypeOK

(* The networks that are freed have no routes left.                        *)
LEMMA OrphansEmpty ==
    ASSUME NEW S, NEW done, \A s \in Slots : s[1] \in S => (s \in done <=> s \in WorkIn(S)),
           NEW s \in Slots, s[1] \in Orphans(S)
    PROVE  ~TableAfter(done)[s].is
<1>1. s[1] \in S /\ RoutesOf(s[1], TableAfter(WorkIn(S))) = {}
  BY DEF Orphans
<1>2. ~TableAfter(WorkIn(S))[s].is
  BY <1>1 DEF RoutesOf
<1>3. TableAfter(done)[s] = TableAfter(WorkIn(S))[s]
  BY <1>1 DEF TableAfter
<1> QED
  BY <1>2, <1>3

(* What a visit of networks adds to the new trie.                          *)
LEMMA OrphansVisited ==
    ASSUME NEW S
    PROVE  Orphans(S) \subseteq S /\ (Building => AddedToTrie(S) = S \ Orphans(S))
  BY DEF Orphans, AddedToTrie

(* A pass that is interrupted                                              *)
LEMMA InterruptedLemma ==
    ASSUME LInv, prune_state > 0, NEW S \in SUBSET ToVisit, NEW n \in ToVisit,
           NEW part \in SUBSET Work(n), PruneInterrupted(S, n, part)
    PROVE  LInv'
<1> DEFINE done == WorkIn(S) \union part
<1>1. /\ routes' = TableAfter(done) /\ fib' = fib \ Orphans(S)
      /\ prune_fit' = ToVisit \ S /\ flush_active' = Marked
      /\ n \notin S /\ Fits(S) /\ \A s \in part : ~Stuck(s)
  BY DEF PruneInterrupted
<1>2. /\ prune_state' = IF Begins THEN 2 ELSE prune_state
      /\ event' = TRUE
      /\ UNCHANGED <<setup, channel_state, prune_timer, walk>>
  BY DEF PruneInterrupted
<1>3. tries' = [tries EXCEPT !.building = Building, !.new = NewTrie \union AddedToTrie(S)]
  BY DEF PruneInterrupted
<1>4. prune_state' \in {2, 3} /\ (prune_state = 3 => prune_state' = 3)
  BY <1>2 DEF LInv, TypeOK, Begins
<1>5. /\ \A s \in done : ~Stuck(s)
      /\ \A s \in Slots : s \in done => Doomed(s) \/ ToModify(s)
      /\ \A s \in Slots : s[1] \in S => (s \in done <=> s \in WorkIn(S))
  <2>1. \A s \in part : s[1] = n /\ (Doomed(s) \/ ToModify(s))
    BY DEF Work
  <2>2. \A s \in WorkIn(S) : s[1] \in S /\ (Doomed(s) \/ ToModify(s))
    BY DEF WorkIn, Work
  <2> QED
    BY <1>1, <2>1, <2>2 DEF Fits
<1>6. /\ routes' \in Routes
      /\ \A s \in Slots : /\ routes'[s].is => routes[s].is
                          /\ routes'[s].flags \subseteq routes[s].flags
                          /\ s[1] \in S => /\ ~IsDue(routes'[s])
                                           /\ s[2] \in Marked => ~routes'[s].is
  <2>1. routes \in Routes
    BY DEF LInv, TypeOK, Routes
  <2>2. WorkIn(S) \subseteq done
    OBVIOUS
  <2> HIDE DEF done
  <2> QED
    BY <1>1, <1>5, <2>1, <2>2, PassEffect
<1>7. \A s \in Slots : s[1] \in Orphans(S) => ~routes'[s].is
  <2> HIDE DEF done
  <2> QED
    BY <1>1, <1>5, OrphansEmpty
<1> HIDE DEF done
<1>8. TypeOK'
  <2>1. tries' \in Tries
    BY <1>3, PassBegins, OrphansVisited, Zenon DEF LInv, TypeOK, Tries, AddedToTrie
  <2>2. flush_active' \subseteq Flushing'
    BY <1>1, <1>2, PassBegins, SMTT(30) DEF Flushing
  <2>3. fib' \subseteq Nets /\ prune_fit' \subseteq fib'
    BY <1>1, PassBegins, OrphansVisited DEF LInv, TypeOK
  <2>4. \A s \in Slots : routes'[s].is => s[1] \in fib'
    BY <1>1, <1>6, <1>7 DEF LInv, TypeOK
  <2> QED
    BY <1>2, <1>4, <1>6, <2>1, <2>2, <2>3, <2>4 DEF LInv, TypeOK, Routes, Tries
<1>9. FlushedEmpty'
  BY <1>2, <1>6 DEF LInv, FlushedEmpty
<1>10. WorkNotLost'
  <2>1. \A s \in Slots : IsDue(routes'[s]) => IsDue(routes[s]) /\ s[1] \notin S
    BY <1>6 DEF IsDue
  <2>2. \A s \in Slots : IsDue(routes'[s]) => s[1] \in prune_fit' \/ prune_state' \in {1, 3}
    BY <1>1, <1>4, <2>1, PassBegins
  <2>3. \A c \in Channels : channel_state'[c] = "FLUSHING" =>
            c \in flush_active' \/ prune_state' \in {1, 3}
    BY <1>1, <1>2, <1>4, PassBegins
  <2> QED
    BY <1>2, <2>2, <2>3 DEF WorkNotLost, IsDue
<1>11. TrieComplete'
  <2>1. tries'.trie = tries.trie /\ tries'.building = Building
        /\ tries'.new = NewTrie \union AddedToTrie(S)
    BY <1>3 DEF LInv, TypeOK
  <2> QED
    BY <1>1, <1>2, <2>1, PassBegins, OrphansVisited DEF LInv, TrieComplete
<1>12. Cycle'
  BY <1>1, <1>4, <1>6, PassBegins DEF Cycle
<1> QED
  BY <1>8, <1>9, <1>10, <1>11, <1>12 DEF LInv

(* The last pass of a cycle                                                *)
LEMMA FinishedLemma ==
    ASSUME LInv, prune_state > 0, PruneFinished
    PROVE  LInv'
<1> DEFINE rebuild == ~Building /\ WantsRebuild(Cardinality(fib \ Orphans(ToVisit)))
<1>1. /\ routes' = TableAfter(WorkIn(ToVisit)) /\ fib' = fib \ Orphans(ToVisit)
      /\ prune_fit' = {} /\ flush_active' = {} /\ Fits(ToVisit)
  BY DEF PruneFinished
<1>2. /\ prune_state' = IF prune_state = 3 \/ rebuild THEN 1 ELSE 0
      /\ event' = (prune_state' > 0)
      /\ UNCHANGED <<setup, prune_timer>>
  BY DEF PruneFinished
<1>3. channel_state' = [c \in Channels |-> IF c \in Marked THEN "DOWN" ELSE channel_state[c]]
  BY DEF PruneFinished
<1>4. IF Building THEN SwapTrie(AddedToTrie(ToVisit))
      ELSE tries' = [tries EXCEPT !.prune = @ \/ rebuild] /\ UNCHANGED walk
  BY DEF PruneFinished
<1>5. rebuild \in BOOLEAN
  OBVIOUS
<1> HIDE DEF rebuild
<1>6. prune_state' \in {0, 1} /\ (prune_state = 3 => prune_state' = 1)
  BY <1>2
<1>7. event' \in BOOLEAN /\ (prune_state' > 0 => event')
  <2>1. (prune_state' > 0) \in BOOLEAN
    OBVIOUS
  <2> QED
    BY <1>2, <2>1, Zenon
<1>8. /\ routes' \in Routes
      /\ \A s \in Slots : /\ routes'[s].is => routes[s].is
                          /\ routes'[s].flags \subseteq routes[s].flags
                          /\ s[1] \in ToVisit => /\ ~IsDue(routes'[s])
                                                 /\ s[2] \in Marked => ~routes'[s].is
  <2>1. routes \in Routes
    BY DEF LInv, TypeOK, Routes
  <2>2. \A s \in WorkIn(ToVisit) : ~Stuck(s)
    BY <1>1 DEF Fits
  <2>3. \A s \in Slots : s \in WorkIn(ToVisit) => Doomed(s) \/ ToModify(s)
    BY DEF WorkIn, Work
  <2> QED
    BY <1>1, <2>1, <2>2, <2>3, PassEffect
<1>9. \A s \in Slots : s[1] \in Orphans(ToVisit) => ~routes'[s].is
  BY <1>1, OrphansEmpty
<1>10. /\ tries' \in Tries /\ ~tries'.building
       /\ setup.trie => fib' \subseteq tries'.trie
       /\ walk' \in [Walks -> {"NONE", "CURRENT", "OLD", "LOST"}]
  <2>1. CASE Building
    <3>1. /\ tries' = [NoTries EXCEPT
                          !.trie = NewTrie \union AddedToTrie(ToVisit),
                          !.old = tries.old \/ tries.locks > 0,
                          !.old_locks = IF tries.locks > 0 THEN tries.locks ELSE tries.old_locks]
          /\ walk' \in [Walks -> {"NONE", "CURRENT", "OLD", "LOST"}]
      BY <1>4, <2>1 DEF SwapTrie, LInv, TypeOK
    <3>2. /\ tries' \in Tries /\ ~tries'.building
          /\ tries'.trie = NewTrie \union AddedToTrie(ToVisit)
      <4> DEFINE old       == tries.old \/ tries.locks > 0
                 old_locks == IF tries.locks > 0 THEN tries.locks ELSE tries.old_locks
      <4>1. NewTrie \union AddedToTrie(ToVisit) \in SUBSET Nets
        BY <2>1, PassBegins, OrphansVisited DEF LInv, TypeOK
      <4>2. old \in BOOLEAN
        OBVIOUS
      <4>3. old_locks \in Nat
        BY DEF LInv, TypeOK
      <4>4. tries' = [NoTries EXCEPT !.trie = NewTrie \union AddedToTrie(ToVisit),
                                     !.old = old, !.old_locks = old_locks]
        BY <3>1
      <4> HIDE DEF old, old_locks
      <4> QED
        BY <4>1, <4>2, <4>3, <4>4, Zenon DEF NoTries, Tries
    <3>3. setup.trie => fib' \subseteq tries'.trie
      BY <1>1, <2>1, <3>2, PassBegins, OrphansVisited
    <3> QED
      BY <3>1, <3>2, <3>3
  <2>2. CASE ~Building
    <3>1. tries' = [tries EXCEPT !.prune = @ \/ rebuild] /\ UNCHANGED walk
      BY <1>4, <2>2
    <3>2. /\ tries' \in Tries /\ tries'.building = tries.building
          /\ tries'.trie = tries.trie
      BY <1>5, <3>1 DEF LInv, TypeOK, Tries
    <3>3. ~tries.building
      BY <2>2, PassBegins
    <3>4. setup.trie => fib' \subseteq tries'.trie
      BY <1>1, <3>2 DEF LInv, TrieComplete
    <3> QED
      BY <3>1, <3>2, <3>3, <3>4 DEF LInv, TypeOK
  <2> QED
    BY <2>1, <2>2, PassBegins
<1>11. TypeOK'
  <2>1. channel_state' \in [Channels -> {"DOWN", "UP", "FLUSHING"}]
    BY <1>3 DEF LInv, TypeOK
  <2>2. \A s \in Slots : routes'[s].is => s[1] \in fib'
    BY <1>1, <1>8, <1>9 DEF LInv, TypeOK
  <2>3. /\ setup' \in Setups /\ prune_timer' \in BOOLEAN /\ prune_state' \in 0..3
        /\ fib' \subseteq Nets /\ prune_fit' \subseteq fib'
        /\ (prune_state' \in {0, 1} => prune_fit' = {})
    BY <1>1, <1>2, <1>6 DEF LInv, TypeOK
  <2>4. flush_active' \subseteq Flushing'
    BY <1>1, <1>2, <1>3 DEF LInv, TypeOK, Flushing
  <2> QED
    BY <1>7, <1>8, <1>10, <2>1, <2>2, <2>3, <2>4 DEF TypeOK, Routes, Tries
<1>12. FlushedEmpty'
  <2>1. ASSUME NEW s \in Slots, channel_state'[s[2]] = "DOWN", routes'[s].is
        PROVE  FALSE
    <3>1. routes[s].is
      BY <1>8, <2>1
    <3>2. CASE s[2] \in Marked
      BY <1>8, <2>1, <3>1, <3>2, PassBegins
    <3>3. CASE s[2] \notin Marked
      BY <1>3, <2>1, <3>1, <3>3 DEF LInv, FlushedEmpty, Slots
    <3> QED
      BY <3>2, <3>3
  <2> QED
    BY <2>1 DEF FlushedEmpty
<1>13. WorkNotLost'
  <2>1. \A s \in Slots : IsDue(routes'[s]) => IsDue(routes[s]) /\ s[1] \notin ToVisit
    BY <1>8 DEF IsDue
  <2>2. \A s \in Slots : IsDue(routes'[s]) => prune_state' \in {1, 3}
    BY <1>6, <2>1, PassBegins
  <2>3. \A c \in Channels : channel_state'[c] = "FLUSHING" => prune_state' \in {1, 3}
    BY <1>3, <1>6, PassBegins
  <2> QED
    BY <1>7, <2>2, <2>3 DEF WorkNotLost, IsDue
<1>14. TrieComplete'
  BY <1>2, <1>10 DEF TrieComplete
<1>15. Cycle'
  BY <1>1, <1>10 DEF Cycle
<1> QED
  BY <1>11, <1>12, <1>13, <1>14, <1>15 DEF LInv

(* A walk locks the trie.                                                  *)
LEMMA LockLemma ==
    ASSUME LInv, NEW w \in Walks, rt_lock_trie(w)
    PROVE  LInv'
<1>1. /\ tries' = [tries EXCEPT !.locks = @ + 1]
      /\ walk' = [walk EXCEPT ![w] = "CURRENT"]
      /\ UNCHANGED <<setup, channel_state, flush_active, fib, routes, prune_state, prune_fit,
                     event, prune_timer>>
  BY DEF rt_lock_trie
<1>2. tries' \in Tries /\ tries'.trie = tries.trie /\ tries'.new = tries.new
      /\ tries'.building = tries.building
  BY <1>1 DEF LInv, TypeOK, Tries
<1>3. TypeOK'
  BY <1>1, <1>2 DEF LInv, TypeOK, Tries, Flushing
<1> QED
  BY <1>1, <1>2, <1>3 DEF LInv, FlushedEmpty, WorkNotLost, TrieComplete, Cycle, IsDue

----------------------------------------------------------------------------
(* Walks and locks.                                                        *)

Current == {w \in Walks : walk[w] = "CURRENT"}

Old == {w \in Walks : walk[w] = "OLD"}

(* The numbers of walks, which the tries count, are natural.               *)
LEMMA WalksFinite ==
    /\ IsFiniteSet(Current) /\ Cardinality(Current) \in Nat
    /\ Cardinality(Current) = 0 <=> Current = {}
    /\ IsFiniteSet(Old) /\ Cardinality(Old) \in Nat
    /\ Cardinality(Old) = 0 <=> Old = {}
<1>1. IsFiniteSet(Walks) /\ Current \subseteq Walks /\ Old \subseteq Walks
  BY TablePruneAssumption DEF Current, Old
<1>2. IsFiniteSet(Current) /\ IsFiniteSet(Old)
  BY <1>1, FS_Subset
<1> QED
  BY <1>2, FS_CardinalityType, FS_EmptySet

(* WalksSafe in terms of the two sets                                      *)
LEMMA WalksSafeSets ==
    WalksSafe <=> /\ \A w \in Walks : walk[w] # "LOST"
                  /\ tries.locks = Cardinality(Current)
                  /\ tries.old_locks = Cardinality(Old)
                  /\ tries.old <=> tries.old_locks > 0
                  /\ tries.building \/ tries.prune => ~tries.old
  BY DEF WalksSafe, Current, Old

(* Steps that leave walks and locks alone keep them safe.                  *)
LEMMA WalksKept ==
    ASSUME WalksSafe, walk' = walk, tries'.locks = tries.locks,
           tries'.old_locks = tries.old_locks, tries'.old = tries.old,
           tries'.building \/ tries'.prune => ~tries.old
    PROVE  WalksSafe'
  BY DEF WalksSafe

(* A walk begins.                                                          *)
LEMMA LockSafe ==
    ASSUME IInv, NEW w \in Walks, rt_lock_trie(w)
    PROVE  WalksSafe'
<1>1. /\ tries' = [tries EXCEPT !.locks = @ + 1]
      /\ walk' = [walk EXCEPT ![w] = "CURRENT"] /\ walk[w] = "NONE"
  BY DEF rt_lock_trie
<1>2. /\ tries'.locks = tries.locks + 1 /\ tries'.old_locks = tries.old_locks
      /\ tries'.old = tries.old /\ tries'.building = tries.building
      /\ tries'.prune = tries.prune
  BY <1>1 DEF IInv, LInv, TypeOK
<1>3. Current' = Current \union {w} /\ w \notin Current /\ Old' = Old
  BY <1>1 DEF IInv, LInv, TypeOK, Current, Old
<1>4. Cardinality(Current') = Cardinality(Current) + 1
  BY <1>3, WalksFinite, FS_AddElement, Zenon
<1>5. \A v \in Walks : walk'[v] # "LOST"
  BY <1>1 DEF IInv, LInv, TypeOK, WalksSafe
<1> QED
  BY <1>2, <1>3, <1>4, <1>5 DEF IInv, WalksSafe, Current, Old

(* A walk over the current trie ends.                                      *)
LEMMA UnlockCurrentSafe ==
    ASSUME IInv, NEW w \in Walks, rt_unlock_trie(w), UnlockCurrent(w)
    PROVE  LInv' /\ WalksSafe'
<1>1. /\ tries' = [tries EXCEPT !.locks = @ - 1]
      /\ walk' = [walk EXCEPT ![w] = "NONE"] /\ walk[w] = "CURRENT"
      /\ UNCHANGED <<setup, channel_state, flush_active, fib, routes, prune_state, prune_fit,
                     event, prune_timer>>
  BY DEF rt_unlock_trie, UnlockCurrent
<1>2. /\ tries'.locks = tries.locks - 1 /\ tries'.old_locks = tries.old_locks
      /\ tries'.old = tries.old /\ tries'.building = tries.building
      /\ tries'.prune = tries.prune /\ tries'.trie = tries.trie /\ tries'.new = tries.new
  BY <1>1 DEF IInv, LInv, TypeOK
<1>3. Current' = Current \ {w} /\ w \in Current /\ Old' = Old
  BY <1>1 DEF IInv, LInv, TypeOK, Current, Old
<1>4. Cardinality(Current') = Cardinality(Current) - 1 /\ Cardinality(Current) > 0
  <2>1. Current # {} /\ Cardinality(Current \ {w}) = Cardinality(Current) - 1
    BY <1>3, WalksFinite, FS_RemoveElement, Zenon
  <2>2. Cardinality(Current) \in Nat \ {0}
    BY <2>1, WalksFinite
  <2> QED
    BY <1>3, <2>1, <2>2
<1>5. \A v \in Walks : walk'[v] # "LOST"
  BY <1>1 DEF IInv, LInv, TypeOK, WalksSafe
<1>6. tries.locks \in Nat \ {0}
  BY <1>4, WalksFinite DEF IInv, WalksSafe, Current
<1>7. tries' \in Tries
  BY <1>1, <1>6 DEF IInv, LInv, TypeOK, Tries
<1>8. TypeOK'
  BY <1>1, <1>7 DEF IInv, LInv, TypeOK, Tries, Flushing
<1>9. LInv'
  BY <1>1, <1>2, <1>8, SMTT(30) DEF IInv, LInv, FlushedEmpty, WorkNotLost, TrieComplete, Cycle, IsDue
<1>10. WalksSafe'
  BY <1>2, <1>3, <1>4, <1>5 DEF IInv, WalksSafe, Current, Old
<1> QED
  BY <1>9, <1>10

(* A walk over the old trie ends, and perhaps the trie is freed.           *)
LEMMA UnlockOldSafe ==
    ASSUME IInv, NEW w \in Walks, rt_unlock_trie(w), UnlockOld(w)
    PROVE  LInv' /\ WalksSafe'
<1> DEFINE freed   == tries.old_locks = 1
           rebuild == freed /\ Cardinality(tries.trie) > 2 * Cardinality(fib)
<1>1. /\ tries' = [tries EXCEPT !.old_locks = @ - 1, !.old = ~freed, !.prune = @ \/ rebuild]
      /\ walk' = [walk EXCEPT ![w] = "NONE"] /\ walk[w] = "OLD"
      /\ rt_schedule_prune(rebuild)
      /\ UNCHANGED <<setup, channel_state, flush_active, fib, routes, prune_fit, prune_timer>>
  BY DEF rt_unlock_trie, UnlockOld
<1>2. rebuild \in BOOLEAN /\ freed \in BOOLEAN /\ (rebuild => freed)
  OBVIOUS
<1>3. /\ tries'.old_locks = tries.old_locks - 1 /\ tries'.locks = tries.locks
      /\ tries'.old = ~freed /\ tries'.building = tries.building
      /\ tries'.prune = (tries.prune \/ rebuild)
      /\ tries'.trie = tries.trie /\ tries'.new = tries.new
  <2> HIDE DEF rebuild, freed
  <2> QED
    BY <1>1, <1>2 DEF IInv, LInv, TypeOK
<1>4. Old' = Old \ {w} /\ w \in Old /\ Current' = Current
  BY <1>1 DEF IInv, LInv, TypeOK, Current, Old
<1>5. Cardinality(Old') = Cardinality(Old) - 1 /\ Cardinality(Old) > 0
  <2>1. Old # {} /\ Cardinality(Old \ {w}) = Cardinality(Old) - 1
    BY <1>4, WalksFinite, FS_RemoveElement, Zenon
  <2>2. Cardinality(Old) \in Nat \ {0}
    BY <2>1, WalksFinite
  <2> QED
    BY <1>4, <2>1, <2>2
<1>6. \A v \in Walks : walk'[v] # "LOST"
  BY <1>1 DEF IInv, LInv, TypeOK, WalksSafe
<1>7. tries.old_locks \in Nat \ {0} /\ tries.old_locks = Cardinality(Old)
  BY <1>5, WalksFinite DEF IInv, WalksSafe, Old
<1>8. tries.old /\ ~tries.building /\ ~tries.prune
  BY <1>7 DEF IInv, WalksSafe
<1>9. /\ prune_state' \in 0..3 /\ event' \in BOOLEAN
      /\ prune_state' > 0 => event'
      /\ prune_state' \in {0, 1} => prune_state \in {0, 1}
      /\ prune_state \in {1, 3} => prune_state' \in {1, 3}
  <2> HIDE DEF rebuild, freed
  <2> QED
    BY <1>1, <1>2, Scheduled DEF IInv, LInv, TypeOK, WorkNotLost
<1>10. tries' \in Tries
  <2> DEFINE prune == tries.prune \/ rebuild
             old   == ~freed
             locks == tries.old_locks - 1
  <2>1. prune \in BOOLEAN /\ old \in BOOLEAN
    OBVIOUS
  <2>2. locks \in Nat
    BY <1>7
  <2>3. tries' = [tries EXCEPT !.old_locks = locks, !.old = old, !.prune = prune]
    BY <1>1
  <2> HIDE DEF prune, old, locks
  <2> HIDE DEF rebuild, freed
  <2> QED
    BY <2>1, <2>2, <2>3, Zenon DEF IInv, LInv, TypeOK, Tries
<1>11. TypeOK'
  <2> HIDE DEF rebuild, freed
  <2> QED
    BY <1>1, <1>9, <1>10 DEF IInv, LInv, TypeOK, Tries, Flushing
<1>12. LInv'
  <2> HIDE DEF rebuild, freed
  <2> QED
    BY <1>1, <1>3, <1>9, <1>11 DEF IInv, LInv, FlushedEmpty, WorkNotLost, TrieComplete, Cycle,
                                   IsDue
<1>13. tries'.old <=> tries'.old_locks > 0
  <2>1. CASE freed
    <3>1. tries'.old = FALSE
      BY <1>3, <2>1, Zenon
    <3>2. tries'.old_locks = 0
      BY <1>3, <2>1
    <3> QED
      BY <3>1, <3>2
  <2>2. CASE ~freed
    <3>1. tries'.old = TRUE
      BY <1>3, <2>2, Zenon
    <3>2. tries'.old_locks > 0
      BY <1>3, <1>7, <2>2
    <3> QED
      BY <3>1, <3>2
  <2> QED
    BY <2>1, <2>2
<1>14. tries'.building \/ tries'.prune => ~tries'.old
  BY <1>2, <1>3, <1>8, Zenon
<1>15. WalksSafe'
  <2> HIDE DEF rebuild, freed
  <2> QED
    BY <1>3, <1>4, <1>5, <1>6, <1>7, <1>13, <1>14, Zenon DEF IInv, WalksSafe, Current, Old
<1> QED
  BY <1>12, <1>15

(* A cycle ends.  If it has built a trie, there is no old one: its place   *)
(* is free for the current one, which walks may still need.                *)
LEMMA FinishedSafe ==
    ASSUME IInv, prune_state > 0, PruneFinished
    PROVE  WalksSafe'
<1> DEFINE rebuild == ~Building /\ WantsRebuild(Cardinality(fib \ Orphans(ToVisit)))
<1>1. IF Building THEN SwapTrie(AddedToTrie(ToVisit))
      ELSE tries' = [tries EXCEPT !.prune = @ \/ rebuild] /\ UNCHANGED walk
  BY DEF PruneFinished
<1>2. CASE ~Building
  <2>1. tries' = [tries EXCEPT !.prune = @ \/ rebuild] /\ walk' = walk
    BY <1>1, <1>2
  <2>2. rebuild => ~tries.old
    BY DEF WantsRebuild
  <2> HIDE DEF rebuild
  <2>3. /\ tries'.locks = tries.locks /\ tries'.old_locks = tries.old_locks
        /\ tries'.old = tries.old /\ tries'.building = tries.building
        /\ tries'.prune = (tries.prune \/ rebuild)
    BY <2>1 DEF IInv, LInv, TypeOK
  <2>4. tries'.building \/ tries'.prune => ~tries.old
    BY <2>2, <2>3, Zenon DEF IInv, WalksSafe
  <2> QED
    BY <2>1, <2>3, <2>4, WalksKept DEF IInv
<1>3. CASE Building
  <2>1. ~tries.old
    BY <1>3 DEF Building, IInv, WalksSafe
  <2>2. Cardinality(Old) = 0 /\ tries.old_locks = 0
    BY <2>1, WalksFinite, WalksSafeSets DEF IInv
  <2>3. Old = {}
    BY <2>2, WalksFinite
  <2>4. tries' = [NoTries EXCEPT
                     !.trie = NewTrie \union AddedToTrie(ToVisit),
                     !.old = tries.old \/ tries.locks > 0,
                     !.old_locks = IF tries.locks > 0 THEN tries.locks ELSE tries.old_locks]
    BY <1>1, <1>3 DEF SwapTrie
  <2>5. walk' = [w \in Walks |->
                    IF walk[w] = "CURRENT" THEN IF tries.locks > 0 THEN "OLD" ELSE "LOST"
                    ELSE IF walk[w] = "OLD" /\ tries.locks > 0 THEN "LOST" ELSE walk[w]]
    BY <1>1, <1>3 DEF SwapTrie
  <2>6. tries.locks = Cardinality(Current) /\ tries.locks \in Nat
    BY WalksFinite, WalksSafeSets DEF IInv
  <2>7. /\ tries'.locks = 0 /\ ~tries'.building /\ ~tries'.prune
        /\ tries'.old_locks = tries.locks
        /\ tries'.old <=> tries.locks > 0
    <3>1. CASE tries.locks > 0
      BY <2>4, <3>1, Zenon DEF NoTries
    <3>2. CASE ~(tries.locks > 0)
      <4>1. (tries.old \/ tries.locks > 0) = FALSE
        BY <2>1, <3>2, Zenon
      <4>2. tries.locks = 0
        BY <2>6, <3>2
      <4> QED
        BY <2>2, <2>4, <4>1, <4>2, Zenon DEF NoTries
    <3> QED
      BY <3>1, <3>2
  <2>8. \A w \in Walks : walk'[w] = IF w \in Current THEN "OLD" ELSE walk[w]
    <3>1. \A w \in Walks : walk[w] # "OLD"
      BY <2>3 DEF Old
    <3>2. Current # {} => tries.locks > 0
      BY <2>6, WalksFinite
    <3> QED
      BY <2>5, <3>1, <3>2 DEF Current
  <2>9. Current' = {} /\ Old' = Current
    BY <2>3, <2>8 DEF Current, Old
  <2>10. Cardinality(Current') = 0
    BY <2>9, FS_EmptySet
  <2>11. \A w \in Walks : walk'[w] # "LOST"
    BY <2>8 DEF IInv, WalksSafe
  <2> QED
    BY <2>6, <2>7, <2>9, <2>10, <2>11 DEF WalksSafe, Current, Old
<1> QED
  BY <1>2, <1>3

(* A pass is interrupted.                                                  *)
LEMMA InterruptedSafe ==
    ASSUME IInv, NEW S, NEW n, NEW part, PruneInterrupted(S, n, part)
    PROVE  WalksSafe'
<1>1. /\ tries' = [tries EXCEPT !.building = Building, !.new = NewTrie \union AddedToTrie(S)]
      /\ walk' = walk
  BY DEF PruneInterrupted
<1>2. /\ tries'.locks = tries.locks /\ tries'.old_locks = tries.old_locks
      /\ tries'.old = tries.old /\ tries'.building = Building /\ tries'.prune = tries.prune
  BY <1>1 DEF IInv, LInv, TypeOK
<1>3. Building => tries.building \/ tries.prune
  BY DEF Building
<1> QED
  BY <1>1, <1>2, <1>3, WalksKept DEF IInv, WalksSafe

----------------------------------------------------------------------------
(* The theorems.                                                           *)

(* The invariant holds in the beginning.                                   *)
LEMMA InitInv == Init => IInv
<1> SUFFICES ASSUME Init PROVE IInv
  OBVIOUS
<1>1. TypeOK
  <2>1. tries \in Tries
    BY DEF Init, NoTries, Tries
  <2>2. routes \in [Slots -> Route \union {NoRoute}]
    BY DEF Init
  <2>3. \A s \in Slots : ~routes[s].is
    BY DEF Init, NoRoute
  <2>4. /\ channel_state \in [Channels -> {"DOWN", "UP", "FLUSHING"}]
        /\ walk \in [Walks -> {"NONE", "CURRENT", "OLD", "LOST"}]
    BY DEF Init
  <2>5. /\ setup \in Setups /\ flush_active = {} /\ fib = {} /\ prune_fit = {}
        /\ prune_state = 0 /\ event = FALSE /\ prune_timer = FALSE
    BY DEF Init
  <2>6. event \in BOOLEAN /\ prune_timer \in BOOLEAN
    BY <2>5, Zenon
  <2>7. prune_state \in 0..3 /\ fib \subseteq Nets /\ prune_fit \subseteq fib
        /\ flush_active \subseteq Flushing
    BY <2>5
  <2>8. \A s \in Slots : routes[s].is => s[1] \in fib
    BY <2>3
  <2>9. setup \in Setups /\ (prune_state \in {0, 1} => prune_fit = {})
    BY <2>5
  <2> QED
    BY <2>1, <2>2, <2>4, <2>6, <2>7, <2>8, <2>9, Zenon DEF TypeOK, Tries
<1>2. FlushedEmpty /\ Cycle
  BY DEF Init, FlushedEmpty, Cycle, NoRoute, NoTries
<1>3. WorkNotLost
  BY DEF Init, WorkNotLost, IsDue, NoRoute
<1>4. TrieComplete
  BY DEF Init, TrieComplete, NoTries
<1>5. WalksSafe
  <2>1. Current = {} /\ Old = {}
    BY DEF Init, Current, Old
  <2>2. Cardinality(Current) = 0 /\ Cardinality(Old) = 0
    BY <2>1, FS_EmptySet
  <2>3. /\ tries.locks = 0 /\ tries.old_locks = 0 /\ ~tries.old /\ ~tries.building
        /\ ~tries.prune /\ \A w \in Walks : walk[w] # "LOST"
    BY DEF Init, NoTries
  <2> QED
    BY <2>2, <2>3, WalksSafeSets
<1> QED
  BY <1>1, <1>2, <1>3, <1>4, <1>5 DEF IInv, LInv

(* The announcement of a route does not touch the locks of tries.          *)
LEMMA UpdateSafe ==
    ASSUME IInv, NEW c, NEW n, NEW community, NEW before, rte_update(c, n, community, before)
    PROVE  WalksSafe'
<1>1. walk' = walk /\ net_init_with_trie(n)
  BY DEF rte_update
<1>2. /\ tries'.locks = tries.locks /\ tries'.old_locks = tries.old_locks
      /\ tries'.old = tries.old /\ tries'.building = tries.building
      /\ tries'.prune = tries.prune
  BY <1>1 DEF IInv, LInv, TypeOK, net_init_with_trie
<1> QED
  BY <1>1, <1>2, WalksKept DEF IInv, WalksSafe

(* A step that leaves tries and walks alone leaves the walks safe.         *)
LEMMA UnchangedSafe ==
    ASSUME WalksSafe, UNCHANGED <<tries, walk>>
    PROVE  WalksSafe'
  BY DEF WalksSafe

(* Every step keeps the inductive invariant.                               *)
LEMMA StepInv == IInv /\ [Next]_vars => IInv'
<1> SUFFICES ASSUME IInv, [Next]_vars PROVE IInv'
  OBVIOUS
<1>1. LInv /\ WalksSafe
  BY DEF IInv
<1>2. CASE rt_event
  <2>1. prune_state > 0 /\ rt_prune_table
    BY <1>2 DEF rt_event, rt_prune_table
  <2>2. CASE PruneFinished
    BY <1>1, <2>1, <2>2, FinishedLemma, FinishedSafe DEF IInv
  <2>3. ASSUME NEW S \in SUBSET ToVisit, NEW n \in ToVisit, NEW part \in SUBSET Work(n),
               PruneInterrupted(S, n, part)
        PROVE  IInv'
    BY <1>1, <2>1, <2>3, InterruptedLemma, InterruptedSafe DEF IInv
  <2> QED
    BY <2>1, <2>2, <2>3 DEF rt_prune_table
<1>3. ASSUME NEW many \in BOOLEAN, rt_prune_timer(many) PROVE IInv'
  <2>1. UNCHANGED <<tries, walk>>
    BY <1>3 DEF rt_prune_timer
  <2> QED
    BY <1>1, <1>3, <2>1, TimerLemma, UnchangedSafe DEF IInv
<1>4. ASSUME NEW c \in Channels, ChannelUp(c) PROVE IInv'
  <2>1. UNCHANGED <<tries, walk>>
    BY <1>4 DEF ChannelUp
  <2> QED
    BY <1>1, <1>4, <2>1, UpLemma, UnchangedSafe DEF IInv
<1>5. ASSUME NEW c \in Channels, channel_do_flush(c) PROVE IInv'
  <2>1. UNCHANGED <<tries, walk>>
    BY <1>5 DEF channel_do_flush
  <2> QED
    BY <1>1, <1>5, <2>1, FlushLemma, UnchangedSafe DEF IInv
<1>6. ASSUME NEW c \in Channels, rt_refresh_begin(c) PROVE IInv'
  <2>1. UNCHANGED <<tries, walk>>
    BY <1>6 DEF rt_refresh_begin
  <2> QED
    BY <1>1, <1>6, <2>1, BeginLemma, UnchangedSafe DEF IInv
<1>7. ASSUME NEW c \in Channels, rt_refresh_end(c) PROVE IInv'
  <2>1. UNCHANGED <<tries, walk>>
    BY <1>7 DEF rt_refresh_end
  <2> QED
    BY <1>1, <1>7, <2>1, EndLemma, UnchangedSafe DEF IInv
<1>8. ASSUME NEW c \in Channels, rt_modify_stale(c) PROVE IInv'
  <2>1. UNCHANGED <<tries, walk>>
    BY <1>8 DEF rt_modify_stale
  <2> QED
    BY <1>1, <1>8, <2>1, ModifyLemma, UnchangedSafe DEF IInv
<1>9. ASSUME NEW c \in Channels, NEW n \in Nets, NEW before \in BOOLEAN,
             NEW community \in {"NONE", "LLGR_STALE", "NO_LLGR"},
             rte_update(c, n, community, before)
      PROVE  IInv'
  BY <1>1, <1>9, UpdateLemma, UpdateSafe DEF IInv
<1>10. ASSUME NEW c \in Channels, NEW n \in Nets, NEW many \in BOOLEAN,
              rte_withdraw(c, n, many)
       PROVE  IInv'
  <2>1. UNCHANGED <<tries, walk>>
    BY <1>10 DEF rte_withdraw
  <2> QED
    BY <1>1, <1>10, <2>1, WithdrawLemma, UnchangedSafe DEF IInv
<1>11. ASSUME NEW w \in Walks, rt_lock_trie(w) PROVE IInv'
  BY <1>1, <1>11, LockLemma, LockSafe DEF IInv
<1>12. ASSUME NEW w \in Walks, rt_unlock_trie(w) PROVE IInv'
  <2>1. UnlockCurrent(w) \/ UnlockOld(w)
    BY <1>12 DEF rt_unlock_trie
  <2> QED
    BY <1>12, <2>1, UnlockCurrentSafe, UnlockOldSafe DEF IInv
<1>13. CASE UNCHANGED vars
  <2>1. LInv'
    BY <1>1, <1>13 DEF vars, LInv, TypeOK, FlushedEmpty, WorkNotLost, TrieComplete, Cycle,
                       Flushing, IsDue
  <2>2. UNCHANGED <<tries, walk>>
    BY <1>13 DEF vars
  <2> QED
    BY <1>1, <2>1, <2>2, UnchangedSafe, SMTT(30) DEF IInv
<1> QED
  BY <1>2, <1>3, <1>4, <1>5, <1>6, <1>7, <1>8, <1>9, <1>10, <1>11, <1>12, <1>13 DEF Next

(* The invariant always holds.                                             *)
LEMMA Inductive == Spec => []IInv
  BY InitInv, StepInv, PTL DEF Spec

(* A channel is closed only when the table has no route of it, though      *)
(* channels begin to flush at any time of a cycle that takes many passes.  *)
THEOREM ChannelsClosedEmpty == Spec => []FlushedEmpty
<1>1. IInv => FlushedEmpty
  BY DEF IInv, LInv
<1> QED
  BY <1>1, Inductive, PTL

(* rt_schedule_prune() forgets no work, whenever it is called.             *)
THEOREM PruneForgetsNothing == Spec => []WorkNotLost
<1>1. IInv => WorkNotLost
  BY DEF IInv, LInv
<1> QED
  BY <1>1, Inductive, PTL

(* The trie has all networks of the table, before and after it is rebuilt. *)
THEOREM TrieHasAllNetworks == Spec => []TrieComplete
<1>1. IInv => TrieComplete
  BY DEF IInv, LInv
<1> QED
  BY <1>1, Inductive, PTL

(* No walk loses its trie, and ASSERT(!tab->trie_old) holds.               *)
THEOREM WalksKeepTheirTrie == Spec => []WalksSafe
<1>1. IInv => WalksSafe
  BY DEF IInv
<1> QED
  BY <1>1, Inductive, PTL

(* Both: tries are complete, and live as long as somebody walks over them. *)
THEOREM TriesAreSafe == Spec => []TriesSafe
<1>1. IInv => TriesSafe
  BY DEF IInv, LInv, TriesSafe
<1> QED
  BY <1>1, Inductive, PTL

(* Every variable keeps its type; trie_locks and trie_old_locks never go   *)
(* below zero.                                                             *)
THEOREM TypeCorrect == Spec => []TypeOK
<1>1. IInv => TypeOK
  BY DEF IInv, LInv
<1> QED
  BY <1>1, Inductive, PTL
=============================================================================
