------------------------ MODULE ChannelImportProofs ------------------------
(***************************************************************************)
(* Proofs about the import side of a channel, for any networks and any     *)
(* number of changes.                                                      *)
(***************************************************************************)
EXTENDS ChannelImport, TLAPS

(* The types of the variables that steps change, by kind                   *)
Bools ==
    /\ settling \in BOOLEAN /\ reload_event \in BOOLEAN /\ reload_active \in BOOLEAN
    /\ reload_pending \in BOOLEAN /\ unloaded \in BOOLEAN

Names ==
    /\ channel_state \in {"DOWN", "START", "UP", "FLUSHING"}
    /\ cycle \in {"NONE", "REFRESHING", "RESTART", "LOADING"}

Sets ==
    /\ in_table \subseteq Nets /\ in_stale \subseteq in_table
    /\ table \subseteq Nets /\ stale \subseteq table /\ discard \subseteq table
    /\ accepted \subseteq Nets /\ todo \subseteq Nets
    /\ reload_next_rte \in Nets \union {NoNet}

SetupType == [reload : BOOLEAN, refresh : BOOLEAN, restart : BOOLEAN]

(* Reloads and enhanced route refresh do not meet in one channel.          *)
NotBoth == \A s \in Setups : ~(s.reload /\ s.refresh)

(* Routes are in the import table only while the channel is up, and which  *)
(* cycle runs follows the state of the channel.                            *)
Cycles ==
    /\ channel_state # "UP" => in_table = {}
    /\ cycle \in {"REFRESHING", "LOADING"} => channel_state = "UP"
    /\ cycle = "RESTART" => channel_state = "START"
    /\ cycle = "REFRESHING" => MayRefresh
    /\ cycle # "REFRESHING" => in_stale = {}

(* Where nothing asks for reloads there are none.                          *)
Idle == ~MayReload => ~settling /\ ~reload_event /\ reload_next_rte = NoNet

(* What the neighbor sent again is neither stale nor discarded.            *)
Fresh ==
    /\ stale \intersect in_table \subseteq in_stale
    /\ discard \intersect in_table = {}

(* Networks the running reload has passed; all, if none runs               *)
Passed ==
    IF ~reload_event THEN Nets
    ELSE IF reload_active /\ ~reload_pending THEN Nets \ (todo \union {reload_next_rte})
    ELSE {}

(* What has passed is in the table exactly if the filter accepts it.       *)
Filtered ==
    ~settling /\ ~unloaded =>
        \A n \in Passed \intersect in_table : n \in table <=> n \in accepted

(* Routes that the neighbor does not have will go at the end of the cycle. *)
Leaving ==
    /\ channel_state # "FLUSHING" =>
           table \ in_table \subseteq discard \union (IF cycle = "NONE" THEN {} ELSE stale)
    /\ in_stale \intersect table \subseteq stale \union discard

----------------------------------------------------------------------------
(* Type correctness                                                        *)

(* The type invariant by kinds of variables, for the provers.              *)
LEMMA TypeOKParts ==
    TypeOK <=> setup \in Setups /\ Bools /\ Names /\ Sets /\ changes \in 0..MaxChanges
<1>1. {settling, reload_event, reload_active, reload_pending, unloaded} \subseteq BOOLEAN <=> Bools
  BY DEF Bools
<1> QED
  BY <1>1 DEF TypeOK, Names, Sets

(* A step keeps the types of the Boolean variables.                        *)
LEMMA StepBools ==
    ASSUME Bools, Step
    PROVE  Bools'
<1> USE DEF Bools, reloadVars
<1>1. ASSUME NEW n \in Nets, NEW same \in BOOLEAN, Receive(n, same)
      PROVE  Bools'
  BY <1>1 DEF Receive
<1>2. ASSUME NEW n \in Nets, Withdraw(n)
      PROVE  Bools'
  BY <1>2 DEF Withdraw
<1>3. CASE ReloadEnd
  BY <1>3, Zenon DEF ReloadEnd
<1>4. ASSUME NEW n \in Nets, ReloadPass(n)
      PROVE  Bools'
  BY <1>4 DEF ReloadPass
<1>5. CASE channel_roa_in_changed
  BY <1>5, Zenon DEF channel_roa_in_changed, channel_request_reload
<1>6. ASSUME NEW result \in SUBSET Nets, RoaChange(result)
      PROVE  Bools'
  BY <1>6 DEF RoaChange, Subscribed, MayReload
<1>7. ASSUME NEW result \in SUBSET Nets, NEW soft \in BOOLEAN, Reload(result, soft)
      PROVE  Bools'
  BY <1>7, Zenon DEF Reload, channel_request_reload
<1>8. CASE EndOfRib
  BY <1>8 DEF EndOfRib
<1>9. ASSUME NEW forwarding \in BOOLEAN, Established(forwarding)
      PROVE  Bools'
  BY <1>9 DEF Established
<1>10. ASSUME NEW gr_ready \in BOOLEAN, NeighborRestarts(gr_ready)
       PROVE  Bools'
  BY <1>10, Zenon DEF NeighborRestarts, channel_reset_import
<1>11. CASE bgp_refresh_begin
  BY <1>11 DEF bgp_refresh_begin
<1>12. CASE bgp_refresh_end
  BY <1>12 DEF bgp_refresh_end
<1>13. CASE Prune
  BY <1>13 DEF Prune
<1>14. CASE channel_close
  BY <1>14, Zenon DEF channel_close, channel_reset_import
<1>15. CASE Flushed
  BY <1>15, Zenon DEF Flushed
<1> QED
  BY <1>1, <1>2, <1>3, <1>4, <1>5, <1>6, <1>7, <1>8, <1>9, <1>10, <1>11, <1>12, <1>13,
     <1>14, <1>15
  DEF Step, channel_reload_loop

(* A step keeps the types of the states.                                   *)
LEMMA StepNames ==
    ASSUME Names, Step
    PROVE  Names'
<1> USE DEF Names
<1>1. ASSUME NEW n \in Nets, NEW same \in BOOLEAN, Receive(n, same)
      PROVE  Names'
  BY <1>1 DEF Receive
<1>2. ASSUME NEW n \in Nets, Withdraw(n)
      PROVE  Names'
  BY <1>2 DEF Withdraw
<1>3. CASE ReloadEnd
  BY <1>3 DEF ReloadEnd
<1>4. ASSUME NEW n \in Nets, ReloadPass(n)
      PROVE  Names'
  BY <1>4 DEF ReloadPass
<1>5. CASE channel_roa_in_changed
  BY <1>5 DEF channel_roa_in_changed
<1>6. ASSUME NEW result \in SUBSET Nets, RoaChange(result)
      PROVE  Names'
  BY <1>6 DEF RoaChange
<1>7. ASSUME NEW result \in SUBSET Nets, NEW soft \in BOOLEAN, Reload(result, soft)
      PROVE  Names'
  BY <1>7 DEF Reload
<1>8. CASE EndOfRib
  BY <1>8 DEF EndOfRib
<1>9. ASSUME NEW forwarding \in BOOLEAN, Established(forwarding)
      PROVE  Names'
  BY <1>9 DEF Established
<1>10. ASSUME NEW gr_ready \in BOOLEAN, NeighborRestarts(gr_ready)
       PROVE  Names'
  BY <1>10 DEF NeighborRestarts
<1>11. CASE bgp_refresh_begin
  BY <1>11 DEF bgp_refresh_begin
<1>12. CASE bgp_refresh_end
  BY <1>12 DEF bgp_refresh_end
<1>13. CASE Prune
  BY <1>13 DEF Prune
<1>14. CASE channel_close
  BY <1>14 DEF channel_close
<1>15. CASE Flushed
  BY <1>15 DEF Flushed
<1> QED
  BY <1>1, <1>2, <1>3, <1>4, <1>5, <1>6, <1>7, <1>8, <1>9, <1>10, <1>11, <1>12, <1>13,
     <1>14, <1>15
  DEF Step, channel_reload_loop

(* A step keeps the types of the sets of networks.                         *)
LEMMA StepSets ==
    ASSUME Sets, Step
    PROVE  Sets'
<1> USE DEF Sets, recvVars, tabVars, reloadVars
<1>1. ASSUME NEW n \in Nets, NEW same \in BOOLEAN, Receive(n, same)
      PROVE  Sets'
  BY <1>1 DEF Receive, rte_update2
<1>2. ASSUME NEW n \in Nets, Withdraw(n)
      PROVE  Sets'
  BY <1>2 DEF Withdraw, rte_update2
<1>3. CASE ReloadEnd
  BY <1>3 DEF ReloadEnd, rte_update2, Candidates, Remaining
<1>4. ASSUME NEW n \in Nets, ReloadPass(n)
      PROVE  Sets'
  BY <1>4 DEF ReloadPass, rte_update2, Remaining
<1>5. CASE channel_roa_in_changed
  BY <1>5 DEF channel_roa_in_changed, channel_request_reload
<1>6. ASSUME NEW result \in SUBSET Nets, RoaChange(result)
      PROVE  Sets'
  BY <1>6 DEF RoaChange
<1>7. ASSUME NEW result \in SUBSET Nets, NEW soft \in BOOLEAN, Reload(result, soft)
      PROVE  Sets'
  BY <1>7 DEF Reload, channel_request_reload
<1>8. CASE EndOfRib
  BY <1>8 DEF EndOfRib
<1>9. ASSUME NEW forwarding \in BOOLEAN, Established(forwarding)
      PROVE  Sets'
  BY <1>9 DEF Established
<1>10. ASSUME NEW gr_ready \in BOOLEAN, NeighborRestarts(gr_ready)
       PROVE  Sets'
  BY <1>10 DEF NeighborRestarts, channel_reset_import
<1>11. CASE bgp_refresh_begin
  BY <1>11 DEF bgp_refresh_begin
<1>12. CASE bgp_refresh_end
  BY <1>12 DEF bgp_refresh_end
<1>13. CASE Prune
  BY <1>13 DEF Prune
<1>14. CASE channel_close
  BY <1>14 DEF channel_close, channel_reset_import
<1>15. CASE Flushed
  BY <1>15 DEF Flushed
<1> QED
  BY <1>1, <1>2, <1>3, <1>4, <1>5, <1>6, <1>7, <1>8, <1>9, <1>10, <1>11, <1>12, <1>13,
     <1>14, <1>15
  DEF Step, channel_reload_loop

(* A step counts at most one change, within the bound.                     *)
LEMMA StepChanges ==
    ASSUME Step
    PROVE  changes' = changes \/ Change
<1>1. ASSUME NEW n \in Nets, NEW same \in BOOLEAN, Receive(n, same)
      PROVE  changes' = changes \/ Change
  BY <1>1 DEF Receive
<1>2. ASSUME NEW n \in Nets, Withdraw(n)
      PROVE  changes' = changes \/ Change
  BY <1>2 DEF Withdraw
<1>3. CASE ReloadEnd
  BY <1>3 DEF ReloadEnd
<1>4. ASSUME NEW n \in Nets, ReloadPass(n)
      PROVE  changes' = changes \/ Change
  BY <1>4 DEF ReloadPass
<1>5. CASE channel_roa_in_changed
  BY <1>5 DEF channel_roa_in_changed
<1>6. ASSUME NEW result \in SUBSET Nets, RoaChange(result)
      PROVE  changes' = changes \/ Change
  BY <1>6 DEF RoaChange
<1>7. ASSUME NEW result \in SUBSET Nets, NEW soft \in BOOLEAN, Reload(result, soft)
      PROVE  changes' = changes \/ Change
  BY <1>7 DEF Reload
<1>8. CASE EndOfRib
  BY <1>8 DEF EndOfRib
<1>9. ASSUME NEW forwarding \in BOOLEAN, Established(forwarding)
      PROVE  changes' = changes \/ Change
  BY <1>9 DEF Established
<1>10. ASSUME NEW gr_ready \in BOOLEAN, NeighborRestarts(gr_ready)
       PROVE  changes' = changes \/ Change
  BY <1>10 DEF NeighborRestarts
<1>11. CASE bgp_refresh_begin
  BY <1>11 DEF bgp_refresh_begin
<1>12. CASE bgp_refresh_end
  BY <1>12 DEF bgp_refresh_end
<1>13. CASE Prune
  BY <1>13 DEF Prune
<1>14. CASE channel_close
  BY <1>14 DEF channel_close
<1>15. CASE Flushed
  BY <1>15 DEF Flushed
<1> QED
  BY <1>1, <1>2, <1>3, <1>4, <1>5, <1>6, <1>7, <1>8, <1>9, <1>10, <1>11, <1>12, <1>13,
     <1>14, <1>15
  DEF Step, channel_reload_loop

(* A step keeps the types.                                                 *)
LEMMA StepType ==
    ASSUME TypeOK, Next
    PROVE  TypeOK'
<1>1. /\ setup' \in Setups /\ Bools' /\ Names' /\ Sets'
      /\ changes \in 0..MaxChanges /\ MaxChanges \in Nat
  BY TypeOKParts, StepBools, StepNames, StepSets, ImportAssumption DEF Next
<1>2. changes' \in 0..MaxChanges
  BY <1>1, StepChanges DEF Change, Next
<1>3. (TypeOK <=> setup \in Setups /\ Bools /\ Names /\ Sets /\ changes \in 0..MaxChanges)'
  BY TypeOKParts, PTL
<1> QED
  BY <1>1, <1>2, <1>3

(* The channel has its types; flags are only on routes that exist.         *)
THEOREM TypeCorrect == Spec => []TypeOK
<1>1. Init => TypeOK
  <2>1. Init => Bools
    BY Zenon DEF Init, Bools
  <2>2. Init => setup \in Setups /\ Names /\ Sets
    BY DEF Init, Names, Sets
  <2>3. Init => changes \in 0..MaxChanges
    BY ImportAssumption DEF Init
  <2> QED
    BY <2>1, <2>2, <2>3, TypeOKParts
<1>2. TypeOK /\ UNCHANGED vars => TypeOK'
  BY DEF TypeOK, vars, recvVars, tabVars, reloadVars
<1> QED
  BY <1>1, <1>2, StepType, PTL DEF Spec

----------------------------------------------------------------------------
(* Cycles, flags and the filter: ImportComplete                            *)

(* A step keeps the import table and the cycle in accord with the          *)
(* channel's state.                                                        *)
LEMMA StepCycles ==
    ASSUME Sets, Cycles, Step, MayRefresh' = MayRefresh
    PROVE  Cycles'
<1> USE DEF Cycles, Sets, recvVars
<1>1. ASSUME NEW n \in Nets, NEW same \in BOOLEAN, Receive(n, same)
      PROVE  Cycles'
  BY <1>1 DEF Receive
<1>2. ASSUME NEW n \in Nets, Withdraw(n)
      PROVE  Cycles'
  BY <1>2 DEF Withdraw
<1>3. CASE ReloadEnd
  BY <1>3 DEF ReloadEnd
<1>4. ASSUME NEW n \in Nets, ReloadPass(n)
      PROVE  Cycles'
  BY <1>4 DEF ReloadPass
<1>5. CASE channel_roa_in_changed
  BY <1>5 DEF channel_roa_in_changed
<1>6. ASSUME NEW result \in SUBSET Nets, RoaChange(result)
      PROVE  Cycles'
  BY <1>6 DEF RoaChange
<1>7. ASSUME NEW result \in SUBSET Nets, NEW soft \in BOOLEAN, Reload(result, soft)
      PROVE  Cycles'
  BY <1>7 DEF Reload
<1>8. CASE EndOfRib
  BY <1>8 DEF EndOfRib
<1>9. ASSUME NEW forwarding \in BOOLEAN, Established(forwarding)
      PROVE  Cycles'
  BY <1>9 DEF Established
<1>10. ASSUME NEW gr_ready \in BOOLEAN, NeighborRestarts(gr_ready)
       PROVE  Cycles'
  BY <1>10 DEF NeighborRestarts, channel_reset_import
<1>11. CASE bgp_refresh_begin
  BY <1>11 DEF bgp_refresh_begin
<1>12. CASE bgp_refresh_end
  BY <1>12 DEF bgp_refresh_end
<1>13. CASE Prune
  BY <1>13 DEF Prune
<1>14. CASE channel_close
  BY <1>14 DEF channel_close, channel_reset_import
<1>15. CASE Flushed
  BY <1>15 DEF Flushed
<1> QED
  BY <1>1, <1>2, <1>3, <1>4, <1>5, <1>6, <1>7, <1>8, <1>9, <1>10, <1>11, <1>12, <1>13,
     <1>14, <1>15
  DEF Step, channel_reload_loop

(* A step keeps a channel without reloads free of their state.             *)
LEMMA StepIdle ==
    ASSUME Bools, Idle, Step, MayReload' = MayReload
    PROVE  Idle'
<1> USE DEF Idle, reloadVars
<1>1. ASSUME NEW n \in Nets, NEW same \in BOOLEAN, Receive(n, same)
      PROVE  Idle'
  BY <1>1 DEF Receive
<1>2. ASSUME NEW n \in Nets, Withdraw(n)
      PROVE  Idle'
  BY <1>2 DEF Withdraw
<1>3. CASE ReloadEnd
  BY <1>3 DEF ReloadEnd
<1>4. ASSUME NEW n \in Nets, ReloadPass(n)
      PROVE  Idle'
  BY <1>4 DEF ReloadPass
<1>5. CASE channel_roa_in_changed
  BY <1>5 DEF channel_roa_in_changed, Subscribed
<1>6. ASSUME NEW result \in SUBSET Nets, RoaChange(result)
      PROVE  Idle'
  BY <1>6 DEF RoaChange
<1>7. ASSUME NEW result \in SUBSET Nets, NEW soft \in BOOLEAN, Reload(result, soft)
      PROVE  Idle'
  BY <1>7 DEF Reload
<1>8. CASE EndOfRib
  BY <1>8 DEF EndOfRib
<1>9. ASSUME NEW forwarding \in BOOLEAN, Established(forwarding)
      PROVE  Idle'
  BY <1>9 DEF Established
<1>10. ASSUME NEW gr_ready \in BOOLEAN, NeighborRestarts(gr_ready)
       PROVE  Idle'
  BY <1>10 DEF NeighborRestarts, channel_reset_import
<1>11. CASE bgp_refresh_begin
  BY <1>11 DEF bgp_refresh_begin
<1>12. CASE bgp_refresh_end
  BY <1>12 DEF bgp_refresh_end
<1>13. CASE Prune
  BY <1>13 DEF Prune
<1>14. CASE channel_close
  BY <1>14 DEF channel_close, channel_reset_import
<1>15. CASE Flushed
  BY <1>15 DEF Flushed
<1> QED
  BY <1>1, <1>2, <1>3, <1>4, <1>5, <1>6, <1>7, <1>8, <1>9, <1>10, <1>11, <1>12, <1>13,
     <1>14, <1>15
  DEF Step, channel_reload_loop

(* A step keeps what the neighbor sent again neither stale nor             *)
(* discarded.                                                              *)
LEMMA StepFresh ==
    ASSUME Sets, Cycles, Fresh, Step
    PROVE  Fresh'
<1> USE DEF Fresh, Cycles, recvVars, tabVars
<1>1. ASSUME NEW n \in Nets, NEW same \in BOOLEAN, Receive(n, same)
      PROVE  Fresh'
  BY <1>1 DEF Receive, rte_update2
<1>2. ASSUME NEW n \in Nets, Withdraw(n)
      PROVE  Fresh'
  BY <1>2 DEF Withdraw, rte_update2
<1>3. CASE ReloadEnd
  BY <1>3 DEF ReloadEnd, rte_update2
<1>4. ASSUME NEW n \in Nets, ReloadPass(n)
      PROVE  Fresh'
  BY <1>4 DEF ReloadPass, rte_update2
<1>5. CASE channel_roa_in_changed
  BY <1>5 DEF channel_roa_in_changed, channel_request_reload
<1>6. ASSUME NEW result \in SUBSET Nets, RoaChange(result)
      PROVE  Fresh'
  BY <1>6 DEF RoaChange
<1>7. ASSUME NEW result \in SUBSET Nets, NEW soft \in BOOLEAN, Reload(result, soft)
      PROVE  Fresh'
  BY <1>7 DEF Reload, channel_request_reload
<1>8. CASE EndOfRib
  BY <1>8 DEF EndOfRib
<1>9. ASSUME NEW forwarding \in BOOLEAN, Established(forwarding)
      PROVE  Fresh'
  BY <1>9 DEF Established, Sets
<1>10. ASSUME NEW gr_ready \in BOOLEAN, NeighborRestarts(gr_ready)
       PROVE  Fresh'
  BY <1>10 DEF NeighborRestarts, channel_reset_import
<1>11. CASE bgp_refresh_begin
  BY <1>11 DEF bgp_refresh_begin, Sets
<1>12. CASE bgp_refresh_end
  BY <1>12 DEF bgp_refresh_end
<1>13. CASE Prune
  BY <1>13 DEF Prune
<1>14. CASE channel_close
  BY <1>14 DEF channel_close, channel_reset_import
<1>15. CASE Flushed
  BY <1>15 DEF Flushed
<1> QED
  BY <1>1, <1>2, <1>3, <1>4, <1>5, <1>6, <1>7, <1>8, <1>9, <1>10, <1>11, <1>12, <1>13,
     <1>14, <1>15
  DEF Step, channel_reload_loop

(* What the filter said of m stands as long as its route stays.            *)
LEMMA StepFiltered ==
    ASSUME Bools, Sets, Cycles, Idle, Fresh, Filtered, Step
    PROVE  Filtered'
<1>1. SUFFICES ASSUME ~settling', ~unloaded', NEW m \in Passed' \intersect in_table'
               PROVE  m \in table' <=> m \in accepted'
  BY DEF Filtered
<1> USE DEF recvVars, tabVars, reloadVars
<1>2. ASSUME UNCHANGED <<reloadVars, accepted, settling, unloaded>>, in_table' \subseteq in_table,
             m \in in_table' => (m \in table' <=> m \in table)
      PROVE  m \in table' <=> m \in accepted'
  BY <1>1, <1>2 DEF Filtered, Passed
<1>3. ASSUME in_table' = {}
      PROVE  m \in table' <=> m \in accepted'
  BY <1>1, <1>3
<1>4. ASSUME NEW n \in Nets, NEW same \in BOOLEAN, Receive(n, same)
      PROVE  m \in table' <=> m \in accepted'
  <2>1. CASE m = n
    BY <1>4, <2>1 DEF Receive, rte_update2
  <2>2. CASE m # n
    <3>1. /\ UNCHANGED <<settling, unloaded, accepted, reload_event, reload_active, todo,
                         reload_pending>>
          /\ reload_next_rte' = reload_next_rte \/ reload_next_rte = n
      BY <1>4 DEF Receive
    <3>2. m \in Passed \intersect in_table
      BY <1>1, <1>4, <2>2, <3>1 DEF Receive, Passed
    <3>3. m \in table' <=> m \in table
      BY <1>4, <2>2 DEF Receive, rte_update2
    <3> QED
      BY <1>1, <3>1, <3>2, <3>3 DEF Filtered
  <2> QED
    BY <2>1, <2>2
<1>5. ASSUME NEW n \in Nets, Withdraw(n)
      PROVE  m \in table' <=> m \in accepted'
  <2>1. /\ m # n
        /\ UNCHANGED <<settling, unloaded, accepted, reload_event, reload_active, todo,
                       reload_pending>>
        /\ reload_next_rte' = reload_next_rte \/ reload_next_rte = n
    BY <1>1, <1>5 DEF Withdraw
  <2>2. m \in Passed \intersect in_table
    BY <1>1, <1>5, <2>1 DEF Withdraw, Passed
  <2>3. m \in table' <=> m \in table
    BY <1>5, <2>1 DEF Withdraw, rte_update2
  <2> QED
    BY <1>1, <2>1, <2>2, <2>3 DEF Filtered
<1>6. CASE ReloadEnd
  <2>1. /\ UNCHANGED <<settling, unloaded, accepted, in_table>> /\ reload_event
        /\ ~(reload_pending /\ reload_active) /\ m \in Nets /\ m \in in_table
    BY <1>1, <1>6 DEF ReloadEnd, Passed, Bools
  <2>2. CASE Candidates = {} /\ UNCHANGED tabVars
    <3>1. m \in Passed
      BY <2>1, <2>2, ImportAssumption DEF Candidates, Remaining, Passed, Bools
    <3> QED
      BY <1>1, <2>1, <2>2, <3>1 DEF Filtered
  <2>3. ASSUME NEW n \in Candidates, (Remaining \ {n}) \intersect in_table = {},
               rte_update2(n, TRUE)
        PROVE  m \in table' <=> m \in accepted'
    <3>1. CASE m = n
      BY <2>1, <2>3, <3>1 DEF rte_update2
    <3>2. CASE m # n
      <4>1. m \in Passed
        BY <2>1, <2>3, <3>2, ImportAssumption DEF Candidates, Remaining, Passed, Bools
      <4>2. m \in table' <=> m \in table
        BY <2>3, <3>2 DEF rte_update2
      <4> QED
        BY <1>1, <2>1, <4>1, <4>2 DEF Filtered
    <3> QED
      BY <3>1, <3>2
  <2> QED
    BY <1>6, <2>2, <2>3, Zenon DEF ReloadEnd
<1>7. ASSUME NEW n \in Nets, ReloadPass(n)
      PROVE  m \in table' <=> m \in accepted'
  <2>1. /\ UNCHANGED <<settling, unloaded, accepted, in_table, reload_event>> /\ reload_event
        /\ reload_active' /\ reload_pending' = (reload_pending /\ reload_active)
        /\ rte_update2(n, TRUE) /\ m \in Nets /\ m \in in_table
    BY <1>1, <1>7, Zenon DEF ReloadPass, Passed, Bools
  <2>2. CASE m = n
    BY <2>1, <2>2 DEF rte_update2
  <2>3. CASE m # n
    <3>1. m \notin todo' /\ m # reload_next_rte' /\ ~reload_pending'
      BY <1>1, <2>1 DEF Passed
    <3>2. m \notin Remaining
      BY <1>7, <2>1, <2>3, <3>1 DEF ReloadPass
    <3>3. m \in Passed
      BY <1>7, <2>1, <2>3, <3>1, <3>2, ImportAssumption
      DEF ReloadPass, Candidates, Remaining, Passed, Bools
    <3>4. m \in table' <=> m \in table
      BY <2>1, <2>3 DEF rte_update2
    <3> QED
      BY <1>1, <2>1, <3>3, <3>4 DEF Filtered
  <2> QED
    BY <2>2, <2>3
<1>8. CASE channel_roa_in_changed
  <2>1. CASE ~Subscribed
    BY <1>1, <1>3, <1>8, <2>1 DEF channel_roa_in_changed, Subscribed, Cycles, Idle
  <2>2. CASE Subscribed
    BY <1>1, <1>8, <2>2 DEF channel_roa_in_changed, channel_request_reload, Passed
  <2> QED
    BY <2>1, <2>2
<1>9. ASSUME NEW result \in SUBSET Nets, RoaChange(result)
      PROVE  m \in table' <=> m \in accepted'
  <2>1. in_table' = in_table /\ ~Subscribed /\ MayReload
    BY <1>1, <1>9, Zenon DEF RoaChange
  <2> QED
    BY <1>3, <2>1 DEF Subscribed, Cycles
<1>10. ASSUME NEW result \in SUBSET Nets, NEW soft \in BOOLEAN, Reload(result, soft)
       PROVE  m \in table' <=> m \in accepted'
  <2>1. in_table' = in_table /\ ~soft
    BY <1>1, <1>10 DEF Reload
  <2>2. CASE channel_state = "UP"
    BY <1>1, <1>10, <2>1, <2>2 DEF Reload, channel_request_reload, Passed
  <2>3. CASE channel_state # "UP"
    BY <1>3, <2>1, <2>3 DEF Cycles
  <2> QED
    BY <2>2, <2>3
<1>11. CASE EndOfRib
  BY <1>2, <1>11 DEF EndOfRib
<1>12. ASSUME NEW forwarding \in BOOLEAN, Established(forwarding)
       PROVE  m \in table' <=> m \in accepted'
  BY <1>2, <1>12 DEF Established
<1>13. ASSUME NEW gr_ready \in BOOLEAN, NeighborRestarts(gr_ready)
       PROVE  m \in table' <=> m \in accepted'
  BY <1>3, <1>13 DEF NeighborRestarts, channel_reset_import
<1>14. CASE bgp_refresh_begin
  BY <1>2, <1>14 DEF bgp_refresh_begin
<1>15. CASE bgp_refresh_end
  BY <1>2, <1>15 DEF bgp_refresh_end
<1>16. CASE Prune
  BY <1>2, <1>16 DEF Prune, Fresh
<1>17. CASE channel_close
  BY <1>3, <1>17 DEF channel_close, channel_reset_import
<1>18. CASE Flushed
  BY <1>3, <1>18 DEF Flushed, Cycles
<1> QED
  BY <1>4, <1>5, <1>6, <1>7, <1>8, <1>9, <1>10, <1>11, <1>12, <1>13, <1>14, <1>15, <1>16,
     <1>17, <1>18
  DEF Step, channel_reload_loop

(* When nothing is left to reload, each route of the import table is in    *)
(* the table exactly if the current filter accepts it: routes and filters  *)
(* that change in the middle of a reload are not missed                    *)
(* (channel_reload_loop, channel_roa_in_changed, rte_update_in).           *)
THEOREM NothingMissed == Spec => []ImportComplete
<1> DEFINE Inv == Cycles /\ Idle /\ Fresh /\ Filtered
<1>1. Init => Inv
  BY DEF Init, Cycles, Idle, Fresh, Filtered
<1>2. ASSUME TypeOK, Inv, [Next]_vars
      PROVE  Inv'
  <2>1. CASE Next
    <3>1. Bools /\ Sets /\ MayRefresh' = MayRefresh /\ MayReload' = MayReload /\ Step
      BY <1>2, <2>1, TypeOKParts DEF Next, MayRefresh, MayReload
    <3> QED
      BY <1>2, <3>1, StepCycles, StepIdle, StepFresh, StepFiltered
  <2>2. CASE UNCHANGED vars
    BY <1>2, <2>2 DEF Cycles, Idle, Fresh, Filtered, Passed, MayRefresh, MayReload, vars,
                      recvVars, tabVars, reloadVars
  <2> QED
    BY <1>2, <2>1, <2>2
<1>3. TypeOK /\ Inv => ImportComplete
  BY TypeOKParts DEF ImportComplete, Filtered, Passed, Sets
<1> HIDE DEF Inv
<1> QED
  BY <1>1, <1>2, <1>3, TypeCorrect, PTL DEF Spec

----------------------------------------------------------------------------
(* The place of a reload, and the end of a refresh cycle                   *)

(* A step keeps the pointer of the reload on a linked route.               *)
LEMMA StepLinked ==
    ASSUME ~(MayReload /\ MayRefresh), Sets, Cycles, Idle, ReloadNextLinked, Step
    PROVE  ReloadNextLinked'
<1> USE DEF ReloadNextLinked, recvVars, reloadVars
<1>1. ASSUME NEW n \in Nets, NEW same \in BOOLEAN, Receive(n, same)
      PROVE  ReloadNextLinked'
  BY <1>1 DEF Receive
<1>2. ASSUME NEW n \in Nets, Withdraw(n)
      PROVE  ReloadNextLinked'
  BY <1>2 DEF Withdraw
<1>3. CASE ReloadEnd
  BY <1>3 DEF ReloadEnd
<1>4. ASSUME NEW n \in Nets, ReloadPass(n)
      PROVE  ReloadNextLinked'
  BY <1>4 DEF ReloadPass, Remaining
<1>5. CASE channel_roa_in_changed
  BY <1>5 DEF channel_roa_in_changed, channel_request_reload
<1>6. ASSUME NEW result \in SUBSET Nets, RoaChange(result)
      PROVE  ReloadNextLinked'
  BY <1>6 DEF RoaChange
<1>7. ASSUME NEW result \in SUBSET Nets, NEW soft \in BOOLEAN, Reload(result, soft)
      PROVE  ReloadNextLinked'
  BY <1>7 DEF Reload, channel_request_reload
<1>8. CASE EndOfRib
  BY <1>8 DEF EndOfRib
<1>9. ASSUME NEW forwarding \in BOOLEAN, Established(forwarding)
      PROVE  ReloadNextLinked'
  BY <1>9 DEF Established
<1>10. ASSUME NEW gr_ready \in BOOLEAN, NeighborRestarts(gr_ready)
       PROVE  ReloadNextLinked'
  BY <1>10 DEF NeighborRestarts, channel_reset_import
<1>11. CASE bgp_refresh_begin
  BY <1>11 DEF bgp_refresh_begin
<1>12. CASE bgp_refresh_end
  BY <1>12 DEF bgp_refresh_end, Cycles, Idle
<1>13. CASE Prune
  BY <1>13 DEF Prune
<1>14. CASE channel_close
  BY <1>14 DEF channel_close, channel_reset_import
<1>15. CASE Flushed
  BY <1>15 DEF Flushed
<1> QED
  BY <1>1, <1>2, <1>3, <1>4, <1>5, <1>6, <1>7, <1>8, <1>9, <1>10, <1>11, <1>12, <1>13,
     <1>14, <1>15
  DEF Step, channel_reload_loop

(* A step keeps the routes that the neighbor does not have on their way    *)
(* out.                                                                    *)
LEMMA StepLeaving ==
    ASSUME ~(MayReload /\ MayRefresh), Bools, Names, Sets, Cycles, Idle, ReloadNextLinked,
           Leaving, Step
    PROVE  Leaving'
<1> USE DEF Leaving, recvVars, tabVars
<1>1. ASSUME NEW n \in Nets, NEW same \in BOOLEAN, Receive(n, same)
      PROVE  Leaving'
  BY <1>1 DEF Receive, rte_update2
<1>2. ASSUME NEW n \in Nets, Withdraw(n)
      PROVE  Leaving'
  BY <1>2 DEF Withdraw, rte_update2
<1>3. CASE ReloadEnd
  <2>1. in_stale = {} /\ UNCHANGED <<channel_state, cycle, in_table, in_stale>>
    BY <1>3 DEF ReloadEnd, Cycles, Idle
  <2>2. \A n \in Candidates : n \in in_table
    BY DEF Candidates, ReloadNextLinked
  <2> QED
    BY <1>3, <2>1, <2>2 DEF ReloadEnd, rte_update2
<1>4. ASSUME NEW n \in Nets, ReloadPass(n)
      PROVE  Leaving'
  <2>1. in_stale = {} /\ UNCHANGED <<channel_state, cycle, in_table, in_stale>>
    BY <1>4 DEF ReloadPass, Cycles, Idle
  <2>2. n \in in_table
    BY <1>4 DEF ReloadPass, Candidates, ReloadNextLinked
  <2> QED
    BY <1>4, <2>1, <2>2 DEF ReloadPass, rte_update2
<1>5. CASE channel_roa_in_changed
  BY <1>5 DEF channel_roa_in_changed, channel_request_reload
<1>6. ASSUME NEW result \in SUBSET Nets, RoaChange(result)
      PROVE  Leaving'
  BY <1>6 DEF RoaChange
<1>7. ASSUME NEW result \in SUBSET Nets, NEW soft \in BOOLEAN, Reload(result, soft)
      PROVE  Leaving'
  BY <1>7 DEF Reload, channel_request_reload
<1>8. CASE EndOfRib
  BY <1>8 DEF EndOfRib, Cycles
<1>9. ASSUME NEW forwarding \in BOOLEAN, Established(forwarding)
      PROVE  Leaving'
  BY <1>9 DEF Established, Cycles, Sets, Names
<1>10. ASSUME NEW gr_ready \in BOOLEAN, NeighborRestarts(gr_ready)
       PROVE  Leaving'
  BY <1>10 DEF NeighborRestarts, channel_reset_import, Cycles, Sets
<1>11. CASE bgp_refresh_begin
  BY <1>11 DEF bgp_refresh_begin, Sets
<1>12. CASE bgp_refresh_end
  BY <1>12 DEF bgp_refresh_end, Sets
<1>13. CASE Prune
  BY <1>13 DEF Prune, Sets
<1>14. CASE channel_close
  BY <1>14 DEF channel_close, channel_reset_import, Cycles
<1>15. CASE Flushed
  BY <1>15 DEF Flushed, Cycles
<1> QED
  BY <1>1, <1>2, <1>3, <1>4, <1>5, <1>6, <1>7, <1>8, <1>9, <1>10, <1>11, <1>12, <1>13,
     <1>14, <1>15
  DEF Step, channel_reload_loop

(* The invariant of channels without reloads or without enhanced refresh   *)
LEMMA Refreshing ==
    ASSUME NotBoth
    PROVE  Spec => [](ReloadNextLinked /\ Leaving)
<1> DEFINE Inv == Cycles /\ Idle /\ ReloadNextLinked /\ Leaving
<1>1. Init => Inv
  BY DEF Init, Cycles, Idle, ReloadNextLinked, Leaving
<1>2. ASSUME TypeOK, Inv, [Next]_vars
      PROVE  Inv'
  <2>1. CASE Next
    <3>1. /\ Bools /\ Names /\ Sets /\ MayRefresh' = MayRefresh /\ MayReload' = MayReload
          /\ Step /\ ~(MayReload /\ MayRefresh)
      BY <1>2, <2>1, TypeOKParts DEF Next, MayRefresh, MayReload, NotBoth
    <3> QED
      BY <1>2, <3>1, StepCycles, StepIdle, StepLinked, StepLeaving
  <2>2. CASE UNCHANGED vars
    BY <1>2, <2>2 DEF Cycles, Idle, ReloadNextLinked, Leaving, MayRefresh, MayReload, vars,
                      recvVars, tabVars, reloadVars
  <2> QED
    BY <1>2, <2>1, <2>2
<1>3. Inv => ReloadNextLinked /\ Leaving
  OBVIOUS
<1> HIDE DEF Inv
<1> QED
  BY <1>1, <1>2, <1>3, TypeCorrect, PTL DEF Spec

(* Reloads are exact and keep a valid place in the import table, though    *)
(* the neighbor withdraws routes meanwhile and restarts, for channels that *)
(* do not combine reloads with enhanced route refresh (rt_prune_sync()     *)
(* does not move the place of a reload).                                   *)
THEOREM ReloadsAreExact ==
    ASSUME NotBoth
    PROVE  Spec => []ReloadExact
<1>1. ImportComplete /\ ReloadNextLinked => ReloadExact
  BY DEF ReloadExact
<1> QED
  BY <1>1, NothingMissed, Refreshing, PTL

(* After a refresh cycle, enhanced route refresh or graceful restart, only *)
(* routes that the neighbor sent again stay in the table, or wait for the  *)
(* prune loop: for the same channels.                                      *)
THEOREM RefreshRemovesTheRest ==
    ASSUME NotBoth
    PROVE  Spec => []RefreshComplete
<1>1. Leaving => RefreshComplete
  BY DEF Leaving, RefreshComplete
<1> QED
  BY <1>1, Refreshing, PTL

====
