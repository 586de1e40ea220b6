------------------------ MODULE ChannelExportProofs ------------------------
(***************************************************************************)
(* Proofs about the export side of a channel, for any finite set of        *)
(* networks, any limits and any number of changes.                         *)
(***************************************************************************)
EXTENDS ChannelExport, FiniteSetTheorems, TLAPS

(* The types of the variables that steps change, by kind                   *)
Bools ==
    /\ gr_wait \in BOOLEAN /\ feed_event \in BOOLEAN /\ feed_active \in BOOLEAN
    /\ refeeding \in BOOLEAN /\ refeed_pending \in BOOLEAN /\ subscribed \in BOOLEAN
    /\ settling \in BOOLEAN /\ unfed \in BOOLEAN /\ bugs \in BOOLEAN

Names ==
    /\ channel_state \in {"DOWN", "START", "UP", "FLUSHING"}
    /\ export_state \in {"DOWN", "FEEDING", "READY"}
    /\ out_limit \in {"INITIAL", "BLOCKED"}

Sets ==
    /\ todo \subseteq Nets /\ export_map \subseteq Nets /\ routes \subseteq Nets
    /\ accepted \subseteq Nets /\ dropped \subseteq Nets

Nums == refeed_count \in Nat /\ changes \in 0..MaxChanges

SetupType == [out_limit : Nat, rpki_reload : BOOLEAN, may_pause : BOOLEAN]

----------------------------------------------------------------------------
(* Type correctness                                                        *)

(* The type invariant by kinds of variables, for the provers.              *)
LEMMA TypeOKParts ==
    TypeOK <=> /\ setup \in Setups /\ seen \subseteq Nets
               /\ Bools /\ Names /\ Sets /\ Nums
<1>1. {gr_wait, feed_event, feed_active, refeeding, refeed_pending,
        subscribed, settling, unfed, bugs} \subseteq BOOLEAN <=> Bools
  BY DEF Bools
<1> QED
  BY <1>1 DEF TypeOK, Names, Sets, Nums

(* A step keeps the types of the Boolean variables.                        *)
LEMMA StepBools ==
    ASSUME Bools, Names, Sets, Nums, setup \in SetupType, Step
    PROVE  Bools'
<1> USE DEF Bools, chanVars, feedVars, offerVars, tableVars
<1>1. CASE FeedEnd
  BY <1>1, Zenon DEF FeedEnd, channel_request_feeding, channel_schedule_feed, ASSERT
<1>2. CASE FeedIdle \/ channel_do_down
  BY <1>2, Zenon DEF FeedIdle, channel_do_down, ASSERT
<1>3. ASSUME NEW n \in Nets, FeedPass(n)
      PROVE  Bools'
  BY <1>3 DEF FeedPass, Remaining, rt_notify_basic
<1>4. CASE channel_init
  BY <1>4, Zenon DEF channel_init, channel_do_start
<1>5. CASE Pause \/ channel_close
  BY <1>5, Zenon DEF Pause, channel_close, channel_stop_export
<1>6. ASSUME NEW wait \in BOOLEAN, channel_open(wait)
      PROVE  Bools'
  BY <1>6, Zenon DEF SetupType, channel_open, channel_do_start, channel_start_export,
              channel_schedule_feed, ASSERT, RpkiReload
<1>7. CASE graceful_restart_done
  BY <1>7, Zenon DEF graceful_restart_done, channel_start_export, channel_schedule_feed, ASSERT
<1>8. CASE rt_settle_timer
  BY <1>8, Zenon DEF rt_settle_timer, channel_roa_out_changed, channel_request_feeding,
              channel_schedule_feed, ASSERT
<1>9. CASE FeedRequest
  BY <1>9, Zenon DEF FeedRequest, Change, channel_request_feeding, channel_schedule_feed, ASSERT
<1>10. ASSUME NEW n \in Nets, NEW present \in BOOLEAN, rte_announce(n, present)
       PROVE  Bools'
  BY <1>10 DEF rte_announce, Change, rt_notify_basic
<1>11. ASSUME NEW result \in SUBSET Nets, NEW others \in BOOLEAN, RoaChange(result, others)
       PROVE  Bools'
  BY <1>11 DEF RoaChange, Change
<1>12. ASSUME NEW result \in SUBSET Nets, NEW changed \in BOOLEAN, NEW soft \in BOOLEAN,
              channel_reconfigure(result, changed, soft)
       PROVE  Bools'
  BY <1>12, Zenon DEF SetupType, RpkiReload, channel_reconfigure, Change, channel_request_feeding,
               channel_schedule_feed, ASSERT
<1> QED
  BY <1>1, <1>2, <1>3, <1>4, <1>5, <1>6, <1>7, <1>8, <1>9, <1>10, <1>11, <1>12
  DEF Step, channel_feed_loop

(* A step keeps the types of the states.                                   *)
LEMMA StepNames ==
    ASSUME Bools, Names, Sets, Nums, setup \in SetupType, Step
    PROVE  Names'
<1> USE DEF Names, chanVars, feedVars, offerVars, tableVars
<1>1. CASE FeedEnd
  BY <1>1, Zenon DEF FeedEnd, channel_request_feeding, channel_schedule_feed, ASSERT
<1>2. CASE FeedIdle \/ channel_do_down
  BY <1>2 DEF FeedIdle, channel_do_down, ASSERT
<1>3. ASSUME NEW n \in Nets, FeedPass(n)
      PROVE  Names'
  BY <1>3 DEF FeedPass, Remaining, rt_notify_basic
<1>4. CASE channel_init
  BY <1>4 DEF channel_init, channel_do_start
<1>5. CASE Pause \/ channel_close
  BY <1>5 DEF Pause, channel_close, channel_stop_export
<1>6. ASSUME NEW wait \in BOOLEAN, channel_open(wait)
      PROVE  Names'
  BY <1>6 DEF SetupType, channel_open, channel_do_start, channel_start_export,
              channel_schedule_feed, ASSERT, RpkiReload
<1>7. CASE graceful_restart_done
  BY <1>7 DEF graceful_restart_done, channel_start_export, channel_schedule_feed, ASSERT
<1>8. CASE rt_settle_timer
  BY <1>8 DEF rt_settle_timer, channel_roa_out_changed, channel_request_feeding,
              channel_schedule_feed, ASSERT
<1>9. CASE FeedRequest
  BY <1>9 DEF FeedRequest, Change, channel_request_feeding, channel_schedule_feed, ASSERT
<1>10. ASSUME NEW n \in Nets, NEW present \in BOOLEAN, rte_announce(n, present)
       PROVE  Names'
  BY <1>10 DEF rte_announce, Change, rt_notify_basic
<1>11. ASSUME NEW result \in SUBSET Nets, NEW others \in BOOLEAN, RoaChange(result, others)
       PROVE  Names'
  BY <1>11 DEF RoaChange, Change
<1>12. ASSUME NEW result \in SUBSET Nets, NEW changed \in BOOLEAN, NEW soft \in BOOLEAN,
              channel_reconfigure(result, changed, soft)
       PROVE  Names'
  BY <1>12 DEF SetupType, RpkiReload, channel_reconfigure, Change, channel_request_feeding,
               channel_schedule_feed, ASSERT
<1> QED
  BY <1>1, <1>2, <1>3, <1>4, <1>5, <1>6, <1>7, <1>8, <1>9, <1>10, <1>11, <1>12
  DEF Step, channel_feed_loop

(* A step keeps the types of the sets of networks.                         *)
LEMMA StepSets ==
    ASSUME Bools, Names, Sets, Nums, setup \in SetupType, Step
    PROVE  Sets'
<1> USE DEF Sets, chanVars, feedVars, offerVars, tableVars
<1>1. CASE FeedEnd
  BY <1>1, Zenon DEF FeedEnd, channel_request_feeding, channel_schedule_feed, ASSERT
<1>2. CASE FeedIdle \/ channel_do_down
  BY <1>2 DEF FeedIdle, channel_do_down, ASSERT
<1>3. ASSUME NEW n \in Nets, FeedPass(n)
      PROVE  Sets'
  BY <1>3 DEF FeedPass, Remaining, rt_notify_basic
<1>4. CASE channel_init
  BY <1>4 DEF channel_init, channel_do_start
<1>5. CASE Pause \/ channel_close
  BY <1>5 DEF Pause, channel_close, channel_stop_export
<1>6. ASSUME NEW wait \in BOOLEAN, channel_open(wait)
      PROVE  Sets'
  BY <1>6 DEF SetupType, channel_open, channel_do_start, channel_start_export,
              channel_schedule_feed, ASSERT, RpkiReload
<1>7. CASE graceful_restart_done
  BY <1>7 DEF graceful_restart_done, channel_start_export, channel_schedule_feed, ASSERT
<1>8. CASE rt_settle_timer
  BY <1>8 DEF rt_settle_timer, channel_roa_out_changed, channel_request_feeding,
              channel_schedule_feed, ASSERT
<1>9. CASE FeedRequest
  BY <1>9 DEF FeedRequest, Change, channel_request_feeding, channel_schedule_feed, ASSERT
<1>10. ASSUME NEW n \in Nets, NEW present \in BOOLEAN, rte_announce(n, present)
       PROVE  Sets'
  BY <1>10 DEF rte_announce, Change, rt_notify_basic
<1>11. ASSUME NEW result \in SUBSET Nets, NEW others \in BOOLEAN, RoaChange(result, others)
       PROVE  Sets'
  BY <1>11 DEF RoaChange, Change
<1>12. ASSUME NEW result \in SUBSET Nets, NEW changed \in BOOLEAN, NEW soft \in BOOLEAN,
              channel_reconfigure(result, changed, soft)
       PROVE  Sets'
  BY <1>12 DEF SetupType, RpkiReload, channel_reconfigure, Change, channel_request_feeding,
               channel_schedule_feed, ASSERT
<1> QED
  BY <1>1, <1>2, <1>3, <1>4, <1>5, <1>6, <1>7, <1>8, <1>9, <1>10, <1>11, <1>12
  DEF Step, channel_feed_loop

(* A step keeps the counter of refed routes a natural number.              *)
LEMMA StepCounts ==
    ASSUME Bools, Names, Sets, Nums, setup \in SetupType, Step
    PROVE  refeed_count' \in Nat
<1> USE DEF Nums, chanVars, feedVars, offerVars, tableVars
<1>1. CASE FeedEnd
  <2>1. refeed_count' \in {refeed_count, 0}
    BY <1>1, Zenon DEF FeedEnd, channel_request_feeding
  <2> QED
    BY <2>1
<1>2. CASE FeedIdle \/ channel_do_down
  BY <1>2 DEF FeedIdle, channel_do_down, ASSERT
<1>3. ASSUME NEW n \in Nets, FeedPass(n)
      PROVE  refeed_count' \in Nat
  BY <1>3 DEF FeedPass, Remaining, rt_notify_basic
<1>4. CASE channel_init
  BY <1>4 DEF channel_init, channel_do_start
<1>5. CASE Pause \/ channel_close
  BY <1>5 DEF Pause, channel_close, channel_stop_export
<1>6. ASSUME NEW wait \in BOOLEAN, channel_open(wait)
      PROVE  refeed_count' \in Nat
  BY <1>6 DEF SetupType, channel_open, channel_do_start, channel_start_export,
              channel_schedule_feed, ASSERT, RpkiReload
<1>7. CASE graceful_restart_done
  BY <1>7 DEF graceful_restart_done, channel_start_export, channel_schedule_feed, ASSERT
<1>8. CASE rt_settle_timer
  BY <1>8 DEF rt_settle_timer, channel_roa_out_changed, channel_request_feeding,
              channel_schedule_feed, ASSERT
<1>9. CASE FeedRequest
  BY <1>9 DEF FeedRequest, Change, channel_request_feeding, channel_schedule_feed, ASSERT
<1>10. ASSUME NEW n \in Nets, NEW present \in BOOLEAN, rte_announce(n, present)
       PROVE  refeed_count' \in Nat
  BY <1>10 DEF rte_announce, Change, rt_notify_basic
<1>11. ASSUME NEW result \in SUBSET Nets, NEW others \in BOOLEAN, RoaChange(result, others)
       PROVE  refeed_count' \in Nat
  BY <1>11 DEF RoaChange, Change
<1>12. ASSUME NEW result \in SUBSET Nets, NEW changed \in BOOLEAN, NEW soft \in BOOLEAN,
              channel_reconfigure(result, changed, soft)
       PROVE  refeed_count' \in Nat
  BY <1>12 DEF SetupType, RpkiReload, channel_reconfigure, Change, channel_request_feeding,
               channel_schedule_feed, ASSERT
<1> QED
  BY <1>1, <1>2, <1>3, <1>4, <1>5, <1>6, <1>7, <1>8, <1>9, <1>10, <1>11, <1>12
  DEF Step, channel_feed_loop

(* A step counts at most one change, within the bound.                     *)
LEMMA StepChanges ==
    ASSUME Bools, Names, Sets, Nums, setup \in SetupType, Step
    PROVE  changes' = changes \/ Change
<1> USE DEF chanVars, feedVars, offerVars, tableVars
<1>1. CASE FeedEnd
  BY <1>1 DEF FeedEnd, channel_request_feeding, channel_schedule_feed, ASSERT
<1>2. CASE FeedIdle \/ channel_do_down
  BY <1>2 DEF FeedIdle, channel_do_down, ASSERT
<1>3. ASSUME NEW n \in Nets, FeedPass(n)
      PROVE  changes' = changes \/ Change
  BY <1>3 DEF FeedPass, Remaining, rt_notify_basic
<1>4. CASE channel_init
  BY <1>4 DEF channel_init, channel_do_start
<1>5. CASE Pause \/ channel_close
  BY <1>5 DEF Pause, channel_close, channel_stop_export
<1>6. ASSUME NEW wait \in BOOLEAN, channel_open(wait)
      PROVE  changes' = changes \/ Change
  BY <1>6 DEF SetupType, channel_open, channel_do_start, channel_start_export,
              channel_schedule_feed, ASSERT, RpkiReload
<1>7. CASE graceful_restart_done
  BY <1>7 DEF graceful_restart_done, channel_start_export, channel_schedule_feed, ASSERT
<1>8. CASE rt_settle_timer
  BY <1>8 DEF rt_settle_timer, channel_roa_out_changed, channel_request_feeding,
              channel_schedule_feed, ASSERT
<1>9. CASE FeedRequest
  BY <1>9 DEF FeedRequest, channel_request_feeding, channel_schedule_feed, ASSERT
<1>10. ASSUME NEW n \in Nets, NEW present \in BOOLEAN, rte_announce(n, present)
       PROVE  changes' = changes \/ Change
  BY <1>10 DEF rte_announce, rt_notify_basic
<1>11. ASSUME NEW result \in SUBSET Nets, NEW others \in BOOLEAN, RoaChange(result, others)
       PROVE  changes' = changes \/ Change
  BY <1>11 DEF RoaChange
<1>12. ASSUME NEW result \in SUBSET Nets, NEW changed \in BOOLEAN, NEW soft \in BOOLEAN,
              channel_reconfigure(result, changed, soft)
       PROVE  changes' = changes \/ Change
  BY <1>12 DEF SetupType, RpkiReload, channel_reconfigure, channel_request_feeding,
               channel_schedule_feed, ASSERT
<1> QED
  BY <1>1, <1>2, <1>3, <1>4, <1>5, <1>6, <1>7, <1>8, <1>9, <1>10, <1>11, <1>12
  DEF Step, channel_feed_loop

(* A step keeps the types.                                                 *)
LEMMA StepType ==
    ASSUME TypeOK, Next
    PROVE  TypeOK'
<1>1. /\ setup \in Setups /\ setup \in SetupType /\ seen \subseteq Nets
      /\ Bools /\ Names /\ Sets /\ Nums /\ MaxChanges \in Nat
  BY TypeOKParts, ExportAssumption DEF SetupType
<1>2. Bools' /\ Names' /\ Sets'
  BY <1>1, StepBools, StepNames, StepSets DEF Next
<1>3. Nums'
  BY <1>1, StepCounts, StepChanges DEF Nums, Change, Next
<1>4. setup' \in Setups /\ seen' \subseteq Nets
  BY <1>1, <1>2 DEF Next, Observe, Acceptable, Sets
<1>5. (TypeOK <=> /\ setup \in Setups /\ seen \subseteq Nets
                 /\ Bools /\ Names /\ Sets /\ Nums)'
  BY TypeOKParts, PTL
<1> QED
  BY <1>2, <1>3, <1>4, <1>5

(* The channel and its history have their types, whatever is announced,    *)
(* reconfigured or requested, and in whatever order.                       *)
THEOREM TypeCorrect == Spec => []TypeOK
<1>1. Init => TypeOK
  <2>1. Init => Bools
    BY Zenon DEF Init, Bools
  <2>2. Init => setup \in Setups /\ seen \subseteq Nets /\ Names /\ Sets
    BY DEF Init, Names, Sets
  <2>3. Init => Nums
    BY ExportAssumption DEF Init, Nums
  <2> QED
    BY <2>1, <2>2, <2>3, TypeOKParts
<1>2. TypeOK /\ UNCHANGED vars => TypeOK'
  BY DEF TypeOK, vars, chanVars, feedVars, offerVars, tableVars
<1> QED
  BY <1>1, <1>2, StepType, PTL DEF Spec

----------------------------------------------------------------------------
(* The states of the channel and of its export                             *)

(* A step keeps export, feed and channel states in agreement.              *)
LEMMA StepStates ==
    ASSUME TypeOK, ExportStates, Next
    PROVE  ExportStates'
<1>1. Bools /\ Names
  BY TypeOKParts
<1> USE DEF ExportStates, chanVars, feedVars, offerVars, tableVars
<1>2. CASE FeedEnd
  BY <1>1, <1>2, Zenon DEF FeedEnd, channel_request_feeding, channel_schedule_feed, Bools
<1>3. CASE FeedIdle
  BY <1>3 DEF FeedIdle
<1>4. CASE channel_do_down
  BY <1>4 DEF channel_do_down
<1>5. ASSUME NEW n \in Nets, FeedPass(n)
      PROVE  ExportStates'
  BY <1>5 DEF FeedPass
<1>6. CASE channel_init
  BY <1>6 DEF channel_init
<1>7. CASE Pause \/ channel_close
  BY <1>7 DEF Pause, channel_close, channel_stop_export
<1>8. ASSUME NEW wait \in BOOLEAN, channel_open(wait)
      PROVE  ExportStates'
  BY <1>1, <1>8 DEF channel_open, channel_start_export, channel_schedule_feed, Bools
<1>9. CASE graceful_restart_done
  BY <1>1, <1>9 DEF graceful_restart_done, channel_start_export, channel_schedule_feed
<1>10. CASE rt_settle_timer
  BY <1>1, <1>10 DEF rt_settle_timer, channel_roa_out_changed, channel_request_feeding,
               channel_schedule_feed
<1>11. CASE FeedRequest
  BY <1>1, <1>11 DEF FeedRequest, channel_request_feeding, channel_schedule_feed
<1>12. ASSUME NEW n \in Nets, NEW present \in BOOLEAN, rte_announce(n, present)
       PROVE  ExportStates'
  BY <1>12 DEF rte_announce
<1>13. ASSUME NEW result, NEW others, RoaChange(result, others)
       PROVE  ExportStates'
  BY <1>13 DEF RoaChange
<1>14. ASSUME NEW result, NEW changed \in BOOLEAN, NEW soft \in BOOLEAN,
              channel_reconfigure(result, changed, soft)
       PROVE  ExportStates'
  BY <1>1, <1>14 DEF channel_reconfigure, channel_request_feeding, channel_schedule_feed
<1> QED
  BY <1>2, <1>3, <1>4, <1>5, <1>6, <1>7, <1>8, <1>9, <1>10, <1>11, <1>12, <1>13, <1>14
  DEF Next, Step, channel_feed_loop

(* The export of a channel runs only while the channel is up and does not  *)
(* wait for the end of graceful restart; its feed is always continued.     *)
THEOREM StatesFollow == Spec => []ExportStates
<1>1. Init => ExportStates
  BY DEF Init, ExportStates
<1>2. TypeOK /\ ExportStates /\ [Next]_vars => ExportStates'
  <2>1. ASSUME ExportStates, UNCHANGED vars PROVE ExportStates'
    BY <2>1 DEF ExportStates, vars, chanVars, feedVars
  <2> QED
    BY <2>1, StepStates
<1> QED
  BY <1>1, <1>2, TypeCorrect, PTL DEF Spec

(* No protocol both falls back to PS_START and has its channel reload when *)
(* ROA tables change.                                                      *)
NeverBoth == \A s \in Setups : ~(s.rpki_reload /\ s.may_pause)

(* Then only channels that are up are subscribed to ROA tables.            *)
Subscribed == subscribed => RpkiReload /\ channel_state = "UP"

(* A step fails no assertion and keeps the subscriptions right.            *)
LEMMA StepSound ==
    ASSUME NeverBoth, TypeOK, ExportStates, NoAssertFails, Subscribed, Next
    PROVE  NoAssertFails' /\ Subscribed'
<1>1. Bools /\ Names /\ setup \in SetupType /\ ~(RpkiReload /\ MayPause)
  BY TypeOKParts, ExportAssumption DEF SetupType, NeverBoth, RpkiReload, MayPause
<1>2. RpkiReload' = RpkiReload
  BY DEF Next, Observe, RpkiReload
<1> USE DEF ExportStates, NoAssertFails, Subscribed, ASSERT, chanVars, feedVars
<1>3. CASE FeedEnd
  BY <1>1, <1>2, <1>3, Zenon DEF FeedEnd, channel_request_feeding
<1>4. CASE FeedIdle
  BY <1>2, <1>4 DEF FeedIdle
<1>5. ASSUME NEW n \in Nets, FeedPass(n)
      PROVE  NoAssertFails' /\ Subscribed'
  BY <1>2, <1>5 DEF FeedPass
<1>6. CASE channel_init
  BY <1>2, <1>6 DEF channel_init
<1>7. CASE Pause
  BY <1>1, <1>2, <1>7 DEF Pause
<1>8. CASE channel_close
  BY <1>1, <1>2, <1>8 DEF channel_close
<1>9. CASE channel_do_down
  BY <1>1, <1>2, <1>9, Zenon DEF channel_do_down
<1>10. ASSUME NEW wait \in BOOLEAN, channel_open(wait)
       PROVE  NoAssertFails' /\ Subscribed'
  <2>1. export_state = "DOWN"
    BY <1>10 DEF channel_open
  <2>2. ~bugs'
    BY <2>1, <1>10, Zenon DEF channel_open, channel_start_export
  <2> QED
    BY <1>1, <1>2, <1>10, <2>2, Zenon DEF channel_open
<1>11. CASE graceful_restart_done
  BY <1>1, <1>2, <1>11, Zenon DEF graceful_restart_done, channel_start_export
<1>12. CASE rt_settle_timer
  BY <1>1, <1>2, <1>12, Zenon DEF rt_settle_timer, channel_roa_out_changed, channel_request_feeding
<1>13. CASE FeedRequest
  BY <1>1, <1>2, <1>13, Zenon DEF FeedRequest, channel_request_feeding
<1>14. ASSUME NEW n \in Nets, NEW present \in BOOLEAN, rte_announce(n, present)
       PROVE  NoAssertFails' /\ Subscribed'
  BY <1>2, <1>14 DEF rte_announce
<1>15. ASSUME NEW result, NEW others, RoaChange(result, others)
       PROVE  NoAssertFails' /\ Subscribed'
  BY <1>2, <1>15 DEF RoaChange
<1>16. ASSUME NEW result, NEW changed \in BOOLEAN, NEW soft \in BOOLEAN,
              channel_reconfigure(result, changed, soft)
       PROVE  NoAssertFails' /\ Subscribed'
  BY <1>1, <1>2, <1>16, Zenon DEF channel_reconfigure, channel_request_feeding
<1> QED
  BY <1>3, <1>4, <1>5, <1>6, <1>7, <1>8, <1>9, <1>10, <1>11, <1>12, <1>13, <1>14, <1>15, <1>16
  DEF Next, Step, channel_feed_loop

(* The asserts of the export hold, for channels that are not both paused   *)
(* and reloaded when ROA tables change: an export is started only when it  *)
(* is down, a feed requested only of a channel that is up, and a channel   *)
(* that goes down has no iterator left.                                    *)
THEOREM AssertsHold ==
    ASSUME NeverBoth
    PROVE  Spec => []ExportSound
<1>1. Init => NoAssertFails /\ Subscribed
  BY DEF Init, NoAssertFails, Subscribed
<1>2. TypeOK /\ ExportStates /\ NoAssertFails /\ Subscribed /\ [Next]_vars
      => NoAssertFails' /\ Subscribed'
  <2>1. ASSUME NoAssertFails, Subscribed, UNCHANGED vars PROVE NoAssertFails' /\ Subscribed'
    BY <2>1 DEF NoAssertFails, Subscribed, RpkiReload, vars, chanVars
  <2> QED
    BY <2>1, StepSound
<1>3. NoAssertFails /\ ExportStates => ExportSound
  BY DEF ExportSound
<1> QED
  BY <1>1, <1>2, <1>3, TypeCorrect, StatesFollow, PTL DEF Spec

----------------------------------------------------------------------------
(* Nothing is lost: ExportComplete                                         *)

(* The networks that are behind the feed, or all once it is over           *)
Passed ==
    IF export_state = "READY" THEN Nets
    ELSE IF export_state = "FEEDING" /\ feed_active THEN Nets \ todo ELSE {}

(* No change of the filter waits for another feed: none that the channel   *)
(* hears of when the ROA table has settled, none without a feed, none that *)
(* came during the feed.                                                   *)
UpToDate ==
    /\ ~(settling /\ subscribed)
    /\ ~unfed
    /\ ~(export_state = "FEEDING" /\ refeed_pending)

(* What the protocol has of n is right.                                    *)
Offered(n) ==
    /\ n \in export_map <=> n \in Acceptable /\ n \notin dropped
    /\ n \in dropped => out_limit = "BLOCKED"

(* Only routes of the table are exported or dropped, and not both.         *)
InTable ==
    /\ export_state = "DOWN" => export_map = {} /\ dropped = {}
    /\ \A n \in Nets : /\ n \in export_map => n \in routes /\ n \notin dropped
                       /\ n \in dropped => n \in routes

OfferedAll == UpToDate => \A n \in Passed : Offered(n)

(* What an offer does to n and not to other networks                       *)
NotifyEffect(n, new) ==
    /\ \A m \in Nets \ {n} : /\ (m \in export_map' <=> m \in export_map)
                             /\ (m \in dropped' <=> m \in dropped)
    /\ new => (n \in export_map' <=> n \notin dropped')
    /\ ~new => n \notin export_map' /\ n \notin dropped'
    /\ n \in dropped' => out_limit' = "BLOCKED"
    /\ out_limit = "BLOCKED" => out_limit' = "BLOCKED"

(* What rt_notify_basic() does to the map of exported networks.            *)
LEMMA Notified ==
    ASSUME NEW n, NEW new, NEW refeed, n \in export_map => n \notin dropped,
           rt_notify_basic(n, new, refeed)
    PROVE  NotifyEffect(n, new)
  BY DEF rt_notify_basic, NotifyEffect

(* A step keeps only routes of the table exported or dropped, and none     *)
(* both.                                                                   *)
LEMMA StepInTable ==
    ASSUME TypeOK, ExportStates, InTable, Next
    PROVE  InTable'
<1>1. Bools /\ Names /\ Sets
  BY TypeOKParts
<1> USE DEF InTable, ExportStates, Sets, chanVars, feedVars, offerVars, tableVars
<1>2. CASE FeedEnd
  BY <1>1, <1>2, Zenon DEF FeedEnd, channel_request_feeding, channel_schedule_feed
<1>3. CASE FeedIdle
  BY <1>3 DEF FeedIdle
<1>4. CASE channel_do_down
  BY <1>4 DEF channel_do_down
<1>5. ASSUME NEW n \in Nets, FeedPass(n)
      PROVE  InTable'
  <2>1. /\ rt_notify_basic(n, n \in accepted, refeeding)
        /\ routes' = routes /\ export_state' = "FEEDING" /\ n \in routes
    BY <1>5 DEF FeedPass
  <2>2. NotifyEffect(n, n \in accepted)
    BY <2>1, Notified, Zenon
  <2>3. ASSUME NEW m \in Nets
        PROVE  /\ m \in export_map' => m \in routes' /\ m \notin dropped'
               /\ m \in dropped' => m \in routes'
    BY <2>1, <2>2 DEF NotifyEffect
  <2> QED
    BY <2>1, <2>3
<1>6. CASE channel_init
  BY <1>6 DEF channel_init, channel_do_start
<1>7. CASE Pause \/ channel_close
  BY <1>7 DEF Pause, channel_close, channel_stop_export
<1>8. ASSUME NEW wait \in BOOLEAN, channel_open(wait)
      PROVE  InTable'
  BY <1>8 DEF channel_open, channel_do_start, channel_start_export
<1>9. CASE graceful_restart_done
  BY <1>1, <1>9 DEF graceful_restart_done
<1>10. CASE rt_settle_timer
  BY <1>1, <1>10 DEF rt_settle_timer, channel_roa_out_changed, channel_request_feeding,
                     channel_schedule_feed
<1>11. CASE FeedRequest
  BY <1>1, <1>11 DEF FeedRequest, channel_request_feeding, channel_schedule_feed
<1>12. ASSUME NEW n \in Nets, NEW present \in BOOLEAN, rte_announce(n, present)
       PROVE  InTable'
  <2>1. /\ routes' = IF present THEN routes \union {n} ELSE routes \ {n}
        /\ export_state' = export_state
    BY <1>12 DEF rte_announce
  <2>2. CASE export_state = "DOWN"
    BY <1>12, <2>1, <2>2 DEF rte_announce
  <2>3. CASE export_state # "DOWN"
    <3>1. rt_notify_basic(n, present /\ n \in accepted, FALSE)
      BY <1>12, <2>3, Zenon DEF rte_announce
    <3>2. NotifyEffect(n, present /\ n \in accepted)
      BY <3>1, Notified, Zenon
    <3>3. ASSUME NEW m \in Nets
          PROVE  /\ m \in export_map' => m \in routes' /\ m \notin dropped'
                 /\ m \in dropped' => m \in routes'
      BY <2>1, <3>2 DEF NotifyEffect
    <3> QED
      BY <2>1, <2>3, <3>3
  <2> QED
    BY <2>2, <2>3
<1>13. ASSUME NEW result, NEW others, RoaChange(result, others)
       PROVE  InTable'
  BY <1>13 DEF RoaChange
<1>14. ASSUME NEW result, NEW changed \in BOOLEAN, NEW soft \in BOOLEAN,
              channel_reconfigure(result, changed, soft)
       PROVE  InTable'
  BY <1>1, <1>14 DEF channel_reconfigure, channel_request_feeding, channel_schedule_feed
<1> QED
  BY <1>2, <1>3, <1>4, <1>5, <1>6, <1>7, <1>8, <1>9, <1>10, <1>11, <1>12, <1>13, <1>14
  DEF Next, Step, channel_feed_loop

(* A step after which nothing is behind the feed                           *)
LEMMA NothingPassed ==
    ASSUME ExportStates,
           \/ channel_init \/ Pause \/ channel_close \/ channel_do_down \/ FeedRequest
           \/ \E wait \in BOOLEAN : channel_open(wait)
           \/ graceful_restart_done
    PROVE  Passed' = {}
<1> USE DEF Passed, ExportStates, chanVars, feedVars
<1>1. CASE channel_init
  BY <1>1 DEF channel_init
<1>2. CASE Pause \/ channel_close
  BY <1>2 DEF Pause, channel_close, channel_stop_export
<1>3. CASE channel_do_down
  BY <1>3 DEF channel_do_down
<1>4. CASE FeedRequest
  BY <1>4 DEF FeedRequest, channel_request_feeding, channel_schedule_feed
<1>5. ASSUME NEW wait \in BOOLEAN, channel_open(wait)
      PROVE  Passed' = {}
  BY <1>5 DEF channel_open, channel_start_export, channel_schedule_feed
<1>6. CASE graceful_restart_done
  BY <1>6 DEF graceful_restart_done, channel_start_export, channel_schedule_feed
<1> QED
  BY <1>1, <1>2, <1>3, <1>4, <1>5, <1>6

(* What the protocol has of m stays right when another network is offered. *)
LEMMA OfferKept ==
    ASSUME NEW n, NEW new, NEW m \in Nets \ {n}, NotifyEffect(n, new), Offered(m),
           m \in Acceptable' <=> m \in Acceptable
    PROVE  Offered(m)'
  BY DEF NotifyEffect, Offered

(* After a notification the network is exported, rejected or blocked as    *)
(* it should be.                                                           *)
LEMMA OfferMade ==
    ASSUME NEW n, NEW new, NotifyEffect(n, new), (n \in Acceptable') <=> new
    PROVE  Offered(n)'
  BY DEF NotifyEffect, Offered

(* A step keeps every network that the feed has passed offered as it is    *)
(* now.                                                                    *)
LEMMA StepOffered ==
    ASSUME TypeOK, ExportStates, InTable, OfferedAll, Next
    PROVE  OfferedAll'
<1>1. Bools /\ Names /\ Sets
  BY TypeOKParts
<1>2. \A m \in Nets : m \notin routes => Offered(m)
  BY DEF InTable, Offered, Acceptable
<1>3. CASE Passed' = {}
  BY <1>3 DEF OfferedAll
<1>4. CASE FeedEnd
  <2>1. SUFFICES ASSUME UpToDate', export_state' = "READY", NEW m \in Nets
                 PROVE  Offered(m)'
    BY <1>3, <1>4, Zenon DEF OfferedAll, Passed, FeedEnd, channel_request_feeding, channel_schedule_feed
  <2>2. UNCHANGED <<export_map, routes, accepted, dropped, out_limit, settling, subscribed>>
    BY <1>4, <2>1 DEF FeedEnd, channel_request_feeding, channel_schedule_feed, offerVars,
                      chanVars, tableVars
  <2>3. CASE m \notin routes
    BY <1>2, <2>2, <2>3 DEF Offered, Acceptable
  <2>4. CASE m \in routes
    <3>1. feed_active /\ m \notin todo /\ export_state = "FEEDING"
      BY <1>1, <1>4, <2>4 DEF FeedEnd, Remaining, Bools
    <3>2. ~unfed /\ ~refeed_pending
      BY <1>1, <1>4, <2>1, <3>1 DEF FeedEnd, Bools, UpToDate, channel_request_feeding,
                                    channel_schedule_feed
    <3>3. UpToDate /\ m \in Passed
      BY <2>1, <2>2, <3>1, <3>2 DEF UpToDate, Passed
    <3> QED
      BY <2>2, <3>3 DEF OfferedAll, Offered, Acceptable
  <2> QED
    BY <2>3, <2>4
<1>5. CASE FeedIdle
  BY <1>5 DEF FeedIdle, OfferedAll, UpToDate, Passed, Offered, Acceptable, chanVars, offerVars,
              tableVars
<1>6. ASSUME NEW n \in Nets, FeedPass(n)
      PROVE  OfferedAll'
  <2>1. SUFFICES ASSUME UpToDate', NEW m \in Passed'
                 PROVE  Offered(m)'
    BY DEF OfferedAll
  <2>2. /\ rt_notify_basic(n, n \in accepted, refeeding)
        /\ UNCHANGED <<routes, accepted, settling, subscribed, export_state>>
        /\ export_state = "FEEDING" /\ n \in routes /\ feed_active'
        /\ refeed_pending' = (refeed_pending /\ feed_active)
        /\ unfed' = (unfed /\ feed_active)
    BY <1>6 DEF FeedPass, chanVars, tableVars
  <2>3. NotifyEffect(n, n \in accepted)
    BY <2>2, Notified, Zenon DEF InTable
  <2>4. CASE m = n
    <3>1. n \in Acceptable' <=> n \in accepted
      BY <2>2 DEF Acceptable
    <3> QED
      BY <2>3, <2>4, <3>1, OfferMade, Zenon
  <2>5. CASE m # n
    <3>1. m \in Nets
      BY <2>1, <2>2 DEF Passed
    <3>2. m \in Acceptable' <=> m \in Acceptable
      BY <2>2 DEF Acceptable
    <3>3. m \in routes => feed_active /\ m \notin todo
      BY <1>6, <2>2, <2>5, <3>1 DEF FeedPass, Remaining, Passed
    <3>4. m \in routes => UpToDate /\ m \in Passed
      BY <1>1, <2>1, <2>2, <3>1, <3>3 DEF UpToDate, Passed, Bools
    <3>5. Offered(m)
      BY <1>2, <3>1, <3>4 DEF OfferedAll
    <3> QED
      BY <2>3, <2>5, <3>1, <3>2, <3>5, OfferKept, Zenon
  <2> QED
    BY <2>4, <2>5
<1>7. CASE \/ channel_init \/ Pause \/ channel_close \/ channel_do_down \/ FeedRequest
           \/ \E wait \in BOOLEAN : channel_open(wait)
           \/ graceful_restart_done
  BY <1>3, <1>7, NothingPassed
<1>8. CASE rt_settle_timer
  <2>1. CASE subscribed
    <3>1. CASE export_state = "FEEDING"
      BY <1>8, <2>1, <3>1 DEF rt_settle_timer, channel_roa_out_changed, OfferedAll, UpToDate
    <3>2. CASE export_state # "FEEDING"
      <4>1. Passed' = {}
        BY <1>1, <1>8, <2>1, <3>2 DEF rt_settle_timer, channel_roa_out_changed,
              channel_request_feeding, channel_schedule_feed, Passed, Names
      <4> QED
        BY <1>3, <4>1
    <3> QED
      BY <3>1, <3>2
  <2>2. CASE ~subscribed
    BY <1>8, <2>2 DEF rt_settle_timer, OfferedAll, UpToDate, Passed, Offered, Acceptable,
                      chanVars, feedVars
  <2> QED
    BY <2>1, <2>2
<1>9. ASSUME NEW n \in Nets, NEW present \in BOOLEAN, rte_announce(n, present)
      PROVE  OfferedAll'
  <2>1. /\ routes' = IF present THEN routes \union {n} ELSE routes \ {n}
        /\ UNCHANGED <<export_state, accepted, feed_active, todo, settling, subscribed, unfed,
                       refeed_pending>>
    BY <1>9 DEF rte_announce, chanVars, feedVars
  <2>2. CASE export_state = "DOWN"
    BY <1>3, <2>1, <2>2 DEF Passed
  <2>3. CASE export_state # "DOWN"
    <3>1. SUFFICES ASSUME UpToDate, NEW m \in Passed
                   PROVE  Offered(m)'
      BY <2>1 DEF OfferedAll, UpToDate, Passed
    <3>2. rt_notify_basic(n, present /\ n \in accepted, FALSE)
      BY <1>9, <2>3, Zenon DEF rte_announce
    <3>3. NotifyEffect(n, present /\ n \in accepted)
      BY <3>2, Notified, Zenon DEF InTable
    <3>4. CASE m = n
      <4>1. n \in Acceptable' <=> present /\ n \in accepted
        BY <2>1 DEF Acceptable
      <4> QED
        BY <3>3, <3>4, <4>1, OfferMade, Zenon
    <3>5. CASE m # n
      <4>1. m \in Nets /\ Offered(m)
        BY <3>1 DEF OfferedAll, Passed
      <4>2. m \in Acceptable' <=> m \in Acceptable
        BY <2>1, <3>5 DEF Acceptable
      <4> QED
        BY <3>3, <3>5, <4>1, <4>2, OfferKept, Zenon
    <3> QED
      BY <3>4, <3>5
  <2> QED
    BY <2>2, <2>3
<1>10. ASSUME NEW result, NEW others \in BOOLEAN, RoaChange(result, others)
       PROVE  OfferedAll'
  <2>1. UpToDate' => Passed' = {}
    BY <1>1, <1>10, Zenon DEF RoaChange, UpToDate, Passed, ExportStates, chanVars, feedVars, Bools
  <2> QED
    BY <2>1 DEF OfferedAll
<1>11. ASSUME NEW result, NEW changed \in BOOLEAN, NEW soft \in BOOLEAN,
              channel_reconfigure(result, changed, soft)
       PROVE  OfferedAll'
  <2>1. CASE changed
    <3>1. UpToDate' => ~soft
      BY <1>11, <2>1 DEF channel_reconfigure, UpToDate
    <3>2. ~soft => Passed' = {}
      BY <1>1, <1>11, <2>1 DEF channel_reconfigure, channel_request_feeding,
            channel_schedule_feed, Passed, ExportStates, feedVars, Names
    <3> QED
      BY <3>1, <3>2 DEF OfferedAll
  <2>2. CASE ~changed
    <3>1. /\ UNCHANGED <<accepted, export_map, dropped, routes, settling, subscribed,
                         export_state, feed_active, todo, refeed_pending>>
          /\ unfed' = (unfed \/ dropped # {})
      BY <1>11, <2>2 DEF channel_reconfigure, feedVars
    <3>2. UpToDate' => UpToDate /\ dropped = {}
      BY <3>1, Zenon DEF UpToDate
    <3> QED
      BY <3>1, <3>2 DEF OfferedAll, Passed, Offered, Acceptable
  <2> QED
    BY <2>1, <2>2
<1> QED
  BY <1>4, <1>5, <1>6, <1>7, <1>8, <1>9, <1>10, <1>11 DEF Next, Step, channel_feed_loop

(* Once a feed has finished the protocol has exactly the routes that the   *)
(* filter accepts, without those the limit rejected: no change of a route, *)
(* of a ROA table or of the configuration is lost, whenever it comes       *)
(* (rt_feed_channel, channel_feed_loop, channel_roa_out_changed).          *)
THEOREM NothingLost == Spec => []ExportComplete
<1>1. Init => InTable /\ OfferedAll
  BY DEF Init, InTable, OfferedAll, Passed
<1>2. TypeOK /\ ExportStates /\ InTable /\ OfferedAll /\ [Next]_vars => InTable' /\ OfferedAll'
  <2>1. ASSUME InTable, OfferedAll, UNCHANGED vars
        PROVE  InTable' /\ OfferedAll'
    BY <2>1 DEF InTable, OfferedAll, UpToDate, Passed, Offered, Acceptable, vars, chanVars,
                feedVars, offerVars, tableVars
  <2> QED
    BY <2>1, StepInTable, StepOffered
<1>3. TypeOK /\ InTable /\ OfferedAll => ExportComplete
  <2>1. SUFFICES ASSUME TypeOK, OfferedAll, Quiet
                 PROVE  /\ export_map = Acceptable \ dropped
                        /\ dropped # {} => out_limit = "BLOCKED"
    BY DEF ExportComplete
  <2>2. \A m \in Nets : Offered(m)
    BY <2>1 DEF Quiet, OfferedAll, UpToDate, Passed
  <2>3. Sets
    BY <2>1, TypeOKParts
  <2> QED
    BY <2>2, <2>3 DEF Offered, Sets, Acceptable
<1> QED
  BY <1>1, <1>2, <1>3, TypeCorrect, StatesFollow, PTL DEF Spec

----------------------------------------------------------------------------
(* The limit: LimitExact                                                   *)

(* A subset of the networks is finite, with no more elements than another  *)
(* that includes it.                                                       *)
LEMMA Smaller ==
    ASSUME NEW T \in SUBSET Nets, NEW S \in SUBSET T
    PROVE  /\ IsFiniteSet(S) /\ Cardinality(S) \in Nat
           /\ IsFiniteSet(T) /\ Cardinality(T) \in Nat
           /\ Cardinality(S) <= Cardinality(T)
<1>1. IsFiniteSet(T)
  BY FS_Subset, ExportAssumption
<1>2. IsFiniteSet(S) /\ Cardinality(S) <= Cardinality(T)
  BY <1>1, FS_Subset
<1> QED
  BY <1>1, <1>2, FS_CardinalityType

(* A set that has another one and one more element is larger.              *)
LEMMA OneMore ==
    ASSUME NEW T \in SUBSET Nets, NEW S \in SUBSET T, NEW x \in T, x \notin S
    PROVE  Cardinality(T) >= Cardinality(S) + 1
<1>1. IsFiniteSet(S) /\ Cardinality(S) \in Nat
  BY Smaller
<1>2. Cardinality(S \union {x}) = Cardinality(S) + 1
  BY <1>1, FS_AddElement, Zenon
<1>3. S \union {x} \in SUBSET T
  OBVIOUS
<1>4. Cardinality(S \union {x}) <= Cardinality(T) /\ Cardinality(T) \in Nat
  BY <1>3, Smaller
<1> QED
  BY <1>1, <1>2, <1>4

(* The route of n is taken only where there is room for it.                *)
LEMMA NotifyWithin ==
    ASSUME Sets, setup \in SetupType, setup' = setup, WithinLimit,
           NEW n \in Nets, NEW new, NEW refeed, rt_notify_basic(n, new, refeed)
    PROVE  WithinLimit'
<1>1. export_map \in SUBSET Nets /\ OutLimit \in Nat /\ OutLimit' = OutLimit
  BY DEF Sets, SetupType, OutLimit
<1>2. IsFiniteSet(export_map) /\ Cardinality(export_map) \in Nat
  BY <1>1, Smaller
<1>3. CASE export_map' \subseteq export_map
  BY <1>1, <1>2, <1>3, Smaller DEF WithinLimit
<1>4. CASE ~(export_map' \subseteq export_map)
  <2>1. /\ export_map' = export_map \union {n} /\ n \notin export_map
        /\ ~(Cardinality(export_map) >= OutLimit)
    BY <1>4 DEF rt_notify_basic
  <2>2. Cardinality(export_map') = Cardinality(export_map) + 1
    BY <1>2, <2>1, FS_AddElement, Zenon
  <2> QED
    BY <1>1, <1>2, <2>1, <2>2 DEF WithinLimit
<1> QED
  BY <1>3, <1>4

(* A step keeps the number of exported networks within the limit.          *)
LEMMA StepWithin ==
    ASSUME TypeOK, WithinLimit, Next
    PROVE  WithinLimit'
<1>1. Sets /\ setup \in SetupType /\ setup' = setup
  BY TypeOKParts, ExportAssumption DEF SetupType, Next, Observe
<1>2. ASSUME export_map' \subseteq export_map
      PROVE  WithinLimit'
  <2>1. export_map \in SUBSET Nets /\ OutLimit \in Nat /\ OutLimit' = OutLimit
    BY <1>1 DEF Sets, SetupType, OutLimit
  <2> QED
    BY <1>2, <2>1, Smaller DEF WithinLimit
<1>4. ASSUME NEW n \in Nets, FeedPass(n)
      PROVE  WithinLimit'
  <2>1. rt_notify_basic(n, n \in accepted, refeeding)
    BY <1>4 DEF FeedPass
  <2> QED
    BY <1>1, <2>1, NotifyWithin, Zenon
<1>5. ASSUME NEW n \in Nets, NEW present \in BOOLEAN, rte_announce(n, present)
      PROVE  WithinLimit'
  <2>1. CASE export_state = "DOWN"
    BY <1>2, <1>5, <2>1 DEF rte_announce, offerVars
  <2>2. CASE export_state # "DOWN"
    <3>1. rt_notify_basic(n, present /\ n \in accepted, FALSE)
      BY <1>5, <2>2, Zenon DEF rte_announce
    <3> QED
      BY <1>1, <3>1, NotifyWithin, Zenon
  <2> QED
    BY <2>1, <2>2
<1>6. CASE FeedEnd \/ FeedIdle \/ channel_do_down \/ graceful_restart_done \/ rt_settle_timer
           \/ FeedRequest
  BY <1>2, <1>6 DEF FeedEnd, FeedIdle, channel_do_down, graceful_restart_done, rt_settle_timer,
                    FeedRequest, offerVars
<1>7. CASE channel_init \/ Pause \/ channel_close
  BY <1>2, <1>7 DEF channel_init, channel_do_start, Pause, channel_close, channel_stop_export
<1>8. ASSUME NEW wait \in BOOLEAN, channel_open(wait)
      PROVE  WithinLimit'
  BY <1>2, <1>8 DEF channel_open, channel_do_start, offerVars
<1>9. ASSUME NEW result, NEW others, RoaChange(result, others)
      PROVE  WithinLimit'
  BY <1>2, <1>9 DEF RoaChange, offerVars
<1>10. ASSUME NEW result, NEW changed, NEW soft, channel_reconfigure(result, changed, soft)
       PROVE  WithinLimit'
  BY <1>2, <1>10 DEF channel_reconfigure
<1> QED
  BY <1>4, <1>5, <1>6, <1>7, <1>8, <1>9, <1>10 DEF Next, Step, channel_feed_loop

(* The protocol never has more routes than the export limit allows.        *)
THEOREM LimitKept == Spec => []WithinLimit
<1>1. Init => WithinLimit
  <2>1. SUFFICES ASSUME Init PROVE WithinLimit
    OBVIOUS
  <2>2. export_map = {} /\ OutLimit \in Nat
    BY <2>1, ExportAssumption DEF Init, OutLimit
  <2> QED
    BY <2>2, FS_EmptySet DEF WithinLimit
<1>2. WithinLimit /\ UNCHANGED vars => WithinLimit'
  BY DEF WithinLimit, OutLimit, vars, offerVars
<1> QED
  BY <1>1, <1>2, StepWithin, TypeCorrect, PTL DEF Spec

(* What is counted before the iterator of a refeed starts: nothing.        *)
CountZero == export_state = "FEEDING" /\ refeeding /\ ~feed_active => refeed_count = 0

(* What a refeed has counted it has seen, and passed.                      *)
CountSeen ==
    export_state = "FEEDING" /\ refeeding /\ feed_active
        => refeed_count <= Cardinality(seen \ todo)

(* A limit that blocks was exceeded since the feed started.                *)
BlockedFull ==
    out_limit = "BLOCKED" /\ (export_state = "READY" \/ (export_state = "FEEDING" /\ ~refeeding))
        => Cardinality(seen) > OutLimit

(* An export starts with a limit that does not block.                      *)
StartsOpen ==
    /\ export_state = "DOWN" /\ channel_state \in {"START", "UP"} => out_limit = "INITIAL"
    /\ MayPause => out_limit = "INITIAL"

(* The limit of a channel that is paused is never reached.                 *)
PausedFit == \A s \in Setups : s.may_pause => Cardinality(Nets) <= s.out_limit

(* What is acceptable or exported has been seen.                           *)
LEMMA SeenNew ==
    ASSUME Observe
    PROVE  Acceptable' \union export_map' \subseteq seen'
  BY DEF Observe

(* What was seen stays seen until a new feed.                              *)
LEMMA SeenKept ==
    ASSUME Observe, export_state # "DOWN",
           feed_active \/ ~refeeding \/ (~feed_active' /\ export_state' = export_state)
    PROVE  seen \subseteq seen'
<1>1. CASE export_state' = export_state /\ ~feed_active'
  BY <1>1 DEF Observe
<1>2. CASE feed_active \/ ~refeeding
  BY <1>2 DEF Observe
<1> QED
  BY <1>1, <1>2

(* Announcements outside of a feed are not counted.                        *)
LEMMA NotCounted ==
    ASSUME Nums, NEW n, NEW present, rte_announce(n, present)
    PROVE  refeed_count' = refeed_count
<1>1. CASE export_state = "DOWN"
  BY <1>1 DEF rte_announce, offerVars
<1>2. CASE export_state # "DOWN"
  <2>1. rt_notify_basic(n, present /\ n \in accepted, FALSE)
    BY <1>2, Zenon DEF rte_announce
  <2>2. refeed_count' = refeed_count + 0
    BY <2>1, Zenon DEF rt_notify_basic
  <2> QED
    BY <2>2 DEF Nums
<1> QED
  BY <1>1, <1>2

(* A step keeps the counter at zero until a refeed starts.                 *)
LEMMA StepCountZero ==
    ASSUME TypeOK, ExportStates, CountZero, Next
    PROVE  CountZero'
<1>1. Bools /\ Names /\ Nums
  BY TypeOKParts
<1> USE DEF CountZero, ExportStates, chanVars, feedVars, offerVars, tableVars
<1>2. CASE FeedEnd
  BY <1>1, <1>2, Zenon DEF FeedEnd, channel_request_feeding, channel_schedule_feed
<1>3. CASE FeedIdle
  BY <1>3 DEF FeedIdle
<1>4. CASE channel_do_down
  BY <1>4 DEF channel_do_down
<1>5. ASSUME NEW n \in Nets, FeedPass(n)
      PROVE  CountZero'
  BY <1>5 DEF FeedPass
<1>6. CASE channel_init
  BY <1>6 DEF channel_init
<1>7. CASE Pause \/ channel_close
  BY <1>7 DEF Pause, channel_close, channel_stop_export
<1>8. ASSUME NEW wait \in BOOLEAN, channel_open(wait)
      PROVE  CountZero'
  BY <1>1, <1>8, Zenon DEF channel_open, channel_start_export, channel_schedule_feed
<1>9. CASE graceful_restart_done
  BY <1>1, <1>9, Zenon DEF graceful_restart_done, channel_start_export, channel_schedule_feed
<1>10. CASE rt_settle_timer
  BY <1>1, <1>10, Zenon DEF rt_settle_timer, channel_roa_out_changed, channel_request_feeding,
               channel_schedule_feed
<1>11. CASE FeedRequest
  BY <1>1, <1>11, Zenon DEF FeedRequest, channel_request_feeding, channel_schedule_feed
<1>12. ASSUME NEW n \in Nets, NEW present \in BOOLEAN, rte_announce(n, present)
       PROVE  CountZero'
  <2>1. UNCHANGED <<feedVars, refeed_count>>
    BY <1>1, <1>12, NotCounted, Zenon DEF rte_announce
  <2> QED
    BY <2>1
<1>13. ASSUME NEW result, NEW others, RoaChange(result, others)
       PROVE  CountZero'
  BY <1>13 DEF RoaChange
<1>14. ASSUME NEW result, NEW changed \in BOOLEAN, NEW soft \in BOOLEAN,
              channel_reconfigure(result, changed, soft)
       PROVE  CountZero'
  BY <1>1, <1>14, Zenon DEF channel_reconfigure, channel_request_feeding, channel_schedule_feed
<1> QED
  BY <1>2, <1>3, <1>4, <1>5, <1>6, <1>7, <1>8, <1>9, <1>10, <1>11, <1>12, <1>13, <1>14
  DEF Next, Step, channel_feed_loop

(* A step keeps the counter within the networks seen and passed.           *)
LEMMA StepCountSeen ==
    ASSUME TypeOK, TypeOK', ExportStates, CountZero, CountSeen, Next
    PROVE  CountSeen'
<1>1. /\ Bools /\ Names /\ Sets /\ Nums /\ seen \in SUBSET Nets /\ seen' \in SUBSET Nets
      /\ refeed_count' \in Nat
  BY TypeOKParts DEF TypeOK
<1>2. SUFFICES ASSUME export_state' = "FEEDING", refeeding', feed_active'
               PROVE  refeed_count' <= Cardinality(seen' \ todo')
  BY DEF CountSeen
<1>3. ASSUME UNCHANGED <<export_state, refeeding, feed_active, todo, refeed_count>>
      PROVE  refeed_count' <= Cardinality(seen' \ todo')
  <2>1. export_state = "FEEDING" /\ refeeding /\ feed_active /\ todo' = todo
    BY <1>2, <1>3
  <2>2. seen \subseteq seen'
    BY <2>1, SeenKept DEF Next
  <2>3. seen \ todo \in SUBSET (seen' \ todo') /\ seen' \ todo' \in SUBSET Nets
    BY <1>1, <2>1, <2>2
  <2>4. /\ Cardinality(seen \ todo) <= Cardinality(seen' \ todo')
        /\ Cardinality(seen \ todo) \in Nat /\ Cardinality(seen' \ todo') \in Nat
    BY <2>3, Smaller
  <2>5. refeed_count <= Cardinality(seen \ todo) /\ refeed_count \in Nat
    BY <1>1, <2>1 DEF CountSeen, Nums
  <2> QED
    BY <1>3, <2>4, <2>5
<1>4. ASSUME NEW n \in Nets, FeedPass(n)
      PROVE  refeed_count' <= Cardinality(seen' \ todo')
  <2>1. /\ export_state = "FEEDING" /\ refeeding /\ n \in routes /\ n \in Remaining
        /\ todo' \subseteq Remaining \ {n}
        /\ UNCHANGED <<routes, accepted>>
    BY <1>2, <1>4 DEF FeedPass, tableVars
  <2>2. refeed_count' = refeed_count + (IF n \in accepted THEN 1 ELSE 0)
    BY <1>4, <2>1 DEF FeedPass, rt_notify_basic
  <2>3. n \in accepted => n \in seen' \ todo'
    BY <2>1, SeenNew DEF Next, Acceptable
  <2>4. seen' \ todo' \in SUBSET Nets
    BY <1>1
  <2>5. CASE ~feed_active
    <3>1. refeed_count = 0
      BY <2>1, <2>5 DEF CountZero
    <3>2. {} \in SUBSET (seen' \ todo') /\ Cardinality({}) = 0
      BY FS_EmptySet
    <3>3. Cardinality(seen' \ todo') \in Nat
      BY <2>4, <3>2, Smaller
    <3>4. n \in accepted => Cardinality(seen' \ todo') >= 1
      <4>1. n \in accepted => Cardinality(seen' \ todo') >= Cardinality({}) + 1
        BY <2>3, <2>4, <3>2, OneMore
      <4> QED
        BY <3>2, <4>1
    <3> QED
      BY <2>2, <3>1, <3>3, <3>4
  <2>6. CASE feed_active
    <3>1. seen \subseteq seen'
      BY <2>1, <2>6, SeenKept DEF Next
    <3>2. seen \ todo \in SUBSET (seen' \ todo') /\ n \notin seen \ todo
      BY <2>1, <2>6, <3>1 DEF Remaining
    <3>3. /\ Cardinality(seen \ todo) <= Cardinality(seen' \ todo')
          /\ Cardinality(seen \ todo) \in Nat /\ Cardinality(seen' \ todo') \in Nat
      BY <2>4, <3>2, Smaller
    <3>4. n \in accepted => Cardinality(seen' \ todo') >= Cardinality(seen \ todo) + 1
      BY <2>3, <2>4, <3>2, OneMore
    <3>5. refeed_count <= Cardinality(seen \ todo) /\ refeed_count \in Nat
      BY <1>1, <2>1, <2>6 DEF CountSeen, Nums
    <3> QED
      BY <2>2, <3>3, <3>4, <3>5
  <2> QED
    BY <2>5, <2>6
<1>5. CASE FeedEnd
  BY <1>2, <1>5 DEF FeedEnd, channel_request_feeding, channel_schedule_feed
<1>6. CASE FeedIdle
  BY <1>2, <1>6 DEF FeedIdle
<1>7. CASE channel_do_down
  BY <1>3, <1>7 DEF channel_do_down, offerVars, feedVars
<1>8. CASE channel_init
  BY <1>2, <1>8 DEF channel_init, ExportStates
<1>9. CASE Pause \/ channel_close
  BY <1>2, <1>9 DEF Pause, channel_close, channel_stop_export
<1>10. ASSUME NEW wait \in BOOLEAN, channel_open(wait)
       PROVE  FALSE
  BY <1>2, <1>10, Zenon DEF channel_open, channel_start_export, channel_schedule_feed, ExportStates
<1>11. CASE graceful_restart_done
  BY <1>2, <1>3, <1>11, Zenon DEF graceful_restart_done, channel_start_export, channel_schedule_feed,
                           offerVars, feedVars
<1>12. CASE rt_settle_timer
  <2>1. CASE export_state = "FEEDING" \/ ~subscribed
    BY <1>3, <1>12, <2>1 DEF rt_settle_timer, channel_roa_out_changed, feedVars
  <2>2. CASE export_state # "FEEDING" /\ subscribed
    BY <1>1, <1>2, <1>12, <2>2, Zenon DEF rt_settle_timer, channel_roa_out_changed,
          channel_request_feeding, channel_schedule_feed, Names
  <2> QED
    BY <2>1, <2>2
<1>13. CASE FeedRequest
  BY <1>1, <1>2, <1>13, Zenon DEF FeedRequest, channel_request_feeding, channel_schedule_feed,
                           ExportStates
<1>14. ASSUME NEW n \in Nets, NEW present \in BOOLEAN, rte_announce(n, present)
       PROVE  refeed_count' <= Cardinality(seen' \ todo')
  <2>1. UNCHANGED <<feedVars, refeed_count>>
    BY <1>1, <1>14, NotCounted, Zenon DEF rte_announce
  <2> QED
    BY <1>3, <2>1 DEF feedVars
<1>15. ASSUME NEW result, NEW others, RoaChange(result, others)
       PROVE  refeed_count' <= Cardinality(seen' \ todo')
  BY <1>3, <1>15 DEF RoaChange, offerVars, feedVars
<1>16. ASSUME NEW result, NEW changed \in BOOLEAN, NEW soft \in BOOLEAN,
              channel_reconfigure(result, changed, soft)
       PROVE  refeed_count' <= Cardinality(seen' \ todo')
  <2>1. CASE channel_state = "UP" /\ changed /\ ~soft
    BY <1>2, <1>16, <2>1, Zenon DEF channel_reconfigure, channel_request_feeding,
          channel_schedule_feed, ExportStates
  <2>2. CASE ~(channel_state = "UP" /\ changed /\ ~soft)
    BY <1>3, <1>16, <2>2 DEF channel_reconfigure, feedVars
  <2> QED
    BY <2>1, <2>2
<1> QED
  BY <1>4, <1>5, <1>6, <1>7, <1>8, <1>9, <1>10, <1>11, <1>12, <1>13, <1>14, <1>15, <1>16
  DEF Next, Step, channel_feed_loop

(* A route that meets a full limit makes it block, when more networks than *)
(* the limit are acceptable or exported.                                   *)
LEMMA HitMeansFull ==
    ASSUME Sets, setup \in SetupType, Observe, seen' \in SUBSET Nets,
           NEW n \in Nets, NEW new, NEW refeed, rt_notify_basic(n, new, refeed),
           new => n \in Acceptable',
           out_limit' = "BLOCKED", out_limit # "BLOCKED"
    PROVE  Cardinality(seen') > OutLimit' /\ Cardinality(Nets) > OutLimit
<1>1. export_map \in SUBSET Nets /\ OutLimit \in Nat /\ OutLimit' = OutLimit
  BY DEF Sets, SetupType, OutLimit, Observe
<1>2. new /\ n \notin export_map /\ Cardinality(export_map) >= OutLimit
      /\ export_map' = export_map
  BY DEF rt_notify_basic
<1>3. export_map \in SUBSET seen' /\ n \in seen'
  BY <1>2, SeenNew
<1>4. /\ Cardinality(seen') >= Cardinality(export_map) + 1
      /\ Cardinality(export_map) \in Nat
      /\ Cardinality(seen') <= Cardinality(Nets)
      /\ Cardinality(seen') \in Nat /\ Cardinality(Nets) \in Nat
  BY <1>1, <1>2, <1>3, OneMore, Smaller
<1> QED
  BY <1>1, <1>2, <1>4

(* A step keeps an export starting with a limit that does not block.       *)
LEMMA StepStartsOpen ==
    ASSUME PausedFit, TypeOK, TypeOK', ExportStates, StartsOpen, Next
    PROVE  StartsOpen'
<1>1. /\ Bools /\ Names /\ Sets /\ setup \in SetupType /\ setup' = setup /\ Observe
      /\ seen' \in SUBSET Nets /\ out_limit' \in {"INITIAL", "BLOCKED"}
      /\ MayPause' = MayPause
  BY TypeOKParts, ExportAssumption, SMTT(30) DEF SetupType, Next, Observe, TypeOK, MayPause
<1>2. MayPause => Cardinality(Nets) <= OutLimit
  BY DEF TypeOK, PausedFit, MayPause, OutLimit
<1>3. Cardinality(Nets) \in Nat /\ OutLimit \in Nat
  BY <1>1, FS_CardinalityType, ExportAssumption DEF SetupType, OutLimit
<1>4. CASE UNCHANGED <<channel_state, export_state, out_limit>> \/ out_limit' = "INITIAL"
  BY <1>1, <1>4 DEF StartsOpen
<1>5. ASSUME NEW n \in Nets, FeedPass(n)
      PROVE  StartsOpen'
  <2>1. /\ rt_notify_basic(n, n \in accepted, refeeding) /\ export_state' = "FEEDING"
        /\ n \in accepted => n \in Acceptable'
    BY <1>5 DEF FeedPass, Acceptable, tableVars
  <2>2. out_limit' = "BLOCKED" /\ out_limit # "BLOCKED" => Cardinality(Nets) > OutLimit
    BY <1>1, <2>1, HitMeansFull, Zenon
  <2>3. MayPause => out_limit' = "INITIAL"
    BY <1>1, <1>2, <1>3, <2>2 DEF StartsOpen
  <2> QED
    BY <1>1, <2>1, <2>3 DEF StartsOpen
<1>6. ASSUME NEW n \in Nets, NEW present \in BOOLEAN, rte_announce(n, present)
      PROVE  StartsOpen'
  <2>1. CASE export_state = "DOWN"
    BY <1>4, <1>6, <2>1 DEF rte_announce, offerVars, chanVars, feedVars
  <2>2. CASE export_state # "DOWN"
    <3>1. /\ rt_notify_basic(n, present /\ n \in accepted, FALSE) /\ export_state' = export_state
          /\ present /\ n \in accepted => n \in Acceptable'
      BY <1>6, <2>2, Zenon DEF rte_announce, Acceptable, feedVars
    <3>2. out_limit' = "BLOCKED" /\ out_limit # "BLOCKED" => Cardinality(Nets) > OutLimit
      BY <1>1, <3>1, HitMeansFull, Zenon
    <3>3. MayPause => out_limit' = "INITIAL"
      BY <1>1, <1>2, <1>3, <3>2 DEF StartsOpen
    <3> QED
      BY <1>1, <2>2, <3>1, <3>3 DEF StartsOpen
  <2> QED
    BY <2>1, <2>2
<1>7. CASE FeedEnd
  <2>1. export_state' # "DOWN" /\ (out_limit' = out_limit \/ out_limit' = "INITIAL")
    BY <1>7, Zenon DEF FeedEnd, channel_request_feeding, channel_schedule_feed
  <2> QED
    BY <1>1, <2>1 DEF StartsOpen
<1>8. CASE FeedIdle
  BY <1>4, <1>8 DEF FeedIdle, offerVars, chanVars, feedVars
<1>9. CASE Pause
  BY <1>1, <1>9 DEF Pause, channel_stop_export, StartsOpen
<1>10. CASE channel_close \/ channel_do_down
  BY <1>1, <1>10 DEF channel_close, channel_stop_export, channel_do_down, offerVars, StartsOpen
<1>11. CASE channel_init
  BY <1>4, <1>11 DEF channel_init, channel_do_start
<1>12. ASSUME NEW wait \in BOOLEAN, channel_open(wait)
       PROVE  StartsOpen'
  <2>1. CASE channel_state = "DOWN"
    BY <1>4, <1>12, <2>1 DEF channel_open, channel_do_start
  <2>2. CASE channel_state # "DOWN"
    <3>1. export_state = "DOWN" /\ channel_state = "START" /\ out_limit' = out_limit
      BY <1>12, <2>2 DEF channel_open, offerVars, ExportStates
    <3> QED
      BY <1>1, <3>1 DEF StartsOpen
  <2> QED
    BY <2>1, <2>2
<1>13. CASE graceful_restart_done
  <2>1. /\ out_limit' = out_limit /\ channel_state' = channel_state
        /\ export_state' = "DOWN" => export_state = "DOWN"
    BY <1>13 DEF graceful_restart_done, offerVars, feedVars, channel_start_export,
                 channel_schedule_feed
  <2> QED
    BY <1>1, <2>1 DEF StartsOpen
<1>14. CASE rt_settle_timer \/ FeedRequest
  <2>1. /\ out_limit' = out_limit /\ channel_state' = channel_state
        /\ export_state' = "DOWN" => export_state = "DOWN"
    BY <1>14 DEF rt_settle_timer, FeedRequest, channel_roa_out_changed,
          channel_request_feeding, channel_schedule_feed, chanVars, feedVars
  <2> QED
    BY <1>1, <2>1 DEF StartsOpen
<1>15. ASSUME NEW result, NEW others, RoaChange(result, others)
       PROVE  StartsOpen'
  BY <1>4, <1>15 DEF RoaChange, offerVars, chanVars, feedVars
<1>16. ASSUME NEW result, NEW changed, NEW soft, channel_reconfigure(result, changed, soft)
       PROVE  StartsOpen'
  BY <1>4, <1>16 DEF channel_reconfigure
<1> QED
  BY <1>5, <1>6, <1>7, <1>8, <1>9, <1>10, <1>11, <1>12, <1>13, <1>14, <1>15, <1>16, SMTT(30)
  DEF Next, Step, channel_feed_loop

(* A step keeps a limit that blocks one that was exceeded since the feed   *)
(* started.                                                                *)
LEMMA StepBlockedFull ==
    ASSUME TypeOK, TypeOK', ExportStates, WithinLimit, CountZero, CountSeen, BlockedFull,
           StartsOpen, Next
    PROVE  BlockedFull'
<1>1. /\ Bools /\ Names /\ Sets /\ Nums /\ setup \in SetupType /\ Observe
      /\ seen \in SUBSET Nets /\ seen' \in SUBSET Nets
      /\ OutLimit' = OutLimit /\ OutLimit \in Nat
  BY TypeOKParts, ExportAssumption DEF SetupType, Next, Observe, TypeOK, OutLimit
<1>2. SUFFICES ASSUME out_limit' = "BLOCKED",
                      export_state' = "READY" \/ (export_state' = "FEEDING" /\ ~refeeding')
               PROVE  Cardinality(seen') > OutLimit'
  BY DEF BlockedFull
<1>3. ASSUME seen \subseteq seen', Cardinality(seen) > OutLimit
      PROVE  Cardinality(seen') > OutLimit'
  <2>1. /\ Cardinality(seen) <= Cardinality(seen') /\ Cardinality(seen) \in Nat
        /\ Cardinality(seen') \in Nat
    BY <1>1, <1>3, Smaller
  <2> QED
    BY <1>1, <1>3, <2>1
<1>4. ASSUME UNCHANGED <<export_state, refeeding, feed_active>>, out_limit = "BLOCKED"
      PROVE  Cardinality(seen') > OutLimit'
  <2>1. export_state # "DOWN" /\ Cardinality(seen) > OutLimit
    BY <1>2, <1>4 DEF BlockedFull
  <2>2. feed_active \/ ~refeeding \/ (~feed_active' /\ export_state' = export_state)
    BY <1>4
  <2> QED
    BY <1>1, <1>3, <2>1, <2>2, SeenKept
<1>5. ASSUME NEW n \in Nets, FeedPass(n)
      PROVE  Cardinality(seen') > OutLimit'
  <2>1. /\ rt_notify_basic(n, n \in accepted, refeeding)
        /\ export_state = "FEEDING" /\ ~refeeding
        /\ n \in accepted => n \in Acceptable'
    BY <1>2, <1>5 DEF FeedPass, Acceptable, tableVars
  <2>2. CASE out_limit # "BLOCKED"
    BY <1>1, <1>2, <2>1, <2>2, HitMeansFull, Zenon
  <2>3. CASE out_limit = "BLOCKED"
    BY <1>1, <1>3, <2>1, <2>3, SeenKept DEF BlockedFull
  <2> QED
    BY <2>2, <2>3
<1>6. ASSUME NEW n \in Nets, NEW present \in BOOLEAN, rte_announce(n, present)
      PROVE  Cardinality(seen') > OutLimit'
  <2>1. /\ UNCHANGED <<export_state, refeeding, feed_active>>
        /\ rt_notify_basic(n, present /\ n \in accepted, FALSE)
        /\ present /\ n \in accepted => n \in Acceptable'
    BY <1>2, <1>6, Zenon DEF rte_announce, Acceptable, feedVars
  <2>2. CASE out_limit # "BLOCKED"
    BY <1>1, <1>2, <2>1, <2>2, HitMeansFull, Zenon
  <2>3. CASE out_limit = "BLOCKED"
    BY <1>4, <2>1, <2>3
  <2> QED
    BY <2>2, <2>3
<1>7. CASE FeedEnd
  <2>1. /\ export_state = "FEEDING" /\ export_state' = "READY" /\ out_limit = "BLOCKED"
        /\ ~LimitCanBeReset
    BY <1>2, <1>7, Zenon DEF FeedEnd, channel_request_feeding, channel_schedule_feed
  <2>2. CASE ~refeeding
    BY <1>1, <1>3, <2>1, <2>2, SeenKept DEF BlockedFull
  <2>3. CASE refeeding
    <3>1. ~(refeed_count <= OutLimit) /\ refeed_count \in Nat
      BY <1>1, <2>1, <2>3 DEF LimitCanBeReset, WithinLimit, Nums
    <3>2. feed_active
      BY <1>1, <2>1, <2>3, <3>1 DEF CountZero
    <3>3. refeed_count <= Cardinality(seen \ todo)
      BY <2>1, <2>3, <3>2 DEF CountSeen
    <3>4. seen \ todo \in SUBSET seen
      OBVIOUS
    <3>5. /\ Cardinality(seen \ todo) <= Cardinality(seen) /\ Cardinality(seen) \in Nat
          /\ Cardinality(seen \ todo) \in Nat
      BY <1>1, <3>4, Smaller
    <3>6. Cardinality(seen) > OutLimit
      BY <1>1, <3>1, <3>3, <3>5
    <3> QED
      BY <1>1, <1>3, <2>1, <3>2, <3>6, SeenKept
  <2> QED
    BY <2>2, <2>3
<1>8. CASE FeedIdle \/ channel_do_down
  BY <1>2, <1>4, <1>8 DEF FeedIdle, channel_do_down, offerVars, feedVars
<1>9. CASE Pause \/ channel_close
  BY <1>2, <1>9 DEF Pause, channel_close, channel_stop_export
<1>10. CASE channel_init
  BY <1>2, <1>10 DEF channel_init, channel_do_start
<1>11. ASSUME NEW wait \in BOOLEAN, channel_open(wait)
       PROVE  FALSE
  <2>1. channel_state = "START"
    BY <1>2, <1>11 DEF channel_open, channel_do_start
  <2>2. out_limit = "BLOCKED" /\ export_state = "DOWN"
    BY <1>2, <1>11, <2>1 DEF channel_open, offerVars, ExportStates
  <2> QED
    BY <2>1, <2>2 DEF StartsOpen
<1>12. CASE graceful_restart_done
  <2>1. gr_wait /\ out_limit = "BLOCKED"
    BY <1>2, <1>12 DEF graceful_restart_done, offerVars
  <2>2. export_state = "DOWN"
    BY <2>1 DEF ExportStates
  <2>3. channel_state = "UP"
    BY <1>2, <1>12, <2>2 DEF graceful_restart_done, feedVars
  <2> QED
    BY <2>1, <2>2, <2>3 DEF StartsOpen
<1>13. CASE rt_settle_timer
  <2>1. CASE export_state = "FEEDING" \/ ~subscribed
    BY <1>2, <1>4, <1>13, <2>1, SMTT(30) DEF rt_settle_timer, channel_roa_out_changed, feedVars
  <2>2. CASE export_state # "FEEDING" /\ subscribed
    BY <1>1, <1>2, <1>13, <2>2, Zenon DEF rt_settle_timer, channel_roa_out_changed,
          channel_request_feeding, channel_schedule_feed, Names
  <2> QED
    BY <2>1, <2>2
<1>14. CASE FeedRequest
  <2>1. /\ UNCHANGED <<export_state, refeeding, feed_active>>
        /\ out_limit' = out_limit
    BY <1>2, <1>14, Zenon DEF FeedRequest, channel_request_feeding, channel_schedule_feed
  <2> QED
    BY <1>2, <1>4, <2>1
<1>15. ASSUME NEW result, NEW others, RoaChange(result, others)
       PROVE  Cardinality(seen') > OutLimit'
  BY <1>2, <1>4, <1>15 DEF RoaChange, offerVars, feedVars
<1>16. ASSUME NEW result, NEW changed, NEW soft, channel_reconfigure(result, changed, soft)
       PROVE  FALSE
  BY <1>2, <1>16 DEF channel_reconfigure
<1> QED
  BY <1>5, <1>6, <1>7, <1>8, <1>9, <1>10, <1>11, <1>12, <1>13, <1>14, <1>15, <1>16, SMTT(30)
  DEF Next, Step, channel_feed_loop

(* The limit is exact, for channels that are not paused or whose limit is  *)
(* never reached: it is never exceeded, and a finished feed leaves a route *)
(* out only when more networks than the limit had acceptable or exported   *)
(* routes since that feed started.                                         *)
THEOREM LimitIsExact ==
    ASSUME PausedFit
    PROVE  Spec => []LimitExact
<1> DEFINE Inv == CountZero /\ CountSeen /\ BlockedFull /\ StartsOpen
<1>1. Init => Inv
  BY DEF Init, CountZero, CountSeen, BlockedFull, StartsOpen
<1>2. ASSUME TypeOK, TypeOK', ExportStates, WithinLimit, Inv, [Next]_vars
      PROVE  Inv'
  <2>1. CASE Next
    BY <1>2, <2>1, StepCountZero, StepCountSeen, StepBlockedFull, StepStartsOpen, SMTT(30)
  <2>2. CASE UNCHANGED vars
    BY <1>2, <2>2 DEF CountZero, CountSeen, BlockedFull, StartsOpen, OutLimit, MayPause, vars,
                      chanVars, feedVars, offerVars
  <2> QED
    BY <1>2, <2>1, <2>2
<1>3. ExportComplete /\ WithinLimit /\ Inv => LimitExact
  BY DEF ExportComplete, LimitExact, FeedFits, BlockedFull, Quiet
<1> HIDE DEF Inv
<1> QED
  BY <1>1, <1>2, <1>3, TypeCorrect, StatesFollow, LimitKept, NothingLost, PTL DEF Spec

====
