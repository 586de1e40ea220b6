--------------------------- MODULE ChannelImport ---------------------------
(***************************************************************************)
(* The import side of one channel with an import table (in_table): routes  *)
(* received from a BGP neighbor, reloads of the import table through the   *)
(* import filter (nest/proto.c, nest/rt-table.c), and the two refresh      *)
(* cycles of the neighbor, the enhanced route refresh and the graceful     *)
(* restart (proto/bgp/bgp.c).                                              *)
(*                                                                         *)
(* A network has at most one route from this channel.  `accepted' is what  *)
(* the import filter accepts now.  One pass of a reload runs one route     *)
(* through the filter, where the code runs 64.  The channel has no import  *)
(* and receive limit and does not keep filtered routes.                    *)
(***************************************************************************)
EXTENDS Naturals

CONSTANTS
    Nets,           \* networks
    NoNet,          \* NULL in reload_next_rte
    Setups,         \* channels considered: whether ROA changes, reconfigurations
                    \* and reloads happen, whether the neighbor uses enhanced
                    \* route refresh, whether it restarts gracefully
    MaxChanges      \* bound on steps of the neighbor and the operator

ASSUME ImportAssumption ==
    /\ NoNet \notin Nets
    /\ Setups \subseteq [reload : BOOLEAN, refresh : BOOLEAN, restart : BOOLEAN]
    /\ MaxChanges \in Nat

VARIABLES
    setup,          \* the channel of this behaviour
    channel_state,  \* CS_*
    cycle,          \* refresh cycle the neighbor is in: load_state, gr_active
    in_table,       \* networks with a route in the import table
    in_stale,       \* those of them with REF_STALE
    table,          \* networks with a route of this channel in the table
    stale,          \* those of them with REF_STALE
    discard,        \* those of them with REF_DISCARD
    accepted,       \* networks whose route the import filter accepts now
    settling,       \* the ROA table's settle timer runs
    reload_event,   \* reload_event is scheduled
    reload_active,  \* reload_fit is linked
    reload_next_rte, \* network of the route to reload next
    todo,           \* networks reload_fit has not passed
    reload_pending,
    changes,        \* number of bounded steps so far
    unloaded        \* history: a soft reconfiguration asked for no reload

recvVars   == <<in_table, in_stale>>
tabVars    == <<table, stale, discard>>
reloadVars == <<reload_event, reload_active, reload_next_rte, todo, reload_pending>>
vars == <<setup, channel_state, cycle, recvVars, tabVars, reloadVars, accepted, settling,
          changes, unloaded>>

MayReload  == setup.reload
MayRefresh == setup.refresh
MayRestart == setup.restart

TypeOK ==
    /\ setup \in Setups
    /\ channel_state \in {"DOWN", "START", "UP", "FLUSHING"}
    /\ cycle \in {"NONE", "REFRESHING", "RESTART", "LOADING"}
    /\ in_stale \subseteq in_table /\ in_table \subseteq Nets
    /\ stale \union discard \subseteq table /\ table \subseteq Nets
    /\ accepted \subseteq Nets /\ todo \subseteq Nets
    /\ reload_next_rte \in Nets \union {NoNet}
    /\ {settling, reload_event, reload_active, reload_pending, unloaded} \subseteq BOOLEAN
    /\ changes \in 0..MaxChanges

Init ==
    /\ setup \in Setups
    /\ channel_state = "DOWN" /\ cycle = "NONE"
    /\ in_table = {} /\ in_stale = {}
    /\ table = {} /\ stale = {} /\ discard = {}
    /\ accepted \in SUBSET Nets /\ settling = FALSE
    /\ reload_event = FALSE /\ reload_active = FALSE /\ reload_next_rte = NoNet
    /\ todo = {} /\ reload_pending = FALSE
    /\ changes = 0 /\ unloaded = FALSE

Change == changes < MaxChanges /\ changes' = changes + 1

----------------------------------------------------------------------------
(* Routes received from the neighbor.  Faulty variants of definitions are  *)
(* named for what they get wrong.                                          *)

(* rte_update2() with rte_recalculate(): the route of n, or its withdrawal *)
(* if `new' is false, goes through the import filter to the table; the new *)
(* or refreshed route has no flags.                                        *)
rte_update2(n, new) ==
    /\ table' = IF new /\ n \in accepted THEN table \union {n} ELSE table \ {n}
    /\ stale' = stale \ {n}
    /\ discard' = discard \ {n}


(* rte_update3(): rte_update_in() of a route, then rte_update2().  A route *)
(* equal to the one in the import table is dropped unless that is stale.   *)
Receive(n, same) ==
    /\ Change
    /\ channel_state = "UP"
    /\ same => n \in in_stale
    /\ in_table' = in_table \union {n}
    /\ in_stale' = in_stale \ {n}
    /\ reload_next_rte' = IF reload_next_rte = n /\ ~same THEN NoNet ELSE reload_next_rte
    /\ rte_update2(n, TRUE)
    /\ UNCHANGED <<channel_state, cycle, accepted, settling, reload_event,
                   reload_active, todo, reload_pending, unloaded>>

WithdrawLeavingIterator(n) ==
    /\ Change
    /\ channel_state = "UP"
    /\ n \in in_table
    /\ in_table' = in_table \ {n}
    /\ in_stale' = in_stale \ {n}
    /\ rte_update2(n, FALSE)
    /\ UNCHANGED <<channel_state, cycle, accepted, settling, reloadVars, unloaded>>

(* rte_update3() of a withdrawal; one of a route that is not in the import *)
(* table is dropped.                                                       *)
Withdraw(n) ==
    /\ Change
    /\ channel_state = "UP"
    /\ n \in in_table
    /\ in_table' = in_table \ {n}
    /\ in_stale' = in_stale \ {n}
    /\ reload_next_rte' = IF reload_next_rte = n THEN NoNet ELSE reload_next_rte
    /\ rte_update2(n, FALSE)
    /\ UNCHANGED <<channel_state, cycle, accepted, settling, reload_event,
                   reload_active, todo, reload_pending, unloaded>>

----------------------------------------------------------------------------
(* Reloads.                                                                *)

(* channel_request_reload() and bgp_reload_routes() for a channel with an  *)
(* import table: channel_schedule_reload()                                 *)
channel_request_reload ==
    /\ reload_event' = TRUE
    /\ reload_active' = FALSE           \* rt_reload_channel_abort()
    /\ reload_next_rte' = NoNet
    /\ todo' = {}
    /\ UNCHANGED reload_pending

(* Networks the iterator has still to pass                                 *)
Remaining == IF reload_active THEN todo ELSE Nets

(* The routes with which a pass may start                                  *)
Candidates == IF reload_next_rte # NoNet THEN {reload_next_rte}
              ELSE Remaining \intersect in_table

(* channel_reload_loop(), a pass that reloads the route of n and stops at  *)
(* another route                                                           *)
ReloadPass(n) ==
    /\ reload_event
    /\ n \in Candidates
    /\ \E next \in (Remaining \ {n}) \intersect in_table :
       \E skipped \in SUBSET (Remaining \ in_table) :
           /\ reload_next_rte' = next
           /\ todo' = Remaining \ ({n, next} \union skipped)
    /\ rte_update2(n, TRUE)
    /\ reload_active' = TRUE
    /\ reload_pending' = (reload_pending /\ reload_active)
    /\ UNCHANGED <<channel_state, cycle, recvVars, reload_event, accepted, settling,
                   changes, unloaded>>

ReloadEndKeepingPending ==
    /\ reload_event
    /\ \/ /\ Candidates = {}
          /\ UNCHANGED tabVars
       \/ \E n \in Candidates : /\ (Remaining \ {n}) \intersect in_table = {}
                                /\ rte_update2(n, TRUE)
    /\ reload_active' = FALSE
    /\ reload_next_rte' = NoNet
    /\ todo' = {}
    /\ reload_event' = reload_pending
    /\ UNCHANGED <<reload_pending, channel_state, cycle, recvVars, accepted, settling,
                   changes, unloaded>>

(* channel_reload_loop(), the pass that reloads the last route, if any     *)
ReloadEnd ==
    /\ reload_event
    /\ \/ /\ Candidates = {}
          /\ UNCHANGED tabVars
       \/ \E n \in Candidates : /\ (Remaining \ {n}) \intersect in_table = {}
                                /\ rte_update2(n, TRUE)
    /\ reload_active' = FALSE
    /\ reload_next_rte' = NoNet
    /\ todo' = {}
    /\ reload_event' = (reload_pending /\ reload_active)
    /\ reload_pending' = (reload_pending /\ reload_active)
    /\ UNCHANGED <<channel_state, cycle, recvVars, accepted, settling, changes, unloaded>>

channel_reload_loop == ReloadEnd \/ \E n \in Nets : ReloadPass(n)

(* The subscription to the ROA table exists from channel_do_up() until     *)
(* channel_do_flush().                                                     *)
Subscribed == MayReload /\ channel_state \in {"START", "UP"}

(* A ROA table the import filter reads changes.                            *)
RoaChange(result) ==
    /\ MayReload
    /\ Change
    /\ accepted' = result
    /\ settling' = (settling \/ Subscribed)
    /\ UNCHANGED <<channel_state, cycle, recvVars, tabVars, reloadVars, unloaded>>

(* rt_settle_timer() of that table calls channel_roa_in_changed().         *)
channel_roa_in_changed ==
    /\ settling
    /\ settling' = FALSE
    /\ \/ /\ ~Subscribed
          /\ UNCHANGED reloadVars
       \/ /\ Subscribed /\ reload_event
          /\ reload_pending' = TRUE
          /\ UNCHANGED <<reload_event, reload_active, reload_next_rte, todo>>
       \/ /\ Subscribed /\ ~reload_event
          /\ channel_request_reload
    /\ UNCHANGED <<channel_state, cycle, recvVars, tabVars, accepted, changes, unloaded>>

(* channel_reconfigure() with another import filter, and `reload in' of    *)
(* the CLI, which leaves the filter as it is                               *)
Reload(result, soft) ==
    /\ MayReload
    /\ Change
    /\ accepted' = result
    /\ unloaded' = (unloaded \/ soft)
    /\ IF channel_state = "UP" /\ ~soft THEN channel_request_reload
                                        ELSE UNCHANGED reloadVars
    /\ UNCHANGED <<channel_state, cycle, recvVars, tabVars, settling>>

----------------------------------------------------------------------------
(* Channel states and refresh cycles.                                      *)

(* The session is established: channel_open().  After a restart the        *)
(* neighbor sends its routes again, up to the End-of-RIB mark; if it did   *)
(* not keep its forwarding state the stale routes are discarded at once.   *)
Established(forwarding) ==
    /\ channel_state \in {"DOWN", "START"}
    /\ channel_state' = "UP"
    /\ cycle' = IF cycle = "RESTART" /\ forwarding THEN "LOADING" ELSE "NONE"
    /\ discard' = IF cycle = "RESTART" /\ ~forwarding THEN discard \union stale ELSE discard
    /\ UNCHANGED <<recvVars, table, stale, reloadVars, accepted, settling, changes, unloaded>>

(* channel_reset_import()                                                  *)
channel_reset_import ==
    /\ reload_event' = FALSE
    /\ reload_active' = FALSE
    /\ reload_next_rte' = NoNet
    /\ todo' = {}
    /\ in_table' = {}
    /\ in_stale' = {}
    /\ UNCHANGED reload_pending

(* bgp_handle_graceful_restart(): the channel falls back to CS_START.  Its *)
(* routes become stale, and those that were stale already are discarded;   *)
(* if the neighbor cannot keep its state for this channel, all are.        *)
NeighborRestarts(gr_ready) ==
    /\ MayRestart
    /\ channel_state = "UP"
    /\ channel_state' = "START"
    /\ stale' = table
    /\ discard' = IF ~gr_ready THEN table
                  ELSE IF cycle = "LOADING" THEN discard \union stale ELSE discard
    /\ cycle' = IF gr_ready THEN "RESTART" ELSE "NONE"
    /\ channel_reset_import
    /\ UNCHANGED <<table, accepted, settling, changes, unloaded>>

RestartEndsWithoutDiscard ==
    /\ cycle = "LOADING"
    /\ cycle' = "NONE"
    /\ UNCHANGED <<channel_state, tabVars, recvVars, reloadVars, accepted,
                   settling, changes, unloaded>>

(* bgp_graceful_restart_done() at End-of-RIB: rt_refresh_end()             *)
EndOfRib ==
    /\ cycle = "LOADING"
    /\ cycle' = "NONE"
    /\ discard' = discard \union stale
    /\ UNCHANGED <<channel_state, table, stale, recvVars, reloadVars, accepted,
                   settling, changes, unloaded>>

(* bgp_refresh_begin(): rt_refresh_begin() on both tables                  *)
bgp_refresh_begin ==
    /\ MayRefresh
    /\ Change
    /\ channel_state = "UP" /\ cycle # "LOADING"
    /\ cycle' = "REFRESHING"
    /\ stale' = table
    /\ in_stale' = in_table
    /\ UNCHANGED <<channel_state, table, discard, in_table, reloadVars, accepted,
                   settling, unloaded>>

(* bgp_refresh_end(): rt_refresh_end() on the table, rt_prune_sync() on    *)
(* the import table                                                        *)
bgp_refresh_end ==
    /\ channel_state = "UP" /\ cycle = "REFRESHING"
    /\ cycle' = "NONE"
    /\ discard' = discard \union stale
    /\ in_table' = in_table \ in_stale
    /\ in_stale' = {}
    /\ UNCHANGED <<channel_state, table, stale, reloadVars, accepted, settling,
                   changes, unloaded>>

(* rt_prune_table() removes the discarded routes.                          *)
Prune ==
    /\ discard # {}
    /\ table' = table \ discard
    /\ stale' = stale \ discard
    /\ discard' = {}
    /\ UNCHANGED <<channel_state, cycle, recvVars, reloadVars, accepted, settling,
                   changes, unloaded>>

(* The session ends for good: channel_close()                              *)
channel_close ==
    /\ channel_state \in {"START", "UP"}
    /\ channel_state' = "FLUSHING"
    /\ cycle' = "NONE"
    /\ channel_reset_import
    /\ UNCHANGED <<tabVars, accepted, settling, changes, unloaded>>

(* rt_prune_table() has removed all routes of the channel: channel_do_down *)
Flushed ==
    /\ channel_state = "FLUSHING"
    /\ channel_state' = "DOWN"
    /\ table' = {} /\ stale' = {} /\ discard' = {}
    /\ unloaded' = FALSE
    /\ UNCHANGED <<cycle, recvVars, reloadVars, accepted, settling, changes>>

----------------------------------------------------------------------------
Step ==
    \/ \E n \in Nets, same \in BOOLEAN : Receive(n, same)
    \/ \E n \in Nets : Withdraw(n)
    \/ channel_reload_loop
    \/ channel_roa_in_changed
    \/ \E result \in SUBSET Nets : RoaChange(result)
    \/ \E result \in SUBSET Nets, soft \in BOOLEAN : Reload(result, soft)
    \/ EndOfRib
    \/ \E forwarding \in BOOLEAN : Established(forwarding)
    \/ \E gr_ready \in BOOLEAN : NeighborRestarts(gr_ready)
    \/ bgp_refresh_begin \/ bgp_refresh_end
    \/ Prune \/ channel_close \/ Flushed

Next == Step /\ UNCHANGED setup

Spec == Init /\ [][Next]_vars

(* The main loop runs scheduled events and expired timers.                 *)
FairSpec ==
    /\ Spec
    /\ WF_vars(channel_reload_loop /\ UNCHANGED setup)
    /\ WF_vars(channel_roa_in_changed /\ UNCHANGED setup)
    /\ WF_vars(Prune /\ UNCHANGED setup)

----------------------------------------------------------------------------
(* When no reload is scheduled and no ROA change waits to settle, each     *)
(* route of the import table is in the table exactly if the current filter *)
(* accepts it: routes that arrive, and filters that change, in the middle  *)
(* of a reload are not lost.                                               *)
ImportComplete ==
    channel_state = "UP" /\ ~reload_event /\ ~settling /\ ~unloaded =>
        table \intersect in_table = accepted \intersect in_table

(* Once a refresh cycle is over, the table has no route of the channel     *)
(* that the neighbor did not send again, except routes that wait for the   *)
(* prune loop ("Routes not received during the sequence are removed by the *)
(* nest", bgp_refresh_end()).                                              *)
RefreshComplete ==
    channel_state = "UP" /\ cycle = "NONE" => table \ in_table \subseteq discard

(* The saved position of an interrupted reload is a route that is still in *)
(* the import table.                                                       *)
ReloadNextLinked == reload_next_rte # NoNet => reload_next_rte \in in_table

(* Reloads do their work and keep their place: see ImportComplete and      *)
(* ReloadNextLinked.                                                       *)
ReloadExact == ImportComplete /\ ReloadNextLinked

(* A reload ends, also if ROA changes ask for another one meanwhile.       *)
ReloadsFinish == reload_event ~> ~reload_event

============================================================================
