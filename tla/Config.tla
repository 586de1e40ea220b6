------------------------------- MODULE Config -------------------------------
(***************************************************************************)
(* The configuration manager (conf/conf.c): the active configuration, the  *)
(* one being left, which undo returns to, and one queued; obstacles that   *)
(* delay the end of a reconfiguration, those of table dumps (MRT), which   *)
(* begin at any time, among them; confirmation, undo and its timer;        *)
(* shutdown as a switch to an empty configuration.                         *)
(*                                                                         *)
(* A configuration is an element of Configs while it is allocated and may  *)
(* be allocated again once it is freed.  That of order_shutdown() is made  *)
(* in the memory of the configuration active at that time (host).          *)
(***************************************************************************)
EXTENDS Naturals

CONSTANTS
    Configs,            \* the configurations in memory
    NoConfig,           \* NULL
    ShutdownConfig,     \* the empty configuration of order_shutdown()
    MaxObstacles,       \* bound: obstacles the hooks of one commit add
    MaxDumps,           \* bound: table dumps of the active configuration
    MayRace,            \* may a command come while config_event waits?
    MayFail             \* may the file of a configure command be wrong?

ASSUME ConfigAssumption ==
    /\ NoConfig \notin Configs
    /\ ShutdownConfig \notin Configs
    /\ NoConfig # ShutdownConfig
    /\ MaxObstacles \in Nat /\ MaxDumps \in Nat
    /\ MayRace \in BOOLEAN
    /\ MayFail \in BOOLEAN

VARIABLES
    config,             \* the active configuration
    old_config,         \* the previous one, kept for undo
    future_config,      \* the queued one
    future_cftype,      \* what is queued: "NONE", "COMMIT" or "UNDO"
    configuring,        \* a reconfiguration is running
    undo_available,
    shutting_down,
    config_timer,       \* the undo timer is active
    config_event,       \* config_done() is scheduled
    obstacle_count,
    allocated,          \* the configurations not freed
    host,               \* where the configuration of a shutdown lives
    stopped,            \* sysdep_shutdown_done() was called
    target,             \* observed: what the last request asks for
    previous            \* observed: what an undo of it returns to

obsVars == <<target, previous>>
reqVars == <<undo_available, shutting_down, config_timer>>
memVars == <<allocated, host>>
runVars == <<config, old_config, future_config, future_cftype, configuring,
             config_event, obstacle_count>>
vars == <<runVars, reqVars, memVars, obsVars, stopped>>

Alive(c) ==
    \/ c \in allocated
    \/ c = ShutdownConfig /\ host \in allocated

(* After the first config_commit(), at boot.                               *)
Init ==
    /\ config \in Configs
    /\ old_config = NoConfig /\ future_config = NoConfig
    /\ future_cftype = "NONE"
    /\ configuring = FALSE /\ undo_available = TRUE /\ shutting_down = FALSE
    /\ config_timer = FALSE /\ config_event = FALSE
    /\ obstacle_count = [c \in Configs |-> 0]
    /\ allocated = {config} /\ host = NoConfig
    /\ stopped = FALSE
    /\ target = config /\ previous = config

----------------------------------------------------------------------------

(* The obstacles of the configuration being left: the dumps it has, and    *)
(* those that the commit hooks add.                                        *)
Obstacles(n) == obstacle_count[config] + n

(* config_do_commit(), given the old configuration and the memory that     *)
(* preceding calls left: the caller frees or swaps old_config, the commit  *)
(* hooks add n obstacles to the configuration left.  The one obstacle that *)
(* config_do_commit() itself holds meanwhile keeps config_event away.      *)
(* Faulty variants of definitions are named for what they get wrong.       *)
UndoFreeingOld(c, undo, old, mem, n) ==
    /\ config' = IF undo THEN old ELSE c
    /\ old_config' = config
    /\ allocated' = mem \ {old}
    /\ obstacle_count' = [d \in Configs |-> IF d = config THEN Obstacles(n)
                                            ELSE obstacle_count[d]]
    /\ configuring' = (Obstacles(n) > 0)

config_do_commit(c, undo, old, mem, n) ==
    /\ config' = IF undo THEN old ELSE c
    /\ old_config' = config
    /\ allocated' = IF undo THEN mem ELSE mem \ {old}
    /\ obstacle_count' = [d \in Configs |-> IF d = config THEN Obstacles(n)
                                            ELSE obstacle_count[d]]
    /\ configuring' = (Obstacles(n) > 0)

(* config_free_old(): whether there is a configuration it frees.           *)
FreesOldAlways == old_config # NoConfig

FreesOld == old_config # NoConfig /\ obstacle_count[old_config] = 0

AfterFree == IF FreesOld THEN allocated \ {old_config} ELSE allocated

(* config_commit() of c, a configuration just parsed.                      *)
CommitQueue(c) ==
    /\ configuring
    /\ future_config' = c /\ future_cftype' = "COMMIT"
    /\ allocated' = (AfterFree \union {c}) \ {future_config}
    /\ old_config' = IF FreesOld THEN NoConfig ELSE old_config
    /\ UNCHANGED <<config, configuring, obstacle_count>>

CommitNow(c, n) ==
    /\ ~configuring
    /\ config_do_commit(c, FALSE, IF FreesOld THEN NoConfig ELSE old_config,
                        AfterFree \union {c}, n)
    /\ UNCHANGED <<future_config, future_cftype>>

config_commit(c, timeout, n) ==
    /\ undo_available' = TRUE
    /\ config_timer' = timeout
    /\ CommitQueue(c) \/ CommitNow(c, n)
    /\ target' = c /\ previous' = config
    /\ UNCHANGED <<shutting_down, config_event>>

----------------------------------------------------------------------------
(* Commands come from the CLI and from SIGHUP, between two events.         *)
Command == ~stopped /\ (config_event => MayRace)

(* `configure', or SIGHUP without a timeout, with a correct file.          *)
cmd_reconfig(c, timeout, n) ==
    /\ Command /\ ~shutting_down
    /\ c \in Configs \ allocated
    /\ config_commit(c, timeout, n)
    /\ UNCHANGED <<host, stopped>>

(* `configure' with a wrong file, or during a shutdown: the new config is  *)
(* freed at once, but config_free_old() comes first.                       *)
ReconfigFails ==
    /\ Command
    /\ MayFail \/ shutting_down
    /\ FreesOld
    /\ old_config' = NoConfig
    /\ allocated' = AfterFree
    /\ undo_available' = FALSE /\ config_timer' = FALSE
    /\ UNCHANGED <<config, future_config, future_cftype, configuring, config_event,
                   obstacle_count, shutting_down, host, obsVars, stopped>>

config_confirm ==
    /\ Command
    /\ config_timer
    /\ config_timer' = FALSE
    /\ UNCHANGED <<runVars, undo_available, shutting_down, memVars, obsVars, stopped>>

UndoUnqueue ==
    /\ configuring /\ future_cftype # "NONE"
    /\ allocated' = allocated \ {future_config}
    /\ future_config' = NoConfig /\ future_cftype' = "NONE"
    /\ UNCHANGED <<config, old_config, configuring, obstacle_count>>

UndoQueue ==
    /\ configuring /\ future_cftype = "NONE"
    /\ future_cftype' = "UNDO"
    /\ UNCHANGED <<config, old_config, future_config, configuring, obstacle_count,
                   allocated>>

UndoNow(n) ==
    /\ ~configuring
    /\ config_do_commit(NoConfig, TRUE, old_config, allocated, n)
    /\ UNCHANGED <<future_config, future_cftype>>

UndoKeepingAvailable(n) ==
    /\ ~shutting_down /\ undo_available /\ old_config # NoConfig
    /\ config_timer' = FALSE
    /\ UndoUnqueue \/ UndoQueue \/ UndoNow(n)
    /\ target' = previous
    /\ UNCHANGED <<undo_available, shutting_down, config_event, host, stopped, previous>>

config_undo(n) ==
    /\ ~shutting_down /\ undo_available /\ old_config # NoConfig
    /\ undo_available' = FALSE /\ config_timer' = FALSE
    /\ UndoUnqueue \/ UndoQueue \/ UndoNow(n)
    /\ target' = previous
    /\ UNCHANGED <<shutting_down, config_event, host, stopped, previous>>

cmd_reconfig_undo(n) == Command /\ config_undo(n)

(* The undo timer fires; the timer is one shot also if there is no undo.   *)
config_timeout(n) ==
    /\ ~stopped /\ config_timer
    /\ \/ config_undo(n)
       \/ /\ shutting_down \/ ~undo_available \/ old_config = NoConfig
          /\ config_timer' = FALSE
          /\ UNCHANGED <<runVars, undo_available, shutting_down, memVars, obsVars, stopped>>

(* order_shutdown(): config_free_old() is not called, so config_do_commit  *)
(* frees the old configuration.                                            *)
order_shutdown(n) ==
    /\ ~stopped /\ ~shutting_down
    /\ shutting_down' = TRUE
    /\ undo_available' = TRUE /\ config_timer' = FALSE
    /\ host' = config
    /\ target' = ShutdownConfig /\ previous' = config
    /\ \/ /\ configuring
          /\ allocated' = allocated \ {future_config}
          /\ future_config' = ShutdownConfig /\ future_cftype' = "COMMIT"
          /\ UNCHANGED <<config, old_config, configuring, obstacle_count>>
       \/ /\ ~configuring
          /\ config_do_commit(ShutdownConfig, FALSE, old_config, allocated, n)
          /\ UNCHANGED <<future_config, future_cftype>>
    /\ stopped' = (~configuring /\ Obstacles(n) = 0)
    /\ UNCHANGED config_event

----------------------------------------------------------------------------
(* A dump of routing tables begins, from the timer of an MRT protocol or   *)
(* from the CLI: it holds the active configuration, which its filter comes *)
(* from.  Nobody waits for obstacles of the empty configuration.           *)
mrt_table_dump_init ==
    /\ ~stopped /\ config \in Configs
    /\ obstacle_count[config] < MaxDumps
    /\ obstacle_count' = [obstacle_count EXCEPT ![config] = @ + 1]
    /\ UNCHANGED <<config, old_config, future_config, future_cftype, configuring,
                   config_event, reqVars, memVars, obsVars, stopped>>

(* A protocol, a table, an MPLS domain or a dump has finished with c.      *)
DelObstacleOfAny(c) ==
    /\ ~stopped /\ obstacle_count[c] > 0
    /\ obstacle_count' = [obstacle_count EXCEPT ![c] = @ - 1]
    /\ config_event' = (config_event \/ obstacle_count'[c] = 0)
    /\ UNCHANGED <<config, old_config, future_config, future_cftype, configuring,
                   reqVars, memVars, obsVars, stopped>>

config_del_obstacle(c) ==
    /\ ~stopped /\ obstacle_count[c] > 0
    /\ obstacle_count' = [obstacle_count EXCEPT ![c] = @ - 1]
    /\ config_event' = (config_event \/ (obstacle_count'[c] = 0 /\ c # config))
    /\ UNCHANGED <<config, old_config, future_config, future_cftype, configuring,
                   reqVars, memVars, obsVars, stopped>>

(* config_done() from config_event; a switch to the queued configuration   *)
(* that meets no obstacle calls it again, and then nothing is queued.      *)
DoneDroppingQueue(n) ==
    /\ config_event /\ ~stopped
    /\ config_event' = FALSE
    /\ stopped' = (config = ShutdownConfig)
    /\ configuring' = FALSE /\ future_cftype' = "NONE" /\ future_config' = NoConfig
    /\ UNCHANGED <<config, old_config, obstacle_count, reqVars, memVars, obsVars>>

config_done(n) ==
    /\ config_event /\ ~stopped
    /\ config_event' = FALSE
    /\ \/ /\ future_cftype = "NONE"
          /\ configuring' = FALSE
          /\ stopped' = (config = ShutdownConfig)
          /\ UNCHANGED <<config, old_config, future_config, future_cftype,
                         obstacle_count, allocated>>
       \/ /\ future_cftype # "NONE"
          /\ config_do_commit(future_config, future_cftype = "UNDO", old_config, allocated, n)
          /\ future_cftype' = "NONE" /\ future_config' = NoConfig
          /\ stopped' = (future_config = ShutdownConfig /\ Obstacles(n) = 0)
    /\ UNCHANGED <<reqVars, host, obsVars>>

Next ==
    \/ \E n \in 0..MaxObstacles :
          \/ \E c \in Configs, timeout \in BOOLEAN : cmd_reconfig(c, timeout, n)
          \/ cmd_reconfig_undo(n) \/ config_timeout(n)
          \/ order_shutdown(n) \/ config_done(n)
    \/ ReconfigFails \/ config_confirm \/ mrt_table_dump_init
    \/ \E c \in Configs : config_del_obstacle(c)

Spec == Init /\ [][Next]_vars

(* Events are run by the main loop, and whatever delays a reconfiguration  *)
(* (the shutdown of a protocol, the removal of a table, a dump) comes to   *)
(* its end.                                                                *)
FairSpec ==
    /\ Spec
    /\ WF_vars(\E n \in 0..MaxObstacles : config_done(n))
    /\ \A c \in Configs : WF_vars(config_del_obstacle(c))

----------------------------------------------------------------------------
TypeOK ==
    /\ config \in Configs \union {ShutdownConfig}
    /\ old_config \in Configs \union {NoConfig}
    /\ future_config \in Configs \union {NoConfig, ShutdownConfig}
    /\ future_cftype \in {"NONE", "COMMIT", "UNDO"}
    /\ configuring \in BOOLEAN /\ undo_available \in BOOLEAN /\ shutting_down \in BOOLEAN
    /\ config_timer \in BOOLEAN /\ config_event \in BOOLEAN /\ stopped \in BOOLEAN
    /\ obstacle_count \in [Configs -> Nat]
    /\ allocated \subseteq Configs
    /\ host \in Configs \union {NoConfig}

(* No pointer leads to freed memory: the configurations in use are not     *)
(* freed, nor the one that holds the empty one of a shutdown, nor one that *)
(* an obstacle, such as a running dump, still refers to.                   *)
ConfigsAlive ==
    /\ Alive(config)
    /\ old_config # NoConfig => Alive(old_config)
    /\ future_config # NoConfig => Alive(future_config)
    /\ \A c \in Configs : obstacle_count[c] > 0 => Alive(c)

(* An undo that is queued still has a configuration to return to when its  *)
(* turn comes; config_done() would switch to NULL otherwise.               *)
UndoHasTarget == future_cftype = "UNDO" => old_config # NoConfig

(* The ASSERT of config_free(), for all configurations freed: only the     *)
(* active one, which dumps hold, and the one being left have obstacles.    *)
ObstaclesPlaced ==
    \A c \in Configs : obstacle_count[c] > 0 =>
        c = config \/ (c = old_config /\ configuring)

(* A running reconfiguration always waits for something that will come: an *)
(* obstacle of the configuration being left, or config_event.  The latter  *)
(* means that there is no such obstacle any more.                          *)
NeverStuck ==
    /\ configuring /\ ~stopped =>
           \/ config_event
           \/ \E c \in Configs : c = old_config /\ obstacle_count[c] > 0
    /\ config_event => /\ configuring
                       /\ \A c \in Configs : c = old_config => obstacle_count[c] = 0

(* Between reconfigurations the daemon runs what the last request asked    *)
(* for: the configuration committed last or, after an undo, the one that   *)
(* was running, or being switched to, when the undone request came.        *)
TargetReached == ~configuring => config = target

(* When the undo timer of `configure timeout' fires, there is an undo.     *)
TimerMeansUndo == config_timer => undo_available /\ old_config # NoConfig

(* A reconfiguration waits for the obstacles of the configuration it       *)
(* leaves, and for nothing else, whatever dumps of the active one begin    *)
(* and end meanwhile: see ObstaclesPlaced and NeverStuck.                  *)
WaitsForOld == ObstaclesPlaced /\ NeverStuck

(* Where an undo is queued or its timer runs there is something to return  *)
(* to: see UndoHasTarget and TimerMeansUndo.                               *)
UndoSound == UndoHasTarget /\ TimerMeansUndo

(* Every request is obeyed at last, unless another one replaces it: the    *)
(* daemon comes to run the target again and again, or the target changes   *)
(* for ever.                                                               *)
RequestsObeyed == []<>(config = target) \/ []<><<target' # target>>_vars
=============================================================================
