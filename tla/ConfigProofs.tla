---------------------------- MODULE ConfigProofs ----------------------------
(***************************************************************************)
(* Safety of the configuration manager for any number of configurations    *)
(* and obstacles, provided that no command comes between the removal of    *)
(* the last obstacle and config_done() (~MayRace).                         *)
(***************************************************************************)
EXTENDS Config, TLAPS

(* Which configurations the pointers name, and how they relate.            *)
Pointers ==
    /\ config \in Configs => config \in allocated
    /\ config = ShutdownConfig => /\ host = old_config /\ future_cftype = "NONE"
                                  /\ shutting_down /\ (configuring \/ stopped)
                                  /\ old_config \in allocated
    /\ old_config # NoConfig => old_config \in allocated /\ old_config # config
    /\ (future_cftype = "COMMIT") <=> (future_config # NoConfig)
    /\ future_config \in Configs => /\ future_config \in allocated
                                    /\ future_config \notin {config, old_config}
    /\ future_config = ShutdownConfig => host = config /\ shutting_down

(* What a running reconfiguration waits for.                               *)
Progress ==
    /\ configuring => old_config # NoConfig
    /\ future_cftype # "NONE" => configuring
    /\ config_event => configuring /\ \A c \in Configs \ {config} : obstacle_count[c] = 0

(* What the requests amount to.                                            *)
Requests ==
    /\ future_cftype = "NONE"   => target = config
    /\ future_cftype = "COMMIT" => target = future_config
    /\ future_cftype = "UNDO"   => target = old_config
    /\ undo_available /\ old_config # NoConfig /\ ~shutting_down =>
           previous = IF future_cftype = "COMMIT" THEN config ELSE old_config
    /\ future_cftype = "UNDO" => ~undo_available

(* The inductive invariant.                                                *)
IInv ==
    /\ TypeOK /\ ObstaclesPlaced /\ NeverStuck /\ TimerMeansUndo
    /\ Pointers /\ Progress /\ Requests

USE DEF Alive

(* After the first commit, at boot, the invariant holds.                   *)
LEMMA InitIInv == Init => IInv
<1> SUFFICES ASSUME Init PROVE IInv
  OBVIOUS
<1>1. /\ obstacle_count \in [Configs -> Nat]
      /\ \A c \in Configs : obstacle_count[c] = 0
  BY ConfigAssumption DEF Init
<1>2. TypeOK
  BY <1>1, ConfigAssumption, Zenon DEF Init, TypeOK
<1>3. ObstaclesPlaced /\ NeverStuck /\ TimerMeansUndo
  BY <1>1 DEF Init, ObstaclesPlaced, NeverStuck, TimerMeansUndo
<1>4. Pointers /\ Progress /\ Requests
  BY ConfigAssumption DEF Init, Pointers, Progress, Requests
<1> QED
  BY <1>2, <1>3, <1>4 DEF IInv

(* Between reconfigurations, and once config_event is scheduled, only the  *)
(* active configuration may have obstacles.                                *)
LEMMA NoObstacles ==
  ASSUME IInv, ~configuring \/ config_event
  PROVE  \A c \in Configs \ {config} : obstacle_count[c] = 0
<1> SUFFICES ASSUME NEW c \in Configs \ {config} PROVE obstacle_count[c] = 0
  BY Zenon
<1>1. obstacle_count[c] \in Nat
  BY DEF IInv, TypeOK
<1>2. CASE config_event
  BY <1>2 DEF IInv, Progress
<1>3. CASE ~configuring
  BY <1>1, <1>3 DEF IInv, ObstaclesPlaced
<1> QED
  BY <1>2, <1>3

(* What config_do_commit() does, called when only the active configuration *)
(* has obstacles: these and those that its commit hooks add are all there  *)
(* are, and the configuration being left has them.                         *)
LEMMA CommitEffect ==
  ASSUME IInv, ~configuring \/ config_event, config \in Configs,
         NEW c, NEW undo \in BOOLEAN, NEW old, NEW mem, NEW n \in 0..MaxObstacles,
         config_do_commit(c, undo, old, mem, n)
  PROVE  /\ config' = IF undo THEN old ELSE c
         /\ old_config' = config
         /\ allocated' = IF undo THEN mem ELSE mem \ {old}
         /\ configuring' = (Obstacles(n) > 0) /\ configuring' \in BOOLEAN
         /\ obstacle_count' \in [Configs -> Nat] /\ Obstacles(n) \in Nat
         /\ \A d \in Configs : obstacle_count'[d] = IF d = config THEN Obstacles(n) ELSE 0
         /\ ObstaclesPlaced'
<1>1. \A d \in Configs \ {config} : obstacle_count[d] = 0
  BY NoObstacles
<1>m. Obstacles(n) \in Nat
  <2>1. obstacle_count[config] \in Nat /\ n \in Nat
    BY ConfigAssumption DEF IInv, TypeOK
  <2> QED
    BY <2>1 DEF Obstacles
<1>2. obstacle_count' = [d \in Configs |-> IF d = config THEN Obstacles(n) ELSE 0]
  BY <1>1 DEF config_do_commit
<1>3. /\ obstacle_count' \in [Configs -> Nat]
      /\ \A d \in Configs : obstacle_count'[d] = IF d = config THEN Obstacles(n) ELSE 0
  BY <1>2, <1>m
<1>4. ASSUME NEW d \in Configs, obstacle_count'[d] > 0
      PROVE  d = old_config' /\ configuring'
  <2>1. d = config
    BY <1>3, <1>4
  <2> QED
    BY <1>3, <1>4, <2>1, Zenon DEF config_do_commit
<1>5. configuring' = (Obstacles(n) > 0) /\ configuring' \in BOOLEAN
  BY DEF config_do_commit
<1> QED
  BY <1>m, <1>3, <1>4, <1>5, Zenon DEF config_do_commit, ObstaclesPlaced

(* A configure command with a correct file keeps the invariant.            *)
LEMMA ReconfigLemma ==
  ASSUME ~MayRace, IInv, NEW c \in Configs, NEW timeout \in BOOLEAN,
         NEW n \in 0..MaxObstacles, cmd_reconfig(c, timeout, n)
  PROVE  IInv'
<1> DEFINE old == IF FreesOld THEN NoConfig ELSE old_config
<1>e. ~config_event /\ ~shutting_down /\ c \notin allocated
  BY DEF cmd_reconfig, Command
<1>q. CASE CommitQueue(c)
  <2>a. ~FreesOld
    BY <1>q, <1>e DEF FreesOld, CommitQueue, IInv, NeverStuck, ObstaclesPlaced, Progress, TypeOK,
       Pointers, cmd_reconfig, Command
  <2>1. TypeOK'
    BY <1>q, <1>e, <2>a, ConfigAssumption
       DEF IInv, TypeOK, Pointers, Progress, cmd_reconfig, config_commit, CommitQueue, AfterFree
  <2>2. ObstaclesPlaced'
    BY <1>q, <1>e, <2>a, ConfigAssumption
       DEF IInv, ObstaclesPlaced, TypeOK, Progress, cmd_reconfig, config_commit, CommitQueue, AfterFree
  <2>3. NeverStuck'
    BY <1>q, <1>e, <2>a, ConfigAssumption
       DEF IInv, NeverStuck, TypeOK, Progress, cmd_reconfig, config_commit, CommitQueue, AfterFree
  <2>4. TimerMeansUndo'
    BY <1>q, <1>e, <2>a, ConfigAssumption
       DEF IInv, TimerMeansUndo, TypeOK, Progress, cmd_reconfig, config_commit, CommitQueue, AfterFree
  <2>5. Pointers'
    BY <1>q, <1>e, <2>a, ConfigAssumption
       DEF IInv, TypeOK, Pointers, Progress, cmd_reconfig, config_commit, CommitQueue, AfterFree
  <2>6. Progress'
    BY <1>q, <1>e, <2>a, ConfigAssumption
       DEF IInv, TypeOK, Pointers, Progress, cmd_reconfig, config_commit, CommitQueue, AfterFree
  <2>7. Requests'
    BY <1>q, <1>e, <2>a, ConfigAssumption
       DEF IInv, TypeOK, Pointers, Progress, Requests, TimerMeansUndo, cmd_reconfig, config_commit, CommitQueue, AfterFree
  <2> QED
    BY <2>1, <2>2, <2>3, <2>4, <2>5, <2>6, <2>7 DEF IInv
<1>w. CASE CommitNow(c, n)
  <2>a. /\ ~configuring
        /\ UNCHANGED <<future_config, future_cftype, config_event, shutting_down, host, stopped>>
        /\ target' = c /\ previous' = config
        /\ undo_available' = TRUE /\ config_timer' = timeout
    BY <1>w DEF CommitNow, cmd_reconfig, config_commit
  <2>d. config \in Configs /\ ~stopped
    BY <1>e DEF IInv, TypeOK, Pointers, cmd_reconfig, Command
  <2>b. config_do_commit(c, FALSE, old, AfterFree \union {c}, n)
    BY <1>w, Zenon DEF CommitNow
  <2>c. /\ config' = c /\ old_config' = config
        /\ allocated' = (AfterFree \union {c}) \ {old}
        /\ configuring' = (Obstacles(n) > 0) /\ configuring' \in BOOLEAN
        /\ obstacle_count' \in [Configs -> Nat] /\ Obstacles(n) \in Nat
        /\ \A d \in Configs : obstacle_count'[d] = IF d = config THEN Obstacles(n) ELSE 0
        /\ ObstaclesPlaced'
    <3> HIDE DEF old
    <3> QED
      BY <2>a, <2>b, <2>d, CommitEffect, Zenon
  <2>1. TypeOK'
    BY <1>e, <2>a, <2>c, <2>d, ConfigAssumption
       DEF IInv, TypeOK, Pointers, Progress, AfterFree
  <2>3. NeverStuck'
    BY <1>e, <2>a, <2>c, <2>d, ConfigAssumption
       DEF NeverStuck, AfterFree
  <2>4. TimerMeansUndo'
    BY <1>e, <2>a, <2>c, <2>d, ConfigAssumption
       DEF IInv, TimerMeansUndo, TypeOK, Progress, AfterFree
  <2>5. Pointers'
    BY <1>e, <2>a, <2>c, <2>d, ConfigAssumption
       DEF IInv, TypeOK, Pointers, Progress, AfterFree
  <2>6. Progress'
    BY <1>e, <2>a, <2>c, <2>d, ConfigAssumption
       DEF IInv, TypeOK, Pointers, Progress, AfterFree
  <2>7. Requests'
    BY <1>e, <2>a, <2>c, <2>d, ConfigAssumption
       DEF IInv, TypeOK, Pointers, Progress, Requests, TimerMeansUndo, AfterFree
  <2> QED
    BY <2>1, <2>c, <2>3, <2>4, <2>5, <2>6, <2>7 DEF IInv
<1> QED
  BY <1>q, <1>w DEF cmd_reconfig, config_commit

(* A configure command with a wrong file keeps the invariant.              *)
LEMMA FailLemma ==
  ASSUME ~MayRace, IInv, ReconfigFails
  PROVE  IInv'
<1>a. ~configuring
  BY DEF ReconfigFails, FreesOld, Command, IInv, NeverStuck, ObstaclesPlaced, Progress, TypeOK,
     Pointers
<1>b. /\ future_cftype = "NONE" /\ ~undo_available'
      /\ UNCHANGED <<target, config, future_cftype>>
  BY <1>a DEF IInv, Progress, ReconfigFails, obsVars
<1>1. TypeOK'
  BY <1>a, <1>b, ConfigAssumption, Zenon
     DEF IInv, TypeOK, Pointers, Progress, ReconfigFails, AfterFree, FreesOld, Command
<1>2. ObstaclesPlaced'
  BY <1>a, <1>b, ConfigAssumption
     DEF IInv, ObstaclesPlaced, TypeOK, Progress, ReconfigFails, AfterFree, FreesOld, Command
<1>3. NeverStuck'
  BY <1>a, <1>b, ConfigAssumption
     DEF IInv, NeverStuck, TypeOK, Progress, ReconfigFails, AfterFree, FreesOld, Command
<1>4. TimerMeansUndo'
  BY <1>a, <1>b, ConfigAssumption
     DEF IInv, TimerMeansUndo, TypeOK, Progress, ReconfigFails, AfterFree, FreesOld, Command
<1>5. Pointers'
  BY <1>a, <1>b, ConfigAssumption
     DEF IInv, TypeOK, Pointers, Progress, ReconfigFails, AfterFree, FreesOld, Command
<1>6. Progress'
  BY <1>a, <1>b, ConfigAssumption
     DEF IInv, TypeOK, Pointers, Progress, ReconfigFails, AfterFree, FreesOld, Command
<1>7. Requests'
  BY <1>a, <1>b, ConfigAssumption
     DEF IInv, TypeOK, Pointers, Progress, Requests, TimerMeansUndo, ReconfigFails, AfterFree, FreesOld, Command
<1> QED
  BY <1>1, <1>2, <1>3, <1>4, <1>5, <1>6, <1>7 DEF IInv

(* A step that does nothing but stop the timer keeps the invariant.        *)
LEMMA TimerOffLemma ==
  ASSUME IInv, config_timer' = FALSE,
         UNCHANGED <<runVars, undo_available, shutting_down, memVars, obsVars, stopped>>
  PROVE  IInv'
<1>1. TypeOK'
  <2>1. UNCHANGED <<config, old_config, future_config, future_cftype, configuring, config_event,
                    obstacle_count, undo_available, shutting_down, allocated, host, stopped>>
    BY DEF runVars, memVars
  <2>2. /\ configuring' \in BOOLEAN /\ undo_available' \in BOOLEAN
        /\ shutting_down' \in BOOLEAN /\ config_timer' \in BOOLEAN
        /\ config_event' \in BOOLEAN /\ stopped' \in BOOLEAN
    BY <2>1, Zenon DEF IInv, TypeOK
  <2>3. /\ config' \in Configs \union {ShutdownConfig}
        /\ old_config' \in Configs \union {NoConfig}
        /\ future_config' \in Configs \union {NoConfig, ShutdownConfig}
        /\ future_cftype' \in {"NONE", "COMMIT", "UNDO"}
        /\ obstacle_count' \in [Configs -> Nat]
        /\ allocated' \subseteq Configs
        /\ host' \in Configs \union {NoConfig}
    BY <2>1 DEF IInv, TypeOK
  <2> QED
    BY <2>2, <2>3 DEF TypeOK
<1>2. ObstaclesPlaced'
  BY DEF IInv, ObstaclesPlaced, runVars, memVars, obsVars
<1>3. NeverStuck'
  BY DEF IInv, NeverStuck, runVars, memVars, obsVars
<1>4. TimerMeansUndo'
  BY DEF IInv, TimerMeansUndo, runVars, memVars, obsVars
<1>5. Pointers'
  BY DEF IInv, Pointers, runVars, memVars, obsVars
<1>6. Progress'
  BY DEF IInv, Progress, runVars, memVars, obsVars
<1>7. Requests'
  BY DEF IInv, Requests, runVars, memVars, obsVars
<1> QED
  BY <1>1, <1>2, <1>3, <1>4, <1>5, <1>6, <1>7 DEF IInv

(* A confirmation keeps the invariant.                                     *)
LEMMA ConfirmLemma ==
  ASSUME ~MayRace, IInv, config_confirm
  PROVE  IInv'
<1>1. UNCHANGED <<runVars, undo_available, shutting_down, memVars, obsVars, stopped>>
      /\ config_timer' = FALSE
  BY DEF config_confirm
<1> QED
  BY <1>1, TimerOffLemma, Zenon

(* An undo keeps the invariant.                                            *)
LEMMA UndoLemma ==
  ASSUME ~MayRace, IInv, NEW n \in 0..MaxObstacles, ~stopped, config_undo(n)
  PROVE  IInv'
<1>a. /\ ~shutting_down /\ undo_available /\ old_config # NoConfig
      /\ undo_available' = FALSE /\ config_timer' = FALSE
      /\ target' = previous
      /\ UNCHANGED <<shutting_down, config_event, host, stopped, previous>>
  BY DEF config_undo
<1>u. CASE UndoUnqueue
  <2>1. TypeOK'
    BY <1>u, <1>a, ConfigAssumption, Zenon
       DEF IInv, TypeOK, Pointers, Progress, UndoUnqueue
  <2>2. ObstaclesPlaced'
    BY <1>u, <1>a, ConfigAssumption
       DEF IInv, ObstaclesPlaced, TypeOK, Progress, UndoUnqueue
  <2>3. NeverStuck'
    BY <1>u, <1>a, ConfigAssumption
       DEF IInv, NeverStuck, TypeOK, Progress, UndoUnqueue
  <2>4. TimerMeansUndo'
    BY <1>u, <1>a, ConfigAssumption
       DEF IInv, TimerMeansUndo, TypeOK, Progress, UndoUnqueue
  <2>5. Pointers'
    BY <1>u, <1>a, ConfigAssumption
       DEF IInv, TypeOK, Pointers, Progress, UndoUnqueue
  <2>6. Progress'
    BY <1>u, <1>a, ConfigAssumption
       DEF IInv, TypeOK, Pointers, Progress, UndoUnqueue
  <2>7. Requests'
    BY <1>u, <1>a, ConfigAssumption
       DEF IInv, TypeOK, Pointers, Progress, Requests, TimerMeansUndo, UndoUnqueue
  <2> QED
    BY <2>1, <2>2, <2>3, <2>4, <2>5, <2>6, <2>7 DEF IInv
<1>q. CASE UndoQueue
  <2>1. TypeOK'
    BY <1>q, <1>a, ConfigAssumption, Zenon
       DEF IInv, TypeOK, Pointers, Progress, UndoQueue
  <2>2. ObstaclesPlaced'
    BY <1>q, <1>a, ConfigAssumption
       DEF IInv, ObstaclesPlaced, TypeOK, Progress, UndoQueue
  <2>3. NeverStuck'
    BY <1>q, <1>a, ConfigAssumption
       DEF IInv, NeverStuck, TypeOK, Progress, UndoQueue
  <2>4. TimerMeansUndo'
    BY <1>q, <1>a, ConfigAssumption
       DEF IInv, TimerMeansUndo, TypeOK, Progress, UndoQueue
  <2>5. Pointers'
    BY <1>q, <1>a, ConfigAssumption
       DEF IInv, TypeOK, Pointers, Progress, UndoQueue
  <2>6. Progress'
    BY <1>q, <1>a, ConfigAssumption
       DEF IInv, TypeOK, Pointers, Progress, UndoQueue
  <2>7. Requests'
    BY <1>q, <1>a, ConfigAssumption
       DEF IInv, TypeOK, Pointers, Progress, Requests, TimerMeansUndo, UndoQueue
  <2> QED
    BY <2>1, <2>2, <2>3, <2>4, <2>5, <2>6, <2>7 DEF IInv
<1>w. CASE UndoNow(n)
  <2>a. ~configuring /\ UNCHANGED <<future_config, future_cftype>>
    BY <1>w DEF UndoNow
  <2>d. config \in Configs /\ old_config \in Configs /\ future_cftype = "NONE" /\ ~config_event
    BY <1>a, <2>a DEF IInv, TypeOK, Pointers, Progress
  <2>c. /\ config' = old_config /\ old_config' = config
        /\ allocated' = allocated
        /\ configuring' = (Obstacles(n) > 0) /\ configuring' \in BOOLEAN
        /\ obstacle_count' \in [Configs -> Nat] /\ Obstacles(n) \in Nat
        /\ \A d \in Configs : obstacle_count'[d] = IF d = config THEN Obstacles(n) ELSE 0
        /\ ObstaclesPlaced'
    BY <1>w, <2>a, <2>d, CommitEffect, Zenon DEF UndoNow
  <2>1. TypeOK'
    BY <1>a, <2>a, <2>c, <2>d, ConfigAssumption, Zenon
       DEF IInv, TypeOK, Pointers, Progress
  <2>3. NeverStuck'
    BY <1>a, <2>a, <2>c, <2>d, ConfigAssumption
       DEF NeverStuck
  <2>4. TimerMeansUndo'
    BY <1>a, <2>a, <2>c, <2>d, ConfigAssumption
       DEF IInv, TimerMeansUndo, TypeOK, Progress
  <2>5. Pointers'
    BY <1>a, <2>a, <2>c, <2>d, ConfigAssumption
       DEF IInv, TypeOK, Pointers, Progress
  <2>6. Progress'
    BY <1>a, <2>a, <2>c, <2>d, ConfigAssumption
       DEF IInv, TypeOK, Pointers, Progress
  <2>7. Requests'
    BY <1>a, <2>a, <2>c, <2>d, ConfigAssumption
       DEF IInv, TypeOK, Pointers, Progress, Requests, TimerMeansUndo
  <2> QED
    BY <2>1, <2>c, <2>3, <2>4, <2>5, <2>6, <2>7 DEF IInv
<1> QED
  BY <1>u, <1>q, <1>w DEF config_undo

(* The undo timer keeps the invariant.                                     *)
LEMMA TimeoutLemma ==
  ASSUME ~MayRace, IInv, NEW n \in 0..MaxObstacles, config_timeout(n)
  PROVE  IInv'
<1>1. CASE config_undo(n)
  BY <1>1, UndoLemma DEF config_timeout
<1>2. CASE UNCHANGED <<runVars, undo_available, shutting_down, memVars, obsVars, stopped>>
           /\ config_timer' = FALSE
  BY <1>2, TimerOffLemma, Zenon
<1> QED
  BY <1>1, <1>2, Zenon DEF config_timeout

(* The order to shut down keeps the invariant.                             *)
LEMMA ShutdownLemma ==
  ASSUME ~MayRace, IInv, NEW n \in 0..MaxObstacles, order_shutdown(n)
  PROVE  IInv'
<1>a. /\ ~stopped /\ ~shutting_down /\ shutting_down' = TRUE
      /\ undo_available' = TRUE /\ config_timer' = FALSE
      /\ host' = config /\ target' = ShutdownConfig /\ previous' = config
      /\ stopped' = (~configuring /\ Obstacles(n) = 0) /\ UNCHANGED config_event
  BY DEF order_shutdown
<1>d. config \in Configs
  BY <1>a DEF IInv, TypeOK, Pointers
<1>q. CASE configuring
  <2>1. TypeOK'
    BY <1>q, <1>a, <1>d, ConfigAssumption, Zenon
       DEF IInv, TypeOK, Pointers, Progress, order_shutdown
  <2>2. ObstaclesPlaced'
    BY <1>q, <1>a, <1>d, ConfigAssumption
       DEF IInv, ObstaclesPlaced, TypeOK, Progress, order_shutdown
  <2>3. NeverStuck'
    BY <1>q, <1>a, <1>d, ConfigAssumption
       DEF IInv, NeverStuck, TypeOK, Progress, order_shutdown
  <2>4. TimerMeansUndo'
    BY <1>q, <1>a, <1>d, ConfigAssumption
       DEF IInv, TimerMeansUndo, TypeOK, Progress, order_shutdown
  <2>5. Pointers'
    BY <1>q, <1>a, <1>d, ConfigAssumption
       DEF IInv, TypeOK, Pointers, Progress, order_shutdown
  <2>6. Progress'
    BY <1>q, <1>a, <1>d, ConfigAssumption
       DEF IInv, TypeOK, Pointers, Progress, order_shutdown
  <2>7. Requests'
    BY <1>q, <1>a, <1>d, ConfigAssumption
       DEF IInv, TypeOK, Pointers, Progress, Requests, TimerMeansUndo, order_shutdown
  <2> QED
    BY <2>1, <2>2, <2>3, <2>4, <2>5, <2>6, <2>7 DEF IInv
<1>w. CASE ~configuring
  <2>a. UNCHANGED <<future_config, future_cftype>>
    BY <1>w, Zenon DEF order_shutdown
  <2>c. /\ config' = ShutdownConfig /\ old_config' = config
        /\ allocated' = allocated \ {old_config}
        /\ configuring' = (Obstacles(n) > 0) /\ configuring' \in BOOLEAN
        /\ obstacle_count' \in [Configs -> Nat] /\ Obstacles(n) \in Nat
        /\ \A d \in Configs : obstacle_count'[d] = IF d = config THEN Obstacles(n) ELSE 0
        /\ ObstaclesPlaced'
    BY <1>d, <1>w, CommitEffect, Zenon DEF order_shutdown
  <2>d. future_cftype = "NONE" /\ ~config_event
    BY <1>w DEF IInv, TypeOK, Progress
  <2>e. configuring' \/ stopped'
    <3>1. CASE Obstacles(n) = 0
      BY <1>a, <1>w, <3>1, Zenon
    <3>2. CASE Obstacles(n) > 0
      BY <2>c, <3>2, Zenon
    <3> QED
      BY <2>c, <3>1, <3>2
  <2>1. TypeOK'
    BY <1>a, <1>d, <1>w, <2>a, <2>c, <2>d, <2>e, ConfigAssumption, Zenon
       DEF IInv, TypeOK, Pointers, Progress
  <2>3. NeverStuck'
    BY <1>a, <1>d, <1>w, <2>a, <2>c, <2>d, <2>e, ConfigAssumption
       DEF NeverStuck
  <2>4. TimerMeansUndo'
    BY <1>a, <1>d, <1>w, <2>a, <2>c, <2>d, <2>e, ConfigAssumption
       DEF IInv, TimerMeansUndo, TypeOK, Progress
  <2>5. Pointers'
    BY <1>a, <1>d, <1>w, <2>a, <2>c, <2>d, <2>e, ConfigAssumption
       DEF IInv, TypeOK, Pointers, Progress
  <2>6. Progress'
    BY <1>a, <1>d, <1>w, <2>a, <2>c, <2>d, <2>e, ConfigAssumption
       DEF IInv, TypeOK, Pointers, Progress
  <2>7. Requests'
    BY <1>a, <1>d, <1>w, <2>a, <2>c, <2>d, <2>e, ConfigAssumption
       DEF IInv, TypeOK, Pointers, Progress, Requests, TimerMeansUndo
  <2> QED
    BY <2>1, <2>c, <2>3, <2>4, <2>5, <2>6, <2>7 DEF IInv
<1> QED
  BY <1>q, <1>w

(* The removal of an obstacle keeps the invariant: that of the active      *)
(* configuration schedules nothing.                                        *)
LEMMA ObstacleLemma ==
  ASSUME ~MayRace, IInv, NEW c \in Configs, config_del_obstacle(c)
  PROVE  IInv'
<1>a. /\ ~stopped /\ obstacle_count[c] > 0
      /\ UNCHANGED <<config, old_config, future_config, future_cftype, configuring,
                     undo_available, shutting_down, config_timer, allocated, host,
                     target, previous, stopped>>
  BY DEF config_del_obstacle, reqVars, memVars, obsVars
<1>b. c = config \/ (c = old_config /\ configuring /\ c # config)
  BY <1>a, ConfigAssumption DEF IInv, ObstaclesPlaced, Pointers
<1>c. /\ obstacle_count' \in [Configs -> Nat] /\ obstacle_count'[c] = obstacle_count[c] - 1
      /\ \A d \in Configs \ {c} : obstacle_count'[d] = obstacle_count[d]
  BY <1>a DEF config_del_obstacle, IInv, TypeOK
<1>d. \A d \in Configs : obstacle_count[d] \in Nat /\ obstacle_count'[d] \in Nat
  BY <1>c DEF IInv, TypeOK
<1>e. \A d \in Configs : obstacle_count'[d] > 0 => obstacle_count[d] > 0
  BY <1>a, <1>c, Zenon
<1>f. config_event' = (config_event \/ (obstacle_count'[c] = 0 /\ c # config))
  BY DEF config_del_obstacle
<1>2. ObstaclesPlaced'
  BY <1>a, <1>e, Zenon DEF IInv, ObstaclesPlaced
<1>1. TypeOK'
  <2>1. config_event' \in BOOLEAN
    BY <1>f, Zenon DEF IInv, TypeOK
  <2> QED
    BY <1>a, <1>c, <2>1, Zenon DEF IInv, TypeOK
<1>o. ASSUME config_event' PROVE configuring /\ \A d \in Configs \ {config} : obstacle_count'[d] = 0
  <2>1. CASE config_event
    <3>1. configuring /\ \A d \in Configs \ {config} : obstacle_count[d] = 0
      BY <2>1, Zenon DEF IInv, Progress
    <3> QED
      BY <1>a, <1>c, <3>1
  <2>2. CASE obstacle_count'[c] = 0 /\ c # config
    <3>1. c = old_config /\ configuring
      BY <1>b, <2>2, Zenon
    <3>2. \A d \in Configs \ {config, c} : ~(obstacle_count'[d] > 0)
      BY <1>a, <1>2, <3>1, Zenon DEF ObstaclesPlaced
    <3> QED
      BY <1>d, <2>2, <3>1, <3>2
  <2> QED
    BY <1>f, <1>o, <2>1, <2>2, Zenon
<1>3. NeverStuck'
  <2>1. ASSUME configuring, ~stopped
        PROVE  config_event' \/ \E d \in Configs : d = old_config /\ obstacle_count'[d] > 0
    <3>1. CASE config_event
      BY <1>f, <3>1, Zenon
    <3>2. CASE ~config_event
      <4>1. old_config \in Configs /\ obstacle_count[old_config] > 0 /\ old_config # config
        BY <2>1, <3>2, ConfigAssumption DEF IInv, NeverStuck, Pointers
      <4>2. CASE c = old_config
        <5>1. obstacle_count'[c] = 0 \/ obstacle_count'[c] > 0
          BY <1>d
        <5> QED
          BY <1>f, <4>1, <4>2, <5>1, Zenon
      <4>3. CASE c # old_config
        BY <1>c, <4>1, <4>3, Zenon
      <4> QED
        BY <4>2, <4>3, Zenon
    <3> QED
      BY <3>1, <3>2, Zenon
  <2>2. ASSUME config_event'
        PROVE  configuring /\ \A d \in Configs : d = old_config => obstacle_count'[d] = 0
    <3>1. \A d \in Configs : d = old_config => d # config
      BY ConfigAssumption DEF IInv, Pointers
    <3> QED
      BY <1>o, <2>2, <3>1, Zenon
  <2> QED
    BY <1>a, <2>1, <2>2, Zenon DEF NeverStuck
<1>4. TimerMeansUndo'
  BY <1>a, Zenon DEF IInv, TimerMeansUndo
<1>5. Pointers'
  BY <1>a, Zenon DEF IInv, Pointers
<1>6. Progress'
  BY <1>a, <1>o, Zenon DEF IInv, Progress
<1>7. Requests'
  BY <1>a, Zenon DEF IInv, Requests
<1> QED
  BY <1>1, <1>2, <1>3, <1>4, <1>5, <1>6, <1>7 DEF IInv

(* A dump that begins keeps the invariant: it is an obstacle of the active *)
(* configuration, for which no reconfiguration waits.                      *)
LEMMA DumpLemma ==
  ASSUME IInv, mrt_table_dump_init
  PROVE  IInv'
<1>a. /\ config \in Configs
      /\ UNCHANGED <<config, old_config, future_config, future_cftype, configuring,
                     config_event, undo_available, shutting_down, config_timer, allocated,
                     host, target, previous, stopped>>
  BY DEF mrt_table_dump_init, reqVars, memVars, obsVars
<1>b. /\ obstacle_count' \in [Configs -> Nat]
      /\ \A d \in Configs \ {config} : obstacle_count'[d] = obstacle_count[d]
  BY <1>a DEF mrt_table_dump_init, IInv, TypeOK
<1>c. \A d \in Configs : d = old_config => d # config
  BY ConfigAssumption DEF IInv, Pointers
<1>1. TypeOK'
  BY <1>a, <1>b, Zenon DEF IInv, TypeOK
<1>2. ObstaclesPlaced'
  BY <1>a, <1>b, Zenon DEF IInv, ObstaclesPlaced
<1>3. NeverStuck'
  BY <1>a, <1>b, <1>c, Zenon DEF IInv, NeverStuck
<1>4. TimerMeansUndo'
  BY <1>a, Zenon DEF IInv, TimerMeansUndo
<1>5. Pointers'
  BY <1>a, Zenon DEF IInv, Pointers
<1>6. Progress'
  BY <1>a, <1>b, Zenon DEF IInv, Progress
<1>7. Requests'
  BY <1>a, Zenon DEF IInv, Requests
<1> QED
  BY <1>1, <1>2, <1>3, <1>4, <1>5, <1>6, <1>7 DEF IInv

(* The end of a reconfiguration keeps the invariant.                       *)
LEMMA DoneLemma ==
  ASSUME ~MayRace, IInv, NEW n \in 0..MaxObstacles, config_done(n)
  PROVE  IInv'
<1>a. /\ config_event /\ ~stopped /\ config_event' = FALSE
      /\ UNCHANGED <<undo_available, shutting_down, config_timer, host, target, previous>>
  BY DEF config_done, reqVars, obsVars
<1>o. \A d \in Configs \ {config} : obstacle_count[d] = 0
  BY <1>a, NoObstacles
<1>q. CASE future_cftype = "NONE"
  <2>1. TypeOK'
    BY <1>q, <1>a, <1>o, ConfigAssumption, Zenon
       DEF IInv, TypeOK, Pointers, Progress, config_done
  <2>2. ObstaclesPlaced'
    BY <1>q, <1>a, <1>o, ConfigAssumption
       DEF IInv, ObstaclesPlaced, TypeOK, Progress, config_done
  <2>3. NeverStuck'
    BY <1>q, <1>a, <1>o, ConfigAssumption
       DEF IInv, NeverStuck, TypeOK, Progress, config_done
  <2>4. TimerMeansUndo'
    BY <1>q, <1>a, <1>o, ConfigAssumption
       DEF IInv, TimerMeansUndo, TypeOK, Progress, config_done
  <2>5. Pointers'
    BY <1>q, <1>a, <1>o, ConfigAssumption
       DEF IInv, TypeOK, Pointers, Progress, config_done
  <2>6. Progress'
    BY <1>q, <1>a, <1>o, ConfigAssumption
       DEF IInv, TypeOK, Pointers, Progress, config_done
  <2>7. Requests'
    BY <1>q, <1>a, <1>o, ConfigAssumption
       DEF IInv, TypeOK, Pointers, Progress, Requests, TimerMeansUndo, config_done
  <2> QED
    BY <2>1, <2>2, <2>3, <2>4, <2>5, <2>6, <2>7 DEF IInv
<1>w. CASE future_cftype # "NONE"
  <2>a. /\ future_cftype' = "NONE" /\ future_config' = NoConfig
        /\ stopped' = (future_config = ShutdownConfig /\ Obstacles(n) = 0)
        /\ config_do_commit(future_config, future_cftype = "UNDO", old_config, allocated, n)
    BY <1>w DEF config_done
  <2>d. config \in Configs /\ old_config \in Configs
    BY <1>a, <1>w DEF IInv, TypeOK, Pointers, Progress
  <2>c. /\ config' = IF future_cftype = "UNDO" THEN old_config ELSE future_config
        /\ old_config' = config
        /\ allocated' = IF future_cftype = "UNDO" THEN allocated ELSE allocated \ {old_config}
        /\ configuring' = (Obstacles(n) > 0) /\ configuring' \in BOOLEAN
        /\ obstacle_count' \in [Configs -> Nat] /\ Obstacles(n) \in Nat
        /\ \A d \in Configs : obstacle_count'[d] = IF d = config THEN Obstacles(n) ELSE 0
        /\ ObstaclesPlaced'
    <3> DEFINE undo == (future_cftype = "UNDO")
    <3>1. undo \in BOOLEAN /\ config_do_commit(future_config, undo, old_config, allocated, n)
      BY <2>a
    <3> HIDE DEF undo
    <3>2. /\ config' = IF undo THEN old_config ELSE future_config
          /\ old_config' = config
          /\ allocated' = IF undo THEN allocated ELSE allocated \ {old_config}
          /\ configuring' = (Obstacles(n) > 0) /\ configuring' \in BOOLEAN
          /\ obstacle_count' \in [Configs -> Nat] /\ Obstacles(n) \in Nat
          /\ \A d \in Configs : obstacle_count'[d] = IF d = config THEN Obstacles(n) ELSE 0
          /\ ObstaclesPlaced'
      BY <1>a, <2>d, <3>1, CommitEffect, Zenon
    <3> QED
      BY <3>2 DEF undo
  <2>1. TypeOK'
    BY <1>a, <1>w, <2>a, <2>c, <2>d, ConfigAssumption, Zenon
       DEF IInv, TypeOK, Pointers, Progress
  <2>3. NeverStuck'
    BY <1>a, <1>w, <2>a, <2>c, <2>d, ConfigAssumption
       DEF NeverStuck
  <2>4. TimerMeansUndo'
    BY <1>a, <1>w, <2>a, <2>c, <2>d, ConfigAssumption
       DEF IInv, TimerMeansUndo, TypeOK, Progress
  <2>5. Pointers'
    BY <1>a, <1>w, <2>a, <2>c, <2>d, ConfigAssumption
       DEF IInv, TypeOK, Pointers, Progress
  <2>6. Progress'
    BY <1>a, <1>w, <2>a, <2>c, <2>d, ConfigAssumption
       DEF IInv, TypeOK, Pointers, Progress
  <2>7. Requests'
    BY <1>a, <1>w, <2>a, <2>c, <2>d, ConfigAssumption
       DEF IInv, TypeOK, Pointers, Progress, Requests, TimerMeansUndo
  <2> QED
    BY <2>1, <2>c, <2>3, <2>4, <2>5, <2>6, <2>7 DEF IInv
<1> QED
  BY <1>q, <1>w

(* Every step keeps the invariant.                                         *)
LEMMA NextIInv ==
  ASSUME ~MayRace, IInv, [Next]_vars
  PROVE  IInv'
<1>1. ASSUME NEW n \in 0..MaxObstacles, NEW c \in Configs, NEW timeout \in BOOLEAN,
             cmd_reconfig(c, timeout, n)
      PROVE  IInv'
  BY <1>1, ReconfigLemma
<1>2. ASSUME NEW n \in 0..MaxObstacles, cmd_reconfig_undo(n)
      PROVE  IInv'
  BY <1>2, UndoLemma DEF cmd_reconfig_undo, Command
<1>3. ASSUME NEW n \in 0..MaxObstacles, config_timeout(n)
      PROVE  IInv'
  BY <1>3, TimeoutLemma
<1>4. ASSUME NEW n \in 0..MaxObstacles, order_shutdown(n)
      PROVE  IInv'
  BY <1>4, ShutdownLemma
<1>5. ASSUME NEW n \in 0..MaxObstacles, config_done(n)
      PROVE  IInv'
  BY <1>5, DoneLemma
<1>6. CASE ReconfigFails
  BY <1>6, FailLemma
<1>7. CASE config_confirm
  BY <1>7, ConfirmLemma
<1>8. ASSUME NEW c \in Configs, config_del_obstacle(c)
      PROVE  IInv'
  BY <1>8, ObstacleLemma
<1>10. CASE mrt_table_dump_init
  BY <1>10, DumpLemma
<1>9. CASE UNCHANGED vars
  BY <1>9 DEF IInv, TypeOK, ObstaclesPlaced, NeverStuck, TimerMeansUndo, Pointers, Progress,
     Requests, vars, runVars, reqVars, memVars, obsVars
<1> QED
  BY <1>1, <1>2, <1>3, <1>4, <1>5, <1>6, <1>7, <1>8, <1>9, <1>10 DEF Next

(* The inductive invariant holds in all states.                            *)
LEMMA Invariance == ASSUME ~MayRace PROVE Spec => []IInv
<1>1. IInv /\ [Next]_vars => IInv'
  BY NextIInv
<1> QED
  BY <1>1, InitIInv, PTL DEF Spec

(* What the invariant implies.                                             *)
LEMMA Consequences ==
  IInv => TypeOK /\ ConfigsAlive /\ UndoSound /\ WaitsForOld /\ TargetReached
<1> SUFFICES ASSUME IInv
             PROVE  TypeOK /\ ConfigsAlive /\ UndoSound /\ WaitsForOld /\ TargetReached
  OBVIOUS
<1>1. Alive(config)
  BY DEF IInv, TypeOK, Pointers
<1>2. ASSUME old_config # NoConfig PROVE Alive(old_config)
  BY <1>2 DEF IInv, Pointers
<1>3. ASSUME future_config # NoConfig PROVE Alive(future_config)
  <2>1. CASE future_config \in Configs
    BY <2>1 DEF IInv, Pointers
  <2>2. CASE future_config = ShutdownConfig
    BY <1>3, <2>2, ConfigAssumption DEF IInv, TypeOK, Pointers
  <2> QED
    BY <1>3, <2>1, <2>2 DEF IInv, TypeOK
<1>4. UndoHasTarget
  BY DEF IInv, Progress, UndoHasTarget
<1>5. TargetReached
  BY DEF IInv, Progress, Requests, TargetReached
<1>8. ASSUME NEW c \in Configs, obstacle_count[c] > 0 PROVE Alive(c)
  BY <1>8, ConfigAssumption DEF IInv, ObstaclesPlaced, Pointers
<1>6. ConfigsAlive
  BY <1>1, <1>2, <1>3, <1>8, Zenon DEF ConfigsAlive
<1>7. TypeOK /\ UndoSound /\ WaitsForOld
  BY <1>4 DEF IInv, UndoSound, WaitsForOld
<1> QED
  BY <1>5, <1>6, <1>7

(* Every variable keeps its type; in particular no obstacle is removed     *)
(* more often than it was added.                                           *)
THEOREM TypeCorrect == ASSUME ~MayRace PROVE Spec => []TypeOK
  BY Invariance, Consequences, PTL

(* No pointer of the configuration manager, or of a running table dump,    *)
(* ever leads to freed memory, however commits, undos, timeouts, obstacles *)
(* and a shutdown follow each other.                                       *)
THEOREM NoDanglingConfig == ASSUME ~MayRace PROVE Spec => []ConfigsAlive
  BY Invariance, Consequences, PTL

(* config_done() never switches to NULL: an undo that was queued keeps the *)
(* configuration it returns to; and while the timer of an unconfirmed      *)
(* commit runs, there is a configuration for it to return to.              *)
THEOREM UndoSafe == ASSUME ~MayRace PROVE Spec => []UndoSound
  BY Invariance, Consequences, PTL

(* Between reconfigurations the daemon runs what it was last asked to run, *)
(* undone or not, queued or not.                                           *)
THEOREM RightConfig == ASSUME ~MayRace PROVE Spec => []TargetReached
  BY Invariance, Consequences, PTL

(* Only the configuration being left and the active one, which dumps of    *)
(* tables hold at any time, have obstacles, so that config_free() is never *)
(* called for one that has.  A running reconfiguration waits for obstacles *)
(* of the former only, and config_done() is scheduled just when they are   *)
(* gone, whatever dumps of the active one begin and end meanwhile.         *)
THEOREM ObstaclesSound == ASSUME ~MayRace PROVE Spec => []WaitsForOld
  BY Invariance, Consequences, PTL

=============================================================================
