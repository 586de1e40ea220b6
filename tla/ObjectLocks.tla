---------------------------- MODULE ObjectLocks ----------------------------
(***************************************************************************)
(* The object lock manager of nest/locks.c.                                *)
(*                                                                         *)
(* A protocol that needs a network port describes it in an object_lock     *)
(* structure and calls olock_acquire().  The lock is granted later, from   *)
(* the event olock_event, by a call of the client's hook.  The manager     *)
(* keeps one global list, olock_list, of the locks that are granted or     *)
(* about to be, and hangs every lock that has to wait on the waiters list  *)
(* of ONE member of olock_list.                                            *)
(***************************************************************************)
EXTENDS Sequences, Naturals

CONSTANTS
  Locks,    \* the object_lock structures of the clients
  Object,   \* Object[l]: the strictly compared identification of lock l
            \* (type, iface, vrf, port, inst and addr taken together)
  Local,    \* Local[l]: the local address addr_local of lock l
  AnyAddr   \* the zero address, which matches every local address

ASSUME DescriptorAssumption == 
  DOMAIN Object = Locks /\ DOMAIN Local = Locks

VARIABLES
  state,        \* state[l]: OLOCK_STATE_xxx, or "NONE" when not allocated
  olock_list,   \* the global list, head first
  waiters,      \* waiters[l]: the locks waiting for l, head first
  scheduled,    \* olock_event is in the global event list
  pc            \* where olock_run_event() is: "idle", "loop" or "hook"

vars == <<state, olock_list, waiters, scheduled, pc>>

LockStates == {"NONE", "FREE", "LOCKED", "WAITING", "EVENT"}

Elems(s) == {s[i] : i \in DOMAIN s}

\* rem_node(): takes x out of a list whose elements are distinct.
Unlink(s, x) ==
  IF x \in Elems(s)
  THEN LET k == CHOOSE i \in DOMAIN s : s[i] = x
       IN  [i \in 1 .. (Len(s) - 1) |-> IF i < k THEN s[i] ELSE s[i + 1]]
  ELSE s

Held(l) == state[l] \in {"LOCKED", "EVENT"}

\* Do locks x and y describe the same resource?
olock_same(x, y) ==
  /\ Object[x] = Object[y]
  /\ AnyAddr \in {Local[x], Local[y]} \/ Local[x] = Local[y]

\* No wildcard competes with a specific local address for the same object.
\* Then olock_same() is transitive, which it is not in general.
NoMixedWildcard ==
  \A x, y \in Locks :
    Object[x] = Object[y] => (Local[x] = AnyAddr <=> Local[y] = AnyAddr)

\* Client code runs between two events, or inside the hook of a grant.  A
\* hook may free locks (a BGP instance whose neighbor address turns out to be
\* invalid goes down in its hook), but none of the hooks acquires one.
ClientRuns == pc \in {"idle", "hook"}
-----------------------------------------------------------------------------
Init ==
  /\ state = [l \in Locks |-> "NONE"]
  /\ olock_list = << >>
  /\ waiters = [l \in Locks |-> << >>]
  /\ scheduled = FALSE
  /\ pc = "idle"

olock_new(l) ==
  /\ pc = "idle"
  /\ state[l] = "NONE"
  /\ state' = [state EXCEPT ![l] = "FREE"]
  /\ waiters' = [waiters EXCEPT ![l] = << >>]
  /\ UNCHANGED <<olock_list, scheduled, pc>>

\* The walk over olock_list stops at its first member that is the same.
WaitBehind(l, i) ==
  /\ olock_same(olock_list[i], l)
  /\ \A j \in 1 .. (i - 1) : ~ olock_same(olock_list[j], l)
  /\ state' = [state EXCEPT ![l] = "WAITING"]
  /\ waiters' = [waiters EXCEPT ![olock_list[i]] = Append(@, l)]
  /\ UNCHANGED <<olock_list, scheduled, pc>>

\* Faulty variants, for the mutation of Reserve: only the head of the list is
\* compared; the lock is put at the wrong end of the list.
ReserveHeadOnly(l) ==
  /\ olock_list # << >> => ~ olock_same(Head(olock_list), l)
  /\ state' = [state EXCEPT ![l] = "EVENT"]
  /\ olock_list' = <<l>> \o olock_list
  /\ scheduled' = TRUE
  /\ UNCHANGED <<waiters, pc>>

Reserve(l) ==
  /\ \A j \in DOMAIN olock_list : ~ olock_same(olock_list[j], l)
  /\ state' = [state EXCEPT ![l] = "EVENT"]
  /\ olock_list' = <<l>> \o olock_list
  /\ scheduled' = TRUE
  /\ UNCHANGED <<waiters, pc>>

olock_acquire(l) ==
  /\ pc = "idle"
  /\ state[l] = "FREE"
  /\ \/ \E i \in DOMAIN olock_list : WaitBehind(l, i)
     \/ Reserve(l)

FreeUnused(l) ==
  /\ state[l] = "FREE"
  /\ state' = [state EXCEPT ![l] = "NONE"]
  /\ UNCHANGED <<olock_list, waiters, scheduled, pc>>

FreeUnwanted(l) ==
  /\ Held(l)
  /\ waiters[l] = << >>
  /\ state' = [state EXCEPT ![l] = "NONE"]
  /\ olock_list' = Unlink(olock_list, l)
  /\ UNCHANGED <<waiters, scheduled, pc>>

\* Faulty variants: the other waiters are dropped; the event is not scheduled.
HandOverAlone(l) ==
  LET q == Head(waiters[l]) IN
  /\ Held(l)
  /\ waiters[l] # << >>
  /\ state' = [state EXCEPT ![l] = "NONE", ![q] = "EVENT"]
  /\ waiters' = [waiters EXCEPT ![l] = << >>]
  /\ olock_list' = <<q>> \o Unlink(olock_list, l)
  /\ scheduled' = TRUE
  /\ UNCHANGED pc

HandOverSilently(l) ==
  LET q == Head(waiters[l]) IN
  /\ Held(l)
  /\ waiters[l] # << >>
  /\ state' = [state EXCEPT ![l] = "NONE", ![q] = "EVENT"]
  /\ waiters' = [waiters EXCEPT ![q] = @ \o Tail(waiters[l]), ![l] = << >>]
  /\ olock_list' = <<q>> \o Unlink(olock_list, l)
  /\ UNCHANGED <<scheduled, pc>>

\* The first waiter q takes the place of l and inherits the other waiters.
HandOver(l) ==
  LET q == Head(waiters[l]) IN
  /\ Held(l)
  /\ waiters[l] # << >>
  /\ state' = [state EXCEPT ![l] = "NONE", ![q] = "EVENT"]
  /\ waiters' = [waiters EXCEPT ![q] = @ \o Tail(waiters[l]), ![l] = << >>]
  /\ olock_list' = <<q>> \o Unlink(olock_list, l)
  /\ scheduled' = TRUE
  /\ UNCHANGED pc

FreeWaiting(l) ==
  /\ state[l] = "WAITING"
  /\ state' = [state EXCEPT ![l] = "NONE"]
  /\ waiters' = [q \in Locks |-> Unlink(waiters[q], l)]
  /\ UNCHANGED <<olock_list, scheduled, pc>>

\* rfree() of a lock, in any of its states.
olock_free(l) ==
  /\ ClientRuns
  /\ FreeUnused(l) \/ FreeUnwanted(l) \/ HandOver(l) \/ FreeWaiting(l)

\* ev_run() unlinks the event before it calls olock_run_event().
RunEvent ==
  /\ pc = "idle"
  /\ scheduled
  /\ scheduled' = FALSE
  /\ pc' = "loop"
  /\ UNCHANGED <<state, olock_list, waiters>>

\* One turn of the loop: the head is granted, goes to the tail, and its hook
\* is called.  The hook is client code; it ends with HookReturns.
Grant ==
  LET q == Head(olock_list) IN
  /\ pc = "loop"
  /\ olock_list # << >>
  /\ state[q] = "EVENT"
  /\ state' = [state EXCEPT ![q] = "LOCKED"]
  /\ olock_list' = Append(Tail(olock_list), q)
  /\ pc' = "hook"
  /\ UNCHANGED <<waiters, scheduled>>

HookReturns ==
  /\ pc = "hook"
  /\ pc' = "loop"
  /\ UNCHANGED <<state, olock_list, waiters, scheduled>>

LoopBreaks ==
  /\ pc = "loop"
  /\ olock_list # << >> => state[Head(olock_list)] # "EVENT"
  /\ pc' = "idle"
  /\ UNCHANGED <<state, olock_list, waiters, scheduled>>

olock_run_event == RunEvent \/ Grant \/ HookReturns \/ LoopBreaks

Next ==
  \/ \E l \in Locks : olock_new(l) \/ olock_acquire(l) \/ olock_free(l)
  \/ olock_run_event

Spec == Init /\ [][Next]_vars

\* The main loop keeps running events, and a client that owns a resource
\* gives it back some day (the protocol instance that owns it is shut down).
\* It cannot do so while the event loop runs, which is why the fairness is
\* strong.  Clients whose lock is still waiting owe nothing.
Release(l) == state[l] = "LOCKED" /\ olock_free(l)

FairSpec ==
  /\ Spec
  /\ WF_vars(olock_run_event)
  /\ \A l \in Locks : SF_vars(Release(l))
-----------------------------------------------------------------------------
TypeOK ==
  /\ state \in [Locks -> LockStates]
  /\ olock_list \in Seq(Locks)
  /\ waiters \in [Locks -> Seq(Locks)]
  /\ scheduled \in BOOLEAN
  /\ pc \in {"idle", "loop", "hook"}

(***************************************************************************)
(* Two locks that describe the same resource are never granted together:   *)
(* what olock_acquire() calls exclusive access to the resource.            *)
(***************************************************************************)
ExclusiveUse ==
  \A x, y \in Locks :
    x # y /\ state[x] = "LOCKED" /\ state[y] = "LOCKED" => ~ olock_same(x, y)

(***************************************************************************)
(* No lock is forgotten.  A lock that waits hangs on exactly one list of   *)
(* waiters, that of a lock in olock_list; so whoever frees that lock finds *)
(* it.  It must survive every order of olock_free() calls, in particular   *)
(* the hand-over of a list of waiters to the first of them.                *)
(***************************************************************************)
NoOrphan ==
  \A l \in Locks : state[l] = "WAITING" =>
    \E q \in Locks :
      /\ Held(q) /\ l \in Elems(waiters[q])
      /\ \A r \in Locks \ {q} : l \notin Elems(waiters[r])

(***************************************************************************)
(* The loop of olock_run_event() gives up at the first head that is not in *)
(* OLOCK_STATE_EVENT.  Nothing is lost by that: locks whose grant is still *)
(* to be announced come before all the others, and while there is one, the *)
(* event is scheduled or the loop is running.                              *)
(***************************************************************************)
GrantsPending ==
  /\ \A i, j \in DOMAIN olock_list :
       i < j /\ state[olock_list[j]] = "EVENT" => state[olock_list[i]] = "EVENT"
  /\ (\E l \in Locks : state[l] = "EVENT") => scheduled \/ pc # "idle"

(***************************************************************************)
(* A lock waits only as long as somebody else has its resource: "as soon   *)
(* as the resource becomes available, it calls the hook() function".       *)
(***************************************************************************)
WaitsForOwner ==
  \A l \in Locks : state[l] = "WAITING" =>
    \E q \in Locks : q # l /\ Held(q) /\ olock_same(q, l)

(***************************************************************************)
(* Whoever waits is kept in a queue that somebody will serve, and rightly  *)
(* waits: see NoOrphan, GrantsPending and WaitsForOwner.                   *)
(***************************************************************************)
WaitersKept == NoOrphan /\ GrantsPending /\ WaitsForOwner

(***************************************************************************)
(* When owners give their resources back, every lock that waits is granted *)
(* or withdrawn by its client; later arrivals do not overtake it for ever. *)
(***************************************************************************)
Served(l) == state[l] = "WAITING" ~> state[l] \in {"LOCKED", "NONE"}
WaitersServed == \A l \in Locks : Served(l)
=============================================================================
