---------------------------- MODULE RouteReplica ----------------------------
(***************************************************************************)
(* What a routing protocol promises about the routes it carries: for every *)
(* network the receiver sees some of the values that the sender exported,  *)
(* in the order they were exported, and it drops a route that is still     *)
(* exported only when a session is lost or before it is loaded.            *)
(***************************************************************************)
EXTENDS Integers, Sequences

CONSTANTS
  Nets,
  Values,    \* the routes a network may have
  None       \* no route

VARIABLES
  log,     \* log[n]: all values exported for network n, the last one current
  view,    \* view[n]: what the receiver has
  pos,     \* pos[n]: the place in log[n] the receiver has got to
  session  \* "down", "loading" until the sender said that all is sent, "synced"

vars == <<log, view, pos, session>>

Init ==
  /\ log = [n \in Nets |-> <<None>>]
  /\ view = [n \in Nets |-> None]
  /\ pos = [n \in Nets |-> 1]
  /\ session = "down"

Export ==
  /\ \E n \in Nets : \E v \in Values \cup {None} : log' = [log EXCEPT ![n] = Append(@, v)]
  /\ UNCHANGED <<view, pos, session>>

\* Every network stays, goes forward or is forgotten; the end of loading
\* forgets nothing that is exported.
Receive ==
  /\ UNCHANGED log
  /\ session' \in {"down", "loading", "synced"}
  /\ \A n \in Nets :
       /\ pos'[n] \in pos[n] .. Len(log[n])
       /\ \/ pos'[n] = pos[n] /\ view'[n] = view[n]
          \/ view'[n] = log[n][pos'[n]]
          \/ view'[n] = None /\ (session = "down" \/ session' # "synced")

Next == Export \/ Receive

Spec == Init /\ [][Next]_vars
=============================================================================
