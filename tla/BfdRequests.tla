---------------------------- MODULE BfdRequests ----------------------------
(***************************************************************************)
(* The BFD requests of proto/bfd/bfd.c: other protocols ask for a session  *)
(* to an address, several requests share one session, and the state of the *)
(* session is passed on to the hooks of its requests.                      *)
(*                                                                         *)
(* Two threads meet here.  The BFD thread changes the state of a session   *)
(* under the spinlock of the protocol, puts the session on notify_list and *)
(* writes to a pipe.  The main thread reads the pipe, moves the list to a  *)
(* list of its own and calls the hooks, which may free requests.           *)
(***************************************************************************)
EXTENDS Naturals, Sequences, SequencesExt, FiniteSets

CONSTANTS
  Reqs,        \* the bfd_request structures
  Sessions,    \* the addresses sessions are made for
  Target,      \* Target[r]: the address request r asks for
  Own,         \* the requests made for the neighbors of the BFD protocol itself
  Accepted,    \* the addresses the protocol accepts
  IfaceOf,     \* IfaceOf[s]: the bfd_iface a session to s uses
  MaxChanges,  \* bound on the state changes of sessions
  MaxOps       \* bound on requests made and freed, starts and stops

VARIABLES
  proto,         \* is the protocol in bfd_proto_list?
  loc_state,     \* loc_state[s]: "none" when there is no session, else its state
  request_list,  \* request_list[s]: the requests of session s
  wait_list,     \* bfd_wait_list
  req,           \* req[r]: the state the request was last told, "none" if free
  uc,            \* uc[i]: use count of a bfd_iface
  notify_list,   \* sessions to notify, as the BFD thread left them
  tmp_list,      \* the main thread's part of it
  pipe,          \* something is in the notify pipe
  bfd_pc,        \* the BFD thread: "idle", or "kick" before it writes the pipe
  pc,            \* the main thread: "idle", "walk" or "hooks"
  cur, snap, nn, \* in "hooks": the session, the state read, requests to come
  changes, ops

vars == <<proto, loc_state, request_list, wait_list, req, uc, notify_list,
          tmp_list, pipe, bfd_pc, pc, cur, snap, nn, changes, ops>>

sessions == <<loc_state, request_list, uc>>
walk == <<tmp_list, pc, cur, snap, nn>>

NoSession == "no session"
Ifaces == {IfaceOf[s] : s \in Sessions}
Exists(s) == loc_state[s] # "none"
Linked(s) == s \in ToSet(notify_list) \cup ToSet(tmp_list)   \* NODE_VALID(&s->n)
Holder(r) == {s \in Sessions : r \in ToSet(request_list[s])}
-----------------------------------------------------------------------------
(* bfd_request_notify() with a hook that may give the request up.          *)
bfd_request_notify(r, state, free) ==
  req' = [req EXCEPT ![r] = IF free /\ state # req[r] THEN "none" ELSE state]

\* The effect of bfd_add_request() for a request that is in no list.
bfd_add_request(r) ==
  LET s == Target[r]
      state == IF Exists(s) THEN loc_state[s] ELSE "Down"
  IN  /\ request_list' = [request_list EXCEPT ![s] = Append(@, r)]
      /\ loc_state' = [loc_state EXCEPT ![s] = state]
      /\ uc' = IF Exists(s) THEN uc ELSE [uc EXCEPT ![IfaceOf[s]] = @ + 1]
      /\ req' = [req EXCEPT ![r] = state]

\* bfd_request_session(): the hook is set only after the request is submitted.
bfd_request_session(r) ==
  /\ pc = "idle" /\ bfd_pc = "idle" /\ ops < MaxOps
  /\ req[r] = "none"
  /\ r \in Own => proto
  /\ IF proto /\ Target[r] \in Accepted
     THEN bfd_add_request(r) /\ UNCHANGED wait_list
     ELSE /\ wait_list' = Append(wait_list, r)
          /\ req' = [req EXCEPT ![r] = "AdminDown"]
          /\ UNCHANGED sessions
  /\ ops' = ops + 1
  /\ UNCHANGED <<proto, notify_list, pipe, bfd_pc, walk, changes>>

\* bfd_remove_session(), under the mutex of the BFD thread.
bfd_remove_session(s, lists) ==
  /\ loc_state' = [loc_state EXCEPT ![s] = "none"]
  /\ request_list' = lists
  /\ uc' = [uc EXCEPT ![IfaceOf[s]] = @ - 1]
  /\ notify_list' = Remove(notify_list, s)
  /\ tmp_list' = Remove(tmp_list, s)

bfd_request_free(r) ==
  /\ pc = "idle" /\ bfd_pc = "idle" /\ ops < MaxOps
  /\ req[r] # "none"
  /\ req' = [req EXCEPT ![r] = "none"]
  /\ wait_list' = Remove(wait_list, r)
  /\ LET lists == [s \in Sessions |-> Remove(request_list[s], r)]
     IN  \/ \E s \in Holder(r) : lists[s] = << >> /\ bfd_remove_session(s, lists)
         \/ /\ \A s \in Holder(r) : lists[s] # << >>
            /\ request_list' = lists
            /\ UNCHANGED <<loc_state, uc, notify_list, tmp_list>>
  /\ ops' = ops + 1
  /\ UNCHANGED <<proto, pipe, bfd_pc, pc, cur, snap, nn, changes>>
-----------------------------------------------------------------------------

(* The BFD thread. *)
bfd_session_update_state(s) ==
  /\ proto /\ bfd_pc = "idle" /\ changes < MaxChanges
  /\ Exists(s)
  /\ loc_state' = [loc_state EXCEPT ![s] = IF @ = "Up" THEN "Down" ELSE "Up"]
  /\ IF Linked(s)
     THEN UNCHANGED <<notify_list, bfd_pc>>
     ELSE /\ notify_list' = Append(notify_list, s)
          /\ bfd_pc' = "kick"
  /\ changes' = changes + 1
  /\ UNCHANGED <<proto, request_list, wait_list, req, uc, pipe, walk, ops>>

bfd_notify_kick ==
  /\ bfd_pc = "kick"
  /\ pipe' = TRUE
  /\ bfd_pc' = "idle"
  /\ UNCHANGED <<proto, sessions, wait_list, req, notify_list, walk, changes, ops>>
-----------------------------------------------------------------------------
(* The main thread in bfd_notify_hook(). *)
bfd_notify_hook ==
  /\ pc = "idle" /\ pipe
  /\ pipe' = FALSE
  /\ tmp_list' = notify_list
  /\ notify_list' = << >>
  /\ pc' = "walk"
  /\ UNCHANGED <<proto, sessions, wait_list, req, bfd_pc, cur, snap, nn, changes, ops>>

\* Takes the next session and reads its state, under the spinlock.
NotifySession ==
  /\ pc = "walk" /\ tmp_list # << >>
  /\ cur' = Head(tmp_list)
  /\ tmp_list' = Tail(tmp_list)
  /\ snap' = loc_state[cur']
  /\ nn' = request_list[cur']
  /\ pc' = "hooks"
  /\ UNCHANGED <<proto, sessions, wait_list, req, notify_list, pipe, bfd_pc, changes, ops>>

\* Calls the hook of one request.  A hook (of OSPF and RIP) may free its own
\* request; the session stays, as notify_running is set.
NotifyRequest ==
  /\ pc = "hooks" /\ nn # << >>
  /\ LET r == Head(nn)
     IN  \E free \in BOOLEAN :
           /\ free => r \notin Own /\ ops < MaxOps /\ snap # req[r]
           /\ bfd_request_notify(r, snap, free)
           /\ request_list' = IF free THEN [request_list EXCEPT ![cur] = Remove(@, r)]
                              ELSE request_list
           /\ ops' = IF free THEN ops + 1 ELSE ops
  /\ nn' = Tail(nn)
  /\ UNCHANGED <<proto, loc_state, wait_list, uc, notify_list, tmp_list, pipe,
                 bfd_pc, pc, cur, snap, changes>>

NotifyDone ==
  /\ pc = "hooks" /\ nn = << >>
  /\ \/ /\ request_list[cur] = << >>
        /\ bfd_pc = "idle"
        /\ bfd_remove_session(cur, request_list)
     \/ /\ request_list[cur] # << >>
        /\ UNCHANGED <<sessions, notify_list, tmp_list>>
  /\ pc' = "walk" /\ cur' = NoSession /\ snap' = "none"
  /\ UNCHANGED <<proto, wait_list, req, pipe, bfd_pc, nn, changes, ops>>

NotifyEnd ==
  /\ pc = "walk" /\ tmp_list = << >>
  /\ pc' = "idle"
  /\ UNCHANGED <<proto, sessions, wait_list, req, notify_list, tmp_list, pipe,
                 bfd_pc, cur, snap, nn, changes, ops>>
-----------------------------------------------------------------------------
(* The protocol goes up and takes the waiting requests, in their order. *)
bfd_start ==
  /\ pc = "idle" /\ ~ proto /\ ops < MaxOps
  /\ LET taken == SelectSeq(wait_list, LAMBDA r : Target[r] \in Accepted)
         new == {Target[r] : r \in ToSet(taken)}
     IN  /\ request_list' = [s \in Sessions |-> SelectSeq(taken, LAMBDA r : Target[r] = s)]
         /\ loc_state' = [s \in Sessions |-> IF s \in new THEN "Down" ELSE "none"]
         /\ uc' = [i \in Ifaces |-> Cardinality({s \in new : IfaceOf[s] = i})]
         /\ req' = [r \in Reqs |-> IF r \in ToSet(taken) THEN "Down" ELSE req[r]]
  /\ wait_list' = SelectSeq(wait_list, LAMBDA r : Target[r] \notin Accepted)
  /\ proto' = TRUE
  /\ ops' = ops + 1
  /\ UNCHANGED <<notify_list, pipe, bfd_pc, walk, changes>>

\* bfd_shutdown(): joins the thread, frees its own requests, puts the others
\* on the wait list, and everything the protocol allocated goes away.
bfd_shutdown ==
  /\ pc = "idle" /\ bfd_pc = "idle" /\ proto /\ ops < MaxOps
  /\ \E order \in SetToSeqs({s \in Sessions : Exists(s)}) :
       LET all == FlattenSeq([i \in DOMAIN order |-> request_list[order[i]]])
           dropped == SelectSeq(all, LAMBDA r : r \notin Own)
       IN  wait_list' = SelectSeq(wait_list, LAMBDA r : r \notin Own) \o dropped
  /\ req' = [r \in Reqs |-> IF req[r] = "none" \/ r \in Own THEN "none" ELSE "AdminDown"]
  /\ request_list' = [s \in Sessions |-> << >>]
  /\ loc_state' = [s \in Sessions |-> "none"]
  /\ uc' = [i \in Ifaces |-> 0]
  /\ notify_list' = << >>
  /\ pipe' = FALSE
  /\ proto' = FALSE
  /\ ops' = ops + 1
  /\ UNCHANGED <<bfd_pc, walk, changes>>

Init ==
  /\ proto = TRUE
  /\ loc_state = [s \in Sessions |-> "none"]
  /\ request_list = [s \in Sessions |-> << >>]
  /\ wait_list = << >>
  /\ req = [r \in Reqs |-> "none"]
  /\ uc = [i \in Ifaces |-> 0]
  /\ notify_list = << >> /\ tmp_list = << >>
  /\ pipe = FALSE
  /\ bfd_pc = "idle" /\ pc = "idle"
  /\ cur = NoSession /\ snap = "none" /\ nn = << >>
  /\ changes = 0 /\ ops = 0

MainThread == bfd_notify_hook \/ NotifySession \/ NotifyRequest \/ NotifyDone \/ NotifyEnd

Next ==
  \/ \E r \in Reqs : bfd_request_session(r) \/ bfd_request_free(r)
  \/ \E s \in Sessions : bfd_session_update_state(s)
  \/ bfd_notify_kick
  \/ MainThread
  \/ bfd_start
  \/ bfd_shutdown

Spec == Init /\ [][Next]_vars

Fairness == WF_vars(bfd_notify_kick) /\ WF_vars(MainThread)

FairSpec == Spec /\ Fairness
-----------------------------------------------------------------------------
States == {"none", "AdminDown", "Down", "Up"}

TypeOK ==
  /\ loc_state \in [Sessions -> {"none", "Down", "Up"}]
  /\ req \in [Reqs -> States]
  /\ proto \in BOOLEAN /\ pipe \in BOOLEAN
  /\ pc \in {"idle", "walk", "hooks"} /\ bfd_pc \in {"idle", "kick"}

\* Whatever hooks and clients free, the lists of sessions to notify hold only
\* sessions that exist, each at most once, and so does the session whose
\* hooks run: bfd_notify_hook() never walks over freed memory.
NotifiedExist ==
  /\ \A s \in ToSet(notify_list) \cup ToSet(tmp_list) : Exists(s)
  /\ IsInjective(notify_list \o tmp_list)
  /\ pc = "hooks" => Exists(cur)

\* Every live request is in exactly one list: the wait list with the state
\* AdminDown, or the list of the session to its address, which exists.
RequestsPlaced ==
  \A r \in Reqs :
    /\ req[r] # "none" <=> r \in ToSet(wait_list) \/ Holder(r) # {}
    /\ r \in ToSet(wait_list) => Holder(r) = {} /\ req[r] = "AdminDown"
    /\ \A s \in Holder(r) : s = Target[r] /\ Exists(s) /\ proto

\* A session without requests is removed; only the one whose hooks run may be
\* without.  The use count of an interface is the number of its sessions.
NoLeak ==
  /\ \A s \in Sessions : Exists(s) /\ s # cur => request_list[s] # << >>
  /\ \A i \in Ifaces : uc[i] = Cardinality({s \in Sessions : Exists(s) /\ IfaceOf[s] = i})

\* No lost wakeup: while a session waits for its notification the pipe is
\* written, or the BFD thread is about to write it.
KickPending == notify_list # << >> => pipe \/ bfd_pc = "kick"

\* When the sessions settle, every request learns the state of its session.
Informed == \A s \in Sessions : \A r \in ToSet(request_list[s]) : req[r] = loc_state[s]
RequestsLearn == <>[]Informed
=============================================================================
