-------------------------- MODULE BgpUpdatesProofs --------------------------
(***************************************************************************)
(* Theorems about BgpUpdates: the channel implements RouteReplica, and     *)
(* what an end mark says is true, for any networks, attributes, limits of  *)
(* messages and numbers of refreshes, breaks and messages in flight.       *)
(***************************************************************************)
EXTENDS BgpUpdatesLemmas

-----------------------------------------------------------------------------
(* Transmission keeps the invariant. *)

(* What holds of any message that is sent: no end mark precedes what it    *)
(* waits for.                                                              *)
LEMMA SendStep ==
  ASSUME IInv, rcv.up, UNCHANGED <<conf, rcv, back, log, pos>>, snd' \in Snd,
         NEW m \in Message, wire' = Append(wire, m),
         snd'.best = snd.best, snd'.begun = snd.begun, Queue', Ends', Open',
         \A n \in Nets : Has(m, n) => m.at[n] = Len(log[n]) /\ m.v = Current(n),
         \A n \in Nets : Waits(snd, n) => Waits(snd', n) \/ Has(m, n),
         m.t \in {"EoR", "EoRR"} =>
           /\ m.begun = snd.begun
           /\ \A n \in Nets : Covered(n, snd.begun[n], Len(wire) + 1)
  PROVE  IInv'
<1>1. /\ wire' \in Seq(Message) /\ Len(wire') = Len(wire) + 1 /\ Len(wire) \in Nat
      /\ DOMAIN wire' = 1 .. Len(wire) + 1
      /\ wire'[Len(wire) + 1] = m /\ \A k \in 1 .. Len(wire) : wire'[k] = wire[k]
  BY Appended, Wire DEF IInv
<1>2. Types'
  BY <1>1 DEF IInv, Types
<1>3. Logs'
  BY DEF IInv, Logs, Current
<1>4. Down' /\ Restart'
  BY DEF IInv, Down, Restart
<1>5. \A k \in Len(wire) + 1 .. Len(wire') : wire'[k] = m /\ k = Len(wire) + 1
  BY <1>1
<1>6. ASSUME NEW n \in Nets PROVE Extends(n)
  <2>1. Len(log[n]) \in Nat
    BY Wire DEF IInv
  <2> QED
    BY <1>1, <1>5, <2>1 DEF Extends
<1>7. Updates'
  BY <1>2, <1>5, <1>6, UpdatesExtend, Zenon DEF IInv
<1>8. Marks'
  <2>1. ASSUME NEW i \in Len(wire) + 1 .. Len(wire'), wire'[i].t \in {"EoR", "EoRR"},
               NEW n \in Nets, NEW b \in Nat \ {0}, b = wire'[i].begun[n]
        PROVE  Covered(n, b, i)'
    <3>1. i = Len(wire) + 1 /\ m.t \in {"EoR", "EoRR"} /\ b = snd.begun[n]
      BY <1>5, <2>1
    <3>2. Covered(n, b, i)
      BY <3>1
    <3>3. /\ i \in 1 .. Len(wire) + 1 /\ i \in i .. Len(wire') + 1
          /\ \A k \in i .. i - 1 : ~Has(wire'[k], n) /\ wire'[k].t # "BoRR"
      BY <1>1, <3>1
    <3>4. pos[n] \in 1 .. Len(log[n])
      BY DEF IInv, Logs
    <3> QED
      BY <1>2, <1>6, <3>2, <3>3, <3>4, CoveredExtends, ZenonT(30) DEF IInv
  <2> QED
    BY <1>2, <1>6, <2>1, MarksExtend, Zenon DEF IInv
<1>9. Synced'
  <2> SUFFICES ASSUME NEW n \in Nets
               PROVE  Waits(snd', n) \/ Last(n, Current(n), Len(wire) + 1)'
    BY DEF Synced
  <2>1. CASE Has(m, n)
    <3>1. Current(n)' = Current(n) /\ m.v = Current(n)
      BY <2>1 DEF Current
    <3>2. ASSUME NEW k \in 1 .. (Len(wire') + 1) - 1, Has(wire'[k], n),
                 \A l \in k + 1 .. (Len(wire') + 1) - 1 : ~Has(wire'[l], n)
          PROVE  wire'[k].v = Current(n)
      <4>1. k = Len(wire) + 1
        BY <1>1, <2>1, <3>2
      <4> QED
        BY <1>1, <3>1, <4>1
    <3>3. Len(wire) + 1 \in 1 .. (Len(wire') + 1) - 1 /\ Has(wire'[Len(wire) + 1], n)
      BY <1>1, <2>1
    <3>4. Last(n, Current(n), Len(wire) + 1)'
      BY <3>1, <3>2, <3>3 DEF Last
    <3> QED
      BY <3>4
  <2>2. CASE ~Has(m, n) /\ Waits(snd, n)
    BY <2>2
  <2>3. CASE ~Has(m, n) /\ Last(n, Current(n), Len(wire) + 1)
    BY <1>2, <1>5, <1>6, <2>3, SyncedExtends, Zenon DEF IInv
  <2> QED
    BY <2>1, <2>2, <2>3 DEF IInv, Synced
<1> QED
  BY <1>2, <1>3, <1>4, <1>7, <1>8, <1>9, Zenon DEF IInv

(* The state in which a message has been sent.                             *)
LEMMA Sending ==
  ASSUME IInv, UNCHANGED <<conf, rcv, back, log, pos>>, snd' \in Snd,
         NEW m \in Message, wire' = Append(wire, m),
         \A n \in Nets : Has(m, n) => m.at[n] = Len(log[n])
  PROVE  /\ Types' /\ Len(wire) \in Nat /\ Len(wire') = Len(wire) + 1
         /\ DOMAIN wire = 1 .. Len(wire) /\ DOMAIN wire' = 1 .. Len(wire) + 1
         /\ wire'[Len(wire) + 1] = m /\ \A k \in DOMAIN wire : wire'[k] = wire[k]
         /\ \A k \in Len(wire) + 1 .. Len(wire') : wire'[k] = m
         /\ \A n \in Nets : Extends(n)
<1>1. /\ wire' \in Seq(Message) /\ Len(wire') = Len(wire) + 1 /\ Len(wire) \in Nat
      /\ DOMAIN wire' = 1 .. Len(wire) + 1 /\ DOMAIN wire = 1 .. Len(wire)
      /\ wire'[Len(wire) + 1] = m /\ \A k \in 1 .. Len(wire) : wire'[k] = wire[k]
  BY Appended, Wire DEF IInv
<1>2. Types'
  BY <1>1 DEF IInv, Types
<1>3. \A k \in Len(wire) + 1 .. Len(wire') : wire'[k] = m
  BY <1>1
<1>4. ASSUME NEW n \in Nets PROVE Extends(n)
  <2>1. Len(log[n]) \in Nat
    BY Wire DEF IInv
  <2> QED
    BY <1>1, <1>3, <2>1 DEF Extends
<1> QED
  BY <1>1, <1>2, <1>3, <1>4, Zenon

(* A message other than End-of-RIB leaves the ends where they were.        *)
LEMMA EndsSent ==
  ASSUME IInv, rcv.up, UNCHANGED <<conf, rcv>>, Len(wire) \in Nat,
         DOMAIN wire = 1 .. Len(wire), DOMAIN wire' = 1 .. Len(wire) + 1,
         wire'[Len(wire) + 1].t # "EoR", \A k \in DOMAIN wire : wire'[k] = wire[k],
         snd'.feed_state \in {snd.feed_state, "NONE"}, snd'.feed = snd.feed,
         snd'.refeeding = snd.refeeding, snd'.feed_todo = snd.feed_todo
  PROVE  Ends'
<1>1. \A i \in DOMAIN wire' : wire'[i].t = "EoR" => i \in DOMAIN wire /\ wire[i].t = "EoR"
  OBVIOUS
<1>2. \A i \in DOMAIN wire : wire[i].t = "EoR" =>
        /\ rcv.load_state = "LOADING" /\ snd.feed_state \notin {"LOADING", "LOADED"}
        /\ ~(snd.feed = "SCHEDULED" /\ ~snd.refeeding)
        /\ \A k \in DOMAIN wire : wire[k].t = "EoR" => k = i
  BY DEF IInv, Ends
<1>3. \A i \in DOMAIN wire' : wire'[i].t = "EoR" =>
        /\ rcv'.load_state = "LOADING" /\ snd'.feed_state \notin {"LOADING", "LOADED"}
        /\ ~(snd'.feed = "SCHEDULED" /\ ~snd'.refeeding)
        /\ \A k \in DOMAIN wire' : wire'[k].t = "EoR" => k = i
  BY <1>1, <1>2
<1>4. /\ snd'.feed_state \in {"LOADING", "LOADED"} => rcv'.load_state = "LOADING"
      /\ snd'.feed = "SCHEDULED" /\ ~snd'.refeeding =>
           snd'.feed_state = "NONE" /\ (conf'.gr => rcv'.load_state = "LOADING")
      /\ snd'.feed = "ACTIVE" => snd'.feed_todo # {}
  BY DEF IInv, Ends
<1> QED
  BY <1>3, <1>4 DEF Ends

(* Transmission keeps the invariant.                                       *)
LEMMA FireTxStep ==
  ASSUME IInv, bgp_fire_tx
  PROVE  IInv'
<1>1. rcv.up /\ UNCHANGED <<conf, rcv, back, log, pos>> /\ snd \in Snd
  BY Zenon DEF bgp_fire_tx, IInv, Types
<1>2. /\ snd' \in Snd /\ Queue'
      /\ \/ FireBegin
         \/ \E px \in SUBSET Nets, v \in Values : FireUpdate(px, v)
         \/ \E t \in {"EoR", "EoRR"} : FireEnd(t)
         \/ FireNothing
  BY <1>1, FireEffect DEF IInv
<1>3. CASE FireBegin
  <2> DEFINE m == mark("BoRR", snd)
  <2>1. m \in Message /\ m.t = "BoRR" /\ \A n : ~Has(m, n)
    BY <1>1, MarkMessage
  <2>2. wire' = Append(wire, m)
    BY <1>3 DEF FireBegin
  <2> HIDE DEF m
  <2>3. /\ SameFeed(snd', snd) /\ "BoRR" \in snd.packets_to_send
        /\ \A n \in Nets : Waits(snd, n) => Waits(snd', n)
    BY <1>3 DEF FireBegin
  <2>4. /\ Types' /\ Len(wire) \in Nat /\ Len(wire') = Len(wire) + 1
        /\ DOMAIN wire = 1 .. Len(wire) /\ DOMAIN wire' = 1 .. Len(wire) + 1
        /\ wire'[Len(wire) + 1] = m /\ \A k \in DOMAIN wire : wire'[k] = wire[k]
        /\ \A k \in Len(wire) + 1 .. Len(wire') : wire'[k] = m
        /\ \A n \in Nets : Extends(n)
    BY <1>1, <1>2, <2>1, <2>2, Sending, Zenon
  <2>5. Ends'
    BY <1>1, <2>1, <2>3, <2>4, EndsSent, Zenon DEF SameFeed
  <2>6. Open'
    <3>1. \A n \in Nets : Visits(snd, n) => Visits(snd', n)
      BY <2>3 DEF Visits, SameFeed
    <3>2. \A n \in Nets : Relies(n) => Relies(n)'
      BY <2>1, <2>3, <2>4, ReliesExtend, Zenon DEF IInv, SameFeed
    <3> QED
      BY <1>1, <2>3, <3>1, <3>2, OpenKept, Zenon DEF IInv, SameFeed
  <2> QED
    BY <1>1, <1>2, <2>1, <2>2, <2>3, <2>5, <2>6, SendStep, Zenon DEF SameFeed
<1>4. ASSUME NEW px \in SUBSET Nets, NEW v \in Values, FireUpdate(px, v) PROVE IInv'
  <2> DEFINE m == update(px, v)
  <2>1. /\ m \in Message /\ m.t = "UPDATE" /\ m.px = px /\ m.v = v
        /\ \A n \in px : m.at[n] = Len(log[n])
    BY UpdateMessage DEF IInv
  <2>2. wire' = Append(wire, m)
    BY <1>4 DEF FireUpdate
  <2> HIDE DEF m
  <2>3. /\ SameFeed(snd', snd) /\ "BoRR" \notin snd.packets_to_send
        /\ "BoRR" \notin snd'.packets_to_send
        /\ \A n \in px : Exported(snd.best[n]) = v
        /\ \A n \in Nets : Waits(snd, n) => n \in px \/ Waits(snd', n)
    BY <1>4 DEF FireUpdate
  <2>4. \A n \in Nets : Has(m, n) <=> n \in px
    BY <2>1 DEF Has
  <2>5. \A n \in Nets : Has(m, n) => m.at[n] = Len(log[n]) /\ m.v = Current(n)
    BY <2>1, <2>3, <2>4, Zenon DEF IInv, Logs
  <2>6. /\ Types' /\ Len(wire) \in Nat /\ Len(wire') = Len(wire) + 1
        /\ DOMAIN wire = 1 .. Len(wire) /\ DOMAIN wire' = 1 .. Len(wire) + 1
        /\ wire'[Len(wire) + 1] = m /\ \A k \in DOMAIN wire : wire'[k] = wire[k]
        /\ \A k \in Len(wire) + 1 .. Len(wire') : wire'[k] = m
        /\ \A n \in Nets : Extends(n)
    BY <1>1, <1>2, <2>1, <2>2, <2>5, Sending, Zenon
  <2>7. Ends'
    BY <1>1, <2>1, <2>3, <2>6, EndsSent, Zenon DEF SameFeed
  <2>8. ASSUME NEW n \in px PROVE Relies(n)'
    <3>1. Has(wire'[Len(wire) + 1], n) /\ snd.begun[n] <= wire'[Len(wire) + 1].at[n]
      BY <2>4, <2>5, <2>6, Wire DEF IInv, Logs
    <3>2. Len(wire) + 1 \in 1 .. (Len(wire') + 1) - 1
      BY <2>6
    <3>3. \A l \in Len(wire) + 1 .. (Len(wire') + 1) - 1 : wire'[l].t # "BoRR"
      BY <2>1, <2>6
    <3>4. Sent(n, snd.begun[n], Len(wire) + 1)'
      BY <2>3, <3>1, <3>2, <3>3, Zenon DEF Sent, SameFeed
    <3> QED
      BY <2>3, <3>4, Zenon DEF Relies, Covered
  <2>9. Open'
    <3>1. \A n \in Nets : Visits(snd, n) => Visits(snd', n)
      BY <2>3 DEF Visits, SameFeed
    <3>2. ASSUME NEW n \in Nets, Relies(n) PROVE Relies(n)'
      <4>1. CASE n \in px
        BY <2>8, <4>1, Zenon
      <4>2. CASE n \notin px
        BY <2>1, <2>3, <2>4, <2>6, <3>2, <4>2, ReliesExtend, ZenonT(30) DEF IInv, SameFeed
      <4> QED
        BY <4>1, <4>2, Zenon
    <3> QED
      BY <1>1, <2>3, <2>8, <3>1, <3>2, OpenKept, ZenonT(30) DEF IInv, SameFeed
  <2> QED
    BY <1>1, <1>2, <2>1, <2>2, <2>3, <2>4, <2>5, <2>7, <2>9, SendStep, ZenonT(30) DEF SameFeed
<1>5. ASSUME NEW t \in {"EoR", "EoRR"}, FireEnd(t) PROVE IInv'
  <2> DEFINE m == mark(t, snd)
  <2>1. m \in Message /\ m.t = t /\ m.begun = snd.begun /\ \A n : ~Has(m, n)
    BY <1>1, MarkMessage, Zenon
  <2>2. wire' = Append(wire, m)
    BY <1>5 DEF FireEnd
  <2> HIDE DEF m
  <2>3. /\ "BoRR" \notin snd.packets_to_send
        /\ snd.feed_state = (IF t = "EoR" THEN "LOADED" ELSE "REFRESHED")
        /\ snd'.best = snd.best /\ snd'.begun = snd.begun /\ snd'.feed = snd.feed
        /\ snd'.refeeding = snd.refeeding /\ snd'.feed_todo = snd.feed_todo
        /\ snd'.feed_state = "NONE"
        /\ \A n \in Nets : ~Waits(snd, n)
    BY <1>5 DEF FireEnd
  <2>4. /\ Types' /\ Len(wire) \in Nat /\ Len(wire') = Len(wire) + 1
        /\ DOMAIN wire = 1 .. Len(wire) /\ DOMAIN wire' = 1 .. Len(wire) + 1
        /\ wire'[Len(wire) + 1] = m /\ \A k \in DOMAIN wire : wire'[k] = wire[k]
    BY <1>1, <1>2, <2>1, <2>2, Sending, Zenon
  <2>5. Ends'
    <3>1. CASE t = "EoRR"
      BY <1>1, <2>1, <2>3, <2>4, <3>1, EndsSent, Zenon
    <3>2. CASE t = "EoR"
      <4>1. /\ rcv.load_state = "LOADING" /\ ~(snd.feed = "SCHEDULED" /\ ~snd.refeeding)
            /\ \A i \in DOMAIN wire : wire[i].t # "EoR"
            /\ snd.feed = "ACTIVE" => snd.feed_todo # {}
        BY <1>1, <2>3, <3>2, Zenon DEF IInv, Ends
      <4>2. \A i \in DOMAIN wire' : wire'[i].t = "EoR" => i = Len(wire) + 1
        BY <2>4, <4>1
      <4> QED
        BY <1>1, <2>3, <4>1, <4>2, Zenon DEF Ends
    <3> QED
      BY <3>1, <3>2, Zenon
  <2>6. Open'
    BY <2>3, Zenon DEF Open
  <2>7. \A n \in Nets : Covered(n, snd.begun[n], Len(wire) + 1)
    BY <1>1, <2>3, Zenon DEF IInv, Open, Visits, Covered
  <2> QED
    BY <1>1, <1>2, <2>1, <2>2, <2>3, <2>5, <2>6, <2>7, SendStep, ZenonT(30)
<1>6. CASE FireNothing
  <2>1. /\ wire' = wire /\ SameFeed(snd', snd) /\ \A m \in Nets : ~Waits(snd, m)
        /\ snd'.packets_to_send = {} /\ "BoRR" \notin snd.packets_to_send
    BY <1>6, Zenon DEF FireNothing
  <2>2. Types'
    BY <1>1, <1>2, <2>1 DEF IInv, Types
  <2>3. Ends'
    BY <1>1, <2>1, EndsKept, Zenon DEF IInv, SameFeed
  <2>4. Open'
    <3>1. \A n \in Nets : Visits(snd, n) => Visits(snd', n)
      BY <2>1, Zenon DEF Visits, SameFeed
    <3>2. \A n \in Nets : Relies(n) => Relies(n)'
      BY <1>1, <2>1, <2>2, ReliesKept, Zenon DEF SameFeed
    <3> QED
      BY <1>1, <2>1, <3>1, <3>2, OpenKept, ZenonT(30) DEF IInv, SameFeed
  <2>5. \A n \in Nets : snd'.begun[n] \in 1 .. Len(log[n])
    BY <2>1 DEF IInv, Logs, SameFeed
  <2>6. back' \in BOOLEAN
    BY <1>1, Zenon DEF IInv, Types
  <2> QED
    BY <1>1, <1>2, <2>1, <2>3, <2>4, <2>5, <2>6, SenderStep, ZenonT(30) DEF SameFeed
<1> QED
  BY <1>2, <1>3, <1>4, <1>5, <1>6
-----------------------------------------------------------------------------
(* Reception keeps the invariant. *)

(* The session of the receiver when a message has been received.           *)
LEMMA RxSession ==
  ASSUME Types, Restart, bgp_rx, rcv.up
  PROVE  /\ rcv'.gr_timer = rcv.gr_timer
         /\ rcv.load_state = "LOADING" /\ wire[1].t # "EoR" => rcv'.load_state = "LOADING"
         /\ rcv'.load_state = "LOADING" => rcv.load_state = "LOADING" /\ wire[1].t # "EoR"
         /\ rcv.gr_active = "NONE" => rcv'.gr_active = "NONE"
         /\ wire[1].t = "EoR" => rcv'.gr_active = "NONE"
         /\ rcv'.stale_timer => rcv.stale_timer /\ rcv'.gr_active = rcv.gr_active
         /\ rcv'.load_state = "LOADING" =>
              /\ rcv'.gr_active = rcv.gr_active
              /\ \A n \in Nets : rcv'.rib[n].stale => rcv.rib[n].stale
<1> DEFINE m == Head(wire)
<1>1. wire # << >> /\ wire \in Seq(Message) /\ rcv \in Rcv
  BY DEF bgp_rx, Types
<1>2. m = wire[1]
  BY <1>1
<1>3. \/ m.t = "UPDATE" /\ bgp_rx_update(m)
      \/ m.t = "BoRR" /\ rcv' = bgp_refresh_begin(rcv)
      \/ m.t = "EoRR" /\ rcv' = bgp_refresh_end(rcv)
      \/ m.t = "EoR" /\ rcv' = bgp_rx_end_mark(rcv)
  BY Zenon DEF bgp_rx
<1> HIDE DEF m
<1>4. CASE m.t = "UPDATE" /\ bgp_rx_update(m)
  <2> DEFINE f == [n \in Nets |->
                    IF n \in m.px THEN [v |-> m.v, stale |-> FALSE] ELSE rcv.rib[n]]
  <2>1. rcv' = [rcv EXCEPT !.rib = f]
    BY <1>1, <1>4, Zenon DEF bgp_rx_update, Rcv
  <2>2. \A n \in Nets : f[n].stale => rcv.rib[n].stale
    OBVIOUS
  <2> HIDE DEF f
  <2>3. SameSession(rcv', rcv) /\ rcv'.rib = f
    BY <1>1, <2>1, Zenon DEF Rcv, SameSession
  <2> QED
    BY <1>2, <1>4, <2>2, <2>3, Zenon DEF SameSession
<1>5. CASE m.t = "BoRR" /\ rcv' = bgp_refresh_begin(rcv)
  <2>1. CASE rcv.load_state = "LOADING"
    BY <1>2, <1>5, <2>1, Zenon DEF bgp_refresh_begin
  <2>2. CASE rcv.load_state # "LOADING"
    <3> DEFINE q == [rcv EXCEPT !.load_state = "REFRESHING"]
    <3>1. /\ q \in Rcv /\ q.load_state = "REFRESHING" /\ q.gr_timer = rcv.gr_timer
          /\ q.gr_active = rcv.gr_active /\ q.stale_timer = rcv.stale_timer
      BY <1>1 DEF Rcv, FeedStates
    <3>2. rcv' = rt_refresh_begin(q)
      BY <1>5, <2>2, Zenon DEF bgp_refresh_begin
    <3> HIDE DEF q
    <3>3. SameSession(rcv', q)
      BY <3>1, <3>2, RefreshBegin, Zenon
    <3> QED
      BY <1>2, <1>5, <2>2, <3>1, <3>3, Zenon DEF SameSession
  <2> QED
    BY <2>1, <2>2
<1>6. CASE m.t = "EoRR" /\ rcv' = bgp_refresh_end(rcv)
  <2>1. CASE rcv.load_state # "REFRESHING"
    BY <1>2, <1>6, <2>1, Zenon DEF bgp_refresh_end
  <2>2. CASE rcv.load_state = "REFRESHING"
    <3> DEFINE q == [rcv EXCEPT !.load_state = "NONE"]
    <3>1. /\ q \in Rcv /\ q.load_state = "NONE" /\ q.gr_timer = rcv.gr_timer
          /\ q.gr_active = rcv.gr_active /\ q.stale_timer = rcv.stale_timer
      BY <1>1 DEF Rcv, FeedStates
    <3>2. rcv' = rt_refresh_end(q)
      BY <1>6, <2>2, Zenon DEF bgp_refresh_end
    <3> HIDE DEF q
    <3>3. SameSession(rcv', q)
      BY <3>1, <3>2, RefreshEnd, Zenon
    <3> QED
      BY <1>2, <1>6, <2>2, <3>1, <3>3, Zenon DEF SameSession
  <2> QED
    BY <2>1, <2>2
<1>7. CASE m.t = "EoR" /\ rcv' = bgp_rx_end_mark(rcv)
  <2> DEFINE l == IF rcv.load_state = "LOADING" THEN "NONE" ELSE rcv.load_state
             q == [rcv EXCEPT !.load_state = l]
  <2>1. l \in FeedStates /\ l # "LOADING"
    BY <1>1 DEF Rcv, FeedStates
  <2>2. rcv' = IF rcv.gr_active # "NONE" THEN bgp_graceful_restart_done(q) ELSE q
    BY <1>1, <1>7 DEF bgp_rx_end_mark, Rcv
  <2> HIDE DEF l
  <2>3. /\ q \in Rcv /\ q.load_state = l /\ q.gr_timer = rcv.gr_timer
        /\ q.gr_active = rcv.gr_active /\ q.stale_timer = rcv.stale_timer
    BY <1>1, <2>1, Zenon DEF Rcv
  <2> HIDE DEF q
  <2>4. CASE rcv.gr_active = "NONE"
    BY <1>2, <1>7, <2>1, <2>2, <2>3, <2>4, ZenonT(30)
  <2>5. CASE rcv.gr_active # "NONE"
    <3>1. rcv' = bgp_graceful_restart_done(q)
      BY <2>2, <2>5, Zenon
    <3>2. /\ rcv'.load_state = q.load_state /\ rcv'.gr_timer = q.gr_timer
          /\ rcv'.gr_active = "NONE" /\ ~rcv'.stale_timer
      BY <2>3, <3>1, RestartDone, Zenon
    <3> QED
      BY <1>2, <1>7, <2>1, <2>3, <3>2, Zenon
  <2> QED
    BY <2>4, <2>5, Zenon
<1> QED
  BY <1>3, <1>4, <1>5, <1>6, <1>7, Zenon

(* A route that an end mark drops is not overtaken: the receiver gets to a *)
(* withdrawal that all updates in flight come after.                       *)
LEMMA LostSound ==
  ASSUME IInv, bgp_rx, NEW n \in Nets, Lost(n)
  PROVE  /\ pos'[n] \in pos[n] .. Len(log[n]) /\ log[n][pos'[n]] = None
         /\ wire[1].begun[n] <= Len(log[n])
         /\ \E j \in wire[1].begun[n] .. Len(log[n]) : log[n][j] = None
         /\ \A k \in DOMAIN wire : Has(wire[k], n) => pos'[n] <= wire[k].at[n]
<1> DEFINE b == wire[1].begun[n]
<1>1. wire # << >> /\ wire[1] \in Message
  BY RxEffect DEF IInv
<1>2. /\ Len(wire) \in Nat /\ DOMAIN wire = 1 .. Len(wire) /\ 1 \in DOMAIN wire
      /\ Len(log[n]) \in Nat /\ pos[n] \in Nat
  BY <1>1, Wire, EmptyOf, SeqOf DEF IInv, Types
<1>3. b \in Nat \ {0}
  BY <1>1 DEF Message, Lost
<1>4. Covered(n, b, 1)
  BY <1>2, Zenon DEF IInv, Marks, Lost
<1>5. ~Sent(n, b, 1) /\ ~Arrived(n, b, 1)
  BY DEF Sent, Arrived, Lost
<1>6. PICK j \in b .. Len(log[n]) :
        /\ log[n][j] = None /\ pos[n] <= j
        /\ \A k \in DOMAIN wire : Has(wire[k], n) =>
             IF k < 1 THEN wire[k].at[n] <= j ELSE j <= wire[k].at[n]
  BY <1>4, <1>5, Zenon DEF Covered, Gone
<1>7. j \in pos[n] .. Len(log[n])
  BY <1>2, <1>3, <1>6
<1>8. j \in Unseen(n)
  BY <1>2, <1>6, <1>7, UnseenIs
<1>9. pos'[n] \in Unseen(n)
  BY <1>8, DroppedPos, Zenon DEF Lost
<1>10. b <= Len(log[n])
  BY <1>2, <1>3, <1>6
<1> QED
  BY <1>6, <1>9, <1>10, UnseenIs, Zenon

(* Reception keeps the invariant.                                          *)
LEMMA RxStep ==
  ASSUME IInv, bgp_rx
  PROVE  IInv'
<1>1. /\ wire # << >> /\ wire' = Tail(wire) /\ wire[1] \in Message
      /\ rcv' \in Rcv /\ rcv'.up = rcv.up
      /\ pos' \in [Nets -> Nat]
      /\ \A n \in Nets : Taken(n) \/ Left(n) \/ Marked(n) \/ Lost(n)
  BY RxEffect, Zenon DEF IInv
<1>2. UNCHANGED <<conf, snd, back, log>> /\ rcv.up
  BY <1>1, Zenon DEF bgp_rx, IInv, Down
<1>3. /\ wire' \in Seq(Message) /\ Len(wire) \in Nat \ {0} /\ Len(wire') = Len(wire) - 1
      /\ DOMAIN wire = 1 .. Len(wire) /\ DOMAIN wire' = 1 .. Len(wire) - 1
      /\ \A k \in 1 .. Len(wire) - 1 : wire'[k] = wire[k + 1]
  BY <1>1, Shifted, Zenon DEF IInv
<1>4. \A n \in Nets : Len(log[n]) \in Nat /\ pos[n] \in Nat /\ pos[n] \in 1 .. Len(log[n])
  BY Wire, Zenon DEF IInv, Logs
<1>5. Types'
  BY <1>1, <1>2, <1>3, Zenon DEF IInv, Types
<1>6. ASSUME NEW n \in Nets
      PROVE  /\ pos'[n] \in pos[n] .. Len(log[n])
             /\ \A k \in DOMAIN wire : Has(wire[k], n) => pos'[n] <= wire[k].at[n]
  <2>1. \A k \in DOMAIN wire : Has(wire[k], n) =>
          /\ wire[k].at[n] \in pos[n] .. Len(log[n])
          /\ Has(wire[1], n) => wire[1].at[n] <= wire[k].at[n]
    BY <1>3, SMTT(30) DEF IInv, Updates
  <2>2. CASE Taken(n)
    <3>1. 1 \in DOMAIN wire /\ Has(wire[1], n) /\ pos'[n] = wire[1].at[n]
      BY <1>3, <2>2 DEF Taken
    <3> QED
      BY <2>1, <3>1
  <2>3. CASE Left(n) \/ Marked(n)
    <3>1. pos'[n] = pos[n]
      BY <2>3, Zenon DEF Left, Marked
    <3> QED
      BY <1>4, <2>1, <3>1
  <2>4. CASE Lost(n)
    BY <2>4, LostSound, Zenon
  <2> QED
    BY <1>1, <2>2, <2>3, <2>4, Zenon
<1>7. Logs'
  <2> SUFFICES ASSUME NEW n \in Nets
               PROVE  /\ pos'[n] \in 1 .. Len(log'[n]) /\ snd'.begun[n] \in 1 .. Len(log'[n])
                      /\ Current(n)' = Exported(snd'.best[n])
    BY DEF Logs
  <2>1. Current(n)' = Current(n)
    BY <1>2 DEF Current
  <2>2. pos'[n] \in 1 .. Len(log[n])
    BY <1>4, <1>6
  <2> QED
    BY <1>2, <2>1, <2>2, Zenon DEF IInv, Logs
<1>8. /\ rcv'.gr_timer = rcv.gr_timer
      /\ rcv.load_state = "LOADING" /\ wire[1].t # "EoR" => rcv'.load_state = "LOADING"
      /\ rcv'.load_state = "LOADING" => rcv.load_state = "LOADING" /\ wire[1].t # "EoR"
      /\ rcv.gr_active = "NONE" => rcv'.gr_active = "NONE"
      /\ wire[1].t = "EoR" => rcv'.gr_active = "NONE"
      /\ rcv'.stale_timer => rcv.stale_timer /\ rcv'.gr_active = rcv.gr_active
      /\ rcv'.load_state = "LOADING" =>
           /\ rcv'.gr_active = rcv.gr_active
           /\ \A n \in Nets : rcv'.rib[n].stale => rcv.rib[n].stale
  BY <1>2, RxSession, Zenon DEF IInv
<1>9. Down' /\ Restart'
  BY <1>1, <1>2, <1>8, ZenonT(30) DEF IInv, Down, Restart
<1>10. Ends'
  <2>1. \A i \in DOMAIN wire : wire[i].t = "EoR" =>
          /\ rcv.load_state = "LOADING" /\ snd.feed_state \notin {"LOADING", "LOADED"}
          /\ ~(snd.feed = "SCHEDULED" /\ ~snd.refeeding)
          /\ \A k \in DOMAIN wire : wire[k].t = "EoR" => k = i
    BY <1>2, Zenon DEF IInv, Ends
  <2>2. \A i \in DOMAIN wire' : i + 1 \in DOMAIN wire /\ i + 1 # 1 /\ wire'[i] = wire[i + 1]
    BY <1>3
  <2>3. 1 \in DOMAIN wire
    BY <1>3
  <2>4. ASSUME NEW i \in DOMAIN wire', wire'[i].t = "EoR"
        PROVE  /\ rcv'.load_state = "LOADING" /\ snd'.feed_state \notin {"LOADING", "LOADED"}
               /\ ~(snd'.feed = "SCHEDULED" /\ ~snd'.refeeding)
               /\ \A k \in DOMAIN wire' : wire'[k].t = "EoR" => k = i
    <3>1. wire[i + 1].t = "EoR" /\ wire[1].t # "EoR"
      BY <2>1, <2>2, <2>3, <2>4, Zenon
    <3>2. rcv'.load_state = "LOADING"
      BY <1>8, <2>1, <2>2, <3>1, Zenon
    <3>3. \A k \in DOMAIN wire' : wire'[k].t = "EoR" => k + 1 = i + 1
      BY <2>1, <2>2, <3>1, Zenon
    <3>4. \A k \in DOMAIN wire' : wire'[k].t = "EoR" => k = i
      BY <1>3, <3>3
    <3> QED
      BY <1>2, <2>1, <2>2, <3>1, <3>2, <3>4, Zenon
  <2>5. /\ snd.feed_state \in {"LOADING", "LOADED"} => rcv'.load_state = "LOADING"
        /\ snd.feed = "SCHEDULED" /\ ~snd.refeeding =>
             snd.feed_state = "NONE" /\ (conf.gr => rcv'.load_state = "LOADING")
        /\ snd.feed = "ACTIVE" => snd.feed_todo # {}
    <3>1. /\ snd.feed_state \in {"LOADING", "LOADED"} => rcv.load_state = "LOADING"
          /\ snd.feed = "SCHEDULED" /\ ~snd.refeeding =>
               snd.feed_state = "NONE" /\ (conf.gr => rcv.load_state = "LOADING")
          /\ snd.feed = "ACTIVE" => snd.feed_todo # {}
      BY <1>2, Zenon DEF IInv, Ends
    <3> QED
      BY <1>8, <2>1, <2>3, <3>1, Zenon
  <2> QED
    BY <1>2, <2>4, <2>5, Zenon DEF Ends
<1>11. Queue'
  BY <1>2, Zenon DEF IInv, Queue, Bucketed
<1>12. Updates'
  <2> SUFFICES ASSUME NEW n \in Nets, NEW i \in DOMAIN wire', Has(wire'[i], n)
               PROVE  /\ wire'[i].at[n] \in pos'[n] .. Len(log'[n])
                      /\ log'[n][wire'[i].at[n]] = wire'[i].v
                      /\ \A k \in DOMAIN wire' :
                           i <= k /\ Has(wire'[k], n) => wire'[i].at[n] <= wire'[k].at[n]
    BY DEF Updates
  <2>1. \A k \in DOMAIN wire' : k + 1 \in DOMAIN wire /\ wire'[k] = wire[k + 1]
    BY <1>3
  <2>2. /\ wire[i + 1].at[n] \in pos[n] .. Len(log[n])
        /\ log[n][wire[i + 1].at[n]] = wire[i + 1].v
        /\ \A k \in DOMAIN wire :
             i + 1 <= k /\ Has(wire[k], n) => wire[i + 1].at[n] <= wire[k].at[n]
    BY <2>1, Zenon DEF IInv, Updates
  <2>3. pos'[n] <= wire[i + 1].at[n] /\ pos'[n] \in pos[n] .. Len(log[n])
    BY <1>6, <2>1, Zenon
  <2>4. wire[i + 1].at[n] \in pos'[n] .. Len(log[n])
    <3>1. pos[n] \in Nat /\ Len(log[n]) \in Nat
      BY <1>4, Zenon
    <3> QED
      BY <2>2, <2>3, <3>1
  <2>5. ASSUME NEW k \in DOMAIN wire', i <= k, Has(wire'[k], n)
        PROVE  wire'[i].at[n] <= wire'[k].at[n]
    <3>1. k + 1 \in DOMAIN wire /\ i + 1 <= k + 1
      BY <1>3, <2>1, <2>5
    <3> QED
      BY <2>1, <2>2, <2>5, <3>1, Zenon
  <2> QED
    BY <1>2, <2>1, <2>2, <2>4, <2>5, Zenon
<1>13. /\ Len(wire) + 1 \in 2 .. Len(wire) + 1 /\ (Len(wire) + 1) - 1 = Len(wire') + 1
  BY <1>3
<1>14. Synced'
  <2> SUFFICES ASSUME NEW n \in Nets, ~Waits(snd, n)
               PROVE  Last(n, Current(n), Len(wire) + 1)'
    BY <1>2 DEF Synced
  <2>1. Last(n, Current(n), Len(wire) + 1)
    BY <1>2, Zenon DEF IInv, Synced
  <2>2. ASSUME NEW v, NEW i, v = Current(n), i = Len(wire) + 1 PROVE Last(n, v, i - 1)'
    BY <1>13, <2>1, <2>2, LastShifts, Zenon DEF IInv
  <2>3. Current(n)' = Current(n)
    BY <1>2, Zenon DEF Current
  <2> QED
    BY <1>13, <2>2, <2>3, Zenon
<1>15. Marks'
  <2> SUFFICES ASSUME NEW i \in DOMAIN wire', wire'[i].t \in {"EoR", "EoRR"}, NEW n \in Nets,
                      NEW b, b = wire'[i].begun[n]
               PROVE  Covered(n, b, i)'
    BY DEF Marks
  <2>1. /\ i + 1 \in DOMAIN wire /\ wire'[i] = wire[i + 1]
        /\ i + 1 \in 2 .. Len(wire) + 1 /\ (i + 1) - 1 = i
    BY <1>3
  <2>2. wire[i + 1] \in Message
    BY <2>1, SeqOf, Zenon DEF IInv, Types
  <2>3. b \in Nat \ {0}
    BY <2>1, <2>2, Zenon DEF Message
  <2>4. Covered(n, b, i + 1)
    BY <2>1 DEF IInv, Marks
  <2>5. ASSUME NEW j, j = i + 1 PROVE Covered(n, b, j - 1)'
    BY <2>1, <2>3, <2>4, <2>5, CoveredShifts, Zenon DEF IInv
  <2> QED
    BY <2>1, <2>5, Zenon
<1>16. Open'
  <2>1. ASSUME NEW n \in Nets, Relies(n) PROVE Relies(n)'
    <3>1. snd.begun[n] \in Nat \ {0}
      BY Zenon DEF IInv, Types, Snd
    <3>2. ASSUME NEW b, NEW i, b = snd.begun[n], i = Len(wire) + 1 PROVE Relies(n)'
      <4>1. CASE Gone(n, b, i)
        <5>1. Gone(n, b, i - 1)'
          BY <1>13, <3>1, <3>2, <4>1, GoneShifts, Zenon DEF IInv
        <5> QED
          BY <1>2, <1>13, <3>2, <5>1, Zenon DEF Relies
      <4>2. CASE "BoRR" \notin snd.packets_to_send /\ Covered(n, b, i)
        <5>1. Covered(n, b, i - 1)'
          BY <1>13, <3>1, <3>2, <4>2, CoveredShifts, Zenon DEF IInv
        <5> QED
          BY <1>2, <1>13, <3>2, <4>2, <5>1, Zenon DEF Relies
      <4> QED
        BY <2>1, <3>2, <4>1, <4>2, Zenon DEF Relies
    <3> QED
      BY <3>2
  <2> QED
    BY <1>1, <1>2, <2>1, OpenKept, Zenon DEF IInv
<1> QED
  BY <1>5, <1>7, <1>9, <1>10, <1>11, <1>12, <1>14, <1>15, <1>16, ZenonT(30) DEF IInv
-----------------------------------------------------------------------------
(* Timers, requests and sessions keep the invariant. *)

(* The receiver may lose stale routes, and knows what it waits for.        *)
LEMMA ReceiverStep ==
  ASSUME IInv, UNCHANGED <<conf, snd, wire, log, pos>>, back' \in BOOLEAN, rcv' \in Rcv,
         rcv.up, rcv'.up, rcv'.load_state = rcv.load_state, Restart',
         \A n \in Nets : \/ rcv'.rib[n] = rcv.rib[n]
                         \/ rcv.rib[n].stale /\ rcv'.rib[n] = NoRoute
  PROVE  IInv'
<1>1. Types'
  BY Zenon DEF IInv, Types
<1>2. Logs' /\ Down' /\ Queue'
  BY DEF IInv, Logs, Current, Down, Queue, Bucketed
<1>3. Ends'
  BY EndsKept DEF IInv
<1>4. Len(wire') = Len(wire) /\ Len(wire) \in Nat
  BY Wire, Zenon DEF IInv
<1>5. \A n \in Nets : Extends(n)
  BY SameWire, Zenon DEF IInv
<1>6. Updates' /\ Marks'
  BY <1>1, <1>4, <1>5, UpdatesExtend, MarksExtend, SMTT(30) DEF IInv
<1>7. Synced'
  <2> SUFFICES ASSUME NEW n \in Nets
               PROVE  Waits(snd', n) \/ Last(n, Current(n), Len(wire) + 1)'
    BY DEF Synced
  <2>1. CASE Waits(snd, n)
    BY <2>1, Zenon
  <2>2. CASE Last(n, Current(n), Len(wire) + 1)
    BY <1>1, <1>4, <1>5, <2>2, SyncedExtends, SMTT(30) DEF IInv
  <2> QED
    BY <2>1, <2>2, Zenon DEF IInv, Synced
<1>8. Open'
  <2>1. \A n \in Nets : Relies(n) => Relies(n)'
    BY <1>1, <1>4, <1>5, ReliesExtend, SMTT(30) DEF IInv
  <2> QED
    BY <2>1, OpenKept, Zenon DEF IInv
<1> QED
  BY <1>1, <1>2, <1>3, <1>6, <1>7, <1>8, Zenon DEF IInv

(* Without a session there is little to show.                              *)
LEMMA DownStep ==
  ASSUME IInv, UNCHANGED <<conf, log, pos>>, rcv' \in Rcv, ~rcv'.up,
         snd' \in Snd, snd'.best = snd.best, snd'.begun = snd.begun, snd'.feed = "NONE",
         snd'.withdraw_bucket = {}, snd'.buckets = << >>,
         wire' = << >>, back' = FALSE, Restart',
         \A n \in Nets : rcv'.rib[n].v = None \/ rcv'.rib[n].stale
  PROVE  IInv'
<1>1. Types'
  BY EmptyOf, SeqOf, Zenon DEF IInv, Types
<1>2. Logs' /\ Down'
  BY Zenon DEF IInv, Logs, Current, Down
<1>3. Queue'
  BY SMTT(30) DEF Queue, Bucketed
<1>4. Ends' /\ Updates' /\ Marks' /\ Open'
  BY NoMessages DEF Ends, Open
<1> QED
  BY <1>1, <1>2, <1>3, <1>4, Zenon DEF IInv

(* A receiver that asks for a refresh keeps the invariant.                 *)
LEMMA RequestStep ==
  ASSUME IInv, bgp_reload_routes \/ SendRouteRefresh
  PROVE  IInv'
<1>1. /\ rcv.up /\ UNCHANGED <<conf, snd, wire, log, pos>> /\ back' \in BOOLEAN
      /\ rcv \in Rcv /\ \E b \in BOOLEAN : rcv' = [rcv EXCEPT !.refresh = b]
  BY Zenon DEF bgp_reload_routes, SendRouteRefresh, IInv, Types
<1>2. /\ rcv' \in Rcv /\ rcv'.up = rcv.up /\ rcv'.load_state = rcv.load_state
      /\ rcv'.gr_active = rcv.gr_active /\ rcv'.gr_timer = rcv.gr_timer
      /\ rcv'.stale_timer = rcv.stale_timer /\ rcv'.rib = rcv.rib
  BY <1>1, Zenon DEF Rcv
<1>3. Restart'
  BY <1>1, <1>2 DEF IInv, Restart
<1> QED
  BY <1>1, <1>2, <1>3, ReceiverStep, Zenon

(* The end of the restart time keeps the invariant: the routes are         *)
(* flushed, or dropped, or they wait for the stale timer.                  *)
LEMMA RestartTimeoutStep ==
  ASSUME IInv, bgp_graceful_restart_timeout
  PROVE  IInv'
<1> DEFINE r == [rcv EXCEPT !.gr_timer = FALSE]
<1>1. /\ rcv.gr_timer /\ UNCHANGED <<conf, snd, wire, back, log, pos>>
      /\ rcv \in Rcv /\ snd \in Snd /\ back \in BOOLEAN
  BY Zenon DEF bgp_graceful_restart_timeout, IInv, Types
<1>2. /\ r \in Rcv /\ r.up = rcv.up /\ ~r.gr_timer /\ r.rib = rcv.rib
      /\ r.gr_active = rcv.gr_active /\ r.stale_timer = rcv.stale_timer
      /\ r.load_state = rcv.load_state
  BY <1>1, Zenon DEF Rcv
<1>3. \/ rcv' = Flushed /\ ~conf.llgr
      \/ rcv' = r
      \/ rcv' = bgp_graceful_restart_done(r) /\ r.gr_active = "ACTIVE"
      \/ /\ rcv' = [r EXCEPT !.gr_active = "LLGR", !.stale_timer = TRUE]
         /\ r.gr_active = "ACTIVE" /\ conf.llgr
  BY Zenon DEF bgp_graceful_restart_timeout
<1> HIDE DEF r
<1>4. CASE rcv' = r
  <2>1. Restart'
    BY <1>1, <1>2, <1>4, Zenon DEF IInv, Restart
  <2>2. CASE rcv.up
    BY <1>1, <1>2, <1>4, <2>1, <2>2, ReceiverStep, Zenon
  <2>3. CASE ~rcv.up
    BY <1>1, <1>2, <1>4, <2>1, <2>3, DownStep, Zenon DEF IInv, Down
  <2> QED
    BY <2>2, <2>3
<1>5. CASE rcv' # r
  <2>1. ~rcv.up
    BY <1>1, <1>2, <1>3, <1>5, Zenon DEF IInv, Restart
  <2>2. /\ wire = << >> /\ ~back /\ snd.feed = "NONE"
        /\ snd.withdraw_bucket = {} /\ snd.buckets = << >>
        /\ \A n \in Nets : rcv.rib[n].v = None \/ rcv.rib[n].stale
    BY <2>1, Zenon DEF IInv, Down
  <2>3. back' = FALSE
    BY <1>1, <2>2
  <2>4. /\ rcv.gr_active # "NONE" => conf.gr
        /\ rcv.stale_timer => rcv.gr_active # "NONE" /\ conf.llgr
        /\ \A n \in Nets : rcv.rib[n].stale => rcv.gr_active # "NONE"
    BY <2>1, Zenon DEF IInv, Restart
  <2>5. CASE rcv' = Flushed
    <3>1. Restart' /\ \A n \in Nets : rcv'.rib[n].v = None \/ rcv'.rib[n].stale
      BY <2>5, FlushedState DEF Restart, NoRoute
    <3> QED
      BY <1>1, <2>2, <2>3, <2>5, <3>1, FlushedState, DownStep, ZenonT(30)
  <2>6. CASE rcv' = bgp_graceful_restart_done(r)
    <3>1. /\ rcv' \in Rcv /\ rcv'.up = r.up
          /\ rcv'.gr_timer = r.gr_timer /\ rcv'.gr_active = "NONE" /\ ~rcv'.stale_timer
          /\ \A n \in Nets : rcv'.rib[n] = IF r.rib[n].stale THEN NoRoute ELSE r.rib[n]
      BY <1>2, <2>6, RestartDone
    <3>2. \A n \in Nets : rcv'.rib[n].v = None /\ ~rcv'.rib[n].stale
      BY <1>2, <2>2, <3>1 DEF NoRoute
    <3>3. Restart'
      BY <1>2, <3>1, <3>2, Zenon DEF Restart
    <3> QED
      BY <1>1, <1>2, <2>1, <2>2, <2>3, <3>1, <3>2, <3>3, DownStep, ZenonT(30)
  <2>7. CASE /\ rcv' = [r EXCEPT !.gr_active = "LLGR", !.stale_timer = TRUE]
             /\ r.gr_active = "ACTIVE" /\ conf.llgr
    <3>1. /\ rcv' \in Rcv /\ rcv'.up = r.up /\ ~rcv'.gr_timer /\ rcv'.rib = r.rib
          /\ rcv'.gr_active = "LLGR"
      BY <1>2, <2>7, Zenon DEF Rcv
    <3>2. Restart'
      BY <1>1, <1>2, <2>1, <2>4, <2>7, <3>1, Zenon DEF Restart
    <3> QED
      BY <1>1, <1>2, <2>1, <2>2, <2>3, <3>1, <3>2, DownStep, Zenon
  <2> QED
    BY <1>3, <1>5, <2>5, <2>6, <2>7
<1> QED
  BY <1>4, <1>5

(* The end of the stale time keeps the invariant: the stale routes are     *)
(* dropped.                                                                *)
LEMMA StaleTimeoutStep ==
  ASSUME IInv, bgp_long_lived_stale_timeout
  PROVE  IInv'
<1>1. /\ rcv' = bgp_graceful_restart_done(rcv) /\ UNCHANGED <<conf, snd, wire, back, log, pos>>
      /\ rcv.stale_timer /\ rcv \in Rcv /\ snd \in Snd /\ back \in BOOLEAN
  BY DEF bgp_long_lived_stale_timeout, IInv, Types
<1>2. /\ rcv' \in Rcv /\ rcv'.up = rcv.up /\ rcv'.load_state = rcv.load_state
      /\ rcv'.gr_timer = rcv.gr_timer /\ rcv'.gr_active = "NONE" /\ ~rcv'.stale_timer
      /\ \A n \in Nets : rcv'.rib[n] = IF rcv.rib[n].stale THEN NoRoute ELSE rcv.rib[n]
  BY <1>1, RestartDone
<1>3. ~NoRoute.stale /\ NoRoute.v = None
  BY Zenon DEF NoRoute
<1>4. Restart'
  <2>1. \A n \in Nets : ~rcv'.rib[n].stale
    BY <1>2, <1>3, Zenon
  <2> QED
    BY <1>1, <1>2, <2>1, Zenon DEF IInv, Restart
<1>5. CASE rcv.up
  BY <1>1, <1>2, <1>4, <1>5, ReceiverStep, Zenon
<1>6. CASE ~rcv.up
  <2>1. /\ wire = << >> /\ ~back /\ snd.feed = "NONE"
        /\ snd.withdraw_bucket = {} /\ snd.buckets = << >>
        /\ \A n \in Nets : rcv.rib[n].v = None \/ rcv.rib[n].stale
    BY <1>6, Zenon DEF IInv, Down
  <2>2. \A n \in Nets : rcv'.rib[n].v = None
    BY <1>2, <1>3, <2>1, Zenon
  <2>3. back' = FALSE
    BY <1>1, <2>1, Zenon
  <2> QED
    BY <1>1, <1>2, <1>4, <1>6, <2>1, <2>2, <2>3, DownStep, Zenon
<1> QED
  BY <1>5, <1>6, Zenon

(* The loss of a session keeps the invariant: what was on its way is       *)
(* lost, and all routes become stale or are flushed.                       *)
LEMMA SessionLostStep ==
  ASSUME IInv, SessionLost
  PROVE  IInv'
<1>1. /\ snd' = [snd EXCEPT !.withdraw_bucket = {}, !.buckets = << >>,
                            !.packets_to_send = {}, !.feed = "NONE", !.feed_todo = {}]
      /\ rcv' = IF conf.gr THEN bgp_handle_graceful_restart(rcv) ELSE Flushed
      /\ wire' = << >> /\ back' = FALSE /\ UNCHANGED <<conf, log, pos>>
      /\ rcv \in Rcv /\ snd \in Snd
  BY DEF SessionLost, IInv, Types
<1>2. /\ snd' \in Snd /\ snd'.best = snd.best /\ snd'.begun = snd.begun /\ snd'.feed = "NONE"
      /\ snd'.withdraw_bucket = {} /\ snd'.buckets = << >>
  <2>1. << >> \in Seq(Bucket)
    BY EmptyOf, SeqOf
  <2> QED
    BY <1>1, <2>1, Zenon DEF Snd
<1>3. CASE ~conf.gr
  <2>1. rcv' = Flushed
    BY <1>1, <1>3, Zenon
  <2>2. Restart' /\ \A n \in Nets : rcv'.rib[n].v = None
    BY <2>1, FlushedState DEF Restart, NoRoute
  <2> QED
    BY <1>1, <1>2, <2>1, <2>2, FlushedState, DownStep, Zenon
<1>4. CASE conf.gr
  <2>1. rcv' = bgp_handle_graceful_restart(rcv)
    BY <1>1, <1>4, Zenon
  <2>2. /\ rcv' \in Rcv /\ ~rcv'.up /\ rcv'.gr_active # "NONE"
        /\ rcv'.stale_timer = rcv.stale_timer
        /\ \A n \in Nets : rcv'.rib[n].v = None \/ rcv'.rib[n].stale
    BY <1>1, <2>1, RestartBegun, Zenon
  <2>3. Restart'
    BY <1>1, <1>4, <2>2, Zenon DEF IInv, Restart
  <2> QED
    BY <1>1, <1>2, <2>2, <2>3, DownStep, Zenon
<1> QED
  BY <1>3, <1>4

(* A new session keeps the invariant: a feed of everything is scheduled.   *)
LEMMA EstablishedStep ==
  ASSUME IInv, NEW f \in BOOLEAN, bgp_conn_enter_established_state(f)
  PROVE  IInv'
<1> DEFINE l == IF conf.gr THEN "LOADING" ELSE "NONE"
           r == [rcv EXCEPT !.up = TRUE, !.gr_timer = @ /\ rcv.gr_active = "NONE",
                            !.load_state = l]
<1>1. /\ ~rcv.up
      /\ snd' = [snd EXCEPT !.feed = "SCHEDULED", !.refeeding = FALSE, !.feed_state = "NONE"]
      /\ rcv' = IF r.gr_active # "NONE" /\ ~f THEN bgp_graceful_restart_done(r) ELSE r
      /\ UNCHANGED <<conf, wire, back, log, pos>>
      /\ rcv \in Rcv /\ snd \in Snd /\ back \in BOOLEAN
  BY DEF bgp_conn_enter_established_state, IInv, Types
<1>2. /\ wire = << >> /\ snd.withdraw_bucket = {} /\ snd.buckets = << >>
      /\ \A n \in Nets : rcv.rib[n].v = None \/ rcv.rib[n].stale
  BY <1>1 DEF IInv, Down
<1>3. /\ rcv.gr_active # "NONE" => conf.gr
      /\ rcv.stale_timer => rcv.gr_active # "NONE" /\ conf.llgr
      /\ rcv.gr_timer /\ rcv.gr_active = "NONE" => conf.llgr
      /\ \A n \in Nets : rcv.rib[n].stale => rcv.gr_active # "NONE"
  BY <1>1, Zenon DEF IInv, Restart
<1>4. l \in FeedStates /\ (conf.gr => l = "LOADING")
  BY DEF FeedStates
<1> HIDE DEF l
<1>5. /\ r \in Rcv /\ r.up /\ r.load_state = l /\ r.rib = rcv.rib
      /\ r.gr_timer => conf.llgr /\ r.gr_active = "NONE"
      /\ r.gr_active = rcv.gr_active /\ r.stale_timer = rcv.stale_timer
  BY <1>1, <1>3, <1>4, Zenon DEF Rcv
<1> HIDE DEF r
<1>6. /\ rcv' \in Rcv /\ rcv'.up /\ rcv'.load_state = l
      /\ rcv'.gr_timer => conf.llgr /\ rcv'.gr_active = "NONE"
      /\ rcv'.gr_active # "NONE" => rcv'.gr_active = rcv.gr_active
      /\ rcv'.stale_timer => rcv'.gr_active # "NONE" /\ conf.llgr
      /\ \A n \in Nets : /\ rcv'.rib[n].v = None \/ rcv'.rib[n].stale
                         /\ rcv'.rib[n].stale => rcv'.gr_active # "NONE"
  <2>1. CASE r.gr_active # "NONE" /\ ~f
    <3>1. rcv' = bgp_graceful_restart_done(r)
      BY <1>1, <2>1, Zenon
    <3>2. /\ rcv' \in Rcv /\ rcv'.up = r.up /\ rcv'.load_state = r.load_state
          /\ rcv'.gr_timer = r.gr_timer /\ rcv'.gr_active = "NONE" /\ ~rcv'.stale_timer
          /\ \A n \in Nets : rcv'.rib[n] = IF r.rib[n].stale THEN NoRoute ELSE r.rib[n]
      <4>1. r \in Rcv
        BY <1>5
      <4> QED
        BY <3>1, <4>1, RestartDone, Zenon
    <3>3. NoRoute.v = None /\ ~NoRoute.stale
      BY Zenon DEF NoRoute
    <3>4. \A n \in Nets : rcv'.rib[n].v = None /\ ~rcv'.rib[n].stale
      BY <1>2, <1>5, <3>2, <3>3, Zenon
    <3> QED
      BY <1>5, <3>2, <3>4, Zenon
  <2>2. CASE ~(r.gr_active # "NONE" /\ ~f)
    <3>1. rcv' = r
      BY <1>1, <2>2, Zenon
    <3> QED
      BY <1>2, <1>3, <1>5, <3>1, Zenon
  <2> QED
    BY <2>1, <2>2, Zenon
<1>7. /\ snd' \in Snd /\ snd'.best = snd.best /\ snd'.begun = snd.begun
      /\ snd'.feed = "SCHEDULED" /\ ~snd'.refeeding /\ snd'.feed_state = "NONE"
      /\ snd'.withdraw_bucket = {} /\ snd'.buckets = << >>
  BY <1>1, <1>2, Zenon DEF Snd, FeedStates
<1>8. Types'
  BY <1>1, <1>6, <1>7, Zenon DEF IInv, Types
<1>9. Logs' /\ Down'
  BY <1>1, <1>6, <1>7, Zenon DEF IInv, Logs, Current, Down
<1>10. Restart'
  BY <1>1, <1>3, <1>4, <1>6, Zenon DEF Restart
<1>11. wire' = << >> /\ DOMAIN wire' = {} /\ Len(wire') = 0
  BY <1>1, <1>2, EmptyOf, SeqOf
<1>12. Ends'
  BY <1>1, <1>4, <1>6, <1>7, <1>11, Zenon DEF Ends
<1>13. Queue' /\ Updates' /\ Marks' /\ Open'
  BY <1>7, <1>11, NoMessages, Zenon DEF Queue, Bucketed, Open
<1>14. Synced'
  <2> SUFFICES ASSUME NEW n \in Nets, NEW v PROVE Last(n, v, Len(wire) + 1)'
    BY DEF Synced
  <2>1. 1 .. (Len(wire') + 1) - 1 = {}
    BY <1>11
  <2> QED
    BY <1>6, <2>1, Zenon DEF Last
<1> QED
  BY <1>8, <1>9, <1>10, <1>12, <1>13, <1>14, Zenon DEF IInv
-----------------------------------------------------------------------------
(* The inductive invariant *)

(* The invariant holds in the beginning.                                   *)
LEMMA InitIInv == Init => IInv
<1> SUFFICES ASSUME Init PROVE IInv
  BY Zenon
<1>1. /\ conf \in Conf /\ rcv = Flushed /\ wire = << >> /\ back = FALSE
      /\ log = [n \in Nets |-> <<None>>] /\ pos = [n \in Nets |-> 1]
  BY ConfigsAssumption, Zenon DEF Init
<1>2. /\ snd \in Snd /\ snd.best = [n \in Nets |-> None] /\ snd.begun = [n \in Nets |-> 1]
      /\ snd.withdraw_bucket = {} /\ snd.buckets = << >> /\ snd.feed = "NONE"
      /\ snd.feed_state = "NONE"
  <2>1. /\ << >> \in Seq(Bucket) /\ [n \in Nets |-> 1] \in [Nets -> Nat \ {0}]
        /\ [n \in Nets |-> None] \in [Nets -> Attrs \cup {None}]
    BY EmptyOf, SeqOf
  <2> QED
    BY <2>1 DEF Init, Snd, FeedStates
<1>3. \A n \in Nets : /\ log[n] = <<None>> /\ Len(log[n]) = 1 /\ log[n][1] = None
                      /\ log[n] \in Seq(Values) /\ pos[n] = 1
  BY <1>1 DEF Values
<1>4. Types
  <2>1. wire \in Seq(Message)
    BY <1>1, EmptyOf, SeqOf, Zenon
  <2> QED
    BY <1>1, <1>2, <1>3, <2>1, FlushedState, Zenon DEF Types
<1>5. Logs
  BY <1>2, <1>3 DEF Logs, Current, Exported
<1>6. Down /\ Restart /\ Ends
  <2>1. /\ ~rcv.up /\ ~rcv.gr_timer /\ ~rcv.stale_timer /\ rcv.gr_active = "NONE"
        /\ \A n \in Nets : rcv.rib[n].v = None /\ ~rcv.rib[n].stale
    BY <1>1, FlushedState DEF NoRoute
  <2>2. Down
    BY <1>1, <1>2, <2>1, Zenon DEF Down
  <2>3. Restart
    BY <2>1, Zenon DEF Restart
  <2>4. Ends
    BY <1>1, <1>2, <2>1, Zenon DEF Ends
  <2> QED
    BY <2>2, <2>3, <2>4, Zenon
<1>7. Queue /\ Updates /\ Marks /\ Open
  <2>1. Queue
    BY <1>2 DEF Queue, Bucketed
  <2>2. Updates /\ Marks
    BY <1>1 DEF Updates, Marks
  <2>3. Open
    BY <1>2, Zenon DEF Open
  <2> QED
    BY <2>1, <2>2, <2>3, Zenon
<1> QED
  <2>1. ~rcv.up
    BY <1>1, FlushedState
  <2> QED
    BY <1>4, <1>5, <1>6, <1>7, <2>1, Zenon DEF IInv

(* Every step keeps the invariant.                                         *)
LEMMA NextIInv == IInv /\ [Next]_vars => IInv'
<1> SUFFICES ASSUME IInv, [Next]_vars PROVE IInv'
  OBVIOUS
<1>1. ASSUME NEW n \in Nets, NEW v \in Attrs \cup {None}, RouteChange(n, v) PROVE IInv'
  BY <1>1, RouteChangeStep DEF Values
<1>2. CASE channel_feed_loop
  BY <1>2, FeedLoopStep, Zenon
<1>3. CASE bgp_fire_tx
  BY <1>3, FireTxStep, ZenonT(30)
<1>4. CASE bgp_rx_route_refresh
  BY <1>4, RouteRefreshStep
<1>5. CASE bgp_rx
  BY <1>5, RxStep
<1>6. CASE bgp_reload_routes \/ SendRouteRefresh
  BY <1>6, RequestStep, Zenon
<1>7. CASE bgp_graceful_restart_timeout
  BY <1>7, RestartTimeoutStep
<1>8. CASE bgp_long_lived_stale_timeout
  BY <1>8, StaleTimeoutStep
<1>9. ASSUME NEW f \in BOOLEAN, bgp_conn_enter_established_state(f) PROVE IInv'
  BY <1>9, EstablishedStep, Zenon
<1>10. CASE SessionLost
  BY <1>10, SessionLostStep
<1>11. CASE UNCHANGED vars
  <2>1. UNCHANGED <<conf, snd, rcv, wire, back, log, pos>>
    BY <1>11, Zenon DEF vars
  <2>2. Types' /\ Down' /\ Restart' /\ Ends'
    BY <2>1, ZenonT(30) DEF IInv, Types, Down, Restart, Ends
  <2>3. Logs' /\ Queue'
    BY <2>1, Zenon DEF IInv, Logs, Current, Queue, Bucketed
  <2>4. Updates' /\ (rcv.up => Synced)' /\ Marks' /\ Open'
    <3>1. \A n, v, i : Last(n, v, i)' <=> Last(n, v, i)
      BY <2>1, SameMarks, Zenon
    <3>2. \A n, b, i : /\ Gone(n, b, i)' <=> Gone(n, b, i)
                       /\ Sent(n, b, i)' <=> Sent(n, b, i)
                       /\ Arrived(n, b, i)' <=> Arrived(n, b, i)
      BY <2>1, SameMarks, Zenon
    <3>3. \A n, b, i : Covered(n, b, i)' <=> Covered(n, b, i)
      BY <3>2, SMTT(30) DEF Covered
    <3>4. Updates' /\ (rcv.up => Synced)'
      BY <2>1, <3>1, ZenonT(30) DEF IInv, Updates, Synced, Has, Current, Waits, Bucketed
    <3>5. Marks' /\ Open'
      BY <2>1, <3>2, <3>3, Zenon DEF IInv, Marks, Open, Waits, Bucketed, Visits
    <3> QED
      BY <3>4, <3>5, Zenon
  <2> QED
    BY <2>2, <2>3, <2>4, Zenon DEF IInv
<1> QED
  BY <1>1, <1>2, <1>3, <1>4, <1>5, <1>6, <1>7, <1>8, <1>9, <1>10, <1>11, ZenonT(30) DEF Next

(* The invariant always holds.                                             *)
LEMMA Inductive == Spec => []IInv
<1>1. Init => IInv
  BY InitIInv, Zenon
<1>2. IInv /\ [Next]_vars => IInv'
  BY NextIInv
<1> QED
  BY <1>1, <1>2, PTL DEF Spec

(* Type correctness: the states of both routers stay in their ranges and   *)
(* no more than MaxInFlight messages are on the way.                       *)
THEOREM TypeCorrect == Spec => []TypeOK
<1>1. Init => TypeOK
  <2> SUFFICES ASSUME Init PROVE TypeOK
    OBVIOUS
  <2>1. Len(wire) = 0
    BY EmptyOf, SeqOf, Zenon DEF Init
  <2>2. Types
    BY InitIInv, Zenon DEF IInv
  <2> QED
    BY <2>1, <2>2, BoundsAssumption DEF TypeOK, Types
<1>2. IInv /\ IInv' /\ TypeOK /\ [Next]_vars => TypeOK'
  <2> SUFFICES ASSUME IInv, IInv', TypeOK, [Next]_vars PROVE Len(wire') <= MaxInFlight
    BY Zenon DEF TypeOK, IInv, Types
  <2>1. /\ Len(wire) \in Nat /\ Len(wire') \in Nat /\ Len(wire) <= MaxInFlight
        /\ wire \in Seq(Message) /\ MaxInFlight \in Nat
    BY SeqOf, BoundsAssumption, Zenon DEF TypeOK, IInv, Types
  <2>2. CASE bgp_fire_tx
    <3>1. Len(wire) < MaxInFlight /\ (wire' = wire \/ \E m : wire' = Append(wire, m))
      <4>1. Len(wire) < MaxInFlight /\ Queue /\ snd \in Snd
        BY <2>2, Zenon DEF bgp_fire_tx, IInv, Types
      <4>2. \/ FireBegin
            \/ \E px \in SUBSET Nets, v \in Values : FireUpdate(px, v)
            \/ \E t \in {"EoR", "EoRR"} : FireEnd(t)
            \/ FireNothing
        BY <2>2, <4>1, FireEffect, Zenon
      <4> QED
        BY <4>1, <4>2, Zenon DEF FireBegin, FireUpdate, FireEnd, FireNothing
    <3>2. \A m : wire' = Append(wire, m) => Len(wire') = Len(wire) + 1
      BY <2>1
    <3> QED
      BY <2>1, <3>1, <3>2, SMTT(30)
  <2>3. CASE bgp_rx
    <3>1. wire # << >> /\ wire' = Tail(wire)
      BY <2>3 DEF bgp_rx
    <3>2. Len(wire') = Len(wire) - 1
      BY <2>1, <3>1, TailOf, Zenon
    <3> QED
      BY <2>1, <3>2
  <2>4. CASE SessionLost
    BY <2>1, <2>4, EmptyOf, SeqOf DEF SessionLost
  <2>5. CASE wire' = wire
    BY <2>1, <2>5, Zenon
  <2> QED
    BY <2>2, <2>3, <2>4, <2>5, ZenonT(30) DEF Next, vars, RouteChange, channel_feed_loop,
       bgp_rx_route_refresh, bgp_reload_routes, SendRouteRefresh, bgp_graceful_restart_timeout,
       bgp_long_lived_stale_timeout, bgp_conn_enter_established_state
<1> QED
  BY <1>1, <1>2, Inductive, PTL DEF Spec
-----------------------------------------------------------------------------
(* The refinement *)

(* A step that exports nothing, network by network.                        *)
Receives(n) ==
  /\ pos'[n] \in pos[n] .. Len(log[n])
  /\ \/ pos'[n] = pos[n] /\ rcv'.rib[n].v = rcv.rib[n].v
     \/ rcv'.rib[n].v = log[n][pos'[n]]
     \/ /\ rcv'.rib[n].v = None
        /\ ~rcv.up \/ ~rcv'.up \/ rcv'.load_state = "LOADING"

(* A step that leaves the history alone and treats every network as        *)
(* RouteReplica allows is a step of it.                                    *)
LEMMA ReceiveStep ==
  ASSUME UNCHANGED log, \A n \in Nets : Receives(n)
  PROVE  Replica!Receive
  BY Zenon DEF Replica!Receive, Receives

(* So is a network whose route stays, or is dropped while the session is   *)
(* down or loads.                                                          *)
LEMMA ViewKept ==
  ASSUME IInv, UNCHANGED pos, NEW n \in Nets,
         \/ rcv'.rib[n].v = rcv.rib[n].v
         \/ rcv'.rib[n].v = None /\ (~rcv.up \/ ~rcv'.up \/ rcv'.load_state = "LOADING")
  PROVE  Receives(n)
<1>1. pos[n] \in 1 .. Len(log[n]) /\ Len(log[n]) \in Nat
  BY Wire, Zenon DEF IInv, Logs
<1> QED
  BY <1>1 DEF Receives

(* A dropped stale route is gone from the table (rt_refresh_end).          *)
LEMMA LostGone ==
  ASSUME NEW n \in Nets, Lost(n)
  PROVE  rcv'.rib[n].v = None
BY DEF Lost, NoRoute

(* Whatever a received message does to a network, the receiver has a state *)
(* of the sender's history there, not an older one than before (bgp_rx).   *)
LEMMA RxReceives ==
  ASSUME IInv, bgp_rx, wire # << >>, NEW n \in Nets,
         Taken(n) \/ Left(n) \/ Marked(n) \/ Lost(n)
  PROVE  Receives(n)
<1>1. pos[n] \in 1 .. Len(log[n]) /\ Len(log[n]) \in Nat /\ pos[n] \in Nat
  BY Wire, Zenon DEF IInv, Logs
<1>2. CASE Taken(n)
  <2>1. 1 \in DOMAIN wire
    BY EmptyOf, SeqOf, SMTT(30) DEF IInv, Types
  <2>2. wire[1].at[n] \in pos[n] .. Len(log[n]) /\ log[n][wire[1].at[n]] = wire[1].v
    BY <1>2, <2>1, Zenon DEF IInv, Updates, Taken
  <2> QED
    BY <1>2, <2>2, Zenon DEF Taken, Receives
<1>3. CASE Left(n) \/ Marked(n)
  BY <1>1, <1>3, SMTT(30) DEF Left, Marked, Receives
<1>4. CASE Lost(n)
  <2>1. pos'[n] \in pos[n] .. Len(log[n]) /\ log[n][pos'[n]] = None
    BY <1>4, LostSound, Zenon
  <2>2. rcv'.rib[n].v = None
    BY <1>4, LostGone, Zenon
  <2> QED
    BY <2>1, <2>2, ZenonT(30) DEF Receives
<1> QED
  BY <1>2, <1>3, <1>4, Zenon

(* Every step of the channel is one of RouteReplica or leaves its          *)
(* variables unchanged.                                                    *)
LEMMA RefinementStep ==
  ASSUME IInv, IInv', [Next]_vars
  PROVE  [Replica!Next]_(Replica!vars)
<1>1. ASSUME NEW n \in Nets, NEW v \in Attrs \cup {None}, RouteChange(n, v) PROVE Replica!Export
  <2>1. /\ log' = [log EXCEPT ![n] = Append(@, Exported(v))] /\ UNCHANGED <<rcv, pos>>
        /\ Exported(v) \in Attrs \cup {None}
    BY <1>1 DEF RouteChange, Exported
  <2> QED
    BY <2>1, Zenon DEF Replica!Export
<1>2. ASSUME bgp_rx PROVE Replica!Receive
  <2>1. /\ \A n \in Nets : Taken(n) \/ Left(n) \/ Marked(n) \/ Lost(n)
        /\ wire # << >> /\ UNCHANGED log
    BY <1>2, RxEffect, Zenon DEF IInv, bgp_rx
  <2>2. ASSUME NEW n \in Nets PROVE Receives(n)
    BY <1>2, <2>1, RxReceives, Zenon
  <2> QED
    BY <2>1, <2>2, ReceiveStep, Zenon
<1>3. ASSUME bgp_graceful_restart_timeout PROVE Replica!Receive
  <2> DEFINE r == [rcv EXCEPT !.gr_timer = FALSE]
  <2>1. /\ rcv.gr_timer /\ UNCHANGED <<log, pos>> /\ rcv \in Rcv
        /\ \/ rcv' = r
           \/ rcv' = Flushed /\ ~conf.llgr
           \/ rcv' = bgp_graceful_restart_done(r) /\ r.gr_active = "ACTIVE"
           \/ /\ rcv' = [r EXCEPT !.gr_active = "LLGR", !.stale_timer = TRUE]
    BY <1>3, Zenon DEF bgp_graceful_restart_timeout, IInv, Types
  <2>2. r \in Rcv /\ r.rib = rcv.rib /\ r.gr_active = rcv.gr_active
    BY <2>1, Zenon DEF Rcv
  <2> HIDE DEF r
  <2>3. \/ rcv'.rib = rcv.rib
        \/ ~rcv.up /\ \A n \in Nets : rcv'.rib[n].v \in {None, rcv.rib[n].v}
    <3>1. CASE rcv' = Flushed /\ ~conf.llgr
      <4>1. ~rcv.up
        BY <2>1, <3>1, Zenon DEF IInv, Restart
      <4> QED
        BY <3>1, <4>1, FlushedState DEF NoRoute
    <3>2. CASE rcv' = bgp_graceful_restart_done(r) /\ r.gr_active = "ACTIVE"
      <4>1. ~rcv.up
        BY <2>1, <2>2, <3>2, Zenon DEF IInv, Restart
      <4>2. \A n \in Nets : rcv'.rib[n] = IF r.rib[n].stale THEN NoRoute ELSE r.rib[n]
        BY <2>2, <3>2, RestartDone, Zenon
      <4> QED
        BY <2>2, <4>1, <4>2 DEF NoRoute
    <3>3. CASE rcv' = r \/ rcv' = [r EXCEPT !.gr_active = "LLGR", !.stale_timer = TRUE]
      BY <2>2, <3>3, Zenon DEF Rcv
    <3> QED
      BY <2>1, <3>1, <3>2, <3>3, Zenon
  <2>4. \A n \in Nets : Receives(n)
    BY <2>1, <2>3, ViewKept, Zenon
  <2> QED
    BY <2>1, <2>4, ReceiveStep, Zenon
<1>4. ASSUME bgp_long_lived_stale_timeout PROVE Replica!Receive
  <2>1. /\ rcv.stale_timer /\ UNCHANGED <<log, pos>> /\ rcv \in Rcv
        /\ rcv' = bgp_graceful_restart_done(rcv)
    BY <1>4, Zenon DEF bgp_long_lived_stale_timeout, IInv, Types
  <2>2. /\ rcv'.up = rcv.up /\ rcv'.load_state = rcv.load_state
        /\ \A n \in Nets : rcv'.rib[n] = IF rcv.rib[n].stale THEN NoRoute ELSE rcv.rib[n]
    BY <2>1, RestartDone, SMTT(30)
  <2>3. ~rcv.up \/ rcv.load_state = "LOADING"
    BY <2>1, Zenon DEF IInv, Restart
  <2>4. \A n \in Nets : rcv'.rib[n].v \in {None, rcv.rib[n].v}
    BY <2>2, SMTT(30) DEF NoRoute
  <2>5. \A n \in Nets : Receives(n)
    BY <2>1, <2>2, <2>3, <2>4, ViewKept, Zenon
  <2> QED
    BY <2>1, <2>5, ReceiveStep, Zenon
<1>5. ASSUME NEW f \in BOOLEAN, bgp_conn_enter_established_state(f) PROVE Replica!Receive
  <2> DEFINE r == [rcv EXCEPT !.up = TRUE, !.gr_timer = @ /\ rcv.gr_active = "NONE",
                              !.load_state = IF conf.gr THEN "LOADING" ELSE "NONE"]
  <2>1. /\ ~rcv.up /\ UNCHANGED <<log, pos>> /\ rcv \in Rcv
        /\ rcv' = bgp_graceful_restart_done(r) \/ rcv' = r
    BY <1>5 DEF bgp_conn_enter_established_state, IInv, Types
  <2>2. r \in Rcv /\ r.rib = rcv.rib
    BY <2>1, Zenon DEF Rcv, FeedStates
  <2> HIDE DEF r
  <2>3. \A n \in Nets : rcv'.rib[n].v \in {None, rcv.rib[n].v}
    <3>1. CASE rcv' = r
      BY <2>2, <3>1, Zenon
    <3>2. CASE rcv' = bgp_graceful_restart_done(r)
      <4>1. \A n \in Nets : rcv'.rib[n] = IF r.rib[n].stale THEN NoRoute ELSE r.rib[n]
        BY <2>2, <3>2, RestartDone, Zenon
      <4> QED
        BY <2>2, <4>1 DEF NoRoute
    <3> QED
      BY <2>1, <3>1, <3>2, Zenon
  <2>4. \A n \in Nets : Receives(n)
    BY <2>1, <2>3, ViewKept, Zenon
  <2> QED
    BY <2>1, <2>4, ReceiveStep, Zenon
<1>6. ASSUME SessionLost PROVE Replica!Receive
  <2>1. /\ UNCHANGED <<log, pos>> /\ rcv \in Rcv
        /\ rcv' = bgp_handle_graceful_restart(rcv) \/ rcv' = Flushed
    BY <1>6, Zenon DEF SessionLost, IInv, Types
  <2>2. ~rcv'.up /\ \A n \in Nets : rcv'.rib[n].v \in {None, rcv.rib[n].v}
    <3>1. CASE rcv' = Flushed
      BY <3>1, FlushedState DEF NoRoute
    <3>2. CASE rcv' = bgp_handle_graceful_restart(rcv)
      BY <2>1, <3>2, RestartBegun, Zenon
    <3> QED
      BY <2>1, <3>1, <3>2, Zenon
  <2>3. \A n \in Nets : Receives(n)
    BY <2>1, <2>2, ViewKept, Zenon
  <2> QED
    BY <2>1, <2>3, ReceiveStep, Zenon
<1>7. ASSUME bgp_reload_routes \/ SendRouteRefresh PROVE Replica!Receive
  <2>1. /\ UNCHANGED <<log, pos>> /\ rcv \in Rcv
        /\ \E b \in BOOLEAN : rcv' = [rcv EXCEPT !.refresh = b]
    BY <1>7, Zenon DEF bgp_reload_routes, SendRouteRefresh, IInv, Types
  <2>2. rcv'.rib = rcv.rib
    BY <2>1 DEF Rcv
  <2>3. \A n \in Nets : Receives(n)
    BY <2>1, <2>2, ViewKept, Zenon
  <2> QED
    BY <2>1, <2>3, ReceiveStep, Zenon
<1>8. CASE UNCHANGED <<rcv, log, pos>>
  BY <1>8 DEF Replica!vars
<1>9. \/ \E n \in Nets, v \in Attrs \cup {None} : RouteChange(n, v)
      \/ bgp_rx \/ bgp_graceful_restart_timeout \/ bgp_long_lived_stale_timeout
      \/ \E f \in BOOLEAN : bgp_conn_enter_established_state(f)
      \/ SessionLost \/ bgp_reload_routes \/ SendRouteRefresh
      \/ UNCHANGED <<rcv, log, pos>>
  BY Zenon DEF Next, vars, channel_feed_loop, bgp_fire_tx, bgp_rx_route_refresh
<1> QED
  BY <1>1, <1>2, <1>3, <1>4, <1>5, <1>6, <1>7, <1>8, <1>9, ZenonT(30) DEF Replica!Next

(* The channel implements RouteReplica, whatever the order of exports,     *)
(* feeds, refreshes, restarts and breaks: what the receiver has for a      *)
(* network follows the exports in their order, and a route that is         *)
(* exported goes only with the session or while routes are loaded.         *)
THEOREM Implements == Spec => ReplicaSpec
<1>1. Init => Replica!Init
  BY FlushedState DEF Init, Replica!Init, NoRoute
<1>2. IInv /\ IInv' /\ [Next]_vars => [Replica!Next]_(Replica!vars)
  BY RefinementStep
<1> QED
  BY <1>1, <1>2, Inductive, PTL DEF Spec, ReplicaSpec, Replica!Spec
-----------------------------------------------------------------------------
(* End marks *)

(* What an end mark that counts does to a route.                           *)
LEMMA EndEffect ==
  ASSUME IInv, bgp_rx, rcv.up,
         \/ Head(wire).t = "EoR"
         \/ Head(wire).t = "EoRR" /\ rcv.load_state = "REFRESHING",
         NEW n \in Nets
  PROVE  rcv'.rib[n] = IF rcv.rib[n].stale THEN NoRoute ELSE rcv.rib[n]
<1>1. rcv \in Rcv /\ wire \in Seq(Message) /\ wire # << >>
  BY DEF IInv, Types, bgp_rx
<1>2. Head(wire) = wire[1] /\ 1 \in DOMAIN wire
  BY <1>1, EmptyOf, SeqOf
<1>3. CASE Head(wire).t = "EoRR"
  <2> DEFINE q == [rcv EXCEPT !.load_state = "NONE"]
  <2>1. rcv' = rt_refresh_end(q)
    BY <1>3 DEF bgp_rx, bgp_refresh_end
  <2>2. q \in Rcv /\ q.rib = rcv.rib
    BY <1>1, Zenon DEF Rcv, FeedStates
  <2> HIDE DEF q
  <2> QED
    BY <2>1, <2>2, RefreshEnd
<1>4. CASE Head(wire).t = "EoR"
  <2> DEFINE l == IF rcv.load_state = "LOADING" THEN "NONE" ELSE rcv.load_state
             q == [rcv EXCEPT !.load_state = l]
  <2>1. rcv' = IF rcv.gr_active # "NONE" THEN bgp_graceful_restart_done(q) ELSE q
    BY <1>1, <1>4, Zenon DEF bgp_rx, bgp_rx_end_mark, Rcv
  <2>2. q \in Rcv /\ q.rib = rcv.rib
    BY <1>1, Zenon DEF Rcv, FeedStates
  <2>3. rcv.load_state = "LOADING"
    BY <1>2, <1>4, SMTT(30) DEF IInv, Ends
  <2> HIDE DEF q
  <2>4. CASE rcv.gr_active # "NONE"
    <3>1. rcv' = bgp_graceful_restart_done(q)
      BY <2>1, <2>4, Zenon
    <3> QED
      BY <2>2, <3>1, RestartDone
  <2>5. CASE rcv.gr_active = "NONE"
    <3>1. ~rcv.rib[n].stale
      BY <2>3, <2>5, Zenon DEF IInv, Restart
    <3> QED
      BY <2>1, <2>2, <2>5, <3>1, Zenon
  <2> QED
    BY <2>4, <2>5, Zenon
<1> QED
  BY <1>3, <1>4

(* What is received makes the messages in flight fewer: no other step      *)
(* does it.                                                                *)
LEMMA Shorter ==
  ASSUME NEW w \in Seq(Message), w # << >>
  PROVE  Tail(w) # w /\ \A m : Tail(w) # Append(w, m)
<1>1. Len(w) \in Nat
  BY SeqOf, Zenon
<1>2. Len(Tail(w)) = Len(w) - 1
  BY TailOf
<1>3. \A m : Len(Append(w, m)) = Len(w) + 1
  OBVIOUS
<1>4. Tail(w) # w
  <2> SUFFICES ASSUME Tail(w) = w PROVE FALSE
    OBVIOUS
  <2>1. Len(w) = Len(w) - 1
    BY <1>2, Zenon
  <2> QED
    BY <1>1, <2>1
<1>5. ASSUME NEW m, Tail(w) = Append(w, m) PROVE FALSE
  <2>1. Len(w) + 1 = Len(w) - 1
    BY <1>2, <1>3, <1>5, Zenon
  <2> QED
    BY <1>1, <2>1
<1> QED
  BY <1>4, <1>5, Zenon

(* End-of-RIB and the end of a refresh are true: when one counts, the      *)
(* receiver has for every network a value that was exported after the      *)
(* marked feed began, in spite of changes, refreshes and full queues.      *)
THEOREM EndsTrue == Spec => EndMarksTrue
<1> DEFINE A == /\ wire # << >> /\ wire' = Tail(wire) /\ rcv'.up
                /\ \/ Head(wire).t = "EoR"
                   \/ Head(wire).t = "EoRR" /\ rcv.load_state = "REFRESHING"
                => \A n \in Nets : \E j \in Head(wire).begun[n] .. Len(log[n]) :
                     rcv'.rib[n].v = log[n][j]
<1>1. IInv /\ [Next]_vars => [A]_vars
  <2> SUFFICES ASSUME IInv, Next, wire # << >>, wire' = Tail(wire), rcv'.up,
                      \/ Head(wire).t = "EoR"
                      \/ Head(wire).t = "EoRR" /\ rcv.load_state = "REFRESHING",
                      NEW n \in Nets
               PROVE  \E j \in Head(wire).begun[n] .. Len(log[n]) : rcv'.rib[n].v = log[n][j]
    BY Zenon
  <2>1. wire \in Seq(Message) /\ Head(wire) = wire[1] /\ 1 \in DOMAIN wire
    BY SeqOf, EmptyOf DEF IInv, Types
  <2>2. bgp_rx
    <3>1. wire' # wire
      BY <2>1, Shorter, Zenon
    <3>2. ASSUME bgp_fire_tx PROVE FALSE
      <4>1. Queue /\ snd \in Snd
        BY Zenon DEF IInv, Types
      <4>2. wire' = wire \/ \E m : wire' = Append(wire, m)
        <5>1. \/ FireBegin
              \/ \E px \in SUBSET Nets, v \in Values : FireUpdate(px, v)
              \/ \E t \in {"EoR", "EoRR"} : FireEnd(t)
              \/ FireNothing
          BY <3>2, <4>1, FireEffect, Zenon
        <5> QED
          BY <5>1, Zenon DEF FireBegin, FireUpdate, FireEnd, FireNothing
      <4> QED
        BY <2>1, <3>1, <4>2, Shorter, Zenon
    <3>3. ASSUME SessionLost PROVE FALSE
      <4>1. /\ rcv' = bgp_handle_graceful_restart(rcv) \/ rcv' = Flushed
            /\ rcv \in Rcv
        BY <3>3, Zenon DEF SessionLost, IInv, Types
      <4> QED
        BY <4>1, RestartBegun, FlushedState, Zenon
    <3> QED
      BY <3>1, <3>2, <3>3, Zenon DEF Next, RouteChange, channel_feed_loop,
         bgp_rx_route_refresh, bgp_reload_routes, SendRouteRefresh,
         bgp_graceful_restart_timeout, bgp_long_lived_stale_timeout,
         bgp_conn_enter_established_state
  <2>3. rcv.up
    BY <2>1, Zenon DEF IInv, Down
  <2>4. rcv'.rib[n] = IF rcv.rib[n].stale THEN NoRoute ELSE rcv.rib[n]
    BY <2>2, <2>3, EndEffect, Zenon
  <2> DEFINE b == Head(wire).begun[n]
  <2>5. Covered(n, b, 1)
    BY <2>1, Zenon DEF IInv, Marks
  <2>6. Len(log[n]) \in Nat /\ pos[n] \in 1 .. Len(log[n])
    BY Wire, Zenon DEF IInv, Logs
  <2> HIDE DEF b
  <2>7. CASE Gone(n, b, 1)
    <3>1. PICK j \in b .. Len(log[n]) : log[n][j] = None
      BY <2>7, Zenon DEF Gone
    <3>2. rcv.rib[n].v = None \/ rcv.rib[n].stale
      <4>1. 1 .. 1 - 1 = {}
        OBVIOUS
      <4> QED
        BY <2>7, <4>1, Zenon DEF Gone, Last
    <3>3. rcv'.rib[n].v = None
      BY <2>4, <3>2 DEF NoRoute
    <3> QED
      BY <3>1, <3>3, Zenon DEF b
  <2>8. CASE Sent(n, b, 1)
    <3>1. 1 .. 1 - 1 = {}
      BY SMTT(30)
    <3> QED
      BY <2>8, <3>1, Zenon DEF Sent
  <2>9. CASE Arrived(n, b, 1)
    <3>1. ~rcv.rib[n].stale /\ b <= pos[n] /\ rcv.rib[n].v = log[n][pos[n]]
      BY <2>9, Zenon DEF Arrived
    <3>2. b \in Nat
      <4>1. wire[1] \in Message
        BY <2>1, SeqOf, Zenon
      <4> QED
        BY <2>1, <4>1, Zenon DEF Message, b
    <3>3. pos[n] \in b .. Len(log[n])
      BY <2>6, <3>1, <3>2
    <3> QED
      BY <2>4, <3>1, <3>3, Zenon DEF b
  <2> QED
    BY <2>5, <2>7, <2>8, <2>9, ZenonT(30) DEF Covered
<1> QED
  BY <1>1, Inductive, PTL DEF Spec, EndMarksTrue
=============================================================================
