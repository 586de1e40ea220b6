-------------------------- MODULE BgpUpdatesLemmas --------------------------
(***************************************************************************)
(* The inductive invariant of BgpUpdates, what its operators do to the     *)
(* parts of it, and why the steps of the sender's table keep it: a route   *)
(* that changes, a feed that begins, goes on or ends.                      *)
(***************************************************************************)
EXTENDS BgpUpdates, TLAPS

Values == Attrs \cup {None}
Message ==
  [t : {"UPDATE"}, px : SUBSET Nets, v : Values, at : UNION {[x -> Nat] : x \in SUBSET Nets}]
  \cup [t : {"BoRR", "EoR", "EoRR"}, begun : [Nets -> Nat \ {0}]]

Types ==
  /\ conf \in Conf /\ snd \in Snd /\ rcv \in Rcv /\ back \in BOOLEAN
  /\ wire \in Seq(Message) /\ log \in [Nets -> Seq(Values)] /\ pos \in [Nets -> Nat]

(* The history: the last value of a network is what its best route is      *)
(* exported as.                                                            *)
Logs ==
  \A n \in Nets : /\ pos[n] \in 1 .. Len(log[n])
                  /\ snd.begun[n] \in 1 .. Len(log[n])
                  /\ Current(n) = Exported(snd.best[n])

(* Between sessions nothing is on its way, and all routes are stale.       *)
Down ==
  ~rcv.up => /\ wire = << >> /\ ~back /\ snd.feed = "NONE"
             /\ snd.withdraw_bucket = {} /\ snd.buckets = << >>
             /\ \A n \in Nets : rcv.rib[n].v = None \/ rcv.rib[n].stale

(* The neighbor is known to restart until the end of its initial routes.   *)
Restart ==
  /\ rcv.gr_timer /\ (rcv.up \/ rcv.gr_active = "NONE") => conf.llgr /\ rcv.gr_active = "NONE"
  /\ rcv.stale_timer => rcv.gr_active # "NONE" /\ conf.llgr
  /\ rcv.gr_active # "NONE" => conf.gr
  /\ rcv.up /\ rcv.gr_active # "NONE" => rcv.load_state = "LOADING"
  /\ ~rcv.up \/ rcv.load_state = "LOADING" =>
       \A n \in Nets : rcv.rib[n].stale => rcv.gr_active # "NONE"

(* End-of-RIB comes once, in a session that waits for it.                  *)
Ends ==
  rcv.up =>
    /\ \A i \in DOMAIN wire : wire[i].t = "EoR" =>
         /\ rcv.load_state = "LOADING" /\ snd.feed_state \notin {"LOADING", "LOADED"}
         /\ ~(snd.feed = "SCHEDULED" /\ ~snd.refeeding)
         /\ \A k \in DOMAIN wire : wire[k].t = "EoR" => k = i
    /\ snd.feed_state \in {"LOADING", "LOADED"} => rcv.load_state = "LOADING"
    /\ snd.feed = "SCHEDULED" /\ ~snd.refeeding =>
         snd.feed_state = "NONE" /\ (conf.gr => rcv.load_state = "LOADING")
    /\ snd.feed = "ACTIVE" => snd.feed_todo # {}

(* What waits to be sent is up to date.                                    *)
Bucketed(s, n, v) ==
  \E i \in DOMAIN s.buckets : s.buckets[i].eattrs = v /\ n \in s.buckets[i].prefixes
Waits(s, n) == n \in s.withdraw_bucket \/ \E v \in Attrs : Bucketed(s, n, v)
Queue ==
  \A n \in Nets :
    /\ n \in snd.withdraw_bucket => Exported(snd.best[n]) = None
    /\ \A v \in Attrs : Bucketed(snd, n, v) => snd.best[n] = v

(* Updates are on their way in the order of the exports.                   *)
Has(m, n) == m.t = "UPDATE" /\ n \in m.px
Updates ==
  \A n \in Nets, i \in DOMAIN wire : Has(wire[i], n) =>
    /\ wire[i].at[n] \in pos[n] .. Len(log[n])
    /\ log[n][wire[i].at[n]] = wire[i].v
    /\ \A k \in DOMAIN wire : i <= k /\ Has(wire[k], n) => wire[i].at[n] <= wire[k].at[n]

(* The last value for n before message i, if there is one in this session, *)
(* is v.                                                                   *)
Last(n, v, i) ==
  /\ \A k \in 1 .. i - 1 :
       Has(wire[k], n) /\ (\A l \in k + 1 .. i - 1 : ~Has(wire[l], n)) => wire[k].v = v
  /\ (\A k \in 1 .. i - 1 : ~Has(wire[k], n)) =>
       rcv.rib[n].v \in {None, v} \/ rcv.rib[n].stale
Synced ==
  \A n \in Nets : Waits(snd, n) \/ Last(n, Current(n), Len(wire) + 1)

(* What message i, the end mark of a feed that began at b, relies on: n    *)
(* was withdrawn since, and the receiver has no route of it or will see a  *)
(* withdrawal or a stale route; or n was sent after the begin mark and     *)
(* since b; or it has arrived.                                             *)
Gone(n, b, i) ==
  /\ Last(n, None, i)
  /\ \E j \in b .. Len(log[n]) :
       /\ log[n][j] = None /\ pos[n] <= j
       /\ \A k \in DOMAIN wire : Has(wire[k], n) =>
            IF k < i THEN wire[k].at[n] <= j ELSE j <= wire[k].at[n]
Sent(n, b, i) ==
  \E k \in 1 .. i - 1 : /\ Has(wire[k], n) /\ b <= wire[k].at[n]
                        /\ \A l \in k .. i - 1 : wire[l].t # "BoRR"
Arrived(n, b, i) ==
  /\ \A l \in 1 .. i - 1 : wire[l].t # "BoRR"
  /\ ~rcv.rib[n].stale /\ b <= pos[n] /\ rcv.rib[n].v = log[n][pos[n]]
Covered(n, b, i) == Gone(n, b, i) \/ Sent(n, b, i) \/ Arrived(n, b, i)

Marks ==
  \A i \in DOMAIN wire : wire[i].t \in {"EoR", "EoRR"} =>
    \A n \in Nets : Covered(n, wire[i].begun[n], i)

(* The same for the end mark of the feed that goes on: what is not covered *)
(* waits to be sent or to be fed.                                          *)
Visits(s, n) ==
  s.feed_state \in {"LOADING", "REFRESHING"} /\ (s.feed = "SCHEDULED" \/ n \in s.feed_todo)
Open ==
  rcv.up /\ snd.feed_state # "NONE" =>
    \A n \in Nets :
      \/ Waits(snd, n) \/ Visits(snd, n)
      \/ Gone(n, snd.begun[n], Len(wire) + 1)
      \/ "BoRR" \notin snd.packets_to_send /\ Covered(n, snd.begun[n], Len(wire) + 1)

IInv == /\ Types /\ Logs /\ Down /\ Restart /\ Ends
        /\ Queue /\ Updates /\ (rcv.up => Synced) /\ Marks /\ Open

(* What is said of the messages depends on the wire, the receiver and the  *)
(* history only.                                                           *)
LEMMA SameMarks ==
  ASSUME UNCHANGED <<wire, rcv, log, pos>>
  PROVE  /\ \A n, v, i : Last(n, v, i)' <=> Last(n, v, i)
         /\ \A n, b, i : /\ Gone(n, b, i)' <=> Gone(n, b, i)
                         /\ Sent(n, b, i)' <=> Sent(n, b, i)
                         /\ Arrived(n, b, i)' <=> Arrived(n, b, i)
<1>1. \A n, v, i : Last(n, v, i)' <=> Last(n, v, i)
  BY DEF Last, Has
<1>2. \A n, b, i : Gone(n, b, i)' <=> Gone(n, b, i)
  BY <1>1 DEF Gone, Has
<1>3. \A n, b, i : Sent(n, b, i)' <=> Sent(n, b, i)
  BY Zenon DEF Sent, Has
<1>4. \A n, b, i : Arrived(n, b, i)' <=> Arrived(n, b, i)
  BY Zenon DEF Arrived
<1> QED
  BY <1>1, <1>2, <1>3, <1>4, Zenon

(* A step of the sender's alone has to keep the sender's types.            *)
LEMMA SenderTypes ==
  ASSUME Types, UNCHANGED <<conf, rcv, wire, back, log, pos>>, snd' \in Snd
  PROVE  Types' /\ back' \in BOOLEAN
BY DEF Types

(* A position in the history stays one as the history grows.               *)
LEMMA LogGrows == \A k \in Nat : \A i \in 1 .. k : i \in 1 .. (k + 1)
OBVIOUS

(* A later position is not before one that an earlier position reached.    *)
LEMMA LaterReaches == \A b, p, q \in Nat : \A i \in p .. q : b <= p => b <= i
OBVIOUS

(* Without buckets nothing is bucketed.                                    *)
LEMMA NoBuckets == \A s, n, v : s.buckets = << >> => ~Bucketed(s, n, v)
BY DEF Bucketed
-----------------------------------------------------------------------------
(* The operations on what waits to be sent. *)

(* The rest of the sender's state.                                         *)
SameFeed(r, s) ==
  /\ r.best = s.best /\ r.begun = s.begun /\ r.feed_state = s.feed_state
  /\ r.feed = s.feed /\ r.refeeding = s.refeeding /\ r.feed_todo = s.feed_todo

(* A message takes some of the prefixes of its bucket.                     *)
LEMMA ChunkOf ==
  ASSUME NEW px \in SUBSET Nets
  PROVE  Chunk(px) \in SUBSET px
  BY DEF Chunk

(* Sequences.                                                              *)
LEMMA EmptyOf == \A S : << >> \in Seq(S)
  OBVIOUS

(* The elements of a sequence.                                             *)
LEMMA SeqOf ==
  ASSUME NEW S, NEW q \in Seq(S)
  PROVE  /\ Len(q) \in Nat /\ DOMAIN q = 1 .. Len(q)
         /\ \A i \in 1 .. Len(q) : q[i] \in S
         /\ q = << >> <=> Len(q) = 0
  OBVIOUS

(* The first element of a sequence and the rest.                           *)
LEMMA TailOf ==
  ASSUME NEW S, NEW q \in Seq(S), q # << >>
  PROVE  /\ Head(q) = q[1] /\ Head(q) \in S
         /\ Tail(q) \in Seq(S) /\ Len(Tail(q)) = Len(q) - 1
         /\ \A i \in 1 .. Len(q) - 1 : Tail(q)[i] = q[i + 1]
  OBVIOUS

(* A sequence with an element at its end.                                  *)
LEMMA AppendOf ==
  ASSUME NEW S, NEW q \in Seq(S), NEW e \in S
  PROVE  /\ Append(q, e) \in Seq(S) /\ Len(Append(q, e)) = Len(q) + 1
         /\ Append(q, e)[Len(q) + 1] = e
         /\ \A i \in 1 .. Len(q) : Append(q, e)[i] = q[i]
  OBVIOUS

(* The end of a sequence.                                                  *)
LEMMA SuffixOf ==
  ASSUME NEW S, NEW q \in Seq(S), NEW i \in 1 .. Len(q) + 1, NEW p, p = SubSeq(q, i, Len(q))
  PROVE  /\ p \in Seq(S) /\ Len(p) = Len(q) - i + 1
         /\ \A k \in 1 .. Len(q) - i + 1 : p[k] = q[i + k - 1]
  OBVIOUS

(* Sequences of buckets and the prefixes in them.                          *)
LEMMA BucketSeq ==
  ASSUME NEW q \in Seq(Bucket), NEW f, DOMAIN f = DOMAIN q, f = [i \in DOMAIN q |-> f[i]],
         \A i \in DOMAIN q : f[i] \in Bucket
  PROVE  f \in Seq(Bucket)
  OBVIOUS

(* bgp_get_prefix(): the network waits nowhere any more, the others as     *)
(* before.                                                                 *)
LEMMA GetPrefix ==
  ASSUME NEW s \in Snd, NEW n \in Nets, NEW r, r = bgp_get_prefix(s, n)
  PROVE  /\ r \in Snd /\ SameFeed(r, s) /\ r.packets_to_send = s.packets_to_send
         /\ r.withdraw_bucket = s.withdraw_bucket \ {n}
         /\ \A m \in Nets, v \in Attrs : Bucketed(r, m, v) <=> Bucketed(s, m, v) /\ m # n
<1> DEFINE f == [i \in DOMAIN s.buckets |-> [s.buckets[i] EXCEPT !.prefixes = @ \ {n}]]
<1>1. s.buckets \in Seq(Bucket)
  BY DEF Snd
<1>2. \A i \in DOMAIN s.buckets : s.buckets[i] \in Bucket
  BY <1>1, SeqOf
<1>3. \A i \in DOMAIN s.buckets :
        f[i] \in Bucket /\ f[i].eattrs = s.buckets[i].eattrs
        /\ f[i].prefixes = s.buckets[i].prefixes \ {n}
  BY <1>2 DEF Bucket
<1>4. f \in Seq(Bucket)
  BY <1>1, <1>3, BucketSeq, Zenon
<1>5. /\ r.buckets = f /\ r.withdraw_bucket = s.withdraw_bucket \ {n}
      /\ SameFeed(r, s) /\ r.packets_to_send = s.packets_to_send
  BY DEF bgp_get_prefix, Snd, SameFeed
<1>6. r \in Snd
  BY <1>4, Zenon DEF bgp_get_prefix, Snd
<1>7. \A m \in Nets, v \in Attrs : Bucketed(r, m, v) <=> Bucketed(s, m, v) /\ m # n
  BY <1>3, <1>5 DEF Bucketed
<1> QED
  BY <1>5, <1>6, <1>7

(* bgp_get_bucket(): there is a bucket of the attributes, and nothing      *)
(* else waits.                                                             *)
LEMMA GetBucket ==
  ASSUME NEW s \in Snd, NEW v \in Attrs, NEW r, r = bgp_get_bucket(s, v)
  PROVE  /\ r \in Snd /\ SameFeed(r, s) /\ r.packets_to_send = s.packets_to_send
         /\ r.withdraw_bucket = s.withdraw_bucket
         /\ \A m \in Nets, w \in Attrs : Bucketed(r, m, w) <=> Bucketed(s, m, w)
         /\ \E i \in DOMAIN r.buckets : r.buckets[i].eattrs = v
<1>1. CASE \E i \in DOMAIN s.buckets : s.buckets[i].eattrs = v
  BY <1>1 DEF bgp_get_bucket, SameFeed
<1>2. CASE ~\E i \in DOMAIN s.buckets : s.buckets[i].eattrs = v
  <2> DEFINE b == [eattrs |-> v, prefixes |-> {}]
             q == Append(s.buckets, b)
  <2>1. s.buckets \in Seq(Bucket) /\ b \in Bucket
    BY DEF Snd, Bucket
  <2>2. /\ q \in Seq(Bucket) /\ DOMAIN s.buckets = 1 .. Len(s.buckets)
        /\ DOMAIN q = 1 .. Len(s.buckets) + 1 /\ Len(s.buckets) \in Nat
        /\ q[Len(s.buckets) + 1] = b
        /\ \A i \in DOMAIN s.buckets : q[i] = s.buckets[i]
    BY <2>1, AppendOf, SeqOf
  <2>3. /\ r = [s EXCEPT !.buckets = q]
    BY <1>2 DEF bgp_get_bucket
  <2>4. /\ r.buckets = q /\ r.withdraw_bucket = s.withdraw_bucket
        /\ SameFeed(r, s) /\ r.packets_to_send = s.packets_to_send
    BY <2>3 DEF Snd, SameFeed
  <2>5. r \in Snd
    BY <2>2, <2>3, Zenon DEF Snd
  <2>6. \A m \in Nets, w \in Attrs : Bucketed(r, m, w) <=> Bucketed(s, m, w)
    BY <2>2, <2>4 DEF Bucketed
  <2> QED
    BY <2>2, <2>4, <2>5, <2>6
<1> QED
  BY <1>1, <1>2

(* A network put in a bucket waits there, the others as before.            *)
LEMMA AddedTail ==
  ASSUME NEW s \in Snd, NEW n \in Nets, NEW v \in Attrs, NEW r, r = AddTail(s, n, v),
         \E i \in DOMAIN s.buckets : s.buckets[i].eattrs = v
  PROVE  /\ r \in Snd /\ SameFeed(r, s) /\ r.packets_to_send = s.packets_to_send
         /\ r.withdraw_bucket = s.withdraw_bucket
         /\ \A m \in Nets, w \in Attrs :
              Bucketed(r, m, w) <=> Bucketed(s, m, w) \/ (m = n /\ w = v)
<1> DEFINE f == [i \in DOMAIN s.buckets |->
                  IF s.buckets[i].eattrs = v THEN [s.buckets[i] EXCEPT !.prefixes = @ \cup {n}]
                  ELSE s.buckets[i]]
<1>1. s.buckets \in Seq(Bucket)
  BY DEF Snd
<1>2. \A i \in DOMAIN s.buckets : s.buckets[i] \in Bucket
  BY <1>1, SeqOf
<1>3. \A i \in DOMAIN s.buckets :
        /\ f[i] \in Bucket /\ f[i].eattrs = s.buckets[i].eattrs
        /\ f[i].prefixes = IF s.buckets[i].eattrs = v THEN s.buckets[i].prefixes \cup {n}
                           ELSE s.buckets[i].prefixes
  BY <1>2 DEF Bucket
<1>4. f \in Seq(Bucket)
  BY <1>1, <1>3, BucketSeq, Zenon
<1>5. /\ r.buckets = f /\ r.withdraw_bucket = s.withdraw_bucket
      /\ SameFeed(r, s) /\ r.packets_to_send = s.packets_to_send
  BY DEF AddTail, Snd, SameFeed
<1>6. r \in Snd
  BY <1>4, Zenon DEF AddTail, Snd
<1>7. \A m \in Nets, w \in Attrs :
        Bucketed(r, m, w) <=> Bucketed(s, m, w) \/ (m = n /\ w = v)
  <2> HIDE DEF f
  <2>1. DOMAIN r.buckets = DOMAIN s.buckets
    BY <1>5 DEF f
  <2> SUFFICES ASSUME NEW m \in Nets, NEW w \in Attrs
               PROVE  Bucketed(r, m, w) <=> Bucketed(s, m, w) \/ (m = n /\ w = v)
    OBVIOUS
  <2>2. ASSUME Bucketed(r, m, w) PROVE Bucketed(s, m, w) \/ (m = n /\ w = v)
    <3>1. PICK i \in DOMAIN s.buckets : f[i].eattrs = w /\ m \in f[i].prefixes
      BY <1>5, <2>1, <2>2 DEF Bucketed
    <3>2. s.buckets[i].eattrs = w
      BY <1>3, <3>1, Zenon
    <3>3. m \in s.buckets[i].prefixes \/ (m = n /\ s.buckets[i].eattrs = v)
      BY <1>3, <3>1, Zenon
    <3> QED
      BY <3>2, <3>3 DEF Bucketed
  <2>3. Bucketed(s, m, w) => Bucketed(r, m, w)
    BY <1>3, <1>5, <2>1, Zenon DEF Bucketed
  <2>4. m = n /\ w = v => Bucketed(r, m, w)
    BY <1>3, <1>5, <2>1, Zenon DEF Bucketed
  <2> QED
    BY <2>2, <2>3, <2>4
<1> QED
  BY <1>5, <1>6, <1>7

(* bgp_rt_notify(): n waits with its best route, the others as before.     *)
LEMMA Notified ==
  ASSUME NEW s \in Snd, NEW n \in Nets, NEW r, r = bgp_rt_notify(s, n)
  PROVE  /\ r \in Snd /\ SameFeed(r, s)
         /\ r.packets_to_send = s.packets_to_send \cup {"UPDATE"}
         /\ Waits(r, n)
         /\ n \in r.withdraw_bucket => s.best[n] = None
         /\ \A v \in Attrs : Bucketed(r, n, v) => s.best[n] = v
         /\ \A m \in Nets \ {n} :
              /\ m \in r.withdraw_bucket <=> m \in s.withdraw_bucket
              /\ \A v \in Attrs : Bucketed(r, m, v) <=> Bucketed(s, m, v)
              /\ Waits(r, m) <=> Waits(s, m)
<1> DEFINE v == s.best[n]
           q == bgp_get_prefix(s, n)
           t == IF v = None THEN [q EXCEPT !.withdraw_bucket = @ \cup {n}]
                ELSE AddTail(bgp_get_bucket(q, v), n, v)
<1>1. /\ q \in Snd /\ SameFeed(q, s) /\ q.packets_to_send = s.packets_to_send
      /\ q.withdraw_bucket = s.withdraw_bucket \ {n}
      /\ \A m \in Nets, w \in Attrs : Bucketed(q, m, w) <=> Bucketed(s, m, w) /\ m # n
  BY GetPrefix
<1>2. v \in Attrs \cup {None}
  BY DEF Snd
<1>3. /\ t \in Snd /\ SameFeed(t, s) /\ t.packets_to_send = s.packets_to_send
      /\ t.withdraw_bucket = (s.withdraw_bucket \ {n}) \cup (IF v = None THEN {n} ELSE {})
      /\ \A m \in Nets, w \in Attrs :
           Bucketed(t, m, w) <=> (Bucketed(s, m, w) /\ m # n) \/ (m = n /\ w = v /\ v # None)
  <2>1. CASE v = None
    <3> HIDE DEF q
    <3>1. t = [q EXCEPT !.withdraw_bucket = @ \cup {n}]
      BY <2>1
    <3> HIDE DEF t
    <3>2. /\ t \in Snd /\ SameFeed(t, q) /\ t.packets_to_send = q.packets_to_send
          /\ t.withdraw_bucket = q.withdraw_bucket \cup {n} /\ t.buckets = q.buckets
      <4>1. q \in Snd /\ q.withdraw_bucket \cup {n} \in SUBSET Nets
        BY <1>1 DEF Snd
      <4> QED
        BY <3>1, <4>1, Zenon DEF Snd, SameFeed
    <3>3. \A m \in Nets, w \in Attrs : Bucketed(t, m, w) <=> Bucketed(q, m, w)
      BY <3>2 DEF Bucketed
    <3> QED
      BY <1>1, <2>1, <3>2, <3>3 DEF SameFeed
  <2>2. CASE v # None
    <3> DEFINE p == bgp_get_bucket(q, v)
    <3>1. v \in Attrs /\ t = AddTail(p, n, v)
      BY <1>2, <2>2
    <3> HIDE DEF q, v
    <3>2. /\ p \in Snd /\ SameFeed(p, q) /\ p.packets_to_send = q.packets_to_send
          /\ p.withdraw_bucket = q.withdraw_bucket
          /\ \A m \in Nets, w \in Attrs : Bucketed(p, m, w) <=> Bucketed(q, m, w)
          /\ \E i \in DOMAIN p.buckets : p.buckets[i].eattrs = v
      BY <1>1, <3>1, GetBucket
    <3> HIDE DEF p, t
    <3>3. /\ t \in Snd /\ SameFeed(t, p) /\ t.packets_to_send = p.packets_to_send
          /\ t.withdraw_bucket = p.withdraw_bucket
          /\ \A m \in Nets, w \in Attrs :
               Bucketed(t, m, w) <=> Bucketed(p, m, w) \/ (m = n /\ w = v)
      BY <3>1, <3>2, AddedTail
    <3> QED
      BY <1>1, <2>2, <3>2, <3>3 DEF SameFeed
  <2> QED
    BY <2>1, <2>2
<1>4. r = [t EXCEPT !.packets_to_send = @ \cup {"UPDATE"}]
  BY DEF bgp_rt_notify
<1> HIDE DEF t, q
<1>5. /\ r \in Snd /\ SameFeed(r, t) /\ r.packets_to_send = t.packets_to_send \cup {"UPDATE"}
      /\ r.withdraw_bucket = t.withdraw_bucket /\ r.buckets = t.buckets
  <2>1. t \in Snd
    BY <1>3
  <2> QED
    BY <1>4, <2>1, ZenonT(30) DEF Snd, SameFeed
<1>6. \A m \in Nets, w \in Attrs :
        Bucketed(r, m, w) <=> (Bucketed(s, m, w) /\ m # n) \/ (m = n /\ w = v /\ v # None)
  BY <1>3, <1>5 DEF Bucketed
<1>7. SameFeed(r, s)
  BY <1>3, <1>5 DEF SameFeed
<1> HIDE DEF v
<1>8. /\ n \in r.withdraw_bucket <=> v = None
      /\ \A m \in Nets \ {n} : m \in r.withdraw_bucket <=> m \in s.withdraw_bucket
  BY <1>3, <1>5
<1>9. Waits(r, n) /\ \A m \in Nets \ {n} : Waits(r, m) <=> Waits(s, m)
  BY <1>2, <1>6, <1>8 DEF Waits
<1> QED
  BY <1>3, <1>5, <1>6, <1>7, <1>8, <1>9 DEF v

(* bgp_free_bucket(): only empty buckets go.                               *)
LEMMA Freed ==
  ASSUME NEW s \in Snd, NEW f \in 1 .. Len(s.buckets) + 1, Found(s, f),
         NEW r, r = bgp_free_bucket(s, f)
  PROVE  /\ r \in Snd /\ SameFeed(r, s) /\ r.packets_to_send = s.packets_to_send
         /\ r.withdraw_bucket = s.withdraw_bucket
         /\ \A m \in Nets, v \in Attrs : Bucketed(r, m, v) <=> Bucketed(s, m, v)
         /\ r.buckets # << >> => Head(r.buckets).prefixes # {}
<1> DEFINE q == SubSeq(s.buckets, f, Len(s.buckets))
           d == Len(s.buckets) - f + 1
<1>1. s.buckets \in Seq(Bucket)
  BY DEF Snd
<1>2. Len(s.buckets) \in Nat /\ DOMAIN s.buckets = 1 .. Len(s.buckets)
  BY <1>1, SeqOf
<1>3. r = [s EXCEPT !.buckets = q]
  BY DEF bgp_free_bucket
<1>4. /\ q \in Seq(Bucket) /\ Len(q) = d
      /\ \A i \in 1 .. d : q[i] = s.buckets[f + i - 1]
  BY <1>1, SuffixOf
<1> HIDE DEF q
<1>5. DOMAIN q = 1 .. d /\ (q = << >> <=> d = 0) /\ (q # << >> => Head(q) = q[1])
  BY <1>4, SeqOf, TailOf
<1>6. ASSUME NEW m \in Nets, NEW v \in Attrs, NEW i \in DOMAIN q,
             q[i].eattrs = v, m \in q[i].prefixes
      PROVE  Bucketed(s, m, v)
  <2>1. f + i - 1 \in DOMAIN s.buckets
    BY <1>2, <1>5
  <2> QED
    BY <1>4, <1>5, <1>6, <2>1, Zenon DEF Bucketed
<1>7. ASSUME NEW m \in Nets, NEW v \in Attrs, Bucketed(s, m, v)
      PROVE  \E i \in DOMAIN q : q[i].eattrs = v /\ m \in q[i].prefixes
  <2>1. PICK k \in DOMAIN s.buckets :
          s.buckets[k].eattrs = v /\ m \in s.buckets[k].prefixes
    BY <1>7 DEF Bucketed
  <2>2. k \notin 1 .. f - 1 /\ k \in 1 .. Len(s.buckets)
    BY <1>2, <2>1 DEF Found
  <2>3. k - f + 1 \in DOMAIN q /\ f + (k - f + 1) - 1 = k
    BY <1>2, <1>5, <2>2
  <2>4. q[k - f + 1] = s.buckets[k]
    BY <1>4, <1>5, <2>3, Zenon
  <2> QED
    BY <2>1, <2>3, <2>4
<1>8. q # << >> => Head(q).prefixes # {}
  <2> SUFFICES ASSUME q # << >> PROVE q[1].prefixes # {}
    BY <1>5
  <2>1. f <= Len(s.buckets) /\ 1 \in 1 .. d /\ f + 1 - 1 = f
    BY <1>2, <1>5
  <2> QED
    BY <1>4, <2>1 DEF Found
<1>9. /\ r.buckets = q /\ r.withdraw_bucket = s.withdraw_bucket /\ SameFeed(r, s)
      /\ r.packets_to_send = s.packets_to_send /\ r \in Snd
  BY <1>3, <1>4, Zenon DEF Snd, SameFeed
<1>10. \A m \in Nets, v \in Attrs : Bucketed(r, m, v) <=> Bucketed(s, m, v)
  <2> SUFFICES ASSUME NEW m \in Nets, NEW v \in Attrs
               PROVE  Bucketed(r, m, v) <=> Bucketed(s, m, v)
    OBVIOUS
  <2>1. Bucketed(r, m, v) <=> \E i \in DOMAIN q : q[i].eattrs = v /\ m \in q[i].prefixes
    BY <1>9, Zenon DEF Bucketed
  <2>2. Bucketed(r, m, v) => Bucketed(s, m, v)
    BY <1>6, <2>1, Zenon
  <2>3. Bucketed(s, m, v) => Bucketed(r, m, v)
    BY <1>7, <2>1, Zenon
  <2> QED
    BY <2>2, <2>3, Zenon
<1> QED
  BY <1>8, <1>9, <1>10, Zenon

(* The head of the queue and the rest.                                     *)
LEMMA HeadOf ==
  ASSUME NEW s \in Snd, s.buckets # << >>
  PROVE  /\ Head(s.buckets) \in Bucket /\ Tail(s.buckets) \in Seq(Bucket)
         /\ \A m \in Nets, v \in Attrs :
              Bucketed(s, m, v) <=>
                \/ Head(s.buckets).eattrs = v /\ m \in Head(s.buckets).prefixes
                \/ \E i \in DOMAIN Tail(s.buckets) :
                     Tail(s.buckets)[i].eattrs = v /\ m \in Tail(s.buckets)[i].prefixes
<1> DEFINE q == s.buckets
           t == Tail(q)
<1>1. q \in Seq(Bucket) /\ q # << >>
  BY DEF Snd
<1>2. /\ Head(q) \in Bucket /\ t \in Seq(Bucket) /\ Len(t) = Len(q) - 1
      /\ \A i \in 1 .. Len(t) : t[i] = q[i + 1]
  BY <1>1, TailOf
<1>3. /\ Len(q) \in Nat \ {0} /\ DOMAIN q = 1 .. Len(q) /\ DOMAIN t = 1 .. Len(t)
  BY <1>1, <1>2, SeqOf, EmptyOf
<1>4. Head(q) = q[1]
  BY <1>1
<1>5. \A m \in Nets, v \in Attrs :
        Bucketed(s, m, v) <=> \/ Head(q).eattrs = v /\ m \in Head(q).prefixes
                              \/ \E i \in DOMAIN t : t[i].eattrs = v /\ m \in t[i].prefixes
  <2> SUFFICES ASSUME NEW m \in Nets, NEW v \in Attrs
               PROVE  (\E i \in DOMAIN q : q[i].eattrs = v /\ m \in q[i].prefixes) <=>
                        \/ q[1].eattrs = v /\ m \in q[1].prefixes
                        \/ \E i \in DOMAIN t : t[i].eattrs = v /\ m \in t[i].prefixes
    BY <1>4 DEF Bucketed
  <2> HIDE DEF q, t
  <2>1. \A i \in DOMAIN q : i = 1 \/ (i - 1 \in DOMAIN t /\ t[i - 1] = q[i])
    BY <1>2, <1>3
  <2>2. 1 \in DOMAIN q /\ \A i \in DOMAIN t : i + 1 \in DOMAIN q /\ t[i] = q[i + 1]
    BY <1>2, <1>3
  <2> QED
    BY <2>1, <2>2
<1> QED
  BY <1>2, <1>5

(* What bgp_create_update() finds: nothing is forgotten, and what is       *)
(* withdrawn is withdrawn already or does not fit.                         *)
LEMMA MetSound ==
  ASSUME NEW s \in Snd, NEW q \in Met(s)
  PROVE  /\ q \in Snd /\ SameFeed(q, s) /\ q.packets_to_send = s.packets_to_send
         /\ \A m \in Nets :
              /\ Waits(s, m) => Waits(q, m)
              /\ \A v \in Attrs : Bucketed(q, m, v) => Bucketed(s, m, v)
              /\ m \in q.withdraw_bucket =>
                   m \in s.withdraw_bucket \/ \E v \in Attrs \cap TooLong : Bucketed(s, m, v)
         /\ q.withdraw_bucket = {} /\ q.buckets # << >> => Head(q.buckets).eattrs \notin TooLong
<1>1. CASE s.withdraw_bucket # {}
  BY <1>1 DEF Met, SameFeed
<1>2. PICK c :
        s.withdraw_bucket = {} =>
          /\ c \in Snd /\ SameFeed(c, s) /\ c.packets_to_send = s.packets_to_send
          /\ c.withdraw_bucket = s.withdraw_bucket
          /\ \A m \in Nets, v \in Attrs : Bucketed(c, m, v) <=> Bucketed(s, m, v)
          /\ c.buckets # << >> => Head(c.buckets).prefixes # {}
          /\ q = IF c.buckets # << >> /\ Head(c.buckets).eattrs \in TooLong
                 THEN bgp_withdraw_bucket(c) ELSE c
  <2>1. CASE s.withdraw_bucket # {}
    BY <2>1
  <2>2. CASE s.withdraw_bucket = {}
    <3> DEFINE W(c) == IF c.buckets # << >> /\ Head(c.buckets).eattrs \in TooLong
                       THEN bgp_withdraw_bucket(c) ELSE c
               F == {bgp_free_bucket(s, f) : f \in {i \in 1 .. Len(s.buckets) + 1 : Found(s, i)}}
    <3>0. q \in {W(c) : c \in F}
      BY <2>2, Zenon DEF Met
    <3> HIDE DEF W
    <3>1. PICK c \in F : q = W(c)
      BY <3>0, Zenon
    <3>3. PICK f \in 1 .. Len(s.buckets) + 1 : Found(s, f) /\ c = bgp_free_bucket(s, f)
      BY <3>1, Zenon
    <3> HIDE DEF F
    <3>2. /\ c \in Snd /\ SameFeed(c, s) /\ c.packets_to_send = s.packets_to_send
          /\ c.withdraw_bucket = s.withdraw_bucket
          /\ \A m \in Nets, v \in Attrs : Bucketed(c, m, v) <=> Bucketed(s, m, v)
          /\ c.buckets # << >> => Head(c.buckets).prefixes # {}
      BY <3>3, Freed, Zenon
    <3> QED
      BY <3>1, <3>2, Zenon DEF W
  <2> QED
    BY <2>1, <2>2
<1>3. CASE s.withdraw_bucket = {} /\ ~(c.buckets # << >> /\ Head(c.buckets).eattrs \in TooLong)
  <2>1. q = c
    BY <1>2, <1>3
  <2> QED
    BY <1>2, <1>3, <2>1 DEF Waits
<1>4. CASE s.withdraw_bucket = {} /\ c.buckets # << >> /\ Head(c.buckets).eattrs \in TooLong
  <2>1. q = bgp_withdraw_bucket(c)
    BY <1>2, <1>4
  <2> DEFINE h == Head(c.buckets)
             t == Tail(c.buckets)
  <2>2. /\ h \in Bucket /\ t \in Seq(Bucket)
        /\ \A m \in Nets, v \in Attrs :
             Bucketed(c, m, v) <=>
               \/ h.eattrs = v /\ m \in h.prefixes
               \/ \E i \in DOMAIN t : t[i].eattrs = v /\ m \in t[i].prefixes
    BY <1>2, <1>4, HeadOf
  <2> HIDE DEF h, t
  <2>3. h.eattrs \in Attrs \cap TooLong /\ h.prefixes \in SUBSET Nets
    BY <1>4, <2>2 DEF Bucket, h
  <2>4. q = [c EXCEPT !.withdraw_bucket = @ \cup h.prefixes, !.buckets = t]
    BY <2>1 DEF bgp_withdraw_bucket, h, t
  <2>5. /\ q \in Snd /\ SameFeed(q, c) /\ q.packets_to_send = c.packets_to_send
        /\ q.withdraw_bucket = c.withdraw_bucket \cup h.prefixes /\ q.buckets = t
    <3>1. c \in Snd /\ t \in Seq(Bucket) /\ c.withdraw_bucket \cup h.prefixes \in SUBSET Nets
      BY <1>2, <1>4, <2>2, <2>3 DEF Snd
    <3> QED
      BY <2>4, <3>1, Zenon DEF Snd, SameFeed
  <2>6. \A m \in Nets, v \in Attrs :
          /\ Bucketed(q, m, v) => Bucketed(c, m, v)
          /\ Bucketed(c, m, v) => Bucketed(q, m, v) \/ m \in q.withdraw_bucket
    BY <2>2, <2>5 DEF Bucketed
  <2>7. \A m \in Nets : m \in q.withdraw_bucket =>
          m \in s.withdraw_bucket \/ \E v \in Attrs \cap TooLong : Bucketed(s, m, v)
    BY <1>2, <1>4, <2>2, <2>3, <2>5
  <2>8. \A m \in Nets : Waits(s, m) => Waits(q, m)
    BY <1>2, <1>4, <2>5, <2>6 DEF Waits
  <2>9. q.withdraw_bucket # {}
    BY <1>2, <1>4, <2>5 DEF h
  <2> QED
    BY <1>2, <1>4, <2>5, <2>6, <2>7, <2>8, <2>9 DEF SameFeed
<1> QED
  BY <1>1, <1>3, <1>4

(* bgp_create_update(): the message has what waited, the rest still waits. *)
LEMMA Created ==
  ASSUME NEW q \in Snd,
         q.withdraw_bucket = {} /\ q.buckets # << >> => Head(q.buckets).eattrs \notin TooLong,
         NEW u \in bgp_create_update(q)
  PROVE  \E px \in SUBSET Nets, v \in Values :
           /\ u[2] = update(px, v)
           /\ \A m \in px : \/ v = None /\ m \in q.withdraw_bucket
                            \/ v \in Attrs \ TooLong /\ Bucketed(q, m, v)
           /\ u[1] \in Snd /\ SameFeed(u[1], q)
           /\ u[1].packets_to_send = q.packets_to_send
           /\ \A m \in Nets :
                /\ Waits(q, m) => m \in px \/ Waits(u[1], m)
                /\ m \in u[1].withdraw_bucket => m \in q.withdraw_bucket
                /\ \A w \in Attrs : Bucketed(u[1], m, w) => Bucketed(q, m, w)
<1>1. CASE q.withdraw_bucket # {}
  <2> DEFINE px == Chunk(q.withdraw_bucket)
             r == [q EXCEPT !.withdraw_bucket = @ \ px]
  <2>1. q.withdraw_bucket \in SUBSET Nets
    BY DEF Snd
  <2>2. px \in SUBSET q.withdraw_bucket
    BY <2>1, ChunkOf
  <2>3. u = <<r, update(px, None)>>
    BY <1>1 DEF bgp_create_update
  <2> HIDE DEF px
  <2>4. /\ r \in Snd /\ SameFeed(r, q) /\ r.packets_to_send = q.packets_to_send
        /\ r.withdraw_bucket = q.withdraw_bucket \ px /\ r.buckets = q.buckets
    BY <2>1, Zenon DEF Snd, SameFeed
  <2> HIDE DEF r
  <2>5. \A m \in Nets :
          /\ Waits(q, m) => m \in px \/ Waits(r, m)
          /\ m \in r.withdraw_bucket => m \in q.withdraw_bucket
          /\ \A w \in Attrs : Bucketed(r, m, w) => Bucketed(q, m, w)
    BY <2>4 DEF Waits, Bucketed
  <2>6. u[1] = r /\ u[2] = update(px, None)
    BY <2>3
  <2>7. px \in SUBSET Nets /\ None \in Values
    BY <2>1, <2>2 DEF Values
  <2> QED
    BY <2>2, <2>4, <2>5, <2>6, <2>7
<1>2. CASE q.withdraw_bucket = {}
  <2> DEFINE b == Head(q.buckets)
             t == Tail(q.buckets)
             px == Chunk(b.prefixes)
             rest == b.prefixes \ px
             d == [b EXCEPT !.prefixes = rest]
             f == IF rest = {} THEN t ELSE Append(t, d)
             r == [q EXCEPT !.buckets = f]
  <2>1. q.buckets # << >>
    BY <1>2 DEF bgp_create_update
  <2>2. u = <<r, update(px, b.eattrs)>>
    BY <1>2, <2>1 DEF bgp_create_update
  <2>3. /\ b \in Bucket /\ t \in Seq(Bucket)
        /\ \A m \in Nets, v \in Attrs :
             Bucketed(q, m, v) <=>
               \/ b.eattrs = v /\ m \in b.prefixes
               \/ \E i \in DOMAIN t : t[i].eattrs = v /\ m \in t[i].prefixes
    BY <2>1, HeadOf
  <2>4. b.eattrs \in Attrs \ TooLong
    BY <1>2, <2>1, <2>3 DEF Bucket
  <2> HIDE DEF b, t
  <2>5. b.prefixes \in SUBSET Nets
    BY <2>3 DEF Bucket
  <2>6. px \in SUBSET b.prefixes
    BY <2>5, ChunkOf
  <2> HIDE DEF px
  <2>7. d \in Bucket /\ d.eattrs = b.eattrs /\ d.prefixes = rest
    BY <2>3, <2>5 DEF Bucket
  <2> HIDE DEF d
  <2>8. /\ f \in Seq(Bucket)
        /\ \A m \in Nets, v \in Attrs :
             (\E i \in DOMAIN f : f[i].eattrs = v /\ m \in f[i].prefixes) <=>
               \/ b.eattrs = v /\ m \in rest
               \/ \E i \in DOMAIN t : t[i].eattrs = v /\ m \in t[i].prefixes
    <3>1. CASE rest = {}
      BY <2>3, <3>1
    <3>2. CASE rest # {}
      <4>1. f = Append(t, d)
        BY <3>2
      <4>2. /\ f \in Seq(Bucket) /\ DOMAIN t = 1 .. Len(t) /\ Len(t) \in Nat
            /\ DOMAIN f = 1 .. Len(t) + 1 /\ f[Len(t) + 1] = d
            /\ \A i \in 1 .. Len(t) : f[i] = t[i]
        BY <2>3, <2>7, <4>1, AppendOf, SeqOf
      <4> HIDE DEF f
      <4>3. \A i \in DOMAIN f : (i \in DOMAIN t /\ f[i] = t[i]) \/ f[i] = d
        BY <4>2
      <4>4. Len(t) + 1 \in DOMAIN f /\ \A i \in DOMAIN t : i \in DOMAIN f /\ f[i] = t[i]
        BY <4>2
      <4> QED
        BY <2>7, <4>2, <4>3, <4>4
    <3> QED
      BY <3>1, <3>2
  <2> HIDE DEF f
  <2>9. /\ r \in Snd /\ SameFeed(r, q) /\ r.packets_to_send = q.packets_to_send
        /\ r.withdraw_bucket = q.withdraw_bucket /\ r.buckets = f
    BY <2>8, Zenon DEF Snd, SameFeed
  <2> HIDE DEF r
  <2>10. \A m \in Nets :
           /\ \A w \in Attrs : Bucketed(r, m, w) => Bucketed(q, m, w)
           /\ \A w \in Attrs : Bucketed(q, m, w) => m \in px \/ Bucketed(r, m, w)
    BY <2>3, <2>8, <2>9 DEF Bucketed
  <2>11. \A m \in Nets : Waits(q, m) => m \in px \/ Waits(r, m)
    BY <2>9, <2>10 DEF Waits
  <2>12. u[1] = r /\ u[2] = update(px, b.eattrs)
    BY <2>2
  <2>13. px \in SUBSET Nets /\ b.eattrs \in Values
    BY <2>4, <2>5, <2>6 DEF Values
  <2>14. \A m \in px : Bucketed(q, m, b.eattrs)
    BY <2>3, <2>4, <2>5, <2>6
  <2> QED
    BY <2>4, <2>9, <2>10, <2>11, <2>12, <2>13, <2>14
<1> QED
  BY <1>1, <1>2

(* When bgp_create_update() has nothing to send, nothing waits.            *)
LEMMA NothingWaits ==
  ASSUME NEW q \in Snd, bgp_create_update(q) = {}
  PROVE  \A m \in Nets : ~Waits(q, m)
<1>1. q.withdraw_bucket = {} /\ q.buckets = << >>
  BY Zenon DEF bgp_create_update
<1> QED
  BY <1>1 DEF Waits, Bucketed
-----------------------------------------------------------------------------
(* Messages on their way. *)
LEMMA UpdateMessage ==
  ASSUME Types, NEW px \in SUBSET Nets, NEW v \in Values, NEW m, m = update(px, v)
  PROVE  /\ m \in Message /\ m.t = "UPDATE" /\ m.px = px /\ m.v = v
         /\ \A n \in px : m.at[n] = Len(log[n])
<1>1. \A n \in px : Len(log[n]) \in Nat
  BY SeqOf DEF Types
<1>2. [n \in px |-> Len(log[n])] \in [px -> Nat]
  BY <1>1
<1> QED
  BY <1>2 DEF update, Message

(* A mark is a message that has no route.                                  *)
LEMMA MarkMessage ==
  ASSUME NEW s \in Snd, NEW t \in {"BoRR", "EoR", "EoRR"}, NEW m, m = mark(t, s)
  PROVE  m \in Message /\ m.t = t /\ m.begun = s.begun /\ \A n : ~Has(m, n)
  BY DEF mark, Message, Snd, Has

(* The messages in flight and the histories are finite sequences.          *)
LEMMA Wire ==
  ASSUME Types
  PROVE  /\ Len(wire) \in Nat /\ DOMAIN wire = 1 .. Len(wire)
         /\ \A n \in Nets : Len(log[n]) \in Nat /\ DOMAIN log[n] = 1 .. Len(log[n])
         /\ \A n \in Nets : pos[n] \in Nat
  BY SeqOf DEF Types

(* What is sent is the last of the messages in flight.                     *)
LEMMA Appended ==
  ASSUME Types, NEW m \in Message, wire' = Append(wire, m)
  PROVE  /\ wire' \in Seq(Message) /\ Len(wire') = Len(wire) + 1
         /\ DOMAIN wire' = 1 .. Len(wire) + 1
         /\ wire'[Len(wire) + 1] = m /\ \A k \in 1 .. Len(wire) : wire'[k] = wire[k]
<1>1. wire \in Seq(Message)
  BY DEF Types
<1>2. wire' \in Seq(Message) /\ Len(wire') = Len(wire) + 1
  BY <1>1, AppendOf
<1>3. wire'[Len(wire) + 1] = m /\ \A k \in 1 .. Len(wire) : wire'[k] = wire[k]
  BY <1>1, AppendOf
<1>4. DOMAIN wire' = 1 .. Len(wire')
  BY <1>2, SeqOf
<1> QED
  BY <1>2, <1>3, <1>4

(* A step that sends or exports, for network n: messages are appended,     *)
(* the log grows, and the receiver may only drop a stale route.            *)
Extends(n) ==
  /\ Len(wire) <= Len(wire') /\ \A k \in 1 .. Len(wire) : wire'[k] = wire[k]
  /\ \A k \in Len(wire) + 1 .. Len(wire') :
       Has(wire'[k], n) => wire'[k].at[n] = Len(log[n])
  /\ pos'[n] = pos[n]
  /\ rcv'.rib[n] = rcv.rib[n] \/ (rcv.rib[n].stale /\ rcv'.rib[n] = NoRoute)
  /\ Len(log[n]) <= Len(log'[n]) /\ \A j \in 1 .. Len(log[n]) : log'[n][j] = log[n][j]

(* What was true of message i is true of message h after such a step, if   *)
(* nothing for n is between them.                                          *)
LEMMA LastExtends ==
  ASSUME Types, Types', NEW n \in Nets, Extends(n), NEW v,
         NEW i \in 1 .. Len(wire) + 1, NEW h \in i .. Len(wire') + 1,
         \A k \in i .. h - 1 : ~Has(wire'[k], n),
         Last(n, v, i)
  PROVE  Last(n, v, h)'
<1>1. /\ Len(wire) \in Nat /\ Len(wire') \in Nat
      /\ \A k \in 1 .. i - 1 : wire'[k] = wire[k] /\ k \in 1 .. h - 1
  BY Wire, SeqOf DEF Types, Extends
<1>2. ASSUME NEW k \in 1 .. h - 1, Has(wire'[k], n), \A l \in k + 1 .. h - 1 : ~Has(wire'[l], n)
      PROVE  wire'[k].v = v
  <2>1. k \in 1 .. i - 1
    BY <1>1, <1>2
  <2>2. \A l \in k + 1 .. i - 1 : ~Has(wire[l], n)
    BY <1>1, <1>2, <2>1
  <2> QED
    BY <1>1, <1>2, <2>1, <2>2, Zenon DEF Last
<1>3. ASSUME \A k \in 1 .. h - 1 : ~Has(wire'[k], n)
      PROVE  rcv'.rib[n].v \in {None, v} \/ rcv'.rib[n].stale
  <2>1. \A k \in 1 .. i - 1 : ~Has(wire[k], n)
    BY <1>1, <1>3
  <2>2. rcv.rib[n].v \in {None, v} \/ rcv.rib[n].stale
    BY <2>1, Zenon DEF Last
  <2> QED
    BY <2>2 DEF Extends, NoRoute
<1> QED
  BY <1>2, <1>3, Zenon DEF Last

(* A withdrawal that counts goes on to count when messages of other        *)
(* networks follow.                                                        *)
LEMMA GoneExtends ==
  ASSUME Types, Types', NEW n \in Nets, Extends(n), NEW b \in Nat \ {0},
         NEW i \in 1 .. Len(wire) + 1, NEW h \in i .. Len(wire') + 1,
         \A k \in i .. h - 1 : ~Has(wire'[k], n),
         Gone(n, b, i)
  PROVE  Gone(n, b, h)'
<1>1. Last(n, None, h)'
  BY LastExtends, Zenon DEF Gone
<1>2. PICK j \in b .. Len(log[n]) :
        /\ log[n][j] = None /\ pos[n] <= j
        /\ \A k \in DOMAIN wire : Has(wire[k], n) =>
             IF k < i THEN wire[k].at[n] <= j ELSE j <= wire[k].at[n]
  BY Zenon DEF Gone
<1>3. /\ Len(wire) \in Nat /\ Len(wire') \in Nat /\ DOMAIN wire = 1 .. Len(wire)
      /\ DOMAIN wire' = 1 .. Len(wire') /\ Len(log[n]) \in Nat /\ Len(log'[n]) \in Nat
      /\ pos[n] \in Nat
  BY Wire, SeqOf DEF Types
<1>4. j \in b .. Len(log'[n]) /\ pos'[n] <= j
  BY <1>2, <1>3 DEF Extends
<1>5. log'[n][j] = None
  <2>1. j \in 1 .. Len(log[n])
    BY <1>3
  <2> QED
    BY <1>2, <2>1, Zenon DEF Extends
<1>6. ASSUME NEW k \in DOMAIN wire', Has(wire'[k], n)
      PROVE  IF k < h THEN wire'[k].at[n] <= j ELSE j <= wire'[k].at[n]
  <2>1. CASE k \in DOMAIN wire
    <3>1. wire'[k] = wire[k]
      BY <1>3, <2>1 DEF Extends
    <3>2. k < h <=> k < i
      BY <1>3, <1>6, <2>1
    <3> QED
      BY <1>2, <1>6, <2>1, <3>1, <3>2, Zenon
  <2>2. CASE k \notin DOMAIN wire
    <3>1. k \in Len(wire) + 1 .. Len(wire') /\ ~(k < h)
      BY <1>3, <1>6, <2>2
    <3>2. wire'[k].at[n] = Len(log[n])
      BY <1>6, <3>1, Zenon DEF Extends
    <3> QED
      BY <1>3, <3>1, <3>2
  <2> QED
    BY <2>1, <2>2
<1> QED
  BY <1>1, <1>4, <1>5, <1>6, Zenon DEF Gone

(* A route sent since the feed began, or known to be up to date, stays     *)
(* so while no refresh begins.                                             *)
LEMMA SentExtends ==
  ASSUME Types, Types', NEW n \in Nets, Extends(n), NEW b,
         NEW i \in 1 .. Len(wire) + 1, NEW h \in i .. Len(wire') + 1,
         \A k \in i .. h - 1 : wire'[k].t # "BoRR",
         Sent(n, b, i) \/ Arrived(n, b, i), pos[n] \in 1 .. Len(log[n])
  PROVE  Sent(n, b, h)' \/ Arrived(n, b, h)'
<1>1. /\ Len(wire) \in Nat /\ Len(wire') \in Nat
      /\ \A k \in 1 .. i - 1 : wire'[k] = wire[k] /\ k \in 1 .. h - 1
  BY Wire, SeqOf DEF Types, Extends
<1>2. \A l \in 1 .. h - 1 : l \in 1 .. i - 1 \/ l \in i .. h - 1
  BY <1>1
<1>3. CASE Sent(n, b, i)
  <2>1. PICK k \in 1 .. i - 1 : /\ Has(wire[k], n) /\ b <= wire[k].at[n]
                                /\ \A l \in k .. i - 1 : wire[l].t # "BoRR"
    BY <1>3 DEF Sent
  <2>2. \A l \in k .. h - 1 : l \in k .. i - 1 \/ l \in i .. h - 1
    BY <1>1, <2>1
  <2>3. \A l \in k .. i - 1 : wire'[l] = wire[l]
    BY <1>1, <2>1
  <2>4. \A l \in k .. h - 1 : wire'[l].t # "BoRR"
    BY <2>1, <2>2, <2>3, Zenon
  <2>5. Sent(n, b, h)'
    BY <1>1, <2>1, <2>4, Zenon DEF Sent
  <2> QED
    BY <2>5
<1>4. CASE Arrived(n, b, i)
  <2>1. \A l \in 1 .. h - 1 : wire'[l].t # "BoRR"
    BY <1>1, <1>2, <1>4, Zenon DEF Arrived
  <2>2. /\ ~rcv'.rib[n].stale /\ b <= pos'[n] /\ rcv'.rib[n].v = log'[n][pos'[n]]
    BY <1>4, Zenon DEF Arrived, Extends
  <2>3. Arrived(n, b, h)'
    BY <2>1, <2>2 DEF Arrived
  <2> QED
    BY <2>3
<1> QED
  BY <1>3, <1>4, Zenon

(* What is covered before the messages from i on is covered after them     *)
(* too.                                                                    *)
LEMMA CoveredExtends ==
  ASSUME Types, Types', NEW n \in Nets, Extends(n), NEW b \in Nat \ {0},
         NEW i \in 1 .. Len(wire) + 1, NEW h \in i .. Len(wire') + 1,
         \A k \in i .. h - 1 : ~Has(wire'[k], n) /\ wire'[k].t # "BoRR",
         Covered(n, b, i), pos[n] \in 1 .. Len(log[n])
  PROVE  Covered(n, b, h)'
<1>1. CASE Gone(n, b, i)
  BY <1>1, GoneExtends, Zenon DEF Covered
<1>2. CASE Sent(n, b, i) \/ Arrived(n, b, i)
  BY <1>2, SentExtends DEF Covered
<1> QED
  BY <1>1, <1>2, Zenon DEF Covered

-----------------------------------------------------------------------------
(* The receiver's refresh cycle. *)
SameSession(q, r) ==
  /\ q.up = r.up /\ q.load_state = r.load_state /\ q.gr_active = r.gr_active
  /\ q.gr_timer = r.gr_timer /\ q.stale_timer = r.stale_timer /\ q.refresh = r.refresh

(* rt_refresh_begin(): all routes become stale and none changes.           *)
LEMMA RefreshBegin ==
  ASSUME NEW r \in Rcv, NEW q, q = rt_refresh_begin(r)
  PROVE  /\ q \in Rcv /\ SameSession(q, r)
         /\ \A n \in Nets : q.rib[n].v = r.rib[n].v /\ (q.rib[n].stale <=> r.rib[n].v # None)
<1> DEFINE f == [n \in Nets |-> [v |-> r.rib[n].v, stale |-> r.rib[n].v # None]]
<1>1. q = [r EXCEPT !.rib = f]
  BY DEF rt_refresh_begin, Rcv
<1>2. \A n \in Nets : r.rib[n] \in Route
  BY DEF Rcv
<1>3. \A n \in Nets : f[n] \in Route
  BY <1>2 DEF Route
<1>4. \A n \in Nets : f[n].v = r.rib[n].v /\ (f[n].stale <=> r.rib[n].v # None)
  BY Zenon
<1>5. f \in [Nets -> Route]
  BY <1>3
<1> HIDE DEF f
<1>6. q \in Rcv /\ SameSession(q, r) /\ q.rib = f
  BY <1>1, <1>5 DEF Rcv, SameSession
<1> QED
  BY <1>4, <1>6

(* rt_refresh_end(): the stale routes are dropped, the others stay.        *)
LEMMA RefreshEnd ==
  ASSUME NEW r \in Rcv, NEW q, q = rt_refresh_end(r)
  PROVE  /\ q \in Rcv /\ SameSession(q, r)
         /\ \A n \in Nets : q.rib[n] = IF r.rib[n].stale THEN NoRoute ELSE r.rib[n]
<1> DEFINE f == [n \in Nets |-> IF r.rib[n].stale THEN NoRoute ELSE r.rib[n]]
<1>1. q = [r EXCEPT !.rib = f]
  BY DEF rt_refresh_end, Rcv
<1>2. f \in [Nets -> Route]
  BY DEF Rcv, Route, NoRoute
<1> HIDE DEF f
<1>3. q \in Rcv /\ SameSession(q, r) /\ q.rib = f
  BY <1>1, <1>2 DEF Rcv, SameSession
<1> QED
  BY <1>3 DEF f

(* bgp_graceful_restart_done(): the same, and the restart is over.         *)
LEMMA RestartDone ==
  ASSUME NEW r \in Rcv, NEW q, q = bgp_graceful_restart_done(r)
  PROVE  /\ q \in Rcv /\ q.up = r.up /\ q.load_state = r.load_state /\ q.gr_timer = r.gr_timer
         /\ q.gr_active = "NONE" /\ ~q.stale_timer
         /\ \A n \in Nets : q.rib[n] = IF r.rib[n].stale THEN NoRoute ELSE r.rib[n]
<1> DEFINE p == [r EXCEPT !.gr_active = "NONE", !.stale_timer = FALSE]
<1>1. /\ p \in Rcv /\ p.up = r.up /\ p.load_state = r.load_state /\ p.gr_timer = r.gr_timer
      /\ p.gr_active = "NONE" /\ ~p.stale_timer /\ p.rib = r.rib
  BY Zenon DEF Rcv
<1>2. q = rt_refresh_end(p)
  BY DEF bgp_graceful_restart_done
<1> HIDE DEF p
<1>3. /\ q \in Rcv /\ SameSession(q, p)
      /\ \A n \in Nets : q.rib[n] = IF p.rib[n].stale THEN NoRoute ELSE p.rib[n]
  BY <1>1, <1>2, RefreshEnd
<1> QED
  BY <1>1, <1>3 DEF SameSession

(* A receiver that was flushed has no route and no timer.                  *)
LEMMA FlushedState ==
  /\ Flushed \in Rcv /\ ~Flushed.up /\ ~Flushed.gr_timer /\ ~Flushed.stale_timer
  /\ Flushed.gr_active = "NONE" /\ \A n \in Nets : Flushed.rib[n] = NoRoute
<1>1. [n \in Nets |-> NoRoute] \in [Nets -> Route]
  BY Zenon DEF Route, NoRoute
<1> QED
  BY <1>1 DEF Flushed, Rcv, FeedStates

(* A restart begins: routes are marked as stale.                           *)
LEMMA RestartBegun ==
  ASSUME NEW r \in Rcv, NEW q, q = bgp_handle_graceful_restart(r)
  PROVE  /\ q \in Rcv /\ ~q.up /\ q.gr_active # "NONE"
         /\ q.stale_timer = r.stale_timer
         /\ \A n \in Nets : /\ q.rib[n].v = None \/ q.rib[n].stale
                            /\ q.rib[n].v \in {None, r.rib[n].v}
<1> DEFINE p == [r EXCEPT !.up = FALSE, !.gr_timer = TRUE, !.refresh = FALSE]
           x == [p EXCEPT !.gr_active = "ACTIVE"]
           e == rt_refresh_end(p)
<1>1. /\ p \in Rcv /\ ~p.up /\ p.gr_active = r.gr_active
      /\ p.stale_timer = r.stale_timer /\ p.rib = r.rib
  BY Zenon DEF Rcv
<1>2. CASE r.gr_active = "NONE"
  <2>1. q = rt_refresh_begin(x)
    BY <1>2 DEF bgp_handle_graceful_restart
  <2> HIDE DEF p
  <2>2. /\ x \in Rcv /\ ~x.up /\ x.gr_active = "ACTIVE"
        /\ x.stale_timer = r.stale_timer /\ x.rib = r.rib
    BY <1>1 DEF Rcv
  <2> HIDE DEF x
  <2>3. /\ q \in Rcv /\ SameSession(q, x)
        /\ \A n \in Nets : q.rib[n].v = x.rib[n].v /\ (q.rib[n].stale <=> x.rib[n].v # None)
    BY <2>1, <2>2, RefreshBegin, Zenon
  <2> QED
    BY <2>2, <2>3 DEF SameSession
<1>3. CASE r.gr_active = "ACTIVE"
  <2>1. q = rt_refresh_begin(e)
    BY <1>3 DEF bgp_handle_graceful_restart
  <2> HIDE DEF p
  <2>2. e \in Rcv /\ SameSession(e, p) /\ \A n \in Nets : e.rib[n].v \in {None, r.rib[n].v}
    <3>1. /\ e \in Rcv /\ SameSession(e, p)
          /\ \A n \in Nets : e.rib[n] = IF p.rib[n].stale THEN NoRoute ELSE p.rib[n]
      BY <1>1, RefreshEnd, Zenon
    <3> HIDE DEF e
    <3> QED
      BY <1>1, <3>1 DEF NoRoute
  <2> HIDE DEF e
  <2>3. /\ q \in Rcv /\ SameSession(q, e)
        /\ \A n \in Nets : q.rib[n].v = e.rib[n].v /\ (q.rib[n].stale <=> e.rib[n].v # None)
    BY <2>1, <2>2, RefreshBegin, Zenon
  <2> QED
    BY <1>1, <1>3, <2>2, <2>3 DEF SameSession
<1>4. CASE r.gr_active \notin {"NONE", "ACTIVE"}
  <2>1. q = rt_refresh_begin(p)
    BY <1>4 DEF bgp_handle_graceful_restart
  <2> HIDE DEF p
  <2>2. /\ q \in Rcv /\ SameSession(q, p)
        /\ \A n \in Nets : q.rib[n].v = p.rib[n].v /\ (q.rib[n].stale <=> p.rib[n].v # None)
    BY <1>1, <2>1, RefreshBegin, Zenon
  <2> QED
    BY <1>1, <1>4, <2>2 DEF SameSession
<1> QED
  BY <1>2, <1>3, <1>4
-----------------------------------------------------------------------------
(* Reception. *)

(* What bgp_rx() does to the route of n: it takes the one of the update;   *)
(* leaves it; marks it as stale; or drops a stale one.                     *)
Taken(n) ==
  /\ Has(wire[1], n) /\ pos'[n] = wire[1].at[n]
  /\ rcv'.rib[n].v = wire[1].v /\ ~rcv'.rib[n].stale
Left(n) == ~Has(wire[1], n) /\ pos'[n] = pos[n] /\ rcv'.rib[n] = rcv.rib[n]
Marked(n) ==
  /\ wire[1].t = "BoRR" /\ pos'[n] = pos[n] /\ rcv'.rib[n].v = rcv.rib[n].v
  /\ rcv'.rib[n].v = None \/ rcv'.rib[n].stale
Lost(n) ==
  /\ wire[1].t \in {"EoR", "EoRR"} /\ rcv.rib[n].stale /\ rcv'.rib[n] = NoRoute
  /\ pos'[n] = Dropped(Stale(rcv))[n]

(* Where the receiver gets to in the history when it drops a stale         *)
(* route.                                                                  *)
LEMMA DroppedPos ==
  ASSUME NEW n \in Nets, NEW p, p = Dropped(Stale(rcv))[n]
  PROVE  /\ p = pos[n] \/ p \in Unseen(n)
         /\ rcv.rib[n].stale /\ Unseen(n) # {} => p \in Unseen(n)
         /\ ~rcv.rib[n].stale => p = pos[n]
  BY DEF Dropped, Stale

(* The withdrawals the receiver may be taken to have seen.                 *)
LEMMA UnseenIs ==
  ASSUME NEW n \in Nets, NEW j
  PROVE  j \in Unseen(n) <=>
           /\ j \in pos[n] .. Len(log[n]) /\ log[n][j] = None
           /\ \A k \in DOMAIN wire : Has(wire[k], n) => j <= wire[k].at[n]
  BY Zenon DEF Unseen, Has

(* bgp_rx(): a network takes the route of the message, is left alone,      *)
(* becomes stale or is dropped.                                            *)
LEMMA RxEffect ==
  ASSUME Types, Updates, bgp_rx
  PROVE  /\ wire # << >> /\ wire' = Tail(wire) /\ wire[1] \in Message
         /\ rcv' \in Rcv /\ rcv'.up = rcv.up
         /\ pos' \in [Nets -> Nat]
         /\ \A n \in Nets : Taken(n) \/ Left(n) \/ Marked(n) \/ Lost(n)
<1> DEFINE m == Head(wire)
<1>1. wire # << >> /\ wire' = Tail(wire) /\ wire \in Seq(Message)
  BY DEF bgp_rx, Types
<1>2. m \in Message /\ m = wire[1] /\ 1 \in DOMAIN wire
  BY <1>1, TailOf, SeqOf, EmptyOf
<1>3. /\ \/ m.t = "UPDATE" /\ bgp_rx_update(m)
         \/ m.t = "BoRR" /\ rcv' = bgp_refresh_begin(rcv) /\ UNCHANGED pos
         \/ /\ m.t = "EoRR"
            /\ rcv' = bgp_refresh_end(rcv)
            /\ pos' = IF rcv.load_state = "REFRESHING" THEN Dropped(Stale(rcv)) ELSE pos
         \/ /\ m.t = "EoR"
            /\ rcv' = bgp_rx_end_mark(rcv)
            /\ pos' = IF rcv.gr_active # "NONE" THEN Dropped(Stale(rcv)) ELSE pos
  BY DEF bgp_rx
<1> HIDE DEF m
<1>4. /\ rcv \in Rcv /\ pos \in [Nets -> Nat] /\ \A n \in Nets : rcv.rib[n] \in Route
  BY DEF Types, Rcv
<1>5. NoRoute \in Route
  BY DEF NoRoute, Route
<1>6. CASE m.t = "UPDATE" /\ bgp_rx_update(m)
  <2>1. \A n \in m.px : n \in Nets /\ m.v \in Values
    BY <1>2, <1>6 DEF Message
  <2>2. \A n \in m.px : m.at[n] \in Nat
    <3> SUFFICES ASSUME NEW n \in m.px PROVE m.at[n] \in Nat
      OBVIOUS
    <3>1. n \in Nets /\ Has(wire[1], n)
      BY <1>2, <1>6, <2>1, ZenonT(30) DEF Has
    <3>2. wire[1].at[n] \in pos[n] .. Len(log[n])
      BY <1>2, <3>1 DEF Updates
    <3> QED
      BY <1>2, <1>4, <3>1, <3>2, Wire
  <2>3. m.v \in Values
    BY <1>2, <1>6 DEF Message
  <2>4. rcv' = [rcv EXCEPT !.rib = [n \in Nets |->
                  IF n \in m.px THEN [v |-> m.v, stale |-> FALSE] ELSE rcv.rib[n]]]
    BY <1>4, <1>6 DEF bgp_rx_update, Rcv
  <2>5. [v |-> m.v, stale |-> FALSE] \in Route
    BY <2>3 DEF Route, Values
  <2>6. rcv' \in Rcv /\ rcv'.up = rcv.up
    BY <1>4, <2>4, <2>5, Zenon DEF Rcv
  <2>7. pos' \in [Nets -> Nat]
    BY <1>4, <1>6, <2>2, Zenon DEF bgp_rx_update
  <2>8. ASSUME NEW n \in Nets PROVE Taken(n) \/ Left(n)
    <3>1. rcv'.rib[n] = IF n \in m.px THEN [v |-> m.v, stale |-> FALSE] ELSE rcv.rib[n]
      BY <1>4, <2>4 DEF Rcv
    <3>2. pos'[n] = IF n \in m.px THEN m.at[n] ELSE pos[n]
      BY <1>6 DEF bgp_rx_update
    <3> QED
      BY <1>2, <1>6, <3>1, <3>2 DEF Taken, Left, Has
  <2> QED
    BY <1>1, <1>2, <2>6, <2>7, <2>8, ZenonT(30)
<1>7. CASE m.t = "BoRR" /\ rcv' = bgp_refresh_begin(rcv) /\ UNCHANGED pos
  <2>1. CASE rcv.load_state = "LOADING"
    <3>1. rcv' = rcv
      BY <1>7, <2>1 DEF bgp_refresh_begin
    <3>2. \A n \in Nets : Left(n)
      BY <1>2, <1>7, <3>1 DEF Left, Has
    <3> QED
      BY <1>1, <1>2, <1>4, <1>7, <3>1, <3>2
  <2>2. CASE rcv.load_state # "LOADING"
    <3> DEFINE q == [rcv EXCEPT !.load_state = "REFRESHING"]
    <3>1. q \in Rcv /\ q.up = rcv.up /\ q.rib = rcv.rib
      BY <1>4 DEF Rcv, FeedStates
    <3>2. rcv' = rt_refresh_begin(q)
      BY <1>7, <2>2 DEF bgp_refresh_begin
    <3> HIDE DEF q
    <3>3. /\ rcv' \in Rcv /\ SameSession(rcv', q)
          /\ \A n \in Nets : /\ rcv'.rib[n].v = q.rib[n].v
                             /\ rcv'.rib[n].stale <=> q.rib[n].v # None
      BY <3>1, <3>2, RefreshBegin, Zenon
    <3>4. ASSUME NEW n \in Nets PROVE Marked(n)
      <4>1. /\ rcv'.rib[n].v = rcv.rib[n].v
            /\ rcv'.rib[n].stale <=> rcv.rib[n].v # None
        BY <3>1, <3>3, Zenon
      <4>2. wire[1].t = "BoRR" /\ pos'[n] = pos[n]
        BY <1>2, <1>7, Zenon
      <4>3. CASE rcv.rib[n].v = None
        <5>1. rcv'.rib[n].v = None
          BY <4>1, <4>3
        <5> QED
          BY <4>1, <4>2, <5>1, Zenon DEF Marked
      <4>4. CASE rcv'.rib[n].stale
        BY <4>1, <4>2, <4>4 DEF Marked
      <4> QED
        BY <4>1, <4>3, <4>4
    <3>5. rcv'.up = rcv.up /\ pos' \in [Nets -> Nat]
      BY <1>4, <1>7, <3>1, <3>3, Zenon DEF SameSession
    <3> QED
      BY <1>1, <1>2, <3>3, <3>4, <3>5, Zenon
  <2> QED
    BY <2>1, <2>2, Zenon
<1>8. ASSUME m.t \in {"EoR", "EoRR"}, pos' = Dropped(Stale(rcv)),
             rcv' \in Rcv, rcv'.up = rcv.up,
             \A n \in Nets : rcv'.rib[n] = IF rcv.rib[n].stale THEN NoRoute ELSE rcv.rib[n]
      PROVE  /\ pos' \in [Nets -> Nat]
             /\ \A n \in Nets : Taken(n) \/ Left(n) \/ Marked(n) \/ Lost(n)
  <2>1. ASSUME NEW n \in Nets PROVE pos'[n] \in Nat
    <3>1. pos'[n] = pos[n] \/ pos'[n] \in pos[n] .. Len(log[n])
      BY <1>8, DroppedPos, UnseenIs, Zenon
    <3> QED
      BY <1>4, <3>1, Wire
  <2>2. pos' \in [Nets -> Nat]
    BY <1>8, <2>1 DEF Dropped
  <2>3. ASSUME NEW n \in Nets PROVE Left(n) \/ Lost(n)
    <3>1. CASE rcv.rib[n].stale
      BY <1>2, <1>8, <3>1, Zenon DEF Lost
    <3>2. CASE ~rcv.rib[n].stale
      <4>1. pos'[n] = pos[n]
        BY <1>8, <3>2, DroppedPos, Zenon
      <4> QED
        BY <1>2, <1>8, <3>2, <4>1, Zenon DEF Left, Has
    <3> QED
      BY <3>1, <3>2
  <2> QED
    BY <2>2, <2>3
<1>9. CASE /\ m.t = "EoRR" /\ rcv' = bgp_refresh_end(rcv)
           /\ pos' = IF rcv.load_state = "REFRESHING" THEN Dropped(Stale(rcv)) ELSE pos
  <2>1. CASE rcv.load_state # "REFRESHING"
    <3>1. rcv' = rcv /\ pos' = pos
      BY <1>9, <2>1 DEF bgp_refresh_end
    <3>2. \A n \in Nets : Left(n)
      BY <1>2, <1>9, <3>1, Zenon DEF Left, Has
    <3> QED
      BY <1>1, <1>2, <1>4, <3>1, <3>2
  <2>2. CASE rcv.load_state = "REFRESHING"
    <3>1. rcv' = [rcv EXCEPT !.load_state = "NONE",
                    !.rib = [n \in Nets |-> IF rcv.rib[n].stale THEN NoRoute ELSE rcv.rib[n]]]
      BY <1>4, <1>9, <2>2 DEF bgp_refresh_end, rt_refresh_end, Rcv
    <3>2. rcv' \in Rcv /\ rcv'.up = rcv.up
      BY <1>4, <1>5, <3>1, Zenon DEF Rcv, FeedStates
    <3>3. \A n \in Nets : rcv'.rib[n] = IF rcv.rib[n].stale THEN NoRoute ELSE rcv.rib[n]
      BY <1>4, <3>1, Zenon DEF Rcv
    <3> QED
      BY <1>1, <1>2, <1>8, <1>9, <2>2, <3>2, <3>3, Zenon
  <2> QED
    BY <2>1, <2>2
<1>10. CASE /\ m.t = "EoR" /\ rcv' = bgp_rx_end_mark(rcv)
            /\ pos' = IF rcv.gr_active # "NONE" THEN Dropped(Stale(rcv)) ELSE pos
  <2> DEFINE l == IF rcv.load_state = "LOADING" THEN "NONE" ELSE rcv.load_state
  <2>1. CASE rcv.gr_active = "NONE"
    <3>1. rcv' = [rcv EXCEPT !.load_state = l] /\ pos' = pos
      BY <1>4, <1>10, <2>1 DEF bgp_rx_end_mark, Rcv
    <3>2. rcv' \in Rcv /\ rcv'.up = rcv.up /\ rcv'.rib = rcv.rib
      BY <1>4, <3>1 DEF Rcv, FeedStates
    <3>3. \A n \in Nets : Left(n)
      BY <1>2, <1>10, <3>1, <3>2, Zenon DEF Left, Has
    <3> QED
      BY <1>1, <1>2, <1>4, <3>1, <3>2, <3>3
  <2>2. CASE rcv.gr_active # "NONE"
    <3>1. rcv' = [rcv EXCEPT !.load_state = l, !.gr_active = "NONE", !.stale_timer = FALSE,
                    !.rib = [n \in Nets |-> IF rcv.rib[n].stale THEN NoRoute ELSE rcv.rib[n]]]
      BY <1>4, <1>10, <2>2 DEF bgp_rx_end_mark, bgp_graceful_restart_done, rt_refresh_end, Rcv
    <3>2. rcv' \in Rcv /\ rcv'.up = rcv.up
      BY <1>4, <1>5, <3>1, Zenon DEF Rcv, FeedStates
    <3>3. \A n \in Nets : rcv'.rib[n] = IF rcv.rib[n].stale THEN NoRoute ELSE rcv.rib[n]
      BY <1>4, <3>1 DEF Rcv
    <3> QED
      BY <1>1, <1>2, <1>8, <1>10, <2>2, <3>2, <3>3, Zenon
  <2> QED
    BY <2>1, <2>2
<1> QED
  BY <1>3, <1>6, <1>7, <1>9, <1>10, Zenon

(* What is received was the first of the messages in flight.               *)
LEMMA Shifted ==
  ASSUME Types, wire # << >>, wire' = Tail(wire)
  PROVE  /\ wire' \in Seq(Message) /\ Len(wire) \in Nat \ {0} /\ Len(wire') = Len(wire) - 1
         /\ DOMAIN wire = 1 .. Len(wire) /\ DOMAIN wire' = 1 .. Len(wire) - 1
         /\ \A k \in 1 .. Len(wire) - 1 : wire'[k] = wire[k + 1]
<1>1. wire \in Seq(Message)
  BY DEF Types
<1>2. /\ wire' \in Seq(Message) /\ Len(wire') = Len(wire) - 1
      /\ \A k \in 1 .. Len(wire') : wire'[k] = wire[k + 1]
  BY <1>1, TailOf
<1>3. Len(wire) \in Nat \ {0} /\ DOMAIN wire = 1 .. Len(wire) /\ DOMAIN wire' = 1 .. Len(wire')
  BY <1>1, <1>2, SeqOf, EmptyOf
<1> QED
  BY <1>2, <1>3

(* What was true of message i is true of it when it is one nearer.         *)
LEMMA LastShifts ==
  ASSUME Types, Updates, bgp_rx, NEW n \in Nets, NEW v,
         NEW i \in 2 .. Len(wire) + 1, Last(n, v, i)
  PROVE  Last(n, v, i - 1)'
<1>1. /\ wire # << >> /\ wire' = Tail(wire)
      /\ Taken(n) \/ Left(n) \/ Marked(n) \/ Lost(n)
  BY RxEffect
<1>2. /\ Len(wire) \in Nat \ {0}
      /\ \A k \in 1 .. Len(wire) - 1 : wire'[k] = wire[k + 1]
  BY <1>1, Shifted
<1>3. \A k \in 1 .. i - 2 : wire'[k] = wire[k + 1] /\ k + 1 \in 2 .. i - 1
  BY <1>2
<1>4. \A k \in 2 .. i - 1 : wire[k] = wire'[k - 1] /\ k - 1 \in 1 .. i - 2
  BY <1>2
<1>5. ASSUME NEW k \in 1 .. (i - 1) - 1, Has(wire'[k], n),
             \A l \in k + 1 .. (i - 1) - 1 : ~Has(wire'[l], n)
      PROVE  wire'[k].v = v
  <2>1. k + 1 \in 1 .. i - 1 /\ wire'[k] = wire[k + 1]
    BY <1>2
  <2>2. \A l \in (k + 1) + 1 .. i - 1 : l - 1 \in k + 1 .. (i - 1) - 1 /\ wire[l] = wire'[l - 1]
    BY <1>2
  <2>3. \A l \in (k + 1) + 1 .. i - 1 : ~Has(wire[l], n)
    BY <1>5, <2>2
  <2> QED
    BY <1>5, <2>1, <2>3, Zenon DEF Last
<1>6. ASSUME \A k \in 1 .. (i - 1) - 1 : ~Has(wire'[k], n)
      PROVE  rcv'.rib[n].v \in {None, v} \/ rcv'.rib[n].stale
  <2>1. \A k \in 2 .. i - 1 : ~Has(wire[k], n)
    BY <1>2, <1>4, <1>6
  <2>2. CASE Has(wire[1], n)
    <3>1. Taken(n)
      BY <1>1, <2>2 DEF Left, Marked, Lost, Has
    <3>2. 1 \in 1 .. i - 1 /\ \A l \in 1 + 1 .. i - 1 : ~Has(wire[l], n)
      BY <1>2, <2>1
    <3>3. wire[1].v = v
      BY <2>2, <3>2, Zenon DEF Last
    <3> QED
      BY <3>1, <3>3, Zenon DEF Taken
  <2>3. CASE ~Has(wire[1], n)
    <3>1. \A k \in 1 .. i - 1 : k = 1 \/ k \in 2 .. i - 1
      BY <1>2
    <3>2. rcv.rib[n].v \in {None, v} \/ rcv.rib[n].stale
      BY <2>1, <2>3, <3>1, Zenon DEF Last
    <3> QED
      BY <1>1, <2>3, <3>2 DEF Taken, Left, Marked, Lost, NoRoute
  <2> QED
    BY <2>2, <2>3, Zenon
<1> QED
  BY <1>5, <1>6, ZenonT(30) DEF Last

(* A withdrawal that counts goes on to count when a message is received.   *)
LEMMA GoneShifts ==
  ASSUME Types, Updates, bgp_rx, NEW n \in Nets, NEW b \in Nat \ {0},
         NEW i \in 2 .. Len(wire) + 1, Gone(n, b, i)
  PROVE  Gone(n, b, i - 1)'
<1>1. /\ wire # << >> /\ wire' = Tail(wire) /\ UNCHANGED log
      /\ Taken(n) \/ Left(n) \/ Marked(n) \/ Lost(n)
  BY RxEffect, Zenon DEF bgp_rx
<1>2. /\ Len(wire) \in Nat \ {0} /\ DOMAIN wire = 1 .. Len(wire)
      /\ DOMAIN wire' = 1 .. Len(wire) - 1
      /\ \A k \in 1 .. Len(wire) - 1 : wire'[k] = wire[k + 1]
  BY <1>1, Shifted, Zenon
<1>3. Last(n, None, i - 1)'
  BY LastShifts, Zenon DEF Gone
<1>4. PICK j \in b .. Len(log[n]) :
        /\ log[n][j] = None /\ pos[n] <= j
        /\ \A k \in DOMAIN wire : Has(wire[k], n) =>
             IF k < i THEN wire[k].at[n] <= j ELSE j <= wire[k].at[n]
  BY Zenon DEF Gone
<1>5. PICK p \in b .. Len(log[n]) :
        /\ log[n][p] = None /\ pos'[n] <= p
        /\ \A k \in DOMAIN wire : Has(wire[k], n) =>
             IF k < i THEN wire[k].at[n] <= p ELSE p <= wire[k].at[n]
  <2>1. CASE pos'[n] <= j
    BY <1>4, <2>1, Zenon
  <2>2. CASE Lost(n) /\ ~(pos'[n] <= j)
    <3>1. pos'[n] # pos[n]
      BY <1>4, <2>2, Zenon
    <3>2. pos'[n] \in Unseen(n)
      BY <2>2, <3>1, DroppedPos, Zenon DEF Lost
    <3>3. /\ pos'[n] \in pos[n] .. Len(log[n]) /\ log[n][pos'[n]] = None
          /\ \A k \in DOMAIN wire : Has(wire[k], n) => pos'[n] <= wire[k].at[n]
      BY <3>2, UnseenIs
    <3>4. pos[n] \in Nat /\ Len(log[n]) \in Nat
      BY Wire, Zenon
    <3>5. pos'[n] \in b .. Len(log[n])
      BY <1>4, <2>2, <3>3, <3>4
    <3>6. ASSUME NEW k \in DOMAIN wire, Has(wire[k], n), k < i PROVE FALSE
      <4>1. wire[k].at[n] <= j /\ pos'[n] <= wire[k].at[n]
        BY <1>4, <3>3, <3>6, Zenon
      <4>2. wire[k].at[n] \in pos[n] .. Len(log[n])
        BY <3>6, Zenon DEF Updates
      <4> QED
        BY <1>4, <2>2, <3>4, <3>5, <4>1, <4>2
    <3> QED
      BY <3>3, <3>4, <3>5, <3>6
  <2>3. CASE Taken(n)
    <3>1. pos'[n] <= j
      BY <1>2, <1>4, <2>3 DEF Taken
    <3> QED
      BY <2>1, <3>1, Zenon
  <2>4. CASE Left(n) \/ Marked(n)
    <3>1. pos'[n] <= j
      BY <1>4, <2>4, Zenon DEF Left, Marked
    <3> QED
      BY <2>1, <3>1
  <2> QED
    BY <1>1, <2>1, <2>2, <2>3, <2>4, ZenonT(30)
<1>6. ASSUME NEW k \in DOMAIN wire', Has(wire'[k], n)
      PROVE  IF k < i - 1 THEN wire'[k].at[n] <= p ELSE p <= wire'[k].at[n]
  <2>1. k + 1 \in DOMAIN wire /\ wire'[k] = wire[k + 1] /\ (k + 1 < i <=> k < i - 1)
    BY <1>2
  <2> QED
    BY <1>5, <1>6, <2>1, Zenon
<1> QED
  BY <1>1, <1>3, <1>5, <1>6, Zenon DEF Gone

(* What is covered stays so when a message is received.                    *)
LEMMA CoveredShifts ==
  ASSUME Types, Updates, bgp_rx, NEW n \in Nets, NEW b \in Nat \ {0},
         NEW i \in 2 .. Len(wire) + 1, Covered(n, b, i)
  PROVE  Covered(n, b, i - 1)'
<1>1. /\ wire # << >> /\ wire' = Tail(wire) /\ UNCHANGED log
      /\ Taken(n) \/ Left(n) \/ Marked(n) \/ Lost(n)
  BY RxEffect, ZenonT(30) DEF bgp_rx
<1>2. /\ Len(wire) \in Nat \ {0} /\ DOMAIN wire = 1 .. Len(wire)
      /\ \A k \in 1 .. Len(wire) - 1 : wire'[k] = wire[k + 1]
  BY <1>1, Shifted
<1>3. \A l \in 1 .. (i - 1) - 1 : wire'[l] = wire[l + 1] /\ l + 1 \in 1 .. i - 1
  BY <1>2
<1>4. Has(wire[1], n) => /\ wire[1].at[n] \in pos[n] .. Len(log[n])
                         /\ log[n][wire[1].at[n]] = wire[1].v
  BY <1>2 DEF Updates
<1>5. CASE Gone(n, b, i)
  BY <1>5, GoneShifts DEF Covered
<1>6. CASE Sent(n, b, i)
  <2>1. PICK k \in 1 .. i - 1 : /\ Has(wire[k], n) /\ b <= wire[k].at[n]
                                /\ \A l \in k .. i - 1 : wire[l].t # "BoRR"
    BY <1>6 DEF Sent
  <2>2. CASE k = 1
    <3>1. Taken(n)
      BY <1>1, <2>1, <2>2, Zenon DEF Left, Marked, Lost, Has
    <3>2. \A l \in 1 .. (i - 1) - 1 : wire'[l].t # "BoRR"
      BY <1>3, <2>1, <2>2, Zenon
    <3>3. Arrived(n, b, i - 1)'
      BY <1>1, <1>4, <2>1, <2>2, <3>1, <3>2, Zenon DEF Arrived, Taken
    <3> QED
      BY <3>3, Zenon DEF Covered
  <2>3. CASE k # 1
    <3>1. k - 1 \in 1 .. (i - 1) - 1 /\ wire'[k - 1] = wire[k]
      BY <1>2, <2>1, <2>3
    <3>2. \A l \in k - 1 .. (i - 1) - 1 : wire'[l] = wire[l + 1] /\ l + 1 \in k .. i - 1
      BY <1>2, <2>1, <2>3
    <3>3. \A l \in k - 1 .. (i - 1) - 1 : wire'[l].t # "BoRR"
      BY <2>1, <3>2
    <3>4. Sent(n, b, i - 1)'
      BY <2>1, <3>1, <3>3, Zenon DEF Sent
    <3> QED
      BY <3>4 DEF Covered
  <2> QED
    BY <2>2, <2>3, ZenonT(30)
<1>7. CASE Arrived(n, b, i)
  <2>1. \A l \in 1 .. (i - 1) - 1 : wire'[l].t # "BoRR"
    BY <1>3, <1>7, Zenon DEF Arrived
  <2>2. 1 \in 1 .. i - 1
    BY <1>2
  <2>3. wire[1].t # "BoRR" /\ ~rcv.rib[n].stale
    BY <1>7, <2>2 DEF Arrived
  <2>4. CASE Taken(n)
    <3>0. /\ b \in Nat /\ pos[n] \in Nat /\ Len(log[n]) \in Nat /\ b <= pos[n]
          /\ wire[1].at[n] \in pos[n] .. Len(log[n])
      BY <1>4, <1>7, <2>4, Wire, Zenon DEF Arrived, Taken
    <3>1. b <= wire[1].at[n]
      BY <3>0, LaterReaches, Zenon
    <3>2. Arrived(n, b, i - 1)'
      BY <1>1, <1>4, <2>1, <2>4, <3>1, Zenon DEF Arrived, Taken
    <3> QED
      BY <3>2, Zenon DEF Covered
  <2>5. CASE Left(n)
    <3>1. Arrived(n, b, i - 1)'
      BY <1>1, <1>7, <2>1, <2>5, Zenon DEF Arrived, Left
    <3> QED
      BY <3>1 DEF Covered
  <2> QED
    BY <1>1, <2>3, <2>4, <2>5, ZenonT(30) DEF Marked, Lost
<1> QED
  BY <1>5, <1>6, <1>7 DEF Covered
-----------------------------------------------------------------------------
(* Transmission: what bgp_fire_tx() does. *)
FireBegin ==
  /\ "BoRR" \in snd.packets_to_send
  /\ wire' = Append(wire, mark("BoRR", snd)) /\ SameFeed(snd', snd)
  /\ \A m \in Nets : Waits(snd, m) => Waits(snd', m)
FireUpdate(px, v) ==
  /\ "BoRR" \notin snd.packets_to_send
  /\ "BoRR" \notin snd'.packets_to_send
  /\ wire' = Append(wire, update(px, v)) /\ SameFeed(snd', snd)
  /\ \A m \in px : Exported(snd.best[m]) = v
  /\ \A m \in Nets : Waits(snd, m) => m \in px \/ Waits(snd', m)
FireEnd(t) ==
  /\ "BoRR" \notin snd.packets_to_send
  /\ snd.feed_state = (IF t = "EoR" THEN "LOADED" ELSE "REFRESHED")
  /\ wire' = Append(wire, mark(t, snd)) 
  /\ snd'.best = snd.best /\ snd'.begun = snd.begun /\ snd'.feed = snd.feed
  /\ snd'.refeeding = snd.refeeding /\ snd'.feed_todo = snd.feed_todo
  /\ snd'.feed_state = "NONE"
  /\ \A m \in Nets : ~Waits(snd, m)
FireNothing ==
  /\ wire' = wire /\ SameFeed(snd', snd) /\ \A m \in Nets : ~Waits(snd, m)
  /\ snd'.packets_to_send = {} /\ "BoRR" \notin snd.packets_to_send
  /\ snd.feed_state \notin {"LOADED", "REFRESHED"}

(* What waits stays up to date when some of it is sent or becomes a        *)
(* withdrawal.                                                             *)
LEMMA QueueKept ==
  ASSUME Queue, snd'.best = snd.best,
         \A m \in Nets :
           /\ \A v \in Attrs : Bucketed(snd', m, v) => Bucketed(snd, m, v)
           /\ m \in snd'.withdraw_bucket =>
                m \in snd.withdraw_bucket \/ \E v \in Attrs \cap TooLong : Bucketed(snd, m, v)
  PROVE  Queue'
<1> SUFFICES ASSUME NEW n \in Nets
             PROVE  /\ n \in snd'.withdraw_bucket => Exported(snd'.best[n]) = None
                    /\ \A v \in Attrs : Bucketed(snd', n, v) => snd'.best[n] = v
  BY DEF Queue
<1>1. \A v \in Attrs : Bucketed(snd', n, v) => snd'.best[n] = v
  BY DEF Queue
<1>2. ASSUME n \in snd'.withdraw_bucket PROVE Exported(snd.best[n]) = None
  <2>1. CASE n \in snd.withdraw_bucket
    BY <2>1 DEF Queue
  <2>2. CASE \E v \in Attrs \cap TooLong : Bucketed(snd, n, v)
    <3>1. snd.best[n] \in TooLong
      BY <2>2 DEF Queue
    <3> QED
      BY <3>1 DEF Exported
  <2> QED
    BY <1>2, <2>1, <2>2, Zenon
<1> QED
  BY <1>1, <1>2, Zenon

(* bgp_fire_tx(): one of the four things it may do.                        *)
LEMMA FireEffect ==
  ASSUME snd \in Snd, Queue, bgp_fire_tx
  PROVE  /\ snd' \in Snd /\ Queue'
         /\ \/ FireBegin
            \/ \E px \in SUBSET Nets, v \in Values : FireUpdate(px, v)
            \/ \E t \in {"EoR", "EoRR"} : FireEnd(t)
            \/ FireNothing
<1>1. CASE "BoRR" \in snd.packets_to_send
  <2>1. /\ snd' = [snd EXCEPT !.packets_to_send = @ \ {"BoRR"}]
        /\ wire' = Append(wire, mark("BoRR", snd))
    BY <1>1 DEF bgp_fire_tx
  <2>2. /\ snd' \in Snd /\ SameFeed(snd', snd)
        /\ snd'.withdraw_bucket = snd.withdraw_bucket /\ snd'.buckets = snd.buckets
    BY <2>1, Zenon DEF Snd, SameFeed
  <2>3. \A m \in Nets : /\ \A v \in Attrs : Bucketed(snd', m, v) <=> Bucketed(snd, m, v)
                        /\ m \in snd'.withdraw_bucket <=> m \in snd.withdraw_bucket
                        /\ Waits(snd, m) => Waits(snd', m)
    BY <2>2, Zenon DEF Bucketed, Waits
  <2>4. Queue'
    BY <2>2, <2>3, QueueKept DEF SameFeed
  <2>5. FireBegin
    BY <1>1, <2>1, <2>2, <2>3, Zenon DEF FireBegin
  <2> QED
    BY <2>2, <2>4, <2>5
<1>2. CASE "BoRR" \notin snd.packets_to_send
  <2>0. PICK s \in Met(snd) :
          \/ \E u \in bgp_create_update(s) : snd' = u[1] /\ wire' = Append(wire, u[2])
          \/ /\ bgp_create_update(s) = {}
             /\ snd' = [s EXCEPT !.packets_to_send = {}, !.feed_state =
                         IF @ \in {"LOADED", "REFRESHED"} THEN "NONE" ELSE @]
             /\ wire' = IF s.feed_state = "LOADED" THEN Append(wire, mark("EoR", s))
                        ELSE IF s.feed_state = "REFRESHED" THEN Append(wire, mark("EoRR", s))
                        ELSE wire
    BY <1>2, Zenon DEF bgp_fire_tx
  <2>1. /\ s \in Snd /\ SameFeed(s, snd) /\ s.packets_to_send = snd.packets_to_send
        /\ \A m \in Nets :
              /\ Waits(snd, m) => Waits(s, m)
              /\ \A v \in Attrs : Bucketed(s, m, v) => Bucketed(snd, m, v)
              /\ m \in s.withdraw_bucket =>
                   m \in snd.withdraw_bucket \/ \E v \in Attrs \cap TooLong : Bucketed(snd, m, v)
        /\ s.withdraw_bucket = {} /\ s.buckets # << >> => Head(s.buckets).eattrs \notin TooLong
    BY MetSound
  <2>2. CASE bgp_create_update(s) # {}
    <3>1. PICK u \in bgp_create_update(s) : snd' = u[1] /\ wire' = Append(wire, u[2])
      BY <2>0, <2>2, Zenon
    <3>2. PICK px \in SUBSET Nets, v \in Values :
            /\ u[2] = update(px, v)
            /\ \A m \in px : \/ v = None /\ m \in s.withdraw_bucket
                             \/ v \in Attrs \ TooLong /\ Bucketed(s, m, v)
            /\ u[1] \in Snd /\ SameFeed(u[1], s)
            /\ u[1].packets_to_send = s.packets_to_send
            /\ \A m \in Nets :
                 /\ Waits(s, m) => m \in px \/ Waits(u[1], m)
                 /\ m \in u[1].withdraw_bucket => m \in s.withdraw_bucket
                 /\ \A w \in Attrs : Bucketed(u[1], m, w) => Bucketed(s, m, w)
      BY <2>1, Created, ZenonT(30)
    <3>3. /\ snd' \in Snd /\ SameFeed(snd', snd) /\ wire' = Append(wire, update(px, v))
          /\ snd'.packets_to_send = snd.packets_to_send
      BY <2>1, <3>1, <3>2, ZenonT(30) DEF SameFeed
    <3>4. \A m \in Nets :
            /\ Waits(snd, m) => m \in px \/ Waits(snd', m)
            /\ m \in snd'.withdraw_bucket => m \in s.withdraw_bucket
            /\ \A w \in Attrs : Bucketed(snd', m, w) => Bucketed(s, m, w)
      BY <2>1, <3>1, <3>2, Zenon
    <3>5. Queue'
      BY <2>1, <3>3, <3>4, QueueKept, ZenonT(30) DEF SameFeed
    <3>6. ASSUME NEW m \in px PROVE Exported(snd.best[m]) = v
      <4>1. CASE v = None /\ m \in s.withdraw_bucket
        <5>1. CASE m \in snd.withdraw_bucket
          BY <4>1, <5>1 DEF Queue
        <5>2. CASE \E w \in Attrs \cap TooLong : Bucketed(snd, m, w)
          <6>1. snd.best[m] \in TooLong
            BY <5>2 DEF Queue
          <6> QED
            BY <4>1, <6>1, Zenon DEF Exported
        <5> QED
          BY <2>1, <4>1, <5>1, <5>2, Zenon
      <4>2. CASE v \in Attrs \ TooLong /\ Bucketed(s, m, v)
        <5>1. snd.best[m] = v
          BY <2>1, <4>2, Zenon DEF Queue
        <5> QED
          BY <4>2, <5>1, Zenon DEF Exported
      <4> QED
        BY <3>2, <4>1, <4>2, ZenonT(30)
    <3>7. FireUpdate(px, v)
      BY <1>2, <3>3, <3>4, <3>6, Zenon DEF FireUpdate
    <3> QED
      BY <3>3, <3>5, <3>7
  <2>3. CASE bgp_create_update(s) = {}
    <3> DEFINE f == IF s.feed_state \in {"LOADED", "REFRESHED"} THEN "NONE" ELSE s.feed_state
    <3>1. /\ snd' = [s EXCEPT !.packets_to_send = {}, !.feed_state = f]
          /\ wire' = IF s.feed_state = "LOADED" THEN Append(wire, mark("EoR", s))
                     ELSE IF s.feed_state = "REFRESHED" THEN Append(wire, mark("EoRR", s))
                     ELSE wire
      BY <2>0, <2>1, <2>3, Zenon DEF Snd
    <3>2. f \in FeedStates
      BY <2>1 DEF Snd, FeedStates
    <3> HIDE DEF f
    <3>3. /\ snd' \in Snd /\ snd'.packets_to_send = {} /\ snd'.feed_state = f
          /\ snd'.withdraw_bucket = s.withdraw_bucket /\ snd'.buckets = s.buckets
      BY <2>1, <3>1, <3>2, Zenon DEF Snd
    <3>4. /\ snd'.best = snd.best /\ snd'.begun = snd.begun /\ snd'.feed = snd.feed
          /\ snd'.refeeding = snd.refeeding /\ snd'.feed_todo = snd.feed_todo
          /\ s.feed_state = snd.feed_state /\ s.begun = snd.begun
      BY <2>1, <3>1, Zenon DEF Snd, SameFeed
    <3>5. \A m \in Nets : ~Waits(snd, m)
      BY <2>1, <2>3, NothingWaits, Zenon
    <3>6. Queue'
      <4>1. \A m \in Nets, v \in Attrs : Bucketed(snd', m, v) => Bucketed(s, m, v)
        BY <3>3 DEF Bucketed
      <4> QED
        BY <2>1, <3>3, <3>4, <4>1, QueueKept, Zenon
    <3>7. CASE snd.feed_state = "LOADED"
      <4>1. wire' = Append(wire, mark("EoR", snd)) /\ snd'.feed_state = "NONE"
        BY <3>1, <3>3, <3>4, <3>7, Zenon DEF mark, f
      <4>2. FireEnd("EoR")
        BY <1>2, <3>3, <3>4, <3>5, <3>7, <4>1, Zenon DEF FireEnd, SameFeed, Snd
      <4> QED
        BY <3>3, <3>6, <4>2
    <3>8. CASE snd.feed_state = "REFRESHED"
      <4>1. wire' = Append(wire, mark("EoRR", snd)) /\ snd'.feed_state = "NONE"
        BY <3>1, <3>3, <3>4, <3>8, Zenon DEF mark, f
      <4>2. FireEnd("EoRR")
        BY <1>2, <3>3, <3>4, <3>5, <3>8, <4>1, Zenon DEF FireEnd, SameFeed, Snd
      <4> QED
        BY <3>3, <3>6, <4>2
    <3>9. CASE snd.feed_state \notin {"LOADED", "REFRESHED"}
      <4>1. wire' = wire /\ snd'.feed_state = snd.feed_state
        BY <3>1, <3>3, <3>4, <3>9, Zenon DEF f
      <4>2. FireNothing
        BY <1>2, <3>3, <3>4, <3>5, <3>9, <4>1, Zenon DEF FireNothing, SameFeed
      <4> QED
        BY <3>3, <3>6, <4>2
    <3> QED
      BY <3>7, <3>8, <3>9
  <2> QED
    BY <2>2, <2>3
<1> QED
  BY <1>1, <1>2
-----------------------------------------------------------------------------
(* The parts of the invariant that speak of messages, in a step that sends *)
(* or exports. *)
LEMMA SameWire ==
  ASSUME Types, wire' = wire, NEW n \in Nets, pos'[n] = pos[n], log'[n] = log[n],
         rcv'.rib[n] = rcv.rib[n] \/ (rcv.rib[n].stale /\ rcv'.rib[n] = NoRoute)
  PROVE  Extends(n)
<1>1. Len(wire) \in Nat /\ Len(log[n]) \in Nat
  BY Wire
<1> QED
  BY <1>1 DEF Extends

(* The marks in flight stay true when a mark that is true follows.         *)
LEMMA MarksExtend ==
  ASSUME Types, Types', Logs, Marks, \A n \in Nets : Extends(n),
         \A i \in Len(wire) + 1 .. Len(wire') : wire'[i].t \in {"EoR", "EoRR"} =>
           \A n \in Nets, b \in Nat \ {0} : b = wire'[i].begun[n] => Covered(n, b, i)'
  PROVE  Marks'
<1> SUFFICES ASSUME NEW i \in DOMAIN wire', wire'[i].t \in {"EoR", "EoRR"}, NEW n \in Nets,
                    NEW b, b = wire'[i].begun[n]
             PROVE  Covered(n, b, i)'
  BY Zenon DEF Marks
<1>1. /\ Len(wire) \in Nat /\ Len(wire') \in Nat
      /\ DOMAIN wire = 1 .. Len(wire) /\ DOMAIN wire' = 1 .. Len(wire')
      /\ \A k \in DOMAIN wire' : wire'[k] \in Message
  BY Wire, SeqOf, Zenon DEF Types
<1>2. b \in Nat \ {0}
  <2>1. wire'[i] \in Message
    BY <1>1, Zenon
  <2> QED
    BY <2>1 DEF Message
<1>3. CASE i \in DOMAIN wire
  <2>1. wire'[i] = wire[i]
    BY <1>1, <1>3, Zenon DEF Extends
  <2>2. Covered(n, b, i)
    BY <1>3, <2>1, Zenon DEF Marks
  <2>3. /\ i \in 1 .. Len(wire) + 1 /\ i \in i .. Len(wire') + 1
        /\ \A k \in i .. i - 1 : ~Has(wire'[k], n) /\ wire'[k].t # "BoRR"
    BY <1>1, <1>3
  <2>4. pos[n] \in 1 .. Len(log[n]) /\ Extends(n)
    BY Zenon DEF Logs
  <2> QED
    BY <1>2, <2>2, <2>3, <2>4, CoveredExtends, Zenon
<1>4. CASE i \notin DOMAIN wire
  BY <1>1, <1>2, <1>4, SMTT(30)
<1> QED
  BY <1>3, <1>4, Zenon

(* The updates in flight stay in order when one of the current value       *)
(* follows.                                                                *)
LEMMA UpdatesExtend ==
  ASSUME Types, Types', Logs, Updates, \A n \in Nets : Extends(n),
         \A n \in Nets, k \in Len(wire) + 1 .. Len(wire') :
           Has(wire'[k], n) => wire'[k].v = Current(n)
  PROVE  Updates'
<1> SUFFICES ASSUME NEW n \in Nets, NEW i \in DOMAIN wire', Has(wire'[i], n)
             PROVE  /\ wire'[i].at[n] \in pos'[n] .. Len(log'[n])
                    /\ log'[n][wire'[i].at[n]] = wire'[i].v
                    /\ \A k \in DOMAIN wire' :
                         i <= k /\ Has(wire'[k], n) => wire'[i].at[n] <= wire'[k].at[n]
  BY Zenon DEF Updates
<1>1. /\ Len(wire) \in Nat /\ Len(wire') \in Nat
      /\ DOMAIN wire = 1 .. Len(wire) /\ DOMAIN wire' = 1 .. Len(wire')
      /\ Len(log[n]) \in Nat /\ Len(log'[n]) \in Nat /\ pos[n] \in Nat
  BY Wire, SeqOf DEF Types
<1>2. /\ pos[n] \in 1 .. Len(log[n]) /\ Extends(n)
  BY Zenon DEF Logs
<1>3. ASSUME NEW k \in DOMAIN wire', k \notin DOMAIN wire, Has(wire'[k], n)
      PROVE  wire'[k].at[n] = Len(log[n]) /\ wire'[k].v = log[n][Len(log[n])]
  <2>1. k \in Len(wire) + 1 .. Len(wire')
    BY <1>1, <1>3, SMTT(30)
  <2> QED
    BY <1>2, <1>3, <2>1, Zenon DEF Extends, Current
<1>4. ASSUME NEW k \in DOMAIN wire, Has(wire'[k], n)
      PROVE  /\ wire'[k] = wire[k] /\ wire[k].at[n] \in pos[n] .. Len(log[n])
             /\ log[n][wire[k].at[n]] = wire[k].v
             /\ \A l \in DOMAIN wire :
                  k <= l /\ Has(wire[l], n) => wire[k].at[n] <= wire[l].at[n]
  <2>1. wire'[k] = wire[k]
    BY <1>1, <1>2, Zenon DEF Extends
  <2> QED
    BY <1>4, <2>1, Zenon DEF Updates
<1>5. /\ wire'[i].at[n] \in pos[n] .. Len(log[n])
      /\ log[n][wire'[i].at[n]] = wire'[i].v
  <2>1. CASE i \in DOMAIN wire
    BY <1>4, <2>1, Zenon
  <2>2. CASE i \notin DOMAIN wire
    BY <1>1, <1>2, <1>3, <2>2, SMTT(30)
  <2> QED
    BY <2>1, <2>2, ZenonT(30)
<1>6. /\ wire'[i].at[n] \in pos'[n] .. Len(log'[n])
      /\ log'[n][wire'[i].at[n]] = wire'[i].v
  BY <1>1, <1>2, <1>5 DEF Extends
<1>7. ASSUME NEW k \in DOMAIN wire', i <= k, Has(wire'[k], n)
      PROVE  wire'[i].at[n] <= wire'[k].at[n]
  <2>1. CASE k \in DOMAIN wire
    <3>1. i \in DOMAIN wire /\ wire'[k] = wire[k]
      BY <1>1, <1>2, <1>7, <2>1, SMTT(30) DEF Extends
    <3> QED
      BY <1>4, <1>7, <2>1, <3>1, Zenon
  <2>2. CASE k \notin DOMAIN wire
    BY <1>1, <1>3, <1>5, <1>7, <2>2, SMTT(30)
  <2> QED
    BY <2>1, <2>2, SMTT(30)
<1> QED
  BY <1>6, <1>7, Zenon

(* A network that is up to date stays so, if nothing is sent for it.       *)
LEMMA SyncedExtends ==
  ASSUME Types, Types', NEW n \in Nets, Extends(n), log'[n] = log[n],
         \A k \in Len(wire) + 1 .. Len(wire') : ~Has(wire'[k], n),
         Last(n, Current(n), Len(wire) + 1)
  PROVE  Last(n, Current(n), Len(wire) + 1)'
<1> DEFINE v == Current(n)
           h == Len(wire') + 1
<1>1. /\ Len(wire) \in Nat /\ Len(wire') \in Nat /\ Len(wire) <= Len(wire')
  BY Wire, SeqOf, Zenon DEF Types, Extends
<1>2. Current(n)' = v
  BY Zenon DEF Current
<1>3. /\ Len(wire) + 1 \in 1 .. Len(wire) + 1 /\ h \in Len(wire) + 1 .. Len(wire') + 1
      /\ \A k \in Len(wire) + 1 .. h - 1 : ~Has(wire'[k], n)
  BY <1>1
<1> HIDE DEF v, h
<1>4. Last(n, v, Len(wire) + 1)
  BY Zenon DEF v
<1>5. ASSUME NEW w, NEW i, w = v, i = h PROVE Last(n, w, i)'
  BY <1>3, <1>4, <1>5, LastExtends, Zenon
<1> QED
  BY <1>2, <1>5, ZenonT(30) DEF h

(* What the end of the feed that goes on relies on, for network n.         *)
Relies(n) ==
  \/ Gone(n, snd.begun[n], Len(wire) + 1)
  \/ "BoRR" \notin snd.packets_to_send /\ Covered(n, snd.begun[n], Len(wire) + 1)

(* The same for what the end of the feed that goes on relies on.           *)
LEMMA ReliesExtend ==
  ASSUME Types, Types', Logs, NEW n \in Nets, Extends(n), Relies(n),
         snd'.begun[n] = snd.begun[n],
         \A k \in Len(wire) + 1 .. Len(wire') : ~Has(wire'[k], n),
         "BoRR" \in snd.packets_to_send \/
           ("BoRR" \notin snd'.packets_to_send
             /\ \A k \in Len(wire) + 1 .. Len(wire') : wire'[k].t # "BoRR")
  PROVE  Relies(n)'
<1> DEFINE b == snd.begun[n]
           i == Len(wire) + 1
           h == Len(wire') + 1
<1>1. /\ Len(wire) \in Nat /\ Len(wire') \in Nat /\ Len(wire) <= Len(wire')
  BY Wire, SeqOf, SMTT(30) DEF Types, Extends
<1>2. b \in Nat \ {0} /\ pos[n] \in 1 .. Len(log[n])
  BY Zenon DEF Types, Snd, Logs
<1>3. i \in 1 .. Len(wire) + 1 /\ h \in i .. Len(wire') + 1 /\ h - 1 = Len(wire')
  BY <1>1
<1> HIDE DEF b, i, h
<1>4. ASSUME NEW c, NEW j, NEW g, c = b, j = i, g = h
      PROVE  Relies(n)'
  <2>1. CASE Gone(n, c, j)
    <3>1. Gone(n, c, g)'
      BY <1>2, <1>3, <1>4, <2>1, GoneExtends, Zenon DEF i
    <3> QED
      BY <1>4, <3>1, ZenonT(30) DEF Relies, b, h
  <2>2. CASE "BoRR" \notin snd.packets_to_send /\ Covered(n, c, j)
    <3>1. Covered(n, c, g)'
      BY <1>2, <1>3, <1>4, <2>2, CoveredExtends, ZenonT(30) DEF i
    <3> QED
      BY <1>4, <2>2, <3>1, Zenon DEF Relies, b, h
  <2> QED
    BY <1>4, <2>1, <2>2, ZenonT(30) DEF Relies, b, i
<1> QED
  BY <1>4, Zenon

(* No message is on its way: nothing is to be shown of messages.           *)
LEMMA NoMessages ==
  ASSUME wire' = << >>
  PROVE  Updates' /\ Marks'
<1>1. DOMAIN wire' = {}
  OBVIOUS
<1> QED
  BY <1>1, Zenon DEF Updates, Marks

-----------------------------------------------------------------------------
(* The invariant is kept by the steps of the sender. *)

(* A feed and a session that stay as they are.                             *)
LEMMA EndsKept ==
  ASSUME Ends, UNCHANGED <<conf, wire>>, rcv'.up = rcv.up, rcv'.load_state = rcv.load_state,
         snd'.feed_state = snd.feed_state, snd'.feed = snd.feed,
         snd'.refeeding = snd.refeeding, snd'.feed_todo = snd.feed_todo
  PROVE  Ends'
  BY Zenon DEF Ends

(* The feed that goes on stays sound if what it relies on for a network    *)
(* is kept or the network waits.                                           *)
LEMMA OpenKept ==
  ASSUME Open, rcv'.up => rcv.up, snd'.feed_state # "NONE" => snd.feed_state # "NONE",
         \A n \in Nets : /\ Waits(snd, n) => Waits(snd', n) \/ Relies(n)'
                         /\ Visits(snd, n) => Visits(snd', n) \/ Waits(snd', n) \/ Relies(n)'
                         /\ Relies(n) => Waits(snd', n) \/ Relies(n)'
  PROVE  Open'
<1> SUFFICES ASSUME rcv'.up, snd'.feed_state # "NONE", NEW n \in Nets
             PROVE  Waits(snd', n) \/ Visits(snd', n) \/ Relies(n)'
  BY ZenonT(30) DEF Open, Relies
<1>1. Waits(snd, n) \/ Visits(snd, n) \/ Relies(n)
  BY Zenon DEF Open, Relies
<1> QED
  BY <1>1

(* RouteChange(): the table and the history have the new value, nothing    *)
(* else changes but what waits.                                            *)
LEMMA ExportEffect ==
  ASSUME Types, NEW n \in Nets, NEW v \in Values, RouteChange(n, v),
         NEW s, s = [snd EXCEPT !.best[n] = v]
  PROVE  /\ s \in Snd /\ s.best[n] = v /\ \A m \in Nets \ {n} : s.best[m] = snd.best[m]
         /\ s.withdraw_bucket = snd.withdraw_bucket /\ s.buckets = snd.buckets
         /\ s.packets_to_send = snd.packets_to_send /\ s.begun = snd.begun
         /\ s.feed_state = snd.feed_state /\ s.feed = snd.feed
         /\ s.refeeding = snd.refeeding /\ s.feed_todo = snd.feed_todo
         /\ snd' = IF rcv.up THEN bgp_rt_notify(s, n) ELSE s
         /\ UNCHANGED <<conf, rcv, wire, back, pos>>
         /\ log' \in [Nets -> Seq(Values)] /\ \A m \in Nets \ {n} : log'[m] = log[m]
         /\ Len(log'[n]) = Len(log[n]) + 1 /\ Current(n)' = Exported(v)
         /\ \A m \in Nets : Extends(m)
<1>1. /\ UNCHANGED <<conf, rcv, wire, back, pos>>
      /\ log' = [log EXCEPT ![n] = Append(log[n], Exported(v))]
      /\ snd' = IF rcv.up THEN bgp_rt_notify(s, n) ELSE s
  BY DEF RouteChange
<1>2. snd \in Snd /\ log \in [Nets -> Seq(Values)] /\ Exported(v) \in Values
  BY DEF Types, Exported, Values
<1>3. /\ s \in Snd /\ s.best = [snd.best EXCEPT ![n] = v]
      /\ s.withdraw_bucket = snd.withdraw_bucket /\ s.buckets = snd.buckets
      /\ s.packets_to_send = snd.packets_to_send /\ s.begun = snd.begun
      /\ s.feed_state = snd.feed_state /\ s.feed = snd.feed
      /\ s.refeeding = snd.refeeding /\ s.feed_todo = snd.feed_todo
  BY <1>2, Zenon DEF Snd, Values
<1>4. s.best[n] = v /\ \A m \in Nets \ {n} : s.best[m] = snd.best[m]
  BY <1>2, <1>3 DEF Snd
<1>5. /\ Append(log[n], Exported(v)) \in Seq(Values)
      /\ Len(Append(log[n], Exported(v))) = Len(log[n]) + 1
      /\ \A j \in 1 .. Len(log[n]) : Append(log[n], Exported(v))[j] = log[n][j]
      /\ Append(log[n], Exported(v))[Len(log[n]) + 1] = Exported(v)
  BY <1>2, AppendOf
<1>6. /\ log' \in [Nets -> Seq(Values)] /\ log'[n] = Append(log[n], Exported(v))
      /\ \A m \in Nets \ {n} : log'[m] = log[m]
  BY <1>1, <1>2, <1>5
<1>7. Len(log'[n]) = Len(log[n]) + 1 /\ Current(n)' = Exported(v)
  BY <1>5, <1>6 DEF Current
<1>8. ASSUME NEW m \in Nets PROVE Extends(m)
  <2>1. Len(wire) \in Nat /\ Len(log[m]) \in Nat
    BY Wire
  <2>2. CASE m = n
    <3>1. Len(log[m]) <= Len(log'[m]) /\ \A j \in 1 .. Len(log[m]) : log'[m][j] = log[m][j]
      BY <1>5, <1>6, <2>1, <2>2
    <3> QED
      BY <1>1, <2>1, <3>1 DEF Extends
  <2>3. CASE m # n
    BY <1>1, <1>6, <2>1, <2>3 DEF Extends
  <2> QED
    BY <2>2, <2>3
<1> QED
  BY <1>1, <1>3, <1>4, <1>6, <1>7, <1>8, Zenon

(* A change of a route keeps the invariant.                                *)
LEMMA RouteChangeStep ==
  ASSUME IInv, NEW n \in Nets, NEW v \in Values, RouteChange(n, v)
  PROVE  IInv'
<1> DEFINE s == [snd EXCEPT !.best[n] = v]
<1>1. /\ s \in Snd /\ s.best[n] = v /\ \A m \in Nets \ {n} : s.best[m] = snd.best[m]
      /\ s.withdraw_bucket = snd.withdraw_bucket /\ s.buckets = snd.buckets
      /\ s.packets_to_send = snd.packets_to_send /\ s.begun = snd.begun
      /\ s.feed_state = snd.feed_state /\ s.feed = snd.feed
      /\ s.refeeding = snd.refeeding /\ s.feed_todo = snd.feed_todo
      /\ snd' = IF rcv.up THEN bgp_rt_notify(s, n) ELSE s
      /\ UNCHANGED <<conf, rcv, wire, back, pos>>
      /\ log' \in [Nets -> Seq(Values)] /\ \A m \in Nets \ {n} : log'[m] = log[m]
      /\ Len(log'[n]) = Len(log[n]) + 1 /\ Current(n)' = Exported(v)
      /\ \A m \in Nets : Extends(m)
  BY ExportEffect, Zenon DEF IInv
<1> HIDE DEF s
<1>2. /\ snd' \in Snd /\ snd'.best = s.best /\ snd'.begun = snd.begun
      /\ snd'.feed_state = snd.feed_state /\ snd'.feed = snd.feed
      /\ snd'.refeeding = snd.refeeding /\ snd'.feed_todo = snd.feed_todo
      /\ \A m \in Nets \ {n} : Waits(snd, m) <=> Waits(snd', m)
      /\ \A m \in Nets \ {n}, w \in Attrs : Bucketed(snd', m, w) <=> Bucketed(snd, m, w)
      /\ \A m \in Nets \ {n} : m \in snd'.withdraw_bucket <=> m \in snd.withdraw_bucket
      /\ "BoRR" \in snd'.packets_to_send <=> "BoRR" \in snd.packets_to_send
      /\ IF rcv.up
         THEN /\ Waits(snd', n) /\ (n \in snd'.withdraw_bucket => v = None)
              /\ \A w \in Attrs : Bucketed(snd', n, w) => w = v
         ELSE snd' = s
  <2>1. \A m \in Nets : /\ Waits(s, m) <=> Waits(snd, m)
                        /\ \A w \in Attrs : Bucketed(s, m, w) <=> Bucketed(snd, m, w)
                        /\ m \in s.withdraw_bucket <=> m \in snd.withdraw_bucket
    BY <1>1, ZenonT(30) DEF Waits, Bucketed
  <2>2. CASE rcv.up
    <3>1. snd' = bgp_rt_notify(s, n)
      BY <1>1, <2>2, Zenon
    <3>2. /\ snd' \in Snd /\ SameFeed(snd', s)
          /\ snd'.packets_to_send = s.packets_to_send \cup {"UPDATE"}
          /\ Waits(snd', n)
          /\ n \in snd'.withdraw_bucket => s.best[n] = None
          /\ \A w \in Attrs : Bucketed(snd', n, w) => s.best[n] = w
          /\ \A m \in Nets \ {n} :
               /\ m \in snd'.withdraw_bucket <=> m \in s.withdraw_bucket
               /\ \A w \in Attrs : Bucketed(snd', m, w) <=> Bucketed(s, m, w)
               /\ Waits(snd', m) <=> Waits(s, m)
      BY <1>1, <3>1, Notified, Zenon
    <3>3. "BoRR" \in snd'.packets_to_send <=> "BoRR" \in snd.packets_to_send
      BY <1>1, <3>2, Zenon
    <3>4. /\ snd'.best = s.best /\ snd'.begun = snd.begun
          /\ snd'.feed_state = snd.feed_state /\ snd'.feed = snd.feed
          /\ snd'.refeeding = snd.refeeding /\ snd'.feed_todo = snd.feed_todo
      BY <1>1, <3>2, Zenon DEF SameFeed
    <3> QED
      BY <1>1, <2>1, <2>2, <3>2, <3>3, <3>4, Zenon
  <2>3. CASE ~rcv.up
    <3>1. snd' = s
      BY <1>1, <2>3, Zenon
    <3> QED
      BY <1>1, <2>1, <2>3, <3>1, Zenon
  <2> QED
    BY <2>2, <2>3, Zenon
<1>3. Types'
  BY <1>1, <1>2, Zenon DEF IInv, Types
<1>4. Logs'
  <2> SUFFICES ASSUME NEW m \in Nets
               PROVE  /\ pos'[m] \in 1 .. Len(log'[m]) /\ snd'.begun[m] \in 1 .. Len(log'[m])
                      /\ Current(m)' = Exported(snd'.best[m])
    BY DEF Logs
  <2>1. /\ pos[m] \in 1 .. Len(log[m]) /\ snd.begun[m] \in 1 .. Len(log[m])
        /\ Current(m) = Exported(snd.best[m]) /\ Len(log[m]) \in Nat
    BY Wire, Zenon DEF IInv, Logs
  <2>2. CASE m = n
    <3>1. /\ pos' = pos /\ snd'.begun = snd.begun /\ Len(log'[n]) = Len(log[n]) + 1
          /\ Current(n)' = Exported(v) /\ snd'.best[n] = v
      BY <1>1, <1>2, ZenonT(30)
    <3>2. pos'[m] \in 1 .. Len(log'[m]) /\ snd'.begun[m] \in 1 .. Len(log'[m])
      BY <2>1, <2>2, <3>1, LogGrows, Zenon
    <3> QED
      BY <2>2, <3>1, <3>2, Zenon
  <2>3. CASE m # n
    <3>1. Current(m)' = Current(m) /\ snd'.best[m] = snd.best[m]
      BY <1>1, <1>2, <2>3, Zenon DEF Current
    <3> QED
      BY <1>1, <1>2, <2>1, <2>3, <3>1, Zenon
  <2> QED
    BY <2>2, <2>3, Zenon
<1>5. Down'
  BY <1>1, <1>2, Zenon DEF IInv, Down
<1>6. Restart' /\ Ends'
  BY <1>1, <1>2, EndsKept, Zenon DEF IInv, Restart
<1>7. Queue'
  <2> SUFFICES ASSUME NEW m \in Nets
               PROVE  /\ m \in snd'.withdraw_bucket => Exported(snd'.best[m]) = None
                      /\ \A w \in Attrs : Bucketed(snd', m, w) => snd'.best[m] = w
    BY DEF Queue
  <2>1. CASE m # n
    <3>1. /\ m \in snd.withdraw_bucket => Exported(snd.best[m]) = None
          /\ \A w \in Attrs : Bucketed(snd, m, w) => snd.best[m] = w
      BY DEF IInv, Queue
    <3>2. snd'.best[m] = snd.best[m]
      BY <1>1, <1>2, <2>1, Zenon
    <3> QED
      BY <1>2, <2>1, <3>1, <3>2, Zenon
  <2>2. CASE m = n /\ rcv.up
    BY <1>1, <1>2, <2>2, Zenon DEF Exported
  <2>3. CASE ~rcv.up
    <3>1. snd'.withdraw_bucket = {} /\ snd'.buckets = << >>
      BY <1>1, <1>2, <2>3, Zenon DEF IInv, Down
    <3> QED
      BY <3>1, NoBuckets, Zenon
  <2> QED
    BY <2>1, <2>2, <2>3, Zenon
<1>8. Len(wire') = Len(wire) /\ Len(wire) \in Nat
  BY <1>1, Wire, ZenonT(30) DEF IInv
<1>9. Updates' /\ Marks'
  <2>1. Len(wire) + 1 .. Len(wire') = {}
    BY <1>8
  <2> QED
    BY <1>1, <1>3, <2>1, UpdatesExtend, MarksExtend, ZenonT(30) DEF IInv
<1>10. ASSUME rcv'.up PROVE Synced'
  <2> SUFFICES ASSUME NEW m \in Nets
               PROVE  Waits(snd', m) \/ Last(m, Current(m), Len(wire) + 1)'
    BY DEF Synced
  <2>1. CASE m = n
    BY <1>1, <1>2, <1>10, <2>1, Zenon
  <2>2. CASE m # n /\ Waits(snd, m)
    BY <1>2, <2>2, ZenonT(30)
  <2>3. CASE m # n /\ Last(m, Current(m), Len(wire) + 1)
    <3>1. \A k \in Len(wire) + 1 .. Len(wire') : FALSE
      BY <1>8
    <3>2. Types /\ Extends(m) /\ log'[m] = log[m]
      BY <1>1, <2>3, Zenon DEF IInv
    <3> QED
      BY <1>3, <2>3, <3>1, <3>2, SyncedExtends, Zenon
  <2> QED
    BY <1>1, <1>10, <2>1, <2>2, <2>3, Zenon DEF IInv, Synced
<1>11. Open'
  <2>1. ASSUME rcv.up, NEW m \in Nets
        PROVE  /\ Waits(snd, m) => Waits(snd', m)
               /\ Visits(snd, m) => Visits(snd', m)
               /\ Relies(m) => Waits(snd', m) \/ Relies(m)'
    <3>1. Waits(snd, m) => Waits(snd', m)
      BY <1>2, <2>1, Zenon
    <3>2. Visits(snd, m) => Visits(snd', m)
      BY <1>2, Zenon DEF Visits
    <3>3. ASSUME Relies(m) PROVE Relies(m)'
      <4>1. \A k \in Len(wire) + 1 .. Len(wire') : FALSE
        BY <1>8
      <4>2. Types /\ Logs /\ Extends(m) /\ snd'.begun[m] = snd.begun[m]
        BY <1>1, <1>2, Zenon DEF IInv
      <4>3. "BoRR" \in snd.packets_to_send \/ "BoRR" \notin snd'.packets_to_send
        BY <1>2, Zenon
      <4> QED
        BY <1>3, <3>3, <4>1, <4>2, <4>3, ReliesExtend, Zenon
    <3> QED
      BY <3>1, <3>2, <3>3, Zenon
  <2>2. CASE rcv.up
    BY <1>1, <1>2, <2>1, <2>2, OpenKept, Zenon DEF IInv
  <2>3. CASE ~rcv.up
    BY <1>1, <2>3, Zenon DEF Open
  <2> QED
    BY <2>2, <2>3, Zenon
<1> QED
  BY <1>3, <1>4, <1>5, <1>6, <1>7, <1>9, <1>10, <1>11, Zenon DEF IInv

(* A step that changes only what the sender has still to do.               *)
LEMMA SenderStep ==
  ASSUME IInv, rcv.up, UNCHANGED <<conf, rcv, wire, log, pos>>, back' \in BOOLEAN,
         snd' \in Snd, snd'.best = snd.best,
         \A n \in Nets : snd'.begun[n] \in 1 .. Len(log[n]),
         \A n \in Nets : Waits(snd, n) => Waits(snd', n),
         Queue', Ends', Open'
  PROVE  IInv'
<1>1. Types'
  BY Zenon DEF IInv, Types
<1>2. Logs'
  BY ZenonT(30) DEF IInv, Logs, Current
<1>3. Down' /\ Restart'
  BY Zenon DEF IInv, Down, Restart
<1>4. Len(wire') = Len(wire) /\ Len(wire) \in Nat /\ \A n \in Nets : Extends(n)
  BY Wire, SameWire, Zenon DEF IInv
<1>5. Updates' /\ Marks'
  BY <1>1, <1>4, UpdatesExtend, MarksExtend, SMTT(30) DEF IInv
<1>6. Synced'
  <2> SUFFICES ASSUME NEW n \in Nets
               PROVE  Waits(snd', n) \/ Last(n, Current(n), Len(wire) + 1)'
    BY Zenon DEF Synced
  <2>1. CASE Waits(snd, n)
    BY <2>1, SMTT(30)
  <2>2. CASE Last(n, Current(n), Len(wire) + 1)
    <3>1. \A k \in Len(wire) + 1 .. Len(wire') : FALSE
      BY <1>4
    <3>2. Types /\ Types' /\ Extends(n) /\ log'[n] = log[n]
      BY <1>1, <1>4, Zenon DEF IInv
    <3> QED
      BY <2>2, <3>1, <3>2, SyncedExtends, Zenon
  <2> QED
    BY <2>1, <2>2, ZenonT(30) DEF IInv, Synced
<1> QED
  BY <1>1, <1>2, <1>3, <1>5, <1>6, Zenon DEF IInv

(* What the end of the feed relies on stays when only the sender           *)
(* changes.                                                                *)
LEMMA ReliesKept ==
  ASSUME IInv, UNCHANGED <<conf, rcv, wire, log, pos>>, Types',
         NEW n \in Nets, Relies(n), snd'.begun[n] = snd.begun[n],
         "BoRR" \in snd'.packets_to_send => "BoRR" \in snd.packets_to_send
  PROVE  Relies(n)'
  BY Zenon DEF Relies, Covered, Gone, Sent, Arrived, Last

(* A request for a refresh keeps the invariant: it only schedules a        *)
(* feed.                                                                   *)
LEMMA RouteRefreshStep ==
  ASSUME IInv, bgp_rx_route_refresh
  PROVE  IInv'
<1>1. /\ back /\ back' = FALSE /\ UNCHANGED <<conf, rcv, wire, log, pos>>
      /\ snd' = channel_request_feeding(snd)
  BY Zenon DEF bgp_rx_route_refresh
<1>2. rcv.up /\ snd \in Snd
  BY <1>1 DEF IInv, Down, Types
<1>3. /\ snd' \in Snd /\ snd'.best = snd.best /\ snd'.begun = snd.begun
      /\ snd'.withdraw_bucket = snd.withdraw_bucket /\ snd'.buckets = snd.buckets
      /\ snd'.feed_state = snd.feed_state /\ snd'.packets_to_send = snd.packets_to_send
      /\ snd'.feed = "SCHEDULED"
      /\ ~snd'.refeeding => snd.feed = "SCHEDULED" /\ ~snd.refeeding
  BY <1>1, <1>2, Zenon DEF channel_request_feeding, Snd
<1>4. \A n \in Nets : /\ Waits(snd, n) <=> Waits(snd', n)
                      /\ \A v \in Attrs : Bucketed(snd', n, v) <=> Bucketed(snd, n, v)
  BY <1>3 DEF Waits, Bucketed
<1>5. Types' /\ back' \in BOOLEAN
  BY <1>1, <1>3, Zenon DEF IInv, Types
<1>6. Queue'
  BY <1>3, <1>4, Zenon DEF IInv, Queue
<1>7. Ends'
  BY <1>1, <1>2, <1>3, ZenonT(30) DEF IInv, Ends
<1>8. Open'
  <2>1. \A n \in Nets : Visits(snd, n) => Visits(snd', n)
    BY <1>3, Zenon DEF Visits
  <2>2. \A n \in Nets : Relies(n) => Relies(n)'
    BY <1>1, <1>3, <1>5, ReliesKept, Zenon
  <2> QED
    BY <1>1, <1>3, <1>4, <2>1, <2>2, OpenKept, Zenon DEF IInv
<1>9. \A n \in Nets : snd'.begun[n] \in 1 .. Len(log[n])
  BY <1>3 DEF IInv, Logs
<1> QED
  BY <1>1, <1>2, <1>3, <1>4, <1>5, <1>6, <1>7, <1>8, <1>9, SenderStep, Zenon

(* A feed begins: everything is to be visited, or nothing is promised.     *)
LEMMA FeedBeginStep ==
  ASSUME IInv, rcv.up, snd.feed = "SCHEDULED",
         snd' = [bgp_feed_begin(snd) EXCEPT !.feed = "ACTIVE", !.feed_todo = Nets],
         UNCHANGED <<conf, rcv, wire, back, log, pos>>
  PROVE  IInv'
<1> DEFINE b == [n \in Nets |-> Len(log[n])]
           s == bgp_feed_begin(snd)
<1>1. snd \in Snd /\ conf \in Conf /\ b \in [Nets -> Nat \ {0}]
  <2>1. \A n \in Nets : Len(log[n]) \in Nat /\ pos[n] \in 1 .. Len(log[n]) /\ pos[n] \in Nat
    BY Wire DEF IInv, Logs
  <2>2. \A n \in Nets : Len(log[n]) \in Nat \ {0}
    BY <2>1
  <2> QED
    BY <2>2 DEF IInv, Types
<1>2. \/ /\ s = [snd EXCEPT !.feed_state = "LOADING", !.begun = b]
         /\ ~snd.refeeding /\ conf.gr
      \/ /\ s = [snd EXCEPT !.feed_state = "REFRESHING", !.begun = b,
                            !.packets_to_send = @ \cup {"BoRR"}]
         /\ snd.refeeding /\ snd.feed_state \notin {"LOADING", "LOADED"}
      \/ s = snd /\ (snd.refeeding \/ ~conf.gr)
  BY DEF bgp_feed_begin
<1> HIDE DEF b
<1>3. /\ s \in Snd /\ s.best = snd.best
      /\ s.withdraw_bucket = snd.withdraw_bucket /\ s.buckets = snd.buckets
      /\ \/ s.feed_state = "LOADING" /\ ~snd.refeeding /\ conf.gr /\ s.begun = b
         \/ /\ s.feed_state = "REFRESHING" /\ snd.refeeding /\ s.begun = b
            /\ snd.feed_state \notin {"LOADING", "LOADED"}
         \/ /\ s.feed_state = snd.feed_state /\ s.begun = snd.begun
            /\ s.packets_to_send = snd.packets_to_send
            /\ snd.refeeding \/ ~conf.gr
  <2>1. CASE /\ s = [snd EXCEPT !.feed_state = "LOADING", !.begun = b]
             /\ ~snd.refeeding /\ conf.gr
    <3> HIDE DEF s
    <3> QED
      BY <1>1, <2>1, Zenon DEF Snd, FeedStates
  <2>2. CASE /\ s = [snd EXCEPT !.feed_state = "REFRESHING", !.begun = b,
                                !.packets_to_send = @ \cup {"BoRR"}]
             /\ snd.refeeding /\ snd.feed_state \notin {"LOADING", "LOADED"}
    <3> HIDE DEF s
    <3>1. snd.packets_to_send \cup {"BoRR"} \in SUBSET {"BoRR", "UPDATE"}
      BY <1>1 DEF Snd
    <3> QED
      BY <1>1, <2>2, <3>1, Zenon DEF Snd, FeedStates
  <2>3. CASE s = snd /\ (snd.refeeding \/ ~conf.gr)
    <3> HIDE DEF s
    <3> QED
      BY <1>1, <2>3, Zenon
  <2> QED
    BY <1>2, <2>1, <2>2, <2>3, Zenon
<1>4. snd' = [s EXCEPT !.feed = "ACTIVE", !.feed_todo = Nets]
  OBVIOUS
<1> HIDE DEF s
<1>5. /\ snd' \in Snd /\ snd'.best = s.best /\ snd'.begun = s.begun
      /\ snd'.withdraw_bucket = s.withdraw_bucket /\ snd'.buckets = s.buckets
      /\ snd'.feed_state = s.feed_state /\ snd'.packets_to_send = s.packets_to_send
      /\ snd'.feed = "ACTIVE" /\ snd'.feed_todo = Nets
  <2>1. s \in Snd
    BY <1>3
  <2> QED
    BY <1>4, <2>1, Zenon DEF Snd
<1>6. \A n \in Nets : /\ Waits(snd, n) <=> Waits(snd', n)
                      /\ \A v \in Attrs : Bucketed(snd', n, v) <=> Bucketed(snd, n, v)
  <2>1. snd'.withdraw_bucket = snd.withdraw_bucket /\ snd'.buckets = snd.buckets
    BY <1>3, <1>5, Zenon
  <2> QED
    BY <2>1, Zenon DEF Waits, Bucketed
<1>7. Types'
  BY <1>5, SenderTypes, Zenon DEF IInv
<1>8. Queue'
  BY <1>3, <1>5, <1>6 DEF IInv, Queue
<1>9. Ends'
  <2>1. snd'.feed_todo # {}
    BY <1>5, NetsAssumption
  <2>2. \A i \in DOMAIN wire : wire[i].t = "EoR" =>
          rcv.load_state = "LOADING" /\ snd.feed_state \notin {"LOADING", "LOADED"}
          /\ snd.refeeding /\ \A k \in DOMAIN wire : wire[k].t = "EoR" => k = i
    BY DEF IInv, Ends
  <2>3. /\ snd.feed_state \in {"LOADING", "LOADED"} => rcv.load_state = "LOADING"
        /\ ~snd.refeeding /\ conf.gr => rcv.load_state = "LOADING"
    BY DEF IInv, Ends
  <2>4. \A i \in DOMAIN wire : wire[i].t = "EoR" => snd'.feed_state \notin {"LOADING", "LOADED"}
    BY <1>3, <1>5, <2>2, Zenon
  <2>5. snd'.feed_state \in {"LOADING", "LOADED"} => rcv.load_state = "LOADING"
    BY <1>3, <1>5, <2>3, Zenon
  <2> QED
    BY <1>5, <2>1, <2>2, <2>4, <2>5, Zenon DEF Ends
<1>10. Open'
  <2>1. CASE snd'.feed_state \in {"LOADING", "REFRESHING"}
    BY <1>5, <2>1, Zenon DEF Open, Visits
  <2>2. CASE snd'.feed_state \notin {"LOADING", "REFRESHING"}
    <3>1. /\ snd'.feed_state = snd.feed_state /\ snd'.begun = snd.begun
          /\ snd'.packets_to_send = snd.packets_to_send
      BY <1>3, <1>5, <2>2
    <3>2. \A n \in Nets : ~Visits(snd, n)
      BY <2>2, <3>1 DEF Visits
    <3>3. \A n \in Nets : Relies(n) => Relies(n)'
      BY <1>7, <3>1, ReliesKept
    <3> QED
      BY <1>6, <3>1, <3>2, <3>3, OpenKept, Zenon DEF IInv
  <2> QED
    BY <2>1, <2>2, Zenon
<1>11. ASSUME NEW n \in Nets PROVE snd'.begun[n] \in 1 .. Len(log[n])
  <2>1. b[n] \in Nat \ {0} /\ b[n] = Len(log[n])
    BY <1>1 DEF b
  <2>2. snd.begun[n] \in 1 .. Len(log[n])
    BY DEF IInv, Logs
  <2> QED
    BY <1>3, <1>5, <2>1, <2>2
<1>12. back' \in BOOLEAN
  BY <1>7, Zenon DEF Types
<1> QED
  BY <1>3, <1>5, <1>6, <1>8, <1>9, <1>10, <1>11, <1>12, SenderStep, ZenonT(30)

(* A network without a route that does not wait needs nothing but the end  *)
(* mark: the receiver has no route for it, or a stale one.                 *)
LEMMA Absent ==
  ASSUME IInv, rcv.up, NEW n \in Nets, snd.best[n] = None, ~Waits(snd, n)
  PROVE  Gone(n, snd.begun[n], Len(wire) + 1)
<1>1. /\ snd.begun[n] \in 1 .. Len(log[n]) /\ pos[n] \in 1 .. Len(log[n])
      /\ Current(n) = Exported(None)
  BY Zenon DEF IInv, Logs
<1>2. Current(n) = None /\ log[n][Len(log[n])] = None
  BY <1>1, Zenon DEF Exported, Current
<1>3. Last(n, None, Len(wire) + 1)
  BY <1>2, Zenon DEF IInv, Synced
<1>4. Len(log[n]) \in Nat /\ Len(wire) \in Nat /\ DOMAIN wire = 1 .. Len(wire) /\ pos[n] \in Nat
  BY Wire, Zenon DEF IInv
<1>5. \A k \in DOMAIN wire : Has(wire[k], n) => wire[k].at[n] <= Len(log[n])
  BY <1>4 DEF IInv, Updates
<1>6. \A k \in DOMAIN wire : k < Len(wire) + 1
  BY <1>4
<1>7. Len(log[n]) \in snd.begun[n] .. Len(log[n]) /\ pos[n] <= Len(log[n])
  BY <1>1, <1>4
<1>8. \A k \in DOMAIN wire : Has(wire[k], n) =>
        IF k < Len(wire) + 1 THEN wire[k].at[n] <= Len(log[n]) ELSE Len(log[n]) <= wire[k].at[n]
  BY <1>5, <1>6, Zenon
<1> QED
  BY <1>2, <1>3, <1>7, <1>8, ZenonT(30) DEF Gone

(* The feed of network n.                                                  *)
FeedOf(n) == IF snd.best[n] # None THEN bgp_rt_notify(snd, n) ELSE snd
Feed(n) ==
  LET s == [FeedOf(n) EXCEPT !.feed_todo = @ \ {n}]
  IN  snd' = IF s.feed_todo = {} THEN bgp_feed_end([s EXCEPT !.feed = "NONE"]) ELSE s

(* Feeding one network keeps the invariant: it waits to be sent.           *)
LEMMA FeedStep ==
  ASSUME IInv, rcv.up, snd.feed = "ACTIVE", UNCHANGED <<conf, rcv, wire, back, log, pos>>,
         NEW n \in snd.feed_todo, Feed(n)
  PROVE  IInv'
<1> DEFINE p == FeedOf(n)
           s == [p EXCEPT !.feed_todo = @ \ {n}]
<1>1. snd \in Snd
  BY Zenon DEF IInv, Types
<1>2. n \in Nets
  BY <1>1 DEF Snd
<1>3. /\ p \in Snd /\ SameFeed(p, snd)
      /\ "BoRR" \in p.packets_to_send <=> "BoRR" \in snd.packets_to_send
      /\ Waits(p, n) \/ snd.best[n] = None
      /\ n \in p.withdraw_bucket => n \in snd.withdraw_bucket \/ snd.best[n] = None
      /\ \A v \in Attrs : Bucketed(p, n, v) => snd.best[n] = v
      /\ \A m \in Nets :
           /\ Waits(snd, m) => Waits(p, m)
           /\ m # n => (m \in p.withdraw_bucket <=> m \in snd.withdraw_bucket)
           /\ m # n => \A v \in Attrs : Bucketed(p, m, v) <=> Bucketed(snd, m, v)
  <2>1. CASE snd.best[n] # None
    <3>1. p = bgp_rt_notify(snd, n)
      BY <2>1 DEF FeedOf
    <3> HIDE DEF p
    <3>2. /\ p \in Snd /\ SameFeed(p, snd)
          /\ p.packets_to_send = snd.packets_to_send \cup {"UPDATE"}
          /\ Waits(p, n)
          /\ n \in p.withdraw_bucket => snd.best[n] = None
          /\ \A v \in Attrs : Bucketed(p, n, v) => snd.best[n] = v
          /\ \A m \in Nets \ {n} :
               /\ m \in p.withdraw_bucket <=> m \in snd.withdraw_bucket
               /\ \A v \in Attrs : Bucketed(p, m, v) <=> Bucketed(snd, m, v)
               /\ Waits(p, m) <=> Waits(snd, m)
      BY <1>1, <1>2, <3>1, Notified, ZenonT(30)
    <3>3. "BoRR" \in p.packets_to_send <=> "BoRR" \in snd.packets_to_send
      BY <3>2, ZenonT(30)
    <3> QED
      BY <3>2, <3>3, Zenon
  <2>2. CASE snd.best[n] = None
    <3>1. p = snd
      BY <2>2, Zenon DEF FeedOf
    <3> HIDE DEF p
    <3>2. \A v \in Attrs : Bucketed(p, n, v) => snd.best[n] = v
      BY <1>2, <3>1 DEF IInv, Queue
    <3> QED
      BY <1>1, <2>2, <3>1, <3>2, Zenon DEF SameFeed
  <2> QED
    BY <2>1, <2>2, Zenon
<1> HIDE DEF p
<1>4. /\ s \in Snd /\ s.best = snd.best /\ s.begun = snd.begun
      /\ s.withdraw_bucket = p.withdraw_bucket /\ s.buckets = p.buckets
      /\ s.feed_state = snd.feed_state /\ s.packets_to_send = p.packets_to_send
      /\ s.feed = "ACTIVE" /\ s.feed_todo = snd.feed_todo \ {n}
  <2>1. p \in Snd /\ SameFeed(p, snd)
    BY <1>3, Zenon
  <2> QED
    BY <2>1, ZenonT(30) DEF Snd, SameFeed
<1>5. /\ snd' \in Snd /\ snd'.best = snd.best /\ snd'.begun = snd.begun
      /\ snd'.withdraw_bucket = p.withdraw_bucket /\ snd'.buckets = p.buckets
      /\ "BoRR" \in snd'.packets_to_send => "BoRR" \in snd.packets_to_send
      /\ snd'.feed_todo = snd.feed_todo \ {n}
      /\ \/ /\ snd'.feed = "ACTIVE" /\ snd'.feed_todo # {}
            /\ snd'.feed_state = snd.feed_state
         \/ /\ snd'.feed = "NONE" /\ snd'.feed_todo = {}
            /\ snd'.feed_state = IF snd.feed_state = "LOADING" THEN "LOADED"
                                 ELSE IF snd.feed_state = "REFRESHING" THEN "REFRESHED"
                                 ELSE snd.feed_state
  <2>1. CASE s.feed_todo # {}
    <3>1. snd' = s
      BY <2>1, Zenon DEF Feed, p
    <3> HIDE DEF s
    <3> QED
      BY <1>3, <1>4, <2>1, <3>1, Zenon
  <2>2. CASE s.feed_todo = {}
    <3> DEFINE q == [s EXCEPT !.feed = "NONE"]
    <3>2. snd' = bgp_feed_end(q)
      BY <2>2 DEF Feed, p
    <3> HIDE DEF s
    <3>1. /\ q \in Snd /\ q.best = snd.best /\ q.begun = snd.begun
          /\ q.withdraw_bucket = p.withdraw_bucket /\ q.buckets = p.buckets
          /\ q.feed_state = snd.feed_state /\ q.packets_to_send = p.packets_to_send
          /\ q.feed = "NONE" /\ q.feed_todo = {}
      BY <1>4, <2>2, Zenon DEF Snd
    <3> HIDE DEF q
    <3>3. CASE q.feed_state = "NONE"
      <4>1. snd' = q
        BY <3>2, <3>3, Zenon DEF bgp_feed_end
      <4> QED
        BY <1>3, <1>4, <2>2, <3>1, <3>3, <4>1, Zenon
    <3>4. CASE q.feed_state # "NONE"
      <4> DEFINE f == IF snd.feed_state = "LOADING" THEN "LOADED"
                      ELSE IF snd.feed_state = "REFRESHING" THEN "REFRESHED"
                      ELSE snd.feed_state
      <4>1. f \in FeedStates
        BY <1>1 DEF Snd, FeedStates
      <4>2. snd' = [q EXCEPT !.packets_to_send = @ \cup {"UPDATE"}, !.feed_state = f]
        BY <3>1, <3>2, <3>4, Zenon DEF bgp_feed_end
      <4> HIDE DEF f
      <4>3. q.packets_to_send \cup {"UPDATE"} \in SUBSET {"BoRR", "UPDATE"}
        BY <3>1 DEF Snd
      <4>4. /\ snd' \in Snd /\ snd'.best = snd.best /\ snd'.begun = snd.begun
            /\ snd'.withdraw_bucket = p.withdraw_bucket /\ snd'.buckets = p.buckets
            /\ snd'.packets_to_send = p.packets_to_send \cup {"UPDATE"}
            /\ snd'.feed_state = f /\ snd'.feed = "NONE" /\ snd'.feed_todo = {}
        BY <3>1, <4>1, <4>2, <4>3, Zenon DEF Snd
      <4>5. "BoRR" \in snd'.packets_to_send => "BoRR" \in snd.packets_to_send
        BY <1>3, <4>4, ZenonT(30)
      <4> QED
        BY <1>4, <2>2, <4>4, <4>5, Zenon DEF f
    <3> QED
      BY <3>3, <3>4, Zenon
  <2> QED
    BY <2>1, <2>2
<1>6. \A m \in Nets : /\ Waits(snd', m) <=> Waits(p, m)
                      /\ \A v \in Attrs : Bucketed(snd', m, v) <=> Bucketed(p, m, v)
  BY <1>5, ZenonT(30) DEF Waits, Bucketed
<1>7. Types' /\ back' \in BOOLEAN
  BY <1>5, SenderTypes, Zenon DEF IInv
<1>8. Queue'
  <2> SUFFICES ASSUME NEW m \in Nets
               PROVE  /\ m \in snd'.withdraw_bucket => Exported(snd'.best[m]) = None
                      /\ \A v \in Attrs : Bucketed(snd', m, v) => snd'.best[m] = v
    BY Zenon DEF Queue
  <2>1. /\ m \in snd.withdraw_bucket => Exported(snd.best[m]) = None
        /\ \A v \in Attrs : Bucketed(snd, m, v) => snd.best[m] = v
    BY Zenon DEF IInv, Queue
  <2>2. Exported(None) = None
    BY DEF Exported
  <2>3. CASE m = n
    BY <1>3, <1>5, <1>6, <2>1, <2>2, <2>3, Zenon
  <2>4. CASE m # n
    BY <1>3, <1>5, <1>6, <2>1, <2>4, ZenonT(30)
  <2> QED
    BY <2>3, <2>4, Zenon
<1>9. Ends'
  <2>1. /\ snd'.feed_state \in {"LOADING", "LOADED"} <=> snd.feed_state \in {"LOADING", "LOADED"}
        /\ snd'.feed # "SCHEDULED" /\ (snd'.feed = "ACTIVE" => snd'.feed_todo # {})
    BY <1>5, Zenon
  <2>2. \A i \in DOMAIN wire : wire[i].t = "EoR" =>
          /\ rcv.load_state = "LOADING" /\ snd.feed_state \notin {"LOADING", "LOADED"}
          /\ \A k \in DOMAIN wire : wire[k].t = "EoR" => k = i
    BY Zenon DEF IInv, Ends
  <2>3. snd.feed_state \in {"LOADING", "LOADED"} => rcv.load_state = "LOADING"
    BY DEF IInv, Ends
  <2> QED
    BY <2>1, <2>2, <2>3, ZenonT(30) DEF Ends
<1>10. Open'
  <2>1. ASSUME NEW m \in Nets, Relies(m) PROVE Relies(m)'
    BY <1>5, <1>7, <2>1, ReliesKept, Zenon
  <2>2. ASSUME NEW m \in Nets, Visits(snd, m)
        PROVE  Visits(snd', m) \/ Waits(snd', m) \/ Relies(m)'
    <3>1. snd.feed_state \in {"LOADING", "REFRESHING"} /\ m \in snd.feed_todo
      BY <2>2 DEF Visits
    <3>2. CASE m # n
      <4>1. m \in snd'.feed_todo /\ snd'.feed_state = snd.feed_state
        BY <1>5, <3>1, <3>2, Zenon
      <4> QED
        BY <3>1, <4>1, Zenon DEF Visits
    <3>3. CASE m = n /\ (Waits(snd, n) \/ Waits(p, n))
      BY <1>2, <1>3, <1>6, <3>3, Zenon
    <3>4. CASE m = n /\ ~Waits(snd, n) /\ snd.best[n] = None
      <4>1. Relies(n)
        BY <1>2, <3>4, Absent, Zenon DEF Relies
      <4> QED
        BY <2>1, <3>4, <4>1, Zenon
    <3> QED
      BY <1>3, <3>2, <3>3, <3>4, Zenon
  <2>3. snd'.feed_state # "NONE" => snd.feed_state # "NONE"
    BY <1>5, Zenon
  <2> QED
    BY <1>3, <1>6, <2>1, <2>2, <2>3, OpenKept, ZenonT(30) DEF IInv
<1>11. \A m \in Nets : snd'.begun[m] \in 1 .. Len(log[m])
  BY <1>5, Zenon DEF IInv, Logs
<1> QED
  BY <1>3, <1>5, <1>6, <1>7, <1>8, <1>9, <1>10, <1>11, SenderStep, Zenon

(* A step of the feed keeps the invariant.                                 *)
LEMMA FeedLoopStep ==
  ASSUME IInv, channel_feed_loop
  PROVE  IInv'
<1>1. rcv.up /\ UNCHANGED <<conf, rcv, wire, back, log, pos>>
  BY DEF channel_feed_loop
<1>2. CASE /\ snd.feed = "SCHEDULED"
           /\ snd' = [bgp_feed_begin(snd) EXCEPT !.feed = "ACTIVE", !.feed_todo = Nets]
  BY <1>1, <1>2, FeedBeginStep, Zenon
<1> DEFINE n == CHOOSE x \in snd.feed_todo : TRUE
<1>3. CASE snd.feed = "ACTIVE" /\ Feed(n)
  <2>1. n \in snd.feed_todo
    BY <1>1, <1>3, Zenon DEF IInv, Ends
  <2> HIDE DEF n
  <2> QED
    BY <1>1, <1>3, <2>1, FeedStep, Zenon
<1>4. snd.feed # "SCHEDULED" => snd.feed = "ACTIVE" /\ Feed(n)
  BY DEF channel_feed_loop, Feed, FeedOf
<1> QED
  BY <1>2, <1>3, <1>4, Zenon DEF channel_feed_loop
=============================================================================
