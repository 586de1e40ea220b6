------------------------- MODULE ObjectLocksProofs -------------------------
(***************************************************************************)
(* Proofs about the object lock manager, for any set of locks.             *)
(***************************************************************************)
EXTENDS ObjectLocks, TLAPS

-----------------------------------------------------------------------------
(* Lists. *)

Distinct(s) == \A i, j \in DOMAIN s : s[i] = s[j] => i = j

\* Taking an element out of a list of distinct elements (rem_node()).
LEMMA UnlinkLemma ==
  ASSUME NEW S, NEW s \in Seq(S), NEW x, Distinct(s)
  PROVE  /\ Unlink(s, x) \in Seq(S)
         /\ Distinct(Unlink(s, x))
         /\ Elems(Unlink(s, x)) = Elems(s) \ {x}
<1>1. CASE x \notin Elems(s)
  BY <1>1 DEF Unlink
<1>2. CASE x \in Elems(s)
  <2> DEFINE k == CHOOSE i \in DOMAIN s : s[i] = x
             t == [i \in 1 .. (Len(s) - 1) |-> IF i < k THEN s[i] ELSE s[i + 1]]
  <2>1. /\ k \in 1 .. Len(s)
        /\ s[k] = x
    BY <1>2 DEF Elems
  <2>2. Len(s) - 1 \in Nat /\ Len(s) \in Nat
    BY <2>1
  <2>3. Unlink(s, x) = t
    BY <1>2 DEF Unlink
  <2> HIDE DEF k
  <2>4. \A i \in 1 .. (Len(s) - 1) : t[i] \in S
    BY <2>1, <2>2
  <2>5. /\ t \in Seq(S) /\ Len(t) = Len(s) - 1 /\ DOMAIN t = 1 .. (Len(s) - 1)
        /\ \A i \in 1 .. (Len(s) - 1) : i < k => t[i] = s[i]
        /\ \A i \in 1 .. (Len(s) - 1) : ~(i < k) => t[i] = s[i + 1]
    BY <2>2, <2>4
  <2> HIDE DEF t
  <2>6. Distinct(t)
    <3> SUFFICES ASSUME NEW i \in 1 .. (Len(s) - 1), NEW j \in 1 .. (Len(s) - 1),
                        t[i] = t[j]
                 PROVE i = j
      BY <2>5 DEF Distinct
    <3>1. CASE i < k /\ j < k
      <4>1. i \in DOMAIN s /\ j \in DOMAIN s /\ t[i] = s[i] /\ t[j] = s[j]
        BY <3>1, <2>1, <2>2, <2>5
      <4> QED BY <4>1, Zenon DEF Distinct
    <3>2. CASE i < k /\ ~(j < k)
      <4>1. i \in DOMAIN s /\ j + 1 \in DOMAIN s /\ t[i] = s[i] /\ t[j] = s[j + 1]
        BY <3>2, <2>1, <2>2, <2>5
      <4>2. i = j + 1
        BY <4>1, Zenon DEF Distinct
      <4> QED BY <4>2, <3>2, <2>1
    <3>3. CASE ~(i < k) /\ j < k
      <4>1. i + 1 \in DOMAIN s /\ j \in DOMAIN s /\ t[i] = s[i + 1] /\ t[j] = s[j]
        BY <3>3, <2>1, <2>2, <2>5
      <4>2. i + 1 = j
        BY <4>1, Zenon DEF Distinct
      <4> QED BY <4>2, <3>3, <2>1
    <3>4. CASE ~(i < k) /\ ~(j < k)
      <4>1. i + 1 \in DOMAIN s /\ j + 1 \in DOMAIN s /\ t[i] = s[i + 1] /\ t[j] = s[j + 1]
        BY <3>4, <2>1, <2>2, <2>5
      <4>2. i + 1 = j + 1
        BY <4>1, Zenon DEF Distinct
      <4> QED BY <4>2, <3>4, <2>1
    <3> QED BY <3>1, <3>2, <3>3, <3>4
  <2>7. Elems(t) \subseteq Elems(s) \ {x}
    <3> SUFFICES ASSUME NEW i \in 1 .. (Len(s) - 1) PROVE t[i] \in Elems(s) \ {x}
      BY <2>5 DEF Elems
    <3>1. CASE i < k
      <4>1. i \in DOMAIN s /\ i # k /\ t[i] = s[i]
        BY <3>1, <2>1, <2>2, <2>5
      <4> QED BY <4>1, <2>1 DEF Elems, Distinct
    <3>2. CASE ~(i < k)
      <4>1. i + 1 \in DOMAIN s /\ i + 1 # k /\ t[i] = s[i + 1]
        BY <3>2, <2>1, <2>2, <2>5
      <4> QED BY <4>1, <2>1 DEF Elems, Distinct
    <3> QED BY <3>1, <3>2
  <2>8. ASSUME NEW e \in Elems(s) \ {x} PROVE e \in Elems(t)
    <3>1. PICK i \in 1 .. Len(s) : s[i] = e
      BY DEF Elems
    <3>2. i # k
      BY <3>1, <2>1
    <3>3. CASE i < k
      <4>1. i \in 1 .. (Len(s) - 1) /\ t[i] = e
        BY <3>1, <3>3, <2>1, <2>2, <2>5
      <4> QED BY <4>1, <2>5, Zenon DEF Elems
    <3>4. CASE i > k
      <4>1. i - 1 \in 1 .. (Len(s) - 1) /\ t[i - 1] = s[(i - 1) + 1]
        BY <3>4, <2>1, <2>2, <2>5
      <4> QED BY <4>1, <3>1, <2>5 DEF Elems
    <3> QED BY <3>2, <3>3, <3>4, <2>1
  <2> QED BY <2>3, <2>5, <2>6, <2>7, <2>8
<1> QED BY <1>1, <1>2

\* Putting a new element at the head of a list (add_head()).
LEMMA PushLemma ==
  ASSUME NEW S, NEW s \in Seq(S), NEW x \in S
  PROVE  /\ <<x>> \o s \in Seq(S)
         /\ Elems(<<x>> \o s) = Elems(s) \cup {x}
         /\ Distinct(s) /\ x \notin Elems(s) => Distinct(<<x>> \o s)
<1> DEFINE t == <<x>> \o s
<1>1. /\ t \in Seq(S) /\ Len(s) \in Nat /\ t[1] = x
      /\ DOMAIN s = 1 .. Len(s) /\ DOMAIN t = 1 .. (Len(s) + 1)
      /\ \A i \in 2 .. (Len(s) + 1) : t[i] = s[i - 1]
  OBVIOUS
<1> HIDE DEF t
<1>2. \A i \in 1 .. Len(s) : i + 1 \in 2 .. (Len(s) + 1) /\ t[i + 1] = s[i]
  BY <1>1
<1>3. Elems(t) = Elems(s) \cup {x}
  <2>1. ASSUME NEW i \in 1 .. (Len(s) + 1) PROVE t[i] \in Elems(s) \cup {x}
    <3>1. CASE i = 1
      BY <3>1, <1>1
    <3>2. CASE i # 1
      <4>1. i - 1 \in 1 .. Len(s) /\ t[i] = s[i - 1]
        BY <1>1, <3>2
      <4> QED BY <4>1, <1>1 DEF Elems
    <3> QED BY <3>1, <3>2
  <2>2. \A i \in 1 .. Len(s) : s[i] \in Elems(t)
    BY <1>1, <1>2 DEF Elems
  <2>3. x \in Elems(t)
    BY <1>1 DEF Elems
  <2> QED BY <1>1, <2>1, <2>2, <2>3 DEF Elems
<1>4. Distinct(s) /\ x \notin Elems(s) => Distinct(t)
  <2> SUFFICES ASSUME Distinct(s), x \notin Elems(s),
                      NEW i \in 1 .. (Len(s) + 1), NEW j \in 1 .. (Len(s) + 1),
                      t[i] = t[j]
               PROVE i = j
    BY <1>1 DEF Distinct
  <2>0. ASSUME NEW m \in 2 .. (Len(s) + 1)
        PROVE  m - 1 \in DOMAIN s /\ t[m] # x
    <3>1. m - 1 \in DOMAIN s /\ t[m] = s[m - 1]
      BY <1>1
    <3> QED BY <3>1 DEF Elems
  <2>1. CASE i = 1 /\ j # 1
    BY <1>1, <2>0, <2>1
  <2>2. CASE i # 1 /\ j = 1
    BY <1>1, <2>0, <2>2
  <2>3. CASE i # 1 /\ j # 1
    <3>1. i - 1 \in DOMAIN s /\ j - 1 \in DOMAIN s /\ s[i - 1] = s[j - 1]
      BY <1>1, <2>0, <2>3
    <3>2. i - 1 = j - 1
      BY <3>1 DEF Distinct
    <3> QED BY <3>2
  <2> QED BY <2>1, <2>2, <2>3
<1> QED BY <1>1, <1>3, <1>4 DEF t

\* Putting a new element at the tail of a list (add_tail()).
LEMMA AppendLemma ==
  ASSUME NEW S, NEW s \in Seq(S), NEW x \in S
  PROVE  /\ Append(s, x) \in Seq(S)
         /\ Elems(Append(s, x)) = Elems(s) \cup {x}
         /\ Distinct(s) /\ x \notin Elems(s) => Distinct(Append(s, x))
<1> DEFINE t == Append(s, x)
<1>1. /\ t \in Seq(S) /\ Len(s) \in Nat /\ t[Len(s) + 1] = x
      /\ DOMAIN s = 1 .. Len(s) /\ DOMAIN t = 1 .. (Len(s) + 1)
      /\ \A i \in 1 .. Len(s) : t[i] = s[i]
  OBVIOUS
<1> HIDE DEF t
<1>2. Elems(t) = Elems(s) \cup {x}
  <2>1. \A i \in 1 .. (Len(s) + 1) : i \in 1 .. Len(s) \/ i = Len(s) + 1
    BY <1>1
  <2>2. \A i \in 1 .. Len(s) : i \in 1 .. (Len(s) + 1)
    BY <1>1
  <2>3. Len(s) + 1 \in DOMAIN t
    BY <1>1
  <2> QED BY <1>1, <2>1, <2>2, <2>3 DEF Elems
<1>3. Distinct(s) /\ x \notin Elems(s) => Distinct(t)
  <2> SUFFICES ASSUME Distinct(s), x \notin Elems(s),
                      NEW i \in 1 .. (Len(s) + 1), NEW j \in 1 .. (Len(s) + 1),
                      t[i] = t[j]
               PROVE i = j
    BY <1>1 DEF Distinct
  <2>1. \A m \in 1 .. Len(s) : t[m] # x
    BY <1>1 DEF Elems
  <2>2. CASE i = Len(s) + 1 \/ j = Len(s) + 1
    BY <1>1, <2>1, <2>2
  <2>3. CASE i # Len(s) + 1 /\ j # Len(s) + 1
    BY <1>1, <2>3 DEF Distinct
  <2> QED BY <2>2, <2>3
<1> QED BY <1>1, <1>2, <1>3 DEF t

\* Splitting a list at its head.
LEMMA TailLemma ==
  ASSUME NEW S, NEW s \in Seq(S), s # << >>
  PROVE  /\ Head(s) \in S /\ Tail(s) \in Seq(S)
         /\ Elems(s) = Elems(Tail(s)) \cup {Head(s)}
         /\ Distinct(s) => Distinct(Tail(s)) /\ Head(s) \notin Elems(Tail(s))
<1> DEFINE t == Tail(s)
<1>1. /\ t \in Seq(S) /\ Len(s) \in Nat \ {0}
      /\ DOMAIN s = 1 .. Len(s) /\ DOMAIN t = 1 .. (Len(s) - 1)
      /\ Head(s) = s[1] /\ Head(s) \in S
      /\ \A i \in 1 .. (Len(s) - 1) : t[i] = s[i + 1]
  OBVIOUS
<1> HIDE DEF t
<1>2. Elems(s) = Elems(t) \cup {s[1]}
  <2>1. ASSUME NEW i \in 1 .. Len(s), i # 1 PROVE s[i] \in Elems(t)
    <3>1. i - 1 \in 1 .. (Len(s) - 1) /\ t[i - 1] = s[(i - 1) + 1]
      BY <1>1, <2>1
    <3> QED BY <3>1, <1>1 DEF Elems
  <2>2. \A i \in DOMAIN t : i + 1 \in DOMAIN s /\ t[i] = s[i + 1]
    BY <1>1
  <2>3. 1 \in DOMAIN s
    BY <1>1
  <2>4. Elems(s) \subseteq Elems(t) \cup {s[1]}
    BY <1>1, <2>1 DEF Elems
  <2>5. Elems(t) \cup {s[1]} \subseteq Elems(s)
    BY <2>2, <2>3 DEF Elems
  <2> QED BY <2>4, <2>5
<1>3. Distinct(s) => Distinct(t) /\ s[1] \notin Elems(t)
  <2> SUFFICES ASSUME Distinct(s) PROVE Distinct(t) /\ s[1] \notin Elems(t)
    OBVIOUS
  <2>1. \A i \in DOMAIN t : i + 1 \in DOMAIN s /\ t[i] = s[i + 1] /\ i + 1 # 1
    BY <1>1
  <2>2. 1 \in DOMAIN s
    BY <1>1
  <2>3. \A i, j \in DOMAIN t : i + 1 = j + 1 => i = j
    BY <1>1
  <2> QED BY <2>1, <2>2, <2>3 DEF Elems, Distinct
<1> QED BY <1>1, <1>2, <1>3 DEF t
-----------------------------------------------------------------------------
(* The inductive invariant. *)

\* olock_list holds each granted or announced lock once; a lock waits in at
\* most one place, once, and only behind a member of olock_list.
ListInv ==
  /\ Distinct(olock_list)
  /\ Elems(olock_list) = {l \in Locks : Held(l)}
  /\ \A q \in Locks : Distinct(waiters[q])
  /\ \A q \in Locks : waiters[q] # << >> => Held(q)
  /\ \A q \in Locks : \A w \in Elems(waiters[q]) : state[w] = "WAITING"
  /\ \A q, r \in Locks : q # r => Elems(waiters[q]) \cap Elems(waiters[r]) = {}

WaitingInv ==
  \A l \in Locks : state[l] = "WAITING" => \E q \in Locks : l \in Elems(waiters[q])

\* Different members of olock_list have different resources, and a waiter
\* waits for the resource of the lock it is behind.
ResourceInv ==
  /\ \A x, y \in Locks : x # y /\ Held(x) /\ Held(y) => ~ olock_same(x, y)
  /\ \A q \in Locks : \A w \in Elems(waiters[q]) : olock_same(q, w)

(* The empty list has no elements.                                         *)
LEMMA EmptyElems == Elems(<< >>) = {} /\ Distinct(<< >>)
  BY DEF Elems, Distinct

(* Another list has one.                                                   *)
LEMMA NonEmptyElems ==
  ASSUME NEW S, NEW s \in Seq(S), s # << >>
  PROVE  Elems(s) # {}
<1>1. Elems(s) = Elems(Tail(s)) \cup {Head(s)}
  BY TailLemma
<1> QED BY <1>1

(* Those that wait are locks.                                              *)
LEMMA WaitersAreLocks ==
  ASSUME TypeOK, NEW q \in Locks
  PROVE  Elems(waiters[q]) \subseteq Locks
<1>1. waiters[q] \in Seq(Locks)
  BY DEF TypeOK
<1> QED BY <1>1 DEF Elems

(* The types hold in the beginning.                                        *)
LEMMA TypeInitial == Init => TypeOK
<1>1. << >> \in Seq(Locks)
  OBVIOUS
<1>2. [l \in Locks |-> << >>] \in [Locks -> Seq(Locks)]
  BY <1>1
<1> QED BY <1>1, <1>2, Zenon DEF Init, TypeOK, LockStates

(* Every step keeps the types.                                             *)
LEMMA TypeStep == TypeOK /\ ListInv /\ [Next]_vars => TypeOK'
<1> SUFFICES ASSUME TypeOK, ListInv, [Next]_vars PROVE TypeOK'
  OBVIOUS
<1> USE DEF TypeOK, LockStates
<1>1. ASSUME NEW l \in Locks, olock_new(l) PROVE TypeOK'
  BY <1>1 DEF olock_new
<1>2. ASSUME NEW l \in Locks, NEW i \in DOMAIN olock_list, WaitBehind(l, i)
      PROVE TypeOK'
  <2>1. olock_list[i] \in Locks
    BY <1>2
  <2> QED BY <1>2, <2>1 DEF WaitBehind
<1>3. ASSUME NEW l \in Locks, Reserve(l) PROVE TypeOK'
  BY <1>3, PushLemma DEF Reserve
<1>4. ASSUME NEW l \in Locks, FreeUnused(l) PROVE TypeOK'
  BY <1>4 DEF FreeUnused
<1>5. ASSUME NEW l \in Locks, FreeUnwanted(l) PROVE TypeOK'
  BY <1>5, UnlinkLemma DEF FreeUnwanted, ListInv
<1>6. ASSUME NEW l \in Locks, HandOver(l) PROVE TypeOK'
  <2> DEFINE q == Head(waiters[l])
  <2>1. q \in Locks /\ Tail(waiters[l]) \in Seq(Locks)
    BY <1>6, TailLemma DEF HandOver
  <2>2. Unlink(olock_list, l) \in Seq(Locks)
    BY UnlinkLemma DEF ListInv
  <2>3. olock_list' \in Seq(Locks)
    BY <1>6, <2>1, <2>2 DEF HandOver
  <2>4. waiters' \in [Locks -> Seq(Locks)]
    <3>1. waiters[q] \o Tail(waiters[l]) \in Seq(Locks) /\ << >> \in Seq(Locks)
      BY <2>1
    <3> QED BY <1>6, <2>1, <3>1, Zenon DEF HandOver
  <2> QED BY <1>6, <2>1, <2>3, <2>4, Zenon DEF HandOver
<1>7. ASSUME NEW l \in Locks, FreeWaiting(l) PROVE TypeOK'
  <2>1. \A q \in Locks : Unlink(waiters[q], l) \in Seq(Locks)
    BY UnlinkLemma DEF ListInv
  <2> QED BY <1>7, <2>1 DEF FreeWaiting
<1>8. CASE RunEvent
  BY <1>8, Zenon DEF RunEvent
<1>9. CASE Grant
  <2>1. Head(olock_list) \in Locks /\ Tail(olock_list) \in Seq(Locks)
    BY <1>9, TailLemma DEF Grant
  <2> QED BY <1>9, <2>1 DEF Grant
<1>10. CASE HookReturns
  BY <1>10 DEF HookReturns
<1>11. CASE LoopBreaks
  BY <1>11 DEF LoopBreaks
<1>12. CASE UNCHANGED vars
  BY <1>12 DEF vars
<1> QED
  BY <1>1, <1>2, <1>3, <1>4, <1>5, <1>6, <1>7, <1>8, <1>9, <1>10, <1>11, <1>12
     DEF Next, olock_acquire, olock_free, olock_run_event

(* The invariants on the lists hold in the beginning.                      *)
LEMMA ListInitial == Init => ListInv /\ WaitingInv /\ ResourceInv
  BY EmptyElems DEF Init, ListInv, WaitingInv, ResourceInv, Held

\* What olock_acquire() and olock_free() do to the lists, in terms of sets.
LEMMA WaitBehindEffect ==
  ASSUME TypeOK, ListInv, NEW l \in Locks, NEW i \in DOMAIN olock_list,
         state[l] = "FREE", WaitBehind(l, i)
  PROVE  LET q == olock_list[i] IN
         /\ q \in Locks /\ Held(q) /\ q # l
         /\ Distinct(waiters'[q])
         /\ Elems(waiters'[q]) = Elems(waiters[q]) \cup {l}
         /\ \A r \in Locks \ {q} : waiters'[r] = waiters[r]
<1> DEFINE q == olock_list[i]
<1>1. q \in Locks /\ q \in Elems(olock_list)
  BY DEF TypeOK, Elems
<1>2. Held(q) /\ q # l
  BY <1>1 DEF ListInv, Held
<1>3. l \notin Elems(waiters[q])
  BY <1>1 DEF ListInv
<1>4. waiters[q] \in Seq(Locks) /\ Distinct(waiters[q])
  BY <1>1 DEF TypeOK, ListInv
<1>5. /\ Distinct(Append(waiters[q], l))
      /\ Elems(Append(waiters[q], l)) = Elems(waiters[q]) \cup {l}
  BY <1>3, <1>4, AppendLemma
<1>6. /\ waiters'[q] = Append(waiters[q], l)
      /\ \A r \in Locks \ {q} : waiters'[r] = waiters[r]
  BY <1>1 DEF TypeOK, WaitBehind
<1> QED BY <1>1, <1>2, <1>5, <1>6

(* A granted lock that is freed gives its place and its list of waiters    *)
(* to the first of them.                                                   *)
LEMMA HandOverEffect ==
  ASSUME TypeOK, ListInv, NEW l \in Locks, HandOver(l)
  PROVE  LET q == Head(waiters[l]) IN
         /\ q \in Locks /\ q # l /\ state[q] = "WAITING" /\ Held(l)
         /\ q \in Elems(waiters[l])
         /\ Distinct(olock_list')
         /\ Elems(olock_list') = (Elems(olock_list) \ {l}) \cup {q}
         /\ Distinct(waiters'[q])
         /\ Elems(waiters'[q]) = Elems(waiters[l]) \ {q}
         /\ waiters'[l] = << >>
         /\ \A r \in Locks \ {q, l} : waiters'[r] = waiters[r]
         /\ state' = [state EXCEPT ![l] = "NONE", ![q] = "EVENT"]
<1> DEFINE q == Head(waiters[l])
<1>1. waiters[l] \in Seq(Locks) /\ waiters[l] # << >> /\ Distinct(waiters[l]) /\ Held(l)
  BY DEF TypeOK, ListInv, HandOver
<1>2. /\ q \in Locks /\ Tail(waiters[l]) \in Seq(Locks)
      /\ Elems(waiters[l]) = Elems(Tail(waiters[l])) \cup {q}
      /\ Distinct(Tail(waiters[l])) /\ q \notin Elems(Tail(waiters[l]))
  BY <1>1, TailLemma
<1>3. state[q] = "WAITING" /\ q # l
  BY <1>1, <1>2 DEF ListInv, Held
<1>4. waiters[q] = << >>
  BY <1>2, <1>3 DEF ListInv, Held
<1>5. waiters[q] \o Tail(waiters[l]) = Tail(waiters[l])
  BY <1>2, <1>4
<1>6. /\ waiters'[q] = Tail(waiters[l]) /\ waiters'[l] = << >>
      /\ \A r \in Locks \ {q, l} : waiters'[r] = waiters[r]
  BY <1>2, <1>3, <1>5, Zenon DEF HandOver, TypeOK
<1>7. /\ Unlink(olock_list, l) \in Seq(Locks) /\ Distinct(Unlink(olock_list, l))
      /\ Elems(Unlink(olock_list, l)) = Elems(olock_list) \ {l}
  BY UnlinkLemma DEF TypeOK, ListInv
<1>8. q \notin Elems(Unlink(olock_list, l))
  BY <1>3, <1>7 DEF ListInv, Held
<1>9. /\ Distinct(<<q>> \o Unlink(olock_list, l))
      /\ Elems(<<q>> \o Unlink(olock_list, l)) = (Elems(olock_list) \ {l}) \cup {q}
  BY <1>2, <1>7, <1>8, PushLemma
<1>10. /\ olock_list' = <<q>> \o Unlink(olock_list, l)
       /\ state' = [state EXCEPT ![l] = "NONE", ![q] = "EVENT"]
  BY DEF HandOver
<1> QED BY <1>1, <1>2, <1>3, <1>6, <1>9, <1>10

(* A waiting lock that is freed leaves its list.                           *)
LEMMA FreeWaitingEffect ==
  ASSUME TypeOK, ListInv, NEW l \in Locks, FreeWaiting(l)
  PROVE  \A q \in Locks : /\ Distinct(waiters'[q])
                          /\ Elems(waiters'[q]) = Elems(waiters[q]) \ {l}
                          /\ waiters'[q] # << >> => waiters[q] # << >>
<1> SUFFICES ASSUME NEW q \in Locks
             PROVE  /\ Distinct(waiters'[q])
                    /\ Elems(waiters'[q]) = Elems(waiters[q]) \ {l}
                    /\ waiters'[q] # << >> => waiters[q] # << >>
  OBVIOUS
<1>1. waiters'[q] = Unlink(waiters[q], l)
  BY DEF FreeWaiting
<1>2. /\ Unlink(waiters[q], l) \in Seq(Locks) /\ Distinct(Unlink(waiters[q], l))
      /\ Elems(Unlink(waiters[q], l)) = Elems(waiters[q]) \ {l}
  BY UnlinkLemma DEF TypeOK, ListInv
<1>3. waiters[q] = << >> => waiters'[q] = << >>
  BY <1>1, EmptyElems DEF Unlink
<1> QED BY <1>1, <1>2, <1>3

(* The event calls the hook of the lock at the head of the list.           *)
LEMMA GrantEffect ==
  ASSUME TypeOK, ListInv, Grant
  PROVE  LET q == Head(olock_list) IN
         /\ q \in Locks /\ state[q] = "EVENT"
         /\ state' = [state EXCEPT ![q] = "LOCKED"]
         /\ Distinct(olock_list') /\ Elems(olock_list') = Elems(olock_list)
<1> DEFINE q == Head(olock_list)
<1>1. /\ q \in Locks /\ Tail(olock_list) \in Seq(Locks)
      /\ Elems(olock_list) = Elems(Tail(olock_list)) \cup {q}
      /\ Distinct(Tail(olock_list)) /\ q \notin Elems(Tail(olock_list))
  BY TailLemma DEF TypeOK, ListInv, Grant
<1>2. /\ Distinct(Append(Tail(olock_list), q))
      /\ Elems(Append(Tail(olock_list), q)) = Elems(olock_list)
  <2> DEFINE t == Tail(olock_list)
  <2> HIDE DEF q, t
  <2>1. t \in Seq(Locks) /\ q \in Locks
    BY <1>1 DEF t
  <2>2. /\ Elems(Append(t, q)) = Elems(t) \cup {q}
        /\ Distinct(t) /\ q \notin Elems(t) => Distinct(Append(t, q))
    BY <2>1, AppendLemma
  <2> QED BY <1>1, <2>2 DEF t
<1> QED BY <1>1, <1>2 DEF Grant

(* Every step keeps the lists right.                                       *)
LEMMA ListStep ==
  TypeOK /\ ListInv /\ WaitingInv /\ [Next]_vars => ListInv' /\ WaitingInv'
<1> SUFFICES ASSUME TypeOK, ListInv, WaitingInv, [Next]_vars
             PROVE  ListInv' /\ WaitingInv'
  OBVIOUS
<1>1. ASSUME NEW l \in Locks, olock_new(l) PROVE ListInv' /\ WaitingInv'
  <2>1. waiters[l] = << >> /\ waiters' = waiters
    BY <1>1, Zenon DEF olock_new, TypeOK, ListInv, Held
  <2>2. \A r \in Locks : Elems(waiters[r]) \subseteq Locks \ {l}
    BY <1>1, WaitersAreLocks DEF olock_new, ListInv
  <2>3. {x \in Locks : Held(x)}' = {x \in Locks : Held(x)}
    BY <1>1 DEF olock_new, TypeOK, Held
  <2>4. /\ olock_list' = olock_list
        /\ state'[l] = "FREE" /\ \A x \in Locks \ {l} : state'[x] = state[x]
    BY <1>1 DEF olock_new, TypeOK
  <2>5. \A q \in Locks : Held(q)' <=> Held(q)
    BY <1>1 DEF olock_new, TypeOK, Held
  <2>6. ListInv'
    BY <2>1, <2>2, <2>3, <2>4, <2>5, Zenon DEF ListInv
  <2>7. WaitingInv'
    BY <2>1, <2>4 DEF WaitingInv
  <2> QED BY <2>6, <2>7
<1>2. ASSUME NEW l \in Locks, NEW i \in DOMAIN olock_list,
             state[l] = "FREE", WaitBehind(l, i)
      PROVE ListInv' /\ WaitingInv'
  <2> DEFINE q == olock_list[i]
  <2>1. /\ q \in Locks /\ Held(q) /\ q # l
        /\ Distinct(waiters'[q])
        /\ Elems(waiters'[q]) = Elems(waiters[q]) \cup {l}
        /\ \A r \in Locks \ {q} : waiters'[r] = waiters[r]
    BY <1>2, WaitBehindEffect
  <2>2. /\ state' = [state EXCEPT ![l] = "WAITING"] /\ olock_list' = olock_list
    BY <1>2 DEF WaitBehind
  <2>3. \A r \in Locks : l \notin Elems(waiters[r])
    BY <1>2 DEF ListInv
  <2> HIDE DEF q
  <2>4. ListInv'
    <3>0. \A r \in Locks : Held(r)' <=> Held(r)
      BY <1>2, <2>2 DEF TypeOK, Held
    <3>1. {x \in Locks : Held(x)}' = {x \in Locks : Held(x)}
      BY <3>0
    <3>2. \A r \in Locks : waiters'[r] # << >> => Held(r)'
      BY <2>1, <3>0 DEF ListInv
    <3>3. ASSUME NEW r \in Locks, NEW x \in Elems(waiters'[r])
          PROVE  state'[x] = "WAITING"
      <4>1. x = l \/ x \in Elems(waiters[r])
        BY <2>1, <3>3
      <4>2. CASE x = l
        BY <1>2, <2>2, <4>2 DEF TypeOK
      <4>3. CASE x \in Elems(waiters[r]) /\ x # l
        <5>1. x \in Locks /\ state[x] = "WAITING"
          BY <1>2, <4>3, WaitersAreLocks DEF TypeOK, ListInv
        <5> QED
          BY <1>2, <2>2, <4>3, <5>1 DEF TypeOK
      <4> QED
        BY <4>1, <4>2, <4>3
    <3>4. \A r, z \in Locks : r # z => Elems(waiters'[r]) \cap Elems(waiters'[z]) = {}
      BY <2>1, <2>3 DEF ListInv
    <3>5. \A r \in Locks : Distinct(waiters'[r])
      BY <2>1 DEF ListInv
    <3> QED BY <3>1, <3>2, <3>3, <3>4, <3>5, <2>2, Zenon DEF ListInv
  <2>5. WaitingInv'
    BY <1>2, <2>1, <2>2, Zenon DEF WaitingInv, TypeOK
  <2> QED BY <2>4, <2>5
<1>3. ASSUME NEW l \in Locks, state[l] = "FREE", Reserve(l)
      PROVE ListInv' /\ WaitingInv'
  <2>1. l \notin Elems(olock_list)
    BY <1>3 DEF ListInv, Held
  <2>2. Distinct(olock_list') /\ Elems(olock_list') = Elems(olock_list) \cup {l}
    BY <1>3, <2>1, PushLemma DEF TypeOK, ListInv, Reserve
  <2>3. \A r \in Locks : l \notin Elems(waiters[r])
    BY <1>3 DEF ListInv
  <2> QED BY <1>3, <2>2, <2>3 DEF Reserve, TypeOK, ListInv, WaitingInv, Held
<1>4. ASSUME NEW l \in Locks, FreeUnused(l) PROVE ListInv' /\ WaitingInv'
  <2>1. \A r \in Locks : l \notin Elems(waiters[r])
    BY <1>4 DEF ListInv, FreeUnused
  <2> QED BY <1>4, <2>1 DEF FreeUnused, TypeOK, ListInv, WaitingInv, Held
<1>5. ASSUME NEW l \in Locks, FreeUnwanted(l) PROVE ListInv' /\ WaitingInv'
  <2>1. Distinct(olock_list') /\ Elems(olock_list') = Elems(olock_list) \ {l}
    BY <1>5, UnlinkLemma DEF TypeOK, ListInv, FreeUnwanted
  <2>2. \A r \in Locks : l \notin Elems(waiters[r])
    BY <1>5 DEF ListInv, FreeUnwanted, Held
  <2> QED BY <1>5, <2>1, <2>2 DEF FreeUnwanted, TypeOK, ListInv, WaitingInv, Held
<1>6. ASSUME NEW l \in Locks, HandOver(l) PROVE ListInv' /\ WaitingInv'
  <2> DEFINE q == Head(waiters[l])
  <2>1. /\ q \in Locks /\ q # l /\ state[q] = "WAITING" /\ Held(l)
        /\ q \in Elems(waiters[l])
        /\ Distinct(olock_list')
        /\ Elems(olock_list') = (Elems(olock_list) \ {l}) \cup {q}
        /\ Distinct(waiters'[q])
        /\ Elems(waiters'[q]) = Elems(waiters[l]) \ {q}
        /\ waiters'[l] = << >>
        /\ \A r \in Locks \ {q, l} : waiters'[r] = waiters[r]
        /\ state' = [state EXCEPT ![l] = "NONE", ![q] = "EVENT"]
    BY <1>6, HandOverEffect
  <2> HIDE DEF q
  <2>2. /\ state'[l] = "NONE" /\ state'[q] = "EVENT"
        /\ \A r \in Locks \ {q, l} : state'[r] = state[r]
    BY <2>1 DEF TypeOK
  <2>3. \A r \in Locks \ {l} : q \notin Elems(waiters[r])
    BY <2>1 DEF ListInv
  <2>4. \A r \in Locks : l \notin Elems(waiters[r])
    BY <2>1 DEF ListInv, Held
  <2>5. Elems(waiters'[l]) = {} /\ Distinct(waiters'[l])
    BY <2>1, EmptyElems
  <2>6. ListInv'
    <3>1. Elems(olock_list') = {x \in Locks : Held(x)}'
      BY <2>1, <2>2, Zenon DEF ListInv, Held
    <3>2. \A r \in Locks : waiters'[r] # << >> => Held(r)'
      BY <2>1, <2>2, Zenon DEF ListInv, Held
    <3>3. \A r \in Locks : \A x \in Elems(waiters'[r]) : state'[x] = "WAITING"
      <4> SUFFICES ASSUME NEW r \in Locks, NEW x \in Elems(waiters'[r])
                   PROVE state'[x] = "WAITING"
        OBVIOUS
      <4>1. x # q /\ x # l /\ state[x] = "WAITING"
        BY <2>1, <2>3, <2>4, <2>5 DEF ListInv
      <4>2. x \in Locks
        BY <2>1, <2>5, WaitersAreLocks
      <4> QED BY <4>1, <4>2, <2>2
    <3>4. \A r, z \in Locks : r # z => Elems(waiters'[r]) \cap Elems(waiters'[z]) = {}
      BY <2>1, <2>5, SMTT(30) DEF ListInv
    <3>5. \A r \in Locks : Distinct(waiters'[r])
      BY <2>1, <2>5 DEF ListInv
    <3> QED BY <2>1, <3>1, <3>2, <3>3, <3>4, <3>5, Zenon DEF ListInv
  <2>7. WaitingInv'
    <3> SUFFICES ASSUME NEW x \in Locks, state'[x] = "WAITING"
                 PROVE \E r \in Locks : x \in Elems(waiters'[r])
      BY DEF WaitingInv
    <3>1. x # q /\ x # l /\ state[x] = "WAITING"
      BY <2>2
    <3>2. PICK r \in Locks : x \in Elems(waiters[r])
      BY <3>1 DEF WaitingInv
    <3>3. r # q
      <4>1. waiters[q] = << >>
        BY <2>1 DEF ListInv, Held
      <4> QED BY <4>1, <3>2, EmptyElems
    <3>4. CASE r = l
      BY <3>1, <3>2, <3>4, <2>1
    <3>5. CASE r # l
      BY <3>2, <3>3, <3>5, <2>1
    <3> QED BY <3>4, <3>5
  <2> QED BY <2>6, <2>7
<1>7. ASSUME NEW l \in Locks, FreeWaiting(l) PROVE ListInv' /\ WaitingInv'
  <2>1. \A q \in Locks : /\ Distinct(waiters'[q])
                         /\ Elems(waiters'[q]) = Elems(waiters[q]) \ {l}
                         /\ waiters'[q] # << >> => waiters[q] # << >>
    BY <1>7, FreeWaitingEffect
  <2>2. /\ state[l] = "WAITING" /\ state' = [state EXCEPT ![l] = "NONE"]
        /\ olock_list' = olock_list
    BY <1>7 DEF FreeWaiting
  <2>3. ListInv'
    <3>1. {x \in Locks : Held(x)}' = {x \in Locks : Held(x)}
      BY <2>2 DEF TypeOK, Held
    <3>2. \A r \in Locks : waiters'[r] # << >> => Held(r)'
      BY <2>1, <2>2 DEF TypeOK, ListInv, Held
    <3>3. \A r \in Locks : \A x \in Elems(waiters'[r]) : state'[x] = "WAITING"
      BY <2>1, <2>2 DEF TypeOK, ListInv
    <3>4. \A r, z \in Locks : r # z => Elems(waiters'[r]) \cap Elems(waiters'[z]) = {}
      BY <2>1, Zenon DEF ListInv
    <3> QED BY <2>1, <2>2, <3>1, <3>2, <3>3, <3>4, Zenon DEF ListInv
  <2>4. WaitingInv'
    BY <2>1, <2>2 DEF WaitingInv, TypeOK
  <2> QED BY <2>3, <2>4
<1>8. CASE RunEvent
  BY <1>8 DEF RunEvent, ListInv, WaitingInv, Held
<1>9. CASE Grant
  <2>1. LET q == Head(olock_list) IN
        /\ q \in Locks /\ state[q] = "EVENT"
        /\ state' = [state EXCEPT ![q] = "LOCKED"]
        /\ Distinct(olock_list') /\ Elems(olock_list') = Elems(olock_list)
    BY <1>9, GrantEffect
  <2>2. waiters' = waiters
    BY <1>9 DEF Grant
  <2>3. {x \in Locks : Held(x)}' = {x \in Locks : Held(x)}
    BY <2>1 DEF TypeOK, Held
  <2>4. \A x \in Locks : state[x] = "WAITING" <=> state'[x] = "WAITING"
    BY <2>1 DEF TypeOK
  <2>5. \A r \in Locks : \A x \in Elems(waiters[r]) : x \in Locks
    BY DEF TypeOK, Elems
  <2> QED BY <2>1, <2>2, <2>3, <2>4, <2>5, Zenon DEF ListInv, WaitingInv
<1>10. CASE HookReturns
  BY <1>10 DEF HookReturns, ListInv, WaitingInv, Held
<1>11. CASE LoopBreaks
  BY <1>11 DEF LoopBreaks, ListInv, WaitingInv, Held
<1>12. CASE UNCHANGED vars
  BY <1>12 DEF vars, ListInv, WaitingInv, Held
<1> QED
  BY <1>1, <1>2, <1>3, <1>4, <1>5, <1>6, <1>7, <1>8, <1>9, <1>10, <1>11, <1>12
     DEF Next, olock_acquire, olock_free, olock_run_event

(* Without mixed wildcards, to compete for a resource is an equivalence.   *)
LEMMA SameIsEquivalence ==
  ASSUME NoMixedWildcard, NEW x \in Locks, NEW y \in Locks, NEW z \in Locks
  PROVE  /\ olock_same(x, y) => olock_same(y, x)
         /\ olock_same(x, y) /\ olock_same(y, z) => olock_same(x, z)
  BY DEF NoMixedWildcard, olock_same

(* Without mixed wildcards every step keeps at most one owner of a         *)
(* resource.                                                               *)
LEMMA ResourceStep ==
  ASSUME NoMixedWildcard
  PROVE  TypeOK /\ ListInv /\ ResourceInv /\ [Next]_vars => ResourceInv'
<1> SUFFICES ASSUME TypeOK, ListInv, ResourceInv, [Next]_vars
             PROVE  ResourceInv'
  OBVIOUS
<1> USE DEF ResourceInv
<1>1. ASSUME NEW l \in Locks, olock_new(l) PROVE ResourceInv'
  <2>1. waiters[l] = << >> /\ waiters' = waiters
    BY <1>1, Zenon DEF olock_new, TypeOK, ListInv, Held
  <2>2. \A x \in Locks : Held(x)' => Held(x)
    BY <1>1 DEF olock_new, TypeOK, Held
  <2> QED BY <2>1, <2>2 DEF olock_same
<1>2. ASSUME NEW l \in Locks, NEW i \in DOMAIN olock_list,
             state[l] = "FREE", WaitBehind(l, i)
      PROVE ResourceInv'
  <2> DEFINE q == olock_list[i]
  <2>1. /\ q \in Locks /\ Held(q) /\ q # l
        /\ Elems(waiters'[q]) = Elems(waiters[q]) \cup {l}
        /\ \A r \in Locks \ {q} : waiters'[r] = waiters[r]
    BY <1>2, WaitBehindEffect
  <2>2. olock_same(q, l) /\ \A x \in Locks : Held(x)' => Held(x)
    BY <1>2 DEF WaitBehind, TypeOK, Held
  <2> HIDE DEF q
  <2> QED BY <2>1, <2>2 DEF olock_same
<1>3. ASSUME NEW l \in Locks, Reserve(l) PROVE ResourceInv'
  <2>1. \A x \in Locks : Held(x) => ~ olock_same(x, l)
    BY <1>3 DEF Reserve, ListInv, Elems
  <2>2. \A x \in Locks : Held(x)' => Held(x) \/ x = l
    BY <1>3 DEF Reserve, TypeOK, Held
  <2>3. waiters' = waiters
    BY <1>3 DEF Reserve
  <2> QED BY <2>1, <2>2, <2>3, SameIsEquivalence DEF olock_same
<1>4. ASSUME NEW l \in Locks, FreeUnused(l) PROVE ResourceInv'
  <2>1. waiters' = waiters /\ \A x \in Locks : Held(x)' => Held(x)
    BY <1>4 DEF FreeUnused, TypeOK, Held
  <2> QED BY <2>1 DEF olock_same
<1>5. ASSUME NEW l \in Locks, FreeUnwanted(l) PROVE ResourceInv'
  <2>1. waiters' = waiters /\ \A x \in Locks : Held(x)' => Held(x)
    BY <1>5 DEF FreeUnwanted, TypeOK, Held
  <2> QED BY <2>1 DEF olock_same
<1>6. ASSUME NEW l \in Locks, HandOver(l) PROVE ResourceInv'
  <2> DEFINE q == Head(waiters[l])
  <2>1. /\ q \in Locks /\ q # l /\ Held(l)
        /\ q \in Elems(waiters[l])
        /\ Elems(waiters'[q]) = Elems(waiters[l]) \ {q}
        /\ waiters'[l] = << >>
        /\ \A r \in Locks \ {q, l} : waiters'[r] = waiters[r]
        /\ state' = [state EXCEPT ![l] = "NONE", ![q] = "EVENT"]
    BY <1>6, HandOverEffect
  <2> HIDE DEF q
  <2>2. \A x \in Locks : Held(x)' => x # l /\ (Held(x) \/ x = q)
    BY <2>1 DEF TypeOK, Held
  <2>3. olock_same(l, q)
    BY <2>1
  <2>4. ASSUME NEW x \in Locks, NEW y \in Locks, x # y, Held(x)', Held(y)'
        PROVE ~ olock_same(x, y)
    <3>1. CASE x = q
      BY <2>1, <2>2, <2>3, <2>4, <3>1, SameIsEquivalence
    <3>2. CASE y = q
      BY <2>1, <2>2, <2>3, <2>4, <3>2, SameIsEquivalence
    <3>3. CASE x # q /\ y # q
      BY <2>2, <2>4, <3>3
    <3> QED BY <3>1, <3>2, <3>3
  <2>5. ASSUME NEW r \in Locks, NEW x \in Elems(waiters'[r])
        PROVE olock_same(r, x)
    <3>1. CASE r = q
      <4>1. x \in Elems(waiters[l]) /\ x \in Locks
        BY <2>1, <2>5, <3>1, WaitersAreLocks
      <4> QED BY <2>1, <2>3, <3>1, <4>1, SameIsEquivalence
    <3>2. CASE r = l
      BY <2>1, <2>5, <3>2, EmptyElems
    <3>3. CASE r # q /\ r # l
      BY <2>1, <2>5, <3>3
    <3> QED BY <3>1, <3>2, <3>3
  <2> QED BY <2>4, <2>5 DEF olock_same
<1>7. ASSUME NEW l \in Locks, FreeWaiting(l) PROVE ResourceInv'
  <2>1. \A q \in Locks : Elems(waiters'[q]) = Elems(waiters[q]) \ {l}
    BY <1>7, FreeWaitingEffect
  <2>2. \A x \in Locks : Held(x)' => Held(x)
    BY <1>7 DEF FreeWaiting, TypeOK, Held
  <2> QED BY <2>1, <2>2 DEF olock_same
<1>8. CASE RunEvent
  BY <1>8 DEF RunEvent, Held, olock_same
<1>9. CASE Grant
  <2>1. \A x \in Locks : Held(x)' => Held(x)
    BY <1>9, GrantEffect DEF TypeOK, Held
  <2>2. waiters' = waiters
    BY <1>9 DEF Grant
  <2> QED BY <2>1, <2>2 DEF olock_same
<1>10. CASE HookReturns
  BY <1>10 DEF HookReturns, Held, olock_same
<1>11. CASE LoopBreaks
  BY <1>11 DEF LoopBreaks, Held, olock_same
<1>12. CASE UNCHANGED vars
  BY <1>12 DEF vars, Held, olock_same
<1> QED
  BY <1>1, <1>2, <1>3, <1>4, <1>5, <1>6, <1>7, <1>8, <1>9, <1>10, <1>11, <1>12
     DEF Next, olock_acquire, olock_free, olock_run_event
-----------------------------------------------------------------------------
(* Grants that are to be announced come first in olock_list. *)

Before(s, E) == \A i, j \in DOMAIN s : i < j /\ s[j] \in E => s[i] \in E

(* Whether the elements of a set precede the others depends on the set     *)
(* within the list.                                                        *)
LEMMA BeforeSame ==
  ASSUME NEW s, NEW E, NEW F, Before(s, E), \A x \in Elems(s) : x \in E <=> x \in F
  PROVE  Before(s, F)
  BY DEF Before, Elems

(* An element of the set may be put in front.                              *)
LEMMA BeforePush ==
  ASSUME NEW S, NEW s \in Seq(S), NEW x \in S, NEW E, Before(s, E), x \in E
  PROVE  Before(<<x>> \o s, E)
<1> DEFINE t == <<x>> \o s
<1>1. /\ Len(s) \in Nat /\ t[1] = x
      /\ DOMAIN s = 1 .. Len(s) /\ DOMAIN t = 1 .. (Len(s) + 1)
      /\ \A i \in 2 .. (Len(s) + 1) : t[i] = s[i - 1]
  OBVIOUS
<1> HIDE DEF t
<1> SUFFICES ASSUME NEW i \in 1 .. (Len(s) + 1), NEW j \in 1 .. (Len(s) + 1),
                    i < j, t[j] \in E
             PROVE  t[i] \in E
  BY <1>1 DEF Before, t
<1>2. CASE i = 1
  BY <1>1, <1>2
<1>3. CASE i # 1
  <2>1. /\ i - 1 \in DOMAIN s /\ j - 1 \in DOMAIN s /\ i - 1 < j - 1
        /\ t[i] = s[i - 1] /\ t[j] = s[j - 1]
    BY <1>1, <1>3
  <2> QED BY <2>1 DEF Before
<1> QED BY <1>2, <1>3

(* An element may be taken out.                                            *)
LEMMA BeforeUnlink ==
  ASSUME NEW S, NEW s \in Seq(S), NEW x, NEW E, Before(s, E)
  PROVE  Before(Unlink(s, x), E)
<1>1. CASE x \notin Elems(s)
  BY <1>1 DEF Unlink
<1>2. CASE x \in Elems(s)
  <2> DEFINE k == CHOOSE i \in DOMAIN s : s[i] = x
             t == [i \in 1 .. (Len(s) - 1) |-> IF i < k THEN s[i] ELSE s[i + 1]]
  <2>1. k \in 1 .. Len(s)
    BY <1>2 DEF Elems
  <2>2. Len(s) - 1 \in Nat /\ Len(s) \in Nat /\ DOMAIN s = 1 .. Len(s)
    BY <2>1
  <2>3. Unlink(s, x) = t
    BY <1>2 DEF Unlink
  <2> HIDE DEF k
  <2>4. /\ DOMAIN t = 1 .. (Len(s) - 1)
        /\ \A i \in 1 .. (Len(s) - 1) : i < k => t[i] = s[i]
        /\ \A i \in 1 .. (Len(s) - 1) : ~(i < k) => t[i] = s[i + 1]
    OBVIOUS
  <2> HIDE DEF t
  <2> SUFFICES ASSUME NEW i \in 1 .. (Len(s) - 1), NEW j \in 1 .. (Len(s) - 1),
                      i < j, t[j] \in E
               PROVE  t[i] \in E
    BY <2>3, <2>4 DEF Before
  <2>5. PICK m \in DOMAIN s, n \in DOMAIN s : m < n /\ t[i] = s[m] /\ t[j] = s[n]
    <3>1. CASE j < k
      <4>1. i \in DOMAIN s /\ j \in DOMAIN s /\ t[i] = s[i] /\ t[j] = s[j]
        BY <2>1, <2>2, <2>4, <3>1
      <4> QED BY <4>1
    <3>2. CASE ~(j < k) /\ i < k
      <4>1. i \in DOMAIN s /\ j + 1 \in DOMAIN s /\ i < j + 1 /\ t[i] = s[i] /\ t[j] = s[j + 1]
        BY <2>1, <2>2, <2>4, <3>2
      <4> QED BY <4>1
    <3>3. CASE ~(j < k) /\ ~(i < k)
      <4>1. /\ i + 1 \in DOMAIN s /\ j + 1 \in DOMAIN s /\ i + 1 < j + 1
            /\ t[i] = s[i + 1] /\ t[j] = s[j + 1]
        BY <2>1, <2>2, <2>4, <3>3
      <4> QED BY <4>1
    <3> QED BY <3>1, <3>2, <3>3
  <2> QED BY <2>5 DEF Before
<1> QED BY <1>1, <1>2

\* The head, once granted, goes to the tail.
LEMMA BeforeRotate ==
  ASSUME NEW S, NEW s \in Seq(S), s # << >>, Distinct(s), NEW E, Before(s, E)
  PROVE  Before(Append(Tail(s), Head(s)), E \ {Head(s)})
<1> DEFINE t == Append(Tail(s), Head(s))
<1>1. /\ Len(s) \in Nat \ {0} /\ DOMAIN s = 1 .. Len(s) /\ DOMAIN t = 1 .. Len(s)
      /\ t[Len(s)] = Head(s)
      /\ \A i \in 1 .. (Len(s) - 1) : t[i] = s[i + 1]
  BY SMTT(30)
<1> HIDE DEF t
<1> SUFFICES ASSUME NEW i \in 1 .. Len(s), NEW j \in 1 .. Len(s),
                    i < j, t[j] \in E \ {Head(s)}
             PROVE  t[i] \in E \ {Head(s)}
  BY <1>1, Zenon DEF Before, t
<1>2. /\ i + 1 \in DOMAIN s /\ j + 1 \in DOMAIN s /\ i + 1 < j + 1
      /\ t[i] = s[i + 1] /\ t[j] = s[j + 1]
  BY <1>1
<1>3. 1 \in DOMAIN s /\ i + 1 # 1 /\ Head(s) = s[1]
  BY <1>1
<1>4. s[i + 1] # s[1]
  BY <1>2, <1>3 DEF Distinct
<1> QED BY <1>2, <1>3, <1>4 DEF Before

\* Whoever's grant is to be announced.
Announced == {l \in Locks : state[l] = "EVENT"}

GrantsInv ==
  /\ Before(olock_list, Announced)
  /\ Announced # {} => scheduled \/ pc # "idle"

(* When the pending locks come first, the event finds all of them.         *)
LEMMA GrantsInvMeans == TypeOK /\ GrantsInv => GrantsPending
<1> SUFFICES ASSUME TypeOK, GrantsInv PROVE GrantsPending
  OBVIOUS
<1>1. \A i \in DOMAIN olock_list : olock_list[i] \in Locks
  BY DEF TypeOK
<1> QED BY <1>1 DEF GrantsInv, GrantsPending, Before, Announced

(* Every step keeps the pending locks first, while the event is            *)
(* scheduled or runs.                                                      *)
LEMMA GrantsStep ==
  TypeOK /\ ListInv /\ GrantsInv /\ [Next]_vars => GrantsInv'
<1> SUFFICES ASSUME TypeOK, ListInv, GrantsInv, [Next]_vars PROVE GrantsInv'
  OBVIOUS
<1>1. olock_list \in Seq(Locks) /\ Distinct(olock_list)
  BY DEF TypeOK, ListInv
<1>2. Announced \subseteq Elems(olock_list) /\ Elems(olock_list) \subseteq Locks
  BY DEF ListInv, Announced, Held
\* Steps that announce nothing and change no member of the list.
<1>3. ASSUME UNCHANGED <<olock_list, scheduled, pc>>, Announced' = Announced
      PROVE  GrantsInv'
  BY <1>3 DEF GrantsInv, Before
<1>4. ASSUME NEW l \in Locks, olock_new(l) PROVE GrantsInv'
  <2>1. Announced' = Announced
    BY <1>4 DEF olock_new, Announced, TypeOK
  <2> QED BY <1>3, <1>4, <2>1 DEF olock_new
<1>5. ASSUME NEW l \in Locks, NEW i \in DOMAIN olock_list,
             state[l] = "FREE", WaitBehind(l, i)
      PROVE GrantsInv'
  <2>1. Announced' = Announced
    BY <1>5 DEF WaitBehind, Announced, TypeOK
  <2> QED BY <1>3, <1>5, <2>1 DEF WaitBehind
<1>6. ASSUME NEW l \in Locks, state[l] = "FREE", Reserve(l) PROVE GrantsInv'
  <2>1. Announced' = Announced \cup {l} /\ scheduled' /\ olock_list' = <<l>> \o olock_list
    BY <1>6 DEF Reserve, Announced, TypeOK
  <2>2. l \notin Elems(olock_list)
    BY <1>6 DEF ListInv, Held
  <2>3. Before(olock_list, Announced')
    BY <2>1, <2>2, BeforeSame DEF GrantsInv
  <2>4. Before(olock_list', Announced')
    BY <1>1, <2>1, <2>3, BeforePush
  <2> QED BY <2>1, <2>4 DEF GrantsInv, Before
<1>7. ASSUME NEW l \in Locks, FreeUnused(l) PROVE GrantsInv'
  <2>1. Announced' = Announced
    BY <1>7 DEF FreeUnused, Announced, TypeOK
  <2> QED BY <1>3, <1>7, <2>1 DEF FreeUnused
<1>8. ASSUME NEW l \in Locks, FreeUnwanted(l) PROVE GrantsInv'
  <2>1. /\ Announced' = Announced \ {l} /\ olock_list' = Unlink(olock_list, l)
        /\ UNCHANGED <<scheduled, pc>>
    BY <1>8 DEF FreeUnwanted, Announced, TypeOK
  <2>2. Before(olock_list', Announced) /\ l \notin Elems(olock_list')
    BY <1>1, <2>1, BeforeUnlink, UnlinkLemma DEF GrantsInv
  <2>3. Before(olock_list', Announced')
    BY <2>1, <2>2, BeforeSame
  <2> QED BY <2>1, <2>3 DEF GrantsInv, Before
<1>9. ASSUME NEW l \in Locks, HandOver(l) PROVE GrantsInv'
  <2> DEFINE q == Head(waiters[l])
             rest == Unlink(olock_list, l)
  <2>1. /\ q \in Locks /\ q # l /\ state[q] = "WAITING"
        /\ state' = [state EXCEPT ![l] = "NONE", ![q] = "EVENT"]
    BY <1>9, HandOverEffect
  <2>2. olock_list' = <<q>> \o rest /\ scheduled'
    BY <1>9 DEF HandOver
  <2>3. /\ rest \in Seq(Locks) /\ Elems(rest) = Elems(olock_list) \ {l}
        /\ Before(rest, Announced)
    BY <1>1, UnlinkLemma, BeforeUnlink DEF GrantsInv
  <2> HIDE DEF q, rest
  <2>4. Announced' = (Announced \ {l}) \cup {q}
    BY <2>1 DEF Announced, TypeOK
  <2>5. q \notin Elems(olock_list)
    BY <2>1 DEF ListInv, Held
  <2>6. \A x \in Elems(rest) : x \in Announced <=> x \in Announced'
    BY <2>3, <2>4, <2>5
  <2>7. Before(rest, Announced')
    BY <2>3, <2>6, BeforeSame
  <2>8. Before(<<q>> \o rest, Announced')
    BY <2>1, <2>3, <2>4, <2>7, BeforePush
  <2> QED BY <2>2, <2>8 DEF GrantsInv, Before
<1>10. ASSUME NEW l \in Locks, FreeWaiting(l) PROVE GrantsInv'
  <2>1. Announced' = Announced
    BY <1>10 DEF FreeWaiting, Announced, TypeOK
  <2> QED BY <1>3, <1>10, <2>1 DEF FreeWaiting
<1>11. CASE RunEvent
  BY <1>11 DEF RunEvent, GrantsInv, Before, Announced
<1>12. CASE Grant
  <2> DEFINE q == Head(olock_list)
  <2>1. /\ olock_list # << >> /\ olock_list' = Append(Tail(olock_list), q)
        /\ pc' = "hook" /\ q \in Locks /\ state' = [state EXCEPT ![q] = "LOCKED"]
    BY <1>12, GrantEffect DEF Grant
  <2>2. Before(olock_list', Announced \ {q})
    BY <1>1, <2>1, BeforeRotate, Zenon DEF GrantsInv
  <2> HIDE DEF q
  <2>3. Announced' = Announced \ {q}
    BY <2>1 DEF Announced, TypeOK
  <2> QED BY <2>1, <2>2, <2>3 DEF GrantsInv, Before
<1>13. CASE HookReturns
  BY <1>13 DEF HookReturns, GrantsInv, Before, Announced
<1>14. CASE LoopBreaks
  <2>1. Announced = {}
    <3> SUFFICES ASSUME NEW x \in Announced PROVE FALSE
      OBVIOUS
    <3>1. PICK j \in DOMAIN olock_list : olock_list[j] = x
      BY <1>2 DEF Elems
    <3>2. 1 \in DOMAIN olock_list /\ Head(olock_list) = olock_list[1] /\ olock_list # << >>
      BY <1>1, <3>1
    <3>3. j = 1 \/ 1 < j
      BY <1>1, <3>1
    <3>4. olock_list[1] \in Announced
      BY <3>1, <3>2, <3>3 DEF GrantsInv, Before
    <3> QED BY <1>14, <3>2, <3>4 DEF LoopBreaks, Announced
  <2>2. Announced' = Announced /\ olock_list' = olock_list
    BY <1>14 DEF LoopBreaks, Announced
  <2> QED BY <2>1, <2>2 DEF GrantsInv, Before
<1>15. CASE UNCHANGED vars
  BY <1>15 DEF vars, GrantsInv, Before, Announced
<1> QED
  BY <1>4, <1>5, <1>6, <1>7, <1>8, <1>9, <1>10, <1>11, <1>12, <1>13, <1>14, <1>15
     DEF Next, olock_acquire, olock_free, olock_run_event
-----------------------------------------------------------------------------
(* The theorems. *)

\* The lists of the lock manager are well formed in every reachable state.
THEOREM ListsSound == Spec => [](TypeOK /\ ListInv /\ WaitingInv)
<1>1. Init => TypeOK /\ ListInv /\ WaitingInv
  BY TypeInitial, ListInitial
<1>2. TypeOK /\ ListInv /\ WaitingInv /\ [Next]_vars => (TypeOK /\ ListInv /\ WaitingInv)'
  BY TypeStep, ListStep
<1> QED BY <1>1, <1>2, PTL DEF Spec

\* Every variable of the lock manager keeps its type.
THEOREM TypeCorrect == Spec => []TypeOK
  BY ListsSound, PTL

\* No sequence of olock_acquire() and olock_free() calls forgets a waiting
\* lock, whatever the locks describe (wildcards included).
THEOREM NeverOrphaned == Spec => []NoOrphan
<1>1. TypeOK /\ ListInv /\ WaitingInv => NoOrphan
  <2> SUFFICES ASSUME TypeOK, ListInv, WaitingInv,
                      NEW l \in Locks, state[l] = "WAITING"
               PROVE  \E q \in Locks :
                        /\ Held(q) /\ l \in Elems(waiters[q])
                        /\ \A r \in Locks \ {q} : l \notin Elems(waiters[r])
    BY DEF NoOrphan
  <2>1. PICK q \in Locks : l \in Elems(waiters[q])
    BY DEF WaitingInv
  <2>2. waiters[q] # << >>
    BY <2>1, EmptyElems
  <2> QED BY <2>1, <2>2 DEF ListInv
<1> QED BY <1>1, ListsSound, PTL

\* The loop of olock_run_event(), which stops at the first lock that is not
\* to be announced, forgets none: such locks come first, and while there is
\* one the loop runs or the event is scheduled.
THEOREM GrantsAnnounced == Spec => []GrantsPending
<1>1. Init => GrantsInv
  <2>1. ASSUME Init PROVE Announced = {} /\ DOMAIN olock_list = {}
    BY <2>1 DEF Init, Announced
  <2> QED BY <2>1 DEF GrantsInv, Before
<1> QED BY <1>1, ListsSound, GrantsStep, GrantsInvMeans, PTL DEF Spec

\* Without a wildcard beside a specific local address, a resource is never
\* granted to two locks, and a lock only waits for a resource that is taken.
THEOREM Exclusive ==
  ASSUME NoMixedWildcard
  PROVE  Spec => [](ExclusiveUse /\ WaitsForOwner)
<1>1. Init => TypeOK /\ ListInv /\ WaitingInv /\ ResourceInv
  BY TypeInitial, ListInitial
<1>2. TypeOK /\ ListInv /\ WaitingInv /\ ResourceInv /\ [Next]_vars
        => (TypeOK /\ ListInv /\ WaitingInv /\ ResourceInv)'
  BY TypeStep, ListStep, ResourceStep
<1>3. TypeOK /\ ListInv /\ WaitingInv /\ ResourceInv => ExclusiveUse /\ WaitsForOwner
  <2> SUFFICES ASSUME TypeOK, ListInv, WaitingInv, ResourceInv
               PROVE  ExclusiveUse /\ WaitsForOwner
    OBVIOUS
  <2>1. ExclusiveUse
    BY DEF ExclusiveUse, ResourceInv, Held
  <2>2. ASSUME NEW l \in Locks, state[l] = "WAITING"
        PROVE \E q \in Locks : q # l /\ Held(q) /\ olock_same(q, l)
    <3>1. PICK q \in Locks : l \in Elems(waiters[q])
      BY <2>2 DEF WaitingInv
    <3>2. waiters[q] # << >>
      BY <3>1, EmptyElems
    <3>3. Held(q) /\ olock_same(q, l) /\ q # l
      BY <2>2, <3>1, <3>2 DEF ListInv, ResourceInv, Held
    <3> QED BY <3>3
  <2> QED BY <2>1, <2>2 DEF WaitsForOwner
<1> QED BY <1>1, <1>2, <1>3, PTL DEF Spec

\* Then whoever waits is kept in one queue, that of the owner of its
\* resource, and grants are announced.
THEOREM WaitersAreKept ==
  ASSUME NoMixedWildcard
  PROVE  Spec => []WaitersKept
<1>1. NoOrphan /\ GrantsPending /\ ExclusiveUse /\ WaitsForOwner => WaitersKept
  BY DEF WaitersKept
<1> QED BY <1>1, NeverOrphaned, GrantsAnnounced, Exclusive, PTL
=============================================================================
