-------------------------------- MODULE Fib ---------------------------------
(***************************************************************************)
(* The forwarding information base, nest/rt-fib.c: a hash table whose      *)
(* nodes are kept in the order of their full hash, so that resizing never  *)
(* changes the order a reader sees, and asynchronous iterators that        *)
(* survive insertions, deletions and resizing between their steps.         *)
(*                                                                         *)
(* The iterators put at a node are the list of its readers.  i->node is a  *)
(* shortcut to the node; iterators moved by the deletion of their node     *)
(* lose it and find the node by walking back through the list.             *)
(***************************************************************************)
EXTENDS Integers, Sequences, FiniteSets, SequencesExt

CONSTANTS Keys,        \* networks, a function to their full hash in 0 .. 2^Bits - 1
          Bits,        \* width of the hash
          Iterators,
          None,
          Hi,          \* order -> entries_max
          Lo           \* order -> entries_min

VARIABLES order,       \* hash_order
          table,       \* bucket -> sequence of nodes
          readers,     \* node in the FIB -> sequence of iterators
          node,        \* iterator -> i->node
          linked,      \* iterators with i->prev # NULL
          walk         \* iterator -> [on, last, must]: hash of the last node a reader
                       \* saw, and the nodes it has yet to see (history)
vars == <<order, table, readers, node, linked, walk>>

Idle == [on |-> FALSE, last |-> 0, must |-> {}]

HASH_HI_STEP == 1
HASH_LO_STEP == 2
Buckets(o) == 0 .. 2 ^ o - 1
fib_hash(k, o) == Keys[k] \div 2 ^ (Bits - o)

\* The nodes in the canonical reading order.
Nodes(t) == FlattenSeq([h \in 1 .. Cardinality(DOMAIN t) |-> t[h - 1]])
entries(t) == Len(Nodes(t))

\* FIB_INSERT: before the first node whose hash is not smaller.
fib_insert(t, k, o) ==
  [t EXCEPT ![fib_hash(k, o)] =
     LET before == SelectSeq(@, LAMBDA g : Keys[g] < Keys[k])
     IN  before \o <<k>> \o SubSeq(@, Len(before) + 1, Len(@))]

\* The nodes are distributed in one pass over the old table; a node is never put
\* into a bucket before the last one used.
fib_rehash(t, o) ==
  LET put(s, k) == LET h == IF fib_hash(k, o) > s.at THEN fib_hash(k, o) ELSE s.at
                   IN  [at |-> h, t |-> [s.t EXCEPT ![h] = Append(@, k)]]
  IN  FoldLeft(put, [at |-> 0, t |-> [h \in Buckets(o) |-> << >>]], Nodes(t)).t

fib_get(k) ==
  /\ k \notin DOMAIN readers
  /\ LET t == fib_insert(table, k, order)
         o == IF entries(table) > Hi[order] THEN order + HASH_HI_STEP ELSE order
     IN  /\ order' = o
         /\ table' = IF o # order THEN fib_rehash(t, o) ELSE t
  /\ readers' = [n \in DOMAIN readers \cup {k} |-> IF n = k THEN << >> ELSE readers[n]]
  /\ UNCHANGED <<node, linked, walk>>
-----------------------------------------------------------------------------
(* Iterators *)
\* The node after n, found through its bucket and the following ones.
After(t, n, o) ==
  LET b == t[fib_hash(n, o)]
      i == CHOOSE j \in DOMAIN b : b[j] = n
      later == {h \in DOMAIN t : h > fib_hash(n, o) /\ t[h] # << >>}
  IN  IF i < Len(b) THEN b[i + 1]
      ELSE IF later = {} THEN None
      ELSE Head(t[CHOOSE h \in later : \A g \in later : h <= g])

\* Readers, shortcuts and links as one record.
State == [readers |-> readers, node |-> node, linked |-> linked]
Become(s) == readers' = s.readers /\ node' = s.node /\ linked' = s.linked

\* Variant: the moved iterators keep the shortcut to the deleted node.
MergeKeep(s, its, to) ==
  IF to = None THEN [s EXCEPT !.linked = @ \ Range(its)]
  ELSE [s EXCEPT !.readers[to] = @ \o its]

\* The iterators of a deleted node go behind those of the next one; the shortcut
\* is cleared up to the first iterator that has none.
fib_merge_readers(s, its, to) ==
  IF to = None THEN [s EXCEPT !.linked = @ \ Range(its)]
  ELSE LET clear == {its[k] : k \in {m \in DOMAIN its : \A j \in 1 .. m : s.node[its[j]] # None}}
       IN  [s EXCEPT !.readers[to] = @ \o its,
                     !.node = [i \in DOMAIN @ |-> IF i \in clear THEN None ELSE @[i]]]

Unlink(s, n, i) == [s EXCEPT !.readers[n] = SelectSeq(@, LAMBDA j : j # i)]

fit_put(s, i, n) ==
  [s EXCEPT !.readers[n] = <<i>> \o @, !.node[i] = n, !.linked = @ \cup {i}]

fit_put_end(s, i) == [s EXCEPT !.node[i] = None, !.linked = @ \ {i}]

PutOrEnd(s, i, n) == IF n = None THEN fit_put_end(s, i) ELSE fit_put(s, i, n)

\* The node of an iterator: the shortcut, or the node the list hangs on.
Place(i) ==
  IF i \notin linked THEN None
  ELSE IF node[i] # None THEN node[i]
  ELSE CHOOSE n \in DOMAIN readers : i \in Range(readers[n])

\* fit_get() takes the iterator out of the list of its node.
fit_get(s, i) == LET n == Place(i) IN IF n = None THEN s ELSE Unlink(s, n, i)

fit_init(i) ==
  /\ ~walk[i].on
  /\ LET n == Nodes(table)
     IN  Become(IF n = << >> THEN fit_put_end(State, i) ELSE fit_put(State, i, n[1]))
  /\ walk' = [walk EXCEPT ![i] = [on |-> TRUE, last |-> 0, must |-> DOMAIN readers]]
  /\ UNCHANGED <<order, table>>

\* FIB_ITERATE_START ... FIB_ITERATE_END: the reader gets its node, deals with
\* it, and puts the iterator to the next one (by its own loop or by
\* FIB_ITERATE_PUT_NEXT).  A reader at the end is done.
Read(i) ==
  /\ walk[i].on
  /\ LET n == Place(i)
     IN  IF n = None
         THEN /\ walk' = [walk EXCEPT ![i] = Idle]
              /\ Become(fit_put_end(State, i))
         ELSE /\ walk' = [walk EXCEPT ![i].last = Keys[n], ![i].must = @ \ {n}]
              /\ Become(PutOrEnd(fit_get(State, i), i, After(table, n, order)))
  /\ UNCHANGED <<order, table>>

\* The reader stays at the node it has not dealt with: FIB_ITERATE_PUT.
Stay(i) ==
  /\ walk[i].on /\ Place(i) # None
  /\ Become(fit_put(fit_get(State, i), i, Place(i)))
  /\ UNCHANGED <<order, table, walk>>

\* The reader is taken out: FIB_ITERATE_UNLINK.
Stop(i) ==
  /\ walk[i].on
  /\ Become(fit_put_end(fit_get(State, i), i))
  /\ walk' = [walk EXCEPT ![i] = Idle]
  /\ UNCHANGED <<order, table>>

\* dst goes right behind src.
fit_copy(dst, src) ==
  /\ dst # src /\ walk[src].on /\ walk[dst].on
  /\ LET s == fit_get(State, dst)
         n == Place(src)
         at == CHOOSE j \in DOMAIN s.readers[n] : s.readers[n][j] = src
     IN  IF n = None THEN Become(fit_put_end(s, dst))
         ELSE Become([s EXCEPT !.readers[n] = InsertAt(@, at + 1, dst),
                               !.node[dst] = s.node[src], !.linked = @ \cup {dst}])
  /\ walk' = [walk EXCEPT ![dst] = walk[src]]
  /\ UNCHANGED <<order, table>>

\* The readers of the node are shifted to the next one.
fib_delete(k) ==
  /\ k \in DOMAIN readers
  /\ LET s == IF readers[k] = << >> THEN State
              ELSE fib_merge_readers(State, readers[k], After(table, k, order))
         t == [table EXCEPT ![fib_hash(k, order)] = SelectSeq(@, LAMBDA n : n # k)]
         o == IF entries(table) < Lo[order] THEN order - HASH_LO_STEP ELSE order
     IN  /\ order' = o
         /\ table' = IF o # order THEN fib_rehash(t, o) ELSE t
         /\ readers' = [n \in DOMAIN readers \ {k} |-> s.readers[n]]
         /\ node' = s.node /\ linked' = s.linked
  /\ walk' = [i \in Iterators |-> [walk[i] EXCEPT !.must = @ \ {k}]]
-----------------------------------------------------------------------------
Init ==
  /\ order = 0
  /\ table = [h \in Buckets(0) |-> << >>]
  /\ readers = << >>
  /\ node = [i \in Iterators |-> None]
  /\ linked = {}
  /\ walk = [i \in Iterators |-> Idle]

Next ==
  \/ \E k \in DOMAIN Keys : fib_get(k) \/ fib_delete(k)
  \/ \E i \in Iterators : fit_init(i) \/ Read(i) \/ Stay(i) \/ Stop(i)
  \/ \E i, j \in Iterators : fit_copy(i, j)
-----------------------------------------------------------------------------
\* A reader that is at the end has seen every node that was in the FIB from its
\* start on; it never meets a deleted node, and it meets the nodes in the order of
\* their hashes, whatever was inserted, deleted and resized between its steps.
ReadersSeeAll ==
  \A i \in Iterators :
    walk[i].on => /\ Place(i) = None => walk[i].must = {}
                  /\ Place(i) # None => /\ Place(i) \in DOMAIN readers
                                        /\ Keys[Place(i)] >= walk[i].last

\* Every node is in the bucket of its hash, also after resizing.
NodesFound ==
  \A h \in DOMAIN table : \A j \in DOMAIN table[h] :
    fib_hash(table[h][j], order) = h /\ table[h][j] \in DOMAIN readers
=============================================================================
