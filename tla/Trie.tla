-------------------------------- MODULE Trie --------------------------------
(***************************************************************************)
(* Prefix sets of filters and the tries of routing tables (filter/trie.c): *)
(* a path-compressed trie with TRIE_STEP bits per level.  Shorter prefixes *)
(* are in the accept mask of a node, the ones inside of its level in the   *)
(* local mask.  Functions on IPv4 and on IPv6 tries are the same up to the *)
(* length of the address.                                                  *)
(*                                                                         *)
(* An address is a number below 2^MAX_PREFIX_LENGTH.  The accept mask is   *)
(* a set of prefix lengths, the local mask a set of positions.             *)
(***************************************************************************)
EXTENDS Integers, Sequences, FiniteSets, FiniteSetsExt, SequencesExt, TLC

CONSTANTS MAX_PREFIX_LENGTH, TRIE_STEP

Addresses == 0..(2 ^ MAX_PREFIX_LENGTH - 1)

ROUND_DOWN_POW2(x) == x - (x % TRIE_STEP)
getbits(a, pos, n) == (a \div 2 ^ (MAX_PREFIX_LENGTH - pos - n)) % (2 ^ n)
setbits(a, pos, val) == a + val * 2 ^ (MAX_PREFIX_LENGTH - 1 - pos)
and_mask(a, len) == a - (a % (2 ^ (MAX_PREFIX_LENGTH - len)))
prefix_equal(a, b, len) == and_mask(a, len) = and_mask(b, len)
pxlen(a, b) == Max({len \in 0..MAX_PREFIX_LENGTH : prefix_equal(a, b, len)})

NULL == <<>>

new_node(plen, local, addr, accept) ==
    [plen |-> plen, local |-> local, addr |-> addr, accept |-> accept,
     c |-> [i \in 0..(2 ^ TRIE_STEP - 1) |-> NULL]]

attach_node(parent, child) ==
    [parent EXCEPT !.c[getbits(child.addr, parent.plen, TRIE_STEP)] = child]

f_new_trie == [zero |-> FALSE, root |-> new_node(0, {}, 0, {})]

trie_local_mask(px, plen, nlen) == 2 ^ (plen - nlen) + getbits(px, nlen, plen - nlen)

AmaskShort(px, amask, nlen) ==
    {trie_local_mask(px, plen, nlen) : plen \in {l \in amask : nlen <= l /\ l < nlen + TRIE_STEP - 1}}

trie_amask_to_local(px, amask, nlen) ==
    {trie_local_mask(px, plen, nlen) : plen \in {l \in amask : nlen <= l /\ l < nlen + TRIE_STEP}}

trie_level_mask(pos, level) == (pos * 2 ^ level)..((pos + 1) * 2 ^ level - 1)

\* The node that takes the place of n (or of nothing) when a node is added.
RECURSIVE Insert(_, _, _, _, _)
Insert(n, plen, paddr, local, amask) ==
    IF n = NULL THEN new_node(plen, local, paddr, amask)
    ELSE IF ~prefix_equal(paddr, n.addr, Min({plen, n.plen}))
    THEN LET blen == ROUND_DOWN_POW2(pxlen(paddr, n.addr))
             b == new_node(blen, trie_amask_to_local(n.addr, n.accept, blen)
                                 \cup trie_amask_to_local(paddr, amask, blen),
                           and_mask(paddr, blen), (amask \cup n.accept) \cap 1..blen)
         IN  attach_node(attach_node(b, n), new_node(plen, local, paddr, amask))
    ELSE IF plen < n.plen
    THEN attach_node(new_node(plen, local \cup trie_amask_to_local(n.addr, n.accept, plen), paddr,
                              amask \cup (n.accept \cap 1..plen)), n)
    ELSE IF plen = n.plen
    THEN [n EXCEPT !.accept = @ \cup amask, !.local = @ \cup local]
    ELSE [n EXCEPT !.accept = @ \cup (amask \cap 1..n.plen),
                   !.local = @ \cup trie_amask_to_local(paddr, amask, n.plen),
                   !.c[getbits(paddr, n.plen, TRIE_STEP)] = Insert(@, plen, paddr, local, amask)]

trie_add_node(t, plen, px, local, l, h) ==
    LET levels == {i \in 0..(TRIE_STEP - 1) : l <= plen + i /\ plen + i <= h}
    IN  [t EXCEPT !.root = Insert(@, plen, and_mask(px, plen),
                                  local \cup UNION {trie_level_mask(1, i) : i \in levels}, Max({l, 1})..h)]

\* A pattern is [px, plen, l, h].
trie_add_prefix(t0, net) ==
    LET l == net.l
        h == net.h
        t == [t0 EXCEPT !.zero = @ \/ l = 0]
        plen == Min({net.plen, h})
        nlen == ROUND_DOWN_POW2(plen)
        slen == nlen + TRIE_STEP
        Local(i) == LET pos == 2 ^ i + getbits(net.px, nlen, i)
                    IN  pos..(pos + (IF nlen + i <= plen THEN 1 ELSE 2 ^ (nlen + i - plen)) - 1)
        local == UNION {Local(i) : i \in {i \in 0..(TRIE_STEP - 1) : l <= nlen + i /\ nlen + i <= h}}
        t1 == IF l < slen THEN trie_add_node(t, nlen, net.px, local, l, nlen) ELSE t
    IN  IF plen = nlen THEN trie_add_node(t, nlen, net.px, {}, l, h)
        ELSE IF slen <= h
        THEN FoldSet(LAMBDA i, u : trie_add_node(u, slen, setbits(net.px, slen - 1, i), {}, Max({l, slen}), h),
                     t1, 0..(2 ^ (slen - plen) - 1))
        ELSE t1

RECURSIVE Match(_, _, _)
Match(n, px, plen) ==
    LET nlen == ROUND_DOWN_POW2(plen)
    IN  /\ n # NULL
        /\ prefix_equal(px, n.addr, Min({plen, n.plen}))
        /\ \/ n.plen = nlen /\ trie_local_mask(px, plen, nlen) \in n.local
           \/ plen \in n.accept
           \/ nlen > n.plen /\ Match(n.c[getbits(px, n.plen, TRIE_STEP)], px, plen)

\* trie_match_net4() and trie_match_net6()
trie_match_net(t, px, plen) == IF plen = 0 THEN t.zero ELSE Match(t.root, px, plen)

\* Lengths of prefixes found on the way; len is the length where the walk is.
RECURSIVE Found(_, _, _, _)
Found(n, px, pxl, len) ==
    IF n = NULL THEN {} ELSE
    IF ~prefix_equal(px, n.addr, Min({pxl, n.plen})) THEN {}
    ELSE LET acc == {k \in len..(n.plen - 1) : k <= pxl /\ k \in n.accept}
             loc == {k \in n.plen..Min({n.plen + TRIE_STEP - 1, pxl, MAX_PREFIX_LENGTH}) :
                       trie_local_mask(px, k, n.plen) \in n.local}
         IN  acc \cup loc \cup (IF n.plen + TRIE_STEP > pxl \/ n.plen = MAX_PREFIX_LENGTH THEN {}
                                ELSE Found(n.c[getbits(px, n.plen, TRIE_STEP)], px, pxl, n.plen + TRIE_STEP))

\* trie_match_longest_ip4() and _ip6(): all lengths found, the longest is the result.
trie_match_longest(t, px, pxl) == Found(t.root, px, pxl, 0)

(***************************************************************************)
(* The walk.  A state has the stack of nodes; an empty one is the end.     *)
(***************************************************************************)

RECURSIVE WalkRoot(_, _, _)
WalkRoot(n, px, pxl) ==
    LET plen == ROUND_DOWN_POW2(pxl)
        step == pxl - plen
        end == [stack |-> <<>>, accept_length |-> 0, start_pos |-> 1, local_pos |-> 1]
        start == 2 ^ step + getbits(px, plen, step)
    IN  IF n = NULL THEN end
        ELSE IF ~prefix_equal(px, n.addr, Min({pxl, n.plen})) THEN end
        ELSE IF n.plen = plen
        THEN [stack |-> <<n>>, accept_length |-> plen, start_pos |-> start, local_pos |-> start]
        ELSE IF n.plen > plen
        THEN [stack |-> <<n>>, accept_length |-> pxl, start_pos |-> 1, local_pos |-> 1]
        ELSE WalkRoot(n.c[getbits(px, n.plen, TRIE_STEP)], px, pxl)

trie_walk_init(t, px, pxl) == WalkRoot(t.root, px, pxl)

\* Steps up from pos at the bottom of the top node until it returns from a left child.
RECURSIVE Up(_, _)
Up(w, pos) ==
    LET d == Len(w.stack)
        n == w.stack[d]
        parent == w.stack[d - 1]
        w1 == IF pos = 1 THEN [w EXCEPT !.stack = Front(@), !.accept_length = parent.plen] ELSE w
        p1 == IF pos = 1 THEN getbits(n.addr, parent.plen, TRIE_STEP) + 2 ^ TRIE_STEP ELSE pos
    IN  IF d = 1 /\ pos = w.start_pos THEN [w EXCEPT !.stack = <<>>]
        ELSE IF p1 % 2 = 1 THEN Up(w1, p1 \div 2)
        ELSE [w1 EXCEPT !.local_pos = 2 * (p1 \div 2) + 1]

Log2(pos) == Max({x \in 0..TRIE_STEP : 2 ^ x <= pos})

\* The next prefix and the state after it.
RECURSIVE trie_walk_next(_)
trie_walk_next(w) ==
    IF w.stack = <<>> THEN [net |-> <<>>, w |-> w] ELSE
    LET n == Last(w.stack)
        pos == w.local_pos
        acc == {k \in w.accept_length..(n.plen - 1) : k \in n.accept}
        len == IF acc = {} THEN Max({w.accept_length, n.plen}) ELSE Min(acc)
        w1 == [w EXCEPT !.accept_length = len]
        child == n.c[pos - 2 ^ TRIE_STEP]
        x == Log2(pos)
    IN  IF acc # {}
        THEN [net |-> <<and_mask(n.addr, len), len>>, w |-> [w EXCEPT !.accept_length = len + 1]]
        ELSE IF pos >= 2 ^ TRIE_STEP
        THEN IF child = NULL THEN trie_walk_next(Up(w1, pos))
             ELSE trie_walk_next([w1 EXCEPT !.stack = Append(@, child), !.local_pos = 1,
                                            !.accept_length = n.plen + TRIE_STEP])
        ELSE IF pos \in n.local
        THEN [net |-> <<IF x = 0 THEN n.addr ELSE setbits(n.addr, n.plen + x - 1, pos - 2 ^ x), n.plen + x>>,
              w |-> [w1 EXCEPT !.local_pos = 2 * pos]]
        ELSE trie_walk_next([w1 EXCEPT !.local_pos = 2 * pos])

RECURSIVE Walk(_)
Walk(w) == LET r == trie_walk_next(w) IN IF r.net = <<>> THEN <<>> ELSE <<r.net>> \o Walk(r.w)

\* trie_node_same4(), trie_node_same6()
RECURSIVE trie_node_same(_, _)
trie_node_same(n1, n2) ==
    IF n1 = NULL \/ n2 = NULL THEN n1 = NULL /\ n2 = NULL
    ELSE /\ n1.plen = n2.plen /\ n1.addr = n2.addr /\ n1.accept = n2.accept
         /\ \A i \in DOMAIN n1.c : trie_node_same(n1.c[i], n2.c[i])

trie_same(t1, t2) == t1.zero = t2.zero /\ trie_node_same(t1.root, t2.root)

(***************************************************************************)
(* Properties.  The trie of a sequence of patterns is compared with the    *)
(* meaning of patterns.                                                    *)
(***************************************************************************)

TrieOf(patterns) == FoldLeft(trie_add_prefix, f_new_trie, patterns)

Covers(net, px, plen) ==
    /\ net.l <= plen /\ plen <= net.h
    /\ prefix_equal(net.px, px, Min({net.plen, plen}))

Explicit(patterns) == \A i \in DOMAIN patterns : patterns[i].l = patterns[i].plen /\ patterns[i].h = patterns[i].plen

\* A prefix matches a prefix set when it matches one of its patterns.
MatchesRight(patterns) ==
    LET t == TrieOf(patterns)
    IN  \A plen \in 0..MAX_PREFIX_LENGTH : \A px \in {and_mask(a, plen) : a \in Addresses} :
          trie_match_net(t, px, plen) = \E i \in DOMAIN patterns : Covers(patterns[i], px, plen)

Nets(patterns) == {<<patterns[i].px, patterns[i].plen>> : i \in DOMAIN patterns}

\* In a trie of prefixes, the longest match finds all prefixes over a network, and a walk
\* goes once over every prefix inside of it, in lexicographic order.
WalksRight(patterns) ==
    LET t == TrieOf(patterns)
        nets == Nets(patterns)
    IN  \A plen \in 0..MAX_PREFIX_LENGTH : \A px \in {and_mask(a, plen) : a \in Addresses} :
          LET walk == Walk(trie_walk_init(t, px, plen))
          IN  /\ trie_match_longest(t, px, plen)
                   = {n[2] : n \in {n \in nets : n[2] <= plen /\ prefix_equal(n[1], px, n[2])}}
              /\ ToSet(walk) = {n \in nets : n[2] >= plen /\ prefix_equal(n[1], px, plen)}
              /\ \A i, j \in DOMAIN walk :
                   i < j => walk[i][1] < walk[j][1] \/ (walk[i][1] = walk[j][1] /\ walk[i][2] < walk[j][2])

\* Tries say what prefix sets filters have and what networks tables have: see MatchesRight
\* and WalksRight.
TrieRight(patterns) == MatchesRight(patterns) /\ (Explicit(patterns) => WalksRight(patterns))

\* Two tries are the same only if they match the same prefixes.
SameTries(p1, p2) ==
    trie_same(TrieOf(p1), TrieOf(p2)) =>
      \A plen \in 0..MAX_PREFIX_LENGTH : \A px \in {and_mask(a, plen) : a \in Addresses} :
        trie_match_net(TrieOf(p1), px, plen) = trie_match_net(TrieOf(p2), px, plen)
=============================================================================
