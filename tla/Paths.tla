------------------------------- MODULE Paths -------------------------------
(***************************************************************************)
(* AS paths (nest/a-path.c), lists of communities (nest/a-set.c), sets of  *)
(* values (filter/tree.c) and how filters use them (filter/data.c).        *)
(*                                                                         *)
(* An AS path is a sequence of segments [t, as].  An AS number is four     *)
(* bytes in memory, AS16 is the first one that does not fit in two.  A     *)
(* community, an extended and a large one is a tuple of one, two or three  *)
(* words; their functions differ in the number of words only.  An absent   *)
(* list is empty.                                                          *)
(***************************************************************************)
EXTENDS Integers, Sequences, FiniteSets, FiniteSetsExt, SequencesExt, TLC

CONSTANTS AS16, AS_TRANS, SegMax

BS == 4

Confed(seg) == seg.t \in {"CONFED_SEQUENCE", "CONFED_SET"}
IsSet(seg) == seg.t \in {"SET", "CONFED_SET"}
Flat(path) == FlattenSeq([i \in DOMAIN path |-> path[i].as])

\* The first len bytes of the encoding of a path.
RECURSIVE as_path_valid(_, _, _, _, _)
as_path_valid(path, len, bs, sets, confed) ==
    LET seg == Head(path)
        slen == 2 + bs * Len(seg.as)
    IN  len > 0 => /\ len >= 2
                   /\ len >= slen
                   /\ IsSet(seg) => sets
                   /\ Confed(seg) => confed
                   /\ seg.as # <<>>
                   /\ as_path_valid(Tail(path), len - slen, bs, sets, confed)

MapAs(path, f(_)) ==
    [i \in DOMAIN path |-> [path[i] EXCEPT !.as = [j \in DOMAIN @ |-> f(@[j])]]]

\* The 16-bit encoding is the same sequence of segments.
as_path_16to32(path) == path
as_path_32to16(path) == MapAs(path, LAMBDA as : as % AS16)
as_path_contains_as4(path) == \E i \in DOMAIN path : \E j \in DOMAIN path[i].as : path[i].as[j] >= AS16
as_path_contains_confed(path) == \E i \in DOMAIN path : Confed(path[i])
as_path_contains_set(path) == \E i \in DOMAIN path : IsSet(path[i])
as_path_strip_confed(path) == SelectSeq(path, LAMBDA seg : ~Confed(seg))

as_path_prepend2(op, seq, as) ==
    IF op # <<>> /\ Head(op).t = seq /\ Len(Head(op).as) < SegMax
    THEN [op EXCEPT ![1].as = <<as>> \o @]
    ELSE << [t |-> seq, as |-> <<as>>] >> \o op

as_path_to_old(path) == MapAs(path, LAMBDA as : IF as >= AS16 THEN AS_TRANS ELSE as)

SegLen(seg) == CASE seg.t = "SET" -> 1 [] seg.t = "SEQUENCE" -> Len(seg.as) [] OTHER -> 0

RECURSIVE as_path_cut(_, _)
as_path_cut(path, num) ==
    IF path = <<>> THEN <<>>
    ELSE IF num < SegLen(Head(path))
    THEN IF num = 0 THEN <<>> ELSE << [Head(path) EXCEPT !.as = SubSeq(@, 1, num)] >>
    ELSE <<Head(path)>> \o as_path_cut(Tail(path), num - SegLen(Head(path)))

as_path_merge(p1, p2) == p1 \o p2

as_path_getlen(path) == FoldLeft(LAMBDA n, seg : n + SegLen(seg), 0, path)

\* <<>> is the failure, or zero for get_last_nonaggregated().
as_path_get_last(path) ==
    IF path = <<>> THEN <<>> ELSE IF IsSet(Last(path)) THEN <<>> ELSE <<Last(Last(path).as)>>

RECURSIVE as_path_get_last_nonaggregated(_)
as_path_get_last_nonaggregated(path) ==
    IF path = <<>> THEN <<>>
    ELSE IF IsSet(Head(path)) THEN <<>>
    ELSE LET rest == as_path_get_last_nonaggregated(Tail(path))
         IN  IF rest = <<>> THEN <<Last(Head(path).as)>> ELSE rest

as_path_get_first(path) ==
    IF path = <<>> THEN <<>> ELSE IF Head(path).t = "SEQUENCE" THEN <<Head(Head(path).as)>> ELSE <<>>

RECURSIVE as_path_get_first_regular(_)
as_path_get_first_regular(path) ==
    IF path = <<>> THEN <<>>
    ELSE IF Head(path).t = "SET" THEN <<>>
    ELSE IF Head(path).t = "SEQUENCE" THEN <<Head(Head(path).as)>>
    ELSE as_path_get_first_regular(Tail(path))

as_path_contains(path, as, min) == Len(SelectSeq(Flat(path), LAMBDA a : a = as)) >= min

\* The element at a position, or <<>> after the end.
RECURSIVE as_path_walk(_, _)
as_path_walk(path, x) ==
    IF path = <<>> THEN <<>>
    ELSE IF x < Len(Head(path).as) THEN <<Head(path).as[x + 1]>>
    ELSE as_path_walk(Tail(path), x - Len(Head(path).as))

\* The value of a path that is over stays the last one.
RECURSIVE CompareFrom(_, _, _, _, _)
CompareFrom(path1, path2, pos, old1, old2) ==
    LET res1 == as_path_walk(path1, pos)
        res2 == as_path_walk(path2, pos)
        val1 == IF res1 = <<>> THEN old1 ELSE res1[1]
        val2 == IF res2 = <<>> THEN old2 ELSE res2[1]
    IN  IF res1 = <<>> /\ res2 = <<>> THEN 0
        ELSE IF val1 = val2 THEN CompareFrom(path1, path2, pos + 1, val1, val2)
        ELSE IF val1 < val2 THEN -1 ELSE 1

as_path_compare(path1, path2) == CompareFrom(path1, path2, 0, 0, 0)

(***************************************************************************)
(* Sets of values: balanced trees of intervals.  A value is a tuple of     *)
(* words, compared from the first one.                                     *)
(***************************************************************************)

RECURSIVE val_compare(_, _)
val_compare(v1, v2) ==
    IF v1 = <<>> THEN 0
    ELSE IF Head(v1) < Head(v2) THEN -1
    ELSE IF Head(v1) > Head(v2) THEN 1
    ELSE val_compare(Tail(v1), Tail(v2))

NoTree == <<>>

RECURSIVE find_tree(_, _)
find_tree(t, val) ==
    IF t = NoTree THEN FALSE
    ELSE IF val_compare(t.from, val) # 1 /\ val_compare(t.to, val) # -1 THEN TRUE
    ELSE IF val_compare(t.from, val) = -1 THEN find_tree(t.right, val)
    ELSE find_tree(t.left, val)

\* The tree of elements l..(h-1) of the array.
RECURSIVE build_tree_rec(_, _, _)
build_tree_rec(buf, l, h) ==
    LET pos == (l + h) \div 2
    IN  IF l >= h THEN NoTree
        ELSE [from |-> buf[pos].from, to |-> buf[pos].to,
              left |-> build_tree_rec(buf, l, pos), right |-> build_tree_rec(buf, pos + 1, h)]

\* Overlapping intervals are merged, or refused: the error is an empty tree.
MergeOne(out, x) ==
    IF out = <<>> THEN <<x>>
    ELSE IF val_compare(Last(out).to, x.from) < 0 THEN Append(out, x)
    ELSE IF val_compare(Last(out).to, x.to) < 0
    THEN Append(Front(out), [Last(out) EXCEPT !.to = x.to])
    ELSE out

build_tree(from, merge) ==
    LET buf == SortSeq(from, LAMBDA x, y : val_compare(x.from, y.from) < 0)
        out == FoldLeft(MergeOne, <<>>, buf)
    IN  IF Len(out) < Len(buf) /\ ~merge THEN NoTree ELSE build_tree_rec(out, 1, Len(out) + 1)

RECURSIVE same_tree(_, _)
same_tree(t1, t2) ==
    IF t1 = NoTree \/ t2 = NoTree THEN t1 = NoTree /\ t2 = NoTree
    ELSE /\ val_compare(t1.from, t2.from) = 0 /\ val_compare(t1.to, t2.to) = 0
         /\ same_tree(t1.left, t2.left) /\ same_tree(t1.right, t2.right)

as_path_match_set(path, set) == \E i \in DOMAIN Flat(path) : find_tree(set, <<Flat(path)[i]>>)

as_path_filter(path, set, pos) ==
    SelectSeq([i \in DOMAIN path |-> [path[i] EXCEPT !.as = SelectSeq(@, LAMBDA as : find_tree(set, <<as>>) = pos)]],
              LAMBDA seg : seg.as # <<>>)

(***************************************************************************)
(* Path masks.  Positions of the path, counted from zero, are the states   *)
(* of an automaton; a set is one position.  An item of the mask is         *)
(* [kind, set], where a set is a tree that also stands for a single AS     *)
(* number and a range.  LOOP is a prefix of the item it belongs to.        *)
(***************************************************************************)

parse_path(path) ==
    FlattenSeq([i \in DOMAIN path |->
      IF IsSet(path[i]) THEN << [set |-> TRUE, as |-> path[i].as] >>
      ELSE [j \in DOMAIN path[i].as |-> [set |-> FALSE, as |-> <<path[i].as[j]>>]]])

\* pm_match(), pm_match_val() and pm_match_set()
pm_match(pos, item) == item.kind = "QUESTION" \/ \E i \in DOMAIN pos.as : find_tree(item.set, <<pos.as[i]>>)

\* Marks what follows the position i: the run of sets that it begins, and the one after.
pm_mark(pos, i, a) ==
    LET plen == Len(pos)
        set == pos[i + 1].set
        j == IF set THEN Min({k \in (i + 1)..plen : k = plen \/ ~pos[k + 1].set}) ELSE i + 1
        l == IF set THEN i ELSE j
    IN  [a EXCEPT !.mark = @ \cup l..j, !.nl = IF @ < 0 THEN l ELSE Min({@, l}), !.nh = Max({@, j}), !.at = j]

RECURSIVE MatchFrom(_, _, _, _)
MatchFrom(pos, item, loop, a) ==
    IF ~pm_match(pos[a.at + 1], item) THEN a
    ELSE LET b == pm_mark(pos, a.at, a)
         IN  IF loop /\ b.at < b.last THEN MatchFrom(pos, item, loop, b) ELSE b

\* Marked states from h down to l move over one item.
RECURSIVE Advance(_, _, _, _, _, _)
Advance(pos, item, loop, i, l, a) ==
    IF i < l THEN a
    ELSE IF i \notin a.mark THEN Advance(pos, item, loop, i - 1, l, a)
    ELSE LET b == MatchFrom(pos, item, loop, [a EXCEPT !.mark = @ \ {i}, !.at = i])
         IN  Advance(pos, item, loop, i - 1, l, [b EXCEPT !.last = i])

RECURSIVE MatchMask(_, _, _)
MatchMask(pos, mask, s) ==
    LET plen == Len(pos)
        item == Head(mask)
        marked == s.mark \ {plen}
        a == Advance(pos, item, s.loop, s.h, s.l, [mark |-> marked, nl |-> -1, nh |-> -1, last |-> plen, at |-> 0])
    IN  IF mask = <<>> THEN plen \in s.mark
        ELSE IF item.kind = "ASTERISK"
        THEN MatchMask(pos, Tail(mask), [s EXCEPT !.mark = marked \cup s.l..plen, !.h = plen])
        ELSE IF item.kind = "LOOP" THEN MatchMask(pos, Tail(mask), [s EXCEPT !.mark = marked, !.loop = TRUE])
        ELSE a.nh >= 0 /\ MatchMask(pos, Tail(mask), [mark |-> a.mark, l |-> a.nl, h |-> a.nh, loop |-> FALSE])

as_path_match(path, mask) == MatchMask(parse_path(path), mask, [mark |-> {0}, l |-> 0, h |-> 0, loop |-> FALSE])

\* The + of a mask comes after its item, the automaton has it before.
RECURSIVE PathmaskConstruct(_)
PathmaskConstruct(items) ==
    IF items = <<>> THEN <<>>
    ELSE IF Last(items).kind # "LOOP" THEN Append(PathmaskConstruct(Front(items)), Last(items))
    ELSE LET m == PathmaskConstruct(Front(items)) IN Front(m) \o <<Last(items), Last(m)>>

(***************************************************************************)
(* Lists of communities                                                    *)
(***************************************************************************)

set_contains(list, val) == \E i \in DOMAIN list : list[i] = val
set_prepend(list, val) == IF set_contains(list, val) THEN list ELSE <<val>> \o list
set_add(list, val) == IF set_contains(list, val) THEN list ELSE Append(list, val)

\* All copies go away, but the list gets shorter by one: what is at the end is not
\* initialized, one of the sequences over junk.
set_del(list, val, junk) ==
    IF ~set_contains(list, val) THEN {list}
    ELSE LET kept == SelectSeq(list, LAMBDA v : v # val)
         IN  {kept \o rest : rest \in [1..(Len(list) - 1 - Len(kept)) -> junk]}

set_union(l1, l2) == l1 \o SelectSeq(l2, LAMBDA v : ~set_contains(l1, v))

set_sort(src) == SortSeq(src, LAMBDA x, y : val_compare(x, y) < 0)
Best(list, sign) ==
    FoldLeft(LAMBDA m, v : IF val_compare(m, v) = sign THEN v ELSE m, Head(list), Tail(list))
set_min(list) == IF list = <<>> THEN <<>> ELSE <<Best(list, 1)>>
set_max(list) == IF list = <<>> THEN <<>> ELSE <<Best(list, -1)>>

list_match_set(list, set) == \E i \in DOMAIN list : find_tree(set, list[i])
list_filter(list, set, pos) == SelectSeq(list, LAMBDA v : find_tree(set, v) = pos)
list_filter_list(list, other, pos) == SelectSeq(list, LAMBDA v : set_contains(other, v) = pos)

(***************************************************************************)
(* Properties                                                              *)
(***************************************************************************)

Bytes(path, bs) == FoldLeft(LAMBDA n, seg : n + 2 + bs * Len(seg.as), 0, path)
Valid(path) == as_path_valid(path, Bytes(path, BS), BS, TRUE, TRUE)
Ranges(from) == UNION {{<<v>> : v \in from[i].from[1]..from[i].to[1]} : i \in DOMAIN from}

\* What filters and the BGP protocol do with AS paths keeps them valid and keeps account of
\* their length: prepending adds one, cutting leaves the first ones, merging adds up, the
\* conversion to two bytes loses only AS numbers that do not fit, a filter keeps the order.
PathsRight(p1, p2, as, num, from) ==
    LET pre == as_path_prepend2(p1, "SEQUENCE", as)
        cut == as_path_cut(p1, num)
        old == as_path_to_old(p1)
        set == build_tree(from, TRUE)
        pos == as_path_filter(p1, set, TRUE)
        neg == as_path_filter(p1, set, FALSE)
        strip == as_path_strip_confed(p1)
    IN  /\ Valid(pre) /\ Flat(pre) = <<as>> \o Flat(p1) /\ as_path_getlen(pre) = as_path_getlen(p1) + 1
        /\ as_path_get_first(pre) = <<as>>
        /\ \A i \in DOMAIN pre : Len(pre[i].as) <= SegMax
        /\ Valid(cut) /\ IsPrefix(Flat(cut), Flat(p1)) /\ as_path_getlen(cut) = Min({num, as_path_getlen(p1)})
        /\ as_path_getlen(as_path_merge(cut, p2)) = as_path_getlen(cut) + as_path_getlen(p2)
        /\ ~as_path_contains_as4(old) /\ as_path_16to32(as_path_32to16(old)) = old
        /\ as_path_getlen(old) = as_path_getlen(p1)
        /\ ~as_path_contains_as4(p1) => old = p1
        /\ Valid(pos) /\ Flat(pos) = SelectSeq(Flat(p1), LAMBDA a : <<a>> \in Ranges(from))
        /\ Valid(neg) /\ Flat(neg) = SelectSeq(Flat(p1), LAMBDA a : <<a>> \notin Ranges(from))
        /\ as_path_match_set(p1, set) <=> pos # <<>>
        /\ ~as_path_contains_confed(strip) /\ as_path_getlen(strip) = as_path_getlen(p1)
        /\ as_path_get_first_regular(p1) = as_path_get_first(strip)
        /\ ~as_path_contains_set(p1) => as_path_get_last(p1) = as_path_get_last_nonaggregated(p1)
        /\ as_path_compare(p1, p2) = - as_path_compare(p2, p1)
        /\ as_path_contains(pre, as, 1)

\* Words a path stands for.  A set is any sequence of its AS numbers, a run of sets is a
\* sequence of such sequences of which the first one is not empty.
SeqsOf(S, n) == UNION {[1..k -> S] : k \in 0..n}
Cat(A, B, n) == {a \o b : <<a, b>> \in {ab \in A \X B : Len(ab[1]) + Len(ab[2]) <= n}}

RECURSIVE Words(_, _, _)
Words(pos, inRun, n) ==
    IF pos = <<>> THEN {<<>>}
    ELSE Cat(IF Head(pos).set
             THEN {w \in SeqsOf(ToSet(Head(pos).as), n) : w # <<>> \/ inRun}
             ELSE {Head(pos).as},
             Words(Tail(pos), Head(pos).set, n), n)

\* A mask as a regular expression.
Fits(item, as) == item.kind = "QUESTION" \/ find_tree(item.set, <<as>>)

RECURSIVE Matches(_, _)
Matches(mask, word) ==
    IF mask = <<>> THEN word = <<>>
    ELSE CASE mask[1].kind = "ASTERISK" -> Matches(Tail(mask), word) \/ (word # <<>> /\ Matches(mask, Tail(word)))
           [] mask[1].kind = "LOOP" -> /\ word # <<>> /\ Fits(mask[2], word[1])
                                       /\ \/ Matches(SubSeq(mask, 3, Len(mask)), Tail(word))
                                          \/ Matches(mask, Tail(word))
           [] OTHER -> word # <<>> /\ Fits(mask[1], word[1]) /\ Matches(Tail(mask), Tail(word))

\* A path matches a mask when one of the AS sequences it stands for does, also when the
\* path has sets, and the mask repeats an item or has asterisks.
MatchesExactly(path, items) ==
    LET pos == parse_path(path)
        mask == PathmaskConstruct(items)
    IN  as_path_match(path, mask) <=> \E w \in Words(pos, FALSE, Len(pos) + Len(items)) : Matches(mask, w)

\* Lists of communities are sets that keep the order of what was added, their filters and
\* sets of intervals are exact, and intervals may overlap only when they are merged.
ListsRight(l1, l2, val, from) ==
    LET set == build_tree(from, TRUE)
        dels == set_del(l1, val, {<<0>>})
        once == \A i, j \in DOMAIN l1 : l1[i] = l1[j] => i = j
        sorted == set_sort(l1)
        overlap == \E i, j \in DOMAIN from : i # j /\ Ranges(<<from[i]>>) \cap Ranges(<<from[j]>>) # {}
    IN  /\ ToSet(set_add(l1, val)) = ToSet(l1) \cup {val} /\ IsPrefix(l1, set_add(l1, val))
        /\ ToSet(set_prepend(l1, val)) = ToSet(l1) \cup {val} /\ IsSuffix(l1, set_prepend(l1, val))
        /\ ToSet(set_union(l1, l2)) = ToSet(l1) \cup ToSet(l2) /\ IsPrefix(l1, set_union(l1, l2))
        /\ once => dels = {SelectSeq(l1, LAMBDA v : v # val)}
        /\ \A v \in ToSet(l1) \cup ToSet(l2) \cup {val} : find_tree(set, v) = (v \in Ranges(from))
        /\ list_filter(l1, set, TRUE) = SelectSeq(l1, LAMBDA v : v \in Ranges(from))
        /\ ToSet(list_filter(l1, set, TRUE)) \cup ToSet(list_filter(l1, set, FALSE)) = ToSet(l1)
        /\ ToSet(list_filter_list(l1, l2, FALSE)) = ToSet(l1) \ ToSet(l2)
        /\ list_match_set(l1, set) <=> list_filter(l1, set, TRUE) # <<>>
        /\ (build_tree(from, FALSE) = NoTree) <=> (overlap \/ from = <<>>)
        /\ ~overlap => same_tree(build_tree(from, FALSE), build_tree(Reverse(from), TRUE))
        /\ \A i \in 1..(Len(sorted) - 1) : val_compare(sorted[i], sorted[i + 1]) <= 0
        /\ l1 # <<>> => set_min(l1) = <<sorted[1]>> /\ set_max(l1) = <<Last(sorted)>>

\* Deleting a community gives a list without it and with all the others.
DeleteExact(list, val, junk) ==
    \A res \in set_del(list, val, junk) : res = SelectSeq(list, LAMBDA v : v # val)
=============================================================================
