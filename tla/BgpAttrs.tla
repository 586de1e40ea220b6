------------------------------ MODULE BgpAttrs ------------------------------
(***************************************************************************)
(* BGP attributes (proto/bgp/attrs.c): what a router puts to an update     *)
(* and what the neighbor has after it decodes it.                          *)
(*                                                                         *)
(* A session p is a record with its configuration and what was negotiated; *)
(* a neighbor is a session of another router.  Attributes of a route are   *)
(* a function from codes to [v, flags, originated, fresh], flags are a     *)
(* subset of {"O", "T", "P"} (optional, transitive, partial).  An encoded  *)
(* attribute is [code, flags, v, bad], where bad stands for a wrong length *)
(* or framing.  Next hops have their own module.                           *)
(***************************************************************************)
EXTENDS Paths

CONSTANTS IGP_METRIC_UNKNOWN, BGP_AIGP_MAX, MaxLabel, MaxNlriBits

AttrTable ==
    [ORIGIN |-> {"T"}, AS_PATH |-> {"T"}, NEXT_HOP |-> {"T"}, MULTI_EXIT_DISC |-> {"O"},
     LOCAL_PREF |-> {"T"}, ATOMIC_AGGR |-> {"T"}, AGGREGATOR |-> {"O", "T"}, COMMUNITY |-> {"O", "T"},
     ORIGINATOR_ID |-> {"O"}, CLUSTER_LIST |-> {"O"}, EXT_COMMUNITY |-> {"O", "T"}, AS4_PATH |-> {"O", "T"},
     AS4_AGGREGATOR |-> {"O", "T"}, PMSI_TUNNEL |-> {"O", "T"}, AIGP |-> {"O"}, LARGE_COMMUNITY |-> {"O", "T"},
     ONLY_TO_CUSTOMER |-> {"O", "T"}, MPLS_LABEL_STACK |-> {}]

\* Codes in the order of their numbers; 250 and 251 are not in the table.
Codes == <<"MPLS_LABEL_STACK", "ORIGIN", "AS_PATH", "NEXT_HOP", "MULTI_EXIT_DISC", "LOCAL_PREF", "ATOMIC_AGGR",
           "AGGREGATOR", "COMMUNITY", "ORIGINATOR_ID", "CLUSTER_LIST", "EXT_COMMUNITY", "AS4_PATH",
           "AS4_AGGREGATOR", "PMSI_TUNNEL", "AIGP", "LARGE_COMMUNITY", "ONLY_TO_CUSTOMER", "250", "251">>

bgp_attr_known(code) == code \in DOMAIN AttrTable
Has(attrs, code) == code \in DOMAIN attrs

\* An attribute that replaces an older one keeps the mark of the oldest.
bgp_set_attr(attrs, code, flags, v) ==
    (code :> [v |-> v, flags |-> AttrTable[code] \cup (flags \cap {"P"}), fresh |-> FALSE,
              originated |-> Has(attrs, code) /\ attrs[code].originated]) @@ attrs

bgp_unset_attr(attrs, code) == [k \in DOMAIN attrs \ {code} |-> attrs[k]]
SetIf(cond, attrs, code, v) == IF cond THEN bgp_set_attr(attrs, code, {}, v) ELSE attrs

(***************************************************************************)
(* AIGP: a sequence of TLVs [t, v], type 1 is the metric.                  *)
(***************************************************************************)

bgp_aigp_get_tlv(ad, type) == SelectInSeq(ad, LAMBDA tlv : tlv.t = type)

\* The new TLV is before the first one of the same or a higher type, the first old one goes.
bgp_aigp_set_tlv(ad, type, v) ==
    LET rest == IF bgp_aigp_get_tlv(ad, type) = 0 THEN ad ELSE RemoveAt(ad, bgp_aigp_get_tlv(ad, type))
        at == SelectInSeq(ad, LAMBDA tlv : tlv.t >= type)
    IN  InsertAt(rest, IF at = 0 THEN Len(ad) + 1 ELSE at, [t |-> type, v |-> v])

AigpSum(aigp, step) ==
    LET sum == (aigp + step) % (BGP_AIGP_MAX + 1) IN IF sum < aigp THEN BGP_AIGP_MAX ELSE sum

\* <<metric, ad>> or <<>>
bgp_total_aigp_metric_(e) ==
    LET ad == e.attrs["AIGP"].v
        at == bgp_aigp_get_tlv(ad, 1)
        step == IF ~e.resolvable \/ e.igp_metric >= IGP_METRIC_UNKNOWN THEN BGP_AIGP_MAX
                ELSE IF e.igp_metric = 0 THEN 1 ELSE e.igp_metric
    IN  IF ~Has(e.attrs, "AIGP") THEN <<>>
        ELSE IF at = 0 THEN <<>> ELSE <<AigpSum(ad[at].v, step), ad>>

bgp_init_aigp_metric(e) ==
    IF e.rts_bgp \/ e.igp_metric >= IGP_METRIC_UNKNOWN THEN <<>> ELSE <<e.igp_metric, <<>> >>

(***************************************************************************)
(* Export                                                                  *)
(***************************************************************************)

\* Well-known communities, and the bit of extended communities that are not transitive.
NO_EXPORT == 901
NO_ADVERTISE == 902
NO_EXPORT_SUBCONFED == 903
LLGR_STALE == 906
EC_TBIT == 64

Comm(e) == IF Has(e.attrs, "COMMUNITY") THEN ToSet(e.attrs["COMMUNITY"].v) ELSE {}

bgp_cluster_list_loopy(p, attrs) ==
    Has(attrs, "CLUSTER_LIST") /\ set_contains(attrs["CLUSTER_LIST"].v, <<p.rr_cluster_id>>)

NoSrc == [bgp |-> FALSE]

\* TRUE when the route is not rejected; e.src is the session the route is from.
bgp_preexport(p, e) ==
    LET src == e.src
    IN  src.bgp =>
        /\ src.name # p.name
        /\ ~e.flow_invalid
        /\ p.is_internal /\ src.is_internal /\ p.local_as = src.local_as =>
             /\ p.rr_client \/ src.rr_client
             /\ ~(p.rr_cluster_id # 0 /\ bgp_cluster_list_loopy(p, e.attrs))
        /\ p.interpret_communities =>
             /\ <<NO_ADVERTISE>> \notin Comm(e)
             /\ ~p.is_internal => <<NO_EXPORT_SUBCONFED>> \notin Comm(e)
             /\ ~p.is_interior => <<NO_EXPORT>> \notin Comm(e)
             /\ ~p.llgr_aware => <<LLGR_STALE>> \notin Comm(e)
        /\ ~(p.role_applicable /\ Has(e.attrs, "ONLY_TO_CUSTOMER")
              /\ p.local_role \in {"CUSTOMER", "PEER", "RS_CLIENT"})

aggregator_contains_as4(a) == a[1] >= AS16
aggregator_to_old(a) == <<AS_TRANS, a[2]>>
aggregator_32to16(a) == <<a[1] % AS16, a[2]>>
aggregator_16to32(a) == a

ec_set_del_nontrans(set) == SelectSeq(set, LAMBDA ec : ec[1] < EC_TBIT)

\* An export hook gives "reject", "unset" or the attribute to keep.
Kept(a) == [st |-> "keep", a |-> a]
Unset == [st |-> "unset"]
Reject == [st |-> "reject"]
UnsetIf(cond, a) == IF cond THEN Unset ELSE Kept(a)

bgp_export_origin(a) == IF a.v > 2 THEN Reject ELSE Kept(a)
bgp_export_local_pref(p, a) == UnsetIf(~p.is_interior /\ ~p.allow_local_pref, a)
bgp_export_community(a) == UnsetIf(a.v = <<>>, [a EXCEPT !.v = set_sort(@)])
bgp_export_large_community(a) == bgp_export_community(a)
bgp_export_originator_id(p, a) == UnsetIf(~p.is_internal, a)
bgp_export_cluster_list(p, a) == UnsetIf(~p.is_internal \/ a.v = <<>>, a)
bgp_export_aigp(p, a) == UnsetIf(~p.aigp, a)

bgp_export_ext_community(p, a) ==
    LET ecs == IF p.is_interior THEN a.v ELSE ec_set_del_nontrans(a.v)
    IN  UnsetIf(ecs = <<>>, [a EXCEPT !.v = set_sort(ecs)])

bgp_export_mpls_label_stack(p, e, a) ==
    IF \/ ~p.mpls \/ a.v = <<>>
       \/ 24 * Len(a.v) + e.nlri_bits > MaxNlriBits
       \/ \E i \in DOMAIN a.v : a.v[i] > MaxLabel
    THEN Reject ELSE Kept(a)

ExportHook(p, e, code, a) ==
    CASE code = "ORIGIN" -> bgp_export_origin(a)
      [] code = "LOCAL_PREF" -> bgp_export_local_pref(p, a)
      [] code = "COMMUNITY" -> bgp_export_community(a)
      [] code = "LARGE_COMMUNITY" -> bgp_export_large_community(a)
      [] code = "ORIGINATOR_ID" -> bgp_export_originator_id(p, a)
      [] code = "CLUSTER_LIST" -> bgp_export_cluster_list(p, a)
      [] code = "EXT_COMMUNITY" -> bgp_export_ext_community(p, a)
      [] code = "AIGP" -> bgp_export_aigp(p, a)
      [] code = "MPLS_LABEL_STACK" -> bgp_export_mpls_label_stack(p, e, a)
      [] OTHER -> Kept(a)

bgp_export_attr(p, e, code, a) ==
    IF ~bgp_attr_known(code)
    THEN IF "T" \notin a.flags THEN [st |-> "unset"] ELSE [st |-> "keep", a |-> [a EXCEPT !.flags = @ \cup {"P"}]]
    ELSE ExportHook(p, e, code,
           [a EXCEPT !.flags = (@ \cap {"P"}) \cup AttrTable[code]
              \cup (IF e.src.bgp /\ a.originated /\ {"O", "T"} \subseteq AttrTable[code] THEN {"P"} ELSE {})])

\* The attributes to send, or <<>> when they are not suitable.
Suitable(out) ==
    IF \E code \in DOMAIN out : out[code].st = "reject" THEN <<>>
    ELSE <<[code \in {k \in DOMAIN out : out[k].st = "keep"} |-> out[code].a]>>
bgp_export_attrs(p, e, attrs) ==
    Suitable([code \in DOMAIN attrs |-> bgp_export_attr(p, e, code, attrs[code])])

AsPath(attrs) == IF Has(attrs, "AS_PATH") THEN attrs["AS_PATH"].v ELSE <<>>

UpdateAsPath(p, attrs) ==
    LET ad == IF ~p.confederation \/ ~p.is_interior THEN as_path_strip_confed(AsPath(attrs)) ELSE AsPath(attrs)
        seq == IF p.is_interior THEN "CONFED_SEQUENCE" ELSE "SEQUENCE"
        drop_med == ~p.is_interior /\ Has(attrs, "MULTI_EXIT_DISC") /\ ~p.allow_med
    IN  IF p.is_internal \/ p.rs_client
        THEN SetIf(~Has(attrs, "AS_PATH"), attrs, "AS_PATH", <<>>)
        ELSE LET new == bgp_set_attr(attrs, "AS_PATH", {}, as_path_prepend2(ad, seq, p.public_as))
             IN  IF ~drop_med THEN new
                 ELSE IF attrs["MULTI_EXIT_DISC"].fresh THEN new ELSE bgp_unset_attr(new, "MULTI_EXIT_DISC")

Reflect(p, src, attrs) ==
    LET old == IF Has(attrs, "CLUSTER_LIST") THEN attrs["CLUSTER_LIST"].v ELSE <<>>
        l1 == IF src.rr_cluster_id # 0 THEN set_prepend(old, <<src.rr_cluster_id>>) ELSE old
        l2 == IF p.rr_cluster_id # 0 /\ src.rr_cluster_id # p.rr_cluster_id
              THEN set_prepend(l1, <<p.rr_cluster_id>>) ELSE l1
    IN  bgp_set_attr(SetIf(~Has(attrs, "ORIGINATOR_ID"), attrs, "ORIGINATOR_ID", src.remote_id), "CLUSTER_LIST", {}, l2)

As4AfterOld(p, attrs) ==
    LET old == bgp_set_attr(attrs, "AS_PATH", {}, as_path_to_old(AsPath(attrs)))
    IN  IF p.as4_session \/ ~as_path_contains_as4(AsPath(attrs)) THEN attrs
        ELSE bgp_set_attr(old, "AS4_PATH", {}, as_path_strip_confed(AsPath(old)))

As4Aggregator(attrs) ==
    LET aggr == attrs["AGGREGATOR"].v
    IN  IF ~Has(attrs, "AGGREGATOR") THEN attrs
        ELSE IF ~aggregator_contains_as4(aggr) THEN attrs
        ELSE bgp_set_attr(bgp_set_attr(attrs, "AGGREGATOR", {}, aggregator_to_old(aggr)), "AS4_AGGREGATOR", {}, aggr)

\* The transition attributes are attached only when they are needed.
As4Attrs(p, attrs) ==
    LET path == AsPath(attrs)
        new == IF as_path_contains_as4(path)
              THEN bgp_set_attr(bgp_set_attr(attrs, "AS_PATH", {}, as_path_to_old(path)),
                                "AS4_PATH", {}, as_path_strip_confed(path))
              ELSE attrs
    IN  IF p.as4_session THEN attrs ELSE As4Aggregator(new)

\* The optional and the mandatory attributes that are missing.
MissingAttr(attrs, code, v) == SetIf(~Has(attrs, code), attrs, code, v)

AigpAttr(attrs, aigp) ==
    IF aigp = <<>> THEN attrs ELSE bgp_set_attr(attrs, "AIGP", {}, bgp_aigp_set_tlv(aigp[2], 1, aigp[1]))
WithAigp(p, e, attrs, total) ==
    IF ~e.local_next_hop THEN attrs
    ELSE AigpAttr(attrs, IF total # <<>> \/ ~p.aigp_originate THEN total ELSE bgp_init_aigp_metric(e))

Reflected(p, src, attrs) ==
    IF ~src.bgp \/ ~p.is_internal THEN attrs
    ELSE IF src.is_internal /\ src.local_as = p.local_as THEN Reflect(p, src, attrs) ELSE attrs

WithOtc(p, attrs) ==
    SetIf(p.role_applicable /\ ~Has(attrs, "ONLY_TO_CUSTOMER") /\ p.local_role \in {"PROVIDER", "PEER", "RS_SERVER"},
          attrs, "ONLY_TO_CUSTOMER", p.public_as)

Mandatory(p, e) ==
    MissingAttr(UpdateAsPath(p, MissingAttr(e.attrs, "ORIGIN", IF e.src.bgp THEN 2 ELSE 0)), "NEXT_HOP", "local")
WithPref(p, attrs) == IF p.is_interior THEN MissingAttr(attrs, "LOCAL_PREF", p.default_local_pref) ELSE attrs

bgp_update_attrs(p, e) ==
    bgp_export_attrs(p, e,
      WithOtc(p, As4Attrs(p, Reflected(p, e.src,
        WithAigp(p, e, WithPref(p, Mandatory(p, e)), bgp_total_aigp_metric_(e))))))

\* Values on the wire; next hops and labels are a part of the NLRI.
bgp_encode_attr(p, code, a) ==
    [code |-> code, flags |-> a.flags, bad |-> FALSE,
     v |-> IF code = "AS_PATH" /\ ~p.as4_session THEN as_path_32to16(a.v)
           ELSE IF code = "AGGREGATOR" /\ ~p.as4_session THEN aggregator_32to16(a.v)
           ELSE a.v]

bgp_encode_attrs(p, attrs) ==
    LET codes == SelectSeq(Codes, LAMBDA code : Has(attrs, code) /\ code # "MPLS_LABEL_STACK")
    IN  [i \in DOMAIN codes |-> bgp_encode_attr(p, codes[i], attrs[codes[i]])]

(***************************************************************************)
(* Decoding.  The state is [attrs, seen, withdraw, error].                 *)
(***************************************************************************)

Withdraw(s) == [s EXCEPT !.withdraw = TRUE]
Keep(s, w, v) == [s EXCEPT !.attrs = bgp_set_attr(@, w.code, w.flags, v)]
KeepIf(cond, s, w) == IF cond THEN Keep(s, w, w.v) ELSE s

bgp_as_path_first_as_equal(path, asn) ==
    IF path = <<>> THEN FALSE ELSE Head(path).t \in {"SEQUENCE", "CONFED_SEQUENCE"} /\ Head(Head(path).as) = asn

bgp_decode_as_path(p, s, w) ==
    LET bs == IF p.as4_session THEN 4 ELSE 2
        path == IF p.as4_session THEN w.v ELSE as_path_16to32(w.v)
        confed == path # <<>> /\ Head(path).t = "CONFED_SEQUENCE"
    IN  IF w.bad THEN Withdraw(s)
        ELSE IF ~as_path_valid(w.v, Bytes(w.v, bs), bs, p.allow_as_sets, p.confederation /\ p.is_interior) THEN Withdraw(s)
        ELSE IF p.is_interior /\ ~p.is_internal /\ ~confed THEN Withdraw(s)
        ELSE IF ~p.is_internal /\ p.enforce_first_as /\ ~bgp_as_path_first_as_equal(path, p.remote_as) THEN Withdraw(s)
        ELSE Keep(s, w, path)

bgp_decode_as4_path(p, s, w) ==
    IF p.as4_session \/ w.bad \/ w.v = <<>> THEN s
    ELSE IF ~as_path_valid(w.v, Bytes(w.v, BS), BS, p.allow_as_sets, TRUE) THEN s
    ELSE Keep(s, w, as_path_strip_confed(w.v))

\* Decoding hooks: an attribute of a wrong length withdraws the route or is dropped.
KeepOrWithdraw(s, w) == IF w.bad THEN Withdraw(s) ELSE Keep(s, w, w.v)

bgp_decode_origin(s, w) == IF w.bad \/ w.v > 2 THEN Withdraw(s) ELSE Keep(s, w, w.v)
bgp_decode_med(s, w) == KeepOrWithdraw(s, w)
bgp_decode_local_pref(p, s, w) == IF ~p.is_interior /\ ~p.allow_local_pref THEN s ELSE KeepOrWithdraw(s, w)
bgp_decode_atomic_aggr(s, w) == KeepIf(~w.bad, s, w)
bgp_decode_aggregator(p, s, w) ==
    IF w.bad THEN s ELSE Keep(s, w, IF p.as4_session THEN w.v ELSE aggregator_16to32(w.v))
bgp_decode_community(s, w) == KeepOrWithdraw(s, w)
bgp_decode_originator_id(p, s, w) == IF ~p.is_internal THEN s ELSE KeepOrWithdraw(s, w)
bgp_decode_cluster_list(p, s, w) == IF ~p.is_internal THEN s ELSE KeepOrWithdraw(s, w)
bgp_decode_ext_community(s, w) == KeepOrWithdraw(s, w)
bgp_decode_as4_aggregator(p, s, w) == KeepIf(~p.as4_session /\ ~w.bad, s, w)
\* An unknown type of a tunnel gets the partial bit.
bgp_decode_pmsi_tunnel(s, w) ==
    KeepOrWithdraw(s, IF w.v = "other" THEN [w EXCEPT !.flags = @ \cup {"P"}] ELSE w)
bgp_decode_aigp(s, w) == KeepIf(w.flags \cap {"O", "T"} = {"O"} /\ ~w.bad, s, w)
bgp_decode_large_community(s, w) == KeepOrWithdraw(s, w)
bgp_decode_otc(s, w) == KeepOrWithdraw(s, w)

DecodeHook(p, s, w) ==
    CASE w.code = "ORIGIN" -> bgp_decode_origin(s, w)
      [] w.code = "AS_PATH" -> bgp_decode_as_path(p, s, w)
      [] w.code = "NEXT_HOP" -> KeepOrWithdraw(s, w)
      [] w.code = "MULTI_EXIT_DISC" -> bgp_decode_med(s, w)
      [] w.code = "LOCAL_PREF" -> bgp_decode_local_pref(p, s, w)
      [] w.code = "ATOMIC_AGGR" -> bgp_decode_atomic_aggr(s, w)
      [] w.code = "AGGREGATOR" -> bgp_decode_aggregator(p, s, w)
      [] w.code = "COMMUNITY" -> bgp_decode_community(s, w)
      [] w.code = "ORIGINATOR_ID" -> bgp_decode_originator_id(p, s, w)
      [] w.code = "CLUSTER_LIST" -> bgp_decode_cluster_list(p, s, w)
      [] w.code = "EXT_COMMUNITY" -> bgp_decode_ext_community(s, w)
      [] w.code = "AS4_AGGREGATOR" -> bgp_decode_as4_aggregator(p, s, w)
      [] w.code = "AS4_PATH" -> bgp_decode_as4_path(p, s, w)
      [] w.code = "PMSI_TUNNEL" -> bgp_decode_pmsi_tunnel(s, w)
      [] w.code = "AIGP" -> bgp_decode_aigp(s, w)
      [] w.code = "LARGE_COMMUNITY" -> bgp_decode_large_community(s, w)
      [] w.code = "ONLY_TO_CUSTOMER" -> bgp_decode_otc(s, w)
      [] w.code = "MPLS_LABEL_STACK" -> s

bgp_decode_attr(p, s0, w) ==
    LET s == [s0 EXCEPT !.seen = @ \cup {w.code}]
    IN  IF w.code \in s0.seen THEN s0
        ELSE IF bgp_attr_known(w.code)
        THEN IF (w.flags \cap {"O", "T"}) # AttrTable[w.code] /\ w.code # "AIGP" THEN Withdraw(s) ELSE DecodeHook(p, s, w)
        ELSE IF "O" \notin w.flags THEN Withdraw(s)
        ELSE [s EXCEPT !.attrs = (w.code :> [v |-> w.v, flags |-> w.flags, fresh |-> FALSE, originated |-> FALSE]) @@ @]

bgp_process_as4_attrs(attrs) ==
    LET rest == bgp_unset_attr(bgp_unset_attr(attrs, "AS4_PATH"), "AS4_AGGREGATOR")
        both_aggr == Has(attrs, "AGGREGATOR") /\ Has(attrs, "AS4_AGGREGATOR")
        kept == IF both_aggr THEN [rest EXCEPT !["AGGREGATOR"].v = attrs["AS4_AGGREGATOR"].v] ELSE rest
        p2 == attrs["AS_PATH"].v
        p4 == attrs["AS4_PATH"].v
        cut == as_path_cut(p2, as_path_getlen(p2) - as_path_getlen(p4))
    IN  IF both_aggr /\ attrs["AGGREGATOR"].v[1] # AS_TRANS THEN rest
        ELSE IF ~Has(attrs, "AS4_PATH") THEN kept
        ELSE IF as_path_getlen(p2) < as_path_getlen(p4) THEN kept
        ELSE [kept EXCEPT !["AS_PATH"].v = as_path_merge(cut, p4)]

bgp_as_path_loopy(p, attrs, asn) == p.allow_local_as + 1 > 0 /\ as_path_contains(AsPath(attrs), asn, p.allow_local_as + 1)
bgp_originator_id_loopy(p, attrs) == Has(attrs, "ORIGINATOR_ID") /\ attrs["ORIGINATOR_ID"].v = p.local_id

\* An update with reachable networks: "withdraw", "loop" or the attributes.
LoopOrOk(p, attrs, seen) ==
    IF \/ bgp_as_path_loopy(p, attrs, p.local_as)
       \/ p.public_as # p.local_as /\ bgp_as_path_loopy(p, attrs, p.public_as)
       \/ p.is_internal /\ bgp_originator_id_loopy(p, attrs)
       \/ p.rr_client /\ bgp_cluster_list_loopy(p, attrs)
    THEN [st |-> "loop"]
    ELSE [st |-> "ok", attrs |-> SetIf("LOCAL_PREF" \notin seen, attrs, "LOCAL_PREF", p.default_local_pref)]

Decoded(p, s, framing_error) ==
    IF framing_error \/ s.withdraw \/ ~({"ORIGIN", "AS_PATH", "NEXT_HOP"} \subseteq s.seen) THEN [st |-> "withdraw"]
    ELSE LoopOrOk(p, IF p.as4_session THEN s.attrs ELSE bgp_process_as4_attrs(s.attrs), s.seen)

bgp_decode_attrs(p, wire, framing_error) ==
    Decoded(p, FoldLeft(LAMBDA t, w : bgp_decode_attr(p, t, w),
                        [attrs |-> <<>>, seen |-> {}, withdraw |-> FALSE], wire), framing_error)

bgp_finish_attrs(p, r) ==
    LET attrs == IF p.aigp THEN r.attrs ELSE bgp_unset_attr(r.attrs, "AIGP")
        otc == Has(attrs, "ONLY_TO_CUSTOMER")
    IN  IF ~p.role_applicable THEN [r EXCEPT !.attrs = attrs]
        ELSE IF otc /\ p.local_role \in {"PROVIDER", "RS_SERVER"} THEN [st |-> "withdraw"]
        ELSE IF otc /\ p.local_role = "PEER" /\ attrs["ONLY_TO_CUSTOMER"].v # p.remote_as THEN [st |-> "withdraw"]
        ELSE [r EXCEPT !.attrs = SetIf(~otc /\ p.local_role \in {"CUSTOMER", "PEER", "RS_CLIENT"},
                                       attrs, "ONLY_TO_CUSTOMER", p.remote_as)]

(***************************************************************************)
(* Sessions of routers [id, as, confed, cluster], and what happens to a    *)
(* route that goes over one of them.                                       *)
(***************************************************************************)

\* The session of the router a with b, as set up by bgp_init() and bgp_start(); the rest of
\* the configuration is in cf.
Session(a, b, cf) ==
    LET internal == a.as = b.as
        interior == internal \/ (a.confed # 0 /\ a.confed = b.confed)
    IN  [bgp |-> TRUE, name |-> <<a.id, b.id>>, local_as |-> a.as, is_internal |-> internal, is_interior |-> interior,
         remote_as |-> IF ~interior /\ b.confed # 0 THEN b.confed ELSE b.as,
         public_as |-> IF a.confed # 0 /\ ~interior THEN a.confed ELSE a.as,
         confederation |-> a.confed # 0, local_id |-> a.id, remote_id |-> b.id,
         rr_cluster_id |-> IF ~cf.rr_client THEN 0 ELSE IF a.cluster # 0 THEN a.cluster ELSE a.id] @@ cf

Encoded(p, r) == IF r = <<>> THEN <<>> ELSE <<bgp_encode_attrs(p, r[1])>>

\* The update with a route, or <<>> when there is none.
Send(p, e) ==
    IF ~bgp_preexport(p, e) THEN <<>> ELSE Encoded(p, bgp_update_attrs(p, e))

Finished(q, r) == IF r.st = "ok" THEN bgp_finish_attrs(q, r) ELSE r
Receive(q, wire) == Finished(q, bgp_decode_attrs(q, wire, FALSE))

\* A router that does not know four byte AS numbers passes the update to an EBGP neighbor.
OldRouter(wire, as) ==
    LET kept == SelectSeq(wire, LAMBDA w : w.code \notin {"LOCAL_PREF", "MULTI_EXIT_DISC"})
    IN  [i \in DOMAIN kept |->
           CASE kept[i].code = "AS_PATH" -> [kept[i] EXCEPT !.v = as_path_prepend2(@, "SEQUENCE", as)]
             [] kept[i].code \in {"AS4_PATH", "AS4_AGGREGATOR"} -> [kept[i] EXCEPT !.flags = @ \cup {"P"}]
             [] OTHER -> kept[i]]

Value(attrs, code, def) == IF Has(attrs, code) THEN attrs[code].v ELSE def
Regular(attrs) == Flat(as_path_strip_confed(AsPath(attrs)))
Metric(attrs) == LET ad == Value(attrs, "AIGP", <<>>)
                     at == bgp_aigp_get_tlv(ad, 1)
                 IN  IF at = 0 THEN <<>> ELSE <<ad[at].v>>

Upstream == {"CUSTOMER", "PEER", "RS_CLIENT"}

Preserved(p, e, q, via, got) ==
    LET sent == e.attrs
        own == IF p.is_interior \/ p.rs_client THEN <<>> ELSE <<p.public_as>>
        inside == p.is_interior /\ via = <<>>
        e2 == [e EXCEPT !.src = q, !.attrs = got]
    IN  /\ Regular(got) = Reverse(via) \o own \o Regular(sent)
        /\ Value(got, "AGGREGATOR", <<>>) = Value(sent, "AGGREGATOR", <<>>)
        /\ \A c \in {"COMMUNITY", "LARGE_COMMUNITY"} : Value(got, c, <<>>) = set_sort(Value(sent, c, <<>>))
        /\ Value(got, "EXT_COMMUNITY", <<>>)
             = set_sort(SelectSeq(Value(sent, "EXT_COMMUNITY", <<>>), LAMBDA ec : inside \/ ec[1] < EC_TBIT))
        /\ Has(got, "ORIGINATOR_ID") \/ Has(got, "CLUSTER_LIST") => q.is_internal
        /\ Value(got, "LOCAL_PREF", 0) = IF inside THEN Value(sent, "LOCAL_PREF", p.default_local_pref) ELSE q.default_local_pref
        /\ Has(sent, "250") /\ via = <<>> => Has(got, "250") /\ "P" \in got["250"].flags
        /\ ~Has(got, "251")
        /\ Has(got, "MULTI_EXIT_DISC") /\ ~p.is_interior => sent["MULTI_EXIT_DISC"].fresh
        /\ Metric(got) # <<>> => p.aigp /\ q.aigp /\ (Metric(sent) = <<>> \/ Metric(got)[1] = BGP_AIGP_MAX
                                                       \/ ~e.local_next_hop \/ Metric(got)[1] > Metric(sent)[1])
        /\ q.local_role \in Upstream /\ q.role_applicable => ~bgp_preexport([q EXCEPT !.name = <<0, 0>>], e2)
        /\ {"ORIGIN", "AS_PATH", "LOCAL_PREF"} \subseteq DOMAIN got

Arrives(p, e, q, via, r) ==
    IF r.st # "ok" THEN r.st = "loop" \/ Has(e.attrs, "ONLY_TO_CUSTOMER") ELSE Preserved(p, e, q, via, r.attrs)

\* What the neighbor q has after p sent it a route, directly or through routers with the AS
\* numbers in via that know two byte AS numbers only: the AS path has the same AS numbers,
\* four byte ones included, and those of the routers that passed it; so has the aggregator.
\* Communities stay; local preference, reflection attributes and extended communities that
\* are not transitive do not leave the AS (or the confederation); unknown attributes are kept
\* just when they are transitive and get the partial bit; the AIGP metric grows; a route
\* from a provider or a peer can not be passed to another one.
AttrsFaithful(p, e, q, via) ==
    \A update \in Range(Send(p, e)) : Arrives(p, e, q, via, Receive(q, FoldLeft(OldRouter, update, via)))

\* The route as the last of the hops has it, or <<>> when one did not send or take it.
Hop(hop, e, r) == IF r.st = "ok" THEN <<[e EXCEPT !.src = hop.q, !.attrs = r.attrs]>> ELSE <<>>
Taken(hop, e, sent) == IF sent = <<>> THEN <<>> ELSE Hop(hop, e, Receive(hop.q, sent[1]))
Passed(hop, e) == IF e = <<>> THEN <<>> ELSE Taken(hop, e[1], Send(hop.p, e[1]))
Travel(hops, e) == FoldLeft(LAMBDA t, hop : Passed(hop, t), <<e>>, hops) # <<>>

\* No router sends a route twice to its neighbors inside of the AS or confederation, and no
\* AS has it twice: AS paths, the originator and the list of clusters stop the loops.
LoopsStop(hops, e) ==
    Travel(hops, e) =>
      \A i, j \in DOMAIN hops : i < j =>
        /\ hops[i].p.is_interior /\ hops[j].p.is_interior => hops[i].p.local_id # hops[j].p.local_id
        /\ ~hops[i].p.is_interior /\ ~hops[j].p.is_interior => hops[i].p.public_as # hops[j].p.public_as

\* Outside of the confederation, AS paths that are sent have no confederation segments.
ConfedStripped(p, e) ==
    Send(p, e) # <<>> /\ ~p.is_interior =>
      \A i \in DOMAIN Send(p, e)[1] : Send(p, e)[1][i].code = "AS_PATH" => ~as_path_contains_confed(Send(p, e)[1][i].v)
=============================================================================
