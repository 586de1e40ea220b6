----------------------------- MODULE BgpPackets -----------------------------
(***************************************************************************)
(* BGP packets (proto/bgp/packets.c): the OPEN messages of a session, and  *)
(* the next hops and NLRI of its updates.                                  *)
(*                                                                         *)
(* OPEN: the capabilities a router announces from its configuration, how   *)
(* the neighbor reads and checks them, and what each side derives from     *)
(* both.  A capability is a pair of its name and its data; an OPEN message *)
(* is a record with the sequence of capabilities.  A configuration is the  *)
(* record of the fields of struct bgp_config that take part.               *)
(*                                                                         *)
(* Next hops and NLRI: how a router chooses and writes the next hop, how   *)
(* it writes prefixes of a bucket to packets, and what the neighbor reads  *)
(* from them.  A packet is a sequence of fields [f, n, v]: what is         *)
(* written, in how many bytes, and the value.  A reader that finds another *)
(* field or another length than it expects has lost the framing; that is   *)
(* the same as an error it finds itself.  Addresses are <<4, i>>, <<6, i>>, *)
(* <<10, i>> (link-local) or NONE.                                         *)
(***************************************************************************)
EXTENDS Integers, Sequences, FiniteSets, SequencesExt

CONSTANT Afis                      \* address families; "ipv4" is one
Undefined == "UNDEFINED"           \* BGP_ROLE_UNDEFINED
AS_TRANS == 23456

\* The configurations bgp_postconfig() lets through, as far as they matter here.
bgp_postconfig(cf) ==
  /\ cf.is_internal <=> cf.local_as = cf.remote_as
  /\ cf.remote_as > 65535 => cf.capabilities /\ cf.enable_as4
  /\ cf.is_internal => cf.local_role = Undefined
  /\ cf.require_roles => cf.local_role # Undefined
  /\ cf.llgr_mode => cf.gr_mode
  /\ cf.keepalive_time <= cf.hold_time
  /\ cf.min_hold_time <= cf.hold_time
  /\ cf.min_keepalive_time <=
       IF cf.keepalive_time # 0 THEN cf.keepalive_time ELSE cf.hold_time \div 3

NoAf == [ready |-> FALSE, ext_next_hop |-> FALSE, add_path |-> {}, gr_able |-> FALSE,
         gr_af_flags |-> FALSE, llgr_able |-> FALSE, llgr_flags |-> FALSE]
NoCaps == [af |-> [f \in Afis |-> NoAf], length |-> 0, as4_support |-> FALSE,
           as4_number |-> 0, ext_messages |-> FALSE, route_refresh |-> FALSE,
           enhanced_refresh |-> FALSE, role |-> Undefined, gr_aware |-> FALSE,
           gr_restart |-> FALSE, llgr_aware |-> FALSE]

\* Without any capability IPv4 is taken for granted.
bgp_find_af_caps(caps, f) ==
  IF caps.length = 0 /\ f = "ipv4" THEN [NoAf EXCEPT !.ready = TRUE] ELSE caps.af[f]

bgp_prepare_capabilities(cf) ==
  IF ~cf.capabilities THEN NoCaps
  ELSE [af |-> [f \in Afis |->
          IF f \notin cf.channels THEN NoAf
          ELSE [ready |-> TRUE,
                ext_next_hop |-> f = "ipv4" /\ cf.ext_next_hop,
                add_path |-> cf.add_path,
                gr_able |-> cf.gr_able, gr_af_flags |-> cf.gr_able /\ cf.gr_recovery,
                llgr_able |-> cf.llgr_able, llgr_flags |-> cf.llgr_able /\ cf.gr_recovery]],
        length |-> 1,
        as4_support |-> cf.enable_as4, as4_number |-> cf.public_as,
        ext_messages |-> cf.enable_extended_messages,
        route_refresh |-> cf.enable_refresh,
        enhanced_refresh |-> cf.enable_refresh /\ cf.enable_enhanced_refresh,
        role |-> cf.local_role,
        gr_aware |-> cf.gr_mode, gr_restart |-> cf.gr_mode /\ cf.gr_recovery,
        llgr_aware |-> cf.llgr_mode]
-----------------------------------------------------------------------------
(* The capabilities in an OPEN message. *)
\* A capability that lists families: those with P, and what it says of them.
List(caps, P(_), data(_)) ==
  [f \in {g \in Afis : P(caps.af[g])} |-> data(caps.af[f])]

bgp_write_capabilities(caps) ==
  LET opt(c, cap) == IF c THEN <<cap>> ELSE << >>
  IN  <<<<1, {f \in Afis : caps.af[f].ready}>>>>
      \o opt(caps.route_refresh, <<2>>)
      \o opt(\E f \in Afis : caps.af[f].ext_next_hop,
             <<5, {f \in Afis : caps.af[f].ext_next_hop}>>)
      \o opt(caps.ext_messages, <<6>>)
      \o opt(caps.role # Undefined, <<9, caps.role>>)
      \o opt(caps.gr_aware,
             <<64, caps.gr_restart, List(caps, LAMBDA a : a.gr_able, LAMBDA a : a.gr_af_flags)>>)
      \o opt(caps.as4_support, <<65, caps.as4_number>>)
      \o opt(\E f \in Afis : caps.af[f].add_path # {},
             <<69, List(caps, LAMBDA a : a.add_path # {}, LAMBDA a : a.add_path)>>)
      \o opt(caps.enhanced_refresh, <<70>>)
      \o opt(caps.llgr_aware,
             <<71, List(caps, LAMBDA a : a.llgr_able, LAMBDA a : a.llgr_flags)>>)

\* One capability; graceful restart ones replace what earlier ones said.
ReadCapability(caps, cap) ==
  LET c == [caps EXCEPT !.length = @ + 1]
      each(P(_, _)) == [f \in Afis |-> P(f, caps.af[f])]
  IN  CASE cap[1] = 1 ->
             [c EXCEPT !.af = each(LAMBDA f, a : [a EXCEPT !.ready = @ \/ f \in cap[2]])]
        [] cap[1] = 2 -> [c EXCEPT !.route_refresh = TRUE]
        [] cap[1] = 5 ->
             [c EXCEPT !.af = each(LAMBDA f, a :
                [a EXCEPT !.ext_next_hop = @ \/ f \in cap[2] \cap {"ipv4"}])]
        [] cap[1] = 6 -> [c EXCEPT !.ext_messages = TRUE]
        [] cap[1] = 9 -> [c EXCEPT !.role = cap[2]]
        [] cap[1] = 64 ->
             [c EXCEPT !.gr_aware = TRUE, !.gr_restart = cap[2],
                       !.af = each(LAMBDA f, a :
                         [a EXCEPT !.gr_able = f \in DOMAIN cap[3],
                                   !.gr_af_flags = f \in DOMAIN cap[3] /\ cap[3][f]])]
        [] cap[1] = 65 -> [c EXCEPT !.as4_support = TRUE, !.as4_number = cap[2]]
        [] cap[1] = 69 ->
             [c EXCEPT !.af = each(LAMBDA f, a :
                [a EXCEPT !.add_path = IF f \in DOMAIN cap[2] THEN cap[2][f] ELSE @])]
        [] cap[1] = 70 -> [c EXCEPT !.enhanced_refresh = TRUE]
        [] OTHER ->
             [c EXCEPT !.llgr_aware = TRUE,
                       !.af = each(LAMBDA f, a :
                         [a EXCEPT !.llgr_able = f \in DOMAIN cap[2],
                                   !.llgr_flags = f \in DOMAIN cap[2] /\ cap[2][f]])]

\* Long-lived graceful restart counts only together with graceful restart.
bgp_read_capabilities(caps) ==
  LET c == FoldLeft(ReadCapability, NoCaps, caps)
  IN  IF c.gr_aware THEN c
      ELSE [c EXCEPT !.llgr_aware = FALSE,
                     !.af = [f \in Afis |-> [@[f] EXCEPT !.llgr_able = FALSE,
                                                         !.llgr_flags = FALSE]]]

bgp_create_open(cf) ==
  [as |-> IF cf.public_as < 65535 THEN cf.public_as ELSE AS_TRANS,
   hold |-> cf.hold_time, id |-> cf.id,
   caps |-> IF cf.capabilities THEN bgp_write_capabilities(bgp_prepare_capabilities(cf))
            ELSE << >>]

\* Capabilities are ignored by a router that does not use them.
bgp_read_options(cf, open) ==
  IF cf.capabilities /\ open.caps # << >> THEN bgp_read_capabilities(open.caps) ELSE NoCaps
-----------------------------------------------------------------------------
(* The checks of a received OPEN message. *)
Active(cf, local, remote, f) ==
  /\ f \in cf.channels
  /\ bgp_find_af_caps(local, f).ready /\ bgp_find_af_caps(remote, f).ready

bgp_check_capabilities(cf, local, remote) ==
  LET active == {f \in cf.channels : Active(cf, local, remote, f)}
      rem(f) == bgp_find_af_caps(remote, f)
      loc(f) == bgp_find_af_caps(local, f)
  IN  /\ \A q \in cf.require : remote[q]
      /\ cf.mandatory \subseteq active
      /\ active # {}
      /\ cf.require_add_path =>
           \A f \in active :
             /\ "RX" \in loc(f).add_path => "TX" \in rem(f).add_path
             /\ "TX" \in loc(f).add_path => "RX" \in rem(f).add_path

RolesAgree(x, y) ==
  \/ Undefined \in {x, y}
  \/ <<x, y>> \in {<<"PEER", "PEER">>, <<"CUSTOMER", "PROVIDER">>, <<"PROVIDER", "CUSTOMER">>,
                   <<"RS_CLIENT", "RS_SERVER">>, <<"RS_SERVER", "RS_CLIENT">>}

HoldTime(cf, open) == IF open.hold < cf.hold_time THEN open.hold ELSE cf.hold_time

\* The keepalive time keeps its share of the hold time; it is not rounded down
\* to zero.
KeepaliveTime(cf, open) ==
  LET h == HoldTime(cf, open)
      k == IF cf.keepalive_time # 0 THEN (cf.keepalive_time * h) \div cf.hold_time
           ELSE h \div 3
  IN  IF h # 0 /\ k = 0 THEN 1 ELSE k

\* bgp_rx_open() up to the other connection: the code of the error, or <<0, 0>>.
CheckOpen(cf, open, caps) ==
  LET as == IF caps.as4_support THEN caps.as4_number ELSE open.as
  IN  CASE \/ open.hold \in {1, 2}
           \/ HoldTime(cf, open) < cf.min_hold_time
           \/ KeepaliveTime(cf, open) < cf.min_keepalive_time -> <<2, 6>>
        [] open.id = 0 \/ (cf.is_internal /\ open.id = cf.id) -> <<2, 3>>
        [] cf.capabilities
           /\ ~bgp_check_capabilities(cf, bgp_prepare_capabilities(cf), caps) -> <<2, 7>>
        [] IF cf.remote_as # 0 THEN as # cf.remote_as ELSE as = cf.local_as -> <<2, 2>>
        [] ~RolesAgree(cf.local_role, caps.role)
           \/ (cf.require_roles /\ caps.role = Undefined) -> <<2, 11>>
        [] OTHER -> <<0, 0>>
bgp_rx_open(cf, open) == CheckOpen(cf, open, bgp_read_options(cf, open))

\* What a router takes from both messages when the session is established.
Established(cf, open, local, peer) ==
  LET rem(f) == bgp_find_af_caps(peer, f)
      loc(f) == bgp_find_af_caps(local, f)
      active == {f \in cf.channels : Active(cf, local, peer, f)}
  IN  [active |-> active,
       as4_session |-> local.as4_support /\ peer.as4_support,
       ext_messages |-> local.ext_messages /\ peer.ext_messages,
       route_refresh |-> peer.route_refresh,
       enhanced_refresh |-> local.enhanced_refresh /\ peer.enhanced_refresh,
       hold_time |-> HoldTime(cf, open), keepalive_time |-> KeepaliveTime(cf, open),
       add_path_rx |-> {f \in active : "RX" \in loc(f).add_path /\ "TX" \in rem(f).add_path},
       add_path_tx |-> {f \in active : "TX" \in loc(f).add_path /\ "RX" \in rem(f).add_path},
       ext_next_hop |-> {f \in active : cf.ext_next_hop /\ (f # "ipv4" \/ rem(f).ext_next_hop)},
       gr_ready |-> {f \in active : local.gr_aware /\ rem(f).gr_able},
       load_eor |-> peer.gr_aware, send_eor |-> cf.gr_mode]
bgp_conn_enter_established_state(cf, open) ==
  Established(cf, open, bgp_prepare_capabilities(cf), bgp_read_options(cf, open))
-----------------------------------------------------------------------------
Accepts(x, y) == bgp_rx_open(x, bgp_create_open(y)) = <<0, 0>>

AgreeOn(common, a, b) ==
  /\ a.active \cap common = b.active \cap common
  /\ a.as4_session = b.as4_session /\ a.ext_messages = b.ext_messages
  /\ a.enhanced_refresh = b.enhanced_refresh /\ a.hold_time = b.hold_time
  /\ a.hold_time # 0 => a.keepalive_time \in 1 .. a.hold_time
  /\ a.add_path_tx = b.add_path_rx
  /\ "ipv4" \in a.ext_next_hop <=> "ipv4" \in b.ext_next_hop
  /\ a.load_eor => b.send_eor

\* Two routers with the channels they have in common, when both accept the
\* OPEN message of the other, interpret the session in the same way: nobody
\* sends a message in a format the other does not expect, and the one that
\* waits for End-of-RIB gets it.
OpenAgrees(x, y) ==
  Accepts(x, y) /\ Accepts(y, x)
  => AgreeOn(x.channels \cap y.channels, bgp_conn_enter_established_state(x, bgp_create_open(y)),
             bgp_conn_enter_established_state(y, bgp_create_open(x)))

-----------------------------------------------------------------------------
BGP_NLRI_MAX == 4 + 1 + 32
BGP_NLRI_EVPN_MAX == 4 + 2 + 52
BGP_MPLS_NULL == 3
MPLS_MAX_LABEL_STACK == 8

NONE == <<0, 0>>
NULL == <<>>

ipa_zero(a) == a = NONE
ipa_is_ip4(a) == a[1] = 4
ipa_is_ip6(a) == ~ipa_is_ip4(a)
ipa_is_link_local(a) == a[1] = 10

bgp_channel_is_ipv4(c) == c.afi = "ipv4"
bgp_channel_is_ipv6(c) == c.afi = "ipv6"
bgp_channel_is_l2vpn(c) == c.afi = "l2vpn"

(***************************************************************************)
(* Next hop: a session p is [bgp, up, is_internal, is_interior, vrf,       *)
(* neigh, local_ip, link_addr, remote_ip], where neigh is the interface of *)
(* the neighbor or "none" for multihop; a channel c is [afi, vpn, mpls,    *)
(* ext_next_hop, next_hop_self, next_hop_keep, next_hop_addr, llnh_format, *)
(* gw_mode, prefer]; a route e is [src, next_hop, stack, fresh, dest, gw,  *)
(* gw_vrf, iface, multi, labels, label], where src is the session it is    *)
(* from.                                                                   *)
(***************************************************************************)

bgp_channel_match_next_hop_af(c, nh) ==
    CASE c.afi = "ipv4" -> ipa_is_ip4(nh) \/ c.ext_next_hop
      [] c.afi = "ipv6" -> ipa_is_ip6(nh) \/ c.ext_next_hop
      [] OTHER -> TRUE

\* Addresses of the channel: <<next_hop_addr, link_addr>>; addrs are the preferred ones of the interface.
ChannelAddrs(p, c, addrs) ==
    LET fits == CASE c.afi = "ipv4" -> ipa_is_ip4(p.local_ip) \/ c.ext_next_hop
                  [] c.afi = "ipv6" -> ipa_is_ip6(p.local_ip) \/ c.ext_next_hop
                  [] OTHER -> TRUE
        addr == IF ~ipa_zero(c.next_hop_addr) THEN c.next_hop_addr
                ELSE IF fits THEN p.local_ip ELSE addrs[c.afi]
        link == IF ~ipa_zero(addr) /\ ipa_is_ip6(addr) /\ p.neigh # "none" THEN p.link_addr ELSE NONE
    IN  <<IF ipa_is_link_local(addr) THEN NONE ELSE addr, link>>

bgp_match_src(e, mode) ==
    CASE mode = "NO" -> FALSE
      [] mode = "ALL" -> TRUE
      [] mode = "IBGP" -> e.src.bgp /\ e.src.is_internal
      [] mode = "EBGP" -> e.src.bgp /\ ~e.src.is_internal

OtherVrf(p, vrf) == p.vrf # "any" /\ vrf # "any" /\ p.vrf # vrf

\* The NEXT_HOP attribute of the route is sent as it is.
bgp_use_next_hop(p, c, e) ==
    /\ ~bgp_match_src(e, c.next_hop_self)
    /\ \/ bgp_match_src(e, c.next_hop_keep)
       \/ e.fresh
       \/ /\ bgp_channel_match_next_hop_af(c, e.next_hop[1])
          /\ ~(e.src.bgp /\ OtherVrf(p, e.src.vrf))
          /\ \/ p.is_interior /\ ~ipa_zero(e.next_hop[1])
             \/ ~e.src.bgp /\ bgp_channel_is_l2vpn(c)
             \/ p.neigh # "none" /\ e.src.bgp /\ e.src.up /\ e.src.neigh = p.neigh

\* The gateway of the route is sent.
bgp_use_gateway(p, c, e) ==
    /\ ~bgp_match_src(e, c.next_hop_self)
    /\ e.dest = "unicast" /\ ~e.multi /\ ~ipa_zero(e.gw) /\ ~ipa_is_link_local(e.gw)
    /\ bgp_channel_match_next_hop_af(c, e.gw)
    /\ ~(e.iface # "none" /\ OtherVrf(p, e.gw_vrf))
    /\ p.is_interior \/ (p.neigh # "none" /\ p.neigh = e.iface)

CheckedHop(p, c, res) ==
    LET nh == res[1]
    IN  IF \/ ipa_zero(nh[1]) /\ (Len(nh) = 1 \/ ipa_zero(nh[Len(nh)]))
           \/ p.remote_ip \in ToSet(nh)
           \/ ~bgp_channel_match_next_hop_af(c, nh[1])
           \/ c.mpls /\ c.afi # "l2vpn" /\ res[2] = NULL
        THEN NULL ELSE res

\* <<NEXT_HOP, MPLS_LABEL_STACK>>, or NULL for a rejected route.
bgp_update_next_hop_ip(p, c, e, addrs) ==
    LET own == ChannelAddrs(p, c, addrs)
        null == <<BGP_MPLS_NULL>>
    IN  CheckedHop(p, c,
          IF e.next_hop # NULL /\ bgp_use_next_hop(p, c, e) THEN <<e.next_hop, e.stack>>
          ELSE IF bgp_use_gateway(p, c, e)
               THEN << <<e.gw>>, IF ~c.mpls THEN NULL ELSE IF e.labels = <<>> THEN null ELSE e.labels>>
               ELSE <<IF ipa_zero(own[2]) THEN <<own[1]>> ELSE own,
                      IF ~c.mpls THEN NULL ELSE IF e.label = NULL THEN null ELSE e.label>>)

bgp_prepare_link_local_next_hop(c, nh) ==
    CASE c.llnh_format = "native" -> nh
      [] c.llnh_format = "single" -> <<nh[2]>>
      [] c.llnh_format = "double" -> <<nh[2], nh[2]>>

\* The next hop in an update: its length and the addresses, each after rd bytes of a distinguisher.
EncodeNextHop(c, nh, rd) ==
    LET out == IF ipa_zero(nh[1]) /\ Len(nh) = 2 THEN bgp_prepare_link_local_next_hop(c, nh) ELSE nh
    IN  IF ~bgp_channel_is_ipv6(c) /\ ipa_is_ip4(nh[1]) THEN [n |-> rd + 4, v |-> <<nh[1]>>]
        ELSE [n |-> (rd + 16) * Len(out), v |-> out]

bgp_encode_next_hop_ip(c, nh) == EncodeNextHop(c, nh, 0)
bgp_encode_next_hop_vpn(c, nh) == EncodeNextHop(c, nh, 8)
bgp_encode_next_hop(c, nh) == IF c.vpn THEN bgp_encode_next_hop_vpn(c, nh) ELSE bgp_encode_next_hop_ip(c, nh)

DecodeNextHop(c, m, rd) ==
    LET only == m.n # rd + 4 /\ ipa_is_link_local(m.v[1])
        first == IF only THEN NONE ELSE m.v[1]
        second == IF only THEN m.v[1] ELSE IF m.n = (rd + 16) * 2 THEN m.v[2] ELSE NONE
        ll == IF ipa_is_ip4(first) \/ ~ipa_is_link_local(second) THEN NONE ELSE second
    IN  [err |-> m.n \notin {rd + 4, rd + 16, (rd + 16) * 2},
         withdraw |-> ~bgp_channel_match_next_hop_af(c, first),
         nh |-> IF ipa_zero(ll) THEN <<first>> ELSE <<first, ll>>]

bgp_decode_next_hop_ip(c, m) == DecodeNextHop(c, m, 0)
bgp_decode_next_hop_vpn(c, m) == DecodeNextHop(c, m, 8)
bgp_decode_next_hop(c, m) == IF c.vpn THEN bgp_decode_next_hop_vpn(c, m) ELSE bgp_decode_next_hop_ip(c, m)

\* What a router has in its rta: net is its interface, where hosts maps addresses to "host" (its own) or
\* "link"; the result is the gateway, a host entry or NULL for a withdraw.
bgp_apply_next_hop(c, nh, hosts) ==
    LET gw == nh[1]
        ll == IF Len(nh) = 2 THEN nh[2] ELSE NONE
        addr == IF c.prefer = "global" /\ ~ipa_zero(gw) THEN gw ELSE IF ~ipa_zero(ll) THEN ll ELSE gw
    IN  IF c.gw_mode = "direct"
        THEN IF ipa_zero(addr) \/ addr \notin DOMAIN hosts THEN NULL
             ELSE IF hosts[addr] = "host" THEN NULL ELSE <<"gw", addr>>
        ELSE IF ipa_zero(gw) THEN NULL ELSE <<"hostentry", gw, IF c.prefer = "local" THEN ll ELSE NONE>>

(***************************************************************************)
(* NLRI: a channel has also add_path; a net is [t, ...] with pxlen for     *)
(* prefixes, len for flows, and fields of their own for EVPN.  A bucket is *)
(* [nets, labels]: a sequence of <<net, path id>> with one label stack.    *)
(***************************************************************************)

F(f, n, v) == [f |-> f, n |-> n, v |-> v]
Bytes(fields) == FoldSeq(LAMBDA x, sum : x.n + sum, 0, fields)
BodyBytes(bits) == (bits + 7) \div 8
Wrap(byte) == byte % 256

IsVpn(net) == net.t \in {"vpn4", "vpn6"}

\* Every label in 3 bytes, the last one with the bottom-of-stack bit.
bgp_encode_mpls_labels(labels) ==
    LET used == IF labels = NULL THEN <<0>> ELSE labels
    IN  [i \in 1..Len(used) |-> F("label", 3, <<used[i], i = Len(used)>>)]

PathId(c, id) == IF c.add_path THEN <<F("id", 4, id)>> ELSE <<>>

\* One prefix of families ip4, ip6, vpn4 and vpn6.
EncodePrefix(c, net, id, labels) ==
    LET stack == IF c.mpls THEN bgp_encode_mpls_labels(labels) ELSE <<>>
        bits == net.pxlen + (IF IsVpn(net) THEN 64 ELSE 0) + 24 * Len(stack)
    IN  PathId(c, id) \o <<F("pxlen", 1, Wrap(bits))>> \o stack
        \o (IF IsVpn(net) THEN <<F("rd", 8, net.rd)>> ELSE <<>>)
        \o <<F("body", BodyBytes(net.pxlen), net.prefix)>>

bgp_encode_evpn_ip(ip) ==
    IF ipa_is_ip4(ip) THEN <<F("iplen", 1, 32), F("ip", 4, ip)>> ELSE <<F("iplen", 1, 128), F("ip", 16, ip)>>

bgp_get_label(labels, pos) == IF labels # NULL /\ Len(labels) >= pos THEN labels[pos] ELSE 0

bgp_encode_evpn_ead(net, labels) ==
    <<F("rd", 8, net.rd), F("esi", 10, net.esi), F("tag", 4, net.tag), F("label24", 3, bgp_get_label(labels, 1))>>

bgp_encode_evpn_mac(net, labels) ==
    <<F("rd", 8, net.rd), F("esi", 10, 0), F("tag", 4, net.tag), F("maclen", 1, 48), F("mac", 6, net.mac)>>
    \o (IF net.ip = NONE THEN <<F("iplen", 1, 0)>> ELSE bgp_encode_evpn_ip(net.ip))
    \o <<F("label24", 3, bgp_get_label(labels, 1))>>
    \o (IF labels # NULL /\ Len(labels) >= 2 THEN <<F("label24", 3, labels[2])>> ELSE <<>>)

bgp_encode_evpn_imet(net) == <<F("rd", 8, net.rd), F("tag", 4, net.tag)>> \o bgp_encode_evpn_ip(net.rtr)
bgp_encode_evpn_es(net) == <<F("rd", 8, net.rd), F("esi", 10, net.esi)>> \o bgp_encode_evpn_ip(net.rtr)
bgp_encode_evpn_unknown(net) == <<F("raw", net.len, net.data)>>

EvpnBody(net, labels) ==
    CASE net.t = "ead" -> bgp_encode_evpn_ead(net, labels)
      [] net.t = "mac" -> bgp_encode_evpn_mac(net, labels)
      [] net.t = "imet" -> bgp_encode_evpn_imet(net)
      [] net.t = "es" -> bgp_encode_evpn_es(net)
      [] OTHER -> bgp_encode_evpn_unknown(net)

Before(item, rest) == <<item \o rest[1], rest[2]>>

RECURSIVE EncodePrefixes(_, _, _, _)
\* <<written fields, prefixes left>>
EncodePrefixes(c, nets, labels, size) ==
    IF nets = <<>> \/ size < BGP_NLRI_MAX THEN <<<<>>, nets>>
    ELSE LET item == EncodePrefix(c, nets[1][1], nets[1][2], labels)
         IN  Before(item, EncodePrefixes(c, Tail(nets), labels, size - Bytes(item)))

RECURSIVE EncodeFlows(_, _, _)
\* The path id is written before the length is compared with the room.
EncodeFlows(c, nets, size) ==
    IF nets = <<>> \/ size < 4 THEN <<<<>>, nets>>
    ELSE LET net == nets[1][1]
             id == PathId(c, nets[1][2])
         IN  IF net.len > size - Bytes(id) THEN <<id, nets>>
             ELSE Before(id \o <<F("flow", net.len, net)>>, EncodeFlows(c, Tail(nets), size - Bytes(id) - net.len))

EvpnItem(net, body) == <<F("type", 1, net.t), F("rlen", 1, Wrap(Bytes(body)))>> \o body

RECURSIVE bgp_encode_nlri_evpn(_, _, _, _)
bgp_encode_nlri_evpn(c, nets, labels, size) ==
    IF nets = <<>> \/ size < BGP_NLRI_EVPN_MAX THEN <<<<>>, nets>>
    ELSE LET net == nets[1][1]
             item == PathId(c, nets[1][2]) \o EvpnItem(net, EvpnBody(net, labels))
         IN  IF Bytes(item) > size THEN <<<<>>, nets>>
             ELSE Before(item, bgp_encode_nlri_evpn(c, Tail(nets), labels, size - Bytes(item)))

bgp_encode_nlri_ip4(c, b, size) == EncodePrefixes(c, b.nets, b.labels, size)
bgp_encode_nlri_ip6(c, b, size) == EncodePrefixes(c, b.nets, b.labels, size)
bgp_encode_nlri_vpn4(c, b, size) == EncodePrefixes(c, b.nets, b.labels, size)
bgp_encode_nlri_vpn6(c, b, size) == EncodePrefixes(c, b.nets, b.labels, size)
bgp_encode_nlri_flow4(c, b, size) == EncodeFlows(c, b.nets, size)
bgp_encode_nlri_flow6(c, b, size) == EncodeFlows(c, b.nets, size)

\* The hooks of bgp_af_table.
bgp_encode_nlri(c, b, size) ==
    CASE c.kind = "ip4" -> bgp_encode_nlri_ip4(c, b, size)
      [] c.kind = "ip6" -> bgp_encode_nlri_ip6(c, b, size)
      [] c.kind = "vpn4" -> bgp_encode_nlri_vpn4(c, b, size)
      [] c.kind = "vpn6" -> bgp_encode_nlri_vpn6(c, b, size)
      [] c.kind = "flow4" -> bgp_encode_nlri_flow4(c, b, size)
      [] c.kind = "flow6" -> bgp_encode_nlri_flow6(c, b, size)
      [] c.kind = "evpn" -> bgp_encode_nlri_evpn(c, b.nets, b.labels, size)

(***************************************************************************)
(* Reader of NLRI: s is [in, a, mpls_labels, cached, last_id, out, err],   *)
(* in are the fields left, a the attributes (on = FALSE for a withdraw),   *)
(* out the routes given to rte_update2.                                    *)
(***************************************************************************)

NoAttrs == [on |-> FALSE]
NetAttrs(gw_mode) == [on |-> TRUE, stack |-> NULL, dest |-> "unicast", nhl |-> <<>>, gw_mode |-> gw_mode]

parse_error(s) == [s EXCEPT !.err = TRUE, !.in = <<>>]
Skip(s, n) == [s EXCEPT !.in = SubSeq(@, n + 1, Len(@))]
Next1(s, f) == s.in # <<>> /\ s.in[1].f = f

\* A direct gateway or a host entry with labels, the implicit null is no label.
bgp_apply_mpls_labels(a, labels) ==
    IF Len(labels) > MPLS_MAX_LABEL_STACK THEN [a EXCEPT !.dest = "unreachable", !.nhl = <<>>]
    ELSE [a EXCEPT !.nhl = IF labels = <<BGP_MPLS_NULL>> THEN <<>> ELSE labels]

bgp_rte_update(s, net, path_id) ==
    LET same == path_id = s.last_id
        cached == IF same /\ s.cached.on THEN s.cached ELSE s.a
    IN  [s EXCEPT !.last_id = path_id,
                  !.cached = IF s.a.on THEN cached ELSE IF same THEN @ ELSE NoAttrs,
                  !.out = Append(@, <<net, path_id, IF s.a.on THEN cached ELSE NoAttrs>>)]

AttachLabels(s, labels) ==
    [s EXCEPT !.mpls_labels = labels, !.a = bgp_apply_mpls_labels([@ EXCEPT !.stack = labels], labels), !.cached = NoAttrs]

\* <<s, bits left>>: all labels up to the bottom of stack, one of a withdraw.
bgp_decode_mpls_labels(s, reach, bits) ==
    LET bottom == IF ~reach THEN 1 ELSE SelectInSeq(s.in, LAMBDA x : x.f # "label" \/ x.v[2])
        labels == [i \in 1..bottom |-> s.in[i].v[1]]
    IN  IF bottom = 0 \/ Len(s.in) < bottom THEN <<parse_error(s), 0>>
        ELSE IF s.in[bottom].f # "label" \/ bits < 24 * bottom THEN <<parse_error(s), 0>>
        ELSE <<Skip(IF reach /\ s.a.on THEN AttachLabels(s, labels) ELSE s, bottom), bits - 24 * bottom>>

RdOf(s, t, bits) ==
    IF t \notin {"vpn4", "vpn6"} THEN <<s, bits, 0>>
    ELSE IF bits < 64 \/ ~Next1(s, "rd") THEN <<parse_error(s), 0, 0>>
    ELSE <<Skip(s, 1), bits - 64, s.in[1].v>>

\* The prefix itself, after <<s, bits left, distinguisher>>.
DecodeBody(c, rd, path_id, max) ==
    LET s == rd[1]
        net == [t |-> c.kind, pxlen |-> rd[2], prefix |-> s.in[1].v]
    IN  IF s.err THEN s
        ELSE IF rd[2] > max \/ ~Next1(s, "body") THEN parse_error(s)
        ELSE IF s.in[1].n # BodyBytes(rd[2]) THEN parse_error(s)
        ELSE bgp_rte_update(Skip(s, 1), IF c.kind \in {"vpn4", "vpn6"} THEN net @@ [rd |-> rd[3]] ELSE net, path_id)

\* The wire form of families ip4, ip6, vpn4 and vpn6.
DecodeVpn(c, m, path_id, max) ==
    IF m[1].err THEN m[1] ELSE DecodeBody(c, RdOf(m[1], c.kind, m[2]), path_id, max)
DecodePrefix(c, s, path_id, max) ==
    LET l == s.in[1].v
    IN  IF ~Next1(s, "pxlen") THEN parse_error(s)
        ELSE IF Bytes(Tail(s.in)) < BodyBytes(l) THEN parse_error(s)
        ELSE DecodeVpn(c, IF c.mpls THEN bgp_decode_mpls_labels(Skip(s, 1), c.reach, l) ELSE <<Skip(s, 1), l>>,
                       path_id, max)

\* A flow that is not valid by the table is unreachable.
bgp_apply_flow_validation(s, valid) ==
    LET dest == IF valid THEN "none" ELSE "unreachable"
    IN  [s EXCEPT !.a.dest = dest,
                  !.cached = IF @.on /\ s.cached.dest # dest THEN NoAttrs ELSE @]

DecodeFlow(c, s, path_id) ==
    LET net == s.in[1].v
        checked == IF s.a.on /\ c.validate THEN bgp_apply_flow_validation(s, net.valid) ELSE s
    IN  IF ~Next1(s, "flow") THEN parse_error(s) ELSE bgp_rte_update(Skip(checked, 1), net, path_id)

\* Address with its length at position i: <<address, fields>> or NULL.
bgp_decode_evpn_ip(in, i) ==
    IF i + 1 > Len(in) \/ in[i].f # "iplen" THEN NULL
    ELSE IF in[i].v \notin {32, 128} \/ in[i + 1].n * 8 # in[i].v THEN NULL ELSE <<in[i + 1].v, 2>>

Kinds(in) == [i \in 1..Len(in) |-> in[i].f]

bgp_decode_evpn_ead(in) ==
    IF Kinds(in) # <<"rd", "esi", "tag", "label24">> THEN NULL
    ELSE << [t |-> "ead", rd |-> in[1].v, esi |-> in[2].v, tag |-> in[3].v], <<in[4].v>> >>

bgp_decode_evpn_mac(in) ==
    LET head == Len(in) >= 6 /\ SubSeq(Kinds(in), 1, 6) = <<"rd", "esi", "tag", "maclen", "mac", "iplen">>
        ip == IF in[6].v = 0 THEN <<NONE, 1>> ELSE bgp_decode_evpn_ip(in, 6)
        rest == SubSeq(in, 6 + ip[2], Len(in))
    IN  IF ~head THEN NULL
        ELSE IF in[4].v # 48 \/ ip = NULL THEN NULL
        ELSE IF Kinds(rest) \notin {<<"label24">>, <<"label24", "label24">>} THEN NULL
        ELSE << [t |-> "mac", rd |-> in[1].v, tag |-> in[3].v, mac |-> in[5].v, ip |-> ip[1]],
                [i \in 1..Len(rest) |-> rest[i].v] >>

bgp_decode_evpn_imet(in) ==
    IF Len(in) # 4 \/ bgp_decode_evpn_ip(in, 3) = NULL THEN NULL
    ELSE << [t |-> "imet", rd |-> in[1].v, tag |-> in[2].v, rtr |-> in[4].v], NULL>>

bgp_decode_evpn_es(in) ==
    IF Len(in) # 4 \/ bgp_decode_evpn_ip(in, 3) = NULL THEN NULL
    ELSE << [t |-> "es", rd |-> in[1].v, esi |-> in[2].v, rtr |-> in[4].v], NULL>>

\* The raw data of an unknown type; the types below 11 have a distinguisher.
bgp_decode_evpn_unknown(type, in) ==
    IF in[1].n < 8 THEN NULL ELSE << [t |-> type, len |-> in[1].n, data |-> in[1].v], NULL>>

\* Number of the first fields that have n bytes, 0 when there is no such number.
FieldsOf(in, n) == LET at == {k \in 1..Len(in) : Bytes(SubSeq(in, 1, k)) = n} IN IF at = {} THEN 0 ELSE CHOOSE k \in at : TRUE

EvpnDecoded(type, body) ==
    CASE type = "ead" -> bgp_decode_evpn_ead(body)
      [] type = "mac" -> bgp_decode_evpn_mac(body)
      [] type = "imet" -> bgp_decode_evpn_imet(body)
      [] type = "es" -> bgp_decode_evpn_es(body)
      [] OTHER -> bgp_decode_evpn_unknown(type, body)

\* The route of k fields, when res is what was read from them.
EvpnUpdate(s, k, res, path_id) ==
    LET labelled == IF s.a.on /\ res[2] # NULL THEN AttachLabels(s, res[2]) ELSE s
    IN  IF res = NULL THEN parse_error(s)
        ELSE [bgp_rte_update(Skip(labelled, 2 + k), res[1], path_id) EXCEPT !.cached = NoAttrs]

EvpnFields(s, k, path_id) ==
    IF k = 0 THEN parse_error(s) ELSE EvpnUpdate(s, k, EvpnDecoded(s.in[1].v, SubSeq(s.in, 3, 2 + k)), path_id)

bgp_decode_nlri_evpn(c, s0, path_id) ==
    LET s == [s0 EXCEPT !.mpls_labels = NULL, !.a = IF @.on THEN [@ EXCEPT !.stack = NULL] ELSE @]
    IN  IF Len(s.in) < 3 \/ ~Next1(s, "type") THEN parse_error(s)
        ELSE EvpnFields(s, FieldsOf(SubSeq(s.in, 3, Len(s.in)), s.in[2].v), path_id)

bgp_decode_nlri_ip4(c, s, path_id) == DecodePrefix(c, s, path_id, 32)
bgp_decode_nlri_ip6(c, s, path_id) == DecodePrefix(c, s, path_id, 128)
bgp_decode_nlri_vpn4(c, s, path_id) == DecodePrefix(c, s, path_id, 32)
bgp_decode_nlri_vpn6(c, s, path_id) == DecodePrefix(c, s, path_id, 128)
bgp_decode_nlri_flow4(c, s, path_id) == DecodeFlow(c, s, path_id)
bgp_decode_nlri_flow6(c, s, path_id) == DecodeFlow(c, s, path_id)

\* One turn of the loop, the path id is first in all families.
DecodeHook(c, s, path_id) ==
    CASE c.kind = "ip4" -> bgp_decode_nlri_ip4(c, s, path_id)
      [] c.kind = "ip6" -> bgp_decode_nlri_ip6(c, s, path_id)
      [] c.kind = "vpn4" -> bgp_decode_nlri_vpn4(c, s, path_id)
      [] c.kind = "vpn6" -> bgp_decode_nlri_vpn6(c, s, path_id)
      [] c.kind = "flow4" -> bgp_decode_nlri_flow4(c, s, path_id)
      [] c.kind = "flow6" -> bgp_decode_nlri_flow6(c, s, path_id)
      [] c.kind = "evpn" -> bgp_decode_nlri_evpn(c, s, path_id)
DecodeOne(c, s) ==
    IF ~c.add_path THEN DecodeHook(c, s, 0)
    ELSE IF ~Next1(s, "id") \/ Len(s.in) < 2 THEN parse_error(s)
    ELSE DecodeHook(c, Skip(s, 1), s.in[1].v)

RECURSIVE DecodeAll(_, _)
DecodeAll(c, s) == IF s.in = <<>> THEN s ELSE DecodeAll(c, DecodeOne(c, s))

bgp_decode_nlri(c, fields) ==
    DecodeAll(c, [in |-> fields, a |-> IF c.reach THEN NetAttrs(c.gw_mode) ELSE NoAttrs, mpls_labels |-> NULL,
                  cached |-> NoAttrs, last_id |-> 0, out |-> <<>>, err |-> FALSE])

(***************************************************************************)
(* Properties                                                              *)
(***************************************************************************)

RECURSIVE Packets(_, _, _)
\* All packets of a bucket; <<>> ends the sequence when a packet makes no progress.
Packets(c, bucket, size) ==
    LET After(res) == IF res[2] = bucket.nets THEN << <<>> >>
                      ELSE <<res[1]>> \o Packets(c, [bucket EXCEPT !.nets = res[2]], size)
    IN  IF bucket.nets = <<>> THEN <<>> ELSE After(bgp_encode_nlri(c, bucket, size))

\* The label stack a route should have.
StackOf(c, net, labels) ==
    LET some == IF labels = NULL THEN <<0>> ELSE labels
    IN  IF ~c.mpls \/ net.t \in {"imet", "es", "prefix"} THEN NULL
        ELSE IF net.t = "ead" THEN <<some[1]>>
        ELSE IF net.t = "mac" /\ Len(some) > 2 THEN <<some[1], some[2]>> ELSE some

RightRoute(c, route, item, labels) ==
    LET stack == StackOf(c, item[1], labels)
    IN  /\ route[1] = item[1]
        /\ route[2] = IF c.add_path THEN item[2] ELSE 0
        /\ route[3].on = c.reach
        /\ c.reach =>
             /\ route[3].stack = stack
             /\ stack # NULL /\ Len(stack) <= MPLS_MAX_LABEL_STACK =>
                  route[3].nhl = IF stack = <<BGP_MPLS_NULL>> THEN <<>> ELSE stack
             /\ stack # NULL /\ Len(stack) > MPLS_MAX_LABEL_STACK => route[3].dest = "unreachable"
             /\ c.kind \in {"flow4", "flow6"} /\ c.validate => route[3].dest = IF item[1].valid THEN "none" ELSE "unreachable"

\* The states read of the reader have no error and all the items.
Complete(c, items, read) ==
    LET out == FlattenSeq([i \in 1..Len(read) |-> read[i].out])
    IN  /\ \A i \in 1..Len(read) : ~read[i].err
        /\ Len(out) = Len(items)
        /\ \A i \in 1..Len(out) : RightRoute(c, out[i], items[i][1], items[i][2])
ReadRight(c, items, packets, size) ==
    /\ \A i \in 1..Len(packets) : packets[i] # <<>> /\ Bytes(packets[i]) <= size
    /\ \A whole \in {packets, <<FlattenSeq(packets)>>} :
         Complete(c, items, [i \in 1..Len(whole) |-> bgp_decode_nlri(c, whole[i])])

\* The path id that bgp_encode_nlri_flow4/6 leave at the end of a packet when the flow after it does not fit:
\* the room is compared only after the id is written, and the reader rejects a packet with such an end.
Stray(packet) == packet # <<>> /\ Last(packet).f = "id"
WithoutStray(packet) == IF Stray(packet) THEN Front(packet) ELSE packet

\* Every prefix of the buckets reaches the neighbor exactly once and in order, with its path id, its own
\* label stack and its own validity, however the buckets are split to packets and also when another router
\* has put prefixes with different stacks to one packet; no packet is longer than the room
\* (bgp_encode_nlri_*, bgp_decode_nlri_*, the cached rta of bgp_rte_update).  The exception is named: a
\* stray path id is looked over, and it is left only by flows with path ids, in a packet that is not the
\* last of its bucket and has no room for the flow that begins the next one.
NlriFaithful(c, buckets, size) ==
    LET sent == [i \in 1..Len(buckets) |-> Packets(c, buckets[i], size)]
        packets == FlattenSeq(sent)
    IN  /\ ReadRight(c, FlattenSeq([i \in 1..Len(buckets) |->
                          [j \in 1..Len(buckets[i].nets) |-> <<buckets[i].nets[j], buckets[i].labels>>]]),
                     [i \in 1..Len(packets) |-> WithoutStray(packets[i])], size)
        /\ \A i \in 1..Len(sent) : \A j \in 1..Len(sent[i]) : Stray(sent[i][j]) =>
             /\ c.add_path /\ c.kind \in {"flow4", "flow6"}
             /\ j < Len(sent[i])
             /\ Bytes(sent[i][j]) <= size /\ Bytes(sent[i][j]) + sent[i][j + 1][2].n > size

HopRight(p, c, e, q, hosts, nh, got) ==
    LET link == IF Len(nh) = 2 THEN nh[2] ELSE NONE
        forced == e.fresh \/ bgp_match_src(e, c.next_hop_keep) \/ ~ipa_zero(c.next_hop_addr) \/ bgp_channel_is_l2vpn(c)
        own == \E a \in ToSet(got.nh) : a \in DOMAIN hosts /\ hosts[a] = "host"
        usable == bgp_apply_next_hop(q, got.nh, hosts)
    IN  /\ ~got.err /\ ~got.withdraw
        /\ got.nh = IF ipa_zero(link) \/ ipa_is_ip4(nh[1]) THEN <<nh[1]>> ELSE nh
        /\ p.remote_ip \notin ToSet(got.nh)
        /\ ~p.is_interior /\ p.neigh # "none" /\ ~forced /\ q.gw_mode = "direct" => own \/ usable # NULL
        /\ own /\ Len(got.nh) = 1 /\ q.gw_mode = "direct" => usable = NULL

\* A next hop that is sent is never an address of nobody or of the neighbor itself; the neighbor reads the
\* address that was meant (the link-local one too, in all its formats), does not take it for another family,
\* and a neighbor on the same link gets an address it can use directly, unless a filter or an option forced
\* the address; an address of the neighbor that the sender does not know as such is refused by it (bgp_update_next_hop_ip, bgp_encode_next_hop_*, bgp_decode_next_hop_*, bgp_apply_next_hop).
NextHopRight(p, c, e, addrs, q, hosts) ==
    LET Understood(res) ==
          res # NULL => HopRight(p, c, e, q, hosts, res[1], bgp_decode_next_hop(q, bgp_encode_next_hop(c, res[1])))
    IN  Understood(bgp_update_next_hop_ip(p, c, e, addrs))
=============================================================================
