---------------------------- MODULE MCPolicyFile ----------------------------
(***************************************************************************)
(* PolicyFile on documents about three keys, one of them under two names.  *)
(***************************************************************************)
EXTENDS PolicyFile

Peer(n) == [kind |-> "peer", name |-> n]
Tag(n) == [kind |-> "tag", name |-> n]
Anyone == [kind |-> "any", name |-> ""]
Tcp(lo, hi) == [proto |-> "tcp", lo |-> lo, hi |-> hi]
Udp(lo, hi) == [proto |-> "udp", lo |-> lo, hi |-> hi]
Icmp == [proto |-> "icmp", lo |-> NoPort, hi |-> NoPort]
Star == [proto |-> "*", lo |-> NoPort, hi |-> NoPort]
Rule(from, to, ports) == [from |-> from, to |-> to, ports |-> ports]

Keys == {"A", "B", "C"}
Names3 == [a |-> "A", b |-> "B", bb |-> "B"]
Doc(default, rules, outbound) ==
  [version |-> 1, default |-> default, peers |-> Names3,
   tags |-> [t |-> <<"a", "b">>], rules |-> rules, outbound |-> outbound]

NoDoc == [version |-> 0, default |-> "", peers |-> <<>>, tags |-> <<>>,
          rules |-> <<>>, outbound |-> <<>>]
Base == Doc("deny", <<Rule(Peer("a"), Peer("bb"), <<Tcp(22, 22), Icmp>>), Rule(Anyone, Tag("t"), <<Udp(1, 53)>>)>>, <<>>)
Open == Doc("allow", <<Rule(Peer("a"), Anyone, <<Star>>)>>, <<"b">>)
Invalid ==
  {[Base EXCEPT !.version = 0], [Base EXCEPT !.default = "bad"], [Base EXCEPT !.peers.a = BadKey],
   [Base EXCEPT !.tags.t = <<>>], [Base EXCEPT !.tags.t = <<"z">>], [Base EXCEPT !.outbound = <<"z">>],
   [Base EXCEPT !.rules[1].ports = <<>>], [Base EXCEPT !.rules[1].ports = <<Tcp(53, 22)>>],
   [Base EXCEPT !.rules[1].ports = <<Tcp(1, 65536)>>], [Base EXCEPT !.rules[1].from = Peer("z")],
   [Base EXCEPT !.rules[1].to = Tag("z")], [Base EXCEPT !.rules[2].ports[1].proto = "bad"]}
StartDocs ==
  {NoDoc, Base, [Open EXCEPT !.rules = <<>>],
   [Base EXCEPT !.outbound = <<"bb">>, !.rules[1].ports = <<Udp(0, 65535), Tcp(0, 22)>>]} \cup Invalid
EditDocs == {Open}

\* Packets: every way the headers below can be cut, each kind of transport.
Quotes == {[version |-> 4, ihl |-> 5, next |-> ProtoTCP, sport |-> 5, dport |-> 22],
           [version |-> 6, ihl |-> 5, next |-> ProtoUDP, sport |-> 5, dport |-> 53],
           [version |-> 4, ihl |-> 4, next |-> ProtoICMP, sport |-> 0, dport |-> 0],
           [version |-> 5, ihl |-> 5, next |-> ProtoUDP, sport |-> 5, dport |-> 53]}
Quote == CHOOSE q \in Quotes : q.version = 6
Headers ==
  {[sport |-> 7, dport |-> d, off |-> o, flags |-> f, type |-> 0, code |-> 0, quote |-> Quote] :
     d \in {22, 23}, o \in {4, 6}, f \in {{"syn"}, {"syn", "ack"}, {"ack"}, {"fin", "ack"}, {"rst"}}}
  \cup {[sport |-> 7, dport |-> 53, off |-> 5, flags |-> {}, type |-> t, code |-> c, quote |-> q] :
     t \in {0, 3, 8, 128}, c \in {0, 1}, q \in Quotes}
Chains == {<<>>, <<[units |-> 0, next |-> ProtoTCP, frag |-> 0]>>,
           <<[units |-> 1, next |-> 44, frag |-> 0], [units |-> 0, next |-> ProtoUDP, frag |-> 0]>>,
           <<[units |-> 0, next |-> 51, frag |-> 3], [units |-> 1, next |-> ProtoICMPv6, frag |-> 0]>>}
V4 == {[version |-> 4, len |-> l, payload |-> 0, ihl |-> i, frag |-> f, more |-> m, next |-> n,
        exts |-> <<>>, tp |-> h] :
         l \in {19, 20, 23, 24, 27, 28, 44, 56, 60, 76}, i \in {4, 5, 6}, f \in {0, 2}, m \in BOOLEAN,
         n \in {0} \cup Transport, h \in Headers}
V6 == {[version |-> 6, len |-> l, payload |-> b, ihl |-> 5, frag |-> 0, more |-> FALSE, next |-> n,
        exts |-> x, tp |-> h] :
         l \in {39, 40, 41, 44, 48, 63, 64, 80, 92, 120}, b \in {4, 80}, n \in {43, 44, 60} \cup Transport,
         x \in Chains, h \in Headers}
WellFormed(p) == p.exts = <<>> <=> p.next \in Transport
AllPackets == {p \in V4 : p.ihl # 6 \/ p.len > 23} \cup {p \in V6 : WellFormed(p)}
=============================================================================
