------------------------------- MODULE Packet -------------------------------
(***************************************************************************)
(* ParsePacket (internal/acl/parse.go): what access control reads of an IP *)
(* packet.  A packet is the header fields the parser looks at, at the byte *)
(* offsets where a sender puts them, and len, the number of bytes that     *)
(* really arrived: any tail of the headers may be missing.                 *)
(*                                                                         *)
(*   next, exts   IPv6: the first header's type, and each extension header *)
(*                with its length field, the type after it and, for a      *)
(*                fragment header, the offset                              *)
(*   tp           the transport header; quote is the packet an ICMP error  *)
(*                carries, with the same fields                            *)
(*                                                                         *)
(* Instead of the two addresses, flow.of says whose flow the result is:    *)
(* the packet's own, or that of the packet it quotes.                      *)
(***************************************************************************)
EXTENDS Naturals, Sequences, FiniteSetsExt

ProtoICMP == 1
ProtoTCP == 6
ProtoUDP == 17
ProtoICMPv6 == 58
Transport == {ProtoICMP, ProtoTCP, ProtoUDP, ProtoICMPv6}

\* Hop-by-hop options, routing, fragment, authentication, destination options.
Extension == {0, 43, 44, 51, 60}
Fragment == 44
ExtSize(type, units) ==
  CASE type = Fragment -> 8
    [] type = 51       -> 8 + 4 * units
    [] OTHER           -> 8 + 8 * units

\* What ParsePacket returns, and how many bytes of the packet it has looked at.
Flow(proto) == [proto |-> proto, sport |-> 0, dport |-> 0, of |-> "own"]
Parsed(flow, kind, reach) == [flow |-> flow, kind |-> kind, ok |-> TRUE, reach |-> reach]
Refused(reach) == [flow |-> Flow(0), kind |-> "Other", ok |-> FALSE, reach |-> reach]

WithPorts(flow, h) == [flow EXCEPT !.sport = h.sport, !.dport = h.dport]

\* Mutant: the shortest TCP header is taken to be there.
ParseTCPUnchecked(p, flow, at) ==
  Parsed(WithPorts(flow, p.tp),
         IF "syn" \in p.tp.flags /\ "ack" \notin p.tp.flags THEN "Start" ELSE "Other", at + 14)

ParseTCP(p, flow, at) ==
  LET size == p.len - at
      kind == CASE "syn" \in p.tp.flags /\ "ack" \notin p.tp.flags -> "Start"
                [] {"fin", "rst"} \cap p.tp.flags # {}             -> "End"
                [] OTHER                                           -> "Other"
  IN  CASE size < 20 -> Refused(at)
        [] size >= 20 /\ (p.tp.off < 5 \/ size < 4 * p.tp.off) -> Refused(at + 13)
        [] OTHER -> Parsed(WithPorts(flow, p.tp), kind, at + 14)

\* Any UDP packet may be the first of its flow.
ParseUDP(p, flow, at) ==
  IF p.len - at < 8 THEN Refused(at) ELSE Parsed(WithPorts(flow, p.tp), "Start", at + 8)

\* The quoted packet starts 8 bytes into the error.  Its extension headers are
\* not walked, and a quote that is cut short leaves the outer flow.
QuotedV4(p, flow, at) ==
  LET q == p.tp.quote
      named == [flow EXCEPT !.proto = q.next, !.of = "quoted"]
  IN  CASE q.ihl < 5 -> Parsed(flow, "Error", at + 1)
        [] q.ihl >= 5 /\ p.len - at < 4 * q.ihl + 4 -> Parsed(flow, "Error", at + 1)
        [] OTHER -> IF q.next \in {ProtoTCP, ProtoUDP}
                    THEN Parsed(WithPorts(named, q), "Error", at + 4 * q.ihl + 4)
                    ELSE Parsed(named, "Error", at + 20)

QuotedV6(p, flow, at) ==
  LET q == p.tp.quote
      named == [flow EXCEPT !.proto = q.next, !.of = "quoted"]
  IN  CASE p.len - at < 40 -> Parsed(flow, "Error", at + 1)
        [] p.len - at >= 44 /\ q.next \in {ProtoTCP, ProtoUDP} ->
             Parsed(WithPorts(named, q), "Error", at + 44)
        [] OTHER -> Parsed(named, "Error", at + 40)

ParseICMPError(p, flow, at) ==
  CASE p.len - at < 28 -> Parsed(flow, "Error", at + 2)
    [] p.len - at >= 28 /\ p.tp.quote.version = 4 -> QuotedV4(p, flow, at + 8)
    [] p.len - at >= 28 /\ p.tp.quote.version = 6 -> QuotedV6(p, flow, at + 8)
    [] OTHER -> Parsed(flow, "Error", at + 9)

ErrorType(proto) == IF proto = ProtoICMP THEN {3, 4, 5, 11, 12} ELSE 1 .. 4
EchoRequest(proto) == IF proto = ProtoICMP THEN 8 ELSE 128

\* Both versions of ICMP: only an echo request starts a flow.
ParseICMP(p, flow, at) ==
  CASE p.len - at < 4 -> Refused(at)
    [] p.len - at >= 4 /\ p.tp.type = EchoRequest(flow.proto) /\ p.tp.code = 0 ->
         Parsed(flow, "Start", at + 2)
    [] p.len - at >= 4 /\ p.tp.type \in ErrorType(flow.proto) -> ParseICMPError(p, flow, at)
    [] OTHER -> Parsed(flow, "Other", at + 2)

ParseTransport(p, flow, at) ==
  CASE flow.proto = ProtoTCP -> ParseTCP(p, flow, at)
    [] flow.proto = ProtoUDP -> ParseUDP(p, flow, at)
    [] flow.proto \in {ProtoICMP, ProtoICMPv6} -> ParseICMP(p, flow, at)
    [] OTHER -> Refused(at)

\* A fragment other than the first has no transport header, and the first may
\* be too short for one.
ParseIPv4(p) ==
  LET header == 4 * p.ihl
      flow == Flow(p.next)
  IN  CASE p.ihl < 5 \/ p.len < header -> Refused(1)
        [] p.ihl >= 5 /\ p.len >= header /\ p.frag > 0 -> Parsed(flow, "Fragment", 20)
        [] p.ihl >= 5 /\ p.len >= header /\ p.frag = 0 /\ p.len < header + 4 ->
             Parsed(flow, IF p.more THEN "Fragment" ELSE "Other", 20)
        [] OTHER -> ParseTransport(p, flow, header)

\* The i-th header after the fixed one: its type and where it starts.
HeaderType(p, i) == IF i = 1 THEN p.next ELSE p.exts[i - 1].next
Start(p) ==
  LET at[i \in 1 .. Len(p.exts) + 1] ==
        IF i = 1 THEN 40 ELSE at[i - 1] + ExtSize(HeaderType(p, i - 1), p.exts[i - 1].units)
  IN  at

Exceeded(p, i) == p.payload + 40 < Start(p)[i]
LaterFragment(p, i) == HeaderType(p, i) = Fragment /\ p.exts[i].frag > 0
Truncated(p, i) == Start(p)[i] + ExtSize(HeaderType(p, i), p.exts[i].units) > p.len

\* The packets there are.  A chain of extension headers ends where a header is
\* of another type: a chain that the last byte cuts off is taken to end behind it.
QuotedFields == [version : Nat, ihl : 0 .. 15, next : Nat, sport : Nat, dport : Nat]
TransportFields ==
  [sport : Nat, dport : Nat, off : Nat, flags : SUBSET {"syn", "ack", "fin", "rst"},
   type : Nat, code : Nat, quote : QuotedFields]
Chain == Seq([units : Nat, next : Nat, frag : Nat])
IsPacket(p) ==
  /\ p \in [version : Nat, len : Nat, payload : Nat, ihl : 0 .. 15, frag : Nat, more : BOOLEAN,
            next : Nat, exts : Chain, tp : TransportFields]
  /\ p.version = 6 =>
       \A i \in 1 .. Len(p.exts) + 1 : HeaderType(p, i) \in Extension <=> i <= Len(p.exts)

\* The extension headers are walked up to the first one that ends the walk.
EndsWalk(p, i) ==
  Exceeded(p, i) \/ HeaderType(p, i) \notin Extension \/ Truncated(p, i) \/ LaterFragment(p, i)
Stop(p) == Min({i \in 1 .. Len(p.exts) + 1 : EndsWalk(p, i)})

ParseIPv6(p) ==
  LET stop == Stop(p)
      at == Start(p)[stop]
      type == HeaderType(p, stop)
  IN  CASE p.len < 40 -> Refused(1)
        [] p.len >= 40 /\ Exceeded(p, stop) -> Refused(at)
        [] p.len >= 40 /\ ~Exceeded(p, stop) /\ type \in Transport ->
             IF at >= p.len THEN Refused(at) ELSE ParseTransport(p, Flow(type), at)
        [] p.len >= 40 /\ ~Exceeded(p, stop) /\ type \in Extension ->
             IF Truncated(p, stop)
             THEN Refused(IF type = Fragment \/ at + 2 > p.len THEN at ELSE at + 2)
             ELSE Parsed(Flow(p.exts[stop].next), "Fragment", at + 4)
        [] OTHER -> Refused(at)

ParsePacket(p) ==
  CASE p.len < 20 -> Refused(0)
    [] p.len >= 20 /\ p.version = 4 -> ParseIPv4(p)
    [] p.len >= 20 /\ p.version = 6 -> ParseIPv6(p)
    [] OTHER -> Refused(1)

\* The dispatcher reads the addresses by itself, before it asks the parser:
\* extractDestIP finds the peer of an outbound packet, extractSrcIP is what
\* sourceAllowed compares with the addresses of the peer that sent it.
ExtractIP(p) == (p.version = 4 /\ p.len >= 20) \/ (p.version = 6 /\ p.len >= 40)

-----------------------------------------------------------------------------
(* The packet with which the dispatcher answers one that the policy refuses *)
(* (sendReject), written into the TUN device for the local application.     *)

\* The version of the packet that the flow is read from.
Version(p, flow) == IF flow.of = "own" THEN p.version ELSE p.tp.quote.version

Answer(version, next, size, tp) ==
  [version |-> version, len |-> (IF version = 4 THEN 20 ELSE 40) + size, payload |-> size, ihl |-> 5,
   frag |-> 0, more |-> FALSE, next |-> next, exts |-> <<>>, tp |-> tp]

AsQuoted(p) == [version |-> p.version, ihl |-> p.ihl, next |-> p.next, sport |-> p.tp.sport, dport |-> p.tp.dport]

BuildTCPRST(p, flow) ==
  Answer(Version(p, flow), ProtoTCP, 20,
         [sport |-> flow.dport, dport |-> flow.sport, off |-> 5, flags |-> {"rst"},
          type |-> 0, code |-> 0, quote |-> AsQuoted(p)])

\* As much of the packet is quoted as the smallest MTU has room for.
BuildICMPAdminProhibited(p, flow) ==
  LET four == Version(p, flow) = 4
      quoted == Min({p.len, IF four THEN 576 - 28 ELSE 1280 - 48})
  IN  Answer(Version(p, flow), IF four THEN ProtoICMP ELSE ProtoICMPv6, 8 + quoted,
             [sport |-> 0, dport |-> 0, off |-> 0, flags |-> {}, type |-> IF four THEN 3 ELSE 1,
              code |-> IF four THEN 13 ELSE 1, quote |-> AsQuoted(p)])

SendReject(p, flow) ==
  IF flow.proto = ProtoTCP THEN BuildTCPRST(p, flow) ELSE BuildICMPAdminProhibited(p, flow)

-----------------------------------------------------------------------------
(* What a packet is, said without the parser. *)

Later(p) ==
  IF p.version = 4 THEN p.frag > 0
  ELSE \E i \in 1 .. Len(p.exts) : LaterFragment(p, i)
OwnProto(p) == IF p.version = 4 THEN p.next ELSE HeaderType(p, Len(p.exts) + 1)
OwnOffset(p) == IF p.version = 4 THEN 4 * p.ihl ELSE Start(p)[Len(p.exts) + 1]

\* What the parser may say of p: it never looks past the last byte; it calls a
\* start only a packet that carries the ports, or the echo request, it reports,
\* and an end only a TCP packet that carries its ports; what is quoted is only
\* ever an error; a later fragment has no ports; and a packet with a flow has
\* the addresses the dispatcher reads.
ParsedRight(p, r) ==
  /\ r.reach <= p.len
  /\ r.ok => ExtractIP(p)
  /\ r.ok /\ r.kind \in {"Start", "End"} =>
       /\ ~Later(p) /\ r.flow.of = "own" /\ r.flow.proto = OwnProto(p)
       /\ p.len >= OwnOffset(p) + 4
       /\ OwnProto(p) \in {ProtoTCP, ProtoUDP} =>
            r.flow.sport = p.tp.sport /\ r.flow.dport = p.tp.dport
       /\ r.kind = "End" => OwnProto(p) = ProtoTCP
  /\ r.ok /\ Later(p) => r.kind = "Fragment" /\ r.flow.dport = 0
  /\ r.flow.of = "quoted" => r.kind = "Error"

\* What the packet that answers p says, read by the same parser: the end of the
\* TCP connection, seen from its other end, or an error about p, which names
\* the ports of a UDP packet that has no extension headers.
RejectedRight(p, r) ==
  LET reject == SendReject(p, r.flow)
      a == ParsePacket(reject)
  IN  r.ok /\ r.flow.of = "own" =>
        /\ a.ok /\ ParsedRight(reject, a)
        /\ IF r.flow.proto = ProtoTCP
           THEN a.kind = "End" /\ a.flow = [r.flow EXCEPT !.sport = r.flow.dport, !.dport = r.flow.sport]
           ELSE /\ a.kind = "Error"
                /\ r.kind = "Start" /\ r.flow.proto = ProtoUDP /\ p.exts = <<>> =>
                     a.flow = [r.flow EXCEPT !.of = "quoted"]
=============================================================================
