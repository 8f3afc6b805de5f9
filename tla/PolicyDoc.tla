----------------------------- MODULE PolicyDoc -----------------------------
(***************************************************************************)
(* Policy documents (internal/acl/policy.go) and what they decide          *)
(* (internal/acl/compile.go).  A document is the decoded TOML file:        *)
(*                                                                         *)
(*   version, default   as written; default "" is one that is not given    *)
(*   peers              name |-> key; BadKey is text parsePeerKey refuses  *)
(*   tags               tag |-> sequence of peer names                     *)
(*   rules              sequence of [from, to, ports]                      *)
(*   outbound           sequence of the outbound-only peers' names         *)
(*                                                                         *)
(* A subject is [kind, name] with kind "any" for "*", "tag", "peer" or     *)
(* "none" for an empty text.  A port text is [proto, lo, hi] with the      *)
(* numbers that parsePort reads, NoPort where it finds none, and proto     *)
(* "bad" for one the parser does not know.                                 *)
(***************************************************************************)
EXTENDS Integers, Sequences, Functions, Packet

CONSTANTS
  Nil,      \* no policy
  BadKey,
  NoPort

ProtoAny == 255
MaxPort == 65535

Port(text) == text \in 0 .. MaxPort

\* parsePortRange: "icmp" stands for both versions of it, with any port.
PortOK(t) ==
  \/ t.proto \in {"*", "icmp"}
  \/ t.proto \in {"tcp", "udp"} /\ Port(t.lo) /\ Port(t.hi) /\ t.lo <= t.hi

PortRange(t) ==
  CASE t.proto = "*"    -> [proto |-> ProtoAny, start |-> 0, end |-> MaxPort, matchICMPv6 |-> FALSE]
    [] t.proto = "icmp" -> [proto |-> ProtoICMP, start |-> 0, end |-> MaxPort, matchICMPv6 |-> TRUE]
    [] t.proto = "tcp"  -> [proto |-> ProtoTCP, start |-> t.lo, end |-> t.hi, matchICMPv6 |-> FALSE]
    [] t.proto = "udp"  -> [proto |-> ProtoUDP, start |-> t.lo, end |-> t.hi, matchICMPv6 |-> FALSE]

SubjectOK(doc, s) ==
  \/ s.kind = "any"
  \/ s.kind = "tag" /\ s.name \in DOMAIN doc.tags
  \/ s.kind = "peer" /\ s.name \in DOMAIN doc.peers

RuleOK(doc, r) ==
  /\ SubjectOK(doc, r.from) /\ SubjectOK(doc, r.to)
  /\ r.ports # <<>> /\ \A t \in Range(r.ports) : PortOK(t)

\* validateAndCompile
Valid(doc) ==
  /\ doc.version > 0
  /\ doc.default \in {"allow", "deny"}
  /\ DOMAIN doc.peers # {} /\ \A n \in DOMAIN doc.peers : doc.peers[n] # BadKey
  /\ \A t \in DOMAIN doc.tags : doc.tags[t] # <<>> /\ Range(doc.tags[t]) \subseteq DOMAIN doc.peers
  /\ \A i \in DOMAIN doc.rules : RuleOK(doc, doc.rules[i])
  /\ Range(doc.outbound) \subseteq DOMAIN doc.peers

\* resolveSubjectToPeers: "*" is left to the Any flags.
Resolve(doc, s) ==
  CASE s.kind = "tag"  -> {doc.peers[n] : n \in Range(doc.tags[s.name])}
    [] s.kind = "peer" -> {doc.peers[s.name]}
    [] OTHER           -> {}

CompiledRule(doc, r) ==
  [srcPeers |-> Resolve(doc, r.from), srcAny |-> r.from.kind = "any",
   dstPeers |-> Resolve(doc, r.to),   dstAny |-> r.to.kind = "any",
   ports    |-> {PortRange(t) : t \in Range(r.ports)}]

Compile(doc) ==
  [rules         |-> [i \in DOMAIN doc.rules |-> CompiledRule(doc, doc.rules[i])],
   defaultAction |-> doc.default,
   outboundOnly  |-> {doc.peers[n] : n \in Range(doc.outbound)},
   knownPeers    |-> {doc.peers[n] : n \in DOMAIN doc.peers}]

MatchesProto(pr, proto) ==
  \/ pr.proto = ProtoAny
  \/ pr.proto = proto
  \/ pr.matchICMPv6 /\ proto \in {ProtoICMP, ProtoICMPv6}

ContainsPort(pr, port) ==
  pr.proto \in {ProtoTCP, ProtoUDP} => pr.start <= port /\ port <= pr.end

RuleMatches(r, src, dst, proto, port) ==
  /\ r.dstAny \/ dst \in r.dstPeers
  /\ r.srcAny \/ src \in r.srcPeers
  /\ \E pr \in r.ports : MatchesProto(pr, proto) /\ ContainsPort(pr, port)

Decision(action, rule) == [action |-> action, rule |-> rule, outboundOnly |-> FALSE]
OutboundDenied == [action |-> "deny", rule |-> 0, outboundOnly |-> TRUE]

Matching(cp, src, dst, proto, port) ==
  {i \in DOMAIN cp.rules : RuleMatches(cp.rules[i], src, dst, proto, port)}

\* Mutant: a rule that matches also lets packets through to outbound-only peers.
DecideRuleWins(cp, src, dst, proto, port) ==
  LET hits == Matching(cp, src, dst, proto, port)
  IN  CASE hits # {} -> Decision("allow", Min(hits))
        [] hits = {} /\ dst \in cp.outboundOnly -> OutboundDenied
        [] OTHER -> Decision(cp.defaultAction, 0)

\* The first rule of the file that matches wins; 0 is the default action.
Decide(cp, src, dst, proto, port) ==
  LET hits == Matching(cp, src, dst, proto, port)
  IN  CASE hits # {} /\ dst \in cp.outboundOnly    -> OutboundDenied
        [] hits # {} /\ dst \notin cp.outboundOnly -> Decision("allow", Min(hits))
        [] hits = {} /\ dst \notin cp.knownPeers   -> Decision(cp.defaultAction, 0)
        [] OTHER -> IF dst \in cp.outboundOnly THEN OutboundDenied
                                               ELSE Decision(cp.defaultAction, 0)

\* PolicySwap.Decide: nothing loaded denies.
SwapDecide(cp, src, dst, proto, port) ==
  IF cp = Nil THEN Decision("deny", 0) ELSE Decide(cp, src, dst, proto, port)

\* What stands for the decision of a decider there is none of.
NoDecider == Decision("none", 0)

\* Combine, and Decide of what it makes, on the two decisions.
Combine(local, network) ==
  CASE local.action = "none" -> network
    [] local.action # "none" /\ network.action = "none" -> local
    [] OTHER -> IF local.action = "deny" THEN local
                ELSE IF network.action = "deny" THEN network
                ELSE IF local.rule > 0 THEN local ELSE network

-----------------------------------------------------------------------------
(* What a document means (docs/ACL.md), said without compiling it. *)

Names(doc, s, key) ==
  \/ s.kind = "any"
  \/ s.kind = "peer" /\ doc.peers[s.name] = key
  \/ s.kind = "tag" /\ \E n \in Range(doc.tags[s.name]) : doc.peers[n] = key

Covers(t, proto, port) ==
  \/ t.proto = "*"
  \/ t.proto = "icmp" /\ proto \in {ProtoICMP, ProtoICMPv6}
  \/ /\ <<t.proto, proto>> \in {<<"tcp", ProtoTCP>>, <<"udp", ProtoUDP>>}
     /\ t.lo <= port /\ port <= t.hi

Allowed(doc, src, dst, proto, port) ==
  /\ \A n \in Range(doc.outbound) : doc.peers[n] # dst
  /\ \/ doc.default = "allow"
     \/ \E i \in DOMAIN doc.rules :
          /\ Names(doc, doc.rules[i].from, src) /\ Names(doc, doc.rules[i].to, dst)
          /\ \E t \in Range(doc.rules[i].ports) : Covers(t, proto, port)
=============================================================================
