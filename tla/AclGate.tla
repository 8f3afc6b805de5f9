------------------------------ MODULE AclGate ------------------------------
(***************************************************************************)
(* Access control on the packet path (internal/dataplane/dispatcher.go,    *)
(* internal/acl/compile.go, loader.go): what tunLoop sends and udpLoop     *)
(* hands to the TUN device under the policy in force, with the flow table  *)
(* as FlowMap specifies it; FlowTable implements that.                     *)
(*                                                                         *)
(* Decide sees the two peers, the protocol and the destination port of a   *)
(* packet; all four follow from its connection and its direction, so a     *)
(* policy is the set of the pairs it allows, and having none loaded (the   *)
(* file is gone) allows nothing.  ParsePacket's kinds are Start, End, and  *)
(* Other for the rest, which the dispatcher treats alike.  Sessions and    *)
(* endpoints, which may also stop a packet, are the subject of Tunnel; the *)
(* write of LastSeen after the lookup only delays the flow's idling out.   *)
(***************************************************************************)
EXTENDS FlowMap

CONSTANTS
  Policy,   \* the policies the file may hold
  Nil

Dir == {"out", "in"}
Kind == {"Start", "Other", "End"}

ASSUME NilAssumption == Nil \notin Conn
ASSUME PolicyAssumption == Policy \subseteq SUBSET (Dir \X Conn)

VARIABLES
  policy,     \* the set of pairs PolicySwap allows
  packet,     \* the packet each loop has in hand
  \* History, read by the properties only:
  opened,     \* flows of the table that an allowed inbound start has opened
  verdict     \* the packet the last step decided on, if any

gateVars == <<table, call, policy, packet, opened, verdict>>

NoPacket == [conn |-> Nil, kind |-> "none", opened |-> FALSE]
Packet == [conn : Conn, kind : Kind \cup {"Ending"}, opened : BOOLEAN]
NoVerdict == [dir |-> "none", packet |-> NoPacket, pass |-> FALSE]

GateTypeOK ==
  /\ MapTypeOK
  /\ policy \in SUBSET (Dir \X Conn)
  /\ packet \in [Caller -> Packet \cup {NoPacket}]
  /\ opened \subseteq Conn
  /\ verdict = NoVerdict \/ verdict \in [dir : Dir, packet : Packet, pass : BOOLEAN]

GateInit ==
  /\ MapInit
  /\ policy \in Policy
  /\ packet = [t \in Caller |-> NoPacket]
  /\ opened = {}
  /\ verdict = NoVerdict

Decide(d, c) == <<d, c>> \in policy

Direction(t) == IF t = "tun" THEN "out" ELSE "in"
Fresh(c, k) == [conn |-> c, kind |-> k, opened |-> FALSE]

\* The loop is done with p; or it has it in hand.
Judge(t, p, pass) ==
  /\ packet' = [packet EXCEPT ![t] = NoPacket]
  /\ verdict' = [dir |-> Direction(t), packet |-> p, pass |-> pass]
Hold(t, p) == packet' = [packet EXCEPT ![t] = p] /\ verdict' = NoVerdict

\* handleTunPacket reads a packet from the TUN device.  Every kind is put to
\* the policy; a start is also entered in the flow table before it is sent.
TunPacket(c, k) ==
  /\ packet["tun"] = NoPacket
  /\ IF Decide("out", c) /\ k = "Start"
     THEN Hold("tun", Fresh(c, k))
     ELSE Judge("tun", Fresh(c, k), Decide("out", c))
  /\ UNCHANGED <<table, call, policy, opened>>

TunLookup ==
  /\ packet["tun"] # NoPacket
  /\ \E r \in Request("tun") : Begin("tun", packet["tun"].conn, r)
  /\ verdict' = NoVerdict
  /\ UNCHANGED <<policy, packet, opened>>

\* handleUDPPacket has decrypted a packet.  Only a start is put to the policy.
UdpPacket(c, k) ==
  /\ packet["udp"] = NoPacket
  /\ IF k = "Start" /\ ~Decide("in", c)
     THEN Judge("udp", Fresh(c, k), FALSE)
     ELSE Hold("udp", Fresh(c, k))
  /\ UNCHANGED <<table, call, policy, opened>>

UdpLookup ==
  LET p == packet["udp"]
  IN  /\ p.kind \in Kind
      /\ \E r \in Request("udp") : r.op = "lookup" /\ r.make = (p.kind = "Start")
                                     /\ Begin("udp", p.conn, r)
      /\ verdict' = NoVerdict
      /\ UNCHANGED <<policy, packet, opened>>

\* A start passes once its flow is in the table.
StartPasses(t) ==
  LET p == packet[t]
  IN  /\ Return(t) /\ p.kind = "Start"
      /\ opened' = opened \cup {c \in {p.conn} : t = "udp" /\ table[c] = "Established"}
      /\ Judge(t, p, TRUE)
      /\ UNCHANGED policy

\* Mutant: any flow of the table will do.
BelongsIfKnown(s) == s # "none"

Belongs(s) == s = "Established"

\* A packet that is no start passes if its flow is established.
OtherJudged ==
  /\ Return("udp") /\ packet["udp"].kind = "Other"
  /\ Judge("udp", packet["udp"], Belongs(call["udp"].result))
  /\ UNCHANGED <<policy, opened>>

\* FIN and RST also move the flow on, in a second call.
EndDropped ==
  /\ Return("udp") /\ packet["udp"].kind = "End"
  /\ ~Belongs(call["udp"].result)
  /\ Judge("udp", packet["udp"], FALSE)
  /\ UNCHANGED <<policy, opened>>

EndBelongs ==
  /\ Return("udp") /\ packet["udp"].kind = "End"
  /\ Belongs(call["udp"].result)
  /\ Hold("udp", [packet["udp"] EXCEPT !.kind = "Ending"])
  /\ UNCHANGED <<policy, opened>>

EndUpdates ==
  /\ packet["udp"].kind = "Ending"
  /\ \E r \in Request("udp") : r.op = "update" /\ Begin("udp", packet["udp"].conn, r)
  /\ verdict' = NoVerdict
  /\ UNCHANGED <<policy, packet, opened>>

EndPasses ==
  /\ Return("udp") /\ packet["udp"].kind = "Ending"
  /\ Judge("udp", packet["udp"], TRUE)
  /\ UNCHANGED <<policy, opened>>

\* Mutant: a policy that cannot be used replaces the one in force.
ReloadUnset(p) ==
  /\ policy' = {Nil}
  /\ UNCHANGED <<table, call, packet, opened, verdict>>

\* SIGHUP or a change of the file: the policy is swapped, nothing else.  A
\* file that is refused leaves the policy as it is.
Reload(p) ==
  /\ policy # p
  /\ policy' = p
  /\ verdict' = NoVerdict
  /\ UNCHANGED <<table, call, packet, opened>>

TableActs(t) ==
  /\ Act(t)
  /\ Hold(t, [packet[t] EXCEPT !.opened = @ \/ packet[t].conn \in opened])
  /\ UNCHANGED <<policy, opened>>

\* A flow that leaves the table takes its history along.
TableDrops(c) ==
  /\ Drop(c)
  /\ opened' = opened \ {c}
  /\ verdict' = NoVerdict
  /\ UNCHANGED <<policy, packet>>

GateNext ==
  \/ \E c \in Conn, k \in Kind : TunPacket(c, k) \/ UdpPacket(c, k)
  \/ TunLookup \/ UdpLookup
  \/ \E t \in Caller : TableActs(t) \/ StartPasses(t)
  \/ \E c \in Conn : TableDrops(c)
  \/ OtherJudged \/ EndDropped \/ EndBelongs \/ EndUpdates \/ EndPasses
  \/ \E p \in Policy : Reload(p)

GateSpec == GateInit /\ [][GateNext]_gateVars

-----------------------------------------------------------------------------
\* An inbound packet that starts nothing reaches the TUN device only on a flow
\* that an inbound start, allowed by the policy of its time, has opened and
\* that has been in the table ever since: not on a flow this node opened, one
\* that idled out or was evicted, or one that the other loop has entered anew
\* under the same key.
AdmittedOnly ==
  verdict.pass /\ verdict.dir = "in" /\ verdict.packet.kind # "Start"
    => verdict.packet.opened
=============================================================================
