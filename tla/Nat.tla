-------------------------------- MODULE Nat --------------------------------
(***************************************************************************)
(* NAT traversal between two nodes (internal/nat/manager.go), and what the *)
(* daemon makes of its outcome: a direct endpoint, or a proxy to the relay *)
(* (internal/daemon/daemon.go, internal/relay/proxy.go).                   *)
(*                                                                         *)
(* A session's nonce stands for the session, and a signal is the nonce it  *)
(* carries; signatures are taken as perfect.  Senders repeat their signals *)
(* and the coordinator drops some and holds others for a node that is not  *)
(* watching, so a signal that was sent may come at any later time, in any  *)
(* order, more than once or never.  Candidates are left out, and a probe   *)
(* and its reply are one step: a session's nonces do not change while it   *)
(* probes, so a late reply tells it no more than one that comes at once.   *)
(*                                                                         *)
(* Timers count down.  One tick is 5 seconds; no tick passes a session     *)
(* whose time is up, and a dial takes any time.                            *)
(***************************************************************************)
EXTENDS Naturals

CONSTANTS
  Node,           \* the two nodes
  Relayed,        \* nodes with a relay in their configuration
  MaxSessions,    \* sessions each node starts
  MaxRestarts,    \* times the process of each node is restarted
  Nil, Direct

ASSUME NodeAssumption == \E x, y \in Node : x # y /\ Node = {x, y}
ASSUME MaxAssumption == MaxSessions \in [Node -> Nat] /\ MaxRestarts \in [Node -> Nat]

Nonce == UNION {{<<x, i>> : i \in 1 .. MaxSessions[x]} : x \in Node}
Peer(x) == CHOOSE y \in Node : y # x

ProbeTimeout == 2
SessionTimeout == ProbeTimeout + 1
SignalResendWindow == ProbeTimeout

VARIABLES
  sent,       \* signals that were sent
  known,      \* nodes whose peer table has the other one
  removing,   \* nodes in the middle of a LEAVE
  session,    \* the session with the other node
  pending,    \* the envelope held until there is a session
  answers,    \* for each nonce of the other node, whom it is answered as, and for how long
  endpoint,   \* Direct, the proxy, or Nil for what the other node advertises
  proxy,      \* relayProxies: the proxy to the other node
  open,       \* proxies that are open
  \* History and bounds:
  took,       \* the nonce each session has taken from the other's signal
  overtaken,  \* nodes where a removal met a relay fallback half done
  started,    \* sessions of each node so far
  before,     \* those of them that an earlier process started
  restarts

relay == <<endpoint, proxy, open, overtaken>>
manager == <<pending, answers, took>>
process == <<started, before, restarts>>
vars == <<sent, known, removing, session, manager, relay, process>>

NoAnswer == [as |-> Nil, ttl |-> 0]

\* natSession: peer is the first signal of signalIn.
Session ==
  [nonce : Nonce, peer : Nonce \cup {Nil}, left : 0 .. SessionTimeout,
   pc : {"gather", "wait", "probe", "found", "dial", "install", "point"}]

ASSUME NilAssumption == Nil \notin Nonce /\ Direct \notin Nonce /\ Nil \notin Session

TypeOK ==
  /\ sent \subseteq Nonce
  /\ {known, removing, overtaken} \subseteq SUBSET Node
  /\ session \in [Node -> Session \cup {Nil}]
  /\ pending \in [Node -> Nonce \cup {Nil}]
  /\ answers \in [Node -> [Nonce -> [as : Nonce \cup {Nil}, ttl : 0 .. 2 * ProbeTimeout]]]
  /\ endpoint \in [Node -> {Nil, Direct} \cup Nonce]
  /\ proxy \in [Node -> Nonce \cup {Nil}] /\ open \subseteq Nonce
  /\ took \in [Nonce -> Nonce \cup {Nil}]
  /\ started \in [Node -> Nat] /\ before \in [Node -> Nat] /\ restarts \in [Node -> Nat]
  /\ \A x \in Node, n \in Nonce : answers[x][n].as # Nil => n[1] # x /\ answers[x][n].as[1] = x

Init ==
  /\ sent = {}
  /\ known = {} /\ removing = {}
  /\ session = [x \in Node |-> Nil]
  /\ pending = [x \in Node |-> Nil]
  /\ answers = [x \in Node |-> [n \in Nonce |-> NoAnswer]]
  /\ endpoint = [x \in Node |-> Nil]
  /\ proxy = [x \in Node |-> Nil] /\ open = {}
  /\ took = [n \in Nonce |-> Nil]
  /\ overtaken = {}
  /\ started = [x \in Node |-> 0] /\ before = started /\ restarts = started

In(x, steps) == session[x] # Nil /\ session[x].pc \in steps
Goto(x, step) == session' = [session EXCEPT ![x].pc = step]
EndSession(x) == session' = [session EXCEPT ![x] = Nil]

-----------------------------------------------------------------------------
(* The events of the client, handled one at a time *)

\* What openSignal makes of an envelope: nothing, if it is too old by now.
OpenSignal(n) == {n, Nil}

\* A session begins if there is none, with the envelope that was held for it.
Start(x) ==
  IF session[x] = Nil
  THEN /\ started[x] < MaxSessions[x]
       /\ started' = [started EXCEPT ![x] = @ + 1]
       /\ \E first \in OpenSignal(pending[x]) :
            session' = [session EXCEPT ![x] = [nonce |-> <<x, started[x] + 1>>, peer |-> first,
                                               left |-> SessionTimeout, pc |-> "gather"]]
       /\ pending' = [pending EXCEPT ![x] = Nil]
  ELSE UNCHANGED <<started, session, pending>>

\* JOIN: Upsert puts a new entry in the table, and OnPeerAdded calls Start.
PeerAdded(x) ==
  /\ x \notin removing
  /\ known' = known \cup {x}
  /\ endpoint' = [endpoint EXCEPT ![x] = Nil]
  /\ Start(x)
  /\ UNCHANGED <<sent, removing, answers, took, proxy, open, overtaken, before, restarts>>

\* ENDPOINT_UPDATE: the other node advertises another address.
EndpointUpdate(x) ==
  /\ x \in known /\ x \notin removing
  /\ endpoint' = [endpoint EXCEPT ![x] = Nil]
  /\ UNCHANGED <<sent, known, removing, session, manager, proxy, open, overtaken, process>>

\* LEAVE: OnPeerRemoved closes the proxy to the peer and leaves its session alone.
PeerRemoved(x) ==
  /\ x \notin removing
  /\ removing' = removing \cup {x}
  /\ open' = open \ {proxy[x]}
  /\ proxy' = [proxy EXCEPT ![x] = Nil]
  /\ overtaken' = IF In(x, {"dial", "install", "point"}) THEN overtaken \cup {x} ELSE overtaken \ {x}
  /\ UNCHANGED <<sent, known, session, manager, endpoint, process>>

\* LEAVE, continued: the table forgets the peer.
TableRemove(x) ==
  /\ x \in removing
  /\ removing' = removing \ {x} /\ known' = known \ {x}
  /\ endpoint' = [endpoint EXCEPT ![x] = Nil]
  /\ UNCHANGED <<sent, session, manager, proxy, open, overtaken, process>>

\* Mutant: a node takes its own signals for the other's.
ReceivedAny(x) == sent

\* retransmitSignal repeats what was sent, also after the session has ended.
Received(x) == {n \in sent : n[1] # x}

\* authenticateSignal: the sender must be in the table.
AuthenticateSignal(x) == x \in known

\* Without a session the envelope is held; a session looks at its first signal
\* only.
DeliverSignal(x, n) ==
  /\ x \notin removing /\ n \in Received(x)
  /\ IF session[x] = Nil
     THEN pending' = [pending EXCEPT ![x] = n] /\ UNCHANGED session
     ELSE /\ session' = IF AuthenticateSignal(x) /\ session[x].peer = Nil
                        THEN [session EXCEPT ![x].peer = n] ELSE session
          /\ UNCHANGED pending
  /\ UNCHANGED <<sent, known, removing, answers, took, relay, process>>

-----------------------------------------------------------------------------
(* A session: negotiate *)

\* The message with the nonce and the candidates, encrypted and sealed.
SealSignal(s) == s.nonce

\* gatherCandidates finds some, in any case that of the loopback address, and
\* the signal is sent.
GatherCandidates(x) ==
  /\ In(x, {"gather"})
  /\ Goto(x, "wait")
  /\ sent' = sent \cup {SealSignal(session[x])}
  /\ UNCHANGED <<known, removing, pending, answers, took, relay, process>>

\* Mutant: answers last as long as the other node's probes.
AnswerTTLShort == ProbeTimeout

AnswerTTL == ProbeTimeout + SignalResendWindow

\* The first signal is taken; from now on its sender's probes are answered.
TakeSignal(x) ==
  LET s == session[x]
  IN  /\ In(x, {"wait"}) /\ s.peer # Nil
      /\ session' = [session EXCEPT ![x].pc = "probe",
                                    ![x].left = IF @ < ProbeTimeout THEN @ ELSE ProbeTimeout]
      /\ answers' = [answers EXCEPT ![x][s.peer] = [as |-> s.nonce, ttl |-> AnswerTTL]]
      /\ took' = [took EXCEPT ![s.nonce] = s.peer]
      /\ UNCHANGED <<sent, known, removing, pending, relay, process>>

\* The first signal has no nonce or no candidate that can be probed: the session
\* ends, and nobody is told.
NothingUsable(x) ==
  /\ In(x, {"wait"}) /\ session[x].peer # Nil
  /\ EndSession(x)
  /\ UNCHANGED <<sent, known, removing, manager, relay, process>>

\* No signal came: the session ends likewise.
WaitTimeout(x) ==
  /\ In(x, {"wait"}) /\ session[x].left = 0
  /\ EndSession(x)
  /\ UNCHANGED <<sent, known, removing, manager, relay, process>>

\* Mutant: any reply to the session's probes will do.
ReplyTagAny(s, as) == TRUE

\* replyTag: the hash of the two nonces.
ReplyTag(s, as) == s.peer = as

\* A probe and its reply: HandleProbe of the other node answers with or without
\* a session, and HandleProbe of this one compares the tags.
HandleProbe(x) ==
  LET s == session[x]
      a == answers[Peer(x)][s.nonce]
  IN  /\ In(x, {"probe"})
      /\ a.ttl > 0 /\ ReplyTag(s, a.as)
      /\ Goto(x, "found")
      /\ UNCHANGED <<sent, known, removing, manager, relay, process>>

\* OnEndpointDiscovered: the endpoint of an entry that is still there.
EndpointDiscovered(x) ==
  /\ In(x, {"found"})
  /\ endpoint' = IF x \in known THEN [endpoint EXCEPT ![x] = Direct] ELSE endpoint
  /\ EndSession(x)
  /\ UNCHANGED <<sent, known, removing, manager, proxy, open, overtaken, process>>

-----------------------------------------------------------------------------
(* OnPunchTimeout, the last steps of a session that has found no path *)

\* A relay is configured, and the peer is still there.
Fallback(x) == x \in Relayed /\ x \in known

PunchTimeout(x) ==
  /\ In(x, {"probe", "found"}) /\ session[x].left = 0
  /\ IF Fallback(x)
     THEN /\ Goto(x, "dial")
          /\ overtaken' = IF x \in removing THEN overtaken \cup {x} ELSE overtaken
     ELSE EndSession(x) /\ UNCHANGED overtaken
  /\ UNCHANGED <<sent, known, removing, manager, endpoint, proxy, open, process>>

\* relay.Dial or NewProxy fails.
DialFails(x) ==
  /\ In(x, {"dial"})
  /\ EndSession(x)
  /\ UNCHANGED <<sent, known, removing, manager, relay, process>>

\* relay.Dial and NewProxy: the proxy forwards at once.
Dial(x) ==
  /\ In(x, {"dial"})
  /\ open' = open \cup {session[x].nonce}
  /\ Goto(x, "install")
  /\ UNCHANGED <<sent, known, removing, manager, endpoint, proxy, overtaken, process>>

\* Mutant: the proxy that is replaced is forgotten, not closed.
InstallOver(x) ==
  /\ In(x, {"install"})
  /\ proxy' = [proxy EXCEPT ![x] = session[x].nonce]
  /\ Goto(x, "point")
  /\ UNCHANGED <<sent, known, removing, manager, endpoint, open, overtaken, process>>

\* One proxy is kept for a peer: an earlier one is closed.
Install(x) ==
  /\ In(x, {"install"})
  /\ proxy' = [proxy EXCEPT ![x] = session[x].nonce]
  /\ open' = open \ {proxy[x]}
  /\ Goto(x, "point")
  /\ UNCHANGED <<sent, known, removing, manager, endpoint, overtaken, process>>

PointToProxy(x) ==
  /\ In(x, {"point"})
  /\ endpoint' = IF x \in known THEN [endpoint EXCEPT ![x] = session[x].nonce] ELSE endpoint
  /\ EndSession(x)
  /\ UNCHANGED <<sent, known, removing, manager, proxy, open, overtaken, process>>

\* A proxy closes itself when its socket or its stream fails; nobody is told.
ProxyFails(p) ==
  /\ p \in open
  /\ open' = open \ {p}
  /\ UNCHANGED <<sent, known, removing, session, manager, endpoint, proxy, overtaken, process>>

-----------------------------------------------------------------------------
(* The process and the clock *)

\* The process ends, after Stop or in a crash, and comes back with nothing.
Restart(x) ==
  /\ restarts[x] < MaxRestarts[x]
  /\ restarts' = [restarts EXCEPT ![x] = @ + 1]
  /\ before' = [before EXCEPT ![x] = started[x]]
  /\ known' = known \ {x} /\ removing' = removing \ {x} /\ overtaken' = overtaken \ {x}
  /\ EndSession(x) /\ pending' = [pending EXCEPT ![x] = Nil]
  /\ answers' = [answers EXCEPT ![x] = [n \in Nonce |-> NoAnswer]]
  /\ endpoint' = [endpoint EXCEPT ![x] = Nil] /\ proxy' = [proxy EXCEPT ![x] = Nil]
  /\ open' = {p \in open : p[1] # x}
  /\ UNCHANGED <<sent, took, started>>

Down(t) == IF t > 0 THEN t - 1 ELSE 0

Tick ==
  /\ \A x \in Node : In(x, {"wait", "probe", "found"}) => session[x].left > 0
  /\ session' = [x \in Node |-> IF session[x] = Nil THEN Nil ELSE [session[x] EXCEPT !.left = Down(@)]]
  /\ answers' = [x \in Node |-> [n \in Nonce |-> IF answers[x][n].ttl > 1
                                                  THEN [answers[x][n] EXCEPT !.ttl = @ - 1]
                                                  ELSE NoAnswer]]
  /\ UNCHANGED <<sent, known, removing, pending, took, relay, process>>

SessionStep(x) ==
  \/ GatherCandidates(x) \/ TakeSignal(x) \/ NothingUsable(x) \/ WaitTimeout(x) \/ EndpointDiscovered(x) \/ PunchTimeout(x)
  \/ DialFails(x) \/ Dial(x) \/ Install(x) \/ PointToProxy(x)

Next ==
  \/ \E x \in Node : \/ PeerAdded(x) \/ EndpointUpdate(x) \/ PeerRemoved(x) \/ TableRemove(x)
                     \/ HandleProbe(x) \/ SessionStep(x) \/ Restart(x)
  \/ \E x \in Node, n \in Nonce : DeliverSignal(x, n)
  \/ \E n \in Nonce : ProxyFails(n)
  \/ Tick

Spec == Init /\ [][Next]_vars

-----------------------------------------------------------------------------
\* A path is called found only between two sessions that have each taken the
\* other's nonce (HandleProbe, replyTag): not on the word of a session that has
\* never heard of this one, such as one of a process that was restarted.
FoundGenuine ==
  \A x \in Node : In(x, {"found"}) => took[session[x].peer] = session[x].nonce

\* While a session probes, the session it has the nonce of answers it if it has
\* taken its nonce in turn, also when it has ended (answers, answerTTL): unless
\* its process was restarted, or a later session of that node has taken the same
\* nonce again, from a signal that was repeated.
AnswersOutlive ==
  \A x \in Node :
    LET s == session[x]
        a == answers[Peer(x)][s.nonce]
    IN  In(x, {"probe"}) /\ took[s.peer] = s.nonce /\ s.peer[2] > before[Peer(x)] =>
          a.as # Nil /\ a.as[2] >= s.peer[2]

\* An open proxy is the one in the map, or in the hands of the session that has
\* just dialled; no peer that is gone has one, and no endpoint is a proxy that
\* the daemon has replaced or removed, unless a removal met the fallback half
\* done (OnPunchTimeout and OnPeerRemoved in daemon.New).
ProxiesOwned ==
  \A x \in Node :
    /\ \A p \in open : p[1] = x => p = proxy[x] \/ (In(x, {"install"}) /\ session[x].nonce = p)
    /\ x \notin overtaken =>
         /\ proxy[x] # Nil => x \in known
         /\ endpoint[x] \in Nonce => x \in removing \/ In(x, {"point"}) \/ endpoint[x] = proxy[x]
=============================================================================
