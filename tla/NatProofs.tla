----------------------------- MODULE NatProofs -----------------------------
(***************************************************************************)
(* NAT traversal for any number of sessions and restarts of the two nodes: *)
(* that paths are found with genuine peers only, that answers last long    *)
(* enough and that no proxy is lost.  A signal may come at any time after  *)
(* it was sent, so the invariant says of every nonce that was ever sent    *)
(* what has become of the session it stands for.                           *)
(***************************************************************************)
EXTENDS Nat, TLAPS

\* The node has a session with the other one.
Live(x) == session[x] # Nil

\* Where sessions, envelopes and answers come from: a nonce is of the session
\* that was started last, and what a node has of the other was sent by it.
Origins == \A x \in Node :
  /\ started[x] \in 0 .. MaxSessions[x] /\ before[x] \in 0 .. started[x]
  /\ Live(x) => session[x].nonce = <<x, started[x]>>
  /\ Live(x) /\ session[x].peer # Nil => session[x].peer \in sent /\ session[x].peer[1] # x
  /\ pending[x] # Nil => pending[x] \in sent /\ pending[x][1] # x
  /\ Live(x) /\ ~In(x, {"gather", "wait"}) => session[x].peer # Nil

\* An answer is of a session that has taken the nonce it is for.
Answering == \A x \in Node, n \in Nonce :
  /\ answers[x][n].ttl > 0 => answers[x][n].as # Nil
  /\ answers[x][n].as # Nil => took[answers[x][n].as] = n

\* A nonce is sent once its session has begun, and only a session that is past
\* waiting has taken one, which was sent.
Taken ==
  /\ \A n \in sent : n[2] <= started[n[1]] /\ ~(In(n[1], {"gather"}) /\ session[n[1]].nonce = n)
  /\ \A n \in Nonce : took[n] # Nil =>
       /\ took[n] \in sent /\ n[2] <= started[n[1]]
       /\ ~(In(n[1], {"gather", "wait"}) /\ session[n[1]].nonce = n)

\* The answer to a session's probes is there for longer than they are.
Outlasts == \A x \in Node, m \in Nonce :
  In(x, {"wait", "probe"}) /\ m[1] # x /\ m[2] > before[m[1]] /\ took[m] = session[x].nonce
    => /\ answers[m[1]][session[x].nonce].as # Nil
       /\ answers[m[1]][session[x].nonce].as[2] >= m[2]
       /\ answers[m[1]][session[x].nonce].ttl > session[x].left

\* The fallback of a session that no removal has met.
Falling == \A x \in Node : x \notin overtaken =>
  /\ In(x, {"dial", "install", "point"}) => x \in known /\ x \notin removing
  /\ In(x, {"point"}) => proxy[x] = session[x].nonce
  /\ x \in removing => proxy[x] = Nil

Signals == Origins /\ Answering /\ Taken /\ FoundGenuine /\ Outlasts
Relays == Falling /\ ProxiesOwned
Inv == TypeOK /\ Signals /\ Relays

-----------------------------------------------------------------------------
\* A nonce is a node and a number.
LEMMA Nonces ==
  /\ \A n \in Nonce : n[1] \in Node /\ n[2] \in Nat /\ n = <<n[1], n[2]>>
  /\ \A x \in Node : \A i \in 1 .. MaxSessions[x] : <<x, i>> \in Nonce
BY MaxAssumption DEF Nonce

\* Each of the two nodes has the other for its peer.
LEMMA Peers == \A x \in Node : Peer(x) \in Node /\ Peer(x) # x /\ \A y \in Node : y # x => y = Peer(x)
<1>. SUFFICES ASSUME NEW x \in Node
              PROVE  Peer(x) \in Node /\ Peer(x) # x /\ \A y \in Node : y # x => y = Peer(x)
  OBVIOUS
<1>1. PICK p, q \in Node : p # q /\ Node = {p, q}
  BY NodeAssumption
<1>2. \E y \in Node : y # x
  BY <1>1
<1>3. Peer(x) \in Node /\ Peer(x) # x
  BY <1>2 DEF Peer
<1>. QED
  BY <1>1, <1>3

\* The fields of a session.
LEMMA Fields ==
  ASSUME NEW s \in Session
  PROVE  /\ s.nonce \in Nonce /\ s.peer \in Nonce \cup {Nil} /\ s.left \in 0 .. 3
         /\ s.pc \in {"gather", "wait", "probe", "found", "dial", "install", "point"}
         /\ s # Nil
BY NilAssumption DEF Session, SessionTimeout, ProbeTimeout

\* Goto changes the step of one session only.
LEMMA GotoStep ==
  ASSUME session \in [Node -> Session \cup {Nil}], NEW x \in Node, Live(x),
         NEW step \in {"wait", "probe", "found", "dial", "install", "point"}, Goto(x, step)
  PROVE  /\ session' \in [Node -> Session \cup {Nil}]
         /\ session'[x] # Nil /\ session'[x].pc = step
         /\ session'[x].nonce = session[x].nonce /\ session'[x].peer = session[x].peer
         /\ session'[x].left = session[x].left
         /\ \A y \in Node \ {x} : session'[y] = session[y]
<1>1. session[x] \in Session
  BY DEF Live
<1>2. [session[x] EXCEPT !.pc = step] \in Session
  BY <1>1 DEF Session
<1>3. session' = [session EXCEPT ![x] = [session[x] EXCEPT !.pc = step]]
  BY DEF Goto
<1>. QED
  BY <1>1, <1>2, <1>3, NilAssumption DEF Session

\* The end of a session.
LEMMA EndStep ==
  ASSUME session \in [Node -> Session \cup {Nil}], NEW x \in Node, EndSession(x)
  PROVE  /\ session' \in [Node -> Session \cup {Nil}] /\ session'[x] = Nil
         /\ \A y \in Node \ {x} : session'[y] = session[y]
BY DEF EndSession

-----------------------------------------------------------------------------
\* A session that probes, or is past it, may go on or end: the signals stay as
\* they were.
LEMMA SignalsKept ==
  ASSUME TypeOK, Signals, session' \in [Node -> Session \cup {Nil}],
         UNCHANGED <<sent, manager, started, before>>,
         \A y \in Node :
           \/ session'[y] = session[y]
           \/ session'[y] = Nil
           \/ /\ In(y, {"probe", "found", "dial", "install", "point"})
              /\ session'[y] # Nil
              /\ session'[y].nonce = session[y].nonce /\ session'[y].peer = session[y].peer
              /\ session'[y].pc \in {"found", "dial", "install", "point"}
              /\ session'[y].pc = "found" => took[session[y].peer] = session[y].nonce
  PROVE  Signals'
<1>. USE DEF Signals, manager
<1>1. \A y \in Node : Live(y)' => Live(y) /\ session'[y].nonce = session[y].nonce /\ session'[y].peer = session[y].peer
  BY DEF Live, In
<1>2. \A y \in Node : Live(y)' /\ session'[y].pc \in {"gather", "wait", "probe"} => session'[y] = session[y]
  BY DEF Live, In
<1>3. \A y \in Node : Live(y)' /\ session'[y].pc \notin {"gather", "wait"} => session[y].pc \notin {"gather", "wait"}
  BY DEF Live, In
<1>4. Origins'
  BY <1>1, <1>3 DEF Origins, In, Live
<1>5. Answering'
  BY DEF Answering
<1>6. Taken'
  <2>1. \A n \in Nonce : n[1] \in Node
    BY Nonces
  <2>2. sent \subseteq Nonce
    BY DEF TypeOK
  <2>. QED
    BY <1>2, <2>1, <2>2 DEF Taken, In, Live
<1>7. FoundGenuine'
  BY DEF FoundGenuine, In
<1>8. Outlasts'
  BY <1>2 DEF Outlasts, In, Live
<1>. QED
  BY <1>4, <1>5, <1>6, <1>7, <1>8

\* A step that has nothing to do with the relay.
LEMMA RelaysKept ==
  ASSUME TypeOK, Relays, UNCHANGED <<known, removing, relay>>,
         \A y \in Node :
           \/ session'[y] = session[y]
           \/ /\ ~In(y, {"install", "point"})
              /\ session'[y] = Nil \/ session'[y].pc \notin {"dial", "install", "point"}
  PROVE  Relays'
<1>. USE DEF Relays, relay
<1>1. Falling'
  BY DEF Falling, In
<1>2. ProxiesOwned'
  BY DEF ProxiesOwned, In
<1>. QED
  BY <1>1, <1>2

-----------------------------------------------------------------------------
(* The steps *)

\* The other node's new address takes the place of the endpoint.
LEMMA EndpointUpdateInv ==
  ASSUME Inv, NEW x \in Node, EndpointUpdate(x)
  PROVE  Inv'
<1>. USE DEF Inv
<1>1. TypeOK'
  BY DEF TypeOK, EndpointUpdate, manager, relay, process
<1>2. Signals'
  BY SignalsKept DEF EndpointUpdate, manager, relay, process, TypeOK
<1>3. Relays'
  <2>1. Falling'
    BY NilAssumption, Nonces DEF Relays, Falling, In, TypeOK, EndpointUpdate, manager, relay, process
  <2>2. ProxiesOwned'
    BY NilAssumption, Nonces DEF Relays, Falling, ProxiesOwned, In, TypeOK, EndpointUpdate, manager, relay, process
  <2>. QED
    BY <2>1, <2>2 DEF Relays
<1>. QED
  BY <1>1, <1>2, <1>3

\* A removal closes the proxy, and notes a fallback that it meets.
LEMMA PeerRemovedInv ==
  ASSUME Inv, NEW x \in Node, PeerRemoved(x)
  PROVE  Inv'
<1>. USE DEF Inv
<1>1. TypeOK'
  BY DEF TypeOK, PeerRemoved, manager, relay, process
<1>2. Signals'
  BY SignalsKept DEF PeerRemoved, manager, relay, process, TypeOK
<1>3. Relays'
  <2>1. Falling'
    BY NilAssumption, Nonces DEF Relays, Falling, In, TypeOK, PeerRemoved, manager, relay, process
  <2>2. ProxiesOwned'
    BY NilAssumption, Nonces DEF Relays, Falling, ProxiesOwned, In, TypeOK, PeerRemoved, manager, relay, process
  <2>. QED
    BY <2>1, <2>2 DEF Relays
<1>. QED
  BY <1>1, <1>2, <1>3

\* The entry goes after its proxy.
LEMMA TableRemoveInv ==
  ASSUME Inv, NEW x \in Node, TableRemove(x)
  PROVE  Inv'
<1>. USE DEF Inv
<1>1. TypeOK'
  BY DEF TypeOK, TableRemove, manager, relay, process
<1>2. Signals'
  BY SignalsKept DEF TableRemove, manager, relay, process, TypeOK
<1>3. Relays'
  <2>1. Falling'
    BY NilAssumption, Nonces DEF Relays, Falling, In, TypeOK, TableRemove, manager, relay, process
  <2>2. ProxiesOwned'
    BY NilAssumption, Nonces DEF Relays, Falling, ProxiesOwned, In, TypeOK, TableRemove, manager, relay, process
  <2>. QED
    BY <2>1, <2>2 DEF Relays
<1>. QED
  BY <1>1, <1>2, <1>3

\* The first signal is of no use.
LEMMA NothingUsableInv ==
  ASSUME Inv, NEW x \in Node, NothingUsable(x)
  PROVE  Inv'
<1>. USE DEF Inv
<1>0. /\ session' \in [Node -> Session \cup {Nil}] /\ session'[x] = Nil
      /\ \A y \in Node \ {x} : session'[y] = session[y]
  BY EndStep DEF NothingUsable, TypeOK
<1>1. TypeOK'
  BY <1>0 DEF TypeOK, NothingUsable, manager, relay, process
<1>2. Signals'
  BY <1>0, SignalsKept DEF NothingUsable, manager, relay, process, In
<1>3. Relays'
  BY <1>0, RelaysKept DEF NothingUsable, manager, relay, process, In
<1>. QED
  BY <1>1, <1>2, <1>3

\* No signal came.
LEMMA WaitTimeoutInv ==
  ASSUME Inv, NEW x \in Node, WaitTimeout(x)
  PROVE  Inv'
<1>. USE DEF Inv
<1>0. /\ session' \in [Node -> Session \cup {Nil}] /\ session'[x] = Nil
      /\ \A y \in Node \ {x} : session'[y] = session[y]
  BY EndStep DEF WaitTimeout, TypeOK
<1>1. TypeOK'
  BY <1>0 DEF TypeOK, WaitTimeout, manager, relay, process
<1>2. Signals'
  BY <1>0, SignalsKept DEF WaitTimeout, manager, relay, process, In
<1>3. Relays'
  BY <1>0, RelaysKept DEF WaitTimeout, manager, relay, process, In
<1>. QED
  BY <1>1, <1>2, <1>3

\* A reply is of a session that has taken this one's nonce.
LEMMA HandleProbeInv ==
  ASSUME Inv, NEW x \in Node, HandleProbe(x)
  PROVE  Inv'
<1>. USE DEF Inv
<1>0. /\ session' \in [Node -> Session \cup {Nil}]
      /\ session'[x] # Nil /\ session'[x].pc = "found"
      /\ session'[x].nonce = session[x].nonce /\ session'[x].peer = session[x].peer
      /\ \A y \in Node \ {x} : session'[y] = session[y]
  BY GotoStep DEF HandleProbe, In, Live, TypeOK
<1>1. TypeOK'
  BY <1>0 DEF TypeOK, HandleProbe, manager, relay, process
<1>2. Signals'
  <2>1. session[x] \in Session /\ session[x].nonce \in Nonce
    BY Fields DEF HandleProbe, In, TypeOK
  <2>2. took[session[x].peer] = session[x].nonce
    BY <2>1, Peers DEF HandleProbe, ReplyTag, Signals, Answering
  <2>. QED
    BY <1>0, <2>2, SignalsKept DEF HandleProbe, manager, process, In
<1>3. Relays'
  BY <1>0, RelaysKept DEF HandleProbe, manager, relay, process, In
<1>. QED
  BY <1>1, <1>2, <1>3

\* The path that was found becomes the endpoint.
LEMMA EndpointDiscoveredInv ==
  ASSUME Inv, NEW x \in Node, EndpointDiscovered(x)
  PROVE  Inv'
<1>. USE DEF Inv
<1>0. /\ session' \in [Node -> Session \cup {Nil}] /\ session'[x] = Nil
      /\ \A y \in Node \ {x} : session'[y] = session[y]
  BY EndStep DEF EndpointDiscovered, TypeOK
<1>1. TypeOK'
  BY <1>0 DEF TypeOK, EndpointDiscovered, manager, relay, process
<1>2. Signals'
  BY <1>0, SignalsKept DEF EndpointDiscovered, manager, relay, process, In
<1>3. Relays'
  <2>1. Falling'
    <3>. SUFFICES ASSUME NEW y \in Node, y \notin overtaken'
                  PROVE  /\ In(y, {"dial", "install", "point"})' => y \in known' /\ y \notin removing'
                         /\ In(y, {"point"})' => proxy'[y] = session'[y].nonce
                         /\ y \in removing' => proxy'[y] = Nil
      BY DEF Falling
    <3>1. CASE y = x
      BY <1>0, <3>1 DEF Relays, Falling, ProxiesOwned, In, TypeOK, EndpointDiscovered, manager, relay, process
    <3>2. CASE y # x
      BY <1>0, <3>2 DEF Relays, Falling, ProxiesOwned, In, TypeOK, EndpointDiscovered, manager, relay, process
    <3>. QED
      BY <3>1, <3>2
  <2>2. ProxiesOwned'
    <3>. SUFFICES ASSUME NEW y \in Node
                  PROVE  /\ \A p \in open' : p[1] = y =>
                              p = proxy'[y] \/ (In(y, {"install"})' /\ session'[y].nonce = p)
                         /\ y \notin overtaken' =>
                              /\ proxy'[y] # Nil => y \in known'
                              /\ endpoint'[y] \in Nonce =>
                                   y \in removing' \/ In(y, {"point"})' \/ endpoint'[y] = proxy'[y]
      BY DEF ProxiesOwned
    <3>1. CASE y = x
      BY <1>0, <3>1, NilAssumption DEF Relays, Falling, ProxiesOwned, In, TypeOK, EndpointDiscovered, manager, relay, process
    <3>2. CASE y # x
      BY <1>0, <3>2 DEF Relays, Falling, ProxiesOwned, In, TypeOK, EndpointDiscovered, manager, relay, process
    <3>. QED
      BY <3>1, <3>2
  <2>. QED
    BY <2>1, <2>2 DEF Relays
<1>. QED
  BY <1>1, <1>2, <1>3

\* Only the peer that is in the table is dialled.
LEMMA PunchTimeoutInv ==
  ASSUME Inv, NEW x \in Node, PunchTimeout(x)
  PROVE  Inv'
<1>. USE DEF Inv
<1>0. /\ session' \in [Node -> Session \cup {Nil}]
      /\ \/ session'[x] = Nil
         \/ /\ Fallback(x) /\ session'[x] # Nil /\ session'[x].pc = "dial"
            /\ session'[x].nonce = session[x].nonce /\ session'[x].peer = session[x].peer
      /\ \A y \in Node \ {x} : session'[y] = session[y]
  <2>1. CASE Fallback(x)
    <3>1. Goto(x, "dial") /\ Live(x)
      BY <2>1 DEF PunchTimeout, In, Live
    <3>. QED
      BY <2>1, <3>1, GotoStep DEF TypeOK
  <2>2. CASE ~Fallback(x)
    BY <2>2, EndStep DEF PunchTimeout, TypeOK
  <2>. QED
    BY <2>1, <2>2
<1>1. TypeOK'
  BY <1>0 DEF TypeOK, PunchTimeout, manager, relay, process
<1>2. Signals'
  BY <1>0, SignalsKept DEF PunchTimeout, manager, relay, process, In
<1>3. Relays'
  <2>1. Falling'
    <3>. SUFFICES ASSUME NEW y \in Node, y \notin overtaken'
                  PROVE  /\ In(y, {"dial", "install", "point"})' => y \in known' /\ y \notin removing'
                         /\ In(y, {"point"})' => proxy'[y] = session'[y].nonce
                         /\ y \in removing' => proxy'[y] = Nil
      BY DEF Falling
    <3>1. CASE y = x
      BY <1>0, <3>1 DEF Relays, Falling, ProxiesOwned, In, TypeOK, PunchTimeout, manager, relay, process, Fallback
    <3>2. CASE y # x
      BY <1>0, <3>2 DEF Relays, Falling, ProxiesOwned, In, TypeOK, PunchTimeout, manager, relay, process, Fallback
    <3>. QED
      BY <3>1, <3>2
  <2>2. ProxiesOwned'
    <3>. SUFFICES ASSUME NEW y \in Node
                  PROVE  /\ \A p \in open' : p[1] = y =>
                              p = proxy'[y] \/ (In(y, {"install"})' /\ session'[y].nonce = p)
                         /\ y \notin overtaken' =>
                              /\ proxy'[y] # Nil => y \in known'
                              /\ endpoint'[y] \in Nonce =>
                                   y \in removing' \/ In(y, {"point"})' \/ endpoint'[y] = proxy'[y]
      BY DEF ProxiesOwned
    <3>1. CASE y = x
      BY <1>0, <3>1, NilAssumption DEF Relays, Falling, ProxiesOwned, In, TypeOK, PunchTimeout, manager, relay, process, Fallback
    <3>2. CASE y # x
      BY <1>0, <3>2 DEF Relays, Falling, ProxiesOwned, In, TypeOK, PunchTimeout, manager, relay, process, Fallback
    <3>. QED
      BY <3>1, <3>2
  <2>. QED
    BY <2>1, <2>2 DEF Relays
<1>. QED
  BY <1>1, <1>2, <1>3

\* Without a connection there is no proxy.
LEMMA DialFailsInv ==
  ASSUME Inv, NEW x \in Node, DialFails(x)
  PROVE  Inv'
<1>. USE DEF Inv
<1>0. /\ session' \in [Node -> Session \cup {Nil}] /\ session'[x] = Nil
      /\ \A y \in Node \ {x} : session'[y] = session[y]
  BY EndStep DEF DialFails, TypeOK
<1>1. TypeOK'
  BY <1>0 DEF TypeOK, DialFails, manager, relay, process
<1>2. Signals'
  BY <1>0, SignalsKept DEF DialFails, manager, relay, process, In
<1>3. Relays'
  BY <1>0, RelaysKept DEF DialFails, manager, relay, process, In
<1>. QED
  BY <1>1, <1>2, <1>3

\* The proxy is in the hands of its session.
LEMMA DialInv ==
  ASSUME Inv, NEW x \in Node, Dial(x)
  PROVE  Inv'
<1>. USE DEF Inv
<1>0. /\ session' \in [Node -> Session \cup {Nil}]
      /\ session'[x] # Nil /\ session'[x].pc = "install"
      /\ session'[x].nonce = session[x].nonce /\ session'[x].peer = session[x].peer
      /\ \A y \in Node \ {x} : session'[y] = session[y]
  BY GotoStep DEF Dial, In, Live, TypeOK
<1>n. session[x].nonce \in Nonce /\ session[x].nonce[1] = x
  BY Fields DEF Dial, In, TypeOK, Signals, Origins, Live
<1>1. TypeOK'
  BY <1>0, <1>n DEF TypeOK, Dial, manager, relay, process
<1>2. Signals'
  BY <1>0, SignalsKept DEF Dial, manager, relay, process, In
<1>3. Relays'
  <2>1. Falling'
    <3>. SUFFICES ASSUME NEW y \in Node, y \notin overtaken'
                  PROVE  /\ In(y, {"dial", "install", "point"})' => y \in known' /\ y \notin removing'
                         /\ In(y, {"point"})' => proxy'[y] = session'[y].nonce
                         /\ y \in removing' => proxy'[y] = Nil
      BY DEF Falling
    <3>1. CASE y = x
      BY <1>0, <1>n, <3>1 DEF Relays, Falling, ProxiesOwned, In, TypeOK, Dial, manager, relay, process
    <3>2. CASE y # x
      BY <1>0, <1>n, <3>2 DEF Relays, Falling, ProxiesOwned, In, TypeOK, Dial, manager, relay, process
    <3>. QED
      BY <3>1, <3>2
  <2>2. ProxiesOwned'
    <3>. SUFFICES ASSUME NEW y \in Node
                  PROVE  /\ \A p \in open' : p[1] = y =>
                              p = proxy'[y] \/ (In(y, {"install"})' /\ session'[y].nonce = p)
                         /\ y \notin overtaken' =>
                              /\ proxy'[y] # Nil => y \in known'
                              /\ endpoint'[y] \in Nonce =>
                                   y \in removing' \/ In(y, {"point"})' \/ endpoint'[y] = proxy'[y]
      BY DEF ProxiesOwned
    <3>1. CASE y = x
      BY <1>0, <1>n, <3>1, NilAssumption DEF Relays, Falling, ProxiesOwned, In, TypeOK, Dial, manager, relay, process
    <3>2. CASE y # x
      BY <1>0, <1>n, <3>2 DEF Relays, Falling, ProxiesOwned, In, TypeOK, Dial, manager, relay, process
    <3>. QED
      BY <3>1, <3>2
  <2>. QED
    BY <2>1, <2>2 DEF Relays
<1>. QED
  BY <1>1, <1>2, <1>3

\* The map has the new proxy, and the one it had is closed.
LEMMA InstallInv ==
  ASSUME Inv, NEW x \in Node, Install(x)
  PROVE  Inv'
<1>. USE DEF Inv
<1>0. /\ session' \in [Node -> Session \cup {Nil}]
      /\ session'[x] # Nil /\ session'[x].pc = "point"
      /\ session'[x].nonce = session[x].nonce /\ session'[x].peer = session[x].peer
      /\ \A y \in Node \ {x} : session'[y] = session[y]
  BY GotoStep DEF Install, In, Live, TypeOK
<1>n. session[x].nonce \in Nonce /\ session[x].nonce[1] = x
  BY Fields DEF Install, In, TypeOK, Signals, Origins, Live
<1>1. TypeOK'
  BY <1>0, <1>n DEF TypeOK, Install, manager, relay, process
<1>2. Signals'
  BY <1>0, SignalsKept DEF Install, manager, relay, process, In
<1>3. Relays'
  <2>1. Falling'
    BY <1>0, <1>n, NilAssumption, Nonces DEF Relays, Falling, In, TypeOK, Install, manager, relay, process
  <2>2. ProxiesOwned'
    BY <1>0, <1>n, NilAssumption, Nonces DEF Relays, Falling, ProxiesOwned, In, TypeOK, Install, manager, relay, process
  <2>. QED
    BY <2>1, <2>2 DEF Relays
<1>. QED
  BY <1>1, <1>2, <1>3

\* The endpoint is the proxy that the session has installed.
LEMMA PointToProxyInv ==
  ASSUME Inv, NEW x \in Node, PointToProxy(x)
  PROVE  Inv'
<1>. USE DEF Inv
<1>0. /\ session' \in [Node -> Session \cup {Nil}] /\ session'[x] = Nil
      /\ \A y \in Node \ {x} : session'[y] = session[y]
  BY EndStep DEF PointToProxy, TypeOK
<1>n. session[x].nonce \in Nonce /\ session[x].nonce[1] = x
  BY Fields DEF PointToProxy, In, TypeOK, Signals, Origins, Live
<1>1. TypeOK'
  BY <1>0, <1>n DEF TypeOK, PointToProxy, manager, relay, process
<1>2. Signals'
  BY <1>0, SignalsKept DEF PointToProxy, manager, relay, process, In
<1>3. Relays'
  <2>1. Falling'
    <3>. SUFFICES ASSUME NEW y \in Node, y \notin overtaken'
                  PROVE  /\ In(y, {"dial", "install", "point"})' => y \in known' /\ y \notin removing'
                         /\ In(y, {"point"})' => proxy'[y] = session'[y].nonce
                         /\ y \in removing' => proxy'[y] = Nil
      BY DEF Falling
    <3>1. CASE y = x
      BY <1>0, <1>n, <3>1 DEF Relays, Falling, ProxiesOwned, In, TypeOK, PointToProxy, manager, relay, process
    <3>2. CASE y # x
      BY <1>0, <1>n, <3>2 DEF Relays, Falling, ProxiesOwned, In, TypeOK, PointToProxy, manager, relay, process
    <3>. QED
      BY <3>1, <3>2
  <2>2. ProxiesOwned'
    <3>. SUFFICES ASSUME NEW y \in Node
                  PROVE  /\ \A p \in open' : p[1] = y =>
                              p = proxy'[y] \/ (In(y, {"install"})' /\ session'[y].nonce = p)
                         /\ y \notin overtaken' =>
                              /\ proxy'[y] # Nil => y \in known'
                              /\ endpoint'[y] \in Nonce =>
                                   y \in removing' \/ In(y, {"point"})' \/ endpoint'[y] = proxy'[y]
      BY DEF ProxiesOwned
    <3>1. CASE y = x
      BY <1>0, <1>n, <3>1, NilAssumption DEF Relays, Falling, ProxiesOwned, In, TypeOK, PointToProxy, manager, relay, process
    <3>2. CASE y # x
      BY <1>0, <1>n, <3>2 DEF Relays, Falling, ProxiesOwned, In, TypeOK, PointToProxy, manager, relay, process
    <3>. QED
      BY <3>1, <3>2
  <2>. QED
    BY <2>1, <2>2 DEF Relays
<1>. QED
  BY <1>1, <1>2, <1>3

\* A proxy closes itself.
LEMMA ProxyFailsInv ==
  ASSUME Inv, NEW p \in Nonce, ProxyFails(p)
  PROVE  Inv'
<1>. USE DEF Inv
<1>1. TypeOK'
  BY DEF TypeOK, ProxyFails, manager, relay, process
<1>2. Signals'
  BY SignalsKept DEF ProxyFails, manager, relay, process, TypeOK
<1>3. Relays'
  <2>1. Falling'
    BY NilAssumption, Nonces DEF Relays, Falling, In, TypeOK, ProxyFails, manager, relay, process
  <2>2. ProxiesOwned'
    BY NilAssumption, Nonces DEF Relays, Falling, ProxiesOwned, In, TypeOK, ProxyFails, manager, relay, process
  <2>. QED
    BY <2>1, <2>2 DEF Relays
<1>. QED
  BY <1>1, <1>2, <1>3

\* A signal that was sent is held, or is the first that a session gets.
LEMMA DeliverSignalInv ==
  ASSUME Inv, NEW x \in Node, NEW n \in Nonce, DeliverSignal(x, n)
  PROVE  Inv'
<1>. USE DEF Inv
<1>n. n \in sent /\ n[1] # x
  BY DEF DeliverSignal, Received
<1>0. /\ session' \in [Node -> Session \cup {Nil}] /\ pending' \in [Node -> Nonce \cup {Nil}]
      /\ \A y \in Node :
           /\ session[y] = Nil => session'[y] = Nil
           /\ session[y] # Nil =>
                /\ session'[y] # Nil /\ session'[y].nonce = session[y].nonce
                /\ session'[y].pc = session[y].pc /\ session'[y].left = session[y].left
                /\ \/ session'[y].peer = session[y].peer
                   \/ y = x /\ session[y].peer = Nil /\ session'[y].peer = n
           /\ pending'[y] = pending[y] \/ (y = x /\ pending'[y] = n)
  <2>1. CASE session[x] = Nil
    <3>1. session' = session /\ pending' = [pending EXCEPT ![x] = n]
      BY <2>1 DEF DeliverSignal
    <3>2. pending' \in [Node -> Nonce \cup {Nil}] /\ \A y \in Node : pending'[y] = pending[y] \/ (y = x /\ pending'[y] = n)
      BY <3>1 DEF TypeOK
    <3>. QED
      BY <3>1, <3>2 DEF TypeOK
  <2>2. CASE session[x] # Nil
    <3>1. session[x] \in Session
      BY <2>2 DEF TypeOK
    <3>2. [session[x] EXCEPT !.peer = n] \in Session
      BY <3>1 DEF Session
    <3>3. UNCHANGED pending /\ (session' = session \/ (session[x].peer = Nil /\ session' = [session EXCEPT ![x] = [session[x] EXCEPT !.peer = n]]))
      BY <2>2 DEF DeliverSignal
    <3>4. CASE session' = session
      BY <3>3, <3>4 DEF TypeOK
    <3>5. CASE session[x].peer = Nil /\ session' = [session EXCEPT ![x] = [session[x] EXCEPT !.peer = n]]
      <4>1. PICK s \in Session : s = [session[x] EXCEPT !.peer = n]
        BY <3>2
      <4>2. s # Nil /\ s.nonce = session[x].nonce /\ s.pc = session[x].pc /\ s.left = session[x].left /\ s.peer = n
        BY <3>1, <4>1, Fields DEF Session
      <4>3. session' \in [Node -> Session \cup {Nil}] /\ session'[x] = s /\ \A y \in Node \ {x} : session'[y] = session[y]
        BY <3>5, <4>1 DEF TypeOK
      <4>4. UNCHANGED pending /\ pending \in [Node -> Nonce \cup {Nil}]
        BY <3>3 DEF TypeOK
      <4>. QED
        BY <2>2, <3>5, <4>2, <4>3, <4>4
    <3>. QED
      BY <3>3, <3>4, <3>5
  <2>. QED
    BY <2>1, <2>2
<1>u. UNCHANGED <<sent, known, removing, answers, took, endpoint, proxy, open, overtaken, started, before, restarts>>
  BY DEF DeliverSignal, relay, process
<1>1. TypeOK'
  BY <1>0, <1>u DEF TypeOK
<1>2. Signals'
  <2>1. Origins'
    <3>. SUFFICES ASSUME NEW y \in Node
                  PROVE  /\ started'[y] \in 0 .. MaxSessions[y] /\ before'[y] \in 0 .. started'[y]
                         /\ Live(y)' => session'[y].nonce = <<y, started'[y]>>
                         /\ Live(y)' /\ session'[y].peer # Nil => session'[y].peer \in sent' /\ session'[y].peer[1] # y
                         /\ pending'[y] # Nil => pending'[y] \in sent' /\ pending'[y][1] # y
                         /\ Live(y)' /\ ~In(y, {"gather", "wait"})' => session'[y].peer # Nil
      BY DEF Origins
    <3>1. n # Nil
      BY NilAssumption
    <3>. QED
      BY <1>0, <1>u, <1>n, <3>1 DEF Signals, Origins, Live, In
  <2>2. Answering'
    BY <1>u DEF Signals, Answering
  <2>3. Taken'
    <3>1. \A k \in Nonce : k[1] \in Node
      BY Nonces
    <3>. QED
      BY <1>0, <1>u, <3>1 DEF Signals, Taken, In, TypeOK
  <2>4. FoundGenuine'
    <3>. SUFFICES ASSUME NEW y \in Node, In(y, {"found"})'
                  PROVE  took[session'[y].peer] = session'[y].nonce
      BY <1>u DEF FoundGenuine
    <3>1. session[y] # Nil /\ session[y].pc = "found"
      BY <1>0 DEF In
    <3>2. session[y].peer # Nil
      BY <3>1 DEF Signals, Origins, Live, In
    <3>. QED
      BY <1>0, <3>1, <3>2 DEF Signals, FoundGenuine, In
  <2>5. Outlasts'
    BY <1>0, <1>u DEF Signals, Outlasts, In
  <2>. QED
    BY <2>1, <2>2, <2>3, <2>4, <2>5 DEF Signals
<1>3. Relays'
  <2>1. Falling'
    BY <1>0, <1>u DEF Relays, Falling, In
  <2>2. ProxiesOwned'
    BY <1>0, <1>u DEF Relays, ProxiesOwned, In
  <2>. QED
    BY <2>1, <2>2 DEF Relays
<1>. QED
  BY <1>1, <1>2, <1>3

\* The nonce is sent; nobody can have taken it before.
LEMMA GatherCandidatesInv ==
  ASSUME Inv, NEW x \in Node, GatherCandidates(x)
  PROVE  Inv'
<1>. USE DEF Inv
<1>0. /\ session' \in [Node -> Session \cup {Nil}]
      /\ session'[x] # Nil /\ session'[x].pc = "wait"
      /\ session'[x].nonce = session[x].nonce /\ session'[x].peer = session[x].peer
      /\ \A y \in Node \ {x} : session'[y] = session[y]
  BY GotoStep DEF GatherCandidates, In, Live, TypeOK
<1>n. /\ session[x].nonce \in Nonce /\ session[x].nonce = <<x, started[x]>> /\ session[x].nonce \notin sent
      /\ In(x, {"gather"})
  <2>1. session[x] \in Session /\ In(x, {"gather"})
    BY DEF GatherCandidates, In, TypeOK
  <2>2. session[x].nonce \in Nonce /\ session[x].nonce = <<x, started[x]>>
    BY <2>1, Fields DEF Signals, Origins, Live, In
  <2>. QED
    BY <2>1, <2>2 DEF Signals, Taken
<1>u. /\ sent' = sent \cup {session[x].nonce}
      /\ UNCHANGED <<known, removing, pending, answers, took, endpoint, proxy, open, overtaken, started, before, restarts>>
  BY DEF GatherCandidates, SealSignal, relay, process
<1>1. TypeOK'
  BY <1>0, <1>n, <1>u DEF TypeOK
<1>2. Signals'
  <2>1. Origins'
    <3>. SUFFICES ASSUME NEW y \in Node
                  PROVE  /\ started'[y] \in 0 .. MaxSessions[y] /\ before'[y] \in 0 .. started'[y]
                         /\ Live(y)' => session'[y].nonce = <<y, started'[y]>>
                         /\ Live(y)' /\ session'[y].peer # Nil => session'[y].peer \in sent' /\ session'[y].peer[1] # y
                         /\ pending'[y] # Nil => pending'[y] \in sent' /\ pending'[y][1] # y
                         /\ Live(y)' /\ ~In(y, {"gather", "wait"})' => session'[y].peer # Nil
      BY DEF Origins
    <3>. QED
      BY <1>0, <1>n, <1>u DEF Signals, Origins, Live, In
  <2>2. Answering'
    BY <1>u DEF Signals, Answering
  <2>3. Taken'
    <3>1. \A k \in Nonce : k[1] \in Node
      BY Nonces
    <3>2. started[x] \in Nat
      BY MaxAssumption DEF Signals, Origins
    <3>3. ASSUME NEW k \in sent'
          PROVE  k[2] <= started[k[1]] /\ ~(In(k[1], {"gather"})' /\ session'[k[1]].nonce = k)
      <4>1. CASE k = session[x].nonce
        BY <1>0, <1>n, <3>2, <4>1 DEF In
      <4>2. CASE k \in sent /\ k[1] = x
        BY <1>0, <4>2 DEF Signals, Taken, In
      <4>3. CASE k \in sent /\ k[1] # x
        BY <1>0, <3>1, <4>3 DEF Signals, Taken, In, TypeOK
      <4>. QED
        BY <1>u, <4>1, <4>2, <4>3
    <3>4. ASSUME NEW k \in Nonce, took[k] # Nil
          PROVE  /\ took[k] \in sent' /\ k[2] <= started[k[1]]
                 /\ ~(In(k[1], {"gather", "wait"})' /\ session'[k[1]].nonce = k)
      <4>1. /\ took[k] \in sent /\ k[2] <= started[k[1]]
            /\ ~(In(k[1], {"gather", "wait"}) /\ session[k[1]].nonce = k)
        BY <3>4 DEF Signals, Taken
      <4>2. CASE k[1] = x
        BY <1>0, <1>n, <1>u, <4>1, <4>2 DEF In
      <4>3. CASE k[1] # x
        BY <1>0, <1>u, <3>1, <4>1, <4>3 DEF In
      <4>. QED
        BY <4>2, <4>3
    <3>. QED
      BY <1>u, <3>3, <3>4 DEF Taken
  <2>4. FoundGenuine'
    BY <1>0, <1>u DEF Signals, FoundGenuine, In
  <2>5. Outlasts'
    <3>. SUFFICES ASSUME NEW y \in Node, NEW m \in Nonce, In(y, {"wait", "probe"})', m[1] # y,
                         m[2] > before[m[1]], took[m] = session'[y].nonce
                  PROVE  /\ answers[m[1]][session'[y].nonce].as # Nil
                         /\ answers[m[1]][session'[y].nonce].as[2] >= m[2]
                         /\ answers[m[1]][session'[y].nonce].ttl > session'[y].left
      BY <1>u DEF Outlasts
    <3>1. CASE y = x
      <4>1. took[m] = session[x].nonce /\ took[m] # Nil
        BY <1>0, <1>n, <3>1, NilAssumption
      <4>2. took[m] \in sent
        BY <4>1 DEF Signals, Taken
      <4>. QED
        BY <1>n, <4>1, <4>2
    <3>2. CASE y # x
      BY <1>0, <3>2 DEF Signals, Outlasts, In
    <3>. QED
      BY <3>1, <3>2
  <2>. QED
    BY <2>1, <2>2, <2>3, <2>4, <2>5 DEF Signals
<1>3. Relays'
  BY <1>0, RelaysKept DEF GatherCandidates, manager, relay, process, In
<1>. QED
  BY <1>1, <1>2, <1>3

\* Start begins a session with a nonce of its own, and at most the envelope that
\* was held.
LEMMA StartStep ==
  ASSUME TypeOK, Signals, NEW x \in Node, Start(x)
  PROVE  \/ UNCHANGED <<started, session, pending>>
         \/ /\ session[x] = Nil /\ started[x] + 1 \in 1 .. MaxSessions[x]
            /\ session' \in [Node -> Session \cup {Nil}] /\ session'[x] # Nil
            /\ session'[x].nonce = <<x, started[x] + 1>> /\ session'[x].pc = "gather"
            /\ session'[x].peer \in {pending[x], Nil}
            /\ \A y \in Node \ {x} : session'[y] = session[y]
            /\ started' = [started EXCEPT ![x] = @ + 1]
            /\ pending' = [pending EXCEPT ![x] = Nil]
<1>1. CASE session[x] # Nil
  BY <1>1 DEF Start
<1>2. CASE session[x] = Nil
  <2>1. started[x] + 1 \in 1 .. MaxSessions[x]
    BY <1>2, MaxAssumption DEF Start, Signals, Origins
  <2>2. PICK first \in {pending[x], Nil} :
          session' = [session EXCEPT ![x] = [nonce |-> <<x, started[x] + 1>>, peer |-> first,
                                             left |-> SessionTimeout, pc |-> "gather"]]
    BY <1>2 DEF Start, OpenSignal
  <2>3. PICK s : s = [nonce |-> <<x, started[x] + 1>>, peer |-> first,
                      left |-> SessionTimeout, pc |-> "gather"]
    OBVIOUS
  <2>4. s \in Session
    BY <2>1, <2>3, Nonces DEF Session, TypeOK, SessionTimeout, ProbeTimeout
  <2>5. s # Nil /\ s.nonce = <<x, started[x] + 1>> /\ s.pc = "gather" /\ s.peer = first
    BY <2>3, <2>4, Fields
  <2>6. session' \in [Node -> Session \cup {Nil}] /\ session'[x] = s /\ \A y \in Node \ {x} : session'[y] = session[y]
    BY <2>2, <2>3, <2>4 DEF TypeOK
  <2>. QED
    BY <1>2, <2>1, <2>5, <2>6 DEF Start
<1>. QED
  BY <1>1, <1>2

\* A session begins under a nonce that nobody has seen.
LEMMA PeerAddedInv ==
  ASSUME Inv, NEW x \in Node, PeerAdded(x)
  PROVE  Inv'
<1>. USE DEF Inv
<1>u. /\ UNCHANGED <<sent, removing, answers, took, proxy, open, overtaken, before, restarts>>
      /\ known' = known \cup {x} /\ endpoint' = [endpoint EXCEPT ![x] = Nil]
  BY DEF PeerAdded
<1>a. CASE UNCHANGED <<started, session, pending>>
  <2>1. TypeOK'
    BY <1>a, <1>u DEF TypeOK
  <2>2. Signals'
    BY <1>a, <1>u, SignalsKept DEF TypeOK, manager
  <2>3. Falling'
    BY <1>a, <1>u DEF Relays, Falling, In
  <2>4. ProxiesOwned'
    BY <1>a, <1>u, NilAssumption DEF Relays, ProxiesOwned, In, TypeOK
  <2>. QED
    BY <2>1, <2>2, <2>3, <2>4 DEF Relays
<1>b. SUFFICES ASSUME ~UNCHANGED <<started, session, pending>> PROVE Inv'
  BY <1>a
<1>s. /\ session[x] = Nil /\ started[x] + 1 \in 1 .. MaxSessions[x]
      /\ session' \in [Node -> Session \cup {Nil}] /\ session'[x] # Nil
      /\ session'[x].nonce = <<x, started[x] + 1>> /\ session'[x].pc = "gather"
      /\ session'[x].peer \in {pending[x], Nil}
      /\ \A y \in Node \ {x} : session'[y] = session[y]
      /\ started' = [started EXCEPT ![x] = @ + 1]
      /\ pending' = [pending EXCEPT ![x] = Nil]
  BY <1>b, StartStep DEF PeerAdded
<1>t. /\ started'[x] = started[x] + 1 /\ pending'[x] = Nil
      /\ \A y \in Node \ {x} : started'[y] = started[y] /\ pending'[y] = pending[y]
      /\ \A y \in Node : started[y] \in Nat
  BY <1>s DEF TypeOK
<1>1. TypeOK'
  BY <1>s, <1>u DEF TypeOK
<1>2. Signals'
  <2>1. Origins'
    <3>. SUFFICES ASSUME NEW y \in Node
                  PROVE  /\ started'[y] \in 0 .. MaxSessions[y] /\ before'[y] \in 0 .. started'[y]
                         /\ Live(y)' => session'[y].nonce = <<y, started'[y]>>
                         /\ Live(y)' /\ session'[y].peer # Nil => session'[y].peer \in sent' /\ session'[y].peer[1] # y
                         /\ pending'[y] # Nil => pending'[y] \in sent' /\ pending'[y][1] # y
                         /\ Live(y)' /\ ~In(y, {"gather", "wait"})' => session'[y].peer # Nil
      BY DEF Origins
    <3>1. CASE y = x
      BY <1>s, <1>t, <1>u, <3>1, MaxAssumption DEF Signals, Origins, Live, In, TypeOK
    <3>2. CASE y # x
      BY <1>s, <1>t, <1>u, <3>2 DEF Signals, Origins, Live, In
    <3>. QED
      BY <3>1, <3>2
  <2>2. Answering'
    BY <1>u DEF Signals, Answering
  <2>3. Taken'
    <3>. SUFFICES /\ \A k \in sent' : k[2] <= started'[k[1]] /\ ~(In(k[1], {"gather"})' /\ session'[k[1]].nonce = k)
                  /\ \A k \in Nonce : took'[k] # Nil =>
                       /\ took'[k] \in sent' /\ k[2] <= started'[k[1]]
                       /\ ~(In(k[1], {"gather", "wait"})' /\ session'[k[1]].nonce = k)
      BY DEF Taken
    <3>1. ASSUME NEW k \in Nonce, k[2] <= started[k[1]]
          PROVE  /\ k[2] <= started'[k[1]]
                 /\ In(k[1], {"gather", "wait"})' /\ session'[k[1]].nonce = k => k[1] # x
      <4>1. k[1] \in Node /\ k[2] \in Nat
        BY Nonces
      <4>2. CASE k[1] = x
        <5>1. k[2] # started[x] + 1
          BY <1>t, <3>1, <4>1, <4>2
        <5>2. session'[x].nonce # k
          BY <1>s, <5>1
        <5>. QED
          BY <1>t, <3>1, <4>1, <4>2, <5>2
      <4>3. CASE k[1] # x
        BY <1>t, <3>1, <4>1, <4>3
      <4>. QED
        BY <4>2, <4>3
    <3>2. sent \subseteq Nonce /\ \A k \in Nonce : k[1] \in Node
      BY Nonces DEF TypeOK
    <3>3. ASSUME NEW k \in sent
          PROVE  k[2] <= started'[k[1]] /\ ~(In(k[1], {"gather"})' /\ session'[k[1]].nonce = k)
      <4>1. k[2] <= started[k[1]] /\ ~(In(k[1], {"gather"}) /\ session[k[1]].nonce = k)
        BY DEF Signals, Taken
      <4>. QED
        BY <1>s, <3>1, <3>2, <4>1 DEF In
    <3>4. ASSUME NEW k \in Nonce, took[k] # Nil
          PROVE  /\ took[k] \in sent /\ k[2] <= started'[k[1]]
                 /\ ~(In(k[1], {"gather", "wait"})' /\ session'[k[1]].nonce = k)
      <4>1. /\ took[k] \in sent /\ k[2] <= started[k[1]]
            /\ ~(In(k[1], {"gather", "wait"}) /\ session[k[1]].nonce = k)
        BY <3>4 DEF Signals, Taken
      <4>. QED
        BY <1>s, <3>1, <3>2, <4>1 DEF In
    <3>. QED
      BY <1>u, <3>3, <3>4
  <2>4. FoundGenuine'
    BY <1>s, <1>u DEF Signals, FoundGenuine, In
  <2>5. Outlasts'
    <3>. SUFFICES ASSUME NEW y \in Node, NEW m \in Nonce, In(y, {"wait", "probe"})', m[1] # y,
                         m[2] > before'[m[1]], took'[m] = session'[y].nonce
                  PROVE  /\ answers'[m[1]][session'[y].nonce].as # Nil
                         /\ answers'[m[1]][session'[y].nonce].as[2] >= m[2]
                         /\ answers'[m[1]][session'[y].nonce].ttl > session'[y].left
      BY DEF Outlasts
    <3>1. y # x
      BY <1>s DEF In
    <3>. QED
      BY <1>s, <1>u, <3>1 DEF Signals, Outlasts, In
  <2>. QED
    BY <2>1, <2>2, <2>3, <2>4, <2>5 DEF Signals
<1>3. Relays'
  <2>1. Falling'
    BY <1>s, <1>u DEF Relays, Falling, In
  <2>2. ProxiesOwned'
    BY <1>s, <1>u, NilAssumption DEF Relays, ProxiesOwned, In, TypeOK
  <2>. QED
    BY <2>1, <2>2 DEF Relays
<1>. QED
  BY <1>1, <1>2, <1>3

\* The process loses its answers, but none is expected of what it started before.
LEMMA RestartInv ==
  ASSUME Inv, NEW x \in Node, Restart(x)
  PROVE  Inv'
<1>. USE DEF Inv
<1>0. /\ session' \in [Node -> Session \cup {Nil}] /\ session'[x] = Nil
      /\ \A y \in Node \ {x} : session'[y] = session[y]
  BY EndStep DEF Restart, TypeOK
<1>u. /\ UNCHANGED <<sent, took, started>>
      /\ known' = known \ {x} /\ removing' = removing \ {x} /\ overtaken' = overtaken \ {x}
      /\ open' = {p \in open : p[1] # x}
  BY DEF Restart
<1>f. /\ pending'[x] = Nil /\ before'[x] = started[x] /\ endpoint'[x] = Nil /\ proxy'[x] = Nil
      /\ \A n \in Nonce : answers'[x][n] = NoAnswer
      /\ \A y \in Node \ {x} : /\ pending'[y] = pending[y] /\ before'[y] = before[y]
                               /\ endpoint'[y] = endpoint[y] /\ proxy'[y] = proxy[y]
                               /\ answers'[y] = answers[y]
  BY DEF Restart, TypeOK
<1>1. TypeOK'
  <2>1. [n \in Nonce |-> NoAnswer] \in [Nonce -> [as : Nonce \cup {Nil}, ttl : 0 .. 2 * ProbeTimeout]]
    BY DEF NoAnswer, ProbeTimeout
  <2>2. answers' \in [Node -> [Nonce -> [as : Nonce \cup {Nil}, ttl : 0 .. 2 * ProbeTimeout]]]
    BY <2>1 DEF TypeOK, Restart
  <2>3. \A y \in Node, n \in Nonce : answers'[y][n].as # Nil => n[1] # y /\ answers'[y][n].as[1] = y
    <3>1. NoAnswer.as = Nil
      BY DEF NoAnswer
    <3>2. \A n \in Nonce : answers'[x][n].as = Nil
      BY <1>f, <3>1
    <3>3. \A y \in Node \ {x} : answers'[y] = answers[y]
      BY <1>f
    <3>. QED
      BY <3>2, <3>3 DEF TypeOK
  <2>4. /\ pending' \in [Node -> Nonce \cup {Nil}] /\ endpoint' \in [Node -> {Nil, Direct} \cup Nonce]
        /\ proxy' \in [Node -> Nonce \cup {Nil}] /\ before' \in [Node -> Nat] /\ restarts' \in [Node -> Nat]
    BY DEF TypeOK, Restart
  <2>. QED
    BY <1>0, <1>u, <2>2, <2>3, <2>4 DEF TypeOK
<1>2. Signals'
  <2>1. Origins'
    <3>. SUFFICES ASSUME NEW y \in Node
                  PROVE  /\ started'[y] \in 0 .. MaxSessions[y] /\ before'[y] \in 0 .. started'[y]
                         /\ Live(y)' => session'[y].nonce = <<y, started'[y]>>
                         /\ Live(y)' /\ session'[y].peer # Nil => session'[y].peer \in sent' /\ session'[y].peer[1] # y
                         /\ pending'[y] # Nil => pending'[y] \in sent' /\ pending'[y][1] # y
                         /\ Live(y)' /\ ~In(y, {"gather", "wait"})' => session'[y].peer # Nil
      BY DEF Origins
    <3>1. CASE y = x
      BY <1>0, <1>u, <1>f, <3>1, MaxAssumption DEF Signals, Origins, Live
    <3>2. CASE y # x
      BY <1>0, <1>u, <1>f, <3>2 DEF Signals, Origins, Live, In
    <3>. QED
      BY <3>1, <3>2
  <2>2. Answering'
    <3>. SUFFICES ASSUME NEW y \in Node, NEW n \in Nonce
                  PROVE  /\ answers'[y][n].ttl > 0 => answers'[y][n].as # Nil
                         /\ answers'[y][n].as # Nil => took'[answers'[y][n].as] = n
      BY DEF Answering
    <3>1. CASE y = x
      BY <1>f, <3>1 DEF NoAnswer
    <3>2. CASE y # x
      BY <1>u, <1>f, <3>2 DEF Signals, Answering
    <3>. QED
      BY <3>1, <3>2
  <2>3. Taken'
    <3>1. sent \subseteq Nonce /\ \A k \in Nonce : k[1] \in Node
      BY Nonces DEF TypeOK
    <3>. QED
      BY <1>0, <1>u, <3>1 DEF Signals, Taken, In
  <2>4. FoundGenuine'
    BY <1>0, <1>u DEF Signals, FoundGenuine, In
  <2>5. Outlasts'
    <3>. SUFFICES ASSUME NEW y \in Node, NEW m \in Nonce, In(y, {"wait", "probe"})', m[1] # y,
                         m[2] > before'[m[1]], took'[m] = session'[y].nonce
                  PROVE  /\ answers'[m[1]][session'[y].nonce].as # Nil
                         /\ answers'[m[1]][session'[y].nonce].as[2] >= m[2]
                         /\ answers'[m[1]][session'[y].nonce].ttl > session'[y].left
      BY DEF Outlasts
    <3>1. y # x
      BY <1>0 DEF In
    <3>2. session'[y] = session[y] /\ session[y] \in Session
      BY <1>0, <3>1 DEF In, TypeOK
    <3>3. took[m] # Nil
      BY <1>u, <3>2, Fields, NilAssumption
    <3>4. m[1] = x
      BY <3>1, Peers, Nonces
    <3>5. m[2] <= started[x] /\ m[2] \in Nat /\ started[x] \in Nat
      BY <3>3, <3>4, Nonces DEF Signals, Taken, TypeOK
    <3>. QED
      BY <1>f, <3>4, <3>5
  <2>. QED
    BY <2>1, <2>2, <2>3, <2>4, <2>5 DEF Signals
<1>3. Relays'
  <2>1. Falling'
    BY <1>0, <1>u, <1>f DEF Relays, Falling, In
  <2>2. ProxiesOwned'
    BY <1>0, <1>u, <1>f, NilAssumption DEF Relays, ProxiesOwned, In
  <2>. QED
    BY <2>1, <2>2 DEF Relays
<1>. QED
  BY <1>1, <1>2, <1>3

\* A session takes its first signal, and the answer to its sender is new.
LEMMA TakeSignalInv ==
  ASSUME Inv, NEW x \in Node, TakeSignal(x)
  PROVE  Inv'
<1>. USE DEF Inv
<1>s. /\ session[x] \in Session /\ session[x] # Nil /\ session[x].pc = "wait" /\ session[x].peer \in Nonce
      /\ session[x].nonce \in Nonce /\ session[x].nonce = <<x, started[x]>>
      /\ session[x].peer \in sent /\ session[x].peer[1] # x /\ session[x].left \in 0 .. 3
      /\ took[session[x].nonce] = Nil
  <2>1. session[x] \in Session /\ session[x] # Nil /\ session[x].pc = "wait" /\ session[x].peer # Nil
    BY DEF TakeSignal, In, TypeOK
  <2>2. session[x].peer \in Nonce /\ session[x].nonce \in Nonce /\ session[x].left \in 0 .. 3
    BY <2>1, Fields
  <2>3. session[x].nonce = <<x, started[x]>> /\ session[x].peer \in sent /\ session[x].peer[1] # x
    BY <2>1 DEF Signals, Origins, Live
  <2>4. session[x].nonce[1] = x
    BY <2>3
  <2>5. took[session[x].nonce] = Nil
    BY <2>1, <2>2, <2>4 DEF Signals, Taken, In
  <2>. QED
    BY <2>1, <2>2, <2>3, <2>5
<1>p. PICK me \in Nonce, you \in Nonce : me = session[x].nonce /\ you = session[x].peer
  BY <1>s
<1>m. me[1] = x /\ me[2] = started[x] /\ you[1] # x /\ started[x] \in Nat /\ you \in sent /\ took[me] = Nil
      /\ me # Nil /\ you # Nil
  <2>1. me = <<x, started[x]>> /\ you[1] # x /\ you \in sent /\ took[me] = Nil
    BY <1>s, <1>p
  <2>2. started[x] \in Nat
    BY DEF TypeOK
  <2>3. me # Nil /\ you # Nil
    BY NilAssumption
  <2>. QED
    BY <2>1, <2>2, <2>3
<1>0. /\ session' \in [Node -> Session \cup {Nil}]
      /\ session'[x] # Nil /\ session'[x].pc = "probe"
      /\ session'[x].nonce = me /\ session'[x].peer = you /\ session'[x].left <= session[x].left
      /\ \A y \in Node \ {x} : session'[y] = session[y]
  <2>1. PICK l \in 0 .. 3 : l = (IF session[x].left < ProbeTimeout THEN session[x].left ELSE ProbeTimeout) /\ l <= session[x].left
    BY <1>s DEF ProbeTimeout
  <2>2. PICK s : s = [session[x] EXCEPT !.pc = "probe", !.left = l]
    OBVIOUS
  <2>3. s \in Session
    <3>1. SessionTimeout = 3
      BY DEF SessionTimeout, ProbeTimeout
    <3>. QED
      BY <1>s, <2>2, <3>1 DEF Session
  <2>4. s # Nil /\ s.pc = "probe" /\ s.nonce = me /\ s.peer = you /\ s.left = l
    BY <1>s, <1>p, <2>2, <2>3, Fields DEF Session
  <2>5. session' = [session EXCEPT ![x] = s]
    BY <2>1, <2>2 DEF TakeSignal, TypeOK
  <2>6. session' \in [Node -> Session \cup {Nil}] /\ session'[x] = s /\ \A y \in Node \ {x} : session'[y] = session[y]
    BY <2>3, <2>5 DEF TypeOK
  <2>. QED
    BY <2>1, <2>4, <2>6
<1>u. UNCHANGED <<sent, known, removing, pending, endpoint, proxy, open, overtaken, started, before, restarts>>
  BY DEF TakeSignal, relay, process
<1>k. took' = [took EXCEPT ![me] = you] /\ took'[me] = you /\ \A n \in Nonce \ {me} : took'[n] = took[n]
  BY <1>p DEF TakeSignal, TypeOK
<1>b. /\ answers' \in [Node -> [Nonce -> [as : Nonce \cup {Nil}, ttl : 0 .. 2 * ProbeTimeout]]]
      /\ answers'[x][you].as = me /\ answers'[x][you].ttl = 4
      /\ \A n \in Nonce \ {you} : answers'[x][n] = answers[x][n]
      /\ \A y \in Node \ {x} : answers'[y] = answers[y]
  <2>0. 4 \in 0 .. 2 * ProbeTimeout
    BY DEF ProbeTimeout
  <2>1. PICK a \in [as : Nonce \cup {Nil}, ttl : 0 .. 2 * ProbeTimeout] : a = [as |-> me, ttl |-> 4]
    BY <2>0
  <2>2. a.as = me /\ a.ttl = 4
    BY <2>1
  <2>3. answers' = [answers EXCEPT ![x][you] = a]
    BY <1>p, <2>1 DEF TakeSignal, AnswerTTL, ProbeTimeout, SignalResendWindow
  <2>. QED
    BY <2>2, <2>3 DEF TypeOK
<1>1. TypeOK'
  <2>1. \A y \in Node, n \in Nonce : answers'[y][n].as # Nil => n[1] # y /\ answers'[y][n].as[1] = y
    <3>. SUFFICES ASSUME NEW y \in Node, NEW n \in Nonce, answers'[y][n].as # Nil
                  PROVE  n[1] # y /\ answers'[y][n].as[1] = y
      OBVIOUS
    <3>1. CASE y = x /\ n = you
      BY <1>b, <1>m, <3>1
    <3>2. CASE ~(y = x /\ n = you)
      <4>1. answers'[y][n] = answers[y][n]
        BY <1>b, <3>2
      <4>. QED
        BY <4>1 DEF TypeOK
    <3>. QED
      BY <3>1, <3>2
  <2>2. took' \in [Nonce -> Nonce \cup {Nil}]
    BY <1>k DEF TypeOK
  <2>. QED
    BY <1>0, <1>u, <1>b, <2>1, <2>2 DEF TypeOK
<1>2. Signals'
  <2>1. Origins'
    <3>. SUFFICES ASSUME NEW y \in Node
                  PROVE  /\ started'[y] \in 0 .. MaxSessions[y] /\ before'[y] \in 0 .. started'[y]
                         /\ Live(y)' => session'[y].nonce = <<y, started'[y]>>
                         /\ Live(y)' /\ session'[y].peer # Nil => session'[y].peer \in sent' /\ session'[y].peer[1] # y
                         /\ pending'[y] # Nil => pending'[y] \in sent' /\ pending'[y][1] # y
                         /\ Live(y)' /\ ~In(y, {"gather", "wait"})' => session'[y].peer # Nil
      BY DEF Origins
    <3>1. CASE y = x
      BY <1>0, <1>u, <1>m, <1>s, <1>p, <3>1 DEF Signals, Origins, Live, In
    <3>2. CASE y # x
      BY <1>0, <1>u, <3>2 DEF Signals, Origins, Live, In
    <3>. QED
      BY <3>1, <3>2
  <2>2. Answering'
    <3>. SUFFICES ASSUME NEW y \in Node, NEW n \in Nonce
                  PROVE  /\ answers'[y][n].ttl > 0 => answers'[y][n].as # Nil
                         /\ answers'[y][n].as # Nil => took'[answers'[y][n].as] = n
      BY DEF Answering
    <3>1. CASE y = x /\ n = you
      BY <1>b, <1>k, <1>m, <3>1
    <3>2. CASE ~(y = x /\ n = you)
      <4>1. answers'[y][n] = answers[y][n]
        BY <1>b, <3>2
      <4>2. answers[y][n].as \in Nonce \cup {Nil}
        BY DEF TypeOK
      <4>3. /\ answers[y][n].ttl > 0 => answers[y][n].as # Nil
            /\ answers[y][n].as # Nil => took[answers[y][n].as] = n
        BY DEF Signals, Answering
      <4>4. answers[y][n].as # Nil => answers[y][n].as # me
        BY <1>m, <4>3, NilAssumption
      <4>. QED
        BY <1>k, <4>1, <4>2, <4>3, <4>4
    <3>. QED
      BY <3>1, <3>2
  <2>3. Taken'
    <3>. SUFFICES /\ \A k \in sent' : k[2] <= started'[k[1]] /\ ~(In(k[1], {"gather"})' /\ session'[k[1]].nonce = k)
                  /\ \A k \in Nonce : took'[k] # Nil =>
                       /\ took'[k] \in sent' /\ k[2] <= started'[k[1]]
                       /\ ~(In(k[1], {"gather", "wait"})' /\ session'[k[1]].nonce = k)
      BY DEF Taken
    <3>1. sent \subseteq Nonce /\ \A k \in Nonce : k[1] \in Node
      BY Nonces DEF TypeOK
    <3>2. ASSUME NEW k \in sent
          PROVE  k[2] <= started[k[1]] /\ ~(In(k[1], {"gather"})' /\ session'[k[1]].nonce = k)
      BY <1>0, <3>1 DEF Signals, Taken, In
    <3>3. ASSUME NEW k \in Nonce, took'[k] # Nil
          PROVE  /\ took'[k] \in sent /\ k[2] <= started[k[1]]
                 /\ ~(In(k[1], {"gather", "wait"})' /\ session'[k[1]].nonce = k)
      <4>1. CASE k = me
        BY <1>0, <1>k, <1>m, <4>1 DEF In
      <4>2. CASE k # me
        <5>1. /\ took[k] \in sent /\ k[2] <= started[k[1]]
              /\ ~(In(k[1], {"gather", "wait"}) /\ session[k[1]].nonce = k)
          BY <1>k, <3>3, <4>2 DEF Signals, Taken
        <5>. QED
          BY <1>0, <1>k, <3>1, <4>2, <5>1 DEF In
      <4>. QED
        BY <4>1, <4>2
    <3>. QED
      BY <1>u, <3>2, <3>3
  <2>4. FoundGenuine'
    <3>. SUFFICES ASSUME NEW y \in Node, In(y, {"found"})'
                  PROVE  took'[session'[y].peer] = session'[y].nonce
      BY DEF FoundGenuine
    <3>1. y # x /\ session'[y] = session[y] /\ session[y] \in Session /\ session[y].pc = "found"
      BY <1>0 DEF In, TypeOK
    <3>2. session[y].peer \in Nonce /\ session[y].nonce \in Nonce
      BY <3>1, Fields DEF Signals, Origins, Live, In
    <3>3. took[session[y].peer] = session[y].nonce
      BY <3>1, Fields DEF Signals, FoundGenuine, In
    <3>. QED
      BY <1>k, <1>m, <3>1, <3>2, <3>3, NilAssumption
  <2>5. Outlasts'
    <3>. SUFFICES ASSUME NEW y \in Node, NEW m \in Nonce, In(y, {"wait", "probe"})', m[1] # y,
                         m[2] > before'[m[1]], took'[m] = session'[y].nonce
                  PROVE  /\ answers'[m[1]][session'[y].nonce].as # Nil
                         /\ answers'[m[1]][session'[y].nonce].as[2] >= m[2]
                         /\ answers'[m[1]][session'[y].nonce].ttl > session'[y].left
      BY DEF Outlasts
    <3>1. session'[y] \in Session /\ session'[y].nonce \in Nonce /\ session'[y].left \in 0 .. 3
      BY <1>0, Fields DEF In
    <3>2. m[1] \in Node /\ m[2] \in Nat
      BY Nonces
    <3>3. CASE y = x
      <4>1. m # me /\ m[1] # x
        BY <1>m, <3>3
      <4>2. took[m] = session[x].nonce /\ In(x, {"wait", "probe"}) /\ m[2] > before[m[1]]
        BY <1>0, <1>k, <1>p, <1>s, <1>u, <3>3, <4>1 DEF In
      <4>3. /\ answers[m[1]][session[x].nonce].as # Nil
            /\ answers[m[1]][session[x].nonce].as[2] >= m[2]
            /\ answers[m[1]][session[x].nonce].ttl > session[x].left
        BY <4>1, <4>2 DEF Signals, Outlasts
      <4>4. answers'[m[1]] = answers[m[1]] /\ session'[y].nonce = session[x].nonce /\ session'[y].left <= session[x].left
        BY <1>0, <1>b, <1>p, <3>2, <3>3, <4>1
      <4>5. answers[m[1]][session[x].nonce].ttl \in Nat /\ session[x].left \in Nat
        <5>1. answers[m[1]][session[x].nonce] \in [as : Nonce \cup {Nil}, ttl : 0 .. 2 * ProbeTimeout]
          BY <1>s, <3>2 DEF TypeOK
        <5>. QED
          BY <1>s, <5>1 DEF ProbeTimeout
      <4>. QED
        BY <3>1, <4>3, <4>4, <4>5
    <3>4. CASE y # x /\ session'[y].nonce = you
      <4>1. m[1] = x
        BY <3>2, <3>4, Peers
      <4>2. m[2] <= started[x]
        <5>1. CASE m = me
          BY <1>m, <5>1
        <5>2. CASE m # me
          BY <1>k, <1>m, <3>4, <4>1, <5>2 DEF Signals, Taken
        <5>. QED
          BY <5>1, <5>2
      <4>. QED
        BY <1>b, <1>m, <3>1, <3>2, <3>4, <4>1, <4>2
    <3>5. CASE y # x /\ session'[y].nonce # you
      <4>1. m # me
        BY <1>k, <3>5
      <4>2. session'[y] = session[y] /\ took[m] = session[y].nonce /\ In(y, {"wait", "probe"}) /\ m[2] > before[m[1]]
        BY <1>0, <1>k, <1>u, <3>5, <4>1 DEF In
      <4>3. answers'[m[1]][session[y].nonce] = answers[m[1]][session[y].nonce]
        BY <1>b, <3>1, <3>2, <3>5, <4>2
      <4>. QED
        BY <4>2, <4>3 DEF Signals, Outlasts
    <3>. QED
      BY <3>3, <3>4, <3>5
  <2>. QED
    BY <2>1, <2>2, <2>3, <2>4, <2>5 DEF Signals
<1>3. Relays'
  <2>1. Falling'
    BY <1>0, <1>u, <1>s DEF Relays, Falling, In
  <2>2. ProxiesOwned'
    BY <1>0, <1>u, <1>s DEF Relays, ProxiesOwned, In
  <2>. QED
    BY <2>1, <2>2 DEF Relays
<1>. QED
  BY <1>1, <1>2, <1>3

\* Answers grow old no faster than the sessions they are for.
LEMMA TickInv ==
  ASSUME Inv, Tick
  PROVE  Inv'
<1>. USE DEF Inv
<1>u. UNCHANGED <<sent, known, removing, pending, took, endpoint, proxy, open, overtaken, started, before, restarts>>
  BY DEF Tick, relay, process
<1>0. /\ session' \in [Node -> Session \cup {Nil}]
      /\ \A y \in Node :
           /\ session[y] = Nil => session'[y] = Nil
           /\ session[y] # Nil =>
                /\ session'[y] # Nil /\ session'[y].nonce = session[y].nonce
                /\ session'[y].pc = session[y].pc /\ session'[y].peer = session[y].peer
                /\ session'[y].left = Down(session[y].left)
  <2>1. ASSUME NEW y \in Node, session[y] # Nil
        PROVE  /\ session'[y] \in Session /\ session'[y] # Nil /\ session'[y].nonce = session[y].nonce
               /\ session'[y].pc = session[y].pc /\ session'[y].peer = session[y].peer
               /\ session'[y].left = Down(session[y].left)
    <3>1. session[y] \in Session /\ session[y].left \in 0 .. 3
      BY <2>1, Fields DEF TypeOK
    <3>2. PICK l \in 0 .. 3 : l = Down(session[y].left)
      BY <3>1 DEF Down
    <3>3. session'[y] = [session[y] EXCEPT !.left = l]
      BY <2>1, <3>2 DEF Tick
    <3>4. [session[y] EXCEPT !.left = l] \in Session
      BY <3>1 DEF Session, SessionTimeout, ProbeTimeout
    <3>5. session'[y] \in Session /\ session'[y] # Nil
      BY <3>3, <3>4, Fields
    <3>6. /\ [session[y] EXCEPT !.left = l].nonce = session[y].nonce /\ [session[y] EXCEPT !.left = l].pc = session[y].pc
          /\ [session[y] EXCEPT !.left = l].peer = session[y].peer /\ [session[y] EXCEPT !.left = l].left = l
      BY <3>1 DEF Session
    <3>. QED
      BY <3>2, <3>3, <3>5, <3>6
  <2>2. \A y \in Node : session[y] = Nil => session'[y] = Nil
    BY DEF Tick
  <2>3. session' \in [Node -> Session \cup {Nil}]
    <3>1. \A y \in Node : session'[y] \in Session \cup {Nil}
      BY <2>1, <2>2
    <3>2. session' = [y \in Node |-> IF session[y] = Nil THEN Nil ELSE [session[y] EXCEPT !.left = Down(@)]]
      BY DEF Tick
    <3>. QED
      BY <3>1, <3>2
  <2>. QED
    BY <2>1, <2>2, <2>3
<1>b. ASSUME NEW y \in Node, NEW n \in Nonce
      PROVE  /\ answers[y][n] \in [as : Nonce \cup {Nil}, ttl : 0 .. 4]
             /\ answers'[y][n] \in [as : Nonce \cup {Nil}, ttl : 0 .. 4]
             /\ \/ answers[y][n].ttl > 1 /\ answers'[y][n].as = answers[y][n].as
                     /\ answers'[y][n].ttl = answers[y][n].ttl - 1
                \/ ~(answers[y][n].ttl > 1) /\ answers'[y][n].as = Nil /\ answers'[y][n].ttl = 0
  <2>1. answers[y][n] \in [as : Nonce \cup {Nil}, ttl : 0 .. 4]
    BY DEF TypeOK, ProbeTimeout
  <2>2. answers'[y][n] = IF answers[y][n].ttl > 1 THEN [answers[y][n] EXCEPT !.ttl = @ - 1] ELSE NoAnswer
    BY DEF Tick
  <2>3. CASE answers[y][n].ttl > 1
    BY <2>1, <2>2, <2>3
  <2>4. CASE ~(answers[y][n].ttl > 1)
    BY <2>1, <2>2, <2>4 DEF NoAnswer
  <2>. QED
    BY <2>3, <2>4
<1>1. TypeOK'
  <2>1. answers' \in [Node -> [Nonce -> [as : Nonce \cup {Nil}, ttl : 0 .. 2 * ProbeTimeout]]]
    <3>1. \A y \in Node, n \in Nonce : answers'[y][n] \in [as : Nonce \cup {Nil}, ttl : 0 .. 2 * ProbeTimeout]
      BY <1>b DEF ProbeTimeout
    <3>2. answers' = [y \in Node |-> [n \in Nonce |-> answers'[y][n]]]
      BY DEF Tick
    <3>. QED
      BY <3>1, <3>2
  <2>2. \A y \in Node, n \in Nonce : answers'[y][n].as # Nil => n[1] # y /\ answers'[y][n].as[1] = y
    BY <1>b DEF TypeOK
  <2>. QED
    BY <1>0, <1>u, <2>1, <2>2 DEF TypeOK
<1>2. Signals'
  <2>1. Origins'
    <3>. SUFFICES ASSUME NEW y \in Node
                  PROVE  /\ started'[y] \in 0 .. MaxSessions[y] /\ before'[y] \in 0 .. started'[y]
                         /\ Live(y)' => session'[y].nonce = <<y, started'[y]>>
                         /\ Live(y)' /\ session'[y].peer # Nil => session'[y].peer \in sent' /\ session'[y].peer[1] # y
                         /\ pending'[y] # Nil => pending'[y] \in sent' /\ pending'[y][1] # y
                         /\ Live(y)' /\ ~In(y, {"gather", "wait"})' => session'[y].peer # Nil
      BY DEF Origins
    <3>. QED
      BY <1>0, <1>u DEF Signals, Origins, Live, In
  <2>2. Answering'
    BY <1>b, <1>u DEF Signals, Answering
  <2>3. Taken'
    <3>1. sent \subseteq Nonce /\ \A k \in Nonce : k[1] \in Node
      BY Nonces DEF TypeOK
    <3>. QED
      BY <1>0, <1>u, <3>1 DEF Signals, Taken, In
  <2>4. FoundGenuine'
    BY <1>0, <1>u DEF Signals, FoundGenuine, In
  <2>5. Outlasts'
    <3>. SUFFICES ASSUME NEW y \in Node, NEW m \in Nonce, In(y, {"wait", "probe"})', m[1] # y,
                         m[2] > before'[m[1]], took'[m] = session'[y].nonce
                  PROVE  /\ answers'[m[1]][session'[y].nonce].as # Nil
                         /\ answers'[m[1]][session'[y].nonce].as[2] >= m[2]
                         /\ answers'[m[1]][session'[y].nonce].ttl > session'[y].left
      BY DEF Outlasts
    <3>1. /\ session[y] \in Session /\ session[y].nonce \in Nonce /\ session[y].left \in 0 .. 3
          /\ In(y, {"wait", "probe"}) /\ session'[y].nonce = session[y].nonce /\ session'[y].left = Down(session[y].left)
      BY <1>0, Fields DEF In, TypeOK
    <3>2. session[y].left > 0
      BY <3>1 DEF Tick, In
    <3>3. m[1] \in Node
      BY Nonces
    <3>4. /\ answers[m[1]][session[y].nonce].as # Nil
          /\ answers[m[1]][session[y].nonce].as[2] >= m[2]
          /\ answers[m[1]][session[y].nonce].ttl > session[y].left
      BY <1>u, <3>1 DEF Signals, Outlasts
    <3>5. answers[m[1]][session[y].nonce].ttl \in 0 .. 4
      BY <1>b, <3>1, <3>3
    <3>6. answers[m[1]][session[y].nonce].ttl > 1
      BY <3>1, <3>2, <3>4, <3>5
    <3>7. /\ answers'[m[1]][session[y].nonce].as = answers[m[1]][session[y].nonce].as
          /\ answers'[m[1]][session[y].nonce].ttl = answers[m[1]][session[y].nonce].ttl - 1
      BY <1>b, <3>1, <3>3, <3>6
    <3>. QED
      BY <3>1, <3>2, <3>4, <3>5, <3>7 DEF Down
  <2>. QED
    BY <2>1, <2>2, <2>3, <2>4, <2>5 DEF Signals
<1>3. Relays'
  <2>1. Falling'
    BY <1>0, <1>u DEF Relays, Falling, In
  <2>2. ProxiesOwned'
    BY <1>0, <1>u DEF Relays, ProxiesOwned, In
  <2>. QED
    BY <2>1, <2>2 DEF Relays
<1>. QED
  BY <1>1, <1>2, <1>3

-----------------------------------------------------------------------------
\* Two nodes start with nothing sent, taken or open.
LEMMA InitInv == Init => Inv
<1>. SUFFICES ASSUME Init PROVE Inv
  OBVIOUS
<1>. USE DEF Init
<1>1. TypeOK
  <2>1. NoAnswer \in [as : Nonce \cup {Nil}, ttl : 0 .. 2 * ProbeTimeout] /\ NoAnswer.as = Nil
    BY DEF NoAnswer, ProbeTimeout
  <2>2. \A x \in Node, n \in Nonce : answers[x][n] = NoAnswer
    OBVIOUS
  <2>. QED
    BY <2>1, <2>2 DEF TypeOK
<1>2. Signals
  <2>1. \A x \in Node, n \in Nonce : answers[x][n].as = Nil /\ answers[x][n].ttl = 0
    BY DEF NoAnswer
  <2>2. \A x \in Node : started[x] = 0 /\ before[x] = 0 /\ session[x] = Nil /\ pending[x] = Nil
    OBVIOUS
  <2>3. Origins
    <3>. HIDE DEF Init
    <3>. SUFFICES ASSUME NEW x \in Node
                  PROVE  /\ started[x] \in 0 .. MaxSessions[x] /\ before[x] \in 0 .. started[x]
                         /\ session[x] = Nil /\ pending[x] = Nil
      BY DEF Origins, Live
    <3>1. MaxSessions[x] \in Nat
      BY MaxAssumption
    <3>2. started[x] = 0 /\ before[x] = 0 /\ session[x] = Nil /\ pending[x] = Nil
      BY <2>2
    <3>. QED
      BY <3>1, <3>2
  <2>4. Answering /\ Taken
    BY <2>1 DEF Answering, Taken
  <2>5. FoundGenuine /\ Outlasts
    BY <2>2 DEF FoundGenuine, Outlasts, In
  <2>. QED
    BY <2>3, <2>4, <2>5 DEF Signals
<1>3. Relays
  BY NilAssumption DEF Relays, Falling, ProxiesOwned, In
<1>. QED
  BY <1>1, <1>2, <1>3 DEF Inv

\* The invariant is inductive.
LEMMA NextInv == Inv /\ [Next]_vars => Inv'
<1>. SUFFICES ASSUME Inv, [Next]_vars PROVE Inv'
  OBVIOUS
<1>1. ASSUME NEW x \in Node,
             \/ PeerAdded(x) \/ EndpointUpdate(x) \/ PeerRemoved(x) \/ TableRemove(x)
             \/ HandleProbe(x) \/ Restart(x)
      PROVE  Inv'
  BY <1>1, PeerAddedInv, EndpointUpdateInv, PeerRemovedInv, TableRemoveInv, HandleProbeInv, RestartInv
<1>2. ASSUME NEW x \in Node, SessionStep(x) PROVE Inv'
  BY <1>2, GatherCandidatesInv, TakeSignalInv, NothingUsableInv, WaitTimeoutInv, EndpointDiscoveredInv,
     PunchTimeoutInv, DialFailsInv, DialInv, InstallInv, PointToProxyInv DEF SessionStep
<1>3. ASSUME NEW x \in Node, NEW n \in Nonce, DeliverSignal(x, n) PROVE Inv'
  BY <1>3, DeliverSignalInv
<1>4. ASSUME NEW n \in Nonce, ProxyFails(n) PROVE Inv'
  BY <1>4, ProxyFailsInv
<1>5. CASE Tick
  BY <1>5, TickInv
<1>6. CASE UNCHANGED vars
  <2>1. TypeOK'
    BY <1>6 DEF Inv, TypeOK, vars, manager, relay, process
  <2>2. Signals'
    BY <1>6, SignalsKept DEF Inv, TypeOK, vars, manager, relay, process
  <2>3. Relays'
    BY <1>6, RelaysKept DEF Inv, vars, relay
  <2>. QED
    BY <2>1, <2>2, <2>3 DEF Inv
<1>. QED
  BY <1>1, <1>2, <1>3, <1>4, <1>5, <1>6 DEF Next

\* The invariant holds in every state.
THEOREM InvHolds == Spec => []Inv
  BY InitInv, NextInv, PTL DEF Spec

\* Sessions, signals, answers and proxies keep their types, and a node answers
\* the other one only, under nonces of its own sessions.
THEOREM NatTypes == Spec => []TypeOK
<1>1. Inv => TypeOK
  BY DEF Inv
<1>. QED
  BY <1>1, InvHolds, PTL

\* HandleProbe calls a path found only with a session that has taken this one's
\* nonce, however many sessions and restarts there are and whatever signals come
\* late or again.
THEOREM PathsGenuine == Spec => []FoundGenuine
<1>1. Inv => FoundGenuine
  BY DEF Inv, Signals
<1>. QED
  BY <1>1, InvHolds, PTL

\* A session that probes finds the answer to its probes still there: answerTTL is
\* long enough for any moment at which the other session can have ended.
THEOREM AnswersLastLongEnough == Spec => []AnswersOutlive
<1>1. Inv => AnswersOutlive
  <2>. SUFFICES ASSUME Inv, NEW x \in Node, In(x, {"probe"}), took[session[x].peer] = session[x].nonce,
                       session[x].peer[2] > before[Peer(x)]
                PROVE  /\ answers[Peer(x)][session[x].nonce].as # Nil
                       /\ answers[Peer(x)][session[x].nonce].as[2] >= session[x].peer[2]
    BY DEF AnswersOutlive
  <2>1. session[x] \in Session /\ session[x].peer # Nil /\ session[x].peer[1] # x
    <3>1. session[x] \in Session /\ session[x].pc = "probe"
      BY DEF Inv, TypeOK, In
    <3>. QED
      BY <3>1 DEF Inv, Signals, Origins, Live, In
  <2>2. session[x].peer \in Nonce
    BY <2>1, Fields
  <2>3. session[x].peer[1] = Peer(x)
    BY <2>1, <2>2, Nonces, Peers
  <2>. QED
    BY <2>1, <2>2, <2>3 DEF Inv, Signals, Outlasts, In
<1>. QED
  BY <1>1, InvHolds, PTL

\* OnPunchTimeout and OnPeerRemoved lose no proxy, whatever the interleaving of
\* fallbacks, removals, failures and restarts, but for a removal that meets a
\* fallback half done.
THEOREM NoProxyLost == Spec => []ProxiesOwned
<1>1. Inv => ProxiesOwned
  BY DEF Inv, Relays
<1>. QED
  BY <1>1, InvHolds, PTL
=============================================================================
