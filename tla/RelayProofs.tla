---------------------------- MODULE RelayProofs ----------------------------
(***************************************************************************)
(* Proofs about Relay, for every finite set of connections, all keys, IPs  *)
(* and limits, and any number of goroutines that call Close.               *)
(***************************************************************************)
EXTENDS Relay, FiniteSetTheorems, TLAPS

USE ConnAssumption, KeyAssumption, LimitAssumption

-----------------------------------------------------------------------------
(***************************************************************************)
(* The inductive invariant.                                                *)
(***************************************************************************)
\* The types of the variables but the counters and the set of open sockets.
Shape ==
  /\ handler \in [Conn -> {"none", "handshake", "place", "evict", "close", "again", "gone"}]
  /\ other \in [Conn -> Conn \cup {Nil}]
  /\ timer \in [Conn -> {"off", "armed", "close"}]
  /\ waiting \in [Channel -> Conn \cup {Nil}]
  /\ active \subseteq Conn
  /\ partner \in [Conn -> Conn \cup {Nil}]
  /\ splice \in [Conn -> {"none", "run", "failed", "forget", "done"}]
  /\ closed \in BOOLEAN /\ listening \in BOOLEAN
  /\ closer \in [Closer -> [pc : {"idle", "closing", "joining", "returned"}, todo : SUBSET Conn]]

\* The counters of admit count the open sockets, and keep the limits.
From(ip) == {c \in open : IPOf[c] = ip}
Counted ==
  /\ open \subseteq Conn
  /\ conns = Cardinality(open) /\ conns <= MaxConns
  /\ connsByIP \in [IP -> Nat]
  /\ \A ip \in IP : connsByIP[ip] = Cardinality(From(ip)) /\ connsByIP[ip] <= MaxConnsPerIP

\* A connection waits on its own channel, once its handler has put it there and
\* before it is spliced.
Seated ==
  \A ch \in Channel : waiting[ch] # Nil =>
    /\ ChannelID(waiting[ch]) = ch
    /\ handler[waiting[ch]] = "gone"
    /\ partner[waiting[ch]] = Nil

\* Connections are spliced in pairs, of one channel, once.
Paired ==
  \A c \in Conn :
    /\ partner[c] # Nil => /\ handler[c] = "gone"
                           /\ partner[c] # c
                           /\ partner[partner[c]] = c
                           /\ ChannelID(partner[c]) = ChannelID(c)
    /\ partner[c] = Nil <=> splice[c] = "none"

\* The splice that reads from its partner has yet to forget an active connection.
Attended == \A c \in active : partner[c] # Nil /\ partner[c] \in Spliced

\* What handlers and Close know.
Evicting == \A c \in Conn : handler[c] \in {"evict", "close"} => other[c] # Nil
Closers ==
  /\ \A k \in Closer :
       /\ closer[k].pc # "idle" => closed
       /\ closer[k].pc # "closing" => closer[k].todo = {}
       /\ closer[k].pc = "returned" => Spliced = {}
  /\ closed => \A ch \in Channel : waiting[ch] = Nil

\* Whoever is open has been admitted, and somebody is in charge of it.
Charged == \A c \in open : handler[c] # "none" /\ InCharge(c)

Inv == Shape /\ Counted /\ Seated /\ Paired /\ Attended /\ Evicting /\ Closers /\ Charged
-----------------------------------------------------------------------------
(***************************************************************************)
(* The counters.                                                           *)
(***************************************************************************)
\* The open sockets are finitely many, and so are those from one IP.
LEMMA OpenFinite ==
  ASSUME open \subseteq Conn
  PROVE  /\ IsFiniteSet(open) /\ Cardinality(open) \in Nat
         /\ \A ip : IsFiniteSet(From(ip)) /\ Cardinality(From(ip)) \in Nat
  BY FS_Subset, FS_CardinalityType DEF From

\* admit counts a new socket, if there is room for it.
LEMMA AdmitCounts ==
  ASSUME Counted, NEW c \in Conn \ open, Admissible(c),
         open' = open \cup {c}, conns' = conns + 1,
         connsByIP' = [connsByIP EXCEPT ![IPOf[c]] = @ + 1]
  PROVE  Counted'
<1>1. IPOf[c] \in IP
  BY DEF IP
<1>2. open' \subseteq Conn /\ connsByIP' \in [IP -> Nat]
  BY <1>1 DEF Counted
<1>3. conns' = Cardinality(open') /\ conns' <= MaxConns
  <2>1. Cardinality(open \cup {c}) = Cardinality(open) + 1
    BY OpenFinite, FS_AddElement DEF Counted
  <2>. QED
    BY <2>1, OpenFinite DEF Counted, Admissible
<1>4. ASSUME NEW ip \in IP
      PROVE  connsByIP'[ip] = Cardinality(From(ip)') /\ connsByIP'[ip] <= MaxConnsPerIP
  <2>1. CASE ip = IPOf[c]
    <3>1. From(ip)' = From(ip) \cup {c} /\ c \notin From(ip)
      BY <2>1 DEF From
    <3>2. Cardinality(From(ip) \cup {c}) = Cardinality(From(ip)) + 1
      BY <3>1, OpenFinite, FS_AddElement DEF Counted
    <3>3. Cardinality(From(ip)') = Cardinality(From(ip)) + 1
      BY <3>1, <3>2
    <3>. QED
      BY <2>1, <3>3, OpenFinite DEF Counted, Admissible
  <2>2. CASE ip # IPOf[c]
    <3>1. From(ip)' = From(ip)
      BY <2>2 DEF From
    <3>. QED
      BY <2>2, <3>1 DEF Counted
  <2>. QED
    BY <2>1, <2>2
<1>. QED
  BY <1>2, <1>3, <1>4 DEF Counted

\* The Close of a limitedConn gives the slot back the first time only.
LEMMA CloseCounts ==
  ASSUME Counted, NEW c, CloseConn(c)
  PROVE  Counted' /\ open' = open \ {c}
<1>1. CASE c \notin open
  <2>1. UNCHANGED <<open, conns, connsByIP>>
    BY <1>1 DEF CloseConn
  <2>. QED
    BY <1>1, <2>1 DEF Counted, From
<1>2. CASE c \in open
  <2>1. IPOf[c] \in IP /\ c \in Conn
    BY <1>2 DEF IP, Counted
  <2>2. /\ open' = open \ {c} /\ conns' = conns - 1
        /\ connsByIP' = [connsByIP EXCEPT ![IPOf[c]] = @ - 1]
    BY <1>2 DEF CloseConn
  <2>3. conns' = Cardinality(open') /\ conns' <= MaxConns
    <3>1. Cardinality(open \ {c}) = Cardinality(open) - 1
      BY <1>2, OpenFinite, FS_RemoveElement DEF Counted
    <3>. QED
      BY <2>2, <3>1, OpenFinite DEF Counted
  <2>4. ASSUME NEW ip \in IP
        PROVE  /\ connsByIP'[ip] = Cardinality(From(ip)') /\ connsByIP'[ip] <= MaxConnsPerIP
               /\ connsByIP'[ip] \in Nat
    <3>1. CASE ip = IPOf[c]
      <4>1. From(ip)' = From(ip) \ {c} /\ c \in From(ip)
        BY <1>2, <2>2, <3>1 DEF From
      <4>2. Cardinality(From(ip) \ {c}) = Cardinality(From(ip)) - 1
        BY <4>1, OpenFinite, FS_RemoveElement DEF Counted
      <4>3. Cardinality(From(ip)') = Cardinality(From(ip)) - 1
        BY <4>1, <4>2
      <4>4. Cardinality(From(ip)) # 0
        BY <4>1, OpenFinite, FS_EmptySet DEF Counted
      <4>. QED
        BY <2>2, <3>1, <4>3, <4>4, OpenFinite DEF Counted
    <3>2. CASE ip # IPOf[c]
      <4>1. From(ip)' = From(ip)
        BY <2>2, <3>2 DEF From
      <4>. QED
        BY <2>2, <3>2, <4>1 DEF Counted
    <3>. QED
      BY <3>1, <3>2
  <2>5. connsByIP' \in [IP -> Nat]
    BY <2>1, <2>2, <2>4 DEF Counted
  <2>. QED
    BY <2>2, <2>3, <2>4, <2>5 DEF Counted
<1>. QED
  BY <1>1, <1>2

\* A step that closes and opens nothing leaves the counters exact.
LEMMA SameCounts ==
  ASSUME Counted, UNCHANGED counters
  PROVE  Counted' /\ open' = open
  BY DEF Counted, counters, From

\* ChannelID of a connection is a channel.
LEMMA ChannelType == \A c \in Conn : ChannelID(c) \in Channel
  BY DEF Channel

-----------------------------------------------------------------------------
\* The service starts with no connection, no timer and no Close.
LEMMA InitInv == Init => Inv
<1>. SUFFICES ASSUME Init PROVE Inv
  OBVIOUS
<1>1. Shape
  BY DEF Init, Shape
<1>2. Counted
  <2>1. \A ip \in IP : From(ip) = {}
    BY DEF Init, From
  <2>. QED
    <3>1. Cardinality({}) = 0
      BY FS_EmptySet
    <3>2. \A ip \in IP : Cardinality(From(ip)) = 0
      BY <2>1, <3>1
    <3>. QED
      BY <3>1, <3>2 DEF Init, Counted
<1>3. Seated /\ Paired /\ Attended /\ Evicting /\ Closers /\ Charged
  BY DEF Init, Seated, Paired, Attended, Evicting, Closers, Charged, Spliced
<1>. QED
  BY <1>1, <1>2, <1>3 DEF Inv

\* The accept loop admits c: the handler that it starts is in charge of c.
LEMMA AdmitInv ==
  ASSUME Inv, NEW c \in Conn, Admit(c)
  PROVE  Inv'
<1>. USE DEF Inv, pairing, service
<1>1. Shape'
  BY ChannelType DEF Shape, Admit
<1>2. Counted'
  BY AdmitCounts DEF Inv, Charged, Admit
<1>3. Seated'
  BY ChannelType DEF Shape, Seated, Paired, Admit
<1>4. Paired'
  BY ChannelType DEF Shape, Seated, Paired, Admit
<1>5. Attended'
  BY DEF Shape, Seated, Paired, Attended, Spliced, Admit
<1>6. Evicting' /\ Closers'
  BY DEF Shape, Evicting, Closers, Spliced, Admit
<1>7. Charged'
  BY ChannelType DEF Shape, Seated, Evicting, Closers, Charged, InCharge, Admit
<1>. QED
  BY <1>1, <1>2, <1>3, <1>4, <1>5, <1>6, <1>7

\* A connection over a limit is closed at once and never counted.
LEMMA RefuseInv ==
  ASSUME Inv, NEW c \in Conn, Refuse(c)
  PROVE  Inv'
<1>. USE DEF Inv, pairing, service
<1>1. Shape'
  BY ChannelType DEF Shape, Refuse
<1>2. Counted'
  BY SameCounts DEF Inv, counters, Refuse
<1>3. Seated'
  BY ChannelType DEF Shape, Seated, Paired, Refuse
<1>4. Paired'
  BY ChannelType DEF Shape, Seated, Paired, Refuse
<1>5. Attended'
  BY DEF Shape, Seated, Paired, Attended, Spliced, Refuse
<1>6. Evicting' /\ Closers'
  BY DEF Shape, Evicting, Closers, Spliced, Refuse
<1>7. Charged'
  BY ChannelType DEF Shape, Seated, Evicting, Closers, Charged, InCharge, Refuse, counters
<1>. QED
  BY <1>1, <1>2, <1>3, <1>4, <1>5, <1>6, <1>7

\* A failed handshake closes the connection, which is in no map yet.
LEMMA HandshakeFailsInv ==
  ASSUME Inv, NEW c \in Conn, HandshakeFails(c)
  PROVE  Inv'
<1>. USE DEF Inv, pairing, service
<1>1. Shape'
  BY ChannelType DEF Shape, HandshakeFails
<1>2. Counted'
  BY CloseCounts DEF Inv, HandshakeFails
<1>3. Seated'
  BY ChannelType DEF Shape, Seated, Paired, HandshakeFails
<1>4. Paired'
  BY ChannelType DEF Shape, Seated, Paired, HandshakeFails
<1>5. Attended'
  BY DEF Shape, Seated, Paired, Attended, Spliced, HandshakeFails
<1>6. Evicting' /\ Closers'
  BY DEF Shape, Evicting, Closers, Spliced, HandshakeFails
<1>7. Charged'
  BY ChannelType DEF Shape, Seated, Evicting, Closers, Charged, InCharge, HandshakeFails, CloseConn
<1>. QED
  BY <1>1, <1>2, <1>3, <1>4, <1>5, <1>6, <1>7

\* After the handshake the handler is still in charge.
LEMMA HandshakeDoneInv ==
  ASSUME Inv, NEW c \in Conn, HandshakeDone(c)
  PROVE  Inv'
<1>. USE DEF Inv, pairing, service
<1>1. Shape'
  BY ChannelType DEF Shape, HandshakeDone
<1>2. Counted'
  BY SameCounts DEF Inv, counters, HandshakeDone
<1>3. Seated'
  BY ChannelType DEF Shape, Seated, Paired, HandshakeDone
<1>4. Paired'
  BY ChannelType DEF Shape, Seated, Paired, HandshakeDone
<1>5. Attended'
  BY DEF Shape, Seated, Paired, Attended, Spliced, HandshakeDone
<1>6. Evicting' /\ Closers'
  BY DEF Shape, Evicting, Closers, Spliced, HandshakeDone
<1>7. Charged'
  BY ChannelType DEF Shape, Seated, Evicting, Closers, Charged, InCharge, HandshakeDone, counters
<1>. QED
  BY <1>1, <1>2, <1>3, <1>4, <1>5, <1>6, <1>7

\* A connection that comes after Close is closed by its handler.
LEMMA TurnAwayInv ==
  ASSUME Inv, NEW c \in Conn, TurnAway(c)
  PROVE  Inv'
<1>. USE DEF Inv, pairing, service
<1>1. Shape'
  BY ChannelType DEF Shape, TurnAway
<1>2. Counted'
  BY CloseCounts DEF Inv, TurnAway
<1>3. Seated'
  BY ChannelType DEF Shape, Seated, Paired, TurnAway
<1>4. Paired'
  BY ChannelType DEF Shape, Seated, Paired, TurnAway
<1>5. Attended'
  BY DEF Shape, Seated, Paired, Attended, Spliced, TurnAway
<1>6. Evicting' /\ Closers'
  BY DEF Shape, Evicting, Closers, Spliced, TurnAway
<1>7. Charged'
  BY ChannelType DEF Shape, Seated, Evicting, Closers, Charged, InCharge, TurnAway, CloseConn
<1>. QED
  BY <1>1, <1>2, <1>3, <1>4, <1>5, <1>6, <1>7

\* The handler takes note of the old connection; it still waits.
LEMMA ReconnectInv ==
  ASSUME Inv, NEW c \in Conn, Reconnect(c)
  PROVE  Inv'
<1>. USE DEF Inv, pairing, service
<1>1. Shape'
  BY ChannelType DEF Shape, Reconnect, WaitsAlready
<1>2. Counted'
  BY SameCounts DEF Inv, counters, Reconnect
<1>3. Seated'
  BY ChannelType DEF Shape, Seated, Paired, Reconnect, WaitsAlready
<1>4. Paired'
  BY ChannelType DEF Shape, Seated, Paired, Reconnect, WaitsAlready
<1>5. Attended'
  BY DEF Shape, Seated, Paired, Attended, Spliced, Reconnect, WaitsAlready
<1>6. Evicting' /\ Closers'
  BY DEF Shape, Evicting, Closers, Spliced, Reconnect, WaitsAlready
<1>7. Charged'
  BY ChannelType DEF Shape, Seated, Evicting, Closers, Charged, InCharge, Reconnect, WaitsAlready, counters
<1>. QED
  BY <1>1, <1>2, <1>3, <1>4, <1>5, <1>6, <1>7

\* The old connection is taken off its channel while it waits there, and the
\* handler that did so is in charge of it; its timer finds it gone.
LEMMA EvictOldInv ==
  ASSUME Inv, NEW c \in Conn, EvictOld(c)
  PROVE  Inv'
<1>. USE DEF Inv, pairing, service
<1>1. Shape'
  BY ChannelType DEF Shape, EvictOld, Evictable
<1>2. Counted'
  BY SameCounts DEF Inv, counters, EvictOld
<1>3. Seated'
  BY ChannelType DEF Shape, Seated, Paired, EvictOld, Evictable
<1>4. Paired'
  BY ChannelType DEF Shape, Seated, Paired, EvictOld, Evictable
<1>5. Attended'
  BY DEF Shape, Seated, Paired, Attended, Spliced, EvictOld, Evictable
<1>6. Evicting' /\ Closers'
  BY DEF Shape, Evicting, Closers, Spliced, EvictOld, Evictable
<1>7. Charged'
  <2>1. open' = open
    BY DEF EvictOld, counters
  <2>. SUFFICES ASSUME NEW x \in open
                PROVE  handler'[x] # "none" /\ InCharge(x)'
    BY <2>1 DEF Charged
  <2>2. x \in Conn /\ handler[x] # "none" /\ InCharge(x)
    BY DEF Charged, Counted
  <2>3. CASE handler[x] \notin {"none", "gone"}
    BY ChannelType, <2>2, <2>3 DEF Shape, InCharge, EvictOld, Evictable
  <2>4. ASSUME NEW e \in Conn, handler[e] = "close", other[e] = x
        PROVE  handler'[x] # "none" /\ InCharge(x)'
    BY ChannelType, <2>2, <2>4 DEF Shape, InCharge, EvictOld, Evictable
  <2>5. CASE waiting[ChannelID(x)] = x
    BY ChannelType, <2>2, <2>5 DEF Shape, InCharge, EvictOld, Evictable
  <2>6. CASE timer[x] = "close" \/ splice[x] = "run"
    BY ChannelType, <2>2, <2>6 DEF Shape, InCharge, EvictOld, Evictable
  <2>7. ASSUME NEW m \in Closer, x \in closer[m].todo
        PROVE  handler'[x] # "none" /\ InCharge(x)'
    BY ChannelType, <2>2, <2>7 DEF Shape, InCharge, EvictOld, Evictable
  <2>. QED
    BY <2>2, <2>3, <2>4, <2>5, <2>6, <2>7 DEF InCharge
<1>. QED
  BY <1>1, <1>2, <1>3, <1>4, <1>5, <1>6, <1>7

\* The handler closes the old connection that it has evicted.
LEMMA CloseOldInv ==
  ASSUME Inv, NEW c \in Conn, CloseOld(c)
  PROVE  Inv'
<1>. USE DEF Inv, pairing, service
<1>1. Shape'
  BY ChannelType DEF Shape, CloseOld
<1>2. Counted'
  BY CloseCounts DEF Inv, CloseOld
<1>3. Seated'
  BY ChannelType DEF Shape, Seated, Paired, CloseOld
<1>4. Paired'
  BY ChannelType DEF Shape, Seated, Paired, CloseOld
<1>5. Attended'
  BY DEF Shape, Seated, Paired, Attended, Spliced, CloseOld
<1>6. Evicting' /\ Closers'
  BY DEF Shape, Evicting, Closers, Spliced, CloseOld
<1>7. Charged'
  BY ChannelType DEF Shape, Seated, Evicting, Closers, Charged, InCharge, CloseOld, CloseConn
<1>. QED
  BY <1>1, <1>2, <1>3, <1>4, <1>5, <1>6, <1>7

\* The connection is seated on its channel and the armed timer is in charge.
LEMMA WaitInv ==
  ASSUME Inv, NEW c \in Conn, Wait(c)
  PROVE  Inv'
<1>. USE DEF Inv, pairing, service
<1>1. Shape'
  BY ChannelType DEF Shape, Wait, MayPlace
<1>2. Counted'
  BY SameCounts DEF Inv, counters, Wait
<1>3. Seated'
  BY ChannelType DEF Shape, Seated, Paired, Wait, MayPlace
<1>4. Paired'
  BY ChannelType DEF Shape, Seated, Paired, Wait, MayPlace
<1>5. Attended'
  BY DEF Shape, Seated, Paired, Attended, Spliced, Wait, MayPlace
<1>6. Evicting' /\ Closers'
  BY DEF Shape, Evicting, Closers, Spliced, Wait, MayPlace
<1>7. Charged'
  <2>1. open' = open
    BY DEF Wait, counters
  <2>. SUFFICES ASSUME NEW x \in open
                PROVE  handler'[x] # "none" /\ InCharge(x)'
    BY <2>1 DEF Charged
  <2>2. x \in Conn /\ handler[x] # "none" /\ InCharge(x)
    BY DEF Charged, Counted
  <2>3. CASE handler[x] \notin {"none", "gone"}
    BY ChannelType, <2>2, <2>3 DEF Shape, InCharge, Wait, MayPlace
  <2>4. ASSUME NEW e \in Conn, handler[e] = "close", other[e] = x
        PROVE  handler'[x] # "none" /\ InCharge(x)'
    BY ChannelType, <2>2, <2>4 DEF Shape, InCharge, Wait, MayPlace
  <2>5. CASE waiting[ChannelID(x)] = x
    BY ChannelType, <2>2, <2>5 DEF Shape, InCharge, Wait, MayPlace
  <2>6. CASE timer[x] = "close" \/ splice[x] = "run"
    BY ChannelType, <2>2, <2>6 DEF Shape, InCharge, Wait, MayPlace
  <2>7. ASSUME NEW m \in Closer, x \in closer[m].todo
        PROVE  handler'[x] # "none" /\ InCharge(x)'
    BY ChannelType, <2>2, <2>7 DEF Shape, InCharge, Wait, MayPlace
  <2>. QED
    BY <2>2, <2>3, <2>4, <2>5, <2>6, <2>7 DEF InCharge
<1>. QED
  BY <1>1, <1>2, <1>3, <1>4, <1>5, <1>6, <1>7

\* The connection that waits and c are each other's partner from now on, and a
\* splice is in charge of each; the timer of the first has nothing to do.
LEMMA PairInv ==
  ASSUME Inv, NEW c \in Conn, Pair(c)
  PROVE  Inv'
<1>. USE DEF Inv, pairing, service
<1>1. Shape'
  BY ChannelType DEF Shape, Pair, MayPlace
<1>2. Counted'
  BY SameCounts DEF Inv, counters, Pair
<1>3. Seated'
  BY ChannelType DEF Shape, Seated, Paired, Pair, MayPlace
<1>4. Paired'
  BY ChannelType DEF Shape, Seated, Paired, Pair, MayPlace
<1>5. Attended'
  <2>1. PICK d \in Conn : d = waiting[ChannelID(c)]
    BY ChannelType DEF Shape, Pair
  <2>2. c # d /\ partner[c] = Nil /\ partner[d] = Nil
    BY <2>1, ChannelType DEF Shape, Seated, Paired, Pair, MayPlace
  <2>3. /\ active' = active \cup {c, d}
        /\ partner' = [partner EXCEPT ![c] = d, ![d] = c]
        /\ splice' = [splice EXCEPT ![c] = "run", ![d] = "run"]
    BY <2>1 DEF Pair
  <2>4. ASSUME NEW a \in active
        PROVE  a \notin {c, d} /\ partner[a] \notin {c, d} /\ partner[a] \in Spliced
    BY <2>2 DEF Attended, Paired, Shape, Spliced
  <2>5. ASSUME NEW a \in active'
        PROVE  partner'[a] # Nil /\ partner'[a] \in Spliced'
    BY <2>1, <2>2, <2>3, <2>4, <2>5 DEF Shape, Spliced
  <2>. QED
    BY <2>5 DEF Attended
<1>6. Evicting' /\ Closers'
  BY DEF Shape, Evicting, Closers, Spliced, Pair, MayPlace
<1>7. Charged'
  <2>1. open' = open
    BY DEF Pair, counters
  <2>. SUFFICES ASSUME NEW x \in open
                PROVE  handler'[x] # "none" /\ InCharge(x)'
    BY <2>1 DEF Charged
  <2>2. x \in Conn /\ handler[x] # "none" /\ InCharge(x)
    BY DEF Charged, Counted
  <2>3. CASE handler[x] \notin {"none", "gone"}
    BY ChannelType, <2>2, <2>3 DEF Shape, InCharge, Pair, MayPlace
  <2>4. ASSUME NEW e \in Conn, handler[e] = "close", other[e] = x
        PROVE  handler'[x] # "none" /\ InCharge(x)'
    BY ChannelType, <2>2, <2>4 DEF Shape, InCharge, Pair, MayPlace
  <2>5. CASE waiting[ChannelID(x)] = x
    BY ChannelType, <2>2, <2>5 DEF Shape, InCharge, Pair, MayPlace
  <2>6. CASE timer[x] = "close" \/ splice[x] = "run"
    BY ChannelType, <2>2, <2>6 DEF Shape, InCharge, Pair, MayPlace
  <2>7. ASSUME NEW m \in Closer, x \in closer[m].todo
        PROVE  handler'[x] # "none" /\ InCharge(x)'
    BY ChannelType, <2>2, <2>7 DEF Shape, InCharge, Pair, MayPlace
  <2>. QED
    BY <2>2, <2>3, <2>4, <2>5, <2>6, <2>7 DEF InCharge
<1>. QED
  BY <1>1, <1>2, <1>3, <1>4, <1>5, <1>6, <1>7

\* The timer takes the connection off its channel if it still waits there.
LEMMA EvictLateInv ==
  ASSUME Inv, NEW c \in Conn, EvictLate(c)
  PROVE  Inv'
<1>. USE DEF Inv, pairing, service
<1>1. Shape'
  BY ChannelType DEF Shape, EvictLate, Evictable
<1>2. Counted'
  BY SameCounts DEF Inv, counters, EvictLate
<1>3. Seated'
  BY ChannelType DEF Shape, Seated, Paired, EvictLate, Evictable
<1>4. Paired'
  BY ChannelType DEF Shape, Seated, Paired, EvictLate, Evictable
<1>5. Attended'
  BY DEF Shape, Seated, Paired, Attended, Spliced, EvictLate, Evictable
<1>6. Evicting' /\ Closers'
  BY DEF Shape, Evicting, Closers, Spliced, EvictLate, Evictable
<1>7. Charged'
  <2>1. open' = open
    BY DEF EvictLate, counters
  <2>. SUFFICES ASSUME NEW x \in open
                PROVE  handler'[x] # "none" /\ InCharge(x)'
    BY <2>1 DEF Charged
  <2>2. x \in Conn /\ handler[x] # "none" /\ InCharge(x)
    BY DEF Charged, Counted
  <2>3. CASE handler[x] \notin {"none", "gone"}
    BY ChannelType, <2>2, <2>3 DEF Shape, InCharge, EvictLate, Evictable
  <2>4. ASSUME NEW e \in Conn, handler[e] = "close", other[e] = x
        PROVE  handler'[x] # "none" /\ InCharge(x)'
    BY ChannelType, <2>2, <2>4 DEF Shape, InCharge, EvictLate, Evictable
  <2>5. CASE waiting[ChannelID(x)] = x
    BY ChannelType, <2>2, <2>5 DEF Shape, InCharge, EvictLate, Evictable
  <2>6. CASE timer[x] = "close" \/ splice[x] = "run"
    BY ChannelType, <2>2, <2>6 DEF Shape, InCharge, EvictLate, Evictable
  <2>7. ASSUME NEW m \in Closer, x \in closer[m].todo
        PROVE  handler'[x] # "none" /\ InCharge(x)'
    BY ChannelType, <2>2, <2>7 DEF Shape, InCharge, EvictLate, Evictable
  <2>. QED
    BY <2>2, <2>3, <2>4, <2>5, <2>6, <2>7 DEF InCharge
<1>. QED
  BY <1>1, <1>2, <1>3, <1>4, <1>5, <1>6, <1>7

\* The timer closes the connection that it has evicted.
LEMMA CloseLateInv ==
  ASSUME Inv, NEW c \in Conn, CloseLate(c)
  PROVE  Inv'
<1>. USE DEF Inv, pairing, service
<1>1. Shape'
  BY ChannelType DEF Shape, CloseLate
<1>2. Counted'
  BY CloseCounts DEF Inv, CloseLate
<1>3. Seated'
  BY ChannelType DEF Shape, Seated, Paired, CloseLate
<1>4. Paired'
  BY ChannelType DEF Shape, Seated, Paired, CloseLate
<1>5. Attended'
  BY DEF Shape, Seated, Paired, Attended, Spliced, CloseLate
<1>6. Evicting' /\ Closers'
  BY DEF Shape, Evicting, Closers, Spliced, CloseLate
<1>7. Charged'
  BY ChannelType DEF Shape, Seated, Evicting, Closers, Charged, InCharge, CloseLate, CloseConn
<1>. QED
  BY <1>1, <1>2, <1>3, <1>4, <1>5, <1>6, <1>7

\* A splice that fails closes its own end.
LEMMA SpliceFailsInv ==
  ASSUME Inv, NEW c \in Conn, SpliceFails(c)
  PROVE  Inv'
<1>. USE DEF Inv, pairing, service
<1>1. Shape'
  BY ChannelType DEF Shape, SpliceFails
<1>2. Counted'
  BY CloseCounts DEF Inv, SpliceFails
<1>3. Seated'
  BY ChannelType DEF Shape, Seated, Paired, SpliceFails
<1>4. Paired'
  BY ChannelType DEF Shape, Seated, Paired, SpliceFails
<1>5. Attended'
  BY DEF Shape, Seated, Paired, Attended, Spliced, SpliceFails
<1>6. Evicting' /\ Closers'
  BY DEF Shape, Evicting, Closers, Spliced, SpliceFails
<1>7. Charged'
  BY ChannelType DEF Shape, Seated, Evicting, Closers, Charged, InCharge, SpliceFails, CloseConn
<1>. QED
  BY <1>1, <1>2, <1>3, <1>4, <1>5, <1>6, <1>7

\* Then it closes its partner, which may be closed already.
LEMMA SpliceClosesInv ==
  ASSUME Inv, NEW c \in Conn, SpliceCloses(c)
  PROVE  Inv'
<1>. USE DEF Inv, pairing, service
<1>1. Shape'
  BY ChannelType DEF Shape, SpliceCloses
<1>2. Counted'
  BY CloseCounts DEF Inv, SpliceCloses
<1>3. Seated'
  BY ChannelType DEF Shape, Seated, Paired, SpliceCloses
<1>4. Paired'
  BY ChannelType DEF Shape, Seated, Paired, SpliceCloses
<1>5. Attended'
  BY DEF Shape, Seated, Paired, Attended, Spliced, SpliceCloses
<1>6. Evicting' /\ Closers'
  BY DEF Shape, Evicting, Closers, Spliced, SpliceCloses
<1>7. Charged'
  BY ChannelType DEF Shape, Seated, Evicting, Closers, Charged, InCharge, SpliceCloses, CloseConn
<1>. QED
  BY <1>1, <1>2, <1>3, <1>4, <1>5, <1>6, <1>7

\* Both ends are closed when a splice forgets its own.
LEMMA ForgetInv ==
  ASSUME Inv, NEW c \in Conn, Forget(c)
  PROVE  Inv'
<1>. USE DEF Inv, pairing, service
<1>1. Shape'
  BY ChannelType DEF Shape, Forget
<1>2. Counted'
  BY SameCounts DEF Inv, counters, Forget
<1>3. Seated'
  BY ChannelType DEF Shape, Seated, Paired, Forget
<1>4. Paired'
  BY ChannelType DEF Shape, Seated, Paired, Forget
<1>5. Attended'
  BY DEF Shape, Seated, Paired, Attended, Spliced, Forget
<1>6. Evicting' /\ Closers'
  BY DEF Shape, Evicting, Closers, Spliced, Forget
<1>7. Charged'
  BY ChannelType DEF Shape, Seated, Evicting, Closers, Charged, InCharge, Forget, counters
<1>. QED
  BY <1>1, <1>2, <1>3, <1>4, <1>5, <1>6, <1>7

\* Close empties the channels; it is in charge of what was in the maps.
LEMMA CloseBeginInv ==
  ASSUME Inv, NEW k \in Closer, CloseBegin(k)
  PROVE  Inv'
<1>. USE DEF Inv, pairing, service
<1>1. Shape'
  BY ChannelType DEF Shape, CloseBegin, InMap
<1>2. Counted'
  BY SameCounts DEF Inv, counters, CloseBegin
<1>3. Seated'
  BY ChannelType DEF Shape, Seated, Paired, CloseBegin, InMap
<1>4. Paired'
  BY ChannelType DEF Shape, Seated, Paired, CloseBegin, InMap
<1>5. Attended'
  BY DEF Shape, Seated, Paired, Attended, Spliced, CloseBegin, InMap
<1>6. Evicting' /\ Closers'
  BY DEF Shape, Evicting, Closers, Spliced, CloseBegin, InMap
<1>7. Charged'
  <2>1. open' = open
    BY DEF CloseBegin, counters
  <2>. SUFFICES ASSUME NEW x \in open
                PROVE  handler'[x] # "none" /\ InCharge(x)'
    BY <2>1 DEF Charged
  <2>2. x \in Conn /\ handler[x] # "none" /\ InCharge(x)
    BY DEF Charged, Counted
  <2>3. CASE handler[x] \notin {"none", "gone"}
    BY ChannelType, <2>2, <2>3 DEF Shape, InCharge, CloseBegin, InMap
  <2>4. ASSUME NEW e \in Conn, handler[e] = "close", other[e] = x
        PROVE  handler'[x] # "none" /\ InCharge(x)'
    BY ChannelType, <2>2, <2>4 DEF Shape, InCharge, CloseBegin, InMap
  <2>5. CASE waiting[ChannelID(x)] = x
    BY ChannelType, <2>2, <2>5 DEF Shape, InCharge, CloseBegin, InMap
  <2>6. CASE timer[x] = "close" \/ splice[x] = "run"
    BY ChannelType, <2>2, <2>6 DEF Shape, InCharge, CloseBegin, InMap
  <2>7. ASSUME NEW m \in Closer, x \in closer[m].todo
        PROVE  handler'[x] # "none" /\ InCharge(x)'
    BY ChannelType, <2>2, <2>7 DEF Shape, Closers, InCharge, CloseBegin, InMap
  <2>. QED
    BY <2>2, <2>3, <2>4, <2>5, <2>6, <2>7 DEF InCharge
<1>. QED
  BY <1>1, <1>2, <1>3, <1>4, <1>5, <1>6, <1>7

\* A second Close waits only.
LEMMA CloseJoinInv ==
  ASSUME Inv, NEW k \in Closer, CloseJoin(k)
  PROVE  Inv'
<1>. USE DEF Inv, pairing, service
<1>1. Shape'
  BY ChannelType DEF Shape, CloseJoin
<1>2. Counted'
  BY SameCounts DEF Inv, counters, CloseJoin
<1>3. Seated'
  BY ChannelType DEF Shape, Seated, Paired, CloseJoin
<1>4. Paired'
  BY ChannelType DEF Shape, Seated, Paired, CloseJoin
<1>5. Attended'
  BY DEF Shape, Seated, Paired, Attended, Spliced, CloseJoin
<1>6. Evicting' /\ Closers'
  BY DEF Shape, Evicting, Closers, Spliced, CloseJoin
<1>7. Charged'
  BY ChannelType DEF Shape, Seated, Evicting, Closers, Charged, InCharge, CloseJoin, counters
<1>. QED
  BY <1>1, <1>2, <1>3, <1>4, <1>5, <1>6, <1>7

\* Close closes one connection of its list.
LEMMA CloseNextInv ==
  ASSUME Inv, NEW k \in Closer, CloseNext(k)
  PROVE  Inv'
<1>. USE DEF Inv, pairing, service
<1>1. Shape'
  BY ChannelType DEF Shape, CloseNext
<1>2. Counted'
  BY CloseCounts DEF Inv, CloseNext
<1>3. Seated'
  BY ChannelType DEF Shape, Seated, Paired, CloseNext
<1>4. Paired'
  BY ChannelType DEF Shape, Seated, Paired, CloseNext
<1>5. Attended'
  BY DEF Shape, Seated, Paired, Attended, Spliced, CloseNext
<1>6. Evicting' /\ Closers'
  BY DEF Shape, Evicting, Closers, Spliced, CloseNext
<1>7. Charged'
  BY ChannelType DEF Shape, Seated, Evicting, Closers, Charged, InCharge, CloseNext, CloseConn
<1>. QED
  BY <1>1, <1>2, <1>3, <1>4, <1>5, <1>6, <1>7

\* The listener is closed after the whole list.
LEMMA CloseListenerInv ==
  ASSUME Inv, NEW k \in Closer, CloseListener(k)
  PROVE  Inv'
<1>. USE DEF Inv, pairing, service
<1>1. Shape'
  <2>1. closer' \in [Closer -> [pc : {"idle", "closing", "joining", "returned"}, todo : SUBSET Conn]]
    BY DEF Shape, CloseListener
  <2>2. UNCHANGED <<handler, other, timer, waiting, active, partner, splice, closed>>
    BY DEF CloseListener
  <2>3. listening' \in BOOLEAN
    BY DEF CloseListener
  <2>. QED
    BY <2>1, <2>2, <2>3, Zenon DEF Shape
<1>2. Counted'
  BY SameCounts DEF Inv, counters, CloseListener
<1>3. Seated'
  BY ChannelType DEF Shape, Seated, Paired, CloseListener
<1>4. Paired'
  BY ChannelType DEF Shape, Seated, Paired, CloseListener
<1>5. Attended'
  BY DEF Shape, Seated, Paired, Attended, Spliced, CloseListener
<1>6. Evicting' /\ Closers'
  BY DEF Shape, Evicting, Closers, Spliced, CloseListener
<1>7. Charged'
  BY ChannelType DEF Shape, Seated, Evicting, Closers, Charged, InCharge, CloseListener, counters
<1>. QED
  BY <1>1, <1>2, <1>3, <1>4, <1>5, <1>6, <1>7

\* Close returns once no splice runs.
LEMMA CloseReturnInv ==
  ASSUME Inv, NEW k \in Closer, CloseReturn(k)
  PROVE  Inv'
<1>. USE DEF Inv, pairing, service
<1>1. Shape'
  BY ChannelType DEF Shape, CloseReturn
<1>2. Counted'
  BY SameCounts DEF Inv, counters, CloseReturn
<1>3. Seated'
  BY ChannelType DEF Shape, Seated, Paired, CloseReturn
<1>4. Paired'
  BY ChannelType DEF Shape, Seated, Paired, CloseReturn
<1>5. Attended'
  BY DEF Shape, Seated, Paired, Attended, Spliced, CloseReturn
<1>6. Evicting' /\ Closers'
  BY DEF Shape, Evicting, Closers, Spliced, CloseReturn
<1>7. Charged'
  BY ChannelType DEF Shape, Seated, Evicting, Closers, Charged, InCharge, CloseReturn, counters
<1>. QED
  BY <1>1, <1>2, <1>3, <1>4, <1>5, <1>6, <1>7
-----------------------------------------------------------------------------
\* The invariant is inductive.
LEMMA NextInv ==
  ASSUME Inv, [Next]_vars
  PROVE  Inv'
<1>1. CASE UNCHANGED vars
  <2>1. Shape' /\ Seated' /\ Paired' /\ Attended' /\ Evicting' /\ Closers'
    BY <1>1 DEF vars, Inv, Shape, Seated, Paired, Attended, Evicting, Closers, Spliced
  <2>2. Counted'
    BY <1>1, SameCounts DEF vars, Inv, counters
  <2>3. Charged'
    BY <1>1 DEF vars, Inv, Charged, InCharge
  <2>. QED
    BY <2>1, <2>2, <2>3 DEF Inv
<1>2. ASSUME NEW c \in Conn, Admit(c) \/ Refuse(c) \/ Handling(c)
      PROVE  Inv'
  BY <1>2, AdmitInv, RefuseInv, HandshakeFailsInv, HandshakeDoneInv, TurnAwayInv, ReconnectInv,
     EvictOldInv, CloseOldInv, WaitInv, PairInv DEF Handling
<1>3. ASSUME NEW c \in Conn, Timing(c) \/ SpliceFails(c) \/ Winding(c)
      PROVE  Inv'
  BY <1>3, EvictLateInv, CloseLateInv, SpliceFailsInv, SpliceClosesInv, ForgetInv
     DEF Timing, Winding
<1>4. ASSUME NEW k \in Closer, CloseBegin(k) \/ CloseJoin(k) \/ Closing(k)
      PROVE  Inv'
  BY <1>4, CloseBeginInv, CloseJoinInv, CloseNextInv, CloseListenerInv, CloseReturnInv DEF Closing
<1>. QED
  BY <1>1, <1>2, <1>3, <1>4 DEF Next

\* The invariant holds in every state of the relay service.
THEOREM InvHolds == Spec => []Inv
  BY InitInv, NextInv, PTL DEF Spec

\* Every state of the relay service is well typed; in particular the counters of
\* admit never go below zero, however many goroutines close one connection.
THEOREM RelayTypes == Spec => []TypeOK
<1>1. Inv => TypeOK
  BY OpenFinite DEF Inv, Shape, Counted, TypeOK
<1>. QED
  BY <1>1, InvHolds, PTL

\* Never more sockets are open than admit's limits allow, in total and from one
\* IP, because the counters are exact: the Close of a limitedConn gives its slot
\* back once.
THEOREM LimitsHold == Spec => []LimitsKept
<1>1. Inv => LimitsKept
  BY DEF Inv, Counted, From, LimitsKept
<1>. QED
  BY <1>1, InvHolds, PTL

\* No open connection is lost by evictions, reconnections, splices and Close, and
\* nothing waits, is active or is spliced once Close has returned.
THEOREM NothingLeaks == Spec => []NoLeak
<1>1. Inv => NoLeak
  <2>. SUFFICES ASSUME Inv PROVE NoLeak
    OBVIOUS
  <2>1. \A c \in open : InCharge(c)
    BY DEF Inv, Charged
  <2>2. ASSUME NEW k \in Closer, closer[k].pc = "returned"
        PROVE  active \cup InMap \cup Spliced = {}
    <3>1. Spliced = {} /\ closed
      BY <2>2 DEF Inv, Closers
    <3>2. InMap = {}
      BY <3>1 DEF Inv, Closers, InMap
    <3>3. active = {}
      BY <3>1 DEF Inv, Attended
    <3>. QED
      BY <3>1, <3>2, <3>3
  <2>. QED
    BY <2>1, <2>2 DEF NoLeak
<1>. QED
  BY <1>1, InvHolds, PTL

\* handleConn splices connections in pairs: the partner of a connection is another
\* one, has it as its own partner and is on its channel, so that no frame reaches
\* a third connection or a peer that was not asked for; no connection is spliced
\* twice.
THEOREM PairsMatch == Spec => []Paired
<1>1. Inv => Paired
  BY DEF Inv
<1>. QED
  BY <1>1, InvHolds, PTL

\* A spliced connection keeps its partner for good, and once the service is closed
\* nothing is spliced or waits any more: what Close collects under the lock is all
\* there will ever be to close.
ClosedStays ==
  /\ \A c \in Conn : partner[c] # Nil => partner'[c] = partner[c]
  /\ closed => /\ closed'
               /\ \A ch \in Channel : waiting'[ch] = Nil
               /\ partner' = partner /\ Spliced' \subseteq Spliced /\ active' \subseteq active

\* handleConn checks closed under the lock before it places a connection, and
\* Close sets it there: nothing is placed afterwards.
THEOREM NothingAfterClose == Spec => [][ClosedStays]_vars
<1>1. Inv /\ [Next]_vars => [ClosedStays]_vars
  <2>. SUFFICES ASSUME Inv, Inv', Next PROVE ClosedStays
    BY NextInv
  <2>1. ASSUME NEW c \in Conn, Pair(c)
        PROVE  ClosedStays
    <3>1. ~closed
      BY <2>1 DEF Pair, MayPlace
    <3>2. waiting[ChannelID(c)] \in Conn /\ partner[waiting[ChannelID(c)]] = Nil
      BY <2>1, ChannelType DEF Inv, Shape, Seated, Pair
    <3>3. partner[c] = Nil
      BY <2>1 DEF Inv, Paired, Pair, MayPlace
    <3>. QED
      BY <2>1, <3>1, <3>2, <3>3 DEF ClosedStays, Pair, Inv, Shape
  <2>2. ASSUME NEW c \in Conn, SpliceFails(c) \/ Winding(c)
        PROVE  ClosedStays
    BY <2>2 DEF SpliceFails, Winding, SpliceCloses, Forget, ClosedStays, Inv, Shape, Closers,
                Spliced, service
  <2>3. ASSUME pairing' = pairing, closed' = closed \/ closed' = TRUE
        PROVE  ClosedStays
    BY <2>3 DEF pairing, ClosedStays, Inv, Closers, Spliced
  <2>4. ASSUME NEW c \in Conn, Admit(c) \/ Refuse(c) \/ Timing(c)
        PROVE  ClosedStays
    BY <2>3, <2>4 DEF Admit, Refuse, Timing, EvictLate, CloseLate, service
  <2>5. ASSUME NEW c \in Conn, Handling(c), ~Pair(c)
        PROVE  ClosedStays
    BY <2>3, <2>5 DEF Handling, HandshakeFails, HandshakeDone, TurnAway, Reconnect, EvictOld,
                      CloseOld, Wait, service
  <2>6. ASSUME NEW k \in Closer, CloseBegin(k) \/ CloseJoin(k) \/ Closing(k)
        PROVE  ClosedStays
    BY <2>3, <2>6 DEF CloseBegin, CloseJoin, Closing, CloseNext, CloseListener, CloseReturn
  <2>. QED
    BY <2>1, <2>2, <2>4, <2>5, <2>6 DEF Next
<1>. QED
  BY <1>1, InvHolds, PTL DEF Spec
=============================================================================
