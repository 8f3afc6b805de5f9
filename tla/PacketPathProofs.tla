-------------------------- MODULE PacketPathProofs --------------------------
(***************************************************************************)
(* What a packet has to pass on its way from the socket to the TUN device: *)
(* the replay window of its session, for every window size, number of      *)
(* readers and rekey threshold; access control, for any number of          *)
(* connections and any set of policies; and the peer table both ends of    *)
(* the way are looked up in, for every set of peers, addresses, endpoints, *)
(* names and entries.                                                      *)
(***************************************************************************)
EXTENDS Session, AclGate, PeerTable, TLAPS

(* The session: no packet is handed on twice *)

USE WindowAssumption, ThresholdAssumption

\* A product with a positive factor is at least the other, positive, factor.
LEMMA ProductGrows ==
  ASSUME NEW w \in Nat \ {0}, NEW d \in Int, d >= 1
  PROVE  w * d >= w
<1>1. PICK e \in Nat : d = e + 1
  OBVIOUS
<1>2. w * (e + 1) = w * e + w
  OBVIOUS
<1>3. w * e >= 0
  OBVIOUS
<1>4. QED
  BY <1>1, <1>2, <1>3

\* Two nonces less than a window apart never share a position of the bitmap.
LEMMA PositionsDiffer ==
  ASSUME NEW m \in Nat, NEW n \in Nat, m < n, n - m < WindowSize
  PROVE  m % WindowSize # n % WindowSize
<1> DEFINE W == WindowSize
           a == m \div W
           b == n \div W
<1>1. /\ a \in Int /\ b \in Int
      /\ m = W * a + (m % W)
      /\ n = W * b + (n % W)
  OBVIOUS
<1> HIDE DEF a, b
<1>2. SUFFICES ASSUME m % W = n % W PROVE FALSE
  OBVIOUS
<1>3. n - m = W * b - W * a
  BY <1>1, <1>2
<1>4. W * b - W * a = W * (b - a)
  BY <1>1
<1>5. CASE b - a >= 1
  BY <1>1, <1>3, <1>4, <1>5, ProductGrows
<1>6. CASE a - b >= 0
  <2>1. W * (a - b) >= 0
    BY <1>1, <1>6
  <2>2. W * (b - a) = -(W * (a - b))
    BY <1>1
  <2>3. n - m = -(W * (a - b))
    BY <1>3, <1>4, <2>2
  <2>4. PICK x \in Int : x = W * (a - b)
    BY <1>1
  <2>5. QED
    BY <2>1, <2>3, <2>4
<1>7. QED
  BY <1>1, <1>5, <1>6
-----------------------------------------------------------------------------
(***************************************************************************)
(* The window.  BitsExact ties the bits of the positions in the window to  *)
(* what was handed on, the step the sliding of the window could break.     *)
(***************************************************************************)
InWindow(w, n) == n <= w.max /\ w.max - n < WindowSize

BitsExact ==
  /\ ~window.inited => /\ \A i \in Position : ~window.bitmap[i]
                       /\ \A n \in Nonce : delivered[n] = 0
  /\ \A n \in Nonce : delivered[n] > 0 => n <= window.max
  /\ window.inited => \A n \in Nonce : InWindow(window, n) =>
       (GetBit(window, n) <=> delivered[n] = 1)

Inv == TypeOK /\ NoReplay /\ BitsExact

\* A position of the bitmap is a number below the window size.
LEMMA PositionType ==
  ASSUME NEW n \in Nat
  PROVE  n % WindowSize \in Position
  BY DEF Position

\* Accepting a nonce keeps the window's type, sets the nonce's bit, and keeps
\* the other bits of the window.
LEMMA MarkedWindow ==
  ASSUME NEW w \in Window, NEW n \in Nat, Check(w, n),
         ~w.inited => \A i \in Position : ~w.bitmap[i]
  PROVE  /\ Marked(w, n) \in Window
         /\ Marked(w, n).inited
         /\ Marked(w, n).max >= n
         /\ w.inited => Marked(w, n).max >= w.max
         /\ GetBit(Marked(w, n), n)
         /\ \A m \in Nat : m # n /\ InWindow(Marked(w, n), m) =>
              (GetBit(Marked(w, n), m) <=>
                 w.inited /\ m <= w.max /\ GetBit(w, m))
<1> DEFINE v == Marked(w, n)
           stale == IF w.inited /\ n > w.max THEN Cleared(w, n) ELSE {}
<1>1. /\ v.inited
      /\ v.max = IF w.inited /\ n <= w.max THEN w.max ELSE n
      /\ v.bitmap = [i \in Position |->
           i = n % WindowSize \/ (w.bitmap[i] /\ i \notin stale)]
      /\ v \in Window
  BY DEF Marked, Window
<1> HIDE DEF v, stale
<1>2. w.max \in Nat /\ w.bitmap \in [Position -> BOOLEAN] /\ w.inited \in BOOLEAN
  BY DEF Window
<1>3. \A m \in Nat : GetBit(v, m) <=>
        \/ m % WindowSize = n % WindowSize
        \/ w.bitmap[m % WindowSize] /\ m % WindowSize \notin stale
  BY <1>1, PositionType DEF GetBit
<1>4. \A m \in Nat : GetBit(w, m) <=> w.bitmap[m % WindowSize]
  BY DEF GetBit
<1>5. ASSUME NEW m \in Nat, m # n, InWindow(v, m)
      PROVE  GetBit(v, m) <=> w.inited /\ m <= w.max /\ GetBit(w, m)
  <2>1. m <= v.max /\ v.max - m < WindowSize /\ v.max \in Nat
    BY <1>1, <1>2, <1>5 DEF InWindow
  <2>2. m % WindowSize # n % WindowSize
    <3>1. CASE m < n
      <4>1. n - m < WindowSize
        BY <1>1, <1>2, <2>1
      <4>2. QED
        BY <3>1, <4>1, PositionsDiffer
    <3>2. CASE n < m
      <4>1. w.inited /\ n < w.max /\ v.max = w.max
        BY <1>1, <1>2, <2>1, <3>2
      <4>2. w.max - n < WindowSize
        BY <1>2, <4>1 DEF Check
      <4>3. m - n < WindowSize
        BY <1>2, <2>1, <4>1, <4>2
      <4>4. QED
        BY <3>2, <4>3, PositionsDiffer
    <3>3. QED
      BY <1>5, <3>1, <3>2
  <2>3. CASE ~w.inited
    BY <1>3, <2>2, <2>3, PositionType
  <2>4. CASE w.inited /\ n <= w.max
    <3>1. stale = {} /\ m <= w.max
      BY <1>1, <1>2, <2>1, <2>4 DEF stale
    <3>2. QED
      BY <1>3, <1>4, <2>2, <2>4, <3>1
  <2>5. CASE w.inited /\ n > w.max /\ m > w.max
    <3>1. m < n /\ v.max = n
      BY <1>1, <1>2, <1>5, <2>1, <2>5
    <3>2. m % WindowSize \in stale
      <4>1. CASE n - w.max >= WindowSize
        BY <2>5, <4>1, PositionType DEF stale, Cleared
      <4>2. CASE ~(n - w.max >= WindowSize)
        <5>1. m - w.max \in 1 .. (n - w.max) /\ w.max + (m - w.max) = m
          BY <1>2, <2>5, <3>1
        <5>2. QED
          BY <2>5, <4>2, <5>1 DEF stale, Cleared
      <4>3. QED
        BY <4>1, <4>2
    <3>3. QED
      BY <1>2, <1>3, <2>2, <2>5, <3>2
  <2>6. CASE w.inited /\ n > w.max /\ m <= w.max
    <3>1. v.max = n /\ n - m < WindowSize /\ m < n
      BY <1>1, <1>2, <2>1, <2>6
    <3>2. n - w.max < WindowSize
      BY <1>2, <2>6, <3>1
    <3>3. \A i \in 1 .. (n - w.max) : m % WindowSize # (w.max + i) % WindowSize
      <4>1. SUFFICES ASSUME NEW i \in 1 .. (n - w.max)
                     PROVE  m % WindowSize # (w.max + i) % WindowSize
        OBVIOUS
      <4>2. /\ w.max + i \in Nat /\ m < w.max + i
            /\ (w.max + i) - m < WindowSize
        BY <1>2, <2>6, <3>1
      <4>3. QED
        BY <4>2, PositionsDiffer
    <3>4. m % WindowSize \notin stale
      BY <1>2, <2>6, <3>2, <3>3 DEF stale, Cleared
    <3>5. QED
      BY <1>3, <1>4, <2>2, <2>6, <3>4
  <2>7. QED
    BY <1>2, <2>3, <2>4, <2>5, <2>6
<1>6. v.max >= n /\ (w.inited => v.max >= w.max)
  BY <1>1, <1>2
<1>7. GetBit(v, n)
  BY <1>3
<1>8. QED
  BY <1>1, <1>5, <1>6, <1>7 DEF v

\* The initial window is empty.
LEMMA InitInv == Init => Inv
  BY DEF Init, Inv, TypeOK, NoReplay, BitsExact, Window, ReaderState, Idle

\* Only Mark moves the window, and it hands a packet on when it sets a new bit.
LEMMA StepInv == Inv /\ [Next]_vars => Inv'
<1> SUFFICES ASSUME Inv, [Next]_vars PROVE Inv'
  OBVIOUS
<1>1. TypeOK /\ NoReplay /\ BitsExact
  BY DEF Inv
<1>2. CASE UNCHANGED <<window, delivered>> /\ TypeOK'
  BY <1>1, <1>2 DEF Inv, NoReplay, BitsExact
<1>3. CASE Encrypt
  BY <1>1, <1>2, <1>3 DEF Encrypt, TypeOK, Nonce
<1>4. ASSUME NEW r \in Reader, NEW n \in 0 .. RekeyThreshold, NEW genuine \in BOOLEAN,
             Look(r, n, genuine)
      PROVE  Inv'
  BY <1>1, <1>2, <1>4 DEF Look, TypeOK, ReaderState, Nonce
<1>5. ASSUME NEW r \in Reader, AuthFails(r) PROVE Inv'
  BY <1>1, <1>2, <1>5 DEF AuthFails, TypeOK, ReaderState, Idle
<1>6. ASSUME NEW r \in Reader, Mark(r) PROVE Inv'
  <2> DEFINE n == reader[r].nonce
  <2>1. n \in Nonce /\ n \in Nat
    BY <1>1, <1>6 DEF Mark, TypeOK, Nonce
  <2>2. reader' \in [Reader -> ReaderState]
    BY <1>1, <1>6 DEF Mark, TypeOK, ReaderState, Idle
  <2>3. \A q \in Reader : reader'[q].pc = "opening" => reader'[q].nonce \in Nonce
    BY <1>1, <1>6 DEF Mark, TypeOK, Idle
  <2>4. CASE ~Check(window, n) /\ UNCHANGED <<window, delivered>>
    BY <1>1, <1>2, <1>6, <2>2, <2>3, <2>4 DEF Mark, TypeOK
  <2>5. CASE /\ Check(window, n)
             /\ window' = Marked(window, n)
             /\ delivered' = [delivered EXCEPT ![n] = @ + 1]
    <3>1. ~window.inited => \A i \in Position : ~window.bitmap[i]
      BY <1>1 DEF BitsExact
    <3>2. window \in Window
      BY <1>1 DEF TypeOK
    <3>3. /\ window' \in Window
          /\ window'.inited
          /\ window'.max >= n
          /\ window.inited => window'.max >= window.max
          /\ GetBit(window', n)
          /\ \A m \in Nat : m # n /\ InWindow(window', m) =>
               (GetBit(window', m) <=>
                  window.inited /\ m <= window.max /\ GetBit(window, m))
      BY <2>1, <2>5, <3>1, <3>2, MarkedWindow
    <3>4. delivered[n] = 0
      <4>1. CASE ~window.inited
        BY <1>1, <2>1, <4>1 DEF BitsExact
      <4>2. CASE window.inited /\ n > window.max
        BY <1>1, <2>1, <3>2, <4>2 DEF BitsExact, TypeOK, Window
      <4>3. CASE window.inited /\ ~(n > window.max)
        <5>1. InWindow(window, n) /\ ~GetBit(window, n)
          BY <2>1, <2>5, <3>2, <4>3 DEF InWindow, Check, Window
        <5>2. delivered[n] # 1 /\ delivered[n] <= 1 /\ delivered[n] \in Nat
          BY <1>1, <2>1, <4>3, <5>1 DEF BitsExact, NoReplay, TypeOK
        <5>3. QED
          BY <5>2
      <4>4. QED
        BY <4>1, <4>2, <4>3
    <3>5. /\ delivered' \in [Nonce -> Nat]
          /\ delivered'[n] = 1
          /\ \A m \in Nonce : m # n => delivered'[m] = delivered[m]
      BY <1>1, <2>1, <2>5, <3>4 DEF TypeOK
    <3>6. TypeOK'
      BY <1>1, <1>6, <2>2, <2>3, <3>3, <3>5 DEF Mark, TypeOK
    <3>7. NoReplay'
      BY <1>1, <3>5 DEF NoReplay
    <3>8. \A m \in Nonce : delivered'[m] > 0 => m <= window'.max
      <4>1. SUFFICES ASSUME NEW m \in Nonce, delivered'[m] > 0 PROVE m <= window'.max
        OBVIOUS
      <4>2. CASE m = n
        BY <3>3, <4>2
      <4>3. CASE m # n
        <5>1. delivered[m] > 0 /\ m <= window.max
          BY <1>1, <3>5, <4>1, <4>3 DEF BitsExact
        <5>2. window.inited
          BY <1>1, <5>1 DEF BitsExact
        <5>3. QED
          BY <3>2, <3>3, <5>1, <5>2 DEF Window, Nonce
      <4>4. QED
        BY <4>2, <4>3
    <3>9. \A m \in Nonce : InWindow(window', m) =>
            (GetBit(window', m) <=> delivered'[m] = 1)
      <4>1. SUFFICES ASSUME NEW m \in Nonce, InWindow(window', m)
                     PROVE  GetBit(window', m) <=> delivered'[m] = 1
        OBVIOUS
      <4>2. CASE m = n
        BY <3>3, <3>5, <4>2
      <4>3. CASE m # n /\ window.inited /\ m <= window.max
        <5>1. InWindow(window, m)
          BY <3>2, <3>3, <4>1, <4>3 DEF InWindow, Window, Nonce
        <5>2. GetBit(window, m) <=> delivered[m] = 1
          BY <1>1, <4>3, <5>1 DEF BitsExact
        <5>3. QED
          BY <3>3, <3>5, <4>1, <4>3, <5>2 DEF Nonce
      <4>4. CASE m # n /\ ~(window.inited /\ m <= window.max)
        <5>1. delivered[m] = 0
          BY <1>1, <4>4 DEF BitsExact, TypeOK
        <5>2. ~GetBit(window', m)
          BY <3>3, <4>1, <4>4 DEF Nonce
        <5>3. QED
          BY <3>5, <4>4, <5>1, <5>2
      <4>5. QED
        BY <4>2, <4>3, <4>4
    <3>10. QED
      BY <3>3, <3>6, <3>7, <3>8, <3>9 DEF Inv, BitsExact
  <2>6. QED
    BY <1>6, <2>4, <2>5 DEF Mark
<1>7. CASE UNCHANGED vars
  BY <1>1, <1>2, <1>7 DEF vars, TypeOK
<1>8. QED
  BY <1>3, <1>4, <1>5, <1>6, <1>7 DEF Next, LookRejects

\* The invariant holds throughout.
LEMMA InvCorrect == Spec => []Inv
  BY InitInv, StepInv, PTL DEF Spec

\* The session's state keeps its type and no nonce reaches the rekey threshold.
THEOREM SessionTypes == Spec => []TypeOK
<1>1. Inv => TypeOK
  BY DEF Inv
<1>2. QED
  BY <1>1, InvCorrect, PTL

\* No packet is handed on twice.
THEOREM NothingReplayed == Spec => []NoReplay
<1>1. Inv => NoReplay
  BY DEF Inv
<1>2. QED
  BY <1>1, InvCorrect, PTL

\* The window refuses only what was handed on or is too old.
THEOREM WindowCorrect == Spec => []WindowExact
<1>1. ASSUME Inv, NEW n \in Nonce
      PROVE  Check(window, n) <=>
               /\ delivered[n] = 0
               /\ window.inited => n > window.max - WindowSize
  <2>1. /\ window.max \in Nat /\ window.inited \in BOOLEAN /\ n \in Nat
        /\ delivered[n] \in Nat /\ delivered[n] <= 1
    BY <1>1 DEF Inv, TypeOK, Window, Nonce, NoReplay
  <2>2. CASE ~window.inited
    BY <1>1, <2>2 DEF Check, Inv, BitsExact
  <2>3. CASE window.inited /\ n > window.max
    BY <1>1, <2>1, <2>3 DEF Check, Inv, BitsExact
  <2>4. CASE window.inited /\ n <= window.max
    BY <1>1, <2>1, <2>4 DEF Check, Inv, BitsExact, InWindow
  <2>5. QED
    BY <2>1, <2>2, <2>3, <2>4
<1>2. Inv => WindowExact
  BY <1>1 DEF WindowExact
<1>3. QED
  BY <1>2, InvCorrect, PTL

-----------------------------------------------------------------------------
(* Access control: no inbound packet passes on a flow that no allowed inbound *)
(* start has opened *)

\* What a call of the table asks follows from the packet its loop has in hand.
CallsMatch ==
  /\ \A t \in Caller : packet[t].kind = "none" => call[t] = NoCall
  /\ call["udp"].at = "called" =>
       /\ call["udp"].conn = packet["udp"].conn
       /\ call["udp"].req \in Request("udp")
       /\ call["udp"].req.make => packet["udp"].kind = "Start"
  /\ call["tun"].at = "called" => call["tun"].req \in Request("tun")

\* An established flow has been opened, or is about to be noted as opened by
\* the start udpLoop has in hand.
EstablishedOpened ==
  \A c \in Conn : table[c] = "Established" =>
    \/ c \in opened
    \/ /\ packet["udp"].kind = "Start" /\ packet["udp"].conn = c
       /\ call["udp"].at = "returned"

\* The lookup of a packet that is about to pass has found an opened flow.
FoundOpened ==
  /\ packet["udp"].kind \in {"Other", "End"} /\ call["udp"].at = "returned"
       /\ call["udp"].result = "Established" => packet["udp"].opened
  /\ packet["udp"].kind = "Ending" => packet["udp"].opened

GateInv == GateTypeOK /\ CallsMatch /\ EstablishedOpened /\ FoundOpened /\ AdmittedOnly

-----------------------------------------------------------------------------
\* What each loop asks of the flow table.
LEMMA RequestShape ==
  ASSUME NEW t \in Caller, NEW r \in Request(t)
  PROVE  /\ r \in Requests
         /\ r.op \in {"lookup", "update"} /\ r.make \in BOOLEAN /\ r.state \in State
         /\ r.make => r.op = "lookup"
         /\ r.op = "lookup" /\ ~r.make => r.state = "New"
         /\ r.op = "update" => r.state = "Closing"
         /\ t = "tun" => r.op = "lookup" /\ r.state = "New"
BY DEF Request, Requests, State

\* A call is idle, pending with its arguments, or returned with a result.
LEMMA CallShape ==
  ASSUME NEW k \in Call
  PROVE  \/ k = NoCall /\ k.at = "idle"
         \/ k.at = "called" /\ k.conn \in Conn /\ k.req \in Requests
         \/ k.at = "returned" /\ k.result \in State \cup {"none"}
BY DEF Call, NoCall, Pending, Answer

\* The fields of a pending call.
LEMMA PendingShape ==
  ASSUME NEW c \in Conn, NEW r \in Requests
  PROVE  /\ Pending(c, r) \in Call
         /\ Pending(c, r).at = "called" /\ Pending(c, r).conn = c /\ Pending(c, r).req = r
BY DEF Call, Pending

\* The fields of a returned call.
LEMMA AnswerShape ==
  ASSUME NEW s \in State \cup {"none"}
  PROVE  Answer(s) \in Call /\ Answer(s).at = "returned" /\ Answer(s).result = s
BY DEF Call, Answer

\* An idle loop is in no call.
LEMMA NoCallShape == NoCall \in Call /\ NoCall.at = "idle"
BY DEF Call, NoCall

\* The inductive invariant holds at the start.
LEMMA InitGate == GateInit => GateInv
<1> SUFFICES ASSUME GateInit PROVE GateInv OBVIOUS
<1>1. GateTypeOK
  BY NoCallShape, PolicyAssumption DEF GateInit, GateTypeOK, MapInit, MapTypeOK
<1>2. CallsMatch /\ EstablishedOpened /\ FoundOpened /\ AdmittedOnly
  BY NoCallShape DEF GateInit, MapInit, CallsMatch, EstablishedOpened, FoundOpened,
     AdmittedOnly, NoVerdict, NoPacket, Caller
<1> QED BY <1>1, <1>2 DEF GateInv

\* Every step of the two loops, the table and the loader preserves it.
LEMMA StepGate == GateInv /\ [GateNext]_gateVars => GateInv'
<1> SUFFICES ASSUME GateInv, [GateNext]_gateVars PROVE GateInv'
  OBVIOUS
<1> USE DEF GateInv
<1>t. /\ "tun" \in Caller /\ "udp" \in Caller /\ "tun" # "udp" /\ Caller = {"tun", "udp"}
      /\ table \in [Conn -> State \cup {"none"}] /\ call \in [Caller -> Call]
      /\ packet \in [Caller -> Packet \cup {NoPacket}]
      /\ opened \subseteq Conn
  BY DEF GateTypeOK, MapTypeOK, Caller
<1>n. NoPacket.kind = "none" /\ NoVerdict.dir = "none"
  BY DEF NoPacket, NoVerdict
<1>f. ASSUME NEW c \in Conn, NEW k \in Kind
      PROVE  /\ Fresh(c, k) \in Packet /\ Fresh(c, k).conn = c /\ Fresh(c, k).kind = k
  BY DEF Fresh, Packet
<1>1. ASSUME NEW c \in Conn, NEW k \in Kind, TunPacket(c, k)
      PROVE  GateInv'
  <2>1. /\ UNCHANGED <<table, call, policy, opened>>
        /\ packet' \in [Caller -> Packet \cup {NoPacket}]
        /\ packet'["udp"] = packet["udp"] /\ packet["tun"] = NoPacket
        /\ verdict' = NoVerdict \/ verdict' \in [dir : {"out"}, packet : Packet, pass : BOOLEAN]
    <3>1. CASE Hold("tun", Fresh(c, k)) BY <1>1, <3>1, <1>t, <1>f DEF TunPacket, Hold
    <3>2. CASE Judge("tun", Fresh(c, k), Decide("out", c))
      <4>1. Decide("out", c) \in BOOLEAN BY DEF Decide
      <4>2. packet' = [packet EXCEPT !["tun"] = NoPacket]
            /\ verdict' = [dir |-> "out", packet |-> Fresh(c, k), pass |-> Decide("out", c)]
        BY <3>2 DEF Judge, Direction
      <4> QED BY <1>1, <4>1, <4>2, <1>t, <1>f DEF TunPacket
    <3> QED BY <1>1, <3>1, <3>2 DEF TunPacket
  <2>2. GateTypeOK' BY <2>1 DEF GateTypeOK, MapTypeOK, Dir
  <2>3. CallsMatch' /\ EstablishedOpened' /\ FoundOpened'
    BY <2>1, <1>t, <1>n DEF CallsMatch, EstablishedOpened, FoundOpened
  <2>4. AdmittedOnly' BY <2>1, <1>n DEF AdmittedOnly
  <2> QED BY <2>2, <2>3, <2>4
<1>2. ASSUME NEW c \in Conn, NEW k \in Kind, UdpPacket(c, k)
      PROVE  GateInv'
  <2>1. /\ UNCHANGED <<table, call, policy, opened>>
        /\ packet["udp"] = NoPacket
        /\ packet' \in [Caller -> Packet \cup {NoPacket}]
        /\ packet'["udp"] \in {Fresh(c, k), NoPacket} /\ packet'["tun"] = packet["tun"]
        /\ \/ verdict' = NoVerdict
           \/ verdict' \in [dir : {"in"}, packet : Packet, pass : {FALSE}]
    <3>1. CASE Hold("udp", Fresh(c, k)) BY <1>2, <3>1, <1>t, <1>f DEF UdpPacket, Hold
    <3>2. CASE Judge("udp", Fresh(c, k), FALSE)
      <4>1. packet' = [packet EXCEPT !["udp"] = NoPacket]
            /\ verdict' = [dir |-> "in", packet |-> Fresh(c, k), pass |-> FALSE]
        BY <3>2 DEF Judge, Direction
      <4> QED BY <1>2, <4>1, <1>t, <1>f DEF UdpPacket
    <3> QED BY <1>2, <3>1, <3>2 DEF UdpPacket
  <2>2. GateTypeOK' BY <2>1 DEF GateTypeOK, MapTypeOK, Dir
  <2>3. call["udp"] = NoCall BY <2>1, <1>n, <1>t DEF CallsMatch
  <2>4. packet'["udp"].kind # "Ending" BY <2>1, <1>n, <1>f DEF Kind
  <2>5. CallsMatch' BY <2>1, <2>3, <1>t, NoCallShape DEF CallsMatch
  <2>6. EstablishedOpened' BY <2>1, <2>3, NoCallShape DEF EstablishedOpened
  <2>7. FoundOpened' BY <2>1, <2>3, <2>4, NoCallShape DEF FoundOpened
  <2>8. AdmittedOnly' BY <2>1, <1>n DEF AdmittedOnly, NoVerdict
  <2> QED BY <2>2, <2>5, <2>6, <2>7, <2>8
<1>3. CASE TunLookup
  <2> PICK r \in Request("tun") : Begin("tun", packet["tun"].conn, r)
    BY <1>3 DEF TunLookup
  <2>1. packet["tun"].conn \in Conn BY <1>3, <1>t DEF TunLookup, Packet
  <2>2. r \in Requests BY RequestShape, <1>t
  <2>3. /\ UNCHANGED <<table, policy, packet, opened>> /\ verdict' = NoVerdict
        /\ call' = [call EXCEPT !["tun"] = Pending(packet["tun"].conn, r)]
    BY <1>3 DEF TunLookup, Begin
  <2>4. call' \in [Caller -> Call] /\ call'["udp"] = call["udp"]
        /\ call'["tun"] = Pending(packet["tun"].conn, r)
    BY <2>1, <2>2, <2>3, <1>t, PendingShape
  <2>5. GateTypeOK' BY <2>3, <2>4 DEF GateTypeOK, MapTypeOK
  <2>0. packet["tun"].kind # "none" BY <1>3, <1>t DEF TunLookup, Packet, Kind
  <2>6. CallsMatch' BY <2>0, <2>1, <2>2, <2>3, <2>4, <1>t, PendingShape DEF CallsMatch
  <2>7. EstablishedOpened' /\ FoundOpened' BY <2>3, <2>4 DEF EstablishedOpened, FoundOpened
  <2>8. AdmittedOnly' BY <2>3, <1>n DEF AdmittedOnly
  <2> QED BY <2>5, <2>6, <2>7, <2>8
<1>4. ASSUME NEW r \in Request("udp"), Begin("udp", packet["udp"].conn, r),
             packet["udp"].kind \in Kind \cup {"Ending"},
             r.make => packet["udp"].kind = "Start",
             UNCHANGED <<policy, packet, opened>>, verdict' = NoVerdict
      PROVE  GateInv'
  <2>1. packet["udp"].conn \in Conn BY <1>4, <1>t, <1>n DEF Packet, Kind
  <2>2. r \in Requests BY RequestShape, <1>t
  <2>3. /\ UNCHANGED table /\ call["udp"] = NoCall
        /\ call' = [call EXCEPT !["udp"] = Pending(packet["udp"].conn, r)]
    BY <1>4 DEF Begin
  <2>4. call' \in [Caller -> Call] /\ call'["tun"] = call["tun"]
        /\ call'["udp"] = Pending(packet["udp"].conn, r)
    BY <2>1, <2>2, <2>3, <1>t, PendingShape
  <2>5. GateTypeOK' BY <1>4, <2>3, <2>4 DEF GateTypeOK, MapTypeOK
  <2>6. CallsMatch' BY <1>4, <2>1, <2>2, <2>3, <2>4, <1>t, PendingShape DEF CallsMatch, Kind
  <2>7. EstablishedOpened' /\ FoundOpened'
    BY <1>4, <2>1, <2>2, <2>3, <2>4, PendingShape, NoCallShape DEF EstablishedOpened, FoundOpened
  <2>8. AdmittedOnly' BY <1>4, <1>n DEF AdmittedOnly
  <2> QED BY <2>5, <2>6, <2>7, <2>8
<1>5. CASE UdpLookup \/ EndUpdates
  <2>1. CASE UdpLookup BY <1>4, <2>1 DEF UdpLookup
  <2>2. CASE EndUpdates BY <1>4, <2>2, RequestShape, <1>t DEF EndUpdates
  <2> QED BY <1>5, <2>1, <2>2
<1>6. ASSUME NEW t \in Caller, TableActs(t)
      PROVE  GateInv'
  <2> DEFINE c == call[t].conn
             r == call[t].req
             after == CASE table[c] # "none" -> Touched(r, table[c])
                        [] table[c] = "none" /\ r.make -> r.state
                        [] OTHER -> "none"
             p == [packet[t] EXCEPT !.opened = @ \/ packet[t].conn \in opened]
  <2>1. /\ call[t].at = "called"
        /\ table' = [table EXCEPT ![c] = after] /\ call' = [call EXCEPT ![t] = Answer(after)]
        /\ packet' = [packet EXCEPT ![t] = p] /\ verdict' = NoVerdict
        /\ UNCHANGED <<policy, opened>>
    BY <1>6 DEF TableActs, Act, Hold
  <2>2. c \in Conn /\ r \in Request(t)
    BY <2>1, <1>t, CallShape DEF CallsMatch, NoCall
  <2>3. after \in State \cup {"none"}
    BY <2>2, <1>t, RequestShape DEF Touched
  <2>4. packet[t] \in Packet
    BY <2>1, <1>t, <1>n, NoCallShape DEF CallsMatch
  <2>5. p \in Packet /\ p.kind = packet[t].kind /\ p.conn = packet[t].conn
        /\ (packet[t].conn \in opened \/ packet[t].opened => p.opened)
    <3> DEFINE o == packet[t].opened \/ packet[t].conn \in opened
    <3>1. o \in BOOLEAN OBVIOUS
    <3>2. packet[t].conn \in opened \/ packet[t].opened => o OBVIOUS
    <3>3. p = [packet[t] EXCEPT !.opened = o] OBVIOUS
    <3> HIDE DEF o, p
    <3>4. p \in Packet /\ p.kind = packet[t].kind /\ p.conn = packet[t].conn /\ p.opened = o
      BY <2>4, <3>1, <3>3 DEF Packet
    <3> QED BY <3>2, <3>4
  <2>6. /\ table' \in [Conn -> State \cup {"none"}] /\ call' \in [Caller -> Call]
        /\ packet' \in [Caller -> Packet \cup {NoPacket}]
        /\ call'[t] = Answer(after) /\ packet'[t] = p /\ table'[c] = after
        /\ \A u \in Caller \ {t} : call'[u] = call[u] /\ packet'[u] = packet[u]
        /\ \A d \in Conn \ {c} : table'[d] = table[d]
    BY <2>1, <2>2, <2>3, <2>5, <1>t, AnswerShape
  <2> HIDE DEF after, p
  <2>7. GateTypeOK' BY <2>1, <2>6 DEF GateTypeOK, MapTypeOK
  <2>8. CallsMatch'
    BY <2>1, <2>3, <2>4, <2>5, <2>6, <1>t, AnswerShape DEF CallsMatch, Packet, Kind
  <2>9. after = "Established" => table[c] = "Established" \/ (t = "udp" /\ r.make)
    BY <2>2, <1>t, RequestShape DEF after, Touched
  <2>10. EstablishedOpened'
    <3> SUFFICES ASSUME NEW d \in Conn, table'[d] = "Established"
                 PROVE  \/ d \in opened'
                        \/ /\ packet'["udp"].kind = "Start" /\ packet'["udp"].conn = d
                           /\ call'["udp"].at = "returned"
      BY DEF EstablishedOpened
    <3>1. CASE table[d] = "Established"
      BY <3>1, <2>1, <2>3, <2>5, <2>6, <1>t, AnswerShape DEF EstablishedOpened
    <3>2. CASE table[d] # "Established"
      <4>1. d = c /\ t = "udp" /\ r.make BY <3>2, <2>6, <2>9
      <4> QED BY <4>1, <2>1, <2>3, <2>5, <2>6, AnswerShape DEF CallsMatch
    <3> QED BY <3>1, <3>2
  <2>11. FoundOpened'
    <3>1. CASE t = "tun" BY <3>1, <2>6, <1>t DEF FoundOpened
    <3>2. CASE t = "udp"
      <4>1. packet["udp"].kind \in {"Other", "End"} /\ after = "Established" => p.opened
        BY <3>2, <2>1, <2>2, <2>5, <2>9 DEF CallsMatch, EstablishedOpened
      <4> QED BY <3>2, <4>1, <2>3, <2>5, <2>6, AnswerShape DEF FoundOpened
    <3> QED BY <3>1, <3>2, <1>t
  <2>12. AdmittedOnly' BY <2>1, <1>n DEF AdmittedOnly
  <2> QED BY <2>7, <2>8, <2>10, <2>11, <2>12
<1>7. ASSUME NEW c \in Conn, TableDrops(c)
      PROVE  GateInv'
  <2>1. /\ UNCHANGED <<call, policy, packet>> /\ verdict' = NoVerdict
        /\ table' = [table EXCEPT ![c] = "none"]
        /\ opened' = opened \ {c}
    BY <1>7 DEF TableDrops, Drop
  <2>2. GateTypeOK' BY <2>1, <1>t DEF GateTypeOK, MapTypeOK
  <2>3. CallsMatch' /\ FoundOpened' BY <2>1 DEF CallsMatch, FoundOpened
  <2>4. EstablishedOpened' BY <2>1, <1>t DEF EstablishedOpened
  <2>5. AdmittedOnly' BY <2>1, <1>n DEF AdmittedOnly
  <2> QED BY <2>2, <2>3, <2>4, <2>5
<1>8. ASSUME NEW t \in Caller, NEW pass \in BOOLEAN, Judge(t, packet[t], pass), Return(t),
             packet[t].kind # "none", UNCHANGED policy,
             opened' \subseteq Conn, opened \subseteq opened',
             t = "udp" /\ packet[t].kind = "Start" /\ table[packet[t].conn] = "Established"
               => packet[t].conn \in opened',
             t = "udp" /\ packet[t].kind # "Start" /\ pass => packet[t].opened
      PROVE  GateInv'
  <2>1. packet[t] \in Packet BY <1>8, <1>t, <1>n
  <2>2. /\ UNCHANGED table
        /\ call' \in [Caller -> Call] /\ packet' \in [Caller -> Packet \cup {NoPacket}]
        /\ call'[t] = NoCall /\ packet'[t] = NoPacket
        /\ \A u \in Caller \ {t} : call'[u] = call[u] /\ packet'[u] = packet[u]
    BY <1>8, <1>t, NoCallShape DEF Return, Judge
  <2>3. verdict' = [dir |-> Direction(t), packet |-> packet[t], pass |-> pass]
    BY <1>8 DEF Judge
  <2>4. GateTypeOK' BY <1>8, <2>1, <2>2, <2>3 DEF GateTypeOK, MapTypeOK, Direction, Dir
  <2>5. CallsMatch' BY <2>2, <1>t, <1>n, NoCallShape DEF CallsMatch
  <2>6. EstablishedOpened' BY <1>8, <2>2, <1>t DEF EstablishedOpened
  <2>7. FoundOpened' BY <2>2, <1>t, <1>n DEF FoundOpened
  <2>8. AdmittedOnly' BY <1>8, <2>3, <1>t DEF AdmittedOnly, Direction
  <2> QED BY <2>4, <2>5, <2>6, <2>7, <2>8
<1>9. ASSUME NEW t \in Caller, StartPasses(t)
      PROVE  GateInv'
  <2>1. /\ Judge(t, packet[t], TRUE) /\ Return(t) /\ UNCHANGED policy
        /\ packet[t].kind = "Start"
    BY <1>9 DEF StartPasses
  <2>2. packet[t].conn \in Conn BY <2>1, <1>t, <1>n DEF Packet
  <2>3. /\ opened' \subseteq Conn /\ opened \subseteq opened'
        /\ t = "udp" /\ table[packet[t].conn] = "Established" => packet[t].conn \in opened'
    BY <1>9, <2>2, <1>t DEF StartPasses
  <2> QED BY <1>8, <2>1, <2>3
<1>10. CASE OtherJudged \/ EndDropped \/ EndPasses
  <2>1. UNCHANGED <<policy, opened>> /\ opened' \subseteq Conn
    BY <1>10, <1>t DEF OtherJudged, EndDropped, EndPasses
  <2>2. CASE OtherJudged
    <3>1. Belongs(call["udp"].result) => packet["udp"].opened
      BY <2>2 DEF OtherJudged, Return, Belongs, FoundOpened
    <3> QED BY <1>8, <2>1, <2>2, <3>1, <1>t DEF OtherJudged, Belongs
  <2>3. CASE EndDropped BY <1>8, <2>1, <2>3, <1>t DEF EndDropped
  <2>4. CASE EndPasses BY <1>8, <2>1, <2>4, <1>t DEF EndPasses, FoundOpened
  <2> QED BY <1>10, <2>2, <2>3, <2>4
<1>11. CASE EndBelongs
  <2> DEFINE p == [packet["udp"] EXCEPT !.kind = "Ending"]
  <2>1. /\ UNCHANGED <<table, policy, opened>> /\ verdict' = NoVerdict
        /\ packet["udp"].kind = "End" /\ packet["udp"].opened
        /\ call' = [call EXCEPT !["udp"] = NoCall] /\ packet' = [packet EXCEPT !["udp"] = p]
    BY <1>11 DEF EndBelongs, Return, Hold, Belongs, FoundOpened
  <2>2. p \in Packet /\ p.kind = "Ending" /\ p.opened BY <2>1, <1>t, <1>n DEF Packet
  <2>3. /\ call' \in [Caller -> Call] /\ packet' \in [Caller -> Packet \cup {NoPacket}]
        /\ call'["udp"] = NoCall /\ packet'["udp"] = p
        /\ call'["tun"] = call["tun"] /\ packet'["tun"] = packet["tun"]
    BY <2>1, <2>2, <1>t, NoCallShape
  <2> HIDE DEF p
  <2>4. GateTypeOK' BY <2>1, <2>3 DEF GateTypeOK, MapTypeOK
  <2>5. CallsMatch' BY <2>3, <1>t, NoCallShape DEF CallsMatch
  <2>6. EstablishedOpened' BY <2>1, <2>3 DEF EstablishedOpened
  <2>7. FoundOpened' BY <2>2, <2>3, NoCallShape DEF FoundOpened
  <2>8. AdmittedOnly' BY <2>1, <1>n DEF AdmittedOnly
  <2> QED BY <2>4, <2>5, <2>6, <2>7, <2>8
<1>12. ASSUME NEW p \in Policy, Reload(p)
       PROVE  GateInv'
  <2>1. /\ UNCHANGED <<table, call, packet, opened>> /\ verdict' = NoVerdict
        /\ policy' = p
    BY <1>12 DEF Reload
  <2>2. GateTypeOK' BY <2>1, PolicyAssumption DEF GateTypeOK, MapTypeOK
  <2>3. CallsMatch' /\ FoundOpened' /\ EstablishedOpened'
    BY <2>1 DEF CallsMatch, FoundOpened, EstablishedOpened
  <2>4. AdmittedOnly' BY <2>1, <1>n DEF AdmittedOnly
  <2> QED BY <2>2, <2>3, <2>4
<1>13. CASE UNCHANGED gateVars
  BY <1>13 DEF gateVars, GateTypeOK, MapTypeOK, CallsMatch, EstablishedOpened, FoundOpened, AdmittedOnly
<1> QED BY <1>1, <1>2, <1>3, <1>5, <1>6, <1>7, <1>9, <1>10, <1>11, <1>12, <1>13 DEF GateNext

\* The inductive invariant holds in every reachable state.
LEMMA GateInvariant == GateSpec => []GateInv
BY InitGate, StepGate, PTL DEF GateSpec

-----------------------------------------------------------------------------
\* The flow states, the calls, the packets in hand and the history of the
\* dispatcher's access control always have their types.
THEOREM GateTypes == GateSpec => []GateTypeOK
BY GateInvariant, PTL DEF GateInv

\* handleUDPPacket hands a packet that starts nothing to the TUN device only on
\* a flow that an allowed inbound start has opened and that has been in the
\* table ever since, for all connections, policies and reloads.
THEOREM OnlyAdmitted == GateSpec => []AdmittedOnly
BY GateInvariant, PTL DEF GateInv
-----------------------------------------------------------------------------
(* The peer table: every index leads to the entry that has its key *)

USE LowerAssumption, SlotAssumption

(***************************************************************************)
(* What the slot helpers return.                                           *)
(***************************************************************************)
\* Unindex empties the slot of the key if it points at r and leaves the others.
LEMMA UnindexSlots ==
  ASSUME NEW K, NEW idx \in [K -> Slot], NEW key, NEW r \in Slot
  PROVE  /\ Unindex(idx, key, r) \in [K -> Slot]
         /\ \A j \in K : Unindex(idx, key, r)[j] =
              IF r # NoRef /\ j = key /\ idx[j] = r THEN NoRef ELSE idx[j]
  BY DEF Unindex, Slot

\* Take gives r the slot of the key unless another peer's entry has it.
LEMMA TakeSlots ==
  ASSUME NEW K, NEW idx \in [K -> Slot], NEW key, NEW r \in Ref, NEW p
  PROVE  /\ Take(idx, key, r, p) \in [K -> Slot]
         /\ \A j \in K : Take(idx, key, r, p)[j] =
              IF j = key /\ (idx[j] = NoRef \/ heap[idx[j]].id = p) THEN r ELSE idx[j]
  BY DEF Take, Slot

\* The label of no name is no label.
LEMMA LabelOfType ==
  ASSUME NEW nm \in Name \cup {NoName}
  PROVE  LabelOf(nm) \in Label \cup {NoName}
  BY DEF LabelOf
-----------------------------------------------------------------------------
(***************************************************************************)
(* The index invariant.                                                    *)
(***************************************************************************)
TableInv == TableTypeOK /\ IndexSound /\ Routable

\* Upsert, slot by slot: what the indexes hold is what they held before, with
\* nothing left that points at the replaced entry.
LEMMA UpsertSlots ==
  ASSUME TableInv, NEW p \in Peer, NEW a \in Addr \cup {NoAddr},
         NEW nm \in Name \cup {NoName}, NEW ep \in Endpoint \cup {NoEndpoint},
         NEW r \in Ref, Upsert(p, a, nm, ep, r)
  PROVE  /\ TableTypeOK'
         /\ \A b \in Addr : byVPN'[b] =
              IF b = a THEN r
              ELSE IF byID[p] # NoRef /\ byVPN[b] = byID[p] THEN NoRef ELSE byVPN[b]
         /\ \A d \in Endpoint : \/ byEndpoint'[d] = r /\ d = ep
                                \/ byEndpoint'[d] = NoRef
                                \/ byEndpoint'[d] = byEndpoint[d] /\ byEndpoint[d] # byID[p]
         /\ \A l \in Label :
              \/ byName'[l] = r /\ l = LabelOf(nm) /\ (byName[l] = NoRef \/ byName[l] = byID[p])
              \/ byName'[l] = NoRef /\ (byName[l] = NoRef \/ byName[l] = byID[p])
              \/ byName'[l] = byName[l] /\ byName[l] # byID[p]
<1> DEFINE old == byID[p]
           e == IF old = NoRef THEN heap[r] ELSE heap[old]
           vpn == Unindex(byVPN, e.vpn, old)
           eps == Unindex(byEndpoint, e.endpoint, old)
           nms == Unindex(byName, LabelOf(e.name), old)
<1>1. /\ byVPN' = IF a = NoAddr THEN vpn ELSE [vpn EXCEPT ![a] = r]
      /\ byEndpoint' = Take(eps, ep, r, p)
      /\ byName' = Take(nms, LabelOf(nm), r, p)
      /\ byID' = [byID EXCEPT ![p] = r]
      /\ heap' = [heap EXCEPT ![r] = [id |-> p, vpn |-> a, name |-> nm, endpoint |-> ep]]
      /\ Unreferenced(r) /\ ~AddrHeld(p, a)
  BY DEF Upsert
<1>2. TableTypeOK /\ IndexSound /\ Routable /\ old \in Slot
  BY DEF TableInv, TableTypeOK
<1>3. /\ vpn \in [Addr -> Slot]
      /\ \A b \in Addr : vpn[b] = IF old # NoRef /\ b = e.vpn /\ byVPN[b] = old
                                  THEN NoRef ELSE byVPN[b]
  BY <1>2, UnindexSlots DEF TableTypeOK
<1>4. /\ eps \in [Endpoint -> Slot]
      /\ \A d \in Endpoint : eps[d] = IF old # NoRef /\ d = e.endpoint /\ byEndpoint[d] = old
                                      THEN NoRef ELSE byEndpoint[d]
  BY <1>2, UnindexSlots DEF TableTypeOK
<1>5. /\ nms \in [Label -> Slot]
      /\ \A l \in Label : nms[l] = IF old # NoRef /\ l = LabelOf(e.name) /\ byName[l] = old
                                   THEN NoRef ELSE byName[l]
  BY <1>2, UnindexSlots DEF TableTypeOK
<1>6. /\ \A b \in Addr : old # NoRef /\ byVPN[b] = old => b = e.vpn
      /\ \A d \in Endpoint : old # NoRef /\ byEndpoint[d] = old => d = e.endpoint
      /\ \A l \in Label : old # NoRef /\ byName[l] = old => l = LabelOf(e.name)
  BY <1>2 DEF IndexSound
<1> HIDE DEF vpn, eps, nms, e
<1>7. TableTypeOK'
  <2>1. byVPN' \in [Addr -> Slot]
    BY <1>1, <1>3 DEF Slot
  <2>2. byEndpoint' \in [Endpoint -> Slot]
    BY <1>1, <1>4, TakeSlots
  <2>3. byName' \in [Label -> Slot]
    BY <1>1, <1>5, TakeSlots
  <2>4. byID' \in [Peer -> Slot] /\ heap' \in [Ref -> Entry]
    BY <1>1, <1>2 DEF TableTypeOK, Slot, Entry
  <2>5. QED
    BY <2>1, <2>2, <2>3, <2>4 DEF TableTypeOK
<1>8. \A b \in Addr : byVPN'[b] =
        IF b = a THEN r ELSE IF old # NoRef /\ byVPN[b] = old THEN NoRef ELSE byVPN[b]
  BY <1>1, <1>3, <1>6
<1>9. \A d \in Endpoint : \/ byEndpoint'[d] = r /\ d = ep
                          \/ byEndpoint'[d] = NoRef
                          \/ byEndpoint'[d] = byEndpoint[d] /\ byEndpoint[d] # old
  <2>1. SUFFICES ASSUME NEW d \in Endpoint
                 PROVE  \/ byEndpoint'[d] = r /\ d = ep
                        \/ byEndpoint'[d] = NoRef
                        \/ byEndpoint'[d] = byEndpoint[d] /\ byEndpoint[d] # old
    OBVIOUS
  <2>2. byEndpoint'[d] = IF d = ep /\ (eps[d] = NoRef \/ heap[eps[d]].id = p)
                         THEN r ELSE eps[d]
    BY <1>1, <1>4, TakeSlots
  <2>3. QED
    BY <1>4, <1>6, <2>2
<1>10. \A l \in Label :
         \/ byName'[l] = r /\ l = LabelOf(nm) /\ (byName[l] = NoRef \/ byName[l] = old)
         \/ byName'[l] = NoRef /\ (byName[l] = NoRef \/ byName[l] = old)
         \/ byName'[l] = byName[l] /\ byName[l] # old
  <2>1. SUFFICES ASSUME NEW l \in Label
                 PROVE  \/ byName'[l] = r /\ l = LabelOf(nm) /\ (byName[l] = NoRef \/ byName[l] = old)
                        \/ byName'[l] = NoRef /\ (byName[l] = NoRef \/ byName[l] = old)
                        \/ byName'[l] = byName[l] /\ byName[l] # old
    OBVIOUS
  <2>2. byName'[l] = IF l = LabelOf(nm) /\ (nms[l] = NoRef \/ heap[nms[l]].id = p)
                     THEN r ELSE nms[l]
    BY <1>1, <1>5, TakeSlots
  <2>3. nms[l] = IF old # NoRef /\ byName[l] = old THEN NoRef ELSE byName[l]
    BY <1>5, <1>6
  <2>4. byName[l] # NoRef /\ heap[byName[l]].id = p => byName[l] = old
    BY <1>2 DEF IndexSound, Current
  <2>5. QED
    BY <2>2, <2>3, <2>4
<1>11. QED
  BY <1>7, <1>8, <1>9, <1>10

\* SetEndpoint, slot by slot.
LEMMA EndpointSlots ==
  ASSUME TableInv, NEW p \in Peer, NEW ep \in Endpoint \cup {NoEndpoint},
         NEW claim \in BOOLEAN, SetEndpoint(p, ep, claim)
  PROVE  /\ TableTypeOK'
         /\ UNCHANGED <<byID, byVPN, byName>>
         /\ \A r \in Ref : /\ heap'[r].id = heap[r].id
                           /\ heap'[r].vpn = heap[r].vpn
                           /\ heap'[r].name = heap[r].name
                           /\ heap'[r].endpoint = IF r = byID[p] THEN ep
                                ELSE IF r = Owner(ep) THEN NoEndpoint
                                ELSE heap[r].endpoint
         /\ \A d \in Endpoint : byEndpoint'[d] =
              IF d = ep THEN byID[p]
              ELSE IF byEndpoint[d] = byID[p] THEN NoRef ELSE byEndpoint[d]
<1> DEFINE rest == Unindex(byEndpoint, heap[byID[p]].endpoint, byID[p])
<1>1. /\ byID[p] # NoRef
      /\ heap' = [r \in Ref |->
           IF r = byID[p] THEN [heap[r] EXCEPT !.endpoint = ep]
           ELSE IF r = Owner(ep) THEN [heap[r] EXCEPT !.endpoint = NoEndpoint]
           ELSE heap[r]]
      /\ byEndpoint' = IF ep = NoEndpoint THEN rest ELSE [rest EXCEPT ![ep] = byID[p]]
      /\ UNCHANGED <<byID, byVPN, byName>>
  BY DEF SetEndpoint
<1>2. TableTypeOK /\ IndexSound /\ byID[p] \in Slot
  BY DEF TableInv, TableTypeOK
<1>3. /\ rest \in [Endpoint -> Slot]
      /\ \A d \in Endpoint : rest[d] =
           IF d = heap[byID[p]].endpoint /\ byEndpoint[d] = byID[p]
           THEN NoRef ELSE byEndpoint[d]
  BY <1>1, <1>2, UnindexSlots DEF TableTypeOK
<1>4. \A d \in Endpoint : byEndpoint[d] = byID[p] => d = heap[byID[p]].endpoint
  BY <1>1, <1>2 DEF IndexSound
<1> HIDE DEF rest
<1>5. heap' \in [Ref -> Entry]
  BY <1>1, <1>2 DEF TableTypeOK, Entry
<1>6. byEndpoint' \in [Endpoint -> Slot]
  BY <1>1, <1>2, <1>3
<1>7. TableTypeOK'
  BY <1>1, <1>2, <1>5, <1>6 DEF TableTypeOK
<1>8. \A r \in Ref : /\ heap'[r].id = heap[r].id
                     /\ heap'[r].vpn = heap[r].vpn
                     /\ heap'[r].name = heap[r].name
                     /\ heap'[r].endpoint = IF r = byID[p] THEN ep
                          ELSE IF r = Owner(ep) THEN NoEndpoint
                          ELSE heap[r].endpoint
  BY <1>1, <1>2 DEF TableTypeOK, Entry
<1>9. \A d \in Endpoint : byEndpoint'[d] =
        IF d = ep THEN byID[p] ELSE IF byEndpoint[d] = byID[p] THEN NoRef ELSE byEndpoint[d]
  BY <1>1, <1>3, <1>4
<1>10. QED
  BY <1>1, <1>7, <1>8, <1>9

\* Remove leaves nothing behind that points at the removed entry.
LEMMA RemoveSlots ==
  ASSUME TableInv, NEW p \in Peer, Remove(p)
  PROVE  /\ TableTypeOK' /\ UNCHANGED heap /\ byID[p] # NoRef
         /\ byID' = [byID EXCEPT ![p] = NoRef]
         /\ \A b \in Addr : byVPN'[b] = IF byVPN[b] = byID[p] THEN NoRef ELSE byVPN[b]
         /\ \A d \in Endpoint : byEndpoint'[d] =
              IF byEndpoint[d] = byID[p] THEN NoRef ELSE byEndpoint[d]
         /\ \A l \in Label : byName'[l] = IF byName[l] = byID[p] THEN NoRef ELSE byName[l]
<1> DEFINE e == byID[p]
<1>1. /\ e # NoRef
      /\ byID' = [byID EXCEPT ![p] = NoRef]
      /\ byVPN' = Unindex(byVPN, heap[e].vpn, e)
      /\ byEndpoint' = Unindex(byEndpoint, heap[e].endpoint, e)
      /\ byName' = Unindex(byName, LabelOf(heap[e].name), e)
      /\ UNCHANGED heap
  BY DEF Remove
<1>2. TableTypeOK /\ IndexSound /\ e \in Slot
  BY DEF TableInv, TableTypeOK
<1>3. /\ byVPN' \in [Addr -> Slot]
      /\ \A b \in Addr : byVPN'[b] = IF b = heap[e].vpn /\ byVPN[b] = e
                                     THEN NoRef ELSE byVPN[b]
  BY <1>1, <1>2, UnindexSlots DEF TableTypeOK
<1>4. /\ byEndpoint' \in [Endpoint -> Slot]
      /\ \A d \in Endpoint : byEndpoint'[d] = IF d = heap[e].endpoint /\ byEndpoint[d] = e
                                              THEN NoRef ELSE byEndpoint[d]
  BY <1>1, <1>2, UnindexSlots DEF TableTypeOK
<1>5. /\ byName' \in [Label -> Slot]
      /\ \A l \in Label : byName'[l] = IF l = LabelOf(heap[e].name) /\ byName[l] = e
                                       THEN NoRef ELSE byName[l]
  BY <1>1, <1>2, UnindexSlots DEF TableTypeOK
<1>6. /\ \A b \in Addr : byVPN[b] = e => b = heap[e].vpn
      /\ \A d \in Endpoint : byEndpoint[d] = e => d = heap[e].endpoint
      /\ \A l \in Label : byName[l] = e => l = LabelOf(heap[e].name)
  BY <1>1, <1>2 DEF IndexSound
<1>7. TableTypeOK'
  BY <1>1, <1>2, <1>3, <1>4, <1>5 DEF TableTypeOK, Slot
<1>8. QED
  BY <1>1, <1>3, <1>4, <1>5, <1>6, <1>7

\* Every method of the table keeps the indexes sound and complete.
LEMMA TableStep == TableInv /\ [TableNext]_tableVars => TableInv'
<1> SUFFICES ASSUME TableInv, [TableNext]_tableVars PROVE TableInv'
  OBVIOUS
<1>0. TableTypeOK /\ IndexSound /\ Routable
  BY DEF TableInv
<1>1. ASSUME NEW p \in Peer, NEW a \in Addr \cup {NoAddr},
             NEW nm \in Name \cup {NoName}, NEW ep \in Endpoint \cup {NoEndpoint},
             NEW r \in Ref, Upsert(p, a, nm, ep, r)
      PROVE  TableInv'
  <2>1. /\ byID' = [byID EXCEPT ![p] = r]
        /\ heap' = [heap EXCEPT ![r] = [id |-> p, vpn |-> a, name |-> nm, endpoint |-> ep]]
        /\ Unreferenced(r) /\ ~AddrHeld(p, a)
    BY <1>1 DEF Upsert
  <2>2. /\ heap'[r] = [id |-> p, vpn |-> a, name |-> nm, endpoint |-> ep]
        /\ \A x \in Ref \ {r} : heap'[x] = heap[x]
        /\ byID'[p] = r
        /\ \A q \in Peer \ {p} : byID'[q] = byID[q]
    BY <1>0, <2>1 DEF TableTypeOK
  <2>3. ASSUME NEW x \in Ref, Current(x), x # byID[p], x # r
        PROVE  Current(x)' /\ heap'[x] = heap[x]
    <3>1. heap[x].id \in Peer /\ heap[x].id # p
      BY <1>0, <2>3 DEF TableTypeOK, Entry, Current
    <3>2. QED
      BY <2>2, <2>3, <3>1 DEF Current
  <2>4. Current(r)'
    BY <2>2 DEF Current
  <2>5. TableTypeOK'
    BY <1>1, UpsertSlots
  <2>6. \A q \in Peer : byID'[q] # NoRef => heap'[byID'[q]].id = q
    BY <1>0, <2>1, <2>2 DEF IndexSound, TableTypeOK, Slot, Unreferenced
  <2>7. \A b \in Addr : byVPN'[b] # NoRef => Current(byVPN[b])' /\ heap'[byVPN'[b]].vpn = b
    <3>1. SUFFICES ASSUME NEW b \in Addr, byVPN'[b] # NoRef
                   PROVE  Current(byVPN[b])' /\ heap'[byVPN'[b]].vpn = b
      OBVIOUS
    <3>2. \/ byVPN'[b] = r /\ b = a
          \/ byVPN'[b] = byVPN[b] /\ byVPN[b] # byID[p]
      BY <1>1, <3>1, UpsertSlots
    <3>3. byVPN[b] # r
      BY <2>1 DEF Unreferenced
    <3>4. byVPN'[b] # r => byVPN[b] \in Ref /\ Current(byVPN[b]) /\ heap[byVPN[b]].vpn = b
      BY <1>0, <3>1, <3>2 DEF IndexSound, TableTypeOK, Slot
    <3>5. QED
      BY <2>2, <2>3, <2>4, <3>2, <3>3, <3>4
  <2>8. \A d \in Endpoint : byEndpoint'[d] # NoRef =>
          Current(byEndpoint[d])' /\ heap'[byEndpoint'[d]].endpoint = d
    <3>1. SUFFICES ASSUME NEW d \in Endpoint, byEndpoint'[d] # NoRef
                   PROVE  Current(byEndpoint[d])' /\ heap'[byEndpoint'[d]].endpoint = d
      OBVIOUS
    <3>2. \/ byEndpoint'[d] = r /\ d = ep
          \/ byEndpoint'[d] = byEndpoint[d] /\ byEndpoint[d] # byID[p]
      BY <1>1, <3>1, UpsertSlots
    <3>3. byEndpoint[d] # r
      BY <2>1 DEF Unreferenced
    <3>4. byEndpoint'[d] # r =>
            byEndpoint[d] \in Ref /\ Current(byEndpoint[d]) /\ heap[byEndpoint[d]].endpoint = d
      BY <1>0, <3>1, <3>2 DEF IndexSound, TableTypeOK, Slot
    <3>5. QED
      BY <2>2, <2>3, <2>4, <3>2, <3>3, <3>4
  <2>9. \A l \in Label : byName'[l] # NoRef =>
          Current(byName[l])' /\ LabelOf(heap'[byName'[l]].name) = l
    <3>1. SUFFICES ASSUME NEW l \in Label, byName'[l] # NoRef
                   PROVE  Current(byName[l])' /\ LabelOf(heap'[byName'[l]].name) = l
      OBVIOUS
    <3>2. \/ byName'[l] = r /\ l = LabelOf(nm)
          \/ byName'[l] = byName[l] /\ byName[l] # byID[p]
      BY <1>1, <3>1, UpsertSlots
    <3>3. byName[l] # r
      BY <2>1 DEF Unreferenced
    <3>4. byName'[l] # r =>
            byName[l] \in Ref /\ Current(byName[l]) /\ LabelOf(heap[byName[l]].name) = l
      BY <1>0, <3>1, <3>2 DEF IndexSound, TableTypeOK, Slot
    <3>5. QED
      BY <2>2, <2>3, <2>4, <3>2, <3>3, <3>4
  <2>10. Routable'
    <3>1. SUFFICES ASSUME NEW q \in Peer, byID'[q] # NoRef, heap'[byID'[q]].vpn # NoAddr
                   PROVE  byVPN'[heap'[byID'[q]].vpn] = byID'[q]
      BY DEF Routable
    <3>2. CASE q = p
      <4>1. heap'[byID'[q]].vpn = a /\ a \in Addr
        BY <2>2, <3>1, <3>2
      <4>2. QED
        BY <1>1, <2>2, <3>2, <4>1, UpsertSlots
    <3>3. CASE q # p
      <4>1. byID'[q] = byID[q] /\ byID[q] \in Ref /\ byID[q] # r
        BY <1>0, <2>1, <2>2, <3>1, <3>3 DEF TableTypeOK, Slot, Unreferenced
      <4>2. PICK b \in Addr : b = heap[byID[q]].vpn /\ heap'[byID'[q]].vpn = b
        BY <1>0, <2>2, <3>1, <4>1 DEF TableTypeOK, Entry
      <4>3. byVPN[b] = byID[q]
        BY <1>0, <3>1, <4>1, <4>2 DEF Routable
      <4>4. heap[byID[q]].id = q
        BY <1>0, <4>1 DEF IndexSound
      <4>5. b # a
        BY <2>1, <3>3, <4>1, <4>3, <4>4 DEF AddrHeld
      <4>6. byVPN[b] # byID[p]
        BY <1>0, <3>3, <4>1, <4>3, <4>4 DEF IndexSound
      <4>7. QED
        BY <1>1, <4>1, <4>2, <4>3, <4>5, <4>6, UpsertSlots
    <3>4. QED
      BY <3>2, <3>3
  <2>11. QED
    BY <2>5, <2>6, <2>7, <2>8, <2>9, <2>10 DEF TableInv, IndexSound
<1>2. ASSUME NEW p \in Peer, NEW ep \in Endpoint \cup {NoEndpoint},
             NEW claim \in BOOLEAN, SetEndpoint(p, ep, claim)
      PROVE  TableInv'
  <2>1. byID[p] \in Ref /\ heap[byID[p]].id = p
    BY <1>0, <1>2 DEF SetEndpoint, TableTypeOK, Slot, IndexSound
  <2>2. /\ TableTypeOK' /\ UNCHANGED <<byID, byVPN, byName>>
        /\ \A r \in Ref : /\ heap'[r].id = heap[r].id
                          /\ heap'[r].vpn = heap[r].vpn
                          /\ heap'[r].name = heap[r].name
    BY <1>2, EndpointSlots
  <2>3. \A d \in Endpoint : byEndpoint'[d] # NoRef =>
          Current(byEndpoint[d])' /\ heap'[byEndpoint'[d]].endpoint = d
    <3>1. SUFFICES ASSUME NEW d \in Endpoint, byEndpoint'[d] # NoRef
                   PROVE  Current(byEndpoint[d])' /\ heap'[byEndpoint'[d]].endpoint = d
      OBVIOUS
    <3>2. CASE d = ep
      <4>1. byEndpoint'[d] = byID[p]
        BY <1>2, <3>2, EndpointSlots
      <4>2. heap'[byID[p]].endpoint = ep
        BY <1>2, <2>1, EndpointSlots
      <4>3. QED
        BY <2>1, <2>2, <3>2, <4>1, <4>2 DEF Current
    <3>3. CASE d # ep
      <4>1. byEndpoint'[d] = byEndpoint[d] /\ byEndpoint[d] # byID[p]
        BY <1>2, <3>1, <3>3, EndpointSlots
      <4>2. PICK x \in Ref : x = byEndpoint[d]
        BY <1>0, <3>1, <4>1 DEF TableTypeOK, Slot
      <4>3. Current(x) /\ heap[x].endpoint = d
        BY <1>0, <3>1, <4>1, <4>2 DEF IndexSound
      <4>4. x # Owner(ep)
        BY <1>0, <3>3, <4>2, <4>3 DEF Owner, IndexSound
      <4>5. heap'[x].endpoint = d
        BY <1>2, <4>1, <4>2, <4>3, <4>4, EndpointSlots
      <4>6. QED
        BY <2>2, <4>1, <4>2, <4>3, <4>5 DEF Current
    <3>4. QED
      BY <3>2, <3>3
  <2>4. \A q \in Peer : byID'[q] # NoRef => heap'[byID'[q]].id = q
    BY <1>0, <2>2 DEF IndexSound, TableTypeOK, Slot
  <2>5. \A b \in Addr : byVPN'[b] # NoRef => Current(byVPN[b])' /\ heap'[byVPN'[b]].vpn = b
    BY <1>0, <2>2 DEF IndexSound, TableTypeOK, Slot, Current
  <2>6. \A l \in Label : byName'[l] # NoRef =>
          Current(byName[l])' /\ LabelOf(heap'[byName'[l]].name) = l
    BY <1>0, <2>2 DEF IndexSound, TableTypeOK, Slot, Current
  <2>7. Routable'
    BY <1>0, <2>2 DEF Routable, TableTypeOK, Slot
  <2>8. QED
    BY <2>2, <2>3, <2>4, <2>5, <2>6, <2>7 DEF TableInv, IndexSound
<1>3. ASSUME NEW p \in Peer, Remove(p) PROVE TableInv'
  <2>1. /\ TableTypeOK' /\ UNCHANGED heap /\ byID[p] \in Ref /\ heap[byID[p]].id = p
        /\ byID'[p] = NoRef /\ \A q \in Peer \ {p} : byID'[q] = byID[q]
    BY <1>0, <1>3, RemoveSlots DEF TableTypeOK, Slot, IndexSound
  <2>2. ASSUME NEW x \in Ref, Current(x), x # byID[p] PROVE Current(x)'
    BY <1>0, <2>1, <2>2 DEF Current, TableTypeOK, Entry
  <2>3. \A q \in Peer : byID'[q] # NoRef => heap'[byID'[q]].id = q
    BY <1>0, <2>1 DEF IndexSound
  <2>4. \A b \in Addr : byVPN'[b] # NoRef => Current(byVPN[b])' /\ heap'[byVPN'[b]].vpn = b
    <3>1. \A b \in Addr : byVPN'[b] # NoRef => byVPN'[b] = byVPN[b] /\ byVPN[b] # byID[p]
      BY <1>3, RemoveSlots
    <3>2. QED
      BY <1>0, <2>1, <2>2, <3>1 DEF IndexSound, TableTypeOK, Slot, Current
  <2>5. \A d \in Endpoint : byEndpoint'[d] # NoRef =>
          Current(byEndpoint[d])' /\ heap'[byEndpoint'[d]].endpoint = d
    <3>1. \A d \in Endpoint : byEndpoint'[d] # NoRef =>
            byEndpoint'[d] = byEndpoint[d] /\ byEndpoint[d] # byID[p]
      BY <1>3, RemoveSlots
    <3>2. QED
      BY <1>0, <2>1, <2>2, <3>1 DEF IndexSound, TableTypeOK, Slot, Current
  <2>6. \A l \in Label : byName'[l] # NoRef =>
          Current(byName[l])' /\ LabelOf(heap'[byName'[l]].name) = l
    <3>1. \A l \in Label : byName'[l] # NoRef => byName'[l] = byName[l] /\ byName[l] # byID[p]
      BY <1>3, RemoveSlots
    <3>2. QED
      BY <1>0, <2>1, <2>2, <3>1 DEF IndexSound, TableTypeOK, Slot, Current
  <2>7. Routable'
    <3>1. SUFFICES ASSUME NEW q \in Peer, byID'[q] # NoRef, heap'[byID'[q]].vpn # NoAddr
                   PROVE  byVPN'[heap'[byID'[q]].vpn] = byID'[q]
      BY DEF Routable
    <3>2. q # p /\ byID'[q] = byID[q] /\ byID[q] \in Ref
      BY <1>0, <2>1, <3>1 DEF TableTypeOK, Slot
    <3>3. PICK b \in Addr : b = heap[byID[q]].vpn
      BY <1>0, <2>1, <3>1, <3>2 DEF TableTypeOK, Entry
    <3>4. byVPN[b] = byID[q] /\ heap[byID[q]].id = q
      BY <1>0, <2>1, <3>1, <3>2, <3>3 DEF Routable, IndexSound
    <3>5. byVPN[b] # byID[p]
      BY <2>1, <3>2, <3>4
    <3>6. QED
      BY <1>3, <2>1, <3>2, <3>3, <3>4, <3>5, RemoveSlots
  <2>8. QED
    BY <2>1, <2>3, <2>4, <2>5, <2>6, <2>7 DEF TableInv, IndexSound
<1>4. CASE UNCHANGED tableVars
  BY <1>0, <1>4 DEF TableInv, TableTypeOK, IndexSound, Routable, Current, tableVars
<1>5. QED
  BY <1>1, <1>2, <1>3, <1>4
  DEF TableNext, UpsertRefused, UpdateEndpoint, ClaimEndpoint, SetEndpointRefused

\* The invariant holds throughout.
LEMMA TableInvHolds == TableSpec => []TableInv
<1>1. TableInit => TableInv
  BY DEF TableInit, TableInv, TableTypeOK, IndexSound, Routable, Slot
<1>2. QED
  BY <1>1, TableStep, PTL DEF TableSpec

\* The indexes hold pointers to entries or nothing.
THEOREM TableTypes == TableSpec => []TableTypeOK
<1>1. TableInv => TableTypeOK
  BY DEF TableInv
<1>2. QED
  BY <1>1, TableInvHolds, PTL

\* No slot ever leads to an entry that was replaced, removed or has another key.
THEOREM IndexesSound == TableSpec => []IndexSound
<1>1. TableInv => IndexSound
  BY DEF TableInv
<1>2. QED
  BY <1>1, TableInvHolds, PTL

\* Every peer of the table is found by its VPN address, and only it is.
THEOREM EveryPeerRoutable == TableSpec => []Routable
<1>1. TableInv => Routable
  BY DEF TableInv
<1>2. QED
  BY <1>1, TableInvHolds, PTL

\* No other peer's Upsert, hint or claim takes over an address or a name.
THEOREM OwnersKeep == TableSpec => [][OwnerKeeps]_tableVars
<1> DEFINE A == /\ \A a \in Addr : byVPN[a] # NoRef /\ byVPN'[a] # byVPN[a] =>
                     byID'[heap[byVPN[a]].id] # byVPN[a]
                /\ \A l \in Label : byName[l] # NoRef /\ byName'[l] # byName[l] =>
                     byID'[heap[byName[l]].id] # byName[l]
<1>1. ASSUME TableInv, [TableNext]_tableVars PROVE A
  <2>0. TableTypeOK /\ IndexSound
    BY <1>1 DEF TableInv
  <2>1. ASSUME NEW p \in Peer, NEW a \in Addr \cup {NoAddr},
               NEW nm \in Name \cup {NoName}, NEW ep \in Endpoint \cup {NoEndpoint},
               NEW r \in Ref, Upsert(p, a, nm, ep, r)
        PROVE  A
    <3>1. byID'[p] = r /\ Unreferenced(r) /\ ~AddrHeld(p, a)
      BY <2>0, <2>1 DEF Upsert, TableTypeOK
    <3>2. ASSUME NEW b \in Addr, byVPN[b] # NoRef, byVPN'[b] # byVPN[b]
          PROVE  byID'[heap[byVPN[b]].id] # byVPN[b]
      <4>1. heap[byVPN[b]].id = p
        <5>1. b = a \/ byVPN[b] = byID[p]
          BY <1>1, <2>1, <3>2, UpsertSlots
        <5>2. CASE b = a
          BY <3>1, <3>2, <5>2 DEF AddrHeld
        <5>3. CASE byVPN[b] = byID[p]
          BY <2>0, <3>2, <5>3 DEF IndexSound
        <5>4. QED
          BY <5>1, <5>2, <5>3
      <4>2. QED
        BY <3>1, <4>1 DEF Unreferenced
    <3>3. ASSUME NEW l \in Label, byName[l] # NoRef, byName'[l] # byName[l]
          PROVE  byID'[heap[byName[l]].id] # byName[l]
      <4>1. byName[l] = byID[p]
        BY <1>1, <2>1, <3>3, UpsertSlots
      <4>2. heap[byName[l]].id = p
        BY <2>0, <3>3, <4>1 DEF IndexSound
      <4>3. QED
        BY <3>1, <4>2 DEF Unreferenced
    <3>4. QED
      BY <3>2, <3>3
  <2>2. ASSUME NEW p \in Peer, Remove(p) PROVE A
    <3>1. /\ byID[p] # NoRef /\ heap[byID[p]].id = p
          /\ byID'[p] = NoRef
          /\ \A b \in Addr : byVPN'[b] = IF byVPN[b] = byID[p] THEN NoRef ELSE byVPN[b]
          /\ \A l \in Label : byName'[l] = IF byName[l] = byID[p] THEN NoRef ELSE byName[l]
      BY <1>1, <2>0, <2>2, RemoveSlots DEF IndexSound, TableTypeOK
    <3>2. QED
      BY <3>1
  <2>3. CASE UNCHANGED <<byVPN, byName>>
    BY <2>3
  <2>4. QED
    BY <1>1, <2>1, <2>2, <2>3
    DEF TableNext, UpsertRefused, UpdateEndpoint, ClaimEndpoint, SetEndpoint,
        SetEndpointRefused, tableVars
<1>2. TableInv /\ [TableNext]_tableVars => [OwnerKeeps]_tableVars
  BY <1>1 DEF OwnerKeeps
<1>3. QED
  BY <1>2, TableInvHolds, PTL DEF TableSpec

\* A peer whose endpoint another one claims does not keep it.
THEOREM LosersForget == TableSpec => [][LoserForgets]_tableVars
<1> DEFINE A == \A ep \in Endpoint :
                  byEndpoint[ep] # NoRef /\ byEndpoint'[ep] # byEndpoint[ep] =>
                    LET r == byEndpoint[ep] IN
                      byID'[heap[r].id] = r => heap'[r].endpoint # ep
<1>1. ASSUME TableInv, [TableNext]_tableVars PROVE A
  <2>0. TableTypeOK /\ IndexSound
    BY <1>1 DEF TableInv
  <2>1. ASSUME NEW p \in Peer, NEW a \in Addr \cup {NoAddr},
               NEW nm \in Name \cup {NoName}, NEW ep \in Endpoint \cup {NoEndpoint},
               NEW r \in Ref, Upsert(p, a, nm, ep, r)
        PROVE  A
    <3>1. byID'[p] = r /\ Unreferenced(r)
      BY <2>0, <2>1 DEF Upsert, TableTypeOK
    <3>2. ASSUME NEW d \in Endpoint, byEndpoint[d] # NoRef, byEndpoint'[d] # byEndpoint[d]
          PROVE  byID'[heap[byEndpoint[d]].id] # byEndpoint[d]
      <4>1. heap[byEndpoint[d]].id = p
        <5>1. byEndpoint'[d] =
                LET e == IF byID[p] = NoRef THEN heap[r] ELSE heap[byID[p]]
                IN Take(Unindex(byEndpoint, e.endpoint, byID[p]), ep, r, p)[d]
          BY <2>1 DEF Upsert
        <5>2. byID[p] \in Slot
          BY <2>0 DEF TableTypeOK
        <5>3. \/ byEndpoint[d] = byID[p]
              \/ heap[byEndpoint[d]].id = p
          BY <2>0, <3>2, <5>1, <5>2, UnindexSlots, TakeSlots DEF TableTypeOK
        <5>4. QED
          BY <2>0, <3>2, <5>3 DEF IndexSound
      <4>2. QED
        BY <3>1, <4>1 DEF Unreferenced
    <3>3. QED
      BY <3>2
  <2>2. ASSUME NEW p \in Peer, NEW ep \in Endpoint \cup {NoEndpoint},
               NEW claim \in BOOLEAN, SetEndpoint(p, ep, claim)
        PROVE  A
    <3>1. SUFFICES ASSUME NEW d \in Endpoint, byEndpoint[d] # NoRef,
                          byEndpoint'[d] # byEndpoint[d]
                   PROVE  heap'[byEndpoint[d]].endpoint # d
      OBVIOUS
    <3>2. PICK x \in Ref : x = byEndpoint[d]
      BY <2>0, <3>1 DEF TableTypeOK, Slot
    <3>3. heap'[x].endpoint = IF x = byID[p] THEN ep
                              ELSE IF x = Owner(ep) THEN NoEndpoint ELSE heap[x].endpoint
      BY <1>1, <2>2, EndpointSlots
    <3>4. byEndpoint'[d] = IF d = ep THEN byID[p]
                           ELSE IF byEndpoint[d] = byID[p] THEN NoRef ELSE byEndpoint[d]
      BY <1>1, <2>2, EndpointSlots
    <3>5. CASE d = ep
      BY <3>1, <3>2, <3>3, <3>4, <3>5 DEF Owner
    <3>6. CASE d # ep
      BY <3>1, <3>2, <3>3, <3>4, <3>6
    <3>7. QED
      BY <3>5, <3>6
  <2>3. ASSUME NEW p \in Peer, Remove(p) PROVE A
    <3>1. /\ byID[p] # NoRef /\ heap[byID[p]].id = p /\ byID'[p] = NoRef
          /\ \A d \in Endpoint : byEndpoint'[d] =
               IF byEndpoint[d] = byID[p] THEN NoRef ELSE byEndpoint[d]
      BY <1>1, <2>0, <2>3, RemoveSlots DEF IndexSound, TableTypeOK
    <3>2. QED
      BY <3>1
  <2>4. CASE UNCHANGED byEndpoint
    BY <2>4
  <2>5. QED
    BY <1>1, <2>1, <2>2, <2>3, <2>4
    DEF TableNext, UpsertRefused, UpdateEndpoint, ClaimEndpoint, SetEndpointRefused, tableVars
<1>2. TableInv /\ [TableNext]_tableVars => [LoserForgets]_tableVars
  BY <1>1 DEF LoserForgets
<1>3. QED
  BY <1>2, TableInvHolds, PTL DEF TableSpec

\* No step moves a peer's address, name or endpoint behind its back.
THEOREM SlotsAreKept == TableSpec => SlotsKept
  BY OwnersKeep, LosersForget, PTL DEF SlotsKept
=============================================================================
