-------------------------- MODULE CoordSyncProofs --------------------------
(***************************************************************************)
(* Proofs about CoordSync: its type invariant, the agreement of an         *)
(* up-to-date client's table with the registry, and what the sweep spares. *)
(***************************************************************************)
EXTENDS CoordSync, FiniteSetTheorems, SequenceTheorems, TLAPS

-----------------------------------------------------------------------------
(***************************************************************************)
(* The inductive invariant.                                                *)
(***************************************************************************)
Watch == [pc : {"authorized", "connected", "subscribed", "stream"}, peer : Peer,
          ch : Seq(Event), snapshot : SUBSET Peer]

\* The variables have their types, and the events waiting form a bag.
Shape ==
  /\ registered \subseteq Peer /\ fresh \subseteq Peer
  /\ doomed \subseteq Peer /\ leaves \subseteq Peer
  /\ IsABag(unpublished) /\ BagToSet(unpublished) \subseteq Event
  /\ handler \in [Handler -> {NoStream} \cup Watch]
  /\ \A h \in Handler : Serving(h) => Len(handler[h].ch) <= ChanCap
  /\ connected \in [Peer -> Nat]
  /\ client \in [Peer -> {"off", "calling", "registered", "streaming", "retry"}]
  /\ stream \in [Peer -> Handler \cup {NoHandler}]
  /\ table \in [Peer -> SUBSET Peer]
  /\ hasID \subseteq Peer /\ breaks \in 0 .. MaxBreaks /\ stops \in 0 .. MaxStops
  /\ lost \subseteq Handler /\ late \in [Handler -> SUBSET Peer]
  /\ ghosts \in [Peer -> SUBSET Peer]

\* A client streams from a handler that serves it and nobody else; a handler that
\* has not subscribed has no events, one that has not listed the registry no
\* snapshot; no client has itself in its table.
Streams ==
  /\ \A p \in Peer : client[p] = "streaming" <=> stream[p] # NoHandler
  /\ \A p \in Peer : stream[p] # NoHandler =>
       Serving(stream[p]) /\ handler[stream[p]].peer = p
  /\ \A h \in Handler : handler[h].pc \in {"authorized", "connected"} => handler[h].ch = <<>>
  /\ \A h \in Handler :
       handler[h].pc \in {"authorized", "connected", "subscribed"} => handler[h].snapshot = {}
  /\ \A p \in Peer : p \notin table[p]

\* The server's count of a peer's streams is the number of handlers that have
\* marked it connected.
Handlers(p) == {h \in Handler : Marked(h) /\ handler[h].peer = p}
Counted == \A p \in Peer : IsFiniteSet(Handlers(p)) /\ connected[p] = Cardinality(Handlers(p))

\* A peer the sweep is about to delete has no stream and is not about to get one:
\* between its Register and the mark of its stream a peer stays fresh.
Spared ==
  /\ doomed \subseteq registered \ fresh
  /\ \A p \in doomed : connected[p] = 0
  /\ \A p \in registered \ fresh : client[p] \notin {"calling", "registered"}
  /\ \A h \in Handler : handler[h].pc = "authorized" => handler[h].peer \notin registered \ fresh

\* ch has e in it; e is the last event about its peer in ch; ch has no event about q.
Mentions(ch, e) == \E i \in DOMAIN ch : ch[i] = e
LastIs(ch, e) ==
  \E i \in DOMAIN ch : ch[i] = e /\ \A j \in DOMAIN ch : j > i => ch[j].peer # e.peer
Silent(ch, q) == \A i \in DOMAIN ch : ch[i].peer # q

\* A registered peer is known to a client that streams, or will be: its JOIN has
\* yet to be published, or is what the channel says of it last, or the channel
\* does not mention it and the snapshot will list it, is listing it or has.
Coming(p, q) ==
  \/ BagIn(Join(q), unpublished)
  \/ LastIs(handler[stream[p]].ch, Join(q))
  \/ /\ Silent(handler[stream[p]].ch, q)
     /\ handler[stream[p]].pc = "stream" => q \in handler[stream[p]].snapshot \cup table[p]
Attentive(p) == stream[p] # NoHandler /\ Subscribed(stream[p]) /\ stream[p] \notin lost
Announced ==
  \A p, q \in Peer : Attentive(p) /\ q # p /\ q \in registered \ late[stream[p]] => Coming(p, q)

\* A peer that has left and that a client knows, or is going to be told of, is one
\* of its ghosts or will be forgotten: its LEAVE has yet to be published, or is
\* what the channel says of it last.
Chan(p) == IF stream[p] = NoHandler THEN <<>> ELSE handler[stream[p]].ch
Snap(p) == IF stream[p] = NoHandler THEN {} ELSE handler[stream[p]].snapshot
Holds(p, q) == q \in table[p] \cup Snap(p) \/ Mentions(Chan(p), Join(q))
Going(p, q) == BagIn(Leave(q), unpublished) \/ LastIs(Chan(p), Leave(q))
Forgotten ==
  \A p, q \in Peer : q # p /\ q \notin registered \cup ghosts[p] /\ Holds(p, q) => Going(p, q)

Inv == Shape /\ Streams /\ Counted /\ Spared /\ Announced /\ Forgotten
-----------------------------------------------------------------------------
(***************************************************************************)
(* Bags and channels.                                                      *)
(***************************************************************************)
\* Adding one copy of each element of S puts S in the bag and nothing else.
LEMMA BagPlus ==
  ASSUME NEW B, NEW S, IsABag(B)
  PROVE  /\ IsABag(B (+) SetToBag(S))
         /\ BagToSet(B (+) SetToBag(S)) = BagToSet(B) \cup S
<1> DEFINE C == B (+) SetToBag(S)
<1>1. C = [e \in (DOMAIN B) \cup S |-> (IF e \in DOMAIN B THEN B[e] ELSE 0)
                                       + (IF e \in S THEN 1 ELSE 0)]
  BY DEF (+), SetToBag
<1>2. DOMAIN C = (DOMAIN B) \cup S
  BY <1>1
<1>3. ASSUME NEW e \in DOMAIN C PROVE C[e] \in {n \in Nat : n > 0}
  <2>1. e \in DOMAIN B => B[e] \in Nat /\ B[e] > 0
    BY DEF IsABag
  <2> QED BY <1>1, <1>2, <1>3, <2>1
<1> QED BY <1>1, <1>2, <1>3 DEF IsABag, BagToSet

\* Taking one copy of e out leaves every other element in.
LEMMA BagMinus ==
  ASSUME NEW B, NEW e, IsABag(B)
  PROVE  /\ IsABag(B (-) SetToBag({e}))
         /\ BagToSet(B (-) SetToBag({e})) \subseteq BagToSet(B)
         /\ BagToSet(B) \ {e} \subseteq BagToSet(B (-) SetToBag({e}))
<1> DEFINE D == [x \in DOMAIN B |-> IF x \in {e} THEN B[x] - 1 ELSE B[x]]
           C == [x \in {d \in DOMAIN D : D[d] > 0} |-> D[x]]
<1>1. B (-) SetToBag({e}) = C
  BY DEF (-), SetToBag
<1>2. \A x \in DOMAIN B : B[x] \in Nat /\ B[x] > 0
  BY DEF IsABag
<1>3. \A x \in DOMAIN B : D[x] \in Nat /\ (x # e => D[x] > 0)
  BY <1>2
<1>4. DOMAIN C = {d \in DOMAIN B : D[d] > 0}
  OBVIOUS
<1>5. \A x \in DOMAIN C : C[x] \in {n \in Nat : n > 0}
  BY <1>3
<1> HIDE DEF D
<1> QED BY <1>1, <1>3, <1>4, <1>5 DEF IsABag, BagToSet

LEMMA BagEmpty == IsABag(EmptyBag) /\ BagToSet(EmptyBag) = {}
BY DEF EmptyBag, SetToBag, IsABag, BagToSet

\* The members of Event.
LEMMA EventFacts ==
  ASSUME NEW p \in Peer
  PROVE  /\ Join(p) \in Event /\ Join(p).peer = p /\ Join(p).type = "JOIN"
         /\ Leave(p) \in Event /\ Leave(p).peer = p /\ Leave(p).type = "LEAVE"
BY DEF Join, Leave, Event

LEMMA EventForms ==
  ASSUME NEW e \in Event
  PROVE  /\ e.peer \in Peer /\ e.type \in {"JOIN", "LEAVE"}
         /\ e = Join(e.peer) \/ e = Leave(e.peer)
         /\ e.type = "JOIN" <=> e = Join(e.peer)
BY DEF Join, Leave, Event

\* What an event does to the channel that takes it.
LEMMA ChanAppend ==
  ASSUME NEW ch \in Seq(Event), NEW e \in Event, NEW q \in Peer, NEW f \in Event
  PROVE  /\ LastIs(Append(ch, e), e)
         /\ f.peer # e.peer /\ LastIs(ch, f) => LastIs(Append(ch, e), f)
         /\ e.peer # q /\ Silent(ch, q) => Silent(Append(ch, e), q)
         /\ Mentions(Append(ch, e), f) => Mentions(ch, f) \/ f = e
<1> DEFINE n == Len(ch)
           c == Append(ch, e)
<1>1. /\ n \in Nat /\ DOMAIN ch = 1 .. n /\ c \in Seq(Event) /\ DOMAIN c = 1 .. n + 1
      /\ c[n + 1] = e /\ \A i \in 1 .. n : c[i] = ch[i]
  OBVIOUS
<1> HIDE DEF c, n
<1>2. LastIs(c, e)
  <2>1. n + 1 \in DOMAIN c /\ \A j \in DOMAIN c : ~(j > n + 1)
    BY <1>1
  <2> QED BY <1>1, <2>1 DEF LastIs
<1>3. ASSUME f.peer # e.peer, LastIs(ch, f) PROVE LastIs(c, f)
  <2>1. PICK i \in 1 .. n : ch[i] = f /\ \A j \in 1 .. n : j > i => ch[j].peer # f.peer
    BY <1>1, <1>3 DEF LastIs
  <2>2. i \in DOMAIN c /\ c[i] = f
    BY <1>1, <2>1
  <2>3. ASSUME NEW j \in DOMAIN c, j > i PROVE c[j].peer # f.peer
    <3>1. CASE j \in 1 .. n BY <3>1, <2>1, <2>3, <1>1
    <3>2. CASE j = n + 1 BY <3>2, <1>1, <1>3
    <3> QED BY <1>1, <2>3, <3>1, <3>2
  <2> QED BY <2>2, <2>3 DEF LastIs
<1>4. ASSUME e.peer # q, Silent(ch, q) PROVE Silent(c, q)
  <2> SUFFICES ASSUME NEW j \in DOMAIN c PROVE c[j].peer # q
    BY DEF Silent
  <2>1. CASE j \in 1 .. n BY <2>1, <1>1, <1>4 DEF Silent
  <2>2. CASE j = n + 1 BY <2>2, <1>1, <1>4
  <2> QED BY <1>1, <2>1, <2>2
<1>5. ASSUME Mentions(c, f) PROVE Mentions(ch, f) \/ f = e
  <2>1. PICK i \in DOMAIN c : c[i] = f
    BY <1>5 DEF Mentions
  <2>2. CASE i \in 1 .. n BY <2>1, <2>2, <1>1 DEF Mentions
  <2>3. CASE i = n + 1 BY <2>1, <2>3, <1>1
  <2> QED BY <1>1, <2>2, <2>3
<1> QED BY <1>2, <1>3, <1>4, <1>5 DEF c

\* What reading its first event does to a channel.
LEMMA ChanTail ==
  ASSUME NEW ch \in Seq(Event), ch # <<>>, NEW q \in Peer, NEW f \in Event
  PROVE  /\ LastIs(ch, f) => LastIs(Tail(ch), f) \/ (Head(ch) = f /\ Silent(Tail(ch), f.peer))
         /\ Silent(ch, q) => Silent(Tail(ch), q) /\ Head(ch).peer # q
         /\ Mentions(Tail(ch), f) \/ Head(ch) = f => Mentions(ch, f)
<1> DEFINE n == Len(ch)
           c == Tail(ch)
           h == Head(ch)
<1>1. /\ n \in Nat /\ n >= 1 /\ DOMAIN ch = 1 .. n /\ c \in Seq(Event) /\ DOMAIN c = 1 .. n - 1
      /\ h = ch[1] /\ \A i \in 1 .. n - 1 : c[i] = ch[i + 1]
  OBVIOUS
<1> HIDE DEF c, n, h
<1>2. ASSUME LastIs(ch, f) PROVE LastIs(c, f) \/ (h = f /\ Silent(c, f.peer))
  <2>1. PICK i \in 1 .. n : ch[i] = f /\ \A j \in 1 .. n : j > i => ch[j].peer # f.peer
    BY <1>1, <1>2 DEF LastIs
  <2>2. ASSUME NEW j \in 1 .. n - 1, j + 1 > i PROVE c[j].peer # f.peer
    BY <1>1, <2>1, <2>2
  <2>3. CASE i = 1
    BY <1>1, <2>1, <2>2, <2>3 DEF Silent
  <2>4. CASE i # 1
    <3>1. i - 1 \in 1 .. n - 1 /\ c[i - 1] = f
      BY <1>1, <2>1, <2>4
    <3>2. \A j \in 1 .. n - 1 : j > i - 1 => c[j].peer # f.peer
      BY <1>1, <2>2
    <3> QED BY <1>1, <3>1, <3>2 DEF LastIs
  <2> QED BY <2>3, <2>4
<1>3. ASSUME Silent(ch, q) PROVE Silent(c, q) /\ h.peer # q
  <2>1. \A i \in 1 .. n : ch[i].peer # q
    BY <1>1, <1>3 DEF Silent
  <2>2. \A i \in 1 .. n - 1 : c[i] = ch[i + 1] /\ i + 1 \in 1 .. n
    BY <1>1
  <2>3. \A i \in 1 .. n - 1 : c[i].peer # q
    BY <2>1, <2>2
  <2>4. 1 \in 1 .. n
    BY <1>1
  <2> QED BY <1>1, <2>1, <2>3, <2>4 DEF Silent
<1>4. Mentions(c, f) \/ h = f => Mentions(ch, f)
  BY <1>1 DEF Mentions
<1> QED BY <1>2, <1>3, <1>4 DEF c, h
-----------------------------------------------------------------------------
(***************************************************************************)
(* Types.                                                                  *)
(***************************************************************************)
\* A handler is idle or has a stream.
LEMMA HandlerForms ==
  ASSUME handler \in [Handler -> {NoStream} \cup Watch], NEW h \in Handler
  PROVE  /\ Serving(h) <=> handler[h] \in Watch
         /\ ~Serving(h) <=> handler[h] = NoStream
         /\ Serving(h) => /\ handler[h].pc \in {"authorized", "connected", "subscribed", "stream"}
                          /\ handler[h].peer \in Peer /\ handler[h].ch \in Seq(Event)
                          /\ handler[h].snapshot \in SUBSET Peer
BY DEF NoStream, Watch, Serving

\* What an event published does to a handler.
LEMMA EnqueueForms ==
  ASSUME handler \in [Handler -> {NoStream} \cup Watch], NEW h \in Handler, Subscribed(h),
         NEW e \in Event
  PROVE  /\ Serving(h) /\ Enqueue(h, e) \in Watch
         /\ Enqueue(h, e).pc = handler[h].pc /\ Enqueue(h, e).peer = handler[h].peer
         /\ Enqueue(h, e).snapshot = handler[h].snapshot
         /\ Enqueue(h, e).ch = IF Full(h) THEN handler[h].ch ELSE Append(handler[h].ch, e)
<1>1. Serving(h)
  BY DEF Subscribed, Serving
<1>2. handler[h] \in Watch /\ handler[h].ch \in Seq(Event)
  BY <1>1, HandlerForms
<1>3. Append(handler[h].ch, e) \in Seq(Event)
  BY <1>2
<1> QED BY <1>1, <1>2, <1>3 DEF Watch, Enqueue

LEMMA InitShape == Init => Shape
<1> SUFFICES ASSUME Init PROVE Shape
  OBVIOUS
<1>1. ASSUME NEW h \in Handler PROVE ~Serving(h)
  BY DEF Init, Serving, NoStream
<1>2. breaks \in 0 .. MaxBreaks /\ stops \in 0 .. MaxStops
  BY CapAssumption DEF Init
<1> QED BY <1>1, <1>2, BagEmpty DEF Init, Shape

LEMMA NextShape == Shape /\ Streams /\ [Next]_vars => Shape'
<1> SUFFICES ASSUME Shape, Streams, [Next]_vars PROVE Shape'
  OBVIOUS
<1> USE DEF Shape
<1>0. CASE UNCHANGED vars
  BY <1>0 DEF vars, Serving
<1>1. CASE SweepCheck
  BY <1>1 DEF SweepCheck, Sweepable, extra, Serving
<1>2. CASE SweepCommit
  <2>1. {Leave(p) : p \in doomed} \subseteq Event
    BY EventFacts
  <2>2. IsABag(unpublished') /\ BagToSet(unpublished') \subseteq Event
    BY <1>2, <2>1, BagPlus DEF SweepCommit
  <2> QED BY <1>2, <2>2 DEF SweepCommit, extra, Serving
<1>3. CASE CoordRestart
  <2>1. \A h \in Handler : ~Serving(h)'
    BY <1>3 DEF CoordRestart, Serving, NoStream
  <2>2. stops' \in 0 .. MaxStops
    BY <1>3, CapAssumption DEF CoordRestart
  <2>3. ghosts' \in [Peer -> SUBSET Peer]
    BY <1>3 DEF CoordRestart, Unread
  <2>4. IsABag(unpublished') /\ BagToSet(unpublished') \subseteq Event
    BY <1>3, BagEmpty DEF CoordRestart
  <2> QED BY <1>3, <2>1, <2>2, <2>3, <2>4 DEF CoordRestart
<1>4. ASSUME NEW p \in Peer, Register(p) PROVE Shape'
  <2>1. IsABag(unpublished') /\ BagToSet(unpublished') \subseteq Event
    BY <1>4, BagPlus, EventFacts DEF Register
  <2> QED BY <1>4, <2>1 DEF Register, Calls, extra, Serving
<1>5. ASSUME NEW p \in Peer, LeaveCommit(p) PROVE Shape'
  <2>1. IsABag(unpublished') /\ BagToSet(unpublished') \subseteq Event
    BY <1>5, BagPlus, EventFacts DEF LeaveCommit
  <2> QED BY <1>5, <2>1 DEF LeaveCommit, extra, Serving
<1>6. ASSUME NEW p \in Peer, Lapse(p) PROVE Shape'
  BY <1>6 DEF Lapse, extra, Serving
<1>7. ASSUME NEW p \in Peer, WatchRefused(p) PROVE Shape'
  BY <1>7 DEF WatchRefused, server, extra, Serving
<1>8. ASSUME NEW p \in Peer, Deliver(p) PROVE Shape'
  <2> DEFINE h == stream[p]
  <2>0. h \in Handler /\ Serving(h)
    BY <1>8 DEF Deliver, Streams, Serving
  <2>1. handler[h] \in Watch /\ handler[h].ch \in Seq(Event)
    BY <2>0, HandlerForms
  <2>2. /\ handler' = [handler EXCEPT ![h] = handler'[h]] /\ handler'[h] \in Watch
        /\ Len(handler'[h].ch) <= ChanCap /\ table' \in [Peer -> SUBSET Peer]
    <3>1. CASE \E q \in handler[h].snapshot :
            /\ handler' = [handler EXCEPT ![h].snapshot = @ \ {q}]
            /\ table' = [table EXCEPT ![p] = HandleEvent(@, p, Join(q))]
      <4>1. PICK q \in handler[h].snapshot :
              /\ handler' = [handler EXCEPT ![h].snapshot = @ \ {q}]
              /\ table' = [table EXCEPT ![p] = HandleEvent(@, p, Join(q))]
        BY <3>1
      <4>2. q \in Peer /\ Join(q).peer = q
        BY <2>1, EventFacts DEF Watch
      <4>3. handler'[h] = [handler[h] EXCEPT !.snapshot = @ \ {q}]
        BY <2>0, <4>1
      <4>4. table' \in [Peer -> SUBSET Peer]
        BY <4>1, <4>2 DEF HandleEvent
      <4> QED BY <2>0, <2>1, <4>1, <4>3, <4>4 DEF Watch
    <3>2. CASE /\ handler[h].snapshot = {} /\ handler[h].ch # <<>>
               /\ handler' = [handler EXCEPT ![h].ch = Tail(@)]
               /\ table' = [table EXCEPT ![p] = HandleEvent(@, p, Head(handler[h].ch))]
      <4>1. /\ Tail(handler[h].ch) \in Seq(Event) /\ Head(handler[h].ch) \in Event
            /\ Len(Tail(handler[h].ch)) <= ChanCap
        BY <2>0, <2>1, <3>2, CapAssumption
      <4>2. handler'[h] = [handler[h] EXCEPT !.ch = Tail(@)]
        BY <2>0, <3>2
      <4>3. table' \in [Peer -> SUBSET Peer]
        BY <3>2, <4>1, EventForms DEF HandleEvent
      <4> QED BY <2>0, <2>1, <3>2, <4>1, <4>2, <4>3 DEF Watch
    <3> QED BY <1>8, <3>1, <3>2 DEF Deliver
  <2>3. handler' \in [Handler -> {NoStream} \cup Watch]
    BY <2>2
  <2>4. \A g \in Handler : Serving(g)' => Len(handler'[g].ch) <= ChanCap
    BY <2>2 DEF Serving
  <2> QED BY <1>8, <2>2, <2>3, <2>4 DEF Deliver, server, extra
<1>9. ASSUME NEW p \in Peer, Fails(p) PROVE Shape'
  <2>1. breaks' \in 0 .. MaxBreaks
    BY <1>9, CapAssumption DEF Fails
  <2> QED BY <1>9, <2>1 DEF Fails, server, Unread, Serving
<1>10. ASSUME NEW p \in Peer, Stop(p) PROVE Shape'
  <2>1. stops' \in 0 .. MaxStops
    BY <1>10, CapAssumption DEF Stop
  <2>2. leaves' \subseteq Peer
    BY <1>10 DEF Stop
  <2> QED BY <1>10, <2>1, <2>2 DEF Stop, Serving
<1>11. ASSUME NEW p \in Peer, NEW h \in Handler, WatchAuthorize(p, h) PROVE Shape'
  <2> DEFINE w == [pc |-> "authorized", peer |-> p, ch |-> <<>>, snapshot |-> {}]
  <2>1. w \in Watch /\ Len(w.ch) <= ChanCap
    BY CapAssumption DEF Watch
  <2>2. handler' = [handler EXCEPT ![h] = w]
    BY <1>11 DEF WatchAuthorize
  <2> HIDE DEF w
  <2>3. handler' \in [Handler -> {NoStream} \cup Watch]
    BY <2>1, <2>2
  <2>4. \A g \in Handler : Serving(g)' => Len(handler'[g].ch) <= ChanCap
    BY <2>1, <2>2 DEF Serving
  <2> QED BY <1>11, <2>3, <2>4 DEF WatchAuthorize, OpensStream, server
<1>12. ASSUME NEW e \in Event, Publish(e) PROVE Shape'
  <2>1. IsABag(unpublished') /\ BagToSet(unpublished') \subseteq Event
    BY <1>12, BagMinus DEF Publish
  <2>2. e.peer \in Peer
    BY EventForms
  <2>3. handler' \in [Handler -> {NoStream} \cup Watch]
    BY <1>12, EnqueueForms DEF Publish
  <2>4. ASSUME NEW g \in Handler, Serving(g)' PROVE Len(handler'[g].ch) <= ChanCap
    <3>1. CASE ~Subscribed(g)
      BY <1>12, <2>4, <3>1 DEF Publish, Serving
    <3>2. CASE Subscribed(g)
      <4>1. Serving(g) /\ handler[g].ch \in Seq(Event)
        BY <3>2, EnqueueForms, HandlerForms
      <4>2. handler'[g].ch = IF Full(g) THEN handler[g].ch ELSE Append(handler[g].ch, e)
        BY <1>12, <3>2, EnqueueForms DEF Publish
      <4>3. CASE Full(g) BY <4>1, <4>2, <4>3
      <4>4. CASE ~Full(g) BY <4>1, <4>2, <4>4, CapAssumption DEF Full
      <4> QED BY <4>3, <4>4
    <3> QED BY <3>1, <3>2
  <2>5. ghosts' \in [Peer -> SUBSET Peer]
    BY <1>12, <2>2 DEF Publish, Haunts
  <2>6. late' \in [Handler -> SUBSET Peer] /\ lost' \subseteq Handler
    BY <1>12, <2>2 DEF Publish
  <2>7. /\ client' \in [Peer -> {"off", "calling", "registered", "streaming", "retry"}]
        /\ hasID' \subseteq Peer
    BY <1>12, <2>2 DEF Publish, Answer
  <2> QED BY <1>12, <2>1, <2>3, <2>4, <2>5, <2>6, <2>7 DEF Publish
<1>13. ASSUME NEW h \in Handler, WatchMark(h) PROVE Shape'
  <2>1. handler[h] \in Watch /\ Serving(h)
    BY <1>13, HandlerForms DEF WatchMark, Serving
  <2>2. handler' \in [Handler -> {NoStream} \cup Watch]
    BY <1>13, <2>1 DEF WatchMark, Watch
  <2>3. \A g \in Handler : Serving(g)' => Len(handler'[g].ch) <= ChanCap
    BY <1>13, <2>1 DEF WatchMark, Serving, Watch
  <2>4. connected' \in [Peer -> Nat]
    BY <1>13, <2>1 DEF WatchMark, Watch
  <2> QED BY <1>13, <2>2, <2>3, <2>4 DEF WatchMark, extra
<1>14. ASSUME NEW h \in Handler, WatchTouch(h) PROVE Shape'
  BY <1>14 DEF WatchTouch, extra, Serving
<1>15. ASSUME NEW h \in Handler, WatchSubscribe(h) PROVE Shape'
  <2>1. handler[h] \in Watch /\ Serving(h)
    BY <1>15, HandlerForms DEF WatchSubscribe, Serving
  <2>2. handler' \in [Handler -> {NoStream} \cup Watch]
    BY <1>15, <2>1 DEF WatchSubscribe, Watch
  <2>3. \A g \in Handler : Serving(g)' => Len(handler'[g].ch) <= ChanCap
    BY <1>15, <2>1 DEF WatchSubscribe, Serving, Watch
  <2> QED BY <1>15, <2>2, <2>3 DEF WatchSubscribe, extra, server
<1>16. ASSUME NEW h \in Handler, WatchSnapshot(h) PROVE Shape'
  <2>1. handler[h] \in Watch /\ Serving(h)
    BY <1>16, HandlerForms DEF WatchSnapshot, Serving
  <2>2. handler' \in [Handler -> {NoStream} \cup Watch]
    BY <1>16, <2>1 DEF WatchSnapshot, Watch
  <2>3. \A g \in Handler : Serving(g)' => Len(handler'[g].ch) <= ChanCap
    BY <1>16, <2>1 DEF WatchSnapshot, Serving, Watch
  <2> QED BY <1>16, <2>2, <2>3 DEF WatchSnapshot, extra, server
<1>17. ASSUME NEW h \in Handler, WatchEnd(h) PROVE Shape'
  <2>1. handler[h] \in Watch /\ Serving(h)
    BY <1>17, HandlerForms DEF WatchEnd, Serving
  <2>2. handler' \in [Handler -> {NoStream} \cup Watch]
    BY <1>17 DEF WatchEnd
  <2>3. \A g \in Handler : Serving(g)' => Len(handler'[g].ch) <= ChanCap
    BY <1>17 DEF WatchEnd, Serving, NoStream
  <2>4. connected' \in [Peer -> Nat]
    BY <1>17, <2>1 DEF WatchEnd, Disconnected, Watch
  <2> QED BY <1>17, <2>2, <2>3, <2>4 DEF WatchEnd, extra
<1> QED BY <1>0, <1>1, <1>2, <1>3, <1>4, <1>5, <1>6, <1>7, <1>8, <1>9, <1>10, <1>11,
           <1>12, <1>13, <1>14, <1>15, <1>16, <1>17 DEF Next

LEMMA ShapeGivesTypes == Shape => TypeOK
BY HandlerForms DEF Shape, TypeOK
-----------------------------------------------------------------------------
(***************************************************************************)
(* Who streams from whom.                                                  *)
(***************************************************************************)
\* The steps of a handler, as the fields of its record.
LEMMA WatchSteps ==
  ASSUME Shape, NEW h \in Handler, WatchMark(h) \/ WatchSubscribe(h) \/ WatchSnapshot(h)
  PROVE  /\ \A g \in Handler \ {h} : handler'[g] = handler[g]
         /\ Serving(h) /\ handler[h] \in Watch
         /\ WatchSnapshot(h) => ~WatchMark(h) /\ ~WatchSubscribe(h)
         /\ handler'[h].peer = handler[h].peer /\ handler'[h].ch = handler[h].ch
         /\ handler[h].pc = IF WatchMark(h) THEN "authorized"
                            ELSE IF WatchSubscribe(h) THEN "connected" ELSE "subscribed"
         /\ handler'[h].pc = IF WatchMark(h) THEN "connected"
                             ELSE IF WatchSubscribe(h) THEN "subscribed" ELSE "stream"
         /\ handler'[h].snapshot = IF WatchSnapshot(h) THEN registered \ {handler[h].peer}
                                                       ELSE handler[h].snapshot
<1>1. Serving(h) /\ handler[h] \in Watch
  BY HandlerForms DEF Shape, WatchMark, WatchSubscribe, WatchSnapshot, Serving
<1>2. CASE WatchMark(h)
  <2>1. handler[h].pc = "authorized" /\ handler' = [handler EXCEPT ![h].pc = "connected"]
    BY <1>2 DEF WatchMark
  <2>2. ~WatchSnapshot(h)
    BY <2>1 DEF WatchSnapshot
  <2> QED BY <1>1, <1>2, <2>1, <2>2 DEF Shape, Watch
<1>3. CASE WatchSubscribe(h)
  <2>1. handler[h].pc = "connected" /\ handler' = [handler EXCEPT ![h].pc = "subscribed"]
    BY <1>3 DEF WatchSubscribe
  <2>2. ~WatchSnapshot(h) /\ ~WatchMark(h)
    BY <2>1 DEF WatchSnapshot, WatchMark
  <2> QED BY <1>1, <1>3, <2>1, <2>2 DEF Shape, Watch
<1>4. CASE WatchSnapshot(h)
  <2>1. /\ handler[h].pc = "subscribed"
        /\ handler' = [handler EXCEPT ![h] =
             [@ EXCEPT !.pc = "stream", !.snapshot = registered \ {handler[h].peer}]]
    BY <1>4 DEF WatchSnapshot
  <2>2. ~WatchSubscribe(h) /\ ~WatchMark(h)
    BY <2>1 DEF WatchSubscribe, WatchMark
  <2> QED BY <1>1, <1>4, <2>1, <2>2 DEF Shape, Watch
<1> QED BY <1>2, <1>3, <1>4

\* The two ways an event reaches the table of p.
LEMMA DeliverSteps ==
  ASSUME Shape, Streams, NEW p \in Peer, Deliver(p)
  PROVE  LET h == stream[p]
             w == handler[h]
         IN  /\ h \in Handler /\ Serving(h) /\ w \in Watch /\ w.peer = p /\ w.pc = "stream"
             /\ \A g \in Handler \ {h} : handler'[g] = handler[g]
             /\ handler'[h].pc = "stream" /\ handler'[h].peer = p
             /\ \A r \in Peer \ {p} : table'[r] = table[r]
             /\ \/ \E q \in Peer :
                     /\ q \in w.snapshot /\ handler'[h].snapshot = w.snapshot \ {q}
                     /\ handler'[h].ch = w.ch
                     /\ table'[p] = HandleEvent(table[p], p, Join(q))
                \/ /\ w.snapshot = {} /\ w.ch # <<>>
                   /\ handler'[h].ch = Tail(w.ch) /\ handler'[h].snapshot = {}
                   /\ table'[p] = HandleEvent(table[p], p, Head(w.ch))
<1> DEFINE h == stream[p]
<1>1. h \in Handler /\ Serving(h) /\ handler[h].peer = p /\ handler[h].pc = "stream"
  BY DEF Deliver, Streams, Serving, Shape
<1>2. handler[h] \in Watch
  BY <1>1, HandlerForms DEF Shape
<1>3. CASE \E q \in handler[h].snapshot :
        /\ handler' = [handler EXCEPT ![h].snapshot = @ \ {q}]
        /\ table' = [table EXCEPT ![p] = HandleEvent(@, p, Join(q))]
  <2>1. PICK q \in handler[h].snapshot :
          /\ handler' = [handler EXCEPT ![h].snapshot = @ \ {q}]
          /\ table' = [table EXCEPT ![p] = HandleEvent(@, p, Join(q))]
    BY <1>3
  <2>2. q \in Peer
    BY <1>2 DEF Watch
  <2> QED BY <1>1, <1>2, <2>1, <2>2 DEF Shape, Watch
<1>4. CASE /\ handler[h].snapshot = {} /\ handler[h].ch # <<>>
           /\ handler' = [handler EXCEPT ![h].ch = Tail(@)]
           /\ table' = [table EXCEPT ![p] = HandleEvent(@, p, Head(handler[h].ch))]
  BY <1>1, <1>2, <1>4 DEF Shape, Watch
<1> QED BY <1>3, <1>4 DEF Deliver

\* What Publish does to each handler.
LEMMA PublishSteps ==
  ASSUME Shape, NEW e \in Event, Publish(e), NEW h \in Handler
  PROVE  /\ ~Subscribed(h) => handler'[h] = handler[h]
         /\ Subscribed(h) =>
              /\ Serving(h) /\ handler[h].ch \in Seq(Event)
              /\ handler'[h].ch = IF Full(h) THEN handler[h].ch ELSE Append(handler[h].ch, e)
         /\ handler'[h].pc = handler[h].pc
         /\ Serving(h) => /\ handler'[h].peer = handler[h].peer
                          /\ handler'[h].snapshot = handler[h].snapshot
<1>1. CASE ~Subscribed(h)
  BY <1>1 DEF Publish
<1>2. CASE Subscribed(h)
  <2>1. handler'[h] = Enqueue(h, e)
    BY <1>2 DEF Publish
  <2> QED BY <1>2, <2>1, EnqueueForms, HandlerForms DEF Shape
<1> QED BY <1>1, <1>2

LEMMA NextStreams == Shape /\ Streams /\ [Next]_vars => Streams'
<1> SUFFICES ASSUME Shape, Streams, [Next]_vars PROVE Streams'
  OBVIOUS
<1>0. CASE UNCHANGED <<handler, client, stream, table>>
  BY <1>0 DEF Streams, Serving
<1>1. CASE SweepCheck \/ SweepCommit \/ \E p \in Peer : LeaveCommit(p) \/ Lapse(p)
  BY <1>0, <1>1 DEF SweepCheck, SweepCommit, LeaveCommit, Lapse
<1>2. CASE CoordRestart
  <2>1. /\ \A p \in Peer : stream'[p] = NoHandler /\ client'[p] # "streaming"
        /\ \A h \in Handler : handler'[h].pc = "idle"
    BY <1>2 DEF CoordRestart, NoStream
  <2>2. table' = table
    BY <1>2 DEF CoordRestart
  <2> QED BY <2>1, <2>2 DEF Streams
<1>3. ASSUME NEW p \in Peer, Register(p) \/ WatchRefused(p) \/ Fails(p) \/ Stop(p) PROVE Streams'
  <2>1. /\ handler' = handler /\ client'[p] # "streaming" /\ stream'[p] = NoHandler
        /\ \A r \in Peer \ {p} : client'[r] = client[r] /\ stream'[r] = stream[r]
        /\ \A r \in Peer : table'[r] \subseteq table[r]
    BY <1>3 DEF Register, Calls, WatchRefused, Fails, Stop, Streams, Shape, server
  <2> QED BY <2>1 DEF Streams, Serving
<1>4. ASSUME NEW p \in Peer, Deliver(p) PROVE Streams'
  <2> DEFINE h == stream[p]
  <2>1. client' = client /\ stream' = stream
    BY <1>4 DEF Deliver
  <2>2. \A g \in Handler : handler'[g].pc = handler[g].pc
    BY <1>4, DeliverSteps
  <2>3. \A g \in Handler : handler[g].pc # "stream" => handler'[g] = handler[g]
    BY <1>4, DeliverSteps
  <2>4. \A g \in Handler : Serving(g) => handler'[g].peer = handler[g].peer
    BY <1>4, DeliverSteps
  <2>5. p \notin table'[p]
    <3>1. \A t, e : p \notin t => p \notin HandleEvent(t, p, e)
      BY DEF HandleEvent
    <3>2. p \notin table[p]
      BY DEF Streams
    <3>3. \E e : table'[p] = HandleEvent(table[p], p, e)
      BY <1>4, DeliverSteps
    <3> QED BY <3>1, <3>2, <3>3
  <2>6. \A r \in Peer : r \notin table'[r]
    BY <1>4, <2>5, DeliverSteps DEF Streams
  <2> QED BY <2>1, <2>2, <2>3, <2>4, <2>6 DEF Streams, Serving, Shape
<1>5. ASSUME NEW p \in Peer, NEW h \in Handler, WatchAuthorize(p, h) PROVE Streams'
  <2> DEFINE w == [pc |-> "authorized", peer |-> p, ch |-> <<>>, snapshot |-> {}]
  <2>1. /\ ~Serving(h) /\ handler'[h] = w /\ \A g \in Handler \ {h} : handler'[g] = handler[g]
        /\ stream'[p] = h /\ client'[p] = "streaming" /\ table' = table
        /\ \A r \in Peer \ {p} : client'[r] = client[r] /\ stream'[r] = stream[r]
    BY <1>5 DEF WatchAuthorize, OpensStream, Shape
  <2>2. w.pc = "authorized" /\ w.peer = p /\ w.ch = <<>> /\ w.snapshot = {}
    OBVIOUS
  <2> HIDE DEF w
  <2>3. h # NoHandler
    BY NoHandlerAssumption
  <2>4. ASSUME NEW r \in Peer, stream'[r] # NoHandler
        PROVE  Serving(stream[r])' /\ handler'[stream'[r]].peer = r
    <3>1. CASE r = p BY <2>1, <2>2, <3>1 DEF Serving
    <3>2. CASE r # p
      <4>1. stream[r] \in Handler /\ Serving(stream[r]) /\ handler[stream[r]].peer = r
        BY <2>1, <2>4, <3>2 DEF Streams, Shape
      <4>2. handler'[stream[r]] = handler[stream[r]]
        BY <2>1, <4>1
      <4> QED BY <2>1, <3>2, <4>1, <4>2 DEF Serving
    <3> QED BY <3>1, <3>2
  <2>5. \A g \in Handler : handler'[g] = handler[g] \/ (handler'[g].ch = <<>> /\ handler'[g].snapshot = {})
    BY <2>1, <2>2
  <2> QED BY <2>1, <2>3, <2>4, <2>5 DEF Streams
<1>6. ASSUME NEW e \in Event, Publish(e) PROVE Streams'
  <2>1. stream' = stream /\ table' = table /\ \A p \in Peer : client'[p] = "streaming" <=> client[p] = "streaming"
    BY <1>6, EventForms DEF Publish, Answered, Answer, Shape
  <2>2. \A g \in Handler : handler'[g].pc = handler[g].pc
    BY <1>6, PublishSteps
  <2>3. \A g \in Handler : Serving(g) =>
          handler'[g].peer = handler[g].peer /\ handler'[g].snapshot = handler[g].snapshot
    BY <1>6, PublishSteps
  <2>4. \A g \in Handler : handler[g].pc \in {"authorized", "connected"} => handler'[g] = handler[g]
    BY <1>6, PublishSteps DEF Subscribed
  <2>5. \A p \in Peer : stream'[p] # NoHandler => Serving(stream[p])' /\ handler'[stream'[p]].peer = p
    BY <2>1, <2>2, <2>3 DEF Streams, Serving, Shape
  <2>6. \A g \in Handler : handler'[g].pc \in {"authorized", "connected"} => handler'[g].ch = <<>>
    BY <2>2, <2>4 DEF Streams
  <2>7. \A g \in Handler :
          handler'[g].pc \in {"authorized", "connected", "subscribed"} => handler'[g].snapshot = {}
    BY <2>2, <2>3 DEF Streams, Serving
  <2> QED BY <2>1, <2>5, <2>6, <2>7 DEF Streams
<1>7. ASSUME NEW h \in Handler, WatchMark(h) \/ WatchSubscribe(h) \/ WatchSnapshot(h) PROVE Streams'
  <2>1. stream' = stream /\ table' = table /\ client' = client
    BY <1>7 DEF WatchMark, WatchSubscribe, WatchSnapshot
  <2>2. \A g \in Handler : Serving(g) => Serving(g)' /\ handler'[g].peer = handler[g].peer
    BY <1>7, WatchSteps DEF Serving
  <2>3. \A g \in Handler \ {h} : handler'[g] = handler[g]
    BY <1>7, WatchSteps
  <2>4. handler'[h].pc \in {"authorized", "connected"} => handler[h].pc = "authorized" /\ handler'[h].ch = handler[h].ch
    BY <1>7, WatchSteps
  <2>5. handler'[h].pc \in {"authorized", "connected", "subscribed"} =>
          handler[h].pc \in {"authorized", "connected"} /\ handler'[h].snapshot = handler[h].snapshot
    BY <1>7, WatchSteps
  <2>6. \A g \in Handler : handler'[g].pc \in {"authorized", "connected"} => handler'[g].ch = <<>>
    BY <2>3, <2>4 DEF Streams
  <2>7. \A g \in Handler :
          handler'[g].pc \in {"authorized", "connected", "subscribed"} => handler'[g].snapshot = {}
    BY <2>3, <2>5 DEF Streams
  <2> QED BY <2>1, <2>2, <2>6, <2>7 DEF Streams, Shape
<1>8. ASSUME NEW h \in Handler, WatchTouch(h) PROVE Streams'
  BY <1>0, <1>8 DEF WatchTouch
<1>9. ASSUME NEW h \in Handler, WatchEnd(h) PROVE Streams'
  <2>1. /\ stream' = stream /\ table' = table /\ client' = client
        /\ handler'[h].pc = "idle" /\ \A g \in Handler \ {h} : handler'[g] = handler[g]
        /\ stream[handler[h].peer] # h
    BY <1>9 DEF WatchEnd, NoStream, Shape
  <2>2. \A p \in Peer : stream[p] # NoHandler => stream[p] \in Handler \ {h}
    BY <2>1 DEF Streams, Shape
  <2> QED BY <2>1, <2>2 DEF Streams, Serving
<1> QED BY <1>0, <1>1, <1>2, <1>3, <1>4, <1>5, <1>6, <1>7, <1>8, <1>9 DEF Next, vars
-----------------------------------------------------------------------------
(***************************************************************************)
(* The count of streams, and the sweep.                                    *)
(***************************************************************************)
\* A step that leaves the mark and the peer of every handler alone.
LEMMA SameHandlers ==
  ASSUME Counted, connected' = connected,
         \A h \in Handler : /\ Marked(h)' <=> Marked(h)
                            /\ Marked(h) => handler'[h].peer = handler[h].peer
  PROVE  Counted'
<1>1. \A p \in Peer : Handlers(p)' = Handlers(p)
  BY DEF Handlers
<1> QED BY <1>1 DEF Counted

LEMMA NextCounted == Shape /\ Streams /\ Counted /\ [Next]_vars => Counted'
<1> SUFFICES ASSUME Shape, Streams, Counted, [Next]_vars PROVE Counted'
  OBVIOUS
<1>0. CASE UNCHANGED <<handler, connected>>
  <2>1. \A h \in Handler : /\ Marked(h)' <=> Marked(h) /\ handler'[h].peer = handler[h].peer
    BY <1>0 DEF Marked
  <2> QED BY <1>0, <2>1, SameHandlers
<1>1. CASE SweepCheck \/ SweepCommit \/ \E h \in Handler : WatchTouch(h)
  BY <1>0, <1>1 DEF SweepCheck, SweepCommit, WatchTouch
<1>2. CASE CoordRestart
  <2>1. \A p \in Peer : Handlers(p)' = {} /\ connected'[p] = 0
    BY <1>2 DEF CoordRestart, Handlers, Marked, NoStream
  <2> QED BY <2>1, FS_EmptySet DEF Counted
<1>3. ASSUME NEW p \in Peer,
             Register(p) \/ LeaveCommit(p) \/ Lapse(p) \/ WatchRefused(p) \/ Fails(p) \/ Stop(p)
      PROVE  Counted'
  BY <1>0, <1>3 DEF Register, LeaveCommit, Lapse, WatchRefused, Fails, Stop, server
<1>4. ASSUME NEW p \in Peer, Deliver(p) PROVE Counted'
  <2>1. connected' = connected
    BY <1>4 DEF Deliver, server
  <2>2. ASSUME NEW g \in Handler
        PROVE  handler'[g].pc = handler[g].pc /\ handler'[g].peer = handler[g].peer
    BY <1>4, DeliverSteps
  <2> QED BY <2>1, <2>2, SameHandlers DEF Marked
<1>5. ASSUME NEW p \in Peer, NEW h \in Handler, WatchAuthorize(p, h) PROVE Counted'
  <2>1. connected' = connected /\ ~Serving(h) /\ \A g \in Handler \ {h} : handler'[g] = handler[g]
    BY <1>5 DEF WatchAuthorize, server, Shape
  <2>2. ~Marked(h) /\ ~Marked(h)'
    <3>1. handler'[h].pc = "authorized"
      BY <1>5 DEF WatchAuthorize, Shape
    <3> QED BY <2>1, <3>1 DEF Marked, Serving
  <2>3. \A g \in Handler : /\ Marked(g)' <=> Marked(g)
                           /\ Marked(g) => handler'[g].peer = handler[g].peer
    BY <2>1, <2>2 DEF Marked
  <2> QED BY <2>1, <2>3, SameHandlers
<1>6. ASSUME NEW e \in Event, Publish(e) PROVE Counted'
  <2>1. connected' = connected
    BY <1>6 DEF Publish
  <2>2. ASSUME NEW g \in Handler
        PROVE  handler'[g].pc = handler[g].pc /\ (Serving(g) => handler'[g].peer = handler[g].peer)
    BY <1>6, PublishSteps
  <2> QED BY <2>1, <2>2, SameHandlers DEF Marked, Serving
<1>7. ASSUME NEW h \in Handler, WatchSubscribe(h) \/ WatchSnapshot(h) PROVE Counted'
  <2>1. connected' = connected
    BY <1>7 DEF WatchSubscribe, WatchSnapshot, server
  <2>2. handler'[h].peer = handler[h].peer /\ \A g \in Handler \ {h} : handler'[g] = handler[g]
    BY <1>7, WatchSteps
  <2>3. Marked(h)' /\ Marked(h)
    <3>1. ~WatchMark(h)
      BY <1>7 DEF WatchMark, WatchSubscribe, WatchSnapshot
    <3> QED BY <1>7, <3>1, WatchSteps DEF Marked
  <2>4. \A g \in Handler : /\ Marked(g)' <=> Marked(g)
                           /\ Marked(g) => handler'[g].peer = handler[g].peer
    BY <2>2, <2>3 DEF Marked
  <2> QED BY <2>1, <2>4, SameHandlers
<1>8. ASSUME NEW h \in Handler, WatchMark(h) PROVE Counted'
  <2> DEFINE p == handler[h].peer
  <2>1. /\ p \in Peer /\ connected' = [connected EXCEPT ![p] = @ + 1]
        /\ handler[h].pc = "authorized" /\ handler'[h].pc = "connected" /\ handler'[h].peer = p
        /\ \A g \in Handler \ {h} : handler'[g] = handler[g]
    BY <1>8, WatchSteps, HandlerForms DEF WatchMark, Shape
  <2>2. h \notin Handlers(p) /\ Handlers(p)' = Handlers(p) \cup {h}
    BY <2>1 DEF Handlers, Marked
  <2>3. \A r \in Peer \ {p} : Handlers(r)' = Handlers(r) /\ connected'[r] = connected[r]
    BY <2>1 DEF Handlers, Marked, Shape
  <2>4. IsFiniteSet(Handlers(p)') /\ Cardinality(Handlers(p)') = Cardinality(Handlers(p)) + 1
    BY <2>1, <2>2, FS_AddElement DEF Counted
  <2>5. connected'[p] = connected[p] + 1
    BY <2>1 DEF Shape
  <2> QED BY <2>1, <2>3, <2>4, <2>5 DEF Counted
<1>9. ASSUME NEW h \in Handler, WatchEnd(h) PROVE Counted'
  <2>1. /\ handler[h].pc = "stream" /\ handler'[h].pc = "idle"
        /\ \A g \in Handler \ {h} : handler'[g] = handler[g]
    BY <1>9 DEF WatchEnd, NoStream, Shape
  <2>2. PICK p \in Peer : p = handler[h].peer /\ connected'[p] = Disconnected(connected[p])
    BY <1>9, <2>1, HandlerForms DEF WatchEnd, Serving, Shape
  <2>3. h \in Handlers(p) /\ Handlers(p)' = Handlers(p) \ {h}
    BY <2>1, <2>2 DEF Handlers, Marked
  <2>4. \A r \in Peer \ {p} : Handlers(r)' = Handlers(r) /\ connected'[r] = connected[r]
    BY <1>9, <2>1, <2>2 DEF WatchEnd, Handlers, Marked, Shape
  <2>5. IsFiniteSet(Handlers(p)') /\ Cardinality(Handlers(p)') = Cardinality(Handlers(p)) - 1
    BY <2>2, <2>3, FS_RemoveElement DEF Counted
  <2>6. Cardinality(Handlers(p)) \in Nat /\ Cardinality(Handlers(p)') \in Nat
    BY <2>2, <2>5, FS_CardinalityType DEF Counted
  <2>7. connected'[p] = Cardinality(Handlers(p)')
    BY <2>2, <2>5, <2>6 DEF Disconnected, Counted
  <2> QED BY <2>2, <2>4, <2>5, <2>7 DEF Counted
<1> QED BY <1>0, <1>1, <1>2, <1>3, <1>4, <1>5, <1>6, <1>7, <1>8, <1>9 DEF Next, vars

LEMMA NextSpared == Shape /\ Streams /\ Spared /\ [Next]_vars => Spared'
<1> SUFFICES ASSUME Shape, Streams, Spared, [Next]_vars PROVE Spared'
  OBVIOUS
<1>0. CASE UNCHANGED <<registered, fresh, doomed, connected, client, handler>>
  BY <1>0 DEF Spared
<1>1. CASE SweepCheck
  BY <1>1 DEF SweepCheck, Sweepable, Spared
<1>2. CASE SweepCommit
  BY <1>2 DEF SweepCommit, Spared
<1>3. CASE CoordRestart
  <2>1. /\ doomed' = {} /\ \A p \in Peer : client'[p] \in {"off", "retry"}
        /\ \A h \in Handler : handler'[h].pc = "idle"
        /\ registered' = registered /\ fresh' = fresh
    BY <1>3 DEF CoordRestart, NoStream
  <2> QED BY <2>1 DEF Spared, Shape
<1>4. ASSUME NEW p \in Peer, Register(p) PROVE Spared'
  BY <1>4 DEF Register, Calls, Spared, Shape
<1>5. ASSUME NEW p \in Peer, LeaveCommit(p) PROVE Spared'
  BY <1>5 DEF LeaveCommit, Spared
<1>6. ASSUME NEW p \in Peer, Lapse(p) PROVE Spared'
  BY <1>6 DEF Lapse, Spared
<1>7. ASSUME NEW p \in Peer, WatchRefused(p) \/ Fails(p) \/ Stop(p) PROVE Spared'
  <2>1. /\ UNCHANGED <<registered, fresh, doomed, connected, handler>>
        /\ client'[p] \in {"off", "retry"} /\ \A r \in Peer \ {p} : client'[r] = client[r]
    BY <1>7 DEF WatchRefused, Fails, Stop, server, Shape
  <2> QED BY <2>1 DEF Spared, Shape
<1>8. ASSUME NEW p \in Peer, Deliver(p) PROVE Spared'
  <2>1. UNCHANGED <<registered, fresh, doomed, connected, client>>
    BY <1>8 DEF Deliver, server
  <2>2. \A g \in Handler : handler'[g].pc = handler[g].pc /\ handler'[g].peer = handler[g].peer
    BY <1>8, DeliverSteps
  <2> QED BY <2>1, <2>2 DEF Spared
<1>9. ASSUME NEW p \in Peer, NEW h \in Handler, WatchAuthorize(p, h) PROVE Spared'
  <2>1. /\ UNCHANGED <<registered, fresh, doomed, connected>> /\ client[p] = "registered"
        /\ client'[p] = "streaming" /\ \A r \in Peer \ {p} : client'[r] = client[r]
        /\ handler'[h].peer = p /\ \A g \in Handler \ {h} : handler'[g] = handler[g]
    BY <1>9 DEF WatchAuthorize, OpensStream, server, Shape
  <2> QED BY <2>1 DEF Spared, Shape
<1>10. ASSUME NEW e \in Event, Publish(e) PROVE Spared'
  <2>1. UNCHANGED <<registered, fresh, doomed, connected>>
    BY <1>10 DEF Publish
  <2>2. \A p \in Peer : client'[p] \in {"calling", "registered"} => client[p] \in {"calling", "registered"}
    BY <1>10, EventForms DEF Publish, Answered, Answer, Shape
  <2>3. \A g \in Handler : handler'[g].pc = handler[g].pc /\ (Serving(g) => handler'[g].peer = handler[g].peer)
    BY <1>10, PublishSteps
  <2> QED BY <2>1, <2>2, <2>3 DEF Spared, Serving, Shape
<1>11. ASSUME NEW h \in Handler, WatchSubscribe(h) \/ WatchSnapshot(h) PROVE Spared'
  <2>1. UNCHANGED <<registered, fresh, doomed, connected, client>>
    BY <1>11 DEF WatchSubscribe, WatchSnapshot, server
  <2>2. ~WatchMark(h)
    BY <1>11 DEF WatchMark, WatchSubscribe, WatchSnapshot
  <2>3. handler'[h].pc # "authorized" /\ \A g \in Handler \ {h} : handler'[g] = handler[g]
    BY <1>11, <2>2, WatchSteps
  <2> QED BY <2>1, <2>3 DEF Spared
<1>12. ASSUME NEW h \in Handler, WatchMark(h) PROVE Spared'
  <2>1. /\ UNCHANGED <<registered, fresh, doomed, client>> /\ handler[h].pc = "authorized"
        /\ connected' = [connected EXCEPT ![handler[h].peer] = @ + 1]
    BY <1>12 DEF WatchMark
  <2>2. handler'[h].pc # "authorized" /\ \A g \in Handler \ {h} : handler'[g] = handler[g]
    BY <1>12, WatchSteps
  <2>3. handler[h].peer \notin doomed
    BY <2>1 DEF Spared
  <2>4. \A p \in doomed : connected'[p] = connected[p]
    BY <2>1, <2>3 DEF Shape
  <2> QED BY <2>1, <2>2, <2>4 DEF Spared
<1>13. ASSUME NEW h \in Handler, WatchTouch(h) PROVE Spared'
  BY <1>13 DEF WatchTouch, Spared
<1>14. ASSUME NEW h \in Handler, WatchEnd(h) PROVE Spared'
  <2>1. /\ UNCHANGED <<registered, fresh, doomed, client>>
        /\ connected' = [connected EXCEPT ![handler[h].peer] = Disconnected(@)]
        /\ handler'[h].pc = "idle" /\ \A g \in Handler \ {h} : handler'[g] = handler[g]
    BY <1>14 DEF WatchEnd, NoStream, Shape
  <2>2. \A p \in doomed : connected'[p] = 0
    BY <2>1 DEF Spared, Shape, Disconnected
  <2> QED BY <2>1, <2>2 DEF Spared
<1> QED BY <1>0, <1>1, <1>2, <1>3, <1>4, <1>5, <1>6, <1>7, <1>8, <1>9, <1>10, <1>11, <1>12,
           <1>13, <1>14 DEF Next, vars
-----------------------------------------------------------------------------
(***************************************************************************)
(* The peers that are registered.                                          *)
(***************************************************************************)
\* A step that leaves alone what p is going to be told of q.
LEMMA AnnouncedFrame ==
  ASSUME Announced, NEW p \in Peer, NEW q \in Peer, Attentive(p)', q # p,
         q \in registered \ late'[stream'[p]], late' = late, lost' = lost,
         stream'[p] = stream[p], table'[p] = table[p], handler'[stream[p]] = handler[stream[p]],
         BagToSet(unpublished) \subseteq BagToSet(unpublished')
  PROVE  Coming(p, q)'
<1>1. Attentive(p) /\ q \in registered \ late[stream[p]]
  BY DEF Attentive, Subscribed
<1>2. Coming(p, q)
  BY <1>1 DEF Announced
<1> QED BY <1>2 DEF Coming, BagIn

LEMMA NextAnnounced == Shape /\ Streams /\ Shape' /\ Streams' /\ Announced /\ [Next]_vars => Announced'
<1> SUFFICES ASSUME Shape, Streams, Shape', Streams', Announced, [Next]_vars,
                    NEW p \in Peer, NEW q \in Peer, Attentive(p)', q # p,
                    q \in registered' \ late'[stream'[p]]
             PROVE  Coming(p, q)'
  BY DEF Announced
<1>a. /\ stream'[p] \in Handler /\ stream'[p] # NoHandler /\ handler'[stream'[p]].peer = p
      /\ handler'[stream'[p]].pc \in {"subscribed", "stream"} /\ stream'[p] \notin lost'
  BY NoHandlerAssumption DEF Attentive, Subscribed, Streams, Shape
<1>0. CASE /\ q \in registered /\ UNCHANGED <<handler, late, lost, stream, table>>
           /\ BagToSet(unpublished) \subseteq BagToSet(unpublished')
  BY <1>0, AnnouncedFrame
<1>1. CASE UNCHANGED vars
  BY <1>0, <1>1 DEF vars
<1>2. CASE SweepCheck
  BY <1>0, <1>2 DEF SweepCheck, extra
<1>3. CASE SweepCommit
  <2>1. BagToSet(unpublished) \subseteq BagToSet(unpublished')
    BY <1>3, BagPlus DEF SweepCommit, Shape
  <2> QED BY <1>0, <1>3, <2>1 DEF SweepCommit, extra
<1>4. CASE CoordRestart
  BY <1>4, <1>a DEF CoordRestart
<1>5. ASSUME NEW r \in Peer, Register(r) PROVE Coming(p, q)'
  <2>1. BagToSet(unpublished') = BagToSet(unpublished) \cup {Join(r)}
    BY <1>5, BagPlus DEF Register, Shape
  <2>2. CASE q = r BY <2>1, <2>2 DEF Coming, BagIn
  <2>3. CASE q # r BY <1>0, <1>5, <2>1, <2>3 DEF Register, extra
  <2> QED BY <2>2, <2>3
<1>6. ASSUME NEW r \in Peer, LeaveCommit(r) PROVE Coming(p, q)'
  <2>1. BagToSet(unpublished) \subseteq BagToSet(unpublished')
    BY <1>6, BagPlus DEF LeaveCommit, Shape
  <2> QED BY <1>0, <1>6, <2>1 DEF LeaveCommit, extra
<1>7. ASSUME NEW r \in Peer, Lapse(r) \/ WatchRefused(r) PROVE Coming(p, q)'
  BY <1>0, <1>7 DEF Lapse, WatchRefused, server, extra
<1>8. ASSUME NEW r \in Peer, Fails(r) \/ Stop(r) PROVE Coming(p, q)'
  <2>1. r # p
    BY <1>8, <1>a DEF Fails, Stop, Shape
  <2>2. UNCHANGED <<registered, handler, unpublished, late, lost>>
    BY <1>8 DEF Fails, Stop, server
  <2>3. stream'[p] = stream[p] /\ table'[p] = table[p]
    BY <1>8, <2>1 DEF Fails, Stop, Shape
  <2> QED BY <2>2, <2>3, AnnouncedFrame
<1>9. ASSUME NEW r \in Peer, NEW h \in Handler, WatchAuthorize(r, h) PROVE Coming(p, q)'
  <2>1. /\ handler'[h].pc = "authorized" /\ handler'[h].peer = r
        /\ \A g \in Handler \ {h} : handler'[g] = handler[g]
        /\ registered' = registered /\ table' = table /\ unpublished' = unpublished
        /\ stream'[r] = h /\ \A x \in Peer \ {r} : stream'[x] = stream[x]
    BY <1>9 DEF WatchAuthorize, OpensStream, server, Shape
  <2>2. p # r /\ stream'[p] \in Handler \ {h} /\ stream[p] = stream'[p]
    BY <1>a, <2>1
  <2>3. late'[stream[p]] = late[stream[p]] /\ stream[p] \notin lost
    BY <1>9, <1>a, <2>2 DEF WatchAuthorize, Shape
  <2>4. Attentive(p) /\ q \in registered \ late[stream[p]]
    BY <1>a, <2>1, <2>2, <2>3 DEF Attentive, Subscribed
  <2>5. Coming(p, q)
    BY <2>4 DEF Announced
  <2>6. handler'[stream'[p]] = handler[stream[p]] /\ table'[p] = table[p]
    BY <2>1, <2>2
  <2> QED BY <2>1, <2>5, <2>6 DEF Coming
<1>10. ASSUME NEW h \in Handler, WatchTouch(h) PROVE Coming(p, q)'
  BY <1>0, <1>10 DEF WatchTouch, extra
<1>11. ASSUME NEW h \in Handler, WatchEnd(h) PROVE Coming(p, q)'
  <2>1. /\ UNCHANGED <<registered, unpublished, late, lost, stream, table>>
        /\ handler'[h].pc = "idle" /\ \A g \in Handler \ {h} : handler'[g] = handler[g]
    BY <1>11 DEF WatchEnd, NoStream, extra, Shape
  <2>2. handler'[stream[p]] = handler[stream[p]]
    BY <1>a, <2>1
  <2> QED BY <2>1, <2>2, AnnouncedFrame
<1>12. ASSUME NEW h \in Handler, WatchMark(h) \/ WatchSubscribe(h) \/ WatchSnapshot(h)
       PROVE  Coming(p, q)'
  <2>1. UNCHANGED <<registered, unpublished, late, lost, stream, table>>
    BY <1>12 DEF WatchMark, WatchSubscribe, WatchSnapshot, server, extra
  <2>2. CASE stream[p] # h
    <3>1. handler'[stream[p]] = handler[stream[p]]
      BY <1>12, <1>a, <2>1, <2>2, WatchSteps
    <3> QED BY <2>1, <3>1, AnnouncedFrame
  <2>3. CASE stream[p] = h /\ WatchMark(h)
    BY <1>12, <1>a, <2>1, <2>3, WatchSteps
  <2>4. CASE stream[p] = h /\ WatchSubscribe(h) /\ ~WatchMark(h)
    <3>1. handler[h].pc = "connected" /\ handler'[h].pc = "subscribed" /\ handler'[h].ch = handler[h].ch
      BY <2>4, WatchSteps
    <3>2. handler'[h].ch = <<>>
      BY <3>1 DEF Streams
    <3>3. Silent(handler'[h].ch, q)
      BY <3>2 DEF Silent
    <3> QED BY <2>1, <2>4, <3>1, <3>3 DEF Coming
  <2>5. CASE stream[p] = h /\ WatchSnapshot(h)
    <3>1. /\ handler[h].pc = "subscribed" /\ handler'[h].ch = handler[h].ch
          /\ handler'[h].snapshot = registered \ {handler[h].peer} /\ handler'[h].peer = handler[h].peer
      BY <2>5, WatchSteps
    <3>2. q \in handler'[h].snapshot
      BY <1>a, <2>1, <2>5, <3>1
    <3>3. Attentive(p)
      BY <1>a, <2>1, <2>5, <3>1 DEF Attentive, Subscribed
    <3>4. Coming(p, q)
      BY <2>1, <3>3 DEF Announced
    <3> QED BY <2>1, <2>5, <3>1, <3>2, <3>4 DEF Coming
  <2> QED BY <1>12, <2>2, <2>3, <2>4, <2>5
<1>13. ASSUME NEW e \in Event, Publish(e) PROVE Coming(p, q)'
  <2> DEFINE h == stream[p]
  <2>1. UNCHANGED <<registered, stream, table>> /\ h \in Handler /\ h # NoHandler
    BY <1>13, <1>a DEF Publish
  <2>2. handler'[h].pc = handler[h].pc
    BY <1>13, <2>1, PublishSteps
  <2>3. Subscribed(h)
    BY <1>a, <2>1, <2>2 DEF Subscribed
  <2>4. h \notin lost /\ ~Full(h)
    BY <1>13, <1>a, <2>1, <2>3 DEF Publish
  <2>5. /\ handler[h].ch \in Seq(Event) /\ handler'[h].ch = Append(handler[h].ch, e)
        /\ handler'[h].snapshot = handler[h].snapshot
    BY <1>13, <2>1, <2>3, <2>4, PublishSteps
  <2>6. CASE e.peer = q
    <3>1. late'[h] = IF e.type = "LEAVE" /\ e.peer \in registered
                       THEN late[h] \cup {e.peer} ELSE late[h] \ {e.peer}
      BY <1>13, <2>1 DEF Publish
    <3>2. e = Join(q)
      BY <2>1, <2>6, <3>1, EventForms
    <3>3. LastIs(handler'[h].ch, Join(q))
      BY <2>5, <3>2, ChanAppend
    <3> QED BY <2>1, <3>3 DEF Coming
  <2>7. CASE e.peer # q
    <3>1. q \notin late[h]
      BY <1>13, <2>1, <2>7 DEF Publish
    <3>2. Coming(p, q)
      BY <2>1, <2>3, <2>4, <3>1 DEF Announced, Attentive
    <3>3. CASE BagIn(Join(q), unpublished)
      <4>1. Join(q) # e
        BY <2>7, EventFacts
      <4>2. BagIn(Join(q), unpublished')
        BY <1>13, <3>3, <4>1, BagMinus DEF Publish, BagIn, Shape
      <4> QED BY <4>2 DEF Coming
    <3>4. CASE LastIs(handler[h].ch, Join(q))
      <4>1. LastIs(handler'[h].ch, Join(q))
        BY <2>5, <2>7, <3>4, ChanAppend, EventFacts
      <4> QED BY <2>1, <4>1 DEF Coming
    <3>5. CASE Silent(handler[h].ch, q) /\ (handler[h].pc = "stream" => q \in handler[h].snapshot \cup table[p])
      <4>1. Silent(handler'[h].ch, q)
        BY <2>5, <2>7, <3>5, ChanAppend
      <4> QED BY <2>1, <2>2, <2>5, <3>5, <4>1 DEF Coming
    <3> QED BY <3>2, <3>3, <3>4, <3>5 DEF Coming
  <2> QED BY <2>6, <2>7
<1>14. ASSUME NEW r \in Peer, Deliver(r) PROVE Coming(p, q)'
  <2>1. UNCHANGED <<registered, unpublished, late, lost, stream>>
    BY <1>14 DEF Deliver, server, extra
  <2>2. CASE r # p
    <3>1. stream[r] # stream[p] /\ table'[p] = table[p]
      BY <1>14, <1>a, <2>1, <2>2, DeliverSteps
    <3>2. handler'[stream[p]] = handler[stream[p]]
      BY <1>14, <1>a, <2>1, <3>1, DeliverSteps
    <3> QED BY <2>1, <3>1, <3>2, AnnouncedFrame
  <2>3. CASE r = p
    <3> DEFINE h == stream[p]
               w == handler[h]
    <3>1. /\ h \in Handler /\ Serving(h) /\ w.pc = "stream" /\ handler'[h].pc = "stream"
          /\ w \in Watch /\ w.ch \in Seq(Event)
      BY <1>14, <2>3, DeliverSteps, HandlerForms DEF Shape
    <3>2. Attentive(p)
      BY <1>a, <2>1, <3>1 DEF Attentive, Subscribed
    <3>3. Coming(p, q)
      BY <2>1, <3>2 DEF Announced
    <3>4. CASE \E x \in Peer :
                 /\ x \in w.snapshot /\ handler'[h].snapshot = w.snapshot \ {x}
                 /\ handler'[h].ch = w.ch
                 /\ table'[p] = HandleEvent(table[p], p, Join(x))
      <4>1. PICK x \in Peer :
              /\ x \in w.snapshot /\ handler'[h].snapshot = w.snapshot \ {x}
              /\ handler'[h].ch = w.ch
              /\ table'[p] = HandleEvent(table[p], p, Join(x))
        BY <3>4
      <4>2. q \in w.snapshot \cup table[p] => q \in handler'[h].snapshot \cup table'[p]
        BY <4>1, EventFacts DEF HandleEvent
      <4> QED BY <2>1, <3>1, <3>3, <4>1, <4>2 DEF Coming
    <3>5. CASE /\ w.snapshot = {} /\ w.ch # <<>>
               /\ handler'[h].ch = Tail(w.ch) /\ handler'[h].snapshot = {}
               /\ table'[p] = HandleEvent(table[p], p, Head(w.ch))
      <4>1. CASE BagIn(Join(q), unpublished)
        BY <2>1, <4>1 DEF Coming
      <4>2. CASE LastIs(w.ch, Join(q))
        <5>1. \/ LastIs(Tail(w.ch), Join(q))
              \/ Head(w.ch) = Join(q) /\ Silent(Tail(w.ch), q)
          BY <3>1, <3>5, <4>2, ChanTail, EventFacts
        <5>2. Head(w.ch) = Join(q) => q \in table'[p]
          BY <3>5, EventFacts DEF HandleEvent
        <5> QED BY <2>1, <3>1, <3>5, <5>1, <5>2 DEF Coming
      <4>3. CASE Silent(w.ch, q) /\ q \in w.snapshot \cup table[p]
        <5>1. Silent(Tail(w.ch), q) /\ Head(w.ch).peer # q
          BY <3>1, <3>5, <4>3, ChanTail, EventFacts
        <5>2. q \in table'[p]
          BY <3>5, <4>3, <5>1 DEF HandleEvent
        <5> QED BY <2>1, <3>1, <3>5, <5>1, <5>2 DEF Coming
      <4> QED BY <3>1, <3>3, <4>1, <4>2, <4>3 DEF Coming
    <3> QED BY <1>14, <2>3, <3>4, <3>5, DeliverSteps
  <2> QED BY <2>2, <2>3
<1> QED BY <1>1, <1>2, <1>3, <1>4, <1>5, <1>6, <1>7, <1>8, <1>9, <1>10, <1>11, <1>12, <1>13,
           <1>14 DEF Next
-----------------------------------------------------------------------------
(***************************************************************************)
(* The peers that have left.                                               *)
(***************************************************************************)
\* A step that leaves alone what p holds of q and is going to be told of it.
LEMMA ForgottenFrame ==
  ASSUME Forgotten, NEW p \in Peer, NEW q \in Peer, q # p, q \notin registered \cup ghosts[p],
         Holds(p, q)', q \in table'[p] => q \in table[p],
         Chan(p)' = Chan(p), Snap(p)' = Snap(p),
         BagToSet(unpublished) \subseteq BagToSet(unpublished')
  PROVE  Going(p, q)'
<1>1. Holds(p, q)
  BY DEF Holds
<1>2. Going(p, q)
  BY <1>1 DEF Forgotten
<1> QED BY <1>2 DEF Going, BagIn

\* What a client is going to be told is in the record of its handler.
LEMMA SameHandler ==
  ASSUME NEW p \in Peer, stream'[p] = stream[p],
         stream[p] # NoHandler => /\ handler'[stream[p]].ch = handler[stream[p]].ch
                                  /\ handler'[stream[p]].snapshot = handler[stream[p]].snapshot
  PROVE  Chan(p)' = Chan(p) /\ Snap(p)' = Snap(p)
BY DEF Chan, Snap

LEMMA NextForgotten == Shape /\ Streams /\ Forgotten /\ [Next]_vars => Forgotten'
<1> SUFFICES ASSUME Shape, Streams, Forgotten, [Next]_vars,
                    NEW p \in Peer, NEW q \in Peer, q # p, q \notin registered' \cup ghosts'[p],
                    Holds(p, q)'
             PROVE  Going(p, q)'
  BY DEF Forgotten
<1>a. stream[p] # NoHandler => stream[p] \in Handler /\ Serving(stream[p]) /\ handler[stream[p]].peer = p
  BY DEF Streams, Shape
<1>0. CASE /\ q \notin registered /\ UNCHANGED <<handler, stream, table, ghosts>>
           /\ BagToSet(unpublished) \subseteq BagToSet(unpublished')
  BY <1>0, SameHandler, ForgottenFrame
<1>1. CASE UNCHANGED vars
  BY <1>0, <1>1 DEF vars
<1>2. CASE SweepCheck
  BY <1>0, <1>2 DEF SweepCheck, extra
<1>3. CASE SweepCommit
  <2>1. BagToSet(unpublished') = BagToSet(unpublished) \cup {Leave(r) : r \in doomed}
    BY <1>3, BagPlus DEF SweepCommit, Shape
  <2>2. CASE q \in doomed BY <2>1, <2>2 DEF Going, BagIn
  <2>3. CASE q \notin doomed BY <1>0, <1>3, <2>1, <2>3 DEF SweepCommit, extra
  <2> QED BY <2>2, <2>3
<1>4. CASE CoordRestart
  <2>1. /\ stream'[p] = NoHandler /\ UNCHANGED <<registered, table>>
        /\ q \notin ghosts[p] \cup Unread(p) \cup {x \in table[p] \ registered : BagIn(Leave(x), unpublished)}
    BY <1>4 DEF CoordRestart
  <2>2. q \in table[p]
    BY <2>1 DEF Holds, Chan, Snap, Mentions
  <2>3. Going(p, q)
    BY <2>1, <2>2 DEF Forgotten, Holds
  <2>4. LastIs(Chan(p), Leave(q))
    BY <2>1, <2>2, <2>3 DEF Going
  <2>5. q \in Unread(p)
    BY <2>1, <2>2, <2>4 DEF Unread, LastIs, Chan
  <2> QED BY <2>1, <2>5
<1>5. ASSUME NEW r \in Peer, Register(r) PROVE Going(p, q)'
  <2>1. BagToSet(unpublished) \subseteq BagToSet(unpublished')
    BY <1>5, BagPlus DEF Register, Shape
  <2> QED BY <1>0, <1>5, <2>1 DEF Register, extra
<1>6. ASSUME NEW r \in Peer, LeaveCommit(r) PROVE Going(p, q)'
  <2>1. BagToSet(unpublished) \subseteq BagToSet(unpublished')
    BY <1>6, BagPlus DEF LeaveCommit, Shape
  <2>2. CASE q \in registered
    <3>1. q = r /\ BagToSet(unpublished') = BagToSet(unpublished) \cup {Leave(q)}
      BY <1>6, <2>2, BagPlus DEF LeaveCommit, Shape
    <3> QED BY <3>1 DEF Going, BagIn
  <2>3. CASE q \notin registered
    BY <1>0, <1>6, <2>1, <2>3 DEF LeaveCommit, extra
  <2> QED BY <2>2, <2>3
<1>7. ASSUME NEW r \in Peer, Lapse(r) \/ WatchRefused(r) PROVE Going(p, q)'
  BY <1>0, <1>7 DEF Lapse, WatchRefused, server, extra
<1>8. ASSUME NEW r \in Peer, Fails(r) PROVE Going(p, q)'
  <2>1. UNCHANGED <<registered, handler, unpublished, table>>
    BY <1>8 DEF Fails, server
  <2>2. CASE r # p
    <3>1. stream'[p] = stream[p] /\ ghosts'[p] = ghosts[p]
      BY <1>8, <2>2 DEF Fails, Shape
    <3> QED BY <2>1, <3>1, SameHandler, ForgottenFrame
  <2>3. CASE r = p
    <3>1. stream'[p] = NoHandler /\ q \notin ghosts[p] \cup Unread(p)
      BY <1>8, <2>3 DEF Fails, Shape
    <3>2. q \in table[p]
      BY <2>1, <3>1 DEF Holds, Chan, Snap, Mentions
    <3>3. Going(p, q)
      BY <2>1, <3>1, <3>2 DEF Forgotten, Holds
    <3>4. ~LastIs(Chan(p), Leave(q))
      BY <2>1, <3>1, <3>2 DEF Unread, LastIs, Chan
    <3> QED BY <2>1, <3>3, <3>4 DEF Going
  <2> QED BY <2>2, <2>3
<1>9. ASSUME NEW r \in Peer, Stop(r) PROVE Going(p, q)'
  <2>1. UNCHANGED <<registered, handler, unpublished>>
    BY <1>9 DEF Stop
  <2>2. CASE r # p
    <3>1. stream'[p] = stream[p] /\ ghosts'[p] = ghosts[p] /\ table'[p] = table[p]
      BY <1>9, <2>2 DEF Stop, Shape
    <3> QED BY <2>1, <3>1, SameHandler, ForgottenFrame
  <2>3. CASE r = p
    <3>1. stream'[p] = NoHandler /\ table'[p] = {}
      BY <1>9, <2>3 DEF Stop, Shape
    <3> QED BY <3>1 DEF Holds, Chan, Snap, Mentions
  <2> QED BY <2>2, <2>3
<1>10. ASSUME NEW r \in Peer, NEW h \in Handler, WatchAuthorize(r, h) PROVE Going(p, q)'
  <2>1. /\ handler'[h].ch = <<>> /\ handler'[h].snapshot = {} /\ ~Serving(h)
        /\ \A g \in Handler \ {h} : handler'[g] = handler[g]
        /\ UNCHANGED <<registered, table, unpublished, ghosts>> /\ client[r] = "registered"
        /\ stream'[r] = h /\ \A x \in Peer \ {r} : stream'[x] = stream[x]
    BY <1>10 DEF WatchAuthorize, OpensStream, server, Shape
  <2>2. Chan(p)' = Chan(p) /\ Snap(p)' = Snap(p)
    <3>1. CASE r # p
      BY <1>a, <2>1, <3>1, SameHandler
    <3>2. CASE r = p
      <4>1. stream[p] = NoHandler
        BY <2>1, <3>2 DEF Streams
      <4> QED BY <2>1, <3>2, <4>1 DEF Chan, Snap
    <3> QED BY <3>1, <3>2
  <2> QED BY <2>1, <2>2, ForgottenFrame
<1>11. ASSUME NEW h \in Handler, WatchTouch(h) PROVE Going(p, q)'
  BY <1>0, <1>11 DEF WatchTouch, extra
<1>12. ASSUME NEW h \in Handler, WatchEnd(h) PROVE Going(p, q)'
  <2>1. /\ UNCHANGED <<registered, unpublished, ghosts, stream, table>>
        /\ stream[handler[h].peer] # h /\ \A g \in Handler \ {h} : handler'[g] = handler[g]
    BY <1>12 DEF WatchEnd, extra, Shape
  <2>2. stream[p] # NoHandler => handler'[stream[p]] = handler[stream[p]]
    BY <1>a, <2>1
  <2> QED BY <2>1, <2>2, SameHandler, ForgottenFrame
<1>13. ASSUME NEW h \in Handler, WatchMark(h) \/ WatchSubscribe(h) \/ WatchSnapshot(h)
       PROVE  Going(p, q)'
  <2>1. UNCHANGED <<registered, unpublished, ghosts, stream, table>>
    BY <1>13 DEF WatchMark, WatchSubscribe, WatchSnapshot, server, extra
  <2>2. CASE stream[p] # h \/ ~WatchSnapshot(h)
    <3>1. stream[p] # NoHandler => /\ handler'[stream[p]].ch = handler[stream[p]].ch
                                   /\ handler'[stream[p]].snapshot = handler[stream[p]].snapshot
      BY <1>a, <1>13, <2>2, WatchSteps
    <3> QED BY <2>1, <3>1, SameHandler, ForgottenFrame
  <2>3. CASE stream[p] = h /\ WatchSnapshot(h)
    <3>1. handler'[h].ch = handler[h].ch /\ handler'[h].snapshot \subseteq registered
      BY <2>3, WatchSteps
    <3>2. Chan(p)' = Chan(p) /\ q \notin Snap(p)'
      BY <2>1, <2>3, <3>1 DEF Chan, Snap
    <3>3. Holds(p, q)
      BY <2>1, <3>2 DEF Holds
    <3> QED BY <2>1, <3>2, <3>3 DEF Forgotten, Going
  <2> QED BY <2>2, <2>3
<1>14. ASSUME NEW r \in Peer, Deliver(r) PROVE Going(p, q)'
  <2>1. UNCHANGED <<registered, unpublished, ghosts, stream>>
    BY <1>14 DEF Deliver, server, extra
  <2>2. CASE r # p
    <3>1. table'[p] = table[p] /\ (stream[p] # NoHandler => handler'[stream[p]] = handler[stream[p]])
      BY <1>14, <1>a, <2>2, DeliverSteps
    <3> QED BY <2>1, <3>1, SameHandler, ForgottenFrame
  <2>3. CASE r = p
    <3> DEFINE h == stream[p]
               w == handler[h]
    <3>1. h \in Handler /\ h # NoHandler /\ Serving(h) /\ w.ch \in Seq(Event)
      BY <1>14, <2>3, NoHandlerAssumption, DeliverSteps, HandlerForms DEF Shape
    <3>2. /\ Chan(p) = w.ch /\ Snap(p) = w.snapshot
          /\ Chan(p)' = handler'[h].ch /\ Snap(p)' = handler'[h].snapshot
      BY <2>1, <3>1 DEF Chan, Snap
    <3>3. CASE \E x \in Peer :
                 /\ x \in w.snapshot /\ handler'[h].snapshot = w.snapshot \ {x}
                 /\ handler'[h].ch = w.ch
                 /\ table'[p] = HandleEvent(table[p], p, Join(x))
      <4>1. q \in table'[p] \cup Snap(p)' => q \in table[p] \cup Snap(p)
        BY <3>2, <3>3, EventFacts DEF HandleEvent
      <4>2. Holds(p, q)
        BY <3>2, <3>3, <4>1 DEF Holds
      <4> QED BY <2>1, <3>2, <3>3, <4>2 DEF Forgotten, Going
    <3>4. CASE /\ w.snapshot = {} /\ w.ch # <<>>
               /\ handler'[h].ch = Tail(w.ch) /\ handler'[h].snapshot = {}
               /\ table'[p] = HandleEvent(table[p], p, Head(w.ch))
      <4>1. Head(w.ch) \in Event
        BY <3>1, <3>4
      <4>2. q \in table'[p] => q \in table[p] \/ Head(w.ch) = Join(q)
        BY <3>4, <4>1, EventForms DEF HandleEvent
      <4>3. Mentions(Tail(w.ch), Join(q)) \/ Head(w.ch) = Join(q) => Mentions(w.ch, Join(q))
        BY <3>1, <3>4, ChanTail, EventFacts
      <4>4. Holds(p, q)
        BY <3>2, <3>4, <4>2, <4>3 DEF Holds
      <4>5. CASE BagIn(Leave(q), unpublished)
        BY <2>1, <4>5 DEF Going
      <4>6. CASE LastIs(w.ch, Leave(q))
        <5>1. \/ LastIs(Tail(w.ch), Leave(q))
              \/ Head(w.ch) = Leave(q) /\ Silent(Tail(w.ch), q)
          BY <3>1, <3>4, <4>6, ChanTail, EventFacts
        <5>2. ASSUME Head(w.ch) = Leave(q), Silent(Tail(w.ch), q) PROVE FALSE
          <6>1. q \notin table'[p]
            BY <3>4, <5>2, EventFacts DEF HandleEvent
          <6>2. ~Mentions(Tail(w.ch), Join(q))
            BY <5>2, EventFacts DEF Silent, Mentions
          <6> QED BY <3>2, <3>4, <6>1, <6>2 DEF Holds
        <5> QED BY <3>2, <3>4, <5>1, <5>2 DEF Going
      <4> QED BY <2>1, <3>2, <4>4, <4>5, <4>6 DEF Forgotten, Going
    <3> QED BY <1>14, <2>3, <3>3, <3>4, DeliverSteps
  <2> QED BY <2>2, <2>3
<1>15. ASSUME NEW e \in Event, Publish(e) PROVE Going(p, q)'
  <2> DEFINE h == stream[p]
             open == h # NoHandler /\ Subscribed(h)
  <2>1. /\ UNCHANGED <<registered, stream, table>> /\ ghosts'[p] = Haunts(p, e)
        /\ e.type \in {"JOIN", "LEAVE"} /\ e.peer \in Peer
    BY <1>15, EventForms DEF Publish
  <2>2. \A f \in Event : f # e /\ BagIn(f, unpublished) => BagIn(f, unpublished')
    BY <1>15, BagMinus DEF Publish, BagIn, Shape
  <2>3. ~open => Chan(p)' = Chan(p)
    BY <1>a, <1>15, <2>1, PublishSteps DEF Chan
  <2>4. Snap(p)' = Snap(p)
    BY <1>a, <1>15, <2>1, PublishSteps DEF Snap
  <2>5. open => /\ Chan(p) \in Seq(Event)
                /\ Chan(p)' = IF Full(h) THEN Chan(p) ELSE Append(Chan(p), e)
    BY <1>a, <1>15, <2>1, PublishSteps DEF Chan
  <2>6. ~open => Chan(p) = <<>> /\ Snap(p) = {}
    BY <1>a, HandlerForms DEF Chan, Snap, Subscribed, Streams, Shape
  <2> HIDE DEF open
  <2>7. CASE e.peer # q
    <3>1. q \notin ghosts[p]
      BY <2>1, <2>7 DEF Haunts
    <3>2. Leave(q) # e /\ Join(q) # e /\ Leave(q) \in Event /\ Join(q) \in Event
          /\ Leave(q).peer = q
      BY <2>7, EventFacts
    <3>3. Mentions(Chan(p)', Join(q)) => Mentions(Chan(p), Join(q))
      BY <2>3, <2>5, <3>2, ChanAppend
    <3>4. Holds(p, q)
      BY <2>1, <2>4, <3>3 DEF Holds
    <3>5. LastIs(Chan(p), Leave(q)) => LastIs(Chan(p)', Leave(q))
      BY <2>3, <2>5, <2>7, <3>2, ChanAppend
    <3> QED BY <2>1, <2>2, <3>1, <3>2, <3>4, <3>5 DEF Forgotten, Going
  <2>8. CASE e.peer = q /\ e.type = "LEAVE"
    <3>1. e = Leave(q)
      BY <2>8, EventForms, EventFacts
    <3>2. CASE open /\ ~Full(h)
      <4>1. LastIs(Chan(p)', e)
        BY <2>5, <3>2, ChanAppend
      <4> QED BY <3>1, <4>1 DEF Going
    <3>3. CASE open /\ Full(h)
      BY <2>1, <2>8, <3>3 DEF Haunts, open
    <3>4. CASE ~open
      <4>1. q \notin ghosts[p] \cup ({q} \cap table[p])
        BY <2>1, <2>8, <3>4 DEF Haunts, open
      <4> QED BY <2>1, <2>3, <2>4, <2>6, <3>4, <4>1 DEF Holds, Mentions
    <3> QED BY <3>2, <3>3, <3>4
  <2>9. CASE e.peer = q /\ e.type = "JOIN"
    <3>1. CASE open
      BY <2>1, <2>9, <3>1 DEF Haunts, open
    <3>2. CASE ~open
      <4>1. q \notin ghosts[p]
        BY <2>1, <2>9, <3>2 DEF Haunts, open
      <4>2. Holds(p, q)
        BY <2>1, <2>3, <2>4, <3>2 DEF Holds
      <4>3. Leave(q) \in Event /\ Leave(q) # e
        BY <2>9, EventFacts
      <4> QED BY <2>1, <2>2, <2>3, <3>2, <4>1, <4>2, <4>3 DEF Forgotten, Going
    <3> QED BY <3>1, <3>2
  <2> QED BY <2>1, <2>7, <2>8, <2>9
<1> QED BY <1>1, <1>2, <1>3, <1>4, <1>5, <1>6, <1>7, <1>8, <1>9, <1>10, <1>11, <1>12, <1>13,
           <1>14, <1>15 DEF Next
-----------------------------------------------------------------------------
(***************************************************************************)
(* Theorems.                                                               *)
(***************************************************************************)
LEMMA InitInv == Init => Inv
<1> SUFFICES ASSUME Init PROVE Inv
  OBVIOUS
<1>1. Shape
  BY InitShape
<1>2. \A h \in Handler : handler[h].pc = "idle"
  BY DEF Init, NoStream
<1>3. \A p \in Peer : stream[p] = NoHandler /\ table[p] = {} /\ client[p] = "off" /\ connected[p] = 0
  BY DEF Init
<1>4. Streams
  BY <1>2, <1>3 DEF Streams
<1>5. Counted
  <2>1. \A p \in Peer : Handlers(p) = {}
    BY <1>2 DEF Handlers, Marked
  <2> QED BY <1>3, <2>1, FS_EmptySet DEF Counted
<1>6. Spared
  BY DEF Init, Spared, NoStream
<1>7. Announced
  BY <1>3 DEF Announced, Attentive
<1>8. Forgotten
  BY <1>3 DEF Forgotten, Holds, Chan, Snap, Mentions
<1> QED BY <1>1, <1>4, <1>5, <1>6, <1>7, <1>8 DEF Inv

LEMMA NextInv == Inv /\ [Next]_vars => Inv'
BY NextShape, NextStreams, NextCounted, NextSpared, NextAnnounced, NextForgotten DEF Inv

LEMMA Invariance == Spec => []Inv
BY InitInv, NextInv, PTL DEF Spec

\* The registry, the streams and the clients keep their types, and no subscriber's
\* channel ever holds more than its capacity (bus.go, server.go, client.go).
THEOREM CoordTypes == Spec => []TypeOK
<1>1. Inv => TypeOK
  BY ShapeGivesTypes DEF Inv
<1> QED BY <1>1, Invariance, PTL

\* An up-to-date client's table is the registry, but for the peers whose events
\* were lost or out of order, for any number of peers and streams and any capacity
\* of a channel: subscribing before the snapshot is taken leaves no gap (Watch).
THEOREM ClientsAgree == Spec => []TablesAgree
<1>1. Inv => TablesAgree
  <2> SUFFICES ASSUME Inv PROVE TablesAgree
    OBVIOUS
  <2> USE DEF Inv
  <2>1. ASSUME NEW p \in Peer, UpToDate(p)
        PROVE  /\ stream[p] # NoHandler /\ Subscribed(stream[p])
               /\ Chan(p) = <<>> /\ Snap(p) = {} /\ handler[stream[p]].ch = <<>>
               /\ handler[stream[p]].pc = "stream" /\ handler[stream[p]].snapshot = {}
               /\ \A e : ~BagIn(e, unpublished)
    BY <2>1, BagEmpty DEF UpToDate, Streams, Subscribed, Chan, Snap, BagIn
  <2>2. \A e : ~LastIs(<<>>, e)
    BY DEF LastIs
  <2>3. NobodyMissed
    <3> SUFFICES ASSUME NEW p \in Peer, UpToDate(p), stream[p] \notin lost,
                        NEW q \in registered \ {p}, q \notin late[stream[p]]
                 PROVE  q \in table[p]
      BY DEF NobodyMissed
    <3>1. Coming(p, q)
      BY <2>1 DEF Announced, Attentive, Shape
    <3> QED BY <2>1, <2>2, <3>1 DEF Coming
  <2>4. GhostsKnown
    <3> SUFFICES ASSUME NEW p \in Peer, UpToDate(p), NEW q \in table[p],
                        q \notin registered \cup ghosts[p]
                 PROVE  FALSE
      BY DEF GhostsKnown
    <3>1. q \in Peer /\ q # p
      BY DEF Streams, Shape
    <3>2. Going(p, q)
      BY <3>1 DEF Forgotten, Holds
    <3> QED BY <2>1, <2>2, <3>2 DEF Going
  <2> QED BY <2>3, <2>4 DEF TablesAgree
<1> QED BY <1>1, Invariance, PTL

\* A peer with a Watch stream open leaves the registry by its own Leave only, never
\* by the sweep (sweep.go, the connected count of Watch).
THEOREM StreamsSpared == Spec => ConnectedSpared
<1> DEFINE Step == \A p \in registered \ registered' : p \in leaves \/
                     \A h \in Handler : ~(Marked(h) /\ handler[h].peer = p)
<1>1. Inv /\ [Next]_vars => [Step]_vars
  <2> SUFFICES ASSUME Inv, Next, NEW p \in registered \ registered', p \notin leaves,
                      NEW h \in Handler, Marked(h), handler[h].peer = p
               PROVE  FALSE
    OBVIOUS
  <2>1. CASE SweepCommit
    <3>1. p \in Peer /\ connected[p] = 0
      BY <2>1 DEF Inv, Shape, Spared, SweepCommit
    <3>2. h \in Handlers(p) /\ IsFiniteSet(Handlers(p)) /\ Cardinality(Handlers(p)) = 0
      BY <3>1 DEF Handlers, Inv, Counted
    <3> QED BY <3>2, FS_EmptySet
  <2>2. CASE \E r \in Peer : LeaveCommit(r)
    BY <2>2 DEF LeaveCommit
  <2>3. CASE SweepCheck \/ CoordRestart
    BY <2>3 DEF SweepCheck, CoordRestart
  <2>4. ASSUME NEW r \in Peer,
               \/ Register(r) \/ Lapse(r) \/ WatchRefused(r) \/ Deliver(r) \/ Fails(r) \/ Stop(r)
               \/ \E g \in Handler : WatchAuthorize(r, g)
        PROVE  FALSE
    BY <2>4 DEF Register, Lapse, WatchRefused, Deliver, Fails, Stop, WatchAuthorize, server
  <2>5. CASE \E e \in Event : Publish(e)
    BY <2>5 DEF Publish
  <2>6. ASSUME NEW g \in Handler,
               \/ WatchMark(g) \/ WatchTouch(g) \/ WatchSubscribe(g) \/ WatchSnapshot(g)
               \/ WatchEnd(g)
        PROVE  FALSE
    BY <2>6 DEF WatchMark, WatchTouch, WatchSubscribe, WatchSnapshot, WatchEnd, server
  <2> QED BY <2>1, <2>2, <2>3, <2>4, <2>5, <2>6 DEF Next
<1> QED BY <1>1, Invariance, PTL DEF Spec, ConnectedSpared
=============================================================================
