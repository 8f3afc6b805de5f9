----------------------------- MODULE CoordSync -----------------------------
(***************************************************************************)
(* How the peers of one network learn of each other: the coordinator's     *)
(* Register, Watch, Leave and TTL sweep (coord/server/server.go, sweep.go),*)
(* the event half of its bus (coord/server/bus.go) and the client every    *)
(* node runs against it (internal/coord/client.go).                        *)
(*                                                                         *)
(* A call commits to the registry in one step and publishes its event in a *)
(* later one: the lock of the database is not held in between.  What the   *)
(* registry stores of a peer is the subject of Registry, what the table    *)
(* does with an entry that of PeerTable; here both hold sets of peers.     *)
(*                                                                         *)
(* A Watch stream is FIFO and reliable until it breaks, so the handler's   *)
(* Send and the client's handling of the event are one step.               *)
(***************************************************************************)
EXTENDS Naturals, Sequences, FiniteSets, Bags

CONSTANTS
  Peer,
  Handler,       \* goroutines that serve a Watch stream
  NoHandler,
  ChanCap,       \* capacity of a subscriber's channel
  MaxInFlight,   \* bound on the events waiting when a Register commits
  MaxBreaks,     \* bound on lost answers and streams
  MaxStops       \* bound on stops and restarts

ASSUME NoHandlerAssumption == NoHandler \notin Handler
ASSUME CapAssumption == ChanCap \in Nat \ {0} /\ {MaxInFlight, MaxBreaks, MaxStops} \subseteq Nat

VARIABLES
  registered,    \* the peers bucket
  fresh,         \* peers whose LastSeen is within the TTL
  doomed,        \* peers the running sweep is about to delete
  unpublished,   \* bag of events whose change is committed
  leaves,        \* Leave requests on their way
  handler,       \* the Watch handlers
  connected,     \* number of streams of each peer, as the server counts them
  client,        \* where registerAndWatch is
  hasID,         \* clients a Register has been answered to
  stream,        \* the handler at the other end of a client's stream
  table,         \* the client's peer table
  breaks, stops,
  lost,          \* history: handlers whose channel was full at a Publish
  late,          \* history: see Publish
  ghosts         \* history: peers a client may keep though they have left

server == <<registered, fresh, doomed, unpublished, leaves, connected>>
extra == <<hasID, breaks, stops, lost, late, ghosts>>
vars == <<registered, fresh, doomed, unpublished, leaves, handler, connected,
          client, hasID, stream, table, breaks, stops, lost, late, ghosts>>

Event == [type: {"JOIN", "LEAVE"}, peer: Peer]
Join(p) == [type |-> "JOIN", peer |-> p]
Leave(p) == [type |-> "LEAVE", peer |-> p]

NoStream == [pc |-> "idle"]
Serving(h) == handler[h].pc # "idle"
Marked(h) == handler[h].pc \in {"connected", "subscribed", "stream"}

Init ==
  /\ registered \in SUBSET Peer
  /\ fresh = registered
  /\ doomed = {}
  /\ unpublished = EmptyBag
  /\ leaves = {}
  /\ handler = [h \in Handler |-> NoStream]
  /\ connected = [p \in Peer |-> 0]
  /\ client = [p \in Peer |-> "off"]
  /\ stream = [p \in Peer |-> NoHandler]
  /\ table = [p \in Peer |-> {}]
  /\ hasID = {}
  /\ breaks = 0 /\ stops = 0
  /\ lost = {}
  /\ late = [h \in Handler |-> {}]
  /\ ghosts = [p \in Peer |-> {}]
-----------------------------------------------------------------------------
(***************************************************************************)
(* Register, Leave and the sweep up to the commit.  doomed # {} while the  *)
(* sweep's write transaction is open: other writers wait for it.           *)
(***************************************************************************)
\* The client signs a Register and waits for the answer.
Calls(p) ==
  /\ client[p] \in {"off", "retry"}
  /\ client' = [client EXCEPT ![p] = "calling"]

Register(p) ==
  /\ Calls(p)
  /\ doomed = {} /\ BagCardinality(unpublished) < MaxInFlight
  /\ registered' = registered \cup {p}
  /\ fresh' = fresh \cup {p}
  /\ unpublished' = unpublished (+) SetToBag({Join(p)})
  /\ UNCHANGED <<doomed, leaves, handler, connected, stream, table, extra>>

LeaveCommit(p) ==
  /\ p \in leaves /\ doomed = {}
  /\ leaves' = leaves \ {p}
  /\ registered' = registered \ {p}
  /\ fresh' = fresh \ {p}
  /\ unpublished' = IF p \in registered THEN unpublished (+) SetToBag({Leave(p)})
                                        ELSE unpublished
  /\ UNCHANGED <<doomed, handler, connected, client, stream, table, extra>>

Sweepable(p) == p \in registered \ fresh /\ connected[p] = 0

SweepCheck ==
  /\ doomed = {}
  /\ doomed' = {p \in Peer : Sweepable(p)}
  /\ doomed' # {}
  /\ UNCHANGED <<registered, fresh, unpublished, leaves, handler, connected,
                 client, stream, table, extra>>

SweepCommit ==
  /\ doomed # {}
  /\ registered' = registered \ doomed
  /\ unpublished' = unpublished (+) SetToBag({Leave(p) : p \in doomed})
  /\ doomed' = {}
  /\ UNCHANGED <<fresh, leaves, handler, connected, client, stream, table, extra>>

\* LastSeen falls behind the TTL.  The TTL is taken to exceed the hour LastSeen
\* is rounded by and the time a Register and the Watch that follows it take.
Lapse(p) ==
  /\ p \in fresh /\ client[p] \notin {"calling", "registered"}
  /\ ~BagIn(Join(p), unpublished)
  /\ \A h \in Handler : ~(handler[h].pc = "authorized" /\ handler[h].peer = p)
  /\ fresh' = fresh \ {p}
  /\ UNCHANGED <<registered, doomed, unpublished, leaves, handler, connected,
                 client, stream, table, extra>>
-----------------------------------------------------------------------------
(***************************************************************************)
(* Publish: every subscriber's channel gets the event or, if it is full,   *)
(* does not.                                                               *)
(***************************************************************************)
Subscribed(h) == handler[h].pc \in {"subscribed", "stream"}

Full(h) == Len(handler[h].ch) >= ChanCap

\* Mutant: the channel has no limit.
EnqueueUnbounded(h, e) == [handler[h] EXCEPT !.ch = Append(@, e)]

Enqueue(h, e) == IF Full(h) THEN handler[h] ELSE [handler[h] EXCEPT !.ch = Append(@, e)]

\* Register answers after it has published the JOIN: the client has its ID.
Answered(e) == e.type = "JOIN" /\ client[e.peer] = "calling"
Answer(p) ==
  /\ client' = [client EXCEPT ![p] = "registered"]
  /\ hasID' = hasID \cup {p}

\* What e makes of the ghosts of p: one more, if it is the LEAVE of a peer in the
\* table and no channel takes it, or a JOIN that has been overtaken by a LEAVE.
Haunts(p, e) ==
  LET h == stream[p]
      open == h # NoHandler /\ Subscribed(h)
  IN  CASE e.peer \in registered -> ghosts[p]
        [] e.peer \notin registered /\ e.type = "LEAVE" /\ open /\ ~Full(h) -> ghosts[p] \ {e.peer}
        [] e.peer \notin registered /\ e.type = "JOIN" /\ ~open -> ghosts[p]
        [] e.peer \notin registered /\ e.type = "LEAVE" /\ ~open -> ghosts[p] \cup ({e.peer} \cap table[p])
        [] OTHER -> ghosts[p] \cup {e.peer}

\* The LEAVE of a peer that has registered again is late; the next JOIN makes
\* up for it.
Publish(e) ==
  /\ BagIn(e, unpublished)
  /\ unpublished' = unpublished (-) SetToBag({e})
  /\ handler' = [h \in Handler |-> IF Subscribed(h) THEN Enqueue(h, e) ELSE handler[h]]
  /\ lost' = lost \cup {h \in Handler : Subscribed(h) /\ Full(h)}
  /\ late' = [h \in Handler |->
       IF e.type = "LEAVE" /\ e.peer \in registered THEN late[h] \cup {e.peer}
       ELSE late[h] \ {e.peer}]
  /\ ghosts' = [p \in Peer |-> Haunts(p, e)]
  /\ IF Answered(e) THEN Answer(e.peer) ELSE UNCHANGED <<client, hasID>>
  /\ UNCHANGED <<registered, fresh, doomed, leaves, connected, stream, table,
                 breaks, stops>>
-----------------------------------------------------------------------------
(***************************************************************************)
(* Watch, one step for each thing another goroutine can see.               *)
(***************************************************************************)
\* The client opens a stream, which gets a handler of its own.
OpensStream(p, h) ==
  /\ client[p] = "registered"
  /\ client' = [client EXCEPT ![p] = "streaming"]
  /\ stream' = [stream EXCEPT ![p] = h]

WatchAuthorize(p, h) ==
  /\ OpensStream(p, h) /\ ~Serving(h)
  /\ p \in registered
  /\ handler' = [handler EXCEPT ![h] =
       [pc |-> "authorized", peer |-> p, ch |-> <<>>, snapshot |-> {}]]
  /\ lost' = lost \ {h}
  /\ late' = [late EXCEPT ![h] = {}]
  /\ UNCHANGED <<server, table, hasID, breaks, stops, ghosts>>

WatchRefused(p) ==
  /\ client[p] = "registered" /\ p \notin registered
  /\ client' = [client EXCEPT ![p] = "retry"]
  /\ UNCHANGED <<server, handler, stream, table, extra>>

WatchMark(h) ==
  /\ handler[h].pc = "authorized"
  /\ handler' = [handler EXCEPT ![h].pc = "connected"]
  /\ connected' = [connected EXCEPT ![handler[h].peer] = @ + 1]
  /\ UNCHANGED <<registered, fresh, doomed, unpublished, leaves, client, stream,
                 table, extra>>

\* keepLastSeenFresh, while the stream is open.
WatchTouch(h) ==
  /\ Marked(h) /\ doomed = {}
  /\ handler[h].peer \in registered
  /\ fresh' = fresh \cup {handler[h].peer}
  /\ UNCHANGED <<registered, doomed, unpublished, leaves, handler, connected,
                 client, stream, table, extra>>

WatchSubscribe(h) ==
  /\ handler[h].pc = "connected"
  /\ handler' = [handler EXCEPT ![h].pc = "subscribed"]
  /\ UNCHANGED <<server, client, stream, table, extra>>

\* Mutant: the snapshot lists only peers that have a stream.
WatchSnapshotConnected(h) ==
  /\ handler[h].pc = "subscribed"
  /\ handler' = [handler EXCEPT ![h] =
       [@ EXCEPT !.pc = "stream",
                 !.snapshot = {p \in registered \ {handler[h].peer} : connected[p] > 0}]]
  /\ UNCHANGED <<server, client, stream, table, extra>>

WatchSnapshot(h) ==
  /\ handler[h].pc = "subscribed"
  /\ handler' = [handler EXCEPT ![h] =
       [@ EXCEPT !.pc = "stream", !.snapshot = registered \ {handler[h].peer}]]
  /\ UNCHANGED <<server, client, stream, table, extra>>

\* Mutant: the end of one stream forgets every other one of the peer.
DisconnectedAll(n) == 0

Disconnected(n) == IF n <= 1 THEN 0 ELSE n - 1

\* The handler finds out that its client has gone, sooner or later.
WatchEnd(h) ==
  /\ handler[h].pc = "stream"
  /\ stream[handler[h].peer] # h
  /\ handler' = [handler EXCEPT ![h] = NoStream]
  /\ connected' = [connected EXCEPT ![handler[h].peer] = Disconnected(@)]
  /\ UNCHANGED <<registered, fresh, doomed, unpublished, leaves, client, stream,
                 table, extra>>
-----------------------------------------------------------------------------
(***************************************************************************)
(* The client.                                                             *)
(***************************************************************************)
\* Mutant: the peer that has left stays in the table.
HandleEventJoins(t, p, e) ==
  IF e.type = "JOIN" /\ e.peer # p THEN t \cup {e.peer} ELSE t

\* handleEvent on the peers of a table; events about oneself are ignored.
HandleEvent(t, p, e) ==
  IF e.peer = p THEN t
  ELSE IF e.type = "JOIN" THEN t \cup {e.peer} ELSE t \ {e.peer}

Deliver(p) ==
  LET h == stream[p] IN
  /\ client[p] = "streaming" /\ handler[h].pc = "stream"
  /\ \/ \E q \in handler[h].snapshot :
          /\ handler' = [handler EXCEPT ![h].snapshot = @ \ {q}]
          /\ table' = [table EXCEPT ![p] = HandleEvent(@, p, Join(q))]
     \/ /\ handler[h].snapshot = {} /\ handler[h].ch # <<>>
        /\ handler' = [handler EXCEPT ![h].ch = Tail(@)]
        /\ table' = [table EXCEPT ![p] = HandleEvent(@, p, Head(handler[h].ch))]
  /\ UNCHANGED <<server, client, stream, extra>>

\* The peers whose LEAVE is lost with the stream of p.
Unread(p) ==
  {q \in table[p] \ registered :
     stream[p] # NoHandler /\ \E i \in DOMAIN handler[stream[p]].ch : handler[stream[p]].ch[i] = Leave(q)}

\* The answer to Register, or the stream, is lost.
Fails(p) ==
  /\ breaks < MaxBreaks
  /\ breaks' = breaks + 1
  /\ client[p] \in {"calling", "streaming"}
  /\ client' = [client EXCEPT ![p] = "retry"]
  /\ stream' = [stream EXCEPT ![p] = NoHandler]
  /\ ghosts' = [ghosts EXCEPT ![p] = @ \cup Unread(p)]
  /\ UNCHANGED <<server, handler, table, hasID, stops, lost, late>>

\* The node stops: by Stop, which sends a Leave if the client has an ID and waits
\* for the answer 5 s at most, or by a crash.
Stop(p) ==
  /\ stops < MaxStops
  /\ stops' = stops + 1
  /\ client[p] # "off"
  /\ client' = [client EXCEPT ![p] = "off"]
  /\ stream' = [stream EXCEPT ![p] = NoHandler]
  /\ table' = [table EXCEPT ![p] = {}]
  /\ hasID' = hasID \ {p}
  /\ \E sent \in {{}, {p} \cap hasID} : leaves' = leaves \cup sent
  /\ ghosts' = [ghosts EXCEPT ![p] = {}]
  /\ UNCHANGED <<registered, fresh, doomed, unpublished, handler, connected,
                 breaks, lost, late>>

\* The coordinator restarts: what is committed is all that is left.
CoordRestart ==
  /\ stops < MaxStops
  /\ stops' = stops + 1
  /\ doomed' = {} /\ leaves' = {}
  /\ unpublished' = EmptyBag
  /\ handler' = [h \in Handler |-> NoStream]
  /\ connected' = [p \in Peer |-> 0]
  /\ client' = [p \in Peer |-> IF client[p] = "off" THEN "off" ELSE "retry"]
  /\ stream' = [p \in Peer |-> NoHandler]
  /\ ghosts' = [p \in Peer |-> ghosts[p] \cup Unread(p) \cup
                  {q \in table[p] \ registered : BagIn(Leave(q), unpublished)}]
  /\ UNCHANGED <<registered, fresh, table, hasID, breaks, lost, late>>

Next ==
  \/ SweepCheck \/ SweepCommit \/ CoordRestart
  \/ \E p \in Peer :
       \/ Register(p) \/ LeaveCommit(p) \/ Lapse(p)
       \/ WatchRefused(p) \/ Deliver(p) \/ Fails(p) \/ Stop(p)
       \/ \E h \in Handler : WatchAuthorize(p, h)
  \/ \E e \in Event : Publish(e)
  \/ \E h \in Handler :
       \/ WatchMark(h) \/ WatchTouch(h) \/ WatchSubscribe(h) \/ WatchSnapshot(h)
       \/ WatchEnd(h)

Spec == Init /\ [][Next]_vars
-----------------------------------------------------------------------------
(***************************************************************************)
(* Properties.                                                             *)
(***************************************************************************)
\* The registry, the calls, the streams and the clients have their types; no
\* channel holds more than its capacity.
TypeOK ==
  /\ registered \subseteq Peer /\ fresh \subseteq Peer
  /\ doomed \subseteq Peer /\ leaves \subseteq Peer
  /\ BagToSet(unpublished) \subseteq Event
  /\ \A h \in Handler : Serving(h) =>
       /\ handler[h].pc \in {"authorized", "connected", "subscribed", "stream"}
       /\ handler[h].peer \in Peer /\ handler[h].snapshot \subseteq Peer
       /\ handler[h].ch \in Seq(Event) /\ Len(handler[h].ch) <= ChanCap
  /\ connected \in [Peer -> Nat]
  /\ client \in [Peer -> {"off", "calling", "registered", "streaming", "retry"}]
  /\ stream \in [Peer -> Handler \cup {NoHandler}]
  /\ table \in [Peer -> SUBSET Peer]
  /\ hasID \subseteq Peer /\ breaks \in 0 .. MaxBreaks /\ stops \in 0 .. MaxStops
  /\ lost \subseteq Handler /\ late \in [Handler -> SUBSET Peer]
  /\ ghosts \in [Peer -> SUBSET Peer]

\* A client has been sent all there is: its stream is up, it has read it to the
\* end, and every committed change has been published.
UpToDate(p) ==
  /\ client[p] = "streaming"
  /\ LET w == handler[stream[p]] IN w.pc = "stream" /\ w.snapshot = {} /\ w.ch = <<>>
  /\ unpublished = EmptyBag

\* An up-to-date client knows every registered peer, however Register, Leave and
\* Watch interleave: subscribing before the snapshot closes the race between the
\* two.  The exceptions are events a full channel lost and a LEAVE published
\* after its peer had registered again.
NobodyMissed ==
  \A p \in Peer : UpToDate(p) /\ stream[p] \notin lost =>
    registered \ {p} \subseteq table[p] \cup late[stream[p]]

GhostsKnown ==
  \A p \in Peer : UpToDate(p) => table[p] \subseteq registered \cup ghosts[p]

\* The tables and the registry agree.  A client that is up to date knows nobody
\* who has left, either, unless the LEAVE was published while it had no stream,
\* met a full channel or was lost with the stream or the coordinator, or a JOIN
\* was published after the LEAVE that follows it.
TablesAgree == NobodyMissed /\ GhostsKnown

\* The sweep never removes a peer that has a Watch stream open, even while a
\* broken stream of the same peer is still being wound up: only the peer's own
\* Leave does.
ConnectedSpared ==
  [][\A p \in registered \ registered' : p \in leaves \/
       \A h \in Handler : ~(Marked(h) /\ handler[h].peer = p)]_vars
=============================================================================
