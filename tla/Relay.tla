------------------------------- MODULE Relay -------------------------------
(***************************************************************************)
(* The relay service (relay/service.go): connections are admitted, shake   *)
(* hands, wait for the partner on their channel, are spliced in pairs, and *)
(* are closed by whoever ends them: their handler, an eviction, one of the *)
(* two splices, or the Close of the service.                               *)
(*                                                                         *)
(* s.mu is released between the steps below, so the steps of goroutines    *)
(* interleave.  Accept and admit are one step, and so are the closing of a *)
(* socket and the release of its slot.  The frames that are spliced are    *)
(* left out; a handshake fails for any reason, a message_1 that is stale   *)
(* or was seen before included.                                            *)
(***************************************************************************)
EXTENDS Integers, FiniteSets

CONSTANTS
  Conn,            \* connections that are ever dialled
  ClientOf,        \* X25519 key each connection is authenticated with
  RemoteOf,        \* X25519 key in its message_1
  IPOf,
  Closer,          \* goroutines that call Close
  MaxConns, MaxConnsPerIP,
  Nil

IP == {IPOf[c] : c \in Conn}

ASSUME ConnAssumption == IsFiniteSet(Conn) /\ Nil \notin Conn
ASSUME KeyAssumption ==
  DOMAIN ClientOf = Conn /\ DOMAIN RemoteOf = Conn /\ DOMAIN IPOf = Conn
ASSUME LimitAssumption == MaxConns \in Nat /\ MaxConnsPerIP \in Nat

VARIABLES
  handler,    \* where handleConn is for each connection
  other,      \* its local variable: the connection it is about to evict
  timer,      \* the eviction timer of a waiting connection
  waiting,    \* the connection that waits on each channel
  active,     \* s.active
  partner,    \* the connection each one is spliced to
  splice,     \* the goroutine that reads from each connection
  open,       \* connections whose socket is open
  conns, connsByIP,   \* the counters of admit
  closed, listening,
  closer      \* where each Close is, and the connections it has yet to close

vars == <<handler, other, timer, waiting, active, partner, splice, open, conns,
          connsByIP, closed, listening, closer>>
counters == <<open, conns, connsByIP>>
service == <<closed, listening, closer>>
pairing == <<active, partner, splice>>

\* The channel of two keys is the same for both.
ChannelID(c) == {ClientOf[c], RemoteOf[c]}
Channel == {ChannelID(c) : c \in Conn}

Init ==
  /\ handler = [c \in Conn |-> "none"]
  /\ other = [c \in Conn |-> Nil]
  /\ timer = [c \in Conn |-> "off"]
  /\ waiting = [ch \in Channel |-> Nil]
  /\ active = {}
  /\ partner = [c \in Conn |-> Nil]
  /\ splice = [c \in Conn |-> "none"]
  /\ open = {}
  /\ conns = 0 /\ connsByIP = [ip \in IP |-> 0]
  /\ closed = FALSE /\ listening = TRUE
  /\ closer = [k \in Closer |-> [pc |-> "idle", todo |-> {}]]
-----------------------------------------------------------------------------
(***************************************************************************)
(* admit, and the Close of a limitedConn, which releases the slot once.    *)
(***************************************************************************)
\* Mutant: the total is compared one too late.
AdmissibleOneMore(c) == conns <= MaxConns /\ connsByIP[IPOf[c]] < MaxConnsPerIP

Admissible(c) == conns < MaxConns /\ connsByIP[IPOf[c]] < MaxConnsPerIP

Admit(c) ==
  /\ handler[c] = "none" /\ listening /\ Admissible(c)
  /\ handler' = [handler EXCEPT ![c] = "handshake"]
  /\ open' = open \cup {c}
  /\ conns' = conns + 1
  /\ connsByIP' = [connsByIP EXCEPT ![IPOf[c]] = @ + 1]
  /\ UNCHANGED <<other, timer, waiting, pairing, service>>

Refuse(c) ==
  /\ handler[c] = "none" /\ listening /\ ~Admissible(c)
  /\ handler' = [handler EXCEPT ![c] = "gone"]
  /\ UNCHANGED <<other, timer, waiting, pairing, counters, service>>

\* Mutant: every Close releases the slot.
CloseConnEach(c) ==
  /\ open' = open \ {c}
  /\ conns' = conns - 1
  /\ connsByIP' = [connsByIP EXCEPT ![IPOf[c]] = @ - 1]

CloseConn(c) ==
  /\ open' = open \ {c}
  /\ conns' = IF c \in open THEN conns - 1 ELSE conns
  /\ connsByIP' = IF c \in open THEN [connsByIP EXCEPT ![IPOf[c]] = @ - 1] ELSE connsByIP
-----------------------------------------------------------------------------
(***************************************************************************)
(* handleConn.                                                             *)
(***************************************************************************)
HandshakeFails(c) ==
  /\ handler[c] = "handshake"
  /\ handler' = [handler EXCEPT ![c] = "gone"]
  /\ CloseConn(c)
  /\ UNCHANGED <<other, timer, waiting, pairing, service>>

\* A peer cannot relay to itself.
HandshakeDone(c) ==
  /\ handler[c] = "handshake" /\ ClientOf[c] # RemoteOf[c]
  /\ handler' = [handler EXCEPT ![c] = "place"]
  /\ UNCHANGED <<other, timer, waiting, pairing, counters, service>>

\* The service was closed meanwhile.
TurnAway(c) ==
  /\ handler[c] \in {"place", "again"} /\ closed
  /\ handler' = [handler EXCEPT ![c] = "gone"]
  /\ CloseConn(c)
  /\ UNCHANGED <<other, timer, waiting, pairing, service>>

SameClient(c, d) == ClientOf[c] = ClientOf[d]

WaitsAlready(c) ==
  waiting[ChannelID(c)] # Nil /\ SameClient(c, waiting[ChannelID(c)])

\* The client waits here already: its old connection is to be evicted first.
Reconnect(c) ==
  /\ handler[c] = "place" /\ ~closed
  /\ WaitsAlready(c)
  /\ handler' = [handler EXCEPT ![c] = "evict"]
  /\ other' = [other EXCEPT ![c] = waiting[ChannelID(c)]]
  /\ UNCHANGED <<timer, waiting, pairing, counters, service>>

\* Mutant: whoever waits on the channel is taken off it.
EvictableAny(d) == waiting[ChannelID(d)] # Nil

\* evict only takes d off its channel while it still waits there.
Evictable(d) == waiting[ChannelID(d)] = d

EvictOld(c) ==
  LET old == other[c] IN
  /\ handler[c] = "evict"
  /\ \/ /\ Evictable(old)
        /\ waiting' = [waiting EXCEPT ![ChannelID(old)] = Nil]
        /\ handler' = [handler EXCEPT ![c] = "close"]
     \/ /\ ~Evictable(old)
        /\ handler' = [handler EXCEPT ![c] = "again"]
        /\ UNCHANGED waiting
  /\ UNCHANGED <<other, timer, pairing, counters, service>>

CloseOld(c) ==
  /\ handler[c] = "close"
  /\ handler' = [handler EXCEPT ![c] = "again"]
  /\ CloseConn(other[c])
  /\ UNCHANGED <<other, timer, waiting, pairing, service>>

\* After the first look the partner is not of the same client; after the
\* second one it may be.
MayPlace(c) ==
  /\ ~closed
  /\ handler[c] = "again" \/ (handler[c] = "place" /\ ~WaitsAlready(c))

\* Mutant: no timer is set.
WaitUntimed(c) ==
  /\ MayPlace(c) /\ waiting[ChannelID(c)] = Nil
  /\ handler' = [handler EXCEPT ![c] = "gone"]
  /\ waiting' = [waiting EXCEPT ![ChannelID(c)] = c]
  /\ UNCHANGED <<other, timer, pairing, counters, service>>

Wait(c) ==
  /\ MayPlace(c) /\ waiting[ChannelID(c)] = Nil
  /\ handler' = [handler EXCEPT ![c] = "gone"]
  /\ waiting' = [waiting EXCEPT ![ChannelID(c)] = c]
  /\ timer' = [timer EXCEPT ![c] = "armed"]
  /\ UNCHANGED <<other, pairing, counters, service>>

Pair(c) ==
  LET d == waiting[ChannelID(c)] IN
  /\ MayPlace(c) /\ d # Nil
  /\ handler' = [handler EXCEPT ![c] = "gone"]
  /\ waiting' = [waiting EXCEPT ![ChannelID(c)] = Nil]
  /\ active' = active \cup {c, d}
  /\ partner' = [partner EXCEPT ![c] = d, ![d] = c]
  /\ splice' = [splice EXCEPT ![c] = "run", ![d] = "run"]
  /\ UNCHANGED <<other, timer, counters, service>>
-----------------------------------------------------------------------------
(***************************************************************************)
(* The eviction timer.                                                     *)
(***************************************************************************)
EvictLate(c) ==
  /\ timer[c] = "armed"
  /\ \/ /\ Evictable(c)
        /\ waiting' = [waiting EXCEPT ![ChannelID(c)] = Nil]
        /\ timer' = [timer EXCEPT ![c] = "close"]
     \/ /\ ~Evictable(c)
        /\ timer' = [timer EXCEPT ![c] = "off"]
        /\ UNCHANGED waiting
  /\ UNCHANGED <<handler, other, pairing, counters, service>>

CloseLate(c) ==
  /\ timer[c] = "close"
  /\ timer' = [timer EXCEPT ![c] = "off"]
  /\ CloseConn(c)
  /\ UNCHANGED <<handler, other, waiting, pairing, service>>
-----------------------------------------------------------------------------
(***************************************************************************)
(* splice, from c to its partner: a failure closes both, and the partner   *)
(* is forgotten.                                                           *)
(***************************************************************************)
SpliceFails(c) ==
  /\ splice[c] = "run"
  /\ splice' = [splice EXCEPT ![c] = "failed"]
  /\ CloseConn(c)
  /\ UNCHANGED <<handler, other, timer, waiting, active, partner, service>>

\* Mutant: a splice closes the connection it reads from only.
SpliceClosesNothing(c) ==
  /\ splice[c] = "failed"
  /\ splice' = [splice EXCEPT ![c] = "forget"]
  /\ UNCHANGED <<handler, other, timer, waiting, active, partner, counters, service>>

SpliceCloses(c) ==
  /\ splice[c] = "failed"
  /\ splice' = [splice EXCEPT ![c] = "forget"]
  /\ CloseConn(partner[c])
  /\ UNCHANGED <<handler, other, timer, waiting, active, partner, service>>

Forget(c) ==
  /\ splice[c] = "forget"
  /\ splice' = [splice EXCEPT ![c] = "done"]
  /\ active' = active \ {partner[c]}
  /\ UNCHANGED <<handler, other, timer, waiting, partner, counters, service>>
-----------------------------------------------------------------------------
(***************************************************************************)
(* Close: called by the watcher of Serve, by Serve when the listener is    *)
(* gone, and by the program.  Only the first call does the work.           *)
(***************************************************************************)
InMap == {waiting[ch] : ch \in Channel} \ {Nil}

\* Mutant: the connections that are spliced are not closed.
CloseBeginWaiting(k) ==
  /\ closer[k].pc = "idle" /\ ~closed
  /\ closed' = TRUE
  /\ waiting' = [ch \in Channel |-> Nil]
  /\ closer' = [closer EXCEPT ![k] = [pc |-> "closing", todo |-> InMap]]
  /\ UNCHANGED <<handler, other, timer, pairing, counters, listening>>

CloseBegin(k) ==
  /\ closer[k].pc = "idle" /\ ~closed
  /\ closed' = TRUE
  /\ waiting' = [ch \in Channel |-> Nil]
  /\ closer' = [closer EXCEPT ![k] = [pc |-> "closing", todo |-> InMap \cup active]]
  /\ UNCHANGED <<handler, other, timer, pairing, counters, listening>>

CloseJoin(k) ==
  /\ closer[k].pc = "idle" /\ closed
  /\ closer' = [closer EXCEPT ![k].pc = "joining"]
  /\ UNCHANGED <<handler, other, timer, waiting, pairing, counters, closed, listening>>

CloseNext(k) ==
  /\ closer[k].pc = "closing"
  /\ \E c \in closer[k].todo :
       /\ CloseConn(c)
       /\ closer' = [closer EXCEPT ![k].todo = @ \ {c}]
  /\ UNCHANGED <<handler, other, timer, waiting, pairing, closed, listening>>

CloseListener(k) ==
  /\ closer[k].pc = "closing" /\ closer[k].todo = {}
  /\ listening' = FALSE
  /\ closer' = [closer EXCEPT ![k].pc = "joining"]
  /\ UNCHANGED <<handler, other, timer, waiting, pairing, counters, closed>>

Spliced == {c \in Conn : splice[c] \in {"run", "failed", "forget"}}

\* Mutant: the splices are not waited for.
CloseReturnEarly(k) ==
  /\ closer[k].pc = "joining"
  /\ closer' = [closer EXCEPT ![k].pc = "returned"]
  /\ UNCHANGED <<handler, other, timer, waiting, pairing, counters, closed, listening>>

\* s.wg.Wait has returned.
CloseReturn(k) ==
  /\ closer[k].pc = "joining" /\ Spliced = {}
  /\ closer' = [closer EXCEPT ![k].pc = "returned"]
  /\ UNCHANGED <<handler, other, timer, waiting, pairing, counters, closed, listening>>
-----------------------------------------------------------------------------
Handling(c) ==
  \/ HandshakeFails(c) \/ HandshakeDone(c) \/ TurnAway(c) \/ Reconnect(c)
  \/ EvictOld(c) \/ CloseOld(c) \/ Wait(c) \/ Pair(c)
Timing(c) == EvictLate(c) \/ CloseLate(c)
Winding(c) == SpliceCloses(c) \/ Forget(c)
Closing(k) == CloseNext(k) \/ CloseListener(k) \/ CloseReturn(k)

Next ==
  \/ \E c \in Conn :
       \/ Admit(c) \/ Refuse(c)
       \/ Handling(c) \/ Timing(c) \/ SpliceFails(c) \/ Winding(c)
  \/ \E k \in Closer : CloseBegin(k) \/ CloseJoin(k) \/ Closing(k)

\* Goroutines run, the handshake has a deadline, timers fire, and a read from a
\* closed socket fails.  Nobody has to dial, to break a connection or to call
\* Close.
Fairness ==
  /\ \A c \in Conn :
       /\ WF_vars(Handling(c))
       /\ WF_vars(Timing(c))
       /\ WF_vars(c \notin open /\ SpliceFails(c))
       /\ WF_vars(Winding(c))
  /\ \A k \in Closer : WF_vars(Closing(k))

Spec == Init /\ [][Next]_vars
FairSpec == Spec /\ Fairness
-----------------------------------------------------------------------------
(***************************************************************************)
(* Properties.                                                             *)
(***************************************************************************)
\* The maps, sets, counters and goroutines have their types; no counter goes
\* below zero.
TypeOK ==
  /\ handler \in [Conn -> {"none", "handshake", "place", "evict", "close", "again", "gone"}]
  /\ other \in [Conn -> Conn \cup {Nil}]
  /\ timer \in [Conn -> {"off", "armed", "close"}]
  /\ waiting \in [Channel -> Conn \cup {Nil}]
  /\ active \subseteq Conn
  /\ partner \in [Conn -> Conn \cup {Nil}]
  /\ splice \in [Conn -> {"none", "run", "failed", "forget", "done"}]
  /\ open \subseteq Conn
  /\ conns \in Nat /\ connsByIP \in [IP -> Nat]
  /\ {closed, listening} \subseteq BOOLEAN
  /\ closer \in [Closer -> [pc : {"idle", "closing", "joining", "returned"}, todo : SUBSET Conn]]

\* Never more sockets are open than the limits allow, in total and from one IP,
\* though up to five goroutines close one connection and each close tries to
\* give its slot back.
LimitsKept ==
  /\ Cardinality(open) <= MaxConns
  /\ \A ip \in IP : Cardinality({c \in open : IPOf[c] = ip}) <= MaxConnsPerIP

\* Somebody is in charge of c: its handler, a goroutine that evicts it, the map of
\* waiting connections, its timer, the splice that reads from it, or Close.
InCharge(c) ==
  \/ handler[c] \notin {"none", "gone"}
  \/ \E d \in Conn : handler[d] = "close" /\ other[d] = c
  \/ waiting[ChannelID(c)] = c
  \/ timer[c] = "close"
  \/ splice[c] = "run"
  \/ \E k \in Closer : c \in closer[k].todo

\* No open connection is lost: whatever evictions, reconnections, splices and
\* Close do to one another's bookkeeping, somebody still has to close it.  Once
\* Close has returned no splice runs and nothing waits or is active; what is
\* still open is in its handshake and closes itself.
NoLeak ==
  /\ \A c \in open : InCharge(c)
  /\ \A k \in Closer : closer[k].pc = "returned" => active \cup InMap \cup Spliced = {}

\* A closed service ends all its connections.
Drains == closed ~> (open = {} /\ active = {})

\* No connection waits for ever, whoever dials or hangs up meanwhile: it is
\* paired, evicted by its client's next connection or by its timer, or closed.
WaitEnds == \A c \in Conn : c \in InMap ~> c \notin InMap

\* When one connection of a pair ends, so does the other.
PairEnds ==
  (\E c \in Conn \ open : partner[c] \in open) ~> ~(\E c \in Conn \ open : partner[c] \in open)

\* Nothing on the relay lasts for ever that should not: a wait, half a pair, and
\* the connections of a closed service (handleConn, splice, Close).
AllEnd == Drains /\ WaitEnds /\ PairEnds
=============================================================================
