------------------------------- MODULE Tunnel -------------------------------
(***************************************************************************)
(* The two ends of one tunnel: the handshake manager                       *)
(* (internal/handshake/manager.go), the session slots and hold queue of a  *)
(* peer's entry (internal/peer/state.go) and the dispatcher's data path    *)
(* (internal/dataplane/dispatcher.go), over a network that loses, repeats, *)
(* delays and reorders packets.                                            *)
(*                                                                         *)
(* Each end has a TUN goroutine, a UDP goroutine, and other goroutines     *)
(* that start a handshake (NAT traversal, mDNS, the rekey loop, a new      *)
(* peer).  The coordinator client may replace the entry under them all.    *)
(*                                                                         *)
(* A session is named by the Init it answers and the time of the answer.   *)
(* Which packets of a session get through its replay window is the subject *)
(* of Session; here a Data message stands for any of them.  The clock      *)
(* advances between two Inits of an end: their timestamps differ.          *)
(***************************************************************************)
EXTENDS Integers, FiniteSets

CONSTANTS
  Node,                  \* the two ends
  Offset,                \* how far each end's clock is off
  HandshakeRetryTimeout,
  MaxHandshakeRetries,
  RekeyTimeLimit,
  MaxTimestampSkew,
  HoldQueueMax,
  StartTime,
  MaxTime,               \* bound on the clock
  MaxInits,              \* bound on the Inits of both ends together
  MaxResets              \* bound on restarts and replaced entries

ASSUME NodeAssumption == \E x, y \in Node : x # y /\ Node = {x, y}
ASSUME OffsetAssumption == Offset \in [Node -> Int]
ASSUME BoundAssumption ==
  /\ {HandshakeRetryTimeout, MaxHandshakeRetries, RekeyTimeLimit,
      MaxTimestampSkew, HoldQueueMax, StartTime, MaxTime, MaxInits, MaxResets} \subseteq Nat
  /\ \A x \in Node : StartTime + Offset[x] > 0

VARIABLES
  now,
  net,        \* every packet ever sent: any of them may arrive, at any time
  hs,         \* pending[peer]: the handshake an end has started
  slots,      \* session, pendingSession and prevSession of the entry
  queue,      \* length of the entry's hold queue
  knows,      \* the entry has an endpoint and the endpoint index leads to it
  lastInit,   \* initTimestamps[peer], 0 if none
  saved,      \* the same in the replay file
  udp,        \* what the UDP goroutine is in the middle of
  tun,        \* what the TUN goroutine is in the middle of
  resets,
  installed   \* history: the sessions an initiator has taken into use

memory == <<hs, slots, queue, knows, lastInit, udp, tun>>
vars == <<now, net, hs, slots, queue, knows, lastInit, saved, udp, tun, resets, installed>>

Other(x) == CHOOSE y \in Node : y # x
Clock(x) == now + Offset[x]

Sess == [by: Node, ts: Int, ans: Nat]
Keyed == [s: Sess, born: Nat]         \* a Session object: its keys and its age
None == [born |-> -1]
NoHS == [ts |-> 0, at |-> 0, retries |-> -1]
Idle == [pc |-> "idle"]

InitMsg(x, ts) == [type |-> "Init", from |-> x, ts |-> ts]
RespMsg(s) == [type |-> "Resp", s |-> s]
DataMsg(x, s) == [type |-> "Data", from |-> x, s |-> s]

Empty == [session |-> None, pending |-> None, prev |-> None]

Init ==
  /\ now = StartTime
  /\ net = {}
  /\ hs = [x \in Node |-> NoHS]
  /\ slots = [x \in Node |-> Empty]
  /\ queue = [x \in Node |-> 0]
  /\ knows \in [Node -> BOOLEAN]
  /\ lastInit = [x \in Node |-> 0]
  /\ saved = [x \in Node |-> 0]
  /\ udp = [x \in Node |-> Idle]
  /\ tun = [x \in Node |-> "idle"]
  /\ resets = 0
  /\ installed = {}
-----------------------------------------------------------------------------
(***************************************************************************)
(* Initiate: start a handshake unless one is pending and recent.           *)
(***************************************************************************)
HSPending(x) == hs[x] # NoHS
Recent(x) == HSPending(x) /\ now - hs[x].at < HandshakeRetryTimeout
Exhausted(x) == HSPending(x) /\ ~Recent(x) /\ hs[x].retries >= MaxHandshakeRetries

\* The change of hs and net that a call of Initiate makes.
Initiate(x) ==
  \/ /\ Recent(x)
     /\ UNCHANGED <<hs, net>>
  \/ /\ Exhausted(x) \/ (~Recent(x) /\ ~knows[x])
     /\ hs' = [hs EXCEPT ![x] = NoHS]
     /\ UNCHANGED net
  \/ /\ ~Recent(x) /\ ~Exhausted(x)   \* building the Init fails
     /\ hs' = IF HSPending(x) THEN [hs EXCEPT ![x].at = now] ELSE hs
     /\ UNCHANGED net
  \/ /\ ~Recent(x) /\ ~Exhausted(x) /\ knows[x]
     /\ InitMsg(x, Clock(x)) \notin net
     /\ Cardinality({m \in net : m.type = "Init"}) < MaxInits
     /\ hs' = [hs EXCEPT ![x] = [ts |-> Clock(x), at |-> now, retries |-> @.retries + 1]]
     /\ net' = net \cup {InitMsg(x, Clock(x))}

\* NAT traversal, mDNS, a peer that was added, the relay fallback and the rekey
\* loop call Initiate whatever session there is.
Trigger(x) ==
  /\ Initiate(x)
  /\ UNCHANGED <<now, slots, queue, knows, lastInit, saved, udp, tun, resets, installed>>
-----------------------------------------------------------------------------
(***************************************************************************)
(* The TUN goroutine.                                                      *)
(***************************************************************************)
NeedsRekey(k) == now - k.born >= RekeyTimeLimit

Usable(k) == k # None /\ ~NeedsRekey(k)

\* A packet from the TUN is encrypted if there is a session to do it with.
TunSend(x) ==
  /\ tun[x] = "idle"
  /\ Usable(slots[x].session)
  /\ net' = IF knows[x] THEN net \cup {DataMsg(x, slots[x].session.s)} ELSE net
  /\ UNCHANGED <<now, memory, saved, resets, installed>>

\* Otherwise it is held; the session was looked up before the queue is locked.
TunMiss(x) ==
  /\ tun[x] = "idle"
  /\ ~Usable(slots[x].session)
  /\ tun' = [tun EXCEPT ![x] = "hold"]
  /\ UNCHANGED <<now, net, hs, slots, queue, knows, lastInit, saved, udp, resets, installed>>

\* Mutant: the hold queue has no limit.
HeldUnbounded(x) == queue[x] + 1

Held(x) == IF queue[x] < HoldQueueMax THEN queue[x] + 1 ELSE queue[x]

TunHold(x) ==
  /\ tun[x] # "idle"
  /\ queue' = [queue EXCEPT ![x] = IF tun[x] = "stale" THEN @ ELSE Held(x)]
  /\ Initiate(x)
  /\ tun' = [tun EXCEPT ![x] = "idle"]
  /\ UNCHANGED <<now, slots, knows, lastInit, saved, udp, resets, installed>>
-----------------------------------------------------------------------------
(***************************************************************************)
(* handleInit: the timestamp is recorded, then saved, then the session is  *)
(* made pending and the answer sent.                                       *)
(***************************************************************************)
Fresh(x, ts) == Clock(x) - ts \in -MaxTimestampSkew .. MaxTimestampSkew

\* Mutant: an Init as new as the last one accepted is taken again.
InitAcceptEqual(x, m) ==
  /\ udp[x].pc = "idle"
  /\ m.type = "Init" /\ m.from = Other(x)
  /\ Fresh(x, m.ts) /\ m.ts >= lastInit[x]
  /\ lastInit' = [lastInit EXCEPT ![x] = m.ts]
  /\ udp' = [udp EXCEPT ![x] = [pc |-> "save", stale |-> FALSE,
                                s |-> [by |-> m.from, ts |-> m.ts, ans |-> now]]]
  /\ UNCHANGED <<now, net, hs, slots, queue, knows, saved, tun, resets, installed>>

InitAccept(x, m) ==
  /\ udp[x].pc = "idle"
  /\ m.type = "Init" /\ m.from = Other(x)
  /\ Fresh(x, m.ts) /\ m.ts > lastInit[x]
  /\ lastInit' = [lastInit EXCEPT ![x] = m.ts]
  /\ udp' = [udp EXCEPT ![x] = [pc |-> "save", stale |-> FALSE,
                                s |-> [by |-> m.from, ts |-> m.ts, ans |-> now]]]
  /\ UNCHANGED <<now, net, hs, slots, queue, knows, saved, tun, resets, installed>>

\* Mutant: the timestamp never reaches the replay file.
InitSaveLost(x) ==
  /\ udp[x].pc = "save"
  /\ udp' = [udp EXCEPT ![x].pc = "answer"]
  /\ UNCHANGED <<now, net, hs, slots, queue, knows, lastInit, saved, tun, resets, installed>>

InitSave(x) ==
  /\ udp[x].pc = "save"
  /\ saved' = [saved EXCEPT ![x] = lastInit[x]]
  /\ udp' = [udp EXCEPT ![x].pc = "answer"]
  /\ UNCHANGED <<now, net, hs, slots, queue, knows, lastInit, tun, resets, installed>>

\* Mutant: the responder uses the session without waiting for a packet.
InitAnswerActive(x) ==
  /\ udp[x].pc = "answer"
  /\ slots' = [slots EXCEPT ![x] = [@ EXCEPT !.session = [s |-> udp[x].s, born |-> now],
                                             !.prev = slots[x].session]]
  /\ knows' = [knows EXCEPT ![x] = TRUE]
  /\ net' = net \cup {RespMsg(udp[x].s)}
  /\ udp' = [udp EXCEPT ![x] = Idle]
  /\ UNCHANGED <<now, hs, queue, lastInit, saved, tun, resets, installed>>

\* ClaimEndpoint goes to the table's current entry, the pending session to the
\* entry that was looked up.
InitAnswer(x) ==
  /\ udp[x].pc = "answer"
  /\ knows' = [knows EXCEPT ![x] = TRUE]
  /\ slots' = IF udp[x].stale THEN slots
              ELSE [slots EXCEPT ![x] =
                      [@ EXCEPT !.pending = [s |-> udp[x].s, born |-> now]]]
  /\ net' = net \cup {RespMsg(udp[x].s)}
  /\ udp' = [udp EXCEPT ![x] = Idle]
  /\ UNCHANGED <<now, hs, queue, lastInit, saved, tun, resets, installed>>

\* An Init of a third peer is accepted: timestamps that have aged out are
\* dropped from memory and from the file.
PruneTimestamp(x) ==
  /\ lastInit[x] > 0 /\ lastInit[x] < Clock(x) - MaxTimestampSkew
  /\ lastInit' = [lastInit EXCEPT ![x] = 0]
  /\ saved' = [saved EXCEPT ![x] = 0]
  /\ udp[x].pc = "idle"
  /\ UNCHANGED <<now, net, hs, slots, queue, knows, udp, tun, resets, installed>>
-----------------------------------------------------------------------------
(***************************************************************************)
(* handleResp: the attempt is withdrawn, then the session installed and    *)
(* the hold queue flushed.                                                 *)
(***************************************************************************)
RespAccept(x, m) ==
  /\ udp[x].pc = "idle"
  /\ m.type = "Resp" /\ m.s.by = x /\ knows[x]
  /\ HSPending(x) /\ hs[x].ts = m.s.ts
  /\ Clock(x) - (m.s.ans + Offset[Other(x)]) \in -MaxTimestampSkew .. MaxTimestampSkew
  /\ hs' = [hs EXCEPT ![x] = NoHS]
  /\ udp' = [udp EXCEPT ![x] = [pc |-> "install", stale |-> FALSE, s |-> m.s]]
  /\ UNCHANGED <<now, net, slots, queue, knows, lastInit, saved, tun, resets, installed>>

\* FlushHoldQueue: the held packets leave under session s.
Flush(x, s) ==
  IF knows[x]
  THEN /\ queue' = [queue EXCEPT ![x] = 0]
       /\ net' = IF queue[x] > 0 THEN net \cup {DataMsg(x, s)} ELSE net
  ELSE UNCHANGED <<queue, net>>

SetSession(k, s) ==
  [k EXCEPT !.session = [s |-> s, born |-> now],
            !.prev = IF k.session # None THEN k.session ELSE @]

\* A replaced entry gets the session too, and flushes what it held.
RespInstall(x) ==
  LET s == udp[x].s IN
  /\ udp[x].pc = "install"
  /\ installed' = installed \cup {s}
  /\ IF udp[x].stale
     THEN /\ \E held \in {{}, {DataMsg(x, s)}} : net' = net \cup held
          /\ UNCHANGED <<slots, queue>>
     ELSE slots' = [slots EXCEPT ![x] = SetSession(@, s)] /\ Flush(x, s)
  /\ udp' = [udp EXCEPT ![x] = Idle]
  /\ UNCHANGED <<now, hs, knows, lastInit, saved, tun, resets>>
-----------------------------------------------------------------------------
(***************************************************************************)
(* decryptDataPacket: the active session, then the pending one, which the  *)
(* packet confirms, then the previous one.                                 *)
(***************************************************************************)
Opens(k, s) == k # None /\ k.s = s

Promote(k) ==
  [session |-> k.pending, pending |-> None,
   prev |-> IF k.session # None THEN k.session ELSE k.prev]

\* Only the pending session leaves a mark; the others hand the packet on.
DataConfirms(x, m) ==
  LET k == slots[x] IN
  /\ udp[x].pc = "idle"
  /\ m.type = "Data" /\ m.from = Other(x) /\ knows[x]
  /\ ~Opens(k.session, m.s) /\ Opens(k.pending, m.s)
  /\ slots' = [slots EXCEPT ![x] = Promote(k)]
  /\ Flush(x, m.s)
  /\ UNCHANGED <<now, hs, knows, lastInit, saved, udp, tun, resets, installed>>
-----------------------------------------------------------------------------
(***************************************************************************)
(* The coordinator client replaces the entry; the process restarts.        *)
(***************************************************************************)
\* Goroutines in the middle of a call keep the replaced entry.  If the peer left
\* and came back, OnPeerRemoved has dropped the pending handshake.
ReplaceEntry(x) ==
  /\ resets < MaxResets
  /\ resets' = resets + 1
  /\ \E attempt \in {hs[x], NoHS} : hs' = [hs EXCEPT ![x] = attempt]
  /\ slots' = [slots EXCEPT ![x] = Empty]
  /\ queue' = [queue EXCEPT ![x] = 0]
  /\ \E known \in BOOLEAN : knows' = [knows EXCEPT ![x] = known]
  /\ udp' = IF udp[x] = Idle THEN udp ELSE [udp EXCEPT ![x].stale = TRUE]
  /\ tun' = IF tun[x] = "idle" THEN tun ELSE [tun EXCEPT ![x] = "stale"]
  /\ UNCHANGED <<now, net, lastInit, saved, installed>>

\* UseReplayState reads the timestamps that have not aged out.
LoadReplayState(x) ==
  IF saved[x] < Clock(x) - MaxTimestampSkew THEN 0 ELSE saved[x]

Restart(x) ==
  /\ resets < MaxResets
  /\ resets' = resets + 1
  /\ hs' = [hs EXCEPT ![x] = NoHS]
  /\ slots' = [slots EXCEPT ![x] = Empty]
  /\ queue' = [queue EXCEPT ![x] = 0]
  /\ \E known \in BOOLEAN : knows' = [knows EXCEPT ![x] = known]
  /\ lastInit' = [lastInit EXCEPT ![x] = LoadReplayState(x)]
  /\ udp' = [udp EXCEPT ![x] = Idle]
  /\ tun' = [tun EXCEPT ![x] = "idle"]
  /\ UNCHANGED <<now, net, saved, installed>>

\* A hint from the coordinator or NAT traversal fills in the endpoint.
Hint(x) ==
  /\ ~knows[x]
  /\ knows' = [knows EXCEPT ![x] = TRUE]
  /\ UNCHANGED <<now, net, hs, slots, queue, lastInit, saved, udp, tun, resets, installed>>

Tick ==
  /\ now < MaxTime
  /\ now' = now + 1
  /\ UNCHANGED <<net, memory, saved, resets, installed>>

Next ==
  \/ Tick
  \/ \E x \in Node :
       \/ Trigger(x) \/ TunSend(x) \/ TunMiss(x) \/ TunHold(x)
       \/ \E m \in net : InitAccept(x, m) \/ RespAccept(x, m) \/ DataConfirms(x, m)
       \/ InitSave(x) \/ InitAnswer(x) \/ RespInstall(x) \/ PruneTimestamp(x)
       \/ ReplaceEntry(x) \/ Restart(x) \/ Hint(x)

Spec == Init /\ [][Next]_vars
-----------------------------------------------------------------------------
(***************************************************************************)
(* Properties.                                                             *)
(***************************************************************************)
Msg == [type: {"Init"}, from: Node, ts: Int] \cup [type: {"Resp"}, s: Sess]
         \cup [type: {"Data"}, from: Node, s: Sess]

\* Sessions, attempts, queue and timestamps have their types; an attempt is
\* retried at most MaxHandshakeRetries times and the hold queue keeps its bound.
TypeOK ==
  /\ now \in Nat
  /\ net \subseteq Msg
  /\ \A x \in Node :
       /\ hs[x] = NoHS \/ hs[x].retries \in 0 .. MaxHandshakeRetries
       /\ {slots[x].session, slots[x].pending, slots[x].prev} \subseteq Keyed \cup {None}
       /\ udp[x].pc \in {"idle", "save", "answer", "install"}
  /\ queue \in [Node -> 0 .. HoldQueueMax]
  /\ knows \in [Node -> BOOLEAN]
  /\ lastInit \in [Node -> Nat] /\ saved \in [Node -> Nat]
  /\ tun \in [Node -> {"idle", "hold", "stale"}]
  /\ installed \subseteq Sess

\* No Init is answered twice, whatever the network repeats and however often the
\* responder restarts: the timestamp is on disk before the answer leaves, and
\* a timestamp is dropped only once the Init it belongs to is too old to pass.
AnsweredOnce ==
  \A m1, m2 \in net :
    m1.type = "Resp" /\ m2.type = "Resp" /\ m1.s.by = m2.s.by /\ m1.s.ts = m2.s.ts
      => m1 = m2

\* No end sends under a session before its initiator has it: a responder whose
\* answer was lost goes on with the session both ends have.
ConfirmedBeforeUse == \A m \in net : m.type = "Data" => m.s \in installed
=============================================================================
