-------------------------- MODULE HandshakeProofs --------------------------
(***************************************************************************)
(* What a handshake promises: Tunnel, for any clocks, limits and number of *)
(* handshakes, and the trust on first use it asks for, Tofu, for any keys, *)
(* addresses and number of reservations.                                   *)
(*                                                                         *)
(* That no Init is answered twice rests on an invariant about the three    *)
(* places a timestamp is in: the Init being handled, initTimestamps and    *)
(* the replay file.  Each answered Init is at most as new as the file says *)
(* or aged; memory never falls behind the file but for what has aged; and  *)
(* the file is written before the answer is sent.  That no end sends under *)
(* a session the initiator lacks rests on what its active slot holds.      *)
(*                                                                         *)
(* That a key keeps the address it was let through at rests on no two keys *)
(* ever holding the same address, in any set of pins in memory or on disk, *)
(* and on the file keeping up with memory while saves succeed.             *)
(***************************************************************************)
EXTENDS Tunnel, Tofu, FiniteSetTheorems, TLAPS

HandshakeType == [ts: Int, at: Int, retries: -1 .. MaxHandshakeRetries]
SlotType == Keyed \cup {None}
JobType == {Idle} \cup [pc: {"save", "answer", "install"}, stale: BOOLEAN, s: Sess]

Shape ==
  /\ now \in Nat /\ resets \in Nat
  /\ net \subseteq Msg
  /\ hs \in [Node -> HandshakeType]
  /\ \A x \in Node : hs[x] = NoHS \/ hs[x].retries >= 0
  /\ slots \in [Node -> [session: SlotType, pending: SlotType, prev: SlotType]]
  /\ queue \in [Node -> 0 .. HoldQueueMax]
  /\ knows \in [Node -> BOOLEAN]
  /\ lastInit \in [Node -> Nat] /\ saved \in [Node -> Nat]
  /\ udp \in [Node -> JobType]
  /\ tun \in [Node -> {"idle", "hold", "stale"}]
  /\ installed \subseteq Sess

\* The session an end sends under is one that its initiator has installed.
SendsInstalled ==
  \A x \in Node : slots[x].session # None => slots[x].session.s \in installed

\* ts is too old for end x to accept an Init with it.
Aged(x, ts) == ts < Clock(x) - MaxTimestampSkew

\* m answers an Init of x's peer.
AnswerOf(x, m) == m.type = "Resp" /\ m.s.by = Other(x)

\* Each Init that x has answered is one the replay file still shuts out, or is
\* too old to be accepted again.
Recorded == \A x \in Node, m \in net : AnswerOf(x, m) => m.s.ts <= saved[x] \/ Aged(x, m.s.ts)

\* What memory has lost of the replay file, a restart found aged.
Remembered == \A x \in Node : saved[x] <= lastInit[x] \/ Aged(x, saved[x])

\* An Init that is being handled was the newest of the peer, has no answer yet,
\* and is in the replay file before it gets one.
Handled ==
  \A x \in Node :
    udp[x].pc \in {"save", "answer"} =>
      /\ udp[x].s.by = Other(x)
      /\ udp[x].s.ts = lastInit[x]
      /\ udp[x].pc = "answer" => udp[x].s.ts <= saved[x]
      /\ \A m \in net : AnswerOf(x, m) => m.s.ts # udp[x].s.ts

Replay == AnsweredOnce /\ Recorded /\ Remembered /\ Handled
Sending == ConfirmedBeforeUse /\ SendsInstalled

Inv == Shape /\ Sending /\ Replay
-----------------------------------------------------------------------------
\* Each of the two ends is the other's peer.
LEMMA OtherEnd ==
  \A x, y \in Node : Other(x) \in Node /\ Other(x) # x /\ (Other(x) = Other(y) => x = y)
<1>. SUFFICES ASSUME NEW x \in Node, NEW y \in Node
              PROVE  Other(x) \in Node /\ Other(x) # x /\ (Other(x) = Other(y) => x = y)
  OBVIOUS
<1>1. PICK p, q \in Node : p # q /\ Node = {p, q}
  BY NodeAssumption
<1>2. \E z \in Node : z # x
  BY <1>1
<1>3. \E z \in Node : z # y
  BY <1>1
<1>4. Other(x) \in Node /\ Other(x) # x
  BY <1>2 DEF Other
<1>5. Other(y) \in Node /\ Other(y) # y
  BY <1>3 DEF Other
<1>. QED
  BY <1>1, <1>4, <1>5

\* A clock shows an integer, and the limits are numbers.
LEMMA Numbers ==
  ASSUME Shape
  PROVE  /\ \A x \in Node : Offset[x] \in Int /\ Clock(x) \in Int
         /\ MaxTimestampSkew \in Nat /\ MaxHandshakeRetries \in Nat /\ HoldQueueMax \in Nat
  BY OffsetAssumption, BoundAssumption DEF Shape, Clock

\* What a member of net is, by its type.
LEMMA Messages ==
  ASSUME NEW m \in Msg
  PROVE  /\ m.type = "Init" => m.from \in Node /\ m.ts \in Int
         /\ m.type = "Resp" => m = RespMsg(m.s) /\ m.s \in Sess
         /\ m.type = "Data" => m.from \in Node /\ m.s \in Sess
  BY DEF Msg, RespMsg

\* What a call of Initiate may do to the attempt and to the network.
LEMMA InitiateStep ==
  ASSUME Shape, NEW x \in Node, Initiate(x)
  PROVE  /\ net' \subseteq Msg
         /\ hs' \in [Node -> HandshakeType]
         /\ \A y \in Node : hs'[y] = NoHS \/ hs'[y].retries >= 0
         /\ \A m \in net' : m.type # "Init" => m \in net
<1>. USE Numbers DEF Shape
<1>0. NoHS \in HandshakeType
  BY DEF NoHS, HandshakeType
<1>1. CASE UNCHANGED <<hs, net>>
  BY <1>1
<1>2. CASE hs' = [hs EXCEPT ![x] = NoHS] /\ UNCHANGED net
  BY <1>0, <1>2
<1>3. CASE hs' = (IF HSPending(x) THEN [hs EXCEPT ![x].at = now] ELSE hs) /\ UNCHANGED net
  <2>1. CASE HSPending(x)
    <3>1. hs[x] \in HandshakeType /\ hs[x].retries >= 0
      BY <2>1 DEF HSPending
    <3>2. [hs[x] EXCEPT !.at = now] \in HandshakeType /\ [hs[x] EXCEPT !.at = now].retries >= 0
      BY <3>1 DEF HandshakeType
    <3>3. hs' = [hs EXCEPT ![x] = [hs[x] EXCEPT !.at = now]]
      BY <1>3, <2>1
    <3>. QED
      BY <1>3, <3>2, <3>3
  <2>2. CASE ~HSPending(x)
    BY <1>3, <2>2
  <2>. QED
    BY <2>1, <2>2
<1>4. CASE /\ ~Recent(x) /\ ~Exhausted(x)
           /\ hs' = [hs EXCEPT ![x] = [ts |-> Clock(x), at |-> now, retries |-> @.retries + 1]]
           /\ net' = net \cup {InitMsg(x, Clock(x))}
  <2>1. InitMsg(x, Clock(x)) \in Msg /\ InitMsg(x, Clock(x)).type = "Init"
    BY DEF InitMsg, Msg
  <2>2. hs[x].retries + 1 \in 0 .. MaxHandshakeRetries
    <3>1. CASE hs[x] = NoHS
      BY <3>1 DEF NoHS
    <3>2. CASE hs[x] # NoHS
      <4>1. hs[x].retries \in 0 .. MaxHandshakeRetries
        BY <3>2 DEF HandshakeType
      <4>2. ~(hs[x].retries >= MaxHandshakeRetries)
        BY <1>4, <3>2 DEF Exhausted, HSPending
      <4>. QED
        BY <4>1, <4>2
    <3>. QED
      BY <3>1, <3>2
  <2>3. [ts |-> Clock(x), at |-> now, retries |-> hs[x].retries + 1] \in HandshakeType
    BY <2>2 DEF HandshakeType
  <2>4. hs' \in [Node -> HandshakeType] /\ \A y \in Node : hs'[y] = NoHS \/ hs'[y].retries >= 0
    BY <1>4, <2>2, <2>3
  <2>. QED
    BY <1>4, <2>1, <2>4
<1>. QED
  BY <1>1, <1>2, <1>3, <1>4 DEF Initiate

\* A step that leaves the timestamps and the Inits in hand alone, and answers
\* nothing, keeps Replay while the clock goes on.
LEMMA ReplayKept ==
  ASSUME Shape, Shape', Replay, UNCHANGED <<lastInit, saved>>, now' >= now,
         \A m \in net' : m.type = "Resp" => m \in net,
         \A x \in Node : udp'[x].pc \in {"save", "answer"} =>
                           udp'[x].pc = udp[x].pc /\ udp'[x].s = udp[x].s
  PROVE  Replay'
<1>0. \A x \in Node, ts \in Int : Aged(x, ts) => Aged(x, ts)'
  BY Numbers DEF Shape, Aged, Clock
<1>1. AnsweredOnce'
  BY DEF Replay, AnsweredOnce
<1>2. Recorded'
  <2>. SUFFICES ASSUME NEW x \in Node, NEW m \in net', AnswerOf(x, m)
                PROVE  m.s.ts <= saved[x] \/ Aged(x, m.s.ts)'
    BY DEF Recorded, AnswerOf
  <2>1. m \in net /\ m.s.ts \in Int
    BY Messages DEF AnswerOf, Shape, Sess
  <2>. QED
    BY <1>0, <2>1 DEF Replay, Recorded
<1>3. Remembered'
  BY <1>0 DEF Replay, Remembered, Shape
<1>4. Handled'
  BY DEF Replay, Handled, AnswerOf
<1>. QED
  BY <1>1, <1>2, <1>3, <1>4 DEF Replay

-----------------------------------------------------------------------------
\* The tunnel starts with nothing sent, installed or recorded.
LEMMA InitInv == Init => Inv
<1>. SUFFICES ASSUME Init PROVE Inv
  OBVIOUS
<1>1. Shape
  <2>1. NoHS \in HandshakeType
    BY BoundAssumption DEF NoHS, HandshakeType
  <2>2. Empty \in [session: SlotType, pending: SlotType, prev: SlotType]
    BY DEF Empty, SlotType
  <2>. QED
    BY <2>1, <2>2, BoundAssumption DEF Init, Shape, JobType, Msg
<1>2. Sending
  BY DEF Init, Sending, ConfirmedBeforeUse, SendsInstalled, Empty
<1>3. Replay
  BY DEF Init, Replay, AnsweredOnce, Recorded, Remembered, Handled, Idle
<1>. QED
  BY <1>1, <1>2, <1>3 DEF Inv

\* Time passes at both ends.
LEMMA TickInv ==
  ASSUME Inv, Tick
  PROVE  Inv'
<1>. USE Numbers DEF Inv
<1>1. Shape'
  BY DEF Shape, memory, Tick
<1>2. Sending'
  BY DEF Sending, ConfirmedBeforeUse, SendsInstalled, Shape, memory, Tick
<1>3. Replay'
  BY <1>1, ReplayKept DEF Shape, memory, Tick
<1>. QED
  BY <1>1, <1>2, <1>3

\* A handshake is started by another goroutine.
LEMMA TriggerInv ==
  ASSUME Inv, NEW x \in Node, Trigger(x)
  PROVE  Inv'
<1>. USE Numbers DEF Inv
<1>1. Shape'
  BY InitiateStep DEF Shape, Trigger
<1>2. Sending'
  <2>1. \A m \in net' : m.type = "Data" => m \in net
    BY InitiateStep DEF Trigger
  <2>. QED
    BY <2>1 DEF Sending, ConfirmedBeforeUse, SendsInstalled, Trigger
<1>3. Replay'
  <2>1. \A m \in net' : m.type = "Resp" => m \in net
    BY InitiateStep DEF Trigger
  <2>. QED
    BY <1>1, <2>1, ReplayKept DEF Shape, Trigger
<1>. QED
  BY <1>1, <1>2, <1>3

\* A packet leaves under the active session.
LEMMA TunSendInv ==
  ASSUME Inv, NEW x \in Node, TunSend(x)
  PROVE  Inv'
<1>. USE Numbers DEF Inv
<1>1. Shape'
  <2>1. slots[x].session \in Keyed
    BY DEF TunSend, Usable, Shape, SlotType
  <2>2. DataMsg(x, slots[x].session.s) \in Msg
    BY <2>1 DEF DataMsg, Msg, Keyed
  <2>. QED
    BY <2>2 DEF Shape, memory, TunSend
<1>2. Sending'
  <2>1. slots[x].session.s \in installed
    BY DEF TunSend, Usable, Sending, SendsInstalled
  <2>2. DataMsg(x, slots[x].session.s).s = slots[x].session.s
    BY DEF DataMsg
  <2>. QED
    BY <2>1, <2>2 DEF Sending, ConfirmedBeforeUse, SendsInstalled, memory, TunSend
<1>3. Replay'
  <2>1. \A m \in net' : m.type = "Resp" => m \in net
    BY DEF TunSend, DataMsg
  <2>. QED
    BY <1>1, <2>1, ReplayKept DEF Shape, memory, TunSend
<1>. QED
  BY <1>1, <1>2, <1>3

\* The TUN goroutine finds no session for its packet.
LEMMA TunMissInv ==
  ASSUME Inv, NEW x \in Node, TunMiss(x)
  PROVE  Inv'
<1>. USE Numbers DEF Inv
<1>1. Shape'
  BY DEF Shape, TunMiss
<1>2. Sending'
  BY DEF Sending, ConfirmedBeforeUse, SendsInstalled, Shape, memory, TunMiss
<1>3. Replay'
  BY <1>1, ReplayKept DEF Shape, memory, TunMiss
<1>. QED
  BY <1>1, <1>2, <1>3

\* The packet is held if there is room, and a handshake started.
LEMMA TunHoldInv ==
  ASSUME Inv, NEW x \in Node, TunHold(x)
  PROVE  Inv'
<1>. USE Numbers DEF Inv
<1>1. Shape'
  <2>1. queue' \in [Node -> 0 .. HoldQueueMax]
    BY DEF TunHold, Held, Shape
  <2>2. tun' \in [Node -> {"idle", "hold", "stale"}]
    BY DEF TunHold, Shape
  <2>. QED
    BY <2>1, <2>2, InitiateStep DEF Shape, TunHold
<1>2. Sending'
  <2>1. \A m \in net' : m.type = "Data" => m \in net
    BY InitiateStep DEF TunHold
  <2>. QED
    BY <2>1 DEF Sending, ConfirmedBeforeUse, SendsInstalled, TunHold
<1>3. Replay'
  <2>1. \A m \in net' : m.type = "Resp" => m \in net
    BY InitiateStep DEF TunHold
  <2>. QED
    BY <1>1, <2>1, ReplayKept DEF Shape, TunHold
<1>. QED
  BY <1>1, <1>2, <1>3

\* An Init is accepted: it is newer than all that were accepted and not aged, so
\* by Recorded and Remembered it has no answer.
LEMMA InitAcceptInv ==
  ASSUME Inv, NEW x \in Node, NEW m \in net, InitAccept(x, m)
  PROVE  Inv'
<1>. USE Numbers DEF Inv
<1>1. Shape'
  <2>1. m.ts \in Nat /\ m.from \in Node
    BY Messages DEF Shape, InitAccept
  <2>2. [by |-> m.from, ts |-> m.ts, ans |-> now] \in Sess
    BY <2>1 DEF Shape, Sess
  <2>3. [pc |-> "save", stale |-> FALSE, s |-> [by |-> m.from, ts |-> m.ts, ans |-> now]] \in JobType
    BY <2>2 DEF JobType
  <2>. QED
    BY <2>1, <2>3 DEF Shape, InitAccept
<1>2. Sending'
  BY DEF Sending, ConfirmedBeforeUse, SendsInstalled, Shape, memory, InitAccept
<1>3. Replay'
  <2>1. /\ m.ts \in Int /\ m.ts > lastInit[x] /\ ~Aged(x, m.ts)
        /\ m.from = Other(x)
    BY Messages DEF Shape, InitAccept, Fresh, Aged
  <2>2. /\ udp'[x].pc = "save" /\ udp'[x].s.by = Other(x)
        /\ udp'[x].s.ts = m.ts /\ lastInit'[x] = m.ts
        /\ \A y \in Node \ {x} : udp'[y] = udp[y] /\ lastInit'[y] = lastInit[y]
    BY <2>1 DEF Shape, InitAccept
  <2>3. UNCHANGED <<net, saved, now>> /\ lastInit[x] \in Nat /\ saved[x] \in Nat
    BY DEF Shape, InitAccept
  <2>4. ASSUME NEW r \in net, AnswerOf(x, r)
        PROVE  r.s.ts # m.ts
    <3>1. r.s.ts <= saved[x] \/ Aged(x, r.s.ts)
      BY <2>4 DEF Replay, Recorded
    <3>2. saved[x] <= lastInit[x] \/ Aged(x, saved[x])
      BY DEF Replay, Remembered
    <3>. QED
      BY <2>1, <2>3, <3>1, <3>2 DEF Aged
  <2>5. AnsweredOnce' /\ Recorded'
    BY <2>3 DEF Replay, AnsweredOnce, Recorded, Aged, Clock
  <2>6. Remembered'
    <3>. SUFFICES ASSUME NEW y \in Node
                  PROVE  saved[y] <= lastInit'[y] \/ Aged(y, saved[y])
      BY <2>3 DEF Remembered, Aged, Clock
    <3>1. saved[y] <= lastInit[y] \/ Aged(y, saved[y])
      BY DEF Replay, Remembered
    <3>. QED
      BY <2>1, <2>2, <2>3, <3>1
  <2>7. Handled'
    <3>. SUFFICES ASSUME NEW y \in Node, udp'[y].pc \in {"save", "answer"}
                  PROVE  /\ udp'[y].s.by = Other(y)
                         /\ udp'[y].s.ts = lastInit'[y]
                         /\ udp'[y].pc = "answer" => udp'[y].s.ts <= saved[y]
                         /\ \A r \in net : AnswerOf(y, r) => r.s.ts # udp'[y].s.ts
      BY <2>3 DEF Handled, AnswerOf
    <3>1. CASE y = x
      BY <2>2, <2>4, <3>1
    <3>2. CASE y # x
      BY <2>2, <3>2 DEF Replay, Handled
    <3>. QED
      BY <3>1, <3>2
  <2>. QED
    BY <2>5, <2>6, <2>7 DEF Replay
<1>. QED
  BY <1>1, <1>2, <1>3

\* The timestamp is written to the replay file; what it overwrites is no newer, or
\* has aged.
LEMMA InitSaveInv ==
  ASSUME Inv, NEW x \in Node, InitSave(x)
  PROVE  Inv'
<1>. USE Numbers DEF Inv
<1>1. Shape'
  <2>1. udp[x] # Idle
    BY DEF InitSave, Idle
  <2>2. [udp[x] EXCEPT !.pc = "answer"] \in JobType
    BY <2>1 DEF Shape, JobType
  <2>. QED
    BY <2>2 DEF Shape, InitSave
<1>2. Sending'
  BY DEF Sending, ConfirmedBeforeUse, SendsInstalled, Shape, memory, InitSave
<1>3. Replay'
  <2>1. /\ udp[x].pc = "save" /\ udp[x].s.by = Other(x) /\ udp[x].s.ts = lastInit[x]
        /\ \A r \in net : AnswerOf(x, r) => r.s.ts # udp[x].s.ts
    BY DEF InitSave, Replay, Handled
  <2>2. udp[x] \in [pc: {"save", "answer", "install"}, stale: BOOLEAN, s: Sess]
    BY <2>1 DEF Shape, JobType, Idle
  <2>3. /\ udp'[x].pc = "answer" /\ udp'[x].s = udp[x].s /\ saved'[x] = lastInit[x]
        /\ \A y \in Node \ {x} : udp'[y] = udp[y] /\ saved'[y] = saved[y]
    BY <2>2 DEF Shape, InitSave
  <2>4. UNCHANGED <<net, lastInit, now>> /\ lastInit[x] \in Nat /\ saved[x] \in Nat
    BY DEF Shape, InitSave
  <2>5. AnsweredOnce'
    BY <2>4 DEF Replay, AnsweredOnce
  <2>6. Recorded'
    <3>. SUFFICES ASSUME NEW y \in Node, NEW r \in net, AnswerOf(y, r)
                  PROVE  r.s.ts <= saved'[y] \/ Aged(y, r.s.ts)
      BY <2>4 DEF Recorded, Aged, Clock, AnswerOf
    <3>1. r.s.ts \in Int
      BY Messages DEF AnswerOf, Shape, Sess
    <3>2. r.s.ts <= saved[y] \/ Aged(y, r.s.ts)
      BY DEF Replay, Recorded
    <3>3. saved[y] <= lastInit[y] \/ Aged(y, saved[y])
      BY DEF Replay, Remembered
    <3>4. CASE y = x
      BY <2>3, <2>4, <3>1, <3>2, <3>3, <3>4 DEF Aged
    <3>5. CASE y # x
      BY <2>3, <3>2, <3>5
    <3>. QED
      BY <3>4, <3>5
  <2>7. Remembered'
    <3>. SUFFICES ASSUME NEW y \in Node
                  PROVE  saved'[y] <= lastInit[y] \/ Aged(y, saved'[y])
      BY <2>4 DEF Remembered, Aged, Clock
    <3>. QED
      BY <2>3, <2>4 DEF Replay, Remembered
  <2>8. Handled'
    <3>. SUFFICES ASSUME NEW y \in Node, udp'[y].pc \in {"save", "answer"}
                  PROVE  /\ udp'[y].s.by = Other(y)
                         /\ udp'[y].s.ts = lastInit[y]
                         /\ udp'[y].pc = "answer" => udp'[y].s.ts <= saved'[y]
                         /\ \A r \in net : AnswerOf(y, r) => r.s.ts # udp'[y].s.ts
      BY <2>4 DEF Handled, AnswerOf
    <3>1. CASE y = x
      BY <2>1, <2>3, <2>4, <3>1
    <3>2. CASE y # x
      BY <2>3, <3>2 DEF Replay, Handled
    <3>. QED
      BY <3>1, <3>2
  <2>. QED
    BY <2>5, <2>6, <2>7, <2>8 DEF Replay
<1>. QED
  BY <1>1, <1>2, <1>3

\* The one answer to an Init is sent.
LEMMA InitAnswerInv ==
  ASSUME Inv, NEW x \in Node, InitAnswer(x)
  PROVE  Inv'
<1>. USE Numbers DEF Inv
<1>1. Shape'
  <2>1. udp[x].s \in Sess
    BY DEF Shape, JobType, Idle, InitAnswer
  <2>2. RespMsg(udp[x].s) \in Msg
    BY <2>1 DEF RespMsg, Msg
  <2>3. [s |-> udp[x].s, born |-> now] \in SlotType
    BY <2>1 DEF Shape, SlotType, Keyed
  <2>4. slots' \in [Node -> [session: SlotType, pending: SlotType, prev: SlotType]]
    BY <2>3 DEF Shape, InitAnswer
  <2>. QED
    BY <2>2, <2>4 DEF Shape, InitAnswer, JobType
<1>2. Sending'
  <2>1. \A m \in net' : m.type = "Data" => m \in net
    BY DEF InitAnswer, RespMsg
  <2>2. \A y \in Node : slots'[y].session = slots[y].session
    BY DEF InitAnswer, Shape
  <2>. QED
    BY <2>1, <2>2 DEF Sending, ConfirmedBeforeUse, SendsInstalled, InitAnswer
<1>3. Replay'
  <2>1. /\ udp[x].s.by = Other(x) /\ udp[x].s.ts <= saved[x]
        /\ \A r \in net : AnswerOf(x, r) => r.s.ts # udp[x].s.ts
    BY DEF InitAnswer, Replay, Handled
  <2>2. PICK n \in Msg : n = RespMsg(udp[x].s)
    <3>1. udp[x].s \in Sess
      BY DEF Shape, JobType, Idle, InitAnswer
    <3>2. RespMsg(udp[x].s) \in Msg
      BY <3>1 DEF RespMsg, Msg
    <3>. QED
      BY <3>2
  <2>3. n.type = "Resp" /\ n.s = udp[x].s
    BY <2>2 DEF RespMsg
  <2>4. /\ net' = net \cup {n} /\ UNCHANGED <<lastInit, saved, now>>
        /\ udp'[x].pc = "idle" /\ \A y \in Node \ {x} : udp'[y] = udp[y]
    BY <2>2 DEF Shape, InitAnswer, Idle
  <2>5. \A y \in Node : AnswerOf(y, n) <=> y = x
    BY <2>1, <2>3, OtherEnd DEF AnswerOf
  <2>6. AnsweredOnce'
    <3>. SUFFICES ASSUME NEW r \in net, r.type = "Resp", r.s.by = n.s.by, r.s.ts = n.s.ts
                  PROVE  FALSE
      BY <2>4 DEF Replay, AnsweredOnce
    <3>. QED
      BY <2>1, <2>3 DEF AnswerOf
  <2>7. Recorded'
    <3>. SUFFICES ASSUME NEW y \in Node, NEW r \in net', AnswerOf(y, r)
                  PROVE  r.s.ts <= saved[y] \/ Aged(y, r.s.ts)
      BY <2>4 DEF Recorded, Aged, Clock, AnswerOf
    <3>1. CASE r \in net
      BY <3>1 DEF Replay, Recorded
    <3>2. CASE r = n
      BY <2>1, <2>3, <2>5, <3>2
    <3>. QED
      BY <2>4, <3>1, <3>2
  <2>8. Remembered'
    BY <2>4 DEF Replay, Remembered, Aged, Clock
  <2>9. Handled'
    <3>. SUFFICES ASSUME NEW y \in Node, udp'[y].pc \in {"save", "answer"}
                  PROVE  /\ udp'[y].s.by = Other(y)
                         /\ udp'[y].s.ts = lastInit[y]
                         /\ udp'[y].pc = "answer" => udp'[y].s.ts <= saved[y]
                         /\ \A r \in net' : AnswerOf(y, r) => r.s.ts # udp'[y].s.ts
      BY <2>4 DEF Handled, AnswerOf
    <3>1. y # x
      BY <2>4
    <3>2. \A r \in net' : AnswerOf(y, r) => r \in net
      BY <2>4, <2>5, <3>1
    <3>. QED
      BY <2>4, <3>1, <3>2 DEF Replay, Handled
  <2>. QED
    BY <2>6, <2>7, <2>8, <2>9 DEF Replay
<1>. QED
  BY <1>1, <1>2, <1>3

\* Only a timestamp that has aged is dropped, with all that are older.
LEMMA PruneTimestampInv ==
  ASSUME Inv, NEW x \in Node, PruneTimestamp(x)
  PROVE  Inv'
<1>. USE Numbers DEF Inv
<1>1. Shape'
  BY DEF Shape, PruneTimestamp
<1>2. Sending'
  BY DEF Sending, ConfirmedBeforeUse, SendsInstalled, Shape, memory, PruneTimestamp
<1>3. Replay'
  <2>1. /\ lastInit[x] < Clock(x) - MaxTimestampSkew /\ lastInit[x] \in Nat /\ saved[x] \in Nat
        /\ lastInit'[x] = 0 /\ saved'[x] = 0 /\ udp[x].pc = "idle"
        /\ \A y \in Node \ {x} : lastInit'[y] = lastInit[y] /\ saved'[y] = saved[y]
        /\ UNCHANGED <<net, udp, now>>
    BY DEF Shape, PruneTimestamp
  <2>2. AnsweredOnce'
    BY <2>1 DEF Replay, AnsweredOnce
  <2>3. Recorded'
    <3>. SUFFICES ASSUME NEW y \in Node, NEW r \in net, AnswerOf(y, r)
                  PROVE  r.s.ts <= saved'[y] \/ Aged(y, r.s.ts)
      BY <2>1 DEF Recorded, Aged, Clock, AnswerOf
    <3>1. r.s.ts \in Int
      BY Messages DEF AnswerOf, Shape, Sess
    <3>2. r.s.ts <= saved[y] \/ Aged(y, r.s.ts)
      BY DEF Replay, Recorded
    <3>3. saved[y] <= lastInit[y] \/ Aged(y, saved[y])
      BY DEF Replay, Remembered
    <3>4. CASE y = x
      BY <2>1, <3>1, <3>2, <3>3, <3>4 DEF Aged
    <3>5. CASE y # x
      BY <2>1, <3>2, <3>5
    <3>. QED
      BY <3>4, <3>5
  <2>4. Remembered'
    <3>. SUFFICES ASSUME NEW y \in Node
                  PROVE  saved'[y] <= lastInit'[y] \/ Aged(y, saved'[y])
      BY <2>1 DEF Remembered, Aged, Clock
    <3>. QED
      BY <2>1 DEF Replay, Remembered
  <2>5. Handled'
    <3>. SUFFICES ASSUME NEW y \in Node, udp[y].pc \in {"save", "answer"}
                  PROVE  /\ udp[y].s.by = Other(y)
                         /\ udp[y].s.ts = lastInit'[y]
                         /\ udp[y].pc = "answer" => udp[y].s.ts <= saved'[y]
                         /\ \A r \in net : AnswerOf(y, r) => r.s.ts # udp[y].s.ts
      BY <2>1 DEF Handled, AnswerOf
    <3>. QED
      BY <2>1 DEF Replay, Handled
  <2>. QED
    BY <2>2, <2>3, <2>4, <2>5 DEF Replay
<1>. QED
  BY <1>1, <1>2, <1>3

\* The attempt is withdrawn for the answer to it.
LEMMA RespAcceptInv ==
  ASSUME Inv, NEW x \in Node, NEW m \in net, RespAccept(x, m)
  PROVE  Inv'
<1>. USE Numbers DEF Inv
<1>1. Shape'
  <2>1. [pc |-> "install", stale |-> FALSE, s |-> m.s] \in JobType
    BY Messages DEF Shape, RespAccept, JobType
  <2>2. NoHS \in HandshakeType
    BY DEF NoHS, HandshakeType
  <2>. QED
    BY <2>1, <2>2 DEF Shape, RespAccept
<1>2. Sending'
  BY DEF Sending, ConfirmedBeforeUse, SendsInstalled, Shape, memory, RespAccept
<1>3. Replay'
  BY <1>1, ReplayKept DEF Shape, memory, RespAccept
<1>. QED
  BY <1>1, <1>2, <1>3

\* The initiator installs the session and what it held leaves under it.
LEMMA RespInstallInv ==
  ASSUME Inv, NEW x \in Node, RespInstall(x)
  PROVE  Inv'
<1>. USE Numbers DEF Inv
<1>1. Shape'
  <2>1. udp[x].s \in Sess
    BY DEF Shape, JobType, Idle, RespInstall
  <2>2. DataMsg(x, udp[x].s) \in Msg
    BY <2>1 DEF DataMsg, Msg
  <2>3. net' \subseteq Msg /\ queue' \in [Node -> 0 .. HoldQueueMax]
    BY <2>2 DEF Shape, RespInstall, Flush
  <2>4. [s |-> udp[x].s, born |-> now] \in SlotType
    BY <2>1 DEF Shape, SlotType, Keyed
  <2>5. SetSession(slots[x], udp[x].s) \in [session: SlotType, pending: SlotType, prev: SlotType]
    BY <2>4 DEF Shape, SetSession
  <2>6. slots' \in [Node -> [session: SlotType, pending: SlotType, prev: SlotType]]
    BY <2>5 DEF Shape, RespInstall
  <2>7. udp' \in [Node -> JobType] /\ installed' \subseteq Sess
    BY <2>1 DEF Shape, RespInstall, JobType
  <2>. QED
    BY <2>3, <2>6, <2>7 DEF Shape, RespInstall
<1>2. Sending'
  <2>1. udp[x].s \in installed' /\ installed \subseteq installed'
    BY DEF RespInstall
  <2>2. \A m \in net' : m \in net \/ m = DataMsg(x, udp[x].s)
    BY DEF RespInstall, Flush
  <2>3. DataMsg(x, udp[x].s).s = udp[x].s
    BY DEF DataMsg
  <2>4. \A y \in Node : slots'[y].session = slots[y].session \/ slots'[y].session.s = udp[x].s
    <3>1. SetSession(slots[x], udp[x].s).session.s = udp[x].s
      BY DEF Shape, SetSession
    <3>2. slots' = slots \/ slots' = [slots EXCEPT ![x] = SetSession(slots[x], udp[x].s)]
      BY DEF RespInstall
    <3>. QED
      BY <3>1, <3>2 DEF Shape
  <2>. QED
    BY <2>1, <2>2, <2>3, <2>4 DEF Sending, ConfirmedBeforeUse, SendsInstalled
<1>3. Replay'
  <2>1. \A m \in net' : m.type = "Resp" => m \in net
    BY DEF RespInstall, Flush, DataMsg
  <2>2. \A y \in Node : udp'[y] = udp[y] \/ udp'[y].pc = "idle"
    BY DEF Shape, RespInstall, Idle
  <2>. QED
    BY <1>1, <2>1, <2>2, ReplayKept DEF Shape, RespInstall
<1>. QED
  BY <1>1, <1>2, <1>3

\* A packet confirms the pending session: its sender had it, so it was installed.
LEMMA DataConfirmsInv ==
  ASSUME Inv, NEW x \in Node, NEW m \in net, DataConfirms(x, m)
  PROVE  Inv'
<1>. USE Numbers DEF Inv
<1>1. Shape'
  <2>1. m.s \in Sess /\ DataMsg(x, m.s) \in Msg
    BY Messages DEF Shape, DataConfirms, DataMsg, Msg
  <2>2. net' \subseteq Msg /\ queue' \in [Node -> 0 .. HoldQueueMax]
    BY <2>1 DEF Shape, DataConfirms, Flush
  <2>3. Promote(slots[x]) \in [session: SlotType, pending: SlotType, prev: SlotType]
    BY DEF Shape, Promote, SlotType
  <2>. QED
    BY <2>2, <2>3 DEF Shape, DataConfirms
<1>2. Sending'
  <2>1. m.s \in installed /\ slots[x].pending.s = m.s
    BY DEF DataConfirms, Opens, Sending, ConfirmedBeforeUse
  <2>2. \A r \in net' : r \in net \/ r = DataMsg(x, m.s)
    BY DEF DataConfirms, Flush
  <2>3. DataMsg(x, m.s).s = m.s
    BY DEF DataMsg
  <2>4. \A y \in Node : slots'[y].session = slots[y].session \/ slots'[y].session.s = m.s
    BY <2>1 DEF Shape, DataConfirms, Promote
  <2>. QED
    BY <2>1, <2>2, <2>3, <2>4 DEF Sending, ConfirmedBeforeUse, SendsInstalled, DataConfirms
<1>3. Replay'
  <2>1. \A r \in net' : r.type = "Resp" => r \in net
    BY DEF DataConfirms, Flush, DataMsg
  <2>. QED
    BY <1>1, <2>1, ReplayKept DEF Shape, DataConfirms
<1>. QED
  BY <1>1, <1>2, <1>3

\* The entry is replaced; the goroutines go on with what they have read.
LEMMA ReplaceEntryInv ==
  ASSUME Inv, NEW x \in Node, ReplaceEntry(x)
  PROVE  Inv'
<1>. USE Numbers DEF Inv
<1>1. Shape'
  <2>1. NoHS \in HandshakeType
    BY DEF NoHS, HandshakeType
  <2>2. hs' \in [Node -> HandshakeType] /\ \A y \in Node : hs'[y] = NoHS \/ hs'[y].retries >= 0
    BY <2>1 DEF Shape, ReplaceEntry
  <2>3. Empty \in [session: SlotType, pending: SlotType, prev: SlotType]
    BY DEF Empty, SlotType
  <2>4. udp' \in [Node -> JobType]
    <3>1. CASE udp[x] = Idle
      BY <3>1 DEF Shape, ReplaceEntry
    <3>2. CASE udp[x] # Idle
      <4>1. [udp[x] EXCEPT !.stale = TRUE] \in JobType
        BY <3>2 DEF Shape, JobType
      <4>. QED
        BY <3>2, <4>1 DEF Shape, ReplaceEntry
    <3>. QED
      BY <3>1, <3>2
  <2>5. tun' \in [Node -> {"idle", "hold", "stale"}]
    BY DEF Shape, ReplaceEntry
  <2>6. knows' \in [Node -> BOOLEAN]
    BY DEF Shape, ReplaceEntry
  <2>. QED
    BY <2>2, <2>3, <2>4, <2>5, <2>6 DEF Shape, ReplaceEntry
<1>2. Sending'
  <2>1. \A y \in Node : slots'[y].session = slots[y].session \/ slots'[y].session = None
    BY DEF Shape, ReplaceEntry, Empty
  <2>. QED
    BY <2>1 DEF Sending, ConfirmedBeforeUse, SendsInstalled, ReplaceEntry
<1>3. Replay'
  <2>1. \A y \in Node : udp'[y].pc \in {"save", "answer"} =>
                          udp'[y].pc = udp[y].pc /\ udp'[y].s = udp[y].s
    BY DEF Shape, ReplaceEntry, JobType, Idle
  <2>. QED
    BY <1>1, <2>1, ReplayKept DEF Shape, ReplaceEntry
<1>. QED
  BY <1>1, <1>2, <1>3

\* The process forgets all but the replay file, and of that what has aged.
LEMMA RestartInv ==
  ASSUME Inv, NEW x \in Node, Restart(x)
  PROVE  Inv'
<1>. USE Numbers DEF Inv
<1>1. Shape'
  <2>1. NoHS \in HandshakeType
    BY DEF NoHS, HandshakeType
  <2>2. hs' \in [Node -> HandshakeType] /\ \A y \in Node : hs'[y] = NoHS \/ hs'[y].retries >= 0
    BY <2>1 DEF Shape, Restart
  <2>3. Empty \in [session: SlotType, pending: SlotType, prev: SlotType]
    BY DEF Empty, SlotType
  <2>4. lastInit' \in [Node -> Nat]
    BY DEF Shape, Restart, LoadReplayState
  <2>5. knows' \in [Node -> BOOLEAN]
    BY DEF Shape, Restart
  <2>. QED
    BY <2>2, <2>3, <2>4, <2>5 DEF Shape, Restart, JobType
<1>2. Sending'
  <2>1. \A y \in Node : slots'[y].session = slots[y].session \/ slots'[y].session = None
    BY DEF Shape, Restart, Empty
  <2>. QED
    BY <2>1 DEF Sending, ConfirmedBeforeUse, SendsInstalled, Restart
<1>3. Replay'
  <2>1. /\ UNCHANGED <<net, saved, now>> /\ udp'[x].pc = "idle" /\ saved[x] \in Nat
        /\ lastInit'[x] = LoadReplayState(x)
        /\ \A y \in Node \ {x} : lastInit'[y] = lastInit[y] /\ udp'[y] = udp[y]
    BY DEF Shape, Restart, Idle
  <2>2. AnsweredOnce' /\ Recorded'
    BY <2>1 DEF Replay, AnsweredOnce, Recorded, Aged, Clock
  <2>3. Remembered'
    <3>. SUFFICES ASSUME NEW y \in Node
                  PROVE  saved[y] <= lastInit'[y] \/ Aged(y, saved[y])
      BY <2>1 DEF Remembered, Aged, Clock
    <3>1. CASE y = x
      BY <2>1, <3>1 DEF LoadReplayState, Aged
    <3>2. CASE y # x
      BY <2>1, <3>2 DEF Replay, Remembered
    <3>. QED
      BY <3>1, <3>2
  <2>4. Handled'
    <3>. SUFFICES ASSUME NEW y \in Node, udp'[y].pc \in {"save", "answer"}
                  PROVE  /\ udp'[y].s.by = Other(y)
                         /\ udp'[y].s.ts = lastInit'[y]
                         /\ udp'[y].pc = "answer" => udp'[y].s.ts <= saved[y]
                         /\ \A r \in net : AnswerOf(y, r) => r.s.ts # udp'[y].s.ts
      BY <2>1 DEF Handled, AnswerOf
    <3>. QED
      BY <2>1 DEF Replay, Handled
  <2>. QED
    BY <2>2, <2>3, <2>4 DEF Replay
<1>. QED
  BY <1>1, <1>2, <1>3

\* The endpoint is filled in.
LEMMA HintInv ==
  ASSUME Inv, NEW x \in Node, Hint(x)
  PROVE  Inv'
<1>. USE Numbers DEF Inv
<1>1. Shape'
  BY DEF Shape, Hint
<1>2. Sending'
  BY DEF Sending, ConfirmedBeforeUse, SendsInstalled, Shape, memory, Hint
<1>3. Replay'
  BY <1>1, ReplayKept DEF Shape, memory, Hint
<1>. QED
  BY <1>1, <1>2, <1>3

-----------------------------------------------------------------------------
\* The invariant is inductive.
LEMMA NextInv == Inv /\ [Next]_vars => Inv'
<1>. SUFFICES ASSUME Inv, [Next]_vars PROVE Inv'
  OBVIOUS
<1>1. CASE Tick
  BY <1>1, TickInv
<1>2. ASSUME NEW x \in Node,
             \/ Trigger(x) \/ TunSend(x) \/ TunMiss(x) \/ TunHold(x)
             \/ InitSave(x) \/ InitAnswer(x) \/ RespInstall(x) \/ PruneTimestamp(x)
             \/ ReplaceEntry(x) \/ Restart(x) \/ Hint(x)
      PROVE  Inv'
  BY <1>2, TriggerInv, TunSendInv, TunMissInv, TunHoldInv, InitSaveInv, InitAnswerInv, RespInstallInv,
     PruneTimestampInv, ReplaceEntryInv, RestartInv, HintInv
<1>3. ASSUME NEW x \in Node, NEW m \in net, InitAccept(x, m) \/ RespAccept(x, m) \/ DataConfirms(x, m)
      PROVE  Inv'
  BY <1>3, InitAcceptInv, RespAcceptInv, DataConfirmsInv
<1>4. CASE UNCHANGED vars
  BY <1>4 DEF vars, Inv, Shape, Sending, ConfirmedBeforeUse, SendsInstalled, Replay,
              AnsweredOnce, Recorded, Remembered, Handled, Aged, Clock, AnswerOf
<1>. QED
  BY <1>1, <1>2, <1>3, <1>4 DEF Next

\* The invariant holds in every state of the tunnel.
THEOREM InvHolds == Spec => []Inv
  BY InitInv, NextInv, PTL DEF Spec

\* Sessions, attempts, queues and timestamps keep their types: no attempt is
\* retried more often than MaxHandshakeRetries and the hold queue keeps its
\* bound, however the goroutines and replaced entries interleave.
THEOREM TunnelTypes == Spec => []TypeOK
<1>1. Inv => TypeOK
  <2>. SUFFICES ASSUME Inv PROVE TypeOK
    OBVIOUS
  <2>1. ASSUME NEW x \in Node
        PROVE  /\ hs[x] = NoHS \/ hs[x].retries \in 0 .. MaxHandshakeRetries
               /\ {slots[x].session, slots[x].pending, slots[x].prev} \subseteq Keyed \cup {None}
               /\ udp[x].pc \in {"idle", "save", "answer", "install"}
    <3>1. hs[x] = NoHS \/ hs[x].retries \in 0 .. MaxHandshakeRetries
      BY Numbers DEF Inv, Shape, HandshakeType
    <3>2. {slots[x].session, slots[x].pending, slots[x].prev} \subseteq Keyed \cup {None}
      BY DEF Inv, Shape, SlotType
    <3>3. udp[x].pc \in {"idle", "save", "answer", "install"}
      BY DEF Inv, Shape, JobType, Idle
    <3>. QED
      BY <3>1, <3>2, <3>3
  <2>. QED
    BY <2>1 DEF Inv, Shape, TypeOK
<1>. QED
  BY <1>1, InvHolds, PTL

\* handleInit answers no Init twice, although the network repeats it and the
\* responder restarts: the replay file is written before the answer leaves, and
\* what is dropped from it is too old to be accepted.
THEOREM InitAnsweredOnce == Spec => []AnsweredOnce
<1>1. Inv => AnsweredOnce
  BY DEF Inv, Replay
<1>. QED
  BY <1>1, InvHolds, PTL

\* No data packet leaves an end under a session its initiator has not installed:
\* the responder's session stays pending until a packet confirms it.
THEOREM InstalledBeforeUse == Spec => []ConfirmedBeforeUse
<1>1. Inv => ConfirmedBeforeUse
  BY DEF Inv, Sending
<1>. QED
  BY <1>1, InvHolds, PTL
-----------------------------------------------------------------------------
(***************************************************************************)
(* Trust on first use: the invariant.                                      *)
(***************************************************************************)
\* No two keys hold the same address.
Disjoint(f) == \A k, l \in Key : k # l => Reserved(f[k]) \cap Reserved(f[l]) = {}

\* Every set of pins in play, in a memory or in a file, is one Check could have
\* built.
Good(f) == f \in Pins /\ WellFormed(f) /\ Disjoint(f)
InPlay == {pins, file} \cup tmp \cup (IF cli = AtRest THEN {} ELSE {cli.pins})
Sound == TofuTypeOK /\ \A f \in InPlay : Good(f)

\* The pin that is being saved is in memory.
Saving == daemon # AtRest => vpnToPub[daemon.addr] = daemon.key

\* While no save has failed and no command runs, the file is what memory was when
\* the last Check returned, and both hold every address that Check let through.
Lasting ==
  clean => /\ cli = AtRest
           /\ daemon = AtRest => pins = file
           /\ daemon.pc = "rename" => tmp = {pins}
           /\ \A t \in trusted : t[1] \in Reserved(pins[t[2]]) /\ t[1] \in Reserved(file[t[2]])

TofuInv == Sound /\ OwnersMatch /\ Saving /\ Lasting
-----------------------------------------------------------------------------
(***************************************************************************)
(* Sequences of addresses.                                                 *)
(***************************************************************************)
\* Counting up to its members numbers a finite set of numbers.
LEMMA Ranked ==
  ASSUME NEW n \in Nat, NEW keep \in SUBSET (1 .. n)
  PROVE  /\ IsFiniteSet(keep) /\ Cardinality(keep) \in Nat
         /\ \A i \in keep : Cardinality({h \in keep : h <= i}) \in 1 .. Cardinality(keep)
         /\ \A i, k \in keep :
              Cardinality({h \in keep : h <= i}) = Cardinality({h \in keep : h <= k}) => i = k
         /\ \A j \in 1 .. Cardinality(keep) :
              \E i \in keep : Cardinality({h \in keep : h <= i}) = j
<1> DEFINE UpTo(i) == {h \in keep : h <= i}
           m == Cardinality(keep)
           rank == [i \in keep |-> Cardinality(UpTo(i))]
<1>0. IsFiniteSet(1 .. n) /\ \A h \in keep : h \in Int
  BY FS_Interval
<1>1. IsFiniteSet(keep) /\ m \in Nat
  BY <1>0, FS_Subset, FS_CardinalityType
<1>2. ASSUME NEW i \in keep
      PROVE  IsFiniteSet(UpTo(i)) /\ Cardinality(UpTo(i)) \in 1 .. m
  <2>1. UpTo(i) \in SUBSET keep /\ i \in UpTo(i)
    OBVIOUS
  <2>2. IsFiniteSet(UpTo(i)) /\ Cardinality(UpTo(i)) <= m /\ Cardinality(UpTo(i)) \in Nat
    BY <1>1, <2>1, FS_Subset, FS_CardinalityType
  <2>3. Cardinality(UpTo(i)) # 0
    BY <2>1, <2>2, FS_EmptySet
  <2> QED BY <1>1, <2>2, <2>3
<1>3. ASSUME NEW i \in keep, NEW k \in keep, i < k
      PROVE  Cardinality(UpTo(i)) # Cardinality(UpTo(k))
  <2>0. (\A h \in keep : h <= i => h <= k) /\ k <= k /\ ~(k <= i)
    BY <1>0, <1>3
  <2>1. UpTo(i) \in SUBSET UpTo(k) /\ k \in UpTo(k) /\ k \notin UpTo(i)
    BY <2>0
  <2> QED BY <1>2, <2>1, FS_Subset
<1>4. \A i, k \in keep : Cardinality(UpTo(i)) = Cardinality(UpTo(k)) => i = k
  BY <1>3
<1>5. rank \in Injection(keep, 1 .. m)
  BY <1>2, <1>4 DEF Injection, IsInjective
<1>6. IsFiniteSet(1 .. m) /\ Cardinality(1 .. m) = m
  BY <1>1, FS_Interval
<1>7. rank \in Surjection(keep, 1 .. m)
  BY <1>5, <1>6, FS_Injection
<1>8. \A j \in 1 .. m : \E i \in keep : Cardinality(UpTo(i)) = j
  BY <1>7 DEF Surjection
<1> QED BY <1>1, <1>2, <1>4, <1>8

\* Without drops the members of X and keeps the others, each once if s has it
\* once.
LEMMA WithoutKeeps ==
  ASSUME NEW A, NEW s \in Seq(A), NEW X
  PROVE  /\ Without(s, X) \in Seq(A) /\ Range(Without(s, X)) = Range(s) \ X
         /\ IsInjective(s) => IsInjective(Without(s, X))
<1> DEFINE keep == {i \in DOMAIN s : s[i] \notin X}
           m == Cardinality(keep)
           Rank(i) == Cardinality({h \in keep : h <= i})
           At(j) == CHOOSE i \in keep : Rank(i) = j
           w == [j \in 1 .. m |-> s[At(j)]]
<1>1. Without(s, X) = w
  BY DEF Without
<1>2. keep \in SUBSET (1 .. Len(s)) /\ Len(s) \in Nat /\ DOMAIN s = 1 .. Len(s)
  OBVIOUS
<1>3. /\ m \in Nat /\ \A i \in keep : Rank(i) \in 1 .. m
      /\ \A i, k \in keep : Rank(i) = Rank(k) => i = k
      /\ \A j \in 1 .. m : \E i \in keep : Rank(i) = j
  BY <1>2, Ranked
<1>3a. \A i \in keep : i \in DOMAIN s /\ s[i] \notin X /\ s[i] \in A
  BY <1>2
<1>3b. \A i \in DOMAIN s : s[i] \notin X => i \in keep
  OBVIOUS
<1> HIDE DEF keep, m, Rank
<1>4. \A j \in 1 .. m : At(j) \in keep /\ Rank(At(j)) = j
  BY <1>3
<1>5. \A i \in keep : Rank(i) \in 1 .. m /\ At(Rank(i)) = i
  BY <1>3, <1>4
<1> HIDE DEF At
<1>6. w \in [1 .. m -> A]
  BY <1>3a, <1>4
<1>7. w \in Seq(A) /\ DOMAIN w = 1 .. m
  BY <1>3, <1>6
<1>8. Range(w) = Range(s) \ X
  <2>1. ASSUME NEW j \in 1 .. m PROVE w[j] \in Range(s) \ X
    BY <1>3a, <1>4 DEF Range
  <2>2. ASSUME NEW x \in Range(s) \ X PROVE \E j \in 1 .. m : w[j] = x
    <3>1. PICK i \in DOMAIN s : s[i] = x
      BY DEF Range
    <3>2. i \in keep
      BY <1>3b, <3>1
    <3>3. w[Rank(i)] = x
      BY <1>5, <3>1, <3>2
    <3> QED BY <1>5, <3>2, <3>3
  <2> QED BY <1>7, <2>1, <2>2 DEF Range
<1>9. ASSUME IsInjective(s) PROVE IsInjective(w)
  <2> SUFFICES ASSUME NEW j \in 1 .. m, NEW k \in 1 .. m, w[j] = w[k] PROVE j = k
    BY <1>7 DEF IsInjective
  <2>1. s[At(j)] = s[At(k)] /\ At(j) \in DOMAIN s /\ At(k) \in DOMAIN s
    BY <1>3a, <1>4
  <2>2. At(j) = At(k)
    BY <1>9, <2>1 DEF IsInjective
  <2> QED BY <1>4, <2>2
<1> HIDE DEF w
<1> QED BY <1>1, <1>7, <1>8, <1>9

\* Putting a new address first.
LEMMA Prepended ==
  ASSUME NEW A, NEW x \in A, NEW s \in Seq(A), IsInjective(s), x \notin Range(s)
  PROVE  LET c == <<x>> \o s
         IN  c \in Seq(A) /\ Range(c) = {x} \cup Range(s) /\ IsInjective(c)
<1> DEFINE c == <<x>> \o s
           n == Len(s)
<1>1. /\ n \in Nat /\ DOMAIN s = 1 .. n /\ c \in Seq(A) /\ DOMAIN c = 1 .. n + 1 /\ c[1] = x
      /\ \A i \in 2 .. n + 1 : c[i] = s[i - 1]
  OBVIOUS
<1> HIDE DEF c, n
<1>2. \A i \in 1 .. n : i + 1 \in 2 .. n + 1 /\ c[i + 1] = s[i]
  BY <1>1
<1>3. \A i \in DOMAIN c : i = 1 \/ (i \in 2 .. n + 1 /\ i - 1 \in DOMAIN s)
  BY <1>1
<1>4. Range(c) = {x} \cup Range(s)
  <2>1. ASSUME NEW i \in DOMAIN c PROVE c[i] \in {x} \cup Range(s)
    BY <1>1, <1>3 DEF Range
  <2>2. ASSUME NEW i \in DOMAIN s PROVE \E j \in DOMAIN c : c[j] = s[i]
    BY <1>1, <1>2
  <2>3. 1 \in DOMAIN c
    BY <1>1
  <2> QED BY <1>1, <2>1, <2>2, <2>3 DEF Range
<1>5. IsInjective(c)
  <2> SUFFICES ASSUME NEW i \in DOMAIN c, NEW j \in DOMAIN c, c[i] = c[j] PROVE i = j
    BY DEF IsInjective
  <2>1. CASE i = 1 /\ j = 1 BY <2>1
  <2>2. CASE i = 1 /\ j # 1 BY <1>1, <1>3, <2>2 DEF Range
  <2>3. CASE i # 1 /\ j = 1 BY <1>1, <1>3, <2>3 DEF Range
  <2>4. CASE i # 1 /\ j # 1
    <3>1. s[i - 1] = s[j - 1] /\ i - 1 \in DOMAIN s /\ j - 1 \in DOMAIN s
      BY <1>1, <1>3, <2>4
    <3>2. i - 1 = j - 1
      BY <3>1 DEF IsInjective
    <3> QED BY <1>1, <3>2
  <2> QED BY <2>1, <2>2, <2>3, <2>4
<1> QED BY <1>1, <1>4, <1>5 DEF c

\* The members of s from position i + 1 to position j.
LEMMA SubSeqFacts ==
  ASSUME NEW A, NEW s \in Seq(A), NEW i \in Nat, NEW j \in Nat, j <= Len(s)
  PROVE  LET c == SubSeq(s, i + 1, j)
         IN  /\ c \in Seq(A) /\ DOMAIN c = 1 .. (j - i)
             /\ i <= j => Len(c) = j - i
             /\ \A x \in 1 .. (j - i) : c[x] = s[x + i]
<1> DEFINE c == SubSeq(s, i + 1, j)
<1>1. CASE i >= j
  <2>1. c = <<>> /\ 1 .. (j - i) = {}
    BY <1>1
  <2> QED BY <1>1, <2>1
<1>2. CASE i < j
  <2>1. c \in Seq(A) /\ Len(c) = j - i
    BY <1>2
  <2>2. ASSUME NEW x \in 1 .. (j - i) PROVE c[x] = s[x + i]
    BY <1>2, <2>2
  <2> QED BY <2>1, <2>2
<1> QED BY <1>1, <1>2

\* Kept and Excess divide the old addresses between them.
LEMMA KeptOrReleased ==
  ASSUME NEW s \in Seq(Addr), IsInjective(s)
  PROVE  /\ Kept(s) \in Seq(Addr) /\ Len(Kept(s)) <= MaxPrevVPNAddrs /\ IsInjective(Kept(s))
         /\ Range(Kept(s)) \cup Excess(s) = Range(s)
         /\ Range(Kept(s)) \cap Excess(s) = {}
<1>a. PICK n \in Nat, M \in Nat : n = Len(s) /\ M = MaxPrevVPNAddrs
  BY LimitAssumption
<1>b. PICK m \in Nat : m = IF n > M THEN M ELSE n
  OBVIOUS
<1> DEFINE low == SubSeq(s, 1, m)
           high == SubSeq(s, M + 1, n)
<1>0. m <= n /\ m <= M /\ (m < n => m = M) /\ DOMAIN s = 1 .. n
  BY <1>a, <1>b
<1>1. low \in Seq(Addr) /\ DOMAIN low = 1 .. m /\ Len(low) = m /\ \A i \in 1 .. m : low[i] = s[i]
  BY <1>0, <1>a, SubSeqFacts
<1>2. Range(high) = {s[i] : i \in (M + 1) .. n}
  <2>1. DOMAIN high = 1 .. (n - M) /\ \A i \in 1 .. (n - M) : high[i] = s[i + M]
    BY <1>0, <1>a, SubSeqFacts
  <2> HIDE DEF high
  <2>2. \A i \in (M + 1) .. n : i - M \in 1 .. (n - M) /\ high[i - M] = s[i]
    BY <1>0, <2>1
  <2>3. \A i \in 1 .. (n - M) : i + M \in (M + 1) .. n
    BY <1>0
  <2>4. ASSUME NEW x \in 1 .. (n - M) PROVE high[x] \in {s[i] : i \in (M + 1) .. n}
    BY <2>1, <2>3
  <2>5. ASSUME NEW i \in (M + 1) .. n PROVE \E x \in 1 .. (n - M) : high[x] = s[i]
    BY <2>2
  <2> QED BY <2>1, <2>4, <2>5 DEF Range
<1>3. Kept(s) = low /\ Excess(s) = Range(high)
  BY <1>a, <1>b DEF Kept, Excess
<1> HIDE DEF low, high
<1>4. Range(low) = {s[i] : i \in 1 .. m}
  BY <1>1 DEF Range
<1>5. \A i \in 1 .. n : i \in 1 .. m \/ i \in (M + 1) .. n
  BY <1>0
<1>6. \A i \in 1 .. m, j \in (M + 1) .. n : i \in 1 .. n /\ j \in 1 .. n /\ i # j
  BY <1>0
<1>6a. \A i \in 1 .. m : i \in 1 .. n
  BY <1>0
<1>6b. \A i \in (M + 1) .. n : i \in 1 .. n
  BY <1>0
<1>7. Range(low) \cup Range(high) = Range(s)
  <2>1. Range(s) = {s[i] : i \in 1 .. n}
    BY <1>0 DEF Range
  <2> QED BY <1>2, <1>4, <1>5, <1>6a, <1>6b, <2>1
<1>8. Range(low) \cap Range(high) = {}
  BY <1>0, <1>2, <1>4, <1>6 DEF IsInjective
<1>9. IsInjective(low)
  BY <1>0, <1>1, <1>6a DEF IsInjective
<1> QED BY <1>a, <1>0, <1>1, <1>3, <1>7, <1>8, <1>9
-----------------------------------------------------------------------------
(***************************************************************************)
(* Pins.                                                                   *)
(***************************************************************************)
\* A key that has no pin.
LEMMA NoPinFacts == NoPin \in Pin /\ Reserved(NoPin) = {}
BY DEF NoPin, Pin, Reserved, Range

\* What the pin of a key can be.
LEMMA PinFacts ==
  ASSUME NEW f, Good(f), NEW k \in Key
  PROVE  /\ f[k] \in Pin /\ f[k].addr \in Addr \cup {Nil} /\ f[k].prev \in Seq(Addr)
         /\ Len(f[k].prev) <= MaxPrevVPNAddrs /\ IsInjective(f[k].prev)
         /\ f[k].addr \notin Range(f[k].prev) /\ Range(f[k].prev) \subseteq Addr
         /\ f[k] # NoPin => f[k].addr \in Addr /\ Reserved(f[k]) = {f[k].addr} \cup Range(f[k].prev)
         /\ Reserved(f[k]) \subseteq Addr
<1>1. f[k] \in Pin
  BY DEF Good, Pins
<1>2. f[k].addr \in Addr \cup {Nil} /\ f[k].prev \in Seq(Addr)
  BY <1>1 DEF Pin
<1>3. /\ Len(f[k].prev) <= MaxPrevVPNAddrs /\ IsInjective(f[k].prev)
      /\ f[k].addr \notin Range(f[k].prev) /\ (f[k].addr = Nil => f[k].prev = <<>>)
  BY DEF Good, WellFormed
<1>4. Range(f[k].prev) \subseteq Addr
  BY <1>2 DEF Range
<1>5. f[k] # NoPin => f[k].addr # Nil
  BY <1>1, <1>3 DEF Pin, NoPin
<1>6. Nil \notin Addr
  BY NilAssumption
<1>7. f[k] # NoPin => Reserved(f[k]) = {f[k].addr} \cup Range(f[k].prev)
  BY <1>4, <1>5, <1>6 DEF Reserved
<1>8. Reserved(f[k]) \subseteq Addr
  BY <1>2, <1>4 DEF Reserved
<1> QED BY <1>1, <1>2, <1>3, <1>4, <1>5, <1>7, <1>8

\* load finds one owner for each address, whatever the order of the pins: the key
\* that holds it.
LEMMA LoadedOwners ==
  ASSUME NEW f, Good(f), NEW o \in Loaded(f)
  PROVE  /\ o \in [Addr -> Key \cup {Nil}]
         /\ \A a \in Addr, k \in Key : o[a] = k <=> a \in Reserved(f[k])
<1>1. o \in [Addr -> Key \cup {Nil}]
  BY DEF Loaded
<1>2. ASSUME NEW a \in Addr
      PROVE  LET Current == {k \in Key : f[k].addr = a}
                 Claims == {k \in Key : a \in Reserved(f[k])}
             IN  /\ Current # {} => o[a] \in Current
                 /\ Current = {} /\ Claims # {} => o[a] \in Claims
                 /\ Claims = {} /\ Current = {} => o[a] = Nil
  BY DEF Loaded
<1>3. ASSUME NEW a \in Addr, NEW k \in Key
      PROVE  o[a] = k <=> a \in Reserved(f[k])
  <2> DEFINE Current == {l \in Key : f[l].addr = a}
             Claims == {l \in Key : a \in Reserved(f[l])}
  <2>1. Current \subseteq Claims
    BY NilAssumption DEF Reserved
  <2>2. \A l, m \in Claims : l = m
    BY DEF Good, Disjoint
  <2>3. o[a] \in Claims \/ (o[a] = Nil /\ Claims = {})
    BY <1>2, <2>1
  <2> QED BY <2>2, <2>3, NilAssumption
<1> QED BY <1>1, <1>3

\* Clearing a pin leaves the others good.
LEMMA Unpinned ==
  ASSUME NEW f, Good(f), NEW o
  PROVE  Good([k \in Key |-> IF o = k THEN NoPin ELSE f[k]])
<1> DEFINE g == [k \in Key |-> IF o = k THEN NoPin ELSE f[k]]
<1>1. \A k \in Key : g[k] = NoPin \/ g[k] = f[k]
  OBVIOUS
<1>2. g \in Pins
  BY NoPinFacts DEF Pins, Good
<1> HIDE DEF g
<1>3. WellFormed(g)
  <2> SUFFICES ASSUME NEW k \in Key
               PROVE  /\ Len(g[k].prev) <= MaxPrevVPNAddrs /\ IsInjective(g[k].prev)
                      /\ g[k].addr \notin Range(g[k].prev)
                      /\ g[k].addr = Nil => g[k].prev = <<>>
    BY DEF WellFormed
  <2>1. CASE g[k] = NoPin
    BY <2>1, LimitAssumption DEF NoPin, IsInjective, Range
  <2>2. CASE g[k] = f[k]
    BY <2>2 DEF Good, WellFormed
  <2> QED BY <1>1, <2>1, <2>2
<1>4. Disjoint(g)
  BY <1>1, NoPinFacts DEF Good, Disjoint
<1> QED BY <1>2, <1>3, <1>4 DEF Good, g

\* What a key holds when it has moved to a, or is new there.
LEMMA MovedPin ==
  ASSUME NEW f, Good(f), NEW k \in Key, NEW a \in Addr, f[k].addr # a
  PROVE  LET prev == Moved(f[k], a)
             pin == [addr |-> a, prev |-> Kept(prev)]
         IN  /\ pin \in Pin /\ Len(pin.prev) <= MaxPrevVPNAddrs /\ IsInjective(pin.prev)
             /\ a \notin Range(pin.prev)
             /\ Excess(prev) \subseteq Reserved(f[k]) \ {a}
             /\ Reserved(pin) = {a} \cup (Reserved(f[k]) \ Excess(prev))
<1> DEFINE prev == Moved(f[k], a)
           pin == [addr |-> a, prev |-> Kept(prev)]
<1>1. prev \in Seq(Addr) /\ IsInjective(prev) /\ Range(prev) = Reserved(f[k]) \ {a}
  <2>1. CASE f[k] = NoPin
    <3>1. prev = <<>>
      BY <2>1 DEF Moved
    <3> QED BY <2>1, <3>1, NoPinFacts DEF IsInjective, Range
  <2>2. CASE f[k] # NoPin
    <3> DEFINE b == f[k].addr
               w == Without(f[k].prev, {a, b})
    <3>1. /\ b \in Addr /\ b # a /\ f[k].prev \in Seq(Addr) /\ IsInjective(f[k].prev)
          /\ b \notin Range(f[k].prev) /\ Reserved(f[k]) = {b} \cup Range(f[k].prev)
      BY <2>2, PinFacts
    <3>2. prev = <<b>> \o w
      BY <2>2 DEF Moved
    <3> HIDE DEF b
    <3>3. w \in Seq(Addr) /\ IsInjective(w) /\ Range(w) = Range(f[k].prev) \ {a, b}
      BY <3>1, WithoutKeeps
    <3> HIDE DEF w, prev
    <3>4. prev \in Seq(Addr) /\ IsInjective(prev) /\ Range(prev) = {b} \cup Range(w)
      BY <3>1, <3>2, <3>3, Prepended
    <3> QED BY <3>1, <3>3, <3>4
  <2> QED BY <2>1, <2>2
<1> HIDE DEF prev
<1>2. /\ Kept(prev) \in Seq(Addr) /\ Len(Kept(prev)) <= MaxPrevVPNAddrs /\ IsInjective(Kept(prev))
      /\ Range(Kept(prev)) \cup Excess(prev) = Range(prev)
      /\ Range(Kept(prev)) \cap Excess(prev) = {}
  BY <1>1, KeptOrReleased
<1>3. pin \in Pin /\ pin.addr = a /\ pin.prev = Kept(prev)
  BY <1>2 DEF Pin
<1>4. Reserved(pin) = ({a} \cup Range(Kept(prev))) \ {Nil}
  BY <1>3 DEF Reserved
<1>5. Nil \notin {a} \cup Range(Kept(prev))
  BY <1>1, <1>2, PinFacts, NilAssumption
<1>6. Reserved(pin) = {a} \cup (Reserved(f[k]) \ Excess(prev))
  BY <1>1, <1>2, <1>4, <1>5
<1> QED BY <1>1, <1>2, <1>3, <1>6 DEF prev
-----------------------------------------------------------------------------
(***************************************************************************)
(* Trust on first use: the steps.                                          *)
(***************************************************************************)
\* The pins in play, one by one.
LEMMA SoundParts ==
  Sound <=> /\ TofuTypeOK /\ Good(pins) /\ Good(file) /\ \A f \in tmp : Good(f)
            /\ cli # AtRest => Good(cli.pins)
BY DEF Sound, InPlay

\* What the daemon and the command can be doing.
LEMMA JobForms ==
  ASSUME TofuTypeOK
  PROVE  /\ daemon = AtRest <=> daemon.pc = "idle"
         /\ daemon # AtRest => daemon.pc \in {"write", "rename"} /\ daemon.addr \in Addr /\ daemon.key \in Key
         /\ cli = AtRest <=> cli.pc = "idle"
         /\ cli # AtRest => /\ cli.pc \in {"write", "rename"} /\ cli.addr \in Addr
                            /\ cli.key \in Key \cup {Nil} /\ cli.pins \in Pins
BY DEF TofuTypeOK, AtRest

LEMMA TofuInitInv == TofuInit => TofuInv
<1> SUFFICES ASSUME TofuInit PROVE TofuInv
  OBVIOUS
<1>1. pins = [k \in Key |-> NoPin] /\ file = pins /\ tmp = {}
  BY DEF TofuInit
<1>2. Good(pins)
  <2>1. pins \in Pins
    BY <1>1, NoPinFacts DEF Pins
  <2>2. WellFormed(pins)
    BY <1>1, LimitAssumption DEF WellFormed, NoPin, IsInjective, Range
  <2>3. Disjoint(pins)
    BY <1>1, NoPinFacts DEF Disjoint
  <2> QED BY <2>1, <2>2, <2>3 DEF Good
<1>3. TofuTypeOK
  BY <1>1, <1>2, LimitAssumption DEF TofuTypeOK, TofuInit, Good
<1>4. Sound
  BY <1>1, <1>2, <1>3, SoundParts DEF TofuInit
<1>5. OwnersMatch
  BY <1>1, NoPinFacts, NilAssumption DEF OwnersMatch, TofuInit
<1>6. Saving /\ Lasting
  BY <1>1 DEF Saving, Lasting, TofuInit, AtRest
<1> QED BY <1>4, <1>5, <1>6 DEF TofuInv

\* Check pins a key, new or moved: it takes a, and lets go of what it can no longer
\* reserve.
LEMMA CheckPinsInv ==
  ASSUME TofuInv, NEW a \in Addr, NEW k \in Key, CheckPins(a, k)
  PROVE  TofuInv'
<1> DEFINE prev == Moved(pins[k], a)
           pin == [addr |-> a, prev |-> Kept(prev)]
           gone == Excess(prev)
<1>0. TofuTypeOK /\ Good(pins) /\ Good(file) /\ (\A f \in tmp : Good(f)) /\ (cli # AtRest => Good(cli.pins))
  BY SoundParts DEF TofuInv
<1>1. /\ pin \in Pin /\ Len(pin.prev) <= MaxPrevVPNAddrs /\ IsInjective(pin.prev)
      /\ pin.addr = a /\ a \notin Range(pin.prev) /\ gone \subseteq Reserved(pins[k]) \ {a}
      /\ Reserved(pin) = {a} \cup (Reserved(pins[k]) \ gone)
  BY <1>0, MovedPin DEF CheckPins
<1>2. /\ daemon = AtRest /\ vpnToPub[a] \in {Nil, k} /\ pins' = [pins EXCEPT ![k] = pin]
      /\ vpnToPub' = [x \in Addr |-> IF x = a THEN k ELSE IF x \in gone THEN Nil ELSE vpnToPub[x]]
      /\ trusted' = {t \in trusted : t[1] \notin gone}
      /\ daemon' = [pc |-> "write", addr |-> a, key |-> k]
      /\ UNCHANGED <<file, tmp, cli, faults, commands, clean>>
  BY DEF CheckPins, Foreign
<1> HIDE DEF pin, gone, prev
<1>3. pins \in [Key -> Pin]
  BY <1>0 DEF Good, Pins
<1>4. pins'[k] = pin /\ \A l \in Key \ {k} : pins'[l] = pins[l]
  BY <1>2, <1>3
<1>5. \A l \in Key \ {k} : /\ a \notin Reserved(pins[l])
                            /\ Reserved(pins[l]) \cap Reserved(pins[k]) = {}
  <2>1. \A l \in Key \ {k} : vpnToPub[a] # l
    BY <1>2, NilAssumption
  <2> QED BY <1>0, <2>1 DEF TofuInv, OwnersMatch, Good, Disjoint
<1>6. Good(pins')
  <2>1. pins' \in Pins
    BY <1>1, <1>2, <1>3 DEF Pins
  <2>2. WellFormed(pins')
    <3> SUFFICES ASSUME NEW l \in Key
                 PROVE  /\ Len(pins'[l].prev) <= MaxPrevVPNAddrs /\ IsInjective(pins'[l].prev)
                        /\ pins'[l].addr \notin Range(pins'[l].prev)
                        /\ pins'[l].addr = Nil => pins'[l].prev = <<>>
      BY DEF WellFormed
    <3>1. CASE l = k BY <1>1, <1>4, <3>1, NilAssumption
    <3>2. CASE l # k BY <1>0, <1>4, <3>2 DEF Good, WellFormed
    <3> QED BY <3>1, <3>2
  <2>3. Disjoint(pins')
    <3> SUFFICES ASSUME NEW l \in Key, NEW m \in Key, l # m
                 PROVE  Reserved(pins'[l]) \cap Reserved(pins'[m]) = {}
      BY DEF Disjoint
    <3>1. CASE l = k BY <1>1, <1>4, <1>5, <3>1
    <3>2. CASE m = k BY <1>1, <1>4, <1>5, <3>2
    <3>3. CASE l # k /\ m # k BY <1>0, <1>4, <3>3 DEF Good, Disjoint
    <3> QED BY <3>1, <3>2, <3>3
  <2> QED BY <2>1, <2>2, <2>3 DEF Good
<1>7. Sound'
  <2>1. vpnToPub' \in [Addr -> Key \cup {Nil}] /\ trusted' \subseteq Addr \X Key
    BY <1>0, <1>2 DEF TofuTypeOK
  <2>2. TofuTypeOK'
    BY <1>0, <1>2, <1>6, <2>1 DEF TofuTypeOK, Good
  <2> QED BY <1>0, <1>2, <1>6, <2>2 DEF Sound, InPlay
<1>8. OwnersMatch'
  <2> SUFFICES ASSUME NEW x \in Addr, NEW l \in Key
               PROVE  vpnToPub'[x] = l <=> x \in Reserved(pins'[l])
    BY DEF OwnersMatch
  <2>0. vpnToPub[x] = l <=> x \in Reserved(pins[l])
    BY DEF TofuInv, OwnersMatch
  <2>1. CASE x = a
    BY <1>1, <1>2, <1>4, <1>5, <2>1
  <2>2. CASE x # a /\ x \in gone
    BY <1>1, <1>2, <1>4, <1>5, <2>2, NilAssumption
  <2>3. CASE x # a /\ x \notin gone
    BY <1>1, <1>2, <1>4, <2>0, <2>3
  <2> QED BY <2>1, <2>2, <2>3
<1>9. Saving'
  BY <1>2 DEF Saving
<1>10. Lasting'
  <2> SUFFICES ASSUME clean
               PROVE  /\ cli' = AtRest /\ daemon' # AtRest /\ daemon'.pc # "rename"
                      /\ \A t \in trusted' : t[1] \in Reserved(pins'[t[2]]) /\ t[1] \in Reserved(file'[t[2]])
    BY <1>2 DEF Lasting
  <2>1. cli' = AtRest /\ daemon' # AtRest /\ daemon'.pc # "rename"
    BY <1>2 DEF TofuInv, Lasting, AtRest
  <2>2. ASSUME NEW t \in trusted'
        PROVE  t[1] \in Reserved(pins'[t[2]]) /\ t[1] \in Reserved(file'[t[2]])
    <3>1. t \in trusted /\ t[1] \notin gone /\ t[2] \in Key
      BY <1>0, <1>2 DEF TofuTypeOK
    <3>2. t[1] \in Reserved(pins[t[2]]) /\ t[1] \in Reserved(file[t[2]])
      BY <3>1 DEF TofuInv, Lasting
    <3>3. CASE t[2] = k BY <1>1, <1>2, <1>4, <3>1, <3>2, <3>3
    <3>4. CASE t[2] # k BY <1>2, <1>4, <3>1, <3>2, <3>4
    <3> QED BY <3>3, <3>4
  <2> QED BY <2>1, <2>2
<1> QED BY <1>7, <1>8, <1>9, <1>10 DEF TofuInv

\* The daemon starts again: what the file says is what it trusts.
LEMMA RestartDaemonInv ==
  ASSUME TofuInv, RestartDaemon
  PROVE  TofuInv'
<1>0. TofuTypeOK /\ Good(pins) /\ Good(file) /\ (\A f \in tmp : Good(f)) /\ (cli # AtRest => Good(cli.pins))
  BY SoundParts DEF TofuInv
<1>1. /\ pins' = file /\ vpnToPub' \in Loaded(file) /\ daemon' = AtRest
      /\ trusted' = IF clean THEN trusted ELSE {t \in trusted : vpnToPub'[t[1]] = t[2]}
      /\ clean' = (cli = AtRest)
      /\ UNCHANGED <<file, tmp, cli, faults, commands>>
  BY DEF RestartDaemon
<1>2. /\ vpnToPub' \in [Addr -> Key \cup {Nil}]
      /\ \A a \in Addr, k \in Key : vpnToPub'[a] = k <=> a \in Reserved(file[k])
  BY <1>0, <1>1, LoadedOwners
<1>3. OwnersMatch' /\ Saving'
  BY <1>1, <1>2 DEF OwnersMatch, Saving
<1>4. TofuTypeOK'
  <2>1. trusted' \subseteq Addr \X Key /\ clean' \in BOOLEAN
    BY <1>0, <1>1 DEF TofuTypeOK
  <2> QED BY <1>0, <1>1, <1>2, <2>1 DEF TofuTypeOK, Good
<1>5. Sound'
  BY <1>0, <1>1, <1>4 DEF Sound, InPlay
<1>6. ASSUME NEW t \in trusted' PROVE t[1] \in Reserved(file[t[2]])
  <2>1. t \in trusted /\ t[1] \in Addr /\ t[2] \in Key
    BY <1>0, <1>1 DEF TofuTypeOK
  <2>2. CASE clean BY <2>1, <2>2 DEF TofuInv, Lasting
  <2>3. CASE ~clean BY <1>1, <1>2, <2>1, <2>3
  <2> QED BY <2>2, <2>3
<1>7. Lasting'
  BY <1>1, <1>6 DEF Lasting, AtRest
<1> QED BY <1>3, <1>5, <1>7 DEF TofuInv

LEMMA TofuNextInv == TofuInv /\ [TofuNext]_tofuVars => TofuInv'
<1> SUFFICES ASSUME TofuInv, [TofuNext]_tofuVars PROVE TofuInv'
  OBVIOUS
<1>0. TofuTypeOK /\ Good(pins) /\ Good(file) /\ (\A f \in tmp : Good(f)) /\ (cli # AtRest => Good(cli.pins))
  BY SoundParts DEF TofuInv
<1>1. CASE UNCHANGED tofuVars
  BY <1>1 DEF tofuVars, TofuInv, Sound, InPlay, TofuTypeOK, OwnersMatch, Saving, Lasting
<1>2. ASSUME NEW a \in Addr, NEW k \in Key, CheckKnown(a, k) PROVE TofuInv'
  <2>1. /\ daemon = AtRest /\ pins[k].addr = a /\ trusted' = trusted \cup {<<a, k>>}
        /\ UNCHANGED <<pins, vpnToPub, file, tmp, daemon, cli, faults, commands, clean>>
    BY <1>2 DEF CheckKnown, Accept
  <2>2. Sound'
    BY <1>0, <2>1 DEF Sound, InPlay, TofuTypeOK
  <2>3. OwnersMatch' /\ Saving'
    BY <2>1 DEF TofuInv, OwnersMatch, Saving
  <2>4. a \in Reserved(pins[k])
    BY <2>1, NilAssumption DEF Reserved
  <2>5. Lasting'
    BY <2>1, <2>4 DEF TofuInv, Lasting
  <2> QED BY <2>2, <2>3, <2>5 DEF TofuInv
<1>3. ASSUME NEW a \in Addr, NEW k \in Key, CheckRefused(a, k) PROVE TofuInv'
  BY <1>1, <1>3 DEF CheckRefused
<1>4. ASSUME NEW a \in Addr, NEW k \in Key, CheckPins(a, k) PROVE TofuInv'
  BY <1>4, CheckPinsInv
<1>5. CASE SaveWrite
  <2>1. /\ daemon.pc = "write" /\ tmp' = {pins} /\ daemon' = [daemon EXCEPT !.pc = "rename"]
        /\ UNCHANGED <<pins, vpnToPub, file, cli, faults, commands, trusted, clean>>
    BY <1>5 DEF SaveWrite
  <2>2. daemon # AtRest /\ daemon \in [pc : {"write", "rename"}, addr : Addr, key : Key]
    BY <1>0, <2>1, JobForms DEF TofuTypeOK
  <2>3. /\ daemon' \in [pc : {"write", "rename"}, addr : Addr, key : Key] /\ daemon' # AtRest
        /\ daemon'.addr = daemon.addr /\ daemon'.key = daemon.key
    BY <2>1, <2>2 DEF AtRest
  <2>4. Sound'
    BY <1>0, <2>1, <2>3 DEF Sound, InPlay, TofuTypeOK, Good
  <2> QED BY <2>1, <2>2, <2>3, <2>4 DEF TofuInv, OwnersMatch, Saving, Lasting
<1>6. CASE SaveRename
  <2>1. /\ daemon.pc = "rename" /\ file' \in tmp /\ tmp' = {} /\ daemon' = AtRest
        /\ trusted' = trusted \cup {<<daemon.addr, daemon.key>>}
        /\ UNCHANGED <<pins, vpnToPub, cli, faults, commands, clean>>
    BY <1>6 DEF SaveRename, Accept
  <2>2. daemon # AtRest /\ daemon.addr \in Addr /\ daemon.key \in Key
    BY <1>0, <2>1, JobForms DEF AtRest
  <2>3. TofuTypeOK'
    BY <1>0, <2>1, <2>2 DEF TofuTypeOK
  <2>4. Sound'
    BY <1>0, <2>1, <2>3 DEF Sound, InPlay
  <2>5. OwnersMatch' /\ Saving'
    BY <2>1 DEF TofuInv, OwnersMatch, Saving
  <2>6. daemon.addr \in Reserved(pins[daemon.key])
    BY <2>2 DEF TofuInv, Saving, OwnersMatch
  <2>7. clean => file' = pins
    BY <2>1 DEF TofuInv, Lasting
  <2>8. Lasting'
    BY <2>1, <2>6, <2>7 DEF TofuInv, Lasting, AtRest
  <2> QED BY <2>4, <2>5, <2>8 DEF TofuInv
<1>7. CASE SaveFails
  <2>1. /\ daemon' = AtRest /\ clean' = FALSE /\ faults' \in 0 .. MaxFaults
        /\ UNCHANGED <<pins, vpnToPub, file, tmp, cli, commands, trusted>>
    BY <1>0, <1>7, LimitAssumption DEF SaveFails, TofuTypeOK
  <2>2. Sound'
    BY <1>0, <2>1 DEF Sound, InPlay, TofuTypeOK
  <2> QED BY <2>1, <2>2 DEF TofuInv, OwnersMatch, Saving, Lasting
<1>8. CASE RestartDaemon
  BY <1>8, RestartDaemonInv
<1>9. ASSUME NEW a \in Addr, ForgetOpen(a) PROVE TofuInv'
  <2>1. PICK owner \in Loaded(file) :
          cli' = [pc |-> "write", addr |-> a, key |-> owner[a],
                  pins |-> [k \in Key |-> IF owner[a] = k THEN NoPin ELSE file[k]]]
    BY <1>9 DEF ForgetOpen
  <2>2. /\ clean' = FALSE /\ commands' \in 0 .. MaxCommands
        /\ UNCHANGED <<pins, vpnToPub, file, tmp, daemon, faults, trusted>>
    BY <1>0, <1>9, LimitAssumption DEF ForgetOpen, TofuTypeOK
  <2> DEFINE g == [k \in Key |-> IF owner[a] = k THEN NoPin ELSE file[k]]
  <2>3. Good(g) /\ owner[a] \in Key \cup {Nil}
    <3>1. owner \in [Addr -> Key \cup {Nil}]
      BY <1>0, LoadedOwners
    <3>2. Good(g)
      BY <1>0, Unpinned
    <3> QED BY <3>1, <3>2
  <2>4. cli' = [pc |-> "write", addr |-> a, key |-> owner[a], pins |-> g]
    BY <2>1
  <2> HIDE DEF g
  <2>5. cli' \in [pc : {"write", "rename"}, addr : Addr, key : Key \cup {Nil}, pins : Pins] /\ cli'.pins = g
    BY <2>3, <2>4 DEF Good
  <2>6. TofuTypeOK'
    BY <1>0, <2>2, <2>5 DEF TofuTypeOK
  <2>7. Sound'
    BY <1>0, <2>2, <2>3, <2>5, <2>6 DEF Sound, InPlay
  <2> QED BY <2>2, <2>7 DEF TofuInv, OwnersMatch, Saving, Lasting
<1>10. CASE ForgetWrite
  <2>1. /\ cli.pc = "write" /\ tmp' = {cli.pins} /\ cli' = [cli EXCEPT !.pc = "rename"]
        /\ UNCHANGED <<pins, vpnToPub, file, daemon, faults, commands, trusted, clean>>
    BY <1>10 DEF ForgetWrite
  <2>2. /\ cli # AtRest
        /\ cli \in [pc : {"write", "rename"}, addr : Addr, key : Key \cup {Nil}, pins : Pins]
    BY <1>0, <2>1, JobForms DEF TofuTypeOK
  <2>3. /\ cli' \in [pc : {"write", "rename"}, addr : Addr, key : Key \cup {Nil}, pins : Pins]
        /\ cli'.pins = cli.pins
    BY <2>1, <2>2
  <2>4. ~clean
    BY <2>2 DEF TofuInv, Lasting
  <2>5. TofuTypeOK'
    BY <1>0, <2>1, <2>2, <2>3 DEF TofuTypeOK, Good
  <2>6. Sound'
    BY <1>0, <2>1, <2>2, <2>3, <2>5 DEF Sound, InPlay
  <2> QED BY <2>1, <2>4, <2>6 DEF TofuInv, OwnersMatch, Saving, Lasting
<1>11. CASE ForgetRename
  <2>1. /\ cli.pc = "rename" /\ file' \in tmp /\ tmp' = {} /\ cli' = AtRest
        /\ trusted' \subseteq trusted
        /\ UNCHANGED <<pins, vpnToPub, daemon, faults, commands, clean>>
    BY <1>11 DEF ForgetRename
  <2>2. ~clean
    BY <1>0, <2>1, JobForms DEF TofuInv, Lasting
  <2>3. TofuTypeOK'
    BY <1>0, <2>1 DEF TofuTypeOK
  <2>4. Sound'
    BY <1>0, <2>1, <2>3 DEF Sound, InPlay
  <2> QED BY <2>1, <2>2, <2>4 DEF TofuInv, OwnersMatch, Saving, Lasting
<1>12. CASE ForgetFails
  <2>1. /\ cli # AtRest /\ cli' = AtRest
        /\ UNCHANGED <<pins, vpnToPub, file, tmp, daemon, faults, commands, trusted, clean>>
    BY <1>12 DEF ForgetFails
  <2>2. ~clean
    BY <2>1 DEF TofuInv, Lasting
  <2>3. Sound'
    BY <1>0, <2>1 DEF Sound, InPlay, TofuTypeOK
  <2> QED BY <2>1, <2>2, <2>3 DEF TofuInv, OwnersMatch, Saving, Lasting
<1> QED BY <1>1, <1>2, <1>3, <1>4, <1>5, <1>6, <1>7, <1>8, <1>9, <1>10, <1>11, <1>12 DEF TofuNext

LEMMA TofuInvariance == TofuSpec => []TofuInv
<1>1. TofuInit => TofuInv
  BY TofuInitInv
<1>2. TofuInv /\ [TofuNext]_tofuVars => TofuInv'
  BY TofuNextInv
<1> QED BY <1>1, <1>2, PTL DEF TofuSpec

\* The store and the file keep their types, and a pin never reserves more than
\* maxPrevVPNAddrs old addresses, one of them twice, or its own (Check).
THEOREM TofuTypes == TofuSpec => []TofuTypeOK
<1>1. TofuInv => TofuTypeOK
  BY DEF TofuInv, Sound
<1> QED BY <1>1, TofuInvariance, PTL

\* The two maps of the store say the same of every address, through moves,
\* releases, restarts and commands (Check, load).
THEOREM OwnersAgree == TofuSpec => []OwnersMatch
<1>1. TofuInv => OwnersMatch
  BY DEF TofuInv
<1> QED BY <1>1, TofuInvariance, PTL

\* A key that was let through at an address is its owner until the reservation is
\* released, wherever the daemon crashes (Check, save, load).
THEOREM TrustKept == TofuSpec => []TrustedPinned
<1>1. TofuInv => TrustedPinned
  BY DEF TofuInv, Sound, TofuTypeOK, OwnersMatch, Lasting, TrustedPinned
<1> QED BY <1>1, TofuInvariance, PTL
=============================================================================
