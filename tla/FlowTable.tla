----------------------------- MODULE FlowTable -----------------------------
(***************************************************************************)
(* The flow table of the data plane (internal/acl/flowtable.go): a map in  *)
(* shards, each under its mutex, one LRU list under a mutex of its own and *)
(* an atomic counter; shown to implement FlowMap.                          *)
(*                                                                         *)
(* A shard's lock is held from the first to the last step of a call, so    *)
(* whether it is taken follows from where the callers are.  What a step    *)
(* does to the map is seen by others only after the unlock and is merged   *)
(* with the change of the list or of the counter that follows it; those    *)
(* two are visible at once, and are separate steps.  An entry is idle when *)
(* the timeout of its protocol has passed since LastSeen.                  *)
(***************************************************************************)
EXTENDS Integers, FiniteSets

CONSTANTS
  Conn,         \* normalized flow keys
  NumShards,
  ShardOf,      \* hashFlowKey: the shard of each key
  Entry,        \* memory for entries: a bound on those alive at once
  Nil,
  MaxFlows,
  MaxAttempts   \* tries of evictOneLocked

Shard == 1 .. NumShards

ASSUME ShardAssumption == NumShards \in Nat \ {0} /\ ShardOf \in [Conn -> Shard]
ASSUME LimitAssumption == {MaxFlows, MaxAttempts} \subseteq Nat \ {0}
ASSUME NilAssumption == Nil \notin Entry \cup Conn
ASSUME FiniteAssumption == IsFiniteSet(Conn) /\ IsFiniteSet(Entry)

VARIABLES
  flows,      \* the maps of all shards
  rec,        \* the fields of each entry
  lru,        \* evictList and the next and prev fields of the entries
  flowCount,
  job,        \* where each caller is, the arguments and locals of its call
  expirer     \* where ExpireOldFlows is

vars == <<flows, rec, lru, flowCount, job, expirer>>

Caller == {"tun", "udp"}   \* the goroutines that call Lookup and UpdateState

Present == {c \in Conn : flows[c] # Nil}
StateOf(c) == IF flows[c] = Nil THEN "none" ELSE rec[flows[c]].state

\* Positions of a call that holds the lock of its key's shard.
Inside == {"found", "stale", "settle", "missing", "room", "pop", "victim", "evict",
           "insert", "count"}

\* The call of t as its caller sees it: it acts when it touches or inserts
\* its entry, or when it is settled that there is none.
CallOf(j) ==
  CASE j.pc = "idle" -> [at |-> "idle"]
    [] j.pc = "done" \/ j.pc = "count" ->
         [at |-> "returned", result |-> j.result]
    [] OTHER -> [at |-> "called", conn |-> j.conn, req |-> j.req]

Map == INSTANCE FlowMap WITH
  table <- [c \in Conn |-> StateOf(c)],
  call <- [t \in Caller |-> CallOf(job[t])]

NoReq == [op |-> "none", make |-> FALSE, state |-> "New"]
NoJob == [pc |-> "idle", conn |-> Nil, req |-> NoReq, entry |-> Nil, result |-> "none",
          tries |-> 0]
Job == [pc : Inside \cup {"idle", "done"}, conn : Conn \cup {Nil}, req : Map!Requests \cup {NoReq},
        entry : Entry \cup {Nil}, result : Map!State \cup {"none"}, tries : 0 .. MaxAttempts]

TypeOK ==
  /\ flows \in [Conn -> Entry \cup {Nil}]
  /\ rec \in [Entry -> [conn : Conn \cup {Nil}, state : Map!State, idle : BOOLEAN]]
  /\ lru \in [head : Entry \cup {Nil}, tail : Entry \cup {Nil},
              next : [Entry -> Entry \cup {Nil}], prev : [Entry -> Entry \cup {Nil}]]
  /\ flowCount \in Nat
  /\ job \in [Caller -> Job]
  /\ expirer \in [pc : {"idle", "scan", "count"}, at : Shard]

Init ==
  /\ flows = [c \in Conn |-> Nil]
  /\ rec = [e \in Entry |-> [conn |-> Nil, state |-> "New", idle |-> FALSE]]
  /\ lru = [head |-> Nil, tail |-> Nil,
            next |-> [e \in Entry |-> Nil], prev |-> [e \in Entry |-> Nil]]
  /\ flowCount = 0
  /\ job = [t \in Caller |-> NoJob]
  /\ expirer = [pc |-> "idle", at |-> 1]

Holds(t, s) ==
  \/ job[t].pc \in Inside /\ ShardOf[job[t].conn] = s
  \/ job[t].pc = "evict" /\ ShardOf[rec[job[t].entry].conn] = s

Unlocked(s) ==
  /\ \A t \in Caller : ~Holds(t, s)
  /\ ~(expirer.pc # "idle" /\ expirer.at = s)

Goto(t, pc) == job' = [job EXCEPT ![t].pc = pc]
GotoWith(t, pc, e) == job' = [job EXCEPT ![t].pc = pc, ![t].entry = e]
Unlock(t, s) == job' = [job EXCEPT ![t] = [NoJob EXCEPT !.pc = "done", !.result = s]]

-----------------------------------------------------------------------------
\* The list.

unlinkEntry(l, e) ==
  LET p == l.prev[e]
      n == l.next[e]
      next == IF p # Nil THEN [l.next EXCEPT ![p] = n] ELSE l.next
      prev == IF n # Nil THEN [l.prev EXCEPT ![n] = p] ELSE l.prev
  IN  [head |-> IF p # Nil THEN l.head ELSE n,
       tail |-> IF n # Nil THEN l.tail ELSE p,
       next |-> [next EXCEPT ![e] = Nil],
       prev |-> [prev EXCEPT ![e] = Nil]]

linkEntryFront(l, e) ==
  LET prev == [l.prev EXCEPT ![e] = Nil]
  IN  [head |-> e,
       tail |-> IF l.tail = Nil THEN e ELSE l.tail,
       next |-> [l.next EXCEPT ![e] = l.head],
       prev |-> IF l.head # Nil THEN [prev EXCEPT ![l.head] = e] ELSE prev]

linkEntryBack(l, e) ==
  LET next == [l.next EXCEPT ![e] = Nil]
  IN  [head |-> IF l.head = Nil THEN e ELSE l.head,
       tail |-> e,
       next |-> IF l.tail # Nil THEN [next EXCEPT ![l.tail] = e] ELSE next,
       prev |-> [l.prev EXCEPT ![e] = l.tail]]

moveToFrontLocked(l, e) == linkEntryFront(unlinkEntry(l, e), e)

-----------------------------------------------------------------------------
\* What a call finds under the lock.
Look(t, c, r) ==
  /\ job[t] = NoJob
  /\ job' = [job EXCEPT ![t] = [NoJob EXCEPT
       !.pc = CASE flows[c] = Nil -> IF r.make THEN "room" ELSE "missing"
                [] flows[c] # Nil /\ rec[flows[c]].idle -> "stale"
                [] OTHER -> "found",
       !.conn = c, !.req = r]]
  /\ UNCHANGED <<flows, rec, lru, flowCount, expirer>>

\* Mutant: the shard is not locked.
CallUnlocked(t, c, r) == Look(t, c, r)

\* Lookup and UpdateState take the lock and look.
Call(t, c, r) == Unlocked(ShardOf[c]) /\ Look(t, c, r)

\* The entry once a call has found it.
Touched(r, e) ==
  [e EXCEPT !.idle = FALSE,
            !.state = IF r.op = "update" \/ (@ = "New" /\ r.state = "Established")
                      THEN r.state ELSE @]

Found(t) ==
  LET e == flows[job[t].conn]
      after == Touched(job[t].req, rec[e])
  IN  /\ job[t].pc = "found"
      /\ rec' = [rec EXCEPT ![e] = after]
      /\ lru' = moveToFrontLocked(lru, e)
      /\ Unlock(t, after.state)
      /\ UNCHANGED <<flows, flowCount, expirer>>

Missing(t) ==
  /\ job[t].pc = "missing"
  /\ Unlock(t, "none")
  /\ UNCHANGED <<flows, rec, lru, flowCount, expirer>>

\* An expired entry counts as missing and is deleted.
Stale(t) ==
  LET c == job[t].conn
  IN  /\ job[t].pc = "stale"
      /\ flows' = [flows EXCEPT ![c] = Nil]
      /\ lru' = unlinkEntry(lru, flows[c])
      /\ Goto(t, "settle")
      /\ UNCHANGED <<rec, flowCount, expirer>>

Settle(t) ==
  /\ job[t].pc = "settle"
  /\ flowCount' = flowCount - 1
  /\ IF job[t].req.make THEN Goto(t, "room") ELSE Unlock(t, "none")
  /\ UNCHANGED <<flows, rec, lru, expirer>>

-----------------------------------------------------------------------------
\* Making room for a new flow: Lookup's loop around evictOneLocked.

Room(t) ==
  /\ job[t].pc = "room"
  /\ job' = [job EXCEPT ![t].pc = IF flowCount >= MaxFlows THEN "pop" ELSE "insert",
                        ![t].tries = 0]
  /\ UNCHANGED <<flows, rec, lru, flowCount, expirer>>

popOldestEntry(t) ==
  /\ job[t].pc = "pop"
  /\ IF lru.tail = Nil
     THEN Goto(t, "room") /\ UNCHANGED lru
     ELSE GotoWith(t, "victim", lru.tail) /\ lru' = unlinkEntry(lru, lru.tail)
  /\ UNCHANGED <<flows, rec, flowCount, expirer>>

\* Mutants: the counter goes down though the flow has left the map already;
\* it never goes down.
EvictedUncounted(t) ==
  LET c == rec[job[t].entry].conn
  IN  /\ flows' = [flows EXCEPT ![c] = Nil]
      /\ flowCount' = flowCount - 1
      /\ GotoWith(t, "room", Nil)
      /\ UNCHANGED <<rec, lru, expirer>>

EvictedKept(t) ==
  LET c == rec[job[t].entry].conn
  IN  /\ flows' = [flows EXCEPT ![c] = Nil]
      /\ GotoWith(t, "room", Nil)
      /\ UNCHANGED <<rec, lru, flowCount, expirer>>

\* Whatever entry the map has under the victim's key goes.
Evicted(t) ==
  LET c == rec[job[t].entry].conn
  IN  /\ flows' = [flows EXCEPT ![c] = Nil]
      /\ flowCount' = IF flows[c] # Nil THEN flowCount - 1 ELSE flowCount
      /\ GotoWith(t, "room", Nil)
      /\ UNCHANGED <<rec, lru, expirer>>

VictimOwnShard(t) ==
  /\ job[t].pc = "victim"
  /\ ShardOf[rec[job[t].entry].conn] = ShardOf[job[t].conn]
  /\ Evicted(t)

VictimTryLock(t) ==
  /\ job[t].pc = "victim"
  /\ Unlocked(ShardOf[rec[job[t].entry].conn])
  /\ Goto(t, "evict")
  /\ UNCHANGED <<flows, rec, lru, flowCount, expirer>>

VictimBusy(t) ==
  LET s == ShardOf[rec[job[t].entry].conn]
  IN  /\ job[t].pc = "victim"
      /\ s # ShardOf[job[t].conn]
      /\ ~Unlocked(s)
      /\ lru' = linkEntryBack(lru, job[t].entry)
      /\ job' = [job EXCEPT ![t].pc = IF job[t].tries + 1 = MaxAttempts THEN "room" ELSE "pop",
                            ![t].tries = @ + 1, ![t].entry = Nil]
      /\ UNCHANGED <<flows, rec, flowCount, expirer>>

Evict(t) == job[t].pc = "evict" /\ Evicted(t)

\* An entry no pointer leads to.
Unused(e) ==
  /\ \A c \in Conn : flows[c] # e
  /\ \A t \in Caller : job[t].entry # e
  /\ e \notin {lru.head, lru.tail}
  /\ \A f \in Entry : lru.next[f] # e /\ lru.prev[f] # e

Insert(t, e) ==
  LET j == job[t]
  IN  /\ j.pc = "insert"
      /\ Unused(e)
      /\ flows' = [flows EXCEPT ![j.conn] = e]
      /\ rec' = [rec EXCEPT ![e] = [conn |-> j.conn, state |-> j.req.state, idle |-> FALSE]]
      /\ lru' = linkEntryFront(lru, e)
      /\ job' = [job EXCEPT ![t].pc = "count", ![t].result = j.req.state]
      /\ UNCHANGED <<flowCount, expirer>>

CountUp(t) ==
  /\ job[t].pc = "count"
  /\ flowCount' = flowCount + 1
  /\ Unlock(t, job[t].result)
  /\ UNCHANGED <<flows, rec, lru, expirer>>

Return(t) ==
  /\ job[t].pc = "done"
  /\ job' = [job EXCEPT ![t] = NoJob]
  /\ UNCHANGED <<flows, rec, lru, flowCount, expirer>>

-----------------------------------------------------------------------------
\* ExpireOldFlows, shard by shard.

ExpireLock ==
  /\ expirer.pc = "idle" /\ Unlocked(expirer.at)
  /\ expirer' = [expirer EXCEPT !.pc = "scan"]
  /\ UNCHANGED <<flows, rec, lru, flowCount, job>>

Expirable(s) == {c \in Present : ShardOf[c] = s /\ rec[flows[c]].idle}

ExpireFlow(c) ==
  /\ expirer.pc = "scan"
  /\ c \in Expirable(expirer.at)
  /\ flows' = [flows EXCEPT ![c] = Nil]
  /\ lru' = unlinkEntry(lru, flows[c])
  /\ expirer' = [expirer EXCEPT !.pc = "count"]
  /\ UNCHANGED <<rec, flowCount, job>>

ExpireCount ==
  /\ expirer.pc = "count"
  /\ flowCount' = flowCount - 1
  /\ expirer' = [expirer EXCEPT !.pc = "scan"]
  /\ UNCHANGED <<flows, rec, lru, job>>

\* Flows that went idle after the scan had read the clock stay.
ExpireUnlock ==
  /\ expirer.pc = "scan"
  /\ expirer' = [pc |-> "idle", at |-> (expirer.at % NumShards) + 1]
  /\ UNCHANGED <<flows, rec, lru, flowCount, job>>

\* The timeout of a flow passes.
Idle(c) ==
  /\ flows[c] # Nil
  /\ rec' = [rec EXCEPT ![flows[c]].idle = TRUE]
  /\ UNCHANGED <<flows, lru, flowCount, job, expirer>>

Next ==
  \/ \E t \in Caller :
       \/ \E c \in Conn, r \in Map!Request(t) : Call(t, c, r)
       \/ Found(t) \/ Missing(t) \/ Stale(t) \/ Settle(t)
       \/ Room(t) \/ popOldestEntry(t)
       \/ VictimOwnShard(t) \/ VictimTryLock(t) \/ VictimBusy(t) \/ Evict(t)
       \/ \E e \in Entry : Insert(t, e)
       \/ CountUp(t) \/ Return(t)
  \/ ExpireLock \/ ExpireCount \/ ExpireUnlock
  \/ \E c \in Conn : ExpireFlow(c) \/ Idle(c)

Spec == Init /\ [][Next]_vars

-----------------------------------------------------------------------------
\* Each call acts on its flow at one instant, and returns the state the flow
\* then has: no interleaving with calls on the same key, with an eviction that
\* holds a pointer to the entry or with the expiry loop creates a flow that
\* exists already, answers from a flow that is gone, or changes a flow nobody
\* has called for.
Implements == Map!MapSpec

\* The counter is the number of flows in the maps but for the changes a call or
\* the expiry loop has yet to count: no path that removes a flow (it is found
\* expired by Lookup, UpdateState or ExpireOldFlows, or evicted under a key that
\* another call has removed or reused since) counts it twice or not at all.
CountMatches ==
  flowCount = Cardinality(Present)
                + Cardinality({t \in Caller : job[t].pc = "settle"})
                + (IF expirer.pc = "count" THEN 1 ELSE 0)
                - Cardinality({t \in Caller : job[t].pc = "count"})

\* The entries of the list from the oldest on, at most n of them.
Oldest[n \in 0 .. Cardinality(Entry)] ==
  IF n = 0 THEN {} ELSE
  IF n = 1 THEN {lru.tail} \ {Nil} ELSE
  Oldest[n - 1] \cup ({lru.prev[e] : e \in Oldest[n - 1]} \ {Nil})

\* "FlowTable is a thread-safe flow table ... and a time-ordered list for LRU
\* eviction": outside every call the list holds the flows of the maps, so
\* that each can be evicted.
ListMatches ==
  (/\ \A t \in Caller : job[t].pc \notin Inside
   /\ expirer.pc = "idle")
     => Oldest[Cardinality(Entry)] = {flows[c] : c \in Present}
=============================================================================
