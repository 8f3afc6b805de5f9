-------------------------- MODULE FlowTableProofs --------------------------
(***************************************************************************)
(* Proofs about FlowTable, for every set of flow keys and of entries,      *)
(* every number of shards, every hash and every limit: the counter is the  *)
(* number of flows, and the table implements FlowMap.                      *)
(***************************************************************************)
EXTENDS FlowTable, FiniteSetTheorems, TLAPS

USE ShardAssumption, LimitAssumption, NilAssumption, FiniteAssumption

-----------------------------------------------------------------------------
(***************************************************************************)
(* The inductive invariant.                                                *)
(***************************************************************************)
\* The types of the variables but the counter, whose type follows from
\* CountMatches.
Lru == [head : Entry \cup {Nil}, tail : Entry \cup {Nil},
        next : [Entry -> Entry \cup {Nil}], prev : [Entry -> Entry \cup {Nil}]]
Shape ==
  /\ flows \in [Conn -> Entry \cup {Nil}]
  /\ rec \in [Entry -> [conn : Conn \cup {Nil}, state : Map!State, idle : BOOLEAN]]
  /\ lru \in Lru
  /\ job \in [Caller -> Job]
  /\ expirer \in [pc : {"idle", "scan", "count"}, at : Shard]

\* The entries the list's pointers lead to.
Pointed(l) ==
  ({l.head, l.tail} \cup {l.next[f] : f \in Entry} \cup {l.prev[f] : f \in Entry}) \ {Nil}

\* The maps hold an entry under its own key; what the list or a call points at
\* has been written, and is not reused while it does.
Keyed ==
  /\ \A c \in Conn : flows[c] # Nil => rec[flows[c]].conn = c
  /\ \A t \in Caller : job[t].entry # Nil => rec[job[t].entry].conn \in Conn
  /\ \A e \in Pointed(lru) : rec[e].conn \in Conn

\* No two of the callers and the expiry loop hold the same shard.
Exclusive ==
  /\ \A t, u \in Caller, s \in Shard : Holds(t, s) /\ Holds(u, s) => t = u
  /\ \A t \in Caller : expirer.pc # "idle" => ~Holds(t, expirer.at)

\* What a call knows at its position stays true until it moves on.
Placed(j) ==
  /\ j.pc \in Inside => j.conn \in Conn /\ j.req \in Map!Requests
  /\ j.pc \in {"found", "stale", "count"} => flows[j.conn] # Nil
  /\ j.pc \in Inside \ {"found", "stale", "count"} => flows[j.conn] = Nil
  /\ j.pc = "missing" => ~j.req.make
  /\ j.pc \in {"room", "pop", "victim", "evict", "insert"} => j.req.make
  /\ j.pc \in {"victim", "evict"} <=> j.entry # Nil
  /\ j.pc \in {"pop", "victim"} => j.tries < MaxAttempts
  /\ j.pc = "evict" => ShardOf[rec[j.entry].conn] # ShardOf[j.conn]
AllPlaced == \A t \in Caller : Placed(job[t])

Inv == Shape /\ Keyed /\ Exclusive /\ AllPlaced /\ CountMatches

-----------------------------------------------------------------------------
(***************************************************************************)
(* The list operations lead to no entry the list did not have.             *)
(***************************************************************************)
\* Taking an entry out of the list: its neighbours are joined.
LEMMA UnlinkPointed ==
  ASSUME NEW l \in Lru, NEW e \in Entry
  PROVE  unlinkEntry(l, e) \in Lru /\ Pointed(unlinkEntry(l, e)) \subseteq Pointed(l)
  BY DEF unlinkEntry, Lru, Pointed

\* Putting an entry at the front, where the entries used last are.
LEMMA FrontPointed ==
  ASSUME NEW l \in Lru, NEW e \in Entry
  PROVE  /\ linkEntryFront(l, e) \in Lru
         /\ Pointed(linkEntryFront(l, e)) \subseteq Pointed(l) \cup {e}
  BY DEF linkEntryFront, Lru, Pointed

\* Putting back a victim whose shard is busy.
LEMMA BackPointed ==
  ASSUME NEW l \in Lru, NEW e \in Entry
  PROVE  /\ linkEntryBack(l, e) \in Lru
         /\ Pointed(linkEntryBack(l, e)) \subseteq Pointed(l) \cup {e}
  BY DEF linkEntryBack, Lru, Pointed

\* Moving the entry of a flow that was found.
LEMMA MovePointed ==
  ASSUME NEW l \in Lru, NEW e \in Entry
  PROVE  /\ moveToFrontLocked(l, e) \in Lru
         /\ Pointed(moveToFrontLocked(l, e)) \subseteq Pointed(l) \cup {e}
  BY UnlinkPointed, FrontPointed DEF moveToFrontLocked

-----------------------------------------------------------------------------
(***************************************************************************)
(* Counting callers and flows.                                             *)
(***************************************************************************)
\* There are two callers.
LEMMA CallerCount ==
  ASSUME NEW S \in SUBSET Caller
  PROVE  Cardinality(S) = (IF "tun" \in S THEN 1 ELSE 0) + (IF "udp" \in S THEN 1 ELSE 0)
<1>1. IsFiniteSet({}) /\ Cardinality({}) = 0
  BY FS_EmptySet
<1>2. \A x : IsFiniteSet({x}) /\ Cardinality({x}) = 1
  BY FS_Singleton
<1>3. Cardinality({"tun"} \cup {"udp"}) = 2
  <2>1. Cardinality({"tun"} \cup {"udp"}) =
          IF "udp" \in {"tun"} THEN Cardinality({"tun"}) ELSE Cardinality({"tun"}) + 1
    BY <1>2, FS_AddElement, Zenon
  <2>2. "udp" \notin {"tun"} /\ Cardinality({"tun"}) = 1
    BY <1>2, Zenon
  <2>. QED
    BY <2>1, <2>2
<1>4. CASE S = {}
  BY <1>1, <1>4
<1>5. CASE S = {"tun"}
  BY <1>2, <1>5
<1>6. CASE S = {"udp"}
  BY <1>2, <1>6
<1>7. CASE S = {"tun"} \cup {"udp"}
  BY <1>3, <1>7
<1>. QED
  BY <1>4, <1>5, <1>6, <1>7 DEF Caller

\* How many callers are at a position.
Num(j, pc) == (IF j["tun"].pc = pc THEN 1 ELSE 0) + (IF j["udp"].pc = pc THEN 1 ELSE 0)
Owed(x) == IF x.pc = "count" THEN 1 ELSE 0

\* CountMatches with the cardinalities of sets of callers as sums.
LEMMA CountForm ==
  /\ CountMatches <=>
       flowCount = Cardinality(Present) + Num(job, "settle") + Owed(expirer) - Num(job, "count")
  /\ CountMatches' <=>
       flowCount' = Cardinality(Present') + Num(job', "settle") + Owed(expirer')
                      - Num(job', "count")
<1>1. ASSUME NEW j, NEW pc
      PROVE  Cardinality({t \in Caller : j[t].pc = pc}) = Num(j, pc)
  BY CallerCount DEF Num, Caller
<1>. QED
  BY <1>1 DEF CountMatches, Owed

\* Taking a flow out of the maps, or entering one, counts as one.
LEMMA PresentCount ==
  ASSUME Shape, NEW c \in Conn, NEW e \in Entry \cup {Nil}, flows' = [flows EXCEPT ![c] = e]
  PROVE  Cardinality(Present') = Cardinality(Present)
           + (IF flows[c] = Nil /\ e # Nil THEN 1 ELSE 0)
           - (IF flows[c] # Nil /\ e = Nil THEN 1 ELSE 0)
<1>1. IsFiniteSet(Present) /\ Cardinality(Present) \in Nat
  BY FS_Subset, FS_CardinalityType DEF Present
<1>2. CASE e = Nil
  <2>1. Present' = Present \ {c}
    BY <1>2 DEF Present, Shape
  <2>. QED
    <3>1. Cardinality(Present \ {c}) =
            IF c \in Present THEN Cardinality(Present) - 1 ELSE Cardinality(Present)
      BY <1>1, FS_RemoveElement, Zenon
    <3>2. c \in Present <=> flows[c] # Nil
      BY DEF Present
    <3>. QED
      BY <1>1, <1>2, <2>1, <3>1, <3>2
<1>3. CASE e # Nil
  <2>1. Present' = Present \cup {c}
    BY <1>3 DEF Present, Shape
  <2>. QED
    <3>1. Cardinality(Present \cup {c}) =
            IF c \in Present THEN Cardinality(Present) ELSE Cardinality(Present) + 1
      BY <1>1, FS_AddElement, Zenon
    <3>2. c \in Present <=> flows[c] # Nil
      BY DEF Present
    <3>. QED
      BY <1>1, <1>3, <2>1, <3>1, <3>2
<1>. QED
  BY <1>2, <1>3

\* The flows are counted alike while the maps stay.
LEMMA PresentStays ==
  ASSUME UNCHANGED flows
  PROVE  Cardinality(Present') = Cardinality(Present)
  BY DEF Present

\* The calls that have entered a flow and not counted it are no more than the
\* flows, so the counter is never negative.
LEMMA CountType ==
  ASSUME Shape, Exclusive, AllPlaced, CountMatches
  PROVE  flowCount \in Nat
<1> DEFINE D == {t \in Caller : job[t].pc = "count"}
           f == [t \in D |-> job[t].conn]
<1>1. IsFiniteSet(Present) /\ Cardinality(Present) \in Nat
  BY FS_Subset, FS_CardinalityType DEF Present
<1>2. \A t \in D : job[t].conn \in Present /\ Holds(t, ShardOf[job[t].conn])
  BY DEF AllPlaced, Placed, Present, Inside, Holds
<1>3. f \in Injection(D, Present)
  <2>1. f \in [D -> Present]
    BY <1>2
  <2>2. ASSUME NEW t \in D, NEW u \in D, f[t] = f[u]
        PROVE  t = u
    BY <1>2, <2>2 DEF Exclusive, Present
  <2>. QED
    BY <2>1, <2>2 DEF Injection, IsInjective
<1>4. Cardinality(D) <= Cardinality(Present)
  BY <1>1, <1>3, FS_Injection
<1>5. /\ Cardinality(D) \in Nat
      /\ Cardinality({t \in Caller : job[t].pc = "settle"}) \in Nat
  BY CallerCount DEF Caller
<1>. QED
  BY <1>1, <1>4, <1>5 DEF CountMatches\* ---- actions

\* What the dispatcher asks for.
LEMMA RequestType ==
  /\ \A t \in Caller : Map!Request(t) \subseteq Map!Requests
  /\ \A r \in Map!Requests : r.make \in BOOLEAN /\ r.state \in Map!State
<1>1. Map!Requests = Map!Request("tun") \cup Map!Request("udp")
  BY DEF Map!Requests, Map!Caller
<1>2. \A r \in Map!Request("tun") \cup Map!Request("udp") :
        r.make \in BOOLEAN /\ r.state \in Map!State
  BY DEF Map!Request, Map!State
<1>. QED
  BY <1>1, <1>2 DEF Caller

\* The empty table.
LEMMA InitInv == Init => Inv
<1>. SUFFICES ASSUME Init PROVE Inv
  OBVIOUS
<1>1. Shape
  BY DEF Init, Shape, Lru, NoJob, NoReq, Job, Map!State, Shard
<1>2. Keyed /\ Exclusive /\ AllPlaced
  BY DEF Init, Keyed, Exclusive, AllPlaced, Placed, Pointed, Holds, NoJob, Inside
<1>3. CountMatches
  <2>1. Present = {}
    BY DEF Init, Present
  <2>2. Cardinality(Present) = 0
    BY <2>1, FS_EmptySet
  <2>. QED
    BY <2>2, CountForm DEF Init, Num, Owed, NoJob, Caller
<1>. QED
  BY <1>1, <1>2, <1>3 DEF Inv

\* The ways in which a call moves on.
LEMMA JobStep ==
  ASSUME Shape, NEW t \in Caller
  PROVE  /\ \A pc \in Inside :
              /\ [job[t] EXCEPT !.pc = pc] \in Job
              /\ Goto(t, pc) => job' = [job EXCEPT ![t] = [job[t] EXCEPT !.pc = pc]]
         /\ \A pc \in Inside, e \in Entry \cup {Nil} :
              /\ [job[t] EXCEPT !.pc = pc, !.entry = e] \in Job
              /\ GotoWith(t, pc, e) =>
                   job' = [job EXCEPT ![t] = [job[t] EXCEPT !.pc = pc, !.entry = e]]
         /\ \A s \in Map!State \cup {"none"} : [NoJob EXCEPT !.pc = "done", !.result = s] \in Job
         /\ NoJob \in Job
         /\ \A pc \in Inside, e \in Entry \cup {Nil}, n \in 0 .. MaxAttempts :
              /\ [job[t] EXCEPT !.pc = pc, !.tries = n] \in Job
              /\ [job[t] EXCEPT !.pc = pc, !.tries = n, !.entry = e] \in Job
<1>1. job \in [Caller -> Job] /\ job[t] \in Job
  BY DEF Shape
<1>2. \A pc \in Inside :
        /\ [job[t] EXCEPT !.pc = pc] \in Job
        /\ Goto(t, pc) => job' = [job EXCEPT ![t] = [job[t] EXCEPT !.pc = pc]]
  BY <1>1 DEF Job, Goto
<1>3. \A pc \in Inside, e \in Entry \cup {Nil} :
        /\ [job[t] EXCEPT !.pc = pc, !.entry = e] \in Job
        /\ GotoWith(t, pc, e) =>
             job' = [job EXCEPT ![t] = [job[t] EXCEPT !.pc = pc, !.entry = e]]
  BY <1>1 DEF Job, GotoWith
<1>4. NoReq \in Map!Requests \cup {NoReq}
  OBVIOUS
<1>5. NoJob \in Job
  BY <1>4 DEF NoJob, Job
<1>6. \A s \in Map!State \cup {"none"} : [NoJob EXCEPT !.pc = "done", !.result = s] \in Job
  BY <1>5 DEF NoJob, Job
<1>7. \A pc \in Inside, e \in Entry \cup {Nil}, n \in 0 .. MaxAttempts :
        /\ [job[t] EXCEPT !.pc = pc, !.tries = n] \in Job
        /\ [job[t] EXCEPT !.pc = pc, !.tries = n, !.entry = e] \in Job
  BY <1>1 DEF Job
<1>. QED
  BY <1>2, <1>3, <1>5, <1>6, <1>7

\* The locks of a call at job j.
Held(j, s) ==
  \/ j.pc \in Inside /\ ShardOf[j.conn] = s
  \/ j.pc = "evict" /\ ShardOf[rec[j.entry].conn] = s

\* A step that moves the call of t on to j, changes the maps in no shard but
\* those t holds, writes only entries that nothing points at, and takes no lock
\* that is not free, leaves what the other calls know.
LEMMA CallerStep ==
  ASSUME Inv, NEW t \in Caller, NEW j \in Job,
         job' = [job EXCEPT ![t] = j], UNCHANGED expirer,
         flows' \in [Conn -> Entry \cup {Nil}],
         rec' \in [Entry -> [conn : Conn \cup {Nil}, state : Map!State, idle : BOOLEAN]],
         lru' \in Lru,
         \A c \in Conn : flows'[c] # flows[c] => Holds(t, ShardOf[c]),
         \A c \in Conn : flows'[c] # Nil => rec'[flows'[c]].conn = c,
         \A e \in Entry : rec'[e].conn # rec[e].conn =>
           e \notin Pointed(lru) /\ \A u \in Caller : job[u].entry # e,
         \A e \in Pointed(lru') : e \in Pointed(lru) \/ rec'[e].conn \in Conn,
         j.entry # Nil => rec'[j.entry].conn \in Conn,
         \A s \in Shard : Held(j, s)' => Holds(t, s) \/ Unlocked(s),
         Placed(j)'
  PROVE  Shape' /\ Keyed' /\ Exclusive' /\ AllPlaced'
<1>1. job'[t] = j /\ job' \in [Caller -> Job] /\ \A u \in Caller : u # t => job'[u] = job[u]
  BY DEF Inv, Shape
<1>2. Shape'
  BY <1>1 DEF Inv, Shape
<1>3. Keyed'
  <2>1. \A u \in Caller : job'[u].entry # Nil => rec'[job'[u].entry].conn \in Conn
    <3>. SUFFICES ASSUME NEW u \in Caller, job'[u].entry # Nil, u # t
                  PROVE  rec'[job'[u].entry].conn \in Conn
      BY <1>1
    <3>1. job[u].entry \in Entry /\ rec[job[u].entry].conn \in Conn
      BY <1>1 DEF Inv, Shape, Job, Keyed
    <3>. QED
      BY <1>1, <3>1
  <2>2. \A e \in Pointed(lru') : rec'[e].conn \in Conn
    <3>1. Pointed(lru) \subseteq Entry
      BY DEF Inv, Shape, Pointed, Lru
    <3>. QED
      BY <3>1 DEF Inv, Keyed
  <2>. QED
    BY <2>1, <2>2 DEF Keyed, Pointed
<1>4. \A u \in Caller : u # t =>
        /\ job[u].entry # Nil => rec'[job[u].entry].conn = rec[job[u].entry].conn
        /\ \A s \in Shard : Holds(u, s)' <=> Holds(u, s)
  <2>. SUFFICES ASSUME NEW u \in Caller, u # t
                PROVE  /\ job[u].entry # Nil => rec'[job[u].entry].conn = rec[job[u].entry].conn
                       /\ \A s \in Shard : Holds(u, s)' <=> Holds(u, s)
    OBVIOUS
  <2>1. job[u].entry # Nil => rec'[job[u].entry].conn = rec[job[u].entry].conn
    BY DEF Inv, Shape, Job
  <2>2. job[u].pc = "evict" => job[u].entry # Nil
    BY DEF Inv, AllPlaced, Placed
  <2>. QED
    BY <1>1, <2>1, <2>2 DEF Holds
<1>5. \A s \in Shard : Holds(t, s)' => Holds(t, s) \/ Unlocked(s)
  BY <1>1 DEF Holds, Held
<1>6. Exclusive'
  <2>1. ASSUME NEW u \in Caller, NEW v \in Caller, NEW s \in Shard, Holds(u, s)', Holds(v, s)'
        PROVE  u = v
    BY <1>4, <1>5, <2>1 DEF Inv, Exclusive, Unlocked
  <2>2. ASSUME NEW u \in Caller, expirer.pc # "idle", Holds(u, expirer.at)'
        PROVE  FALSE
    <3>1. PICK s \in Shard : s = expirer.at
      BY DEF Inv, Shape
    <3>2. Holds(u, s)'
      BY <2>2, <3>1 DEF Holds
    <3>. QED
      BY <1>4, <1>5, <2>2, <3>1, <3>2 DEF Inv, Exclusive, Unlocked
  <2>. QED
    BY <2>1, <2>2 DEF Exclusive, Holds
<1>7. AllPlaced'
  <2>. SUFFICES ASSUME NEW u \in Caller, u # t PROVE Placed(job[u])'
    BY <1>1 DEF AllPlaced
  <2>1. Placed(job[u])
    BY DEF Inv, AllPlaced
  <2>2. job[u].pc \in Inside => job[u].conn \in Conn /\ flows'[job[u].conn] = flows[job[u].conn]
    <3>. SUFFICES ASSUME job[u].pc \in Inside
                  PROVE  job[u].conn \in Conn /\ flows'[job[u].conn] = flows[job[u].conn]
      OBVIOUS
    <3>1. job[u].conn \in Conn
      BY <2>1 DEF Placed
    <3>2. ShardOf[job[u].conn] \in Shard /\ Holds(u, ShardOf[job[u].conn])
      BY <3>1 DEF Holds
    <3>. QED
      BY <3>1, <3>2 DEF Inv, Exclusive
  <2>3. job'[u] = job[u]
    BY <1>1
  <2>. QED
    BY <1>4, <2>1, <2>2, <2>3 DEF Placed, Inside
<1>. QED
  BY <1>2, <1>3, <1>6, <1>7

\* What a caller at a position has yet to do to the counter.
Due(pc) == IF pc = "settle" THEN 1 ELSE IF pc = "count" THEN -1 ELSE 0

\* How a step of t moves the counter's error.
LEMMA CountStep ==
  ASSUME Inv, NEW t \in Caller, NEW j \in Job,
         job' = [job EXCEPT ![t] = j], UNCHANGED expirer,
         flowCount' = flowCount + Cardinality(Present') - Cardinality(Present)
                        + Due(j.pc) - Due(job[t].pc)
  PROVE  CountMatches'
<1>1. job \in [Caller -> Job] /\ flowCount \in Nat
  BY CountType DEF Inv, Shape
<1>2. Cardinality(Present) \in Nat /\ Cardinality(Present') \in Nat
  BY FS_Subset, FS_CardinalityType DEF Present
<1>3. /\ Num(job', "settle") = Num(job, "settle") + (IF j.pc = "settle" THEN 1 ELSE 0)
                                   - (IF job[t].pc = "settle" THEN 1 ELSE 0)
      /\ Num(job', "count") = Num(job, "count") + (IF j.pc = "count" THEN 1 ELSE 0)
                                   - (IF job[t].pc = "count" THEN 1 ELSE 0)
  BY <1>1 DEF Num, Caller
<1>4. /\ Owed(expirer') = Owed(expirer) /\ Owed(expirer) \in Int
      /\ Num(job, "settle") \in Int /\ Num(job, "count") \in Int
  BY DEF Owed, Num
<1>5. Num(job', "settle") - Num(job', "count") =
        Num(job, "settle") - Num(job, "count") + Due(j.pc) - Due(job[t].pc)
  BY <1>3, <1>4 DEF Due
<1>6. flowCount = Cardinality(Present) + Num(job, "settle") + Owed(expirer) - Num(job, "count")
  BY CountForm DEF Inv
<1>7. Num(job', "settle") \in Int /\ Num(job', "count") \in Int
  BY DEF Num
<1>8. Due(j.pc) \in Int /\ Due(job[t].pc) \in Int
  BY DEF Due
<1>9. flowCount' = Cardinality(Present') + Num(job', "settle") + Owed(expirer')
                     - Num(job', "count")
  <2>1. ASSUME NEW f \in Int, NEW g \in Int, NEW p \in Int, NEW q \in Int, NEW o \in Int,
               NEW m \in Int, NEW n \in Int, NEW k \in Int, NEW l \in Int,
               NEW d \in Int, NEW e \in Int,
               g = f + q - p + d - e, f = p + m + o - n, k - l = m - n + d - e
        PROVE  g = q + k + o - l
    BY <2>1
  <2>2. flowCount' \in Int
    BY <1>1, <1>2, <1>8
  <2>. QED
    BY <1>1, <1>2, <1>4, <1>5, <1>6, <1>7, <1>8, <2>1, <2>2
<1>. QED
  BY <1>9, CountForm

\* A step that leaves the maps, the entries and the list alone.
LEMMA QuietStep ==
  ASSUME Inv, NEW t \in Caller, NEW j \in Job,
         job' = [job EXCEPT ![t] = j], UNCHANGED <<flows, rec, lru, expirer>>,
         j.entry \in {job[t].entry, Nil},
         \A s \in Shard : Held(j, s) => Holds(t, s) \/ Unlocked(s),
         Placed(j),
         flowCount' = flowCount + Due(j.pc) - Due(job[t].pc)
  PROVE  Inv'
<1>1. \A s \in Shard : Held(j, s)' => Holds(t, s) \/ Unlocked(s)
  BY DEF Held
<1>2. Placed(j)'
  BY DEF Placed
<1>3. Pointed(lru') = Pointed(lru)
  BY DEF Pointed
<1>4. Shape /\ Keyed /\ flowCount \in Nat
  BY CountType DEF Inv
<1>5. Shape' /\ Keyed' /\ Exclusive' /\ AllPlaced'
  BY <1>1, <1>2, <1>3, <1>4, CallerStep DEF Shape, Keyed
<1>6. Cardinality(Present') = Cardinality(Present) /\ Cardinality(Present) \in Nat
  BY FS_Subset, FS_CardinalityType, PresentStays DEF Present
<1>7. Due(j.pc) \in Int /\ Due(job[t].pc) \in Int
  BY DEF Due
<1>8. flowCount' = flowCount + Cardinality(Present') - Cardinality(Present)
                     + Due(j.pc) - Due(job[t].pc)
  BY <1>4, <1>6, <1>7
<1>9. CountMatches'
  BY <1>8, CountStep
<1>. QED
  BY <1>5, <1>9 DEF Inv
\* The limits are positive.
LEMMA Limits == MaxFlows \in Nat \ {0} /\ MaxAttempts \in Nat \ {0}
  OBVIOUS

\* Lookup and UpdateState take the lock of a free shard and look.
LEMMA CallInv ==
  ASSUME Inv, NEW t \in Caller, NEW c \in Conn, NEW r \in Map!Request(t), Call(t, c, r)
  PROVE  Inv'
<1>. DEFINE pc == CASE flows[c] = Nil -> IF r.make THEN "room" ELSE "missing"
                  [] flows[c] # Nil /\ rec[flows[c]].idle -> "stale"
                  [] OTHER -> "found"
             j == [NoJob EXCEPT !.pc = pc, !.conn = c, !.req = r]
<1>0. pc \in Inside
  BY DEF Inside
<1>1. Shape /\ Placed(job[t]) /\ job[t] \in Job /\ flowCount \in Nat
  BY CountType DEF Inv, Shape, AllPlaced
<1>2. j \in Job
  BY <1>0, <1>1, RequestType, JobStep DEF NoJob, Job
<1>3. job' = [job EXCEPT ![t] = j]
  BY <1>1, JobStep DEF Call, Look, Inside, Shape
<1>4. UNCHANGED <<flows, rec, lru, expirer>>
  BY DEF Call, Look
<1>5. /\ j.entry \in {job[t].entry, Nil}
      /\ Placed(j)
      /\ \A s \in Shard : Held(j, s) => Holds(t, s) \/ Unlocked(s)
  BY <1>1, RequestType DEF Call, Look, NoJob, Job, Inside, Placed, Holds, Held, Unlocked
<1>6. flowCount' = flowCount + Due(j.pc) - Due(job[t].pc)
  BY <1>1 DEF Call, Look, NoJob, Job, Inside, Due
<1>. HIDE DEF j
<1>. QED
  BY <1>2, <1>3, <1>4, <1>5, <1>6, QuietStep DEF Inv

\* No flow, and none is made.
LEMMA MissingInv ==
  ASSUME Inv, NEW t \in Caller, Missing(t)
  PROVE  Inv'
<1>. DEFINE j == [NoJob EXCEPT !.pc = "done", !.result = "none"]
<1>1. Shape /\ Placed(job[t]) /\ job[t] \in Job /\ flowCount \in Nat
  BY CountType DEF Inv, Shape, AllPlaced
<1>2. j \in Job
  BY <1>1, RequestType, JobStep DEF NoJob
<1>3. job' = [job EXCEPT ![t] = j]
  BY <1>1, JobStep DEF Missing, Unlock, Inside, Shape
<1>4. UNCHANGED <<flows, rec, lru, expirer>>
  BY DEF Missing, Unlock
<1>5. /\ j.entry \in {job[t].entry, Nil}
      /\ Placed(j)
      /\ \A s \in Shard : Held(j, s) => Holds(t, s) \/ Unlocked(s)
  BY <1>1, RequestType DEF Missing, Unlock, NoJob, Inside, Placed, Holds, Held, Unlocked
<1>6. flowCount' = flowCount + Due(j.pc) - Due(job[t].pc)
  BY <1>1 DEF Missing, Unlock, NoJob, Inside, Due
<1>. HIDE DEF j
<1>. QED
  BY <1>2, <1>3, <1>4, <1>5, <1>6, QuietStep DEF Inv

\* The removal of an expired entry is counted.
LEMMA SettleInv ==
  ASSUME Inv, NEW t \in Caller, Settle(t)
  PROVE  Inv'
<1>. DEFINE j == IF job[t].req.make THEN [job[t] EXCEPT !.pc = "room"]
                ELSE [NoJob EXCEPT !.pc = "done", !.result = "none"]
<1>1. Shape /\ Placed(job[t]) /\ job[t] \in Job /\ flowCount \in Nat
  BY CountType DEF Inv, Shape, AllPlaced
<1>2. j \in Job
  BY <1>1, RequestType, JobStep DEF Inside
<1>3. job' = [job EXCEPT ![t] = j]
  BY <1>1, JobStep DEF Settle, Unlock, Inside, Shape
<1>4. UNCHANGED <<flows, rec, lru, expirer>>
  BY DEF Settle, Unlock
<1>5. /\ j.entry \in {job[t].entry, Nil}
      /\ Placed(j)
      /\ \A s \in Shard : Held(j, s) => Holds(t, s) \/ Unlocked(s)
  BY <1>1, RequestType DEF Settle, Unlock, NoJob, Inside, Job, Placed, Holds, Held, Unlocked
<1>6. flowCount' = flowCount + Due(j.pc) - Due(job[t].pc)
  BY <1>1 DEF Settle, Unlock, NoJob, Inside, Job, Due
<1>. HIDE DEF j
<1>. QED
  BY <1>2, <1>3, <1>4, <1>5, <1>6, QuietStep DEF Inv

\* Lookup compares the counter with the limit.
LEMMA RoomInv ==
  ASSUME Inv, NEW t \in Caller, Room(t)
  PROVE  Inv'
<1>. DEFINE pc == IF flowCount >= MaxFlows THEN "pop" ELSE "insert"
             j == [job[t] EXCEPT !.pc = pc, !.tries = 0]
<1>0. pc \in Inside
  BY DEF Inside
<1>1. Shape /\ Placed(job[t]) /\ job[t] \in Job /\ flowCount \in Nat
  BY CountType DEF Inv, Shape, AllPlaced
<1>2. j \in Job
  <2>1. 0 \in 0 .. MaxAttempts /\ Nil \in Entry \cup {Nil}
    BY Limits
  <2>. HIDE DEF pc
  <2>. QED
    BY <1>0, <1>1, <2>1, JobStep, Zenon
<1>3. job' = [job EXCEPT ![t] = j]
  BY <1>1 DEF Room, Shape, Job
<1>4. UNCHANGED <<flows, rec, lru, expirer>>
  BY DEF Room
<1>5. /\ j.entry \in {job[t].entry, Nil}
      /\ Placed(j)
      /\ \A s \in Shard : Held(j, s) => Holds(t, s) \/ Unlocked(s)
  BY <1>1, RequestType DEF Room, Inside, Job, Placed, Holds, Held, Unlocked
<1>6. flowCount' = flowCount + Due(j.pc) - Due(job[t].pc)
  BY <1>1 DEF Room, Inside, Job, Due
<1>. HIDE DEF j
<1>. QED
  BY <1>2, <1>3, <1>4, <1>5, <1>6, QuietStep DEF Inv

\* TryLock of the shard of a victim succeeds.
LEMMA TryLockInv ==
  ASSUME Inv, NEW t \in Caller, VictimTryLock(t)
  PROVE  Inv'
<1>. DEFINE j == [job[t] EXCEPT !.pc = "evict"]
<1>1. Shape /\ Placed(job[t]) /\ job[t] \in Job /\ flowCount \in Nat
  BY CountType DEF Inv, Shape, AllPlaced
<1>2. j \in Job
  BY <1>1, RequestType, JobStep DEF Inside
<1>3. job' = [job EXCEPT ![t] = j]
  BY <1>1, JobStep DEF VictimTryLock, Inside, Shape
<1>4. UNCHANGED <<flows, rec, lru, expirer>>
  BY DEF VictimTryLock
<1>5. /\ j.entry \in {job[t].entry, Nil}
      /\ Placed(j)
      /\ \A s \in Shard : Held(j, s) => Holds(t, s) \/ Unlocked(s)
  BY <1>1, RequestType DEF VictimTryLock, Inside, Job, Placed, Holds, Held, Unlocked
<1>6. flowCount' = flowCount + Due(j.pc) - Due(job[t].pc)
  BY <1>1 DEF VictimTryLock, Inside, Job, Due
<1>. HIDE DEF j
<1>. QED
  BY <1>2, <1>3, <1>4, <1>5, <1>6, QuietStep DEF Inv

\* A new flow is counted, and the lock released.
LEMMA CountUpInv ==
  ASSUME Inv, NEW t \in Caller, CountUp(t)
  PROVE  Inv'
<1>. DEFINE j == [NoJob EXCEPT !.pc = "done", !.result = job[t].result]
<1>1. Shape /\ Placed(job[t]) /\ job[t] \in Job /\ flowCount \in Nat
  BY CountType DEF Inv, Shape, AllPlaced
<1>2. j \in Job
  BY <1>1, RequestType, JobStep DEF Job
<1>3. job' = [job EXCEPT ![t] = j]
  BY <1>1, JobStep DEF CountUp, Unlock, Inside, Shape
<1>4. UNCHANGED <<flows, rec, lru, expirer>>
  BY DEF CountUp, Unlock
<1>5. /\ j.entry \in {job[t].entry, Nil}
      /\ Placed(j)
      /\ \A s \in Shard : Held(j, s) => Holds(t, s) \/ Unlocked(s)
  BY <1>1, RequestType DEF CountUp, Unlock, NoJob, Inside, Job, Placed, Holds, Held, Unlocked
<1>6. flowCount' = flowCount + Due(j.pc) - Due(job[t].pc)
  BY <1>1 DEF CountUp, Unlock, NoJob, Inside, Job, Due
<1>. HIDE DEF j
<1>. QED
  BY <1>2, <1>3, <1>4, <1>5, <1>6, QuietStep DEF Inv

\* The caller has its answer.
LEMMA ReturnInv ==
  ASSUME Inv, NEW t \in Caller, Return(t)
  PROVE  Inv'
<1>. DEFINE j == NoJob
<1>1. Shape /\ Placed(job[t]) /\ job[t] \in Job /\ flowCount \in Nat
  BY CountType DEF Inv, Shape, AllPlaced
<1>2. j \in Job
  BY <1>1, RequestType, JobStep DEF NoJob
<1>3. job' = [job EXCEPT ![t] = j]
  BY <1>1, JobStep DEF Return, Inside, Shape
<1>4. UNCHANGED <<flows, rec, lru, expirer>>
  BY DEF Return
<1>5. /\ j.entry \in {job[t].entry, Nil}
      /\ Placed(j)
      /\ \A s \in Shard : Held(j, s) => Holds(t, s) \/ Unlocked(s)
  BY <1>1, RequestType DEF Return, NoJob, Inside, Placed, Holds, Held, Unlocked
<1>6. flowCount' = flowCount + Due(j.pc) - Due(job[t].pc)
  BY <1>1 DEF Return, NoJob, Inside, Due
<1>. HIDE DEF j
<1>. QED
  BY <1>2, <1>3, <1>4, <1>5, <1>6, QuietStep DEF Inv

\* The same, with the fields of the new job spelt out.
LEMMA GotoJob ==
  ASSUME Shape, NEW t \in Caller, NEW pc \in Inside, NEW e \in Entry \cup {Nil},
         \/ GotoWith(t, pc, e)
         \/ Goto(t, pc) /\ e = job[t].entry
  PROVE  \E j \in Job :
           /\ job' = [job EXCEPT ![t] = j]
           /\ j.pc = pc /\ j.entry = e
           /\ j.conn = job[t].conn /\ j.req = job[t].req /\ j.tries = job[t].tries
<1>1. job[t] \in Job
  BY DEF Shape
<1>. DEFINE j == [job[t] EXCEPT !.pc = pc, !.entry = e]
<1>2. j \in Job
  BY JobStep
<1>3. job' = [job EXCEPT ![t] = j]
  <2>1. Goto(t, pc) /\ e = job[t].entry => [job[t] EXCEPT !.pc = pc] = j
    BY <1>1 DEF Job
  <2>2. Goto(t, pc) => job' = [job EXCEPT ![t] = [job[t] EXCEPT !.pc = pc]]
    BY JobStep, Zenon
  <2>3. GotoWith(t, pc, e) => job' = [job EXCEPT ![t] = j]
    BY <1>1 DEF GotoWith, Shape, Job
  <2>. HIDE DEF j
  <2>4. CASE GotoWith(t, pc, e)
    BY <2>3, <2>4
  <2>5. CASE Goto(t, pc) /\ e = job[t].entry
    BY <2>1, <2>2, <2>5
  <2>. QED
    BY <2>4, <2>5
<1>4. /\ j.pc = pc /\ j.entry = e
      /\ j.conn = job[t].conn /\ j.req = job[t].req /\ j.tries = job[t].tries
  BY <1>1 DEF Job
<1>. HIDE DEF j
<1>. QED
  BY <1>2, <1>3, <1>4

\* The number of flows.
LEMMA PresentNat == IsFiniteSet(Present) /\ Cardinality(Present) \in Nat
  BY FS_Subset, FS_CardinalityType DEF Present

\* A live entry is touched and moved to the front.
LEMMA FoundInv ==
  ASSUME Inv, NEW t \in Caller, Found(t)
  PROVE  Inv'
<1>. DEFINE e == flows[job[t].conn]
            after == Touched(job[t].req, rec[e])
<1>1. Shape /\ Placed(job[t]) /\ job[t] \in Job /\ flowCount \in Nat
  BY CountType DEF Inv, Shape, AllPlaced
<1>2. e \in Entry /\ job[t].req \in Map!Requests /\ job[t].conn \in Conn
  BY <1>1 DEF Found, Placed, Inside, Shape
<1>3. /\ after \in [conn : Conn \cup {Nil}, state : Map!State, idle : BOOLEAN]
      /\ after.conn = rec[e].conn
  <2>1. rec[e] \in [conn : Conn \cup {Nil}, state : Map!State, idle : BOOLEAN]
    BY <1>1, <1>2 DEF Shape
  <2>. QED
    BY <1>2, <2>1, RequestType DEF Touched
<1>4. rec' = [rec EXCEPT ![e] = after] /\ lru' = moveToFrontLocked(lru, e)
      /\ UNCHANGED <<flows, flowCount, expirer>>
  BY DEF Found
<1>5. PICK j \in Job : /\ j = [NoJob EXCEPT !.pc = "done", !.result = after.state]
                       /\ job' = [job EXCEPT ![t] = j]
  BY <1>1, <1>3, JobStep DEF Found, Unlock
<1>6. /\ rec' \in [Entry -> [conn : Conn \cup {Nil}, state : Map!State, idle : BOOLEAN]]
      /\ \A f \in Entry : rec'[f].conn = rec[f].conn
  BY <1>1, <1>2, <1>3, <1>4 DEF Shape
<1>7. lru' \in Lru /\ \A f \in Pointed(lru') : f \in Pointed(lru) \/ rec'[f].conn \in Conn
  <2>1. lru' \in Lru /\ Pointed(lru') \subseteq Pointed(lru) \cup {e}
    BY <1>1, <1>2, <1>4, MovePointed DEF Shape
  <2>2. rec'[e].conn \in Conn
    BY <1>2, <1>6 DEF Inv, Keyed
  <2>. QED
    BY <2>1, <2>2
<1>8. \A c \in Conn : flows'[c] # Nil => rec'[flows'[c]].conn = c
  BY <1>1, <1>4, <1>6 DEF Inv, Keyed, Shape
<1>9. j.entry = Nil /\ Placed(j)' /\ (\A s \in Shard : ~Held(j, s)') /\ j.pc = "done"
  BY <1>5 DEF NoJob, Placed, Held, Inside
<1>10. Cardinality(Present') = Cardinality(Present) /\ Cardinality(Present) \in Nat
  BY <1>4, FS_Subset, FS_CardinalityType, PresentStays DEF Present
<1>11. flowCount' = flowCount + Cardinality(Present') - Cardinality(Present)
                      + Due(j.pc) - Due(job[t].pc)
  BY <1>1, <1>4, <1>9, <1>10 DEF Due, Found
<1>12. Shape' /\ Keyed' /\ Exclusive' /\ AllPlaced'
  BY <1>1, <1>4, <1>5, <1>6, <1>7, <1>8, <1>9, CallerStep DEF Shape
<1>13. CountMatches'
  BY <1>4, <1>5, <1>11, CountStep
<1>. QED
  BY <1>12, <1>13 DEF Inv

\* An expired entry leaves the map and the list.
LEMMA StaleInv ==
  ASSUME Inv, NEW t \in Caller, Stale(t)
  PROVE  Inv'
<1>1. Shape /\ Placed(job[t]) /\ job[t] \in Job /\ flowCount \in Nat
  BY CountType DEF Inv, Shape, AllPlaced
<1>2. PICK c \in Conn : c = job[t].conn /\ flows[c] \in Entry /\ job[t].pc = "stale"
                         /\ job[t].entry = Nil
  BY <1>1 DEF Stale, Placed, Inside, Shape
<1>3. PICK j \in Job :
        /\ job' = [job EXCEPT ![t] = j]
        /\ j.pc = "settle" /\ j.entry = Nil
        /\ j.conn = job[t].conn /\ j.req = job[t].req /\ j.tries = job[t].tries
  <2>1. Goto(t, "settle") /\ "settle" \in Inside
    BY DEF Stale, Inside
  <2>. QED
    BY <1>1, <1>2, <2>1, GotoJob
<1>4. flows' = [flows EXCEPT ![c] = Nil] /\ lru' = unlinkEntry(lru, flows[c])
      /\ UNCHANGED <<rec, flowCount, expirer>>
  BY <1>2 DEF Stale
<1>5. j.pc = "settle" /\ j.entry = Nil /\ j.conn = c /\ j.req = job[t].req
  BY <1>2, <1>3
<1>6. flows' \in [Conn -> Entry \cup {Nil}] /\ \A d \in Conn : d # c => flows'[d] = flows[d]
  BY <1>1, <1>2, <1>4 DEF Shape
<1>7. lru' \in Lru /\ \A f \in Pointed(lru') : f \in Pointed(lru)
  BY <1>1, <1>2, <1>4, UnlinkPointed DEF Shape
<1>8. \A d \in Conn : flows'[d] # Nil => rec'[flows'[d]].conn = d
  BY <1>1, <1>2, <1>4 DEF Inv, Keyed, Shape
<1>9. Placed(j)'
  BY <1>1, <1>2, <1>4, <1>5 DEF Placed, Shape, Inside
<1>10. /\ \A s \in Shard : Held(j, s)' => Holds(t, s)
       /\ Holds(t, ShardOf[c])
  BY <1>2, <1>5 DEF Held, Holds, Inside
<1>11. Cardinality(Present') = Cardinality(Present) - 1 /\ Cardinality(Present) \in Nat
  <2>1. Cardinality(Present') = Cardinality(Present)
           + (IF flows[c] = Nil /\ Nil # Nil THEN 1 ELSE 0)
           - (IF flows[c] # Nil /\ Nil = Nil THEN 1 ELSE 0)
    BY <1>1, <1>4, PresentCount
  <2>. QED
    BY <1>2, <2>1, PresentNat
<1>12. flowCount' = flowCount + Cardinality(Present') - Cardinality(Present)
                      + Due(j.pc) - Due(job[t].pc)
  BY <1>1, <1>2, <1>4, <1>5, <1>11 DEF Due
<1>13. Shape' /\ Keyed' /\ Exclusive' /\ AllPlaced'
  BY <1>1, <1>3, <1>4, <1>5, <1>6, <1>7, <1>8, <1>9, <1>10, CallerStep DEF Shape
<1>14. CountMatches'
  BY <1>3, <1>4, <1>12, CountStep
<1>. QED
  BY <1>13, <1>14 DEF Inv
\* The oldest entry leaves the list and is the victim.
LEMMA PopInv ==
  ASSUME Inv, NEW t \in Caller, popOldestEntry(t)
  PROVE  Inv'
<1>1. Shape /\ Placed(job[t]) /\ job[t] \in Job /\ flowCount \in Nat
  BY CountType DEF Inv, Shape, AllPlaced
<1>2. PICK e \in Entry \cup {Nil} : e = lru.tail
  BY <1>1 DEF Shape, Lru
<1>3. PICK j \in Job :
        /\ job' = [job EXCEPT ![t] = j]
        /\ j.pc = (IF e = Nil THEN "room" ELSE "victim") /\ j.entry = e
        /\ j.conn = job[t].conn /\ j.req = job[t].req /\ j.tries = job[t].tries
  <2>1. "room" \in Inside /\ "victim" \in Inside /\ job[t].entry = Nil
    BY <1>1 DEF popOldestEntry, Inside, Placed
  <2>2. CASE e = Nil
    BY <1>1, <1>2, <2>1, <2>2, GotoJob DEF popOldestEntry
  <2>3. CASE e # Nil
    BY <1>1, <1>2, <2>1, <2>3, GotoJob DEF popOldestEntry
  <2>. QED
    BY <2>2, <2>3
<1>4. lru' \in Lru /\ \A f \in Pointed(lru') : f \in Pointed(lru)
  <2>1. e # Nil => lru' = unlinkEntry(lru, e)
    BY <1>2 DEF popOldestEntry
  <2>2. e = Nil => lru' = lru
    BY <1>2 DEF popOldestEntry
  <2>. QED
    BY <1>1, <2>1, <2>2, UnlinkPointed DEF Shape
<1>5. e # Nil => e \in Pointed(lru) /\ rec[e].conn \in Conn
  BY <1>2 DEF Inv, Keyed, Pointed
<1>6. UNCHANGED <<flows, rec, flowCount, expirer>> /\ job[t].pc = "pop"
  BY DEF popOldestEntry
<1>7. Placed(j)' /\ \A s \in Shard : Held(j, s)' => Holds(t, s)
  BY <1>1, <1>3, <1>6 DEF Placed, Inside, Held, Holds
<1>8. flowCount' = flowCount + Cardinality(Present') - Cardinality(Present)
                      + Due(j.pc) - Due(job[t].pc)
  BY <1>1, <1>3, <1>6, PresentNat, PresentStays DEF Due
<1>9. Shape' /\ Keyed' /\ Exclusive' /\ AllPlaced'
  BY <1>1, <1>3, <1>4, <1>5, <1>6, <1>7, CallerStep DEF Shape, Inv, Keyed
<1>10. CountMatches'
  BY <1>3, <1>6, <1>8, CountStep
<1>. QED
  BY <1>9, <1>10 DEF Inv

\* TryLock fails, and the victim goes back on the list.
LEMMA BusyInv ==
  ASSUME Inv, NEW t \in Caller, VictimBusy(t)
  PROVE  Inv'
<1>1. Shape /\ Placed(job[t]) /\ job[t] \in Job /\ flowCount \in Nat
  BY CountType DEF Inv, Shape, AllPlaced
<1>2. PICK e \in Entry : e = job[t].entry /\ rec[e].conn \in Conn
  BY <1>1 DEF VictimBusy, Inv, Placed, Keyed, Shape, Job
<1>3. PICK j \in Job :
        /\ job' = [job EXCEPT ![t] = j]
        /\ j.pc = (IF j.tries = MaxAttempts THEN "room" ELSE "pop") /\ j.entry = Nil
        /\ j.conn = job[t].conn /\ j.req = job[t].req /\ j.tries = job[t].tries + 1
  <2>. DEFINE n == job[t].tries + 1
              pc == IF n = MaxAttempts THEN "room" ELSE "pop"
              j == [job[t] EXCEPT !.pc = pc, !.tries = n, !.entry = Nil]
  <2>1. n \in 0 .. MaxAttempts /\ pc \in Inside /\ Nil \in Entry \cup {Nil}
    BY <1>1, Limits DEF VictimBusy, Placed, Job, Inside
  <2>2. j \in Job
    <3>. HIDE DEF n, pc
    <3>. QED
      BY <1>1, <2>1, JobStep, Zenon
  <2>3. job' = [job EXCEPT ![t] = j]
    BY <1>1 DEF VictimBusy, Shape, Job
  <2>4. /\ j.pc = (IF j.tries = MaxAttempts THEN "room" ELSE "pop") /\ j.entry = Nil
        /\ j.conn = job[t].conn /\ j.req = job[t].req /\ j.tries = job[t].tries + 1
    BY <1>1 DEF Job
  <2>. HIDE DEF j
  <2>. QED
    BY <2>2, <2>3, <2>4
<1>4. /\ UNCHANGED <<flows, rec, flowCount, expirer>> /\ job[t].pc = "victim"
      /\ lru' = linkEntryBack(lru, e)
  BY <1>2 DEF VictimBusy
<1>5. lru' \in Lru /\ \A f \in Pointed(lru') : f \in Pointed(lru) \/ rec'[f].conn \in Conn
  BY <1>1, <1>2, <1>4, BackPointed DEF Shape
<1>6. Placed(j)' /\ \A s \in Shard : Held(j, s)' => Holds(t, s)
  BY <1>1, <1>3, <1>4, Limits DEF Placed, Inside, Held, Holds, Job
<1>7. flowCount' = flowCount + Cardinality(Present') - Cardinality(Present)
                      + Due(j.pc) - Due(job[t].pc)
  BY <1>1, <1>3, <1>4, PresentNat, PresentStays DEF Due
<1>8. Shape' /\ Keyed' /\ Exclusive' /\ AllPlaced'
  BY <1>1, <1>3, <1>4, <1>5, <1>6, CallerStep DEF Shape, Inv, Keyed
<1>9. CountMatches'
  BY <1>3, <1>4, <1>7, CountStep
<1>. QED
  BY <1>8, <1>9 DEF Inv

\* An eviction under a lock of t, its own shard's or the one it has tried.
LEMMA EvictedInv ==
  ASSUME Inv, NEW t \in Caller, job[t].pc \in {"victim", "evict"},
         Holds(t, ShardOf[rec[job[t].entry].conn]), Evicted(t)
  PROVE  Inv'
<1>1. Shape /\ Placed(job[t]) /\ job[t] \in Job /\ flowCount \in Nat
  BY CountType DEF Inv, Shape, AllPlaced
<1>2. PICK c \in Conn : c = rec[job[t].entry].conn
  BY <1>1 DEF Inv, Placed, Keyed, Shape, Job
<1>3. PICK j \in Job :
        /\ job' = [job EXCEPT ![t] = j]
        /\ j.pc = "room" /\ j.entry = Nil
        /\ j.conn = job[t].conn /\ j.req = job[t].req /\ j.tries = job[t].tries
  <2>1. "room" \in Inside /\ GotoWith(t, "room", Nil)
    BY DEF Evicted, Inside
  <2>. QED
    BY <1>1, <2>1, GotoJob
<1>4. /\ UNCHANGED <<rec, lru, expirer>> /\ flows' = [flows EXCEPT ![c] = Nil]
      /\ flowCount' = IF flows[c] # Nil THEN flowCount - 1 ELSE flowCount
  BY <1>2 DEF Evicted
<1>5. /\ flows' \in [Conn -> Entry \cup {Nil}]
      /\ \A d \in Conn : flows'[d] = IF d = c THEN Nil ELSE flows[d]
  BY <1>1, <1>4 DEF Shape
<1>6. Placed(j)' /\ \A s \in Shard : Held(j, s)' => Holds(t, s)
  BY <1>1, <1>3, <1>4, <1>5 DEF Placed, Inside, Held, Holds
<1>7. flowCount' = flowCount + Cardinality(Present') - Cardinality(Present)
                      + Due(j.pc) - Due(job[t].pc)
  <2>1. Cardinality(Present') = Cardinality(Present)
           + (IF flows[c] = Nil /\ Nil # Nil THEN 1 ELSE 0)
           - (IF flows[c] # Nil /\ Nil = Nil THEN 1 ELSE 0)
    BY <1>1, <1>4, PresentCount
  <2>2. Due(j.pc) = 0 /\ Due(job[t].pc) = 0
    BY <1>3 DEF Due
  <2>. QED
    BY <1>1, <1>4, <2>1, <2>2, PresentNat
<1>8. Pointed(lru') = Pointed(lru)
  BY <1>4 DEF Pointed
<1>9. Shape' /\ Keyed' /\ Exclusive' /\ AllPlaced'
  BY <1>1, <1>2, <1>3, <1>4, <1>5, <1>6, <1>8, CallerStep DEF Shape, Inv, Keyed
<1>10. CountMatches'
  BY <1>3, <1>4, <1>7, CountStep
<1>. QED
  BY <1>9, <1>10 DEF Inv

\* A new entry is written and enters the map and the list.
LEMMA InsertInv ==
  ASSUME Inv, NEW t \in Caller, NEW e \in Entry, Insert(t, e)
  PROVE  Inv'
<1>1. Shape /\ Placed(job[t]) /\ job[t] \in Job /\ flowCount \in Nat
  BY CountType DEF Inv, Shape, AllPlaced
<1>2. PICK c \in Conn : c = job[t].conn /\ job[t].pc = "insert" /\ flows[c] = Nil
                         /\ job[t].entry = Nil /\ job[t].req \in Map!Requests
  BY <1>1 DEF Insert, Placed, Inside
<1>3. PICK j \in Job :
        /\ job' = [job EXCEPT ![t] = j]
        /\ j.pc = "count" /\ j.entry = Nil /\ j.conn = c /\ j.req = job[t].req
  <2>. DEFINE j == [job[t] EXCEPT !.pc = "count", !.result = job[t].req.state]
  <2>1. "count" \in Inside /\ job[t].req.state \in Map!State
    BY <1>2, RequestType DEF Inside
  <2>2. j \in Job
    BY <1>1, <2>1 DEF Job
  <2>3. job' = [job EXCEPT ![t] = j]
    BY <1>1 DEF Insert, Shape, Job
  <2>4. j.pc = "count" /\ j.entry = Nil /\ j.conn = c /\ j.req = job[t].req
    BY <1>1, <1>2 DEF Job
  <2>. HIDE DEF j
  <2>. QED
    BY <2>2, <2>3, <2>4
<1>4. /\ flows' = [flows EXCEPT ![c] = e]
      /\ rec' = [rec EXCEPT ![e] = [conn |-> c, state |-> job[t].req.state, idle |-> FALSE]]
      /\ lru' = linkEntryFront(lru, e)
      /\ UNCHANGED <<flowCount, expirer>>
      /\ Unused(e)
  BY <1>2 DEF Insert
<1>5. /\ flows' \in [Conn -> Entry \cup {Nil}]
      /\ \A d \in Conn : flows'[d] = IF d = c THEN e ELSE flows[d]
  BY <1>1, <1>4 DEF Shape
<1>6. /\ rec' \in [Entry -> [conn : Conn \cup {Nil}, state : Map!State, idle : BOOLEAN]]
      /\ rec'[e].conn = c /\ \A f \in Entry : f # e => rec'[f] = rec[f]
  <2>1. job[t].req.state \in Map!State
    BY <1>2, RequestType
  <2>. QED
    BY <1>1, <1>4, <2>1 DEF Shape
<1>7. lru' \in Lru /\ \A f \in Pointed(lru') : f \in Pointed(lru) \/ rec'[f].conn \in Conn
  BY <1>1, <1>4, <1>6, FrontPointed DEF Shape
<1>8. e \notin Pointed(lru) /\ \A u \in Caller : job[u].entry # e
  BY <1>4 DEF Unused, Pointed
<1>9. \A d \in Conn : flows'[d] # Nil => rec'[flows'[d]].conn = d
  BY <1>1, <1>4, <1>5, <1>6 DEF Inv, Keyed, Shape, Unused
<1>10. Placed(j)' /\ \A s \in Shard : Held(j, s)' => Holds(t, s)
  BY <1>1, <1>2, <1>3, <1>5 DEF Placed, Inside, Held, Holds
<1>11. Holds(t, ShardOf[c])
  BY <1>2 DEF Holds, Inside
<1>12. flowCount' = flowCount + Cardinality(Present') - Cardinality(Present)
                      + Due(j.pc) - Due(job[t].pc)
  <2>1. Cardinality(Present') = Cardinality(Present)
           + (IF flows[c] = Nil /\ e # Nil THEN 1 ELSE 0)
           - (IF flows[c] # Nil /\ e = Nil THEN 1 ELSE 0)
    BY <1>1, <1>4, PresentCount
  <2>2. Due(j.pc) = -1 /\ Due(job[t].pc) = 0
    BY <1>2, <1>3 DEF Due
  <2>. QED
    BY <1>1, <1>2, <1>4, <2>1, <2>2, PresentNat
<1>13. Shape' /\ Keyed' /\ Exclusive' /\ AllPlaced'
  <2>1. \A d \in Conn : flows'[d] # flows[d] => Holds(t, ShardOf[d])
    BY <1>5, <1>11
  <2>2. \A f \in Entry : rec'[f].conn # rec[f].conn =>
          f \notin Pointed(lru) /\ \A u \in Caller : job[u].entry # f
    BY <1>6, <1>8
  <2>3. j.entry # Nil => rec'[j.entry].conn \in Conn
    BY <1>3
  <2>. QED
    BY <1>3, <1>4, <1>5, <1>6, <1>7, <1>9, <1>10, <2>1, <2>2, <2>3, CallerStep
<1>14. CountMatches'
  BY <1>3, <1>4, <1>12, CountStep
<1>. QED
  BY <1>13, <1>14 DEF Inv
-----------------------------------------------------------------------------
(***************************************************************************)
(* The expiry loop and the clock leave the calls where they are.           *)
(***************************************************************************)
\* A step that takes flows out of the shard the expiry loop holds, or that only
\* lets time pass, leaves what the calls know.
LEMMA ExpirerStep ==
  ASSUME Inv, UNCHANGED job,
         flows' \in [Conn -> Entry \cup {Nil}],
         rec' \in [Entry -> [conn : Conn \cup {Nil}, state : Map!State, idle : BOOLEAN]],
         lru' \in Lru,
         expirer' \in [pc : {"idle", "scan", "count"}, at : Shard],
         \A c \in Conn : flows'[c] # flows[c] =>
           flows'[c] = Nil /\ expirer.pc # "idle" /\ ShardOf[c] = expirer.at,
         \A e \in Entry : rec'[e].conn = rec[e].conn,
         Pointed(lru') \subseteq Pointed(lru),
         expirer'.pc # "idle" => /\ expirer'.at = expirer.at
                                 /\ expirer.pc # "idle" \/ Unlocked(expirer.at)
  PROVE  Shape' /\ Keyed' /\ Exclusive' /\ AllPlaced'
<1>1. Shape'
  BY DEF Inv, Shape
<1>2. Keyed'
  <2>1. \A c \in Conn : flows'[c] # Nil => rec'[flows'[c]].conn = c
    BY DEF Inv, Keyed, Shape
  <2>2. \A u \in Caller : job[u].entry # Nil => job[u].entry \in Entry
    BY DEF Inv, Shape, Job
  <2>3. \A u \in Caller : job'[u].entry # Nil => rec'[job'[u].entry].conn \in Conn
    BY <2>2 DEF Inv, Keyed
  <2>4. Pointed(lru) \subseteq Entry
    BY DEF Inv, Shape, Pointed, Lru
  <2>5. \A e \in Pointed(lru') : rec'[e].conn \in Conn
    BY <2>4 DEF Inv, Keyed
  <2>. QED
    BY <2>1, <2>3, <2>5 DEF Keyed, Pointed
<1>3. \A u \in Caller, s \in Shard : Holds(u, s)' <=> Holds(u, s)
  <2>1. \A u \in Caller : job[u].pc = "evict" => job[u].entry \in Entry
    BY DEF Inv, AllPlaced, Placed, Shape, Job
  <2>. QED
    BY <2>1 DEF Holds
<1>4. Exclusive'
  <2>1. \A u, v \in Caller, s \in Shard : Holds(u, s)' /\ Holds(v, s)' => u = v
    BY <1>3 DEF Inv, Exclusive
  <2>2. ASSUME NEW u \in Caller, expirer'.pc # "idle", Holds(u, expirer.at)'
        PROVE  FALSE
    <3>1. PICK s \in Shard : s = expirer'.at /\ s = expirer.at
      BY <2>2
    <3>2. Holds(u, s)'
      BY <2>2, <3>1 DEF Holds
    <3>. QED
      BY <1>3, <2>2, <3>1, <3>2 DEF Inv, Exclusive, Unlocked
  <2>. QED
    BY <2>1, <2>2 DEF Exclusive, Holds
<1>5. AllPlaced'
  <2>. SUFFICES ASSUME NEW u \in Caller PROVE Placed(job[u])'
    BY DEF AllPlaced
  <2>1. Placed(job[u]) /\ job' = job
    BY DEF Inv, AllPlaced
  <2>2. job[u].pc \in Inside => flows'[job[u].conn] = flows[job[u].conn]
    <3>. SUFFICES ASSUME job[u].pc \in Inside
                  PROVE  flows'[job[u].conn] = flows[job[u].conn]
      OBVIOUS
    <3>1. job[u].conn \in Conn
      BY <2>1 DEF Placed
    <3>2. Holds(u, ShardOf[job[u].conn])
      BY <3>1 DEF Holds
    <3>. QED
      BY <3>1, <3>2 DEF Inv, Exclusive
  <2>3. job[u].entry # Nil => rec'[job[u].entry].conn = rec[job[u].entry].conn
    BY DEF Inv, Shape, Job
  <2>. QED
    BY <2>1, <2>2, <2>3 DEF Placed, Inside
<1>. QED
  BY <1>1, <1>2, <1>4, <1>5

\* The counter's error moves by what the loop owes.
LEMMA ExpirerCount ==
  ASSUME Inv, UNCHANGED job,
         flowCount' = flowCount + Cardinality(Present') - Cardinality(Present)
                        + Owed(expirer') - Owed(expirer)
  PROVE  CountMatches'
<1>1. /\ flowCount \in Int /\ Cardinality(Present) \in Int /\ Cardinality(Present') \in Int
      /\ Owed(expirer) \in Int /\ Owed(expirer') \in Int
      /\ Num(job, "settle") \in Int /\ Num(job, "count") \in Int
  <2>1. flowCount \in Nat /\ Cardinality(Present) \in Nat
    BY CountType, PresentNat DEF Inv
  <2>2. Cardinality(Present') \in Nat
    BY FS_Subset, FS_CardinalityType DEF Present
  <2>. QED
    BY <2>1, <2>2 DEF Owed, Num
<1>2. flowCount = Cardinality(Present) + Num(job, "settle") + Owed(expirer) - Num(job, "count")
  BY CountForm DEF Inv
<1>3. flowCount' = Cardinality(Present') + Num(job', "settle") + Owed(expirer')
                     - Num(job', "count")
  BY <1>1, <1>2
<1>. QED
  BY <1>3, CountForm

\* ExpireOldFlows locks a shard, or unlocks it and goes on.
LEMMA ExpireLockInv ==
  ASSUME Inv, ExpireLock \/ ExpireUnlock
  PROVE  Inv'
<1>1. Shape /\ flowCount \in Nat
  BY CountType DEF Inv
<1>2. /\ UNCHANGED <<flows, rec, lru, flowCount, job>>
      /\ Owed(expirer') = 0 /\ Owed(expirer) = 0
      /\ expirer' \in [pc : {"idle", "scan", "count"}, at : Shard]
      /\ expirer'.pc # "idle" => expirer'.at = expirer.at /\ Unlocked(expirer.at)
  BY <1>1 DEF ExpireLock, ExpireUnlock, Owed, Shape, Shard
<1>3. Pointed(lru') = Pointed(lru)
  BY <1>2 DEF Pointed
<1>4. Shape' /\ Keyed' /\ Exclusive' /\ AllPlaced'
  BY <1>1, <1>2, <1>3, ExpirerStep DEF Shape
<1>5. CountMatches'
  BY <1>1, <1>2, PresentNat, PresentStays, ExpirerCount
<1>. QED
  BY <1>4, <1>5 DEF Inv

\* ExpireOldFlows takes an expired flow out.
LEMMA ExpireFlowInv ==
  ASSUME Inv, NEW c \in Conn, ExpireFlow(c)
  PROVE  Inv'
<1>1. Shape /\ flowCount \in Nat
  BY CountType DEF Inv
<1>2. /\ expirer.pc = "scan" /\ flows[c] \in Entry /\ flows[c] # Nil /\ ShardOf[c] = expirer.at
      /\ flows' = [flows EXCEPT ![c] = Nil]
      /\ lru' = unlinkEntry(lru, flows[c])
      /\ expirer' = [expirer EXCEPT !.pc = "count"]
      /\ UNCHANGED <<rec, flowCount, job>>
  BY <1>1 DEF ExpireFlow, Expirable, Present, Shape
<1>3. /\ flows' \in [Conn -> Entry \cup {Nil}]
      /\ \A d \in Conn : flows'[d] = IF d = c THEN Nil ELSE flows[d]
  BY <1>1, <1>2 DEF Shape
<1>4. lru' \in Lru /\ Pointed(lru') \subseteq Pointed(lru)
  BY <1>1, <1>2, UnlinkPointed DEF Shape
<1>5. /\ expirer' \in [pc : {"idle", "scan", "count"}, at : Shard]
      /\ expirer'.at = expirer.at /\ Owed(expirer') = 1 /\ Owed(expirer) = 0
  BY <1>1, <1>2 DEF Shape, Owed
<1>6. Shape' /\ Keyed' /\ Exclusive' /\ AllPlaced'
  BY <1>1, <1>2, <1>3, <1>4, <1>5, ExpirerStep DEF Shape
<1>7. CountMatches'
  <2>1. Cardinality(Present') = Cardinality(Present)
           + (IF flows[c] = Nil /\ Nil # Nil THEN 1 ELSE 0)
           - (IF flows[c] # Nil /\ Nil = Nil THEN 1 ELSE 0)
    BY <1>1, <1>2, PresentCount
  <2>2. Cardinality(Present') = Cardinality(Present) - 1
    BY <1>2, <2>1, PresentNat
  <2>3. flowCount' = flowCount + Cardinality(Present') - Cardinality(Present)
                        + Owed(expirer') - Owed(expirer)
    BY <1>1, <1>2, <1>5, <2>2, PresentNat
  <2>. QED
    BY <1>2, <2>3, ExpirerCount
<1>. QED
  BY <1>6, <1>7 DEF Inv

\* ExpireOldFlows counts the flow it took out.
LEMMA ExpireCountInv ==
  ASSUME Inv, ExpireCount
  PROVE  Inv'
<1>1. Shape /\ flowCount \in Nat
  BY CountType DEF Inv
<1>2. /\ UNCHANGED <<flows, rec, lru, job>> /\ expirer.pc = "count"
      /\ flowCount' = flowCount - 1
      /\ Owed(expirer') = 0 /\ Owed(expirer) = 1
      /\ expirer' \in [pc : {"idle", "scan", "count"}, at : Shard]
      /\ expirer'.at = expirer.at
  BY <1>1 DEF ExpireCount, Owed, Shape
<1>3. Pointed(lru') = Pointed(lru)
  BY <1>2 DEF Pointed
<1>4. Shape' /\ Keyed' /\ Exclusive' /\ AllPlaced'
  BY <1>1, <1>2, <1>3, ExpirerStep DEF Shape
<1>5. CountMatches'
  BY <1>1, <1>2, PresentNat, PresentStays, ExpirerCount
<1>. QED
  BY <1>4, <1>5 DEF Inv

\* Time passes.
LEMMA IdleInv ==
  ASSUME Inv, NEW c \in Conn, Idle(c)
  PROVE  Inv'
<1>1. Shape /\ flowCount \in Nat
  BY CountType DEF Inv
<1>2. /\ UNCHANGED <<flows, lru, flowCount, job, expirer>>
      /\ rec' \in [Entry -> [conn : Conn \cup {Nil}, state : Map!State, idle : BOOLEAN]]
      /\ \A e \in Entry : rec'[e].conn = rec[e].conn /\ rec'[e].state = rec[e].state
  <2>1. PICK e \in Entry : e = flows[c]
    BY <1>1 DEF Idle, Shape
  <2>2. rec' = [rec EXCEPT ![e].idle = TRUE] /\ UNCHANGED <<flows, lru, flowCount, job, expirer>>
    BY <2>1 DEF Idle
  <2>3. rec[e] \in [conn : Conn \cup {Nil}, state : Map!State, idle : BOOLEAN]
    BY <1>1 DEF Shape
  <2>4. PICK x : x = [rec[e] EXCEPT !.idle = TRUE]
    OBVIOUS
  <2>5. /\ x \in [conn : Conn \cup {Nil}, state : Map!State, idle : BOOLEAN]
        /\ x.conn = rec[e].conn /\ x.state = rec[e].state
    BY <2>3, <2>4
  <2>6. rec' = [rec EXCEPT ![e] = x]
    BY <2>2, <2>4
  <2>. QED
    <3>1. /\ rec' \in [Entry -> [conn : Conn \cup {Nil}, state : Map!State, idle : BOOLEAN]]
          /\ \A f \in Entry : rec'[f].conn = rec[f].conn /\ rec'[f].state = rec[f].state
      BY <1>1, <2>5, <2>6 DEF Shape
    <3>. QED
      BY <2>2, <3>1
<1>3. Pointed(lru') = Pointed(lru) /\ Owed(expirer') = Owed(expirer) /\ Owed(expirer) \in Int
  BY <1>2 DEF Pointed, Owed
<1>4. Shape' /\ Keyed' /\ Exclusive' /\ AllPlaced'
  BY <1>1, <1>2, <1>3, ExpirerStep DEF Shape, Inv, Exclusive
<1>5. CountMatches'
  BY <1>1, <1>2, <1>3, PresentNat, PresentStays, ExpirerCount
<1>. QED
  BY <1>4, <1>5 DEF Inv

-----------------------------------------------------------------------------
\* The invariant is inductive.
LEMMA NextInv ==
  ASSUME Inv, [Next]_vars
  PROVE  Inv'
<1>1. CASE UNCHANGED vars
  <2>1. Shape' /\ Keyed' /\ AllPlaced' /\ CountMatches'
    BY <1>1 DEF vars, Inv, Shape, Keyed, AllPlaced, Placed, CountMatches, Present, Pointed
  <2>2. Exclusive'
    BY <1>1 DEF vars, Inv, Exclusive, Holds
  <2>. QED
    BY <2>1, <2>2 DEF Inv
<1>2. ASSUME NEW t \in Caller, VictimOwnShard(t)
      PROVE  Inv'
  <2>1. Holds(t, ShardOf[rec[job[t].entry].conn])
    BY <1>2 DEF VictimOwnShard, Holds, Inside
  <2>. QED
    BY <1>2, <2>1, EvictedInv DEF VictimOwnShard
<1>3. ASSUME NEW t \in Caller, Evict(t)
      PROVE  Inv'
  <2>1. Holds(t, ShardOf[rec[job[t].entry].conn])
    BY <1>3 DEF Evict, Holds
  <2>. QED
    BY <1>3, <2>1, EvictedInv DEF Evict
<1>. QED
  BY <1>1, <1>2, <1>3, CallInv, FoundInv, MissingInv, StaleInv, SettleInv, RoomInv, PopInv,
     TryLockInv, BusyInv, InsertInv, CountUpInv, ReturnInv, ExpireLockInv, ExpireFlowInv,
     ExpireCountInv, IdleInv DEF Next

\* The invariant holds in every state of the flow table: the locks of the shards
\* exclude each other, and under them what a call has seen stays as it was, though
\* the list and the counter change under other mutexes.
THEOREM InvHolds == Spec => []Inv
  BY InitInv, NextInv, PTL DEF Spec

\* Every state of the flow table is well typed; in particular the atomic counter
\* of flowtable.go is never negative, whatever the order in which removals and
\* insertions are counted.
THEOREM FlowTableTypes == Spec => []TypeOK
<1>1. Inv => TypeOK
  BY CountType DEF Inv, Shape, TypeOK, Lru
<1>. QED
  BY <1>1, InvHolds, PTL

\* The counter of flowtable.go is the number of flows in the maps but for the
\* changes under way: no removal by Lookup, UpdateState, ExpireOldFlows or
\* eviction is counted twice or not at all.
THEOREM CounterExact == Spec => []CountMatches
<1>1. Inv => CountMatches
  BY DEF Inv
<1>. QED
  BY <1>1, InvHolds, PTL
-----------------------------------------------------------------------------
(***************************************************************************)
(* The refinement.                                                         *)
(***************************************************************************)
Table == [c \in Conn |-> StateOf(c)]
Calls == [t \in Caller |-> CallOf(job[t])]
Stutter == UNCHANGED <<Table, Calls>>

\* The steps of FlowMap, in terms of Table and Calls.
LEMMA MapBegin ==
  ASSUME NEW t \in Caller, NEW c \in Conn, NEW r,
         Calls[t] = [at |-> "idle"],
         Calls' = [Calls EXCEPT ![t] = [at |-> "called", conn |-> c, req |-> r]],
         Table' = Table
  PROVE  Map!Begin(t, c, r)
  BY DEF Map!Begin, Map!NoCall, Map!Pending, Table, Calls

\* A call acts.
LEMMA MapAct ==
  ASSUME NEW t \in Caller, NEW c \in Conn, NEW r, NEW after,
         Calls[t] = [at |-> "called", conn |-> c, req |-> r],
         Table[c] # "none" => after = Map!Touched(r, Table[c]),
         Table[c] = "none" => after = (IF r.make THEN r.state ELSE "none"),
         Table' = [Table EXCEPT ![c] = after],
         Calls' = [Calls EXCEPT ![t] = [at |-> "returned", result |-> after]]
  PROVE  Map!Act(t)
<1>1. Calls[t].at = "called" /\ Calls[t].conn = c /\ Calls[t].req = r
  OBVIOUS
<1>2. after = CASE Table[c] # "none" -> Map!Touched(r, Table[c])
                [] Table[c] = "none" /\ r.make -> r.state
                [] OTHER -> "none"
  OBVIOUS
<1>. QED
  BY <1>1, <1>2 DEF Map!Act, Map!Answer, Table, Calls

\* A call returns.
LEMMA MapReturn ==
  ASSUME NEW t \in Caller, Calls[t].at = "returned",
         Calls' = [Calls EXCEPT ![t] = [at |-> "idle"]], Table' = Table
  PROVE  Map!Return(t)
  BY DEF Map!Return, Map!NoCall, Table, Calls

\* A flow disappears.
LEMMA MapDrop ==
  ASSUME NEW c \in Conn, Table[c] # "none",
         Table' = [Table EXCEPT ![c] = "none"], Calls' = Calls
  PROVE  Map!Drop(c)
  BY DEF Map!Drop, Table, Calls
\* What a step of a caller does to the abstract calls.
LEMMA CallsStep ==
  ASSUME Shape, NEW t \in Caller, NEW j \in Job, job' = [job EXCEPT ![t] = j]
  PROVE  Calls' = [Calls EXCEPT ![t] = CallOf(j)]
  BY DEF Calls, Shape, CallOf

\* What a change of one flow does to the abstract table.
LEMMA TableStep ==
  ASSUME Shape, NEW c \in Conn, NEW x, StateOf(c)' = x,
         \A d \in Conn : d # c => StateOf(d)' = StateOf(d)
  PROVE  Table' = [Table EXCEPT ![c] = x]
  BY DEF Table

\* The abstract table changes only where the state of a flow does.
LEMMA TableStays ==
  ASSUME \A d \in Conn : StateOf(d)' = StateOf(d)
  PROVE  Table' = Table
  BY DEF Table

\* A flow that leaves the maps is dropped, and nothing is when there was none.
LEMMA FlowLeaves ==
  ASSUME Shape, NEW c \in Conn, flows' = [flows EXCEPT ![c] = Nil], UNCHANGED rec, Calls' = Calls
  PROVE  Stutter \/ Map!Drop(c)
<1>1. StateOf(c)' = "none" /\ \A d \in Conn : d # c => StateOf(d)' = StateOf(d)
  BY DEF Shape, StateOf
<1>2. Table' = [Table EXCEPT ![c] = "none"]
  BY <1>1, TableStep
<1>3. CASE Table[c] = "none"
  BY <1>1, <1>3, TableStays DEF Stutter, Table
<1>4. CASE Table[c] # "none"
  BY <1>2, <1>4, MapDrop
<1>. QED
  BY <1>3, <1>4

\* The abstract call of a job.
LEMMA CallForms ==
  ASSUME NEW j
  PROVE  /\ j.pc \in Inside \ {"count"} =>
              CallOf(j) = [at |-> "called", conn |-> j.conn, req |-> j.req]
         /\ j.pc \in {"done", "count"} => CallOf(j) = [at |-> "returned", result |-> j.result]
         /\ j.pc = "idle" => CallOf(j) = [at |-> "idle"]
  BY DEF CallOf, Inside

\* Steps of a call that its caller does not see.
LEMMA CallsStay ==
  ASSUME Shape, NEW t \in Caller, NEW j \in Job, job' = [job EXCEPT ![t] = j],
         CallOf(j) = CallOf(job[t])
  PROVE  Calls' = Calls
  BY DEF Calls, Shape

\* Taking the lock begins the call.
LEMMA CallMaps ==
  ASSUME Inv, NEW t \in Caller, NEW c \in Conn, NEW r \in Map!Request(t), Call(t, c, r)
  PROVE  Map!Begin(t, c, r)
<1>1. Shape /\ job[t] = NoJob /\ UNCHANGED <<flows, rec>>
  BY DEF Inv, Call, Look
<1>. DEFINE pc == CASE flows[c] = Nil -> IF r.make THEN "room" ELSE "missing"
                    [] flows[c] # Nil /\ rec[flows[c]].idle -> "stale"
                    [] OTHER -> "found"
            j == [NoJob EXCEPT !.pc = pc, !.conn = c, !.req = r]
<1>2. pc \in Inside \ {"count"}
  BY DEF Inside
<1>3. job' = [job EXCEPT ![t] = j]
  BY DEF Call, Look
<1>4. j.pc = pc /\ j.conn = c /\ j.req = r
  BY DEF NoJob
<1>. HIDE DEF pc, j
<1>5. CallOf(j) = [at |-> "called", conn |-> c, req |-> r]
  BY <1>2, <1>4, CallForms
<1>6. Calls' = [Calls EXCEPT ![t] = CallOf(j)]
  BY <1>1, <1>3 DEF Calls, Shape
<1>7. Calls[t] = [at |-> "idle"]
  BY <1>1, CallForms DEF Calls, NoJob
<1>8. Table' = Table
  BY <1>1, TableStays DEF StateOf
<1>. QED
  BY <1>5, <1>6, <1>7, <1>8, MapBegin

\* A call that returns s, having left or made its flow in state s.
LEMMA ActMaps ==
  ASSUME Inv, NEW t \in Caller, NEW x, NEW j \in Job,
         job[t].pc \in Inside \ {"count"},
         job' = [job EXCEPT ![t] = j],
         j.pc \in {"done", "count"}, j.result = x,
         StateOf(job[t].conn) # "none" => x = Map!Touched(job[t].req, StateOf(job[t].conn)),
         StateOf(job[t].conn) = "none" =>
           x = (IF job[t].req.make THEN job[t].req.state ELSE "none"),
         Table' = [Table EXCEPT ![job[t].conn] = x]
  PROVE  Map!Act(t)
<1>1. Shape /\ Placed(job[t])
  BY DEF Inv, AllPlaced
<1>2. PICK c \in Conn, r \in Map!Requests : c = job[t].conn /\ r = job[t].req
  BY <1>1 DEF Placed
<1>3. Calls[t] = [at |-> "called", conn |-> c, req |-> r]
  BY <1>2, CallForms DEF Calls
<1>4. CallOf(j) = [at |-> "returned", result |-> x]
  BY CallForms
<1>5. Calls' = [Calls EXCEPT ![t] = [at |-> "returned", result |-> x]]
  BY <1>1, <1>4, CallsStep
<1>6. Table[c] = StateOf(job[t].conn)
  BY <1>2 DEF Table
<1>. QED
  BY <1>2, <1>3, <1>5, <1>6, MapAct

\* Touching the entry is the instant at which a call that finds its flow acts.
LEMMA FoundMaps ==
  ASSUME Inv, NEW t \in Caller, Found(t)
  PROVE  Map!Act(t)
<1>1. Shape /\ Placed(job[t]) /\ Keyed
  BY DEF Inv, AllPlaced
<1>2. PICK c \in Conn, r \in Map!Requests : c = job[t].conn /\ r = job[t].req
                                             /\ job[t].pc = "found" /\ flows[c] # Nil
  BY <1>1 DEF Found, Placed, Inside
<1>3. PICK e \in Entry : e = flows[c]
  BY <1>1, <1>2 DEF Shape
<1>4. PICK after : after = Touched(r, rec[e])
  OBVIOUS
<1>5. /\ rec[e] \in [conn : Conn \cup {Nil}, state : Map!State, idle : BOOLEAN]
      /\ after.state = Map!Touched(r, rec[e].state)
      /\ after.state \in Map!State
  <2>1. rec[e] \in [conn : Conn \cup {Nil}, state : Map!State, idle : BOOLEAN]
    BY <1>1 DEF Shape
  <2>. QED
    BY <1>4, <2>1, RequestType DEF Touched, Map!Touched
<1>6. rec' = [rec EXCEPT ![e] = after] /\ UNCHANGED flows
  BY <1>2, <1>3, <1>4 DEF Found
<1>7. PICK j \in Job : /\ j = [NoJob EXCEPT !.pc = "done", !.result = after.state]
                       /\ job' = [job EXCEPT ![t] = j]
  BY <1>1, <1>2, <1>3, <1>4, <1>5, JobStep DEF Found, Unlock
<1>8. j.pc = "done" /\ j.result = after.state
  BY <1>7 DEF NoJob
<1>9. StateOf(c) = rec[e].state /\ StateOf(c) # "none"
  BY <1>2, <1>3, <1>5 DEF StateOf, Map!State
<1>10. Table' = [Table EXCEPT ![c] = after.state]
  <2>1. StateOf(c)' = after.state
    BY <1>1, <1>2, <1>3, <1>6 DEF StateOf, Shape
  <2>2. ASSUME NEW d \in Conn, d # c
        PROVE  StateOf(d)' = StateOf(d)
    <3>1. flows[d] # Nil => flows[d] \in Entry /\ flows[d] # e
      BY <1>1, <1>2, <1>3, <2>2 DEF Keyed, Shape
    <3>. QED
      BY <1>1, <1>6, <3>1 DEF StateOf, Shape
  <2>. QED
    BY <1>1, <2>1, <2>2, TableStep
<1>11. job[t].pc \in Inside \ {"count"}
  BY <1>2 DEF Inside
<1>. QED
  BY <1>2, <1>5, <1>7, <1>8, <1>9, <1>10, <1>11, ActMaps
\* A call that ends without a flow, where there is none and none is made.
LEMMA NoneMaps ==
  ASSUME Inv, NEW t \in Caller, job[t].pc \in {"missing", "settle"}, ~job[t].req.make,
         Unlock(t, "none"), UNCHANGED <<flows, rec>>
  PROVE  Map!Act(t)
<1>1. Shape /\ Placed(job[t])
  BY DEF Inv, AllPlaced
<1>2. PICK j \in Job : /\ j = [NoJob EXCEPT !.pc = "done", !.result = "none"]
                       /\ job' = [job EXCEPT ![t] = j]
  BY <1>1, JobStep DEF Unlock
<1>3. j.pc = "done" /\ j.result = "none"
  BY <1>2 DEF NoJob
<1>4. job[t].conn \in Conn /\ StateOf(job[t].conn) = "none" /\ job[t].pc \in Inside \ {"count"}
  BY <1>1 DEF Placed, Inside, StateOf
<1>5. Table' = [Table EXCEPT ![job[t].conn] = "none"]
  BY <1>4, TableStays DEF StateOf, Table
<1>. QED
  BY <1>2, <1>3, <1>4, <1>5, ActMaps

\* An expired flow disappears before the call that met it acts.
LEMMA StaleMaps ==
  ASSUME Inv, NEW t \in Caller, Stale(t)
  PROVE  Stutter \/ \E c \in Conn : Map!Drop(c)
<1>1. Shape /\ Placed(job[t])
  BY DEF Inv, AllPlaced
<1>2. PICK c \in Conn : c = job[t].conn /\ job[t].pc = "stale"
  BY <1>1 DEF Stale, Placed, Inside
<1>3. PICK j \in Job :
        /\ job' = [job EXCEPT ![t] = j]
        /\ j.pc = "settle" /\ j.conn = job[t].conn /\ j.req = job[t].req
  <2>1. Goto(t, "settle") /\ "settle" \in Inside /\ job[t].entry \in Entry \cup {Nil}
    BY <1>1 DEF Stale, Inside, Shape, Job
  <2>. QED
    BY <1>1, <2>1, GotoJob
<1>4. CallOf(j) = CallOf(job[t])
  BY <1>2, <1>3, CallForms DEF Inside
<1>5. Calls' = Calls
  BY <1>1, <1>3, <1>4, CallsStay
<1>6. flows' = [flows EXCEPT ![c] = Nil] /\ UNCHANGED rec
  BY <1>2 DEF Stale
<1>. QED
  BY <1>1, <1>5, <1>6, FlowLeaves

\* Steps on the way to a new flow.
LEMMA QuietMaps ==
  ASSUME Inv, NEW t \in Caller,
         \/ Room(t) \/ popOldestEntry(t) \/ VictimTryLock(t) \/ VictimBusy(t)
         \/ Settle(t) /\ job[t].req.make
  PROVE  Stutter
<1>1. Shape /\ job \in [Caller -> Job] /\ job[t] \in Job
  BY DEF Inv, Shape
<1>2. /\ job[t].pc \in Inside \ {"count"} /\ job'[t].pc \in Inside \ {"count"}
      /\ job'[t].conn = job[t].conn /\ job'[t].req = job[t].req
      /\ \A u \in Caller : u # t => job'[u] = job[u]
  BY <1>1 DEF Room, popOldestEntry, VictimTryLock, VictimBusy, Settle, Goto, GotoWith, Inside, Job
<1>3. UNCHANGED <<flows, rec>>
  BY DEF Room, popOldestEntry, VictimTryLock, VictimBusy, Settle
<1>4. CallOf(job'[t]) = CallOf(job[t])
  BY <1>2, CallForms
<1>5. Calls' = Calls
  BY <1>2, <1>4 DEF Calls
<1>6. Table' = Table
  BY <1>3, TableStays DEF StateOf
<1>. QED
  BY <1>5, <1>6 DEF Stutter

\* The flow under a victim's key disappears, if there still is one.
LEMMA EvictedMaps ==
  ASSUME Inv, NEW t \in Caller, job[t].pc \in {"victim", "evict"}, Evicted(t)
  PROVE  Stutter \/ \E c \in Conn : Map!Drop(c)
<1>1. Shape /\ Placed(job[t])
  BY DEF Inv, AllPlaced
<1>2. PICK c \in Conn : c = rec[job[t].entry].conn
  BY <1>1 DEF Inv, Placed, Keyed, Shape, Job
<1>3. PICK j \in Job :
        /\ job' = [job EXCEPT ![t] = j]
        /\ j.pc = "room" /\ j.conn = job[t].conn /\ j.req = job[t].req
  <2>1. "room" \in Inside /\ GotoWith(t, "room", Nil)
    BY DEF Evicted, Inside
  <2>. QED
    BY <1>1, <2>1, GotoJob
<1>4. CallOf(j) = CallOf(job[t])
  BY <1>3, CallForms DEF Inside
<1>5. Calls' = Calls
  BY <1>1, <1>3, <1>4, CallsStay
<1>6. flows' = [flows EXCEPT ![c] = Nil] /\ UNCHANGED rec
  BY <1>2 DEF Evicted
<1>. QED
  BY <1>1, <1>5, <1>6, FlowLeaves

\* Entering the flow is the instant at which a call that makes it acts.
LEMMA InsertMaps ==
  ASSUME Inv, NEW t \in Caller, NEW e \in Entry, Insert(t, e)
  PROVE  Map!Act(t)
<1>1. Shape /\ Placed(job[t]) /\ Keyed /\ job[t] \in Job
  BY DEF Inv, AllPlaced, Shape
<1>2. PICK c \in Conn, r \in Map!Requests :
        /\ c = job[t].conn /\ r = job[t].req /\ r.make
        /\ job[t].pc = "insert" /\ flows[c] = Nil
  BY <1>1 DEF Insert, Placed, Inside
<1>3. PICK j \in Job :
        /\ job' = [job EXCEPT ![t] = j]
        /\ j.pc = "count" /\ j.result = r.state
  <2>. DEFINE j == [job[t] EXCEPT !.pc = "count", !.result = r.state]
  <2>1. "count" \in Inside /\ r.state \in Map!State
    BY RequestType DEF Inside
  <2>2. j \in Job
    BY <1>1, <2>1 DEF Job
  <2>3. job' = [job EXCEPT ![t] = j]
    BY <1>1, <1>2 DEF Insert, Shape, Job
  <2>4. j.pc = "count" /\ j.result = r.state
    BY <1>1 DEF Job
  <2>. HIDE DEF j
  <2>. QED
    BY <2>2, <2>3, <2>4
<1>4. /\ flows' = [flows EXCEPT ![c] = e]
      /\ rec' = [rec EXCEPT ![e] = [conn |-> c, state |-> r.state, idle |-> FALSE]]
      /\ Unused(e)
  BY <1>2 DEF Insert
<1>5. StateOf(c) = "none"
  BY <1>2 DEF StateOf
<1>6. Table' = [Table EXCEPT ![c] = r.state]
  <2>1. StateOf(c)' = r.state
    BY <1>1, <1>4 DEF StateOf, Shape
  <2>2. ASSUME NEW d \in Conn, d # c
        PROVE  StateOf(d)' = StateOf(d)
    <3>1. flows'[d] = flows[d] /\ flows[d] # e /\ flows[d] \in Entry \cup {Nil}
      BY <1>1, <1>4, <2>2 DEF Shape, Unused
    <3>. QED
      BY <1>1, <1>4, <3>1 DEF StateOf, Shape
  <2>. QED
    BY <1>1, <2>1, <2>2, TableStep
<1>7. job[t].pc \in Inside \ {"count"}
  BY <1>2 DEF Inside
<1>. QED
  BY <1>2, <1>3, <1>5, <1>6, <1>7, ActMaps

\* Counting is not seen; returning is.
LEMMA EndMaps ==
  ASSUME Inv, NEW t \in Caller, CountUp(t) \/ Return(t)
  PROVE  Stutter \/ Map!Return(t)
<1>1. Shape /\ job[t] \in Job /\ UNCHANGED <<flows, rec>>
  BY DEF Inv, Shape, CountUp, Return
<1>2. Table' = Table
  BY <1>1, TableStays DEF StateOf
<1>3. CASE CountUp(t)
  <2>1. PICK j \in Job : /\ j = [NoJob EXCEPT !.pc = "done", !.result = job[t].result]
                         /\ job' = [job EXCEPT ![t] = j]
    <3>1. job[t].result \in Map!State \cup {"none"}
      BY <1>1 DEF Job
    <3>. QED
      BY <1>1, <1>3, <3>1, JobStep DEF CountUp, Unlock
  <2>2. j.pc = "done" /\ j.result = job[t].result /\ job[t].pc = "count"
    BY <1>3, <2>1 DEF NoJob, CountUp
  <2>3. CallOf(j) = CallOf(job[t])
    BY <2>2, CallForms
  <2>4. Calls' = Calls
    BY <1>1, <2>1, <2>3, CallsStay
  <2>. QED
    BY <1>2, <2>4 DEF Stutter
<1>4. CASE Return(t)
  <2>1. job' = [job EXCEPT ![t] = NoJob] /\ job[t].pc = "done"
    BY <1>4 DEF Return
  <2>2. Calls' = [Calls EXCEPT ![t] = CallOf(NoJob)]
    BY <1>1, <2>1, JobStep, CallsStep
  <2>3. CallOf(NoJob) = [at |-> "idle"] /\ Calls[t].at = "returned"
    BY <2>1, CallForms DEF NoJob, Calls
  <2>. QED
    BY <1>2, <2>2, <2>3, MapReturn
<1>. QED
  BY <1>3, <1>4

\* The expiry loop makes flows disappear, and does nothing else.
LEMMA ExpirerMaps ==
  ASSUME Inv, \/ ExpireLock \/ ExpireCount \/ ExpireUnlock
              \/ \E c \in Conn : ExpireFlow(c) \/ Idle(c)
  PROVE  Stutter \/ \E c \in Conn : Map!Drop(c)
<1>1. Shape /\ UNCHANGED job
  BY DEF Inv, ExpireLock, ExpireCount, ExpireUnlock, ExpireFlow, Idle
<1>2. Calls' = Calls
  BY <1>1 DEF Calls
<1>3. CASE ExpireLock \/ ExpireCount \/ ExpireUnlock
  <2>1. UNCHANGED <<flows, rec>>
    BY <1>3 DEF ExpireLock, ExpireCount, ExpireUnlock
  <2>. QED
    BY <1>2, <2>1, TableStays DEF StateOf, Stutter
<1>4. ASSUME NEW c \in Conn, ExpireFlow(c)
      PROVE  Stutter \/ Map!Drop(c)
  BY <1>1, <1>2, <1>4, FlowLeaves DEF ExpireFlow
<1>5. ASSUME NEW c \in Conn, Idle(c)
      PROVE  Stutter
  <2>1. PICK e \in Entry : e = flows[c]
    BY <1>1, <1>5 DEF Idle, Shape
  <2>2. rec' = [rec EXCEPT ![e].idle = TRUE] /\ UNCHANGED flows
    BY <1>5, <2>1 DEF Idle
  <2>3. \A f \in Entry : rec'[f].state = rec[f].state
    BY <1>1, <2>2 DEF Shape
  <2>4. \A d \in Conn : StateOf(d)' = StateOf(d)
    BY <1>1, <2>2, <2>3 DEF StateOf, Shape
  <2>. QED
    BY <1>2, <2>4, TableStays DEF Stutter
<1>. QED
  BY <1>3, <1>4, <1>5

\* Every step of the table is a step of the map or none.
LEMMA NextMaps ==
  ASSUME Inv, [Next]_vars
  PROVE  Map!MapNext \/ Stutter
<1>1. CASE UNCHANGED vars
  <2>1. UNCHANGED <<flows, rec, job>>
    BY <1>1 DEF vars
  <2>. QED
    BY <2>1, TableStays DEF StateOf, Stutter, Calls
<1>2. ASSUME NEW t \in Caller, NEW c \in Conn, NEW r \in Map!Request(t), Call(t, c, r)
      PROVE  Map!MapNext
  BY <1>2, CallMaps DEF Map!MapNext, Map!Caller, Caller
<1>3. ASSUME NEW t \in Caller,
             Found(t) \/ Missing(t) \/ \E e \in Entry : Insert(t, e)
      PROVE  Map!MapNext
  <2>1. Missing(t) => Map!Act(t)
    <3>1. Placed(job[t])
      BY DEF Inv, AllPlaced
    <3>. QED
      BY <3>1, NoneMaps DEF Missing, Placed
  <2>2. Map!Act(t)
    BY <1>3, <2>1, FoundMaps, InsertMaps
  <2>. QED
    BY <2>2 DEF Map!MapNext, Map!Caller, Caller
<1>4. ASSUME NEW t \in Caller, Settle(t)
      PROVE  Map!MapNext \/ Stutter
  <2>1. ~job[t].req.make => Map!Act(t)
    BY <1>4, NoneMaps DEF Settle
  <2>. QED
    BY <1>4, <2>1, QuietMaps DEF Map!MapNext, Map!Caller, Caller
<1>5. ASSUME NEW t \in Caller, Stale(t) \/ VictimOwnShard(t) \/ Evict(t)
      PROVE  Map!MapNext \/ Stutter
  <2>1. Stutter \/ \E c \in Conn : Map!Drop(c)
    BY <1>5, StaleMaps, EvictedMaps DEF VictimOwnShard, Evict
  <2>. QED
    BY <2>1 DEF Map!MapNext
<1>6. ASSUME NEW t \in Caller,
             Room(t) \/ popOldestEntry(t) \/ VictimTryLock(t) \/ VictimBusy(t)
      PROVE  Stutter
  BY <1>6, QuietMaps
<1>7. ASSUME NEW t \in Caller, CountUp(t) \/ Return(t)
      PROVE  Map!MapNext \/ Stutter
  BY <1>7, EndMaps DEF Map!MapNext, Map!Caller, Caller
<1>8. ASSUME \/ ExpireLock \/ ExpireCount \/ ExpireUnlock
             \/ \E c \in Conn : ExpireFlow(c) \/ Idle(c)
      PROVE  Map!MapNext \/ Stutter
  BY <1>8, ExpirerMaps DEF Map!MapNext
<1>. QED
  BY <1>1, <1>2, <1>3, <1>4, <1>5, <1>6, <1>7, <1>8 DEF Next

\* The sharded table with its list, its counter and its victims implements the
\* map of FlowMap: every call of Lookup and UpdateState acts at one instant, and
\* flows otherwise only disappear.
THEOREM ImplementsMap == Spec => Implements
<1>1. Init => Map!MapInit
  BY DEF Init, Map!MapInit, Map!NoCall, Map!Caller, Caller, StateOf, CallOf, NoJob
<1>2. Inv /\ [Next]_vars =>
        [Map!MapNext]_<<[c \in Conn |-> StateOf(c)], [t \in Caller |-> CallOf(job[t])]>>
  BY NextMaps DEF Stutter, Table, Calls
<1>. QED
  BY <1>1, <1>2, InvHolds, PTL DEF Spec, Implements, Map!MapSpec
=============================================================================
