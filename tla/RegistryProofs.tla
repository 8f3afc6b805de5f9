--------------------------- MODULE RegistryProofs ---------------------------
(***************************************************************************)
(* Proofs about Registry, for every set of peers, networks, callers and    *)
(* every size of network, limit, TTL and clock.                            *)
(***************************************************************************)
EXTENDS Registry, FiniteSetTheorems, TLAPS

USE NumHostsAssumption, LimitAssumption, TimeAssumption, NullAssumption

(***************************************************************************)
(* Types of the operators the actions are built from.                      *)
(***************************************************************************)
\* Rounding a time down to the hour gives a natural number at most Gran - 1
\* below it, and not 0 for a time of at least one hour.
LEMMA RoundLemma ==
  ASSUME NEW t \in Nat, t >= StartTime
  PROVE  /\ RoundToHour(t) \in Nat
         /\ RoundToHour(t) >= t - (Gran - 1)
         /\ RoundToHour(t) > 0
<1>1. t % Gran \in 0 .. (Gran - 1)
  OBVIOUS
<1>2. t > 0
  OBVIOUS
<1>3. QED
  BY <1>1, <1>2 DEF RoundToHour

\* Migration keeps the type of a network record, its machine count and NextIP.
LEMMA MigrateType ==
  ASSUME NEW rec \in NetRec, NEW used
  PROVE  /\ MigrateAssignedAddrs(rec, used) \in NetRec
         /\ MigrateAssignedAddrs(rec, used).machineCount = rec.machineCount
         /\ MigrateAssignedAddrs(rec, used).created = rec.created
         /\ MigrateAssignedAddrs(rec, used).hasAddrs
<1> DEFINE marks ==
      [a \in Host |-> IF a \in used THEN Assigned
                      ELSE IF \/ InCIDR(rec.nextIP) /\ a < rec.nextIP
                              \/ ~InCIDR(rec.nextIP) /\ NumHosts <= MaxFallbackHosts
                      THEN FreedByMigration ELSE Never]
<1>1. marks \in [Host -> Int]
  BY DEF Assigned, FreedByMigration, Never
<1>2. MigrateAssignedAddrs(rec, used) =
        IF rec.hasAddrs THEN rec
        ELSE [rec EXCEPT !.hasAddrs = TRUE, !.assignedAddrs = marks]
  BY DEF MigrateAssignedAddrs
<1> HIDE DEF marks
<1>3. QED
  BY <1>1, <1>2 DEF NetRec

\* Updating a field with a value of its type keeps a record's type.
LEMMA TouchedType ==
  ASSUME NEW r \in PeerRec, NEW t \in Nat, NEW nm \in Name \cup {NoName}
  PROVE  /\ [r EXCEPT !.lastSeen = t] \in PeerRec
         /\ [r EXCEPT !.lastSeen = t, !.name = nm] \in PeerRec
  BY DEF PeerRec

\* Nor does updating the count, a mark and NextIP change that of a network record.
LEMMA CountType ==
  ASSUME NEW r \in NetRec, NEW k \in Nat, NEW a, NEW v \in Int, NEW ip \in Int
  PROVE  /\ [r EXCEPT !.machineCount = k] \in NetRec
         /\ [r EXCEPT !.machineCount = k, !.assignedAddrs[a] = v] \in NetRec
         /\ [r EXCEPT !.assignedAddrs[a] = v, !.nextIP = ip, !.machineCount = k] \in NetRec
<1>1. [r.assignedAddrs EXCEPT ![a] = v] \in [Host -> Int]
  BY DEF NetRec
<1>2. QED
  BY <1>1 DEF NetRec

\* The name RegisterPeer stores is the requested one or none.
LEMMA StoredNameType ==
  ASSUME NEW n, NEW p, NEW nm \in Name \cup {NoName}
  PROVE  StoredName(n, p, nm) \in Name \cup {NoName}
  BY DEF StoredName

\* A network has finitely many peers.
LEMMA MembersFinite ==
  ASSUME NEW n
  PROVE  IsFiniteSet(Members(n)) /\ Cardinality(Members(n)) \in Nat
<1>1. Members(n) \in SUBSET Peer
  BY DEF Members
<1>2. QED
  BY <1>1, FiniteAssumption, FS_Subset, FS_CardinalityType
-----------------------------------------------------------------------------
(***************************************************************************)
(* Type correctness.                                                       *)
(***************************************************************************)
\* The new and the older databases are well typed.
LEMMA InitType == Init => TypeOK
<1> SUFFICES ASSUME Init PROVE TypeOK
  OBVIOUS
<1> USE DEF TypeOK
<1>1. NoPeer \in PeerRec /\ NoNetwork \in NetRec /\ Idle \in CallRec
  BY DEF NoPeer, NoNetwork, Idle, PeerRec, NetRec, CallRec, Never
<1>2. /\ endpoints \in [Peer -> Endpoint \cup {NoEndpoint}]
      /\ call \in [Caller -> CallRec]
      /\ now \in Nat /\ now >= StartTime
      /\ leftAt \in [Net -> [Host -> Nat]]
      /\ seenAt \in [Peer -> Nat]
  BY <1>1 DEF Init, InitMemory
<1>3. CASE InitNew
  BY <1>1, <1>2, <1>3 DEF InitNew
<1>4. CASE InitLegacy
  <2>1. PICK n \in Net, P \in SUBSET Peer, at \in [Peer -> Host], k \in Key,
             ip \in {Unparsed, Outside} \cup (Host \cup {NumHosts + 1}) :
          LegacyNetwork(n, P, at, k, ip)
    BY <1>4 DEF InitLegacy
  <2>2. Cardinality(P) \in Nat
    BY FiniteAssumption, FS_Subset, FS_CardinalityType
  <2>3. ip \in Int
    BY DEF Unparsed, Outside, Host
  <2>4. \A p \in Peer : at[p] \in Nat
    BY DEF Host
  <2>5. peers \in [Peer -> PeerRec]
    BY <1>1, <2>1, <2>4 DEF LegacyNetwork, PeerRec, NoPeer
  <2>6. networks \in [Net -> NetRec]
    BY <1>1, <2>1, <2>2, <2>3 DEF LegacyNetwork, NetRec, NoNetwork, Never
  <2>7. everHeld \in [Net -> SUBSET Host]
    BY <2>1 DEF LegacyNetwork
  <2>8. QED
    BY <1>2, <2>5, <2>6, <2>7
<1>5. QED
  BY <1>3, <1>4 DEF Init

\* Every call, second half of a call, restart and tick keeps the types.
LEMMA StepType == TypeOK /\ [Next]_vars => TypeOK'
<1> SUFFICES ASSUME TypeOK, [Next]_vars PROVE TypeOK'
  OBVIOUS
<1> USE DEF TypeOK
<1>1. NoPeer \in PeerRec /\ NoNetwork \in NetRec /\ Idle \in CallRec
  BY DEF NoPeer, NoNetwork, Idle, PeerRec, NetRec, CallRec, Never
<1>2. RoundToHour(now) \in Nat
  BY RoundLemma
<1>3. ASSUME NEW n \in Net, CreateNetwork(n) PROVE TypeOK'
  <2>1. [NoNetwork EXCEPT !.created = TRUE] \in NetRec
    BY <1>1 DEF NetRec
  <2>2. QED
    BY <1>3, <2>1 DEF CreateNetwork, history
<1>4. ASSUME NEW c \in Caller, NEW p \in Peer, NEW n \in Net, NEW k \in Key,
             NEW nm \in Name \cup {NoName},
             NEW ep \in Endpoint \cup {NoEndpoint},
             ReRegister(c, p, n, k, nm, ep)
      PROVE TypeOK'
  <2>1. StoredName(n, p, nm) \in Name \cup {NoName}
    BY StoredNameType
  <2>2. peers' \in [Peer -> PeerRec]
    BY <1>2, <1>4, <2>1, TouchedType DEF ReRegister
  <2>3. call' \in [Caller -> CallRec]
    BY <1>4 DEF ReRegister, ThenSetEndpoint, CallRec
  <2>4. QED
    BY <1>4, <2>2, <2>3 DEF ReRegister
<1>5. ASSUME NEW c \in Caller, NEW p \in Peer, NEW n \in Net, NEW k \in Key,
             NEW nm \in Name \cup {NoName},
             NEW ep \in Endpoint \cup {NoEndpoint},
             RegisterNew(c, p, n, k, nm, ep)
      PROVE TypeOK'
  <2> DEFINE rec == MigrateAssignedAddrs(networks[n], Used(n))
  <2>1. StoredName(n, p, nm) \in Name \cup {NoName}
    BY StoredNameType
  <2>2. rec \in NetRec
    BY MigrateType
  <2>3. PICK a \in Host :
         /\ networks' = [networks EXCEPT ![n] =
              [rec EXCEPT !.assignedAddrs[a] = Assigned,
                          !.nextIP = AdvanceNextIP(@, a),
                          !.machineCount = @ + 1]]
         /\ peers' = [peers EXCEPT ![p] =
              [net |-> n, name |-> StoredName(n, p, nm), addr |-> a, key |-> k,
               lastSeen |-> RoundToHour(now), registeredAt |-> now]]
         /\ everHeld' = [everHeld EXCEPT ![n] = @ \cup {a}]
         /\ leftAt' = [leftAt EXCEPT ![n][a] = 0]
    BY <1>5 DEF RegisterNew
  <2>4. a \in Nat
    BY DEF Host
  <2>5. AdvanceNextIP(rec.nextIP, a) \in Int
    BY <2>2, <2>4 DEF AdvanceNextIP, NetRec
  <2> HIDE DEF rec
  <2>6. networks' \in [Net -> NetRec]
    <3>1. rec.machineCount + 1 \in Nat /\ Assigned \in Int
      BY <2>2 DEF NetRec, Assigned
    <3>2. [rec EXCEPT !.assignedAddrs[a] = Assigned,
                      !.nextIP = AdvanceNextIP(@, a),
                      !.machineCount = @ + 1] \in NetRec
      BY <2>2, <2>5, <3>1, CountType
    <3>3. QED
      BY <2>3, <3>2
  <2>7. peers' \in [Peer -> PeerRec]
    BY <1>2, <2>1, <2>3, <2>4 DEF PeerRec
  <2>8. call' \in [Caller -> CallRec]
    BY <1>5 DEF RegisterNew, ThenSetEndpoint, CallRec
  <2>9. everHeld' \in [Net -> SUBSET Host] /\ leftAt' \in [Net -> [Host -> Nat]]
    BY <2>3
  <2>10. QED
    BY <1>5, <2>6, <2>7, <2>8, <2>9 DEF RegisterNew
<1>6. ASSUME NEW c \in Caller, NEW p \in Peer,
             NEW ep \in Endpoint \cup {NoEndpoint}, UpdateEndpoint(c, p, ep)
      PROVE TypeOK'
  <2>1. peers' \in [Peer -> PeerRec]
    BY <1>2, <1>6, TouchedType DEF UpdateEndpoint, Touched
  <2>2. call' \in [Caller -> CallRec]
    BY <1>6 DEF UpdateEndpoint, ThenSetEndpoint, CallRec
  <2>3. QED
    BY <1>6, <2>1, <2>2 DEF UpdateEndpoint, Touched
<1>7. ASSUME NEW p \in Peer, TouchPeer(p) PROVE TypeOK'
  <2>1. peers' \in [Peer -> PeerRec]
    BY <1>2, <1>7, TouchedType DEF TouchPeer, Touched
  <2>2. QED
    BY <1>7, <2>1 DEF TouchPeer, Touched
<1>8. ASSUME NEW c \in Caller, NEW p \in Peer, RemovePeer(c, p) PROVE TypeOK'
  <2> DEFINE n == peers[p].net
             a == peers[p].addr
             rec == MigrateAssignedAddrs(networks[n], Used(n) \ {a})
  <2>1. n \in Net
    BY <1>8 DEF RemovePeer, Registered, PeerRec
  <2>2. rec \in NetRec
    BY <2>1, MigrateType
  <2>3. /\ networks' = [networks EXCEPT ![n] =
             [rec EXCEPT !.machineCount = Decrement(@, 1),
                         !.assignedAddrs[a] = now]]
        /\ leftAt' = [leftAt EXCEPT ![n][a] = now]
    BY <1>8 DEF RemovePeer
  <2>4. Decrement(rec.machineCount, 1) \in Nat
    BY <2>2 DEF Decrement, NetRec
  <2> HIDE DEF rec
  <2>5. networks' \in [Net -> NetRec]
    <3>1. [rec EXCEPT !.machineCount = Decrement(@, 1), !.assignedAddrs[a] = now] \in NetRec
      <4>1. now \in Int
        OBVIOUS
      <4>2. \A k \in Nat, v \in Int :
              [rec EXCEPT !.machineCount = k, !.assignedAddrs[a] = v] \in NetRec
        BY <2>2, CountType
      <4>3. QED
        BY <2>4, <4>1, <4>2
    <3>2. QED
      BY <2>1, <2>3, <3>1
  <2>6. leftAt' \in [Net -> [Host -> Nat]]
    BY <2>1, <2>3
  <2>7. peers' \in [Peer -> PeerRec]
    BY <1>1, <1>8 DEF RemovePeer
  <2>8. call' \in [Caller -> CallRec]
    BY <1>8 DEF RemovePeer, ThenDropEndpoints, Idle, CallRec
  <2>9. QED
    BY <1>8, <2>5, <2>6, <2>7, <2>8 DEF RemovePeer
<1>9. ASSUME NEW c \in Caller, NEW skip \in SUBSET Peer, SweepStalePeers(c, skip)
      PROVE TypeOK'
  <2> DEFINE removed == {p \in Peer \ skip : Stale(p)}
  <2>1. /\ peers' = [p \in Peer |-> IF p \in removed THEN NoPeer ELSE peers[p]]
        /\ networks' = [n \in Net |-> [networks[n] EXCEPT
             !.machineCount = Decrement(@, Cardinality(removed \cap Members(n)))]]
        /\ ThenDropEndpoints(c, removed)
        /\ UNCHANGED <<endpoints, now, history>>
    BY <1>9 DEF SweepStalePeers
  <2>2. removed \in SUBSET Peer
    OBVIOUS
  <2> HIDE DEF removed
  <2>3. ASSUME NEW n \in Net
        PROVE  Decrement(networks[n].machineCount, Cardinality(removed \cap Members(n))) \in Nat
    <3>1. Cardinality(removed \cap Members(n)) \in Nat
      BY <2>2, FiniteAssumption, FS_Subset, FS_CardinalityType
    <3>2. QED
      BY <3>1 DEF Decrement, NetRec
  <2>4. networks' \in [Net -> NetRec]
    BY <2>1, <2>3, CountType
  <2>5. peers' \in [Peer -> PeerRec]
    BY <1>1, <2>1
  <2>6. call' \in [Caller -> CallRec]
    BY <2>1, <2>2 DEF ThenDropEndpoints, Idle, CallRec
  <2>7. QED
    BY <2>1, <2>4, <2>5, <2>6 DEF history
<1>10. ASSUME NEW c \in Caller, SetEndpoint(c) PROVE TypeOK'
  <2>1. call' \in [Caller -> CallRec]
    BY <1>1, <1>10 DEF SetEndpoint
  <2>2. endpoints' \in [Peer -> Endpoint \cup {NoEndpoint}]
    BY <1>10 DEF SetEndpoint, CallRec
  <2>3. QED
    BY <1>10, <2>1, <2>2 DEF SetEndpoint, db, history
<1>11. ASSUME NEW c \in Caller, DropEndpoint(c) PROVE TypeOK'
  <2>1. call' \in [Caller -> CallRec]
    BY <1>1, <1>11 DEF DropEndpoint, CallRec
  <2>2. endpoints' \in [Peer -> Endpoint \cup {NoEndpoint}]
    BY <1>11 DEF DropEndpoint
  <2>3. QED
    BY <1>11, <2>1, <2>2 DEF DropEndpoint, db, history
<1>12. CASE Restart
  BY <1>1, <1>12 DEF Restart, db, history
<1>13. CASE Tick
  BY <1>13 DEF Tick, db, history
<1>14. CASE UNCHANGED vars
  BY <1>14 DEF vars
<1>15. ASSUME NEW c \in Caller, RegisterPeer(c) PROVE TypeOK'
  BY <1>4, <1>5, <1>14, <1>15 DEF RegisterPeer, RegisterReject
<1>16. QED
  BY <1>3, <1>6, <1>7, <1>8, <1>9, <1>10, <1>11, <1>12, <1>13, <1>14, <1>15
  DEF Next

\* The buckets, the endpoint map and the calls in flight keep their types.
THEOREM TypeCorrect == Spec => []TypeOK
<1>1. QED
  BY InitType, StepType, PTL DEF Spec
-----------------------------------------------------------------------------
(***************************************************************************)
(* Addresses, machine counts and names.  UniqueAddrs and UniqueNames are   *)
(* inductive over TypeOK; CountExact needs that a network that was never   *)
(* created has a zero count, for CreateNetwork to reset nothing.           *)
(***************************************************************************)
UncreatedEmpty == \A n \in Net : ~networks[n].created => networks[n].machineCount = 0

DbInv == UniqueAddrs /\ CountExact /\ UncreatedEmpty /\ UniqueNames

\* A new database is empty; an older one holds distinct addresses and no names.
LEMMA InitDb == Init => DbInv
<1> SUFFICES ASSUME Init PROVE DbInv
  OBVIOUS
<1>1. CASE InitNew
  <2>1. \A p \in Peer : ~Registered(p)
    BY <1>1 DEF InitNew, Registered, NoPeer
  <2>2. \A n \in Net : Members(n) = {}
    BY <2>1 DEF Members, Registered
  <2>3. \A n \in Net : networks[n].machineCount = 0
    BY <1>1 DEF InitNew, NoNetwork
  <2>4. QED
    BY <2>1, <2>2, <2>3, FS_EmptySet
    DEF DbInv, UniqueAddrs, CountExact, UncreatedEmpty, UniqueNames
<1>2. CASE InitLegacy
  <2>1. PICK n \in Net, P \in SUBSET Peer, at \in [Peer -> Host], k \in Key,
             ip \in {Unparsed, Outside} \cup (Host \cup {NumHosts + 1}) :
          LegacyNetwork(n, P, at, k, ip)
    BY <1>2 DEF InitLegacy
  <2>2. \A p \in Peer : /\ p \in P => peers[p].net = n /\ peers[p].addr = at[p]
                        /\ p \notin P => peers[p].net = NoNet
                        /\ peers[p].name = NoName
    BY <2>1 DEF LegacyNetwork, NoPeer
  <2>3. UniqueAddrs
    <3>1. \A p, q \in P : at[p] = at[q] => p = q
      BY <2>1 DEF LegacyNetwork
    <3>2. SUFFICES ASSUME NEW p \in Peer, NEW q \in Peer, Registered(p)
                   PROVE  /\ peers[p].addr \in Host
                          /\ (/\ peers[q].net = peers[p].net
                              /\ peers[q].addr = peers[p].addr) => p = q
      BY DEF UniqueAddrs
    <3>3. p \in P /\ peers[p].net = n /\ peers[p].addr = at[p]
      BY <2>2, <3>2 DEF Registered
    <3>4. peers[q].net = n => q \in P /\ peers[q].addr = at[q]
      BY <2>2
    <3>5. QED
      BY <3>1, <3>3, <3>4
  <2>4. UniqueNames
    BY <2>2 DEF UniqueNames
  <2>5. Members(n) = P /\ \A m \in Net \ {n} : Members(m) = {}
    BY <2>2 DEF Members
  <2>6. \A m \in Net : /\ m = n => networks[m].machineCount = Cardinality(P)
                       /\ m = n => networks[m].created
                       /\ m # n => networks[m].machineCount = 0
    BY <2>1 DEF LegacyNetwork, NoNetwork
  <2>7. QED
    BY <2>3, <2>4, <2>5, <2>6, FS_EmptySet DEF DbInv, CountExact, UncreatedEmpty
<1>3. QED
  BY <1>1, <1>2 DEF Init

\* A step that leaves every peer's network and address alone, changes no machine
\* count and drops names or leaves them alone keeps the invariant.
LEMMA SameDb ==
  ASSUME TypeOK, DbInv, UNCHANGED networks,
         \A q \in Peer : /\ peers'[q].net = peers[q].net
                         /\ peers'[q].addr = peers[q].addr
                         /\ peers'[q].name \in {peers[q].name, NoName}
  PROVE  DbInv'
<1>1. \A n \in Net : Members(n)' = Members(n)
  BY DEF Members
<1>2. UniqueAddrs' /\ UniqueNames'
  BY DEF DbInv, UniqueAddrs, UniqueNames, Registered
<1>3. QED
  BY <1>1, <1>2 DEF DbInv, CountExact, UncreatedEmpty

\* Addresses, counts and names stay right in every step.
LEMMA StepDb == TypeOK /\ DbInv /\ [Next]_vars => DbInv'
<1> SUFFICES ASSUME TypeOK, DbInv, [Next]_vars PROVE DbInv'
  OBVIOUS
<1>1. ASSUME NEW n \in Net, CreateNetwork(n) PROVE DbInv'
  <2>1. /\ peers' = peers
        /\ networks'[n].machineCount = 0 /\ networks'[n].created
        /\ \A m \in Net \ {n} : networks'[m] = networks[m]
    BY <1>1 DEF CreateNetwork, NoNetwork, TypeOK, NetRec
  <2>2. networks[n].machineCount = 0
    BY <1>1 DEF CreateNetwork, DbInv, UncreatedEmpty
  <2>3. \A m \in Net : Members(m)' = Members(m)
    BY <2>1 DEF Members
  <2>4. UniqueAddrs' /\ UniqueNames'
    BY <2>1 DEF DbInv, UniqueAddrs, UniqueNames, Registered
  <2>5. CountExact' /\ UncreatedEmpty'
    BY <2>1, <2>2, <2>3 DEF DbInv, CountExact, UncreatedEmpty
  <2>6. QED
    BY <2>4, <2>5 DEF DbInv
<1>2. ASSUME NEW c \in Caller, NEW p \in Peer, NEW n \in Net, NEW k \in Key,
             NEW nm \in Name \cup {NoName},
             NEW ep \in Endpoint \cup {NoEndpoint},
             ReRegister(c, p, n, k, nm, ep)
      PROVE DbInv'
  <2>1. /\ UNCHANGED networks
        /\ \A q \in Peer : /\ peers'[q].net = peers[q].net
                           /\ peers'[q].addr = peers[q].addr
                           /\ q # p => peers'[q].name = peers[q].name
        /\ peers'[p].name = StoredName(n, p, nm)
        /\ peers[p].net = n
    BY <1>2 DEF ReRegister, TypeOK, PeerRec
  <2>2. \A m \in Net : Members(m)' = Members(m)
    BY <2>1 DEF Members
  <2>3. UniqueAddrs'
    BY <2>1 DEF DbInv, UniqueAddrs, Registered
  <2>4. UniqueNames'
    BY <2>1 DEF DbInv, UniqueNames, Registered, StoredName, NameTaken, Members
  <2>5. QED
    BY <2>1, <2>2, <2>3, <2>4 DEF DbInv, CountExact, UncreatedEmpty
<1>3. ASSUME NEW c \in Caller, NEW p \in Peer, NEW n \in Net, NEW k \in Key,
             NEW nm \in Name \cup {NoName},
             NEW ep \in Endpoint \cup {NoEndpoint},
             RegisterNew(c, p, n, k, nm, ep)
      PROVE DbInv'
  <2> DEFINE rec == MigrateAssignedAddrs(networks[n], Used(n))
  <2>1. rec \in NetRec /\ rec.machineCount = networks[n].machineCount
                       /\ rec.created = networks[n].created
    BY MigrateType DEF TypeOK
  <2>2. PICK a \in Host :
         /\ Selects(a, rec.assignedAddrs, Used(n))
         /\ networks' = [networks EXCEPT ![n] =
              [rec EXCEPT !.assignedAddrs[a] = Assigned,
                          !.nextIP = AdvanceNextIP(@, a),
                          !.machineCount = @ + 1]]
         /\ peers' = [peers EXCEPT ![p] =
              [net |-> n, name |-> StoredName(n, p, nm), addr |-> a, key |-> k,
               lastSeen |-> RoundToHour(now), registeredAt |-> now]]
    BY <1>3 DEF RegisterNew
  <2> HIDE DEF rec
  <2>3. ~Registered(p) /\ networks[n].created
    BY <1>3 DEF RegisterNew
  <2>4. a \notin Used(n)
    BY <2>2 DEF Selects, NeverUsed, Freed
  <2>5. /\ \A q \in Peer \ {p} : peers'[q] = peers[q]
        /\ peers'[p].net = n /\ peers'[p].addr = a
        /\ peers'[p].name = StoredName(n, p, nm)
    BY <2>2 DEF TypeOK
  <2>6. UniqueAddrs'
    BY <2>4, <2>5 DEF DbInv, UniqueAddrs, Registered, Used, Members
  <2>7. UniqueNames'
    BY <2>5 DEF DbInv, UniqueNames, Registered, StoredName, NameTaken, Members
  <2>8. Members(n)' = Members(n) \cup {p} /\ p \notin Members(n)
    BY <2>3, <2>5 DEF Members, Registered
  <2>9. \A m \in Net \ {n} : Members(m)' = Members(m)
    BY <2>3, <2>5 DEF Members, Registered
  <2>10. /\ networks'[n].machineCount = networks[n].machineCount + 1
         /\ networks'[n].created
         /\ \A m \in Net \ {n} : networks'[m] = networks[m]
    BY <2>1, <2>2, <2>3 DEF TypeOK, NetRec
  <2>11. CountExact'
    <3>1. Cardinality(Members(n) \cup {p}) = Cardinality(Members(n)) + 1
      BY <2>8, MembersFinite, FS_AddElement
    <3>2. QED
      BY <2>8, <2>9, <2>10, <3>1 DEF CountExact, DbInv
  <2>12. QED
    BY <2>6, <2>7, <2>10, <2>11 DEF DbInv, UncreatedEmpty
<1>4. ASSUME NEW c \in Caller, NEW p \in Peer,
             NEW ep \in Endpoint \cup {NoEndpoint}, UpdateEndpoint(c, p, ep)
      PROVE DbInv'
  BY <1>4, SameDb DEF UpdateEndpoint, Touched, TypeOK, PeerRec
<1>5. ASSUME NEW p \in Peer, TouchPeer(p) PROVE DbInv'
  BY <1>5, SameDb DEF TouchPeer, Touched, TypeOK, PeerRec
<1>6. ASSUME NEW c \in Caller, NEW p \in Peer, RemovePeer(c, p) PROVE DbInv'
  <2>1. PICK n \in Net : n = peers[p].net
    BY <1>6 DEF RemovePeer, Registered, TypeOK, PeerRec
  <2> DEFINE a == peers[p].addr
             rec == MigrateAssignedAddrs(networks[n], Used(n) \ {a})
  <2>2. rec \in NetRec /\ rec.machineCount = networks[n].machineCount
                       /\ rec.created = networks[n].created
    BY MigrateType DEF TypeOK
  <2>3. networks' = [networks EXCEPT ![n] =
             [rec EXCEPT !.machineCount = Decrement(@, 1),
                         !.assignedAddrs[a] = now]]
    BY <1>6, <2>1 DEF RemovePeer
  <2>4. peers' = [peers EXCEPT ![p] = NoPeer]
    BY <1>6 DEF RemovePeer
  <2> HIDE DEF rec
  <2>5. /\ networks'[n].machineCount = Decrement(networks[n].machineCount, 1)
        /\ networks'[n].created = networks[n].created
        /\ \A m \in Net \ {n} : networks'[m] = networks[m]
    BY <2>1, <2>2, <2>3 DEF TypeOK, NetRec
  <2>6. /\ \A q \in Peer \ {p} : peers'[q] = peers[q]
        /\ peers'[p].net = NoNet /\ peers'[p].name = NoName
    BY <2>4 DEF TypeOK, NoPeer
  <2>7. UniqueAddrs' /\ UniqueNames'
    BY <2>6 DEF DbInv, UniqueAddrs, UniqueNames, Registered
  <2>8. Members(n)' = Members(n) \ {p} /\ p \in Members(n)
    BY <2>1, <2>6 DEF Members
  <2>9. \A m \in Net \ {n} : Members(m)' = Members(m)
    BY <2>1, <2>6 DEF Members
  <2>10. CountExact'
    <3>1. Cardinality(Members(n) \ {p}) = Cardinality(Members(n)) - 1
      BY <2>8, MembersFinite, FS_RemoveElement
    <3>2. Cardinality(Members(n) \ {p}) \in Nat
      BY MembersFinite, FS_RemoveElement, FS_CardinalityType
    <3>3. networks'[n].machineCount = Cardinality(Members(n)) - 1
      BY <2>1, <2>5, <3>1, <3>2, MembersFinite DEF Decrement, DbInv, CountExact
    <3>4. QED
      BY <2>5, <2>8, <2>9, <3>1, <3>3 DEF CountExact, DbInv
  <2>11. UncreatedEmpty'
    BY <2>1, <2>5 DEF UncreatedEmpty, DbInv, Decrement
  <2>12. QED
    BY <2>7, <2>10, <2>11 DEF DbInv
<1>7. ASSUME NEW c \in Caller, NEW skip \in SUBSET Peer, SweepStalePeers(c, skip)
      PROVE DbInv'
  <2> DEFINE removed == {p \in Peer \ skip : Stale(p)}
  <2>1. /\ peers' = [p \in Peer |-> IF p \in removed THEN NoPeer ELSE peers[p]]
        /\ networks' = [n \in Net |-> [networks[n] EXCEPT
             !.machineCount = Decrement(@, Cardinality(removed \cap Members(n)))]]
    BY <1>7 DEF SweepStalePeers
  <2> HIDE DEF removed
  <2>2. \A q \in Peer : \/ peers'[q] = peers[q] /\ q \notin removed
                        \/ /\ peers'[q].net = NoNet /\ peers'[q].name = NoName
                           /\ q \in removed
    BY <2>1 DEF NoPeer
  <2>3. UniqueAddrs' /\ UniqueNames'
    BY <2>2 DEF DbInv, UniqueAddrs, UniqueNames, Registered
  <2>4. ASSUME NEW n \in Net
        PROVE  networks'[n].machineCount = Cardinality(Members(n)')
    <3> DEFINE gone == removed \cap Members(n)
    <3>1. Members(n)' = Members(n) \ gone
      BY <2>2 DEF Members
    <3>2. gone \in SUBSET Members(n)
      OBVIOUS
    <3>3. IsFiniteSet(gone) /\ Cardinality(gone) \in Nat /\
          Cardinality(gone) <= Cardinality(Members(n))
      BY <3>2, MembersFinite, FS_Subset, FS_CardinalityType
    <3>4. Cardinality(Members(n) \ gone) = Cardinality(Members(n)) - Cardinality(gone)
      <4>1. Members(n) \cap gone = gone
        OBVIOUS
      <4>2. QED
        <5>1. IsFiniteSet(Members(n))
          BY MembersFinite
        <5>2. Cardinality(Members(n) \ gone) =
                Cardinality(Members(n)) - Cardinality(Members(n) \cap gone)
          BY <5>1, FS_Difference
        <5>3. QED
          BY <4>1, <5>2
    <3>5. networks'[n].machineCount = Decrement(networks[n].machineCount, Cardinality(gone))
      BY <2>1 DEF TypeOK, NetRec
    <3>6. networks[n].machineCount = Cardinality(Members(n))
      BY DEF DbInv, CountExact
    <3> HIDE DEF gone
    <3>7. QED
      BY <3>1, <3>3, <3>4, <3>5, <3>6, MembersFinite DEF Decrement
  <2>5. CountExact'
    BY <2>4 DEF CountExact
  <2>6. UncreatedEmpty'
    <3>1. SUFFICES ASSUME NEW n \in Net, ~networks'[n].created
                   PROVE  networks'[n].machineCount = 0
      BY DEF UncreatedEmpty
    <3>2. ~networks[n].created
      <4>1. networks'[n].created = networks[n].created
        BY <2>1 DEF TypeOK, NetRec
      <4>2. QED
        BY <3>1, <4>1
    <3>3. networks[n].machineCount = 0
      BY <3>2 DEF DbInv, UncreatedEmpty
    <3>4. Members(n) = {}
      BY <3>3, MembersFinite, FS_EmptySet DEF DbInv, CountExact
    <3>5. Members(n)' = {}
      BY <2>2, <3>4 DEF Members
    <3>6. QED
      BY <2>4, <3>5, FS_EmptySet
  <2>7. QED
    BY <2>3, <2>5, <2>6 DEF DbInv
<1>8. CASE UNCHANGED db
  BY <1>8, SameDb DEF db
<1>9. ASSUME NEW c \in Caller, RegisterPeer(c) PROVE DbInv'
  BY <1>2, <1>3, <1>8, <1>9 DEF RegisterPeer, RegisterReject, vars, db
<1>10. ASSUME NEW c \in Caller, SetEndpoint(c) \/ DropEndpoint(c) PROVE DbInv'
  BY <1>8, <1>10 DEF SetEndpoint, DropEndpoint
<1>11. CASE Restart \/ Tick \/ UNCHANGED vars
  BY <1>8, <1>11 DEF Restart, Tick, vars, db
<1>12. QED
  BY <1>1, <1>4, <1>5, <1>6, <1>7, <1>9, <1>10, <1>11 DEF Next

\* The conjunction is an invariant of the registry.
LEMMA DbCorrect == Spec => []DbInv
  BY InitDb, StepDb, TypeCorrect, PTL DEF Spec

\* No two peers of a network ever hold one VPN address.
THEOREM AddressesUnique == Spec => []UniqueAddrs
<1>1. DbInv => UniqueAddrs
  BY DEF DbInv
<1>2. QED
  BY <1>1, DbCorrect, PTL

\* The machine count the plan's limit is compared with is always exact.
THEOREM MachineCountExact == Spec => []CountExact
<1>1. DbInv => CountExact
  BY DEF DbInv
<1>2. QED
  BY <1>1, DbCorrect, PTL

\* A name, ignoring case, belongs to at most one peer of a network.
THEOREM NamesUnique == Spec => []UniqueNames
<1>1. DbInv => UniqueNames
  BY DEF DbInv
<1>2. QED
  BY <1>1, DbCorrect, PTL

\* Addresses and names are unique among the peers of a network.
THEOREM PeersUnique == Spec => []Unique
  BY AddressesUnique, NamesUnique, PTL DEF Unique
-----------------------------------------------------------------------------
(***************************************************************************)
(* What a step may do to one peer's record.                                *)
(***************************************************************************)
\* Only RegisterPeer's new-peer branch registers a peer; no step changes the
\* network, the address or the key of a peer that stays registered.
LEMMA PeerStep ==
  ASSUME TypeOK, [Next]_vars, NEW p \in Peer
  PROVE  /\ Joins(p) => \E c \in Caller, n \in Net, k \in Key,
                           nm \in Name \cup {NoName},
                           ep \in Endpoint \cup {NoEndpoint} :
                          RegisterNew(c, p, n, k, nm, ep)
         /\ Registered(p) /\ Registered(p)' =>
              /\ peers'[p].net = peers[p].net
              /\ peers'[p].addr = peers[p].addr
              /\ peers'[p].key = peers[p].key
<1> DEFINE Goal ==
      /\ Joins(p) => \E c \in Caller, n \in Net, k \in Key,
                        nm \in Name \cup {NoName},
                        ep \in Endpoint \cup {NoEndpoint} :
                       RegisterNew(c, p, n, k, nm, ep)
      /\ Registered(p) /\ Registered(p)' =>
           /\ peers'[p].net = peers[p].net
           /\ peers'[p].addr = peers[p].addr
           /\ peers'[p].key = peers[p].key
<1>0. SUFFICES Goal
  OBVIOUS
<1>1. CASE \/ peers'[p] = peers[p]
           \/ /\ peers'[p].net = peers[p].net
              /\ peers'[p].addr = peers[p].addr
              /\ peers'[p].key = peers[p].key
           \/ peers'[p].net = NoNet
  BY <1>1 DEF Joins, Registered
<1> HIDE DEF Goal
<1>2. ASSUME NEW q \in Peer, Touched(q) PROVE Goal
  BY <1>1, <1>2 DEF Touched, TypeOK, PeerRec
<1>3. ASSUME NEW c \in Caller, NEW q \in Peer, NEW n \in Net, NEW k \in Key,
             NEW nm \in Name \cup {NoName},
             NEW ep \in Endpoint \cup {NoEndpoint},
             ReRegister(c, q, n, k, nm, ep)
      PROVE Goal
  BY <1>1, <1>3 DEF ReRegister, TypeOK, PeerRec
<1>4. ASSUME NEW c \in Caller, NEW q \in Peer, NEW n \in Net, NEW k \in Key,
             NEW nm \in Name \cup {NoName},
             NEW ep \in Endpoint \cup {NoEndpoint},
             RegisterNew(c, q, n, k, nm, ep)
      PROVE Goal
  <2>1. CASE q = p
    <3>1. ~Registered(p)
      BY <1>4, <2>1 DEF RegisterNew
    <3>2. QED
      BY <1>4, <2>1, <3>1 DEF Goal
  <2>2. CASE q # p
    <3>1. peers'[p] = peers[p]
      BY <1>4, <2>2 DEF RegisterNew, TypeOK
    <3>2. QED
      BY <1>1, <3>1
  <2>3. QED
    BY <2>1, <2>2
<1>5. ASSUME NEW c \in Caller, NEW q \in Peer, RemovePeer(c, q) PROVE Goal
  BY <1>1, <1>5 DEF RemovePeer, TypeOK, NoPeer
<1>6. ASSUME NEW c \in Caller, NEW skip \in SUBSET Peer, SweepStalePeers(c, skip)
      PROVE Goal
  BY <1>1, <1>6 DEF SweepStalePeers, TypeOK, NoPeer
<1>7. CASE UNCHANGED peers
  BY <1>1, <1>7
<1>8. ASSUME NEW c \in Caller, RegisterPeer(c) PROVE Goal
  BY <1>3, <1>4, <1>7, <1>8 DEF RegisterPeer, RegisterReject, vars
<1>9. QED
  BY <1>2, <1>5, <1>6, <1>7, <1>8
  DEF Next, CreateNetwork, UpdateEndpoint, TouchPeer, SetEndpoint, DropEndpoint,
      Restart, Tick, vars, db

\* Re-registration never moves a peer or replaces the key its peers know.
THEOREM IdentityKept == Spec => IdentityStable
<1>1. TypeOK /\ [Next]_vars =>
        [\A p \in Peer : Registered(p) /\ Registered(p)' =>
           /\ peers'[p].net = peers[p].net
           /\ peers'[p].addr = peers[p].addr
           /\ peers'[p].key = peers[p].key]_vars
  BY PeerStep
<1>2. QED
  BY <1>1, TypeCorrect, PTL DEF Spec, IdentityStable
-----------------------------------------------------------------------------
(***************************************************************************)
(* The allocator.  HeldMarked ties the AssignedAddrs marks to the history  *)
(* of the addresses: once the map exists its keys are the addresses ever   *)
(* held, or all have been held; before, NextIP bounds them.                *)
(***************************************************************************)
HeldBefore(n, rec) ==
  \/ everHeld[n] = Host
  \/ rec.hasAddrs /\ everHeld[n] = {a \in Host : rec.assignedAddrs[a] # Never}
  \/ /\ ~rec.hasAddrs /\ InCIDR(rec.nextIP)
     /\ everHeld[n] = {a \in Host : a < rec.nextIP}

HeldMarked ==
  \A n \in Net : /\ Used(n) \subseteq everHeld[n]
                 /\ ~networks[n].created => everHeld[n] = {}
                 /\ HeldBefore(n, networks[n])

\* Migration keeps the correspondence.
LEMMA MigrateHeld ==
  ASSUME TypeOK, NEW n \in Net, HeldBefore(n, networks[n]),
         NEW used \in SUBSET everHeld[n]
  PROVE  \/ everHeld[n] = Host
         \/ everHeld[n] = {a \in Host :
              MigrateAssignedAddrs(networks[n], used).assignedAddrs[a] # Never}
<1>1. CASE networks[n].hasAddrs
  BY <1>1 DEF HeldBefore, MigrateAssignedAddrs
<1>2. CASE ~networks[n].hasAddrs /\ everHeld[n] # Host
  <2> DEFINE marks == MigrateAssignedAddrs(networks[n], used).assignedAddrs
  <2>1. InCIDR(networks[n].nextIP) /\ everHeld[n] = {a \in Host : a < networks[n].nextIP}
    BY <1>2 DEF HeldBefore
  <2>2. \A a \in Host : marks[a] = IF a \in used THEN Assigned
                                   ELSE IF a < networks[n].nextIP
                                   THEN FreedByMigration ELSE Never
    BY <1>2, <2>1 DEF MigrateAssignedAddrs, TypeOK, NetRec
  <2>3. \A a \in Host : marks[a] # Never <=> a < networks[n].nextIP
    BY <2>1, <2>2 DEF Assigned, FreedByMigration, Never
  <2>4. QED
    BY <2>1, <2>3
<1>3. QED
  BY <1>1, <1>2

\* It holds of a new database and, after migration, of an older one.
LEMMA InitHeld == Init => HeldMarked
<1> SUFFICES ASSUME Init PROVE HeldMarked
  OBVIOUS
<1>1. CASE InitNew
  <2>1. \A n \in Net : Members(n) = {}
    BY <1>1 DEF InitNew, NoPeer, Members
  <2>2. \A n \in Net : /\ networks[n] = NoNetwork
                       /\ everHeld[n] = {}
    BY <1>1 DEF InitNew
  <2>3. QED
    BY <2>1, <2>2 DEF HeldMarked, HeldBefore, Used, NoNetwork, Never
<1>2. CASE InitLegacy
  <2>1. PICK n \in Net, P \in SUBSET Peer, at \in [Peer -> Host], k \in Key,
             ip \in {Unparsed, Outside} \cup (Host \cup {NumHosts + 1}) :
          LegacyNetwork(n, P, at, k, ip)
    BY <1>2 DEF InitLegacy
  <2>2. \A p \in Peer : /\ p \in P => peers[p].net = n /\ peers[p].addr = at[p]
                        /\ p \notin P => peers[p].net = NoNet
    BY <2>1 DEF LegacyNetwork, NoPeer
  <2>3. \A m \in Net \ {n} : networks[m] = NoNetwork /\ everHeld[m] = {}
    BY <2>1 DEF LegacyNetwork
  <2>4. \A m \in Net \ {n} : Members(m) = {}
    BY <2>2 DEF Members
  <2>5. /\ networks[n].created /\ ~networks[n].hasAddrs /\ networks[n].nextIP = ip
        /\ everHeld[n] = IF InCIDR(ip) THEN {a \in Host : a < ip} ELSE Host
        /\ InCIDR(ip) => \A p \in P : at[p] < ip
    BY <2>1 DEF LegacyNetwork, NoNetwork
  <2>6. Used(n) \subseteq everHeld[n]
    BY <2>2, <2>5 DEF Used, Members
  <2>7. HeldBefore(n, networks[n])
    BY <2>5 DEF HeldBefore
  <2>8. QED
    BY <2>3, <2>4, <2>5, <2>6, <2>7 DEF HeldMarked, HeldBefore, Used, NoNetwork, Never
<1>3. QED
  BY <1>1, <1>2 DEF Init

\* Steps that leave everHeld and, for each network, the marks, NextIP and the
\* created flag alone, and add no address, keep HeldMarked.
LEMMA SameHeld ==
  ASSUME TypeOK, HeldMarked, UNCHANGED everHeld,
         \A n \in Net : /\ networks'[n].hasAddrs = networks[n].hasAddrs
                        /\ networks'[n].assignedAddrs = networks[n].assignedAddrs
                        /\ networks'[n].nextIP = networks[n].nextIP
                        /\ networks'[n].created = networks[n].created,
         \A q \in Peer : \/ peers'[q].net = NoNet
                         \/ /\ peers'[q].net = peers[q].net
                            /\ peers'[q].addr = peers[q].addr
  PROVE  HeldMarked'
<1> SUFFICES ASSUME NEW n \in Net
             PROVE  /\ Used(n)' \subseteq everHeld[n]
                    /\ ~networks'[n].created => everHeld[n] = {}
                    /\ HeldBefore(n, networks[n])'
  BY DEF HeldMarked
<1>1. Used(n)' \subseteq Used(n)
  BY DEF Used, Members
<1>2. HeldBefore(n, networks[n])'
  BY DEF HeldMarked, HeldBefore
<1>3. QED
  BY <1>1, <1>2 DEF HeldMarked

\* Every step keeps it: a mark is only ever set for an address that was held.
LEMMA StepHeld == TypeOK /\ HeldMarked /\ [Next]_vars => HeldMarked'
<1> SUFFICES ASSUME TypeOK, HeldMarked, [Next]_vars PROVE HeldMarked'
  OBVIOUS
<1>1. ASSUME NEW n \in Net, CreateNetwork(n) PROVE HeldMarked'
  <2>1. /\ peers' = peers /\ everHeld' = everHeld
        /\ \A m \in Net \ {n} : networks'[m] = networks[m]
        /\ networks'[n].created /\ networks'[n].hasAddrs
        /\ networks'[n].assignedAddrs = [a \in Host |-> Never]
        /\ ~networks[n].created
    BY <1>1 DEF CreateNetwork, NoNetwork, TypeOK, history
  <2>2. everHeld[n] = {}
    BY <2>1 DEF HeldMarked
  <2>3. \A m \in Net : Used(m)' = Used(m)
    BY <2>1 DEF Used, Members
  <2>4. HeldBefore(n, networks[n])'
    BY <2>1, <2>2 DEF HeldBefore
  <2>5. \A m \in Net \ {n} : HeldBefore(m, networks[m])'
    BY <2>1 DEF HeldBefore, HeldMarked
  <2>6. QED
    BY <2>1, <2>2, <2>3, <2>4, <2>5 DEF HeldMarked
<1>2. ASSUME NEW c \in Caller, NEW p \in Peer, NEW n \in Net, NEW k \in Key,
             NEW nm \in Name \cup {NoName},
             NEW ep \in Endpoint \cup {NoEndpoint},
             ReRegister(c, p, n, k, nm, ep)
      PROVE HeldMarked'
  BY <1>2, SameHeld DEF ReRegister, TypeOK, PeerRec
<1>3. ASSUME NEW c \in Caller, NEW p \in Peer, NEW n \in Net, NEW k \in Key,
             NEW nm \in Name \cup {NoName},
             NEW ep \in Endpoint \cup {NoEndpoint},
             RegisterNew(c, p, n, k, nm, ep)
      PROVE HeldMarked'
  <2> DEFINE rec == MigrateAssignedAddrs(networks[n], Used(n))
  <2>1. rec \in NetRec /\ rec.hasAddrs /\ rec.created = networks[n].created
    BY MigrateType DEF TypeOK
  <2>2. \/ everHeld[n] = Host
        \/ everHeld[n] = {a \in Host : rec.assignedAddrs[a] # Never}
    <3>1. HeldBefore(n, networks[n]) /\ Used(n) \in SUBSET everHeld[n]
      BY DEF HeldMarked
    <3>2. QED
      BY <3>1, MigrateHeld
  <2>3. PICK a \in Host :
         /\ networks' = [networks EXCEPT ![n] =
              [rec EXCEPT !.assignedAddrs[a] = Assigned,
                          !.nextIP = AdvanceNextIP(@, a),
                          !.machineCount = @ + 1]]
         /\ peers' = [peers EXCEPT ![p] =
              [net |-> n, name |-> StoredName(n, p, nm), addr |-> a, key |-> k,
               lastSeen |-> RoundToHour(now), registeredAt |-> now]]
         /\ everHeld' = [everHeld EXCEPT ![n] = @ \cup {a}]
    BY <1>3 DEF RegisterNew
  <2> HIDE DEF rec
  <2>4. /\ networks'[n].hasAddrs
        /\ networks'[n].assignedAddrs = [rec.assignedAddrs EXCEPT ![a] = Assigned]
        /\ networks'[n].created = networks[n].created
        /\ \A m \in Net \ {n} : networks'[m] = networks[m] /\ everHeld'[m] = everHeld[m]
        /\ everHeld'[n] = everHeld[n] \cup {a}
    BY <2>1, <2>3 DEF TypeOK, NetRec
  <2>5. networks[n].created
    BY <1>3 DEF RegisterNew
  <2>6. \A m \in Net : Used(m)' \subseteq everHeld'[m]
    <3>1. ASSUME NEW m \in Net, NEW q \in Peer, peers'[q].net = m
          PROVE  peers'[q].addr \in everHeld'[m]
      <4>1. CASE q = p
        BY <2>3, <2>4, <3>1, <4>1 DEF TypeOK
      <4>2. CASE q # p
        <5>1. peers'[q] = peers[q]
          BY <2>3, <4>2 DEF TypeOK
        <5>2. peers[q].addr \in everHeld[m]
          BY <3>1, <5>1 DEF HeldMarked, Used, Members
        <5>3. QED
          BY <2>4, <5>1, <5>2
      <4>3. QED
        BY <4>1, <4>2
    <3>2. QED
      BY <3>1 DEF Used, Members
  <2>7. HeldBefore(n, networks[n])'
    <3>1. rec.assignedAddrs \in [Host -> Int]
      BY <2>1 DEF NetRec
    <3>2. CASE everHeld[n] = Host
      BY <2>4, <3>2 DEF HeldBefore
    <3>3. CASE everHeld[n] = {b \in Host : rec.assignedAddrs[b] # Never}
      <4>1. everHeld'[n] = {b \in Host : networks'[n].assignedAddrs[b] # Never}
        BY <2>4, <3>1, <3>3 DEF Assigned, Never
      <4>2. QED
        BY <2>4, <4>1 DEF HeldBefore
    <3>4. QED
      BY <2>2, <3>2, <3>3
  <2>8. \A m \in Net \ {n} : HeldBefore(m, networks[m])'
    BY <2>4 DEF HeldBefore, HeldMarked
  <2>9. QED
    BY <2>4, <2>5, <2>6, <2>7, <2>8 DEF HeldMarked
<1>4. ASSUME NEW c \in Caller, NEW p \in Peer,
             NEW ep \in Endpoint \cup {NoEndpoint}, UpdateEndpoint(c, p, ep)
      PROVE HeldMarked'
  BY <1>4, SameHeld DEF UpdateEndpoint, Touched, TypeOK, PeerRec
<1>5. ASSUME NEW p \in Peer, TouchPeer(p) PROVE HeldMarked'
  BY <1>5, SameHeld DEF TouchPeer, Touched, TypeOK, PeerRec
<1>6. ASSUME NEW c \in Caller, NEW p \in Peer, RemovePeer(c, p) PROVE HeldMarked'
  <2>1. PICK n \in Net : n = peers[p].net
    BY <1>6 DEF RemovePeer, Registered, TypeOK, PeerRec
  <2>2. PICK a \in Nat : a = peers[p].addr
    BY DEF TypeOK, PeerRec
  <2>3. a \in everHeld[n] /\ a \in Host
    BY <2>1, <2>2 DEF HeldMarked, Used, Members, TypeOK
  <2> DEFINE rec == MigrateAssignedAddrs(networks[n], Used(n) \ {a})
  <2>4. rec \in NetRec /\ rec.hasAddrs /\ rec.created = networks[n].created
    BY MigrateType DEF TypeOK
  <2>5. \/ everHeld[n] = Host
        \/ everHeld[n] = {b \in Host : rec.assignedAddrs[b] # Never}
    <3>1. HeldBefore(n, networks[n]) /\ (Used(n) \ {a}) \in SUBSET everHeld[n]
      BY DEF HeldMarked
    <3>2. QED
      BY <3>1, MigrateHeld
  <2>6. /\ networks' = [networks EXCEPT ![n] =
             [rec EXCEPT !.machineCount = Decrement(@, 1),
                         !.assignedAddrs[a] = now]]
        /\ peers' = [peers EXCEPT ![p] = NoPeer]
        /\ everHeld' = everHeld
    BY <1>6, <2>1, <2>2 DEF RemovePeer
  <2> HIDE DEF rec
  <2>7. /\ networks'[n].hasAddrs
        /\ networks'[n].assignedAddrs = [rec.assignedAddrs EXCEPT ![a] = now]
        /\ networks'[n].created = networks[n].created
        /\ \A m \in Net \ {n} : networks'[m] = networks[m]
    BY <2>4, <2>6 DEF TypeOK, NetRec
  <2>8. \A m \in Net : Used(m)' \subseteq Used(m)
    BY <2>6 DEF Used, Members, TypeOK, NoPeer
  <2>9. HeldBefore(n, networks[n])'
    <3>1. rec.assignedAddrs \in [Host -> Int] /\ now # Never
      BY <2>4 DEF NetRec, TypeOK, Never
    <3>2. CASE everHeld[n] = Host
      BY <2>6, <3>2 DEF HeldBefore
    <3>3. CASE everHeld[n] = {b \in Host : rec.assignedAddrs[b] # Never}
      <4>1. everHeld[n] = {b \in Host : networks'[n].assignedAddrs[b] # Never}
        BY <2>3, <2>7, <3>1, <3>3
      <4>2. QED
        BY <2>6, <2>7, <4>1 DEF HeldBefore
    <3>4. QED
      BY <2>5, <3>2, <3>3
  <2>10. \A m \in Net \ {n} : HeldBefore(m, networks[m])'
    BY <2>6, <2>7 DEF HeldBefore, HeldMarked
  <2>11. QED
    BY <2>6, <2>7, <2>8, <2>9, <2>10 DEF HeldMarked
<1>7. ASSUME NEW c \in Caller, NEW skip \in SUBSET Peer, SweepStalePeers(c, skip)
      PROVE HeldMarked'
  <2>1. /\ UNCHANGED everHeld
        /\ \A n \in Net : /\ networks'[n].hasAddrs = networks[n].hasAddrs
                          /\ networks'[n].assignedAddrs = networks[n].assignedAddrs
                          /\ networks'[n].nextIP = networks[n].nextIP
                          /\ networks'[n].created = networks[n].created
    BY <1>7 DEF SweepStalePeers, TypeOK, NetRec, history
  <2>2. \A q \in Peer : \/ peers'[q].net = NoNet
                        \/ /\ peers'[q].net = peers[q].net
                           /\ peers'[q].addr = peers[q].addr
    BY <1>7 DEF SweepStalePeers, NoPeer
  <2>3. QED
    BY <2>1, <2>2, SameHeld
<1>8. CASE UNCHANGED <<peers, networks, everHeld>>
  BY <1>8, SameHeld
<1>9. ASSUME NEW c \in Caller, RegisterPeer(c) PROVE HeldMarked'
  BY <1>2, <1>3, <1>8, <1>9 DEF RegisterPeer, RegisterReject, vars
<1>10. ASSUME NEW c \in Caller, SetEndpoint(c) \/ DropEndpoint(c) PROVE HeldMarked'
  BY <1>8, <1>10 DEF SetEndpoint, DropEndpoint, db, history
<1>11. CASE Restart \/ Tick \/ UNCHANGED vars
  BY <1>8, <1>11 DEF Restart, Tick, vars, db, history
<1>12. QED
  BY <1>1, <1>4, <1>5, <1>6, <1>7, <1>9, <1>10, <1>11 DEF Next

\* The marks always tell which addresses were held.
LEMMA HeldCorrect == Spec => []HeldMarked
  BY InitHeld, StepHeld, TypeCorrect, PTL DEF Spec

\* A newcomer gets an address that was held before only when all were, across
\* removals, sweeps, restarts and the migration of an older database.
THEOREM FreshAddressesFirst == Spec => [][FreshBeforeReuse]_vars
<1>1. ASSUME TypeOK, HeldMarked, [Next]_vars, NEW p \in Peer, Joins(p)
      PROVE  peers'[p].addr \in everHeld[peers'[p].net] => everHeld[peers'[p].net] = Host
  <2>1. PICK c \in Caller, n \in Net, k \in Key, nm \in Name \cup {NoName},
             ep \in Endpoint \cup {NoEndpoint} : RegisterNew(c, p, n, k, nm, ep)
    BY <1>1, PeerStep
  <2> DEFINE marks == MigrateAssignedAddrs(networks[n], Used(n)).assignedAddrs
  <2>2. PICK a \in Host : /\ Selects(a, marks, Used(n))
                          /\ peers'[p].net = n /\ peers'[p].addr = a
    BY <1>1, <2>1 DEF RegisterNew, TypeOK
  <2>3. \/ everHeld[n] = Host
        \/ everHeld[n] = {b \in Host : marks[b] # Never}
    <3>1. HeldBefore(n, networks[n]) /\ Used(n) \in SUBSET everHeld[n]
      BY <1>1 DEF HeldMarked
    <3>2. QED
      BY <1>1, <3>1, MigrateHeld
  <2>4. Used(n) \subseteq everHeld[n] /\ everHeld[n] \subseteq Host
    BY <1>1 DEF HeldMarked, TypeOK
  <2> HIDE DEF marks
  <2>5. CASE everHeld[n] = {b \in Host : marks[b] # Never} /\ a \in everHeld[n]
    <3>1. NeverUsed(marks, Used(n)) = {}
      BY <2>2, <2>5 DEF Selects, NeverUsed
    <3>2. \A b \in Host : b \in everHeld[n]
      BY <2>4, <2>5, <3>1 DEF NeverUsed
    <3>3. QED
      BY <2>2, <2>4, <3>2
  <2>6. QED
    BY <2>2, <2>3, <2>5
<1>2. TypeOK /\ HeldMarked /\ [Next]_vars => [FreshBeforeReuse]_vars
  BY <1>1 DEF FreshBeforeReuse
<1>3. QED
  BY <1>2, TypeCorrect, HeldCorrect, PTL DEF Spec
-----------------------------------------------------------------------------
(***************************************************************************)
(* Reuse order.  An address RemovePeer freed and nobody was given since    *)
(* carries the time of its release as its mark.                            *)
(***************************************************************************)
FreedMarked ==
  \A n \in Net, b \in Host : leftAt[n][b] > 0 =>
    /\ b \notin Used(n)
    /\ networks[n].created /\ networks[n].hasAddrs
    /\ networks[n].assignedAddrs[b] = leftAt[n][b]

\* Steps that free or assign no address by RegisterPeer or RemovePeer.
LEMMA SameFreed ==
  ASSUME TypeOK, FreedMarked, UNCHANGED leftAt,
         \A n \in Net : networks[n].created =>
                        /\ networks'[n].hasAddrs = networks[n].hasAddrs
                        /\ networks'[n].assignedAddrs = networks[n].assignedAddrs
                        /\ networks'[n].created = networks[n].created,
         \A q \in Peer : \/ peers'[q].net = NoNet
                         \/ /\ peers'[q].net = peers[q].net
                            /\ peers'[q].addr = peers[q].addr
  PROVE  FreedMarked'
<1>1. \A n \in Net : Used(n)' \subseteq Used(n)
  BY DEF Used, Members
<1>2. QED
  BY <1>1 DEF FreedMarked

\* RegisterPeer and RemovePeer keep the marks and leftAt in step.
LEMMA StepFreed == TypeOK /\ DbInv /\ FreedMarked /\ [Next]_vars => FreedMarked'
<1> SUFFICES ASSUME TypeOK, DbInv, FreedMarked, [Next]_vars PROVE FreedMarked'
  OBVIOUS
<1>1. ASSUME NEW n \in Net, CreateNetwork(n) PROVE FreedMarked'
  BY <1>1, SameFreed DEF CreateNetwork, history, TypeOK
<1>2. ASSUME NEW c \in Caller, NEW p \in Peer, NEW n \in Net, NEW k \in Key,
             NEW nm \in Name \cup {NoName},
             NEW ep \in Endpoint \cup {NoEndpoint},
             ReRegister(c, p, n, k, nm, ep)
      PROVE FreedMarked'
  BY <1>2, SameFreed DEF ReRegister, TypeOK, PeerRec
<1>3. ASSUME NEW c \in Caller, NEW p \in Peer, NEW n \in Net, NEW k \in Key,
             NEW nm \in Name \cup {NoName},
             NEW ep \in Endpoint \cup {NoEndpoint},
             RegisterNew(c, p, n, k, nm, ep)
      PROVE FreedMarked'
  <2> DEFINE rec == MigrateAssignedAddrs(networks[n], Used(n))
  <2>1. /\ rec \in NetRec /\ rec.hasAddrs /\ rec.created = networks[n].created
        /\ networks[n].hasAddrs => rec = networks[n]
    <3>1. rec \in NetRec /\ rec.hasAddrs /\ rec.created = networks[n].created
      BY MigrateType DEF TypeOK
    <3>2. networks[n].hasAddrs => rec = networks[n]
      BY DEF MigrateAssignedAddrs
    <3>3. QED
      BY <3>1, <3>2
  <2>2. PICK a \in Host :
         /\ networks' = [networks EXCEPT ![n] =
              [rec EXCEPT !.assignedAddrs[a] = Assigned,
                          !.nextIP = AdvanceNextIP(@, a),
                          !.machineCount = @ + 1]]
         /\ peers' = [peers EXCEPT ![p] =
              [net |-> n, name |-> StoredName(n, p, nm), addr |-> a, key |-> k,
               lastSeen |-> RoundToHour(now), registeredAt |-> now]]
         /\ leftAt' = [leftAt EXCEPT ![n][a] = 0]
    BY <1>3 DEF RegisterNew
  <2> HIDE DEF rec
  <2>3. /\ networks'[n].hasAddrs
        /\ networks'[n].assignedAddrs = [rec.assignedAddrs EXCEPT ![a] = Assigned]
        /\ networks'[n].created = networks[n].created
        /\ \A m \in Net \ {n} : networks'[m] = networks[m] /\ leftAt'[m] = leftAt[m]
        /\ leftAt'[n] = [leftAt[n] EXCEPT ![a] = 0]
    BY <2>1, <2>2 DEF TypeOK, NetRec
  <2>4. /\ peers'[p].net = n /\ peers'[p].addr = a
        /\ \A q \in Peer \ {p} : peers'[q] = peers[q]
    BY <2>2 DEF TypeOK
  <2>5. \A m \in Net : Used(m)' \subseteq (Used(m) \cup (IF m = n THEN {a} ELSE {}))
    BY <2>4 DEF Used, Members
  <2>6. SUFFICES ASSUME NEW m \in Net, NEW b \in Host, leftAt'[m][b] > 0
                 PROVE  /\ b \notin Used(m)'
                        /\ networks'[m].created /\ networks'[m].hasAddrs
                        /\ networks'[m].assignedAddrs[b] = leftAt'[m][b]
    BY DEF FreedMarked
  <2>7. CASE m # n
    BY <2>3, <2>5, <2>6, <2>7 DEF FreedMarked
  <2>8. CASE m = n
    <3>1. b # a /\ leftAt[n][b] > 0 /\ leftAt'[n][b] = leftAt[n][b]
      BY <2>3, <2>6, <2>8 DEF TypeOK
    <3>2. /\ b \notin Used(n) /\ networks[n].created /\ networks[n].hasAddrs
          /\ networks[n].assignedAddrs[b] = leftAt[n][b]
      BY <3>1 DEF FreedMarked
    <3>3. rec.assignedAddrs \in [Host -> Int] /\ rec.assignedAddrs[b] = leftAt[n][b]
      BY <2>1, <3>2 DEF NetRec
    <3>4. networks'[n].assignedAddrs[b] = leftAt'[n][b]
      BY <2>3, <3>1, <3>3
    <3>5. b \notin Used(n)'
      BY <2>5, <3>1, <3>2
    <3>6. QED
      BY <2>3, <2>8, <3>2, <3>4, <3>5
  <2>9. QED
    BY <2>7, <2>8
<1>4. ASSUME NEW c \in Caller, NEW p \in Peer,
             NEW ep \in Endpoint \cup {NoEndpoint}, UpdateEndpoint(c, p, ep)
      PROVE FreedMarked'
  BY <1>4, SameFreed DEF UpdateEndpoint, Touched, TypeOK, PeerRec
<1>5. ASSUME NEW p \in Peer, TouchPeer(p) PROVE FreedMarked'
  BY <1>5, SameFreed DEF TouchPeer, Touched, TypeOK, PeerRec
<1>6. ASSUME NEW c \in Caller, NEW p \in Peer, RemovePeer(c, p) PROVE FreedMarked'
  <2>1. PICK n \in Net : n = peers[p].net
    BY <1>6 DEF RemovePeer, Registered, TypeOK, PeerRec
  <2>2. PICK a \in Host : a = peers[p].addr
    BY <1>6 DEF RemovePeer, DbInv, UniqueAddrs
  <2> DEFINE rec == MigrateAssignedAddrs(networks[n], Used(n) \ {a})
  <2>3. /\ rec \in NetRec /\ rec.hasAddrs /\ rec.created = networks[n].created
        /\ networks[n].hasAddrs => rec = networks[n]
    <3>1. rec \in NetRec /\ rec.hasAddrs /\ rec.created = networks[n].created
      BY MigrateType DEF TypeOK
    <3>2. networks[n].hasAddrs => rec = networks[n]
      BY DEF MigrateAssignedAddrs
    <3>3. QED
      BY <3>1, <3>2
  <2>4. /\ networks' = [networks EXCEPT ![n] =
             [rec EXCEPT !.machineCount = Decrement(@, 1),
                         !.assignedAddrs[a] = now]]
        /\ peers' = [peers EXCEPT ![p] = NoPeer]
        /\ leftAt' = [leftAt EXCEPT ![n][a] = now]
    BY <1>6, <2>1, <2>2 DEF RemovePeer
  <2> HIDE DEF rec
  <2>5. /\ networks'[n].hasAddrs
        /\ networks'[n].assignedAddrs = [rec.assignedAddrs EXCEPT ![a] = now]
        /\ networks'[n].created = networks[n].created
        /\ \A m \in Net \ {n} : networks'[m] = networks[m] /\ leftAt'[m] = leftAt[m]
        /\ leftAt'[n] = [leftAt[n] EXCEPT ![a] = now]
    BY <2>3, <2>4 DEF TypeOK, NetRec
  <2>6. /\ peers'[p].net = NoNet
        /\ \A q \in Peer \ {p} : peers'[q] = peers[q]
    BY <2>4 DEF TypeOK, NoPeer
  <2>7. \A m \in Net : Used(m)' \subseteq Used(m)
    BY <2>6 DEF Used, Members
  <2>8. a \notin Used(n)'
    <3>1. ASSUME NEW q \in Peer, peers'[q].net = n, peers'[q].addr = a
          PROVE FALSE
      <4>1. q # p
        BY <2>6, <3>1
      <4>2. peers[q].net = n /\ peers[q].addr = a
        BY <2>6, <3>1, <4>1
      <4>3. Registered(p)
        BY <2>1 DEF Registered
      <4>4. QED
        BY <2>1, <2>2, <4>1, <4>2, <4>3 DEF DbInv, UniqueAddrs
    <3>2. QED
      BY <3>1 DEF Used, Members
  <2>9. networks[n].created
    <3>1. p \in Members(n)
      BY <2>1 DEF Members
    <3>2. Cardinality(Members(n)) # 0
      BY <3>1, MembersFinite, FS_EmptySet
    <3>3. QED
      BY <3>2 DEF DbInv, CountExact, UncreatedEmpty
  <2>10. SUFFICES ASSUME NEW m \in Net, NEW b \in Host, leftAt'[m][b] > 0
                  PROVE  /\ b \notin Used(m)'
                         /\ networks'[m].created /\ networks'[m].hasAddrs
                         /\ networks'[m].assignedAddrs[b] = leftAt'[m][b]
    BY DEF FreedMarked
  <2>11. CASE m # n
    BY <2>5, <2>7, <2>10, <2>11 DEF FreedMarked
  <2>12. CASE m = n /\ b # a
    <3>1. leftAt[n][b] > 0 /\ leftAt'[n][b] = leftAt[n][b]
      BY <2>5, <2>10, <2>12 DEF TypeOK
    <3>2. /\ b \notin Used(n) /\ networks[n].created /\ networks[n].hasAddrs
          /\ networks[n].assignedAddrs[b] = leftAt[n][b]
      BY <3>1 DEF FreedMarked
    <3>3. rec.assignedAddrs \in [Host -> Int] /\ rec.assignedAddrs[b] = leftAt[n][b]
      BY <2>3, <3>2 DEF NetRec
    <3>4. networks'[n].assignedAddrs[b] = leftAt'[n][b]
      BY <2>5, <2>12, <3>1, <3>3
    <3>5. QED
      BY <2>5, <2>7, <2>12, <3>2, <3>4
  <2>13. CASE m = n /\ b = a
    <3>1. rec.assignedAddrs \in [Host -> Int] /\ leftAt[n] \in [Host -> Nat]
      BY <2>3 DEF NetRec, TypeOK
    <3>2. networks'[n].assignedAddrs[a] = now /\ leftAt'[n][a] = now
      BY <2>5, <3>1
    <3>3. QED
      BY <2>5, <2>8, <2>9, <2>13, <3>2
  <2>14. QED
    BY <2>11, <2>12, <2>13
<1>7. ASSUME NEW c \in Caller, NEW skip \in SUBSET Peer, SweepStalePeers(c, skip)
      PROVE FreedMarked'
  <2>1. /\ UNCHANGED leftAt
        /\ \A n \in Net : /\ networks'[n].hasAddrs = networks[n].hasAddrs
                          /\ networks'[n].assignedAddrs = networks[n].assignedAddrs
                          /\ networks'[n].created = networks[n].created
    BY <1>7 DEF SweepStalePeers, TypeOK, NetRec, history
  <2>2. \A q \in Peer : \/ peers'[q].net = NoNet
                        \/ /\ peers'[q].net = peers[q].net
                           /\ peers'[q].addr = peers[q].addr
    BY <1>7 DEF SweepStalePeers, NoPeer
  <2>3. QED
    BY <2>1, <2>2, SameFreed
<1>8. CASE UNCHANGED <<peers, networks, leftAt>>
  BY <1>8, SameFreed
<1>9. ASSUME NEW c \in Caller, RegisterPeer(c) PROVE FreedMarked'
  BY <1>2, <1>3, <1>8, <1>9 DEF RegisterPeer, RegisterReject, vars
<1>10. ASSUME NEW c \in Caller, SetEndpoint(c) \/ DropEndpoint(c) PROVE FreedMarked'
  BY <1>8, <1>10 DEF SetEndpoint, DropEndpoint, db, history
<1>11. CASE Restart \/ Tick \/ UNCHANGED vars
  BY <1>8, <1>11 DEF Restart, Tick, vars, db, history
<1>12. QED
  BY <1>1, <1>4, <1>5, <1>6, <1>7, <1>9, <1>10, <1>11 DEF Next

\* The mark of every address RemovePeer freed is always its time of freeing.
LEMMA FreedCorrect == Spec => []FreedMarked
<1>1. Init => FreedMarked
  BY DEF Init, InitMemory, FreedMarked
<1>2. QED
  BY <1>1, StepFreed, TypeCorrect, DbCorrect, PTL DEF Spec

\* Among the addresses that departed peers left, the one left first is reused
\* first.
THEOREM LongestFreeReusedFirst == Spec => [][OldestFreedFirst]_vars
<1>1. ASSUME TypeOK, FreedMarked, [Next]_vars, NEW p \in Peer, Joins(p),
             NEW b \in Host, leftAt[peers'[p].net][b] > 0
      PROVE  leftAt[peers'[p].net][peers'[p].addr] <= leftAt[peers'[p].net][b]
  <2>1. PICK c \in Caller, n \in Net, k \in Key, nm \in Name \cup {NoName},
             ep \in Endpoint \cup {NoEndpoint} : RegisterNew(c, p, n, k, nm, ep)
    BY <1>1, PeerStep
  <2> DEFINE marks == MigrateAssignedAddrs(networks[n], Used(n)).assignedAddrs
  <2>2. PICK a \in Host : /\ Selects(a, marks, Used(n))
                          /\ peers'[p].net = n /\ peers'[p].addr = a
    BY <1>1, <2>1 DEF RegisterNew, TypeOK
  <2>3. \A d \in Host : leftAt[n][d] \in Nat
    BY <1>1 DEF TypeOK
  <2>4. \A d \in Host : leftAt[n][d] > 0 => d \notin Used(n) /\ marks[d] = leftAt[n][d]
    BY <1>1 DEF FreedMarked, MigrateAssignedAddrs
  <2> HIDE DEF marks
  <2>5. b \in Freed(marks, Used(n))
    BY <1>1, <2>2, <2>4 DEF Freed
  <2>6. CASE leftAt[n][a] = 0
    BY <2>2, <2>3, <2>6
  <2>7. CASE leftAt[n][a] > 0
    <3>1. marks[a] = leftAt[n][a] /\ marks[b] = leftAt[n][b]
      BY <1>1, <2>2, <2>4, <2>7
    <3>2. a \notin NeverUsed(marks, Used(n))
      BY <2>7, <3>1 DEF NeverUsed, Never
    <3>3. marks[a] < marks[b] \/ marks[a] = marks[b]
      BY <2>2, <2>5, <3>2 DEF Selects
    <3>4. QED
      BY <2>2, <2>3, <3>1, <3>3
  <2>8. QED
    BY <2>3, <2>6, <2>7
<1>2. TypeOK /\ FreedMarked /\ [Next]_vars => [OldestFreedFirst]_vars
  BY <1>1 DEF OldestFreedFirst
<1>3. QED
  BY <1>2, TypeCorrect, FreedCorrect, PTL DEF Spec

\* An address that a peer gave back by leaving is never lost: while it is free,
\* registrations do not fail for want of an address.
THEOREM LeftAddressesReusable == Spec => []LeftReusable
<1>1. ASSUME TypeOK, FreedMarked, NEW n \in Net, NEW a \in Host, leftAt[n][a] > 0
      PROVE  ~Exhausted(Marks(n), Used(n))
  <2>1. a \notin Used(n) /\ Marks(n)[a] > 0
    BY <1>1 DEF FreedMarked, Marks, MigrateAssignedAddrs
  <2>2. a \in Freed(Marks(n), Used(n))
    BY <2>1 DEF Freed
  <2>3. QED
    BY <2>2 DEF Exhausted
<1>2. TypeOK /\ FreedMarked => LeftReusable
  <2>1. ASSUME TypeOK PROVE \A n \in Net, a \in Host : leftAt[n][a] > 0 \/ leftAt[n][a] = 0
    BY <2>1 DEF TypeOK
  <2>2. QED
    BY <1>1, <2>1 DEF LeftReusable
<1>3. QED
  BY <1>2, TypeCorrect, FreedCorrect, PTL
-----------------------------------------------------------------------------
(***************************************************************************)
(* The plan's limit and the sweep.                                         *)
(***************************************************************************)
\* The count RegisterPeer compares with the limit is exact, so the network it
\* admits a newcomer to has at most MaxMachines peers afterwards.
THEOREM MachineLimitKept == Spec => [][LimitKept]_vars
<1>1. ASSUME TypeOK, DbInv, [Next]_vars, NEW p \in Peer, Joins(p), MaxMachines > 0
      PROVE  Cardinality({q \in Peer : peers'[q].net = peers'[p].net}) <= MaxMachines
  <2>1. PICK c \in Caller, n \in Net, k \in Key, nm \in Name \cup {NoName},
             ep \in Endpoint \cup {NoEndpoint} : RegisterNew(c, p, n, k, nm, ep)
    BY <1>1, PeerStep
  <2>2. /\ peers'[p].net = n
        /\ \A q \in Peer \ {p} : peers'[q] = peers[q]
        /\ p \notin Members(n)
        /\ ~AtLimit(n)
    BY <1>1, <2>1 DEF RegisterNew, TypeOK, Registered, Members
  <2>3. {q \in Peer : peers'[q].net = peers'[p].net} = Members(n) \cup {p}
    BY <2>2 DEF Members
  <2>4. Cardinality(Members(n) \cup {p}) = Cardinality(Members(n)) + 1
    BY <2>2, MembersFinite, FS_AddElement
  <2>5. Cardinality(Members(n)) < MaxMachines
    BY <1>1, <2>2, MembersFinite DEF AtLimit, DbInv, CountExact
  <2>6. Cardinality({q \in Peer : peers'[q].net = peers'[p].net}) =
          Cardinality(Members(n)) + 1
    BY <2>3, <2>4
  <2>7. Cardinality(Members(n)) \in Nat
    BY MembersFinite
  <2>8. QED
    BY <2>5, <2>6, <2>7
<1>2. TypeOK /\ DbInv /\ [Next]_vars => [LimitKept]_vars
  BY <1>1 DEF LimitKept
<1>3. QED
  BY <1>2, TypeCorrect, DbCorrect, PTL DEF Spec

\* What RegisterPeer promises about a newcomer, in one statement.
THEOREM NewcomersPlaced == Spec => NewcomerPlaced
  BY MachineLimitKept, FreshAddressesFirst, LongestFreeReusedFirst, PTL DEF NewcomerPlaced

\* What the sweep ages a peer by is at most an hour less one unit older than
\* the time the peer was last heard of.
SeenInv == \A p \in Peer : Registered(p) => AgedBy(p) >= seenAt[p] - (Gran - 1)

\* A step that leaves the records of the peers that stay registered alone.
LEMMA SameSeen ==
  ASSUME SeenInv, UNCHANGED seenAt,
         \A q \in Peer : peers'[q] = peers[q] \/ peers'[q].net = NoNet
  PROVE  SeenInv'
  BY DEF SeenInv, Registered, AgedBy

\* A step that hears from p now, whatever else of p's record it changes.
LEMMA TouchSeen ==
  ASSUME TypeOK, SeenInv, NEW p \in Peer,
         peers'[p].lastSeen = RoundToHour(now),
         seenAt' = [seenAt EXCEPT ![p] = now],
         \A q \in Peer \ {p} : peers'[q] = peers[q]
  PROVE  SeenInv'
<1>1. /\ RoundToHour(now) \in Nat /\ RoundToHour(now) > 0
      /\ RoundToHour(now) >= now - (Gran - 1)
  BY RoundLemma DEF TypeOK
<1>2. SUFFICES ASSUME NEW q \in Peer, Registered(q)'
               PROVE  AgedBy(q)' >= seenAt'[q] - (Gran - 1)
  BY DEF SeenInv
<1>3. CASE q = p
  BY <1>1, <1>3 DEF AgedBy, TypeOK
<1>4. CASE q # p
  BY <1>2, <1>4 DEF SeenInv, Registered, AgedBy, TypeOK
<1>5. QED
  BY <1>3, <1>4

\* Only heartbeats and registrations renew a peer, and both record the time.
LEMMA StepSeen == TypeOK /\ SeenInv /\ [Next]_vars => SeenInv'
<1> SUFFICES ASSUME TypeOK, SeenInv, [Next]_vars PROVE SeenInv'
  OBVIOUS
<1>1. ASSUME NEW c \in Caller, NEW p \in Peer, NEW n \in Net, NEW k \in Key,
             NEW nm \in Name \cup {NoName},
             NEW ep \in Endpoint \cup {NoEndpoint},
             ReRegister(c, p, n, k, nm, ep) \/ RegisterNew(c, p, n, k, nm, ep)
      PROVE SeenInv'
  <2>1. /\ peers'[p].lastSeen = RoundToHour(now)
        /\ seenAt' = [seenAt EXCEPT ![p] = now]
        /\ \A q \in Peer \ {p} : peers'[q] = peers[q]
    <3>1. CASE ReRegister(c, p, n, k, nm, ep)
      BY <3>1 DEF ReRegister, TypeOK, PeerRec
    <3>2. CASE RegisterNew(c, p, n, k, nm, ep)
      BY <3>2 DEF RegisterNew, TypeOK
    <3>3. QED
      BY <1>1, <3>1, <3>2
  <2>2. QED
    BY <2>1, TouchSeen
<1>2. ASSUME NEW p \in Peer, Touched(p) PROVE SeenInv'
  <2>1. /\ peers'[p].lastSeen = RoundToHour(now)
        /\ seenAt' = [seenAt EXCEPT ![p] = now]
        /\ \A q \in Peer \ {p} : peers'[q] = peers[q]
    BY <1>2 DEF Touched, TypeOK, PeerRec
  <2>2. QED
    BY <2>1, TouchSeen
<1>3. ASSUME NEW c \in Caller, NEW p \in Peer, RemovePeer(c, p) PROVE SeenInv'
  BY <1>3, SameSeen DEF RemovePeer, TypeOK, NoPeer
<1>4. ASSUME NEW c \in Caller, NEW skip \in SUBSET Peer, SweepStalePeers(c, skip)
      PROVE SeenInv'
  BY <1>4, SameSeen DEF SweepStalePeers, NoPeer, history
<1>5. CASE UNCHANGED <<peers, seenAt>>
  BY <1>5, SameSeen
<1>6. ASSUME NEW n \in Net, CreateNetwork(n) PROVE SeenInv'
  BY <1>5, <1>6 DEF CreateNetwork, history
<1>7. ASSUME NEW c \in Caller, RegisterPeer(c) PROVE SeenInv'
  BY <1>1, <1>5, <1>7 DEF RegisterPeer, RegisterReject, vars
<1>8. ASSUME NEW c \in Caller, SetEndpoint(c) \/ DropEndpoint(c) PROVE SeenInv'
  BY <1>5, <1>8 DEF SetEndpoint, DropEndpoint, db, history
<1>9. CASE Restart \/ Tick \/ UNCHANGED vars
  BY <1>5, <1>9 DEF Restart, Tick, vars, db, history
<1>10. QED
  BY <1>2, <1>3, <1>4, <1>6, <1>7, <1>8, <1>9 DEF Next, UpdateEndpoint, TouchPeer

\* A new database has no peers; an older one's are aged by their registration.
LEMMA InitSeen == Init => SeenInv
<1> SUFFICES ASSUME Init, NEW p \in Peer, Registered(p)
             PROVE  AgedBy(p) >= seenAt[p] - (Gran - 1)
  BY DEF SeenInv
<1>1. seenAt[p] = StartTime
  BY DEF Init, InitMemory
<1>2. ~InitNew
  BY DEF InitNew, Registered, NoPeer
<1>3. PICK n \in Net, P \in SUBSET Peer, at \in [Peer -> Host], k \in Key,
           ip \in {Unparsed, Outside} \cup (Host \cup {NumHosts + 1}) :
        LegacyNetwork(n, P, at, k, ip)
  BY <1>2 DEF Init, InitLegacy
<1>4. p \in P
  BY <1>3 DEF LegacyNetwork, Registered, NoPeer
<1>5. peers[p].lastSeen = 0 /\ peers[p].registeredAt = StartTime
  BY <1>3, <1>4 DEF LegacyNetwork, NoPeer
<1>6. QED
  BY <1>1, <1>5 DEF AgedBy

\* The sweep never expels a peer heard of within the TTL less an hour.
THEOREM SweepSparesHeard == Spec => SweepNotEarly
<1>1. ASSUME TypeOK, DbInv, FreedMarked, SeenInv, [Next]_vars, NEW c \in Caller,
             call[c].pc = "idle", call'[c].pc = "drop", NEW p \in Peer,
             Registered(p), ~Registered(p)', \A n \in Net : leftAt'[n] = leftAt[n]
      PROVE  now - seenAt[p] > TTL - (Gran - 1)
  <2>1. ASSUME NEW d \in Caller, NEW q \in Peer, RemovePeer(d, q) PROVE FALSE
    <3>1. PICK n \in Net : n = peers[q].net
      BY <1>1, <2>1 DEF RemovePeer, Registered, TypeOK, PeerRec
    <3>2. PICK a \in Host : a = peers[q].addr
      BY <1>1, <2>1 DEF RemovePeer, DbInv, UniqueAddrs
    <3>3. leftAt'[n][a] = now
      BY <1>1, <2>1, <3>1, <3>2 DEF RemovePeer, TypeOK
    <3>4. a \in Used(n)
      BY <3>1, <3>2 DEF Used, Members
    <3>5. ~(leftAt[n][a] > 0)
      BY <1>1, <3>4 DEF FreedMarked
    <3>6. QED
      BY <1>1, <3>3, <3>5 DEF TypeOK
  <2>2. ASSUME NEW d \in Caller, NEW skip \in SUBSET Peer, SweepStalePeers(d, skip)
        PROVE  now - seenAt[p] > TTL - (Gran - 1)
    <3>1. Stale(p)
      BY <1>1, <2>2 DEF SweepStalePeers, Registered
    <3>2. AgedBy(p) \in Nat /\ now \in Nat /\ seenAt[p] \in Nat
      BY <1>1 DEF AgedBy, TypeOK, PeerRec
    <3>3. QED
      BY <1>1, <3>1, <3>2 DEF Stale, SeenInv
  <2>3. CASE UNCHANGED peers
    BY <1>1, <2>3 DEF Registered
  <2>4. ASSUME NEW d \in Caller, RegisterPeer(d)
        PROVE  now - seenAt[p] > TTL - (Gran - 1)
    <3>1. PICK q \in Peer, n \in Net, k \in Key, nm \in Name \cup {NoName},
               ep \in Endpoint \cup {NoEndpoint} :
            \/ RegisterReject(q, n, k)
            \/ ReRegister(d, q, n, k, nm, ep)
            \/ RegisterNew(d, q, n, k, nm, ep)
      BY <2>4 DEF RegisterPeer
    <3>2. CASE RegisterReject(q, n, k)
      BY <2>3, <3>2 DEF RegisterReject, vars
    <3>3. CASE ReRegister(d, q, n, k, nm, ep)
      BY <1>1, <3>3 DEF ReRegister, Registered, TypeOK, PeerRec
    <3>4. CASE RegisterNew(d, q, n, k, nm, ep)
      BY <1>1, <3>4 DEF RegisterNew, Registered, TypeOK
    <3>5. QED
      BY <3>1, <3>2, <3>3, <3>4
  <2>5. ASSUME NEW q \in Peer, Touched(q) PROVE FALSE
    BY <1>1, <2>5 DEF Touched, Registered, TypeOK, PeerRec
  <2>6. QED
    BY <1>1, <2>1, <2>2, <2>3, <2>4, <2>5
    DEF Next, CreateNetwork, UpdateEndpoint, TouchPeer, SetEndpoint, DropEndpoint,
        Restart, Tick, vars, db
<1>2. TypeOK /\ DbInv /\ FreedMarked /\ SeenInv /\ [Next]_vars =>
        [\A c \in Caller : (call[c].pc = "idle" /\ call'[c].pc = "drop") =>
           \A p \in Peer : Registered(p) /\ ~Registered(p)' =>
              \/ \E n \in Net : leftAt'[n] # leftAt[n]
              \/ now - seenAt[p] > TTL - (Gran - 1)]_vars
  BY <1>1
<1>3. QED
  BY <1>2, InitSeen, StepSeen, TypeCorrect, DbCorrect, FreedCorrect, PTL
  DEF Spec, SweepNotEarly
=============================================================================
