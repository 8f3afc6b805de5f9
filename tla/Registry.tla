------------------------------ MODULE Registry ------------------------------
(***************************************************************************)
(* The coordinator's registry (coord/server/registry.go, sweep.go): the    *)
(* bbolt buckets of networks and peers, the VPN address allocator, and the *)
(* in-memory endpoint map.                                                 *)
(*                                                                         *)
(* A bbolt write transaction is atomic and exclusive, so each transaction  *)
(* is one action.  The endpoint map is guarded by its own mutex and is     *)
(* written after the transaction has committed, so every call has a second *)
(* step, and the steps of concurrent calls interleave.                     *)
(*                                                                         *)
(* Addresses are offsets in the network's CIDR: 0 is the network address,  *)
(* 1 .. NumHosts the assignable hosts, NumHosts + 1 the broadcast address. *)
(* Times are in units of which Gran make the hour that LastSeen is rounded *)
(* to.  Subnet routes and the Ed25519 key (which is the peer ID) carry no  *)
(* control and are left out.                                               *)
(***************************************************************************)
EXTENDS Integers, FiniteSets

CONSTANTS
  Peer,         \* peer IDs (Ed25519 keys in hex)
  Net,          \* network IDs
  Key,          \* X25519 public keys
  Name,         \* peer names other than ""
  Fold,         \* the case folding of names that strings.EqualFold compares
  Endpoint,     \* public endpoints other than ""
  Caller,       \* goroutines calling into the registry
  NumHosts,     \* assignable addresses of a network
  MaxMachines,  \* the plan's machine limit; 0 or less is no limit
  MaxFallbackHosts,
  Gran,         \* lastSeenGranularity
  TTL,          \* peer time-to-live of the sweep
  StartTime,
  MaxTime,      \* bound on the clock
  NoNet, NoName, NoKey, NoEndpoint

ASSUME NumHostsAssumption == NumHosts \in Nat
ASSUME LimitAssumption == MaxMachines \in Int /\ MaxFallbackHosts \in Nat
ASSUME TimeAssumption ==
  /\ Gran \in Nat \ {0}
  /\ TTL \in Nat \ {0}
  /\ StartTime \in Nat
  /\ StartTime > 1          \* 0 and 1 are not wall-clock times: 0 marks an
  /\ StartTime >= Gran      \* assigned address, 1 one freed by migration
  /\ MaxTime \in Nat
ASSUME FiniteAssumption == IsFiniteSet(Peer)
ASSUME NullAssumption ==
  /\ NoNet \notin Net
  /\ NoName \notin Name
  /\ NoEndpoint \notin Endpoint
ASSUME FoldAssumption == DOMAIN Fold = Name

VARIABLES
  peers,      \* bucket "peers": [Peer -> record], net = NoNet if no such key
  networks,   \* bucket "networks": [Net -> record]
  endpoints,  \* the in-memory endpoint map, NoEndpoint for "" or no entry
  call,       \* what each caller still has to do after its commit
  now,        \* the wall clock
  \* History, read by the properties only:
  everHeld,   \* addresses of each network that a peer holds or has held
  leftAt,     \* when RemovePeer last freed each address, 0 if held or never
  seenAt      \* when each registered peer was really last heard of

db == <<peers, networks>>
history == <<everHeld, leftAt, seenAt>>
vars == <<peers, networks, endpoints, call, now, everHeld, leftAt, seenAt>>

Host == 1 .. NumHosts
InCIDR(a) == a \in 0 .. NumHosts + 1

\* Marks of the AssignedAddrs map: absent, in use, or the time of freeing.
Never == -1
Assigned == 0
FreedByMigration == 1

\* NextIP when the stored string does not parse, and when it parses to an
\* address outside the CIDR.
Unparsed == -1
Outside == NumHosts + 2

PeerRec == [net: Net \cup {NoNet}, name: Name \cup {NoName}, addr: Nat,
            key: Key \cup {NoKey}, lastSeen: Nat, registeredAt: Nat]
NetRec == [created: BOOLEAN, nextIP: Int, machineCount: Nat,
           hasAddrs: BOOLEAN, assignedAddrs: [Host -> Int]]

NoPeer == [net |-> NoNet, name |-> NoName, addr |-> 0, key |-> NoKey,
           lastSeen |-> 0, registeredAt |-> 0]
NoNetwork == [created |-> FALSE, nextIP |-> 1, machineCount |-> 0,
              hasAddrs |-> TRUE, assignedAddrs |-> [a \in Host |-> Never]]

Idle == [pc |-> "idle", todo |-> {}, endpoint |-> NoEndpoint]
CallRec == [pc: {"idle", "set", "drop"}, todo: SUBSET Peer,
            endpoint: Endpoint \cup {NoEndpoint}]

Registered(p) == peers[p].net # NoNet
Members(n) == {p \in Peer : peers[p].net = n}
\* Mutant: peers without a heartbeat are taken to hold no address.
UsedByHeardOf(n) == {peers[p].addr : p \in {q \in Members(n) : peers[q].lastSeen > 0}}

Used(n) == {peers[p].addr : p \in Members(n)}

RoundToHour(secs) == IF secs <= 0 THEN secs ELSE secs - (secs % Gran)

\* Mutants: one decrement for each network swept; two for each peer.
DecrementOnce(k, by) == IF k > 0 /\ by > 0 THEN k - 1 ELSE k
DecrementTwice(k, by) == k - 2 * by

Decrement(k, by) == IF k > by THEN k - by ELSE 0
-----------------------------------------------------------------------------
(***************************************************************************)
(* Initial states: a new database, or one written by an older build, whose *)
(* network record has no AssignedAddrs map (its peers hold addresses below *)
(* NextIP) and whose NextIP may be unreadable.  Endpoints an older build   *)
(* persisted are blanked when the database is opened.                      *)
(***************************************************************************)
InitMemory ==
  /\ endpoints = [p \in Peer |-> NoEndpoint]
  /\ call = [c \in Caller |-> Idle]
  /\ now = StartTime
  /\ leftAt = [n \in Net |-> [a \in Host |-> 0]]
  /\ seenAt = [p \in Peer |-> StartTime]

InitNew ==
  /\ peers = [p \in Peer |-> NoPeer]
  /\ networks = [n \in Net |-> NoNetwork]
  /\ everHeld = [n \in Net |-> {}]

LegacyNetwork(n, P, at, k, ip) ==
  /\ \A p, q \in P : at[p] = at[q] => p = q
  /\ InCIDR(ip) => \A p \in P : at[p] < ip
  /\ peers = [p \in Peer |-> IF p \in P
                THEN [NoPeer EXCEPT !.net = n, !.addr = at[p], !.key = k,
                                    !.registeredAt = StartTime]
                ELSE NoPeer]
  /\ networks = [m \in Net |-> IF m = n
                   THEN [NoNetwork EXCEPT !.created = TRUE, !.nextIP = ip,
                                          !.machineCount = Cardinality(P),
                                          !.hasAddrs = FALSE]
                   ELSE NoNetwork]
  /\ everHeld = [m \in Net |-> IF m # n THEN {}
                               ELSE IF InCIDR(ip) THEN {a \in Host : a < ip}
                               ELSE Host]

InitLegacy ==
  \E n \in Net, P \in SUBSET Peer, at \in [Peer -> Host], k \in Key,
     ip \in {Unparsed, Outside} \cup (Host \cup {NumHosts + 1}) :
    LegacyNetwork(n, P, at, k, ip)

Init == InitMemory /\ (InitNew \/ InitLegacy)
-----------------------------------------------------------------------------
(***************************************************************************)
(* Networks and address allocation.                                        *)
(***************************************************************************)
CreateNetwork(n) ==
  /\ ~networks[n].created
  /\ networks' = [networks EXCEPT ![n] = [NoNetwork EXCEPT !.created = TRUE]]
  /\ UNCHANGED <<peers, endpoints, call, now, history>>

\* The network record with its AssignedAddrs map, built from NextIP and the
\* addresses in use if an older build left it nil.
MigrateAssignedAddrs(rec, used) ==
  IF rec.hasAddrs THEN rec
  ELSE [rec EXCEPT
         !.hasAddrs = TRUE,
         !.assignedAddrs =
           [a \in Host |->
              IF a \in used THEN Assigned
              ELSE IF \/ InCIDR(rec.nextIP) /\ a < rec.nextIP
                      \/ ~InCIDR(rec.nextIP) /\ NumHosts <= MaxFallbackHosts
              THEN FreedByMigration
              ELSE Never]]

NeverUsed(marks, used) == {a \in Host \ used : marks[a] = Never}
Freed(marks, used) == {a \in Host \ used : marks[a] > 0}

\* Mutants: departed peers' addresses first; the lowest freed one whenever freed.
SelectsFreedFirst(a, marks, used) ==
  IF Freed(marks, used) # {}
  THEN /\ a \in Freed(marks, used)
       /\ \A b \in Freed(marks, used) : a <= b
  ELSE /\ a \in NeverUsed(marks, used)
       /\ \A b \in NeverUsed(marks, used) : a <= b

SelectsLowest(a, marks, used) ==
  /\ a \in NeverUsed(marks, used) \/ (NeverUsed(marks, used) = {} /\ a \in Freed(marks, used))
  /\ \A b \in NeverUsed(marks, used) \cup Freed(marks, used) : NeverUsed(marks, used) = {} => a <= b

\* a is what RegisterPeer's scan of the hosts selects: the lowest address
\* never assigned, else the one freed first, the lowest on a tie.
Selects(a, marks, used) ==
  \/ /\ a \in NeverUsed(marks, used)
     /\ \A b \in NeverUsed(marks, used) : a <= b
  \/ /\ NeverUsed(marks, used) = {}
     /\ a \in Freed(marks, used)
     /\ \A b \in Freed(marks, used) :
          marks[a] < marks[b] \/ (marks[a] = marks[b] /\ a <= b)

Exhausted(marks, used) ==
  NeverUsed(marks, used) = {} /\ Freed(marks, used) = {}

\* NextIP after address a is assigned; an unreadable NextIP is left alone.
AdvanceNextIP(ip, a) ==
  IF ip # Unparsed /\ (~InCIDR(ip) \/ a >= ip) /\ InCIDR(a + 1)
  THEN a + 1 ELSE ip

\* Mutant: the limit compared with the count before the newcomer.
AtLimitOff(n) == MaxMachines > 0 /\ networks[n].machineCount > MaxMachines

AtLimit(n) == MaxMachines > 0 /\ networks[n].machineCount >= MaxMachines

\* Mutant: names compared exactly.
NameTakenExact(n, p, nm) == \E q \in Members(n) \ {p} : peers[q].name = nm

\* Another peer of the network holds the name, ignoring case.
NameTaken(n, p, nm) ==
  \E q \in Members(n) \ {p} : /\ peers[q].name # NoName
                              /\ Fold[peers[q].name] = Fold[nm]

StoredName(n, p, nm) ==
  IF nm # NoName /\ NameTaken(n, p, nm) THEN NoName ELSE nm
-----------------------------------------------------------------------------
(***************************************************************************)
(* RegisterPeer.  A rejected call changes nothing; a committed one goes on *)
(* to setEndpoint.                                                         *)
(***************************************************************************)
ThenSetEndpoint(c, p, ep) ==
  call' = [call EXCEPT ![c] = [pc |-> "set", todo |-> {p}, endpoint |-> ep]]

\* The network's marks as the scan for an address sees them.
Marks(n) == MigrateAssignedAddrs(networks[n], Used(n)).assignedAddrs

\* ErrPeerIDTaken, ErrPeerKeyMismatch, an unknown network, ErrMachineLimit and
\* ErrAddressSpaceExhausted.
RegisterReject(p, n, k) ==
  /\ \/ Registered(p) /\ peers[p].net # n
     \/ peers[p].net = n /\ peers[p].key # k
     \/ ~Registered(p) /\ ~networks[n].created
     \/ ~Registered(p) /\ networks[n].created /\ AtLimit(n)
     \/ /\ ~Registered(p) /\ networks[n].created /\ ~AtLimit(n)
        /\ Exhausted(Marks(n), Used(n))
  /\ UNCHANGED vars

\* Mutant: the key presented on re-registration replaces the stored one.
ReRegisterRotates(c, p, n, k, nm, ep) ==
  /\ call[c].pc = "idle"
  /\ peers[p].net = n
  /\ peers' = [peers EXCEPT ![p].lastSeen = RoundToHour(now),
                            ![p].key = k,
                            ![p].name = StoredName(n, p, nm)]
  /\ ThenSetEndpoint(c, p, ep)
  /\ seenAt' = [seenAt EXCEPT ![p] = now]
  /\ UNCHANGED <<networks, endpoints, now, everHeld, leftAt>>

ReRegister(c, p, n, k, nm, ep) ==
  /\ call[c].pc = "idle"
  /\ peers[p].net = n /\ peers[p].key = k
  /\ peers' = [peers EXCEPT ![p] =
       [@ EXCEPT !.lastSeen = RoundToHour(now), !.name = StoredName(n, p, nm)]]
  /\ ThenSetEndpoint(c, p, ep)
  /\ seenAt' = [seenAt EXCEPT ![p] = now]
  /\ UNCHANGED <<networks, endpoints, now, everHeld, leftAt>>

RegisterNew(c, p, n, k, nm, ep) ==
  /\ call[c].pc = "idle"
  /\ ~Registered(p) /\ networks[n].created /\ ~AtLimit(n)
  /\ LET rec == MigrateAssignedAddrs(networks[n], Used(n)) IN
     \E a \in Host :
       /\ Selects(a, rec.assignedAddrs, Used(n))
       /\ networks' = [networks EXCEPT ![n] =
            [rec EXCEPT !.assignedAddrs[a] = Assigned,
                        !.nextIP = AdvanceNextIP(@, a),
                        !.machineCount = @ + 1]]
       /\ peers' = [peers EXCEPT ![p] =
            [net |-> n, name |-> StoredName(n, p, nm), addr |-> a, key |-> k,
             lastSeen |-> RoundToHour(now), registeredAt |-> now]]
       /\ everHeld' = [everHeld EXCEPT ![n] = @ \cup {a}]
       /\ leftAt' = [leftAt EXCEPT ![n][a] = 0]
  /\ ThenSetEndpoint(c, p, ep)
  /\ seenAt' = [seenAt EXCEPT ![p] = now]
  /\ UNCHANGED <<endpoints, now>>

RegisterPeer(c) ==
  \E p \in Peer, n \in Net, k \in Key, nm \in Name \cup {NoName},
     ep \in Endpoint \cup {NoEndpoint} :
    \/ call[c].pc = "idle" /\ RegisterReject(p, n, k)
    \/ ReRegister(c, p, n, k, nm, ep)
    \/ RegisterNew(c, p, n, k, nm, ep)
-----------------------------------------------------------------------------
(***************************************************************************)
(* UpdateEndpoint, TouchPeer, RemovePeer and the sweep.                    *)
(***************************************************************************)
Touched(p) ==
  /\ peers' = [peers EXCEPT ![p] = [@ EXCEPT !.lastSeen = RoundToHour(now)]]
  /\ seenAt' = [seenAt EXCEPT ![p] = now]

UpdateEndpoint(c, p, ep) ==
  /\ call[c].pc = "idle"
  /\ Registered(p)
  /\ Touched(p)
  /\ ThenSetEndpoint(c, p, ep)
  /\ UNCHANGED <<networks, endpoints, now, everHeld, leftAt>>

TouchPeer(p) ==
  /\ Registered(p)
  /\ Touched(p)
  /\ UNCHANGED <<networks, endpoints, call, now, everHeld, leftAt>>

ThenDropEndpoints(c, removed) ==
  call' = [call EXCEPT ![c] = [Idle EXCEPT !.pc = "drop", !.todo = removed]]

\* Mutant: the mark of the address is left alone.
RemovePeerUnmarked(c, p) ==
  /\ call[c].pc = "idle"
  /\ Registered(p)
  /\ LET n == peers[p].net IN
     /\ networks' = [networks EXCEPT ![n].machineCount = Decrement(@, 1)]
     /\ leftAt' = [leftAt EXCEPT ![n][peers[p].addr] = now]
  /\ peers' = [peers EXCEPT ![p] = NoPeer]
  /\ ThenDropEndpoints(c, {p})
  /\ UNCHANGED <<endpoints, now, everHeld, seenAt>>

RemovePeer(c, p) ==
  /\ call[c].pc = "idle"
  /\ Registered(p)
  /\ LET n == peers[p].net
         a == peers[p].addr
         rec == MigrateAssignedAddrs(networks[n], Used(n) \ {a})
     IN /\ networks' = [networks EXCEPT ![n] =
             [rec EXCEPT !.machineCount = Decrement(@, 1),
                         !.assignedAddrs[a] = now]]
        /\ leftAt' = [leftAt EXCEPT ![n][a] = now]
  /\ peers' = [peers EXCEPT ![p] = NoPeer]
  /\ ThenDropEndpoints(c, {p})
  /\ UNCHANGED <<endpoints, now, everHeld, seenAt>>

\* A peer that never sent a heartbeat is aged by its registration.
AgedBy(p) == IF peers[p].lastSeen = 0 THEN peers[p].registeredAt
                                      ELSE peers[p].lastSeen

\* Mutant: a registration as old as the cutoff is stale.
StaleAtCutoff(p) == Registered(p) /\ AgedBy(p) <= now - TTL

Stale(p) == Registered(p) /\ AgedBy(p) < now - TTL

\* skip is the set of peers the server reports as connected.  The sweep
\* deletes the records and lowers the machine counts; it leaves the
\* AssignedAddrs marks as they are.
SweepStalePeers(c, skip) ==
  /\ call[c].pc = "idle"
  /\ LET removed == {p \in Peer \ skip : Stale(p)} IN
     /\ peers' = [p \in Peer |-> IF p \in removed THEN NoPeer ELSE peers[p]]
     /\ networks' = [n \in Net |-> [networks[n] EXCEPT
          !.machineCount = Decrement(@, Cardinality(removed \cap Members(n)))]]
     /\ ThenDropEndpoints(c, removed)
  /\ UNCHANGED <<endpoints, now, history>>
-----------------------------------------------------------------------------
(***************************************************************************)
(* The second half of a call: the endpoint map, under endpointsMu.  The    *)
(* sweep takes the mutex once for each removed peer.                       *)
(***************************************************************************)
SetEndpoint(c) ==
  /\ call[c].pc = "set"
  /\ \E p \in call[c].todo :
       endpoints' = [endpoints EXCEPT ![p] = call[c].endpoint]
  /\ call' = [call EXCEPT ![c] = Idle]
  /\ UNCHANGED <<db, now, history>>

DropEndpoint(c) ==
  /\ call[c].pc = "drop"
  /\ \/ \E p \in call[c].todo :
          /\ endpoints' = [endpoints EXCEPT ![p] = NoEndpoint]
          /\ call' = [call EXCEPT ![c].todo = @ \ {p}]
     \/ /\ call[c].todo = {}
        /\ call' = [call EXCEPT ![c] = Idle]
        /\ UNCHANGED endpoints
  /\ UNCHANGED <<db, now, history>>

\* The process ends, by Close or by a crash, and opens the database again:
\* only the committed buckets survive.
Restart ==
  /\ endpoints' = [p \in Peer |-> NoEndpoint]
  /\ call' = [c \in Caller |-> Idle]
  /\ UNCHANGED <<db, now, history>>

Tick ==
  /\ now < MaxTime
  /\ now' = now + 1
  /\ UNCHANGED <<db, endpoints, call, history>>

Next ==
  \/ \E n \in Net : CreateNetwork(n)
  \/ \E c \in Caller :
       \/ RegisterPeer(c)
       \/ \E p \in Peer, ep \in Endpoint \cup {NoEndpoint} : UpdateEndpoint(c, p, ep)
       \/ \E p \in Peer : RemovePeer(c, p)
       \/ \E skip \in SUBSET Peer : SweepStalePeers(c, skip)
       \/ SetEndpoint(c)
       \/ DropEndpoint(c)
  \/ \E p \in Peer : TouchPeer(p)
  \/ Restart
  \/ Tick

Spec == Init /\ [][Next]_vars
-----------------------------------------------------------------------------
(***************************************************************************)
(* Properties.                                                             *)
(***************************************************************************)
\* Every bucket, map, call and history variable has its type.
TypeOK ==
  /\ peers \in [Peer -> PeerRec]
  /\ networks \in [Net -> NetRec]
  /\ endpoints \in [Peer -> Endpoint \cup {NoEndpoint}]
  /\ call \in [Caller -> CallRec]
  /\ now \in Nat /\ now >= StartTime
  /\ everHeld \in [Net -> SUBSET Host]
  /\ leftAt \in [Net -> [Host -> Nat]]
  /\ seenAt \in [Peer -> Nat]

\* Two peers of a network never hold the same VPN address, whatever was
\* registered, removed, swept, migrated or restarted before: RegisterPeer
\* only assigns an assignable host that no record holds.
UniqueAddrs ==
  \A p, q \in Peer :
    Registered(p) =>
      /\ peers[p].addr \in Host
      /\ (peers[q].net = peers[p].net /\ peers[q].addr = peers[p].addr) => p = q

\* The stored MachineCount, which RegisterPeer compares with the plan's limit,
\* is the number of registered peers of the network: the increments and
\* decrements spread over RegisterPeer, RemovePeer and the sweep never drift.
CountExact ==
  \A n \in Net : networks[n].machineCount = Cardinality(Members(n))

\* One name, ignoring case, belongs to one peer of a network (registration and
\* re-registration with a held name store the peer without one).
UniqueNames ==
  \A p, q \in Peer :
    (/\ Registered(p) /\ peers[q].net = peers[p].net
     /\ peers[p].name # NoName /\ peers[q].name # NoName
     /\ Fold[peers[p].name] = Fold[peers[q].name]) => p = q

\* No two peers of a network share an address or a name: the two keys by which
\* the other machines find a peer (RegisterPeer, nameTaken).
Unique == UniqueAddrs /\ UniqueNames

\* While a peer stays registered no call changes its network, its address or
\* its X25519 key: re-registration keeps the identity its peers have pinned.
IdentityStable ==
  [][\A p \in Peer : Registered(p) /\ Registered(p)' =>
       /\ peers'[p].net = peers[p].net
       /\ peers'[p].addr = peers[p].addr
       /\ peers'[p].key = peers[p].key]_vars

Joins(p) == ~Registered(p) /\ Registered(p)'

\* A registration never takes a network past the plan's machine limit.
LimitKept ==
  \A p \in Peer : Joins(p) /\ MaxMachines > 0 =>
    Cardinality({q \in Peer : peers'[q].net = peers'[p].net}) <= MaxMachines

\* A newcomer is given an address another peer may have held, whose pins other
\* machines keep, only when every address of the network has been held.
FreshBeforeReuse ==
  \A p \in Peer : Joins(p) =>
    LET n == peers'[p].net IN
      peers'[p].addr \in everHeld[n] => everHeld[n] = Host

\* A reused address is one that was freed no later than any other address
\* RemovePeer has freed and nobody has been given since.
OldestFreedFirst ==
  \A p \in Peer : Joins(p) =>
    LET n == peers'[p].net IN
      \A b \in Host : leftAt[n][b] > 0 => leftAt[n][peers'[p].addr] <= leftAt[n][b]

\* RegisterPeer lets a newcomer in only within the limit, and gives it a fresh
\* address while there is one and the longest free one afterwards, across
\* departures, sweeps, restarts and the migration of an older database.
NewcomerPlaced == [][LimitKept /\ FreshBeforeReuse /\ OldestFreedFirst]_vars

\* The sweep expels a peer only when it was last heard of longer ago than the
\* TTL less what rounding LastSeen down to the hour can hide.
SweepNotEarly ==
  [][\A c \in Caller : (call[c].pc = "idle" /\ call'[c].pc = "drop") =>
       \A p \in Peer : Registered(p) /\ ~Registered(p)' =>
          \/ \E n \in Net : leftAt'[n] # leftAt[n]
          \/ now - seenAt[p] > TTL - (Gran - 1)]_vars

\* The address space is reported exhausted only when no address that a peer
\* gave back by leaving is free.  The address of a peer that was swept is not
\* given back: its mark stays at 0 (RemovePeer, SweepStalePeers, RegisterPeer).
LeftReusable ==
  \A n \in Net : networks[n].created /\ Exhausted(Marks(n), Used(n)) =>
    \A a \in Host : leftAt[n][a] = 0
=============================================================================
