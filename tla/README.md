# Veld in TLA+

Veld is a mesh VPN written in Go. Every machine runs a daemon (`veld`), which keeps
end-to-end encrypted tunnels to the other machines of its network. A coordinator
(`veld-coord`) keeps the list of machines and carries their signals; it never sees
traffic. A relay (`veld-relay`) carries the encrypted packets of two machines that
cannot reach each other directly.

This directory holds TLA+ specifications of the parts of Veld that carry state from
one event to the next, TLC configurations that check them on small instances, and
TLAPS proofs of every safety property the passing runs check, for instances of any size.
`PROJECT.json` maps every definition to the lines it models, and lists runs, mutants,
findings, hazards and theorems.

    tlc -workers 2 -config MCRegistry.cfg MCRegistry     # one run
    tlapm RegistryProofs.tla                             # the proofs of one module

## 1. Inventory

### The coordinator

| Component | Source | State | Operations |
|---|---|---|---|
| Peer registry | `coord/server/registry.go`, `sweep.go` | bbolt buckets `networks` (machine count, address marks, `NextIP`) and `peers`; an endpoint map in memory | `CreateNetwork`, `RegisterPeer`, `UpdateEndpoint`, `TouchPeer`, `RemovePeer`, `SweepStalePeers` |
| Service and event bus | `coord/server/server.go`, `bus.go` | the open streams of each peer, the subscribers' channels, held signals | `Register`, `Watch`, `Leave`, `SendSignal`, `WatchSignals`, `Publish`, the sweep loop |
| Signature replay cache | `coord/server/replay.go` | signatures seen, with expiry | `firstUse` |
| Rate limiter, PROXY protocol | `coord/server/ratelimit.go`, ... | token buckets | `allow`, accept |

### The daemon

| Component | Source | State | Operations |
|---|---|---|---|
| Coordinator client | `internal/coord/client.go` | own ID, stream, retry delay | `registerAndWatch`, `handleEvent`, `Stop` |
| Peer table | `internal/peer/table.go`, `state.go` | entries and four indexes (ID, VPN address, endpoint, name) | `Upsert`, `UpdateEndpoint`, `ClaimEndpoint`, `Remove`, lookups |
| Session | `internal/session/` | send counter, sliding replay window | `Encrypt`, `Decrypt`, `NeedsRekey` |
| Handshake manager | `internal/handshake/manager.go` | pending handshakes, last Init timestamp of each peer, the replay file | `Initiate`, `handleInit`, `handleResp`, `UseReplayState` |
| Dispatcher | `internal/dataplane/dispatcher.go` | none of its own: session slots and hold queue are in the peer's entry | TUN loop, UDP loop, `FlushHoldQueue`, rekey and keepalive loops |
| Access control | `internal/acl/` | policy pointer, `lastModTime`; flow table of 64 shards with an eviction list and a counter | `ParsePacket`, `ParsePolicy`, `Compile`, `Decide`, `Load`, `watchLoop`, `Lookup`, `UpdateState`, `ExpireOldFlows` |
| NAT traversal | `internal/nat/` | one session for each peer, one held envelope for each sender, answers by nonce | `Start`, `DeliverSignal`, `negotiate`, `HandleProbe` |
| TOFU store | `internal/tofu/store.go` | pins of keys to peers and addresses, the file | `Check`, `Forget`, `load`, `save` |
| Relay client and proxy | `internal/relay/`, `internal/daemon/` | one connection and one local socket for each relayed peer | dial, copy, close |
| Wiring | `internal/daemon/daemon.go` | callbacks between all of these, routes | start, stop, peer added or removed |

The relay service (`relay/service.go`) keeps the connections that wait for their
partner and the pairs it splices. Everything else (DNS, mDNS, TUN devices, routes,
configuration, commands) reads state or calls the operating system.

### How they interact

* The coordinator client **registers** the node, then **watches**: it gets a snapshot of
  the registered peers and a stream of JOIN, LEAVE and endpoint events, and turns each
  into an `Upsert`, `UpdateEndpoint` or `Remove` of the peer table. On the server, the
  registry transaction and the publication of its event are separate steps.
* A packet from the TUN device finds its peer by VPN address, is judged by the **policy**,
  enters a flow in the **flow table** if it starts one, and is encrypted with the
  entry's active **session**. Without one it is held and a **handshake** is started.
* A packet from the UDP socket finds its peer by endpoint, then is a handshake
  message for the manager or is decrypted with the active, the pending or the
  previous session, put to the policy or the flow table, and handed to the TUN device.
* NAT traversal begins when a peer is added: both nodes exchange a nonce and their
  candidates in **signals** through the coordinator, **probe** each other's candidates,
  and take the one from which a reply with the right tag comes as the endpoint. If none
  comes, the daemon dials the **relay** and points the endpoint at a local proxy.
* The policy comes from a **file**, read when the daemon starts, when the watcher sees it
  change and on SIGHUP, each in its own goroutine.
* The manager installs sessions into the entry, the dispatcher promotes them; the
  coordinator client may replace the entry at any moment under both.

### What is hard here

* **Interleavings.** A dozen goroutines share entries, tables and sessions with locks held
  for single accesses: `Decrypt` looks at its window twice, `handleTunPacket` reads a
  session, checks it and uses it, the flow table's eviction takes a victim off its list
  before it has the lock of the victim's shard, events are published after the commit, a relay dial of up to
  15 s runs between a look at the peer and the use of what it saw.
* **The network.** Handshake and data packets are lost, repeated, delayed and reordered;
  streams break; answers to committed calls are lost.
* **Crashes and restarts.** The registry, the replay file and the TOFU file survive,
  nothing else does.
* **Limits.** Channels, hold queue, flow table, machine count and address space fill up.
* **Time.** Clocks differ, LastSeen is rounded to the hour, timestamps age out.

The hazards, each at its line and with the properties that cover it, are listed in
`PROJECT.json`.

### What makes each component correct

| Component | It is correct if |
|---|---|
| Registry | addresses and names are unique, identities stable, the count exact, the limit kept, addresses reused last and longest-freed first, nobody swept early |
| Service and client | nobody registered is missed by a client that has read its stream, nobody with a stream is swept, nobody who has left is kept unless the LEAVE has missed the client |
| Peer table | every index leads to the current entry, addresses and names are not taken over, an endpoint has one owner that knows it |
| Session | no packet is handed on twice, none within the window is lost by reordering, no nonce is used past the threshold |
| Handshake and dispatcher | no Init is answered twice, nobody sends under a session its initiator has not got, the ends stay able to open each other's packets |
| Flow table | every call acts on its flow at one instant, the counter is exact, list and maps agree |
| Access control | inbound packets pass only on connections the policy let in; the parser reads only what arrived; a decision is what the document in force means; the document in force is the one in the file |
| Relay service | no slot and no connection is lost whoever closes it, waits and pairs end, Close leaves nothing running |
| TOFU store | its two maps agree; a key that was let through keeps its address through moves, crashes and restarts |
| NAT | a path is found only between sessions that know each other's nonces; answers last as long as probes may come; one proxy for each relayed peer, owned by somebody |

## 2. Modules

| Module | Models | Extends |
|---|---|---|
| `Registry` | the registry and the sweep | |
| `CoordSync` | Register, Watch, Leave, sweep, event bus, coordinator client | |
| `PeerTable` | the peer table | |
| `Session` | one direction of a session | |
| `Tunnel` | two handshake managers and dispatchers over a bad network | |
| `FlowMap` | what the flow table promises (abstract) | |
| `FlowTable` | the flow table as it is written; implements `FlowMap` | instances `FlowMap` |
| `AclGate` | policy and flows on the packet path | extends `FlowMap` |
| `Packet` | `ParsePacket`, and the packets that answer refused ones | |
| `PolicyDoc` | policy documents: validation, compilation, `Decide`, `Combine`, and what a document means | extends `Packet` |
| `PolicyFile` | the policy file, its loaders and the policy in force | extends `PolicyDoc` |
| `Nat` | NAT traversal of two nodes, the relay fallback and its proxies | |
| `Relay` | the relay service | |
| `Tofu` | the TOFU store of the daemon, its file, and `veld tofu forget` | |
| `RegistryProofs`, `CoordSyncProofs`, `FlowTableProofs`, `NatProofs`, `RelayProofs` | theorems | extend the module they name |
| `PacketPathProofs` | theorems about `PeerTable`, `Session` and `AclGate` | extends the three |
| `HandshakeProofs` | theorems about `Tunnel` and `Tofu` | extends both |
| `PolicyProofs` | theorems about `Packet`, `PolicyDoc` and `PolicyFile` | extends `PolicyFile` |
| `MC...` | instances for TLC | extend the module they name |

The parts meet at narrow interfaces, and the modules are cut there. `CoordSync` treats a
registry record and a table entry as set membership, because `Registry` and `PeerTable`
say what is in them. `Tunnel` names a session by its handshake, because `Session` says
which of its packets pass. `AclGate` is written against `FlowMap`, and `FlowTable` is
proved to implement `FlowMap`: what is proved of the access control does not depend
on shards, lists and locks. `AclGate` takes a policy as the set of what it allows, and
`PolicyDoc` and `PolicyFile` say which set that is. `Nat` takes the coordinator's signals
as anything that was sent, at any later time, any number of times or never.

Definitions under a comment that starts with *Mutant* are not part of the
specifications. Each is a plausible mistake in the definition that follows it; put in
its place, it must make TLC find a property violated.

### Registry

A bbolt write transaction is atomic and exclusive, so each is one action:
`CreateNetwork`, `RegisterPeer` (with `NewPeer`, re-registration and its refusals),
`UpdateEndpoint`, `TouchPeer`, `RemovePeer`, `SweepStalePeers`. The endpoint map has its
own mutex and is written after the commit, so each call has a second step
(`SetEndpoint`, `DropEndpoint`), and `Restart` may come between the two. An address is
its offset in the CIDR. The marks of `AssignedAddrs` are kept as the code stores them: a
missing key, 0 for an assigned address, 1 for one freed by the migration, else the time
of freeing. `Init` includes databases an older build has left, with no marks and with a
`NextIP` that does not parse or lies outside the CIDR. Time is counted in units of
which `Gran` make the hour LastSeen is rounded to. `everHeld`, `leftAt` and `seenAt`
are history.

### CoordSync

`registered`, `fresh` and `connected` are the server's view of its peers, `unpublished`
the events whose transaction has committed, `handler` the goroutines serving Watch,
`client` the position of each client's loop. Watch is cut where another goroutine can
see the difference: authorize, mark as connected, subscribe, list, stream. The client's
half of a call (`Calls`, `Answer`, `OpensStream`) is part of the step that serves it. A sweep is a
check and a commit, with `doomed` in between. `Fails`, `Stop` and `CoordRestart` are the
failures. Left out: signals, tokens and signatures, endpoint and route events (they
change no membership), and the refusal of an address somebody holds (see `PeerTable`).
Two assumptions: the TTL of the sweep exceeds the hour LastSeen is rounded by plus the
time a Register and its Watch take, and a stream is FIFO and reliable until it breaks.

### PeerTable

Pointer equality decides what the methods may touch, so entries are references into a
heap and an index maps keys to references. Each method runs under the table's mutex
and is one action; refusals are actions of their own that change nothing.

### Session

`Encrypt` takes the counter before it compares it with the threshold. `Decrypt` is two
steps, `Look` and `Mark` or `AuthFails`, with the mutex released in between, for any
number of readers. The window's ring buffer is kept (position `n % WindowSize`), its
64-bit words are not. Encryption is abstracted to: a packet is genuine if it was sent.

### Tunnel

Each end has a UDP goroutine (`InitAccept`, `InitSave`, `InitAnswer`, `RespAccept`,
`RespInstall`, `DataConfirms`), a TUN goroutine (`TunSend`, `TunMiss`, `TunHold`) and
other goroutines that start handshakes: `Trigger` stands for NAT traversal, mDNS, the
rekey loop, an added peer and the relay fallback. `net` holds every packet ever sent, and
any of them may arrive at any time, any number of times, or never. Clocks differ by
`Offset`. `ReplaceEntry` is the coordinator client's Upsert under the other goroutines'
feet, `Restart` keeps only the replay file. Left out: TOFU, the network ID, the
handshaking state (reported to the user only), and a replay file that cannot be
written (the code logs that and goes on; `saved` then lags behind by design).

### FlowMap, FlowTable and AclGate

`FlowMap` is a map from normalized flow keys to flow states. A call begins, acts once, and
returns; a flow may disappear while no call acts on it. `FlowTable` is the code: shards
with locks (derived from the program counters of the jobs), entries with `prev` and
`next` pointers and the list's head and tail, the atomic counter, insertion with its
compare-and-swap loop and eviction, and the expirer, which reads the clock once and goes
through the shards. An eviction that pops an entry before locking its shard, and a
lookup that moves the popped entry to the front, are separate steps. `RemoveFlow` has no
caller in the program and is left out. A call of the code that finds an expired flow or
makes room is one or more `Drop` steps of `FlowMap` followed by its `Act`.

`AclGate` puts the two packet handlers on top of `FlowMap`. What `Decide` sees follows
from a packet's connection and direction, so a policy is the set of (direction,
connection) pairs it allows; a missing file allows none, a file that does not parse
leaves the policy in force. `opened` and `verdict` are history.

A module that another one extends, or whose theorems share a module with those of another, has
prefixed names for its initial states, steps and types: `MapInit`, `GateInit`, `TableInit`, `TofuInit`.

### Packet, PolicyDoc and PolicyFile

A `Packet` is the header fields the parser looks at, at the offsets where a sender puts
them, and the number of bytes that arrived. `ParsePacket` and its helpers return the
flow, its kind and, for the model only, how far they have read: reading past `len` would
be a panic in the code. `IsPacket` says which records are packets: any numbers in the fields, four bits of
header length, and a chain of extension headers up to the first header of another type. Every
string of bytes has such a description, since what lies behind the last byte may be anything. The walk
along the extension headers is the first header that ends it (`Stop`), not a loop. `ExtractIP` is the dispatcher's own reading of the addresses, which
must succeed on every packet the parser accepts. `SendReject` builds the answer to a refused packet as another packet,
so that the same parser can say what it is. Addresses are reduced to whose flow it is,
the packet's own or that of the packet an ICMP error quotes. Checksums and sequence
numbers, which `sendReject` leaves at 0, are left out.

A document is a record with the fields of the TOML file; `Valid` is
`validateAndCompile`, `Compile` resolves names and tags to keys, and `Decide` is the first
matching rule, overruled by `outbound_only`, then the default. `Allowed` says what a
document means without order, compilation or key sets: `DecisionsMeet` and the theorem
`DecideMeets` compare the two.

In `PolicyFile`, `Load` is four steps (stat, read, store, stamp), run by two goroutines side
by side; the operator writes in two steps (any prefix of the rules may be on disk in
between), renames another file with its own time over it, removes it, or changes its
permissions. `watchLoop`'s debounce compares the clock with `lastModTime`, which is both
the time of the last event and the modification time of the last file loaded, as in the
code. `source`, `late` and `excuse` are history.

### Nat

Each node has at most one session with the other. A session gathers candidates and sends
its nonce, waits for the first signal, probes, and ends by pointing the endpoint at the
path it found or at a proxy to the relay. `DeliverSignal` may bring any signal that was
ever sent. A session's context and an answer's expiry are counters, a tick is 5 s, and the
clock waits for a session whose time is up, so a late goroutine is not modelled but a
slow one is: all steps between two ticks interleave. OnPunchTimeout has four steps (look
at the peer, dial, install, point), OnPeerRemoved and the removal from the table are two.
Candidates, STUN and encryption are left out: a probe with its reply is one step, because
the nonces it depends on do not change while a session probes.

### Relay

One connection has a handler goroutine, then is in the `waiting` map with a timer, then has
a splice that reads from it. The service's mutex is released between the steps of an
eviction (take off the map, then close) and of Close (empty the map, close one
connection after another, close the listener, join the splices), so all of these
interleave. Closing is idempotent: whoever is first releases the slot.

### Tofu

The daemon and the command are two processes that read one file and replace it by way of
one temporary name. `Check` changes memory and then saves in two steps, with a crash or
a failure possible before each; `RestartDaemon` loads the file, in any order of its pins.
`trusted` and `clean` are history: whom `Check` has let through, and whether file and
memory can differ by a failed save or a command. The write of the temporary file is one step: a command that renames
a file another process is in the middle of writing is left out.

## 3. Runs

Only `relay` checks liveness and assumes fairness: weak fairness of each handler, timer,
splice and Close. The code justifies it: goroutines run, the handshake has a deadline
(`SetDeadline`), timers fire, and a read from a closed socket fails at once. Nobody is
made to dial, to hang up or to call Close. Deadlock is checked everywhere but in
`coord_sync`, whose system may come to rest, and in `relay`, whose connections are
finitely many.

| Run | Instance | Result |
|---|---|---|
| `registry` | 3 peers, 2 keys, 2 names that fold alike, 3 addresses, limit 2, hour and TTL of 2 units, 4 instants | `Unique`, `CountExact`, `LeftReusable`, `NewcomerPlaced`, `SweepNotEarly`, `IdentityStable` hold |
| `session` | 2 readers, window of 3, threshold 7 | no replay, window exact |
| `peer_table` | 2 peers, 2 addresses, 2 endpoints, 2 names with one label, 3 references | `IndexSound`, `Routable`, `SlotsKept` hold |
| `tunnel` | 2 Inits in all, 1 restart or replaced entry, 3 instants, clocks one unit apart | Inits answered once, sessions confirmed before use |
| `coord_sync` | 2 peers, 2 handlers, channels of 1, one lost stream or answer, one stop or restart | `TablesAgree`, `ConnectedSpared` hold |
| `flow_table` | 2 keys in 2 shards, room for 1 flow, 4 entries, 2 attempts of the insertion loop | implements `FlowMap`, counter exact |
| `flow_table_list` | the same | `ListMatches` is violated (finding) |
| `acl_gate` | 2 connections, all 16 policies | only admitted connections pass |
| `policy` | 16 documents to start from (12 of them invalid in one field each) and one to change to, 3 changes, 1 SIGHUP, 3 instants with a debounce of 1; 41,600 packets, 3 keys | `ParseMeets`, `DecisionsMeet`, `StaleExplained` hold |
| `nat` | one node with two sessions and a relay, one with one session, each restarted at most once | `FoundGenuine`, `AnswersOutlive`, `ProxiesOwned` hold |
| `relay` | 3 connections on one channel, two of them of one client, 1 that fails, 2 calls of Close, 3 slots, 2 for each IP | `LimitsKept`, `NoLeak`, `AllEnd` hold |
| `tofu` | 2 keys, 3 addresses, 1 old address kept, 1 failed save, 1 command | all three properties hold |

Why the bounds are enough to make the interesting cases happen:

* Registry: three peers for three addresses and a limit of two exercise fresh addresses,
  reuse among several freed ones, exhaustion and the limit. Four instants let one
  address be freed before another and a record become stale. Two concurrent callers
  would only interleave on the endpoint map, which no property reads, so the run has
  one caller and no endpoints; the proofs have any number of both.
* Session: nonces 0 to 6 over a window of 3 give steps forward by less than, exactly and
  more than the window, and repeats on either side of its edge.
* PeerTable: three references for two peers let an entry be replaced while the old one
  is still around; two endpoints let one move back and forth. `MCInit` starts from one of
  the heaps `TableInit` allows, since what an unreferenced entry holds is overwritten before
  anybody reads it.
* Tunnel: two Inits are what a simultaneous start, a retry and a repeated Init need;
  a rekey limit and a skew of at most two units let sessions and timestamps age.
* CoordSync: a channel of one is full after one event; two handlers let an old and a new
  stream of one peer, or streams of both peers, overlap.
* FlowTable: room for one flow makes every second insertion evict, from the other shard;
  four entries are more than two calls, the list and the expirer can point at.
  `MaxAttempts` only bounds the loop that makes room; the code's loop has no bound, which
  is part of the finding. The view hides what entries no pointer leads to still hold.
* AclGate: all policies on two connections, so reloads go from any to any other.
* PolicyFile: three changes are a write in two steps and one more, before or after it; with
  one SIGHUP two loads overlap in every way. The packets are IPv4 headers with and
  without options, IPv6 with up to two extension headers, all transports, cut around
  every length the parser compares with, and ICMP errors with whole, short and odd quotes.
* Nat: the node with two sessions can meet an old answer, an old signal and an old proxy of
  its own; the other one can be ended, restarted or slow. A tick of 5 s is the largest
  that divides all the timers.
* Relay: two connections of one client let a reconnection race the timer, the partner and
  Close; four connections for three slots make one be refused, or admitted when a slot is
  released twice.
* Tofu: with one old address kept, the third address a key moves to releases the first; a
  second key may then claim any of the three. One command and one failure meet the
  daemon at each of its steps. More commands were explored once (2.4 million states)
  with the same result.

## 4. Findings

One run ends with a counterexample, of a property a comment of the repository states.

* `flow_table_list`: an entry that an eviction has popped can be unlinked again by a
  lookup, after which eviction list and maps no longer hold the same flows.

The models also show where documents and comments promise more than the code does. No
run is about these; the modules have the behaviour and the properties are stated so as
to hold with it.

* `docs/ACL.md:50` lets replies to an allowed connection always pass. Replies to an inbound
  connection are put to the outbound policy (`internal/dataplane/dispatcher.go:291`), and
  flows this node starts are entered as new and never established, so what comes back is
  judged anew.
* `cmd/veld/main.go:516` says that after `veld tofu forget` the next handshake pins the new
  key. The daemon has its pins in memory (`internal/daemon/daemon.go:274`), refuses the new
  key as before, and writes the old pin back with its next save.
* `docs/ACL.md:69`, `internal/acl/loader.go:131` and `compile.go:181` call a missing local policy
  a deferral to the network's. The daemon has no network policy, and an empty swap denies
  everything: `DecisionsMeet` says "none does while no document is loaded".
* `docs/ACL.md:94` promises automatic reload and that open flows are checked again. Flows are
  not looked at; and `StaleExplained` names the four ways in which the policy in force stays
  behind the file: a second event within 100 ms, a chmod, a change before the
  watcher is started, and a load that is overtaken by another. A prefix of a file that is
  being written is loaded if it is valid by itself.
* A packet whose protocol field is 0 leaves without a question to the policy, a later fragment
  is judged with port 0, an ICMP error by the flow it quotes. The extension headers of an
  IPv6 quote are not walked, so a reject names no ports for such a packet.
* The warning that a rule can never match (`internal/acl/policy.go:253`) is given for ordinary
  rules between two different peers.
* `internal/nat/manager.go:491` says receiving sessions ignore duplicate signals. One that comes
  after its session has ended is held, and the next session takes it as its first:
  both nodes then probe with nonces that do not match until they time out, and a later
  session may take over the answers of one the peer is still probing for. `AnswersOutlive`
  and `FoundGenuine` are what remains.
* A removal that overtakes the relay fallback leaves a proxy for a peer that is gone, or an
  endpoint that is a closed proxy; a proxy that fails stays the endpoint. `ProxiesOwned`
  excludes the first case by name (`overtaken`) and says nothing of the last.

Some properties are weaker than one might wish, because the code does not give more:

* `LeftReusable` is about addresses of peers that left. The sweep leaves the address of an
  expelled peer marked as assigned: nobody holds it and nobody can be given it, so
  a network may report its address space exhausted while it is empty.
* `TablesAgree` lets a client keep peers that have left: the snapshot after a reconnection
  only adds peers, so a LEAVE published in between is never made up for. The property says
  that there is no other way.
* `ConfirmedBeforeUse` does not say that the other end can still open what is sent: a second
  Init overwrites a pending session whose initiator may already be sending under it,
  and if the second answer is lost that lasts until the next rekey.
* `TrustedPinned` ends with a failed save: the pin stays in memory, the peer's next
  handshake passes on it, and a restart loses it.
* With three connections of one client, a reconnection that loses the race for the
  eviction finds another connection of the same client waiting and is spliced to it.
  `Relay` has that step (`Pair` after `EvictOld`); such a pair ends like any other.

## 5. Proofs

The theorems hold for all values of the constants under the named `ASSUME`s of the
modules, which say no more than that sizes are natural numbers, that sets of peers, connections
and entries are finite, that two nodes are two where a module is about two, that packets are
packets (`IsPacket`), and that null values are not members of the sets they stand apart from.

**RegistryProofs.** The invariant is cut into layers, each proved from the ones before.
`TypeOK` comes first. `DbInv` joins `CountExact` and the two halves of `Unique` with
`UncreatedEmpty` (a network that does not exist has no peers), without which
`CreateNetwork` could reset the count of a populated network. `HeldMarked` and
`FreedMarked` relate the marks of the allocator to the history of who held what when:
an address that somebody has held has a mark, and a freed one carries its time.
`SeenInv` bounds how far the stored LastSeen lies behind the real one. From them
follow `LeftReusable` and the action properties `NewcomerPlaced` (fresh addresses first,
then the longest free one, within the limit: a theorem for each part), `IdentityStable`
and `SweepNotEarly`.

**PacketPathProofs, the session.** `NoReplay` is not inductive: the marks that keep a nonce from being
accepted again have to be tied to what was handed on. `BitsExact` says, for every
nonce no more than a window behind the newest, that its bit is set exactly if its packet
was handed on, and that nothing ahead of the newest was. The one delicate step is an
advance of the window, where positions of different nonces meet modulo the window
size; the lemmas on `%` cover it.

**PacketPathProofs, the peer table.** `TableTypeOK`, `IndexSound` and `Routable` together are inductive:
`Routable` needs that an address slot leads to the entry with that address, and
`IndexSound` needs that a dropped slot was the peer's own. `SlotsKept` follows from them.

**PacketPathProofs, access control.** `GateInv` joins `GateTypeOK` and `AdmittedOnly` with
`CallsMatch` (a loop in a call has a packet in hand for the same connection, and only a
start creates a flow), `EstablishedOpened` (every established flow was opened by an
allowed inbound start, or is about to be by the start that has just entered it) and
`FoundOpened` (the same of the flow an inbound call has found, wherever it has gone since).

**FlowTableProofs.** `ImplementsMap` is the refinement: the initial states map to initial
states, and every step of the code, mapped by `StateOf` and `CallOf`, is a step of `FlowMap` or
none. Its invariant says of the list only where its pointers may lead, and needs no more: the
finding of section 4 shows that list and maps may disagree, the theorem that the maps are right
all the same. `Keyed` says that an entry in a map carries the key it is found under, and that
what the list or a call points at has a key, so that an eviction with a stale pointer removes a flow
of the shard it has locked or none. `Exclusive` says that nobody shares a shard's lock (the lock
is not a variable). `AllPlaced` is what a call knows at its position and what stays true until
it moves on: that its flow is there, or is not, through the eviction of another one. With
these `CountMatches` is inductive: each way to insert or remove a flow changes the number of
flows by one, and once only. Keys, shards, entries, limits and attempts are any number.

**RelayProofs.** `LimitsKept` follows from `Counted`: the counters of `admit` are the numbers of
open sockets, in total and from each IP, although up to five goroutines close one connection.
`NoLeak` needs to know where each connection stands. `Charged` is its first half. `Seated` says
that whoever waits does so on its own channel, with its handler done and no partner; `Paired`
that a pair is mutual and of one channel; `Attended` that an active connection has a splice that
will forget it; `Evicting` and `Closers` what handlers and Close know between the steps
in which they hold the lock, in particular that nothing waits once the service is closed.
`PairsMatch` states `Paired`, and `NothingAfterClose` the action property that a pair is for good
and that after Close nothing is placed or spliced.

**HandshakeProofs, the tunnel.** `ConfirmedBeforeUse` needs `SendsInstalled`: the session in the active slot is
one its initiator has, because a responder keeps its own in the pending slot until data under it
arrives. `AnsweredOnce` rests on three facts about timestamps. `Recorded`: the replay file
still shuts out every Init that was answered, or the Init is too old to be accepted. `Remembered`:
memory is not behind the file, but for what has aged (`PruneTimestamp`, and the load after
a restart). `Handled`: an Init in hand is the newest, is on disk before it is answered, and has
no answer yet. The two clocks are any offset apart, packets come back at any time, and
restarts keep only the file.

**HandshakeProofs, the TOFU store.** Pins travel: memory is written to a temporary file, renamed, loaded
again, and a command does the same beside the daemon. `Sound` therefore says of every set of pins in play,
in a memory or in a file, that it is one `Check` could have built: no address in two pins and none twice in
one. With it, `load` gives back maps that agree, whatever order it takes the pins in, and `OwnersMatch` is
inductive. `TrustedPinned` needs `Lasting`: while no save has failed and no command has run, file and memory
both hold every address that was let through, and the temporary file is what memory is. `Without`, which
takes the claimed address out of the old ones, is written by rank and not with the library's filter, which
is recursive; that it keeps a sequence of distinct addresses distinct is `Ranked` and the lemmas
after it.

**CoordSyncProofs.** `ConnectedSpared` rests on `Counted` (the number the server keeps for a peer is the
number of handlers that have marked it, however many streams of it overlap) and `Spared` (whom the sweep is
about to delete has no stream, and is not on its way to one: from Register until its stream is marked a peer
stays fresh). The two halves of `TablesAgree` are about what has yet to happen, so the invariant
follows each event from its commit to the client. `Announced`: a registered peer is known, or its JOIN is
unpublished, or it is the last thing the channel says of the peer, or the channel is silent about it and the snapshot
has it or will. `Forgotten`: a peer that has left and is in the table, the snapshot or a JOIN in
the channel is a ghost, or its LEAVE is unpublished or the last thing the channel says of it. The
delicate steps are the snapshot, which comes after the subscription and may be older or newer than
what is in the channel, and a LEAVE or JOIN that is published after the next one of the same peer has committed
(`late`, `ghosts`). Events wait in a bag and are published in any order; peers, handlers and
channels are any number.

**NatProofs.** A signal is the nonce of a session and may arrive at any time, so the
invariant is about every nonce ever sent. `Origins` says that a node's current nonce is that of
the session it started last, and that what it has of the other was sent by the other. `Taken` ties
the history `took` to what was sent, `Answering` the answers to `took`: from these follows
`FoundGenuine`. `AnswersOutlive` is an inequality between two clocks, and inductive only in
the form of `Outlasts`: whoever has taken the nonce of a session that waits or probes has an
answer with more time left than that session has. It holds because an answer is given
twice the probe timeout and a session never more than the session timeout, and because the clock takes both
down together. `Falling` is what a fallback that no removal has met may rely on, and
`ProxiesOwned` needs it at each of its four steps.

**PolicyProofs.** `DecideMeets` is about operators only: for every valid document, the
compiled policy allows what `Allowed` says. It rests on a lemma for each stage, names to
keys, port ranges, one rule. `CombineBoth` says the same of two policies together.
`PolicyTypes` and `PolicyDecisions` are about the state: `Linked` says that what is in force
is the compilation of its source, that sources and what the loaders have read are valid,
and that there are no more events than changes. `PolicyFollowsFile` states
`StaleExplained`. Its invariant `Followed` says that, as long as there is no excuse, the policy is
up to date and no loader is about to change that, or the file cannot be used, or
something is underway: an event, a loader that has yet to look, or one that has read what the file holds.
The delicate steps are the stores: one of what the file holds turns every other
loader that is about to store into a late one, and one of anything else is late itself or
leaves another underway.

`PacketsParsedRight` states `ParseMeets`, for any set of packets. `TransportReads` is about the transport header,
which starts anywhere in the packet. `IPv4Right` and `IPv6Right` are the two ways to it, and `ResetRight` and
`ProhibitedRight` read the packets that `sendReject` builds. The chain of extension headers takes an
induction, and the library's induction theorems cannot be used here; a set of numbers that has no
least element is empty (`LeastNat`, from the well-foundedness of the naturals), and that serves instead: `PlacesExist` and `Starts`
show that the recursive function `Start` is what its definition says, and `WalkStops` that the header
at which the walk stops lies within the packet, because the one before it was not cut.

The inductive invariants of `CoordSync`, `Tofu`, `FlowTable`, `Relay`, `Tunnel`, `Nat` and `PolicyFile` were checked by TLC on
the instances of the runs before they were proved. For the proofs, `Nat` has `NilAssumption`:
the null values are no nonces and no sessions.

**Only model-checked.** `AllEnd` of `Relay` is liveness and stays with TLC, since liveness and
`ENABLED` are out of reach of the installed provers. Every safety property and every action property of the
passing runs is a theorem, and so is the refinement of `FlowMap`.

## 6. Not modelled

* **Signals on the bus, signature replay cache, the relay's cache of handshakes.** Each is a map
  with a limit under one mutex. What the rest of the system sees of the first is in `Nat`
  (a signal may come late, repeatedly or never), of the second a call that fails and is
  retried with a later timestamp (`Fails` of `CoordSync`), of the third a handshake that
  fails (`HandshakeFails` of `Relay`).
* **Candidates and STUN** decide which addresses are probed; that no reply comes is always
  possible in `Nat`.
* **Cryptography** is perfect: keys, signatures and Noise do what they should.
* **Rate limiter, PROXY protocol, configuration, DNS, mDNS, routes, TUN devices,
  coexistence, commands, tray, IPC**: arithmetic on time, operating-system calls, parsing, or
  no state of their own. The generated protocol code (`gen/`) carries no control.
* **TOML.** A policy document is what the parser makes of the file; the warnings are left out.

## 7. Plan

Done: registry, session, peer table, tunnel, coordinator synchronisation, flow table and
its abstraction, access control, packets, policies and their file, NAT traversal and the
relay fallback, relay service, TOFU store; proofs of every safety property of theirs. In order of
importance, what is left:

1. Liveness under the fairness of the retry loops: a client that keeps running gets its
   stream, an Init over a network that delivers is answered.
2. What becomes of open connections when the policy or the coordinator withdraws a peer:
   `AclGate` with `PolicyFile` in place of its sets.
