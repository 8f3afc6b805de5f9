-------------------------------- MODULE Tofu --------------------------------
(***************************************************************************)
(* Trust on first use (internal/tofu/store.go): the store of the running   *)
(* daemon, which pins the Ed25519 key of a peer to its VPN address when a  *)
(* handshake succeeds; the file the pins are kept in; and the command      *)
(* `veld tofu forget` (cmd/veld/main.go), another process, with a store of *)
(* its own that it reads from the file and writes back.                    *)
(*                                                                         *)
(* A fingerprint is a function of its key and is left out.  A save is two  *)
(* steps, the write of a temporary file, which has the same name in both   *)
(* processes, and its renaming.  The pins are saved in the order of a Go   *)
(* map, so load may meet them in any order.                                *)
(***************************************************************************)
EXTENDS Naturals, Sequences, FiniteSets, Functions

CONSTANTS
  Key,              \* Ed25519 keys
  Addr,             \* VPN addresses
  Nil,
  MaxPrevVPNAddrs,  \* old addresses a pin keeps reserved
  MaxFaults,        \* bound on saves that fail for want of disk
  MaxCommands       \* bound on runs of the command

ASSUME NilAssumption == Nil \notin Key /\ Nil \notin Addr
ASSUME LimitAssumption == {MaxPrevVPNAddrs, MaxFaults, MaxCommands} \subseteq Nat

VARIABLES
  pins,       \* the daemon's pins: address and previous addresses of each key
  vpnToPub,   \* the daemon's owner of each address
  file,       \* the pins in the file
  tmp,        \* the temporary file: no pins, or one set of them
  daemon,     \* what the daemon's Check is doing
  cli,        \* what the command is doing, and the pins it will save
  faults, commands,
  \* History, read by the properties only:
  trusted,    \* <<address, key>> let through by Check, not since released
  clean       \* the daemon has started since the last save that failed and
              \* since the last command ended

tofuVars == <<pins, vpnToPub, file, tmp, daemon, cli, faults, commands, trusted, clean>>

NoPin == [addr |-> Nil, prev |-> <<>>]
AtRest == [pc |-> "idle"]

\* The addresses a pin keeps for its key.
Reserved(pin) == ({pin.addr} \cup Range(pin.prev)) \ {Nil}

\* The owners load may make of a file: a current address wins over a previous
\* one, and otherwise the order of the pins decides.
Loaded(f) ==
  LET Current(a) == {k \in Key : f[k].addr = a}
      Claims(a) == {k \in Key : a \in Reserved(f[k])}
  IN  {o \in [Addr -> Key \cup {Nil}] : \A a \in Addr :
         CASE Current(a) # {} -> o[a] \in Current(a)
           [] Current(a) = {} /\ Claims(a) # {} -> o[a] \in Claims(a)
           [] OTHER -> o[a] = Nil}

TofuInit ==
  /\ pins = [k \in Key |-> NoPin]
  /\ vpnToPub = [a \in Addr |-> Nil]
  /\ file = pins /\ tmp = {}
  /\ daemon = AtRest /\ cli = AtRest
  /\ faults = 0 /\ commands = 0
  /\ trusted = {} /\ clean = TRUE
-----------------------------------------------------------------------------
(***************************************************************************)
(* Check, under the store's lock.                                          *)
(***************************************************************************)
\* Mutant: current addresses only.
ForeignCurrent(a, k) == \E o \in Key \ {k} : pins[o].addr = a
Foreign(a, k) == vpnToPub[a] \notin {Nil, k}

\* Check returns nil, and the handshake goes on.
Accept(a, k) == trusted' = trusted \cup {<<a, k>>}

CheckKnown(a, k) ==
  /\ daemon = AtRest
  /\ pins[k].addr = a
  /\ Accept(a, k)
  /\ UNCHANGED <<pins, vpnToPub, file, tmp, daemon, cli, faults, commands, clean>>

\* The handshake is dropped.
CheckRefused(a, k) ==
  /\ daemon = AtRest
  /\ pins[k].addr # a /\ Foreign(a, k)
  /\ UNCHANGED tofuVars

\* s without the members of X, in the order of s.
Without(s, X) ==
  LET keep == {i \in DOMAIN s : s[i] \notin X}
      Rank(i) == Cardinality({h \in keep : h <= i})
  IN  [j \in 1 .. Cardinality(keep) |-> s[CHOOSE i \in keep : Rank(i) = j]]

\* A peer that moves to a keeps its old addresses, the newest first.
Moved(pin, a) ==
  IF pin = NoPin THEN <<>> ELSE <<pin.addr>> \o Without(pin.prev, {a, pin.addr})

\* Mutant: one address too many.
KeptOneMore(prev) ==
  SubSeq(prev, 1, IF Len(prev) > MaxPrevVPNAddrs + 1 THEN MaxPrevVPNAddrs + 1 ELSE Len(prev))

\* The old addresses that stay reserved, and those past the bound.
Kept(prev) ==
  SubSeq(prev, 1, IF Len(prev) > MaxPrevVPNAddrs THEN MaxPrevVPNAddrs ELSE Len(prev))

\* Mutant: one address too few is released.
ExcessOneLess(prev) == Range(SubSeq(prev, MaxPrevVPNAddrs + 2, Len(prev)))
Excess(prev) == Range(SubSeq(prev, MaxPrevVPNAddrs + 1, Len(prev)))

\* A new key, or a known one that moved: memory is changed first, then saved.
CheckPins(a, k) ==
  LET prev == Moved(pins[k], a) IN
  /\ daemon = AtRest
  /\ pins[k].addr # a /\ ~Foreign(a, k)
  /\ pins' = [pins EXCEPT ![k] = [addr |-> a, prev |-> Kept(prev)]]
  /\ vpnToPub' = [x \in Addr |->
       IF x = a THEN k ELSE IF x \in Excess(prev) THEN Nil ELSE vpnToPub[x]]
  /\ trusted' = {t \in trusted : t[1] \notin Excess(prev)}
  /\ daemon' = [pc |-> "write", addr |-> a, key |-> k]
  /\ UNCHANGED <<file, tmp, cli, faults, commands, clean>>

SaveWrite ==
  /\ daemon.pc = "write"
  /\ tmp' = {pins}
  /\ daemon' = [daemon EXCEPT !.pc = "rename"]
  /\ UNCHANGED <<pins, vpnToPub, file, cli, faults, commands, trusted, clean>>

SaveRename ==
  /\ daemon.pc = "rename"
  /\ file' \in tmp /\ tmp' = {}
  /\ daemon' = AtRest
  /\ Accept(daemon.addr, daemon.key)
  /\ UNCHANGED <<pins, vpnToPub, cli, faults, commands, clean>>

\* The disk is full, or the command has renamed the file: Check returns the
\* error and the handshake is dropped, but the pin stays in memory.
SaveFails ==
  /\ daemon # AtRest
  /\ \/ faults < MaxFaults /\ faults' = faults + 1
     \/ daemon.pc = "rename" /\ tmp = {} /\ UNCHANGED faults
  /\ daemon' = AtRest
  /\ clean' = FALSE
  /\ UNCHANGED <<pins, vpnToPub, file, tmp, cli, commands, trusted>>

\* The daemon ends, at any moment, and starts again from the file.
RestartDaemon ==
  /\ pins' = file
  /\ vpnToPub' \in Loaded(file)
  /\ daemon' = AtRest
  /\ trusted' = IF clean THEN trusted ELSE {t \in trusted : vpnToPub'[t[1]] = t[2]}
  /\ clean' = (cli = AtRest)
  /\ UNCHANGED <<file, tmp, cli, faults, commands>>
-----------------------------------------------------------------------------
(***************************************************************************)
(* veld tofu forget: open the store, unpin the owner of the address with   *)
(* all its reservations, and save.                                         *)
(***************************************************************************)
ForgetOpen(a) ==
  /\ cli = AtRest
  /\ commands < MaxCommands /\ commands' = commands + 1
  /\ \E owner \in Loaded(file) :
       cli' = [pc |-> "write", addr |-> a, key |-> owner[a],
               pins |-> [k \in Key |-> IF owner[a] = k THEN NoPin ELSE file[k]]]
  /\ clean' = FALSE
  /\ UNCHANGED <<pins, vpnToPub, file, tmp, daemon, faults, trusted>>

ForgetWrite ==
  /\ cli.pc = "write"
  /\ tmp' = {cli.pins}
  /\ cli' = [cli EXCEPT !.pc = "rename"]
  /\ UNCHANGED <<pins, vpnToPub, file, daemon, faults, commands, trusted, clean>>

ForgetRename ==
  /\ cli.pc = "rename"
  /\ file' \in tmp /\ tmp' = {}
  /\ trusted' = {t \in trusted : t[2] # cli.key}
  /\ cli' = AtRest
  /\ UNCHANGED <<pins, vpnToPub, daemon, faults, commands, clean>>

\* The command is interrupted, or its save fails.
ForgetFails ==
  /\ cli # AtRest
  /\ cli' = AtRest
  /\ UNCHANGED <<pins, vpnToPub, file, tmp, daemon, faults, commands, trusted, clean>>

TofuNext ==
  \/ \E a \in Addr, k \in Key : CheckKnown(a, k) \/ CheckRefused(a, k) \/ CheckPins(a, k)
  \/ SaveWrite \/ SaveRename \/ SaveFails \/ RestartDaemon
  \/ \E a \in Addr : ForgetOpen(a)
  \/ ForgetWrite \/ ForgetRename \/ ForgetFails

TofuSpec == TofuInit /\ [][TofuNext]_tofuVars
-----------------------------------------------------------------------------
(***************************************************************************)
(* Properties.                                                             *)
(***************************************************************************)
Pin == [addr : Addr \cup {Nil}, prev : Seq(Addr)]
Pins == [Key -> Pin]

\* Every variable has its type; a pin keeps at most MaxPrevVPNAddrs old
\* addresses, none of them twice and none of them its current one (the move in
\* Check).
WellFormed(f) == \A k \in Key :
  /\ Len(f[k].prev) <= MaxPrevVPNAddrs
  /\ IsInjective(f[k].prev) /\ f[k].addr \notin Range(f[k].prev)
  /\ f[k].addr = Nil => f[k].prev = <<>>
TofuTypeOK ==
  /\ {pins, file} \cup tmp \subseteq Pins
  /\ \A f \in {pins, file} \cup tmp : WellFormed(f)
  /\ vpnToPub \in [Addr -> Key \cup {Nil}]
  /\ daemon = AtRest \/ daemon \in [pc : {"write", "rename"}, addr : Addr, key : Key]
  /\ cli = AtRest \/ cli \in [pc : {"write", "rename"}, addr : Addr, key : Key \cup {Nil}, pins : Pins]
  /\ faults \in 0..MaxFaults /\ commands \in 0..MaxCommands
  /\ trusted \subseteq Addr \X Key
  /\ clean \in BOOLEAN

\* The two maps of the store agree: an address belongs to a key exactly when
\* the key's pin holds it, now or as a reservation, through moves, releases,
\* restarts and commands (Check, load).
OwnersMatch == \A a \in Addr, k \in Key : vpnToPub[a] = k <=> a \in Reserved(pins[k])

\* A key that Check has let through at an address stays the owner of that
\* address, through its own moves, crashes in the middle of a save and
\* restarts, until the reservation is released; so nobody else is let through
\* there.  It does not outlive a save that fails or a command that runs beside
\* the daemon: what is in memory and what is in the file then differ until the
\* next start (Check, save, load).
TrustedPinned == clean => \A t \in trusted : vpnToPub[t[1]] = t[2]
=============================================================================
