------------------------------ MODULE PeerTable ------------------------------
(***************************************************************************)
(* The node's peer table (internal/peer/table.go and the endpoint of       *)
(* internal/peer/state.go's Entry): entries on the heap, and four indexes  *)
(* of pointers to them.  Every method runs under the table's mutex and is  *)
(* one action.                                                             *)
(*                                                                         *)
(* Pointer equality decides which slots a method may touch, so entries are *)
(* references into a heap.  Keys, routes and the session of an entry are   *)
(* no concern of the table.                                                *)
(***************************************************************************)
EXTENDS Naturals

CONSTANTS
  Peer,      \* Ed25519 public keys
  Addr,      \* valid VPN addresses
  Endpoint,  \* valid UDP endpoints
  Name,      \* names other than ""
  Label,     \* names in lower case
  Lower,     \* strings.ToLower
  Ref,       \* addresses of entries on the heap
  NoRef, NoAddr, NoEndpoint, NoName

ASSUME LowerAssumption == Lower \in [Name -> Label]
ASSUME SlotAssumption ==
  /\ NoRef \notin Ref
  /\ NoAddr \notin Addr
  /\ NoEndpoint \notin Endpoint
  /\ NoName \notin Name

VARIABLES
  heap,        \* [Ref -> Entry]
  byID, byVPN, byEndpoint, byName   \* the indexes; NoRef where a map has no key

index == <<byID, byVPN, byEndpoint, byName>>
tableVars == <<heap, byID, byVPN, byEndpoint, byName>>

Entry == [id: Peer, vpn: Addr \cup {NoAddr}, name: Name \cup {NoName},
          endpoint: Endpoint \cup {NoEndpoint}]
Slot == Ref \cup {NoRef}

TableInit ==
  /\ heap \in [Ref -> Entry]
  /\ byID = [p \in Peer |-> NoRef]
  /\ byVPN = [a \in Addr |-> NoRef]
  /\ byEndpoint = [ep \in Endpoint |-> NoRef]
  /\ byName = [l \in Label |-> NoRef]

\* No index refers to r: an entry the caller of Upsert has just built.
Unreferenced(r) ==
  /\ \A p \in Peer : byID[p] # r
  /\ \A a \in Addr : byVPN[a] # r
  /\ \A ep \in Endpoint : byEndpoint[ep] # r
  /\ \A l \in Label : byName[l] # r
-----------------------------------------------------------------------------
(***************************************************************************)
(* unindex removes the slots of an entry that still point at it.           *)
(***************************************************************************)
Unindex(idx, key, r) ==
  IF r # NoRef /\ key \in DOMAIN idx /\ idx[key] = r
  THEN [idx EXCEPT ![key] = NoRef] ELSE idx

\* Mutant: a newcomer takes the slot over.
TakeOver(idx, key, r, p) ==
  IF key \in DOMAIN idx THEN [idx EXCEPT ![key] = r] ELSE idx

\* The slot is given to r unless it belongs to another peer than p.
Take(idx, key, r, p) ==
  IF key \in DOMAIN idx /\ (idx[key] = NoRef \/ heap[idx[key]].id = p)
  THEN [idx EXCEPT ![key] = r] ELSE idx

LabelOf(nm) == IF nm = NoName THEN NoName ELSE Lower[nm]
-----------------------------------------------------------------------------
(***************************************************************************)
(* Upsert.                                                                 *)
(***************************************************************************)
\* Mutant: an address that belongs to another peer is not refused.
AddrHeldNever(p, a) == FALSE

AddrHeld(p, a) == a # NoAddr /\ byVPN[a] # NoRef /\ heap[byVPN[a]].id # p

UpsertRefused(p, a) == AddrHeld(p, a) /\ UNCHANGED tableVars

Upsert(p, a, nm, ep, r) ==
  /\ Unreferenced(r)
  /\ ~AddrHeld(p, a)
  /\ LET old == byID[p]
         e == IF old = NoRef THEN heap[r] ELSE heap[old]
         vpn == Unindex(byVPN, e.vpn, old)
     IN /\ byVPN' = IF a = NoAddr THEN vpn ELSE [vpn EXCEPT ![a] = r]
        /\ byEndpoint' = Take(Unindex(byEndpoint, e.endpoint, old), ep, r, p)
        /\ byName' = Take(Unindex(byName, LabelOf(e.name), old), LabelOf(nm), r, p)
  /\ byID' = [byID EXCEPT ![p] = r]
  /\ heap' = [heap EXCEPT ![r] = [id |-> p, vpn |-> a, name |-> nm, endpoint |-> ep]]
-----------------------------------------------------------------------------
(***************************************************************************)
(* UpdateEndpoint is a hint, ClaimEndpoint follows a handshake.            *)
(***************************************************************************)
Owner(ep) == IF ep = NoEndpoint THEN NoRef ELSE byEndpoint[ep]

SetEndpointRefused(p, ep, claim) ==
  /\ byID[p] = NoRef \/ (~claim /\ Owner(ep) \notin {NoRef, byID[p]})
  /\ UNCHANGED tableVars

\* Mutant: the peer that loses the endpoint still believes it has it.
SetEndpointOnly(p, ep, claim) ==
  /\ byID[p] # NoRef
  /\ claim \/ Owner(ep) \in {NoRef, byID[p]}
  /\ heap' = [heap EXCEPT ![byID[p]] = [@ EXCEPT !.endpoint = ep]]
  /\ LET rest == Unindex(byEndpoint, heap[byID[p]].endpoint, byID[p])
     IN byEndpoint' = IF ep = NoEndpoint THEN rest ELSE [rest EXCEPT ![ep] = byID[p]]
  /\ UNCHANGED <<byID, byVPN, byName>>

\* Mutant: an invalid endpoint is indexed like any other.
SetEndpointInvalid(p, ep, claim) ==
  /\ byID[p] # NoRef
  /\ claim \/ Owner(ep) \in {NoRef, byID[p]}
  /\ heap' = [heap EXCEPT ![byID[p]] = [@ EXCEPT !.endpoint = ep]]
  /\ byEndpoint' = [k \in Endpoint \cup {ep} |-> IF k = ep THEN byID[p] ELSE byEndpoint[k]]
  /\ UNCHANGED <<byID, byVPN, byName>>

SetEndpoint(p, ep, claim) ==
  /\ byID[p] # NoRef
  /\ claim \/ Owner(ep) \in {NoRef, byID[p]}
  /\ heap' = [r \in Ref |->
       IF r = byID[p] THEN [heap[r] EXCEPT !.endpoint = ep]
       ELSE IF r = Owner(ep) THEN [heap[r] EXCEPT !.endpoint = NoEndpoint]
       ELSE heap[r]]
  /\ LET rest == Unindex(byEndpoint, heap[byID[p]].endpoint, byID[p])
     IN byEndpoint' = IF ep = NoEndpoint THEN rest ELSE [rest EXCEPT ![ep] = byID[p]]
  /\ UNCHANGED <<byID, byVPN, byName>>

UpdateEndpoint(p, ep) == SetEndpoint(p, ep, FALSE) \/ SetEndpointRefused(p, ep, FALSE)
ClaimEndpoint(p, ep) == SetEndpoint(p, ep, TRUE) \/ SetEndpointRefused(p, ep, TRUE)

\* Mutant: the name keeps pointing at the removed entry.
RemoveKeepsName(p) ==
  LET e == byID[p] IN
  /\ e # NoRef
  /\ byID' = [byID EXCEPT ![p] = NoRef]
  /\ byVPN' = Unindex(byVPN, heap[e].vpn, e)
  /\ byEndpoint' = Unindex(byEndpoint, heap[e].endpoint, e)
  /\ UNCHANGED <<heap, byName>>

Remove(p) ==
  LET e == byID[p] IN
  /\ e # NoRef
  /\ byID' = [byID EXCEPT ![p] = NoRef]
  /\ byVPN' = Unindex(byVPN, heap[e].vpn, e)
  /\ byEndpoint' = Unindex(byEndpoint, heap[e].endpoint, e)
  /\ byName' = Unindex(byName, LabelOf(heap[e].name), e)
  /\ UNCHANGED heap

TableNext ==
  \E p \in Peer :
    \/ \E a \in Addr \cup {NoAddr} :
         \/ UpsertRefused(p, a)
         \/ \E nm \in Name \cup {NoName}, ep \in Endpoint \cup {NoEndpoint}, r \in Ref :
              Upsert(p, a, nm, ep, r)
    \/ \E ep \in Endpoint \cup {NoEndpoint} : UpdateEndpoint(p, ep) \/ ClaimEndpoint(p, ep)
    \/ Remove(p)

TableSpec == TableInit /\ [][TableNext]_tableVars
-----------------------------------------------------------------------------
(***************************************************************************)
(* Properties.                                                             *)
(***************************************************************************)
\* The heap holds entries and the indexes hold pointers to them.
TableTypeOK ==
  /\ heap \in [Ref -> Entry]
  /\ byID \in [Peer -> Slot]
  /\ byVPN \in [Addr -> Slot]
  /\ byEndpoint \in [Endpoint -> Slot]
  /\ byName \in [Label -> Slot]

Current(r) == byID[heap[r].id] = r

\* Every slot of every index points at an entry the table still holds and which
\* has the slot's key: no packet, address or name ever leads to an entry that
\* Upsert replaced or Remove deleted.
IndexSound ==
  /\ \A p \in Peer : byID[p] # NoRef => heap[byID[p]].id = p
  /\ \A a \in Addr : byVPN[a] # NoRef => Current(byVPN[a]) /\ heap[byVPN[a]].vpn = a
  /\ \A ep \in Endpoint : byEndpoint[ep] # NoRef =>
       Current(byEndpoint[ep]) /\ heap[byEndpoint[ep]].endpoint = ep
  /\ \A l \in Label : byName[l] # NoRef =>
       Current(byName[l]) /\ LabelOf(heap[byName[l]].name) = l

\* Every peer of the table is found by its VPN address, so no two share one.
Routable ==
  \A p \in Peer : byID[p] # NoRef =>
    LET a == heap[byID[p]].vpn IN a # NoAddr => byVPN[a] = byID[p]

\* An address or a name passes to another entry only in a step that removes or
\* replaces the entry that owns it: nobody else's Upsert takes it over.
OwnerKeeps ==
  /\ \A a \in Addr : byVPN[a] # NoRef /\ byVPN'[a] # byVPN[a] =>
       byID'[heap[byVPN[a]].id] # byVPN[a]
  /\ \A l \in Label : byName[l] # NoRef /\ byName'[l] # byName[l] =>
       byID'[heap[byName[l]].id] # byName[l]

\* A peer that loses its endpoint to another in a step, and stays in the table,
\* has no endpoint or a new one after it: the data plane stops sending there.
LoserForgets ==
  \A ep \in Endpoint : byEndpoint[ep] # NoRef /\ byEndpoint'[ep] # byEndpoint[ep] =>
    LET r == byEndpoint[ep] IN
      byID'[heap[r].id] = r => heap'[r].endpoint # ep

\* What a step may do to the slots of a peer it is not about: nothing to its
\* address and name, and to its endpoint only with the peer's own knowledge
\* (Upsert, setEndpoint).
SlotsKept == [][OwnerKeeps /\ LoserForgets]_tableVars
=============================================================================
