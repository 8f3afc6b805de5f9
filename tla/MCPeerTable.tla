----------------------------- MODULE MCPeerTable -----------------------------
(***************************************************************************)
(* An instance of PeerTable for TLC.                                       *)
(***************************************************************************)
EXTENDS PeerTable, TLC

CONSTANTS lower, upper

\* "Nas" and "nas".
MCName == {lower, upper}
MCLower == [nm \in MCName |-> lower]

\* The heap before the table is used is of no interest: start from one.
MCInit ==
  /\ TableInit
  /\ \A r, q \in Ref : heap[r] = heap[q]
  /\ \A r \in Ref : heap[r].vpn = NoAddr /\ heap[r].name = NoName /\ heap[r].endpoint = NoEndpoint

MCSpec == MCInit /\ [][TableNext]_tableVars

MCSymmetry ==
  Permutations(Peer) \cup Permutations(Ref) \cup Permutations(Addr) \cup Permutations(Endpoint)
=============================================================================
