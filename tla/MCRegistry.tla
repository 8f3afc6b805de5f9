----------------------------- MODULE MCRegistry -----------------------------
(***************************************************************************)
(* Instances of Registry for TLC.                                          *)
(***************************************************************************)
EXTENDS Registry, TLC

CONSTANTS lower, upper

\* "laptop" and "Laptop" fold to one label.
MCName == {lower, upper}
MCFold == [nm \in MCName |-> "laptop"]

\* Peers, keys and, as they fold alike, names are interchangeable.
Symmetry == Permutations(Peer) \cup Permutations(Key) \cup Permutations(Name)
=============================================================================
