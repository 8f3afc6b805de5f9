------------------------------- MODULE MCNat -------------------------------
(***************************************************************************)
(* Nat with two sessions of a node that has a relay and one of a node that *)
(* has none; either may be restarted once.                                 *)
(***************************************************************************)
EXTENDS Nat

CONSTANTS one, two

Nodes == {one, two}
Relays == {one}
Sessions == [x \in Nodes |-> IF x = one THEN 2 ELSE 1]
Restarts == [x \in Nodes |-> 1]
=============================================================================
