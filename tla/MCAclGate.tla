----------------------------- MODULE MCAclGate -----------------------------
(***************************************************************************)
(* AclGate on two connections and every policy on them.                    *)
(***************************************************************************)
EXTENDS AclGate, TLC

AnyPolicy == SUBSET (Dir \X Conn)
Symmetry == Permutations(Conn)
=============================================================================
