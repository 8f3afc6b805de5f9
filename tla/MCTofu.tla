------------------------------- MODULE MCTofu -------------------------------
(* Small instances of Tofu for TLC. *)
EXTENDS Tofu, TLC

\* Keys and addresses are interchangeable.
Symmetry == Permutations(Key) \cup Permutations(Addr)
=============================================================================
