----------------------------- MODULE MCCoordSync -----------------------------
(***************************************************************************)
(* An instance of CoordSync for TLC.                                       *)
(***************************************************************************)
EXTENDS CoordSync, TLC

MCSymmetry == Permutations(Peer) \cup Permutations(Handler)
=============================================================================
