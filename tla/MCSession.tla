------------------------------ MODULE MCSession ------------------------------
(***************************************************************************)
(* An instance of Session for TLC: a window that is overtaken twice, and   *)
(* two readers that race on one nonce.                                     *)
(***************************************************************************)
EXTENDS Session, TLC

ReaderSymmetry == Permutations(Reader)
=============================================================================
