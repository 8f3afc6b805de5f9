------------------------------ MODULE MCTunnel ------------------------------
(***************************************************************************)
(* Instances of Tunnel for TLC.                                            *)
(***************************************************************************)
EXTENDS Tunnel

CONSTANTS a, b

\* The clock of a is one unit ahead.
MCOffset == [x \in Node |-> IF x = a THEN 1 ELSE 0]
=============================================================================
