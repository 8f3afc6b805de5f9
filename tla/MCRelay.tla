------------------------------ MODULE MCRelay ------------------------------
(***************************************************************************)
(* Relay with connections of two clients, one of which dials repeatedly,   *)
(* and one connection that asks for itself and can only fail.              *)
(***************************************************************************)
EXTENDS Relay

CONSTANTS p1, p2, q1, self

Clients == [c \in Conn |-> IF c \in {q1, self} THEN "q" ELSE "p"]
Remotes == [c \in Conn |-> IF c = q1 THEN "p" ELSE "q"]
IPs == [c \in Conn |-> IF c \in {p1, p2} THEN "home" ELSE "cafe"]
=============================================================================
