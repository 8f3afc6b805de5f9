---------------------------- MODULE MCFlowTable ----------------------------
(***************************************************************************)
(* FlowTable with two flow keys in shards of their own and room for one    *)
(* flow, so that nearly every insertion has to evict.                      *)
(***************************************************************************)
EXTENDS FlowTable, TLC

CONSTANTS c1, c2

TwoShards == [c \in Conn |-> IF c = c1 THEN 1 ELSE 2]

Symmetry == Permutations(Entry)

\* What an entry no pointer leads to still holds is never read again.
Live ==
  <<flows, [e \in Entry |-> IF Unused(e) THEN Nil ELSE rec[e]], lru, flowCount, job, expirer>>
=============================================================================
