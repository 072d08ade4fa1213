------------------------------ MODULE MCQueue ------------------------------
(* A queue over four heap cells whose pool keeps at most two idle nodes, so *)
(* that pushes meet an empty pool, removals meet a full one, and a pass     *)
(* runs over up to four nodes.                                              *)
EXTENDS PitcherQueue

CONSTANTS a, b, n1, n2, n3, n4

MCItem == {a, b}
MCNode == {n1, n2, n3, n4}
=============================================================================
