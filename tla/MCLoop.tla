------------------------------- MODULE MCLoop -------------------------------
(***************************************************************************)
(* A camera feeding an encoder: two descriptors, the source first.          *)
(***************************************************************************)
EXTENDS PitcherLoop

LChn == {"camera", "encoder"}
LOrder == <<"camera", "encoder">>
LSource == [c \in LChn |-> IF c = "encoder" THEN "camera" ELSE "none"]
LNone == "none"
=============================================================================
