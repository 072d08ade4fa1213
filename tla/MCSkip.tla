------------------------------ MODULE MCSkip ------------------------------
(***************************************************************************)
(* Frame rates of up to 12 a second, two seconds long.                      *)
(***************************************************************************)
EXTENDS PipeSkip

SRates == 1 .. 12
=============================================================================
