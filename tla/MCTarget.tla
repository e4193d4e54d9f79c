------------------------------- MODULE MCTarget -------------------------------
(***************************************************************************)
(* Targets of three digits to the base four, windows of three blocks: two  *)
(* adjustments from every configured target, with spans below, within,     *)
(* between and beyond the clamps.                                          *)
(***************************************************************************)
EXTENDS Target

MCGaps == {0, 1, 9}
===============================================================================
