----------------------------- MODULE MCJsonlLog -----------------------------
(***************************************************************************)
(* Instances of JsonlLog for TLC.                                          *)
(***************************************************************************)
EXTENDS JsonlLog

CONSTANTS a, b, c
=============================================================================
