------------------------- MODULE MCSessionCompaction -------------------------
(***************************************************************************)
(* Instances of SessionCompaction for TLC.                                 *)
(***************************************************************************)
EXTENDS SessionCompaction, TLC

CONSTANTS t1, t2, alice

Symmetry == Permutations(Turns)
=============================================================================
