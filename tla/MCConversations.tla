--------------------------- MODULE MCConversations ---------------------------
(***************************************************************************)
(* Instances of Conversations for TLC.                                     *)
(***************************************************************************)
EXTENDS Conversations, TLC

CONSTANTS m1, m2, m3, c1, c2

Symmetry == Permutations(Messages) \cup Permutations(Convs)
=============================================================================
