-------------------------- MODULE MCMemoryProposals --------------------------
(***************************************************************************)
(* Instances of MemoryProposals for TLC.  The approval broker only takes   *)
(* requests here: nobody decides them and the clock stands still.  s0 names *)
(* a secret, s1 and s2 are what redaction makes of it, cut short: in the    *)
(* code it goes on until the content is truncated.  s2 is also a fact      *)
(* without a secret: redaction leaves it alone.                            *)
(***************************************************************************)
EXTENDS MemoryProposals, TLC

CONSTANTS p1, r1, r2, r3, x1, x2, s0, s1, s2

MCTypes       == {"memory_write"}
MCPermissions == {"memory.write"}
MCRequired    == [t \in MCTypes |-> {"memory.write"}]
MCReviewers   == {{}, {"memory.write"}}

MCRedact      == [f \in Texts |-> IF f = s0 THEN s1 ELSE s2]

Symmetry == Permutations(Requests) \cup Permutations(Ids)
=============================================================================
