----------------------------- MODULE MCModelTurn -----------------------------
(***************************************************************************)
(* An instance of ModelTurn for TLC: t1 may call two tools at once, one    *)
(* after another or beside each other; t2 and t3 only ask and answer, and  *)
(* their questions are longer than the target of a cut.                    *)
(***************************************************************************)
EXTENDS ModelTurn

CONSTANTS p1, r1, write, edit, b1, b2, t1, t2, t3, plain

MCTypes       == {"tool_call"}
MCPermissions == {"approval.tool.call", "approval.admin"}
MCRequired    == [t \in MCTypes |-> MCPermissions]
MCPolicy      == [t \in Tools |-> IF t = write THEN "ask" ELSE "allow"]
MCRuleList    == <<>>
MCHome        == [b \in Batches |-> p1]
MCModeOf      == [b \in Batches |-> "deny"]
MCBatchOf     == [c \in Calls |-> IF c < 3 THEN b1 ELSE b2]
MCBatchAt     == [t \in Turns |-> IF t = t1 THEN <<b1, b2>> ELSE <<>>]
MCSizesOf     == [t \in Turns |-> IF t = t1 THEN {3} ELSE {5}]

\* Bound: the third line is typed on an object that was loaded after an answer,
\* and in a chat that makes one tool call at most.
ThirdLine ==
  turn'[t3].pc # "idle" =>
    /\ turn[t3].pc # "idle" \/ Len(session) > 1
    /\ \A c \in Calls \ {1} : call'[c].pc = "idle"
=============================================================================
