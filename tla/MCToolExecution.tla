--------------------------- MODULE MCToolExecution ---------------------------
(***************************************************************************)
(* Instances of ToolExecution for TLC.  Three tools: "write" needs an      *)
(* approval by policy, "fetch" by a rule unless an earlier rule allows its *)
(* arguments, "exec" because it is destructive (hence serial); exec's      *)
(* risky commands are denied.  ToolExecution.cfg has the last two,         *)
(* ToolExecutionRetry.cfg the first and the last.                          *)
(***************************************************************************)
EXTENDS ToolExecution, TLC

CONSTANTS p1, p2, r1, r2, write, fetch, exec, b1, b2, plain, risky

MCTypes       == {"tool_call", "memory_write"}
MCKinds       == {<<"memory_write", NoTool>>}
MCPermissions == {"approval.tool.call", "memory.write", "approval.admin"}
MCRequired    == [t \in MCTypes |->
                    IF t = "tool_call" THEN {"approval.tool.call", "approval.admin"}
                                       ELSE {"memory.write", "approval.admin"}]
MCContexts    == {{"approval.admin"}}
MCPolicy      == [t \in Tools |-> IF t = write THEN "ask" ELSE "allow"]
MCRuleList    == <<[tool |-> fetch, args |-> {plain}, action |-> "allow"],
                   [tool |-> fetch, args |-> {plain, risky}, action |-> "ask"]>>
MCDenied      == {{risky}}
MCHome        == [b \in Batches |-> p1]
Symmetry      == Permutations(Requests)
NoRules       == <<>>
MCModeOf      == [b \in Batches |-> IF b = b1 THEN "manual" ELSE "deny"]
AutoMode      == [b \in Batches |-> "auto_for_tests"]
TwoBatches    == [c \in Calls |-> IF c = 1 THEN b1 ELSE b2]
=============================================================================
