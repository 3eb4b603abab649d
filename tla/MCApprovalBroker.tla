-------------------------- MODULE MCApprovalBroker --------------------------
(***************************************************************************)
(* Instances of ApprovalBroker for TLC: two kinds of request, a context    *)
(* that may decide both, one that may decide tool calls only, one that may *)
(* decide nothing.                                                         *)
(***************************************************************************)
EXTENDS ApprovalBroker, TLC

CONSTANTS p1, p2, r1, r2, exec

MCTypes       == {"tool_call", "memory_write"}
MCKinds       == {<<"tool_call", exec>>, <<"memory_write", NoTool>>}
MCPermissions == {"approval.tool.call", "memory.write", "approval.admin"}
MCRequired    == [t \in MCTypes |->
                    IF t = "tool_call" THEN {"approval.tool.call", "approval.admin"}
                                       ELSE {"memory.write", "approval.admin"}]
MCContexts    == {{}, {"approval.tool.call"}, {"approval.admin"}}

Symmetry == Permutations(Requests)
=============================================================================
