--------------------------- MODULE ToolExecution ---------------------------
(***************************************************************************)
(* StreamingToolExecutor (myclaw/src/tools/executor.js) with the           *)
(* permission engine (tools/permissions.js, tools/policy.js), running the  *)
(* tool calls of model turns against the approval broker of its process.   *)
(*                                                                         *)
(* A batch is one executeAll: its concurrency-safe calls run together,     *)
(* then the others one by one, in the order of the list (calls are         *)
(* numbered in that order).  A call is a coroutine: between two awaits it  *)
(* runs alone in its process, at an await any other handler may run.       *)
(***************************************************************************)
EXTENDS ApprovalBroker

CONSTANTS Calls,       \* tool calls, numbered in the order of their lists
          Batches,     \* executeAll invocations
          BatchOf,     \* BatchOf[c]: the batch that call c belongs to
          Home,        \* Home[b]: the process that runs batch b
          Policy,      \* Policy[t]: "allow", "ask" or "deny" (ToolPolicy)
          Args,        \* arguments of calls, as far as rules tell them apart
          RuleList,    \* tools.rules: the tool (NoTool: any) and the arguments
                       \* that a rule is about, and its action
          Exec,        \* the tool named exec
          Denied,      \* tools.exec.deniedCommands: what each pattern matches
          Permitted,   \* tools.exec.allowedCommands: the same
          Destructive, \* tools that TOOL_CAPABILITIES marks destructive
          Serial,      \* tools that must not run beside others
          ModeOf,      \* ModeOf[b]: approvalMode of b's turn
          CallContext, \* permissions of the context the executor was given
          NoArgs,      \* no arguments: the call was not made yet
          NoRequest    \* a call without approvalId, or without approval

ASSUME ExecutionAssumption ==
  /\ Calls \subseteq Nat
  /\ BatchOf \in [Calls -> Batches]
  /\ Home \in [Batches -> Procs]
  /\ Policy \in [Tools -> {"allow", "ask", "deny"}]
  /\ \A i \in DOMAIN RuleList :
       RuleList[i] \in [tool : Tools \cup {NoTool}, args : SUBSET Args, action : {"allow", "ask", "deny"}]
  /\ DOMAIN RuleList \subseteq Nat
  /\ Denied \subseteq SUBSET Args /\ Permitted \subseteq SUBSET Args
  /\ Destructive \subseteq Serial /\ Serial \subseteq Tools
  /\ ModeOf \in [Batches -> {"manual", "deny", "auto_for_tests"}]
  /\ CallContext \cup {"approval.tool.call", "approval.admin"} \subseteq Permissions
  /\ "tool_call" \in Types
  /\ NoRequest \notin Requests

VARIABLE call   \* call[c]: the coroutine of tool call c

vars == <<brokerVars, call>>

ProcOf(c) == Home[BatchOf[c]]
Mode(c)   == ModeOf[BatchOf[c]]

\* A call that was not made yet.  pc: where the coroutine is.  arg: approvalId
\* among the arguments args.  held: the approved request found on entry.  ran:
\* the tool body was started.
Idle == [pc |-> "idle", tool |-> NoTool, args |-> NoArgs, arg |-> NoRequest, held |-> NoRequest,
         ran |-> FALSE, result |-> "none"]

Points  == {"idle", "waiting", "entering", "checking", "hooked", "asking", "settling",
            "running", "done", "lost"}
Results == {"none", "refused", "asked", "invalid", "ok", "error", "threw"}

CallRecord ==
  [pc : Points, tool : Tools \cup {NoTool}, args : Args \cup {NoArgs}, arg : Requests \cup {NoRequest},
   held : Requests \cup {NoRequest}, ran : BOOLEAN, result : Results]

CallTypeOK == call \in [Calls -> CallRecord]

-----------------------------------------------------------------------------

\* _getApprovedApproval: the request that lets the call through, if any.
Approved(p, r, tool) ==
  /\ r \in Requests
  /\ mem[p][r].status = "approved"
  /\ mem[p][r].tool \in {tool, NoTool}

\* evaluateExecCommandPolicy: the denied commands first, then the allowed ones,
\* if any are listed.
Blocked(args) ==
  \/ \E d \in Denied : args \in d
  \/ Permitted # {} /\ \A a \in Permitted : args \notin a

\* PermissionRules.check: the commands of exec, then the first rule that matches.
Matching(tool, args) ==
  {i \in DOMAIN RuleList : RuleList[i].tool \in {tool, NoTool} /\ args \in RuleList[i].args}

Check(tool, args) ==
  LET rules == Matching(tool, args) IN
  IF tool = Exec /\ Blocked(args) THEN "deny"
  ELSE IF rules = {} THEN "allow"
  ELSE RuleList[CHOOSE i \in rules : \A j \in rules : i <= j].action

\* A variant with a bug: the rules' demand for an approval is ignored.
AsksByPolicy(tool, args, approved) == ~approved /\ Policy[tool] = "ask"

\* canUseTool before its first await: the policy's denial, the approval that
\* the policy asks for, the rules' denial, the approval that a rule asks for.
Asks(tool, args, approved) ==
  /\ ~approved
  /\ Policy[tool] = "ask" \/ (Policy[tool] = "allow" /\ Check(tool, args) = "ask")

Refuses(tool, args, approved) ==
  /\ ~Asks(tool, args, approved)
  /\ Policy[tool] = "deny" \/ Check(tool, args) = "deny"

\* A coroutine between two broker calls of one turn keeps the thread.
Busy(p) == \E c \in Calls : ProcOf(c) = p /\ call[c].pc = "settling"
Awake(c) == up[ProcOf(c)] /\ ~Busy(ProcOf(c))

Finished(c, result) == [call EXCEPT ![c].pc = "done", ![c].result = result]

\* _recordAudit or the transcript throws out of the coroutine.
Throws(c) == "auditThrows" \in Faults /\ call' = Finished(c, "threw")

\* What is left of the coroutines when a step may have killed a process.
Active   == Points \ {"idle", "done", "lost"}
Survivors(next) ==
  [c \in Calls |-> IF next[c].pc \in Active /\ ~up'[ProcOf(c)]
                   THEN [next[c] EXCEPT !.pc = "lost"] ELSE next[c]]

-----------------------------------------------------------------------------

ExecInit == Init /\ call = [c \in Calls |-> Idle]

\* executeAll and _partition, for the calls of the batch that the model's
\* answer makes.  The arguments name any request ever issued.
Begin(b, made) ==
  LET members == {c \in Calls : BatchOf[c] = b}
  IN
  /\ up[Home[b]] /\ ~Busy(Home[b])
  /\ made \subseteq members /\ made # {}
  /\ \A c \in members : call[c].pc = "idle"
  /\ \E tool \in [made -> Tools], args \in [made -> Args], arg \in [made -> issued \cup {NoRequest}] :
       call' = [c \in Calls |->
                  IF c \in made
                  THEN [Idle EXCEPT !.pc = IF tool[c] \in Serial THEN "waiting" ELSE "entering",
                                    !.tool = tool[c], !.args = args[c], !.arg = arg[c]]
                  ELSE call[c]]
  /\ UNCHANGED brokerVars

\* The other calls that were made with c.
Beside(c) == {d \in Calls \ {c} : BatchOf[d] = BatchOf[c] /\ call[d].pc # "idle"}

Over(d) == call[d].pc = "done" /\ call[d].result # "threw"

\* A variant with a bug: the serial part does not wait for the parallel one.
BeginSerialEarly(c) ==
  /\ Awake(c) /\ call[c].pc = "waiting"
  /\ \A d \in Beside(c) : call[d].tool \in Serial /\ d < c => Over(d)
  /\ call' = [call EXCEPT ![c].pc = "entering"]
  /\ UNCHANGED brokerVars

\* A variant with a bug: a serial call waits for all the others.
BeginSerialLast(c) ==
  /\ Awake(c) /\ call[c].pc = "waiting"
  /\ \A d \in Beside(c) : Over(d)
  /\ call' = [call EXCEPT ![c].pc = "entering"]
  /\ UNCHANGED brokerVars

\* executeAll reaches the next call of the serial part.
BeginSerial(c) ==
  /\ Awake(c) /\ call[c].pc = "waiting"
  /\ \A d \in Beside(c) : call[d].tool \notin Serial \/ d < c => Over(d)
  /\ call' = [call EXCEPT ![c].pc = "entering"]
  /\ UNCHANGED brokerVars

\* _executeOne up to the first await inside canUseTool.
Enter(c) ==
  LET t  == call[c].tool
      a  == call[c].args
      ok == Approved(ProcOf(c), call[c].arg, t)
      entered == [call EXCEPT ![c].held = IF ok THEN call[c].arg ELSE NoRequest]
  IN
  /\ Awake(c) /\ call[c].pc = "entering"
  /\ \/ Asks(t, a, ok)    /\ call' = [entered EXCEPT ![c].pc = "asking"]
     \/ Refuses(t, a, ok) /\ call' = Finished(c, "refused")
     \/ /\ ~Asks(t, a, ok) /\ ~Refuses(t, a, ok)
        /\ call' = [entered EXCEPT ![c].pc = "checking"]
     \/ Throws(c)
  /\ UNCHANGED brokerVars

\* A variant with a bug: a destructive tool starts without its approval.
CheckedLightly(c) ==
  /\ Awake(c) /\ call[c].pc = "checking"
  /\ \/ call' = Finished(c, "refused")
     \/ call' = [call EXCEPT ![c].pc = "hooked"]
     \/ Throws(c)
  /\ UNCHANGED brokerVars

\* The tool's checkPermissions answers; then a destructive tool must have its
\* approval.
Checked(c) ==
  LET unconfirmed == call[c].tool \in Destructive /\ call[c].held = NoRequest IN
  /\ Awake(c) /\ call[c].pc = "checking"
  /\ \/ call' = Finished(c, "refused")
     \/ unconfirmed  /\ call' = [call EXCEPT ![c].pc = "asking"]
     \/ ~unconfirmed /\ call' = [call EXCEPT ![c].pc = "hooked"]
     \/ Throws(c)
  /\ UNCHANGED brokerVars

\* The tool_before hooks return: a veto, invalid input, or the tool starts.
Hooked(c) ==
  /\ Awake(c) /\ call[c].pc = "hooked"
  /\ \/ call' = Finished(c, "refused")
     \/ call' = Finished(c, "invalid")
     \/ call' = [call EXCEPT ![c].pc = "running", ![c].ran = TRUE]
     \/ Throws(c)
  /\ UNCHANGED brokerVars

\* The tool returns or throws.  A failing audit of the success is caught and
\* reported as an error of the tool; only a second failure escapes.
Finish(c) ==
  /\ Awake(c) /\ call[c].pc = "running"
  /\ \/ call' = Finished(c, "ok")
     \/ call' = Finished(c, "error")
     \/ Throws(c)
  /\ UNCHANGED brokerVars

\* After submit (or with the request the arguments name): what the mode does.
Asked(c, r) ==
  IF Mode(c) = "manual" \/ (Mode(c) = "deny" /\ mem'[ProcOf(c)][r].status # "pending")
  THEN [Finished(c, "asked") EXCEPT ![c].arg = r]
  ELSE [call EXCEPT ![c].pc = "settling", ![c].arg = r]

\* _recordAudit(tool.policy.ask), then _handleApprovalRequired up to its
\* submit, or to the existing request that the arguments name.
Ask(c) ==
  LET p == ProcOf(c)
      known == call[c].arg \in Requests /\ mem[p][call[c].arg] # Absent
  IN
  /\ Awake(c) /\ call[c].pc = "asking"
  /\ \/ /\ known
        /\ UNCHANGED brokerVars
        /\ call' = Asked(c, call[c].arg)
     \/ /\ ~known
        /\ \E r \in Requests, fault \in Faults :
             /\ Submit(p, r, <<"tool_call", call[c].tool>>, fault)
             /\ call' = Survivors(IF fault = "none" THEN Asked(c, r) ELSE Finished(c, "threw"))
     \/ Throws(c) /\ UNCHANGED brokerVars

\* approvalMode deny answers; auto_for_tests makes the call again.
Settled(c) ==
  IF Mode(c) = "deny" THEN Finished(c, "asked")
                   ELSE [call EXCEPT ![c].pc = "entering"]

Granted(c) == CallContext \cup
              (IF Mode(c) = "deny" THEN {"approval.admin"} ELSE {"approval.tool.call"})

\* The decision the mode takes by itself, through the broker's resolve.
Settle(c) ==
  LET p == ProcOf(c)
      r == call[c].arg
      decision == IF Mode(c) = "deny" THEN "denied" ELSE "approved"
  IN
  /\ up[p] /\ call[c].pc = "settling"
  /\ \/ \E fault \in Faults :
          /\ Resolve(p, r, decision, Granted(c), fault)
          /\ call' = Survivors(IF fault = "none" THEN Settled(c) ELSE Finished(c, "threw"))
     \/ /\ MayDecide(mem[p][r], Granted(c)) /\ mem[p][r].status # "pending"
        /\ UNCHANGED brokerVars
        /\ call' = Settled(c)
     \/ /\ ~MayDecide(mem[p][r], Granted(c))
        /\ UNCHANGED brokerVars
        /\ call' = Finished(c, "threw")

CallStep(c) ==
  BeginSerial(c) \/ Enter(c) \/ Checked(c) \/ Hooked(c) \/ Finish(c) \/ Ask(c) \/ Settle(c)

\* A handler of the broker: the approval API, the CLI, a memory proposal.
BrokerStep(p) == ~Busy(p) /\ Step(p) /\ call' = Survivors(call)

ExecNext ==
  \/ Tick /\ UNCHANGED call
  \/ \E p \in Procs : BrokerStep(p)
  \/ \E b \in Batches, made \in SUBSET Calls : Begin(b, made)
  \/ \E c \in Calls : CallStep(c)

ExecSpec == ExecInit /\ [][ExecNext]_vars

\* The event loop runs every ready coroutine; tools and hooks return.
FairExecSpec == ExecSpec /\ \A c \in Calls : WF_vars(CallStep(c))

-----------------------------------------------------------------------------

Gated(c) ==
  LET t == call[c].tool IN
  Policy[t] = "ask" \/ Check(t, call[c].args) = "ask" \/ t \in Destructive

\* Why the next property holds.  What the checks that a call k of process p is
\* past have established, and other handlers cannot undo while p lives: the
\* approval found on entry is one still, or no rule and no policy asked for
\* one.  A call being settled names the request it waits for.
Cleared(p, k) ==
  /\ k.pc \in Active => up[p] /\ k.tool \in Tools
  /\ k.pc \in {"checking", "hooked", "running"} =>
       \/ Approved(p, k.held, k.tool)
       \/ k.held = NoRequest /\ Policy[k.tool] # "ask" /\ Check(k.tool, k.args) # "ask"
  /\ k.pc \in {"hooked", "running"} /\ k.tool \in Destructive => k.held # NoRequest
  /\ k.pc = "settling" => k.arg \in Requests

Confirmed == \A c \in Calls : Cleared(ProcOf(c), call[c])

\* Whenever a tool that must be confirmed is running, the approval its call
\* found before the awaits of canUseTool is still an approval of that tool in
\* the broker (executor.js reads it once, on entry).
RunsApproved ==
  \A c \in Calls :
    (call[c].pc = "running" /\ Gated(c))
      => Approved(ProcOf(c), call[c].held, call[c].tool)

\* A confirmed tool that ever ran did so under an approval that the file
\* still holds, whatever crashed afterwards: resolve saves before anyone can
\* use its decision.  (A save that throws leaves the decision in memory only:
\* no such fault here.)
RanUnderStoredApproval ==
  \A c \in Calls :
    (call[c].ran /\ Gated(c))
      => call[c].held \in Requests /\ disk[call[c].held].status = "approved"

\* A call of the serial part is alone: no other call of its batch is between
\* its start and its end (executeAll awaits before it goes on).
Started(c) == call[c].pc \in Active \ {"waiting"}
SerialAlone ==
  \A c, d \in Calls :
    (c # d /\ BatchOf[c] = BatchOf[d] /\ Started(c) /\ Started(d))
      => call[c].tool \notin Serial

\* A call that names a request which the file says is approved for its tool
\* is let through by the approval checks.
StoredApprovalHonoured ==
  [][\A c \in Calls :
       LET r == call[c].arg IN
       (/\ call[c].pc = "entering" /\ call'[c].pc \in {"checking", "asking"}
        /\ r \in Requests /\ disk[r].status = "approved" /\ disk[r].tool \in {call[c].tool, NoTool})
         => call'[c].held = r]_vars

\* Every call of a batch that began, those of the serial part included, gets
\* its answer, unless the process dies or another call of the batch threw and
\* executeAll with it.
CallsReturn ==
  \A c \in Calls :
    call[c].pc \in {"waiting", "entering"} ~>
      \/ call[c].pc \in {"done", "lost"}
      \/ \E d \in Calls : BatchOf[d] = BatchOf[c] /\ call[d].result = "threw"
=============================================================================
