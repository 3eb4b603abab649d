------------------------ MODULE ToolExecutionProofs ------------------------
(***************************************************************************)
(* Theorems about ToolExecution, for every set of processes, batches,      *)
(* calls and requests, every policy and every list of rules.               *)
(***************************************************************************)
EXTENDS ToolExecution, ApprovalBrokerProofs

\* The parts of a call's record that no action leaves its type with.
LEMMA RecordFacts ==
  /\ Active = {"waiting", "entering", "checking", "hooked", "asking", "settling", "running"}
  /\ Idle \in CallRecord
BY DEF Active, Points, Idle, CallRecord, Results

\* A call that is over: its record keeps its type and nothing is asked of it.
LEMMA OverFacts ==
  ASSUME NEW k \in CallRecord, NEW result \in Results, NEW p
  PROVE  LET f == [k EXCEPT !.pc = "done", !.result = result]
         IN  f \in CallRecord /\ f.pc = "done" /\ Cleared(p, f)
<1> DEFINE f == [k EXCEPT !.pc = "done", !.result = result]
<1>1. f \in CallRecord /\ f.pc = "done"
  BY DEF CallRecord, Points
<1> HIDE DEF f
<1>2. Cleared(p, f)
  BY <1>1, RecordFacts DEF Cleared
<1>3. QED
  BY <1>1, <1>2 DEF f

-----------------------------------------------------------------------------

\* Calls that a broker's step leaves alone, ends, or moves from one point
\* before the checks to another.
Undisturbed(next) ==
  \A d \in Calls :
    \/ next[d] = call[d]
    \/ next[d].pc = "done"
    \/ /\ call[d].pc \in Active /\ next[d].tool = call[d].tool
       /\ next[d].pc = "entering" \/ (next[d].pc = "settling" /\ next[d].arg \in Requests)

\* What the checks established survives every move of the brokers: in a
\* process that goes on running a decision is final, and the calls of one that
\* does not are lost.
LEMMA BrokerKeeps ==
  ASSUME TypeOK, Confirmed, FinalMove, NEW next \in [Calls -> CallRecord],
         Undisturbed(next), call' = Survivors(next)
  PROVE  CallTypeOK' /\ Confirmed'
<1> SUFFICES ASSUME NEW d \in Calls
             PROVE  call'[d] \in CallRecord /\ Cleared(ProcOf(d), call[d])'
  BY DEF CallTypeOK, Confirmed, Survivors
<1>1. ProcOf(d) \in Procs
  BY ExecutionAssumption DEF ProcOf
<1>2. CASE next[d].pc \in Active /\ ~up'[ProcOf(d)]
  <2>1. call'[d] = [next[d] EXCEPT !.pc = "lost"]
    BY <1>2 DEF Survivors
  <2>2. call'[d] \in CallRecord /\ call'[d].pc = "lost"
    BY <2>1 DEF CallRecord, Points
  <2>3. QED
    BY <2>2, RecordFacts DEF Cleared
<1>3. CASE ~(next[d].pc \in Active /\ ~up'[ProcOf(d)])
  <2>1. call'[d] = next[d]
    BY <1>3 DEF Survivors
  <2>2. CASE next[d].pc \notin {"checking", "hooked", "running"}
    <3>1. Cleared(ProcOf(d), call[d])
      BY DEF Confirmed
    <3>2. /\ next[d].pc \in Active => next[d].tool \in Tools
          /\ next[d].pc = "settling" => next[d].arg \in Requests
      BY <3>1, RecordFacts DEF Undisturbed, Cleared
    <3>3. QED
      BY <1>3, <2>1, <2>2, <3>2 DEF Cleared, ProcOf
  <2>3. CASE next[d].pc \in {"checking", "hooked", "running"}
    <3>1. call[d] = next[d] /\ up'[ProcOf(d)]
      BY <1>3, <2>3, RecordFacts DEF Undisturbed
    <3>2. Cleared(ProcOf(d), next[d]) /\ up[ProcOf(d)]
      BY <3>1, <2>3, RecordFacts DEF Confirmed, Cleared
    <3>3. Approved(ProcOf(d), next[d].held, next[d].tool)
            => Approved(ProcOf(d), next[d].held, next[d].tool)'
      BY <1>1, <2>1, <3>1, <3>2, SlotFacts DEF Approved, FinalMove, ProcOf
    <3>4. QED
      BY <1>1, <2>1, <2>3, <3>1, <3>2, <3>3 DEF Cleared, ProcOf
  <2>4. QED
    BY <2>2, <2>3
<1>4. QED
  BY <1>2, <1>3

\* A step of one coroutine that leaves the brokers alone.
LEMMA CallKeeps ==
  ASSUME CallTypeOK, Confirmed, UNCHANGED brokerVars, NEW c \in Calls,
         NEW k \in CallRecord, Cleared(ProcOf(c), k), call' = [call EXCEPT ![c] = k]
  PROVE  CallTypeOK' /\ Confirmed'
<1>1. CallTypeOK'
  BY DEF CallTypeOK
<1>2. ASSUME NEW d \in Calls PROVE Cleared(ProcOf(d), call[d])'
  <2>1. Cleared(ProcOf(d), call'[d])
    BY DEF CallTypeOK, Confirmed
  <2>2. QED
    BY <2>1 DEF Cleared, Approved, brokerVars, ProcOf
<1>3. QED
  BY <1>1, <1>2 DEF Confirmed

\* The coroutine ends, with any answer.
LEMMA EndKeeps ==
  ASSUME CallTypeOK, Confirmed, UNCHANGED brokerVars, NEW c \in Calls,
         NEW result \in Results, call' = Finished(c, result)
  PROVE  CallTypeOK' /\ Confirmed'
<1> DEFINE k == [call[c] EXCEPT !.pc = "done", !.result = result]
<1>1. k \in CallRecord /\ Cleared(ProcOf(c), k)
  BY OverFacts DEF CallTypeOK
<1>2. call' = [call EXCEPT ![c] = k]
  BY DEF Finished, CallTypeOK
<1> HIDE DEF k
<1>3. QED
  BY <1>1, <1>2, CallKeeps

\* So does one of whose record only the point changes.
LEMMA MoveKeeps ==
  ASSUME CallTypeOK, Confirmed, UNCHANGED brokerVars, NEW c \in Calls, NEW pc \in Points,
         Cleared(ProcOf(c), [call[c] EXCEPT !.pc = pc]), call' = [call EXCEPT ![c].pc = pc]
  PROVE  CallTypeOK' /\ Confirmed'
<1> DEFINE k == [call[c] EXCEPT !.pc = pc]
<1>1. k \in CallRecord
  BY DEF CallTypeOK, CallRecord
<1>2. call' = [call EXCEPT ![c] = k]
  BY DEF CallTypeOK
<1> HIDE DEF k
<1>3. Cleared(ProcOf(c), k)
  BY DEF k
<1>4. QED
  BY <1>1, <1>2, <1>3, CallKeeps

\* A throw of the audit or the transcript.
LEMMA ThrowKeeps ==
  ASSUME CallTypeOK, Confirmed, UNCHANGED brokerVars, NEW c \in Calls, Throws(c)
  PROVE  CallTypeOK' /\ Confirmed'
<1>1. call' = Finished(c, "threw") /\ "threw" \in Results
  BY DEF Throws, Results
<1>2. QED
  BY <1>1, EndKeeps

\* What a coroutine of a running process knows of itself.
LEMMA AtPoint ==
  ASSUME CallTypeOK, Confirmed, NEW c \in Calls, call[c].pc \in Active
  PROVE  /\ call[c] \in CallRecord /\ call[c].tool \in Tools
         /\ ProcOf(c) \in Procs /\ up[ProcOf(c)] /\ Cleared(ProcOf(c), call[c])
BY ExecutionAssumption DEF CallTypeOK, Confirmed, Cleared, ProcOf

-----------------------------------------------------------------------------

\* The actions of the executor that leave the brokers alone.
LEMMA BeginKeeps ==
  ASSUME TypeOK, CallTypeOK, Confirmed, NEW b \in Batches, NEW made \in SUBSET Calls, Begin(b, made)
  PROVE  CallTypeOK' /\ Confirmed'
<1>1. PICK tool \in [made -> Tools], args \in [made -> Args], arg \in [made -> issued \cup {NoRequest}] :
        call' = [c \in Calls |->
                   IF c \in made
                   THEN [Idle EXCEPT !.pc = IF tool[c] \in Serial THEN "waiting" ELSE "entering",
                                     !.tool = tool[c], !.args = args[c], !.arg = arg[c]]
                   ELSE call[c]]
  BY DEF Begin
<1>2. UNCHANGED brokerVars /\ up[Home[b]] /\ \A c \in made : ProcOf(c) = Home[b]
  BY DEF Begin, ProcOf
<1>3. ASSUME NEW c \in made
      PROVE  call'[c] \in CallRecord /\ call'[c].pc \in {"waiting", "entering"} /\ call'[c].tool \in Tools
  BY <1>1, <1>3 DEF Idle, CallRecord, Points, Results, TypeOK
<1>4. ASSUME NEW c \in Calls \ made PROVE call'[c] = call[c]
  BY <1>1, <1>4
<1>5. CallTypeOK'
  <2>1. \A c \in Calls : call'[c] \in CallRecord
    BY <1>3, <1>4 DEF CallTypeOK
  <2>2. QED
    BY <1>1, <2>1 DEF CallTypeOK
<1>6. ASSUME NEW c \in Calls PROVE Cleared(ProcOf(c), call[c])'
  <2>1. CASE c \in made
    BY <2>1, <1>2, <1>3 DEF Cleared, brokerVars, ProcOf
  <2>2. CASE c \notin made
    BY <2>2, <1>2, <1>4 DEF Confirmed, Cleared, Approved, brokerVars, ProcOf
  <2>3. QED
    BY <2>1, <2>2
<1>7. QED
  BY <1>5, <1>6 DEF Confirmed

LEMMA BeginSerialKeeps ==
  ASSUME CallTypeOK, Confirmed, NEW c \in Calls, BeginSerial(c)
  PROVE  CallTypeOK' /\ Confirmed'
<1>1. call[c].pc = "waiting" /\ UNCHANGED brokerVars /\ call' = [call EXCEPT ![c].pc = "entering"]
  BY DEF BeginSerial
<1>2. call[c] \in CallRecord /\ call[c].tool \in Tools /\ up[ProcOf(c)]
  BY <1>1, AtPoint, RecordFacts
<1>3. Cleared(ProcOf(c), [call[c] EXCEPT !.pc = "entering"])
  BY <1>2 DEF Cleared, CallRecord
<1>4. QED
  BY <1>1, <1>3, MoveKeeps DEF Points

LEMMA EnterKeeps ==
  ASSUME CallTypeOK, Confirmed, NEW c \in Calls, Enter(c)
  PROVE  CallTypeOK' /\ Confirmed'
<1> DEFINE t == call[c].tool
           a == call[c].args
           ok == Approved(ProcOf(c), call[c].arg, t)
           held == IF ok THEN call[c].arg ELSE NoRequest
<1>1. call[c].pc = "entering" /\ UNCHANGED brokerVars
  BY DEF Enter
<1>2. call[c] \in CallRecord /\ t \in Tools /\ up[ProcOf(c)] /\ held \in Requests \cup {NoRequest}
  BY <1>1, AtPoint, RecordFacts DEF CallRecord
<1>3. ASSUME NEW pc \in {"asking", "checking"}, call' = [call EXCEPT ![c].held = held, ![c].pc = pc],
             pc = "checking" => ~Asks(t, a, ok) /\ ~Refuses(t, a, ok)
      PROVE  CallTypeOK' /\ Confirmed'
  <2> DEFINE k == [call[c] EXCEPT !.held = held, !.pc = pc]
  <2>1. call' = [call EXCEPT ![c] = k]
    BY <1>3 DEF CallTypeOK
  <2>2. /\ k \in CallRecord
        /\ k.pc = pc /\ k.held = held /\ k.tool = t /\ k.args = a
    BY <1>2 DEF CallRecord, Points
  <2>3. pc = "checking" => \/ Approved(ProcOf(c), held, t)
                           \/ held = NoRequest /\ Policy[t] # "ask" /\ Check(t, a) # "ask"
    <3>1. CASE ok
      BY <3>1
    <3>2. CASE ~ok
      <4>1. Policy[t] \in {"allow", "ask", "deny"}
        BY <1>2, ExecutionAssumption
      <4>2. QED
        BY <1>3, <3>2, <4>1 DEF Asks, Refuses
    <3>3. QED
      BY <3>1, <3>2
  <2> HIDE DEF k, held
  <2>4. Cleared(ProcOf(c), k)
    BY <1>2, <2>2, <2>3 DEF Cleared
  <2>5. QED
    BY <1>1, <2>1, <2>2, <2>4, CallKeeps
<1>4. \/ call' = [call EXCEPT ![c].held = held, ![c].pc = "asking"]
      \/ call' = Finished(c, "refused")
      \/ /\ call' = [call EXCEPT ![c].held = held, ![c].pc = "checking"]
         /\ ~Asks(t, a, ok) /\ ~Refuses(t, a, ok)
      \/ Throws(c)
  BY DEF Enter
<1>5. "refused" \in Results
  BY DEF Results
<1> HIDE DEF t, a, ok, held
<1>6. QED
  BY <1>1, <1>3, <1>4, <1>5, EndKeeps, ThrowKeeps

LEMMA CheckedKeeps ==
  ASSUME CallTypeOK, Confirmed, NEW c \in Calls, Checked(c)
  PROVE  CallTypeOK' /\ Confirmed'
<1>1. call[c].pc = "checking" /\ UNCHANGED brokerVars
  BY DEF Checked
<1>2. /\ call[c] \in CallRecord /\ call[c].tool \in Tools /\ up[ProcOf(c)]
      /\ Cleared(ProcOf(c), call[c])
  BY <1>1, AtPoint, RecordFacts
<1>3. CASE call' = Finished(c, "refused")
  BY <1>1, <1>3, EndKeeps DEF Results
<1>4. CASE call' = [call EXCEPT ![c].pc = "asking"]
  <2>1. Cleared(ProcOf(c), [call[c] EXCEPT !.pc = "asking"])
    BY <1>2 DEF Cleared, CallRecord
  <2>2. QED
    BY <1>1, <1>4, <2>1, MoveKeeps DEF Points
<1>5. CASE /\ call' = [call EXCEPT ![c].pc = "hooked"]
           /\ ~(call[c].tool \in Destructive /\ call[c].held = NoRequest)
  <2>1. Cleared(ProcOf(c), [call[c] EXCEPT !.pc = "hooked"])
    BY <1>1, <1>2, <1>5 DEF Cleared, CallRecord
  <2>2. QED
    BY <1>1, <1>5, <2>1, MoveKeeps DEF Points
<1>6. CASE Throws(c)
  BY <1>1, <1>6, ThrowKeeps
<1>7. QED
  BY <1>3, <1>4, <1>5, <1>6 DEF Checked

LEMMA HookedKeeps ==
  ASSUME CallTypeOK, Confirmed, NEW c \in Calls, Hooked(c)
  PROVE  CallTypeOK' /\ Confirmed'
<1>1. call[c].pc = "hooked" /\ UNCHANGED brokerVars
  BY DEF Hooked
<1>2. /\ call[c] \in CallRecord /\ call[c].tool \in Tools /\ up[ProcOf(c)]
      /\ Cleared(ProcOf(c), call[c])
  BY <1>1, AtPoint, RecordFacts
<1>3. CASE call' = Finished(c, "refused") \/ call' = Finished(c, "invalid")
  BY <1>1, <1>3, EndKeeps DEF Results
<1>4. CASE call' = [call EXCEPT ![c].pc = "running", ![c].ran = TRUE]
  <2> DEFINE k == [call[c] EXCEPT !.pc = "running", !.ran = TRUE]
  <2>1. call' = [call EXCEPT ![c] = k]
    BY <1>4 DEF CallTypeOK
  <2>2. k \in CallRecord /\ Cleared(ProcOf(c), k)
    BY <1>1, <1>2 DEF Cleared, CallRecord, Points
  <2> HIDE DEF k
  <2>3. QED
    BY <1>1, <2>1, <2>2, CallKeeps
<1>5. CASE Throws(c)
  BY <1>1, <1>5, ThrowKeeps
<1>6. QED
  BY <1>3, <1>4, <1>5 DEF Hooked

LEMMA FinishKeeps ==
  ASSUME CallTypeOK, Confirmed, NEW c \in Calls, Finish(c)
  PROVE  CallTypeOK' /\ Confirmed'
<1>1. UNCHANGED brokerVars /\ {"ok", "error"} \subseteq Results
  BY DEF Finish, Results
<1>2. call' = Finished(c, "ok") \/ call' = Finished(c, "error") \/ Throws(c)
  BY DEF Finish
<1>3. QED
  BY <1>1, <1>2, EndKeeps, ThrowKeeps

-----------------------------------------------------------------------------

\* The actions that go through the broker: what they ask of it is a request or
\* a decision of the executor's own, a move of the broker.
LEMMA AskMoves ==
  ASSUME CallTypeOK, Confirmed, NEW c \in Calls, Ask(c)
  PROVE  BrokerMoves
<1>1. call[c].tool \in Tools /\ ProcOf(c) \in Procs
  BY AtPoint, RecordFacts DEF Ask
<1>2. <<"tool_call", call[c].tool>> \in Types \X (Tools \cup {NoTool})
  BY <1>1, ExecutionAssumption
<1>3. QED
  BY <1>1, <1>2 DEF Ask, BrokerMoves

LEMMA SettleMoves ==
  ASSUME CallTypeOK, Confirmed, NEW c \in Calls, Settle(c)
  PROVE  BrokerMoves
<1> DEFINE decision == IF Mode(c) = "deny" THEN "denied" ELSE "approved"
<1>1. ProcOf(c) \in Procs /\ decision \in Decisions /\ Granted(c) \in SUBSET Permissions
  BY SlotFacts, ExecutionAssumption DEF ProcOf, Granted
<1>2. CASE UNCHANGED brokerVars
  BY <1>2 DEF BrokerMoves
<1>3. CASE \E fault \in Faults : Resolve(ProcOf(c), call[c].arg, decision, Granted(c), fault)
  <2>1. PICK fault \in Faults : Resolve(ProcOf(c), call[c].arg, decision, Granted(c), fault)
    BY <1>3
  <2>2. call[c].arg \in Requests
    BY DEF Settle, Confirmed, Cleared
  <2> HIDE DEF decision
  <2>3. QED
    BY <1>1, <2>1, <2>2 DEF BrokerMoves
<1>4. QED
  BY <1>2, <1>3 DEF Settle

\* The answer of an Ask keeps the records in their type and disturbs no call.
LEMMA AskedFacts ==
  ASSUME CallTypeOK, NEW c \in Calls, call[c].pc = "asking", NEW r \in Requests
  PROVE  Asked(c, r) \in [Calls -> CallRecord] /\ Undisturbed(Asked(c, r))
<1> DEFINE over == [call[c] EXCEPT !.pc = "done", !.result = "asked", !.arg = r]
           held == [call[c] EXCEPT !.pc = "settling", !.arg = r]
<1>1. over \in CallRecord /\ over.pc = "done"
  BY DEF CallTypeOK, CallRecord, Points, Results
<1>2. /\ held \in CallRecord /\ held.pc = "settling" /\ held.arg = r
      /\ held.tool = call[c].tool
  BY DEF CallTypeOK, CallRecord, Points
<1>3. \/ Asked(c, r) = [call EXCEPT ![c] = over]
      \/ Asked(c, r) = [call EXCEPT ![c] = held]
  BY DEF Asked, Finished, CallTypeOK
<1> HIDE DEF over, held
<1>4. QED
  BY <1>1, <1>2, <1>3, RecordFacts DEF CallTypeOK, Undisturbed

LEMMA FinishedFacts ==
  ASSUME CallTypeOK, NEW c \in Calls, NEW result \in Results
  PROVE  Finished(c, result) \in [Calls -> CallRecord] /\ Undisturbed(Finished(c, result))
<1> DEFINE k == [call[c] EXCEPT !.pc = "done", !.result = result]
<1>1. k \in CallRecord /\ k.pc = "done"
  BY OverFacts DEF CallTypeOK
<1>2. Finished(c, result) = [call EXCEPT ![c] = k]
  BY DEF Finished, CallTypeOK
<1> HIDE DEF k
<1>3. QED
  BY <1>1, <1>2 DEF CallTypeOK, Undisturbed

LEMMA SettledFacts ==
  ASSUME CallTypeOK, NEW c \in Calls, call[c].pc = "settling"
  PROVE  Settled(c) \in [Calls -> CallRecord] /\ Undisturbed(Settled(c))
<1> DEFINE k == [call[c] EXCEPT !.pc = "entering"]
<1>1. k \in CallRecord /\ k.pc = "entering" /\ k.tool = call[c].tool
  BY DEF CallTypeOK, CallRecord, Points
<1>2. Settled(c) = Finished(c, "asked") \/ Settled(c) = [call EXCEPT ![c] = k]
  BY DEF Settled, CallTypeOK
<1> HIDE DEF k
<1>3. [call EXCEPT ![c] = k] \in [Calls -> CallRecord] /\ Undisturbed([call EXCEPT ![c] = k])
  BY <1>1, RecordFacts DEF CallTypeOK, Undisturbed
<1>4. QED
  BY <1>2, <1>3, FinishedFacts DEF Results

\* When the brokers do not move, no process dies.
LEMMA NoneLost ==
  ASSUME CallTypeOK, Confirmed, UNCHANGED brokerVars, NEW next \in [Calls -> CallRecord],
         Undisturbed(next)
  PROVE  Survivors(next) = next
<1>1. \A d \in Calls : next[d].pc \in Active => up'[ProcOf(d)]
  BY RecordFacts DEF Undisturbed, Confirmed, Cleared, brokerVars
<1>2. QED
  BY <1>1 DEF Survivors

LEMMA AskKeeps ==
  ASSUME TypeOK, Unissued, CallTypeOK, Confirmed, NEW c \in Calls, Ask(c)
  PROVE  CallTypeOK' /\ Confirmed'
<1>1. call[c].pc = "asking" /\ FinalMove
  BY AskMoves, FinalStep DEF Ask
<1>2. "threw" \in Results
  BY DEF Results
<1>3. CASE \E r \in Requests, fault \in Faults :
             call' = Survivors(IF fault = "none" THEN Asked(c, r) ELSE Finished(c, "threw"))
  BY <1>1, <1>2, <1>3, AskedFacts, FinishedFacts, BrokerKeeps
<1>4. CASE UNCHANGED brokerVars /\ call[c].arg \in Requests /\ call' = Asked(c, call[c].arg)
  <2>1. call' = Survivors(Asked(c, call[c].arg))
    BY <1>1, <1>4, AskedFacts, NoneLost
  <2>2. QED
    BY <1>1, <1>4, <2>1, AskedFacts, BrokerKeeps
<1>5. CASE Throws(c) /\ UNCHANGED brokerVars
  BY <1>5, ThrowKeeps
<1>6. QED
  BY <1>3, <1>4, <1>5 DEF Ask

LEMMA SettleKeeps ==
  ASSUME TypeOK, Unissued, CallTypeOK, Confirmed, NEW c \in Calls, Settle(c)
  PROVE  CallTypeOK' /\ Confirmed'
<1>1. call[c].pc = "settling" /\ FinalMove
  BY SettleMoves, FinalStep DEF Settle
<1>2. "threw" \in Results
  BY DEF Results
<1>3. CASE \E fault \in Faults :
             call' = Survivors(IF fault = "none" THEN Settled(c) ELSE Finished(c, "threw"))
  BY <1>1, <1>2, <1>3, SettledFacts, FinishedFacts, BrokerKeeps
<1>4. CASE UNCHANGED brokerVars /\ call' = Settled(c)
  <2>1. call' = Survivors(Settled(c))
    BY <1>1, <1>4, SettledFacts, NoneLost
  <2>2. QED
    BY <1>1, <2>1, SettledFacts, BrokerKeeps
<1>5. CASE UNCHANGED brokerVars /\ call' = Finished(c, "threw")
  BY <1>2, <1>5, EndKeeps
<1>6. QED
  BY <1>3, <1>4, <1>5 DEF Settle

\* A handler of a broker, or the clock.
LEMMA OtherKeeps ==
  ASSUME TypeOK, Unissued, CallTypeOK, Confirmed,
         \/ Tick /\ UNCHANGED call
         \/ \E p \in Procs : BrokerStep(p)
  PROVE  CallTypeOK' /\ Confirmed'
<1>1. Next /\ FinalMove
  BY FinalStep DEF BrokerStep, Next, BrokerMoves
<1>2. call \in [Calls -> CallRecord] /\ Undisturbed(call)
  BY DEF CallTypeOK, Undisturbed
<1>3. CASE Tick /\ UNCHANGED call
  <2>1. \A d \in Calls : call[d].pc \in Active => up'[ProcOf(d)]
    BY <1>3 DEF Tick, Confirmed, Cleared
  <2>2. call' = Survivors(call)
    BY <1>2, <1>3, <2>1 DEF Survivors
  <2>3. QED
    BY <1>1, <1>2, <2>2, BrokerKeeps
<1>4. CASE \E p \in Procs : BrokerStep(p)
  BY <1>1, <1>2, <1>4, BrokerKeeps DEF BrokerStep
<1>5. QED
  BY <1>3, <1>4

-----------------------------------------------------------------------------

\* The inductive invariant: the broker's, the types, and what the checks that a
\* call is past have established.
ExecInv == TypeOK /\ Unissued /\ CallTypeOK /\ Confirmed

\* Every step of the executor is a move of the broker.
LEMMA ExecMoves == ExecInv /\ [ExecNext]_vars => BrokerMoves
<1> SUFFICES ASSUME ExecInv, [ExecNext]_vars PROVE BrokerMoves
  OBVIOUS
<1>1. CASE UNCHANGED brokerVars
  BY <1>1 DEF BrokerMoves
<1>2. CASE Tick \/ \E p \in Procs : BrokerStep(p)
  BY <1>2 DEF BrokerStep, BrokerMoves, Next
<1>3. CASE \E c \in Calls : Ask(c) \/ Settle(c)
  BY <1>3, AskMoves, SettleMoves DEF ExecInv
<1>4. QED
  BY <1>1, <1>2, <1>3
     DEF ExecNext, CallStep, Begin, BeginSerial, Enter, Checked, Hooked, Finish, vars

LEMMA ExecKeeps == ExecInv /\ [ExecNext]_vars => ExecInv'
<1> SUFFICES ASSUME ExecInv, [ExecNext]_vars PROVE ExecInv'
  OBVIOUS
<1>1. TypeOK' /\ Unissued'
  BY ExecMoves, TypeStep, UnissuedStep DEF ExecInv
<1>2. CASE Tick /\ UNCHANGED call
  BY <1>1, <1>2, OtherKeeps DEF ExecInv
<1>3. CASE \E p \in Procs : BrokerStep(p)
  BY <1>1, <1>3, OtherKeeps DEF ExecInv
<1>4. CASE \E b \in Batches, made \in SUBSET Calls : Begin(b, made)
  BY <1>1, <1>4, BeginKeeps DEF ExecInv
<1>5. CASE \E c \in Calls : CallStep(c)
  <2>1. PICK c \in Calls : CallStep(c)
    BY <1>5
  <2>2. QED
    BY <1>1, <2>1, BeginSerialKeeps, EnterKeeps, CheckedKeeps, HookedKeeps, FinishKeeps, AskKeeps, SettleKeeps
       DEF ExecInv, CallStep
<1>6. CASE UNCHANGED vars
  <2>1. UNCHANGED brokerVars /\ UNCHANGED call
    BY <1>6 DEF vars
  <2>2. CallTypeOK' /\ Confirmed'
    BY <2>1 DEF ExecInv, CallTypeOK, Confirmed, Cleared, Approved, brokerVars, ProcOf
  <2>3. QED
    BY <1>1, <2>2 DEF ExecInv
<1>7. QED
  BY <1>2, <1>3, <1>4, <1>5, <1>6 DEF ExecNext

LEMMA ExecStart == ExecInit => ExecInv
<1> SUFFICES ASSUME ExecInit PROVE ExecInv
  OBVIOUS
<1>1. TypeOK
  BY SlotFacts, BrokerAssumption DEF ExecInit, Init, TypeOK
<1>2. Unissued
  BY DEF ExecInit, Init, Unissued, Empty
<1>3. CallTypeOK
  BY RecordFacts DEF ExecInit, CallTypeOK
<1>4. \A c \in Calls : call[c].pc = "idle"
  BY DEF ExecInit, Idle
<1>5. Confirmed
  BY <1>4, RecordFacts DEF Confirmed, Cleared
<1>6. QED
  BY <1>1, <1>2, <1>3, <1>5 DEF ExecInv

\* The inductive invariant holds: types, fresh identifiers, and the approvals
\* that the calls past their checks rest on.
THEOREM ExecInvariant == ExecSpec => []ExecInv
BY ExecStart, ExecKeeps, PTL DEF ExecSpec

\* Whenever a tool that must be confirmed runs, the approval its call found on
\* entry is still one, whatever ran during the awaits in between.
THEOREM RunsUnderApproval == ExecSpec => []RunsApproved
<1>1. ExecInv => RunsApproved
  BY DEF ExecInv, Confirmed, Cleared, RunsApproved, Gated
<1>2. QED
  BY <1>1, ExecInvariant, PTL

\* The executor makes no move that the broker does not know: a decision stays
\* final in the memory of every running broker.
THEOREM DecisionFinalUnderExecution == ExecSpec => DecisionFinal
<1>1. ExecInv /\ [ExecNext]_vars => [FinalMove]_brokerVars
  BY ExecMoves, FinalStep DEF ExecInv
<1>2. QED
  BY <1>1, ExecInvariant, PTL DEF ExecSpec, DecisionFinal, FinalMove

-----------------------------------------------------------------------------

\* Why serial calls are alone: one that started did so after the calls of its
\* batch that run before it were over.
Ordered ==
  \A c \in Calls : \A d \in Beside(c) :
    (Started(c) /\ call[c].tool \in Serial /\ (call[d].tool \notin Serial \/ d < c)) => Over(d)

\* How a call moves once it was made, unless executeAll lets it start: what is
\* over stays over, and a call that waits does not start by itself.
Onward(k, next) ==
  /\ next.tool = k.tool
  /\ next.pc = "idle" <=> k.pc = "idle"
  /\ next.pc \in Active \ {"waiting"} => k.pc \in Active \ {"waiting"}
  /\ k.pc = "done" => next = k

LEMMA OnwardKeeps ==
  ASSUME Ordered, \A d \in Calls : Onward(call[d], call'[d])
  PROVE  Ordered'
BY DEF Ordered, Onward, Started, Beside, Over

\* Every action but Begin and BeginSerial moves calls onward.
LEMMA LocalOnward ==
  ASSUME CallTypeOK, NEW c \in Calls,
         Enter(c) \/ Checked(c) \/ Hooked(c) \/ Finish(c)
  PROVE  \A d \in Calls : Onward(call[d], call'[d])
<1>1. call[c].pc \in {"entering", "checking", "hooked", "running"} /\ call[c] \in CallRecord
  BY DEF Enter, Checked, Hooked, Finish, CallTypeOK
<1>2. \A d \in Calls \ {c} : call'[d] = call[d]
  BY DEF Enter, Checked, Hooked, Finish, Finished, Throws, CallTypeOK
<1>3. call'[c].tool = call[c].tool
  BY <1>1 DEF Enter, Checked, Hooked, Finish, Finished, Throws, CallTypeOK, CallRecord
<1>4. call'[c].pc # "idle"
  BY <1>1 DEF Enter, Checked, Hooked, Finish, Finished, Throws, CallTypeOK, CallRecord
<1>5. QED
  BY <1>1, <1>2, <1>3, <1>4, RecordFacts DEF Onward

\* Survivors turns a call's point into "lost" or leaves it alone.
LEMMA SurvivorsOnward ==
  ASSUME NEW next \in [Calls -> CallRecord], call' = Survivors(next),
         \A d \in Calls : Onward(call[d], next[d])
  PROVE  \A d \in Calls : Onward(call[d], call'[d])
<1> SUFFICES ASSUME NEW d \in Calls PROVE Onward(call[d], call'[d])
  OBVIOUS
<1>1. CASE next[d].pc \in Active /\ ~up'[ProcOf(d)]
  <2>1. call'[d] = [next[d] EXCEPT !.pc = "lost"]
    BY <1>1 DEF Survivors
  <2>2. call'[d].pc = "lost" /\ call'[d].tool = next[d].tool
    BY <2>1 DEF CallRecord
  <2>3. QED
    BY <1>1, <2>2, RecordFacts DEF Onward
<1>2. CASE ~(next[d].pc \in Active /\ ~up'[ProcOf(d)])
  BY <1>2 DEF Survivors
<1>3. QED
  BY <1>1, <1>2

LEMMA BrokerOnward ==
  ASSUME CallTypeOK, Confirmed, NEW c \in Calls, Ask(c) \/ Settle(c)
  PROVE  \A d \in Calls : Onward(call[d], call'[d])
<1>1. call[c].pc \in {"asking", "settling"} /\ call[c] \in CallRecord /\ call \in [Calls -> CallRecord]
  BY DEF Ask, Settle, CallTypeOK
<1>2. ASSUME NEW k \in CallRecord, k.tool = call[c].tool, k.pc # "idle"
      PROVE  \A d \in Calls : Onward(call[d], [call EXCEPT ![c] = k][d])
  BY <1>1, <1>2, RecordFacts DEF Onward
<1>3. ASSUME NEW result \in Results
      PROVE  \A d \in Calls : Onward(call[d], Finished(c, result)[d])
  <2> DEFINE k == [call[c] EXCEPT !.pc = "done", !.result = result]
  <2>1. k \in CallRecord /\ k.tool = call[c].tool /\ k.pc = "done"
    BY <1>1 DEF CallRecord, Points
  <2>2. Finished(c, result) = [call EXCEPT ![c] = k]
    BY <1>1 DEF Finished
  <2> HIDE DEF k
  <2>3. QED
    BY <1>2, <2>1, <2>2
<1>4. ASSUME NEW r \in Requests
      PROVE  \A d \in Calls : Onward(call[d], Asked(c, r)[d])
  <2> DEFINE over == [call[c] EXCEPT !.pc = "done", !.result = "asked", !.arg = r]
             held == [call[c] EXCEPT !.pc = "settling", !.arg = r]
  <2>1. over \in CallRecord /\ over.tool = call[c].tool /\ over.pc = "done"
    BY <1>1 DEF CallRecord, Points, Results
  <2>2. held \in CallRecord /\ held.tool = call[c].tool /\ held.pc = "settling"
    BY <1>1 DEF CallRecord, Points
  <2>3. \/ Asked(c, r) = [call EXCEPT ![c] = over]
        \/ Asked(c, r) = [call EXCEPT ![c] = held]
    BY <1>1 DEF Asked, Finished
  <2> HIDE DEF over, held
  <2>4. QED
    BY <1>2, <2>1, <2>2, <2>3
<1>5. call[c].pc = "settling" => \A d \in Calls : Onward(call[d], Settled(c)[d])
  <2> DEFINE k == [call[c] EXCEPT !.pc = "entering"]
  <2>1. k \in CallRecord /\ k.tool = call[c].tool /\ k.pc = "entering"
    BY <1>1 DEF CallRecord, Points
  <2>2. Settled(c) = Finished(c, "asked") \/ Settled(c) = [call EXCEPT ![c] = k]
    BY <1>1 DEF Settled
  <2> HIDE DEF k
  <2>3. QED
    BY <1>2, <1>3, <2>1, <2>2 DEF Results
<1>6. {"asked", "threw"} \subseteq Results
  BY DEF Results
<1>7. CASE Ask(c)
  <2>1. call[c].pc = "asking"
    BY <1>7 DEF Ask
  <2>2. CASE \E r \in Requests, fault \in Faults :
               call' = Survivors(IF fault = "none" THEN Asked(c, r) ELSE Finished(c, "threw"))
    BY <1>3, <1>4, <1>6, <2>1, <2>2, AskedFacts, FinishedFacts, SurvivorsOnward
  <2>3. CASE call[c].arg \in Requests /\ call' = Asked(c, call[c].arg)
    BY <1>4, <2>3
  <2>4. CASE call' = Finished(c, "threw")
    BY <1>3, <1>6, <2>4
  <2>5. QED
    BY <1>7, <2>2, <2>3, <2>4 DEF Ask, Throws
<1>8. CASE Settle(c)
  <2>1. call[c].pc = "settling"
    BY <1>8 DEF Settle
  <2>2. CASE \E fault \in Faults :
               call' = Survivors(IF fault = "none" THEN Settled(c) ELSE Finished(c, "threw"))
    BY <1>3, <1>5, <1>6, <2>1, <2>2, SettledFacts, FinishedFacts, SurvivorsOnward
  <2>3. CASE call' = Settled(c)
    BY <1>5, <2>1, <2>3
  <2>4. CASE call' = Finished(c, "threw")
    BY <1>3, <1>6, <2>4
  <2>5. QED
    BY <1>8, <2>2, <2>3, <2>4 DEF Settle
<1>9. QED
  BY <1>7, <1>8

LEMMA OrderedStep == ExecInv /\ Ordered /\ [ExecNext]_vars => Ordered'
<1> SUFFICES ASSUME ExecInv, Ordered, [ExecNext]_vars PROVE Ordered'
  OBVIOUS
<1>0. CallTypeOK /\ Confirmed /\ call \in [Calls -> CallRecord]
  BY DEF ExecInv, CallTypeOK
<1>1. CASE call' = call
  BY <1>1 DEF Ordered, Started, Beside, Over
<1>2. CASE \E p \in Procs : BrokerStep(p)
  <2>1. \A d \in Calls : Onward(call[d], call[d])
    BY DEF Onward
  <2>2. call' = Survivors(call)
    BY <1>2 DEF BrokerStep
  <2>3. QED
    BY <1>0, <2>1, <2>2, SurvivorsOnward, OnwardKeeps
<1>3. ASSUME NEW b \in Batches, NEW made \in SUBSET Calls, Begin(b, made)
      PROVE  Ordered'
  <2>1. \A c \in Calls : BatchOf[c] = b => call[c].pc = "idle"
    BY <1>3 DEF Begin
  <2>2. made \subseteq {c \in Calls : BatchOf[c] = b}
    BY <1>3 DEF Begin
  <2>3. \A c \in Calls \ made : call'[c] = call[c]
    BY <1>3 DEF Begin
  <2>4. ASSUME NEW c \in made PROVE call'[c].tool \in Serial => call'[c].pc = "waiting"
    <3>1. PICK tool \in [made -> Tools], args \in [made -> Args], arg \in [made -> issued \cup {NoRequest}] :
            call' = [d \in Calls |->
                       IF d \in made
                       THEN [Idle EXCEPT !.pc = IF tool[d] \in Serial THEN "waiting" ELSE "entering",
                                         !.tool = tool[d], !.args = args[d], !.arg = arg[d]]
                       ELSE call[d]]
      BY <1>3 DEF Begin
    <3>2. QED
      BY <3>1 DEF Idle
  <2>5. ASSUME NEW c \in Calls, BatchOf[c] = b PROVE ~(Started(c)' /\ call'[c].tool \in Serial)
    BY <2>1, <2>3, <2>4, <2>5, RecordFacts DEF Started
  <2>6. ASSUME NEW c \in Calls, BatchOf[c] # b PROVE Beside(c)' = Beside(c) /\ \A d \in Beside(c) \cup {c} : call'[d] = call[d]
    BY <2>2, <2>3, <2>6 DEF Beside
  <2>7. QED
    BY <2>5, <2>6 DEF Ordered, Started, Over
<1>4. ASSUME NEW c \in Calls, BeginSerial(c)
      PROVE  Ordered'
  <2>1. /\ call[c].pc = "waiting"
        /\ \A d \in Beside(c) : call[d].tool \notin Serial \/ d < c => Over(d)
        /\ \A d \in Calls : call'[d].tool = call[d].tool
        /\ \A d \in Calls \ {c} : call'[d] = call[d]
        /\ call'[c].pc = "entering"
    BY <1>0, <1>4 DEF BeginSerial, CallRecord
  <2>2. \A d \in Calls : Beside(d)' = Beside(d)
    BY <2>1 DEF Beside
  <2>3. \A d \in Calls : Over(d) => Over(d)'
    BY <2>1 DEF Over
  <2>4. QED
    BY <2>1, <2>2, <2>3 DEF Ordered, Started, Beside
<1>5. ASSUME NEW c \in Calls, Enter(c) \/ Checked(c) \/ Hooked(c) \/ Finish(c)
      PROVE  Ordered'
  BY <1>0, <1>5, LocalOnward, OnwardKeeps
<1>6. ASSUME NEW c \in Calls, Ask(c) \/ Settle(c)
      PROVE  Ordered'
  BY <1>0, <1>6, BrokerOnward, OnwardKeeps
<1>7. QED
  BY <1>1, <1>2, <1>3, <1>4, <1>5, <1>6 DEF ExecNext, CallStep, vars

LEMMA OrderedAlone == Ordered => SerialAlone
<1> SUFFICES ASSUME Ordered, NEW c \in Calls, NEW d \in Calls, c # d, BatchOf[c] = BatchOf[d],
                    Started(c), Started(d), call[c].tool \in Serial
             PROVE  FALSE
  BY DEF SerialAlone
<1>1. c \in Nat /\ d \in Nat
  BY ExecutionAssumption
<1>2. d \in Beside(c) /\ c \in Beside(d) /\ ~Over(c) /\ ~Over(d)
  BY RecordFacts DEF Beside, Started, Over
<1>3. call[d].tool \in Serial /\ ~(d < c)
  BY <1>2 DEF Ordered
<1>4. ~(c < d)
  BY <1>2, <1>3 DEF Ordered
<1>5. QED
  BY <1>1, <1>3, <1>4

LEMMA OrderedStart == ExecInit => Ordered
BY RecordFacts DEF ExecInit, Ordered, Started, Idle

\* A call of the serial part runs alone, whatever the batch and whatever fails.
THEOREM SerialCallsAlone == ExecSpec => []SerialAlone
BY OrderedStart, OrderedAlone, OrderedStep, ExecInvariant, PTL DEF ExecSpec

-----------------------------------------------------------------------------

\* With one process, the broker's own invariant holds under the executor too.
THEOREM BrokerInvUnderExecution ==
  ASSUME NEW p, Procs = {p}
  PROVE  ExecSpec => []BrokerInv
<1>1. ExecInit => BrokerInv
  BY DEF ExecInit, Init, BrokerInv, Unissued, Empty, Ahead, ExpiryHolds, AuditTruthful
<1>2. ExecInv /\ ExecInv' /\ BrokerInv /\ [ExecNext]_vars => BrokerInv'
  BY ExecMoves, StepKeeps DEF Kept, BrokerInv, ExecInv
<1>3. QED
  BY <1>1, <1>2, ExecInvariant, PTL DEF ExecSpec

\* With one process, the file still implements the abstract register when the
\* requests are submitted by tool calls and their decisions used by them.
THEOREM RegisterUnderExecution ==
  ASSUME NEW p, Procs = {p}
  PROVE  ExecSpec => RegisterSpec
<1>1. ExecInit => Register!Init
  BY RegisterStart DEF ExecInit
<1>2. ExecInv /\ ExecInv' /\ BrokerInv /\ [ExecNext]_vars => [Register!Write]_disk
  BY ExecMoves, RegisterStep DEF ExecInv
<1>3. QED
  BY <1>1, <1>2, ExecInvariant, BrokerInvUnderExecution, PTL DEF ExecSpec, RegisterSpec, Register!Spec

\* Only Enter moves a coroutine from the start of its checks.
LEMMA OnlyEnters ==
  ASSUME ExecInv, [ExecNext]_vars, NEW c \in Calls, call[c].pc = "entering",
         call'[c].pc \in {"checking", "asking"}
  PROVE  Enter(c)
<1>0. call \in [Calls -> CallRecord]
  BY DEF ExecInv, CallTypeOK
<1>1. ASSUME NEW next \in [Calls -> CallRecord], next[c] = call[c]
      PROVE  call' # Survivors(next)
  <2>1. Survivors(next)[c].pc \in {"entering", "lost"}
    BY <1>1 DEF Survivors, CallRecord
  <2>2. QED
    BY <2>1
<1>2. ~(call' = call)
  OBVIOUS
<1>3. ASSUME NEW q \in Procs, BrokerStep(q) PROVE FALSE
  BY <1>0, <1>1, <1>3 DEF BrokerStep
<1>4. ASSUME NEW b \in Batches, NEW made \in SUBSET Calls, Begin(b, made) PROVE FALSE
  <2>1. c \notin made
    BY <1>4 DEF Begin
  <2>2. QED
    BY <1>4, <2>1 DEF Begin
<1>5. ASSUME NEW d \in Calls, BeginSerial(d) \/ Checked(d) \/ Hooked(d) \/ Finish(d) PROVE FALSE
  BY <1>0, <1>5 DEF BeginSerial, Checked, Hooked, Finish, Finished, Throws, CallRecord
<1>6. ASSUME NEW d \in Calls, d # c, Enter(d) PROVE FALSE
  BY <1>0, <1>6 DEF Enter, Finished, Throws
<1>7. ASSUME NEW d \in Calls, Ask(d) \/ Settle(d) PROVE FALSE
  <2>1. d # c
    BY <1>7 DEF Ask, Settle
  <2>2. /\ \A r : Asked(d, r)[c] = call[c]
        /\ \A result : Finished(d, result)[c] = call[c]
        /\ Settled(d)[c] = call[c]
    BY <1>0, <2>1 DEF Asked, Finished, Settled
  <2>3. /\ \A r \in Requests : Ask(d) => Asked(d, r) \in [Calls -> CallRecord]
        /\ \A result \in Results : Finished(d, result) \in [Calls -> CallRecord]
        /\ Settle(d) => Settled(d) \in [Calls -> CallRecord]
    BY AskedFacts, FinishedFacts, SettledFacts DEF ExecInv, Ask, Settle
  <2>4. "threw" \in Results
    BY DEF Results
  <2>5. CASE Ask(d)
    <3>1. \/ \E r \in Requests : call' = Survivors(Asked(d, r))
          \/ call' = Survivors(Finished(d, "threw"))
          \/ call' = Asked(d, call[d].arg)
          \/ call' = Finished(d, "threw")
      BY <2>5 DEF Ask, Throws
    <3>2. QED
      BY <1>1, <2>2, <2>3, <2>4, <2>5, <3>1
  <2>6. CASE Settle(d)
    <3>1. \/ call' = Survivors(Settled(d))
          \/ call' = Survivors(Finished(d, "threw"))
          \/ call' = Settled(d)
          \/ call' = Finished(d, "threw")
      BY <2>6 DEF Settle
    <3>2. QED
      BY <1>1, <2>2, <2>3, <2>4, <2>6, <3>1
  <2>7. QED
    BY <1>7, <2>5, <2>6
<1>8. QED
  BY <1>2, <1>3, <1>4, <1>5, <1>6, <1>7 DEF ExecNext, CallStep, vars

LEMMA HonouredStep ==
  ASSUME ExecInv, BrokerInv, [ExecNext]_vars,
         NEW c \in Calls, call[c].pc = "entering", call'[c].pc \in {"checking", "asking"},
         call[c].arg \in Requests, disk[call[c].arg].status = "approved",
         disk[call[c].arg].tool \in {call[c].tool, NoTool}
  PROVE  call'[c].held = call[c].arg
<1>1. ProcOf(c) \in Procs /\ up[ProcOf(c)] /\ call[c] \in CallRecord
  BY AtPoint, RecordFacts DEF ExecInv
<1>2. mem[ProcOf(c)][call[c].arg] = disk[call[c].arg]
  <2>1. Register!Moves(disk[call[c].arg], mem[ProcOf(c)][call[c].arg])
    BY <1>1 DEF BrokerInv, Ahead
  <2>2. QED
    BY <2>1, ClosedStays, SlotFacts
<1>3. Approved(ProcOf(c), call[c].arg, call[c].tool)
  BY <1>2 DEF Approved
<1>4. \E pc \in {"checking", "asking"} :
        call' = [call EXCEPT ![c].held = call[c].arg, ![c].pc = pc]
  <2>1. Enter(c)
    BY OnlyEnters
  <2>2. call' # Finished(c, "refused") /\ ~Throws(c)
    BY <1>1 DEF Finished, Throws, ExecInv, CallTypeOK, CallRecord
  <2>3. QED
    BY <1>3, <2>1, <2>2 DEF Enter
<1>5. QED
  BY <1>1, <1>4 DEF ExecInv, CallTypeOK, CallRecord

\* With one process, a call that names a request which the file says is
\* approved for its tool gets past the approval checks.
THEOREM ApprovalsHonoured ==
  ASSUME NEW p, Procs = {p}
  PROVE  ExecSpec => StoredApprovalHonoured
<1> DEFINE Honoured ==
      \A c \in Calls :
        LET r == call[c].arg IN
        (/\ call[c].pc = "entering" /\ call'[c].pc \in {"checking", "asking"}
         /\ r \in Requests /\ disk[r].status = "approved" /\ disk[r].tool \in {call[c].tool, NoTool})
          => call'[c].held = r
<1>1. ExecInv /\ BrokerInv /\ [ExecNext]_vars => [Honoured]_vars
  BY HonouredStep
<1>2. QED
  BY <1>1, ExecInvariant, BrokerInvUnderExecution, PTL DEF ExecSpec, StoredApprovalHonoured

-----------------------------------------------------------------------------

\* As long as no write of the file fails, what is approved in memory is
\* approved in the file.
Saved == \A q \in Procs, r \in Requests : mem[q][r].status = "approved" => disk[r].status = "approved"

LEMMA SavedStep ==
  ASSUME NEW p, Procs = {p}, "saveThrows" \notin Faults, TypeOK, Saved, BrokerMoves
  PROVE  Saved'
<1>0. \A r \in Requests : Empty[r].status # "approved"
  BY DEF Empty, Absent, Register!Absent
<1>1. ASSUME NEW map \in [Requests -> Register!Entry], NEW r, NEW event, NEW fault \in Faults,
             SaveAndAudit(p, map, r, event, fault)
      PROVE  Saved'
  <2>1. (mem'[p] = map /\ disk' = map) \/ (mem'[p] = Empty /\ disk' \in {disk, map})
    BY <1>1, BrokerAssumption DEF SaveAndAudit, TypeOK, AllFaults, CrashFaults
  <2>2. QED
    BY <1>0, <2>1 DEF Saved
<1>2. CASE Tick \/ UNCHANGED brokerVars
  BY <1>2 DEF Tick, brokerVars, Saved
<1>3. CASE Start(p) \/ Stop(p)
  BY <1>0, <1>3 DEF Start, Stop, Saved, TypeOK
<1>4. ASSUME NEW r \in Requests, NEW kind \in Types \X (Tools \cup {NoTool}), NEW fault \in Faults,
             Submit(p, r, kind, fault)
      PROVE  Saved'
  <2>1. [mem[p] EXCEPT ![r] = NewRequest(kind)] \in [Requests -> Register!Entry]
    BY NewRequestType DEF TypeOK
  <2>2. QED
    BY <1>1, <1>4, <2>1 DEF Submit
<1>5. ASSUME NEW r \in Requests, NEW d \in Decisions, NEW granted \in SUBSET Permissions,
             NEW fault \in Faults, Resolve(p, r, d, granted, fault)
      PROVE  Saved'
  <2> DEFINE outcome == IF Overdue(mem[p][r]) THEN "expired" ELSE d
  <2>1. outcome \in Closed
    BY SlotFacts
  <2>2. SaveAndAudit(p, Close(p, r, outcome), r, outcome, fault)
    BY <1>5 DEF Resolve
  <2> HIDE DEF outcome
  <2>3. QED
    BY <1>1, <2>1, <2>2, CloseType
<1>6. ASSUME NEW swept \in SUBSET Requests, NEW told \in SUBSET Requests, NEW fault \in Faults,
             ExpireOld(p, swept, told, fault)
      PROVE  Saved'
  <2> DEFINE map == Sweep(p, swept)
  <2>1. \A r \in Requests : map[r].status = "approved" => mem[p][r].status = "approved"
    <3>1. ASSUME NEW r \in swept PROVE map[r].status # "approved"
      <4>1. map[r] = [mem[p][r] EXCEPT !.status = "expired", !.decidedAt = now]
        BY <3>1 DEF Sweep, Close, TypeOK
      <4>2. mem[p][r] \in Register!Entry
        BY DEF TypeOK
      <4>3. QED
        BY <4>1, <4>2 DEF Register!Entry
    <3>2. ASSUME NEW r \in Requests \ swept PROVE map[r] = mem[p][r]
      BY <3>2 DEF Sweep
    <3>3. QED
      BY <3>1, <3>2
  <2>2. fault # "saveThrows"
    OBVIOUS
  <2>3. mem'[p] \in {map, Empty} /\ disk' \in {map, disk}
    BY <1>6 DEF ExpireOld, TypeOK
  <2>4. disk' = map => \A r \in Requests : mem'[p][r].status = "approved" => disk'[r].status = "approved"
    BY <1>0, <2>3
  <2>5. disk' = disk => \A r \in Requests : mem'[p][r].status = "approved" => disk'[r].status = "approved"
    BY <1>0, <2>1, <2>3 DEF Saved
  <2>6. QED
    BY <2>3, <2>4, <2>5 DEF Saved
<1>7. QED
  BY <1>2, <1>3, <1>4, <1>5, <1>6, BrokerAssumption DEF BrokerMoves, Next, Step, Decide

\* Where a call whose tool ran is, and what it ran under.
RanInv ==
  \A c \in Calls : call[c].ran => call[c].pc \in {"running", "done", "lost"}

\* Only Hooked starts a tool; after that, nothing of the call changes that its
\* confirmation rests on.
LEMMA RanStays ==
  ASSUME ExecInv, RanInv, [ExecNext]_vars, NEW c \in Calls, call'[c].ran
  PROVE  /\ call'[c].pc \in {"running", "done", "lost"}
         /\ call'[c].tool = call[c].tool /\ call'[c].args = call[c].args /\ call'[c].held = call[c].held
         /\ call[c].ran \/ (call[c].pc = "hooked" /\ UNCHANGED brokerVars)
<1> DEFINE Same(k) == k.tool = call[c].tool /\ k.args = call[c].args /\ k.held = call[c].held
           Goal == /\ call'[c].pc \in {"running", "done", "lost"} /\ Same(call'[c])
                   /\ call[c].ran \/ (call[c].pc = "hooked" /\ UNCHANGED brokerVars)
<1>0. call \in [Calls -> CallRecord] /\ call[c] \in CallRecord
  BY DEF ExecInv, CallTypeOK
<1>1. ASSUME NEW next \in [Calls -> CallRecord], call' = Survivors(next),
             next[c] = call[c] \/ (~next[c].ran /\ ~call[c].ran)
      PROVE  Goal
  <2>1. call'[c] = next[c] \/ call'[c] = [next[c] EXCEPT !.pc = "lost"]
    BY <1>1 DEF Survivors
  <2>2. CASE next[c] = call[c]
    BY <2>1, <2>2, <1>0 DEF RanInv, CallRecord
  <2>3. CASE ~next[c].ran
    BY <1>0, <1>1, <2>1, <2>3 DEF CallRecord
  <2>4. QED
    BY <1>1, <2>2, <2>3
<1>2. CASE call'[c] = call[c]
  BY <1>2 DEF RanInv
<1>3. ASSUME NEW q \in Procs, BrokerStep(q) PROVE Goal
  BY <1>0, <1>1, <1>3 DEF BrokerStep
<1>4. ASSUME NEW b \in Batches, NEW made \in SUBSET Calls, Begin(b, made) PROVE Goal
  <2>1. PICK tool \in [made -> Tools], args \in [made -> Args], arg \in [made -> issued \cup {NoRequest}] :
          call' = [d \in Calls |->
                     IF d \in made
                     THEN [Idle EXCEPT !.pc = IF tool[d] \in Serial THEN "waiting" ELSE "entering",
                                       !.tool = tool[d], !.args = args[d], !.arg = arg[d]]
                     ELSE call[d]]
    BY <1>4 DEF Begin
  <2>2. c \notin made
    BY <2>1 DEF Idle
  <2>3. QED
    BY <1>2, <2>1, <2>2
<1>5. ASSUME NEW d \in Calls, BeginSerial(d) \/ Enter(d) \/ Checked(d) \/ Hooked(d) \/ Finish(d)
      PROVE  Goal
  <2>1. CASE d # c
    <3>1. call'[c] = call[c]
      BY <1>0, <1>5, <2>1 DEF BeginSerial, Enter, Checked, Hooked, Finish, Finished, Throws
    <3>2. QED
      BY <1>2, <3>1
  <2>2. CASE d = c
    <3>1. CASE BeginSerial(c) \/ Enter(c) \/ Checked(c)
      <4>1. ~call[c].ran
        BY <3>1 DEF RanInv, BeginSerial, Enter, Checked
      <4>2. ~call'[c].ran
        BY <1>0, <3>1, <4>1 DEF BeginSerial, Enter, Checked, Finished, Throws, CallRecord
      <4>3. QED
        BY <4>2
    <3>2. CASE Hooked(c)
      <4>1. call[c].pc = "hooked" /\ UNCHANGED brokerVars /\ ~call[c].ran
        BY <3>2 DEF Hooked, RanInv
      <4>2. call'[c].pc \in {"running", "done"} /\ Same(call'[c])
        BY <1>0, <3>2 DEF Hooked, Finished, Throws, CallRecord
      <4>3. QED
        BY <4>1, <4>2
    <3>3. CASE Finish(c)
      BY <1>0, <3>3 DEF Finish, Finished, Throws, CallRecord
    <3>4. QED
      BY <1>5, <2>2, <3>1, <3>2, <3>3
  <2>3. QED
    BY <2>1, <2>2
<1>6. ASSUME NEW d \in Calls, Ask(d) \/ Settle(d) PROVE Goal
  <2>1. call[d].pc \in {"asking", "settling"} /\ call[d] \in CallRecord /\ ~call[d].ran
    BY <1>0, <1>6 DEF Ask, Settle, RanInv
  <2>2. ASSUME NEW next \in [Calls -> CallRecord], \A x \in Calls : x # d => next[x] = call[x],
               ~next[d].ran
        PROVE  next[c] = call[c] \/ (~next[c].ran /\ ~call[c].ran)
    BY <2>1, <2>2
  <2>3. /\ \A r \in Requests : Ask(d) => Asked(d, r) \in [Calls -> CallRecord]
        /\ \A result \in Results : Finished(d, result) \in [Calls -> CallRecord]
        /\ Settle(d) => Settled(d) \in [Calls -> CallRecord]
    BY AskedFacts, FinishedFacts, SettledFacts DEF ExecInv, Ask, Settle
  <2>4. /\ \A x \in Calls \ {d} : (\A r : Asked(d, r)[x] = call[x]) /\ (\A result : Finished(d, result)[x] = call[x])
                                  /\ Settled(d)[x] = call[x]
    BY <1>0 DEF Asked, Finished, Settled
  <2>5. /\ \A r : ~Asked(d, r)[d].ran
        /\ \A result : ~Finished(d, result)[d].ran
        /\ ~Settled(d)[d].ran
    BY <1>0, <2>1 DEF Asked, Finished, Settled, CallRecord
  <2>6. "threw" \in Results
    BY DEF Results
  <2>7. PICK next \in [Calls -> CallRecord] :
          /\ \A x \in Calls : x # d => next[x] = call[x]
          /\ ~next[d].ran
          /\ call' = Survivors(next) \/ call' = next
    <3>1. CASE Ask(d)
      <4>1. \/ \E r \in Requests : call' = Survivors(Asked(d, r)) \/ call' = Asked(d, r)
            \/ call' = Survivors(Finished(d, "threw")) \/ call' = Finished(d, "threw")
        BY <3>1 DEF Ask, Throws
      <4>2. QED
        BY <2>3, <2>4, <2>5, <2>6, <3>1, <4>1
    <3>2. CASE Settle(d)
      <4>1. \/ call' = Survivors(Settled(d)) \/ call' = Settled(d)
            \/ call' = Survivors(Finished(d, "threw")) \/ call' = Finished(d, "threw")
        BY <3>2 DEF Settle
      <4>2. QED
        BY <2>3, <2>4, <2>5, <2>6, <3>2, <4>1
    <3>3. QED
      BY <1>6, <3>1, <3>2
  <2>8. CASE call' = Survivors(next)
    BY <1>1, <2>2, <2>7, <2>8
  <2>9. CASE call' = next
    BY <1>2, <2>2, <2>7, <2>9
  <2>10. QED
    BY <2>7, <2>8, <2>9
<1>7. Goal
  BY <1>2, <1>3, <1>4, <1>5, <1>6 DEF ExecNext, CallStep, vars
<1>8. QED
  BY <1>7

LEMMA RanStep ==
  ASSUME NEW p, Procs = {p}, "saveThrows" \notin Faults, ExecInv, ExecInv', BrokerInv,
         Saved, RanInv, RanUnderStoredApproval, [ExecNext]_vars
  PROVE  Saved' /\ RanInv' /\ RanUnderStoredApproval'
<1>1. BrokerMoves /\ Saved'
  BY ExecMoves, SavedStep DEF ExecInv
<1>2. RanInv'
  BY RanStays DEF RanInv
<1>3. \A r \in Requests : disk[r].status = "approved" => disk'[r].status = "approved"
  BY <1>1, StepKeeps, ClosedStays, SlotFacts DEF Kept, ExecInv
<1>4. ASSUME NEW c \in Calls, call'[c].ran, Gated(c)'
      PROVE  call'[c].held \in Requests /\ disk'[call'[c].held].status = "approved"
  <2>1. Gated(c) /\ call'[c].held = call[c].held
    BY <1>4, RanStays DEF Gated
  <2>2. CASE call[c].ran
    BY <1>3, <2>1, <2>2 DEF RanUnderStoredApproval
  <2>3. CASE call[c].pc = "hooked" /\ UNCHANGED brokerVars
    <3>1. Approved(ProcOf(c), call[c].held, call[c].tool) /\ ProcOf(c) \in Procs
      BY <2>1, <2>3, ExecutionAssumption DEF ExecInv, Confirmed, Cleared, Gated, ProcOf
    <3>2. QED
      BY <2>1, <2>3, <3>1 DEF Approved, Saved, brokerVars
  <2>4. QED
    BY <1>4, <2>2, <2>3, RanStays
<1>5. QED
  BY <1>1, <1>2, <1>4 DEF RanUnderStoredApproval

LEMMA RanStart == ExecInit => Saved /\ RanInv /\ RanUnderStoredApproval
BY DEF ExecInit, Init, Idle, Saved, RanInv, RanUnderStoredApproval, Empty, Absent, Register!Absent

\* With one process whose file can be written, a confirmed tool that ever ran
\* did so under an approval that the file still holds.
THEOREM RanUnderApproval ==
  ASSUME NEW p, Procs = {p}, "saveThrows" \notin Faults
  PROVE  ExecSpec => []RanUnderStoredApproval
<1> DEFINE Inv == Saved /\ RanInv /\ RanUnderStoredApproval
<1>1. ExecInit => Inv
  BY RanStart
<1>2. ExecInv /\ ExecInv' /\ BrokerInv /\ Inv /\ [ExecNext]_vars => Inv'
  BY RanStep
<1>3. Inv => RanUnderStoredApproval
  OBVIOUS
<1> HIDE DEF Inv
<1>4. QED
  BY <1>1, <1>2, <1>3, ExecInvariant, BrokerInvUnderExecution, PTL DEF ExecSpec
=============================================================================
