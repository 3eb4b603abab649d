--------------------------- MODULE ModelTurnProofs ---------------------------
(***************************************************************************)
(* Theorems about the turns of a chat, for any number of turns typed at    *)
(* any moments, any sizes, any batches of calls, and any limits: what the  *)
(* tool executor promises holds under them too, what the model is sent,    *)
(* what the session keeps, and what a turn gets of a streamed answer.      *)
(***************************************************************************)
EXTENDS ModelTurn, ToolExecutionProofs, SequenceTheorems, FiniteSetTheorems, WellFoundedInduction

Coroutine == [pc : TurnPoints, iter : 0..MaxIterations, attempt : 0..MaxRetries]

\* The coroutines of the turns, and that iterations are counted from one.
Steady ==
  /\ turn \in [Turns -> Coroutine]
  /\ \A t \in Turns :
       /\ turn[t].pc \in {"idle", "preparing"} => turn[t].iter = 0
       /\ turn[t].pc \in {"reading", "chatting", "executing", "ending"} => turn[t].iter # 0

\* The engine's records of a turn at its next await.
LEMMA AtType ==
  ASSUME Steady, NEW t \in Turns, NEW pc \in TurnPoints
  PROVE  /\ At(t, pc)[t] = [pc |-> pc, iter |-> turn[t].iter, attempt |-> 0]
         /\ \A u \in Turns \ {t} : At(t, pc)[u] = turn[u]
         /\ At(t, pc) \in [Turns -> Coroutine]
<1>1. turn[t] \in Coroutine
  BY DEF Steady
<1>2. 0 \in 0..MaxRetries
  BY TurnAssumption
<1> DEFINE k == [pc |-> pc, iter |-> turn[t].iter, attempt |-> 0]
<1>3. [turn[t] EXCEPT !.pc = pc, !.attempt = 0] = k
  <2> DEFINE moved == [turn[t] EXCEPT !.pc = pc]
  <2>1. moved = [pc |-> pc, iter |-> turn[t].iter, attempt |-> turn[t].attempt]
    BY <1>1 DEF Coroutine
  <2> HIDE DEF moved
  <2>2. [moved EXCEPT !.attempt = 0] = k
    BY <2>1
  <2>3. QED
    BY <2>2 DEF moved
<1>4. At(t, pc) = [turn EXCEPT ![t] = k]
  <2> DEFINE f == [turn EXCEPT ![t] = [turn[t] EXCEPT !.pc = pc]]
  <2>1. /\ f[t] = [turn[t] EXCEPT !.pc = pc] /\ t \in DOMAIN f
        /\ At(t, pc) = [f EXCEPT ![t] = [f[t] EXCEPT !.attempt = 0]]
    BY DEF At, Steady
  <2>2. At(t, pc) = [f EXCEPT ![t] = k]
    BY <1>3, <2>1
  <2> HIDE DEF k
  <2>3. QED
    BY <2>2 DEF Steady
<1>5. k \in Coroutine
  BY <1>1, <1>2 DEF Coroutine
<1> HIDE DEF k
<1>6. QED
  BY <1>4, <1>5 DEF Steady, k

LEMMA IteratedType ==
  ASSUME Steady, NEW t \in Turns, turn[t].iter < MaxIterations
  PROVE  /\ Iterated(t)[t].pc \in {"reading", "chatting"} /\ Iterated(t)[t].iter = turn[t].iter + 1
         /\ Iterated(t)[t].iter # 0
         /\ \A u \in Turns \ {t} : Iterated(t)[u] = turn[u]
         /\ Iterated(t) \in [Turns -> Coroutine]
<1> DEFINE pc == IF Streaming /\ turn[t].iter = 0 THEN "reading" ELSE "chatting"
           k == [pc |-> pc, iter |-> turn[t].iter + 1, attempt |-> 0]
<1>1. turn[t].iter \in Nat /\ turn[t].iter + 1 \in 0..MaxIterations /\ 0 \in 0..MaxRetries
  BY TurnAssumption DEF Steady, Coroutine
<1>2. pc \in {"reading", "chatting"} /\ pc \in TurnPoints
  BY DEF TurnPoints
<1>3. Iterated(t) = [At(t, pc) EXCEPT ![t] = [At(t, pc)[t] EXCEPT !.iter = At(t, pc)[t].iter + 1]]
  BY DEF Iterated
<1>4. k.pc = pc /\ k.iter = turn[t].iter + 1 /\ k \in Coroutine
  BY <1>1, <1>2 DEF Coroutine
<1> HIDE DEF pc
<1>5. Iterated(t) = [At(t, pc) EXCEPT ![t] = k]
  <2>1. At(t, pc)[t] = [pc |-> pc, iter |-> turn[t].iter, attempt |-> 0]
    BY <1>2, AtType
  <2>2. [At(t, pc)[t] EXCEPT !.iter = At(t, pc)[t].iter + 1] = k
    BY <2>1
  <2>3. QED
    BY <1>3, <2>2
<1> HIDE DEF k
<1> DEFINE g == At(t, pc)
<1>6. /\ \A u \in Turns \ {t} : g[u] = turn[u]
      /\ g \in [Turns -> Coroutine]
  BY <1>2, AtType
<1>7. Iterated(t) = [g EXCEPT ![t] = k]
  BY <1>5
<1> HIDE DEF g
<1>8. /\ Iterated(t)[t] = k
      /\ \A u \in Turns \ {t} : Iterated(t)[u] = turn[u]
      /\ Iterated(t) \in [Turns -> Coroutine]
  BY <1>4, <1>6, <1>7
<1>9. QED
  BY <1>1, <1>2, <1>4, <1>8

-----------------------------------------------------------------------------

\* What a turn asks of the executor: that the calls of its next batch begin.
LEMMA RecordBegins ==
  ASSUME Steady, NEW t \in Turns, turn[t].pc \in {"reading", "chatting"},
         NEW calls \in SUBSET Callable(t), Record(t, calls)
  PROVE  UNCHANGED vars \/ \E b \in Batches : Begin(b, calls)
<1>1. CASE calls = {}
  BY <1>1 DEF Record, vars
<1>2. CASE calls # {}
  <2>1. PICK c \in Calls : c \in calls /\ BatchOf[c] = BatchAt[t][turn[t].iter]
    BY <1>2 DEF Callable
  <2>2. BatchAt[t][turn[t].iter] \in Batches
    BY <2>1, ExecutionAssumption
  <2>3. QED
    BY <1>2, <2>2 DEF Record, vars
<1>3. QED
  BY <1>1, <1>2

\* What the steps of the turns are to the executor: steps of its own, or the
\* end of a batch, whose calls are over.
LEMMA TurnCalls ==
  ASSUME Steady, [TurnNext]_allVars
  PROVE  \/ [ExecNext]_vars
         \/ /\ UNCHANGED brokerVars
            /\ \E t \in Turns : call' = Taken(Made(t)) /\ \A c \in Made(t) : Over(c)
<1>1. CASE UNCHANGED vars
  BY <1>1
<1>2. ASSUME NEW t \in Turns, CloseStream(t) \/ Answer(t)
      PROVE  [ExecNext]_vars
  <2>1. PICK calls \in SUBSET Callable(t) : Record(t, calls)
    BY <1>2 DEF CloseStream, Answer
  <2>2. turn[t].pc \in {"reading", "chatting"}
    BY <1>2 DEF CloseStream, Answer, Ready
  <2>3. calls \in SUBSET Calls
    BY DEF Callable
  <2>4. QED
    BY <2>1, <2>2, <2>3, RecordBegins DEF ExecNext
<1>3. ASSUME NEW t \in Turns, Collect(t)
      PROVE  UNCHANGED brokerVars /\ call' = Taken(Made(t)) /\ \A c \in Made(t) : Over(c)
  BY <1>3 DEF Collect
<1>4. ASSUME NEW t \in Turns,
             \/ Prepare(t) \/ BreakStream(t) \/ FailChat(t) \/ Abort(t) \/ Save(t) \/ Reload(t)
             \/ \E size : Type(t, size)
      PROVE  UNCHANGED vars
  BY <1>4 DEF Prepare, BreakStream, FailChat, AttemptFailed, Abort, Save, Reload, Type, Give, vars
<1>5. CASE (\E c \in Calls : CallStep(c)) \/ \E p \in Procs : BrokerStep(p)
  BY <1>5 DEF ExecNext
<1>6. QED
  BY <1>1, <1>2, <1>3, <1>4, <1>5 DEF TurnNext, TurnStep, allVars, vars

\* The end of a batch: nothing is asked of its calls any more.
LEMMA TakenKeeps ==
  ASSUME ExecInv, Ordered, UNCHANGED brokerVars, NEW made, \A c \in made : Over(c), call' = Taken(made)
  PROVE  ExecInv' /\ Ordered'
<1>1. TypeOK' /\ Unissued'
  <2>1. BrokerMoves
    BY DEF BrokerMoves
  <2>2. QED
    BY <2>1, TypeStep, UnissuedStep DEF ExecInv
<1> DEFINE gone == [Idle EXCEPT !.pc = "done"]
<1>2. gone \in CallRecord /\ gone.pc = "done" /\ gone.tool = NoTool /\ gone.result = "none"
  BY DEF Idle, CallRecord, Points, Results
<1> HIDE DEF gone
<1>3. \A c \in Calls : call'[c] = IF c \in made THEN gone ELSE call[c]
  BY DEF Taken, gone
<1>4. CallTypeOK'
  BY <1>2 DEF Taken, gone, ExecInv, CallTypeOK
<1>5. Confirmed'
  <2> SUFFICES ASSUME NEW c \in Calls PROVE Cleared(ProcOf(c), call[c])'
    BY DEF Confirmed
  <2>1. CASE c \in made
    BY <1>2, <1>3, <2>1, RecordFacts DEF Cleared
  <2>2. CASE c \notin made
    <3>1. Cleared(ProcOf(c), call[c]) /\ call'[c] = call[c]
      BY <1>3, <2>2 DEF ExecInv, Confirmed
    <3>2. QED
      BY <3>1 DEF Cleared, Approved, brokerVars, ProcOf
  <2>3. QED
    BY <2>1, <2>2
<1>6. Ordered'
  <2>1. \A c \in Calls : Beside(c)' = Beside(c)
    BY <1>2, <1>3 DEF Beside, Over
  <2>2. \A c \in Calls : Started(c)' => Started(c) /\ call'[c] = call[c]
    BY <1>2, <1>3, RecordFacts DEF Started
  <2>3. \A d \in Calls : Over(d) => Over(d)'
    BY <1>2, <1>3 DEF Over
  <2>4. ASSUME NEW c \in Calls, NEW d \in Beside(c), Started(c)', call'[c].tool \in Serial,
               call'[d].tool \notin Serial \/ d < c
        PROVE  Over(d)'
    <3>1. d \in Calls /\ Started(c) /\ call[c].tool \in Serial
      BY <2>2, <2>4 DEF Beside
    <3>2. CASE d \in made
      BY <2>3, <3>1, <3>2
    <3>3. CASE d \notin made
      BY <1>3, <2>3, <2>4, <3>1, <3>3 DEF Ordered
    <3>4. QED
      BY <3>2, <3>3
  <2>5. QED
    BY <2>1, <2>4 DEF Ordered
<1>7. QED
  BY <1>1, <1>4, <1>5, <1>6 DEF ExecInv

LEMMA TurnKeepsExecution ==
  ExecInv /\ Ordered /\ Steady /\ [TurnNext]_allVars => ExecInv' /\ Ordered'
<1> SUFFICES ASSUME ExecInv, Ordered, Steady, [TurnNext]_allVars PROVE ExecInv' /\ Ordered'
  OBVIOUS
<1>1. CASE [ExecNext]_vars
  BY <1>1, ExecKeeps, OrderedStep
<1>2. ASSUME NEW t \in Turns, UNCHANGED brokerVars, call' = Taken(Made(t)), \A c \in Made(t) : Over(c)
      PROVE  ExecInv' /\ Ordered'
  BY <1>2, TakenKeeps
<1>3. QED
  BY <1>1, <1>2, TurnCalls

-----------------------------------------------------------------------------

Below == {pair \in Nat \X Nat : pair[1] < pair[2]}

\* A set of natural numbers has a least element.
LEMMA LeastNatural ==
  ASSUME NEW S \in SUBSET Nat, S # {}
  PROVE  \E n \in S : \A m \in S : n <= m
<1>1. IsWellFoundedOn(Below, Nat)
  BY NatLessThanWellFounded DEF OpToRel, Below
<1>2. PICK n \in S : \A m \in S : ~(<<m, n>> \in Below)
  BY <1>1, WFMin
<1>3. ASSUME NEW m \in S PROVE n <= m
  <2>1. ~(m < n)
    BY <1>2 DEF Below
  <2>2. m \in Nat /\ n \in Nat
    OBVIOUS
  <2>3. QED
    BY <2>1, <2>2
<1>4. QED
  BY <1>3

\* Numbers of calls below a call, in a finite set.
Rank(c, S) == Cardinality({d \in S : d < c})

LEMMA RankGrows ==
  ASSUME NEW S, IsFiniteSet(S), S \subseteq Nat
  PROVE  /\ \A c \in S : Rank(c, S) + 1 \in 1 .. Cardinality(S)
         /\ \A c, d \in S : c < d => Rank(c, S) < Rank(d, S)
<1>1. Cardinality(S) \in Nat
  BY FS_CardinalityType
<1>2. ASSUME NEW c \in S
      PROVE  IsFiniteSet({d \in S : d < c}) /\ Rank(c, S) \in Nat /\ Rank(c, S) < Cardinality(S)
  <2>1. {d \in S : d < c} \subseteq S /\ {d \in S : d < c} # S
    OBVIOUS
  <2>2. QED
    BY <1>1, <2>1, FS_Subset, FS_CardinalityType DEF Rank
<1>3. ASSUME NEW c \in S, NEW d \in S, c < d PROVE Rank(c, S) < Rank(d, S)
  <2> DEFINE B(k) == {m \in S : m < k}
  <2>1. B(c) \subseteq B(d) /\ c \in B(d) /\ c \notin B(c)
    <3>1. c \in Nat /\ d \in Nat /\ \A m \in S : m \in Nat
      OBVIOUS
    <3>2. (\A m \in S : m < c => m < d) /\ ~(c < c)
      BY <1>3, <3>1
    <3>3. QED
      BY <1>3, <3>2
  <2>2. IsFiniteSet(B(d)) /\ Rank(c, S) = Cardinality(B(c)) /\ Rank(d, S) = Cardinality(B(d))
    BY <1>2 DEF Rank
  <2>3. B(c) # B(d) /\ Cardinality(B(c)) <= Cardinality(B(d)) /\ Cardinality(B(c)) # Cardinality(B(d))
    BY <2>1, <2>2, FS_Subset
  <2>4. QED
    BY <1>2, <2>2, <2>3
<1>4. ASSUME NEW c \in S PROVE Rank(c, S) + 1 \in 1 .. Cardinality(S)
  <2>1. Rank(c, S) \in Nat /\ Rank(c, S) < Cardinality(S)
    BY <1>2
  <2>2. QED
    BY <1>1, <2>1
<1>5. QED
  BY <1>3, <1>4

\* The calls of a set can be listed, each once and in their order.
LEMMA ListedIs ==
  ASSUME NEW S \in SUBSET Calls
  PROVE  /\ IsFiniteSet(S) /\ Cardinality(S) \in Nat
         /\ Listed(S) \in [1 .. Cardinality(S) -> S]
         /\ \A i, j \in 1 .. Cardinality(S) : i < j => Listed(S)[i] < Listed(S)[j]
         /\ \A c \in S : \E i \in 1 .. Cardinality(S) : Listed(S)[i] = c
<1> DEFINE n == Cardinality(S)
<1>1. IsFiniteSet(S) /\ n \in Nat /\ S \subseteq Nat
  BY TurnAssumption, ExecutionAssumption, FS_Subset, FS_CardinalityType
<1>2. IsFiniteSet(1..n) /\ Cardinality(1..n) = n
  BY <1>1, FS_Interval
<1> DEFINE f == [c \in S |-> Rank(c, S) + 1]
<1>3. f \in [S -> 1..n] /\ \A c, d \in S : c < d => f[c] < f[d]
  <2>1. \A c \in S : Rank(c, S) + 1 \in 1..n
    BY <1>1, RankGrows
  <2>2. \A c, d \in S : c < d => Rank(c, S) < Rank(d, S)
    BY <1>1, RankGrows
  <2>3. \A c \in S : Rank(c, S) \in Nat
    BY <1>1, FS_Subset, FS_CardinalityType DEF Rank
  <2>4. QED
    BY <1>1, <2>1, <2>2, <2>3
<1> HIDE DEF f, n
<1>4. f \in Injection(S, 1..n)
  BY <1>1, <1>3 DEF Injection, IsInjective
<1>5. \A i \in 1..n : \E c \in S : f[c] = i
  <2>1. f \in Surjection(S, 1..n)
    BY <1>1, <1>2, <1>4, FS_Injection DEF n
  <2>2. QED
    BY <2>1 DEF Surjection
<1> DEFINE list == [i \in 1..n |-> CHOOSE c \in S : f[c] = i]
<1>6. \A i \in 1..n : list[i] \in S /\ f[list[i]] = i
  BY <1>5
<1>7. list \in [1..n -> S] /\ \A i, j \in DOMAIN list : i < j => list[i] < list[j]
  <2>1. list \in [1..n -> S] /\ DOMAIN list = 1..n
    BY <1>6
  <2> HIDE DEF list
  <2>2. ASSUME NEW i \in 1..n, NEW j \in 1..n, i < j PROVE list[i] < list[j]
    <3>1. list[i] \in Nat /\ list[j] \in Nat
      BY <1>1, <1>6
    <3>2. list[i] \in S /\ list[j] \in S /\ f[list[i]] = i /\ f[list[j]] = j
      BY <1>6
    <3>3. list[j] < list[i] => j < i
      BY <1>3, <3>2
    <3>4. i \in Nat /\ j \in Nat /\ ~(j < i) /\ i # j
      BY <1>1, <2>2
    <3>5. QED
      BY <3>1, <3>2, <3>3, <3>4
  <2>3. QED
    BY <2>1, <2>2
<1> HIDE DEF list
<1>8. Listed(S) \in [1..n -> S] /\ \A i, j \in 1..n : i < j => Listed(S)[i] < Listed(S)[j]
  BY <1>7 DEF Listed, n
<1>9. \A c \in S : \E i \in 1..n : Listed(S)[i] = c
  <2> DEFINE l == Listed(S)
  <2>1. ASSUME NEW i \in 1..n, NEW j \in 1..n, l[i] = l[j] PROVE i = j
    <3>0. l[i] \in S /\ l[j] \in S
      BY <1>8
    <3>1. i \in Nat /\ j \in Nat /\ l[i] \in Nat /\ l[j] \in Nat
      <4>1. i \in Nat /\ j \in Nat
        BY <1>1
      <4>2. QED
        BY <1>1, <3>0, <4>1, Zenon
    <3>2. ~(i < j) /\ ~(j < i)
      BY <1>8, <2>1, <3>1
    <3>3. QED
      BY <3>1, <3>2
  <2>2. l \in Injection(1..n, S)
    BY <1>8, <2>1 DEF Injection, IsInjective
  <2> HIDE DEF l
  <2>3. l \in Surjection(1..n, S)
    BY <1>1, <1>2, <2>2, FS_Injection DEF n
  <2>4. QED
    BY <2>3 DEF Surjection, l
<1>10. QED
  BY <1>1, <1>8, <1>9 DEF n

-----------------------------------------------------------------------------

\* The messages that turns make.
LEMMA MessageTypes ==
  ASSUME NEW t \in Turns
  PROVE  /\ \A size \in SizesOf[t] : User(t, size) \in Message
         /\ \A calls \in SUBSET Calls : Assistant(t, calls) \in Message
         /\ \A c \in Calls : ToolResult(t, c) \in Message
<1>1. SizesOf[t] \subseteq UNION Range(SizesOf)
  BY TurnAssumption DEF Range
<1> DEFINE sizes == (UNION Range(SizesOf)) \cup {0, 1, ResultSize}
<1>2. Message = [role : {"user", "assistant", "tool"}, turn : Turns, calls : SUBSET Calls, size : sizes]
  BY DEF Message
<1>3. SizesOf[t] \subseteq sizes /\ 0 \in sizes /\ 1 \in sizes /\ ResultSize \in sizes
  BY <1>1
<1> HIDE DEF sizes
<1>4. QED
  BY <1>2, <1>3 DEF User, Assistant, ToolResult

\* The results of a batch: one for each call that was made.
LEMMA ResultsAre ==
  ASSUME NEW t \in Turns
  PROVE  /\ ResultsOf(t) \in Seq(Message)
         /\ \A i \in 1 .. Len(ResultsOf(t)) : \E c \in Made(t) : ResultsOf(t)[i] = ToolResult(t, c)
         /\ \A c \in Made(t) : \E i \in 1 .. Len(ResultsOf(t)) :
              /\ ResultsOf(t)[i] = ToolResult(t, c)
              /\ \A j \in 1 .. Len(ResultsOf(t)) : ResultsOf(t)[j] = ToolResult(t, c) => j = i
<1> DEFINE S == Made(t)
           n == Cardinality(S)
<1>1. S \in SUBSET Calls
  BY DEF Made, Callable
<1>2. /\ n \in Nat /\ Listed(S) \in [1..n -> S]
      /\ \A i, j \in 1..n : i < j => Listed(S)[i] < Listed(S)[j]
      /\ \A c \in S : \E i \in 1..n : Listed(S)[i] = c
  BY <1>1, ListedIs
<1>3. ResultsOf(t) = [i \in 1..n |-> ToolResult(t, Listed(S)[i])]
  BY DEF ResultsOf
<1> HIDE DEF n, S
<1>4. \A i \in 1..n : ToolResult(t, Listed(S)[i]) \in Message
  BY <1>1, <1>2, MessageTypes
<1>5. ResultsOf(t) \in Seq(Message) /\ Len(ResultsOf(t)) = n
  BY <1>2, <1>3, <1>4
<1>6. ASSUME NEW i \in 1..n PROVE \E c \in S : ResultsOf(t)[i] = ToolResult(t, c)
  BY <1>2, <1>3
<1>7. ASSUME NEW c \in S
      PROVE  \E i \in 1..n : /\ ResultsOf(t)[i] = ToolResult(t, c)
                             /\ \A j \in 1..n : ResultsOf(t)[j] = ToolResult(t, c) => j = i
  <2>1. PICK i \in 1..n : Listed(S)[i] = c
    BY <1>2
  <2>2. ASSUME NEW j \in 1..n, ResultsOf(t)[j] = ToolResult(t, c) PROVE j = i
    <3>1. Listed(S)[j] = c
      <4>1. ToolResult(t, Listed(S)[j]).calls = ToolResult(t, c).calls
        BY <1>3, <2>2
      <4>2. QED
        BY <4>1 DEF ToolResult
    <3>2. i \in Nat /\ j \in Nat
      BY <1>2
    <3>3. c \in Nat
      BY <1>1, ExecutionAssumption
    <3>4. ~(i < j) /\ ~(j < i)
      BY <1>2, <2>1, <3>1, <3>3
    <3>5. QED
      BY <3>2, <3>4
  <2>3. QED
    BY <1>3, <2>1, <2>2
<1>8. QED
  BY <1>5, <1>6, <1>7 DEF S

\* Where truncateMessages stops.
LEMMA KeepFromIs ==
  ASSUME NEW s, Len(s) \in Nat
  PROVE  /\ KeepFrom(s) \in 1 .. Len(s) + 1
         /\ \A j \in KeepFrom(s) .. Len(s) : Contents(Suffix(s, j)) <= Target
         /\ \A i \in 1 .. Len(s) + 1 :
              (\A j \in i .. Len(s) : Contents(Suffix(s, j)) <= Target) => KeepFrom(s) <= i
<1> DEFINE Fits(j) == Contents(Suffix(s, j)) <= Target
           S == {i \in 1 .. Len(s) + 1 : \A j \in i .. Len(s) : Fits(j)}
<1> HIDE DEF Fits
<1>1. Len(s) + 1 \in S
  OBVIOUS
<1>2. S \in SUBSET Nat /\ S # {}
  BY <1>1
<1>3. \E i \in S : \A j \in S : i <= j
  BY <1>2, LeastNatural
<1>4. KeepFrom(s) = Min(S)
  BY DEF KeepFrom, Fits
<1>5. KeepFrom(s) \in S /\ \A j \in S : KeepFrom(s) <= j
  BY <1>3, <1>4 DEF Min
<1>6. QED
  BY <1>5 DEF Fits

-----------------------------------------------------------------------------

\* A tail of a sequence.
LEMMA SuffixIs ==
  ASSUME NEW S, NEW s \in Seq(S), NEW from \in 1 .. Len(s) + 1
  PROVE  /\ Suffix(s, from) \in Seq(S) /\ Len(Suffix(s, from)) = Len(s) - from + 1
         /\ \A i \in 1 .. Len(s) - from + 1 : Suffix(s, from)[i] = s[from + i - 1]
<1>1. Len(s) \in Nat /\ from \in Int /\ \A i \in from .. Len(s) : s[i] \in S
  OBVIOUS
<1>2. /\ SubSeq(s, from, Len(s)) \in Seq(S)
      /\ Len(SubSeq(s, from, Len(s))) = IF from <= Len(s) THEN Len(s) - from + 1 ELSE 0
      /\ \A i \in 1 .. Len(s) - from + 1 : SubSeq(s, from, Len(s))[i] = s[from + i - 1]
  BY <1>1, SubSeqProperties
<1>3. QED
  BY <1>1, <1>2 DEF Suffix

\* slice(-maxHistory) is a tail, as long as the limit allows.
LEMMA LastMessagesIs ==
  ASSUME NEW S, NEW s \in Seq(S)
  PROVE  /\ LastMessages(s) \in Seq(S)
         /\ \E from \in 1 .. Len(s) + 1 :
              /\ LastMessages(s) = Suffix(s, from) /\ Len(LastMessages(s)) = Len(s) - from + 1
              /\ Len(s) - from + 1 <= MaxHistory
              /\ from = 1 \/ Len(s) - from + 1 = MaxHistory
<1>1. Len(s) \in Nat /\ MaxHistory \in Nat \ {0}
  BY TurnAssumption
<1>2. CASE Len(s) > MaxHistory
  <2> DEFINE from == Len(s) - MaxHistory + 1
  <2>1. from \in 1 .. Len(s) + 1 /\ Len(s) - from + 1 = MaxHistory
    BY <1>1, <1>2
  <2>2. LastMessages(s) = Suffix(s, from)
    BY <1>2 DEF LastMessages
  <2> HIDE DEF from
  <2>3. Suffix(s, from) \in Seq(S) /\ Len(Suffix(s, from)) = Len(s) - from + 1
    BY <2>1, SuffixIs
  <2>4. QED
    BY <1>1, <2>1, <2>2, <2>3
<1>3. CASE ~(Len(s) > MaxHistory)
  <2>1. Suffix(s, 1) = s
    BY SubSeqFull DEF Suffix
  <2>2. LastMessages(s) = s /\ 1 \in 1 .. Len(s) + 1 /\ Len(s) - 1 + 1 = Len(s) /\ Len(s) <= MaxHistory
    BY <1>1, <1>3 DEF LastMessages
  <2>3. QED
    BY <2>1, <2>2
<1>4. QED
  BY <1>2, <1>3

\* What the model is sent of a session.
LEMMA WindowType ==
  ASSUME NEW s \in Seq(Message)
  PROVE  /\ Window(s).cut \in BOOLEAN /\ Window(s).msgs \in Seq(Message)
         /\ Window(s) \in [cut : BOOLEAN, msgs : Seq(Message)]
         /\ ~Window(s).cut => Window(s).msgs = s
<1> DEFINE recent == LastMessages(s)
           kept   == IF Tokens(recent) <= Budget THEN recent ELSE Suffix(recent, KeepFrom(recent))
<1>1. recent \in Seq(Message)
  BY LastMessagesIs
<1>2. kept \in Seq(Message)
  <2> HIDE DEF recent
  <2>1. Len(recent) \in Nat
    BY <1>1
  <2>2. KeepFrom(recent) \in 1 .. Len(recent) + 1
    BY <2>1, KeepFromIs
  <2>3. Suffix(recent, KeepFrom(recent)) \in Seq(Message)
    BY <1>1, <2>2, SuffixIs
  <2>4. QED
    BY <1>1, <2>3
<1> DEFINE cut == kept # s
<1>3. Window(s) = [cut |-> cut, msgs |-> kept]
  BY DEF Window
<1>4. cut \in BOOLEAN /\ (~cut => kept = s)
  OBVIOUS
<1> HIDE DEF cut, kept
<1>5. QED
  BY <1>2, <1>3, <1>4

\* The messages that the Session objects, their file and the turns hold; a turn
\* that runs works on one of the objects.
Histories ==
  /\ session \in Seq(Seq(Message)) /\ session # <<>> /\ stored \in Seq(Message)
  /\ sent \in [Turns -> [cut : BOOLEAN, msgs : Seq(Message)]]
  /\ on \in [Turns -> Nat] /\ crowded \in SUBSET Turns
  /\ \A t \in Turns : Running(t) => on[t] \in 1 .. Len(session)

\* The objects and their types.
LEMMA ObjectTypes ==
  ASSUME Histories
  PROVE  /\ Len(session) \in 1 .. Len(session) /\ Len(session) \in Nat
         /\ \A o \in 1 .. Len(session) : session[o] \in Seq(Message)
BY DEF Histories

\* These messages are appended to one of them.
Adds(o, more) ==
  /\ o \in 1 .. Len(session)
  /\ session' = [session EXCEPT ![o] = @ \o more]

LEMMA AddsIs ==
  ASSUME Histories, NEW o, NEW more \in Seq(Message), Adds(o, more)
  PROVE  /\ session' \in Seq(Seq(Message)) /\ session' # <<>> /\ Len(session') = Len(session)
         /\ session'[o] = session[o] \o more
         /\ \A p \in 1 .. Len(session) : p # o => session'[p] = session[p]
<1>1. /\ session \in Seq(Seq(Message)) /\ o \in 1 .. Len(session) /\ Len(session) \in Nat
      /\ session[o] \in Seq(Message)
  BY DEF Histories, Adds
<1> DEFINE longer == session[o] \o more
<1>2. longer \in Seq(Message)
  BY <1>1
<1>3. session' = [session EXCEPT ![o] = longer]
  BY DEF Adds
<1> HIDE DEF longer
<1>4. session' \in Seq(Seq(Message)) /\ Len(session') = Len(session)
  BY <1>1, <1>2, <1>3
<1>5. session'[o] = longer /\ \A p \in 1 .. Len(session) : p # o => session'[p] = session[p]
  BY <1>1, <1>3
<1>6. QED
  BY <1>1, <1>4, <1>5 DEF longer

LEMMA CutTypes == NothingSent \in [cut : BOOLEAN, msgs : Seq(Message)]
BY DEF NothingSent

-----------------------------------------------------------------------------

\* The calls that were made so far.
Begun == {c \in Calls : call[c].pc # "idle"}

\* No call is made, or taken back, by a step of a call or of the broker.
LEMMA CallsStayBegun ==
  ASSUME ExecInv, (\E c \in Calls : CallStep(c)) \/ \E p \in Procs : BrokerStep(p)
  PROVE  Begun' = Begun
<1>1. CallTypeOK /\ Confirmed /\ call \in [Calls -> CallRecord]
  BY DEF ExecInv, CallTypeOK
<1>2. (\A d \in Calls : Onward(call[d], call'[d])) => Begun' = Begun
  BY DEF Onward, Begun
<1>3. ASSUME NEW c \in Calls, Enter(c) \/ Checked(c) \/ Hooked(c) \/ Finish(c)
      PROVE  Begun' = Begun
  BY <1>1, <1>2, <1>3, LocalOnward
<1>4. ASSUME NEW c \in Calls, Ask(c) \/ Settle(c)
      PROVE  Begun' = Begun
  BY <1>1, <1>2, <1>4, BrokerOnward
<1>5. ASSUME NEW c \in Calls, BeginSerial(c)
      PROVE  Begun' = Begun
  BY <1>1, <1>5 DEF BeginSerial, Begun, CallRecord
<1>6. ASSUME NEW p \in Procs, BrokerStep(p)
      PROVE  Begun' = Begun
  <2>1. \A d \in Calls : Onward(call[d], call[d])
    BY DEF Onward
  <2>2. call' = Survivors(call)
    BY <1>6 DEF BrokerStep
  <2>3. QED
    BY <1>1, <1>2, <2>1, <2>2, SurvivorsOnward
<1>7. QED
  BY <1>3, <1>4, <1>5, <1>6 DEF CallStep

LEMMA TakenStayBegun ==
  ASSUME NEW t \in Turns, call' = Taken(Made(t))
  PROVE  Begun' = Begun
<1> DEFINE gone == [Idle EXCEPT !.pc = "done"]
<1>1. gone.pc = "done"
  BY DEF Idle
<1> HIDE DEF gone
<1>2. call' = [c \in Calls |-> IF c \in Made(t) THEN gone ELSE call[c]]
  BY DEF Taken, gone
<1>3. Made(t) \subseteq Begun
  BY DEF Made, Callable, Begun
<1>4. QED
  BY <1>1, <1>2, <1>3 DEF Begun

LEMMA BeginBegins ==
  ASSUME NEW b, NEW calls, Begin(b, calls)
  PROVE  /\ Begun' = Begun \cup calls
         /\ \A c \in Begun : BatchOf[c] # b
<1>1. PICK tool \in [calls -> Tools], args \in [calls -> Args], arg \in [calls -> issued \cup {NoRequest}] :
        call' = [c \in Calls |->
                   IF c \in calls
                   THEN [Idle EXCEPT !.pc = IF tool[c] \in Serial THEN "waiting" ELSE "entering",
                                     !.tool = tool[c], !.args = args[c], !.arg = arg[c]]
                   ELSE call[c]]
  BY DEF Begin
<1>2. \A c \in calls : call'[c].pc # "idle" /\ c \in Calls
  BY <1>1 DEF Idle, Begin
<1>3. \A c \in Calls \ calls : call'[c] = call[c]
  BY <1>1
<1>4. Begun' = Begun \cup calls
  BY <1>2, <1>3 DEF Begun
<1>5. \A c \in Calls : BatchOf[c] = b => call[c].pc = "idle"
  BY DEF Begin
<1>6. QED
  BY <1>4, <1>5 DEF Begun

\* One turn goes from one await to another; the others do not.
Goes(t, from, to) ==
  /\ turn[t].pc \in from /\ turn'[t].pc \in to
  /\ \A u \in Turns \ {t} : turn'[u] = turn[u] /\ sent'[u] = sent[u]

\* It stays on its object; the others that ended stay as crowded as they were.
Stays(t) ==
  /\ UNCHANGED on
  /\ crowded' = crowded \/ crowded' = crowded \cup {t}

RunPoints == {"preparing", "reading", "chatting", "executing", "ending"}

\* What the steps of a turn are, as far as the messages are concerned.
Opens(t) ==
  /\ Goes(t, {"idle"}, {"preparing", "failed"})
  /\ \A u \in Turns : turn[u].pc # "saved"
  /\ on' = [on EXCEPT ![t] = Len(session)]
  /\ \E size \in SizesOf[t] : Adds(Len(session), <<User(t, size)>>)
  /\ UNCHANGED <<stored, crowded>> /\ sent'[t] = sent[t] /\ Begun' = Begun

Prepares(t) ==
  /\ Goes(t, {"preparing"}, {"reading", "chatting"})
  /\ UNCHANGED <<session, stored, on, crowded>>
  /\ sent'[t] = Window(session[on[t]]) /\ Begun' = Begun

Tries(t) ==
  /\ Goes(t, {"reading", "chatting"}, {"chatting"})
  /\ UNCHANGED <<session, stored, sent, on, crowded>> /\ Begun' = Begun

Concludes(t) ==
  /\ Goes(t, {"reading", "chatting"}, {"ending"})
  /\ Adds(on[t], <<Assistant(t, {})>>)
  /\ UNCHANGED <<stored, on, crowded>>
  /\ sent'[t] = [cut |-> sent[t].cut, msgs |-> Append(sent[t].msgs, Assistant(t, {}))]
  /\ Begun' = Begun

CallsTools(t, calls) ==
  /\ Goes(t, {"reading", "chatting"}, {"executing"})
  /\ turn'[t].iter = turn[t].iter
  /\ calls \subseteq Callable(t) /\ calls # {} /\ Callable(t) \cap Begun = {} /\ Begun' = Begun \cup calls
  /\ Adds(on[t], <<Assistant(t, calls)>>)
  /\ UNCHANGED <<stored, on, crowded>>
  /\ sent'[t] = [cut |-> sent[t].cut, msgs |-> Append(sent[t].msgs, Assistant(t, calls))]

GoesOn(t) ==
  /\ Goes(t, {"executing"}, {"reading", "chatting"})
  /\ Adds(on[t], ResultsOf(t))
  /\ UNCHANGED <<stored, on, crowded>>
  /\ sent'[t] = [cut |-> sent[t].cut, msgs |-> sent[t].msgs \o ResultsOf(t)]
  /\ Begun' = Begun

GivesUp(t) ==
  /\ Goes(t, {"executing"}, {"gaveUp", "failed"})
  /\ Adds(on[t], Append(ResultsOf(t), Assistant(t, {})))
  /\ Stays(t)
  /\ IF turn'[t].pc = "gaveUp"
     THEN /\ stored' = session'[on[t]]
          /\ t \notin crowded' => ~Crowded(t) /\ on[t] = Len(session)
     ELSE UNCHANGED stored
  /\ sent'[t] = NothingSent /\ Begun' = Begun

Saves(t) ==
  /\ Goes(t, {"ending"}, {"saved"})
  /\ stored' = session[on[t]] /\ UNCHANGED session
  /\ Stays(t) /\ (t \notin crowded' => ~Crowded(t))
  /\ sent'[t] = NothingSent /\ Begun' = Begun

Reloads(t) ==
  /\ Goes(t, {"saved"}, {"answered"})
  /\ session' = Append(session, stored)
  /\ UNCHANGED <<stored, on, crowded>> /\ sent'[t] = sent[t] /\ Begun' = Begun

Fails(t) ==
  /\ Goes(t, RunPoints, {"failed"})
  /\ \/ UNCHANGED session
     \/ /\ turn[t].pc \in {"reading", "chatting"}
        /\ \E calls \in SUBSET Calls : Adds(on[t], <<Assistant(t, calls)>>)
  /\ turn'[t].iter = turn[t].iter
  /\ UNCHANGED <<stored, on, crowded>> /\ sent'[t] = NothingSent /\ Begun' = Begun

Acts(t) ==
  \/ Opens(t) \/ Prepares(t) \/ Tries(t) \/ Concludes(t)
  \/ \E calls \in SUBSET Calls : CallsTools(t, calls)
  \/ GoesOn(t) \/ GivesUp(t) \/ Saves(t) \/ Reloads(t) \/ Fails(t)

Crashes ==
  /\ session' = <<stored>> /\ UNCHANGED <<stored, on, crowded>> /\ Begun' = Begun
  /\ sent' = [t \in Turns |-> NothingSent]
  /\ \A t \in Turns : \/ ~Running(t) /\ turn[t].pc # "saved" /\ turn'[t] = turn[t]
                      \/ turn[t].pc = "saved" /\ turn'[t].pc = "answered" /\ turn'[t].iter = turn[t].iter
                      \/ Running(t) /\ turn'[t].pc = "lost" /\ turn'[t].iter = turn[t].iter

\* The state the loop keeps, with the types that every action relies on.
LoopInv == ExecInv /\ Ordered /\ Steady /\ Histories

LEMMA AtIs ==
  ASSUME Steady, NEW t \in Turns, NEW pc \in TurnPoints, turn' = At(t, pc)
  PROVE  /\ turn'[t].pc = pc /\ turn'[t].iter = turn[t].iter
         /\ \A u \in Turns \ {t} : turn'[u] = turn[u]
<1> DEFINE k == [pc |-> pc, iter |-> turn[t].iter, attempt |-> 0]
<1>1. k.pc = pc /\ k.iter = turn[t].iter
  OBVIOUS
<1>2. At(t, pc)[t] = k /\ \A u \in Turns \ {t} : At(t, pc)[u] = turn[u]
  BY AtType
<1> HIDE DEF k
<1>3. QED
  BY <1>1, <1>2

\* Ending a turn, and the moves that keep what it was sent.
LEMMA EndIs ==
  ASSUME Steady, Histories, NEW t \in Turns, NEW pc \in TurnPoints, End(t, pc)
  PROVE  /\ turn'[t].pc = pc /\ turn'[t].iter = turn[t].iter /\ sent'[t] = NothingSent
         /\ \A u \in Turns \ {t} : turn'[u] = turn[u] /\ sent'[u] = sent[u]
<1>1. turn' = At(t, pc) /\ sent' = [sent EXCEPT ![t] = NothingSent]
  BY DEF End
<1>2. /\ turn'[t].pc = pc /\ turn'[t].iter = turn[t].iter
      /\ \A u \in Turns \ {t} : turn'[u] = turn[u]
  BY <1>1, AtIs
<1>3. sent'[t] = NothingSent /\ \A u \in Turns \ {t} : sent'[u] = sent[u]
  BY <1>1 DEF Histories
<1>4. QED
  BY <1>2, <1>3

LEMMA SentIs ==
  ASSUME Histories, NEW t \in Turns, NEW msgs, sent' = [sent EXCEPT ![t].msgs = msgs]
  PROVE  /\ sent'[t] = [cut |-> sent[t].cut, msgs |-> msgs]
         /\ \A u \in Turns \ {t} : sent'[u] = sent[u]
<1>1. ASSUME NEW C, NEW M, NEW r \in [cut : C, msgs : M]
      PROVE  [r EXCEPT !.msgs = msgs] = [cut |-> r.cut, msgs |-> msgs]
  OBVIOUS
<1>2. sent[t] \in [cut : BOOLEAN, msgs : Seq(Message)]
  BY DEF Histories
<1>3. [sent[t] EXCEPT !.msgs = msgs] = [cut |-> sent[t].cut, msgs |-> msgs]
  BY <1>1, <1>2
<1> DEFINE now_ == [cut |-> sent[t].cut, msgs |-> msgs]
<1>4. sent' = [sent EXCEPT ![t] = now_]
  BY <1>3
<1> HIDE DEF now_
<1>5. sent'[t] = now_ /\ \A u \in Turns \ {t} : sent'[u] = sent[u]
  BY <1>4 DEF Histories
<1>6. QED
  BY <1>5 DEF now_

LEMMA GiveFails ==
  ASSUME Steady, Histories, NEW t \in Turns, turn[t].pc \in RunPoints, Give(t)
  PROVE  Fails(t)
<1>1. End(t, "failed") /\ UNCHANGED <<call, session, stored, on, crowded>> /\ "failed" \in TurnPoints
  BY DEF Give, TurnPoints
<1>2. QED
  BY <1>1, EndIs DEF Fails, Goes, Begun

\* To append one message.
LEMMA AppendsOne ==
  ASSUME NEW s \in Seq(Message), NEW m \in Message
  PROVE  /\ Append(s, m) = s \o <<m>> /\ <<m>> \in Seq(Message)
         /\ Len(<<m>>) = 1 /\ <<m>>[1] = m
OBVIOUS

\* An assistant message arrives.
LEMMA RecordActs ==
  ASSUME Steady, Histories, NEW t \in Turns, turn[t].pc \in {"reading", "chatting"},
         NEW calls \in SUBSET Callable(t), Record(t, calls)
  PROVE  Acts(t)
<1> DEFINE answer == Assistant(t, calls)
           appended == [cut |-> sent[t].cut, msgs |-> Append(sent[t].msgs, answer)]
<1>1. Adds(on[t], <<answer>>) /\ UNCHANGED <<stored, on, crowded>> /\ calls \in SUBSET Calls
  BY DEF Record, Add, Adds, Callable, Histories, Running
<1>2. CASE End(t, "failed") /\ UNCHANGED <<brokerVars, call>>
  <2>1. "failed" \in TurnPoints /\ turn[t].pc \in RunPoints
    BY DEF TurnPoints, RunPoints
  <2>2. Fails(t)
    BY <1>1, <1>2, <2>1, EndIs DEF Fails, Goes, Begun
  <2>3. QED
    BY <2>2 DEF Acts
<1>3. CASE /\ turn' = At(t, IF calls = {} THEN "ending" ELSE "executing")
           /\ sent' = [sent EXCEPT ![t].msgs = Append(@, answer)]
           /\ IF calls = {} THEN UNCHANGED <<brokerVars, call>>
                            ELSE Begin(BatchAt[t][turn[t].iter], calls)
  <2> DEFINE pc == IF calls = {} THEN "ending" ELSE "executing"
  <2>1. pc \in TurnPoints /\ turn' = At(t, pc)
    BY <1>3 DEF TurnPoints
  <2>2. /\ turn'[t].pc = pc /\ turn'[t].iter = turn[t].iter
        /\ \A u \in Turns \ {t} : turn'[u] = turn[u]
    <3> HIDE DEF pc
    <3>1. QED
      BY <2>1, AtIs
  <2>3. sent'[t] = appended /\ \A u \in Turns \ {t} : sent'[u] = sent[u]
    <3>1. sent' = [sent EXCEPT ![t].msgs = Append(sent[t].msgs, answer)]
      BY <1>3
    <3> HIDE DEF answer
    <3>2. QED
      BY <3>1, SentIs
  <2>4. CASE calls = {}
    <3>1. Begun' = Begun
      BY <1>3, <2>4 DEF Begun
    <3>2. Concludes(t)
      BY <1>1, <2>2, <2>3, <2>4, <3>1 DEF Concludes, Goes
    <3>3. QED
      BY <3>2 DEF Acts
  <2>5. CASE calls # {}
    <3>1. Begin(BatchAt[t][turn[t].iter], calls)
      BY <1>3, <2>5
    <3>2. /\ Begun' = Begun \cup calls
          /\ \A c \in Begun : BatchOf[c] # BatchAt[t][turn[t].iter]
      BY <3>1, BeginBegins
    <3>3. Callable(t) \cap Begun = {}
      BY <3>2 DEF Callable
    <3>4. CallsTools(t, calls)
      BY <1>1, <2>2, <2>3, <2>5, <3>2, <3>3 DEF CallsTools, Goes
    <3>5. QED
      BY <1>1, <3>4 DEF Acts
  <2>6. QED
    BY <2>4, <2>5
<1>4. QED
  BY <1>2, <1>3 DEF Record

LEMMA ResumeActs ==
  ASSUME Steady, Histories, NEW t \in Turns, turn[t].pc = "executing", Resume(t, ResultsOf(t)),
         call' = Taken(Made(t))
  PROVE  Acts(t)
<1>1. Begun' = Begun
  BY TakenStayBegun
<1>2. CASE turn[t].iter < MaxIterations
  <2>1. /\ Adds(on[t], ResultsOf(t)) /\ UNCHANGED <<stored, on, crowded>> /\ turn' = Iterated(t)
        /\ sent' = [sent EXCEPT ![t].msgs = sent[t].msgs \o ResultsOf(t)]
    BY <1>2 DEF Resume, Add, Adds, Histories, Running
  <2>2. turn'[t].pc \in {"reading", "chatting"} /\ \A u \in Turns \ {t} : turn'[u] = turn[u]
    BY <1>2, <2>1, IteratedType
  <2>3. /\ sent'[t] = [cut |-> sent[t].cut, msgs |-> sent[t].msgs \o ResultsOf(t)]
        /\ \A u \in Turns \ {t} : sent'[u] = sent[u]
    BY <2>1, SentIs
  <2>4. GoesOn(t)
    BY <1>1, <2>1, <2>2, <2>3 DEF GoesOn, Goes
  <2>5. QED
    BY <2>4 DEF Acts
<1>3. CASE ~(turn[t].iter < MaxIterations)
  <2>1. /\ Adds(on[t], Append(ResultsOf(t), Assistant(t, {}))) /\ Stays(t)
        /\ \/ /\ stored' = session'[on[t]] /\ End(t, "gaveUp")
              /\ t \notin crowded' => ~Crowded(t) /\ on[t] = Len(session)
           \/ UNCHANGED stored /\ End(t, "failed")
    BY <1>3 DEF Resume, Add, Adds, Stays, Histories, Running
  <2>2. "gaveUp" \in TurnPoints /\ "failed" \in TurnPoints /\ "gaveUp" # "failed"
    BY DEF TurnPoints
  <2>3. GivesUp(t)
    BY <1>1, <2>1, <2>2, EndIs DEF GivesUp, Goes
  <2>4. QED
    BY <2>3 DEF Acts
<1>4. QED
  BY <1>2, <1>3

LEMMA TypeActs ==
  ASSUME Steady, Histories, NEW t \in Turns, NEW size \in SizesOf[t], Type(t, size)
  PROVE  Acts(t)
<1>1. /\ turn[t].pc = "idle" /\ Adds(Len(session), <<User(t, size)>>)
      /\ \A u \in Turns : turn[u].pc # "saved"
      /\ on' = [on EXCEPT ![t] = Len(session)] /\ UNCHANGED <<call, stored, sent, crowded>>
      /\ turn' = At(t, "preparing") \/ turn' = At(t, "failed")
  BY ObjectTypes, MessageTypes, AppendsOne DEF Type, Ready, Adds
<1>2. "preparing" \in TurnPoints /\ "failed" \in TurnPoints
  BY DEF TurnPoints
<1>3. turn'[t].pc \in {"preparing", "failed"} /\ \A u \in Turns \ {t} : turn'[u] = turn[u]
  BY <1>1, <1>2, AtIs
<1>4. Opens(t)
  BY <1>1, <1>3 DEF Opens, Goes, Begun
<1>5. QED
  BY <1>4 DEF Acts

LEMMA PrepareActs ==
  ASSUME Steady, Histories, NEW t \in Turns, Prepare(t)
  PROVE  Acts(t)
<1>1. CASE Give(t)
  BY <1>1, GiveFails DEF Prepare, Ready, Acts, RunPoints
<1>2. CASE /\ sent' = [sent EXCEPT ![t] = Window(session[on[t]])]
           /\ turn' = Iterated(t)
           /\ UNCHANGED <<brokerVars, call, session, stored, on, crowded>>
  <2>1. turn[t].pc = "preparing" /\ turn[t].iter < MaxIterations
    BY TurnAssumption DEF Prepare, Ready, Steady
  <2>2. turn'[t].pc \in {"reading", "chatting"} /\ \A u \in Turns \ {t} : turn'[u] = turn[u]
    BY <1>2, <2>1, IteratedType
  <2>3. sent'[t] = Window(session[on[t]]) /\ \A u \in Turns \ {t} : sent'[u] = sent[u]
    BY <1>2 DEF Histories
  <2>4. Prepares(t)
    BY <1>2, <2>1, <2>2, <2>3 DEF Prepares, Goes, Begun
  <2>5. QED
    BY <2>4 DEF Acts
<1>3. QED
  BY <1>1, <1>2 DEF Prepare

LEMMA TryActs ==
  ASSUME Steady, Histories, NEW t \in Turns, BreakStream(t) \/ FailChat(t)
  PROVE  Acts(t)
<1>1. CASE BreakStream(t)
  <2>1. /\ turn[t].pc = "reading" /\ turn' = At(t, "chatting") /\ "chatting" \in TurnPoints
        /\ UNCHANGED <<call, session, stored, sent, on, crowded>>
    BY <1>1 DEF BreakStream, Ready, TurnPoints
  <2>2. turn'[t].pc = "chatting" /\ \A u \in Turns \ {t} : turn'[u] = turn[u]
    BY <2>1, AtIs
  <2>3. QED
    BY <2>1, <2>2 DEF Acts, Tries, Goes, Begun
<1>2. CASE FailChat(t)
  <2>1. turn[t].pc = "chatting" /\ \E retryable : AttemptFailed(t, retryable)
    BY <1>2 DEF FailChat, Ready
  <2>2. CASE Give(t)
    BY <2>1, <2>2, GiveFails DEF Acts, RunPoints
  <2>3. CASE /\ turn' = [turn EXCEPT ![t].attempt = @ + 1]
             /\ UNCHANGED <<brokerVars, call, session, stored, sent, on, crowded>>
    <3>1. turn[t] \in Coroutine /\ t \in DOMAIN turn
      BY DEF Steady
    <3>2. turn'[t].pc = "chatting" /\ \A u \in Turns \ {t} : turn'[u] = turn[u]
      BY <2>1, <2>3, <3>1 DEF Coroutine, Steady
    <3>3. QED
      BY <2>1, <2>3, <3>2 DEF Acts, Tries, Goes, Begun
  <2>4. QED
    BY <2>1, <2>2, <2>3 DEF AttemptFailed
<1>3. QED
  BY <1>1, <1>2

LEMMA SaveActs ==
  ASSUME Steady, Histories, NEW t \in Turns, Save(t) \/ Abort(t)
  PROVE  Acts(t)
<1>1. turn[t].pc \in {"ending", "executing"} /\ turn[t].pc \in RunPoints
  BY DEF Save, Abort, Ready, RunPoints
<1>2. CASE Give(t)
  BY <1>1, <1>2, GiveFails DEF Acts
<1>3. CASE /\ turn[t].pc = "ending" /\ stored' = session[on[t]] /\ End(t, "saved")
           /\ crowded' = IF Crowded(t) THEN crowded \cup {t} ELSE crowded
           /\ UNCHANGED <<call, session, on>>
  <2>1. "saved" \in TurnPoints
    BY DEF TurnPoints
  <2>2. Saves(t)
    BY <1>3, <2>1, EndIs DEF Saves, Stays, Goes, Begun
  <2>3. QED
    BY <2>2 DEF Acts
<1>4. QED
  BY <1>2, <1>3 DEF Save, Abort, Ready

LEMMA ReloadActs ==
  ASSUME Steady, Histories, NEW t \in Turns, Reload(t)
  PROVE  Acts(t)
<1>1. /\ turn[t].pc = "saved" /\ session' = Append(session, stored) /\ turn' = At(t, "answered")
      /\ UNCHANGED <<call, stored, sent, on, crowded>> /\ "answered" \in TurnPoints
  BY DEF Reload, Ready, TurnPoints
<1>2. turn'[t].pc = "answered" /\ \A u \in Turns \ {t} : turn'[u] = turn[u]
  BY <1>1, AtIs
<1>3. QED
  BY <1>1, <1>2 DEF Reloads, Goes, Begun, Acts

\* The process of the chat dies, or goes on.
LEMMA BeyondActs ==
  ASSUME LoopInv, (\E c \in Calls : CallStep(c)) \/ \E p \in Procs : BrokerStep(p), Beyond
  PROVE  (UNCHANGED turnVars /\ Begun' = Begun) \/ Crashes
<1>1. Begun' = Begun
  BY CallsStayBegun DEF LoopInv
<1>2. CASE up'[Engine]
  BY <1>1, <1>2 DEF Beyond, turnVars
<1>3. CASE ~up'[Engine]
  <2>1. /\ session' = <<stored>> /\ UNCHANGED <<stored, on, crowded>>
        /\ sent' = [t \in Turns |-> NothingSent]
        /\ turn' = [t \in Turns |-> IF turn[t].pc = "saved" THEN At(t, "answered")[t]
                                    ELSE IF Running(t) THEN At(t, "lost")[t]
                                    ELSE turn[t]]
    BY <1>3 DEF Beyond
  <2>2. ASSUME NEW t \in Turns, NEW pc \in {"answered", "lost"}
        PROVE  At(t, pc)[t].pc = pc /\ At(t, pc)[t].iter = turn[t].iter
    <3>1. pc \in TurnPoints
      BY DEF TurnPoints
    <3>2. At(t, pc)[t] = [pc |-> pc, iter |-> turn[t].iter, attempt |-> 0]
      BY <3>1, AtType DEF LoopInv
    <3>3. QED
      BY <3>2
  <2>3. ASSUME NEW t \in Turns
        PROVE  \/ ~Running(t) /\ turn[t].pc # "saved" /\ turn'[t] = turn[t]
               \/ turn[t].pc = "saved" /\ turn'[t].pc = "answered" /\ turn'[t].iter = turn[t].iter
               \/ Running(t) /\ turn'[t].pc = "lost" /\ turn'[t].iter = turn[t].iter
    <3>1. CASE turn[t].pc = "saved"
      BY <2>1, <2>2, <3>1
    <3>2. CASE turn[t].pc # "saved" /\ Running(t)
      BY <2>1, <2>2, <3>2
    <3>3. CASE turn[t].pc # "saved" /\ ~Running(t)
      BY <2>1, <3>3
    <3>4. QED
      BY <3>1, <3>2, <3>3
  <2>4. QED
    BY <1>1, <2>1, <2>3 DEF Crashes
<1>4. QED
  BY <1>2, <1>3

\* Every step, as far as the messages are concerned.
LEMMA TurnActs ==
  ASSUME LoopInv, [TurnNext]_allVars
  PROVE  (UNCHANGED turnVars /\ Begun' = Begun) \/ (\E t \in Turns : Acts(t)) \/ Crashes
<1>1. Steady /\ Histories
  BY DEF LoopInv
<1>2. CASE UNCHANGED allVars
  BY <1>2 DEF allVars, turnVars, Begun
<1>3. ASSUME NEW t \in Turns, CloseStream(t) \/ Answer(t) PROVE Acts(t)
  <2>1. turn[t].pc \in {"reading", "chatting"} /\ \E calls \in SUBSET Callable(t) : Record(t, calls)
    BY <1>3 DEF CloseStream, Answer, Ready
  <2>2. QED
    BY <1>1, <2>1, RecordActs
<1>4. ASSUME NEW t \in Turns, Collect(t) PROVE Acts(t)
  <2>1. turn[t].pc = "executing" /\ Resume(t, ResultsOf(t)) /\ call' = Taken(Made(t))
    BY <1>4 DEF Collect, Ready
  <2>2. QED
    BY <1>1, <2>1, ResumeActs
<1>5. CASE ((\E c \in Calls : CallStep(c)) \/ \E p \in Procs : BrokerStep(p)) /\ Beyond
  BY <1>5, BeyondActs
<1>6. QED
  BY <1>1, <1>2, <1>3, <1>4, <1>5, TypeActs, PrepareActs, TryActs, SaveActs, ReloadActs
     DEF TurnNext, TurnStep

-----------------------------------------------------------------------------

\* A turn that moves on within its iteration, or ends.
LEMMA AtSteady ==
  ASSUME Steady, NEW t \in Turns, NEW pc \in TurnPoints, turn' = At(t, pc),
         pc \in {"idle", "preparing"} => turn[t].iter = 0,
         pc \in {"reading", "chatting", "executing", "ending"} => turn[t].iter # 0
  PROVE  Steady'
<1>1. turn' \in [Turns -> Coroutine]
  BY AtType
<1>2. turn'[t].pc = pc /\ turn'[t].iter = turn[t].iter /\ \A u \in Turns \ {t} : turn'[u] = turn[u]
  BY AtIs
<1>3. QED
  BY <1>1, <1>2 DEF Steady

LEMMA EndSteady ==
  ASSUME Steady, NEW t \in Turns, NEW pc \in Ended \cup {"saved"}, End(t, pc)
  PROVE  Steady'
<1>1. pc \in TurnPoints /\ pc \notin {"idle", "preparing", "reading", "chatting", "executing", "ending"}
  BY DEF Ended, TurnPoints
<1>2. turn' = At(t, pc)
  BY DEF End
<1>3. QED
  BY <1>1, <1>2, AtSteady

LEMMA IteratedSteady ==
  ASSUME Steady, NEW t \in Turns, turn[t].iter < MaxIterations, turn' = Iterated(t)
  PROVE  Steady'
<1>1. /\ turn' \in [Turns -> Coroutine] /\ turn'[t].pc \in {"reading", "chatting"} /\ turn'[t].iter # 0
      /\ \A u \in Turns \ {t} : turn'[u] = turn[u]
  BY IteratedType
<1>2. QED
  BY <1>1 DEF Steady

LEMMA SteadyStep ==
  ASSUME Steady, [TurnNext]_allVars
  PROVE  Steady'
<1>1. CASE UNCHANGED turn
  BY <1>1 DEF Steady
<1>2. ASSUME NEW t \in Turns, NEW size, Type(t, size) PROVE Steady'
  <2>1. turn[t].pc = "idle" /\ turn[t].iter = 0 /\ (turn' = At(t, "preparing") \/ turn' = At(t, "failed"))
    BY <1>2 DEF Type, Ready, Steady
  <2>2. QED
    BY <2>1, AtSteady DEF TurnPoints
<1>3. ASSUME NEW t \in Turns, Give(t) PROVE Steady'
  BY <1>3, EndSteady DEF Give, Ended
<1>4. ASSUME NEW t \in Turns, Prepare(t), ~Give(t) PROVE Steady'
  <2>1. turn[t].iter < MaxIterations /\ turn' = Iterated(t)
    BY <1>4, TurnAssumption DEF Prepare, Ready, Steady
  <2>2. QED
    BY <2>1, IteratedSteady
<1>5. ASSUME NEW t \in Turns, CloseStream(t) \/ Answer(t) PROVE Steady'
  <2>1. turn[t].iter # 0
    BY <1>5 DEF CloseStream, Answer, Ready, Steady
  <2>2. PICK calls \in SUBSET Callable(t) : Record(t, calls)
    BY <1>5 DEF CloseStream, Answer
  <2>3. CASE End(t, "failed")
    BY <2>3, EndSteady DEF Ended
  <2>4. CASE turn' = At(t, IF calls = {} THEN "ending" ELSE "executing")
    BY <2>1, <2>4, AtSteady DEF TurnPoints
  <2>5. QED
    BY <2>2, <2>3, <2>4 DEF Record
<1>6. ASSUME NEW t \in Turns, BreakStream(t) PROVE Steady'
  <2>1. turn[t].iter # 0 /\ turn' = At(t, "chatting")
    BY <1>6 DEF BreakStream, Ready, Steady
  <2>2. QED
    BY <2>1, AtSteady DEF TurnPoints
<1>7. ASSUME NEW t \in Turns, NEW retryable, AttemptFailed(t, retryable), ~Give(t) PROVE Steady'
  <2>1. turn[t].attempt < MaxRetries /\ turn' = [turn EXCEPT ![t].attempt = @ + 1]
    BY <1>7 DEF AttemptFailed
  <2>2. turn[t] \in Coroutine /\ turn[t].attempt + 1 \in 0..MaxRetries
    BY <2>1, TurnAssumption DEF Steady, Coroutine
  <2> DEFINE k == [turn[t] EXCEPT !.attempt = turn[t].attempt + 1]
  <2>3. k \in Coroutine /\ k.pc = turn[t].pc /\ k.iter = turn[t].iter /\ turn' = [turn EXCEPT ![t] = k]
    BY <2>1, <2>2 DEF Coroutine
  <2> HIDE DEF k
  <2>4. QED
    BY <2>3 DEF Steady
<1>8. ASSUME NEW t \in Turns, Collect(t) PROVE Steady'
  <2>1. Resume(t, ResultsOf(t))
    BY <1>8 DEF Collect
  <2>2. CASE turn[t].iter < MaxIterations
    BY <2>1, <2>2, IteratedSteady DEF Resume
  <2>3. CASE ~(turn[t].iter < MaxIterations)
    <3>1. End(t, "gaveUp") \/ End(t, "failed")
      BY <2>1, <2>3 DEF Resume
    <3>2. QED
      BY <3>1, EndSteady DEF Ended
  <2>4. QED
    BY <2>2, <2>3
<1>9. ASSUME NEW t \in Turns, Abort(t) \/ Save(t) PROVE Steady'
  <2>1. End(t, "saved") \/ Give(t)
    BY <1>9 DEF Abort, Save
  <2>2. QED
    BY <1>3, <2>1, EndSteady
<1>10. ASSUME NEW t \in Turns, Reload(t) PROVE Steady'
  <2>1. turn' = At(t, "answered")
    BY <1>10 DEF Reload
  <2>2. QED
    BY <2>1, AtSteady DEF TurnPoints
<1>11. ASSUME Beyond, ~(UNCHANGED turn) PROVE Steady'
  <2>1. turn' = [t \in Turns |-> IF turn[t].pc = "saved" THEN At(t, "answered")[t]
                                 ELSE IF Running(t) THEN At(t, "lost")[t]
                                 ELSE turn[t]]
    BY <1>11 DEF Beyond
  <2>2. ASSUME NEW t \in Turns, NEW pc \in {"answered", "lost"}
        PROVE  /\ At(t, pc)[t] \in Coroutine /\ At(t, pc)[t].pc = pc
    <3>1. pc \in TurnPoints
      BY DEF TurnPoints
    <3>2. At(t, pc)[t] = [pc |-> pc, iter |-> turn[t].iter, attempt |-> 0]
          /\ At(t, pc) \in [Turns -> Coroutine]
      BY <3>1, AtType
    <3>3. QED
      BY <3>2
  <2>3. ASSUME NEW t \in Turns
        PROVE  /\ turn'[t] \in Coroutine
               /\ turn'[t] = turn[t] \/ turn'[t].pc \in {"answered", "lost"}
    BY <2>1, <2>2 DEF Steady
  <2>4. turn' = [t \in Turns |-> turn'[t]]
    BY <2>1
  <2>5. QED
    BY <2>3, <2>4 DEF Steady
<1>12. QED
  BY <1>1, <1>2, <1>3, <1>4, <1>5, <1>6, <1>7, <1>8, <1>9, <1>10, <1>11
     DEF TurnNext, TurnStep, FailChat, allVars, turnVars

LEMMA SentDomain ==
  ASSUME Histories, [TurnNext]_allVars
  PROVE  sent' = [u \in Turns |-> sent'[u]]
<1>1. ASSUME UNCHANGED sent PROVE sent' = [u \in Turns |-> sent'[u]]
  BY <1>1 DEF Histories
<1>2. ASSUME NEW t, NEW k, sent' = [sent EXCEPT ![t] = k] PROVE sent' = [u \in Turns |-> sent'[u]]
  BY <1>2 DEF Histories
<1>3. ASSUME NEW t, NEW msgs, sent' = [sent EXCEPT ![t].msgs = msgs] PROVE sent' = [u \in Turns |-> sent'[u]]
  BY <1>3 DEF Histories
<1>4. ASSUME NEW t \in Turns, Give(t) \/ Save(t) PROVE \E k : sent' = [sent EXCEPT ![t] = k]
  BY <1>4 DEF Give, Save, End
<1>5. ASSUME NEW t \in Turns, Prepare(t) PROVE \E k : sent' = [sent EXCEPT ![t] = k]
  BY <1>4, <1>5 DEF Prepare
<1>6. ASSUME NEW t \in Turns, CloseStream(t) \/ Answer(t)
      PROVE  (\E k : sent' = [sent EXCEPT ![t] = k]) \/ \E msgs : sent' = [sent EXCEPT ![t].msgs = msgs]
  BY <1>6 DEF CloseStream, Answer, Record, End
<1>7. ASSUME NEW t \in Turns, Collect(t)
      PROVE  (\E k : sent' = [sent EXCEPT ![t] = k]) \/ \E msgs : sent' = [sent EXCEPT ![t].msgs = msgs]
  BY <1>7 DEF Collect, Resume, End
<1>8. ASSUME NEW t \in Turns,
             BreakStream(t) \/ FailChat(t) \/ Abort(t) \/ Reload(t) \/ \E size : Type(t, size)
      PROVE  (\E k : sent' = [sent EXCEPT ![t] = k]) \/ UNCHANGED sent
  BY <1>4, <1>8 DEF BreakStream, FailChat, AttemptFailed, Abort, Reload, Type
<1>9. ASSUME Beyond PROVE UNCHANGED sent \/ sent' = [t \in Turns |-> NothingSent]
  BY <1>9 DEF Beyond
<1>10. QED
  BY <1>1, <1>2, <1>3, <1>4, <1>5, <1>6, <1>7, <1>8, <1>9 DEF TurnNext, TurnStep, allVars, turnVars

\* Two ways to append.
LEMMA AppendType ==
  ASSUME NEW s \in Seq(Message), NEW m \in Message
  PROVE  Append(s, m) \in Seq(Message)
OBVIOUS

LEMMA ConcatType ==
  ASSUME NEW s \in Seq(Message), NEW more \in Seq(Message)
  PROVE  s \o more \in Seq(Message)
OBVIOUS

\* What follows a sequence of messages.
LEMMA AppendAt ==
  ASSUME NEW s \in Seq(Message), NEW m \in Message
  PROVE  /\ Append(s, m) \in Seq(Message)
         /\ Len(s) \in Nat /\ Len(Append(s, m)) = Len(s) + 1
         /\ Append(s, m)[Len(s) + 1] = m
         /\ \A i \in 1 .. Len(s) : Append(s, m)[i] = s[i]
OBVIOUS

LEMMA ConcatAt ==
  ASSUME NEW s \in Seq(Message), NEW more \in Seq(Message)
  PROVE  /\ s \o more \in Seq(Message)
         /\ Len(s) \in Nat /\ Len(more) \in Nat /\ Len(s \o more) = Len(s) + Len(more)
         /\ \A i \in 1 .. Len(s) : (s \o more)[i] = s[i]
         /\ \A i \in 1 .. Len(more) : (s \o more)[Len(s) + i] = more[i]
         /\ \A i \in 1 .. Len(s \o more) :
              i \in 1 .. Len(s) \/ (i - Len(s) \in 1 .. Len(more) /\ (s \o more)[i] = more[i - Len(s)])
OBVIOUS

\* The fields of the messages that turns make.
LEMMA MessageFields ==
  /\ \A t, calls : /\ Assistant(t, calls).role = "assistant" /\ Assistant(t, calls).turn = t
                   /\ Assistant(t, calls).calls = calls
  /\ \A t, c : /\ ToolResult(t, c).role = "tool" /\ ToolResult(t, c).turn = t
               /\ ToolResult(t, c).calls = {c}
  /\ \A t, size : /\ User(t, size).role = "user" /\ User(t, size).turn = t
                  /\ User(t, size).calls = {}
BY DEF Assistant, ToolResult, User

\* The calls of an iteration that were made.
LEMMA MadeIs ==
  ASSUME NEW t
  PROVE  Made(t) = Callable(t) \cap Begun
BY DEF Made, Begun, Callable

\* The other turns go on as they were.
LEMMA ActsAlone ==
  ASSUME NEW t \in Turns, Acts(t), Histories, NEW u \in Turns \ {t}
  PROVE  /\ turn'[u] = turn[u] /\ sent'[u] = sent[u] /\ on'[u] = on[u]
         /\ u \in crowded' <=> u \in crowded
<1>1. turn'[u] = turn[u] /\ sent'[u] = sent[u]
  BY DEF Acts, Opens, Prepares, Tries, Concludes, CallsTools, GoesOn, GivesUp, Saves, Reloads, Fails, Goes
<1>2. on' = on \/ on' = [on EXCEPT ![t] = Len(session)]
  BY DEF Acts, Opens, Prepares, Tries, Concludes, CallsTools, GoesOn, GivesUp, Saves, Reloads, Fails, Stays
<1>3. crowded' = crowded \/ crowded' = crowded \cup {t}
  BY DEF Acts, Opens, Prepares, Tries, Concludes, CallsTools, GoesOn, GivesUp, Saves, Reloads, Fails, Stays
<1>4. QED
  BY <1>1, <1>2, <1>3 DEF Histories

\* A message of a turn: a result answers a call that was made.
ByTurn(t, m) == m.turn = t /\ (m.role = "tool" => m.calls \subseteq Begun)

\* The results of a batch, with or without a last message.
LEMMA ResultsByTurn ==
  ASSUME NEW t \in Turns
  PROVE  /\ ResultsOf(t) \in Seq(Message)
         /\ \A i \in 1 .. Len(ResultsOf(t)) : ByTurn(t, ResultsOf(t)[i])
         /\ Append(ResultsOf(t), Assistant(t, {})) \in Seq(Message)
         /\ \A i \in 1 .. Len(Append(ResultsOf(t), Assistant(t, {}))) :
              ByTurn(t, Append(ResultsOf(t), Assistant(t, {}))[i])
<1> DEFINE last == Assistant(t, {})
           r == ResultsOf(t)
           more == Append(r, last)
<1>1. r \in Seq(Message) /\ \A i \in 1 .. Len(r) : ByTurn(t, r[i])
  BY ResultsAre, MessageFields, MadeIs DEF ByTurn
<1>2. last \in Message /\ ByTurn(t, last)
  BY MessageTypes, MessageFields DEF ByTurn
<1> HIDE DEF last, r
<1>3. /\ more \in Seq(Message) /\ Len(r) \in Nat /\ Len(more) = Len(r) + 1
      /\ more[Len(r) + 1] = last /\ \A i \in 1 .. Len(r) : more[i] = r[i]
  BY <1>1, <1>2, AppendAt
<1> HIDE DEF more
<1>4. \A i \in 1 .. Len(more) : ByTurn(t, more[i])
  BY <1>1, <1>2, <1>3
<1>5. QED
  BY <1>1, <1>3, <1>4 DEF more, r, last

\* What a step of a turn adds: messages of that turn, to its own object, or
\* an object that tells what the file tells.
LEMMA ActsAdd ==
  ASSUME Histories, NEW t \in Turns, Acts(t), ~Reloads(t)
  PROVE  \E o \in 1 .. Len(session) : \E more \in Seq(Message) :
           /\ Adds(o, more) \/ (UNCHANGED session /\ more = <<>>)
           /\ \A i \in 1 .. Len(more) : ByTurn(t, more[i])
           /\ o = (IF turn[t].pc = "idle" THEN Len(session) ELSE on[t])
<1> DEFINE own == IF turn[t].pc = "idle" THEN Len(session) ELSE on[t]
           Goal == \E o \in 1 .. Len(session) : \E more \in Seq(Message) :
                     /\ Adds(o, more) \/ (UNCHANGED session /\ more = <<>>)
                     /\ \A i \in 1 .. Len(more) : ByTurn(t, more[i])
                     /\ o = own
<1>1. own \in 1 .. Len(session)
  <2>1. turn[t].pc = "idle" \/ Running(t)
    BY DEF Acts, Opens, Prepares, Tries, Concludes, CallsTools, GoesOn, GivesUp, Saves, Fails, Goes, Running, RunPoints
  <2>2. QED
    BY <2>1, ObjectTypes DEF Histories
<1>2. ASSUME UNCHANGED session PROVE Goal
  <2> DEFINE none == <<>>
  <2>1. none \in Seq(Message) /\ none = <<>> /\ Len(none) = 0
    OBVIOUS
  <2> HIDE DEF none
  <2>2. \A i \in 1 .. Len(none) : ByTurn(t, none[i])
    BY <2>1
  <2> HIDE DEF own
  <2>3. QED
    BY <1>1, <1>2, <2>1, <2>2
<1>3. ASSUME NEW m \in Message, ByTurn(t, m), Adds(own, <<m>>) PROVE Goal
  <2> DEFINE one == <<m>>
  <2>1. one \in Seq(Message) /\ Len(one) = 1 /\ one[1] = m
    OBVIOUS
  <2>2. Adds(own, one)
    BY <1>3
  <2> HIDE DEF one, own
  <2>3. \A i \in 1 .. Len(one) : ByTurn(t, one[i])
    BY <1>3, <2>1
  <2>4. QED
    BY <1>1, <2>1, <2>2, <2>3
<1>4. ASSUME NEW more \in Seq(Message), \A i \in 1 .. Len(more) : ByTurn(t, more[i]), Adds(own, more) PROVE Goal
  <2> HIDE DEF own
  <2>1. QED
    BY <1>1, <1>4
<1>5. ASSUME Opens(t)
      PROVE  Goal
  <2>1. own = Len(session)
    BY <1>5 DEF Opens, Goes
  <2> HIDE DEF own, Goal
  <2>2. PICK size \in SizesOf[t] : Adds(own, <<User(t, size)>>)
    BY <1>5, <2>1 DEF Opens
  <2>3. User(t, size) \in Message /\ ByTurn(t, User(t, size))
    BY MessageTypes, MessageFields DEF ByTurn
  <2>4. QED
    BY <1>3, <2>2, <2>3
<1>6. ASSUME NEW calls \in SUBSET Calls
      PROVE  Assistant(t, calls) \in Message /\ ByTurn(t, Assistant(t, calls))
  BY MessageTypes, MessageFields DEF ByTurn
<1>7. ASSUME Concludes(t) \/ (\E calls \in SUBSET Calls : CallsTools(t, calls)) \/ Fails(t)
      PROVE  Goal
  <2>1. own = on[t]
    BY <1>7 DEF Concludes, CallsTools, Fails, Goes, RunPoints
  <2> HIDE DEF own, Goal
  <2>2. UNCHANGED session \/ \E calls \in SUBSET Calls : Adds(own, <<Assistant(t, calls)>>)
    BY <1>7, <2>1 DEF Concludes, CallsTools, Fails
  <2>3. QED
    BY <1>2, <1>3, <1>6, <2>2
<1>8. ASSUME GoesOn(t) \/ GivesUp(t)
      PROVE  Goal
  <2>1. own = on[t]
    BY <1>8 DEF GoesOn, GivesUp, Goes
  <2> HIDE DEF own, Goal
  <2>2. Adds(own, ResultsOf(t)) \/ Adds(own, Append(ResultsOf(t), Assistant(t, {})))
    BY <1>8, <2>1 DEF GoesOn, GivesUp
  <2>3. QED
    BY <1>4, <2>2, ResultsByTurn
<1>9. ASSUME Prepares(t) \/ Tries(t) \/ Saves(t)
      PROVE  Goal
  <2> HIDE DEF Goal
  <2>1. QED
    BY <1>2, <1>9 DEF Prepares, Tries, Saves
<1>10. QED
  BY <1>5, <1>7, <1>8, <1>9 DEF Acts

\* No object loses or changes a message.
LEMMA ActsGrow ==
  ASSUME Histories, NEW t \in Turns, Acts(t)
  PROVE  /\ session' \in Seq(Seq(Message)) /\ session' # <<>> /\ Len(session') \in Nat
         /\ IF Reloads(t) THEN Len(session') = Len(session) + 1 /\ session'[Len(session) + 1] = stored
                          ELSE Len(session') = Len(session)
         /\ \A p \in 1 .. Len(session) : \E more \in Seq(Message) :
              session'[p] = session[p] \o more /\ \A i \in 1 .. Len(more) : ByTurn(t, more[i])
<1> DEFINE Grown(p) == \E more \in Seq(Message) :
              session'[p] = session[p] \o more /\ \A i \in 1 .. Len(more) : ByTurn(t, more[i])
<1>1. /\ session \in Seq(Seq(Message)) /\ session # <<>> /\ Len(session) \in Nat /\ stored \in Seq(Message)
      /\ \A p \in 1 .. Len(session) : session[p] \in Seq(Message)
  BY ObjectTypes DEF Histories
<1>2. ASSUME NEW p \in 1 .. Len(session), session'[p] = session[p] PROVE Grown(p)
  <2> DEFINE none == <<>>
  <2>1. none \in Seq(Message) /\ Len(none) = 0 /\ session[p] \o none = session[p]
    BY <1>1
  <2>2. session'[p] = session[p] \o none
    BY <1>2, <2>1
  <2> HIDE DEF none
  <2>3. \A i \in 1 .. Len(none) : ByTurn(t, none[i])
    BY <2>1
  <2>4. QED
    BY <2>1, <2>2, <2>3
<1>3. CASE Reloads(t)
  <2>1. session' = Append(session, stored)
    BY <1>3 DEF Reloads
  <2>2. /\ session' \in Seq(Seq(Message)) /\ session' # <<>> /\ Len(session') = Len(session) + 1
        /\ session'[Len(session) + 1] = stored
        /\ \A p \in 1 .. Len(session) : session'[p] = session[p]
    BY <1>1, <2>1, AppendProperties
  <2> HIDE DEF Grown
  <2>3. \A p \in 1 .. Len(session) : Grown(p)
    BY <1>2, <2>2
  <2>4. Len(session') \in Nat
    BY <1>1, <2>2
  <2>5. (\A p \in 1 .. Len(session) : Grown(p)) =>
          \A p \in 1 .. Len(session) : \E more \in Seq(Message) :
            session'[p] = session[p] \o more /\ \A i \in 1 .. Len(more) : ByTurn(t, more[i])
    BY DEF Grown
  <2>6. QED
    BY <1>3, <2>2, <2>3, <2>4, <2>5
<1>4. CASE ~Reloads(t)
  <2>1. PICK o \in 1 .. Len(session), more \in Seq(Message) :
          /\ Adds(o, more) \/ (UNCHANGED session /\ more = <<>>)
          /\ \A i \in 1 .. Len(more) : ByTurn(t, more[i])
    BY <1>4, ActsAdd
  <2>2. CASE UNCHANGED session
    <3> HIDE DEF Grown
    <3>1. \A p \in 1 .. Len(session) : Grown(p)
      BY <1>2, <2>2
    <3>2. QED
      BY <1>1, <1>4, <2>2, <3>1 DEF Grown
  <2>3. CASE Adds(o, more)
    <3>1. /\ session' \in Seq(Seq(Message)) /\ session' # <<>> /\ Len(session') = Len(session)
          /\ session'[o] = session[o] \o more
          /\ \A p \in 1 .. Len(session) : p # o => session'[p] = session[p]
      BY <2>3, AddsIs
    <3>2. Grown(o)
      BY <2>1, <3>1
    <3> HIDE DEF Grown
    <3>3. \A p \in 1 .. Len(session) : Grown(p)
      BY <1>2, <3>1, <3>2
    <3>4. QED
      BY <1>1, <1>4, <3>1, <3>3 DEF Grown
  <2>4. QED
    BY <2>1, <2>2, <2>3
<1>5. QED
  BY <1>3, <1>4

LEMMA ActsTypes ==
  ASSUME Histories, NEW t \in Turns, Acts(t)
  PROVE  /\ session' \in Seq(Seq(Message)) /\ session' # <<>> /\ stored' \in Seq(Message)
         /\ \A o \in 1 .. Len(session) : o \in 1 .. Len(session')
<1>1. session' \in Seq(Seq(Message)) /\ session' # <<>> /\ Len(session') \in {Len(session), Len(session) + 1}
  BY ActsGrow
<1>2. Len(session) \in Nat /\ stored \in Seq(Message)
  BY ObjectTypes DEF Histories
<1>3. \A o \in 1 .. Len(session) : o \in 1 .. Len(session')
  BY <1>1, <1>2
<1>4. stored' \in Seq(Message)
  <2>1. CASE Saves(t) \/ GivesUp(t)
    <3>1. on[t] \in 1 .. Len(session)
      BY <2>1 DEF Saves, GivesUp, Goes, Histories, Running
    <3>2. stored' \in {stored, session[on[t]], session'[on[t]]}
      BY <2>1 DEF Saves, GivesUp, Stays
    <3>3. session[on[t]] \in Seq(Message) /\ session'[on[t]] \in Seq(Message)
      BY <1>1, <1>3, <3>1, ObjectTypes
    <3>4. QED
      BY <1>2, <3>2, <3>3
  <2>2. CASE ~(Saves(t) \/ GivesUp(t))
    BY <1>2, <2>2 DEF Acts, Opens, Prepares, Tries, Concludes, CallsTools, GoesOn, Reloads, Fails
  <2>3. QED
    BY <2>1, <2>2
<1>5. QED
  BY <1>1, <1>3, <1>4

LEMMA HistoriesStep ==
  ASSUME LoopInv, [TurnNext]_allVars
  PROVE  Histories'
<1>1. /\ Histories /\ stored \in Seq(Message)
      /\ \A t \in Turns : /\ sent[t] \in [cut : BOOLEAN, msgs : Seq(Message)]
                          /\ sent[t].cut \in BOOLEAN /\ sent[t].msgs \in Seq(Message)
  BY DEF LoopInv, Histories
<1>2. CASE UNCHANGED turnVars
  BY <1>2 DEF LoopInv, Histories, Running, turnVars
<1>3. CASE Crashes
  <2>1. \A t \in Turns : ~Running(t)'
    BY <1>3 DEF Crashes, Running
  <2>2. session' \in Seq(Seq(Message)) /\ session' # <<>>
    BY <1>1, <1>3 DEF Crashes
  <2>3. QED
    BY <1>1, <1>3, <2>1, <2>2, CutTypes DEF Crashes, Histories
<1>4. ASSUME NEW t \in Turns, Acts(t)
      PROVE  Histories'
  <2>1. sent' \in [Turns -> [cut : BOOLEAN, msgs : Seq(Message)]]
    <3>1. sent'[t] \in [cut : BOOLEAN, msgs : Seq(Message)]
      <4>1. ASSUME NEW msgs \in Seq(Message), sent'[t] = [cut |-> sent[t].cut, msgs |-> msgs]
            PROVE  sent'[t] \in [cut : BOOLEAN, msgs : Seq(Message)]
        BY <1>1, <4>1
      <4>2. CASE Concludes(t) \/ \E calls \in SUBSET Calls : CallsTools(t, calls)
        <5>1. \E calls \in SUBSET Calls :
                sent'[t] = [cut |-> sent[t].cut, msgs |-> Append(sent[t].msgs, Assistant(t, calls))]
          BY <4>2 DEF Concludes, CallsTools
        <5>2. QED
          BY <1>1, <4>1, <5>1, MessageTypes, AppendType
      <4>3. CASE GoesOn(t)
        BY <1>1, <4>1, <4>3, ResultsAre, ConcatType DEF GoesOn
      <4>4. CASE Prepares(t)
        <5>1. session[on[t]] \in Seq(Message)
          BY <1>1, <4>4, ObjectTypes DEF Prepares, Goes, Histories, Running
        <5>2. QED
          BY <4>4, <5>1, WindowType DEF Prepares
      <4>5. CASE Opens(t) \/ Tries(t) \/ Reloads(t)
        BY <1>1, <4>5 DEF Opens, Tries, Reloads
      <4>6. CASE GivesUp(t) \/ Saves(t) \/ Fails(t)
        BY <4>6, CutTypes DEF GivesUp, Saves, Fails
      <4>7. QED
        BY <1>4, <4>2, <4>3, <4>4, <4>5, <4>6 DEF Acts
    <3>2. \A u \in Turns : sent'[u] \in [cut : BOOLEAN, msgs : Seq(Message)]
      BY <1>1, <1>4, <3>1, ActsAlone
    <3>3. sent' = [u \in Turns |-> sent'[u]]
      BY SentDomain DEF LoopInv
    <3>4. QED
      BY <3>2, <3>3
  <2>2. /\ session' \in Seq(Seq(Message)) /\ session' # <<>> /\ stored' \in Seq(Message)
        /\ \A o \in 1 .. Len(session) : o \in 1 .. Len(session')
    BY <1>1, <1>4, ActsTypes
  <2>3. on' \in [Turns -> Nat] /\ crowded' \in SUBSET Turns
    <3>1. on' = on \/ on' = [on EXCEPT ![t] = Len(session)]
      BY <1>4 DEF Acts, Opens, Prepares, Tries, Concludes, CallsTools, GoesOn, GivesUp, Saves, Reloads, Fails, Stays
    <3>2. crowded' = crowded \/ crowded' = crowded \cup {t}
      BY <1>4 DEF Acts, Opens, Prepares, Tries, Concludes, CallsTools, GoesOn, GivesUp, Saves, Reloads, Fails, Stays
    <3>3. on \in [Turns -> Nat] /\ crowded \in SUBSET Turns /\ Len(session) \in Nat
      BY <1>1, ObjectTypes DEF Histories
    <3>4. QED
      BY <3>1, <3>2, <3>3
  <2>4. ASSUME NEW u \in Turns, Running(u)' PROVE on'[u] \in 1 .. Len(session')
    <3>1. CASE u # t
      BY <1>1, <1>4, <2>2, <2>4, <3>1, ActsAlone DEF Running, Histories
    <3>2. CASE u = t /\ Running(t)
      <4>1. UNCHANGED on
        BY <1>4, <3>2 DEF Acts, Opens, Prepares, Tries, Concludes, CallsTools, GoesOn, GivesUp, Saves, Reloads, Fails,
             Stays, Goes, Running
      <4>2. QED
        BY <1>1, <2>2, <3>2, <4>1 DEF Histories
    <3>3. CASE u = t /\ ~Running(t)
      <4>1. Opens(t)
        BY <1>4, <2>4, <3>3 DEF Acts, Prepares, Tries, Concludes, CallsTools, GoesOn, GivesUp, Saves, Reloads, Fails,
             Goes, Running, RunPoints
      <4>2. on'[t] = Len(session)
        BY <1>1, <4>1 DEF Opens, Histories
      <4>3. QED
        BY <1>1, <2>2, <3>3, <4>2, ObjectTypes
    <3>4. QED
      BY <3>1, <3>2, <3>3
  <2>5. QED
    BY <2>1, <2>2, <2>3, <2>4 DEF Histories
<1>5. QED
  BY <1>2, <1>3, <1>4, TurnActs

-----------------------------------------------------------------------------

LEMMA LoopStart == TurnInit => LoopInv
<1> SUFFICES ASSUME TurnInit PROVE LoopInv
  OBVIOUS
<1>1. ExecInit
  BY DEF TurnInit
<1>2. ExecInv
  BY <1>1, ExecStart
<1>3. Ordered
  BY <1>1, OrderedStart
<1>4. Steady
  <2>1. NotAsked \in Coroutine /\ NotAsked.pc = "idle" /\ NotAsked.iter = 0
    BY TurnAssumption DEF NotAsked, Coroutine, TurnPoints
  <2>2. QED
    BY <2>1 DEF TurnInit, Steady
<1>5. Histories
  <2> DEFINE none == <<>>
  <2>1. none \in Seq(Message) /\ <<none>> \in Seq(Seq(Message)) /\ <<none>> # <<>>
    OBVIOUS
  <2>2. session = <<none>> /\ stored = none
    BY DEF TurnInit
  <2> HIDE DEF none
  <2>3. \A t \in Turns : ~Running(t)
    BY DEF TurnInit, Running, NotAsked
  <2>4. QED
    BY <2>1, <2>2, <2>3, CutTypes DEF TurnInit, Histories
<1>6. QED
  BY <1>2, <1>3, <1>4, <1>5 DEF LoopInv

LEMMA LoopStep == LoopInv /\ [TurnNext]_allVars => LoopInv'
BY TurnKeepsExecution, SteadyStep, HistoriesStep DEF LoopInv

\* The loop's first invariant: what the executor relies on, and the types.
LEMMA LoopInvariant == TurnSpec => []LoopInv
BY LoopStart, LoopStep, PTL DEF TurnSpec

\* Every variable keeps its type: no iteration or retry beyond the limits, and
\* whatever the history is cut to are messages.
THEOREM TurnTypeCorrect == TurnSpec => []TurnStateOK
<1>1. LoopInv => TurnStateOK
  BY DEF LoopInv, ExecInv, Steady, Coroutine, Histories, TurnStateOK
<1>2. QED
  BY <1>1, LoopInvariant, PTL

\* Under the turns of a chat, however many run beside each other, a call of the
\* serial part still runs alone in its batch.
THEOREM TurnsSerialAlone == TurnSpec => []SerialAlone
<1>1. LoopInv => SerialAlone
  BY OrderedAlone DEF LoopInv
<1>2. QED
  BY <1>1, LoopInvariant, PTL

\* Nor do turns run a tool without the approval its call found, or take a
\* decision back.
THEOREM TurnsKeepApprovals == TurnSpec => []RunsApproved /\ DecisionFinal
<1>1. LoopInv => RunsApproved
  BY DEF LoopInv, ExecInv, Confirmed, Cleared, RunsApproved, Gated
<1>2. LoopInv /\ [TurnNext]_allVars => [FinalMove]_brokerVars
  <2> SUFFICES ASSUME LoopInv, [TurnNext]_allVars, ~(UNCHANGED brokerVars) PROVE FinalMove
    OBVIOUS
  <2>1. [ExecNext]_vars
    BY TurnCalls DEF LoopInv
  <2>2. BrokerMoves
    BY <2>1, ExecMoves DEF LoopInv
  <2>3. QED
    BY <2>2, FinalStep DEF LoopInv, ExecInv
<1>3. QED
  BY <1>1, <1>2, LoopInvariant, PTL DEF TurnSpec, DecisionFinal, FinalMove

\* What a step of a turn is to the brokers.
LEMMA TurnMoves == LoopInv /\ [TurnNext]_allVars => BrokerMoves
<1> SUFFICES ASSUME LoopInv, [TurnNext]_allVars PROVE BrokerMoves
  OBVIOUS
<1>1. CASE [ExecNext]_vars
  BY <1>1, ExecMoves DEF LoopInv
<1>2. CASE UNCHANGED brokerVars
  BY <1>2 DEF BrokerMoves
<1>3. QED
  BY <1>1, <1>2, TurnCalls DEF LoopInv

\* With one process, the broker's own invariant holds under the turns too.
THEOREM BrokerInvUnderTurns ==
  ASSUME NEW p, Procs = {p}
  PROVE  TurnSpec => []BrokerInv
<1>1. TurnInit => BrokerInv
  BY DEF TurnInit, ExecInit, Init, BrokerInv, Unissued, Empty, Ahead, ExpiryHolds, AuditTruthful
<1>2. LoopInv /\ LoopInv' /\ BrokerInv /\ [TurnNext]_allVars => BrokerInv'
  BY TurnMoves, StepKeeps DEF Kept, BrokerInv, LoopInv, ExecInv
<1>3. QED
  BY <1>1, <1>2, LoopInvariant, PTL DEF TurnSpec

\* With one process, the file still implements the abstract register of
\* requests while turns submit them, wait for them and use their decisions.
THEOREM RegisterUnderTurns ==
  ASSUME NEW p, Procs = {p}
  PROVE  TurnSpec => RegisterSpec
<1>1. TurnInit => Register!Init
  BY RegisterStart DEF TurnInit, ExecInit
<1>2. LoopInv /\ LoopInv' /\ BrokerInv /\ [TurnNext]_allVars => [Register!Write]_disk
  BY TurnMoves, RegisterStep DEF LoopInv, ExecInv
<1>3. QED
  BY <1>1, <1>2, LoopInvariant, BrokerInvUnderTurns, PTL DEF TurnSpec, RegisterSpec, Register!Spec

\* With one process, a call of a turn that names a request which the file says
\* is approved for its tool gets past the approval checks.
THEOREM TurnsHonourApprovals ==
  ASSUME NEW p, Procs = {p}
  PROVE  TurnSpec => StoredApprovalHonoured
<1> DEFINE Honoured ==
      \A c \in Calls :
        LET r == call[c].arg IN
        (/\ call[c].pc = "entering" /\ call'[c].pc \in {"checking", "asking"}
         /\ r \in Requests /\ disk[r].status = "approved" /\ disk[r].tool \in {call[c].tool, NoTool})
          => call'[c].held = r
<1>1. LoopInv /\ BrokerInv /\ [TurnNext]_allVars => [Honoured]_vars
  <2> SUFFICES ASSUME LoopInv, BrokerInv, [TurnNext]_allVars PROVE [Honoured]_vars
    OBVIOUS
  <2>1. CASE [ExecNext]_vars
    BY <2>1, HonouredStep DEF LoopInv
  <2>2. ASSUME NEW t \in Turns, call' = Taken(Made(t)) PROVE Honoured
    <3> SUFFICES ASSUME NEW c \in Calls, call[c].pc = "entering", call'[c].pc \in {"checking", "asking"}
                 PROVE  FALSE
      OBVIOUS
    <3>1. call'[c] = call[c] \/ call'[c].pc = "done"
      BY <2>2 DEF Taken, Idle
    <3>2. QED
      BY <3>1
  <2>3. QED
    BY <2>1, <2>2, TurnCalls DEF LoopInv
<1>2. QED
  BY <1>1, LoopInvariant, BrokerInvUnderTurns, PTL DEF TurnSpec, StoredApprovalHonoured

\* With one process whose file can be written, a confirmed tool that a turn
\* ever ran did so under an approval that the file still holds.
THEOREM TurnsRunUnderApproval ==
  ASSUME NEW p, Procs = {p}, "saveThrows" \notin Faults
  PROVE  TurnSpec => []RanUnderStoredApproval
<1> DEFINE Inv == Saved /\ RanInv /\ RanUnderStoredApproval
<1>1. TurnInit => Inv
  BY RanStart DEF TurnInit
<1>2. LoopInv /\ LoopInv' /\ BrokerInv /\ Inv /\ [TurnNext]_allVars => Inv'
  <2> SUFFICES ASSUME LoopInv, LoopInv', BrokerInv, Inv, [TurnNext]_allVars PROVE Inv'
    OBVIOUS
  <2>1. CASE [ExecNext]_vars
    BY <2>1, RanStep DEF LoopInv
  <2>2. ASSUME UNCHANGED brokerVars, NEW t \in Turns, call' = Taken(Made(t)) PROVE Inv'
    <3>1. Saved'
      BY <2>2 DEF Saved, brokerVars
    <3>2. \A c \in Calls : call'[c] = call[c] \/ ~call'[c].ran
      BY <2>2 DEF Taken, Idle
    <3>3. RanInv'
      BY <3>2 DEF RanInv
    <3>4. RanUnderStoredApproval'
      BY <2>2, <3>2 DEF RanUnderStoredApproval, Gated, brokerVars
    <3>5. QED
      BY <3>1, <3>3, <3>4
  <2>3. QED
    BY <2>1, <2>2, TurnCalls DEF LoopInv
<1>3. Inv => RanUnderStoredApproval
  OBVIOUS
<1> HIDE DEF Inv
<1>4. QED
  BY <1>1, <1>2, <1>3, LoopInvariant, BrokerInvUnderTurns, PTL DEF TurnSpec

-----------------------------------------------------------------------------

\* The calls of an iteration are those its assistant message made, as long as
\* their results are awaited: nobody else's batch is the same.
LEMMA CallableStays ==
  ASSUME NEW t, turn'[t].iter = turn[t].iter
  PROVE  Callable(t)' = Callable(t)
BY DEF Callable

LEMMA MadeStays ==
  ASSUME NEW u \in Turns, turn'[u] = turn[u], Made(u) # {},
         \/ Begun' = Begun
         \/ \E t \in Turns : \E calls \in SUBSET Callable(t) :
              Callable(t) \cap Begun = {} /\ Begun' = Begun \cup calls
  PROVE  Made(u)' = Made(u)
<1>1. Made(u)' = Callable(u) \cap Begun'
  BY CallableStays, MadeIs DEF Made, Begun, Callable
<1>2. CASE Begun' = Begun
  BY <1>1, <1>2, MadeIs
<1>3. ASSUME NEW t \in Turns, NEW calls \in SUBSET Callable(t), Callable(t) \cap Begun = {}, Begun' = Begun \cup calls
      PROVE  Made(u)' = Made(u)
  <2>1. ASSUME NEW c \in calls, c \in Callable(u) PROVE FALSE
    <3>1. Callable(u) = Callable(t)
      BY <2>1 DEF Callable
    <3>2. QED
      BY <1>3, <3>1, MadeIs
  <2>2. QED
    BY <1>1, <1>3, <2>1, MadeIs
<1>4. QED
  BY <1>2, <1>3

\* Results come after the calls they answer.
CallsFirst(s) ==
  \A i \in 1 .. Len(s) :
    s[i].role = "tool" => \E j \in 1 .. i - 1 : s[j].role = "assistant" /\ s[i].calls \subseteq s[j].calls

LEMMA CallsFirstAppend ==
  ASSUME NEW s \in Seq(Message), NEW m \in Message, m.role # "tool", CallsFirst(s)
  PROVE  CallsFirst(Append(s, m))
<1> DEFINE r == Append(s, m)
<1>1. /\ Len(s) \in Nat /\ Len(r) = Len(s) + 1
      /\ r[Len(s) + 1] = m /\ \A i \in 1 .. Len(s) : r[i] = s[i]
  BY AppendAt
<1> HIDE DEF r
<1> SUFFICES ASSUME NEW i \in 1 .. Len(r), r[i].role = "tool"
             PROVE  \E j \in 1 .. i - 1 : r[j].role = "assistant" /\ r[i].calls \subseteq r[j].calls
  BY DEF CallsFirst, r
<1>2. i \in 1 .. Len(s)
  BY <1>1
<1>3. PICK j \in 1 .. i - 1 : s[j].role = "assistant" /\ s[i].calls \subseteq s[j].calls
  BY <1>1, <1>2 DEF CallsFirst
<1>4. j \in 1 .. Len(s)
  BY <1>1, <1>2
<1>5. QED
  BY <1>1, <1>2, <1>3, <1>4

LEMMA CallsFirstResults ==
  ASSUME NEW s \in Seq(Message), NEW t \in Turns, CallsFirst(s),
         NEW k \in 1 .. Len(s), s[k] = Assistant(t, Made(t))
  PROVE  CallsFirst(s \o ResultsOf(t))
<1> DEFINE more == ResultsOf(t)
           r == s \o more
<1>1. more \in Seq(Message) /\ \A i \in 1 .. Len(more) : \E c \in Made(t) : more[i] = ToolResult(t, c)
  BY ResultsAre
<1> HIDE DEF more
<1>2. /\ Len(s) \in Nat /\ \A i \in 1 .. Len(s) : r[i] = s[i]
      /\ \A i \in 1 .. Len(r) :
           i \in 1 .. Len(s) \/ (i - Len(s) \in 1 .. Len(more) /\ r[i] = more[i - Len(s)])
  BY <1>1, ConcatAt
<1>3. Len(r) \in Nat
  BY <1>1
<1> HIDE DEF r
<1> SUFFICES ASSUME NEW i \in 1 .. Len(r), r[i].role = "tool"
             PROVE  \E j \in 1 .. i - 1 : r[j].role = "assistant" /\ r[i].calls \subseteq r[j].calls
  BY DEF CallsFirst, r, more
<1>4. CASE i \in 1 .. Len(s)
  <2>1. PICK j \in 1 .. i - 1 : s[j].role = "assistant" /\ s[i].calls \subseteq s[j].calls
    BY <1>2, <1>4 DEF CallsFirst
  <2>2. j \in 1 .. Len(s)
    BY <1>2, <1>4
  <2>3. QED
    BY <1>2, <1>4, <2>1, <2>2
<1>5. CASE i - Len(s) \in 1 .. Len(more) /\ r[i] = more[i - Len(s)]
  <2>1. PICK c \in Made(t) : r[i] = ToolResult(t, c)
    BY <1>1, <1>5
  <2>2. r[k].role = "assistant" /\ r[i].calls \subseteq r[k].calls
    BY <1>2, <2>1, MessageFields
  <2>3. k \in 1 .. i - 1
    <3>1. i \in Nat /\ k \in Nat /\ i - Len(s) >= 1 /\ 1 <= k /\ k <= Len(s)
      BY <1>1, <1>2, <1>3, <1>5
    <3>2. QED
      BY <1>2, <3>1
  <2>4. QED
    BY <2>2, <2>3
<1>6. QED
  BY <1>2, <1>4, <1>5

LEMMA FirstOfNone == CallsFirst(<<>>)
BY DEF CallsFirst

\* A message that a sequence holds.
Holds(s, m) == \E i \in 1 .. Len(s) : s[i] = m

LEMMA HoldsAppend ==
  ASSUME NEW s \in Seq(Message), NEW x \in Message
  PROVE  Holds(Append(s, x), x) /\ \A m : Holds(s, m) => Holds(Append(s, x), m)
<1> DEFINE r == Append(s, x)
<1>1. /\ Len(s) \in Nat /\ Len(r) = Len(s) + 1
      /\ r[Len(s) + 1] = x /\ \A i \in 1 .. Len(s) : r[i] = s[i]
  BY AppendAt
<1> HIDE DEF r
<1>2. Len(s) + 1 \in 1 .. Len(r) /\ \A i \in 1 .. Len(s) : i \in 1 .. Len(r)
  BY <1>1
<1>3. QED
  BY <1>1, <1>2 DEF Holds, r

LEMMA HoldsConcat ==
  ASSUME NEW s \in Seq(Message), NEW more \in Seq(Message)
  PROVE  \A m : Holds(s, m) => Holds(s \o more, m)
<1> DEFINE r == s \o more
<1>1. /\ Len(s) \in Nat /\ Len(more) \in Nat /\ Len(r) = Len(s) + Len(more)
      /\ \A i \in 1 .. Len(s) : r[i] = s[i]
  BY ConcatAt
<1> HIDE DEF r
<1>2. \A i \in 1 .. Len(s) : i \in 1 .. Len(r)
  BY <1>1
<1>3. QED
  BY <1>1, <1>2 DEF Holds, r

\* What the next request relies on: histories in which results follow their
\* calls, and, while a turn waits for its tools, the message that called them.
Waits(t) ==
  /\ Made(t) # {}
  /\ Holds(session[on[t]], Assistant(t, Made(t)))
  /\ ~sent[t].cut => Holds(sent[t].msgs, Assistant(t, Made(t)))

ReplyInv ==
  /\ CallsFirst(stored) /\ \A o \in 1 .. Len(session) : CallsFirst(session[o])
  /\ \A t \in Turns : ~sent[t].cut => CallsFirst(sent[t].msgs)
  /\ \A t \in Turns : turn[t].pc = "executing" => Waits(t)

\* A turn that calls tools waits for them; the others wait on.
LEMMA WaitsOn ==
  ASSUME Histories, NEW t \in Turns, Acts(t), NEW u \in Turns \ {t}, turn[u].pc = "executing", Waits(u)
  PROVE  Waits(u)'
<1>1. turn'[u] = turn[u] /\ sent'[u] = sent[u] /\ on'[u] = on[u]
  BY ActsAlone
<1>2. \/ Begun' = Begun
      \/ \E calls \in SUBSET Callable(t) : Callable(t) \cap Begun = {} /\ Begun' = Begun \cup calls
  BY DEF Acts, Opens, Prepares, Tries, Concludes, CallsTools, GoesOn, GivesUp, Saves, Reloads, Fails
<1>3. Made(u)' = Made(u)
  BY <1>1, <1>2, MadeStays DEF Waits
<1> DEFINE m == Assistant(u, Made(u))
<1>4. Holds(session[on[u]], m) => Holds(session'[on[u]], m)
  <2>1. on[u] \in 1 .. Len(session) /\ session[on[u]] \in Seq(Message)
    BY ObjectTypes DEF Histories, Running
  <2>2. PICK more \in Seq(Message) : session'[on[u]] = session[on[u]] \o more
    BY <2>1, ActsGrow
  <2> HIDE DEF m
  <2>3. QED
    BY <2>1, <2>2, HoldsConcat
<1>5. m' = m
  BY <1>3 DEF Assistant
<1>6. /\ Made(u)' # {} /\ Holds(session'[on'[u]], m)
      /\ ~sent'[u].cut => Holds(sent'[u].msgs, m)
  BY <1>1, <1>3, <1>4 DEF Waits
<1> HIDE DEF m
<1>7. Waits(u)' <=> /\ Made(u)' # {}
                    /\ Holds(session'[on'[u]], m')
                    /\ ~sent'[u].cut => Holds(sent'[u].msgs, m')
  BY DEF Waits, Holds, m
<1>8. QED
  BY <1>5, <1>6, <1>7

LEMMA WaitsStart ==
  ASSUME Histories, NEW t \in Turns, NEW calls \in SUBSET Calls, CallsTools(t, calls)
  PROVE  Waits(t)'
<1> DEFINE m == Assistant(t, calls)
<1>1. Made(t)' = calls
  <2>1. Callable(t)' = Callable(t) /\ calls \subseteq Callable(t) /\ Callable(t) \cap Begun = {} /\ Begun' = Begun \cup calls
    BY CallableStays DEF CallsTools
  <2>2. Made(t)' = Callable(t)' \cap Begun'
    BY DEF Made, Callable, Begun
  <2>3. QED
    BY <2>1, <2>2
<1>2. calls # {} /\ Adds(on[t], <<m>>) /\ on' = on
      /\ sent'[t] = [cut |-> sent[t].cut, msgs |-> Append(sent[t].msgs, m)]
  BY DEF CallsTools
<1>3. m \in Message /\ session[on[t]] \in Seq(Message) /\ sent[t].msgs \in Seq(Message)
  BY <1>2, MessageTypes, ObjectTypes DEF Histories, Adds
<1>4. m = Assistant(t, Made(t))'
  BY <1>1 DEF Assistant
<1> HIDE DEF m
<1>5. session'[on[t]] = Append(session[on[t]], m)
  <2> DEFINE one == <<m>>
  <2>1. one \in Seq(Message) /\ Append(session[on[t]], m) = session[on[t]] \o one
    BY <1>3, AppendsOne
  <2>2. Adds(on[t], one)
    BY <1>2
  <2> HIDE DEF one
  <2>3. QED
    BY <2>1, <2>2, AddsIs
<1>6. Holds(session'[on[t]], m) /\ Holds(sent'[t].msgs, m)
  BY <1>2, <1>3, <1>5, HoldsAppend
<1>7. QED
  BY <1>1, <1>2, <1>4, <1>6 DEF Waits, Holds

\* One more message after others.
LEMMA ConcatAppend ==
  ASSUME NEW s \in Seq(Message), NEW more \in Seq(Message), NEW m \in Message
  PROVE  s \o Append(more, m) = Append(s \o more, m)
<1> DEFINE one == <<m>>
<1>1. one \in Seq(Message) /\ Append(more, m) = more \o one
  BY AppendsOne
<1>2. Append(s \o more, m) = (s \o more) \o one
  BY ConcatAt, AppendsOne
<1> HIDE DEF one
<1>3. s \o (more \o one) = (s \o more) \o one
  BY <1>1, ConcatAssociative
<1>4. QED
  BY <1>1, <1>2, <1>3

\* In every object, and in the file, results keep to follow their calls.
LEMMA FirstsStep ==
  ASSUME Histories, ReplyInv, NEW t \in Turns, Acts(t)
  PROVE  CallsFirst(stored') /\ \A o \in 1 .. Len(session') : CallsFirst(session'[o])
<1>1. /\ stored \in Seq(Message) /\ CallsFirst(stored)
      /\ \A o \in 1 .. Len(session) : session[o] \in Seq(Message) /\ CallsFirst(session[o])
  BY ObjectTypes DEF Histories, ReplyInv
<1>2. ASSUME NEW o \in 1 .. Len(session), NEW more \in Seq(Message), Adds(o, more), CallsFirst(session[o] \o more)
      PROVE  \A p \in 1 .. Len(session') : CallsFirst(session'[p])
  BY <1>1, <1>2, AddsIs
<1>3. ASSUME NEW o \in 1 .. Len(session), NEW m \in Message, m.role # "tool", Adds(o, <<m>>)
      PROVE  \A p \in 1 .. Len(session') : CallsFirst(session'[p])
  <2> DEFINE one == <<m>>
  <2>1. one \in Seq(Message) /\ session[o] \o one = Append(session[o], m)
    BY <1>1, AppendsOne
  <2>2. CallsFirst(Append(session[o], m))
    BY <1>1, <1>3, CallsFirstAppend
  <2>3. Adds(o, one)
    BY <1>3
  <2> HIDE DEF one
  <2>4. QED
    BY <1>2, <2>1, <2>2, <2>3
<1>4. \A o \in 1 .. Len(session') : CallsFirst(session'[o])
  <2>1. (\A size \in SizesOf[t] : User(t, size) \in Message /\ User(t, size).role # "tool")
        /\ \A calls \in SUBSET Calls : Assistant(t, calls) \in Message /\ Assistant(t, calls).role # "tool"
    BY MessageTypes, MessageFields
  <2>2. CASE Opens(t)
    <3>1. PICK size \in SizesOf[t] : Adds(Len(session), <<User(t, size)>>)
      BY <2>2 DEF Opens
    <3>2. QED
      BY <1>3, <2>1, <3>1 DEF Adds
  <2>3. CASE Concludes(t) \/ (\E calls \in SUBSET Calls : CallsTools(t, calls)) \/ Fails(t)
    <3>1. CASE UNCHANGED session
      BY <1>1, <3>1
    <3>2. ASSUME NEW calls \in SUBSET Calls, Adds(on[t], <<Assistant(t, calls)>>)
          PROVE  \A o \in 1 .. Len(session') : CallsFirst(session'[o])
      BY <1>3, <2>1, <3>2 DEF Adds
    <3>3. CASE Concludes(t)
      BY <3>2, <3>3 DEF Concludes
    <3>4. CASE \E calls \in SUBSET Calls : CallsTools(t, calls)
      BY <3>2, <3>4 DEF CallsTools
    <3>5. CASE Fails(t)
      BY <3>1, <3>2, <3>5 DEF Fails
    <3>6. QED
      BY <2>3, <3>3, <3>4, <3>5
  <2>4. CASE GoesOn(t) \/ GivesUp(t)
    <3> DEFINE s == session[on[t]]
    <3>1. /\ turn[t].pc = "executing" /\ on[t] \in 1 .. Len(session)
          /\ Adds(on[t], ResultsOf(t)) \/ Adds(on[t], Append(ResultsOf(t), Assistant(t, {})))
      BY <2>4 DEF GoesOn, GivesUp, Goes, Adds
    <3>2. s \in Seq(Message) /\ CallsFirst(s)
      BY <1>1, <3>1
    <3>3. CallsFirst(s \o ResultsOf(t))
      <4>1. PICK k \in 1 .. Len(s) : s[k] = Assistant(t, Made(t))
        BY <3>1 DEF ReplyInv, Waits, Holds
      <4> HIDE DEF s
      <4>2. QED
        BY <3>2, <4>1, CallsFirstResults
    <3>4. s \o ResultsOf(t) \in Seq(Message) /\ ResultsOf(t) \in Seq(Message)
      BY <3>2, ResultsAre, ConcatType
    <3>5. CallsFirst(s \o Append(ResultsOf(t), Assistant(t, {})))
      <4> HIDE DEF s
      <4>1. s \o Append(ResultsOf(t), Assistant(t, {})) = Append(s \o ResultsOf(t), Assistant(t, {}))
        BY <2>1, <3>2, <3>4, ConcatAppend
      <4>2. CallsFirst(Append(s \o ResultsOf(t), Assistant(t, {})))
        BY <2>1, <3>3, <3>4, CallsFirstAppend
      <4>3. QED
        BY <4>1, <4>2
    <3>6. QED
      BY <1>2, <3>1, <3>3, <3>4, <3>5, ResultsByTurn
  <2>5. CASE Reloads(t)
    <3>1. session' = Append(session, stored)
      BY <2>5 DEF Reloads
    <3>2. session \in Seq(Seq(Message)) /\ Len(session) \in Nat
      BY ObjectTypes DEF Histories
    <3>3. QED
      BY <1>1, <3>1, <3>2
  <2>6. CASE Prepares(t) \/ Tries(t) \/ Saves(t)
    BY <1>1, <2>6 DEF Prepares, Tries, Saves
  <2>7. QED
    BY <2>2, <2>3, <2>4, <2>5, <2>6 DEF Acts
<1>5. CallsFirst(stored')
  <2>1. CASE Saves(t) \/ GivesUp(t)
    <3>1. on[t] \in 1 .. Len(session) /\ on[t] \in 1 .. Len(session')
      BY <2>1, ActsTypes DEF Saves, GivesUp, Goes, Histories, Running
    <3>2. stored' \in {stored, session[on[t]], session'[on[t]]}
      BY <2>1 DEF Saves, GivesUp, Stays
    <3>3. QED
      BY <1>1, <1>4, <3>1, <3>2
  <2>2. CASE ~(Saves(t) \/ GivesUp(t))
    BY <1>1, <2>2 DEF Acts, Opens, Prepares, Tries, Concludes, CallsTools, GoesOn, Reloads, Fails
  <2>3. QED
    BY <2>1, <2>2
<1>6. QED
  BY <1>4, <1>5

LEMMA ReplyStep == LoopInv /\ ReplyInv /\ [TurnNext]_allVars => ReplyInv'
<1> SUFFICES ASSUME LoopInv, ReplyInv, [TurnNext]_allVars PROVE ReplyInv'
  OBVIOUS
<1>1. /\ Histories /\ stored \in Seq(Message)
      /\ \A t \in Turns : sent[t].msgs \in Seq(Message)
  BY DEF LoopInv, Histories
<1>2. CASE UNCHANGED turnVars /\ Begun' = Begun
  <2>1. \A t \in Turns : Made(t)' = Made(t)
    BY <1>2 DEF Made, Callable, Begun, turnVars
  <2>2. \A t \in Turns : Waits(t) => Waits(t)'
    BY <1>2, <2>1 DEF Waits, Holds, Assistant, turnVars
  <2>3. QED
    BY <1>2, <2>2 DEF ReplyInv, CallsFirst, turnVars
<1>3. CASE Crashes
  <2>1. \A t \in Turns : turn'[t].pc # "executing"
    BY <1>3 DEF Crashes, Running
  <2>2. \A t \in Turns : sent'[t].msgs = <<>>
    BY <1>3 DEF Crashes, NothingSent
  <2>3. \A t \in Turns : CallsFirst(sent'[t].msgs)
    BY <2>2, FirstOfNone
  <2>4. \A o \in 1 .. Len(session') : session'[o] = stored
    BY <1>3 DEF Crashes
  <2>5. QED
    BY <1>3, <2>1, <2>3, <2>4 DEF ReplyInv, Crashes, CallsFirst
<1>4. ASSUME NEW t \in Turns, Acts(t)
      PROVE  ReplyInv'
  <2>1. CallsFirst(stored') /\ \A o \in 1 .. Len(session') : CallsFirst(session'[o])
    BY <1>1, <1>4, FirstsStep
  <2>2. ~sent'[t].cut => CallsFirst(sent'[t].msgs)
    <3> SUFFICES ASSUME ~sent'[t].cut PROVE CallsFirst(sent'[t].msgs)
      OBVIOUS
    <3>1. CASE Opens(t) \/ Tries(t) \/ Reloads(t)
      BY <3>1 DEF Opens, Tries, Reloads, ReplyInv
    <3>2. CASE Prepares(t)
      <4>1. on[t] \in 1 .. Len(session) /\ sent'[t] = Window(session[on[t]])
        BY <1>1, <3>2 DEF Prepares, Goes, Histories, Running
      <4>2. session[on[t]] \in Seq(Message) /\ CallsFirst(session[on[t]])
        BY <1>1, <4>1, ObjectTypes DEF ReplyInv
      <4>3. QED
        BY <4>1, <4>2, WindowType
    <3>3. CASE Concludes(t) \/ \E calls \in SUBSET Calls : CallsTools(t, calls)
      <4>1. PICK calls \in SUBSET Calls :
              sent'[t] = [cut |-> sent[t].cut, msgs |-> Append(sent[t].msgs, Assistant(t, calls))]
        BY <3>3 DEF Concludes, CallsTools
      <4>2. Assistant(t, calls) \in Message /\ Assistant(t, calls).role # "tool"
        BY MessageTypes, MessageFields
      <4>3. CallsFirst(sent[t].msgs)
        BY <4>1 DEF ReplyInv
      <4>4. CallsFirst(Append(sent[t].msgs, Assistant(t, calls)))
        BY <1>1, <4>2, <4>3, CallsFirstAppend
      <4>5. QED
        BY <4>1, <4>4
    <3>4. CASE GoesOn(t)
      <4>1. sent'[t] = [cut |-> sent[t].cut, msgs |-> sent[t].msgs \o ResultsOf(t)] /\ turn[t].pc = "executing"
        BY <3>4 DEF GoesOn, Goes
      <4>2. CallsFirst(sent[t].msgs) /\ Holds(sent[t].msgs, Assistant(t, Made(t)))
        BY <4>1 DEF ReplyInv, Waits
      <4>3. CallsFirst(sent[t].msgs \o ResultsOf(t))
        BY <1>1, <4>2, CallsFirstResults DEF Holds
      <4>4. QED
        BY <4>1, <4>3
    <3>5. CASE GivesUp(t) \/ Saves(t) \/ Fails(t)
      <4>1. sent'[t].msgs = <<>>
        BY <3>5 DEF GivesUp, Saves, Fails, NothingSent
      <4>2. QED
        BY <4>1, FirstOfNone
    <3>6. QED
      BY <1>4, <3>1, <3>2, <3>3, <3>4, <3>5 DEF Acts
  <2>3. turn'[t].pc = "executing" => Waits(t)'
    <3>1. turn'[t].pc = "executing" => \E calls \in SUBSET Calls : CallsTools(t, calls)
      BY <1>4 DEF Acts, Opens, Prepares, Tries, Concludes, GoesOn, GivesUp, Saves, Reloads, Fails, Goes
    <3>2. QED
      BY <1>1, <3>1, WaitsStart
  <2>4. ASSUME NEW u \in Turns \ {t}
        PROVE  /\ ~sent'[u].cut => CallsFirst(sent'[u].msgs)
               /\ turn'[u].pc = "executing" => Waits(u)'
    <3>1. turn'[u] = turn[u] /\ sent'[u] = sent[u]
      BY <1>1, <1>4, ActsAlone
    <3>2. turn[u].pc = "executing" => Waits(u)'
      BY <1>1, <1>4, WaitsOn DEF ReplyInv
    <3>3. QED
      BY <3>1, <3>2 DEF ReplyInv
  <2>5. \A u \in Turns : /\ ~sent'[u].cut => CallsFirst(sent'[u].msgs)
                         /\ turn'[u].pc = "executing" => Waits(u)'
    BY <2>2, <2>3, <2>4
  <2>6. QED
    BY <2>1, <2>5 DEF ReplyInv, CallsFirst
<1>5. QED
  BY <1>2, <1>3, <1>4, TurnActs

LEMMA ReplyStart == TurnInit => ReplyInv
BY FirstOfNone DEF TurnInit, ReplyInv, NothingSent, NotAsked

\* A tool's result reaches the provider without the call it answers only if the
\* history was cut, however turns, failures and crashes interleave.
THEOREM ResultsFollowCalls == TurnSpec => []ResultsHaveCalls
<1>1. ASSUME LoopInv, ReplyInv PROVE ResultsHaveCalls
  <2> SUFFICES ASSUME NEW t \in Turns, NEW i \in DOMAIN sent[t].msgs,
                      sent[t].msgs[i].role = "tool", ~sent[t].cut
               PROVE  \E j \in 1 .. i - 1 :
                        /\ sent[t].msgs[j].role = "assistant"
                        /\ sent[t].msgs[i].calls \subseteq sent[t].msgs[j].calls
    BY DEF ResultsHaveCalls
  <2>1. sent[t].msgs \in Seq(Message) /\ CallsFirst(sent[t].msgs)
    BY <1>1 DEF LoopInv, Histories, ReplyInv
  <2>2. i \in 1 .. Len(sent[t].msgs)
    BY <2>1
  <2>3. QED
    BY <2>1, <2>2 DEF CallsFirst
<1>2. QED
  BY <1>1, ReplyStart, ReplyStep, LoopInvariant, PTL DEF TurnSpec

-----------------------------------------------------------------------------

\* What a sequence of messages tells of a turn: anything; its question; its
\* final text; and for each call of its messages exactly one result, after
\* the call, except for the calls that still wait.
Tells(s, t)       == \E i \in 1 .. Len(s) : s[i].turn = t
HasQuestion(s, t) == \E i \in 1 .. Len(s) : s[i].turn = t /\ s[i].role = "user"
HasAnswer(s, t)   == Holds(s, Assistant(t, {}))

OnceAfter(s, i, m) ==
  \E j \in 1 .. Len(s) : i < j /\ s[j] = m /\ \A k \in 1 .. Len(s) : s[k] = m => k = j

Paired(s, t, waiting) ==
  \A i \in 1 .. Len(s) :
    s[i].turn = t /\ s[i].role = "assistant" =>
      \A c \in s[i].calls : IF c \in waiting THEN ~Holds(s, ToolResult(t, c))
                                             ELSE OnceAfter(s, i, ToolResult(t, c))

\* Only these calls have results.
OfCalls(s, calls) == \A i \in 1 .. Len(s) : s[i].role = "tool" => s[i].calls \subseteq calls

\* What more messages change in that: messages that are not the one looked
\* for, messages without calls or results.
LEMMA OnceKeeps ==
  ASSUME NEW s \in Seq(Message), NEW more \in Seq(Message), NEW m,
         \A k \in 1 .. Len(more) : more[k] # m
  PROVE  /\ Holds(s \o more, m) => Holds(s, m)
         /\ \A i \in Nat : OnceAfter(s, i, m) => OnceAfter(s \o more, i, m)
<1> DEFINE r == s \o more
<1>1. /\ Len(s) \in Nat /\ Len(more) \in Nat /\ Len(r) = Len(s) + Len(more)
      /\ \A i \in 1 .. Len(s) : r[i] = s[i]
      /\ \A i \in 1 .. Len(r) :
           i \in 1 .. Len(s) \/ (i - Len(s) \in 1 .. Len(more) /\ r[i] = more[i - Len(s)])
  BY ConcatAt
<1> HIDE DEF r
<1>2. \A k \in 1 .. Len(r) : r[k] = m => k \in 1 .. Len(s) /\ s[k] = m
  BY <1>1
<1>3. Holds(r, m) => Holds(s, m)
  BY <1>2 DEF Holds
<1>4. ASSUME NEW i \in Nat, OnceAfter(s, i, m) PROVE OnceAfter(r, i, m)
  <2>1. PICK j \in 1 .. Len(s) : i < j /\ s[j] = m /\ \A k \in 1 .. Len(s) : s[k] = m => k = j
    BY <1>4 DEF OnceAfter
  <2>2. j \in 1 .. Len(r) /\ r[j] = m
    BY <1>1, <2>1
  <2>3. \A k \in 1 .. Len(r) : r[k] = m => k = j
    BY <1>2, <2>1
  <2>4. QED
    BY <2>1, <2>2, <2>3 DEF OnceAfter
<1>5. QED
  BY <1>3, <1>4 DEF r

LEMMA TellsAppends ==
  ASSUME NEW s \in Seq(Message), NEW more \in Seq(Message), NEW t
  PROVE  /\ HasQuestion(s, t) => HasQuestion(s \o more, t)
         /\ HasAnswer(s, t) => HasAnswer(s \o more, t)
         /\ (\A i \in 1 .. Len(more) : more[i].turn # t) /\ ~Tells(s, t) => ~Tells(s \o more, t)
<1> DEFINE r == s \o more
<1>1. /\ Len(s) \in Nat /\ Len(more) \in Nat /\ Len(r) = Len(s) + Len(more)
      /\ \A i \in 1 .. Len(s) : r[i] = s[i]
      /\ \A i \in 1 .. Len(r) :
           i \in 1 .. Len(s) \/ (i - Len(s) \in 1 .. Len(more) /\ r[i] = more[i - Len(s)])
  BY ConcatAt
<1> HIDE DEF r
<1>2. \A i \in 1 .. Len(s) : i \in 1 .. Len(r)
  BY <1>1
<1>3. HasQuestion(s, t) => HasQuestion(r, t)
  BY <1>1, <1>2 DEF HasQuestion
<1>4. HasAnswer(s, t) => HasAnswer(r, t)
  BY HoldsConcat DEF HasAnswer, r
<1>5. (\A i \in 1 .. Len(more) : more[i].turn # t) /\ ~Tells(s, t) => ~Tells(r, t)
  BY <1>1 DEF Tells
<1>6. QED
  BY <1>3, <1>4, <1>5 DEF r

LEMMA PairedAppends ==
  ASSUME NEW s \in Seq(Message), NEW more \in Seq(Message), NEW t, NEW waiting, Paired(s, t, waiting),
         \A k \in 1 .. Len(more) :
           more[k].turn = t => more[k].role # "tool" /\ (more[k].role = "assistant" => more[k].calls = {})
  PROVE  Paired(s \o more, t, waiting)
<1> DEFINE r == s \o more
<1>1. /\ Len(s) \in Nat /\ Len(more) \in Nat /\ Len(r) = Len(s) + Len(more)
      /\ \A i \in 1 .. Len(s) : r[i] = s[i]
      /\ \A i \in 1 .. Len(r) :
           i \in 1 .. Len(s) \/ (i - Len(s) \in 1 .. Len(more) /\ r[i] = more[i - Len(s)])
  BY ConcatAt
<1>2. \A c : \A k \in 1 .. Len(more) : more[k] # ToolResult(t, c)
  BY MessageFields
<1>3. \A c : /\ Holds(r, ToolResult(t, c)) => Holds(s, ToolResult(t, c))
             /\ \A i \in Nat : OnceAfter(s, i, ToolResult(t, c)) => OnceAfter(r, i, ToolResult(t, c))
  BY <1>2, OnceKeeps
<1> HIDE DEF r
<1> SUFFICES ASSUME NEW i \in 1 .. Len(r), r[i].turn = t, r[i].role = "assistant", NEW c \in r[i].calls
             PROVE  IF c \in waiting THEN ~Holds(r, ToolResult(t, c)) ELSE OnceAfter(r, i, ToolResult(t, c))
  BY DEF Paired, r
<1>4. i \in 1 .. Len(s) /\ r[i] = s[i] /\ i \in Nat
  BY <1>1
<1>5. IF c \in waiting THEN ~Holds(s, ToolResult(t, c)) ELSE OnceAfter(s, i, ToolResult(t, c))
  BY <1>4 DEF Paired
<1>6. QED
  BY <1>3, <1>4, <1>5

\* The message that makes calls: they have no results yet.
LEMMA PairedCalls ==
  ASSUME NEW s \in Seq(Message), NEW t \in Turns, NEW calls \in SUBSET Calls, NEW made,
         OfCalls(s, made), calls \cap made = {}, Paired(s, t, {})
  PROVE  Paired(Append(s, Assistant(t, calls)), t, calls)
<1> DEFINE m == Assistant(t, calls)
           r == Append(s, m)
           more == <<m>>
<1>1. m \in Message /\ m.role = "assistant" /\ m.turn = t /\ m.calls = calls
  BY MessageTypes, MessageFields
<1> HIDE DEF m
<1>2. more \in Seq(Message) /\ r = s \o more /\ Len(more) = 1 /\ more[1] = m
  BY <1>1
<1>3. /\ Len(s) \in Nat /\ Len(r) = Len(s) + 1
      /\ r[Len(s) + 1] = m /\ \A i \in 1 .. Len(s) : r[i] = s[i]
  BY <1>1, AppendAt
<1> HIDE DEF r, more
<1>4. \A c : \A k \in 1 .. Len(more) : more[k] # ToolResult(t, c)
  BY <1>1, <1>2, MessageFields
<1>5. \A c : /\ Holds(r, ToolResult(t, c)) => Holds(s, ToolResult(t, c))
             /\ \A i \in Nat : OnceAfter(s, i, ToolResult(t, c)) => OnceAfter(r, i, ToolResult(t, c))
  BY <1>2, <1>4, OnceKeeps
<1>6. \A c : Holds(s, ToolResult(t, c)) => c \in made
  BY MessageFields DEF Holds, OfCalls
<1> SUFFICES ASSUME NEW i \in 1 .. Len(r), r[i].turn = t, r[i].role = "assistant", NEW c \in r[i].calls
             PROVE  IF c \in calls THEN ~Holds(r, ToolResult(t, c)) ELSE OnceAfter(r, i, ToolResult(t, c))
  BY DEF Paired, r, m
<1>7. CASE i \in 1 .. Len(s)
  <2>1. i \in Nat /\ r[i] = s[i]
    BY <1>3, <1>7
  <2>2. OnceAfter(s, i, ToolResult(t, c))
    BY <1>7, <2>1 DEF Paired
  <2>3. c \notin calls
    BY <1>6, <2>2 DEF OnceAfter, Holds
  <2>4. QED
    BY <1>5, <2>1, <2>2, <2>3
<1>8. CASE i = Len(s) + 1
  <2>1. c \in calls
    BY <1>1, <1>3, <1>8
  <2>2. QED
    BY <1>5, <1>6, <2>1
<1>9. QED
  BY <1>3, <1>7, <1>8

\* The results of a batch, one for each call that waits.
LEMMA PairedResults ==
  ASSUME NEW s \in Seq(Message), NEW t \in Turns, Paired(s, t, Made(t))
  PROVE  Paired(s \o ResultsOf(t), t, {})
<1> DEFINE more == ResultsOf(t)
           r == s \o more
<1>1. /\ more \in Seq(Message)
      /\ \A i \in 1 .. Len(more) : \E c \in Made(t) : more[i] = ToolResult(t, c)
      /\ \A c \in Made(t) : \E i \in 1 .. Len(more) :
           /\ more[i] = ToolResult(t, c)
           /\ \A j \in 1 .. Len(more) : more[j] = ToolResult(t, c) => j = i
  BY ResultsAre
<1> HIDE DEF more
<1>2. /\ Len(s) \in Nat /\ Len(more) \in Nat /\ Len(r) = Len(s) + Len(more)
      /\ \A i \in 1 .. Len(s) : r[i] = s[i]
      /\ \A i \in 1 .. Len(more) : r[Len(s) + i] = more[i]
      /\ \A i \in 1 .. Len(r) :
           i \in 1 .. Len(s) \/ (i - Len(s) \in 1 .. Len(more) /\ r[i] = more[i - Len(s)])
  BY <1>1, ConcatAt
<1> SUFFICES ASSUME NEW i \in 1 .. Len(r), r[i].turn = t, r[i].role = "assistant", NEW c \in r[i].calls
             PROVE  OnceAfter(r, i, ToolResult(t, c))
  BY DEF Paired, r, more
<1> DEFINE m == ToolResult(t, c)
<1>3. \A k \in 1 .. Len(more) : more[k].role = "tool"
  BY <1>1, MessageFields
<1>4. i \in 1 .. Len(s) /\ r[i] = s[i]
  <2> HIDE DEF r
  <2>1. QED
    BY <1>2, <1>3
<1>5. IF c \in Made(t) THEN ~Holds(s, m) ELSE OnceAfter(s, i, m)
  BY <1>4 DEF Paired
<1>6. CASE c \in Made(t)
  <2> HIDE DEF r, m
  <2>1. PICK k \in 1 .. Len(more) : more[k] = m /\ \A j \in 1 .. Len(more) : more[j] = m => j = k
    BY <1>1, <1>6 DEF m
  <2> DEFINE n == Len(s) + k
  <2>2. n \in 1 .. Len(r) /\ i < n /\ r[n] = m
    BY <1>2, <1>4, <2>1
  <2>3. ASSUME NEW j \in 1 .. Len(r), r[j] = m PROVE j = n
    <3>1. j \notin 1 .. Len(s)
      BY <1>2, <1>5, <1>6, <2>3 DEF Holds
    <3>2. j - Len(s) \in 1 .. Len(more) /\ more[j - Len(s)] = m
      BY <1>2, <2>3, <3>1
    <3>3. j - Len(s) = k
      BY <2>1, <3>2
    <3>4. j \in Int /\ k \in Int /\ Len(s) \in Int
      BY <1>2
    <3>5. QED
      BY <3>3, <3>4
  <2> HIDE DEF n
  <2>4. QED
    BY <2>2, <2>3 DEF OnceAfter, m
<1>7. CASE c \notin Made(t)
  <2>1. \A k \in 1 .. Len(more) : more[k] # m
    <3> SUFFICES ASSUME NEW k \in 1 .. Len(more), more[k] = m PROVE FALSE
      OBVIOUS
    <3>1. PICK d \in Made(t) : more[k] = ToolResult(t, d)
      BY <1>1
    <3>2. ToolResult(t, c).calls = ToolResult(t, d).calls
      BY <3>1
    <3>3. c \in ToolResult(t, c).calls /\ ToolResult(t, d).calls = {d}
      BY MessageFields
    <3>4. c = d
      BY <3>2, <3>3
    <3>5. QED
      BY <1>7, <3>4
  <2>2. i \in Nat /\ OnceAfter(s, i, m)
    BY <1>2, <1>4, <1>5, <1>7
  <2> HIDE DEF m
  <2>3. OnceAfter(r, i, m)
    BY <1>1, <2>1, <2>2, OnceKeeps
  <2>4. QED
    BY <2>3 DEF m
<1>8. QED
  BY <1>6, <1>7

\* The calls of a turn whose results are not recorded yet.
Waiting(t) == IF turn[t].pc = "executing" THEN Made(t) ELSE {}

Whole(s, t) == HasQuestion(s, t) /\ Paired(s, t, {}) /\ HasAnswer(s, t)

\* The objects that will be saved yet: those that turns run on, and the one
\* for the lines to come.
Live(o) ==
  \/ \E u \in Turns : Running(u) /\ on[u] = o
  \/ o = Len(session) /\ \A u \in Turns : turn[u].pc # "saved"

\* What the object of a turn tells of it while it runs, and what the file and
\* the objects that will be saved tell of it when it is over.
Story(t) ==
  /\ turn[t].pc = "idle" => ~Tells(stored, t) /\ \A o \in 1 .. Len(session) : ~Tells(session[o], t)
  /\ Running(t) => HasQuestion(session[on[t]], t) /\ Paired(session[on[t]], t, Waiting(t))
  /\ turn[t].pc = "ending" => HasAnswer(session[on[t]], t)
  /\ turn[t].pc \in Concluded /\ t \notin crowded =>
       Whole(stored, t) /\ \A o \in 1 .. Len(session) : Live(o) => Whole(session[o], t)

StoryInv ==
  /\ OfCalls(stored, Begun) /\ \A o \in 1 .. Len(session) : OfCalls(session[o], Begun)
  /\ \A t \in Turns : Story(t)

\* The story of a turn after a step.
LEMMA NextStory ==
  ASSUME NEW t
  PROVE  Story(t)' <=>
         /\ turn'[t].pc = "idle" => ~Tells(stored', t) /\ \A o \in 1 .. Len(session') : ~Tells(session'[o], t)
         /\ Running(t)' => HasQuestion(session'[on'[t]], t) /\ Paired(session'[on'[t]], t, Waiting(t)')
         /\ turn'[t].pc = "ending" => HasAnswer(session'[on'[t]], t)
         /\ turn'[t].pc \in Concluded /\ t \notin crowded' =>
              Whole(stored', t) /\ \A o \in 1 .. Len(session') : Live(o)' => Whole(session'[o], t)
BY DEF Story, Whole, Tells, HasQuestion, HasAnswer, Paired, Holds, OnceAfter, Assistant, ToolResult

LEMMA OfCallsAppends ==
  ASSUME NEW s \in Seq(Message), NEW more \in Seq(Message), NEW calls, OfCalls(s, calls),
         \A i \in 1 .. Len(more) : more[i].role = "tool" => more[i].calls \subseteq calls
  PROVE  OfCalls(s \o more, calls)
<1> DEFINE r == s \o more
<1>1. /\ Len(s) \in Nat /\ Len(more) \in Nat
      /\ \A i \in 1 .. Len(s) : r[i] = s[i]
      /\ \A i \in 1 .. Len(r) :
           i \in 1 .. Len(s) \/ (i - Len(s) \in 1 .. Len(more) /\ r[i] = more[i - Len(s)])
  BY ConcatAt
<1> HIDE DEF r
<1>2. OfCalls(r, calls)
  BY <1>1 DEF OfCalls
<1>3. QED
  BY <1>2 DEF r

\* Nothing that was made is taken back.
LEMMA BegunGrows ==
  ASSUME NEW t \in Turns, Acts(t)
  PROVE  /\ Begun \subseteq Begun'
         /\ \/ Begun' = Begun
            \/ \E calls \in SUBSET Callable(t) : Callable(t) \cap Begun = {} /\ Begun' = Begun \cup calls
BY DEF Acts, Opens, Prepares, Tries, Concludes, CallsTools, GoesOn, GivesUp, Saves, Reloads, Fails

\* What messages of others leave.
LEMMA OthersAdd ==
  ASSUME NEW s \in Seq(Message), NEW more \in Seq(Message), NEW t, NEW u, u # t,
         \A i \in 1 .. Len(more) : ByTurn(t, more[i])
  PROVE  /\ HasQuestion(s, u) => HasQuestion(s \o more, u)
         /\ HasAnswer(s, u) => HasAnswer(s \o more, u)
         /\ ~Tells(s, u) => ~Tells(s \o more, u)
         /\ \A waiting : Paired(s, u, waiting) => Paired(s \o more, u, waiting)
         /\ Whole(s, u) => Whole(s \o more, u)
<1>1. \A i \in 1 .. Len(more) : more[i].turn # u
  BY DEF ByTurn
<1>2. /\ HasQuestion(s, u) => HasQuestion(s \o more, u)
      /\ HasAnswer(s, u) => HasAnswer(s \o more, u)
      /\ ~Tells(s, u) => ~Tells(s \o more, u)
  BY <1>1, TellsAppends
<1>3. \A waiting : Paired(s, u, waiting) => Paired(s \o more, u, waiting)
  BY <1>1, PairedAppends
<1>4. QED
  BY <1>2, <1>3 DEF Whole

\* What the file holds after a step: what it held, or the object of the turn.
LEMMA StoredIs ==
  ASSUME Histories, NEW t \in Turns, Acts(t)
  PROVE  \/ stored' = stored
         \/ Running(t) /\ on[t] \in 1 .. Len(session) /\ stored' \in {session[on[t]], session'[on[t]]}
<1>1. CASE Saves(t) \/ GivesUp(t)
  BY <1>1 DEF Saves, GivesUp, Stays, Goes, Histories, Running
<1>2. CASE ~(Saves(t) \/ GivesUp(t))
  BY <1>2 DEF Acts, Opens, Prepares, Tries, Concludes, CallsTools, GoesOn, Reloads, Fails
<1>3. QED
  BY <1>1, <1>2

\* An object that will be saved is one that would have been before, or one
\* that was just loaded.
LEMMA LiveBefore ==
  ASSUME Histories, NEW t \in Turns, Acts(t), NEW o \in 1 .. Len(session'), Live(o)'
  PROVE  \/ o \in 1 .. Len(session) /\ Live(o)
         \/ Reloads(t) /\ o = Len(session) + 1
<1>1. Len(session) \in Nat
  BY ObjectTypes
<1>2. IF Reloads(t) THEN Len(session') = Len(session) + 1 ELSE Len(session') = Len(session)
  BY ActsGrow
<1>3. ASSUME NEW u \in Turns, Running(u)', on'[u] = o
      PROVE  o \in 1 .. Len(session) /\ Live(o)
  <2>1. CASE u # t
    <3>1. turn'[u] = turn[u] /\ on'[u] = on[u]
      BY <2>1, ActsAlone
    <3>2. QED
      BY <1>3, <3>1 DEF Live, Running, Histories
  <2>2. CASE u = t /\ Opens(t)
    <3>1. on'[t] = Len(session) /\ \A v \in Turns : turn[v].pc # "saved"
      BY <2>2 DEF Opens, Histories
    <3>2. QED
      BY <1>3, <2>2, <3>1, ObjectTypes DEF Live
  <2>3. CASE u = t /\ ~Opens(t)
    <3>1. Running(t) /\ on' = on
      BY <1>3, <2>3 DEF Acts, Prepares, Tries, Concludes, CallsTools, GoesOn, GivesUp, Saves, Reloads, Fails,
         Stays, Goes, Running, RunPoints
    <3>2. QED
      BY <1>3, <2>3, <3>1 DEF Live, Histories
  <2>4. QED
    BY <2>1, <2>2, <2>3
<1>4. ASSUME o = Len(session'), \A u \in Turns : turn'[u].pc # "saved", ~Reloads(t)
      PROVE  o \in 1 .. Len(session) /\ Live(o)
  <2>1. turn[t].pc # "saved"
    BY <1>4 DEF Acts, Opens, Prepares, Tries, Concludes, CallsTools, GoesOn, GivesUp, Saves, Fails, Goes, RunPoints
  <2>2. \A u \in Turns : turn[u].pc # "saved"
    BY <1>4, <2>1, ActsAlone
  <2>3. QED
    BY <1>2, <1>4, <2>2, ObjectTypes DEF Live
<1>5. ASSUME o = Len(session'), Reloads(t)
      PROVE  o = Len(session) + 1
  BY <1>2, <1>5
<1>6. QED
  BY <1>3, <1>4, <1>5 DEF Live

\* Whatever a turn does, the story of another one stays as it is.
LEMMA OthersKeepStory ==
  ASSUME Histories, NEW t \in Turns, Acts(t), NEW u \in Turns \ {t}, Story(u),
         turn[u].pc = "executing" => Made(u) # {}
  PROVE  Story(u)'
<1>1. turn'[u] = turn[u] /\ on'[u] = on[u] /\ (u \in crowded' <=> u \in crowded)
  BY ActsAlone
<1>2. /\ stored \in Seq(Message) /\ Len(session) \in Nat
      /\ \A o \in 1 .. Len(session) : session[o] \in Seq(Message)
  BY ObjectTypes DEF Histories
<1>3. /\ \A o \in 1 .. Len(session) : \E more \in Seq(Message) :
           session'[o] = session[o] \o more /\ \A i \in 1 .. Len(more) : ByTurn(t, more[i])
      /\ IF Reloads(t) THEN Len(session') = Len(session) + 1 /\ session'[Len(session) + 1] = stored
                       ELSE Len(session') = Len(session)
  BY ActsGrow
<1>4. ASSUME NEW o \in 1 .. Len(session)
      PROVE  /\ HasQuestion(session[o], u) => HasQuestion(session'[o], u)
             /\ HasAnswer(session[o], u) => HasAnswer(session'[o], u)
             /\ ~Tells(session[o], u) => ~Tells(session'[o], u)
             /\ \A waiting : Paired(session[o], u, waiting) => Paired(session'[o], u, waiting)
             /\ Whole(session[o], u) => Whole(session'[o], u)
  <2>1. PICK more \in Seq(Message) :
          session'[o] = session[o] \o more /\ \A i \in 1 .. Len(more) : ByTurn(t, more[i])
    BY <1>3
  <2>2. QED
    BY <1>2, <2>1, OthersAdd
<1>5. \/ stored' = stored
      \/ Running(t) /\ on[t] \in 1 .. Len(session) /\ stored' \in {session[on[t]], session'[on[t]]}
  BY StoredIs
<1>6. turn'[u].pc = "idle" => ~Tells(stored', u) /\ \A o \in 1 .. Len(session') : ~Tells(session'[o], u)
  <2> SUFFICES ASSUME turn[u].pc = "idle"
               PROVE  ~Tells(stored', u) /\ \A o \in 1 .. Len(session') : ~Tells(session'[o], u)
    BY <1>1
  <2>1. ~Tells(stored, u) /\ \A o \in 1 .. Len(session) : ~Tells(session[o], u) /\ ~Tells(session'[o], u)
    BY <1>4 DEF Story
  <2>2. ~Tells(stored', u)
    BY <1>5, <2>1
  <2>3. ASSUME NEW o \in 1 .. Len(session') PROVE o \in 1 .. Len(session) \/ session'[o] = stored
    BY <1>2, <1>3
  <2>4. QED
    BY <2>1, <2>2, <2>3
<1>7. Running(u)' => HasQuestion(session'[on'[u]], u) /\ Paired(session'[on'[u]], u, Waiting(u)')
  <2> SUFFICES ASSUME Running(u)
               PROVE  HasQuestion(session'[on[u]], u) /\ Paired(session'[on[u]], u, Waiting(u)')
    BY <1>1 DEF Running
  <2> DEFINE waiting == Waiting(u)
  <2>1. Waiting(u)' = waiting
    <3>1. CASE turn[u].pc = "executing"
      <4>1. Made(u)' = Made(u)
        BY <1>1, <3>1, BegunGrows, MadeStays
      <4>2. QED
        BY <1>1, <3>1, <4>1 DEF Waiting
    <3>2. CASE turn[u].pc # "executing"
      BY <1>1, <3>2 DEF Waiting
    <3>3. QED
      BY <3>1, <3>2
  <2>2. HasQuestion(session[on[u]], u) /\ Paired(session[on[u]], u, waiting)
    BY DEF Story
  <2> HIDE DEF waiting
  <2>3. on[u] \in 1 .. Len(session)
    BY DEF Histories
  <2>4. QED
    BY <1>4, <2>1, <2>2, <2>3
<1>8. turn'[u].pc = "ending" => HasAnswer(session'[on'[u]], u)
  <2> SUFFICES ASSUME turn[u].pc = "ending" PROVE HasAnswer(session'[on[u]], u)
    BY <1>1
  <2>1. on[u] \in 1 .. Len(session)
    BY DEF Histories, Running
  <2>2. QED
    BY <1>4, <2>1 DEF Story
<1>9. turn'[u].pc \in Concluded /\ u \notin crowded' =>
        Whole(stored', u) /\ \A o \in 1 .. Len(session') : Live(o)' => Whole(session'[o], u)
  <2> SUFFICES ASSUME turn[u].pc \in Concluded, u \notin crowded
               PROVE  Whole(stored', u) /\ \A o \in 1 .. Len(session') : Live(o)' => Whole(session'[o], u)
    BY <1>1
  <2>1. Whole(stored, u) /\ \A o \in 1 .. Len(session) : Live(o) => Whole(session[o], u)
    BY DEF Story
  <2>2. Whole(stored', u)
    <3>1. ASSUME Running(t), on[t] \in 1 .. Len(session) PROVE Whole(session[on[t]], u) /\ Whole(session'[on[t]], u)
      BY <1>4, <2>1, <3>1 DEF Live
    <3>2. QED
      BY <1>5, <2>1, <3>1
  <2>3. ASSUME NEW o \in 1 .. Len(session'), Live(o)' PROVE Whole(session'[o], u)
    <3>1. CASE o \in 1 .. Len(session) /\ Live(o)
      BY <1>4, <2>1, <3>1
    <3>2. CASE Reloads(t) /\ o = Len(session) + 1
      BY <1>3, <2>1, <3>2
    <3>3. QED
      BY <2>3, <3>1, <3>2, LiveBefore
  <2>4. QED
    BY <2>2, <2>3
<1>10. QED
  BY <1>6, <1>7, <1>8, <1>9, NextStory

\* What the object of the turn that moves tells of it then.
LEMMA OwnObject ==
  ASSUME Histories, \A o \in 1 .. Len(session) : OfCalls(session[o], Begun),
         NEW t \in Turns, Acts(t), ~Reloads(t), Story(t)
  PROVE  /\ turn'[t].pc # "idle"
         /\ Running(t)' \/ turn'[t].pc \in {"saved", "gaveUp"} =>
              HasQuestion(session'[on'[t]], t) /\ Paired(session'[on'[t]], t, Waiting(t)')
         /\ turn'[t].pc \in {"ending", "saved", "gaveUp"} => HasAnswer(session'[on'[t]], t)
<1> DEFINE own == IF turn[t].pc = "idle" THEN Len(session) ELSE on[t]
           s == session[own]
           next == session'[own]
<1>1. turn[t].pc = "idle" \/ Running(t)
  BY DEF Acts, Opens, Prepares, Tries, Concludes, CallsTools, GoesOn, GivesUp, Saves, Fails, Goes, Running, RunPoints
<1>2. own \in 1 .. Len(session) /\ s \in Seq(Message) /\ OfCalls(s, Begun)
  BY <1>1, ObjectTypes DEF Histories
<1>3. on'[t] = own
  <2>1. CASE Opens(t)
    BY <2>1 DEF Opens, Goes, Histories
  <2>2. CASE ~Opens(t)
    <3>1. on' = on
      BY <2>2 DEF Acts, Prepares, Tries, Concludes, CallsTools, GoesOn, GivesUp, Saves, Fails, Stays
    <3>2. turn[t].pc # "idle"
      BY <2>2 DEF Acts, Prepares, Tries, Concludes, CallsTools, GoesOn, GivesUp, Saves, Fails, Goes, RunPoints
    <3>3. QED
      BY <3>1, <3>2
  <2>3. QED
    BY <2>1, <2>2
<1>4. /\ turn[t].pc = "idle" => ~Tells(s, t)
      /\ Running(t) => HasQuestion(s, t) /\ Paired(s, t, Waiting(t))
      /\ turn[t].pc = "ending" => HasAnswer(s, t)
  BY <1>2 DEF Story, Running
<1>5. ASSUME NEW more \in Seq(Message), Adds(own, more) PROVE next = s \o more
  BY <1>5, AddsIs
<1> HIDE DEF own, s, next
<1>6. ASSUME NEW m \in Message, Adds(own, <<m>>) PROVE next = Append(s, m)
  BY <1>2, <1>5, <1>6, AppendsOne
<1>7. UNCHANGED session => next = s
  BY DEF next, s
<1>8. ASSUME NEW q \in Seq(Message), NEW m \in Message, NEW waiting, Paired(q, t, waiting),
             m.role # "tool", m.role = "assistant" => m.calls = {}
      PROVE  Paired(Append(q, m), t, waiting)
  <2> DEFINE one == <<m>>
  <2>1. Append(q, m) = q \o one /\ one \in Seq(Message) /\ Len(one) = 1 /\ one[1] = m
    BY AppendsOne
  <2> HIDE DEF one
  <2>2. QED
    BY <1>8, <2>1, PairedAppends
<1>9. ASSUME NEW q \in Seq(Message), NEW m \in Message
      PROVE  /\ HasQuestion(q, t) \/ (m.turn = t /\ m.role = "user") => HasQuestion(Append(q, m), t)
             /\ HasAnswer(q, t) \/ m = Assistant(t, {}) => HasAnswer(Append(q, m), t)
  <2> DEFINE one == <<m>>
  <2>1. Append(q, m) = q \o one /\ one \in Seq(Message)
    BY AppendsOne
  <2> HIDE DEF one
  <2>2. HasQuestion(q, t) => HasQuestion(Append(q, m), t)
    BY <2>1, TellsAppends
  <2>3. Holds(Append(q, m), m) /\ \A x : Holds(q, x) => Holds(Append(q, m), x)
    BY HoldsAppend
  <2>4. QED
    BY <2>2, <2>3 DEF HasQuestion, HasAnswer, Holds
<1>10. /\ \A size \in SizesOf[t] :
            User(t, size) \in Message /\ User(t, size).turn = t /\ User(t, size).role = "user"
       /\ Assistant(t, {}) \in Message /\ Assistant(t, {}).role = "assistant" /\ Assistant(t, {}).calls = {}
       /\ \A calls \in SUBSET Calls : Assistant(t, calls) \in Message
  BY MessageTypes, MessageFields
<1> DEFINE Goal ==
         /\ turn'[t].pc # "idle"
         /\ Running(t)' \/ turn'[t].pc \in {"saved", "gaveUp"} =>
              HasQuestion(next, t) /\ Paired(next, t, Waiting(t)')
         /\ turn'[t].pc \in {"ending", "saved", "gaveUp"} => HasAnswer(next, t)
<1>11. turn'[t].pc # "executing" => Waiting(t)' = {}
  BY DEF Waiting
<1>12. turn[t].pc # "executing" => Waiting(t) = {}
  BY DEF Waiting
<1>13. CASE Opens(t)
  <2>1. Paired(s, t, {}) /\ own = Len(session)
    BY <1>4, <1>13 DEF Opens, Goes, Tells, Paired, own
  <2>2. PICK size \in SizesOf[t] : Adds(own, <<User(t, size)>>)
    BY <1>13, <2>1 DEF Opens
  <2>3. User(t, size).role = "user" /\ User(t, size) \in Message /\ User(t, size).turn = t
    BY <1>10
  <2>4. HasQuestion(next, t) /\ Paired(next, t, {})
    BY <1>2, <1>6, <1>8, <1>9, <2>1, <2>2, <2>3
  <2>5. turn'[t].pc \in {"preparing", "failed"}
    BY <1>13 DEF Opens, Goes
  <2>6. Goal
    BY <1>11, <2>4, <2>5
  <2>7. QED
    BY <1>3, <2>6 DEF next
<1>14. CASE Prepares(t) \/ Tries(t)
  <2>1. /\ session' = session /\ turn[t].pc \in {"preparing", "reading", "chatting"}
        /\ turn'[t].pc \in {"reading", "chatting"}
    BY <1>14 DEF Prepares, Tries, Goes
  <2>2. HasQuestion(s, t) /\ Paired(s, t, {})
    BY <1>4, <1>12, <2>1 DEF Running
  <2>3. Goal
    BY <1>7, <1>11, <2>1, <2>2
  <2>4. QED
    BY <1>3, <2>3 DEF next
<1>15. CASE Concludes(t)
  <2>1. /\ Adds(own, <<Assistant(t, {})>>) /\ turn[t].pc \in {"reading", "chatting"}
        /\ turn'[t].pc = "ending"
    BY <1>15 DEF Concludes, Goes, own
  <2>2. HasQuestion(s, t) /\ Paired(s, t, {})
    BY <1>4, <1>12, <2>1 DEF Running
  <2>3. next = Append(s, Assistant(t, {}))
    BY <1>6, <1>10, <2>1
  <2>4. HasQuestion(next, t) /\ Paired(next, t, {}) /\ HasAnswer(next, t)
    BY <1>2, <1>8, <1>9, <1>10, <2>2, <2>3
  <2>5. Goal
    BY <1>11, <2>1, <2>4
  <2>6. QED
    BY <1>3, <2>5 DEF next
<1>16. ASSUME NEW calls \in SUBSET Calls, CallsTools(t, calls)
       PROVE  Goal
  <2>1. /\ Adds(own, <<Assistant(t, calls)>>) /\ turn[t].pc \in {"reading", "chatting"}
        /\ turn'[t].pc = "executing" /\ calls \cap Begun = {}
    BY <1>16 DEF CallsTools, Goes, own
  <2>2. HasQuestion(s, t) /\ Paired(s, t, {})
    BY <1>4, <1>12, <2>1 DEF Running
  <2>3. next = Append(s, Assistant(t, calls))
    BY <1>6, <1>10, <2>1
  <2>4. HasQuestion(next, t) /\ Paired(next, t, calls)
    BY <1>2, <1>9, <1>10, <2>1, <2>2, <2>3, PairedCalls
  <2>5. Waiting(t)' = calls
    <3>1. Callable(t)' = Callable(t) /\ calls \subseteq Callable(t) /\ Callable(t) \cap Begun = {} /\ Begun' = Begun \cup calls
      BY <1>16, CallableStays DEF CallsTools
    <3>2. Made(t)' = Callable(t)' \cap Begun'
      BY DEF Made, Callable, Begun
    <3>3. QED
      BY <2>1, <3>1, <3>2 DEF Waiting
  <2>6. QED
    BY <2>1, <2>4, <2>5
<1>17. ASSUME turn[t].pc = "executing"
       PROVE  LET more == s \o ResultsOf(t) IN
              more \in Seq(Message) /\ HasQuestion(more, t) /\ Paired(more, t, {})
  <2>1. HasQuestion(s, t) /\ Paired(s, t, Made(t))
    BY <1>4, <1>17 DEF Running, Waiting
  <2>2. ResultsOf(t) \in Seq(Message)
    BY ResultsAre
  <2>3. s \o ResultsOf(t) \in Seq(Message)
    BY <1>2, <2>2, ConcatType
  <2>4. QED
    BY <1>2, <2>1, <2>2, <2>3, PairedResults, TellsAppends
<1>18. CASE GoesOn(t)
  <2>1. /\ Adds(own, ResultsOf(t)) /\ turn[t].pc = "executing"
        /\ turn'[t].pc \in {"reading", "chatting"}
    BY <1>18 DEF GoesOn, Goes, own
  <2>2. next = s \o ResultsOf(t)
    BY <1>5, <2>1, ResultsAre
  <2>3. Goal
    BY <1>11, <1>17, <2>1, <2>2
  <2>4. QED
    BY <1>3, <2>3 DEF next
<1>19. CASE GivesUp(t)
  <2> DEFINE more == s \o ResultsOf(t)
  <2>1. /\ Adds(own, Append(ResultsOf(t), Assistant(t, {}))) /\ turn[t].pc = "executing"
        /\ turn'[t].pc \in {"gaveUp", "failed"}
    BY <1>19 DEF GivesUp, Goes, own
  <2>2. more \in Seq(Message) /\ HasQuestion(more, t) /\ Paired(more, t, {})
    BY <1>17, <2>1
  <2>3. next = Append(more, Assistant(t, {}))
    <3>1. next = s \o Append(ResultsOf(t), Assistant(t, {}))
      BY <1>5, <2>1, ResultsByTurn
    <3>2. QED
      BY <1>2, <1>10, <3>1, ResultsAre, ConcatAppend
  <2> HIDE DEF more
  <2>4. HasQuestion(next, t) /\ Paired(next, t, {}) /\ HasAnswer(next, t)
    BY <1>8, <1>9, <1>10, <2>2, <2>3
  <2>5. Goal
    BY <1>11, <2>1, <2>4
  <2>6. QED
    BY <1>3, <2>5 DEF next
<1>20. CASE Saves(t)
  <2>1. session' = session /\ turn[t].pc = "ending" /\ turn'[t].pc = "saved"
    BY <1>20 DEF Saves, Goes
  <2>2. HasQuestion(s, t) /\ Paired(s, t, {}) /\ HasAnswer(s, t)
    BY <1>4, <1>12, <2>1 DEF Running
  <2>3. Goal
    BY <1>7, <1>11, <2>1, <2>2
  <2>4. QED
    BY <1>3, <2>3 DEF next
<1>21. CASE Fails(t)
  <2>1. turn'[t].pc = "failed"
    BY <1>21 DEF Fails, Goes
  <2>2. Goal
    BY <2>1 DEF Running
  <2>3. QED
    BY <1>3, <2>2 DEF next
<1>22. QED
  <2>1. Goal => /\ turn'[t].pc # "idle"
                /\ Running(t)' \/ turn'[t].pc \in {"saved", "gaveUp"} =>
                     HasQuestion(session'[on'[t]], t) /\ Paired(session'[on'[t]], t, Waiting(t)')
                /\ turn'[t].pc \in {"ending", "saved", "gaveUp"} => HasAnswer(session'[on'[t]], t)
    BY <1>3 DEF next
  <2> HIDE DEF Goal
  <2>2. QED
    BY <1>13, <1>14, <1>15, <1>16, <1>18, <1>19, <1>20, <1>21, <2>1 DEF Acts

\* The story of the turn that moves.
LEMMA OwnStory ==
  ASSUME Histories, \A o \in 1 .. Len(session) : OfCalls(session[o], Begun),
         NEW t \in Turns, Acts(t), Story(t)
  PROVE  Story(t)'
<1>1. CASE Reloads(t)
  <2>1. /\ turn[t].pc = "saved" /\ turn'[t].pc = "answered" /\ crowded' = crowded /\ stored' = stored
        /\ session' = Append(session, stored)
    BY <1>1 DEF Reloads, Goes
  <2>2. session \in Seq(Seq(Message)) /\ Len(session) \in Nat
    BY ObjectTypes DEF Histories
  <2>3. session'[Len(session) + 1] = stored /\ \A o \in 1 .. Len(session) : session'[o] = session[o]
    BY <2>1, <2>2
  <2>4. ASSUME t \notin crowded
        PROVE  Whole(stored, t) /\ \A o \in 1 .. Len(session') : Live(o)' => Whole(session'[o], t)
    <3>1. Whole(stored, t) /\ \A o \in 1 .. Len(session) : Live(o) => Whole(session[o], t)
      BY <2>1, <2>4 DEF Story, Concluded
    <3>2. \A o \in 1 .. Len(session') : Live(o)' => (o \in 1 .. Len(session) /\ Live(o)) \/ o = Len(session) + 1
      BY LiveBefore
    <3>3. QED
      BY <2>3, <3>1, <3>2
  <2>5. QED
    BY <2>1, <2>4, NextStory DEF Running
<1>2. CASE ~Reloads(t)
  <2>1. /\ turn'[t].pc # "idle"
        /\ Running(t)' \/ turn'[t].pc \in {"saved", "gaveUp"} =>
             HasQuestion(session'[on'[t]], t) /\ Paired(session'[on'[t]], t, Waiting(t)')
        /\ turn'[t].pc \in {"ending", "saved", "gaveUp"} => HasAnswer(session'[on'[t]], t)
    BY <1>2, OwnObject
  <2>2. ASSUME turn'[t].pc \in Concluded, t \notin crowded'
        PROVE  Whole(stored', t) /\ \A o \in 1 .. Len(session') : Live(o)' => Whole(session'[o], t)
    <3>1. Saves(t) \/ GivesUp(t)
      BY <1>2, <2>2 DEF Acts, Opens, Prepares, Tries, Concludes, CallsTools, GoesOn, Fails, Goes, Concluded
    <3>2. /\ on' = on /\ stored' = session'[on[t]] /\ ~Crowded(t)
          /\ turn'[t].pc = "saved" \/ (turn'[t].pc = "gaveUp" /\ on[t] = Len(session))
      BY <2>2, <3>1 DEF Saves, GivesUp, Stays, Goes, Concluded
    <3>3. Waiting(t)' = {}
      BY <3>2 DEF Waiting
    <3>4. Whole(session'[on[t]], t)
      BY <2>1, <3>2, <3>3 DEF Whole
    <3>5. ASSUME NEW o \in 1 .. Len(session'), Live(o)' PROVE o = on[t]
      <4>1. ASSUME NEW u \in Turns, Running(u)', on'[u] = o PROVE o = on[t]
        <5>1. u # t
          BY <3>2, <4>1 DEF Running
        <5>2. Running(u) /\ on[u] = o
          BY <4>1, <5>1, ActsAlone DEF Running
        <5>3. QED
          BY <3>2, <5>1, <5>2 DEF Crowded
      <4>2. ASSUME o = Len(session'), \A u \in Turns : turn'[u].pc # "saved" PROVE o = on[t]
        BY <1>2, <3>2, <4>2, ActsGrow
      <4>3. QED
        BY <3>5, <4>1, <4>2 DEF Live
    <3>6. QED
      BY <3>2, <3>4, <3>5
  <2>3. QED
    BY <2>1, <2>2, NextStory
<1>3. QED
  BY <1>1, <1>2

LEMMA StoryStep == LoopInv /\ ReplyInv /\ StoryInv /\ [TurnNext]_allVars => StoryInv'
<1> SUFFICES ASSUME LoopInv, ReplyInv, StoryInv, [TurnNext]_allVars PROVE StoryInv'
  OBVIOUS
<1>1. /\ Histories /\ stored \in Seq(Message) /\ Len(session) \in Nat
      /\ \A o \in 1 .. Len(session) : session[o] \in Seq(Message)
  BY ObjectTypes DEF LoopInv, Histories
<1>2. CASE UNCHANGED turnVars /\ Begun' = Begun
  <2>1. \A t \in Turns : Waiting(t)' = Waiting(t)
    BY <1>2 DEF Waiting, Made, Callable, Begun, turnVars
  <2>2. ASSUME NEW t \in Turns PROVE Story(t)'
    <3> DEFINE waiting == Waiting(t)
    <3>1. /\ Waiting(t)' = waiting /\ turn' = turn /\ session' = session /\ stored' = stored
          /\ on' = on /\ crowded' = crowded
      BY <1>2, <2>1 DEF turnVars
    <3>2. Story(t)
      BY DEF StoryInv
    <3>3. (Running(t)' <=> Running(t)) /\ \A o : Live(o)' <=> Live(o)
      BY <3>1 DEF Running, Live
    <3>4. /\ turn[t].pc = "idle" => ~Tells(stored, t) /\ \A o \in 1 .. Len(session) : ~Tells(session[o], t)
          /\ Running(t) => HasQuestion(session[on[t]], t) /\ Paired(session[on[t]], t, waiting)
          /\ turn[t].pc = "ending" => HasAnswer(session[on[t]], t)
          /\ turn[t].pc \in Concluded /\ t \notin crowded =>
               Whole(stored, t) /\ \A o \in 1 .. Len(session) : Live(o) => Whole(session[o], t)
      BY <3>2 DEF Story
    <3> HIDE DEF waiting
    <3>5. QED
      BY <3>1, <3>3, <3>4, NextStory
  <2>3. QED
    BY <1>2, <2>2 DEF StoryInv, OfCalls, turnVars
<1>3. CASE Crashes
  <2>1. session' = <<stored>> /\ stored' = stored /\ crowded' = crowded /\ Begun' = Begun
    BY <1>3 DEF Crashes
  <2>2. \A o \in 1 .. Len(session') : session'[o] = stored
    BY <2>1
  <2>3. ASSUME NEW t \in Turns PROVE Story(t)'
    <3>1. ~Running(t)' /\ (turn'[t].pc = "idle" => turn[t].pc = "idle")
          /\ (turn'[t].pc \in Concluded => turn[t].pc \in Concluded) /\ turn'[t].pc # "ending"
      BY <1>3 DEF Crashes, Running, Concluded
    <3>2. turn[t].pc = "idle" => ~Tells(stored, t)
      BY DEF StoryInv, Story
    <3>3. turn[t].pc \in Concluded /\ t \notin crowded => Whole(stored, t)
      BY DEF StoryInv, Story
    <3>4. QED
      BY <2>1, <2>2, <3>1, <3>2, <3>3, NextStory
  <2>4. OfCalls(stored, Begun)' /\ \A o \in 1 .. Len(session') : OfCalls(session'[o], Begun')
    BY <2>1, <2>2 DEF StoryInv, OfCalls
  <2>5. QED
    BY <2>3, <2>4 DEF StoryInv, OfCalls
<1>4. ASSUME NEW t \in Turns, Acts(t)
      PROVE  StoryInv'
  <2>1. Begun \subseteq Begun'
    BY <1>4, BegunGrows
  <2>2. ASSUME NEW s, OfCalls(s, Begun) PROVE OfCalls(s, Begun')
    BY <2>1, <2>2 DEF OfCalls
  <2>3. ASSUME NEW o \in 1 .. Len(session) PROVE OfCalls(session'[o], Begun)
    <3>1. PICK more \in Seq(Message) :
            session'[o] = session[o] \o more /\ \A i \in 1 .. Len(more) : ByTurn(t, more[i])
      BY <1>1, <1>4, ActsGrow
    <3>2. QED
      BY <1>1, <3>1, OfCallsAppends DEF ByTurn, StoryInv
  <2>4. ASSUME NEW o \in 1 .. Len(session') PROVE o \in 1 .. Len(session) \/ session'[o] = stored
    BY <1>1, <1>4, ActsGrow
  <2>5. OfCalls(stored', Begun')
    BY <1>1, <1>4, <2>2, <2>3, StoredIs DEF StoryInv
  <2>6. \A o \in 1 .. Len(session') : OfCalls(session'[o], Begun')
    BY <2>2, <2>3, <2>4 DEF StoryInv
  <2>7. ASSUME NEW u \in Turns \ {t} PROVE Story(u)'
    BY <1>1, <1>4, OthersKeepStory DEF StoryInv, ReplyInv, Waits
  <2>8. Story(t)'
    BY <1>1, <1>4, OwnStory DEF StoryInv
  <2>9. QED
    BY <2>5, <2>6, <2>7, <2>8 DEF StoryInv, OfCalls
<1>5. QED
  BY <1>2, <1>3, <1>4, TurnActs

LEMMA StoryStart == TurnInit => StoryInv
BY DEF TurnInit, StoryInv, Story, Tells, OfCalls, NotAsked, Concluded, Running

\* A turn that is over stays in the file of the session, with one result after
\* each of its calls, whatever others save, load, fail at or die of after it;
\* unless another turn ran on another Session object when it ended, or it gave
\* up on an object that was not the chat's last one any more.
THEOREM EndedTurnsAreStored == TurnSpec => []EndedTurnsStored
<1>1. ASSUME LoopInv, StoryInv PROVE EndedTurnsStored
  <2> SUFFICES ASSUME NEW t \in Turns, turn[t].pc \in Concluded, t \notin crowded
               PROVE  /\ \E i \in DOMAIN stored : stored[i].turn = t /\ stored[i].role = "user"
                      /\ \E i \in DOMAIN stored : stored[i] = Assistant(t, {})
                      /\ \A i \in DOMAIN stored :
                           stored[i].turn = t /\ stored[i].role = "assistant" =>
                             \A c \in stored[i].calls :
                               Cardinality({j \in DOMAIN stored : j > i /\ stored[j] = ToolResult(t, c)}) = 1
    BY DEF EndedTurnsStored
  <2>1. stored \in Seq(Message) /\ Whole(stored, t)
    BY <1>1 DEF LoopInv, Histories, StoryInv, Story
  <2>2. DOMAIN stored = 1 .. Len(stored) /\ Len(stored) \in Nat
    BY <2>1
  <2>3. ASSUME NEW i \in 1 .. Len(stored), stored[i].turn = t, stored[i].role = "assistant",
               NEW c \in stored[i].calls
        PROVE  Cardinality({j \in 1 .. Len(stored) : j > i /\ stored[j] = ToolResult(t, c)}) = 1
    <3> DEFINE m == ToolResult(t, c)
    <3>1. OnceAfter(stored, i, m)
      BY <2>1, <2>3 DEF Whole, Paired
    <3> HIDE DEF m
    <3>2. PICK j \in 1 .. Len(stored) : i < j /\ stored[j] = m /\ \A k \in 1 .. Len(stored) : stored[k] = m => k = j
      BY <3>1 DEF OnceAfter
    <3>3. {k \in 1 .. Len(stored) : k > i /\ stored[k] = m} = {j}
      BY <2>2, <3>2
    <3>4. QED
      BY <3>3, FS_Singleton DEF m
  <2>4. QED
    BY <2>1, <2>2, <2>3 DEF Whole, HasQuestion, HasAnswer, Holds
<1>2. QED
  BY <1>1, ReplyStart, ReplyStep, StoryStart, StoryStep, LoopInvariant, PTL DEF TurnSpec

-----------------------------------------------------------------------------

\* What holds at the end, and below whatever it holds above of, holds.
LEMMA Downwards ==
  ASSUME NEW lo \in Nat, NEW hi \in Nat, lo <= hi, NEW Good, hi \in Good,
         \A i \in lo .. hi - 1 : i + 1 \in Good => i \in Good
  PROVE  \A i \in lo .. hi : i \in Good
<1> DEFINE S == {i \in lo .. hi : \A j \in i .. hi : j \in Good}
<1>1. S \in SUBSET Nat /\ hi \in S
  OBVIOUS
<1>2. PICK m \in S : \A i \in S : m <= i
  <2> HIDE DEF S
  <2>1. QED
    BY <1>1, LeastNatural
<1>3. m \in lo .. hi /\ \A j \in m .. hi : j \in Good
  OBVIOUS
<1>4. m = lo
  <2> SUFFICES ASSUME m # lo PROVE FALSE
    OBVIOUS
  <2> DEFINE n == m - 1
  <2>1. n \in lo .. hi - 1 /\ n + 1 = m /\ n < m /\ n \in lo .. hi /\ \A j \in n .. hi : j = n \/ j \in m .. hi
    BY <1>3
  <2>2. n \in Good
    BY <1>3, <2>1
  <2>3. n \in S
    BY <1>3, <2>1, <2>2
  <2> HIDE DEF n, S
  <2>4. m <= n
    BY <1>2, <2>3
  <2>5. QED
    BY <1>3, <2>1, <2>4
<1>5. QED
  BY <1>3, <1>4

\* What truncateMessages adds up: a function that is what it says.
LEMMA ContentsDef ==
  ASSUME NEW s, Len(s) \in Nat
  PROVE  /\ ContentsFrom(s)[Len(s) + 1] = 0
         /\ \A i \in 1 .. Len(s) : ContentsFrom(s)[i] = s[i].size + ContentsFrom(s)[i + 1]
<1> DEFINE n == Len(s)
           Sums(g, k) == \A i \in k .. n + 1 : g[i] = IF i > n THEN 0 ELSE s[i].size + g[i + 1]
           Summed == {k \in 1 .. n + 1 : \E g : Sums(g, k)}
<1> HIDE DEF n
<1>1. n \in Nat /\ 1 <= n + 1 /\ n + 1 \in Nat
  BY DEF n
<1>2. n + 1 \in Summed
  <2> DEFINE g == [i \in 1 .. n + 1 |-> 0]
  <2>1. \A i \in n + 1 .. n + 1 : i > n /\ g[i] = 0
    BY <1>1
  <2> HIDE DEF g
  <2>2. Sums(g, n + 1)
    BY <2>1
  <2>3. QED
    BY <1>1, <2>2
<1>3. ASSUME NEW k \in 1 .. (n + 1) - 1, k + 1 \in Summed PROVE k \in Summed
  <2>1. PICK g : Sums(g, k + 1)
    BY <1>3
  <2> DEFINE h == [i \in 1 .. n + 1 |-> IF i = k THEN s[k].size + g[k + 1] ELSE g[i]]
  <2>2. /\ k \in Nat /\ ~(k > n) /\ k \in 1 .. n + 1 /\ k # k + 1 /\ k + 1 \in k + 1 .. n + 1
        /\ \A i \in k .. n + 1 : i = k \/ i \in k + 1 .. n + 1
        /\ \A i \in k + 1 .. n + 1 : i # k /\ i + 1 # k /\ i \in 1 .. n + 1 /\ (~(i > n) => i + 1 \in k + 1 .. n + 1)
    BY <1>1
  <2>3. h[k] = s[k].size + g[k + 1] /\ \A i \in k + 1 .. n + 1 : h[i] = g[i]
    BY <2>2
  <2> HIDE DEF h
  <2>4. \A i \in k + 1 .. n + 1 : h[i] = IF i > n THEN 0 ELSE s[i].size + h[i + 1]
    BY <2>1, <2>2, <2>3
  <2>5. h[k] = IF k > n THEN 0 ELSE s[k].size + h[k + 1]
    BY <2>2, <2>3
  <2>6. Sums(h, k)
    BY <2>2, <2>4, <2>5
  <2>7. QED
    BY <2>2, <2>6
<1>4. 1 \in Summed
  <2> HIDE DEF Summed
  <2>1. \A i \in 1 .. n + 1 : i \in Summed
    BY <1>1, <1>2, <1>3, Downwards
  <2>2. QED
    BY <1>1, <2>1
<1>5. \E f : f = [i \in 1 .. n + 1 |-> IF i > n THEN 0 ELSE s[i].size + f[i + 1]]
  <2>1. PICK g : Sums(g, 1)
    BY <1>4
  <2> DEFINE f == [i \in 1 .. n + 1 |-> g[i]]
  <2>2. \A i \in 1 .. n + 1 : ~(i > n) => i + 1 \in 1 .. n + 1
    BY <1>1
  <2>3. f = [i \in 1 .. n + 1 |-> IF i > n THEN 0 ELSE s[i].size + f[i + 1]]
    BY <2>1, <2>2
  <2>4. QED
    BY <2>3
<1>6. ContentsFrom(s) = [i \in 1 .. n + 1 |-> IF i > n THEN 0 ELSE s[i].size + ContentsFrom(s)[i + 1]]
  BY <1>5 DEF ContentsFrom, n
<1>7. /\ ContentsFrom(s)[n + 1] = 0
      /\ \A i \in 1 .. n : ContentsFrom(s)[i] = s[i].size + ContentsFrom(s)[i + 1]
  BY <1>1, <1>6
<1>8. QED
  BY <1>7 DEF n

LEMMA ContentsNat ==
  ASSUME NEW s \in Seq(Message)
  PROVE  \A i \in 1 .. Len(s) + 1 : ContentsFrom(s)[i] \in Nat
<1> DEFINE Good == {i \in 1 .. Len(s) + 1 : ContentsFrom(s)[i] \in Nat}
<1>1. /\ Len(s) \in Nat /\ Len(s) + 1 \in Nat /\ 1 <= Len(s) + 1
      /\ \A i \in 1 .. Len(s) : s[i] \in Message
  OBVIOUS
<1>2. \A m \in Message : m.size \in Nat
  <2>1. (UNION Range(SizesOf)) \cup {0, 1, ResultSize} \subseteq Nat
    BY TurnAssumption DEF Range
  <2>2. QED
    BY <2>1 DEF Message
<1>3. Len(s) + 1 \in Good
  BY <1>1, ContentsDef
<1>4. ASSUME NEW i \in 1 .. (Len(s) + 1) - 1, i + 1 \in Good PROVE i \in Good
  <2>1. i \in 1 .. Len(s) /\ i \in 1 .. Len(s) + 1
    BY <1>1
  <2>2. ContentsFrom(s)[i] = s[i].size + ContentsFrom(s)[i + 1] /\ s[i].size \in Nat
    BY <1>1, <1>2, <2>1, ContentsDef
  <2>3. QED
    BY <1>4, <2>1, <2>2
<1>5. \A i \in 1 .. Len(s) + 1 : i \in Good
  <2> HIDE DEF Good
  <2>1. QED
    BY <1>1, <1>3, <1>4, Downwards
<1>6. QED
  BY <1>5

\* The longer the tail, the more contents.
LEMMA ContentsGrow ==
  ASSUME NEW s \in Seq(Message), NEW j \in 1 .. Len(s) + 1
  PROVE  \A i \in 1 .. j : ContentsFrom(s)[j] <= ContentsFrom(s)[i]
<1> DEFINE Good == {i \in 1 .. j : ContentsFrom(s)[j] <= ContentsFrom(s)[i]}
<1>1. Len(s) \in Nat /\ j \in Nat /\ 1 <= j /\ \A i \in 1 .. Len(s) + 1 : ContentsFrom(s)[i] \in Nat
  BY ContentsNat
<1>2. j \in Good
  BY <1>1
<1>3. ASSUME NEW i \in 1 .. j - 1, i + 1 \in Good PROVE i \in Good
  <2>1. i \in 1 .. Len(s) /\ i \in 1 .. Len(s) + 1 /\ i + 1 \in 1 .. Len(s) + 1 /\ i \in 1 .. j
    BY <1>1
  <2>2. ContentsFrom(s)[i] = s[i].size + ContentsFrom(s)[i + 1]
    BY <1>1, <2>1, ContentsDef
  <2>3. s[i].size \in Nat
    <3>1. s[i] \in Message
      BY <2>1
    <3>2. (UNION Range(SizesOf)) \cup {0, 1, ResultSize} \subseteq Nat
      BY TurnAssumption DEF Range
    <3>3. QED
      BY <3>1, <3>2 DEF Message
  <2>4. QED
    BY <1>1, <1>3, <2>1, <2>2, <2>3
<1>4. \A i \in 1 .. j : i \in Good
  <2> HIDE DEF Good
  <2>1. QED
    BY <1>1, <1>2, <1>3, Downwards
<1>5. QED
  BY <1>4

\* What a tail contains is what was added up to its start.
LEMMA ContentsOfSuffix ==
  ASSUME NEW s \in Seq(Message), NEW from \in 1 .. Len(s) + 1
  PROVE  /\ Contents(Suffix(s, from)) = ContentsFrom(s)[from]
         /\ \A i \in 1 .. Len(Suffix(s, from)) + 1 :
              ContentsFrom(Suffix(s, from))[i] = ContentsFrom(s)[from + i - 1]
<1> DEFINE r == Suffix(s, from)
           n == Len(r)
           Good == {i \in 1 .. n + 1 : ContentsFrom(r)[i] = ContentsFrom(s)[from + i - 1]}
<1>1. /\ r \in Seq(Message) /\ n = Len(s) - from + 1
      /\ \A i \in 1 .. Len(s) - from + 1 : r[i] = s[from + i - 1]
  BY SuffixIs
<1> HIDE DEF r
<1>2. /\ n \in Nat /\ n + 1 \in Nat /\ 1 <= n + 1 /\ Len(s) \in Nat /\ from \in Nat /\ from >= 1
      /\ \A i \in 1 .. n : r[i] = s[from + i - 1]
  BY <1>1
<1>3. /\ ContentsFrom(r)[n + 1] = 0
      /\ \A i \in 1 .. n : ContentsFrom(r)[i] = r[i].size + ContentsFrom(r)[i + 1]
  BY <1>2, ContentsDef
<1>4. /\ ContentsFrom(s)[Len(s) + 1] = 0
      /\ \A i \in 1 .. Len(s) : ContentsFrom(s)[i] = s[i].size + ContentsFrom(s)[i + 1]
  BY <1>2, ContentsDef
<1>5. n + 1 \in Good
  <2>1. from + (n + 1) - 1 = Len(s) + 1
    BY <1>1, <1>2
  <2>2. QED
    BY <1>2, <1>3, <1>4, <2>1
<1>6. ASSUME NEW i \in 1 .. (n + 1) - 1, i + 1 \in Good PROVE i \in Good
  <2> DEFINE k == from + i - 1
  <2>1. i \in 1 .. n /\ i \in 1 .. n + 1 /\ k \in 1 .. Len(s) /\ from + (i + 1) - 1 = k + 1
    BY <1>1, <1>2
  <2>2. ContentsFrom(r)[i + 1] = ContentsFrom(s)[k + 1]
    BY <1>6, <2>1
  <2>3. r[i] = s[k]
    BY <1>2, <2>1
  <2> HIDE DEF k
  <2>4. ContentsFrom(r)[i] = ContentsFrom(s)[k]
    BY <1>3, <1>4, <2>1, <2>2, <2>3
  <2>5. QED
    BY <2>1, <2>4 DEF k
<1>7. \A i \in 1 .. n + 1 : i \in Good
  <2> HIDE DEF Good, n
  <2>1. QED
    BY <1>2, <1>5, <1>6, Downwards
<1>8. \A i \in 1 .. n + 1 : ContentsFrom(r)[i] = ContentsFrom(s)[from + i - 1]
  BY <1>7
<1>9. ContentsFrom(r)[1] = ContentsFrom(s)[from]
  <2>1. 1 \in 1 .. n + 1 /\ from + 1 - 1 = from
    BY <1>2
  <2>2. QED
    BY <1>8, <2>1
<1>10. QED
  BY <1>8, <1>9 DEF r, Contents

LEMMA SuffixOfSuffix ==
  ASSUME NEW S, NEW s \in Seq(S), NEW from \in 1 .. Len(s) + 1, NEW k \in 1 .. Len(Suffix(s, from)) + 1
  PROVE  Suffix(Suffix(s, from), k) = Suffix(s, from + k - 1)
<1> DEFINE r == Suffix(s, from)
           n == Len(s) - from + 1
           at == from + k - 1
           x == Suffix(r, k)
           y == Suffix(s, at)
<1>1. r \in Seq(S) /\ Len(r) = n /\ \A i \in 1 .. n : r[i] = s[from + i - 1]
  BY SuffixIs
<1>2. Len(s) \in Nat /\ from \in 1 .. Len(s) + 1 /\ n \in Nat /\ k \in 1 .. n + 1
  BY <1>1
<1> HIDE DEF r
<1>3. x \in Seq(S) /\ Len(x) = n - k + 1 /\ \A i \in 1 .. n - k + 1 : x[i] = r[k + i - 1]
  <2>1. r \in Seq(S) /\ k \in 1 .. Len(r) + 1
    BY <1>1, <1>2
  <2>2. /\ x \in Seq(S) /\ Len(x) = Len(r) - k + 1
        /\ \A i \in 1 .. Len(r) - k + 1 : x[i] = r[k + i - 1]
    BY <2>1, SuffixIs, Zenon
  <2> HIDE DEF x
  <2>3. QED
    BY <1>1, <2>2
<1>4. at \in 1 .. Len(s) + 1 /\ Len(s) - at + 1 = n - k + 1
  BY <1>2
<1>5. y \in Seq(S) /\ Len(y) = n - k + 1 /\ \A i \in 1 .. n - k + 1 : y[i] = s[at + i - 1]
  <2>1. y \in Seq(S) /\ Len(y) = Len(s) - at + 1 /\ \A i \in 1 .. Len(s) - at + 1 : y[i] = s[at + i - 1]
    BY <1>4, SuffixIs
  <2> HIDE DEF at, n, y
  <2>2. QED
    BY <1>4, <2>1
<1>6. ASSUME NEW i \in 1 .. n - k + 1 PROVE x[i] = y[i]
  <2>1. k + i - 1 \in 1 .. n /\ from + (k + i - 1) - 1 = at + i - 1
    BY <1>2
  <2> HIDE DEF x, y, n, at
  <2>2. r[k + i - 1] = s[from + (k + i - 1) - 1]
    BY <1>1, <2>1
  <2>3. QED
    BY <1>3, <1>5, <2>1, <2>2
<1>7. x = y
  <2> HIDE DEF x, y
  <2>1. \A i \in 1 .. Len(x) : x[i] = y[i]
    BY <1>3, <1>6
  <2>2. QED
    BY <1>3, <1>5, <2>1, SeqEqual
<1>8. QED
  BY <1>7 DEF r

\* What the model is sent of a session: WindowIsLongest of the operators.
LEMMA WindowIs ==
  ASSUME NEW s \in Seq(Message)
  PROVE  LET w == Window(s).msgs
             tail(n) == SubSeq(s, Len(s) - n + 1, Len(s))
         IN
         /\ Len(w) <= MaxHistory /\ w = tail(Len(w))
         /\ \/ Contents(w) <= Target \/ w = <<>>
            \/ Tokens(w) <= Budget /\ Len(w) \in {MaxHistory, Len(s)}
         /\ \A n \in Len(w) + 1 .. Len(s) : n <= MaxHistory => Contents(tail(n)) > Target
<1> DEFINE w == Window(s).msgs
           tail(n) == SubSeq(s, Len(s) - n + 1, Len(s))
           recent == LastMessages(s)
           kept == IF Tokens(recent) <= Budget THEN recent ELSE Suffix(recent, KeepFrom(recent))
<1>1. Len(s) \in Nat /\ MaxHistory \in Nat \ {0} /\ Target \in Int /\ \A n : tail(n) = Suffix(s, Len(s) - n + 1)
  BY TurnAssumption DEF Target, Suffix
<1>2. w = kept
  <2> DEFINE cut == kept # s
  <2>1. Window(s) = [cut |-> cut, msgs |-> kept]
    BY DEF Window
  <2> HIDE DEF cut, kept
  <2>2. QED
    BY <2>1
<1>3. PICK from \in 1 .. Len(s) + 1 :
        /\ recent = Suffix(s, from) /\ Len(recent) = Len(s) - from + 1
        /\ Len(s) - from + 1 <= MaxHistory
        /\ from = 1 \/ Len(s) - from + 1 = MaxHistory
  BY LastMessagesIs
<1>4. recent \in Seq(Message) /\ Len(recent) \in Nat
  BY LastMessagesIs
<1> HIDE DEF w, tail, recent
<1>5. CASE Tokens(recent) <= Budget
  <2>1. w = recent /\ Len(w) = Len(s) - from + 1
    BY <1>2, <1>3, <1>5
  <2>2. Len(s) - Len(w) + 1 = from
    BY <1>1, <2>1
  <2>3. w = tail(Len(w))
    BY <1>1, <1>3, <2>1, <2>2
  <2>4. Len(w) \in {MaxHistory, Len(s)}
    BY <1>1, <1>3, <2>1
  <2>5. \A n \in Len(w) + 1 .. Len(s) : ~(n <= MaxHistory)
    BY <1>1, <1>3, <2>1
  <2>6. QED
    BY <1>3, <1>5, <2>1, <2>3, <2>4, <2>5 DEF w, tail
<1>6. CASE ~(Tokens(recent) <= Budget)
  <2> DEFINE k == KeepFrom(recent)
  <2>1. /\ k \in 1 .. Len(recent) + 1
        /\ \A j \in k .. Len(recent) : Contents(Suffix(recent, j)) <= Target
        /\ \A i \in 1 .. Len(recent) + 1 :
             (\A j \in i .. Len(recent) : Contents(Suffix(recent, j)) <= Target) => k <= i
    BY <1>4, KeepFromIs
  <2>2. w = Suffix(recent, k)
    BY <1>2, <1>6
  <2> HIDE DEF k
  <2>3. Len(w) = Len(recent) - k + 1
    BY <1>4, <2>1, <2>2, SuffixIs
  <2>4. Len(w) <= MaxHistory /\ Len(w) \in Nat
    BY <1>1, <1>3, <1>4, <2>1, <2>3
  <2>5. w = tail(Len(w))
    <3>1. w = Suffix(s, from + k - 1)
      BY <1>3, <2>1, <2>2, SuffixOfSuffix
    <3>2. Len(s) - Len(w) + 1 = from + k - 1
      BY <1>1, <1>3, <1>4, <2>1, <2>3
    <3>3. QED
      BY <1>1, <3>1, <3>2
  <2>6. \A j \in 1 .. Len(recent) + 1 :
          /\ Contents(Suffix(recent, j)) = ContentsFrom(recent)[j]
          /\ ContentsFrom(recent)[j] \in Nat
    BY <1>4, ContentsOfSuffix, ContentsNat
  <2>7. Contents(w) <= Target \/ w = <<>>
    <3>1. CASE k \in 1 .. Len(recent)
      BY <1>4, <2>1, <2>2, <3>1
    <3>2. CASE k = Len(recent) + 1
      <4>1. w \in Seq(Message) /\ Len(w) = 0
        BY <1>4, <2>1, <2>2, <2>3, <3>2, SuffixIs
      <4>2. QED
        BY <4>1
    <3>3. QED
      BY <1>4, <2>1, <3>1, <3>2
  <2>8. ASSUME NEW n \in Len(w) + 1 .. Len(s), n <= MaxHistory
        PROVE  Contents(tail(n)) > Target
    <3> DEFINE i == Len(recent) - n + 1
    <3>1. i \in 1 .. Len(recent) + 1 /\ i < k /\ from + i - 1 = Len(s) - n + 1
      BY <1>1, <1>3, <1>4, <2>1, <2>3, <2>4, <2>8
    <3> HIDE DEF i
    <3>2. tail(n) = Suffix(recent, i)
      <4>1. Suffix(recent, i) = Suffix(s, from + i - 1)
        BY <1>3, <3>1, SuffixOfSuffix
      <4>2. QED
        BY <1>1, <3>1, <4>1
    <3>3. PICK j \in i .. Len(recent) : ~(Contents(Suffix(recent, j)) <= Target)
      <4>1. ~(k <= i)
        BY <1>4, <2>1, <3>1
      <4>2. QED
        BY <2>1, <3>1, <4>1
    <3>4. j \in 1 .. Len(recent) + 1 /\ i \in 1 .. j
      BY <1>4, <3>1
    <3>5. ContentsFrom(recent)[j] <= ContentsFrom(recent)[i]
      BY <1>4, <3>4, ContentsGrow
    <3>6. Contents(tail(n)) = ContentsFrom(recent)[i] /\ ~(ContentsFrom(recent)[j] <= Target)
      BY <2>6, <3>1, <3>2, <3>3, <3>4
    <3>7. ContentsFrom(recent)[i] \in Nat /\ ContentsFrom(recent)[j] \in Nat
      BY <2>6, <3>1, <3>4
    <3>8. QED
      BY <1>1, <3>5, <3>6, <3>7
  <2>9. QED
    BY <2>4, <2>5, <2>7, <2>8 DEF w, tail
<1>7. QED
  BY <1>5, <1>6

\* The model is sent the longest tail of the session that fits, for any
\* lengths and sizes of messages and any limits, even if nothing fits.
THEOREM WindowsAreLongest == TurnSpec => WindowIsLongest
<1> DEFINE Longest ==
      \A t \in Turns :
        turn[t].pc = "preparing" /\ turn'[t].iter = 1 =>
          LET w == sent'[t].msgs
              s == session[on[t]]
              tail(n) == SubSeq(s, Len(s) - n + 1, Len(s))
          IN
          /\ Len(w) <= MaxHistory /\ w = tail(Len(w))
          /\ \/ Contents(w) <= Target \/ w = <<>>
             \/ Tokens(w) <= Budget /\ Len(w) \in {MaxHistory, Len(s)}
          /\ \A n \in Len(w) + 1 .. Len(s) : n <= MaxHistory => Contents(tail(n)) > Target
<1>1. ASSUME LoopInv, [TurnNext]_allVars PROVE Longest
  <2> SUFFICES ASSUME NEW t \in Turns, turn[t].pc = "preparing", turn'[t].iter = 1
               PROVE  session[on[t]] \in Seq(Message) /\ sent'[t] = Window(session[on[t]])
    BY WindowIs
  <2>1. Histories /\ session[on[t]] \in Seq(Message) /\ turn[t].iter = 0
    BY <1>1, ObjectTypes DEF LoopInv, Histories, Steady, Running
  <2>2. ASSUME NEW u \in Turns \ {t}, Acts(u) PROVE FALSE
    <3>1. turn'[t] = turn[t]
      BY <2>1, <2>2, ActsAlone
    <3>2. QED
      BY <2>1, <3>1
  <2>3. Acts(t) => Prepares(t)
    BY <2>1 DEF Acts, Opens, Prepares, Tries, Concludes, CallsTools, GoesOn, GivesUp, Saves, Reloads, Fails, Goes
  <2>4. ~Crashes /\ ~(UNCHANGED turnVars)
    BY <2>1 DEF Crashes, turnVars, Running
  <2>5. Prepares(t)
    BY <1>1, <2>2, <2>3, <2>4, TurnActs
  <2>6. QED
    BY <2>1, <2>5 DEF Prepares
<1>2. QED
  BY <1>1, LoopInvariant, PTL DEF TurnSpec, WindowIsLongest

-----------------------------------------------------------------------------

\* Induction over an interval, for the numbers of a set.
LEMMA Upwards ==
  ASSUME NEW m \in Nat, NEW Good, 0 \in Good, \A i \in 1 .. m : i - 1 \in Good => i \in Good
  PROVE  \A i \in 0 .. m : i \in Good
<1> DEFINE Bad == {i \in 0 .. m : i \notin Good}
<1> SUFFICES ASSUME Bad # {} PROVE FALSE
  OBVIOUS
<1>1. Bad \in SUBSET Nat
  OBVIOUS
<1>2. PICK least \in Bad : \A i \in Bad : least <= i
  <2> HIDE DEF Bad
  <2>1. QED
    BY <1>1, LeastNatural
<1>3. least \in 1 .. m /\ least - 1 \in 0 .. m
  OBVIOUS
<1>4. least - 1 \notin Bad
  <2> HIDE DEF Bad
  <2>1. QED
    BY <1>2, <1>3
<1>5. QED
  BY <1>3, <1>4

\* A function can be defined from its value at zero and by a step.
Repeats(f, m, S, start, step) ==
  f \in [0 .. m -> S] /\ f[0] = start /\ \A i \in 1 .. m : f[i] = step[i][f[i - 1]]

LEMMA Iterates ==
  ASSUME NEW m \in Nat, NEW S, NEW start \in S, NEW step \in [1 .. m -> [S -> S]]
  PROVE  \E f : Repeats(f, m, S, start, step)
<1> DEFINE Runs(f, n) == f[0] = start /\ \A i \in 1 .. n : f[i] = step[i][f[i - 1]]
           Good == {n \in 0 .. m : \E f \in [0 .. n -> S] : Runs(f, n)}
<1>1. 0 \in Good
  <2> DEFINE f == [i \in 0 .. 0 |-> start]
  <2>1. f \in [0 .. 0 -> S] /\ Runs(f, 0)
    OBVIOUS
  <2> HIDE DEF f, Runs
  <2>2. QED
    BY <2>1
<1>2. ASSUME NEW n \in 1 .. m, n - 1 \in Good PROVE n \in Good
  <2>1. PICK f \in [0 .. n - 1 -> S] : Runs(f, n - 1)
    BY <1>2
  <2> DEFINE g == [i \in 0 .. n |-> IF i = n THEN step[n][f[n - 1]] ELSE f[i]]
  <2>2. /\ n - 1 \in 0 .. n - 1 /\ 0 \in 0 .. n - 1 /\ 0 # n /\ n \in 0 .. n
        /\ \A i \in 0 .. n : i # n => i \in 0 .. n - 1
        /\ \A i \in 1 .. n : i - 1 \in 0 .. n - 1 /\ i - 1 # n /\ i - 1 \in 0 .. n /\ i \in 0 .. n
        /\ \A i \in 1 .. n : i # n => i \in 1 .. n - 1
    OBVIOUS
  <2>3. f[n - 1] \in S /\ step[n][f[n - 1]] \in S
    BY <2>2
  <2>4. g \in [0 .. n -> S]
    BY <2>2, <2>3
  <2>5. g[n] = step[n][f[n - 1]] /\ g[0] = f[0]
    BY <2>2
  <2>6. \A i \in 1 .. n : g[i - 1] = f[i - 1] /\ (i # n => g[i] = f[i])
    BY <2>2
  <2> HIDE DEF g
  <2>7. Runs(g, n)
    BY <2>1, <2>2, <2>5, <2>6
  <2>8. QED
    <3> HIDE DEF Runs
    <3>1. QED
      BY <2>4, <2>7
<1>3. m \in Good
  <2> HIDE DEF Good
  <2>1. \A i \in 0 .. m : i \in Good
    BY <1>1, <1>2, Upwards
  <2>2. QED
    BY <2>1
<1>4. QED
  BY <1>3 DEF Repeats

\* What travels, and what it is split into and read by.
Data    == {d \in [kind : {"text", "call", "stop", "junk"}, call : Nat, piece : Nat] :
              d.kind = "call" => d.call \in Indexes}
Symbol  == [half : 0 .. 2, data : Data]
Parts   == [events : Seq(Seq(Symbol)), rest : Seq(Symbol)]
Handler == [buffer : Seq(Symbol), text : Seq(Nat), calls : [Indexes -> Seq(Nat)],
            finished : BOOLEAN, dones : Nat]

LEMMA LineFeedType == LineFeed \in Symbol /\ Junk \in Data
BY DEF LineFeed, Half, Junk, Symbol, Data

LEMMA TakeType ==
  ASSUME NEW parts \in Parts, NEW x \in Symbol
  PROVE  TakeSymbol(parts, x) \in Parts
<1>1. parts.events \in Seq(Seq(Symbol)) /\ parts.rest \in Seq(Symbol)
  BY DEF Parts
<1>2. Append(parts.rest, x) \in Seq(Symbol)
  BY <1>1
<1>3. CASE x = LineFeed /\ parts.rest # <<>> /\ Last(parts.rest) = LineFeed
  <2>1. Front(parts.rest) \in Seq(Symbol)
    BY <1>1 DEF Front
  <2>2. Append(parts.events, Front(parts.rest)) \in Seq(Seq(Symbol)) /\ <<>> \in Seq(Symbol)
    BY <1>1, <2>1
  <2>3. QED
    BY <1>3, <2>2 DEF TakeSymbol, Parts
<1>4. CASE ~(x = LineFeed /\ parts.rest # <<>> /\ Last(parts.rest) = LineFeed)
  BY <1>1, <1>2, <1>4 DEF TakeSymbol, Parts
<1>5. QED
  BY <1>3, <1>4

\* split, symbol by symbol.
LEMMA SplitDef ==
  ASSUME NEW symbols \in Seq(Symbol)
  PROVE  /\ SplitUpto(symbols)[0] = [events |-> <<>>, rest |-> <<>>]
         /\ \A i \in 1 .. Len(symbols) :
              SplitUpto(symbols)[i] = TakeSymbol(SplitUpto(symbols)[i - 1], symbols[i])
         /\ Split(symbols) \in Parts
<1> DEFINE m == Len(symbols)
           nothing == [events |-> <<>>, rest |-> <<>>]
           step == [i \in 1 .. m |-> [parts \in Parts |-> TakeSymbol(parts, symbols[i])]]
           Good == {i \in 0 .. m : SplitUpto(symbols)[i] \in Parts}
<1>1. m \in Nat /\ nothing \in Parts /\ \A i \in 1 .. m : symbols[i] \in Symbol
  BY DEF Parts
<1>2. step \in [1 .. m -> [Parts -> Parts]]
  BY <1>1, TakeType
<1>3. \A i \in 1 .. m, parts \in Parts : step[i][parts] = TakeSymbol(parts, symbols[i])
  OBVIOUS
<1> HIDE DEF m, nothing, step
<1>4. PICK f \in [0 .. m -> Parts] : f[0] = nothing /\ \A i \in 1 .. m : f[i] = step[i][f[i - 1]]
  <2>1. \E f : Repeats(f, m, Parts, nothing, step)
    BY <1>1, <1>2, Iterates
  <2>2. QED
    BY <2>1 DEF Repeats
<1>5. \A i \in 1 .. m : i - 1 \in 0 .. m /\ i \in 0 .. m /\ i # 0
  BY <1>1
<1>6. \A i \in 0 .. m : i # 0 => i \in 1 .. m
  BY <1>1
<1>7. \A i \in 1 .. m : f[i] = TakeSymbol(f[i - 1], symbols[i])
  BY <1>3, <1>4, <1>5
<1>8. f = [i \in 0 .. m |-> IF i = 0 THEN nothing ELSE TakeSymbol(f[i - 1], symbols[i])]
  BY <1>4, <1>6, <1>7
<1>9. SplitUpto(symbols)
        = [i \in 0 .. m |-> IF i = 0 THEN nothing ELSE TakeSymbol(SplitUpto(symbols)[i - 1], symbols[i])]
  BY <1>8 DEF SplitUpto, m, nothing
<1>10. SplitUpto(symbols)[0] = nothing
  BY <1>1, <1>9
<1>11. \A i \in 1 .. m : SplitUpto(symbols)[i] = TakeSymbol(SplitUpto(symbols)[i - 1], symbols[i])
  BY <1>5, <1>9
<1>12. 0 \in Good
  BY <1>1, <1>10
<1>13. ASSUME NEW i \in 1 .. m, i - 1 \in Good PROVE i \in Good
  BY <1>1, <1>5, <1>11, <1>13, TakeType
<1>14. m \in Good
  <2> HIDE DEF Good
  <2>1. m \in Nat
    BY <1>1
  <2>2. \A i \in 0 .. m : i \in Good
    BY <1>12, <1>13, <2>1, Upwards
  <2>3. QED
    BY <2>1, <2>2
<1>15. QED
  BY <1>10, <1>11, <1>14 DEF Split, m, nothing

\* A set of numbers with a bound has a greatest element.
LEMMA GreatestNatural ==
  ASSUME NEW m \in Nat, NEW S \in SUBSET (0 .. m), S # {}
  PROVE  \E n \in S : \A i \in S : i <= n
<1> DEFINE T == {m - i : i \in S}
<1>1. T \in SUBSET Nat /\ T # {} /\ \A i \in S : i \in Nat
  <2>1. \A i \in S : i \in 0 .. m
    OBVIOUS
  <2>2. \A i \in S : m - i \in Nat /\ i \in Nat
    BY <2>1
  <2>3. QED
    BY <2>2
<1>2. PICK n \in T : \A i \in T : n <= i
  <2> HIDE DEF T
  <2>1. QED
    BY <1>1, LeastNatural
<1>3. PICK greatest \in S : n = m - greatest
  OBVIOUS
<1>4. ASSUME NEW i \in S PROVE i <= greatest
  <2>1. n <= m - i
    BY <1>2
  <2>2. i \in Nat /\ greatest \in Nat
    BY <1>1
  <2>3. QED
    BY <1>3, <2>1, <2>2
<1>5. QED
  BY <1>4

LEMMA DataType ==
  ASSUME NEW event \in Seq(Symbol)
  PROVE  DataOf(event) \in Data
<1> DEFINE W == WholeLines(event)
           Most(i) == i \in W /\ \A j \in W : j <= i
<1>1. CASE W = {}
  BY <1>1, LineFeedType DEF DataOf
<1>2. CASE W # {}
  <2>1. Len(event) \in Nat /\ W \in SUBSET (0 .. Len(event)) /\ \A i \in W : i \in 1 .. Len(event)
    BY DEF WholeLines
  <2>2. \E n \in W : \A i \in W : i <= n
    <3> HIDE DEF W
    <3>1. QED
      BY <1>2, <2>1, GreatestNatural
  <2>3. (CHOOSE i \in W : \A j \in W : j <= i) \in W
    <3> HIDE DEF W
    <3>1. QED
      BY <2>2
  <2> DEFINE last == CHOOSE i \in W : \A j \in W : j <= i
  <2>4. DataOf(event) = event[last].data
    BY <1>2 DEF DataOf
  <2>5. last \in 1 .. Len(event)
    <3> HIDE DEF W
    <3>1. QED
      BY <2>1, <2>3
  <2> HIDE DEF last
  <2>6. event[last] \in Symbol
    BY <2>5
  <2>7. QED
    BY <2>4, <2>6 DEF Symbol
<1>3. QED
  BY <1>1, <1>2

LEMMA FinishType ==
  ASSUME NEW handler \in Handler
  PROVE  Finish_(handler) \in Handler
<1> DEFINE once == [handler EXCEPT !.finished = TRUE]
<1>1. once \in Handler
  BY DEF Handler
<1>2. [once EXCEPT !.dones = handler.dones + 1] \in Handler
  <2> HIDE DEF once
  <2>1. handler.dones + 1 \in Nat
    BY DEF Handler
  <2>2. QED
    BY <1>1, <2>1 DEF Handler
<1>3. QED
  BY <1>2 DEF Finish_

LEMMA ProcessType ==
  ASSUME NEW handler \in Handler, NEW event \in Seq(Symbol)
  PROVE  ProcessEvent(handler, event) \in Handler
<1> DEFINE data == DataOf(event)
<1>1. /\ data.kind \in {"text", "call", "stop", "junk"} /\ data.piece \in Nat
      /\ data.kind = "call" => data.call \in Indexes
  BY DataType DEF Data
<1>2. handler.text \in Seq(Nat) /\ handler.calls \in [Indexes -> Seq(Nat)]
  BY DEF Handler
<1> HIDE DEF data
<1>3. CASE data.kind = "text"
  <2>1. Append(handler.text, data.piece) \in Seq(Nat)
    BY <1>1, <1>2
  <2>2. ProcessEvent(handler, event) = [handler EXCEPT !.text = Append(handler.text, data.piece)]
    BY <1>3 DEF ProcessEvent, data
  <2>3. QED
    BY <2>1, <2>2 DEF Handler
<1>4. CASE data.kind = "call"
  <2> DEFINE calls == [handler.calls EXCEPT ![data.call] = Append(handler.calls[data.call], data.piece)]
  <2>1. Append(handler.calls[data.call], data.piece) \in Seq(Nat)
    BY <1>1, <1>2, <1>4
  <2>2. calls \in [Indexes -> Seq(Nat)]
    BY <1>2, <2>1
  <2>3. ProcessEvent(handler, event) = [handler EXCEPT !.calls = calls]
    BY <1>4 DEF ProcessEvent, data
  <2> HIDE DEF calls
  <2>4. QED
    BY <2>2, <2>3 DEF Handler
<1>5. CASE data.kind = "stop"
  BY <1>5, FinishType DEF ProcessEvent, data
<1>6. CASE data.kind = "junk"
  BY <1>6 DEF ProcessEvent, data
<1>7. QED
  BY <1>1, <1>3, <1>4, <1>5, <1>6

\* The events of a chunk, one after another.
LEMMA ProcessDef ==
  ASSUME NEW handler \in Handler, NEW events \in Seq(Seq(Symbol))
  PROVE  /\ ProcessUpto(handler, events)[0] = handler
         /\ \A i \in 1 .. Len(events) : ProcessUpto(handler, events)[i]
                                          = ProcessEvent(ProcessUpto(handler, events)[i - 1], events[i])
         /\ \A i \in 0 .. Len(events) : ProcessUpto(handler, events)[i] \in Handler
<1> DEFINE m == Len(events)
           upto == ProcessUpto(handler, events)
           step == [i \in 1 .. m |-> [h \in Handler |-> ProcessEvent(h, events[i])]]
           Good == {i \in 0 .. m : upto[i] \in Handler}
<1>1. m \in Nat /\ \A i \in 1 .. m : events[i] \in Seq(Symbol)
  OBVIOUS
<1>2. step \in [1 .. m -> [Handler -> Handler]]
  BY <1>1, ProcessType
<1>3. \A i \in 1 .. m, h \in Handler : step[i][h] = ProcessEvent(h, events[i])
  OBVIOUS
<1> HIDE DEF m, step
<1>4. PICK f \in [0 .. m -> Handler] : f[0] = handler /\ \A i \in 1 .. m : f[i] = step[i][f[i - 1]]
  <2>1. \E f : Repeats(f, m, Handler, handler, step)
    BY <1>1, <1>2, Iterates
  <2>2. QED
    BY <2>1 DEF Repeats
<1>5. \A i \in 1 .. m : i - 1 \in 0 .. m /\ i \in 0 .. m /\ i # 0
  BY <1>1
<1>6. \A i \in 0 .. m : i # 0 => i \in 1 .. m
  BY <1>1
<1>7. \A i \in 1 .. m : f[i] = ProcessEvent(f[i - 1], events[i])
  BY <1>3, <1>4, <1>5
<1>8. f = [i \in 0 .. m |-> IF i = 0 THEN handler ELSE ProcessEvent(f[i - 1], events[i])]
  BY <1>4, <1>6, <1>7
<1>9. upto = [i \in 0 .. m |-> IF i = 0 THEN handler ELSE ProcessEvent(upto[i - 1], events[i])]
  BY <1>8 DEF ProcessUpto, m
<1> HIDE DEF upto
<1>10. upto[0] = handler
  BY <1>1, <1>9
<1>11. \A i \in 1 .. m : upto[i] = ProcessEvent(upto[i - 1], events[i])
  BY <1>5, <1>9
<1>12. 0 \in Good
  BY <1>1, <1>10
<1>13. ASSUME NEW i \in 1 .. m, i - 1 \in Good PROVE i \in Good
  BY <1>1, <1>5, <1>11, <1>13, ProcessType
<1>14. \A i \in 0 .. m : i \in Good
  <2> HIDE DEF Good
  <2>1. QED
    BY <1>1, <1>12, <1>13, Upwards
<1>15. QED
  BY <1>10, <1>11, <1>14 DEF upto, m

LEMMA ChunkType ==
  ASSUME NEW handler \in Handler, NEW chunk \in Seq(Symbol)
  PROVE  ProcessChunk(handler, chunk) \in Handler
<1> DEFINE parts == Split(handler.buffer \o chunk)
           kept == [handler EXCEPT !.buffer = parts.rest]
<1>1. handler.buffer \o chunk \in Seq(Symbol)
  BY DEF Handler
<1>2. parts \in Parts
  BY <1>1, SplitDef
<1> HIDE DEF parts
<1>3. parts.events \in Seq(Seq(Symbol)) /\ parts.rest \in Seq(Symbol)
  BY <1>2 DEF Parts
<1>4. kept \in Handler
  BY <1>3 DEF Handler
<1> HIDE DEF kept
<1>5. Len(parts.events) \in 0 .. Len(parts.events)
  BY <1>3
<1>6. ProcessUpto(kept, parts.events)[Len(parts.events)] \in Handler
  BY <1>3, <1>4, <1>5, ProcessDef
<1>7. QED
  BY <1>6 DEF ProcessChunk, ProcessAll, kept, parts

\* The chunks of an answer, one after another.
LEMMA ReadDef ==
  ASSUME NEW chunks \in Seq(Seq(Symbol))
  PROVE  /\ ReadUpto(chunks)[0] = NewHandler
         /\ \A i \in 1 .. Len(chunks) :
              ReadUpto(chunks)[i] = ProcessChunk(ReadUpto(chunks)[i - 1], chunks[i])
         /\ \A i \in 0 .. Len(chunks) : ReadUpto(chunks)[i] \in Handler
<1> DEFINE m == Len(chunks)
           upto == ReadUpto(chunks)
           step == [i \in 1 .. m |-> [h \in Handler |-> ProcessChunk(h, chunks[i])]]
           Good == {i \in 0 .. m : upto[i] \in Handler}
<1>1. m \in Nat /\ NewHandler \in Handler /\ \A i \in 1 .. m : chunks[i] \in Seq(Symbol)
  BY DEF NewHandler, Handler
<1>2. step \in [1 .. m -> [Handler -> Handler]]
  BY <1>1, ChunkType
<1>3. \A i \in 1 .. m, h \in Handler : step[i][h] = ProcessChunk(h, chunks[i])
  OBVIOUS
<1> HIDE DEF m, step
<1>4. PICK f \in [0 .. m -> Handler] :
        f[0] = NewHandler /\ \A i \in 1 .. m : f[i] = step[i][f[i - 1]]
  <2>1. \E f : Repeats(f, m, Handler, NewHandler, step)
    BY <1>1, <1>2, Iterates
  <2>2. QED
    BY <2>1 DEF Repeats
<1>5. \A i \in 1 .. m : i - 1 \in 0 .. m /\ i \in 0 .. m /\ i # 0
  BY <1>1
<1>6. \A i \in 0 .. m : i # 0 => i \in 1 .. m
  BY <1>1
<1>7. \A i \in 1 .. m : f[i] = ProcessChunk(f[i - 1], chunks[i])
  BY <1>3, <1>4, <1>5
<1>8. f = [i \in 0 .. m |-> IF i = 0 THEN NewHandler ELSE ProcessChunk(f[i - 1], chunks[i])]
  BY <1>4, <1>6, <1>7
<1>9. upto = [i \in 0 .. m |-> IF i = 0 THEN NewHandler ELSE ProcessChunk(upto[i - 1], chunks[i])]
  BY <1>8 DEF ReadUpto, m
<1> HIDE DEF upto
<1>10. upto[0] = NewHandler
  BY <1>1, <1>9
<1>11. \A i \in 1 .. m : upto[i] = ProcessChunk(upto[i - 1], chunks[i])
  BY <1>5, <1>9
<1>12. 0 \in Good
  BY <1>1, <1>10
<1>13. ASSUME NEW i \in 1 .. m, i - 1 \in Good PROVE i \in Good
  BY <1>1, <1>5, <1>11, <1>13, ChunkType
<1>14. \A i \in 0 .. m : i \in Good
  <2> HIDE DEF Good
  <2>1. QED
    BY <1>1, <1>12, <1>13, Upwards
<1>15. QED
  BY <1>10, <1>11, <1>14 DEF upto, m

\* An answer, and its symbols on the wire.
LEMMA AnswerIs ==
  ASSUME NEW says \in Answers
  PROVE  /\ WireLength \in Nat
         /\ \A i \in 1 .. WireLength : says[i] \in EventsAt(i) /\ says[i] \in Data
         /\ Len(says) = WireLength
<1>1. WireLength \in Nat /\ Indexes \subseteq Nat \ {0}
  BY WireAssumption
<1>2. \A i \in 1 .. WireLength : says[i] \in EventsAt(i)
  BY DEF Answers
<1>3. ASSUME NEW i \in 1 .. WireLength PROVE says[i] \in Data
  <2>1. i \in Nat /\ says[i] \in EventsAt(i)
    BY <1>1, <1>2
  <2>2. Text(i) \in Data /\ Ending \in Data /\ Junk \in Data
    BY <2>1 DEF Text, Ending, Junk, Data
  <2>3. \A c \in Indexes : Fragment(c, i) \in Data
    BY <1>1, <2>1 DEF Fragment, Data
  <2>4. QED
    BY <2>1, <2>2, <2>3 DEF EventsAt
<1>4. Len(says) = WireLength
  <2>1. says \in [1 .. WireLength -> UNION {EventsAt(i) : i \in 1 .. WireLength}]
    BY DEF Answers
  <2>2. QED
    BY <1>1, <2>1
<1>5. QED
  BY <1>1, <1>2, <1>3, <1>4

LEMMA WireIs ==
  ASSUME NEW says \in Answers
  PROVE  /\ Wire(says) \in Seq(Symbol) /\ Len(Wire(says)) = 4 * WireLength
         /\ \A e \in 0 .. WireLength - 1 :
              /\ Wire(says)[4 * e + 1] = Half(1, says[e + 1])
              /\ Wire(says)[4 * e + 2] = Half(2, says[e + 1])
              /\ Wire(says)[4 * e + 3] = LineFeed
              /\ Wire(says)[4 * e + 4] = LineFeed
<1> DEFINE n == 4 * WireLength
           At4(k) == IF k % 4 \in {1, 2} THEN Half(k % 4, says[k \div 4 + 1]) ELSE LineFeed
<1>1. n \in Nat /\ WireLength \in Nat /\ Len(says) = WireLength
  BY AnswerIs
<1>2. Wire(says) = [k \in 1 .. n |-> At4(k)]
  BY <1>1 DEF Wire
<1>3. ASSUME NEW k \in 1 .. n PROVE At4(k) \in Symbol
  <2>1. CASE k % 4 \in {1, 2}
    <3>1. k % 4 \in 0 .. 2 /\ k \div 4 + 1 \in 1 .. WireLength
      BY <1>1, <2>1
    <3>2. says[k \div 4 + 1] \in Data
      BY <3>1, AnswerIs
    <3>3. QED
      BY <2>1, <3>1, <3>2 DEF Half, Symbol
  <2>2. CASE k % 4 \notin {1, 2}
    BY <2>2, LineFeedType
  <2>3. QED
    BY <2>1, <2>2
<1>4. ASSUME NEW e \in 0 .. WireLength - 1
      PROVE  /\ {4 * e + 1, 4 * e + 2, 4 * e + 3, 4 * e + 4} \subseteq 1 .. n
             /\ (4 * e + 1) % 4 = 1 /\ (4 * e + 1) \div 4 = e
             /\ (4 * e + 2) % 4 = 2 /\ (4 * e + 2) \div 4 = e
             /\ (4 * e + 3) % 4 = 3 /\ (4 * e + 4) % 4 = 0
  BY <1>1
<1>5. \A e \in 0 .. WireLength - 1 :
        /\ At4(4 * e + 1) = Half(1, says[e + 1]) /\ At4(4 * e + 2) = Half(2, says[e + 1])
        /\ At4(4 * e + 3) = LineFeed /\ At4(4 * e + 4) = LineFeed
  BY <1>4
<1> HIDE DEF At4, n
<1>6. Wire(says) \in Seq(Symbol) /\ Len(Wire(says)) = n
  BY <1>1, <1>2, <1>3
<1>7. QED
  BY <1>2, <1>4, <1>5, <1>6 DEF n

\* A line, and what has come of an event after each of its symbols.
Line(data) == <<Half(1, data), Half(2, data)>>
SoFar(data, r) ==
  CASE r = 0 -> <<>>
    [] r = 1 -> <<Half(1, data)>>
    [] r = 2 -> <<Half(1, data), Half(2, data)>>
    [] r = 3 -> <<Half(1, data), Half(2, data), LineFeed>>

LEMMA SoFarIs ==
  ASSUME NEW data
  PROVE  /\ SoFar(data, 0) = <<>>
         /\ SoFar(data, 1) = <<Half(1, data)>>
         /\ SoFar(data, 2) = <<Half(1, data), Half(2, data)>>
         /\ SoFar(data, 3) = <<Half(1, data), Half(2, data), LineFeed>>
BY DEF SoFar

LEMMA HalvesDiffer == \A data : Half(1, data) # LineFeed /\ Half(2, data) # LineFeed
BY DEF Half, LineFeed

LEMMA OfThree ==
  ASSUME NEW a, NEW b, NEW c
  PROVE  Append(<<a, b>>, c) = <<a, b, c>> /\ SubSeq(<<a, b, c>>, 1, 2) = <<a, b>>
<1> DEFINE S == {a, b, c}
           two == <<a, b>>
           three == <<a, b, c>>
<1>1. two \in Seq(S) /\ Len(two) = 2 /\ two[1] = a /\ two[2] = b
  OBVIOUS
<1>2. three \in Seq(S) /\ Len(three) = 3 /\ three[1] = a /\ three[2] = b /\ three[3] = c
  OBVIOUS
<1>3. c \in S
  OBVIOUS
<1> HIDE DEF S, two, three
<1>4. /\ Append(two, c) \in Seq(S) /\ Len(Append(two, c)) = 3
      /\ Append(two, c)[1] = a /\ Append(two, c)[2] = b /\ Append(two, c)[3] = c
  <2>1. /\ Append(two, c) \in Seq(S) /\ Len(Append(two, c)) = Len(two) + 1
        /\ \A i \in 1 .. Len(two) : Append(two, c)[i] = two[i]
        /\ Append(two, c)[Len(two) + 1] = c
    <3>1. two \in Seq(S)
      BY <1>1
    <3>2. QED
      BY <1>3, <3>1, AppendProperties
  <2>2. Len(two) + 1 = 3 /\ 1 \in 1 .. Len(two) /\ 2 \in 1 .. Len(two)
    BY <1>1
  <2>3. QED
    BY <1>1, <2>1, <2>2
<1>5. \A i \in 1 .. 3 : Append(two, c)[i] = three[i]
  <2>1. \A i \in 1 .. 3 : i = 1 \/ i = 2 \/ i = 3
    OBVIOUS
  <2>2. QED
    BY <1>2, <1>4, <2>1
<1>6. Append(two, c) = three
  BY <1>2, <1>4, <1>5, SeqEqual
<1>7. /\ SubSeq(three, 1, 2) \in Seq(S) /\ Len(SubSeq(three, 1, 2)) = 2
      /\ SubSeq(three, 1, 2)[1] = a /\ SubSeq(three, 1, 2)[2] = b
  BY <1>2
<1>8. \A i \in 1 .. 2 : SubSeq(three, 1, 2)[i] = two[i]
  <2>1. \A i \in 1 .. 2 : i = 1 \/ i = 2
    OBVIOUS
  <2>2. QED
    BY <1>1, <1>7, <2>1
<1>9. SubSeq(three, 1, 2) = two
  BY <1>1, <1>7, <1>8, SeqEqual
<1>10. QED
  BY <1>6, <1>9 DEF two, three

LEMMA FirstOfTwo ==
  ASSUME NEW a, NEW b
  PROVE  SubSeq(<<a, b>>, 1, 1) = <<a>>
<1> DEFINE S == {a, b}
           two == <<a, b>>
           one == <<a>>
<1>1. two \in Seq(S) /\ Len(two) = 2 /\ two[1] = a
  OBVIOUS
<1>2. one \in Seq(S) /\ Len(one) = 1 /\ one[1] = a
  OBVIOUS
<1> HIDE DEF S, two, one
<1>3. SubSeq(two, 1, 1) \in Seq(S) /\ Len(SubSeq(two, 1, 1)) = 1 /\ SubSeq(two, 1, 1)[1] = a
  BY <1>1
<1>4. \A i \in 1 .. 1 : SubSeq(two, 1, 1)[i] = one[i]
  BY <1>2, <1>3
<1>5. SubSeq(two, 1, 1) = one
  BY <1>2, <1>3, <1>4, SeqEqual
<1>6. QED
  BY <1>5 DEF two, one

\* Only the second line feed ends the event.
LEMMA TakeNext ==
  ASSUME NEW data \in Data, NEW events
  PROVE  /\ TakeSymbol([events |-> events, rest |-> SoFar(data, 0)], Half(1, data))
              = [events |-> events, rest |-> SoFar(data, 1)]
         /\ TakeSymbol([events |-> events, rest |-> SoFar(data, 1)], Half(2, data))
              = [events |-> events, rest |-> SoFar(data, 2)]
         /\ TakeSymbol([events |-> events, rest |-> SoFar(data, 2)], LineFeed)
              = [events |-> events, rest |-> SoFar(data, 3)]
         /\ TakeSymbol([events |-> events, rest |-> SoFar(data, 3)], LineFeed)
              = [events |-> Append(events, Line(data)), rest |-> <<>>]
<1> DEFINE h1 == Half(1, data)
           h2 == Half(2, data)
<1>1. h1 # LineFeed /\ h2 # LineFeed
  BY HalvesDiffer
<1>2. /\ SoFar(data, 0) = <<>> /\ SoFar(data, 1) = <<h1>> /\ SoFar(data, 2) = <<h1, h2>>
      /\ SoFar(data, 3) = <<h1, h2, LineFeed>> /\ Line(data) = <<h1, h2>>
  BY SoFarIs DEF Line
<1> HIDE DEF h1, h2
<1>3. TakeSymbol([events |-> events, rest |-> <<>>], h1) = [events |-> events, rest |-> <<h1>>]
  BY <1>1 DEF TakeSymbol
<1>4. TakeSymbol([events |-> events, rest |-> <<h1>>], h2) = [events |-> events, rest |-> <<h1, h2>>]
  BY <1>1 DEF TakeSymbol
<1>5. TakeSymbol([events |-> events, rest |-> <<h1, h2>>], LineFeed)
        = [events |-> events, rest |-> <<h1, h2, LineFeed>>]
  <2>1. Last(<<h1, h2>>) = h2
    BY DEF Last
  <2>2. Append(<<h1, h2>>, LineFeed) = <<h1, h2, LineFeed>>
    BY OfThree
  <2>3. QED
    BY <1>1, <2>1, <2>2 DEF TakeSymbol
<1>6. TakeSymbol([events |-> events, rest |-> <<h1, h2, LineFeed>>], LineFeed)
        = [events |-> Append(events, <<h1, h2>>), rest |-> <<>>]
  <2>1. Last(<<h1, h2, LineFeed>>) = LineFeed /\ <<h1, h2, LineFeed>> # <<>>
    BY DEF Last
  <2>2. Front(<<h1, h2, LineFeed>>) = <<h1, h2>>
    <3>1. Len(<<h1, h2, LineFeed>>) - 1 = 2
      OBVIOUS
    <3>2. QED
      BY <3>1, OfThree DEF Front
  <2>3. QED
    BY <2>1, <2>2 DEF TakeSymbol
<1>7. QED
  BY <1>2, <1>3, <1>4, <1>5, <1>6 DEF h1, h2

\* A segment of the wire from the start of an event: its symbols, and what it
\* is if it is shorter than the event.
LEMMA SegmentIs ==
  ASSUME NEW says \in Answers, NEW q \in 0 .. WireLength, NEW n \in 4 * q .. 4 * WireLength
  PROVE  /\ SubSeq(Wire(says), 4 * q + 1, n) \in Seq(Symbol)
         /\ Len(SubSeq(Wire(says), 4 * q + 1, n)) = n - 4 * q
         /\ \A i \in 1 .. n - 4 * q : SubSeq(Wire(says), 4 * q + 1, n)[i] = Wire(says)[4 * q + i]
<1>1. WireLength \in Nat /\ Wire(says) \in Seq(Symbol) /\ Len(Wire(says)) = 4 * WireLength
  BY AnswerIs, WireIs
<1>2. \A i \in 4 * q + 1 .. n : i \in 1 .. 4 * WireLength
  BY <1>1
<1>3. 4 * q + 1 \in Int /\ n \in Int /\ n >= 4 * q /\ \A i \in 4 * q + 1 .. n : Wire(says)[i] \in Symbol
  BY <1>1, <1>2
<1>4. /\ SubSeq(Wire(says), 4 * q + 1, n) \in Seq(Symbol)
      /\ Len(SubSeq(Wire(says), 4 * q + 1, n)) = IF 4 * q + 1 <= n THEN n - (4 * q + 1) + 1 ELSE 0
      /\ \A i \in 1 .. n - (4 * q + 1) + 1 :
           SubSeq(Wire(says), 4 * q + 1, n)[i] = Wire(says)[4 * q + 1 + i - 1]
  BY <1>3, SubSeqProperties
<1>5. n - (4 * q + 1) + 1 = n - 4 * q /\ \A i \in 1 .. n - 4 * q : 4 * q + 1 + i - 1 = 4 * q + i
  BY <1>3
<1>6. QED
  BY <1>3, <1>4, <1>5

\* The symbols behind the last whole event.
LEMMA RestIs ==
  ASSUME NEW says \in Answers, NEW q \in 0 .. WireLength, NEW r \in 0 .. 3, 4 * q + r <= 4 * WireLength
  PROVE  SubSeq(Wire(says), 4 * q + 1, 4 * q + r) = SoFar(says[q + 1], r)
<1> DEFINE n == 4 * q + r
           s == SubSeq(Wire(says), 4 * q + 1, n)
           t == SoFar(says[q + 1], r)
<1>1. WireLength \in Nat /\ q \in Nat /\ n \in 4 * q .. 4 * WireLength /\ n - 4 * q = r
  BY AnswerIs
<1>2. s \in Seq(Symbol) /\ Len(s) = r /\ \A i \in 1 .. r : s[i] = Wire(says)[4 * q + i]
  BY <1>1, SegmentIs
<1> HIDE DEF s, n
<1>3. CASE r = 0
  <2>1. s = <<>>
    BY <1>2, <1>3
  <2>2. QED
    BY <1>3, <2>1, SoFarIs DEF s, n
<1>4. CASE r # 0
  <2> DEFINE data == says[q + 1]
             h1 == Half(1, data)
             h2 == Half(2, data)
  <2>1. q \in 0 .. WireLength - 1 /\ q + 1 \in 1 .. WireLength
    BY <1>1, <1>4 DEF n
  <2>2. data \in Data
    BY <2>1, AnswerIs
  <2>3. h1 \in Symbol /\ h2 \in Symbol /\ LineFeed \in Symbol
    BY <2>2, LineFeedType DEF Half, Symbol
  <2>4. Wire(says)[4 * q + 1] = h1 /\ Wire(says)[4 * q + 2] = h2 /\ Wire(says)[4 * q + 3] = LineFeed
    BY <2>1, WireIs
  <2>5. r \in 1 .. 3
    BY <1>4
  <2>6. \A i \in 1 .. 3 : i = 1 \/ i = 2 \/ i = 3
    OBVIOUS
  <2>7. /\ r = 1 => t = <<h1>>
        /\ r = 2 => t = <<h1, h2>>
        /\ r = 3 => t = <<h1, h2, LineFeed>>
    BY SoFarIs
  <2> HIDE DEF h1, h2, t
  <2>8. t \in Seq(Symbol) /\ Len(t) = r
    <3>1. <<h1>> \in Seq(Symbol) /\ Len(<<h1>>) = 1
      BY <2>3
    <3>2. <<h1, h2>> \in Seq(Symbol) /\ Len(<<h1, h2>>) = 2
      BY <2>3
    <3>3. <<h1, h2, LineFeed>> \in Seq(Symbol) /\ Len(<<h1, h2, LineFeed>>) = 3
      BY <2>3
    <3>4. QED
      BY <2>5, <2>6, <2>7, <3>1, <3>2, <3>3
  <2>9. /\ t[1] = h1
        /\ r \in {2, 3} => t[2] = h2
        /\ r = 3 => t[3] = LineFeed
    BY <2>5, <2>6, <2>7
  <2>10. ASSUME NEW i \in 1 .. r PROVE s[i] = t[i]
    <3>1. i \in 1 .. 3 /\ (i = 2 => r \in {2, 3}) /\ (i = 3 => r = 3)
      BY <2>5
    <3>2. s[i] = Wire(says)[4 * q + i]
      BY <1>2
    <3>3. QED
      BY <2>4, <2>6, <2>9, <3>1, <3>2
  <2>11. s = t
    BY <1>2, <2>8, <2>10, SeqEqual
  <2>12. QED
    BY <2>11 DEF s, t, n
<1>5. QED
  BY <1>3, <1>4

\* The lines of some events, behind the first q.
Lines(says, q, m) == [k \in 1 .. m |-> Line(says[q + k])]

LEMMA LinesAppend ==
  ASSUME NEW says, NEW q, NEW m \in Nat
  PROVE  Append(Lines(says, q, m), Line(says[q + (m + 1)])) = Lines(says, q, m + 1)
<1>1. Len(Lines(says, q, m)) = m
  BY DEF Lines
<1>2. Append(Lines(says, q, m), Line(says[q + (m + 1)]))
        = [k \in 1 .. m + 1 |-> IF k = m + 1 THEN Line(says[q + (m + 1)]) ELSE Lines(says, q, m)[k]]
  BY <1>1
<1>3. \A k \in 1 .. m + 1 : k # m + 1 => k \in 1 .. m
  OBVIOUS
<1>4. \A k \in 1 .. m + 1 :
        (IF k = m + 1 THEN Line(says[q + (m + 1)]) ELSE Lines(says, q, m)[k]) = Line(says[q + k])
  BY <1>3 DEF Lines
<1>5. QED
  BY <1>2, <1>4 DEF Lines

\* A segment from the start of an event is split into its whole events and
\* what has come of the next.
LEMMA SplitOfSegment ==
  ASSUME NEW says \in Answers, NEW q \in 0 .. WireLength,
         NEW e \in Nat, NEW r \in 0 .. 3, 4 * (q + e) + r <= 4 * WireLength
  PROVE  Split(SubSeq(Wire(says), 4 * q + 1, 4 * (q + e) + r))
           = [events |-> Lines(says, q, e), rest |-> SoFar(says[q + e + 1], r)]
<1> DEFINE n == 4 * (q + e) + r
           m == n - 4 * q
           s == SubSeq(Wire(says), 4 * q + 1, n)
           PartsAt(d, x) == [events |-> Lines(says, q, d), rest |-> SoFar(says[q + d + 1], x)]
           Good == {i \in 0 .. m : \A d \in Nat, x \in 0 .. 3 :
                      i = 4 * d + x => SplitUpto(s)[i] = PartsAt(d, x)}
<1>1. /\ WireLength \in Nat /\ q \in Nat /\ n \in 4 * q .. 4 * WireLength /\ m \in Nat /\ m = 4 * e + r
      /\ m <= 4 * WireLength - 4 * q
  BY AnswerIs
<1>2. s \in Seq(Symbol) /\ Len(s) = m /\ \A i \in 1 .. m : s[i] = Wire(says)[4 * q + i]
  BY <1>1, SegmentIs
<1> HIDE DEF s, n, m, PartsAt
<1>3. /\ SplitUpto(s)[0] = [events |-> <<>>, rest |-> <<>>]
      /\ \A i \in 1 .. m : SplitUpto(s)[i] = TakeSymbol(SplitUpto(s)[i - 1], s[i])
  BY <1>2, SplitDef
<1>4. 0 \in Good
  <2>1. \A d \in Nat, x \in 0 .. 3 : 0 = 4 * d + x => d = 0 /\ x = 0
    OBVIOUS
  <2>2. PartsAt(0, 0) = [events |-> <<>>, rest |-> <<>>]
    BY SoFarIs DEF PartsAt, Lines
  <2>3. QED
    BY <1>1, <1>3, <2>1, <2>2
<1>5. ASSUME NEW i \in 1 .. m, i - 1 \in Good PROVE i \in Good
  <2> SUFFICES ASSUME NEW d \in Nat, NEW x \in 0 .. 3, i = 4 * d + x
               PROVE  SplitUpto(s)[i] = PartsAt(d, x)
    BY <1>1
  <2>1. /\ SplitUpto(s)[i] = TakeSymbol(SplitUpto(s)[i - 1], s[i]) /\ s[i] = Wire(says)[4 * q + i]
        /\ \A c \in Nat, y \in 0 .. 3 : i - 1 = 4 * c + y => SplitUpto(s)[i - 1] = PartsAt(c, y)
    BY <1>2, <1>3, <1>5
  <2>2. CASE x = 0
    <3> DEFINE c == d - 1
               b == q + c
               data == says[b + 1]
    <3>1. /\ c \in Nat /\ i - 1 = 4 * c + 3 /\ b \in 0 .. WireLength - 1 /\ b + 1 \in 1 .. WireLength
          /\ 4 * q + i = 4 * b + 4 /\ q + c + 1 = b + 1 /\ q + (c + 1) = b + 1 /\ c + 1 = d
      BY <1>1, <2>2
    <3> HIDE DEF c, b
    <3>2. data \in Data
      BY <3>1, AnswerIs
    <3>3. s[i] = LineFeed
      BY <2>1, <3>1, WireIs
    <3>4. SplitUpto(s)[i - 1] = [events |-> Lines(says, q, c), rest |-> SoFar(data, 3)]
      <4>1. SplitUpto(s)[i - 1] = PartsAt(c, 3)
        BY <2>1, <3>1
      <4>2. PartsAt(c, 3) = [events |-> Lines(says, q, c), rest |-> SoFar(data, 3)]
        BY <3>1 DEF PartsAt
      <4>3. QED
        BY <4>1, <4>2
    <3>5. SplitUpto(s)[i] = [events |-> Append(Lines(says, q, c), Line(data)), rest |-> <<>>]
      BY <2>1, <3>2, <3>3, <3>4, TakeNext
    <3>6. Append(Lines(says, q, c), Line(data)) = Lines(says, q, d)
      BY <3>1, LinesAppend
    <3>7. PartsAt(d, 0) = [events |-> Lines(says, q, d), rest |-> <<>>]
      BY SoFarIs DEF PartsAt
    <3>8. QED
      BY <2>2, <3>5, <3>6, <3>7
  <2>3. CASE x # 0
    <3> DEFINE b == q + d
               data == says[b + 1]
    <3>1. /\ x \in 1 .. 3 /\ x - 1 \in 0 .. 3 /\ i - 1 = 4 * d + (x - 1)
          /\ b \in 0 .. WireLength - 1 /\ b + 1 \in 1 .. WireLength /\ 4 * q + i = 4 * b + x
          /\ q + d + 1 = b + 1
      BY <1>1, <2>3
    <3> HIDE DEF b
    <3>2. data \in Data
      BY <3>1, AnswerIs
    <3>3. \A y \in 0 .. 3 : PartsAt(d, y) = [events |-> Lines(says, q, d), rest |-> SoFar(data, y)]
      BY <3>1 DEF PartsAt
    <3>4. SplitUpto(s)[i - 1] = PartsAt(d, x - 1)
      BY <2>1, <3>1
    <3>5. /\ Wire(says)[4 * b + 1] = Half(1, data) /\ Wire(says)[4 * b + 2] = Half(2, data)
          /\ Wire(says)[4 * b + 3] = LineFeed
      BY <3>1, WireIs
    <3> HIDE DEF data
    <3> DEFINE events == Lines(says, q, d)
    <3>6. /\ TakeSymbol([events |-> events, rest |-> SoFar(data, 0)], Half(1, data))
                = [events |-> events, rest |-> SoFar(data, 1)]
           /\ TakeSymbol([events |-> events, rest |-> SoFar(data, 1)], Half(2, data))
                = [events |-> events, rest |-> SoFar(data, 2)]
           /\ TakeSymbol([events |-> events, rest |-> SoFar(data, 2)], LineFeed)
                = [events |-> events, rest |-> SoFar(data, 3)]
      <4> HIDE DEF events
      <4>1. QED
        BY <3>2, TakeNext
    <3>7. /\ TakeSymbol(PartsAt(d, 0), Half(1, data)) = PartsAt(d, 1)
           /\ TakeSymbol(PartsAt(d, 1), Half(2, data)) = PartsAt(d, 2)
           /\ TakeSymbol(PartsAt(d, 2), LineFeed) = PartsAt(d, 3)
      BY <3>3, <3>6
    <3>8. CASE x = 1
      <4>1. s[i] = Half(1, data) /\ SplitUpto(s)[i - 1] = PartsAt(d, 0)
        BY <2>1, <3>1, <3>4, <3>5, <3>8
      <4>2. QED
        BY <2>1, <3>8, <3>7, <4>1
    <3>9. CASE x = 2
      <4>1. s[i] = Half(2, data) /\ SplitUpto(s)[i - 1] = PartsAt(d, 1)
        BY <2>1, <3>1, <3>4, <3>5, <3>9
      <4>2. QED
        BY <2>1, <3>9, <3>7, <4>1
    <3>10. CASE x = 3
      <4>1. s[i] = LineFeed /\ SplitUpto(s)[i - 1] = PartsAt(d, 2)
        BY <2>1, <3>1, <3>4, <3>5, <3>10
      <4>2. QED
        BY <2>1, <3>10, <3>7, <4>1
    <3>11. QED
      BY <3>1, <3>8, <3>9, <3>10
  <2>4. QED
    BY <2>2, <2>3
<1>6. \A i \in 0 .. m : i \in Good
  <2> HIDE DEF Good
  <2>1. QED
    BY <1>1, <1>4, <1>5, Upwards
<1>7. SplitUpto(s)[m] = PartsAt(e, r)
  <2>1. m \in 0 .. m
    BY <1>1
  <2>2. m \in Good
    BY <1>6, <2>1
  <2>3. QED
    BY <1>1, <2>2
<1>8. Split(s) = PartsAt(e, r)
  BY <1>2, <1>7 DEF Split
<1>9. QED
  BY <1>8 DEF s, n, PartsAt

LEMMA ListsAppend ==
  ASSUME NEW seq \in Seq(Nat), NEW set, Lists(seq, set), NEW n \in Nat, \A i \in set : i < n
  PROVE  Lists(Append(seq, n), set \cup {n})
<1> DEFINE m == Len(seq)
           more == Append(seq, n)
<1>1. m \in Nat /\ DOMAIN seq = 1 .. m /\ \A i \in 1 .. m : seq[i] \in Nat
  OBVIOUS
<1>2. DOMAIN more = 1 .. m + 1 /\ more[m + 1] = n /\ \A i \in 1 .. m : more[i] = seq[i]
  BY <1>1
<1>3. \A i \in 1 .. m + 1 : i \in 1 .. m \/ i = m + 1
  BY <1>1
<1>4. {seq[i] : i \in 1 .. m} = set /\ \A i, j \in 1 .. m : i < j => seq[i] < seq[j]
  BY <1>1 DEF Lists
<1>5. m + 1 \in 1 .. m + 1 /\ \A i \in 1 .. m : i \in 1 .. m + 1 /\ ~(m + 1 < i)
  BY <1>1
<1> HIDE DEF m, more
<1>6. {more[i] : i \in 1 .. m + 1} = set \cup {n}
  BY <1>2, <1>3, <1>4, <1>5
<1>7. ASSUME NEW i \in 1 .. m + 1, NEW j \in 1 .. m + 1, i < j PROVE more[i] < more[j]
  <2>1. i \in 1 .. m
    BY <1>1, <1>7
  <2>2. CASE j \in 1 .. m
    BY <1>2, <1>4, <1>7, <2>1, <2>2
  <2>3. CASE j = m + 1
    BY <1>2, <1>4, <2>1, <2>3
  <2>4. QED
    BY <1>3, <2>2, <2>3
<1>8. QED
  BY <1>2, <1>6, <1>7 DEF Lists, more

LEMMA PiecesNext ==
  ASSUME NEW says, NEW e \in Nat, NEW kind, NEW c
  PROVE  Pieces(says, e + 1, kind, c)
           = IF says[e + 1].kind = kind /\ says[e + 1].call = c
             THEN Pieces(says, e, kind, c) \cup {e + 1} ELSE Pieces(says, e, kind, c)
<1>1. \A i \in 1 .. e + 1 : i \in 1 .. e \/ i = e + 1
  OBVIOUS
<1>2. e + 1 \in 1 .. e + 1 /\ \A i \in 1 .. e : i \in 1 .. e + 1
  OBVIOUS
<1>3. QED
  BY <1>1, <1>2 DEF Pieces

\* What an event says: its line, if that is whole.
LEMMA DataIs ==
  ASSUME NEW data
  PROVE  DataOf(Line(data)) = data /\ DataOf(<<Half(1, data)>>) = Junk /\ DataOf(<<>>) = Junk
<1>1. /\ Half(1, data).half = 1 /\ Half(2, data).half = 2 /\ Half(1, data).data = data
  BY DEF Half
<1>2. DataOf(Line(data)) = data
  <2>1. Len(Line(data)) = 2 /\ Line(data)[1] = Half(1, data) /\ Line(data)[2] = Half(2, data)
    BY DEF Line
  <2>2. WholeLines(Line(data)) = {1}
    <3>1. \A i : i \in 1 .. 2 - 1 <=> i = 1
      OBVIOUS
    <3>2. \A i \in 1 .. 2 - 1 : Line(data)[i].half = 1 /\ Line(data)[i + 1].half = 2
      BY <1>1, <2>1, <3>1
    <3>3. QED
      BY <2>1, <3>1, <3>2 DEF WholeLines
  <2>3. (CHOOSE i \in {1} : \A j \in {1} : j <= i) = 1
    OBVIOUS
  <2>4. QED
    BY <1>1, <2>1, <2>2, <2>3 DEF DataOf
<1>3. DataOf(<<Half(1, data)>>) = Junk
  <2>1. Len(<<Half(1, data)>>) = 1
    OBVIOUS
  <2>2. WholeLines(<<Half(1, data)>>) = {}
    BY <2>1 DEF WholeLines
  <2>3. QED
    BY <2>2 DEF DataOf
<1>4. DataOf(<<>>) = Junk
  <2>1. Len(<<>>) = 0
    OBVIOUS
  <2>2. WholeLines(<<>>) = {}
    BY <2>1 DEF WholeLines
  <2>3. QED
    BY <2>2 DEF DataOf
<1>5. QED
  BY <1>2, <1>3, <1>4

\* The handler has heard the first e events of an answer.
EndsBy(says, e) == \E i \in 1 .. e : says[i] = Ending
Heard(handler, says, e) ==
  /\ handler \in Handler
  /\ Lists(handler.text, Pieces(says, e, "text", 0))
  /\ \A c \in Indexes : Lists(handler.calls[c], Pieces(says, e, "call", c))
  /\ handler.finished = EndsBy(says, e)
  /\ handler.dones = IF handler.finished THEN 1 ELSE 0

LEMMA HeardNothing ==
  ASSUME NEW says
  PROVE  Heard(NewHandler, says, 0)
<1>1. NewHandler \in Handler /\ NewHandler.text = <<>> /\ \A c \in Indexes : NewHandler.calls[c] = <<>>
  BY DEF NewHandler, Handler
<1>2. NewHandler.finished = FALSE /\ NewHandler.dones = 0
  BY DEF NewHandler
<1>3. \A kind, c : Pieces(says, 0, kind, c) = {}
  BY DEF Pieces
<1>4. Lists(<<>>, {})
  BY DEF Lists
<1>5. EndsBy(says, 0) = FALSE
  BY DEF EndsBy
<1>6. QED
  BY <1>1, <1>2, <1>3, <1>4, <1>5 DEF Heard

LEMMA EndsNext ==
  ASSUME NEW says, NEW e \in Nat
  PROVE  EndsBy(says, e + 1) = (EndsBy(says, e) \/ says[e + 1] = Ending)
<1>1. \A i \in 1 .. e + 1 : i \in 1 .. e \/ i = e + 1
  OBVIOUS
<1>2. e + 1 \in 1 .. e + 1 /\ \A i \in 1 .. e : i \in 1 .. e + 1
  OBVIOUS
<1>3. EndsBy(says, e + 1) <=> (EndsBy(says, e) \/ says[e + 1] = Ending)
  BY <1>1, <1>2 DEF EndsBy
<1>4. EndsBy(says, e + 1) \in BOOLEAN
  BY DEF EndsBy
<1>5. QED
  BY <1>3, <1>4

\* The fields of a handler that has processed one more event.
LEMMA FinishIs ==
  ASSUME NEW handler \in Handler
  PROVE  /\ Finish_(handler).buffer = handler.buffer
         /\ Finish_(handler).text = handler.text
         /\ Finish_(handler).calls = handler.calls
         /\ Finish_(handler).finished = TRUE
         /\ Finish_(handler).dones = IF handler.finished THEN handler.dones ELSE handler.dones + 1
<1>1. handler.finished \in BOOLEAN
  BY DEF Handler
<1>2. CASE handler.finished
  BY <1>1, <1>2 DEF Finish_
<1>3. CASE ~handler.finished
  BY <1>3 DEF Finish_, Handler
<1>4. QED
  BY <1>2, <1>3

LEMMA HeardNext ==
  ASSUME NEW says \in Answers, NEW e \in Nat, e + 1 <= WireLength, NEW handler, Heard(handler, says, e)
  PROVE  /\ Heard(ProcessEvent(handler, Line(says[e + 1])), says, e + 1)
         /\ ProcessEvent(handler, Line(says[e + 1])).buffer = handler.buffer
<1> DEFINE n == e + 1
           said == says[n]
           next == ProcessEvent(handler, Line(said))
<1>1. n \in 1 .. WireLength /\ n \in Nat /\ said \in EventsAt(n) /\ said \in Data
  BY AnswerIs
<1>2. /\ handler \in Handler /\ DataOf(Line(said)) = said
      /\ handler.finished \in BOOLEAN /\ handler.text \in Seq(Nat)
      /\ handler.calls \in [Indexes -> Seq(Nat)]
  BY DataIs DEF Heard, Handler
<1>3. next \in Handler
  <2>1. Half(1, said) \in Symbol /\ Half(2, said) \in Symbol
    BY <1>1 DEF Half, Symbol
  <2>2. Line(said) \in Seq(Symbol)
    BY <2>1 DEF Line
  <2>3. QED
    BY <1>2, <2>2, ProcessType
<1>4. \A kind, c : \A i \in Pieces(says, e, kind, c) : i < n
  BY DEF Pieces
<1>5. /\ Lists(handler.text, Pieces(says, e, "text", 0))
      /\ \A c \in Indexes : Lists(handler.calls[c], Pieces(says, e, "call", c))
      /\ handler.finished = EndsBy(says, e)
      /\ handler.dones = IF handler.finished THEN 1 ELSE 0
  BY DEF Heard
<1>6. EndsBy(says, n) = (EndsBy(says, e) \/ said = Ending)
  BY EndsNext
<1>7. \A kind, c : Pieces(says, n, kind, c)
                     = IF said.kind = kind /\ said.call = c
                       THEN Pieces(says, e, kind, c) \cup {n} ELSE Pieces(says, e, kind, c)
  BY PiecesNext
<1> HIDE DEF n, said, next
<1>8. CASE said = Text(n)
  <2>1. said.kind = "text" /\ said.call = 0 /\ said.piece = n /\ said # Ending
    BY <1>8 DEF Text, Ending
  <2>2. next = [handler EXCEPT !.text = Append(handler.text, n)]
    BY <1>2, <2>1 DEF next, ProcessEvent
  <2>3. /\ next.text = Append(handler.text, n) /\ next.calls = handler.calls
        /\ next.finished = handler.finished /\ next.dones = handler.dones /\ next.buffer = handler.buffer
    BY <1>2, <2>2 DEF Handler
  <2>4. Pieces(says, n, "text", 0) = Pieces(says, e, "text", 0) \cup {n}
    BY <1>7, <2>1
  <2>5. \A c : Pieces(says, n, "call", c) = Pieces(says, e, "call", c)
    BY <1>7, <2>1
  <2>6. Lists(next.text, Pieces(says, n, "text", 0))
    BY <1>1, <1>2, <1>4, <1>5, <2>3, <2>4, ListsAppend
  <2>7. EndsBy(says, n) = EndsBy(says, e)
    BY <1>2, <1>5, <1>6, <2>1
  <2>8. Heard(next, says, n)
    BY <1>3, <1>5, <2>3, <2>5, <2>6, <2>7 DEF Heard
  <2>9. QED
    BY <2>3, <2>8 DEF next, said, n
<1>9. CASE \E c \in Indexes : said = Fragment(c, n)
  <2>1. PICK k \in Indexes : said = Fragment(k, n)
    BY <1>9
  <2>2. said.kind = "call" /\ said.call = k /\ said.piece = n /\ said # Ending
    BY <2>1 DEF Fragment, Ending
  <2> DEFINE calls == [handler.calls EXCEPT ![k] = Append(handler.calls[k], n)]
  <2>3. next = [handler EXCEPT !.calls = calls]
    BY <1>2, <2>2 DEF next, ProcessEvent
  <2>4. /\ calls[k] = Append(handler.calls[k], n) /\ handler.calls[k] \in Seq(Nat)
        /\ \A c \in Indexes : c # k => calls[c] = handler.calls[c]
    BY <1>2
  <2> HIDE DEF calls
  <2>5. /\ next.text = handler.text /\ next.calls = calls
        /\ next.finished = handler.finished /\ next.dones = handler.dones /\ next.buffer = handler.buffer
    BY <1>2, <2>3 DEF Handler
  <2>6. Pieces(says, n, "text", 0) = Pieces(says, e, "text", 0)
    BY <1>7, <2>2
  <2>7. /\ Pieces(says, n, "call", k) = Pieces(says, e, "call", k) \cup {n}
        /\ \A c \in Indexes : c # k => Pieces(says, n, "call", c) = Pieces(says, e, "call", c)
    BY <1>7, <2>2
  <2>8. Lists(calls[k], Pieces(says, n, "call", k))
    BY <1>1, <1>4, <1>5, <2>4, <2>7, ListsAppend
  <2>9. \A c \in Indexes : Lists(next.calls[c], Pieces(says, n, "call", c))
    BY <1>5, <2>4, <2>5, <2>7, <2>8
  <2>10. EndsBy(says, n) = EndsBy(says, e)
    BY <1>2, <1>5, <1>6, <2>2
  <2>11. Heard(next, says, n)
    BY <1>3, <1>5, <2>5, <2>6, <2>9, <2>10 DEF Heard
  <2>12. QED
    BY <2>5, <2>11 DEF next, said, n
<1>10. CASE said = Ending
  <2>1. said.kind = "stop"
    BY <1>10 DEF Ending
  <2>2. next = Finish_(handler)
    BY <1>2, <2>1 DEF next, ProcessEvent
  <2>3. /\ next.text = handler.text /\ next.calls = handler.calls /\ next.buffer = handler.buffer
        /\ next.finished = TRUE
        /\ next.dones = IF handler.finished THEN handler.dones ELSE handler.dones + 1
    BY <1>2, <2>2, FinishIs
  <2>4. \A c : /\ Pieces(says, n, "text", c) = Pieces(says, e, "text", c)
               /\ Pieces(says, n, "call", c) = Pieces(says, e, "call", c)
    BY <1>7, <2>1
  <2>5. EndsBy(says, n) = TRUE
    BY <1>6, <1>10
  <2>6. next.dones = 1
    BY <1>5, <2>3
  <2>7. Heard(next, says, n)
    BY <1>3, <1>5, <2>3, <2>4, <2>5, <2>6 DEF Heard
  <2>8. QED
    BY <2>3, <2>7 DEF next, said, n
<1>11. CASE said = Junk
  <2>1. said.kind = "junk" /\ said # Ending
    BY <1>11 DEF Junk, Ending
  <2>2. next = handler
    BY <1>2, <2>1 DEF next, ProcessEvent
  <2>3. \A c : /\ Pieces(says, n, "text", c) = Pieces(says, e, "text", c)
               /\ Pieces(says, n, "call", c) = Pieces(says, e, "call", c)
    BY <1>7, <2>1
  <2>4. EndsBy(says, n) = EndsBy(says, e)
    BY <1>2, <1>5, <1>6, <2>1
  <2>5. Heard(next, says, n)
    BY <1>3, <1>5, <2>2, <2>3, <2>4 DEF Heard
  <2>6. QED
    BY <2>2, <2>5 DEF next, said, n
<1>12. QED
  BY <1>1, <1>8, <1>9, <1>10, <1>11 DEF EventsAt

\* Some whole events, one after another.
LEMMA HeardLines ==
  ASSUME NEW says \in Answers, NEW q \in Nat, NEW e \in Nat, q + e <= WireLength,
         NEW handler, Heard(handler, says, q)
  PROVE  /\ Heard(ProcessAll(handler, Lines(says, q, e)), says, q + e)
         /\ ProcessAll(handler, Lines(says, q, e)).buffer = handler.buffer
<1> DEFINE events == Lines(says, q, e)
           upto == ProcessUpto(handler, events)
           Good == {i \in 0 .. e : Heard(upto[i], says, q + i) /\ upto[i].buffer = handler.buffer}
<1>1. handler \in Handler /\ WireLength \in Nat
  BY AnswerIs DEF Heard
<1>2. Len(events) = e /\ \A i \in 1 .. e : events[i] = Line(says[q + i])
  BY DEF Lines
<1>3. events \in Seq(Seq(Symbol))
  <2>1. ASSUME NEW i \in 1 .. e PROVE Line(says[q + i]) \in Seq(Symbol)
    <3>1. q + i \in 1 .. WireLength
      BY <1>1
    <3>2. Half(1, says[q + i]) \in Symbol /\ Half(2, says[q + i]) \in Symbol
      BY <3>1, AnswerIs DEF Half, Symbol
    <3>3. QED
      BY <3>2 DEF Line
  <2>2. events \in [1 .. e -> Seq(Symbol)]
    BY <2>1 DEF Lines
  <2> HIDE DEF events
  <2>3. QED
    BY <2>2
<1> HIDE DEF events
<1>4. upto[0] = handler /\ \A i \in 1 .. e : upto[i] = ProcessEvent(upto[i - 1], events[i])
  BY <1>1, <1>2, <1>3, ProcessDef
<1> HIDE DEF upto
<1>5. 0 \in Good
  BY <1>4
<1>6. ASSUME NEW i \in 1 .. e, i - 1 \in Good PROVE i \in Good
  <2> DEFINE b == q + (i - 1)
  <2>1. b \in Nat /\ b + 1 = q + i /\ b + 1 <= WireLength
    BY <1>1
  <2>2. Heard(upto[i - 1], says, b) /\ upto[i - 1].buffer = handler.buffer
    BY <1>6
  <2>3. upto[i] = ProcessEvent(upto[i - 1], Line(says[b + 1]))
    BY <1>2, <1>4, <2>1
  <2> HIDE DEF b
  <2>4. Heard(upto[i], says, b + 1) /\ upto[i].buffer = handler.buffer
    BY <2>1, <2>2, <2>3, HeardNext
  <2>5. QED
    BY <2>1, <2>4
<1>7. \A i \in 0 .. e : i \in Good
  <2> HIDE DEF Good
  <2>1. QED
    BY <1>5, <1>6, Upwards
<1>8. e \in Good
  BY <1>7
<1>9. ProcessAll(handler, events) = upto[e]
  BY <1>2 DEF ProcessAll, upto
<1>10. QED
  BY <1>8, <1>9 DEF events

\* The buffer is not what a handler has heard.
LEMMA HeardBuffer ==
  ASSUME NEW says, NEW e, NEW handler, Heard(handler, says, e), NEW rest \in Seq(Symbol)
  PROVE  /\ Heard([handler EXCEPT !.buffer = rest], says, e)
         /\ [handler EXCEPT !.buffer = rest].buffer = rest
<1> DEFINE h == [handler EXCEPT !.buffer = rest]
<1>1. handler \in Handler
  BY DEF Heard
<1>2. /\ h \in Handler /\ h.buffer = rest /\ h.text = handler.text /\ h.calls = handler.calls
      /\ h.finished = handler.finished /\ h.dones = handler.dones
  BY <1>1 DEF Handler
<1> HIDE DEF h
<1>3. Heard(h, says, e)
  BY <1>2 DEF Heard
<1>4. QED
  BY <1>2, <1>3 DEF h

LEMMA DividedByFour ==
  ASSUME NEW n \in Nat
  PROVE  n \div 4 \in Nat /\ n % 4 \in 0 .. 3 /\ n = 4 * (n \div 4) + (n % 4)
OBVIOUS

LEMMA SoFarType ==
  ASSUME NEW data \in Data, NEW r \in 0 .. 3
  PROVE  SoFar(data, r) \in Seq(Symbol)
<1>1. Half(1, data) \in Symbol /\ Half(2, data) \in Symbol /\ LineFeed \in Symbol
  BY LineFeedType DEF Half, Symbol
<1>2. /\ <<>> \in Seq(Symbol) /\ <<Half(1, data)>> \in Seq(Symbol)
      /\ <<Half(1, data), Half(2, data)>> \in Seq(Symbol)
      /\ <<Half(1, data), Half(2, data), LineFeed>> \in Seq(Symbol)
  BY <1>1
<1>3. r = 0 \/ r = 1 \/ r = 2 \/ r = 3
  OBVIOUS
<1>4. QED
  BY <1>2, <1>3, SoFarIs

\* The handler has read the first n symbols of an answer: it has heard the
\* events that are whole, and its buffer is what has come of the next.
HasRead(handler, says, n) ==
  /\ Heard(handler, says, n \div 4)
  /\ handler.buffer = SoFar(says[n \div 4 + 1], n % 4)

LEMMA ReadNothing ==
  ASSUME NEW says
  PROVE  HasRead(NewHandler, says, 0)
<1>1. 0 \div 4 = 0 /\ 0 % 4 = 0
  OBVIOUS
<1>2. NewHandler.buffer = <<>>
  BY DEF NewHandler
<1>3. QED
  BY <1>1, <1>2, HeardNothing, SoFarIs DEF HasRead

\* The next chunk, wherever it ends.
LEMMA ReadNext ==
  ASSUME NEW says \in Answers, NEW n \in Nat, NEW next \in n .. 4 * WireLength,
         NEW handler, HasRead(handler, says, n)
  PROVE  HasRead(ProcessChunk(handler, SubSeq(Wire(says), n + 1, next)), says, next)
<1> DEFINE q == n \div 4
           r == n % 4
           e == next \div 4 - n \div 4
           x == next % 4
           wire == Wire(says)
           chunk == SubSeq(wire, n + 1, next)
           rest == SoFar(says[q + e + 1], x)
           kept == [handler EXCEPT !.buffer = rest]
<1>1. /\ WireLength \in Nat /\ q \in 0 .. WireLength /\ r \in 0 .. 3 /\ n = 4 * q + r
      /\ e \in Nat /\ x \in 0 .. 3 /\ next = 4 * (q + e) + x /\ q + e <= WireLength
      /\ next \in Nat /\ next <= 4 * WireLength /\ n <= next /\ next \div 4 = q + e
  BY AnswerIs
<1>2. Heard(handler, says, q) /\ handler.buffer = SoFar(says[q + 1], r)
  BY DEF HasRead
<1>3. wire \in Seq(Symbol) /\ Len(wire) = 4 * WireLength
  BY WireIs
<1> HIDE DEF q, r, e, x, wire
<1>4. handler.buffer = SubSeq(wire, 4 * q + 1, n)
  <2>1. 4 * q + r <= 4 * WireLength
    BY <1>1
  <2>2. SubSeq(Wire(says), 4 * q + 1, 4 * q + r) = SoFar(says[q + 1], r)
    BY <1>1, <2>1, RestIs
  <2>3. QED
    BY <1>1, <1>2, <2>2 DEF wire
<1>5. handler.buffer \o chunk = SubSeq(wire, 4 * q + 1, next)
  <2>1. /\ 4 * q + 1 \in 1 .. Len(wire) + 1 /\ n \in (4 * q + 1) - 1 .. Len(wire)
        /\ next \in n .. Len(wire)
    BY <1>1, <1>3
  <2>2. QED
    BY <1>3, <1>4, <2>1, ConcatAdjacentSubSeq
<1>6. Split(handler.buffer \o chunk) = [events |-> Lines(says, q, e), rest |-> rest]
  <2>1. 4 * (q + e) + x <= 4 * WireLength
    BY <1>1
  <2>2. Split(SubSeq(Wire(says), 4 * q + 1, 4 * (q + e) + x))
          = [events |-> Lines(says, q, e), rest |-> SoFar(says[q + e + 1], x)]
    BY <1>1, <2>1, SplitOfSegment
  <2>3. QED
    BY <1>1, <1>5, <2>2 DEF wire
<1>7. ProcessChunk(handler, chunk) = ProcessAll(kept, Lines(says, q, e))
  BY <1>6 DEF ProcessChunk
<1>8. rest \in Seq(Symbol)
  <2>1. CASE x = 0
    <3>1. rest = <<>>
      BY <2>1, SoFarIs
    <3>2. QED
      BY <3>1
  <2>2. CASE x # 0
    <3>1. q + e + 1 \in 1 .. WireLength
      BY <1>1, <2>2
    <3>2. QED
      BY <1>1, <3>1, AnswerIs, SoFarType
  <2>3. QED
    BY <2>1, <2>2
<1> HIDE DEF rest
<1>9. Heard(kept, says, q) /\ kept.buffer = rest
  BY <1>2, <1>8, HeardBuffer
<1> HIDE DEF kept
<1>10. /\ Heard(ProcessAll(kept, Lines(says, q, e)), says, q + e)
       /\ ProcessAll(kept, Lines(says, q, e)).buffer = rest
  BY <1>1, <1>9, HeardLines
<1>11. QED
  BY <1>1, <1>7, <1>10 DEF HasRead, wire, rest, x

\* What the flush makes of the symbols behind the last whole event.
LastEvent(data, r) ==
  IF r = 0 THEN <<>> ELSE IF r = 1 THEN <<Half(1, data)>> ELSE Line(data)

LEMMA SplitAtEnd ==
  ASSUME NEW data \in Data, NEW r \in 0 .. 3
  PROVE  /\ Split(SoFar(data, r) \o <<LineFeed, LineFeed>>) \in Parts
         /\ Split(SoFar(data, r) \o <<LineFeed, LineFeed>>).events = <<LastEvent(data, r)>>
<1> DEFINE begun == SoFar(data, r)
           t == begun \o <<LineFeed, LineFeed>>
           h1 == Half(1, data)
           h2 == Half(2, data)
           S(i) == SplitUpto(t)[i]
<1>1. h1 \in Symbol /\ h2 \in Symbol /\ LineFeed \in Symbol /\ h1 # LineFeed /\ h2 # LineFeed
  BY LineFeedType, HalvesDiffer DEF Half, Symbol
<1>2. begun \in Seq(Symbol) /\ <<LineFeed, LineFeed>> \in Seq(Symbol)
  BY <1>1, SoFarType
<1>3. /\ Len(begun) = r
      /\ r >= 1 => begun[1] = h1
      /\ r >= 2 => begun[2] = h2
      /\ r = 3 => begun[3] = LineFeed
  <2>1. r = 0 \/ r = 1 \/ r = 2 \/ r = 3
    OBVIOUS
  <2>2. CASE r = 0
    BY <2>2, SoFarIs
  <2>3. CASE r = 1
    BY <2>3, SoFarIs
  <2>4. CASE r = 2
    BY <2>4, SoFarIs
  <2>5. CASE r = 3
    BY <2>5, SoFarIs
  <2>6. QED
    BY <2>1, <2>2, <2>3, <2>4, <2>5
<1> HIDE DEF begun, h1, h2
<1>4. /\ t \in Seq(Symbol) /\ Len(t) = r + 2
      /\ \A i \in 1 .. r + 2 : t[i] = IF i <= r THEN begun[i] ELSE LineFeed
  <2> DEFINE feeds == <<LineFeed, LineFeed>>
  <2>1. Len(feeds) = 2 /\ \A i \in 1 .. 2 : feeds[i] = LineFeed
    OBVIOUS
  <2> HIDE DEF feeds
  <2>2. /\ begun \o feeds \in Seq(Symbol) /\ Len(begun \o feeds) = r + 2
        /\ \A i \in 1 .. r + 2 : (begun \o feeds)[i] = IF i <= r THEN begun[i] ELSE feeds[i - r]
    BY <1>2, <1>3, <2>1, ConcatProperties DEF feeds
  <2>3. \A i \in 1 .. r + 2 : i <= r \/ i - r \in 1 .. 2
    OBVIOUS
  <2>4. QED
    BY <2>1, <2>2, <2>3 DEF feeds
<1> SUFFICES Split(t) \in Parts /\ Split(t).events = <<LastEvent(data, r)>>
  BY DEF begun
<1> HIDE DEF t
<1>5. S(0) = [events |-> <<>>, rest |-> <<>>] /\ \A i \in 1 .. r + 2 : S(i) = TakeSymbol(S(i - 1), t[i])
  BY <1>4, SplitDef
<1>6. Split(t) = S(r + 2) /\ Split(t) \in Parts
  BY <1>4, SplitDef DEF Split
<1>7. \A events : /\ TakeSymbol([events |-> events, rest |-> <<>>], LineFeed)
                        = [events |-> events, rest |-> <<LineFeed>>]
                  /\ TakeSymbol([events |-> events, rest |-> <<LineFeed>>], LineFeed)
                        = [events |-> Append(events, <<>>), rest |-> <<>>]
  <2>1. Last(<<LineFeed>>) = LineFeed /\ Front(<<LineFeed>>) = <<>>
    BY DEF Last, Front
  <2>2. QED
    BY <2>1 DEF TakeSymbol
<1> HIDE DEF S
<1>8. CASE r = 0
  <2>1. S(1) = TakeSymbol(S(0), LineFeed) /\ S(2) = TakeSymbol(S(1), LineFeed)
    BY <1>4, <1>5, <1>8
  <2>2. S(2) = [events |-> Append(<<>>, <<>>), rest |-> <<>>]
    BY <1>5, <1>7, <2>1
  <2>3. Append(<<>>, <<>>) = << <<>> >> /\ <<>> \in Seq(Symbol)
    OBVIOUS
  <2>4. QED
    BY <1>6, <1>8, <2>2, <2>3 DEF LastEvent
<1>9. CASE r = 1
  <2>1. S(1) = TakeSymbol(S(0), h1) /\ S(2) = TakeSymbol(S(1), LineFeed) /\ S(3) = TakeSymbol(S(2), LineFeed)
    BY <1>3, <1>4, <1>5, <1>9
  <2>2. S(1) = [events |-> <<>>, rest |-> <<h1>>]
    <3>1. TakeSymbol([events |-> <<>>, rest |-> <<>>], h1) = [events |-> <<>>, rest |-> <<h1>>]
      BY <1>1 DEF TakeSymbol
    <3>2. QED
      BY <1>5, <2>1, <3>1
  <2>3. TakeSymbol([events |-> <<>>, rest |-> <<h1>>], LineFeed)
          = [events |-> <<>>, rest |-> <<h1, LineFeed>>]
    <3>1. Last(<<h1>>) = h1
      BY DEF Last
    <3>2. QED
      BY <1>1, <3>1 DEF TakeSymbol
  <2>4. TakeSymbol([events |-> <<>>, rest |-> <<h1, LineFeed>>], LineFeed)
          = [events |-> << <<h1>> >>, rest |-> <<>>]
    <3>1. Last(<<h1, LineFeed>>) = LineFeed /\ <<h1, LineFeed>> # <<>>
      BY DEF Last
    <3>2. Front(<<h1, LineFeed>>) = <<h1>>
      <4>1. Len(<<h1, LineFeed>>) - 1 = 1
        OBVIOUS
      <4>2. QED
        BY <4>1, FirstOfTwo DEF Front
    <3>3. QED
      BY <3>1, <3>2 DEF TakeSymbol
  <2>5. S(3) = [events |-> << <<h1>> >>, rest |-> <<>>] /\ <<>> \in Seq(Symbol)
    BY <2>1, <2>2, <2>3, <2>4
  <2>6. QED
    BY <1>6, <1>9, <2>5 DEF LastEvent, h1
<1>10. CASE r \in {2, 3}
  <2>1. /\ S(1) = TakeSymbol(S(0), h1) /\ S(2) = TakeSymbol(S(1), h2)
        /\ S(3) = TakeSymbol(S(2), LineFeed) /\ S(4) = TakeSymbol(S(3), LineFeed)
    BY <1>3, <1>4, <1>5, <1>10
  <2>2. S(4) = [events |-> Append(<<>>, Line(data)), rest |-> <<>>]
    <3>1. S(0) = [events |-> <<>>, rest |-> SoFar(data, 0)]
      BY <1>5, SoFarIs
    <3>2. S(1) = [events |-> <<>>, rest |-> SoFar(data, 1)]
      BY <2>1, <3>1, TakeNext DEF h1
    <3>3. S(2) = [events |-> <<>>, rest |-> SoFar(data, 2)]
      BY <2>1, <3>2, TakeNext DEF h2
    <3>4. S(3) = [events |-> <<>>, rest |-> SoFar(data, 3)]
      BY <2>1, <3>3, TakeNext
    <3>5. QED
      BY <2>1, <3>4, TakeNext
  <2>3. Append(<<>>, Line(data)) = <<Line(data)>> /\ <<>> \in Seq(Symbol) /\ <<LineFeed>> \in Seq(Symbol)
    BY <1>1
  <2>4. CASE r = 2
    BY <1>6, <2>2, <2>3, <2>4 DEF LastEvent
  <2>5. CASE r = 3
    <3>1. S(5) = TakeSymbol(S(4), LineFeed)
      BY <1>4, <1>5, <2>5
    <3>2. S(5) = [events |-> <<Line(data)>>, rest |-> <<LineFeed>>]
      BY <1>7, <2>2, <2>3, <3>1
    <3>3. QED
      BY <1>6, <2>3, <2>5, <3>2 DEF LastEvent
  <2>6. QED
    BY <1>10, <2>4, <2>5
<1>11. r = 0 \/ r = 1 \/ r \in {2, 3}
  OBVIOUS
<1>12. QED
  BY <1>6, <1>8, <1>9, <1>10, <1>11

\* What becomes of an answer of which the first n symbols arrived.
ToldOnce(result, says, n) ==
  LET whole == n \div 4
      seen  == IF n % 4 >= 2 /\ ~EndsBy(says, whole) THEN whole + 1 ELSE whole
  IN
  /\ Lists(result.text, Pieces(says, seen, "text", 0))
  /\ \A c \in Indexes : Lists(result.calls[c], Pieces(says, seen, "call", c))
  /\ result.dones = 1

LEMMA FlushTells ==
  ASSUME NEW says \in Answers, NEW n \in 0 .. 4 * WireLength, NEW handler, HasRead(handler, says, n)
  PROVE  ToldOnce(Flush(handler), says, n)
<1> DEFINE q == n \div 4
           r == n % 4
           data == says[q + 1]
           feeds == <<LineFeed, LineFeed>>
<1>1. /\ WireLength \in Nat /\ n \in Nat /\ q \in Nat /\ r \in 0 .. 3 /\ n = 4 * q + r /\ q <= WireLength
      /\ r # 0 => q + 1 \in 1 .. WireLength
  BY AnswerIs
<1>2. /\ Heard(handler, says, q) /\ handler.buffer = SoFar(data, r)
      /\ handler \in Handler /\ handler.finished = EndsBy(says, q) /\ handler.finished \in BOOLEAN
  BY DEF HasRead, Heard, Handler
<1> HIDE DEF q, r
<1>3. CASE handler.finished
  <2>1. Flush(handler) = handler /\ handler.dones = 1
    BY <1>2, <1>3 DEF Flush, Heard
  <2>2. EndsBy(says, q)
    BY <1>2, <1>3
  <2>3. QED
    BY <1>2, <2>1, <2>2 DEF ToldOnce, Heard, q
<1>4. CASE ~handler.finished
  <2> DEFINE more == ProcessChunk(handler, feeds)
             seen == IF r >= 2 THEN q + 1 ELSE q
  <2>1. ~EndsBy(says, q) /\ Flush(handler) = Finish_(more)
    BY <1>2, <1>4 DEF Flush
  <2>2. Heard(more, says, seen)
    <3> DEFINE all == Split(handler.buffer \o feeds)
    <3>1. PICK known \in Data : SoFar(known, r) = SoFar(data, r) /\ (r # 0 => known = data)
      <4>1. CASE r = 0
        BY <4>1, SoFarIs, LineFeedType
      <4>2. CASE r # 0
        BY <1>1, <4>2, AnswerIs
      <4>3. QED
        BY <4>1, <4>2
    <3> DEFINE event == LastEvent(known, r)
               kept == [handler EXCEPT !.buffer = all.rest]
    <3>2. all.rest \in Seq(Symbol) /\ all.events = <<event>>
      <4>1. all = Split(SoFar(known, r) \o <<LineFeed, LineFeed>>)
        BY <1>2, <3>1
      <4> HIDE DEF all
      <4>2. QED
        BY <1>1, <4>1, SplitAtEnd DEF Parts
    <3>3. event \in Seq(Symbol)
      <4>1. Half(1, known) \in Symbol /\ Half(2, known) \in Symbol
        BY DEF Half, Symbol
      <4>2. <<>> \in Seq(Symbol) /\ <<Half(1, known)>> \in Seq(Symbol) /\ Line(known) \in Seq(Symbol)
        BY <4>1 DEF Line
      <4>3. QED
        BY <4>2 DEF LastEvent
    <3> HIDE DEF all, event
    <3>4. Heard(kept, says, q) /\ kept \in Handler
      BY <1>2, <3>2, HeardBuffer DEF Heard
    <3>5. more = ProcessEvent(kept, event)
      <4>1. more = ProcessAll(kept, <<event>>)
        BY <3>2 DEF ProcessChunk, all
      <4>2. <<event>> \in Seq(Seq(Symbol)) /\ Len(<<event>>) = 1 /\ <<event>>[1] = event
        BY <3>3
      <4> HIDE DEF kept
      <4>3. ProcessUpto(kept, <<event>>)[0] = kept
        BY <3>4, <4>2, ProcessDef
      <4>4. \A i \in 1 .. 1 : ProcessUpto(kept, <<event>>)[i]
                                = ProcessEvent(ProcessUpto(kept, <<event>>)[i - 1], <<event>>[i])
        BY <3>4, <4>2, ProcessDef
      <4>5. ProcessUpto(kept, <<event>>)[1] = ProcessEvent(kept, event)
        BY <4>2, <4>3, <4>4
      <4>6. QED
        BY <4>1, <4>2, <4>5 DEF ProcessAll
    <3> HIDE DEF more, kept
    <3>6. CASE r \in {0, 1}
      <4>1. DataOf(event) = Junk
        BY <3>6, DataIs DEF event, LastEvent
      <4>2. more = kept
        BY <3>5, <4>1 DEF ProcessEvent, Junk
      <4>3. QED
        BY <3>4, <3>6, <4>2
    <3>7. CASE r \in {2, 3}
      <4>1. event = Line(data)
        BY <3>1, <3>7 DEF event, LastEvent
      <4>2. q + 1 <= WireLength
        BY <1>1, <3>7
      <4>3. Heard(more, says, q + 1)
        BY <1>1, <3>4, <3>5, <4>1, <4>2, HeardNext
      <4>4. QED
        BY <3>7, <4>3
    <3>8. QED
      BY <1>1, <3>6, <3>7
  <2> HIDE DEF more
  <2>3. /\ Finish_(more).text = more.text /\ Finish_(more).calls = more.calls
        /\ Finish_(more).dones = 1
    <3>1. more \in Handler /\ more.finished \in BOOLEAN /\ more.dones = IF more.finished THEN 1 ELSE 0
      BY <2>2 DEF Heard, Handler
    <3>2. /\ Finish_(more).text = more.text /\ Finish_(more).calls = more.calls
          /\ Finish_(more).dones = IF more.finished THEN more.dones ELSE more.dones + 1
      BY <3>1, FinishIs
    <3>3. QED
      BY <3>1, <3>2
  <2>4. QED
    BY <2>1, <2>2, <2>3 DEF ToldOnce, Heard, q, r
<1>5. QED
  BY <1>2, <1>3, <1>4

\* Any number of chunks, cut anywhere.
LEMMA ReadsAnyChunks ==
  ASSUME NEW says \in Answers, NEW m \in Nat, NEW cuts \in [0 .. m -> 0 .. 4 * WireLength],
         cuts[0] = 0, \A i \in 1 .. m : cuts[i - 1] <= cuts[i]
  PROVE  ToldOnce(Streamed([i \in 1 .. m |-> SubSeq(Wire(says), cuts[i - 1] + 1, cuts[i])]), says, cuts[m])
<1> DEFINE chunks == [i \in 1 .. m |-> SubSeq(Wire(says), cuts[i - 1] + 1, cuts[i])]
           Good == {i \in 0 .. m : HasRead(ReadUpto(chunks)[i], says, cuts[i])}
<1>1. WireLength \in Nat /\ Wire(says) \in Seq(Symbol) /\ Len(Wire(says)) = 4 * WireLength
  BY AnswerIs, WireIs
<1>2. ASSUME NEW i \in 1 .. m
      PROVE  /\ i - 1 \in 0 .. m /\ i \in 0 .. m /\ cuts[i - 1] \in Nat
             /\ cuts[i] \in cuts[i - 1] .. 4 * WireLength
  <2>1. i - 1 \in 0 .. m /\ i \in 0 .. m
    OBVIOUS
  <2>2. cuts[i - 1] \in 0 .. 4 * WireLength /\ cuts[i] \in 0 .. 4 * WireLength /\ cuts[i - 1] <= cuts[i]
    BY <2>1
  <2>3. QED
    BY <1>1, <2>1, <2>2
<1>3. ASSUME NEW i \in 1 .. m PROVE chunks[i] \in Seq(Symbol)
  <2> DEFINE a == cuts[i - 1] + 1
             b == cuts[i]
  <2>1. a \in Int /\ b \in Int /\ \A k \in a .. b : k \in 1 .. 4 * WireLength
    BY <1>1, <1>2
  <2> HIDE DEF a, b
  <2>2. \A k \in a .. b : Wire(says)[k] \in Symbol
    <3>1. \A k \in 1 .. 4 * WireLength : Wire(says)[k] \in Symbol
      BY <1>1
    <3>2. QED
      BY <2>1, <3>1
  <2>3. SubSeq(Wire(says), a, b) \in Seq(Symbol)
    BY <2>1, <2>2, SubSeqProperties
  <2>4. QED
    BY <2>3 DEF a, b
<1>4. \A i \in 1 .. m : chunks[i] = SubSeq(Wire(says), cuts[i - 1] + 1, cuts[i])
  OBVIOUS
<1>5. chunks \in Seq(Seq(Symbol)) /\ Len(chunks) = m
  <2>1. chunks \in [1 .. m -> Seq(Symbol)]
    BY <1>3
  <2> HIDE DEF chunks
  <2>2. QED
    BY <2>1
<1> HIDE DEF chunks
<1>6. /\ ReadUpto(chunks)[0] = NewHandler
      /\ \A i \in 1 .. m : ReadUpto(chunks)[i] = ProcessChunk(ReadUpto(chunks)[i - 1], chunks[i])
  BY <1>5, ReadDef
<1>7. 0 \in Good
  BY <1>6, ReadNothing
<1>8. ASSUME NEW i \in 1 .. m, i - 1 \in Good PROVE i \in Good
  <2> DEFINE h == ReadUpto(chunks)[i - 1]
  <2>1. HasRead(h, says, cuts[i - 1])
    BY <1>8
  <2>2. ReadUpto(chunks)[i] = ProcessChunk(h, SubSeq(Wire(says), cuts[i - 1] + 1, cuts[i]))
    BY <1>4, <1>6
  <2> HIDE DEF h
  <2>3. HasRead(ReadUpto(chunks)[i], says, cuts[i])
    BY <1>2, <2>1, <2>2, ReadNext
  <2>4. QED
    BY <1>2, <2>3
<1>9. \A i \in 0 .. m : i \in Good
  <2> HIDE DEF Good
  <2>1. QED
    BY <1>7, <1>8, Upwards
<1>10. HasRead(ReadUpto(chunks)[m], says, cuts[m])
  BY <1>9
<1>11. Streamed(chunks) = Flush(ReadUpto(chunks)[m])
  BY <1>5 DEF Streamed
<1>12. QED
  BY <1>10, <1>11, FlushTells DEF chunks

LEMMA StreamsWhole == StreamWhole
<1> SUFFICES ASSUME NEW says \in Answers, NEW n \in 0 .. 4 * WireLength, NEW a \in 0 .. n, NEW b \in a .. n
             PROVE  ToldOnce(Streamed(<<SubSeq(Wire(says), 1, a), SubSeq(Wire(says), a + 1, b),
                                        SubSeq(Wire(says), b + 1, n)>>), says, n)
  BY DEF StreamWhole, ToldOnce, EndsBy
<1> DEFINE cuts == [i \in 0 .. 3 |-> CASE i = 0 -> 0 [] i = 1 -> a [] i = 2 -> b [] i = 3 -> n]
           wire == Wire(says)
           Chunk(i) == SubSeq(wire, cuts[i - 1] + 1, cuts[i])
           chunks == <<SubSeq(wire, 1, a), SubSeq(wire, a + 1, b), SubSeq(wire, b + 1, n)>>
<1>1. WireLength \in Nat /\ n \in Nat /\ a \in Nat /\ b \in Nat /\ a <= b /\ b <= n /\ n <= 4 * WireLength
  BY AnswerIs
<1>2. cuts[0] = 0 /\ cuts[1] = a /\ cuts[2] = b /\ cuts[3] = n
  OBVIOUS
<1>3. \A i \in 0 .. 3 : i = 0 \/ i = 1 \/ i = 2 \/ i = 3
  OBVIOUS
<1>4. cuts \in [0 .. 3 -> 0 .. 4 * WireLength]
  BY <1>1, <1>3
<1> HIDE DEF cuts, wire
<1>5. \A i \in 1 .. 3 : cuts[i - 1] <= cuts[i]
  <2>1. \A i \in 1 .. 3 : i = 1 \/ i = 2 \/ i = 3
    OBVIOUS
  <2>2. QED
    BY <1>1, <1>2, <2>1
<1>6. ToldOnce(Streamed([i \in 1 .. 3 |-> Chunk(i)]), says, cuts[3])
  BY <1>4, <1>2, <1>5, ReadsAnyChunks DEF wire
<1>7. [i \in 1 .. 3 |-> Chunk(i)] = chunks
  <2>1. Chunk(1) = SubSeq(wire, 1, a) /\ Chunk(2) = SubSeq(wire, a + 1, b) /\ Chunk(3) = SubSeq(wire, b + 1, n)
    <3>1. 1 - 1 = 0 /\ 2 - 1 = 1 /\ 3 - 1 = 2 /\ 0 + 1 = 1
      OBVIOUS
    <3>2. Chunk(1) = SubSeq(wire, 1, a)
      BY <1>2, <3>1
    <3>3. Chunk(2) = SubSeq(wire, a + 1, b)
      BY <1>2, <3>1
    <3>4. Chunk(3) = SubSeq(wire, b + 1, n)
      BY <1>2, <3>1
    <3>5. QED
      BY <3>2, <3>3, <3>4
  <2> HIDE DEF Chunk
  <2>2. [i \in 1 .. 3 |-> Chunk(i)] = <<Chunk(1), Chunk(2), Chunk(3)>>
    OBVIOUS
  <2>3. QED
    BY <2>1, <2>2
<1>8. QED
  BY <1>2, <1>6, <1>7 DEF wire

\* However an answer is cut into chunks, however many they are and wherever
\* the server closes it (StreamHandler, streamChat): the result is what the
\* events that arrived whole say, each piece once and in order, and onDone is
\* called once.
THEOREM AnyChunksTell ==
  \A says \in Answers, m \in Nat :
    \A cuts \in [0 .. m -> 0 .. 4 * WireLength] :
      cuts[0] = 0 /\ (\A i \in 1 .. m : cuts[i - 1] <= cuts[i]) =>
        ToldOnce(Streamed([i \in 1 .. m |-> SubSeq(Wire(says), cuts[i - 1] + 1, cuts[i])]), says, cuts[m])
<1> SUFFICES ASSUME NEW says \in Answers, NEW m \in Nat, NEW cuts \in [0 .. m -> 0 .. 4 * WireLength],
                    cuts[0] = 0, \A i \in 1 .. m : cuts[i - 1] <= cuts[i]
             PROVE  ToldOnce(Streamed([i \in 1 .. m |-> SubSeq(Wire(says), cuts[i - 1] + 1, cuts[i])]),
                             says, cuts[m])
  OBVIOUS
<1>1. QED
  BY ReadsAnyChunks

\* Whenever a turn reads a stream, it will get what the events that arrive say
\* (QueryEngine.query with agent.streaming), for any indexes of calls and
\* answers of any length.
THEOREM StreamsAreWhole == TurnSpec => []StreamedWhole
<1>1. StreamedWhole
  BY StreamsWhole DEF StreamedWhole
<1>2. QED
  BY <1>1, PTL

=============================================================================
