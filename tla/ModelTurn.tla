------------------------------ MODULE ModelTurn ------------------------------
(***************************************************************************)
(* The loop of QueryEngine.query (myclaw/src/engine/query.js): the history *)
(* of a session is cut to the context window (compaction/index.js), the    *)
(* model is called (Streaming, provider/), its tool calls run              *)
(* (ToolExecution), their results go back to the model, and the session is *)
(* saved when the model answers without calls.                             *)
(*                                                                         *)
(* The turns are those of one interactive chat (cli/commands/chat.js): a   *)
(* line that is typed while a turn runs starts another one, on the Session *)
(* object that the chat holds then.  After an answer the chat loads the    *)
(* session anew, so later lines work on another object than the turns that *)
(* still run; the file is of whoever saves last.  Turns of a gateway load  *)
(* a copy of their own, see Conversations.                                 *)
(***************************************************************************)
EXTENDS ToolExecution, Streaming

CONSTANTS Turns,         \* lines typed into the chat
          Engine,        \* the process of the chat
          BatchAt,       \* BatchAt[t]: batches t may run, in the order of its iterations
          Streaming,     \* agent.streaming
          MaxIterations, \* agent.maxIterations
          MaxRetries,    \* maxRetries of withRetry
          MaxHistory,    \* messages of the session that are looked at (maxHistoryTurns * 2)
          Budget,        \* tokens before autoCompact: maxTokens * 3 - reserveTokens
          SizesOf,       \* SizesOf[t]: tokens that the question of turn t may have
          ResultSize     \* tokens of a tool result

ASSUME TurnAssumption ==
  /\ IsFiniteSet(Calls)
  /\ Engine \in Procs /\ \A b \in Batches : Home[b] = Engine
  /\ BatchAt \in [Turns -> Seq(Batches)]
  /\ Streaming \in BOOLEAN
  /\ MaxIterations \in Nat \ {0} /\ MaxRetries \in Nat /\ MaxHistory \in Nat \ {0}
  /\ Budget \in Int /\ SizesOf \in [Turns -> SUBSET Nat] /\ ResultSize \in Nat

VARIABLES session, \* messages of the Session objects of the chat, the current one last
          stored,  \* the messages in the file of the session
          sent,    \* sent[t]: fullMessages of turn t without the system prompt
          turn,    \* turn[t]: the coroutine of turn t
          on,      \* on[t]: the object that turn t works on
          crowded  \* turns that ended while others went on with another object

turnVars == <<session, stored, sent, turn, on, crowded>>
allVars  == <<brokerVars, call, turnVars>>

\* A message of turn t: `calls' are the tool calls that an assistant message
\* makes, or the one that a tool message answers.
User(t, size)       == [role |-> "user", turn |-> t, calls |-> {}, size |-> size]
Assistant(t, calls) == [role |-> "assistant", turn |-> t, calls |-> calls,
                        size |-> IF calls = {} THEN 1 ELSE 0]
ToolResult(t, c)    == [role |-> "tool", turn |-> t, calls |-> {c}, size |-> ResultSize]

\* `cut': older messages of the session are left out (if they did not fit, a
\* summary of them is put in front).
NothingSent == [cut |-> FALSE, msgs |-> <<>>]

\* pc: the await the turn is at.  iter: iterations.  attempt: retries of this
\* provider.chat.
NotAsked == [pc |-> "idle", iter |-> 0, attempt |-> 0]

TurnPoints == {"idle", "preparing", "reading", "chatting", "executing", "ending",
               "saved", "answered", "gaveUp", "failed", "lost"}
Ended      == {"answered", "gaveUp", "failed", "lost"}
Concluded  == {"saved", "answered", "gaveUp"}

Message == [role : {"user", "assistant", "tool"}, turn : Turns, calls : SUBSET Calls,
            size : (UNION Range(SizesOf)) \cup {0, 1, ResultSize}]

TurnStateOK ==
  /\ CallTypeOK
  /\ session \in Seq(Seq(Message)) /\ stored \in Seq(Message)
  /\ on \in [Turns -> Nat] /\ crowded \in SUBSET Turns
  /\ \A t \in Turns : sent[t].cut \in BOOLEAN /\ sent[t].msgs \in Seq(Message)
  /\ turn \in [Turns -> [pc : TurnPoints, iter : 0..MaxIterations, attempt : 0..MaxRetries]]

-----------------------------------------------------------------------------

\* countMessageTokens: the contents, and the tool calls of assistant messages.
\* (ContentsFrom(s)[i]: the contents from the ith message on, which is what
\* truncateMessages adds up.)
ContentsFrom(s) ==
  LET from[i \in 1 .. Len(s) + 1] == IF i > Len(s) THEN 0 ELSE s[i].size + from[i + 1] IN from
Contents(s) == ContentsFrom(s)[1]
CallTokens(s) ==
  FoldSeq(LAMBDA m, sum : sum + IF m.role = "assistant" THEN Cardinality(m.calls) ELSE 0, 0, s)
Tokens(s) == Contents(s) + CallTokens(s)

Suffix(s, from) == SubSeq(s, from, Len(s))

\* slice(-maxHistory)
LastMessages(s) == IF Len(s) > MaxHistory THEN Suffix(s, Len(s) - MaxHistory + 1) ELSE s

\* 20% headroom
Target == (Budget * 4) \div 5

\* A variant with a bug: the message that exceeds the target is kept.
KeepFromOver(s) ==
  Min({i \in 1 .. Len(s) + 1 : \A j \in i + 1 .. Len(s) : Contents(Suffix(s, j)) <= Target})

\* The loop of truncateMessages: from the end, while the contents (without
\* the tool calls) stay within the target.
KeepFrom(s) ==
  Min({i \in 1 .. Len(s) + 1 : \A j \in i .. Len(s) : Contents(Suffix(s, j)) <= Target})

\* autoCompact with strategy 'summarize': messages fit or lose their oldest
\* ones, for which a summary is put in front.
Window(s) ==
  LET recent == LastMessages(s)
      kept   == IF Tokens(recent) <= Budget THEN recent ELSE Suffix(recent, KeepFrom(recent))
  IN [cut |-> kept # s, msgs |-> kept]

-----------------------------------------------------------------------------

TurnInit ==
  /\ ExecInit
  /\ session = << <<>> >> /\ stored = <<>>
  /\ sent = [t \in Turns |-> NothingSent]
  /\ turn = [t \in Turns |-> NotAsked]
  /\ on = [t \in Turns |-> 0] /\ crowded = {}

Ready(t, pc) == up[Engine] /\ ~Busy(Engine) /\ turn[t].pc = pc
At(t, pc)    == [turn EXCEPT ![t].pc = pc, ![t].attempt = 0]
End(t, pc)   == turn' = At(t, pc) /\ sent' = [sent EXCEPT ![t] = NothingSent]

\* session.addMessage: these messages are appended to the object of turn t.
Add(t, msgs) == session' = [session EXCEPT ![on[t]] = @ \o msgs]

\* Something throws: chat.js prints the error; the object keeps what the turn
\* appended to it.
Give(t) ==
  End(t, "failed") /\ UNCHANGED <<brokerVars, call, session, stored, on, crowded>>

WritesFail == "auditThrows" \in Faults

Running(t) == turn[t].pc \in {"preparing", "reading", "chatting", "executing", "ending"}

\* Another turn runs on another object.
Crowded(t) == \E u \in Turns \ {t} : Running(u) /\ on[u] # on[t]

\* query up to its first await: addMessage, then recordUserMessage.  A line
\* comes from the event loop, after a session that was saved is loaded.
Type(t, size) ==
  /\ Ready(t, "idle")
  /\ \A u \in Turns : turn[u].pc # "saved"
  /\ on' = [on EXCEPT ![t] = Len(session)]
  /\ session' = [session EXCEPT ![Len(session)] = Append(@, User(t, size))]
  /\ \/ turn' = At(t, "preparing")
     \/ WritesFail /\ turn' = At(t, "failed")
  /\ UNCHANGED <<brokerVars, call, stored, sent, crowded>>

\* The head of the loop: a stream in the first iteration, chat in the others.
Iterated(t) ==
  [At(t, IF Streaming /\ turn[t].iter = 0 THEN "reading" ELSE "chatting") EXCEPT ![t].iter = @ + 1]

\* The prompt is assembled; then the messages of the session, cut to the
\* window, are what the model will see.
Prepare(t) ==
  /\ Ready(t, "preparing")
  /\ \/ /\ sent' = [sent EXCEPT ![t] = Window(session[on[t]])]
        /\ turn' = Iterated(t)
        /\ UNCHANGED <<brokerVars, call, session, stored, on, crowded>>
     \/ Give(t)

\* The tool calls that an answer in this iteration may make.
Callable(t) ==
  IF turn[t].iter > Len(BatchAt[t]) THEN {}
  ELSE {c \in Calls : BatchOf[c] = BatchAt[t][turn[t].iter]}

\* A variant with a bug: the message is recorded but not sent along.
RecordUnsent(t, calls) ==
  LET answer == Assistant(t, calls) IN
  /\ Add(t, <<answer>>)
  /\ UNCHANGED <<stored, on, crowded>>
  /\ \/ /\ turn' = At(t, IF calls = {} THEN "ending" ELSE "executing")
        /\ UNCHANGED sent
        /\ IF calls = {} THEN UNCHANGED <<brokerVars, call>>
                         ELSE Begin(BatchAt[t][turn[t].iter], calls)
     \/ WritesFail /\ End(t, "failed") /\ UNCHANGED <<brokerVars, call>>

\* An assistant message with these calls has arrived and its hook returned:
\* it is recorded and sent along from now on; its calls begin.
Record(t, calls) ==
  LET answer == Assistant(t, calls) IN
  /\ Add(t, <<answer>>)
  /\ UNCHANGED <<stored, on, crowded>>
  /\ \/ /\ turn' = At(t, IF calls = {} THEN "ending" ELSE "executing")
        /\ sent' = [sent EXCEPT ![t].msgs = Append(@, answer)]
        /\ IF calls = {} THEN UNCHANGED <<brokerVars, call>>
                         ELSE Begin(BatchAt[t][turn[t].iter], calls)
     \/ WritesFail /\ End(t, "failed") /\ UNCHANGED <<brokerVars, call>>

-----------------------------------------------------------------------------

\* The stream is closed, perhaps too early: what was assembled by then is the
\* answer.  By StreamWhole it is what the first events say, that is the first
\* ones of the calls, and these are an answer too.
CloseStream(t) ==
  /\ Ready(t, "reading")
  /\ \E calls \in SUBSET Callable(t) : Record(t, calls)

\* The request or the reader fails: the partial answer is dropped and chat is
\* called instead.
BreakStream(t) ==
  /\ Ready(t, "reading")
  /\ turn' = At(t, "chatting")
  /\ UNCHANGED <<brokerVars, call, session, stored, sent, on, crowded>>

\* provider.chat answers.
Answer(t) ==
  /\ Ready(t, "chatting")
  /\ \E calls \in SUBSET Callable(t) : Record(t, calls)

\* A variant with a bug: the first attempt is not counted.
AttemptOnceMore(t, retryable) ==
  IF retryable /\ turn[t].attempt <= MaxRetries
  THEN /\ turn' = [turn EXCEPT ![t].attempt = @ + 1]
       /\ UNCHANGED <<brokerVars, call, session, stored, sent, on, crowded>>
  ELSE Give(t)

\* withRetry after a failed attempt: another one if the error is retryable and
\* attempts are left, else it is thrown.
AttemptFailed(t, retryable) ==
  IF retryable /\ turn[t].attempt < MaxRetries
  THEN /\ turn' = [turn EXCEPT ![t].attempt = @ + 1]
       /\ UNCHANGED <<brokerVars, call, session, stored, sent, on, crowded>>
  ELSE Give(t)

FailChat(t) ==
  /\ Ready(t, "chatting")
  /\ \E retryable \in {(c \in Retryable) : c \in Categories} : AttemptFailed(t, retryable)

-----------------------------------------------------------------------------

\* The calls this iteration made.
Made(t) == {c \in Callable(t) : call[c].pc # "idle"}

\* The calls of a set, in the order of their list.
Listed(calls) ==
  CHOOSE list \in [1 .. Cardinality(calls) -> calls] :
    \A i, j \in DOMAIN list : i < j => list[i] < list[j]

ResultsOf(t) == [i \in 1 .. Cardinality(Made(t)) |-> ToolResult(t, Listed(Made(t))[i])]

\* The results are recorded and sent along; then the next iteration, or the
\* loop is left without an answer and the session saved.  (The chat does not
\* load it then: lines typed later may be on another object already.)
Resume(t, results) ==
  /\ UNCHANGED on
  /\ IF turn[t].iter < MaxIterations
     THEN /\ Add(t, results)
          /\ sent' = [sent EXCEPT ![t].msgs = @ \o results]
          /\ turn' = Iterated(t)
          /\ UNCHANGED <<stored, crowded>>
     ELSE /\ Add(t, Append(results, Assistant(t, {})))
          /\ \/ /\ stored' = session'[on[t]] /\ End(t, "gaveUp")
                /\ crowded' = IF Crowded(t) \/ on[t] # Len(session) THEN crowded \cup {t} ELSE crowded
             \/ WritesFail /\ UNCHANGED <<stored, crowded>> /\ End(t, "failed")

\* What a finished batch leaves: calls that were made, their results taken.
Taken(calls) == [c \in Calls |-> IF c \in calls THEN [Idle EXCEPT !.pc = "done"] ELSE call[c]]

\* executeAll returns: one result per call, in the order of the calls.  No
\* other coroutine gets in between two of them: chat.js does not await there.
Collect(t) ==
  /\ Ready(t, "executing") /\ \A c \in Made(t) : Over(c)
  /\ Resume(t, ResultsOf(t))
  /\ call' = Taken(Made(t))
  /\ UNCHANGED brokerVars

\* executeAll throws as soon as one call does; the others go on.
Abort(t) ==
  /\ Ready(t, "executing") /\ \E c \in Made(t) : call[c].result = "threw"
  /\ Give(t)

\* A variant with a bug: the object that the chat holds by now is saved.
SaveCurrent(t) ==
  /\ Ready(t, "ending")
  /\ \/ /\ stored' = session[Len(session)] /\ End(t, "saved")
        /\ crowded' = IF Crowded(t) THEN crowded \cup {t} ELSE crowded
        /\ UNCHANGED <<brokerVars, call, session, on>>
     \/ WritesFail /\ Give(t)

\* The answer had no calls: agent_end hooks, compaction (its errors are
\* caught, see SessionCompaction), save.
Save(t) ==
  /\ Ready(t, "ending")
  /\ \/ /\ stored' = session[on[t]] /\ End(t, "saved")
        /\ crowded' = IF Crowded(t) THEN crowded \cup {t} ELSE crowded
        /\ UNCHANGED <<brokerVars, call, session, on>>
     \/ WritesFail /\ Give(t)

\* chat.js got the result: it loads the session, for the lines to come.
Reload(t) ==
  /\ Ready(t, "saved")
  /\ session' = Append(session, stored) /\ turn' = At(t, "answered")
  /\ UNCHANGED <<brokerVars, call, stored, sent, on, crowded>>

\* A step of a tool call or a handler of the broker may have killed the
\* process; a new chat loads the file.
Beyond ==
  /\ UNCHANGED <<stored, on, crowded>>
  /\ IF up'[Engine] THEN UNCHANGED <<session, sent, turn>>
     ELSE /\ session' = <<stored>>
          /\ sent' = [t \in Turns |-> NothingSent]
          /\ turn' = [t \in Turns |-> IF turn[t].pc = "saved" THEN At(t, "answered")[t]
                                      ELSE IF Running(t) THEN At(t, "lost")[t]
                                      ELSE turn[t]]

TurnStep(t) ==
  \/ Prepare(t)
  \/ CloseStream(t) \/ BreakStream(t) \/ Answer(t) \/ FailChat(t)
  \/ Collect(t) \/ Abort(t) \/ Save(t) \/ Reload(t)

\* (Time, which lets approvals expire, stands still: see ToolExecution.)
TurnNext ==
  \/ \E t \in Turns : TurnStep(t)
  \/ \E t \in Turns : \E size \in SizesOf[t] : Type(t, size)
  \/ (\E c \in Calls : CallStep(c)) /\ Beyond
  \/ (\E p \in Procs : BrokerStep(p)) /\ Beyond

TurnSpec == TurnInit /\ [][TurnNext]_allVars

\* The provider, the tools and the hooks answer or fail (fetch gives up by
\* itself), and the event loop, while anything is ready, runs something.
FairTurnSpec ==
  /\ TurnSpec
  /\ WF_allVars((\E t \in Turns : TurnStep(t)) \/ \E c \in Calls : CallStep(c) /\ Beyond)

-----------------------------------------------------------------------------

\* A turn that ended with an answer, or gave up, stays in the file of the
\* session: its question, one result for each of its tool calls, after the
\* call, and the final text; whatever other turns before, beside or after it
\* append, save, load or fail to.  Except for the turns that ended while
\* another one ran on another object of the session, or gave up after the chat
\* had gone on to another one: a later save may be without them.
EndedTurnsStored ==
  \A t \in Turns :
    turn[t].pc \in Concluded /\ t \notin crowded =>
      /\ \E i \in DOMAIN stored : stored[i].turn = t /\ stored[i].role = "user"
      /\ \E i \in DOMAIN stored : stored[i] = Assistant(t, {})
      /\ \A i \in DOMAIN stored :
           stored[i].turn = t /\ stored[i].role = "assistant" =>
             \A c \in stored[i].calls :
               Cardinality({j \in DOMAIN stored : j > i /\ stored[j] = ToolResult(t, c)}) = 1

\* The provider is sent the result of a tool without the call it answers only
\* if the history was cut to the window, between the two.
ResultsHaveCalls ==
  \A t \in Turns : \A i \in DOMAIN sent[t].msgs :
    LET m == sent[t].msgs[i] IN
    m.role = "tool" /\ ~sent[t].cut =>
      \E j \in 1 .. i - 1 :
        sent[t].msgs[j].role = "assistant" /\ m.calls \subseteq sent[t].msgs[j].calls

\* What the model is sent of a session is its longest tail of at most
\* MaxHistory messages that fits: nothing recent is left out for something
\* older, the newest message is sent if it fits the target by itself, and what
\* had to be cut is cut to the target, or to nothing.
WindowIsLongest ==
  [][\A t \in Turns :
       turn[t].pc = "preparing" /\ turn'[t].iter = 1 =>
         LET w == sent'[t].msgs
             s == session[on[t]]
             tail(n) == SubSeq(s, Len(s) - n + 1, Len(s))
         IN
         /\ Len(w) <= MaxHistory /\ w = tail(Len(w))
         /\ \/ Contents(w) <= Target \/ w = <<>>
            \/ Tokens(w) <= Budget /\ Len(w) \in {MaxHistory, Len(s)}
         /\ \A n \in Len(w) + 1 .. Len(s) : n <= MaxHistory => Contents(tail(n)) > Target]_allVars

\* Whenever a turn reads a stream, however the chunks are cut and wherever the
\* stream ends, it will get what the events that arrived say.
StreamedWhole == \A t \in Turns : turn[t].pc = "reading" => StreamWhole

\* Every turn ends, whatever breaks in it, unless its process dies: from some
\* time on none is in progress.  (Turns that ended never go on.)
TurnEnds == <>[](\A t \in Turns : turn[t].pc \in Ended \cup {"idle"})
=============================================================================
