# TLA+ models of MyClaw

MyClaw is an agent framework: a gateway process and a command line share one
home directory, a query engine runs model turns that call tools, tools that may
do harm ask a human for approval, and what a session learns is proposed for a
long-term memory. `myclaw/src` holds the JavaScript framework, `src` a Python
reference runtime of the same ideas. This directory models the parts in which
steps of several actors, crashes and failing writes meet, checks them with TLC
on small instances and proves the most important results with TLAPS for every
value of the constants.

## The system

| component | state | operations | interacts with |
|---|---|---|---|
| Approval broker (`approval/`) | map of requests in each process, `approvals.json` | submit, approve, deny, expireOld, load, save | audit log, tool executor, proposals, gateway and CLI |
| Tool executor (`tools/`) | the coroutines of the tool calls of a turn | executeAll, permission check, hooks, ask, settle, run | broker, audit log, transcript |
| File lock (`storage/fileLock.js`) | the lock file of each shared file | open exclusively, remove if stale, release | every writer of a shared file |
| JSONL log (`storage/jsonl.js`, `audit/`, `events/`) | active and rotated files; recent events, subscribers | append, rotate, read the tail; publish, subscribe | everything that audits; event streams |
| Memory proposals (`memory/proposals.js`) | map in each process, `proposals.json` | create, approve, reject, write | broker, L3, audit log, compaction |
| Memory layers (`memory/`) | L1-L4: working set, transcript, markdown, index | write, retrieve, delete, reindex | engine, proposals |
| Channels (`channels/`) | rate-limit lists, session registry, conversation map | receive, resolve, deny, reply | engine, sessions, gateway webhooks |
| Engine and sessions (`engine/`, `session/`, `cli/commands/chat.js`) | session object and file, the messages of a turn | query, run, save, delete, prune | provider, tools, transcript, compaction |
| Compaction (`compaction/`) | summary records of a session | shouldCompact, compactSession, truncate | transcript, proposals, engine |
| Gateway (`gateway/`) | connections of the HTTP server, open event streams | requests, streamed answers, event streams, approvals, proposals, webhook, stop | all of the above |
| Daemon (`daemon/`, `cli/commands/daemon.js`) | pid file, one process per command | start, stop, restart, status, signals | gateway |
| Provider and streaming (`provider/`, `streaming/`) | attempt counter, buffer and pieces of an answer | withRetry, processChunk, flush | engine |
| Python runtime (`src`) | command queue, schedules, sessions, memory files | dispatch, tick, put | - |

What is hard in it, and what makes each component correct:

* **Several processes, one file, one map each.** A broker reads its file once and
  rewrites it from its own map. A decision must be final in memory and in the
  file, and the audit log must not contradict the file. The daemon commands
  share a pid file without any lock: none may destroy the record of a daemon
  that it saw alive.
* **Awaits.** A tool call reads its approval, awaits hooks and checks, and runs
  afterwards; a turn loads its session, awaits the model, and saves its own
  copy; two lines typed into a chat append to one history. A confirmed tool must
  run only under an approval that holds; an answered turn must stay in its
  session; a tool result must not be sent without its call.
* **Failing writes and crashes.** Every handler changes memory, saves and audits,
  and may stop after each. A proposal's fact must not get into L3 unreviewed, a
  log line that was acknowledged must stay readable, every turn must end.
* **Time.** Deadlines of requests, the stale age of a lock, the sliding window of
  the rate limit, transcript identifiers that contain a millisecond.
* **Pieces.** An answer arrives in chunks that may be cut anywhere and be closed
  early; a history is cut to a window; an event stream joins the past of the
  bus to its future: nothing may be lost, doubled or put out of order.

`PROJECT.json` lists these hazards at their lines with the properties that
would catch them, and those that no property covers.

## Modules

| module | models | state and actions in terms of the code |
|---|---|---|
| `ApprovalRegister` | what the stored approvals promise | abstract: one slot per request, one `Write` may move several slots |
| `ApprovalBroker` | `approval/broker.js`, `models.js` | `mem[p]` is the map of process p, `disk` the file; `Start` = `_load`, `Submit`, `Resolve` (approve and deny), `ExpireOld`; `Decide` is the route of the gateway and the command of the CLI. Handlers are synchronous, so each is one action; its parameter `fault` says where it threw or died: before the save, at the save, before or at the audit |
| `ToolExecution` | `tools/executor.js`, `permissions.js`, `policy.js` | extends the broker. `call[c].pc` is the await a tool call is at; any other handler may run there. `Begin` partitions a batch, `BeginSerial` is the loop over serial calls, `Enter`..`Finish` are `_executeOne`, `Ask`/`Settle` are `_handleApprovalRequired`. `Check` applies the rules, in their order, to the arguments |
| `FileLock` | `storage/fileLock.js` | one action per system call, because processes share the directory |
| `JsonlLog` | `storage/jsonl.js` under the lock | extends the lock. `files[i]` is the active or i-th rotated file, `Rotate` one rename of the loop, `Fail` and `Die` may leave a torn line |
| `MemoryProposals` | `memory/proposals.js` | extends the broker. A handler writes several files, so it is a chain of steps, `task[p]` says which one is next; during a chain the process does nothing else but may throw or die. `Redact` is `safeText`, which need not leave alone what it made: a proposal is sanitized when it is made and again at each load (`Sanitized`), and `Duplicate` compares signatures, that is contents sanitized once more. `Review` is the route of the gateway and the command of the CLI |
| `Conversations` | `channels/router.js`, `policy.js`, `sessionRegistry.js`, the session part of `engine/query.js`, `session/` | `msg[m]` is the coroutine of a message; `Arrive` is the webhook: `Deny`, or `Receive`, which is all up to the first await; the message may name a session that there has been or one that there is not (`Stray`), and `Open` is what `query` makes of the name; `Answer`/`Fail` the end of the turn, `Reply` the rest of `receive`; `Delete` acts from another process, `Restart` is a new gateway |
| `SessionCompaction` | `compaction/sessionCompactor.js`, the records of `session/transcript.js`, what `prompt/assembler.js` shows | `events` is the transcript in file order with both stamps of a record, `summary` the one summary record. `Ask`, `Work` record events, `Finish` is the end of a turn with `shouldCompact` and `compactSession`, `Fail` a turn that ends without it; its parameter `fault` cuts a compaction short |
| `Streaming` | `streaming/index.js`, the error classes of `provider/errors.js` | pure operators: `Split`, `ProcessChunk`, `Flush` and `Streamed` assemble an answer from its chunks, `Category` classifies a failed request |
| `ModelTurn` | `QueryEngine.query`, `compaction/index.js`, `withRetry`, the chat | composes `ToolExecution` and `Streaming`. `turn[t].pc` is the await the turn is at; `session` holds the Session objects of the chat, the current one last, `on[t]` is the one that turn t works on, `stored` the file of the session, `sent[t]` the messages for the provider. `Type` is a typed line, `Prepare` the prompt and the window, `CloseStream`/`BreakStream`/`Answer`/`FailChat` the provider, `Collect`/`Abort` the end of a batch, `Save` the end of the turn, `Reload` the load of a new object for the lines to come |
| `Gateway` | `gateway/index.js`, `events/bus.js` | `conn[c]` is the connection of a client with what its event stream was sent, `recent[p]` the bus of process p |
| `Daemon` | `daemon/manager.js`, `pidfile.js`, `cli/commands/daemon.js` | composes the gateways of several processes. One action per system call on the pid file; `seen[p]` is the pid that p read last, `Signal` and `Interrupt` deliver signals, `Reuse` gives the pid of a dead process to another program |
| `MC*` | constants and symmetry of the runs | |
| `ApprovalBrokerProofs`, `ToolExecutionProofs`, `ModelTurnProofs`, `MemoryProposalsProofs`, `JsonlLogProofs`, `ConversationsProofs`, `SessionCompactionProofs`, `DaemonProofs` | theorems | |

Definitions introduced by "a variant with a bug" are not part of any behaviour:
each is a plausible mistake in the definition that follows it, under which the
property named in `PROJECT.json` must fail.

**What is abstracted.** Messages, facts, tools and identifiers are model values;
texts, reasons and metadata are left out. The policy tables of the executor are
constants: a verdict per tool (`Policy`), an ordered list of rules that match a
tool and its arguments (`RuleList`), the denied and permitted commands of the
shell (`Denied`, `Permitted`), the destructive and the serial tools, and the
approval mode of each batch (`ModeOf`: `query` takes it per turn). The
atomic JSON write (temporary file, rename) is one step that happens or throws.
A session file is the set of messages whose turn it holds in `Conversations`,
and the sequence of its messages in `ModelTurn`, where a message has a size in
tokens instead of a text. In `SessionCompaction` an event is short or long
instead of a number of characters, its identifier is its place (the provider's
call identifiers and the session's are taken to be unique), and the session
belongs to one user, next to contexts that name none. `NothingDropped` excepts
events that share a stamp with another one: the compactor sorts by creation and
the prompt by update, and their stable sorts order such ties in opposite ways,
so the newest of them can be in neither the summary nor the prompt. On the wire
of `Streaming` an event is one line of two halves and two line feeds, so that a
chunk may end inside a line, between the line feeds or between events.

## Runs

| run | shows | bounds |
|---|---|---|
| `approval_broker` | with one process, every fault and restarts: `TypeOK`, `DecisionFinal` in memory, `StoredDecisionFinal` in the file, `AuditTruthful`, the inductive `BrokerInv`, and that the file implements `ApprovalRegister` | 2 requests, TTL 2, 5 instants: a request can be decided before, at and after its deadline, and one sweep can close two |
| `approval_lost` | violation: a gateway and a CLI undo each other's decisions | 2 processes, no faults |
| `tool_execution` | `RunsApproved`, `RanUnderStoredApproval`, `StoredApprovalHonoured` over two turns that share requests, one in manual and one in deny mode, with decisions at every await, expiry and crashes | 2 calls, 2 tools (asked by a rule behind a rule that allows; destructive, with a denied command), 2 kinds of arguments, 2 requests (a tool that the policy asks for is in `tool_retry` and `model_turn`) |
| `tool_retry` | violation: in `auto_for_tests` mode a call on a closed request never returns | 2 calls |
| `jsonl_log` | `MutualExclusion`, `AckedReadable`, `OnlyOldestDropped`, `KeepsHistory`, `AppendEnds` | 2 processes, 1 may die, 5 lines, 1 line per file, 4 files: every file of the chain is filled and one is dropped |
| `lock_stale` | violation: two processes remove the same stale lock and both get in | 3 processes, one dies |
| `memory_proposals` | lifecycle, review, linked approval and audit of proposals, with throws and deaths between any two files | 2 identifiers, 3 requests (one is orphaned by a crash), a fact that redaction leaves alone and one with a secret, which it changes again each time |
| `proposals_crash` | violation: a fact stays in L3 although its proposal was rejected | the same, no exceptions |
| `conversations` | `RateBound`, `DeniedAtLimit`, `Routed`, `TurnsKept`, `Transcribed` | 3 messages, limit 2, 2 conversations, 3 sessions, 2 instants: the limit is reached, two turns of a session overlap, a conversation outlives a session, or is mapped to a session of another one or to a name that no session has |
| `session_compaction` | `BacklogBounded`, `RecentKept`, `SummaryGrows`, `NothingDropped` | 2 turns, 5 events, 3 instants, limits of 1: a second compaction follows the first, events of two turns interleave and tie, a compaction breaks off |
| `model_turn` | `EndedTurnsStored`, `ResultsHaveCalls`, `WindowIsLongest`, `StreamedWhole`, `SerialAlone` and `TurnEnds` for a chat with failing writes, throwing tools and crashes | 3 turns, 3 calls (a parallel and a serial one in one batch, one in the next iteration), deny mode, 2 iterations, 1 retry; `ThirdLine`: the third turn is typed on an object that was loaded after an answer, in a chat that makes one call at most; a window of 4 messages and a budget of 5 tokens that the questions and results exceed; streams of 3 events cut anywhere into 3 chunks and closed anywhere |
| `daemon` | `RecordKept`, `RecordNamesServer`, `ShutdownEnds`, `StreamContiguous` | a start, a restart and a stop at any moments, failing starts and pid files, one reusable pid, Ctrl+C, a client that asks or watches, 3 events in a bus that keeps 2 |

Each passing property has a mutant: a variant of a mapped definition under which
TLC must find the property violated. Of the type invariants, `TypeOK` and
`TurnStateOK` are checked in runs as well as proved; those of the other modules
are proved only.

Bounds named `Max...` stop clocks and counters and stand in guards; they are not
limits of the code (`MaxIterations`, `MaxRetries`, `MaxHistory`, `MaxMessages`,
`MaxRecent`, `MaxSize` and `MaxFiles` are: they are its settings). No run needs
more than two clocks' worth of instants because times are only compared with one
deadline or window. `CHECK_DEADLOCK FALSE` is set everywhere: identifiers, lines
to type and the clock run out, and a program without requests may be idle.

**Fairness.** Safety needs none. What is assumed, as weak fairness:

* `CallsReturn`: each tool call's steps. The event loop runs every ready
  continuation; tools and hooks are taken to return.
* `TurnEnds`: the steps of turns and calls together. While any of them is ready
  the event loop runs something (lines to type are finite, and so is what a turn
  does); a provider answers or fails, since `fetch` gives up by itself. It is
  checked in deny mode: the loop of `auto_for_tests` is what `tool_retry` shows.
* `AppendEnds`: each process's system calls. The sleeps of the lock are bounded
  (`Retries`).
* `ShutdownEnds`: each process's steps and the handling of each connection. A
  body arrives or the server times out, a query ends (this is `TurnEnds`).

Nothing is assumed of crashes, decisions, typed commands and lines, signals,
clients that leave, or the clock. That is why `ShutdownEnds` excepts a server
with an open event stream: its client may stay for ever.

**Disagreements found** (details in `PROJECT.json`, `findings`): decisions lost
between processes, the endless retry of `auto_for_tests`, the stale-lock race,
and a rejected fact that stays in L3 after a crash.

**What the models also show**, stated by no property because the code promises
nothing else:

* A decision whose save throws stays in the broker's memory; tools run under it
  although the file never gets it (`RanUnderStoredApproval` is checked and
  proved for saves that do not throw).
* `truncateMessages` counts tool calls when it decides whether to cut and only
  contents while it cuts; a question longer than the target is dropped with all
  before it, and a cut may separate a tool result from its call, which
  `ResultsHaveCalls` excepts.
* A stream that is closed early is taken as the whole answer.
* Redaction is not idempotent: `token: x` becomes `token: [redacted]`, then
  `token: [redacted]]`, and so on (`sanitizer.js:2`, the pattern stops at the
  bracket). A fact with a secret therefore changes at each load of
  `proposals.json`, its signature never matches the stored one, and each retry
  adds a proposal. `OneProposalPerFact` and `StoredLifecycle` are stated for the
  facts that redaction leaves alone.
* The registry maps a conversation to the sessionId that its first message names,
  whether or not there is such a session. If there is none, each turn before the
  first reply, and each after a turn that failed, makes a session of its own
  (`query.js:145`), although `docs/channel_security.md:26` says that the same
  conversation and user resolve to the same session. `Routed` excepts the turns
  of a conversation that asked for such a name (`Astray`). Any other conversation
  keeps its session, and no two share one unless a message named it.
* After an answer the chat works on a freshly loaded Session object, while turns
  that still run keep the old one. Of three lines A, B, C, where A is answered
  while B runs and C is typed then, B's answer is lost from the file if C is
  saved after it. `EndedTurnsStored` excepts the turns that end while another
  one runs on another object, or that give up (after which the chat loads
  nothing) when it holds another object already: `crowded`.
* `docs/daemon.md:23` says that stop "gracefully stops" the gateway, but an open
  event stream is never ended, so the process stays until the client leaves.
* Two starts that collide can leave a serving daemon without a record: the
  `catch` of the one that fails removes whatever record is there. `RecordKept`
  says that it had not seen that record.
* A streamed answer whose query throws after its head was written ends the
  process (`gateway/index.js:187`): the 500 of the catch throws too.

## Proofs

All proofs are for arbitrary constants that satisfy the named assumptions
(`BrokerAssumption`, `ExecutionAssumption`, `ProposalAssumption`,
`LockAssumption`, `LogAssumption`, `ConversationAssumption`,
`CompactionAssumption`, `TurnAssumption`, `WireAssumption`, `DaemonAssumption`,
`GatewayAssumption`).

* `ApprovalBrokerProofs`: `TypeCorrect`; `DecisionFinality` for any number of
  processes. With a single process (`Procs = {p}`), `BrokerInvariant`: `BrokerInv`
  is inductive. It says that memory is the file or one register move `Ahead` of it
  (after a failed save), that unissued identifiers appear nowhere, and that a
  request whose expiry was audited can only expire (expiry is audited before the
  save, so the file may still say pending, but the clock does not go back).
  `AuditIsTruthful`, `StoredDecisionFinality` and `ImplementsRegister` follow. The
  run `approval_lost` shows why a single process is assumed. The lemmas
  `TypeStep`, `UnissuedStep`, `FinalStep`, `StepKeeps` and `RegisterStep` (a step
  decides requests of the abstract register or stutters) are about `BrokerMoves`,
  any step that a handler of the broker makes, so that the modules built on the
  broker only show that their steps are such steps.
* `ToolExecutionProofs`: `ExecInvariant` for any processes, policies and batches.
  Its core is `Confirmed`: a call past its approval checks holds a request that
  its process has approved, for its tool or for no tool, or no rule and no policy asked for one;
  other handlers cannot undo this at the awaits that follow because decisions are
  final in memory (`DecisionFinalUnderExecution`). `RunsUnderApproval` follows.
  `SerialCallsAlone` needs a second invariant, `Ordered`: before a serial call
  starts, every other call of the batch that is due before it is over. With a
  single process, `BrokerInvUnderExecution`, `RegisterUnderExecution` (the file
  still implements the abstract register) and `ApprovalsHonoured`;
  `RanUnderApproval` moreover assumes that saves do not throw, so that what is
  approved in memory is in the file (`Saved`).
* `MemoryProposalsProofs`, all with a single process: `StoreInvariant`, whose
  core `ReviewInv` says that memory and file agree except for the changes of the
  handler in progress or of a save that threw, that each proposal of both is
  linked to a request of its own that the broker has written, and that what the
  handler is about to save or to audit is already true. From it follow
  `MemoryIsReviewed`, `ProposalsLinked`, `TrailIsTruthful` and `LifecycleKept`.
  `FactsProposedOnce` needs `FactInv` besides: in memory and in the file a fact
  that redaction leaves alone is what its candidate said (`Faithful`), and what a
  handler is about to store has no duplicate; nothing is assumed of redaction. `RegisterUnderProposals`: the file of the requests
  implements the abstract register here too. With two processes a stale map overwrites the file, as it
  does for the broker.
* `ModelTurnProofs`, for any batches, turns that overlap on any objects of the
  session, windows, limits (a budget may be negative) and faults: a step of a turn is a step of the executor, or takes back the
  calls of a batch when all of them are over (`TurnCalls`), so `TurnTypeCorrect`,
  `TurnsSerialAlone` and `TurnsKeepApprovals` come from `LoopInv`, the invariants
  of the executor together with what a coroutine keeps at its awaits. With a
  single process it is also a step of the broker (`TurnMoves`), so the turns keep
  `BrokerInvUnderTurns`, `RegisterUnderTurns`, `TurnsHonourApprovals` and, when
  saves do not throw, `TurnsRunUnderApproval`.
  `ResultsFollowCalls` needs two more conjuncts (`ReplyInv`): in every
  object, in the file and in every history that a turn sends, a result comes after the
  message with its call (`CallsFirst`), and a turn that waits for its batch finds
  the message of its calls in the history it will append to (`Waits`).
  `EndedTurnsAreStored` rests on `Story`. The object of a turn that runs has its
  question (`HasQuestion`), one result per finished call and none for the others
  (`Paired`), and an answer once it is about to be saved (`HasAnswer`); objects
  only grow and a turn writes only messages of its own (`OfCalls`). A turn that
  ended uncrowded is whole (`Whole`) in the file, in the object of every turn
  that still runs and in the last one, so no later save is without it. `WindowsAreLongest` is about one step: the cut of
  `truncateMessages` counts down from the last message, and `Downwards` (a least
  counterexample) gives that what it leaves out would not have fitted.
  `StreamsAreWhole` is about the operators of `Streaming`, for any indexes of calls
  and answers of any length. Its invariant is `HasRead`: after the first n symbols,
  however they were cut into chunks, the handler has `Heard` exactly the events
  that are whole, and its buffer is the beginning of the next one (`SoFar`). It
  holds after the next chunk because the buffer and the chunk join to a segment of
  the wire that starts with an event (`SplitOfSegment`, `HeardLines`, `ReadNext`);
  `FlushTells` adds what the final line feeds make of the buffer.
  `AnyChunksTell` says the same of any number of chunks, where the run has three.
* `JsonlLogProofs`: while nobody dies, no error leaves the lock file behind and no
  holder is slower than the stale age, the lock file belongs to its holder and is
  never stale (`Ownership`), hence `LockExcludes`; every step of the log is a step
  of the lock or none, hence `LogExcludes`. What the log contains is proved under
  the hypothesis that the lock excludes (`[]MutualExclusion`, which also runs with
  a process that dies can satisfy): `AckedEventsStay`, `LogChangesAtItsEnds` and
  `HistoryIsKept` from `LogInv`, which says that only a holder is at work
  (`UnderLock`), that the slot it moves a file to is free (`SlotIsFree`), that the
  chain of files has no gap but there, unless a rotation was interrupted
  (`NoGap`), and that the lines are in the order of their events (`InOrder`).
  `LogKeepsItsPromises` joins the two parts.
* `SessionCompactionProofs`: `CompactionTypeCorrect` and `RecentEventsKept` for any
  users, the latter from `SummaryLeaves`. With one user (`OneUser`; contexts may
  also name none): `CoversInv`, that what the summary covers would be covered again
  by a compaction now, because new events only push others out of the recent
  ones, and that the backlog is bounded. From it follow `BacklogIsBounded`,
  `SummaryOnlyGrows` and `NothingIsDropped`; the last one also needs that the two
  orders agree on events that share no stamp (`Stamped`: stamps never fall along
  the file). `SummaryGrows` would be false with two users (see the hazards).
* `ConversationsProofs`: `TurnTypeCorrect`, whose point is that a turn always runs
  in a session whose file exists when it is loaded; `RateLimited` and
  `DeniedOnlyAtLimit` from `RateInv`: the list of a conversation holds exactly the
  messages that got through and are still in the window, so the count the policy
  looks at is the count of every window that ends now or later.
  `AnsweredTurnsKept` and `QuestionsTranscribed` rest on `Issuance` (a session is
  used after its identifier was issued) and `Loaded` (the copy of a running turn
  holds every turn answered before in its session, or the two overlapped);
  `ConversationsRouted` on `Mapped`: while no session is deleted, each turn got the
  session that it asked for or asked for a name that none has, and the sessions
  that two conversations are mapped to or had turns in are disjoint unless a
  message named one.
* `DaemonProofs`, for any number of starts, stops and restarts, any signals,
  faults and reused pids: `RecordsNameServers` (a record appears only when its
  process listens); `RecordsKept` from `RecordsSeen`: the pid that a command has
  read and will replace is that of a dead process, because no two daemons have
  the same pid and the dead do not come back. `StreamsAreContiguous`, for any
  clients, filters and limits, from `StreamInv`: the bus of a server holds its
  last events without a gap (`Fresh`), and a stream got those that match from
  some event on, up to the newest (`Receives`); subscribing starts such a run
  and publishing extends it. `DaemonTypeCorrect` types the rest.

Functions that are defined by recursion
(`Upto`, `ContentsFrom`, `MatchingUpto`, `SplitUpto`, `ProcessUpto`, `ReadUpto`)
are unfolded one step at a time, and facts about all their values come from a
least counterexample (`WellFoundedInduction`, `Upwards`, `Downwards`), since the
induction theorems that take an operator cannot be used.

Only model-checked:

* all liveness (`AppendEnds`, `CallsReturn`, `TurnEnds`, `ShutdownEnds`):
  fairness and `ENABLED` are beyond the prover;
* what the two or more processes of the violations do to each other: the theorems
  that assume a single process (`Procs = {p}`), an excluding lock or one user say
  so in their statement, and the runs `approval_lost`, `lock_stale` and
  `proposals_crash` show what happens without.

## Not modelled, and limits of the models

* **Python** (`src/src`): the packages cannot be imported.
  `openclaw_memory/__init__.py` and `models.py`, `openclaw_runtime/__init__.py`,
  `gateway.py`, `agent.py` and `tools.py` contain unresolved merge-conflict
  markers, so none of the files has a behaviour to be faithful to.
* **Channel adapters** (`channels/index.js`, `channels/wechat`): their state is
  the connection of an external service.
* **Plugins, skills, prompt and configuration**: loading of files and assembly of
  texts, without state that steps interleave on. Hooks are modelled where they
  are awaited.
* **Tool bodies and provider formats**: a tool runs, fails or throws; a provider
  answers with text or with calls.
* **Memory search and fact extraction**: sequential text heuristics.
* **Read-only operations** (list, get, status, health) are left out everywhere,
  and so is `daemon status`, which is never asked to clean up.
* The fallback of the atomic write to a plain write, the backup of a corrupted
  JSON file, and the read-modify-write of markdown blocks by two processes.
* `ToolExecution`: a policy entry that has the name of a memory permission
  instead of a tool is not considered.
* `MemoryProposals`: the memory tools (`memory/tools.js`), which write and delete
  L3 without a proposal when the caller has the permission.
* `ModelTurn`: the command `new`, which gives the chat another session (the answer
  to a turn that still runs gives it the old one back); time stands still, so approvals do not expire there
  (they do in `ToolExecution`); the gateway's turns, which load a copy of their
  own, are those of `Conversations`.
* `Daemon`: an unlink that fails is swallowed by `removePidFile` and not modelled;
  `server.close` is taken to close idle keep-alive connections, as current
  versions of Node do. `Gateway`: the `since` filter of an event stream is left out.
* `SessionCompaction`: two users in one session. The summary has one identifier
  per session but covers the events of its user; a second user would replace it.

Next would be markdown blocks and their index under two processes, and sessions
shared by two users.
