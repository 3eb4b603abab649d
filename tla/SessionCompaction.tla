-------------------------- MODULE SessionCompaction --------------------------
(***************************************************************************)
(* The L2 transcript of one session and its summary: SessionCompactor      *)
(* (compaction/sessionCompactor.js), run by QueryEngine at the end of a    *)
(* turn, on the events that the turns of the session record                *)
(* (session/transcript.js), and what PromptAssembler shows of both.        *)
(*                                                                         *)
(* Turns interleave at their awaits; recording an event and compacting are *)
(* synchronous.  Events are ordered by millisecond stamps, so several of   *)
(* one instant tie, and the two readers break ties differently.  Provider  *)
(* and session give every event an identifier of its own, here its place.  *)
(***************************************************************************)
EXTENDS Naturals, FiniteSets, Sequences

CONSTANTS Turns,       \* turns of the session
          Users,       \* user_id of the contexts of these turns
          NoUser,      \* a context without user_id (CLI, gateway chat)
          EventLimit,  \* maxEventsBeforeCompact
          LongLimit,   \* maxCharsBeforeCompact, in long events
          KeepRecent,  \* keepRecentEvents
          Quoted,      \* user messages that a summary quotes (5)
          Proposing,   \* memory.proposals.autoCreateFromCompaction
          Faults,      \* which faults this instance injects, see AllFaults
          MaxEvents,   \* bound: events recorded
          MaxTime      \* bound: last instant of the clock

\* Where a compaction can be cut short: writing the summary throws, or one of
\* the audits and proposals after it.  The engine swallows the error.
AllFaults == {"none", "writeThrows", "laterThrows"}

ASSUME CompactionAssumption ==
  /\ NoUser \notin Users
  /\ EventLimit \in Nat /\ LongLimit \in Nat /\ KeepRecent \in Nat /\ Quoted \in Nat
  /\ Proposing \in BOOLEAN
  /\ "none" \in Faults /\ Faults \subseteq AllFaults
  /\ MaxEvents \in Nat /\ MaxTime \in Nat

VARIABLES now,       \* the clock
          events,    \* the transcript, in the order of its file
          summary,   \* the record session_summary:<session>
          turn,      \* turn[t]: where turn t is, and for whom
          proposed,  \* events whose fact became a proposal
          checked    \* history: events when a compaction last ran to its end

vars == <<now, events, summary, turn, proposed, checked>>

Owners == Users \cup {NoUser}
Kinds  == {"message", "other", "long"}
Event  == [kind : Kinds, user : Owners, created : 0..MaxTime, updated : 0..MaxTime]
Places == 1..MaxEvents

Summary   == [written : BOOLEAN, user : Owners, covers : SUBSET Places]
NoSummary == [written |-> FALSE, user |-> NoUser, covers |-> {}]

CompactionTypeOK ==
  /\ now \in 0..MaxTime
  /\ events \in Seq(Event) /\ Len(events) <= MaxEvents
  /\ summary \in Summary /\ summary.covers \subseteq DOMAIN events
  /\ turn \in [Turns -> [pc : {"new", "asked", "answered", "saved", "failed"}, user : Owners]]
  /\ proposed \subseteq DOMAIN events
  /\ checked \in 0..Len(events)

-----------------------------------------------------------------------------

\* matchesFilters: a record without user_id matches every context, a context
\* without one sees every record.
Visible(owner, user) == user = NoUser \/ owner \in {NoUser, user}
View(user)           == {i \in DOMAIN events : Visible(events[i].user, user)}
Latest(user)         == IF summary.written /\ Visible(summary.user, user) THEN summary ELSE NoSummary

\* list puts the latest update first and keeps the order of the file among
\* equals.
Listed(i, j) ==
  \/ events[i].updated > events[j].updated
  \/ events[i].updated = events[j].updated /\ i < j

\* compareAscending sorts that by creation, again stably.
Before(i, j) ==
  \/ events[i].created < events[j].created
  \/ events[i].created = events[j].created /\ Listed(i, j)

\* Variants with a bug: the newest events are summarised, not the oldest; one
\* event too many is.
Newest(V) == {i \in V : Cardinality({j \in V : Before(i, j)}) + KeepRecent < Cardinality(V)}

OneMore(V) == {i \in V : Cardinality({j \in V : Before(j, i)}) + KeepRecent <= Cardinality(V)}

\* slice(0, length - keepRecent)
Older(V) == {i \in V : Cardinality({j \in V : Before(j, i)}) + KeepRecent < Cardinality(V)}

\* The recent events that the prompt shows beside the summary.
Shown(V) == {i \in V : Cardinality({j \in V : Listed(j, i)}) < KeepRecent}

Long(S) == {i \in S : events[i].kind = "long"}

\* A variant with a bug: both limits must be exceeded.
ExceedsBoth(S) == Cardinality(S) > EventLimit /\ Cardinality(Long(S)) > LongLimit

Exceeds(S) == Cardinality(S) > EventLimit \/ Cardinality(Long(S)) > LongLimit

ShouldCompact(user) ==
  LET older  == Older(View(user))
      latest == Latest(user)
  IN
  /\ older # {}
  /\ Exceeds(IF latest.written THEN older \ latest.covers ELSE View(user))

\* agentId and userId of the summary: the context's, or the first event's.
Author(user, S) ==
  IF user # NoUser \/ \A i \in S : events[i].user = NoUser THEN user
  ELSE events[CHOOSE i \in S : /\ events[i].user # NoUser
                               /\ \A j \in S : events[j].user # NoUser => ~Before(j, i)].user

\* The messages that the text of the summary quotes, which is what facts are
\* extracted from.
Quotes(S) ==
  LET asked == {i \in S : events[i].kind = "message"}
  IN  {i \in asked : Cardinality({j \in asked : Before(i, j)}) < Quoted}

-----------------------------------------------------------------------------

Init ==
  /\ now = 0
  /\ events = <<>>
  /\ summary = NoSummary
  /\ turn = [t \in Turns |-> [pc |-> "new", user |-> NoUser]]
  /\ proposed = {}
  /\ checked = 0

\* MemoryRecord is stamped when it is made, and again when it is put: the
\* clock may move in between.
Recorded(kind, user) ==
  /\ Len(events) < MaxEvents
  /\ now' \in {now, now + 1} \cap 0..MaxTime
  /\ events' = Append(events, [kind |-> kind, user |-> user, created |-> now, updated |-> now'])
  /\ UNCHANGED <<summary, proposed, checked>>

Ask(t, user) ==
  /\ turn[t].pc = "new"
  /\ turn' = [turn EXCEPT ![t] = [pc |-> "asked", user |-> user]]
  /\ Recorded("message", user)

\* An answer of the model, a call or a result of a tool.
Work(t, kind) ==
  /\ turn[t].pc \in {"asked", "answered"}
  /\ turn' = [turn EXCEPT ![t].pc = "answered"]
  /\ Recorded(kind, turn[t].user)

\* A variant with a bug: only what is new is put into the summary.
CompactedNew(user, older) == [written |-> TRUE, user |-> Author(user, older), covers |-> older \ summary.covers]

Compacted(user, older) == [written |-> TRUE, user |-> Author(user, older), covers |-> older]

\* compactSession: the summary, the event and audit of the run, and the
\* proposals of the facts that the extractor finds, or of some after an error.
Compact(user, fault) ==
  LET older == Older(View(user)) IN
  /\ summary' = IF fault = "writeThrows" THEN summary ELSE Compacted(user, older)
  /\ IF Proposing /\ fault # "writeThrows"
     THEN \E facts \in SUBSET Quotes(older) : proposed' = proposed \cup facts
     ELSE UNCHANGED proposed
  /\ checked' = IF fault = "none" THEN Len(events) ELSE checked

\* The end of a turn: _maybeCompactSession, then the session is saved.
Finish(t, fault) ==
  LET user == turn[t].user IN
  /\ turn[t].pc = "answered"
  /\ turn' = [turn EXCEPT ![t].pc = "saved"]
  /\ IF ShouldCompact(user)
     THEN Compact(user, fault)
     ELSE /\ fault = "none"
          /\ checked' = Len(events)
          /\ UNCHANGED <<summary, proposed>>
  /\ UNCHANGED <<now, events>>

\* The provider or a hook throws, the iterations run out, or the process ends:
\* no compaction.
Fail(t) ==
  /\ turn[t].pc \in {"asked", "answered"}
  /\ turn' = [turn EXCEPT ![t].pc = "failed"]
  /\ UNCHANGED <<now, events, summary, proposed, checked>>

Tick ==
  /\ now < MaxTime
  /\ now' = now + 1
  /\ UNCHANGED <<events, summary, turn, proposed, checked>>

Step(t) ==
  \/ \E user \in Owners : Ask(t, user)
  \/ \E kind \in {"other", "long"} : Work(t, kind)
  \/ \E fault \in Faults : Finish(t, fault)
  \/ Fail(t)

Next == Tick \/ \E t \in Turns : Step(t)

Spec == Init /\ [][Next]_vars

-----------------------------------------------------------------------------

\* What a summary covers stays covered: each later summary of the session
\* covers more, although it is made anew from the events (compactSession).
\* Contexts of one user, or of none, share the session.
SummaryGrows ==
  [][summary' # summary =>
       summary.covers \subseteq summary'.covers /\ summary.covers # summary'.covers]_vars

\* When every turn so far was checked, what is neither summarised nor recent
\* stays within the limits, by number and by length, for any interleaving of
\* turns (shouldCompact counts all events at first, later only the older ones
\* that are not covered).
Rest == Older({i \in DOMAIN events : i <= checked}) \ summary.covers
BacklogBounded == Cardinality(Rest) <= EventLimit /\ Cardinality(Long(Rest)) <= LongLimit

\* The recent events are never all summarised away.
RecentKept ==
  Cardinality(DOMAIN events \ summary.covers)
    >= IF KeepRecent < Len(events) THEN KeepRecent ELSE Len(events)

\* Right after a compaction the prompt shows every event, as itself or in the
\* summary, except those that share a stamp with another one, which the
\* compactor and the prompt assembler order differently.
Tied(i) == \E j \in DOMAIN events \ {i} : events[i].updated = events[j].updated \/ events[i].created = events[j].created
NothingDropped ==
  [][summary' # summary =>
       \A i \in DOMAIN events : i \in summary'.covers \/ i \in Shown(DOMAIN events) \/ Tied(i)]_vars
=============================================================================
