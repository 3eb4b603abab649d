---------------------------- MODULE Conversations ----------------------------
(***************************************************************************)
(* From an incoming channel message to its saved turn: ChannelRouter       *)
(* (channels/router.js) with the rate limit of ChannelSecurityPolicy       *)
(* (channels/policy.js) and the ChannelSessionRegistry, QueryEngine.run    *)
(* and query (engine/query.js), the session files (session/index.js) and   *)
(* the L2 transcript (session/transcript.js, memory/sessionStore.js).      *)
(*                                                                         *)
(* A message is a coroutine.  Receive is everything up to the first await, *)
(* in the prompt assembler; the model, the tools and the hooks run between *)
(* awaits and touch only the turn's own copy of its session; the end of    *)
(* the turn saves that copy in one step.  A session file is abstracted to  *)
(* the set of messages whose turn (question and answer) it holds.          *)
(***************************************************************************)
EXTENDS Integers, FiniteSets

CONSTANTS Messages,    \* incoming messages
          Convs,       \* channel + conversationId + user: the key of both maps
          Window,      \* rateLimit.windowMs
          MaxMessages, \* rateLimit.maxMessages
          Registry,    \* channels.sessionRegistry.enabled
          Naming,      \* TRUE: a message may carry a sessionId
          Missing,     \* no session file, no conversation yet
          MaxSessions, \* bound: sessions created
          MaxTime      \* bound: last instant of the clock

ASSUME ConversationAssumption ==
  /\ \A turns \in SUBSET Messages : Missing # turns
  /\ Window \in Nat \ {0}
  /\ MaxMessages \in Nat \ {0}
  /\ Registry \in BOOLEAN /\ Naming \in BOOLEAN
  /\ MaxSessions \in Nat /\ MaxTime \in Nat

VARIABLES now,        \* the clock
          msg,        \* msg[m]: the coroutine of message m
          recent,     \* recent[c]: messages behind the timestamps of _recentByKey
          mapping,    \* mapping[c]: the registry's session, in memory and on disk
          remembered, \* remembered[c]: _conversationSessions
          files,      \* files[s]: session file s
          issued,     \* number of session identifiers handed out
          l2,         \* <<s, t, m>>: event "s:t:user" of the transcript holds m
          served,     \* history: messages this process let through
          pruned,     \* history: sessions that were deleted
          crowded     \* history: messages whose turn overlapped one of its session

vars == <<now, msg, recent, mapping, remembered, files, issued, l2, served, pruned, crowded>>

Sessions  == 1..MaxSessions
NoSession == 0
Stray     == MaxSessions + 1 \* a sessionId that no session has
Asked     == {NoSession, Stray} \cup Sessions

Points == {"new", "denied", "running", "saved", "gaveUp", "replied", "failed", "lost"}

\* named: the message carries the sessionId of a session; asked: the sessionId
\* handed to the engine; session: the one the turn is in; copy: what that
\* session held when it was loaded.
Turn == [pc : Points, conv : Convs \cup {Missing}, at : 0..MaxTime, named : BOOLEAN,
         asked : Asked, session : 0..MaxSessions, copy : SUBSET Messages]

NotReceived == [pc |-> "new", conv |-> Missing, at |-> 0, named |-> FALSE,
                asked |-> NoSession, session |-> NoSession, copy |-> {}]

TurnTypeOK ==
  /\ now \in 0..MaxTime
  /\ msg \in [Messages -> Turn]
  /\ recent \in [Convs -> SUBSET Messages]
  /\ mapping \in [Convs -> Asked]
  /\ remembered \in [Convs -> Asked]
  /\ files \in [Sessions -> (SUBSET Messages) \cup {Missing}]
  /\ issued \in 0..MaxSessions
  /\ l2 \subseteq Sessions \X (0..MaxTime) \X Messages
  /\ served \subseteq Messages /\ crowded \subseteq Messages
  /\ pruned \subseteq Sessions

-----------------------------------------------------------------------------

\* Variants with a bug: a timestamp is forgotten one instant too early, or
\* never.
InWindowEarly(m) == msg[m].at > now - Window + 1
InWindowAlways(m) == msg[m].at >= 0

\* timestamp > windowStart
InWindow(m) == msg[m].at > now - Window

\* `recent' after the filter of _checkRateLimit.
Fresh(c) == {m \in recent[c] : InWindow(m)}

\* query: the session asked for if its file can be loaded, else a new one.
Open(asked, have, next) ==
  IF asked \in Sessions /\ have[asked] # Missing THEN asked ELSE next

\* Variants with a bug: the identifier is the session alone; its parts are
\* swapped.
RecordLast(s, m) == {e \in l2 : e[1] # s} \cup {<<s, now, m>>}
RecordSwapped(s, m) == l2 \cup {<<now, s, m>>}

\* recordUserMessage: put replaces the event with the same identifier, which
\* is made of the session and the millisecond.
Record(s, m) == {e \in l2 : e[1] # s \/ e[2] # now} \cup {<<s, now, m>>}

Running(s) == {x \in Messages : msg[x].pc = "running" /\ msg[x].session = s}

-----------------------------------------------------------------------------

Init ==
  /\ now = 0
  /\ msg = [m \in Messages |-> NotReceived]
  /\ recent = [c \in Convs |-> {}]
  /\ mapping = [c \in Convs |-> NoSession]
  /\ remembered = [c \in Convs |-> NoSession]
  /\ files = [s \in Sessions |-> Missing]
  /\ issued = 0 /\ l2 = {} /\ served = {} /\ pruned = {} /\ crowded = {}

\* policy.check denies: the filtered timestamps are kept, m's is not added.
Deny(m, c) ==
  /\ msg[m].pc = "new"
  /\ Cardinality(Fresh(c)) >= MaxMessages
  /\ recent' = [recent EXCEPT ![c] = Fresh(c)]
  /\ msg' = [msg EXCEPT ![m] = [pc |-> "denied", conv |-> c, at |-> now, named |-> FALSE,
                                asked |-> NoSession, session |-> NoSession, copy |-> {}]]
  /\ UNCHANGED <<now, mapping, remembered, files, issued, l2, served, pruned, crowded>>

\* resolveSession, or _resolveSessionId without a registry: the session that
\* is asked for, and how many sessions that took.  `name' is message.sessionId.
Resolved(c, name) ==
  IF ~Registry               THEN [asked |-> IF name # NoSession THEN name ELSE remembered[c], made |-> 0]
  ELSE IF mapping[c] # NoSession THEN [asked |-> mapping[c], made |-> 0]
  ELSE [asked |-> IF name # NoSession THEN name ELSE issued + 1, made |-> 1]

\* The session files, with new ones up to identifier n.
Created(n) == [x \in Sessions |-> IF x \in issued + 1 .. n THEN {} ELSE files[x]]

\* The message is let through, its session found or made, the question
\* recorded.  A conversation new to the registry gets a session file even if
\* its message names another one; it is mapped to the name even if no session
\* has it, and the turn then runs in a second new session.
Receive(m, c, name) ==
  LET r     == Resolved(c, name)
      first == issued + r.made
      s     == Open(r.asked, Created(first), first + 1)
      last  == IF s > first THEN s ELSE first
  IN
  /\ msg[m].pc = "new"
  /\ Cardinality(Fresh(c)) < MaxMessages
  /\ last <= MaxSessions
  /\ recent' = [recent EXCEPT ![c] = Fresh(c) \cup {m}]
  /\ mapping' = IF Registry THEN [mapping EXCEPT ![c] = r.asked] ELSE mapping
  /\ issued' = last
  /\ files' = Created(last)
  /\ l2' = Record(s, m)
  /\ msg' = [msg EXCEPT ![m] = [pc |-> "running", conv |-> c, at |-> now, named |-> name \in Sessions,
                                asked |-> r.asked, session |-> s, copy |-> files'[s]]]
  /\ served' = served \cup {m}
  /\ crowded' = IF Running(s) = {} THEN crowded ELSE crowded \cup Running(s) \cup {m}
  /\ UNCHANGED <<now, remembered, pruned>>

\* A variant with a bug: the answer is appended to what the turn started with
\* only.
SaveTurnOnly(m, pc) ==
  /\ msg[m].pc = "running"
  /\ files' = [files EXCEPT ![msg[m].session] = {m}]
  /\ msg' = [msg EXCEPT ![m].pc = pc]

\* sessionManager.save of the turn's own copy.
SaveTurn(m, pc) ==
  /\ msg[m].pc = "running"
  /\ files' = [files EXCEPT ![msg[m].session] = msg[m].copy \cup {m}]
  /\ msg' = [msg EXCEPT ![m].pc = pc]

\* The model's final answer, or the last iteration without one: then the
\* event carries no session identifier.
Answer(m) ==
  /\ SaveTurn(m, "saved") \/ SaveTurn(m, "gaveUp")
  /\ UNCHANGED <<now, recent, mapping, remembered, issued, l2, served, pruned, crowded>>

\* The provider, a hook or a tool throws: the copy is dropped.
Fail(m) ==
  /\ msg[m].pc = "running"
  /\ msg' = [msg EXCEPT ![m].pc = "failed"]
  /\ UNCHANGED <<now, recent, mapping, remembered, files, issued, l2, served, pruned, crowded>>

\* run reloads the session; receive then learns which one the turn was in.
Reply(m) ==
  LET t == msg[m]
      known == t.pc = "saved" /\ files[t.session] # Missing
      resolved == IF known THEN t.session ELSE t.asked
  IN
  /\ t.pc \in {"saved", "gaveUp"}
  /\ msg' = [msg EXCEPT ![m].pc = "replied"]
  /\ IF Registry /\ mapping[t.conv] # resolved
     THEN mapping' = [mapping EXCEPT ![t.conv] = resolved] /\ UNCHANGED remembered
     ELSE /\ remembered' = IF resolved = NoSession THEN remembered
                                                   ELSE [remembered EXCEPT ![t.conv] = resolved]
          /\ UNCHANGED mapping
  /\ UNCHANGED <<now, recent, files, issued, l2, served, pruned, crowded>>

\* `sessions delete' or `sessions prune', from another process.
Delete(s) ==
  /\ files[s] # Missing
  /\ files' = [files EXCEPT ![s] = Missing]
  /\ pruned' = pruned \cup {s}
  /\ UNCHANGED <<now, msg, recent, mapping, remembered, issued, l2, served, crowded>>

\* A variant with a bug: the registry is not loaded.
RestartBlank ==
  /\ served # {}
  /\ msg' = [m \in Messages |-> IF msg[m].pc \in {"running", "saved", "gaveUp"}
                                THEN [msg[m] EXCEPT !.pc = "lost"] ELSE msg[m]]
  /\ recent' = [c \in Convs |-> {}]
  /\ remembered' = [c \in Convs |-> NoSession]
  /\ mapping' = [c \in Convs |-> NoSession]
  /\ served' = {}
  /\ UNCHANGED <<now, files, issued, l2, pruned, crowded>>

\* The gateway dies and starts again: the registry comes back from its file,
\* the rate limit starts afresh.
Restart ==
  /\ served # {}
  /\ msg' = [m \in Messages |-> IF msg[m].pc \in {"running", "saved", "gaveUp"}
                                THEN [msg[m] EXCEPT !.pc = "lost"] ELSE msg[m]]
  /\ recent' = [c \in Convs |-> {}]
  /\ remembered' = [c \in Convs |-> NoSession]
  /\ served' = {}
  /\ UNCHANGED <<now, mapping, files, issued, l2, pruned, crowded>>

Tick ==
  /\ now < MaxTime
  /\ now' = now + 1
  /\ UNCHANGED <<msg, recent, mapping, remembered, files, issued, l2, served, pruned, crowded>>

\* No name, that of a session there has been, or any other.
Names == {NoSession} \cup IF Naming THEN 1..issued \cup {Stray} ELSE {}

\* An authorized POST to the webhook of a channel (_handleChannelWebhookApi):
\* the conversation and the session the body names are the sender's choice.
Arrive(m) ==
  \E c \in Convs : Deny(m, c) \/ \E name \in Names : Receive(m, c, name)

Handle(m) ==
  \/ Arrive(m)
  \/ Answer(m) \/ Fail(m) \/ Reply(m)

Next ==
  \/ \E m \in Messages : Handle(m)
  \/ \E s \in Sessions : Delete(s)
  \/ Restart \/ Tick

Spec == Init /\ [][Next]_vars

-----------------------------------------------------------------------------

\* In no window of its length does a conversation get more messages through
\* than the limit, for one life of the process (_checkRateLimit prunes its
\* list each time it looks at it).
Through(c, t) == {m \in served : msg[m].conv = c /\ msg[m].at > t - Window /\ msg[m].at <= t}
RateBound == \A c \in Convs, t \in 0..MaxTime : Cardinality(Through(c, t)) <= MaxMessages

\* Why: the list holds all that got through and is still in the window.
RateInv ==
  /\ IsFiniteSet(served)
  /\ \A m \in served : msg[m].pc # "new" /\ msg[m].at <= now
  /\ \A c \in Convs : \A m \in recent[c] : m \in served /\ msg[m].conv = c
  /\ \A m \in served : m \in recent[msg[m].conv] \/ msg[m].at <= now - Window
  /\ RateBound

\* And nobody is denied too early: the limit was used up by messages that got
\* through, within the window that ends now (denied messages do not count).
DeniedAtLimit ==
  [][\A m \in Messages :
       (msg[m].pc = "new" /\ msg'[m].pc = "denied")
         => Cardinality(Through(msg'[m].conv, now)) = MaxMessages]_vars

Entered  == {m \in Messages : msg[m].session # NoSession}
Answered == {m \in Messages : msg[m].pc \in {"saved", "gaveUp", "replied"}}

\* Why the next three hold.  Sessions are used after their identifier was
\* issued, by messages that got through.
Issuance ==
  /\ \A m \in Messages :
       /\ msg[m].pc \in {"new", "denied"} => msg[m].session = NoSession
       /\ msg[m].pc = "running" \/ m \in Answered => msg[m].session # NoSession
       /\ msg[m].session <= issued
  /\ \A s \in Sessions : s > issued => files[s] = Missing

\* The copy of a turn that runs holds what was answered in its session before;
\* turns that run in one session at once are crowded.
Loaded ==
  \A m, n \in Messages :
    msg[m].pc = "running" /\ m # n /\ msg[m].session = msg[n].session =>
      /\ msg[n].pc = "running" => n \in crowded
      /\ n \in Answered \ crowded /\ msg[n].session \notin pruned => n \in msg[m].copy

\* A conversation whose registry entry was a name without a session when some
\* turn of it looked.
Astray(c) == \E m \in Entered : msg[m].conv = c /\ msg[m].asked = Stray

\* The sessions that a conversation is mapped to or has had turns in.
Held(c) == ({mapping[c]} \cup {msg[m].session : m \in {n \in Entered : msg[n].conv = c}})
             \ {NoSession, Stray}

\* With a registry, a turn gets the session it asks for if there is one; that
\* is the one its conversation is mapped to, unless the conversation went
\* astray; and conversations hold sessions of their own unless a message named
\* one.
Mapped ==
  (Registry /\ pruned = {}) =>
    /\ \A s \in 1..issued : files[s] # Missing
    /\ \A c \in Convs : mapping[c] <= issued \/ mapping[c] = Stray
    /\ \A m \in Entered :
         /\ msg[m].conv \in Convs /\ mapping[msg[m].conv] # NoSession
         /\ msg[m].asked \in {msg[m].session, Stray}
    /\ \A c \in Convs : Astray(c) \/ \A m \in Entered : msg[m].conv = c => msg[m].session = mapping[c]
    /\ \/ \E x \in Entered : msg[x].named
       \/ \A c, d \in Convs : c # d => Held(c) \cap Held(d) = {}

\* As long as no session is deleted (sessionRegistry.js): turns of one
\* conversation run in one session, across restarts and failed turns, unless
\* the registry mapped it to a name without a session and a turn asked for that
\* (each such turn gets a session of its own, query.js:145); and turns of two
\* conversations run in different sessions, strays included, unless a message
\* named a session.
Routed ==
  (Registry /\ pruned = {}) =>
    \A m, n \in Entered :
      /\ msg[m].conv = msg[n].conv /\ ~Astray(msg[m].conv) => msg[m].session = msg[n].session
      /\ (\A x \in Entered : ~msg[x].named) /\ msg[m].session = msg[n].session
           => msg[m].conv = msg[n].conv

\* A turn that was answered stays in its session file, whatever turns precede
\* and follow it, unless another turn of the session ran at the same time (the
\* last one to save wins) or the session was deleted (query.js).
TurnsKept ==
  \A m \in Answered \ crowded :
    msg[m].session \notin pruned
      => files[msg[m].session] # Missing /\ m \in files[msg[m].session]

\* Every question is in the transcript, also when its turn fails or its save is
\* overwritten; the one exception is a question of the same session and
\* millisecond, which takes its place.
Transcribed ==
  \A m \in Entered : \E n \in Messages : LET t == msg[m] IN
    /\ <<t.session, t.at, n>> \in l2
    /\ msg[n].session = t.session /\ msg[n].at = t.at
=============================================================================
