------------------------- MODULE ConversationsProofs -------------------------
(***************************************************************************)
(* Proofs about Conversations, for any number of messages, conversations   *)
(* and sessions: its type invariant, that the rate limit is exact, that a  *)
(* conversation stays in its session, and what becomes of answered turns   *)
(* and of questions.                                                       *)
(***************************************************************************)
EXTENDS Conversations, FiniteSetTheorems, TLAPS

LEMMA MovedTurn ==
  ASSUME NEW t \in Turn, NEW pc \in Points
  PROVE  [t EXCEPT !.pc = pc] \in Turn
BY DEF Turn

\* The session that a message asks for, and the one that its turn gets: that
\* one if it has a file, or else a new one.
LEMMA OpenedSession ==
  ASSUME TurnTypeOK, NEW c \in Convs, NEW name \in Names,
         LET first == issued + Resolved(c, name).made
             s     == Open(Resolved(c, name).asked, Created(first), first + 1)
         IN  (IF s > first THEN s ELSE first) <= MaxSessions
  PROVE  LET asked == Resolved(c, name).asked
             first == issued + Resolved(c, name).made
             s     == Open(asked, Created(first), first + 1)
             last  == IF s > first THEN s ELSE first
         IN  /\ s \in Sessions /\ last \in 0..MaxSessions /\ asked \in Asked
             /\ issued <= last /\ s <= last
             /\ s \in issued + 1 .. last \/ (s = asked /\ s \in 1..issued /\ files[s] # Missing)
             /\ asked \in 1..issued /\ files[asked] # Missing => s = asked
             /\ Registry =>
                  /\ mapping[c] # NoSession => asked = mapping[c]
                  /\ mapping[c] = NoSession => asked \in {name, issued + 1} \ {NoSession}
                  /\ mapping[c] = NoSession /\ asked \in Sessions /\ asked > issued
                       => s = asked
<1> DEFINE r     == Resolved(c, name)
           asked == r.asked
           first == issued + r.made
           s     == Open(asked, Created(first), first + 1)
           last  == IF s > first THEN s ELSE first
<1>0. MaxSessions \in Nat /\ issued \in 0..MaxSessions /\ Registry \in BOOLEAN
  BY ConversationAssumption DEF TurnTypeOK
<1>1. name \in {NoSession, Stray} \cup 1..issued
  BY DEF Names
<1>2. mapping[c] \in Asked /\ remembered[c] \in Asked
  BY DEF TurnTypeOK
<1>3. /\ r.made \in {0, 1}
      /\ asked \in {name, remembered[c], mapping[c]} \/ (asked = issued + 1 /\ r.made = 1)
      /\ Registry =>
           /\ mapping[c] # NoSession => asked = mapping[c]
           /\ mapping[c] = NoSession => asked \in {name, issued + 1} \ {NoSession} /\ r.made = 1
  BY <1>0, <1>1 DEF Resolved, NoSession
<1>4. first \in Nat /\ issued <= first /\ first <= issued + 1 /\ last <= MaxSessions
  BY <1>0, <1>3
<1>5. {} # Missing
  BY ConversationAssumption
<1>6. \A x \in Sessions : Created(first)[x] = IF x \in issued + 1 .. first THEN {} ELSE files[x]
  BY DEF Created
<1>7. IF asked \in Sessions /\ Created(first)[asked] # Missing THEN s = asked ELSE s = first + 1
  BY DEF Open
<1>8. Registry /\ mapping[c] = NoSession /\ asked \in Sessions /\ asked > issued => asked = issued + 1 /\ first = issued + 1
  <2>1. Registry /\ mapping[c] = NoSession => asked \in {NoSession, Stray, issued + 1} \cup 1..issued /\ first = issued + 1
    BY <1>0, <1>1, <1>3
  <2> HIDE DEF asked, first
  <2> QED BY <2>1, <1>0 DEF Sessions, Stray, NoSession
<1>9. asked \in Asked
  <2>1. name \in Asked /\ (issued + 1 <= MaxSessions => issued + 1 \in Asked)
    BY <1>0, <1>1 DEF Asked, Sessions
  <2>2. asked = issued + 1 /\ r.made = 1 => issued + 1 <= MaxSessions
    <3>1. r.made = 1 => first = issued + 1
      OBVIOUS
    <3> HIDE DEF r, first, s
    <3> QED BY <3>1, <1>0, <1>4, <1>7
  <2> HIDE DEF r
  <2> QED BY <2>1, <2>2, <1>2, <1>3
<1>10. /\ s \in Sessions /\ last \in 0..MaxSessions /\ issued <= last /\ s <= last
       /\ s \in issued + 1 .. last \/ (s = asked /\ s \in 1..issued /\ files[s] # Missing)
  <2> HIDE DEF asked, first, s
  <2> QED BY <1>0, <1>4, <1>6, <1>7 DEF Sessions
<1>11. asked \in 1..issued /\ files[asked] # Missing => s = asked
  <2> HIDE DEF asked, first, s
  <2> QED BY <1>0, <1>4, <1>6, <1>7 DEF Sessions
<1>12. Registry /\ mapping[c] = NoSession /\ asked \in Sessions /\ asked > issued => s = asked
  <2> HIDE DEF asked, first, s
  <2> QED BY <1>0, <1>5, <1>6, <1>7, <1>8
<1> QED BY <1>3, <1>9, <1>10, <1>11, <1>12

\* The message that is let through asks for a session or a name there is none
\* of, and its turn runs in a session whose file exists.
LEMMA ReceiveType ==
  ASSUME TurnTypeOK, NEW m \in Messages, NEW c \in Convs, NEW name \in Names, Receive(m, c, name)
  PROVE  /\ msg' \in [Messages -> Turn]
         /\ mapping' \in [Convs -> Asked]
         /\ files' \in [Sessions -> (SUBSET Messages) \cup {Missing}]
         /\ issued' \in 0..MaxSessions
         /\ l2' \subseteq Sessions \X (0..MaxTime) \X Messages
<1> DEFINE r     == Resolved(c, name)
           first == issued + r.made
           s     == Open(r.asked, Created(first), first + 1)
           last  == IF s > first THEN s ELSE first
<1>0. MaxSessions \in Nat /\ MaxTime \in Nat /\ now \in 0..MaxTime /\ issued \in 0..MaxSessions
  BY ConversationAssumption DEF TurnTypeOK
<1>3. last <= MaxSessions /\ issued' = last
  BY DEF Receive
<1>5. s \in Sessions /\ last \in 0..MaxSessions /\ r.asked \in Asked
  BY <1>3, OpenedSession
<1>6. s \in issued + 1 .. last \/ files[s] # Missing
  BY <1>3, OpenedSession
<1>7. files' = [x \in Sessions |-> IF x \in issued + 1 .. last THEN {} ELSE files[x]]
  BY DEF Receive, Created
<1>8. files' \in [Sessions -> (SUBSET Messages) \cup {Missing}] /\ files'[s] \in SUBSET Messages
  <2>1. \A x \in Sessions : files[x] \in (SUBSET Messages) \cup {Missing}
    BY DEF TurnTypeOK
  <2> HIDE DEF s, last
  <2> QED BY <2>1, <1>5, <1>6, <1>7
<1>9. msg' \in [Messages -> Turn]
  <2> DEFINE t == [pc |-> "running", conv |-> c, at |-> now, named |-> name \in Sessions,
                   asked |-> r.asked, session |-> s, copy |-> files'[s]]
  <2>1. msg' = [msg EXCEPT ![m] = t]
    BY DEF Receive
  <2>2. t \in Turn
    <3> HIDE DEF r, s
    <3> QED BY <1>0, <1>5, <1>8 DEF Turn, Points, Sessions
  <2> HIDE DEF t
  <2> QED BY <2>1, <2>2 DEF TurnTypeOK
<1>10. mapping' \in [Convs -> Asked]
  <2>1. mapping' = IF Registry THEN [mapping EXCEPT ![c] = r.asked] ELSE mapping
    BY DEF Receive
  <2> HIDE DEF r
  <2> QED BY <2>1, <1>5 DEF TurnTypeOK
<1>11. l2' \subseteq Sessions \X (0..MaxTime) \X Messages
  <2>1. l2' = Record(s, m)
    BY DEF Receive
  <2> HIDE DEF s
  <2> QED BY <2>1, <1>0, <1>5 DEF TurnTypeOK, Record
<1> QED BY <1>3, <1>5, <1>8, <1>9, <1>10, <1>11

\* Every variable keeps its type.
THEOREM TurnTypeCorrect == Spec => []TurnTypeOK
<1>0. MaxSessions \in Nat /\ MaxTime \in Nat
  BY ConversationAssumption
<1>1. Init => TurnTypeOK
  <2> SUFFICES ASSUME Init PROVE TurnTypeOK
    OBVIOUS
  <2>1. NotReceived \in Turn
    BY <1>0 DEF NotReceived, Turn, Points, NoSession, Asked
  <2> QED BY <1>0, <2>1 DEF Init, TurnTypeOK, NoSession, Asked
<1>2. TurnTypeOK /\ [Next]_vars => TurnTypeOK'
  <2> SUFFICES ASSUME TurnTypeOK, [Next]_vars PROVE TurnTypeOK'
    OBVIOUS
  <2>1. ASSUME NEW m \in Messages, NEW c \in Convs, Deny(m, c) PROVE TurnTypeOK'
    <3>1. now \in 0..MaxTime /\ msg[m] \in Turn
      BY DEF TurnTypeOK
    <3>3. [pc |-> "denied", conv |-> c, at |-> now, named |-> FALSE,
           asked |-> NoSession, session |-> NoSession, copy |-> {}] \in Turn
      BY <1>0, <3>1 DEF Turn, Points, NoSession, Asked
    <3>2. Fresh(c) \in SUBSET Messages
      BY DEF Fresh, TurnTypeOK
    <3> QED BY <2>1, <3>1, <3>2, <3>3 DEF Deny, TurnTypeOK
  <2>2. ASSUME NEW m \in Messages, NEW c \in Convs, NEW name \in Names, Receive(m, c, name)
        PROVE  TurnTypeOK'
    <3>1. recent' \in [Convs -> SUBSET Messages]
      BY <2>2 DEF Receive, Fresh, TurnTypeOK
    <3>2. crowded' \subseteq Messages
      BY <2>2 DEF Receive, Running, TurnTypeOK
    <3>3. served' \subseteq Messages /\ UNCHANGED <<now, remembered, pruned>>
      BY <2>2 DEF Receive, TurnTypeOK
    <3> QED BY <2>2, <3>1, <3>2, <3>3, ReceiveType DEF TurnTypeOK
  <2>3. ASSUME NEW m \in Messages, Answer(m) PROVE TurnTypeOK'
    <3>1. PICK pc \in {"saved", "gaveUp"} : SaveTurn(m, pc)
      BY <2>3 DEF Answer
    <3>2. msg[m] \in Turn /\ [msg[m] EXCEPT !.pc = pc] \in Turn
      BY MovedTurn DEF TurnTypeOK, Points
    <3>3. msg' \in [Messages -> Turn]
      BY <3>1, <3>2 DEF SaveTurn, TurnTypeOK
    <3>4. msg[m].copy \cup {m} \in SUBSET Messages
      BY <3>2 DEF Turn
    <3>5. files' \in [Sessions -> (SUBSET Messages) \cup {Missing}]
      BY <3>1, <3>4 DEF SaveTurn, TurnTypeOK
    <3> QED BY <2>3, <3>3, <3>5 DEF Answer, TurnTypeOK
  <2>4. ASSUME NEW m \in Messages, Fail(m) PROVE TurnTypeOK'
    <3>1. msg[m] \in Turn /\ [msg[m] EXCEPT !.pc = "failed"] \in Turn
      BY MovedTurn DEF TurnTypeOK, Points
    <3> QED BY <2>4, <3>1 DEF Fail, TurnTypeOK
  <2>5. ASSUME NEW m \in Messages, Reply(m) PROVE TurnTypeOK'
    <3>1. msg[m] \in Turn /\ [msg[m] EXCEPT !.pc = "replied"] \in Turn
      BY MovedTurn DEF TurnTypeOK, Points
    <3>2. msg[m].session \in Asked /\ msg[m].asked \in Asked
      BY <3>1, <1>0 DEF Turn, Asked, Sessions, NoSession
    <3>3. mapping' \in [Convs -> Asked] /\ remembered' \in [Convs -> Asked]
      BY <2>5, <3>2 DEF Reply, TurnTypeOK
    <3> QED BY <2>5, <3>1, <3>3 DEF Reply, TurnTypeOK
  <2>6. ASSUME NEW s \in Sessions, Delete(s) PROVE TurnTypeOK'
    BY <2>6 DEF Delete, TurnTypeOK
  <2>7. ASSUME Restart PROVE TurnTypeOK'
    <3>1. \A m \in Messages : msg[m] \in Turn /\ [msg[m] EXCEPT !.pc = "lost"] \in Turn
      BY MovedTurn DEF TurnTypeOK, Points
    <3>2. msg' \in [Messages -> Turn]
      BY <2>7, <3>1 DEF Restart
    <3> QED BY <1>0, <2>7, <3>2 DEF Restart, TurnTypeOK, NoSession, Asked
  <2>8. ASSUME Tick PROVE TurnTypeOK'
    BY <1>0, <2>8 DEF Tick, TurnTypeOK
  <2>9. CASE UNCHANGED vars
    BY <2>9 DEF vars, TurnTypeOK
  <2> QED BY <2>1, <2>2, <2>3, <2>4, <2>5, <2>6, <2>7, <2>8, <2>9 DEF Next, Handle, Arrive
<1> QED BY <1>1, <1>2, PTL DEF Spec

-----------------------------------------------------------------------------

\* What RateInv says is not disturbed by a step that lets nobody through,
\* forgets no timestamp and moves no message that was let through.
LEMMA RateKept ==
  ASSUME TurnTypeOK, RateInv, TurnTypeOK',
         served' = served, recent' = recent, now' >= now,
         \A m \in served : /\ msg'[m].conv = msg[m].conv /\ msg'[m].at = msg[m].at
                           /\ msg'[m].pc # "new"
  PROVE  RateInv'
<1>0. /\ now \in Int /\ now' \in Int /\ Window \in Int
      /\ \A m \in served : m \in Messages /\ msg[m].at \in Int /\ msg'[m].at \in Int
  BY ConversationAssumption DEF TurnTypeOK, Turn
<1>1. IsFiniteSet(served)' /\ (\A m \in served' : msg'[m].pc # "new" /\ msg'[m].at <= now')
  BY <1>0 DEF RateInv
<1>2. \A c \in Convs : \A m \in recent'[c] : m \in served' /\ msg'[m].conv = c
  BY DEF RateInv
<1>3. \A m \in served' : m \in recent'[msg'[m].conv] \/ msg'[m].at <= now' - Window
  BY <1>0 DEF RateInv
<1>4. \A c \in Convs, t \in 0..MaxTime : Through(c, t)' = Through(c, t)
  BY DEF Through
<1>5. RateBound'
  BY <1>4 DEF RateInv, RateBound
<1> QED BY <1>1, <1>2, <1>3, <1>5 DEF RateInv

\* What the list still holds at an instant is what got through in the window
\* that ends then.
LEMMA FreshIsThrough ==
  ASSUME TurnTypeOK, RateInv, NEW c \in Convs
  PROVE  /\ IsFiniteSet(Fresh(c))
         /\ Fresh(c) = Through(c, now)
         /\ \A t \in 0..MaxTime : t >= now => Through(c, t) \subseteq Fresh(c)
<1>0. /\ now \in Int /\ Window \in Int
      /\ \A m \in served : m \in Messages /\ msg[m].at \in Int
  BY ConversationAssumption DEF TurnTypeOK, Turn
<1>1. Fresh(c) \subseteq Through(c, now)
  BY <1>0 DEF Fresh, InWindow, Through, RateInv
<1>2. ASSUME NEW t \in 0..MaxTime, t >= now PROVE Through(c, t) \subseteq Fresh(c)
  BY <1>0, <1>2 DEF Fresh, InWindow, Through, RateInv
<1>3. now \in 0..MaxTime
  BY DEF TurnTypeOK
<1>4. Through(c, now) \subseteq Fresh(c)
  BY <1>0, <1>2, <1>3
<1>5. IsFiniteSet(Fresh(c))
  <2>1. Fresh(c) \subseteq served
    BY DEF Fresh, RateInv
  <2> QED BY <2>1, FS_Subset DEF RateInv
<1> QED BY <1>1, <1>2, <1>4, <1>5

LEMMA DenyKeepsRate ==
  ASSUME TurnTypeOK, RateInv, NEW m \in Messages, NEW c \in Convs, Deny(m, c)
  PROVE  RateInv'
<1>0. /\ now \in Int /\ Window \in Int
      /\ \A x \in served : x \in Messages /\ msg[x].at \in Int
  BY ConversationAssumption DEF TurnTypeOK, Turn
<1>1. served' = served /\ now' = now /\ m \notin served
  BY DEF Deny, RateInv
<1>2. \A x \in served : msg'[x] = msg[x]
  BY <1>0, <1>1 DEF Deny, TurnTypeOK
<1>3. recent' = [recent EXCEPT ![c] = Fresh(c)]
  BY DEF Deny
<1>4. \A d \in Convs : \A x \in recent'[d] : x \in recent[d]
  BY <1>3 DEF Fresh, TurnTypeOK
<1>5. \A d \in Convs : \A x \in recent'[d] : x \in served' /\ msg'[x].conv = d
  BY <1>1, <1>2, <1>4 DEF RateInv
<1>6. \A x \in served' : x \in recent'[msg'[x].conv] \/ msg'[x].at <= now' - Window
  <2> SUFFICES ASSUME NEW x \in served, x \in recent[msg[x].conv], ~InWindow(x) \/ x \in Fresh(msg[x].conv)
               PROVE  x \in recent'[msg[x].conv] \/ msg[x].at <= now - Window
    BY <1>0, <1>1, <1>2 DEF RateInv, Fresh
  <2> QED BY <1>0, <1>3 DEF InWindow, TurnTypeOK
<1>7. \A d \in Convs, t \in 0..MaxTime : Through(d, t)' = Through(d, t)
  BY <1>1, <1>2 DEF Through
<1> QED BY <1>0, <1>1, <1>2, <1>5, <1>6, <1>7 DEF RateInv, RateBound

\* The step the limit is about: the message that gets through finds fewer than
\* MaxMessages others in every window that ends now or later.
LEMMA ReceiveKeepsRate ==
  ASSUME TurnTypeOK, RateInv, NEW m \in Messages, NEW c \in Convs, NEW name \in Names,
         Receive(m, c, name)
  PROVE  RateInv'
<1>0. /\ now \in 0..MaxTime /\ MaxTime \in Nat /\ Window \in Nat \ {0} /\ MaxMessages \in Nat
      /\ \A x \in served : x \in Messages /\ msg[x].at \in Int
  BY ConversationAssumption DEF TurnTypeOK, Turn
<1>1. /\ now' = now /\ m \notin served /\ served' = served \cup {m}
      /\ recent' = [recent EXCEPT ![c] = Fresh(c) \cup {m}]
      /\ Cardinality(Fresh(c)) < MaxMessages
  BY DEF Receive, RateInv
<1>2. \A x \in served : msg'[x] = msg[x]
  BY <1>0, <1>1 DEF Receive, TurnTypeOK
<1>3. msg'[m].pc = "running" /\ msg'[m].conv = c /\ msg'[m].at = now
  BY DEF Receive, TurnTypeOK
<1>4. IsFiniteSet(served')
  BY <1>1, FS_AddElement DEF RateInv
<1>5. \A x \in served' : msg'[x].pc # "new" /\ msg'[x].at <= now'
  BY <1>0, <1>1, <1>2, <1>3 DEF RateInv
<1>6. \A d \in Convs : \A x \in recent'[d] : x \in served' /\ msg'[x].conv = d
  <2> SUFFICES ASSUME NEW d \in Convs, NEW x \in recent'[d]
               PROVE  x \in served' /\ msg'[x].conv = d
    OBVIOUS
  <2>1. x \in recent[d] \/ (x = m /\ d = c)
    BY <1>1 DEF Fresh, TurnTypeOK
  <2> QED BY <2>1, <1>1, <1>2, <1>3 DEF RateInv
<1>7. \A x \in served' : x \in recent'[msg'[x].conv] \/ msg'[x].at <= now' - Window
  <2> SUFFICES ASSUME NEW x \in served' PROVE x \in recent'[msg'[x].conv] \/ msg'[x].at <= now' - Window
    OBVIOUS
  <2>1. CASE x = m
    BY <2>1, <1>1, <1>3 DEF TurnTypeOK
  <2>2. CASE x \in served
    <3>1. msg'[x] = msg[x]
      BY <2>2, <1>2
    <3>2. CASE msg[x].at <= now - Window
      BY <3>1, <3>2, <1>1
    <3>3. CASE x \in recent[msg[x].conv] /\ msg[x].at > now - Window
      <4>1. x \in Fresh(msg[x].conv)
        BY <3>3 DEF Fresh, InWindow
      <4> QED BY <4>1, <3>1, <3>3, <1>1 DEF TurnTypeOK
    <3> QED BY <2>2, <3>2, <3>3, <1>0 DEF RateInv
  <2> QED BY <2>1, <2>2, <1>1
<1>8. ASSUME NEW d \in Convs, NEW t \in 0..MaxTime
      PROVE  Cardinality(Through(d, t)') <= MaxMessages
  <2>1. CASE d # c \/ t < now
    <3>1. Through(d, t)' = Through(d, t)
      BY <2>1, <1>0, <1>1, <1>2, <1>3 DEF Through
    <3> QED BY <3>1 DEF RateInv, RateBound
  <2>2. CASE d = c /\ t >= now
    <3>1. Through(c, t)' \subseteq Through(c, t) \cup {m}
      BY <1>1, <1>2 DEF Through
    <3>2. IsFiniteSet(Fresh(c)) /\ Through(c, t) \subseteq Fresh(c)
      BY <2>2, FreshIsThrough
    <3>3. m \notin Fresh(c)
      BY <1>1 DEF Fresh, RateInv
    <3>4. IsFiniteSet(Fresh(c) \cup {m}) /\ Cardinality(Fresh(c) \cup {m}) = Cardinality(Fresh(c)) + 1
      BY <3>2, <3>3, FS_AddElement
    <3>5. Through(c, t)' \subseteq Fresh(c) \cup {m}
      BY <3>1, <3>2
    <3>6. Cardinality(Through(c, t)') <= Cardinality(Fresh(c) \cup {m}) /\ Cardinality(Through(c, t)') \in Nat
      BY <3>4, <3>5, FS_Subset, FS_CardinalityType
    <3>7. Cardinality(Fresh(c)) \in Nat
      BY <3>2, FS_CardinalityType
    <3> QED BY <2>2, <3>4, <3>6, <3>7, <1>0, <1>1
  <2> QED BY <2>1, <2>2, <1>0
<1>9. RateBound'
  BY <1>8 DEF RateBound
<1> QED BY <1>4, <1>5, <1>6, <1>7, <1>9 DEF RateInv

LEMMA RestartKeepsRate ==
  ASSUME TurnTypeOK, RateInv, Restart
  PROVE  RateInv'
<1>1. served' = {} /\ IsFiniteSet(served') /\ recent' = [c \in Convs |-> {}]
  BY FS_EmptySet DEF Restart
<1>2. \A c \in Convs, t \in 0..MaxTime : Through(c, t)' = {}
  BY <1>1 DEF Through
<1>3. RateBound'
  BY <1>2, FS_EmptySet, ConversationAssumption DEF RateBound
<1> QED BY <1>1, <1>3 DEF RateInv

LEMMA RateInductive == Spec => [](TurnTypeOK /\ RateInv)
<1>1. Init => RateInv
  <2> SUFFICES ASSUME Init PROVE RateInv
    OBVIOUS
  <2>1. \A c \in Convs, t \in 0..MaxTime : Through(c, t) = {}
    BY DEF Init, Through
  <2> QED BY <2>1, FS_EmptySet, ConversationAssumption DEF Init, RateInv, RateBound
<1>2. TurnTypeOK /\ RateInv /\ TurnTypeOK' /\ [Next]_vars => RateInv'
  <2> SUFFICES ASSUME TurnTypeOK, RateInv, TurnTypeOK', [Next]_vars PROVE RateInv'
    OBVIOUS
  <2>0. now \in Int /\ \A m \in served : m \in Messages /\ msg[m].pc # "new"
    BY DEF TurnTypeOK, RateInv
  <2>1. ASSUME NEW m \in Messages, Answer(m) PROVE RateInv'
    <3>1. PICK pc \in {"saved", "gaveUp"} : SaveTurn(m, pc)
      BY <2>1 DEF Answer
    <3> QED BY <2>0, <2>1, <3>1, RateKept DEF Answer, SaveTurn, TurnTypeOK, Turn
  <2>2. ASSUME NEW m \in Messages, Fail(m) PROVE RateInv'
    <3>1. \A n \in Messages : msg'[n] = msg[n] \/ (n = m /\ msg'[n] = [msg[n] EXCEPT !.pc = "failed"])
      BY <2>2 DEF Fail, TurnTypeOK
    <3>2. \A n \in Messages : /\ msg'[n].conv = msg[n].conv /\ msg'[n].at = msg[n].at
                              /\ msg[n].pc # "new" => msg'[n].pc # "new"
      BY <3>1 DEF TurnTypeOK, Turn
    <3>3. served' = served /\ recent' = recent /\ now' = now
      BY <2>2 DEF Fail
    <3> QED BY <2>0, <3>2, <3>3, RateKept
  <2>3. ASSUME NEW m \in Messages, Reply(m) PROVE RateInv'
    BY <2>0, <2>3, RateKept DEF Reply, TurnTypeOK, Turn
  <2>4. ASSUME NEW s \in Sessions, Delete(s) PROVE RateInv'
    BY <2>0, <2>4, RateKept DEF Delete
  <2>5. CASE Tick
    BY <2>0, <2>5, RateKept DEF Tick
  <2>6. CASE UNCHANGED vars
    BY <2>0, <2>6, RateKept DEF vars
  <2> QED BY <2>1, <2>2, <2>3, <2>4, <2>5, <2>6, DenyKeepsRate, ReceiveKeepsRate, RestartKeepsRate
          DEF Next, Handle, Arrive
<1> QED BY <1>1, <1>2, TurnTypeCorrect, PTL DEF Spec

\* In every window of the configured length at most MaxMessages messages of a
\* conversation get through, in one life of the process.
THEOREM RateLimited == Spec => []RateBound
<1>1. TurnTypeOK /\ RateInv => RateBound
  BY DEF RateInv
<1> QED BY <1>1, RateInductive, PTL

\* A message is denied only when the limit is used up by messages that got
\* through within the window that ends now.
THEOREM DeniedOnlyAtLimit == Spec => DeniedAtLimit
<1>1. TurnTypeOK /\ RateInv /\ [Next]_vars =>
        [\A m \in Messages : (msg[m].pc = "new" /\ msg'[m].pc = "denied")
           => Cardinality(Through(msg'[m].conv, now)) = MaxMessages]_vars
  <2> SUFFICES ASSUME TurnTypeOK, RateInv, Next, NEW m \in Messages,
                      msg[m].pc = "new", msg'[m].pc = "denied"
               PROVE  Cardinality(Through(msg'[m].conv, now)) = MaxMessages
    OBVIOUS
  <2>0. msg \in [Messages -> Turn] /\ now \in 0..MaxTime /\ MaxMessages \in Nat
    BY ConversationAssumption DEF TurnTypeOK
  <2>1. ASSUME NEW n \in Messages, NEW c \in Convs, Deny(n, c)
        PROVE  Cardinality(Through(msg'[m].conv, now)) = MaxMessages
    <3>1. n = m /\ msg'[m].conv = c
      BY <2>0, <2>1 DEF Deny
    <3>2. Fresh(c) = Through(c, now) /\ Cardinality(Fresh(c)) \in Nat
      BY FreshIsThrough, FS_CardinalityType
    <3>3. Cardinality(Fresh(c)) >= MaxMessages
      BY <2>1 DEF Deny
    <3>4. Cardinality(Through(c, now)) <= MaxMessages
      BY <2>0 DEF RateInv, RateBound
    <3> QED BY <2>0, <3>1, <3>2, <3>3, <3>4
  <2>2. ASSUME NEW n \in Messages, NEW c \in Convs, NEW name \in Names, Receive(n, c, name)
        PROVE  FALSE
    BY <2>0, <2>2 DEF Receive
  <2>3. ASSUME NEW n \in Messages, Answer(n) \/ Fail(n) \/ Reply(n) PROVE FALSE
    BY <2>0, <2>3 DEF Answer, SaveTurn, Fail, Reply, Turn
  <2>4. ASSUME NEW s \in Sessions, Delete(s) PROVE FALSE
    BY <2>4 DEF Delete
  <2>5. ASSUME Restart PROVE FALSE
    BY <2>0, <2>5 DEF Restart
  <2>6. ASSUME Tick PROVE FALSE
    BY <2>6 DEF Tick
  <2> QED BY <2>1, <2>2, <2>3, <2>4, <2>5, <2>6 DEF Next, Handle, Arrive
<1> QED BY <1>1, RateInductive, PTL DEF Spec, DeniedAtLimit
-----------------------------------------------------------------------------

\* What Receive does, with the session that it finds or makes named.
LEMMA ReceiveFacts ==
  ASSUME TurnTypeOK, NEW m \in Messages, NEW c \in Convs, NEW name \in Names, Receive(m, c, name)
  PROVE  \E s \in Sessions, asked \in Asked :
           /\ issued <= issued' /\ s <= issued'
           /\ files' = [x \in Sessions |-> IF x \in issued + 1 .. issued' THEN {} ELSE files[x]]
           /\ msg' = [msg EXCEPT ![m] = [pc |-> "running", conv |-> c, at |-> now, named |-> name \in Sessions,
                                         asked |-> asked, session |-> s, copy |-> files'[s]]]
           /\ l2' = Record(s, m)
           /\ crowded' = IF Running(s) = {} THEN crowded ELSE crowded \cup Running(s) \cup {m}
           /\ s > issued \/ s = asked
           /\ Registry =>
                /\ mapping' = [mapping EXCEPT ![c] = asked]
                /\ asked \in 1..issued /\ files[asked] # Missing => s = asked
                /\ mapping[c] # NoSession => asked = mapping[c]
                /\ mapping[c] = NoSession => asked \in {name, issued + 1} \ {NoSession}
                /\ mapping[c] = NoSession /\ asked \in Sessions /\ asked > issued => s = asked
<1> DEFINE r     == Resolved(c, name)
           first == issued + r.made
           s     == Open(r.asked, Created(first), first + 1)
           last  == IF s > first THEN s ELSE first
<1>0. MaxSessions \in Nat /\ issued \in 0..MaxSessions
  BY ConversationAssumption DEF TurnTypeOK
<1>1. last <= MaxSessions /\ issued' = last
  BY DEF Receive
<1>2. /\ s \in Sessions /\ r.asked \in Asked /\ issued <= last /\ s <= last
      /\ s \in issued + 1 .. last \/ s = r.asked
      /\ r.asked \in 1..issued /\ files[r.asked] # Missing => s = r.asked
      /\ Registry =>
           /\ mapping[c] # NoSession => r.asked = mapping[c]
           /\ mapping[c] = NoSession => r.asked \in {name, issued + 1} \ {NoSession}
           /\ mapping[c] = NoSession /\ r.asked \in Sessions /\ r.asked > issued => s = r.asked
  BY <1>1, OpenedSession
<1>3. /\ files' = [x \in Sessions |-> IF x \in issued + 1 .. last THEN {} ELSE files[x]]
      /\ msg' = [msg EXCEPT ![m] = [pc |-> "running", conv |-> c, at |-> now, named |-> name \in Sessions,
                                    asked |-> r.asked, session |-> s, copy |-> files'[s]]]
      /\ l2' = Record(s, m)
      /\ crowded' = IF Running(s) = {} THEN crowded ELSE crowded \cup Running(s) \cup {m}
      /\ Registry => mapping' = [mapping EXCEPT ![c] = r.asked]
  BY DEF Receive, Created
<1> HIDE DEF s, r, last
<1>4. s > issued \/ s = r.asked
  BY <1>0, <1>2
<1> QED BY <1>1, <1>2, <1>3, <1>4

\* The transcript is as it was, and so are the messages that it is about.
LEMMA QuestionsKept ==
  ASSUME Transcribed, l2' = l2,
         \A m \in Messages : /\ msg'[m].session = msg[m].session
                             /\ msg[m].session # NoSession => msg'[m].at = msg[m].at
  PROVE  Transcribed'
<1> SUFFICES ASSUME NEW m \in Messages, msg'[m].session # NoSession
             PROVE  \E n \in Messages : /\ <<msg'[m].session, msg'[m].at, n>> \in l2'
                                        /\ msg'[n].session = msg'[m].session /\ msg'[n].at = msg'[m].at
  BY DEF Transcribed, Entered
<1>1. m \in Entered
  BY DEF Entered
<1>2. PICK n \in Messages : /\ <<msg[m].session, msg[m].at, n>> \in l2
                            /\ msg[n].session = msg[m].session /\ msg[n].at = msg[m].at
  BY <1>1 DEF Transcribed
<1>3. msg[n].session # NoSession
  BY <1>2
<1> QED BY <1>2, <1>3

\* Steps that leave files, sessions and running turns alone: they may only
\* take a turn from one of these to another point that is no worse.
Settles(pc, next) ==
  \/ next = pc
  \/ pc = "new" /\ next = "denied"
  \/ pc = "running" /\ next \in {"failed", "lost"}
  \/ pc \in {"saved", "gaveUp"} /\ next \in {"replied", "lost"}

LEMMA SettlingKeeps ==
  ASSUME TurnTypeOK, TurnTypeOK', Issuance, Loaded, TurnsKept, Transcribed,
         UNCHANGED <<files, issued, l2, pruned, crowded>>,
         \A m \in Messages :
           /\ Settles(msg[m].pc, msg'[m].pc)
           /\ msg'[m].session = msg[m].session
           /\ msg'[m].copy = msg[m].copy \/ msg[m].pc = "new"
           /\ msg'[m].at = msg[m].at \/ msg[m].pc = "new"
  PROVE  Issuance' /\ Loaded' /\ TurnsKept' /\ Transcribed'
<1>1. \A m \in Messages : /\ m \in Answered' => m \in Answered
                          /\ msg'[m].pc = "running" => msg[m].pc = "running"
  BY DEF Settles, Answered
<1>2. Issuance'
  BY <1>1 DEF Issuance, Settles
<1>3. Loaded'
  BY <1>1 DEF Loaded
<1>4. TurnsKept'
  BY <1>1 DEF TurnsKept, Answered
<1>5. \A m \in Messages : msg[m].session # NoSession => msg'[m].at = msg[m].at
  BY DEF Issuance
<1>6. Transcribed'
  BY <1>5, QuestionsKept
<1> QED BY <1>2, <1>3, <1>4, <1>6

\* A new turn: what is in its session by now is in its copy, and turns that
\* run beside it are crowded.
LEMMA ReceiveKeeps ==
  ASSUME TurnTypeOK, TurnTypeOK', Issuance, Loaded, TurnsKept, Transcribed,
         NEW m \in Messages, NEW c \in Convs, NEW name \in Names, Receive(m, c, name)
  PROVE  Issuance' /\ Loaded' /\ TurnsKept' /\ Transcribed'
<1>0. MaxSessions \in Nat /\ issued \in 0..MaxSessions /\ issued' \in 0..MaxSessions
  BY ConversationAssumption DEF TurnTypeOK
<1>1. PICK s \in Sessions, asked \in Asked :
        /\ issued <= issued' /\ s <= issued'
        /\ files' = [x \in Sessions |-> IF x \in issued + 1 .. issued' THEN {} ELSE files[x]]
        /\ msg' = [msg EXCEPT ![m] = [pc |-> "running", conv |-> c, at |-> now, named |-> name \in Sessions,
                                      asked |-> asked, session |-> s, copy |-> files'[s]]]
        /\ l2' = Record(s, m)
        /\ crowded' = IF Running(s) = {} THEN crowded ELSE crowded \cup Running(s) \cup {m}
  BY ReceiveFacts
<1>2. /\ msg'[m].pc = "running" /\ msg'[m].session = s /\ msg'[m].at = now /\ msg'[m].copy = files'[s]
      /\ \A n \in Messages \ {m} : msg'[n] = msg[n]
  BY <1>1 DEF TurnTypeOK
<1>3. msg[m].pc = "new" /\ msg[m].session = NoSession /\ pruned' = pruned
  BY DEF Receive, Issuance
<1>4. s \in Nat /\ s # NoSession /\ \A x \in Sessions : x \in Nat /\ x # NoSession
  BY <1>0 DEF Sessions, NoSession
<1>5. m \notin Answered' /\ \A n \in Messages : n \in Answered' <=> n \in Answered
  BY <1>2, <1>3 DEF Answered
<1>6. /\ \A n \in Answered : msg[n].session \in Sessions /\ msg[n].session <= issued
      /\ crowded \subseteq crowded'
      /\ \A n \in Messages : msg[n].pc = "running" /\ msg[n].session = s => n \in crowded' /\ m \in crowded'
  <2>1. \A n \in Messages : msg[n].session \in 0..MaxSessions
    BY DEF TurnTypeOK, Turn
  <2>2. \A n \in Answered : n \in Messages /\ msg[n].session # NoSession /\ msg[n].session <= issued
    BY DEF Issuance, Answered
  <2>3. \A n \in Answered : msg[n].session \in Sessions /\ msg[n].session <= issued
    BY <2>1, <2>2, <1>0 DEF Sessions, NoSession
  <2> QED BY <2>3, <1>1 DEF Running
<1>7. Issuance'
  <2>1. \A n \in Messages : msg[n].session \in Int
    BY <1>0 DEF TurnTypeOK, Turn
  <2>2. ASSUME NEW n \in Messages
        PROVE  /\ msg'[n].pc \in {"new", "denied"} => msg'[n].session = NoSession
               /\ msg'[n].pc = "running" \/ n \in Answered' => msg'[n].session # NoSession
               /\ msg'[n].session <= issued'
    <3>1. CASE n = m
      BY <3>1, <1>1, <1>2, <1>4, <1>5
    <3>2. CASE n # m
      BY <3>2, <2>1, <1>0, <1>1, <1>2, <1>5 DEF Issuance
    <3> QED BY <3>1, <3>2
  <2>3. \A x \in Sessions : x > issued' => files'[x] = Missing
    BY <1>0, <1>1, <1>4 DEF Issuance
  <2> QED BY <2>2, <2>3 DEF Issuance
<1>8. \A n \in Answered : files'[msg[n].session] = files[msg[n].session]
  BY <1>0, <1>1, <1>6, <1>4
<1>9. TurnsKept'
  <2> SUFFICES ASSUME NEW n \in Answered', n \notin crowded', msg'[n].session \notin pruned
               PROVE  files'[msg'[n].session] # Missing /\ n \in files'[msg'[n].session]
    BY <1>3 DEF TurnsKept
  <2>1. n \in Messages /\ n # m /\ n \in Answered /\ msg'[n] = msg[n] /\ n \notin crowded
    BY <1>2, <1>5, <1>6 DEF Answered
  <2> QED BY <2>1, <1>8 DEF TurnsKept
<1>10. Loaded'
  <2> SUFFICES ASSUME NEW k \in Messages, NEW n \in Messages, msg'[k].pc = "running", k # n,
                      msg'[k].session = msg'[n].session
               PROVE  /\ msg'[n].pc = "running" => n \in crowded'
                      /\ n \in Answered' /\ n \notin crowded' /\ msg'[n].session \notin pruned
                           => n \in msg'[k].copy
    BY <1>3 DEF Loaded
  <2>1. CASE k # m /\ n # m
    BY <2>1, <1>2, <1>5, <1>6 DEF Loaded
  <2>2. CASE k = m
    <3>1. msg'[n] = msg[n] /\ msg[n].session = s
      BY <2>2, <1>2
    <3>2. msg'[n].pc = "running" => n \in crowded'
      BY <3>1, <1>6
    <3>3. ASSUME n \in Answered', n \notin crowded', msg'[n].session \notin pruned
          PROVE  n \in msg'[k].copy
      <4>1. n \in Answered /\ n \notin crowded
        BY <3>3, <1>5, <1>6
      <4>2. n \in files[s] /\ files'[s] = files[s]
        BY <4>1, <3>1, <3>3, <1>8 DEF TurnsKept
      <4> QED BY <4>2, <2>2, <1>2
    <3> QED BY <3>2, <3>3
  <2>3. CASE n = m
    <3>1. k \in Messages \ {m} /\ msg[k].pc = "running" /\ msg[k].session = s
      BY <2>3, <1>2
    <3> QED BY <3>1, <2>3, <1>5, <1>6
  <2> QED BY <2>1, <2>2, <2>3
<1>11. Transcribed'
  <2> SUFFICES ASSUME NEW k \in Messages, msg'[k].session # NoSession
               PROVE  \E n \in Messages : /\ <<msg'[k].session, msg'[k].at, n>> \in l2'
                                          /\ msg'[n].session = msg'[k].session /\ msg'[n].at = msg'[k].at
    BY DEF Transcribed, Entered
  <2>1. l2' = {e \in l2 : e[1] # s \/ e[2] # now} \cup {<<s, now, m>>}
    BY <1>1 DEF Record
  <2>2. CASE msg'[k].session = s /\ msg'[k].at = now
    BY <2>1, <2>2, <1>2
  <2>3. CASE msg'[k].session # s \/ msg'[k].at # now
    <3>1. k # m /\ msg'[k] = msg[k]
      BY <2>3, <1>2
    <3>2. PICK n \in Messages : /\ <<msg[k].session, msg[k].at, n>> \in l2
                                /\ msg[n].session = msg[k].session /\ msg[n].at = msg[k].at
      BY <3>1 DEF Transcribed, Entered
    <3>3. n # m /\ msg'[n] = msg[n]
      BY <3>1, <3>2, <1>2, <1>3
    <3>4. <<msg[k].session, msg[k].at, n>> \in l2'
      BY <2>1, <2>3, <3>1, <3>2
    <3> QED BY <3>1, <3>2, <3>3, <3>4
  <2> QED BY <2>2, <2>3
<1> QED BY <1>7, <1>9, <1>10, <1>11

\* The end of a turn: what was answered in the session before is in its copy,
\* or was saved by a turn beside it.
LEMMA SaveTurnKeeps ==
  ASSUME TurnTypeOK, TurnTypeOK', Issuance, Loaded, TurnsKept, Transcribed,
         NEW m \in Messages, NEW pc \in {"saved", "gaveUp"}, SaveTurn(m, pc),
         UNCHANGED <<issued, l2, pruned, crowded>>
  PROVE  Issuance' /\ Loaded' /\ TurnsKept' /\ Transcribed'
<1> DEFINE s == msg[m].session
<1>0. MaxSessions \in Nat /\ msg \in [Messages -> Turn] /\ issued \in 0..MaxSessions
  BY ConversationAssumption DEF TurnTypeOK
<1>1. s \in Sessions /\ s <= issued /\ \A x \in Sessions : x \in Int
  <2>1. s # NoSession /\ s <= issued /\ s \in 0..MaxSessions
    BY <1>0 DEF SaveTurn, Issuance, Turn
  <2> QED BY <2>1, <1>0 DEF Sessions, NoSession
<1>2. files' = [files EXCEPT ![s] = msg[m].copy \cup {m}] /\ msg' = [msg EXCEPT ![m].pc = pc]
      /\ msg[m].pc = "running"
  BY DEF SaveTurn
<1>3. /\ files'[s] = msg[m].copy \cup {m} /\ files'[s] # Missing
      /\ \A x \in Sessions \ {s} : files'[x] = files[x]
  <2>1. msg[m].copy \cup {m} \in SUBSET Messages
    BY <1>0 DEF Turn
  <2> HIDE DEF s
  <2> QED BY <2>1, <1>1, <1>2, ConversationAssumption DEF TurnTypeOK
<1>4. /\ \A n \in Messages : msg'[n].session = msg[n].session /\ msg'[n].at = msg[n].at
                             /\ msg'[n].copy = msg[n].copy
      /\ \A n \in Messages \ {m} : msg'[n].pc = msg[n].pc
      /\ msg'[m].pc = pc
  BY <1>0, <1>2 DEF Turn
<1> HIDE DEF s
<1>5. \A n \in Messages : n \in Answered' => n \in Answered \/ n = m
  BY <1>4 DEF Answered
<1>6. Issuance'
  <2>1. \A n \in Messages : /\ msg'[n].pc \in {"new", "denied"} => msg'[n].session = NoSession
                            /\ msg'[n].pc = "running" \/ n \in Answered' => msg'[n].session # NoSession
                            /\ msg'[n].session <= issued'
    <3> SUFFICES ASSUME NEW n \in Messages
                 PROVE  /\ msg'[n].pc \in {"new", "denied"} => msg'[n].session = NoSession
                        /\ msg'[n].pc = "running" \/ n \in Answered' => msg'[n].session # NoSession
                        /\ msg'[n].session <= issued'
      OBVIOUS
    <3>1. CASE n = m
      BY <3>1, <1>2, <1>4 DEF Issuance
    <3>2. CASE n # m
      BY <3>2, <1>4, <1>5 DEF Issuance
    <3> QED BY <3>1, <3>2
  <2>2. \A x \in Sessions : x > issued' => files'[x] = Missing
    BY <1>0, <1>1, <1>3 DEF Issuance
  <2> QED BY <2>1, <2>2 DEF Issuance
<1>7. Loaded'
  <2> SUFFICES ASSUME NEW k \in Messages, NEW n \in Messages, msg'[k].pc = "running", k # n,
                      msg'[k].session = msg'[n].session
               PROVE  /\ msg'[n].pc = "running" => n \in crowded
                      /\ n \in Answered' /\ n \notin crowded /\ msg'[n].session \notin pruned
                           => n \in msg'[k].copy
    BY DEF Loaded
  <2>1. k # m /\ msg[k].pc = "running" /\ msg[k].session = msg[n].session
    BY <1>4
  <2>2. msg'[n].pc = "running" => msg[n].pc = "running"
    BY <1>2, <1>4
  <2>3. n = m => n \in crowded
    BY <2>1, <1>2 DEF Loaded
  <2> QED BY <2>1, <2>2, <2>3, <1>4, <1>5 DEF Loaded
<1>8. TurnsKept'
  <2> SUFFICES ASSUME NEW n \in Answered', n \notin crowded, msg'[n].session \notin pruned
               PROVE  files'[msg'[n].session] # Missing /\ n \in files'[msg'[n].session]
    BY DEF TurnsKept
  <2>0. n \in Messages /\ msg'[n].session = msg[n].session
    BY <1>4 DEF Answered
  <2>1. CASE n = m
    BY <2>0, <2>1, <1>3 DEF s
  <2>2. CASE n # m /\ msg[n].session = s
    <3>1. n \in Answered
      BY <2>0, <2>2, <1>5
    <3>2. n \in msg[m].copy
      BY <2>0, <2>2, <3>1, <1>2 DEF Loaded, s
    <3> QED BY <2>0, <2>2, <3>2, <1>3
  <2>3. CASE n # m /\ msg[n].session # s
    <3>1. n \in Answered
      BY <2>0, <2>3, <1>5
    <3>2. msg[n].session \in Sessions
      <4>1. msg[n].session \in 0..MaxSessions /\ msg[n].session # NoSession
        BY <1>0, <2>0, <3>1 DEF Issuance, Turn
      <4> QED BY <4>1, <1>0 DEF Sessions, NoSession
    <3> QED BY <2>0, <2>3, <3>1, <3>2, <1>3 DEF TurnsKept
  <2> QED BY <2>1, <2>2, <2>3
<1>9. Transcribed'
  BY <1>4, QuestionsKept
<1> QED BY <1>6, <1>7, <1>8, <1>9

SessionInv == TurnTypeOK /\ Issuance /\ Loaded /\ TurnsKept /\ Transcribed

LEMMA SessionsInvariant == Spec => []SessionInv
<1>0. MaxSessions \in Nat
  BY ConversationAssumption
<1>1. Init => Issuance /\ Loaded /\ TurnsKept /\ Transcribed
  BY <1>0 DEF Init, Issuance, Loaded, TurnsKept, Transcribed, Answered, Entered, NotReceived,
              NoSession, Sessions
<1>2. SessionInv /\ TurnTypeOK' /\ [Next]_vars => SessionInv'
  <2> SUFFICES ASSUME TurnTypeOK, Issuance, Loaded, TurnsKept, Transcribed, TurnTypeOK', [Next]_vars
               PROVE  Issuance' /\ Loaded' /\ TurnsKept' /\ Transcribed'
    BY DEF SessionInv
  <2>0. msg \in [Messages -> Turn]
    BY DEF TurnTypeOK
  <2>1. ASSUME NEW m \in Messages, NEW c \in Convs, Deny(m, c)
        PROVE  Issuance' /\ Loaded' /\ TurnsKept' /\ Transcribed'
    <3>1. \A n \in Messages : /\ Settles(msg[n].pc, msg'[n].pc)
                              /\ msg'[n].session = msg[n].session
                              /\ msg'[n].copy = msg[n].copy \/ msg[n].pc = "new"
                              /\ msg'[n].at = msg[n].at \/ msg[n].pc = "new"
      <4>1. \A n \in Messages \ {m} : msg'[n] = msg[n]
        BY <2>0, <2>1 DEF Deny
      <4>2. /\ msg[m].pc = "new" /\ msg'[m].pc = "denied" /\ msg'[m].session = NoSession
            /\ msg[m].session = NoSession
        BY <2>0, <2>1 DEF Deny, Issuance
      <4> QED BY <4>1, <4>2 DEF Settles
    <3>2. UNCHANGED <<files, issued, l2, pruned, crowded>>
      BY <2>1 DEF Deny
    <3> QED BY <3>1, <3>2, SettlingKeeps
  <2>2. ASSUME NEW m \in Messages, Answer(m)
        PROVE  Issuance' /\ Loaded' /\ TurnsKept' /\ Transcribed'
    <3>1. PICK pc \in {"saved", "gaveUp"} : SaveTurn(m, pc)
      BY <2>2 DEF Answer
    <3>2. UNCHANGED <<issued, l2, pruned, crowded>>
      BY <2>2 DEF Answer
    <3> QED BY <3>1, <3>2, SaveTurnKeeps
  <2>3. ASSUME NEW m \in Messages, NEW pc \in {"failed", "replied"}, Settles(msg[m].pc, pc),
               msg' = [msg EXCEPT ![m].pc = pc], UNCHANGED <<files, issued, l2, pruned, crowded>>
        PROVE  Issuance' /\ Loaded' /\ TurnsKept' /\ Transcribed'
    <3>1. \A n \in Messages : /\ Settles(msg[n].pc, msg'[n].pc)
                              /\ msg'[n].session = msg[n].session
                              /\ msg'[n].copy = msg[n].copy \/ msg[n].pc = "new"
                              /\ msg'[n].at = msg[n].at \/ msg[n].pc = "new"
      BY <2>0, <2>3 DEF Settles, Turn
    <3> QED BY <2>3, <3>1, SettlingKeeps
  <2>4. ASSUME NEW m \in Messages, Fail(m) \/ Reply(m)
        PROVE  Issuance' /\ Loaded' /\ TurnsKept' /\ Transcribed'
    BY <2>3, <2>4 DEF Fail, Reply, Settles
  <2>5. ASSUME NEW s \in Sessions, Delete(s)
        PROVE  Issuance' /\ Loaded' /\ TurnsKept' /\ Transcribed'
    <3>1. /\ UNCHANGED <<msg, issued, l2, crowded>> /\ pruned' = pruned \cup {s}
          /\ files' = [files EXCEPT ![s] = Missing]
      BY <2>5 DEF Delete
    <3>2. \A x \in Sessions : files'[x] = files[x] \/ (x = s /\ files'[x] = Missing)
      BY <3>1 DEF TurnTypeOK
    <3>3. Issuance'
      BY <3>1, <3>2 DEF Issuance, Answered
    <3>4. Loaded'
      BY <3>1 DEF Loaded, Answered
    <3>5. TurnsKept'
      <4> SUFFICES ASSUME NEW n \in Answered, n \notin crowded, msg[n].session \notin pruned, msg[n].session # s
                   PROVE  files'[msg[n].session] # Missing /\ n \in files'[msg[n].session]
        BY <3>1 DEF TurnsKept, Answered
      <4>1. msg[n].session \in Sessions
        <5>1. n \in Messages /\ msg[n].session \in 0..MaxSessions /\ msg[n].session # NoSession
          BY <2>0 DEF Issuance, Turn, Answered
        <5> QED BY <5>1, <1>0 DEF Sessions, NoSession
      <4> QED BY <4>1, <3>2 DEF TurnsKept
    <3>6. Transcribed'
      BY <3>1 DEF Transcribed, Entered
    <3> QED BY <3>3, <3>4, <3>5, <3>6
  <2>6. CASE Restart
    <3>1. \A n \in Messages : /\ Settles(msg[n].pc, msg'[n].pc)
                              /\ msg'[n].session = msg[n].session
                              /\ msg'[n].copy = msg[n].copy \/ msg[n].pc = "new"
                              /\ msg'[n].at = msg[n].at \/ msg[n].pc = "new"
      BY <2>0, <2>6 DEF Restart, Settles, Turn
    <3>2. UNCHANGED <<files, issued, l2, pruned, crowded>>
      BY <2>6 DEF Restart
    <3> QED BY <3>1, <3>2, SettlingKeeps
  <2>7. CASE Tick \/ UNCHANGED vars
    <3>1. UNCHANGED <<msg, files, issued, l2, pruned, crowded>>
      BY <2>7 DEF Tick, vars
    <3>2. \A n \in Messages : Settles(msg[n].pc, msg'[n].pc)
      BY <3>1 DEF Settles
    <3> QED BY <3>1, <3>2, SettlingKeeps
  <2> QED BY <2>1, <2>2, <2>4, <2>5, <2>6, <2>7, ReceiveKeeps DEF Next, Handle, Arrive
<1> QED BY <1>1, <1>2, TurnTypeCorrect, PTL DEF Spec, SessionInv

\* An answered turn stays in its session file, whatever else runs, fails or
\* restarts, unless turns of the session overlapped or the session was deleted.
THEOREM AnsweredTurnsKept == Spec => []TurnsKept
<1>1. SessionInv => TurnsKept
  BY DEF SessionInv
<1> QED BY <1>1, SessionsInvariant, PTL

\* The transcript has an event of the session and instant of every question.
THEOREM QuestionsTranscribed == Spec => []Transcribed
<1>1. SessionInv => Transcribed
  BY DEF SessionInv
<1> QED BY <1>1, SessionsInvariant, PTL

-----------------------------------------------------------------------------

\* A step that keeps the sessions, conversations and requests of the turns, and
\* maps a conversation anew only to a session that it holds, or to a stray name
\* that a turn of it asked for.
LEMMA MappedKept ==
  ASSUME TurnTypeOK, TurnTypeOK', Issuance, Mapped, issued' = issued, pruned \subseteq pruned',
         pruned' = {} => \A s \in 1..issued : files'[s] = Missing => files[s] = Missing,
         pruned' = {} /\ Registry =>
           \A c \in Convs : \/ mapping'[c] = mapping[c]
                            \/ /\ Astray(c)
                               /\ \E m \in Entered : msg[m].conv = c /\ mapping'[c] \in {msg[m].session, Stray},
         \A m \in Messages :
           /\ msg'[m].session = msg[m].session
           /\ msg[m].session # NoSession => /\ msg'[m].conv = msg[m].conv /\ msg'[m].asked = msg[m].asked
                                            /\ msg'[m].named = msg[m].named
  PROVE  Mapped'
<1> SUFFICES ASSUME Registry, pruned' = {}
             PROVE  /\ \A s \in 1..issued : files'[s] # Missing
                    /\ \A c \in Convs : mapping'[c] <= issued \/ mapping'[c] = Stray
                    /\ \A m \in Entered' :
                         /\ msg'[m].conv \in Convs /\ mapping'[msg'[m].conv] # NoSession
                         /\ msg'[m].asked \in {msg'[m].session, Stray}
                    /\ \A c \in Convs : Astray(c)' \/ \A m \in Entered' : msg'[m].conv = c => msg'[m].session = mapping'[c]
                    /\ \/ \E x \in Entered' : msg'[x].named
                       \/ \A c, d \in Convs : c # d => Held(c)' \cap Held(d)' = {}
  BY DEF Mapped
<1>0. MaxSessions \in Nat
  BY ConversationAssumption
<1>1. /\ \A s \in 1..issued : files[s] # Missing
      /\ \A c \in Convs : mapping[c] <= issued \/ mapping[c] = Stray
      /\ \A m \in Entered :
           /\ msg[m].conv \in Convs /\ mapping[msg[m].conv] # NoSession
           /\ msg[m].asked \in {msg[m].session, Stray}
      /\ \A c \in Convs : Astray(c) \/ \A m \in Entered : msg[m].conv = c => msg[m].session = mapping[c]
      /\ \/ \E x \in Entered : msg[x].named
         \/ \A c, d \in Convs : c # d => Held(c) \cap Held(d) = {}
  BY DEF Mapped
<1>2. \A m : m \in Entered' <=> m \in Entered
  BY DEF Entered
<1>3. \A m \in Entered : /\ msg'[m].session = msg[m].session /\ msg'[m].conv = msg[m].conv
                         /\ msg'[m].asked = msg[m].asked /\ msg'[m].named = msg[m].named
                         /\ msg[m].session # NoSession /\ msg[m].session <= issued
  BY DEF Entered, Issuance
<1>4. \A c : Astray(c)' <=> Astray(c)
  BY <1>2, <1>3 DEF Astray
<1>5. \A c \in Convs : \/ mapping'[c] = mapping[c]
                       \/ /\ Astray(c)
                          /\ \E m \in Entered : msg[m].conv = c /\ mapping'[c] \in {msg[m].session, Stray}
  OBVIOUS
<1>6. \A c \in Convs : mapping'[c] <= issued \/ mapping'[c] = Stray
  BY <1>1, <1>3, <1>5
<1>7. Stray # NoSession
  BY <1>0 DEF Stray, NoSession
<1>8. ASSUME NEW m \in Entered
      PROVE  /\ msg'[m].conv \in Convs /\ mapping'[msg'[m].conv] # NoSession
             /\ msg'[m].asked \in {msg'[m].session, Stray}
  BY <1>1, <1>3, <1>5, <1>7
<1>11. \A c \in Convs : Astray(c)' \/ \A m \in Entered' : msg'[m].conv = c => msg'[m].session = mapping'[c]
  BY <1>1, <1>2, <1>3, <1>4, <1>5
<1>9. \A c \in Convs : Held(c)' \subseteq Held(c)
  <2> SUFFICES ASSUME NEW c \in Convs, NEW x, x \in Held(c)' PROVE x \in Held(c)
    OBVIOUS
  <2>1. x # NoSession /\ x # Stray
        /\ (x = mapping'[c] \/ \E n \in Entered : msg[n].conv = c /\ msg[n].session = x)
    BY <1>2, <1>3 DEF Held
  <2>2. x = mapping[c] \/ \E n \in Entered : msg[n].conv = c /\ msg[n].session = x
    BY <2>1, <1>5
  <2> QED BY <2>1, <2>2 DEF Held
<1>10. \/ \E x \in Entered' : msg'[x].named
       \/ \A c, d \in Convs : c # d => Held(c)' \cap Held(d)' = {}
  <2>1. CASE \E x \in Entered : msg[x].named
    BY <2>1, <1>2, <1>3
  <2>2. CASE \A c, d \in Convs : c # d => Held(c) \cap Held(d) = {}
    BY <2>2, <1>9
  <2> QED BY <2>1, <2>2, <1>1
<1> QED BY <1>1, <1>2, <1>6, <1>8, <1>10, <1>11

\* A message asks for what its conversation is mapped to, and gets that session
\* because none was deleted, or a new one.
LEMMA ReceiveMaps ==
  ASSUME TurnTypeOK, TurnTypeOK', Issuance, Mapped,
         NEW m \in Messages, NEW c \in Convs, NEW name \in Names, Receive(m, c, name)
  PROVE  Mapped'
<1> SUFFICES ASSUME Registry, pruned = {}
             PROVE  /\ \A s \in 1..issued' : files'[s] # Missing
                    /\ \A d \in Convs : mapping'[d] <= issued' \/ mapping'[d] = Stray
                    /\ \A n \in Entered' :
                         /\ msg'[n].conv \in Convs /\ mapping'[msg'[n].conv] # NoSession
                         /\ msg'[n].asked \in {msg'[n].session, Stray}
                    /\ \A d \in Convs : Astray(d)' \/ \A n \in Entered' : msg'[n].conv = d => msg'[n].session = mapping'[d]
                    /\ \/ \E x \in Entered' : msg'[x].named
                       \/ \A d, e \in Convs : d # e => Held(d)' \cap Held(e)' = {}
  BY DEF Mapped, Receive
<1>0. /\ MaxSessions \in Nat /\ issued \in 0..MaxSessions /\ issued' \in 0..MaxSessions
      /\ msg \in [Messages -> Turn] /\ mapping \in [Convs -> Asked]
      /\ name \in {NoSession, Stray} \cup 1..issued
  BY ConversationAssumption DEF TurnTypeOK, Names
<1>1. PICK s \in Sessions, asked \in Asked :
        /\ issued <= issued' /\ s <= issued'
        /\ files' = [x \in Sessions |-> IF x \in issued + 1 .. issued' THEN {} ELSE files[x]]
        /\ msg' = [msg EXCEPT ![m] = [pc |-> "running", conv |-> c, at |-> now, named |-> name \in Sessions,
                                      asked |-> asked, session |-> s, copy |-> files'[s]]]
        /\ s > issued \/ s = asked
        /\ mapping' = [mapping EXCEPT ![c] = asked]
        /\ asked \in 1..issued /\ files[asked] # Missing => s = asked
        /\ mapping[c] # NoSession => asked = mapping[c]
        /\ mapping[c] = NoSession => asked \in {name, issued + 1} \ {NoSession}
        /\ mapping[c] = NoSession /\ asked \in Sessions /\ asked > issued => s = asked
  BY ReceiveFacts
<1>2. /\ \A s1 \in 1..issued : files[s1] # Missing
      /\ \A d \in Convs : mapping[d] <= issued \/ mapping[d] = Stray
      /\ \A n \in Entered :
           /\ msg[n].conv \in Convs /\ mapping[msg[n].conv] # NoSession
           /\ msg[n].asked \in {msg[n].session, Stray}
      /\ \A d \in Convs : Astray(d) \/ \A n \in Entered : msg[n].conv = d => msg[n].session = mapping[d]
      /\ \/ \E x \in Entered : msg[x].named
         \/ \A d, e \in Convs : d # e => Held(d) \cap Held(e) = {}
  BY DEF Mapped
<1>3. /\ s \in 1..MaxSessions /\ s # NoSession /\ s # Stray /\ asked # NoSession
      /\ asked \in {s, Stray}
      /\ asked <= issued' \/ asked = Stray
      /\ s > issued \/ s = mapping[c] \/ name \in Sessions
  <2>1. asked = NoSession \/ asked = Stray \/ asked \in 1..MaxSessions
    BY <1>1 DEF Asked, Sessions
  <2>2. s \in 1..MaxSessions
    BY <1>1 DEF Sessions
  <2>3. mapping[c] <= issued \/ mapping[c] = Stray
    BY <1>2
  <2>4. asked \in 1..issued => s = asked
    BY <1>1, <1>2
  <2>5. asked # NoSession
    BY <1>1
  <2>6. asked \in {s, Stray}
    <3>1. CASE mapping[c] = NoSession
      BY <3>1, <2>1, <2>4, <2>5, <1>0, <1>1 DEF Sessions
    <3>2. CASE mapping[c] # NoSession
      BY <3>2, <2>1, <2>3, <2>4, <2>5, <1>0, <1>1 DEF NoSession
    <3> QED BY <3>1, <3>2
  <2>7. s > issued \/ s = mapping[c] \/ name \in Sessions
    <3>1. CASE mapping[c] = NoSession /\ s <= issued
      BY <3>1, <2>2, <1>0, <1>1 DEF Sessions
    <3>2. CASE mapping[c] # NoSession
      BY <3>2, <1>1
    <3> QED BY <3>1, <3>2, <2>2, <1>0
  <2> QED BY <2>2, <2>5, <2>6, <2>7, <1>0, <1>1 DEF Stray, NoSession
<1>4. \A s1 \in 1..issued' : files'[s1] # Missing
  <2> SUFFICES ASSUME NEW s1 \in 1..issued' PROVE files'[s1] # Missing
    OBVIOUS
  <2>1. s1 \in Sessions /\ (s1 \in 1..issued \/ s1 \in issued + 1 .. issued')
    BY <1>0 DEF Sessions
  <2>2. {} # Missing
    BY ConversationAssumption
  <2> QED BY <2>1, <2>2, <1>1, <1>2
<1>5. \A d \in Convs : mapping'[d] = IF d = c THEN asked ELSE mapping[d]
  BY <1>0, <1>1
<1>6. \A d \in Convs : mapping'[d] <= issued' \/ mapping'[d] = Stray
  <2>1. \A d \in Convs : mapping[d] = NoSession \/ mapping[d] = Stray \/ mapping[d] \in 1..MaxSessions
    BY <1>0 DEF Asked, Sessions
  <2> QED BY <2>1, <1>0, <1>1, <1>2, <1>3, <1>5 DEF NoSession
<1>7. /\ msg'[m].conv = c /\ msg'[m].session = s /\ msg'[m].asked = asked /\ msg'[m].named = (name \in Sessions)
      /\ \A n \in Messages \ {m} : msg'[n] = msg[n]
  BY <1>0, <1>1
<1>8. /\ m \notin Entered /\ \A n \in Entered : n \in Messages /\ msg'[n] = msg[n]
      /\ \A n \in Messages : n \in Entered' <=> n = m \/ n \in Entered
  <2>1. m \notin Entered
    BY DEF Receive, Issuance, Entered
  <2> QED BY <2>1, <1>3, <1>7 DEF Entered
<1>9. m \in Entered' /\ Entered' = Entered \cup {m}
  BY <1>8 DEF Entered
<1>10. \A d : Astray(d) => Astray(d)'
  BY <1>8, <1>9 DEF Astray
<1>11. ASSUME NEW n \in Entered'
       PROVE  /\ msg'[n].conv \in Convs /\ mapping'[msg'[n].conv] # NoSession
              /\ msg'[n].asked \in {msg'[n].session, Stray}
  <2>1. CASE n = m
    BY <2>1, <1>3, <1>5, <1>7
  <2>2. CASE n \in Entered
    <3>1. msg'[n] = msg[n] /\ msg[n].conv \in Convs /\ mapping[msg[n].conv] # NoSession
      BY <2>2, <1>2, <1>8
    <3>2. mapping'[msg[n].conv] = mapping[msg[n].conv]
      BY <3>1, <1>1, <1>5
    <3> QED BY <2>2, <3>1, <3>2, <1>2
  <2> QED BY <2>1, <2>2, <1>9
<1>12. ASSUME NEW d \in Convs
       PROVE  Astray(d)' \/ \A n \in Entered' : msg'[n].conv = d => msg'[n].session = mapping'[d]
  <2>1. asked = Stray => Astray(c)'
    BY <1>7, <1>9 DEF Astray
  <2>2. ASSUME NEW n \in Entered', msg'[n].conv = d, ~Astray(d)'
        PROVE  msg'[n].session = mapping'[d]
    <3>1. CASE n = m
      BY <3>1, <2>1, <2>2, <1>3, <1>5, <1>7
    <3>2. CASE n \in Entered
      <4>1. msg'[n] = msg[n] /\ mapping[d] # NoSession
        BY <3>2, <2>2, <1>2, <1>8
      <4>2. mapping'[d] = mapping[d]
        BY <4>1, <1>1, <1>5
      <4>3. msg[n].session = mapping[d]
        BY <3>2, <4>1, <2>2, <1>2, <1>10
      <4> QED BY <4>1, <4>2, <4>3
    <3> QED BY <3>1, <3>2, <1>9
  <2> QED BY <2>2
<1>13. \/ \E x \in Entered' : msg'[x].named
       \/ \A d, e \in Convs : d # e => Held(d)' \cap Held(e)' = {}
  <2>1. CASE name \in Sessions
    BY <2>1, <1>7, <1>9
  <2>2. CASE \E x \in Entered : msg[x].named
    BY <2>2, <1>8, <1>9
  <2>3. CASE name \notin Sessions /\ \A d, e \in Convs : d # e => Held(d) \cap Held(e) = {}
    <3>1. \A d \in Convs : \A x \in Held(d) : x \in Int /\ x <= issued
      <4> SUFFICES ASSUME NEW d \in Convs, NEW x \in Held(d) PROVE x \in Int /\ x <= issued
        OBVIOUS
      <4>1. CASE x = mapping[d]
        <5>1. x \in Sessions
          BY <4>1, <1>0 DEF Held, Asked
        <5>2. x <= issued
          BY <4>1, <1>2 DEF Held
        <5> QED BY <5>1, <5>2 DEF Sessions
      <4>2. CASE \E n \in Entered : msg[n].session = x
        BY <4>2, <1>0 DEF Entered, Issuance, Turn
      <4> QED BY <4>1, <4>2 DEF Held
    <3>2. \A d \in Convs \ {c} : Held(d)' \subseteq Held(d)
      <4> SUFFICES ASSUME NEW d \in Convs \ {c}, NEW x, x \in Held(d)' PROVE x \in Held(d)
        OBVIOUS
      <4>1. x \notin {NoSession, Stray} /\ (x = mapping[d] \/ \E n \in Entered' : msg'[n].conv = d /\ msg'[n].session = x)
        BY <1>5 DEF Held
      <4>2. x = mapping[d] \/ \E n \in Entered : msg[n].conv = d /\ msg[n].session = x
        BY <4>1, <1>7, <1>8, <1>9
      <4> QED BY <4>1, <4>2 DEF Held
    <3>3. Held(c)' \subseteq Held(c) \cup {s}
      <4> SUFFICES ASSUME NEW x, x \in Held(c)', x # s PROVE x \in Held(c)
        OBVIOUS
      <4>1. x \notin {NoSession, Stray} /\ (x = asked \/ \E n \in Entered' : msg'[n].conv = c /\ msg'[n].session = x)
        BY <1>5 DEF Held
      <4>2. \E n \in Entered : msg[n].conv = c /\ msg[n].session = x
        BY <4>1, <1>3, <1>7, <1>8, <1>9
      <4> QED BY <4>1, <4>2 DEF Held
    <3>4. s > issued \/ s \in Held(c)
      BY <2>3, <1>3 DEF Held
    <3>5. \A d \in Convs \ {c} : s \notin Held(d)
      <4> SUFFICES ASSUME NEW d \in Convs \ {c}, s \in Held(d) PROVE FALSE
        OBVIOUS
      <4>1. s <= issued /\ s \in Int /\ issued \in Int
        BY <3>1, <1>0
      <4>2. s \in Held(c)
        BY <3>4, <4>1
      <4> QED BY <4>2, <2>3
    <3>6. ASSUME NEW d \in Convs \ {c} PROVE Held(c)' \cap Held(d)' = {}
      BY <3>2, <3>3, <3>5, <2>3
    <3>7. ASSUME NEW d \in Convs, NEW e \in Convs, d # e PROVE Held(d)' \cap Held(e)' = {}
      <4>1. CASE d = c
        <5>1. e \in Convs \ {c} /\ Held(d)' = Held(c)'
          BY <4>1, <3>7
        <5> QED BY <5>1, <3>6
      <4>2. CASE e = c
        <5>1. d \in Convs \ {c} /\ Held(e)' = Held(c)'
          BY <4>2, <3>7
        <5> QED BY <5>1, <3>6
      <4>3. CASE d # c /\ e # c
        BY <4>3, <3>2, <3>7, <2>3
      <4> QED BY <4>1, <4>2, <4>3
    <3> QED BY <3>7
  <2> QED BY <2>1, <2>2, <2>3, <1>2
<1> QED BY <1>4, <1>6, <1>11, <1>12, <1>13

LEMMA MappedInvariant == Spec => []Mapped
<1>0. MaxSessions \in Nat
  BY ConversationAssumption
<1>1. Init => Mapped
  <2> SUFFICES ASSUME Init PROVE Mapped
    OBVIOUS
  <2>1. Entered = {} /\ issued = 0 /\ \A c \in Convs : mapping[c] = NoSession
    BY DEF Init, Entered, NotReceived
  <2>2. \A c \in Convs : Held(c) = {}
    BY <2>1 DEF Held
  <2> QED BY <2>1, <2>2, <1>0 DEF Mapped, NoSession
<1>2. SessionInv /\ TurnTypeOK' /\ Mapped /\ [Next]_vars => Mapped'
  <2> SUFFICES ASSUME TurnTypeOK, Issuance, Mapped, TurnTypeOK', [Next]_vars PROVE Mapped'
    BY DEF SessionInv
  <2>0. /\ msg \in [Messages -> Turn] /\ issued \in 0..MaxSessions
        /\ files \in [Sessions -> (SUBSET Messages) \cup {Missing}]
        /\ mapping \in [Convs -> Asked]
    BY DEF TurnTypeOK
  <2>1. ASSUME NEW m \in Messages, NEW c \in Convs, Deny(m, c) PROVE Mapped'
    <3>1. \A n \in Messages :
            /\ msg'[n].session = msg[n].session
            /\ msg[n].session # NoSession => /\ msg'[n].conv = msg[n].conv /\ msg'[n].asked = msg[n].asked
                                             /\ msg'[n].named = msg[n].named
      <4>1. \A n \in Messages \ {m} : msg'[n] = msg[n]
        BY <2>0, <2>1 DEF Deny
      <4>2. msg'[m].session = NoSession /\ msg[m].session = NoSession
        BY <2>0, <2>1 DEF Deny, Issuance
      <4> QED BY <4>1, <4>2
    <3>2. UNCHANGED <<files, issued, mapping, pruned>>
      BY <2>1 DEF Deny
    <3> QED BY <3>1, <3>2, MappedKept
  <2>2. ASSUME NEW m \in Messages, NEW pc,
               msg' = [msg EXCEPT ![m].pc = pc], UNCHANGED <<issued, mapping, pruned>>,
               pruned' = {} => \A s \in 1..issued : files'[s] = Missing => files[s] = Missing
        PROVE  Mapped'
    <3>1. \A n \in Messages :
            /\ msg'[n].session = msg[n].session
            /\ msg'[n].conv = msg[n].conv /\ msg'[n].asked = msg[n].asked /\ msg'[n].named = msg[n].named
      BY <2>0, <2>2 DEF Turn
    <3> QED BY <2>2, <3>1, MappedKept
  <2>3. ASSUME NEW m \in Messages, Answer(m) PROVE Mapped'
    <3>1. PICK pc \in {"saved", "gaveUp"} : SaveTurn(m, pc)
      BY <2>3 DEF Answer
    <3>2. \A s \in 1..issued : files'[s] = Missing => files[s] = Missing
      <4> SUFFICES ASSUME NEW s \in 1..issued, files'[s] = Missing PROVE files[s] = Missing
        OBVIOUS
      <4>1. s \in Sessions /\ msg[m].copy \cup {m} \in SUBSET Messages
        BY <1>0, <2>0 DEF Sessions, Turn
      <4> QED BY <4>1, <2>0, <3>1, ConversationAssumption DEF SaveTurn
    <3> QED BY <2>2, <2>3, <3>1, <3>2 DEF Answer, SaveTurn
  <2>4. ASSUME NEW m \in Messages, Fail(m) PROVE Mapped'
    BY <2>2, <2>4 DEF Fail
  <2>5. ASSUME NEW m \in Messages, Reply(m) PROVE Mapped'
    <3>1. CASE ~Registry \/ pruned # {}
      BY <2>5, <3>1 DEF Reply, Mapped
    <3>2. CASE Registry /\ pruned = {}
      <4> DEFINE c == msg[m].conv
      <4>1. m \in Entered /\ msg[m].pc \in {"saved", "gaveUp"}
        BY <2>5 DEF Reply, Issuance, Answered, Entered
      <4>2. /\ c \in Convs /\ msg[m].asked \in {msg[m].session, Stray}
            /\ Astray(c) \/ msg[m].session = mapping[c]
        BY <3>2, <4>1 DEF Mapped
      <4>3. ~Astray(c) => msg[m].asked # Stray
        BY <4>1 DEF Astray
      <4>4. \/ mapping' = mapping
            \/ mapping' = [mapping EXCEPT ![c] = msg[m].session] /\ mapping[c] # msg[m].session
            \/ mapping' = [mapping EXCEPT ![c] = msg[m].asked] /\ mapping[c] # msg[m].asked
        BY <2>5 DEF Reply
      <4>5. \A d \in Convs : \/ mapping'[d] = mapping[d]
                             \/ /\ Astray(d)
                                /\ \E n \in Entered : msg[n].conv = d /\ mapping'[d] \in {msg[n].session, Stray}
        <5> SUFFICES ASSUME NEW d \in Convs, mapping'[d] # mapping[d]
                     PROVE  Astray(d) /\ \E n \in Entered : msg[n].conv = d /\ mapping'[d] \in {msg[n].session, Stray}
          OBVIOUS
        <5>1. d = c /\ mapping'[d] \in {msg[m].session, msg[m].asked}
          BY <4>4, <2>0
        <5>2. Astray(c)
          BY <4>2, <4>3, <4>4
        <5> QED BY <5>1, <5>2, <4>1, <4>2
      <4>6. \A n \in Messages :
              /\ msg'[n].session = msg[n].session
              /\ msg'[n].conv = msg[n].conv /\ msg'[n].asked = msg[n].asked /\ msg'[n].named = msg[n].named
        BY <2>0, <2>5 DEF Reply, Turn
      <4>7. UNCHANGED <<files, issued, pruned>>
        BY <2>5 DEF Reply
      <4> QED BY <4>5, <4>6, <4>7, MappedKept
    <3> QED BY <3>1, <3>2
  <2>6. ASSUME NEW s \in Sessions, Delete(s) PROVE Mapped'
    BY <2>6 DEF Delete, Mapped
  <2>7. CASE Restart
    <3>1. \A n \in Messages :
            /\ msg'[n].session = msg[n].session
            /\ msg'[n].conv = msg[n].conv /\ msg'[n].asked = msg[n].asked /\ msg'[n].named = msg[n].named
      BY <2>0, <2>7 DEF Restart, Turn
    <3>2. UNCHANGED <<files, issued, mapping, pruned>>
      BY <2>7 DEF Restart
    <3> QED BY <3>1, <3>2, MappedKept
  <2>8. CASE Tick \/ UNCHANGED vars
    <3>1. UNCHANGED <<msg, files, issued, mapping, pruned>>
      BY <2>8 DEF Tick, vars
    <3> QED BY <3>1, MappedKept
  <2> QED BY <2>1, <2>3, <2>4, <2>5, <2>6, <2>7, <2>8, ReceiveMaps DEF Next, Handle, Arrive
<1>3. SessionInv => TurnTypeOK
  BY DEF SessionInv
<1> QED BY <1>1, <1>2, <1>3, SessionsInvariant, PTL DEF Spec

\* With a registry, as long as no session is deleted: the turns of a
\* conversation run in one session, also across restarts, unless the registry
\* maps it to a name that no session has and one of its turns asked for that;
\* and turns of two conversations do not share a session, as long as no message
\* names one.
THEOREM ConversationsRouted == Spec => []Routed
<1>1. SessionInv /\ Mapped => Routed
  <2> SUFFICES ASSUME SessionInv, Mapped, Registry, pruned = {}, NEW m \in Entered, NEW n \in Entered
               PROVE  /\ msg[m].conv = msg[n].conv /\ ~Astray(msg[m].conv) => msg[m].session = msg[n].session
                      /\ (\A x \in Entered : ~msg[x].named) /\ msg[m].session = msg[n].session
                           => msg[m].conv = msg[n].conv
    BY DEF Routed
  <2>1. /\ msg[m].conv \in Convs /\ (Astray(msg[m].conv) \/ msg[m].session = mapping[msg[m].conv])
        /\ msg[n].conv \in Convs /\ (Astray(msg[n].conv) \/ msg[n].session = mapping[msg[n].conv])
    BY DEF Mapped
  <2>2. ASSUME \A x \in Entered : ~msg[x].named, msg[m].session = msg[n].session, msg[m].conv # msg[n].conv
        PROVE  FALSE
    <3>1. Held(msg[m].conv) \cap Held(msg[n].conv) = {}
      BY <2>1, <2>2 DEF Mapped
    <3>2. msg[m].session \notin {NoSession, Stray}
      BY ConversationAssumption DEF SessionInv, TurnTypeOK, Turn, Stray, Entered
    <3>3. msg[m].session \in Held(msg[m].conv) /\ msg[m].session \in Held(msg[n].conv)
      BY <2>2, <3>2 DEF Held
    <3> QED BY <3>1, <3>3
  <2> QED BY <2>1, <2>2
<1> QED BY <1>1, SessionsInvariant, MappedInvariant, PTL
=============================================================================
