----------------------- MODULE SessionCompactionProofs -----------------------
(***************************************************************************)
(* What the summary of a session covers and what the prompt shows beside   *)
(* it, for any number of turns and events, any limits, clocks that move or *)
(* stand still between any two stamps, and compactions that break off      *)
(* anywhere.  The session belongs to one user (OneUser), next to contexts  *)
(* that name none: with two users a summary of one replaces the other's.   *)
(***************************************************************************)
EXTENDS SessionCompaction, FiniteSetTheorems, WellFoundedInduction, TLAPS

\* All contexts of the session with a user have the same one.
OneUser == \A u, v \in Users : u = v

\* The stamps of an event are not older than those of the events before it.
Stamped ==
  /\ \A i \in DOMAIN events : events[i].created <= now /\ events[i].updated <= now
  /\ \A i, j \in DOMAIN events :
       i < j => events[i].created <= events[j].created /\ events[i].updated <= events[j].updated

\* As many events as are to be kept are outside the summary, or all of them.
SummaryLeaves == summary.covers = {} \/ Cardinality(summary.covers) + KeepRecent <= Len(events)

\* What is covered would be covered again now, and what is not is within the
\* limits.
CoversInv ==
  /\ ~summary.written => summary.covers = {}
  /\ summary.covers \subseteq Older(DOMAIN events)
  /\ BacklogBounded

-----------------------------------------------------------------------------

Below == {pair \in Nat \X Nat : pair[1] < pair[2]}

\* A set of natural numbers has a least element.
LEMMA LeastNatural ==
  ASSUME NEW S \in SUBSET Nat, S # {}
  PROVE  \E n \in S : \A m \in S : n <= m
<1>1. IsWellFoundedOn(Below, Nat)
  BY NatLessThanWellFounded DEF OpToRel, Below
<1>2. PICK n \in S : \A m \in S : ~(<<m, n>> \in Below)
  BY <1>1, WFMin
<1>3. ASSUME NEW m \in S PROVE n <= m
  <2>1. ~(m < n)
    BY <1>2 DEF Below
  <2>2. m \in Nat /\ n \in Nat
    OBVIOUS
  <2>3. QED
    BY <2>1, <2>2
<1>4. QED
  BY <1>3

\* A set with at most one element more than a finite one.
LEMMA OneMoreElement ==
  ASSUME NEW S, NEW T, NEW x, IsFiniteSet(T), S \subseteq T \cup {x}
  PROVE  /\ Cardinality(T) \in Nat /\ Cardinality(S) \in Nat
         /\ Cardinality(S) <= Cardinality(T) + 1
<1>1. IsFiniteSet(T \cup {x}) /\ Cardinality(T \cup {x}) <= Cardinality(T) + 1
  <2>1. Cardinality(T \cup {x}) \in {Cardinality(T), Cardinality(T) + 1} /\ Cardinality(T) \in Nat
    BY FS_AddElement, FS_CardinalityType
  <2>2. IsFiniteSet(T \cup {x})
    BY FS_AddElement
  <2>3. QED
    BY <2>1, <2>2
<1>2. IsFiniteSet(S) /\ Cardinality(S) <= Cardinality(T \cup {x})
  BY <1>1, FS_Subset, Zenon
<1>3. /\ Cardinality(T) \in Nat /\ Cardinality(S) \in Nat /\ Cardinality(T \cup {x}) \in Nat
  BY <1>1, <1>2, FS_CardinalityType
<1>4. QED
  BY <1>1, <1>2, <1>3

\* What a subset leaves of a finite set.
LEMMA Outside ==
  ASSUME NEW S, NEW T, IsFiniteSet(S), T \subseteq S
  PROVE  Cardinality(S \ T) = Cardinality(S) - Cardinality(T)
<1>1. Cardinality(S \ T) = Cardinality(S) - Cardinality(S \cap T)
  BY FS_Difference, Zenon
<1>2. S \cap T = T
  OBVIOUS
<1>3. QED
  BY <1>1, <1>2, Zenon

\* The records of the transcript.
LEMMA EventsTyped ==
  ASSUME CompactionTypeOK
  PROVE  /\ Len(events) \in 0..MaxEvents /\ DOMAIN events = 1 .. Len(events)
         /\ \A i \in DOMAIN events :
              i \in Nat /\ events[i] \in Event /\ events[i].user \in Owners
              /\ events[i].created \in Nat /\ events[i].updated \in Nat
<1>1. Len(events) \in 0..MaxEvents /\ DOMAIN events = 1 .. Len(events)
  BY CompactionAssumption DEF CompactionTypeOK
<1>2. \A i \in DOMAIN events : events[i] \in Event
  BY <1>1 DEF CompactionTypeOK
<1>3. \A e \in Event : e.user \in Owners /\ e.created \in Nat /\ e.updated \in Nat
  BY CompactionAssumption DEF Event
<1>4. QED
  BY <1>1, <1>2, <1>3

\* How many they are.
LEMMA EventsCounted ==
  ASSUME CompactionTypeOK
  PROVE  IsFiniteSet(DOMAIN events) /\ Cardinality(DOMAIN events) = Len(events) /\ Len(events) \in Nat
<1>1. Len(events) \in 0..MaxEvents /\ DOMAIN events = 1 .. Len(events)
  BY EventsTyped, Zenon
<1> DEFINE n == Len(events)
<1>2. n \in Nat
  BY <1>1
<1> HIDE DEF n
<1>3. IsFiniteSet(1..n) /\ Cardinality(1..n) = IF 1 > n THEN 0 ELSE n - 1 + 1
  BY <1>2, FS_Interval
<1>4. Cardinality(1..n) = n
  BY <1>2, <1>3
<1>5. QED
  BY <1>2, <1>1, <1>3, <1>4 DEF n

\* Sorting by creation is sorting: Before is a strict total order of the
\* events.
LEMMA BeforeOrders ==
  ASSUME CompactionTypeOK
  PROVE  /\ \A i \in DOMAIN events : ~Before(i, i)
         /\ \A i, j, k \in DOMAIN events : Before(i, j) /\ Before(j, k) => Before(i, k)
         /\ \A i, j \in DOMAIN events : i = j \/ Before(i, j) \/ Before(j, i)
<1>1. \A i \in DOMAIN events : i \in Nat /\ events[i].created \in Nat /\ events[i].updated \in Nat
  BY EventsTyped
<1>2. \A i \in DOMAIN events : ~Before(i, i)
  BY <1>1 DEF Before, Listed
<1>3. \A i, j, k \in DOMAIN events : Before(i, j) /\ Before(j, k) => Before(i, k)
  BY <1>1, SMTT(30) DEF Before, Listed
<1>4. \A i, j \in DOMAIN events : i = j \/ Before(i, j) \/ Before(j, i)
  BY <1>1 DEF Before, Listed
<1>5. QED
  BY <1>2, <1>3, <1>4

\* The number of events of V that come before i.
Rank(i, V) == Cardinality({j \in V : Before(j, i)})

\* Among finitely many events, ranks are numbers below their number, and grow
\* with the order.
LEMMA Ranks ==
  ASSUME CompactionTypeOK, NEW V \in SUBSET DOMAIN events
  PROVE  /\ IsFiniteSet(V) /\ Cardinality(V) \in Nat
         /\ \A i \in V : Rank(i, V) \in Nat /\ Rank(i, V) < Cardinality(V)
         /\ \A i, j \in V : Before(i, j) => Rank(i, V) < Rank(j, V)
<1>1. IsFiniteSet(V) /\ Cardinality(V) \in Nat
  <2>1. Len(events) \in Nat /\ DOMAIN events = 1 .. Len(events)
    BY EventsTyped, CompactionAssumption
  <2>2. IsFiniteSet(DOMAIN events)
    BY <2>1, FS_Interval
  <2>3. QED
    BY <2>2, FS_Subset, FS_CardinalityType
<1>2. \A i \in V : IsFiniteSet({j \in V : Before(j, i)}) /\ Rank(i, V) \in Nat
  BY <1>1, FS_Subset, FS_CardinalityType DEF Rank
<1>3. ASSUME NEW i \in V PROVE Rank(i, V) < Cardinality(V)
  <2>1. {j \in V : Before(j, i)} \subseteq V /\ {j \in V : Before(j, i)} # V
    BY BeforeOrders
  <2>2. QED
    BY <1>1, <1>2, <2>1, FS_Subset DEF Rank
<1>4. ASSUME NEW i \in V, NEW j \in V, Before(i, j) PROVE Rank(i, V) < Rank(j, V)
  <2> DEFINE R(k) == {m \in V : Before(m, k)}
  <2>1. R(i) \subseteq R(j) /\ i \in R(j) /\ i \notin R(i)
    BY <1>4, BeforeOrders
  <2>2. IsFiniteSet(R(j)) /\ Rank(i, V) = Cardinality(R(i)) /\ Rank(j, V) = Cardinality(R(j))
    BY <1>2 DEF Rank
  <2>3. QED
    BY <1>2, <2>1, <2>2, FS_Subset
<1>5. QED
  BY <1>1, <1>2, <1>3, <1>4

\* slice(0, length - keepRecent) takes no event too many: as many as are to be
\* kept stay out, or all of them.
LEMMA OlderLeavesRecent ==
  ASSUME CompactionTypeOK, NEW V \in SUBSET DOMAIN events
  PROVE  Older(V) = {} \/ Cardinality(Older(V)) + KeepRecent <= Cardinality(V)
<1> SUFFICES ASSUME Older(V) # {}
             PROVE  Cardinality(Older(V)) + KeepRecent <= Cardinality(V)
  OBVIOUS
<1> DEFINE n == Cardinality(V)
           FromTop == {n - Rank(i, V) : i \in Older(V)}
<1>1. Older(V) = {i \in V : Rank(i, V) + KeepRecent < n}
  BY DEF Older, Rank
<1>2. PICK m \in Older(V) : \A i \in Older(V) : Rank(i, V) <= Rank(m, V)
  <2>1. FromTop \in SUBSET Nat /\ FromTop # {}
    BY <1>1, Ranks
  <2>2. PICK least \in FromTop : \A k \in FromTop : least <= k
    BY <2>1, LeastNatural
  <2>3. PICK m \in Older(V) : least = n - Rank(m, V)
    OBVIOUS
  <2>4. \A i \in Older(V) : n - Rank(m, V) <= n - Rank(i, V)
    BY <2>2, <2>3
  <2>5. QED
    BY <1>1, <2>4, Ranks
<1>3. Older(V) \subseteq {j \in V : Before(j, m)} \cup {m}
  <2> SUFFICES ASSUME NEW i \in Older(V), i # m, ~Before(i, m) PROVE FALSE
    BY <1>1
  <2>1. i \in V /\ m \in V /\ Before(m, i)
    BY <1>1, BeforeOrders
  <2>2. Rank(m, V) < Rank(i, V) /\ Rank(i, V) <= Rank(m, V)
    BY <2>1, <1>2, Ranks
  <2>3. QED
    BY <2>1, <2>2, Ranks
<1>4. IsFiniteSet({j \in V : Before(j, m)})
  BY Ranks, FS_Subset
<1>5. Cardinality(Older(V)) \in Nat /\ Cardinality(Older(V)) <= Rank(m, V) + 1
  BY <1>3, <1>4, OneMoreElement DEF Rank
<1>6. QED
  BY <1>1, <1>5, Ranks, CompactionAssumption

\* The events of an earlier state stay older: what comes in between, if the
\* clock moved, does so at the cost of nobody.
LEMMA OlderStaysOlder ==
  ASSUME CompactionTypeOK, CompactionTypeOK', NEW kind, NEW user, Recorded(kind, user)
  PROVE  /\ Older(DOMAIN events) \subseteq Older(DOMAIN events)'
         /\ \A V \in SUBSET DOMAIN events : Older(V)' = Older(V)
<1>1. /\ DOMAIN events = 1 .. Len(events) /\ DOMAIN events' = DOMAIN events \cup {Len(events) + 1}
      /\ Len(events) + 1 \notin DOMAIN events
      /\ \A i \in DOMAIN events : events'[i] = events[i]
  BY DEF CompactionTypeOK, Recorded
<1>2. \A i, j \in DOMAIN events : Before(i, j)' <=> Before(i, j)
  BY <1>1 DEF Before, Listed
<1>3. ASSUME NEW V \in SUBSET DOMAIN events PROVE Older(V)' = Older(V)
  <2>1. \A i \in V : {j \in V : Before(j, i)}' = {j \in V : Before(j, i)}
    BY <1>2
  <2>2. QED
    BY <2>1 DEF Older
<1>4. ASSUME NEW i \in Older(DOMAIN events) PROVE i \in Older(DOMAIN events)'
  <2> DEFINE D == DOMAIN events
             B == {j \in D : Before(j, i)}
             C == {j \in D' : Before(j, i)'}
  <2>1. i \in D /\ Cardinality(B) + KeepRecent < Cardinality(D)
    BY DEF Older
  <2>2. C \subseteq B \cup {Len(events) + 1}
    BY <1>1, <1>2, <2>1
  <2>3. IsFiniteSet(D) /\ IsFiniteSet(B) /\ Cardinality(D) \in Nat /\ Cardinality(B) \in Nat
    BY Ranks, FS_Subset, FS_CardinalityType
  <2>4. Cardinality(D') = Cardinality(D) + 1
    BY <1>1, <2>3, FS_AddElement
  <2>5. Cardinality(C) \in Nat /\ Cardinality(C) <= Cardinality(B) + 1
    BY <2>2, <2>3, OneMoreElement
  <2>6. i \in D' /\ Cardinality(C) + KeepRecent < Cardinality(D')
    BY <1>1, <2>1, <2>3, <2>4, <2>5, CompactionAssumption
  <2>7. QED
    BY <2>6 DEF Older
<1>5. QED
  BY <1>3, <1>4

-----------------------------------------------------------------------------

\* Recording an event keeps the types.
LEMMA RecordedType ==
  ASSUME CompactionTypeOK, NEW kind \in Kinds, NEW user \in Owners, Recorded(kind, user)
  PROVE  /\ now' \in 0..MaxTime /\ now <= now'
         /\ events' \in Seq(Event) /\ Len(events') = Len(events) + 1 /\ Len(events') <= MaxEvents
         /\ \A i \in DOMAIN events : events'[i] = events[i]
         /\ events'[Len(events) + 1] = [kind |-> kind, user |-> user, created |-> now, updated |-> now']
         /\ DOMAIN events = 1 .. Len(events) /\ DOMAIN events' = 1 .. Len(events) + 1
         /\ UNCHANGED <<summary, proposed, checked>>
<1> USE CompactionAssumption DEF CompactionTypeOK, Recorded
<1>1. now' \in 0..MaxTime /\ now <= now'
  OBVIOUS
<1>2. [kind |-> kind, user |-> user, created |-> now, updated |-> now'] \in Event
  BY <1>1 DEF Event
<1>3. QED
  BY <1>1, <1>2

\* What a turn may do to the session.
LEMMA CompactionSteps ==
  ASSUME CompactionTypeOK, [Next]_vars
  PROVE  \/ UNCHANGED <<events, summary, proposed, checked>> /\ now' \in {now, now + 1} \cap 0..MaxTime
         \/ \E kind \in Kinds, user \in Owners : Recorded(kind, user)
         \/ \E t \in Turns, fault \in Faults : Finish(t, fault)
<1> USE CompactionAssumption DEF CompactionTypeOK
<1>1. CASE UNCHANGED vars
  BY <1>1 DEF vars
<1>2. CASE Tick
  BY <1>2 DEF Tick
<1>3. ASSUME NEW t \in Turns, NEW user \in Owners, Ask(t, user)
      PROVE  \E kind \in Kinds, u \in Owners : Recorded(kind, u)
  BY <1>3 DEF Ask, Kinds
<1>4. ASSUME NEW t \in Turns, NEW kind \in {"other", "long"}, Work(t, kind)
      PROVE  \E k \in Kinds, u \in Owners : Recorded(k, u)
  <2>1. turn[t].user \in Owners /\ kind \in Kinds
    BY DEF Kinds
  <2>2. QED
    BY <1>4, <2>1 DEF Work
<1>5. ASSUME NEW t \in Turns, Fail(t) PROVE UNCHANGED <<now, events, summary, proposed, checked>>
  BY <1>5 DEF Fail
<1>6. QED
  BY <1>1, <1>2, <1>3, <1>4, <1>5 DEF Next, Step

\* A step keeps where the turns are and for whom.
LEMMA TurnStep ==
  ASSUME CompactionTypeOK, [Next]_vars
  PROVE  turn' \in [Turns -> [pc : {"new", "asked", "answered", "saved", "failed"}, user : Owners]]
<1> USE DEF CompactionTypeOK
<1>1. CASE UNCHANGED vars \/ Tick
  BY <1>1 DEF vars, Tick
<1>2. ASSUME NEW t \in Turns, Step(t)
      PROVE  turn' \in [Turns -> [pc : {"new", "asked", "answered", "saved", "failed"}, user : Owners]]
  BY <1>2 DEF Step, Ask, Work, Finish, Fail
<1>3. QED
  BY <1>1, <1>2 DEF Next

\* A compaction, or a check that finds nothing to do, keeps the types.
LEMMA FinishType ==
  ASSUME CompactionTypeOK, NEW t \in Turns, NEW fault \in Faults, Finish(t, fault)
  PROVE  /\ UNCHANGED <<now, events>>
         /\ summary' \in Summary /\ summary'.covers \subseteq DOMAIN events
         /\ proposed' \subseteq DOMAIN events
         /\ checked' \in 0..Len(events)
<1> DEFINE user  == turn[t].user
           older == Older(View(user))
<1>1. View(user) \subseteq DOMAIN events /\ older \subseteq DOMAIN events /\ user \in Owners
  BY DEF View, Older, CompactionTypeOK
<1>2. DOMAIN events = 1 .. Len(events) /\ Len(events) \in 0..MaxEvents /\ DOMAIN events \subseteq Places
  BY CompactionAssumption DEF CompactionTypeOK, Places
<1>3. Author(user, older) \in Owners
  <2>1. CASE user # NoUser \/ \A i \in older : events[i].user = NoUser
    BY <1>1, <2>1 DEF Author
  <2>2. CASE ~(user # NoUser \/ \A i \in older : events[i].user = NoUser)
    <3> DEFINE First(i) == events[i].user # NoUser /\ \A j \in older : events[j].user # NoUser => ~Before(j, i)
    <3>1. \E i \in older : First(i)
      <4> DEFINE Named == {i \in older : events[i].user # NoUser}
                 RankOf == {Rank(i, DOMAIN events) : i \in Named}
      <4>1. RankOf \in SUBSET Nat /\ RankOf # {}
        BY <2>2, <1>1, Ranks
      <4>2. PICK least \in RankOf : \A k \in RankOf : least <= k
        BY <4>1, LeastNatural
      <4>3. PICK i \in Named : least = Rank(i, DOMAIN events)
        OBVIOUS
      <4>4. ASSUME NEW j \in Named, Before(j, i) PROVE FALSE
        <5>1. Rank(j, DOMAIN events) < Rank(i, DOMAIN events)
          BY <4>4, <1>1, Ranks
        <5>2. Rank(i, DOMAIN events) <= Rank(j, DOMAIN events)
          BY <4>2, <4>3
        <5>3. QED
          BY <5>1, <5>2, <1>1, Ranks
      <4>5. QED
        BY <4>4
    <3>2. Author(user, older) = events[CHOOSE i \in older : First(i)].user
      BY <2>2 DEF Author
    <3>3. \A i \in DOMAIN events : events[i].user \in Owners
      BY EventsTyped
    <3>4. (CHOOSE i \in older : First(i)) \in older
      BY <3>1, Zenon
    <3> HIDE DEF First
    <3>5. QED
      BY <3>2, <3>3, <3>4, <1>1
  <2>3. QED
    BY <2>1, <2>2
<1>4. Quotes(older) \subseteq DOMAIN events
  BY <1>1 DEF Quotes
<1>5. Compacted(user, older) \in Summary /\ Compacted(user, older).covers = older
  BY <1>1, <1>2, <1>3 DEF Compacted, Summary
<1>6. CASE Compact(user, fault) /\ UNCHANGED <<now, events>>
  BY <1>1, <1>2, <1>4, <1>5, <1>6 DEF Compact, CompactionTypeOK
<1>7. CASE checked' = Len(events) /\ UNCHANGED <<now, events, summary, proposed>>
  BY <1>2, <1>7 DEF CompactionTypeOK
<1>8. QED
  BY <1>6, <1>7 DEF Finish

\* The variables of the compaction keep their types: a summary covers events
\* of the transcript, and its author is the user of a context.
THEOREM CompactionTypeCorrect == Spec => []CompactionTypeOK
<1>1. Init => CompactionTypeOK
  BY CompactionAssumption DEF Init, CompactionTypeOK, NoSummary, Summary, Owners
<1>2. CompactionTypeOK /\ [Next]_vars => CompactionTypeOK'
  <2> SUFFICES ASSUME CompactionTypeOK, [Next]_vars PROVE CompactionTypeOK'
    OBVIOUS
  <2>1. CASE UNCHANGED <<events, summary, proposed, checked>> /\ now' \in {now, now + 1} \cap 0..MaxTime
    BY <2>1, TurnStep DEF CompactionTypeOK
  <2>2. ASSUME NEW kind \in Kinds, NEW user \in Owners, Recorded(kind, user) PROVE CompactionTypeOK'
    <3>1. checked' = checked /\ Len(events') = Len(events) + 1
          /\ DOMAIN events = 1 .. Len(events) /\ DOMAIN events' = 1 .. Len(events) + 1
      BY <2>2, RecordedType
    <3>2. checked' \in 0 .. Len(events') /\ DOMAIN events \subseteq DOMAIN events'
      BY <3>1, EventsTyped DEF CompactionTypeOK
    <3>3. QED
      BY <2>2, <3>2, RecordedType, TurnStep DEF CompactionTypeOK
  <2>3. ASSUME NEW t \in Turns, NEW fault \in Faults, Finish(t, fault) PROVE CompactionTypeOK'
    BY <2>3, FinishType, TurnStep DEF CompactionTypeOK
  <2>4. QED
    BY <2>1, <2>2, <2>3, CompactionSteps
<1>3. QED
  BY <1>1, <1>2, PTL DEF Spec

\* The clock does not go back, and a record is stamped when it is made.
LEMMA StampsGrow == Spec => []Stamped
<1>1. Init => Stamped
  BY DEF Init, Stamped
<1>2. CompactionTypeOK /\ Stamped /\ [Next]_vars => Stamped'
  <2> SUFFICES ASSUME CompactionTypeOK, Stamped, [Next]_vars PROVE Stamped'
    OBVIOUS
  <2> USE EventsTyped
  <2>1. CASE UNCHANGED <<events, summary, proposed, checked>> /\ now' \in {now, now + 1} \cap 0..MaxTime
    BY <2>1, CompactionAssumption DEF Stamped, CompactionTypeOK
  <2>2. ASSUME NEW kind \in Kinds, NEW user \in Owners, Recorded(kind, user) PROVE Stamped'
    <3>1. /\ now \in Nat /\ now' \in Nat /\ now <= now'
          /\ DOMAIN events' = DOMAIN events \cup {Len(events) + 1}
          /\ \A i \in DOMAIN events : events'[i] = events[i] /\ i < Len(events) + 1
          /\ events'[Len(events) + 1].created = now /\ events'[Len(events) + 1].updated = now'
      <4>1. /\ now <= now' /\ now' \in 0..MaxTime
            /\ DOMAIN events = 1 .. Len(events) /\ DOMAIN events' = 1 .. Len(events) + 1
            /\ \A i \in DOMAIN events : events'[i] = events[i]
            /\ events'[Len(events) + 1] = [kind |-> kind, user |-> user, created |-> now, updated |-> now']
        BY <2>2, RecordedType
      <4>2. QED
        BY <4>1, CompactionAssumption DEF CompactionTypeOK
    <3>2. QED
      BY <3>1 DEF Stamped
  <2>3. ASSUME NEW t \in Turns, NEW fault \in Faults, Finish(t, fault) PROVE Stamped'
    BY <2>3, FinishType DEF Stamped
  <2>4. QED
    BY <2>1, <2>2, <2>3, CompactionSteps
<1>3. QED
  BY <1>1, <1>2, CompactionTypeCorrect, PTL DEF Spec

-----------------------------------------------------------------------------

\* A summary that is made leaves the recent events out.
LEMMA CompactedLeaves ==
  ASSUME CompactionTypeOK, NEW t \in Turns, NEW fault \in Faults, Finish(t, fault), summary' # summary
  PROVE  /\ ShouldCompact(turn[t].user)
         /\ summary'.written /\ summary'.covers = Older(View(turn[t].user))
BY DEF Finish, Compact, Compacted

\* The recent events are never all summarised away, whoever the users of the
\* session are.
THEOREM RecentEventsKept == Spec => []RecentKept
<1>1. Init => SummaryLeaves
  BY DEF Init, NoSummary, SummaryLeaves
<1>2. CompactionTypeOK /\ SummaryLeaves /\ [Next]_vars => SummaryLeaves'
  <2> SUFFICES ASSUME CompactionTypeOK, SummaryLeaves, [Next]_vars PROVE SummaryLeaves'
    OBVIOUS
  <2>1. CASE UNCHANGED <<events, summary, proposed, checked>>
    BY <2>1 DEF SummaryLeaves
  <2>2. ASSUME NEW kind \in Kinds, NEW user \in Owners, Recorded(kind, user) PROVE SummaryLeaves'
    <3>1. summary' = summary /\ Len(events') = Len(events) + 1
      BY <2>2, RecordedType
    <3>2. Cardinality(summary.covers) \in Nat
      BY Ranks DEF CompactionTypeOK
    <3>3. QED
      BY <3>1, <3>2, EventsTyped, CompactionAssumption DEF SummaryLeaves
  <2>3. ASSUME NEW t \in Turns, NEW fault \in Faults, Finish(t, fault) PROVE SummaryLeaves'
    <3>1. CASE summary' = summary
      BY <2>3, <3>1, FinishType DEF SummaryLeaves
    <3>2. CASE summary' # summary
      <4> DEFINE V == View(turn[t].user)
      <4>1. summary'.covers = Older(V) /\ events' = events /\ V \in SUBSET DOMAIN events
        BY <2>3, <3>2, CompactedLeaves, FinishType DEF View
      <4>2. Older(V) = {} \/ Cardinality(Older(V)) + KeepRecent <= Cardinality(V)
        BY <4>1, OlderLeavesRecent
      <4>3. Cardinality(V) <= Len(events) /\ Cardinality(V) \in Nat
        <5>1. IsFiniteSet(DOMAIN events) /\ Cardinality(DOMAIN events) = Len(events)
          BY EventsCounted
        <5>2. QED
          BY <4>1, <5>1, FS_Subset, FS_CardinalityType
      <4>4. Older(V) \subseteq V /\ Cardinality(Older(V)) \in Nat
        BY <4>1, Ranks DEF Older
      <4> HIDE DEF V
      <4>5. QED
        BY <4>1, <4>2, <4>3, <4>4, EventsTyped, CompactionAssumption DEF SummaryLeaves
    <3>3. QED
      BY <3>1, <3>2
  <2>4. QED
    BY <2>1, <2>2, <2>3, CompactionSteps
<1>3. CompactionTypeOK /\ SummaryLeaves => RecentKept
  <2> SUFFICES ASSUME CompactionTypeOK, SummaryLeaves PROVE RecentKept
    OBVIOUS
  <2> DEFINE D == DOMAIN events
             C == summary.covers
  <2>1. IsFiniteSet(D) /\ Cardinality(D) = Len(events) /\ Len(events) \in Nat
    BY EventsCounted
  <2>2. C \subseteq D /\ Cardinality(C) \in Nat /\ (C = {} => Cardinality(C) = 0)
    BY Ranks, FS_EmptySet DEF CompactionTypeOK
  <2>3. Cardinality(D \ C) = Cardinality(D) - Cardinality(C)
    BY <2>1, <2>2, Outside
  <2>4. C = {} \/ Cardinality(C) + KeepRecent <= Len(events)
    BY DEF SummaryLeaves
  <2> HIDE DEF D, C
  <2>5. Cardinality(D \ C) >= IF KeepRecent < Len(events) THEN KeepRecent ELSE Len(events)
    BY <2>1, <2>2, <2>3, <2>4, CompactionAssumption
  <2>6. QED
    BY <2>5 DEF RecentKept, D, C
<1>4. QED
  BY <1>1, <1>2, <1>3, CompactionTypeCorrect, PTL DEF Spec

-----------------------------------------------------------------------------

\* Contexts of one user, or of none, see the whole session.
LEMMA OneView ==
  ASSUME OneUser, CompactionTypeOK, NEW user \in Owners
  PROVE  /\ View(user) = DOMAIN events
         /\ summary.written => Latest(user) = summary
         /\ ~summary.written => ~Latest(user).written
<1>1. \A owner \in Owners : Visible(owner, user)
  BY CompactionAssumption DEF OneUser, Visible, Owners
<1>2. View(user) = DOMAIN events
  BY <1>1, EventsTyped DEF View
<1>3. summary.user \in Owners
  BY DEF CompactionTypeOK, Summary
<1>4. QED
  BY <1>1, <1>2, <1>3 DEF Latest, NoSummary

\* The end of a turn, with every event in view: a summary that is made covers
\* more than the one before, and all that is to be covered; a turn that makes
\* none has found what is left to be little enough, or has failed to.
LEMMA FinishCovers ==
  ASSUME OneUser, CompactionTypeOK, CoversInv,
         NEW t \in Turns, NEW fault \in Faults, Finish(t, fault)
  PROVE  /\ summary' # summary =>
              /\ summary'.written /\ summary'.covers = Older(DOMAIN events)
              /\ summary.covers \subseteq summary'.covers /\ summary.covers # summary'.covers
         /\ \/ checked' = checked
            \/ /\ checked' = Len(events)
               /\ \/ summary'.covers = Older(DOMAIN events)
                  \/ /\ summary' = summary
                     /\ LET rest == Older(DOMAIN events) \ summary.covers
                        IN  Cardinality(rest) <= EventLimit /\ Cardinality(Long(rest)) <= LongLimit
<1> DEFINE user  == turn[t].user
           older == Older(DOMAIN events)
<1>1. user \in Owners
  BY DEF CompactionTypeOK
<1>2. /\ View(user) = DOMAIN events /\ Older(View(user)) = older
      /\ summary.written => Latest(user) = summary
      /\ ~summary.written => ~Latest(user).written
  BY <1>1, OneView
<1>3. older \subseteq DOMAIN events
  BY DEF Older
<1>4. \A S \in SUBSET DOMAIN events :
        /\ Cardinality(S) \in Nat /\ Cardinality(Long(S)) \in Nat
        /\ ~Exceeds(S) => Cardinality(S) <= EventLimit /\ Cardinality(Long(S)) <= LongLimit
  <2>1. \A S \in SUBSET DOMAIN events : Long(S) \in SUBSET DOMAIN events
    BY DEF Long
  <2>2. \A S \in SUBSET DOMAIN events : Cardinality(S) \in Nat
    BY Ranks
  <2>3. QED
    BY <2>1, <2>2, CompactionAssumption DEF Exceeds
<1>5. \A S, T \in SUBSET DOMAIN events : S \subseteq T /\ ~Exceeds(T) => ~Exceeds(S)
  <2> SUFFICES ASSUME NEW S \in SUBSET DOMAIN events, NEW T \in SUBSET DOMAIN events,
                      S \subseteq T, ~Exceeds(T)
               PROVE  ~Exceeds(S)
    OBVIOUS
  <2>1. Long(S) \subseteq Long(T) /\ Long(T) \in SUBSET DOMAIN events
    BY DEF Long
  <2>2. IsFiniteSet(T) /\ IsFiniteSet(Long(T))
    BY <2>1, Ranks
  <2>3. Cardinality(S) <= Cardinality(T) /\ Cardinality(Long(S)) <= Cardinality(Long(T))
    BY <2>1, <2>2, FS_Subset
  <2>4. /\ Cardinality(S) \in Nat /\ Cardinality(T) \in Nat
        /\ Cardinality(Long(S)) \in Nat /\ Cardinality(Long(T)) \in Nat
    BY <1>4
  <2>5. QED
    BY <2>3, <2>4, CompactionAssumption DEF Exceeds
<1>6. ASSUME summary' # summary
      PROVE  /\ summary'.written /\ summary'.covers = older
             /\ summary.covers \subseteq summary'.covers /\ summary.covers # summary'.covers
  <2>1. ShouldCompact(user) /\ summary'.written /\ summary'.covers = older
    BY <1>2, <1>6, CompactedLeaves
  <2>2. CASE summary.written
    <3>1. Exceeds(older \ summary.covers)
      BY <1>2, <2>1, <2>2 DEF ShouldCompact
    <3>2. ~Exceeds({})
      <4>1. \A S : S = {} => Long(S) = S /\ Cardinality(S) = 0
        BY FS_EmptySet DEF Long
      <4>2. \A S : Cardinality(S) = 0 /\ Long(S) = S => ~Exceeds(S)
        BY CompactionAssumption DEF Exceeds
      <4>3. QED
        BY <4>1, <4>2
    <3>3. older \ summary.covers # {}
      BY <3>1, <3>2
    <3>4. QED
      BY <2>1, <3>3 DEF CoversInv
  <2>3. CASE ~summary.written
    <3>1. older # {}
      BY <1>2, <2>1 DEF ShouldCompact
    <3>2. QED
      BY <2>1, <2>3, <3>1 DEF CoversInv
  <2>4. QED
    BY <2>2, <2>3
<1>7. CASE ShouldCompact(user)
  <2>1. Compact(user, fault)
    BY <1>7 DEF Finish
  <2>2. fault = "none" => checked' = Len(events) /\ summary' = Compacted(user, Older(View(user)))
    BY <2>1 DEF Compact
  <2>3. fault # "none" => checked' = checked
    BY <2>1 DEF Compact
  <2>4. Compacted(user, Older(View(user))).covers = older
    BY <1>2 DEF Compacted
  <2> HIDE DEF user, older
  <2>5. checked' = checked \/ (checked' = Len(events) /\ summary'.covers = older)
    BY <2>2, <2>3, <2>4
  <2>6. QED
    BY <1>6, <2>5 DEF older
<1>8. CASE ~ShouldCompact(user)
  <2>1. checked' = Len(events) /\ summary' = summary
    BY <1>8 DEF Finish
  <2>2. older = {} \/ ~Exceeds(IF Latest(user).written THEN older \ Latest(user).covers ELSE DOMAIN events)
    BY <1>2, <1>8 DEF ShouldCompact
  <2> DEFINE rest == older \ summary.covers
  <2>3. rest = {} \/ ~Exceeds(rest)
    <3>1. CASE summary.written
      BY <1>2, <2>2, <3>1
    <3>2. CASE ~summary.written
      BY <1>2, <1>3, <1>5, <2>2, <3>2
    <3>3. QED
      BY <3>1, <3>2
  <2>4. rest = {} => summary.covers = older
    BY DEF CoversInv
  <2>5. rest \in SUBSET DOMAIN events
    BY <1>3
  <2>6. QED
    BY <1>4, <2>1, <2>3, <2>4, <2>5
<1>9. QED
  BY <1>6, <1>7, <1>8

\* A smaller backlog is bounded, too.
LEMMA SmallerBacklog ==
  ASSUME CompactionTypeOK, NEW T \in SUBSET DOMAIN events, NEW S \in SUBSET T,
         Cardinality(T) <= EventLimit, Cardinality(Long(T)) <= LongLimit
  PROVE  Cardinality(S) <= EventLimit /\ Cardinality(Long(S)) <= LongLimit
<1>1. Long(S) \subseteq Long(T) /\ Long(T) \in SUBSET DOMAIN events
  BY DEF Long
<1>2. /\ Cardinality(S) \in Nat /\ Cardinality(T) \in Nat
      /\ Cardinality(Long(S)) \in Nat /\ Cardinality(Long(T)) \in Nat
      /\ IsFiniteSet(T) /\ IsFiniteSet(Long(T))
  BY <1>1, Ranks
<1>3. Cardinality(S) <= Cardinality(T) /\ Cardinality(Long(S)) <= Cardinality(Long(T))
  BY <1>1, <1>2, FS_Subset
<1>4. QED
  BY <1>2, <1>3, CompactionAssumption

\* Nothing of a backlog is within any limits.
LEMMA EmptyBacklog ==
  \A S : S = {} => Cardinality(S) <= EventLimit /\ Cardinality(Long(S)) <= LongLimit
<1>1. \A S : S = {} => Cardinality(S) = 0 /\ Long(S) = S
  BY FS_EmptySet DEF Long
<1>2. QED
  BY <1>1, CompactionAssumption

\* The end of a turn keeps the invariant of the summary.
LEMMA FinishKeepsCovers ==
  ASSUME OneUser, CompactionTypeOK, CoversInv,
         NEW t \in Turns, NEW fault \in Faults, Finish(t, fault)
  PROVE  CoversInv'
<1> DEFINE D == DOMAIN events
           Checked(n) == Older({i \in DOMAIN events : i <= n})
<1>1. events' = events
  BY FinishType
<1>2. /\ summary' # summary => summary'.written /\ summary'.covers = Older(D)
      /\ summary.covers \subseteq summary'.covers
  BY FinishCovers
<1>3. \A S : Older(S)' = Older(S) /\ Long(S)' = Long(S)
  BY <1>1 DEF Older, Before, Listed, Long
<1>4. (~summary'.written => summary'.covers = {}) /\ summary'.covers \subseteq Older(DOMAIN events)'
  <2>1. Older(DOMAIN events)' = Older(D)
    BY <1>1 DEF Older, Before, Listed
  <2>2. (~summary'.written => summary'.covers = {}) /\ summary'.covers \subseteq Older(D)
    BY <1>2 DEF CoversInv
  <2>3. QED
    BY <2>1, <2>2
<1>5. Checked(Len(events)) = Older(D) /\ \A n : Checked(n) \in SUBSET D
  <2>1. {i \in DOMAIN events : i <= Len(events)} = D
    BY EventsTyped
  <2>2. \A n : Checked(n) \in SUBSET D
    BY DEF Older
  <2>3. QED
    BY <2>1, <2>2
<1>6. Rest' = Checked(checked') \ summary'.covers
  BY <1>1, <1>3 DEF Rest
<1>7. Cardinality(Rest') <= EventLimit /\ Cardinality(Long(Rest')) <= LongLimit
  <2>1. CASE checked' = checked
    <3>1. Rest' \subseteq Rest /\ Rest \in SUBSET D
      BY <1>2, <1>5, <1>6, <2>1 DEF Rest
    <3>2. QED
      BY <3>1, SmallerBacklog DEF CoversInv, BacklogBounded
  <2>2. CASE checked' = Len(events) /\ summary'.covers = Older(D)
    <3>1. Rest' = {}
      BY <1>5, <1>6, <2>2
    <3>2. QED
      BY <3>1, EmptyBacklog
  <2>3. CASE /\ checked' = Len(events) /\ summary' = summary
             /\ LET rest == Older(D) \ summary.covers
                IN  Cardinality(rest) <= EventLimit /\ Cardinality(Long(rest)) <= LongLimit
    <3>1. Rest' = Older(D) \ summary.covers
      BY <1>5, <1>6, <2>3
    <3>2. QED
      BY <2>3, <3>1
  <2>4. QED
    BY <2>1, <2>2, <2>3, FinishCovers
<1>8. Long(Rest)' = Long(Rest')
  BY <1>1 DEF Long
<1>9. QED
  BY <1>4, <1>7, <1>8 DEF CoversInv, BacklogBounded

\* So does recording an event.
LEMMA RecordedKeepsCovers ==
  ASSUME CompactionTypeOK, CompactionTypeOK', CoversInv,
         NEW kind \in Kinds, NEW user \in Owners, Recorded(kind, user)
  PROVE  CoversInv'
<1> DEFINE V == {i \in DOMAIN events : i <= checked}
<1>1. /\ summary' = summary /\ checked' = checked
      /\ DOMAIN events = 1 .. Len(events) /\ DOMAIN events' = 1 .. Len(events) + 1
      /\ \A i \in DOMAIN events : events'[i] = events[i]
  BY RecordedType
<1>2. summary'.covers \subseteq Older(DOMAIN events)'
  BY <1>1, OlderStaysOlder DEF CoversInv
<1>3. {i \in DOMAIN events' : i <= checked'} = V
  BY <1>1, EventsTyped DEF CompactionTypeOK
<1>4. PICK S : S = V
  OBVIOUS
<1>5. Rest' = Rest /\ Rest \subseteq DOMAIN events
  <2>1. Older(S)' = Older(S) /\ Older(S) \subseteq DOMAIN events
    BY <1>4, OlderStaysOlder DEF Older
  <2>2. Rest = Older(S) \ summary.covers
    BY <1>4 DEF Rest
  <2>3. Rest' = Older(S)' \ summary'.covers
    BY <1>3, <1>4 DEF Rest
  <2>4. QED
    BY <1>1, <2>1, <2>2, <2>3
<1>6. Long(Rest)' = Long(Rest)
  BY <1>1, <1>5 DEF Long
<1>7. QED
  BY <1>1, <1>2, <1>5, <1>6 DEF CoversInv, BacklogBounded

\* The invariant of the summary holds in every state.
LEMMA CoversInvariant == OneUser => (Spec => []CoversInv)
<1> SUFFICES ASSUME OneUser PROVE Spec => []CoversInv
  OBVIOUS
<1>1. Init => CoversInv
  <2> SUFFICES ASSUME Init PROVE CoversInv
    OBVIOUS
  <2>1. summary.covers = {} /\ DOMAIN events = {}
    BY DEF Init, NoSummary
  <2>2. Older(DOMAIN events) = {} /\ Rest = {}
    BY <2>1 DEF Older, Rest
  <2>3. QED
    BY <2>1, <2>2, EmptyBacklog DEF CoversInv, BacklogBounded
<1>2. CompactionTypeOK /\ CompactionTypeOK' /\ CoversInv /\ [Next]_vars => CoversInv'
  <2> SUFFICES ASSUME CompactionTypeOK, CompactionTypeOK', CoversInv, [Next]_vars PROVE CoversInv'
    OBVIOUS
  <2>1. CASE UNCHANGED <<events, summary, proposed, checked>>
    BY <2>1 DEF CoversInv, BacklogBounded, Rest, Older, Before, Listed, Long
  <2>2. QED
    BY <2>1, FinishKeepsCovers, RecordedKeepsCovers, CompactionSteps
<1>3. QED
  BY <1>1, <1>2, CompactionTypeCorrect, PTL DEF Spec

-----------------------------------------------------------------------------

\* When every turn so far was checked, what is neither summarised nor recent
\* is within the limits, for any interleaving of turns and any compactions that
\* break off.
THEOREM BacklogIsBounded == OneUser => (Spec => []BacklogBounded)
<1> SUFFICES ASSUME OneUser PROVE Spec => []BacklogBounded
  OBVIOUS
<1>1. CoversInv => BacklogBounded
  BY DEF CoversInv
<1>2. QED
  BY <1>1, CoversInvariant, PTL

\* A summary is only ever replaced by one that covers more.
THEOREM SummaryOnlyGrows == OneUser => (Spec => SummaryGrows)
<1> SUFFICES ASSUME OneUser PROVE Spec => SummaryGrows
  OBVIOUS
<1>1. CompactionTypeOK /\ CoversInv /\ [Next]_vars =>
        [summary' # summary =>
           summary.covers \subseteq summary'.covers /\ summary.covers # summary'.covers]_vars
  <2> SUFFICES ASSUME CompactionTypeOK, CoversInv, [Next]_vars, summary' # summary
               PROVE  summary.covers \subseteq summary'.covers /\ summary.covers # summary'.covers
    OBVIOUS
  <2>1. ~(UNCHANGED <<events, summary, proposed, checked>>)
        /\ ~\E kind \in Kinds, user \in Owners : Recorded(kind, user)
    BY DEF Recorded
  <2>2. QED
    BY <2>1, CompactionSteps, FinishCovers
<1>2. QED
  BY <1>1, CompactionTypeCorrect, CoversInvariant, PTL DEF Spec, SummaryGrows

\* Of the events that share no stamp, those that the prompt puts before one are
\* younger: the two readers sort alike what was recorded at different moments.
LEMMA ListedLater ==
  ASSUME CompactionTypeOK, Stamped, NEW i \in DOMAIN events, ~Tied(i),
         NEW j \in DOMAIN events, Listed(j, i)
  PROVE  Before(i, j)
<1>1. j # i
  BY EventsTyped DEF Listed
<1>2. events[i].updated # events[j].updated /\ events[i].created # events[j].created
  BY <1>1 DEF Tied
<1>3. events[j].updated > events[i].updated
  BY <1>2, EventsTyped DEF Listed
<1>4. i < j
  BY <1>1, <1>3, EventsTyped DEF Stamped
<1>5. events[i].created <= events[j].created
  BY <1>4 DEF Stamped
<1>6. QED
  BY <1>2, <1>5, EventsTyped DEF Before

\* What is not older is shown, unless it is tied.
LEMMA RestIsShown ==
  ASSUME CompactionTypeOK, Stamped,
         NEW i \in DOMAIN events, i \notin Older(DOMAIN events), ~Tied(i)
  PROVE  i \in Shown(DOMAIN events)
<1> DEFINE D == DOMAIN events
           B == {j \in D : Before(j, i)}
           L == {j \in D : Listed(j, i)}
<1>1. IsFiniteSet(D) /\ Cardinality(D) \in Nat /\ Cardinality(B) \in Nat /\ Cardinality(L) \in Nat
  BY Ranks
<1>2. Cardinality(D) <= Cardinality(B) + KeepRecent
  <2>1. ~(Cardinality(B) + KeepRecent < Cardinality(D))
    BY DEF Older
  <2> HIDE DEF B, D
  <2>2. QED
    BY <1>1, <2>1, CompactionAssumption
<1>3. B \subseteq D /\ L \subseteq D \ B /\ i \in D \ B /\ i \notin L
  <2>1. \A j \in L : Before(i, j)
    BY ListedLater
  <2>2. QED
    BY <2>1, BeforeOrders, EventsTyped DEF Listed
<1>4. IsFiniteSet(D \ B) /\ Cardinality(D \ B) = Cardinality(D) - Cardinality(B)
  BY <1>1, <1>3, Outside, FS_Subset
<1>5. Cardinality(L) < Cardinality(D \ B)
  <2>1. L \subseteq D \ B /\ L # D \ B
    BY <1>3
  <2>2. Cardinality(L) <= Cardinality(D \ B) /\ Cardinality(L) # Cardinality(D \ B)
    BY <1>4, <2>1, FS_Subset
  <2> HIDE DEF B, D, L
  <2>3. QED
    BY <1>1, <1>4, <2>2
<1>6. Cardinality(L) < KeepRecent
  <2> HIDE DEF B, D, L
  <2>1. QED
    BY <1>1, <1>2, <1>4, <1>5, CompactionAssumption
<1>7. QED
  BY <1>6 DEF Shown

\* Right after a compaction the prompt shows every event that shares no stamp,
\* as itself or in the summary.
THEOREM NothingIsDropped == OneUser => (Spec => NothingDropped)
<1> SUFFICES ASSUME OneUser PROVE Spec => NothingDropped
  OBVIOUS
<1>1. CompactionTypeOK /\ Stamped /\ CoversInv /\ [Next]_vars =>
        [summary' # summary =>
           \A i \in DOMAIN events :
             i \in summary'.covers \/ i \in Shown(DOMAIN events) \/ Tied(i)]_vars
  <2> SUFFICES ASSUME CompactionTypeOK, Stamped, CoversInv, [Next]_vars, summary' # summary,
                      NEW i \in DOMAIN events
               PROVE  i \in summary'.covers \/ i \in Shown(DOMAIN events) \/ Tied(i)
    OBVIOUS
  <2>1. ~(UNCHANGED <<events, summary, proposed, checked>>)
        /\ ~\E kind \in Kinds, user \in Owners : Recorded(kind, user)
    BY DEF Recorded
  <2>2. summary'.covers = Older(DOMAIN events)
    BY <2>1, CompactionSteps, FinishCovers
  <2>3. QED
    BY <2>2, RestIsShown
<1>2. QED
  BY <1>1, CompactionTypeCorrect, StampsGrow, CoversInvariant, PTL DEF Spec, NothingDropped
=============================================================================
