------------------------ MODULE ApprovalBrokerProofs ------------------------
(***************************************************************************)
(* Theorems about ApprovalBroker, for every set of processes and requests. *)
(***************************************************************************)
EXTENDS ApprovalBroker, TLAPS

\* What the broker of a running system may do: a step of Next, or a request
\* and a decision of the components built on the broker, whose kinds and
\* permissions Next need not list.
BrokerMoves ==
  \/ Next
  \/ UNCHANGED brokerVars
  \/ \E p \in Procs, r \in Requests, kind \in Types \X (Tools \cup {NoTool}), fault \in Faults :
       Submit(p, r, kind, fault)
  \/ \E p \in Procs, r \in Requests, d \in Decisions, granted \in SUBSET Permissions, fault \in Faults :
       Resolve(p, r, d, granted, fault)

\* Facts about the slots of the store that the handlers build.
LEMMA SlotFacts ==
  /\ Absent \in Register!Entry
  /\ Empty \in [Requests -> Register!Entry]
  /\ Decisions = {"approved", "denied"}
  /\ Closed = {"approved", "denied", "expired"}
BY DEF Absent, Empty, Decisions, Closed, Register!Absent, Register!Entry,
       Register!Statuses, Register!Closed, Register!Decisions

LEMMA NewRequestType ==
  ASSUME TypeOK, NEW kind \in Types \X (Tools \cup {NoTool})
  PROVE  NewRequest(kind) \in Register!Entry
BY BrokerAssumption DEF TypeOK, NewRequest, Register!Entry, Register!Statuses

LEMMA CloseType ==
  ASSUME TypeOK, NEW p \in Procs, NEW r \in Requests, NEW status \in Closed
  PROVE  Close(p, r, status) \in [Requests -> Register!Entry]
<1>1. mem[p] \in [Requests -> Register!Entry] /\ mem[p][r] \in Register!Entry /\ now \in Nat
  BY BrokerAssumption DEF TypeOK
<1>2. [mem[p][r] EXCEPT !.status = status, !.decidedAt = now] \in Register!Entry
  BY <1>1 DEF Register!Entry, Register!Statuses, Closed
<1>3. QED
  BY <1>1, <1>2 DEF Close

LEMMA SweepType ==
  ASSUME TypeOK, NEW p \in Procs, NEW swept
  PROVE  Sweep(p, swept) \in [Requests -> Register!Entry]
BY CloseType, SlotFacts DEF TypeOK, Sweep

\* The common end of submit and resolve keeps every variable in its type.
LEMMA SaveAndAuditType ==
  ASSUME TypeOK, NEW p \in Procs, NEW map \in [Requests -> Register!Entry],
         NEW r \in Requests, NEW event \in Events, NEW fault,
         SaveAndAudit(p, map, r, event, fault)
  PROVE  /\ up' \in [Procs -> BOOLEAN]
         /\ mem' \in [Procs -> [Requests -> Register!Entry]]
         /\ disk' \in [Requests -> Register!Entry]
         /\ audit' \subseteq Requests \X Events
BY SlotFacts DEF TypeOK, SaveAndAudit

\* No move of a broker breaks the types.
LEMMA TypeStep == TypeOK /\ BrokerMoves => TypeOK'
<1> SUFFICES ASSUME TypeOK, BrokerMoves PROVE TypeOK'
  OBVIOUS
<1>1. CASE Tick
  BY <1>1, BrokerAssumption DEF Tick, TypeOK
<1>2. ASSUME NEW p \in Procs, Start(p) PROVE TypeOK'
  BY <1>2 DEF Start, TypeOK
<1>3. ASSUME NEW p \in Procs, Stop(p) PROVE TypeOK'
  BY <1>3, SlotFacts DEF Stop, TypeOK
<1>4. ASSUME NEW p \in Procs, NEW r \in Requests, NEW kind \in Types \X (Tools \cup {NoTool}), NEW fault \in Faults,
             Submit(p, r, kind, fault)
      PROVE  TypeOK'
  <2>1. [mem[p] EXCEPT ![r] = NewRequest(kind)] \in [Requests -> Register!Entry]
    BY NewRequestType DEF TypeOK
  <2>2. "submitted" \in Events
    BY DEF Events
  <2>3. SaveAndAudit(p, [mem[p] EXCEPT ![r] = NewRequest(kind)], r, "submitted", fault)
    BY <1>4 DEF Submit
  <2>4. issued' \subseteq Requests /\ now' \in 0..MaxTime
    BY <1>4 DEF Submit, TypeOK
  <2>5. QED
    BY <2>1, <2>2, <2>3, <2>4, SaveAndAuditType DEF TypeOK
<1>5. ASSUME NEW p \in Procs, NEW r \in Requests, NEW d \in Decisions, NEW granted \in SUBSET Permissions,
             NEW fault \in Faults, Resolve(p, r, d, granted, fault)
      PROVE  TypeOK'
  <2> DEFINE outcome == IF Overdue(mem[p][r]) THEN "expired" ELSE d
  <2>1. outcome \in Closed /\ outcome \in Events
    BY SlotFacts DEF Events
  <2>2. SaveAndAudit(p, Close(p, r, outcome), r, outcome, fault)
    BY <1>5 DEF Resolve
  <2>3. Close(p, r, outcome) \in [Requests -> Register!Entry]
    BY <2>1, CloseType
  <2>4. issued' \subseteq Requests /\ now' \in 0..MaxTime
    BY <1>5 DEF Resolve, TypeOK
  <2> HIDE DEF outcome
  <2>5. QED
    BY <2>1, <2>2, <2>3, <2>4, SaveAndAuditType DEF TypeOK
<1>6. ASSUME NEW p \in Procs, NEW swept \in SUBSET Requests, NEW told \in SUBSET Requests,
             NEW fault \in Faults, ExpireOld(p, swept, told, fault)
      PROVE  TypeOK'
  <2>1. "expired" \in Events
    BY SlotFacts DEF Events
  <2>2. QED
    BY <1>6, <2>1, SweepType, SlotFacts DEF ExpireOld, TypeOK
<1>7. CASE UNCHANGED brokerVars
  BY <1>7 DEF brokerVars, TypeOK
<1>8. QED
  BY <1>1, <1>2, <1>3, <1>4, <1>5, <1>6, <1>7, BrokerAssumption DEF BrokerMoves, Next, Step, Decide

\* Every variable of the broker keeps its type.
THEOREM TypeCorrect == Spec => []TypeOK
<1>1. Init => TypeOK
  BY SlotFacts, BrokerAssumption DEF Init, TypeOK
<1>2. TypeOK /\ [Next]_brokerVars => TypeOK'
  BY TypeStep DEF BrokerMoves
<1>3. QED
  BY <1>1, <1>2, PTL DEF Spec

\* No move of a broker mentions an identifier that was not handed out.
LEMMA UnissuedStep == TypeOK /\ Unissued /\ BrokerMoves => Unissued'
<1> SUFFICES ASSUME TypeOK, Unissued, BrokerMoves,
                    NEW s \in Requests, s \notin issued'
             PROVE  /\ disk'[s] = Absent
                    /\ \A q \in Procs : mem'[q][s] = Absent
                    /\ \A e \in Events : <<s, e>> \notin audit'
  BY DEF Unissued
<1>0. Empty[s] = Absent
  BY DEF Empty
<1>1. CASE Tick
  BY <1>1 DEF Tick, Unissued
<1>2. ASSUME NEW p \in Procs, Start(p)
      PROVE  UNCHANGED <<disk, audit, issued>> /\ \A q \in Procs : mem'[q][s] \in {mem[q][s], disk[s]}
  BY <1>2 DEF Start, TypeOK
<1>3. ASSUME NEW p \in Procs, Stop(p)
      PROVE  UNCHANGED <<disk, audit, issued>> /\ \A q \in Procs : mem'[q][s] \in {mem[q][s], Absent}
  BY <1>3, <1>0 DEF Stop, TypeOK
<1>4. ASSUME NEW p \in Procs, NEW r \in Requests, NEW map \in [Requests -> Register!Entry],
             NEW event, NEW fault, SaveAndAudit(p, map, r, event, fault),
             r # s, map[s] = mem[p][s], s \notin issued
      PROVE  /\ disk'[s] = Absent
             /\ \A q \in Procs : mem'[q][s] = Absent
             /\ \A e \in Events : <<s, e>> \notin audit'
  BY <1>4, <1>0 DEF SaveAndAudit, TypeOK, Unissued
<1>5. ASSUME NEW p \in Procs, NEW r \in Requests, NEW kind \in Types \X (Tools \cup {NoTool}), NEW fault \in Faults,
             Submit(p, r, kind, fault)
      PROVE  /\ disk'[s] = Absent
             /\ \A q \in Procs : mem'[q][s] = Absent
             /\ \A e \in Events : <<s, e>> \notin audit'
  <2> DEFINE map == [mem[p] EXCEPT ![r] = NewRequest(kind)]
  <2>1. r # s /\ s \notin issued
    BY <1>5 DEF Submit
  <2>2. map \in [Requests -> Register!Entry] /\ map[s] = mem[p][s]
    BY <2>1, NewRequestType DEF TypeOK
  <2>3. SaveAndAudit(p, map, r, "submitted", fault)
    BY <1>5 DEF Submit
  <2> HIDE DEF map
  <2>4. QED
    BY <1>4, <2>1, <2>2, <2>3
<1>6. ASSUME NEW p \in Procs, NEW r \in Requests, NEW d \in Decisions, NEW granted \in SUBSET Permissions,
             NEW fault \in Faults, Resolve(p, r, d, granted, fault)
      PROVE  /\ disk'[s] = Absent
             /\ \A q \in Procs : mem'[q][s] = Absent
             /\ \A e \in Events : <<s, e>> \notin audit'
  <2> DEFINE outcome == IF Overdue(mem[p][r]) THEN "expired" ELSE d
             map == Close(p, r, outcome)
  <2>1. outcome \in Closed
    BY SlotFacts
  <2>2. mem[p][r].status = "pending" /\ issued' = issued /\ s \notin issued
    BY <1>6 DEF Resolve
  <2>3. mem[p][s].status = "absent"
    BY <2>2 DEF Unissued, Absent, Register!Absent
  <2>4. map \in [Requests -> Register!Entry]
    BY <2>1, CloseType
  <2>5. r # s /\ map[s] = mem[p][s]
    BY <2>2, <2>3 DEF Close, TypeOK
  <2>6. SaveAndAudit(p, map, r, outcome, fault)
    BY <1>6 DEF Resolve
  <2> HIDE DEF outcome, map
  <2>7. QED
    BY <1>4, <2>2, <2>4, <2>5, <2>6
<1>7. ASSUME NEW p \in Procs, NEW swept \in SUBSET Requests, NEW told \in SUBSET Requests,
             NEW fault \in Faults, ExpireOld(p, swept, told, fault)
      PROVE  /\ disk'[s] = Absent
             /\ \A q \in Procs : mem'[q][s] = Absent
             /\ \A e \in Events : <<s, e>> \notin audit'
  <2>1. s \notin issued /\ mem[p][s] = Absent /\ ~Overdue(Absent)
    BY <1>7 DEF ExpireOld, Unissued, Overdue, Absent, Register!Absent
  <2>2. s \notin swept /\ s \notin told
    BY <1>7, <2>1 DEF ExpireOld
  <2>3. Sweep(p, swept)[s] = Absent
    BY <2>1, <2>2 DEF Sweep
  <2>4. QED
    BY <1>7, <1>0, <2>1, <2>2, <2>3, SweepType DEF ExpireOld, Unissued, TypeOK
<1>8. CASE UNCHANGED brokerVars
  BY <1>8 DEF brokerVars, Unissued
<1>9. QED
  BY <1>1, <1>2, <1>3, <1>5, <1>6, <1>7, <1>8, BrokerAssumption DEF BrokerMoves, Next, Step, Decide, Unissued

\* An identifier that was not handed out yet occurs nowhere.
LEMMA FreshIdentifiers == Spec => []Unissued
<1>1. Init => Unissued
  BY DEF Init, Unissued, Empty
<1>2. TypeOK /\ Unissued /\ [Next]_brokerVars => Unissued'
  BY UnissuedStep DEF BrokerMoves
<1>3. QED
  BY <1>1, <1>2, TypeCorrect, PTL DEF Spec

\* A closed request of a broker that goes on running.
FinalMove ==
  \A p \in Procs, r \in Requests :
    (up[p] /\ up'[p] /\ mem[p][r].status \in Closed) => mem'[p][r] = mem[p][r]

\* No move of a broker changes it.
LEMMA FinalStep == TypeOK /\ Unissued /\ BrokerMoves => FinalMove
<1> SUFFICES ASSUME TypeOK, Unissued, BrokerMoves PROVE FinalMove
  OBVIOUS
<1>1. CASE Tick
  BY <1>1 DEF Tick, FinalMove
<1>2. ASSUME NEW p \in Procs, Start(p) PROVE FinalMove
  BY <1>2 DEF Start, TypeOK, FinalMove
<1>3. ASSUME NEW p \in Procs, Stop(p) PROVE FinalMove
  BY <1>3 DEF Stop, TypeOK, FinalMove
<1>4. ASSUME NEW p \in Procs, NEW r \in Requests, NEW kind \in Types \X (Tools \cup {NoTool}), NEW fault \in Faults,
             Submit(p, r, kind, fault)
      PROVE  FinalMove
  <2>1. mem[p][r].status \notin Closed
    BY <1>4, SlotFacts DEF Submit, Unissued, Absent, Register!Absent
  <2>2. ASSUME NEW q \in Procs, NEW s \in Requests, up'[q], mem[q][s].status \in Closed
        PROVE  mem'[q][s] = mem[q][s]
    <3>1. CASE q # p
      BY <1>4, <3>1 DEF Submit, SaveAndAudit, TypeOK
    <3>2. CASE q = p
      <4>1. s # r
        BY <2>1, <2>2, <3>2
      <4>2. mem'[p] = [mem[p] EXCEPT ![r] = NewRequest(kind)]
        BY <1>4, <2>2, <3>2 DEF Submit, SaveAndAudit, TypeOK
      <4>3. QED
        BY <3>2, <4>1, <4>2 DEF TypeOK
    <3>3. QED
      BY <3>1, <3>2
  <2>3. QED
    BY <2>2 DEF FinalMove
<1>5. ASSUME NEW p \in Procs, NEW r \in Requests, NEW d \in Decisions, NEW granted \in SUBSET Permissions,
             NEW fault \in Faults, Resolve(p, r, d, granted, fault)
      PROVE  FinalMove
  BY <1>5, SlotFacts DEF Resolve, SaveAndAudit, Close, TypeOK, FinalMove
<1>6. ASSUME NEW p \in Procs, NEW swept \in SUBSET Requests, NEW told \in SUBSET Requests,
             NEW fault \in Faults, ExpireOld(p, swept, told, fault)
      PROVE  FinalMove
  BY <1>6, SlotFacts DEF ExpireOld, Sweep, Overdue, TypeOK, FinalMove
<1>7. CASE UNCHANGED brokerVars
  BY <1>7 DEF brokerVars, FinalMove
<1>8. QED
  BY <1>1, <1>2, <1>3, <1>4, <1>5, <1>6, <1>7, BrokerAssumption DEF BrokerMoves, Next, Step, Decide

\* A decision is final in the memory of every broker that goes on running,
\* whatever other processes share its file.
THEOREM DecisionFinality == Spec => DecisionFinal
<1>1. TypeOK /\ Unissued /\ [Next]_brokerVars => [FinalMove]_brokerVars
  BY FinalStep DEF BrokerMoves
<1>2. QED
  BY <1>1, TypeCorrect, FreshIdentifiers, PTL DEF Spec, DecisionFinal, FinalMove

-----------------------------------------------------------------------------

\* Moves of one slot compose, and a closed slot does not move.
LEMMA MovesCompose ==
  ASSUME NEW e, NEW f, NEW g, Register!Moves(e, f), Register!Moves(f, g)
  PROVE  Register!Moves(e, g)
BY DEF Register!Moves, Register!SameRequest, Register!Closed, Register!Decisions

LEMMA ClosedStays ==
  ASSUME NEW e, NEW f, Register!Moves(e, f), e.status \in Closed
  PROVE  f = e
BY SlotFacts DEF Register!Moves

\* What resolve and expireOld make of a pending slot is a move of the register.
LEMMA CloseMoves ==
  ASSUME TypeOK, NEW p \in Procs, NEW r \in Requests, mem[p][r].status = "pending",
         NEW status \in Closed, status = "expired" <=> Overdue(mem[p][r])
  PROVE  /\ Close(p, r, status)[r].status = status
         /\ Register!Moves(mem[p][r], Close(p, r, status)[r])
<1> DEFINE e == mem[p][r]
           f == [e EXCEPT !.status = status, !.decidedAt = now]
<1>1. e \in Register!Entry /\ now \in Nat
  BY BrokerAssumption DEF TypeOK
<1>2. Close(p, r, status)[r] = f
  BY DEF Close, TypeOK
<1>3. /\ f.status = status /\ f.decidedAt = now
      /\ f.type = e.type /\ f.tool = e.tool /\ f.expiresAt = e.expiresAt
  BY <1>1 DEF Register!Entry
<1>4. e.expiresAt \in Nat
  BY <1>1 DEF Register!Entry
<1> HIDE DEF f
<1>5. Register!Timely(f)
  BY <1>1, <1>3, <1>4 DEF Register!Timely, Overdue, Register!Decisions, Closed, Register!Closed
<1>6. QED
  BY <1>2, <1>3, <1>5 DEF Register!Moves, Register!SameRequest, Closed

\* A map that p writes: every slot is where p's memory was or one move ahead,
\* and a request whose expiry was audited is still out of time.
Successor(p, map) ==
  /\ map \in [Requests -> Register!Entry]
  /\ \A s \in Requests : Register!Moves(mem[p][s], map[s])
  /\ \A s \in Requests : <<s, "expired">> \in audit => OutOfTime(map[s])

LEMMA SubmitSuccessor ==
  ASSUME TypeOK, BrokerInv, NEW p \in Procs, up[p], NEW r \in Requests \ issued,
         NEW kind \in Types \X (Tools \cup {NoTool})
  PROVE  Successor(p, [mem[p] EXCEPT ![r] = NewRequest(kind)])
<1> DEFINE map == [mem[p] EXCEPT ![r] = NewRequest(kind)]
<1>1. map \in [Requests -> Register!Entry]
  BY NewRequestType DEF TypeOK
<1>2. mem[p][r].status = "absent" /\ <<r, "expired">> \notin audit
  <2>1. mem[p][r] = Absent /\ \A e \in Events : <<r, e>> \notin audit
    BY DEF BrokerInv, Unissued
  <2>2. Absent.status = "absent" /\ "expired" \in Events
    BY SlotFacts DEF Absent, Register!Absent, Events
  <2>3. QED
    BY <2>1, <2>2
<1>3. NewRequest(kind).status = "pending"
  BY DEF NewRequest
<1>4. Register!Moves(mem[p][r], map[r])
  BY <1>2, <1>3 DEF TypeOK, Register!Moves, Register!Timely, Register!Decisions
<1>5. \A s \in Requests : s # r => map[s] = mem[p][s]
  BY DEF TypeOK
<1>6. \A s \in Requests : Register!Moves(mem[p][s], map[s])
  BY <1>4, <1>5 DEF Register!Moves
<1>7. \A s \in Requests : <<s, "expired">> \in audit => OutOfTime(map[s])
  BY <1>2, <1>5 DEF BrokerInv, ExpiryHolds
<1>8. QED
  BY <1>1, <1>6, <1>7 DEF Successor

LEMMA ResolveSuccessor ==
  ASSUME TypeOK, BrokerInv, NEW p \in Procs, up[p], NEW r \in Requests,
         mem[p][r].status = "pending", NEW status \in Closed,
         status = "expired" <=> Overdue(mem[p][r])
  PROVE  Successor(p, Close(p, r, status))
<1> DEFINE map == Close(p, r, status)
<1>1. map \in [Requests -> Register!Entry]
  BY CloseType
<1>2. Register!Moves(mem[p][r], map[r]) /\ map[r].status = status
  BY CloseMoves
<1>3. \A s \in Requests : s # r => map[s] = mem[p][s]
  BY DEF TypeOK, Close
<1>4. \A s \in Requests : Register!Moves(mem[p][s], map[s])
  BY <1>2, <1>3 DEF Register!Moves
<1>5. <<r, "expired">> \in audit => Overdue(mem[p][r])
  BY DEF BrokerInv, ExpiryHolds, OutOfTime
<1>6. <<r, "expired">> \in audit => OutOfTime(map[r])
  BY <1>2, <1>5 DEF OutOfTime
<1>7. \A s \in Requests : <<s, "expired">> \in audit => OutOfTime(map[s])
  BY <1>3, <1>6 DEF BrokerInv, ExpiryHolds
<1>8. QED
  BY <1>1, <1>4, <1>7 DEF Successor

LEMMA SweepSuccessor ==
  ASSUME TypeOK, BrokerInv, NEW p \in Procs, up[p], NEW swept \in SUBSET Requests,
         \A s \in swept : Overdue(mem[p][s])
  PROVE  /\ Successor(p, Sweep(p, swept))
         /\ \A s \in swept : Sweep(p, swept)[s].status = "expired"
<1> DEFINE map == Sweep(p, swept)
<1>1. map \in [Requests -> Register!Entry]
  BY SweepType
<1>2. ASSUME NEW s \in swept
      PROVE  Register!Moves(mem[p][s], map[s]) /\ map[s].status = "expired"
  BY <1>2, CloseMoves, SlotFacts DEF Sweep, Overdue
<1>3. \A s \in Requests \ swept : map[s] = mem[p][s]
  BY DEF Sweep
<1>4. \A s \in Requests : Register!Moves(mem[p][s], map[s])
  BY <1>2, <1>3 DEF Register!Moves
<1>5. \A s \in Requests : <<s, "expired">> \in audit => OutOfTime(map[s])
  BY <1>2, <1>3 DEF BrokerInv, ExpiryHolds, OutOfTime
<1>6. QED
  BY <1>1, <1>2, <1>4, <1>5 DEF Successor
\* What a handler of the only process does to the shared state: it may write a
\* successor of its memory to the file, and audits `news', decisions only
\* together with the write.
Handled(p, map, news) ==
  /\ now' = now
  /\ up'[p] => mem'[p] = map
  /\ disk' \in {disk, map}
  /\ audit' = audit \cup news
  /\ \A s \in Requests, d \in Decisions :
       <<s, d>> \in news => disk' = map /\ map[s].status = d
  /\ \A s \in Requests :
       <<s, "expired">> \in news => Overdue(mem[p][s]) /\ map[s].status = "expired"

\* What a step keeps, besides Unissued: the rest of BrokerInv, and every slot
\* of the file stays or moves as the register allows.
Kept == /\ Ahead' /\ ExpiryHolds' /\ AuditTruthful'
        /\ \A s \in Requests : Register!Moves(disk[s], disk'[s])

LEMMA HandledKeeps ==
  ASSUME NEW p, Procs = {p}, TypeOK, BrokerInv, up[p], NEW map, NEW news,
         Successor(p, map), Handled(p, map, news)
  PROVE  Kept
<1>1. \A s \in Requests : Register!Moves(disk[s], mem[p][s]) /\ Register!Moves(mem[p][s], map[s])
  BY DEF BrokerInv, Ahead, Successor
<1>2. \A s \in Requests : Register!Moves(disk[s], map[s])
  BY <1>1, MovesCompose
<1>3. \A s \in Requests : Register!Moves(disk[s], disk[s]) /\ Register!Moves(map[s], map[s])
  BY DEF Register!Moves
<1>4. \A s \in Requests : Register!Moves(disk[s], disk'[s]) /\ Register!Moves(disk'[s], map[s])
  BY <1>2, <1>3 DEF Handled
<1>5. Ahead'
  <2> SUFFICES ASSUME up'[p] PROVE \A s \in Requests : Register!Moves(disk'[s], mem'[p][s])
    BY DEF Ahead
  <2> QED
    BY <1>4 DEF Handled
<1>6. ASSUME NEW s \in Requests, <<s, "expired">> \in audit'
      PROVE  /\ disk'[s].status \in {"absent", "expired"} \/ (Overdue(disk'[s]))
             /\ map[s].status \in {"absent", "expired"} \/ Overdue(map[s])
  <2>1. CASE <<s, "expired">> \in audit
    BY <2>1 DEF BrokerInv, ExpiryHolds, Successor, OutOfTime, Handled
  <2>2. CASE <<s, "expired">> \notin audit
    <3>1. Overdue(mem[p][s]) /\ map[s].status = "expired"
      BY <1>6, <2>2 DEF Handled
    <3>2. disk[s] = mem[p][s] \/ disk[s].status = "absent"
      BY <1>1, <3>1 DEF Register!Moves, Overdue, Register!Closed, Register!Decisions
    <3>3. QED
      BY <3>1, <3>2 DEF Handled
  <2>3. QED
    BY <2>1, <2>2
<1>7. \A e : Overdue(e) => (e.status = "pending" /\ e.expiresAt <= now')
  BY DEF Overdue, Handled
<1>8. ExpiryHolds'
  <2> SUFFICES ASSUME NEW s \in Requests, <<s, "expired">> \in audit'
               PROVE  OutOfTime(disk[s])' /\ (up'[p] => OutOfTime(mem[p][s])')
    BY DEF ExpiryHolds
  <2> QED
    BY <1>6, <1>7 DEF OutOfTime, Overdue, Handled
<1>9. AuditTruthful'
  <2> SUFFICES ASSUME NEW s \in Requests
               PROVE  /\ \A d \in Decisions : <<s, d>> \in audit' => disk'[s].status = d
                      /\ <<s, "expired">> \in audit' => disk'[s].status \notin Decisions
    BY DEF AuditTruthful
  <2>1. ASSUME NEW d \in Decisions, <<s, d>> \in audit'
        PROVE  disk'[s].status = d
    <3>1. CASE <<s, d>> \in audit
      <4>1. disk[s].status = d /\ d \in Closed
        BY <3>1, SlotFacts DEF BrokerInv, AuditTruthful
      <4>2. QED
        BY <4>1, <1>4, ClosedStays
    <3>2. CASE <<s, d>> \notin audit
      BY <2>1, <3>2 DEF Handled
    <3>3. QED
      BY <3>1, <3>2
  <2>2. <<s, "expired">> \in audit' => disk'[s].status \notin Decisions
    BY <1>6, SlotFacts DEF Overdue
  <2>3. QED
    BY <2>1, <2>2
<1>10. QED
  BY <1>4, <1>5, <1>8, <1>9 DEF Kept

LEMMA SaveAndAuditHandled ==
  ASSUME TypeOK, NEW p \in Procs, NEW r \in Requests, NEW map, NEW event \in Events, NEW fault,
         SaveAndAudit(p, map, r, event, fault), now' = now, fault \in Faults,
         event # "submitted" => map[r].status = event,
         event = "expired" => Overdue(mem[p][r])
  PROVE  \E news : Handled(p, map, news)
<1> DEFINE news == IF fault = "none" THEN {<<r, event>>} ELSE {}
<1>1. /\ up'[p] => mem'[p] = map
      /\ disk' \in {disk, map}
      /\ audit' = audit \cup news
      /\ fault = "none" => disk' = map
  BY DEF SaveAndAudit, TypeOK
<1>2. \A s, e : <<s, e>> \in news => s = r /\ e = event /\ fault = "none"
  OBVIOUS
<1> HIDE DEF news
<1>3. Handled(p, map, news)
  BY <1>1, <1>2, SlotFacts DEF Handled
<1>4. QED
  BY <1>3
\* Every move of a system with one process keeps the inductive invariant and
\* moves the file as the register allows.
LEMMA StepKeeps ==
  ASSUME NEW p, Procs = {p}, TypeOK, BrokerInv, Unissued', BrokerMoves
  PROVE  Kept
<1>1. CASE UNCHANGED <<up, mem, disk, audit>> /\ now' \in Nat /\ now' >= now
  <2>1. \A s \in Requests : Register!Moves(disk[s], disk'[s])
    BY <1>1 DEF Register!Moves
  <2>2. Ahead' /\ AuditTruthful'
    BY <1>1 DEF BrokerInv, Ahead, AuditTruthful
  <2>3. ASSUME NEW e \in Register!Entry, Overdue(e)
        PROVE  e.status = "pending" /\ e.expiresAt <= now'
    BY <1>1, <2>3, BrokerAssumption DEF Overdue, Register!Entry, TypeOK
  <2>4. ExpiryHolds'
    <3> SUFFICES ASSUME NEW s \in Requests, <<s, "expired">> \in audit'
                 PROVE  OutOfTime(disk[s])' /\ (up'[p] => OutOfTime(mem[p][s])')
      BY DEF ExpiryHolds
    <3> QED
      BY <1>1, <2>3 DEF OutOfTime, Overdue, BrokerInv, ExpiryHolds, TypeOK
  <2>5. QED
    BY <2>1, <2>2, <2>4 DEF Kept
<1>2. CASE Tick
  BY <1>1, <1>2, BrokerAssumption DEF Tick, TypeOK
<1>3. CASE Start(p)
  <2>1. /\ UNCHANGED <<now, disk, audit>> /\ mem'[p] = disk
    BY <1>3 DEF Start, TypeOK
  <2>2. \A s \in Requests : Register!Moves(disk[s], disk[s])
    BY DEF Register!Moves
  <2>3. Ahead' /\ AuditTruthful'
    BY <2>1, <2>2 DEF BrokerInv, Ahead, AuditTruthful
  <2>4. ExpiryHolds'
    BY <2>1 DEF BrokerInv, ExpiryHolds, OutOfTime, Overdue
  <2>5. QED
    BY <2>1, <2>2, <2>3, <2>4 DEF Kept
<1>4. CASE Stop(p)
  <2>1. /\ UNCHANGED <<now, disk, audit>> /\ ~up'[p]
    BY <1>4 DEF Stop, TypeOK
  <2>2. \A s \in Requests : Register!Moves(disk[s], disk[s])
    BY DEF Register!Moves
  <2>3. Ahead' /\ AuditTruthful'
    BY <2>1, <2>2 DEF BrokerInv, Ahead, AuditTruthful
  <2>4. ExpiryHolds'
    BY <2>1 DEF BrokerInv, ExpiryHolds, OutOfTime, Overdue
  <2>5. QED
    BY <2>1, <2>2, <2>3, <2>4 DEF Kept
<1>5. ASSUME NEW r \in Requests, NEW kind \in Types \X (Tools \cup {NoTool}), NEW fault \in Faults,
             Submit(p, r, kind, fault)
      PROVE  Kept
  <2> DEFINE map == [mem[p] EXCEPT ![r] = NewRequest(kind)]
  <2>1. up[p] /\ r \notin issued /\ now' = now /\ SaveAndAudit(p, map, r, "submitted", fault)
    BY <1>5 DEF Submit
  <2>2. Successor(p, map)
    BY <2>1, SubmitSuccessor
  <2>3. "submitted" \in Events
    BY DEF Events
  <2> HIDE DEF map
  <2>4. PICK news : Handled(p, map, news)
    BY <2>1, <2>3, SaveAndAuditHandled
  <2>5. QED
    BY <2>1, <2>2, <2>4, HandledKeeps
<1>6. ASSUME NEW r \in Requests, NEW d \in Decisions, NEW granted \in SUBSET Permissions,
             NEW fault \in Faults, Resolve(p, r, d, granted, fault)
      PROVE  Kept
  <2> DEFINE outcome == IF Overdue(mem[p][r]) THEN "expired" ELSE d
             map == Close(p, r, outcome)
  <2>1. /\ up[p] /\ mem[p][r].status = "pending" /\ now' = now
        /\ SaveAndAudit(p, map, r, outcome, fault)
    BY <1>6 DEF Resolve
  <2>2. outcome \in Closed /\ (outcome = "expired" <=> Overdue(mem[p][r]))
    BY SlotFacts
  <2> HIDE DEF outcome
  <2>3. Successor(p, map) /\ map[r].status = outcome
    BY <2>1, <2>2, ResolveSuccessor, CloseMoves
  <2>4. outcome \in Events
    BY <2>2 DEF Events
  <2> HIDE DEF map
  <2>5. PICK news : Handled(p, map, news)
    BY <2>1, <2>2, <2>3, <2>4, SaveAndAuditHandled
  <2>6. QED
    BY <2>1, <2>3, <2>5, HandledKeeps
<1>7. ASSUME NEW swept \in SUBSET Requests, NEW told \in SUBSET Requests, NEW fault \in Faults,
             ExpireOld(p, swept, told, fault)
      PROVE  Kept
  <2> DEFINE map == Sweep(p, swept)
             news == {<<r, "expired">> : r \in told}
  <2>1. /\ up[p] /\ now' = now /\ told \subseteq swept
        /\ \A s \in swept : Overdue(mem[p][s])
        /\ up'[p] => mem'[p] = map
        /\ disk' \in {disk, map}
        /\ audit' = audit \cup news
    BY <1>7 DEF ExpireOld, TypeOK
  <2>2. Successor(p, map) /\ \A s \in swept : map[s].status = "expired"
    BY <2>1, SweepSuccessor
  <2>3. \A s, e : <<s, e>> \in news => s \in told /\ e = "expired"
    OBVIOUS
  <2> HIDE DEF map, news
  <2>4. Handled(p, map, news)
    BY <2>1, <2>2, <2>3, SlotFacts DEF Handled
  <2>5. QED
    BY <2>1, <2>2, <2>4, HandledKeeps
<1>8. CASE UNCHANGED brokerVars
  BY <1>1, <1>8, BrokerAssumption DEF brokerVars, TypeOK
<1>9. QED
  BY <1>2, <1>3, <1>4, <1>5, <1>6, <1>7, <1>8, BrokerAssumption DEF BrokerMoves, Next, Step, Decide

\* With one process, the inductive invariant holds: its memory is at most one
\* move ahead of the file and the audit log agrees with the file.
THEOREM BrokerInvariant ==
  ASSUME NEW p, Procs = {p}
  PROVE  Spec => []BrokerInv
<1>1. Init /\ Unissued => BrokerInv
  BY DEF Init, BrokerInv, Ahead, ExpiryHolds, AuditTruthful
<1>2. TypeOK /\ BrokerInv /\ Unissued' /\ [Next]_brokerVars => BrokerInv'
  BY StepKeeps DEF Kept, BrokerInv, BrokerMoves
<1>3. QED
  BY <1>1, <1>2, TypeCorrect, FreshIdentifiers, PTL DEF Spec

\* With one process, the audit log never contradicts the file.
THEOREM AuditIsTruthful ==
  ASSUME NEW p, Procs = {p}
  PROVE  Spec => []AuditTruthful
<1>1. BrokerInv => AuditTruthful
  BY DEF BrokerInv
<1>2. QED
  BY <1>1, BrokerInvariant, PTL

\* With one process, a decision in the file is final, whatever fails.
THEOREM StoredDecisionFinality ==
  ASSUME NEW p, Procs = {p}
  PROVE  Spec => StoredDecisionFinal
<1> DEFINE Final == \A r \in Requests : disk[r].status \in Closed => disk'[r] = disk[r]
<1>1. TypeOK /\ BrokerInv /\ Unissued' /\ [Next]_brokerVars => [Final]_brokerVars
  BY StepKeeps, ClosedStays DEF Kept, BrokerMoves
<1>2. QED
  BY <1>1, TypeCorrect, FreshIdentifiers, BrokerInvariant, PTL DEF Spec, StoredDecisionFinal

LEMMA RegisterStep ==
  ASSUME NEW p, Procs = {p}, TypeOK, TypeOK', BrokerInv, Unissued', BrokerMoves
  PROVE  [Register!Write]_disk
BY StepKeeps DEF Kept, Register!Write, TypeOK

LEMMA RegisterStart == Init => Register!Init
BY DEF Init, Empty, Absent, Register!Init

\* With one process, the file implements the abstract register.
THEOREM ImplementsRegister ==
  ASSUME NEW p, Procs = {p}
  PROVE  Spec => RegisterSpec
<1>1. TypeOK /\ TypeOK' /\ BrokerInv /\ Unissued' /\ [Next]_brokerVars => [Register!Write]_disk
  BY RegisterStep DEF BrokerMoves
<1>2. QED
  BY <1>1, RegisterStart, TypeCorrect, FreshIdentifiers, BrokerInvariant, PTL
     DEF Spec, RegisterSpec, Register!Spec
=============================================================================
