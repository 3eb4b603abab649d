----------------------------- MODULE DaemonProofs -----------------------------
(***************************************************************************)
(* The pid file, for any number of commands typed at any moment, any       *)
(* signals, deaths and failing writes: a process that saw the record of a  *)
(* living daemon never destroys it, and no record names a process that has *)
(* not had the port.                                                       *)
(***************************************************************************)
EXTENDS Daemon, SequenceTheorems, WellFoundedInduction, TLAPS

\* The part of DaemonTypeOK that the pid file depends on.
PidTypeOK ==
  /\ pc \in [Procs -> Live \cup {"none", "gone"}]
  /\ doing \in [Procs -> {"start", "stop", "restart", "shutdown"}]
  /\ seen \in [Procs -> Procs \cup {NoProc}]
  /\ file \in Procs \cup {NoProc}

PidInv == PidTypeOK /\ RecordsSeen /\ RecordNamesServer

\* The first state.
LEMMA PidInit == DaemonInit => PidInv
<1> SUFFICES ASSUME DaemonInit PROVE PidInv
  OBVIOUS
<1> USE GatewayAssumption, DaemonAssumption
<1>1. PidTypeOK
  BY DEF DaemonInit, PidTypeOK
<1>2. RecordsSeen
  BY DEF DaemonInit, RecordsSeen, Replacing, Live, StopPoints, StartPoints
<1>3. RecordNamesServer
  BY DEF DaemonInit, RecordNamesServer
<1>4. QED
  BY <1>1, <1>2, <1>3 DEF PidInv

\* A step of a process, a signal or a request keeps the invariant.
LEMMA PidStep == PidInv /\ [DaemonNext]_vars => PidInv'
<1> SUFFICES ASSUME PidInv, [DaemonNext]_vars PROVE PidInv'
  OBVIOUS
<1> USE GatewayAssumption, DaemonAssumption
<1> USE DEF PidInv, PidTypeOK, RecordsSeen, RecordNamesServer, Replacing, Live, StopPoints, StartPoints, At, To
<1>1. ASSUME NEW p \in Procs, Launch(p) PROVE PidInv'
  BY <1>1 DEF Launch, Moves, To, Leaves
<1>2. ASSUME NEW p \in Procs, ReadRecord(p) PROVE PidInv'
  BY <1>2 DEF ReadRecord, Reads, Returns, Moves, Ends, End, Leaves
<1>3. ASSUME NEW p \in Procs, Probe(p) PROVE PidInv'
  BY <1>3 DEF Probe, Running, Returns, Moves, Ends, End, Leaves
<1>4. ASSUME NEW p \in Procs, UnlinkStale(p) PROVE PidInv'
  BY <1>4 DEF UnlinkStale, Returns, Moves, Ends, End
<1>5. ASSUME NEW p \in Procs, Closed(p) PROVE PidInv'
  BY <1>5 DEF Closed, Moves, Leaves
<1>6. ASSUME NEW p \in Procs, RemoveRecord(p) PROVE PidInv'
  BY <1>6 DEF RemoveRecord, Returns, Moves, Ends, End
<1>7. ASSUME NEW p \in Procs, Check(p) PROVE PidInv'
  BY <1>7 DEF Check, Reads, Leaves
<1>8. ASSUME NEW p \in Procs, CheckProbe(p) PROVE PidInv'
  BY <1>8 DEF CheckProbe, Running, Moves, Leaves
<1>9. ASSUME NEW p \in Procs, CheckUnlink(p) PROVE PidInv'
  BY <1>9 DEF CheckUnlink, Moves
<1>10. ASSUME NEW p \in Procs, CheckAgain(p) PROVE PidInv'
  BY <1>10 DEF CheckAgain, Running, Moves, Ends, End, Leaves
<1>11. ASSUME NEW p \in Procs, InitEngine(p) PROVE PidInv'
  BY <1>11 DEF InitEngine, Moves, Leaves
<1>12. ASSUME NEW p \in Procs, Listen(p) PROVE PidInv'
  BY <1>12 DEF Listen, Ends, End, Leaves
<1>13. ASSUME NEW p \in Procs, WriteRecord(p) PROVE PidInv'
  BY <1>13 DEF WriteRecord, Moves
<1>14. ASSUME NEW p \in Procs, Undo(p) PROVE PidInv'
  BY <1>14 DEF Undo, Ends, End
<1>15. ASSUME NEW p \in Procs, Signal(p) PROVE PidInv'
  BY <1>15 DEF Signal, Delivers, Moves, End
<1>16. ASSUME NEW p \in Procs, Exit(p) PROVE PidInv'
  BY <1>16 DEF Exit, Ends, End, Leaves
<1>17. ASSUME NEW p \in Procs, Reuse(p) PROVE PidInv'
  BY <1>17 DEF Reuse
<1>18. ASSUME NEW p \in Procs, NEW signal \in Signals, Interrupt(p, signal) PROVE PidInv'
  BY <1>18 DEF Interrupt, Delivers, End, Leaves
<1>19. ASSUME UNCHANGED daemonVars PROVE PidInv'
  BY <1>19 DEF daemonVars
<1>20. ASSUME NEW c \in Clients, Break(c) PROVE PidInv'
  BY <1>20 DEF Break, Idle, Ends, End, Leaves
<1>21. QED
  BY <1>1, <1>2, <1>3, <1>4, <1>5, <1>6, <1>7, <1>8, <1>9, <1>10, <1>11, <1>12, <1>13, <1>14, <1>15, <1>16, <1>17, <1>18, <1>19, <1>20 DEF DaemonNext, Work, StopStep, StartStep, Arrive, Handle, vars
\* The invariant holds in every state.
LEMMA PidInvariant == DaemonSpec => []PidInv
<1>1. QED
  BY PidInit, PidStep, PTL DEF DaemonSpec

\* No record names a living process that does not serve or shut down: manager.js
\* starts the gateway first.
THEOREM RecordsNameServers == DaemonSpec => []RecordNamesServer
<1>1. PidInv => RecordNamesServer
  BY DEF PidInv
<1>2. QED
  BY <1>1, PidInvariant, PTL

\* What any process read and will replace is dead, in every state.
THEOREM RecordsSeenDead == DaemonSpec => []RecordsSeen
<1>1. PidInv => RecordsSeen
  BY DEF PidInv
<1>2. QED
  BY <1>1, PidInvariant, PTL

\* One step: who changes the file did not see the living process it names.
Keeper(p) ==
  file = p /\ pc[p] \in Live /\ file' # p =>
    \E q \in Procs : pc'[q] # pc[q] /\ (q = p \/ seen[q] # p)

\* Only five steps change the file, and each of them moves on.
LEMMA KeeperStep ==
  ASSUME PidInv, [DaemonNext]_vars, NEW p \in Procs
  PROVE  Keeper(p)
<1> SUFFICES ASSUME file = p, pc[p] \in Live, file' # p
             PROVE  \E q \in Procs : pc'[q] # pc[q] /\ (q = p \/ seen[q] # p)
  BY DEF Keeper
<1> USE GatewayAssumption, DaemonAssumption
<1> USE DEF PidInv, PidTypeOK, RecordsSeen, Replacing, Live, StopPoints, StartPoints, At, To
<1>1. ASSUME NEW q \in Procs, UnlinkStale(q) PROVE pc'[q] # pc[q] /\ (q = p \/ seen[q] # p)
  BY <1>1 DEF UnlinkStale, Returns, Moves, Ends, End
<1>2. ASSUME NEW q \in Procs, RemoveRecord(q) PROVE pc'[q] # pc[q] /\ (q = p \/ seen[q] # p)
  BY <1>2 DEF RemoveRecord, Returns, Moves, Ends, End
<1>3. ASSUME NEW q \in Procs, CheckUnlink(q) PROVE pc'[q] # pc[q] /\ (q = p \/ seen[q] # p)
  BY <1>3 DEF CheckUnlink, Moves
<1>4. ASSUME NEW q \in Procs, WriteRecord(q) PROVE pc'[q] # pc[q] /\ (q = p \/ seen[q] # p)
  BY <1>4 DEF WriteRecord, Moves
<1>5. ASSUME NEW q \in Procs, Undo(q) PROVE pc'[q] # pc[q] /\ (q = p \/ seen[q] # p)
  BY <1>5 DEF Undo, Ends, End
<1>6. \E q \in Procs :
        UnlinkStale(q) \/ RemoveRecord(q) \/ CheckUnlink(q) \/ WriteRecord(q) \/ Undo(q)
  BY DEF DaemonNext, vars, daemonVars, Work, StopStep, StartStep, Leaves, Reads, Launch, ReadRecord, Probe,
         Closed, Check, CheckProbe, CheckAgain, InitEngine, Listen, Signal, Exit, Reuse,
         Interrupt, Arrive, Handle, Break
<1>7. QED
  BY <1>1, <1>2, <1>3, <1>4, <1>5, <1>6

\* A process that saw the record of a living daemon never removes it or
\* writes over it.
THEOREM RecordsKept == DaemonSpec => RecordKept
<1>1. PidInv /\ [DaemonNext]_vars => [\A p \in Procs : Keeper(p)]_vars
  BY KeeperStep
<1>2. [][\A p \in Procs : Keeper(p)]_vars <=> RecordKept
  BY DEF Keeper, RecordKept
<1>3. QED
  BY <1>1, <1>2, PidInvariant, PTL DEF DaemonSpec

-----------------------------------------------------------------------------

Below == {pair \in Nat \X Nat : pair[1] < pair[2]}

\* A set of natural numbers has a least element.
LEMMA LeastNatural ==
  ASSUME NEW S \in SUBSET Nat, S # {}
  PROVE  \E n \in S : \A m \in S : n <= m
<1>1. IsWellFoundedOn(Below, Nat)
  BY NatLessThanWellFounded DEF OpToRel, Below
<1>2. PICK n \in S : \A m \in S : ~(<<m, n>> \in Below)
  BY <1>1, WFMin
<1>3. ASSUME NEW m \in S PROVE n <= m
  <2>1. ~(m < n)
    BY <1>2 DEF Below
  <2>2. m \in Nat /\ n \in Nat
    OBVIOUS
  <2>3. QED
    BY <2>1, <2>2
<1>4. QED
  BY <1>3

\* Induction up to a number, for the numbers of a set.
LEMMA UptoInduction ==
  ASSUME NEW m \in Nat, NEW S, 0 \in S, \A n \in 0 .. m - 1 : n \in S => n + 1 \in S
  PROVE  \A n \in 0 .. m : n \in S
<1> DEFINE T == {n \in 0 .. m : n \notin S}
<1> SUFFICES ASSUME T # {} PROVE FALSE
  OBVIOUS
<1>1. T \in SUBSET Nat
  OBVIOUS
<1>2. PICK least \in T : \A n \in T : least <= n
  BY <1>1, LeastNatural
<1>3. least - 1 \in 0 .. m - 1 /\ least - 1 \notin T
  BY <1>2
<1>4. least - 1 \in S /\ least = (least - 1) + 1
  BY <1>3
<1>5. QED
  BY <1>3, <1>4

\* The events of a stream: a function that is what it says.
LEMMA MatchingDef ==
  ASSUME NEW s, Len(s) \in Nat, NEW f
  PROVE  /\ MatchingUpto(s, f)[0] = <<>>
         /\ \A i \in 1 .. Len(s) :
              MatchingUpto(s, f)[i] =
                IF TypeOf[s[i]] \in f THEN Append(MatchingUpto(s, f)[i - 1], s[i]) ELSE MatchingUpto(s, f)[i - 1]
<1> DEFINE n == Len(s)
           More(i, x) == IF TypeOf[s[i]] \in f THEN Append(x, s[i]) ELSE x
           Match(g, k) == \A i \in 0 .. k : g[i] = IF i = 0 THEN <<>> ELSE More(i, g[i - 1])
           Matched == {k \in 0 .. n : \E g : Match(g, k)}
<1> HIDE DEF n, More
<1>1. n \in Nat
  BY DEF n
<1>2. 0 \in Matched
  <2> DEFINE g == [i \in 0 .. n |-> <<>>]
  <2>1. \A i \in 0 .. 0 : i = 0 /\ g[i] = <<>>
    BY <1>1
  <2> HIDE DEF g
  <2>2. Match(g, 0)
    BY <2>1
  <2>3. QED
    BY <1>1, <2>2
<1>3. ASSUME NEW k \in 0 .. n - 1, k \in Matched PROVE k + 1 \in Matched
  <2>1. PICK g : Match(g, k)
    BY <1>3
  <2> DEFINE h == [i \in 0 .. n |-> IF i = k + 1 THEN More(k + 1, g[k]) ELSE g[i]]
  <2>2. /\ k \in Nat /\ k + 1 \in 0 .. n /\ (k + 1) - 1 = k /\ k + 1 # 0 /\ k \in 0 .. k
        /\ \A i \in 0 .. k + 1 : i = k + 1 \/ i \in 0 .. k
        /\ \A i \in 0 .. k : i # k + 1 /\ i - 1 # k + 1 /\ i \in 0 .. n /\ (i # 0 => i - 1 \in 0 .. k)
    BY <1>1
  <2>3. h[k + 1] = More(k + 1, g[k]) /\ \A i \in 0 .. k : h[i] = g[i]
    BY <2>2
  <2> HIDE DEF h
  <2>4. \A i \in 0 .. k : h[i] = IF i = 0 THEN <<>> ELSE More(i, h[i - 1])
    BY <2>1, <2>2, <2>3
  <2>5. h[k + 1] = More(k + 1, h[(k + 1) - 1])
    BY <2>2, <2>3
  <2>6. Match(h, k + 1)
    BY <2>2, <2>4, <2>5
  <2>7. QED
    BY <2>2, <2>6
<1>4. n \in Matched
  <2> HIDE DEF Matched
  <2>1. \A k \in 0 .. n : k \in Matched
    BY <1>1, <1>2, <1>3, UptoInduction
  <2>2. QED
    BY <1>1, <2>1
<1>5. \E g : g = [i \in 0 .. n |-> IF i = 0 THEN <<>> ELSE More(i, g[i - 1])]
  <2>1. PICK g : Match(g, n)
    BY <1>4
  <2> DEFINE h == [i \in 0 .. n |-> g[i]]
  <2>2. \A i \in 0 .. n : i # 0 => i - 1 \in 0 .. n
    BY <1>1
  <2>3. h = [i \in 0 .. n |-> IF i = 0 THEN <<>> ELSE More(i, h[i - 1])]
    BY <2>1, <2>2
  <2>4. QED
    BY <2>3
<1>6. MatchingUpto(s, f) = [i \in 0 .. n |-> IF i = 0 THEN <<>> ELSE More(i, MatchingUpto(s, f)[i - 1])]
  BY <1>5 DEF MatchingUpto, n, More
<1>7. /\ MatchingUpto(s, f)[0] = <<>>
      /\ \A i \in 1 .. n : MatchingUpto(s, f)[i] = More(i, MatchingUpto(s, f)[i - 1])
  BY <1>1, <1>6
<1>8. QED
  BY <1>7 DEF n, More

\* They are numbers, and depend on no later event.
LEMMA MatchingType ==
  ASSUME NEW s \in Seq(Nat), NEW f
  PROVE  Matching(s, f) \in Seq(Nat)
<1> DEFINE m == MatchingUpto(s, f)
           Good == {i \in 0 .. Len(s) : m[i] \in Seq(Nat)}
<1>1. Len(s) \in Nat /\ \A i \in 1 .. Len(s) : s[i] \in Nat
  OBVIOUS
<1>2. m[0] = <<>> /\ \A i \in 1 .. Len(s) : m[i] = IF TypeOf[s[i]] \in f THEN Append(m[i - 1], s[i]) ELSE m[i - 1]
  BY <1>1, MatchingDef
<1> HIDE DEF m
<1>3. 0 \in Good
  <2>1. <<>> \in Seq(Nat)
    OBVIOUS
  <2>2. m[0] \in Seq(Nat)
    BY <1>2, <2>1, Zenon
  <2>3. 0 \in 0 .. Len(s)
    BY <1>1
  <2>4. QED
    BY <2>2, <2>3, Zenon
<1>4. ASSUME NEW n \in 0 .. Len(s) - 1, n \in Good PROVE n + 1 \in Good
  <2>1. n + 1 \in 1 .. Len(s) /\ (n + 1) - 1 = n /\ n + 1 \in 0 .. Len(s)
    BY <1>1
  <2>2. m[n] \in Seq(Nat) /\ s[n + 1] \in Nat
    BY <1>1, <1>4, <2>1
  <2>3. m[n + 1] = Append(m[n], s[n + 1]) \/ m[n + 1] = m[n]
    BY <1>2, <2>1
  <2>4. m[n + 1] \in Seq(Nat)
    <3>1. ASSUME NEW x \in Seq(Nat), NEW e \in Nat PROVE Append(x, e) \in Seq(Nat)
      OBVIOUS
    <3>2. QED
      BY <2>2, <2>3, <3>1
  <2>5. QED
    BY <2>1, <2>4
<1>5. \A i \in 0 .. Len(s) : i \in Good
  <2> HIDE DEF Good
  <2>1. QED
    BY <1>1, <1>3, <1>4, UptoInduction
<1>6. QED
  BY <1>1, <1>5 DEF Matching, m

LEMMA MatchingSame ==
  ASSUME NEW s \in Seq(Nat), NEW r \in Seq(Nat), NEW f,
         Len(s) <= Len(r), \A i \in 1 .. Len(s) : r[i] = s[i]
  PROVE  MatchingUpto(r, f)[Len(s)] = MatchingUpto(s, f)[Len(s)]
<1> DEFINE m == MatchingUpto(s, f)
           l == MatchingUpto(r, f)
           Good == {i \in 0 .. Len(s) : l[i] = m[i]}
<1>1. Len(s) \in Nat /\ Len(r) \in Nat
  OBVIOUS
<1>2. m[0] = <<>> /\ \A i \in 1 .. Len(s) : m[i] = IF TypeOf[s[i]] \in f THEN Append(m[i - 1], s[i]) ELSE m[i - 1]
  BY <1>1, MatchingDef
<1>3. l[0] = <<>> /\ \A i \in 1 .. Len(r) : l[i] = IF TypeOf[r[i]] \in f THEN Append(l[i - 1], r[i]) ELSE l[i - 1]
  BY <1>1, MatchingDef
<1> HIDE DEF m, l
<1>4. 0 \in Good
  BY <1>1, <1>2, <1>3
<1>5. ASSUME NEW n \in 0 .. Len(s) - 1, n \in Good PROVE n + 1 \in Good
  <2>1. n + 1 \in 1 .. Len(s) /\ n + 1 \in 1 .. Len(r) /\ (n + 1) - 1 = n /\ n + 1 \in 0 .. Len(s)
    BY <1>1
  <2>2. r[n + 1] = s[n + 1] /\ l[n] = m[n]
    BY <1>5, <2>1
  <2>3. l[n + 1] = m[n + 1]
    BY <1>2, <1>3, <2>1, <2>2
  <2>4. QED
    BY <2>1, <2>3
<1>6. \A i \in 0 .. Len(s) : i \in Good
  <2> HIDE DEF Good
  <2>1. QED
    BY <1>1, <1>4, <1>5, UptoInduction
<1>7. QED
  BY <1>1, <1>6 DEF m, l

\* What a stream is written when one more event is published.
LEMMA MatchingAppend ==
  ASSUME NEW s \in Seq(Nat), NEW e \in Nat, NEW f
  PROVE  Matching(Append(s, e), f) = Matching(s, f) \o Matching(<<e>>, f)
<1> DEFINE r == Append(s, e)
           one == <<e>>
<1>1. /\ r \in Seq(Nat) /\ Len(s) \in Nat /\ Len(r) = Len(s) + 1
      /\ r[Len(s) + 1] = e /\ \A i \in 1 .. Len(s) : r[i] = s[i]
  OBVIOUS
<1>2. one \in Seq(Nat) /\ Len(one) = 1 /\ one[1] = e /\ 1 - 1 = 0 /\ 1 \in 1 .. 1
  OBVIOUS
<1> HIDE DEF r, one
<1>3. Matching(one, f) = IF TypeOf[e] \in f THEN Append(<<>>, e) ELSE <<>>
  <2>0. Len(one) \in Nat
    BY <1>2
  <2>1. /\ MatchingUpto(one, f)[0] = <<>>
        /\ \A i \in 1 .. Len(one) :
             MatchingUpto(one, f)[i] =
               IF TypeOf[one[i]] \in f THEN Append(MatchingUpto(one, f)[i - 1], one[i])
                                       ELSE MatchingUpto(one, f)[i - 1]
    BY <2>0, MatchingDef
  <2>2. QED
    BY <1>2, <2>1 DEF Matching
<1>4. Matching(r, f) = IF TypeOf[e] \in f THEN Append(Matching(s, f), e) ELSE Matching(s, f)
  <2>1. \A i \in 1 .. Len(r) :
          MatchingUpto(r, f)[i] =
            IF TypeOf[r[i]] \in f THEN Append(MatchingUpto(r, f)[i - 1], r[i]) ELSE MatchingUpto(r, f)[i - 1]
    BY <1>1, MatchingDef
  <2>2. Len(r) \in 1 .. Len(r) /\ Len(r) - 1 = Len(s) /\ r[Len(r)] = e
    BY <1>1
  <2>3. MatchingUpto(r, f)[Len(s)] = Matching(s, f)
    <3>1. Len(s) <= Len(r)
      BY <1>1
    <3>2. QED
      BY <1>1, <3>1, MatchingSame DEF Matching
  <2>4. QED
    BY <2>1, <2>2, <2>3 DEF Matching
<1>5. Matching(s, f) \in Seq(Nat)
  BY MatchingType
<1>6. ASSUME NEW x \in Seq(Nat)
      PROVE  Append(x, e) = x \o Append(<<>>, e) /\ x = x \o <<>>
  OBVIOUS
<1>7. Matching(r, f) = Matching(s, f) \o Matching(one, f)
  <2>1. CASE TypeOf[e] \in f
    BY <1>3, <1>4, <1>5, <1>6, <2>1
  <2>2. CASE TypeOf[e] \notin f
    BY <1>3, <1>4, <1>5, <1>6, <2>2
  <2>3. QED
    BY <2>1, <2>2
<1>8. QED
  BY <1>7 DEF r, one

-----------------------------------------------------------------------------

\* Consecutive events.
LEMMA NumbersAre ==
  ASSUME NEW from \in Nat \ {0}, NEW to \in Nat, from <= to + 1
  PROVE  /\ Numbers(from, to) \in Seq(Nat) /\ Len(Numbers(from, to)) = to - from + 1
         /\ \A i \in 1 .. to - from + 1 : Numbers(from, to)[i] = from + i - 1
<1>1. to - from + 1 \in Nat /\ \A i \in 1 .. to - from + 1 : from + i - 1 \in Nat
  OBVIOUS
<1>2. QED
  BY <1>1 DEF Numbers

\* The next event extends them.
LEMMA NumbersGrow ==
  ASSUME NEW from \in Nat \ {0}, NEW to \in Nat, from <= to + 1
  PROVE  Numbers(from, to + 1) = Append(Numbers(from, to), to + 1)
<1> DEFINE s == Numbers(from, to)
           r == Append(s, to + 1)
           x == Numbers(from, to + 1)
           n == to - from + 1
<1>1. s \in Seq(Nat) /\ Len(s) = n /\ \A i \in 1 .. n : s[i] = from + i - 1
  BY NumbersAre
<1>2. n \in Nat /\ to + 1 \in Nat /\ from <= (to + 1) + 1 /\ (to + 1) - from + 1 = n + 1 /\ from + (n + 1) - 1 = to + 1
  OBVIOUS
<1>3. x \in Seq(Nat) /\ Len(x) = n + 1 /\ \A i \in 1 .. n + 1 : x[i] = from + i - 1
  <2>1. /\ x \in Seq(Nat) /\ Len(x) = (to + 1) - from + 1
        /\ \A i \in 1 .. (to + 1) - from + 1 : x[i] = from + i - 1
    BY <1>2, NumbersAre
  <2> HIDE DEF x, n
  <2>2. QED
    BY <1>2, <2>1
<1> HIDE DEF s, x
<1>4. r \in Seq(Nat) /\ Len(r) = n + 1 /\ r[n + 1] = to + 1 /\ \A i \in 1 .. n : r[i] = s[i]
  BY <1>1, <1>2
<1> HIDE DEF r, n
<1>5. \A i \in 1 .. n + 1 : i \in 1 .. n \/ i = n + 1
  BY <1>2
<1>6. \A i \in 1 .. n + 1 : x[i] = r[i]
  BY <1>1, <1>2, <1>3, <1>4, <1>5
<1>7. x = r
  <2>1. Len(x) = Len(r) /\ \A i \in 1 .. Len(x) : x[i] = r[i]
    BY <1>3, <1>4, <1>6
  <2>2. QED
    BY <1>3, <1>4, <2>1, SeqEqual
<1>8. QED
  BY <1>7 DEF x, r, s

\* A tail of them.
LEMMA NumbersTail ==
  ASSUME NEW from \in Nat \ {0}, NEW to \in Nat, from <= to + 1, NEW k \in 1 .. to - from + 2
  PROVE  SubSeq(Numbers(from, to), k, to - from + 1) = Numbers(from + k - 1, to)
<1> DEFINE s == Numbers(from, to)
           n == to - from + 1
           r == SubSeq(s, k, n)
           x == Numbers(from + k - 1, to)
<1>1. s \in Seq(Nat) /\ Len(s) = n /\ \A i \in 1 .. n : s[i] = from + i - 1
  BY NumbersAre
<1>2. /\ n \in Nat /\ k \in 1 .. n + 1 /\ from + k - 1 \in Nat \ {0} /\ from + k - 1 <= to + 1
      /\ to - (from + k - 1) + 1 = n - k + 1 /\ n - k + 1 \in Nat
  OBVIOUS
<1>3. x \in Seq(Nat) /\ Len(x) = n - k + 1 /\ \A i \in 1 .. n - k + 1 : x[i] = from + k - 1 + i - 1
  <2>1. /\ x \in Seq(Nat) /\ Len(x) = to - (from + k - 1) + 1
        /\ \A i \in 1 .. to - (from + k - 1) + 1 : x[i] = from + k - 1 + i - 1
    BY <1>2, NumbersAre
  <2> HIDE DEF x, n
  <2>2. QED
    BY <1>2, <2>1
<1> HIDE DEF s, x, n
<1>4. r \in Seq(Nat) /\ Len(r) = n - k + 1 /\ \A i \in 1 .. n - k + 1 : r[i] = s[k + i - 1]
  <2>1. k \in Int /\ n \in Int /\ \A i \in k .. n : s[i] \in Nat
    BY <1>1, <1>2
  <2>2. /\ r \in Seq(Nat)
        /\ Len(r) = IF k <= n THEN n - k + 1 ELSE 0
        /\ \A i \in 1 .. n - k + 1 : r[i] = s[k + i - 1]
    BY <2>1, SubSeqProperties
  <2> HIDE DEF r
  <2>3. QED
    BY <1>2, <2>2
<1> HIDE DEF r
<1>5. \A i \in 1 .. n - k + 1 : k + i - 1 \in 1 .. n /\ from + (k + i - 1) - 1 = from + k - 1 + i - 1
  BY <1>2
<1>6. \A i \in 1 .. n - k + 1 : r[i] = x[i]
  BY <1>1, <1>3, <1>4, <1>5
<1>7. r = x
  <2>1. Len(r) = Len(x) /\ \A i \in 1 .. Len(r) : r[i] = x[i]
    BY <1>3, <1>4, <1>6
  <2>2. QED
    BY <1>3, <1>4, <2>1, SeqEqual
<1>8. QED
  BY <1>7 DEF r, x, s, n

\* What a bus keeps: the last events it published.
Fresh(events, last) ==
  /\ Len(events) = IF last < MaxRecent THEN last ELSE MaxRecent
  /\ events = Numbers(last - Len(events) + 1, last)

LEMMA FreshIs ==
  ASSUME NEW last \in Nat, NEW events, Fresh(events, last)
  PROVE  events \in Seq(Nat) /\ Len(events) <= MaxRecent
<1>1. MaxRecent \in Nat \ {0} /\ Len(events) = IF last < MaxRecent THEN last ELSE MaxRecent
  BY GatewayAssumption DEF Fresh
<1>2. /\ last - Len(events) + 1 \in Nat \ {0} /\ last - Len(events) + 1 <= last + 1
      /\ Len(events) <= MaxRecent
  BY <1>1
<1>3. QED
  BY <1>2, NumbersAre DEF Fresh

LEMMA KeptFresh ==
  ASSUME NEW events, NEW last \in Nat, Fresh(events, last)
  PROVE  Fresh(Kept(Append(events, last + 1)), last + 1)
<1> DEFINE n == Len(events)
           from == last - n + 1
           more == Append(events, last + 1)
<1>1. MaxRecent \in Nat \ {0} /\ n = IF last < MaxRecent THEN last ELSE MaxRecent
  BY GatewayAssumption DEF Fresh
<1>2. events = Numbers(from, last)
  BY DEF Fresh
<1> HIDE DEF n
<1>3. from \in Nat \ {0} /\ from <= last + 1 /\ last + 1 \in Nat /\ from <= (last + 1) + 1 /\ (last + 1) - from + 1 = n + 1
  BY <1>1
<1>4. more = Numbers(from, last + 1)
  <2> HIDE DEF from
  <2>1. QED
    BY <1>2, <1>3, NumbersGrow
<1>5. Len(more) = n + 1
  <2> HIDE DEF from, more
  <2>1. Len(more) = (last + 1) - from + 1
    BY <1>3, <1>4, NumbersAre
  <2>2. QED
    BY <1>3, <2>1
<1> HIDE DEF more
<1>6. CASE last < MaxRecent
  <2>1. n = last /\ ~(n + 1 > MaxRecent) /\ from = 1 /\ (last + 1) - (n + 1) + 1 = 1 /\ n + 1 \in Nat
    BY <1>1, <1>6
  <2>2. Kept(more) = more
    BY <1>5, <2>1 DEF Kept
  <2> HIDE DEF from
  <2>3. n + 1 = IF last + 1 < MaxRecent THEN last + 1 ELSE MaxRecent
    BY <1>1, <1>6, <2>1
  <2>4. QED
    BY <1>4, <1>5, <2>1, <2>2, <2>3 DEF Fresh, more
<1>7. CASE ~(last < MaxRecent)
  <2>1. /\ n = MaxRecent /\ n + 1 > MaxRecent /\ (n + 1) - MaxRecent + 1 = 2
        /\ 2 \in 1 .. (last + 1) - from + 2 /\ from + 2 - 1 = from + 1
        /\ (last + 1) - MaxRecent + 1 = from + 1 /\ ~(last + 1 < MaxRecent)
        /\ from + 1 \in Nat \ {0} /\ from + 1 <= (last + 1) + 1 /\ (last + 1) - (from + 1) + 1 = MaxRecent
    BY <1>1, <1>7
  <2> HIDE DEF from
  <2>2. Kept(more) = SubSeq(Numbers(from, last + 1), 2, (last + 1) - from + 1)
    BY <1>3, <1>4, <1>5, <2>1 DEF Kept
  <2>3. SubSeq(Numbers(from, last + 1), 2, (last + 1) - from + 1) = Numbers(from + 2 - 1, last + 1)
    BY <1>3, <2>1, NumbersTail
  <2>4. Kept(more) = Numbers(from + 1, last + 1)
    BY <2>1, <2>2, <2>3
  <2>5. Len(Kept(more)) = MaxRecent
    <3> DEFINE next == from + 1
               new  == last + 1
    <3>1. next \in Nat \ {0} /\ new \in Nat /\ next <= new + 1 /\ new - next + 1 = MaxRecent
      BY <1>3, <2>1
    <3>2. Kept(more) = Numbers(next, new)
      BY <2>4
    <3> HIDE DEF next, new
    <3>3. Len(Numbers(next, new)) = new - next + 1
      BY <3>1, NumbersAre
    <3>4. QED
      BY <3>1, <3>2, <3>3
  <2>6. QED
    BY <2>1, <2>4, <2>5 DEF Fresh, more
<1>8. QED
  BY <1>6, <1>7

LEMMA RecentIs ==
  ASSUME NEW p \in Procs, NEW last \in Nat, Fresh(recent[p], last)
  PROVE  \E from \in 1 .. last + 1 :
           /\ Recent(p) = Numbers(from, last)
           /\ last - from + 1 = Min({Limit, MaxRecent, last})
<1> DEFINE n == Len(recent[p])
           first == last - n + 1
           k == IF n > Limit THEN n - Limit + 1 ELSE 1
           from == first + k - 1
<1>1. MaxRecent \in Nat \ {0} /\ Limit \in Nat \ {0} /\ n = IF last < MaxRecent THEN last ELSE MaxRecent
  BY GatewayAssumption DEF Fresh
<1>2. recent[p] = Numbers(first, last) /\ Recent(p) = SubSeq(recent[p], k, n)
  BY DEF Fresh, Recent
<1> HIDE DEF n
<1>3. /\ first \in Nat \ {0} /\ first <= last + 1 /\ last - first + 1 = n
      /\ k \in 1 .. last - first + 2 /\ from \in 1 .. last + 1
  BY <1>1
<1>4. Recent(p) = Numbers(from, last)
  <2> HIDE DEF first, k
  <2>1. SubSeq(Numbers(first, last), k, last - first + 1) = Numbers(first + k - 1, last)
    BY <1>3, NumbersTail
  <2>2. QED
    BY <1>2, <1>3, <2>1
<1> DEFINE m == last - from + 1
<1>5. m \in {Limit, MaxRecent, last} /\ m <= Limit /\ m <= MaxRecent /\ m <= last
  BY <1>1
<1>6. Min({Limit, MaxRecent, last}) = m
  <2> HIDE DEF m
  <2>1. m \in Nat
    BY <1>1, <1>5
  <2>2. \A x \in {Limit, MaxRecent, last} : (\A y \in {Limit, MaxRecent, last} : x <= y) => x = m
    BY <1>1, <1>5, <2>1
  <2>3. QED
    BY <1>1, <1>5, <2>1, <2>2 DEF Min
<1>7. QED
  BY <1>3, <1>4, <1>6

-----------------------------------------------------------------------------

ConnRecord == [at : {"none", "reading", "querying", "streaming", "listening"},
               server : Procs \cup {NoProc}, open : BOOLEAN,
               filter : Filters \cup {{}}, since : Nat, got : Seq(Nat)]

\* What a stream that subscribed after `since' events has when there are `last'.
Receives(r, last) ==
  /\ r.since <= last
  /\ \E from \in 1 .. r.since + 1 :
       /\ r.got = Matching(Numbers(from, last), r.filter)
       /\ r.since - from + 1 = Min({Limit, MaxRecent, r.since})

StreamInv ==
  /\ conn \in [Clients -> ConnRecord] /\ recent \in [Procs -> Seq(Nat)] /\ published \in [Procs -> Nat]
  /\ \A p \in Procs : Fresh(recent[p], published[p])
  /\ \A c \in Clients : conn[c].at = "listening" =>
       conn[c].server \in Procs /\ Receives(conn[c], published[conn[c].server])

\* What the steps of commands, signals and requests are to the connections.
LEMMA GatewayMoves ==
  ASSUME PidInv, [DaemonNext]_vars
  PROVE  \/ UNCHANGED gatewayVars
         \/ \E p \in Procs : Dropped(p) \/ Publish(p) \/ \E c \in Clients : Request(c, p) \/ Subscribe(c, p)
         \/ \E c \in Clients : Handling(c) \/ Leave(c)
<1> DEFINE Goal == \/ UNCHANGED gatewayVars
                   \/ \E p \in Procs : Dropped(p)
<1>1. ASSUME NEW p \in Procs, StopStep(p) PROVE Goal
  BY <1>1 DEF StopStep, ReadRecord, Probe, UnlinkStale, Closed, RemoveRecord, Reads, Returns, Moves, Ends, End
<1>2. ASSUME NEW p \in Procs, StartStep(p) PROVE Goal
  BY <1>2 DEF StartStep, Check, CheckProbe, CheckUnlink, CheckAgain, InitEngine, Listen, WriteRecord, Undo,
              Reads, Moves, Ends, End
<1>3. ASSUME NEW p \in Procs, Launch(p) \/ Exit(p) \/ Reuse(p) PROVE Goal
  BY <1>3 DEF Launch, Exit, Reuse, Moves, Ends, End
<1>4. ASSUME NEW p \in Procs, Signal(p) PROVE Goal
  <2>1. seen[p] \in Procs
    BY <1>4, GatewayAssumption DEF Signal, PidInv, PidTypeOK, RecordsSeen, At
  <2>2. QED
    BY <1>4, <2>1 DEF Signal, Delivers, Moves, End
<1>5. ASSUME NEW p \in Procs, NEW signal \in Signals, Interrupt(p, signal) PROVE Goal
  BY <1>5 DEF Interrupt, Delivers, End
<1>6. ASSUME NEW c \in Clients, Break(c) PROVE Goal
  BY <1>6 DEF Break, Idle, Ends, End
<1>7. QED
  BY <1>1, <1>2, <1>3, <1>4, <1>5, <1>6 DEF DaemonNext, Work, Arrive, Handle, vars, gatewayVars

LEMMA NoConnType ==
  NoConn \in ConnRecord /\ NoConn.at # "listening" /\ NoConn.at = "none"
<1>1. <<>> \in Seq(Nat)
  OBVIOUS
<1>2. QED
  BY <1>1 DEF NoConn, ConnRecord

\* A new stream has what it asked for.
LEMMA SubscribeReceives ==
  ASSUME StreamInv, NEW c \in Clients, NEW p \in Procs, Subscribe(c, p)
  PROVE  /\ conn'[c] \in ConnRecord /\ conn'[c].server = p /\ Receives(conn'[c], published[p])
         /\ \A d \in Clients \ {c} : conn'[d] = conn[d]
<1>1. PICK filter \in Filters :
        conn' = [conn EXCEPT ![c] = [at |-> "listening", server |-> p, open |-> TRUE, filter |-> filter,
                                     since |-> published[p], got |-> Matching(Recent(p), filter)]]
  BY DEF Subscribe
<1> DEFINE last == published[p]
           got == Matching(Recent(p), filter)
           r == [at |-> "listening", server |-> p, open |-> TRUE, filter |-> filter, since |-> last, got |-> got]
<1>2. last \in Nat /\ Fresh(recent[p], last)
  BY DEF StreamInv
<1> HIDE DEF last
<1>3. PICK from \in 1 .. last + 1 :
        Recent(p) = Numbers(from, last) /\ last - from + 1 = Min({Limit, MaxRecent, last})
  BY <1>2, RecentIs
<1>4. got \in Seq(Nat)
  <2>1. from \in Nat \ {0} /\ from <= last + 1
    BY <1>2
  <2>2. Numbers(from, last) \in Seq(Nat)
    BY <1>2, <2>1, NumbersAre
  <2>3. QED
    BY <1>3, <2>2, MatchingType
<1>5. got = Matching(Numbers(from, last), filter)
  BY <1>3
<1> HIDE DEF got
<1>6. r \in ConnRecord
  BY <1>2, <1>4 DEF ConnRecord
<1>7. r.server = p /\ r.since = last /\ r.got = got /\ r.filter = filter
  OBVIOUS
<1> HIDE DEF r
<1>8. Receives(r, last)
  <2>1. last <= last
    BY <1>2
  <2>2. QED
    BY <1>3, <1>5, <1>7, <2>1 DEF Receives
<1>9. conn' = [conn EXCEPT ![c] = r]
  BY <1>1 DEF r, last, got
<1>10. conn'[c] = r /\ \A d \in Clients \ {c} : conn'[d] = conn[d]
  BY <1>9 DEF StreamInv
<1>11. QED
  BY <1>6, <1>7, <1>8, <1>10 DEF last

\* And keeps receiving: the next event, if it is of a type that it asked for.
LEMMA PublishReceives ==
  ASSUME NEW r \in ConnRecord, NEW last \in Nat, Receives(r, last)
  PROVE  LET s == [r EXCEPT !.got = @ \o Matching(<<last + 1>>, r.filter)] IN
         s \in ConnRecord /\ s.at = r.at /\ s.server = r.server /\ Receives(s, last + 1)
<1> DEFINE got == r.got \o Matching(<<last + 1>>, r.filter)
           s == [r EXCEPT !.got = got]
<1>1. PICK from \in 1 .. r.since + 1 :
        /\ r.got = Matching(Numbers(from, last), r.filter)
        /\ r.since - from + 1 = Min({Limit, MaxRecent, r.since})
  BY DEF Receives
<1>2. r.since \in Nat /\ r.since <= last /\ r.got \in Seq(Nat)
  BY DEF Receives, ConnRecord
<1>3. from \in Nat \ {0} /\ from <= last + 1 /\ last + 1 \in Nat /\ r.since <= last + 1
  BY <1>2
<1>4. Numbers(from, last) \in Seq(Nat) /\ Numbers(from, last + 1) = Append(Numbers(from, last), last + 1)
  BY <1>3, NumbersAre, NumbersGrow
<1>5. got = Matching(Numbers(from, last + 1), r.filter)
  <2> DEFINE s0 == Numbers(from, last)
  <2>1. s0 \in Seq(Nat) /\ r.got = Matching(s0, r.filter) /\ Numbers(from, last + 1) = Append(s0, last + 1)
    BY <1>1, <1>4
  <2> HIDE DEF s0
  <2>2. Matching(Append(s0, last + 1), r.filter) = Matching(s0, r.filter) \o Matching(<<last + 1>>, r.filter)
    BY <1>3, <2>1, MatchingAppend
  <2>3. QED
    BY <2>1, <2>2
<1>6. got \in Seq(Nat)
  <2>1. Numbers(from, last + 1) \in Seq(Nat)
    <3>1. from <= (last + 1) + 1
      BY <1>3
    <3>2. QED
      BY <1>3, <3>1, NumbersAre
  <2>2. QED
    BY <1>5, <2>1, MatchingType
<1> HIDE DEF got
<1>7. /\ s \in ConnRecord /\ s.at = r.at /\ s.server = r.server /\ s.since = r.since
      /\ s.filter = r.filter /\ s.got = got
  BY <1>6 DEF ConnRecord
<1> HIDE DEF s
<1>8. Receives(s, last + 1)
  BY <1>1, <1>3, <1>5, <1>7 DEF Receives
<1>9. QED
  BY <1>7, <1>8 DEF s, got

\* A bus that published nothing has kept it.
LEMMA FreshStart == Fresh(<<>>, 0) /\ <<>> \in Seq(Nat)
<1> DEFINE none == <<>>
<1>1. none \in Seq(Nat) /\ Len(none) = 0 /\ 0 - Len(none) + 1 = 1 /\ 0 < MaxRecent
  BY GatewayAssumption
<1>2. Numbers(1, 0) \in Seq(Nat) /\ Len(Numbers(1, 0)) = 0
  BY NumbersAre
<1>3. Numbers(1, 0) = none
  BY <1>2
<1> HIDE DEF none
<1>4. Fresh(none, 0)
  BY <1>1, <1>3 DEF Fresh
<1>5. QED
  BY <1>1, <1>4 DEF none

LEMMA StreamStart == DaemonInit => StreamInv
<1> SUFFICES ASSUME DaemonInit PROVE StreamInv
  OBVIOUS
<1>1. conn = [c \in Clients |-> NoConn] /\ recent = [p \in Procs |-> <<>>] /\ published = [p \in Procs |-> 0]
  BY DEF DaemonInit, GatewayInit
<1>2. conn \in [Clients -> ConnRecord] /\ \A c \in Clients : conn[c].at # "listening"
  BY <1>1, NoConnType
<1>3. recent \in [Procs -> Seq(Nat)] /\ published \in [Procs -> Nat]
  BY <1>1, FreshStart
<1>4. \A p \in Procs : Fresh(recent[p], published[p])
  BY <1>1, FreshStart
<1>5. QED
  BY <1>2, <1>3, <1>4 DEF StreamInv

\* The invariant after a step.
LEMMA NextStream ==
  ASSUME conn' \in [Clients -> ConnRecord], recent' \in [Procs -> Seq(Nat)], published' \in [Procs -> Nat],
         \A p \in Procs : Fresh(recent'[p], published'[p]),
         \A c \in Clients : conn'[c].at = "listening" =>
           conn'[c].server \in Procs /\ Receives(conn'[c], published'[conn'[c].server])
  PROVE  StreamInv'
BY DEF StreamInv, Fresh, Receives, ConnRecord, Matching, MatchingUpto, Numbers

\* A step that only opens or closes requests, or closes streams.
LEMMA OtherConnections ==
  ASSUME StreamInv, UNCHANGED <<recent, published>>, conn' \in [Clients -> ConnRecord],
         \A c \in Clients : conn'[c] = conn[c] \/ conn'[c].at # "listening"
  PROVE  StreamInv'
<1>1. /\ recent' \in [Procs -> Seq(Nat)] /\ published' \in [Procs -> Nat]
      /\ \A p \in Procs : Fresh(recent'[p], published'[p])
  BY DEF StreamInv
<1>2. \A c \in Clients : conn'[c].at = "listening" =>
           conn'[c].server \in Procs /\ Receives(conn'[c], published'[conn'[c].server])
  BY DEF StreamInv
<1>3. QED
  BY <1>1, <1>2, NextStream

LEMMA RequestSteps ==
  ASSUME StreamInv, NEW c \in Clients,
         Handling(c) \/ Leave(c) \/ \E p \in Procs : Request(c, p)
  PROVE  StreamInv'
<1>1. conn \in [Clients -> ConnRecord] /\ conn[c] \in ConnRecord
  BY DEF StreamInv
<1>2. ASSUME NEW r \in ConnRecord, r.at # "listening", conn' = [conn EXCEPT ![c] = r], UNCHANGED <<recent, published>>
      PROVE  StreamInv'
  <2>1. conn' \in [Clients -> ConnRecord] /\ \A d \in Clients : conn'[d] = conn[d] \/ conn'[d].at # "listening"
    BY <1>1, <1>2
  <2>2. QED
    BY <1>2, <2>1, OtherConnections
<1>3. CASE Closes(c)
  BY <1>2, <1>3, NoConnType DEF Closes
<1>4. ASSUME NEW at \in {"querying", "streaming"}, Waits(c, at) PROVE StreamInv'
  <2> DEFINE r == [conn[c] EXCEPT !.at = at]
  <2>1. r \in ConnRecord /\ r.at = at
    BY <1>1 DEF ConnRecord
  <2>2. conn' = [conn EXCEPT ![c] = r] /\ UNCHANGED <<recent, published>>
    BY <1>4 DEF Waits
  <2> HIDE DEF r
  <2>3. QED
    BY <1>2, <2>1, <2>2
<1>5. ASSUME NEW p \in Procs, Request(c, p) PROVE StreamInv'
  <2> DEFINE r == [NoConn EXCEPT !.at = "reading", !.server = p, !.open = TRUE]
  <2>1. r \in ConnRecord /\ r.at = "reading"
    BY NoConnType DEF ConnRecord
  <2>2. conn' = [conn EXCEPT ![c] = r] /\ UNCHANGED <<recent, published>>
    BY <1>5 DEF Request
  <2> HIDE DEF r
  <2>3. QED
    BY <1>2, <2>1, <2>2
<1>6. CASE conn[c].at \in {"querying", "streaming"} /\ conn' = [conn EXCEPT ![c].open = FALSE] /\ UNCHANGED <<recent, published>>
  <2> DEFINE r == [conn[c] EXCEPT !.open = FALSE]
  <2>1. r \in ConnRecord /\ r.at = conn[c].at
    BY <1>1 DEF ConnRecord
  <2>2. conn' = [conn EXCEPT ![c] = r]
    BY <1>6
  <2> HIDE DEF r
  <2>3. QED
    BY <1>2, <1>6, <2>1, <2>2
<1>7. QED
  BY <1>3, <1>4, <1>5, <1>6 DEF Handling, HasBody, Respond, EndStream, Leave

LEMMA StreamStep == PidInv /\ StreamInv /\ [DaemonNext]_vars => StreamInv'
<1> SUFFICES ASSUME PidInv, StreamInv, [DaemonNext]_vars PROVE StreamInv'
  OBVIOUS
<1>1. /\ conn \in [Clients -> ConnRecord] /\ recent \in [Procs -> Seq(Nat)] /\ published \in [Procs -> Nat]
      /\ \A p \in Procs : Fresh(recent[p], published[p])
      /\ \A c \in Clients : conn[c].at = "listening" =>
           conn[c].server \in Procs /\ Receives(conn[c], published[conn[c].server])
  BY DEF StreamInv
<1>2. CASE UNCHANGED gatewayVars
  <2>1. conn' = conn /\ recent' = recent /\ published' = published
    BY <1>2 DEF gatewayVars
  <2>2. QED
    BY <1>1, <2>1, OtherConnections
<1>3. ASSUME NEW p \in Procs, Dropped(p) PROVE StreamInv'
  <2>1. /\ conn' = [c \in Clients |-> IF conn[c].server = p THEN NoConn ELSE conn[c]]
        /\ recent' = [recent EXCEPT ![p] = <<>>] /\ published' = [published EXCEPT ![p] = 0]
    BY <1>3 DEF Dropped
  <2>2. conn' \in [Clients -> ConnRecord] /\ recent' \in [Procs -> Seq(Nat)] /\ published' \in [Procs -> Nat]
    BY <1>1, <2>1, NoConnType, FreshStart
  <2>3. \A q \in Procs : Fresh(recent'[q], published'[q])
    BY <1>1, <2>1, FreshStart
  <2>4. \A c \in Clients : conn'[c].at = "listening" => conn'[c] = conn[c] /\ conn[c].server # p
    BY <2>1, NoConnType
  <2>5. \A c \in Clients : conn'[c].at = "listening" =>
          conn'[c].server \in Procs /\ Receives(conn'[c], published'[conn'[c].server])
    BY <1>1, <2>1, <2>4
  <2>6. QED
    BY <2>2, <2>3, <2>5, NextStream
<1>4. ASSUME NEW p \in Procs, Publish(p) PROVE StreamInv'
  <2> DEFINE last == published[p]
             Next_(r) == [r EXCEPT !.got = @ \o Matching(<<last + 1>>, r.filter)]
  <2>1. /\ published' = [published EXCEPT ![p] = last + 1]
        /\ recent' = [recent EXCEPT ![p] = Kept(Append(recent[p], last + 1))]
        /\ conn' = [c \in Clients |-> IF c \in Listeners(p) THEN Next_(conn[c]) ELSE conn[c]]
    BY <1>4 DEF Publish
  <2>2. last \in Nat /\ last + 1 \in Nat /\ Fresh(recent[p], last)
    BY <1>1
  <2> HIDE DEF last
  <2>3. Fresh(Kept(Append(recent[p], last + 1)), last + 1)
    BY <2>2, KeptFresh
  <2>4. Kept(Append(recent[p], last + 1)) \in Seq(Nat)
    BY <2>2, <2>3, FreshIs
  <2>5. recent' \in [Procs -> Seq(Nat)] /\ published' \in [Procs -> Nat]
    BY <1>1, <2>1, <2>2, <2>4
  <2>6. \A q \in Procs : Fresh(recent'[q], published'[q])
    BY <1>1, <2>1, <2>3
  <2>7. ASSUME NEW c \in Listeners(p)
        PROVE  /\ Next_(conn[c]) \in ConnRecord /\ Next_(conn[c]).server = p
               /\ Receives(Next_(conn[c]), last + 1)
    <3>1. c \in Clients /\ conn[c].server = p /\ conn[c].at = "listening" /\ conn[c] \in ConnRecord
      BY <1>1 DEF Listeners
    <3>2. Receives(conn[c], last)
      BY <1>1, <3>1 DEF last
    <3>3. QED
      BY <2>2, <3>1, <3>2, PublishReceives
  <2> HIDE DEF Next_
  <2>8. conn' \in [Clients -> ConnRecord]
    BY <1>1, <2>1, <2>7
  <2>9. ASSUME NEW c \in Clients, conn'[c].at = "listening"
        PROVE  conn'[c].server \in Procs /\ Receives(conn'[c], published'[conn'[c].server])
    <3>1. CASE c \in Listeners(p)
      <4>1. conn'[c] = Next_(conn[c]) /\ published'[p] = last + 1
        BY <1>1, <2>1, <3>1
      <4>2. QED
        BY <2>7, <3>1, <4>1
    <3>2. CASE c \notin Listeners(p)
      <4>1. conn'[c] = conn[c]
        BY <2>1, <3>2
      <4>2. conn[c].server # p /\ conn[c].server \in Procs
        BY <1>1, <2>9, <3>2, <4>1 DEF Listeners
      <4>3. published'[conn[c].server] = published[conn[c].server]
        BY <1>1, <2>1, <4>2
      <4>4. QED
        BY <1>1, <2>9, <4>1, <4>2, <4>3
    <3>3. QED
      BY <3>1, <3>2
  <2>10. QED
    BY <2>5, <2>6, <2>8, <2>9, NextStream
<1>5. ASSUME NEW p \in Procs, NEW c \in Clients, Subscribe(c, p) PROVE StreamInv'
  <2>1. /\ conn'[c] \in ConnRecord /\ conn'[c].server = p /\ Receives(conn'[c], published[p])
        /\ \A d \in Clients \ {c} : conn'[d] = conn[d]
    BY <1>5, SubscribeReceives
  <2>2. recent' = recent /\ published' = published /\ \E r : conn' = [conn EXCEPT ![c] = r]
    BY <1>5 DEF Subscribe
  <2>3. conn' \in [Clients -> ConnRecord]
    BY <1>1, <2>1, <2>2
  <2>4. \A d \in Clients : conn'[d].at = "listening" =>
          conn'[d].server \in Procs /\ Receives(conn'[d], published'[conn'[d].server])
    BY <1>1, <2>1, <2>2
  <2>5. QED
    BY <1>1, <2>2, <2>3, <2>4, NextStream
<1>6. QED
  BY <1>2, <1>3, <1>4, <1>5, RequestSteps, GatewayMoves

\* An event stream has, of the types it asked for, the last events before it
\* subscribed and every event since, in their order and once each, for any
\* numbers of clients, servers and events and any limits.
THEOREM StreamsAreContiguous == DaemonSpec => []StreamContiguous
<1>1. StreamInv => StreamContiguous
  BY DEF StreamInv, Receives, StreamContiguous
<1>2. QED
  BY <1>1, PidInit, PidStep, StreamStart, StreamStep, PTL DEF DaemonSpec

\* The rest of the state.
RestTypeOK ==
  /\ port \in Procs \cup {NoProc}
  /\ caught \in [Procs -> SUBSET (Signals \cup {"SIGTERM"})]
  /\ alien \subseteq Reusable

\* A process ends, or a signal reaches it.
LEMMA EndRest ==
  ASSUME RestTypeOK, NEW q, NEW next, End(q, next)
  PROVE  port' \in Procs \cup {NoProc} /\ caught' \in [Procs -> SUBSET (Signals \cup {"SIGTERM"})]
BY DEF RestTypeOK, End

LEMMA DeliversRest ==
  ASSUME RestTypeOK, NEW q \in Procs, NEW signal \in Signals \cup {"SIGTERM"}, NEW next, Delivers(q, signal, next)
  PROVE  port' \in Procs \cup {NoProc} /\ caught' \in [Procs -> SUBSET (Signals \cup {"SIGTERM"})]
<1>1. CASE End(q, next)
  BY <1>1, EndRest
<1>2. CASE caught' = [caught EXCEPT ![q] = @ \cup {signal}] /\ port' = port
  BY <1>2 DEF RestTypeOK
<1>3. QED
  BY <1>1, <1>2 DEF Delivers

LEMMA RestStep == PidInv /\ RestTypeOK /\ [DaemonNext]_vars => RestTypeOK'
<1> SUFFICES ASSUME PidInv, RestTypeOK, [DaemonNext]_vars PROVE RestTypeOK'
  OBVIOUS
<1> DEFINE Same == UNCHANGED <<port, caught>>
           Good == port' \in Procs \cup {NoProc} /\ caught' \in [Procs -> SUBSET (Signals \cup {"SIGTERM"})]
<1>1. Same => Good
  BY DEF RestTypeOK
<1>2. \A p \in Procs : \A to : Moves(p, to) => Same
  BY DEF Moves
<1>3. \A p \in Procs : Ends(p) => Good
  BY EndRest DEF Ends
<1>4. \A p \in Procs : \A running : Returns(p, running) => Good
  BY <1>1, <1>2, <1>3 DEF Returns
<1>5. \A p \in Procs : \A to : Reads(p, to) => Same
  BY DEF Reads
<1>6. UNCHANGED vars => Same
  BY DEF vars, daemonVars
<1>7. ASSUME NEW p \in Procs, StopStep(p) PROVE Good
  <2>1. CASE port' = NoProc /\ UNCHANGED caught
    BY <2>1 DEF RestTypeOK
  <2> HIDE DEF Good
  <2>2. QED
    BY <1>1, <1>2, <1>4, <1>5, <1>7, <2>1 DEF StopStep, ReadRecord, Probe, UnlinkStale, Closed, RemoveRecord
<1>8. ASSUME NEW p \in Procs, StartStep(p) PROVE Good
  <2>1. CASE port' \in {NoProc, p} /\ UNCHANGED caught
    BY <2>1 DEF RestTypeOK
  <2> HIDE DEF Good
  <2>2. QED
    BY <1>1, <1>2, <1>3, <1>5, <1>8, <2>1
    DEF StartStep, Check, CheckProbe, CheckUnlink, CheckAgain, InitEngine, Listen, WriteRecord, Undo
<1>9. ASSUME NEW p \in Procs, Launch(p) \/ Exit(p) \/ Reuse(p) PROVE Good
  <2> HIDE DEF Good
  <2>1. QED
    BY <1>1, <1>2, <1>3, <1>9 DEF Launch, Exit, Reuse
<1>10. ASSUME NEW p \in Procs, Signal(p) PROVE Good
  <2>1. seen[p] \in Procs
    BY <1>10, GatewayAssumption DEF Signal, PidInv, PidTypeOK, RecordsSeen, At
  <2> HIDE DEF Good
  <2>2. QED
    BY <1>1, <1>2, <1>10, <2>1, DeliversRest DEF Signal, Good
<1>11. ASSUME NEW p \in Procs, NEW signal \in Signals, Interrupt(p, signal) PROVE Good
  BY <1>11, DeliversRest DEF Interrupt
<1>12. ASSUME NEW c \in Clients, Break(c) PROVE Good
  BY <1>3, <1>12 DEF Break, Idle
<1>13. Good
  <2> HIDE DEF Good
  <2>1. QED
    BY <1>1, <1>6, <1>7, <1>8, <1>9, <1>10, <1>11, <1>12 DEF DaemonNext, Work, Arrive, Handle, daemonVars
<1>14. alien' \subseteq Reusable
  BY DEF RestTypeOK, DaemonNext, vars, daemonVars, Work, StopStep, StartStep, Leaves, Reads, Launch, ReadRecord,
         Probe, UnlinkStale, Closed, RemoveRecord, Check, CheckProbe, CheckUnlink, CheckAgain, InitEngine, Listen,
         WriteRecord, Undo, Signal, Exit, Reuse, Interrupt, Arrive, Handle, Break
<1>15. QED
  BY <1>13, <1>14 DEF RestTypeOK

\* Every variable keeps its type: records name processes, streams receive
\* numbered events, and a bus never keeps more than maxRecentEvents of them.
THEOREM DaemonTypeCorrect == DaemonSpec => []DaemonTypeOK
<1>1. DaemonInit => RestTypeOK
  BY DEF DaemonInit, RestTypeOK
<1>2. ASSUME PidInv, StreamInv, RestTypeOK PROVE DaemonTypeOK
  <2>1. \A p \in Procs : Len(recent[p]) <= MaxRecent
    BY <1>2, FreshIs DEF StreamInv
  <2>2. ConnTypeOK
    BY <1>2, <2>1 DEF ConnTypeOK, StreamInv, ConnRecord
  <2>3. QED
    BY <1>2, <2>2 DEF DaemonTypeOK, PidInv, PidTypeOK, RestTypeOK
<1>3. QED
  BY <1>1, <1>2, PidInit, PidStep, StreamStart, StreamStep, RestStep, PTL DEF DaemonSpec
=============================================================================
