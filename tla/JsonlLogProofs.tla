--------------------------- MODULE JsonlLogProofs ---------------------------
(***************************************************************************)
(* Mutual exclusion of the file lock, and of the rotation and append under *)
(* it, for any number of processes, any number of retries and any stale    *)
(* age, provided that nothing leaves a lock file behind: no process dies,  *)
(* no error escapes between open and release, and no holder is slower than *)
(* the stale age.  FileLockStale.cfg shows that the first one is needed.   *)
(*                                                                         *)
(* And what the log contains, for any number and size of files, whichever  *)
(* system calls fail and whoever dies, as long as the lock excludes.       *)
(***************************************************************************)
EXTENDS JsonlLog, SequenceTheorems, WellFoundedInduction, TLAPS

\* The variables of the lock keep their types.
LEMMA LockTypeCorrect == LockSpec => []LockTypeOK
<1> USE LockAssumption
<1>1. LockInit => LockTypeOK
  BY DEF LockInit, LockTypeOK, Where
<1>2. LockTypeOK /\ [LockNext]_lockVars => LockTypeOK'
  <2> SUFFICES ASSUME LockTypeOK, [LockNext]_lockVars PROVE LockTypeOK'
    OBVIOUS
  <2> USE DEF LockTypeOK, Where, Goto
  <2>1. CASE Tick
    BY <2>1 DEF Tick
  <2>2. ASSUME NEW p \in Procs, Enter(p) PROVE LockTypeOK'
    BY <2>2 DEF Enter
  <2>3. ASSUME NEW p \in Procs, Open(p) PROVE LockTypeOK'
    BY <2>3 DEF Open
  <2>4. ASSUME NEW p \in Procs, Stat(p) PROVE LockTypeOK'
    BY <2>4 DEF Stat, Retry
  <2>5. ASSUME NEW p \in Procs, Unlink(p) PROVE LockTypeOK'
    BY <2>5 DEF Unlink, Retry
  <2>6. ASSUME NEW p \in Procs, Release(p) PROVE LockTypeOK'
    BY <2>6 DEF Release
  <2>7. ASSUME NEW p \in Procs, Crash(p) PROVE LockTypeOK'
    BY <2>7 DEF Crash
  <2>8. CASE UNCHANGED lockVars
    BY <2>8 DEF lockVars
  <2>9. QED
    BY <2>1, <2>2, <2>3, <2>4, <2>5, <2>6, <2>7, <2>8 DEF LockNext, Acquire
<1>3. QED
  BY <1>1, <1>2, PTL DEF LockSpec

\* A step keeps the lock file in the hands of its holder: it is young, so that
\* nobody unlinks it, and it exists, so that nobody else creates it.
LEMMA OwnershipStep ==
  ASSUME Mortal = {}, Leaks = FALSE, Prompt = TRUE,
         LockTypeOK, Ownership, [LockNext]_lockVars
  PROVE  Ownership'
<1> USE LockAssumption
<1> USE DEF LockTypeOK, Ownership, Goto
<1>1. CASE Tick
  BY <1>1 DEF Tick, Where
<1>2. ASSUME NEW p \in Procs, Enter(p) PROVE Ownership'
  BY <1>2 DEF Enter
<1>3. ASSUME NEW p \in Procs, Open(p) PROVE Ownership'
  <2>1. CASE lock = NoLock
    <3>1. /\ lock' = [owner |-> p, at |-> clock] /\ clock' = clock
          /\ pc' = [pc EXCEPT ![p] = "held"]
      BY <1>3, <2>1 DEF Open
    <3>2. \A q \in Procs : pc[q] # "held"
      BY <2>1
    <3>3. lock' # NoLock
      BY <3>1
    <3>4. QED
      BY <3>1, <3>2, <3>3
  <2>2. CASE lock # NoLock
    BY <1>3, <2>2 DEF Open
  <2>3. QED
    BY <2>1, <2>2
<1>4. ASSUME NEW p \in Procs, Stat(p) PROVE Ownership'
  <2>1. ~(lock # NoLock /\ clock - lock.at > Stale)
    OBVIOUS
  <2>2. QED
    BY <1>4, <2>1 DEF Stat, Retry
<1>5. ASSUME NEW p \in Procs, Unlink(p) PROVE Ownership'
  BY <1>5 DEF Unlink
<1>6. ASSUME NEW p \in Procs, Release(p) PROVE Ownership'
  BY <1>6 DEF Release
<1>7. ASSUME NEW p \in Procs, Crash(p) PROVE Ownership'
  BY <1>7 DEF Crash
<1>8. CASE UNCHANGED lockVars
  BY <1>8 DEF lockVars
<1>9. QED
  BY <1>1, <1>2, <1>3, <1>4, <1>5, <1>6, <1>7, <1>8 DEF LockNext, Acquire

\* withFileLock excludes: at most one process is between the creation of the
\* lock file and its release.
THEOREM LockExcludes ==
  ASSUME Mortal = {}, Leaks = FALSE, Prompt = TRUE
  PROVE  LockSpec => []MutualExclusion
<1>1. LockInit => Ownership
  BY DEF LockInit, Ownership
<1>2. LockTypeOK /\ Ownership /\ [LockNext]_lockVars => Ownership'
  BY OwnershipStep
<1>3. Ownership => MutualExclusion
  BY DEF Ownership, MutualExclusion
<1>4. QED
  BY <1>1, <1>2, <1>3, LockTypeCorrect, PTL DEF LockSpec

\* The log uses the lock as it is: each of its steps is a step of the lock or
\* leaves it alone.
LEMMA LogUsesLock == LogSpec => LockSpec
<1>1. LogInit => LockInit
  BY DEF LogInit
<1>2. [LogNext]_vars => [LockNext]_lockVars
  <2> SUFFICES ASSUME [LogNext]_vars PROVE [LockNext]_lockVars
    OBVIOUS
  <2>1. CASE Tick /\ UNCHANGED logVars
    BY <2>1 DEF LockNext
  <2>2. ASSUME NEW p \in Procs, Ask(p) PROVE [LockNext]_lockVars
    BY <2>2 DEF Ask, LockNext
  <2>3. ASSUME NEW p \in Procs, Work(p) PROVE [LockNext]_lockVars
    <3>1. CASE Acquire(p) /\ UNCHANGED logVars
      BY <3>1 DEF LockNext
    <3>2. CASE Check(p) \/ Rotate(p) \/ AppendLine(p) \/ Fail(p)
      <4>1. UNCHANGED lockVars
        BY <3>2 DEF Check, Rotate, AppendLine, Fail
      <4>2. QED
        BY <4>1
    <3>3. CASE Done(p)
      BY <3>3 DEF Done, LockNext
    <3>4. QED
      BY <2>3, <3>1, <3>2, <3>3 DEF Work
  <2>4. ASSUME NEW p \in Procs, Die(p) PROVE [LockNext]_lockVars
    BY <2>4 DEF Die, LockNext
  <2>5. CASE UNCHANGED vars
    BY <2>5 DEF vars
  <2>6. QED
    BY <2>1, <2>2, <2>3, <2>4, <2>5 DEF LogNext
<1>3. QED
  BY <1>1, <1>2, PTL DEF LogSpec, LockSpec

\* Rotations and appends of different processes never interleave, whichever of
\* their system calls fail.
THEOREM LogExcludes ==
  ASSUME Mortal = {}, Leaks = FALSE, Prompt = TRUE
  PROVE  LogSpec => []MutualExclusion
BY LogUsesLock, LockExcludes

-----------------------------------------------------------------------------

Below == {pair \in Nat \X Nat : pair[1] < pair[2]}

\* A set of natural numbers has a least element.
LEMMA LeastNatural ==
  ASSUME NEW S \in SUBSET Nat, S # {}
  PROVE  \E n \in S : \A m \in S : n <= m
<1>1. IsWellFoundedOn(Below, Nat)
  BY NatLessThanWellFounded DEF OpToRel, Below
<1>2. PICK n \in S : \A m \in S : ~(<<m, n>> \in Below)
  BY <1>1, WFMin
<1>3. ASSUME NEW m \in S PROVE n <= m
  <2>1. ~(m < n)
    BY <1>2 DEF Below
  <2>2. m \in Nat /\ n \in Nat
    OBVIOUS
  <2>3. QED
    BY <2>1, <2>2
<1>4. QED
  BY <1>3

\* Induction over an interval, for the numbers of a set.
LEMMA IntervalInduction ==
  ASSUME NEW k \in Nat, NEW m \in Nat, NEW S, k \in S, \A n \in k .. m - 1 : n \in S => n + 1 \in S
  PROVE  \A n \in k .. m : n \in S
<1> DEFINE T == {n \in k .. m : n \notin S}
<1> SUFFICES ASSUME T # {} PROVE FALSE
  OBVIOUS
<1>1. T \in SUBSET Nat
  OBVIOUS
<1>2. PICK least \in T : \A n \in T : least <= n
  BY <1>1, LeastNatural
<1>3. least - 1 \in k .. m - 1 /\ least - 1 \notin T
  BY <1>2
<1>4. least - 1 \in S /\ least = (least - 1) + 1
  BY <1>3
<1>5. QED
  BY <1>3, <1>4

\* The files, joined: the active one, behind all that are older.
LEMMA UptoDef ==
  ASSUME NEW fs
  PROVE  /\ Upto(fs)[0] = fs[0]
         /\ \A i \in 1..MaxFiles : Upto(fs)[i] = fs[i] \o Upto(fs)[i - 1]
<1> DEFINE Joins(g, n) == \A i \in 0..n : g[i] = IF i = 0 THEN fs[0] ELSE fs[i] \o g[i - 1]
           Joined == {n \in Nat : \E g : Joins(g, n)}
<1>1. MaxFiles \in Nat
  BY LogAssumption
<1>2. 0 \in Joined
  <2>1. Joins([i \in 0..0 |-> fs[0]], 0)
    OBVIOUS
  <2>2. QED
    BY <2>1
<1>3. ASSUME NEW n \in 0 .. MaxFiles - 1, n \in Joined PROVE n + 1 \in Joined
  <2>1. PICK g : Joins(g, n)
    BY <1>3
  <2> DEFINE h == [i \in 0 .. n + 1 |-> IF i = n + 1 THEN fs[n + 1] \o g[n] ELSE g[i]]
  <2>2. n \in Nat /\ \A i \in 0 .. n + 1 : i \in 0..n \/ i = n + 1
    BY <1>1
  <2>3. (\A i \in 0..n : h[i] = g[i]) /\ h[n + 1] = fs[n + 1] \o g[n] /\ (n + 1) - 1 = n /\ n + 1 # 0
    BY <2>2
  <2>4. \A i \in 0..n : i # 0 => i - 1 \in 0..n
    BY <2>2
  <2> HIDE DEF h
  <2>5. \A i \in 0..n : h[i] = IF i = 0 THEN fs[0] ELSE fs[i] \o h[i - 1]
    BY <2>1, <2>3, <2>4
  <2>6. h[n + 1] = fs[n + 1] \o h[n]
    <3>1. h[n] = g[n]
      BY <2>2, <2>3
    <3>2. QED
      BY <2>3, <3>1
  <2>7. Joins(h, n + 1)
    BY <2>2, <2>3, <2>5, <2>6
  <2>8. QED
    BY <2>2, <2>7
<1>4. MaxFiles \in Joined
  <2> HIDE DEF Joined
  <2>1. QED
    BY <1>1, <1>2, <1>3, IntervalInduction
<1>5. \E f : f = [i \in 0..MaxFiles |-> IF i = 0 THEN fs[0] ELSE fs[i] \o f[i - 1]]
  <2>1. PICK g : Joins(g, MaxFiles)
    BY <1>4
  <2> DEFINE f == [i \in 0..MaxFiles |-> g[i]]
  <2>2. \A i \in 0..MaxFiles : i # 0 => i - 1 \in 0..MaxFiles
    BY <1>1
  <2>3. f = [i \in 0..MaxFiles |-> IF i = 0 THEN fs[0] ELSE fs[i] \o f[i - 1]]
    BY <2>1, <2>2
  <2>4. QED
    BY <2>3
<1>6. Upto(fs) = [i \in 0..MaxFiles |-> IF i = 0 THEN fs[0] ELSE fs[i] \o Upto(fs)[i - 1]]
  BY <1>5 DEF Upto
<1>7. QED
  BY <1>1, <1>6

\* What the joined files are: sequences of lines.
LEMMA UptoType ==
  ASSUME NEW S, NEW fs \in [0..MaxFiles -> Seq(S)]
  PROVE  \A i \in 0..MaxFiles : Upto(fs)[i] \in Seq(S)
<1> DEFINE Good == {n \in 0..MaxFiles : Upto(fs)[n] \in Seq(S)}
<1>1. MaxFiles \in Nat
  BY LogAssumption
<1>2. 0 \in Good
  <2>1. Upto(fs)[0] = fs[0]
    BY UptoDef
  <2>2. QED
    BY <1>1, <2>1
<1>3. ASSUME NEW n \in 0 .. MaxFiles - 1, n \in Good PROVE n + 1 \in Good
  <2>1. n + 1 \in 1..MaxFiles /\ (n + 1) - 1 = n /\ n + 1 \in 0..MaxFiles
    BY <1>1
  <2>2. Upto(fs)[n + 1] = fs[n + 1] \o Upto(fs)[n]
    BY <2>1, UptoDef
  <2>3. fs[n + 1] \in Seq(S) /\ Upto(fs)[n] \in Seq(S)
    BY <1>3, <2>1
  <2>4. Upto(fs)[n + 1] \in Seq(S)
    BY <2>2, <2>3, ConcatProperties
  <2>5. QED
    BY <2>1, <2>4
<1>4. \A i \in 0..MaxFiles : i \in Good
  <2> HIDE DEF Good
  <2>1. QED
    BY <1>1, <1>2, <1>3, IntervalInduction
<1>5. QED
  BY <1>4

\* The files up to a slot depend on nothing behind it.
LEMMA UptoSame ==
  ASSUME NEW fs, NEW gs, NEW k \in 0..MaxFiles, \A i \in 0..k : fs[i] = gs[i]
  PROVE  Upto(fs)[k] = Upto(gs)[k]
<1> DEFINE Same == {n \in 0..k : Upto(fs)[n] = Upto(gs)[n]}
<1>1. MaxFiles \in Nat /\ k \in Nat /\ \A n \in 0..k : n \in 0..MaxFiles
  BY LogAssumption
<1>2. 0 \in Same
  <2>1. Upto(fs)[0] = fs[0] /\ Upto(gs)[0] = gs[0]
    BY UptoDef
  <2>2. QED
    BY <1>1, <2>1
<1>3. ASSUME NEW n \in 0 .. k - 1, n \in Same PROVE n + 1 \in Same
  <2>1. n + 1 \in 1..MaxFiles /\ (n + 1) - 1 = n /\ n + 1 \in 0..k
    BY <1>1
  <2>2. Upto(fs)[n + 1] = fs[n + 1] \o Upto(fs)[n] /\ Upto(gs)[n + 1] = gs[n + 1] \o Upto(gs)[n]
    BY <2>1, UptoDef
  <2>3. QED
    BY <1>3, <2>1, <2>2
<1>4. \A i \in 0..k : i \in Same
  <2> HIDE DEF Same
  <2>1. QED
    BY <1>1, <1>2, <1>3, IntervalInduction
<1>5. QED
  BY <1>1, <1>4

\* And two logs that agree from some slot on, and when joined up to there,
\* are the same log.
LEMMA UptoSameAbove ==
  ASSUME NEW fs, NEW gs, NEW k \in 0..MaxFiles, Upto(fs)[k] = Upto(gs)[k],
         \A i \in k + 1 .. MaxFiles : fs[i] = gs[i]
  PROVE  Upto(fs)[MaxFiles] = Upto(gs)[MaxFiles]
<1> DEFINE Same == {n \in k..MaxFiles : Upto(fs)[n] = Upto(gs)[n]}
<1>1. MaxFiles \in Nat /\ k \in Nat /\ MaxFiles \in k..MaxFiles
  BY LogAssumption
<1>2. k \in Same
  BY <1>1
<1>3. ASSUME NEW n \in k .. MaxFiles - 1, n \in Same PROVE n + 1 \in Same
  <2>1. /\ n + 1 \in 1..MaxFiles /\ (n + 1) - 1 = n
        /\ n + 1 \in k..MaxFiles /\ n + 1 \in k + 1 .. MaxFiles
    BY <1>1
  <2>2. Upto(fs)[n + 1] = fs[n + 1] \o Upto(fs)[n] /\ Upto(gs)[n + 1] = gs[n + 1] \o Upto(gs)[n]
    BY <2>1, UptoDef
  <2>3. QED
    BY <1>3, <2>1, <2>2
<1>4. \A i \in k..MaxFiles : i \in Same
  <2> HIDE DEF Same
  <2>1. QED
    BY <1>1, <1>2, <1>3, IntervalInduction
<1>5. QED
  BY <1>1, <1>4

\* The active file ends the log: when it alone changes, all that is before it
\* stays.
LEMMA UptoActive ==
  ASSUME NEW S, NEW fs \in [0..MaxFiles -> Seq(S)], NEW gs \in [0..MaxFiles -> Seq(S)],
         \A i \in 1..MaxFiles : fs[i] = gs[i]
  PROVE  \E old \in Seq(S) : /\ Upto(fs)[MaxFiles] = old \o fs[0]
                             /\ Upto(gs)[MaxFiles] = old \o gs[0]
<1> DEFINE Behind == {n \in 0..MaxFiles : \E old \in Seq(S) : /\ Upto(fs)[n] = old \o fs[0]
                                                              /\ Upto(gs)[n] = old \o gs[0]}
<1>1. MaxFiles \in Nat /\ MaxFiles \in 0..MaxFiles /\ 0 \in 0..MaxFiles
  BY LogAssumption
<1>2. fs[0] \in Seq(S) /\ gs[0] \in Seq(S)
  BY <1>1
<1>3. 0 \in Behind
  <2>1. <<>> \in Seq(S) /\ fs[0] = <<>> \o fs[0] /\ gs[0] = <<>> \o gs[0]
    BY <1>2, ConcatEmptySeq, EmptySeq
  <2>2. Upto(fs)[0] = fs[0] /\ Upto(gs)[0] = gs[0]
    BY UptoDef
  <2>3. QED
    BY <1>1, <2>1, <2>2
<1>4. ASSUME NEW n \in 0 .. MaxFiles - 1, n \in Behind PROVE n + 1 \in Behind
  <2>1. n + 1 \in 1..MaxFiles /\ (n + 1) - 1 = n /\ n + 1 \in 0..MaxFiles
    BY <1>1
  <2>2. PICK old \in Seq(S) : Upto(fs)[n] = old \o fs[0] /\ Upto(gs)[n] = old \o gs[0]
    BY <1>4
  <2>3. Upto(fs)[n + 1] = fs[n + 1] \o (old \o fs[0])
    BY <2>1, <2>2, UptoDef
  <2>4. Upto(gs)[n + 1] = fs[n + 1] \o (old \o gs[0])
    BY <2>1, <2>2, UptoDef
  <2>5. fs[n + 1] \in Seq(S)
    BY <2>1
  <2>6. /\ fs[n + 1] \o old \in Seq(S)
        /\ fs[n + 1] \o (old \o fs[0]) = (fs[n + 1] \o old) \o fs[0]
        /\ fs[n + 1] \o (old \o gs[0]) = (fs[n + 1] \o old) \o gs[0]
    <3>1. fs[n + 1] \o old \in Seq(S)
      BY <2>2, <2>5, ConcatProperties
    <3>2. PICK file \in Seq(S) : file = fs[n + 1]
      BY <2>5
    <3>3. PICK f0 \in Seq(S), g0 \in Seq(S) : f0 = fs[0] /\ g0 = gs[0]
      BY <1>2
    <3>4. (file \o old) \o f0 = file \o (old \o f0)
      BY ConcatAssociative, SMTT(60)
    <3>5. (file \o old) \o g0 = file \o (old \o g0)
      BY ConcatAssociative, SMTT(60)
    <3>6. QED
      BY <3>1, <3>2, <3>3, <3>4, <3>5
  <2>7. \E joined \in Seq(S) : Upto(fs)[n + 1] = joined \o fs[0] /\ Upto(gs)[n + 1] = joined \o gs[0]
    BY <2>3, <2>4, <2>6
  <2>8. QED
    BY <2>1, <2>7
<1>5. \A i \in 0..MaxFiles : i \in Behind
  <2> HIDE DEF Behind
  <2>1. QED
    BY <1>1, <1>3, <1>4, IntervalInduction
<1>6. QED
  BY <1>1, <1>5

\* A rename into a free slot moves nothing in the log.
LEMMA UptoMoved ==
  ASSUME NEW S, NEW fs \in [0..MaxFiles -> Seq(S)], NEW k \in 0 .. MaxFiles - 1, fs[k + 1] = <<>>
  PROVE  Upto([fs EXCEPT ![k] = <<>>, ![k + 1] = fs[k]])[MaxFiles] = Upto(fs)[MaxFiles]
<1> DEFINE gs == [fs EXCEPT ![k] = <<>>, ![k + 1] = fs[k]]
<1>1. MaxFiles \in Nat /\ k \in Nat /\ k \in 0..MaxFiles /\ k + 1 \in 1..MaxFiles
      /\ k + 1 \in 0..MaxFiles /\ (k + 1) - 1 = k
  BY LogAssumption
<1>2. gs[k] = <<>> /\ gs[k + 1] = fs[k] /\ \A i \in 0..MaxFiles : i # k /\ i # k + 1 => gs[i] = fs[i]
  BY <1>1
<1>3. \A i \in 0..MaxFiles : Upto(fs)[i] \in Seq(S)
  BY UptoType
<1> HIDE DEF gs
<1>4. Upto(fs)[k] = fs[k] \o Upto(gs)[k]
  <2>1. CASE k = 0
    <3>1. Upto(fs)[0] = fs[0] /\ Upto(gs)[0] = gs[0]
      BY UptoDef
    <3>2. fs[0] \o <<>> = fs[0]
      BY <1>1, ConcatEmptySeq
    <3>3. QED
      BY <1>2, <2>1, <3>1, <3>2
  <2>2. CASE k # 0
    <3>1. k \in 1..MaxFiles /\ k - 1 \in 0..MaxFiles /\ \A i \in 0 .. k - 1 : i \in 0..MaxFiles /\ i # k /\ i # k + 1
      BY <1>1, <2>2
    <3>2. Upto(gs)[k - 1] = Upto(fs)[k - 1]
      <4>1. \A i \in 0 .. k - 1 : gs[i] = fs[i]
        BY <1>2, <3>1
      <4>2. k - 1 \in 0..MaxFiles
        BY <3>1
      <4>3. QED
        BY <4>1, <4>2, UptoSame
    <3>3. Upto(gs)[k] = <<>> \o Upto(fs)[k - 1] /\ Upto(fs)[k] = fs[k] \o Upto(fs)[k - 1]
      <4>1. Upto(gs)[k] = gs[k] \o Upto(gs)[k - 1]
        BY <3>1, UptoDef
      <4>2. Upto(fs)[k] = fs[k] \o Upto(fs)[k - 1]
        BY <3>1, UptoDef
      <4>3. QED
        BY <1>2, <3>2, <4>1, <4>2
    <3>4. <<>> \o Upto(fs)[k - 1] = Upto(fs)[k - 1]
      BY <1>3, <3>1, ConcatEmptySeq
    <3>5. QED
      BY <3>3, <3>4
  <2>3. QED
    BY <2>1, <2>2
<1>5. Upto(fs)[k + 1] = Upto(gs)[k + 1]
  <2>1. Upto(fs)[k + 1] = <<>> \o Upto(fs)[k] /\ Upto(gs)[k + 1] = fs[k] \o Upto(gs)[k]
    BY <1>1, <1>2, UptoDef
  <2>2. <<>> \o Upto(fs)[k] = Upto(fs)[k]
    BY <1>1, <1>3, ConcatEmptySeq
  <2>3. QED
    BY <1>4, <2>1, <2>2
<1>6. \A i \in (k + 1) + 1 .. MaxFiles : fs[i] = gs[i]
  BY <1>1, <1>2
<1>7. Upto(fs)[MaxFiles] = Upto(gs)[MaxFiles]
  BY <1>1, <1>5, <1>6, UptoSameAbove
<1>8. QED
  BY <1>7 DEF gs

\* When the oldest file is deleted, the log loses its oldest lines.
LEMMA UptoDropped ==
  ASSUME NEW S, NEW fs \in [0..MaxFiles -> Seq(S)]
  PROVE  Upto(fs)[MaxFiles] = fs[MaxFiles] \o Upto([fs EXCEPT ![MaxFiles] = <<>>])[MaxFiles]
<1> DEFINE gs == [fs EXCEPT ![MaxFiles] = <<>>]
<1>1. /\ MaxFiles \in 1..MaxFiles /\ MaxFiles \in 0..MaxFiles /\ MaxFiles - 1 \in 0..MaxFiles
      /\ \A i \in 0 .. MaxFiles - 1 : i \in 0..MaxFiles /\ i # MaxFiles
  BY LogAssumption
<1>2. gs[MaxFiles] = <<>> /\ \A i \in 0 .. MaxFiles - 1 : gs[i] = fs[i]
  BY <1>1
<1>3. Upto(fs)[MaxFiles - 1] \in Seq(S)
  BY <1>1, UptoType
<1> HIDE DEF gs
<1>4. Upto(gs)[MaxFiles - 1] = Upto(fs)[MaxFiles - 1]
  BY <1>1, <1>2, UptoSame
<1>5. /\ Upto(fs)[MaxFiles] = fs[MaxFiles] \o Upto(fs)[MaxFiles - 1]
      /\ Upto(gs)[MaxFiles] = <<>> \o Upto(fs)[MaxFiles - 1]
  BY <1>1, <1>2, <1>4, UptoDef
<1>6. <<>> \o Upto(fs)[MaxFiles - 1] = Upto(fs)[MaxFiles - 1]
  BY <1>3, ConcatEmptySeq
<1>7. QED
  BY <1>5, <1>6 DEF gs

-----------------------------------------------------------------------------

\* What a process does with the log, it does under the lock.
UnderLock == \A p \in Procs : phase[p] # "none" => pc[p] = "held"

\* While a process rotates, the active file waits for its turn, and the slot
\* behind the one it looks at is free: it was deleted or moved before.
SlotIsFree ==
  \A p \in Procs : phase[p] = "rotating" =>
    files[0] # <<>> /\ (slot[p] < MaxFiles => files[slot[p] + 1] = <<>>)

\* As long as no rotation was interrupted, the rotated files have no gap but
\* the one that a rotation under way is moving forward.
Gap(i) == files[i] = <<>> /\ files[i + 1] # <<>>

NoGap ==
  ~broken =>
    /\ \A i \in 1 .. MaxFiles - 1 : Gap(i) => \E p \in Procs : phase[p] = "rotating" /\ slot[p] + 1 = i
    /\ \A p \in Procs : phase[p] = "rotating" /\ slot[p] + 2 <= MaxFiles =>
         (files[slot[p] + 2] # <<>> => files[slot[p]] # <<>>)

\* The events of the log come in the order of their numbers.
InOrder ==
  /\ \A i \in 1..Len(Lines) : Lines[i] \in -1..count
  /\ \A i, j \in 1..Len(Lines) : i < j /\ Lines[i] > 0 /\ Lines[j] > 0 => Lines[i] < Lines[j]

\* A step of a process, by what it does to the log.
LEMMA WorkCases ==
  ASSUME [LogNext]_vars
  PROVE  \/ UNCHANGED logVars
         \/ \E p \in Procs : Check(p) \/ Rotate(p) \/ AppendLine(p) \/ Fail(p) \/ Done(p) \/ Die(p)
<1>1. CASE UNCHANGED vars
  BY <1>1 DEF vars
<1>2. CASE LogNext
  BY <1>2 DEF LogNext, Work, Ask
<1>3. QED
  BY <1>1, <1>2

\* A sequence is its front and its last element.
LEMMA FrontAndLast ==
  ASSUME NEW S, NEW s \in Seq(S), s # <<>>
  PROVE  Front(s) \in Seq(S) /\ Last(s) \in S /\ s = Append(Front(s), Last(s))
<1>1. PICK t \in Seq(S), e \in S : s = Append(t, e)
  BY SequenceEmptyOrAppend
<1>2. /\ Len(s) = Len(t) + 1 /\ Len(t) \in Nat /\ s[Len(t) + 1] = e
      /\ \A i \in 1..Len(t) : s[i] = t[i] /\ t[i] \in S
  <2>1. Len(t) \in Nat /\ \A i \in 1..Len(t) : t[i] \in S
    BY LenProperties, ElementOfSeq
  <2>2. QED
    BY <1>1, <2>1, AppendProperties
<1>3. Front(s) = SubSeq(s, 1, Len(t)) /\ Last(s) = e
  BY <1>2 DEF Front, Last
<1>4. \A i \in 1..Len(t) : s[i] \in S
  BY <1>2
<1>5. /\ SubSeq(s, 1, Len(t)) \in Seq(S)
      /\ Len(SubSeq(s, 1, Len(t))) = Len(t)
      /\ \A i \in 1..Len(t) : SubSeq(s, 1, Len(t))[i] = s[i]
  <2>1. 1 \in Int /\ Len(t) \in Int
    BY <1>2
  <2>2. /\ SubSeq(s, 1, Len(t)) \in Seq(S)
        /\ Len(SubSeq(s, 1, Len(t))) = IF 1 <= Len(t) THEN Len(t) - 1 + 1 ELSE 0
        /\ \A i \in 1 .. Len(t) - 1 + 1 : SubSeq(s, 1, Len(t))[i] = s[1 + i - 1]
    BY <1>4, <2>1, SubSeqProperties
  <2>3. QED
    BY <1>2, <2>2
<1>6. SubSeq(s, 1, Len(t)) = t
  BY <1>2, <1>5, SeqEqual
<1>7. QED
  BY <1>1, <1>3, <1>6

\* What completes a torn line, and what is appended, are lines again.
LEMMA ActiveType ==
  ASSUME NEW n \in Nat, NEW file \in Seq(-1..n)
  PROVE  /\ \A e \in -1..n : Append(file, e) \in Seq(-1..n)
         /\ HasTornTail(file) => Front(file) \o <<Garbage>> \in Seq(-1..n)
<1>1. \A e \in -1..n : Append(file, e) \in Seq(-1..n)
  BY AppendProperties
<1>2. ASSUME file # <<>> PROVE Front(file) \o <<Garbage>> \in Seq(-1..n)
  <2>1. Front(file) \in Seq(-1..n)
    BY <1>2, FrontAndLast
  <2>2. <<Garbage>> \in Seq(-1..n)
    BY DEF Garbage
  <2>3. QED
    BY <2>1, <2>2, ConcatProperties
<1>3. QED
  BY <1>1, <1>2 DEF HasTornTail

\* The files keep their types, whatever fails, and whoever dies or breaks the
\* lock.
THEOREM LogTypeCorrect == LogSpec => []LogTypeOK
<1> USE LogAssumption
<1>1. LogInit => LogTypeOK
  BY EmptySeq DEF LogInit, LogTypeOK
<1>2. LogTypeOK /\ [LogNext]_vars => LogTypeOK'
  <2> SUFFICES ASSUME LogTypeOK, [LogNext]_vars PROVE LogTypeOK'
    OBVIOUS
  <2>1. CASE UNCHANGED logVars
    BY <2>1 DEF LogTypeOK, logVars
  <2>2. files \in [0..MaxFiles -> Seq(-1..MaxEvents)]
    BY DEF LogTypeOK
  <2>3. 0 \in 0..MaxFiles /\ files[0] \in Seq(-1..MaxEvents)
    BY <2>2
  <2>4. Torn \in -1..MaxEvents
    BY DEF Torn
  <2>5. Append(files[0], Torn) \in Seq(-1..MaxEvents)
    BY <2>3, <2>4, ActiveType
  <2>6. ASSUME NEW p \in Procs, Check(p) PROVE LogTypeOK'
    <3>1. slot' \in [Procs -> 0..MaxFiles]
      <4>1. slot' = [slot EXCEPT ![p] = MaxFiles] \/ slot' = slot
        BY <2>6 DEF Check
      <4>2. MaxFiles \in 0..MaxFiles
        OBVIOUS
      <4>3. QED
        BY <4>1, <4>2 DEF LogTypeOK
    <3>2. phase' \in [Procs -> {"none", "rotating", "appending", "done"}]
      BY <2>6 DEF Check, LogTypeOK
    <3>3. UNCHANGED <<files, count, acked, merged, broken>>
      BY <2>6 DEF Check
    <3>4. QED
      BY <3>1, <3>2, <3>3 DEF LogTypeOK
  <2>7. ASSUME NEW p \in Procs, Rotate(p) PROVE LogTypeOK'
    <3>1. slot[p] \in 0..MaxFiles /\ (slot[p] # 0 => slot[p] - 1 \in 0..MaxFiles)
      BY DEF LogTypeOK
    <3>2. files' \in [0..MaxFiles -> Seq(-1..MaxEvents)]
      <4>1. CASE files[slot[p]] = <<>>
        BY <2>2, <2>7, <4>1 DEF Rotate
      <4>2. CASE files[slot[p]] # <<>>
        <5>1. Shift(slot[p])
          BY <2>7, <4>2 DEF Rotate
        <5>2. files[slot[p]] \in Seq(-1..MaxEvents) /\ <<>> \in Seq(-1..MaxEvents)
          BY <2>2, <3>1, EmptySeq
        <5>3. QED
          BY <2>2, <3>1, <5>1, <5>2 DEF Shift
      <4>3. QED
        BY <4>1, <4>2
    <3>3. slot' \in [Procs -> 0..MaxFiles] /\ phase' \in [Procs -> {"none", "rotating", "appending", "done"}]
      BY <2>7, <3>1 DEF Rotate, LogTypeOK
    <3>4. QED
      BY <2>7, <3>2, <3>3 DEF Rotate, LogTypeOK
  <2>8. ASSUME NEW p \in Procs, AppendLine(p) PROVE LogTypeOK'
    <3>1. count' \in -1..MaxEvents /\ count' \in 0..MaxEvents /\ count' = count + 1
      BY <2>8 DEF AppendLine, LogTypeOK
    <3>2. files' \in [0..MaxFiles -> Seq(-1..MaxEvents)]
      <4>1. CASE HasTornTail(files[0])
        <5>1. Front(files[0]) \o <<Garbage>> \in Seq(-1..MaxEvents)
          BY <2>3, <4>1, ActiveType
        <5>2. QED
          BY <2>2, <2>8, <4>1, <5>1 DEF AppendLine
      <4>2. CASE ~HasTornTail(files[0])
        <5>1. Append(files[0], count') \in Seq(-1..MaxEvents)
          BY <2>3, <3>1, ActiveType
        <5>2. QED
          BY <2>2, <2>8, <4>2, <5>1 DEF AppendLine
      <4>3. QED
        BY <4>1, <4>2
    <3>3. acked' = acked \cup {count'} /\ (merged' = merged \cup {count'} \/ merged' = merged)
      BY <2>8 DEF AppendLine
    <3>4. acked' \subseteq 1..count' /\ merged' \subseteq acked'
      <4>1. count \in Nat /\ acked \subseteq 1..count /\ merged \subseteq acked
        BY DEF LogTypeOK
      <4>2. acked' \subseteq 1..count'
        BY <3>1, <3>3, <4>1
      <4>3. QED
        BY <3>3, <4>1, <4>2
    <3>5. QED
      BY <2>8, <3>1, <3>2, <3>4 DEF AppendLine, LogTypeOK
  <2>9. ASSUME NEW p \in Procs, Fail(p) PROVE LogTypeOK'
    <3>1. files' \in [0..MaxFiles -> Seq(-1..MaxEvents)]
      BY <2>2, <2>5, <2>9 DEF Fail
    <3>2. broken' \in BOOLEAN
      BY <2>9 DEF Fail, LogTypeOK
    <3>3. /\ slot' \in [Procs -> 0..MaxFiles]
          /\ phase' \in [Procs -> {"none", "rotating", "appending", "done"}]
      BY <2>9 DEF Fail, LogTypeOK
    <3>4. UNCHANGED <<count, acked, merged>>
      BY <2>9 DEF Fail
    <3>5. QED
      BY <3>1, <3>2, <3>3, <3>4 DEF LogTypeOK
  <2>10. ASSUME NEW p \in Procs, Done(p) PROVE LogTypeOK'
    BY <2>10 DEF Done, LogTypeOK
  <2>11. ASSUME NEW p \in Procs, Die(p) PROVE LogTypeOK'
    <3>1. files' \in [0..MaxFiles -> Seq(-1..MaxEvents)]
      BY <2>2, <2>5, <2>11 DEF Die
    <3>2. broken' \in BOOLEAN
      BY <2>11 DEF Die, LogTypeOK
    <3>3. /\ slot' \in [Procs -> 0..MaxFiles]
          /\ phase' \in [Procs -> {"none", "rotating", "appending", "done"}]
      BY <2>11 DEF Die, LogTypeOK
    <3>4. UNCHANGED <<count, acked, merged>>
      BY <2>11 DEF Die
    <3>5. QED
      BY <3>1, <3>2, <3>3, <3>4 DEF LogTypeOK
  <2>12. QED
    BY <2>1, <2>6, <2>7, <2>8, <2>9, <2>10, <2>11, WorkCases
<1>3. QED
  BY <1>1, <1>2, PTL DEF LogSpec

\* Work on the log stays under the lock.
LEMMA UnderLockStep ==
  ASSUME LockTypeOK, LogTypeOK, UnderLock, [LogNext]_vars
  PROVE  UnderLock'
<1> USE DEF UnderLock
<1>1. CASE Tick /\ UNCHANGED logVars
  BY <1>1 DEF Tick, logVars
<1>2. ASSUME NEW p \in Procs, Ask(p) PROVE UnderLock'
  BY <1>2 DEF Ask, Enter, Goto, logVars, LockTypeOK
<1>3. ASSUME NEW p \in Procs, Acquire(p), UNCHANGED logVars PROVE UnderLock'
  <2>1. pc[p] # "held" /\ \E where \in Where : pc' = [pc EXCEPT ![p] = where]
    BY <1>3 DEF Acquire, Open, Stat, Unlink, Retry, Goto, Where
  <2>2. QED
    BY <1>3, <2>1 DEF logVars, LockTypeOK
<1>4. ASSUME NEW p \in Procs, Check(p) PROVE UnderLock'
  BY <1>4 DEF Check, lockVars, LogTypeOK
<1>5. ASSUME NEW p \in Procs, Rotate(p) PROVE UnderLock'
  BY <1>5 DEF Rotate, lockVars, LogTypeOK
<1>6. ASSUME NEW p \in Procs, AppendLine(p) PROVE UnderLock'
  BY <1>6 DEF AppendLine, lockVars, LogTypeOK
<1>7. ASSUME NEW p \in Procs, Fail(p) PROVE UnderLock'
  BY <1>7 DEF Fail, lockVars, LogTypeOK
<1>8. ASSUME NEW p \in Procs, Done(p) PROVE UnderLock'
  BY <1>8 DEF Done, Release, Goto, LogTypeOK, LockTypeOK
<1>9. ASSUME NEW p \in Procs, Die(p) PROVE UnderLock'
  BY <1>9 DEF Die, Crash, Goto, LogTypeOK, LockTypeOK
<1>10. CASE UNCHANGED vars
  BY <1>10 DEF vars, lockVars, logVars
<1>11. QED
  BY <1>1, <1>2, <1>3, <1>4, <1>5, <1>6, <1>7, <1>8, <1>9, <1>10 DEF LogNext, Work

\* So that at most one process is at work.
LEMMA OneAtWork ==
  ASSUME UnderLock, MutualExclusion, NEW p \in Procs, pc[p] = "held"
  PROVE  \A q \in Procs : q # p => phase[q] = "none"
BY DEF UnderLock, MutualExclusion

NobodyRotates == \A q \in Procs : phase[q] # "rotating"

\* The end of a process's work: the rotated files stay as they are, and when a
\* rotation ends this way it was interrupted.
LEMMA WorkEnds ==
  ASSUME LogTypeOK, UnderLock, MutualExclusion, NEW p \in Procs,
         AppendLine(p) \/ Fail(p) \/ Done(p) \/ (Die(p) /\ pc[p] = "held")
  PROVE  /\ NobodyRotates'
         /\ \A i \in 1..MaxFiles : files'[i] = files[i]
         /\ NobodyRotates \/ broken'
         /\ broken => broken'
<1>1. pc[p] = "held" /\ phase'[p] # "rotating" /\ \A q \in Procs : q # p => phase'[q] = phase[q]
  BY DEF AppendLine, Fail, Done, Release, Die, LogTypeOK
<1>2. \A q \in Procs : q # p => phase[q] = "none"
  BY <1>1, OneAtWork
<1>3. NobodyRotates'
  BY <1>1, <1>2 DEF NobodyRotates
<1>4. \A i \in 1..MaxFiles : files'[i] = files[i]
  <2>1. \A i \in 1..MaxFiles : i # 0 /\ i \in 0..MaxFiles
    BY LogAssumption
  <2>2. UNCHANGED files \/ \E file : files' = [files EXCEPT ![0] = file]
    BY DEF AppendLine, Fail, Done, Die
  <2>3. QED
    BY <2>1, <2>2 DEF LogTypeOK
<1>5. NobodyRotates \/ broken'
  <2>1. phase[p] = "rotating" => broken'
    BY DEF AppendLine, Fail, Done, Die
  <2>2. QED
    BY <1>2, <2>1 DEF NobodyRotates
<1>6. broken => broken'
  BY DEF AppendLine, Fail, Done, Die
<1>7. QED
  BY <1>3, <1>4, <1>5, <1>6

\* A process that dies outside of the lock changes nothing of the log.
LEMMA DiesOutside ==
  ASSUME LogTypeOK, UnderLock, NEW p \in Procs, Die(p), pc[p] # "held"
  PROVE  /\ UNCHANGED <<files, phase, count, acked, merged, broken>>
         /\ \A q \in Procs : phase[q] # "none" => slot'[q] = slot[q]
<1>1. phase[p] = "none"
  BY DEF UnderLock
<1>2. phase' = phase
  BY <1>1 DEF Die, LogTypeOK
<1>3. broken' = broken
  BY <1>1 DEF Die, LogTypeOK
<1>4. QED
  BY <1>1, <1>2, <1>3 DEF Die, LogTypeOK

\* One turn of the rotation: the slot is free after it, and what was in it is
\* in the next one.
LEMMA RotateShifts ==
  ASSUME LogTypeOK, NEW p \in Procs, Rotate(p)
  PROVE  /\ slot[p] \in 0..MaxFiles /\ files'[slot[p]] = <<>>
         /\ \A i \in 0..MaxFiles : i # slot[p] /\ i # slot[p] + 1 => files'[i] = files[i]
         /\ slot[p] < MaxFiles =>
              files'[slot[p] + 1] = IF files[slot[p]] = <<>> THEN files[slot[p] + 1] ELSE files[slot[p]]
<1>1. PICK i \in 0..MaxFiles : i = slot[p]
  BY DEF LogTypeOK
<1>2. MaxFiles \in Nat /\ DOMAIN files = 0..MaxFiles /\ files = [j \in 0..MaxFiles |-> files[j]]
  BY LogAssumption DEF LogTypeOK
<1>3. CASE files[i] = <<>>
  <2>1. UNCHANGED files
    BY <1>1, <1>3 DEF Rotate
  <2>2. QED
    BY <1>1, <1>3, <2>1
<1>4. CASE files[i] # <<>>
  <2>1. Shift(i)
    BY <1>1, <1>4 DEF Rotate
  <2>2. CASE i = MaxFiles
    BY <1>1, <1>2, <2>1, <2>2 DEF Shift
  <2>3. CASE i # MaxFiles
    <3>1. files' = [files EXCEPT ![i] = <<>>, ![i + 1] = files[i]] /\ i + 1 \in 0..MaxFiles /\ i # i + 1
      BY <1>2, <2>1, <2>3 DEF Shift
    <3>2. QED
      BY <1>1, <1>2, <1>4, <3>1
  <2>4. QED
    BY <2>2, <2>3
<1>5. QED
  BY <1>3, <1>4

\* The rotation finds every slot free that it moves a file into.
LEMMA SlotIsFreeStep ==
  ASSUME LogTypeOK, UnderLock, MutualExclusion, SlotIsFree, [LogNext]_vars
  PROVE  SlotIsFree'
<1>1. CASE UNCHANGED logVars
  BY <1>1 DEF SlotIsFree, logVars
<1>2. ASSUME NEW p \in Procs, Check(p) PROVE SlotIsFree'
  <2>1. \A q \in Procs : q # p => phase'[q] = "none"
    BY <1>2, OneAtWork DEF Check, LogTypeOK
  <2>2. ASSUME phase'[p] = "rotating" PROVE files'[0] # <<>> /\ slot'[p] = MaxFiles
    <3>1. Len(files[0]) >= MaxSize /\ slot' = [slot EXCEPT ![p] = MaxFiles] /\ files' = files
      BY <1>2, <2>2 DEF Check, LogTypeOK
    <3>2. MaxSize > 0 /\ MaxSize \in Nat /\ Len(<<>>) = 0
      BY LogAssumption
    <3>3. files[0] # <<>>
      BY <3>1, <3>2
    <3>4. QED
      BY <3>1, <3>3 DEF LogTypeOK
  <2>3. ~(MaxFiles < MaxFiles)
    BY LogAssumption
  <2>4. QED
    BY <2>1, <2>2, <2>3 DEF SlotIsFree
<1>3. ASSUME NEW p \in Procs, Rotate(p) PROVE SlotIsFree'
  <2>1. \A q \in Procs : q # p => phase'[q] = "none"
    BY <1>3, OneAtWork DEF Rotate, LogTypeOK
  <2>2. ASSUME phase'[p] = "rotating" PROVE files'[0] # <<>> /\ files'[slot'[p] + 1] = <<>>
    <3>1. slot[p] # 0 /\ slot'[p] = slot[p] - 1 /\ phase[p] = "rotating"
      BY <1>3, <2>2 DEF Rotate, LogTypeOK
    <3>2. slot[p] \in 0..MaxFiles /\ files'[slot[p]] = <<>>
      BY <1>3, RotateShifts
    <3>3. 0 \in 0..MaxFiles /\ 0 # slot[p] /\ 0 # slot[p] + 1
      BY <3>1, <3>2, LogAssumption
    <3>4. files'[0] = files[0]
      BY <1>3, <3>3, RotateShifts
    <3>5. slot'[p] + 1 = slot[p]
      BY <3>1, <3>2
    <3>6. QED
      BY <3>1, <3>2, <3>4, <3>5 DEF SlotIsFree
  <2>3. QED
    BY <2>1, <2>2 DEF SlotIsFree
<1>4. ASSUME NEW p \in Procs, AppendLine(p) \/ Fail(p) \/ Done(p) \/ (Die(p) /\ pc[p] = "held")
      PROVE  SlotIsFree'
  BY <1>4, WorkEnds DEF SlotIsFree, NobodyRotates
<1>5. ASSUME NEW p \in Procs, Die(p), pc[p] # "held" PROVE SlotIsFree'
  BY <1>5, DiesOutside DEF SlotIsFree
<1>6. QED
  BY <1>1, <1>2, <1>3, <1>4, <1>5, WorkCases

\* The rotation closes every gap it opens.
LEMMA RotateKeepsNoGap ==
  ASSUME LogTypeOK, UnderLock, MutualExclusion, SlotIsFree, NoGap,
         NEW p \in Procs, Rotate(p), ~broken
  PROVE  NoGap'
<1>1. PICK i \in 0..MaxFiles : i = slot[p]
  BY DEF LogTypeOK
<1>2. MaxFiles \in Nat \ {0}
  BY LogAssumption
<1>3. /\ phase[p] = "rotating" /\ files[0] # <<>>
      /\ \A q \in Procs : phase[q] = "rotating" => q = p
  BY OneAtWork DEF Rotate, SlotIsFree
<1>4. i < MaxFiles => files[i + 1] = <<>>
  BY <1>1, <1>3 DEF SlotIsFree
<1>5. \A j \in 1 .. MaxFiles - 1 : Gap(j) => j = i + 1
  BY <1>1, <1>3 DEF NoGap
<1>6. i + 2 <= MaxFiles /\ files[i + 2] # <<>> => files[i] # <<>>
  BY <1>1, <1>3 DEF NoGap
<1>7. /\ files'[i] = <<>>
      /\ \A j \in 0..MaxFiles : j # i /\ j # i + 1 => files'[j] = files[j]
      /\ i < MaxFiles => files'[i + 1] = IF files[i] = <<>> THEN files[i + 1] ELSE files[i]
  BY <1>1, RotateShifts
<1>8. \A j \in 1 .. MaxFiles - 1 : Gap(j)' => j = i
  <2> SUFFICES ASSUME NEW j \in 1 .. MaxFiles - 1, Gap(j)', j # i PROVE FALSE
    OBVIOUS
  <2>1. files'[j] = <<>> /\ files'[j + 1] # <<>>
    BY DEF Gap
  <2>2. j \in Nat /\ j \in 0..MaxFiles /\ j + 1 \in 0..MaxFiles /\ i \in Nat
    BY <1>2
  <2>3. j + 1 # i
    BY <1>7, <2>1
  <2>4. CASE j = i + 1
    <3>1. files[i] = <<>>
      <4>1. i < MaxFiles
        BY <1>2, <2>2, <2>4
      <4>2. files'[i + 1] = <<>>
        BY <2>1, <2>4
      <4>3. QED
        BY <1>7, <4>1, <4>2
    <3>2. files'[j + 1] = files[j + 1]
      BY <1>7, <2>2, <2>4
    <3>3. i + 2 = j + 1 /\ i + 2 <= MaxFiles
      BY <1>2, <2>2, <2>4
    <3>4. QED
      BY <1>6, <2>1, <3>1, <3>2, <3>3
  <2>5. CASE j # i + 1
    <3>1. files'[j] = files[j] /\ files'[j + 1] = files[j + 1]
      <4>1. j + 1 # i + 1
        BY <2>2
      <4>2. QED
        BY <1>7, <2>2, <2>3, <2>5, <4>1
    <3>2. Gap(j)
      BY <2>1, <3>1 DEF Gap
    <3>3. QED
      BY <1>5, <2>5, <3>2
  <2>6. QED
    BY <2>4, <2>5
<1>9. CASE i = 0
  <2>1. \A q \in Procs : phase'[q] # "rotating"
    BY <1>1, <1>3, <1>9 DEF Rotate, LogTypeOK
  <2>2. \A j \in 1 .. MaxFiles - 1 : ~Gap(j)'
    BY <1>8, <1>9
  <2>3. QED
    BY <2>1, <2>2 DEF NoGap
<1>10. CASE i # 0
  <2>1. /\ phase' = phase /\ slot'[p] = i - 1
    BY <1>1, <1>10 DEF Rotate, LogTypeOK
  <2>2. slot'[p] + 1 = i /\ slot'[p] + 2 = i + 1
    BY <2>1
  <2>3. \A j \in 1 .. MaxFiles - 1 : Gap(j)' => phase'[p] = "rotating" /\ slot'[p] + 1 = j
    BY <1>3, <1>8, <2>1, <2>2
  <2>4. ASSUME slot'[p] + 2 <= MaxFiles, files'[slot'[p] + 2] # <<>> PROVE files'[slot'[p]] # <<>>
    <3>1. i < MaxFiles
      BY <1>2, <2>2, <2>4
    <3>2. files[i] # <<>>
      BY <1>4, <1>7, <2>2, <2>4, <3>1
    <3>3. i - 1 \in 0..MaxFiles /\ i - 1 # i /\ i - 1 # i + 1
      BY <1>2, <1>10
    <3>4. files'[i - 1] = files[i - 1]
      BY <1>7, <3>3
    <3>5. files[i - 1] # <<>>
      <4>1. CASE i = 1
        BY <1>3, <4>1
      <4>2. CASE i # 1
        <5>1. i - 1 \in 1 .. MaxFiles - 1 /\ (i - 1) + 1 = i /\ i - 1 # i + 1
          BY <1>2, <1>10, <3>1, <4>2
        <5>2. ~Gap(i - 1)
          BY <1>5, <5>1
        <5>3. QED
          BY <3>2, <5>1, <5>2 DEF Gap
      <4>3. QED
        BY <4>1, <4>2
    <3>6. QED
      BY <2>1, <3>4, <3>5
  <2>5. \A q \in Procs : phase'[q] = "rotating" => q = p
    BY <1>3, <2>1
  <2>6. QED
    BY <2>3, <2>4, <2>5 DEF NoGap
<1>11. QED
  BY <1>9, <1>10

LEMMA NoGapStep ==
  ASSUME LogTypeOK, UnderLock, MutualExclusion, SlotIsFree, NoGap, [LogNext]_vars
  PROVE  NoGap'
<1>1. CASE UNCHANGED logVars
  BY <1>1 DEF NoGap, Gap, logVars
<1>2. ASSUME NEW p \in Procs, Check(p) PROVE NoGap'
  <2> SUFFICES ASSUME ~broken' PROVE NoGap'
    BY DEF NoGap
  <2>1. /\ pc[p] = "held" /\ phase[p] = "none" /\ UNCHANGED <<files, broken>>
        /\ \A q \in Procs : q # p => phase'[q] = phase[q]
        /\ phase'[p] = "rotating" => slot'[p] = MaxFiles
    BY <1>2 DEF Check, LogTypeOK
  <2>2. NobodyRotates /\ \A q \in Procs : phase'[q] = "rotating" => q = p
    BY <2>1, OneAtWork DEF NobodyRotates
  <2>3. \A j \in 1 .. MaxFiles - 1 : ~Gap(j)
    BY <2>1, <2>2 DEF NoGap, NobodyRotates
  <2>4. \A j \in 1 .. MaxFiles - 1 : ~Gap(j)'
    BY <2>1, <2>3 DEF Gap
  <2>5. ~(MaxFiles + 2 <= MaxFiles)
    BY LogAssumption
  <2>6. \A q \in Procs : phase'[q] = "rotating" => ~(slot'[q] + 2 <= MaxFiles)
    BY <2>1, <2>2, <2>5
  <2>7. QED
    BY <2>4, <2>6 DEF NoGap
<1>3. ASSUME NEW p \in Procs, Rotate(p) PROVE NoGap'
  <2>1. CASE broken
    BY <1>3, <2>1 DEF Rotate, NoGap
  <2>2. CASE ~broken
    BY <1>3, <2>2, RotateKeepsNoGap
  <2>3. QED
    BY <2>1, <2>2
<1>4. ASSUME NEW p \in Procs, AppendLine(p) \/ Fail(p) \/ Done(p) \/ (Die(p) /\ pc[p] = "held")
      PROVE  NoGap'
  <2> SUFFICES ASSUME ~broken' PROVE NoGap'
    BY DEF NoGap
  <2>1. /\ NobodyRotates' /\ NobodyRotates /\ ~broken
        /\ \A i \in 1..MaxFiles : files'[i] = files[i]
    BY <1>4, WorkEnds
  <2>2. \A j \in 1 .. MaxFiles - 1 : ~Gap(j)
    BY <2>1 DEF NoGap, NobodyRotates
  <2>3. \A j \in 1 .. MaxFiles - 1 : j \in 1..MaxFiles /\ j + 1 \in 1..MaxFiles
    BY LogAssumption
  <2>4. \A j \in 1 .. MaxFiles - 1 : ~Gap(j)'
    BY <2>1, <2>2, <2>3 DEF Gap
  <2>5. QED
    BY <2>1, <2>4 DEF NoGap, NobodyRotates
<1>5. ASSUME NEW p \in Procs, Die(p), pc[p] # "held" PROVE NoGap'
  BY <1>5, DiesOutside DEF NoGap, Gap
<1>6. QED
  BY <1>1, <1>2, <1>3, <1>4, <1>5, WorkCases

-----------------------------------------------------------------------------

\* How a line is appended to the joined files.
LEMMA LinesType ==
  ASSUME LogTypeOK
  PROVE  Lines \in Seq(-1..MaxEvents)
<1>1. MaxFiles \in 0..MaxFiles
  BY LogAssumption
<1>2. QED
  BY <1>1, UptoType DEF LogTypeOK, Lines

LEMMA LinesTypeNext ==
  ASSUME LogTypeOK'
  PROVE  Lines' \in Seq(-1..MaxEvents)
<1>1. MaxFiles \in 0..MaxFiles
  BY LogAssumption
<1>2. PICK next \in [0..MaxFiles -> Seq(-1..MaxEvents)] : next = files'
  BY DEF LogTypeOK
<1>3. Upto(next)[MaxFiles] \in Seq(-1..MaxEvents)
  BY <1>1, UptoType
<1>4. QED
  BY <1>2, <1>3 DEF Lines

\* What a step does to the log as a whole, as long as the lock excludes:
\* nothing; the deletion of the oldest file's lines; a torn line; an event's
\* line; or an event's line behind a torn one.
NothingWritten == UNCHANGED <<count, acked, merged>>
EventWritten   == count' = count + 1 /\ acked' = acked \cup {count'}

OldestGo ==
  /\ NothingWritten
  /\ \E p \in Procs : /\ pc[p] = "held" /\ phase[p] = "rotating" /\ slot[p] = MaxFiles
                      /\ files[MaxFiles] # <<>> /\ Lines = files[MaxFiles] \o Lines'
LineTorn      == NothingWritten /\ Lines' = Append(Lines, Torn)
LineAppended  == EventWritten /\ UNCHANGED merged /\ Lines' = Append(Lines, count + 1)
LineCompleted ==
  /\ EventWritten /\ merged' = merged \cup {count'}
  /\ \E old \in Seq(-1..MaxEvents) : Lines = Append(old, Torn) /\ Lines' = Append(old, Garbage)

\* A line at the end of the active file is at the end of the log.
LEMMA AppendedLine ==
  ASSUME LogTypeOK, NEW e \in -1..MaxEvents, files' = [files EXCEPT ![0] = Append(@, e)]
  PROVE  Lines' = Append(Lines, e)
<1> DEFINE gs == [files EXCEPT ![0] = Append(@, e)]
<1>1. /\ files \in [0..MaxFiles -> Seq(-1..MaxEvents)] /\ files[0] \in Seq(-1..MaxEvents)
      /\ 0 \in 0..MaxFiles
  BY LogAssumption DEF LogTypeOK
<1>2. Append(files[0], e) \in Seq(-1..MaxEvents)
  BY <1>1, AppendProperties
<1>3. gs \in [0..MaxFiles -> Seq(-1..MaxEvents)] /\ gs[0] = Append(files[0], e)
  BY <1>1, <1>2
<1>4. \A i \in 1..MaxFiles : files[i] = gs[i]
  BY <1>1, LogAssumption
<1>5. files' = gs
  OBVIOUS
<1> HIDE DEF gs
<1>6. PICK old \in Seq(-1..MaxEvents) : /\ Upto(files)[MaxFiles] = old \o files[0]
                                        /\ Upto(gs)[MaxFiles] = old \o gs[0]
  BY <1>1, <1>3, <1>4, UptoActive
<1>7. PICK file \in Seq(-1..MaxEvents) : file = files[0]
  BY <1>1
<1>8. old \o Append(file, e) = Append(old \o file, e)
  <2>1. <<e>> \in Seq(-1..MaxEvents)
    OBVIOUS
  <2>2. Append(file, e) = file \o <<e>>
    BY AppendIsConcat
  <2>3. old \o file \in Seq(-1..MaxEvents)
    BY ConcatProperties
  <2>4. Append(old \o file, e) = (old \o file) \o <<e>>
    BY <2>3, AppendIsConcat
  <2>5. QED
    BY <2>1, <2>2, <2>4, ConcatAssociative
<1>9. QED
  BY <1>3, <1>5, <1>6, <1>7, <1>8 DEF Lines

\* A torn line at the end of the active file, and what completes it.
LEMMA CompletedLine ==
  ASSUME LogTypeOK, HasTornTail(files[0]), files' = [files EXCEPT ![0] = Front(@) \o <<Garbage>>]
  PROVE  \E old \in Seq(-1..MaxEvents) : Lines = Append(old, Torn) /\ Lines' = Append(old, Garbage)
<1> DEFINE gs == [files EXCEPT ![0] = Front(@) \o <<Garbage>>]
<1>1. /\ files \in [0..MaxFiles -> Seq(-1..MaxEvents)] /\ files[0] \in Seq(-1..MaxEvents)
      /\ 0 \in 0..MaxFiles
  BY LogAssumption DEF LogTypeOK
<1>2. Front(files[0]) \in Seq(-1..MaxEvents) /\ files[0] = Append(Front(files[0]), Torn)
  BY <1>1, FrontAndLast DEF HasTornTail
<1>3. Garbage \in -1..MaxEvents /\ Torn \in -1..MaxEvents
  BY LogAssumption DEF Garbage, Torn
<1>4. Front(files[0]) \o <<Garbage>> = Append(Front(files[0]), Garbage)
  BY <1>2, <1>3, AppendIsConcat
<1>5. Append(Front(files[0]), Garbage) \in Seq(-1..MaxEvents)
  BY <1>2, <1>3, AppendProperties
<1>6. gs \in [0..MaxFiles -> Seq(-1..MaxEvents)] /\ gs[0] = Append(Front(files[0]), Garbage)
  BY <1>1, <1>4, <1>5
<1>7. \A i \in 1..MaxFiles : files[i] = gs[i]
  BY <1>1, LogAssumption
<1>8. files' = gs
  OBVIOUS
<1> HIDE DEF gs
<1>9. PICK older \in Seq(-1..MaxEvents) : /\ Upto(files)[MaxFiles] = older \o files[0]
                                          /\ Upto(gs)[MaxFiles] = older \o gs[0]
  BY <1>1, <1>6, <1>7, UptoActive
<1>10. PICK front \in Seq(-1..MaxEvents) : front = Front(files[0])
  BY <1>2
<1>11. older \o front \in Seq(-1..MaxEvents)
  BY ConcatProperties
<1>12. \A e \in -1..MaxEvents : older \o Append(front, e) = Append(older \o front, e)
  <2> SUFFICES ASSUME NEW e \in -1..MaxEvents PROVE older \o Append(front, e) = Append(older \o front, e)
    OBVIOUS
  <2>1. <<e>> \in Seq(-1..MaxEvents)
    OBVIOUS
  <2>2. Append(front, e) = front \o <<e>>
    BY AppendIsConcat
  <2>3. Append(older \o front, e) = (older \o front) \o <<e>>
    BY <1>11, AppendIsConcat
  <2>4. QED
    BY <2>1, <2>2, <2>3, ConcatAssociative
<1>13. Lines = Append(older \o front, Torn) /\ Lines' = Append(older \o front, Garbage)
  BY <1>2, <1>3, <1>6, <1>8, <1>9, <1>10, <1>12 DEF Lines
<1>14. QED
  BY <1>11, <1>13

LEMMA LogSteps ==
  ASSUME LogTypeOK, SlotIsFree, [LogNext]_vars
  PROVE  \/ NothingWritten /\ Lines' = Lines
         \/ OldestGo \/ LineTorn \/ LineAppended \/ LineCompleted
<1>1. UNCHANGED files => Lines' = Lines
  BY DEF Lines
<1>2. CASE UNCHANGED logVars
  BY <1>1, <1>2 DEF logVars, NothingWritten
<1>3. ASSUME NEW p \in Procs, Check(p) \/ Done(p) PROVE NothingWritten /\ Lines' = Lines
  BY <1>1, <1>3 DEF Check, Done, NothingWritten
<1>4. ASSUME NEW p \in Procs, Rotate(p) PROVE (NothingWritten /\ Lines' = Lines) \/ OldestGo
  <2>1. NothingWritten
    BY <1>4 DEF Rotate, NothingWritten
  <2>2. PICK i \in 0..MaxFiles : i = slot[p]
    BY DEF LogTypeOK
  <2>3. files \in [0..MaxFiles -> Seq(-1..MaxEvents)]
    BY DEF LogTypeOK
  <2>4. CASE files[i] = <<>>
    BY <1>1, <1>4, <2>1, <2>2, <2>4 DEF Rotate
  <2>5. CASE files[i] # <<>> /\ i = MaxFiles
    <3>1. files' = [files EXCEPT ![MaxFiles] = <<>>]
      BY <1>4, <2>2, <2>5 DEF Rotate, Shift
    <3>2. Lines = files[MaxFiles] \o Lines'
      BY <2>3, <3>1, UptoDropped DEF Lines
    <3>3. QED
      BY <1>4, <2>1, <2>2, <2>5, <3>2 DEF Rotate, OldestGo
  <2>6. CASE files[i] # <<>> /\ i # MaxFiles
    <3>1. files' = [files EXCEPT ![i] = <<>>, ![i + 1] = files[i]]
      BY <1>4, <2>2, <2>6 DEF Rotate, Shift
    <3>2. i \in 0 .. MaxFiles - 1 /\ i < MaxFiles
      BY <2>6, LogAssumption
    <3>3. files[i + 1] = <<>>
      BY <1>4, <2>2, <3>2 DEF Rotate, SlotIsFree
    <3>4. Lines' = Lines
      BY <2>3, <3>1, <3>2, <3>3, UptoMoved DEF Lines
    <3>5. QED
      BY <2>1, <3>4
  <2>7. QED
    BY <2>4, <2>5, <2>6
<1>5. ASSUME NEW p \in Procs, AppendLine(p) PROVE LineAppended \/ LineCompleted
  <2>1. EventWritten /\ count + 1 \in -1..MaxEvents /\ count' = count + 1
    <3>1. EventWritten
      BY <1>5 DEF AppendLine, EventWritten
    <3>2. count \in Nat /\ count < MaxEvents
      BY <1>5 DEF AppendLine, LogTypeOK
    <3>3. QED
      BY <3>1, <3>2, LogAssumption DEF EventWritten
  <2>2. CASE HasTornTail(files[0])
    <3>1. files' = [files EXCEPT ![0] = Front(@) \o <<Garbage>>] /\ merged' = merged \cup {count'}
      BY <1>5, <2>2 DEF AppendLine
    <3>2. QED
      BY <2>1, <2>2, <3>1, CompletedLine DEF LineCompleted
  <2>3. CASE ~HasTornTail(files[0])
    <3>1. files' = [files EXCEPT ![0] = Append(@, count + 1)] /\ UNCHANGED merged
      BY <1>5, <2>1, <2>3 DEF AppendLine
    <3>2. Lines' = Append(Lines, count + 1)
      BY <2>1, <3>1, AppendedLine
    <3>3. QED
      BY <2>1, <3>1, <3>2 DEF LineAppended
  <2>4. QED
    BY <2>2, <2>3
<1>6. ASSUME NEW p \in Procs, Fail(p) \/ Die(p) PROVE (NothingWritten /\ Lines' = Lines) \/ LineTorn
  <2>1. NothingWritten
    BY <1>6 DEF Fail, Die, NothingWritten
  <2>2. UNCHANGED files \/ files' = [files EXCEPT ![0] = Append(@, Torn)]
    BY <1>6 DEF Fail, Die
  <2>3. Torn \in -1..MaxEvents
    BY LogAssumption DEF Torn
  <2>4. QED
    BY <1>1, <2>1, <2>2, <2>3, AppendedLine DEF LineTorn
<1>7. QED
  BY <1>2, <1>3, <1>4, <1>5, <1>6, WorkCases

\* What is left of a sequence when its first part goes is a suffix of it.
LEMMA RestIsSuffix ==
  ASSUME NEW S, NEW old \in Seq(S), NEW rest \in Seq(S)
  PROVE  IsSuffix(rest, old \o rest)
<1> DEFINE whole == old \o rest
           R == Reverse(rest)
           W == Reverse(whole)
<1>1. /\ whole \in Seq(S) /\ Len(whole) = Len(old) + Len(rest)
      /\ Len(old) \in Nat /\ Len(rest) \in Nat
      /\ \A i \in 1..Len(rest) : whole[Len(old) + i] = rest[i]
  <2>1. /\ whole \in Seq(S) /\ Len(whole) = Len(old) + Len(rest)
        /\ \A i \in 1 .. Len(old) + Len(rest) : whole[i] = IF i <= Len(old) THEN old[i] ELSE rest[i - Len(old)]
    BY ConcatProperties
  <2>2. Len(old) \in Nat /\ Len(rest) \in Nat
    BY LenProperties
  <2>3. ASSUME NEW i \in 1..Len(rest) PROVE whole[Len(old) + i] = rest[i]
    <3>1. Len(old) + i \in 1 .. Len(old) + Len(rest) /\ ~(Len(old) + i <= Len(old)) /\ (Len(old) + i) - Len(old) = i
      BY <2>2
    <3>2. whole[Len(old) + i] = rest[(Len(old) + i) - Len(old)]
      BY <2>1, <3>1
    <3>3. QED
      BY <3>1, <3>2
  <2>4. QED
    BY <2>1, <2>2, <2>3
<1> HIDE DEF whole
<1>2. /\ R \in Seq(S) /\ Len(R) = Len(rest)
      /\ \A i \in 1..Len(rest) : R[i] = rest[(Len(rest) - i) + 1] /\ R[i] \in S
  <2>1. \A i \in 1..Len(rest) : rest[(Len(rest) - i) + 1] \in S
    BY <1>1, ElementOfSeq
  <2>2. QED
    BY <1>1, <2>1 DEF Reverse
<1>3. /\ Len(W) = Len(whole)
      /\ \A i \in 1..Len(whole) : W[i] = whole[(Len(whole) - i) + 1]
  BY <1>1 DEF Reverse
<1>4. \A i \in 1..Len(rest) : W[i] = R[i]
  <2> SUFFICES ASSUME NEW i \in 1..Len(rest) PROVE W[i] = R[i]
    OBVIOUS
  <2>1. i \in 1..Len(whole) /\ (Len(whole) - i) + 1 = Len(old) + ((Len(rest) - i) + 1) /\ (Len(rest) - i) + 1 \in 1..Len(rest)
    BY <1>1
  <2>2. W[i] = whole[(Len(whole) - i) + 1]
    BY <1>3, <2>1
  <2>3. whole[Len(old) + ((Len(rest) - i) + 1)] = rest[(Len(rest) - i) + 1]
    BY <1>1, <2>1
  <2>4. QED
    BY <1>2, <2>1, <2>2, <2>3
<1> HIDE DEF R, W
<1>5. SubSeq(R, 1, Len(R)) = SubSeq(W, 1, Len(R))
  <2>1. 1 \in Int /\ Len(rest) \in Int /\ \A i \in 1..Len(rest) : 1 + i - 1 = i
    BY <1>1
  <2>2. \A i \in 1..Len(rest) : R[i] \in S /\ W[i] \in S
    BY <1>2, <1>4
  <2>3. /\ SubSeq(R, 1, Len(rest)) \in Seq(S)
        /\ Len(SubSeq(R, 1, Len(rest))) = IF 1 <= Len(rest) THEN Len(rest) - 1 + 1 ELSE 0
        /\ \A i \in 1 .. Len(rest) - 1 + 1 : SubSeq(R, 1, Len(rest))[i] = R[1 + i - 1]
    BY <2>1, <2>2, SubSeqProperties
  <2>4. /\ SubSeq(W, 1, Len(rest)) \in Seq(S)
        /\ Len(SubSeq(W, 1, Len(rest))) = IF 1 <= Len(rest) THEN Len(rest) - 1 + 1 ELSE 0
        /\ \A i \in 1 .. Len(rest) - 1 + 1 : SubSeq(W, 1, Len(rest))[i] = W[1 + i - 1]
    BY <2>1, <2>2, SubSeqProperties
  <2>5. Len(SubSeq(R, 1, Len(rest))) = Len(rest) /\ Len(SubSeq(W, 1, Len(rest))) = Len(rest)
    BY <1>1, <2>3, <2>4
  <2>6. \A i \in 1..Len(rest) : SubSeq(R, 1, Len(rest))[i] = SubSeq(W, 1, Len(rest))[i]
    <3> SUFFICES ASSUME NEW i \in 1..Len(rest) PROVE SubSeq(R, 1, Len(rest))[i] = SubSeq(W, 1, Len(rest))[i]
      OBVIOUS
    <3>1. i \in 1 .. Len(rest) - 1 + 1
      BY <1>1
    <3>2. SubSeq(R, 1, Len(rest))[i] = R[i] /\ SubSeq(W, 1, Len(rest))[i] = W[i]
      BY <2>1, <2>3, <2>4, <3>1
    <3>3. QED
      BY <1>4, <3>2
  <2>7. SubSeq(R, 1, Len(rest)) = SubSeq(W, 1, Len(rest))
    BY <2>3, <2>4, <2>5, <2>6, SeqEqual
  <2>8. QED
    BY <1>2, <2>7
<1>6. Len(R) <= Len(W)
  BY <1>1, <1>2, <1>3
<1>7. IsPrefix(R, W)
  BY <1>5, <1>6 DEF IsPrefix
<1>8. QED
  BY <1>7 DEF R, W, whole, IsSuffix

\* A sequence is a prefix of what it becomes when an element is appended.
LEMMA AppendKeepsPrefix ==
  ASSUME NEW S, NEW s \in Seq(S), NEW e \in S
  PROVE  IsPrefix(s, Append(s, e)) /\ Len(Append(s, e)) = Len(s) + 1
<1> DEFINE t == Append(s, e)
<1>1. t \in Seq(S) /\ Len(t) = Len(s) + 1 /\ Len(s) \in Nat /\ \A i \in 1..Len(s) : t[i] = s[i]
  BY AppendProperties, LenProperties
<1> HIDE DEF t
<1>2. \A i \in 1..Len(s) : s[i] \in S /\ t[i] \in S
  BY <1>1, ElementOfSeq
<1>3. SubSeq(s, 1, Len(s)) = s
  BY SubSeqFull
<1>4. SubSeq(t, 1, Len(s)) = s
  <2>1. 1 \in Int /\ Len(s) \in Int /\ \A i \in 1..Len(s) : 1 + i - 1 = i
    BY <1>1
  <2>2. /\ SubSeq(t, 1, Len(s)) \in Seq(S)
        /\ Len(SubSeq(t, 1, Len(s))) = IF 1 <= Len(s) THEN Len(s) - 1 + 1 ELSE 0
        /\ \A i \in 1 .. Len(s) - 1 + 1 : SubSeq(t, 1, Len(s))[i] = t[1 + i - 1]
    BY <1>2, <2>1, SubSeqProperties
  <2>3. Len(SubSeq(t, 1, Len(s))) = Len(s)
    BY <1>1, <2>2
  <2>4. ASSUME NEW i \in 1..Len(s) PROVE SubSeq(t, 1, Len(s))[i] = s[i]
    <3>1. i \in 1 .. Len(s) - 1 + 1
      BY <1>1
    <3>2. SubSeq(t, 1, Len(s))[i] = t[i]
      BY <2>1, <2>2, <3>1
    <3>3. QED
      BY <1>1, <3>2
  <2>5. QED
    BY <2>2, <2>3, <2>4, SeqEqual
<1>5. IsPrefix(s, t)
  BY <1>1, <1>3, <1>4 DEF IsPrefix
<1>6. QED
  BY <1>1, <1>5 DEF t

\* An appended line, and the lines before it.
LEMMA AppendedAt ==
  ASSUME NEW S, NEW s \in Seq(S), NEW e \in S
  PROVE  /\ Len(Append(s, e)) = Len(s) + 1 /\ Len(s) \in Nat
         /\ Append(s, e)[Len(s) + 1] = e
         /\ \A i \in 1..Len(s) : Append(s, e)[i] = s[i]
         /\ \A i \in 1 .. Len(s) + 1 : i \in 1..Len(s) \/ i = Len(s) + 1
BY AppendProperties, LenProperties

\* The lines that are left when the oldest go, and where they were before.
LEMMA DroppedAt ==
  ASSUME NEW S, NEW old \in Seq(S), NEW rest \in Seq(S)
  PROVE  /\ Len(old \o rest) = Len(old) + Len(rest) /\ Len(old) \in Nat /\ Len(rest) \in Nat
         /\ \A i \in 1..Len(old) : (old \o rest)[i] = old[i]
         /\ \A i \in 1..Len(rest) : (old \o rest)[Len(old) + i] = rest[i]
         /\ \A i \in 1 .. Len(old) + Len(rest) :
              i \in 1..Len(old) \/ \E j \in 1..Len(rest) : i = Len(old) + j
<1> DEFINE whole == old \o rest
<1>1. /\ Len(whole) = Len(old) + Len(rest)
      /\ \A i \in 1 .. Len(old) + Len(rest) : whole[i] = IF i <= Len(old) THEN old[i] ELSE rest[i - Len(old)]
  BY ConcatProperties
<1>2. Len(old) \in Nat /\ Len(rest) \in Nat
  BY LenProperties
<1> HIDE DEF whole
<1>3. \A i \in 1..Len(old) : whole[i] = old[i]
  BY <1>1, <1>2
<1>4. ASSUME NEW i \in 1..Len(rest) PROVE whole[Len(old) + i] = rest[i]
  <2>1. Len(old) + i \in 1 .. Len(old) + Len(rest) /\ ~(Len(old) + i <= Len(old)) /\ (Len(old) + i) - Len(old) = i
    BY <1>2
  <2>2. whole[Len(old) + i] = rest[(Len(old) + i) - Len(old)]
    BY <1>1, <2>1
  <2>3. QED
    BY <2>1, <2>2
<1>5. ASSUME NEW i \in 1 .. Len(old) + Len(rest), i \notin 1..Len(old)
      PROVE  \E j \in 1..Len(rest) : i = Len(old) + j
  <2>1. i - Len(old) \in 1..Len(rest) /\ i = Len(old) + (i - Len(old))
    BY <1>2, <1>5
  <2>2. QED
    BY <2>1
<1>6. QED
  BY <1>1, <1>2, <1>3, <1>4, <1>5 DEF whole

\* The lines stay in order.
LEMMA InOrderStep ==
  ASSUME LogTypeOK, LogTypeOK', SlotIsFree, InOrder, [LogNext]_vars
  PROVE  InOrder'
<1>1. Lines \in Seq(-1..MaxEvents) /\ Lines' \in Seq(-1..MaxEvents) /\ count \in Nat
  BY LinesType, LinesTypeNext DEF LogTypeOK
<1>2. PICK lines \in Seq(-1..MaxEvents) : lines = Lines
  BY <1>1
<1>3. PICK next \in Seq(-1..MaxEvents) : next = Lines'
  BY <1>1
<1>4. /\ \A i \in 1..Len(lines) : lines[i] \in -1..count
      /\ \A i, j \in 1..Len(lines) : i < j /\ lines[i] > 0 /\ lines[j] > 0 => lines[i] < lines[j]
  BY <1>2 DEF InOrder
<1>5. Torn = 0 /\ Garbage = -1 /\ Torn \in -1..MaxEvents /\ Garbage \in -1..MaxEvents
  BY LogAssumption DEF Torn, Garbage
<1> DEFINE Ordered == /\ \A i \in 1..Len(next) : next[i] \in -1..count'
                      /\ \A i, j \in 1..Len(next) : i < j /\ next[i] > 0 /\ next[j] > 0 => next[i] < next[j]
<1> SUFFICES Ordered
  BY <1>3 DEF InOrder
<1>6. CASE NothingWritten /\ Lines' = Lines
  BY <1>2, <1>3, <1>4, <1>6 DEF NothingWritten
<1>7. CASE OldestGo
  <2>1. files[MaxFiles] \in Seq(-1..MaxEvents) /\ Lines = files[MaxFiles] \o Lines' /\ count' = count
    BY <1>7, LogAssumption DEF OldestGo, NothingWritten, LogTypeOK
  <2>2. PICK old \in Seq(-1..MaxEvents) : old = files[MaxFiles]
    BY <2>1
  <2>3. lines = old \o next
    BY <1>2, <1>3, <2>1, <2>2
  <2>4. /\ Len(lines) = Len(old) + Len(next) /\ Len(old) \in Nat /\ Len(next) \in Nat
        /\ \A i \in 1..Len(next) : lines[Len(old) + i] = next[i]
    <3>1. /\ Len(old \o next) = Len(old) + Len(next) /\ Len(old) \in Nat /\ Len(next) \in Nat
          /\ \A i \in 1..Len(old) : (old \o next)[i] = old[i]
          /\ \A i \in 1..Len(next) : (old \o next)[Len(old) + i] = next[i]
          /\ \A i \in 1 .. Len(old) + Len(next) :
               i \in 1..Len(old) \/ \E j \in 1..Len(next) : i = Len(old) + j
      BY DroppedAt
    <3>2. QED
      BY <2>3, <3>1
  <2>5. \A i \in 1..Len(next) : Len(old) + i \in 1..Len(lines)
    BY <2>4
  <2>6. \A i \in 1..Len(next) : next[i] \in -1..count
    BY <1>4, <2>4, <2>5
  <2>7. \A i, j \in 1..Len(next) : i < j => Len(old) + i < Len(old) + j
    BY <2>4
  <2>8. \A i, j \in 1..Len(next) : i < j /\ next[i] > 0 /\ next[j] > 0 => next[i] < next[j]
    BY <1>4, <2>4, <2>5, <2>7
  <2>9. QED
    BY <2>1, <2>6, <2>8
<1>8. CASE LineTorn
  <2>1. next = Append(lines, Torn) /\ count' = count
    BY <1>2, <1>3, <1>8 DEF LineTorn, NothingWritten
  <2>2. /\ Len(next) = Len(lines) + 1 /\ Len(lines) \in Nat /\ next[Len(lines) + 1] = Torn
        /\ \A i \in 1..Len(lines) : next[i] = lines[i]
        /\ \A i \in 1..Len(next) : i \in 1..Len(lines) \/ i = Len(lines) + 1
    BY <1>5, <2>1, AppendedAt
  <2>3. \A i \in 1..Len(next) : next[i] \in -1..count
    BY <1>1, <1>4, <1>5, <2>2
  <2>4. \A i \in 1..Len(next) : next[i] > 0 => i \in 1..Len(lines)
    BY <1>5, <2>2
  <2>5. QED
    BY <1>4, <2>1, <2>2, <2>3, <2>4
<1>9. CASE LineAppended
  <2>1. next = Append(lines, count + 1) /\ count' = count + 1
    BY <1>2, <1>3, <1>9 DEF LineAppended, EventWritten
  <2>2. count + 1 \in -1..MaxEvents
    BY <1>1, <2>1, LogAssumption DEF LogTypeOK
  <2>3. /\ Len(next) = Len(lines) + 1 /\ Len(lines) \in Nat /\ next[Len(lines) + 1] = count + 1
        /\ \A i \in 1..Len(lines) : next[i] = lines[i]
        /\ \A i \in 1..Len(next) : i \in 1..Len(lines) \/ i = Len(lines) + 1
    BY <2>1, <2>2, AppendedAt
  <2>4. \A i \in 1..Len(next) : next[i] \in -1 .. count + 1
    BY <1>1, <1>4, <2>3
  <2>5. \A i, j \in 1..Len(next) : i < j => i \in 1..Len(lines)
    BY <2>3
  <2>6. \A i \in 1..Len(lines) : next[i] \in Int /\ next[i] < count + 1
    BY <1>1, <1>4, <2>3
  <2>7. \A i, j \in 1..Len(next) : i < j /\ next[i] > 0 /\ next[j] > 0 => next[i] < next[j]
    BY <1>4, <2>3, <2>5, <2>6
  <2>8. QED
    BY <2>1, <2>4, <2>7
<1>10. CASE LineCompleted
  <2>1. PICK old \in Seq(-1..MaxEvents) : Lines = Append(old, Torn) /\ Lines' = Append(old, Garbage)
    BY <1>10 DEF LineCompleted
  <2>2. lines = Append(old, Torn) /\ next = Append(old, Garbage) /\ count' = count + 1
    BY <1>2, <1>3, <1>10, <2>1 DEF LineCompleted, EventWritten
  <2>3. /\ Len(lines) = Len(old) + 1 /\ Len(old) \in Nat
        /\ \A i \in 1..Len(old) : lines[i] = old[i]
    BY <1>5, <2>2, AppendedAt
  <2>4. /\ Len(next) = Len(old) + 1 /\ next[Len(old) + 1] = Garbage
        /\ \A i \in 1..Len(old) : next[i] = old[i]
        /\ \A i \in 1..Len(next) : i \in 1..Len(old) \/ i = Len(old) + 1
    BY <1>5, <2>2, AppendedAt
  <2>5. \A i \in 1..Len(old) : i \in 1..Len(lines) /\ next[i] = lines[i]
    BY <2>3, <2>4
  <2>6. \A i \in 1..Len(next) : next[i] \in -1 .. count + 1
    <3>1. \A i \in 1..Len(old) : next[i] \in -1 .. count + 1
      BY <1>1, <1>4, <2>5
    <3>2. Garbage \in -1 .. count + 1
      BY <1>1, <1>5
    <3>3. QED
      BY <2>4, <3>1, <3>2
  <2>7. \A i \in 1..Len(next) : next[i] > 0 => i \in 1..Len(old)
    BY <1>5, <2>4
  <2>8. \A i, j \in 1..Len(next) : i < j /\ next[i] > 0 /\ next[j] > 0 => next[i] < next[j]
    BY <1>4, <2>5, <2>7
  <2>9. QED
    BY <2>2, <2>6, <2>8
<1>11. QED
  BY <1>6, <1>7, <1>8, <1>9, <1>10, LogSteps

\* What a reader finds in the lines of a log.
EventsIn(lines) == {lines[i] : i \in 1..Len(lines)} \ {Torn, Garbage}

\* What has been acknowledged stays readable, up to the oldest event deleted.
LEMMA AckedReadableStep ==
  ASSUME LogTypeOK, LogTypeOK', SlotIsFree, InOrder, AckedReadable, [LogNext]_vars
  PROVE  AckedReadable'
<1>1. /\ Lines \in Seq(-1..MaxEvents) /\ Lines' \in Seq(-1..MaxEvents)
      /\ count \in Nat /\ acked \subseteq 1..count
  BY LinesType, LinesTypeNext DEF LogTypeOK
<1>2. PICK lines \in Seq(-1..MaxEvents) : lines = Lines
  BY <1>1
<1>3. PICK next \in Seq(-1..MaxEvents) : next = Lines'
  BY <1>1
<1>4. Torn = 0 /\ Garbage = -1 /\ Torn \in -1..MaxEvents /\ Garbage \in -1..MaxEvents
  BY LogAssumption DEF Torn, Garbage
<1>5. Readable = EventsIn(lines) /\ Readable' = EventsIn(next)
  <2>1. DOMAIN lines = 1..Len(lines) /\ DOMAIN next = 1..Len(next)
    BY LenProperties
  <2>2. QED
    BY <1>2, <1>3, <2>1 DEF Readable, EventsIn
<1>6. /\ \A i \in 1..Len(lines) : lines[i] \in -1..count
      /\ \A i, j \in 1..Len(lines) : i < j /\ lines[i] > 0 /\ lines[j] > 0 => lines[i] < lines[j]
  BY <1>2 DEF InOrder
<1>7. \A f \in EventsIn(lines) : f \in 1..count
  BY <1>1, <1>4, <1>6 DEF EventsIn
<1>8. \A e \in acked \ merged : e \in EventsIn(lines) \/ \A f \in EventsIn(lines) : e < f
  BY <1>5 DEF AckedReadable
<1> SUFFICES \A e \in acked' \ merged' : e \in EventsIn(next) \/ \A f \in EventsIn(next) : e < f
  BY <1>5 DEF AckedReadable
<1>9. CASE NothingWritten /\ Lines' = Lines
  BY <1>2, <1>3, <1>8, <1>9 DEF NothingWritten
<1>10. CASE OldestGo
  <2>1. /\ files[MaxFiles] \in Seq(-1..MaxEvents) /\ Lines = files[MaxFiles] \o Lines'
        /\ acked' = acked /\ merged' = merged
    BY <1>10, LogAssumption DEF OldestGo, NothingWritten, LogTypeOK
  <2>2. PICK old \in Seq(-1..MaxEvents) : old = files[MaxFiles]
    BY <2>1
  <2>3. lines = old \o next
    BY <1>2, <1>3, <2>1, <2>2
  <2>4. /\ Len(old \o next) = Len(old) + Len(next) /\ Len(old) \in Nat /\ Len(next) \in Nat
        /\ \A i \in 1..Len(old) : (old \o next)[i] = old[i]
        /\ \A i \in 1..Len(next) : (old \o next)[Len(old) + i] = next[i]
        /\ \A i \in 1 .. Len(old) + Len(next) :
             i \in 1..Len(old) \/ \E j \in 1..Len(next) : i = Len(old) + j
    BY DroppedAt
  <2>5. \A j \in 1..Len(next) : Len(old) + j \in 1..Len(lines) /\ lines[Len(old) + j] = next[j]
    BY <2>3, <2>4
  <2>6. EventsIn(next) \subseteq EventsIn(lines)
    BY <2>5 DEF EventsIn
  <2>7. ASSUME NEW e \in acked \ merged, e \in EventsIn(lines), e \notin EventsIn(next),
               NEW f \in EventsIn(next)
        PROVE  e < f
    <3>1. PICK i \in 1..Len(lines) : lines[i] = e
      BY <2>7 DEF EventsIn
    <3>2. PICK j \in 1..Len(next) : next[j] = f
      BY DEF EventsIn
    <3>3. e \notin {Torn, Garbage}
      BY <2>7 DEF EventsIn
    <3>4. i \in 1..Len(old)
      <4>1. SUFFICES ASSUME i \notin 1..Len(old) PROVE FALSE
        OBVIOUS
      <4>2. PICK k \in 1..Len(next) : i = Len(old) + k
        BY <2>3, <2>4, <4>1
      <4>3. next[k] = e
        BY <2>5, <3>1, <4>2
      <4>4. QED
        BY <2>7, <3>3, <4>3 DEF EventsIn
    <3>5. i < Len(old) + j /\ Len(old) + j \in 1..Len(lines) /\ lines[Len(old) + j] = f
      BY <2>4, <2>5, <3>2, <3>4
    <3>6. e \in 1..count /\ f \in 1..count
      BY <1>7, <2>6, <2>7
    <3>7. lines[i] > 0 /\ lines[Len(old) + j] > 0
      BY <3>1, <3>5, <3>6
    <3>8. lines[i] < lines[Len(old) + j]
      BY <1>6, <3>5, <3>7
    <3>9. QED
      BY <3>1, <3>5, <3>8
  <2>8. QED
    BY <1>8, <2>1, <2>6, <2>7
<1>11. CASE LineTorn
  <2>1. next = Append(lines, Torn) /\ acked' = acked /\ merged' = merged
    BY <1>2, <1>3, <1>11 DEF LineTorn, NothingWritten
  <2>2. /\ Len(next) = Len(lines) + 1 /\ Len(lines) \in Nat /\ next[Len(lines) + 1] = Torn
        /\ \A i \in 1..Len(lines) : next[i] = lines[i]
        /\ \A i \in 1..Len(next) : i \in 1..Len(lines) \/ i = Len(lines) + 1
    BY <1>4, <2>1, AppendedAt
  <2>3. \A i \in 1..Len(lines) : i \in 1..Len(next)
    BY <2>2
  <2>4. EventsIn(next) = EventsIn(lines)
    BY <2>2, <2>3 DEF EventsIn
  <2>5. QED
    BY <1>8, <2>1, <2>4
<1>12. CASE LineAppended
  <2>1. /\ next = Append(lines, count + 1) /\ count' = count + 1
        /\ acked' = acked \cup {count + 1} /\ merged' = merged
    BY <1>2, <1>3, <1>12 DEF LineAppended, EventWritten
  <2>2. count + 1 \in -1..MaxEvents
    BY <1>1, <2>1, LogAssumption DEF LogTypeOK
  <2>3. /\ Len(next) = Len(lines) + 1 /\ Len(lines) \in Nat /\ next[Len(lines) + 1] = count + 1
        /\ \A i \in 1..Len(lines) : next[i] = lines[i]
        /\ \A i \in 1..Len(next) : i \in 1..Len(lines) \/ i = Len(lines) + 1
    BY <2>1, <2>2, AppendedAt
  <2>4. \A i \in 1..Len(lines) : i \in 1..Len(next)
    BY <2>3
  <2>5. count + 1 \notin {Torn, Garbage} /\ Len(lines) + 1 \in 1..Len(next)
    BY <1>1, <1>4, <2>3
  <2>6. EventsIn(next) = EventsIn(lines) \cup {count + 1}
    BY <2>3, <2>4, <2>5 DEF EventsIn
  <2>7. \A e \in acked : e < count + 1
    BY <1>1
  <2>8. QED
    BY <1>8, <2>1, <2>6, <2>7
<1>13. CASE LineCompleted
  <2>1. PICK old \in Seq(-1..MaxEvents) : Lines = Append(old, Torn) /\ Lines' = Append(old, Garbage)
    BY <1>13 DEF LineCompleted
  <2>2. lines = Append(old, Torn) /\ next = Append(old, Garbage)
    BY <1>2, <1>3, <2>1
  <2>3. acked' \ merged' \subseteq acked \ merged
    BY <1>13 DEF LineCompleted, EventWritten
  <2>4. /\ Len(lines) = Len(old) + 1 /\ Len(old) \in Nat /\ lines[Len(old) + 1] = Torn
        /\ \A i \in 1..Len(old) : lines[i] = old[i]
        /\ \A i \in 1..Len(lines) : i \in 1..Len(old) \/ i = Len(old) + 1
    BY <1>4, <2>2, AppendedAt
  <2>5. /\ Len(next) = Len(old) + 1 /\ next[Len(old) + 1] = Garbage
        /\ \A i \in 1..Len(old) : next[i] = old[i]
        /\ \A i \in 1..Len(next) : i \in 1..Len(old) \/ i = Len(old) + 1
    BY <1>4, <2>2, AppendedAt
  <2>6. \A i \in 1..Len(old) : i \in 1..Len(lines) /\ i \in 1..Len(next) /\ next[i] = lines[i]
    BY <2>4, <2>5
  <2>7. EventsIn(next) = EventsIn(lines)
    BY <2>4, <2>5, <2>6 DEF EventsIn
  <2>8. QED
    BY <1>8, <2>3, <2>7
<1>14. QED
  BY <1>9, <1>10, <1>11, <1>12, <1>13, LogSteps

\* What holds in every state as long as the lock excludes.
LogInv == UnderLock /\ SlotIsFree /\ NoGap /\ InOrder /\ AckedReadable

LEMMA LogInvariant == LogSpec => ([]MutualExclusion => []LogInv)
<1>1. LogInit => LogInv
  <2> SUFFICES ASSUME LogInit PROVE LogInv
    OBVIOUS
  <2>1. \A i \in 0..MaxFiles : files[i] = <<>>
    BY DEF LogInit
  <2>2. UnderLock /\ SlotIsFree
    BY DEF LogInit, UnderLock, SlotIsFree
  <2>3. NoGap
    <3>1. \A i \in 1 .. MaxFiles - 1 : i + 1 \in 0..MaxFiles
      BY LogAssumption
    <3>2. QED
      BY <2>1, <3>1 DEF LogInit, NoGap, Gap
  <2>4. InOrder
    <3>1. files \in [0..MaxFiles -> Seq({})]
      BY EmptySeq DEF LogInit
    <3>2. Lines \in Seq({})
      <4>1. MaxFiles \in 0..MaxFiles
        BY LogAssumption
      <4>2. \A i \in 0..MaxFiles : Upto(files)[i] \in Seq({})
        BY <3>1, UptoType
      <4>3. QED
        BY <4>1, <4>2 DEF Lines
    <3>3. \A i \in 1..Len(Lines) : FALSE
      BY <3>2, ElementOfSeq
    <3>4. QED
      BY <3>3 DEF InOrder
  <2>5. AckedReadable
    BY DEF LogInit, AckedReadable
  <2>6. QED
    BY <2>2, <2>3, <2>4, <2>5 DEF LogInv
<1>2. LockTypeOK /\ LogTypeOK /\ LogTypeOK' /\ MutualExclusion /\ LogInv /\ [LogNext]_vars => LogInv'
  BY UnderLockStep, SlotIsFreeStep, NoGapStep, InOrderStep, AckedReadableStep DEF LogInv
<1>3. LogSpec => []LockTypeOK
  BY LogUsesLock, LockTypeCorrect
<1>4. QED
  BY <1>1, <1>2, <1>3, LogTypeCorrect, PTL DEF LogSpec

\* While the lock excludes, an event whose append returned is in the log until
\* the rotation deletes it with everything older, whichever system call of the
\* append or the rotation fails and whoever dies in it.
THEOREM AckedEventsStay == LogSpec => ([]MutualExclusion => []AckedReadable)
<1>1. LogInv => AckedReadable
  BY DEF LogInv
<1>2. QED
  BY <1>1, LogInvariant, PTL

\* While the lock excludes, the log changes only at its ends.
THEOREM LogChangesAtItsEnds == LogSpec => ([]MutualExclusion => OnlyOldestDropped)
<1> DEFINE Step == \/ Lines' = Lines
                   \/ IsSuffix(Lines', Lines)
                   \/ Len(Lines') = Len(Lines) + 1 /\ IsPrefix(Lines, Lines')
                   \/ Last(Lines) = Torn /\ Lines' = Front(Lines) \o <<Garbage>>
<1>1. LogTypeOK /\ LogTypeOK' /\ LogInv /\ [LogNext]_vars => [Step]_vars
  <2> SUFFICES ASSUME LogTypeOK, LogTypeOK', LogInv, [LogNext]_vars PROVE Step
    OBVIOUS
  <2>1. Lines \in Seq(-1..MaxEvents) /\ Lines' \in Seq(-1..MaxEvents)
    BY LinesType, LinesTypeNext
  <2>2. PICK lines \in Seq(-1..MaxEvents) : lines = Lines
    BY <2>1
  <2>3. PICK next \in Seq(-1..MaxEvents) : next = Lines'
    BY <2>1
  <2>4. Torn \in -1..MaxEvents /\ Garbage \in -1..MaxEvents
    BY LogAssumption DEF Torn, Garbage
  <2>5. CASE OldestGo
    <3>1. files[MaxFiles] \in Seq(-1..MaxEvents) /\ Lines = files[MaxFiles] \o Lines'
      BY <2>5, LogAssumption DEF OldestGo, LogTypeOK
    <3>2. PICK old \in Seq(-1..MaxEvents) : old = files[MaxFiles]
      BY <3>1
    <3>3. IsSuffix(next, old \o next)
      BY RestIsSuffix
    <3>4. QED
      BY <2>3, <3>1, <3>2, <3>3
  <2>6. CASE LineTorn
    <3>1. IsPrefix(lines, Append(lines, Torn)) /\ Len(Append(lines, Torn)) = Len(lines) + 1
      BY <2>4, AppendKeepsPrefix
    <3>2. QED
      BY <2>2, <2>6, <3>1 DEF LineTorn
  <2>7. CASE LineAppended
    <3>1. count + 1 \in -1..MaxEvents
      BY <2>7, LogAssumption DEF LineAppended, EventWritten, LogTypeOK
    <3>2. IsPrefix(lines, Append(lines, count + 1)) /\ Len(Append(lines, count + 1)) = Len(lines) + 1
      BY <3>1, AppendKeepsPrefix
    <3>3. QED
      BY <2>2, <2>7, <3>2 DEF LineAppended
  <2>8. CASE LineCompleted
    <3>1. PICK old \in Seq(-1..MaxEvents) : Lines = Append(old, Torn) /\ Lines' = Append(old, Garbage)
      BY <2>8 DEF LineCompleted
    <3>2. Append(old, Torn) # <<>> /\ Append(old, Torn) \in Seq(-1..MaxEvents)
      <4>1. PICK e \in -1..MaxEvents : e = Torn
        BY <2>4
      <4>2. Append(old, e) # <<>> /\ Append(old, e) \in Seq(-1..MaxEvents)
        BY AppendProperties, SMTT(30)
      <4>3. QED
        BY <4>1, <4>2
    <3>3. PICK whole \in Seq(-1..MaxEvents) : whole = Append(old, Torn)
      BY <3>2
    <3>4. Front(whole) \in Seq(-1..MaxEvents) /\ Last(whole) \in -1..MaxEvents /\ whole = Append(Front(whole), Last(whole))
      BY <3>2, <3>3, FrontAndLast
    <3>5. PICK front \in Seq(-1..MaxEvents) : front = Front(whole)
      BY <3>4
    <3>6. front = old /\ Last(whole) = Torn
      <4>1. PICK last \in -1..MaxEvents : last = Last(whole)
        BY <3>4
      <4>2. Append(front, last) = Append(old, Torn)
        BY <3>3, <3>4, <3>5, <4>1
      <4>3. QED
        BY <2>4, <4>1, <4>2, AppendInjective
    <3>7. Append(old, Garbage) = old \o <<Garbage>>
      BY <2>4, AppendIsConcat
    <3>8. QED
      BY <3>1, <3>3, <3>5, <3>6, <3>7
  <2>9. QED
    BY <2>5, <2>6, <2>7, <2>8, LogSteps DEF LogInv
<1>2. QED
  BY <1>1, LogTypeCorrect, LogInvariant, PTL DEF LogSpec, OnlyOldestDropped

\* When the oldest file is not empty and there is no gap, every slot is taken.
LEMMA FullChain ==
  ASSUME \A i \in 1 .. MaxFiles - 1 : ~Gap(i), files[MaxFiles] # <<>>
  PROVE  \A i \in 1..MaxFiles : files[i] # <<>>
<1> DEFINE Taken == {k \in Nat : files[MaxFiles - k] # <<>>}
<1>1. MaxFiles \in Nat \ {0} /\ MaxFiles - 1 \in Nat
  BY LogAssumption
<1>2. 0 \in Taken
  BY <1>1
<1>3. ASSUME NEW k \in 0 .. (MaxFiles - 1) - 1, k \in Taken PROVE k + 1 \in Taken
  <2>1. PICK i \in 1 .. MaxFiles - 1 : i = MaxFiles - (k + 1) /\ i + 1 = MaxFiles - k
    BY <1>1
  <2>2. files[i] # <<>>
    BY <1>3, <2>1 DEF Gap
  <2>3. k + 1 \in Nat
    BY <1>1
  <2>4. QED
    BY <2>1, <2>2, <2>3
<1>4. \A k \in 0 .. MaxFiles - 1 : k \in Taken
  <2> HIDE DEF Taken
  <2>1. QED
    BY <1>1, <1>2, <1>3, IntervalInduction
<1>5. ASSUME NEW i \in 1..MaxFiles PROVE files[i] # <<>>
  <2>1. PICK k \in 0 .. MaxFiles - 1 : MaxFiles - k = i
    <3>1. MaxFiles - i \in 0 .. MaxFiles - 1 /\ MaxFiles - (MaxFiles - i) = i
      BY <1>1
    <3>2. QED
      BY <3>1
  <2>2. files[MaxFiles - k] # <<>>
    BY <1>4
  <2>3. QED
    BY <2>1, <2>2
<1>6. QED
  BY <1>5

\* While the lock excludes, the rotation deletes nothing while it could move
\* the files up, unless one before it was interrupted.
THEOREM HistoryIsKept == LogSpec => ([]MutualExclusion => KeepsHistory)
<1> DEFINE Full == \A i \in 0..MaxFiles : files[i] # <<>>
           Step == Len(Lines') < Len(Lines) => broken \/ Full
<1>1. LogTypeOK /\ LogTypeOK' /\ LogInv /\ MutualExclusion /\ [LogNext]_vars => [Step]_vars
  <2> SUFFICES ASSUME LogTypeOK, LogTypeOK', LogInv, MutualExclusion, [LogNext]_vars, Len(Lines') < Len(Lines), ~broken
               PROVE  Full
    OBVIOUS
  <2>1. PICK lines \in Seq(-1..MaxEvents) : lines = Lines
    BY LinesType
  <2>2. Len(lines) \in Nat /\ Torn \in -1..MaxEvents /\ Garbage \in -1..MaxEvents
    BY LenProperties, LogAssumption DEF Torn, Garbage
  <2>3. ~(Len(lines) + 1 < Len(lines)) /\ ~(Len(lines) < Len(lines))
    BY <2>2
  <2>4. Lines' # Lines
    BY <2>1, <2>3
  <2>5. ~LineTorn
    <3>1. Len(Append(lines, Torn)) = Len(lines) + 1
      BY <2>2, AppendKeepsPrefix
    <3>2. QED
      BY <2>1, <2>3, <3>1 DEF LineTorn
  <2>6. ~LineAppended
    <3>1. SUFFICES ASSUME LineAppended PROVE FALSE
      OBVIOUS
    <3>2. count + 1 \in -1..MaxEvents /\ Lines' = Append(lines, count + 1)
      BY <2>1, <3>1, LogAssumption DEF LineAppended, EventWritten, LogTypeOK
    <3>3. Len(Append(lines, count + 1)) = Len(lines) + 1
      BY <3>2, AppendKeepsPrefix
    <3>4. QED
      BY <2>1, <2>3, <3>2, <3>3
  <2>7. ~LineCompleted
    <3>1. SUFFICES ASSUME LineCompleted PROVE FALSE
      OBVIOUS
    <3>2. PICK old \in Seq(-1..MaxEvents) : Lines = Append(old, Torn) /\ Lines' = Append(old, Garbage)
      BY <3>1 DEF LineCompleted
    <3>3. Len(Append(old, Torn)) = Len(old) + 1 /\ Len(Append(old, Garbage)) = Len(old) + 1
      BY <2>2, AppendKeepsPrefix
    <3>4. Len(lines) = Len(Lines')
      BY <2>1, <3>2, <3>3
    <3>5. QED
      BY <2>1, <2>3, <3>4
  <2>8. OldestGo
    BY <2>4, <2>5, <2>6, <2>7, LogSteps DEF LogInv
  <2>9. PICK p \in Procs : /\ pc[p] = "held" /\ phase[p] = "rotating" /\ slot[p] = MaxFiles
                           /\ files[MaxFiles] # <<>>
    BY <2>8 DEF OldestGo
  <2>10. \A q \in Procs : phase[q] = "rotating" => q = p
    BY <2>9, OneAtWork DEF LogInv
  <2>11. \A i \in 1 .. MaxFiles - 1 : MaxFiles + 1 # i
    BY LogAssumption
  <2>12. \A i \in 1 .. MaxFiles - 1 : ~Gap(i)
    BY <2>9, <2>10, <2>11 DEF LogInv, NoGap
  <2>13. \A i \in 1..MaxFiles : files[i] # <<>>
    BY <2>9, <2>12, FullChain
  <2>14. files[0] # <<>>
    BY <2>9 DEF LogInv, SlotIsFree
  <2>15. \A i \in 0..MaxFiles : i = 0 \/ i \in 1..MaxFiles
    BY LogAssumption
  <2>16. QED
    BY <2>13, <2>14, <2>15
<1>2. QED
  BY <1>1, LogTypeCorrect, LogInvariant, PTL DEF LogSpec, KeepsHistory

\* And so, when nothing leaves a lock file behind, the log keeps its promises
\* without any assumption about the lock, whichever system calls fail.
THEOREM LogKeepsItsPromises ==
  ASSUME Mortal = {}, Leaks = FALSE, Prompt = TRUE
  PROVE  LogSpec => []AckedReadable /\ OnlyOldestDropped /\ KeepsHistory
BY LogExcludes, AckedEventsStay, LogChangesAtItsEnds, HistoryIsKept
=============================================================================
