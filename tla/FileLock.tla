------------------------------ MODULE FileLock ------------------------------
(***************************************************************************)
(* withFileLock (myclaw/src/storage/fileLock.js): the lock file beside     *)
(* every file that several MyClaw processes write.                         *)
(*                                                                         *)
(* Each system call is a step of its own, because the processes share the  *)
(* directory: open with "wx", stat, unlink of a stale lock, unlink on      *)
(* release.  What is done under the lock is left to the module that uses   *)
(* it; here a holder releases at any moment.                               *)
(***************************************************************************)
EXTENDS Integers

CONSTANTS Procs,    \* processes that lock this file
          NoLock,   \* the lock file does not exist
          Retries,  \* attempts after the first one (retries, 40)
          Stale,    \* age beyond which a lock is removed (staleMs, 30 s)
          MaxTime,  \* bound: last instant of the clock
          Mortal,   \* processes that this instance may kill
          Leaks,    \* TRUE: the lock file may be left behind by an error
          Prompt    \* TRUE: no holder keeps the lock beyond Stale

ASSUME LockAssumption ==
  /\ Retries \in Nat
  /\ Stale \in Nat
  /\ MaxTime \in Nat
  /\ NoLock \notin [owner : Procs, at : 0..MaxTime]
  /\ Mortal \subseteq Procs
  /\ Leaks \in BOOLEAN
  /\ Prompt \in BOOLEAN

VARIABLES clock,  \* the time, which statSync and Date.now compare
          lock,   \* the lock file: who created it (its content) and when
          pc,     \* pc[p]: where p is in withFileLock
          tries   \* tries[p]: `attempt' of p's acquireLock

lockVars == <<clock, lock, pc, tries>>

Where == {"out", "opening", "checking", "removing", "held", "dead"}

LockTypeOK ==
  /\ clock \in 0..MaxTime
  /\ lock \in [owner : Procs, at : 0..MaxTime] \cup {NoLock}
  /\ pc \in [Procs -> Where]
  /\ tries \in [Procs -> 0..Retries]

Goto(p, where) == pc' = [pc EXCEPT ![p] = where]

-----------------------------------------------------------------------------

LockInit ==
  /\ clock = 0
  /\ lock = NoLock
  /\ pc = [p \in Procs |-> "out"]
  /\ tries = [p \in Procs |-> 0]

Enter(p) ==
  /\ pc[p] = "out"
  /\ Goto(p, "opening")
  /\ UNCHANGED <<clock, lock, tries>>

\* A variant with a bug: the file is opened without the flag x.
OpenShared(p) ==
  /\ pc[p] = "opening"
  /\ lock' = [owner |-> p, at |-> clock]
  /\ Goto(p, "held")
  /\ tries' = [tries EXCEPT ![p] = 0]
  /\ UNCHANGED clock

\* openSync(lockPath, 'wx') creates the file, or finds that it exists.  When
\* its content cannot be written, the error leaves withFileLock but the file
\* stays.
Open(p) ==
  /\ pc[p] = "opening"
  /\ \/ /\ lock = NoLock
        /\ lock' = [owner |-> p, at |-> clock]
        /\ Goto(p, "held") \/ (Leaks /\ Goto(p, "out"))
        /\ tries' = [tries EXCEPT ![p] = 0]
     \/ /\ lock # NoLock
        /\ Goto(p, "checking")
        /\ UNCHANGED <<lock, tries>>
  /\ UNCHANGED clock

\* A variant with a bug: the attempts are not counted.
RetryForever(p) == Goto(p, "opening") /\ UNCHANGED tries

\* The end of an attempt: another one after the sleep, or the timeout error.
Retry(p) ==
  IF tries[p] = Retries
  THEN Goto(p, "out") /\ tries' = [tries EXCEPT ![p] = 0]
  ELSE Goto(p, "opening") /\ tries' = [tries EXCEPT ![p] = @ + 1]

\* removeStaleLock up to the comparison; a missing file is fine.
Stat(p) ==
  /\ pc[p] = "checking"
  /\ IF lock # NoLock /\ clock - lock.at > Stale
     THEN Goto(p, "removing") /\ UNCHANGED tries
     ELSE Retry(p)
  /\ UNCHANGED <<clock, lock>>

\* unlinkSync of whatever the path names by now.
Unlink(p) ==
  /\ pc[p] = "removing"
  /\ lock' = NoLock
  /\ Retry(p)
  /\ UNCHANGED clock

\* releaseLock unlinks the path, whoever created the file; an error is ignored.
Release(p) ==
  /\ pc[p] = "held"
  /\ lock' = NoLock \/ (Leaks /\ UNCHANGED lock)
  /\ Goto(p, "out")
  /\ UNCHANGED <<clock, tries>>

Crash(p) ==
  /\ p \in Mortal
  /\ pc[p] # "dead"
  /\ Goto(p, "dead")
  /\ tries' = [tries EXCEPT ![p] = 0]
  /\ UNCHANGED <<clock, lock>>

Tick ==
  /\ clock < MaxTime
  /\ (Prompt /\ lock # NoLock /\ pc[lock.owner] = "held") => clock - lock.at < Stale
  /\ clock' = clock + 1
  /\ UNCHANGED <<lock, pc, tries>>

Acquire(p) == Open(p) \/ Stat(p) \/ Unlink(p)

LockNext ==
  \/ Tick
  \/ \E p \in Procs : Enter(p) \/ Acquire(p) \/ Release(p) \/ Crash(p)

LockSpec == LockInit /\ [][LockNext]_lockVars

-----------------------------------------------------------------------------

\* At most one process is between its openSync and its unlinkSync: the
\* read-modify-write of the locked file does not interleave with another.
MutualExclusion ==
  \A p, q \in Procs : pc[p] = "held" /\ pc[q] = "held" => p = q

\* Why it holds when nobody dies and no error leaves the file behind: the
\* file belongs to the process that holds the lock, so it is never stale.
Ownership ==
  /\ \A p \in Procs : pc[p] # "removing"
  /\ \A p \in Procs : pc[p] = "held" => lock # NoLock /\ lock.owner = p
  /\ lock # NoLock => pc[lock.owner] = "held" /\ clock - lock.at <= Stale
=============================================================================
