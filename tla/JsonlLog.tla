------------------------------ MODULE JsonlLog ------------------------------
(***************************************************************************)
(* appendJsonl and rotateJsonlIfNeeded (myclaw/src/storage/jsonl.js), the  *)
(* audit log: under the file lock, the full active file is rotated, one    *)
(* rename at a time, and a line is appended.  Every system call is a step: *)
(* the process may die after it, and each may fail.                        *)
(***************************************************************************)
EXTENDS FileLock, SequencesExt

CONSTANTS MaxSize,    \* size at which the active file is rotated, in lines
          MaxFiles,   \* number of rotated files (maxFiles)
          MaxEvents,  \* bound: events written
          Failures    \* FALSE: no system call of the rotation or append fails

ASSUME LogAssumption ==
  /\ MaxSize \in Nat \ {0}
  /\ MaxFiles \in Nat \ {0}
  /\ MaxEvents \in Nat
  /\ Failures \in BOOLEAN

VARIABLES files,   \* files[0]: the active file; files[i]: audit.log.i; <<>>: missing
          phase,   \* phase[p]: where p is under the lock
          slot,    \* slot[p]: the index of the rotation's loop
          count,   \* number of lines begun: events are numbered from 1
          acked,   \* history: events whose append returned
          merged,  \* history: events appended behind a torn line
          broken   \* history: some rotation was left unfinished

logVars == <<files, phase, slot, count, acked, merged, broken>>
vars    == <<lockVars, logVars>>

\* A torn line has no newline yet; what is appended to it makes a line that
\* readJsonlTail cannot parse.
Torn    == 0
Garbage == -1

LogTypeOK ==
  /\ files \in [0..MaxFiles -> Seq(-1..MaxEvents)]
  /\ phase \in [Procs -> {"none", "rotating", "appending", "done"}]
  /\ slot \in [Procs -> 0..MaxFiles]
  /\ count \in 0..MaxEvents
  /\ acked \subseteq 1..count
  /\ merged \subseteq acked
  /\ broken \in BOOLEAN

\* Upto(fs)[i]: the lines of the files up to slot i, oldest first.
Upto(fs) == LET upto[i \in 0..MaxFiles] == IF i = 0 THEN fs[0] ELSE fs[i] \o upto[i - 1] IN upto

\* Every line, oldest first, and the events a reader finds among them.
Lines    == Upto(files)[MaxFiles]
Readable == {Lines[i] : i \in DOMAIN Lines} \ {Torn, Garbage}

HasTornTail(file) == file # <<>> /\ Last(file) = Torn

-----------------------------------------------------------------------------

LogInit ==
  /\ LockInit
  /\ files = [i \in 0..MaxFiles |-> <<>>]
  /\ phase = [p \in Procs |-> "none"]
  /\ slot = [p \in Procs |-> 0]
  /\ count = 0 /\ acked = {} /\ merged = {} /\ broken = FALSE

\* rotateJsonlIfNeeded looks at the active file.
Check(p) ==
  /\ pc[p] = "held" /\ phase[p] = "none"
  /\ IF Len(files[0]) >= MaxSize
     THEN phase' = [phase EXCEPT ![p] = "rotating"] /\ slot' = [slot EXCEPT ![p] = MaxFiles]
     ELSE phase' = [phase EXCEPT ![p] = "appending"] /\ UNCHANGED slot
  /\ UNCHANGED <<lockVars, files, count, acked, merged, broken>>

\* Variants with a bug: the file is copied, not renamed; the second oldest file
\* is deleted too.
ShiftByCopy(i) ==
  files' = IF i = MaxFiles THEN [files EXCEPT ![i] = <<>>]
                           ELSE [files EXCEPT ![i + 1] = files[i]]
ShiftEarly(i) ==
  files' = IF i >= MaxFiles - 1 THEN [files EXCEPT ![i] = <<>>]
                                ELSE [files EXCEPT ![i] = <<>>, ![i + 1] = files[i]]

\* The file of slot i goes: the oldest one is deleted, the others move up,
\* over whatever has the next name.
Shift(i) ==
  files' = IF i = MaxFiles THEN [files EXCEPT ![i] = <<>>]
                           ELSE [files EXCEPT ![i] = <<>>, ![i + 1] = files[i]]

\* One turn of the loop, and the rename of the active file after it.
Rotate(p) ==
  LET i == slot[p] IN
  /\ pc[p] = "held" /\ phase[p] = "rotating"
  /\ i = 0 => files[0] # <<>>
  /\ IF files[i] = <<>> THEN UNCHANGED files ELSE Shift(i)
  /\ IF i = 0 THEN phase' = [phase EXCEPT ![p] = "appending"] /\ UNCHANGED slot
              ELSE slot' = [slot EXCEPT ![p] = i - 1] /\ UNCHANGED phase
  /\ UNCHANGED <<lockVars, count, acked, merged, broken>>

\* appendFileSync
AppendLine(p) ==
  /\ pc[p] = "held" /\ phase[p] = "appending"
  /\ count < MaxEvents
  /\ count' = count + 1
  /\ acked' = acked \cup {count'}
  /\ IF HasTornTail(files[0])
     THEN /\ files' = [files EXCEPT ![0] = Front(@) \o <<Garbage>>]
          /\ merged' = merged \cup {count'}
     ELSE /\ files' = [files EXCEPT ![0] = Append(@, count')]
          /\ UNCHANGED merged
  /\ phase' = [phase EXCEPT ![p] = "done"]
  /\ UNCHANGED <<lockVars, slot, broken>>

\* A variant with a bug: the error is swallowed.
FailSilently(p) ==
  /\ Failures
  /\ pc[p] = "held" /\ phase[p] = "appending" /\ count < MaxEvents
  /\ phase' = [phase EXCEPT ![p] = "done"]
  /\ count' = count + 1
  /\ acked' = acked \cup {count'}
  /\ UNCHANGED <<lockVars, files, slot, merged, broken>>

\* A rename or an unlink throws, or the append does, having written a part of
\* its line or nothing.
Fail(p) ==
  /\ pc[p] = "held" /\ phase[p] \in {"rotating", "appending"}
  /\ Failures \/ (phase[p] = "rotating" /\ slot[p] = 0 /\ files[0] = <<>>)
  /\ phase' = [phase EXCEPT ![p] = "done"]
  /\ \/ UNCHANGED files
     \/ /\ phase[p] = "appending" /\ ~HasTornTail(files[0])
        /\ files' = [files EXCEPT ![0] = Append(@, Torn)]
  /\ slot' = [slot EXCEPT ![p] = 0]
  /\ broken' = (broken \/ phase[p] = "rotating")
  /\ UNCHANGED <<lockVars, count, acked, merged>>

\* The lock: a process asks for it while there is something to append, and
\* gives it back when the append is over.
Ask(p) ==
  /\ count + Cardinality({q \in Procs : pc[q] \notin {"out", "dead"}}) < MaxEvents
  /\ Enter(p)
  /\ UNCHANGED logVars

Done(p) ==
  /\ phase[p] = "done" /\ Release(p)
  /\ phase' = [phase EXCEPT ![p] = "none"]
  /\ UNCHANGED <<files, slot, count, acked, merged, broken>>

\* Death may leave a torn line as well.
Die(p) ==
  /\ Crash(p)
  /\ \/ UNCHANGED files
     \/ /\ phase[p] = "appending" /\ ~HasTornTail(files[0])
        /\ files' = [files EXCEPT ![0] = Append(@, Torn)]
  /\ phase' = [phase EXCEPT ![p] = "none"]
  /\ slot' = [slot EXCEPT ![p] = 0]
  /\ broken' = (broken \/ phase[p] = "rotating")
  /\ UNCHANGED <<count, acked, merged>>

Work(p) ==
  \/ Acquire(p) /\ UNCHANGED logVars
  \/ Check(p) \/ Rotate(p) \/ AppendLine(p) \/ Fail(p) \/ Done(p)

LogNext ==
  \/ Tick /\ UNCHANGED logVars
  \/ \E p \in Procs : Ask(p) \/ Work(p) \/ Die(p)

LogSpec == LogInit /\ [][LogNext]_vars

\* A process runs on: its system calls return (the sleeps are bounded).
FairLogSpec == LogSpec /\ \A p \in Procs : WF_vars(Work(p))

-----------------------------------------------------------------------------

\* An event whose append returned can be read, in its place, until the rotation
\* deletes it with everything older; the one exception is an event appended
\* behind a line that a failure left torn (jsonl.js writes no newline first).
AckedReadable ==
  \A e \in acked \ merged : e \in Readable \/ \A f \in Readable : e < f

\* The log as a whole, active and rotated files, changes only at its ends: one
\* line is added or completed, or the oldest lines go (rotateJsonlIfNeeded, at
\* every one of its renames).
OnlyOldestDropped ==
  [][\/ Lines' = Lines
     \/ IsSuffix(Lines', Lines)
     \/ Len(Lines') = Len(Lines) + 1 /\ IsPrefix(Lines, Lines')
     \/ Last(Lines) = Torn /\ Lines' = Front(Lines) \o <<Garbage>>]_vars

\* No file is deleted while a slot is free, unless a rotation was interrupted
\* before and left a gap in the chain.
KeepsHistory ==
  [][Len(Lines') < Len(Lines) => broken \/ \A i \in 0..MaxFiles : files[i] # <<>>]_vars

\* Every append ends, with its line or with an error: acquireLock gives up
\* after its retries even when the lock is never released.
AppendEnds == \A p \in Procs : pc[p] = "opening" ~> pc[p] \in {"out", "dead"}
=============================================================================
