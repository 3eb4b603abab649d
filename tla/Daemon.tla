-------------------------------- MODULE Daemon --------------------------------
(***************************************************************************)
(* myclaw daemon start, stop and restart: DaemonManager                    *)
(* (myclaw/src/daemon/manager.js), the pid file (daemon/pidfile.js), the   *)
(* signal handlers (cli/commands/daemon.js), and the gateway that a        *)
(* started process serves (Gateway).                                       *)
(*                                                                         *)
(* Every command is a process of its own; a system call is a step, and     *)
(* other processes run between any two.  Reading, probing and unlinking    *)
(* the pid file are not protected by a lock.                               *)
(***************************************************************************)
EXTENDS Gateway

CONSTANTS CommandOf, \* CommandOf[p]: "start", "stop" or "restart"
          Reusable,  \* processes whose pid may go to an unrelated program
          Signals,   \* SIGTERM, which stop sends, and those typed at a terminal
          Faults     \* "init": engine.init may throw, "write": so may the pid file

ASSUME DaemonAssumption ==
  /\ CommandOf \in [Procs -> {"start", "stop", "restart"}]
  /\ Reusable \subseteq Procs
  /\ Signals \subseteq {"SIGINT", "SIGTERM"}
  /\ Faults \subseteq {"init", "write"}

VARIABLES pc,     \* pc[p]: the next system call of process p
          doing,  \* doing[p]: why it is in stop(): its command, or "shutdown"
          seen,   \* seen[p]: the pid that p last read
          file,   \* the pid in the pid file
          port,   \* the process that listens on the port
          caught, \* caught[p]: signals whose handler has run (once)
          alien   \* dead processes whose pid an unrelated program has now

daemonVars == <<pc, doing, seen, file, port, caught, alien>>
vars       == <<gatewayVars, daemonVars>>

\* stop() is at "reading" to "removing", start() at "checking" to "serving".
StopPoints  == {"reading", "probing", "unlinking", "signalling", "exiting", "closing", "removing"}
StartPoints == {"checking", "checkProbing", "checkUnlinking", "checkAgain", "starting", "listening",
                "writing", "undoing", "serving"}
Live == StopPoints \cup StartPoints

DaemonTypeOK ==
  /\ ConnTypeOK
  /\ pc \in [Procs -> Live \cup {"none", "gone"}]
  /\ doing \in [Procs -> {"start", "stop", "restart", "shutdown"}]
  /\ seen \in [Procs -> Procs \cup {NoProc}]
  /\ file \in Procs \cup {NoProc} /\ port \in Procs \cup {NoProc}
  /\ caught \in [Procs -> SUBSET (Signals \cup {"SIGTERM"})]
  /\ alien \subseteq Reusable

DaemonInit ==
  /\ GatewayInit
  /\ pc = [p \in Procs |-> "none"]
  /\ doing = CommandOf
  /\ seen = [p \in Procs |-> NoProc]
  /\ file = NoProc /\ port = NoProc
  /\ caught = [p \in Procs |-> {}]
  /\ alien = {}

\* isPidRunning
Running(q) == q \in Procs /\ (pc[q] \in Live \/ q \in alien)

At(p, from) == pc[p] = from
To(p, to)   == pc' = [pc EXCEPT ![p] = to]

\* A step that only moves on.
Moves(p, to) == To(p, to) /\ UNCHANGED <<gatewayVars, doing, seen, port, caught>>

\* p ends, and with it its memory, its socket and its connections; next: where
\* the processes are then.
End(p, next) ==
  /\ pc' = [next EXCEPT ![p] = "gone"]
  /\ port' = IF port = p THEN NoProc ELSE port
  /\ doing' = [doing EXCEPT ![p] = CommandOf[p]]
  /\ seen' = [seen EXCEPT ![p] = NoProc]
  /\ caught' = [caught EXCEPT ![p] = {}]
  /\ Dropped(p)

Ends(p) == End(p, pc)

\* The pid file is left alone.
Leaves == UNCHANGED <<file, alien>>

Reads(p, to) ==
  /\ To(p, to)
  /\ seen' = [seen EXCEPT ![p] = file]
  /\ UNCHANGED <<gatewayVars, doing, port, caught>> /\ Leaves

-----------------------------------------------------------------------------

\* What stop() returns to: a restart begins to start unless a daemon runs,
\* a shutdown and the command exit.
Returns(p, running) ==
  IF doing[p] = "restart" /\ ~running THEN Moves(p, "checking") ELSE Ends(p)

\* stop(): readPidFile
ReadRecord(p) ==
  /\ At(p, "reading")
  /\ \/ file # NoProc /\ Reads(p, "probing")
     \/ file = NoProc /\ Returns(p, FALSE) /\ Leaves

\* isPidRunning, then what stop() does with the answer: the record of its own
\* process makes it close the server, which accepts no connection from then on.
Probe(p) ==
  /\ At(p, "probing")
  /\ \/ ~Running(seen[p]) /\ Moves(p, "unlinking")
     \/ /\ seen[p] = p
        /\ To(p, "closing") /\ port' = NoProc /\ UNCHANGED <<gatewayVars, doing, seen, caught>>
     \/ /\ Running(seen[p]) /\ seen[p] # p
        /\ IF doing[p] = "stop" THEN Moves(p, "signalling") ELSE Returns(p, TRUE)
  /\ Leaves

\* removePidFile after a dead process.
UnlinkStale(p) ==
  /\ At(p, "unlinking")
  /\ file' = NoProc
  /\ Returns(p, FALSE) /\ UNCHANGED alien

\* server.close calls back when no connection is left.
Closed(p) ==
  /\ At(p, "closing") /\ OpenAt(p) = {}
  /\ Moves(p, "removing") /\ Leaves

\* removePidFile and process.exit of a shutdown.
RemoveRecord(p) ==
  /\ At(p, "removing")
  /\ file' = NoProc
  /\ Returns(p, FALSE) /\ UNCHANGED alien

StopStep(p) == ReadRecord(p) \/ Probe(p) \/ UnlinkStale(p) \/ Closed(p) \/ RemoveRecord(p)

-----------------------------------------------------------------------------

\* start(): cleanupStalePid, with its three system calls.
Check(p) == At(p, "checking") /\ Reads(p, IF file = NoProc THEN "starting" ELSE "checkProbing")

\* A variant with a bug: a record is taken to be stale without a probe.
CheckProbeAssuming(p) ==
  /\ At(p, "checkProbing")
  /\ Moves(p, "checkUnlinking") /\ Leaves

CheckProbe(p) ==
  /\ At(p, "checkProbing")
  /\ Moves(p, IF Running(seen[p]) THEN "checkAgain" ELSE "checkUnlinking") /\ Leaves

CheckUnlink(p) ==
  /\ At(p, "checkUnlinking")
  /\ file' = NoProc
  /\ Moves(p, "starting") /\ UNCHANGED alien

\* The second probe: a running daemon is an error; one that ended since the
\* first probe leaves its record to be overwritten.
CheckAgain(p) ==
  /\ At(p, "checkAgain")
  /\ IF Running(seen[p]) THEN Ends(p) ELSE Moves(p, "starting")
  /\ Leaves

\* A variant with a bug: the record is written before the server listens.
InitRecorded(p) ==
  /\ At(p, "starting")
  /\ file' = p /\ Moves(p, "listening") /\ UNCHANGED alien

\* engine.init
InitEngine(p) ==
  /\ At(p, "starting")
  /\ Moves(p, "listening") \/ ("init" \in Faults /\ Moves(p, "undoing"))
  /\ Leaves

\* listen: nobody handles the error event if the port is taken.
Listen(p) ==
  /\ At(p, "listening")
  /\ IF port = NoProc
     THEN To(p, "writing") /\ port' = p /\ UNCHANGED <<gatewayVars, doing, seen, caught>>
     ELSE Ends(p)
  /\ Leaves

\* writePidFile, and on return the signal handlers; its failure closes the
\* server, which has no connection yet.
WriteRecord(p) ==
  /\ At(p, "writing")
  /\ \/ file' = p /\ Moves(p, "serving")
     \/ /\ "write" \in Faults /\ UNCHANGED file
        /\ To(p, "undoing") /\ port' = NoProc /\ UNCHANGED <<gatewayVars, doing, seen, caught>>
  /\ UNCHANGED alien

\* The catch of start(): removePidFile, and the error leaves the command.
Undo(p) ==
  /\ At(p, "undoing")
  /\ file' = NoProc
  /\ Ends(p) /\ UNCHANGED alien

StartStep(p) ==
  \/ Check(p) \/ CheckProbe(p) \/ CheckUnlink(p) \/ CheckAgain(p)
  \/ InitEngine(p) \/ Listen(p) \/ WriteRecord(p) \/ Undo(p)

-----------------------------------------------------------------------------

\* The command is typed.
Launch(p) ==
  /\ At(p, "none")
  /\ Moves(p, IF doing[p] = "start" THEN "checking" ELSE "reading") /\ Leaves

\* The handler of a signal runs once; the first of them shuts down.  Without
\* a handler the signal kills.  next: where the processes are otherwise.
Delivers(q, signal, next) ==
  IF (pc[q] = "serving" \/ doing[q] = "shutdown") /\ signal \notin caught[q]
  THEN /\ pc' = IF doing[q] = "shutdown" THEN next ELSE [next EXCEPT ![q] = "reading"]
       /\ doing' = [doing EXCEPT ![q] = "shutdown"]
       /\ caught' = [caught EXCEPT ![q] = @ \cup {signal}]
       /\ UNCHANGED <<gatewayVars, seen, port>>
  ELSE End(q, next)

\* Someone types Ctrl+C or kills the process.
Interrupt(q, signal) == pc[q] \in Live /\ Delivers(q, signal, pc) /\ Leaves

\* The stop command signals the pid that it read, whoever has it now (kill
\* fails if nobody has, or another user's program).
Signal(p) ==
  LET next == [pc EXCEPT ![p] = "exiting"] IN
  /\ At(p, "signalling") /\ UNCHANGED file
  /\ \/ pc[seen[p]] \in Live /\ Delivers(seen[p], "SIGTERM", next) /\ UNCHANGED alien
     \/ /\ pc[seen[p]] \notin Live /\ alien' \in {alien, alien \ {seen[p]}}
        /\ Moves(p, "exiting")

Exit(p) == At(p, "exiting") /\ Ends(p) /\ Leaves

\* The pid of a dead process goes to an unrelated program, which ends later.
Reuse(p) ==
  /\ p \in Reusable /\ pc[p] = "gone"
  /\ alien' = IF p \in alien THEN alien \ {p} ELSE alien \cup {p}
  /\ UNCHANGED <<gatewayVars, pc, doing, seen, file, port, caught>>

-----------------------------------------------------------------------------

\* The thread of p handles requests when it does nothing else.
Idle(p)   == p \in Procs /\ pc[p] \in {"serving", "closing"}
Server(c) == conn[c].server

\* A variant with a bug: a server that closes still accepts connections.
AcceptsClosing(p) == Idle(p)

Accepts(p) == pc[p] = "serving" /\ port = p

Arrive(c) ==
  /\ \E p \in Procs : Accepts(p) /\ (Request(c, p) \/ Subscribe(c, p))
  /\ UNCHANGED daemonVars

Handle(c) == Idle(Server(c)) /\ Handling(c) /\ UNCHANGED daemonVars

\* The query of a streamed answer throws: the head was sent, so the 500 of the
\* catch throws as well, and the rejection that nobody handles ends the process.
Break(c) ==
  /\ conn[c].at = "streaming" /\ Idle(Server(c))
  /\ Ends(Server(c)) /\ Leaves

Work(p) == StopStep(p) \/ StartStep(p) \/ Signal(p) \/ Exit(p)

DaemonNext ==
  \/ \E p \in Procs : Launch(p) \/ Work(p) \/ Reuse(p)
  \/ \E p \in Procs, signal \in Signals : Interrupt(p, signal)
  \/ \E p \in Procs : Idle(p) /\ Publish(p) /\ UNCHANGED daemonVars
  \/ \E c \in Clients : Arrive(c) \/ Handle(c) \/ Break(c)
  \/ \E c \in Clients : Leave(c) /\ UNCHANGED daemonVars

DaemonSpec == DaemonInit /\ [][DaemonNext]_vars

\* Processes run; bodies arrive (the server times out) and queries return.
FairDaemonSpec ==
  /\ DaemonSpec
  /\ \A p \in Procs : WF_vars(Work(p))
  /\ \A c \in Clients : WF_vars(Handle(c))

-----------------------------------------------------------------------------

\* Processes that will remove or replace the pid file without another look.
Replacing == {"unlinking", "checkUnlinking", "starting", "listening", "writing", "undoing"}

\* Why no process destroys a record that it saw alive: what a process read and
\* will replace names a dead process (no process id is used twice by daemons),
\* and a process that shuts down saw its own record.
RecordsSeen ==
  /\ \A p \in Procs :
       /\ pc[p] \in Replacing /\ seen[p] # NoProc => pc[seen[p]] \notin Live
       /\ pc[p] \in {"closing", "removing"} => seen[p] = p
       /\ pc[p] = "signalling" => seen[p] # NoProc
       /\ seen[p] # NoProc => pc[seen[p]] # "none"
  /\ file # NoProc => pc[file] # "none"

\* The record of a living daemon is removed or overwritten by itself only, or
\* by a process that read the pid file before that record was there: two
\* starts may collide, but none destroys a record that it has seen (and found
\* alive), whoever dies, shuts down or restarts meanwhile.
RecordKept ==
  [][\A p \in Procs :
       file = p /\ pc[p] \in Live /\ file' # p =>
         \E q \in Procs : pc'[q] # pc[q] /\ (q = p \/ seen[q] # p)]_vars

\* A record never names a process that is still starting: as long as the process
\* lives, it has the port and serves, or it is shutting down.
RecordNamesServer ==
  file # NoProc => pc[file] \in {"serving", "gone"} \/ doing[file] = "shutdown"

\* A shutdown ends, unless an event stream is open: nothing ends those.
ShutdownEnds ==
  \A p \in Procs : pc[p] = "closing" ~> (pc[p] # "closing" \/ Listeners(p) # {})
=============================================================================
