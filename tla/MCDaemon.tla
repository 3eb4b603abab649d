------------------------------- MODULE MCDaemon -------------------------------
(***************************************************************************)
(* An instance of Daemon for TLC: two daemons started at any moment, one   *)
(* of them by a restart, a stop, a client that asks and one that watches.  *)
(***************************************************************************)
EXTENDS Daemon

CONSTANTS p1, p2, p3, c1

MCCommandOf == [p \in Procs |-> IF p = p1 THEN "start" ELSE IF p = p2 THEN "restart" ELSE "stop"]
MCFilters   == {{"approval"}}
MCTypeOf    == [n \in 1 .. MaxEvents |-> IF n % 2 = 1 THEN "approval" ELSE "tool"]
=============================================================================
