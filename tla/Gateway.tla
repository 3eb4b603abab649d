------------------------------- MODULE Gateway -------------------------------
(***************************************************************************)
(* The HTTP server of the gateway (myclaw/src/gateway/index.js) with the   *)
(* event bus of its process (myclaw/src/events/bus.js): the connections    *)
(* that a server has, and what an event stream receives.                   *)
(*                                                                         *)
(* Requests that are answered before any await (health, status, lists,     *)
(* unknown paths, refused tokens) leave nothing behind and are not here;   *)
(* what decisions about approvals and proposals do, see ApprovalBroker and *)
(* MemoryProposals.  The module has no Next: Daemon composes it with the   *)
(* processes that serve.                                                   *)
(***************************************************************************)
EXTENDS Integers, Sequences, FiniteSets, SequencesExt

CONSTANTS Clients,   \* clients, each with one connection at a time
          Procs,     \* processes that may serve
          NoProc,
          Admins,    \* clients that send the admin token
          Filters,   \* sets of event types that a stream may ask for
          TypeOf,    \* TypeOf[n]: the type of the nth event of a process
          Limit,     \* limit of the stream's query
          MaxRecent, \* maxRecentEvents
          MaxEvents  \* bound of the model: events published by a process

ASSUME GatewayAssumption ==
  /\ NoProc \notin Procs
  /\ Admins \subseteq Clients
  /\ MaxEvents \in Nat /\ MaxRecent \in Nat \ {0} /\ Limit \in Nat \ {0}

VARIABLES conn,     \* conn[c]: the connection of client c
          recent,   \* recent[p]: _recent of p's bus, events by their number
          published \* published[p]: events published by p so far

gatewayVars == <<conn, recent, published>>

\* at: the await the handler is at; listening: an event stream.  open: the
\* client is still connected.  since: what was published when the stream
\* subscribed.  got: events written to the stream.
NoConn == [at |-> "none", server |-> NoProc, open |-> FALSE, filter |-> {}, since |-> 0, got |-> <<>>]

ConnTypeOK ==
  /\ conn \in [Clients -> [at : {"none", "reading", "querying", "streaming", "listening"},
                           server : Procs \cup {NoProc}, open : BOOLEAN,
                           filter : Filters \cup {{}}, since : Nat, got : Seq(Nat)]]
  /\ recent \in [Procs -> Seq(Nat)] /\ \A p \in Procs : Len(recent[p]) <= MaxRecent
  /\ published \in [Procs -> Nat]

GatewayInit ==
  /\ conn = [c \in Clients |-> NoConn]
  /\ recent = [p \in Procs |-> <<>>]
  /\ published = [p \in Procs |-> 0]

\* The connections that server.close waits for.
OpenAt(p)    == {c \in Clients : conn[c].server = p /\ conn[c].open}
Listeners(p) == {c \in Clients : conn[c].server = p /\ conn[c].at = "listening"}

\* p is gone, and its connections and its bus with it.
Dropped(p) ==
  /\ conn' = [c \in Clients |-> IF conn[c].server = p THEN NoConn ELSE conn[c]]
  /\ recent' = [recent EXCEPT ![p] = <<>>]
  /\ published' = [published EXCEPT ![p] = 0]

Waits(c, at) == conn' = [conn EXCEPT ![c].at = at] /\ UNCHANGED <<recent, published>>
Closes(c)    == conn' = [conn EXCEPT ![c] = NoConn] /\ UNCHANGED <<recent, published>>

-----------------------------------------------------------------------------

\* A variant with a bug: the oldest of the recent events.
RecentOldest(p) == SubSeq(recent[p], 1, IF Len(recent[p]) < Limit THEN Len(recent[p]) ELSE Limit)

\* recent(limit)
Recent(p) ==
  SubSeq(recent[p], IF Len(recent[p]) > Limit THEN Len(recent[p]) - Limit + 1 ELSE 1, Len(recent[p]))

\* matchesEventFilters, for the first events up to each of them.
MatchingUpto(events, filter) ==
  LET upto[i \in 0 .. Len(events)] ==
        IF i = 0 THEN <<>>
        ELSE IF TypeOf[events[i]] \in filter THEN Append(upto[i - 1], events[i]) ELSE upto[i - 1]
  IN upto
Matching(events, filter) == MatchingUpto(events, filter)[Len(events)]

\* _handleEventsSse: recent events, then the subscription, in one step.
Subscribe(c, p) ==
  /\ c \in Admins /\ conn[c] = NoConn
  /\ \E filter \in Filters :
       conn' = [conn EXCEPT ![c] = [at |-> "listening", server |-> p, open |-> TRUE, filter |-> filter,
                                    since |-> published[p], got |-> Matching(Recent(p), filter)]]
  /\ UNCHANGED <<recent, published>>

\* The oldest ones beyond maxRecentEvents are dropped.
Kept(events) ==
  IF Len(events) > MaxRecent THEN SubSeq(events, Len(events) - MaxRecent + 1, Len(events)) ELSE events

\* publish: the new event is kept, and every listener writes it to its stream.
Publish(p) ==
  LET n == published[p] + 1 IN
  /\ n <= MaxEvents
  /\ published' = [published EXCEPT ![p] = n]
  /\ recent' = [recent EXCEPT ![p] = Kept(Append(@, n))]
  /\ conn' = [c \in Clients |-> IF c \in Listeners(p)
                                THEN [conn[c] EXCEPT !.got = @ \o Matching(<<n>>, conn[c].filter)]
                                ELSE conn[c]]

\* The head of a request with a body has arrived: _readBody.
Request(c, p) ==
  /\ conn[c] = NoConn
  /\ conn' = [conn EXCEPT ![c] = [NoConn EXCEPT !.at = "reading", !.server = p, !.open = TRUE]]
  /\ UNCHANGED <<recent, published>>

\* The body has arrived.  Either it is answered at once (no message, a
\* decision, a new session), or the agent runs, perhaps with a streamed
\* answer, whose head is written first.
HasBody(c) ==
  /\ conn[c].at = "reading"
  /\ Closes(c) \/ Waits(c, "querying") \/ Waits(c, "streaming")

\* engine.run returns or throws: 200 or 500.
Respond(c) == conn[c].at = "querying" /\ Closes(c)

\* The last event of a streamed answer.
EndStream(c) == conn[c].at = "streaming" /\ Closes(c)

\* The client goes.  Nobody waits for the body of its request any longer (the
\* request's error is answered into the void); its stream unsubscribes; but a
\* query runs on.
Leave(c) ==
  /\ conn[c].open
  /\ IF conn[c].at \in {"querying", "streaming"}
     THEN conn' = [conn EXCEPT ![c].open = FALSE] /\ UNCHANGED <<recent, published>>
     ELSE Closes(c)

Handling(c) == HasBody(c) \/ Respond(c) \/ EndStream(c)

-----------------------------------------------------------------------------

Numbers(from, to) == [i \in 1 .. to - from + 1 |-> from + i - 1]

\* An event stream receives, of the types that it asked for, the last events
\* before it subscribed (as many as it wants and the bus still has) and every
\* event since, in their order and once each.
StreamContiguous ==
  \A c \in Clients : conn[c].at = "listening" =>
    LET last == published[conn[c].server] IN
    \E from \in 1 .. conn[c].since + 1 :
      /\ conn[c].got = Matching(Numbers(from, last), conn[c].filter)
      /\ conn[c].since - from + 1 = Min({Limit, MaxRecent, conn[c].since})
=============================================================================
