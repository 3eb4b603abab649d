------------------------------ MODULE Streaming ------------------------------
(***************************************************************************)
(* StreamHandler and streamChat (myclaw/src/streaming/index.js), and the   *)
(* error classes of the providers (myclaw/src/provider/errors.js): what    *)
(* becomes of an answer that arrives as server-sent events, cut into       *)
(* chunks anywhere and perhaps closed too early, and of a failed request.  *)
(*                                                                         *)
(* The text on the wire is a sequence of symbols.  An event is one line    *)
(* and two line feeds; a line comes in two halves, so that a chunk may end *)
(* inside a line, between the line feeds, or between two events.           *)
(***************************************************************************)
EXTENDS Integers, Sequences, FiniteSets, SequencesExt

CONSTANTS Indexes,    \* indexes of the tool calls in one answer
          WireLength  \* number of events in the answers that StreamWhole looks at

ASSUME WireAssumption == Indexes \subseteq Nat \ {0} /\ WireLength \in Nat

\* What an event says: the nth piece of the text, the nth piece of call c, the
\* finish reason or [DONE], or nothing that JSON.parse accepts.
Text(n)        == [kind |-> "text", call |-> 0, piece |-> n]
Fragment(c, n) == [kind |-> "call", call |-> c, piece |-> n]
Ending         == [kind |-> "stop", call |-> 0, piece |-> 0]
Junk           == [kind |-> "junk", call |-> 0, piece |-> 0]

Half(h, data) == [half |-> h, data |-> data]
LineFeed      == Half(0, Junk)
Wire(says)    ==
  [k \in 1 .. 4 * Len(says) |->
     IF k % 4 \in {1, 2} THEN Half(k % 4, says[k \div 4 + 1]) ELSE LineFeed]

-----------------------------------------------------------------------------

\* dones: how often onDone was called.
NewHandler == [buffer |-> <<>>, text |-> <<>>, calls |-> [c \in Indexes |-> <<>>],
               finished |-> FALSE, dones |-> 0]

\* split('\n\n'): all parts but the last one, and the last one, after each of
\* the first symbols.
TakeSymbol(parts, x) ==
  IF x = LineFeed /\ parts.rest # <<>> /\ Last(parts.rest) = LineFeed
  THEN [events |-> Append(parts.events, Front(parts.rest)), rest |-> <<>>]
  ELSE [events |-> parts.events, rest |-> Append(parts.rest, x)]

SplitUpto(symbols) ==
  LET upto[i \in 0 .. Len(symbols)] ==
        IF i = 0 THEN [events |-> <<>>, rest |-> <<>>] ELSE TakeSymbol(upto[i - 1], symbols[i])
  IN upto
Split(symbols) == SplitUpto(symbols)[Len(symbols)]

\* The data of an event: of its last whole line, if it has one.
WholeLines(event) == {i \in 1 .. Len(event) - 1 : event[i].half = 1 /\ event[i + 1].half = 2}
DataOf(event) ==
  IF WholeLines(event) = {} THEN Junk
  ELSE event[CHOOSE i \in WholeLines(event) : \A j \in WholeLines(event) : j <= i].data

Finish_(handler) ==
  IF handler.finished THEN handler ELSE [handler EXCEPT !.finished = TRUE, !.dones = @ + 1]

\* _processEvent: pieces of a call are joined by the index of the call.
ProcessEvent(handler, event) ==
  LET data == DataOf(event) IN
  CASE data.kind = "text" -> [handler EXCEPT !.text = Append(@, data.piece)]
    [] data.kind = "call" -> [handler EXCEPT !.calls[data.call] = Append(@, data.piece)]
    [] data.kind = "stop" -> Finish_(handler)
    [] data.kind = "junk" -> handler

\* The handler after each of the first events.
ProcessUpto(handler, events) ==
  LET upto[i \in 0 .. Len(events)] ==
        IF i = 0 THEN handler ELSE ProcessEvent(upto[i - 1], events[i])
  IN upto
ProcessAll(handler, events) == ProcessUpto(handler, events)[Len(events)]

\* A variant with a bug: what follows the last event is not kept.
ProcessWhole(handler, chunk) == ProcessAll(handler, Split(handler.buffer \o chunk).events)

\* processChunk: every complete event; the buffer keeps what follows them.
ProcessChunk(handler, chunk) ==
  LET parts == Split(handler.buffer \o chunk)
  IN ProcessAll([handler EXCEPT !.buffer = parts.rest], parts.events)

\* The end of streamChat: an answer without an end is flushed and ended.
Flush(handler) ==
  IF handler.finished THEN handler
  ELSE Finish_(ProcessChunk(handler, <<LineFeed, LineFeed>>))

\* The handler after each of the first chunks, and at the end of all.
ReadUpto(chunks) ==
  LET upto[i \in 0 .. Len(chunks)] ==
        IF i = 0 THEN NewHandler ELSE ProcessChunk(upto[i - 1], chunks[i])
  IN upto
Streamed(chunks) == Flush(ReadUpto(chunks)[Len(chunks)])

-----------------------------------------------------------------------------

\* categorizeError: by the status of the response, if there is one, and by the
\* words of the message; the first class that applies.
Statuses == {"none", "rate_limit", "auth", "server_error"}
Words    == {"none", "rate_limit", "auth", "server_error", "timeout", "network",
             "context_length", "content_filter"}

Category(status, word) ==
  LET found == SelectSeq(<<"rate_limit", "auth", "server_error">>,
                         LAMBDA category : category \in {status, word})
  IN IF found = <<>> THEN word ELSE Head(found)

Categories == {Category(status, word) : status \in Statuses, word \in Words}

Retryable == {"rate_limit", "server_error", "timeout", "network"}

-----------------------------------------------------------------------------

\* The answers of WireLength events: each piece is marked with its position.
EventsAt(i) == {Text(i), Ending, Junk} \cup {Fragment(c, i) : c \in Indexes}
Answers ==
  {says \in [1 .. WireLength -> UNION {EventsAt(i) : i \in 1 .. WireLength}] :
     \A i \in 1 .. WireLength : says[i] \in EventsAt(i)}

\* The pieces of text (call 0) or of a call among the first `seen' events, and
\* whether a sequence has the members of a set in their order, each once.
Pieces(says, seen, kind, c) == {i \in 1 .. seen : says[i].kind = kind /\ says[i].call = c}
Lists(seq, set) ==
  /\ {seq[i] : i \in DOMAIN seq} = set
  /\ \A i, j \in DOMAIN seq : i < j => seq[i] < seq[j]

\* However an answer is cut into chunks, and wherever the server closes it,
\* the result is what the events that arrived whole say, in their order, each
\* piece once; the event that only lacks its line feeds counts unless an end
\* was seen before; and onDone is called exactly once.
StreamWhole ==
  \A says \in Answers : \A n \in 0 .. 4 * WireLength : \A a \in 0 .. n : \A b \in a .. n :
    LET wire   == Wire(says)
        whole  == n \div 4
        ended  == \E i \in 1 .. whole : says[i] = Ending
        seen   == IF n % 4 >= 2 /\ ~ended THEN whole + 1 ELSE whole
        result == Streamed(<<SubSeq(wire, 1, a), SubSeq(wire, a + 1, b), SubSeq(wire, b + 1, n)>>)
    IN
    /\ Lists(result.text, Pieces(says, seen, "text", 0))
    /\ \A c \in Indexes : Lists(result.calls[c], Pieces(says, seen, "call", c))
    /\ result.dones = 1
=============================================================================
