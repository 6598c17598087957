---------------------------- MODULE EventStream ----------------------------
(***************************************************************************)
(* From a provider run's events to the clients that watch the session:     *)
(* SessionManager.consume() numbers them, keeps a bounded history and      *)
(* tells the listeners; GET /sessions/:id/events replays the history from  *)
(* Last-Event-ID and then listens (routes/sessions.ts); a BoundedSseWriter *)
(* per connection queues what the socket does not take (sse-writer.ts).    *)
(*                                                                         *)
(* consume(), the handler and a drain of the socket are steps; whether the *)
(* socket takes a frame and asks for no more is chosen by the environment. *)
(* An envelope is its sequence number, its type and its size.  What the    *)
(* run may emit is the promise of TerminatedStream.                        *)
(***************************************************************************)
EXTENDS Integers, Sequences

CONSTANTS
    Connections,        \* SSE requests
    Sizes,              \* the sizes an envelope may have
    MaxEvents,          \* bound on the events of the run
    MaxStoredEvents,    \* MAX_STORED_EVENTS_PER_SESSION
    MaxStoredBytes,     \* MAX_STORED_EVENT_BYTES_PER_SESSION
    MaxQueuedEvents,    \* MAX_QUEUED_EVENTS
    MaxQueuedBytes      \* MAX_QUEUED_BYTES

ASSUME StreamAssumption ==
    /\ Sizes \subseteq Nat
    /\ {MaxEvents, MaxStoredEvents, MaxStoredBytes, MaxQueuedEvents, MaxQueuedBytes} \subseteq Nat

VARIABLES
    consumer,       \* consume(): reading, failing (an oversized event), ended
    nextSequence,
    emitted,        \* every envelope the listeners were told of
    history,        \* runtime.events
    replayBytes, replayFull,
    kept,           \* is the session still known (not removed, not evicted)?
    listeners,      \* runtime.listeners
    writer,         \* the writer of each connection
    opened,         \* the connections that were made
    left            \* those the client, or its network, closed

sessionVars == <<consumer, nextSequence, emitted, history, replayBytes, replayFull>>
vars == <<sessionVars, kept, listeners, writer, opened, left>>

(* Three types are enough: an event that is not terminal, the terminal      *)
(* event of a run whatever it is, and the failure consume() makes itself.   *)
Terminal == {"terminal", "session.failed"}
Types == {"event", "terminal", "session.failed"}
Envelopes == [sequence : Nat, type : Types, bytes : Nat]

Writers == [since : Nat,            \* the handler's sinceIndex
            stored : Nat,           \* how long the history was then
            sent : Seq(Envelopes),  \* the frames handed to the socket
            queue : Seq(Envelopes), queuedBytes : Int,
            backpressured : BOOLEAN,
            terminalReceived : BOOLEAN, endAfterDrain : BOOLEAN, closed : BOOLEAN]

NewWriter == [since |-> 0, stored |-> 0, sent |-> <<>>, queue |-> <<>>, queuedBytes |-> 0,
              backpressured |-> FALSE, terminalReceived |-> FALSE,
              endAfterDrain |-> FALSE, closed |-> FALSE]

TypeOK ==
    /\ consumer \in {"reading", "failing", "ended"}
    /\ nextSequence \in Nat
    /\ emitted \in Seq(Envelopes)
    /\ history \in Seq(Envelopes)
    /\ replayBytes \in 0..MaxStoredBytes
    /\ replayFull \in BOOLEAN
    /\ kept \in BOOLEAN
    /\ listeners \subseteq opened /\ left \subseteq opened /\ opened \subseteq Connections
    /\ writer \in [Connections -> Writers]

Init ==
    /\ consumer = "reading" /\ nextSequence = 0
    /\ emitted = <<>> /\ history = <<>> /\ replayBytes = 0 /\ replayFull = FALSE
    /\ kept = TRUE
    /\ listeners = {} /\ opened = {} /\ left = {}
    /\ writer = [c \in Connections |-> NewWriter]

-----------------------------------------------------------------------------
(* BoundedSseWriter.  Its drain listener is armed exactly while it is       *)
(* backpressured and open.                                                  *)
IsTerminal(e) == e.type \in Terminal

(* #finish(): whatever is queued is dropped. *)
Finished(w) == [w EXCEPT !.closed = TRUE, !.queue = <<>>, !.queuedBytes = 0]

(* Mutant: a terminal frame that the socket took with a "no more" is        *)
(* forgotten, and its connection never ends.                                *)
HandOffForgets(w, e, ready) ==
    LET v == [w EXCEPT !.sent = Append(@, e)] IN
    CASE ready /\ IsTerminal(e) -> Finished(v)
      [] ready /\ ~IsTerminal(e) -> v
      [] OTHER -> [v EXCEPT !.backpressured = TRUE]

(* #handOff(): the socket always takes the frame; ready says whether it     *)
(* wants another.                                                           *)
HandOff(w, e, ready) ==
    LET v == [w EXCEPT !.sent = Append(@, e)] IN
    CASE ready /\ IsTerminal(e) -> Finished(v)
      [] ready /\ ~IsTerminal(e) -> v
      [] OTHER -> [v EXCEPT !.backpressured = TRUE, !.endAfterDrain = IsTerminal(e)]

Overflows(w, e) ==
    \/ Len(w.queue) >= MaxQueuedEvents
    \/ w.queuedBytes + e.bytes > MaxQueuedBytes

(* write() *)
Write(w, e, ready) ==
    LET v == [w EXCEPT !.terminalReceived = IsTerminal(e)] IN
    CASE w.closed \/ w.terminalReceived -> w
      [] ~w.closed /\ ~w.terminalReceived /\ ~w.backpressured -> HandOff(v, e, ready)
      [] ~w.closed /\ ~w.terminalReceived /\ w.backpressured /\ Overflows(w, e) -> Finished(v)
      [] OTHER -> [v EXCEPT !.queue = Append(@, e), !.queuedBytes = @ + e.bytes]

(* One turn of the loop in #handleDrain(). *)
Shift(w, ready) ==
    HandOff([w EXCEPT !.queue = Tail(@), !.queuedBytes = @ - Head(w.queue).bytes],
            Head(w.queue), ready)

(* The loop, when the socket takes frames until the k-th. *)
Drained(w, k) ==
    LET n == IF k < Len(w.queue) THEN k ELSE Len(w.queue)
        after[i \in 0..n] == IF i = 0 THEN [w EXCEPT !.backpressured = FALSE]
                             ELSE Shift(after[i - 1], i # k)
    IN after[n]

-----------------------------------------------------------------------------
(* consume() *)

(* Mutant: no latch, and a later, smaller event slips in after a gap. *)
StoreEnvelopeUnlatched(e) ==
    IF Len(history) < MaxStoredEvents /\ replayBytes + e.bytes <= MaxStoredBytes
    THEN /\ history' = Append(history, e)
         /\ replayBytes' = replayBytes + e.bytes
         /\ UNCHANGED replayFull
    ELSE replayFull' = TRUE /\ UNCHANGED <<history, replayBytes>>

(* storeEnvelope(): the first envelope that does not fit ends the history. *)
StoreEnvelope(e) ==
    IF ~replayFull /\ Len(history) < MaxStoredEvents /\ replayBytes + e.bytes <= MaxStoredBytes
    THEN /\ history' = Append(history, e)
         /\ replayBytes' = replayBytes + e.bytes
         /\ UNCHANGED replayFull
    ELSE replayFull' = TRUE /\ UNCHANGED <<history, replayBytes>>

(* Mutant: only what is stored is announced (the defect AD-01 repaired). *)
AnnounceStored(e) ==
    /\ emitted' = Append(emitted, e)
    /\ StoreEnvelope(e)
    /\ IF replayFull' THEN UNCHANGED <<writer, listeners>>
       ELSE \E ready \in [listeners -> BOOLEAN] :
              /\ writer' = [c \in Connections |->
                    IF c \in listeners THEN Write(writer[c], e, ready[c]) ELSE writer[c]]
              /\ listeners' = {c \in listeners : ~writer'[c].closed}
    /\ UNCHANGED <<kept, opened, left>>

(* An envelope is stored, if it can be, and every listener is told; a       *)
(* writer that closes itself unsubscribes.                                  *)
Announce(e) ==
    /\ emitted' = Append(emitted, e)
    /\ StoreEnvelope(e)
    /\ \E ready \in [listeners -> BOOLEAN] :
          /\ writer' = [c \in Connections |->
                IF c \in listeners THEN Write(writer[c], e, ready[c]) ELSE writer[c]]
          /\ listeners' = {c \in listeners : ~writer'[c].closed}
    /\ UNCHANGED <<kept, opened, left>>

(* The run's next event. *)
ConsumeEvent ==
    /\ consumer = "reading"
    /\ \E type \in {"event", "terminal"}, bytes \in Sizes :
          /\ type \in Terminal \/ nextSequence < MaxEvents
          /\ Announce([sequence |-> nextSequence, type |-> type, bytes |-> bytes])
          /\ consumer' = IF type \in Terminal THEN "ended" ELSE "reading"
    /\ nextSequence' = nextSequence + 1

(* An event too large for an envelope: the run is cancelled, and waited     *)
(* for.                                                                     *)
ConsumeOversized ==
    /\ consumer = "reading" /\ nextSequence < MaxEvents
    /\ consumer' = "failing"
    /\ nextSequence' = nextSequence + 1
    /\ UNCHANGED <<emitted, history, replayBytes, replayFull, kept, listeners, writer, opened, left>>

(* Mutant: the loop is not left. *)
ConsumeFailsOnly ==
    /\ consumer = "failing"
    /\ \E bytes \in Sizes :
          Announce([sequence |-> nextSequence - 1, type |-> "session.failed", bytes |-> bytes])
    /\ consumer' = "reading"
    /\ UNCHANGED nextSequence

(* A failure takes its place, under the same sequence number, and the loop  *)
(* is left.                                                                 *)
ConsumeFails ==
    /\ consumer = "failing"
    /\ \E bytes \in Sizes :
          Announce([sequence |-> nextSequence - 1, type |-> "session.failed", bytes |-> bytes])
    /\ consumer' = "ended"
    /\ UNCHANGED nextSequence

(* remove(), or the retention of completed sessions: the session is no      *)
(* longer known; consume() goes on with the runtime it holds.               *)
Forget ==
    /\ kept
    /\ kept' = FALSE
    /\ UNCHANGED <<sessionVars, listeners, writer, opened, left>>

-----------------------------------------------------------------------------
(* GET /sessions/:sessionId/events *)

(* Mutant: Last-Event-ID itself is the first to be replayed. *)
ReplayedAgain(since, k) ==
    LET from == IF since = 0 THEN 0 ELSE since - 1
        n == IF from < Len(history) THEN Len(history) - from ELSE 0
        after[i \in 0..n] ==
            IF i = 0 THEN [NewWriter EXCEPT !.since = since, !.stored = Len(history),
                                            !.backpressured = (k = 0)]
            ELSE Write(after[i - 1], history[from + i], i # k)
    IN after[n]

(* The opening comment (frame 0) and the stored events from since on, the   *)
(* socket asking for no more at the k-th.                                   *)
Replayed(since, k) ==
    LET n == IF since < Len(history) THEN Len(history) - since ELSE 0
        after[i \in 0..n] ==
            IF i = 0 THEN [NewWriter EXCEPT !.since = since, !.stored = Len(history),
                                            !.backpressured = (k = 0)]
            ELSE Write(after[i - 1], history[since + i], i # k)
    IN after[n]

(* The handler, which has no await: the replay, and then the connection     *)
(* listens.                                                                 *)
(* Last-Event-ID is absent, or names an event the client has seen.  When    *)
(* the session is over and its terminal event is not among the replayed     *)
(* ones, the connection is finished (finishReplay).                         *)
Open(c) ==
    /\ kept /\ c \notin opened
    /\ \E since \in 0..Len(emitted), k \in 0..Len(history) + 1 :
          LET w == Replayed(since, k) IN
          writer' = [writer EXCEPT ![c] = IF consumer = "ended" /\ ~w.closed /\ ~w.terminalReceived
                                          THEN Finished(w) ELSE w]
    /\ listeners' = IF writer'[c].closed THEN listeners ELSE listeners \union {c}
    /\ opened' = opened \union {c}
    /\ UNCHANGED <<sessionVars, kept, left>>

(* The socket is ready again. *)
Drain(c) ==
    /\ c \in opened /\ ~writer[c].closed /\ writer[c].backpressured
    /\ \/ /\ writer[c].endAfterDrain
          /\ writer' = [writer EXCEPT ![c] = Finished(@)]
       \/ /\ ~writer[c].endAfterDrain
          /\ \E k \in 1..Len(writer[c].queue) + 1 :
                writer' = [writer EXCEPT ![c] = Drained(@, k)]
    /\ listeners' = {d \in listeners : ~writer'[d].closed}
    /\ UNCHANGED <<sessionVars, kept, opened, left>>

(* The client goes away, or a write to its socket throws. *)
Close(c) ==
    /\ c \in opened /\ ~writer[c].closed
    /\ writer' = [writer EXCEPT ![c] = Finished(@)]
    /\ listeners' = listeners \ {c}
    /\ left' = left \union {c}
    /\ UNCHANGED <<sessionVars, kept, opened>>

-----------------------------------------------------------------------------
Next ==
    \/ ConsumeEvent \/ ConsumeOversized \/ ConsumeFails \/ Forget
    \/ \E c \in Connections : Open(c) \/ Drain(c) \/ Close(c)

Spec == Init /\ [][Next]_vars

-----------------------------------------------------------------------------
(* Properties *)

(* "events[index] keeps meaning exactly the event whose own sequence field  *)
(* is index" (storeEnvelope): on it rests the replay from Last-Event-ID.    *)
(* Neither cap, in any order of large and small events, nor the failure     *)
(* that replaces an oversized event breaks it.                              *)
HistoryIsIndexed ==
    \A i \in 1..Len(history) : history[i] = emitted[i] /\ history[i].sequence = i - 1

(* "Exactly one terminal event, always last" (docs/protocol-v1.md) survives *)
(* the consumer, which may put a failure of its own in place of an event.   *)
Promised == INSTANCE TerminatedStream
                WITH stream <- [i \in 1..Len(emitted) |-> emitted[i].type],
                     over <- consumer = "ended"
ImplementsTerminatedStream == Promised!Spec

Frames(w) == w.sent \o w.queue

(* What a connection was sent, or has waiting, are the session's own        *)
(* events, from its first one on, none twice, none out of order and none    *)
(* missing; only a client that came after the history was full misses what  *)
(* was not kept.                                                            *)
FramesInOrder ==
    \A c \in opened : LET f == Frames(writer[c]) IN
        /\ \A i \in 1..Len(f) : f[i] = emitted[f[i].sequence + 1]
        /\ \A i \in 2..Len(f) : \/ f[i].sequence = f[i - 1].sequence + 1
                                \/ replayFull /\ f[i - 1].sequence = Len(history) - 1
        /\ f # <<>> => \/ Head(f).sequence = writer[c].since
                       \/ replayFull /\ writer[c].since >= Len(history)

(* A slow client costs a bounded amount of memory, counted correctly. *)
QueueIsBounded ==
    \A c \in opened : LET q == writer[c].queue
                          total[i \in 0..Len(q)] == IF i = 0 THEN 0 ELSE total[i - 1] + q[i].bytes
                      IN /\ Len(q) <= MaxQueuedEvents
                         /\ writer[c].queuedBytes = total[Len(q)]
                         /\ total[Len(q)] <= MaxQueuedBytes

(* Nobody hangs and nobody is told twice: the listeners are the open        *)
(* connections, and once the session is over, an open connection is only    *)
(* waiting for its socket to take the terminal event.                       *)
NobodyHangs ==
    /\ listeners = {c \in opened : ~writer[c].closed}
    /\ consumer = "ended" => \A c \in listeners :
          /\ writer[c].backpressured
          /\ \/ writer[c].endAfterDrain
             \/ writer[c].queue # <<>> /\ IsTerminal(writer[c].queue[Len(writer[c].queue)])

(* "A fresh SSE subscriber gets the full stored history replayed"           *)
(* (docs/protocol-v1.md): a connection that the daemon, not the client,     *)
(* ended was sent all that was stored when it came.                         *)
ReplayIsComplete ==
    \A c \in opened \ left :
        writer[c].closed => writer[c].since + Len(writer[c].sent) >= writer[c].stored

(* Fairness: a run that was cancelled for an oversized event ends (that is  *)
(* ProviderRun's CancelledRunEnds), and a client whose socket is full reads *)
(* or goes away; one that has taken everything may stay for ever.           *)
FairSpec ==
    /\ Spec
    /\ WF_vars(ConsumeFails)
    /\ \A c \in Connections : WF_vars(writer[c].backpressured /\ (Drain(c) \/ Close(c)))

(* When the session is over, every stream ends. *)
StreamsEnd ==
    \A c \in Connections : c \in opened /\ consumer = "ended" ~> writer[c].closed
=============================================================================
