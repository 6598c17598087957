-------------------- MODULE EventStreamConnectionProofs --------------------
(***************************************************************************)
(* Theorems about the connections of EventStream, for any number of        *)
(* connections and events, any sizes and any caps: what a client is sent   *)
(* is in order and complete, no open connection is forgotten when the      *)
(* session ends, and a slow client's queue is bounded and counted exactly. *)
(*                                                                         *)
(* A replay and a drain are loops of any length.  LEMMAs ReplayTurns and   *)
(* DrainTurns unfold them into their turns, and TurnByTurn carries a fact  *)
(* (ReplayedTo, DrainedTo) from one turn to the next.  StreamInv is the    *)
(* inductive invariant: per connection (Connection) the shape of its       *)
(* writer, the count of its queue, the order of its frames, and, which     *)
(* FramesInOrder does not say and needs, that a listening connection has   *)
(* caught up with the session.                                             *)
(***************************************************************************)
EXTENDS EventStreamProofs, SequenceTheorems, WellFoundedInduction

-----------------------------------------------------------------------------
(* The writer of a connection. *)

(* Of the queued frames, only the last may be terminal, and it is when a    *)
(* terminal event was received.                                             *)
QueueEnds(w) ==
    \A i \in 1..Len(w.queue) : IsTerminal(w.queue[i]) <=> i = Len(w.queue) /\ w.terminalReceived

(* A closed writer has nothing queued.  An open one queues only under       *)
(* backpressure, ends after a drain only when the terminal event is all it  *)
(* still waits for, and has its terminal event either there or in its queue.*)
Shape(w) ==
    /\ QueueEnds(w)
    /\ w.closed => w.queue = <<>>
    /\ ~w.closed =>
         /\ w.queue # <<>> => w.backpressured
         /\ w.endAfterDrain => w.backpressured /\ w.queue = <<>> /\ w.terminalReceived
         /\ w.terminalReceived => w.backpressured /\ (w.endAfterDrain \/ w.queue # <<>>)

(* The bytes of a queue, as QueueIsBounded adds them up. *)
Bytes(q) ==
    LET total[i \in 0..Len(q)] == IF i = 0 THEN 0 ELSE total[i - 1] + q[i].bytes
    IN total[Len(q)]

(* It has counted its queue, and kept it within the bounds. *)
Counted(w) ==
    /\ Len(w.queue) <= MaxQueuedEvents
    /\ w.queuedBytes = Bytes(w.queue)
    /\ w.queuedBytes <= MaxQueuedBytes

(* Its frames, sent and queued: the three parts of FramesInOrder. *)
OwnEvents(f) ==
    \A i \in 1..Len(f) : /\ f[i].sequence + 1 \in 1..Len(emitted)
                         /\ f[i] = emitted[f[i].sequence + 1]

NoneMissing(f) ==
    \A i \in 2..Len(f) : \/ f[i].sequence = f[i - 1].sequence + 1
                         \/ replayFull /\ f[i - 1].sequence = Len(history) - 1

StartsAt(f, since) ==
    Len(f) > 0 => \/ f[1].sequence = since
                  \/ replayFull /\ since >= Len(history)

InOrder(f, since) == OwnEvents(f) /\ NoneMissing(f) /\ StartsAt(f, since)

(* A connection that listens has everything up to the next event, or up to  *)
(* the end of a history that is full.                                       *)
CaughtUp(f, since) ==
    /\ Len(f) = 0 => \/ since = Len(emitted)
                     \/ replayFull /\ since >= Len(history)
    /\ Len(f) > 0 => \/ f[Len(f)].sequence + 1 = Len(emitted)
                     \/ replayFull /\ f[Len(f)].sequence + 1 = Len(history)

Connection(w) ==
    /\ w \in Writers
    /\ Shape(w) /\ Counted(w)
    /\ InOrder(Frames(w), w.since)
    /\ ~w.closed /\ ~w.terminalReceived => CaughtUp(Frames(w), w.since)
    /\ ~w.closed => (w.terminalReceived <=> consumer = "ended")

(* A terminal event is announced only when the consumer ends. *)
TerminalEnds == \A i \in 1..Len(emitted) : IsTerminal(emitted[i]) => consumer = "ended"

StreamInv ==
    /\ HistoryInv /\ TerminalEnds
    /\ replayBytes \in 0..MaxStoredBytes /\ kept \in BOOLEAN /\ left \subseteq opened
    /\ writer \in [Connections -> Writers]
    /\ listeners \subseteq opened /\ opened \subseteq Connections
    /\ \A c \in opened : c \in listeners <=> ~writer[c].closed
    /\ \A c \in opened : Connection(writer[c])

-----------------------------------------------------------------------------
(* Induction over the turns of a loop, on sets: the library's theorems take *)
(* the induction hypothesis as an operator, the well-foundedness of the     *)
(* natural numbers takes a set.                                             *)
LEMMA LeastTurn ==
    ASSUME NEW T, T \subseteq Nat, T # {}
    PROVE  \E m \in T : \A i \in T : m <= i
<1>1. PICK m \in T : \A i \in T : ~(<<i, m>> \in OpToRel(<, Nat))
  BY WFMin, NatLessThanWellFounded
<1>2. \A i \in T : i \in Nat /\ m \in Nat /\ ~(i < m)
  BY <1>1 DEF OpToRel
<1>3. \A i \in T : m <= i
  BY <1>2
<1>4. QED
  BY <1>3

(* A fact of turn 0 that goes from each turn to the next holds of them all. *)
LEMMA TurnByTurn ==
    ASSUME NEW n \in Nat, NEW T, 0 \in T,
           \A i \in 0..n : i < n /\ i \in T => i + 1 \in T
    PROVE  \A i \in 0..n : i \in T
<1> DEFINE U == {i \in 0..n : i \notin T}
<1>1. SUFFICES ASSUME U # {} PROVE FALSE
  OBVIOUS
<1>2. PICK m \in U : \A i \in U : m <= i
  <2>1. U \subseteq Nat
    OBVIOUS
  <2>2. QED
    BY <1>1, <2>1, LeastTurn
<1>3. m \in 0..n /\ m \notin T /\ m # 0
  OBVIOUS
<1>4. m - 1 \in 0..n /\ m - 1 < n /\ m - 1 + 1 = m
  BY <1>3
<1>5. m - 1 \notin U
  BY <1>2, <1>4
<1>6. QED
  BY <1>3, <1>4, <1>5

(* How many frames a replay writes, and the writer it starts from. *)
ReplayLength(since) == IF since < Len(history) THEN Len(history) - since ELSE 0
ReplayStart(since, k) ==
    [NewWriter EXCEPT !.since = since, !.stored = Len(history), !.backpressured = (k = 0)]

(* A replay is its loop: the writer after each frame exists, and is what    *)
(* Write() made of the one before.                                          *)
LEMMA ReplayTurns ==
    ASSUME NEW since \in Nat, NEW k \in Nat, history \in Seq(Envelopes)
    PROVE  /\ ReplayLength(since) \in Nat
           /\ \E turn : /\ turn[0] = ReplayStart(since, k)
                        /\ \A i \in 1..ReplayLength(since) :
                              turn[i] = Write(turn[i - 1], history[since + i], i # k)
                        /\ Replayed(since, k) = turn[ReplayLength(since)]
<1> DEFINE n == ReplayLength(since)
           Loop(f, m) == [i \in 0..m |-> IF i = 0 THEN ReplayStart(since, k)
                                         ELSE Write(f[i - 1], history[since + i], i # k)]
           T == {m \in 0..n : \E f : f = Loop(f, m)}
           turn == CHOOSE f : f = Loop(f, n)
<1>1. n \in Nat
  BY DEF ReplayLength
<1>2. 0 \in T
  <2>1. [i \in 0..0 |-> ReplayStart(since, k)] = Loop([i \in 0..0 |-> ReplayStart(since, k)], 0)
    OBVIOUS
  <2>2. \E f : f = Loop(f, 0)
    <3> HIDE DEF Loop
    <3>1. QED
      BY <2>1
  <2>3. QED
    BY <1>1, <2>2
<1>3. ASSUME NEW m \in 0..n, m < n, m \in T
      PROVE  m + 1 \in T
  <2>1. PICK f : f = Loop(f, m)
    BY <1>3
  <2> DEFINE g == [i \in 0..m + 1 |-> IF i <= m THEN f[i]
                                      ELSE Write(f[m], history[since + (m + 1)], m + 1 # k)]
  <2>2. ASSUME NEW i \in 0..m + 1
        PROVE  g[i] = Loop(g, m + 1)[i]
    <3>1. CASE i = 0
      BY <1>1, <2>1, <3>1
    <3>2. CASE i # 0 /\ i <= m
      <4>1. g[i] = f[i] /\ g[i - 1] = f[i - 1]
        BY <1>1, <3>2
      <4>2. f[i] = Write(f[i - 1], history[since + i], i # k)
        BY <1>1, <2>1, <3>2
      <4>3. QED
        BY <3>2, <4>1, <4>2
    <3>3. CASE i = m + 1
      <4>1. g[i - 1] = f[m] /\ i # 0
        BY <1>1, <3>3
      <4>2. QED
        BY <1>1, <3>3, <4>1
    <3>4. QED
      BY <1>1, <3>1, <3>2, <3>3
  <2>3. g = Loop(g, m + 1)
    BY <2>2
  <2>4. \E h : h = Loop(h, m + 1)
    <3> HIDE DEF Loop, g
    <3>1. QED
      BY <2>3
  <2>5. m + 1 \in 0..n
    BY <1>1, <1>3
  <2> HIDE DEF Loop
  <2>6. QED
    BY <2>4, <2>5
<1>4. n \in T
  <2> HIDE DEF T, n
  <2>1. \A m \in 0..n : m < n /\ m \in T => m + 1 \in T
    BY <1>3
  <2>2. \A m \in 0..n : m \in T
    BY <1>1, <1>2, <2>1, TurnByTurn
  <2>3. QED
    BY <1>1, <2>2
<1>5. turn = Loop(turn, n)
  <2> HIDE DEF Loop, n
  <2>1. \E f : f = Loop(f, n)
    BY <1>4
  <2>2. QED
    BY <2>1
<1>6. Replayed(since, k) = turn[n]
  BY DEF Replayed, ReplayLength, ReplayStart
<1>7. /\ turn[0] = ReplayStart(since, k)
      /\ \A i \in 1..n : turn[i] = Write(turn[i - 1], history[since + i], i # k)
  <2> HIDE DEF turn, n
  <2>1. QED
    BY <1>1, <1>5
<1>8. QED
  BY <1>1, <1>6, <1>7

(* How many frames a drain takes from the queue. *)
DrainLength(w, k) == IF k < Len(w.queue) THEN k ELSE Len(w.queue)

(* And so is a drain. *)
LEMMA DrainTurns ==
    ASSUME NEW w \in Writers, NEW k \in Nat
    PROVE  /\ DrainLength(w, k) \in Nat
           /\ \E turn : /\ turn[0] = [w EXCEPT !.backpressured = FALSE]
                        /\ \A i \in 1..DrainLength(w, k) : turn[i] = Shift(turn[i - 1], i # k)
                        /\ Drained(w, k) = turn[DrainLength(w, k)]
<1> DEFINE n == DrainLength(w, k)
           start == [w EXCEPT !.backpressured = FALSE]
           Loop(f, m) == [i \in 0..m |-> IF i = 0 THEN start ELSE Shift(f[i - 1], i # k)]
           T == {m \in 0..n : \E f : f = Loop(f, m)}
           turn == CHOOSE f : f = Loop(f, n)
<1>1. n \in Nat
  BY DEF DrainLength, Writers
<1>2. 0 \in T
  <2>1. [i \in 0..0 |-> start] = Loop([i \in 0..0 |-> start], 0)
    OBVIOUS
  <2>2. \E f : f = Loop(f, 0)
    <3> HIDE DEF Loop
    <3>1. QED
      BY <2>1
  <2>3. QED
    BY <1>1, <2>2
<1>3. ASSUME NEW m \in 0..n, m < n, m \in T
      PROVE  m + 1 \in T
  <2>1. PICK f : f = Loop(f, m)
    BY <1>3
  <2> DEFINE g == [i \in 0..m + 1 |-> IF i <= m THEN f[i] ELSE Shift(f[m], m + 1 # k)]
  <2> HIDE DEF start
  <2>2. ASSUME NEW i \in 0..m + 1
        PROVE  g[i] = Loop(g, m + 1)[i]
    <3>1. CASE i = 0
      BY <1>1, <2>1, <3>1
    <3>2. CASE i # 0 /\ i <= m
      <4>1. g[i] = f[i] /\ g[i - 1] = f[i - 1]
        BY <1>1, <3>2
      <4>2. f[i] = Shift(f[i - 1], i # k)
        BY <1>1, <2>1, <3>2
      <4>3. QED
        BY <3>2, <4>1, <4>2
    <3>3. CASE i = m + 1
      <4>1. g[i - 1] = f[m] /\ i # 0
        BY <1>1, <3>3
      <4>2. QED
        BY <1>1, <3>3, <4>1
    <3>4. QED
      BY <1>1, <3>1, <3>2, <3>3
  <2>3. g = Loop(g, m + 1)
    BY <2>2
  <2>4. \E h : h = Loop(h, m + 1)
    <3> HIDE DEF Loop, g
    <3>1. QED
      BY <2>3
  <2>5. m + 1 \in 0..n
    BY <1>1, <1>3
  <2> HIDE DEF Loop
  <2>6. QED
    BY <2>4, <2>5
<1>4. n \in T
  <2> HIDE DEF T, n
  <2>1. \A m \in 0..n : m < n /\ m \in T => m + 1 \in T
    BY <1>3
  <2>2. \A m \in 0..n : m \in T
    BY <1>1, <1>2, <2>1, TurnByTurn
  <2>3. QED
    BY <1>1, <2>2
<1>5. turn = Loop(turn, n)
  <2> HIDE DEF Loop, n
  <2>1. \E f : f = Loop(f, n)
    BY <1>4
  <2>2. QED
    BY <2>1
<1>6. Drained(w, k) = turn[n]
  BY DEF Drained, DrainLength
<1>7. turn[0] = start /\ \A i \in 1..n : turn[i] = Shift(turn[i - 1], i # k)
  <2> HIDE DEF turn, n, start
  <2>1. QED
    BY <1>1, <1>5
<1>8. QED
  BY <1>1, <1>6, <1>7

-----------------------------------------------------------------------------
(* What the writer's operations do, field by field. *)
LEMMA FinishedIs ==
    ASSUME NEW w \in Writers
    PROVE  /\ Finished(w) \in Writers
           /\ Finished(w).closed /\ Finished(w).queue = <<>> /\ Finished(w).queuedBytes = 0
           /\ Finished(w).sent = w.sent /\ Finished(w).since = w.since
           /\ Finished(w).terminalReceived = w.terminalReceived
<1>1. <<>> \in Seq(Envelopes) /\ 0 \in Int /\ TRUE \in BOOLEAN
  OBVIOUS
<1>2. Finished(w) \in Writers
  BY <1>1 DEF Finished, Writers
<1>3. Finished(w).closed /\ Finished(w).queue = <<>>
  BY DEF Finished, Writers
<1>4. QED
  BY <1>2, <1>3 DEF Finished, Writers

LEMMA TerminalIsBoolean ==
    ASSUME NEW e
    PROVE  IsTerminal(e) \in BOOLEAN
BY DEF IsTerminal

LEMMA HandOffIs ==
    ASSUME NEW w \in Writers, NEW e \in Envelopes, NEW ready \in BOOLEAN
    PROVE  LET v == HandOff(w, e, ready) IN
           /\ v \in Writers
           /\ v.since = w.since /\ v.sent = Append(w.sent, e)
           /\ v.terminalReceived = w.terminalReceived
           /\ ready /\ IsTerminal(e) => v.closed /\ v.queue = <<>>
           /\ ready /\ ~IsTerminal(e) =>
                 /\ v.closed = w.closed /\ v.queue = w.queue
                 /\ v.backpressured = w.backpressured /\ v.endAfterDrain = w.endAfterDrain
           /\ ~ready => /\ v.closed = w.closed /\ v.queue = w.queue
                        /\ v.backpressured /\ v.endAfterDrain = IsTerminal(e)
<1> DEFINE u == [w EXCEPT !.sent = Append(@, e)]
<1>1. u \in Writers /\ u.sent = Append(w.sent, e)
  <2>1. w.sent \in Seq(Envelopes)
    BY DEF Writers
  <2>2. Append(w.sent, e) \in Seq(Envelopes)
    BY <2>1, AppendProperties
  <2>3. QED
    BY <2>2 DEF Writers
<1>2. /\ u.since = w.since /\ u.terminalReceived = w.terminalReceived
      /\ u.closed = w.closed /\ u.queue = w.queue /\ u.stored = w.stored
      /\ u.queuedBytes = w.queuedBytes
      /\ u.backpressured = w.backpressured /\ u.endAfterDrain = w.endAfterDrain
  BY DEF Writers
<1>3. CASE ready /\ IsTerminal(e)
  <2>1. HandOff(w, e, ready) = Finished(u)
    BY <1>3 DEF HandOff
  <2> HIDE DEF u
  <2>2. QED
    BY <1>1, <1>2, <1>3, <2>1, FinishedIs
<1>4. CASE ready /\ ~IsTerminal(e)
  <2>1. HandOff(w, e, ready) = u
    BY <1>4 DEF HandOff
  <2> HIDE DEF u
  <2>2. QED
    BY <1>1, <1>2, <1>4, <2>1
<1>5. CASE ~ready
  <2>1. HandOff(w, e, ready) = [u EXCEPT !.backpressured = TRUE, !.endAfterDrain = IsTerminal(e)]
    BY <1>5 DEF HandOff
  <2> HIDE DEF u
  <2>2. QED
    BY <1>1, <1>2, <1>5, <2>1, TerminalIsBoolean DEF Writers
<1>6. QED
  BY <1>3, <1>4, <1>5

(* write() on a writer that is open and has seen no terminal event. *)
LEMMA WriteIs ==
    ASSUME NEW w \in Writers, NEW e \in Envelopes, NEW ready \in BOOLEAN,
           ~w.closed, ~w.terminalReceived
    PROVE  LET v == Write(w, e, ready) IN
           /\ v \in Writers
           /\ v.since = w.since /\ v.terminalReceived = IsTerminal(e)
           /\ \/ /\ ~w.backpressured /\ ready /\ IsTerminal(e)
                 /\ v.closed /\ v.sent = Append(w.sent, e) /\ v.queue = <<>>
              \/ /\ ~w.backpressured /\ ready /\ ~IsTerminal(e)
                 /\ ~v.closed /\ v.sent = Append(w.sent, e) /\ v.queue = w.queue
                 /\ ~v.backpressured /\ v.endAfterDrain = w.endAfterDrain
              \/ /\ ~w.backpressured /\ ~ready
                 /\ ~v.closed /\ v.sent = Append(w.sent, e) /\ v.queue = w.queue
                 /\ v.backpressured /\ v.endAfterDrain = IsTerminal(e)
              \/ /\ v.closed /\ v.sent = w.sent /\ v.queue = <<>>
              \/ /\ w.backpressured
                 /\ ~v.closed /\ v.sent = w.sent /\ v.queue = Append(w.queue, e)
                 /\ v.backpressured /\ v.endAfterDrain = w.endAfterDrain
<1> DEFINE u == [w EXCEPT !.terminalReceived = IsTerminal(e)]
<1>1. u \in Writers /\ u.terminalReceived = IsTerminal(e)
  BY TerminalIsBoolean DEF Writers
<1>2. /\ u.since = w.since /\ u.sent = w.sent
      /\ u.closed = w.closed /\ u.queue = w.queue /\ u.stored = w.stored
      /\ u.queuedBytes = w.queuedBytes
      /\ u.backpressured = w.backpressured /\ u.endAfterDrain = w.endAfterDrain
  BY DEF Writers
<1>3. CASE ~w.backpressured
  <2>1. Write(w, e, ready) = HandOff(u, e, ready)
    BY <1>3 DEF Write
  <2> HIDE DEF u
  <2>2. QED
    BY <1>1, <1>2, <1>3, <2>1, HandOffIs
<1>4. CASE w.backpressured /\ Overflows(w, e)
  <2>1. Write(w, e, ready) = Finished(u)
    BY <1>4 DEF Write
  <2> HIDE DEF u
  <2>2. QED
    BY <1>1, <1>2, <1>4, <2>1, FinishedIs
<1>5. CASE w.backpressured /\ ~Overflows(w, e)
  <2> DEFINE v == [u EXCEPT !.queue = Append(@, e), !.queuedBytes = @ + e.bytes]
  <2>1. Write(w, e, ready) = v
    BY <1>5 DEF Write
  <2> HIDE DEF u
  <2>2. Append(u.queue, e) \in Seq(Envelopes) /\ u.queuedBytes + e.bytes \in Int
    <3>1. u.queue \in Seq(Envelopes) /\ u.queuedBytes \in Int /\ e.bytes \in Nat
      BY <1>1 DEF Writers, Envelopes
    <3>2. QED
      BY <3>1
  <2>3. v \in Writers
    BY <1>1, <2>2 DEF Writers
  <2>4. /\ v.since = w.since /\ v.terminalReceived = IsTerminal(e)
        /\ ~v.closed /\ v.sent = w.sent /\ v.queue = Append(w.queue, e)
        /\ v.backpressured /\ v.endAfterDrain = w.endAfterDrain
    BY <1>1, <1>2, <1>5 DEF Writers
  <2> HIDE DEF v
  <2>5. QED
    BY <1>5, <2>1, <2>3, <2>4
<1>6. QED
  BY <1>3, <1>4, <1>5

(* A closed writer, and one that has seen its terminal event, take nothing. *)
LEMMA WriteIsIgnored ==
    ASSUME NEW w, NEW e, NEW ready, w.closed \/ w.terminalReceived
    PROVE  Write(w, e, ready) = w
BY DEF Write

(* One turn of a drain. *)
LEMMA ShiftIs ==
    ASSUME NEW w \in Writers, NEW ready \in BOOLEAN, w.queue # <<>>
    PROVE  LET v == Shift(w, ready)
               e == w.queue[1] IN
           /\ v \in Writers /\ e \in Envelopes
           /\ v.since = w.since /\ v.sent = Append(w.sent, e)
           /\ v.terminalReceived = w.terminalReceived
           /\ ready /\ IsTerminal(e) => v.closed /\ v.queue = <<>>
           /\ ready /\ ~IsTerminal(e) =>
                 /\ v.closed = w.closed /\ v.queue = Tail(w.queue)
                 /\ v.backpressured = w.backpressured /\ v.endAfterDrain = w.endAfterDrain
           /\ ~ready => /\ v.closed = w.closed /\ v.queue = Tail(w.queue)
                        /\ v.backpressured /\ v.endAfterDrain = IsTerminal(e)
<1> DEFINE u == [w EXCEPT !.queue = Tail(@), !.queuedBytes = @ - Head(w.queue).bytes]
<1>1. w.queue \in Seq(Envelopes) /\ w.queuedBytes \in Int
  BY DEF Writers
<1>2. /\ Head(w.queue) = w.queue[1] /\ Head(w.queue) \in Envelopes
      /\ Tail(w.queue) \in Seq(Envelopes)
  BY <1>1
<1>3. w.queuedBytes - Head(w.queue).bytes \in Int
  BY <1>1, <1>2 DEF Envelopes
<1>4. u \in Writers
  BY <1>2, <1>3 DEF Writers
<1>5. /\ u.since = w.since /\ u.sent = w.sent /\ u.terminalReceived = w.terminalReceived
      /\ u.closed = w.closed /\ u.queue = Tail(w.queue)
      /\ u.backpressured = w.backpressured /\ u.endAfterDrain = w.endAfterDrain
  BY DEF Writers
<1>6. Shift(w, ready) = HandOff(u, w.queue[1], ready)
  BY <1>2 DEF Shift
<1> HIDE DEF u
<1> DEFINE e == w.queue[1]
<1>7. e \in Envelopes
  BY <1>2
<1> HIDE DEF e
<1>8. Shift(w, ready) = HandOff(u, e, ready)
  BY <1>6 DEF e
<1>9. /\ HandOff(u, e, ready) \in Writers
      /\ HandOff(u, e, ready).since = u.since /\ HandOff(u, e, ready).sent = Append(u.sent, e)
      /\ HandOff(u, e, ready).terminalReceived = u.terminalReceived
  BY <1>4, <1>7, HandOffIs
<1>10. QED
  BY <1>4, <1>5, <1>7, <1>8, <1>9, HandOffIs DEF e

-----------------------------------------------------------------------------
(* The bytes of a queue: t adds them up. *)
AddsUp(t, q) == t[0] = 0 /\ \A i \in 1..Len(q) : t[i] = t[i - 1] + q[i].bytes

(* The sum exists, and Bytes is its last value. *)
LEMMA BytesAddUp ==
    ASSUME NEW q \in Seq(Envelopes)
    PROVE  \E t : AddsUp(t, q) /\ Bytes(q) = t[Len(q)]
<1> DEFINE n == Len(q)
           Loop(f, m) == [i \in 0..m |-> IF i = 0 THEN 0 ELSE f[i - 1] + q[i].bytes]
           T == {m \in 0..n : \E f : f = Loop(f, m)}
           t == CHOOSE f : f = Loop(f, n)
<1>1. n \in Nat
  OBVIOUS
<1>2. 0 \in T
  <2>1. [i \in 0..0 |-> 0] = Loop([i \in 0..0 |-> 0], 0)
    OBVIOUS
  <2>2. \E f : f = Loop(f, 0)
    <3> HIDE DEF Loop
    <3>1. QED
      BY <2>1
  <2>3. QED
    BY <1>1, <2>2
<1>3. ASSUME NEW m \in 0..n, m < n, m \in T
      PROVE  m + 1 \in T
  <2>1. PICK f : f = Loop(f, m)
    BY <1>3
  <2> DEFINE g == [i \in 0..m + 1 |-> IF i <= m THEN f[i] ELSE f[m] + q[m + 1].bytes]
  <2>2. ASSUME NEW i \in 0..m + 1
        PROVE  g[i] = Loop(g, m + 1)[i]
    <3>1. CASE i = 0
      BY <1>1, <2>1, <3>1
    <3>2. CASE i # 0 /\ i <= m
      <4>1. g[i] = f[i] /\ g[i - 1] = f[i - 1]
        BY <1>1, <3>2
      <4>2. f[i] = f[i - 1] + q[i].bytes
        BY <1>1, <2>1, <3>2
      <4>3. QED
        BY <3>2, <4>1, <4>2
    <3>3. CASE i = m + 1
      <4>1. g[i - 1] = f[m] /\ i # 0
        BY <1>1, <3>3
      <4>2. QED
        BY <1>1, <3>3, <4>1
    <3>4. QED
      BY <1>1, <3>1, <3>2, <3>3
  <2>3. g = Loop(g, m + 1)
    BY <2>2
  <2>4. \E h : h = Loop(h, m + 1)
    <3> HIDE DEF Loop, g
    <3>1. QED
      BY <2>3
  <2>5. m + 1 \in 0..n
    BY <1>1, <1>3
  <2> HIDE DEF Loop
  <2>6. QED
    BY <2>4, <2>5
<1>4. n \in T
  <2> HIDE DEF T, n
  <2>1. \A m \in 0..n : m < n /\ m \in T => m + 1 \in T
    BY <1>3
  <2>2. \A m \in 0..n : m \in T
    BY <1>1, <1>2, <2>1, TurnByTurn
  <2>3. QED
    BY <1>1, <2>2
<1>5. t = Loop(t, n)
  <2> HIDE DEF Loop, n
  <2>1. \E f : f = Loop(f, n)
    BY <1>4
  <2>2. QED
    BY <2>1
<1>6. Bytes(q) = t[n]
  BY DEF Bytes
<1>7. AddsUp(t, q)
  <2> HIDE DEF t
  <2>1. t[0] = 0
    BY <1>1, <1>5
  <2>2. \A i \in 1..n : t[i] = t[i - 1] + q[i].bytes
    BY <1>1, <1>5
  <2>3. QED
    BY <2>1, <2>2 DEF AddsUp
<1>8. QED
  BY <1>6, <1>7

(* And nothing else does. *)
LEMMA BytesAre ==
    ASSUME NEW q \in Seq(Envelopes), NEW t, AddsUp(t, q)
    PROVE  Bytes(q) = t[Len(q)] /\ \A i \in 0..Len(q) : t[i] \in Nat
<1>1. PICK u : AddsUp(u, q) /\ Bytes(q) = u[Len(q)]
  BY BytesAddUp
<1> DEFINE n == Len(q)
           T == {i \in 0..n : t[i] = u[i] /\ t[i] \in Nat}
<1>2. n \in Nat
  OBVIOUS
<1>3. 0 \in T
  BY <1>1, <1>2 DEF AddsUp
<1>4. ASSUME NEW i \in 0..n, i < n, i \in T
      PROVE  i + 1 \in T
  <2>1. i + 1 \in 1..n /\ i + 1 - 1 = i /\ t[i] = u[i] /\ t[i] \in Nat
    BY <1>2, <1>4
  <2>2. q[i + 1].bytes \in Nat
    <3>1. q[i + 1] \in Envelopes
      BY <2>1
    <3>2. QED
      BY <3>1 DEF Envelopes
  <2>3. t[i + 1] = t[i] + q[i + 1].bytes /\ u[i + 1] = u[i] + q[i + 1].bytes
    BY <1>1, <2>1 DEF AddsUp
  <2>4. QED
    BY <2>1, <2>2, <2>3
<1>5. \A i \in 0..n : i \in T
  <2> HIDE DEF T, n
  <2>1. \A i \in 0..n : i < n /\ i \in T => i + 1 \in T
    BY <1>4
  <2>2. QED
    BY <1>2, <1>3, <2>1, TurnByTurn
<1>6. QED
  BY <1>1, <1>2, <1>5

LEMMA BytesOfNone == Bytes(<<>>) = 0
<1>1. <<>> \in Seq(Envelopes) /\ Len(<<>>) = 0
  OBVIOUS
<1>2. PICK t : AddsUp(t, <<>>) /\ Bytes(<<>>) = t[Len(<<>>)]
  BY <1>1, BytesAddUp
<1>3. QED
  BY <1>1, <1>2 DEF AddsUp

(* An envelope more, and the first one less. *)
LEMMA BytesOfMore ==
    ASSUME NEW q \in Seq(Envelopes), NEW e \in Envelopes
    PROVE  Bytes(Append(q, e)) = Bytes(q) + e.bytes
<1> DEFINE r == Append(q, e)
           n == Len(q)
<1>1. /\ r \in Seq(Envelopes) /\ n \in Nat /\ Len(r) = n + 1 /\ r[n + 1] = e
      /\ \A i \in 1..n : r[i] = q[i]
  BY AppendedHere
<1> HIDE DEF r
<1>2. PICK t : AddsUp(t, r) /\ Bytes(r) = t[n + 1]
  BY <1>1, BytesAddUp
<1>3. AddsUp(t, q)
  BY <1>1, <1>2 DEF AddsUp
<1>4. Bytes(q) = t[n]
  BY <1>3, BytesAre
<1>5. n + 1 \in 1..Len(r) /\ n + 1 - 1 = n
  BY <1>1
<1>6. t[n + 1] = t[n] + e.bytes
  BY <1>1, <1>2, <1>5 DEF AddsUp
<1>7. QED
  BY <1>2, <1>4, <1>6 DEF r

LEMMA BytesOfLess ==
    ASSUME NEW q \in Seq(Envelopes), q # <<>>
    PROVE  Bytes(Tail(q)) = Bytes(q) - q[1].bytes /\ Bytes(q) \in Int /\ q[1].bytes \in Nat
<1> DEFINE r == Tail(q)
           n == Len(r)
<1>1. /\ r \in Seq(Envelopes) /\ Len(q) = n + 1 /\ n \in Nat
      /\ \A i \in 1..n : r[i] = q[i + 1]
  <2>1. Len(q) \in Nat /\ Len(q) > 0
    OBVIOUS
  <2>2. /\ r \in Seq(Envelopes) /\ n = Len(q) - 1
        /\ \A i \in 1..n : r[i] = q[i + 1]
    BY HeadTailProperties
  <2> HIDE DEF n, r
  <2>3. QED
    BY <2>1, <2>2
<1> HIDE DEF r, n
<1>2. PICK t : AddsUp(t, q) /\ Bytes(q) = t[Len(q)]
  BY BytesAddUp
<1>3. \A i \in 0..n + 1 : t[i] \in Nat
  BY <1>1, <1>2, BytesAre
<1>4. \A i \in 1..n + 1 : q[i].bytes \in Nat /\ t[i] = t[i - 1] + q[i].bytes
  <2>1. \A i \in 1..n + 1 : q[i] \in Envelopes
    BY <1>1
  <2>2. QED
    BY <1>1, <1>2, <2>1 DEF AddsUp, Envelopes
<1> DEFINE u == [i \in 0..n |-> t[i + 1] - q[1].bytes]
<1>5. u[0] = 0
  <2>1. 1 \in 1..n + 1 /\ 0 \in 0..n /\ t[0] = 0 /\ 0 + 1 = 1 /\ 1 - 1 = 0
    BY <1>1, <1>2 DEF AddsUp
  <2>2. t[1] = t[0] + q[1].bytes /\ q[1].bytes \in Nat
    BY <1>4, <2>1
  <2>3. u[0] = t[1] - q[1].bytes
    BY <2>1
  <2>4. QED
    BY <2>1, <2>2, <2>3
<1>6. ASSUME NEW i \in 1..n
      PROVE  u[i] = u[i - 1] + r[i].bytes
  <2>1. /\ i \in 0..n /\ i - 1 \in 0..n /\ i + 1 \in 1..n + 1 /\ i \in 0..n + 1 /\ 1 \in 1..n + 1
        /\ i - 1 + 1 = i /\ i + 1 - 1 = i
    BY <1>1
  <2>2. u[i] = t[i + 1] - q[1].bytes /\ u[i - 1] = t[i] - q[1].bytes
    BY <2>1
  <2>3. t[i + 1] = t[i] + q[i + 1].bytes /\ r[i] = q[i + 1]
    BY <1>1, <1>4, <2>1
  <2>4. t[i] \in Nat /\ q[i + 1].bytes \in Nat /\ q[1].bytes \in Nat
    BY <1>3, <1>4, <2>1
  <2> HIDE DEF u
  <2>5. QED
    BY <2>2, <2>3, <2>4
<1>7. AddsUp(u, r)
  <2> HIDE DEF u
  <2>1. QED
    BY <1>5, <1>6 DEF AddsUp, n
<1>8. Bytes(r) = u[n]
  <2> HIDE DEF u
  <2>1. QED
    BY <1>1, <1>7, BytesAre DEF n
<1>9. u[n] = t[n + 1] - q[1].bytes
  BY <1>1
<1>10. t[n + 1] \in Nat /\ q[1].bytes \in Nat
  BY <1>1, <1>3, <1>4
<1> HIDE DEF u
<1>11. QED
  BY <1>1, <1>2, <1>8, <1>9, <1>10 DEF r

LEMMA EmptyCounts ==
    ASSUME NEW w, w.queue = <<>>, w.queuedBytes = 0
    PROVE  Counted(w)
<1>1. Len(<<>>) = 0 /\ MaxQueuedEvents \in Nat /\ MaxQueuedBytes \in Nat
  BY StreamAssumption
<1>2. QED
  BY <1>1, BytesOfNone DEF Counted

LEMMA HandOffCounts ==
    ASSUME NEW w \in Writers, NEW e, NEW ready, Counted(w)
    PROVE  Counted(HandOff(w, e, ready))
<1> DEFINE u == [w EXCEPT !.sent = Append(@, e)]
           v == HandOff(w, e, ready)
<1>1. \/ v = Finished(u)
      \/ v = u
      \/ v = [u EXCEPT !.backpressured = TRUE, !.endAfterDrain = IsTerminal(e)]
  BY DEF HandOff
<1>2. \/ v.queue = <<>> /\ v.queuedBytes = 0
      \/ v.queue = w.queue /\ v.queuedBytes = w.queuedBytes
  BY <1>1 DEF Finished, Writers
<1> HIDE DEF v
<1>3. Counted(v)
  BY <1>2, EmptyCounts DEF Counted
<1>4. QED
  BY <1>3 DEF v

(* write() keeps the count and, by its guard, the bounds; ... *)
LEMMA WriteCounts ==
    ASSUME NEW w \in Writers, NEW e \in Envelopes, NEW ready \in BOOLEAN, Counted(w)
    PROVE  Counted(Write(w, e, ready))
<1> DEFINE u == [w EXCEPT !.terminalReceived = IsTerminal(e)]
           v == [u EXCEPT !.queue = Append(@, e), !.queuedBytes = @ + e.bytes]
<1>1. /\ u \in Writers /\ u.queue = w.queue /\ u.queuedBytes = w.queuedBytes
  BY TerminalIsBoolean DEF Writers
<1>2. CASE w.closed \/ w.terminalReceived
  BY <1>2, WriteIsIgnored
<1>3. CASE ~w.closed /\ ~w.terminalReceived /\ ~w.backpressured
  <2>1. Write(w, e, ready) = HandOff(u, e, ready)
    BY <1>3 DEF Write
  <2>2. Counted(u)
    BY <1>1 DEF Counted
  <2> HIDE DEF u
  <2>3. QED
    BY <1>1, <2>1, <2>2, HandOffCounts
<1>4. CASE ~w.closed /\ ~w.terminalReceived /\ w.backpressured /\ Overflows(w, e)
  <2>1. Write(w, e, ready) = Finished(u)
    BY <1>4 DEF Write
  <2> HIDE DEF u
  <2>2. Finished(u).queue = <<>> /\ Finished(u).queuedBytes = 0
    BY <1>1 DEF Finished, Writers
  <2>3. QED
    BY <2>1, <2>2, EmptyCounts
<1>5. CASE ~w.closed /\ ~w.terminalReceived /\ w.backpressured /\ ~Overflows(w, e)
  <2>1. Write(w, e, ready) = v
    BY <1>5 DEF Write
  <2>2. v.queue = Append(w.queue, e) /\ v.queuedBytes = w.queuedBytes + e.bytes
    BY <1>1 DEF Writers
  <2> DEFINE q == w.queue
             b == w.queuedBytes
  <2>3. q \in Seq(Envelopes) /\ b \in Int /\ e.bytes \in Nat
    BY DEF Writers, Envelopes
  <2>4. b = Bytes(q) /\ ~(Len(q) >= MaxQueuedEvents) /\ ~(b + e.bytes > MaxQueuedBytes)
    BY <1>5 DEF Counted, Overflows
  <2> HIDE DEF q, b, v
  <2>5. Bytes(Append(q, e)) = b + e.bytes /\ Len(Append(q, e)) = Len(q) + 1 /\ Len(q) \in Nat
    BY <2>3, <2>4, BytesOfMore, AppendProperties
  <2>6. MaxQueuedEvents \in Nat /\ MaxQueuedBytes \in Nat
    BY StreamAssumption
  <2>7. Len(q) + 1 <= MaxQueuedEvents
    BY <2>4, <2>5, <2>6
  <2>8. b + e.bytes <= MaxQueuedBytes
    BY <2>3, <2>4, <2>6
  <2>9. v.queue = Append(q, e) /\ v.queuedBytes = b + e.bytes
    BY <2>2 DEF q, b
  <2>10. Counted(v)
    BY <2>5, <2>7, <2>8, <2>9 DEF Counted
  <2>11. QED
    BY <2>1, <2>10
<1>6. QED
  BY <1>2, <1>3, <1>4, <1>5

(* ... a turn of a drain takes off what the frame had added. *)
LEMMA ShiftCounts ==
    ASSUME NEW w \in Writers, NEW ready, w.queue # <<>>, Counted(w)
    PROVE  Counted(Shift(w, ready))
<1> DEFINE u == [w EXCEPT !.queue = Tail(@), !.queuedBytes = @ - Head(w.queue).bytes]
           q == w.queue
           b == w.queuedBytes
<1>1. /\ q \in Seq(Envelopes) /\ q # <<>> /\ b \in Int
      /\ Len(q) <= MaxQueuedEvents /\ b = Bytes(q) /\ b <= MaxQueuedBytes
  BY DEF Writers, Counted
<1>2. u.queue = Tail(q) /\ u.queuedBytes = b - Head(q).bytes
  BY DEF Writers
<1> HIDE DEF q, b
<1>3. /\ Head(q) = q[1] /\ q[1] \in Envelopes /\ Tail(q) \in Seq(Envelopes)
      /\ Len(q) \in Nat /\ Len(Tail(q)) = Len(q) - 1
  BY <1>1
<1>4. Bytes(Tail(q)) = b - q[1].bytes /\ q[1].bytes \in Nat
  BY <1>1, BytesOfLess
<1>5. MaxQueuedEvents \in Nat /\ MaxQueuedBytes \in Nat
  BY StreamAssumption
<1>6. u \in Writers
  <2>1. b - Head(q).bytes \in Int
    BY <1>1, <1>3, <1>4
  <2>2. QED
    BY <1>3, <2>1 DEF Writers, q, b
<1> HIDE DEF u
<1>7. Len(Tail(q)) <= MaxQueuedEvents
  BY <1>1, <1>3, <1>5
<1>8. b - q[1].bytes <= MaxQueuedBytes
  BY <1>1, <1>4, <1>5
<1>9. Counted(u)
  BY <1>2, <1>3, <1>4, <1>7, <1>8 DEF Counted
<1>10. Shift(w, ready) = HandOff(u, Head(w.queue), ready)
  BY DEF Shift, u
<1>11. QED
  BY <1>6, <1>9, <1>10, HandOffCounts

-----------------------------------------------------------------------------
(* Sequences of frames. *)
LEMMA AppendLast ==
    ASSUME NEW S, NEW s \in Seq(S), NEW q \in Seq(S), NEW e \in S
    PROVE  s \o Append(q, e) = Append(s \o q, e)
<1>1. s \o Append(q, e) \in Seq(S) /\ Append(s \o q, e) \in Seq(S)
  OBVIOUS
<1>2. Len(s \o Append(q, e)) = Len(Append(s \o q, e))
  OBVIOUS
<1>3. ASSUME NEW i \in 1..Len(s \o Append(q, e))
      PROVE  (s \o Append(q, e))[i] = Append(s \o q, e)[i]
  OBVIOUS
<1>4. QED
  BY <1>1, <1>2, <1>3, SeqEqual

LEMMA MoveFirst ==
    ASSUME NEW S, NEW s \in Seq(S), NEW q \in Seq(S), q # <<>>
    PROVE  Append(s, q[1]) \o Tail(q) = s \o q
<1>0. /\ Len(q) \in Nat /\ Len(q) > 0 /\ q[1] \in S
      /\ Tail(q) \in Seq(S) /\ Len(Tail(q)) = Len(q) - 1
      /\ \A i \in 1..Len(q) - 1 : Tail(q)[i] = q[i + 1]
  OBVIOUS
<1>1. Append(s, q[1]) \o Tail(q) \in Seq(S) /\ s \o q \in Seq(S)
  BY <1>0
<1>2. Len(Append(s, q[1]) \o Tail(q)) = Len(s \o q)
  BY <1>0
<1>3. ASSUME NEW i \in 1..Len(s \o q)
      PROVE  (Append(s, q[1]) \o Tail(q))[i] = (s \o q)[i]
  <2>1. CASE i <= Len(s)
    BY <1>0, <2>1
  <2>2. CASE i = Len(s) + 1
    BY <1>0, <2>2
  <2>3. CASE i > Len(s) + 1
    BY <1>0, <2>3
  <2>4. QED
    BY <2>1, <2>2, <2>3
<1>4. QED
  BY <1>1, <1>2, <1>3, SeqEqual

(* The frames of a writer are a sequence of envelopes. *)
LEMMA FramesAre ==
    ASSUME NEW w \in Writers
    PROVE  /\ w.sent \in Seq(Envelopes) /\ w.queue \in Seq(Envelopes) /\ w.since \in Nat
           /\ Frames(w) \in Seq(Envelopes) /\ Frames(w) = w.sent \o w.queue
           /\ w.queue = <<>> => Frames(w) = w.sent
<1>1. w.sent \in Seq(Envelopes) /\ w.queue \in Seq(Envelopes) /\ w.since \in Nat
  BY DEF Writers
<1>2. Frames(w) = w.sent \o w.queue
  BY DEF Frames
<1>3. \A s, q \in Seq(Envelopes) : s \o q \in Seq(Envelopes) /\ s \o <<>> = s
  BY ConcatProperties, ConcatEmptySeq
<1>4. QED
  BY <1>1, <1>2, <1>3

(* What holds of the frames of a connection holds of those that were sent. *)
LEMMA SentInOrder ==
    ASSUME NEW s \in Seq(Envelopes), NEW q \in Seq(Envelopes), NEW since,
           InOrder(s \o q, since)
    PROVE  InOrder(s, since)
<1> DEFINE f == s \o q
<1>1. /\ f \in Seq(Envelopes) /\ Len(f) \in Nat /\ Len(s) \in Nat /\ Len(s) <= Len(f)
      /\ \A i \in 1..Len(s) : f[i] = s[i]
  BY ConcatProperties
<1>2. InOrder(f, since)
  OBVIOUS
<1> HIDE DEF f
<1>3. OwnEvents(s)
  BY <1>1, <1>2 DEF InOrder, OwnEvents
<1>4. NoneMissing(s)
  <2>1. SUFFICES ASSUME NEW i \in 2..Len(s)
                 PROVE  \/ s[i].sequence = s[i - 1].sequence + 1
                        \/ replayFull /\ s[i - 1].sequence = Len(history) - 1
    BY DEF NoneMissing
  <2>2. i \in 2..Len(f) /\ i \in 1..Len(s) /\ i - 1 \in 1..Len(s)
    BY <1>1
  <2>3. f[i] = s[i] /\ f[i - 1] = s[i - 1]
    BY <1>1, <2>2
  <2>4. QED
    BY <1>2, <2>2, <2>3 DEF InOrder, NoneMissing
<1>5. StartsAt(s, since)
  <2>1. SUFFICES ASSUME Len(s) > 0
                 PROVE  s[1].sequence = since \/ (replayFull /\ since >= Len(history))
    BY DEF StartsAt
  <2>2. f[1] = s[1] /\ Len(f) > 0
    BY <1>1, <2>1
  <2>3. QED
    BY <1>2, <2>2 DEF InOrder, StartsAt
<1>6. QED
  BY <1>3, <1>4, <1>5 DEF InOrder

(* An announcement leaves the frames of a connection in order, ... *)
LEMMA AnnounceKeepsOrder ==
    ASSUME HistoryInv, NEW e \in Envelopes, e.sequence = Len(emitted), Announce(e),
           NEW f \in Seq(Envelopes), NEW since \in Nat, InOrder(f, since)
    PROVE  InOrder(f, since)'
<1>1. /\ emitted \in Seq(Envelopes) /\ history \in Seq(Envelopes) /\ emitted' = Append(emitted, e)
      /\ Len(emitted) \in Nat /\ Len(f) \in Nat
  BY DEF HistoryInv, SessionType, Announce
<1>2. /\ Len(emitted') = Len(emitted) + 1
      /\ \A i \in 1..Len(emitted) : emitted'[i] = emitted[i]
  BY <1>1, AppendedHere
<1>3. replayFull => replayFull' /\ history' = history
  BY DEF Announce, StoreEnvelope
<1>4. OwnEvents(f)'
  BY <1>1, <1>2 DEF InOrder, OwnEvents
<1>5. NoneMissing(f)'
  BY <1>3 DEF InOrder, NoneMissing
<1>6. StartsAt(f, since)'
  BY <1>3 DEF InOrder, StartsAt
<1>7. QED
  BY <1>4, <1>5, <1>6 DEF InOrder

(* ... and the new event follows those of one that had caught up. *)
LEMMA AnnouncedFollows ==
    ASSUME HistoryInv, NEW e \in Envelopes, e.sequence = Len(emitted), Announce(e),
           NEW f \in Seq(Envelopes), NEW since \in Nat, InOrder(f, since), CaughtUp(f, since)
    PROVE  InOrder(Append(f, e), since)' /\ CaughtUp(Append(f, e), since)'
<1> DEFINE g == Append(f, e)
<1>1. /\ g \in Seq(Envelopes) /\ Len(f) \in Nat
      /\ Len(g) = Len(f) + 1 /\ g[Len(f) + 1] = e
      /\ \A i \in 1..Len(f) : g[i] = f[i]
  BY AppendedHere
<1>2. /\ emitted \in Seq(Envelopes) /\ history \in Seq(Envelopes) /\ emitted' = Append(emitted, e)
      /\ Len(emitted) \in Nat /\ Len(history) \in Nat
  BY DEF HistoryInv, SessionType, Announce
<1>3. /\ Len(emitted') = Len(emitted) + 1
      /\ emitted'[Len(emitted) + 1] = e
  BY <1>2, AppendedHere
<1>4. replayFull => replayFull' /\ history' = history
  BY DEF Announce, StoreEnvelope
<1>5. InOrder(f, since)'
  BY AnnounceKeepsOrder
<1> HIDE DEF g
<1>6. OwnEvents(g)'
  <2>1. SUFFICES ASSUME NEW i \in 1..Len(g)
                 PROVE  g[i].sequence + 1 \in 1..Len(emitted') /\ g[i] = emitted'[g[i].sequence + 1]
    BY DEF OwnEvents
  <2>2. CASE i \in 1..Len(f)
    BY <1>1, <1>5, <2>2 DEF InOrder, OwnEvents
  <2>3. CASE i = Len(f) + 1
    BY <1>1, <1>2, <1>3, <2>3
  <2>4. QED
    BY <1>1, <2>2, <2>3
<1>7. NoneMissing(g)'
  <2>1. SUFFICES ASSUME NEW i \in 2..Len(g)
                 PROVE  \/ g[i].sequence = g[i - 1].sequence + 1
                        \/ replayFull' /\ g[i - 1].sequence = Len(history') - 1
    BY DEF NoneMissing
  <2>2. CASE i \in 1..Len(f)
    <3>1. i \in 2..Len(f) /\ i - 1 \in 1..Len(f)
      BY <1>1, <2>2
    <3>2. g[i] = f[i] /\ g[i - 1] = f[i - 1]
      BY <1>1, <3>1
    <3>3. QED
      BY <1>5, <3>1, <3>2 DEF InOrder, NoneMissing
  <2>3. CASE i = Len(f) + 1
    <3> DEFINE last == f[Len(f)]
    <3>0. Len(f) > 0 /\ i - 1 = Len(f) /\ Len(f) \in 1..Len(f)
      BY <1>1, <2>3
    <3>1. g[i] = e /\ g[i - 1] = last /\ last \in Envelopes
      BY <1>1, <2>3, <3>0
    <3>2. \/ f[Len(f)].sequence + 1 = Len(emitted)
          \/ replayFull /\ f[Len(f)].sequence + 1 = Len(history)
      BY <3>0 DEF CaughtUp
    <3> HIDE DEF last
    <3>3. last.sequence \in Nat
      BY <3>1 DEF Envelopes
    <3>4. CASE last.sequence + 1 = Len(emitted)
      BY <3>1, <3>4
    <3>5. CASE replayFull /\ last.sequence + 1 = Len(history)
      BY <1>2, <1>4, <3>1, <3>3, <3>5
    <3>6. QED
      BY <3>2, <3>4, <3>5 DEF last
  <2>4. QED
    BY <1>1, <2>2, <2>3
<1>8. StartsAt(g, since)'
  <2>1. CASE Len(f) > 0
    BY <1>1, <1>5, <2>1 DEF InOrder, StartsAt
  <2>2. CASE Len(f) = 0
    <3>1. g[1] = e
      BY <1>1, <2>2
    <3>2. since = Len(emitted) \/ (replayFull /\ since >= Len(history))
      BY <2>2 DEF CaughtUp
    <3>3. QED
      BY <1>4, <3>1, <3>2 DEF StartsAt
  <2>3. QED
    BY <1>1, <2>1, <2>2
<1>9. CaughtUp(g, since)'
  <2>1. Len(g) > 0 /\ g[Len(g)].sequence + 1 = Len(emitted')
    BY <1>1, <1>2, <1>3
  <2>2. QED
    BY <2>1 DEF CaughtUp
<1>10. InOrder(g, since)'
  BY <1>6, <1>7, <1>8 DEF InOrder
<1>11. QED
  BY <1>9, <1>10 DEF g

(* write() keeps the shape of a writer; it appends the event to its frames, *)
(* or closes it and leaves it what was sent.                                *)
LEMMA WriteKeepsShape ==
    ASSUME NEW w \in Writers, Shape(w), NEW e \in Envelopes, NEW ready \in BOOLEAN,
           ~w.closed, ~w.terminalReceived
    PROVE  LET v == Write(w, e, ready) IN
           /\ v \in Writers /\ Shape(v)
           /\ v.since = w.since /\ v.terminalReceived = IsTerminal(e)
           /\ \/ Frames(v) = Append(Frames(w), e)
              \/ v.closed /\ Frames(v) = w.sent
<1> DEFINE v == Write(w, e, ready)
<1>1. /\ w.queue \in Seq(Envelopes) /\ w.sent \in Seq(Envelopes)
      /\ Frames(w) = w.sent \o w.queue /\ (w.queue = <<>> => Frames(w) = w.sent)
  BY FramesAre
<1>2. /\ v \in Writers /\ v.since = w.since /\ v.terminalReceived = IsTerminal(e)
  BY WriteIs
<1>3. /\ Frames(v) = v.sent \o v.queue /\ (v.queue = <<>> => Frames(v) = v.sent)
      /\ v.queue \in Seq(Envelopes)
  BY <1>2, FramesAre
<1>4. ~w.backpressured => w.queue = <<>>
  BY DEF Shape
<1>5. Len(<<>>) = 0
  OBVIOUS
<1>6. ~w.endAfterDrain
  BY DEF Shape
<1>7. CASE v.closed /\ v.queue = <<>> /\ v.sent \in {w.sent, Append(w.sent, e)}
           /\ (v.sent = Append(w.sent, e) => ~w.backpressured)
  <2>1. Shape(v)
    BY <1>5, <1>7 DEF Shape, QueueEnds
  <2>2. QED
    BY <1>1, <1>2, <1>3, <1>4, <1>7, <2>1
<1>8. CASE /\ ~w.backpressured /\ ~IsTerminal(e) /\ ~v.closed /\ v.sent = Append(w.sent, e)
           /\ v.queue = w.queue /\ ~v.backpressured /\ v.endAfterDrain = w.endAfterDrain
  <2>1. v.queue = <<>>
    BY <1>4, <1>8
  <2>2. Shape(v)
    BY <1>2, <1>5, <1>6, <1>8, <2>1 DEF Shape, QueueEnds
  <2>3. QED
    BY <1>1, <1>2, <1>3, <1>4, <1>8, <2>1, <2>2
<1>9. CASE /\ ~w.backpressured /\ ~v.closed /\ v.sent = Append(w.sent, e)
           /\ v.queue = w.queue /\ v.backpressured /\ v.endAfterDrain = IsTerminal(e)
  <2>1. v.queue = <<>>
    BY <1>4, <1>9
  <2>2. Shape(v)
    BY <1>2, <1>5, <1>9, <2>1 DEF Shape, QueueEnds
  <2>3. QED
    BY <1>1, <1>2, <1>3, <1>4, <1>9, <2>1, <2>2
<1>10. CASE /\ w.backpressured /\ ~v.closed /\ v.sent = w.sent /\ v.queue = Append(w.queue, e)
            /\ v.backpressured /\ v.endAfterDrain = w.endAfterDrain
  <2> DEFINE q == w.queue
  <2>1. /\ Len(q) \in Nat /\ Len(v.queue) = Len(q) + 1 /\ v.queue[Len(q) + 1] = e
        /\ \A i \in 1..Len(q) : v.queue[i] = q[i]
        /\ v.queue # <<>>
    BY <1>1, <1>10, AppendProperties
  <2>2. \A i \in 1..Len(q) : ~IsTerminal(q[i])
    BY DEF Shape, QueueEnds
  <2> HIDE DEF q
  <2>3. QueueEnds(v)
    <3>1. SUFFICES ASSUME NEW i \in 1..Len(q) + 1
                   PROVE  IsTerminal(v.queue[i]) <=> i = Len(q) + 1 /\ IsTerminal(e)
      BY <1>2, <2>1 DEF QueueEnds
    <3>2. CASE i \in 1..Len(q)
      BY <2>1, <2>2, <3>2
    <3>3. CASE i = Len(q) + 1
      BY <2>1, <3>3
    <3>4. QED
      BY <2>1, <3>2, <3>3
  <2>4. Shape(v)
    BY <1>6, <1>10, <2>1, <2>3 DEF Shape
  <2>5. Frames(v) = Append(Frames(w), e)
    <3>1. w.sent \o Append(w.queue, e) = Append(w.sent \o w.queue, e)
      <4>1. \A s, t \in Seq(Envelopes) : s \o Append(t, e) = Append(s \o t, e)
        BY AppendLast
      <4>2. QED
        BY <1>1, <4>1
    <3>2. QED
      BY <1>1, <1>3, <1>10, <3>1
  <2>6. QED
    BY <1>2, <2>4, <2>5
<1>11. QED
  BY <1>7, <1>8, <1>9, <1>10, WriteIs

-----------------------------------------------------------------------------
(* The loops. *)

(* The writer of a replay after its i-th frame: its frames are the stored   *)
(* events from since on, all of them unless it closed or saw a terminal one.*)
ReplayedTo(v, since, i) ==
    /\ v \in Writers /\ Shape(v) /\ Counted(v) /\ v.since = since
    /\ Len(Frames(v)) <= i
    /\ \A j \in 1..Len(Frames(v)) : Frames(v)[j] = history[since + j]
    /\ ~v.closed /\ ~v.terminalReceived => Len(Frames(v)) = i
    /\ v.terminalReceived => \E j \in 1..i : IsTerminal(history[since + j])

LEMMA ReplayBegins ==
    ASSUME NEW since \in Nat, NEW k \in Nat, history \in Seq(Envelopes)
    PROVE  ReplayedTo(ReplayStart(since, k), since, 0)
<1> DEFINE v == ReplayStart(since, k)
<1>1. <<>> \in Seq(Envelopes) /\ Len(<<>>) = 0 /\ Len(history) \in Nat /\ (k = 0) \in BOOLEAN
  OBVIOUS
<1>2. NewWriter \in Writers
  BY <1>1 DEF NewWriter, Writers
<1>3. v \in Writers
  BY <1>1, <1>2 DEF ReplayStart, Writers
<1>4. /\ v.sent = <<>> /\ v.queue = <<>> /\ v.queuedBytes = 0 /\ v.since = since
      /\ ~v.closed /\ ~v.terminalReceived /\ ~v.endAfterDrain
  BY DEF ReplayStart, NewWriter
<1> HIDE DEF v
<1>5. Frames(v) = <<>>
  BY <1>3, <1>4, FramesAre
<1>6. Shape(v)
  BY <1>1, <1>4 DEF Shape, QueueEnds
<1>7. QED
  BY <1>1, <1>3, <1>4, <1>5, <1>6, EmptyCounts DEF ReplayedTo, v

(* The next frame of a replay. *)
LEMMA ReplayGoesOn ==
    ASSUME NEW since \in Nat, NEW i \in Nat, NEW v, ReplayedTo(v, since, i),
           history \in Seq(Envelopes), since + (i + 1) \in 1..Len(history), NEW ready \in BOOLEAN
    PROVE  ReplayedTo(Write(v, history[since + (i + 1)], ready), since, i + 1)
<1> DEFINE e == history[since + (i + 1)]
           u == Write(v, e, ready)
<1>1. e \in Envelopes
  OBVIOUS
<1>2. /\ v \in Writers /\ Shape(v) /\ Counted(v) /\ v.since = since
      /\ Frames(v) \in Seq(Envelopes) /\ Len(Frames(v)) \in Nat /\ Len(Frames(v)) <= i
      /\ \A j \in 1..Len(Frames(v)) : Frames(v)[j] = history[since + j]
  <2>1. /\ v \in Writers /\ Shape(v) /\ Counted(v) /\ v.since = since /\ Len(Frames(v)) <= i
        /\ \A j \in 1..Len(Frames(v)) : Frames(v)[j] = history[since + j]
    BY DEF ReplayedTo
  <2>2. Frames(v) \in Seq(Envelopes)
    BY <2>1, FramesAre
  <2>3. QED
    BY <2>1, <2>2, LenProperties
<1>3. CASE v.closed \/ v.terminalReceived
  <2>1. u = v
    BY <1>3, WriteIsIgnored
  <2>2. v.terminalReceived => \E j \in 1..i + 1 : IsTerminal(history[since + j])
    BY DEF ReplayedTo
  <2>3. ReplayedTo(v, since, i + 1)
    BY <1>2, <1>3, <2>2 DEF ReplayedTo
  <2>4. QED
    BY <2>1, <2>3
<1>4. CASE ~v.closed /\ ~v.terminalReceived
  <2>1. /\ u \in Writers /\ Shape(u) /\ Counted(u)
        /\ u.since = v.since /\ u.terminalReceived = IsTerminal(e)
        /\ \/ Frames(u) = Append(Frames(v), e)
           \/ u.closed /\ Frames(u) = v.sent
    BY <1>1, <1>2, <1>4, WriteKeepsShape, WriteCounts
  <2> DEFINE f == Frames(v)
  <2>2. Len(f) = i /\ f \in Seq(Envelopes) /\ \A j \in 1..Len(f) : f[j] = history[since + j]
    BY <1>2, <1>4 DEF ReplayedTo
  <2>3. u.terminalReceived => \E j \in 1..i + 1 : IsTerminal(history[since + j])
    <3>1. i + 1 \in 1..i + 1
      OBVIOUS
    <3>2. u.terminalReceived => IsTerminal(history[since + (i + 1)])
      BY <2>1
    <3> HIDE DEF u
    <3>3. QED
      BY <3>1, <3>2
  <2>4. f = v.sent \o v.queue /\ v.sent \in Seq(Envelopes) /\ v.queue \in Seq(Envelopes)
    BY <1>2, FramesAre
  <2> HIDE DEF u, e
  <2>5. CASE Frames(u) = Append(f, e)
    <3> HIDE DEF f
    <3>1. /\ Len(Append(f, e)) = i + 1
          /\ \A j \in 1..i : Append(f, e)[j] = history[since + j]
          /\ Append(f, e)[i + 1] = history[since + (i + 1)]
      BY <1>1, <2>2, AppendProperties DEF e
    <3>2. \A j \in 1..i + 1 : Append(f, e)[j] = history[since + j]
      BY <3>1
    <3>3. ReplayedTo(u, since, i + 1)
      BY <1>2, <2>1, <2>3, <2>5, <3>1, <3>2 DEF ReplayedTo
    <3>4. QED
      BY <3>3 DEF u, e
  <2>6. CASE u.closed /\ Frames(u) = v.sent
    <3> DEFINE s == v.sent
               q == v.queue
    <3>1. s \in Seq(Envelopes) /\ q \in Seq(Envelopes) /\ f = s \o q
      BY <2>4
    <3> HIDE DEF s, q, f
    <3>2. Len(s) \in Nat /\ Len(s) <= Len(f) /\ \A j \in 1..Len(s) : f[j] = s[j]
      BY <3>1
    <3>3. \A j \in 1..Len(s) : s[j] = history[since + j]
      BY <2>2, <3>2
    <3>4. Len(s) <= i + 1
      BY <2>2, <3>2
    <3>5. Frames(u) = s
      BY <2>6 DEF s
    <3>6. ReplayedTo(u, since, i + 1)
      BY <1>2, <2>1, <2>3, <2>6, <3>3, <3>4, <3>5 DEF ReplayedTo
    <3>7. QED
      BY <3>6 DEF u, e
  <2>7. QED
    BY <2>1, <2>5, <2>6
<1>5. QED
  BY <1>2, <1>3, <1>4

(* A whole replay. *)
LEMMA ReplayedIs ==
    ASSUME history \in Seq(Envelopes), NEW since \in Nat, NEW k \in Nat
    PROVE  ReplayedTo(Replayed(since, k), since, ReplayLength(since))
<1> DEFINE n == ReplayLength(since)
<1>1. n \in Nat
  BY ReplayTurns
<1>2. PICK turn : /\ turn[0] = ReplayStart(since, k)
                  /\ \A i \in 1..n : turn[i] = Write(turn[i - 1], history[since + i], i # k)
                  /\ Replayed(since, k) = turn[n]
  BY ReplayTurns
<1> DEFINE T == {i \in 0..n : ReplayedTo(turn[i], since, i)}
<1>3. 0 \in T
  BY <1>1, <1>2, ReplayBegins
<1>4. ASSUME NEW i \in 0..n, i < n, i \in T
      PROVE  i + 1 \in T
  <2>1. since + (i + 1) \in 1..Len(history) /\ i + 1 \in 1..n /\ i \in Nat
    BY <1>1, <1>4 DEF ReplayLength
  <2>2. turn[i + 1] = Write(turn[i], history[since + (i + 1)], i + 1 # k)
    BY <1>2, <2>1
  <2>3. ReplayedTo(turn[i + 1], since, i + 1)
    BY <1>4, <2>1, <2>2, ReplayGoesOn
  <2>4. QED
    BY <2>1, <2>3
<1>5. n \in T
  <2> HIDE DEF T, n
  <2>1. \A i \in 0..n : i < n /\ i \in T => i + 1 \in T
    BY <1>4
  <2>2. \A i \in 0..n : i \in T
    BY <1>1, <1>3, <2>1, TurnByTurn
  <2>3. QED
    BY <1>1, <2>2
<1>6. QED
  BY <1>2, <1>5

(* The writer of a drain that the socket stops at the k-th frame, after its *)
(* i-th: the same frames, some of them now sent.                            *)
DrainedTo(w, v, k, i) ==
    /\ v \in Writers /\ QueueEnds(v) /\ Counted(v)
    /\ v.since = w.since /\ v.terminalReceived = w.terminalReceived
    /\ Len(v.queue) = Len(w.queue) - i
    /\ Frames(v) = Frames(w)
    /\ i < k => /\ ~v.closed => ~v.backpressured /\ ~v.endAfterDrain
                /\ v.closed => v.queue = <<>>
                /\ ~v.closed /\ v.terminalReceived => v.queue # <<>>
    /\ i = k => /\ ~v.closed /\ v.backpressured
                /\ v.endAfterDrain <=> v.terminalReceived /\ v.queue = <<>>

(* The next turn of a drain. *)
LEMMA DrainGoesOn ==
    ASSUME NEW w \in Writers, NEW k \in Nat, NEW i \in Nat, NEW v, DrainedTo(w, v, k, i),
           i < k, i < Len(w.queue)
    PROVE  DrainedTo(w, Shift(v, i + 1 # k), k, i + 1)
<1> DEFINE ready == i + 1 # k
           u == Shift(v, ready)
           q == v.queue
           e == v.queue[1]
<1>1. v \in Writers /\ Len(w.queue) \in Nat /\ q \in Seq(Envelopes) /\ v.sent \in Seq(Envelopes)
  <2>1. v \in Writers
    BY DEF DrainedTo
  <2>2. q \in Seq(Envelopes) /\ v.sent \in Seq(Envelopes) /\ w.queue \in Seq(Envelopes)
    BY <2>1, FramesAre
  <2>3. QED
    BY <2>1, <2>2, LenProperties
<1>2. Len(q) = Len(w.queue) - i /\ Len(q) > 0 /\ q # <<>> /\ Len(q) \in Nat
  BY <1>1 DEF DrainedTo
<1>3. /\ QueueEnds(v) /\ Counted(v) /\ ~v.closed /\ ~v.backpressured /\ ~v.endAfterDrain
      /\ v.since = w.since /\ v.terminalReceived = w.terminalReceived
      /\ Frames(v) = Frames(w)
  BY <1>2 DEF DrainedTo
<1>4. /\ u \in Writers
      /\ u.since = w.since /\ u.sent = Append(v.sent, e)
      /\ u.terminalReceived = w.terminalReceived
      /\ ready /\ IsTerminal(e) => u.closed /\ u.queue = <<>>
      /\ ready /\ ~IsTerminal(e) => /\ ~u.closed /\ u.queue = Tail(q)
                                    /\ ~u.backpressured /\ ~u.endAfterDrain
      /\ ~ready => /\ ~u.closed /\ u.queue = Tail(q)
                   /\ u.backpressured /\ u.endAfterDrain = IsTerminal(e)
  BY <1>1, <1>2, <1>3, ShiftIs
<1>5. IsTerminal(e) <=> Len(q) = 1 /\ v.terminalReceived
  BY <1>2, <1>3 DEF QueueEnds
<1>6. /\ Tail(q) \in Seq(Envelopes) /\ Len(Tail(q)) = Len(q) - 1
      /\ \A j \in 1..Len(Tail(q)) : Tail(q)[j] = q[j + 1]
  BY <1>1, <1>2, HeadTailProperties
<1>7. Len(<<>>) = 0 /\ (Len(Tail(q)) = 0 => Tail(q) = <<>>)
  BY <1>6, EmptySeq
<1>8. u.queue = Tail(q)
  <2>1. CASE ready /\ IsTerminal(e)
    <3>1. Len(q) = 1
      BY <1>5, <2>1
    <3>2. Len(Tail(q)) = 0
      BY <1>6, <3>1
    <3>3. QED
      BY <1>4, <1>7, <2>1, <3>2
  <2>2. QED
    BY <1>4, <2>1
<1>9. Frames(u) = Frames(w)
  <2>1. \A s, t \in Seq(Envelopes) : t # <<>> => Append(s, t[1]) \o Tail(t) = s \o t
    BY MoveFirst
  <2>2. Append(v.sent, q[1]) \o Tail(q) = v.sent \o q
    BY <1>1, <1>2, <2>1
  <2>3. Frames(u) = u.sent \o u.queue /\ Frames(v) = v.sent \o q
    BY <1>1, <1>4, FramesAre
  <2>4. QED
    BY <1>3, <1>4, <1>8, <2>2, <2>3
<1>10. Len(u.queue) = Len(w.queue) - (i + 1)
  <2>1. Len(u.queue) = Len(q) - 1
    BY <1>6, <1>8
  <2> HIDE DEF u, q
  <2>2. QED
    BY <1>1, <1>2, <2>1
<1>11. QueueEnds(u)
  <2> HIDE DEF u, q, e, ready
  <2>1. SUFFICES ASSUME NEW j \in 1..Len(Tail(q))
                 PROVE  IsTerminal(q[j + 1]) <=> j = Len(Tail(q)) /\ v.terminalReceived
    <3>1. \A j \in 1..Len(Tail(q)) :
              IsTerminal(Tail(q)[j]) <=> j = Len(Tail(q)) /\ v.terminalReceived
      BY <1>6, <2>1
    <3>2. QED
      BY <1>3, <1>4, <1>8, <3>1 DEF QueueEnds
  <2>2. j + 1 \in 1..Len(q) /\ (j = Len(Tail(q)) <=> j + 1 = Len(q))
    BY <1>2, <1>6
  <2>3. QED
    BY <1>3, <2>2 DEF QueueEnds, q
<1>12. Counted(u)
  BY <1>1, <1>2, <1>3, ShiftCounts
<1>13. u.queue = <<>> <=> Len(q) = 1
  <2> HIDE DEF u, q
  <2>1. Len(Tail(q)) = 0 <=> Len(q) = 1
    <3>1. CASE Len(q) = 1
      BY <1>6, <3>1
    <3>2. CASE Len(Tail(q)) = 0
      <4>1. Len(q) - 1 = 0
        BY <1>6, <3>2
      <4> DEFINE m == Len(q)
      <4>2. m \in Nat
        BY <1>2
      <4> HIDE DEF m
      <4>3. m - 1 = 0 => m = 1
        BY <4>2
      <4>4. QED
        BY <4>1, <4>3 DEF m
    <3>3. QED
      BY <3>1, <3>2
  <2>2. Tail(q) = <<>> <=> Len(Tail(q)) = 0
    BY <1>7
  <2>3. QED
    BY <1>8, <2>1, <2>2
<1> HIDE DEF u, q, e
<1>14. ASSUME i + 1 < k
       PROVE  /\ ~u.closed => ~u.backpressured /\ ~u.endAfterDrain
              /\ u.closed => u.queue = <<>>
              /\ ~u.closed /\ u.terminalReceived => u.queue # <<>>
  <2>1. ready
    BY <1>14
  <2> HIDE DEF ready
  <2>2. QED
    BY <1>3, <1>4, <1>5, <1>13, <2>1
<1>15. ASSUME i + 1 = k
       PROVE  /\ ~u.closed /\ u.backpressured
              /\ u.endAfterDrain <=> u.terminalReceived /\ u.queue = <<>>
  <2>1. ~ready
    BY <1>15
  <2> HIDE DEF ready
  <2>2. QED
    BY <1>3, <1>4, <1>5, <1>13, <2>1
<1>16. DrainedTo(w, u, k, i + 1)
  BY <1>4, <1>9, <1>10, <1>11, <1>12, <1>14, <1>15 DEF DrainedTo
<1>17. QED
  BY <1>16 DEF u

(* A drain leaves a connection the frames it had, and its writer in shape. *)
LEMMA DrainedIs ==
    ASSUME NEW w \in Writers, Shape(w), Counted(w),
           ~w.closed, w.backpressured, ~w.endAfterDrain,
           NEW k \in 1..Len(w.queue) + 1
    PROVE  LET v == Drained(w, k) IN
           /\ v \in Writers /\ Shape(v) /\ Counted(v) /\ v.since = w.since
           /\ v.terminalReceived = w.terminalReceived
           /\ Frames(v) = Frames(w)
<1> DEFINE n == DrainLength(w, k)
<1>1. w.queue \in Seq(Envelopes) /\ w.sent \in Seq(Envelopes) /\ Frames(w) = w.sent \o w.queue
  BY FramesAre
<1>2. Len(w.queue) \in Nat /\ (w.queue = <<>> <=> Len(w.queue) = 0)
  BY <1>1
<1>3. k \in Nat /\ k >= 1 /\ k <= Len(w.queue) + 1
  BY <1>2
<1>4. /\ n \in Nat
      /\ \E turn : /\ turn[0] = [w EXCEPT !.backpressured = FALSE]
                   /\ \A i \in 1..n : turn[i] = Shift(turn[i - 1], i # k)
                   /\ Drained(w, k) = turn[n]
  BY <1>3, DrainTurns
<1>5. PICK turn : /\ turn[0] = [w EXCEPT !.backpressured = FALSE]
                  /\ \A i \in 1..n : turn[i] = Shift(turn[i - 1], i # k)
                  /\ Drained(w, k) = turn[n]
  BY <1>4
<1>6. n <= k /\ n <= Len(w.queue) /\ (n = k \/ n = Len(w.queue))
  BY <1>2, <1>3 DEF DrainLength
<1> DEFINE T == {i \in 0..n : DrainedTo(w, turn[i], k, i)}
<1>7. 0 \in T
  <2> DEFINE v == [w EXCEPT !.backpressured = FALSE]
  <2>1. v \in Writers
    BY DEF Writers
  <2>2. /\ v.since = w.since /\ v.terminalReceived = w.terminalReceived
        /\ v.sent = w.sent /\ v.queue = w.queue /\ v.closed = w.closed
        /\ v.endAfterDrain = w.endAfterDrain /\ ~v.backpressured
        /\ v.queuedBytes = w.queuedBytes
    BY DEF Writers
  <2> HIDE DEF v
  <2>3. Frames(v) = Frames(w)
    BY <1>1, <2>1, <2>2, FramesAre
  <2>4. QueueEnds(v) /\ Counted(v)
    BY <2>2 DEF Shape, QueueEnds, Counted
  <2>5. w.terminalReceived => w.queue # <<>>
    BY DEF Shape
  <2>6. Len(v.queue) = Len(w.queue) - 0
    BY <1>2, <2>2
  <2>7. DrainedTo(w, v, k, 0)
    BY <1>3, <2>1, <2>2, <2>3, <2>4, <2>5, <2>6 DEF DrainedTo
  <2>8. QED
    BY <1>4, <1>5, <2>7 DEF v
<1>8. ASSUME NEW i \in 0..n, i < n, i \in T
      PROVE  i + 1 \in T
  <2>1. i + 1 \in 1..n /\ i \in Nat /\ i < k /\ i < Len(w.queue) /\ i + 1 - 1 = i
    BY <1>2, <1>3, <1>4, <1>6, <1>8
  <2>2. turn[i + 1] = Shift(turn[i], i + 1 # k)
    BY <1>5, <2>1
  <2>3. DrainedTo(w, turn[i + 1], k, i + 1)
    BY <1>3, <1>8, <2>1, <2>2, DrainGoesOn
  <2>4. QED
    BY <2>1, <2>3
<1>9. n \in T
  <2> HIDE DEF T, n
  <2>1. \A i \in 0..n : i < n /\ i \in T => i + 1 \in T
    BY <1>8
  <2>2. \A i \in 0..n : i \in T
    BY <1>4, <1>7, <2>1, TurnByTurn
  <2>3. QED
    BY <1>4, <2>2
<1> DEFINE v == Drained(w, k)
<1>10. DrainedTo(w, v, k, n)
  BY <1>5, <1>9
<1> HIDE DEF v, n
<1>11. /\ v \in Writers /\ QueueEnds(v) /\ Counted(v) /\ v.since = w.since
       /\ v.terminalReceived = w.terminalReceived /\ Frames(v) = Frames(w)
       /\ Len(v.queue) = Len(w.queue) - n
  BY <1>10 DEF DrainedTo
<1>12. Shape(v)
  <2>1. CASE n = k
    BY <1>10, <1>11, <2>1 DEF DrainedTo, Shape
  <2>2. CASE n < k
    <3>1. n = Len(w.queue)
      BY <1>6, <2>2
    <3>2. Len(v.queue) = 0
      BY <1>2, <1>11, <3>1
    <3>3. v.queue \in Seq(Envelopes)
      BY <1>11, FramesAre
    <3>4. v.queue = <<>>
      BY <3>2, <3>3, EmptySeq
    <3>5. /\ ~v.closed => ~v.backpressured /\ ~v.endAfterDrain
          /\ ~v.closed => ~v.terminalReceived
      BY <1>10, <2>2, <3>4 DEF DrainedTo
    <3>6. QED
      BY <1>11, <3>4, <3>5 DEF Shape
  <2>3. QED
    BY <1>3, <1>4, <1>6, <2>1, <2>2
<1>13. QED
  BY <1>11, <1>12 DEF v

-----------------------------------------------------------------------------
(* The invariant. *)
LEMMA StreamInvInit == Init => StreamInv
<1>1. ASSUME Init
      PROVE  /\ emitted = <<>> /\ writer = [c \in Connections |-> NewWriter]
             /\ listeners = {} /\ opened = {} /\ left = {} /\ replayBytes = 0 /\ kept = TRUE
  BY <1>1, Zenon DEF Init
<1>2. <<>> \in Seq(Envelopes) /\ Len(<<>>) = 0
  OBVIOUS
<1>3. NewWriter \in Writers
  BY <1>2 DEF NewWriter, Writers
<1>4. 0 \in 0..MaxStoredBytes
  BY StreamAssumption
<1>5. QED
  BY <1>1, <1>2, <1>3, <1>4, HistoryInvInit DEF StreamInv, TerminalEnds

(* A connection that no step touches, when the session is not either. *)
LEMMA ConnectionStays ==
    ASSUME NEW w, Connection(w), UNCHANGED <<consumer, emitted, history, replayFull>>
    PROVE  Connection(w)'
<1>1. InOrder(Frames(w), w.since)'
  BY DEF Connection, InOrder, OwnEvents, NoneMissing, StartsAt, Frames
<1>2. CaughtUp(Frames(w), w.since) => CaughtUp(Frames(w), w.since)'
  BY DEF CaughtUp
<1>3. QED
  BY <1>1, <1>2 DEF Connection

(* A connection that is finished. *)
LEMMA ConnectionEnds ==
    ASSUME NEW w, Connection(w)
    PROVE  Connection(Finished(w))
<1> DEFINE v == Finished(w)
<1>1. w \in Writers /\ InOrder(Frames(w), w.since)
  BY DEF Connection
<1>2. /\ v \in Writers /\ v.closed /\ v.queue = <<>> /\ v.sent = w.sent /\ v.since = w.since
      /\ v.queuedBytes = 0
  BY <1>1, FinishedIs
<1> HIDE DEF v
<1>3. /\ Frames(v) = w.sent /\ Frames(w) = w.sent \o w.queue
      /\ w.sent \in Seq(Envelopes) /\ w.queue \in Seq(Envelopes)
  BY <1>1, <1>2, FramesAre
<1>4. InOrder(w.sent, w.since)
  BY <1>1, <1>3, SentInOrder
<1>5. Shape(v)
  <2>1. Len(<<>>) = 0
    OBVIOUS
  <2>2. QED
    BY <1>2, <2>1 DEF Shape, QueueEnds
<1>6. QED
  BY <1>2, <1>3, <1>4, <1>5, EmptyCounts DEF Connection, v

(* A connection that is drained. *)
LEMMA ConnectionDrains ==
    ASSUME NEW w, Connection(w), ~w.closed, w.backpressured, ~w.endAfterDrain,
           NEW k \in 1..Len(w.queue) + 1
    PROVE  Connection(Drained(w, k))
<1> DEFINE v == Drained(w, k)
<1>1. w \in Writers /\ Shape(w) /\ Counted(w)
  BY DEF Connection
<1>2. /\ v \in Writers /\ Shape(v) /\ Counted(v) /\ v.since = w.since
      /\ v.terminalReceived = w.terminalReceived /\ Frames(v) = Frames(w)
  BY <1>1, DrainedIs
<1> HIDE DEF v
<1>3. Connection(v)
  BY <1>2 DEF Connection
<1>4. QED
  BY <1>3 DEF v

(* A connection that is made. *)
LEMMA ConnectionOpens ==
    ASSUME HistoryInv, TerminalEnds, NEW since \in 0..Len(emitted), NEW k \in Nat
    PROVE  LET w == Replayed(since, k) IN
           Connection(IF consumer = "ended" /\ ~w.closed /\ ~w.terminalReceived
                      THEN Finished(w) ELSE w)
<1> DEFINE w == Replayed(since, k)
           n == ReplayLength(since)
           f == Frames(w)
<1>1. /\ emitted \in Seq(Envelopes) /\ history \in Seq(Envelopes) /\ replayFull \in BOOLEAN
      /\ Len(emitted) \in Nat /\ Len(history) \in Nat /\ Len(history) <= Len(emitted)
      /\ \A i \in 1..Len(history) : history[i] = emitted[i] /\ emitted[i].sequence = i - 1
  BY DEF HistoryInv, SessionType, Numbered, Stored
<1>2. ~replayFull => Len(history) = Len(emitted)
  BY DEF HistoryInv, Stored
<1>3. since \in Nat /\ since <= Len(emitted)
  BY <1>1
<1>4. ReplayedTo(w, since, n)
  BY <1>1, <1>3, ReplayedIs
<1>5. /\ w \in Writers /\ Shape(w) /\ Counted(w) /\ w.since = since
      /\ Len(f) <= n
      /\ \A j \in 1..Len(f) : f[j] = history[since + j]
      /\ ~w.closed /\ ~w.terminalReceived => Len(f) = n
      /\ w.terminalReceived => \E j \in 1..n : IsTerminal(history[since + j])
  BY <1>4 DEF ReplayedTo
<1>6. /\ n \in Nat
      /\ n > 0 => since + n = Len(history)
      /\ n = 0 => since >= Len(history)
  BY <1>1, <1>3 DEF ReplayLength
<1>7. f \in Seq(Envelopes) /\ Len(f) \in Nat
  <2>1. f \in Seq(Envelopes)
    BY <1>5, FramesAre
  <2>2. QED
    BY <2>1, LenProperties
<1> HIDE DEF w, n, f
<1>8. ASSUME NEW j \in 1..n
      PROVE  since + j \in 1..Len(history)
  BY <1>1, <1>3, <1>6
<1>9. ASSUME NEW j \in 1..Len(f)
      PROVE  /\ f[j] = emitted[since + j] /\ f[j].sequence = since + j - 1
             /\ since + j \in 1..Len(emitted)
  <2>1. j \in 1..n
    BY <1>5, <1>6, <1>7
  <2>2. since + j \in 1..Len(history) /\ since + j \in 1..Len(emitted)
    BY <1>1, <1>3, <1>8, <2>1
  <2>3. f[j] = history[since + j]
    BY <1>5
  <2>4. history[since + j] = emitted[since + j] /\ emitted[since + j].sequence = since + j - 1
    BY <1>1, <2>2
  <2>5. QED
    BY <2>2, <2>3, <2>4
<1>10. OwnEvents(f)
  <2>1. SUFFICES ASSUME NEW i \in 1..Len(f)
                 PROVE  f[i].sequence + 1 \in 1..Len(emitted) /\ f[i] = emitted[f[i].sequence + 1]
    BY DEF OwnEvents
  <2>2. f[i].sequence + 1 = since + i
    BY <1>3, <1>7, <1>9
  <2>3. QED
    BY <1>9, <2>2
<1>11. NoneMissing(f)
  <2>1. SUFFICES ASSUME NEW i \in 2..Len(f) PROVE f[i].sequence = f[i - 1].sequence + 1
    BY DEF NoneMissing
  <2>2. i \in 1..Len(f) /\ i - 1 \in 1..Len(f)
    BY <1>7
  <2>3. f[i].sequence = since + i - 1 /\ f[i - 1].sequence = since + (i - 1) - 1
    BY <1>9, <2>2
  <2>4. QED
    BY <1>3, <2>2, <2>3
<1>12. StartsAt(f, since)
  <2>1. SUFFICES ASSUME Len(f) > 0 PROVE f[1].sequence = since
    BY DEF StartsAt
  <2>2. 1 \in 1..Len(f)
    BY <1>7, <2>1
  <2>3. QED
    BY <1>3, <1>9, <2>2
<1>13. ~w.closed /\ ~w.terminalReceived => CaughtUp(f, since)
  <2>1. SUFFICES ASSUME Len(f) = n PROVE CaughtUp(f, since)
    BY <1>5
  <2>2. CASE n = 0
    BY <1>1, <1>2, <1>3, <1>6, <2>1, <2>2 DEF CaughtUp
  <2>3. CASE n > 0
    <3>1. Len(f) \in 1..Len(f)
      BY <1>7, <2>1, <2>3
    <3>2. f[Len(f)].sequence + 1 = Len(history)
      BY <1>3, <1>6, <1>9, <2>1, <2>3, <3>1
    <3>3. f[Len(f)].sequence + 1 = Len(emitted) \/ replayFull
      BY <1>2, <3>2
    <3>4. QED
      BY <2>1, <2>3, <3>2, <3>3 DEF CaughtUp
  <2>4. QED
    BY <1>6, <2>2, <2>3
<1>14. w.terminalReceived => consumer = "ended"
  <2>1. SUFFICES ASSUME w.terminalReceived PROVE consumer = "ended"
    OBVIOUS
  <2>2. PICK j \in 1..n : IsTerminal(history[since + j])
    BY <1>5, <2>1
  <2>3. since + j \in 1..Len(history) /\ since + j \in 1..Len(emitted)
    BY <1>1, <1>3, <1>8
  <2>4. IsTerminal(emitted[since + j])
    BY <1>1, <2>2, <2>3
  <2>5. QED
    BY <2>3, <2>4 DEF TerminalEnds
<1>15. InOrder(f, since)
  BY <1>10, <1>11, <1>12 DEF InOrder
<1>16. CASE consumer = "ended" /\ ~w.closed /\ ~w.terminalReceived
  <2> DEFINE v == Finished(w)
  <2>1. /\ v \in Writers /\ v.closed /\ v.queue = <<>> /\ v.sent = w.sent /\ v.since = since
        /\ v.queuedBytes = 0
    BY <1>5, FinishedIs
  <2> HIDE DEF v
  <2>2. /\ Frames(v) = w.sent /\ f = w.sent \o w.queue
        /\ w.sent \in Seq(Envelopes) /\ w.queue \in Seq(Envelopes)
    BY <1>5, <2>1, FramesAre DEF f
  <2>3. InOrder(w.sent, since)
    BY <1>15, <2>2, SentInOrder
  <2>4. Len(<<>>) = 0
    OBVIOUS
  <2>5. Shape(v)
    BY <2>1, <2>4 DEF Shape, QueueEnds
  <2>6. Connection(v)
    BY <2>1, <2>2, <2>3, <2>5, EmptyCounts DEF Connection
  <2>7. QED
    BY <1>16, <2>6 DEF v, w
<1>17. CASE ~(consumer = "ended" /\ ~w.closed /\ ~w.terminalReceived)
  <2>1. Connection(w)
    BY <1>5, <1>13, <1>14, <1>15, <1>17 DEF Connection, f
  <2>2. QED
    BY <1>17, <2>1 DEF w
<1>18. QED
  BY <1>16, <1>17

(* A connection that is told of an event. *)
LEMMA ConnectionTold ==
    ASSUME HistoryInv, NEW w, Connection(w), ~w.closed, consumer # "ended",
           NEW e \in Envelopes, e.sequence = Len(emitted), Announce(e),
           consumer' = "ended" <=> IsTerminal(e), NEW ready \in BOOLEAN
    PROVE  Connection(Write(w, e, ready))'
<1> DEFINE v == Write(w, e, ready)
           f == Frames(w)
           since == w.since
<1>1. /\ w \in Writers /\ Shape(w) /\ Counted(w) /\ ~w.terminalReceived
      /\ InOrder(f, since) /\ CaughtUp(f, since)
  BY DEF Connection
<1>2. /\ f \in Seq(Envelopes) /\ since \in Nat /\ f = w.sent \o w.queue
      /\ w.sent \in Seq(Envelopes) /\ w.queue \in Seq(Envelopes)
  BY <1>1, FramesAre
<1>3. /\ v \in Writers /\ Shape(v) /\ Counted(v)
      /\ v.since = since /\ v.terminalReceived = IsTerminal(e)
      /\ \/ Frames(v) = Append(f, e)
         \/ v.closed /\ Frames(v) = w.sent
  BY <1>1, WriteKeepsShape, WriteCounts
<1> HIDE DEF v, f, since
<1>4. CASE Frames(v) = Append(f, e)
  <2>1. InOrder(Append(f, e), since)' /\ CaughtUp(Append(f, e), since)'
    BY <1>1, <1>2, AnnouncedFollows
  <2>2. Connection(v)'
    BY <1>3, <1>4, <2>1 DEF Connection
  <2>3. QED
    BY <2>2 DEF v
<1>5. CASE v.closed /\ Frames(v) = w.sent
  <2> DEFINE s == w.sent
  <2>1. s \in Seq(Envelopes) /\ InOrder(s, since)
    BY <1>1, <1>2, SentInOrder
  <2> HIDE DEF s
  <2>2. InOrder(s, since)'
    BY <1>2, <2>1, AnnounceKeepsOrder
  <2>3. Frames(v) = s
    BY <1>5 DEF s
  <2>4. Connection(v)'
    BY <1>3, <1>5, <2>2, <2>3 DEF Connection
  <2>5. QED
    BY <2>4 DEF v
<1>6. QED
  BY <1>3, <1>4, <1>5

(* A closed connection is told nothing. *)
LEMMA ConnectionUntold ==
    ASSUME HistoryInv, NEW w, Connection(w), w.closed,
           NEW e \in Envelopes, e.sequence = Len(emitted), Announce(e)
    PROVE  Connection(w)'
<1> DEFINE f == Frames(w)
           since == w.since
<1>1. w \in Writers /\ Shape(w) /\ Counted(w) /\ InOrder(f, since)
  BY DEF Connection
<1>2. f \in Seq(Envelopes) /\ since \in Nat
  BY <1>1, FramesAre
<1> HIDE DEF f, since
<1>3. InOrder(f, since)'
  BY <1>1, <1>2, AnnounceKeepsOrder
<1>4. QED
  BY <1>1, <1>3 DEF Connection, f, since

LEMMA AnnounceKeepsStream ==
    ASSUME StreamInv, HistoryInv', consumer # "ended",
           NEW e \in Envelopes, e.sequence = Len(emitted), Announce(e),
           consumer' = "ended" <=> IsTerminal(e)
    PROVE  StreamInv'
<1>1. /\ HistoryInv /\ TerminalEnds
      /\ replayBytes \in 0..MaxStoredBytes /\ kept \in BOOLEAN /\ left \subseteq opened
      /\ writer \in [Connections -> Writers]
      /\ listeners \subseteq opened /\ opened \subseteq Connections
      /\ \A c \in opened : c \in listeners <=> ~writer[c].closed
      /\ \A c \in opened : Connection(writer[c])
  BY DEF StreamInv
<1>2. emitted \in Seq(Envelopes) /\ emitted' = Append(emitted, e) /\ opened' = opened
  BY <1>1 DEF HistoryInv, SessionType, Announce
<1>3. PICK ready \in [listeners -> BOOLEAN] :
          /\ writer' = [c \in Connections |->
                IF c \in listeners THEN Write(writer[c], e, ready[c]) ELSE writer[c]]
          /\ listeners' = {c \in listeners : ~writer'[c].closed}
  BY DEF Announce
<1>4. TerminalEnds'
  <2>1. /\ Len(emitted) \in Nat /\ Len(emitted') = Len(emitted) + 1
        /\ \A i \in 1..Len(emitted) : emitted'[i] = emitted[i]
        /\ emitted'[Len(emitted) + 1] = e
    BY <1>2, AppendedHere
  <2>2. \A i \in 1..Len(emitted) : ~IsTerminal(emitted[i])
    BY <1>1 DEF TerminalEnds
  <2>3. SUFFICES ASSUME NEW i \in 1..Len(emitted'), IsTerminal(emitted'[i])
                 PROVE  consumer' = "ended"
    BY DEF TerminalEnds, IsTerminal
  <2>4. i \notin 1..Len(emitted)
    BY <2>1, <2>2, <2>3
  <2>5. i = Len(emitted) + 1
    BY <2>1, <2>4
  <2>6. QED
    BY <2>1, <2>3, <2>5
<1>5. ASSUME NEW c \in opened
      PROVE  Connection(writer[c])'
  <2>1. c \in Connections /\ Connection(writer[c]) /\ opened' = opened
    BY <1>1, <1>2
  <2>2. CASE c \in listeners
    <3> DEFINE w == writer[c]
               r == ready[c]
    <3>1. ~w.closed /\ Connection(w) /\ r \in BOOLEAN
      BY <1>1, <2>1, <2>2
    <3>2. writer'[c] = Write(w, e, r)
      BY <1>3, <2>1, <2>2
    <3>3. \A x : Connection(x) /\ ~x.closed => Connection(Write(x, e, r))'
      BY <1>1, <3>1, ConnectionTold
    <3>4. \A x, y : Connection(x) /\ ~x.closed /\ y = Write(x, e, r) => Connection(y)'
      BY <3>3
    <3>5. QED
      BY <3>1, <3>2, <3>4
  <2>3. CASE c \notin listeners
    <3>1. writer[c].closed
      BY <1>1, <2>3
    <3>2. writer'[c] = writer[c]
      BY <1>3, <2>1, <2>3
    <3>3. \A x : Connection(x) /\ x.closed => Connection(x)'
      BY <1>1, ConnectionUntold
    <3>4. QED
      BY <2>1, <3>1, <3>2, <3>3
  <2>4. QED
    BY <2>2, <2>3
<1>6. writer' \in [Connections -> Writers]
  <2>1. ASSUME NEW c \in Connections
        PROVE  writer'[c] \in Writers
    <3>1. CASE c \in opened
      BY <1>5, <3>1 DEF Connection
    <3>2. CASE c \notin opened
      BY <1>1, <1>3, <3>2
    <3>3. QED
      BY <3>1, <3>2
  <2>2. QED
    BY <1>3, <2>1
<1>7. \A c \in opened : c \in listeners' <=> ~writer'[c].closed
  BY <1>1, <1>3
<1>8. listeners' \subseteq opened
  BY <1>1, <1>3
<1>9. replayBytes' \in 0..MaxStoredBytes /\ kept' \in BOOLEAN /\ left' \subseteq opened
  <2>1. \/ replayBytes' = replayBytes
        \/ replayBytes' = replayBytes + e.bytes /\ replayBytes + e.bytes <= MaxStoredBytes
    BY DEF Announce, StoreEnvelope
  <2>2. e.bytes \in Nat /\ MaxStoredBytes \in Nat
    BY StreamAssumption DEF Envelopes
  <2>3. kept' = kept /\ left' = left
    BY DEF Announce
  <2>4. QED
    BY <1>1, <2>1, <2>2, <2>3
<1>10. QED
  BY <1>1, <1>2, <1>4, <1>5, <1>6, <1>7, <1>8, <1>9 DEF StreamInv

(* Every step keeps it. *)
LEMMA StreamInvNext ==
    ASSUME StreamInv, [Next]_vars
    PROVE  StreamInv'
<1>1. /\ HistoryInv /\ TerminalEnds
      /\ replayBytes \in 0..MaxStoredBytes /\ kept \in BOOLEAN /\ left \subseteq opened
      /\ writer \in [Connections -> Writers]
      /\ listeners \subseteq opened /\ opened \subseteq Connections
      /\ \A c \in opened : c \in listeners <=> ~writer[c].closed
      /\ \A c \in opened : Connection(writer[c])
  BY DEF StreamInv
<1>2. HistoryInv'
  BY <1>1, HistoryInvNext
<1>3. CASE ConsumeEvent
  <2>1. PICK e \in Envelopes :
            /\ e.sequence = Len(emitted) /\ Announce(e)
            /\ consumer' = IF e.type \in Terminal THEN "ended" ELSE "reading"
    BY <1>1, <1>3, EventAnnounced
  <2>2. consumer # "ended"
    BY <1>3 DEF ConsumeEvent
  <2>3. consumer' = "ended" <=> IsTerminal(e)
    BY <2>1 DEF IsTerminal
  <2>4. QED
    BY <1>2, <2>1, <2>2, <2>3, AnnounceKeepsStream
<1>4. CASE ConsumeFails
  <2>1. PICK e \in Envelopes :
            e.sequence = Len(emitted) /\ Announce(e) /\ e.type = "session.failed"
    BY <1>1, <1>4, FailureAnnounced
  <2>2. consumer # "ended" /\ consumer' = "ended"
    BY <1>4 DEF ConsumeFails
  <2>3. consumer' = "ended" <=> IsTerminal(e)
    BY <2>1, <2>2 DEF IsTerminal, Terminal
  <2>4. QED
    BY <1>2, <2>1, <2>2, <2>3, AnnounceKeepsStream
<1>5. CASE ConsumeOversized
  <2>1. /\ consumer = "reading" /\ consumer' = "failing"
        /\ UNCHANGED <<emitted, history, replayFull, replayBytes, kept, listeners, writer,
                       opened, left>>
    BY <1>5 DEF ConsumeOversized
  <2>2. TerminalEnds'
    BY <1>1, <2>1 DEF TerminalEnds
  <2>3. ASSUME NEW w, Connection(w)
        PROVE  Connection(w)'
    <3>1. InOrder(Frames(w), w.since)'
      BY <2>1, <2>3 DEF Connection, InOrder, OwnEvents, NoneMissing, StartsAt
    <3>2. CaughtUp(Frames(w), w.since) => CaughtUp(Frames(w), w.since)'
      BY <2>1 DEF CaughtUp
    <3>3. QED
      BY <2>1, <2>3, <3>1, <3>2 DEF Connection
  <2>4. \A c \in opened' : Connection(writer[c])'
    BY <1>1, <2>1, <2>3
  <2>5. QED
    BY <1>1, <1>2, <2>1, <2>2, <2>4 DEF StreamInv
<1>6. ASSUME UNCHANGED sessionVars
      PROVE  /\ TerminalEnds' /\ replayBytes' = replayBytes
             /\ \A w : Connection(w) => Connection(w)'
  <2>1. UNCHANGED <<consumer, emitted, history, replayFull, replayBytes>>
    BY <1>6 DEF sessionVars
  <2>2. TerminalEnds'
    BY <1>1, <2>1 DEF TerminalEnds
  <2>3. \A w : Connection(w) => Connection(w)'
    BY <2>1, ConnectionStays
  <2>4. QED
    BY <2>1, <2>2, <2>3
<1>7. CASE Forget \/ UNCHANGED vars
  <2>1. /\ UNCHANGED sessionVars /\ UNCHANGED <<listeners, writer, opened, left>>
        /\ kept' = FALSE \/ kept' = kept
    BY <1>7, Zenon DEF Forget, vars
  <2>2. \A c \in opened' : Connection(writer[c])'
    BY <1>1, <1>6, <2>1
  <2>3. QED
    BY <1>1, <1>2, <1>6, <2>1, <2>2 DEF StreamInv
<1>8. ASSUME NEW c \in Connections, Open(c)
      PROVE  StreamInv'
  <2>1. /\ c \notin opened /\ UNCHANGED sessionVars /\ opened' = opened \union {c}
        /\ UNCHANGED <<kept, left>>
        /\ listeners' = IF writer'[c].closed THEN listeners ELSE listeners \union {c}
    BY <1>8 DEF Open
  <2>2. PICK since \in 0..Len(emitted), k \in 0..Len(history) + 1 :
            LET w == Replayed(since, k) IN
            writer' = [writer EXCEPT ![c] =
                IF consumer = "ended" /\ ~w.closed /\ ~w.terminalReceived THEN Finished(w) ELSE w]
    BY <1>8 DEF Open
  <2> DEFINE w == Replayed(since, k)
             v == IF consumer = "ended" /\ ~w.closed /\ ~w.terminalReceived THEN Finished(w) ELSE w
  <2>3. k \in Nat
    BY <1>1 DEF HistoryInv, SessionType
  <2>4. Connection(v)
    BY <1>1, <2>3, ConnectionOpens
  <2>5. writer' = [writer EXCEPT ![c] = v]
    BY <2>2
  <2> HIDE DEF v, w
  <2>6. v \in Writers
    BY <2>4 DEF Connection
  <2>7. /\ writer' \in [Connections -> Writers] /\ writer'[c] = v
        /\ \A d \in opened : writer'[d] = writer[d]
    BY <1>1, <2>1, <2>5, <2>6
  <2>8. \A d \in opened' : Connection(writer[d])'
    BY <1>1, <1>6, <2>1, <2>4, <2>7
  <2>9. \A d \in opened' : d \in listeners' <=> ~writer'[d].closed
    BY <1>1, <2>1, <2>7
  <2>10. listeners' \subseteq opened' /\ opened' \subseteq Connections
    BY <1>1, <2>1
  <2>11. QED
    BY <1>1, <1>2, <1>6, <2>1, <2>7, <2>8, <2>9, <2>10 DEF StreamInv
<1>9. ASSUME NEW c \in Connections, Drain(c) \/ Close(c)
      PROVE  StreamInv'
  <2>1. /\ c \in opened /\ ~writer[c].closed /\ UNCHANGED sessionVars /\ opened' = opened
        /\ kept' = kept /\ left' \subseteq left \union {c}
    BY <1>9 DEF Drain, Close
  <2>2. Connection(writer[c])
    BY <1>1, <2>1
  <2>3. \E v : Connection(v) /\ writer' = [writer EXCEPT ![c] = v]
    <3>1. Connection(Finished(writer[c]))
      BY <2>2, ConnectionEnds
    <3>2. CASE writer' = [writer EXCEPT ![c] = Finished(@)]
      BY <3>1, <3>2
    <3>3. CASE /\ writer[c].backpressured /\ ~writer[c].endAfterDrain
               /\ \E k \in 1..Len(writer[c].queue) + 1 :
                      writer' = [writer EXCEPT ![c] = Drained(@, k)]
      <4>1. PICK k \in 1..Len(writer[c].queue) + 1 : writer' = [writer EXCEPT ![c] = Drained(@, k)]
        BY <3>3
      <4>2. Connection(Drained(writer[c], k))
        BY <2>1, <2>2, <3>3, ConnectionDrains
      <4>3. QED
        BY <4>1, <4>2
    <3>4. QED
      BY <1>9, <3>2, <3>3 DEF Drain, Close
  <2>4. PICK v : Connection(v) /\ writer' = [writer EXCEPT ![c] = v]
    BY <2>3
  <2>5. v \in Writers
    BY <2>4 DEF Connection
  <2>6. /\ writer' \in [Connections -> Writers] /\ writer'[c] = v
        /\ \A d \in opened : d # c => writer'[d] = writer[d]
    BY <1>1, <2>4, <2>5
  <2>7. \A d \in opened' : Connection(writer[d])'
    BY <1>1, <1>6, <2>1, <2>4, <2>6
  <2>8. /\ \A d \in opened' : d \in listeners' <=> ~writer'[d].closed
        /\ listeners' \subseteq opened'
    <3>1. CASE listeners' = {d \in listeners : ~writer'[d].closed}
      BY <1>1, <2>1, <2>6, <3>1
    <3>2. CASE listeners' = listeners \ {c} /\ writer' = [writer EXCEPT ![c] = Finished(@)]
      <4>1. writer'[c] = Finished(writer[c]) /\ writer[c] \in Writers
        BY <1>1, <3>2
      <4>2. writer'[c].closed
        BY <4>1, FinishedIs
      <4>3. QED
        BY <1>1, <2>1, <2>6, <3>2, <4>2
    <3>3. QED
      BY <1>9, <3>1, <3>2 DEF Drain, Close
  <2>9. QED
    BY <1>1, <1>2, <1>6, <2>1, <2>6, <2>7, <2>8 DEF StreamInv
<1>10. QED
  BY <1>3, <1>4, <1>5, <1>7, <1>8, <1>9 DEF Next

-----------------------------------------------------------------------------
(* A client sees the session's own events, from the first one it asked for, *)
(* none twice, none out of order and none missing but what a full history   *)
(* did not keep: for any number of connections, any caps, and a socket that *)
(* stops at any frame of a replay, of a drain or of the live events.        *)
THEOREM FramesAreAlwaysInOrder == Spec => []FramesInOrder
<1>1. StreamInv => FramesInOrder
  <2>1. SUFFICES ASSUME StreamInv, NEW c \in opened
                 PROVE  LET f == Frames(writer[c]) IN
                        /\ \A i \in 1..Len(f) : f[i] = emitted[f[i].sequence + 1]
                        /\ \A i \in 2..Len(f) :
                              \/ f[i].sequence = f[i - 1].sequence + 1
                              \/ replayFull /\ f[i - 1].sequence = Len(history) - 1
                        /\ f # <<>> => \/ Head(f).sequence = writer[c].since
                                       \/ replayFull /\ writer[c].since >= Len(history)
    BY DEF FramesInOrder
  <2> DEFINE f == Frames(writer[c])
  <2>2. writer[c] \in Writers /\ InOrder(f, writer[c].since)
    BY <2>1 DEF StreamInv, Connection
  <2>3. f \in Seq(Envelopes)
    BY <2>2, FramesAre
  <2> HIDE DEF f
  <2>4. f # <<>> => Len(f) > 0 /\ Head(f) = f[1]
    BY <2>3
  <2>5. QED
    BY <2>2, <2>4 DEF InOrder, OwnEvents, NoneMissing, StartsAt, f
<1>2. QED
  BY <1>1, StreamInvInit, StreamInvNext, PTL DEF Spec

(* Nobody hangs: the listeners are the connections that are open, and when  *)
(* the session is over each of them only waits for its socket to take the   *)
(* terminal event, which it was sent or has at the end of its queue.        *)
THEOREM NobodyEverHangs == Spec => []NobodyHangs
<1>1. StreamInv => NobodyHangs
  <2>1. SUFFICES ASSUME StreamInv PROVE NobodyHangs
    OBVIOUS
  <2>2. listeners = {c \in opened : ~writer[c].closed}
    BY <2>1 DEF StreamInv
  <2>3. ASSUME consumer = "ended", NEW c \in listeners
        PROVE  /\ writer[c].backpressured
               /\ \/ writer[c].endAfterDrain
                  \/ writer[c].queue # <<>> /\ IsTerminal(writer[c].queue[Len(writer[c].queue)])
    <3> DEFINE w == writer[c]
               q == w.queue
    <3>1. w \in Writers /\ Shape(w) /\ ~w.closed /\ w.terminalReceived
      BY <2>1, <2>3 DEF StreamInv, Connection
    <3>2. w.backpressured /\ (w.endAfterDrain \/ q # <<>>)
      BY <3>1 DEF Shape
    <3>3. q \in Seq(Envelopes)
      BY <3>1, FramesAre
    <3>4. \A i \in 1..Len(q) : IsTerminal(q[i]) <=> i = Len(q)
      BY <3>1 DEF Shape, QueueEnds
    <3> HIDE DEF q
    <3>5. q # <<>> => Len(q) \in 1..Len(q)
      BY <3>3
    <3>6. q # <<>> => IsTerminal(q[Len(q)])
      BY <3>4, <3>5
    <3>7. QED
      BY <3>2, <3>6 DEF q
  <2>4. QED
    BY <2>2, <2>3 DEF NobodyHangs
<1>2. QED
  BY <1>1, StreamInvInit, StreamInvNext, PTL DEF Spec

(* A slow client costs at most MAX_QUEUED_EVENTS frames of at most          *)
(* MAX_QUEUED_BYTES together, and the writer's running count is exact, over *)
(* any run of queueing, partial drains and drops: it never drifts from what *)
(* is in the queue, so the bound it enforces is the bound that holds.       *)
THEOREM QueuesAreAlwaysBounded == Spec => []QueueIsBounded
<1>1. StreamInv => QueueIsBounded
  <2>1. SUFFICES ASSUME StreamInv, NEW c \in opened
                 PROVE  /\ Len(writer[c].queue) <= MaxQueuedEvents
                        /\ writer[c].queuedBytes = Bytes(writer[c].queue)
                        /\ Bytes(writer[c].queue) <= MaxQueuedBytes
    BY DEF QueueIsBounded, Bytes
  <2>2. Counted(writer[c])
    BY <2>1 DEF StreamInv, Connection
  <2>3. QED
    BY <2>2 DEF Counted
<1>2. QED
  BY <1>1, StreamInvInit, StreamInvNext, PTL DEF Spec

(* The types of the variables; the bytes of the history stay within         *)
(* MAX_STORED_EVENT_BYTES_PER_SESSION.                                      *)
THEOREM StreamTypesAreKept == Spec => []TypeOK
<1>1. StreamInv => TypeOK
  BY DEF StreamInv, HistoryInv, SessionType, TypeOK
<1>2. QED
  BY <1>1, StreamInvInit, StreamInvNext, PTL DEF Spec
=============================================================================
