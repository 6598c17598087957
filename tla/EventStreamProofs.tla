------------------------- MODULE EventStreamProofs -------------------------
(***************************************************************************)
(* Theorems about the session's side of EventStream, for any number of     *)
(* events, sizes, caps and connections: the replay history stays indexed   *)
(* by sequence number, and what the listeners are told is a terminated     *)
(* stream.                                                                 *)
(***************************************************************************)
EXTENDS EventStream, TLAPS

SessionType ==
    /\ consumer \in {"reading", "failing", "ended"}
    /\ nextSequence \in Nat
    /\ emitted \in Seq(Envelopes)
    /\ history \in Seq(Envelopes)
    /\ replayFull \in BOOLEAN

(* The number an oversized event took is the only one not yet announced. *)
Numbered ==
    /\ nextSequence = IF consumer = "failing" THEN Len(emitted) + 1 ELSE Len(emitted)
    /\ \A i \in 1..Len(emitted) : emitted[i].sequence = i - 1

(* The history is the beginning of what was announced, and, until the latch *)
(* falls, all of it.                                                        *)
Stored ==
    /\ Len(history) <= Len(emitted)
    /\ ~replayFull => Len(history) = Len(emitted)
    /\ \A i \in 1..Len(history) : history[i] = emitted[i]

HistoryInv == SessionType /\ Numbered /\ Stored

-----------------------------------------------------------------------------
LEMMA AppendedHere ==
    ASSUME NEW S, NEW s \in Seq(S), NEW e \in S
    PROVE  /\ Append(s, e) \in Seq(S)
           /\ Len(Append(s, e)) = Len(s) + 1
           /\ \A i \in 1..Len(s) : Append(s, e)[i] = s[i]
           /\ Append(s, e)[Len(s) + 1] = e
OBVIOUS

(* Storing and announcing the envelope whose turn it is. *)
LEMMA AnnounceKeeps ==
    ASSUME HistoryInv, NEW e \in Envelopes, e.sequence = Len(emitted), Announce(e)
    PROVE  /\ emitted' \in Seq(Envelopes) /\ history' \in Seq(Envelopes)
           /\ replayFull' \in BOOLEAN
           /\ Len(emitted') = Len(emitted) + 1
           /\ \A i \in 1..Len(emitted') : emitted'[i].sequence = i - 1
           /\ Stored'
<1>1. emitted' = Append(emitted, e)
  BY DEF Announce
<1>2. \/ /\ ~replayFull /\ history' = Append(history, e) /\ replayFull' = replayFull
      \/ /\ replayFull' = TRUE /\ history' = history
  BY DEF Announce, StoreEnvelope
<1>3. /\ emitted \in Seq(Envelopes) /\ history \in Seq(Envelopes)
      /\ replayFull \in BOOLEAN
      /\ Len(emitted) \in Nat /\ Len(history) \in Nat
  BY DEF HistoryInv, SessionType
<1>4. /\ emitted' \in Seq(Envelopes)
      /\ Len(emitted') = Len(emitted) + 1
      /\ \A i \in 1..Len(emitted) : emitted'[i] = emitted[i]
      /\ emitted'[Len(emitted) + 1] = e
  BY <1>1, <1>3, AppendedHere
<1>5. \A i \in 1..Len(emitted') : emitted'[i].sequence = i - 1
  <2>1. TAKE i \in 1..Len(emitted')
  <2>2. CASE i \in 1..Len(emitted)
    BY <1>4, <2>2 DEF HistoryInv, Numbered
  <2>3. CASE i = Len(emitted) + 1
    BY <1>3, <1>4, <2>3
  <2>4. QED
    BY <1>3, <1>4, <2>2, <2>3
<1>6. CASE ~replayFull /\ history' = Append(history, e) /\ replayFull' = replayFull
  <2>1. /\ history' \in Seq(Envelopes)
        /\ Len(history') = Len(history) + 1
        /\ \A i \in 1..Len(history) : history'[i] = history[i]
        /\ history'[Len(history) + 1] = e
    BY <1>3, <1>6, AppendedHere
  <2>2. Len(history) = Len(emitted)
    BY <1>6 DEF HistoryInv, Stored
  <2>3. \A i \in 1..Len(history') : history'[i] = emitted'[i]
    <3>1. TAKE i \in 1..Len(history')
    <3>2. CASE i \in 1..Len(history)
      BY <1>4, <2>1, <2>2, <3>2 DEF HistoryInv, Stored
    <3>3. CASE i = Len(history) + 1
      BY <1>4, <2>1, <2>2, <3>3
    <3>4. QED
      BY <1>3, <2>1, <3>2, <3>3
  <2>4. QED
    BY <1>3, <1>4, <1>5, <1>6, <2>1, <2>2, <2>3 DEF Stored
<1>7. CASE replayFull' = TRUE /\ history' = history
  <2>1. \A i \in 1..Len(history') : history'[i] = emitted'[i]
    BY <1>3, <1>4, <1>7 DEF HistoryInv, Stored
  <2>2. Len(history') <= Len(emitted')
    BY <1>3, <1>4, <1>7 DEF HistoryInv, Stored
  <2>3. QED
    BY <1>3, <1>4, <1>5, <1>7, <2>1, <2>2 DEF Stored
<1>8. QED
  BY <1>2, <1>6, <1>7

(* What an event consume() announces is. *)
LEMMA EventAnnounced ==
    ASSUME HistoryInv, ConsumeEvent
    PROVE  \E e \in Envelopes :
               /\ e.sequence = Len(emitted)
               /\ Announce(e)
               /\ e.type \in {"event", "terminal"}
               /\ consumer' = IF e.type \in Terminal THEN "ended" ELSE "reading"
<1>1. PICK type \in {"event", "terminal"}, bytes \in Sizes :
          /\ Announce([sequence |-> nextSequence, type |-> type, bytes |-> bytes])
          /\ consumer' = IF type \in Terminal THEN "ended" ELSE "reading"
  BY DEF ConsumeEvent
<1> DEFINE e == [sequence |-> nextSequence, type |-> type, bytes |-> bytes]
<1>2. e \in Envelopes
  BY StreamAssumption DEF HistoryInv, SessionType, Envelopes, Types
<1>3. e.sequence = Len(emitted) /\ e.type = type
  BY DEF HistoryInv, Numbered, ConsumeEvent
<1>4. QED
  BY <1>1, <1>2, <1>3

LEMMA FailureAnnounced ==
    ASSUME HistoryInv, ConsumeFails
    PROVE  \E e \in Envelopes :
               e.sequence = Len(emitted) /\ Announce(e) /\ e.type = "session.failed"
<1>1. PICK bytes \in Sizes :
          Announce([sequence |-> nextSequence - 1, type |-> "session.failed", bytes |-> bytes])
  BY DEF ConsumeFails
<1> DEFINE e == [sequence |-> nextSequence - 1, type |-> "session.failed", bytes |-> bytes]
<1>2. nextSequence - 1 = Len(emitted) /\ Len(emitted) \in Nat
  BY DEF HistoryInv, SessionType, Numbered, ConsumeFails
<1>3. e \in Envelopes
  BY <1>2, StreamAssumption DEF Envelopes, Types
<1>4. QED
  BY <1>1, <1>2, <1>3

(* Every other step leaves the session's events alone. *)
LEMMA OthersKeep ==
    ASSUME Forget \/ (\E c \in Connections : Open(c) \/ Drain(c) \/ Close(c)) \/ UNCHANGED vars
    PROVE  UNCHANGED sessionVars
BY Zenon DEF Forget, Open, Drain, Close, vars

LEMMA HistoryInvInit == Init => HistoryInv
<1>1. ASSUME Init
      PROVE  /\ consumer = "reading" /\ nextSequence = 0
             /\ emitted = <<>> /\ history = <<>> /\ replayFull = FALSE
  BY <1>1, Zenon DEF Init
<1>2. <<>> \in Seq(Envelopes) /\ Len(<<>>) = 0
  OBVIOUS
<1>3. QED
  BY <1>1, <1>2 DEF HistoryInv, SessionType, Numbered, Stored

LEMMA HistoryInvNext ==
    ASSUME HistoryInv, [Next]_vars
    PROVE  HistoryInv'
<1>1. CASE ConsumeEvent
  <2>1. PICK e \in Envelopes :
            /\ e.sequence = Len(emitted)
            /\ Announce(e)
            /\ consumer' = IF e.type \in Terminal THEN "ended" ELSE "reading"
    BY <1>1, EventAnnounced
  <2>2. nextSequence = Len(emitted) /\ nextSequence' = nextSequence + 1 /\ nextSequence \in Nat
    BY <1>1 DEF ConsumeEvent, HistoryInv, SessionType, Numbered
  <2>3. QED
    BY <2>1, <2>2, AnnounceKeeps DEF HistoryInv, SessionType, Numbered
<1>2. CASE ConsumeOversized
  BY <1>2 DEF ConsumeOversized, HistoryInv, SessionType, Numbered, Stored
<1>3. CASE ConsumeFails
  <2>1. PICK e \in Envelopes : e.sequence = Len(emitted) /\ Announce(e)
    BY <1>3, FailureAnnounced
  <2>2. /\ consumer' = "ended" /\ nextSequence' = nextSequence
        /\ nextSequence = Len(emitted) + 1 /\ nextSequence \in Nat
    BY <1>3 DEF ConsumeFails, HistoryInv, SessionType, Numbered
  <2>3. QED
    BY <2>1, <2>2, AnnounceKeeps DEF HistoryInv, SessionType, Numbered
<1>4. CASE UNCHANGED sessionVars
  BY <1>4 DEF sessionVars, HistoryInv, SessionType, Numbered, Stored
<1>5. QED
  BY <1>1, <1>2, <1>3, <1>4, OthersKeep DEF Next

-----------------------------------------------------------------------------
(* Whatever the caps, the sizes and their order, and with a failure in      *)
(* place of an oversized event, the event at an index of the history is the *)
(* one whose sequence number it is (storeEnvelope's latch), so a replay     *)
(* from Last-Event-ID starts where it should.                               *)
THEOREM HistoriesAreIndexed == Spec => []HistoryIsIndexed
<1>1. HistoryInv => HistoryIsIndexed
  BY DEF HistoryInv, SessionType, Numbered, Stored, HistoryIsIndexed
<1>2. QED
  BY <1>1, HistoryInvInit, HistoryInvNext, PTL DEF Spec

(* The envelopes consume() announces end with exactly one terminal event,   *)
(* whether it is the run's own or the failure consume() puts in place of an *)
(* event that was too large.                                                *)
THEOREM SessionsImplementTerminatedStream == Spec => ImplementsTerminatedStream
<1> DEFINE stream == [i \in 1..Len(emitted) |-> emitted[i].type]
           over == consumer = "ended"
<1>1. Init => Promised!Init
  BY DEF Init, Promised!Init
<1>2. ASSUME HistoryInv, [Next]_vars
      PROVE  [Promised!Next]_<<stream, over>>
  <2>1. ASSUME NEW e \in Envelopes, e.sequence = Len(emitted), Announce(e)
        PROVE  /\ Len(stream) = Len(emitted) /\ Len(stream') = Len(emitted) + 1
               /\ Len(emitted) \in Nat
               /\ \A i \in 1..Len(stream) : stream'[i] = stream[i]
               /\ \A i \in Len(stream) + 1 .. Len(stream') :
                      i = Len(stream') /\ stream'[i] = e.type
    <3>1. emitted \in Seq(Envelopes) /\ emitted' = Append(emitted, e)
      BY <1>2, <2>1 DEF HistoryInv, SessionType, Announce
    <3>2. QED
      BY <3>1, AppendedHere
  <2>2. ASSUME NEW e \in Envelopes, e.sequence = Len(emitted), Announce(e), ~over
        PROVE  Promised!Extended
    <3>1. Len(stream) <= Len(stream')
      BY <2>1, <2>2
    <3>2. \A i \in 1..Len(stream) : stream'[i] = stream[i]
      BY <2>1, <2>2
    <3>3. QED
      BY <2>2, <3>1, <3>2, Zenon DEF Promised!Extended
  <2>3. ASSUME NEW e \in Envelopes, e.sequence = Len(emitted), Announce(e),
               e.type \in Terminal, ~over, over'
        PROVE  Promised!Next
    <3>1. Promised!Extended
      BY <2>2, <2>3
    <3>2. Len(stream) < Len(stream')
      BY <2>1, <2>3
    <3>3. \A i \in Len(stream) + 1 .. Len(stream') :
              stream'[i] \in Terminal <=> i = Len(stream')
      BY <2>1, <2>3
    <3>4. QED
      BY <2>3, <3>1, <3>2, <3>3, Zenon DEF Promised!Next, Promised!End
  <2>4. CASE ConsumeEvent
    <3>1. PICK e \in Envelopes :
              /\ e.sequence = Len(emitted)
              /\ Announce(e)
              /\ e.type \in {"event", "terminal"}
              /\ consumer' = IF e.type \in Terminal THEN "ended" ELSE "reading"
      BY <1>2, <2>4, EventAnnounced
    <3>2. ~over
      BY <2>4 DEF ConsumeEvent
    <3>3. CASE e.type = "event"
      <4>1. e.type \notin Terminal
        BY <3>3 DEF Terminal
      <4>2. over' = FALSE
        BY <3>1, <4>1
      <4>3. Promised!Extended
        BY <2>2, <3>1, <3>2
      <4>4. \A i \in Len(stream) + 1 .. Len(stream') : stream'[i] \notin Terminal
        BY <2>1, <3>1, <4>1
      <4>5. QED
        BY <4>2, <4>3, <4>4, Zenon DEF Promised!Next, Promised!Emit
    <3>4. CASE e.type = "terminal"
      <4>1. e.type \in Terminal
        BY <3>4 DEF Terminal
      <4>2. over'
        BY <3>1, <4>1
      <4>3. QED
        BY <2>3, <3>1, <3>2, <4>1, <4>2
    <3>5. QED
      BY <3>1, <3>3, <3>4
  <2>5. CASE ConsumeOversized
    BY <2>5 DEF ConsumeOversized
  <2>6. CASE ConsumeFails
    <3>1. PICK e \in Envelopes :
              e.sequence = Len(emitted) /\ Announce(e) /\ e.type = "session.failed"
      BY <1>2, <2>6, FailureAnnounced
    <3>2. ~over /\ over'
      BY <2>6 DEF ConsumeFails
    <3>3. e.type \in Terminal
      BY <3>1 DEF Terminal
    <3>4. QED
      BY <2>3, <3>1, <3>2, <3>3
  <2>7. CASE UNCHANGED sessionVars
    BY <2>7 DEF sessionVars
  <2>8. QED
    BY <1>2, <2>4, <2>5, <2>6, <2>7, OthersKeep DEF Next
<1>3. QED
  BY <1>1, <1>2, HistoryInvInit, HistoryInvNext, PTL
     DEF Spec, ImplementsTerminatedStream, Promised!Spec
=============================================================================
