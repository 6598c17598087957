------------------------- MODULE ProviderRunProofs -------------------------
(***************************************************************************)
(* Proofs about ProviderRun, for any number of callers, any cap of the     *)
(* channel and any bound on the output.                                    *)
(*                                                                         *)
(* The invariant has three parts.  FlowInv ties the channel to the run: it *)
(* is closed exactly when the run is over, and a consumer waits only on an *)
(* empty open channel.  It gives the refinement and the bound.  TreeInv    *)
(* ties the processes to the run and to the kill: nothing is killed before *)
(* it is spawned, and a reaped tree stays gone.  CallInv says what an      *)
(* answer to cancel() was based on.                                        *)
(***************************************************************************)
EXTENDS ProviderRun, TLAPS

FlowInv ==
    /\ closed <=> pc = "done"
    /\ reader = "waiting" => Queued = 0 /\ ~closed
    /\ Queued <= MaxBufferedItems + 2
    /\ ~closed => Queued <= MaxBufferedItems
    /\ pc = "new" => Queued = 0

TreeInv ==
    /\ pc \in {"new", "finding"} => leader = "none"
    /\ pc \in {"reading", "overflowed", "exiting"} => leader # "none"
    /\ leader = "none" => kill = "none" /\ ~group
    /\ kill = "reaped" => leader # "alive" /\ ~group

CallInv ==
    \A c \in Callers :
        /\ caller[c] # "none" => cancelled
        /\ caller[c] = "ok" => leader = "none" \/ kill = "reaped"

RunInv == TypeOK /\ FlowInv /\ TreeInv /\ CallInv

-----------------------------------------------------------------------------
(* What Enqueue adds to the stream, and what it leaves alone. *)
LEMMA EnqueueExtends ==
    ASSUME TypeOK, NEW events \in Seq(Types), Enqueue(events)
    PROVE  /\ stream' \in Seq(Types)
           /\ Len(stream') = Len(stream) + Len(events)
           /\ \A i \in 1..Len(stream) : stream'[i] = stream[i]
           /\ \A i \in 1..Len(events) : stream'[Len(stream) + i] = events[i]
           /\ taken' \in 0..Len(stream')
           /\ reader' \in ReaderStates
           /\ Queued' = IF reader = "waiting" /\ events # <<>>
                        THEN Queued + Len(events) - 1 ELSE Queued + Len(events)
           /\ reader' = "waiting" => reader = "waiting" /\ events = <<>>
<1>1. stream \in Seq(Types) /\ taken \in Nat /\ taken <= Len(stream)
  BY DEF TypeOK
<1>2. /\ stream' \in Seq(Types)
      /\ Len(stream') = Len(stream) + Len(events)
      /\ \A i \in 1..Len(stream) : stream'[i] = stream[i]
      /\ \A i \in 1..Len(events) : stream'[Len(stream) + i] = events[i]
  BY <1>1 DEF Enqueue
<1>3. events # <<>> => Len(events) >= 1
  OBVIOUS
<1>4. /\ taken' \in 0..Len(stream')
      /\ reader' \in ReaderStates
      /\ reader' = "waiting" => reader = "waiting" /\ events = <<>>
  BY <1>1, <1>2, <1>3 DEF Enqueue, TypeOK, ReaderStates
<1>5. Queued' = IF reader = "waiting" /\ events # <<>>
                THEN Queued + Len(events) - 1 ELSE Queued + Len(events)
  BY <1>1, <1>2, <1>3 DEF Enqueue, Queued
<1> QED BY <1>2, <1>4, <1>5

LEMMA RoomIsNatural ==
    ASSUME TypeOK PROVE Room \in Nat
<1>1. Queued \in Nat /\ MaxBufferedItems \in Nat
  BY RunAssumption DEF TypeOK, Queued
<1>2. (IF Queued < MaxBufferedItems THEN MaxBufferedItems - Queued ELSE 0) \in Nat
  BY <1>1
<1>3. (IF reader = "waiting" THEN 1 ELSE 0) \in Nat
  OBVIOUS
<1> QED BY <1>2, <1>3 DEF Room

(* The sequences of final events: short, typed, and terminal only at the end. *)
Final(events) ==
    /\ events \in Seq(Types)
    /\ Len(events) \in 1..3
    /\ \A i \in 1..Len(events) : events[i] \in Terminal <=> i = Len(events)

LEMMA FinalEvents ==
    /\ Final(Failure) /\ Len(Failure) = 2
    /\ \A e \in Terminal : Final(<<e>>) /\ Len(<<e>>) = 1
    /\ Final(<<"event", "error", "session.failed">>)
    /\ Len(<<"event", "error", "session.failed">>) = 3
<1>1. Final(Failure) /\ Len(Failure) = 2
  BY DEF Final, Failure, Types, Terminal
<1>2. ASSUME NEW e \in Terminal PROVE Final(<<e>>) /\ Len(<<e>>) = 1
  BY DEF Final, Types
<1>3. /\ Final(<<"event", "error", "session.failed">>)
      /\ Len(<<"event", "error", "session.failed">>) = 3
  BY DEF Final, Types, Terminal
<1> QED BY <1>1, <1>2, <1>3

(* The end of a run: the channel closes behind at most two events more than *)
(* the cap, or three on an empty channel.                                   *)
LEMMA FinishCloses ==
    ASSUME RunInv, NEW events, Final(events), Finish(events), ~closed,
           Len(events) <= 2 \/ Queued = 0
    PROVE  /\ FlowInv'
           /\ Promised!End
           /\ stream' \in Seq(Types) /\ taken' \in 0..Len(stream') /\ closed' \in BOOLEAN
           /\ reader' \in ReaderStates
           /\ pc' = "done" /\ cancelled' = cancelled /\ lines' = lines
<1>1. Enqueue(events) /\ closed' = TRUE /\ pc' = "done" /\ cancelled' = cancelled /\ lines' = lines
  BY DEF Finish, CloseWith
<1>2. events \in Seq(Types) /\ Len(events) \in 1..3
      /\ \A i \in 1..Len(events) : events[i] \in Terminal <=> i = Len(events)
  BY DEF Final
<1>3. events # <<>>
  BY <1>2
<1> DEFINE More == Len(events)
<1>4. /\ stream' \in Seq(Types)
      /\ Len(stream') = Len(stream) + More
      /\ \A i \in 1..Len(stream) : stream'[i] = stream[i]
      /\ \A i \in 1..More : stream'[Len(stream) + i] = events[i]
      /\ taken' \in 0..Len(stream')
      /\ reader' \in ReaderStates
      /\ Queued' = IF reader = "waiting" THEN Queued + More - 1 ELSE Queued + More
      /\ reader' # "waiting"
  BY <1>1, <1>2, <1>3, EnqueueExtends DEF RunInv
<1>5. Len(stream) \in Nat /\ taken \in Nat /\ Queued \in Int
  BY DEF RunInv, TypeOK, Queued
<1>6. Queued' <= MaxBufferedItems + 2
  <2>1. Queued <= MaxBufferedItems /\ MaxBufferedItems \in Nat /\ MaxBufferedItems >= 1
    BY RunAssumption DEF RunInv, FlowInv
  <2>2. Queued' <= Queued + More
    BY <1>2, <1>4, <1>5
  <2> HIDE DEF More
  <2>3. More \in 1..3 /\ (More <= 2 \/ Queued = 0)
    BY <1>2 DEF More
  <2>4. Queued' \in Int
    BY <1>4, <1>5, <2>3
  <2> QED BY <2>1, <2>2, <2>3, <2>4, <1>5
<1>7. FlowInv'
  BY <1>1, <1>4, <1>6 DEF FlowInv
<1>8. \A i \in Len(stream) + 1 .. Len(stream') : stream'[i] \in Terminal <=> i = Len(stream')
  <2> SUFFICES ASSUME NEW i \in Len(stream) + 1 .. Len(stream')
               PROVE  stream'[i] \in Terminal <=> i = Len(stream')
    OBVIOUS
  <2> DEFINE j == i - Len(stream)
  <2>1. j \in 1..More /\ i = Len(stream) + j
    BY <1>2, <1>4, <1>5
  <2>2. stream'[i] = events[j]
    BY <2>1, <1>4
  <2>3. Len(stream') = Len(stream) + Len(events) /\ Len(events) \in Nat
    BY <1>4, <1>2
  <2>4. i = Len(stream') <=> j = Len(events)
    BY <2>1, <2>3, <1>5
  <2> QED BY <2>1, <2>2, <2>4, <1>2
<1>9. Promised!End
  <2>1. Len(stream) < Len(stream') /\ Len(stream) <= Len(stream')
    BY <1>2, <1>4, <1>5
  <2>2. \A i \in 1..Len(stream) : stream'[i] = stream[i]
    BY <1>4
  <2> HIDE DEF More
  <2>3. Promised!Extended
    BY ONLY ~closed, <2>1, <2>2 DEF Promised!Extended
  <2>4. closed' = TRUE
    BY <1>1
  <2> QED BY ONLY <1>8, <2>1, <2>3, <2>4 DEF Promised!End
<1> QED BY <1>1, <1>4, <1>7, <1>9

(* Ordinary events, no more of them than there is room for, keep the        *)
(* channel within its cap.                                                  *)
LEMMA EnqueueEmits ==
    ASSUME RunInv, NEW events \in Seq({"event", "error"}), Enqueue(events),
           Len(events) <= Room, ~closed, closed' = closed, pc' \notin {"new", "done"}
    PROVE  /\ FlowInv'
           /\ Promised!Emit
           /\ stream' \in Seq(Types) /\ taken' \in 0..Len(stream')
           /\ reader' \in ReaderStates
<1>1. events \in Seq(Types)
  BY DEF Types
<1>2. /\ stream' \in Seq(Types)
      /\ Len(stream') = Len(stream) + Len(events)
      /\ \A i \in 1..Len(stream) : stream'[i] = stream[i]
      /\ \A i \in 1..Len(events) : stream'[Len(stream) + i] = events[i]
      /\ taken' \in 0..Len(stream')
      /\ reader' \in ReaderStates
      /\ Queued' = IF reader = "waiting" /\ events # <<>>
                   THEN Queued + Len(events) - 1 ELSE Queued + Len(events)
      /\ reader' = "waiting" => reader = "waiting" /\ events = <<>>
  BY <1>1, EnqueueExtends DEF RunInv
<1>3. Len(stream) \in Nat /\ Queued \in Int /\ MaxBufferedItems \in Nat /\ Len(events) \in Nat
  BY RunAssumption DEF RunInv, TypeOK, Queued
<1>4. events = <<>> <=> Len(events) = 0
  OBVIOUS
<1>5. FlowInv'
  <2>1. Queued' <= MaxBufferedItems
    BY <1>2, <1>3, <1>4 DEF Room, RunInv, FlowInv
  <2>2. reader' = "waiting" => Queued' = 0 /\ ~closed'
    BY <1>2, <1>3, <1>4 DEF RunInv, FlowInv
  <2>3. Queued' \in Int
    BY <1>2, <1>3
  <2>4. Queued' <= MaxBufferedItems + 2
    BY <2>1, <2>3, <1>3
  <2> QED BY <2>1, <2>2, <2>4 DEF FlowInv
<1>6. \A i \in Len(stream) + 1 .. Len(stream') : stream'[i] \notin Terminal
  <2> SUFFICES ASSUME NEW i \in Len(stream) + 1 .. Len(stream')
               PROVE  stream'[i] \notin Terminal
    OBVIOUS
  <2> DEFINE j == i - Len(stream)
  <2>1. j \in 1..Len(events) /\ i = Len(stream) + j
    BY <1>2, <1>3
  <2>2. stream'[i] = events[j]
    BY <2>1, <1>2
  <2>3. events[j] \in {"event", "error"}
    BY <2>1
  <2> QED BY <2>2, <2>3 DEF Terminal
<1>7. Promised!Emit
  BY <1>2, <1>3, <1>6 DEF Promised!Emit, Promised!Extended
<1> QED BY <1>2, <1>5, <1>7

-----------------------------------------------------------------------------
(* Facts about the steps that leave the channel or the processes alone. *)

LEMMA QuietChannel ==
    ASSUME RunInv, UNCHANGED channelVars, pc' = "done" <=> pc = "done",
           pc' = "new" => pc = "new"
    PROVE  /\ FlowInv' /\ UNCHANGED <<stream, closed>>
           /\ stream' \in Seq(Types) /\ taken' \in 0..Len(stream')
           /\ closed' \in BOOLEAN /\ reader' \in ReaderStates
BY DEF RunInv, TypeOK, FlowInv, channelVars, Queued

LEMMA QuietTree ==
    ASSUME RunInv, UNCHANGED <<processVars, killVars>>, cancelled' = cancelled,
           pc' \in {"new", "finding"} => pc = pc' \/ pc = "new",
           pc' \in {"reading", "overflowed", "exiting"} =>
               pc \in {"reading", "overflowed", "exiting"}
    PROVE  TreeInv' /\ CallInv'
BY DEF RunInv, TreeInv, CallInv, processVars, killVars

(* What a step has to show: the invariant again, and a step or a stutter of *)
(* the promise.                                                             *)
Step ==
    /\ RunInv'
    /\ Promised!Next \/ UNCHANGED <<stream, closed>>

LEMMA FinishingStep ==
    ASSUME RunInv, NEW events, Final(events), Finish(events), ~closed,
           Len(events) <= 2 \/ Queued = 0,
           TreeInv', CallInv', leader' \in LeaderStates, group' \in BOOLEAN,
           UNCHANGED killVars
    PROVE  Step
<1>1. /\ FlowInv'
      /\ Promised!End
      /\ stream' \in Seq(Types) /\ taken' \in 0..Len(stream') /\ closed' \in BOOLEAN
      /\ reader' \in ReaderStates
      /\ pc' = "done" /\ cancelled' = cancelled /\ lines' = lines
  BY FinishCloses
<1>2. TypeOK'
  BY <1>1 DEF RunInv, TypeOK, RunStates, killVars
<1> QED BY <1>1, <1>2 DEF Step, RunInv, Promised!Next

-----------------------------------------------------------------------------
(* One lemma per group of actions *)

LEMMA RunSteps ==
    ASSUME RunInv, RunNext
    PROVE  Step
<1> USE DEF RunInv
<1>a. closed \in BOOLEAN /\ (closed <=> pc = "done")
  BY DEF TypeOK, FlowInv
<1>b. killVars' = killVars => kill' = kill /\ caller' = caller
  BY DEF killVars
<1>c. Final(Failure) /\ Len(Failure) <= 2
  BY FinalEvents
<1>d. ASSUME NEW e \in Terminal PROVE Final(<<e>>) /\ Len(<<e>>) <= 2
  <2>1. Final(<<e>>)
    BY FinalEvents
  <2>2. Len(<<e>>) = 1
    OBVIOUS
  <2> QED BY <2>1, <2>2
<1>1. CASE RunStarts
  <2>1. /\ pc = "new" /\ ~closed /\ Queued = 0 /\ MaxBufferedItems >= 1
        /\ UNCHANGED <<processVars, killVars>>
    BY <1>1, <1>a, RunAssumption DEF RunStarts, FlowInv
  <2>2. CASE Enqueue(<<"event">>) /\ pc' = "finding" /\ UNCHANGED <<cancelled, lines, closed>>
    <3>1. Len(<<"event">>) = 1 /\ <<"event">> \in Seq({"event", "error"})
      OBVIOUS
    <3>2. Room >= 1
      BY <2>1, RunAssumption DEF Room
    <3>3. TreeInv' /\ CallInv'
      BY <2>1, <2>2, QuietTree
    <3>4. Len(<<"event">>) <= Room
      BY <3>1, <3>2
    <3>5. /\ FlowInv' /\ Promised!Emit
          /\ stream' \in Seq(Types) /\ taken' \in 0..Len(stream') /\ reader' \in ReaderStates
      BY <2>1, <2>2, <3>1, <3>4, EnqueueEmits
    <3>6. TypeOK'
      BY <2>1, <2>2, <3>5 DEF TypeOK, RunStates, processVars, killVars
    <3> QED BY <3>3, <3>5, <3>6 DEF Step, Promised!Next
  <2>3. CASE Finish(<<"event", "error", "session.failed">>)
    <3>1. pc' = "done" /\ cancelled' = cancelled
      BY <2>3 DEF Finish
    <3>2. TreeInv' /\ CallInv'
      BY <2>1, <3>1, QuietTree
    <3> QED BY <2>1, <2>3, <3>2, FinalEvents, FinishingStep DEF TypeOK, processVars
  <2> QED BY <1>1, <2>2, <2>3 DEF RunStarts
<1>2. ASSUME NEW events, Final(events), Len(events) <= 2, Finish(events), pc # "done",
             UNCHANGED <<processVars, killVars>>
      PROVE  Step
  <2>1. pc' = "done" /\ cancelled' = cancelled /\ ~closed
    BY <1>2, <1>a DEF Finish
  <2>2. TreeInv' /\ CallInv'
    BY <1>2, <2>1, QuietTree
  <2> QED BY <1>2, <2>1, <2>2, FinishingStep DEF TypeOK, processVars
<1>3. CASE RunFindsNothing
  BY <1>3, <1>2, <1>c DEF RunFindsNothing
<1>4. CASE RunFindsItselfCancelled
  BY <1>4, <1>2, <1>d DEF RunFindsItselfCancelled, Terminal
<1>5. CASE RunSpawns
  <2>1. /\ pc = "finding" /\ ~cancelled /\ leader' = "alive" /\ pc' = "reading"
        /\ UNCHANGED <<cancelled, lines, group, killVars, channelVars>>
    BY <1>5 DEF RunSpawns
  <2>2. /\ FlowInv' /\ UNCHANGED <<stream, closed>>
        /\ stream' \in Seq(Types) /\ taken' \in 0..Len(stream')
        /\ closed' \in BOOLEAN /\ reader' \in ReaderStates
    BY <2>1, QuietChannel
  <2>3. TreeInv' /\ CallInv'
    BY <2>1 DEF TreeInv, CallInv, killVars
  <2>4. TypeOK'
    BY <2>1, <2>2 DEF TypeOK, RunStates, LeaderStates, killVars
  <2> QED BY <2>2, <2>3, <2>4 DEF Step
<1>6. CASE RunCrashes
  <2>1. /\ pc = "finding" /\ ~cancelled /\ leader' = "alive" /\ ~closed
        /\ Finish(Failure) /\ UNCHANGED <<group, killVars>>
        /\ pc' = "done" /\ cancelled' = cancelled
    BY <1>6, <1>a DEF RunCrashes, Finish
  <2>2. TreeInv' /\ CallInv'
    BY <2>1 DEF TreeInv, CallInv, killVars
  <2> QED BY <2>1, <2>2, <1>c, FinishingStep DEF TypeOK, LeaderStates
<1>7. CASE RunReadsLine
  <2>1. PICK n \in 0..MaxPerLine :
          /\ pc = "reading" /\ lines < MaxLines
          /\ lines' = lines + 1
          /\ Enqueue([i \in 1..(IF n <= Room THEN n ELSE Room) |-> "event"])
          /\ IF n <= Room
             THEN UNCHANGED <<pc, kill>>
             ELSE pc' = "overflowed" /\ kill' = IF kill = "none" THEN "term" ELSE kill
          /\ UNCHANGED <<cancelled, processVars, caller, closed>>
    BY <1>7 DEF RunReadsLine
  <2> DEFINE k == IF n <= Room THEN n ELSE Room
             evs == [i \in 1..k |-> "event"]
  <2>2. Room \in Nat /\ n \in Nat
    BY RunAssumption, RoomIsNatural
  <2>3. k \in Nat /\ k <= Room
    BY <2>2
  <2> HIDE DEF k
  <2>4. evs \in Seq({"event", "error"}) /\ Len(evs) = k
    BY <2>3
  <2>5. pc' \in {"reading", "overflowed"} /\ ~closed /\ closed' = closed
    BY <2>1, <1>a
  <2>6. /\ FlowInv' /\ Promised!Emit
        /\ stream' \in Seq(Types) /\ taken' \in 0..Len(stream') /\ reader' \in ReaderStates
    <3> HIDE DEF evs
    <3>1. Enqueue(evs)
      BY <2>1 DEF evs, k
    <3> QED BY <3>1, <2>3, <2>4, <2>5, EnqueueEmits
  <2>7. kill' \in {kill, "term"} /\ (kill' = kill \/ kill = "none") /\ leader # "none"
    BY <2>1 DEF TreeInv
  <2>8. TreeInv' /\ CallInv'
    BY <2>1, <2>5, <2>7 DEF TreeInv, CallInv, processVars
  <2>9. TypeOK'
    BY <2>1, <2>5, <2>6, <2>7 DEF TypeOK, RunStates, KillStates, processVars
  <2> QED BY <2>6, <2>8, <2>9 DEF Step, Promised!Next
<1>8. CASE RunStopsReading
  <2>1. /\ pc = "reading" /\ pc' = "exiting" /\ ~closed /\ closed' = closed
        /\ UNCHANGED <<cancelled, lines, processVars, killVars>>
    BY <1>8, <1>a DEF RunStopsReading
  <2>2. TreeInv' /\ CallInv'
    BY <2>1, QuietTree
  <2>3. /\ FlowInv' /\ (Promised!Emit \/ UNCHANGED <<stream, closed>>)
        /\ stream' \in Seq(Types) /\ taken' \in 0..Len(stream') /\ reader' \in ReaderStates
    <3>1. CASE Room > 0 /\ Enqueue(<<"error">>)
      <4>1. Len(<<"error">>) <= Room /\ <<"error">> \in Seq({"event", "error"})
        <5>1. Room \in Nat
          BY RoomIsNatural
        <5>2. Len(<<"error">>) = 1 /\ <<"error">> \in Seq({"event", "error"})
          OBVIOUS
        <5> QED BY <5>1, <5>2, <3>1
      <4> QED BY <2>1, <3>1, <4>1, EnqueueEmits
    <3>2. CASE UNCHANGED <<stream, taken, reader>>
      BY <2>1, <3>2, QuietChannel DEF channelVars
    <3> QED BY <1>8, <3>1, <3>2 DEF RunStopsReading, Push
  <2>4. TypeOK'
    BY <2>1, <2>3 DEF TypeOK, RunStates, processVars, killVars
  <2> QED BY <2>2, <2>3, <2>4 DEF Step, Promised!Next
<1>9. CASE RunOverflows
  BY <1>9, <1>2, <1>c DEF RunOverflows
<1>10. CASE RunExits
  <2>1. \E events \in {<<"session.cancelled">>, <<"session.completed">>, Failure} : Finish(events)
    BY <1>10 DEF RunExits
  <2> QED BY <2>1, <1>10, <1>2, <1>c, <1>d DEF RunExits, Terminal
<1> QED BY <1>1, <1>3, <1>4, <1>5, <1>6, <1>7, <1>8, <1>9, <1>10 DEF RunNext

(* The consumer, who adds nothing. *)
LEMMA ReaderSteps ==
    ASSUME RunInv, Take \/ Await \/ Abandon
    PROVE  Step
<1> USE DEF RunInv
<1>1. UNCHANGED <<runVars, processVars, killVars, stream, closed>>
  BY DEF Take, Await, Abandon
<1>2. TreeInv' /\ CallInv'
  BY <1>1, QuietTree DEF runVars
<1>3. Queued \in Nat /\ MaxBufferedItems \in Nat /\ Queued = Len(stream) - taken
  BY RunAssumption DEF TypeOK, Queued
<1>4. Queued' = Len(stream) - taken'
  BY <1>1 DEF Queued
<1>5. CASE Take
  <2>1. reader = "busy" /\ Queued > 0 /\ taken' = taken + 1 /\ reader' = reader
    BY <1>5 DEF Take
  <2>2. Queued' = Queued - 1 /\ taken' \in 0..Len(stream')
    BY <2>1, <1>1, <1>3, <1>4 DEF TypeOK
  <2>3. FlowInv'
    BY <2>1, <2>2, <1>1, <1>3 DEF FlowInv, runVars
  <2> QED BY <1>1, <1>2, <2>1, <2>2, <2>3 DEF Step, TypeOK, runVars, processVars, killVars
<1>6. CASE Await \/ Abandon
  <2>1. reader = "busy" /\ taken' = taken /\ reader' \in {"waiting", "ended"}
        /\ (reader' = "waiting" => Queued = 0 /\ ~closed)
    BY <1>6 DEF Await, Abandon
  <2>2. FlowInv'
    BY <2>1, <1>1, <1>3, <1>4 DEF FlowInv, runVars
  <2> QED BY <1>1, <1>2, <2>1, <2>2
          DEF Step, TypeOK, ReaderStates, runVars, processVars, killVars
<1> QED BY <1>5, <1>6

(* cancel(), the kill it shares, and the processes. *)
LEMMA TreeSteps ==
    ASSUME RunInv,
           \/ \E c \in Callers : Cancel(c)
           \/ KillNext
           \/ Fork \/ LeaderExits \/ GroupExits
    PROVE  Step
<1> USE DEF RunInv
<1>1. UNCHANGED <<pc, lines, channelVars>>
  BY DEF Cancel, KillNext, KillEscalates, KillConfirms, KillTimesOut, Settle, Fork,
         LeaderExits, GroupExits, runVars
<1>2. /\ FlowInv' /\ UNCHANGED <<stream, closed>>
      /\ stream' \in Seq(Types) /\ taken' \in 0..Len(stream')
      /\ closed' \in BOOLEAN /\ reader' \in ReaderStates
  BY <1>1, QuietChannel
<1> DEFINE Rest ==
      /\ TreeInv' /\ CallInv'
      /\ cancelled' \in BOOLEAN /\ leader' \in LeaderStates /\ group' \in BOOLEAN
      /\ kill' \in KillStates /\ caller' \in [Callers -> CallStates]
<1>3. ASSUME NEW c \in Callers, Cancel(c) PROVE Rest
  <2>1. /\ pc # "new" /\ caller[c] = "none" /\ cancelled' = TRUE
        /\ kill' = IF leader # "none" /\ kill = "none" THEN "term" ELSE kill
        /\ caller' = [caller EXCEPT ![c] = IF leader = "none" THEN "ok" ELSE Settled[kill']]
        /\ leader' = leader /\ group' = group /\ pc' = pc
    BY <1>3 DEF Cancel, processVars
  <2>2. kill' \in KillStates /\ (leader # "none" => kill' # "none")
    BY <2>1 DEF TypeOK, KillStates
  <2>3. /\ leader # "none" => Settled[kill'] \in {"waiting", "ok", "rejected"}
        /\ leader # "none" /\ Settled[kill'] = "ok" => kill' = "reaped"
    BY <2>2 DEF Settled, KillStates
  <2>4. caller' \in [Callers -> CallStates]
    BY <2>1, <2>3 DEF TypeOK, CallStates
  <2>5. TreeInv'
    BY <2>1 DEF TreeInv
  <2>6. kill = "reaped" => kill' = "reaped"
    BY <2>1
  <2>7. ASSUME NEW d \in Callers, caller'[d] = "ok"
        PROVE  leader' = "none" \/ kill' = "reaped"
    <3>1. CASE d = c
      <4>1. caller'[c] = IF leader = "none" THEN "ok" ELSE Settled[kill']
        BY <2>1 DEF TypeOK
      <4> QED BY <4>1, <3>1, <2>7, <2>1, <2>3
    <3>2. CASE d # c
      <4>1. caller'[d] = caller[d]
        BY <2>1, <3>2 DEF TypeOK
      <4> QED BY <4>1, <2>7, <2>1, <2>6 DEF CallInv
    <3> QED BY <3>1, <3>2
  <2>8. CallInv'
    BY <2>1, <2>7 DEF CallInv
  <2> QED BY <2>1, <2>2, <2>4, <2>5, <2>8 DEF TypeOK
<1>4. ASSUME KillEscalates PROVE Rest
  BY <1>4 DEF KillEscalates, TypeOK, KillStates, TreeInv, CallInv, runVars, processVars
<1>5. ASSUME KillConfirms PROVE Rest
  <2>1. kill = "kill" /\ leader # "alive" /\ ~group /\ kill' = "reaped"
        /\ caller' = [c \in Callers |-> IF caller[c] = "waiting" THEN Settled["reaped"] ELSE caller[c]]
        /\ UNCHANGED <<runVars, processVars>>
    BY <1>5 DEF KillConfirms, Settle
  <2>2. Settled["reaped"] = "ok"
    BY DEF Settled
  <2>3. leader # "none"
    BY <2>1 DEF TreeInv
  <2>4. caller' \in [Callers -> CallStates]
    BY <2>1, <2>2 DEF TypeOK, CallStates
  <2>5. TreeInv'
    BY <2>1, <2>3 DEF TreeInv, runVars, processVars
  <2>6. CallInv'
    BY <2>1 DEF CallInv, TypeOK, runVars
  <2> QED BY <2>1, <2>4, <2>5, <2>6 DEF TypeOK, KillStates, runVars, processVars
<1>6. ASSUME KillTimesOut PROVE Rest
  <2>1. kill = "kill" /\ kill' = "timedout"
        /\ caller' = [c \in Callers |-> IF caller[c] = "waiting" THEN Settled["timedout"] ELSE caller[c]]
        /\ UNCHANGED <<runVars, processVars>>
    BY <1>6 DEF KillTimesOut, Settle
  <2>2. Settled["timedout"] = "rejected"
    BY DEF Settled
  <2>3. caller' \in [Callers -> CallStates]
    BY <2>1, <2>2 DEF TypeOK, CallStates
  <2>4. TreeInv'
    BY <2>1 DEF TreeInv, runVars, processVars
  <2>5. CallInv'
    BY <2>1, <2>2 DEF CallInv, TypeOK, runVars, processVars
  <2> QED BY <2>1, <2>3, <2>4, <2>5 DEF TypeOK, KillStates, runVars, processVars
<1>7. ASSUME Fork PROVE Rest
  BY <1>7 DEF Fork, Killed, TypeOK, TreeInv, CallInv, runVars, killVars
<1>8. ASSUME LeaderExits PROVE Rest
  BY <1>8 DEF LeaderExits, TypeOK, LeaderStates, TreeInv, CallInv, runVars, killVars
<1>9. ASSUME GroupExits PROVE Rest
  BY <1>9 DEF GroupExits, TypeOK, TreeInv, CallInv, runVars, killVars
<1>10. Rest
  BY <1>3, <1>4, <1>5, <1>6, <1>7, <1>8, <1>9 DEF KillNext
<1>11. TypeOK'
  BY <1>1, <1>2, <1>10 DEF TypeOK
<1> QED BY <1>2, <1>10, <1>11 DEF Step

-----------------------------------------------------------------------------
LEMMA RunInvariant == Spec => []RunInv
<1>1. Init => RunInv
  <2> SUFFICES ASSUME Init PROVE RunInv
    OBVIOUS
  <2>1. stream \in Seq(Types) /\ Len(stream) = 0 /\ taken = 0
    BY DEF Init
  <2>2. taken \in 0..Len(stream)
    BY <2>1
  <2>3. TypeOK
    BY <2>1, <2>2 DEF Init, TypeOK, RunStates, LeaderStates, KillStates, CallStates, ReaderStates
  <2>4. FlowInv
    BY <2>1, RunAssumption DEF Init, FlowInv, Queued
  <2> QED BY <2>3, <2>4 DEF Init, RunInv, TreeInv, CallInv
<1>2. RunInv /\ [Next]_vars => RunInv'
  <2> SUFFICES ASSUME RunInv, [Next]_vars PROVE RunInv'
    OBVIOUS
  <2>1. CASE UNCHANGED vars
    BY <2>1 DEF RunInv, TypeOK, FlowInv, TreeInv, CallInv, Queued, vars, runVars, processVars,
       killVars, channelVars
  <2>2. CASE Next
    BY <2>2, RunSteps, ReaderSteps, TreeSteps DEF Next, Step
  <2> QED BY <2>1, <2>2
<1> QED BY <1>1, <1>2, PTL DEF Spec

(* The types hold; the consumer is never given an event that was not queued. *)
THEOREM RunTypes == Spec => []TypeOK
BY RunInvariant, PTL DEF RunInv

(* No run's channel ever holds more than its cap and two events, however    *)
(* fast the CLI writes and however slowly its consumer reads.               *)
THEOREM ChannelsAreBounded == Spec => []ChannelBounded
<1>1. RunInv => ChannelBounded
  BY DEF RunInv, FlowInv, ChannelBounded
<1> QED BY <1>1, RunInvariant, PTL

(* An answered cancel() means that no process of the run is left, for any   *)
(* number of callers before, during and after the spawn.                    *)
THEOREM ConfirmedTreesAreGone == Spec => []ConfirmedMeansGone
<1>1. RunInv => ConfirmedMeansGone
  BY DEF RunInv, CallInv, TreeInv, ConfirmedMeansGone
<1> QED BY <1>1, RunInvariant, PTL

(* Every run's events are a terminated stream. *)
THEOREM RunsImplementTerminatedStream == Spec => ImplementsTerminatedStream
<1>1. Init => Promised!Init
  BY DEF Init, Promised!Init
<1>2. RunInv /\ [Next]_vars => [Promised!Next]_<<stream, closed>>
  <2> SUFFICES ASSUME RunInv, [Next]_vars PROVE [Promised!Next]_<<stream, closed>>
    OBVIOUS
  <2>1. CASE UNCHANGED vars
    BY <2>1 DEF vars, channelVars
  <2>2. CASE Next
    BY <2>2, RunSteps, ReaderSteps, TreeSteps DEF Next, Step
  <2> QED BY <2>1, <2>2
<1> QED BY <1>1, <1>2, RunInvariant, PTL DEF Spec, Promised!Spec, ImplementsTerminatedStream
=============================================================================
