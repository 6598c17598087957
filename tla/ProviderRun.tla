----------------------------- MODULE ProviderRun -----------------------------
(***************************************************************************)
(* One run of a provider CLI: runProviderSession() (run-session.ts), the   *)
(* AsyncChannel that carries its events to SessionManager.consume()        *)
(* (async-channel.ts), and the memoised kill() with its                    *)
(* terminateProcessTree() (spawn-process.ts), on POSIX.                    *)
(*                                                                         *)
(* The run, the consumer of its events, the callers of cancel(), the kill  *)
(* sequence and the processes themselves move independently; a step of the *)
(* first four is what happens between two awaits.  An event is reduced to  *)
(* whether it is ordinary, an error, or one of the three terminal ones.    *)
(***************************************************************************)
EXTENDS Integers, Sequences

CONSTANTS
    Callers,            \* of cancel()
    MaxBufferedItems,   \* of the channel
    MaxPerLine,         \* how many events one line of output may parse to
    MaxLines            \* bound on the lines of output

ASSUME RunAssumption ==
    /\ MaxBufferedItems \in Nat \ {0}
    /\ MaxPerLine \in Nat /\ MaxLines \in Nat

VARIABLES
    pc,             \* where run() stands
    cancelled,      \* its flag
    lines,          \* how many lines of output it has read
    leader,         \* the process that was spawned: none, alive, or how it exited
    group,          \* is anything else in its process group alive?
    kill,           \* how far terminateProcessTree() has come
    caller,         \* the promise each call of cancel() holds
    stream,         \* every event the channel accepted
    taken,          \* how many of them its consumer has been given
    closed,         \* the channel is closed
    reader          \* what the consumer is doing

runVars     == <<pc, cancelled, lines>>
processVars == <<leader, group>>
killVars    == <<kill, caller>>
channelVars == <<stream, taken, closed, reader>>
vars        == <<runVars, processVars, killVars, channelVars>>

Terminal == {"session.completed", "session.failed", "session.cancelled"}
Types    == {"event", "error"} \union Terminal

RunStates    == {"new", "finding", "reading", "overflowed", "exiting", "done"}
LeaderStates == {"none", "alive", "zero", "nonzero"}
KillStates   == {"none", "term", "kill", "reaped", "timedout"}
CallStates   == {"none", "waiting", "ok", "rejected"}
ReaderStates == {"busy", "waiting", "ended"}

(* Among the types: the consumer is never given what was not queued. *)
TypeOK ==
    /\ pc \in RunStates
    /\ cancelled \in BOOLEAN
    /\ lines \in Nat
    /\ leader \in LeaderStates
    /\ group \in BOOLEAN
    /\ kill \in KillStates
    /\ caller \in [Callers -> CallStates]
    /\ stream \in Seq(Types)
    /\ taken \in 0..Len(stream)
    /\ closed \in BOOLEAN
    /\ reader \in ReaderStates

Init ==
    /\ pc = "new" /\ cancelled = FALSE /\ lines = 0
    /\ leader = "none" /\ group = FALSE
    /\ kill = "none" /\ caller = [c \in Callers |-> "none"]
    /\ stream = <<>> /\ taken = 0 /\ closed = FALSE /\ reader = "busy"

-----------------------------------------------------------------------------
(* AsyncChannel *)
Queued == Len(stream) - taken

(* How many pushes in a row succeed: a waiting consumer is handed the first *)
(* one directly.                                                            *)
Room == (IF reader = "waiting" THEN 1 ELSE 0)
        + (IF Queued < MaxBufferedItems THEN MaxBufferedItems - Queued ELSE 0)

(* Adds the events without looking at the cap. *)
Enqueue(events) ==
    /\ stream' = stream \o events
    /\ IF reader = "waiting" /\ events # <<>>
       THEN taken' = taken + 1 /\ reader' = "busy"
       ELSE UNCHANGED <<taken, reader>>

(* push() of one event: dropped when there is no room. *)
Push(event) ==
    IF Room > 0 THEN Enqueue(<<event>>) ELSE UNCHANGED <<stream, taken, reader>>

(* Mutant: the final events obey the cap. *)
CloseWithCapped(events) ==
    /\ IF Len(events) <= Room THEN Enqueue(events) ELSE UNCHANGED <<stream, taken, reader>>
    /\ closed' = TRUE

(* closeWith(): the final events bypass the cap. *)
CloseWith(events) ==
    /\ Enqueue(events)
    /\ closed' = TRUE

(* The consumer takes the next event... *)
Take ==
    /\ reader = "busy" /\ Queued > 0
    /\ taken' = taken + 1
    /\ UNCHANGED <<runVars, processVars, killVars, stream, closed, reader>>

(* ...waits for one, or learns that there will be none. *)
Await ==
    /\ reader = "busy" /\ Queued = 0
    /\ reader' = IF closed THEN "ended" ELSE "waiting"
    /\ UNCHANGED <<runVars, processVars, killVars, stream, taken, closed>>

(* consume() leaves its loop early, after a cancel() of its own settled     *)
(* (an envelope over the size limit).                                       *)
Abandon ==
    /\ reader = "busy"
    /\ \E c \in Callers : caller[c] \in {"ok", "rejected"}
    /\ reader' = "ended"
    /\ UNCHANGED <<runVars, processVars, killVars, stream, taken, closed>>

-----------------------------------------------------------------------------
(* run() *)
Failure == <<"error", "session.failed">>

(* The run is over; these are its last events. *)
Finish(events) ==
    /\ CloseWith(events)
    /\ pc' = "done"
    /\ UNCHANGED <<cancelled, lines>>

(* Up to the first await: session.started, and the working directory. *)
RunStarts ==
    /\ pc = "new"
    /\ \/ Enqueue(<<"event">>) /\ pc' = "finding" /\ UNCHANGED <<cancelled, lines, closed>>
       \/ Finish(<<"event", "error", "session.failed">>)
    /\ UNCHANGED <<processVars, killVars>>

(* findExecutable() answered, and there is no executable, or the spawn      *)
(* itself throws.                                                           *)
RunFindsNothing ==
    /\ pc = "finding"
    /\ Finish(Failure)
    /\ UNCHANGED <<processVars, killVars>>

(* Mutant: the early return forgets to close the channel. *)
RunFindsItselfCancelledQuietly ==
    /\ pc = "finding" /\ cancelled
    /\ pc' = "done"
    /\ UNCHANGED <<cancelled, lines, processVars, killVars, channelVars>>

RunFindsItselfCancelled ==
    /\ pc = "finding" /\ cancelled
    /\ Finish(<<"session.cancelled">>)
    /\ UNCHANGED <<processVars, killVars>>

(* Mutant: the flag is not looked at after the await. *)
RunSpawnsUnchecked ==
    /\ pc = "finding"
    /\ leader' = "alive"
    /\ pc' = "reading"
    /\ UNCHANGED <<cancelled, lines, group, killVars, channelVars>>

(* The process is spawned and gets its prompt; no await lies between the    *)
(* flag and the spawn.  (A spawn that fails later, by an event, is seen as  *)
(* a process that exited at once.)                                          *)
RunSpawns ==
    /\ pc = "finding" /\ ~cancelled
    /\ leader' = "alive"
    /\ pc' = "reading"
    /\ UNCHANGED <<cancelled, lines, group, killVars, channelVars>>

(* The process is spawned and then the prompt's payload cannot be built:    *)
(* run().catch ends the stream, and the process is left to itself.          *)
RunCrashes ==
    /\ pc = "finding" /\ ~cancelled
    /\ leader' = "alive"
    /\ Finish(Failure)
    /\ UNCHANGED <<group, killVars>>

(* One line of output, and the events it parses to; the first that finds no *)
(* room ends the reading, and the tree is killed.                           *)
RunReadsLine ==
    \E n \in 0..MaxPerLine :
        /\ pc = "reading" /\ lines < MaxLines
        /\ lines' = lines + 1
        /\ Enqueue([i \in 1..(IF n <= Room THEN n ELSE Room) |-> "event"])
        /\ IF n <= Room
           THEN UNCHANGED <<pc, kill>>
           ELSE pc' = "overflowed" /\ kill' = IF kill = "none" THEN "term" ELSE kill
        /\ UNCHANGED <<cancelled, processVars, caller, closed>>

(* The output ends, or a line is too long to be read: one more error is     *)
(* tried, and nothing is killed.                                            *)
RunStopsReading ==
    /\ pc = "reading"
    /\ pc' = "exiting"
    /\ Push("error") \/ UNCHANGED <<stream, taken, reader>>
    /\ UNCHANGED <<cancelled, lines, processVars, killVars, closed>>

(* The reap after an overflow settled, well or badly. *)
RunOverflows ==
    /\ pc = "overflowed" /\ kill \in {"reaped", "timedout"}
    /\ Finish(Failure)
    /\ UNCHANGED <<processVars, killVars>>

(* The leader has exited. *)
RunExits ==
    /\ pc = "exiting" /\ leader \in {"zero", "nonzero"}
    /\ Finish(IF cancelled THEN <<"session.cancelled">>
              ELSE IF leader = "zero" THEN <<"session.completed">>
              ELSE Failure)
    /\ UNCHANGED <<processVars, killVars>>

-----------------------------------------------------------------------------
(* The handle's cancel(), and kill() *)
Settled == [none |-> "none", term |-> "waiting", kill |-> "waiting",
            reaped |-> "ok", timedout |-> "rejected"]

(* Mutant: kill() is guarded by a flag, and a second caller returns at once. *)
CancelFlagged(c) ==
    /\ pc # "new" /\ caller[c] = "none"
    /\ cancelled' = TRUE
    /\ kill' = IF leader # "none" /\ kill = "none" THEN "term" ELSE kill
    /\ caller' = [caller EXCEPT ![c] =
                    IF leader # "none" /\ kill = "none" THEN "waiting" ELSE "ok"]
    /\ UNCHANGED <<pc, lines, processVars, channelVars>>

(* Nothing to wait for before the spawn; after it, every caller shares the  *)
(* one promise of terminateProcessTree().                                   *)
Cancel(c) ==
    /\ pc # "new" /\ caller[c] = "none"
    /\ cancelled' = TRUE
    /\ kill' = IF leader # "none" /\ kill = "none" THEN "term" ELSE kill
    /\ caller' = [caller EXCEPT ![c] = IF leader = "none" THEN "ok" ELSE Settled[kill']]
    /\ UNCHANGED <<pc, lines, processVars, channelVars>>

(* The promise settles, for everyone who holds it. *)
Settle(how) ==
    /\ kill' = how
    /\ caller' = [c \in Callers |-> IF caller[c] = "waiting" THEN Settled[how] ELSE caller[c]]
    /\ UNCHANGED <<runVars, processVars, channelVars>>

(* The grace after SIGTERM is over: SIGKILL to the whole group. *)
KillEscalates ==
    /\ kill = "term"
    /\ kill' = "kill"
    /\ UNCHANGED <<runVars, processVars, caller, channelVars>>

(* Mutant: a leader that has exited is taken for a tree that is gone. *)
KillConfirmsLeader ==
    /\ kill = "kill" /\ leader # "alive"
    /\ Settle("reaped")

(* The leader's exit and then the empty group have been seen. *)
KillConfirms ==
    /\ kill = "kill" /\ leader # "alive" /\ ~group
    /\ Settle("reaped")

(* Mutant: the deadline passes and nobody is told. *)
KillTimesOutQuietly ==
    /\ kill = "kill" /\ (leader = "alive" \/ group)
    /\ kill' = "timedout"
    /\ UNCHANGED <<runVars, processVars, caller, channelVars>>

(* The deadline passes first. *)
KillTimesOut ==
    /\ kill = "kill" /\ (leader = "alive" \/ group)
    /\ Settle("timedout")

-----------------------------------------------------------------------------
(* The processes: they fork and exit as they like, and once SIGKILL was     *)
(* sent they no longer fork.                                                *)
Killed == kill \in {"kill", "reaped", "timedout"}

Fork ==
    /\ leader = "alive" /\ ~Killed
    /\ group' = TRUE
    /\ UNCHANGED <<runVars, leader, killVars, channelVars>>

LeaderExits ==
    /\ leader = "alive"
    /\ leader' \in {"zero", "nonzero"}
    /\ UNCHANGED <<runVars, group, killVars, channelVars>>

GroupExits ==
    /\ group
    /\ group' = FALSE
    /\ UNCHANGED <<runVars, leader, killVars, channelVars>>

-----------------------------------------------------------------------------
RunNext ==
    \/ RunStarts \/ RunFindsNothing \/ RunFindsItselfCancelled \/ RunSpawns \/ RunCrashes
    \/ RunReadsLine \/ RunStopsReading \/ RunOverflows \/ RunExits

KillNext == KillEscalates \/ KillConfirms \/ KillTimesOut

Next ==
    \/ RunNext
    \/ Take \/ Await \/ Abandon
    \/ \E c \in Callers : Cancel(c)
    \/ KillNext
    \/ Fork \/ LeaderExits \/ GroupExits

Spec == Init /\ [][Next]_vars

-----------------------------------------------------------------------------
(* Properties *)

(* "Always terminates with a session.completed/failed/cancelled event"      *)
(* (types.ts), and nothing comes after it, although the final events are    *)
(* sent from seven places, the channel may be full, and the run may be      *)
(* cancelled, killed or crash at any of its awaits.                         *)
Promised == INSTANCE TerminatedStream WITH over <- closed
ImplementsTerminatedStream == Promised!Spec

(* The channel's memory is bounded: the cap, and the two events at most     *)
(* that closeWith() adds past it.                                           *)
ChannelBounded == Queued <= MaxBufferedItems + 2

(* "This resolves only once the owned process tree has been confirmed       *)
(* reaped" (cancel, types.ts): whoever called cancel() and was told it is   *)
(* done, before or after the spawn, first or last, has no process of this   *)
(* run alive, then or ever.                                                 *)
ConfirmedMeansGone ==
    \A c \in Callers : caller[c] = "ok" => leader # "alive" /\ ~group

(* Fairness: the event loop runs every continuation that is ready, the      *)
(* deadline of a kill passes, a process that got SIGKILL dies, and the      *)
(* output of a tree that is gone ends.  Nothing makes a process that nobody *)
(* killed exit, or its output end.                                          *)
Fairness ==
    /\ WF_vars(RunStarts \/ RunFindsNothing \/ RunFindsItselfCancelled)
    /\ WF_vars(RunOverflows) /\ WF_vars(RunExits)
    /\ WF_vars(leader # "alive" /\ ~group /\ RunStopsReading)
    /\ WF_vars(Take) /\ WF_vars(Await)
    /\ WF_vars(KillEscalates) /\ WF_vars(KillConfirms \/ KillTimesOut)
    /\ WF_vars(Killed /\ LeaderExits) /\ WF_vars(Killed /\ GroupExits)

FairSpec == Spec /\ Fairness

(* Every cancel() is answered. *)
CancelIsAnswered == \A c \in Callers : caller[c] = "waiting" ~> caller[c] \in {"ok", "rejected"}

(* A cancelled run hands its terminal event to its consumer, whatever it    *)
(* was doing when it was cancelled.                                         *)
CancelledRunEnds == cancelled ~> closed /\ reader = "ended"
=============================================================================
