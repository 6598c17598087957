------------------------- MODULE ApplicationAttempt -------------------------
(***************************************************************************)
(* An application attempt of the desktop app, from the moment a person     *)
(* starts it to the click that sends it and the outcome of that click:     *)
(* apps/desktop/electron/application-pipeline.ts (the preparation runs and *)
(* their fence, the worker that takes the queue's lease, the recovery),    *)
(* application-review-session.ts (the live review, the hand-off, the       *)
(* submission) and the checkpoint rules of workspace/repository.ts, over   *)
(* the daemon's ApplicationQueue.                                          *)
(*                                                                         *)
(* The desktop main process is one JavaScript thread: a step here is what  *)
(* it does between two awaits.  A run waits for the daemon ("ask"), for    *)
(* the posting check, for the provider, for the page; everything else may  *)
(* happen meanwhile.  A run that is given up ("abandoned") is not stopped: *)
(* it goes on, and only its fence keeps it from writing.                   *)
(*                                                                         *)
(* The workspace database and the queue survive a crash of the app;        *)
(* reviews, runs, fences and submissions do not.                           *)
(***************************************************************************)
EXTENDS ApplicationQueue

CONSTANTS
    Supported,      \* attempts whose site has an application policy
    MaxRuns,        \* bound: preparation runs, and leases that get lost
    MaxSubmits,     \* bound: calls of submitApplicationReview
    MaxFaults,      \* bound: crashes of the app and restarts of the daemon
    Events          \* which of PossibleEvents happen

(* crash: the app dies.  respawn: the daemon alone dies and is respawned.   *)
(* lost: a question to the daemon or its answer is lost.  unqueued: an      *)
(* attempt cannot be put in the queue.  hold: a posting check lands on a    *)
(* prepared attempt.  queue: a person pauses, resumes and cancels entries.  *)
(* window: a person opens, takes over and closes pages.  timer: automatic   *)
(* submissions.  hasty: an attempt is resumed before the worker has given   *)
(* its lease back.  eager: a person or a timer acts on an attempt that a    *)
(* run or a submission is still working on.  overlap: the worker's tick     *)
(* comes before the recovery has finished.                                  *)
PossibleEvents == {"crash", "respawn", "lost", "unqueued", "hold", "queue",
                   "window", "timer", "hasty", "eager", "overlap"}

ASSUME BoundsAssumption ==
    /\ MaxRuns \in Nat
    /\ MaxSubmits \in Nat
    /\ MaxFaults \in Nat
    /\ Supported \subseteq Attempts
    /\ Events \subseteq PossibleEvents

VARIABLES
    att,            \* application_attempts, the rows of the workspace database
    live,           \* livePreparations: the run that may write
    run,            \* the preparation runs, by generation
    worker,         \* runNextApplicationAttempt, under its tick
    enqueuing,      \* attempts whose enqueue call is under way
    review,         \* activeReviews: attempts with an open page
    handoff,        \* handoffAttemptId
    sub,            \* the calls of submitApplicationReview
    recovery,       \* recoverInterruptedApplicationAttempts
    recoveryDue,    \* a daemon was adopted and recovery has not begun
    faults,         \* crashes and restarts so far
    sent            \* how often an employer received the application

runVars == <<live, run, worker, enqueuing>>
reviewVars == <<review, handoff, sub>>
recoveryVars == <<recovery, recoveryDue, faults>>

vars == <<att, queueVars, runVars, reviewVars, recoveryVars, sent>>

Preparing == {"reading_jd", "tailoring", "rendering", "filling"}
Completed == {"submitted", "user_reported", "submission_unknown"}
Checkpoints == {"none", "queued", "ready", "submitting", "needs_user",
                "skipped", "failed"} \union Preparing \union Completed

(* isSettledCheckpoint: no preparation may run from here. *)
SettledCheckpoints == Checkpoints \ ({"none", "queued"} \union Preparing)

(* What submitApplicationReview refuses to send again. *)
Sent == {"submitting"} \union Completed

Gens == 1 .. MaxRuns
Calls == 1 .. MaxSubmits

(* Of checkpointDetail the code tells apart whether it says that the        *)
(* documents are ready and whether it reports a posting finding.            *)
Notes == {"", "documents", "posting"}
Outcomes == {"", "completed", "failed", "requeue"}

(* docs and fields name the run that staged the documents and filled        *)
(* preparedFields; held is the posting hold restoreFromHold brings back.    *)
NoHold == [checkpoint |-> "none", note |-> "", fields |-> 0]
NoRow == [checkpoint |-> "none", note |-> "", submittedAt |-> FALSE,
          scheduled |-> FALSE, docs |-> 0, fields |-> 0, held |-> NoHold]

(* view: the page this run or call works on has not been destroyed. *)
NoRun == [attempt |-> NoAttempt, pc |-> "none", seen |-> "absent",
          view |-> FALSE, outcome |-> ""]
SpentRun == [NoRun EXCEPT !.pc = "done"]
NoSub == [attempt |-> NoAttempt, pc |-> "none", mode |-> "manual",
          view |-> FALSE, accepted |-> FALSE]
SpentSub == [NoSub EXCEPT !.pc = "done"]
Idle == [pc |-> "idle", gen |-> 0, id |-> 0, outcome |-> ""]
NoRecovery == [pc |-> "idle", list |-> [a \in Attempts |-> "none"],
               todo |-> {}, cur |-> NoAttempt]

RunSteps == {"none", "ask", "entry", "verify", "askVerified", "verified",
             "tailor", "render", "askStaged", "staged", "open", "map",
             "apply", "done"}
SubSteps == {"none", "due", "snap", "gate", "click", "observe", "done"}

TypeOK ==
    /\ QueueTypeOK
    /\ att \in [Attempts ->
            [checkpoint : Checkpoints, note : Notes, submittedAt : BOOLEAN,
             scheduled : BOOLEAN, docs : 0 .. MaxRuns, fields : 0 .. MaxRuns,
             held : [checkpoint : Checkpoints, note : Notes,
                     fields : 0 .. MaxRuns]]]
    /\ live \in [Attempts -> 0 .. MaxRuns]
    /\ run \in [Gens -> [attempt : Attempts \union {NoAttempt},
                pc : RunSteps, seen : EntryStates \union {"absent"},
                view : BOOLEAN, outcome : Outcomes]]
    /\ worker \in [pc : {"idle", "running", "releasing"}, gen : 0 .. MaxRuns,
                   id : Nat, outcome : Outcomes]
    /\ enqueuing \subseteq Attempts
    /\ review \subseteq Attempts
    /\ handoff \in Attempts \union {NoAttempt}
    /\ sub \in [Calls -> [attempt : Attempts \union {NoAttempt},
                pc : SubSteps, mode : {"manual", "automatic"},
                view : BOOLEAN, accepted : BOOLEAN]]
    /\ recovery \in [pc : {"idle", "enqueue", "requeue"},
                     list : [Attempts -> Checkpoints],
                     todo : SUBSET Attempts,
                     cur : Attempts \union {NoAttempt}]
    /\ recoveryDue \in BOOLEAN
    /\ faults \in 0 .. MaxFaults
    /\ sent \in [Attempts -> Nat]

Init ==
    /\ QueueInit
    /\ att = [a \in Attempts |-> NoRow]
    /\ live = [a \in Attempts |-> 0]
    /\ run = [g \in Gens |-> NoRun]
    /\ worker = Idle
    /\ enqueuing = {}
    /\ review = {}
    /\ handoff = NoAttempt
    /\ sub = [c \in Calls |-> NoSub]
    /\ recovery = NoRecovery
    /\ recoveryDue = FALSE
    /\ faults = 0
    /\ sent = [a \in Attempts |-> 0]

-----------------------------------------------------------------------------
(* Writing a row, and closing a page.                                       *)

Checkpoint(a) == att[a].checkpoint

Moved(a, cp, n) == [att EXCEPT ![a].checkpoint = cp, ![a].note = n]

(* updateApplicationAttempt throws on a patch that gives no reason for      *)
(* moving an attempt out of Completed.                                      *)
Refused(a, cp) == Checkpoint(a) \in Completed /\ cp \notin Completed

(* The runs or the calls rs once the page of a is destroyed. *)
Blind(rs, a) ==
    [i \in DOMAIN rs |-> IF rs[i].attempt = a
                           THEN [rs[i] EXCEPT !.view = FALSE] ELSE rs[i]]

(* closeApplicationReview, when the runs become rs for other reasons. *)
CloseReview(a, rs) ==
    /\ review' = review \ {a}
    /\ handoff' = IF handoff = a THEN NoAttempt ELSE handoff
    /\ sub' = Blind(sub, a)
    /\ run' = Blind(rs, a)

-----------------------------------------------------------------------------
(* Starting an attempt, and the call that puts it in the queue.             *)

StartAttempt(a) ==
    /\ Checkpoint(a) = "none"
    /\ att' = Moved(a, "queued", "")
    /\ enqueuing' = enqueuing \union {a}
    /\ UNCHANGED <<queueVars, live, run, worker, reviewVars, recoveryVars, sent>>

EnqueueAnswered(a) ==
    /\ a \in enqueuing
    /\ Enqueue(a)
    /\ enqueuing' = enqueuing \ {a}
    /\ UNCHANGED <<att, live, run, worker, reviewVars, recoveryVars, sent>>

(* Neither request arrived, while the attempt waits: it is settled as       *)
(* failed, whether or not the run of this moment likes it.                  *)
EnqueueFails(a) ==
    /\ "unqueued" \in Events
    /\ a \in enqueuing
    /\ entry[a] \in TerminalStates \union {"absent"}
    /\ Checkpoint(a) = "queued"
    /\ att' = Moved(a, "failed", "")
    /\ enqueuing' = enqueuing \ {a}
    /\ UNCHANGED <<queueVars, live, run, worker, reviewVars, recoveryVars, sent>>

-----------------------------------------------------------------------------
(* The preparation run.  Only the run the fence knows may write.            *)

Of(g) == run[g].attempt

(* Mutant: the fence is not asked. *)
IsLiveAlways(g) == TRUE

IsLive(g) == live[Of(g)] = g

(* A run ends; a run nobody waits for any more leaves nothing behind. *)
Ended(g, outcome) ==
    [run EXCEPT ![g] = IF worker.gen = g
        THEN [SpentRun EXCEPT !.attempt = Of(g), !.outcome = outcome]
        ELSE SpentRun]

RunKeeps == <<queueVars, live, worker, enqueuing, recoveryVars, sent>>

(* settle(): the attempt moves, with a reason, and the run is over. *)
Settle(g, cp, n, outcome) ==
    /\ att' = IF IsLive(g) THEN Moved(Of(g), cp, n) ELSE att
    /\ run' = Ended(g, outcome)
    /\ UNCHANGED <<reviewVars, RunKeeps>>

(* abandoned(), and every other return that writes nothing. *)
GiveUp(g, outcome) ==
    /\ run' = Ended(g, outcome)
    /\ UNCHANGED <<att, reviewVars, RunKeeps>>

(* fencedWrite of a checkpoint without a reason, and on to the next wait;   *)
(* a refused write throws out of the run.                                   *)
Advance(g, cp, pc) ==
    IF IsLive(g) /\ Refused(Of(g), cp)
      THEN GiveUp(g, "failed")
      ELSE /\ att' = IF IsLive(g) THEN Moved(Of(g), cp, "") ELSE att
           /\ run' = [run EXCEPT ![g].pc = pc, ![g].seen = "absent"]
           /\ UNCHANGED <<reviewVars, RunKeeps>>

(* queueStillWantsThis: what the answer of the daemon means for the run. *)
Wanted(g) == run[g].seen \notin {"paused", "cancelled"}
Halt(g) ==
    \/ run[g].seen = "paused" /\ Settle(g, "queued", "", "requeue")
    \/ run[g].seen = "cancelled" /\ Settle(g, "skipped", "", "requeue")

RunAsks(g) ==
    /\ run[g].pc \in {"ask", "askVerified", "askStaged"}
    /\ run' = [run EXCEPT ![g].seen = entry[Of(g)],
                          ![g].pc = CASE @ = "ask" -> "entry"
                                      [] @ = "askVerified" -> "verified"
                                      [] OTHER -> "staged"]
    /\ UNCHANGED <<att, reviewVars, RunKeeps>>

(* A daemon that does not answer makes the run throw. *)
RunAskFails(g) ==
    /\ "lost" \in Events
    /\ run[g].pc \in {"ask", "askVerified", "askStaged"}
    /\ GiveUp(g, "failed")

RunEnters(g) ==
    /\ run[g].pc = "entry"
    /\ \/ Halt(g)
       \/ Wanted(g) /\ Advance(g, "reading_jd", "verify")

(* The posting check: its answer is dropped when the run or the attempt has *)
(* moved on meanwhile.                                                      *)
RunVerifies(g) ==
    /\ run[g].pc = "verify"
    /\ IF IsLive(g) /\ Checkpoint(Of(g)) = "reading_jd"
         THEN /\ run' = [run EXCEPT ![g].pc = "askVerified"]
              /\ UNCHANGED <<att, reviewVars, RunKeeps>>
         ELSE GiveUp(g, "requeue")

(* A closed or changed posting, or a description that is missing or         *)
(* incomplete, stops here.                                                  *)
RunReads(g) ==
    /\ run[g].pc = "verified"
    /\ \/ Halt(g)
       \/ Wanted(g) /\ Settle(g, "needs_user", "", "completed")
       \/ Wanted(g) /\ Advance(g, "tailoring", "tailor")

RunTailors(g) ==
    /\ run[g].pc = "tailor"
    /\ \/ Settle(g, "needs_user", "", "completed")
       \/ ~IsLive(g) /\ GiveUp(g, "requeue")
       \/ IsLive(g) /\ Advance(g, "rendering", "render")

(* Staging replaces the documents of the attempt.  Without a policy for the *)
(* site they are the result; a letter that is missing stops the run, too.   *)
RunRenders(g) ==
    /\ run[g].pc = "render"
    /\ \/ ~IsLive(g) /\ GiveUp(g, "requeue")
       \/ Settle(g, "needs_user", "", "completed")
       \/ /\ IsLive(g)
          /\ \/ \E n \in IF Of(g) \in Supported THEN {""} ELSE {"", "documents"} :
                    /\ att' = [Moved(Of(g), "needs_user", n)
                                  EXCEPT ![Of(g)].docs = g]
                    /\ run' = Ended(g, "completed")
             \/ /\ Of(g) \in Supported
                /\ att' = [att EXCEPT ![Of(g)].docs = g]
                /\ run' = [run EXCEPT ![g].pc = "askStaged"]
          /\ UNCHANGED <<reviewVars, RunKeeps>>

(* The last question before the page is opened (or, when a person has it    *)
(* open, used): the fields of an earlier run are dropped first.             *)
RunStages(g) ==
    /\ run[g].pc = "staged"
    /\ \/ Halt(g)
       \/ Wanted(g) /\ ~IsLive(g) /\ GiveUp(g, "requeue")
       \/ /\ Wanted(g) /\ IsLive(g)
          /\ IF Refused(Of(g), "filling") THEN GiveUp(g, "failed")
             ELSE /\ att' = [Moved(Of(g), "filling", "")
                                EXCEPT ![Of(g)].fields = 0]
                  /\ review' = review \union {Of(g)}
                  /\ run' = [run EXCEPT ![g].pc = "open", ![g].view = TRUE,
                                        ![g].seen = "absent"]
                  /\ UNCHANGED <<handoff, sub, RunKeeps>>

(* Opening fails when the page does or is closed meanwhile; the page the    *)
(* run itself registered goes with it (the hand-off is not cleared).        *)
RunOpens(g) ==
    /\ run[g].pc = "open"
    /\ \/ Settle(g, "needs_user", "", "completed")
       \/ /\ run[g].view
          /\ att' = IF IsLive(g) THEN Moved(Of(g), "needs_user", "") ELSE att
          /\ review' = review \ {Of(g)}
          /\ sub' = Blind(sub, Of(g))
          /\ run' = Blind(Ended(g, "completed"), Of(g))
          /\ UNCHANGED <<handoff, RunKeeps>>
       \/ /\ run[g].view
          /\ run' = [run EXCEPT ![g].pc = "map", ![g].view = FALSE]
          /\ UNCHANGED <<att, reviewVars, RunKeeps>>

RunMaps(g) ==
    /\ run[g].pc = "map"
    /\ IF ~IsLive(g) THEN GiveUp(g, "requeue")
       ELSE \/ Settle(g, "needs_user", "", "completed")
            \/ Settle(g, "failed", "", "failed")
            \/ /\ run' = [run EXCEPT ![g].pc = "apply"]
               /\ UNCHANGED <<att, reviewVars, RunKeeps>>

(* Mutant: what was typed is recorded without a look at the fence. *)
RunAppliesUnfenced(g) ==
    /\ run[g].pc = "apply"
    /\ \/ Settle(g, "failed", "", "failed")
       \/ /\ Of(g) \in review
          /\ \E cp \in {"needs_user", "ready"} :
                 /\ ~Refused(Of(g), cp)
                 /\ att' = [Moved(Of(g), cp, "") EXCEPT ![Of(g)].fields = g]
                 /\ run' = Ended(g, "completed")
          /\ UNCHANGED <<reviewVars, RunKeeps>>

(* applyApplicationFieldMap has typed; preparedFields and the checkpoint    *)
(* are written together.  An exception, that of a refused "ready" among     *)
(* them, settles the attempt as failed.                                     *)
RunApplies(g) ==
    /\ run[g].pc = "apply"
    /\ IF ~IsLive(g) THEN GiveUp(g, "requeue")
       ELSE \/ Settle(g, "failed", "", "failed")
            \/ /\ Of(g) \in review
               /\ \/ Settle(g, "needs_user", "", "completed")
                  \/ /\ \E cp \in {"needs_user", "ready"} :
                          LET refused == cp = "ready" /\ Refused(Of(g), cp)
                          IN  /\ att' = [Moved(Of(g), IF refused THEN "failed" ELSE cp, "")
                                            EXCEPT ![Of(g)].fields = g]
                              /\ run' = Ended(g, IF refused THEN "failed" ELSE "completed")
                     /\ UNCHANGED <<reviewVars, RunKeeps>>

-----------------------------------------------------------------------------
(* The worker: it takes the lease, waits for the run up to a ceiling, and   *)
(* gives the lease back.                                                    *)

WorkerKeeps == <<enqueuing, recoveryVars, sent>>

NextGen(g) == run[g].pc = "none" /\ \A h \in 1 .. g - 1 : run[h].pc # "none"

(* Without "overlap" an instance lets the worker wait for the recovery.  The *)
(* code does not make it: the periodic tick comes 15 s after the start, but  *)
(* whatever enqueues an attempt kicks the worker at once, and a respawned    *)
(* daemon is recovered beside it.                                            *)
Recovered == "overlap" \in Events \/ (~recoveryDue /\ recovery.pc = "idle")

WorkerAcquires(a, g) ==
    /\ worker.pc = "idle"
    /\ Recovered
    /\ NextGen(g)
    /\ AcquireNextLease(a)
    /\ live' = [live EXCEPT ![a] = g]
    /\ worker' = [pc |-> "running", gen |-> g, id |-> nextLease + 1, outcome |-> ""]
    /\ run' = [run EXCEPT ![g] = IF Checkpoint(a) \in SettledCheckpoints
                 THEN [NoRun EXCEPT !.attempt = a, !.pc = "done", !.outcome = "completed"]
                 ELSE [NoRun EXCEPT !.attempt = a, !.pc = "ask"]]
    /\ UNCHANGED <<att, reviewVars, WorkerKeeps>>

(* The daemon gave the lease and the answer was lost: nobody knows of it. *)
WorkerLosesLease(a) ==
    /\ "lost" \in Events
    /\ worker.pc = "idle"
    /\ nextLease <= MaxRuns
    /\ AcquireNextLease(a)
    /\ UNCHANGED <<att, runVars, reviewVars, recoveryVars, sent>>

WorkerSettles ==
    /\ worker.pc = "running"
    /\ run[worker.gen].pc = "done"
    /\ live' = [live EXCEPT ![Of(worker.gen)] = IF @ = worker.gen THEN 0 ELSE @]
    /\ worker' = [worker EXCEPT !.pc = "releasing", !.gen = 0,
                                !.outcome = run[worker.gen].outcome]
    /\ run' = [run EXCEPT ![worker.gen] = SpentRun]
    /\ UNCHANGED <<att, queueVars, reviewVars, WorkerKeeps>>

(* Mutant: a run is waited for as long as it takes. *)
WorkerAbandonsNever == FALSE /\ UNCHANGED vars

(* The ceiling: the run goes on, without its fence and without its page. *)
WorkerAbandons ==
    /\ worker.pc = "running"
    /\ run[worker.gen].pc # "done"
    /\ live' = [live EXCEPT ![Of(worker.gen)] = 0]
    /\ CloseReview(Of(worker.gen), run)
    /\ worker' = [worker EXCEPT !.pc = "releasing", !.gen = 0, !.outcome = "requeue"]
    /\ UNCHANGED <<att, queueVars, WorkerKeeps>>

WorkerReleases ==
    /\ worker.pc = "releasing"
    /\ Release(worker.id, worker.outcome)
    /\ worker' = Idle
    /\ UNCHANGED <<att, live, run, reviewVars, WorkerKeeps>>

(* The release never arrives; the error is logged and nothing retries it. *)
WorkerReleaseLost ==
    /\ "lost" \in Events
    /\ worker.pc = "releasing"
    /\ worker' = Idle
    /\ UNCHANGED <<att, queueVars, live, run, reviewVars, WorkerKeeps>>

-----------------------------------------------------------------------------
(* The page of an attempt, and the hand-off that shows it to the person.    *)

SubSent == <<recoveryVars, sent>>

InFlight(c) == sub[c].pc \in {"snap", "gate", "click", "observe"}

(* submittingAttemptIds *)
Submitting == {sub[c].attempt : c \in {d \in Calls : InFlight(d)}}

(* No run works on the attempt.  The code does not ask for this when a      *)
(* review is opened, scheduled or submitted: it is a restriction of the     *)
(* instances without "eager".                                               *)
AtRest(a) ==
    \/ Checkpoint(a) \in SettledCheckpoints /\ live[a] = 0
    \/ "eager" \in Events /\ Checkpoint(a) # "none"

OpenReview(a) ==
    /\ "window" \in Events
    /\ a \in Supported \ review
    /\ AtRest(a)
    /\ review' = review \union {a}
    /\ UNCHANGED <<att, queueVars, runVars, handoff, sub, SubSent>>

UserCloses(a) ==
    /\ "window" \in Events
    /\ a \in review
    /\ CloseReview(a, run)
    /\ UNCHANGED <<att, queueVars, live, worker, enqueuing, SubSent>>

(* Mutant: the page of an attempt that is being sent is handed over. *)
ShowHandoffAnyway(a) ==
    /\ "window" \in Events
    /\ a \in review
    /\ handoff' = a
    /\ UNCHANGED <<att, queueVars, runVars, review, sub, SubSent>>

ShowHandoff(a) ==
    /\ "window" \in Events
    /\ a \in review
    /\ a \notin Submitting
    /\ handoff' = a
    /\ UNCHANGED <<att, queueVars, runVars, review, sub, SubSent>>

HideHandoff ==
    /\ handoff # NoAttempt
    /\ handoff' = NoAttempt
    /\ UNCHANGED <<att, queueVars, runVars, review, sub, SubSent>>

-----------------------------------------------------------------------------
(* submitApplicationReview.  A call that is refused before its first wait   *)
(* changes nothing.                                                         *)

SubKeeps == <<queueVars, runVars, review, handoff, recoveryVars>>

HasSnapshot(a) == \A g \in Gens : Of(g) = a => run[g].pc # "open"

MayBegin(a) ==
    /\ a \in review
    /\ a \notin Submitting
    /\ handoff # a
    /\ AtRest(a)

SubmitBegins(c, a) ==
    /\ sub[c] = NoSub
    /\ MayBegin(a)
    /\ HasSnapshot(a)
    /\ Checkpoint(a) \notin Sent
    /\ sub' = [sub EXCEPT ![c] = [NoSub EXCEPT !.attempt = a, !.pc = "gate",
                                               !.view = TRUE]]
    /\ UNCHANGED <<att, sent, SubKeeps>>

(* evaluateAndScheduleAutomaticSubmission, its eligibility check passed. *)
Schedule(a) ==
    /\ "timer" \in Events
    /\ a \in review
    /\ Checkpoint(a) \notin Sent
    /\ AtRest(a)
    /\ ~att[a].scheduled
    /\ att' = [att EXCEPT ![a].scheduled = TRUE]
    /\ UNCHANGED <<queueVars, runVars, reviewVars, SubSent>>

CancelSchedule(a) ==
    /\ att[a].scheduled
    /\ att' = [att EXCEPT ![a].scheduled = FALSE]
    /\ UNCHANGED <<queueVars, runVars, reviewVars, SubSent>>

(* fireDueAutomaticSubmissions: the schedule is taken off first; an expired *)
(* or ineligible one goes no further.                                       *)
Fire(c, a) ==
    /\ att[a].scheduled
    /\ sub[c] = NoSub
    /\ att' = [att EXCEPT ![a].scheduled = FALSE]
    /\ \/ UNCHANGED sub
       \/ /\ a \in review
          /\ Checkpoint(a) \notin Sent
          /\ sub' = [sub EXCEPT ![c] = [NoSub EXCEPT !.attempt = a, !.pc = "due",
                                                     !.mode = "automatic"]]
    /\ UNCHANGED <<sent, SubKeeps>>

(* Revalidated, the submission begins and takes a new snapshot. *)
AutomaticBegins(c) ==
    /\ sub[c].pc = "due"
    /\ \/ sub' = [sub EXCEPT ![c] = SpentSub]
       \/ /\ MayBegin(sub[c].attempt)
          /\ sub' = [sub EXCEPT ![c].pc = "snap", ![c].view = TRUE]
    /\ UNCHANGED <<att, sent, SubKeeps>>

SubmitLooks(c) ==
    /\ sub[c].pc = "snap"
    /\ \/ sub' = [sub EXCEPT ![c] = SpentSub]
       \/ /\ sub[c].view
          /\ Checkpoint(sub[c].attempt) \notin Sent
          /\ sub' = [sub EXCEPT ![c].pc = "gate"]
    /\ UNCHANGED <<att, sent, SubKeeps>>

(* Readiness, the documents and the pre-submit gate have been read; the     *)
(* checkpoint is not read again.                                            *)
SubmitGates(c) ==
    LET a == sub[c].attempt IN
    /\ sub[c].pc = "gate"
    /\ \/ /\ sub' = [sub EXCEPT ![c] = SpentSub]
          /\ UNCHANGED att
       \/ /\ ~Refused(a, "submitting")
          /\ att' = [att EXCEPT ![a].checkpoint = "submitting"]
          /\ sub' = [sub EXCEPT ![c].pc = "click"]
    /\ UNCHANGED <<sent, SubKeeps>>

(* executor.submit: refused by the policy, clicked, or broken off.  A click *)
(* needs the page; whether the employer got the application, a broken call  *)
(* does not know.                                                           *)
SubmitClicks(c) ==
    LET a == sub[c].attempt IN
    /\ sub[c].pc = "click"
    /\ \/ /\ sub[c].view
          /\ att' = Moved(a, "ready", "")
          /\ sub' = [sub EXCEPT ![c] = SpentSub]
          /\ UNCHANGED sent
       \/ /\ sub[c].view
          /\ \E accepted \in BOOLEAN :
                /\ sub' = [sub EXCEPT ![c].pc = "observe", ![c].accepted = accepted]
                /\ sent' = IF accepted THEN [sent EXCEPT ![a] = @ + 1] ELSE sent
          /\ UNCHANGED att
       \/ /\ att' = Moved(a, "submission_unknown", "")
          /\ sub' = [sub EXCEPT ![c] = SpentSub]
          /\ \/ UNCHANGED sent
             \/ sub[c].view /\ sent' = [sent EXCEPT ![a] = @ + 1]
    /\ UNCHANGED SubKeeps

(* Mutant: a page that could not be read is taken for a rejection. *)
SubmitObservesRejection(c) ==
    /\ sub[c].pc = "observe"
    /\ \E cp \in {"submitted", "needs_user"} :
        /\ cp = "submitted" => sub[c].accepted /\ sub[c].view
        /\ att' = [att EXCEPT ![sub[c].attempt].checkpoint = cp,
                              ![sub[c].attempt].submittedAt = @ \/ cp = "submitted"]
    /\ sub' = [sub EXCEPT ![c] = SpentSub]
    /\ UNCHANGED <<sent, SubKeeps>>

(* What the page shows afterwards: a receipt, a rejection, or nothing. *)
SubmitObserves(c) ==
    LET a == sub[c].attempt IN
    /\ sub[c].pc = "observe"
    /\ \/ /\ sub[c].view /\ ~sub[c].accepted
          /\ att' = Moved(a, "needs_user", "")
       \/ /\ sub[c].view /\ sub[c].accepted
          /\ att' = [att EXCEPT ![a].checkpoint = "submitted", ![a].submittedAt = TRUE]
       \/ att' = [Moved(a, "submission_unknown", "") EXCEPT ![a].submittedAt = TRUE]
    /\ sub' = [sub EXCEPT ![c] = SpentSub]
    /\ UNCHANGED <<sent, SubKeeps>>

-----------------------------------------------------------------------------
(* What a person decides about an attempt.                                  *)

RowOnly == <<queueVars, runVars, reviewVars, recoveryVars>>

(* The person applied on the site of an employer without a policy. *)
UserReports(a) ==
    /\ a \notin Supported
    /\ Checkpoint(a) \in {"ready", "needs_user"}
    /\ att[a].docs # 0
    /\ att' = Moved(a, "user_reported", "")
    /\ sent' = [sent EXCEPT ![a] = @ + 1]
    /\ UNCHANGED RowOnly

(* The window offers it for an attempt that waits for the person; the patch *)
(* names no reason.                                                         *)
UserSkips(a) ==
    /\ \/ Checkpoint(a) \in {"ready", "needs_user", "failed"} /\ a \notin Submitting
       \/ "eager" \in Events /\ Checkpoint(a) \in {"ready", "needs_user"} \union Sent
    /\ ~Refused(a, "skipped")
    /\ att' = [att EXCEPT ![a].checkpoint = "skipped"]
    /\ UNCHANGED <<sent, RowOnly>>

(* reconcileSubmissionOutcome, given a receipt that came later. *)
ReconcileOutcome(a) ==
    /\ Checkpoint(a) = "submission_unknown"
    /\ sent[a] > 0
    /\ att' = [att EXCEPT ![a].checkpoint = "submitted", ![a].submittedAt = TRUE]
    /\ UNCHANGED <<sent, RowOnly>>

(* resumeApplicationAttempt: everything a run made is dropped, the page is  *)
(* closed, and the attempt goes back to the queue.                          *)
Resume(a) ==
    /\ \/ Checkpoint(a) = "failed" /\ ~att[a].submittedAt
       \/ Checkpoint(a) = "needs_user" /\ att[a].note # "documents"
    /\ "hasty" \in Events \/ worker.pc = "idle" \/ lease.attempt # a
    /\ att' = [Moved(a, "queued", "") EXCEPT ![a].held = NoHold,
                                             ![a].docs = 0, ![a].fields = 0]
    /\ CloseReview(a, run)
    /\ enqueuing' = enqueuing \union {a}
    /\ UNCHANGED <<queueVars, live, worker, SubSent>>

(* A check finds the posting of a prepared attempt closed or changed. *)
PostingHold(a) ==
    /\ "hold" \in Events
    /\ \/ Checkpoint(a) = "ready"
       \/ Checkpoint(a) = "needs_user" /\ att[a].note = "documents"
    /\ att[a].held = NoHold
    /\ att' = [att EXCEPT ![a].held = [checkpoint |-> Checkpoint(a),
                                       note |-> att[a].note,
                                       fields |-> att[a].fields],
                          ![a].checkpoint = "needs_user",
                          ![a].note = "posting", ![a].fields = 0]
    /\ CloseReview(a, run)
    /\ UNCHANGED <<queueVars, live, worker, enqueuing, SubSent>>

(* Mutant: the package comes back whatever became of the attempt. *)
PostingReleaseAnyway(a) ==
    LET h == att[a].held IN
    /\ h # NoHold
    /\ att' = [Moved(a, h.checkpoint, h.note) EXCEPT ![a].fields = h.fields,
                                                     ![a].held = NoHold]
    /\ UNCHANGED <<sent, RowOnly>>

(* It is open again, or the person keeps the package: restoreFromHold. *)
PostingRelease(a) ==
    LET h == att[a].held IN
    /\ h # NoHold
    /\ att' = IF Checkpoint(a) = "needs_user"
                THEN [Moved(a, h.checkpoint, h.note) EXCEPT ![a].fields = h.fields,
                                                            ![a].held = NoHold]
                ELSE [att EXCEPT ![a].held = NoHold]
    /\ UNCHANGED <<sent, RowOnly>>

(* Pause, resume and cancel from the queue's own view. *)
UserQueues(a) ==
    /\ "queue" \in Events
    /\ Pause(a) \/ ResumeEntry(a) \/ Cancel(a)
    /\ UNCHANGED <<att, runVars, reviewVars, SubSent>>

-----------------------------------------------------------------------------
(* Recovery, on every adoption of a daemon, and what leads to it.           *)

RecoveryKeeps == <<live, run, worker, enqueuing, reviewVars, faults, sent>>

(* The steps up to the next wait: an interrupted preparation is put back    *)
(* and queued; after the last one the interrupted submissions are written   *)
(* off, all at once, and the queued attempts are looked at.                 *)
RecoverNext(list, todo) ==
    \/ \E a \in todo :
        /\ att' = [Moved(a, "queued", "") EXCEPT ![a].fields = 0]
        /\ recovery' = [pc |-> "enqueue", list |-> list, todo |-> todo \ {a}, cur |-> a]
    \/ /\ todo = {}
       /\ att' = [a \in Attempts |->
             IF list[a] = "submitting"
               THEN [att[a] EXCEPT !.checkpoint = "submission_unknown",
                                   !.note = "", !.submittedAt = TRUE]
               ELSE att[a]]
       /\ recovery' = [pc |-> "requeue", list |-> list, cur |-> NoAttempt,
                       todo |-> {a \in Attempts : list[a] = "queued"}]

RecoveryBegins ==
    /\ recoveryDue
    /\ recovery.pc = "idle"
    /\ recoveryDue' = FALSE
    /\ LET list == [a \in Attempts |-> Checkpoint(a)]
       IN  RecoverNext(list, {a \in Attempts : list[a] \in Preparing})
    /\ UNCHANGED <<queueVars, RecoveryKeeps>>

(* The enqueue of a recovered attempt; a failure is only logged. *)
RecoveryEnqueues ==
    /\ recovery.pc = "enqueue"
    /\ \/ Enqueue(recovery.cur)
       \/ "lost" \in Events /\ UNCHANGED queueVars
    /\ RecoverNext(recovery.list, recovery.todo)
    /\ UNCHANGED <<recoveryDue, RecoveryKeeps>>

(* Mutant: only an entry the queue has finished with is brought back. *)
RecoveryRequeuesKnown ==
    /\ recovery.pc = "requeue"
    /\ \/ \E a \in recovery.todo :
            /\ IF entry[a] \in {"done", "failed"}
                 THEN Enqueue(a) ELSE UNCHANGED queueVars
            /\ recovery' = [recovery EXCEPT !.todo = @ \ {a}]
       \/ /\ recovery.todo = {}
          /\ recovery' = NoRecovery
          /\ UNCHANGED queueVars
    /\ UNCHANGED <<att, recoveryDue, RecoveryKeeps>>

(* A queued attempt the queue has given up, or never heard of. *)
RecoveryRequeues ==
    /\ recovery.pc = "requeue"
    /\ \/ \E a \in recovery.todo :
            /\ IF entry[a] \in {"absent", "done", "failed"}
                 THEN Enqueue(a) ELSE UNCHANGED queueVars
            /\ recovery' = [recovery EXCEPT !.todo = @ \ {a}]
       \/ /\ recovery.todo = {}
          /\ recovery' = NoRecovery
          /\ UNCHANGED queueVars
    /\ UNCHANGED <<att, recoveryDue, RecoveryKeeps>>

(* The daemon dies and another one is adopted; the app goes on. *)
DaemonRestart ==
    /\ "respawn" \in Events
    /\ faults < MaxFaults
    /\ Reconcile
    /\ recoveryDue' = TRUE
    /\ faults' = faults + 1
    /\ UNCHANGED <<att, runVars, reviewVars, recovery, sent>>

(* The app dies, its daemon with it, and both are started again. *)
AppCrash ==
    /\ "crash" \in Events
    /\ faults < MaxFaults
    /\ Reconcile
    /\ live' = [a \in Attempts |-> 0]
    /\ run' = [g \in Gens |-> IF run[g] = NoRun THEN NoRun ELSE SpentRun]
    /\ worker' = Idle
    /\ enqueuing' = {}
    /\ review' = {}
    /\ handoff' = NoAttempt
    /\ sub' = [c \in Calls |-> IF sub[c] = NoSub THEN NoSub ELSE SpentSub]
    /\ recovery' = NoRecovery
    /\ recoveryDue' = TRUE
    /\ faults' = faults + 1
    /\ UNCHANGED <<att, sent>>

-----------------------------------------------------------------------------

RunNext(g) ==
    \/ RunAsks(g) \/ RunAskFails(g) \/ RunEnters(g) \/ RunVerifies(g)
    \/ RunReads(g) \/ RunTailors(g) \/ RunRenders(g) \/ RunStages(g)
    \/ RunOpens(g) \/ RunMaps(g) \/ RunApplies(g)

WorkerNext ==
    \/ \E a \in Attempts, g \in Gens : WorkerAcquires(a, g)
    \/ \E a \in Attempts : WorkerLosesLease(a)
    \/ WorkerSettles \/ WorkerAbandons \/ WorkerReleases \/ WorkerReleaseLost

SubmitNext(c) ==
    \/ \E a \in Attempts : SubmitBegins(c, a) \/ Fire(c, a)
    \/ AutomaticBegins(c) \/ SubmitLooks(c) \/ SubmitGates(c)
    \/ SubmitClicks(c) \/ SubmitObserves(c)

UserNext(a) ==
    \/ StartAttempt(a) \/ EnqueueAnswered(a) \/ EnqueueFails(a)
    \/ OpenReview(a) \/ UserCloses(a) \/ ShowHandoff(a)
    \/ Schedule(a) \/ CancelSchedule(a)
    \/ UserReports(a) \/ UserSkips(a) \/ ReconcileOutcome(a) \/ Resume(a)
    \/ PostingHold(a) \/ PostingRelease(a) \/ UserQueues(a)

Next ==
    \/ \E g \in Gens : RunNext(g)
    \/ WorkerNext
    \/ \E c \in Calls : SubmitNext(c)
    \/ \E a \in Attempts : UserNext(a)
    \/ HideHandoff
    \/ RecoveryBegins \/ RecoveryEnqueues \/ RecoveryRequeues
    \/ DaemonRestart \/ AppCrash

Spec == Init /\ [][Next]_vars

(* The tick of the worker is the only thing that must go on: the ceiling    *)
(* is a timer, and the release follows it.                                  *)
FairSpec ==
    /\ Spec
    /\ WF_vars(WorkerSettles \/ WorkerAbandons)
    /\ WF_vars(WorkerReleases)

-----------------------------------------------------------------------------
(* Properties.                                                              *)

(* One hand on the form: of an attempt at most one submission is under way, *)
(* and never while the person has the live page; submitApplicationReview    *)
(* and showApplicationReviewHandoff look at each other's flag before their  *)
(* first wait.                                                              *)
SubmitsAreExclusive ==
    \A c \in Calls : InFlight(c) =>
        /\ handoff # sub[c].attempt
        /\ \A d \in Calls :
            InFlight(d) /\ sub[d].attempt = sub[c].attempt => c = d

(* Once the employer has an application, its attempt stays where neither a  *)
(* submission nor a preparation will touch it: in one of the checkpoints    *)
(* submitApplicationReview refuses, whatever the click's answer, a crash, a *)
(* recovery or a zombie run do in between.                                  *)
AppliedIsProtected ==
    \A a \in Attempts : sent[a] > 0 => Checkpoint(a) \in Sent

(* The answers recorded for the form come from the run whose documents are  *)
(* attached: a run that was given up never writes into the package of the   *)
(* one that replaced it.                                                    *)
OnePackage ==
    \A a \in Attempts : att[a].fields # 0 => att[a].fields = att[a].docs

(* An attempt that waits for preparation, or was left in the middle of it,  *)
(* has an entry in the queue that will bring it up again, or something is   *)
(* under way that makes one.                                                *)
NeverStranded ==
    \A a \in Attempts :
        /\ Checkpoint(a) \in Preparing \union {"queued"}
        /\ entry[a] \in {"absent", "done", "failed"}
        => \/ a \in enqueuing
           \/ live[a] # 0
           \/ recoveryDue
           \/ recovery.pc # "idle"

(* The queue's one lease comes back: whoever holds it, and however long its *)
(* run hangs, some lease after it is possible again.                        *)
LeaseComesBack ==
    \A k \in 1 .. MaxRuns : lease.id = k ~> lease.id # k
=============================================================================
