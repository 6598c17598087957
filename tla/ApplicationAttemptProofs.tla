---------------------- MODULE ApplicationAttemptProofs ----------------------
(***************************************************************************)
(* Theorems about ApplicationAttempt, for any number of attempts, runs,    *)
(* submissions and faults.  Whatever happens: the queue's lease and order, *)
(* the exclusion of a submission by another one and by the hand-off, and   *)
(* the types.  Without the events that are known to break them: what was   *)
(* sent stays protected and the package is one run's (Calm), and nobody is *)
(* stranded (Prompt).                                                      *)
(*                                                                         *)
(* The queue part goes in two steps: every operation of the queue keeps    *)
(* QueueInv, and every step of the application is one such operation or    *)
(* leaves the queue alone.  The rest rests on what one step does to one    *)
(* row (Moves, UserRow, CallMoves, CallWrites, RecoverPuts): each is found *)
(* once from the actions and used by all three invariants.                 *)
(***************************************************************************)
EXTENDS ApplicationAttempt, TLAPS

QueueInv ==
    /\ QueueTypeOK
    /\ LeaseIsActive
    /\ OrderIsFaithful
    /\ LeaseIsFresh

(* What the recovery works on are attempts. *)
RecoveryInv ==
    /\ recovery.todo \subseteq Attempts
    /\ recovery.pc = "enqueue" => recovery.cur \in Attempts

(* One operation of the queue. *)
QueueStep ==
    \/ \E a \in Attempts :
          Enqueue(a) \/ AcquireNextLease(a) \/ Pause(a) \/ ResumeEntry(a) \/ Cancel(a)
    \/ Release(worker.id, worker.outcome)
    \/ Reconcile
    \/ UNCHANGED queueVars

-----------------------------------------------------------------------------
LEMMA EnqueueKeeps ==
    ASSUME QueueInv, NEW a \in Attempts, Enqueue(a)
    PROVE  QueueInv'
<1>1. CASE entry[a] = "absent"
  <2>1. /\ order' = Append(order, a)
        /\ entry' = [entry EXCEPT ![a] = "queued"]
        /\ UNCHANGED <<lease, nextLease>>
    BY <1>1 DEF Enqueue
  <2>2. QueueTypeOK'
    BY <2>1 DEF QueueInv, QueueTypeOK, EntryStates
  <2>3. LeaseIsActive' /\ LeaseIsFresh'
    BY <1>1, <2>1 DEF QueueInv, QueueTypeOK, LeaseIsActive, LeaseIsFresh
  <2>4. \A i \in DOMAIN order : order[i] # a
    BY <1>1 DEF QueueInv, QueueTypeOK, OrderIsFaithful
  <2>5. /\ DOMAIN order' = 1 .. Len(order) + 1
        /\ DOMAIN order = 1 .. Len(order)
        /\ Len(order) \in Nat
        /\ \A i \in 1 .. Len(order) : order'[i] = order[i]
        /\ order'[Len(order) + 1] = a
    BY <2>1 DEF QueueInv, QueueTypeOK
  <2>6. OrderIsFaithful'
    BY <2>1, <2>4, <2>5 DEF QueueInv, QueueTypeOK, OrderIsFaithful
  <2>7. QED
    BY <2>2, <2>3, <2>6 DEF QueueInv
<1>2. CASE entry[a] # "absent"
  <2>1. /\ order' = order
        /\ \/ entry' = entry
           \/ entry[a] \in TerminalStates /\ entry' = [entry EXCEPT ![a] = "queued"]
        /\ UNCHANGED <<lease, nextLease>>
    BY <1>2 DEF Enqueue
  <2>2. QED
    BY <1>2, <2>1
    DEF QueueInv, QueueTypeOK, LeaseIsActive, OrderIsFaithful, LeaseIsFresh,
        TerminalStates, EntryStates
<1>3. QED
  BY <1>1, <1>2

LEMMA AcquireKeeps ==
    ASSUME QueueInv, NEW a \in Attempts, AcquireNextLease(a)
    PROVE  QueueInv'
<1>1. /\ entry[a] = "queued"
      /\ lease.id = 0
      /\ lease.attempt = NoAttempt
      /\ order' = order
      /\ entry' = [entry EXCEPT ![a] = "active"]
      /\ nextLease' = nextLease + 1
      /\ lease' = [id |-> nextLease + 1, attempt |-> a]
  BY DEF AcquireNextLease, IsNext, NoLease
<1>2. QueueTypeOK'
  BY <1>1 DEF QueueInv, QueueTypeOK, EntryStates
<1>3. LeaseIsActive'
  BY <1>1, NoAttemptAssumption DEF QueueInv, QueueTypeOK, LeaseIsActive
<1>4. OrderIsFaithful'
  BY <1>1 DEF QueueInv, QueueTypeOK, OrderIsFaithful
<1>5. LeaseIsFresh'
  BY <1>1, NoAttemptAssumption DEF QueueInv, QueueTypeOK, LeaseIsFresh
<1>6. QED
  BY <1>2, <1>3, <1>4, <1>5 DEF QueueInv

(* Pause, resume, skip and cancel. *)
LEMMA PersonKeepsQueue ==
    ASSUME QueueInv, NEW a \in Attempts, Pause(a) \/ ResumeEntry(a) \/ Cancel(a)
    PROVE  QueueInv'
<1>1. PICK to \in {"paused", "queued", "cancelled"} :
          /\ entry[a] \in {"queued", "active", "paused"}
          /\ entry' = [entry EXCEPT ![a] = to]
          /\ \/ lease' = LeaseWithout(a)
             \/ entry[a] = "paused" /\ lease' = lease
          /\ UNCHANGED <<order, nextLease>>
  BY DEF Pause, ResumeEntry, Cancel
<1>2. \/ lease.attempt = a /\ lease' = NoLease
      \/ lease.attempt # a /\ lease' = lease
  BY <1>1 DEF LeaseWithout, QueueInv, LeaseIsActive
<1>3. QueueTypeOK'
  BY <1>1, <1>2 DEF QueueInv, QueueTypeOK, EntryStates, TerminalStates, NoLease
<1>4. LeaseIsActive'
  BY <1>1, <1>2, NoAttemptAssumption DEF QueueInv, QueueTypeOK, LeaseIsActive, NoLease
<1>5. OrderIsFaithful'
  BY <1>1 DEF QueueInv, QueueTypeOK, OrderIsFaithful
<1>6. LeaseIsFresh'
  BY <1>1, <1>2 DEF QueueInv, QueueTypeOK, LeaseIsFresh, NoLease
<1>7. QED
  BY <1>3, <1>4, <1>5, <1>6 DEF QueueInv

(* The lease goes, and the entry that was active with it. *)
LEMMA LeaseEnds ==
    ASSUME QueueInv, lease # NoLease, NEW to \in EntryStates \ {"active"},
           entry' = [entry EXCEPT ![lease.attempt] = to],
           lease' = NoLease, UNCHANGED <<order, nextLease>>
    PROVE  QueueInv'
<1>1. lease.attempt \in Attempts
  BY DEF QueueInv, QueueTypeOK, LeaseIsFresh, NoLease
<1>2. entry[lease.attempt] = "active"
  BY <1>1 DEF QueueInv, LeaseIsActive
<1>3. QueueTypeOK'
  BY <1>1 DEF QueueInv, QueueTypeOK, NoLease
<1>4. LeaseIsActive'
  BY <1>1, NoAttemptAssumption DEF QueueInv, QueueTypeOK, LeaseIsActive, NoLease
<1>5. OrderIsFaithful'
  BY <1>1, <1>2 DEF QueueInv, QueueTypeOK, OrderIsFaithful, EntryStates, TerminalStates
<1>6. LeaseIsFresh'
  BY DEF QueueInv, QueueTypeOK, LeaseIsFresh, NoLease
<1>7. QED
  BY <1>3, <1>4, <1>5, <1>6 DEF QueueInv

LEMMA QueueUnchanged ==
    ASSUME QueueInv, UNCHANGED queueVars
    PROVE  QueueInv'
BY DEF QueueInv, QueueTypeOK, LeaseIsActive, OrderIsFaithful, LeaseIsFresh, queueVars

LEMMA ReleaseKeeps ==
    ASSUME QueueInv, NEW id, NEW outcome, Release(id, outcome)
    PROVE  QueueInv'
<1>1. CASE lease = NoLease \/ lease.id # id
  BY <1>1, QueueUnchanged DEF Release, queueVars
<1>2. CASE lease # NoLease /\ lease.id = id
  <2>1. PICK to \in {"queued", "done", "failed"} :
            entry' = [entry EXCEPT ![lease.attempt] = to]
    BY <1>2 DEF Release
  <2>2. to \in EntryStates \ {"active"}
    BY DEF EntryStates, TerminalStates
  <2>3. QED
    BY <1>2, <2>1, <2>2, LeaseEnds DEF Release
<1>3. QED
  BY <1>1, <1>2

LEMMA ReconcileKeeps ==
    ASSUME QueueInv, Reconcile
    PROVE  QueueInv'
<1>1. CASE lease = NoLease
  BY <1>1, QueueUnchanged DEF Reconcile, queueVars
<1>2. CASE lease # NoLease
  <2>1. lease.attempt \in Attempts
    BY <1>2 DEF QueueInv, QueueTypeOK, LeaseIsFresh, NoLease
  <2>2. entry[lease.attempt] \notin TerminalStates
    BY <2>1 DEF QueueInv, LeaseIsActive, TerminalStates
  <2>3. "queued" \in EntryStates \ {"active"}
    BY DEF EntryStates
  <2>4. QED
    BY <1>2, <2>2, <2>3, LeaseEnds DEF Reconcile
<1>3. QED
  BY <1>1, <1>2

LEMMA QueueStepKeeps ==
    ASSUME QueueInv, QueueStep
    PROVE  QueueInv'
BY EnqueueKeeps, AcquireKeeps, PersonKeepsQueue, ReleaseKeeps, ReconcileKeeps,
   QueueUnchanged DEF QueueStep

-----------------------------------------------------------------------------
LEMMA RunKeepsQueue ==
    ASSUME NEW g \in Gens, RunNext(g)
    PROVE  /\ UNCHANGED <<queueVars, recoveryVars, handoff>>
           /\ sub' = sub \/ sub' = Blind(sub, Of(g))
<1> USE DEF RunKeeps, reviewVars, Settle, GiveUp, Advance, Halt
<1>1. CASE RunAsks(g)
  BY <1>1 DEF RunAsks
<1>2. CASE RunAskFails(g)
  BY <1>2 DEF RunAskFails
<1>3. CASE RunEnters(g)
  BY <1>3 DEF RunEnters
<1>4. CASE RunVerifies(g)
  BY <1>4 DEF RunVerifies
<1>5. CASE RunReads(g)
  BY <1>5 DEF RunReads
<1>6. CASE RunTailors(g)
  BY <1>6 DEF RunTailors
<1>7. CASE RunRenders(g)
  BY <1>7 DEF RunRenders
<1>8. CASE RunStages(g)
  BY <1>8 DEF RunStages
<1>9. CASE RunOpens(g)
  BY <1>9 DEF RunOpens
<1>10. CASE RunMaps(g)
  BY <1>10 DEF RunMaps
<1>11. CASE RunApplies(g)
  BY <1>11 DEF RunApplies
<1>12. QED
  BY <1>1, <1>2, <1>3, <1>4, <1>5, <1>6, <1>7, <1>8, <1>9, <1>10, <1>11 DEF RunNext

(* Every step is an operation of the queue, on attempts. *)
LEMMA NextIsQueueStep ==
    ASSUME RecoveryInv, [Next]_vars
    PROVE  QueueStep /\ RecoveryInv'
<1>1. CASE UNCHANGED vars
  BY <1>1 DEF vars, QueueStep, RecoveryInv, recoveryVars
<1>2. CASE \E g \in Gens : RunNext(g)
  BY <1>2, RunKeepsQueue DEF QueueStep, RecoveryInv, recoveryVars
<1>3. CASE WorkerNext
  <2>1. QueueStep
    BY <1>3 DEF WorkerNext, WorkerAcquires, WorkerLosesLease, WorkerSettles,
                WorkerAbandons, WorkerReleases, WorkerReleaseLost, QueueStep
  <2>2. UNCHANGED recoveryVars
    BY <1>3 DEF WorkerNext, WorkerAcquires, WorkerLosesLease, WorkerSettles,
                WorkerAbandons, WorkerReleases, WorkerReleaseLost, WorkerKeeps
  <2>3. QED
    BY <2>1, <2>2 DEF RecoveryInv, recoveryVars
<1>4. CASE \E c \in Calls : SubmitNext(c)
  BY <1>4 DEF SubmitNext, SubmitBegins, Fire, AutomaticBegins, SubmitLooks, SubmitGates,
              SubmitClicks, SubmitObserves, SubKeeps, QueueStep, RecoveryInv, recoveryVars
<1>5. ASSUME NEW a \in Attempts, UserNext(a)
      PROVE  QueueStep /\ RecoveryInv'
  <2>1. UNCHANGED recoveryVars
    BY <1>5 DEF UserNext, StartAttempt, EnqueueAnswered, EnqueueFails, OpenReview,
                UserCloses, ShowHandoff, Schedule, CancelSchedule, UserReports, UserSkips,
                ReconcileOutcome, Resume, PostingHold, PostingRelease, UserQueues,
                SubSent, RowOnly
  <2>2. QueueStep
    BY <1>5 DEF UserNext, StartAttempt, EnqueueAnswered, EnqueueFails, OpenReview,
                UserCloses, ShowHandoff, Schedule, CancelSchedule, UserReports, UserSkips,
                ReconcileOutcome, Resume, PostingHold, PostingRelease, UserQueues,
                RowOnly, QueueStep
  <2>3. QED
    BY <2>1, <2>2 DEF RecoveryInv, recoveryVars
<1>6. CASE HideHandoff
  BY <1>6 DEF HideHandoff, SubSent, QueueStep, RecoveryInv, recoveryVars
<1>7. ASSUME NEW list, NEW todo, todo \subseteq Attempts, RecoverNext(list, todo)
      PROVE  RecoveryInv'
  <2>1. \/ \E a \in todo : recovery' = [pc |-> "enqueue", list |-> list,
                                       todo |-> todo \ {a}, cur |-> a]
        \/ recovery' = [pc |-> "requeue", list |-> list, cur |-> NoAttempt,
                        todo |-> {a \in Attempts : list[a] = "queued"}]
    BY <1>7, Zenon DEF RecoverNext
  <2>2. QED
    BY <1>7, <2>1 DEF RecoveryInv
<1>8. CASE RecoveryBegins
  <2>1. QueueStep
    BY <1>8 DEF RecoveryBegins, QueueStep
  <2>2. PICK list : RecoverNext(list, {a \in Attempts : list[a] \in Preparing})
    BY <1>8 DEF RecoveryBegins
  <2>3. QED
    BY <1>7, <2>1, <2>2
<1>9. CASE RecoveryEnqueues
  <2>1. QueueStep
    BY <1>9 DEF RecoveryEnqueues, RecoveryInv, QueueStep
  <2>2. QED
    BY <1>7, <1>9, <2>1 DEF RecoveryEnqueues, RecoveryInv
<1>10. CASE RecoveryRequeues
  <2>1. QueueStep
    BY <1>10 DEF RecoveryRequeues, RecoveryInv, QueueStep
  <2>2. RecoveryInv'
    <3>1. CASE recovery' = NoRecovery
      BY <3>1 DEF NoRecovery, RecoveryInv
    <3>2. CASE \E a \in recovery.todo : recovery' = [recovery EXCEPT !.todo = @ \ {a}]
      BY <1>10, <3>2 DEF RecoveryRequeues, RecoveryInv
    <3>3. QED
      BY <1>10, <3>1, <3>2 DEF RecoveryRequeues
  <2>3. QED
    BY <2>1, <2>2
<1>11. CASE DaemonRestart
  BY <1>11 DEF DaemonRestart, QueueStep, RecoveryInv
<1>12. CASE AppCrash
  BY <1>12 DEF AppCrash, QueueStep, RecoveryInv, NoRecovery
<1>13. QED
  BY <1>1, <1>2, <1>3, <1>4, <1>5, <1>6, <1>8, <1>9, <1>10, <1>11, <1>12 DEF Next

(* Through every sequence of acquires, releases, pauses, cancels and        *)
(* restarts of the daemon, with lost answers and late releases, exactly the *)
(* leased attempt is active in the queue, and its array lists every entry   *)
(* once.                                                                    *)
THEOREM LeasesAreActive == Spec => [](LeaseIsActive /\ OrderIsFaithful)
<1>1. Init => QueueInv /\ RecoveryInv
  BY NoAttemptAssumption
  DEF Init, QueueInit, NoLease, NoRecovery, QueueInv, QueueTypeOK, LeaseIsActive,
      OrderIsFaithful, LeaseIsFresh, RecoveryInv
<1>2. QueueInv /\ RecoveryInv /\ [Next]_vars => QueueInv' /\ RecoveryInv'
  BY NextIsQueueStep, QueueStepKeeps
<1>3. QueueInv => LeaseIsActive /\ OrderIsFaithful
  BY DEF QueueInv
<1>4. QED
  BY <1>1, <1>2, <1>3, PTL DEF Spec
-----------------------------------------------------------------------------
(* One hand on the form.                                                    *)

SubRecord ==
    [attempt : Attempts \union {NoAttempt}, pc : SubSteps,
     mode : {"manual", "automatic"}, view : BOOLEAN, accepted : BOOLEAN]

SubType == sub \in [Calls -> SubRecord]

(* A call under way names an attempt; SpentSub and NoSub do not. *)
SubNames == \A c \in Calls : InFlight(c) \/ sub[c].pc = "due" => sub[c].attempt \in Attempts

SubInv == SubType /\ SubNames /\ SubmitsAreExclusive

(* A step in which no call begins, and the hand-off goes or stays. *)
LEMMA NoCallBegins ==
    ASSUME SubInv,
           \A c \in Calls :
               \/ sub'[c].attempt = sub[c].attempt
                  /\ (sub'[c].pc = sub[c].pc \/ (InFlight(c) /\ InFlight(c)'))
               \/ sub'[c].pc \in {"none", "done"}
               \/ sub'[c].pc = "due" /\ sub'[c].attempt \in Attempts,
           handoff' \in {handoff, NoAttempt},
           SubType'
    PROVE  SubInv'
<1>1. \A c \in Calls : InFlight(c)' => InFlight(c) /\ sub'[c].attempt = sub[c].attempt
  BY DEF InFlight
<1>2. SubNames'
  BY <1>1 DEF SubInv, SubNames, InFlight
<1>3. SubmitsAreExclusive'
  BY <1>1, NoAttemptAssumption DEF SubInv, SubNames, SubmitsAreExclusive
<1>4. QED
  BY <1>2, <1>3 DEF SubInv

LEMMA BlindKeeps ==
    ASSUME SubInv, NEW a, sub' = Blind(sub, a), handoff' \in {handoff, NoAttempt}
    PROVE  SubInv'
<1>1. SubType'
  BY DEF SubInv, SubType, SubRecord, Blind
<1>2. \A c \in Calls : sub'[c].attempt = sub[c].attempt /\ sub'[c].pc = sub[c].pc
  BY DEF SubInv, SubType, SubRecord, Blind
<1>3. QED
  BY <1>1, <1>2, NoCallBegins

LEMMA SubUnchanged ==
    ASSUME SubInv, sub' = sub, handoff' \in {handoff, NoAttempt}
    PROVE  SubInv'
<1>1. SubType'
  BY DEF SubInv, SubType, SubRecord
<1>2. QED
  BY <1>1, NoCallBegins

(* A call begins on a page nobody else has. *)
LEMMA CallBegins ==
    ASSUME SubInv, NEW c \in Calls, NEW r, SubType',
           sub' = [sub EXCEPT ![c] = r],
           r.pc \in {"snap", "gate"}, r.attempt \in Attempts,
           r.attempt \notin Submitting, handoff # r.attempt, handoff' = handoff
    PROVE  SubInv'
<1>1. sub'[c] = r /\ \A d \in Calls : d # c => sub'[d] = sub[d]
  BY DEF SubInv, SubType, SubRecord
<1>2. \A d \in Calls : d # c /\ InFlight(d)' => InFlight(d) /\ sub[d].attempt # r.attempt
  BY <1>1 DEF InFlight, Submitting
<1>3. SubNames'
  BY <1>1 DEF SubInv, SubNames, InFlight
<1>4. SubmitsAreExclusive'
  BY <1>1, <1>2 DEF SubInv, SubmitsAreExclusive, InFlight
<1>5. QED
  BY <1>3, <1>4 DEF SubInv

(* A call goes on within its waits, or is over. *)
LEMMA CallGoesOn ==
    ASSUME SubInv, NEW c \in Calls, InFlight(c) \/ sub[c].pc = "due", handoff' = handoff,
           \/ sub' = [sub EXCEPT ![c] = SpentSub]
           \/ InFlight(c) /\ \E pc \in {"gate", "click"} : sub' = [sub EXCEPT ![c].pc = pc]
           \/ InFlight(c) /\ \E accepted \in BOOLEAN :
                 sub' = [sub EXCEPT ![c].pc = "observe", ![c].accepted = accepted]
    PROVE  SubInv'
<1>1. SpentSub \in SubRecord /\ SpentSub.pc = "done"
  BY DEF SpentSub, NoSub, SubRecord, SubSteps
<1>2. SubType'
  BY <1>1 DEF SubInv, SubType, SubRecord, SubSteps
<1>3. \A d \in Calls : d # c => sub'[d] = sub[d]
  BY DEF SubInv, SubType, SubRecord
<1>4. \/ sub'[c].pc = "done"
      \/ InFlight(c) /\ InFlight(c)' /\ sub'[c].attempt = sub[c].attempt
  BY <1>1 DEF SubInv, SubType, SubRecord, InFlight
<1>5. QED
  BY <1>2, <1>3, <1>4, NoCallBegins

LEMMA SubmitKeeps ==
    ASSUME SubInv, NEW c \in Calls, SubmitNext(c)
    PROVE  SubInv'
<1>1. handoff' = handoff
  BY DEF SubmitNext, SubmitBegins, Fire, AutomaticBegins, SubmitLooks, SubmitGates,
         SubmitClicks, SubmitObserves, SubKeeps
<1>2. ASSUME NEW a \in Attempts, SubmitBegins(c, a)
      PROVE  SubInv'
  <2> DEFINE r == [NoSub EXCEPT !.attempt = a, !.pc = "gate", !.view = TRUE]
  <2>1. /\ sub' = [sub EXCEPT ![c] = r]
        /\ a \notin Submitting
        /\ handoff # a
    BY <1>2 DEF SubmitBegins, MayBegin
  <2>2. r \in SubRecord /\ r.pc = "gate" /\ r.attempt = a
    BY DEF NoSub, SubRecord, SubSteps
  <2> HIDE DEF r
  <2>3. SubType'
    BY <2>1, <2>2 DEF SubInv, SubType, SubRecord
  <2>4. QED
    BY <1>1, <2>1, <2>2, <2>3, CallBegins
<1>3. ASSUME NEW a \in Attempts, Fire(c, a)
      PROVE  SubInv'
  <2> DEFINE r == [NoSub EXCEPT !.attempt = a, !.pc = "due", !.mode = "automatic"]
  <2>1. r \in SubRecord /\ r.pc = "due" /\ r.attempt = a
    BY DEF NoSub, SubRecord, SubSteps
  <2>2. CASE sub' = sub
    BY <1>1, <2>2, SubUnchanged
  <2>3. CASE sub' = [sub EXCEPT ![c] = r]
    <3> HIDE DEF r
    <3>1. SubType'
      BY <2>1, <2>3 DEF SubInv, SubType, SubRecord
    <3>2. sub'[c] = r /\ \A d \in Calls : d # c => sub'[d] = sub[d]
      BY <2>3 DEF SubInv, SubType, SubRecord
    <3>3. QED
      BY <1>1, <2>1, <3>1, <3>2, NoCallBegins
  <2>4. QED
    BY <1>3, <2>2, <2>3 DEF Fire
<1>4. CASE AutomaticBegins(c)
  <2>1. CASE sub' = [sub EXCEPT ![c] = SpentSub]
    BY <1>1, <1>4, <2>1, CallGoesOn DEF AutomaticBegins
  <2>2. CASE /\ MayBegin(sub[c].attempt)
             /\ sub' = [sub EXCEPT ![c].pc = "snap", ![c].view = TRUE]
    <3> DEFINE r == [sub[c] EXCEPT !.pc = "snap", !.view = TRUE]
    <3>1. sub[c].attempt \in Attempts
      BY <1>4 DEF AutomaticBegins, SubInv, SubNames
    <3>2. r.pc = "snap" /\ r.attempt = sub[c].attempt /\ sub' = [sub EXCEPT ![c] = r]
      BY <2>2 DEF SubInv, SubType, SubRecord
    <3>3. SubType'
      BY <2>2 DEF SubInv, SubType, SubRecord, SubSteps
    <3> HIDE DEF r
    <3>4. QED
      BY <1>1, <2>2, <3>1, <3>2, <3>3, CallBegins DEF MayBegin
  <2>3. QED
    BY <1>4, <2>1, <2>2 DEF AutomaticBegins
<1>5. CASE SubmitLooks(c)
  BY <1>1, <1>5, CallGoesOn DEF SubmitLooks, InFlight
<1>6. CASE SubmitGates(c)
  BY <1>1, <1>6, CallGoesOn DEF SubmitGates, InFlight
<1>7. CASE SubmitClicks(c)
  <2>1. \/ sub' = [sub EXCEPT ![c] = SpentSub]
        \/ \E accepted \in BOOLEAN :
              sub' = [sub EXCEPT ![c].pc = "observe", ![c].accepted = accepted]
    BY <1>7, Zenon DEF SubmitClicks
  <2>2. InFlight(c)
    BY <1>7 DEF SubmitClicks, InFlight
  <2>3. QED
    BY <1>1, <2>1, <2>2, CallGoesOn
<1>8. CASE SubmitObserves(c)
  BY <1>1, <1>8, CallGoesOn DEF SubmitObserves, InFlight
<1>9. QED
  BY <1>2, <1>3, <1>4, <1>5, <1>6, <1>7, <1>8 DEF SubmitNext

LEMMA SubStepKeeps ==
    ASSUME SubInv, [Next]_vars
    PROVE  SubInv'
<1>1. CASE UNCHANGED vars
  BY <1>1, SubUnchanged DEF vars, reviewVars
<1>2. ASSUME NEW g \in Gens, RunNext(g)
      PROVE  SubInv'
  BY <1>2, RunKeepsQueue, SubUnchanged, BlindKeeps
<1>3. CASE WorkerNext
  <2>1. CASE WorkerAbandons
    <3>1. sub' = Blind(sub, Of(worker.gen)) /\ handoff' \in {handoff, NoAttempt}
      BY <2>1 DEF WorkerAbandons, CloseReview
    <3>2. QED
      BY <3>1, BlindKeeps
  <2>2. CASE ~WorkerAbandons
    <3>1. UNCHANGED reviewVars
      BY <1>3, <2>2 DEF WorkerNext, WorkerAcquires, WorkerLosesLease, WorkerSettles,
                        WorkerReleases, WorkerReleaseLost
    <3>2. QED
      BY <3>1, SubUnchanged DEF reviewVars
  <2>3. QED
    BY <2>1, <2>2
<1>4. ASSUME NEW c \in Calls, SubmitNext(c)
      PROVE  SubInv'
  BY <1>4, SubmitKeeps
<1>5. ASSUME NEW a \in Attempts, UserNext(a)
      PROVE  SubInv'
  <2>1. CASE UserCloses(a) \/ Resume(a) \/ PostingHold(a)
    <3>1. sub' = Blind(sub, a) /\ handoff' \in {handoff, NoAttempt}
      BY <2>1 DEF UserCloses, Resume, PostingHold, CloseReview
    <3>2. QED
      BY <3>1, BlindKeeps
  <2>2. CASE ShowHandoff(a)
    <3>1. a \notin Submitting /\ handoff' = a /\ sub' = sub
      BY <2>2 DEF ShowHandoff
    <3>2. QED
      BY <3>1
      DEF SubInv, SubType, SubRecord, SubNames, SubmitsAreExclusive, InFlight, Submitting
  <2>3. CASE ~(UserCloses(a) \/ Resume(a) \/ PostingHold(a) \/ ShowHandoff(a))
    <3>1. sub' = sub /\ handoff' = handoff
      BY <1>5, <2>3
      DEF UserNext, StartAttempt, EnqueueAnswered, EnqueueFails, OpenReview, Schedule,
          CancelSchedule, UserReports, UserSkips, ReconcileOutcome, PostingRelease,
          UserQueues, RowOnly, reviewVars
    <3>2. QED
      BY <3>1, SubUnchanged
  <2>4. QED
    BY <2>1, <2>2, <2>3
<1>6. CASE HideHandoff
  BY <1>6, SubUnchanged DEF HideHandoff
<1>7. CASE RecoveryBegins \/ RecoveryEnqueues \/ RecoveryRequeues \/ DaemonRestart
  <2>1. UNCHANGED reviewVars
    BY <1>7 DEF RecoveryBegins, RecoveryEnqueues, RecoveryRequeues, DaemonRestart,
                RecoveryKeeps
  <2>2. QED
    BY <2>1, SubUnchanged DEF reviewVars
<1>8. CASE AppCrash
  <2>1. /\ sub' = [c \in Calls |-> IF sub[c] = NoSub THEN NoSub ELSE SpentSub]
        /\ handoff' = NoAttempt
    BY <1>8 DEF AppCrash
  <2>2. NoSub.pc = "none" /\ SpentSub.pc = "done"
    BY DEF NoSub, SpentSub
  <2>3. SubType'
    BY <2>1 DEF SubType, SubRecord, NoSub, SpentSub, SubSteps
  <2>4. QED
    BY <2>1, <2>2, <2>3, NoCallBegins
<1>9. QED
  BY <1>1, <1>2, <1>3, <1>4, <1>5, <1>6, <1>7, <1>8 DEF Next

(* No submission runs beside another one of the attempt or beside a person  *)
(* who has its page, whoever called it and however many attempts, calls,    *)
(* runs and crashes there are: the flags are read in the step that sets     *)
(* them.                                                                    *)
THEOREM SubmissionsExclude == Spec => []SubmitsAreExclusive
<1>1. Init => SubInv
  BY DEF Init, NoSub, SubInv, SubType, SubRecord, SubNames, SubSteps, InFlight,
         SubmitsAreExclusive
<1>2. SubInv /\ [Next]_vars => SubInv'
  BY SubStepKeeps
<1>3. SubInv => SubmitsAreExclusive
  BY DEF SubInv
<1>4. QED
  BY <1>1, <1>2, <1>3, PTL DEF Spec
-----------------------------------------------------------------------------
(* The types, who runs, and which pages there are.                          *)

HoldRecord == [checkpoint : Checkpoints, note : Notes, fields : 0 .. MaxRuns]
Row ==
    [checkpoint : Checkpoints, note : Notes, submittedAt : BOOLEAN, scheduled : BOOLEAN,
     docs : 0 .. MaxRuns, fields : 0 .. MaxRuns, held : HoldRecord]
RunRecord ==
    [attempt : Attempts \union {NoAttempt}, pc : RunSteps,
     seen : EntryStates \union {"absent"}, view : BOOLEAN, outcome : Outcomes]
WorkerRecord ==
    [pc : {"idle", "running", "releasing"}, gen : 0 .. MaxRuns, id : Nat, outcome : Outcomes]

RowType == att \in [Attempts -> Row]
RunType == run \in [Gens -> RunRecord]

(* A run under way names an attempt; SpentRun and NoRun do not. *)
RunNames == \A g \in Gens : run[g].pc \notin {"none", "done"} => Of(g) \in Attempts

(* The fence knows the worker's run and no other. *)
WorkerInv ==
    /\ worker.pc = "running" =>
          /\ worker.gen \in Gens
          /\ Of(worker.gen) \in Attempts
          /\ live[Of(worker.gen)] = worker.gen
          /\ run[worker.gen].pc # "none"
    /\ \A a \in Attempts : live[a] # 0 =>
          worker.pc = "running" /\ live[a] = worker.gen /\ Of(worker.gen) = a
    /\ worker.pc # "running" => worker.gen = 0

Early == {"ask", "entry"}
Middle == {"verify", "askVerified", "verified", "tailor", "render"}
Late == {"askStaged", "staged", "open", "map", "apply"}

(* Pages are opened, and forms submitted, where there is a policy. *)
SupportInv ==
    /\ review \subseteq Supported
    /\ \A c \in Calls : sub[c].pc \notin {"none", "done"} => sub[c].attempt \in Supported
    /\ \A g \in Gens : run[g].pc \in Late => Of(g) \in Supported

RestType ==
    /\ live \in [Attempts -> 0 .. MaxRuns]
    /\ worker \in WorkerRecord
    /\ enqueuing \subseteq Attempts
    /\ handoff \in Attempts \union {NoAttempt}
    /\ recovery.pc \in {"idle", "enqueue", "requeue"}
    /\ recovery.list \in [Attempts -> Checkpoints]
    /\ recovery \in [pc : {"idle", "enqueue", "requeue"}, list : [Attempts -> Checkpoints],
                     todo : SUBSET Attempts, cur : Attempts \union {NoAttempt}]
    /\ recoveryDue \in BOOLEAN
    /\ faults \in 0 .. MaxFaults
    /\ sent \in [Attempts -> Nat]

BaseInv ==
    /\ QueueInv /\ RecoveryInv /\ SubInv
    /\ RowType /\ RunType /\ RestType
    /\ RunNames /\ WorkerInv /\ SupportInv

-----------------------------------------------------------------------------
(* What a step of a run does to its row: it may stay, settle the attempt,   *)
(* go on with a preparing checkpoint, or write documents or fields.         *)

(* The row keeps its package. *)
Same(old, new) == new.docs = old.docs /\ new.fields = old.fields /\ new.held = old.held

Settles == {"queued", "skipped", "needs_user", "failed"}

Moves(from, to, old, new, g) ==
    \/ new = old /\ (\/ to = "done"
                     \/ from \in Early /\ to \in Early
                     \/ from \in Middle /\ to \in Middle
                     \/ from \in Late /\ to \in Late)
    \/ to = "done" /\ Same(old, new) /\ new.checkpoint \in Settles
    \/ from \notin Late /\ to \in Middle /\ Same(old, new) /\ new.checkpoint \in Preparing
    \/ /\ from = "render" /\ to = "askStaged"
       /\ new.checkpoint = old.checkpoint /\ new.docs = g
       /\ new.fields = old.fields /\ new.held = old.held
    \/ /\ from = "render" /\ to = "done"
       /\ new.checkpoint = "needs_user" /\ new.docs = g
       /\ new.fields = old.fields /\ new.held = old.held
    \/ /\ from \in Late /\ to \in Late
       /\ new.checkpoint = "filling" /\ new.fields = 0
       /\ new.docs = old.docs /\ new.held = old.held
    \/ /\ from \in Late /\ to = "done"
       /\ new.checkpoint \in {"needs_user", "ready", "failed"} /\ new.fields = g
       /\ new.docs = old.docs /\ new.held = old.held

RunMoves(g) ==
    /\ RowType' /\ RunType'
    /\ \A a \in Attempts : a # Of(g) => att'[a] = att[a]
    /\ ~IsLive(g) => att' = att
    /\ IsLive(g) => Moves(run[g].pc, run'[g].pc, att[Of(g)], att'[Of(g)], g)
    /\ \A h \in Gens : h # g => run'[h].pc = run[h].pc /\ run'[h].attempt = run[h].attempt
                                  /\ run'[h].outcome = run[h].outcome
    /\ run'[g].pc # "none"
    /\ \/ run'[g].attempt = Of(g)
       \/ worker.gen # g /\ run'[g].pc = "done"
    /\ run'[g].pc \in Late => Of(g) \in Supported
    /\ "lost" \notin Events /\ IsLive(g) /\ run'[g].pc = "done" /\ run'[g].outcome # "requeue"
          => att'[Of(g)].checkpoint \in SettledCheckpoints

LEMMA CheckpointFacts ==
    /\ Preparing \subseteq Checkpoints
    /\ Settles \subseteq Checkpoints
    /\ {"none", "queued", "failed", "skipped", "needs_user", "ready", "submitting", "submitted",
        "user_reported", "submission_unknown"} \subseteq Checkpoints
    /\ SettledCheckpoints = {"ready", "submitting", "needs_user", "skipped", "failed",
                             "submitted", "user_reported", "submission_unknown"}
    /\ Sent \subseteq SettledCheckpoints
    /\ Completed \subseteq SettledCheckpoints
    /\ Preparing \intersect SettledCheckpoints = {}
    /\ Preparing \intersect Sent = {}
    /\ {"", "documents", "posting"} = Notes
BY DEF Preparing, Settles, Checkpoints, SettledCheckpoints, Sent, Completed, Notes

(* A row that moves, and what it was moved with. *)
LEMMA MovedRow ==
    ASSUME RowType, NEW a \in Attempts, NEW cp \in Checkpoints, NEW n \in Notes,
           att' = Moved(a, cp, n)
    PROVE  /\ RowType'
           /\ \A b \in Attempts : b # a => att'[b] = att[b]
           /\ att'[a].checkpoint = cp /\ att'[a].note = n
           /\ att'[a].submittedAt = att[a].submittedAt
           /\ att'[a].scheduled = att[a].scheduled
           /\ Same(att[a], att'[a])
<1> DEFINE x == [att[a] EXCEPT !.checkpoint = cp, !.note = n]
<1>1. att[a] \in Row
  BY DEF RowType
<1>2. /\ x \in Row /\ x.checkpoint = cp /\ x.note = n
      /\ x.submittedAt = att[a].submittedAt /\ x.scheduled = att[a].scheduled
      /\ x.docs = att[a].docs /\ x.fields = att[a].fields /\ x.held = att[a].held
  BY <1>1 DEF Row
<1>3. att' = [att EXCEPT ![a] = x]
  BY DEF Moved, RowType
<1> HIDE DEF x
<1>4. QED
  BY <1>2, <1>3 DEF RowType, Same

LEMMA MovedDocs ==
    ASSUME RowType, NEW a \in Attempts, NEW cp \in Checkpoints, NEW n \in Notes,
           NEW d \in 0 .. MaxRuns,
           att' = [Moved(a, cp, n) EXCEPT ![a].docs = d]
    PROVE  /\ RowType'
           /\ \A b \in Attempts : b # a => att'[b] = att[b]
           /\ att'[a].checkpoint = cp /\ att'[a].docs = d
           /\ att'[a].fields = att[a].fields /\ att'[a].held = att[a].held
<1> DEFINE x == [att[a] EXCEPT !.checkpoint = cp, !.note = n, !.docs = d]
<1>1. att[a] \in Row
  BY DEF RowType
<1>2. /\ x \in Row /\ x.checkpoint = cp /\ x.docs = d
      /\ x.fields = att[a].fields /\ x.held = att[a].held
  BY <1>1 DEF Row
<1>3. att' = [att EXCEPT ![a] = x]
  BY DEF Moved, RowType
<1> HIDE DEF x
<1>4. QED
  BY <1>2, <1>3 DEF RowType

LEMMA MovedFields ==
    ASSUME RowType, NEW a \in Attempts, NEW cp \in Checkpoints, NEW n \in Notes,
           NEW f \in 0 .. MaxRuns,
           att' = [Moved(a, cp, n) EXCEPT ![a].fields = f]
    PROVE  /\ RowType'
           /\ \A b \in Attempts : b # a => att'[b] = att[b]
           /\ att'[a].checkpoint = cp /\ att'[a].fields = f
           /\ att'[a].docs = att[a].docs /\ att'[a].held = att[a].held
<1> DEFINE x == [att[a] EXCEPT !.checkpoint = cp, !.note = n, !.fields = f]
<1>1. att[a] \in Row
  BY DEF RowType
<1>2. /\ x \in Row /\ x.checkpoint = cp /\ x.fields = f
      /\ x.docs = att[a].docs /\ x.held = att[a].held
  BY <1>1 DEF Row
<1>3. att' = [att EXCEPT ![a] = x]
  BY DEF Moved, RowType
<1> HIDE DEF x
<1>4. QED
  BY <1>2, <1>3 DEF RowType

(* One run's record is replaced by another record. *)
LEMMA OneRunChanges ==
    ASSUME RunType, NEW g \in Gens, NEW x \in RunRecord, run' = [run EXCEPT ![g] = x]
    PROVE  RunType' /\ run'[g] = x /\ \A h \in Gens : h # g => run'[h] = run[h]
<1>1. QED
  BY DEF RunType

LEMMA EndedRun ==
    ASSUME RunType, NEW g \in Gens, NEW o \in Outcomes, run' = Ended(g, o)
    PROVE  /\ RunType'
           /\ \A h \in Gens : h # g => run'[h] = run[h]
           /\ run'[g].pc = "done"
           /\ worker.gen = g => run'[g].attempt = Of(g) /\ run'[g].outcome = o
<1> DEFINE x == IF worker.gen = g
                  THEN [SpentRun EXCEPT !.attempt = Of(g), !.outcome = o] ELSE SpentRun
<1>1. Of(g) \in Attempts \union {NoAttempt}
  BY DEF RunType, RunRecord, Of
<1>2. x \in RunRecord /\ x.pc = "done" /\ (worker.gen = g => x.attempt = Of(g) /\ x.outcome = o)
  BY <1>1 DEF SpentRun, NoRun, RunRecord, RunSteps, Outcomes
<1>3. run' = [run EXCEPT ![g] = x]
  BY DEF Ended
<1> HIDE DEF x
<1>4. RunType' /\ run'[g] = x /\ \A h \in Gens : h # g => run'[h] = run[h]
  BY <1>2, <1>3, OneRunChanges
<1>5. QED
  BY <1>2, <1>4

(* A run goes on: it waits at pc for something else. *)
LEMMA RunGoesOn ==
    ASSUME RunType, NEW g \in Gens, NEW pc \in RunSteps,
           NEW s \in EntryStates \union {"absent"}, NEW v \in BOOLEAN,
           run' = [run EXCEPT ![g].pc = pc, ![g].seen = s, ![g].view = v]
    PROVE  /\ RunType'
           /\ \A h \in Gens : h # g => run'[h] = run[h]
           /\ run'[g].pc = pc /\ run'[g].attempt = Of(g)
<1> DEFINE x == [run[g] EXCEPT !.pc = pc, !.seen = s, !.view = v]
<1>1. run[g] \in RunRecord
  BY DEF RunType
<1>2. x \in RunRecord /\ x.pc = pc /\ x.attempt = Of(g)
  BY <1>1 DEF RunRecord, Of
<1>3. run' = [run EXCEPT ![g] = x]
  BY DEF RunType
<1> HIDE DEF x
<1>4. RunType' /\ run'[g] = x /\ \A h \in Gens : h # g => run'[h] = run[h]
  BY <1>2, <1>3, OneRunChanges
<1>5. QED
  BY <1>2, <1>4

(* The same steps as the code of the model writes them. *)
LEMMA RunGoesOnForms ==
    ASSUME RunType, NEW g \in Gens, NEW pc \in RunSteps,
           \/ run' = [run EXCEPT ![g].pc = pc]
           \/ run' = [run EXCEPT ![g].pc = pc, ![g].seen = "absent"]
           \/ run' = [run EXCEPT ![g].pc = pc, ![g].view = FALSE]
           \/ run' = [run EXCEPT ![g].pc = pc, ![g].view = TRUE, ![g].seen = "absent"]
    PROVE  /\ RunType'
           /\ \A h \in Gens : h # g => run'[h] = run[h]
           /\ run'[g].pc = pc /\ run'[g].attempt = Of(g)
<1>1. run[g] \in RunRecord
  BY DEF RunType
<1>2. PICK s \in EntryStates \union {"absent"}, v \in BOOLEAN :
          run' = [run EXCEPT ![g].pc = pc, ![g].seen = s, ![g].view = v]
  <2>1. run[g].seen \in EntryStates \union {"absent"} /\ run[g].view \in BOOLEAN
    BY <1>1 DEF RunRecord
  <2>2. CASE run' = [run EXCEPT ![g].pc = pc]
    <3>1. run' = [run EXCEPT ![g].pc = pc, ![g].seen = run[g].seen, ![g].view = run[g].view]
      BY <1>1, <2>2 DEF RunType, RunRecord
    <3>2. QED
      BY <2>1, <3>1
  <2>3. CASE run' = [run EXCEPT ![g].pc = pc, ![g].seen = "absent"]
    <3>1. run' = [run EXCEPT ![g].pc = pc, ![g].seen = "absent", ![g].view = run[g].view]
      BY <1>1, <2>3 DEF RunType, RunRecord
    <3>2. QED
      BY <2>1, <3>1
  <2>4. CASE run' = [run EXCEPT ![g].pc = pc, ![g].view = FALSE]
    <3>1. run' = [run EXCEPT ![g].pc = pc, ![g].seen = run[g].seen, ![g].view = FALSE]
      BY <1>1, <2>4 DEF RunType, RunRecord
    <3>2. QED
      BY <2>1, <3>1
  <2>5. CASE run' = [run EXCEPT ![g].pc = pc, ![g].view = TRUE, ![g].seen = "absent"]
    <3>1. run' = [run EXCEPT ![g].pc = pc, ![g].seen = "absent", ![g].view = TRUE]
      BY <1>1, <2>5 DEF RunType, RunRecord
    <3>2. QED
      BY <2>1, <3>1
  <2>6. QED
    BY <2>2, <2>3, <2>4, <2>5
<1>3. QED
  BY <1>2, RunGoesOn

(* The run whose turn it is, and what the fence says of it. *)
LEMMA RunAtWork ==
    ASSUME BaseInv, NEW g \in Gens, run[g].pc \notin {"none", "done"}
    PROVE  /\ Of(g) \in Attempts
           /\ IsLive(g) => worker.gen = g /\ worker.pc = "running"
           /\ g \in 0 .. MaxRuns /\ g # 0
           /\ \A a \in Attempts : live[a] = g => a = Of(g) /\ IsLive(g)
<1>1. Of(g) \in Attempts
  BY DEF BaseInv, RunNames
<1>2. g \in 0 .. MaxRuns /\ g # 0
  BY BoundsAssumption DEF Gens
<1>3. QED
  BY <1>1, <1>2 DEF BaseInv, WorkerInv, IsLive

LEMMA RunSettles ==
    ASSUME BaseInv, NEW g \in Gens, run[g].pc \notin {"none", "done"},
           NEW cp \in Settles, NEW n \in Notes, NEW o \in Outcomes,
           o # "requeue" => cp \in SettledCheckpoints,
           Settle(g, cp, n, o)
    PROVE  RunMoves(g)
<1>1. RunType /\ RowType
  BY DEF BaseInv
<1>2. run' = Ended(g, o) /\ (IsLive(g) => att' = Moved(Of(g), cp, n)) /\ (~IsLive(g) => att' = att)
  BY DEF Settle
<1>3. /\ RunType'
      /\ \A h \in Gens : h # g => run'[h] = run[h]
      /\ run'[g].pc = "done"
      /\ worker.gen = g => run'[g].attempt = Of(g) /\ run'[g].outcome = o
  BY <1>1, <1>2, EndedRun
<1>4. CASE IsLive(g)
  <2>1. cp \in Checkpoints /\ Of(g) \in Attempts /\ worker.gen = g
    BY <1>4, CheckpointFacts, RunAtWork
  <2>2. /\ RowType'
        /\ \A b \in Attempts : b # Of(g) => att'[b] = att[b]
        /\ att'[Of(g)].checkpoint = cp
        /\ Same(att[Of(g)], att'[Of(g)])
    BY <1>1, <1>2, <1>4, <2>1, MovedRow
  <2>3. Moves(run[g].pc, run'[g].pc, att[Of(g)], att'[Of(g)], g)
    BY <1>3, <2>2 DEF Moves
  <2>4. QED
    BY <1>3, <1>4, <2>1, <2>2, <2>3 DEF RunMoves, Late
<1>5. CASE ~IsLive(g)
  <2>1. RowType'
    BY <1>1, <1>2, <1>5 DEF RowType
  <2>2. QED
    BY <1>2, <1>3, <1>5, <2>1 DEF RunMoves, Late
<1>6. QED
  BY <1>4, <1>5

LEMMA RunGivesUp ==
    ASSUME BaseInv, NEW g \in Gens, run[g].pc \notin {"none", "done"}, NEW o \in Outcomes,
           \/ o = "requeue"
           \/ "lost" \in Events
           \/ ~IsLive(g)
           \/ Checkpoint(Of(g)) \in SettledCheckpoints,
           GiveUp(g, o)
    PROVE  RunMoves(g)
<1>1. RunType /\ RowType
  BY DEF BaseInv
<1>2. run' = Ended(g, o) /\ att' = att
  BY DEF GiveUp
<1>3. /\ RunType'
      /\ \A h \in Gens : h # g => run'[h] = run[h]
      /\ run'[g].pc = "done"
      /\ worker.gen = g => run'[g].attempt = Of(g) /\ run'[g].outcome = o
  BY <1>1, <1>2, EndedRun
<1>4. RowType'
  BY <1>1, <1>2 DEF RowType
<1>5. Moves(run[g].pc, run'[g].pc, att[Of(g)], att'[Of(g)], g)
  BY <1>2, <1>3 DEF Moves
<1>6. IsLive(g) => worker.gen = g
  BY RunAtWork
<1>7. QED
  BY <1>2, <1>3, <1>4, <1>5, <1>6 DEF RunMoves, Late, Checkpoint

LEMMA RunAdvances ==
    ASSUME BaseInv, NEW g \in Gens, run[g].pc \in Early \union Middle,
           NEW cp \in Preparing, NEW pc \in Middle, Advance(g, cp, pc)
    PROVE  RunMoves(g)
<1>1. RunType /\ RowType
  BY DEF BaseInv
<1>2. run[g].pc \notin {"none", "done"} /\ run[g].pc \notin Late /\ pc \in RunSteps
  BY DEF Early, Middle, Late, RunSteps
<1>3. CASE IsLive(g) /\ Refused(Of(g), cp)
  <2>1. GiveUp(g, "failed") /\ "failed" \in Outcomes
    BY <1>3 DEF Advance, Outcomes
  <2>2. Checkpoint(Of(g)) \in SettledCheckpoints
    BY <1>3, CheckpointFacts DEF Refused
  <2>3. QED
    BY <1>2, <2>1, <2>2, RunGivesUp
<1>4. CASE ~(IsLive(g) /\ Refused(Of(g), cp))
  <2>1. /\ run' = [run EXCEPT ![g].pc = pc, ![g].seen = "absent"]
        /\ IsLive(g) => att' = Moved(Of(g), cp, "")
        /\ ~IsLive(g) => att' = att
    BY <1>4 DEF Advance
  <2>2. /\ RunType'
        /\ \A h \in Gens : h # g => run'[h] = run[h]
        /\ run'[g].pc = pc /\ run'[g].attempt = Of(g)
    BY <1>1, <1>2, <2>1, RunGoesOnForms
  <2>3. pc \notin Late /\ pc \notin {"none", "done"}
    BY DEF Middle, Late
  <2>4. CASE IsLive(g)
    <3>1. cp \in Checkpoints /\ Of(g) \in Attempts /\ "" \in Notes
      BY <1>2, CheckpointFacts, RunAtWork
    <3>2. /\ RowType'
          /\ \A b \in Attempts : b # Of(g) => att'[b] = att[b]
          /\ att'[Of(g)].checkpoint = cp
          /\ Same(att[Of(g)], att'[Of(g)])
      BY <1>1, <2>1, <2>4, <3>1, MovedRow
    <3>3. Moves(run[g].pc, run'[g].pc, att[Of(g)], att'[Of(g)], g)
      BY <1>2, <2>2, <3>2 DEF Moves
    <3>4. QED
      BY <2>2, <2>3, <2>4, <3>2, <3>3 DEF RunMoves
  <2>5. CASE ~IsLive(g)
    <3>1. RowType'
      BY <1>1, <2>1, <2>5 DEF RowType
    <3>2. QED
      BY <2>1, <2>2, <2>3, <2>5, <3>1 DEF RunMoves
  <2>6. QED
    BY <2>4, <2>5
<1>5. QED
  BY <1>3, <1>4

(* A run goes on without writing. *)
LEMMA RunWaits ==
    ASSUME BaseInv, NEW g \in Gens, NEW pc \in RunSteps \ {"none", "done"},
           RunType', att' = att,
           \A h \in Gens : h # g => run'[h] = run[h],
           run'[g].pc = pc, run'[g].attempt = Of(g),
           \/ run[g].pc \in Early /\ pc \in Early
           \/ run[g].pc \in Middle /\ pc \in Middle
           \/ run[g].pc \in Late /\ pc \in Late
    PROVE  RunMoves(g)
<1>1. RowType'
  BY DEF BaseInv, RowType
<1>2. Moves(run[g].pc, run'[g].pc, att[Of(g)], att'[Of(g)], g)
  BY DEF Moves
<1>3. pc \in Late => Of(g) \in Supported
  BY DEF BaseInv, SupportInv, Early, Middle, Late
<1>4. QED
  BY <1>1, <1>2, <1>3 DEF RunMoves

LEMMA RunHalts ==
    ASSUME BaseInv, NEW g \in Gens, run[g].pc \notin {"none", "done"}, Halt(g)
    PROVE  RunMoves(g)
<1>1. PICK cp \in {"queued", "skipped"} : Settle(g, cp, "", "requeue")
  BY DEF Halt
<1>2. cp \in Settles /\ "" \in Notes /\ "requeue" \in Outcomes
  BY DEF Settles, Notes, Outcomes
<1>3. QED
  BY <1>1, <1>2, RunSettles

(* The fields are recorded, and the run is over. *)
LEMMA RunFills ==
    ASSUME BaseInv, NEW g \in Gens, run[g].pc = "apply", IsLive(g),
           NEW cp, cp \in {"needs_user", "ready", "failed"},
           NEW o, o \in {"completed", "failed"},
           att' = [Moved(Of(g), cp, "") EXCEPT ![Of(g)].fields = g],
           run' = Ended(g, o)
    PROVE  RunMoves(g)
<1> DEFINE x == [att[Of(g)] EXCEPT !.checkpoint = cp, !.note = "", !.fields = g]
<1>1. RunType /\ RowType
  BY DEF BaseInv
<1>2. Of(g) \in Attempts /\ g \in 0 .. MaxRuns /\ worker.gen = g
  BY RunAtWork
<1>3. cp \in Checkpoints /\ cp \in SettledCheckpoints /\ "" \in Notes /\ o \in Outcomes
  BY CheckpointFacts DEF Outcomes
<1>4. att[Of(g)] \in Row
  BY <1>1, <1>2 DEF RowType
<1>5. /\ x \in Row /\ x.checkpoint = cp /\ x.fields = g
      /\ x.docs = att[Of(g)].docs /\ x.held = att[Of(g)].held
  BY <1>2, <1>3, <1>4 DEF Row
<1>6. att' = [att EXCEPT ![Of(g)] = x]
  BY <1>1, <1>2 DEF Moved, RowType
<1> HIDE DEF x
<1>7. /\ RowType' /\ att'[Of(g)] = x
      /\ \A b \in Attempts : b # Of(g) => att'[b] = att[b]
  BY <1>1, <1>2, <1>5, <1>6 DEF RowType
<1>8. /\ RunType'
      /\ \A h \in Gens : h # g => run'[h] = run[h]
      /\ run'[g].pc = "done" /\ run'[g].attempt = Of(g)
  BY <1>1, <1>2, <1>3, EndedRun
<1>9. Moves(run[g].pc, run'[g].pc, att[Of(g)], att'[Of(g)], g)
  BY <1>5, <1>7, <1>8 DEF Moves, Late
<1>10. QED
  BY <1>2, <1>3, <1>5, <1>7, <1>8, <1>9 DEF RunMoves, Late

LEMMA RunNextMoves ==
    ASSUME BaseInv, NEW g \in Gens, RunNext(g)
    PROVE  RunMoves(g) /\ run[g].pc \notin {"none", "done"}
<1>1. RunType /\ RowType
  BY DEF BaseInv
<1>2. /\ {"", "completed", "failed", "requeue"} = Outcomes
      /\ {"needs_user", "failed"} \subseteq Settles
      /\ {"needs_user", "failed"} \subseteq SettledCheckpoints
  BY CheckpointFacts DEF Outcomes, Settles
<1>3. CASE RunAsks(g)
  <2>1. run[g].pc \in {"ask", "askVerified", "askStaged"} /\ att' = att
    BY <1>3 DEF RunAsks
  <2>2. run[g].pc \notin {"none", "done"}
    BY <2>1
  <2> DEFINE pc == IF run[g].pc = "ask" THEN "entry"
                   ELSE IF run[g].pc = "askVerified" THEN "verified" ELSE "staged"
             x == [run[g] EXCEPT !.seen = entry[Of(g)], !.pc = pc]
  <2>3. run' = [run EXCEPT ![g] = x]
    <3>1. (CASE run[g].pc = "ask" -> "entry" [] run[g].pc = "askVerified" -> "verified"
             [] OTHER -> "staged") = pc
      BY <2>1, Zenon
    <3>2. run' = [run EXCEPT ![g].seen = entry[Of(g)],
                             ![g].pc = CASE run[g].pc = "ask" -> "entry"
                                         [] run[g].pc = "askVerified" -> "verified"
                                         [] OTHER -> "staged"]
      BY <1>3, Zenon DEF RunAsks
    <3>3. run' = [run EXCEPT ![g].seen = entry[Of(g)], ![g].pc = pc]
      BY <3>1, <3>2, Zenon
    <3>4. QED
      BY <1>1, <3>3 DEF RunType
  <2>4. entry[Of(g)] \in EntryStates \union {"absent"}
    BY <2>2, RunAtWork DEF BaseInv, QueueInv, QueueTypeOK
  <2>5. run[g] \in RunRecord /\ pc \in RunSteps \ {"none", "done"}
    BY <1>1 DEF RunType, RunSteps
  <2>6. x \in RunRecord /\ x.pc = pc /\ x.attempt = Of(g)
    BY <2>4, <2>5 DEF RunRecord, Of
  <2>7. \/ run[g].pc \in Early /\ pc \in Early
        \/ run[g].pc \in Middle /\ pc \in Middle
        \/ run[g].pc \in Late /\ pc \in Late
    BY <2>1 DEF Early, Middle, Late
  <2> HIDE DEF x, pc
  <2>8. /\ RunType'
        /\ \A h \in Gens : h # g => run'[h] = run[h]
        /\ run'[g].pc = pc /\ run'[g].attempt = Of(g)
    BY <1>1, <2>3, <2>6 DEF RunType
  <2>9. RunMoves(g)
    BY <2>1, <2>5, <2>7, <2>8, RunWaits
  <2>10. QED
    BY <2>2, <2>9
<1>4. CASE RunAskFails(g)
  <2>1. run[g].pc \notin {"none", "done"} /\ GiveUp(g, "failed") /\ "lost" \in Events
    BY <1>4 DEF RunAskFails
  <2>2. QED
    BY <1>2, <2>1, RunGivesUp
<1>5. CASE RunEnters(g)
  <2>1. run[g].pc = "entry" /\ (Halt(g) \/ Advance(g, "reading_jd", "verify"))
    BY <1>5 DEF RunEnters
  <2>2. run[g].pc \in Early \union Middle /\ "reading_jd" \in Preparing /\ "verify" \in Middle
    BY <2>1 DEF Early, Middle, Preparing
  <2>3. QED
    BY <2>1, <2>2, RunHalts, RunAdvances
<1>6. CASE RunVerifies(g)
  <2>1. run[g].pc = "verify"
    BY <1>6 DEF RunVerifies
  <2>2. CASE GiveUp(g, "requeue")
    BY <1>2, <2>1, <2>2, RunGivesUp
  <2>3. CASE run' = [run EXCEPT ![g].pc = "askVerified"] /\ att' = att
    <3>1. /\ "askVerified" \in RunSteps \ {"none", "done"}
          /\ run[g].pc \in Middle /\ "askVerified" \in Middle
      BY <2>1 DEF RunSteps, Middle
    <3>2. /\ RunType'
          /\ \A h \in Gens : h # g => run'[h] = run[h]
          /\ run'[g].pc = "askVerified" /\ run'[g].attempt = Of(g)
      BY <1>1, <2>3, <3>1, RunGoesOnForms
    <3>3. QED
      BY <2>1, <2>3, <3>1, <3>2, RunWaits
  <2>4. QED
    BY <1>6, <2>2, <2>3 DEF RunVerifies
<1>7. CASE RunReads(g)
  <2>1. /\ run[g].pc = "verified"
        /\ \/ Halt(g)
           \/ Settle(g, "needs_user", "", "completed")
           \/ Advance(g, "tailoring", "tailor")
    BY <1>7 DEF RunReads
  <2>2. run[g].pc \in Early \union Middle /\ "tailoring" \in Preparing /\ "tailor" \in Middle
    BY <2>1 DEF Early, Middle, Preparing
  <2>3. QED
    BY <1>2, <2>1, <2>2, CheckpointFacts, RunHalts, RunAdvances, RunSettles
<1>8. CASE RunTailors(g)
  <2>1. /\ run[g].pc = "tailor"
        /\ \/ Settle(g, "needs_user", "", "completed")
           \/ GiveUp(g, "requeue")
           \/ Advance(g, "rendering", "render")
    BY <1>8 DEF RunTailors
  <2>2. run[g].pc \in Early \union Middle /\ "rendering" \in Preparing /\ "render" \in Middle
    BY <2>1 DEF Early, Middle, Preparing
  <2>3. QED
    BY <1>2, <2>1, <2>2, CheckpointFacts, RunGivesUp, RunAdvances, RunSettles
<1>9. CASE RunRenders(g)
  <2>1. /\ run[g].pc = "render"
        /\ \/ GiveUp(g, "requeue")
           \/ Settle(g, "needs_user", "", "completed")
           \/ /\ IsLive(g)
              /\ \E n \in {"", "documents"} :
                    att' = [Moved(Of(g), "needs_user", n) EXCEPT ![Of(g)].docs = g]
              /\ run' = Ended(g, "completed")
           \/ /\ IsLive(g) /\ Of(g) \in Supported
              /\ att' = [att EXCEPT ![Of(g)].docs = g]
              /\ run' = [run EXCEPT ![g].pc = "askStaged"]
    BY <1>9 DEF RunRenders
  <2>2. /\ Of(g) \in Attempts /\ g \in 0 .. MaxRuns
        /\ IsLive(g) => worker.gen = g
    BY <2>1, RunAtWork
  <2>3. CASE GiveUp(g, "requeue") \/ Settle(g, "needs_user", "", "completed")
    BY <1>2, <2>1, <2>3, CheckpointFacts, RunGivesUp, RunSettles
  <2>4. ASSUME IsLive(g), NEW n \in {"", "documents"},
               att' = [Moved(Of(g), "needs_user", n) EXCEPT ![Of(g)].docs = g],
               run' = Ended(g, "completed")
        PROVE  RunMoves(g)
    <3>1. "needs_user" \in Checkpoints /\ n \in Notes
      BY CheckpointFacts
    <3>2. /\ RowType'
          /\ \A b \in Attempts : b # Of(g) => att'[b] = att[b]
          /\ att'[Of(g)].checkpoint = "needs_user" /\ att'[Of(g)].docs = g
          /\ att'[Of(g)].fields = att[Of(g)].fields /\ att'[Of(g)].held = att[Of(g)].held
      BY <1>1, <2>2, <2>4, <3>1, MovedDocs
    <3>3. /\ RunType'
          /\ \A h \in Gens : h # g => run'[h] = run[h]
          /\ run'[g].pc = "done"
          /\ worker.gen = g => run'[g].attempt = Of(g)
      BY <1>1, <1>2, <2>4, EndedRun
    <3>4. Moves(run[g].pc, run'[g].pc, att[Of(g)], att'[Of(g)], g)
      BY <2>1, <3>2, <3>3 DEF Moves
    <3>5. QED
      BY <1>2, <2>2, <2>4, <3>2, <3>3, <3>4 DEF RunMoves, Late
  <2>5. ASSUME IsLive(g), Of(g) \in Supported,
               att' = [att EXCEPT ![Of(g)].docs = g],
               run' = [run EXCEPT ![g].pc = "askStaged"]
        PROVE  RunMoves(g)
    <3> DEFINE x == [att[Of(g)] EXCEPT !.docs = g]
    <3>1. att[Of(g)] \in Row
      BY <1>1, <2>2 DEF RowType
    <3>2. /\ x \in Row /\ x.checkpoint = att[Of(g)].checkpoint /\ x.docs = g
          /\ x.fields = att[Of(g)].fields /\ x.held = att[Of(g)].held
      BY <2>2, <3>1 DEF Row
    <3>3. att' = [att EXCEPT ![Of(g)] = x]
      BY <1>1, <2>2, <2>5 DEF RowType
    <3> HIDE DEF x
    <3>4. /\ RowType' /\ att'[Of(g)] = x
          /\ \A b \in Attempts : b # Of(g) => att'[b] = att[b]
      BY <1>1, <2>2, <3>2, <3>3 DEF RowType
    <3>5. "askStaged" \in RunSteps
      BY DEF RunSteps
    <3>6. /\ RunType'
          /\ \A h \in Gens : h # g => run'[h] = run[h]
          /\ run'[g].pc = "askStaged" /\ run'[g].attempt = Of(g)
      BY <1>1, <2>5, <3>5, RunGoesOnForms
    <3>7. Moves(run[g].pc, run'[g].pc, att[Of(g)], att'[Of(g)], g)
      BY <2>1, <3>2, <3>4, <3>6 DEF Moves
    <3>8. QED
      BY <2>2, <2>5, <3>4, <3>6, <3>7 DEF RunMoves
  <2>6. QED
    BY <2>1, <2>3, <2>4, <2>5
<1>10. CASE RunStages(g)
  <2>1. run[g].pc = "staged"
    BY <1>10 DEF RunStages
  <2>2. Of(g) \in Attempts /\ "filling" \in Checkpoints /\ "" \in Notes /\ 0 \in 0 .. MaxRuns
    <3>1. Of(g) \in Attempts
      BY <2>1, RunAtWork
    <3>2. "filling" \in Checkpoints /\ "" \in Notes
      BY DEF Checkpoints, Preparing, Notes
    <3>3. 0 \in 0 .. MaxRuns
      BY BoundsAssumption
    <3>4. QED
      BY <3>1, <3>2, <3>3
  <2>3. CASE Halt(g)
    BY <2>1, <2>3, RunHalts
  <2>4. CASE ~IsLive(g) /\ GiveUp(g, "requeue")
    BY <1>2, <2>1, <2>4, RunGivesUp
  <2>5. CASE Refused(Of(g), "filling") /\ GiveUp(g, "failed")
    <3>1. Checkpoint(Of(g)) \in SettledCheckpoints
      BY <2>5, CheckpointFacts DEF Refused
    <3>2. QED
      BY <1>2, <2>1, <2>5, <3>1, RunGivesUp
  <2>6. ASSUME IsLive(g),
               att' = [Moved(Of(g), "filling", "") EXCEPT ![Of(g)].fields = 0],
               run' = [run EXCEPT ![g].pc = "open", ![g].view = TRUE, ![g].seen = "absent"]
        PROVE  RunMoves(g)
    <3>1. /\ RowType'
          /\ \A b \in Attempts : b # Of(g) => att'[b] = att[b]
          /\ att'[Of(g)].checkpoint = "filling" /\ att'[Of(g)].fields = 0
          /\ att'[Of(g)].docs = att[Of(g)].docs /\ att'[Of(g)].held = att[Of(g)].held
      BY <1>1, <2>2, <2>6, MovedFields
    <3>2. "open" \in RunSteps
      BY DEF RunSteps
    <3>3. /\ RunType'
          /\ \A h \in Gens : h # g => run'[h] = run[h]
          /\ run'[g].pc = "open" /\ run'[g].attempt = Of(g)
      BY <1>1, <2>6, <3>2, RunGoesOnForms
    <3>4. Moves(run[g].pc, run'[g].pc, att[Of(g)], att'[Of(g)], g)
      BY <2>1, <3>1, <3>3 DEF Moves, Late
    <3>5. Of(g) \in Supported
      BY <2>1 DEF BaseInv, SupportInv, Late
    <3>6. QED
      BY <2>6, <3>1, <3>3, <3>4, <3>5 DEF RunMoves
  <2>7. QED
    BY <1>10, <2>1, <2>3, <2>4, <2>5, <2>6 DEF RunStages
<1>11. CASE RunOpens(g)
  <2>1. run[g].pc = "open"
    BY <1>11 DEF RunOpens
  <2>2. CASE Settle(g, "needs_user", "", "completed")
    BY <1>2, <2>1, <2>2, CheckpointFacts, RunSettles
  <2>3. CASE run' = [run EXCEPT ![g].pc = "map", ![g].view = FALSE] /\ att' = att
    <3>1. "map" \in RunSteps \ {"none", "done"} /\ run[g].pc \in Late /\ "map" \in Late
      BY <2>1 DEF RunSteps, Late
    <3>2. /\ RunType'
          /\ \A h \in Gens : h # g => run'[h] = run[h]
          /\ run'[g].pc = "map" /\ run'[g].attempt = Of(g)
      BY <1>1, <2>3, <3>1, RunGoesOnForms
    <3>3. QED
      BY <2>1, <2>3, <3>1, <3>2, RunWaits
  <2>4. ASSUME att' = IF IsLive(g) THEN Moved(Of(g), "needs_user", "") ELSE att,
               run' = Blind(Ended(g, "completed"), Of(g))
        PROVE  RunMoves(g)
    <3> DEFINE rs == Ended(g, "completed")
    <3>1. Of(g) \in Attempts /\ "needs_user" \in Checkpoints /\ "" \in Notes
          /\ (IsLive(g) => worker.gen = g)
      BY <2>1, RunAtWork, CheckpointFacts
    <3>2. /\ rs \in [Gens -> RunRecord]
          /\ \A h \in Gens : h # g => rs[h] = run[h]
          /\ rs[g].pc = "done"
          /\ worker.gen = g => rs[g].attempt = Of(g) /\ rs[g].outcome = "completed"
      <4> DEFINE x == IF worker.gen = g
                        THEN [SpentRun EXCEPT !.attempt = Of(g), !.outcome = "completed"]
                        ELSE SpentRun
      <4>1. x \in RunRecord /\ x.pc = "done"
            /\ (worker.gen = g => x.attempt = Of(g) /\ x.outcome = "completed")
        BY <3>1 DEF SpentRun, NoRun, RunRecord, RunSteps, Outcomes
      <4>2. rs = [run EXCEPT ![g] = x]
        BY DEF Ended
      <4> HIDE DEF x, rs
      <4>3. QED
        BY <1>1, <4>1, <4>2 DEF RunType
    <3> HIDE DEF rs
    <3>3. run' = Blind(rs, Of(g))
      BY <2>4 DEF rs
    <3>4. /\ RunType'
          /\ \A h \in Gens : run'[h].pc = rs[h].pc /\ run'[h].attempt = rs[h].attempt
                              /\ run'[h].outcome = rs[h].outcome
      BY <3>2, <3>3 DEF RunType, RunRecord, Blind
    <3>5. CASE IsLive(g)
      <4>1. /\ RowType'
            /\ \A b \in Attempts : b # Of(g) => att'[b] = att[b]
            /\ att'[Of(g)].checkpoint = "needs_user"
            /\ Same(att[Of(g)], att'[Of(g)])
        BY <1>1, <2>4, <3>1, <3>5, MovedRow
      <4>2. Moves(run[g].pc, run'[g].pc, att[Of(g)], att'[Of(g)], g)
        BY <1>2, <3>2, <3>4, <4>1 DEF Moves
      <4>3. QED
        BY <1>2, <3>1, <3>2, <3>4, <3>5, <4>1, <4>2 DEF RunMoves, Late
    <3>6. CASE ~IsLive(g)
      <4>1. att' = att /\ RowType'
        BY <1>1, <2>4, <3>6 DEF RowType
      <4>2. run'[g].attempt = Of(g) \/ worker.gen # g
        BY <3>2, <3>4
      <4>3. QED
        BY <3>2, <3>4, <3>6, <4>1, <4>2 DEF RunMoves, Late
    <3>7. QED
      BY <3>5, <3>6
  <2>5. QED
    BY <1>11, <2>1, <2>2, <2>3, <2>4 DEF RunOpens
<1>12. CASE RunMaps(g)
  <2>1. run[g].pc = "map"
    BY <1>12 DEF RunMaps
  <2>2. CASE \/ GiveUp(g, "requeue")
             \/ Settle(g, "needs_user", "", "completed")
             \/ Settle(g, "failed", "", "failed")
    BY <1>2, <2>1, <2>2, CheckpointFacts, RunGivesUp, RunSettles
  <2>3. CASE run' = [run EXCEPT ![g].pc = "apply"] /\ att' = att
    <3>1. "apply" \in RunSteps \ {"none", "done"} /\ run[g].pc \in Late /\ "apply" \in Late
      BY <2>1 DEF RunSteps, Late
    <3>2. /\ RunType'
          /\ \A h \in Gens : h # g => run'[h] = run[h]
          /\ run'[g].pc = "apply" /\ run'[g].attempt = Of(g)
      BY <1>1, <2>3, <3>1, RunGoesOnForms
    <3>3. QED
      BY <2>1, <2>3, <3>1, <3>2, RunWaits
  <2>4. QED
    BY <1>12, <2>1, <2>2, <2>3 DEF RunMaps
<1>13. CASE RunApplies(g)
  <2>1. run[g].pc = "apply"
    BY <1>13 DEF RunApplies
  <2>2. CASE \/ GiveUp(g, "requeue")
             \/ Settle(g, "needs_user", "", "completed")
             \/ Settle(g, "failed", "", "failed")
    BY <1>2, <2>1, <2>2, CheckpointFacts, RunGivesUp, RunSettles
  <2>3. CASE /\ IsLive(g)
             /\ \E cp \in {"needs_user", "ready"} :
                    LET refused == cp = "ready" /\ Refused(Of(g), cp)
                    IN  /\ att' = [Moved(Of(g), IF refused THEN "failed" ELSE cp, "")
                                      EXCEPT ![Of(g)].fields = g]
                        /\ run' = Ended(g, IF refused THEN "failed" ELSE "completed")
    <3>1. PICK p \in {"needs_user", "ready"} :
              LET refused == p = "ready" /\ Refused(Of(g), p)
              IN  /\ att' = [Moved(Of(g), IF refused THEN "failed" ELSE p, "")
                                EXCEPT ![Of(g)].fields = g]
                  /\ run' = Ended(g, IF refused THEN "failed" ELSE "completed")
      BY <2>3
    <3> DEFINE refused == p = "ready" /\ Refused(Of(g), p)
               cp == IF refused THEN "failed" ELSE p
               o == IF refused THEN "failed" ELSE "completed"
    <3>2. cp \in {"needs_user", "ready", "failed"} /\ o \in {"completed", "failed"}
      OBVIOUS
    <3>3. att' = [Moved(Of(g), cp, "") EXCEPT ![Of(g)].fields = g] /\ run' = Ended(g, o)
      BY <3>1
    <3> HIDE DEF refused, cp, o
    <3>4. IsLive(g)
      BY <2>3
    <3>5. QED
      BY <2>1, <3>2, <3>3, <3>4, RunFills
  <2>4. GiveUp(g, "requeue") \/ Settle(g, "needs_user", "", "completed")
        \/ Settle(g, "failed", "", "failed")
        \/ (/\ IsLive(g)
            /\ \E cp \in {"needs_user", "ready"} :
                    LET refused == cp = "ready" /\ Refused(Of(g), cp)
                    IN  /\ att' = [Moved(Of(g), IF refused THEN "failed" ELSE cp, "")
                                      EXCEPT ![Of(g)].fields = g]
                        /\ run' = Ended(g, IF refused THEN "failed" ELSE "completed"))
    BY <1>13, Zenon DEF RunApplies
  <2>5. QED
    BY <2>1, <2>2, <2>3, <2>4
<1>14. QED
  BY <1>3, <1>4, <1>5, <1>6, <1>7, <1>8, <1>9, <1>10, <1>11, <1>12, <1>13 DEF RunNext
-----------------------------------------------------------------------------
(* What a person, a posting check and the queue's answers do to a row.      *)

UserRow(a, old, new) ==
    \/ new.checkpoint = old.checkpoint /\ Same(old, new)
    \/ /\ old.checkpoint = "none" /\ new.checkpoint = "queued" /\ Same(old, new)
       /\ enqueuing' = enqueuing \union {a}
    \/ old.checkpoint = "queued" /\ new.checkpoint = "failed" /\ Same(old, new)
    \/ /\ old.checkpoint \in {"ready", "needs_user"} /\ new.checkpoint = "user_reported"
       /\ Same(old, new) /\ a \notin Supported
    \/ /\ old.checkpoint \in {"ready", "needs_user", "failed"}
          \/ ("eager" \in Events /\ old.checkpoint = "submitting")
       /\ new.checkpoint = "skipped" /\ Same(old, new)
    \/ /\ old.checkpoint = "submission_unknown" /\ new.checkpoint = "submitted"
       /\ Same(old, new)
    \/ /\ old.checkpoint \in {"failed", "needs_user"} /\ new.checkpoint = "queued"
       /\ new.docs = 0 /\ new.fields = 0 /\ new.held = NoHold
       /\ sub' = Blind(sub, a) /\ enqueuing' = enqueuing \union {a}
       /\ "hasty" \in Events \/ worker.pc = "idle" \/ lease.attempt # a
    \/ /\ old.checkpoint \in {"ready", "needs_user"} /\ new.checkpoint = "needs_user"
       /\ new.docs = old.docs /\ new.fields = 0
       /\ new.held.checkpoint = old.checkpoint /\ new.held.fields = old.fields
       /\ sub' = Blind(sub, a)
    \/ /\ old.held # NoHold /\ old.checkpoint = "needs_user"
       /\ new.checkpoint = old.held.checkpoint
       /\ new.docs = old.docs /\ new.fields = old.held.fields /\ new.held = NoHold
    \/ /\ new.checkpoint = old.checkpoint
       /\ new.docs = old.docs /\ new.fields = old.fields /\ new.held = NoHold

OneRow(a) == RowType' /\ \A b \in Attempts : b # a => att'[b] = att[b]

LEMMA RowWritten ==
    ASSUME RowType, NEW a \in Attempts, NEW x \in Row, att' = [att EXCEPT ![a] = x]
    PROVE  OneRow(a) /\ att'[a] = x
BY DEF RowType, OneRow

LEMMA RowKept ==
    ASSUME RowType, NEW a \in Attempts, att' = att
    PROVE  OneRow(a) /\ UserRow(a, att[a], att'[a])
BY DEF RowType, OneRow, UserRow, Same

LEMMA HoldFacts == NoHold \in HoldRecord /\ NoHold.checkpoint = "none" /\ NoHold.fields = 0
BY BoundsAssumption DEF NoHold, HoldRecord, Checkpoints, Notes

(* A checkpoint alone is written. *)
LEMMA CheckpointWritten ==
    ASSUME RowType, NEW a \in Attempts, NEW cp \in Checkpoints,
           \/ att' = [att EXCEPT ![a].checkpoint = cp]
           \/ att' = [att EXCEPT ![a].checkpoint = cp, ![a].submittedAt = TRUE]
    PROVE  OneRow(a) /\ att'[a].checkpoint = cp /\ Same(att[a], att'[a])
<1>1. att[a] \in Row
  BY DEF RowType
<1>2. CASE att' = [att EXCEPT ![a].checkpoint = cp]
  <2> DEFINE x == [att[a] EXCEPT !.checkpoint = cp]
  <2>1. /\ x \in Row /\ x.checkpoint = cp
        /\ x.docs = att[a].docs /\ x.fields = att[a].fields /\ x.held = att[a].held
    BY <1>1 DEF Row
  <2>2. att' = [att EXCEPT ![a] = x]
    BY <1>2 DEF RowType
  <2> HIDE DEF x
  <2>3. QED
    BY <2>1, <2>2, RowWritten DEF Same
<1>3. CASE att' = [att EXCEPT ![a].checkpoint = cp, ![a].submittedAt = TRUE]
  <2> DEFINE x == [att[a] EXCEPT !.checkpoint = cp, !.submittedAt = TRUE]
  <2>1. /\ x \in Row /\ x.checkpoint = cp
        /\ x.docs = att[a].docs /\ x.fields = att[a].fields /\ x.held = att[a].held
    BY <1>1 DEF Row
  <2>2. att' = [att EXCEPT ![a] = x]
    BY <1>3 DEF RowType
  <2> HIDE DEF x
  <2>3. QED
    BY <2>1, <2>2, RowWritten DEF Same
<1>4. QED
  BY <1>2, <1>3

LEMMA ScheduleWritten ==
    ASSUME RowType, NEW a \in Attempts, NEW s \in BOOLEAN,
           att' = [att EXCEPT ![a].scheduled = s]
    PROVE  OneRow(a) /\ att'[a].checkpoint = att[a].checkpoint /\ Same(att[a], att'[a])
<1> DEFINE x == [att[a] EXCEPT !.scheduled = s]
<1>1. att[a] \in Row
  BY DEF RowType
<1>2. /\ x \in Row /\ x.checkpoint = att[a].checkpoint
      /\ x.docs = att[a].docs /\ x.fields = att[a].fields /\ x.held = att[a].held
  BY <1>1 DEF Row
<1>3. att' = [att EXCEPT ![a] = x]
  BY DEF RowType
<1> HIDE DEF x
<1>4. QED
  BY <1>2, <1>3, RowWritten DEF Same

LEMMA UserWritesRow ==
    ASSUME BaseInv, NEW a \in Attempts, UserNext(a)
    PROVE  OneRow(a) /\ UserRow(a, att[a], att'[a])
<1>1. RowType /\ att[a] \in Row
  BY DEF BaseInv, RowType
<1>2. /\ {"queued", "failed", "user_reported", "skipped", "submitted", "needs_user"}
            \subseteq Checkpoints
      /\ "" \in Notes /\ "posting" \in Notes /\ 0 \in 0 .. MaxRuns
  BY CheckpointFacts, BoundsAssumption DEF Settles, Notes
<1>3. CASE StartAttempt(a) \/ EnqueueFails(a) \/ UserReports(a)
  <2>1. PICK cp \in {"queued", "failed", "user_reported"} :
          /\ att' = Moved(a, cp, "")
          /\ cp = "queued" =>
                att[a].checkpoint = "none" /\ enqueuing' = enqueuing \union {a}
          /\ cp = "failed" => att[a].checkpoint = "queued"
          /\ cp = "user_reported" =>
                att[a].checkpoint \in {"ready", "needs_user"} /\ a \notin Supported
    BY <1>3, Zenon DEF StartAttempt, EnqueueFails, UserReports, Checkpoint
  <2>2. RowType' /\ (\A b \in Attempts : b # a => att'[b] = att[b])
        /\ att'[a].checkpoint = cp /\ Same(att[a], att'[a])
    BY <1>1, <1>2, <2>1, MovedRow
  <2>3. QED
    BY <2>1, <2>2 DEF OneRow, UserRow
<1>4. CASE UserSkips(a) \/ ReconcileOutcome(a)
  <2>1. PICK cp \in {"skipped", "submitted"} :
          /\ \/ att' = [att EXCEPT ![a].checkpoint = cp]
             \/ att' = [att EXCEPT ![a].checkpoint = cp, ![a].submittedAt = TRUE]
          /\ cp = "skipped" =>
                \/ att[a].checkpoint \in {"ready", "needs_user", "failed"}
                \/ "eager" \in Events /\ att[a].checkpoint = "submitting"
          /\ cp = "submitted" => att[a].checkpoint = "submission_unknown"
    <3>1. CASE UserSkips(a)
      <4>1. att' = [att EXCEPT ![a].checkpoint = "skipped"]
        BY <3>1 DEF UserSkips
      <4>2. \/ att[a].checkpoint \in {"ready", "needs_user", "failed"}
            \/ "eager" \in Events /\ att[a].checkpoint = "submitting"
        BY <3>1 DEF UserSkips, Refused, Checkpoint, Sent, Completed
      <4>3. QED
        BY <4>1, <4>2
    <3>2. CASE ReconcileOutcome(a)
      <4>1. /\ att' = [att EXCEPT ![a].checkpoint = "submitted", ![a].submittedAt = TRUE]
            /\ att[a].checkpoint = "submission_unknown"
        BY <3>2 DEF ReconcileOutcome, Checkpoint
      <4>2. QED
        BY <4>1
    <3>3. QED
      BY <1>4, <3>1, <3>2
  <2>2. OneRow(a) /\ att'[a].checkpoint = cp /\ Same(att[a], att'[a])
    BY <1>1, <1>2, <2>1, CheckpointWritten
  <2>3. QED
    BY <2>1, <2>2 DEF UserRow
<1>5. CASE Schedule(a) \/ CancelSchedule(a)
  <2>1. PICK s \in BOOLEAN : att' = [att EXCEPT ![a].scheduled = s]
    BY <1>5 DEF Schedule, CancelSchedule
  <2>2. QED
    BY <1>1, <2>1, ScheduleWritten DEF UserRow
<1>6. CASE Resume(a)
  <2> DEFINE x == [att[a] EXCEPT !.checkpoint = "queued", !.note = "", !.held = NoHold,
                                 !.docs = 0, !.fields = 0]
  <2>1. /\ att[a].checkpoint \in {"failed", "needs_user"} /\ sub' = Blind(sub, a)
        /\ enqueuing' = enqueuing \union {a}
        /\ "hasty" \in Events \/ worker.pc = "idle" \/ lease.attempt # a
    BY <1>6 DEF Resume, Checkpoint, CloseReview
  <2>2. /\ x \in Row /\ x.checkpoint = "queued"
        /\ x.docs = 0 /\ x.fields = 0 /\ x.held = NoHold
    BY <1>1, <1>2, HoldFacts DEF Row
  <2>3. att' = [att EXCEPT ![a] = x]
    BY <1>1, <1>6 DEF Resume, Moved, RowType
  <2> HIDE DEF x
  <2>4. QED
    BY <1>1, <2>1, <2>2, <2>3, RowWritten DEF UserRow
<1>7. CASE PostingHold(a)
  <2> DEFINE h == [checkpoint |-> att[a].checkpoint, note |-> att[a].note,
                   fields |-> att[a].fields]
             x == [att[a] EXCEPT !.held = h, !.checkpoint = "needs_user",
                                 !.note = "posting", !.fields = 0]
  <2>1. att[a].checkpoint \in {"ready", "needs_user"} /\ sub' = Blind(sub, a)
    BY <1>7 DEF PostingHold, Checkpoint, CloseReview
  <2>2. h \in HoldRecord /\ h.checkpoint = att[a].checkpoint /\ h.fields = att[a].fields
    BY <1>1 DEF Row, HoldRecord
  <2>3. att' = [att EXCEPT ![a] = x]
    BY <1>1, <1>7 DEF PostingHold, Checkpoint, RowType
  <2> HIDE DEF h
  <2>4. /\ x \in Row /\ x.checkpoint = "needs_user"
        /\ x.docs = att[a].docs /\ x.fields = 0 /\ x.held = h
    BY <1>1, <1>2, <2>2 DEF Row
  <2> HIDE DEF x
  <2>5. QED
    BY <1>1, <2>1, <2>2, <2>3, <2>4, RowWritten DEF UserRow
<1>8. CASE PostingRelease(a)
  <2>1. att[a].held \in HoldRecord /\ att[a].held # NoHold
    BY <1>1, <1>8 DEF Row, PostingRelease
  <2>2. PICK h \in HoldRecord : h = att[a].held
    BY <2>1
  <2>3. CASE att[a].checkpoint = "needs_user"
    <3> DEFINE x == [att[a] EXCEPT !.checkpoint = h.checkpoint, !.note = h.note,
                                   !.fields = h.fields, !.held = NoHold]
    <3>1. /\ x \in Row /\ x.checkpoint = h.checkpoint
          /\ x.docs = att[a].docs /\ x.fields = h.fields /\ x.held = NoHold
      BY <1>1, <2>2, HoldFacts DEF Row, HoldRecord
    <3>2. att' = [Moved(a, h.checkpoint, h.note) EXCEPT ![a].fields = h.fields,
                                                         ![a].held = NoHold]
      BY <1>8, <2>2, <2>3 DEF PostingRelease, Checkpoint
    <3>3. att' = [att EXCEPT ![a] = x]
      BY <1>1, <3>2 DEF Moved, RowType
    <3> HIDE DEF x
    <3>4. QED
      BY <1>1, <2>1, <2>2, <2>3, <3>1, <3>3, RowWritten DEF UserRow
  <2>4. CASE att[a].checkpoint # "needs_user"
    <3> DEFINE x == [att[a] EXCEPT !.held = NoHold]
    <3>1. /\ x \in Row /\ x.checkpoint = att[a].checkpoint
          /\ x.docs = att[a].docs /\ x.fields = att[a].fields /\ x.held = NoHold
      BY <1>1, HoldFacts DEF Row
    <3>2. att' = [att EXCEPT ![a].held = NoHold]
      BY <1>8, <2>4 DEF PostingRelease, Checkpoint
    <3>3. att' = [att EXCEPT ![a] = x]
      BY <1>1, <3>2 DEF RowType
    <3> HIDE DEF x
    <3>4. QED
      BY <1>1, <3>1, <3>3, RowWritten DEF UserRow
  <2>5. QED
    BY <2>3, <2>4
<1>9. CASE EnqueueAnswered(a) \/ OpenReview(a) \/ UserCloses(a) \/ ShowHandoff(a)
           \/ UserQueues(a)
  <2>1. att' = att
    BY <1>9 DEF EnqueueAnswered, OpenReview, UserCloses, ShowHandoff, UserQueues
  <2>2. QED
    BY <1>1, <2>1, RowKept
<1>10. QED
  BY <1>3, <1>4, <1>5, <1>6, <1>7, <1>8, <1>9 DEF UserNext
-----------------------------------------------------------------------------
(* What a submission does to its call, its row and the employer.            *)

(* The call c, and no other, becomes r. *)
CallBecomes(c, r) == r \in SubRecord /\ sub' = [sub EXCEPT ![c] = r]

Unsent == sent' = sent
SentOnce(a) == sent' = [sent EXCEPT ![a] = @ + 1]

(* A call that waits, is refused or begins: the row keeps its checkpoint. *)
CallMoves(c, a) ==
    /\ OneRow(a) /\ att'[a].checkpoint = att[a].checkpoint /\ Same(att[a], att'[a]) /\ Unsent
    /\ \/ sub' = sub
       \/ \E r : CallBecomes(c, r) /\ r.pc \in {"due", "done"}
                 /\ (r.pc = "due" => r.attempt = a /\ a \in review)
       \/ \E r : CallBecomes(c, r) /\ r.pc \in {"snap", "gate"} /\ r.attempt = a
                 /\ sub[c].pc \in {"none", "due"} /\ MayBegin(a)
                 /\ (r.pc = "gate" => Checkpoint(a) \notin Sent)
       \/ \E r : CallBecomes(c, r) /\ r.pc = "gate" /\ r.attempt = a /\ sub[c].attempt = a
                 /\ sub[c].pc = "snap" /\ Checkpoint(a) \notin Sent /\ r.view = sub[c].view

(* A call that commits, clicks or learns what came of it. *)
CallWrites(c, a) ==
    /\ OneRow(a) /\ Same(att[a], att'[a]) /\ sub[c].attempt = a
    /\ \/ /\ sub[c].pc = "gate" /\ att'[a].checkpoint = "submitting" /\ Unsent
          /\ \E r : CallBecomes(c, r) /\ r.pc = "click" /\ r.attempt = a
                    /\ r.view = sub[c].view
       \/ /\ sub[c].pc = "click" /\ sub[c].view /\ att'[a].checkpoint = "ready" /\ Unsent
          /\ CallBecomes(c, SpentSub)
       \/ /\ sub[c].pc = "click" /\ sub[c].view
          /\ att'[a].checkpoint = att[a].checkpoint
          /\ \E r : CallBecomes(c, r) /\ r.pc = "observe" /\ r.attempt = a
                    /\ r.view = sub[c].view
                    /\ (IF r.accepted THEN SentOnce(a) ELSE Unsent)
       \/ /\ sub[c].pc = "click" /\ att'[a].checkpoint = "submission_unknown"
          /\ (Unsent \/ (sub[c].view /\ SentOnce(a)))
          /\ CallBecomes(c, SpentSub)
       \/ /\ sub[c].pc = "observe" /\ sub[c].view /\ ~sub[c].accepted
          /\ att'[a].checkpoint = "needs_user" /\ Unsent
          /\ CallBecomes(c, SpentSub)
       \/ /\ sub[c].pc = "observe"
          /\ att'[a].checkpoint \in {"submitted", "submission_unknown"} /\ Unsent
          /\ CallBecomes(c, SpentSub)

LEMMA SpentFacts ==
    /\ SpentSub \in SubRecord /\ SpentSub.pc = "done"
    /\ NoSub \in SubRecord /\ NoSub.pc = "none"
BY DEF SpentSub, NoSub, SubRecord, SubSteps

LEMMA SubmitMoves ==
    ASSUME BaseInv, NEW c \in Calls, SubmitNext(c)
    PROVE  \E a \in Attempts : CallMoves(c, a) \/ CallWrites(c, a)
<1>1. RowType /\ SubType /\ sub[c] \in SubRecord
  BY DEF BaseInv, SubInv, SubType
<1>2. /\ {"submitting", "ready", "submission_unknown", "submitted", "needs_user"}
            \subseteq Checkpoints
      /\ "" \in Notes
  BY CheckpointFacts
<1>3. ASSUME NEW a \in Attempts, att' = att
      PROVE  OneRow(a) /\ att'[a].checkpoint = att[a].checkpoint /\ Same(att[a], att'[a])
  BY <1>1, <1>3 DEF OneRow, RowType, Same
<1>4. InFlight(c) \/ sub[c].pc = "due" => sub[c].attempt \in Attempts
  BY DEF BaseInv, SubInv, SubNames
<1>5. ASSUME NEW a \in Attempts, SubmitBegins(c, a)
      PROVE  CallMoves(c, a)
  <2> DEFINE r == [NoSub EXCEPT !.attempt = a, !.pc = "gate", !.view = TRUE]
  <2>1. /\ sub' = [sub EXCEPT ![c] = r] /\ sub[c] = NoSub /\ MayBegin(a)
        /\ Checkpoint(a) \notin Sent /\ att' = att /\ Unsent
    BY <1>5 DEF SubmitBegins, Unsent
  <2>2. r \in SubRecord /\ r.pc = "gate" /\ r.attempt = a
    BY DEF NoSub, SubRecord, SubSteps
  <2> HIDE DEF r
  <2>3. CallBecomes(c, r) /\ sub[c].pc = "none"
    BY <2>1, <2>2, SpentFacts DEF CallBecomes
  <2>4. QED
    BY <1>3, <2>1, <2>2, <2>3 DEF CallMoves
<1>6. ASSUME NEW a \in Attempts, Fire(c, a)
      PROVE  CallMoves(c, a)
  <2> DEFINE r == [NoSub EXCEPT !.attempt = a, !.pc = "due", !.mode = "automatic"]
  <2>1. att' = [att EXCEPT ![a].scheduled = FALSE] /\ Unsent
    BY <1>6 DEF Fire, Unsent
  <2>2. OneRow(a) /\ att'[a].checkpoint = att[a].checkpoint /\ Same(att[a], att'[a])
    BY <1>1, <2>1, ScheduleWritten
  <2>3. r \in SubRecord /\ r.pc = "due" /\ r.attempt = a
    BY DEF NoSub, SubRecord, SubSteps
  <2>4. sub' = sub \/ (a \in review /\ sub' = [sub EXCEPT ![c] = r])
    BY <1>6 DEF Fire
  <2> HIDE DEF r
  <2>5. CASE sub' = sub
    BY <2>1, <2>2, <2>5 DEF CallMoves
  <2>6. CASE a \in review /\ sub' = [sub EXCEPT ![c] = r]
    <3>1. CallBecomes(c, r)
      BY <2>3, <2>6 DEF CallBecomes
    <3>2. QED
      BY <2>1, <2>2, <2>3, <2>6, <3>1 DEF CallMoves
  <2>7. QED
    BY <2>4, <2>5, <2>6
<1>7. ASSUME NEW a \in Attempts, sub' = [sub EXCEPT ![c] = SpentSub], att' = att, Unsent
      PROVE  CallMoves(c, a)
  <2>1. CallBecomes(c, SpentSub)
    BY <1>7, SpentFacts DEF CallBecomes
  <2>2. QED
    BY <1>3, <1>7, <2>1, SpentFacts DEF CallMoves
<1>8. CASE AutomaticBegins(c)
  <2>1. PICK a \in Attempts : a = sub[c].attempt
    BY <1>4, <1>8 DEF AutomaticBegins
  <2>2. sub[c].pc = "due" /\ att' = att /\ Unsent
    BY <1>8 DEF AutomaticBegins, Unsent
  <2>3. CASE sub' = [sub EXCEPT ![c] = SpentSub]
    BY <1>7, <2>2, <2>3
  <2>4. CASE MayBegin(a) /\ sub' = [sub EXCEPT ![c].pc = "snap", ![c].view = TRUE]
    <3> DEFINE r == [sub[c] EXCEPT !.pc = "snap", !.view = TRUE]
    <3>1. r \in SubRecord /\ r.pc = "snap" /\ r.attempt = a
      BY <1>1, <2>1 DEF SubRecord, SubSteps
    <3>2. sub' = [sub EXCEPT ![c] = r]
      BY <1>1, <2>4 DEF SubType
    <3> HIDE DEF r
    <3>3. CallBecomes(c, r)
      BY <3>1, <3>2 DEF CallBecomes
    <3>4. CallMoves(c, a)
      BY <1>3, <2>2, <2>4, <3>1, <3>3 DEF CallMoves
    <3>5. QED
      BY <3>4
  <2>5. QED
    BY <1>8, <2>1, <2>3, <2>4 DEF AutomaticBegins
<1>9. CASE SubmitLooks(c)
  <2>1. PICK a \in Attempts : a = sub[c].attempt
    BY <1>4, <1>9 DEF SubmitLooks, InFlight
  <2>2. sub[c].pc = "snap" /\ att' = att /\ Unsent
    BY <1>9 DEF SubmitLooks, Unsent
  <2>3. CASE sub' = [sub EXCEPT ![c] = SpentSub]
    BY <1>7, <2>2, <2>3
  <2>4. CASE Checkpoint(a) \notin Sent /\ sub' = [sub EXCEPT ![c].pc = "gate"]
    <3> DEFINE r == [sub[c] EXCEPT !.pc = "gate"]
    <3>1. r \in SubRecord /\ r.pc = "gate" /\ r.attempt = a /\ r.view = sub[c].view
      BY <1>1, <2>1 DEF SubRecord, SubSteps
    <3>2. sub' = [sub EXCEPT ![c] = r]
      BY <1>1, <2>4 DEF SubType
    <3> HIDE DEF r
    <3>3. CallBecomes(c, r)
      BY <3>1, <3>2 DEF CallBecomes
    <3>4. CallMoves(c, a)
      BY <1>3, <2>1, <2>2, <2>4, <3>1, <3>3 DEF CallMoves
    <3>5. QED
      BY <3>4
  <2>5. QED
    BY <1>9, <2>1, <2>3, <2>4 DEF SubmitLooks
<1>10. CASE SubmitGates(c)
  <2>1. PICK a \in Attempts : a = sub[c].attempt
    BY <1>4, <1>10 DEF SubmitGates, InFlight
  <2>2. sub[c].pc = "gate" /\ Unsent
    BY <1>10 DEF SubmitGates, Unsent
  <2>3. CASE sub' = [sub EXCEPT ![c] = SpentSub] /\ att' = att
    BY <1>7, <2>2, <2>3
  <2>4. CASE /\ att' = [att EXCEPT ![a].checkpoint = "submitting"]
             /\ sub' = [sub EXCEPT ![c].pc = "click"]
    <3> DEFINE r == [sub[c] EXCEPT !.pc = "click"]
    <3>1. r \in SubRecord /\ r.pc = "click" /\ r.attempt = a /\ r.view = sub[c].view
      BY <1>1, <2>1 DEF SubRecord, SubSteps
    <3>2. sub' = [sub EXCEPT ![c] = r]
      BY <1>1, <2>4 DEF SubType
    <3> HIDE DEF r
    <3>3. CallBecomes(c, r)
      BY <3>1, <3>2 DEF CallBecomes
    <3>4. OneRow(a) /\ att'[a].checkpoint = "submitting" /\ Same(att[a], att'[a])
      BY <1>1, <1>2, <2>4, CheckpointWritten
    <3>5. CallWrites(c, a)
      BY <2>1, <2>2, <3>1, <3>3, <3>4 DEF CallWrites
    <3>6. QED
      BY <3>5
  <2>5. QED
    BY <1>10, <2>1, <2>3, <2>4 DEF SubmitGates
<1>11. ASSUME NEW a \in Attempts, NEW cp \in Checkpoints, att' = Moved(a, cp, "")
       PROVE  OneRow(a) /\ att'[a].checkpoint = cp /\ Same(att[a], att'[a])
  <2>1. att' = Moved(a, cp, "")
    BY <1>11
  <2>2. QED
    BY <1>1, <1>2, <2>1, MovedRow DEF OneRow
<1>12. CASE SubmitClicks(c)
  <2>1. PICK a \in Attempts : a = sub[c].attempt
    BY <1>4, <1>12 DEF SubmitClicks, InFlight
  <2>2. sub[c].pc = "click"
    BY <1>12 DEF SubmitClicks
  <2>3. CASE /\ sub[c].view /\ att' = Moved(a, "ready", "")
             /\ sub' = [sub EXCEPT ![c] = SpentSub] /\ sent' = sent
    <3>1. OneRow(a) /\ att'[a].checkpoint = "ready" /\ Same(att[a], att'[a])
      BY <1>2, <1>11, <2>3
    <3>2. CallBecomes(c, SpentSub) /\ Unsent
      BY <2>3, SpentFacts DEF CallBecomes, Unsent
    <3>3. CallWrites(c, a)
      BY <2>1, <2>2, <2>3, <3>1, <3>2 DEF CallWrites
    <3>4. QED
      BY <3>3
  <2>4. ASSUME sub[c].view, NEW accepted \in BOOLEAN, att' = att,
               sub' = [sub EXCEPT ![c].pc = "observe", ![c].accepted = accepted],
               sent' = IF accepted THEN [sent EXCEPT ![a] = @ + 1] ELSE sent
        PROVE  CallWrites(c, a)
    <3> DEFINE r == [sub[c] EXCEPT !.pc = "observe", !.accepted = accepted]
    <3>1. /\ r \in SubRecord /\ r.pc = "observe" /\ r.attempt = a /\ r.view = sub[c].view
          /\ r.accepted = accepted
      BY <1>1, <2>1 DEF SubRecord, SubSteps
    <3>2. sub' = [sub EXCEPT ![c] = r]
      BY <1>1, <2>4 DEF SubType
    <3> HIDE DEF r
    <3>3. CallBecomes(c, r)
      BY <3>1, <3>2 DEF CallBecomes
    <3>4. IF r.accepted THEN SentOnce(a) ELSE Unsent
      BY <2>4, <3>1 DEF SentOnce, Unsent
    <3>5. QED
      BY <1>3, <2>1, <2>2, <2>4, <3>1, <3>3, <3>4 DEF CallWrites
  <2>5. CASE /\ att' = Moved(a, "submission_unknown", "")
             /\ sub' = [sub EXCEPT ![c] = SpentSub]
             /\ (sent' = sent \/ (sub[c].view /\ sent' = [sent EXCEPT ![a] = @ + 1]))
    <3>1. OneRow(a) /\ att'[a].checkpoint = "submission_unknown" /\ Same(att[a], att'[a])
      BY <1>2, <1>11, <2>5
    <3>2. CallBecomes(c, SpentSub) /\ (Unsent \/ (sub[c].view /\ SentOnce(a)))
      BY <2>5, SpentFacts DEF CallBecomes, Unsent, SentOnce
    <3>3. CallWrites(c, a)
      BY <2>1, <2>2, <3>1, <3>2 DEF CallWrites
    <3>4. QED
      BY <3>3
  <2>6. QED
    BY <1>12, <2>1, <2>3, <2>4, <2>5 DEF SubmitClicks
<1>13. CASE SubmitObserves(c)
  <2>1. PICK a \in Attempts : a = sub[c].attempt
    BY <1>4, <1>13 DEF SubmitObserves, InFlight
  <2>2. sub[c].pc = "observe" /\ CallBecomes(c, SpentSub) /\ Unsent
    BY <1>13, SpentFacts DEF SubmitObserves, CallBecomes, Unsent
  <2>3. CASE sub[c].view /\ ~sub[c].accepted /\ att' = Moved(a, "needs_user", "")
    <3>1. OneRow(a) /\ att'[a].checkpoint = "needs_user" /\ Same(att[a], att'[a])
      BY <1>2, <1>11, <2>3
    <3>2. CallWrites(c, a)
      BY <2>1, <2>2, <2>3, <3>1 DEF CallWrites
    <3>3. QED
      BY <3>2
  <2>4. CASE att' = [att EXCEPT ![a].checkpoint = "submitted", ![a].submittedAt = TRUE]
    <3>1. OneRow(a) /\ att'[a].checkpoint = "submitted" /\ Same(att[a], att'[a])
      BY <1>1, <1>2, <2>4, CheckpointWritten
    <3>2. CallWrites(c, a)
      BY <2>1, <2>2, <3>1 DEF CallWrites
    <3>3. QED
      BY <3>2
  <2>5. CASE att' = [Moved(a, "submission_unknown", "") EXCEPT ![a].submittedAt = TRUE]
    <3> DEFINE x == [att[a] EXCEPT !.checkpoint = "submission_unknown", !.note = "",
                                   !.submittedAt = TRUE]
    <3>1. att[a] \in Row
      BY <1>1 DEF RowType
    <3>2. /\ x \in Row /\ x.checkpoint = "submission_unknown"
          /\ x.docs = att[a].docs /\ x.fields = att[a].fields /\ x.held = att[a].held
      BY <1>2, <3>1 DEF Row
    <3>3. att' = [att EXCEPT ![a] = x]
      BY <1>1, <2>5 DEF Moved, RowType
    <3> HIDE DEF x
    <3>4. OneRow(a) /\ att'[a].checkpoint = "submission_unknown" /\ Same(att[a], att'[a])
      BY <1>1, <3>2, <3>3, RowWritten DEF Same
    <3>5. CallWrites(c, a)
      BY <2>1, <2>2, <3>4 DEF CallWrites
    <3>6. QED
      BY <3>5
  <2>6. QED
    BY <1>13, <2>1, <2>3, <2>4, <2>5 DEF SubmitObserves
<1>14. QED
  BY <1>5, <1>6, <1>8, <1>9, <1>10, <1>12, <1>13 DEF SubmitNext
-----------------------------------------------------------------------------
(* What the recovery does up to its next wait.                              *)

RecoverPuts(list, todo, a) ==
    /\ OneRow(a) /\ att'[a].checkpoint = "queued"
    /\ att'[a].docs = att[a].docs /\ att'[a].fields = 0 /\ att'[a].held = att[a].held
    /\ recovery' = [pc |-> "enqueue", list |-> list, todo |-> todo \ {a}, cur |-> a]

RecoverWritesOff(list) ==
    /\ RowType'
    /\ \A a \in Attempts : IF list[a] = "submitting"
          THEN att'[a].checkpoint = "submission_unknown" /\ Same(att[a], att'[a])
          ELSE att'[a] = att[a]
    /\ recovery' = [pc |-> "requeue", list |-> list, cur |-> NoAttempt,
                    todo |-> {a \in Attempts : list[a] = "queued"}]

LEMMA RecoverMoves ==
    ASSUME RowType, NEW list, NEW todo, todo \subseteq Attempts, RecoverNext(list, todo)
    PROVE  \/ \E a \in todo : RecoverPuts(list, todo, a)
           \/ todo = {} /\ RecoverWritesOff(list)
<1>1. /\ "queued" \in Checkpoints /\ "submission_unknown" \in Checkpoints
      /\ "" \in Notes /\ 0 \in 0 .. MaxRuns
  BY BoundsAssumption DEF Checkpoints, Completed, Notes
<1>2. ASSUME NEW a \in todo, att' = [Moved(a, "queued", "") EXCEPT ![a].fields = 0],
             recovery' = [pc |-> "enqueue", list |-> list, todo |-> todo \ {a}, cur |-> a]
      PROVE  RecoverPuts(list, todo, a)
  <2> DEFINE x == [att[a] EXCEPT !.checkpoint = "queued", !.note = "", !.fields = 0]
  <2>1. a \in Attempts /\ att[a] \in Row
    BY DEF RowType
  <2>2. /\ x \in Row /\ x.checkpoint = "queued" /\ x.fields = 0
        /\ x.docs = att[a].docs /\ x.held = att[a].held
    BY <1>1, <2>1 DEF Row
  <2>3. att' = [att EXCEPT ![a] = x]
    BY <1>2, <2>1 DEF Moved, RowType
  <2> HIDE DEF x
  <2>4. QED
    BY <1>2, <2>1, <2>2, <2>3, RowWritten DEF RecoverPuts
<1>3. ASSUME att' = [a \in Attempts |->
                        IF list[a] = "submitting"
                          THEN [att[a] EXCEPT !.checkpoint = "submission_unknown",
                                              !.note = "", !.submittedAt = TRUE]
                          ELSE att[a]],
             recovery' = [pc |-> "requeue", list |-> list, cur |-> NoAttempt,
                          todo |-> {a \in Attempts : list[a] = "queued"}]
      PROVE  RecoverWritesOff(list)
  <2>1. ASSUME NEW a \in Attempts
        PROVE  /\ att'[a] \in Row
               /\ IF list[a] = "submitting"
                    THEN att'[a].checkpoint = "submission_unknown" /\ Same(att[a], att'[a])
                    ELSE att'[a] = att[a]
    <3>1. att[a] \in Row
      BY DEF RowType
    <3>2. att'[a] = IF list[a] = "submitting"
                      THEN [att[a] EXCEPT !.checkpoint = "submission_unknown",
                                          !.note = "", !.submittedAt = TRUE]
                      ELSE att[a]
      BY <1>3
    <3>3. QED
      BY <1>1, <3>1, <3>2 DEF Row, Same
  <2>2. RowType'
    BY <1>3, <2>1 DEF RowType
  <2>3. QED
    BY <1>3, <2>1, <2>2 DEF RecoverWritesOff
<1>4. CASE \E a \in todo :
             /\ att' = [Moved(a, "queued", "") EXCEPT ![a].fields = 0]
             /\ recovery' = [pc |-> "enqueue", list |-> list, todo |-> todo \ {a}, cur |-> a]
  BY <1>2, <1>4, Zenon
<1>5. CASE todo = {} /\ ~(\E a \in todo :
             /\ att' = [Moved(a, "queued", "") EXCEPT ![a].fields = 0]
             /\ recovery' = [pc |-> "enqueue", list |-> list, todo |-> todo \ {a}, cur |-> a])
  BY <1>3, <1>5, Zenon DEF RecoverNext
<1>6. QED
  BY <1>4, <1>5, Zenon DEF RecoverNext

-----------------------------------------------------------------------------
(* The base is kept.                                                        *)

(* Runs that do not move: only their pages may be gone. *)
RunsStay ==
    /\ RunType'
    /\ \A g \in Gens : run'[g].pc = run[g].pc /\ run'[g].attempt = run[g].attempt
                        /\ run'[g].outcome = run[g].outcome

LEMMA BlindRuns ==
    ASSUME RunType, NEW a, run' = run \/ run' = Blind(run, a)
    PROVE  RunsStay
BY DEF RunsStay, RunType, RunRecord, Blind

LEMMA BlindCalls ==
    ASSUME SubType, NEW a, sub' = sub \/ sub' = Blind(sub, a)
    PROVE  \A c \in Calls : /\ sub'[c].pc = sub[c].pc /\ sub'[c].attempt = sub[c].attempt
                            /\ sub'[c].accepted = sub[c].accepted
                            /\ sub'[c].view => sub[c].view
                            /\ sub' = Blind(sub, a) /\ sub[c].attempt = a => ~sub'[c].view
BY DEF SubType, SubRecord, Blind

(* Runs, worker and fence stay, and no page or call is new. *)
LEMMA CalmBase ==
    ASSUME BaseInv, QueueInv', RecoveryInv', SubInv', RowType', RestType',
           RunsStay, worker' = worker, live' = live, review' \subseteq Supported,
           \A c \in Calls : sub'[c].pc \notin {"none", "done"} => sub'[c].attempt \in Supported
    PROVE  BaseInv'
<1>1. RunNames'
  BY DEF BaseInv, RunNames, RunsStay, Of
<1>2. WorkerInv'
  BY DEF BaseInv, WorkerInv, RunsStay, Of
<1>3. SupportInv'
  BY DEF BaseInv, SupportInv, RunsStay, Of
<1>4. QED
  BY <1>1, <1>2, <1>3 DEF BaseInv, RunsStay

LEMMA RunFrame ==
    ASSUME BaseInv, NEW g \in Gens, RunNext(g)
    PROVE  /\ UNCHANGED <<live, worker, enqueuing, sent>>
           /\ review' \subseteq Supported
           /\ \/ run[g].pc # "open" /\ sub' = sub
              \/ run[g].pc = "open" /\ (sub' = sub \/ sub' = Blind(sub, Of(g)))
<1>1. review \subseteq Supported
  BY DEF BaseInv, SupportInv
<1> USE <1>1 DEF RunKeeps, reviewVars, Settle, GiveUp, Advance, Halt
<1>2. CASE RunAsks(g)
  BY <1>2 DEF RunAsks
<1>3. CASE RunAskFails(g)
  BY <1>3 DEF RunAskFails
<1>4. CASE RunEnters(g)
  BY <1>4 DEF RunEnters
<1>5. CASE RunVerifies(g)
  BY <1>5 DEF RunVerifies
<1>6. CASE RunReads(g)
  BY <1>6 DEF RunReads
<1>7. CASE RunTailors(g)
  BY <1>7 DEF RunTailors
<1>8. CASE RunRenders(g)
  BY <1>8 DEF RunRenders
<1>9. CASE RunStages(g)
  <2>1. run[g].pc = "staged" /\ Of(g) \in Supported
    BY <1>9 DEF RunStages, BaseInv, SupportInv, Late
  <2>2. QED
    BY <1>9, <2>1 DEF RunStages
<1>10. CASE RunOpens(g)
  BY <1>10 DEF RunOpens
<1>11. CASE RunMaps(g)
  BY <1>11 DEF RunMaps
<1>12. CASE RunApplies(g)
  BY <1>12 DEF RunApplies
<1>13. QED
  BY <1>2, <1>3, <1>4, <1>5, <1>6, <1>7, <1>8, <1>9, <1>10, <1>11, <1>12 DEF RunNext

LEMMA RunKeepsBase ==
    ASSUME BaseInv, QueueInv', RecoveryInv', SubInv', NEW g \in Gens, RunNext(g)
    PROVE  BaseInv'
<1>1. RunMoves(g) /\ run[g].pc \notin {"none", "done"}
  BY RunNextMoves
<1>2. /\ UNCHANGED <<live, worker, enqueuing, sent>> /\ review' \subseteq Supported
      /\ (sub' = sub \/ sub' = Blind(sub, Of(g)))
  BY RunFrame
<1>3. UNCHANGED recoveryVars /\ UNCHANGED handoff
  BY RunKeepsQueue
<1>4. Of(g) \in Attempts /\ (IsLive(g) => worker.gen = g) /\ RunType /\ RunType' /\ RowType'
  BY <1>1, RunAtWork DEF BaseInv, RunMoves
<1>5. RestType'
  BY <1>2, <1>3 DEF BaseInv, RestType, recoveryVars
<1>6. RunNames'
  BY <1>1, <1>4 DEF BaseInv, RunNames, RunMoves, Of
<1>7. WorkerInv'
  <2>1. worker.gen = g => run'[g].attempt = Of(g)
    BY <1>1 DEF RunMoves
  <2>2. run'[g].pc # "none"
    BY <1>1 DEF RunMoves
  <2>3. \A h \in Gens : h # g => run'[h].pc = run[h].pc /\ run'[h].attempt = run[h].attempt
    BY <1>1 DEF RunMoves
  <2>4. worker.gen \in Gens => run'[worker.gen].attempt = run[worker.gen].attempt
                               /\ (run[worker.gen].pc # "none" => run'[worker.gen].pc # "none")
    BY <2>1, <2>2, <2>3 DEF Of
  <2>5. \A a \in Attempts : live[a] # 0 => worker.gen \in Gens
    BY DEF BaseInv, WorkerInv
  <2>6. QED
    BY <1>2, <2>4, <2>5 DEF BaseInv, WorkerInv, Of
<1>8. SupportInv'
  <2>1. \A c \in Calls : sub'[c].pc = sub[c].pc /\ sub'[c].attempt = sub[c].attempt
    BY <1>2, BlindCalls DEF BaseInv, SubInv
  <2>2. \A h \in Gens : run'[h].pc \in Late => run'[h].attempt \in Supported
    <3>1. run'[g].pc \in Late => run'[g].attempt = Of(g) /\ Of(g) \in Supported
      BY <1>1 DEF RunMoves, Late
    <3>2. QED
      BY <1>1, <3>1 DEF RunMoves, BaseInv, SupportInv, Of
  <2>3. QED
    BY <1>2, <2>1, <2>2 DEF BaseInv, SupportInv, Of
<1>9. QED
  BY <1>4, <1>5, <1>6, <1>7, <1>8 DEF BaseInv

(* The worker's run begins, ends, or is given up. *)
LEMMA WorkerKeepsBase ==
    ASSUME BaseInv, QueueInv', RecoveryInv', SubInv', WorkerNext
    PROVE  BaseInv'
<1>1. /\ RunType /\ RowType /\ RestType /\ SubType /\ WorkerInv /\ RunNames /\ SupportInv
      /\ worker \in WorkerRecord /\ live \in [Attempts -> 0 .. MaxRuns]
  BY DEF BaseInv, SubInv, RestType
<1>2. UNCHANGED <<att, recoveryVars, sent, enqueuing>>
  BY DEF WorkerNext, WorkerAcquires, WorkerLosesLease, WorkerSettles, WorkerAbandons,
         WorkerReleases, WorkerReleaseLost, WorkerKeeps, runVars
<1>3. RowType'
  BY <1>1, <1>2 DEF RowType
<1>4. ASSUME worker' \in WorkerRecord, live' \in [Attempts -> 0 .. MaxRuns],
             handoff' \in {handoff, NoAttempt}
      PROVE  RestType'
  BY <1>1, <1>2, <1>4 DEF RestType, recoveryVars
<1>5. ASSUME NEW a \in Attempts, NEW g \in Gens, WorkerAcquires(a, g)
      PROVE  BaseInv'
  <2> DEFINE x == IF Checkpoint(a) \in SettledCheckpoints
                    THEN [NoRun EXCEPT !.attempt = a, !.pc = "done", !.outcome = "completed"]
                    ELSE [NoRun EXCEPT !.attempt = a, !.pc = "ask"]
  <2>1. /\ worker.pc = "idle" /\ live' = [live EXCEPT ![a] = g]
        /\ worker' = [pc |-> "running", gen |-> g, id |-> nextLease + 1, outcome |-> ""]
        /\ run' = [run EXCEPT ![g] = x] /\ UNCHANGED reviewVars
    BY <1>5 DEF WorkerAcquires
  <2>2. x \in RunRecord /\ x.pc \in {"done", "ask"} /\ x.attempt = a
    BY DEF NoRun, RunRecord, RunSteps, Outcomes
  <2> HIDE DEF x
  <2>3. /\ RunType' /\ run'[g] = x
        /\ \A h \in Gens : h # g => run'[h] = run[h]
    BY <1>1, <2>1, <2>2 DEF RunType
  <2>4. g \in 0 .. MaxRuns /\ g # 0 /\ nextLease \in Nat
    BY BoundsAssumption DEF Gens, BaseInv, QueueInv, QueueTypeOK
  <2>5. RestType'
    <3>1. worker' \in WorkerRecord
      <4>1. nextLease + 1 \in Nat /\ "" \in Outcomes
        BY <2>4 DEF Outcomes
      <4>2. QED
        BY <2>1, <2>4, <4>1 DEF WorkerRecord
    <3>2. live' \in [Attempts -> 0 .. MaxRuns]
      BY <1>1, <2>1, <2>4
    <3>3. QED
      BY <1>4, <2>1, <3>1, <3>2 DEF reviewVars
  <2>6. RunNames'
    BY <1>1, <2>2, <2>3 DEF RunNames, Of
  <2>7. \A b \in Attempts : live[b] = 0
    BY <1>1, <2>1 DEF WorkerInv
  <2>8. WorkerInv'
    BY <1>1, <2>1, <2>2, <2>3, <2>4, <2>7 DEF WorkerInv, Of
  <2>9. SupportInv'
    BY <1>1, <2>1, <2>2, <2>3 DEF SupportInv, Of, reviewVars, Late
  <2>10. QED
    BY <1>3, <2>3, <2>5, <2>6, <2>8, <2>9 DEF BaseInv
<1>6. CASE (\E a \in Attempts : WorkerLosesLease(a)) \/ WorkerReleases \/ WorkerReleaseLost
  <2>1. /\ UNCHANGED <<live, run, review, handoff, sub>>
        /\ worker' \in {worker, Idle} /\ (worker' = worker \/ worker.pc = "releasing")
    BY <1>6 DEF WorkerLosesLease, WorkerReleases, WorkerReleaseLost, runVars, reviewVars
  <2>2. Idle \in WorkerRecord /\ Idle.pc = "idle" /\ Idle.gen = 0
    BY BoundsAssumption DEF Idle, WorkerRecord, Outcomes
  <2>3. RestType'
    BY <1>1, <1>4, <2>1, <2>2
  <2>4. RunType' /\ RunNames' /\ SupportInv'
    BY <1>1, <2>1 DEF RunType, RunNames, SupportInv, Of
  <2>5. WorkerInv'
    BY <1>1, <2>1, <2>2 DEF WorkerInv, Of
  <2>6. QED
    BY <1>3, <2>3, <2>4, <2>5 DEF BaseInv
<1>7. CASE WorkerSettles
  <2>1. PICK g \in Gens : g = worker.gen
    BY <1>1, <1>7 DEF WorkerSettles, WorkerInv
  <2>2. PICK a \in Attempts : a = Of(g) /\ live[a] = g
    BY <1>1, <1>7, <2>1 DEF WorkerSettles, WorkerInv
  <2>3. /\ worker.pc = "running" /\ run[g].pc = "done"
        /\ live' = [live EXCEPT ![a] = 0]
        /\ worker' = [worker EXCEPT !.pc = "releasing", !.gen = 0, !.outcome = run[g].outcome]
        /\ run' = [run EXCEPT ![g] = SpentRun]
        /\ UNCHANGED reviewVars
    BY <1>7, <2>1, <2>2 DEF WorkerSettles
  <2>4. SpentRun \in RunRecord /\ SpentRun.pc = "done"
    BY DEF SpentRun, NoRun, RunRecord, RunSteps, Outcomes
  <2>5. RunType' /\ run'[g] = SpentRun /\ \A h \in Gens : h # g => run'[h] = run[h]
    BY <1>1, <2>3, <2>4 DEF RunType
  <2>6. run[g].outcome \in Outcomes /\ 0 \in 0 .. MaxRuns
    BY <1>1, BoundsAssumption DEF RunType, RunRecord
  <2>7. worker' \in WorkerRecord /\ worker'.pc = "releasing" /\ worker'.gen = 0
    BY <1>1, <2>3, <2>6 DEF WorkerRecord
  <2>8. live' \in [Attempts -> 0 .. MaxRuns] /\ \A b \in Attempts : live'[b] = 0
    BY <1>1, <2>1, <2>2, <2>3, <2>6 DEF WorkerInv
  <2>9. RestType'
    BY <1>4, <2>3, <2>7, <2>8 DEF reviewVars
  <2>10. RunNames' /\ SupportInv'
    BY <1>1, <2>3, <2>4, <2>5 DEF RunNames, SupportInv, Of, reviewVars, Late
  <2>11. WorkerInv'
    BY <2>7, <2>8 DEF WorkerInv
  <2>12. QED
    BY <1>3, <2>5, <2>9, <2>10, <2>11 DEF BaseInv
<1>8. CASE WorkerAbandons
  <2>1. PICK g \in Gens : g = worker.gen
    BY <1>1, <1>8 DEF WorkerAbandons, WorkerInv
  <2>2. PICK a \in Attempts : a = Of(g) /\ live[a] = g
    BY <1>1, <1>8, <2>1 DEF WorkerAbandons, WorkerInv
  <2>3. /\ live' = [live EXCEPT ![a] = 0]
        /\ worker' = [worker EXCEPT !.pc = "releasing", !.gen = 0, !.outcome = "requeue"]
        /\ run' = Blind(run, a) /\ sub' = Blind(sub, a)
        /\ review' \subseteq review /\ handoff' \in {handoff, NoAttempt}
    BY <1>8, <2>1, <2>2 DEF WorkerAbandons, CloseReview
  <2>4. RunsStay
    BY <1>1, <2>3, BlindRuns
  <2>5. worker' \in WorkerRecord /\ worker'.pc = "releasing" /\ worker'.gen = 0
    <3>1. 0 \in 0 .. MaxRuns /\ "requeue" \in Outcomes
      BY BoundsAssumption DEF Outcomes
    <3>2. QED
      BY <1>1, <2>3, <3>1 DEF WorkerRecord
  <2>6. live' \in [Attempts -> 0 .. MaxRuns] /\ \A b \in Attempts : live'[b] = 0
    <3>1. worker.pc = "running" /\ \A b \in Attempts : b # a => live[b] = 0
      BY <1>1, <1>8, <2>1, <2>2 DEF WorkerAbandons, WorkerInv
    <3>2. QED
      BY <1>1, <2>3, <3>1, BoundsAssumption
  <2>7. RestType'
    BY <1>4, <2>3, <2>5, <2>6
  <2>8. \A c \in Calls : sub'[c].pc = sub[c].pc /\ sub'[c].attempt = sub[c].attempt
    BY <1>1, <2>3, BlindCalls
  <2>9. RunNames' /\ SupportInv'
    BY <1>1, <2>3, <2>4, <2>8 DEF RunNames, SupportInv, Of, RunsStay
  <2>10. WorkerInv'
    BY <2>5, <2>6 DEF WorkerInv
  <2>11. QED
    BY <1>3, <2>4, <2>7, <2>9, <2>10 DEF BaseInv, RunsStay
<1>9. QED
  BY <1>5, <1>6, <1>7, <1>8 DEF WorkerNext

LEMMA SubmitKeepsBase ==
    ASSUME BaseInv, QueueInv', RecoveryInv', SubInv', NEW c \in Calls, SubmitNext(c)
    PROVE  BaseInv'
<1>1. PICK a \in Attempts : CallMoves(c, a) \/ CallWrites(c, a)
  BY SubmitMoves
<1>2. UNCHANGED <<live, run, worker, enqueuing, review, handoff, recovery, recoveryDue, faults>>
  BY DEF SubmitNext, SubmitBegins, Fire, AutomaticBegins, SubmitLooks, SubmitGates,
         SubmitClicks, SubmitObserves, SubKeeps, runVars, recoveryVars
<1>3. RowType' /\ (Unsent \/ SentOnce(a))
  <2>1. CASE CallMoves(c, a)
    BY <2>1 DEF CallMoves, OneRow
  <2>2. CASE CallWrites(c, a)
    <3>1. RowType'
      BY <2>2 DEF CallWrites, OneRow
    <3>2. Unsent \/ SentOnce(a)
      BY <2>2, Zenon DEF CallWrites
    <3>3. QED
      BY <3>1, <3>2
  <2>3. QED
    BY <1>1, <2>1, <2>2
<1>4. RestType'
  BY <1>2, <1>3 DEF BaseInv, RestType, Unsent, SentOnce
<1>5. RunsStay
  BY <1>2, BlindRuns DEF BaseInv
<1>6. \A d \in Calls : sub'[d].pc \notin {"none", "done"} => sub'[d].attempt \in Supported
  <2>1. \/ sub' = sub
        \/ \E r \in SubRecord : /\ sub' = [sub EXCEPT ![c] = r]
                                /\ r.pc = "done" \/ (r.attempt = a /\ a \in Supported)
    <3>1. sub[c].attempt = a /\ sub[c].pc \notin {"none", "done"} => a \in Supported
      BY DEF BaseInv, SupportInv
    <3>2. a \in review => a \in Supported
      BY DEF BaseInv, SupportInv
    <3>3. CASE CallMoves(c, a)
      <4>1. CASE sub' = sub
        BY <4>1
      <4>2. ASSUME NEW r, CallBecomes(c, r), r.pc \in {"due", "done"},
                   r.pc = "due" => r.attempt = a /\ a \in review
            PROVE  \E q \in SubRecord : /\ sub' = [sub EXCEPT ![c] = q]
                                        /\ q.pc = "done" \/ (q.attempt = a /\ a \in Supported)
        BY <3>2, <4>2 DEF CallBecomes
      <4>3. ASSUME NEW r, CallBecomes(c, r), r.attempt = a, MayBegin(a)
            PROVE  \E q \in SubRecord : /\ sub' = [sub EXCEPT ![c] = q]
                                        /\ q.pc = "done" \/ (q.attempt = a /\ a \in Supported)
        BY <3>2, <4>3 DEF CallBecomes, MayBegin
      <4>4. ASSUME NEW r, CallBecomes(c, r), r.attempt = a, sub[c].attempt = a,
                   sub[c].pc = "snap"
            PROVE  \E q \in SubRecord : /\ sub' = [sub EXCEPT ![c] = q]
                                        /\ q.pc = "done" \/ (q.attempt = a /\ a \in Supported)
        BY <3>1, <4>4 DEF CallBecomes
      <4>5. QED
        BY <3>3, <4>1, <4>2, <4>3, <4>4, Zenon DEF CallMoves
    <3>4. CASE CallWrites(c, a)
      <4>1. sub[c].attempt = a /\ sub[c].pc \in {"gate", "click", "observe"}
        BY <3>4 DEF CallWrites
      <4>2. a \in Supported
        BY <3>1, <4>1
      <4>3. PICK r : CallBecomes(c, r) /\ (r = SpentSub \/ r.attempt = a)
        BY <3>4, Zenon DEF CallWrites
      <4>4. QED
        BY <4>2, <4>3, SpentFacts DEF CallBecomes
    <3>5. QED
      BY <1>1, <3>3, <3>4
  <2>2. QED
    BY <2>1 DEF BaseInv, SupportInv, SubInv, SubType
<1>7. QED
  BY <1>2, <1>3, <1>4, <1>5, <1>6, CalmBase DEF BaseInv, SupportInv

LEMMA UserKeepsBase ==
    ASSUME BaseInv, QueueInv', RecoveryInv', SubInv', NEW a \in Attempts, UserNext(a)
    PROVE  BaseInv'
<1>1. RowType'
  BY UserWritesRow DEF OneRow
<1>2. /\ UNCHANGED <<live, worker, recovery, recoveryDue, faults>>
      /\ enqueuing' \subseteq enqueuing \union {a}
      /\ handoff' \in {handoff, a, NoAttempt}
      /\ review' \subseteq review \union (Supported \intersect {a})
      /\ sub' = sub \/ sub' = Blind(sub, a)
      /\ run' = run \/ run' = Blind(run, a)
      /\ sent' = sent \/ sent' = [sent EXCEPT ![a] = @ + 1]
  BY DEF UserNext, StartAttempt, EnqueueAnswered, EnqueueFails, OpenReview, UserCloses,
         ShowHandoff, Schedule, CancelSchedule, UserReports, UserSkips, ReconcileOutcome,
         Resume, PostingHold, PostingRelease, UserQueues, SubSent, RowOnly, CloseReview,
         runVars, reviewVars, recoveryVars
<1>3. RestType'
  BY <1>2 DEF BaseInv, RestType
<1>4. RunsStay
  BY <1>2, BlindRuns DEF BaseInv
<1>5. \A c \in Calls : sub'[c].pc = sub[c].pc /\ sub'[c].attempt = sub[c].attempt
  BY <1>2, BlindCalls DEF BaseInv, SubInv
<1>6. QED
  BY <1>1, <1>2, <1>3, <1>4, <1>5, CalmBase DEF BaseInv, SupportInv

LEMMA RecoverKeepsBase ==
    ASSUME BaseInv, QueueInv', RecoveryInv', SubInv',
           RecoveryBegins \/ RecoveryEnqueues \/ RecoveryRequeues
    PROVE  BaseInv'
<1>1. /\ UNCHANGED <<live, run, worker, enqueuing, review, handoff, sub, faults, sent>>
      /\ recoveryDue' \in BOOLEAN
  BY DEF RecoveryBegins, RecoveryEnqueues, RecoveryRequeues, RecoveryKeeps, reviewVars,
         BaseInv, RestType
<1>2. RowType /\ RestType /\ RunType /\ SupportInv
  BY DEF BaseInv
<1> DEFINE R == [pc : {"idle", "enqueue", "requeue"}, list : [Attempts -> Checkpoints],
                 todo : SUBSET Attempts, cur : Attempts \union {NoAttempt}]
<1>3. ASSUME NEW list \in [Attempts -> Checkpoints], NEW todo \in SUBSET Attempts,
             RecoverNext(list, todo)
      PROVE  RowType' /\ recovery' \in R
  <2>1. \/ \E a \in todo : RecoverPuts(list, todo, a)
        \/ RecoverWritesOff(list)
    BY <1>2, <1>3, RecoverMoves
  <2>2. CASE RecoverWritesOff(list)
    BY <2>2 DEF RecoverWritesOff
  <2>3. ASSUME NEW a \in todo, RecoverPuts(list, todo, a)
        PROVE  RowType' /\ recovery' \in R
    BY <2>3 DEF RecoverPuts, OneRow
  <2>4. QED
    BY <2>1, <2>2, <2>3
<1>4. RowType' /\ recovery' \in R
  <2>1. CASE RecoveryBegins
    <3> DEFINE list == [a \in Attempts |-> Checkpoint(a)]
               todo == {a \in Attempts : list[a] \in Preparing}
    <3>1. list \in [Attempts -> Checkpoints] /\ todo \in SUBSET Attempts
      BY <1>2 DEF RowType, Row, Checkpoint
    <3>2. RecoverNext(list, todo)
      BY <2>1 DEF RecoveryBegins
    <3> HIDE DEF list, todo
    <3>3. QED
      BY <1>3, <3>1, <3>2
  <2>2. CASE RecoveryEnqueues
    <3>1. recovery.list \in [Attempts -> Checkpoints] /\ recovery.todo \in SUBSET Attempts
      BY <1>2 DEF RestType
    <3>2. QED
      BY <1>3, <2>2, <3>1 DEF RecoveryEnqueues
  <2>3. CASE RecoveryRequeues
    <3>1. RowType'
      BY <1>2, <2>3 DEF RecoveryRequeues, RowType
    <3>2. NoRecovery \in R
      BY DEF NoRecovery, Checkpoints
    <3>3. CASE recovery' = NoRecovery
      BY <3>1, <3>2, <3>3
    <3>4. CASE \E a \in recovery.todo : recovery' = [recovery EXCEPT !.todo = @ \ {a}]
      BY <1>2, <3>1, <3>4 DEF RestType
    <3>5. QED
      BY <2>3, <3>3, <3>4 DEF RecoveryRequeues
  <2>4. QED
    BY <2>1, <2>2, <2>3
<1>5. RestType'
  BY <1>1, <1>2, <1>4 DEF RestType
<1>6. RunsStay
  BY <1>1, <1>2, BlindRuns
<1>7. QED
  BY <1>1, <1>2, <1>4, <1>5, <1>6, CalmBase DEF SupportInv

LEMMA CrashKeepsBase ==
    ASSUME BaseInv, QueueInv', RecoveryInv', SubInv', AppCrash
    PROVE  BaseInv'
<1>1. /\ live' = [a \in Attempts |-> 0]
      /\ run' = [g \in Gens |-> IF run[g] = NoRun THEN NoRun ELSE SpentRun]
      /\ worker' = Idle /\ enqueuing' = {} /\ review' = {} /\ handoff' = NoAttempt
      /\ sub' = [c \in Calls |-> IF sub[c] = NoSub THEN NoSub ELSE SpentSub]
      /\ recovery' = NoRecovery /\ recoveryDue' = TRUE
      /\ faults < MaxFaults /\ faults' = faults + 1 /\ UNCHANGED <<att, sent>>
  BY DEF AppCrash
<1>2. /\ NoRun \in RunRecord /\ NoRun.pc = "none" /\ SpentRun \in RunRecord
      /\ SpentRun.pc = "done"
  BY DEF SpentRun, NoRun, RunRecord, RunSteps, Outcomes
<1>3. RunType' /\ \A g \in Gens : run'[g].pc \in {"none", "done"}
  BY <1>1, <1>2 DEF RunType
<1>4. RowType'
  BY <1>1 DEF BaseInv, RowType
<1>5. Idle \in WorkerRecord /\ Idle.pc = "idle" /\ Idle.gen = 0
  BY BoundsAssumption DEF Idle, WorkerRecord, Outcomes
<1>6. RestType'
  <2>1. /\ NoRecovery \in [pc : {"idle", "enqueue", "requeue"},
                           list : [Attempts -> Checkpoints],
                           todo : SUBSET Attempts, cur : Attempts \union {NoAttempt}]
        /\ NoRecovery.list \in [Attempts -> Checkpoints] /\ NoRecovery.pc = "idle"
    BY DEF NoRecovery, Checkpoints
  <2>2. faults' \in 0 .. MaxFaults /\ live' \in [Attempts -> 0 .. MaxRuns]
        /\ sent' \in [Attempts -> Nat]
    BY <1>1, BoundsAssumption DEF BaseInv, RestType
  <2>3. QED
    BY <1>1, <1>5, <2>1, <2>2 DEF RestType
<1>7. RunNames' /\ WorkerInv'
  BY <1>1, <1>3, <1>5 DEF RunNames, WorkerInv, Of
<1>8. SupportInv'
  <2>1. \A c \in Calls : sub'[c].pc \in {"none", "done"}
    BY <1>1, SpentFacts
  <2>2. QED
    BY <1>1, <1>3, <2>1 DEF SupportInv, Late
<1>9. QED
  BY <1>3, <1>4, <1>6, <1>7, <1>8 DEF BaseInv

LEMMA BaseStepKeeps ==
    ASSUME BaseInv, [Next]_vars
    PROVE  BaseInv'
<1>1. QueueInv' /\ RecoveryInv'
  BY NextIsQueueStep, QueueStepKeeps DEF BaseInv
<1>2. SubInv'
  BY SubStepKeeps DEF BaseInv
<1>3. ASSUME UNCHANGED <<att, live, run, worker, enqueuing, review, sub, sent>>,
             handoff' \in {handoff, NoAttempt}, recovery' = recovery,
             recoveryDue' \in BOOLEAN, faults' \in 0 .. MaxFaults
      PROVE  BaseInv'
  <2>1. RowType' /\ RestType'
    BY <1>3 DEF BaseInv, RowType, RestType
  <2>2. RunsStay
    BY <1>3, BlindRuns DEF BaseInv
  <2>3. QED
    BY <1>1, <1>2, <1>3, <2>1, <2>2, CalmBase DEF BaseInv, SupportInv
<1>4. CASE UNCHANGED vars
  BY <1>3, <1>4 DEF vars, runVars, reviewVars, recoveryVars, BaseInv, RestType
<1>5. CASE HideHandoff
  BY <1>3, <1>5 DEF HideHandoff, runVars, SubSent, recoveryVars, BaseInv, RestType
<1>6. CASE DaemonRestart
  <2>1. faults' \in 0 .. MaxFaults
    BY <1>6, BoundsAssumption DEF DaemonRestart, BaseInv, RestType
  <2>2. QED
    BY <1>3, <1>6, <2>1 DEF DaemonRestart, runVars, reviewVars
<1>7. QED
  BY <1>1, <1>2, <1>4, <1>5, <1>6, RunKeepsBase, WorkerKeepsBase, SubmitKeepsBase,
     UserKeepsBase, RecoverKeepsBase, CrashKeepsBase DEF Next

LEMMA BaseInit == Init => BaseInv
<1> SUFFICES ASSUME Init PROVE BaseInv
  OBVIOUS
<1>1. QueueInv /\ RecoveryInv
  BY NoAttemptAssumption
  DEF Init, QueueInit, NoLease, NoRecovery, QueueInv, QueueTypeOK, LeaseIsActive,
      OrderIsFaithful, LeaseIsFresh, RecoveryInv
<1>2. SubInv
  BY DEF Init, NoSub, SubInv, SubType, SubRecord, SubNames, SubSteps, InFlight,
         SubmitsAreExclusive
<1>3. NoRow \in Row
  <2>1. "none" \in Checkpoints /\ "" \in Notes /\ 0 \in 0 .. MaxRuns
    BY BoundsAssumption DEF Checkpoints, Notes
  <2>2. QED
    BY <2>1, HoldFacts DEF NoRow, Row
<1>4. RowType
  BY <1>3 DEF Init, RowType
<1>5. NoRun \in RunRecord /\ NoRun.pc = "none"
  BY DEF NoRun, RunRecord, RunSteps, Outcomes
<1>6. RunType /\ RunNames
  BY <1>5 DEF Init, RunType, RunNames
<1>7. Idle \in WorkerRecord /\ Idle.pc = "idle" /\ Idle.gen = 0
  BY BoundsAssumption DEF Idle, WorkerRecord, Outcomes
<1>8. RestType
  <2>1. /\ NoRecovery \in [pc : {"idle", "enqueue", "requeue"},
                           list : [Attempts -> Checkpoints],
                           todo : SUBSET Attempts, cur : Attempts \union {NoAttempt}]
        /\ NoRecovery.list \in [Attempts -> Checkpoints] /\ NoRecovery.pc = "idle"
    BY DEF NoRecovery, Checkpoints
  <2>2. faults \in 0 .. MaxFaults /\ live \in [Attempts -> 0 .. MaxRuns]
        /\ sent \in [Attempts -> Nat]
    BY BoundsAssumption DEF Init
  <2>3. QED
    BY <1>7, <2>1, <2>2 DEF Init, RestType
<1>9. WorkerInv
  BY <1>7 DEF Init, WorkerInv
<1>10. SupportInv
  BY <1>5, SpentFacts DEF Init, SupportInv, Late
<1>11. QED
  BY <1>1, <1>2, <1>4, <1>6, <1>8, <1>9, <1>10 DEF BaseInv

(* Rows, runs, calls, worker, recovery and queue keep their types.  The     *)
(* fence (the live run of an attempt) knows the run the worker waits for,   *)
(* and no other: not one the ceiling abandoned, nor one of a worker that    *)
(* died.  A page is open only for an attempt whose site has a policy.       *)
THEOREM AttemptTypesAreKept == Spec => [](TypeOK /\ WorkerInv /\ review \subseteq Supported)
<1>1. BaseInv => TypeOK /\ WorkerInv /\ review \subseteq Supported
  <2>1. ASSUME BaseInv
        PROVE  review \subseteq Attempts
    BY <2>1, BoundsAssumption DEF BaseInv, SupportInv
  <2>2. BaseInv => TypeOK
    BY <2>1 DEF BaseInv, QueueInv, SubInv, SubType, SubRecord, RowType, Row, HoldRecord, RunType,
                RunRecord, RestType, WorkerRecord, TypeOK
  <2>3. BaseInv => WorkerInv /\ review \subseteq Supported
    BY DEF BaseInv, SupportInv
  <2>4. QED
    BY <2>2, <2>3
<1>2. BaseInv /\ [Next]_vars => BaseInv'
  BY BaseStepKeeps
<1>3. QED
  BY <1>1, <1>2, BaseInit, PTL DEF Spec

-----------------------------------------------------------------------------
(* What protects an application that was sent, and the package of a run.    *)

(* Nothing overtakes a run, a submission or the recovery: the daemon does   *)
(* not die alone, nobody acts on an attempt in work, and the worker waits   *)
(* for the recovery.                                                        *)
Calm == {"respawn", "eager", "overlap"} \intersect Events = {}

(* Where the run that may write for a stands. *)
Stage(a) == IF live[a] = 0 THEN "done" ELSE run[live[a]].pc
Undone(a) == Stage(a) # "done"

(* A run under way works on a preparing row, has not begun to, or has been  *)
(* overtaken by the end of a submission whose page is gone.                 *)
RunInv(a) ==
    Undone(a) =>
        \/ Checkpoint(a) \in Preparing \union Sent
        \/ Stage(a) \in Early /\ Checkpoint(a) \in {"none", "queued", "failed", "skipped"}

SentInv(a) == sent[a] > 0 => Checkpoint(a) \in Sent /\ ~Undone(a)

HeldInv(a) == att[a].held # NoHold => att[a].held.checkpoint \in {"ready", "needs_user"}

(* Fields are those of the documents; none while a run is under way, and    *)
(* its documents are the ones staged once it has staged them.               *)
PackageInv(a) ==
    /\ att[a].fields \in {0, att[a].docs}
    /\ att[a].held.fields \in {0, att[a].docs}
    /\ Checkpoint(a) \in {"none", "queued"} \union Preparing \/ Undone(a) =>
          att[a].fields = 0 /\ att[a].held.fields = 0
    /\ Stage(a) \in Late => att[a].docs = live[a]

(* What a submission of a knows: with its page there is no run beside it,   *)
(* and up to its click the employer has nothing.                            *)
CallInv(a) ==
    \A c \in Calls : InFlight(c) /\ sub[c].attempt = a =>
        /\ sub[c].view => Checkpoint(a) \in SettledCheckpoints /\ ~Undone(a)
        /\ sub[c].pc \in {"gate", "click"} => sent[a] = 0
        /\ sub[c].pc = "observe" /\ ~sub[c].accepted => sent[a] = 0
        /\ sub[c].pc \in {"click", "observe"} /\ sub[c].view => Checkpoint(a) \in Sent

AttemptInv(a) == RunInv(a) /\ SentInv(a) /\ HeldInv(a) /\ PackageInv(a) /\ CallInv(a)

(* The recovery has the attempts for itself. *)
RecoveryCalm ==
    recoveryDue \/ recovery.pc # "idle" =>
        /\ worker.pc # "running"
        /\ \A c \in Calls : InFlight(c) => Checkpoint(sub[c].attempt) \notin Preparing
        /\ recovery.pc = "enqueue" => \A a \in recovery.todo : Checkpoint(a) \in Preparing

CalmInv == RecoveryCalm /\ \A a \in Attempts : AttemptInv(a)

(* The calls of a go on as they were, except for a page that is gone. *)
CallsStay(a) ==
    \A c \in Calls : InFlight(c)' /\ sub'[c].attempt = a =>
        /\ InFlight(c) /\ sub[c].attempt = a
        /\ sub'[c].pc = sub[c].pc /\ sub'[c].accepted = sub[c].accepted
        /\ sub'[c].view => sub[c].view

LEMMA Undisturbed ==
    ASSUME NEW a \in Attempts, AttemptInv(a), att'[a] = att[a], live'[a] = live[a],
           Stage(a)' = Stage(a), sent'[a] = sent[a], CallsStay(a)
    PROVE  AttemptInv(a)'
<1>1. Checkpoint(a)' = Checkpoint(a) /\ Undone(a)' = Undone(a)
  BY DEF Checkpoint, Undone
<1>2. RunInv(a)' /\ SentInv(a)' /\ HeldInv(a)'
  BY <1>1 DEF AttemptInv, RunInv, SentInv, HeldInv
<1>3. PackageInv(a)'
  BY <1>1 DEF AttemptInv, PackageInv
<1>4. CallInv(a)'
  BY <1>1 DEF AttemptInv, CallInv, CallsStay
<1>5. QED
  BY <1>2, <1>3, <1>4 DEF AttemptInv

LEMMA BlindCallsStay ==
    ASSUME BaseInv, NEW b, sub' = sub \/ sub' = Blind(sub, b), NEW a
    PROVE  /\ CallsStay(a)
           /\ sub' = Blind(sub, a) =>
                 \A c \in Calls : InFlight(c)' /\ sub'[c].attempt = a => ~sub'[c].view
<1>1. SubType
  BY DEF BaseInv, SubInv
<1>2. \A c \in Calls : /\ sub'[c].pc = sub[c].pc /\ sub'[c].attempt = sub[c].attempt
                       /\ sub'[c].accepted = sub[c].accepted
                       /\ sub'[c].view => sub[c].view
  BY <1>1, BlindCalls
<1>3. CallsStay(a)
  BY <1>2 DEF CallsStay, InFlight
<1>4. sub' = Blind(sub, a) => \A c \in Calls : sub[c].attempt = a => ~sub'[c].view
  BY <1>1, BlindCalls
<1>5. QED
  BY <1>2, <1>3, <1>4

(* A run under way has no page of a submission beside it, nothing is sent,  *)
(* and the package is empty.                                                *)
LEMMA UndoneFacts ==
    ASSUME BaseInv, NEW a \in Attempts, AttemptInv(a), Undone(a)
    PROVE  /\ sent[a] = 0
           /\ att[a].fields = 0 /\ att[a].held.fields = 0
           /\ \A c \in Calls : InFlight(c) /\ sub[c].attempt = a => ~sub[c].view
<1>1. sent[a] \in Nat
  BY DEF BaseInv, RestType
<1>2. QED
  BY <1>1 DEF AttemptInv, SentInv, PackageInv, CallInv

LEMMA RunKeepsAttempt ==
    ASSUME BaseInv, NEW a \in Attempts, AttemptInv(a), NEW g \in Gens, RunNext(g)
    PROVE  AttemptInv(a)'
<1>1. RunMoves(g) /\ run[g].pc \notin {"none", "done"}
  BY RunNextMoves
<1>2. /\ UNCHANGED <<live, worker, enqueuing, sent>>
      /\ sub' = sub \/ sub' = Blind(sub, Of(g))
  BY RunFrame
<1>3. /\ Of(g) \in Attempts /\ g # 0
      /\ live[a] = g => a = Of(g) /\ IsLive(g)
  BY <1>1, RunAtWork
<1>4. CallsStay(a)
  BY <1>2, BlindCallsStay
<1>5. CASE ~(a = Of(g) /\ IsLive(g))
  <2>1. att'[a] = att[a]
    BY <1>1, <1>5 DEF RunMoves
  <2>2. Stage(a)' = Stage(a)
    <3>1. live[a] # 0 => live[a] \in Gens /\ live[a] # g
      BY <1>3, <1>5 DEF BaseInv, WorkerInv
    <3>2. live[a] # 0 => run'[live[a]].pc = run[live[a]].pc
      BY <1>1, <3>1 DEF RunMoves
    <3>3. QED
      BY <1>2, <3>2 DEF Stage
  <2>3. QED
    BY <1>2, <1>4, <2>1, <2>2, Undisturbed
<1>6. CASE a = Of(g) /\ IsLive(g)
  <2>1. live[a] = g /\ Stage(a) = run[g].pc /\ Stage(a)' = run'[g].pc /\ Undone(a)
    BY <1>1, <1>2, <1>3, <1>6 DEF IsLive, Stage, Undone
  <2>2. Moves(Stage(a), Stage(a)', att[a], att'[a], g)
    BY <1>1, <1>6, <2>1 DEF RunMoves
  <2>3. /\ sent'[a] = 0 /\ att[a].fields = 0 /\ att[a].held.fields = 0
        /\ \A c \in Calls : InFlight(c)' /\ sub'[c].attempt = a => ~sub'[c].view
    BY <1>2, <1>4, <2>1, UndoneFacts DEF CallsStay
  <2>4. SentInv(a)' /\ CallInv(a)'
    BY <2>3 DEF SentInv, CallInv
  <2>5. HeldInv(a)'
    <3>1. att'[a].held = att[a].held
      BY <2>2 DEF Moves, Same
    <3>2. QED
      BY <3>1 DEF AttemptInv, HeldInv
  <2>6. RunInv(a)'
    <3>1. \/ Checkpoint(a) \in Preparing \union Sent
          \/ Stage(a) \in Early /\ Checkpoint(a) \in {"none", "queued", "failed", "skipped"}
      BY <2>1 DEF AttemptInv, RunInv
    <3>2. "filling" \in Preparing
      BY DEF Preparing
    <3>3. QED
      BY <2>2, <3>1, <3>2 DEF RunInv, Undone, Checkpoint, Moves, Same, Early, Middle, Late
  <2>7. PackageInv(a)'
    <3>1. Stage(a) \in Late => att[a].docs = g
      BY <2>1 DEF AttemptInv, PackageInv
    <3>2. /\ att'[a].held.fields = 0
          /\ att'[a].fields \in {0, att'[a].docs}
          /\ att'[a].fields # 0 => Stage(a)' = "done"
                                   /\ Checkpoint(a)' \in {"needs_user", "ready", "failed"}
      BY <2>2, <2>3, <3>1 DEF Moves, Same, Checkpoint
    <3>3. Stage(a)' \in Late => att'[a].docs = g
      BY <2>2, <3>1 DEF Moves, Same, Early, Middle, Late
    <3>4. QED
      BY <1>2, <2>1, <3>2, <3>3 DEF PackageInv, Undone, Preparing
  <2>8. QED
    BY <2>4, <2>5, <2>6, <2>7 DEF AttemptInv
<1>7. QED
  BY <1>5, <1>6

(* A step that leaves runs and fence alone leaves every stage. *)
LEMMA StagesStay ==
    ASSUME BaseInv, RunsStay, live' = live, NEW a \in Attempts
    PROVE  Stage(a)' = Stage(a) /\ Undone(a)' = Undone(a)
<1>1. live[a] # 0 => live[a] \in Gens
  BY DEF BaseInv, WorkerInv
<1>2. QED
  BY <1>1 DEF RunsStay, Stage, Undone

LEMMA UserFrame ==
    ASSUME BaseInv, NEW b \in Attempts, UserNext(b)
    PROVE  /\ RunsStay
           /\ UNCHANGED <<live, worker, recovery, recoveryDue, faults>>
           /\ sub' = sub \/ sub' = Blind(sub, b)
           /\ \/ sent' = sent
              \/ /\ att[b].checkpoint \in {"ready", "needs_user"} /\ b \notin Supported
                 /\ att'[b].checkpoint = "user_reported"
                 /\ sent' = [sent EXCEPT ![b] = @ + 1]
<1>1. /\ UNCHANGED <<live, worker, recovery, recoveryDue, faults>>
      /\ sub' = sub \/ sub' = Blind(sub, b)
      /\ run' = run \/ run' = Blind(run, b)
      /\ sent' = sent \/ UserReports(b)
  BY DEF UserNext, StartAttempt, EnqueueAnswered, EnqueueFails, OpenReview, UserCloses,
         ShowHandoff, Schedule, CancelSchedule, UserReports, UserSkips, ReconcileOutcome,
         Resume, PostingHold, PostingRelease, UserQueues, SubSent, RowOnly, CloseReview,
         runVars, reviewVars, recoveryVars
<1>2. RunsStay
  BY <1>1, BlindRuns DEF BaseInv
<1>3. CASE UserReports(b)
  <2>1. /\ att[b].checkpoint \in {"ready", "needs_user"} /\ b \notin Supported
        /\ att' = Moved(b, "user_reported", "")
        /\ sent' = [sent EXCEPT ![b] = @ + 1]
    BY <1>3 DEF UserReports, Checkpoint
  <2>2. RowType /\ "user_reported" \in Checkpoints /\ "" \in Notes
    BY CheckpointFacts DEF BaseInv
  <2>3. att'[b].checkpoint = "user_reported"
    BY <2>1, <2>2, MovedRow
  <2>4. QED
    BY <1>1, <1>2, <2>1, <2>3
<1>4. QED
  BY <1>1, <1>2, <1>3

LEMMA UserKeepsAttempt ==
    ASSUME BaseInv, Calm, NEW a \in Attempts, AttemptInv(a), NEW b \in Attempts, UserNext(b)
    PROVE  AttemptInv(a)'
<1>1. OneRow(b) /\ UserRow(b, att[b], att'[b])
  BY UserWritesRow
<1>2. /\ RunsStay /\ live' = live /\ (sub' = sub \/ sub' = Blind(sub, b))
      /\ \/ sent' = sent
         \/ /\ att[b].checkpoint \in {"ready", "needs_user"} /\ b \notin Supported
            /\ att'[b].checkpoint = "user_reported"
            /\ sent' = [sent EXCEPT ![b] = @ + 1]
  BY UserFrame
<1>3. Stage(a)' = Stage(a) /\ Undone(a)' = Undone(a)
  BY <1>2, StagesStay
<1>4. CallsStay(a)
  BY <1>2, BlindCallsStay
<1>5. CASE a # b
  <2>1. att'[a] = att[a] /\ sent'[a] = sent[a]
    BY <1>1, <1>2, <1>5 DEF OneRow, BaseInv, RestType
  <2>2. QED
    BY <1>2, <1>3, <1>4, <2>1, Undisturbed
<1>6. CASE a = b
  <2>1. UserRow(a, att[a], att'[a]) /\ "eager" \notin Events
    BY <1>1, <1>6 DEF Calm
  <2>2. /\ sent[a] \in Nat
        /\ \/ sent'[a] = sent[a]
           \/ /\ att[a].checkpoint \in {"ready", "needs_user"} /\ a \notin Supported
              /\ att'[a].checkpoint = "user_reported"
    BY <1>2, <1>6 DEF BaseInv, RestType
  <2>3. sub' = Blind(sub, a) =>
           \A c \in Calls : InFlight(c)' /\ sub'[c].attempt = a => ~sub'[c].view
    BY <1>2, BlindCallsStay
  <2>4. HeldInv(a)'
    BY <2>1 DEF AttemptInv, HeldInv, UserRow, Same, NoHold
  <2>5. SentInv(a)'
    <3>1. sent[a] > 0 => att[a].checkpoint \in Sent /\ ~Undone(a)
      BY DEF AttemptInv, SentInv, Checkpoint
    <3>2. att[a].checkpoint \in Sent => att'[a].checkpoint \in Sent
      BY <2>1 DEF UserRow, Sent, Completed
    <3>3. att'[a].checkpoint = "user_reported" => att'[a].checkpoint \in Sent
      BY DEF Sent, Completed
    <3>4. att[a].checkpoint \in {"ready", "needs_user"} => ~Undone(a)
      BY DEF AttemptInv, RunInv, Checkpoint, Preparing, Sent, Completed
    <3>5. QED
      BY <1>3, <2>2, <3>1, <3>2, <3>3, <3>4 DEF SentInv, Checkpoint
  <2>6. RunInv(a)'
    BY <1>3, <2>1
    DEF AttemptInv, RunInv, HeldInv, UserRow, Checkpoint, Preparing, Sent, Completed
  <2>7. PackageInv(a)'
    <3>1. /\ att[a].fields \in {0, att[a].docs}
          /\ att[a].held.fields \in {0, att[a].docs}
          /\ att[a].checkpoint \in {"none", "queued"} \union Preparing \/ Undone(a) =>
                att[a].fields = 0 /\ att[a].held.fields = 0
          /\ Stage(a) \in Late => att[a].docs = live[a]
      BY DEF AttemptInv, PackageInv, Checkpoint
    <3>2. NoHold.fields = 0 /\ NoHold.checkpoint = "none"
      BY HoldFacts
    <3>3. /\ att'[a].fields \in {0, att'[a].docs}
          /\ att'[a].held.fields \in {0, att'[a].docs}
      BY <2>1, <3>1, <3>2 DEF UserRow, Same
    <3>4. Undone(a) => att'[a].fields = 0 /\ att'[a].held.fields = 0
      BY <2>1, <3>1, <3>2 DEF UserRow, Same
    <3>5. att'[a].checkpoint \in {"none", "queued"} \union Preparing =>
             att'[a].fields = 0 /\ att'[a].held.fields = 0
      BY <2>1, <3>1, <3>2 DEF UserRow, Same, Preparing, AttemptInv, HeldInv
    <3>6. Stage(a) \in Late => att'[a].docs = att[a].docs
      <4>1. Stage(a) \in Late => att[a].checkpoint \in Preparing \union Sent
        BY DEF AttemptInv, RunInv, Undone, Late, Early, Checkpoint
      <4>2. QED
        BY <2>1, <4>1 DEF UserRow, Same, Preparing, Sent, Completed
    <3>7. QED
      BY <1>2, <1>3, <3>1, <3>3, <3>4, <3>5, <3>6 DEF PackageInv, Checkpoint
  <2>8. CallInv(a)'
    <3>1. SUFFICES ASSUME NEW c \in Calls, InFlight(c)', sub'[c].attempt = a
                   PROVE  /\ sub'[c].view => Checkpoint(a)' \in SettledCheckpoints /\ ~Undone(a)'
                          /\ sub'[c].pc \in {"gate", "click"} => sent'[a] = 0
                          /\ sub'[c].pc = "observe" /\ ~sub'[c].accepted => sent'[a] = 0
                          /\ sub'[c].pc \in {"click", "observe"} /\ sub'[c].view =>
                                Checkpoint(a)' \in Sent
      BY DEF CallInv
    <3>2. /\ InFlight(c) /\ sub[c].attempt = a
          /\ sub'[c].pc = sub[c].pc /\ sub'[c].accepted = sub[c].accepted
          /\ sub'[c].view => sub[c].view
      BY <1>4, <3>1 DEF CallsStay
    <3>3. a \in Supported
      BY <3>2 DEF BaseInv, SupportInv, InFlight
    <3>4. sent'[a] = sent[a]
      BY <2>2, <3>3
    <3>5. /\ sub[c].view => att[a].checkpoint \in SettledCheckpoints /\ ~Undone(a)
          /\ sub[c].pc \in {"gate", "click"} => sent[a] = 0
          /\ sub[c].pc = "observe" /\ ~sub[c].accepted => sent[a] = 0
          /\ sub[c].pc \in {"click", "observe"} /\ sub[c].view => att[a].checkpoint \in Sent
      BY <3>2 DEF AttemptInv, CallInv, Checkpoint
    <3>6. sub'[c].view => att'[a].checkpoint \in SettledCheckpoints
      <4>1. CASE sub' = Blind(sub, a)
        BY <2>3, <3>1, <4>1
      <4>2. CASE sub' # Blind(sub, a)
        <5>1. SettledCheckpoints = {"ready", "submitting", "needs_user", "skipped", "failed",
                                    "submitted", "user_reported", "submission_unknown"}
          BY CheckpointFacts
        <5>2. QED
          BY <2>1, <3>2, <3>5, <4>2, <5>1 DEF UserRow, AttemptInv, HeldInv
      <4>3. QED
        BY <4>1, <4>2
    <3>7. att[a].checkpoint \in Sent => att'[a].checkpoint \in Sent
      BY <2>1 DEF UserRow, Sent, Completed
    <3>8. QED
      BY <1>3, <3>2, <3>4, <3>5, <3>6, <3>7 DEF Checkpoint
  <2>9. QED
    BY <2>4, <2>5, <2>6, <2>7, <2>8 DEF AttemptInv
<1>7. QED
  BY <1>5, <1>6

LEMMA CallBecame ==
    ASSUME SubType, NEW c \in Calls, NEW r, CallBecomes(c, r)
    PROVE  sub'[c] = r /\ \A d \in Calls : d # c => sub'[d] = sub[d]
BY DEF SubType, CallBecomes

(* The same facts as CallMoves and CallWrites, about the new call itself. *)
CallMoved(c, a) ==
    \/ sub' = sub
    \/ sub'[c].pc \in {"due", "done"}
    \/ /\ sub'[c].pc \in {"snap", "gate"} /\ sub'[c].attempt = a
       /\ MayBegin(a) /\ (sub'[c].pc = "gate" => Checkpoint(a) \notin Sent)
    \/ /\ sub'[c].pc = "gate" /\ sub'[c].attempt = a /\ sub[c].attempt = a
       /\ sub[c].pc = "snap" /\ Checkpoint(a) \notin Sent /\ sub'[c].view = sub[c].view

CallWrote(c, a) ==
    \/ /\ sub[c].pc = "gate" /\ att'[a].checkpoint = "submitting" /\ Unsent
       /\ sub'[c].pc = "click" /\ sub'[c].attempt = a /\ sub'[c].view = sub[c].view
    \/ /\ sub[c].pc = "click" /\ sub[c].view /\ att'[a].checkpoint = "ready" /\ Unsent
       /\ sub'[c].pc = "done"
    \/ /\ sub[c].pc = "click" /\ sub[c].view /\ att'[a].checkpoint = att[a].checkpoint
       /\ sub'[c].pc = "observe" /\ sub'[c].attempt = a /\ sub'[c].view = sub[c].view
       /\ (IF sub'[c].accepted THEN SentOnce(a) ELSE Unsent)
    \/ /\ sub[c].pc = "click" /\ att'[a].checkpoint = "submission_unknown"
       /\ (Unsent \/ (sub[c].view /\ SentOnce(a))) /\ sub'[c].pc = "done"
    \/ /\ sub[c].pc = "observe" /\ sub[c].view /\ ~sub[c].accepted
       /\ att'[a].checkpoint = "needs_user" /\ Unsent /\ sub'[c].pc = "done"
    \/ /\ sub[c].pc = "observe" /\ Unsent /\ sub'[c].pc = "done"
       /\ att'[a].checkpoint \in {"submitted", "submission_unknown"}

LEMMA CallMovesFacts ==
    ASSUME SubType, NEW c \in Calls, NEW a, CallMoves(c, a)
    PROVE  CallMoved(c, a) /\ \A d \in Calls : d # c => sub'[d] = sub[d]
<1>1. CASE sub' = sub
  BY <1>1 DEF CallMoved
<1>2. ASSUME NEW r, CallBecomes(c, r),
             \/ r.pc \in {"due", "done"}
             \/ r.pc \in {"snap", "gate"} /\ r.attempt = a /\ MayBegin(a)
                /\ (r.pc = "gate" => Checkpoint(a) \notin Sent)
             \/ r.pc = "gate" /\ r.attempt = a /\ sub[c].attempt = a
                /\ sub[c].pc = "snap" /\ Checkpoint(a) \notin Sent /\ r.view = sub[c].view
      PROVE  CallMoved(c, a) /\ \A d \in Calls : d # c => sub'[d] = sub[d]
  <2>1. sub'[c] = r /\ \A d \in Calls : d # c => sub'[d] = sub[d]
    BY <1>2, CallBecame
  <2>2. QED
    BY <1>2, <2>1 DEF CallMoved
<1>3. QED
  BY <1>1, <1>2, Zenon DEF CallMoves

LEMMA CallWritesFacts ==
    ASSUME SubType, NEW c \in Calls, NEW a, CallWrites(c, a)
    PROVE  CallWrote(c, a) /\ \A d \in Calls : d # c => sub'[d] = sub[d]
<1>1. PICK r : CallBecomes(c, r) /\ (\/ r = SpentSub
                                     \/ r.pc \in {"click", "observe"})
  BY Zenon DEF CallWrites
<1>2. \A q : CallBecomes(c, q) => sub'[c] = q
  BY CallBecame
<1>3. \A d \in Calls : d # c => sub'[d] = sub[d]
  BY <1>1, CallBecame
<1>4. SpentSub.pc = "done"
  BY SpentFacts
<1>5. CASE sub[c].pc = "gate"
  <2>1. att'[a].checkpoint = "submitting" /\ Unsent
    BY <1>5 DEF CallWrites
  <2>2. PICK q : CallBecomes(c, q) /\ q.pc = "click" /\ q.attempt = a /\ q.view = sub[c].view
    BY <1>5 DEF CallWrites
  <2>3. QED
    BY <1>2, <1>3, <1>5, <2>1, <2>2 DEF CallWrote
<1>6. CASE sub[c].pc = "click"
  <2>1. CASE /\ sub[c].view /\ att'[a].checkpoint = "ready" /\ Unsent
             /\ CallBecomes(c, SpentSub)
    BY <1>2, <1>3, <1>4, <1>6, <2>1 DEF CallWrote
  <2>2. ASSUME sub[c].view, att'[a].checkpoint = att[a].checkpoint,
               NEW q, CallBecomes(c, q), q.pc = "observe", q.attempt = a,
               q.view = sub[c].view, IF q.accepted THEN SentOnce(a) ELSE Unsent
        PROVE  CallWrote(c, a)
    <3>1. sub'[c] = q
      BY <1>2, <2>2
    <3>2. QED
      BY <1>6, <2>2, <3>1 DEF CallWrote
  <2>3. CASE /\ att'[a].checkpoint = "submission_unknown"
             /\ (Unsent \/ (sub[c].view /\ SentOnce(a)))
             /\ CallBecomes(c, SpentSub)
    BY <1>2, <1>3, <1>4, <1>6, <2>3 DEF CallWrote
  <2>4. QED
    BY <1>3, <1>6, <2>1, <2>2, <2>3 DEF CallWrites
<1>7. CASE sub[c].pc = "observe"
  BY <1>2, <1>3, <1>4, <1>7 DEF CallWrites, CallWrote
<1>8. QED
  BY <1>5, <1>6, <1>7 DEF CallWrites

LEMMA SubmitFrame ==
    ASSUME BaseInv, NEW c \in Calls, SubmitNext(c)
    PROVE  /\ UNCHANGED <<queueVars, live, run, worker, enqueuing, review, handoff>>
           /\ UNCHANGED <<recovery, recoveryDue, faults>>
           /\ RunsStay
<1>1. /\ UNCHANGED <<queueVars, live, run, worker, enqueuing, review, handoff>>
      /\ UNCHANGED <<recovery, recoveryDue, faults>>
  BY DEF SubmitNext, SubmitBegins, Fire, AutomaticBegins, SubmitLooks, SubmitGates,
         SubmitClicks, SubmitObserves, SubKeeps, runVars, recoveryVars
<1>2. RunsStay
  BY <1>1, BlindRuns DEF BaseInv
<1>3. QED
  BY <1>1, <1>2

LEMMA SubmitKeepsAttempt ==
    ASSUME BaseInv, Calm, NEW a \in Attempts, AttemptInv(a), NEW c \in Calls, SubmitNext(c)
    PROVE  AttemptInv(a)'
<1>1. PICK b \in Attempts : CallMoves(c, b) \/ CallWrites(c, b)
  BY SubmitMoves
<1>2. live' = live /\ RunsStay
  BY SubmitFrame
<1>3. Stage(a)' = Stage(a) /\ Undone(a)' = Undone(a) /\ live'[a] = live[a]
  BY <1>2, StagesStay
<1>4. SubType /\ SubmitsAreExclusive /\ sent \in [Attempts -> Nat]
  BY DEF BaseInv, SubInv, RestType
<1>5. CASE CallMoves(c, b)
  <2>1. /\ OneRow(b) /\ att'[b].checkpoint = att[b].checkpoint /\ Same(att[b], att'[b])
        /\ sent' = sent
    BY <1>5 DEF CallMoves, Unsent
  <2>2. CallMoved(c, b) /\ \A d \in Calls : d # c => sub'[d] = sub[d]
    BY <1>4, <1>5, CallMovesFacts
  <2>3. CASE a # b
    <3>1. att'[a] = att[a]
      BY <2>1, <2>3 DEF OneRow
    <3>2. CallsStay(a)
      BY <2>2, <2>3 DEF CallsStay, CallMoved, InFlight
    <3>3. QED
      BY <1>3, <2>1, <3>1, <3>2, Undisturbed
  <2>4. CASE a = b
    <3>1. /\ Checkpoint(a)' = Checkpoint(a) /\ att'[a].docs = att[a].docs
          /\ att'[a].fields = att[a].fields /\ att'[a].held = att[a].held
      BY <2>1, <2>4 DEF Checkpoint, Same
    <3>2. RunInv(a)' /\ SentInv(a)' /\ HeldInv(a)' /\ PackageInv(a)'
      BY <1>3, <2>1, <3>1 DEF AttemptInv, RunInv, SentInv, HeldInv, PackageInv
    <3>3. MayBegin(a) => Checkpoint(a) \in SettledCheckpoints /\ ~Undone(a)
      BY DEF MayBegin, AtRest, Calm, Undone, Stage
    <3>4. Checkpoint(a) \notin Sent => sent[a] = 0
      BY <1>4 DEF AttemptInv, SentInv
    <3>5. SUFFICES ASSUME NEW d \in Calls, InFlight(d)', sub'[d].attempt = a
                   PROVE  /\ sub'[d].view => Checkpoint(a) \in SettledCheckpoints /\ ~Undone(a)
                          /\ sub'[d].pc \in {"gate", "click"} => sent[a] = 0
                          /\ sub'[d].pc = "observe" /\ ~sub'[d].accepted => sent[a] = 0
                          /\ sub'[d].pc \in {"click", "observe"} /\ sub'[d].view =>
                                Checkpoint(a) \in Sent
      BY <1>3, <2>1, <3>1, <3>2 DEF AttemptInv, CallInv
    <3>6. CASE sub'[d] = sub[d]
      BY <3>5, <3>6 DEF AttemptInv, CallInv, InFlight
    <3>7. CASE d = c /\ sub' # sub
      BY <2>2, <2>4, <3>3, <3>4, <3>5, <3>7 DEF CallMoved, InFlight, AttemptInv, CallInv
    <3>8. QED
      BY <2>2, <3>6, <3>7
  <2>5. QED
    BY <2>3, <2>4
<1>6. CASE CallWrites(c, b)
  <2>1. OneRow(b) /\ Same(att[b], att'[b]) /\ sub[c].attempt = b
        /\ sub[c].pc \in {"gate", "click", "observe"}
    BY <1>6 DEF CallWrites
  <2>2. CallWrote(c, b) /\ \A d \in Calls : d # c => sub'[d] = sub[d]
    BY <1>4, <1>6, CallWritesFacts
  <2>3. CASE a # b
    <3>1. att'[a] = att[a] /\ sent'[a] = sent[a]
      BY <1>4, <2>1, <2>2, <2>3 DEF OneRow, CallWrote, Unsent, SentOnce
    <3>2. CallsStay(a)
      BY <2>2, <2>3 DEF CallsStay, CallWrote, InFlight
    <3>3. QED
      BY <1>3, <3>1, <3>2, Undisturbed
  <2>4. CASE a = b
    <3>1. InFlight(c) /\ \A d \in Calls : d # c /\ InFlight(d)' => sub'[d].attempt # a
      BY <1>4, <2>1, <2>2, <2>4 DEF SubmitsAreExclusive, InFlight
    <3>2. /\ att'[a].docs = att[a].docs /\ att'[a].fields = att[a].fields
          /\ att'[a].held = att[a].held
      BY <2>1, <2>4 DEF Same
    <3>3. /\ sub[c].view => Checkpoint(a) \in SettledCheckpoints /\ ~Undone(a)
          /\ sub[c].pc \in {"gate", "click"} => sent[a] = 0
          /\ sub[c].pc = "observe" /\ ~sub[c].accepted => sent[a] = 0
          /\ sub[c].pc \in {"click", "observe"} /\ sub[c].view => Checkpoint(a) \in Sent
      BY <2>1, <2>4, <3>1 DEF AttemptInv, CallInv
    <3>4. \/ att'[a].checkpoint \in Sent
          \/ att'[a].checkpoint \in {"ready", "needs_user"} /\ sub[c].view /\ Unsent /\ sent[a] = 0
      BY <2>2, <2>4, <3>3 DEF CallWrote, Checkpoint, Sent, Completed
    <3>5. sent'[a] > 0 => sub[c].view \/ sent[a] > 0
      BY <1>4, <2>2, <2>4 DEF CallWrote, Unsent, SentOnce
    <3>6. HeldInv(a)'
      BY <3>2 DEF AttemptInv, HeldInv
    <3>7. RunInv(a)'
      BY <1>3, <3>3, <3>4 DEF RunInv, Checkpoint
    <3>8. SentInv(a)'
      <4>1. sent[a] > 0 => ~Undone(a)
        BY DEF AttemptInv, SentInv
      <4>2. sent'[a] > 0 => att'[a].checkpoint \in Sent
        BY <1>4, <3>4 DEF Unsent
      <4>3. QED
        BY <1>3, <3>3, <3>5, <4>1, <4>2 DEF SentInv, Checkpoint
    <3>9. PackageInv(a)'
      <4>1. Checkpoint(a)' \notin {"none", "queued"} \union Preparing
        BY <3>4 DEF Checkpoint, Preparing, Sent, Completed
      <4>2. QED
        BY <1>3, <3>2, <4>1 DEF AttemptInv, PackageInv
    <3>10. CallInv(a)'
      <4>1. SUFFICES ASSUME InFlight(c)', sub'[c].attempt = a
                     PROVE  /\ sub'[c].view =>
                                 Checkpoint(a)' \in SettledCheckpoints /\ ~Undone(a)'
                            /\ sub'[c].pc \in {"gate", "click"} => sent'[a] = 0
                            /\ sub'[c].pc = "observe" /\ ~sub'[c].accepted => sent'[a] = 0
                            /\ sub'[c].pc \in {"click", "observe"} /\ sub'[c].view =>
                                  Checkpoint(a)' \in Sent
        BY <3>1 DEF CallInv
      <4>2. att'[a].checkpoint \in Sent => att'[a].checkpoint \in SettledCheckpoints
        BY CheckpointFacts
      <4>3. \/ /\ sub[c].pc = "gate" /\ att'[a].checkpoint = "submitting" /\ Unsent
               /\ sub'[c].pc = "click" /\ sub'[c].view = sub[c].view
            \/ /\ sub[c].pc = "click" /\ sub[c].view
               /\ att'[a].checkpoint = att[a].checkpoint
               /\ sub'[c].pc = "observe" /\ sub'[c].view = sub[c].view
               /\ (sub'[c].accepted \/ Unsent)
        BY <2>2, <2>4, <4>1 DEF CallWrote, InFlight
      <4>4. "submitting" \in Sent
        BY DEF Sent
      <4>5. QED
        BY <1>3, <3>3, <4>2, <4>3, <4>4 DEF Checkpoint, Unsent
    <3>11. QED
      BY <3>6, <3>7, <3>8, <3>9, <3>10 DEF AttemptInv
  <2>5. QED
    BY <2>3, <2>4
<1>7. QED
  BY <1>1, <1>5, <1>6

(* A run that ends, by whatever way, leaves its attempt in order. *)
LEMMA RunEnds ==
    ASSUME NEW a \in Attempts, AttemptInv(a), att'[a] = att[a], Stage(a)' = "done",
           sent'[a] = sent[a], CallsStay(a)
    PROVE  AttemptInv(a)'
<1>1. Checkpoint(a)' = Checkpoint(a) /\ ~Undone(a)'
  BY DEF Checkpoint, Undone
<1>2. RunInv(a)' /\ SentInv(a)' /\ HeldInv(a)'
  BY <1>1 DEF AttemptInv, RunInv, SentInv, HeldInv
<1>3. PackageInv(a)'
  BY <1>1 DEF AttemptInv, PackageInv, Late
<1>4. CallInv(a)'
  BY <1>1 DEF AttemptInv, CallInv, CallsStay
<1>5. QED
  BY <1>2, <1>3, <1>4 DEF AttemptInv

LEMMA WorkerKeepsAttempt ==
    ASSUME BaseInv, BaseInv', NEW a \in Attempts, AttemptInv(a), WorkerNext
    PROVE  AttemptInv(a)'
<1>1. att' = att /\ sent' = sent
  BY DEF WorkerNext, WorkerAcquires, WorkerLosesLease, WorkerSettles, WorkerAbandons,
         WorkerReleases, WorkerReleaseLost, WorkerKeeps
<1>2. ASSUME worker'.pc # "running", sub' = sub \/ (\E b : sub' = Blind(sub, b))
      PROVE  AttemptInv(a)'
  <2>1. live'[a] = 0
    BY <1>2 DEF BaseInv, WorkerInv
  <2>2. CallsStay(a)
    BY <1>2, BlindCallsStay
  <2>3. QED
    BY <1>1, <2>1, <2>2, RunEnds DEF Stage
<1>3. CASE WorkerSettles \/ WorkerAbandons
  <2>1. worker'.pc = "releasing"
    BY <1>3 DEF WorkerSettles, WorkerAbandons, BaseInv, RestType, WorkerRecord
  <2>2. sub' = sub \/ (\E b : sub' = Blind(sub, b))
    BY <1>3 DEF WorkerSettles, WorkerAbandons, CloseReview, reviewVars
  <2>3. QED
    BY <1>2, <2>1, <2>2
<1>4. CASE WorkerReleases \/ WorkerReleaseLost
  <2>1. worker' = Idle /\ sub' = sub
    BY <1>4 DEF WorkerReleases, WorkerReleaseLost, reviewVars
  <2>2. worker'.pc # "running"
    BY <2>1 DEF Idle
  <2>3. QED
    BY <1>2, <2>1, <2>2
<1>5. CASE \E b \in Attempts : WorkerLosesLease(b)
  <2>1. UNCHANGED <<live, run, sub>>
    BY <1>5 DEF WorkerLosesLease, runVars, reviewVars
  <2>2. CallsStay(a) /\ Stage(a)' = Stage(a)
    BY <2>1, BlindCallsStay DEF Stage
  <2>3. QED
    BY <1>1, <2>1, <2>2, Undisturbed
<1>6. ASSUME NEW b \in Attempts, NEW g \in Gens, WorkerAcquires(b, g)
      PROVE  AttemptInv(a)'
  <2>1. /\ worker.pc = "idle" /\ live' = [live EXCEPT ![b] = g] /\ sub' = sub
        /\ run' = [run EXCEPT ![g] = IF Checkpoint(b) \in SettledCheckpoints
             THEN [NoRun EXCEPT !.attempt = b, !.pc = "done", !.outcome = "completed"]
             ELSE [NoRun EXCEPT !.attempt = b, !.pc = "ask"]]
    BY <1>6 DEF WorkerAcquires, reviewVars
  <2>2. run'[g].pc = IF Checkpoint(b) \in SettledCheckpoints THEN "done" ELSE "ask"
    BY <2>1 DEF BaseInv, RunType, NoRun
  <2>3. live[a] = 0 /\ ~Undone(a) /\ g # 0
    BY <2>1, BoundsAssumption DEF BaseInv, WorkerInv, Undone, Stage, Gens
  <2>4. CallsStay(a)
    BY <2>1, BlindCallsStay
  <2>5. live \in [Attempts -> 0 .. MaxRuns]
    BY DEF BaseInv, RestType
  <2>6. CASE a # b \/ Checkpoint(a) \in SettledCheckpoints
    <3>1. Stage(a)' = "done"
      BY <2>1, <2>2, <2>3, <2>5, <2>6 DEF Stage
    <3>2. QED
      BY <1>1, <2>4, <3>1, RunEnds
  <2>7. CASE a = b /\ Checkpoint(a) \notin SettledCheckpoints
    <3>1. Stage(a)' = "ask" /\ Checkpoint(a)' = Checkpoint(a)
      BY <1>1, <2>1, <2>2, <2>3, <2>5, <2>7 DEF Stage, Checkpoint
    <3>2. Checkpoint(a) \in {"none", "queued"} \union Preparing
      BY <2>7 DEF BaseInv, RowType, Row, Checkpoint, SettledCheckpoints
    <3>3. Checkpoint(a) \notin Sent
      BY <2>7, CheckpointFacts
    <3>4. RunInv(a)' /\ SentInv(a)' /\ HeldInv(a)'
      BY <1>1, <3>1, <3>2, <3>3 DEF AttemptInv, RunInv, SentInv, HeldInv, Early
    <3>5. PackageInv(a)'
      BY <1>1, <3>1, <3>2 DEF AttemptInv, PackageInv, Late
    <3>6. CallInv(a)'
      BY <1>1, <2>4, <2>7, <3>1, <3>3 DEF AttemptInv, CallInv, CallsStay
    <3>7. QED
      BY <3>4, <3>5, <3>6 DEF AttemptInv
  <2>8. QED
    BY <2>6, <2>7
<1>7. QED
  BY <1>3, <1>4, <1>5, <1>6 DEF WorkerNext

(* The recovery changes rows of attempts no run is working on. *)
LEMMA RecoverKeepsAttempt ==
    ASSUME BaseInv, CalmInv, NEW list, NEW todo, todo \subseteq Attempts,
           recoveryDue \/ recovery.pc # "idle",
           \A b \in todo : Checkpoint(b) \in Preparing,
           RecoverNext(list, todo), UNCHANGED <<live, run, sub, sent>>, NEW a \in Attempts
    PROVE  AttemptInv(a)'
<1>1. live[a] = 0 /\ ~Undone(a) /\ Stage(a) = "done" /\ Stage(a)' = "done" /\ ~Undone(a)'
  BY DEF CalmInv, RecoveryCalm, BaseInv, WorkerInv, Undone, Stage
<1>2. AttemptInv(a) /\ CallsStay(a) /\ sent[a] \in Nat
  BY BlindCallsStay DEF CalmInv, BaseInv, RestType
<1>3. \/ \E b \in todo : RecoverPuts(list, todo, b)
      \/ todo = {} /\ RecoverWritesOff(list)
  BY RecoverMoves DEF BaseInv
<1>4. CASE att'[a] = att[a]
  BY <1>1, <1>2, <1>4, RunEnds
<1>5. CASE RecoverPuts(list, todo, a) /\ a \in todo
  <2>1. /\ att'[a].checkpoint = "queued" /\ att'[a].docs = att[a].docs
        /\ att'[a].fields = 0 /\ att'[a].held = att[a].held
    BY <1>5 DEF RecoverPuts
  <2>2. Checkpoint(a) \in Preparing /\ Checkpoint(a) \notin Sent
        /\ Checkpoint(a) \notin SettledCheckpoints
    BY <1>5, CheckpointFacts
  <2>3. sent[a] = 0
    BY <1>2, <2>2 DEF AttemptInv, SentInv
  <2>4. RunInv(a)' /\ SentInv(a)' /\ HeldInv(a)'
    BY <1>1, <1>2, <2>1, <2>3 DEF AttemptInv, RunInv, SentInv, HeldInv
  <2>5. PackageInv(a)'
    BY <1>1, <1>2, <2>1, <2>2 DEF AttemptInv, PackageInv, Late
  <2>6. CallInv(a)'
    BY <1>2, <2>2, <2>3 DEF AttemptInv, CallInv, CallsStay
  <2>7. QED
    BY <2>4, <2>5, <2>6 DEF AttemptInv
<1>6. CASE att'[a].checkpoint = "submission_unknown" /\ Same(att[a], att'[a])
  <2>1. Checkpoint(a)' \in Sent /\ Checkpoint(a)' \in SettledCheckpoints
        /\ Checkpoint(a)' \notin {"none", "queued"} \union Preparing
    BY <1>6, CheckpointFacts DEF Checkpoint, Sent, Completed, Preparing
  <2>2. RunInv(a)' /\ SentInv(a)' /\ HeldInv(a)'
    BY <1>1, <1>2, <1>6, <2>1 DEF AttemptInv, RunInv, SentInv, HeldInv, Same
  <2>3. PackageInv(a)'
    BY <1>1, <1>2, <1>6, <2>1 DEF AttemptInv, PackageInv, Late, Same
  <2>4. CallInv(a)'
    BY <1>1, <1>2, <2>1 DEF AttemptInv, CallInv, CallsStay
  <2>5. QED
    BY <2>2, <2>3, <2>4 DEF AttemptInv
<1>7. CASE RecoverWritesOff(list)
  BY <1>4, <1>6, <1>7 DEF RecoverWritesOff
<1>8. ASSUME NEW b \in todo, RecoverPuts(list, todo, b)
      PROVE  AttemptInv(a)'
  BY <1>4, <1>5, <1>8 DEF RecoverPuts, OneRow
<1>9. QED
  BY <1>3, <1>7, <1>8

(* No attempt is taken up, or finished, behind the recovery's back. *)
LEMMA RecoveryUndisturbed ==
    ASSUME BaseInv', RecoveryCalm, UNCHANGED <<recovery, recoveryDue>>,
           recoveryDue \/ recovery.pc # "idle" => worker'.pc # "running",
           \A a \in Attempts : Checkpoint(a)' \in Preparing => Checkpoint(a) \in Preparing,
           \A a \in recovery.todo :
              Checkpoint(a) \in Preparing => Checkpoint(a)' = Checkpoint(a),
           \A c \in Calls : InFlight(c)' =>
              \/ InFlight(c) /\ sub'[c].attempt = sub[c].attempt
              \/ att'[sub'[c].attempt].checkpoint \notin Preparing
    PROVE  RecoveryCalm'
<1>1. \A c \in Calls : InFlight(c)' => sub'[c].attempt \in Attempts
  BY DEF BaseInv, SubInv, SubNames
<1>2. \A c \in Calls : InFlight(c)' => att'[sub'[c].attempt].checkpoint \notin Preparing
                                      \/ ~(recoveryDue \/ recovery.pc # "idle")
  BY <1>1 DEF RecoveryCalm, Checkpoint
<1>3. QED
  BY <1>2 DEF RecoveryCalm, Checkpoint

LEMMA RecoveryStaysCalm ==
    ASSUME BaseInv, BaseInv', Calm, CalmInv, [Next]_vars
    PROVE  RecoveryCalm'
<1>1. /\ RecoveryCalm /\ SubType /\ recovery.todo \subseteq Attempts
      /\ \A a \in Attempts : AttemptInv(a)
  BY DEF CalmInv, BaseInv, SubInv, RecoveryInv
<1>2. ASSUME att' = att, UNCHANGED <<recovery, recoveryDue>>,
             recoveryDue \/ recovery.pc # "idle" => worker'.pc # "running",
             sub' = sub \/ (\E b : sub' = Blind(sub, b))
      PROVE  RecoveryCalm'
  <2>1. \A a : Checkpoint(a)' = Checkpoint(a)
    BY <1>2 DEF Checkpoint
  <2>2. \A c \in Calls : sub'[c].pc = sub[c].pc /\ sub'[c].attempt = sub[c].attempt
    BY <1>1, <1>2, BlindCalls
  <2>3. \A c \in Calls : InFlight(c)' => InFlight(c) /\ sub'[c].attempt = sub[c].attempt
    BY <2>2 DEF InFlight
  <2>4. QED
    BY <1>1, <1>2, <2>1, <2>3, RecoveryUndisturbed
<1>3. CASE UNCHANGED vars
  BY <1>1, <1>2, <1>3 DEF vars, runVars, reviewVars, recoveryVars, RecoveryCalm
<1>4. ASSUME NEW g \in Gens, RunNext(g)
      PROVE  RecoveryCalm'
  <2>1. RunMoves(g) /\ run[g].pc \notin {"none", "done"}
    BY <1>4, RunNextMoves
  <2>2. worker' = worker /\ (sub' = sub \/ (\E b : sub' = Blind(sub, b)))
    BY <1>4, RunFrame
  <2>3. UNCHANGED <<recovery, recoveryDue>>
    BY <1>4, RunKeepsQueue DEF recoveryVars
  <2>4. CASE recoveryDue \/ recovery.pc # "idle"
    <3>1. worker.pc # "running"
      BY <1>1, <2>4 DEF RecoveryCalm
    <3>2. ~IsLive(g)
      BY <2>1, <3>1, RunAtWork
    <3>3. QED
      BY <1>2, <2>1, <2>2, <2>3, <3>1, <3>2 DEF RunMoves
  <2>5. CASE ~(recoveryDue \/ recovery.pc # "idle")
    BY <2>3, <2>5 DEF RecoveryCalm
  <2>6. QED
    BY <2>4, <2>5
<1>5. CASE WorkerNext
  <2>1. att' = att /\ UNCHANGED <<recovery, recoveryDue>>
    BY <1>5 DEF WorkerNext, WorkerAcquires, WorkerLosesLease, WorkerSettles, WorkerAbandons,
                WorkerReleases, WorkerReleaseLost, WorkerKeeps, recoveryVars
  <2>2. sub' = sub \/ (\E b : sub' = Blind(sub, b))
    BY <1>5 DEF WorkerNext, WorkerAcquires, WorkerLosesLease, WorkerSettles, WorkerAbandons,
                WorkerReleases, WorkerReleaseLost, reviewVars, CloseReview
  <2>3. recoveryDue \/ recovery.pc # "idle" => worker'.pc # "running"
    <3>1. CASE \E a \in Attempts, g \in Gens : WorkerAcquires(a, g)
      BY <3>1 DEF WorkerAcquires, Recovered, Calm
    <3>2. CASE worker' = worker
      BY <1>1, <3>2 DEF RecoveryCalm
    <3>3. CASE worker'.pc \in {"idle", "releasing"}
      BY <3>3
    <3>4. CASE \E a \in Attempts : WorkerLosesLease(a)
      BY <3>2, <3>4 DEF WorkerLosesLease, runVars
    <3>5. CASE WorkerSettles \/ WorkerAbandons
      <4>1. worker'.pc = "releasing"
        BY <3>5 DEF WorkerSettles, WorkerAbandons, BaseInv, RestType, WorkerRecord
      <4>2. QED
        BY <3>3, <4>1
    <3>6. CASE WorkerReleases \/ WorkerReleaseLost
      <4>1. worker' = Idle
        BY <3>6 DEF WorkerReleases, WorkerReleaseLost
      <4>2. QED
        BY <3>3, <4>1 DEF Idle
    <3>7. QED
      BY <1>5, <3>1, <3>4, <3>5, <3>6 DEF WorkerNext
  <2>4. QED
    BY <1>2, <2>1, <2>2, <2>3
<1>6. ASSUME NEW c \in Calls, SubmitNext(c)
      PROVE  RecoveryCalm'
  <2>1. PICK b \in Attempts : CallMoves(c, b) \/ CallWrites(c, b)
    BY <1>6, SubmitMoves
  <2>2. UNCHANGED <<worker, recovery, recoveryDue>>
    BY <1>6, SubmitFrame
  <2>3. recoveryDue \/ recovery.pc # "idle" => worker'.pc # "running"
    BY <1>1, <2>2 DEF RecoveryCalm
  <2>4. CASE CallMoves(c, b)
    <3>1. OneRow(b) /\ att'[b].checkpoint = att[b].checkpoint
      BY <2>4 DEF CallMoves
    <3>2. \A a \in Attempts : Checkpoint(a)' = Checkpoint(a)
      BY <3>1 DEF OneRow, Checkpoint
    <3>3. CallMoved(c, b) /\ \A d \in Calls : d # c => sub'[d] = sub[d]
      BY <1>1, <2>4, CallMovesFacts
    <3>4. MayBegin(b) => Checkpoint(b) \notin Preparing
      BY CheckpointFacts DEF MayBegin, AtRest, Calm
    <3>5. \A d \in Calls : InFlight(d)' =>
             \/ InFlight(d) /\ sub'[d].attempt = sub[d].attempt
             \/ att'[sub'[d].attempt].checkpoint \notin Preparing
      BY <3>2, <3>3, <3>4 DEF CallMoved, InFlight, Checkpoint
    <3>6. QED
      BY <1>1, <2>2, <2>3, <3>2, <3>5, RecoveryUndisturbed
  <2>5. CASE CallWrites(c, b)
    <3>1. OneRow(b) /\ sub[c].attempt = b /\ sub[c].pc \in {"gate", "click", "observe"}
      BY <2>5 DEF CallWrites
    <3>2. CallWrote(c, b) /\ \A d \in Calls : d # c => sub'[d] = sub[d]
      BY <1>1, <2>5, CallWritesFacts
    <3>3. CASE recoveryDue \/ recovery.pc # "idle"
      <4>1. Checkpoint(b) \notin Preparing
        BY <1>1, <3>1, <3>3 DEF RecoveryCalm, InFlight
      <4>2. Checkpoint(b)' \notin Preparing
        BY <3>2, <4>1 DEF CallWrote, Checkpoint, Preparing
      <4>3. \A a \in Attempts : a # b => Checkpoint(a)' = Checkpoint(a)
        BY <3>1 DEF OneRow, Checkpoint
      <4>4. \A d \in Calls : InFlight(d)' =>
               \/ InFlight(d) /\ sub'[d].attempt = sub[d].attempt
               \/ att'[sub'[d].attempt].checkpoint \notin Preparing
        BY <3>1, <3>2, <4>2 DEF CallWrote, InFlight, Checkpoint
      <4>5. QED
        BY <1>1, <2>2, <2>3, <4>1, <4>2, <4>3, <4>4, RecoveryUndisturbed
    <3>4. CASE ~(recoveryDue \/ recovery.pc # "idle")
      BY <2>2, <3>4 DEF RecoveryCalm
    <3>5. QED
      BY <3>3, <3>4
  <2>6. QED
    BY <2>1, <2>4, <2>5
<1>7. ASSUME NEW b \in Attempts, UserNext(b)
      PROVE  RecoveryCalm'
  <2>1. OneRow(b) /\ UserRow(b, att[b], att'[b])
    BY <1>7, UserWritesRow
  <2>2. UNCHANGED <<worker, recovery, recoveryDue>> /\ (sub' = sub \/ sub' = Blind(sub, b))
    BY <1>7, UserFrame
  <2>3. recoveryDue \/ recovery.pc # "idle" => worker'.pc # "running"
    BY <1>1, <2>2 DEF RecoveryCalm
  <2>4. \A c \in Calls : InFlight(c)' => InFlight(c) /\ sub'[c].attempt = sub[c].attempt
    BY <1>1, <2>2, BlindCalls DEF InFlight
  <2>5. att'[b].checkpoint \in Preparing \/ att[b].checkpoint \in Preparing =>
           att'[b].checkpoint = att[b].checkpoint
    BY <1>1, <2>1 DEF UserRow, AttemptInv, HeldInv, Preparing
  <2>6. \A a \in Attempts : Checkpoint(a)' \in Preparing \/ Checkpoint(a) \in Preparing =>
           Checkpoint(a)' = Checkpoint(a)
    BY <2>1, <2>5 DEF OneRow, Checkpoint
  <2>7. QED
    BY <1>1, <2>2, <2>3, <2>4, <2>6, RecoveryUndisturbed
<1>8. CASE HideHandoff
  BY <1>1, <1>2, <1>8 DEF HideHandoff, runVars, SubSent, recoveryVars, RecoveryCalm
<1>9. ASSUME NEW list, NEW todo, todo \subseteq Attempts, recoveryDue \/ recovery.pc # "idle",
             \A b \in todo : Checkpoint(b) \in Preparing,
             RecoverNext(list, todo), UNCHANGED <<worker, sub>>
      PROVE  RecoveryCalm'
  <2>1. /\ worker'.pc # "running"
        /\ \A c \in Calls : InFlight(c) => sub[c].attempt \in Attempts
                                           /\ Checkpoint(sub[c].attempt) \notin Preparing
    BY <1>1, <1>9 DEF RecoveryCalm, BaseInv, SubInv, SubNames
  <2>2. \A c \in Calls : InFlight(c)' => InFlight(c) /\ sub'[c].attempt = sub[c].attempt
    BY <1>9 DEF InFlight
  <2>3. "queued" \notin Preparing /\ "submission_unknown" \notin Preparing
    BY DEF Preparing
  <2>4. ASSUME NEW b \in todo, RecoverPuts(list, todo, b)
        PROVE  RecoveryCalm'
    <3>1. /\ \A a \in Attempts : a # b => Checkpoint(a)' = Checkpoint(a)
          /\ Checkpoint(b)' = "queued"
          /\ recovery'.todo = todo \ {b}
      BY <2>4 DEF RecoverPuts, OneRow, Checkpoint
    <3>2. QED
      BY <1>9, <2>1, <2>2, <2>3, <3>1 DEF RecoveryCalm
  <2>5. CASE RecoverWritesOff(list)
    <3>1. /\ \A a \in Attempts : Checkpoint(a)' \in {Checkpoint(a), "submission_unknown"}
          /\ recovery'.pc = "requeue"
      BY <2>5 DEF RecoverWritesOff, Checkpoint
    <3>2. QED
      BY <2>1, <2>2, <2>3, <3>1 DEF RecoveryCalm
  <2>6. QED
    BY <1>9, <2>4, <2>5, RecoverMoves DEF BaseInv
<1>10. CASE RecoveryBegins
  <2> DEFINE list == [a \in Attempts |-> Checkpoint(a)]
             todo == {a \in Attempts : list[a] \in Preparing}
  <2>1. /\ todo \subseteq Attempts /\ (\A b \in todo : Checkpoint(b) \in Preparing)
        /\ RecoverNext(list, todo) /\ recoveryDue /\ UNCHANGED <<worker, sub>>
    BY <1>10 DEF RecoveryBegins, RecoveryKeeps, reviewVars
  <2> HIDE DEF list, todo
  <2>2. QED
    BY <1>9, <2>1
<1>11. CASE RecoveryEnqueues
  <2>1. /\ \A b \in recovery.todo : Checkpoint(b) \in Preparing
        /\ RecoverNext(recovery.list, recovery.todo) /\ recovery.pc # "idle"
        /\ UNCHANGED <<worker, sub>>
    BY <1>1, <1>11 DEF RecoveryEnqueues, RecoveryKeeps, reviewVars, RecoveryCalm
  <2>2. QED
    BY <1>1, <1>9, <2>1
<1>12. CASE RecoveryRequeues
  <2>1. UNCHANGED <<att, worker, sub>> /\ recovery.pc = "requeue"
    BY <1>12 DEF RecoveryRequeues, RecoveryKeeps, reviewVars
  <2>2. recovery'.pc # "enqueue"
    <3>1. CASE recovery' = NoRecovery
      BY <3>1 DEF NoRecovery
    <3>2. CASE \E a \in recovery.todo : recovery' = [recovery EXCEPT !.todo = @ \ {a}]
      BY <2>1, <3>2 DEF BaseInv, RestType
    <3>3. QED
      BY <1>12, <3>1, <3>2 DEF RecoveryRequeues
  <2>3. QED
    BY <1>1, <2>1, <2>2 DEF RecoveryCalm, InFlight, Checkpoint
<1>13. CASE DaemonRestart
  BY <1>13 DEF DaemonRestart, Calm
<1>14. CASE AppCrash
  <2>1. /\ worker' = Idle /\ recovery' = NoRecovery
        /\ sub' = [c \in Calls |-> IF sub[c] = NoSub THEN NoSub ELSE SpentSub]
    BY <1>14 DEF AppCrash
  <2>2. \A c \in Calls : ~InFlight(c)'
    BY <2>1, SpentFacts DEF InFlight
  <2>3. QED
    BY <2>1, <2>2 DEF RecoveryCalm, Idle, NoRecovery
<1>15. QED
  BY <1>3, <1>4, <1>5, <1>6, <1>7, <1>8, <1>10, <1>11, <1>12, <1>13, <1>14 DEF Next

LEMMA CalmStepKeeps ==
    ASSUME BaseInv, Calm, CalmInv, [Next]_vars
    PROVE  CalmInv'
<1>1. BaseInv'
  BY BaseStepKeeps
<1>2. RecoveryCalm'
  BY <1>1, RecoveryStaysCalm
<1>3. SUFFICES ASSUME NEW a \in Attempts
               PROVE  AttemptInv(a)'
  BY <1>2 DEF CalmInv
<1>4. AttemptInv(a) /\ recovery.todo \subseteq Attempts
  BY DEF CalmInv, BaseInv, RecoveryInv
<1>5. ASSUME UNCHANGED <<att, live, run, sub, sent>>
      PROVE  AttemptInv(a)'
  <2>1. CallsStay(a) /\ Stage(a)' = Stage(a)
    BY <1>5, BlindCallsStay DEF Stage
  <2>2. QED
    BY <1>4, <1>5, <2>1, Undisturbed
<1>6. CASE UNCHANGED vars
  BY <1>5, <1>6 DEF vars, runVars, reviewVars
<1>7. CASE HideHandoff
  BY <1>5, <1>7 DEF HideHandoff, runVars, SubSent
<1>8. CASE RecoveryRequeues
  BY <1>5, <1>8 DEF RecoveryRequeues, RecoveryKeeps, reviewVars
<1>9. CASE DaemonRestart
  BY <1>9 DEF DaemonRestart, Calm
<1>10. CASE RecoveryBegins
  <2> DEFINE list == [b \in Attempts |-> Checkpoint(b)]
             todo == {b \in Attempts : list[b] \in Preparing}
  <2>1. /\ todo \subseteq Attempts /\ (\A b \in todo : Checkpoint(b) \in Preparing)
        /\ RecoverNext(list, todo) /\ recoveryDue /\ UNCHANGED <<live, run, sub, sent>>
    BY <1>10 DEF RecoveryBegins, RecoveryKeeps, reviewVars
  <2> HIDE DEF list, todo
  <2>2. QED
    BY <2>1, RecoverKeepsAttempt
<1>11. CASE RecoveryEnqueues
  <2>1. /\ \A b \in recovery.todo : Checkpoint(b) \in Preparing
        /\ RecoverNext(recovery.list, recovery.todo) /\ recovery.pc # "idle"
        /\ UNCHANGED <<live, run, sub, sent>>
    BY <1>11 DEF RecoveryEnqueues, RecoveryKeeps, reviewVars, CalmInv, RecoveryCalm
  <2>2. QED
    BY <1>4, <2>1, RecoverKeepsAttempt
<1>12. CASE AppCrash
  <2>1. /\ live'[a] = 0 /\ UNCHANGED <<att, sent>>
        /\ sub' = [c \in Calls |-> IF sub[c] = NoSub THEN NoSub ELSE SpentSub]
    BY <1>12 DEF AppCrash
  <2>2. \A c \in Calls : ~InFlight(c)'
    BY <2>1, SpentFacts DEF InFlight
  <2>3. CallsStay(a)
    BY <2>2 DEF CallsStay
  <2>4. QED
    BY <1>4, <2>1, <2>3, RunEnds DEF Stage
<1>13. QED
  BY <1>1, <1>4, <1>6, <1>7, <1>8, <1>9, <1>10, <1>11, <1>12, RunKeepsAttempt,
     WorkerKeepsAttempt, SubmitKeepsAttempt, UserKeepsAttempt DEF Next

LEMMA CalmInit == Init => CalmInv
<1> SUFFICES ASSUME Init PROVE CalmInv
  OBVIOUS
<1>1. RecoveryCalm
  BY DEF Init, RecoveryCalm, NoRecovery
<1>2. ASSUME NEW a \in Attempts
      PROVE  AttemptInv(a)
  <2>1. /\ att[a] = NoRow /\ live[a] = 0 /\ sent[a] = 0
        /\ \A c \in Calls : ~InFlight(c)
    BY SpentFacts DEF Init, InFlight
  <2>2. NoRow.held = NoHold /\ NoRow.fields = 0 /\ NoHold.fields = 0
    BY DEF NoRow, NoHold
  <2>3. QED
    BY <2>1, <2>2
    DEF AttemptInv, RunInv, SentInv, HeldInv, PackageInv, CallInv, Undone, Stage, Late
<1>3. QED
  BY <1>1, <1>2 DEF CalmInv

LEMMA CalmInvAlways ==
    ASSUME Calm
    PROVE  Spec => []CalmInv
<1>1. ASSUME BaseInv, CalmInv, [Next]_vars
      PROVE  BaseInv' /\ CalmInv'
  BY <1>1, BaseStepKeeps, CalmStepKeeps
<1>2. QED
  BY <1>1, BaseInit, CalmInit, PTL DEF Spec

(* As long as the daemon does not die alone, nobody acts on an attempt a    *)
(* run is working on and the worker waits for the recovery, a row whose     *)
(* application an employer has received says so, and is never given back to *)
(* the queue or to a run.                                                   *)
THEOREM AppliedIsAlwaysProtected ==
    ASSUME Calm
    PROVE  Spec => []AppliedIsProtected
<1>1. CalmInv => AppliedIsProtected
  BY DEF CalmInv, AttemptInv, SentInv, AppliedIsProtected, Sent
<1>2. QED
  BY <1>1, CalmInvAlways, PTL

(* On the same terms, the fields of a row that can be sent were filled by   *)
(* the run that staged its documents.                                       *)
THEOREM PackagesAreWhole ==
    ASSUME Calm
    PROVE  Spec => []OnePackage
<1>1. CalmInv => OnePackage
  BY DEF CalmInv, AttemptInv, PackageInv, OnePackage
<1>2. QED
  BY <1>1, CalmInvAlways, PTL

-----------------------------------------------------------------------------
(* An attempt that waits has an entry that brings it up, or will have one.  *)

(* Questions and answers arrive, nobody resumes an attempt before its lease *)
(* is given back, and the worker waits for the recovery.                    *)
Prompt == {"lost", "hasty", "overlap"} \intersect Events = {}

Gone == {"absent", "done", "failed"}
Waits(a) == Checkpoint(a) \in {"queued"} \union Preparing

HeldRest == \A a \in Attempts : HeldInv(a)

(* The worker's lease is the queue's: it has not been taken from it. *)
Mine == worker.pc # "idle" /\ lease.id = worker.id

(* A lease that is still the worker's is for the attempt of its run, and is *)
(* given back as finished only when that attempt has been settled.          *)
LeaseInv ==
    /\ worker.pc = "idle" \/ worker.id # 0
    /\ Mine => ~recoveryDue /\ recovery.pc = "idle"
    /\ Mine /\ worker.pc = "running" => lease.attempt = Of(worker.gen)
    /\ Mine /\ worker.pc = "running" /\ run[worker.gen].pc = "done"
         /\ run[worker.gen].outcome # "requeue" =>
             Checkpoint(lease.attempt) \in SettledCheckpoints
    /\ Mine /\ worker.pc = "releasing" /\ worker.outcome # "requeue" =>
          Checkpoint(lease.attempt) \in SettledCheckpoints

RunningInv == \A a \in Attempts : live[a] # 0 => entry[a] \notin Gone

(* Something under way will put a in the queue. *)
Pending(a) ==
    \/ a \in enqueuing
    \/ recoveryDue
    \/ recovery.pc = "enqueue" /\ (a = recovery.cur \/ a \in recovery.todo
                                   \/ recovery.list[a] = "queued")
    \/ recovery.pc = "requeue" /\ a \in recovery.todo

StrandInv == \A a \in Attempts : Waits(a) /\ entry[a] \in Gone => Pending(a)

PromptInv == HeldRest /\ LeaseInv /\ RunningInv /\ StrandInv

(* A hold keeps the checkpoint of a prepared attempt. *)
LEMMA HeldStepKeeps ==
    ASSUME BaseInv, HeldRest, [Next]_vars
    PROVE  HeldRest'
<1> SUFFICES ASSUME NEW a \in Attempts
             PROVE  HeldInv(a)'
  BY DEF HeldRest
<1>1. HeldInv(a)
  BY DEF HeldRest
<1>2. ASSUME att'[a] = att[a] \/ att'[a].held = att[a].held
      PROVE  HeldInv(a)'
  BY <1>1, <1>2 DEF HeldInv
<1>3. CASE att' = att
  BY <1>2, <1>3
<1>4. ASSUME NEW g \in Gens, RunNext(g)
      PROVE  HeldInv(a)'
  <2>1. RunMoves(g)
    BY <1>4, RunNextMoves
  <2>2. att'[a] = att[a] \/ att'[a].held = att[a].held
    BY <2>1 DEF RunMoves, Moves, Same
  <2>3. QED
    BY <1>2, <2>2
<1>5. ASSUME NEW c \in Calls, SubmitNext(c)
      PROVE  HeldInv(a)'
  <2>1. PICK b \in Attempts : CallMoves(c, b) \/ CallWrites(c, b)
    BY <1>5, SubmitMoves
  <2>2. OneRow(b) /\ Same(att[b], att'[b])
    BY <2>1 DEF CallMoves, CallWrites
  <2>3. QED
    BY <1>2, <2>2 DEF OneRow, Same
<1>6. ASSUME NEW b \in Attempts, UserNext(b)
      PROVE  HeldInv(a)'
  <2>1. OneRow(b) /\ UserRow(b, att[b], att'[b])
    BY <1>6, UserWritesRow
  <2>2. CASE a # b
    BY <1>2, <2>1, <2>2 DEF OneRow
  <2>3. CASE a = b
    BY <1>1, <2>1, <2>3 DEF HeldInv, UserRow, Same, NoHold
  <2>4. QED
    BY <2>2, <2>3
<1>7. ASSUME NEW list, NEW todo, todo \subseteq Attempts, RecoverNext(list, todo)
      PROVE  HeldInv(a)'
  <2>1. CASE RecoverWritesOff(list)
    BY <1>2, <2>1 DEF RecoverWritesOff, Same
  <2>2. ASSUME NEW b \in todo, RecoverPuts(list, todo, b)
        PROVE  HeldInv(a)'
    BY <1>2, <2>2 DEF RecoverPuts, OneRow
  <2>3. QED
    BY <1>7, <2>1, <2>2, RecoverMoves DEF BaseInv
<1>8. CASE RecoveryBegins
  <2> DEFINE list == [b \in Attempts |-> Checkpoint(b)]
             todo == {b \in Attempts : list[b] \in Preparing}
  <2>1. todo \subseteq Attempts /\ RecoverNext(list, todo)
    BY <1>8 DEF RecoveryBegins
  <2> HIDE DEF list, todo
  <2>2. QED
    BY <1>7, <2>1
<1>9. CASE RecoveryEnqueues
  BY <1>7, <1>9 DEF RecoveryEnqueues, BaseInv, RecoveryInv
<1>10. CASE WorkerNext
  BY <1>3, <1>10 DEF WorkerNext, WorkerAcquires, WorkerLosesLease, WorkerSettles,
                     WorkerAbandons, WorkerReleases, WorkerReleaseLost
<1>11. CASE UNCHANGED vars \/ HideHandoff \/ RecoveryRequeues \/ DaemonRestart \/ AppCrash
  BY <1>3, <1>11 DEF vars, HideHandoff, RecoveryRequeues, DaemonRestart, AppCrash
<1>12. QED
  BY <1>4, <1>5, <1>6, <1>8, <1>9, <1>10, <1>11 DEF Next

-----------------------------------------------------------------------------
(* No entry goes, and no lease is given out. *)
QueueCalm ==
    /\ \A a \in Attempts : entry'[a] \in Gone => entry[a] \in Gone
    /\ lease' = lease \/ lease' = NoLease

LEMMA EnqueueIsCalm ==
    ASSUME QueueInv, NEW a \in Attempts, Enqueue(a)
    PROVE  QueueCalm /\ entry'[a] \notin Gone
<1>1. entry \in [Attempts -> EntryStates \union {"absent"}]
  BY DEF QueueInv, QueueTypeOK
<1>2. entry[a] \in Gone => entry[a] \in TerminalStates \union {"absent"}
  BY DEF Gone, TerminalStates
<1>3. QED
  BY <1>1, <1>2 DEF Enqueue, QueueCalm, Gone

LEMMA PersonIsCalm ==
    ASSUME QueueInv, NEW a \in Attempts, Pause(a) \/ ResumeEntry(a) \/ Cancel(a)
    PROVE  QueueCalm
BY DEF QueueInv, QueueTypeOK, Pause, ResumeEntry, Cancel, LeaseWithout, QueueCalm, Gone

LEMMA ReconcileIsCalm ==
    ASSUME QueueInv, Reconcile
    PROVE  QueueCalm /\ lease' = NoLease
BY DEF QueueInv, QueueTypeOK, Reconcile, QueueCalm, Gone

LEMMA UnchangedIsCalm ==
    ASSUME UNCHANGED queueVars
    PROVE  QueueCalm /\ entry' = entry /\ lease' = lease
BY DEF queueVars, QueueCalm

(* A worker that is left alone keeps its lease or loses it. *)
LEMMA MineStays ==
    ASSUME LeaseInv, QueueCalm, worker' = worker, Mine'
    PROVE  Mine /\ lease' = lease
<1>1. NoLease.id = 0
  BY DEF NoLease
<1>2. QED
  BY <1>1 DEF LeaseInv, QueueCalm, Mine

LEMMA MineNames ==
    ASSUME BaseInv, LeaseInv, Mine
    PROVE  lease.attempt \in Attempts
BY DEF BaseInv, QueueInv, QueueTypeOK, LeaseIsFresh, LeaseInv, Mine

(* Steps that leave the worker, the fence and the recovery alone. *)
LEMMA PromptQuiet ==
    ASSUME BaseInv, BaseInv', PromptInv, HeldRest', QueueCalm,
           UNCHANGED <<worker, live, recovery, recoveryDue>>,
           worker.pc = "running" => run'[worker.gen].attempt = Of(worker.gen),
           worker.pc = "running" /\ run'[worker.gen].pc = "done"
             /\ run'[worker.gen].outcome # "requeue" =>
               \/ run[worker.gen].pc = "done" /\ run[worker.gen].outcome # "requeue"
               \/ att'[Of(worker.gen)].checkpoint \in SettledCheckpoints,
           Mine /\ (worker.pc = "running" => run[worker.gen].pc = "done")
             /\ Checkpoint(lease.attempt) \in SettledCheckpoints =>
               att'[lease.attempt].checkpoint \in SettledCheckpoints,
           \A a \in Attempts : Waits(a)' /\ entry'[a] \in Gone =>
               a \in enqueuing' \/ (Waits(a) /\ a \notin enqueuing)
    PROVE  PromptInv'
<1>1. LeaseInv'
  <2>1. worker'.pc = "idle" \/ worker'.id # 0
    BY DEF PromptInv, LeaseInv
  <2>2. SUFFICES ASSUME Mine'
                 PROVE  /\ ~recoveryDue' /\ recovery'.pc = "idle"
                        /\ worker'.pc = "running" => lease'.attempt = run'[worker'.gen].attempt
                        /\ worker'.pc = "running" /\ run'[worker'.gen].pc = "done"
                             /\ run'[worker'.gen].outcome # "requeue" =>
                                 att'[lease'.attempt].checkpoint \in SettledCheckpoints
                        /\ worker'.pc = "releasing" /\ worker'.outcome # "requeue" =>
                              att'[lease'.attempt].checkpoint \in SettledCheckpoints
    BY <2>1 DEF LeaseInv, Of, Checkpoint
  <2>3. Mine /\ lease' = lease
    BY <2>2, MineStays DEF PromptInv
  <2>4. QED
    BY <2>3 DEF PromptInv, LeaseInv, Of, Checkpoint
<1>2. RunningInv'
  BY DEF PromptInv, RunningInv, QueueCalm
<1>3. StrandInv'
  BY DEF PromptInv, StrandInv, Pending, QueueCalm
<1>4. QED
  BY <1>1, <1>2, <1>3 DEF PromptInv

LEMMA RunKeepsPrompt ==
    ASSUME BaseInv, BaseInv', Prompt, PromptInv, HeldRest', NEW g \in Gens, RunNext(g)
    PROVE  PromptInv'
<1>1. RunMoves(g) /\ run[g].pc \notin {"none", "done"}
  BY RunNextMoves
<1>2. /\ UNCHANGED <<worker, live, enqueuing, recovery, recoveryDue>>
      /\ QueueCalm /\ entry' = entry /\ lease' = lease
  BY RunFrame, RunKeepsQueue, UnchangedIsCalm DEF recoveryVars
<1>3. Of(g) \in Attempts /\ (IsLive(g) => worker.gen = g /\ worker.pc = "running")
  BY <1>1, RunAtWork
<1>4. worker.pc = "running" =>
         worker.gen \in Gens /\ (worker.gen = g => IsLive(g))
  BY DEF BaseInv, WorkerInv, IsLive
<1>5. worker.pc = "running" => run'[worker.gen].attempt = Of(worker.gen)
  BY <1>1, <1>4 DEF RunMoves, Of
<1>6. worker.pc = "running" /\ run'[worker.gen].pc = "done"
        /\ run'[worker.gen].outcome # "requeue" =>
          \/ run[worker.gen].pc = "done" /\ run[worker.gen].outcome # "requeue"
          \/ att'[Of(worker.gen)].checkpoint \in SettledCheckpoints
  <2>1. "lost" \notin Events
    BY DEF Prompt
  <2>2. QED
    BY <1>1, <1>4, <2>1 DEF RunMoves
<1>7. Mine /\ (worker.pc = "running" => run[worker.gen].pc = "done")
        /\ Checkpoint(lease.attempt) \in SettledCheckpoints =>
          att'[lease.attempt].checkpoint \in SettledCheckpoints
  <2>1. (worker.pc = "running" => run[worker.gen].pc = "done") => att' = att
    BY <1>1, <1>3 DEF RunMoves
  <2>2. QED
    BY <2>1 DEF Checkpoint
<1>8. \A a \in Attempts : Waits(a)' /\ entry'[a] \in Gone =>
         a \in enqueuing' \/ (Waits(a) /\ a \notin enqueuing)
  <2>1. ASSUME NEW a \in Attempts, entry'[a] \in Gone
        PROVE  att'[a] = att[a]
    <3>1. live[a] = 0
      BY <1>2, <2>1 DEF PromptInv, RunningInv
    <3>2. ~(a = Of(g) /\ IsLive(g))
      BY <1>1, <3>1, RunAtWork DEF IsLive
    <3>3. QED
      BY <1>1, <3>2 DEF RunMoves
  <2>2. QED
    BY <1>2, <2>1 DEF Waits, Checkpoint
<1>9. QED
  BY <1>2, <1>5, <1>6, <1>7, <1>8, PromptQuiet

(* The rows a submission leaves wait for nothing they did not wait for. *)
LEMMA SubmitKeepsPrompt ==
    ASSUME BaseInv, BaseInv', PromptInv, HeldRest', NEW c \in Calls, SubmitNext(c)
    PROVE  PromptInv'
<1>1. /\ UNCHANGED <<worker, live, run, enqueuing, recovery, recoveryDue>>
      /\ QueueCalm /\ entry' = entry /\ lease' = lease
  BY SubmitFrame, UnchangedIsCalm
<1>2. PICK b \in Attempts : CallMoves(c, b) \/ CallWrites(c, b)
  BY SubmitMoves
<1>3. OneRow(b) /\ att'[b].checkpoint \in {att[b].checkpoint} \union SettledCheckpoints
  <2>1. CASE CallMoves(c, b)
    BY <2>1 DEF CallMoves
  <2>2. CASE CallWrites(c, b)
    BY <2>2, CheckpointFacts DEF CallWrites
  <2>3. QED
    BY <1>2, <2>1, <2>2
<1>4. \A a \in Attempts : Checkpoint(a)' \in {Checkpoint(a)} \union SettledCheckpoints
  BY <1>3 DEF OneRow, Checkpoint
<1>5. Mine /\ Checkpoint(lease.attempt) \in SettledCheckpoints =>
         att'[lease.attempt].checkpoint \in SettledCheckpoints
  BY <1>4, MineNames DEF PromptInv, Checkpoint
<1>6. \A a \in Attempts : Waits(a)' => Waits(a)
  BY <1>4, CheckpointFacts DEF Waits
<1>7. worker.pc = "running" => run'[worker.gen].attempt = Of(worker.gen)
  BY <1>1 DEF Of
<1>8. QED
  BY <1>1, <1>5, <1>6, <1>7, PromptQuiet

(* What a person or a posting check puts back in the queue is on its way    *)
(* there, and is not the attempt whose lease is being given back.           *)
LEMMA UserKeepsPrompt ==
    ASSUME BaseInv, BaseInv', Prompt, PromptInv, HeldRest', NEW b \in Attempts, UserNext(b)
    PROVE  PromptInv'
<1>1. OneRow(b) /\ UserRow(b, att[b], att'[b])
  BY UserWritesRow
<1>2. RunsStay /\ UNCHANGED <<live, worker, recovery, recoveryDue>>
  BY UserFrame
<1>3. HeldInv(b) /\ "hasty" \notin Events
  BY DEF PromptInv, HeldRest, Prompt
<1>4. Checkpoint(b) \in SettledCheckpoints =>
         \/ att'[b].checkpoint \in SettledCheckpoints
         \/ worker.pc = "idle" \/ lease.attempt # b
  BY <1>1, <1>3, CheckpointFacts DEF UserRow, HeldInv, Checkpoint
<1>5. Waits(b)' => Waits(b) \/ b \in enqueuing'
  BY <1>1, <1>3, CheckpointFacts DEF UserRow, HeldInv, Waits, Checkpoint
<1>6. QueueCalm /\ \A a \in Attempts :
         a \in enqueuing => a \in enqueuing' \/ entry'[a] \notin Gone \/ ~Waits(a)'
  <2>1. QueueInv
    BY DEF BaseInv
  <2>2. CASE EnqueueAnswered(b)
    <3>1. Enqueue(b) /\ enqueuing' = enqueuing \ {b}
      BY <2>2 DEF EnqueueAnswered
    <3>2. QED
      BY <2>1, <3>1, EnqueueIsCalm
  <2>3. CASE EnqueueFails(b)
    <3>1. att' = Moved(b, "failed", "") /\ enqueuing' = enqueuing \ {b} /\ UNCHANGED queueVars
      BY <2>3 DEF EnqueueFails
    <3>2. att'[b].checkpoint = "failed"
      BY <3>1, MovedRow, CheckpointFacts DEF BaseInv
    <3>3. ~Waits(b)'
      BY <3>2 DEF Waits, Checkpoint, Preparing
    <3>4. QED
      BY <3>1, <3>3, UnchangedIsCalm
  <2>4. CASE UserQueues(b)
    <3>1. (Pause(b) \/ ResumeEntry(b) \/ Cancel(b)) /\ enqueuing' = enqueuing
      BY <2>4 DEF UserQueues, runVars
    <3>2. QED
      BY <2>1, <3>1, PersonIsCalm
  <2>5. CASE ~(EnqueueAnswered(b) \/ EnqueueFails(b) \/ UserQueues(b))
    <3>1. UNCHANGED queueVars /\ enqueuing \subseteq enqueuing'
      BY <2>5 DEF UserNext, StartAttempt, OpenReview, UserCloses, ShowHandoff, Schedule,
                  CancelSchedule, UserReports, UserSkips, ReconcileOutcome, Resume,
                  PostingHold, PostingRelease, RowOnly, runVars
    <3>2. QED
      BY <3>1, UnchangedIsCalm
  <2>6. QED
    BY <2>2, <2>3, <2>4, <2>5
<1>7. \A a \in Attempts : a # b => Checkpoint(a)' = Checkpoint(a)
  BY <1>1 DEF OneRow, Checkpoint
<1>8. Mine /\ Checkpoint(lease.attempt) \in SettledCheckpoints =>
         att'[lease.attempt].checkpoint \in SettledCheckpoints
  <2>1. Mine => lease.attempt \in Attempts /\ worker.pc # "idle"
    BY MineNames DEF PromptInv, Mine
  <2>2. QED
    BY <1>4, <1>7, <2>1 DEF Checkpoint
<1>9. \A a \in Attempts : Waits(a)' /\ entry'[a] \in Gone =>
         a \in enqueuing' \/ (Waits(a) /\ a \notin enqueuing)
  BY <1>5, <1>6, <1>7 DEF Waits
<1>10. worker.pc = "running" =>
          /\ run'[worker.gen].attempt = Of(worker.gen)
          /\ run'[worker.gen].pc = run[worker.gen].pc
          /\ run'[worker.gen].outcome = run[worker.gen].outcome
  BY <1>2 DEF BaseInv, WorkerInv, RunsStay, Of
<1>11. QED
  BY <1>2, <1>6, <1>8, <1>9, <1>10, PromptQuiet

(* The worker gives a lease back as finished when its attempt is settled. *)
LEMMA WorkerKeepsPrompt ==
    ASSUME BaseInv, BaseInv', Prompt, PromptInv, HeldRest', WorkerNext
    PROVE  PromptInv'
<1>1. /\ LeaseInv /\ RunningInv /\ StrandInv /\ QueueInv
      /\ entry \in [Attempts -> EntryStates \union {"absent"}] /\ nextLease \in Nat
      /\ lease.id \in Nat
  BY DEF PromptInv, BaseInv, QueueInv, QueueTypeOK
<1>2. /\ UNCHANGED <<att, enqueuing, recovery, recoveryDue>>
      /\ \A a : Checkpoint(a)' = Checkpoint(a)
      /\ \A a \in Attempts : Waits(a)' = Waits(a) /\ Pending(a)' = Pending(a)
  <2>1. UNCHANGED <<att, enqueuing, recovery, recoveryDue>>
    BY DEF WorkerNext, WorkerAcquires, WorkerLosesLease, WorkerSettles, WorkerAbandons,
           WorkerReleases, WorkerReleaseLost, WorkerKeeps, recoveryVars, runVars
  <2>2. QED
    BY <2>1 DEF Waits, Pending, Checkpoint
<1>3. "lost" \notin Events /\ "overlap" \notin Events
  BY DEF Prompt
<1>4. ASSUME NEW b \in Attempts, NEW g \in Gens, WorkerAcquires(b, g)
      PROVE  PromptInv'
  <2>1. /\ entry' = [entry EXCEPT ![b] = "active"]
        /\ lease' = [id |-> nextLease + 1, attempt |-> b]
        /\ worker' = [pc |-> "running", gen |-> g, id |-> nextLease + 1, outcome |-> ""]
        /\ live' = [live EXCEPT ![b] = g]
        /\ run' = [run EXCEPT ![g] = IF Checkpoint(b) \in SettledCheckpoints
             THEN [NoRun EXCEPT !.attempt = b, !.pc = "done", !.outcome = "completed"]
             ELSE [NoRun EXCEPT !.attempt = b, !.pc = "ask"]]
        /\ ~recoveryDue /\ recovery.pc = "idle" /\ worker.pc = "idle"
    BY <1>3, <1>4 DEF WorkerAcquires, AcquireNextLease, Recovered
  <2>2. /\ run'[g].attempt = b
        /\ run'[g].pc = "done" => Checkpoint(b) \in SettledCheckpoints
    BY <2>1 DEF BaseInv, RunType, NoRun
  <2>3. /\ worker'.pc = "running" /\ worker'.gen = g /\ worker'.id = nextLease + 1
        /\ lease'.id = nextLease + 1 /\ lease'.attempt = b /\ nextLease + 1 # 0
    <3>1. nextLease + 1 # 0
      BY <1>1
    <3>2. worker'.pc = "running" /\ worker'.gen = g /\ worker'.id = nextLease + 1
      BY <2>1
    <3>3. lease'.id = nextLease + 1 /\ lease'.attempt = b
      BY <2>1
    <3>4. QED
      BY <3>1, <3>2, <3>3
  <2>4. LeaseInv'
    BY <1>2, <2>1, <2>2, <2>3 DEF LeaseInv, Of
  <2>5. /\ entry'[b] \notin Gone
        /\ \A a \in Attempts : a # b => entry'[a] = entry[a] /\ live'[a] = live[a]
    BY <1>1, <2>1 DEF Gone, BaseInv, RestType
  <2>6. RunningInv' /\ StrandInv'
    BY <1>1, <1>2, <2>5 DEF RunningInv, StrandInv
  <2>7. QED
    BY <2>4, <2>6 DEF PromptInv
<1>5. CASE WorkerSettles \/ WorkerAbandons
  <2>1. PICK g \in Gens : g = worker.gen
    BY <1>5 DEF WorkerSettles, WorkerAbandons, BaseInv, WorkerInv
  <2>2. /\ worker.pc = "running" /\ UNCHANGED queueVars
        /\ \E o \in Outcomes :
             /\ worker' = [worker EXCEPT !.pc = "releasing", !.gen = 0, !.outcome = o]
             /\ o # "requeue" => run[g].pc = "done" /\ run[g].outcome = o
    <3>1. run[g].outcome \in Outcomes /\ "requeue" \in Outcomes
      BY DEF BaseInv, RunType, RunRecord, Outcomes
    <3>2. QED
      BY <1>5, <2>1, <3>1 DEF WorkerSettles, WorkerAbandons
  <2>3. /\ worker'.pc = "releasing" /\ worker'.id = worker.id
        /\ worker'.outcome # "requeue" =>
              run[g].pc = "done" /\ run[g].outcome # "requeue"
    BY <2>2 DEF BaseInv, RestType, WorkerRecord
  <2>4. entry' = entry /\ lease' = lease
    BY <2>2, UnchangedIsCalm
  <2>5. \A a \in Attempts : live'[a] = 0
    BY <2>3 DEF BaseInv, WorkerInv
  <2>6. LeaseInv'
    BY <1>1, <1>2, <2>1, <2>2, <2>3, <2>4 DEF LeaseInv, Mine
  <2>7. RunningInv' /\ StrandInv'
    BY <1>1, <1>2, <2>4, <2>5 DEF RunningInv, StrandInv
  <2>8. QED
    BY <2>6, <2>7 DEF PromptInv
<1>6. CASE WorkerReleases
  <2>1. /\ worker.pc = "releasing" /\ worker' = Idle /\ UNCHANGED live
        /\ Release(worker.id, worker.outcome)
    BY <1>6 DEF WorkerReleases
  <2>2. worker'.pc = "idle"
    BY <2>1 DEF Idle
  <2>3. LeaseInv'
    BY <2>2 DEF LeaseInv, Mine
  <2>4. \A a \in Attempts : live'[a] = 0
    BY <2>2 DEF BaseInv, WorkerInv
  <2>5. \A a \in Attempts : entry'[a] \in Gone => entry[a] \in Gone \/ ~Waits(a)
    <3>1. CASE UNCHANGED <<entry, lease>>
      BY <3>1
    <3>2. CASE lease # NoLease /\ lease.id = worker.id
      <4>1. Mine /\ lease.attempt \in Attempts
        BY <1>1, <2>1, <3>2, MineNames DEF Mine
      <4>2. \E s \in {"queued", "done", "failed"} :
              /\ entry' = [entry EXCEPT ![lease.attempt] = s]
              /\ worker.outcome = "requeue" => s = "queued"
        BY <2>1, <3>2, Zenon DEF Release
      <4>3. worker.outcome # "requeue" => ~Waits(lease.attempt)
        BY <1>1, <2>1, <4>1, CheckpointFacts DEF LeaseInv, Waits
      <4>4. QED
        BY <1>1, <4>1, <4>2, <4>3 DEF Gone
    <3>3. QED
      BY <2>1, <3>1, <3>2 DEF Release
  <2>6. RunningInv' /\ StrandInv'
    BY <1>1, <1>2, <2>4, <2>5 DEF RunningInv, StrandInv
  <2>7. QED
    BY <2>3, <2>6 DEF PromptInv
<1>7. QED
  BY <1>3, <1>4, <1>5, <1>6 DEF WorkerNext, WorkerLosesLease, WorkerReleaseLost

(* The recovery, on the list it took: what it has not come to is to come. *)
LEMMA RecoverKeepsPrompt ==
    ASSUME BaseInv, PromptInv, HeldRest', NEW list, NEW todo, todo \subseteq Attempts,
           RecoverNext(list, todo), QueueCalm, UNCHANGED <<worker, live, enqueuing>>,
           recoveryDue \/ recovery.pc # "idle",
           \A a \in Attempts : Waits(a) /\ entry'[a] \in Gone =>
               a \in enqueuing \/ recoveryDue' \/ a \in todo \/ list[a] = "queued"
    PROVE  PromptInv'
<1>1. LeaseInv'
  <2>1. ~Mine
    BY DEF PromptInv, LeaseInv
  <2>2. ~Mine'
    BY <2>1, MineStays DEF PromptInv
  <2>3. QED
    BY <2>2 DEF PromptInv, LeaseInv
<1>2. RunningInv'
  BY DEF PromptInv, RunningInv, QueueCalm
<1>3. SUFFICES ASSUME NEW a \in Attempts, Waits(a)', entry'[a] \in Gone
               PROVE  Pending(a)'
  BY <1>1, <1>2 DEF PromptInv, StrandInv
<1>4. ASSUME NEW b \in todo, RecoverPuts(list, todo, b)
      PROVE  Pending(a)'
  <2>1. /\ recovery'.pc = "enqueue" /\ recovery'.list = list
        /\ recovery'.todo = todo \ {b} /\ recovery'.cur = b
    BY <1>4 DEF RecoverPuts
  <2>2. CASE a = b
    BY <2>1, <2>2 DEF Pending
  <2>3. CASE a # b
    <3>1. Waits(a)
      BY <1>3, <1>4, <2>3 DEF RecoverPuts, OneRow, Waits, Checkpoint
    <3>2. QED
      BY <1>3, <2>1, <2>3, <3>1 DEF Pending
  <2>4. QED
    BY <2>2, <2>3
<1>5. CASE todo = {} /\ RecoverWritesOff(list)
  <2>1. recovery'.pc = "requeue" /\ recovery'.todo = {b \in Attempts : list[b] = "queued"}
    BY <1>5 DEF RecoverWritesOff
  <2>2. Waits(a)
    <3>1. "submission_unknown" \notin {"queued"} \union Preparing
      BY DEF Preparing
    <3>2. QED
      BY <1>3, <1>5, <3>1 DEF RecoverWritesOff, Waits, Checkpoint
  <2>3. QED
    BY <1>3, <1>5, <2>1, <2>2 DEF Pending
<1>6. QED
  BY <1>4, <1>5, RecoverMoves DEF BaseInv

LEMMA RecoveryKeepsPrompt ==
    ASSUME BaseInv, Prompt, PromptInv, HeldRest',
           RecoveryBegins \/ RecoveryEnqueues \/ RecoveryRequeues
    PROVE  PromptInv'
<1>1. /\ LeaseInv /\ RunningInv /\ StrandInv /\ QueueInv
      /\ recovery.todo \subseteq Attempts /\ (recovery.pc = "enqueue" => recovery.cur \in Attempts)
  BY DEF PromptInv, BaseInv, RecoveryInv
<1>2. UNCHANGED <<worker, live, enqueuing>>
  BY DEF RecoveryBegins, RecoveryEnqueues, RecoveryRequeues, RecoveryKeeps
<1>3. CASE RecoveryBegins
  <2> DEFINE list == [a \in Attempts |-> Checkpoint(a)]
             todo == {a \in Attempts : list[a] \in Preparing}
  <2>1. /\ todo \subseteq Attempts /\ RecoverNext(list, todo) /\ recoveryDue
        /\ UNCHANGED queueVars
    BY <1>3 DEF RecoveryBegins
  <2>2. \A a \in Attempts : Waits(a) => a \in todo \/ list[a] = "queued"
    BY DEF Waits
  <2> HIDE DEF list, todo
  <2>3. QueueCalm
    BY <2>1, UnchangedIsCalm
  <2>4. QED
    BY <1>2, <2>1, <2>2, <2>3, RecoverKeepsPrompt
<1>4. CASE RecoveryEnqueues
  <2>1. /\ recovery.pc = "enqueue" /\ Enqueue(recovery.cur)
        /\ RecoverNext(recovery.list, recovery.todo) /\ recoveryDue' = recoveryDue
    BY <1>4 DEF RecoveryEnqueues, Prompt
  <2>2. QueueCalm /\ entry'[recovery.cur] \notin Gone
    BY <1>1, <2>1, EnqueueIsCalm
  <2>3. \A a \in Attempts : Waits(a) /\ entry'[a] \in Gone =>
           a \in enqueuing \/ recoveryDue' \/ a \in recovery.todo \/ recovery.list[a] = "queued"
    BY <1>1, <2>1, <2>2 DEF StrandInv, Pending, QueueCalm
  <2>4. QED
    BY <1>1, <1>2, <2>1, <2>2, <2>3, RecoverKeepsPrompt
<1>5. CASE RecoveryRequeues
  <2>1. recovery.pc = "requeue" /\ UNCHANGED <<att, recoveryDue>>
    BY <1>5 DEF RecoveryRequeues
  <2> DEFINE Kept(a) == a \in enqueuing \/ recoveryDue
                        \/ (recovery'.pc = "requeue" /\ a \in recovery'.todo)
  <2>2. QueueCalm /\ \A a \in Attempts : Waits(a) /\ entry'[a] \in Gone => Kept(a)
    <3>1. ASSUME NEW b \in recovery.todo, recovery' = [recovery EXCEPT !.todo = @ \ {b}],
                 IF entry[b] \in {"absent", "done", "failed"}
                   THEN Enqueue(b) ELSE UNCHANGED queueVars
          PROVE  QueueCalm /\ \A a \in Attempts : Waits(a) /\ entry'[a] \in Gone => Kept(a)
      <4>1. QueueCalm /\ entry'[b] \notin Gone
        BY <1>1, <3>1, EnqueueIsCalm, UnchangedIsCalm DEF Gone
      <4>2. recovery'.pc = "requeue" /\ recovery'.todo = recovery.todo \ {b}
        BY <2>1, <3>1 DEF BaseInv, RestType
      <4>3. QED
        BY <1>1, <2>1, <4>1, <4>2 DEF StrandInv, Pending, QueueCalm
    <3>2. CASE recovery.todo = {} /\ UNCHANGED queueVars
      BY <1>1, <2>1, <3>2, UnchangedIsCalm DEF StrandInv, Pending
    <3>3. QED
      BY <1>5, <3>1, <3>2 DEF RecoveryRequeues
  <2>3. ~Mine /\ ~Mine'
    BY <1>1, <1>2, <2>1, <2>2, MineStays DEF LeaseInv
  <2>4. LeaseInv' /\ RunningInv'
    BY <1>1, <1>2, <2>2, <2>3 DEF LeaseInv, RunningInv, QueueCalm
  <2>5. StrandInv'
    BY <1>2, <2>1, <2>2 DEF StrandInv, Pending, Waits, Checkpoint
  <2>6. QED
    BY <2>4, <2>5 DEF PromptInv
<1>6. QED
  BY <1>3, <1>4, <1>5

LEMMA PromptStepKeeps ==
    ASSUME BaseInv, Prompt, PromptInv, [Next]_vars
    PROVE  PromptInv'
<1>1. BaseInv' /\ HeldRest' /\ QueueInv
  BY BaseStepKeeps, HeldStepKeeps DEF PromptInv, BaseInv
<1>2. CASE UNCHANGED vars \/ HideHandoff
  <2>1. UNCHANGED <<att, live, run, worker, enqueuing, recovery, recoveryDue, queueVars>>
    BY <1>2 DEF vars, HideHandoff, runVars, SubSent, recoveryVars
  <2>2. QED
    BY <1>1, <2>1, UnchangedIsCalm, PromptQuiet
    DEF Waits, Checkpoint, Of
<1>3. CASE DaemonRestart
  <2>1. Reconcile /\ recoveryDue' = TRUE /\ UNCHANGED <<live, worker>>
    BY <1>3 DEF DaemonRestart, runVars
  <2>2. QueueCalm
    BY <1>1, <2>1, ReconcileIsCalm
  <2>3. ~Mine'
    BY <1>1, <2>1, ReconcileIsCalm DEF PromptInv, LeaseInv, Mine, NoLease
  <2>4. LeaseInv' /\ RunningInv' /\ StrandInv'
    BY <2>1, <2>2, <2>3 DEF PromptInv, LeaseInv, RunningInv, StrandInv, Pending, QueueCalm
  <2>5. QED
    BY <1>1, <2>4 DEF PromptInv
<1>4. CASE AppCrash
  <2>1. live' = [a \in Attempts |-> 0] /\ worker' = Idle /\ recoveryDue' = TRUE
    BY <1>4 DEF AppCrash
  <2>2. worker'.pc = "idle"
    BY <2>1 DEF Idle
  <2>3. LeaseInv' /\ RunningInv' /\ StrandInv'
    BY <2>1, <2>2 DEF LeaseInv, Mine, RunningInv, StrandInv, Pending
  <2>4. QED
    BY <1>1, <2>3 DEF PromptInv
<1>5. QED
  BY <1>1, <1>2, <1>3, <1>4, RunKeepsPrompt, WorkerKeepsPrompt, SubmitKeepsPrompt,
     UserKeepsPrompt, RecoveryKeepsPrompt DEF Next

LEMMA PromptInit == Init => PromptInv
<1> SUFFICES ASSUME Init PROVE PromptInv
  OBVIOUS
<1>1. /\ \A a \in Attempts : Checkpoint(a) = "none" /\ att[a].held = NoHold /\ live[a] = 0
      /\ worker.pc = "idle"
  BY DEF Init, NoRow, Idle, Checkpoint
<1>2. HeldRest /\ LeaseInv /\ RunningInv
  BY <1>1 DEF HeldRest, HeldInv, LeaseInv, Mine, RunningInv
<1>3. StrandInv
  BY <1>1 DEF StrandInv, Waits, Preparing
<1>4. QED
  BY <1>2, <1>3 DEF PromptInv

(* As long as questions to the daemon are answered, nobody resumes an       *)
(* attempt before its lease is given back and the worker waits for the      *)
(* recovery, no attempt is left behind: what waits, or was interrupted in   *)
(* its preparation, has an entry or is on its way to one, through crashes   *)
(* of the app and of the daemon and whatever a person does to the queue.    *)
THEOREM NobodyIsStranded ==
    ASSUME Prompt
    PROVE  Spec => []NeverStranded
<1>1. ASSUME BaseInv, PromptInv, [Next]_vars
      PROVE  BaseInv' /\ PromptInv'
  BY <1>1, BaseStepKeeps, PromptStepKeeps
<1>2. PromptInv => NeverStranded
  BY DEF PromptInv, StrandInv, Pending, Waits, Gone, NeverStranded
<1>3. QED
  BY <1>1, <1>2, BaseInit, PromptInit, PTL DEF Spec
=============================================================================
