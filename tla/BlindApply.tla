----------------------------- MODULE BlindApply -----------------------------
(***************************************************************************)
(* Blind Apply, which finds, prepares and sends applications without a     *)
(* person looking at each: apps/desktop/electron/blind-apply-runner.ts     *)
(* over workspace/blind-apply-store.ts.                                    *)
(*                                                                         *)
(* A person authorizes it; every turn of the runner then records new       *)
(* vacancies as items, starts an attempt for a queued item, follows the    *)
(* attempt while the application pipeline prepares it, and sends what is   *)
(* ready.  Stop may come at any moment: between two awaits of a turn, of   *)
(* an answer or of the recovery.  What keeps it safe is that every change  *)
(* of an item is a compare-and-set on the state it is expected in, and     *)
(* that the authorization is read again in the step that clicks.           *)
(*                                                                         *)
(* An item is a vacancy under an authorization; its attempt has its name.  *)
(* Of the pipeline (ApplicationAttempt) only what an attempt looks like    *)
(* from the runner is kept: its checkpoint, its queue entry, its page and  *)
(* how far the run is that has its lease.                                  *)
(* Everything in the database survives a crash of the app; turns, pages    *)
(* and the set of stopped authorizations do not.                           *)
(***************************************************************************)
EXTENDS Naturals, FiniteSets

CONSTANTS
    Vacancies,      \* postings in the latest report
    Identity,       \* the employer and role of a posting
    MaxAuths,       \* bound: authorizations
    MaxFaults,      \* bound: crashes, restarts of the daemon, lost runs
    Events,         \* which of PossibleEvents happen
    NoItem

(* crash: the app dies.  respawn: the daemon alone does, and is adopted     *)
(* again.  throw: a preparation breaks off, say because the daemon does not *)
(* answer.  hang: one outlives its ceiling and is abandoned.                *)
(* overlap: a turn outlives its hard timeout and another one begins.        *)
(* change: the person edits the CV or the profile.                          *)
PossibleEvents == {"crash", "respawn", "throw", "hang", "overlap", "change"}

Auths == 1 .. MaxAuths
Items == Auths \X Vacancies
Turns == {1, 2}

ASSUME BlindAssumption ==
    /\ MaxAuths \in Nat
    /\ MaxFaults \in Nat
    /\ Events \subseteq PossibleEvents
    /\ NoItem \notin Items

VARIABLES
    auth,           \* blind_apply_authorizations: none, active or stopped
    stopRequested,  \* the authorizations this process has stopped
    item,           \* blind_apply_items
    att,            \* the attempt of an item, its queue entry, page and run
    turn,           \* the calls of tick()
    guard,          \* the turn that holds the tick's in-flight guard, or 0
    submitsInFlight,
    closing,        \* attempts a Stop has still to cancel and close
    enabling,       \* a person has confirmed; the old work is being stopped
    answering,      \* the item whose answer is being passed on
    recovery,       \* recoverApplicationPipelineOnStartup
    changed,        \* the CV or the profile is not the authorized one
    faults,
    received        \* how often the employer received the item's attempt

vars == <<auth, stopRequested, item, att, turn, guard, submitsInFlight, closing,
          enabling, answering, recovery, changed, faults, received>>

(* "skipped" stands for "apply_yourself", too: the decision not to touch a   *)
(* vacancy at all.                                                          *)
TerminalStates == {"submitted", "outcome_unknown", "could_not_submit", "skipped",
                   "stopped"}
StoppableStates == {"queued", "preparing", "ready", "needs_answer", "needs_you"}
LiveStates == StoppableStates \union {"submitting"}
IdentityBlockingStates == LiveStates \union {"submitted", "outcome_unknown"}

Completed == {"submitted", "submission_unknown"}
NonTerminal == {"queued", "preparing", "filling", "ready", "submitting",
                "needs_user", "submission_unknown"}
Checkpoints == {"none", "failed", "skipped"} \union NonTerminal \union Completed

(* Not isSettledCheckpoint: a run that gets the lease prepares the attempt. *)
Unsettled == {"queued", "preparing", "filling"}

(* Of checkpointDetail the runner tells three apart. *)
Notes == {"", "captcha", "posting"}

TurnSteps == {"idle", "facts", "select", "liveness", "prepare", "resume",
              "resumed", "start", "starting", "started", "submit", "gate",
              "click", "observe"}

NoTurn == [pc |-> "idle", auth |-> 0, todo |-> {}, cands |-> {}, cur |-> NoItem,
           paused |-> FALSE, accepted |-> FALSE]

TypeOK ==
    /\ auth \in [Auths -> {"none", "active", "stopped"}]
    /\ stopRequested \subseteq Auths
    /\ item \in [Items -> [state : LiveStates \union TerminalStates \union {"none"},
                           attempt : BOOLEAN, prepRetries : 0 .. 1]]
    /\ att \in [Items -> [checkpoint : Checkpoints, note : Notes,
                          entry : {"absent", "queued", "active", "cancelled"},
                          page : BOOLEAN,
                          run : {"none", "prepares", "fills"}]]
    /\ turn \in [Turns -> [pc : TurnSteps, auth : 0 .. MaxAuths,
                           todo : SUBSET (Items \X {0, 1}), cands : SUBSET Vacancies,
                           cur : Items \union {NoItem}, paused : BOOLEAN,
                           accepted : BOOLEAN]]
    /\ guard \in {0} \union Turns
    /\ submitsInFlight \subseteq Items
    /\ closing \subseteq Items
    /\ enabling \in BOOLEAN
    /\ answering \in [item : Items \union {NoItem}, pc : {"idle", "resume", "resumed"}]
    /\ recovery \in {"idle", "due", "items"}
    /\ changed \in BOOLEAN
    /\ faults \in 0 .. MaxFaults
    /\ received \in [Items -> Nat]

NoAnswer == [item |-> NoItem, pc |-> "idle"]

Init ==
    /\ auth = [a \in Auths |-> "none"]
    /\ stopRequested = {}
    /\ item = [i \in Items |-> [state |-> "none", attempt |-> FALSE, prepRetries |-> 0]]
    /\ att = [i \in Items |-> [checkpoint |-> "none", note |-> "", entry |-> "absent",
                               page |-> FALSE, run |-> "none"]]
    /\ turn = [t \in Turns |-> NoTurn]
    /\ guard = 0
    /\ submitsInFlight = {}
    /\ closing = {}
    /\ enabling = FALSE
    /\ answering = NoAnswer
    /\ recovery = "idle"
    /\ changed = FALSE
    /\ faults = 0
    /\ received = [i \in Items |-> 0]

storeVars == <<auth, stopRequested>>
personVars == <<closing, enabling, answering, changed>>
hostVars == <<recovery, faults>>

-----------------------------------------------------------------------------
(* The store: what a step does to the items is a compare-and-set.           *)

(* isActive: the database is the authority, the flag only adds speed. *)
IsActive(a) == a \notin stopRequested /\ auth[a] = "active"

(* transitionBlindApplyItem *)
Move(items, i, expected, to) ==
    IF items[i].state \in expected \ TerminalStates
      THEN [items EXCEPT ![i].state = to] ELSE items

RoleOf(i) == Identity[i[2]]

(* findIdentityBlockingBlindApplyItem, also inside insertBlindApplyItem. *)
ItemBlocks(v) ==
    \E i \in Items : RoleOf(i) = Identity[v] /\ item[i].state \in IdentityBlockingStates

(* The in-progress and the completed lookup of createApplicationAttempt. *)
AttemptBlocks(v) ==
    \E i \in Items : RoleOf(i) = Identity[v] /\ att[i].checkpoint \in NonTerminal \union Completed

(* Mutant: the transaction does not look for another item of the role. *)
InsertUnchecked(i, to) == [item EXCEPT ![i].state = to]

(* insertBlindApplyItem: once per vacancy and authorization; a live item is *)
(* refused when another one covers the role, and recorded as a duplicate.   *)
Insert(i, to) ==
    IF item[i].state # "none" THEN item
    ELSE [item EXCEPT ![i].state =
              IF to \in LiveStates /\ ItemBlocks(i[2]) THEN "skipped" ELSE to]

(* settleFromAttempt *)
Settled(items, i, expected) ==
    CASE att[i].checkpoint = "submitted" -> Move(items, i, expected, "submitted")
      [] att[i].checkpoint = "submission_unknown" -> Move(items, i, expected, "outcome_unknown")
      [] att[i].checkpoint = "needs_user" -> Move(items, i, expected, "could_not_submit")
      [] OTHER -> items

(* Mutant: only the items of the active authorization are looked at. *)
ReconcileAllActive ==
    [i \in Items |->
        IF item[i].state # "submitting" \/ i \in submitsInFlight \/ auth[i[1]] # "active"
          THEN item[i]
        ELSE IF att[i].checkpoint = "ready"
               THEN [item[i] EXCEPT !.state = "could_not_submit"]
               ELSE Settled(item, i, {"submitting"})[i]]

(* reconcileAllSubmitting: what nobody is sending any more says what its    *)
(* attempt says.                                                            *)
ReconcileAllSubmitting ==
    [i \in Items |->
        IF item[i].state # "submitting" \/ i \in submitsInFlight THEN item[i]
        ELSE IF att[i].checkpoint = "ready"
               THEN [item[i] EXCEPT !.state = "could_not_submit"]
               ELSE Settled(item, i, {"submitting"})[i]]

(* The daemon's enqueue: a live entry is left alone. *)
Enqueued(a, i) ==
    [a EXCEPT ![i].entry = IF @ \in {"queued", "active"} THEN @ ELSE "queued"]

(* pipeline.requeue: the page goes, and the attempt is queued from the      *)
(* start, whatever it is at: the patch gives a reason.                      *)
Requeued(i) ==
    Enqueued([att EXCEPT ![i].checkpoint = "queued", ![i].note = "", ![i].page = FALSE], i)

-----------------------------------------------------------------------------
(* A turn of the runner.                                                    *)

TurnKeeps == <<storeVars, personVars, hostVars, received>>

(* The items of an authorization in some state, as a query returns them:    *)
(* each with the number of retries its row has.                             *)
Listed(items, a, state) ==
    {<<i, items[i].prepRetries>> :
        i \in {j \in Items : j[1] = a /\ items[j].state = state}}

(* The four loops of tick() follow each other without an await: a turn r    *)
(* that is through with one of them is at the first of the others that has  *)
(* something to do.  A Stop ends the first and the last.                    *)
ToSubmit(r, items) ==
    LET todo == Listed(items, r.auth, "ready") IN
    IF todo = {} \/ ~IsActive(r.auth) THEN NoTurn
    ELSE [r EXCEPT !.pc = "submit", !.todo = todo]

ToStart(r, items) ==
    LET todo == Listed(items, r.auth, "queued") IN
    IF r.paused THEN NoTurn
    ELSE IF todo = {} THEN ToSubmit(r, items)
    ELSE [r EXCEPT !.pc = "start", !.todo = todo]

ToPrepare(r, items) ==
    LET todo == Listed(items, r.auth, "preparing") IN
    IF todo = {} THEN ToStart([r EXCEPT !.cands = {}], items)
    ELSE [r EXCEPT !.pc = "prepare", !.todo = todo, !.cands = {}]

Onward(r, items) ==
    CASE r.pc = "select" /\ (r.cands = {} \/ ~IsActive(r.auth)) -> ToPrepare(r, items)
      [] r.pc = "prepare" /\ r.todo = {} -> ToStart(r, items)
      [] r.pc = "start" /\ r.todo = {} -> ToSubmit(r, items)
      [] r.pc = "submit" /\ (r.todo = {} \/ ~IsActive(r.auth)) -> NoTurn
      [] OTHER -> r

(* The turn t goes on as r; a turn that ends frees the guard it holds. *)
Goes(t, r) ==
    /\ turn' = [turn EXCEPT ![t] = Onward(r, item')]
    /\ guard' = IF guard = t /\ turn'[t] = NoTurn THEN 0 ELSE guard

Goto(t, pc) == Goes(t, [turn[t] EXCEPT !.pc = pc, !.cur = NoItem, !.accepted = FALSE])

TurnBegins(t) ==
    /\ turn[t].pc = "idle"
    /\ \A u \in 1 .. t - 1 : turn[u].pc # "idle"
    /\ guard = 0
    /\ item' = ReconcileAllSubmitting
    /\ \E a \in Auths :
          /\ IsActive(a)
          /\ turn' = [turn EXCEPT ![t] = [NoTurn EXCEPT !.pc = "facts", !.auth = a]]
          /\ guard' = t
    /\ UNCHANGED <<att, submitsInFlight, TurnKeeps>>

(* Without an authorization a turn only brings in line what was being sent. *)
TurnFindsNothing ==
    /\ guard = 0
    /\ \A a \in Auths : ~IsActive(a)
    /\ item' = ReconcileAllSubmitting
    /\ UNCHANGED <<att, turn, guard, submitsInFlight, TurnKeeps>>

(* loadCurrentFacts: a changed CV pauses everything but following. *)
FactsRead(t) ==
    /\ turn[t].pc = "facts"
    /\ UNCHANGED item
    /\ Goes(t, [turn[t] EXCEPT !.pc = "select", !.paused = changed,
                   !.cands = {v \in Vacancies :
                        ~changed /\ item[<<turn[t].auth, v>>].state = "none"}])
    /\ UNCHANGED <<att, submitsInFlight, TurnKeeps>>

(* One candidate, up to the posting check: what the report and the store    *)
(* already decide is recorded at once.                                      *)
SelectChecks(t, v) ==
    LET i == <<turn[t].auth, v>> IN
    /\ turn[t].pc = "select"
    /\ v \in turn[t].cands
    /\ IsActive(turn[t].auth)
    /\ \/ /\ item' = Insert(i, "skipped")
          /\ Goes(t, [turn[t] EXCEPT !.cands = @ \ {v}])
       \/ /\ ~ItemBlocks(v) /\ ~AttemptBlocks(v)
          /\ UNCHANGED item
          /\ Goes(t, [turn[t] EXCEPT !.pc = "liveness", !.cur = i, !.cands = @ \ {v}])
    /\ UNCHANGED <<att, submitsInFlight, TurnKeeps>>

(* A Stop between two candidates, or two items to send. *)
TurnHearsStop(t) ==
    /\ turn[t].pc \in {"select", "submit"}
    /\ ~IsActive(turn[t].auth)
    /\ UNCHANGED item
    /\ Goes(t, turn[t])
    /\ UNCHANGED <<att, submitsInFlight, TurnKeeps>>

(* Mutant: a Stop during the posting check is not noticed. *)
LivenessAnswersLate(t) ==
    /\ turn[t].pc = "liveness"
    /\ \E to \in {"queued", "skipped", "none"} :
          item' = IF to = "none" THEN item ELSE Insert(turn[t].cur, to)
    /\ Goto(t, "select")
    /\ UNCHANGED <<att, submitsInFlight, TurnKeeps>>

(* The posting check answers: open, closed, or not at all.  A Stop that     *)
(* landed meanwhile wins.                                                   *)
LivenessAnswers(t) ==
    /\ turn[t].pc = "liveness"
    /\ \E to \in {"queued", "skipped", "none"} :
          item' = IF to = "none" \/ ~IsActive(turn[t].auth)
                    THEN item ELSE Insert(turn[t].cur, to)
    /\ Goto(t, "select")
    /\ UNCHANGED <<att, submitsInFlight, TurnKeeps>>

-----------------------------------------------------------------------------
(* Following the attempts.                                                  *)

(* Mutant: a failed preparation is waited for. *)
FollowsUntilReady(i) ==
    IF att[i].checkpoint = "ready" THEN Move(item, i, {"preparing"}, "ready") ELSE item

(* What a settled preparation makes of its item. *)
PreparationEnds(i) ==
    LET cp == att[i].checkpoint
        note == att[i].note IN
    IF cp = "ready" THEN "ready"
    ELSE IF cp = "skipped" THEN "stopped"
    ELSE IF cp = "needs_user" /\ note = "captcha" THEN "needs_you"
    ELSE IF cp = "needs_user" /\ note = "posting" THEN "skipped"
    ELSE "could_not_submit"

(* reconcilePreparing, unless it resumes the attempt. *)
Follows(i) ==
    IF att[i].checkpoint \in Completed THEN Settled(item, i, {"preparing"})
    ELSE IF att[i].checkpoint \in {"ready", "needs_user", "failed", "skipped"}
      THEN Move(item, i, {"preparing"}, PreparationEnds(i))
    ELSE item

PrepareNext(t) ==
    /\ turn[t].pc = "prepare"
    /\ \E p \in turn[t].todo :
          LET i == p[1] IN
          IF att[i].checkpoint = "failed" /\ p[2] < 1
            THEN /\ UNCHANGED item
                 /\ Goes(t, [turn[t] EXCEPT !.pc = "resume", !.cur = i, !.todo = @ \ {p}])
            ELSE /\ item' = Follows(i)
                 /\ Goes(t, [turn[t] EXCEPT !.todo = @ \ {p}])
    /\ UNCHANGED <<att, submitsInFlight, TurnKeeps>>

(* resumeApplicationAttempt: the page is closed and the attempt queued      *)
(* again.  One that cannot be any more is refused, or, when it changed      *)
(* while the page was being closed, the call throws.  Nothing asks whether  *)
(* the run that failed has given its lease back.                            *)
Resumed(i) == Requeued(i)

TurnResumes(t) ==
    LET i == turn[t].cur IN
    /\ turn[t].pc = "resume"
    /\ IF att[i].checkpoint \in {"failed", "needs_user"}
         THEN /\ UNCHANGED item
              /\ att' = Resumed(i)
              /\ Goes(t, [turn[t] EXCEPT !.pc = "resumed"])
         ELSE /\ item' \in {item, Move(item, i, {"preparing"}, "could_not_submit")}
              /\ UNCHANGED att
              /\ Goto(t, "prepare")
    /\ UNCHANGED <<submitsInFlight, TurnKeeps>>

TurnResumed(t) ==
    LET i == turn[t].cur IN
    /\ turn[t].pc = "resumed"
    /\ item' = IF item[i].state = "preparing"
                 THEN [item EXCEPT ![i].prepRetries = 1] ELSE item
    /\ Goto(t, "prepare")
    /\ UNCHANGED <<att, submitsInFlight, TurnKeeps>>

-----------------------------------------------------------------------------
(* Starting an attempt for a queued item.                                   *)

(* startItem, up to the row startApplicationAttempt creates; without one    *)
(* the item is settled.                                                     *)
StartNext(t) ==
    /\ turn[t].pc = "start"
    /\ \E p \in turn[t].todo :
          LET i == p[1] IN
          \/ /\ IsActive(turn[t].auth)
             /\ ~AttemptBlocks(i[2])
             /\ att' = [att EXCEPT ![i].checkpoint = "queued"]
             /\ UNCHANGED item
             /\ Goes(t, [turn[t] EXCEPT !.pc = "starting", !.cur = i, !.todo = @ \ {p}])
          \/ /\ IsActive(turn[t].auth)
             /\ item' = Move(item, i, {"queued"},
                             IF AttemptBlocks(i[2]) THEN "skipped" ELSE "could_not_submit")
             /\ Goes(t, [turn[t] EXCEPT !.todo = @ \ {p}])
             /\ UNCHANGED att
          \/ /\ ~IsActive(turn[t].auth)
             /\ UNCHANGED <<item, att>>
             /\ Goes(t, [turn[t] EXCEPT !.todo = @ \ {p}])
    /\ UNCHANGED <<submitsInFlight, TurnKeeps>>

(* The daemon queues the attempt, or cannot: then both are given up. *)
StartQueues(t) ==
    LET i == turn[t].cur IN
    /\ turn[t].pc = "starting"
    /\ \/ /\ att' = Enqueued(att, i)
          /\ UNCHANGED item
          /\ Goes(t, [turn[t] EXCEPT !.pc = "started"])
       \/ /\ att' = [att EXCEPT ![i].checkpoint = "failed"]
          /\ item' = Move(item, i, {"queued"}, "could_not_submit")
          /\ Goto(t, "start")
    /\ UNCHANGED <<submitsInFlight, TurnKeeps>>

(* What the daemon's cancel does to an entry. *)
Cancelled(a, i) ==
    [a EXCEPT ![i].entry = IF @ \in {"queued", "active"} THEN "cancelled" ELSE @]

(* A Stop that took the item meanwhile wins: what was queued is cancelled. *)
StartAnswered(t) ==
    LET i == turn[t].cur IN
    /\ turn[t].pc = "started"
    /\ IF item[i].state = "queued"
         THEN /\ item' = [item EXCEPT ![i].state = "preparing", ![i].attempt = TRUE]
              /\ UNCHANGED att
         ELSE /\ att' = Cancelled(att, i)
              /\ UNCHANGED item
    /\ Goto(t, "start")
    /\ UNCHANGED <<submitsInFlight, TurnKeeps>>

-----------------------------------------------------------------------------
(* Sending.                                                                 *)

(* submitItem, up to its call of submitApplicationReview: an item somebody  *)
(* sends already is left, one whose page is gone is prepared again.         *)
SubmitNext(t) ==
    /\ turn[t].pc = "submit"
    /\ IsActive(turn[t].auth)
    /\ \E p \in turn[t].todo :
          LET i == p[1] IN
          \/ /\ i \in submitsInFlight \/ att[i].checkpoint # "ready"
             /\ UNCHANGED <<item, att, submitsInFlight>>
             /\ Goes(t, [turn[t] EXCEPT !.todo = @ \ {p}])
          \/ /\ i \notin submitsInFlight
             /\ att[i].checkpoint = "ready"
             /\ ~att[i].page
             /\ item' = Move(item, i, {"ready"}, "preparing")
             /\ att' = IF item[i].state = "ready" THEN Requeued(i) ELSE att
             /\ Goes(t, [turn[t] EXCEPT !.todo = @ \ {p}])
             /\ UNCHANGED submitsInFlight
          \/ /\ i \notin submitsInFlight
             /\ att[i].checkpoint = "ready"
             /\ att[i].page
             /\ UNCHANGED <<item, att>>
             /\ Goes(t, [turn[t] EXCEPT !.pc = "gate", !.cur = i, !.todo = @ \ {p}])
             /\ submitsInFlight' = submitsInFlight \union {i}
    /\ UNCHANGED TurnKeeps

(* The call is over, and the item is moved as its answer says. *)
SubmitEnds(t, expected, to) ==
    /\ item' = Move(item, turn[t].cur, expected, to)
    /\ submitsInFlight' = submitsInFlight \ {turn[t].cur}
    /\ Goto(t, "submit")

(* The checks before the click refuse: a bot check, a page or a document    *)
(* that is not what it should be; or the page is gone and the call throws.  *)
GateRefuses(t) ==
    /\ turn[t].pc = "gate"
    /\ \/ SubmitEnds(t, {"ready"}, "needs_you")
       \/ SubmitEnds(t, {"ready"}, "could_not_submit")
       \/ ~att[turn[t].cur].page /\ SubmitEnds(t, {}, "ready")
    /\ UNCHANGED <<att, TurnKeeps>>

(* Mutant: the authorization was looked at when the call was made. *)
GatePassesUnasked(t) ==
    LET i == turn[t].cur IN
    /\ turn[t].pc = "gate"
    /\ att[i].page
    /\ item' = [item EXCEPT ![i].state = "submitting"]
    /\ att' = [att EXCEPT ![i].checkpoint = "submitting"]
    /\ Goes(t, [turn[t] EXCEPT !.pc = "click"])
    /\ UNCHANGED <<submitsInFlight, TurnKeeps>>

(* beforeClick, the checkpoint and the click, in one step: the last moment  *)
(* at which a Stop is heard.                                                *)
GatePasses(t) ==
    LET i == turn[t].cur IN
    /\ turn[t].pc = "gate"
    /\ att[i].page
    /\ IF IsActive(turn[t].auth) /\ item[i].state = "ready"
         THEN /\ item' = [item EXCEPT ![i].state = "submitting"]
              /\ att' = [att EXCEPT ![i].checkpoint = "submitting"]
              /\ Goes(t, [turn[t] EXCEPT !.pc = "click"])
              /\ UNCHANGED submitsInFlight
         ELSE SubmitEnds(t, {"ready"}, "stopped") /\ UNCHANGED att
    /\ UNCHANGED TurnKeeps

(* The outcome cp is written, with a reason, so also over what a recovery   *)
(* has meanwhile made of the attempt.                                       *)
Concludes(t, cp, to) ==
    LET i == turn[t].cur IN
    /\ att' = [att EXCEPT ![i].checkpoint = cp, ![i].note = "",
                          ![i].page = @ /\ cp \notin Completed]
    /\ SubmitEnds(t, {"submitting"}, to)

(* executor.submit: refused by the policy, failed in some other way, or     *)
(* done; in the last two cases the site may or may not have accepted.       *)
ClickRefused(t) ==
    /\ turn[t].pc = "click"
    /\ Concludes(t, "ready", "could_not_submit")
    /\ UNCHANGED TurnKeeps

Clicks(t) ==
    LET i == turn[t].cur IN
    /\ turn[t].pc = "click"
    /\ \E ok \in BOOLEAN :
          /\ received' = [received EXCEPT ![i] = IF ok THEN @ + 1 ELSE @]
          /\ \/ Concludes(t, "submission_unknown", "outcome_unknown")
             \/ /\ UNCHANGED <<item, att, submitsInFlight>>
                /\ Goes(t, [turn[t] EXCEPT !.pc = "observe", !.accepted = ok])
    /\ UNCHANGED <<storeVars, personVars, hostVars>>

(* Mutant: what could not be observed is sent again. *)
ObservesRetries(t) ==
    /\ turn[t].pc = "observe"
    /\ \/ turn[t].accepted /\ Concludes(t, "submitted", "submitted")
       \/ ~turn[t].accepted /\ Concludes(t, "needs_user", "could_not_submit")
       \/ Concludes(t, "ready", "ready")
    /\ UNCHANGED TurnKeeps

(* observeSubmissionOutcome: a receipt, a refusal of the site, or nothing. *)
Observes(t) ==
    /\ turn[t].pc = "observe"
    /\ \/ turn[t].accepted /\ Concludes(t, "submitted", "submitted")
       \/ ~turn[t].accepted /\ Concludes(t, "needs_user", "could_not_submit")
       \/ Concludes(t, "submission_unknown", "outcome_unknown")
    /\ UNCHANGED TurnKeeps

(* The hard timeout strikes while a turn waits for something: the guard is  *)
(* freed, and the turn goes on.                                             *)
HardTimeout(t) ==
    /\ "overlap" \in Events
    /\ guard = t
    /\ turn[t].pc \notin {"select", "prepare", "start", "submit"}
    /\ \A u \in Turns \ {t} : turn[u].pc = "idle"
    /\ guard' = 0
    /\ UNCHANGED <<turn, item, att, submitsInFlight, TurnKeeps>>

-----------------------------------------------------------------------------
(* The person: turning Blind Apply on and off, and answering.               *)

PersonKeeps == <<turn, guard, submitsInFlight, recovery, faults, received>>

(* Mutant: what is being sent is stopped, too. *)
StopItemsAll(a) ==
    [i \in Items |-> IF i[1] = a /\ item[i].state \in LiveStates
                       THEN [item[i] EXCEPT !.state = "stopped"] ELSE item[i]]

(* What a Stop of authorization a does before its first await. *)
StopItems(a) ==
    [i \in Items |-> IF i[1] = a /\ item[i].state \in StoppableStates
                       THEN [item[i] EXCEPT !.state = "stopped"] ELSE item[i]]

(* stop(): the authorization and every item not yet clicked, at once; the   *)
(* attempts of those that were queued, prepared or ready are torn down      *)
(* afterwards.                                                              *)
StopNow ==
    \E a \in Auths :
        /\ auth[a] = "active"
        /\ auth' = [auth EXCEPT ![a] = "stopped"]
        /\ stopRequested' = stopRequested \union {a}
        /\ item' = StopItems(a)
        /\ closing' = closing \union {i \in Items :
              i[1] = a /\ item[i].attempt /\ item[i].state \in {"queued", "preparing", "ready"}}

Stop ==
    /\ StopNow
    /\ UNCHANGED <<att, enabling, answering, changed, PersonKeeps>>

(* One attempt is cancelled in the queue and its page closed. *)
StopTearsDown(i) ==
    /\ i \in closing
    /\ closing' = closing \ {i}
    /\ att' = Cancelled([att EXCEPT ![i].page = FALSE], i)
    /\ UNCHANGED <<storeVars, item, enabling, answering, changed, PersonKeeps>>

(* requestBlindApplyAuthorization, once the person has confirmed: the old   *)
(* authorization is stopped first, by the same Stop.                        *)
EnableBegins ==
    /\ ~enabling
    /\ \E a \in Auths : auth[a] = "none"
    /\ enabling' = TRUE
    /\ IF \E a \in Auths : auth[a] = "active" THEN StopNow
       ELSE UNCHANGED <<storeVars, item, closing>>
    /\ UNCHANGED <<att, answering, changed, PersonKeeps>>

(* createBlindApplyAuthorization, for the CV and profile of this moment. *)
EnableCreates ==
    /\ enabling
    /\ closing = {}
    /\ enabling' = FALSE
    /\ changed' = FALSE
    /\ \E a \in Auths :
          /\ auth[a] = "none"
          /\ \A b \in 1 .. a - 1 : auth[b] # "none"
          /\ auth' = [b \in Auths |-> IF b = a THEN "active"
                                      ELSE IF auth[b] = "active" THEN "stopped" ELSE auth[b]]
    /\ UNCHANGED <<stopRequested, item, att, closing, answering, PersonKeeps>>

(* answer(): the answer is saved, and the attempt resumed. *)
AnswerBegins(i) ==
    /\ answering = NoAnswer
    /\ item[i].state = "needs_answer"
    /\ IsActive(i[1])
    /\ att[i].checkpoint = "needs_user"
    /\ answering' = [item |-> i, pc |-> "resume"]
    /\ UNCHANGED <<storeVars, item, att, closing, enabling, changed, PersonKeeps>>

AnswerResumes ==
    LET i == answering.item IN
    /\ answering.pc = "resume"
    /\ IF att[i].checkpoint \in {"failed", "needs_user"}
         THEN att' = Resumed(i) /\ answering' = [answering EXCEPT !.pc = "resumed"]
         ELSE answering' = NoAnswer /\ UNCHANGED att
    /\ UNCHANGED <<storeVars, item, closing, enabling, changed, PersonKeeps>>

AnswerMoves ==
    /\ answering.pc = "resumed"
    /\ item' = Move(item, answering.item, {"needs_answer"}, "preparing")
    /\ answering' = NoAnswer
    /\ UNCHANGED <<storeVars, att, closing, enabling, changed, PersonKeeps>>

ChangeCv ==
    /\ "change" \in Events
    /\ ~changed
    /\ changed' = TRUE
    /\ UNCHANGED <<storeVars, item, att, closing, enabling, answering, PersonKeeps>>

-----------------------------------------------------------------------------
(* The application pipeline, as the runner sees it.                         *)

PipelineKeeps == <<storeVars, personVars, hostVars, turn, guard, submitsInFlight, received>>

(* The one worker, when it is free, gets the lease; a run that finds its    *)
(* attempt settled is over at once.  An active entry without a run is one   *)
(* the worker has still to release.                                         *)
RunEnters(i) ==
    /\ att[i].entry = "queued"
    /\ \A j \in Items : att[j].run = "none" /\ att[j].entry # "active"
    /\ att' = IF att[i].checkpoint \in Unsettled
                THEN [att EXCEPT ![i].entry = "active", ![i].run = "prepares",
                                 ![i].checkpoint = "preparing", ![i].note = ""]
                ELSE [att EXCEPT ![i].entry = "active"]
    /\ UNCHANGED <<item, PipelineKeeps>>

(* A run at the step s. *)
Runs(i, s) == att[i].run = s /\ att[i].checkpoint \in Unsettled

(* settle(): the run writes its outcome and returns; the lease is not       *)
(* released yet.                                                            *)
RunEnded(i, cp, n) ==
    att' = [att EXCEPT ![i].checkpoint = cp, ![i].note = n, ![i].run = "none"]

(* The run asks the queue before it opens the page. *)
RunOpens(i) ==
    /\ Runs(i, "prepares")
    /\ IF att[i].entry = "cancelled" THEN RunEnded(i, "skipped", "")
       ELSE att' = [att EXCEPT ![i].checkpoint = "filling", ![i].note = "",
                               ![i].page = TRUE, ![i].run = "fills"]
    /\ UNCHANGED <<item, PipelineKeeps>>

(* Whatever stops a preparation.  (One whose row was settled behind its     *)
(* back, by a start that could not be queued, just ends here: its item is   *)
(* done.)                                                                   *)
RunStops(i) ==
    /\ \/ Runs(i, "prepares") /\ \E n \in {"", "posting"} : RunEnded(i, "needs_user", n)
       \/ Runs(i, "fills") /\ \E n \in {"", "captcha"} : RunEnded(i, "needs_user", n)
       \/ Runs(i, "fills") /\ RunEnded(i, "failed", "")
       \/ /\ att[i].run # "none" /\ att[i].checkpoint \notin Unsettled
          /\ att' = [att EXCEPT ![i].run = "none"]
    /\ UNCHANGED <<item, PipelineKeeps>>

(* The form is there: the field mapper fills it, or says what is missing.   *)
(* It does neither for an item that is not being handled.                   *)
RunFills(i) ==
    LET mine == /\ item[i].attempt
                /\ item[i].state \in {"preparing", "needs_answer"}
                /\ auth[i[1]] = "active"
    IN
    /\ Runs(i, "fills")
    /\ att[i].page
    /\ \/ mine /\ RunEnded(i, "ready", "") /\ UNCHANGED item
       \/ /\ mine
          /\ RunEnded(i, "needs_user", "")
          /\ \E to \in {"needs_answer", "needs_you"} :
                item' = Move(item, i, {"preparing", "needs_answer"}, to)
       \/ ~mine /\ RunEnded(i, "needs_user", "") /\ UNCHANGED item
    /\ UNCHANGED PipelineKeeps

(* The run ends without an outcome, and its row stays as it is. *)
RunFault(i, event) ==
    /\ event \in Events
    /\ faults < MaxFaults
    /\ faults' = faults + 1
    /\ att[i].run \in {"prepares", "fills"}
    /\ UNCHANGED <<item, storeVars, personVars, recovery, turn, guard, submitsInFlight, received>>

(* It throws; the worker will release its lease all the same. *)
RunBreaks(i) ==
    /\ RunFault(i, "throw")
    /\ att' = [att EXCEPT ![i].run = "none"]

(* The ceiling: the run is fenced off, its page is closed and its lease     *)
(* goes back to the queue.                                                  *)
RunAbandoned(i) ==
    /\ RunFault(i, "hang")
    /\ att' = [att EXCEPT ![i].run = "none", ![i].page = FALSE,
                          ![i].entry = IF @ = "active" THEN "queued" ELSE @]

(* The worker releases the lease of a run that is over, which closes the    *)
(* entry.  (A lease that is gone by then is not missed.)                    *)
RunReleases(i) ==
    /\ att[i].run = "none"
    /\ att[i].entry = "active"
    /\ att' = [att EXCEPT ![i].entry = "absent"]
    /\ UNCHANGED <<item, PipelineKeeps>>

-----------------------------------------------------------------------------
(* Crashes, and what is done when a daemon is adopted.                      *)

HostKeeps == <<changed, received>>

(* A new daemon queues the entry again whose lease it finds. *)
LeaseReturned(a) == [a EXCEPT !.entry = IF @ = "active" THEN "queued" ELSE @]

Dies ==
    /\ "crash" \in Events
    /\ faults < MaxFaults
    /\ faults' = faults + 1
    /\ recovery' = "due"
    /\ stopRequested' = {}
    /\ turn' = [t \in Turns |-> NoTurn]
    /\ guard' = 0
    /\ submitsInFlight' = {}
    /\ closing' = {}
    /\ enabling' = FALSE
    /\ answering' = NoAnswer
    /\ att' = [i \in Items |-> [LeaseReturned(att[i]) EXCEPT !.page = FALSE, !.run = "none"]]
    /\ UNCHANGED HostKeeps

Crash == Dies /\ UNCHANGED <<auth, item>>

(* The app dies in the middle of a Stop, whose writes are separate          *)
(* transactions.                                                            *)
StopDies(done) ==
    /\ Dies
    /\ \E a \in Auths :
          /\ auth[a] = "active"
          /\ auth' = [auth EXCEPT ![a] = "stopped"]
          /\ item' = [i \in Items |-> IF i \in done THEN StopItems(a)[i] ELSE item[i]]

Respawn ==
    /\ "respawn" \in Events
    /\ faults < MaxFaults
    /\ recovery = "idle"
    /\ faults' = faults + 1
    /\ recovery' = "due"
    /\ att' = [i \in Items |-> LeaseReturned(att[i])]
    /\ UNCHANGED <<item, stopRequested, turn, guard, submitsInFlight, closing,
                   enabling, answering, auth, HostKeeps>>

(* recoverInterruptedApplicationAttempts: a preparation starts again, a     *)
(* submission may have been sent, and what waits is queued again unless it  *)
(* was cancelled.  A run that survived a respawn goes on.                   *)
RecoverAttempts ==
    /\ recovery = "due"
    /\ recovery' = "items"
    /\ att' = [i \in Items |->
          CASE att[i].checkpoint \in {"preparing", "filling"} ->
                 [Enqueued(att, i)[i] EXCEPT !.checkpoint = "queued", !.note = ""]
            [] att[i].checkpoint = "submitting" ->
                 [att[i] EXCEPT !.checkpoint = "submission_unknown"]
            [] att[i].checkpoint = "queued" /\ att[i].entry # "cancelled" ->
                 Enqueued(att, i)[i]
            [] OTHER -> att[i]]
    /\ UNCHANGED <<item, stopRequested, turn, guard, submitsInFlight, closing, enabling,
                   answering, faults, auth, HostKeeps>>

(* recoverOnStartup: what a stopped authorization left is stopped, what was *)
(* being sent is brought in line, and what was ready is prepared again.     *)
RecoverItems ==
    LET again == {i \in Items : auth[i[1]] = "active" /\ item[i].state = "ready" /\ ~att[i].page} IN
    /\ recovery = "items"
    /\ recovery' = "idle"
    /\ item' = [i \in Items |->
          IF item[i].state \in StoppableStates /\ auth[i[1]] = "stopped"
            THEN [item[i] EXCEPT !.state = "stopped"]
          ELSE IF i \in again THEN [item[i] EXCEPT !.state = "preparing"]
          ELSE ReconcileAllSubmitting[i]]
    /\ att' = [i \in Items |-> IF i \in again THEN Requeued(i)[i] ELSE att[i]]
    /\ UNCHANGED <<stopRequested, turn, guard, submitsInFlight, closing, enabling,
                   answering, faults, auth, HostKeeps>>

-----------------------------------------------------------------------------
TurnGoesOn(t) ==
    \/ FactsRead(t)
    \/ \E v \in Vacancies : SelectChecks(t, v)
    \/ LivenessAnswers(t)
    \/ TurnHearsStop(t)
    \/ PrepareNext(t)
    \/ TurnResumes(t)
    \/ TurnResumed(t)
    \/ StartNext(t)
    \/ StartQueues(t)
    \/ StartAnswered(t)
    \/ SubmitNext(t)
    \/ GateRefuses(t)
    \/ GatePasses(t)
    \/ ClickRefused(t)
    \/ Clicks(t)
    \/ Observes(t)

Pipeline(i) ==
    \/ RunEnters(i) \/ RunOpens(i) \/ RunStops(i) \/ RunFills(i)
    \/ RunBreaks(i) \/ RunAbandoned(i) \/ RunReleases(i)

Recovers == RecoverAttempts \/ RecoverItems

Next ==
    \/ \E t \in Turns : TurnBegins(t) \/ TurnGoesOn(t) \/ HardTimeout(t)
    \/ TurnFindsNothing
    \/ Stop
    \/ EnableBegins
    \/ EnableCreates
    \/ AnswerResumes
    \/ AnswerMoves
    \/ ChangeCv
    \/ \E i \in Items : StopTearsDown(i) \/ AnswerBegins(i) \/ Pipeline(i)
    \/ Crash
    \/ \E done \in SUBSET Items : StopDies(done)
    \/ Respawn
    \/ Recovers

(* The turns come every 30 seconds, every await of a turn or the recovery   *)
(* ends, and the posting check answers.  A run goes on, breaks off or is    *)
(* abandoned at its ceiling, and the worker then releases.  The person need *)
(* not do anything.                                                         *)
Fairness ==
    /\ WF_vars(TurnFindsNothing)
    /\ \A t \in Turns : WF_vars(TurnGoesOn(t))
    /\ WF_vars(\E t \in Turns : TurnBegins(t))
    /\ \A i \in Items : WF_vars(Pipeline(i)) /\ WF_vars(StopTearsDown(i))
    /\ WF_vars(AnswerResumes \/ AnswerMoves)
    /\ WF_vars(Recovers)

Spec == Init /\ [][Next]_vars
FairSpec == Spec /\ Fairness

-----------------------------------------------------------------------------
(* However turns overlap and authorizations replace each other, at most one *)
(* item of an employer and role is alive or sent (insertBlindApplyItem).    *)
OneItemPerRole ==
    \A i, j \in Items :
        /\ RoleOf(i) = RoleOf(j)
        /\ item[i].state \in IdentityBlockingStates
        /\ item[j].state \in IdentityBlockingStates
        => i = j

(* No employer receives two applications for a role, through crashes,       *)
(* respawned daemons, retries and renewed authorizations.                   *)
OneApplicationPerRole ==
    \A i, j \in Items :
        RoleOf(i) = RoleOf(j) /\ received[i] > 0 /\ received[j] > 0
        => i = j /\ received[i] = 1

(* What an employer received is never shown as stopped, skipped or not      *)
(* sent, whichever of the turn, the Stop and the recovery came last.        *)
SentIsShown ==
    \A i \in Items :
        received[i] > 0 => item[i].state \in {"submitting", "submitted", "outcome_unknown"}

(* A Stop is final for everything not yet clicked: no turn, answer, field   *)
(* mapper or posting check that was under way leaves an item alive under    *)
(* a stopped authorization, except from a crash until the recovery.         *)
StoppedIsQuiet ==
    \A i \in Items :
        auth[i[1]] = "stopped" /\ recovery = "idle" => item[i].state \notin StoppableStates

(* Nothing is sent under an authorization that was withdrawn: once it is    *)
(* no longer active, an item that was not at "Sending" by then does not get *)
(* there and does not reach the employer, whatever turns were between their *)
(* checks and the click (beforeClick reads the authorization in the step    *)
(* that commits to the click, and nobody settles an item behind a click).   *)
NothingSentAfterStop ==
    [][\A i \in Items :
          auth[i[1]] # "active" /\ item[i].state # "submitting"
          => item'[i].state # "submitting" /\ received'[i] = received[i]]_vars

(* "a completed item can never be moved again" (transitionBlindApplyItem).  *)
TerminalIsFinal ==
    [][\A i \in Items :
          item[i].state \in TerminalStates => item'[i].state = item[i].state]_vars

(* No item is left at "Sending": a send that a crash, a Stop or a new       *)
(* authorization overtook is settled from its attempt.                      *)
SendingEnds == \A i \in Items : []<>(item[i].state # "submitting")

(* The row says that the attempt waits or is being prepared, and neither    *)
(* the queue nor a run knows of it.                                         *)
Stranded(i) ==
    /\ att[i].checkpoint \in Unsettled
    /\ att[i].entry = "absent"
    /\ att[i].run = "none"

(* An item Blind Apply works on is sent, given up or put before the person, *)
(* unless the CV changes, which pauses it until the person confirms again,  *)
(* or its attempt is stranded: by a run that breaks off, or by a resume     *)
(* between the end of a run and the release of its lease.  Then it waits    *)
(* for the next recovery.  It never waits for an attempt that has settled,  *)
(* or that the queue or a run will settle.                                  *)
ItemsMoveOn ==
    \A i \in Items :
        []<>(\/ item[i].state \notin {"queued", "preparing", "ready"}
             \/ changed
             \/ Stranded(i))
=============================================================================
