-------------------------- MODULE BlindApplyProofs --------------------------
(***************************************************************************)
(* Theorems about BlindApply, for any number of vacancies, roles,          *)
(* authorizations and faults.                                              *)
(*                                                                         *)
(* That one item of a role at most is alive or sent, and that a finished   *)
(* item never moves again, rest on one fact about the code,                *)
(* StepChangesItems: whatever a step of the runner, the pipeline, the      *)
(* person or the recovery does, it moves items out of live states (the     *)
(* compare-and-set of transitionBlindApplyItem) or inserts one             *)
(* (insertBlindApplyItem).                                                 *)
(*                                                                         *)
(* That nothing is sent twice, sent after a Stop or hidden once it was     *)
(* sent rests on BlindInv.  Most steps are CalmSteps, which begin no       *)
(* sending and end none; the others are SubmitNext, GatePasses, Clicks and *)
(* the conclusions, a start that fails, and what the person and the host   *)
(* do to authorizations.                                                   *)
(***************************************************************************)
EXTENDS BlindApply, TLAPS

ItemStates == LiveStates \union TerminalStates \union {"none"}

ItemType ==
    item \in [Items -> [state : ItemStates, attempt : BOOLEAN, prepRetries : 0 .. 1]]

(* Items change in live states only. *)
ItemsMove ==
    /\ ItemType'
    /\ \A i \in Items : item'[i].state = item[i].state \/ item[i].state \in LiveStates

ItemInserted == \E i : \E to \in {"queued", "skipped"} : item' = Insert(i, to)

-----------------------------------------------------------------------------
LEMMA ItemsStart ==
    ASSUME Init
    PROVE  /\ item = [i \in Items |-> [state |-> "none", attempt |-> FALSE, prepRetries |-> 0]]
           /\ ItemType
<1>1. item = [i \in Items |-> [state |-> "none", attempt |-> FALSE, prepRetries |-> 0]]
  BY Zenon DEF Init
<1>2. "none" \in ItemStates /\ FALSE \in BOOLEAN /\ 0 \in 0 .. 1
  BY DEF ItemStates
<1>3. [state |-> "none", attempt |-> FALSE, prepRetries |-> 0]
        \in [state : ItemStates, attempt : BOOLEAN, prepRetries : 0 .. 1]
  BY <1>2, Zenon
<1>4. QED
  BY <1>1, <1>3, Zenon DEF ItemType

LEMMA Moved ==
    ASSUME ItemType, NEW i, NEW expected, expected \subseteq LiveStates,
           NEW to \in ItemStates, item' = Move(item, i, expected, to)
    PROVE  ItemsMove
<1>1. CASE item' = item
  BY <1>1 DEF ItemType, ItemsMove
<1>2. CASE item[i].state \in expected /\ item' = [item EXCEPT ![i].state = to]
  BY <1>2 DEF ItemType, ItemsMove
<1>3. QED
  BY <1>1, <1>2 DEF Move

LEMMA Unmoved ==
    ASSUME ItemType, item' = item
    PROVE  ItemsMove
BY DEF ItemType, ItemsMove

(* What settleFromAttempt does is a move, or nothing. *)
LEMMA SettledIsMove ==
    ASSUME NEW items, NEW i, NEW expected
    PROVE  \/ Settled(items, i, expected) = items
           \/ \E to \in ItemStates : Settled(items, i, expected) = Move(items, i, expected, to)
<1>1. {"submitted", "outcome_unknown", "could_not_submit"} \subseteq ItemStates
  BY DEF ItemStates, TerminalStates
<1>2. QED
  BY <1>1, Zenon DEF Settled

LEMMA FollowsIsMove ==
    ASSUME NEW i
    PROVE  \/ Follows(i) = item
           \/ \E to \in ItemStates : Follows(i) = Move(item, i, {"preparing"}, to)
<1>1. PreparationEnds(i) \in ItemStates
  BY DEF PreparationEnds, ItemStates, TerminalStates, LiveStates, StoppableStates
<1>2. QED
  BY <1>1, SettledIsMove, Zenon DEF Follows

LEMMA ReconciledMoves ==
    ASSUME ItemType, NEW i \in Items
    PROVE  /\ ReconcileAllSubmitting[i] \in [state : ItemStates, attempt : BOOLEAN,
                                             prepRetries : 0 .. 1]
           /\ \/ ReconcileAllSubmitting[i].state = item[i].state
              \/ item[i].state \in LiveStates
<1>1. \/ ReconcileAllSubmitting[i] = item[i]
      \/ /\ item[i].state = "submitting"
         /\ \/ ReconcileAllSubmitting[i] = [item[i] EXCEPT !.state = "could_not_submit"]
            \/ ReconcileAllSubmitting[i] = Settled(item, i, {"submitting"})[i]
  BY DEF ReconcileAllSubmitting
<1>2. CASE ReconcileAllSubmitting[i] = item[i]
  BY <1>2 DEF ItemType
<1>3. CASE /\ item[i].state = "submitting"
           /\ ReconcileAllSubmitting[i] = [item[i] EXCEPT !.state = "could_not_submit"]
  BY <1>3 DEF ItemType, ItemStates, TerminalStates, LiveStates
<1>4. CASE /\ item[i].state = "submitting"
           /\ ReconcileAllSubmitting[i] = Settled(item, i, {"submitting"})[i]
  <2>1. CASE Settled(item, i, {"submitting"}) = item
    BY <1>4, <2>1 DEF ItemType
  <2>2. ASSUME NEW to \in ItemStates,
               Settled(item, i, {"submitting"}) = Move(item, i, {"submitting"}, to)
        PROVE  ReconcileAllSubmitting[i] = [item[i] EXCEPT !.state = to]
    BY <1>4, <2>2 DEF Move, TerminalStates, ItemType
  <2>3. ASSUME NEW to \in ItemStates,
               ReconcileAllSubmitting[i] = [item[i] EXCEPT !.state = to]
        PROVE  ReconcileAllSubmitting[i] \in [state : ItemStates, attempt : BOOLEAN,
                                              prepRetries : 0 .. 1]
    BY <2>3 DEF ItemType
  <2>4. item[i].state \in LiveStates
    BY <1>4 DEF LiveStates
  <2>5. QED
    BY <2>1, <2>2, <2>3, <2>4, <1>2, SettledIsMove
<1>5. QED
  BY <1>1, <1>2, <1>3, <1>4

LEMMA Reconciled ==
    ASSUME ItemType, item' = ReconcileAllSubmitting
    PROVE  ItemsMove
<1>1. item' = [i \in Items |-> ReconcileAllSubmitting[i]]
  BY DEF ReconcileAllSubmitting
<1>2. QED
  BY <1>1, ReconciledMoves DEF ItemType, ItemsMove

LEMMA Stopped ==
    ASSUME ItemType, NEW a, item' = StopItems(a)
    PROVE  ItemsMove
BY DEF ItemType, ItemsMove, StopItems, ItemStates, TerminalStates, LiveStates

-----------------------------------------------------------------------------
(* The steps of a turn. *)
LEMMA TurnChangesItems ==
    ASSUME ItemType, NEW t \in Turns, TurnBegins(t) \/ TurnGoesOn(t) \/ HardTimeout(t)
    PROVE  ItemsMove \/ ItemInserted
<1> USE DEF ItemStates, TerminalStates, LiveStates, StoppableStates
<1>1. CASE TurnBegins(t)
  BY <1>1, Reconciled DEF TurnBegins
<1>2. CASE FactsRead(t) \/ TurnHearsStop(t) \/ HardTimeout(t)
  <2>1. item' = item
    BY <1>2 DEF FactsRead, TurnHearsStop, HardTimeout
  <2>2. QED
    BY <2>1, Unmoved
<1>3. ASSUME NEW v \in Vacancies, SelectChecks(t, v)
      PROVE  ItemsMove \/ ItemInserted
  <2>1. item' = item \/ item' = Insert(<<turn[t].auth, v>>, "skipped")
    BY <1>3 DEF SelectChecks
  <2>2. QED
    BY <2>1, Unmoved DEF ItemInserted
<1>4. CASE LivenessAnswers(t)
  <2>1. item' = item \/ \E to \in {"queued", "skipped"} : item' = Insert(turn[t].cur, to)
    BY <1>4 DEF LivenessAnswers
  <2>2. QED
    BY <2>1, Unmoved DEF ItemInserted
<1>5. CASE PrepareNext(t)
  <2>1. item' = item \/ \E i : item' = Follows(i)
    BY <1>5, Zenon DEF PrepareNext
  <2>2. QED
    BY <2>1, FollowsIsMove, Moved, Unmoved
<1>6. CASE TurnResumes(t)
  <2>1. \/ item' = item
        \/ item' = Move(item, turn[t].cur, {"preparing"}, "could_not_submit")
    BY <1>6 DEF TurnResumes
  <2>2. QED
    BY <2>1, Moved, Unmoved
<1>7. CASE TurnResumed(t)
  <2>1. \/ item' = item
        \/ item' = [item EXCEPT ![turn[t].cur].prepRetries = 1]
    BY <1>7 DEF TurnResumed
  <2>2. QED
    BY <2>1, Unmoved DEF ItemType, ItemsMove
<1>8. CASE StartNext(t)
  <2>1. \/ item' = item
        \/ \E i : \E to \in {"skipped", "could_not_submit"} :
              item' = Move(item, i, {"queued"}, to)
    BY <1>8 DEF StartNext
  <2>2. QED
    BY <2>1, Moved, Unmoved
<1>9. CASE StartQueues(t)
  <2>1. \/ item' = item
        \/ item' = Move(item, turn[t].cur, {"queued"}, "could_not_submit")
    BY <1>9 DEF StartQueues
  <2>2. QED
    BY <2>1, Moved, Unmoved
<1>10. CASE StartAnswered(t)
  <2>1. \/ item' = item
        \/ /\ item[turn[t].cur].state = "queued"
           /\ item' = [item EXCEPT ![turn[t].cur].state = "preparing",
                                   ![turn[t].cur].attempt = TRUE]
    BY <1>10 DEF StartAnswered
  <2>2. QED
    BY <2>1, Unmoved DEF ItemType, ItemsMove
<1>11. CASE SubmitNext(t)
  <2>1. item' = item \/ \E i : item' = Move(item, i, {"ready"}, "preparing")
    BY <1>11, Zenon DEF SubmitNext
  <2>2. QED
    BY <2>1, Moved, Unmoved
<1>12. ASSUME NEW expected, expected \subseteq LiveStates, NEW to \in ItemStates,
              SubmitEnds(t, expected, to)
       PROVE  ItemsMove
  BY <1>12, Moved DEF SubmitEnds
<1>13. CASE GateRefuses(t)
  BY <1>12, <1>13 DEF GateRefuses
<1>14. CASE GatePasses(t)
  <2>1. \/ SubmitEnds(t, {"ready"}, "stopped")
        \/ /\ item[turn[t].cur].state = "ready"
           /\ item' = [item EXCEPT ![turn[t].cur].state = "submitting"]
    BY <1>14 DEF GatePasses
  <2>2. QED
    BY <1>12, <2>1 DEF ItemType, ItemsMove
<1>15. ASSUME NEW cp, NEW to \in ItemStates, Concludes(t, cp, to)
       PROVE  ItemsMove
  <2>1. SubmitEnds(t, {"submitting"}, to)
    BY <1>15, Zenon DEF Concludes
  <2>2. QED
    BY <1>12, <2>1
<1>16. CASE ClickRefused(t) \/ Observes(t)
  BY <1>15, <1>16 DEF ClickRefused, Observes
<1>17. CASE Clicks(t)
  <2>1. item' = item \/ Concludes(t, "submission_unknown", "outcome_unknown")
    BY <1>17, Zenon DEF Clicks
  <2>2. QED
    BY <1>15, <2>1, Unmoved
<1>18. QED
  BY <1>1, <1>2, <1>3, <1>4, <1>5, <1>6, <1>7, <1>8, <1>9, <1>10, <1>11, <1>13, <1>14,
     <1>16, <1>17 DEF TurnGoesOn

LEMMA StepChangesItems ==
    ASSUME ItemType, [Next]_vars
    PROVE  ItemsMove \/ ItemInserted
<1> USE DEF ItemStates, TerminalStates, LiveStates, StoppableStates
<1>1. CASE UNCHANGED vars
  BY <1>1, Unmoved DEF vars
<1>2. ASSUME NEW t \in Turns, TurnBegins(t) \/ TurnGoesOn(t) \/ HardTimeout(t)
      PROVE  ItemsMove \/ ItemInserted
  BY <1>2, TurnChangesItems
<1>3. CASE TurnFindsNothing
  BY <1>3, Reconciled DEF TurnFindsNothing
<1>4. CASE Stop \/ EnableBegins
  <2>1. item' = item \/ \E a \in Auths : item' = StopItems(a)
    BY <1>4, Zenon DEF Stop, EnableBegins, StopNow
  <2>2. QED
    BY <2>1, Stopped, Unmoved
<1>5. CASE EnableCreates \/ AnswerResumes \/ ChangeCv \/ Crash \/ Respawn \/ RecoverAttempts
  <2>1. item' = item
    BY <1>5, Zenon DEF EnableCreates, AnswerResumes, ChangeCv, Crash, Respawn, RecoverAttempts
  <2>2. QED
    BY <2>1, Unmoved
<1>6. CASE AnswerMoves
  BY <1>6, Moved DEF AnswerMoves
<1>7. ASSUME NEW i \in Items, StopTearsDown(i) \/ AnswerBegins(i) \/ Pipeline(i)
      PROVE  ItemsMove
  <2>1. \/ item' = item
        \/ \E to \in {"needs_answer", "needs_you"} :
              item' = Move(item, i, {"preparing", "needs_answer"}, to)
    BY <1>7 DEF StopTearsDown, AnswerBegins, Pipeline, RunEnters, RunOpens, RunStops, RunFills,
         RunBreaks, RunAbandoned, RunFault, RunReleases
  <2>2. QED
    BY <2>1, Moved, Unmoved
<1>8. ASSUME NEW done, StopDies(done)
      PROVE  ItemsMove
  <2>1. PICK a \in Auths :
            item' = [i \in Items |-> IF i \in done THEN StopItems(a)[i] ELSE item[i]]
    BY <1>8, Zenon DEF StopDies
  <2>2. QED
    BY <2>1 DEF ItemType, ItemsMove, StopItems
<1>9. CASE RecoverItems
  <2>1. PICK again \in SUBSET {j \in Items : item[j].state = "ready"} :
            item' = [i \in Items |->
              IF item[i].state \in StoppableStates /\ auth[i[1]] = "stopped"
                THEN [item[i] EXCEPT !.state = "stopped"]
              ELSE IF i \in again THEN [item[i] EXCEPT !.state = "preparing"]
              ELSE ReconcileAllSubmitting[i]]
    BY <1>9 DEF RecoverItems
  <2>2. QED
    BY <2>1, ReconciledMoves DEF ItemType, ItemsMove
<1>10. QED
  BY <1>1, <1>2, <1>3, <1>4, <1>5, <1>6, <1>7, <1>8, <1>9 DEF Next, Recovers

-----------------------------------------------------------------------------
LEMMA InsertKeepsType ==
    ASSUME ItemType, ItemInserted
    PROVE  ItemType'
<1>1. PICK i : \E to \in {"queued", "skipped"} : item' = Insert(i, to)
  BY DEF ItemInserted
<1>2. \/ item' = item
      \/ \E s \in {"queued", "skipped"} : item' = [item EXCEPT ![i].state = s]
  BY <1>1 DEF Insert
<1>3. QED
  BY <1>2 DEF ItemType, ItemStates, LiveStates, StoppableStates, TerminalStates

LEMMA InsertKeepsRoles ==
    ASSUME ItemType, OneItemPerRole, ItemInserted
    PROVE  OneItemPerRole'
<1>1. PICK i : \E to \in {"queued", "skipped"} : item' = Insert(i, to)
  BY DEF ItemInserted
<1>2. CASE item' = item
  BY <1>2 DEF OneItemPerRole, RoleOf
<1>3. CASE item' = [item EXCEPT ![i].state = "skipped"]
  <2>1. \A j \in Items : item'[j].state \in IdentityBlockingStates =>
            item[j].state \in IdentityBlockingStates
    BY <1>3 DEF ItemType, IdentityBlockingStates, LiveStates, StoppableStates
  <2>2. QED
    BY <2>1 DEF OneItemPerRole, RoleOf
<1>4. CASE item' = [item EXCEPT ![i].state = "queued"] /\ ~ItemBlocks(i[2])
  <2>1. \A j \in Items : j # i => item'[j] = item[j]
    BY <1>4 DEF ItemType
  <2>2. \A j \in Items : RoleOf(j) = RoleOf(i) =>
            item[j].state \notin IdentityBlockingStates
    BY <1>4 DEF ItemBlocks, RoleOf
  <2>3. QED
    BY <2>1, <2>2 DEF OneItemPerRole, RoleOf
<1>5. QED
  BY <1>1, <1>2, <1>3, <1>4 DEF Insert, LiveStates, StoppableStates

(* For any number of vacancies and authorizations, with overlapping turns,  *)
(* Stops and crashes at any point, one item of an employer and role at most *)
(* is alive or sent: the transaction of insertBlindApplyItem looks, and     *)
(* every later writer moves only what is alive.                             *)
THEOREM RolesAreTakenOnce == Spec => []OneItemPerRole
<1>1. Init => ItemType /\ OneItemPerRole
  <2>1. ASSUME Init
        PROVE  OneItemPerRole
    BY <2>1, ItemsStart DEF OneItemPerRole, IdentityBlockingStates, LiveStates, StoppableStates
  <2>2. QED
    BY <2>1, ItemsStart
<1>2. ASSUME ItemType, OneItemPerRole, [Next]_vars
      PROVE  ItemType' /\ OneItemPerRole'
  <2>1. CASE ItemInserted
    BY <1>2, <2>1, InsertKeepsType, InsertKeepsRoles
  <2>2. CASE ItemsMove
    <3>1. \A j \in Items : item'[j].state \in IdentityBlockingStates =>
              item[j].state \in IdentityBlockingStates
      BY <2>2 DEF ItemsMove, IdentityBlockingStates
    <3>2. QED
      BY <1>2, <2>2, <3>1 DEF ItemsMove, OneItemPerRole, RoleOf
  <2>3. QED
    BY <1>2, <2>1, <2>2, StepChangesItems
<1>3. QED
  BY <1>1, <1>2, PTL DEF Spec

(* A submitted, skipped, stopped or otherwise finished item is never moved  *)
(* again, by no turn, answer, Stop or recovery that was under way.          *)
THEOREM EndsAreFinal == Spec => TerminalIsFinal
<1>1. Init => ItemType
  BY ItemsStart
<1>2. ASSUME ItemType, [Next]_vars
      PROVE  /\ ItemType'
             /\ \A i \in Items :
                  item[i].state \in TerminalStates => item'[i].state = item[i].state
  <2>1. CASE ItemsMove
    BY <2>1 DEF ItemsMove, LiveStates, StoppableStates, TerminalStates
  <2>2. CASE ItemInserted
    <3>1. PICK i : \E to \in {"queued", "skipped"} : item' = Insert(i, to)
      BY <2>2 DEF ItemInserted
    <3>2. \/ item' = item
          \/ item[i].state = "none" /\ \E s : item' = [item EXCEPT ![i].state = s]
      BY <3>1 DEF Insert
    <3>3. QED
      BY <1>2, <2>2, <3>2, InsertKeepsType DEF ItemType, TerminalStates
  <2>3. QED
    BY <1>2, <2>1, <2>2, StepChangesItems
<1>3. QED
  BY <1>1, <1>2, PTL DEF Spec, TerminalIsFinal

-----------------------------------------------------------------------------
(* Where a turn sends, and where it works through the items to send. *)
Sending == {"gate", "click", "observe"}
CalmSteps == {"idle", "facts", "select", "prepare", "start", "submit"}

TurnType == [pc : TurnSteps, auth : 0 .. MaxAuths, todo : SUBSET (Items \X {0, 1}),
             cands : SUBSET Vacancies, cur : Items \union {NoItem},
             paused : BOOLEAN, accepted : BOOLEAN]

AttType == [checkpoint : Checkpoints, note : Notes,
            entry : {"absent", "queued", "active", "cancelled"}, page : BOOLEAN,
            run : {"none", "prepares", "fills"}]

(* A turn is about items of its authorization, each of them once. *)
TurnOk(r) ==
    /\ r \in TurnType
    /\ \A p \in r.todo : p[1][1] = r.auth /\ p[1] # r.cur
    /\ \A p, q \in r.todo : p[1] = q[1] => p = q
    /\ r.cur # NoItem => r.cur[1] = r.auth
    /\ r.pc \in CalmSteps <=> r.cur = NoItem
    /\ r.pc # "idle" => r.auth \in Auths
    /\ r.pc \in {"facts", "select", "liveness"} => r.todo = {}

BlindType ==
    /\ ItemType
    /\ att \in [Items -> AttType]
    /\ turn \in [Turns -> TurnType]
    /\ \A t \in Turns : TurnOk(turn[t])
    /\ received \in [Items -> {0, 1}]
    /\ answering \in [item : Items \union {NoItem}, pc : {"idle", "resume", "resumed"}]
    /\ auth \in [Auths -> {"none", "active", "stopped"}]
    /\ changed \in BOOLEAN

(* Who sends an item sends it alone, and nobody moves the item meanwhile. *)
SendingInv ==
    \A t \in Turns :
        /\ turn[t].pc \in Sending => turn[t].cur \in submitsInFlight
        /\ turn[t].pc \in {"click", "observe"} => item[turn[t].cur].state = "submitting"
        /\ turn[t].pc = "click" => received[turn[t].cur] = 0
        /\ turn[t].pc = "observe" /\ ~turn[t].accepted => received[turn[t].cur] = 0
        /\ \A u \in Turns :
              turn[t].pc \in Sending /\ turn[u].pc \in Sending /\ turn[t].cur = turn[u].cur => t = u

(* The turn r is about to start or to resume the attempt of i. *)
Holds(r, i) ==
    \/ r.pc \in {"resume", "resumed", "starting", "started"} /\ r.cur = i
    \/ r.pc \notin {"submit"} \union Sending /\ \E p \in r.todo : p[1] = i

(* While an item is being sent its attempt is not prepared again: what is   *)
(* left of an older turn can make it fail, but then nobody resumes it.      *)
AttemptInv ==
    \A i \in Items : item[i].state = "submitting" =>
        /\ att[i].checkpoint \in {"submitting", "failed"} \union Completed
        /\ \A t, u \in Turns : Holds(turn[t], i) /\ Holds(turn[u], i) => t = u
        /\ att[i].checkpoint = "failed" => \A t \in Turns : ~Holds(turn[t], i)

AnswerInv ==
    answering.pc # "idle" =>
        /\ answering.item \in Items
        /\ item[answering.item].state \in {"needs_answer", "needs_you"} \union TerminalStates

(* One authorization at most is active, none while a new one is prepared. *)
AuthInv ==
    /\ \A a, b \in Auths : auth[a] = "active" /\ auth[b] = "active" => a = b
    /\ enabling => \A a \in Auths : auth[a] # "active"

BlindInv ==
    /\ BlindType /\ SendingInv /\ AttemptInv /\ AnswerInv /\ AuthInv
    /\ SentIsShown /\ StoppedIsQuiet

-----------------------------------------------------------------------------
(* What a step may do: to the items, the attempts and the turns.            *)

(* An item i changes without being sent: a compare-and-set of something not *)
(* yet clicked, an insertion, or the settling of what nobody sends.         *)
ItemCalm(i) ==
    LET s == item[i].state
        n == item'[i].state IN
    \/ n = s
    \/ s \in {"queued", "preparing", "ready"} /\ n \in ItemStates \ {"submitting", "none"}
    \/ s \in {"needs_answer", "needs_you"} /\ n \in {"needs_answer", "needs_you", "stopped"}
    \/ s = "none" /\ n = "skipped"
    \/ s = "none" /\ n = "queued" /\ auth[i[1]] = "active"
    \/ s = "submitting" /\ i \notin submitsInFlight /\ n \in {"submitted", "outcome_unknown"}

ItemsCalm == ItemType' /\ \A i \in Items : ItemCalm(i)

(* The attempt of what is being sent is left, or settled as sent. *)
AttemptsCalm ==
    /\ att' \in [Items -> AttType]
    /\ \A i \in Items : item[i].state = "submitting" =>
          \/ att'[i].checkpoint = att[i].checkpoint
          \/ att[i].checkpoint = "submitting" /\ att'[i].checkpoint \in Completed

(* No turn gets hold of what is being sent. *)
TurnsMove ==
    /\ turn' \in [Turns -> TurnType]
    /\ \A t \in Turns : TurnOk(turn'[t])
    /\ \A t \in Turns : \A i \in Items :
          item'[i].state = "submitting" /\ Holds(turn'[t], i) => Holds(turn[t], i)

(* No turn begins to send, and who sends goes on. *)
SendersStay ==
    \A t \in Turns : turn'[t].pc \in Sending =>
        turn'[t] = turn[t] /\ turn[t].cur \in submitsInFlight'

-----------------------------------------------------------------------------
LEMMA NoTurnOk == TurnOk(NoTurn) /\ NoTurn.pc = "idle" /\ \A i : ~Holds(NoTurn, i)
<1>1. /\ NoTurn.pc = "idle" /\ NoTurn.auth = 0 /\ NoTurn.todo = {} /\ NoTurn.cands = {}
      /\ NoTurn.cur = NoItem /\ NoTurn.paused = FALSE /\ NoTurn.accepted = FALSE
  BY DEF NoTurn
<1>2. NoTurn \in TurnType
  <2>1. /\ "idle" \in TurnSteps /\ 0 \in 0 .. MaxAuths /\ {} \in SUBSET (Items \X {0, 1})
        /\ {} \in SUBSET Vacancies /\ NoItem \in Items \union {NoItem} /\ FALSE \in BOOLEAN
    BY BlindAssumption DEF TurnSteps
  <2>2. QED
    BY <2>1, Zenon DEF NoTurn, TurnType
<1>3. QED
  BY <1>1, <1>2 DEF TurnOk, Holds, CalmSteps

(* What a query lists under the turn's authorization is something to do. *)
LEMMA ListedIsTodo ==
    ASSUME NEW items, items \in [Items -> [state : ItemStates, attempt : BOOLEAN,
                                           prepRetries : 0 .. 1]],
           NEW a, NEW s
    PROVE  /\ Listed(items, a, s) \in SUBSET (Items \X {0, 1})
           /\ \A p \in Listed(items, a, s) : p[1][1] = a /\ items[p[1]].state = s
           /\ \A p, q \in Listed(items, a, s) : p[1] = q[1] => p = q
<1>1. \A p \in Listed(items, a, s) : \E i \in Items :
          i[1] = a /\ items[i].state = s /\ p = <<i, items[i].prepRetries>>
  BY DEF Listed
<1>2. \A i \in Items : items[i].prepRetries \in {0, 1}
  BY SMT
<1>3. QED
  BY <1>1, <1>2

(* A turn at a calm step that takes up the list of another loop. *)
LEMMA TakesUp ==
    ASSUME NEW r, TurnOk(r), r.cur = NoItem, r.pc # "idle", ItemType',
           NEW s \in {"ready", "queued", "preparing"},
           NEW pc \in {"submit", "start", "prepare"},
           NEW n, n = [r EXCEPT !.pc = pc, !.todo = Listed(item', r.auth, s)]
    PROVE  /\ TurnOk(n) /\ n.pc \in CalmSteps
           /\ \A i \in Items : item'[i].state = "submitting" => ~Holds(n, i)
<1> DEFINE L == Listed(item', r.auth, s)
<1>1. /\ L \in SUBSET (Items \X {0, 1})
      /\ \A p \in L : p[1][1] = r.auth /\ item'[p[1]].state = s
      /\ \A p, q \in L : p[1] = q[1] => p = q
  BY ListedIsTodo DEF ItemType
<1> HIDE DEF L
<1>2. n = [r EXCEPT !.pc = pc, !.todo = L]
  BY DEF L
<1>3. /\ n \in TurnType /\ n.pc = pc /\ n.todo = L /\ n.auth = r.auth /\ n.cur = NoItem
  BY <1>1, <1>2 DEF TurnOk, TurnType, TurnSteps
<1>4. \A p \in L : p[1] # NoItem
  BY <1>1, BlindAssumption
<1>5. TurnOk(n) /\ n.pc \in CalmSteps
  BY <1>1, <1>3, <1>4 DEF TurnOk, CalmSteps
<1>6. ASSUME NEW i \in Items, item'[i].state = "submitting", Holds(n, i)
      PROVE  FALSE
  <2>1. PICK p \in L : p[1] = i
    BY <1>3, <1>6 DEF Holds
  <2>2. QED
    BY <1>1, <1>6, <2>1
<1>7. QED
  BY <1>5, <1>6

LEMMA ToSubmitOk ==
    ASSUME NEW r, TurnOk(r), r.cur = NoItem, r.pc # "idle", ItemType'
    PROVE  LET n == ToSubmit(r, item') IN
           /\ TurnOk(n) /\ n.pc \in CalmSteps
           /\ \A i \in Items : item'[i].state = "submitting" => ~Holds(n, i)
<1>1. \/ ToSubmit(r, item') = NoTurn
      \/ ToSubmit(r, item') = [r EXCEPT !.pc = "submit", !.todo = Listed(item', r.auth, "ready")]
  BY Zenon DEF ToSubmit
<1>2. QED
  BY <1>1, TakesUp, NoTurnOk DEF CalmSteps

LEMMA ToStartOk ==
    ASSUME NEW r, TurnOk(r), r.cur = NoItem, r.pc # "idle", ItemType'
    PROVE  LET n == ToStart(r, item') IN
           /\ TurnOk(n) /\ n.pc \in CalmSteps
           /\ \A i \in Items : item'[i].state = "submitting" => ~Holds(n, i)
<1>1. \/ ToStart(r, item') = NoTurn
      \/ ToStart(r, item') = ToSubmit(r, item')
      \/ ToStart(r, item') = [r EXCEPT !.pc = "start", !.todo = Listed(item', r.auth, "queued")]
  BY Zenon DEF ToStart
<1>2. QED
  BY <1>1, TakesUp, NoTurnOk, ToSubmitOk DEF CalmSteps

LEMMA ToPrepareOk ==
    ASSUME NEW r, TurnOk(r), r.cur = NoItem, r.pc # "idle", ItemType'
    PROVE  LET n == ToPrepare(r, item') IN
           /\ TurnOk(n) /\ n.pc \in CalmSteps
           /\ \A i \in Items : item'[i].state = "submitting" => ~Holds(n, i)
<1> DEFINE q == [r EXCEPT !.cands = {}]
<1>1. TurnOk(q) /\ q.cur = NoItem /\ q.auth = r.auth /\ q.pc # "idle"
  BY DEF TurnOk, TurnType
<1>2. \/ ToPrepare(r, item') = ToStart(q, item')
      \/ ToPrepare(r, item') = [r EXCEPT !.pc = "prepare",
                                  !.todo = Listed(item', r.auth, "preparing"), !.cands = {}]
  BY Zenon DEF ToPrepare
<1>3. [r EXCEPT !.pc = "prepare", !.todo = Listed(item', r.auth, "preparing"), !.cands = {}]
        = [q EXCEPT !.pc = "prepare", !.todo = Listed(item', q.auth, "preparing")]
  BY <1>1 DEF TurnOk, TurnType
<1> HIDE DEF q
<1>4. CASE ToPrepare(r, item') = ToStart(q, item')
  BY <1>1, <1>4, ToStartOk
<1>5. ASSUME NEW n, n = [q EXCEPT !.pc = "prepare", !.todo = Listed(item', q.auth, "preparing")]
      PROVE  /\ TurnOk(n) /\ n.pc \in CalmSteps
             /\ \A i \in Items : item'[i].state = "submitting" => ~Holds(n, i)
  BY <1>1, <1>5, TakesUp
<1>6. QED
  BY <1>2, <1>3, <1>4, <1>5

LEMMA OnwardOk ==
    ASSUME NEW r, TurnOk(r), ItemType'
    PROVE  LET n == Onward(r, item') IN
           /\ TurnOk(n)
           /\ n = r \/ n.pc \in CalmSteps
           /\ r.pc \notin {"select", "prepare", "start", "submit"} => n = r
           /\ \A i \in Items : item'[i].state = "submitting" /\ Holds(n, i) => Holds(r, i)
<1>1. \/ Onward(r, item') = r
      \/ r.pc \in {"select", "prepare", "start", "submit"} /\
           \/ Onward(r, item') = ToPrepare(r, item')
           \/ Onward(r, item') = ToStart(r, item')
           \/ Onward(r, item') = ToSubmit(r, item')
           \/ Onward(r, item') = NoTurn
  <2>1. /\ r.pc = "select" => r.pc \in {"select", "prepare", "start", "submit"}
        /\ r.pc = "prepare" => r.pc \in {"select", "prepare", "start", "submit"}
        /\ r.pc = "start" => r.pc \in {"select", "prepare", "start", "submit"}
        /\ r.pc = "submit" => r.pc \in {"select", "prepare", "start", "submit"}
    OBVIOUS
  <2>2. QED
    BY <2>1, Zenon DEF Onward
<1>2. r.pc \in {"select", "prepare", "start", "submit"} => r.cur = NoItem
  BY DEF TurnOk, CalmSteps
<1>3. QED
  BY <1>1, <1>2, ToPrepareOk, ToStartOk, ToSubmitOk, NoTurnOk DEF CalmSteps

(* A turn t that goes on as r, from a state where it held no less. *)
LEMMA GoesOn ==
    ASSUME BlindType, ItemType', NEW t \in Turns, NEW r, TurnOk(r), Goes(t, r),
           \A i \in Items : item'[i].state = "submitting" /\ Holds(r, i) => Holds(turn[t], i)
    PROVE  /\ TurnsMove
           /\ \A u \in Turns : u # t => turn'[u] = turn[u]
           /\ turn'[t] = r \/ turn'[t].pc \in CalmSteps
           /\ r.pc \notin {"select", "prepare", "start", "submit"} => turn'[t] = r
<1> DEFINE n == Onward(r, item')
<1>1. turn' = [turn EXCEPT ![t] = n]
  BY DEF Goes
<1>2. /\ TurnOk(n)
      /\ n = r \/ n.pc \in CalmSteps
      /\ r.pc \notin {"select", "prepare", "start", "submit"} => n = r
      /\ \A i \in Items : item'[i].state = "submitting" /\ Holds(n, i) => Holds(r, i)
  BY OnwardOk
<1> HIDE DEF n
<1>3. turn \in [Turns -> TurnType] /\ \A u \in Turns : TurnOk(turn[u])
  BY DEF BlindType
<1>4. n \in TurnType
  BY <1>2 DEF TurnOk
<1>5. /\ turn' \in [Turns -> TurnType] /\ turn'[t] = n
      /\ \A u \in Turns : u # t => turn'[u] = turn[u]
  BY <1>1, <1>3, <1>4
<1>6. \A u \in Turns : TurnOk(turn'[u])
  BY <1>2, <1>3, <1>5
<1>7. ASSUME NEW u \in Turns, NEW i \in Items, item'[i].state = "submitting", Holds(turn'[u], i)
      PROVE  Holds(turn[u], i)
  BY <1>2, <1>5, <1>7
<1>8. QED
  BY <1>2, <1>5, <1>6, <1>7 DEF TurnsMove

-----------------------------------------------------------------------------
LEMMA SameItemsCalm ==
    ASSUME ItemType, item' = item
    PROVE  ItemsCalm
BY DEF ItemType, ItemsCalm, ItemCalm

LEMMA MoveIsCalm ==
    ASSUME ItemType, NEW i, NEW expected, NEW to, item' = Move(item, i, expected, to),
           \/ /\ expected \subseteq {"queued", "preparing", "ready"}
              /\ to \in ItemStates \ {"submitting", "none"}
           \/ expected \subseteq {"preparing", "needs_answer"} /\ to \in {"needs_answer", "needs_you"}
    PROVE  ItemsCalm
<1>0. to \in ItemStates \ {"submitting", "none"}
  BY DEF ItemStates, LiveStates, StoppableStates
<1>1. CASE item' = item
  BY <1>1, SameItemsCalm
<1>2. CASE item[i].state \in expected /\ item' = [item EXCEPT ![i].state = to]
  <2>1. ItemType'
    BY <1>0, <1>2 DEF ItemType
  <2>2. \A j \in Items : item'[j] = item[j] \/ (j = i /\ item'[j].state = to)
    BY <1>2 DEF ItemType
  <2>3. QED
    BY <1>0, <1>2, <2>1, <2>2 DEF ItemsCalm, ItemCalm
<1>3. QED
  BY <1>1, <1>2 DEF Move

LEMMA FollowIsCalm ==
    ASSUME ItemType, NEW i, item' = Follows(i)
    PROVE  ItemsCalm
<1>1. PreparationEnds(i) \in ItemStates \ {"submitting", "none"}
  BY DEF PreparationEnds, ItemStates, TerminalStates, LiveStates, StoppableStates
<1>2. {"submitted", "outcome_unknown", "could_not_submit"} \subseteq ItemStates \ {"submitting", "none"}
  BY DEF ItemStates, TerminalStates
<1>3. \/ Follows(i) = item
      \/ \E to \in ItemStates \ {"submitting", "none"} :
            Follows(i) = Move(item, i, {"preparing"}, to)
  BY <1>1, <1>2, Zenon DEF Follows, Settled
<1>4. QED
  BY <1>3, SameItemsCalm, MoveIsCalm

(* insertBlindApplyItem, under an active authorization if it is to be worked on. *)
LEMMA InsertIsCalm ==
    ASSUME ItemType, NEW i, NEW to \in {"queued", "skipped"}, item' = Insert(i, to),
           to = "skipped" \/ auth[i[1]] = "active"
    PROVE  ItemsCalm
<1>1. \/ item' = item
      \/ item[i].state = "none" /\ item' = [item EXCEPT ![i].state = to]
      \/ item[i].state = "none" /\ item' = [item EXCEPT ![i].state = "skipped"]
  BY DEF Insert
<1>2. to \in ItemStates /\ "skipped" \in ItemStates
  BY DEF ItemStates, LiveStates, StoppableStates, TerminalStates
<1>3. ASSUME NEW s \in {"queued", "skipped"}, s = "skipped" \/ auth[i[1]] = "active",
             item[i].state = "none", item' = [item EXCEPT ![i].state = s]
      PROVE  ItemsCalm
  <2>1. ItemType'
    BY <1>3 DEF ItemType, ItemStates, LiveStates, StoppableStates, TerminalStates
  <2>2. \A j \in Items : item'[j] = item[j] \/ (j = i /\ item'[j].state = s)
    BY <1>3 DEF ItemType
  <2>3. QED
    BY <1>3, <2>1, <2>2 DEF ItemsCalm, ItemCalm
<1>4. QED
  BY <1>1, <1>3, SameItemsCalm

(* What nobody sends any more is settled as sent: its attempt is past       *)
(* "ready", and neither refused.                                            *)
LEMMA ReconcileIsCalm ==
    ASSUME BlindType, AttemptInv, NEW i \in Items
    PROVE  \/ ReconcileAllSubmitting[i] = item[i]
           \/ /\ item[i].state = "submitting" /\ i \notin submitsInFlight
              /\ \E to \in {"submitted", "outcome_unknown"} :
                    ReconcileAllSubmitting[i] = [item[i] EXCEPT !.state = to]
<1>1. CASE item[i].state # "submitting" \/ i \in submitsInFlight
  BY <1>1 DEF ReconcileAllSubmitting
<1>2. CASE item[i].state = "submitting" /\ i \notin submitsInFlight
  <2>1. att[i].checkpoint \in {"submitting", "failed"} \union Completed
    BY <1>2 DEF AttemptInv
  <2>2. att[i].checkpoint # "ready" /\ att[i].checkpoint # "needs_user"
    BY <2>1 DEF Completed
  <2>3. ReconcileAllSubmitting[i] = Settled(item, i, {"submitting"})[i]
    BY <1>2, <2>2 DEF ReconcileAllSubmitting
  <2>4. \/ Settled(item, i, {"submitting"}) = item
        \/ Settled(item, i, {"submitting"}) = Move(item, i, {"submitting"}, "submitted")
        \/ Settled(item, i, {"submitting"}) = Move(item, i, {"submitting"}, "outcome_unknown")
    BY <2>2, Zenon DEF Settled
  <2>5. ASSUME NEW to
        PROVE  Move(item, i, {"submitting"}, to)[i] = [item[i] EXCEPT !.state = to]
    BY <1>2 DEF Move, TerminalStates, BlindType, ItemType
  <2>6. QED
    BY <1>2, <2>3, <2>4, <2>5
<1>3. QED
  BY <1>1, <1>2

LEMMA ReconciledIsCalm ==
    ASSUME BlindType, AttemptInv, item' = ReconcileAllSubmitting
    PROVE  ItemsCalm
<1>1. ItemType'
  BY Reconciled DEF BlindType, ItemsMove
<1>2. \A i \in Items : item[i] \in [state : ItemStates, attempt : BOOLEAN, prepRetries : 0 .. 1]
  BY DEF BlindType, ItemType
<1>3. ASSUME NEW i \in Items PROVE ItemCalm(i)
  BY <1>2, ReconcileIsCalm DEF ItemCalm
<1>4. QED
  BY <1>1, <1>3 DEF ItemsCalm

LEMMA StopIsCalm ==
    ASSUME ItemType, NEW a, item' = StopItems(a)
    PROVE  ItemsCalm
<1>1. ItemType'
  BY Stopped DEF ItemsMove
<1>2. "stopped" \in ItemStates \ {"submitting", "none"}
  BY DEF ItemStates, TerminalStates
<1>3. \A i \in Items : \/ item'[i] = item[i]
                       \/ /\ item[i].state \in StoppableStates
                          /\ item'[i].state = "stopped"
  BY DEF StopItems, ItemType
<1>4. QED
  BY <1>1, <1>2, <1>3 DEF ItemsCalm, ItemCalm, StoppableStates

-----------------------------------------------------------------------------
(* A step that sends nothing leaves the facts about sending as they are. *)
LEMMA CalmKeepsSending ==
    ASSUME BlindInv, ItemsCalm, SendersStay, received' = received
    PROVE  SendingInv'
<1>1. \A i \in Items : item'[i].state = "submitting" => item[i].state = "submitting"
  BY DEF ItemsCalm, ItemCalm
<1>2. \A i \in Items : item[i].state = "submitting" /\ i \in submitsInFlight =>
          item'[i].state = "submitting"
  BY DEF ItemsCalm, ItemCalm
<1>3. \A t \in Turns : turn'[t].pc \in Sending =>
          turn'[t] = turn[t] /\ turn[t].cur \in submitsInFlight'
  BY DEF SendersStay
<1>4. \A t \in Turns : turn[t].pc \in Sending => turn[t].cur \in Items
  BY DEF BlindInv, BlindType, TurnOk, TurnType, Sending, CalmSteps
<1>5. SendingInv'
  <2>1. ASSUME NEW t \in Turns, turn'[t].pc \in Sending
        PROVE  /\ turn'[t] = turn[t] /\ turn[t].pc \in Sending /\ turn'[t].cur \in submitsInFlight'
               /\ turn[t].cur \in submitsInFlight /\ turn[t].cur \in Items
    BY <1>3, <1>4, <2>1 DEF BlindInv, SendingInv
  <2>2. ASSUME NEW t \in Turns, turn'[t].pc \in {"click", "observe"}
        PROVE  item'[turn'[t].cur].state = "submitting"
    BY <1>2, <2>1, <2>2 DEF BlindInv, SendingInv, Sending
  <2>3. ASSUME NEW t \in Turns,
               turn'[t].pc = "click" \/ (turn'[t].pc = "observe" /\ ~turn'[t].accepted)
        PROVE  received'[turn'[t].cur] = 0
    BY <2>1, <2>3 DEF BlindInv, SendingInv, Sending
  <2>4. ASSUME NEW t \in Turns, NEW u \in Turns, turn'[t].pc \in Sending,
  turn'[u].pc \in Sending,
               turn'[t].cur = turn'[u].cur
        PROVE  t = u
    BY <2>1, <2>4 DEF BlindInv, SendingInv
  <2>5. QED
    BY <2>1, <2>2, <2>3, <2>4 DEF SendingInv
<1>6. QED
  BY <1>5

LEMMA CalmKeepsShown ==
    ASSUME BlindInv, ItemsCalm, received' = received
    PROVE  SentIsShown'
BY DEF BlindInv, SentIsShown, ItemsCalm, ItemCalm

LEMMA CalmKeepsAttempts ==
    ASSUME BlindInv, ItemsCalm, AttemptsCalm, TurnsMove
    PROVE  AttemptInv'
<1>1. \A i \in Items : item'[i].state = "submitting" => item[i].state = "submitting"
  BY DEF ItemsCalm, ItemCalm
<1>2. SUFFICES ASSUME NEW i \in Items, item'[i].state = "submitting"
               PROVE  /\ att'[i].checkpoint \in {"submitting", "failed"} \union Completed
                      /\ \A t, u \in Turns : Holds(turn'[t], i) /\ Holds(turn'[u], i) => t = u
                      /\ att'[i].checkpoint = "failed" => \A t \in Turns : ~Holds(turn'[t], i)
  BY DEF AttemptInv, Holds
<1>3. /\ att[i].checkpoint \in {"submitting", "failed"} \union Completed
      /\ \A t, u \in Turns : Holds(turn[t], i) /\ Holds(turn[u], i) => t = u
      /\ att[i].checkpoint = "failed" => \A t \in Turns : ~Holds(turn[t], i)
  BY <1>1, <1>2 DEF BlindInv, AttemptInv
<1>4. \A t \in Turns : Holds(turn'[t], i) => Holds(turn[t], i)
  BY <1>2 DEF TurnsMove
<1>5. \/ att'[i].checkpoint = att[i].checkpoint
      \/ att[i].checkpoint = "submitting" /\ att'[i].checkpoint \in Completed
  BY <1>1, <1>2 DEF AttemptsCalm
<1>6. QED
  BY <1>3, <1>4, <1>5 DEF Completed

(* ... and, with the authorizations untouched, everything that is stopped. *)
LEMMA CalmKeepsStopped ==
    ASSUME BlindInv, ItemsCalm, UNCHANGED <<auth, enabling, recovery>>,
           answering' = answering \/ answering' = NoAnswer
    PROVE  AnswerInv' /\ AuthInv' /\ StoppedIsQuiet'
<1>1. AnswerInv'
  <2>1. CASE answering' = NoAnswer
    BY <2>1 DEF AnswerInv, NoAnswer
  <2>2. CASE answering' = answering
    BY <2>2 DEF BlindInv, AnswerInv, ItemsCalm, ItemCalm, TerminalStates
  <2>3. QED
    BY <2>1, <2>2
<1>2. AuthInv'
  BY DEF BlindInv, AuthInv
<1>3. StoppedIsQuiet'
  BY DEF BlindInv, StoppedIsQuiet, ItemsCalm, ItemCalm, StoppableStates
<1>4. QED
  BY <1>1, <1>2, <1>3

CalmStep == ItemsCalm /\ AttemptsCalm /\ TurnsMove /\ SendersStay /\ received' = received

LEMMA CalmKeepsRest ==
    ASSUME BlindInv, ItemsCalm, TurnsMove, SendersStay, att' \in [Items -> AttType], AttemptInv',
           received' = received, UNCHANGED <<auth, enabling, recovery, changed>>,
           answering' = answering \/ answering' = NoAnswer
    PROVE  BlindInv'
<1>1. SendingInv' /\ SentIsShown' /\ AnswerInv' /\ AuthInv' /\ StoppedIsQuiet'
  BY CalmKeepsSending, CalmKeepsShown, CalmKeepsStopped
<1>2. answering' \in [item : Items \union {NoItem}, pc : {"idle", "resume", "resumed"}]
  BY DEF BlindInv, BlindType, NoAnswer
<1>3. BlindType'
  BY <1>2 DEF BlindInv, BlindType, ItemsCalm, TurnsMove
<1>4. QED
  BY <1>1, <1>3 DEF BlindInv

LEMMA CalmKeepsAll ==
    ASSUME BlindInv, CalmStep, UNCHANGED <<auth, enabling, recovery, changed>>,
           answering' = answering \/ answering' = NoAnswer
    PROVE  BlindInv'
BY CalmKeepsRest, CalmKeepsAttempts DEF CalmStep, AttemptsCalm

LEMMA SameAttemptsCalm ==
    ASSUME BlindType, att' = att
    PROVE  AttemptsCalm
BY DEF BlindType, AttemptsCalm

LEMMA SameTurnsCalm ==
    ASSUME BlindInv, turn' = turn, submitsInFlight' = submitsInFlight
    PROVE  TurnsMove /\ SendersStay
<1>1. TurnsMove
  BY DEF BlindInv, BlindType, TurnsMove
<1>2. SendersStay
  BY DEF BlindInv, SendingInv, SendersStay
<1>3. QED
  BY <1>1, <1>2

(* A turn that goes on without sending; what it sent, if anything, is over. *)
LEMMA GoesCalmly ==
    ASSUME BlindInv, ItemType', NEW t \in Turns, NEW r, TurnOk(r), Goes(t, r), r.pc \notin Sending,
           \A i \in Items : item'[i].state = "submitting" /\ Holds(r, i) => Holds(turn[t], i),
           \/ submitsInFlight' = submitsInFlight
           \/ submitsInFlight' = submitsInFlight \ {turn[t].cur} /\ turn[t].pc \in Sending
    PROVE  TurnsMove /\ SendersStay
<1>1. /\ TurnsMove
      /\ \A u \in Turns : u # t => turn'[u] = turn[u]
      /\ turn'[t] = r \/ turn'[t].pc \in CalmSteps
  BY GoesOn DEF BlindInv
<1>2. turn'[t].pc \notin Sending
  BY <1>1 DEF Sending, CalmSteps
<1>3. ASSUME NEW u \in Turns, turn'[u].pc \in Sending
      PROVE  turn'[u] = turn[u] /\ turn[u].cur \in submitsInFlight'
  BY <1>1, <1>2, <1>3 DEF BlindInv, SendingInv
<1>4. QED
  BY <1>1, <1>3 DEF SendersStay

(* The turn t is done with its item, and goes back to the loop pc. *)
LEMMA GotoCalmly ==
    ASSUME BlindInv, ItemType', NEW t \in Turns, NEW pc \in {"select", "prepare", "start", "submit"},
           Goto(t, pc), pc = "submit" \/ turn[t].pc \notin Sending \union {"submit"},
           turn[t].pc # "idle", pc = "select" => turn[t].pc = "liveness",
           \/ submitsInFlight' = submitsInFlight
           \/ submitsInFlight' = submitsInFlight \ {turn[t].cur} /\ turn[t].pc \in Sending
    PROVE  TurnsMove /\ SendersStay
<1> DEFINE r == [turn[t] EXCEPT !.pc = pc, !.cur = NoItem, !.accepted = FALSE]
<1>1. Goes(t, r)
  BY DEF Goto
<1>2. TurnOk(turn[t])
  BY DEF BlindInv, BlindType
<1>3. /\ r \in TurnType /\ r.pc = pc /\ r.cur = NoItem /\ r.todo = turn[t].todo
      /\ r.auth = turn[t].auth
  BY <1>2 DEF TurnOk, TurnType, TurnSteps
<1> HIDE DEF r
<1>4. \A p \in r.todo : p[1] # NoItem
  BY <1>3, BlindAssumption DEF TurnType
<1>5. TurnOk(r)
  BY <1>2, <1>3, <1>4 DEF TurnOk, CalmSteps
<1>6. r.pc \notin Sending
  BY <1>3 DEF Sending
<1>7. \A i \in Items : Holds(r, i) => Holds(turn[t], i)
  BY <1>3 DEF Holds, Sending
<1>8. QED
  BY <1>1, <1>5, <1>6, <1>7, GoesCalmly

(* The turn t has looked at one item of its list. *)
LEMMA NextCalmly ==
    ASSUME BlindInv, ItemType', NEW t \in Turns, NEW p, turn[t].pc \in {"prepare", "start", "submit"},
           Goes(t, [turn[t] EXCEPT !.todo = @ \ {p}]), submitsInFlight' = submitsInFlight
    PROVE  TurnsMove /\ SendersStay
<1> DEFINE r == [turn[t] EXCEPT !.todo = @ \ {p}]
<1>1. Goes(t, r)
  OBVIOUS
<1>2. TurnOk(turn[t])
  BY DEF BlindInv, BlindType
<1>3. /\ r \in TurnType /\ r.pc = turn[t].pc /\ r.cur = turn[t].cur
      /\ r.todo = turn[t].todo \ {p} /\ r.auth = turn[t].auth
  BY <1>2 DEF TurnOk, TurnType
<1> HIDE DEF r
<1>4. TurnOk(r) /\ r.pc \notin Sending
  BY <1>2, <1>3 DEF TurnOk, Sending
<1>5. \A i \in Items : Holds(r, i) => Holds(turn[t], i)
  BY <1>3 DEF Holds
<1>6. QED
  BY <1>1, <1>4, <1>5, GoesCalmly

(* The turn t takes up one item of its list. *)
LEMMA TakesCalmly ==
    ASSUME BlindInv, ItemType', NEW t \in Turns, NEW p \in turn[t].todo,
           turn[t].pc \in {"prepare", "start"}, NEW pc \in {"resume", "starting"},
           Goes(t, [turn[t] EXCEPT !.pc = pc, !.cur = p[1], !.todo = @ \ {p}]),
           submitsInFlight' = submitsInFlight
    PROVE  TurnsMove /\ SendersStay
<1> DEFINE r == [turn[t] EXCEPT !.pc = pc, !.cur = p[1], !.todo = @ \ {p}]
<1>1. Goes(t, r)
  OBVIOUS
<1>2. TurnOk(turn[t])
  BY DEF BlindInv, BlindType
<1>3. p[1] \in Items /\ p[1] # NoItem /\ p[1][1] = turn[t].auth
  BY <1>2, BlindAssumption DEF TurnOk, TurnType
<1>4. /\ r \in TurnType /\ r.pc = pc /\ r.cur = p[1]
      /\ r.todo = turn[t].todo \ {p} /\ r.auth = turn[t].auth
  BY <1>2, <1>3 DEF TurnOk, TurnType, TurnSteps
<1> HIDE DEF r
<1>5. TurnOk(r) /\ r.pc \notin Sending
  BY <1>2, <1>3, <1>4 DEF TurnOk, Sending, CalmSteps
<1>6. \A i \in Items : Holds(r, i) => Holds(turn[t], i)
  BY <1>4 DEF Holds, Sending
<1>7. QED
  BY <1>1, <1>5, <1>6, GoesCalmly

(* The turn t goes on with the item it works on. *)
LEMMA StaysCalmly ==
    ASSUME BlindInv, ItemType', NEW t \in Turns, NEW pc \in {"resumed", "started"},
           turn[t].pc \in {"resume", "starting"},
           Goes(t, [turn[t] EXCEPT !.pc = pc]), submitsInFlight' = submitsInFlight
    PROVE  TurnsMove /\ SendersStay
<1> DEFINE r == [turn[t] EXCEPT !.pc = pc]
<1>1. Goes(t, r)
  OBVIOUS
<1>2. TurnOk(turn[t])
  BY DEF BlindInv, BlindType
<1>3. /\ r \in TurnType /\ r.pc = pc /\ r.cur = turn[t].cur
      /\ r.todo = turn[t].todo /\ r.auth = turn[t].auth
  BY <1>2 DEF TurnOk, TurnType, TurnSteps
<1> HIDE DEF r
<1>4. TurnOk(r) /\ r.pc \notin Sending
  BY <1>2, <1>3 DEF TurnOk, Sending, CalmSteps
<1>5. \A i \in Items : Holds(r, i) => Holds(turn[t], i)
  BY <1>3 DEF Holds, Sending
<1>6. QED
  BY <1>1, <1>4, <1>5, GoesCalmly

-----------------------------------------------------------------------------
(* The attempts. *)
LEMMA QueueingIsCalm ==
    ASSUME BlindType, NEW i \in Items, att' = Enqueued(att, i) \/ att' = Cancelled(att, i)
    PROVE  AttemptsCalm
<1>1. att \in [Items -> AttType]
  BY DEF BlindType
<1>2. \E e \in {"absent", "queued", "active", "cancelled"} :
          att' = [att EXCEPT ![i] = [att[i] EXCEPT !.entry = e]]
  BY <1>1 DEF Enqueued, Cancelled, AttType
<1>3. QED
  BY <1>1, <1>2 DEF AttemptsCalm, AttType

(* Preparing an attempt again changes that attempt alone. *)
LEMMA RestartIsUpdate ==
    ASSUME BlindType, NEW i \in Items
    PROVE  /\ \E x \in AttType : [att EXCEPT ![i].checkpoint = "queued"] = [att EXCEPT ![i] = x]
           /\ \E x \in AttType : Resumed(i) = [att EXCEPT ![i] = x]
           /\ \E x \in AttType : Requeued(i) = [att EXCEPT ![i] = x]
<1>1. att \in [Items -> AttType]
  BY DEF BlindType
<1>2. "queued" \in Checkpoints /\ "" \in Notes
  BY DEF Checkpoints, NonTerminal, Notes
<1>3. \E x \in AttType : [att EXCEPT ![i].checkpoint = "queued"] = [att EXCEPT ![i] = x]
  <2>1. [att[i] EXCEPT !.checkpoint = "queued"] \in AttType
    BY <1>1, <1>2 DEF AttType
  <2>2. QED
    BY <1>1, <2>1
<1>4. \E x \in AttType : Resumed(i) = [att EXCEPT ![i] = x]
  <2> DEFINE e == IF att[i].entry \in {"queued", "active"} THEN att[i].entry ELSE "queued"
             x == [att[i] EXCEPT !.checkpoint = "queued", !.note = "", !.page = FALSE, !.entry = e]
             m == [att EXCEPT ![i].checkpoint = "queued", ![i].note = "", ![i].page = FALSE]
  <2>1. m[i].entry = att[i].entry
    BY <1>1 DEF AttType
  <2>2. Resumed(i) = [m EXCEPT ![i].entry = e]
    BY <1>1, <2>1 DEF Resumed, Requeued, Enqueued
  <2>3. [m EXCEPT ![i].entry = e] = [att EXCEPT ![i] = x]
    BY <1>1 DEF AttType
  <2>4. x \in AttType
    BY <1>1, <1>2 DEF AttType
  <2> HIDE DEF x, m, e
  <2>5. QED
    BY <2>2, <2>3, <2>4
<1>5. QED
  BY <1>3, <1>4 DEF Resumed

LEMMA RestartIsCalm ==
    ASSUME BlindType, NEW i \in Items, item[i].state # "submitting",
           att' = Resumed(i) \/ att' = Requeued(i) \/ att' = [att EXCEPT ![i].checkpoint = "queued"]
    PROVE  AttemptsCalm
<1>1. att \in [Items -> AttType]
  BY DEF BlindType
<1>2. \E x \in AttType : att' = [att EXCEPT ![i] = x]
  BY RestartIsUpdate
<1>3. QED
  BY <1>1, <1>2 DEF AttemptsCalm

-----------------------------------------------------------------------------
(* The steps of a turn that send nothing. *)
LEMMA BeginIsCalm ==
    ASSUME BlindInv, NEW t \in Turns, TurnBegins(t)
    PROVE  CalmStep
<1>1. PICK a \in Auths : turn' = [turn EXCEPT ![t] = [NoTurn EXCEPT !.pc = "facts", !.auth = a]]
  BY DEF TurnBegins
<1>2. /\ item' = ReconcileAllSubmitting /\ att' = att /\ submitsInFlight' = submitsInFlight
      /\ received' = received
  BY DEF TurnBegins, TurnKeeps
<1>3. ItemsCalm /\ AttemptsCalm
  BY <1>2, ReconciledIsCalm, SameAttemptsCalm DEF BlindInv
<1> DEFINE n == [NoTurn EXCEPT !.pc = "facts", !.auth = a]
<1>4. n.pc = "facts" /\ n.todo = {} /\ n.cur = NoItem /\ n.auth = a /\ n \in TurnType
  <2>1. NoTurn \in TurnType /\ NoTurn.todo = {} /\ NoTurn.cur = NoItem
    BY NoTurnOk DEF TurnOk, NoTurn
  <2>2. a \in 0 .. MaxAuths
    BY BlindAssumption DEF Auths
  <2>3. QED
    BY <2>1, <2>2 DEF TurnType, TurnSteps
<1> HIDE DEF n
<1>5. turn \in [Turns -> TurnType] /\ \A u \in Turns : TurnOk(turn[u])
  BY DEF BlindInv, BlindType
<1>6. /\ turn' \in [Turns -> TurnType] /\ turn'[t] = n
      /\ \A u \in Turns : u # t => turn'[u] = turn[u]
  BY <1>1, <1>4, <1>5 DEF n
<1>7. TurnOk(n) /\ \A i : ~Holds(n, i)
  BY <1>4 DEF TurnOk, Holds, CalmSteps
<1>8. TurnsMove
  BY <1>5, <1>6, <1>7 DEF TurnsMove
<1>9. SendersStay
  BY <1>2, <1>4, <1>6 DEF SendersStay, Sending, BlindInv, SendingInv
<1>10. QED
  BY <1>2, <1>3, <1>8, <1>9 DEF CalmStep

LEMMA SelectingIsCalm ==
    ASSUME BlindInv, NEW t \in Turns,
           FactsRead(t) \/ TurnHearsStop(t) \/ \E v \in Vacancies : SelectChecks(t, v)
    PROVE  CalmStep
<1>1. att' = att /\ submitsInFlight' = submitsInFlight /\ received' = received
  BY DEF FactsRead, TurnHearsStop, SelectChecks, TurnKeeps
<1>2. ItemsCalm
  <2>1. item' = item \/ \E i : item' = Insert(i, "skipped")
    BY DEF FactsRead, TurnHearsStop, SelectChecks
  <2>2. QED
    BY <2>1, SameItemsCalm, InsertIsCalm DEF BlindInv, BlindType
<1>3. AttemptsCalm /\ ItemType'
  BY <1>1, <1>2, SameAttemptsCalm DEF BlindInv, ItemsCalm
<1>4. TurnOk(turn[t]) /\ turn[t] \in TurnType
  BY DEF BlindInv, BlindType, TurnOk
<1>5. ASSUME NEW r, Goes(t, r), TurnOk(r), r.pc \notin Sending, r.todo = turn[t].todo,
             turn[t].pc \in {"facts", "select", "submit"},
             r.pc = turn[t].pc \/ (r.pc \in {"select", "liveness"} /\ turn[t].pc # "submit")
      PROVE  TurnsMove /\ SendersStay
  <2>1. \A i \in Items : Holds(r, i) => Holds(turn[t], i)
    BY <1>5 DEF Holds, Sending
  <2>2. QED
    BY <1>1, <1>3, <1>5, <2>1, GoesCalmly
<1>6. TurnsMove /\ SendersStay
  <2>1. CASE FactsRead(t)
    <3> DEFINE c == {v \in Vacancies : ~changed /\ item[<<turn[t].auth, v>>].state = "none"}
               b == changed
    <3>1. Goes(t, [turn[t] EXCEPT !.pc = "select", !.paused = b, !.cands = c])
      BY <2>1 DEF FactsRead
    <3>0. c \in SUBSET Vacancies /\ b \in BOOLEAN
      BY DEF BlindInv, BlindType
    <3> HIDE DEF c, b
    <3> DEFINE r == [turn[t] EXCEPT !.pc = "select", !.paused = b, !.cands = c]
    <3>2. /\ r \in TurnType /\ r.pc = "select" /\ r.cur = turn[t].cur
          /\ r.todo = turn[t].todo /\ r.auth = turn[t].auth
      BY <1>4, <3>0 DEF TurnType, TurnSteps
    <3>3. turn[t].pc = "facts"
      BY <2>1 DEF FactsRead
    <3> HIDE DEF r
    <3>4. TurnOk(r) /\ r.pc \notin Sending
      BY <1>4, <3>2, <3>3 DEF TurnOk, CalmSteps, Sending
    <3>5. QED
      BY <1>5, <3>1, <3>2, <3>3, <3>4 DEF r
  <2>2. CASE TurnHearsStop(t)
    <3>0. PICK r : r = turn[t]
      OBVIOUS
    <3>1. Goes(t, r) /\ r.pc \in {"select", "submit"}
      BY <2>2, <3>0 DEF TurnHearsStop
    <3>2. r.pc \notin Sending
      BY <3>1 DEF Sending
    <3>3. QED
      <4>1. TurnOk(r) /\ r.todo = turn[t].todo /\ r.pc = turn[t].pc
        BY <1>4, <3>0
      <4>2. \A i \in Items : Holds(r, i) => Holds(turn[t], i)
        BY <3>0
      <4>3. QED
        BY <1>1, <1>3, <3>1, <3>2, <4>1, <4>2, GoesCalmly
  <2>3. ASSUME NEW v \in Vacancies, SelectChecks(t, v)
        PROVE  TurnsMove /\ SendersStay
    <3>1. /\ turn[t].pc = "select" /\ IsActive(turn[t].auth)
          /\ \/ Goes(t, [turn[t] EXCEPT !.cands = @ \ {v}])
             \/ Goes(t, [turn[t] EXCEPT !.pc = "liveness", !.cur = <<turn[t].auth, v>>,
                                        !.cands = @ \ {v}])
      BY <2>3 DEF SelectChecks
    <3>2. CASE Goes(t, [turn[t] EXCEPT !.cands = @ \ {v}])
      <4> DEFINE r == [turn[t] EXCEPT !.cands = @ \ {v}]
      <4>1. /\ r \in TurnType /\ r.pc = "select" /\ r.cur = turn[t].cur
            /\ r.todo = turn[t].todo /\ r.auth = turn[t].auth
        BY <1>4, <3>1 DEF TurnType
      <4> HIDE DEF r
      <4>2. TurnOk(r) /\ r.pc \notin Sending
        BY <1>4, <3>1, <4>1 DEF TurnOk, CalmSteps, Sending
      <4>3. QED
        BY <1>5, <3>1, <3>2, <4>1, <4>2 DEF r
    <3>3. CASE Goes(t, [turn[t] EXCEPT !.pc = "liveness", !.cur = <<turn[t].auth, v>>,
                                       !.cands = @ \ {v}])
      <4> DEFINE i == <<turn[t].auth, v>>
                 r == [turn[t] EXCEPT !.pc = "liveness", !.cur = i, !.cands = @ \ {v}]
      <4>1. i \in Items /\ i[1] = turn[t].auth /\ i # NoItem
        BY <3>1, <1>4, BlindAssumption DEF Items, TurnOk
      <4>2. /\ r \in TurnType /\ r.pc = "liveness" /\ r.cur = i
            /\ r.todo = turn[t].todo /\ r.auth = turn[t].auth
        BY <1>4, <4>1 DEF TurnType, TurnSteps
      <4>3. TurnOk(turn[t]) /\ turn[t].todo = {} /\ turn[t].auth \in Auths
        BY <1>4, <3>1 DEF TurnOk
      <4> HIDE DEF r, i
      <4>4. TurnOk(r) /\ r.pc \notin Sending
        BY <4>1, <4>2, <4>3 DEF TurnOk, CalmSteps, Sending
      <4>5. QED
        BY <1>5, <3>1, <3>3, <4>2, <4>4 DEF r, i
    <3>4. QED
      BY <3>1, <3>2, <3>3
  <2>4. QED
    BY <2>1, <2>2, <2>3
<1>7. QED
  BY <1>1, <1>2, <1>3, <1>6 DEF CalmStep

LEMMA LivenessIsCalm ==
    ASSUME BlindInv, NEW t \in Turns, LivenessAnswers(t)
    PROVE  CalmStep
<1>1. /\ att' = att /\ submitsInFlight' = submitsInFlight /\ received' = received
      /\ turn[t].pc = "liveness" /\ Goto(t, "select")
  BY DEF LivenessAnswers, TurnKeeps
<1>2. \/ item' = item
      \/ IsActive(turn[t].auth) /\ \E to \in {"queued", "skipped"} : item' = Insert(turn[t].cur, to)
  BY DEF LivenessAnswers
<1>3. turn[t].cur[1] = turn[t].auth
  BY <1>1 DEF BlindInv, BlindType, TurnOk, CalmSteps
<1>4. ItemsCalm
  BY <1>2, <1>3, SameItemsCalm, InsertIsCalm DEF BlindInv, BlindType, IsActive
<1>5. AttemptsCalm /\ ItemType'
  BY <1>1, <1>4, SameAttemptsCalm DEF BlindInv, ItemsCalm
<1>6. TurnsMove /\ SendersStay
  BY <1>1, <1>5, GotoCalmly DEF Sending
<1>7. QED
  BY <1>1, <1>4, <1>5, <1>6 DEF CalmStep

LEMMA PrepareIsCalm ==
    ASSUME BlindInv, NEW t \in Turns, PrepareNext(t)
    PROVE  CalmStep
<1>1. /\ att' = att /\ submitsInFlight' = submitsInFlight /\ received' = received
      /\ turn[t].pc = "prepare"
  BY DEF PrepareNext, TurnKeeps
<1>2. PICK p \in turn[t].todo :
        \/ /\ item' = item
           /\ Goes(t, [turn[t] EXCEPT !.pc = "resume", !.cur = p[1], !.todo = @ \ {p}])
        \/ /\ item' = Follows(p[1])
           /\ Goes(t, [turn[t] EXCEPT !.todo = @ \ {p}])
  BY DEF PrepareNext
<1>3. ItemsCalm
  BY <1>2, SameItemsCalm, FollowIsCalm DEF BlindInv, BlindType
<1>4. AttemptsCalm /\ ItemType'
  BY <1>1, <1>3, SameAttemptsCalm DEF BlindInv, ItemsCalm
<1>5. CASE Goes(t, [turn[t] EXCEPT !.pc = "resume", !.cur = p[1], !.todo = @ \ {p}])
  <2>1. TurnsMove /\ SendersStay
    BY <1>1, <1>4, <1>5, TakesCalmly
  <2>2. QED
    BY <1>1, <1>3, <1>4, <2>1 DEF CalmStep
<1>6. CASE Goes(t, [turn[t] EXCEPT !.todo = @ \ {p}])
  <2>1. TurnsMove /\ SendersStay
    BY <1>1, <1>4, <1>6, NextCalmly
  <2>2. QED
    BY <1>1, <1>3, <1>4, <2>1 DEF CalmStep
<1>7. QED
  BY <1>2, <1>5, <1>6

(* A turn does not resume the attempt of an item that is being sent: it     *)
(* holds the item, so the attempt has not failed.                           *)
LEMMA ResumeIsCalm ==
    ASSUME BlindInv, NEW t \in Turns, TurnResumes(t)
    PROVE  CalmStep
<1> DEFINE i == turn[t].cur
<1>1. submitsInFlight' = submitsInFlight /\ received' = received /\ turn[t].pc = "resume"
  BY DEF TurnResumes, TurnKeeps
<1>2. i \in Items /\ Holds(turn[t], i)
  BY <1>1 DEF BlindInv, BlindType, TurnOk, TurnType, CalmSteps, Holds
<1>3. CASE /\ att[i].checkpoint \in {"failed", "needs_user"} /\ item' = item /\ att' = Resumed(i)
           /\ Goes(t, [turn[t] EXCEPT !.pc = "resumed"])
  <2>1. item[i].state # "submitting"
    BY <1>2, <1>3 DEF BlindInv, AttemptInv, Completed
  <2>2. ItemsCalm /\ ItemType'
    BY <1>3, SameItemsCalm DEF BlindInv, BlindType, ItemsCalm
  <2>3. AttemptsCalm
    BY <1>2, <1>3, <2>1, RestartIsCalm DEF BlindInv
  <2>4. TurnsMove /\ SendersStay
    BY <1>1, <1>3, <2>2, StaysCalmly
  <2>5. QED
    BY <1>1, <2>2, <2>3, <2>4 DEF CalmStep
<1>4. CASE /\ item' \in {item, Move(item, i, {"preparing"}, "could_not_submit")}
           /\ att' = att /\ Goto(t, "prepare")
  <2>1. "could_not_submit" \in ItemStates \ {"submitting", "none"}
    BY DEF ItemStates, TerminalStates
  <2>2. ItemsCalm
    BY <1>4, <2>1, SameItemsCalm, MoveIsCalm DEF BlindInv, BlindType
  <2>3. AttemptsCalm /\ ItemType'
    BY <1>4, <2>2, SameAttemptsCalm DEF BlindInv, ItemsCalm
  <2>4. TurnsMove /\ SendersStay
    BY <1>1, <1>4, <2>3, GotoCalmly DEF Sending
  <2>5. QED
    BY <1>1, <2>2, <2>3, <2>4 DEF CalmStep
<1>5. QED
  BY <1>3, <1>4 DEF TurnResumes

LEMMA ResumedIsCalm ==
    ASSUME BlindInv, NEW t \in Turns, TurnResumed(t) \/ StartAnswered(t)
    PROVE  CalmStep
<1> DEFINE i == turn[t].cur
<1>1. submitsInFlight' = submitsInFlight /\ received' = received
  BY DEF TurnResumed, StartAnswered, TurnKeeps
<1>2. \/ turn[t].pc = "resumed" /\ Goto(t, "prepare")
      \/ turn[t].pc = "started" /\ Goto(t, "start")
  BY DEF TurnResumed, StartAnswered
<1>3. i \in Items
  BY <1>2 DEF BlindInv, BlindType, TurnOk, TurnType, CalmSteps
<1>4. att' = att \/ att' = Cancelled(att, i)
  BY DEF TurnResumed, StartAnswered
<1>5. AttemptsCalm
  BY <1>3, <1>4, SameAttemptsCalm, QueueingIsCalm DEF BlindInv
<1>6. ItemsCalm
  <2>1. ItemType
    BY DEF BlindInv, BlindType
  <2>2. \/ item' = item
        \/ item' = [item EXCEPT ![i].prepRetries = 1]
        \/ /\ item[i].state = "queued"
           /\ item' = [item EXCEPT ![i].state = "preparing", ![i].attempt = TRUE]
    BY DEF TurnResumed, StartAnswered
  <2>3. CASE item' = [item EXCEPT ![i].prepRetries = 1]
    <3>0. /\ 1 \in 0 .. 1
          /\ item' = [item EXCEPT ![i] = [item[i] EXCEPT !.prepRetries = 1]]
      BY <2>1, <2>3
    <3>1. ItemType'
      BY <2>1, <3>0, <1>3 DEF ItemType
    <3>2. \A j \in Items : item'[j].state = item[j].state
      BY <2>1, <2>3 DEF ItemType
    <3>3. QED
      BY <3>1, <3>2 DEF ItemsCalm, ItemCalm
  <2>4. CASE /\ item[i].state = "queued"
             /\ item' = [item EXCEPT ![i].state = "preparing", ![i].attempt = TRUE]
    <3>1. "preparing" \in ItemStates \ {"submitting", "none"}
      BY DEF ItemStates, LiveStates, StoppableStates
    <3>2. ItemType'
      BY <2>1, <2>4, <3>1 DEF ItemType
    <3>3. \A j \in Items : item'[j] = item[j] \/ (j = i /\ item'[j].state = "preparing")
      BY <2>1, <2>4 DEF ItemType
    <3>4. QED
      BY <2>4, <3>1, <3>2, <3>3 DEF ItemsCalm, ItemCalm
  <2>5. QED
    BY <2>1, <2>2, <2>3, <2>4, SameItemsCalm
<1>7. TurnsMove /\ SendersStay
  BY <1>1, <1>2, <1>6, GotoCalmly DEF Sending, ItemsCalm
<1>8. QED
  BY <1>1, <1>5, <1>6, <1>7 DEF CalmStep

(* A turn does not start the attempt of an item that is being sent, either: *)
(* it holds the item, and an attempt that has not failed blocks the role.   *)
LEMMA StartIsCalm ==
    ASSUME BlindInv, NEW t \in Turns, StartNext(t)
    PROVE  CalmStep
<1>1. submitsInFlight' = submitsInFlight /\ received' = received /\ turn[t].pc = "start"
  BY DEF StartNext, TurnKeeps
<1>2. PICK p \in turn[t].todo :
        \/ /\ ~AttemptBlocks(p[1][2])
           /\ att' = [att EXCEPT ![p[1]].checkpoint = "queued"]
           /\ item' = item
           /\ Goes(t, [turn[t] EXCEPT !.pc = "starting", !.cur = p[1], !.todo = @ \ {p}])
        \/ /\ \/ item' = item
              \/ \E to \in {"skipped", "could_not_submit"} : item' = Move(item, p[1], {"queued"}, to)
           /\ att' = att
           /\ Goes(t, [turn[t] EXCEPT !.todo = @ \ {p}])
  BY DEF StartNext
<1>3. p[1] \in Items /\ Holds(turn[t], p[1])
  BY <1>1 DEF BlindInv, BlindType, TurnOk, TurnType, Holds, Sending
<1>4. {"skipped", "could_not_submit"} \subseteq ItemStates \ {"submitting", "none"}
  BY DEF ItemStates, TerminalStates
<1>5. ItemsCalm
  BY <1>2, <1>4, SameItemsCalm, MoveIsCalm DEF BlindInv, BlindType
<1>6. ItemType'
  BY <1>5 DEF ItemsCalm
<1>7. CASE /\ ~AttemptBlocks(p[1][2])
           /\ att' = [att EXCEPT ![p[1]].checkpoint = "queued"]
           /\ Goes(t, [turn[t] EXCEPT !.pc = "starting", !.cur = p[1], !.todo = @ \ {p}])
  <2>1. att[p[1]].checkpoint \notin NonTerminal \union Completed
    BY <1>3, <1>7 DEF AttemptBlocks, RoleOf
  <2>2. item[p[1]].state # "submitting"
    BY <1>3, <2>1 DEF BlindInv, AttemptInv, NonTerminal
  <2>3. AttemptsCalm
    BY <1>3, <1>7, <2>2, RestartIsCalm DEF BlindInv
  <2>4. TurnsMove /\ SendersStay
    BY <1>1, <1>6, <1>7, TakesCalmly
  <2>5. QED
    BY <1>1, <1>5, <2>3, <2>4 DEF CalmStep
<1>8. CASE att' = att /\ Goes(t, [turn[t] EXCEPT !.todo = @ \ {p}])
  <2>1. AttemptsCalm
    BY <1>8, SameAttemptsCalm DEF BlindInv
  <2>2. TurnsMove /\ SendersStay
    BY <1>1, <1>6, <1>8, NextCalmly
  <2>3. QED
    BY <1>1, <1>5, <2>1, <2>2 DEF CalmStep
<1>9. QED
  BY <1>2, <1>7, <1>8

(* The failing start of a turn that was overtaken: the attempt of an item   *)
(* that is being sent fails, but nobody else holds the item to resume it.   *)
LEMMA StartQueuesKeeps ==
    ASSUME BlindInv, NEW t \in Turns, StartQueues(t)
    PROVE  BlindInv'
<1> DEFINE i == turn[t].cur
<1>1. /\ submitsInFlight' = submitsInFlight /\ received' = received /\ turn[t].pc = "starting"
      /\ UNCHANGED <<auth, enabling, recovery, changed, answering>>
  BY DEF StartQueues, TurnKeeps, storeVars, personVars, hostVars
<1>2. i \in Items /\ Holds(turn[t], i) /\ TurnOk(turn[t])
  BY <1>1 DEF BlindInv, BlindType, TurnOk, TurnType, CalmSteps, Holds
<1>3. CASE att' = Enqueued(att, i) /\ item' = item /\ Goes(t, [turn[t] EXCEPT !.pc = "started"])
  <2>1. ItemsCalm /\ ItemType'
    BY <1>3, SameItemsCalm DEF BlindInv, BlindType, ItemsCalm
  <2>2. AttemptsCalm
    BY <1>2, <1>3, QueueingIsCalm DEF BlindInv
  <2>3. TurnsMove /\ SendersStay
    BY <1>1, <1>3, <2>1, StaysCalmly
  <2>4. QED
    BY <1>1, <2>1, <2>2, <2>3, CalmKeepsAll DEF CalmStep
<1>4. CASE /\ att' = [att EXCEPT ![i].checkpoint = "failed"]
           /\ item' = Move(item, i, {"queued"}, "could_not_submit")
           /\ Goto(t, "start")
  <2>1. "could_not_submit" \in ItemStates \ {"submitting", "none"}
    BY DEF ItemStates, TerminalStates
  <2>2. ItemsCalm /\ ItemType'
    BY <1>4, <2>1, MoveIsCalm DEF BlindInv, BlindType, ItemsCalm
  <2>3. TurnsMove /\ SendersStay
    BY <1>1, <1>4, <2>2, GotoCalmly DEF Sending
  <2>4. /\ att \in [Items -> AttType] /\ att' \in [Items -> AttType]
        /\ att'[i].checkpoint = "failed" /\ \A j \in Items : j # i => att'[j] = att[j]
    BY <1>2, <1>4 DEF BlindInv, BlindType, AttType, Checkpoints
  <2>5. \A j \in Items : item'[j].state = "submitting" => item[j].state = "submitting"
    BY <2>2 DEF ItemsCalm, ItemCalm
  <2>6. ASSUME item'[i].state = "submitting" PROVE \A u \in Turns : ~Holds(turn'[u], i)
    <3> DEFINE r == [turn[t] EXCEPT !.pc = "start", !.cur = NoItem, !.accepted = FALSE]
    <3>1. r.pc = "start" /\ r.todo = turn[t].todo /\ r.cur = NoItem /\ r \in TurnType
          /\ r.auth = turn[t].auth
      BY <1>2 DEF TurnOk, TurnType, TurnSteps
    <3>2. turn' = [turn EXCEPT ![t] = Onward(r, item')]
      BY <1>4 DEF Goto, Goes
    <3> HIDE DEF r
    <3>3. \A p \in r.todo : p[1] # NoItem
      BY <3>1, BlindAssumption DEF TurnType
    <3>4. TurnOk(r)
      BY <1>2, <3>1, <3>3, <1>1 DEF TurnOk, CalmSteps
    <3>5. turn'[t] = Onward(r, item')
      BY <3>2 DEF BlindInv, BlindType
    <3>6. Holds(turn'[t], i) => Holds(r, i)
      BY <1>2, <2>2, <2>6, <3>4, <3>5, OnwardOk
    <3>7. ~Holds(r, i)
      BY <1>2, <3>1 DEF Holds, TurnOk
    <3>8. \A u \in Turns : Holds(turn'[u], i) => u = t
      BY <1>2, <2>3, <2>5, <2>6 DEF TurnsMove, BlindInv, AttemptInv
    <3>9. QED
      BY <3>6, <3>7, <3>8
  <2>7. AttemptInv'
    <3>1. SUFFICES ASSUME NEW j \in Items, item'[j].state = "submitting"
                   PROVE  /\ att'[j].checkpoint \in {"submitting", "failed"} \union Completed
                          /\ \A u, w \in Turns : Holds(turn'[u], j) /\ Holds(turn'[w], j) => u = w
                          /\ att'[j].checkpoint = "failed" => \A u \in Turns : ~Holds(turn'[u], j)
      BY DEF AttemptInv, Holds
    <3>2. CASE j = i
      BY <2>4, <2>6, <3>1, <3>2
    <3>3. CASE j # i
      BY <2>3, <2>4, <2>5, <3>1, <3>3 DEF TurnsMove, BlindInv, AttemptInv
    <3>4. QED
      BY <3>2, <3>3
  <2>8. QED
    BY <1>1, <2>2, <2>3, <2>4, <2>7, CalmKeepsRest
<1>5. QED
  BY <1>3, <1>4 DEF StartQueues

-----------------------------------------------------------------------------
(* Sending. *)
LEMMA SubmitNextKeeps ==
    ASSUME BlindInv, NEW t \in Turns, SubmitNext(t)
    PROVE  BlindInv'
<1>1. /\ received' = received /\ turn[t].pc = "submit"
      /\ UNCHANGED <<auth, enabling, recovery, changed, answering>>
  BY DEF SubmitNext, TurnKeeps, storeVars, personVars, hostVars
<1>2. PICK p \in turn[t].todo :
        \/ /\ \/ item' = item /\ att' = att
              \/ /\ item' = Move(item, p[1], {"ready"}, "preparing")
                 /\ att' = IF item[p[1]].state = "ready" THEN Requeued(p[1]) ELSE att
           /\ submitsInFlight' = submitsInFlight
           /\ Goes(t, [turn[t] EXCEPT !.todo = @ \ {p}])
        \/ /\ p[1] \notin submitsInFlight
           /\ item' = item /\ att' = att
           /\ Goes(t, [turn[t] EXCEPT !.pc = "gate", !.cur = p[1], !.todo = @ \ {p}])
           /\ submitsInFlight' = submitsInFlight \union {p[1]}
  BY DEF SubmitNext
<1>3. p[1] \in Items /\ p[1] # NoItem /\ TurnOk(turn[t])
  BY <1>1, BlindAssumption DEF BlindInv, BlindType, TurnOk, TurnType
<1>4. ItemsCalm /\ ItemType'
  <2>1. "preparing" \in ItemStates \ {"submitting", "none"}
    BY DEF ItemStates, LiveStates, StoppableStates
  <2>2. QED
    BY <1>2, <2>1, SameItemsCalm, MoveIsCalm DEF BlindInv, BlindType, ItemsCalm
<1>5. AttemptsCalm
  BY <1>2, <1>3, SameAttemptsCalm, RestartIsCalm DEF BlindInv
<1>6. CASE submitsInFlight' = submitsInFlight /\ Goes(t, [turn[t] EXCEPT !.todo = @ \ {p}])
  <2>1. TurnsMove /\ SendersStay
    BY <1>1, <1>4, <1>6, NextCalmly
  <2>2. QED
    BY <1>1, <1>4, <1>5, <2>1, CalmKeepsAll DEF CalmStep
<1>7. CASE /\ p[1] \notin submitsInFlight
           /\ Goes(t, [turn[t] EXCEPT !.pc = "gate", !.cur = p[1], !.todo = @ \ {p}])
           /\ submitsInFlight' = submitsInFlight \union {p[1]} /\ item' = item /\ att' = att
  <2> DEFINE r == [turn[t] EXCEPT !.pc = "gate", !.cur = p[1], !.todo = @ \ {p}]
  <2>1. /\ r \in TurnType /\ r.pc = "gate" /\ r.cur = p[1] /\ r.todo = turn[t].todo \ {p}
        /\ r.auth = turn[t].auth
    BY <1>3 DEF TurnOk, TurnType, TurnSteps
  <2>2. Goes(t, r)
    BY <1>7
  <2> HIDE DEF r
  <2>3. TurnOk(r)
    BY <1>1, <1>3, <2>1 DEF TurnOk, CalmSteps
  <2>4. \A i \in Items : ~Holds(r, i)
    BY <2>1 DEF Holds, Sending
  <2>5. TurnsMove /\ turn'[t] = r /\ \A u \in Turns : u # t => turn'[u] = turn[u]
    BY <1>4, <2>1, <2>2, <2>3, <2>4, GoesOn DEF BlindInv
  <2>6. SendingInv'
    <3>1. \A u \in Turns : u # t /\ turn'[u].pc \in Sending =>
              turn'[u] = turn[u] /\ turn[u].cur \in submitsInFlight /\ turn[u].cur # p[1]
      BY <1>7, <2>5 DEF BlindInv, SendingInv
    <3>2. QED
      BY <1>1, <1>7, <2>1, <2>5, <3>1 DEF BlindInv, SendingInv, Sending
  <2>7. AttemptInv' /\ SentIsShown'
    BY <1>1, <1>4, <1>5, <2>5, CalmKeepsAttempts, CalmKeepsShown
  <2>8. AnswerInv' /\ AuthInv' /\ StoppedIsQuiet'
    BY <1>1, <1>4, CalmKeepsStopped
  <2>9. BlindType'
    BY <1>1, <1>4, <1>7, <2>5 DEF BlindInv, BlindType, TurnsMove
  <2>10. QED
    BY <2>6, <2>7, <2>8, <2>9 DEF BlindInv
<1>8. QED
  BY <1>2, <1>6, <1>7

(* The checks refuse, before anything is sent. *)
LEMMA RefusalIsCalm ==
    ASSUME BlindInv, NEW t \in Turns, turn[t].pc = "gate", att' = att, received' = received,
           NEW expected \in SUBSET {"ready"},
           NEW to \in {"needs_you", "could_not_submit", "ready", "stopped"},
           SubmitEnds(t, expected, to)
    PROVE  CalmStep
<1>1. to \in ItemStates \ {"submitting", "none"}
  BY DEF ItemStates, LiveStates, StoppableStates, TerminalStates
<1>2. /\ item' = Move(item, turn[t].cur, expected, to) /\ Goto(t, "submit")
      /\ submitsInFlight' = submitsInFlight \ {turn[t].cur}
  BY DEF SubmitEnds
<1>3. ItemsCalm /\ ItemType'
  BY <1>1, <1>2, MoveIsCalm DEF BlindInv, BlindType, ItemsCalm
<1>4. AttemptsCalm
  BY SameAttemptsCalm DEF BlindInv
<1>5. TurnsMove /\ SendersStay
  BY <1>2, <1>3, GotoCalmly DEF Sending
<1>6. QED
  BY <1>3, <1>4, <1>5 DEF CalmStep

LEMMA GateRefusesKeeps ==
    ASSUME BlindInv, NEW t \in Turns, GateRefuses(t)
    PROVE  BlindInv'
<1>1. /\ received' = received /\ turn[t].pc = "gate" /\ att' = att
      /\ UNCHANGED <<auth, enabling, recovery, changed, answering>>
  BY DEF GateRefuses, TurnKeeps, storeVars, personVars, hostVars
<1>2. PICK e \in SUBSET {"ready"} : \E to \in {"needs_you", "could_not_submit", "ready"} :
          SubmitEnds(t, e, to)
  BY DEF GateRefuses
<1>3. QED
  BY <1>1, <1>2, RefusalIsCalm, CalmKeepsAll

(* The click: nobody else sends the item, nothing of it was sent before,    *)
(* and of the two turns only the other one can still hold it.               *)
LEMMA GatePassesKeeps ==
    ASSUME BlindInv, NEW t \in Turns, GatePasses(t)
    PROVE  BlindInv'
<1> DEFINE i == turn[t].cur
<1>1. /\ received' = received /\ turn[t].pc = "gate"
      /\ UNCHANGED <<auth, enabling, recovery, changed, answering>>
  BY DEF GatePasses, TurnKeeps, storeVars, personVars, hostVars
<1>2. i \in Items /\ TurnOk(turn[t]) /\ i \in submitsInFlight
  BY <1>1 DEF BlindInv, BlindType, TurnOk, TurnType, CalmSteps, SendingInv, Sending
<1>3. CASE SubmitEnds(t, {"ready"}, "stopped") /\ att' = att
  BY <1>1, <1>3, RefusalIsCalm, CalmKeepsAll
<1>4. CASE /\ item[i].state = "ready"
           /\ item' = [item EXCEPT ![i].state = "submitting"]
           /\ att' = [att EXCEPT ![i].checkpoint = "submitting"]
           /\ Goes(t, [turn[t] EXCEPT !.pc = "click"])
           /\ submitsInFlight' = submitsInFlight
  <2> DEFINE r == [turn[t] EXCEPT !.pc = "click"]
  <2>1. /\ r \in TurnType /\ r.pc = "click" /\ r.cur = i /\ r.todo = turn[t].todo
        /\ r.auth = turn[t].auth
    BY <1>2 DEF TurnOk, TurnType, TurnSteps
  <2>2. Goes(t, r)
    BY <1>4
  <2> HIDE DEF r
  <2>3. TurnOk(r)
    BY <1>1, <1>2, <2>1 DEF TurnOk, CalmSteps
  <2>4. \A j \in Items : ~Holds(r, j)
    BY <2>1 DEF Holds, Sending
  <2>5. "submitting" \in ItemStates /\ "submitting" \in Checkpoints
    BY DEF ItemStates, LiveStates, Checkpoints, NonTerminal
  <2>6. /\ ItemType' /\ item'[i].state = "submitting"
        /\ \A j \in Items : j # i => item'[j] = item[j]
    BY <1>2, <1>4, <2>5 DEF BlindInv, BlindType, ItemType
  <2>7. /\ att' \in [Items -> AttType] /\ att'[i].checkpoint = "submitting"
        /\ \A j \in Items : j # i => att'[j] = att[j]
    BY <1>2, <1>4, <2>5 DEF BlindInv, BlindType, AttType
  <2>8. TurnsMove /\ turn'[t] = r /\ \A u \in Turns : u # t => turn'[u] = turn[u]
    BY <2>1, <2>2, <2>3, <2>4, <2>6, GoesOn DEF BlindInv
  <2>9. received[i] = 0
    BY <1>2, <1>4 DEF BlindInv, BlindType, SentIsShown
  <2>10. SendingInv'
    <3>1. \A u \in Turns : u # t /\ turn'[u].pc \in Sending =>
              /\ turn'[u] = turn[u] /\ turn[u].cur \in submitsInFlight /\ turn[u].cur # i
              /\ turn[u].cur \in Items
      BY <1>1, <2>8 DEF BlindInv, BlindType, TurnOk, TurnType, SendingInv, Sending, CalmSteps
    <3>2. ASSUME NEW u \in Turns, u # t, turn'[u].pc \in Sending
          PROVE  /\ turn'[u].cur \in submitsInFlight'
                 /\ turn'[u].pc \in {"click", "observe"} => item'[turn'[u].cur].state = "submitting"
                 /\ turn'[u].pc = "click" => received'[turn'[u].cur] = 0
                 /\ turn'[u].pc = "observe" /\ ~turn'[u].accepted => received'[turn'[u].cur] = 0
      BY <1>1, <1>4, <2>6, <3>1, <3>2 DEF BlindInv, SendingInv
    <3>3. \A u, w \in Turns : (turn'[u].pc \in Sending /\ turn'[w].pc \in Sending
                              /\ turn'[u].cur = turn'[w].cur) => u = w
      BY <2>1, <2>8, <3>1 DEF BlindInv, SendingInv
    <3>4. QED
      BY <1>1, <1>2, <1>4, <2>1, <2>6, <2>8, <2>9, <3>2, <3>3 DEF SendingInv, Sending
  <2>11. AttemptInv'
    <3>1. SUFFICES ASSUME NEW j \in Items, item'[j].state = "submitting"
                   PROVE  /\ att'[j].checkpoint \in {"submitting", "failed"} \union Completed
                          /\ \A u, w \in Turns : Holds(turn'[u], j) /\ Holds(turn'[w], j) => u = w
                          /\ att'[j].checkpoint = "failed" => \A u \in Turns : ~Holds(turn'[u], j)
      BY DEF AttemptInv, Holds
    <3>2. CASE j = i
      BY <2>4, <2>7, <2>8, <3>2 DEF Turns
    <3>3. CASE j # i
      BY <2>6, <2>7, <2>8, <3>1, <3>3 DEF TurnsMove, BlindInv, AttemptInv
    <3>4. QED
      BY <3>2, <3>3
  <2>12. AnswerInv'
    BY <1>1, <1>4, <2>6 DEF BlindInv, AnswerInv, TerminalStates
  <2>13. SentIsShown' /\ AuthInv' /\ StoppedIsQuiet'
    BY <1>1, <2>6 DEF BlindInv, SentIsShown, AuthInv, StoppedIsQuiet, StoppableStates
  <2>14. BlindType'
    BY <1>1, <2>6, <2>7, <2>8 DEF BlindInv, BlindType, TurnsMove
  <2>15. QED
    BY <2>10, <2>11, <2>12, <2>13, <2>14 DEF BlindInv
<1>5. QED
  BY <1>3, <1>4 DEF GatePasses

(* A submission ends, with an outcome that does not hide what was sent. *)
LEMMA ConclusionKeeps ==
    ASSUME BlindInv, NEW t \in Turns, turn[t].pc \in {"click", "observe"},
           NEW cp \in {"ready", "needs_user", "submitted", "submission_unknown"},
           NEW to \in {"could_not_submit", "submitted", "outcome_unknown"},
           Concludes(t, cp, to),
           received' \in [Items -> {0, 1}],
           \A j \in Items : j # turn[t].cur => received'[j] = received[j],
           to = "could_not_submit" => received'[turn[t].cur] = 0,
           UNCHANGED <<auth, enabling, recovery, changed, answering>>
    PROVE  BlindInv'
<1> DEFINE i == turn[t].cur
<1>1. i \in Items /\ TurnOk(turn[t]) /\ i \in submitsInFlight /\ item[i].state = "submitting"
  BY DEF BlindInv, BlindType, TurnOk, TurnType, CalmSteps, SendingInv, Sending
<1>2. /\ Goto(t, "submit") /\ submitsInFlight' = submitsInFlight \ {i}
      /\ item' = Move(item, i, {"submitting"}, to)
      /\ att' = [att EXCEPT ![i].checkpoint = cp, ![i].note = "",
                            ![i].page = @ /\ cp \notin Completed]
  BY DEF Concludes, SubmitEnds
<1>3. to \in ItemStates /\ cp \in Checkpoints /\ "" \in Notes /\ to \in TerminalStates
  BY DEF ItemStates, TerminalStates, Checkpoints, NonTerminal, Completed, Notes
<1>4. /\ ItemType'
      /\ \A j \in Items : j # i => item'[j] = item[j]
      /\ item'[i].state = to
  <2>1. ItemType
    BY DEF BlindInv, BlindType
  <2>2. item' = [item EXCEPT ![i] = [item[i] EXCEPT !.state = to]]
    BY <1>1, <1>2, <2>1 DEF Move, TerminalStates, ItemType
  <2>3. /\ [item[i] EXCEPT !.state = to] \in [state : ItemStates, attempt : BOOLEAN,
                                               prepRetries : 0 .. 1]
        /\ [item[i] EXCEPT !.state = to].state = to
    BY <1>1, <1>3, <2>1 DEF ItemType
  <2>4. QED
    BY <1>1, <2>1, <2>2, <2>3 DEF ItemType
<1>5. item'[i].state # "submitting"
  BY <1>4
<1>6. att' \in [Items -> AttType] /\ \A j \in Items : j # i => att'[j] = att[j]
  <2>1. att \in [Items -> AttType]
    BY DEF BlindInv, BlindType
  <2> DEFINE b == att[i].page /\ cp \notin Completed
             x == [att[i] EXCEPT !.checkpoint = cp, !.note = "", !.page = b]
  <2>2. b \in BOOLEAN
    OBVIOUS
  <2>3. att' = [att EXCEPT ![i] = x]
    BY <1>1, <1>2, <2>1 DEF AttType
  <2> HIDE DEF b
  <2>4. ASSUME NEW a \in AttType, NEW c \in Checkpoints, NEW p \in BOOLEAN
        PROVE  [a EXCEPT !.checkpoint = c, !.note = "", !.page = p] \in AttType
    BY <1>3 DEF AttType
  <2>5. x \in AttType
    BY <1>1, <1>3, <2>1, <2>2, <2>4
  <2> HIDE DEF x
  <2>6. QED
    BY <1>1, <2>1, <2>3, <2>5
<1>7. TurnsMove /\ SendersStay
  BY <1>2, <1>4, <1>5, GotoCalmly DEF Sending
<1>8. ASSUME NEW u \in Turns, turn'[u].pc \in Sending
      PROVE  /\ turn'[u] = turn[u] /\ turn[u].cur \in submitsInFlight' /\ turn[u].cur # i
             /\ turn[u].cur \in Items
  <2>1. turn'[u] = turn[u] /\ turn[u].cur \in submitsInFlight'
    BY <1>7, <1>8 DEF SendersStay
  <2>2. turn[u].cur \in Items
    BY <1>8, <2>1 DEF BlindInv, BlindType, TurnOk, TurnType, CalmSteps, Sending
  <2>3. QED
    BY <1>2, <2>1, <2>2
<1>9. SendingInv'
  <2>1. ASSUME NEW u \in Turns, turn'[u].pc \in Sending
        PROVE  /\ turn'[u].cur \in submitsInFlight'
               /\ turn'[u].pc \in {"click", "observe"} => item'[turn'[u].cur].state = "submitting"
               /\ turn'[u].pc = "click" => received'[turn'[u].cur] = 0
               /\ turn'[u].pc = "observe" /\ ~turn'[u].accepted => received'[turn'[u].cur] = 0
    BY <1>4, <1>5, <1>8, <2>1 DEF BlindInv, SendingInv
  <2>2. \A u, w \in Turns : (turn'[u].pc \in Sending /\ turn'[w].pc \in Sending
                            /\ turn'[u].cur = turn'[w].cur) => u = w
    BY <1>8 DEF BlindInv, SendingInv
  <2>3. QED
    BY <2>1, <2>2 DEF SendingInv, Sending
<1>10. AttemptInv'
  <2>1. SUFFICES ASSUME NEW j \in Items, item'[j].state = "submitting"
                 PROVE  /\ att'[j].checkpoint \in {"submitting", "failed"} \union Completed
                        /\ \A u, w \in Turns : Holds(turn'[u], j) /\ Holds(turn'[w], j) => u = w
                        /\ att'[j].checkpoint = "failed" => \A u \in Turns : ~Holds(turn'[u], j)
    BY DEF AttemptInv, Holds
  <2>2. att'[j] = att[j] /\ item[j].state = "submitting"
    BY <1>4, <1>5, <1>6, <2>1
  <2>3. QED
    BY <1>7, <2>1, <2>2 DEF TurnsMove, BlindInv, AttemptInv
<1>11. AnswerInv'
  BY <1>1, <1>4, <1>5 DEF BlindInv, AnswerInv, TerminalStates
<1>12. SentIsShown'
  BY <1>1, <1>4, <1>5 DEF BlindInv, SentIsShown
<1>13. AuthInv' /\ StoppedIsQuiet'
  BY <1>4, <1>5 DEF BlindInv, AuthInv, StoppedIsQuiet, StoppableStates
<1>14. BlindType'
  BY <1>4, <1>5, <1>6, <1>7 DEF BlindInv, BlindType, TurnsMove
<1>15. QED
  BY <1>9, <1>10, <1>11, <1>12, <1>13, <1>14 DEF BlindInv

LEMMA RefusedOrObservedKeeps ==
    ASSUME BlindInv, NEW t \in Turns, ClickRefused(t) \/ Observes(t)
    PROVE  BlindInv'
<1>1. /\ received' = received /\ turn[t].pc \in {"click", "observe"}
      /\ UNCHANGED <<auth, enabling, recovery, changed, answering>>
  BY DEF ClickRefused, Observes, TurnKeeps, storeVars, personVars, hostVars
<1>2. \/ turn[t].pc = "click" /\ Concludes(t, "ready", "could_not_submit")
      \/ Concludes(t, "submitted", "submitted")
      \/ turn[t].pc = "observe" /\ ~turn[t].accepted /\ Concludes(t, "needs_user", "could_not_submit")
      \/ Concludes(t, "submission_unknown", "outcome_unknown")
  BY DEF ClickRefused, Observes
<1>3. received \in [Items -> {0, 1}]
  BY DEF BlindInv, BlindType
<1>4. /\ turn[t].pc = "click" => received[turn[t].cur] = 0
      /\ turn[t].pc = "observe" /\ ~turn[t].accepted => received[turn[t].cur] = 0
  BY DEF BlindInv, SendingInv
<1>5. CASE Concludes(t, "submitted", "submitted")
  BY <1>1, <1>3, <1>5, ConclusionKeeps
<1>6. CASE Concludes(t, "submission_unknown", "outcome_unknown")
  BY <1>1, <1>3, <1>6, ConclusionKeeps
<1>7. CASE received[turn[t].cur] = 0 /\ Concludes(t, "ready", "could_not_submit")
  BY <1>1, <1>3, <1>7, ConclusionKeeps
<1>8. CASE received[turn[t].cur] = 0 /\ Concludes(t, "needs_user", "could_not_submit")
  BY <1>1, <1>3, <1>8, ConclusionKeeps
<1>9. QED
  BY <1>2, <1>4, <1>5, <1>6, <1>7, <1>8

LEMMA ClicksKeeps ==
    ASSUME BlindInv, NEW t \in Turns, Clicks(t)
    PROVE  BlindInv'
<1> DEFINE i == turn[t].cur
<1>1. turn[t].pc = "click" /\ UNCHANGED <<auth, enabling, recovery, changed, answering>>
  BY DEF Clicks, storeVars, personVars, hostVars
<1>2. /\ i \in Items /\ TurnOk(turn[t]) /\ i \in submitsInFlight
      /\ item[i].state = "submitting" /\ received[i] = 0
  BY <1>1 DEF BlindInv, BlindType, TurnOk, TurnType, CalmSteps, SendingInv, Sending
<1>3. PICK ok \in BOOLEAN :
        /\ received' = [received EXCEPT ![i] = IF ok THEN @ + 1 ELSE @]
        /\ \/ Concludes(t, "submission_unknown", "outcome_unknown")
           \/ /\ UNCHANGED <<item, att, submitsInFlight>>
              /\ Goes(t, [turn[t] EXCEPT !.pc = "observe", !.accepted = ok])
  BY DEF Clicks
<1>4. /\ received' \in [Items -> {0, 1}]
      /\ ~ok => received'[i] = 0
      /\ \A j \in Items : j # i => received'[j] = received[j]
  BY <1>2, <1>3 DEF BlindInv, BlindType
<1>5. CASE Concludes(t, "submission_unknown", "outcome_unknown")
  BY <1>1, <1>4, <1>5, ConclusionKeeps
<1>6. CASE /\ item' = item /\ att' = att /\ submitsInFlight' = submitsInFlight
           /\ Goes(t, [turn[t] EXCEPT !.pc = "observe", !.accepted = ok])
  <2> DEFINE r == [turn[t] EXCEPT !.pc = "observe", !.accepted = ok]
  <2>1. /\ r \in TurnType /\ r.pc = "observe" /\ r.cur = i /\ r.todo = turn[t].todo
        /\ r.auth = turn[t].auth /\ r.accepted = ok
    BY <1>2 DEF TurnOk, TurnType, TurnSteps
  <2>2. Goes(t, r)
    BY <1>6
  <2> HIDE DEF r
  <2>3. TurnOk(r)
    BY <1>1, <1>2, <2>1 DEF TurnOk, CalmSteps
  <2>4. \A j \in Items : ~Holds(r, j)
    BY <2>1 DEF Holds, Sending
  <2>5. ItemsCalm /\ AttemptsCalm /\ ItemType'
    BY <1>6, SameItemsCalm, SameAttemptsCalm DEF BlindInv, BlindType, ItemsCalm
  <2>6. TurnsMove /\ turn'[t] = r /\ \A u \in Turns : u # t => turn'[u] = turn[u]
    BY <2>1, <2>2, <2>3, <2>4, <2>5, GoesOn DEF BlindInv
  <2>7. SendingInv'
    <3>1. \A u \in Turns : u # t /\ turn'[u].pc \in Sending =>
              /\ turn'[u] = turn[u] /\ turn[u].cur \in submitsInFlight /\ turn[u].cur # i
              /\ turn[u].cur \in Items
      BY <1>1, <2>6 DEF BlindInv, BlindType, TurnOk, TurnType, SendingInv, Sending, CalmSteps
    <3>2. ASSUME NEW u \in Turns, u # t, turn'[u].pc \in Sending
          PROVE  /\ turn'[u].cur \in submitsInFlight'
                 /\ turn'[u].pc \in {"click", "observe"} => item'[turn'[u].cur].state = "submitting"
                 /\ turn'[u].pc = "click" => received'[turn'[u].cur] = 0
                 /\ turn'[u].pc = "observe" /\ ~turn'[u].accepted => received'[turn'[u].cur] = 0
      BY <1>4, <1>6, <3>1, <3>2 DEF BlindInv, SendingInv
    <3>3. \A u, w \in Turns : (turn'[u].pc \in Sending /\ turn'[w].pc \in Sending
                              /\ turn'[u].cur = turn'[w].cur) => u = w
      BY <2>1, <2>6, <3>1 DEF BlindInv, SendingInv
    <3>4. QED
      BY <1>2, <1>4, <1>6, <2>1, <2>6, <3>2, <3>3 DEF SendingInv, Sending
  <2>8. AttemptInv'
    BY <2>5, <2>6, CalmKeepsAttempts
  <2>9. AnswerInv' /\ AuthInv' /\ StoppedIsQuiet'
    BY <1>1, <2>5, CalmKeepsStopped
  <2>10. SentIsShown'
    BY <1>2, <1>4, <1>6 DEF BlindInv, SentIsShown
  <2>11. BlindType'
    BY <1>1, <1>4, <1>6, <2>5, <2>6 DEF BlindInv, BlindType, TurnsMove
  <2>12. QED
    BY <2>7, <2>8, <2>9, <2>10, <2>11 DEF BlindInv
<1>7. QED
  BY <1>3, <1>5, <1>6

-----------------------------------------------------------------------------
(* The person, the pipeline and the host. *)
LEMMA CalmKeepsTheRest ==
    ASSUME BlindInv, CalmStep, AnswerInv', AuthInv', StoppedIsQuiet', changed' \in BOOLEAN,
           auth' \in [Auths -> {"none", "active", "stopped"}],
           answering' \in [item : Items \union {NoItem}, pc : {"idle", "resume", "resumed"}]
    PROVE  BlindInv'
<1>1. SendingInv' /\ SentIsShown' /\ AttemptInv'
  BY CalmKeepsSending, CalmKeepsShown, CalmKeepsAttempts DEF CalmStep
<1>2. BlindType'
  BY DEF BlindInv, BlindType, CalmStep, ItemsCalm, TurnsMove, AttemptsCalm
<1>3. QED
  BY <1>1, <1>2 DEF BlindInv

LEMMA CalmKeepsAnswer ==
    ASSUME BlindInv, ItemsCalm, answering' = answering \/ answering' = NoAnswer
    PROVE  /\ AnswerInv'
           /\ answering' \in [item : Items \union {NoItem}, pc : {"idle", "resume", "resumed"}]
<1>1. NoAnswer.pc = "idle" /\ NoAnswer \in [item : Items \union {NoItem}, pc : {"idle", "resume", "resumed"}]
  BY DEF NoAnswer
<1>2. CASE answering' = NoAnswer
  BY <1>1, <1>2 DEF AnswerInv
<1>3. CASE answering' = answering
  <2>1. AnswerInv'
    BY <1>3 DEF BlindInv, AnswerInv, ItemsCalm, ItemCalm, TerminalStates
  <2>2. QED
    BY <1>3, <2>1 DEF BlindInv, BlindType
<1>4. QED
  BY <1>2, <1>3

LEMMA TimeoutsKeep ==
    ASSUME BlindInv, TurnFindsNothing \/ \E t \in Turns : HardTimeout(t)
    PROVE  BlindInv'
<1>1. /\ att' = att /\ turn' = turn /\ submitsInFlight' = submitsInFlight /\ received' = received
      /\ UNCHANGED <<auth, enabling, recovery, changed, answering>>
      /\ item' = item \/ item' = ReconcileAllSubmitting
  BY DEF TurnFindsNothing, HardTimeout, TurnKeeps, storeVars, personVars, hostVars
<1>2. ItemsCalm /\ AttemptsCalm
  BY <1>1, SameItemsCalm, ReconciledIsCalm, SameAttemptsCalm DEF BlindInv, BlindType
<1>3. QED
  BY <1>1, <1>2, SameTurnsCalm, CalmKeepsAll DEF CalmStep

(* Stop: nothing stoppable is left under the authorization. *)
LEMMA StopNowKeeps ==
    ASSUME BlindInv, StopNow, UNCHANGED <<att, turn, submitsInFlight, recovery, received, changed, answering>>,
           enabling' = enabling \/ enabling' = TRUE
    PROVE  BlindInv'
<1>1. PICK a \in Auths : /\ auth[a] = "active" /\ item' = StopItems(a)
                         /\ auth' = [auth EXCEPT ![a] = "stopped"]
  BY DEF StopNow
<1>2. CalmStep
  BY <1>1, StopIsCalm, SameAttemptsCalm, SameTurnsCalm DEF BlindInv, BlindType, CalmStep
<1>3. /\ auth' \in [Auths -> {"none", "active", "stopped"}]
      /\ \A b \in Auths : b # a => auth'[b] = auth[b] /\ auth[b] # "active"
      /\ auth'[a] = "stopped"
  BY <1>1 DEF BlindInv, BlindType, AuthInv
<1>4. AuthInv'
  BY <1>3 DEF AuthInv
<1>5. \A i \in Items : /\ i[1] = a => item'[i].state \notin StoppableStates
                       /\ i[1] # a => item'[i] = item[i]
  BY <1>1 DEF StopItems, BlindInv, BlindType, ItemType, StoppableStates
<1>6. StoppedIsQuiet'
  <2>1. \A i \in Items : i[1] \in Auths
    BY DEF Items
  <2>2. QED
    BY <1>3, <1>5, <2>1 DEF BlindInv, StoppedIsQuiet
<1>7. QED
  BY <1>2, <1>3, <1>4, <1>6, CalmKeepsAnswer, CalmKeepsTheRest DEF CalmStep, BlindInv, BlindType

LEMMA PersonKeepsInv ==
    ASSUME BlindInv, Stop \/ EnableBegins \/ EnableCreates \/ ChangeCv
    PROVE  BlindInv'
<1>1. att' = att /\ turn' = turn /\ submitsInFlight' = submitsInFlight /\ received' = received
      /\ answering' = answering /\ recovery' = recovery
  BY DEF Stop, EnableBegins, EnableCreates, ChangeCv, PersonKeeps
<1>2. CASE StopNow /\ (Stop \/ EnableBegins)
  <2>1. changed' = changed /\ (enabling' = enabling \/ enabling' = TRUE)
    BY <1>2 DEF Stop, EnableBegins
  <2>2. QED
    BY <1>1, <1>2, <2>1, StopNowKeeps
<1>3. CASE item' = item /\ (EnableBegins \/ EnableCreates \/ ChangeCv)
  <2>1. CalmStep
    BY <1>1, <1>3, SameItemsCalm, SameAttemptsCalm, SameTurnsCalm DEF BlindInv, BlindType,
       CalmStep
  <2>2. CASE EnableBegins /\ ~(\E a \in Auths : auth[a] = "active")
    <3>1. auth' = auth /\ changed' = changed
      BY <2>2 DEF EnableBegins, storeVars
    <3>2. AuthInv' /\ StoppedIsQuiet'
      BY <1>1, <1>3, <2>2, <3>1 DEF BlindInv, AuthInv, StoppedIsQuiet
    <3>3. QED
      BY <1>1, <2>1, <3>1, <3>2, CalmKeepsAnswer, CalmKeepsTheRest DEF CalmStep, BlindInv,
         BlindType
  <2>3. CASE EnableCreates
    <3>1. PICK a \in Auths :
            /\ auth[a] = "none"
            /\ auth' = [b \in Auths |-> IF b = a THEN "active"
                                        ELSE IF auth[b] = "active" THEN "stopped" ELSE auth[b]]
      BY <2>3 DEF EnableCreates
    <3>2. enabling /\ enabling' = FALSE /\ changed' = FALSE
      BY <2>3 DEF EnableCreates
    <3>3. \A b \in Auths : auth[b] # "active"
      BY <3>2 DEF BlindInv, AuthInv
    <3>4. /\ auth' \in [Auths -> {"none", "active", "stopped"}] /\ auth'[a] = "active"
          /\ \A b \in Auths : b # a => auth'[b] = auth[b]
      BY <3>1, <3>3 DEF BlindInv, BlindType
    <3>5. AuthInv'
      BY <3>2, <3>3, <3>4 DEF AuthInv
    <3>6. StoppedIsQuiet'
      <4>1. \A i \in Items : i[1] \in Auths
        BY DEF Items
      <4>2. QED
        BY <1>1, <1>3, <3>4, <4>1 DEF BlindInv, StoppedIsQuiet
    <3>7. QED
      BY <1>1, <2>1, <3>2, <3>4, <3>5, <3>6, CalmKeepsAnswer, CalmKeepsTheRest DEF CalmStep
  <2>4. CASE ChangeCv
    <3>1. auth' = auth /\ changed' = TRUE /\ enabling' = enabling
      BY <2>4 DEF ChangeCv, storeVars
    <3>2. AuthInv' /\ StoppedIsQuiet'
      BY <1>1, <1>3, <3>1 DEF BlindInv, AuthInv, StoppedIsQuiet
    <3>3. QED
      BY <1>1, <2>1, <3>1, <3>2, CalmKeepsAnswer, CalmKeepsTheRest DEF CalmStep, BlindInv,
         BlindType
  <2>5. QED
    BY <1>2, <1>3, <2>2, <2>3, <2>4 DEF EnableBegins
<1>4. QED
  BY <1>2, <1>3 DEF Stop, EnableBegins, EnableCreates, ChangeCv

LEMMA AnswersKeep ==
    ASSUME BlindInv, AnswerResumes \/ AnswerMoves \/ \E i \in Items : AnswerBegins(i)
    PROVE  BlindInv'
<1>1. /\ turn' = turn /\ submitsInFlight' = submitsInFlight /\ received' = received
      /\ UNCHANGED <<auth, enabling, recovery, changed>>
  BY DEF AnswerResumes, AnswerMoves, AnswerBegins, PersonKeeps, storeVars
<1>2. TurnsMove /\ SendersStay
  BY <1>1, SameTurnsCalm
<1>3. ASSUME NEW i \in Items, AnswerBegins(i) PROVE BlindInv'
  <2>1. /\ item' = item /\ att' = att /\ item[i].state = "needs_answer"
        /\ answering' = [item |-> i, pc |-> "resume"]
    BY <1>3 DEF AnswerBegins
  <2>2. CalmStep
    BY <1>1, <1>2, <2>1, SameItemsCalm, SameAttemptsCalm DEF BlindInv, BlindType, CalmStep
  <2>3. /\ AnswerInv'
        /\ answering' \in [item : Items \union {NoItem}, pc : {"idle", "resume", "resumed"}]
    BY <2>1 DEF AnswerInv
  <2>4. AuthInv' /\ StoppedIsQuiet'
    BY <1>1, <2>1 DEF BlindInv, AuthInv, StoppedIsQuiet
  <2>5. QED
    BY <1>1, <2>2, <2>3, <2>4, CalmKeepsTheRest DEF BlindInv, BlindType
<1>4. CASE AnswerResumes
  <2> DEFINE i == answering.item
  <2>1. /\ item' = item /\ answering.pc = "resume"
        /\ \/ att' = Resumed(i) /\ answering' = [answering EXCEPT !.pc = "resumed"]
           \/ answering' = NoAnswer /\ att' = att
    BY <1>4 DEF AnswerResumes
  <2>2. i \in Items /\ item[i].state \in {"needs_answer", "needs_you"} \union TerminalStates
    BY <2>1 DEF BlindInv, AnswerInv
  <2>3. item[i].state # "submitting"
    BY <2>2 DEF TerminalStates
  <2>4. AttemptsCalm
    BY <2>1, <2>2, <2>3, RestartIsCalm, SameAttemptsCalm DEF BlindInv
  <2>5. CalmStep
    BY <1>1, <1>2, <2>1, <2>4, SameItemsCalm DEF BlindInv, BlindType, CalmStep
  <2>6. /\ AnswerInv'
        /\ answering' \in [item : Items \union {NoItem}, pc : {"idle", "resume", "resumed"}]
    <3>1. CASE answering' = NoAnswer
      BY <2>5, <3>1, CalmKeepsAnswer DEF CalmStep
    <3>2. CASE answering' = [answering EXCEPT !.pc = "resumed"]
      <4>1. /\ answering' \in [item : Items \union {NoItem}, pc : {"idle", "resume", "resumed"}]
            /\ answering'.item = i
        BY <3>2 DEF BlindInv, BlindType
      <4>2. QED
        BY <2>1, <2>2, <4>1 DEF AnswerInv
    <3>3. QED
      BY <2>1, <3>1, <3>2
  <2>7. AuthInv' /\ StoppedIsQuiet'
    BY <1>1, <2>1 DEF BlindInv, AuthInv, StoppedIsQuiet
  <2>8. QED
    BY <1>1, <2>5, <2>6, <2>7, CalmKeepsTheRest DEF BlindInv, BlindType
<1>5. CASE AnswerMoves
  <2>1. /\ item' = Move(item, answering.item, {"needs_answer"}, "preparing")
        /\ att' = att /\ answering' = NoAnswer
    BY <1>5 DEF AnswerMoves
  <2>2. CASE item' = item
    BY <1>1, <1>2, <2>1, <2>2, SameItemsCalm, SameAttemptsCalm, CalmKeepsAll
       DEF BlindInv, BlindType, CalmStep
  <2>3. CASE /\ item[answering.item].state = "needs_answer"
             /\ item' = [item EXCEPT ![answering.item].state = "preparing"]
    <3>1. "preparing" \in ItemStates /\ ItemType
      BY DEF ItemStates, LiveStates, StoppableStates, BlindInv, BlindType
    <3>2. /\ ItemType'
          /\ \A j \in Items : \/ item'[j] = item[j]
                              \/ /\ item[j].state = "needs_answer"
                                 /\ item'[j].state = "preparing"
      BY <2>3, <3>1 DEF ItemType
    <3>3. \A j \in Items : /\ item'[j].state = "submitting" <=> item[j].state = "submitting"
                           /\ item'[j].state \in StoppableStates <=> item[j].state \in StoppableStates
      BY <3>2 DEF StoppableStates
    <3>4. SendingInv'
      <4>1. \A t \in Turns : turn[t].pc \in Sending => turn[t].cur \in Items
        BY DEF BlindInv, BlindType, TurnOk, TurnType, Sending, CalmSteps
      <4>2. \A t \in Turns : turn[t].pc \in {"click", "observe"} =>
                item'[turn[t].cur].state = "submitting"
        BY <3>3, <4>1 DEF BlindInv, SendingInv, Sending
      <4>3. QED
        BY <1>1, <4>2 DEF BlindInv, SendingInv
    <3>5. AttemptInv'
      BY <1>1, <2>1, <3>3 DEF BlindInv, AttemptInv, Holds
    <3>6. AnswerInv'
      BY <2>1 DEF AnswerInv, NoAnswer
    <3>7. SentIsShown'
      BY <1>1, <3>2 DEF BlindInv, SentIsShown
    <3>8. AuthInv' /\ StoppedIsQuiet'
      BY <1>1, <3>3 DEF BlindInv, AuthInv, StoppedIsQuiet
    <3>9. BlindType'
      BY <1>1, <2>1, <3>2 DEF BlindInv, BlindType, NoAnswer
    <3>10. QED
      BY <3>4, <3>5, <3>6, <3>7, <3>8, <3>9 DEF BlindInv
  <2>4. QED
    BY <2>1, <2>2, <2>3 DEF Move
<1>6. QED
  BY <1>3, <1>4, <1>5

(* A run changes its attempt alone, and its checkpoint only while it is not *)
(* settled.                                                                 *)
RunUpdates(i) ==
    \E x \in AttType :
        /\ att' = [att EXCEPT ![i] = x]
        /\ x.checkpoint = att[i].checkpoint \/ att[i].checkpoint \in Unsettled

LEMMA RunUpdatesAttempt ==
    ASSUME NEW i \in Items, att \in [Items -> AttType], Pipeline(i)
    PROVE  RunUpdates(i)
<1>1. /\ {"preparing", "skipped", "filling", "failed", "needs_user", "ready"} \subseteq Checkpoints
      /\ {"", "captcha", "posting"} \subseteq Notes
  BY DEF Checkpoints, NonTerminal, Notes
<1>2. ASSUME NEW c \in Checkpoints, NEW n \in Notes, NEW r \in {"none", "prepares", "fills"},
             NEW e \in {"absent", "queued", "active", "cancelled"}, NEW b \in BOOLEAN,
             c = att[i].checkpoint \/ att[i].checkpoint \in Unsettled,
             att' = [att EXCEPT ![i].checkpoint = c, ![i].note = n, ![i].entry = e,
                                ![i].page = b, ![i].run = r]
      PROVE  RunUpdates(i)
  <2> DEFINE x == [att[i] EXCEPT !.checkpoint = c, !.note = n, !.entry = e, !.page = b, !.run = r]
  <2>1. x \in AttType /\ x.checkpoint = c
    BY DEF AttType
  <2>2. att' = [att EXCEPT ![i] = x]
    BY <1>2 DEF AttType
  <2>3. QED
    BY <1>2, <2>1, <2>2, Zenon DEF RunUpdates
<1>3. /\ att[i].checkpoint \in Checkpoints /\ att[i].note \in Notes /\ att[i].page \in BOOLEAN
      /\ att[i].entry \in {"absent", "queued", "active", "cancelled"}
      /\ att[i].run \in {"none", "prepares", "fills"}
  BY DEF AttType
<1>4. ASSUME NEW c \in {"skipped", "failed", "needs_user", "ready"},
             NEW n \in {"", "captcha", "posting"}, RunEnded(i, c, n),
             att[i].checkpoint \in Unsettled
      PROVE  RunUpdates(i)
  <2>1. att' = [att EXCEPT ![i].checkpoint = c, ![i].note = n, ![i].entry = att[i].entry,
                           ![i].page = att[i].page, ![i].run = "none"]
    BY <1>4 DEF RunEnded, AttType
  <2>2. c \in Checkpoints /\ n \in Notes
    BY <1>1
  <2>3. QED
    BY <1>2, <1>3, <1>4, <2>1, <2>2
<1>5. CASE RunEnters(i)
  <2>1. CASE /\ att[i].checkpoint \in Unsettled
             /\ att' = [att EXCEPT ![i].entry = "active", ![i].run = "prepares",
                                   ![i].checkpoint = "preparing", ![i].note = ""]
    <3>1. att' = [att EXCEPT ![i].checkpoint = "preparing", ![i].note = "",
                             ![i].entry = "active", ![i].page = att[i].page,
                             ![i].run = "prepares"]
      BY <2>1 DEF AttType
    <3>2. "preparing" \in Checkpoints /\ "" \in Notes /\ att[i].checkpoint \in Unsettled
      BY <1>1, <2>1
    <3>3. QED
      BY <1>2, <1>3, <3>1, <3>2
  <2>2. CASE att' = [att EXCEPT ![i].entry = "active"]
    <3>1. att' = [att EXCEPT ![i].checkpoint = att[i].checkpoint, ![i].note = att[i].note,
                             ![i].entry = "active", ![i].page = att[i].page,
                             ![i].run = att[i].run]
      BY <2>2 DEF AttType
    <3>2. QED
      BY <1>2, <1>3, <3>1
  <2>3. QED
    BY <1>5, <2>1, <2>2 DEF RunEnters
<1>6. CASE RunOpens(i)
  <2>1. att[i].checkpoint \in Unsettled
    BY <1>6 DEF RunOpens, Runs
  <2>2. CASE RunEnded(i, "skipped", "")
    BY <1>4, <2>1, <2>2
  <2>3. CASE att' = [att EXCEPT ![i].checkpoint = "filling", ![i].note = "",
                                ![i].page = TRUE, ![i].run = "fills"]
    <3>1. att' = [att EXCEPT ![i].checkpoint = "filling", ![i].note = "",
                             ![i].entry = att[i].entry, ![i].page = TRUE, ![i].run = "fills"]
      BY <2>3 DEF AttType
    <3>2. QED
      BY <1>1, <1>2, <1>3, <2>1, <3>1
  <2>4. QED
    BY <1>6, <2>2, <2>3 DEF RunOpens
<1>7. CASE RunStops(i) \/ RunFills(i) \/ RunBreaks(i)
  <2>1. \/ /\ att[i].checkpoint \in Unsettled
           /\ \E c \in {"failed", "needs_user", "ready"} :
              \E n \in {"", "captcha", "posting"} : RunEnded(i, c, n)
        \/ att' = [att EXCEPT ![i].run = "none"]
    BY <1>7, Zenon DEF RunStops, RunFills, RunBreaks, Runs
  <2>2. CASE att' = [att EXCEPT ![i].run = "none"]
    <3>1. att' = [att EXCEPT ![i].checkpoint = att[i].checkpoint, ![i].note = att[i].note,
                             ![i].entry = att[i].entry, ![i].page = att[i].page,
                             ![i].run = "none"]
      BY <2>2 DEF AttType
    <3>2. QED
      BY <1>2, <1>3, <3>1
  <2>3. QED
    BY <1>4, <2>1, <2>2
<1>8. CASE RunAbandoned(i)
  <2> DEFINE e == IF att[i].entry = "active" THEN "queued" ELSE att[i].entry
  <2>1. att' = [att EXCEPT ![i].checkpoint = att[i].checkpoint, ![i].note = att[i].note,
                           ![i].entry = e, ![i].page = FALSE, ![i].run = "none"]
    BY <1>8 DEF RunAbandoned, AttType
  <2>2. e \in {"absent", "queued", "active", "cancelled"}
    BY <1>3
  <2> HIDE DEF e
  <2>3. QED
    BY <1>2, <1>3, <2>1, <2>2
<1>9. CASE RunReleases(i)
  <2>1. att' = [att EXCEPT ![i].checkpoint = att[i].checkpoint, ![i].note = att[i].note,
                           ![i].entry = "absent", ![i].page = att[i].page,
                           ![i].run = att[i].run]
    BY <1>9 DEF RunReleases, AttType
  <2>2. QED
    BY <1>2, <1>3, <2>1
<1>10. QED
  BY <1>5, <1>6, <1>7, <1>8, <1>9 DEF Pipeline

(* The pipeline works on attempts that are not being sent. *)
LEMMA PipelineKeepsInv ==
    ASSUME BlindInv, NEW i \in Items, StopTearsDown(i) \/ Pipeline(i)
    PROVE  BlindInv'
<1>1. /\ turn' = turn /\ submitsInFlight' = submitsInFlight /\ received' = received
      /\ UNCHANGED <<auth, enabling, recovery, changed, answering>>
  BY DEF StopTearsDown, Pipeline, RunEnters, RunOpens, RunStops, RunFills, RunBreaks,
         RunAbandoned, RunFault, RunReleases, PipelineKeeps, PersonKeeps, storeVars,
         personVars, hostVars
<1>2. att \in [Items -> AttType]
  BY DEF BlindInv, BlindType
<1>3. ItemsCalm
  <2>1. \/ item' = item
        \/ \E to \in {"needs_answer", "needs_you"} :
              item' = Move(item, i, {"preparing", "needs_answer"}, to)
    BY DEF StopTearsDown, Pipeline, RunEnters, RunOpens, RunStops, RunFills, RunBreaks,
           RunAbandoned, RunFault, RunReleases
  <2>2. QED
    BY <2>1, SameItemsCalm, MoveIsCalm DEF BlindInv, BlindType
<1>4. AttemptsCalm
  <2>1. CASE StopTearsDown(i)
    <3>1. PICK e \in {"absent", "queued", "active", "cancelled"} :
            att' = [att EXCEPT ![i] = [att[i] EXCEPT !.entry = e, !.page = FALSE]]
      BY <1>2, <2>1 DEF StopTearsDown, Cancelled, AttType
    <3>2. /\ [att[i] EXCEPT !.entry = e, !.page = FALSE] \in AttType
          /\ [att[i] EXCEPT !.entry = e, !.page = FALSE].checkpoint = att[i].checkpoint
      BY <1>2 DEF AttType
    <3>3. QED
      BY <1>2, <3>1, <3>2 DEF AttemptsCalm
  <2>2. CASE Pipeline(i)
    <3>1. att[i].checkpoint \in Unsettled => item[i].state # "submitting"
      BY DEF BlindInv, AttemptInv, Completed, Unsettled
    <3>2. QED
      BY <1>2, <2>2, <3>1, RunUpdatesAttempt DEF AttemptsCalm, RunUpdates
  <2>3. QED
    BY <2>1, <2>2
<1>5. QED
  BY <1>1, <1>3, <1>4, SameTurnsCalm, CalmKeepsAll DEF CalmStep

LEMMA LeaseReturnedOk ==
    ASSUME NEW a \in AttType
    PROVE  LeaseReturned(a) \in AttType /\ LeaseReturned(a).checkpoint = a.checkpoint
BY DEF LeaseReturned, AttType

LEMMA HostKeepsInv ==
    ASSUME BlindInv,
           Crash \/ (\E done \in SUBSET Items : StopDies(done)) \/ Respawn \/ Recovers
    PROVE  BlindInv'
<1>1. received' = received /\ changed' = changed
  BY DEF Crash, StopDies, Dies, Respawn, Recovers, RecoverAttempts, RecoverItems, HostKeeps
<1>2. ASSUME Dies, ItemsCalm, auth' \in [Auths -> {"none", "active", "stopped"}],
             \A a \in Auths : auth'[a] = "active" => auth[a] = "active"
      PROVE  BlindInv'
  <2>1. /\ turn' = [t \in Turns |-> NoTurn] /\ enabling' = FALSE /\ answering' = NoAnswer
        /\ recovery' = "due"
        /\ att' = [i \in Items |->
                     [LeaseReturned(att[i]) EXCEPT !.page = FALSE, !.run = "none"]]
    BY <1>2 DEF Dies
  <2>2. AttemptsCalm
    <3>1. att \in [Items -> AttType]
      BY DEF BlindInv, BlindType
    <3>2. ASSUME NEW a \in AttType
          PROVE  /\ [a EXCEPT !.page = FALSE, !.run = "none"] \in AttType
                 /\ [a EXCEPT !.page = FALSE, !.run = "none"].checkpoint = a.checkpoint
      BY DEF AttType
    <3>3. \A i \in Items : /\ att'[i] \in AttType
                           /\ att'[i].checkpoint = att[i].checkpoint
      BY <2>1, <3>1, <3>2, LeaseReturnedOk
    <3>4. QED
      BY <2>1, <3>3 DEF AttemptsCalm
  <2>3. \A t \in Turns : turn'[t] = NoTurn
    BY <2>1
  <2>4. TurnsMove
    <3>1. NoTurn \in TurnType
      BY NoTurnOk DEF TurnOk
    <3>2. QED
      BY <2>1, <2>3, <3>1, NoTurnOk DEF TurnsMove
  <2>5. SendersStay
    BY <2>3, NoTurnOk DEF SendersStay, Sending
  <2>6. AuthInv' /\ StoppedIsQuiet'
    BY <1>2, <2>1 DEF BlindInv, AuthInv, StoppedIsQuiet
  <2>7. CalmStep
    BY <1>1, <1>2, <2>2, <2>4, <2>5 DEF CalmStep
  <2>8. QED
    BY <1>1, <1>2, <2>1, <2>6, <2>7, CalmKeepsAnswer, CalmKeepsTheRest DEF BlindInv, BlindType
<1>3. CASE Crash
  BY <1>2, <1>3, SameItemsCalm DEF Crash, BlindInv, BlindType
<1>4. ASSUME NEW done \in SUBSET Items, StopDies(done) PROVE BlindInv'
  <2>1. PICK a \in Auths :
          /\ auth' = [auth EXCEPT ![a] = "stopped"]
          /\ item' = [i \in Items |-> IF i \in done THEN StopItems(a)[i] ELSE item[i]]
    BY <1>4 DEF StopDies
  <2>2. ItemType /\ auth \in [Auths -> {"none", "active", "stopped"}]
    BY DEF BlindInv, BlindType
  <2>3. \A i \in Items : \/ item'[i] = item[i]
                         \/ /\ item[i].state \in StoppableStates
                            /\ item'[i] = [item[i] EXCEPT !.state = "stopped"]
    BY <2>1 DEF StopItems
  <2>4. "stopped" \in ItemStates \ {"submitting", "none"}
    BY DEF ItemStates, TerminalStates
  <2>5. ItemType'
    BY <2>1, <2>2, <2>4 DEF ItemType, StopItems
  <2>6. \A i \in Items : \/ item'[i].state = item[i].state
                         \/ item[i].state \in StoppableStates /\ item'[i].state = "stopped"
    BY <2>2, <2>3 DEF ItemType
  <2>7. ItemsCalm
    BY <2>4, <2>5, <2>6 DEF ItemsCalm, ItemCalm, StoppableStates
  <2>8. /\ auth' \in [Auths -> {"none", "active", "stopped"}]
        /\ \A b \in Auths : auth'[b] = "active" => auth[b] = "active"
    BY <2>1, <2>2
  <2>9. QED
    BY <1>2, <1>4, <2>7, <2>8 DEF StopDies
<1>5. CASE Respawn
  <2>1. /\ UNCHANGED <<item, turn, submitsInFlight, enabling, answering, auth>>
        /\ recovery' = "due"
        /\ att' = [i \in Items |-> LeaseReturned(att[i])]
    BY <1>5 DEF Respawn
  <2>2. CalmStep
    <3>1. AttemptsCalm
      BY <2>1, LeaseReturnedOk DEF BlindInv, BlindType, AttemptsCalm
    <3>2. QED
      BY <1>1, <2>1, <3>1, SameItemsCalm, SameTurnsCalm DEF BlindInv, BlindType, CalmStep
  <2>3. AuthInv' /\ StoppedIsQuiet'
    BY <2>1 DEF BlindInv, AuthInv, StoppedIsQuiet
  <2>4. QED
    BY <1>1, <2>1, <2>2, <2>3, CalmKeepsAnswer, CalmKeepsTheRest DEF CalmStep, BlindInv,
       BlindType
<1>6. CASE RecoverAttempts
  <2>1. /\ UNCHANGED <<item, turn, submitsInFlight, enabling, answering, auth>>
        /\ recovery' = "items"
    BY <1>6 DEF RecoverAttempts
  <2> DEFINE Queued(i) == Enqueued(att, i)[i]
             Again(i) == [Queued(i) EXCEPT !.checkpoint = "queued", !.note = ""]
             Unknown(i) == [att[i] EXCEPT !.checkpoint = "submission_unknown"]
             X(i) == CASE att[i].checkpoint \in {"preparing", "filling"} -> Again(i)
                       [] att[i].checkpoint = "submitting" -> Unknown(i)
                       [] att[i].checkpoint = "queued" /\ att[i].entry # "cancelled" -> Queued(i)
                       [] OTHER -> att[i]
  <2>2. att' = [i \in Items |-> X(i)]
    BY <1>6, Zenon DEF RecoverAttempts
  <2>3. ASSUME NEW i \in Items
        PROVE  \/ att[i].checkpoint \in {"preparing", "filling"} /\ X(i) = Again(i)
               \/ att[i].checkpoint = "submitting" /\ X(i) = Unknown(i)
               \/ X(i) = Queued(i)
               \/ X(i) = att[i]
    BY Zenon
  <2> HIDE DEF X
  <2>4. att \in [Items -> AttType] /\ {"queued", "submission_unknown"} \subseteq Checkpoints
        /\ "" \in Notes
    BY DEF BlindInv, BlindType, Checkpoints, NonTerminal, Notes
  <2>5. ASSUME NEW i \in Items
        PROVE  /\ Again(i) \in AttType /\ Unknown(i) \in AttType /\ Queued(i) \in AttType
               /\ Unknown(i).checkpoint = "submission_unknown"
               /\ Queued(i).checkpoint = att[i].checkpoint
    <3>1. Queued(i) \in AttType /\ Queued(i).checkpoint = att[i].checkpoint
      BY <2>4 DEF AttType, Enqueued
    <3> HIDE DEF Queued
    <3>2. QED
      BY <2>4, <3>1 DEF AttType
  <2> HIDE DEF Again, Unknown, Queued
  <2>6. att' \in [Items -> AttType]
    BY <2>2, <2>3, <2>4, <2>5
  <2>7. \A i \in Items : item[i].state = "submitting" =>
            att[i].checkpoint \notin {"preparing", "filling"}
    BY DEF BlindInv, AttemptInv, Completed
  <2>8. AttemptsCalm
    BY <2>2, <2>3, <2>5, <2>6, <2>7 DEF AttemptsCalm, Completed
  <2>9. CalmStep
    BY <1>1, <2>1, <2>8, SameItemsCalm, SameTurnsCalm DEF BlindInv, BlindType, CalmStep
  <2>10. AuthInv' /\ StoppedIsQuiet'
    BY <2>1 DEF BlindInv, AuthInv, StoppedIsQuiet
  <2>11. QED
    BY <1>1, <2>1, <2>9, <2>10, CalmKeepsAnswer, CalmKeepsTheRest DEF CalmStep, BlindInv,
       BlindType
<1>7. CASE RecoverItems
  <2> DEFINE again == {i \in Items : auth[i[1]] = "active" /\ item[i].state = "ready" /\ ~att[i].page}
  <2>1. /\ UNCHANGED <<turn, submitsInFlight, enabling, answering, auth>>
        /\ item' = [i \in Items |->
             IF item[i].state \in StoppableStates /\ auth[i[1]] = "stopped"
               THEN [item[i] EXCEPT !.state = "stopped"]
             ELSE IF i \in again THEN [item[i] EXCEPT !.state = "preparing"]
             ELSE ReconcileAllSubmitting[i]]
        /\ att' = [i \in Items |-> IF i \in again THEN Requeued(i)[i] ELSE att[i]]
    BY <1>7 DEF RecoverItems
  <2>2. \A i \in again : i \in Items /\ item[i].state = "ready" /\ auth[i[1]] = "active"
    OBVIOUS
  <2> HIDE DEF again
  <2>3. ItemType /\ att \in [Items -> AttType]
    BY DEF BlindInv, BlindType
  <2>4. ASSUME NEW i \in Items
        PROVE  \/ /\ item[i].state \in StoppableStates /\ auth[i[1]] = "stopped"
                  /\ item'[i] = [item[i] EXCEPT !.state = "stopped"]
               \/ /\ ~(item[i].state \in StoppableStates /\ auth[i[1]] = "stopped")
                  /\ \/ i \in again /\ item'[i] = [item[i] EXCEPT !.state = "preparing"]
                     \/ item'[i] = item[i]
                     \/ /\ item[i].state = "submitting" /\ i \notin submitsInFlight
                        /\ \E to \in {"submitted", "outcome_unknown"} :
                              item'[i] = [item[i] EXCEPT !.state = to]
    BY <2>1, ReconcileIsCalm DEF BlindInv
  <2>5. {"stopped", "preparing", "submitted", "outcome_unknown"} \subseteq ItemStates \ {"submitting", "none"}
    BY DEF ItemStates, TerminalStates, LiveStates, StoppableStates
  <2>6. ItemType'
    <3>1. \A i \in Items : item'[i] \in [state : ItemStates, attempt : BOOLEAN, prepRetries : 0 .. 1]
      BY <2>3, <2>4, <2>5 DEF ItemType
    <3>2. QED
      BY <2>1, <3>1 DEF ItemType
  <2>7. ASSUME NEW i \in Items
        PROVE  \/ /\ item[i].state \in StoppableStates /\ auth[i[1]] = "stopped"
                  /\ item'[i].state = "stopped"
               \/ /\ ~(item[i].state \in StoppableStates /\ auth[i[1]] = "stopped")
                  /\ \/ i \in again /\ item'[i].state = "preparing"
                     \/ item'[i].state = item[i].state
                     \/ /\ item[i].state = "submitting" /\ i \notin submitsInFlight
                        /\ item'[i].state \in {"submitted", "outcome_unknown"}
    BY <2>3, <2>4 DEF ItemType
  <2>8. ItemsCalm
    BY <2>2, <2>5, <2>6, <2>7 DEF ItemsCalm, ItemCalm, StoppableStates
  <2>9. AttemptsCalm
    <3>1. ASSUME NEW i \in Items
          PROVE  Requeued(i) \in [Items -> AttType]
      <4>1. PICK x \in AttType : Requeued(i) = [att EXCEPT ![i] = x]
        BY RestartIsUpdate DEF BlindInv
      <4>2. QED
        BY <2>3, <4>1
    <3>2. att' \in [Items -> AttType]
      BY <2>1, <2>3, <3>1
    <3>3. QED
      BY <2>1, <2>2, <3>2 DEF AttemptsCalm
  <2>10. CalmStep
    BY <1>1, <2>1, <2>8, <2>9, SameTurnsCalm DEF CalmStep
  <2>11. AuthInv' /\ StoppedIsQuiet'
    BY <2>1, <2>2, <2>7 DEF BlindInv, AuthInv, StoppedIsQuiet, StoppableStates
  <2>12. QED
    BY <1>1, <2>1, <2>8, <2>10, <2>11, CalmKeepsAnswer, CalmKeepsTheRest DEF BlindInv, BlindType
<1>8. QED
  BY <1>3, <1>4, <1>5, <1>6, <1>7 DEF Recovers

-----------------------------------------------------------------------------
LEMMA BlindInvStarts ==
    ASSUME Init
    PROVE  BlindInv
<1>1. /\ auth = [a \in Auths |-> "none"] /\ turn = [t \in Turns |-> NoTurn] /\ enabling = FALSE
      /\ answering = NoAnswer /\ changed = FALSE /\ received = [i \in Items |-> 0]
      /\ att = [i \in Items |-> [checkpoint |-> "none", note |-> "", entry |-> "absent",
                                 page |-> FALSE, run |-> "none"]]
  BY Zenon DEF Init
<1>2. ItemType /\ \A i \in Items : item[i].state = "none"
  BY ItemsStart
<1>3. att \in [Items -> AttType]
  <2>1. [checkpoint |-> "none", note |-> "", entry |-> "absent", page |-> FALSE,
         run |-> "none"] \in AttType
    BY DEF AttType, Checkpoints, Notes
  <2>2. QED
    BY <1>1, <2>1
<1>4. /\ turn \in [Turns -> TurnType] /\ \A t \in Turns : TurnOk(turn[t]) /\ turn[t].pc = "idle"
  BY <1>1, NoTurnOk DEF TurnOk
<1>5. BlindType
  BY <1>1, <1>2, <1>3, <1>4 DEF BlindType, NoAnswer
<1>6. SendingInv
  BY <1>4 DEF SendingInv, Sending
<1>7. AttemptInv /\ StoppedIsQuiet
  BY <1>2 DEF AttemptInv, StoppedIsQuiet, StoppableStates
<1>8. AnswerInv /\ AuthInv /\ SentIsShown
  <2>1. AnswerInv
    BY <1>1 DEF AnswerInv, NoAnswer
  <2>2. AuthInv
    BY <1>1 DEF AuthInv
  <2>3. SentIsShown
    <3>1. \A i \in Items : received[i] = 0
      BY <1>1
    <3>2. QED
      BY <3>1 DEF SentIsShown
  <2>4. QED
    BY <2>1, <2>2, <2>3
<1>9. QED
  BY <1>5, <1>6, <1>7, <1>8 DEF BlindInv

LEMMA TurnsKeepInv ==
    ASSUME BlindInv, NEW t \in Turns, TurnBegins(t) \/ TurnGoesOn(t)
    PROVE  BlindInv'
<1>1. ASSUME CalmStep, UNCHANGED TurnKeeps PROVE BlindInv'
  BY <1>1, CalmKeepsAll DEF TurnKeeps, storeVars, personVars, hostVars
<1>2. CASE TurnBegins(t)
  BY <1>1, <1>2, BeginIsCalm DEF TurnBegins
<1>3. CASE FactsRead(t) \/ TurnHearsStop(t) \/ \E v \in Vacancies : SelectChecks(t, v)
  BY <1>1, <1>3, SelectingIsCalm DEF FactsRead, TurnHearsStop, SelectChecks
<1>4. CASE LivenessAnswers(t)
  BY <1>1, <1>4, LivenessIsCalm DEF LivenessAnswers
<1>5. CASE PrepareNext(t)
  BY <1>1, <1>5, PrepareIsCalm DEF PrepareNext
<1>6. CASE TurnResumes(t)
  BY <1>1, <1>6, ResumeIsCalm DEF TurnResumes
<1>7. CASE TurnResumed(t) \/ StartAnswered(t)
  BY <1>1, <1>7, ResumedIsCalm DEF TurnResumed, StartAnswered
<1>8. CASE StartNext(t)
  BY <1>1, <1>8, StartIsCalm DEF StartNext
<1>9. QED
  BY <1>2, <1>3, <1>4, <1>5, <1>6, <1>7, <1>8, StartQueuesKeeps, SubmitNextKeeps,
     GateRefusesKeeps, GatePassesKeeps, RefusedOrObservedKeeps, ClicksKeeps DEF TurnGoesOn

LEMMA StepsKeepInv ==
    ASSUME BlindInv, [Next]_vars
    PROVE  BlindInv'
<1>1. CASE UNCHANGED vars
  <2>1. UNCHANGED <<item, att, turn, submitsInFlight, received, auth, enabling, recovery,
                    changed, answering>>
    BY <1>1 DEF vars
  <2>2. QED
    BY <2>1, SameItemsCalm, SameAttemptsCalm, SameTurnsCalm, CalmKeepsAll
       DEF CalmStep, BlindInv, BlindType
<1>2. CASE Next
  BY <1>2, TurnsKeepInv, TimeoutsKeep, PersonKeepsInv, AnswersKeep, PipelineKeepsInv,
     HostKeepsInv DEF Next
<1>3. QED
  BY <1>1, <1>2

(* What an employer received is never shown as stopped, skipped or not      *)
(* sent: for any number of vacancies, authorizations and faults, with two   *)
(* overlapping turns, Stops and recoveries at any point.                    *)
THEOREM SentIsAlwaysShown == Spec => []SentIsShown
<1>1. Init => BlindInv
  BY BlindInvStarts
<1>2. BlindInv /\ [Next]_vars => BlindInv'
  BY StepsKeepInv
<1>3. BlindInv => SentIsShown
  BY DEF BlindInv
<1>4. QED
  BY <1>1, <1>2, <1>3, PTL DEF Spec

(* No item is alive under a stopped authorization, whichever turn, answer,  *)
(* field mapper or posting check was under way when the Stop came.          *)
THEOREM StoppedIsAlwaysQuiet == Spec => []StoppedIsQuiet
<1>1. Init => BlindInv
  BY BlindInvStarts
<1>2. BlindInv /\ [Next]_vars => BlindInv'
  BY StepsKeepInv
<1>3. BlindInv => StoppedIsQuiet
  BY DEF BlindInv
<1>4. QED
  BY <1>1, <1>2, <1>3, PTL DEF Spec

(* An employer receives one application for a role at most: what was        *)
(* received is alive or sent, so it is the one item of its role, and it is  *)
(* clicked once.                                                            *)
THEOREM RolesAreAppliedForOnce == Spec => []OneApplicationPerRole
<1>1. Init => BlindInv
  BY BlindInvStarts
<1>2. BlindInv /\ [Next]_vars => BlindInv'
  BY StepsKeepInv
<1>3. BlindInv /\ OneItemPerRole => OneApplicationPerRole
  <2>1. ASSUME BlindInv, OneItemPerRole, NEW i \in Items, NEW j \in Items,
               RoleOf(i) = RoleOf(j), received[i] > 0, received[j] > 0
        PROVE  i = j /\ received[i] = 1
    <3>1. /\ item[i].state \in IdentityBlockingStates
          /\ item[j].state \in IdentityBlockingStates
      BY <2>1 DEF BlindInv, SentIsShown, IdentityBlockingStates, LiveStates
    <3>2. i = j
      BY <2>1, <3>1 DEF OneItemPerRole
    <3>3. received[i] = 1
      BY <2>1 DEF BlindInv, BlindType
    <3>4. QED
      BY <3>2, <3>3
  <2>2. QED
    BY <2>1 DEF OneApplicationPerRole
<1>4. Spec => []OneItemPerRole
  BY RolesAreTakenOnce
<1>5. QED
  BY <1>1, <1>2, <1>3, <1>4, PTL DEF Spec

(* What is not being sent begins to be only by GatePasses, under an active  *)
(* authorization, and reaches the employer only by Clicks.                  *)
LEMMA SendingBegins ==
    ASSUME BlindInv, NEW t \in Turns, TurnBegins(t) \/ TurnGoesOn(t) \/ HardTimeout(t),
           NEW i \in Items, auth[i[1]] # "active", item[i].state # "submitting"
    PROVE  item'[i].state # "submitting" /\ received'[i] = received[i]
<1> DEFINE Goal == item'[i].state # "submitting" /\ received'[i] = received[i]
<1>1. ASSUME CalmStep PROVE Goal
  BY <1>1 DEF CalmStep, ItemsCalm, ItemCalm
<1>2. ASSUME NEW j, NEW expected, NEW to \in TerminalStates \union StoppableStates,
             item' = item \/ item' = Move(item, j, expected, to), received' = received
      PROVE  Goal
  <2>1. ItemType /\ to # "submitting"
    BY DEF BlindInv, BlindType, TerminalStates, StoppableStates
  <2>2. QED
    BY <1>2, <2>1 DEF Move, ItemType
<1>3. CASE TurnBegins(t) \/ FactsRead(t) \/ TurnHearsStop(t) \/ LivenessAnswers(t) \/ PrepareNext(t)
           \/ TurnResumes(t) \/ TurnResumed(t) \/ StartNext(t) \/ StartAnswered(t)
           \/ (\E v \in Vacancies : SelectChecks(t, v))
  BY <1>1, <1>3, BeginIsCalm, SelectingIsCalm, LivenessIsCalm, PrepareIsCalm, ResumeIsCalm,
     ResumedIsCalm, StartIsCalm
<1>4. CASE StartQueues(t) \/ SubmitNext(t) \/ GateRefuses(t) \/ HardTimeout(t)
  <2>1. received' = received
    BY <1>4 DEF StartQueues, SubmitNext, GateRefuses, HardTimeout, TurnKeeps
  <2>2. \/ item' = item
        \/ \E j : \E e : \E to \in {"could_not_submit", "preparing", "needs_you", "ready"} :
              item' = Move(item, j, e, to)
    BY <1>4 DEF StartQueues, SubmitNext, GateRefuses, HardTimeout, SubmitEnds
  <2>3. {"could_not_submit", "preparing", "needs_you", "ready"}
           \subseteq TerminalStates \union StoppableStates
    BY DEF TerminalStates, StoppableStates
  <2>4. QED
    BY <1>2, <2>1, <2>2, <2>3
<1>5. CASE GatePasses(t)
  <2>1. /\ received' = received /\ turn[t].pc = "gate"
        /\ \/ /\ auth[turn[t].auth] = "active"
              /\ item' = [item EXCEPT ![turn[t].cur].state = "submitting"]
           \/ item' = Move(item, turn[t].cur, {"ready"}, "stopped")
    BY <1>5 DEF GatePasses, SubmitEnds, IsActive, TurnKeeps
  <2>2. turn[t].cur[1] = turn[t].auth
    BY <2>1 DEF BlindInv, BlindType, TurnOk, CalmSteps
  <2>3. "stopped" \in TerminalStates \union StoppableStates
    BY DEF TerminalStates
  <2>4. QED
    BY <1>2, <2>1, <2>2, <2>3 DEF BlindInv, BlindType, ItemType
<1>6. ASSUME NEW cp, NEW to \in {"could_not_submit", "submitted", "outcome_unknown"},
             Concludes(t, cp, to)
      PROVE  item'[i].state # "submitting"
  <2>1. \E e : item' = Move(item, turn[t].cur, e, to)
    BY <1>6 DEF Concludes, SubmitEnds
  <2>2. ItemType
    BY DEF BlindInv, BlindType
  <2>3. QED
    BY <2>1, <2>2 DEF Move, ItemType
<1>7. CASE ClickRefused(t) \/ Observes(t)
  BY <1>6, <1>7 DEF ClickRefused, Observes, TurnKeeps
<1>8. CASE Clicks(t)
  <2>1. /\ turn[t].pc = "click" /\ (item' = item \/ Concludes(t, "submission_unknown", "outcome_unknown"))
        /\ \E n : received' = [received EXCEPT ![turn[t].cur] = n]
    BY <1>8 DEF Clicks
  <2>2. item[turn[t].cur].state = "submitting"
    BY <2>1 DEF BlindInv, SendingInv
  <2>3. received'[i] = received[i]
    BY <2>1, <2>2 DEF BlindInv, BlindType
  <2>4. QED
    BY <1>6, <2>1, <2>3
<1>9. QED
  BY <1>3, <1>4, <1>5, <1>7, <1>8 DEF TurnGoesOn

LEMMA OthersSendNothing ==
    ASSUME BlindInv, NEW i \in Items, item[i].state # "submitting",
           \/ TurnFindsNothing \/ Stop \/ EnableBegins \/ EnableCreates \/ AnswerResumes
           \/ AnswerMoves \/ ChangeCv
           \/ \E j \in Items : StopTearsDown(j) \/ AnswerBegins(j) \/ Pipeline(j)
           \/ Crash \/ (\E done \in SUBSET Items : StopDies(done)) \/ Respawn \/ Recovers
    PROVE  item'[i].state # "submitting" /\ received'[i] = received[i]
<1>0. ItemType /\ BlindType /\ AttemptInv
  BY DEF BlindInv, BlindType
<1>1. received' = received
  BY DEF TurnFindsNothing, TurnKeeps, Stop, EnableBegins, EnableCreates, AnswerResumes,
     AnswerMoves,
         ChangeCv, StopTearsDown, AnswerBegins, Pipeline, RunEnters, RunOpens, RunStops,
         RunFills, RunBreaks, RunAbandoned, RunFault, RunReleases,
         PersonKeeps, PipelineKeeps, Crash, StopDies, Dies, Respawn, Recovers, RecoverAttempts,
         RecoverItems, HostKeeps
<1>2. ASSUME ItemsCalm PROVE item'[i].state # "submitting"
  BY <1>2 DEF ItemsCalm, ItemCalm
<1>3. CASE TurnFindsNothing
  BY <1>0, <1>1, <1>2, <1>3, ReconciledIsCalm DEF TurnFindsNothing
<1>4. CASE item' = item
  BY <1>1, <1>4
<1>5. CASE Stop \/ EnableBegins
  <2>1. item' = item \/ \E a \in Auths : item' = StopItems(a)
    BY <1>5, Zenon DEF Stop, EnableBegins, StopNow
  <2>2. QED
    BY <1>0, <1>1, <1>2, <1>4, <2>1, StopIsCalm
<1>6. ASSUME NEW j, NEW e, NEW to \in {"preparing", "needs_answer", "needs_you"},
             item' = Move(item, j, e, to)
      PROVE  item'[i].state # "submitting"
  BY <1>0, <1>6 DEF Move, ItemType
<1>7. CASE AnswerMoves
  BY <1>1, <1>6, <1>7 DEF AnswerMoves
<1>8. ASSUME NEW j \in Items, StopTearsDown(j) \/ AnswerBegins(j) \/ Pipeline(j)
      PROVE  item'[i].state # "submitting"
  <2>1. \/ item' = item
        \/ \E to \in {"needs_answer", "needs_you"} :
              item' = Move(item, j, {"preparing", "needs_answer"}, to)
    BY <1>8 DEF StopTearsDown, AnswerBegins, Pipeline, RunEnters, RunOpens, RunStops, RunFills,
         RunBreaks, RunAbandoned, RunFault, RunReleases
  <2>2. QED
    BY <1>4, <1>6, <2>1
<1>9. ASSUME NEW done \in SUBSET Items, StopDies(done)
      PROVE  item'[i].state # "submitting"
  <2>1. PICK a \in Auths :
            item' = [j \in Items |-> IF j \in done THEN StopItems(a)[j] ELSE item[j]]
    BY <1>9, Zenon DEF StopDies
  <2>2. QED
    BY <1>0, <2>1 DEF StopItems, ItemType
<1>10. CASE RecoverItems
  <2>1. \/ item'[i] = [item[i] EXCEPT !.state = "stopped"]
        \/ item'[i] = [item[i] EXCEPT !.state = "preparing"]
        \/ item'[i] = ReconcileAllSubmitting[i]
    BY <1>10 DEF RecoverItems
  <2>2. ReconcileAllSubmitting[i] = item[i]
    BY <1>0, ReconcileIsCalm
  <2>3. QED
    BY <1>0, <1>1, <2>1, <2>2 DEF ItemType
<1>11. CASE EnableCreates \/ AnswerResumes \/ ChangeCv \/ Crash \/ Respawn \/ RecoverAttempts
  <2>1. item' = item
    BY <1>11, Zenon DEF EnableCreates, AnswerResumes, ChangeCv, Crash, Respawn, RecoverAttempts
  <2>2. QED
    BY <1>4, <2>1
<1>12. QED
  BY <1>1, <1>3, <1>5, <1>7, <1>8, <1>9, <1>10, <1>11 DEF Recovers

(* Nothing is sent under an authorization that was withdrawn: the step that *)
(* commits to the click reads the authorization, and what reaches the       *)
(* employer was at "Sending" before.                                        *)
THEOREM NothingIsSentAfterStop == Spec => NothingSentAfterStop
<1>1. Init => BlindInv
  BY BlindInvStarts
<1>2. BlindInv /\ [Next]_vars => BlindInv'
  BY StepsKeepInv
<1>3. ASSUME BlindInv, [Next]_vars
      PROVE  \A i \in Items :
                auth[i[1]] # "active" /\ item[i].state # "submitting"
                => item'[i].state # "submitting" /\ received'[i] = received[i]
  <2>1. CASE UNCHANGED vars
    BY <1>3, <2>1 DEF vars
  <2>2. CASE Next
    BY <1>3, <2>2, SendingBegins, OthersSendNothing DEF Next
  <2>3. QED
    BY <1>3, <2>1, <2>2
<1>4. QED
  BY <1>1, <1>2, <1>3, PTL DEF Spec, NothingSentAfterStop
=============================================================================
