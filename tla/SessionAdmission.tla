-------------------------- MODULE SessionAdmission --------------------------
(***************************************************************************)
(* Who may run an agent in a workspace.  Three HTTP handlers of the daemon *)
(* race over it:                                                           *)
(*                                                                         *)
(*   - POST /v2/sessions (routes/v2-sessions-create.ts) checks trust,      *)
(*     audits, leases the workspace and calls SessionManager.create();     *)
(*   - POST /v2/workspaces/consume-grant (routes/v2-workspaces.ts) makes a *)
(*     workspace trusted;                                                  *)
(*   - PUT /v2/workspaces/:id/trust (same file) blocks the workspace,      *)
(*     lowers its trust and cancels its sessions.                          *)
(*                                                                         *)
(* They share the SessionManager's admission state (blockedWorkspaces, the *)
(* revocation epochs, the index of sessions), the limiter, the leases, the *)
(* WorkspaceTrustStore (memory, file, and the queue of writes between) and *)
(* the AuditStore.  A step is what runs between two awaits: the daemon is  *)
(* one event loop.  Where a handler awaits an audit append or the queue's  *)
(* answer and goes on, the append and the continuation are one step.       *)
(*                                                                         *)
(* A session's provider process is abstracted to what admission can see of *)
(* it; ProviderRun models the runner itself.                               *)
(***************************************************************************)
EXTENDS Integers, Sequences, FiniteSets, ActiveSessionLimiter

CONSTANTS
    Grants,         \* the consume-grant requests
    Revokes,        \* the trust-lowering requests
    Workspaces,
    WorkspaceOf,    \* of a session; None for a v1 session, which names no workspace
    ProviderOf,     \* of a session
    GrantFor,       \* the workspace of a grant
    RevokeOf,       \* the workspace of a revocation
    MaxCrashes,     \* how often the daemon may die
    DiskFaults,     \* may a write of the trust file fail?
    ReapTimeouts,   \* may a kill give up before the process is gone?
    PayloadFaults   \* may building the prompt's stdin payload throw?

ASSUME AdmissionAssumption ==
    /\ WorkspaceOf \in [Sessions -> Workspaces \union {None}]
    /\ ProviderOf \in [Sessions -> Providers]
    /\ GrantFor \in [Grants -> Workspaces]
    /\ RevokeOf \in [Revokes -> Workspaces]
    /\ None \notin Workspaces \union Providers \union Sessions
    /\ Grants \intersect Revokes = {}
    /\ GlobalLimit \in Nat /\ ProviderLimit \in Nat /\ MaxCrashes \in Nat
    /\ {DiskFaults, ReapTimeouts, PayloadFaults} \subseteq BOOLEAN
    /\ IsFiniteSet(Sessions)

VARIABLES
    pc,             \* where each session-creation request, then session, stands
    epochSeen,      \* epochAtDecision of each session-creation request
    sawTrusted,     \* what the trust inspection of each of them answered
    proc,           \* the provider process of each session
    cancelled,      \* the sessions whose handle.cancel() was called
    abandoning,     \* those whose stream the daemon is giving up (see GiveUpStream)
    removing,       \* those a DELETE is waiting for
    indexed,        \* sessionsByWorkspace and workspaceBySession
    blocked,        \* blockedWorkspaces
    epoch,          \* workspaceRevocationEpochs
    holder,         \* the exclusive lease of each workspace
    gpc, grantEpoch,        \* the consume-grant requests
    rpc, snapshot,  \* the revocations, and the sessions each one cancels
    record,         \* WorkspaceTrustStore.#records
    disk,           \* the trust file
    queue,          \* the store's #writeQueue
    log, auditOk,   \* the audit log, and whether the store is healthy
    crashes

requestVars == <<pc, epochSeen, sawTrusted>>
procVars    == <<proc, cancelled, abandoning, removing>>
admission   == <<blocked, epoch>>
limiterVars == <<held, perProvider>>
grantVars   == <<gpc, grantEpoch>>
revokeVars  == <<rpc, snapshot>>
trustVars   == <<record, disk, queue>>
auditVars   == <<log, auditOk>>

vars == <<requestVars, procVars, indexed, admission, limiterVars, holder,
          grantVars, revokeVars, trustVars, auditVars, crashes>>

Lease == INSTANCE ExclusiveLease WITH Holders <- Sessions

CreateStates == {"idle", "resolving", "revalidating", "inspecting", "detecting",
                 "auditing", "leased", "live", "ended", "denying", "denied"}
ProcStates   == {"none", "starting", "alive", "gone", "orphan"}
GrantStates  == {"idle", "consuming", "granting", "persisting", "persisted",
                 "unsaved", "undoing", "rollback", "granted", "denying", "denied"}
RevokeStates == {"idle", "auditing", "tearing", "revoked", "refused", "past"}
TrustStates  == {"absent", "untrusted", "trusted", "revoking"}
Events       == {"session.workspace_allowed", "session.workspace_denied",
                 "grant.consumed", "grant.denied", "trust.granted",
                 "trust.revocation_started", "trust.revoked"}
Requests     == Sessions \union Grants \union Revokes
Writes       == [workspace : Workspaces, to : TrustStates, by : Grants \union Revokes]

SessionTypes ==
    /\ pc \in [Sessions -> CreateStates]
    /\ epochSeen \in [Sessions -> Nat]
    /\ sawTrusted \in [Sessions -> BOOLEAN]
    /\ proc \in [Sessions -> ProcStates]
    /\ cancelled \subseteq Sessions
    /\ abandoning \subseteq Sessions
    /\ removing \subseteq Sessions
    /\ indexed \subseteq Sessions
    /\ held \in [Sessions -> Providers \union {None}]
    /\ perProvider \in [Providers -> Nat]
    /\ holder \in [Workspaces -> Sessions \union {None}]
    /\ crashes \in Nat

TrustTypes ==
    /\ blocked \subseteq Workspaces
    /\ epoch \in [Workspaces -> Nat]
    /\ gpc \in [Grants -> GrantStates]
    /\ grantEpoch \in [Grants -> Nat]
    /\ rpc \in [Revokes -> RevokeStates]
    /\ snapshot \in [Revokes -> SUBSET Sessions]
    /\ record \in [Workspaces -> TrustStates]
    /\ disk \in [Workspaces -> TrustStates]
    /\ queue \in Seq(Writes)

AuditTypes ==
    /\ log \subseteq Events \X Requests
    /\ auditOk \in BOOLEAN

(* Among the types: a counter of the limiter is never negative, which is    *)
(* the underflow that release() throws on.                                  *)
TypeOK == SessionTypes /\ TrustTypes /\ AuditTypes

(* A fresh install: no trust file, an empty audit log. *)
Init ==
    /\ pc = [s \in Sessions |-> "idle"]
    /\ epochSeen = [s \in Sessions |-> 0]
    /\ sawTrusted = [s \in Sessions |-> FALSE]
    /\ proc = [s \in Sessions |-> "none"]
    /\ cancelled = {} /\ abandoning = {} /\ removing = {} /\ indexed = {}
    /\ blocked = {}
    /\ epoch = [w \in Workspaces |-> 0]
    /\ LimiterInit
    /\ Lease!Init
    /\ gpc = [g \in Grants |-> "idle"]
    /\ grantEpoch = [g \in Grants |-> 0]
    /\ rpc = [r \in Revokes |-> "idle"]
    /\ snapshot = [r \in Revokes |-> {}]
    /\ record = [w \in Workspaces |-> "absent"]
    /\ disk = [w \in Workspaces |-> "absent"]
    /\ queue = <<>>
    /\ log = {} /\ auditOk = TRUE
    /\ crashes = 0

-----------------------------------------------------------------------------
(* Pieces the handlers share *)

(* changedSince(), changedSinceDecision(): blocked, or the epoch moved. *)
Changed(w, e) == w \in blocked \/ epoch[w] # e

(* blockWorkspace(): synchronous, nothing is persisted. *)
BlockWorkspace(w) ==
    /\ blocked' = blocked \union {w}
    /\ epoch' = [epoch EXCEPT ![w] = @ + 1]

(* allowWorkspace() *)
AllowWorkspace(w) ==
    /\ blocked' = blocked \ {w}
    /\ epoch' = [epoch EXCEPT ![w] = @ + 1]

(* AuditStore.append(): an entry is on disk before the caller goes on... *)
AuditAppend(event, by) ==
    /\ auditOk
    /\ log' = log \union {<<event, by>>}
    /\ UNCHANGED auditOk

(* ...or the write fails, and the store refuses every later entry too. *)
AuditFails ==
    /\ auditOk' = FALSE
    /\ UNCHANGED log

(* WorkspaceTrustStore.#mutate(): the change is queued behind the others. *)
Enqueue(w, to, by) == queue' = Append(queue, [workspace |-> w, to |-> to, by |-> by])

-----------------------------------------------------------------------------
(* POST /v2/sessions *)

To(s, state) == pc' = [pc EXCEPT ![s] = state]

(* What no step of the route up to create() touches. *)
RouteFrame == UNCHANGED <<procVars, indexed, admission, limiterVars, grantVars,
                          revokeVars, trustVars, crashes>>

(* Steps 1-4: the claimed workspace is refused while it is blocked, and the *)
(* epoch is read in the same turn; then the identity is resolved.           *)
CreateArrives(s) ==
    /\ pc[s] = "idle" /\ WorkspaceOf[s] # None
    /\ \/ WorkspaceOf[s] \in blocked /\ To(s, "denying") /\ UNCHANGED epochSeen
       \/ /\ WorkspaceOf[s] \notin blocked
          /\ epochSeen' = [epochSeen EXCEPT ![s] = epoch[WorkspaceOf[s]]]
          /\ To(s, "resolving")
    /\ RouteFrame /\ UNCHANGED <<sawTrusted, holder, auditVars>>

(* A refusal a request can meet for what it asks for rather than for what   *)
(* the daemon is doing: an unreadable or drifted path, a folder that is not *)
(* reusable, an attachment, resume target or capability that is no good.    *)
CreateRefusedForItsContent(s) ==
    /\ pc[s] \in {"resolving", "revalidating", "detecting"}
    /\ \E state \in {"denying", "denied"} : To(s, state)
    /\ RouteFrame /\ UNCHANGED <<epochSeen, sawTrusted, holder, auditVars>>

(* Steps 5-6: the identity matches the claim; workspaceIsTrusted() makes    *)
(* its entry checks and goes to the file system to revalidate.              *)
CreateResolved(s) ==
    /\ pc[s] = "resolving"
    /\ IF Changed(WorkspaceOf[s], epochSeen[s]) THEN To(s, "denying")
                                               ELSE To(s, "revalidating")
    /\ RouteFrame /\ UNCHANGED <<epochSeen, sawTrusted, holder, auditVars>>

(* The path is still the workspace: the epoch is compared again, and the    *)
(* trust store is asked.  inspect() reads the record when it is called and  *)
(* answers later.                                                           *)
CreateRevalidated(s) ==
    /\ pc[s] = "revalidating"
    /\ \/ /\ epoch[WorkspaceOf[s]] # epochSeen[s]
          /\ To(s, "denying")
          /\ UNCHANGED sawTrusted
       \/ /\ epoch[WorkspaceOf[s]] = epochSeen[s]
          /\ To(s, "inspecting")
          /\ sawTrusted' = [sawTrusted EXCEPT ![s] = record[WorkspaceOf[s]] = "trusted"]
    /\ RouteFrame /\ UNCHANGED <<epochSeen, holder, auditVars>>

(* Mutant: the answer of the inspection is not looked at. *)
CreateInspectedUnread(s) ==
    /\ pc[s] = "inspecting"
    /\ IF ~Changed(WorkspaceOf[s], epochSeen[s]) THEN To(s, "detecting") ELSE To(s, "denying")
    /\ RouteFrame /\ UNCHANGED <<epochSeen, sawTrusted, holder, auditVars>>

(* The inspection's answer is used only if nothing moved meanwhile; then    *)
(* the provider is asked for its status and, perhaps, its models.           *)
CreateInspected(s) ==
    /\ pc[s] = "inspecting"
    /\ IF sawTrusted[s] /\ ~Changed(WorkspaceOf[s], epochSeen[s])
       THEN To(s, "detecting") ELSE To(s, "denying")
    /\ RouteFrame /\ UNCHANGED <<epochSeen, sawTrusted, holder, auditVars>>

(* Steps 7-11: the request's content is in order, its session id is minted  *)
(* and the entry that names it goes to the audit queue.                     *)
CreateDetected(s) ==
    /\ pc[s] = "detecting"
    /\ To(s, "auditing")
    /\ RouteFrame /\ UNCHANGED <<epochSeen, sawTrusted, holder, auditVars>>

(* The entry could not be written: no session. *)
CreateUnaudited(s) ==
    /\ pc[s] = "auditing"
    /\ AuditFails
    /\ To(s, "denied")
    /\ RouteFrame /\ UNCHANGED <<epochSeen, sawTrusted, holder>>

(* Steps 12-13: the entry is on disk; admission is checked again and the    *)
(* write lease is taken in the same turn, or refused.                       *)
CreateAudited(s) ==
    /\ pc[s] = "auditing"
    /\ AuditAppend("session.workspace_allowed", s)
    /\ \/ /\ Changed(WorkspaceOf[s], epochSeen[s]) \/ holder[WorkspaceOf[s]] # None
          /\ To(s, "denying")
          /\ UNCHANGED holder
       \/ /\ ~Changed(WorkspaceOf[s], epochSeen[s])
          /\ Lease!Acquire(s, WorkspaceOf[s])
          /\ To(s, "leased")
    /\ RouteFrame /\ UNCHANGED <<epochSeen, sawTrusted>>

(* Mutant: a refusal that cannot be audited is never sent. *)
CreateDeniedIfAudited(s) ==
    /\ pc[s] = "denying"
    /\ AuditAppend("session.workspace_denied", s)
    /\ To(s, "denied")
    /\ RouteFrame /\ UNCHANGED <<epochSeen, sawTrusted, holder>>

(* deny(): the refusal is audited if it can be, and stands either way. *)
CreateDenied(s) ==
    /\ pc[s] = "denying"
    /\ AuditAppend("session.workspace_denied", s) \/ AuditFails
    /\ To(s, "denied")
    /\ RouteFrame /\ UNCHANGED <<epochSeen, sawTrusted, holder>>

-----------------------------------------------------------------------------
(* SessionManager.create(), which has no await.  A v2 request arrives with  *)
(* its lease; a v1 request names no workspace and comes straight here.      *)
AtCreate(s) ==
    \/ pc[s] = "leased"
    \/ pc[s] = "idle" /\ WorkspaceOf[s] = None

(* Mutant: create() trusts the route's own check. *)
AdmittedUnchecked(s) == TRUE

(* The final gate: the admission state the request was decided in. *)
Admitted(s) ==
    WorkspaceOf[s] # None => ~Changed(WorkspaceOf[s], epochSeen[s])

(* Mutant: the guards sit above the try, and a refusal keeps the lease. *)
CreateThrowsKeepsLease(s) ==
    /\ AtCreate(s)
    /\ To(s, "denied")
    /\ RouteFrame /\ UNCHANGED <<epochSeen, sawTrusted, holder, auditVars>>

(* A throw: the final gate, a limit, a full store, a launch that fails.     *)
(* The catch gives back the slot, if one was taken, and the lease.          *)
CreateThrows(s) ==
    /\ AtCreate(s)
    /\ Lease!ReleaseAll(s)
    /\ \/ To(s, "denied")
       \/ WorkspaceOf[s] # None /\ To(s, "denying")
    /\ RouteFrame /\ UNCHANGED <<epochSeen, sawTrusted, auditVars>>

(* The session is live: it holds a slot, is indexed under its workspace,    *)
(* and its provider run has been started.                                   *)
CreateSucceeds(s) ==
    /\ AtCreate(s)
    /\ Admitted(s)
    /\ Reserve(ProviderOf[s], s)
    /\ indexed' = IF WorkspaceOf[s] = None THEN indexed ELSE indexed \union {s}
    /\ proc' = [proc EXCEPT ![s] = "starting"]
    /\ To(s, "live")
    /\ UNCHANGED <<epochSeen, sawTrusted, cancelled, abandoning, removing, admission,
                   holder, grantVars, revokeVars, trustVars, auditVars, crashes>>

-----------------------------------------------------------------------------
(* The life of a session.  run-session.ts looks at its cancelled flag in    *)
(* the same turn in which it spawns.                                        *)
ProcFrame == UNCHANGED <<epochSeen, sawTrusted, admission, grantVars, revokeVars,
                         trustVars, auditVars, crashes>>

Spawn(s) ==
    /\ proc[s] = "starting" /\ s \notin cancelled
    /\ proc' = [proc EXCEPT ![s] = "alive"]
    /\ ProcFrame /\ UNCHANGED <<pc, cancelled, abandoning, removing, indexed, limiterVars, holder>>

(* No process: cancelled first, no executable, a bad folder, a spawn error. *)
LaunchFails(s) ==
    /\ proc[s] = "starting"
    /\ proc' = [proc EXCEPT ![s] = "gone"]
    /\ ProcFrame /\ UNCHANGED <<pc, cancelled, abandoning, removing, indexed, limiterVars, holder>>

ProcessExits(s) ==
    /\ proc[s] = "alive"
    /\ proc' = [proc EXCEPT ![s] = "gone"]
    /\ ProcFrame /\ UNCHANGED <<pc, cancelled, abandoning, removing, indexed, limiterVars, holder>>

(* consume()'s finally, the one place where a live session gives back its   *)
(* slot, its lease and its index entry.                                     *)
Finish(s) ==
    /\ To(s, "ended")
    /\ Release(s)
    /\ Lease!ReleaseAll(s)
    /\ indexed' = indexed \ {s}

(* Mutant: the stream ends as soon as the session is cancelled. *)
StreamEndsOnCancel(s) ==
    /\ pc[s] = "live" /\ (proc[s] = "gone" \/ s \in cancelled)
    /\ Finish(s)
    /\ ProcFrame /\ UNCHANGED procVars

(* The terminal event ends the stream once the process is gone. *)
StreamEnds(s) ==
    /\ pc[s] = "live" /\ proc[s] = "gone"
    /\ Finish(s)
    /\ ProcFrame /\ UNCHANGED procVars

(* An event larger than an envelope may be, or a full event channel: the    *)
(* daemon kills the process and waits for the kill before it ends the       *)
(* stream.                                                                  *)
GiveUpStream(s) ==
    /\ pc[s] = "live" /\ proc[s] = "alive"
    /\ cancelled' = cancelled \union {s}
    /\ abandoning' = abandoning \union {s}
    /\ ProcFrame /\ UNCHANGED <<pc, proc, removing, indexed, limiterVars, holder>>

(* The kill gave up (its rejection is logged and swallowed): the stream     *)
(* ends, and everything is given back, with the process still alive.        *)
KillGivesUp(s) ==
    /\ ReapTimeouts
    /\ pc[s] = "live" /\ s \in abandoning
    /\ Finish(s)
    /\ ProcFrame /\ UNCHANGED procVars

(* The stdin payload is built right after the spawn, and throws when an     *)
(* attachment has gone or grown since it was validated: the runner reports  *)
(* ADAPTER_CRASH and ends the stream, and nobody kills the process.         *)
AdapterCrashes(s) ==
    /\ PayloadFaults
    /\ pc[s] = "live" /\ proc[s] = "starting" /\ s \notin cancelled
    /\ proc' = [proc EXCEPT ![s] = "alive"]
    /\ Finish(s)
    /\ ProcFrame /\ UNCHANGED <<cancelled, abandoning, removing>>

(* POST /sessions/:id/cancel, of a session that is not terminal. *)
Cancel(s) ==
    /\ pc[s] = "live"
    /\ cancelled' = cancelled \union {s}
    /\ ProcFrame /\ UNCHANGED <<pc, proc, abandoning, removing, indexed, limiterVars, holder>>

(* DELETE /sessions/:id cancels and waits for the kill... *)
RemoveBegins(s) ==
    /\ pc[s] = "live"
    /\ cancelled' = cancelled \union {s}
    /\ removing' = removing \union {s}
    /\ ProcFrame /\ UNCHANGED <<pc, proc, abandoning, indexed, limiterVars, holder>>

(* ...and then forgets the session, although its stream may not have ended  *)
(* yet; the slot and the lease stay with the stream.                        *)
RemoveEnds(s) ==
    /\ s \in removing
    /\ proc[s] # "alive" \/ ReapTimeouts
    /\ removing' = removing \ {s}
    /\ indexed' = indexed \ {s}
    /\ ProcFrame /\ UNCHANGED <<pc, proc, cancelled, abandoning, limiterVars, holder>>

-----------------------------------------------------------------------------
(* POST /v2/workspaces/consume-grant *)
GrantTo(g, state) == gpc' = [gpc EXCEPT ![g] = state]

GrantFrame == UNCHANGED <<requestVars, procVars, indexed, limiterVars, holder,
                          revokeVars, record, disk, crashes>>

(* The identity is resolved; a drifted or unusable one is refused, and so   *)
(* is a blocked workspace.  The epoch is read in the same turn.             *)
GrantDecides(g) ==
    /\ gpc[g] = "idle"
    /\ grantEpoch' = [grantEpoch EXCEPT ![g] = epoch[GrantFor[g]]]
    /\ \/ GrantTo(g, "denying")
       \/ GrantFor[g] \notin blocked /\ GrantTo(g, "consuming")
    /\ GrantFrame /\ UNCHANGED <<admission, queue, auditVars>>

(* Mutant: the trust is queued before its entry is written. *)
GrantConsumedPersists(g) ==
    /\ gpc[g] = "consuming"
    /\ AuditAppend("grant.consumed", g)
    /\ Enqueue(GrantFor[g], "trusted", g)
    /\ GrantTo(g, "granting")
    /\ GrantFrame /\ UNCHANGED <<grantEpoch, admission>>

(* Either of the two entries cannot be written: refused, nothing to undo. *)
GrantUnaudited(g) ==
    /\ gpc[g] \in {"consuming", "granting"}
    /\ AuditFails
    /\ GrantTo(g, "denied")
    /\ GrantFrame /\ UNCHANGED <<grantEpoch, admission, queue>>

GrantConsumed(g) ==
    /\ gpc[g] = "consuming"
    /\ AuditAppend("grant.consumed", g)
    /\ GrantTo(g, "granting")
    /\ GrantFrame /\ UNCHANGED <<grantEpoch, admission, queue>>

(* trust.granted is on disk before the trust it describes; the check before *)
(* the write (beforePersist) is in the turn that queues it.                 *)
GrantRecorded(g) ==
    /\ gpc[g] = "granting"
    /\ AuditAppend("trust.granted", g)
    /\ \/ /\ Changed(GrantFor[g], grantEpoch[g])
          /\ GrantTo(g, "denying")
          /\ UNCHANGED queue
       \/ /\ ~Changed(GrantFor[g], grantEpoch[g])
          /\ Enqueue(GrantFor[g], "trusted", g)
          /\ GrantTo(g, "persisting")
    /\ GrantFrame /\ UNCHANGED <<grantEpoch, admission>>

(* The trust is saved and nothing moved (afterPersist): admission opens. *)
GrantOpens(g) ==
    /\ gpc[g] = "persisted"
    /\ ~Changed(GrantFor[g], grantEpoch[g])
    /\ AllowWorkspace(GrantFor[g])
    /\ GrantTo(g, "granted")
    /\ GrantFrame /\ UNCHANGED <<grantEpoch, queue, auditVars>>

(* The trust could not be saved, or something moved while it was: block,    *)
(* and take the trust back.  Only the second is audited as a denial.        *)
GrantRollsBack(g) ==
    /\ \/ gpc[g] = "unsaved" /\ GrantTo(g, "undoing")
       \/ /\ gpc[g] = "persisted" /\ Changed(GrantFor[g], grantEpoch[g])
          /\ GrantTo(g, "rollback")
    /\ BlockWorkspace(GrantFor[g])
    /\ Enqueue(GrantFor[g], "untrusted", g)
    /\ GrantFrame /\ UNCHANGED <<grantEpoch, auditVars>>

GrantDenied(g) ==
    /\ gpc[g] = "denying"
    /\ AuditAppend("grant.denied", g) \/ AuditFails
    /\ GrantTo(g, "denied")
    /\ GrantFrame /\ UNCHANGED <<grantEpoch, admission, queue>>

-----------------------------------------------------------------------------
(* PUT /v2/workspaces/:workspaceId/trust *)
RevokeTo(r, state) == rpc' = [rpc EXCEPT ![r] = state]

RevokeFrame == UNCHANGED <<requestVars, proc, abandoning, removing, indexed,
                           limiterVars, holder, grantVars, record, disk, crashes>>

(* A workspace nobody ever granted is not found.  Otherwise the block comes *)
(* first, before any await.                                                 *)
RevokeBegins(r) ==
    /\ rpc[r] = "idle"
    /\ \/ /\ record[RevokeOf[r]] = "absent"
          /\ RevokeTo(r, "refused")
          /\ UNCHANGED admission
       \/ /\ record[RevokeOf[r]] # "absent"
          /\ BlockWorkspace(RevokeOf[r])
          /\ RevokeTo(r, "auditing")
    /\ RevokeFrame /\ UNCHANGED <<snapshot, cancelled, queue, auditVars>>

(* The start is audited or not; in the same turn the lower trust state is   *)
(* queued and revokeWorkspace() blocks once more and cancels every session  *)
(* indexed under the workspace.                                             *)
RevokeTearsDown(r) ==
    LET sessions == {s \in indexed : WorkspaceOf[s] = RevokeOf[r]} IN
    /\ rpc[r] = "auditing"
    /\ AuditAppend("trust.revocation_started", r) \/ AuditFails
    /\ \E to \in {"revoking", "untrusted"} : Enqueue(RevokeOf[r], to, r)
    /\ BlockWorkspace(RevokeOf[r])
    /\ snapshot' = [snapshot EXCEPT ![r] = sessions]
    /\ cancelled' = cancelled \union sessions
    /\ RevokeTo(r, "tearing")
    /\ RevokeFrame

(* Mutant: the answer does not wait for the trust file. *)
RevokeEndsEarly(r) ==
    /\ rpc[r] = "tearing"
    /\ \A s \in snapshot[r] : proc[s] # "alive" \/ ReapTimeouts
    /\ AuditAppend("trust.revoked", r) \/ AuditFails \/ UNCHANGED auditVars
    /\ RevokeTo(r, "revoked")
    /\ RevokeFrame /\ UNCHANGED <<snapshot, cancelled, admission, queue>>

(* Mutant: a revocation that cannot be audited is not answered. *)
RevokeEndsAudited(r) ==
    /\ rpc[r] = "tearing"
    /\ \A i \in 1..Len(queue) : queue[i].by # r
    /\ \A s \in snapshot[r] : proc[s] # "alive" \/ ReapTimeouts
    /\ AuditAppend("trust.revoked", r)
    /\ RevokeTo(r, "revoked")
    /\ RevokeFrame /\ UNCHANGED <<snapshot, cancelled, admission, queue>>

(* Both halves have settled: the write, well or badly, and the kills. *)
RevokeEnds(r) ==
    /\ rpc[r] = "tearing"
    /\ \A i \in 1..Len(queue) : queue[i].by # r
    /\ \A s \in snapshot[r] : proc[s] # "alive" \/ ReapTimeouts
    /\ AuditAppend("trust.revoked", r) \/ AuditFails \/ UNCHANGED auditVars
    /\ RevokeTo(r, "revoked")
    /\ RevokeFrame /\ UNCHANGED <<snapshot, cancelled, admission, queue>>

-----------------------------------------------------------------------------
(* A grant goes on when its write has ended, well or badly; only of the     *)
(* trust itself does it matter which.                                       *)
Written(g, persisted) ==
    CASE gpc[g] = "persisting" -> persisted
      [] gpc[g] = "rollback" -> "denying"
      [] gpc[g] = "undoing" -> "denied"
      [] OTHER -> gpc[g]

(* The head of the trust store's queue: the record changes in memory, then  *)
(* the whole file is replaced.  A failed write is not undone in memory.     *)
(* setUntrusted and beginRevocation leave an unknown workspace alone.       *)
WriteTrust ==
    LET m == Head(queue) IN
    /\ queue # <<>>
    /\ queue' = Tail(queue)
    /\ record' = IF m.to # "trusted" /\ record[m.workspace] = "absent" THEN record
                 ELSE [record EXCEPT ![m.workspace] = m.to]
    /\ \/ /\ disk' = record'
          /\ gpc' = [g \in Grants |-> IF g = m.by THEN Written(g, "persisted") ELSE gpc[g]]
       \/ /\ DiskFaults
          /\ disk' = disk
          /\ gpc' = [g \in Grants |-> IF g = m.by THEN Written(g, "unsaved") ELSE gpc[g]]
    /\ UNCHANGED <<requestVars, procVars, indexed, admission, limiterVars, holder,
                   grantEpoch, revokeVars, auditVars, crashes>>

(* WorkspaceTrustStore.#load() of a new daemon. *)
Load(file) == [w \in Workspaces |->
                 IF file[w] = "revoking" THEN "untrusted" ELSE file[w]]

NoRecords == [w \in Workspaces |-> "absent"]

(* The daemon dies and a new one starts: the queue, the blocks, the epochs, *)
(* the leases, the slots and every request in flight are gone; a process    *)
(* that was alive is nobody's.  The trust file is read back, or found       *)
(* unreadable and put aside.                                                *)
CrashAndRestart ==
    /\ crashes < MaxCrashes
    /\ crashes' = crashes + 1
    /\ pc' = [s \in Sessions |-> CASE pc[s] \in {"idle", "ended", "denied"} -> pc[s]
                                   [] pc[s] = "live" -> "ended"
                                   [] OTHER -> "denied"]
    /\ proc' = [s \in Sessions |-> CASE proc[s] = "alive" -> "orphan"
                                     [] proc[s] = "starting" -> "gone"
                                     [] OTHER -> proc[s]]
    /\ cancelled' = {} /\ abandoning' = {} /\ removing' = {} /\ indexed' = {}
    /\ blocked' = {} /\ epoch' = [w \in Workspaces |-> 0]
    /\ held' = [s \in Sessions |-> None] /\ perProvider' = [p \in Providers |-> 0]
    /\ holder' = [w \in Workspaces |-> None]
    /\ gpc' = [g \in Grants |-> IF gpc[g] \in {"idle", "granted", "denied"} THEN gpc[g]
                                                                         ELSE "denied"]
    /\ rpc' = [r \in Revokes |-> IF rpc[r] \in {"idle", "refused"} THEN rpc[r] ELSE "past"]
    /\ queue' = <<>>
    /\ \/ record' = Load(disk) /\ disk' = disk
       \/ record' = NoRecords /\ disk' = NoRecords
    /\ auditOk' = TRUE
    /\ UNCHANGED <<epochSeen, sawTrusted, grantEpoch, snapshot, log>>

-----------------------------------------------------------------------------
CreateNext(s) ==
    \/ CreateArrives(s) \/ CreateRefusedForItsContent(s) \/ CreateResolved(s)
    \/ CreateRevalidated(s) \/ CreateInspected(s) \/ CreateDetected(s)
    \/ CreateUnaudited(s) \/ CreateAudited(s) \/ CreateDenied(s)
    \/ CreateThrows(s) \/ CreateSucceeds(s)

SessionNext(s) ==
    \/ Spawn(s) \/ LaunchFails(s) \/ ProcessExits(s) \/ StreamEnds(s)
    \/ GiveUpStream(s) \/ KillGivesUp(s) \/ AdapterCrashes(s)
    \/ Cancel(s) \/ RemoveBegins(s) \/ RemoveEnds(s)

GrantNext(g) ==
    \/ GrantDecides(g) \/ GrantUnaudited(g) \/ GrantConsumed(g) \/ GrantRecorded(g)
    \/ GrantOpens(g) \/ GrantRollsBack(g) \/ GrantDenied(g)

RevokeNext(r) == RevokeBegins(r) \/ RevokeTearsDown(r) \/ RevokeEnds(r)

Next ==
    \/ \E s \in Sessions : CreateNext(s) \/ SessionNext(s)
    \/ \E g \in Grants : GrantNext(g)
    \/ \E r \in Revokes : RevokeNext(r)
    \/ WriteTrust
    \/ CrashAndRestart

Spec == Init /\ [][Next]_vars

-----------------------------------------------------------------------------
(* Properties *)
In(w) == {s \in Sessions : WorkspaceOf[s] = w}

(* The double-write hazard the lease exists to prevent: a workspace has at  *)
(* most one session that is live or whose provider process this daemon      *)
(* started and has not seen end.  (A process that outlived a dead daemon is *)
(* not known to the next one.)                                              *)
OneSessionPerWorkspace ==
    \A w \in Workspaces : \A s, t \in In(w) :
        /\ pc[s] = "live" \/ proc[s] \in {"starting", "alive"}
        /\ pc[t] = "live" \/ proc[t] \in {"starting", "alive"}
        => s = t

(* A lease is held by a request between its grant and create(), or by a     *)
(* live session, and by nobody else: no refusal, failed launch, cancel,     *)
(* removal or crash leaves a folder locked until the daemon restarts.       *)
NoLeakedLease ==
    \A w \in Workspaces : holder[w] # None =>
        /\ WorkspaceOf[holder[w]] = w
        /\ pc[holder[w]] \in {"leased", "live"}

(* The limiter's two maps agree with each other and with the sessions: a    *)
(* slot is held by exactly the live sessions, each provider's counter is    *)
(* their number (so release() never underflows), and neither limit is       *)
(* exceeded whatever requests were in flight together.                      *)
LimiterExact ==
    /\ \A s \in Sessions : held[s] = IF pc[s] = "live" THEN ProviderOf[s] ELSE None
    /\ \A p \in Providers :
          /\ perProvider[p] = Cardinality({s \in Sessions : held[s] = p})
          /\ perProvider[p] <= ProviderLimit
    /\ Cardinality(Holding) <= GlobalLimit

(* "A caller that awaits this learns the processes are gone"                *)
(* (revokeWorkspace): once a revocation has answered, nothing runs in the   *)
(* workspace and nothing that was on its way can still start there, for the *)
(* rest of this daemon's life.                                              *)
RevokedIsQuiet ==
    \A r \in Revokes : rpc[r] = "revoked" =>
        \A s \in In(RevokeOf[r]) :
            /\ proc[s] # "alive"
            /\ proc[s] = "starting" => s \in cancelled

(* Revoking is one-way: an answered revocation is on disk, so a restart     *)
(* cannot bring the trust back ("resuming it as still trusted would undo an *)
(* explicit withdrawal because the daemon happened to die", #load).         *)
RevocationIsDurable ==
    \A r \in Revokes : rpc[r] = "revoked" => disk[RevokeOf[r]] # "trusted"

(* No trust without a record: whatever is trusted, in memory or on disk,    *)
(* was granted by a request whose trust.granted entry is in the audit log.  *)
TrustIsAudited ==
    \A w \in Workspaces : "trusted" \in {record[w], disk[w]} =>
        \E g \in Grants : GrantFor[g] = w /\ <<"trust.granted", g>> \in log

(* No session in a workspace without the entry that allows it. *)
StartIsAudited ==
    \A s \in Sessions : WorkspaceOf[s] # None /\ pc[s] = "live" =>
        <<"session.workspace_allowed", s>> \in log

(* A session starts only in a workspace that is not blocked and whose trust *)
(* record says "trusted" at that very moment, although the record was read  *)
(* several awaits earlier.                                                  *)
StartsOnlyWhereTrusted ==
    [][\A s \in Sessions : pc[s] # "live" /\ pc'[s] = "live" /\ WorkspaceOf[s] # None =>
          WorkspaceOf[s] \notin blocked /\ record[WorkspaceOf[s]] = "trusted"]_vars

(* No grant in flight turns a revocation into a grant: nothing but a        *)
(* restart lifts a block.                                                   *)
BlockIsNeverLifted ==
    [][blocked \subseteq blocked' \/ crashes' # crashes]_vars
-----------------------------------------------------------------------------
(* Liveness.  Every await of a handler settles, the store's queue drains,   *)
(* a run that was started reaches its spawn, and a process that was told to *)
(* stop stops (terminateProcessTree escalates to SIGKILL).  Nobody has to   *)
(* send a request, a process nobody cancels may run for ever, and the       *)
(* daemon may die.                                                          *)
Fairness ==
    /\ \A s \in Sessions :
          /\ WF_vars(pc[s] # "idle" /\ CreateNext(s))
          /\ WF_vars(Spawn(s) \/ LaunchFails(s))
          /\ WF_vars(s \in cancelled /\ ProcessExits(s))
          /\ WF_vars(StreamEnds(s))
    /\ \A g \in Grants : WF_vars(gpc[g] # "idle" /\ GrantNext(g))
    /\ \A r \in Revokes : WF_vars(rpc[r] # "idle" /\ RevokeNext(r))
    /\ WF_vars(WriteTrust)

FairSpec == Spec /\ Fairness

(* A revocation that began is answered, unless the daemon dies: neither a   *)
(* broken audit log nor a session that is still being launched keeps it     *)
(* waiting.                                                                 *)
RevocationCompletes ==
    \A r \in Revokes : rpc[r] \in {"auditing", "tearing"} ~> rpc[r] \in {"revoked", "past"}

(* Every request is answered: a session request becomes a session or a      *)
(* refusal, a grant request a grant or a refusal.                           *)
RequestsAreAnswered ==
    /\ \A s \in Sessions :
          pc[s] # "idle" ~> pc[s] \in {"live", "ended", "denied"}
    /\ \A g \in Grants : gpc[g] # "idle" ~> gpc[g] \in {"granted", "denied"}
=============================================================================
