--------------------------- MODULE WorkspaceLease ---------------------------
(***************************************************************************)
(* The reader/writer leases over a workspace of                            *)
(* apps/daemon/src/workspace-execution-lease.ts.                           *)
(*                                                                         *)
(* The manager keeps one mutable WorkspaceLeaseSet object per workspace.   *)
(* The objects have an identity of their own here, because acquire() keeps *)
(* a reference to the object it found across its only await, while         *)
(* release() and #pruneIfEmpty drop and recreate the map entry that points *)
(* to it.  An object is named by the call that created it; a lease and its *)
(* session are named by the call that took it.                             *)
(*                                                                         *)
(* One call of acquire() is atomic up to the await of #isDirty.  Only a    *)
(* read request reaches that await, so the pendingWriter marker of a write *)
(* request is set and cleared inside one step and is never seen by another *)
(* call; it is therefore no variable.                                      *)
(***************************************************************************)
EXTENDS Naturals, FiniteSets

CONSTANTS
    Calls,          \* the calls of acquire(); each for a session of its own
    Workspaces,     \* workspace ids
    Modes,          \* the lease modes callers ask for
    None            \* an undefined reference

ASSUME NoneAssumption == None \notin Calls
ASSUME ModesAssumption == Modes \subseteq {"read", "write"}

VARIABLES
    byWorkspace,    \* #byWorkspace: the set object of a workspace, or None
    writer,         \* the writer field of each set object
    readers,        \* the readers field of each set object
    byLeaseId,      \* #byLeaseId: the leases that are not yet released
    request,        \* the request each call is made with
    state,          \* where each call, and the lease it took, stands
    captured        \* the set object a call keeps across its await

vars == <<byWorkspace, writer, readers, byLeaseId, request, state, captured>>

States == {"idle", "checking", "held", "refused", "released"}

Requests == [workspace : Workspaces, mode : Modes, allowDirtyRead : BOOLEAN]

TypeOK ==
    /\ byWorkspace \in [Workspaces -> Calls \union {None}]
    /\ writer \in [Calls -> Calls \union {None}]
    /\ readers \in [Calls -> SUBSET Calls]
    /\ byLeaseId \subseteq Calls
    /\ request \in [Calls -> Requests]
    /\ state \in [Calls -> States]
    /\ captured \in [Calls -> Calls \union {None}]

Init ==
    /\ byWorkspace = [w \in Workspaces |-> None]
    /\ writer = [c \in Calls |-> None]
    /\ readers = [c \in Calls |-> {}]
    /\ byLeaseId = {}
    /\ request \in [Calls -> Requests]
    /\ state = [c \in Calls |-> "idle"]
    /\ captured = [c \in Calls |-> None]

-----------------------------------------------------------------------------
(* #pruneIfEmpty(workspaceId, set), as the value the map has afterwards: it *)
(* deletes the entry of the WORKSPACE when the set it was given is empty,   *)
(* whichever set the entry points to.                                       *)
PruneIfEmpty(map, w, wr, rd) ==
    IF wr = None /\ rd = {} THEN [map EXCEPT ![w] = None] ELSE map

(* Mutant: every call starts from a set of its own. *)
SetForFresh(c) == c

(* The set acquire() works on: the one in the map, or a fresh object. *)
SetFor(c) ==
    LET w == request[c].workspace IN
    IF byWorkspace[w] = None THEN c ELSE byWorkspace[w]

(* Mutant: a writer is not looked for. *)
ConflictOfReaders(c, s) == request[c].mode = "write" /\ readers[s] # {}

(* The synchronous conflict check at the top of acquire(). *)
Conflict(c, s) ==
    \/ writer[s] # None
    \/ request[c].mode = "write" /\ readers[s] # {}

(* Only a second reader has anything to prove, unless it opted out. *)
NeedsCleanTree(c, s) ==
    request[c].mode = "read" /\ readers[s] # {} /\ ~request[c].allowDirtyRead

(* The lease is recorded in the captured set and in #byLeaseId, and the     *)
(* finally block prunes; the set is not empty then, so nothing is pruned.   *)
Grant(c, s) ==
    /\ writer' = IF request[c].mode = "write" THEN [writer EXCEPT ![s] = c] ELSE writer
    /\ readers' = IF request[c].mode = "read" THEN [readers EXCEPT ![s] = @ \union {c}]
                                           ELSE readers
    /\ byLeaseId' = byLeaseId \union {c}

(* acquire(), refused by the synchronous check.  The throw is above the     *)
(* try block, so nothing is pruned; the set it found was not empty.         *)
AcquireRefused(c) ==
    /\ state[c] = "idle"
    /\ Conflict(c, SetFor(c))
    /\ byWorkspace' = [byWorkspace EXCEPT ![request[c].workspace] = SetFor(c)]
    /\ state' = [state EXCEPT ![c] = "refused"]
    /\ UNCHANGED <<writer, readers, byLeaseId, request, captured>>

(* acquire(), up to the dirty check of a second reader: the set object is   *)
(* remembered across the await.                                             *)
AcquireSuspends(c) ==
    /\ state[c] = "idle"
    /\ ~Conflict(c, SetFor(c))
    /\ NeedsCleanTree(c, SetFor(c))
    /\ byWorkspace' = [byWorkspace EXCEPT ![request[c].workspace] = SetFor(c)]
    /\ state' = [state EXCEPT ![c] = "checking"]
    /\ captured' = [captured EXCEPT ![c] = SetFor(c)]
    /\ UNCHANGED <<writer, readers, byLeaseId, request>>

(* acquire() without an await: a writer, the first reader, or a later       *)
(* reader with allowDirtyRead.                                              *)
AcquireAtOnce(c) ==
    /\ state[c] = "idle"
    /\ ~Conflict(c, SetFor(c))
    /\ ~NeedsCleanTree(c, SetFor(c))
    /\ byWorkspace' = [byWorkspace EXCEPT ![request[c].workspace] = SetFor(c)]
    /\ Grant(c, SetFor(c))
    /\ state' = [state EXCEPT ![c] = "held"]
    /\ UNCHANGED <<request, captured>>

(* git status answers "clean": the lease is   *)
(* recorded in the set remembered before the await, without a new check.    *)
CheckClean(c) ==
    /\ state[c] = "checking"
    /\ Grant(c, captured[c])
    /\ state' = [state EXCEPT ![c] = "held"]
    /\ UNCHANGED <<byWorkspace, request, captured>>

(* git status answers "dirty", or fails: workspace_dirty is thrown inside   *)
(* the try, so the finally prunes with the remembered set.                  *)
CheckDirty(c) ==
    LET s == captured[c] IN
    /\ state[c] = "checking"
    /\ byWorkspace' = PruneIfEmpty(byWorkspace, request[c].workspace, writer[s], readers[s])
    /\ state' = [state EXCEPT ![c] = "refused"]
    /\ UNCHANGED <<writer, readers, byLeaseId, request, captured>>

(* Mutant: a reader stays in the set. *)
ReleaseOfWriter(c) ==
    LET w == request[c].workspace
        s == byWorkspace[w]
        wr == IF writer[s] = c THEN None ELSE writer[s]
    IN
    /\ state[c] = "held"
    /\ byLeaseId' = byLeaseId \ {c}
    /\ state' = [state EXCEPT ![c] = "released"]
    /\ UNCHANGED <<request, captured, readers>>
    /\ \/ /\ s = None
          /\ UNCHANGED <<writer, byWorkspace>>
       \/ /\ s # None
          /\ writer' = [writer EXCEPT ![s] = wr]
          /\ byWorkspace' = PruneIfEmpty(byWorkspace, w, wr, readers[s])

(* releaseForSession(sessionId), and release(leaseId) of its one lease: the *)
(* lease leaves #byLeaseId and the set the map holds NOW.  Idempotent: it   *)
(* is called on every cleanup path and does nothing for a lease it does not *)
(* know.                                                                    *)
Release(c) ==
    LET w == request[c].workspace
        s == byWorkspace[w]
        wr == IF writer[s] = c THEN None ELSE writer[s]
        rd == readers[s] \ {c}
    IN
    /\ state[c] = "held"
    /\ byLeaseId' = byLeaseId \ {c}
    /\ state' = [state EXCEPT ![c] = "released"]
    /\ UNCHANGED <<request, captured>>
    /\ \/ /\ s = None
          /\ UNCHANGED <<writer, readers, byWorkspace>>
       \/ /\ s # None
          /\ writer' = [writer EXCEPT ![s] = wr]
          /\ readers' = [readers EXCEPT ![s] = rd]
          /\ byWorkspace' = PruneIfEmpty(byWorkspace, w, wr, rd)

Next ==
    \E c \in Calls :
        \/ AcquireRefused(c)
        \/ AcquireSuspends(c)
        \/ AcquireAtOnce(c)
        \/ CheckClean(c)
        \/ CheckDirty(c)
        \/ Release(c)

Spec == Init /\ [][Next]_vars

-----------------------------------------------------------------------------
LeasesOn(w) == {c \in byLeaseId : request[c].workspace = w}

(* leasesFor(workspaceId): what the map says is held. *)
LeasesFor(w) ==
    IF byWorkspace[w] = None THEN {}
    ELSE ({writer[byWorkspace[w]]} \ {None}) \union readers[byWorkspace[w]]

(* A workspace that is used as this repository uses every workspace         *)
(* (workspaceLeaseModeFor): nobody asks for a read lease on it.             *)
WriteOnly(w) ==
    \A c \in Calls : request[c].workspace = w => request[c].mode = "write"

(* "A writer excludes everything, including other writers" (acquire()'s     *)
(* rules): while a lease on a workspace without readers is outstanding, no  *)
(* other lease on it is, whatever happens to the set objects of the others. *)
WriterExcludesEverything ==
    \A c, d \in byLeaseId :
        /\ WriteOnly(request[c].workspace)
        /\ request[d].workspace = request[c].workspace
        => d = c

(* The two indexes of the manager agree: the set that #byWorkspace points   *)
(* to holds exactly the outstanding leases of #byLeaseId, and a workspace   *)
(* nobody leases has no entry, so no failed or repeated acquire leaves a    *)
(* folder unleasable until the daemon restarts.                             *)
IndexesAgree ==
    \A w \in Workspaces : WriteOnly(w) =>
        /\ LeasesFor(w) = LeasesOn(w)
        /\ byWorkspace[w] # None => LeasesOn(w) # {}

(* The map never names a lease that was given back: with readers and        *)
(* writers, suspended or not, a workspace whose leases are all released is  *)
(* never refused as if somebody still held it (release() and                *)
(* #pruneIfEmpty).                                                          *)
NoGhostLease ==
    \A w \in Workspaces : LeasesFor(w) \subseteq LeasesOn(w)

-----------------------------------------------------------------------------
(* The holder the map names, where nobody asks for a read lease. *)
Holder == [w \in Workspaces |->
              IF WriteOnly(w) /\ byWorkspace[w] # None
                THEN writer[byWorkspace[w]] ELSE None]

Exclusive == INSTANCE ExclusiveLease WITH Holders <- Calls, holder <- Holder

(* Asked for write leases only, the manager is an exclusive lease of a      *)
(* workspace: the map's answer changes only by a grant on a free workspace  *)
(* or by the holder's own release.                                          *)
ImplementsExclusiveLease == Exclusive!Spec
=============================================================================
