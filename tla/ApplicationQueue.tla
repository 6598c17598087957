-------------------------- MODULE ApplicationQueue --------------------------
(***************************************************************************)
(* The daemon's queue of application attempts,                             *)
(* apps/daemon/src/application-queue-store.ts: one entry per attempt, in   *)
(* the order they were first queued, and one lease over the whole queue.   *)
(*                                                                         *)
(* Every operation is one synchronous call that replaces the snapshot file *)
(* before it answers, so a crash falls between two operations; what a      *)
(* restarted daemon does with a lease it finds is Reconcile.  The event    *)
(* log beside the snapshot (emit, subscribe) is not modelled.              *)
(***************************************************************************)
EXTENDS Naturals, Sequences

CONSTANTS
    Attempts,       \* ids of application attempts
    NoAttempt       \* what a queue without a lease holds

ASSUME NoAttemptAssumption == NoAttempt \notin Attempts

VARIABLES
    order,          \* snapshot.entries: the attempts, in array order
    entry,          \* the state of an attempt's entry, "absent" without one
    lease,          \* snapshot.lease: its id and its attempt
    nextLease       \* stands for randomUUID(): the number of leases given out

queueVars == <<order, entry, lease, nextLease>>

TerminalStates == {"cancelled", "done", "failed"}
EntryStates == {"queued", "active", "paused"} \union TerminalStates

NoLease == [id |-> 0, attempt |-> NoAttempt]

QueueTypeOK ==
    /\ order \in Seq(Attempts)
    /\ entry \in [Attempts -> EntryStates \union {"absent"}]
    /\ lease \in [id : Nat, attempt : Attempts \union {NoAttempt}]
    /\ nextLease \in Nat

QueueInit ==
    /\ order = <<>>
    /\ entry = [a \in Attempts |-> "absent"]
    /\ lease = NoLease
    /\ nextLease = 0

-----------------------------------------------------------------------------
(* An attempt with a live entry is left alone; a finished entry is replaced *)
(* in its place; a new one goes to the end.                                 *)
Enqueue(a) ==
    /\ entry' = IF entry[a] \in TerminalStates \union {"absent"}
                  THEN [entry EXCEPT ![a] = "queued"] ELSE entry
    /\ order' = IF entry[a] = "absent" THEN Append(order, a) ELSE order
    /\ UNCHANGED <<lease, nextLease>>

(* The first queued entry, in array order. *)
IsNext(a) ==
    \E i \in DOMAIN order :
        /\ order[i] = a
        /\ entry[a] = "queued"
        /\ \A j \in 1 .. i - 1 : entry[order[j]] # "queued"

(* acquireNextLease() when it answers with a lease. *)
AcquireNextLease(a) ==
    /\ lease = NoLease
    /\ IsNext(a)
    /\ entry' = [entry EXCEPT ![a] = "active"]
    /\ nextLease' = nextLease + 1
    /\ lease' = [id |-> nextLease + 1, attempt |-> a]
    /\ UNCHANGED order

(* release(leaseId, outcome): nothing when the lease is another's by now. *)
Release(id, outcome) ==
    /\ IF lease = NoLease \/ lease.id # id
         THEN UNCHANGED <<entry, lease>>
         ELSE /\ entry' = [entry EXCEPT ![lease.attempt] =
                    CASE outcome = "requeue" -> "queued"
                      [] outcome = "completed" -> "done"
                      [] OTHER -> "failed"]
              /\ lease' = NoLease
    /\ UNCHANGED <<order, nextLease>>

(* What pause, skip and cancel do to the lease of the attempt. *)
LeaseWithout(a) == IF lease.attempt = a THEN NoLease ELSE lease

Pause(a) ==
    /\ entry[a] \in {"queued", "active"}
    /\ entry' = [entry EXCEPT ![a] = "paused"]
    /\ lease' = LeaseWithout(a)
    /\ UNCHANGED <<order, nextLease>>

ResumeEntry(a) ==
    /\ entry[a] = "paused"
    /\ entry' = [entry EXCEPT ![a] = "queued"]
    /\ UNCHANGED <<order, lease, nextLease>>

(* skip() and cancel() differ in the event they emit only. *)
Cancel(a) ==
    /\ entry[a] \in {"queued", "active", "paused"}
    /\ entry' = [entry EXCEPT ![a] = "cancelled"]
    /\ lease' = LeaseWithout(a)
    /\ UNCHANGED <<order, nextLease>>

(* Mutant: the lease is dropped and its entry stays active. *)
ReconcileLeaseOnly ==
    /\ lease' = NoLease
    /\ UNCHANGED <<order, entry, nextLease>>

(* The constructor of a new daemon: nothing in this process does the work   *)
(* of a lease it finds, so the lease goes and its entry is queued again.    *)
Reconcile ==
    /\ lease' = NoLease
    /\ entry' = IF lease # NoLease /\ entry[lease.attempt] \notin TerminalStates
                  THEN [entry EXCEPT ![lease.attempt] = "queued"] ELSE entry
    /\ UNCHANGED <<order, nextLease>>

-----------------------------------------------------------------------------
(* The lease and the active entry are the same fact, written in two places  *)
(* by seven operations: exactly the leased attempt is active, so an entry   *)
(* never waits for a lease nobody holds, and two attempts are never         *)
(* prepared under one queue.                                                *)
LeaseIsActive ==
    \A a \in Attempts : entry[a] = "active" <=> lease.attempt = a

(* The array and the entries agree, and no attempt is queued twice. *)
OrderIsFaithful ==
    /\ \A i, j \in DOMAIN order : order[i] = order[j] => i = j
    /\ \A a \in Attempts :
        entry[a] # "absent" <=> \E i \in DOMAIN order : order[i] = a

(* Lease ids are fresh, so a release that comes late cannot hit the lease   *)
(* of somebody else.                                                        *)
LeaseIsFresh ==
    /\ lease.id <= nextLease
    /\ lease.id = 0 <=> lease.attempt = NoAttempt
=============================================================================
