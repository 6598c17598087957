# Formal model of open-vacancy-radar

open-vacancy-radar is a desktop application that crawls vacancies, prepares
applications and runs coding-agent CLIs (Claude, Codex) through a local daemon.
This directory holds TLA+ modules for the parts of it whose correctness depends
on the order in which things happen, the TLC runs that check them, and TLAPS
proofs of the most important results. Paths below are relative to the
repository (`apps/...`, `packages/...`); `PROJECT.json` maps every definition to
the lines it models.

## 1. Inventory

The repository is a TypeScript monorepo. The state that several actors share
lives in the daemon (`apps/daemon`), in the provider runtime it uses
(`packages/agent-runtime`), and in the Electron main process
(`apps/desktop/electron`). The daemon is one Node event loop: code between two
`await`s is atomic, everything else interleaves. Provider CLIs are child
processes and run in parallel with it.

| component | state | operations | talks to |
|---|---|---|---|
| execution lease (`workspace-execution-lease.ts`) | set objects of leases per workspace, index by session | acquire (with a suspended clean-tree check), release, releaseForSession | creation route, session manager |
| session limiter (`active-session-limiter.ts`) | slot per session, counter per provider | reserve, release | session manager |
| creation route (`routes/v2-sessions-create.ts`) | one request, across six awaits | resolve, revalidate, inspect trust, detect, audit, lease, create | everything in this table above and below it |
| trust routes (`routes/v2-workspaces.ts`) | one request each | consume-grant, lower trust | trust store, audit, session manager |
| trust store (`workspace-trust-store.ts`) | records in memory, one file, a queue of writes | load, grant, setUntrusted, beginRevocation | disk |
| session manager (`session-manager.ts`) | sessions, history, listeners, blocked workspaces, epochs, index by workspace, retention order | create, consume, subscribe, cancel, remove, revokeWorkspace, cancelAll | provider run, limiter, lease, durable store |
| audit store (`audit-store.ts`) | log segments, next sequence, healthy or not | append, rotate, recover, prune | disk |
| provider run (`providers/common/run-session.ts`, `process/async-channel.ts`) | the run's position, its cancelled flag, the channel | run, cancel, consume | child process |
| process tree termination (`process/spawn-process.ts`) | memoised kill promise | SIGTERM, SIGKILL, wait for the group, give up | operating system |
| event stream (`routes/sessions.ts`, `sse-writer.ts`) | queue and flags per connection | replay, write, drain, close | session manager, socket |
| durable session store (`session-lineage-store.ts`, `durable-store/`) | record and event log per session, directories per lineage, tombstones, trash, quarantine; maps in memory | create, appendEvent, markAcceptedWork, finalize, evict, load, recover | disk, session manager |
| application queue store (`application-queue-store.ts`) | ordered entries, one lease | enqueue, acquireNextLease, release, pause, resume, skip, cancel, reconcile | desktop application |
| attachment store | records and quotas on disk | store, evict | desktop application |
| daemon lifecycle (`index.ts`, `discovery-file.ts`) | lock, discovery file | start, shut down | desktop application |
| supervision in the desktop app (`daemon-respawn.ts`, ...) | back-off, attached daemon | respawn, attach, restart | daemon |
| application pipeline (`application-pipeline.ts`, `application-queue-port.ts`) | rows of attempts, preparation runs and their fence, worker | start, prepare, abandon, resume, recover | queue store, provider, page |
| review session (`application-review-session.ts`) | open pages, hand-off, submissions in flight, schedules | open, hand over, submit, observe, reconcile | pipeline, application executor |
| posting checks (`workspace/posting-verification-store.ts`) | the hold of an attempt | hold, restore | pipeline, review session |
| Blind Apply (`blind-apply-*.ts`, `tick.ts`, `workspace/blind-apply-store.ts`) | authorizations, items, turns | enable, tick, answer, stop, recover | pipeline, review session |
| session supervisor, fallback gate, Codex app-server transport | accepted-work latch, handshake | start, fall back, cancel | child process |
| vacancy engine, UI, schemas, client SDK, landing page | none shared | conversions, network I/O | |

What is hard in this code:

- **Interleaving in the handlers.** A request for a session reads the trust of
  its workspace and acts on it several awaits later; a revocation may run in any
  of them. A grant is persisted in several awaits, with a revocation between.
- **Failure of one step of several.** Every audit append and every write of the
  trust file may fail; each handler has its own idea of what then happens.
- **Crashes.** Blocks, epochs, leases and slots are memory only; trust and audit
  are files. A restart must not undo a revocation.
- **Process trees.** A leader's exit says nothing about its descendants; two
  callers may kill at once; a kill may give up.
- **Bounded buffers.** The channel of a run, the history of a session and the
  queue of a connection all have caps, and each is met at a different moment.
- **Two databases.** An attempt's row is in the app's database, its place in the
  queue in a file of the daemon; either process may die between the two writes.
- **Work that cannot be stopped.** A preparation that hangs is given up and goes
  on; a turn of Blind Apply outlives its timeout and overlaps the next.
- **A click that cannot be taken back.** Between the click on a form and the
  record of its outcome the app may die, the page may vanish, the person may
  press Stop; the application must not be sent a second time.
- **Several file operations for one fact.** A session is a record, a log, a
  directory and a tombstone, written one after the other.
- **Termination.** A stream must end exactly once, at every layer, for every
  client, however it joined.

The correctness properties per component are listed with the runs (section 4);
`PROJECT.json` "hazards" lists each place where one of these can bite.

## 2. Modules

```
ExclusiveLease  <--implements--  WorkspaceLease        (workspace-execution-lease.ts)
      ^
      | INSTANCE
SessionAdmission --EXTENDS--> ActiveSessionLimiter     (active-session-limiter.ts)

TerminatedStream <--implements-- ProviderRun           (run-session, async-channel, spawn-process)
      ^---------------implements-- EventStream         (consume, subscribe, SSE writer)

LineageStore                                           (session-lineage-store, atomic-fs)

ApplicationAttempt --EXTENDS--> ApplicationQueue       (application-queue-store.ts)
      ^                         (application-pipeline, application-review-session,
      | attempts seen            workspace/repository, posting-verification-store)
      | from outside
BlindApply                      (blind-apply-runner, -store, -authorization, tick)
```

`MC<Module>.tla` gives TLC its instances of `<Module>`; `<Module>Proofs.tla`
holds its theorems. Definitions commented "Mutant" are variants of the definition
that follows them, each a plausible slip in the code; replacing the one by the
other makes TLC report a property (`PROJECT.json` "mutants" says which), which
shows that the property depends on that line.

**ExclusiveLease** is what a lease promises: a holder per workspace, taken only
when free. **WorkspaceLease** is `WorkspaceExecutionLeaseManager` with its
actual data: the map from workspace to a set *object* that may be pruned and
replaced while the `acquire()` of a reader is suspended in the clean-tree check and
still holds the old object, and the second index by session. Called with write leases
only, as the daemon does, it implements ExclusiveLease, and so SessionAdmission
may use the abstract lease.

**SessionAdmission** composes the creation route, both trust routes, the session
manager's admission state, the limiter, the lease, the trust store with its
write queue, and the audit store. `pc`, `gpc`, `rpc` are the positions of the
requests; each action is the code between two awaits, named after what was
awaited (`CreateInspected` runs when the trust inspection has answered).
`CreateSucceeds` is the await-free body of `create()`: gate, limiter, launch,
index. `RevokeTearsDown` is the await-free first half of `revokeWorkspace()`:
block, epoch, snapshot of the sessions, cancel of each, and the queueing of the
write; `RevokeEnds` runs when the write and all the kills have settled.
`WriteTrust` is the head of the store's queue. `CrashAndRestart` is the death of
the daemon and `#load()` of the next, which downgrades `revoking` and puts an
unreadable file aside. Four constants say what may go wrong: `MaxCrashes`,
`DiskFaults` (a write of the trust file fails), `ReapTimeouts` (a kill gives up),
`PayloadFaults` (building the stdin payload throws after the spawn). Audit
failures are always possible.

**TerminatedStream** is the promise of an event stream: it grows by events, and
ends with exactly one terminal event. **ProviderRun** is one run of a CLI: `run()`
with its early returns, `cancel()` from any number of callers, the channel with
its cap and the two final events `closeWith()` adds beyond it, the consumer, the
leader and the rest of its process group, and the memoised kill that escalates,
confirms or times out.

**EventStream** starts where ProviderRun ends: `consume()` numbers the events,
keeps the history within its two caps, replaces an oversized event by a failure,
and tells the listeners; a connection replays from its `Last-Event-ID` and then
listens, through a writer that queues what the socket does not take.

**LineageStore** is the durable mirror of the sessions. The store is synchronous,
so its operations do not interleave; a step is one file operation together with the memory
that goes with it, and `op` is the operation the daemon is in the middle of. `Crash`
may come between any two, also in the recovery after a crash, and may tear the line
that is being appended; `EvictFails` and the failing alternatives of the other
actions are errors of the disk. An eviction is `EvictRenames` (into the trash),
`EvictCommits` (the tombstone), `EvictDeletes`; a start is `Restart`, one
`RecoverEviction` per entry of the trash, `LoadLineage` with the repair of each log,
`RecoverFromLog` / `RecoverAppends` / `RecoverCloses` for each session without an
end, and retention.

**ApplicationQueue** is the daemon's queue: entries in order and one lease, every
operation a synchronous call that replaces the snapshot. **ApplicationAttempt**
extends it with the desktop side. `att` is the table of attempts; `Refused` is the
guard of `updateApplicationAttempt`. A preparation run (`run[g]`, `RunAsks` to
`RunApplies`) is the code of `runApplicationAttempt` and `fillApplicationForm` between
awaits; its generation `g` is the fence, and `IsLive` is read before every write
that the code fences. The worker takes the lease, waits for the run up to the
ceiling, gives it up (`WorkerAbandons`) or settles it, and releases. A submission
(`sub[c]`, `SubmitBegins` / `Fire` to `SubmitObserves`) is
`submitApplicationReview`, called by a person or by a due schedule; `sent` counts
what the employer received, which the code cannot see. `RecoveryBegins`,
`RecoveryEnqueues` and `RecoveryRequeues` are the recovery that follows the
adoption of a daemon. `Events` selects what may happen in an instance.

**BlindApply** is the runner above the pipeline. An item is a vacancy under an
authorization, and `att` what the runner sees of its attempt: checkpoint, queue entry, page and
the run that has its lease.
`turn[t]` is a call of `tick()`: it reads the facts, selects candidates (an await
per posting check), follows prepared attempts, starts one, sends one. Two turns
overlap when the first outlives its hard timeout (`HardTimeout`). `StopNow` is the
synchronous part of Stop, `StopTearsDown` its awaits; `StopDies` is the app dying
between two of its writes. `GatePasses` is `beforeClick`, the step that reads the
authorization and writes 'submitting'. `Move` is the compare-and-set every change of an
item goes through. Of the pipeline, the one worker takes a lease (`RunEnters`), the run settles the
row and returns (`RunEnded`, by `RunOpens`, `RunStops` or `RunFills`), throws (`RunBreaks`) or is
abandoned at the ceiling (`RunAbandoned`), and the lease is released in a step of its own
(`RunReleases`), as in `runNextApplicationAttempt`: the runner may resume the attempt in between.

### What is abstracted

- Contents: a line is the number of events it parses to, an event its kind (and,
  in EventStream, its size), a workspace, provider or token a model value. The
  checks of a request's own content, of the grant token and of the workspace's
  identity are one nondeterministic refusal each.
- An audit append and the continuation after it are one step; between them only
  other continuations can run, and nothing reads the log in memory.
- Every await may be suspended for as long as it likes. Real microtask order is
  one of these interleavings, so the models over-approximate.
- v1 sessions (`POST /sessions`) name no workspace and take no lease:
  `WorkspaceOf[s] = None`.
- A process that survived its daemon is an "orphan" and not counted: nothing in
  the code claims to find it again.
- A writer's drain listener is armed exactly while it is backpressured and open,
  so it is no variable of its own.
- LineageStore leaves out sizes in bytes and clocks (any lineage that may be
  evicted may be the oldest, or too old, or needed for its bytes), the manifest,
  stray temporary files, schema versions, `setScope`, `setUnknownFrames` and reading. Its properties
  about evictions hold without disk errors (`faults = 0`): the code's doc accepts
  that memory and disk disagree after one.
- ApplicationAttempt: the content of documents, forms and gate checks is a
  nondeterministic answer. Three restrictions of its environment can be lifted by
  `Events`: `"eager"` (a person or a timer acts on an
  attempt that a run is still working on; the windows do not offer it, and the handlers do
  not refuse it),
  `"hasty"` (an attempt is resumed in the moment between its settling and the
  release of its lease; lifted in `attempts_submit`), `"overlap"` (the worker
  takes a lease before the recovery is done. Nothing in the code prevents it: the periodic tick
  comes 15 seconds after the start, but whatever enqueues an attempt kicks the worker at once,
  `main.ts:3373` for one, and after a respawn it is running already; section 4 has what it
  takes for that to matter). Leases whose answer got
  lost are bounded by `MaxRuns`; an attempt that cannot be enqueued is still queued.
- BlindApply: pacing between clicks, saved answers, evidence and views, a Blind item
  sent by hand, failures of the database and two enables at once are left out; the requeues at
  the end of `recoverOnStartup` are one step; "skipped" stands for "apply_yourself" as well.
  An enqueue by a resume or a requeue does not fail, and a run whose row is settled behind its
  back (by a start whose enqueue failed after the recovery had queued the attempt) just ends.
  The item sent by hand is a gap of the code too: `pipeline.requeue` gives a reason
  (`main.ts:3366`), which the guard of `updateApplicationAttempt` accepts, so a Blind item that
  was `ready`, was sent by hand and is met by a restart goes back to 'queued'.
- Not modelled: the Windows Job Host (the kernel keeps the promise that
  `terminateProcessTree` keeps on POSIX); a terminal event that is itself
  oversized; shutdown by `cancelAll()`; what retention of completed sessions in
  memory does beyond making a session unknown.

## 3. Assumptions on the environment

Safety is checked and proved without fairness. Liveness (`FairSpec`) assumes:

- *SessionAdmission*: a handler that was called goes on when its await settles
  (the event loop runs every ready continuation), the store's queue is drained, a
  started run reaches its spawn or fails, a process that was told to stop stops
  (SIGTERM is followed by SIGKILL), and the end of a run's stream is consumed.
  Nobody has to send a request, no process has to exit by itself, and the daemon
  may die.
- *ProviderRun*: the same for `run()`, the consumer and the kill's timers; output
  is at its end once nothing of the tree is alive; what was sent SIGKILL dies. A
  process nobody kills may run for ever.
- *EventStream*: a run cancelled for an oversized event ends, which is what
  ProviderRun's `CancelledRunEnds` says; and a client whose socket is full
  reads or goes away, because nothing in the daemon times a stalled but open
  socket out. A client that has taken everything may stay for ever, so it is the
  daemon that has to end the stream. The run need not end otherwise: `StreamsEnd` is about sessions that
  are over.

- *ApplicationAttempt*: only the worker has to go on, since the ceiling is a timer
  and the release follows it. No run, page, provider or person has to answer.
- *BlindApply*: the tick comes again and again, a turn goes on when its await
  settles or is overtaken by its hard timeout, the worker takes what is in the queue, its run
  goes on (or breaks off, or is abandoned at the ceiling) and the lease is then released; the
  tear-down of a Stop, an answer and the recovery go on. That a run settles its attempt is not
  assumed: one that throws leaves it as it is. Runs that are lost are bounded by `MaxFaults`; one
  that hangs every time would be queued again for ever. Nobody has to enable, stop or answer
  anything.

Deadlock is checked for BlindApply, whose tick never stops. In the other
instances it is not: each has finitely many requests, runs, lines and events,
and a system in which all are done stops.

## 4. Runs

| run | bounds | checks |
|---|---|---|
| `lease` | 4 calls, 2 workspaces, both modes (of the daemon's calls all are writes) | `NoGhostLease` (the map never names a lease that was given back), `WriterExcludesEverything`, refinement of ExclusiveLease |
| `admission_race` | 3 sessions (one v1), 1 grant, 1 revocation, 1 crash, limits 2 and 1 | `OneSessionPerWorkspace`, `RevokedIsQuiet`, `RevocationIsDurable`, `LimiterExact`, `NoLeakedLease`, `StartsOnlyWhereTrusted` |
| `admission_live` | 1 of each, disk faults, reap timeouts, payload faults, 1 crash, fair | `TrustIsAudited`, `RevocationCompletes`, `RequestsAreAnswered` |
| `provider_run` | 2 callers, cap 2, lines of up to 3 events, fair | `ConfirmedMeansGone`, refinement of TerminatedStream, `CancelIsAnswered`, `CancelledRunEnds` |
| `event_stream` | 2 connections, up to 3 events of 2 sizes, history 2 events / 3 bytes, queue 2 / 2, fair | `HistoryIsIndexed`, `FramesInOrder`, `NobodyHangs`, refinement of TerminatedStream, `StreamsEnd` |
| `lineage_store` | 3 sessions, 2 records kept, logs of 2 lines, 3 events, 2 crashes, 1 disk error | `NothingIsLost`, `EvictedStaysGone`, `MemoryIsOnDisk`, `EndIsBelieved`, `OneTerminal`, `AcceptedIsKept` |
| `attempts_prepare` | 2 attempts, 2 runs, 1 crash or respawn, fair | `LeaseIsActive`, `NeverStranded`, `OnePackage`, `LeaseComesBack` |
| `attempts_submit` | 1 attempt, 1 run, 2 submissions, 1 crash, lost answers, posting holds, schedules, windows, hasty resumes | `SubmitsAreExclusive`, `AppliedIsProtected` |
| `blind_race` | 2 postings of one role, 1 authorization, 2 overlapping turns, changes of the CV, 1 run that throws | `OneItemPerRole`, `NothingSentAfterStop` |
| `blind_live` | 1 posting, 2 authorizations, 1 crash, respawn, or run that throws or hangs, fair | `OneApplicationPerRole`, `SentIsShown`, `StoppedIsQuiet`, `SendingEnds`, `ItemsMoveOn` |

The type invariants, `IndexesAgree`, `StartIsAudited`, `BlockIsNeverLifted`,
`ChannelBounded`, `QueueIsBounded`, `OrderIsFaithful` and `TerminalIsFinal` are in no run.
The type invariants of WorkspaceLease, SessionAdmission, ProviderRun, EventStream and
ApplicationAttempt and the last three are proved (section 5); `TypeOK` of LineageStore and
BlindApply documents the states and can be added to the configurations as it is.

Why the bounds are enough for the cases of interest: two requests are the least
that can race for a lease, and a third meets the limit of two while the second meets
its provider's limit of one. One crash separates any two steps; the store of
sessions gets two, so that the second may hit the recovery from the first. A line of
three events overruns a channel of two from the empty state. Three events overrun a
history of two, and a large one overruns its bytes before its count, with a small one
that would still fit behind it; two stored events overrun a queue during the replay,
when the socket is full from the opening comment on. Three sessions in a store of two
make it evict, and two of them can be one lineage; three events overrun a log of
two lines. Two runs are a zombie and its successor; two submissions are a person and a
timer, or a retry. Two postings of one role are what Blind Apply must tell to be one;
two authorizations are the one that was stopped and the one that replaced it. Overlapping
turns and crashes are in different instances of Blind Apply (together they are six million
states with two postings, and more with a changed CV); the theorems have both. The
theorems of section 5 lift the bounds for every safety invariant of the passing runs.

### Runs that end in a violation

Each checks one property as the code's own comments state it, against what the
code does.

| run | property | what happens |
|---|---|---|
| `attempts_recovery` | `AppliedIsProtected` | Recovery follows every adoption of a daemon, a respawned one included, while its doc and `main.ts` say it runs at startup. It writes 'queued' from a list it read before its awaits: an attempt that was being prepared then, and that the person has since finished and reported as sent, goes back to the queue. |
| `lineage_fault` | `SequencesIncrease` | An append fails, the next one succeeds with the higher number, the daemon dies before the record is written: recovery counts lines and gives the interrupted event a number the log already uses. The comment at the append says recovery reconciles this state. |

### Other disagreements

Ten more were found with the same modules. They have no run of their own; setting
the constant shows each, and for the last one dropping a disjunct.

- `ReapTimeouts = TRUE` refutes `RevokedIsQuiet`: `cancelRuntime()` swallows the
  rejection of a kill that could not confirm the reap, and the revocation answers
  with the process alive.
- `DiskFaults = TRUE` refutes `RevocationIsDurable`: the failed write of the lowered
  trust is logged, the revocation answers, and a restart loads `trusted`.
- `PayloadFaults = TRUE` refutes `OneSessionPerWorkspace`: `run()` builds the stdin
  payload after the spawn; when that throws, the process stays, the lease is freed,
  and a second session starts beside it.
- `ReplayIsComplete` of EventStream fails when the history is longer than socket buffer
  and queue together: a replay is one turn of the event loop and cannot drain, so the fresh
  connection ends half-way.
- `"hasty"` refutes `NeverStranded` with two attempts: a run settles as failed, the
  attempt is resumed before the worker has released the lease, the enqueue finds the entry
  still active and leaves it, and the release then closes it: the attempt is queued in
  the app's database and nowhere else until the next recovery. Blind Apply resumes by itself.
- `"lost"` refutes `NeverStranded`: a daemon that does not answer the run's question makes
  the run throw, the lease is released as failed, and the row stays queued, or in the middle
  of its preparation, until the next adoption of a daemon.
- `"overlap"` refutes `AppliedIsProtected` and `NeverStranded`, with two attempts and three
  runs: the recovery's list has two attempts in preparation, one that the crash interrupted
  and one that the worker has just taken up; the latter is finished, and reported as sent,
  while the recovery awaits the enqueue of the former, and is then put back to queued.
- `"respawn"` refutes `OnePackage` when an enqueue has been failing meanwhile (two
  restarts): the recovery writes over a run that is still at work, the attempt is then
  settled as failed and resumed, which drops the documents, and the run, whose fence nobody
  has taken, records its answers beside none.
- `"eager"` refutes `AppliedIsProtected`: an attempt skipped between the click and its
  outcome. The windows do not offer Skip at that moment; the handler does not refuse it.
- `ItemsMoveOn` without its last disjunct, `Stranded`, fails in `blind_live`. No fault is needed: a
  run settles its attempt as failed, a turn resumes it before the worker has released the lease
  (`blind-apply-runner.ts:410`), the enqueue leaves the active entry alone, and the release closes
  it. Every later turn finds the attempt 'queued' and takes preparation to be "under way"
  (`blind-apply-runner.ts:429`), and the item stays at "Preparing" until the next recovery. A run
  that throws (`"throw"`) ends the same way. With the disjunct the property says that these are
  the only ways: an item never waits for an attempt that has settled, or that the queue or a
  run will settle.

## 5. Proofs

The theorems hold for every value of the constants that the modules' `ASSUME`s
allow: any number of requests (finitely many for sessions, which are counted),
workspaces, providers, callers and lines, any limits, any number of crashes.

**WorkspaceLeaseProofs.** `LeaseInv` holds for any mix of readers and writers. Its
parts: a call that has not run has not created its object (`FreshObjects`), a lease is
recorded in the object its call found (`OwnObject`), in the field of its mode
(`FieldsByMode`); an object in the map records only outstanding leases of its own
workspace (`MapIsHonest`), also while a call is suspended with it (`Waiting`); and where
nobody reads, map and index agree (`WriteOnlyExact`). It gives `LeasesAreReal`
(`TypeOK` and `NoGhostLease`), `WriteLeasesExclude` (with `IndexesAgree`) and the
refinement `WriteLeasesImplementExclusiveLease`, the latter two about workspaces without
readers, which is how the daemon uses all of them.

**SessionAdmissionProofs.** The properties are not inductive. Four groups are:

- `SessionInv` relates `pc`, slots, counters, leases and audit log: who holds what at
  which position. It gives `TypesAreKept`, `LimitsAreKept`, `LeasesAreReturned`
  (with `StartIsAudited` among its conjuncts).
- `TrustInv` relates grants in flight, the queue, records, file and log. It gives
  `GrantsAreAudited`, with every fault allowed, and, with the block,
  `StartsAreTrusted` and `BlocksStay`. A notable fact of this proof: the epochs
  are not needed for `StartsOnlyWhereTrusted`, because a block is never lifted
  within a daemon's life; the comparison of epochs is a second line of defence.
- `ProcInv` and `QuietInv` say that a process belongs to a live session that holds
  its lease, and that after `RevokeTearsDown` whatever is not yet dead has been
  cancelled. They need `Reliable == ~ReapTimeouts /\ ~PayloadFaults`, and give
  `WorkspacesAreExclusive` and `RevocationsQuieten`.
- `DurableInv` says that behind a revocation every queued or written value is
  not `trusted`. It needs `~DiskFaults`, and gives `RevocationsLast`.

The provisos are necessary: section 4 names the counterexample to each.

**ProviderRunProofs.** `RunInv` consists of `TypeOK`, `FlowInv` (the
channel is closed exactly when the run is done, its consumer waits only on an empty
open channel, and the cap is overrun by two at most), `TreeInv` (which processes can be alive
at which stage of the kill; a reaped tree stays gone) and `CallInv` (what a
caller's promise says about the kill). It gives `RunTypes`, `ChannelsAreBounded`,
`ConfirmedTreesAreGone` and `RunsImplementTerminatedStream`.

**EventStreamProofs.** `HistoryInv` says that the announced envelopes are numbered
without gaps (but for the number an oversized event has taken), and that the history
is their beginning, all of it until the latch `replayFull` falls. It gives
`HistoriesAreIndexed` and `SessionsImplementTerminatedStream`.

**EventStreamConnectionProofs.** A replay, a drain and the sum in `QueueIsBounded` are
loops of any length, written as recursive functions. `ReplayTurns`, `DrainTurns` and
`BytesAddUp` show that each function exists and is what its turns make of it, and
`TurnByTurn` is the induction over the turns. The library's induction theorems take the
hypothesis as an operator, which the provers cannot instantiate; `TurnByTurn` takes a set
instead (the turns at which the fact holds) and rests on `WFMin` and
`NatLessThanWellFounded`, which are about sets too. What is carried along is
`ReplayedTo` (the frames are the stored events from `since` on, all of them unless the writer
closed or saw a terminal event) and `DrainedTo` (the same frames, some of them now sent).
`StreamInv` adds to `HistoryInv`, for each connection: which combinations of queue,
backpressure, terminal event and end a writer can be in (`Shape`), that its byte count is
exact and within the caps (`Counted`), that its frames are in order (`InOrder`), and that a
listening connection has everything up to the next event or up to the end of a full
history (`CaughtUp`). `FramesInOrder` is not inductive without the last: nothing else says
that the next event follows what a client has. `NobodyHangs` needs that a terminal event
is last in every queue and that the open connections have seen it exactly when the session
is over. It gives `FramesAreAlwaysInOrder`, `NobodyEverHangs`, `QueuesAreAlwaysBounded` and
`StreamTypesAreKept`, from `StreamAssumption` alone.

**ApplicationAttemptProofs.** For every choice of `Events`: `QueueInv` (types,
`LeaseIsActive`, `OrderIsFaithful`, and that a lease number is never issued again) is kept
by each operation of the queue; every step of the application is one such operation or none
(`NextIsQueueStep`, which needs that the recovery works on attempts, `RecoveryInv`). That
gives `LeasesAreActive`. `SubInv` adds to `SubmitsAreExclusive` the types of the calls and
that a call in flight names an attempt; it gives `SubmissionsExclude`. `BaseInv` adds the
types of everything else, `WorkerInv` (the run the worker waits for is the only one the
fence knows, so not an abandoned one) and `SupportInv` (pages, submissions and the late steps of
runs are of attempts whose site has a policy). It gives `AttemptTypesAreKept`, which states
`TypeOK`, `WorkerInv` and that only supported attempts have a page.

The other properties are about what the steps of runs, submissions, persons and the recovery
do to one row. What each can do is found once from its actions (`Moves`, `CallMoves` and
`CallWrites`, `UserRow`, `RecoverPuts` and `RecoverWritesOff`), and the invariants are then
preserved by these shapes:

- `CalmInv` is stated per attempt. A run under way works on a preparing row, has not begun,
  or was overtaken by a submission that has lost its page (`RunInv`); where the employer has
  the application, the row says so and no run is under way (`SentInv`); a posting hold keeps
  a prepared checkpoint (`HeldInv`); fields belong to the documents, there are none while a
  run is under way, and a run past its staging has staged the documents the row names
  (`PackageInv`); a submission that has its page has no run beside it, and up to its click
  nothing was sent (`CallInv`); and while a recovery is due or under way, nothing runs and no
  submission is on a row it may put back (`RecoveryCalm`). `SentInv` alone is not inductive:
  a run might write 'filling' over it, a second submission 'ready', a released hold or the
  recovery what they remembered, which are the other parts. It gives
  `AppliedIsAlwaysProtected` and `PackagesAreWhole` where `Calm` holds: none of `"respawn"`,
  `"eager"` and `"overlap"`.
- `PromptInv` says that a lease that is still the worker's is for its run's attempt, and is
  given back as finished only when that attempt is settled (`LeaseInv`); that an attempt with
  a live run has an entry (`RunningInv`); and that an attempt which waits without one is
  being enqueued, or is ahead of the recovery on the list it took (`StrandInv`, stronger than
  the property: the recovery that is under way has not passed this attempt). It gives
  `NobodyIsStranded` where `Prompt` holds: none of `"lost"`, `"hasty"` and `"overlap"`; the
  daemon may be respawned at any moment.

Section 4 has a counterexample for each of the events left out (for `OnePackage`, for
`"respawn"`).

**BlindApplyProofs.** Every step moves items out of live states or inserts one
(`StepChangesItems`, one case per action). So a finished item stays
(`EndsAreFinal`), and since an insertion looks for the role first, one item per role is
alive or sent (`RolesAreTakenOnce`). The rest needs `BlindInv`: a turn that is
sending sends alone and nobody moves its item from under it (`SendingInv`); the attempt of
such an item is not prepared again, at most one turn holds it, and nobody holds a failed one
(`AttemptInv`); the item of an answer under way still waits for it or is finished
(`AnswerInv`); one authorization at most is active, and none while another is being enabled
(`AuthInv`). Most steps are `CalmStep`s, which leave senders, their items and their attempts
alone; the gate, the click and its conclusion, the start that fails, answers and Stop are
argued one by one. It gives
`SentIsAlwaysShown`, `StoppedIsAlwaysQuiet`, `RolesAreAppliedForOnce` and the action
property `NothingIsSentAfterStop`.

**LineageStoreProofs.** `StoreInv` holds whatever fails. It says which operation, boot or
eviction may be under way and what it has done so far (`OpInv`, `BootInv`), that a session
whose `create()` has not returned has left nothing on disk (`FreshInv`), that a record is in one
place and says to which lineage it belongs (`PlaceInv`), that the record in memory is never
behind the one on disk in what must not be taken back (`RecordInv`), and that a log has one
end, which no record contradicts (`EndInv`). It gives `EndIsAlwaysBelieved`, `AlwaysOneTerminal` and
`AcceptedIsNeverTakenBack`. `HealthyInv` is about `faults = 0`, crashes included: the
trash holds at most the lineage that is being evicted, or was when the daemon died (`TrashInv`);
a tombstone is of a lineage that is gone, and precedes its deletion (`TombInv`); a session is
in its place, in the trash or under a tombstone (`KeptInv`); and a daemon knows what is on
disk as far as its boot has come, and says the same of it (`KnownInv`, `SameInv`). It gives
`NothingIsEverLost`, `EvictedAlwaysStaysGone` and `MemoryIsAlwaysOnDisk`: an eviction
interrupted anywhere is completed or undone.

Only model-checked: all liveness (fairness and `ENABLED` are outside the prover's
reach), and the type invariants of LineageStore, whose bound on a log's lines is a statement
about a filtered sequence, and of BlindApply. With readers `WriterExcludesEverything` would not hold without its
`WriteOnly`: a reader suspended in the clean-tree check is granted its lease although a
writer took the workspace meanwhile, since nothing is looked at again after the check.
The daemon asks for write leases only.

## 6. Plan

Done: leases, admission, provider run, event stream, durable session store,
application queue and attempts, Blind Apply. Left:

1. **SessionRetention**: completed sessions, their cap, `remove()` against the end
   of the stream, and shutdown with `cancelAll()`'s snapshot against requests in
   flight; the rest of the session manager.
2. **AuditLog**: append, rotation, recovery of the sequence, and pruning.
3. **SessionSupervisor**: accepted work, the fallback gate and the Codex
   app-server transport; "no fallback after accepted work".
4. **DaemonSupervision**: lock, discovery file, respawn with back-off, attach.
5. Attachment quotas and the MCP manager.

Theorems to add: the type invariants of LineageStore and BlindApply as they are stated
there (the invariants above have most of them).

Known places without a property, beyond the hazards of `PROJECT.json`: of two concurrent
grants the second is refused (`v2-workspaces.ts:318`); a descendant that outlives its
leader (`run-session.ts:250`); `remove()` before the end of the stream
(`session-manager.ts:687`); a terminal event that is itself oversized (`:592`); provider
processes that outlive their daemon (`:1058`); a tombstone that cannot be written
(`session-lineage-store.ts:1055`), the record left by a failed `create()` (`:1139`) and a
torn line in the middle of a log (`:1328`); in `blind-apply-runner.ts` an attempt that
resumes behind a Stop (`:410`) and one that stays queued after it (`:636`).

### Not modelled, and why

The vacancy engine (crawlers, parsers, ranking), the renderer, the landing page, the
schemas, the client SDK and the application executor make up most of the repository's
lines. They are conversions, layout and network I/O without shared state: there is no
order of steps to check, and a model of a parser would be the parser. The share of the
lines mapped here is small for that reason. The parts in which several actors do meet and
that have no module yet are those of the plan.

## 7. Running

    tlc -workers 2 -config MCAdmissionRace.cfg MCSessionAdmission
    tlapm SessionAdmissionProofs.tla

`PROJECT.json` "runs" pairs each configuration with its module.
