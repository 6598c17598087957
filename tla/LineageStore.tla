---------------------------- MODULE LineageStore ----------------------------
(***************************************************************************)
(* The daemon's durable session store,                                     *)
(* apps/daemon/src/session-lineage-store.ts, as session-manager.ts uses    *)
(* it: a record file and an event log per session, grouped in one          *)
(* directory per lineage (a session and the sessions that resume it),      *)
(* tombstones for evicted lineages, a trash and a quarantine directory.    *)
(*                                                                         *)
(* The store is synchronous, so its operations do not interleave; what     *)
(* makes it hard is the daemon dying, or a file operation failing, between *)
(* two of the file operations of one of them.  A step here is one file     *)
(* operation with the memory it goes with; a record is replaced atomically *)
(* (atomicWriteText), a line of a log may be torn (appendDurably).         *)
(*                                                                         *)
(* Left out: sizes in bytes and clocks (any lineage that may be evicted    *)
(* may be the oldest, or too old, or needed for its bytes), the manifest,  *)
(* stray temporary files, schema versions, and reading.                    *)
(***************************************************************************)
EXTENDS Integers, Sequences, FiniteSets

CONSTANTS
    Sessions,       \* session ids; the id of a lineage is its first session's
    None,
    MaxRecords,     \* retention.maxRecords
    MaxLines,       \* MAX_PERSISTED_EVENTS_PER_SESSION
    MaxEvents,      \* bound: events of a session
    MaxCrashes,     \* bound: deaths of the daemon
    MaxFaults       \* bound: file operations that fail

ASSUME StoreAssumption ==
    /\ None \notin Sessions
    /\ {MaxRecords, MaxLines} \subseteq Nat \ {0}
    /\ {MaxEvents, MaxCrashes, MaxFaults} \subseteq Nat

VARIABLES
    \* on disk
    dirs,           \* lineages/<root> that exist
    lin,            \* the sessions with a record file in lineages/<root>
    rec,            \* the record file of a session
    log,            \* its event log
    trash,          \* .trash: evictions that are not over
    tombs,          \* tombstones/<root>.json
    quarantined,    \* sessions whose records are in quarantine/
    \* of the running daemon
    mem,            \* #lineages, #sessionIndex: the records it knows
    op,             \* the operation under way
    running,        \* sessions of the session manager that may emit events
    \* of the model
    home,           \* the lineage of a session whose create() returned
    refused,        \* ids that were used up without a record
    crashes, faults

disk == <<dirs, lin, rec, log, trash, tombs, quarantined>>
model == <<home, refused, crashes, faults>>
vars == <<disk, mem, op, running, model>>

NoRec == [root |-> None, parent |-> None, status |-> "none",
          accepted |-> FALSE, resumable |-> FALSE, count |-> 0]

(* A line of an event log.  "end" stands for the three terminal events of a *)
(* provider.  A torn line has no newline; what is appended to it makes one  *)
(* corrupt line of the two.                                                 *)
Line(n, kind) == [seq |-> n, kind |-> kind]
Torn == Line(0, "torn")
Terminal == {"end", "interrupted"}

(* op: what the daemon is in the middle of.  An eviction keeps the session  *)
(* that makes it necessary, and back says where it returns to.              *)
At(pc) == [pc |-> pc, s |-> None, parent |-> None, root |-> None, victim |-> None,
           moved |-> {}, back |-> "up", todo |-> {}]
Doing(pc, s) == [At(pc) EXCEPT !.s = s]

StartupSteps == {"trash", "load", "recover", "close", "retain"}
Steps == {"down", "up", "room", "tomb", "delete", "write", "provider",
          "finalize"} \union StartupSteps

TypeOK ==
    LET Record == [root : Sessions \union {None}, parent : Sessions \union {None},
                   status : {"none", "starting"} \union Terminal,
                   accepted : BOOLEAN, resumable : BOOLEAN,
                   count : 0 .. MaxEvents + MaxCrashes]
    IN  /\ dirs \subseteq Sessions
        /\ lin \in [Sessions -> SUBSET Sessions]
        /\ rec \in [Sessions -> Record]
        /\ \A s \in Sessions : Len(log[s]) <= MaxLines
        /\ trash \subseteq [root : Sessions, members : SUBSET Sessions]
        /\ tombs \subseteq Sessions
        /\ quarantined \subseteq Sessions
        /\ mem \in [Sessions -> Record]
        /\ op \in [pc : Steps, s : Sessions \union {None},
                   parent : Sessions \union {None}, root : Sessions \union {None},
                   victim : Sessions \union {None}, moved : SUBSET Sessions,
                   back : {"up", "room", "retain"}, todo : SUBSET Sessions]
        /\ running \subseteq Sessions
        /\ home \in [Sessions -> Sessions \union {None}]
        /\ refused \subseteq Sessions
        /\ crashes \in 0 .. MaxCrashes
        /\ faults \in 0 .. MaxFaults

Init ==
    /\ dirs = {}
    /\ lin = [r \in Sessions |-> {}]
    /\ rec = [s \in Sessions |-> NoRec]
    /\ log = [s \in Sessions |-> <<>>]
    /\ trash = {}
    /\ tombs = {}
    /\ quarantined = {}
    /\ mem = [s \in Sessions |-> NoRec]
    /\ op = At("up")
    /\ running = {}
    /\ home = [s \in Sessions |-> None]
    /\ refused = {}
    /\ crashes = 0
    /\ faults = 0

Known == {s \in Sessions : mem[s] # NoRec}
Members(r) == {s \in Known : mem[s].root = r}

(* #isActive *)
Active(r) == \E s \in Members(r) : mem[s].status = "starting"

(* #evictionCandidates: all but the lineage a new session is about to join. *)
Candidates(excluded) ==
    {r \in Sessions : Members(r) # {} /\ ~Active(r) /\ r # excluded}

Fault == faults < MaxFaults /\ faults' = faults + 1
NoFault == UNCHANGED faults

(* #writeRecord of what is in memory once that is m. *)
WriteRecord(s, m) ==
    /\ mem' = [mem EXCEPT ![s] = m]
    /\ \/ /\ NoFault
          /\ rec' = [rec EXCEPT ![s] = m]
       \/ Fault /\ UNCHANGED rec

OneFile == <<dirs, lin, log, trash, tombs, quarantined>>

(* The lines linesOnDisk counts. *)
Lines(l) == Len(SelectSeq(l, LAMBDA e : e.kind # "torn"))

Appended(l, e) ==
    IF l = <<>> \/ l[Len(l)].kind # "torn" THEN Append(l, e)
    ELSE IF e = Torn THEN l
    ELSE [l EXCEPT ![Len(l)] = Line(0, "corrupt")]

-----------------------------------------------------------------------------
(* create(), with the room it makes before it records anything.             *)

CreateBegins(s, p) ==
    /\ op.pc = "up"
    /\ home[s] = None /\ s \notin refused
    /\ p # None => p \in Known /\ mem[p].resumable
    /\ op' = [Doing("room", s) EXCEPT !.parent = p,
                     !.root = IF p = None THEN s ELSE mem[p].root]
    /\ UNCHANGED <<disk, mem, running, model>>

(* StorageFullError: the quota is used up, in records or in bytes, and      *)
(* nothing may go.                                                          *)
CreateRefused ==
    /\ op.pc = "room"
    /\ Known # {}
    /\ Candidates(op.root) = {}
    /\ op' = At("up")
    /\ refused' = refused \union {op.s}
    /\ UNCHANGED <<disk, mem, running, home, crashes, faults>>

(* There is room: the directories are made and the record goes to memory.   *)
CreateRegisters ==
    /\ op.pc = "room"
    /\ Cardinality(Known) + 1 <= MaxRecords
    /\ dirs' = dirs \union {op.root}
    /\ mem' = [mem EXCEPT ![op.s] = [NoRec EXCEPT !.root = op.root, !.status = "starting",
                                                  !.parent = op.parent]]
    /\ op' = Doing("write", op.s)
    /\ UNCHANGED <<lin, rec, log, trash, tombs, quarantined, running, model>>

(* The record is written; when that fails create() throws and the session   *)
(* is never launched, but memory keeps it.                                  *)
CreateWrites ==
    /\ op.pc = "write"
    /\ op' = At("up")
    /\ \/ /\ NoFault
          /\ rec' = [rec EXCEPT ![op.s] = mem[op.s]]
          /\ lin' = [lin EXCEPT ![mem[op.s].root] = @ \union {op.s}]
          /\ home' = [home EXCEPT ![op.s] = mem[op.s].root]
          /\ running' = running \union {op.s}
          /\ UNCHANGED refused
       \/ /\ Fault
          /\ refused' = refused \union {op.s}
          /\ UNCHANGED <<rec, lin, home, running>>
    /\ UNCHANGED <<dirs, log, trash, tombs, quarantined, mem, crashes>>

-----------------------------------------------------------------------------
(* #evictLineage: the lineage is moved to the trash, its tombstone commits  *)
(* the eviction, and only then is anything deleted.                         *)

(* #enforceRetention and #makeRoomForOneMore have picked r. *)
EvictRenames(r) ==
    /\ op.pc \in {"room", "retain"}
    /\ r \in Candidates(op.root)
    /\ IF r \in dirs
         THEN /\ dirs' = dirs \ {r}
              /\ trash' = trash \union {[root |-> r, members |-> lin[r]]}
              /\ lin' = [lin EXCEPT ![r] = {}]
         ELSE UNCHANGED <<dirs, trash, lin>>
    /\ op' = [op EXCEPT !.pc = "tomb", !.back = op.pc, !.victim = r,
                        !.moved = lin[r]]
    /\ UNCHANGED <<rec, log, tombs, quarantined, mem, running, model>>

(* A file operation of an eviction fails: create() throws, and a daemon     *)
(* that is starting does not start.                                         *)
EvictFails ==
    /\ op.pc \in {"tomb", "delete"}
    /\ Fault
    /\ op' = IF op.back = "room" THEN At("up") ELSE At("down")
    /\ mem' = IF op.back = "room" THEN mem ELSE [s \in Sessions |-> NoRec]
    /\ refused' = IF op.back = "room" THEN refused \union {op.s} ELSE refused
    /\ UNCHANGED <<disk, running, home, crashes>>

EvictCommits ==
    /\ op.pc = "tomb"
    /\ tombs' = tombs \union {op.victim}
    /\ op' = [op EXCEPT !.pc = "delete"]
    /\ UNCHANGED <<dirs, lin, rec, log, trash, quarantined, mem, running, model>>

(* The files of the sessions ss are gone. *)
Erase(ss) ==
    /\ rec' = [s \in Sessions |-> IF s \in ss THEN NoRec ELSE rec[s]]
    /\ log' = [s \in Sessions |-> IF s \in ss THEN <<>> ELSE log[s]]

EvictDeletes ==
    /\ op.pc = "delete"
    /\ trash' = trash \ {[root |-> op.victim, members |-> op.moved]}
    /\ Erase(op.moved)
    /\ mem' = [s \in Sessions |-> IF mem[s].root = op.victim THEN NoRec ELSE mem[s]]
    /\ op' = [op EXCEPT !.pc = op.back, !.back = "up", !.victim = None, !.moved = {}]
    /\ UNCHANGED <<dirs, lin, tombs, quarantined, running, model>>

-----------------------------------------------------------------------------
(* What the session manager records of a session.                           *)

(* startSession threw. *)
LaunchFails(s) ==
    /\ op.pc = "up"
    /\ s \in running
    /\ mem[s].count = 0
    /\ running' = running \ {s}
    /\ WriteRecord(s, [mem[s] EXCEPT !.status = "end"])
    /\ UNCHANGED <<OneFile, op, home, refused, crashes>>

MarkAcceptedWork(s) ==
    /\ op.pc = "up"
    /\ s \in running
    /\ ~mem[s].accepted
    /\ WriteRecord(s, [mem[s] EXCEPT !.accepted = TRUE])
    /\ UNCHANGED <<OneFile, op, running, home, refused, crashes>>

(* persistEvent: the line first, while the log has room, else the record;   *)
(* then the provider's session id or the terminal status.  A failure is     *)
(* logged and leaves out the rest.                                          *)
PersistEvent(s, kind, next) ==
    LET m == [mem[s] EXCEPT !.count = @ + 1]
    IN
    /\ op.pc = "up"
    /\ s \in running \intersect Known
    /\ mem[s].count < MaxEvents
    /\ running' = IF kind = "end" THEN running \ {s} ELSE running
    /\ mem' = [mem EXCEPT ![s] = m]
    /\ \/ /\ NoFault
          /\ IF Lines(log[s]) < MaxLines
               THEN /\ log' = [log EXCEPT ![s] = Appended(@, Line(mem[s].count, kind))]
                    /\ UNCHANGED rec
               ELSE /\ rec' = [rec EXCEPT ![s] = m]
                    /\ UNCHANGED log
          /\ op' = IF next = "up" THEN op ELSE Doing(next, s)
       \/ /\ Fault
          /\ log' \in {log, IF Lines(log[s]) < MaxLines
                              THEN [log EXCEPT ![s] = Appended(@, Torn)] ELSE log}
          /\ UNCHANGED <<rec, op>>
    /\ UNCHANGED <<dirs, lin, trash, tombs, quarantined, home, refused, crashes>>

SetProviderSessionId ==
    /\ op.pc = "provider"
    /\ WriteRecord(op.s, [mem[op.s] EXCEPT !.resumable = TRUE])
    /\ op' = At("up")
    /\ UNCHANGED <<OneFile, running, home, refused, crashes>>

Finalize ==
    /\ op.pc = "finalize"
    /\ WriteRecord(op.s, [mem[op.s] EXCEPT !.status = "end"])
    /\ op' = At("up")
    /\ UNCHANGED <<OneFile, running, home, refused, crashes>>

-----------------------------------------------------------------------------
(* The constructor, in its order.  A failure in it is a death of the daemon.*)

Restart ==
    /\ op.pc = "down"
    /\ op' = At("trash")
    /\ UNCHANGED <<disk, mem, running, model>>

(* Mutant: what is in the trash is deleted. *)
RecoverEvictionDeletes(t) ==
    /\ op.pc = "trash"
    /\ t \in trash
    /\ trash' = trash \ {t}
    /\ Erase(t.members)
    /\ UNCHANGED <<dirs, lin, tombs, quarantined, mem, op, running, model>>

(* Mutant: what is in the trash is moved back. *)
RecoverEvictionRestores(t) ==
    /\ op.pc = "trash"
    /\ t \in trash
    /\ trash' = trash \ {t}
    /\ dirs' = dirs \union {t.root}
    /\ lin' = [lin EXCEPT ![t.root] = t.members]
    /\ UNCHANGED <<rec, log, tombs, quarantined, mem, op, running, model>>

(* #recoverInterruptedEvictions: a tombstone means the eviction happened;   *)
(* without one the lineage is moved back, unless something is in its place. *)
RecoverEviction(t) ==
    /\ op.pc = "trash"
    /\ t \in trash
    /\ trash' = trash \ {t}
    /\ \/ /\ t.root \in tombs
          /\ Erase(t.members)
          /\ UNCHANGED <<dirs, lin, quarantined>>
       \/ /\ t.root \notin tombs
          /\ t.root \in dirs
          /\ quarantined' = quarantined \union t.members
          /\ Erase(t.members)
          /\ UNCHANGED <<dirs, lin>>
       \/ /\ t.root \notin tombs
          /\ t.root \notin dirs
          /\ dirs' = dirs \union {t.root}
          /\ lin' = [lin EXCEPT ![t.root] = t.members]
          /\ UNCHANGED <<rec, log, quarantined>>
    /\ UNCHANGED <<tombs, mem, op, running, model>>

LoadBegins ==
    /\ op.pc = "trash"
    /\ trash = {}
    /\ op' = [At("load") EXCEPT !.todo = dirs]
    /\ UNCHANGED <<disk, mem, running, model>>

(* #repairEventLog keeps the lines up to the first that is torn or out of   *)
(* order.                                                                   *)
IsGood(l, i) ==
    /\ l[i].kind \notin {"torn", "corrupt"}
    /\ i > 1 => l[i].seq > l[i - 1].seq
GoodLines(l) ==
    {i \in DOMAIN l : \A j \in 1 .. i : IsGood(l, j)}
Repaired(l) == SubSeq(l, 1, Cardinality(GoodLines(l)))

(* #loadLineages: a directory without records goes to the quarantine.       *)
LoadLineage(r) ==
    /\ op.pc = "load"
    /\ r \in op.todo
    /\ dirs' = IF lin[r] = {} THEN dirs \ {r} ELSE dirs
    /\ log' = [s \in Sessions |-> IF s \in lin[r] THEN Repaired(log[s]) ELSE log[s]]
    /\ mem' = [s \in Sessions |->
          IF s \in lin[r]
            THEN [rec[s] EXCEPT !.count = IF @ > Len(log'[s]) THEN @ ELSE Len(log'[s])]
            ELSE mem[s]]
    /\ op' = [op EXCEPT !.todo = @ \ {r}]
    /\ UNCHANGED <<lin, rec, trash, tombs, quarantined, running, model>>

RecoverBegins ==
    /\ op.pc = "load"
    /\ op.todo = {}
    /\ op' = At("recover")
    /\ UNCHANGED <<disk, mem, running, model>>

(* Mutant: the mark of an earlier recovery is not looked for. *)
LogTerminalsOfProvider(l) == {l[i].kind : i \in DOMAIN l} \intersect {"end"}

(* #logTerminals: how the session ended, by its log. *)
LogTerminals(l) == {l[i].kind : i \in DOMAIN l} \intersect Terminal

(* Mutant: whatever the log says, the session was interrupted. *)
RecoverFromLogInterrupted(s) ==
    /\ op.pc = "recover"
    /\ mem[s].status = "starting"
    /\ LogTerminals(log[s]) # {}
    /\ mem' = [mem EXCEPT ![s].status = "interrupted"]
    /\ rec' = [rec EXCEPT ![s] = mem'[s]]
    /\ UNCHANGED <<OneFile, op, running, model>>

(* Mutant: the record is not written. *)
RecoverFromLogInMemory(s) ==
    /\ op.pc = "recover"
    /\ mem[s].status = "starting"
    /\ \E k \in LogTerminals(log[s]) : mem' = [mem EXCEPT ![s].status = k]
    /\ UNCHANGED <<disk, op, running, model>>

(* #recoverNonTerminalSessions: a log that has the end outranks the record. *)
RecoverFromLog(s) ==
    /\ op.pc = "recover"
    /\ mem[s].status = "starting"
    /\ \E k \in LogTerminals(log[s]) :
        /\ mem' = [mem EXCEPT ![s].status = k]
        /\ rec' = [rec EXCEPT ![s] = mem'[s]]
    /\ UNCHANGED <<OneFile, op, running, model>>

(* Otherwise it gets an interrupted event, and then its record. *)
RecoverAppends(s) ==
    /\ op.pc = "recover"
    /\ mem[s].status = "starting"
    /\ LogTerminals(log[s]) = {}
    /\ log' = IF Len(log[s]) < MaxLines
                THEN [log EXCEPT ![s] = Append(@, Line(mem[s].count, "interrupted"))]
                ELSE log
    /\ op' = Doing("close", s)
    /\ UNCHANGED <<dirs, lin, rec, trash, tombs, quarantined, mem, running, model>>

(* Mutant: nothing is claimed about an interrupted session's work. *)
RecoverClosesAnew ==
    /\ op.pc = "close"
    /\ mem' = [mem EXCEPT ![op.s].count = @ + 1, ![op.s].status = "interrupted",
                          ![op.s].accepted = FALSE]
    /\ rec' = [rec EXCEPT ![op.s] = mem'[op.s]]
    /\ op' = At("recover")
    /\ UNCHANGED <<OneFile, running, model>>

RecoverCloses ==
    /\ op.pc = "close"
    /\ mem' = [mem EXCEPT ![op.s].count = @ + 1, ![op.s].status = "interrupted"]
    /\ rec' = [rec EXCEPT ![op.s] = mem'[op.s]]
    /\ op' = At("recover")
    /\ UNCHANGED <<OneFile, running, model>>

RetainBegins ==
    /\ op.pc = "recover"
    /\ \A s \in Sessions : mem[s].status # "starting"
    /\ op' = At("retain")
    /\ UNCHANGED <<disk, mem, running, model>>

(* The last thing is the manifest. *)
StartupEnds ==
    /\ op.pc = "retain"
    /\ Cardinality(Known) <= MaxRecords \/ Candidates(None) = {}
    /\ op' = At("up")
    /\ UNCHANGED <<disk, mem, running, model>>

(* The daemon dies, possibly in the middle of a line. *)
Crash ==
    /\ op.pc # "down"
    /\ crashes < MaxCrashes
    /\ crashes' = crashes + 1
    /\ \/ UNCHANGED log
       \/ \E s \in Sessions :
            /\ \/ op.pc = "up" /\ s \in running
               \/ op.pc = "recover" /\ mem[s].status = "starting" /\ LogTerminals(log[s]) = {}
            /\ Lines(log[s]) < MaxLines
            /\ log' = [log EXCEPT ![s] = Appended(@, Torn)]
    /\ mem' = [s \in Sessions |-> NoRec]
    /\ op' = At("down")
    /\ running' = {}
    /\ refused' = IF op.s # None /\ home[op.s] = None THEN refused \union {op.s} ELSE refused
    /\ UNCHANGED <<dirs, lin, rec, trash, tombs, quarantined, home, faults>>

-----------------------------------------------------------------------------

CreateNext ==
    \/ \E s \in Sessions, p \in Sessions \union {None} : CreateBegins(s, p)
    \/ CreateRefused \/ CreateRegisters \/ CreateWrites

EvictNext ==
    \/ \E r \in Sessions : EvictRenames(r)
    \/ EvictCommits \/ EvictDeletes

SessionNext(s) ==
    \/ LaunchFails(s) \/ MarkAcceptedWork(s)
    \/ PersistEvent(s, "event", "up") \/ PersistEvent(s, "event", "provider")
    \/ PersistEvent(s, "end", "finalize")

StartupNext ==
    \/ Restart
    \/ \E t \in trash : RecoverEviction(t)
    \/ LoadBegins
    \/ \E r \in Sessions : LoadLineage(r)
    \/ RecoverBegins
    \/ \E s \in Sessions : RecoverFromLog(s) \/ RecoverAppends(s)
    \/ RecoverCloses \/ RetainBegins \/ StartupEnds

Next ==
    \/ CreateNext \/ EvictNext \/ EvictFails
    \/ \E s \in Sessions : SessionNext(s)
    \/ SetProviderSessionId \/ Finalize
    \/ StartupNext
    \/ Crash

Spec == Init /\ [][Next]_vars

-----------------------------------------------------------------------------
(* Properties.                                                              *)

(* Where the record of s is, if anywhere. *)
InTrash(s) == \E t \in trash : s \in t.members

(* An eviction that its tombstone has not committed loses nothing: a        *)
(* session whose create() returned is in its lineage or can be moved back   *)
(* there, at every instant of an eviction, a crash and a recovery.          *)
NothingIsLost ==
    faults = 0 =>
        \A s \in Sessions : home[s] # None =>
            s \in lin[home[s]] \/ InTrash(s) \/ home[s] \in tombs

(* And one that is committed is final: what was evicted is not served by a  *)
(* later daemon, whatever was left of it in the trash.                      *)
EvictedStaysGone ==
    faults = 0 /\ op.pc = "up" =>
        \A s \in Known : mem[s].root \notin tombs

(* Between two operations memory and disk tell the same story, so that a    *)
(* restart changes nothing but the sessions it interrupts.                  *)
MemoryIsOnDisk ==
    faults = 0 /\ op.pc = "up" =>
        /\ Known = UNION {lin[r] : r \in dirs}
        /\ \A s \in Known : [rec[s] EXCEPT !.count = mem[s].count] = mem[s]

(* A session whose log has its end is never called interrupted, although    *)
(* the record of it may not have been written.                              *)
EndIsBelieved ==
    op.pc = "up" =>
        \A s \in Known : "end" \in LogTerminals(log[s]) => mem[s].status = "end"

(* A session ends once: no log has two terminal events, however often the   *)
(* recovery is interrupted itself.                                          *)
OneTerminal ==
    \A s \in Sessions :
        Cardinality({i \in DOMAIN log[s] : log[s][i].kind \in Terminal}) <= 1

(* "A throw from the append leaves the counter one ahead of the log, which  *)
(* is the same state a crash between checkpoints leaves and which recovery  *)
(* already reconciles the same way" (appendEvent): the sequence numbers of  *)
(* a log increase, which repair and paging rely on.                         *)
SequencesIncrease ==
    \A s \in Sessions : \A i, j \in DOMAIN log[s] :
        /\ i < j
        /\ {log[s][i].kind, log[s][j].kind} \intersect {"torn", "corrupt"} = {}
        => log[s][i].seq < log[s][j].seq

(* "Downgrading an 'accepted' record to 'unknown' would ... be the exact    *)
(* bug this store was built to prevent": that a provider has accepted work  *)
(* is never taken back, by no write and no recovery.                        *)
AcceptedIsKept ==
    [][\A s \in Sessions :
          rec[s].accepted /\ rec'[s] # NoRec => rec'[s].accepted]_vars
=============================================================================
