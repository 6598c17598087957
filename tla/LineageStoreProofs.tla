------------------------- MODULE LineageStoreProofs -------------------------
(***************************************************************************)
(* Theorems about LineageStore, for any number of sessions, lines, crashes *)
(* and failing file operations.                                            *)
(*                                                                         *)
(* StoreInv holds whatever fails.  HealthyInv is what holds as long as no  *)
(* file operation has failed: the code's doc accepts that memory and disk  *)
(* disagree after one.                                                     *)
(*                                                                         *)
(* The proofs that an action keeps StoreInv come one by one, the ones that *)
(* it keeps Healthy by groups; the theorems follow each invariant.         *)
(***************************************************************************)
EXTENDS LineageStore, FiniteSetTheorems, TLAPS

Kinds == {"event", "end", "interrupted", "torn", "corrupt"}
LineType == [seq : Nat, kind : Kinds]
Records == [root : Sessions \union {None}, parent : Sessions \union {None},
            status : {"none", "starting", "end", "interrupted"},
            accepted : BOOLEAN, resumable : BOOLEAN, count : Nat]

Ops == [pc : Steps, s : Sessions \union {None}, parent : Sessions \union {None},
        root : Sessions \union {None}, victim : Sessions \union {None},
        moved : SUBSET Sessions, back : {"up", "room", "retain"}, todo : SUBSET Sessions]

(* TypeOK without its bounds on counters and logs. *)
StoreType ==
    /\ dirs \subseteq Sessions
    /\ lin \in [Sessions -> SUBSET Sessions]
    /\ rec \in [Sessions -> Records]
    /\ log \in [Sessions -> Seq(LineType)]
    /\ trash \subseteq [root : Sessions, members : SUBSET Sessions]
    /\ tombs \subseteq Sessions
    /\ mem \in [Sessions -> Records]
    /\ op \in Ops
    /\ running \subseteq Sessions
    /\ home \in [Sessions -> Sessions \union {None}]
    /\ faults \in Nat

(* Where the daemon is. *)
Evicting == op.pc \in {"tomb", "delete"}
Booting == op.pc \in StartupSteps \union {"down"} \/ (Evicting /\ op.back = "retain")
Creating == op.pc \in {"room", "write"} \/ (Evicting /\ op.back = "room")

(* What the operation under way is about. *)
OpInv ==
    /\ Creating \/ op.pc \in {"provider", "finalize", "close"} => op.s \in Sessions
    /\ op.pc = "room" \/ (Evicting /\ op.back = "room") => op.root \in Sessions
    /\ Evicting =>
          /\ op.victim \in Sessions /\ op.back \in {"room", "retain"}
          /\ \A s \in Sessions : mem[s].root = op.victim => mem[s].status # "starting"
          /\ op.moved # {} => [root |-> op.victim, members |-> op.moved] \in trash
    /\ Creating => home[op.s] = None
    /\ op.pc = "write" =>
          mem[op.s].root \in dirs /\ mem[op.s].root # None /\ mem[op.s].status = "starting"
    /\ op.pc \in {"provider", "finalize", "close"} =>
          home[op.s] # None /\ mem[op.s].status = "starting"
    /\ op.pc = "finalize" => op.s \notin running
    /\ op.pc = "close" => LogTerminals(log[op.s]) \subseteq {"interrupted"}

(* A daemon that is starting runs nothing and knows what it has loaded. *)
BootInv ==
    /\ Booting => running = {} /\ \A s \in Sessions : mem[s].root # None => home[s] # None
    /\ op.pc \in {"down", "trash"} => \A s \in Sessions : mem[s] = NoRec
    /\ op.pc = "retain" \/ (Evicting /\ op.back = "retain") =>
          \A s \in Sessions : mem[s].status # "starting"

(* A session whose create() has not returned has left nothing on disk. *)
FreshInv ==
    \A s \in Sessions : home[s] = None =>
        /\ rec[s] = NoRec /\ log[s] = <<>> /\ s \notin running

(* A record is in one place, and says to which lineage it belongs. *)
PlaceInv ==
    /\ \A r \in Sessions : \A s \in lin[r] : home[s] = r /\ rec[s].root = r /\ r \in dirs
    /\ \A t \in trash : \A s \in t.members :
          home[s] = t.root /\ rec[s].root = t.root /\ s \notin lin[t.root]
    /\ \A t, u \in trash : \A s \in t.members \intersect u.members : t = u

(* Records in memory and on disk. *)
RecordInv ==
    \A s \in Sessions :
        /\ mem[s] = NoRec \/ (mem[s].root # None /\ mem[s].status # "none")
        /\ rec[s] = NoRec \/ (rec[s].root # None /\ rec[s].status # "none")
        /\ home[s] # None /\ mem[s].root # None => mem[s].root = home[s]
        /\ s \in running => mem[s].status = "starting"
        /\ mem[s].root # None /\ rec[s].accepted => mem[s].accepted
        /\ mem[s].status = "starting" => rec[s].status # "interrupted"

(* How a session ended, by its log and by its records. *)
EndInv ==
    \A s \in Sessions :
        /\ \A i, j \in DOMAIN log[s] :
              log[s][i].kind \in Terminal /\ log[s][j].kind \in Terminal => i = j
        /\ "interrupted" \in {mem[s].status, rec[s].status} => "end" \notin LogTerminals(log[s])
        /\ ~Booting /\ mem[s].status = "starting" =>
              LogTerminals(log[s]) = {} \/ (op.pc = "finalize" /\ op.s = s)

StoreInv ==
    StoreType /\ OpInv /\ BootInv /\ FreshInv /\ PlaceInv /\ RecordInv /\ EndInv

-----------------------------------------------------------------------------
(* Without failures.                                                        *)

InPlace(s) == home[s] # None /\ s \in lin[home[s]]

(* Of the trash there is at most the lineage that is being evicted, and     *)
(* nothing is in its place.                                                 *)
TrashInv ==
    /\ Evicting => trash = {[root |-> op.victim, members |-> op.moved]}
    /\ trash # {} => Evicting \/ op.pc \in {"down", "trash"}
    /\ \A t, u \in trash : t = u
    /\ \A t \in trash : t.root \notin dirs

(* A tombstone is of a lineage that was, and that is gone. *)
TombInv ==
    /\ \A s \in Sessions : home[s] # None => home[home[s]] # None
    /\ \A r \in tombs : home[r] # None /\ lin[r] = {}
    /\ Evicting => home[op.victim] # None
    /\ op.pc = "delete" => op.victim \in tombs
    /\ op.pc = "room" \/ (Evicting /\ op.back = "room") =>
          op.root = op.s \/ (home[op.root] # None /\ op.root \notin tombs)
    /\ Evicting /\ op.back = "room" => op.root # op.victim
    /\ op.pc = "write" => mem[op.s].root = op.s \/ home[mem[op.s].root] # None
    /\ \A s \in Sessions : mem[s].root \in tombs => op.pc = "delete" /\ mem[s].root = op.victim

(* What the daemon knows is what is on disk, as far as it has come. *)
KnownInv ==
    \A s \in Sessions : mem[s].root # None <=>
        \/ InPlace(s) /\ op.pc \notin {"down", "trash"} /\ (op.pc = "load" => home[s] \notin op.todo)
        \/ op.pc = "write" /\ s = op.s
        \/ Evicting /\ s \in op.moved

(* And says the same of it. *)
SameInv ==
    \A s \in Sessions : mem[s].root # None /\ ~(op.pc = "write" /\ s = op.s) =>
        /\ rec[s].root = mem[s].root /\ rec[s].parent = mem[s].parent
        /\ rec[s].status = mem[s].status
        /\ rec[s].accepted = mem[s].accepted /\ rec[s].resumable = mem[s].resumable

(* NothingIsLost, of a state without a failure. *)
KeptInv ==
    \A s \in Sessions : home[s] # None => s \in lin[home[s]] \/ InTrash(s) \/ home[s] \in tombs

Healthy == TrashInv /\ KeptInv /\ TombInv /\ KnownInv /\ SameInv
HealthyInv == faults = 0 => Healthy

-----------------------------------------------------------------------------
(* The record of s becomes m in memory, and on disk unless that fails. *)
Written(s, m) ==
    /\ mem' = [mem EXCEPT ![s] = m]
    /\ rec' = rec \/ rec' = [rec EXCEPT ![s] = m]

(* The step of AcceptedIsKept. *)
AcceptedStays ==
    \A s \in Sessions : rec[s].accepted /\ rec'[s] # NoRec => rec'[s].accepted

-----------------------------------------------------------------------------
(* Types of the values the actions build. *)
LEMMA OpTyped ==
    ASSUME NEW pc \in Steps, NEW s \in Sessions \union {None}
    PROVE  At(pc) \in Ops /\ Doing(pc, s) \in Ops
BY DEF At, Doing, Ops

LEMMA NoRecTyped == NoRec \in Records
BY DEF NoRec, Records

LEMMA WrittenFacts ==
    ASSUME StoreType, NEW s \in Sessions, NEW m \in Records, Written(s, m)
    PROVE  /\ mem' \in [Sessions -> Records] /\ rec' \in [Sessions -> Records]
           /\ mem'[s] = m /\ rec'[s] \in {m, rec[s]}
           /\ \A u \in Sessions \ {s} : mem'[u] = mem[u] /\ rec'[u] = rec[u]
<1>1. mem \in [Sessions -> Records] /\ rec \in [Sessions -> Records]
  BY DEF StoreType
<1>2. QED
  BY <1>1 DEF Written

LEMMA RecordWritten ==
    ASSUME StoreType, NEW s, NEW m, WriteRecord(s, m)
    PROVE  Written(s, m) /\ faults' \in Nat
BY StoreAssumption DEF WriteRecord, Written, StoreType, Fault, NoFault

(* What a write of the record of a running or recovering session keeps. *)
LEMMA WrittenKeeps ==
    ASSUME StoreInv, StoreType', NEW s \in Sessions, NEW m \in Records, Written(s, m),
           home[s] # None, mem[s].root # None, m.root = mem[s].root, m.status # "none",
           mem[s].accepted => m.accepted, mem[s].status = "starting",
           UNCHANGED <<dirs, lin, trash, home>>, \A u \in Sessions \ {s} : log'[u] = log[u],
           running' \subseteq running, s \in running' => m.status = "starting"
    PROVE  FreshInv' /\ PlaceInv' /\ RecordInv' /\ AcceptedStays
<1>1. /\ mem'[s] = m /\ rec'[s] \in {m, rec[s]}
      /\ \A u \in Sessions \ {s} : mem'[u] = mem[u] /\ rec'[u] = rec[u]
  BY WrittenFacts DEF StoreInv
<1>2. FreshInv'
  BY <1>1 DEF StoreInv, FreshInv
<1>3. m.root = home[s]
  BY DEF StoreInv, RecordInv
<1>4. PlaceInv'
  <2>1. ASSUME NEW r \in Sessions, NEW u \in lin[r]
        PROVE  home[u] = r /\ rec'[u].root = r /\ r \in dirs
    <3>1. u \in Sessions
      BY DEF StoreInv, StoreType
    <3>2. home[u] = r /\ rec[u].root = r /\ r \in dirs
      BY DEF StoreInv, PlaceInv
    <3>3. QED
      BY <1>1, <1>3, <3>1, <3>2
  <2>2. ASSUME NEW t \in trash, NEW u \in t.members
        PROVE  home[u] = t.root /\ rec'[u].root = t.root /\ u \notin lin[t.root]
    <3>1. u \in Sessions
      BY DEF StoreInv, StoreType
    <3>2. home[u] = t.root /\ rec[u].root = t.root /\ u \notin lin[t.root]
      BY DEF StoreInv, PlaceInv
    <3>3. QED
      BY <1>1, <1>3, <3>1, <3>2
  <2>3. QED
    BY <2>1, <2>2 DEF StoreInv, PlaceInv
<1>5. RecordInv'
  <2> SUFFICES ASSUME NEW u \in Sessions
               PROVE  /\ mem'[u] = NoRec \/ (mem'[u].root # None /\ mem'[u].status # "none")
                      /\ rec'[u] = NoRec \/ (rec'[u].root # None /\ rec'[u].status # "none")
                      /\ home'[u] # None /\ mem'[u].root # None => mem'[u].root = home'[u]
                      /\ u \in running' => mem'[u].status = "starting"
                      /\ mem'[u].root # None /\ rec'[u].accepted => mem'[u].accepted
                      /\ mem'[u].status = "starting" => rec'[u].status # "interrupted"
    BY Zenon DEF RecordInv
  <2>1. CASE u = s
    <3>1. rec[s] = NoRec \/ (rec[s].root # None /\ rec[s].status # "none")
      BY DEF StoreInv, RecordInv
    <3>2. (rec[s].accepted => m.accepted) /\ rec[s].status # "interrupted"
      BY DEF StoreInv, RecordInv
    <3>3. QED
      BY <2>1, <1>1, <1>3, <3>1, <3>2
  <2>2. CASE u # s
    BY <2>2, <1>1 DEF StoreInv, RecordInv
  <2>3. QED
    BY <2>1, <2>2
<1>6. AcceptedStays
  BY <1>1 DEF StoreInv, RecordInv, AcceptedStays
<1>7. QED
  BY <1>2, <1>4, <1>5, <1>6

(* Types that the actions keep. *)
LEMMA CreateBeginsType ==
    ASSUME StoreType, OpInv, NEW s \in Sessions, NEW p \in Sessions \union {None}, CreateBegins(s, p)
    PROVE  StoreType'
<1>1. op' \in Ops
  <2>1. (IF p = None THEN s ELSE mem[p].root) \in Sessions \union {None}
    BY DEF StoreType, Records
  <2>2. Doing("room", s) \in Ops
    BY OpTyped DEF Steps
  <2>3. QED
    BY <2>1, <2>2 DEF CreateBegins, Ops
<1>2. QED
  BY <1>1 DEF StoreType, CreateBegins, disk, model

LEMMA CreateRegistersType ==
    ASSUME StoreType, OpInv, CreateRegisters
    PROVE  StoreType'
<1>1. op.s \in Sessions /\ op.root \in Sessions /\ op.parent \in Sessions \union {None}
  BY DEF StoreType, OpInv, Creating, CreateRegisters, Ops
<1>2. [NoRec EXCEPT !.root = op.root, !.status = "starting", !.parent = op.parent] \in Records
  BY <1>1 DEF NoRec, Records
<1>3. mem' \in [Sessions -> Records]
  BY <1>1, <1>2 DEF StoreType, CreateRegisters
<1>4. op' \in Ops
  BY <1>1, OpTyped DEF CreateRegisters, Steps
<1>5. QED
  BY <1>1, <1>3, <1>4 DEF StoreType, CreateRegisters, model

LEMMA CreateWritesType ==
    ASSUME StoreType, OpInv, CreateWrites
    PROVE  StoreType'
<1>1. op.s \in Sessions /\ mem[op.s].root \in Sessions
  BY DEF StoreType, OpInv, Creating, CreateWrites, Records
<1>2. op' \in Ops
  BY OpTyped DEF CreateWrites, Steps
<1>3. rec' \in [Sessions -> Records]
  BY <1>1 DEF StoreType, CreateWrites
<1>4. lin' \in [Sessions -> SUBSET Sessions]
  <2>1. lin[mem[op.s].root] \union {op.s} \in SUBSET Sessions
    BY <1>1 DEF StoreType
  <2>2. lin' = lin \/ lin' = [lin EXCEPT ![mem[op.s].root] = lin[mem[op.s].root] \union {op.s}]
    BY DEF CreateWrites
  <2>3. QED
    BY <2>1, <2>2 DEF StoreType
<1>5. home' \in [Sessions -> Sessions \union {None}] /\ running' \subseteq Sessions
  BY <1>1 DEF StoreType, CreateWrites
<1>6. faults' \in Nat
  BY StoreAssumption DEF StoreType, CreateWrites, Fault, NoFault
<1>7. QED
  BY <1>2, <1>3, <1>4, <1>5, <1>6 DEF StoreType, CreateWrites

LEMMA EvictRenamesType ==
    ASSUME StoreType, OpInv, NEW r \in Sessions, EvictRenames(r)
    PROVE  StoreType'
<1>1. op' \in Ops
  BY DEF EvictRenames, StoreType, Ops, Steps
<1>2. [root |-> r, members |-> lin[r]] \in [root : Sessions, members : SUBSET Sessions]
  BY DEF StoreType
<1>3. trash' \subseteq [root : Sessions, members : SUBSET Sessions]
  BY <1>2, Zenon DEF StoreType, EvictRenames
<1>4. lin' \in [Sessions -> SUBSET Sessions] /\ dirs' \subseteq Sessions
  BY DEF StoreType, EvictRenames
<1>5. QED
  BY <1>1, <1>3, <1>4 DEF StoreType, EvictRenames, model

LEMMA ErasedType ==
    ASSUME StoreType, NEW ss, Erase(ss)
    PROVE  rec' \in [Sessions -> Records] /\ log' \in [Sessions -> Seq(LineType)]
BY NoRecTyped DEF StoreType, Erase

LEMMA RecoverEvictionType ==
    ASSUME StoreType, NEW t \in trash, RecoverEviction(t)
    PROVE  StoreType'
<1>1. t.root \in Sessions /\ t.members \subseteq Sessions
  BY DEF StoreType
<1>2. rec' \in [Sessions -> Records] /\ log' \in [Sessions -> Seq(LineType)]
  <2>1. CASE Erase(t.members)
    BY <2>1, ErasedType
  <2>2. CASE UNCHANGED <<rec, log>>
    BY <2>2 DEF StoreType
  <2>3. QED
    BY <2>1, <2>2 DEF RecoverEviction
<1>3. lin' \in [Sessions -> SUBSET Sessions] /\ dirs' \subseteq Sessions
  BY <1>1 DEF StoreType, RecoverEviction
<1>4. QED
  BY <1>2, <1>3 DEF StoreType, RecoverEviction, model

-----------------------------------------------------------------------------
(* Every action keeps StoreInv.                                             *)

LEMMA LaunchFailsKeeps ==
    ASSUME StoreInv, NEW s \in Sessions, LaunchFails(s)
    PROVE  StoreInv' /\ AcceptedStays
<1> DEFINE m == [mem[s] EXCEPT !.status = "end"]
<1>1. /\ home[s] # None /\ mem[s].root # None /\ mem[s].status = "starting"
      /\ mem[s] \in Records
  BY DEF StoreInv, StoreType, FreshInv, RecordInv, NoRec, LaunchFails
<1>2. m \in Records /\ m.root = mem[s].root /\ m.status = "end" /\ m.accepted = mem[s].accepted
  BY <1>1 DEF Records
<1>3. Written(s, m) /\ faults' \in Nat
  BY RecordWritten DEF LaunchFails, StoreInv
<1>4. UNCHANGED <<OneFile, op, home>> /\ running' = running \ {s}
  BY DEF LaunchFails
<1> HIDE DEF m
<1>5. StoreType'
  BY <1>2, <1>3, <1>4, WrittenFacts DEF StoreInv, StoreType, OneFile
<1>6. FreshInv' /\ PlaceInv' /\ RecordInv' /\ AcceptedStays
  BY <1>1, <1>2, <1>3, <1>4, <1>5, WrittenKeeps DEF OneFile
<1>7. /\ mem'[s] = m /\ rec'[s] \in {m, rec[s]}
      /\ \A u \in Sessions \ {s} : mem'[u] = mem[u] /\ rec'[u] = rec[u]
  BY <1>2, <1>3, WrittenFacts DEF StoreInv
<1>8. OpInv' /\ BootInv'
  BY <1>4 DEF OpInv, BootInv, StoreInv, LaunchFails, Booting, Creating, Evicting,
     StartupSteps
<1>9. EndInv'
  BY <1>2, <1>4, <1>7 DEF EndInv, StoreInv, Booting, Evicting, OneFile, LaunchFails
<1>10. QED
  BY <1>5, <1>6, <1>8, <1>9 DEF StoreInv

LEMMA MarkAcceptedWorkKeeps ==
    ASSUME StoreInv, NEW s \in Sessions, MarkAcceptedWork(s)
    PROVE  StoreInv' /\ AcceptedStays
<1> DEFINE m == [mem[s] EXCEPT !.accepted = TRUE]
<1>1. /\ home[s] # None /\ mem[s].root # None /\ mem[s].status = "starting"
      /\ mem[s] \in Records
  BY DEF StoreInv, StoreType, FreshInv, RecordInv, NoRec, MarkAcceptedWork
<1>2. m \in Records /\ m.root = mem[s].root /\ m.status = "starting" /\ m.accepted
  BY <1>1 DEF Records
<1>3. Written(s, m) /\ faults' \in Nat
  BY RecordWritten DEF MarkAcceptedWork, StoreInv
<1>4. UNCHANGED <<OneFile, op, home>> /\ running' = running
  BY DEF MarkAcceptedWork
<1> HIDE DEF m
<1>5. StoreType'
  BY <1>2, <1>3, <1>4, WrittenFacts DEF StoreInv, StoreType, OneFile
<1>6. FreshInv' /\ PlaceInv' /\ RecordInv' /\ AcceptedStays
  BY <1>1, <1>2, <1>3, <1>4, <1>5, WrittenKeeps DEF OneFile
<1>7. /\ mem'[s] = m /\ rec'[s] \in {m, rec[s]}
      /\ \A u \in Sessions \ {s} : mem'[u] = mem[u] /\ rec'[u] = rec[u]
  BY <1>2, <1>3, WrittenFacts DEF StoreInv
<1>8. OpInv' /\ BootInv'
  BY <1>4 DEF OpInv, BootInv, StoreInv, MarkAcceptedWork, Booting, Creating, Evicting,
     StartupSteps
<1>9. EndInv'
  BY <1>1, <1>2, <1>4, <1>7 DEF EndInv, StoreInv, Booting, Evicting, OneFile,
     MarkAcceptedWork
<1>10. QED
  BY <1>5, <1>6, <1>8, <1>9 DEF StoreInv

LEMMA SetProviderSessionIdKeeps ==
    ASSUME StoreInv, SetProviderSessionId
    PROVE  StoreInv' /\ AcceptedStays
<1> DEFINE s == op.s
<1> DEFINE m == [mem[s] EXCEPT !.resumable = TRUE]
<1>1. /\ s \in Sessions /\ home[s] # None /\ mem[s].status = "starting"
      /\ mem[s] \in Records
  BY DEF StoreInv, StoreType, OpInv, SetProviderSessionId
<1>2. mem[s].root # None
  BY <1>1 DEF StoreInv, RecordInv, NoRec
<1>3. m \in Records /\ m.root = mem[s].root /\ m.accepted = mem[s].accepted /\ m.status = "starting"
  BY <1>1 DEF Records
<1>4. Written(s, m) /\ faults' \in Nat
  BY RecordWritten DEF SetProviderSessionId, StoreInv
<1>5. UNCHANGED <<OneFile, home>> /\ running' = running /\ op' = At("up")
  BY DEF SetProviderSessionId
<1>6. op'.pc = "up"
  BY <1>5 DEF At
<1> HIDE DEF m, s
<1>7. StoreType'
  BY <1>1, <1>3, <1>4, <1>5, WrittenFacts, OpTyped DEF StoreInv, StoreType, OneFile, Steps
<1>8. FreshInv' /\ PlaceInv' /\ RecordInv' /\ AcceptedStays
  BY <1>1, <1>2, <1>3, <1>4, <1>5, <1>6, <1>7, WrittenKeeps DEF OneFile
<1>9. /\ mem'[s] = m /\ rec'[s] \in {m, rec[s]}
      /\ \A u \in Sessions \ {s} : mem'[u] = mem[u] /\ rec'[u] = rec[u]
  BY <1>1, <1>3, <1>4, WrittenFacts DEF StoreInv
<1>10. OpInv' /\ BootInv'
  BY <1>5 DEF OpInv, BootInv, Booting, Creating, Evicting, StartupSteps, At
<1>11. EndInv'
  BY <1>1, <1>3, <1>5, <1>9 DEF EndInv, StoreInv, Booting, Evicting, StartupSteps, OneFile,
     At, SetProviderSessionId, s
<1>12. QED
  BY <1>7, <1>8, <1>10, <1>11 DEF StoreInv

LEMMA FinalizeKeeps ==
    ASSUME StoreInv, Finalize
    PROVE  StoreInv' /\ AcceptedStays
<1> DEFINE s == op.s
<1> DEFINE m == [mem[s] EXCEPT !.status = "end"]
<1>1. /\ s \in Sessions /\ home[s] # None /\ mem[s].status = "starting"
      /\ mem[s] \in Records
  BY DEF StoreInv, StoreType, OpInv, Finalize
<1>2. mem[s].root # None
  BY <1>1 DEF StoreInv, RecordInv, NoRec
<1>3. m \in Records /\ m.root = mem[s].root /\ m.accepted = mem[s].accepted /\ m.status = "end"
  BY <1>1 DEF Records
<1>4. Written(s, m) /\ faults' \in Nat
  BY RecordWritten DEF Finalize, StoreInv
<1>5. UNCHANGED <<OneFile, home>> /\ running' = running /\ op' = At("up")
  BY DEF Finalize
<1>6. s \notin running
  BY DEF StoreInv, OpInv, Finalize
<1> HIDE DEF m, s
<1>7. StoreType'
  BY <1>1, <1>3, <1>4, <1>5, WrittenFacts, OpTyped DEF StoreInv, StoreType, OneFile, Steps
<1>8. FreshInv' /\ PlaceInv' /\ RecordInv' /\ AcceptedStays
  BY <1>1, <1>2, <1>3, <1>4, <1>5, <1>6, <1>7, WrittenKeeps DEF OneFile
<1>9. /\ mem'[s] = m /\ rec'[s] \in {m, rec[s]}
      /\ \A u \in Sessions \ {s} : mem'[u] = mem[u] /\ rec'[u] = rec[u]
  BY <1>1, <1>3, <1>4, WrittenFacts DEF StoreInv
<1>10. OpInv' /\ BootInv'
  BY <1>5 DEF OpInv, BootInv, Booting, Creating, Evicting, StartupSteps, At
<1>11. EndInv'
  BY <1>1, <1>3, <1>5, <1>9 DEF EndInv, StoreInv, Booting, Evicting, StartupSteps, OneFile,
     At, Finalize, s
<1>12. QED
  BY <1>7, <1>8, <1>10, <1>11 DEF StoreInv

LEMMA RecoverFromLogKeeps ==
    ASSUME StoreInv, NEW s \in Sessions, RecoverFromLog(s)
    PROVE  StoreInv' /\ AcceptedStays
<1>1. PICK k \in LogTerminals(log[s]) :
         /\ mem' = [mem EXCEPT ![s].status = k]
         /\ rec' = [rec EXCEPT ![s] = mem'[s]]
  BY DEF RecoverFromLog
<1> DEFINE m == [mem[s] EXCEPT !.status = k]
<1>2. /\ mem \in [Sessions -> Records] /\ mem[s].status = "starting" /\ running = {}
      /\ mem[s].root # None /\ home[s] # None
  BY DEF StoreInv, StoreType, BootInv, RecordInv, RecoverFromLog, Booting, StartupSteps,
     NoRec
<1>3. k \in {"end", "interrupted"} /\ (k = "interrupted" => "end" \notin LogTerminals(log[s]))
  BY DEF LogTerminals, Terminal, StoreInv, EndInv
<1>4. m \in Records /\ m.root = mem[s].root /\ m.accepted = mem[s].accepted /\ m.status = k
  BY <1>2, <1>3 DEF Records
<1>5. Written(s, m)
  BY <1>1, <1>2 DEF Written
<1>6. UNCHANGED <<OneFile, op, home, faults>> /\ running' = running
  BY DEF RecoverFromLog, model
<1> HIDE DEF m
<1>7. StoreType'
  BY <1>4, <1>5, <1>6, WrittenFacts DEF StoreInv, StoreType, OneFile
<1>8. FreshInv' /\ PlaceInv' /\ RecordInv' /\ AcceptedStays
  BY <1>2, <1>3, <1>4, <1>5, <1>6, <1>7, WrittenKeeps DEF OneFile
<1>9. /\ mem'[s] = m /\ rec'[s] \in {m, rec[s]}
      /\ \A u \in Sessions \ {s} : mem'[u] = mem[u] /\ rec'[u] = rec[u]
  BY <1>4, <1>5, WrittenFacts DEF StoreInv
<1>10. OpInv' /\ BootInv'
  BY <1>2, <1>4, <1>6, <1>9 DEF OpInv, BootInv, Booting, Creating, Evicting, StartupSteps,
     StoreInv, RecoverFromLog
<1>11. EndInv'
  BY <1>2, <1>3, <1>4, <1>6, <1>9 DEF EndInv, StoreInv, Booting, Evicting, OneFile,
     RecoverFromLog, StartupSteps
<1>12. QED
  BY <1>7, <1>8, <1>10, <1>11 DEF StoreInv

LEMMA RecoverClosesKeeps ==
    ASSUME StoreInv, RecoverCloses
    PROVE  StoreInv' /\ AcceptedStays
<1> DEFINE s == op.s
<1> DEFINE m == [mem[s] EXCEPT !.count = @ + 1, !.status = "interrupted"]
<1>1. /\ s \in Sessions /\ home[s] # None /\ mem[s].status = "starting"
      /\ mem \in [Sessions -> Records] /\ LogTerminals(log[s]) \subseteq {"interrupted"}
      /\ running = {}
  BY DEF StoreInv, StoreType, OpInv, BootInv, Booting, StartupSteps, RecoverCloses
<1>2. mem[s].root # None
  BY <1>1 DEF StoreInv, RecordInv, NoRec
<1>3. m \in Records /\ m.root = mem[s].root /\ m.accepted = mem[s].accepted /\ m.status = "interrupted"
  <2>1. mem[s] \in Records /\ mem[s].count \in Nat
    BY <1>1 DEF Records
  <2>2. mem[s].count + 1 \in Nat
    BY <2>1
  <2>3. QED
    BY <2>1, <2>2 DEF Records
<1>4. Written(s, m)
  BY <1>1 DEF Written, RecoverCloses
<1>5. UNCHANGED <<OneFile, home, faults>> /\ running' = running /\ op' = At("recover")
  BY DEF RecoverCloses, model
<1> HIDE DEF m, s
<1>7. StoreType'
  BY <1>1, <1>3, <1>4, <1>5, WrittenFacts, OpTyped DEF StoreInv, StoreType, OneFile, Steps,
     StartupSteps
<1>8. FreshInv' /\ PlaceInv' /\ RecordInv' /\ AcceptedStays
  BY <1>1, <1>2, <1>3, <1>4, <1>5, <1>7, WrittenKeeps DEF OneFile
<1>9. /\ mem'[s] = m /\ rec'[s] \in {m, rec[s]}
      /\ \A u \in Sessions \ {s} : mem'[u] = mem[u] /\ rec'[u] = rec[u]
  BY <1>1, <1>3, <1>4, WrittenFacts DEF StoreInv
<1>10. OpInv' /\ BootInv'
  BY <1>1, <1>3, <1>5, <1>9 DEF OpInv, BootInv, Booting, Creating, Evicting, StartupSteps,
     At, StoreInv, RecoverCloses
<1>11. EndInv'
  BY <1>1, <1>3, <1>5, <1>9 DEF EndInv, StoreInv, Booting, Evicting, StartupSteps, OneFile,
     At
<1>12. QED
  BY <1>7, <1>8, <1>10, <1>11 DEF StoreInv

LEMMA CreateBeginsKeeps ==
    ASSUME StoreInv, NEW s \in Sessions, NEW p \in Sessions \union {None}, CreateBegins(s, p)
    PROVE  StoreInv'
<1>1. UNCHANGED <<disk, mem, running, model>>
  BY DEF CreateBegins
<1>2. StoreType'
  BY CreateBeginsType DEF StoreInv
<1>3. op'.pc = "room" /\ op'.s = s /\ home[s] = None /\ op'.root \in Sessions
  <2>1. p # None => mem[p].root \in Sessions
    BY DEF StoreInv, StoreType, RecordInv, CreateBegins, Known, Records
  <2>2. QED
    BY <2>1 DEF CreateBegins, Doing, At
<1>4. QED
  BY <1>1, <1>2, <1>3 DEF StoreInv, OpInv, BootInv, FreshInv, PlaceInv, RecordInv, EndInv,
     disk, model, Creating, Evicting, Booting, StartupSteps, CreateBegins

LEMMA CreateRefusedKeeps ==
    ASSUME StoreInv, CreateRefused
    PROVE  StoreInv'
<1>1. UNCHANGED <<disk, mem, running, home, faults>> /\ op' = At("up") /\ op'.pc = "up"
  BY DEF CreateRefused, At
<1>2. StoreType'
  BY <1>1, OpTyped DEF StoreInv, StoreType, disk, Steps
<1>3. OpInv' /\ BootInv' /\ FreshInv' /\ PlaceInv' /\ RecordInv'
  BY <1>1 DEF StoreInv, OpInv, BootInv, FreshInv, PlaceInv, RecordInv,
     disk, Creating, Evicting, Booting, StartupSteps
<1>4. EndInv'
  BY <1>1 DEF StoreInv, EndInv, disk, Evicting, Booting, StartupSteps, CreateRefused
<1>5. QED
  BY <1>2, <1>3, <1>4 DEF StoreInv

LEMMA CreateRegistersKeeps ==
    ASSUME StoreInv, CreateRegisters
    PROVE  StoreInv'
<1> DEFINE s == op.s
<1>1. UNCHANGED <<lin, rec, log, trash, running, home>> /\ dirs' = dirs \union {op.root}
  BY DEF CreateRegisters, model
<1>2. StoreType'
  BY CreateRegistersType DEF StoreInv
<1>3. s \in Sessions /\ home[s] = None /\ op.root \in Sessions
  BY DEF StoreInv, OpInv, CreateRegisters, Creating
<1>4. /\ mem'[s].root = op.root /\ mem'[s].status = "starting"
      /\ \A u \in Sessions \ {s} : mem'[u] = mem[u]
  BY <1>3 DEF CreateRegisters, StoreInv, StoreType, NoRec
<1>5. rec[s] = NoRec /\ log[s] = <<>> /\ s \notin running
  BY <1>3 DEF StoreInv, FreshInv
<1>6. op'.pc = "write" /\ op'.s = s
  BY DEF CreateRegisters, Doing, At
<1>7. OpInv' /\ BootInv' /\ FreshInv' /\ PlaceInv'
  BY <1>1, <1>3, <1>4, <1>6, StoreAssumption DEF StoreInv, OpInv, BootInv, FreshInv,
     PlaceInv,
     Creating, Evicting, Booting, StartupSteps
<1> HIDE DEF s
<1>8. RecordInv'
  BY <1>1, <1>3, <1>4, <1>5, StoreAssumption DEF StoreInv, RecordInv, NoRec
<1>9. EndInv'
  <2>1. ~Booting
    BY DEF CreateRegisters, Booting, Evicting, StartupSteps
  <2>2. LogTerminals(log[s]) = {}
    BY <1>5 DEF LogTerminals
  <2>3. QED
    BY <1>1, <1>4, <1>5, <2>1, <2>2 DEF StoreInv, EndInv, NoRec, CreateRegisters
<1>10. QED
  BY <1>2, <1>7, <1>8, <1>9 DEF StoreInv

LEMMA CreateWritesKeeps ==
    ASSUME StoreInv, CreateWrites
    PROVE  StoreInv'
<1> DEFINE s == op.s
<1> DEFINE r == mem[s].root
<1>1. UNCHANGED <<dirs, log, trash, mem>> /\ op'.pc = "up" /\ op.pc = "write"
  BY DEF CreateWrites, At
<1>2. StoreType'
  BY CreateWritesType DEF StoreInv
<1>3. s \in Sessions /\ home[s] = None /\ r \in dirs /\ r # None /\ r \in Sessions
  BY <1>1 DEF StoreInv, StoreType, OpInv, Creating
<1>4. rec[s] = NoRec /\ log[s] = <<>> /\ s \notin running
  BY <1>3 DEF StoreInv, FreshInv
<1>5. OpInv' /\ BootInv'
  BY <1>1 DEF OpInv, BootInv, Creating, Evicting, Booting, StartupSteps
<1> HIDE DEF s
<1>6. CASE UNCHANGED <<rec, lin, home, running>>
  BY <1>1, <1>2, <1>5, <1>6 DEF StoreInv, FreshInv, PlaceInv, RecordInv, EndInv, Booting,
     Evicting, StartupSteps
<1>7. CASE /\ rec' = [rec EXCEPT ![s] = mem[s]]
           /\ lin' = [lin EXCEPT ![r] = @ \union {s}]
           /\ home' = [home EXCEPT ![s] = r]
           /\ running' = running \union {s}
  <2>1. /\ rec'[s] = mem[s] /\ home'[s] = r /\ lin'[r] = lin[r] \union {s}
        /\ \A u \in Sessions \ {s} : rec'[u] = rec[u] /\ home'[u] = home[u]
        /\ \A q \in Sessions \ {r} : lin'[q] = lin[q]
    BY <1>3, <1>7 DEF StoreInv, StoreType
  <2>2. FreshInv'
    BY <1>1, <1>3, <1>7, <2>1 DEF StoreInv, FreshInv
  <2>3. \A q \in Sessions : s \notin lin[q]
    BY <1>3, StoreAssumption DEF StoreInv, PlaceInv
  <2>4. \A t \in trash : s \notin t.members
    BY <1>3, StoreAssumption DEF StoreInv, PlaceInv, StoreType
  <2>5. PlaceInv'
    <3>1. ASSUME NEW q \in Sessions, NEW u \in lin'[q]
          PROVE  home'[u] = q /\ rec'[u].root = q /\ q \in dirs'
      <4>1. u \in Sessions
        BY <1>2 DEF StoreType
      <4>2. CASE u = s
        BY <1>1, <1>3, <2>1, <2>3, <4>2
      <4>3. CASE u # s
        BY <1>1, <2>1, <4>1, <4>3 DEF StoreInv, PlaceInv
      <4>4. QED
        BY <4>2, <4>3
    <3>2. ASSUME NEW t \in trash, NEW u \in t.members
          PROVE  home'[u] = t.root /\ rec'[u].root = t.root /\ u \notin lin'[t.root]
      <4>1. u \in Sessions /\ t.root \in Sessions /\ u # s
        BY <2>4 DEF StoreInv, StoreType
      <4>2. home[u] = t.root /\ rec[u].root = t.root /\ u \notin lin[t.root]
        BY DEF StoreInv, PlaceInv
      <4>3. QED
        BY <2>1, <4>1, <4>2
    <3>3. QED
      BY <1>1, <3>1, <3>2 DEF StoreInv, PlaceInv
  <2>6. mem[s].status = "starting"
    BY <1>1 DEF StoreInv, OpInv, s
  <2>7. RecordInv'
    BY <1>1, <1>3, <1>7, <2>1, <2>6 DEF StoreInv, RecordInv
  <2>8. EndInv'
    BY <1>1, <1>4, <2>1, <2>6 DEF StoreInv, EndInv, Booting, Evicting, StartupSteps
  <2>9. QED
    BY <1>2, <1>5, <2>2, <2>5, <2>7, <2>8 DEF StoreInv
<1>8. QED
  BY <1>6, <1>7 DEF CreateWrites, s

LEMMA EvictRenamesKeeps ==
    ASSUME StoreInv, NEW r \in Sessions, EvictRenames(r)
    PROVE  StoreInv'
<1> DEFINE t0 == [root |-> r, members |-> lin[r]]
<1>1. UNCHANGED <<rec, log, mem, running, home>>
  BY DEF EvictRenames, model
<1>2. StoreType'
  BY EvictRenamesType DEF StoreInv
<1>3. /\ op.pc \in {"room", "retain"} /\ op'.pc = "tomb" /\ op'.back = op.pc /\ op'.victim = r
      /\ op'.moved = lin[r] /\ op'.s = op.s /\ op'.root = op.root
  BY DEF EvictRenames, StoreInv, StoreType, Ops
<1>4. lin[r] # {} => r \in dirs
  BY DEF StoreInv, PlaceInv
<1>5. \A s \in Sessions : mem[s].root = r => mem[s].status # "starting"
  BY StoreAssumption DEF EvictRenames, Candidates, Active, Members, Known, NoRec
<1>6. OpInv'
  BY <1>1, <1>3, <1>4, <1>5 DEF EvictRenames, StoreInv, OpInv, Creating, Evicting
<1>7. BootInv' /\ FreshInv' /\ RecordInv' /\ EndInv'
  BY <1>1, <1>3 DEF StoreInv, BootInv, FreshInv, RecordInv, EndInv, Booting, Evicting,
     StartupSteps
<1>8. PlaceInv'
  <2>1. CASE r \notin dirs
    BY <2>1, <1>1 DEF EvictRenames, StoreInv, PlaceInv
  <2>2. CASE r \in dirs
    <3>1. /\ dirs' = dirs \ {r} /\ trash' = trash \union {t0} /\ lin'[r] = {}
          /\ \A q \in Sessions \ {r} : lin'[q] = lin[q]
      BY <2>2 DEF EvictRenames, StoreInv, StoreType
    <3>2. \A q \in Sessions : \A s \in lin'[q] : home[s] = q /\ rec[s].root = q /\ q \in dirs'
      BY <3>1 DEF StoreInv, PlaceInv
    <3>3. t0.root = r /\ t0.members = lin[r]
      OBVIOUS
    <3>4. ASSUME NEW t \in trash', NEW s \in t.members
          PROVE  home[s] = t.root /\ rec[s].root = t.root /\ s \notin lin'[t.root]
      <4>1. CASE t = t0
        BY <3>1, <3>3, <4>1 DEF StoreInv, PlaceInv
      <4>2. CASE t \in trash
        <5>1. home[s] = t.root /\ rec[s].root = t.root /\ s \notin lin[t.root] /\ t.root \in Sessions
          BY <4>2 DEF StoreInv, PlaceInv, StoreType
        <5>2. QED
          BY <3>1, <5>1
      <4>3. QED
        BY <3>1, <4>1, <4>2
    <3>5. \A t \in trash : \A s \in t.members : s \notin lin[r]
      <4>1. ASSUME NEW t \in trash, NEW s \in t.members, s \in lin[r]
            PROVE  FALSE
        BY <4>1 DEF StoreInv, PlaceInv
      <4>2. QED
        BY <4>1
    <3>6. \A t, u \in trash' : \A s \in t.members \intersect u.members : t = u
      BY <3>1, <3>3, <3>5 DEF StoreInv, PlaceInv
    <3>7. QED
      BY <1>1, <3>2, <3>4, <3>6 DEF PlaceInv
  <2>3. QED
    BY <2>1, <2>2
<1>9. QED
  BY <1>2, <1>6, <1>7, <1>8 DEF StoreInv

LEMMA EvictFailsKeeps ==
    ASSUME StoreInv, EvictFails
    PROVE  StoreInv'
<1>1. UNCHANGED <<disk, running, home>> /\ faults' \in Nat /\ Evicting /\ op.back \in {"room", "retain"}
  BY StoreAssumption DEF EvictFails, Fault, StoreInv, StoreType, OpInv, Evicting
<1>2. CASE op.back = "room"
  <2>1. op' = At("up") /\ op'.pc = "up" /\ mem' = mem
    BY <1>2 DEF EvictFails, At
  <2>2. op' \in Ops
    BY <2>1, OpTyped DEF Steps
  <2>3. ~Booting
    BY <1>1, <1>2 DEF Booting, Evicting, StartupSteps
  <2>4. QED
    BY <1>1, <2>1, <2>2, <2>3 DEF StoreInv, StoreType, OpInv, BootInv, FreshInv, PlaceInv,
       RecordInv, EndInv,
       disk, Creating, Evicting, Booting, StartupSteps
<1>3. CASE op.back = "retain"
  <2>1. op' = At("down") /\ op'.pc = "down" /\ mem' = [s \in Sessions |-> NoRec]
    BY <1>3 DEF EvictFails, At
  <2>2. op' \in Ops
    BY <2>1, OpTyped DEF Steps
  <2>3. running = {}
    BY <1>1, <1>3 DEF StoreInv, BootInv, Booting
  <2>4. StoreType'
    BY <1>1, <2>1, <2>2, NoRecTyped DEF StoreInv, StoreType, disk
  <2>5. OpInv' /\ BootInv' /\ FreshInv' /\ PlaceInv' /\ RecordInv' /\ EndInv'
    BY <1>1, <2>1, <2>3 DEF StoreInv, StoreType, OpInv, BootInv, FreshInv, PlaceInv,
       RecordInv, EndInv,
       disk, Creating, Evicting, Booting, StartupSteps, NoRec
  <2>6. QED
    BY <2>4, <2>5 DEF StoreInv
<1>4. QED
  BY <1>1, <1>2, <1>3

LEMMA EvictCommitsKeeps ==
    ASSUME StoreInv, EvictCommits
    PROVE  StoreInv'
<1>1. UNCHANGED <<dirs, lin, rec, log, trash, mem, running, home, faults>>
  BY DEF EvictCommits, model
<1>2. /\ op \in Ops /\ op.pc = "tomb" /\ op' = [op EXCEPT !.pc = "delete"]
      /\ op.victim \in Sessions /\ tombs' = tombs \union {op.victim}
  BY DEF EvictCommits, StoreInv, StoreType, OpInv, Evicting
<1>3. /\ op' \in Ops /\ op'.pc = "delete" /\ op'.back = op.back /\ op'.victim = op.victim
      /\ op'.moved = op.moved /\ op'.s = op.s /\ op'.root = op.root
  BY <1>2 DEF Ops, Steps
<1>4. StoreType'
  BY <1>1, <1>2, <1>3 DEF StoreInv, StoreType
<1>5. OpInv'
  BY <1>1, <1>2, <1>3 DEF StoreInv, OpInv, Creating, Evicting
<1>6. BootInv' /\ EndInv'
  BY <1>1, <1>2, <1>3 DEF StoreInv, BootInv, EndInv, Evicting, Booting, StartupSteps
<1>7. FreshInv' /\ PlaceInv' /\ RecordInv'
  BY <1>1 DEF StoreInv, FreshInv, PlaceInv, RecordInv
<1>8. QED
  BY <1>4, <1>5, <1>6, <1>7 DEF StoreInv

LEMMA ErasedFacts ==
    ASSUME NEW ss, Erase(ss), NEW s \in Sessions
    PROVE  /\ s \in ss => rec'[s] = NoRec /\ log'[s] = <<>>
           /\ s \notin ss => rec'[s] = rec[s] /\ log'[s] = log[s]
BY DEF Erase

LEMMA EvictDeletesKeeps ==
    ASSUME StoreInv, EvictDeletes
    PROVE  StoreInv'
<1> DEFINE t0 == [root |-> op.victim, members |-> op.moved]
<1>1. /\ UNCHANGED <<dirs, lin, running, home, tombs, faults>> /\ Erase(op.moved)
      /\ trash' = trash \ {t0} /\ Evicting /\ op.pc = "delete"
      /\ mem' = [s \in Sessions |-> IF mem[s].root = op.victim THEN NoRec ELSE mem[s]]
  BY DEF EvictDeletes, model, Evicting
<1>2. /\ op.victim \in Sessions /\ op.back \in {"room", "retain"} /\ op.moved \subseteq Sessions
      /\ \A s \in Sessions : mem[s].root = op.victim => mem[s].status # "starting"
      /\ op.moved # {} => t0 \in trash
  BY <1>1 DEF StoreInv, StoreType, OpInv, Ops
<1>3. \A s \in Sessions : mem'[s] = NoRec \/ (mem'[s] = mem[s] /\ mem[s].root # op.victim)
  BY <1>1
<1>4. \A s \in Sessions : mem[s].status = "starting" => mem'[s] = mem[s]
  BY <1>1, <1>2
<1>5. /\ op' \in Ops /\ op'.pc = op.back /\ op'.s = op.s /\ op'.root = op.root
  <2>1. op \in Ops /\ op' = [op EXCEPT !.pc = op.back, !.back = "up", !.victim = None, !.moved = {}]
    BY DEF EvictDeletes, StoreInv, StoreType
  <2>2. op.back \in Steps
    BY <1>2 DEF Steps, StartupSteps
  <2>3. QED
    BY <2>1, <2>2 DEF Ops
<1>6. StoreType'
  <2>1. mem' \in [Sessions -> Records]
    BY <1>1, NoRecTyped DEF StoreInv, StoreType
  <2>2. rec' \in [Sessions -> Records] /\ log' \in [Sessions -> Seq(LineType)]
    BY <1>1, ErasedType DEF StoreInv
  <2>3. QED
    BY <1>1, <1>5, <2>1, <2>2 DEF StoreInv, StoreType
<1>7. OpInv' /\ BootInv'
  BY <1>1, <1>2, <1>3, <1>5 DEF StoreInv, OpInv, BootInv, Creating, Evicting, Booting,
     StartupSteps, NoRec
<1>8. \A s \in op.moved : home[s] = op.victim /\ home[s] # None
  BY <1>2, StoreAssumption DEF StoreInv, PlaceInv
<1>9. FreshInv'
  BY <1>1, <1>8, ErasedFacts DEF StoreInv, FreshInv
<1>10. PlaceInv'
  <2>1. ASSUME NEW q \in Sessions, NEW s \in lin[q]
        PROVE  home[s] = q /\ rec'[s].root = q /\ q \in dirs
    <3>1. s \in Sessions /\ home[s] = q /\ rec[s].root = q /\ q \in dirs
      BY DEF StoreInv, StoreType, PlaceInv
    <3>2. s \notin op.moved
      BY <1>2, <3>1 DEF StoreInv, PlaceInv
    <3>3. QED
      BY <1>1, <3>1, <3>2, ErasedFacts
  <2>2. ASSUME NEW t \in trash', NEW s \in t.members
        PROVE  home[s] = t.root /\ rec'[s].root = t.root /\ s \notin lin[t.root]
    <3>1. t \in trash /\ t # t0
      BY <1>1
    <3>2. s \in Sessions /\ home[s] = t.root /\ rec[s].root = t.root /\ s \notin lin[t.root]
      BY <3>1 DEF StoreInv, StoreType, PlaceInv
    <3>3. s \notin op.moved
      BY <1>2, <3>1 DEF StoreInv, PlaceInv
    <3>4. QED
      BY <1>1, <3>2, <3>3, ErasedFacts
  <2>3. \A t, u \in trash' : \A s \in t.members \intersect u.members : t = u
    BY <1>1 DEF StoreInv, PlaceInv
  <2>4. QED
    BY <1>1, <2>1, <2>2, <2>3 DEF PlaceInv
<1>11. RecordInv'
  <2>1. \A s \in Sessions : rec'[s] = NoRec \/ rec'[s] = rec[s]
    BY <1>1, ErasedFacts
  <2>2. NoRec.accepted = FALSE /\ NoRec.status = "none" /\ NoRec.root = None
    BY DEF NoRec
  <2>3. QED
    BY <1>1, <1>3, <1>4, <2>1, <2>2 DEF StoreInv, RecordInv
<1>12. EndInv'
  <2>1. \A s \in Sessions : (rec'[s] = NoRec /\ log'[s] = <<>>) \/ (rec'[s] = rec[s] /\ log'[s] = log[s])
    BY <1>1, ErasedFacts
  <2>2. Booting' => Booting
    BY <1>1, <1>2, <1>5 DEF Booting, Evicting, StartupSteps
  <2>2a. Booting => Booting'
    BY <1>1, <1>2, <1>5 DEF Booting, Evicting, StartupSteps
  <2>3. LogTerminals(<<>>) = {} /\ DOMAIN <<>> = {} /\ NoRec.status = "none"
    BY DEF LogTerminals, NoRec
  <2>4. QED
    BY <1>1, <1>3, <2>1, <2>2, <2>2a, <2>3 DEF StoreInv, EndInv
<1>13. QED
  BY <1>6, <1>7, <1>9, <1>10, <1>11, <1>12 DEF StoreInv

(* The steps of the constructor that only move on. *)
LEMMA StartupMovesOn ==
    ASSUME StoreInv, UNCHANGED <<disk, mem, running, home, faults>>,
           op \in Ops, op' \in Ops, op'.pc \in StartupSteps \ {"close"},
           op.pc \in StartupSteps \union {"down"},
           op'.pc = "trash" => op.pc = "down",
           op'.pc = "retain" => \A s \in Sessions : mem[s].status # "starting"
    PROVE  StoreInv'
<1>1. StoreType'
  BY DEF StoreInv, StoreType, disk
<1>2. OpInv' /\ BootInv'
  BY DEF StoreInv, OpInv, BootInv, Creating, Evicting, Booting, StartupSteps
<1>3. FreshInv' /\ PlaceInv' /\ RecordInv'
  BY DEF StoreInv, FreshInv, PlaceInv, RecordInv, disk
<1>4. EndInv'
  BY DEF StoreInv, EndInv, disk, Booting, Evicting, StartupSteps
<1>5. QED
  BY <1>1, <1>2, <1>3, <1>4 DEF StoreInv

LEMMA RestartKeeps ==
    ASSUME StoreInv, Restart
    PROVE  StoreInv'
<1>1. op' = At("trash") /\ op'.pc = "trash" /\ op.pc = "down" /\ op \in Ops
  BY DEF Restart, At, StoreInv, StoreType
<1>2. op' \in Ops
  BY <1>1, OpTyped DEF Steps, StartupSteps
<1>3. QED
  BY <1>1, <1>2, StartupMovesOn DEF Restart, model, StartupSteps

LEMMA LoadBeginsKeeps ==
    ASSUME StoreInv, LoadBegins
    PROVE  StoreInv'
<1>1. op' = [At("load") EXCEPT !.todo = dirs] /\ op.pc = "trash" /\ op \in Ops /\ dirs \subseteq Sessions
  BY DEF LoadBegins, StoreInv, StoreType
<1>2. op' \in Ops /\ op'.pc = "load"
  <2>1. At("load") \in Ops /\ At("load").pc = "load"
    BY OpTyped DEF Steps, StartupSteps, At
  <2>2. QED
    BY <1>1, <2>1 DEF Ops
<1>3. QED
  BY <1>1, <1>2, StartupMovesOn DEF LoadBegins, model, StartupSteps

LEMMA RecoverBeginsKeeps ==
    ASSUME StoreInv, RecoverBegins
    PROVE  StoreInv'
<1>1. op' = At("recover") /\ op'.pc = "recover" /\ op.pc = "load" /\ op \in Ops
  BY DEF RecoverBegins, At, StoreInv, StoreType
<1>2. op' \in Ops
  BY <1>1, OpTyped DEF Steps, StartupSteps
<1>3. QED
  BY <1>1, <1>2, StartupMovesOn DEF RecoverBegins, model, StartupSteps

LEMMA RetainBeginsKeeps ==
    ASSUME StoreInv, RetainBegins
    PROVE  StoreInv'
<1>1. op' = At("retain") /\ op'.pc = "retain" /\ op.pc = "recover" /\ op \in Ops
  BY DEF RetainBegins, At, StoreInv, StoreType
<1>2. op' \in Ops
  BY <1>1, OpTyped DEF Steps, StartupSteps
<1>3. QED
  BY <1>1, <1>2, StartupMovesOn DEF RetainBegins, model, StartupSteps

LEMMA StartupEndsKeeps ==
    ASSUME StoreInv, StartupEnds
    PROVE  StoreInv'
<1>1. UNCHANGED <<disk, mem, running, home, faults>> /\ op' = At("up") /\ op'.pc = "up"
  BY DEF StartupEnds, At, model
<1>2. StoreType'
  BY <1>1, OpTyped DEF StoreInv, StoreType, disk, Steps
<1>3. \A s \in Sessions : mem[s].status # "starting"
  BY DEF StoreInv, BootInv, StartupEnds
<1>4. QED
  BY <1>1, <1>2, <1>3 DEF StoreInv, OpInv, BootInv, FreshInv, PlaceInv, RecordInv, EndInv,
     disk, Creating, Evicting, Booting, StartupSteps

LEMMA RecoverEvictionKeeps ==
    ASSUME StoreInv, NEW t \in trash, RecoverEviction(t)
    PROVE  StoreInv'
<1>1. /\ UNCHANGED <<mem, op, running, home>> /\ trash' = trash \ {t} /\ op.pc = "trash"
      /\ t.root \in Sessions /\ t.members \subseteq Sessions
  BY DEF RecoverEviction, model, StoreInv, StoreType
<1>2. StoreType'
  BY RecoverEvictionType DEF StoreInv
<1>3. \A s \in Sessions : mem[s] = NoRec
  BY <1>1 DEF StoreInv, BootInv
<1>4. OpInv' /\ BootInv'
  BY <1>1 DEF StoreInv, OpInv, BootInv, Creating, Evicting, Booting, StartupSteps
<1>5. \A s \in t.members : home[s] = t.root /\ home[s] # None
  BY <1>1, StoreAssumption DEF StoreInv, PlaceInv
<1>6. CASE Erase(t.members) /\ UNCHANGED <<dirs, lin>>
  <2>1. \A s \in Sessions : (rec'[s] = NoRec /\ log'[s] = <<>>) \/ (rec'[s] = rec[s] /\ log'[s] = log[s])
    BY <1>6, ErasedFacts
  <2>2. /\ LogTerminals(<<>>) = {} /\ DOMAIN <<>> = {}
        /\ NoRec.status = "none" /\ NoRec.accepted = FALSE /\ NoRec.root = None
    BY DEF LogTerminals, NoRec
  <2>3. FreshInv'
    BY <1>1, <2>1 DEF StoreInv, FreshInv
  <2>4. PlaceInv'
    <3>1. ASSUME NEW q \in Sessions, NEW s \in lin[q]
          PROVE  home[s] = q /\ rec'[s].root = q /\ q \in dirs
      <4>1. s \in Sessions /\ home[s] = q /\ rec[s].root = q /\ q \in dirs
        BY DEF StoreInv, StoreType, PlaceInv
      <4>2. s \notin t.members
        BY <4>1 DEF StoreInv, PlaceInv
      <4>3. QED
        BY <1>6, <4>1, <4>2, ErasedFacts
    <3>2. ASSUME NEW u \in trash', NEW s \in u.members
          PROVE  home[s] = u.root /\ rec'[s].root = u.root /\ s \notin lin[u.root]
      <4>1. u \in trash /\ u # t
        BY <1>1
      <4>2. s \in Sessions /\ home[s] = u.root /\ rec[s].root = u.root /\ s \notin lin[u.root]
        BY <4>1 DEF StoreInv, StoreType, PlaceInv
      <4>3. s \notin t.members
        BY <4>1 DEF StoreInv, PlaceInv
      <4>4. QED
        BY <1>6, <4>2, <4>3, ErasedFacts
    <3>3. \A u, v \in trash' : \A s \in u.members \intersect v.members : u = v
      BY <1>1 DEF StoreInv, PlaceInv
    <3>4. QED
      BY <1>1, <1>6, <3>1, <3>2, <3>3 DEF PlaceInv
  <2>5. RecordInv'
    BY <1>1, <2>1, <2>2 DEF StoreInv, RecordInv
  <2>6. EndInv'
    BY <1>1, <1>3, <2>1, <2>2 DEF StoreInv, EndInv, Booting, Evicting, StartupSteps
  <2>7. QED
    BY <1>2, <1>4, <2>3, <2>4, <2>5, <2>6 DEF StoreInv
<1>7. CASE /\ t.root \notin dirs /\ dirs' = dirs \union {t.root}
           /\ lin' = [lin EXCEPT ![t.root] = t.members] /\ UNCHANGED <<rec, log>>
  <2>1. lin'[t.root] = t.members /\ \A q \in Sessions \ {t.root} : lin'[q] = lin[q]
    BY <1>1, <1>7 DEF StoreInv, StoreType
  <2>2. PlaceInv'
    <3>1. \A q \in Sessions : \A s \in lin'[q] : home[s] = q /\ rec[s].root = q /\ q \in dirs'
      BY <1>1, <1>7, <2>1 DEF StoreInv, PlaceInv
    <3>2. ASSUME NEW u \in trash', NEW s \in u.members
          PROVE  home[s] = u.root /\ rec[s].root = u.root /\ s \notin lin'[u.root]
      <4>1. u \in trash /\ u # t
        BY <1>1
      <4>2. s \in Sessions /\ home[s] = u.root /\ rec[s].root = u.root /\ s \notin lin[u.root] /\ u.root \in Sessions
        BY <4>1 DEF StoreInv, StoreType, PlaceInv
      <4>3. s \notin t.members
        BY <4>1 DEF StoreInv, PlaceInv
      <4>4. QED
        BY <2>1, <4>2, <4>3
    <3>3. \A u, v \in trash' : \A s \in u.members \intersect v.members : u = v
      BY <1>1 DEF StoreInv, PlaceInv
    <3>4. QED
      BY <1>1, <1>7, <3>1, <3>2, <3>3 DEF PlaceInv
  <2>3. FreshInv' /\ RecordInv' /\ EndInv'
    BY <1>1, <1>7 DEF StoreInv, FreshInv, RecordInv, EndInv, Booting, Evicting, StartupSteps
  <2>4. QED
    BY <1>2, <1>4, <2>2, <2>3 DEF StoreInv
<1>8. QED
  BY <1>6, <1>7 DEF RecoverEviction

-----------------------------------------------------------------------------
(* Logs.                                                                    *)

(* The log k is the log l with a line of that kind, or a corrupt one, at its end. *)
Longer(l, k, kind) ==
    \A i \in DOMAIN k : \/ i \in DOMAIN l /\ k[i] = l[i]
                        \/ i = Len(k) /\ k[i].kind \in {kind, "corrupt"}

LEMMA AppendFacts ==
    ASSUME NEW l \in Seq(LineType), NEW e \in LineType
    PROVE  Append(l, e) \in Seq(LineType) /\ Longer(l, Append(l, e), e.kind)
BY DEF Longer

LEMMA AppendedFacts ==
    ASSUME NEW l \in Seq(LineType), NEW e \in LineType
    PROVE  Appended(l, e) \in Seq(LineType) /\ Longer(l, Appended(l, e), e.kind)
<1>1. CASE Appended(l, e) = Append(l, e)
  BY <1>1, AppendFacts
<1>2. CASE Appended(l, e) = l
  BY <1>2 DEF Longer
<1>3. CASE l # <<>> /\ Appended(l, e) = [l EXCEPT ![Len(l)] = Line(0, "corrupt")]
  <2>1. Line(0, "corrupt") \in LineType /\ Line(0, "corrupt").kind = "corrupt"
    BY DEF Line, LineType, Kinds
  <2>2. Len(l) \in 1 .. Len(l)
    BY <1>3
  <2>3. Appended(l, e) \in Seq(LineType)
    BY <1>3, <2>1, <2>2
  <2>4. QED
    BY <1>3, <2>1, <2>2, <2>3 DEF Longer
<1>4. QED
  BY <1>1, <1>2, <1>3 DEF Appended

(* A repaired log is a prefix of it. *)
LEMMA RepairedFacts ==
    ASSUME NEW l \in Seq(LineType)
    PROVE  /\ Repaired(l) \in Seq(LineType)
           /\ \A i \in DOMAIN Repaired(l) : i \in DOMAIN l /\ Repaired(l)[i] = l[i]
<1>1. Cardinality(GoodLines(l)) \in 0 .. Len(l)
  <2>1. IsFiniteSet(1 .. Len(l)) /\ Cardinality(1 .. Len(l)) = Len(l)
    <3>1. 1 \in Int /\ Len(l) \in Int /\ Len(l) \in Nat
      OBVIOUS
    <3>2. QED
      BY <3>1, FS_Interval
  <2>2. GoodLines(l) \subseteq 1 .. Len(l)
    BY DEF GoodLines
  <2>3. /\ IsFiniteSet(GoodLines(l))
        /\ Cardinality(GoodLines(l)) <= Cardinality(1 .. Len(l))
    BY <2>1, <2>2, FS_Subset
  <2>4. Cardinality(GoodLines(l)) \in Nat
    BY <2>3, FS_CardinalityType
  <2>5. QED
    BY <2>1, <2>3, <2>4
<1>2. QED
  BY <1>1 DEF Repaired

(* A line is appended to the log of a session that has not ended. *)
LEMMA LineAppended ==
    ASSUME StoreType, NEW s \in Sessions, NEW e \in LineType, LogTerminals(log[s]) = {},
           log' = [log EXCEPT ![s] = Appended(log[s],
           e)] \/ log' = [log EXCEPT ![s] = Append(log[s], e)]
    PROVE  /\ log' \in [Sessions -> Seq(LineType)] /\ \A u \in Sessions \ {s} : log'[u] = log[u]
           /\ LogTerminals(log'[s]) \subseteq {e.kind}
           /\ e.kind \notin Terminal => LogTerminals(log'[s]) = {}
           /\ \A i, j \in DOMAIN log'[s] :
                 log'[s][i].kind \in Terminal /\ log'[s][j].kind \in Terminal => i = j
<1>1. log \in [Sessions -> Seq(LineType)] /\ log[s] \in Seq(LineType)
  BY DEF StoreType
<1>2. PICK k \in Seq(LineType) : log' = [log EXCEPT ![s] = k] /\ Longer(log[s], k, e.kind)
  BY <1>1, AppendFacts, AppendedFacts
<1>3. log'[s] = k /\ log' \in [Sessions -> Seq(LineType)] /\ \A u \in Sessions \ {s} : log'[u] = log[u]
  BY <1>1, <1>2
<1>4. \A i \in DOMAIN log[s] : log[s][i].kind \notin Terminal
  BY DEF LogTerminals
<1>5. \A i \in DOMAIN k : k[i].kind \in Terminal => i = Len(k) /\ k[i].kind = e.kind
  BY <1>2, <1>4 DEF Terminal, Longer
<1>6. QED
  BY <1>3, <1>5 DEF LogTerminals

LEMMA PersistEventKeeps ==
    ASSUME StoreInv, NEW s \in Sessions, NEW kind \in {"event", "end"},
           NEW next \in {"up", "provider", "finalize"}, next = "finalize" <=> kind = "end",
           PersistEvent(s, kind, next)
    PROVE  StoreInv' /\ AcceptedStays
<1> DEFINE m == [mem[s] EXCEPT !.count = @ + 1]
<1> DEFINE line == Line(mem[s].count, kind)
<1>1. /\ op.pc = "up" /\ s \in running /\ home[s] # None /\ mem[s].status = "starting" /\ mem[s].root # None
      /\ mem[s] \in Records /\ op \in Ops
  BY DEF StoreInv, StoreType, FreshInv, RecordInv, NoRec, PersistEvent
<1>2. /\ m \in Records /\ m.root = mem[s].root /\ m.status = "starting" /\ m.accepted = mem[s].accepted
      /\ mem[s].count \in Nat
  <2>1. mem[s].count \in Nat /\ mem[s].count + 1 \in Nat
    BY <1>1 DEF Records
  <2>2. QED
    BY <1>1, <2>1 DEF Records
<1>3. UNCHANGED <<dirs, lin, trash, tombs, home>> /\ faults' \in Nat /\ Written(s, m)
  BY StoreAssumption DEF PersistEvent, Written, Fault, NoFault, StoreInv, StoreType
<1>4. running' = (IF kind = "end" THEN running \ {s} ELSE running)
  BY DEF PersistEvent
<1>5. \/ op' = op
      \/ op' = Doing(next, s) /\ op'.pc = next /\ op'.s = s
  BY DEF PersistEvent, Doing, At
<1>6. LogTerminals(log[s]) = {} /\ ~Booting
  BY <1>1 DEF StoreInv, EndInv, Booting, Evicting, StartupSteps
<1>7. /\ line \in LineType /\ line.kind = kind
      /\ Torn \in LineType /\ Torn.kind = "torn" /\ "torn" \notin Terminal /\ "event" \notin Terminal
  BY <1>2 DEF Line, LineType, Kinds, Torn, Terminal
<1>8. \/ log' = log
      \/ log' = [log EXCEPT ![s] = Appended(log[s], Torn)]
      \/ log' = [log EXCEPT ![s] = Appended(log[s], line)] /\ (kind = "end" => op'.pc = next /\ op'.s = s)
  BY DEF PersistEvent, Doing, At
<1> HIDE DEF m, line
<1>9. /\ log' \in [Sessions -> Seq(LineType)] /\ \A u \in Sessions \ {s} : log'[u] = log[u]
      /\ LogTerminals(log'[s]) = {} \/ (op'.pc = "finalize" /\ op'.s = s)
      /\ \A i, j \in DOMAIN log'[s] :
            log'[s][i].kind \in Terminal /\ log'[s][j].kind \in Terminal => i = j
  <2>1. CASE log' = log
    BY <2>1, <1>6 DEF StoreInv, StoreType, EndInv
  <2>2. CASE log' = [log EXCEPT ![s] = Appended(log[s], Torn)]
    <3>1. PICK e \in LineType : e = Torn
      BY <1>7
    <3>2. log' = [log EXCEPT ![s] = Appended(log[s], e)] /\ e.kind \notin Terminal
      BY <2>2, <3>1, <1>7
    <3>3. QED
      BY <1>6, <3>2, LineAppended DEF StoreInv
  <2>3. CASE /\ log' = [log EXCEPT ![s] = Appended(log[s], line)]
             /\ kind = "end" => op'.pc = next /\ op'.s = s
    BY <2>3, <1>6, <1>7, LineAppended DEF StoreInv
  <2>4. QED
    BY <1>8, <2>1, <2>2, <2>3
<1>10. StoreType'
  <2>1. next \in Steps
    BY DEF Steps
  <2>2. op' \in Ops
    BY <1>1, <1>5, <2>1, OpTyped
  <2>3. QED
    BY <1>2, <1>3, <1>4, <1>9, <2>2, WrittenFacts DEF StoreInv, StoreType
<1>11. /\ mem'[s] = m /\ rec'[s] \in {m, rec[s]}
       /\ \A u \in Sessions \ {s} : mem'[u] = mem[u] /\ rec'[u] = rec[u]
  BY <1>2, <1>3, WrittenFacts DEF StoreInv
<1>12. FreshInv' /\ PlaceInv' /\ RecordInv' /\ AcceptedStays
  BY <1>1, <1>2, <1>3, <1>4, <1>9, <1>10, WrittenKeeps
<1>13. OpInv' /\ BootInv'
  BY <1>1, <1>2, <1>3, <1>4, <1>5, <1>11 DEF OpInv, BootInv, Booting, Creating, Evicting,
     StartupSteps
<1>14. EndInv'
  <2>1. rec[s].status # "interrupted"
    BY <1>1 DEF StoreInv, RecordInv
  <2>2. ~Booting'
    BY <1>1, <1>5 DEF Booting, Evicting, StartupSteps
  <2>3. QED
    BY <1>1, <1>2, <1>6, <1>9, <1>11, <2>1, <2>2 DEF StoreInv, EndInv
<1>15. QED
  BY <1>10, <1>12, <1>13, <1>14 DEF StoreInv

LEMMA LoadLineageKeeps ==
    ASSUME StoreInv, NEW r \in Sessions, LoadLineage(r)
    PROVE  StoreInv'
<1>1. /\ UNCHANGED <<lin, rec, trash, tombs, running, home, faults>> /\ op.pc = "load" /\ op \in Ops
      /\ op' = [op EXCEPT !.todo = op.todo \ {r}]
      /\ dirs' = (IF lin[r] = {} THEN dirs \ {r} ELSE dirs)
  BY DEF LoadLineage, model, StoreInv, StoreType
<1>2. op' \in Ops /\ op'.pc = "load"
  BY <1>1 DEF Ops
<1>3. \A s \in lin[r] : s \in Sessions /\ home[s] = r /\ rec[s].root = r /\ r # None
  BY StoreAssumption DEF StoreInv, StoreType, PlaceInv
<1>4. /\ log' \in [Sessions -> Seq(LineType)]
      /\ \A s \in Sessions : \A i \in DOMAIN log'[s] : i \in DOMAIN log[s] /\ log'[s][i] = log[s][i]
      /\ \A s \in Sessions : s \notin lin[r] => log'[s] = log[s]
  <2>1. log' = [s \in Sessions |-> IF s \in lin[r] THEN Repaired(log[s]) ELSE log[s]]
    BY DEF LoadLineage
  <2>2. \A s \in Sessions : log[s] \in Seq(LineType)
    BY DEF StoreInv, StoreType
  <2>3. QED
    BY <2>1, <2>2, RepairedFacts
<1>5. \A s \in Sessions : LogTerminals(log'[s]) \subseteq LogTerminals(log[s])
  BY <1>4 DEF LogTerminals
<1>6. /\ mem' \in [Sessions -> Records]
      /\ \A s \in lin[r] : /\ mem'[s].root = rec[s].root /\ mem'[s].status = rec[s].status
                           /\ mem'[s].accepted = rec[s].accepted
      /\ \A s \in Sessions \ lin[r] : mem'[s] = mem[s]
  <2> DEFINE c(s) == IF rec[s].count > Len(log'[s]) THEN rec[s].count ELSE Len(log'[s])
  <2>1. mem' = [s \in Sessions |-> IF s \in lin[r] THEN [rec[s] EXCEPT !.count = c(s)] ELSE mem[s]]
    BY DEF LoadLineage
  <2>2. \A s \in Sessions : rec[s] \in Records /\ mem[s] \in Records /\ c(s) \in Nat
    BY <1>4 DEF StoreInv, StoreType, Records
  <2> HIDE DEF c
  <2>3. QED
    BY <1>3, <2>1, <2>2 DEF Records
<1>7. StoreType'
  BY <1>1, <1>2, <1>4, <1>6 DEF StoreInv, StoreType
<1>8. running = {} /\ \A s \in Sessions : mem[s].root # None => home[s] # None
  BY <1>1 DEF StoreInv, BootInv, Booting, StartupSteps
<1>9. OpInv' /\ BootInv'
  BY <1>1, <1>2, <1>3, <1>6, <1>8 DEF OpInv, BootInv, Creating, Evicting, Booting,
     StartupSteps
<1>10. FreshInv'
  BY <1>1, <1>3, <1>4, StoreAssumption DEF StoreInv, FreshInv
<1>11. PlaceInv'
  BY <1>1 DEF StoreInv, PlaceInv
<1>12. RecordInv'
  <2> SUFFICES ASSUME NEW s \in Sessions
               PROVE  /\ mem'[s] = NoRec \/ (mem'[s].root # None /\ mem'[s].status # "none")
                      /\ rec'[s] = NoRec \/ (rec'[s].root # None /\ rec'[s].status # "none")
                      /\ home'[s] # None /\ mem'[s].root # None => mem'[s].root = home'[s]
                      /\ s \in running' => mem'[s].status = "starting"
                      /\ mem'[s].root # None /\ rec'[s].accepted => mem'[s].accepted
                      /\ mem'[s].status = "starting" => rec'[s].status # "interrupted"
    BY Zenon DEF RecordInv
  <2>1. CASE s \in lin[r]
    <3>1. rec[s].root # None /\ rec[s].status # "none"
      BY <1>3, <2>1 DEF StoreInv, RecordInv, NoRec
    <3>2. QED
      BY <1>1, <1>3, <1>6, <1>8, <2>1, <3>1
  <2>2. CASE s \notin lin[r]
    BY <1>1, <1>6, <1>8, <2>2 DEF StoreInv, RecordInv
  <2>3. QED
    BY <2>1, <2>2
<1>13. EndInv'
  BY <1>1, <1>2, <1>4, <1>5, <1>6 DEF StoreInv, EndInv, Booting, Evicting, StartupSteps
<1>14. QED
  BY <1>7, <1>9, <1>10, <1>11, <1>12, <1>13 DEF StoreInv

LEMMA RecoverAppendsKeeps ==
    ASSUME StoreInv, NEW s \in Sessions, RecoverAppends(s)
    PROVE  StoreInv'
<1> DEFINE line == Line(mem[s].count, "interrupted")
<1>1. /\ UNCHANGED <<dirs, lin, rec, trash, tombs, mem, running, home, faults>> /\ op.pc = "recover"
      /\ op' = Doing("close", s) /\ op'.pc = "close" /\ op'.s = s
      /\ mem[s].status = "starting" /\ LogTerminals(log[s]) = {} /\ mem[s] \in Records
  BY DEF RecoverAppends, model, StoreInv, StoreType, Doing, At
<1>2. running = {} /\ mem[s].root # None /\ home[s] # None
  BY <1>1 DEF StoreInv, BootInv, RecordInv, Booting, StartupSteps, NoRec
<1>3. line \in LineType /\ line.kind = "interrupted"
  BY <1>1 DEF Line, LineType, Kinds, Records
<1>4. log' = log \/ log' = [log EXCEPT ![s] = Append(log[s], line)]
  BY DEF RecoverAppends
<1> HIDE DEF line
<1>5. /\ log' \in [Sessions -> Seq(LineType)] /\ \A u \in Sessions \ {s} : log'[u] = log[u]
      /\ LogTerminals(log'[s]) \subseteq {"interrupted"}
      /\ \A i, j \in DOMAIN log'[s] :
            log'[s][i].kind \in Terminal /\ log'[s][j].kind \in Terminal => i = j
  <2>1. CASE log' = log
    BY <2>1, <1>1 DEF StoreInv, StoreType, EndInv
  <2>2. CASE log' = [log EXCEPT ![s] = Append(log[s], line)]
    BY <2>2, <1>1, <1>3, LineAppended DEF StoreInv
  <2>3. QED
    BY <1>4, <2>1, <2>2
<1>6. op' \in Ops
  BY <1>1, OpTyped DEF Steps, StartupSteps
<1>7. StoreType'
  BY <1>1, <1>5, <1>6 DEF StoreInv, StoreType
<1>8. OpInv' /\ BootInv'
  BY <1>1, <1>2, <1>5 DEF StoreInv, OpInv, BootInv, Creating, Evicting, Booting,
     StartupSteps
<1>9. FreshInv' /\ PlaceInv' /\ RecordInv'
  BY <1>1, <1>2, <1>5 DEF StoreInv, FreshInv, PlaceInv, RecordInv
<1>10. EndInv'
  BY <1>1, <1>5 DEF StoreInv, EndInv, Booting, Evicting, StartupSteps
<1>11. QED
  BY <1>7, <1>8, <1>9, <1>10 DEF StoreInv

LEMMA CrashKeeps ==
    ASSUME StoreInv, Crash
    PROVE  StoreInv'
<1>1. /\ UNCHANGED <<dirs, lin, rec, trash, tombs, home, faults>>
      /\ mem' = [s \in Sessions |-> NoRec] /\ op' = At("down") /\ op'.pc = "down" /\ running' = {}
  BY DEF Crash, At
<1>2. /\ log' \in [Sessions -> Seq(LineType)]
      /\ \A s \in Sessions : home[s] = None => log'[s] = log[s]
      /\ \A s \in Sessions : LogTerminals(log'[s]) \subseteq LogTerminals(log[s])
      /\ \A s \in Sessions : \A i, j \in DOMAIN log'[s] :
            log'[s][i].kind \in Terminal /\ log'[s][j].kind \in Terminal => i = j
  <2>1. CASE log' = log
    BY <2>1 DEF StoreInv, StoreType, EndInv
  <2>2. ASSUME NEW s \in Sessions, log' = [log EXCEPT ![s] = Appended(log[s], Torn)],
               \/ op.pc = "up" /\ s \in running
               \/ op.pc = "recover" /\ mem[s].status = "starting" /\ LogTerminals(log[s]) = {}
        PROVE  <1>2!1 /\ <1>2!2 /\ <1>2!3 /\ <1>2!4
    <3>1. PICK e \in LineType : e = Torn /\ e.kind \notin Terminal
      <4>1. Torn \in LineType /\ Torn.kind \notin Terminal
        BY DEF Line, LineType, Kinds, Torn, Terminal
      <4>2. QED
        BY <4>1
    <3>2. home[s] # None /\ LogTerminals(log[s]) = {}
      BY <2>2 DEF StoreInv, FreshInv, RecordInv, BootInv, EndInv, Booting, Evicting,
         StartupSteps, NoRec
    <3>3. /\ log' \in [Sessions -> Seq(LineType)] /\ \A u \in Sessions \ {s} : log'[u] = log[u]
          /\ LogTerminals(log'[s]) = {}
          /\ \A i, j \in DOMAIN log'[s] :
                log'[s][i].kind \in Terminal /\ log'[s][j].kind \in Terminal => i = j
      <4>1. log' = [log EXCEPT ![s] = Appended(log[s], e)]
        BY <2>2, <3>1
      <4>2. QED
        BY <4>1, <3>1, <3>2, LineAppended DEF StoreInv
    <3>4. QED
      BY <3>2, <3>3 DEF StoreInv, EndInv
  <2>3. QED
    BY <2>1, <2>2 DEF Crash
<1>3. StoreType'
  BY <1>1, <1>2, NoRecTyped, OpTyped DEF StoreInv, StoreType, Steps
<1>4. \A s \in Sessions : mem'[s] = NoRec /\ mem'[s].status = "none" /\ mem'[s].root = None
  BY <1>1 DEF NoRec
<1>5. OpInv' /\ BootInv'
  BY <1>1, <1>4 DEF OpInv, BootInv, Creating, Evicting, Booting, StartupSteps
<1>6. FreshInv' /\ PlaceInv' /\ RecordInv'
  BY <1>1, <1>2, <1>4 DEF StoreInv, FreshInv, PlaceInv, RecordInv
<1>7. EndInv'
  BY <1>1, <1>2, <1>4 DEF StoreInv, EndInv, Booting
<1>8. QED
  BY <1>3, <1>5, <1>6, <1>7 DEF StoreInv

-----------------------------------------------------------------------------
(* Whatever fails.                                                          *)

(* StoreInv is inductive. *)
LEMMA StoreStarts ==
    ASSUME Init
    PROVE  StoreInv
<1>1. /\ dirs = {} /\ lin = [r \in Sessions |-> {}] /\ rec = [s \in Sessions |-> NoRec]
      /\ log = [s \in Sessions |-> <<>>] /\ trash = {} /\ tombs = {}
      /\ mem = [s \in Sessions |-> NoRec] /\ op = At("up") /\ running = {}
      /\ home = [s \in Sessions |-> None] /\ faults = 0
  BY DEF Init
<1>2. op.pc = "up" /\ op \in Ops
  BY <1>1, OpTyped DEF At, Steps
<1>3. StoreType
  BY <1>1, <1>2, NoRecTyped DEF StoreType
<1>4. QED
  BY <1>1, <1>2, <1>3 DEF StoreInv, OpInv, BootInv, FreshInv, PlaceInv, RecordInv, EndInv,
     Creating, Evicting, Booting, StartupSteps, NoRec

(* Steps that write no record. *)
LEMMA AcceptedWhenErased ==
    ASSUME NEW ss, Erase(ss)
    PROVE  AcceptedStays
BY ErasedFacts DEF AcceptedStays

LEMMA AcceptedWhenUnchanged ==
    ASSUME UNCHANGED rec
    PROVE  AcceptedStays
BY DEF AcceptedStays

LEMMA StoreKept ==
    ASSUME StoreInv, [Next]_vars
    PROVE  StoreInv' /\ AcceptedStays
<1>1. CASE CreateNext
  <2>1. ASSUME NEW s \in Sessions, NEW p \in Sessions \union {None}, CreateBegins(s, p)
        PROVE  StoreInv' /\ AcceptedStays
    BY <2>1, CreateBeginsKeeps, AcceptedWhenUnchanged DEF CreateBegins, disk
  <2>2. CASE CreateRefused
    BY <2>2, CreateRefusedKeeps, AcceptedWhenUnchanged DEF CreateRefused, disk
  <2>3. CASE CreateRegisters
    BY <2>3, CreateRegistersKeeps, AcceptedWhenUnchanged DEF CreateRegisters
  <2>4. CASE CreateWrites
    <3>1. op.s \in Sessions /\ rec[op.s].accepted = FALSE
      BY <2>4 DEF StoreInv, OpInv, FreshInv, Creating, CreateWrites, NoRec
    <3>2. AcceptedStays
      BY <2>4, <3>1 DEF AcceptedStays, CreateWrites, StoreInv, StoreType
    <3>3. QED
      BY <2>4, <3>2, CreateWritesKeeps
  <2>5. QED
    BY <1>1, <2>1, <2>2, <2>3, <2>4 DEF CreateNext
<1>2. CASE EvictNext \/ EvictFails
  <2>1. ASSUME NEW r \in Sessions, EvictRenames(r)
        PROVE  StoreInv' /\ AcceptedStays
    BY <2>1, EvictRenamesKeeps, AcceptedWhenUnchanged DEF EvictRenames
  <2>2. CASE EvictCommits
    BY <2>2, EvictCommitsKeeps, AcceptedWhenUnchanged DEF EvictCommits
  <2>3. CASE EvictDeletes
    BY <2>3, EvictDeletesKeeps, AcceptedWhenErased DEF EvictDeletes
  <2>4. CASE EvictFails
    BY <2>4, EvictFailsKeeps, AcceptedWhenUnchanged DEF EvictFails, disk
  <2>5. QED
    BY <1>2, <2>1, <2>2, <2>3, <2>4 DEF EvictNext
<1>3. ASSUME NEW s \in Sessions, SessionNext(s)
      PROVE  StoreInv' /\ AcceptedStays
  BY <1>3, LaunchFailsKeeps, MarkAcceptedWorkKeeps, PersistEventKeeps DEF SessionNext
<1>4. CASE SetProviderSessionId \/ Finalize
  BY <1>4, SetProviderSessionIdKeeps, FinalizeKeeps
<1>5. CASE StartupNext
  <2>1. CASE Restart \/ LoadBegins \/ RecoverBegins \/ RetainBegins \/ StartupEnds
    BY <2>1, RestartKeeps, LoadBeginsKeeps, RecoverBeginsKeeps, RetainBeginsKeeps,
       StartupEndsKeeps,
       AcceptedWhenUnchanged DEF Restart, LoadBegins, RecoverBegins, RetainBegins,
       StartupEnds, disk
  <2>2. ASSUME NEW t \in trash, RecoverEviction(t)
        PROVE  StoreInv' /\ AcceptedStays
    BY <2>2, RecoverEvictionKeeps, AcceptedWhenUnchanged,
       AcceptedWhenErased DEF RecoverEviction
  <2>3. ASSUME NEW r \in Sessions, LoadLineage(r)
        PROVE  StoreInv' /\ AcceptedStays
    BY <2>3, LoadLineageKeeps, AcceptedWhenUnchanged DEF LoadLineage
  <2>4. ASSUME NEW s \in Sessions, RecoverFromLog(s) \/ RecoverAppends(s)
        PROVE  StoreInv' /\ AcceptedStays
    BY <2>4, RecoverFromLogKeeps, RecoverAppendsKeeps,
       AcceptedWhenUnchanged DEF RecoverAppends
  <2>5. CASE RecoverCloses
    BY <2>5, RecoverClosesKeeps
  <2>6. QED
    BY <1>5, <2>1, <2>2, <2>3, <2>4, <2>5 DEF StartupNext
<1>6. CASE Crash
  BY <1>6, CrashKeeps, AcceptedWhenUnchanged DEF Crash
<1>7. CASE UNCHANGED vars
  <2>1. AcceptedStays
    BY <1>7, AcceptedWhenUnchanged DEF vars, disk
  <2>2. StoreInv'
    BY <1>7 DEF vars, disk, model, StoreInv, StoreType, OpInv, BootInv, FreshInv, PlaceInv,
       RecordInv, EndInv,
       Creating, Evicting, Booting
  <2>3. QED
    BY <2>1, <2>2
<1>8. QED
  BY <1>1, <1>2, <1>3, <1>4, <1>5, <1>6, <1>7 DEF Next

LEMMA StoreStays == Spec => []StoreInv
BY StoreStarts, StoreKept, PTL DEF Spec

(* The recovery of #recoverNonTerminalSessions and the bookkeeping of       *)
(* persistEvent never leave a session whose log has the provider's end      *)
(* with another status, whichever files could not be written.               *)
THEOREM EndIsAlwaysBelieved == Spec => []EndIsBelieved
<1>1. ASSUME StoreInv
      PROVE  EndIsBelieved
  <2> SUFFICES ASSUME op.pc = "up", NEW s \in Known, "end" \in LogTerminals(log[s])
               PROVE  mem[s].status = "end"
    BY DEF EndIsBelieved
  <2>1. s \in Sessions /\ mem[s] # NoRec /\ mem[s] \in Records
    BY <1>1 DEF Known, StoreInv, StoreType
  <2>2. mem[s].status # "none" /\ mem[s].status # "interrupted" /\ mem[s].status # "starting"
    BY <1>1, <2>1 DEF StoreInv, RecordInv, EndInv, Booting, Evicting, StartupSteps
  <2>3. QED
    BY <2>1, <2>2 DEF Records
<1>2. QED
  BY <1>1, StoreStays, PTL

(* No log ever has two terminal events, however many restarts the recovery  *)
(* of it takes and wherever a line is torn.                                 *)
THEOREM AlwaysOneTerminal == Spec => []OneTerminal
<1>1. ASSUME StoreInv
      PROVE  OneTerminal
  <2> SUFFICES ASSUME NEW s \in Sessions
               PROVE  Cardinality({i \in DOMAIN log[s] : log[s][i].kind \in Terminal}) <= 1
    BY Zenon DEF OneTerminal
  <2> DEFINE T == {i \in DOMAIN log[s] : log[s][i].kind \in Terminal}
  <2>1. \A i, j \in T : i = j
    BY <1>1 DEF StoreInv, EndInv
  <2> HIDE DEF T
  <2>2. ASSUME T = {}
        PROVE  Cardinality(T) <= 1
    <3>1. Cardinality({}) = 0
      BY FS_EmptySet
    <3>2. Cardinality(T) = 0
      BY <2>2, <3>1, Zenon
    <3>3. QED
      BY <3>2
  <2>3. ASSUME NEW i \in T
        PROVE  Cardinality(T) <= 1
    <3>1. T = {i}
      BY <2>1, <2>3
    <3>2. Cardinality({i}) = 1
      BY FS_Singleton
    <3>3. QED
      BY <3>1, <3>2
  <2>4. QED
    BY <2>2, <2>3 DEF T
<1>2. QED
  BY <1>1, StoreStays, PTL

(* No write of a record takes back that work was accepted: what is written  *)
(* comes from memory, and memory had it from the record.                    *)
THEOREM AcceptedIsNeverTakenBack == Spec => AcceptedIsKept
<1>1. ASSUME StoreInv, [Next]_vars
      PROVE  [\A s \in Sessions : rec[s].accepted /\ rec'[s] # NoRec => rec'[s].accepted]_vars
  BY <1>1, StoreKept DEF AcceptedStays
<1>2. QED
  BY <1>1, StoreStays, PTL DEF Spec, AcceptedIsKept

-----------------------------------------------------------------------------
(* As long as nothing has failed.                                           *)

(* Where no lineage is on its way to or from the trash. *)
CalmSteps == {"up", "provider", "finalize", "recover", "close", "retain"}

(* The steps that write records, or only move on. *)
LEMMA CalmHealthy ==
    ASSUME StoreInv, Healthy, SameInv', UNCHANGED <<dirs, lin, trash, tombs, home>>,
           op.pc \in CalmSteps \union {"room"} \/ (op.pc = "load" /\ op.todo = {}),
           op'.pc \in CalmSteps,
           \A s \in Sessions : mem'[s].root = mem[s].root
    PROVE  Healthy'
<1>1. TrashInv' /\ trash = {}
  BY DEF Healthy, TrashInv, CalmSteps, Evicting
<1>2. KeptInv'
  BY DEF Healthy, KeptInv, InTrash
<1>3. TombInv'
  BY DEF Healthy, TombInv, CalmSteps, Evicting
<1>4. KnownInv'
  BY DEF Healthy, KnownInv, CalmSteps, Evicting, InPlace
<1>5. QED
  BY <1>1, <1>2, <1>3, <1>4 DEF Healthy

(* What keeps memory and disk the same. *)
LEMMA SameWhenUnchanged ==
    ASSUME Healthy, UNCHANGED <<mem, rec>>, op.pc # "write"
    PROVE  SameInv'
BY DEF Healthy, SameInv

(* The step writes m, or what differs from it in count, to the record of s. *)
LEMMA SameWhenWritten ==
    ASSUME StoreInv, Healthy, NEW s \in Sessions, NEW m \in Records, Written(s, m), op.pc # "write",
           mem[s].root # None,
           \/ rec' = [rec EXCEPT ![s] = m]
           \/ UNCHANGED rec /\ \E n : m = [mem[s] EXCEPT !.count = n]
    PROVE  SameInv'
<1>1. /\ mem'[s] = m /\ \A u \in Sessions \ {s} : mem'[u] = mem[u] /\ rec'[u] = rec[u]
  BY WrittenFacts DEF StoreInv
<1>2. /\ rec'[s].root = m.root /\ rec'[s].parent = m.parent /\ rec'[s].status = m.status
      /\ rec'[s].accepted = m.accepted /\ rec'[s].resumable = m.resumable
  <2>1. CASE rec' = [rec EXCEPT ![s] = m]
    BY <2>1 DEF StoreInv, StoreType
  <2>2. ASSUME UNCHANGED rec, NEW n, m = [mem[s] EXCEPT !.count = n]
        PROVE  <1>2
    <3>1. mem[s] \in Records
      BY DEF StoreInv, StoreType
    <3>2. /\ m.root = mem[s].root /\ m.parent = mem[s].parent /\ m.status = mem[s].status
          /\ m.accepted = mem[s].accepted /\ m.resumable = mem[s].resumable
      BY <2>2, <3>1 DEF Records
    <3>3. QED
      BY <2>2, <3>2 DEF Healthy, SameInv
  <2>3. QED
    BY <2>1, <2>2
<1>3. QED
  BY <1>1, <1>2 DEF Healthy, SameInv

(* One lemma for the operations of each group. *)
LEMMA CreateHealthy ==
    ASSUME StoreInv, Healthy, CreateNext, faults' = 0, faults = 0
    PROVE  Healthy'
<1>1. ASSUME NEW s \in Sessions, NEW p \in Sessions \union {None}, CreateBegins(s, p)
      PROVE  Healthy'
  <2>1. /\ UNCHANGED <<dirs, lin, trash, tombs, mem, rec, home>> /\ op.pc = "up"
        /\ op'.pc = "room" /\ op'.s = s /\ op'.root = (IF p = None THEN s ELSE mem[p].root) /\ home[s] = None
    BY <1>1 DEF CreateBegins, Doing, At, disk, model
  <2>2. p # None => mem[p].root \in Sessions /\ home[mem[p].root] # None /\ mem[p].root \notin tombs
    <3>1. p # None => p \in Sessions /\ mem[p].root \in Sessions
      BY <1>1 DEF StoreInv, StoreType, RecordInv, CreateBegins, Known, Records
    <3>2. p # None => home[p] # None /\ mem[p].root = home[p]
      BY <2>1, <3>1, StoreAssumption DEF Healthy, KnownInv, InPlace, StoreInv, RecordInv,
         Evicting
    <3>3. QED
      BY <2>1, <3>1, <3>2 DEF Healthy, TombInv
  <2>3. TombInv'
    BY <2>1, <2>2 DEF Healthy, TombInv, Evicting
  <2>4. TrashInv' /\ KeptInv' /\ KnownInv' /\ SameInv'
    BY <2>1 DEF Healthy, TrashInv, KeptInv, KnownInv, SameInv, InTrash, InPlace, Evicting
  <2>5. QED
    BY <2>3, <2>4 DEF Healthy
<1>2. CASE CreateRefused
  BY <1>2, CalmHealthy, SameWhenUnchanged DEF CreateRefused, At, disk, CalmSteps
<1>3. CASE CreateRegisters
  <2> DEFINE s == op.s
  <2>1. /\ UNCHANGED <<lin, trash, tombs, rec, home>> /\ op.pc = "room"
        /\ op'.pc = "write" /\ op'.s = s /\ dirs' = dirs \union {op.root}
    BY <1>3 DEF CreateRegisters, Doing, At, model
  <2>2. s \in Sessions /\ home[s] = None /\ op.root \in Sessions
    BY <1>3 DEF StoreInv, OpInv, CreateRegisters, Creating
  <2>3. /\ mem'[s].root = op.root
        /\ \A u \in Sessions \ {s} : mem'[u] = mem[u]
    BY <1>3, <2>2 DEF CreateRegisters, StoreInv, StoreType, NoRec
  <2>4. op.root \notin tombs /\ (op.root = s \/ home[op.root] # None)
    BY <2>1, <2>2 DEF Healthy, TombInv
  <2> HIDE DEF s
  <2>5. TrashInv' /\ KeptInv'
    BY <2>1 DEF Healthy, TrashInv, KeptInv, InTrash, Evicting
  <2>6. TombInv'
    BY <2>1, <2>2, <2>3, <2>4 DEF Healthy, TombInv, Evicting
  <2>7. KnownInv'
    BY <2>1, <2>2, <2>3, StoreAssumption DEF Healthy, KnownInv, InPlace, Evicting
  <2>8. SameInv'
    BY <2>1, <2>3 DEF Healthy, SameInv
  <2>9. QED
    BY <2>5, <2>6, <2>7, <2>8 DEF Healthy
<1>4. CASE CreateWrites
  <2> DEFINE s == op.s
  <2> DEFINE r == mem[s].root
  <2>1. /\ UNCHANGED <<dirs, trash, tombs, mem>> /\ op.pc = "write" /\ op'.pc = "up"
        /\ rec' = [rec EXCEPT ![s] = mem[s]] /\ lin' = [lin EXCEPT ![r] = lin[r] \union {s}]
        /\ home' = [home EXCEPT ![s] = r]
    BY <1>4 DEF CreateWrites, At, Fault
  <2>2. s \in Sessions /\ home[s] = None /\ r \in Sessions /\ r # None
    BY <2>1 DEF StoreInv, StoreType, OpInv, Creating
  <2>3. r \notin tombs /\ (r = s \/ home[r] # None)
    BY <2>1, <2>2 DEF Healthy, TombInv
  <2>4. \A u \in Sessions : mem[u].root # None /\ u # s => home[u] # None
    BY <2>1 DEF Healthy, KnownInv, InPlace, Evicting
  <2> HIDE DEF s, r
  <2>5. /\ rec'[s] = mem[s] /\ home'[s] = r /\ s \in lin'[r]
        /\ \A u \in Sessions \ {s} : rec'[u] = rec[u] /\ home'[u] = home[u]
        /\ \A q \in Sessions : lin'[q] = lin[q] \/ (q = r /\ lin'[q] = lin[q] \union {s})
    BY <2>1, <2>2 DEF StoreInv, StoreType
  <2>6. TrashInv' /\ KeptInv'
    BY <2>1, <2>2, <2>5, StoreAssumption DEF Healthy, TrashInv, KeptInv, InTrash, Evicting,
       StoreInv, StoreType
  <2>7. TombInv'
    BY <2>1, <2>2, <2>3, <2>5, StoreAssumption DEF Healthy, TombInv, Evicting, StoreInv,
       StoreType
  <2>8. KnownInv'
    BY <2>1, <2>2, <2>5, StoreAssumption DEF Healthy, KnownInv, InPlace, Evicting,
       StoreInv, StoreType, s, r
  <2>9. SameInv'
    BY <2>1, <2>5 DEF Healthy, SameInv, s
  <2>10. QED
    BY <2>6, <2>7, <2>8, <2>9 DEF Healthy
<1>5. QED
  BY <1>1, <1>2, <1>3, <1>4 DEF CreateNext

LEMMA EvictHealthy ==
    ASSUME StoreInv, Healthy, EvictNext, faults = 0
    PROVE  Healthy'
<1>1. ASSUME NEW r \in Sessions, EvictRenames(r)
      PROVE  Healthy'
  <2> DEFINE t0 == [root |-> r, members |-> lin[r]]
  <2>1. /\ UNCHANGED <<rec, mem, tombs, home>> /\ op.pc \in {"room", "retain"}
        /\ op'.pc = "tomb" /\ op'.back = op.pc /\ op'.victim = r
        /\ op'.moved = lin[r] /\ op'.s = op.s /\ op'.root = op.root
    BY <1>1 DEF EvictRenames, model, StoreInv, StoreType, Ops
  <2>2. r # op.root /\ \E s \in Sessions : mem[s].root = r
    BY <1>1 DEF EvictRenames, Candidates, Members, Known
  <2>3. PICK s \in Sessions : home[s] = r /\ s \in lin[r]
    BY <2>1, <2>2, StoreAssumption DEF Healthy, KnownInv, InPlace, StoreInv, RecordInv,
       Evicting
  <2>4. r \in dirs /\ home[r] # None
    BY <2>3, StoreAssumption DEF StoreInv, PlaceInv, Healthy, TombInv
  <2>5. /\ dirs' = dirs \ {r} /\ trash = {} /\ trash' = {t0} /\ lin'[r] = {}
        /\ \A q \in Sessions \ {r} : lin'[q] = lin[q]
    BY <1>1, <2>1, <2>4 DEF EvictRenames, Healthy, TrashInv, Evicting, StoreInv, StoreType
  <2>6. t0.root = r /\ t0.members = lin[r]
    OBVIOUS
  <2>7. TrashInv'
    BY <2>1, <2>5, <2>6 DEF TrashInv, Evicting
  <2> HIDE DEF t0
  <2>8. KeptInv'
    BY <2>1, <2>5, <2>6 DEF Healthy, KeptInv, InTrash, StoreInv, StoreType
  <2>9. TombInv'
    BY <2>1, <2>2, <2>4, <2>5 DEF Healthy, TombInv, Evicting, StoreInv, StoreType
  <2>10. KnownInv'
    <3>1. \A u \in lin[r] : u \in Sessions /\ home[u] = r
      BY DEF StoreInv, StoreType, PlaceInv
    <3>2. ASSUME NEW u \in Sessions
          PROVE  (InPlace(u)' \/ u \in lin[r]) <=> InPlace(u)
      <4>1. home[u] \in Sessions \union {None}
        BY DEF StoreInv, StoreType
      <4>2. QED
        BY <2>1, <2>5, <3>1, <4>1, StoreAssumption DEF InPlace
    <3>3. \A u \in Sessions : mem[u].root # None <=> InPlace(u)
      BY <2>1 DEF Healthy, KnownInv, Evicting
    <3>4. QED
      BY <2>1, <3>2, <3>3 DEF KnownInv, Evicting
  <2>11. SameInv'
    BY <2>1 DEF Healthy, SameInv
  <2>12. QED
    BY <2>7, <2>8, <2>9, <2>10, <2>11 DEF Healthy
<1>2. CASE EvictCommits
  <2>1. /\ UNCHANGED <<dirs, lin, rec, trash, mem, home>> /\ tombs' = tombs \union {op.victim}
        /\ op.pc = "tomb" /\ op'.pc = "delete" /\ op'.back = op.back /\ op'.victim = op.victim
        /\ op'.moved = op.moved /\ op'.s = op.s /\ op'.root = op.root
    BY <1>2 DEF EvictCommits, model, StoreInv, StoreType, Ops
  <2>2. op.victim \notin dirs /\ op.victim \in Sessions
    BY <2>1 DEF Healthy, TrashInv, Evicting, StoreInv, OpInv
  <2>3. lin[op.victim] = {} /\ home[op.victim] # None
    BY <2>1, <2>2 DEF StoreInv, PlaceInv, Healthy, TombInv, Evicting
  <2>4. TombInv'
    BY <2>1, <2>3 DEF Healthy, TombInv, Evicting
  <2>5. TrashInv' /\ KeptInv'
    BY <2>1 DEF Healthy, TrashInv, KeptInv, InTrash, Evicting
  <2>6. KnownInv' /\ SameInv'
    BY <2>1 DEF Healthy, KnownInv, SameInv, InPlace, Evicting
  <2>7. QED
    BY <2>4, <2>5, <2>6 DEF Healthy
<1>3. CASE EvictDeletes
  <2> DEFINE t0 == [root |-> op.victim, members |-> op.moved]
  <2>1. /\ UNCHANGED <<dirs, lin, home, tombs>> /\ Erase(op.moved)
        /\ trash' = trash \ {t0} /\ Evicting /\ op.pc = "delete"
        /\ mem' = [s \in Sessions |-> IF mem[s].root = op.victim THEN NoRec ELSE mem[s]]
    BY <1>3 DEF EvictDeletes, model, Evicting
  <2>2. /\ op'.pc = op.back /\ op'.s = op.s /\ op'.root = op.root
        /\ op.back \in {"room", "retain"}
        /\ op.victim \in Sessions /\ op.moved \subseteq Sessions
    BY <1>3, <2>1 DEF EvictDeletes, StoreInv, StoreType, OpInv, Ops
  <2>3. trash = {t0} /\ trash' = {} /\ op.victim \notin dirs /\ op.victim \in tombs
    <3>1. trash = {t0} /\ t0 \in trash /\ t0.root = op.victim
      BY <2>1 DEF Healthy, TrashInv
    <3>2. trash' = {}
      BY <2>1, <3>1, Zenon
    <3>3. t0.root \notin dirs /\ op.victim \in tombs
      BY <2>1, <3>1 DEF Healthy, TrashInv, TombInv
    <3>4. QED
      BY <3>1, <3>2, <3>3
  <2>4. t0.root = op.victim /\ t0.members = op.moved
    OBVIOUS
  <2> HIDE DEF t0
  <2>5. \A s \in op.moved : s \in Sessions /\ home[s] = op.victim /\ mem[s].root = op.victim
    <3>1. ASSUME NEW s \in op.moved
          PROVE  s \in Sessions /\ home[s] = op.victim /\ mem[s].root # None
      BY <2>1, <2>2, <2>3, <2>4 DEF StoreInv, PlaceInv, Healthy, KnownInv
    <3>2. QED
      BY <2>2, <3>1, StoreAssumption DEF StoreInv, RecordInv
  <2>6. \A s \in Sessions : InPlace(s) => home[s] # op.victim
    BY <2>2, <2>3 DEF StoreInv, PlaceInv, InPlace
  <2>7. /\ \A s \in Sessions : mem[s].root # op.victim => mem'[s] = mem[s]
        /\ \A s \in Sessions : mem[s].root = op.victim => mem'[s].root = None
    BY <2>1 DEF NoRec
  <2>8. TrashInv'
    BY <2>2, <2>3 DEF TrashInv, Evicting
  <2>9. KeptInv'
    BY <2>1, <2>3, <2>4, <2>5 DEF Healthy, KeptInv, InTrash
  <2>10. TombInv'
    BY <2>1, <2>2, <2>3, <2>7, StoreAssumption DEF Healthy, TombInv, Evicting, StoreInv,
       StoreType
  <2>11. KnownInv'
    <3>1. \A s \in Sessions : InPlace(s)' <=> InPlace(s)
      BY <2>1 DEF InPlace
    <3>2. \A s \in Sessions : InPlace(s) => mem[s].root = home[s]
      BY <2>1, StoreAssumption DEF Healthy, KnownInv, InPlace, StoreInv, RecordInv
    <3>3. ASSUME NEW s \in Sessions
          PROVE  mem'[s].root # None <=> InPlace(s)
      <4>1. CASE mem[s].root = op.victim
        BY <2>6, <2>7, <3>2, <4>1
      <4>2. CASE mem[s].root # op.victim
        BY <2>1, <2>5, <2>7, <4>2 DEF Healthy, KnownInv
      <4>3. QED
        BY <4>1, <4>2
    <3>4. QED
      BY <2>2, <3>1, <3>3 DEF KnownInv, Evicting
  <2>12. SameInv'
    <3>1. ASSUME NEW s \in Sessions, mem'[s].root # None
          PROVE  mem'[s] = mem[s] /\ rec'[s] = rec[s]
      BY <2>1, <2>5, <2>7, <3>1, ErasedFacts
    <3>2. QED
      BY <2>1, <3>1 DEF Healthy, SameInv
  <2>13. QED
    BY <2>8, <2>9, <2>10, <2>11, <2>12 DEF Healthy
<1>4. QED
  BY <1>1, <1>2, <1>3 DEF EvictNext

LEMMA SessionHealthy ==
    ASSUME StoreInv, Healthy, faults = 0, faults' = 0,
           (\E s \in Sessions : SessionNext(s)) \/ SetProviderSessionId \/ Finalize
    PROVE  Healthy'
<1>1. ASSUME NEW s \in Sessions, NEW m, WriteRecord(s, m), UNCHANGED <<OneFile, home>>,
             op.pc \in CalmSteps, op'.pc \in CalmSteps, m \in Records, m.root = mem[s].root,
             mem[s].root # None
      PROVE  Healthy'
  <2>1. rec' = [rec EXCEPT ![s] = m] /\ Written(s, m)
    BY <1>1 DEF WriteRecord, Fault, Written
  <2>2. \A u \in Sessions : mem'[u].root = mem[u].root
    BY <1>1, <2>1, WrittenFacts DEF StoreInv
  <2>3. SameInv'
    BY <1>1, <2>1, SameWhenWritten DEF CalmSteps
  <2>4. QED
    BY <1>1, <2>2, <2>3, CalmHealthy DEF OneFile
<1>2. ASSUME NEW s \in Sessions, LaunchFails(s) \/ MarkAcceptedWork(s)
      PROVE  Healthy'
  <2>1. /\ op.pc = "up" /\ UNCHANGED <<OneFile, op, home>> /\ s \in running
        /\ \/ WriteRecord(s, [mem[s] EXCEPT !.status = "end"])
           \/ WriteRecord(s, [mem[s] EXCEPT !.accepted = TRUE])
    BY <1>2 DEF LaunchFails, MarkAcceptedWork
  <2>2. mem[s] \in Records /\ mem[s].root # None
    BY <2>1 DEF StoreInv, StoreType, RecordInv, NoRec
  <2>3. /\ [mem[s] EXCEPT !.status = "end"] \in Records /\ [mem[s] EXCEPT !.status = "end"].root = mem[s].root
        /\ [mem[s] EXCEPT !.accepted = TRUE] \in Records /\ [mem[s] EXCEPT !.accepted = TRUE].root = mem[s].root
    BY <2>2 DEF Records
  <2>4. QED
    BY <1>1, <2>1, <2>2, <2>3 DEF CalmSteps
<1>3. CASE SetProviderSessionId \/ Finalize
  <2> DEFINE s == op.s
  <2>1. /\ op.pc \in {"provider", "finalize"} /\ UNCHANGED <<OneFile, home>> /\ op'.pc = "up"
        /\ \/ WriteRecord(s, [mem[s] EXCEPT !.status = "end"])
           \/ WriteRecord(s, [mem[s] EXCEPT !.resumable = TRUE])
    BY <1>3 DEF SetProviderSessionId, Finalize, At
  <2>2. s \in Sessions /\ mem[s] \in Records /\ mem[s].root # None
    BY <2>1 DEF StoreInv, StoreType, OpInv, RecordInv, NoRec
  <2>3. /\ [mem[s] EXCEPT !.status = "end"] \in Records /\ [mem[s] EXCEPT !.status = "end"].root = mem[s].root
        /\ [mem[s] EXCEPT !.resumable = TRUE] \in Records /\ [mem[s] EXCEPT !.resumable = TRUE].root = mem[s].root
    BY <2>2 DEF Records
  <2> HIDE DEF s
  <2>4. QED
    BY <1>1, <2>1, <2>2, <2>3 DEF CalmSteps
<1>4. ASSUME NEW s \in Sessions, NEW kind, NEW next \in {"up", "provider", "finalize"}, PersistEvent(s, kind, next)
      PROVE  Healthy'
  <2> DEFINE m == [mem[s] EXCEPT !.count = @ + 1]
  <2>1. /\ op.pc = "up" /\ UNCHANGED <<dirs, lin, trash, tombs, home>> /\ s \in running
        /\ mem' = [mem EXCEPT ![s] = m] /\ rec' \in {rec, [rec EXCEPT ![s] = m]} /\ op'.pc \in CalmSteps
    BY <1>4 DEF PersistEvent, Doing, At, CalmSteps
  <2>2. mem[s] \in Records /\ mem[s].root # None /\ mem[s].count + 1 \in Nat
    BY <2>1 DEF StoreInv, StoreType, RecordInv, NoRec, Records
  <2>3. m \in Records /\ m.root = mem[s].root /\ \E n : m = [mem[s] EXCEPT !.count = n]
    BY <2>2 DEF Records
  <2> HIDE DEF m
  <2>4. Written(s, m)
    BY <2>1 DEF Written
  <2>5. \A u \in Sessions : mem'[u].root = mem[u].root
    BY <2>3, <2>4, WrittenFacts DEF StoreInv
  <2>6. SameInv'
    BY <2>1, <2>2, <2>3, <2>4, SameWhenWritten
  <2>7. QED
    BY <2>1, <2>5, <2>6, CalmHealthy DEF CalmSteps
<1>5. QED
  BY <1>2, <1>3, <1>4 DEF SessionNext

LEMMA StartupHealthy ==
    ASSUME StoreInv, Healthy, StartupNext, faults = 0
    PROVE  Healthy'
<1>1. CASE Restart
  BY <1>1 DEF Restart, At, disk, model, Healthy, TrashInv, KeptInv, TombInv, KnownInv,
     SameInv,
     InTrash, InPlace, Evicting
<1>2. ASSUME NEW t \in trash, RecoverEviction(t)
      PROVE  Healthy'
  <2>1. /\ UNCHANGED <<tombs, mem, op, home>> /\ trash' = trash \ {t} /\ op.pc = "trash"
        /\ t.root \in Sessions /\ t.members \subseteq Sessions
    BY <1>2 DEF RecoverEviction, model, StoreInv, StoreType
  <2>2. trash' = {} /\ (\A u \in trash : u = t) /\ t.root \notin dirs
    BY <2>1 DEF Healthy, TrashInv
  <2>3. lin[t.root] = {}
    BY <2>1, <2>2 DEF StoreInv, PlaceInv
  <2>4. \A s \in t.members : home[s] = t.root
    BY DEF StoreInv, PlaceInv
  <2>5. \A s \in Sessions : mem[s].root = None
    BY <2>1 DEF StoreInv, BootInv, NoRec
  <2>6. KnownInv' /\ SameInv'
    BY <2>1, <2>5 DEF KnownInv, SameInv, Evicting
  <2>7. CASE t.root \in tombs /\ UNCHANGED <<dirs, lin>>
    <3>1. TrashInv' /\ TombInv'
      BY <2>1, <2>2, <2>7 DEF Healthy, TrashInv, TombInv, Evicting
    <3>2. KeptInv'
      BY <2>1, <2>2, <2>4, <2>7 DEF Healthy, KeptInv, InTrash
    <3>3. QED
      BY <2>6, <3>1, <3>2 DEF Healthy
  <2>8. CASE /\ t.root \notin tombs
             /\ dirs' = dirs \union {t.root} /\ lin' = [lin EXCEPT ![t.root] = t.members]
    <3>1. lin'[t.root] = t.members /\ \A q \in Sessions \ {t.root} : lin'[q] = lin[q]
      BY <2>1, <2>8 DEF StoreInv, StoreType
    <3>2. TrashInv'
      BY <2>1, <2>2 DEF TrashInv, Evicting
    <3>3. TombInv'
      BY <2>1, <2>8, <3>1 DEF Healthy, TombInv, Evicting, StoreInv, StoreType
    <3>4. KeptInv'
      BY <2>1, <2>2, <2>3, <2>4, <3>1 DEF Healthy, KeptInv, InTrash, StoreInv, StoreType
    <3>5. QED
      BY <2>6, <3>2, <3>3, <3>4 DEF Healthy
  <2>9. QED
    BY <1>2, <2>2, <2>7, <2>8 DEF RecoverEviction
<1>3. CASE LoadBegins
  <2>1. /\ UNCHANGED <<dirs, lin, trash, tombs, rec, mem, home>> /\ op.pc = "trash" /\ trash = {}
        /\ op'.pc = "load" /\ op'.todo = dirs
    BY <1>3 DEF LoadBegins, At, disk, model
  <2>2. \A s \in Sessions : mem[s].root = None
    BY <2>1 DEF StoreInv, BootInv, NoRec
  <2>3. \A s \in Sessions : InPlace(s) => home[s] \in dirs
    BY DEF StoreInv, StoreType, PlaceInv, InPlace
  <2>4. TrashInv' /\ KeptInv' /\ TombInv' /\ SameInv'
    BY <2>1, <2>2 DEF Healthy, TrashInv, KeptInv, TombInv, SameInv, InTrash, Evicting
  <2>5. KnownInv'
    BY <2>1, <2>2, <2>3 DEF KnownInv, InPlace, Evicting
  <2>6. QED
    BY <2>4, <2>5 DEF Healthy
<1>4. ASSUME NEW r \in Sessions, LoadLineage(r)
      PROVE  Healthy'
  <2>1. /\ UNCHANGED <<lin, rec, trash, tombs, home>> /\ op.pc = "load" /\ op \in Ops /\ r \in op.todo
        /\ op' = [op EXCEPT !.todo = op.todo \ {r}] /\ dirs' \subseteq dirs
    BY <1>4 DEF LoadLineage, model, StoreInv, StoreType
  <2>2. op'.pc = "load" /\ op'.todo = op.todo \ {r}
    BY <2>1 DEF Ops
  <2>3. \A s \in lin[r] : s \in Sessions /\ home[s] = r /\ rec[s].root = r /\ r # None /\ rec[s] \in Records
    BY StoreAssumption DEF StoreInv, StoreType, PlaceInv
  <2>4. /\ \A s \in lin[r] : /\ mem'[s].root = rec[s].root /\ mem'[s].status = rec[s].status
                             /\ mem'[s].accepted = rec[s].accepted /\ mem'[s].parent = rec[s].parent
                             /\ mem'[s].resumable = rec[s].resumable
        /\ \A s \in Sessions \ lin[r] : mem'[s] = mem[s]
    BY <1>4, <2>3 DEF LoadLineage, Records
  <2>5. TrashInv' /\ KeptInv'
    BY <2>1, <2>2 DEF Healthy, TrashInv, KeptInv, InTrash, Evicting
  <2>6. TombInv'
    BY <2>1, <2>2, <2>3, <2>4 DEF Healthy, TombInv, Evicting
  <2>7. KnownInv'
    <3>1. ASSUME NEW s \in Sessions
          PROVE  mem'[s].root # None <=> InPlace(s) /\ home[s] \notin op.todo \ {r}
      <4>1. CASE s \in lin[r]
        BY <2>3, <2>4, <4>1 DEF InPlace
      <4>2. CASE s \notin lin[r]
        BY <2>1, <2>4, <4>2 DEF Healthy, KnownInv, InPlace, Evicting
      <4>3. QED
        BY <4>1, <4>2
    <3>2. QED
      BY <2>1, <2>2, <3>1 DEF KnownInv, InPlace, Evicting
  <2>8. SameInv'
    BY <2>1, <2>2, <2>4 DEF Healthy, SameInv
  <2>9. QED
    BY <2>5, <2>6, <2>7, <2>8 DEF Healthy
<1>5. ASSUME NEW s \in Sessions, RecoverAppends(s)
      PROVE  Healthy'
  BY <1>5, CalmHealthy, SameWhenUnchanged DEF RecoverAppends, Doing, At, CalmSteps, model
<1>6. CASE RecoverBegins \/ RetainBegins \/ StartupEnds
  BY <1>6, CalmHealthy, SameWhenUnchanged DEF RecoverBegins, RetainBegins, StartupEnds, At,
     CalmSteps, disk, model
<1>7. ASSUME NEW s \in Sessions, NEW m \in Records, mem' = [mem EXCEPT ![s] = m],
             rec' = [rec EXCEPT ![s] = m], UNCHANGED <<OneFile, home>>, mem[s].root # None,
             m.root = mem[s].root, op.pc \in CalmSteps, op'.pc \in CalmSteps
      PROVE  Healthy'
  <2>1. Written(s, m)
    BY <1>7 DEF Written
  <2>2. \A u \in Sessions : mem'[u].root = mem[u].root
    BY <1>7, <2>1, WrittenFacts DEF StoreInv
  <2>3. SameInv'
    BY <1>7, <2>1, SameWhenWritten DEF CalmSteps
  <2>4. QED
    BY <1>7, <2>2, <2>3, CalmHealthy DEF OneFile
<1>8. ASSUME NEW s \in Sessions, RecoverFromLog(s)
      PROVE  Healthy'
  <2>1. PICK k \in LogTerminals(log[s]) :
           mem' = [mem EXCEPT ![s].status = k] /\ rec' = [rec EXCEPT ![s] = mem'[s]]
    BY <1>8 DEF RecoverFromLog
  <2>2. /\ mem \in [Sessions -> Records] /\ mem[s].root # None
        /\ k \in {"end", "interrupted"}
        /\ op.pc = "recover" /\ UNCHANGED <<OneFile, op, home>>
    BY <1>8 DEF StoreInv, StoreType, RecordInv, NoRec, RecoverFromLog, LogTerminals,
       Terminal, model
  <2>3. PICK m \in Records : m = [mem[s] EXCEPT !.status = k] /\ m.root = mem[s].root
    <3>1. [mem[s] EXCEPT !.status = k] \in Records /\ [mem[s] EXCEPT !.status = k].root = mem[s].root
      BY <2>2 DEF Records
    <3>2. QED
      BY <3>1
  <2>4. mem' = [mem EXCEPT ![s] = m] /\ rec' = [rec EXCEPT ![s] = m]
    BY <2>1, <2>2, <2>3
  <2>5. QED
    BY <1>7, <2>2, <2>3, <2>4 DEF CalmSteps
<1>9. CASE RecoverCloses
  <2> DEFINE s == op.s
  <2>1. /\ s \in Sessions /\ mem \in [Sessions -> Records] /\ mem[s].status = "starting"
        /\ op.pc = "close" /\ op'.pc = "recover" /\ UNCHANGED <<OneFile, home>>
    BY <1>9 DEF StoreInv, StoreType, OpInv, RecoverCloses, At, model
  <2>2. mem[s].root # None /\ mem[s].count + 1 \in Nat
    BY <2>1 DEF StoreInv, RecordInv, NoRec, Records
  <2>3. PICK m \in Records : /\ m = [mem[s] EXCEPT !.count = @ + 1, !.status = "interrupted"]
                             /\ m.root = mem[s].root
    <3> DEFINE m == [mem[s] EXCEPT !.count = @ + 1, !.status = "interrupted"]
    <3>1. m \in Records /\ m.root = mem[s].root
      BY <2>1, <2>2 DEF Records
    <3>2. QED
      BY <3>1
  <2>4. mem' = [mem EXCEPT ![s] = m] /\ rec' = [rec EXCEPT ![s] = m]
    BY <1>9, <2>1, <2>3 DEF RecoverCloses
  <2> HIDE DEF s
  <2>5. QED
    BY <1>7, <2>1, <2>2, <2>3, <2>4 DEF CalmSteps
<1>10. QED
  BY <1>1, <1>2, <1>3, <1>4, <1>5, <1>6, <1>8, <1>9 DEF StartupNext

LEMMA CrashHealthy ==
    ASSUME StoreInv, Healthy, Crash
    PROVE  Healthy'
<1>1. /\ UNCHANGED <<dirs, lin, rec, trash, tombs, home>>
      /\ mem' = [s \in Sessions |-> NoRec] /\ op'.pc = "down"
  BY DEF Crash, At
<1>2. \A s \in Sessions : mem'[s].root = None
  BY <1>1 DEF NoRec
<1>3. TrashInv' /\ KeptInv'
  BY <1>1 DEF Healthy, TrashInv, KeptInv, InTrash, Evicting
<1>4. TombInv' /\ KnownInv' /\ SameInv'
  BY <1>1, <1>2, StoreAssumption DEF Healthy, TombInv, KnownInv, SameInv, Evicting,
     StoreInv, StoreType
<1>5. QED
  BY <1>3, <1>4 DEF Healthy

(* A step that keeps faults at 0 is a step in which nothing fails. *)
LEMMA FaultsAreCounted ==
    ASSUME [Next]_vars
    PROVE  faults' \in {faults, faults + 1}
<1>1. CASE CreateNext
  BY <1>1 DEF CreateNext, CreateBegins, CreateRefused, CreateRegisters, CreateWrites,
     NoFault, Fault, model
<1>2. CASE EvictNext \/ EvictFails
  BY <1>2 DEF EvictNext, EvictRenames, EvictCommits, EvictDeletes, EvictFails, Fault, model
<1>3. ASSUME NEW s \in Sessions, SessionNext(s)
      PROVE  faults' \in {faults, faults + 1}
  BY <1>3 DEF SessionNext, LaunchFails, MarkAcceptedWork, PersistEvent, WriteRecord,
     NoFault, Fault
<1>4. CASE SetProviderSessionId \/ Finalize
  BY <1>4 DEF SetProviderSessionId, Finalize, WriteRecord, NoFault, Fault
<1>5. CASE StartupNext
  BY <1>5 DEF StartupNext, Restart, RecoverEviction, LoadBegins, LoadLineage,
     RecoverBegins, RecoverFromLog,
     RecoverAppends, RecoverCloses, RetainBegins, StartupEnds, model
<1>6. CASE Crash \/ UNCHANGED vars
  BY <1>6 DEF Crash, vars, model
<1>7. QED
  BY <1>1, <1>2, <1>3, <1>4, <1>5, <1>6 DEF Next

LEMMA HealthyStays == Spec => []HealthyInv
<1>1. ASSUME Init
      PROVE  HealthyInv
  <2>1. /\ dirs = {} /\ lin = [r \in Sessions |-> {}] /\ trash = {} /\ tombs = {}
        /\ mem = [s \in Sessions |-> NoRec] /\ op.pc = "up" /\ home = [s \in Sessions |-> None]
    BY <1>1 DEF Init, At
  <2>2. \A s \in Sessions : mem[s].root = None /\ home[s] = None
    BY <2>1 DEF NoRec
  <2>3. TrashInv /\ KeptInv /\ KnownInv /\ SameInv
    BY <2>1, <2>2 DEF TrashInv, KeptInv, KnownInv, SameInv, InPlace, Evicting
  <2>4. TombInv
    BY <2>1, <2>2 DEF TombInv, Evicting
  <2>5. QED
    BY <2>3, <2>4 DEF HealthyInv, Healthy
<1>2. ASSUME StoreInv, HealthyInv, [Next]_vars
      PROVE  HealthyInv'
  <2> SUFFICES ASSUME faults' = 0
               PROVE  Healthy'
    BY DEF HealthyInv
  <2>1. faults \in Nat
    BY <1>2 DEF StoreInv, StoreType
  <2>2. faults = 0 /\ Healthy
    BY <1>2, <2>1, FaultsAreCounted DEF HealthyInv
  <2>3. CASE EvictFails
    BY <2>2, <2>3 DEF EvictFails, Fault
  <2>4. CASE UNCHANGED vars
    BY <2>2, <2>4 DEF vars, disk, model, Healthy, TrashInv, KeptInv, TombInv, KnownInv,
       SameInv,
       InTrash, InPlace, Evicting
  <2>5. QED
    BY <1>2, <2>2, <2>3, <2>4, CreateHealthy, EvictHealthy, SessionHealthy, StartupHealthy,
       CrashHealthy DEF Next
<1>3. QED
  BY <1>1, <1>2, StoreStays, PTL DEF Spec

(* An eviction without its tombstone loses no session: #evictLineage and    *)
(* #recoverInterruptedEvictions, crashes between any two of their steps.    *)
THEOREM NothingIsEverLost == Spec => []NothingIsLost
<1>1. HealthyInv => NothingIsLost
  BY DEF HealthyInv, Healthy, KeptInv, NothingIsLost
<1>2. QED
  BY <1>1, HealthyStays, PTL

(* And one with its tombstone is not undone by a later daemon.              *)
THEOREM EvictedAlwaysStaysGone == Spec => []EvictedStaysGone
<1>1. HealthyInv => EvictedStaysGone
  BY DEF HealthyInv, Healthy, TombInv, EvictedStaysGone, Known
<1>2. QED
  BY <1>1, HealthyStays, PTL

(* Between two operations the records in memory are the ones on disk, up to *)
(* the count of events, which is not written for each of them.              *)
THEOREM MemoryIsAlwaysOnDisk == Spec => []MemoryIsOnDisk
<1>1. ASSUME StoreInv, HealthyInv
      PROVE  MemoryIsOnDisk
  <2> SUFFICES ASSUME faults = 0, op.pc = "up"
               PROVE  /\ Known = UNION {lin[r] : r \in dirs}
                      /\ \A s \in Known : [rec[s] EXCEPT !.count = mem[s].count] = mem[s]
    BY DEF MemoryIsOnDisk
  <2>1. Healthy
    BY <1>1 DEF HealthyInv
  <2>2. Known = {s \in Sessions : mem[s].root # None}
    <3>1. \A s \in Sessions : mem[s] # NoRec <=> mem[s].root # None
      <4>1. NoRec.root = None
        BY DEF NoRec
      <4>2. QED
        BY <1>1, <4>1 DEF StoreInv, RecordInv
    <3>2. QED
      BY <3>1 DEF Known
  <2>3. Known = {s \in Sessions : InPlace(s)}
    BY <2>1, <2>2 DEF Healthy, KnownInv, Evicting
  <2>4. {s \in Sessions : InPlace(s)} = UNION {lin[r] : r \in dirs}
    <3>1. ASSUME NEW s \in Sessions, InPlace(s)
          PROVE  s \in UNION {lin[r] : r \in dirs}
      BY <1>1, <3>1 DEF InPlace, StoreInv, StoreType, PlaceInv
    <3>2. ASSUME NEW r \in dirs, NEW s \in lin[r]
          PROVE  s \in Sessions /\ InPlace(s)
      BY <1>1, StoreAssumption DEF InPlace, StoreInv, StoreType, PlaceInv
    <3>3. QED
      BY <3>1, <3>2
  <2>5. ASSUME NEW s \in Known
        PROVE  [rec[s] EXCEPT !.count = mem[s].count] = mem[s]
    <3>1. s \in Sessions /\ rec[s] \in Records /\ mem[s] \in Records
      BY <1>1 DEF Known, StoreInv, StoreType
    <3>2. /\ rec[s].root = mem[s].root /\ rec[s].parent = mem[s].parent /\ rec[s].status = mem[s].status
          /\ rec[s].accepted = mem[s].accepted /\ rec[s].resumable = mem[s].resumable
      BY <2>1, <2>2, <3>1 DEF Healthy, SameInv
    <3>3. QED
      BY <3>1, <3>2 DEF Records
  <2>6. QED
    BY <2>3, <2>4, <2>5
<1>2. QED
  BY <1>1, StoreStays, HealthyStays, PTL

=============================================================================
