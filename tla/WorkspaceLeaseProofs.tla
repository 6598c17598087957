------------------------ MODULE WorkspaceLeaseProofs ------------------------
(***************************************************************************)
(* The lease manager for any number of calls and workspaces and any mix of *)
(* lease modes.  The two indexes are two pictures of the same leases; what *)
(* keeps them together is that an object in the map records leases of its  *)
(* own workspace only, and that whoever waits in a clean-tree check is a   *)
(* reader, so that no workspace without readers is touched when it wakes.  *)
(***************************************************************************)
EXTENDS WorkspaceLease, TLAPS

(* A call that has not run has not created its object. *)
FreshObjects ==
    \A c \in Calls : state[c] = "idle" =>
        /\ writer[c] = None
        /\ readers[c] = {}
        /\ \A w \in Workspaces : byWorkspace[w] # c
        /\ \A d \in Calls : captured[d] # c

(* No object serves two workspaces. *)
OwnObject ==
    \A v, w \in Workspaces :
        byWorkspace[v] = byWorkspace[w] /\ byWorkspace[v] # None => v = w

(* The two fields of an object record what they are named for. *)
FieldsByMode ==
    \A s \in Calls :
        /\ writer[s] # None => request[writer[s]].mode = "write"
        /\ \A d \in readers[s] : request[d].mode = "read"

(* An object in the map records outstanding leases of its workspace only. *)
MapIsHonest ==
    \A w \in Workspaces : byWorkspace[w] # None =>
        /\ writer[byWorkspace[w]] # None =>
              /\ writer[byWorkspace[w]] \in byLeaseId
              /\ request[writer[byWorkspace[w]]].workspace = w
        /\ \A d \in readers[byWorkspace[w]] :
              d \in byLeaseId /\ request[d].workspace = w

(* Whoever waits is a reader, and its object, where it is still in the map, *)
(* is that of its workspace.                                                *)
Waiting ==
    \A c \in Calls : state[c] = "checking" =>
        /\ captured[c] \in Calls
        /\ request[c].mode = "read"
        /\ \A w \in Workspaces : byWorkspace[w] = captured[c] => w = request[c].workspace

(* Without readers, the object in the map is the one that records the       *)
(* workspace's one holder.                                                  *)
WriteOnlyExact ==
    /\ \A w \in Workspaces : WriteOnly(w) /\ byWorkspace[w] # None =>
          writer[byWorkspace[w]] # None
    /\ \A c \in byLeaseId : WriteOnly(request[c].workspace) =>
          /\ byWorkspace[request[c].workspace] # None
          /\ writer[byWorkspace[request[c].workspace]] = c

(* The inductive invariant. *)
LeaseInv ==
    /\ TypeOK
    /\ byLeaseId = {c \in Calls : state[c] = "held"}
    /\ FreshObjects
    /\ OwnObject
    /\ FieldsByMode
    /\ MapIsHonest
    /\ Waiting
    /\ WriteOnlyExact

LEMMA LeaseInvInit == Init => LeaseInv
  BY NoneAssumption
  DEF Init, LeaseInv, TypeOK, Requests, States, FreshObjects, OwnObject, FieldsByMode,
      MapIsHonest, Waiting, WriteOnlyExact

(* What an idle call finds: the object of its workspace, or, when there is  *)
(* none, a new one that records nobody.                                     *)
LEMMA FoundSet ==
    ASSUME LeaseInv, NEW c \in Calls, state[c] = "idle"
    PROVE  /\ SetFor(c) \in Calls
           /\ request[c].workspace \in Workspaces
           /\ byWorkspace[request[c].workspace] # None =>
                 SetFor(c) = byWorkspace[request[c].workspace]
           /\ byWorkspace[request[c].workspace] = None =>
                 SetFor(c) = c /\ writer[c] = None /\ readers[c] = {}
  BY NoneAssumption DEF LeaseInv, TypeOK, Requests, FreshObjects, SetFor

(* A call that is refused or suspended has found an object in the map, so   *)
(* that the map does not change.                                            *)
LEMMA MapKept ==
    ASSUME LeaseInv, NEW c \in Calls, state[c] = "idle",
           writer[SetFor(c)] # None \/ readers[SetFor(c)] # {},
           byWorkspace' = [byWorkspace EXCEPT ![request[c].workspace] = SetFor(c)]
    PROVE  byWorkspace[request[c].workspace] = SetFor(c) /\ byWorkspace' = byWorkspace
<1>1. byWorkspace[request[c].workspace] = SetFor(c)
  BY FoundSet
<1>2. byWorkspace \in [Workspaces -> Calls \union {None}]
  BY DEF LeaseInv, TypeOK
<1>3. QED
  BY <1>1, <1>2, FoundSet

LEMMA RefusedKeeps ==
    ASSUME LeaseInv, NEW c \in Calls, AcquireRefused(c)
    PROVE  LeaseInv'
<1>1. byWorkspace' = byWorkspace
  BY MapKept DEF AcquireRefused, Conflict
<1>2. QED
  BY <1>1
  DEF AcquireRefused, LeaseInv, TypeOK, Requests, States, FreshObjects, OwnObject,
      FieldsByMode, MapIsHonest, Waiting, WriteOnlyExact, WriteOnly

LEMMA SuspendsKeeps ==
    ASSUME LeaseInv, NEW c \in Calls, AcquireSuspends(c)
    PROVE  LeaseInv'
<1> DEFINE s == SetFor(c)
<1>1. byWorkspace[request[c].workspace] = s /\ byWorkspace' = byWorkspace
  BY MapKept DEF AcquireSuspends, NeedsCleanTree
<1>2. /\ s \in Calls
      /\ request[c].workspace \in Workspaces
      /\ request[c].mode = "read"
      /\ state[c] = "idle"
      /\ state' = [state EXCEPT ![c] = "checking"]
      /\ captured' = [captured EXCEPT ![c] = s]
      /\ UNCHANGED <<writer, readers, byLeaseId, request>>
  BY FoundSet DEF AcquireSuspends, NeedsCleanTree
<1> HIDE DEF s
<1>3. TypeOK' /\ byLeaseId' = {d \in Calls : state'[d] = "held"}
  BY <1>1, <1>2 DEF LeaseInv, TypeOK, Requests, States
<1>4. FreshObjects'
  BY <1>1, <1>2, NoneAssumption DEF LeaseInv, TypeOK, FreshObjects
<1>5. Waiting'
  <2>1. ASSUME NEW d \in Calls, d # c
        PROVE  state'[d] = state[d] /\ captured'[d] = captured[d] /\ request'[d] = request[d]
    BY <1>2, <2>1 DEF LeaseInv, TypeOK
  <2>2. captured'[c] = s /\ request'[c] = request[c]
    BY <1>2 DEF LeaseInv, TypeOK
  <2>3. \A v \in Workspaces : byWorkspace[v] = s => v = request[c].workspace
    BY <1>1, <1>2, NoneAssumption DEF LeaseInv, OwnObject
  <2>4. ASSUME NEW d \in Calls, state'[d] = "checking"
        PROVE  /\ captured'[d] \in Calls
               /\ request'[d].mode = "read"
               /\ \A v \in Workspaces :
                     byWorkspace'[v] = captured'[d] => v = request'[d].workspace
    <3>1. CASE d = c
      BY <1>1, <1>2, <2>2, <2>3, <3>1
    <3>2. CASE d # c
      BY <1>1, <2>1, <2>4, <3>2 DEF LeaseInv, Waiting
    <3>3. QED
      BY <3>1, <3>2
  <2>5. QED
    BY <2>4 DEF Waiting
<1>6. OwnObject' /\ FieldsByMode' /\ MapIsHonest' /\ WriteOnlyExact'
  BY <1>1, <1>2 DEF LeaseInv, OwnObject, FieldsByMode, MapIsHonest, WriteOnlyExact, WriteOnly
<1>7. QED
  BY <1>3, <1>4, <1>5, <1>6 DEF LeaseInv

(* A lease that is taken at once, on the object of the workspace or on a    *)
(* new one: on a workspace without readers it is a new one.                 *)
LEMMA AtOnceKeeps ==
    ASSUME LeaseInv, NEW c \in Calls, AcquireAtOnce(c)
    PROVE  LeaseInv'
<1> DEFINE w == request[c].workspace
           s == SetFor(c)
<1>1. /\ s \in Calls
      /\ w \in Workspaces
      /\ state[c] = "idle"
      /\ c \notin byLeaseId
      /\ writer[s] = None
      /\ byWorkspace[w] # None => s = byWorkspace[w]
      /\ byWorkspace[w] = None => s = c /\ readers[s] = {}
  BY FoundSet DEF AcquireAtOnce, Conflict, LeaseInv
<1>2. /\ byWorkspace' = [byWorkspace EXCEPT ![w] = s]
      /\ writer' = IF request[c].mode = "write" THEN [writer EXCEPT ![s] = c] ELSE writer
      /\ readers' = IF request[c].mode = "read" THEN [readers EXCEPT ![s] = @ \union {c}]
                                             ELSE readers
      /\ byLeaseId' = byLeaseId \union {c}
      /\ state' = [state EXCEPT ![c] = "held"]
      /\ UNCHANGED <<request, captured>>
      /\ request[c].mode = "write" => readers[s] = {}
      /\ request[c].mode \in {"read", "write"}
  BY ModesAssumption DEF AcquireAtOnce, Grant, Conflict, LeaseInv, TypeOK, Requests
<1> HIDE DEF s
<1>3. TypeOK' /\ byLeaseId' = {d \in Calls : state'[d] = "held"}
  BY <1>1, <1>2 DEF LeaseInv, TypeOK, Requests, States
<1>4. \A v \in Workspaces : v # w => byWorkspace[v] # s /\ byWorkspace'[v] = byWorkspace[v]
  BY <1>1, <1>2, NoneAssumption DEF LeaseInv, TypeOK, FreshObjects, OwnObject
<1>5. FreshObjects'
  BY <1>1, <1>2, <1>4, NoneAssumption DEF LeaseInv, TypeOK, FreshObjects
<1>6. OwnObject'
  BY <1>1, <1>2, <1>4 DEF LeaseInv, TypeOK, OwnObject
<1>7. FieldsByMode'
  BY <1>1, <1>2 DEF LeaseInv, TypeOK, FieldsByMode
<1>8. MapIsHonest'
  <2>1. ASSUME NEW v \in Workspaces, v # w, byWorkspace'[v] # None
        PROVE  /\ writer'[byWorkspace'[v]] = writer[byWorkspace[v]]
               /\ readers'[byWorkspace'[v]] = readers[byWorkspace[v]]
    BY <1>1, <1>2, <1>4, <2>1 DEF LeaseInv, TypeOK
  <2>2. /\ byWorkspace'[w] = s
        /\ writer'[s] \in {None, c}
        /\ readers'[s] \subseteq readers[s] \union {c}
    BY <1>1, <1>2 DEF LeaseInv, TypeOK
  <2>3. \A d \in readers[s] : d \in byLeaseId /\ request[d].workspace = w
    BY <1>1 DEF LeaseInv, MapIsHonest
  <2>4. QED
    BY <1>1, <1>2, <1>4, <2>1, <2>2, <2>3 DEF LeaseInv, MapIsHonest
<1>9. Waiting'
  BY <1>1, <1>2, <1>4 DEF LeaseInv, TypeOK, Waiting, FreshObjects
<1>10. WriteOnlyExact'
  <2>1. \A v \in Workspaces : WriteOnly(v)' <=> WriteOnly(v)
    BY <1>2 DEF WriteOnly
  <2>2. WriteOnly(w) => byWorkspace[w] = None /\ s = c /\ request[c].mode = "write"
    BY <1>1 DEF WriteOnly, LeaseInv, WriteOnlyExact
  <2>3. \A d \in byLeaseId : request[d].workspace \in Workspaces /\ d \in Calls
    BY DEF LeaseInv, TypeOK, Requests
  <2>4. \A v \in Workspaces : v # w /\ byWorkspace[v] # None =>
            writer'[byWorkspace'[v]] = writer[byWorkspace[v]]
    BY <1>1, <1>2, <1>4 DEF LeaseInv, TypeOK
  <2>5. WriteOnly(w) => byWorkspace'[w] = c /\ writer'[c] = c
    BY <1>1, <1>2, <2>2 DEF LeaseInv, TypeOK
  <2>6. \A v \in Workspaces : WriteOnly(v) /\ byWorkspace'[v] # None =>
            writer'[byWorkspace'[v]] # None
    BY <1>4, <2>4, <2>5, NoneAssumption DEF LeaseInv, WriteOnlyExact
  <2>7. \A d \in byLeaseId' : WriteOnly(request[d].workspace) =>
            /\ byWorkspace'[request[d].workspace] # None
            /\ writer'[byWorkspace'[request[d].workspace]] = d
    <3> SUFFICES ASSUME NEW d \in byLeaseId', WriteOnly(request[d].workspace)
                 PROVE  /\ byWorkspace'[request[d].workspace] # None
                        /\ writer'[byWorkspace'[request[d].workspace]] = d
      OBVIOUS
    <3>1. CASE d = c
      BY <2>5, <3>1, NoneAssumption
    <3>2. CASE d # c
      <4>1. d \in byLeaseId /\ byWorkspace[request[d].workspace] # None
        BY <1>2, <3>2 DEF LeaseInv, WriteOnlyExact
      <4>2. request[d].workspace # w
        BY <2>2, <4>1
      <4>3. QED
        BY <1>4, <2>3, <2>4, <4>1, <4>2 DEF LeaseInv, WriteOnlyExact
    <3>3. QED
      BY <3>1, <3>2
  <2>8. QED
    BY <1>2, <1>3, <2>1, <2>3, <2>6, <2>7, <1>1 DEF WriteOnlyExact
<1>11. QED
  BY <1>3, <1>5, <1>6, <1>7, <1>8, <1>9, <1>10 DEF LeaseInv

(* The clean-tree check succeeds: only readers are added, to the object of  *)
(* their own workspace or to one that is no longer in the map.              *)
LEMMA CleanKeeps ==
    ASSUME LeaseInv, NEW c \in Calls, CheckClean(c)
    PROVE  LeaseInv'
<1> DEFINE s == captured[c]
<1>1. /\ s \in Calls
      /\ state[c] = "checking"
      /\ request[c].mode = "read"
      /\ \A w \in Workspaces : byWorkspace[w] = s => w = request[c].workspace
      /\ request[c].workspace \in Workspaces
  BY DEF CheckClean, LeaseInv, Waiting, TypeOK, Requests
<1>2. /\ writer' = writer
      /\ readers' = [readers EXCEPT ![s] = @ \union {c}]
      /\ byLeaseId' = byLeaseId \union {c}
      /\ state' = [state EXCEPT ![c] = "held"]
      /\ UNCHANGED <<byWorkspace, request, captured>>
  BY <1>1 DEF CheckClean, Grant
<1> HIDE DEF s
<1>3. TypeOK' /\ byLeaseId' = {d \in Calls : state'[d] = "held"}
  BY <1>1, <1>2 DEF LeaseInv, TypeOK, Requests, States
<1>4. FreshObjects'
  BY <1>1, <1>2 DEF LeaseInv, TypeOK, FreshObjects, s
<1>5. OwnObject' /\ FieldsByMode' /\ Waiting'
  BY <1>1, <1>2 DEF LeaseInv, TypeOK, OwnObject, FieldsByMode, Waiting
<1>6. MapIsHonest'
  BY <1>1, <1>2 DEF LeaseInv, TypeOK, MapIsHonest
<1>7. WriteOnlyExact'
  BY <1>1, <1>2 DEF LeaseInv, TypeOK, WriteOnlyExact, WriteOnly
<1>8. QED
  BY <1>3, <1>4, <1>5, <1>6, <1>7 DEF LeaseInv

(* It fails: the entry that may be dropped is that of a workspace with a    *)
(* reader.                                                                  *)
LEMMA DirtyKeeps ==
    ASSUME LeaseInv, NEW c \in Calls, CheckDirty(c)
    PROVE  LeaseInv'
<1> DEFINE w == request[c].workspace
<1>1. /\ w \in Workspaces
      /\ ~WriteOnly(w)
      /\ state[c] = "checking"
      /\ byWorkspace' \in {byWorkspace, [byWorkspace EXCEPT ![w] = None]}
      /\ state' = [state EXCEPT ![c] = "refused"]
      /\ UNCHANGED <<writer, readers, byLeaseId, request, captured>>
  BY DEF CheckDirty, PruneIfEmpty, LeaseInv, Waiting, TypeOK, Requests, WriteOnly
<1>2. \A v \in Workspaces : byWorkspace'[v] = byWorkspace[v] \/ (v = w /\ byWorkspace'[v] = None)
  BY <1>1 DEF LeaseInv, TypeOK
<1>3. TypeOK' /\ byLeaseId' = {d \in Calls : state'[d] = "held"}
  BY <1>1 DEF LeaseInv, TypeOK, Requests, States
<1>4. FreshObjects' /\ OwnObject' /\ FieldsByMode' /\ MapIsHonest' /\ Waiting'
  BY <1>1, <1>2, NoneAssumption
  DEF LeaseInv, TypeOK, FreshObjects, OwnObject, FieldsByMode, MapIsHonest, Waiting
<1>5. WriteOnlyExact'
  <2>1. \A v : WriteOnly(v)' <=> WriteOnly(v)
    BY <1>1 DEF WriteOnly
  <2>2. \A d \in byLeaseId : request[d].workspace \in Workspaces
    BY DEF LeaseInv, TypeOK, Requests
  <2>3. QED
    BY <1>1, <1>2, <2>1, <2>2 DEF LeaseInv, WriteOnlyExact
<1>6. QED
  BY <1>3, <1>4, <1>5 DEF LeaseInv

LEMMA ReleaseKeeps ==
    ASSUME LeaseInv, NEW c \in Calls, Release(c)
    PROVE  LeaseInv'
<1> DEFINE w == request[c].workspace
           s == byWorkspace[w]
<1>1. /\ w \in Workspaces
      /\ c \in byLeaseId
      /\ state[c] = "held"
      /\ byLeaseId' = byLeaseId \ {c}
      /\ state' = [state EXCEPT ![c] = "released"]
      /\ UNCHANGED <<request, captured>>
  BY DEF Release, LeaseInv, TypeOK, Requests
<1>2. \A v : WriteOnly(v)' <=> WriteOnly(v)
  BY <1>1 DEF WriteOnly
<1>3. CASE s = None
  <2>1. UNCHANGED <<writer, readers, byWorkspace>> /\ ~WriteOnly(w)
    BY <1>1, <1>3, NoneAssumption DEF Release, LeaseInv, WriteOnlyExact
  <2>2. QED
    BY <1>1, <1>2, <1>3, <2>1
    DEF LeaseInv, TypeOK, Requests, States, FreshObjects, OwnObject, FieldsByMode,
        MapIsHonest, Waiting, WriteOnlyExact
<1>4. CASE s # None
  <2>1. /\ s \in Calls
        /\ writer' = [writer EXCEPT ![s] = IF @ = c THEN None ELSE @]
        /\ readers' = [readers EXCEPT ![s] = @ \ {c}]
        /\ byWorkspace' = IF writer'[s] = None /\ readers'[s] = {}
                            THEN [byWorkspace EXCEPT ![w] = None] ELSE byWorkspace
    BY <1>1, <1>4 DEF Release, PruneIfEmpty, LeaseInv, TypeOK
  <2>2. \A v \in Workspaces : v # w => byWorkspace[v] # s /\ byWorkspace'[v] = byWorkspace[v]
    BY <1>1, <1>4, <2>1 DEF LeaseInv, TypeOK, OwnObject
  <2>3. byWorkspace'[w] \in {s, None}
    BY <1>1, <2>1 DEF LeaseInv, TypeOK
  <2> HIDE DEF s
  <2>4. TypeOK' /\ byLeaseId' = {d \in Calls : state'[d] = "held"}
    BY <1>1, <2>1 DEF LeaseInv, TypeOK, Requests, States
  <2>5. FreshObjects'
    BY <1>1, <2>1, <2>2, <2>3, NoneAssumption DEF LeaseInv, TypeOK, FreshObjects, s
  <2>6. OwnObject' /\ FieldsByMode'
    BY <1>1, <2>1, <2>2, <2>3 DEF LeaseInv, TypeOK, OwnObject, FieldsByMode, s
  <2>7. Waiting'
    BY <1>1, <2>1, <2>2, <2>3, NoneAssumption DEF LeaseInv, TypeOK, Waiting, s
  <2>8. MapIsHonest'
    <3>1. ASSUME NEW v \in Workspaces, v # w, byWorkspace[v] # None
          PROVE  /\ writer'[byWorkspace'[v]] = writer[byWorkspace[v]]
                 /\ readers'[byWorkspace'[v]] = readers[byWorkspace[v]]
                 /\ c \notin readers[byWorkspace[v]]
                 /\ c # writer[byWorkspace[v]]
      BY <1>1, <2>1, <2>2, <3>1, NoneAssumption DEF LeaseInv, TypeOK, MapIsHonest
    <3>2. /\ writer'[s] # None => writer'[s] = writer[s] /\ writer'[s] # c
          /\ readers'[s] = readers[s] \ {c}
      BY <2>1 DEF LeaseInv, TypeOK
    <3>3. /\ writer[s] # None => writer[s] \in byLeaseId /\ request[writer[s]].workspace = w
          /\ \A d \in readers[s] : d \in byLeaseId /\ request[d].workspace = w
      BY <1>1, <1>4 DEF LeaseInv, MapIsHonest, s
    <3>4. ASSUME NEW v \in Workspaces, byWorkspace'[v] # None
          PROVE  /\ writer'[byWorkspace'[v]] # None =>
                       /\ writer'[byWorkspace'[v]] \in byLeaseId'
                       /\ request'[writer'[byWorkspace'[v]]].workspace = v
                 /\ \A d \in readers'[byWorkspace'[v]] :
                       d \in byLeaseId' /\ request'[d].workspace = v
      <4>1. CASE v = w
        BY <1>1, <2>3, <3>2, <3>3, <3>4, <4>1
      <4>2. CASE v # w
        <5>1. byWorkspace[v] # None
          BY <2>2, <3>4, <4>2
        <5>2. QED
          BY <1>1, <3>1, <4>2, <5>1 DEF LeaseInv, MapIsHonest
      <4>3. QED
        BY <4>1, <4>2
    <3>5. QED
      BY <3>4 DEF MapIsHonest
  <2>9. WriteOnlyExact'
    <3>1. WriteOnly(w) => writer[s] = c /\ readers[s] = {}
      BY <1>1, <1>4, <2>1 DEF LeaseInv, WriteOnlyExact, MapIsHonest, FieldsByMode, WriteOnly, s, TypeOK
    <3>2. WriteOnly(w) => byWorkspace'[w] = None
      BY <1>1, <2>1, <3>1 DEF LeaseInv, TypeOK
    <3>3. \A v \in Workspaces : v # w /\ byWorkspace[v] # None =>
              writer'[byWorkspace'[v]] = writer[byWorkspace[v]]
      BY <2>1, <2>2 DEF LeaseInv, TypeOK
    <3>4. \A d \in byLeaseId : request[d].workspace \in Workspaces
      BY DEF LeaseInv, TypeOK, Requests
    <3>5. \A d \in byLeaseId : d # c /\ WriteOnly(request[d].workspace) =>
              request[d].workspace # w
      BY <1>1 DEF LeaseInv, WriteOnlyExact
    <3>6. QED
      BY <1>1, <1>2, <2>2, <3>2, <3>3, <3>4, <3>5 DEF LeaseInv, WriteOnlyExact
  <2>10. QED
    BY <2>4, <2>5, <2>6, <2>7, <2>8, <2>9 DEF LeaseInv
<1>5. QED
  BY <1>3, <1>4

LEMMA LeaseInvNext ==
    ASSUME LeaseInv, [Next]_vars
    PROVE  LeaseInv'
<1>1. CASE UNCHANGED vars
  BY <1>1
  DEF vars, LeaseInv, TypeOK, Requests, FreshObjects, OwnObject, FieldsByMode, MapIsHonest,
      Waiting, WriteOnlyExact, WriteOnly
<1>2. QED
  BY <1>1, RefusedKeeps, SuspendsKeeps, AtOnceKeeps, CleanKeeps, DirtyKeeps, ReleaseKeeps
  DEF Next

(* For any number of sessions and workspaces and any mix of lease modes     *)
(* the state of the manager is well typed, and the map never names a lease  *)
(* that was given back.                                                     *)
THEOREM LeasesAreReal == Spec => [](TypeOK /\ NoGhostLease)
<1>1. LeaseInv => TypeOK /\ NoGhostLease
  BY DEF LeaseInv, MapIsHonest, NoGhostLease, LeasesFor, LeasesOn
<1>2. QED
  BY LeaseInvInit, LeaseInvNext, <1>1, PTL DEF Spec

(* On a workspace where nobody asks for a read lease                        *)
(* (workspaceLeaseModeFor), an outstanding lease excludes every other, and  *)
(* the manager's two indexes agree.                                         *)
THEOREM WriteLeasesExclude == Spec => [](WriterExcludesEverything /\ IndexesAgree)
<1>1. ASSUME LeaseInv
      PROVE  WriterExcludesEverything /\ IndexesAgree
  <2>1. WriterExcludesEverything
    BY <1>1 DEF LeaseInv, WriteOnlyExact, WriterExcludesEverything
  <2>2. ASSUME NEW w \in Workspaces, WriteOnly(w)
        PROVE  /\ LeasesFor(w) = LeasesOn(w)
               /\ byWorkspace[w] # None => LeasesOn(w) # {}
    <3>1. byWorkspace[w] # None => readers[byWorkspace[w]] = {}
      BY <1>1, <2>2 DEF LeaseInv, TypeOK, MapIsHonest, FieldsByMode, WriteOnly
    <3>2. QED
      BY <1>1, <2>2, <3>1
      DEF LeaseInv, MapIsHonest, WriteOnlyExact, LeasesFor, LeasesOn
  <2>3. QED
    BY <2>1, <2>2 DEF IndexesAgree
<1>2. QED
  BY LeaseInvInit, LeaseInvNext, <1>1, PTL DEF Spec

(* The holder of a workspace without readers is its outstanding lease. *)
HolderIsLessee ==
    \A w \in Workspaces :
        /\ Holder[w] \in Calls \union {None}
        /\ \A c \in Calls :
              Holder[w] = c <=> WriteOnly(w) /\ c \in byLeaseId /\ request[c].workspace = w

LEMMA HolderOf == LeaseInv => HolderIsLessee
<1> SUFFICES ASSUME LeaseInv, NEW w \in Workspaces
             PROVE  /\ Holder[w] \in Calls \union {None}
                    /\ \A c \in Calls : Holder[w] = c <=>
                          WriteOnly(w) /\ c \in byLeaseId /\ request[c].workspace = w
  BY DEF HolderIsLessee
<1>1. Holder[w] = IF WriteOnly(w) /\ byWorkspace[w] # None
                    THEN writer[byWorkspace[w]] ELSE None
  BY DEF Holder
<1>2. Holder[w] \in Calls \union {None}
  BY <1>1 DEF LeaseInv, TypeOK
<1>3. ASSUME NEW c \in Calls, Holder[w] = c
      PROVE  WriteOnly(w) /\ c \in byLeaseId /\ request[c].workspace = w
  BY <1>1, <1>3, NoneAssumption DEF LeaseInv, MapIsHonest
<1>4. ASSUME NEW c \in Calls, WriteOnly(w), c \in byLeaseId, request[c].workspace = w
      PROVE  Holder[w] = c
  BY <1>1, <1>4 DEF LeaseInv, WriteOnlyExact
<1>5. QED
  BY <1>2, <1>3, <1>4

(* What the map says of the workspaces without readers follows from the     *)
(* index of the leases alone, so a step is a grant, a release or nothing.   *)
LEMMA StepIsExclusive ==
    ASSUME LeaseInv, [Next]_vars, LeaseInv', HolderIsLessee, HolderIsLessee'
    PROVE  [Exclusive!Next]_Holder
<1>1. /\ Holder = [w \in Workspaces |-> Holder[w]]
      /\ Holder' = [w \in Workspaces |-> Holder'[w]]
  BY DEF Holder
<1>2. request' = request /\ \A w : WriteOnly(w)' <=> WriteOnly(w)
  BY DEF Next, vars, AcquireRefused, AcquireSuspends, AcquireAtOnce, CheckClean, CheckDirty,
         Release, WriteOnly
<1>3. ASSUME byLeaseId' = byLeaseId
      PROVE  Holder' = Holder
  <2>1. ASSUME NEW w \in Workspaces
        PROVE  Holder'[w] = Holder[w]
    BY <1>2, <1>3, NoneAssumption DEF HolderIsLessee
  <2>2. QED
    BY <1>1, <2>1
<1>4. ASSUME NEW c \in Calls, byLeaseId' = byLeaseId \union {c}, c \notin byLeaseId
      PROVE  [Exclusive!Next]_Holder
  <2> DEFINE v == request[c].workspace
  <2>1. v \in Workspaces
    BY DEF LeaseInv, TypeOK, Requests
  <2>2. CASE ~WriteOnly(v)
    <3>1. ASSUME NEW w \in Workspaces
          PROVE  Holder'[w] = Holder[w]
      BY <1>2, <1>4, <2>2, NoneAssumption DEF HolderIsLessee
    <3>2. QED
      BY <1>1, <3>1
  <2>3. CASE WriteOnly(v)
    <3>1. Holder'[v] = c
      BY <1>2, <1>4, <2>1, <2>3 DEF HolderIsLessee
    <3>2. Holder[v] = None
      BY <1>2, <1>4, <2>1, <2>3, <3>1 DEF HolderIsLessee
    <3>3. ASSUME NEW w \in Workspaces, w # v
          PROVE  Holder'[w] = Holder[w]
      BY <1>2, <1>4, <3>3, NoneAssumption DEF HolderIsLessee
    <3>4. Holder' = [Holder EXCEPT ![v] = c]
      BY <1>1, <2>1, <3>1, <3>3
    <3>5. QED
      BY <2>1, <3>2, <3>4 DEF Exclusive!Next, Exclusive!Acquire
  <2>4. QED
    BY <2>2, <2>3
<1>5. ASSUME NEW c \in Calls, byLeaseId' = byLeaseId \ {c}
      PROVE  [Exclusive!Next]_Holder
  <2>1. ASSUME NEW w \in Workspaces
        PROVE  Holder'[w] = IF Holder[w] = c THEN None ELSE Holder[w]
    BY <1>2, <1>5, NoneAssumption DEF HolderIsLessee
  <2>2. Holder' = [w \in Workspaces |-> IF Holder[w] = c THEN None ELSE Holder[w]]
    BY <1>1, <2>1
  <2>3. QED
    BY <2>2 DEF Exclusive!Next, Exclusive!ReleaseAll
<1>6. \/ byLeaseId' = byLeaseId
      \/ \E c \in Calls : byLeaseId' = byLeaseId \union {c} /\ c \notin byLeaseId
      \/ \E c \in Calls : byLeaseId' = byLeaseId \ {c}
  BY DEF Next, vars, AcquireRefused, AcquireSuspends, AcquireAtOnce, CheckClean, CheckDirty,
         Release, Grant, LeaseInv
<1>7. QED
  BY <1>3, <1>4, <1>5, <1>6

(* For any number of sessions and workspaces the manager, on a workspace    *)
(* nobody asks a read lease of, implements an exclusive lease.              *)
THEOREM WriteLeasesImplementExclusiveLease == Spec => ImplementsExclusiveLease
<1>1. Init => Exclusive!Init
  BY DEF Init, Exclusive!Init, Holder
<1>2. LeaseInv' => HolderIsLessee'
  BY HolderOf, PTL
<1>3. LeaseInv /\ LeaseInv' /\ [Next]_vars => [Exclusive!Next]_Holder
  BY <1>2, HolderOf, StepIsExclusive
<1>4. QED
  BY LeaseInvInit, LeaseInvNext, <1>1, <1>3, PTL
  DEF Spec, ImplementsExclusiveLease, Exclusive!Spec
=============================================================================
