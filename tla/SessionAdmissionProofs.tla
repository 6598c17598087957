----------------------- MODULE SessionAdmissionProofs -----------------------
(***************************************************************************)
(* The safety of admission for any number of requests, workspaces,         *)
(* providers and restarts.                                                 *)
(***************************************************************************)
EXTENDS SessionAdmission, FiniteSetTheorems, TLAPS

USE DEF RouteFrame, ProcFrame, GrantFrame, RevokeFrame,
        requestVars, procVars, admission, limiterVars, grantVars, revokeVars,
        trustVars, auditVars, To, GrantTo, RevokeTo

-----------------------------------------------------------------------------
(* The limiter *)

(* Who holds a slot of provider p, and who holds any. *)
Slots(h, p) == {s \in Sessions : h[s] = p}
Holders(h) == {s \in Sessions : h[s] # None}

LEMMA FiniteSlots ==
    \A h : /\ \A p : IsFiniteSet(Slots(h, p)) /\ Cardinality(Slots(h, p)) \in Nat
           /\ IsFiniteSet(Holders(h)) /\ Cardinality(Holders(h)) \in Nat
<1>1. \A S \in SUBSET Sessions : IsFiniteSet(S) /\ Cardinality(S) \in Nat
  BY FS_Subset, FS_CardinalityType, AdmissionAssumption
<1>2. QED
  BY <1>1 DEF Slots, Holders

(* What LimiterExact says of the limiter alone. *)
Counted(h, count) ==
    /\ h \in [Sessions -> Providers \union {None}]
    /\ count \in [Providers -> Nat]
    /\ \A p \in Providers : count[p] = Cardinality(Slots(h, p)) /\ count[p] <= ProviderLimit
    /\ Cardinality(Holders(h)) <= GlobalLimit

(* reserve() at most fills the last slot, on both counts. *)
LEMMA ReserveCounts ==
    ASSUME Counted(held, perProvider), NEW q \in Providers, NEW t \in Sessions,
           Reserve(q, t)
    PROVE  Counted(held', perProvider')
<1>1. perProvider' \in [Providers -> Nat] /\ held' \in [Sessions -> Providers \union {None}]
  BY DEF Reserve, Counted
<1>2. Slots(held', q) = Slots(held, q) \union {t} /\ t \notin Slots(held, q)
  BY AdmissionAssumption DEF Reserve, Slots, Counted
<1>3. Cardinality(Slots(held', q)) = Cardinality(Slots(held, q)) + 1
  BY <1>2, FiniteSlots, FS_AddElement
<1>4. \A p \in Providers : p # q => Slots(held', p) = Slots(held, p)
  BY AdmissionAssumption DEF Reserve, Slots, Counted
<1>5. Holders(held') = Holders(held) \union {t} /\ t \notin Holders(held)
  BY AdmissionAssumption DEF Reserve, Holders, Counted
<1>6. Cardinality(Holders(held')) = Cardinality(Holders(held)) + 1
  BY <1>5, FiniteSlots, FS_AddElement
<1>7. Holding = Holders(held)
  BY DEF Holding, Holders
<1>8. perProvider[q] < ProviderLimit /\ Cardinality(Holders(held)) < GlobalLimit
  <2>1. Cardinality(Holders(held)) \in Nat /\ perProvider[q] \in Nat
    BY FiniteSlots DEF Counted
  <2>2. QED
    BY <1>7, <2>1, AdmissionAssumption DEF Reserve, Full
<1>9. \A p \in Providers : perProvider'[p] = IF p = q THEN perProvider[p] + 1 ELSE perProvider[p]
  BY DEF Reserve, Counted
<1>10. Cardinality(Holders(held')) <= GlobalLimit
  BY <1>6, <1>8, FiniteSlots, AdmissionAssumption
<1>11. \A p \in Providers : /\ perProvider'[p] = Cardinality(Slots(held', p))
                            /\ perProvider'[p] <= ProviderLimit
  BY <1>3, <1>4, <1>8, <1>9, AdmissionAssumption DEF Counted
<1>12. QED
  BY <1>1, <1>10, <1>11 DEF Counted

(* release() gives back one slot of the holder's provider, and the counter  *)
(* it decrements is never 0.                                                *)
LEMMA ReleaseCounts ==
    ASSUME Counted(held, perProvider), NEW t \in Sessions, held[t] # None, Release(t)
    PROVE  Counted(held', perProvider')
<1> DEFINE q == held[t]
<1>1. q \in Providers /\ held' \in [Sessions -> Providers \union {None}]
  BY DEF Release, Counted
<1>2. Slots(held', q) = Slots(held, q) \ {t} /\ t \in Slots(held, q)
  BY AdmissionAssumption, <1>1 DEF Release, Slots, Counted
<1>3. Cardinality(Slots(held', q)) = Cardinality(Slots(held, q)) - 1
  BY <1>2, FiniteSlots, FS_RemoveElement
<1>4. Cardinality(Slots(held, q)) # 0
  BY <1>2, FiniteSlots, FS_EmptySet
<1>5. \A p \in Providers : p # q => Slots(held', p) = Slots(held, p)
  BY AdmissionAssumption DEF Release, Slots, Counted
<1>6. Holders(held') = Holders(held) \ {t} /\ t \in Holders(held)
  BY AdmissionAssumption DEF Release, Holders, Counted
<1>7. Cardinality(Holders(held')) = Cardinality(Holders(held)) - 1
  BY <1>6, FiniteSlots, FS_RemoveElement
<1>8. \A p \in Providers : perProvider'[p] = IF p = q THEN perProvider[p] - 1 ELSE perProvider[p]
  BY DEF Release
<1>9. perProvider[q] \in Nat /\ perProvider[q] # 0
  BY <1>1, <1>4 DEF Counted
<1>10. perProvider' \in [Providers -> Nat]
  BY <1>9 DEF Release, Counted
<1>11. Cardinality(Holders(held')) <= GlobalLimit
  BY <1>7, FiniteSlots, AdmissionAssumption DEF Counted
<1>12. \A p \in Providers : /\ perProvider'[p] = Cardinality(Slots(held', p))
                            /\ perProvider'[p] <= ProviderLimit
  BY <1>3, <1>5, <1>8, <1>9, AdmissionAssumption DEF Counted
<1>13. QED
  BY <1>1, <1>10, <1>11, <1>12 DEF Counted

-----------------------------------------------------------------------------
(* An entry that is appended, or not, leaves a log of entries. *)
LEMMA AuditStep ==
    ASSUME AuditTypes, NEW event \in Events, NEW by \in Requests,
           AuditAppend(event, by) \/ AuditFails \/ UNCHANGED auditVars
    PROVE  AuditTypes'
<1>1. log' \subseteq Events \X Requests
  <2>1. <<event, by>> \in Events \X Requests
    OBVIOUS
  <2>2. log' \subseteq log \union {<<event, by>>}
    BY DEF AuditAppend, AuditFails
  <2>3. QED
    BY <2>1, <2>2 DEF AuditTypes
<1>2. auditOk' \in BOOLEAN
  BY Zenon DEF AuditTypes, AuditAppend, AuditFails
<1>3. QED
  BY <1>1, <1>2 DEF AuditTypes

LEMMA TypeOKNext ==
    ASSUME TypeOK, [Next]_vars,
           perProvider' \in [Providers -> Nat]
    PROVE  TypeOK'
<1> USE AdmissionAssumption DEF TypeOK, SessionTypes, TrustTypes, AuditTypes, CreateStates, ProcStates, GrantStates, RevokeStates, TrustStates, Events, Requests
<1>1. CASE UNCHANGED vars
  BY <1>1 DEF vars
<1>2. ASSUME NEW s \in Sessions, CreateArrives(s)
      PROVE  TypeOK'
  <2>1. SessionTypes'
    <3>1. epoch[WorkspaceOf[s]] \in Nat
      BY <1>2 DEF CreateArrives
    <3>2. pc' \in [Sessions -> CreateStates]
      <4>1. CASE To(s, "denying")
        BY <4>1
      <4>2. CASE To(s, "resolving")
        BY <4>2
      <4>3. QED
        BY <1>2, <4>1, <4>2 DEF CreateArrives
    <3>3. epochSeen' \in [Sessions -> Nat]
      BY <1>2, <3>1 DEF CreateArrives
    <3>4. QED
      BY <1>2, <3>2, <3>3 DEF CreateArrives
  <2>2. TrustTypes'
    BY <1>2 DEF CreateArrives
  <2>3. AuditTypes'
    BY <1>2 DEF CreateArrives
  <2>4. QED
    BY <2>1, <2>2, <2>3
<1>3. ASSUME NEW s \in Sessions, CreateRefusedForItsContent(s)
      PROVE  TypeOK'
  BY <1>3 DEF CreateRefusedForItsContent
<1>4. ASSUME NEW s \in Sessions, CreateResolved(s)
      PROVE  TypeOK'
  BY <1>4 DEF CreateResolved
<1>5. ASSUME NEW s \in Sessions, CreateRevalidated(s)
      PROVE  TypeOK'
  BY <1>5 DEF CreateRevalidated
<1>6. ASSUME NEW s \in Sessions, CreateInspected(s)
      PROVE  TypeOK'
  BY <1>6 DEF CreateInspected
<1>7. ASSUME NEW s \in Sessions, CreateDetected(s)
      PROVE  TypeOK'
  BY <1>7 DEF CreateDetected
<1>8. ASSUME NEW s \in Sessions, CreateUnaudited(s)
      PROVE  TypeOK'
  BY <1>8 DEF CreateUnaudited, AuditFails
<1>9. ASSUME NEW s \in Sessions, CreateAudited(s)
      PROVE  TypeOK'
  <2>1. SessionTypes'
    <3>1. pc' \in [Sessions -> CreateStates]
      <4>1. CASE To(s, "denying")
        BY <4>1
      <4>2. CASE To(s, "leased")
        BY <4>2
      <4>3. QED
        BY <1>9, <4>1, <4>2 DEF CreateAudited
    <3>2. holder' \in [Workspaces -> Sessions \union {None}]
      <4>1. CASE UNCHANGED holder
        BY <4>1
      <4>2. CASE Lease!Acquire(s, WorkspaceOf[s])
        BY <4>2 DEF Lease!Acquire
      <4>3. QED
        BY <1>9, <4>1, <4>2 DEF CreateAudited
    <3>3. QED
      BY <1>9, <3>1, <3>2 DEF CreateAudited
  <2>2. TrustTypes'
    BY <1>9 DEF CreateAudited, AuditAppend, Lease!Acquire, Changed
  <2>3. AuditTypes'
    BY <1>9 DEF CreateAudited, AuditAppend, Lease!Acquire, Changed
  <2>4. QED
    BY <2>1, <2>2, <2>3
<1>10. ASSUME NEW s \in Sessions, CreateDenied(s)
      PROVE  TypeOK'
  <2>1. SessionTypes'
    BY <1>10 DEF CreateDenied, AuditAppend, AuditFails
  <2>2. TrustTypes'
    BY <1>10 DEF CreateDenied, AuditAppend, AuditFails
  <2>3. AuditTypes'
    BY <1>10, AuditStep DEF CreateDenied
  <2>4. QED
    BY <2>1, <2>2, <2>3
<1>11. ASSUME NEW s \in Sessions, CreateThrows(s)
      PROVE  TypeOK'
  <2>1. PICK to \in {"denied", "denying"} : pc' = [pc EXCEPT ![s] = to]
    BY <1>11 DEF CreateThrows
  <2>2. pc' \in [Sessions -> CreateStates]
    BY <2>1
  <2>3. QED
    BY <1>11, <2>2 DEF CreateThrows, Lease!ReleaseAll
<1>12. ASSUME NEW s \in Sessions, CreateSucceeds(s)
      PROVE  TypeOK'
  BY <1>12 DEF CreateSucceeds, AtCreate, Reserve
<1>13. ASSUME NEW s \in Sessions, Spawn(s)
      PROVE  TypeOK'
  BY <1>13 DEF Spawn
<1>14. ASSUME NEW s \in Sessions, LaunchFails(s)
      PROVE  TypeOK'
  BY <1>14 DEF LaunchFails
<1>15. ASSUME NEW s \in Sessions, ProcessExits(s)
      PROVE  TypeOK'
  BY <1>15 DEF ProcessExits
<1>16. ASSUME NEW s \in Sessions, StreamEnds(s)
      PROVE  TypeOK'
  BY <1>16 DEF StreamEnds, Finish, Release, Lease!ReleaseAll
<1>17. ASSUME NEW s \in Sessions, GiveUpStream(s)
      PROVE  TypeOK'
  BY <1>17 DEF GiveUpStream
<1>18. ASSUME NEW s \in Sessions, KillGivesUp(s)
      PROVE  TypeOK'
  BY <1>18 DEF KillGivesUp, Finish, Release, Lease!ReleaseAll
<1>19. ASSUME NEW s \in Sessions, AdapterCrashes(s)
      PROVE  TypeOK'
  BY <1>19 DEF AdapterCrashes, Finish, Release, Lease!ReleaseAll
<1>20. ASSUME NEW s \in Sessions, Cancel(s)
      PROVE  TypeOK'
  BY <1>20 DEF Cancel
<1>21. ASSUME NEW s \in Sessions, RemoveBegins(s)
      PROVE  TypeOK'
  BY <1>21 DEF RemoveBegins
<1>22. ASSUME NEW s \in Sessions, RemoveEnds(s)
      PROVE  TypeOK'
  BY <1>22 DEF RemoveEnds
<1>23. ASSUME NEW g \in Grants, GrantDecides(g)
      PROVE  TypeOK'
  BY <1>23 DEF GrantDecides
<1>24. ASSUME NEW g \in Grants, GrantUnaudited(g)
      PROVE  TypeOK'
  BY <1>24 DEF GrantUnaudited, AuditFails
<1>25. ASSUME NEW g \in Grants, GrantConsumed(g)
      PROVE  TypeOK'
  BY <1>25 DEF GrantConsumed, AuditAppend
<1>26. ASSUME NEW g \in Grants, GrantRecorded(g)
      PROVE  TypeOK'
  <2>1. SessionTypes'
    BY <1>26 DEF GrantRecorded, AuditAppend, Enqueue, Writes
  <2>2. TrustTypes'
    <3>1. [workspace |-> GrantFor[g], to |-> "trusted", by |-> g] \in Writes
      BY DEF Writes
    <3>2. queue' \in Seq(Writes)
      <4>1. CASE UNCHANGED queue
        BY <4>1
      <4>2. CASE Enqueue(GrantFor[g], "trusted", g)
        BY <3>1, <4>2 DEF Enqueue
      <4>3. QED
        BY <1>26, <4>1, <4>2 DEF GrantRecorded
    <3>3. gpc' \in [Grants -> GrantStates]
      <4>1. CASE GrantTo(g, "denying")
        BY <4>1
      <4>2. CASE GrantTo(g, "persisting")
        BY <4>2
      <4>3. QED
        BY <1>26, <4>1, <4>2 DEF GrantRecorded
    <3>4. QED
      BY <1>26, <3>2, <3>3 DEF GrantRecorded
  <2>3. AuditTypes'
    BY <1>26 DEF GrantRecorded, AuditAppend, Enqueue, Writes
  <2>4. QED
    BY <2>1, <2>2, <2>3
<1>27. ASSUME NEW g \in Grants, GrantOpens(g)
      PROVE  TypeOK'
  BY <1>27 DEF GrantOpens, AllowWorkspace
<1>28. ASSUME NEW g \in Grants, GrantRollsBack(g)
      PROVE  TypeOK'
  <2>1. PICK to \in {"undoing", "rollback"} : gpc' = [gpc EXCEPT ![g] = to]
    BY <1>28 DEF GrantRollsBack, GrantTo
  <2>2. SessionTypes'
    BY <1>28 DEF GrantRollsBack, BlockWorkspace, Enqueue, Writes
  <2>3. TrustTypes'
    <3>1. gpc' \in [Grants -> GrantStates]
      BY <2>1
    <3>2. QED
      BY <1>28, <3>1 DEF GrantRollsBack, BlockWorkspace, Enqueue, Writes
  <2>4. AuditTypes'
    BY <1>28 DEF GrantRollsBack, BlockWorkspace, Enqueue, Writes
  <2>5. QED
    BY <2>2, <2>3, <2>4
<1>29. ASSUME NEW g \in Grants, GrantDenied(g)
      PROVE  TypeOK'
  <2>1. SessionTypes'
    BY <1>29 DEF GrantDenied, AuditAppend, AuditFails
  <2>2. TrustTypes'
    BY <1>29 DEF GrantDenied, AuditAppend, AuditFails
  <2>3. AuditTypes'
    BY <1>29, AuditStep DEF GrantDenied
  <2>4. QED
    BY <2>1, <2>2, <2>3
<1>30. ASSUME NEW r \in Revokes, RevokeBegins(r)
      PROVE  TypeOK'
  <2>1. SessionTypes'
    BY <1>30 DEF RevokeBegins, BlockWorkspace
  <2>2. TrustTypes'
    <3>1. blocked' \subseteq Workspaces /\ epoch' \in [Workspaces -> Nat]
      <4>1. CASE UNCHANGED admission
        BY <4>1
      <4>2. CASE BlockWorkspace(RevokeOf[r])
        BY <4>2 DEF BlockWorkspace
      <4>3. QED
        BY <1>30, <4>1, <4>2 DEF RevokeBegins
    <3>2. rpc' \in [Revokes -> RevokeStates]
      <4>1. CASE RevokeTo(r, "refused")
        BY <4>1
      <4>2. CASE RevokeTo(r, "auditing")
        BY <4>2
      <4>3. QED
        BY <1>30, <4>1, <4>2 DEF RevokeBegins
    <3>3. QED
      BY <1>30, <3>1, <3>2 DEF RevokeBegins
  <2>3. AuditTypes'
    BY <1>30 DEF RevokeBegins, BlockWorkspace
  <2>4. QED
    BY <2>1, <2>2, <2>3
<1>31. ASSUME NEW r \in Revokes, RevokeTearsDown(r)
      PROVE  TypeOK'
  <2>1. SessionTypes'
    BY <1>31 DEF RevokeTearsDown, AuditAppend, AuditFails, BlockWorkspace, Enqueue, Writes
  <2>2. TrustTypes'
    BY <1>31 DEF RevokeTearsDown, AuditAppend, AuditFails, BlockWorkspace, Enqueue, Writes
  <2>3. AuditTypes'
    BY <1>31, AuditStep DEF RevokeTearsDown
  <2>4. QED
    BY <2>1, <2>2, <2>3
<1>32. ASSUME NEW r \in Revokes, RevokeEnds(r)
      PROVE  TypeOK'
  <2>1. SessionTypes'
    BY <1>32 DEF RevokeEnds, AuditAppend, AuditFails
  <2>2. TrustTypes'
    BY <1>32 DEF RevokeEnds, AuditAppend, AuditFails
  <2>3. AuditTypes'
    BY <1>32, AuditStep DEF RevokeEnds
  <2>4. QED
    BY <2>1, <2>2, <2>3
<1>33. CASE WriteTrust
  <2>1. SessionTypes'
    BY <1>33 DEF WriteTrust, Writes
  <2>2. TrustTypes'
    <3>1. Head(queue) \in Writes /\ queue' \in Seq(Writes)
      BY <1>33 DEF WriteTrust
    <3>2. record' \in [Workspaces -> TrustStates] /\ disk' \in [Workspaces -> TrustStates]
      <4>1. Head(queue).to \in TrustStates
        BY <3>1 DEF Writes
      <4>2. record' \in [Workspaces -> TrustStates]
        BY <1>33, <4>1 DEF WriteTrust
      <4>3. disk' = disk \/ disk' = record'
        BY <1>33 DEF WriteTrust
      <4>4. QED
        BY <4>2, <4>3
    <3>3. gpc' \in [Grants -> GrantStates]
      <4>1. \A g \in Grants : \A p \in {"persisted", "unsaved"} : Written(g, p) \in GrantStates
        BY DEF Written
      <4>2. \E p \in {"persisted", "unsaved"} :
                gpc' = [g \in Grants |-> IF g = Head(queue).by THEN Written(g, p) ELSE gpc[g]]
        BY <1>33 DEF WriteTrust
      <4>3. QED
        BY <4>1, <4>2
    <3>4. QED
      BY <1>33, <3>1, <3>2, <3>3 DEF WriteTrust
  <2>3. AuditTypes'
    BY <1>33 DEF WriteTrust, Writes
  <2>4. QED
    BY <2>1, <2>2, <2>3
<1>34. CASE CrashAndRestart
  BY <1>34 DEF CrashAndRestart, Load, NoRecords
<1>35. QED
  BY <1>1, <1>2, <1>3, <1>4, <1>5, <1>6, <1>7, <1>8, <1>9, <1>10, <1>11, <1>12, <1>13, <1>14, <1>15, <1>16, <1>17, <1>18, <1>19, <1>20, <1>21, <1>22, <1>23, <1>24, <1>25, <1>26, <1>27, <1>28, <1>29, <1>30, <1>31, <1>32, <1>33, <1>34 DEF Next, CreateNext, SessionNext, GrantNext, RevokeNext

-----------------------------------------------------------------------------
(* Slots and leases *)

(* The states in which a request has passed the first step of the route,    *)
(* which only a request that names a workspace enters.                      *)
InRoute == {"resolving", "revalidating", "inspecting", "detecting", "auditing", "leased"}

(* What holds of slots and leases, whatever the processes do.  The lease is *)
(* held exactly while the request is past its grant or its session is live, *)
(* and by then the entry that allows it is in the log.                      *)
SessionInv ==
    /\ \A s \in Sessions : held[s] = IF pc[s] = "live" THEN ProviderOf[s] ELSE None
    /\ Counted(held, perProvider)
    /\ \A s \in Sessions : pc[s] \in InRoute => WorkspaceOf[s] # None
    /\ NoLeakedLease
    /\ \A s \in Sessions : pc[s] \in {"leased", "live"} /\ WorkspaceOf[s] # None =>
          /\ holder[WorkspaceOf[s]] = s
          /\ <<"session.workspace_allowed", s>> \in log

(* Steps that move no session and give nobody a slot or a lease. *)
LEMMA OtherStep ==
    ASSUME SessionInv, UNCHANGED <<pc, held, perProvider, holder>>, log \subseteq log'
    PROVE  SessionInv'
  BY DEF SessionInv, NoLeakedLease

(* Steps of the route before the lease is taken, and refusals. *)
LEMMA RouteStep ==
    ASSUME TypeOK, SessionInv, NEW s \in Sessions, NEW to,
           pc' = [pc EXCEPT ![s] = to],
           pc[s] \notin {"leased", "live"}, to \notin {"leased", "live"},
           to \in InRoute => WorkspaceOf[s] # None,
           UNCHANGED <<held, perProvider, holder>>, log \subseteq log'
    PROVE  SessionInv'
<1> USE DEF TypeOK, SessionTypes
<1>1. \A t \in Sessions : pc'[t] = IF t = s THEN to ELSE pc[t]
  OBVIOUS
<1>2. NoLeakedLease'
  BY <1>1 DEF SessionInv, NoLeakedLease
<1>3. QED
  BY <1>1, <1>2 DEF SessionInv

(* The stream of a live session ends: slot and lease come back together. *)
LEMMA FinishStep ==
    ASSUME TypeOK, SessionInv, NEW s \in Sessions, pc[s] = "live", Finish(s), UNCHANGED log
    PROVE  SessionInv'
<1> USE AdmissionAssumption DEF TypeOK, SessionTypes
<1>1. \A t \in Sessions : pc'[t] = IF t = s THEN "ended" ELSE pc[t]
  BY DEF Finish
<1>2. \A w \in Workspaces : holder'[w] = IF holder[w] = s THEN None ELSE holder[w]
  BY DEF Finish, Lease!ReleaseAll
<1>3. Counted(held', perProvider')
  <2>1. held[s] # None /\ Counted(held, perProvider)
    BY DEF SessionInv
  <2>2. QED
    BY <2>1, ReleaseCounts DEF Finish
<1>4. \A t \in Sessions : held'[t] = IF pc'[t] = "live" THEN ProviderOf[t] ELSE None
  BY <1>1 DEF Finish, Release, SessionInv
<1>5. NoLeakedLease'
  BY <1>1, <1>2 DEF SessionInv, NoLeakedLease
<1>6. QED
  BY <1>1, <1>2, <1>3, <1>4, <1>5 DEF SessionInv, InRoute

LEMMA SessionInvNext ==
    ASSUME TypeOK, SessionInv, [Next]_vars
    PROVE  SessionInv'
<1>0. /\ pc \in [Sessions -> CreateStates]
      /\ holder \in [Workspaces -> Sessions \union {None}]
      /\ held \in [Sessions -> Providers \union {None}]
      /\ \A s \in Sessions : WorkspaceOf[s] # None => WorkspaceOf[s] \in Workspaces
      /\ \A s \in Sessions : ProviderOf[s] \in Providers
      /\ None \notin Sessions \union Providers
  BY AdmissionAssumption DEF TypeOK, SessionTypes
<1>1. CASE UNCHANGED vars
  BY <1>1, OtherStep DEF vars
<1>2. ASSUME NEW s \in Sessions, CreateArrives(s)
      PROVE  SessionInv'
  <2>1. /\ pc[s] = "idle" /\ WorkspaceOf[s] # None
        /\ UNCHANGED <<held, perProvider, holder, log>>
    BY <1>2 DEF CreateArrives
  <2>2. CASE To(s, "denying")
    BY <2>1, <2>2, RouteStep DEF InRoute
  <2>3. CASE To(s, "resolving")
    BY <2>1, <2>3, RouteStep DEF InRoute
  <2>4. QED
    BY <1>2, <2>2, <2>3 DEF CreateArrives
<1>3. ASSUME NEW s \in Sessions, CreateRefusedForItsContent(s)
      PROVE  SessionInv'
  BY <1>3, RouteStep DEF CreateRefusedForItsContent, InRoute
<1>4. ASSUME NEW s \in Sessions, CreateResolved(s)
      PROVE  SessionInv'
  <2>1. pc[s] = "resolving" /\ WorkspaceOf[s] # None
    BY <1>4 DEF CreateResolved, SessionInv, InRoute
  <2>2. QED
    BY <1>4, <2>1, RouteStep DEF CreateResolved, InRoute
<1>5. ASSUME NEW s \in Sessions, CreateRevalidated(s)
      PROVE  SessionInv'
  <2>1. pc[s] = "revalidating" /\ WorkspaceOf[s] # None
    BY <1>5 DEF CreateRevalidated, SessionInv, InRoute
  <2>2. QED
    BY <1>5, <2>1, RouteStep DEF CreateRevalidated, InRoute
<1>6. ASSUME NEW s \in Sessions, CreateInspected(s)
      PROVE  SessionInv'
  <2>1. pc[s] = "inspecting" /\ WorkspaceOf[s] # None
    BY <1>6 DEF CreateInspected, SessionInv, InRoute
  <2>2. QED
    BY <1>6, <2>1, RouteStep DEF CreateInspected, InRoute
<1>7. ASSUME NEW s \in Sessions, CreateDetected(s)
      PROVE  SessionInv'
  <2>1. pc[s] = "detecting" /\ WorkspaceOf[s] # None
    BY <1>7 DEF CreateDetected, SessionInv, InRoute
  <2>2. QED
    BY <1>7, <2>1, RouteStep DEF CreateDetected, InRoute
<1>8. ASSUME NEW s \in Sessions, CreateUnaudited(s)
      PROVE  SessionInv'
  BY <1>8, RouteStep DEF CreateUnaudited, AuditFails, InRoute
<1>9. ASSUME NEW s \in Sessions, CreateAudited(s)
      PROVE  SessionInv'
  <2>1. /\ pc[s] = "auditing" /\ WorkspaceOf[s] \in Workspaces
        /\ log' = log \union {<<"session.workspace_allowed", s>>}
        /\ UNCHANGED <<held, perProvider>>
    BY <1>0, <1>9 DEF CreateAudited, AuditAppend, SessionInv, InRoute
  <2>2. CASE To(s, "denying") /\ UNCHANGED holder
    BY <2>1, <2>2, RouteStep DEF InRoute
  <2>3. CASE To(s, "leased") /\ Lease!Acquire(s, WorkspaceOf[s])
    <3>1. \A t \in Sessions : pc'[t] = IF t = s THEN "leased" ELSE pc[t]
      BY <1>0, <2>3
    <3>2. /\ holder[WorkspaceOf[s]] = None
          /\ \A w \in Workspaces : holder'[w] = IF w = WorkspaceOf[s] THEN s ELSE holder[w]
      BY <1>0, <2>1, <2>3 DEF Lease!Acquire
    <3>3. NoLeakedLease'
      BY <1>0, <2>1, <3>1, <3>2 DEF SessionInv, NoLeakedLease
    <3>4. \A t \in Sessions : pc'[t] \in {"leased", "live"} /\ WorkspaceOf[t] # None =>
              /\ holder'[WorkspaceOf[t]] = t
              /\ <<"session.workspace_allowed", t>> \in log'
      BY <1>0, <2>1, <3>1, <3>2 DEF SessionInv
    <3>5. QED
      BY <1>0, <2>1, <3>1, <3>3, <3>4 DEF SessionInv, InRoute
  <2>4. QED
    BY <1>9, <2>2, <2>3 DEF CreateAudited
<1>10. ASSUME NEW s \in Sessions, CreateDenied(s)
       PROVE  SessionInv'
  <2>1. log \subseteq log'
    BY <1>10 DEF CreateDenied, AuditAppend, AuditFails
  <2>2. QED
    BY <1>10, <2>1, RouteStep DEF CreateDenied, InRoute
<1>11. ASSUME NEW s \in Sessions, CreateThrows(s)
       PROVE  SessionInv'
  <2>1. PICK to \in {"denied", "denying"} : pc' = [pc EXCEPT ![s] = to]
    BY <1>11 DEF CreateThrows
  <2>2. /\ pc[s] \in {"leased", "idle"}
        /\ UNCHANGED <<held, perProvider, log>>
        /\ \A w \in Workspaces : holder'[w] = IF holder[w] = s THEN None ELSE holder[w]
    BY <1>0, <1>11 DEF CreateThrows, AtCreate, Lease!ReleaseAll
  <2>3. \A t \in Sessions : pc'[t] = IF t = s THEN to ELSE pc[t]
    BY <1>0, <2>1
  <2>4. NoLeakedLease'
    BY <1>0, <2>1, <2>2, <2>3 DEF SessionInv, NoLeakedLease
  <2>5. \A t \in Sessions : pc'[t] \in {"leased", "live"} /\ WorkspaceOf[t] # None =>
            /\ holder'[WorkspaceOf[t]] = t
            /\ <<"session.workspace_allowed", t>> \in log'
    BY <1>0, <2>1, <2>2, <2>3 DEF SessionInv
  <2>6. QED
    BY <1>0, <2>1, <2>2, <2>3, <2>4, <2>5 DEF SessionInv, InRoute
<1>12. ASSUME NEW s \in Sessions, CreateSucceeds(s)
       PROVE  SessionInv'
  <2>1. /\ pc[s] = "leased" \/ WorkspaceOf[s] = None
        /\ \A t \in Sessions : pc'[t] = IF t = s THEN "live" ELSE pc[t]
        /\ UNCHANGED <<holder, log>>
    BY <1>0, <1>12 DEF CreateSucceeds, AtCreate
  <2>2. Counted(held', perProvider')
    BY <1>0, <1>12, ReserveCounts DEF CreateSucceeds, SessionInv
  <2>3. \A t \in Sessions : held'[t] = IF pc'[t] = "live" THEN ProviderOf[t] ELSE None
    BY <1>0, <1>12, <2>1 DEF CreateSucceeds, Reserve, SessionInv
  <2>4. NoLeakedLease'
    BY <1>0, <2>1 DEF SessionInv, NoLeakedLease
  <2>5. QED
    BY <1>0, <2>1, <2>2, <2>3, <2>4 DEF SessionInv, InRoute
<1>13. ASSUME NEW s \in Sessions,
              \/ Spawn(s) \/ LaunchFails(s) \/ ProcessExits(s) \/ GiveUpStream(s)
              \/ Cancel(s) \/ RemoveBegins(s) \/ RemoveEnds(s)
       PROVE  SessionInv'
  BY <1>13, OtherStep
  DEF Spawn, LaunchFails, ProcessExits, GiveUpStream, Cancel, RemoveBegins, RemoveEnds
<1>14. ASSUME NEW s \in Sessions, StreamEnds(s) \/ KillGivesUp(s) \/ AdapterCrashes(s)
       PROVE  SessionInv'
  BY <1>14, FinishStep DEF StreamEnds, KillGivesUp, AdapterCrashes
<1>15. ASSUME NEW g \in Grants, GrantNext(g)
       PROVE  SessionInv'
  BY <1>15, OtherStep
  DEF GrantNext, GrantDecides, GrantUnaudited, GrantConsumed, GrantRecorded, GrantOpens,
      GrantRollsBack, GrantDenied, AuditAppend, AuditFails
<1>16. ASSUME NEW r \in Revokes, RevokeNext(r)
       PROVE  SessionInv'
  BY <1>16, OtherStep
  DEF RevokeNext, RevokeBegins, RevokeTearsDown, RevokeEnds, AuditAppend, AuditFails
<1>17. CASE WriteTrust
  BY <1>17, OtherStep DEF WriteTrust
<1>18. CASE CrashAndRestart
  <2>1. /\ held' = [s \in Sessions |-> None]
        /\ perProvider' = [p \in Providers |-> 0]
        /\ \A s \in Sessions : pc'[s] \in {"idle", "ended", "denied"}
        /\ \A w \in Workspaces : holder'[w] = None
    BY <1>0, <1>18 DEF CrashAndRestart, CreateStates
  <2>2. Holders(held') = {} /\ \A p \in Providers : Slots(held', p) = {}
    BY <1>0, <2>1 DEF Holders, Slots
  <2>3. Counted(held', perProvider')
    <3>1. Cardinality(Holders(held')) = 0 /\ \A p \in Providers : Cardinality(Slots(held', p)) = 0
      BY <2>2, FS_EmptySet
    <3>2. QED
      BY <2>1, <3>1, AdmissionAssumption DEF Counted
  <2>4. NoLeakedLease'
    BY <2>1 DEF NoLeakedLease
  <2>5. QED
    BY <2>1, <2>3, <2>4 DEF SessionInv, InRoute
<1>19. QED
  BY <1>1, <1>2, <1>3, <1>4, <1>5, <1>6, <1>7, <1>8, <1>9, <1>10, <1>11, <1>12, <1>13,
     <1>14, <1>15, <1>16, <1>17, <1>18
  DEF Next, CreateNext, SessionNext

-----------------------------------------------------------------------------
(* Trust and blocks *)

(* A write that is still queued: one that trusts was audited first, and one *)
(* that lowers trust found its workspace blocked, or blocked it.            *)
QueueInv ==
    \A i \in 1..Len(queue) :
        /\ queue[i].to = "trusted" =>
              /\ queue[i].by \in Grants
              /\ GrantFor[queue[i].by] = queue[i].workspace
              /\ <<"trust.granted", queue[i].by>> \in log
        /\ queue[i].to # "trusted" => queue[i].workspace \in blocked

(* A revocation that has begun has its workspace blocked. *)
RevocationsBlock ==
    \A r \in Revokes : rpc[r] \in {"auditing", "tearing", "revoked"} => RevokeOf[r] \in blocked

(* The epochs are not needed here: a block is never lifted, so an unblocked *)
(* workspace was never blocked, and only a blocked one can lose its trust.  *)
DecisionsStand ==
    \A s \in Sessions :
        /\ pc[s] \in {"detecting", "auditing", "leased"} => sawTrusted[s]
        /\ /\ pc[s] \in {"inspecting", "detecting", "auditing", "leased"}
           /\ sawTrusted[s]
           /\ WorkspaceOf[s] \notin blocked
           => record[WorkspaceOf[s]] = "trusted"

TrustInv == QueueInv /\ TrustIsAudited /\ RevocationsBlock /\ DecisionsStand

(* What steps do to the trust state that the queue, the blocks and the      *)
(* revocations do not notice.                                               *)
LEMMA TrustStutter ==
    ASSUME TrustInv, UNCHANGED <<queue, record, disk, blocked, rpc>>, log \subseteq log',
           DecisionsStand'
    PROVE  TrustInv'
  BY DEF TrustInv, QueueInv, TrustIsAudited, RevocationsBlock

(* A workspace is blocked, perhaps, and nothing else moves. *)
LEMMA DecisionsStandBlocked ==
    ASSUME DecisionsStand, UNCHANGED <<pc, sawTrusted, record>>, blocked \subseteq blocked'
    PROVE  DecisionsStand'
  BY DEF DecisionsStand

(* A write is queued. *)
LEMMA QueueAppend ==
    ASSUME TypeOK, QueueInv, NEW w, NEW to, NEW by, Enqueue(w, to, by),
           blocked \subseteq blocked', log \subseteq log',
           to = "trusted" => /\ by \in Grants /\ GrantFor[by] = w
                             /\ <<"trust.granted", by>> \in log',
           to # "trusted" => w \in blocked'
    PROVE  QueueInv'
<1> DEFINE m == [workspace |-> w, to |-> to, by |-> by]
<1>1. queue \in Seq(Writes) /\ queue' = Append(queue, m)
  BY DEF TypeOK, TrustTypes, Enqueue
<1>2. /\ m.workspace = w /\ m.to = to /\ m.by = by
  OBVIOUS
<1> HIDE DEF m
<1>3. /\ Len(queue') = Len(queue) + 1 /\ Len(queue) \in Nat
      /\ queue'[Len(queue) + 1] = m
      /\ \A i \in 1..Len(queue) : queue'[i] = queue[i]
  BY <1>1
<1>4. \A i \in 1..Len(queue') : i \in 1..Len(queue) \/ i = Len(queue) + 1
  BY <1>3
<1>5. QED
  BY <1>2, <1>3, <1>4 DEF QueueInv

(* The head of the queue is taken. *)
LEMMA QueueTail ==
    ASSUME TypeOK, queue # <<>>, queue' = Tail(queue)
    PROVE  /\ Len(queue) \in Nat \ {0} /\ Len(queue') = Len(queue) - 1
           /\ \A i \in 1..Len(queue') : i + 1 \in 1..Len(queue) /\ queue'[i] = queue[i + 1]
           /\ Head(queue) = queue[1] /\ Head(queue) \in Writes
  BY DEF TypeOK, TrustTypes

LEMMA TrustInvNext ==
    ASSUME TypeOK, SessionInv, TrustInv, [Next]_vars
    PROVE  TrustInv'
<1>0. /\ pc \in [Sessions -> CreateStates] /\ sawTrusted \in [Sessions -> BOOLEAN]
      /\ rpc \in [Revokes -> RevokeStates] /\ gpc \in [Grants -> GrantStates]
      /\ record \in [Workspaces -> TrustStates] /\ disk \in [Workspaces -> TrustStates]
      /\ blocked \subseteq Workspaces
  BY DEF TypeOK, SessionTypes, TrustTypes
<1>1. CASE UNCHANGED vars
  BY <1>1, TrustStutter, DecisionsStandBlocked DEF vars, TrustInv
<1>2. ASSUME NEW s \in Sessions,
             \/ CreateArrives(s) \/ CreateRefusedForItsContent(s) \/ CreateResolved(s)
             \/ CreateUnaudited(s) \/ CreateDenied(s) \/ CreateThrows(s) \/ CreateSucceeds(s)
      PROVE  TrustInv'
  <2>1. PICK to \in {"resolving", "revalidating", "denying", "denied", "live"} :
            pc' = [pc EXCEPT ![s] = to]
    BY <1>2
    DEF CreateArrives, CreateRefusedForItsContent, CreateResolved, CreateUnaudited, CreateDenied,
        CreateThrows, CreateSucceeds
  <2>2. UNCHANGED <<sawTrusted, queue, record, disk, blocked, rpc>> /\ log \subseteq log'
    BY <1>2
    DEF CreateArrives, CreateRefusedForItsContent, CreateResolved, CreateUnaudited, CreateDenied,
        CreateThrows, CreateSucceeds, AuditAppend, AuditFails
  <2>3. DecisionsStand'
    BY <1>0, <2>1, <2>2 DEF DecisionsStand, TrustInv
  <2>4. QED
    BY <2>2, <2>3, TrustStutter
<1>3. ASSUME NEW s \in Sessions, CreateRevalidated(s)
      PROVE  TrustInv'
  <2>1. UNCHANGED <<queue, record, disk, blocked, rpc, log>>
    BY <1>3 DEF CreateRevalidated
  <2>2. CASE To(s, "denying") /\ UNCHANGED sawTrusted
    BY <1>0, <2>1, <2>2, TrustStutter DEF DecisionsStand, TrustInv
  <2>3. CASE /\ To(s, "inspecting")
             /\ sawTrusted' = [sawTrusted EXCEPT ![s] = record[WorkspaceOf[s]] = "trusted"]
    BY <1>0, <2>1, <2>3, TrustStutter DEF DecisionsStand, TrustInv
  <2>4. QED
    BY <1>3, <2>2, <2>3 DEF CreateRevalidated
<1>4. ASSUME NEW s \in Sessions, CreateInspected(s)
      PROVE  TrustInv'
  <2>1. UNCHANGED <<sawTrusted, queue, record, disk, blocked, rpc, log>> /\ pc[s] = "inspecting"
    BY <1>4 DEF CreateInspected
  <2>2. To(s, "denying") \/ (sawTrusted[s] /\ To(s, "detecting"))
    BY <1>4 DEF CreateInspected
  <2>3. DecisionsStand'
    BY <1>0, <2>1, <2>2 DEF DecisionsStand, TrustInv
  <2>4. QED
    BY <2>1, <2>3, TrustStutter
<1>5. ASSUME NEW s \in Sessions, CreateDetected(s) \/ CreateAudited(s)
      PROVE  TrustInv'
  <2>1. /\ UNCHANGED <<sawTrusted, queue, record, disk, blocked, rpc>> /\ log \subseteq log'
        /\ pc[s] \in {"detecting", "auditing"}
    BY <1>5 DEF CreateDetected, CreateAudited, AuditAppend
  <2>2. PICK to \in {"auditing", "denying", "leased"} : pc' = [pc EXCEPT ![s] = to]
    BY <1>5 DEF CreateDetected, CreateAudited
  <2>3. DecisionsStand'
    BY <1>0, <2>1, <2>2 DEF DecisionsStand, TrustInv
  <2>4. QED
    BY <2>1, <2>3, TrustStutter
<1>6. ASSUME NEW s \in Sessions,
             \/ Spawn(s) \/ LaunchFails(s) \/ ProcessExits(s) \/ GiveUpStream(s)
             \/ Cancel(s) \/ RemoveBegins(s) \/ RemoveEnds(s)
      PROVE  TrustInv'
  <2>1. UNCHANGED <<pc, sawTrusted, queue, record, disk, blocked, rpc, log>>
    BY <1>6
    DEF Spawn, LaunchFails, ProcessExits, GiveUpStream, Cancel, RemoveBegins, RemoveEnds
  <2>2. QED
    BY <2>1, TrustStutter, DecisionsStandBlocked DEF TrustInv
<1>7. ASSUME NEW s \in Sessions, StreamEnds(s) \/ KillGivesUp(s) \/ AdapterCrashes(s)
      PROVE  TrustInv'
  <2>1. /\ UNCHANGED <<sawTrusted, queue, record, disk, blocked, rpc, log>>
        /\ pc' = [pc EXCEPT ![s] = "ended"]
    BY <1>7 DEF StreamEnds, KillGivesUp, AdapterCrashes, Finish
  <2>2. DecisionsStand'
    BY <1>0, <2>1 DEF DecisionsStand, TrustInv
  <2>3. QED
    BY <2>1, <2>2, TrustStutter
<1>8. ASSUME NEW g \in Grants, GrantDecides(g) \/ GrantUnaudited(g) \/ GrantConsumed(g)
                              \/ GrantOpens(g) \/ GrantDenied(g)
      PROVE  TrustInv'
  <2>1. UNCHANGED <<pc, sawTrusted, queue, record, disk, rpc>> /\ log \subseteq log'
    BY <1>8
    DEF GrantDecides, GrantUnaudited, GrantConsumed, GrantOpens, GrantDenied,
        AuditAppend, AuditFails
  <2>2. blocked' = blocked
    BY <1>8 DEF GrantDecides, GrantUnaudited, GrantConsumed, GrantOpens, GrantDenied,
                Changed, AllowWorkspace
  <2>3. QED
    BY <2>1, <2>2, TrustStutter, DecisionsStandBlocked DEF TrustInv
<1>9. ASSUME NEW g \in Grants, GrantRecorded(g)
      PROVE  TrustInv'
  <2>1. /\ UNCHANGED <<pc, sawTrusted, record, disk, blocked, rpc>> /\ log \subseteq log'
        /\ <<"trust.granted", g>> \in log'
    BY <1>9 DEF GrantRecorded, AuditAppend
  <2>2. QueueInv'
    <3>1. CASE UNCHANGED queue
      BY <2>1, <3>1 DEF TrustInv, QueueInv
    <3>2. CASE Enqueue(GrantFor[g], "trusted", g)
      BY <2>1, <3>2, QueueAppend DEF TrustInv
    <3>3. QED
      BY <1>9, <3>1, <3>2 DEF GrantRecorded
  <2>3. QED
    BY <2>1, <2>2, DecisionsStandBlocked DEF TrustInv, TrustIsAudited, RevocationsBlock
<1>10. ASSUME NEW g \in Grants, GrantRollsBack(g)
       PROVE  TrustInv'
  <2>1. /\ UNCHANGED <<pc, sawTrusted, record, disk, rpc, log>>
        /\ blocked' = blocked \union {GrantFor[g]}
        /\ Enqueue(GrantFor[g], "untrusted", g)
    BY <1>10 DEF GrantRollsBack, BlockWorkspace
  <2>2. QueueInv'
    BY <2>1, QueueAppend DEF TrustInv
  <2>3. QED
    BY <2>1, <2>2, DecisionsStandBlocked DEF TrustInv, TrustIsAudited, RevocationsBlock
<1>11. ASSUME NEW r \in Revokes, RevokeBegins(r)
       PROVE  TrustInv'
  <2>1. UNCHANGED <<pc, sawTrusted, queue, record, disk, log>>
    BY <1>11 DEF RevokeBegins
  <2>2. CASE UNCHANGED blocked /\ RevokeTo(r, "refused")
    BY <1>0, <2>1, <2>2, DecisionsStandBlocked
    DEF TrustInv, QueueInv, TrustIsAudited, RevocationsBlock
  <2>3. CASE blocked' = blocked \union {RevokeOf[r]} /\ RevokeTo(r, "auditing")
    BY <1>0, <2>1, <2>3, DecisionsStandBlocked
    DEF TrustInv, QueueInv, TrustIsAudited, RevocationsBlock
  <2>4. QED
    BY <1>11, <2>2, <2>3 DEF RevokeBegins, BlockWorkspace
<1>12. ASSUME NEW r \in Revokes, RevokeTearsDown(r)
       PROVE  TrustInv'
  <2>1. /\ UNCHANGED <<pc, sawTrusted, record, disk>> /\ log \subseteq log'
        /\ blocked' = blocked \union {RevokeOf[r]}
        /\ rpc' = [rpc EXCEPT ![r] = "tearing"]
    BY <1>12 DEF RevokeTearsDown, BlockWorkspace, AuditAppend, AuditFails
  <2>2. PICK to \in {"revoking", "untrusted"} : Enqueue(RevokeOf[r], to, r)
    BY <1>12 DEF RevokeTearsDown
  <2>3. QueueInv'
    BY <2>1, <2>2, QueueAppend DEF TrustInv
  <2>4. QED
    BY <1>0, <2>1, <2>3, DecisionsStandBlocked DEF TrustInv, TrustIsAudited, RevocationsBlock
<1>13. ASSUME NEW r \in Revokes, RevokeEnds(r)
       PROVE  TrustInv'
  <2>1. /\ UNCHANGED <<pc, sawTrusted, queue, record, disk, blocked>> /\ log \subseteq log'
        /\ rpc' = [rpc EXCEPT ![r] = "revoked"] /\ rpc[r] = "tearing"
    BY <1>13 DEF RevokeEnds, AuditAppend, AuditFails
  <2>2. QED
    BY <1>0, <2>1, DecisionsStandBlocked
    DEF TrustInv, QueueInv, TrustIsAudited, RevocationsBlock
<1>14. CASE WriteTrust
  <2> DEFINE m == Head(queue)
  <2>1. UNCHANGED <<pc, sawTrusted, blocked, rpc, log>>
    BY <1>14 DEF WriteTrust
  <2>2. /\ Len(queue) \in Nat \ {0} /\ Len(queue') = Len(queue) - 1
        /\ \A i \in 1..Len(queue') : i + 1 \in 1..Len(queue) /\ queue'[i] = queue[i + 1]
        /\ m = queue[1] /\ m \in Writes
    BY <1>14, QueueTail DEF WriteTrust
  <2>3. QueueInv'
    BY <2>1, <2>2 DEF TrustInv, QueueInv
  <2>4. /\ m.workspace \in Workspaces
        /\ m.to = "trusted" => /\ m.by \in Grants /\ GrantFor[m.by] = m.workspace
                               /\ <<"trust.granted", m.by>> \in log
        /\ m.to # "trusted" => m.workspace \in blocked
    BY <2>2 DEF TrustInv, QueueInv, Writes
  <2>5. /\ \A w \in Workspaces : record'[w] # record[w] => w = m.workspace /\ record'[w] = m.to
        /\ disk' = disk \/ disk' = record'
    BY <1>0, <1>14 DEF WriteTrust
  <2>6. TrustIsAudited'
    BY <2>1, <2>4, <2>5 DEF TrustInv, TrustIsAudited
  <2>7. DecisionsStand'
    <3>1. \A s \in Sessions : pc[s] \in {"inspecting", "detecting", "auditing", "leased"} =>
              WorkspaceOf[s] \in Workspaces
      BY AdmissionAssumption DEF SessionInv, InRoute
    <3>2. QED
      BY <2>1, <2>4, <2>5, <3>1 DEF TrustInv, DecisionsStand
  <2>8. QED
    BY <2>1, <2>3, <2>6, <2>7 DEF TrustInv, RevocationsBlock
<1>15. CASE CrashAndRestart
  <2>1. /\ queue' = <<>> /\ UNCHANGED log
        /\ \A s \in Sessions : pc'[s] \in {"idle", "ended", "denied"}
        /\ \A r \in Revokes : rpc'[r] \in {"idle", "refused", "past"}
    BY <1>0, <1>15 DEF CrashAndRestart, CreateStates, RevokeStates
  <2>2. \A w \in Workspaces : "trusted" \in {record'[w], disk'[w]} => disk[w] = "trusted"
    BY <1>0, <1>15 DEF CrashAndRestart, Load, NoRecords
  <2>3. TrustIsAudited'
    BY <2>1, <2>2 DEF TrustInv, TrustIsAudited
  <2>4. QueueInv'
    BY <2>1 DEF QueueInv
  <2>5. QED
    BY <2>1, <2>3, <2>4 DEF TrustInv, RevocationsBlock, DecisionsStand
<1>16. QED
  BY <1>1, <1>2, <1>3, <1>4, <1>5, <1>6, <1>7, <1>8, <1>9, <1>10, <1>11, <1>12, <1>13,
     <1>14, <1>15
  DEF Next, CreateNext, SessionNext, GrantNext, RevokeNext

-----------------------------------------------------------------------------
(* Processes.  These facts need a runner whose kill does not give up and    *)
(* whose spawn does not throw: with either, TLC finds the counterexamples.  *)
Reliable == ~ReapTimeouts /\ ~PayloadFaults

(* A process belongs to a live session; it is found by a revocation, or it  *)
(* was cancelled before it was spawned.                                     *)
ProcInv ==
    /\ removing \subseteq cancelled
    /\ \A s \in Sessions : proc[s] \in {"starting", "alive"} =>
          /\ pc[s] = "live"
          /\ WorkspaceOf[s] # None =>
                s \in indexed \/ (proc[s] = "starting" /\ s \in cancelled)

(* From the teardown on, what has not spawned is cancelled, and what has is *)
(* being waited for; once the revocation has answered there is none left.   *)
QuietInv ==
    \A r \in Revokes : rpc[r] \in {"tearing", "revoked"} =>
        \A s \in In(RevokeOf[r]) :
            /\ proc[s] = "starting" => s \in cancelled
            /\ proc[s] = "alive" => rpc[r] = "tearing" /\ s \in snapshot[r]

(* Steps that start no process and forget no session. *)
LEMMA QuietStutter ==
    ASSUME ProcInv, QuietInv,
           UNCHANGED <<indexed, removing, rpc, snapshot>>, cancelled \subseteq cancelled',
           \A s \in Sessions : proc'[s] \in {"starting", "alive"} =>
               proc'[s] = proc[s] /\ (pc[s] = "live" => pc'[s] = "live")
    PROVE  ProcInv' /\ QuietInv'
  BY DEF ProcInv, QuietInv, In

LEMMA QuietNext ==
    ASSUME Reliable, TypeOK, SessionInv, TrustInv, ProcInv, QuietInv, [Next]_vars
    PROVE  ProcInv' /\ QuietInv'
<1>0. /\ pc \in [Sessions -> CreateStates] /\ proc \in [Sessions -> ProcStates]
      /\ rpc \in [Revokes -> RevokeStates] /\ snapshot \in [Revokes -> SUBSET Sessions]
  BY DEF TypeOK, SessionTypes, TrustTypes
<1>1. CASE UNCHANGED vars
  BY <1>1, QuietStutter DEF vars
<1>2. ASSUME NEW s \in Sessions,
             \/ CreateArrives(s) \/ CreateRefusedForItsContent(s) \/ CreateResolved(s)
             \/ CreateRevalidated(s) \/ CreateInspected(s) \/ CreateDetected(s)
             \/ CreateUnaudited(s) \/ CreateAudited(s) \/ CreateDenied(s) \/ CreateThrows(s)
      PROVE  ProcInv' /\ QuietInv'
  <2>1. pc[s] # "live" /\ \E to \in CreateStates : pc' = [pc EXCEPT ![s] = to]
    BY <1>2
    DEF CreateStates, CreateArrives, CreateRefusedForItsContent, CreateResolved,
        CreateRevalidated, CreateInspected, CreateDetected, CreateUnaudited, CreateAudited,
        CreateDenied, CreateThrows, AtCreate
  <2>2. UNCHANGED <<proc, cancelled, indexed, removing, rpc, snapshot>>
    BY <1>2
    DEF CreateArrives, CreateRefusedForItsContent, CreateResolved, CreateRevalidated,
        CreateInspected, CreateDetected, CreateUnaudited, CreateAudited, CreateDenied, CreateThrows
  <2>3. \A t \in Sessions : pc[t] = "live" => pc'[t] = "live"
    BY <1>0, <2>1
  <2>4. QED
    BY <2>2, <2>3, QuietStutter
<1>3. ASSUME NEW s \in Sessions, CreateSucceeds(s)
      PROVE  ProcInv' /\ QuietInv'
  <2>1. /\ \A t \in Sessions : /\ pc'[t] = IF t = s THEN "live" ELSE pc[t]
                               /\ proc'[t] = IF t = s THEN "starting" ELSE proc[t]
        /\ UNCHANGED <<cancelled, removing, rpc, snapshot>>
        /\ indexed' = IF WorkspaceOf[s] = None THEN indexed ELSE indexed \union {s}
        /\ WorkspaceOf[s] # None => WorkspaceOf[s] \notin blocked
    BY <1>0, <1>3 DEF CreateSucceeds, Admitted, Changed
  <2>2. ProcInv'
    BY <2>1 DEF ProcInv
  <2>3. \A r \in Revokes : rpc[r] \in {"tearing", "revoked"} => s \notin In(RevokeOf[r])
    BY <2>1, AdmissionAssumption DEF In, TrustInv, RevocationsBlock
  <2>4. QuietInv'
    BY <2>1, <2>3 DEF QuietInv, In
  <2>5. QED
    BY <2>2, <2>4
<1>4. ASSUME NEW s \in Sessions, Spawn(s)
      PROVE  ProcInv' /\ QuietInv'
  <2>1. /\ UNCHANGED <<pc, cancelled, removing, indexed, rpc, snapshot>>
        /\ proc[s] = "starting" /\ s \notin cancelled
        /\ \A t \in Sessions : proc'[t] = IF t = s THEN "alive" ELSE proc[t]
    BY <1>0, <1>4 DEF Spawn
  <2>2. ProcInv'
    BY <2>1 DEF ProcInv
  <2>3. QuietInv'
    BY <2>1 DEF QuietInv, In
  <2>4. QED
    BY <2>2, <2>3
<1>5. ASSUME NEW s \in Sessions, LaunchFails(s) \/ ProcessExits(s)
      PROVE  ProcInv' /\ QuietInv'
  BY <1>0, <1>5, QuietStutter DEF LaunchFails, ProcessExits
<1>6. ASSUME NEW s \in Sessions, StreamEnds(s)
      PROVE  ProcInv' /\ QuietInv'
  <2>1. /\ proc[s] = "gone" /\ indexed' = indexed \ {s}
        /\ \A t \in Sessions : pc'[t] = IF t = s THEN "ended" ELSE pc[t]
        /\ UNCHANGED <<proc, cancelled, removing, rpc, snapshot>>
    BY <1>0, <1>6 DEF StreamEnds, Finish
  <2>2. QED
    BY <2>1 DEF ProcInv, QuietInv, In
<1>7. ASSUME NEW s \in Sessions, KillGivesUp(s) \/ AdapterCrashes(s)
      PROVE  FALSE
  BY <1>7 DEF KillGivesUp, AdapterCrashes, Reliable
<1>8. ASSUME NEW s \in Sessions, GiveUpStream(s) \/ Cancel(s)
      PROVE  ProcInv' /\ QuietInv'
  BY <1>8, QuietStutter DEF GiveUpStream, Cancel
<1>9. ASSUME NEW s \in Sessions, RemoveBegins(s)
      PROVE  ProcInv' /\ QuietInv'
  BY <1>9 DEF RemoveBegins, ProcInv, QuietInv, In
<1>10. ASSUME NEW s \in Sessions, RemoveEnds(s)
       PROVE  ProcInv' /\ QuietInv'
  BY <1>10 DEF RemoveEnds, Reliable, ProcInv, QuietInv, In
<1>11. ASSUME NEW g \in Grants, GrantNext(g)
       PROVE  ProcInv' /\ QuietInv'
  <2>1. UNCHANGED <<pc, proc, cancelled, indexed, removing, rpc, snapshot>>
    BY <1>11
    DEF GrantNext, GrantDecides, GrantUnaudited, GrantConsumed, GrantRecorded, GrantOpens,
        GrantRollsBack, GrantDenied
  <2>2. QED
    BY <2>1, QuietStutter
<1>12. ASSUME NEW r \in Revokes, RevokeBegins(r)
       PROVE  ProcInv' /\ QuietInv'
  <2>1. /\ UNCHANGED <<pc, proc, cancelled, indexed, removing, snapshot>>
        /\ \E to \in {"refused", "auditing"} : rpc' = [rpc EXCEPT ![r] = to]
    BY <1>12 DEF RevokeBegins
  <2>2. QED
    BY <1>0, <2>1 DEF ProcInv, QuietInv, In
<1>13. ASSUME NEW r \in Revokes, RevokeTearsDown(r)
       PROVE  ProcInv' /\ QuietInv'
  <2> DEFINE sessions == {s \in indexed : WorkspaceOf[s] = RevokeOf[r]}
  <2>1. /\ UNCHANGED <<pc, proc, indexed, removing>>
        /\ rpc' = [rpc EXCEPT ![r] = "tearing"]
        /\ snapshot' = [snapshot EXCEPT ![r] = sessions]
        /\ cancelled' = cancelled \union sessions
    BY <1>13 DEF RevokeTearsDown
  <2>2. ProcInv'
    BY <2>1 DEF ProcInv
  <2>3. ASSUME NEW s \in In(RevokeOf[r])
        PROVE  /\ proc[s] = "starting" => s \in cancelled'
               /\ proc[s] = "alive" => s \in sessions
    BY <2>1, AdmissionAssumption DEF ProcInv, In
  <2>4. QuietInv'
    BY <1>0, <2>1, <2>3 DEF QuietInv, In
  <2>5. QED
    BY <2>2, <2>4
<1>14. ASSUME NEW r \in Revokes, RevokeEnds(r)
       PROVE  ProcInv' /\ QuietInv'
  <2>1. /\ UNCHANGED <<pc, proc, cancelled, indexed, removing, snapshot>>
        /\ rpc[r] = "tearing" /\ rpc' = [rpc EXCEPT ![r] = "revoked"]
        /\ \A s \in snapshot[r] : proc[s] # "alive"
    BY <1>14 DEF RevokeEnds, Reliable
  <2>2. QED
    BY <1>0, <2>1 DEF ProcInv, QuietInv, In
<1>15. CASE WriteTrust
  BY <1>15, QuietStutter DEF WriteTrust
<1>16. CASE CrashAndRestart
  <2>1. /\ removing' = {} /\ cancelled' = {}
        /\ \A s \in Sessions : proc'[s] \notin {"starting", "alive"}
    BY <1>0, <1>16 DEF CrashAndRestart, ProcStates
  <2>2. QED
    BY <2>1 DEF ProcInv, QuietInv, In
<1>17. QED
  BY <1>1, <1>2, <1>3, <1>4, <1>5, <1>6, <1>7, <1>8, <1>9, <1>10, <1>11, <1>12, <1>13,
     <1>14, <1>15, <1>16
  DEF Next, CreateNext, SessionNext, RevokeNext

-----------------------------------------------------------------------------
(* The trust file.  These facts need a disk whose writes succeed: with a    *)
(* failing one, TLC finds the counterexample.                               *)

(* No write that would trust w is in queue q at or after position n. *)
NoTrustFrom(q, w, n) ==
    \A i \in 1..Len(q) : i >= n => ~(q[i].workspace = w /\ q[i].to = "trusted")

(* Nobody's memory of w says trusted, and no queued write will. *)
Lowered(w) == record[w] # "trusted" /\ disk[w] # "trusted" /\ NoTrustFrom(queue, w, 1)

(* A revocation's write is queued and nothing trusts the workspace behind   *)
(* it, or it has been done.                                                 *)
DurableInv ==
    /\ \A i \in 1..Len(queue) : queue[i].by \in Revokes =>
          /\ queue[i].workspace = RevokeOf[queue[i].by]
          /\ queue[i].to # "trusted"
    /\ \A r \in Revokes :
          /\ rpc[r] = "tearing" =>
                \/ Lowered(RevokeOf[r])
                \/ \E i \in 1..Len(queue) : queue[i].by = r /\ NoTrustFrom(queue, RevokeOf[r], i)
          /\ rpc[r] = "revoked" => Lowered(RevokeOf[r])

(* Steps that neither queue nor write. *)
LEMMA DurableStutter ==
    ASSUME DurableInv, UNCHANGED <<queue, record, disk, rpc>>
    PROVE  DurableInv'
  BY DEF DurableInv, Lowered, NoTrustFrom

(* A write is queued that does not trust a workspace being revoked. *)
LEMMA DurableAppend ==
    ASSUME TypeOK, DurableInv, NEW w, NEW to, NEW by, Enqueue(w, to, by),
           UNCHANGED <<record, disk>>,
           by \in Revokes => w = RevokeOf[by] /\ to # "trusted",
           \A r \in Revokes : /\ rpc'[r] \in {"tearing", "revoked"} =>
                                     RevokeOf[r] # w \/ to # "trusted"
                              /\ rpc'[r] = rpc[r] \/ (r = by /\ rpc'[r] = "tearing")
    PROVE  DurableInv'
<1> DEFINE m == [workspace |-> w, to |-> to, by |-> by]
           n == Len(queue)
<1>1. queue \in Seq(Writes) /\ queue' = Append(queue, m)
  BY DEF TypeOK, TrustTypes, Enqueue
<1>2. /\ m.workspace = w /\ m.to = to /\ m.by = by
  OBVIOUS
<1> HIDE DEF m
<1>3. /\ Len(queue') = n + 1 /\ n \in Nat
      /\ queue'[n + 1] = m
      /\ \A i \in 1..n : queue'[i] = queue[i]
  BY <1>1
<1> HIDE DEF n
<1>4. 1..Len(queue') = 1..n \union {n + 1} /\ 1..Len(queue) = 1..n
  BY <1>3 DEF n
<1>5. \A i \in 1..Len(queue') : queue'[i].by \in Revokes =>
          /\ queue'[i].workspace = RevokeOf[queue'[i].by]
          /\ queue'[i].to # "trusted"
  BY <1>2, <1>3, <1>4 DEF DurableInv
<1>6. ASSUME NEW v, v # w \/ to # "trusted", NEW i \in 1..n + 1,
             i = n + 1 \/ NoTrustFrom(queue, v, i)
      PROVE  NoTrustFrom(queue', v, i)
  BY <1>2, <1>3, <1>4, <1>6 DEF NoTrustFrom
<1>7. ASSUME NEW v, v # w \/ to # "trusted", Lowered(v)
      PROVE  Lowered(v)'
  <2>1. 1 \in 1..n + 1
    BY <1>3
  <2>2. NoTrustFrom(queue', v, 1)
    BY <1>6, <1>7, <2>1 DEF Lowered
  <2>3. QED
    BY <1>7, <2>2 DEF Lowered
<1>8. ASSUME NEW r \in Revokes, rpc'[r] = "tearing"
      PROVE  \/ Lowered(RevokeOf[r])'
             \/ \E i \in 1..Len(queue') : queue'[i].by = r /\ NoTrustFrom(queue', RevokeOf[r], i)
  <2>1. CASE r = by /\ rpc[r] # "tearing"
    <3>1. n + 1 \in 1..Len(queue') /\ queue'[n + 1].by = r /\ n + 1 \in 1..n + 1
      BY <1>2, <1>3, <2>1
    <3>2. NoTrustFrom(queue', RevokeOf[r], n + 1)
      BY <1>6, <1>8, <3>1
    <3>3. QED
      BY <3>1, <3>2
  <2>2. CASE rpc[r] = "tearing" /\ Lowered(RevokeOf[r])
    BY <1>7, <1>8, <2>2
  <2>3. ASSUME rpc[r] = "tearing", NEW i \in 1..n, queue[i].by = r, NoTrustFrom(queue, RevokeOf[r], i)
        PROVE  \E j \in 1..Len(queue') : queue'[j].by = r /\ NoTrustFrom(queue', RevokeOf[r], j)
    <3>1. i \in 1..Len(queue') /\ queue'[i].by = r /\ i \in 1..n + 1
      BY <1>3, <1>4, <2>3
    <3>2. NoTrustFrom(queue', RevokeOf[r], i)
      BY <1>6, <1>8, <2>3, <3>1
    <3>3. QED
      BY <3>1, <3>2
  <2>4. rpc[r] = "tearing" \/ r = by
    BY <1>8
  <2>5. QED
    BY <1>4, <2>1, <2>2, <2>3, <2>4 DEF DurableInv
<1>9. ASSUME NEW r \in Revokes, rpc'[r] = "revoked"
      PROVE  Lowered(RevokeOf[r])'
  <2>1. rpc[r] = "revoked" /\ (RevokeOf[r] # w \/ to # "trusted")
    BY <1>9
  <2>2. QED
    BY <1>7, <2>1 DEF DurableInv
<1>10. QED
  BY <1>5, <1>8, <1>9 DEF DurableInv

LEMMA DurableInvNext ==
    ASSUME ~DiskFaults, TypeOK, TrustInv, DurableInv, [Next]_vars
    PROVE  DurableInv'
<1>0. /\ rpc \in [Revokes -> RevokeStates]
      /\ record \in [Workspaces -> TrustStates] /\ disk \in [Workspaces -> TrustStates]
      /\ queue \in Seq(Writes) /\ Len(queue) \in Nat
      /\ \A r \in Revokes : RevokeOf[r] \in Workspaces
  BY AdmissionAssumption DEF TypeOK, TrustTypes
<1>1. CASE UNCHANGED vars
  BY <1>1, DurableStutter DEF vars
<1>2. ASSUME NEW s \in Sessions, CreateNext(s)
      PROVE  DurableInv'
  <2>1. UNCHANGED <<queue, record, disk, rpc>>
    BY <1>2
    DEF CreateNext, CreateArrives, CreateRefusedForItsContent, CreateResolved,
        CreateRevalidated, CreateInspected, CreateDetected, CreateUnaudited, CreateAudited,
        CreateDenied, CreateThrows, CreateSucceeds
  <2>2. QED
    BY <2>1, DurableStutter
<1>3. ASSUME NEW s \in Sessions, SessionNext(s)
      PROVE  DurableInv'
  <2>1. UNCHANGED <<queue, record, disk, rpc>>
    BY <1>3
    DEF SessionNext, Spawn, LaunchFails, ProcessExits, StreamEnds, GiveUpStream, KillGivesUp,
        AdapterCrashes, Cancel, RemoveBegins, RemoveEnds
  <2>2. QED
    BY <2>1, DurableStutter
<1>4. ASSUME NEW g \in Grants, GrantDecides(g) \/ GrantUnaudited(g) \/ GrantConsumed(g)
                              \/ GrantOpens(g) \/ GrantDenied(g)
      PROVE  DurableInv'
  <2>1. UNCHANGED <<queue, record, disk, rpc>>
    BY <1>4 DEF GrantDecides, GrantUnaudited, GrantConsumed, GrantOpens, GrantDenied
  <2>2. QED
    BY <2>1, DurableStutter
<1>5. ASSUME NEW g \in Grants, GrantRecorded(g)
      PROVE  DurableInv'
  <2>1. UNCHANGED <<record, disk, rpc>>
    BY <1>5 DEF GrantRecorded
  <2>2. CASE UNCHANGED queue
    BY <2>1, <2>2, DurableStutter
  <2>3. CASE GrantFor[g] \notin blocked /\ Enqueue(GrantFor[g], "trusted", g)
    <3>1. g \notin Revokes
      BY AdmissionAssumption
    <3>2. \A r \in Revokes : rpc[r] \in {"tearing", "revoked"} => RevokeOf[r] # GrantFor[g]
      BY <2>3 DEF TrustInv, RevocationsBlock
    <3>3. QED
      BY <2>1, <2>3, <3>1, <3>2, DurableAppend
  <2>4. QED
    BY <1>5, <2>2, <2>3 DEF GrantRecorded, Changed
<1>6. ASSUME NEW g \in Grants, GrantRollsBack(g)
      PROVE  DurableInv'
  <2>1. UNCHANGED <<record, disk, rpc>> /\ Enqueue(GrantFor[g], "untrusted", g)
    BY <1>6 DEF GrantRollsBack
  <2>2. g \notin Revokes
    BY AdmissionAssumption
  <2>3. QED
    BY <2>1, <2>2, DurableAppend
<1>7. ASSUME NEW r \in Revokes, RevokeBegins(r)
      PROVE  DurableInv'
  <2>1. /\ UNCHANGED <<queue, record, disk>>
        /\ \E to \in {"refused", "auditing"} : rpc' = [rpc EXCEPT ![r] = to]
    BY <1>7 DEF RevokeBegins
  <2>2. \A q \in Revokes : rpc'[q] \in {"tearing", "revoked"} => rpc[q] = rpc'[q]
    BY <1>0, <2>1
  <2>3. QED
    BY <2>1, <2>2 DEF DurableInv, Lowered, NoTrustFrom
<1>8. ASSUME NEW r \in Revokes, RevokeTearsDown(r)
      PROVE  DurableInv'
  <2>1. UNCHANGED <<record, disk>> /\ rpc' = [rpc EXCEPT ![r] = "tearing"]
    BY <1>8 DEF RevokeTearsDown
  <2>2. PICK to \in {"revoking", "untrusted"} : Enqueue(RevokeOf[r], to, r)
    BY <1>8 DEF RevokeTearsDown
  <2>3. \A q \in Revokes : rpc'[q] = rpc[q] \/ (q = r /\ rpc'[q] = "tearing")
    BY <1>0, <2>1
  <2>4. QED
    BY <2>1, <2>2, <2>3, DurableAppend
<1>9. ASSUME NEW r \in Revokes, RevokeEnds(r)
      PROVE  DurableInv'
  <2>1. /\ UNCHANGED <<queue, record, disk>>
        /\ rpc[r] = "tearing" /\ \A i \in 1..Len(queue) : queue[i].by # r
        /\ \A q \in Revokes : rpc'[q] = IF q = r THEN "revoked" ELSE rpc[q]
    BY <1>0, <1>9 DEF RevokeEnds
  <2>2. Lowered(RevokeOf[r])
    BY <2>1 DEF DurableInv
  <2>3. \A w : Lowered(w)' <=> Lowered(w)
    BY <2>1 DEF Lowered, NoTrustFrom
  <2>4. QED
    BY <2>1, <2>2, <2>3 DEF DurableInv
<1>10. CASE WriteTrust
  <2> DEFINE m == Head(queue)
             n == Len(queue)
  <2>1. /\ UNCHANGED rpc /\ disk' = record'
        /\ \A w \in Workspaces : record'[w] # record[w] => w = m.workspace /\ record'[w] = m.to
    BY <1>0, <1>10 DEF WriteTrust
  <2>2. /\ n \in Nat \ {0} /\ Len(queue') = n - 1
        /\ \A i \in 1..n - 1 : i + 1 \in 1..n /\ queue'[i] = queue[i + 1]
        /\ m = queue[1] /\ m \in Writes
    BY <1>10, QueueTail DEF WriteTrust
  <2>2a. m.workspace \in Workspaces
    BY <2>2 DEF Writes
  <2>2b. m.to # "trusted" => record'[m.workspace] # "trusted"
    BY <1>0, <1>10, <2>2a DEF WriteTrust
  <2> HIDE DEF m, n
  <2>3. 1..Len(queue) = 1..n /\ 1..Len(queue') = 1..n - 1 /\ 1 \in 1..n
    BY <2>2 DEF n
  <2>4. ASSUME NEW w \in Workspaces, NEW i \in 1..n, NoTrustFrom(queue, w, i + 1)
        PROVE  NoTrustFrom(queue', w, i)
    <3> SUFFICES ASSUME NEW j \in 1..n - 1, j >= i
                 PROVE  ~(queue'[j].workspace = w /\ queue'[j].to = "trusted")
      BY <2>3 DEF NoTrustFrom
    <3>1. j + 1 \in 1..n /\ queue'[j] = queue[j + 1] /\ j + 1 >= i + 1
      BY <2>2
    <3>2. QED
      BY <2>3, <2>4, <3>1 DEF NoTrustFrom
  <2>5. ASSUME NEW w \in Workspaces, Lowered(w)
        PROVE  Lowered(w)'
    <3>1. ~(m.workspace = w /\ m.to = "trusted")
      BY <2>2, <2>3, <2>5 DEF Lowered, NoTrustFrom
    <3>2. NoTrustFrom(queue, w, 1 + 1)
      BY <2>2, <2>3, <2>5 DEF Lowered, NoTrustFrom
    <3>3. NoTrustFrom(queue', w, 1)
      BY <2>3, <2>4, <3>2
    <3>4. QED
      BY <2>1, <2>5, <3>1, <3>3 DEF Lowered
  <2>6. ASSUME NEW r \in Revokes, NEW i \in 1..n, queue[i].by = r, NoTrustFrom(queue, RevokeOf[r], i)
        PROVE  \/ Lowered(RevokeOf[r])'
               \/ \E j \in 1..Len(queue') : queue'[j].by = r /\ NoTrustFrom(queue', RevokeOf[r], j)
    <3>1. CASE i = 1
      <4>1. m.workspace = RevokeOf[r] /\ m.to # "trusted"
        BY <2>2, <2>3, <2>6, <3>1 DEF DurableInv
      <4>2. NoTrustFrom(queue, RevokeOf[r], 1 + 1)
        <5>1. \A j \in 1..n : j >= 1 + 1 => j >= i
          BY <2>2, <3>1
        <5>2. QED
          BY <2>3, <2>6, <5>1 DEF NoTrustFrom
      <4>3. NoTrustFrom(queue', RevokeOf[r], 1)
        BY <1>0, <2>3, <2>4, <4>2
      <4>4. QED
        BY <2>1, <2>2b, <4>1, <4>3 DEF Lowered
    <3>2. CASE i # 1
      <4>1. i - 1 \in 1..n - 1 /\ i - 1 \in 1..n /\ (i - 1) + 1 = i
        BY <2>2, <3>2
      <4>2. queue'[i - 1].by = r
        BY <2>2, <2>6, <4>1
      <4>3. NoTrustFrom(queue', RevokeOf[r], i - 1)
        BY <1>0, <2>4, <2>6, <4>1
      <4>4. QED
        BY <2>3, <4>1, <4>2, <4>3
    <3>3. QED
      BY <3>1, <3>2
  <2>7. \A i \in 1..Len(queue') : queue'[i].by \in Revokes =>
            /\ queue'[i].workspace = RevokeOf[queue'[i].by]
            /\ queue'[i].to # "trusted"
    BY <2>2, <2>3 DEF DurableInv
  <2>8. QED
    BY <1>0, <2>1, <2>3, <2>5, <2>6, <2>7 DEF DurableInv
<1>11. CASE CrashAndRestart
  <2>1. queue' = <<>> /\ \A r \in Revokes : rpc'[r] \notin {"tearing", "revoked"}
    BY <1>0, <1>11 DEF CrashAndRestart, RevokeStates
  <2>2. QED
    BY <2>1 DEF DurableInv
<1>12. QED
  BY <1>1, <1>2, <1>3, <1>4, <1>5, <1>6, <1>7, <1>8, <1>9, <1>10, <1>11
  DEF Next, GrantNext, RevokeNext

-----------------------------------------------------------------------------
(* The theorems *)

LEMMA InitInv ==
    Init => TypeOK /\ SessionInv /\ TrustInv /\ ProcInv /\ QuietInv /\ DurableInv
<1> SUFFICES ASSUME Init
             PROVE  TypeOK /\ SessionInv /\ TrustInv /\ ProcInv /\ QuietInv /\ DurableInv
  OBVIOUS
<1>1. TypeOK
  BY AdmissionAssumption
  DEF Init, LimiterInit, Lease!Init, TypeOK, SessionTypes, TrustTypes, AuditTypes,
      CreateStates, ProcStates, GrantStates, RevokeStates, TrustStates
<1>2. SessionInv
  <2>1. Holders(held) = {} /\ \A p \in Providers : Slots(held, p) = {}
    BY AdmissionAssumption DEF Init, LimiterInit, Holders, Slots
  <2>2. Cardinality(Holders(held)) = 0 /\ \A p \in Providers : Cardinality(Slots(held, p)) = 0
    BY <2>1, FS_EmptySet
  <2>3. Counted(held, perProvider)
    BY <2>2, AdmissionAssumption DEF Init, LimiterInit, Counted
  <2>4. QED
    BY <2>3 DEF Init, LimiterInit, Lease!Init, SessionInv, NoLeakedLease, InRoute
<1>3. TrustInv
  BY DEF Init, TrustInv, QueueInv, TrustIsAudited, RevocationsBlock, DecisionsStand
<1>4. ProcInv /\ QuietInv /\ DurableInv
  BY DEF Init, ProcInv, QuietInv, DurableInv
<1>5. QED
  BY <1>1, <1>2, <1>3, <1>4

LEMMA CoreNext ==
    ASSUME TypeOK, SessionInv, TrustInv, [Next]_vars
    PROVE  TypeOK' /\ SessionInv' /\ TrustInv'
<1>1. SessionInv' /\ TrustInv'
  BY SessionInvNext, TrustInvNext
<1>2. perProvider' \in [Providers -> Nat]
  BY <1>1 DEF SessionInv, Counted
<1>3. QED
  BY <1>1, <1>2, TypeOKNext

(* The invariant that everything below rests on. *)
LEMMA CoreInvariant == Spec => [](TypeOK /\ SessionInv /\ TrustInv)
  BY InitInv, CoreNext, PTL DEF Spec

(* Every variable keeps its type, for any number of sessions, workspaces    *)
(* and restarts; in particular a counter of the limiter never goes below 0, *)
(* so release() never throws.                                               *)
THEOREM TypesAreKept == Spec => []TypeOK
  BY CoreInvariant, PTL

(* The limiter's maps agree with each other and with the live sessions, and *)
(* neither limit is ever exceeded, whatever requests are in flight.         *)
THEOREM LimitsAreKept == Spec => []LimiterExact
<1>1. SessionInv => LimiterExact
  <2> SUFFICES ASSUME SessionInv PROVE LimiterExact
    OBVIOUS
  <2>1. Holding = Holders(held) /\ \A p \in Providers : Slots(held, p) = {s \in Sessions : held[s] = p}
    BY DEF Holding, Holders, Slots
  <2>2. QED
    BY <2>1 DEF SessionInv, Counted, LimiterExact
<1>2. QED
  BY <1>1, CoreInvariant, PTL

(* A lease is held by a request past its grant or by a live session, and a  *)
(* session in a workspace was allowed by an entry of the audit log: on      *)
(* every path through the route, the launch, the removal and a restart.     *)
THEOREM LeasesAreReturned == Spec => [](NoLeakedLease /\ StartIsAudited)
<1>1. SessionInv => NoLeakedLease /\ StartIsAudited
  BY DEF SessionInv, StartIsAudited
<1>2. QED
  BY <1>1, CoreInvariant, PTL

(* Trust, in memory and on disk, comes only from an audited grant. *)
THEOREM GrantsAreAudited == Spec => []TrustIsAudited
<1>1. TrustInv => TrustIsAudited
  BY DEF TrustInv
<1>2. QED
  BY <1>1, CoreInvariant, PTL

(* The process facts, for a runner whose kills do not give up and whose     *)
(* spawns do not throw.                                                     *)
LEMMA ProcessInvariant ==
    ASSUME Reliable
    PROVE  Spec => [](SessionInv /\ ProcInv /\ QuietInv)
<1>1. ASSUME TypeOK /\ SessionInv /\ TrustInv, ProcInv /\ QuietInv, [Next]_vars
      PROVE  ProcInv' /\ QuietInv'
  BY <1>1, QuietNext
<1>2. QED
  BY <1>1, InitInv, CoreInvariant, PTL DEF Spec

(* With a reliable runner a workspace never has two sessions or processes   *)
(* at work in it, for any number of requests.                               *)
THEOREM WorkspacesAreExclusive ==
    ASSUME Reliable
    PROVE  Spec => []OneSessionPerWorkspace
<1>1. SessionInv /\ ProcInv => OneSessionPerWorkspace
  <2> SUFFICES ASSUME SessionInv, ProcInv, NEW w \in Workspaces, NEW s \in In(w), NEW t \in In(w),
                      pc[s] = "live" \/ proc[s] \in {"starting", "alive"},
                      pc[t] = "live" \/ proc[t] \in {"starting", "alive"}
               PROVE  s = t
    BY DEF OneSessionPerWorkspace
  <2>1. /\ s \in Sessions /\ pc[s] = "live" /\ WorkspaceOf[s] = w
        /\ t \in Sessions /\ pc[t] = "live" /\ WorkspaceOf[t] = w
    BY DEF ProcInv, In
  <2>2. holder[w] = s /\ holder[w] = t
    BY <2>1, AdmissionAssumption DEF SessionInv
  <2>3. QED
    BY <2>2
<1>2. QED
  BY <1>1, ProcessInvariant, PTL

(* With a reliable runner an answered revocation leaves nothing running in  *)
(* the workspace, and nothing on its way that could start.                  *)
THEOREM RevocationsQuieten ==
    ASSUME Reliable
    PROVE  Spec => []RevokedIsQuiet
<1>1. QuietInv => RevokedIsQuiet
  BY DEF QuietInv, RevokedIsQuiet
<1>2. QED
  BY <1>1, ProcessInvariant, PTL

(* With a disk that takes its writes an answered revocation is in the file, *)
(* whatever grants are in flight.                                           *)
THEOREM RevocationsLast ==
    ASSUME ~DiskFaults
    PROVE  Spec => []RevocationIsDurable
<1>1. DurableInv => RevocationIsDurable
  BY DEF DurableInv, Lowered, RevocationIsDurable
<1>2. ASSUME TypeOK /\ SessionInv /\ TrustInv, DurableInv, [Next]_vars
      PROVE  DurableInv'
  BY <1>2, DurableInvNext
<1>3. QED
  BY <1>1, <1>2, InitInv, CoreInvariant, PTL DEF Spec

(* Nothing but a restart lifts a block. *)
THEOREM BlocksStay == Spec => BlockIsNeverLifted
<1>1. ASSUME TypeOK, [Next]_vars
      PROVE  blocked \subseteq blocked' \/ crashes' # crashes
  <2>1. ASSUME NEW s \in Sessions, CreateNext(s)
        PROVE  blocked' = blocked
    BY <2>1
    DEF CreateNext, CreateArrives, CreateRefusedForItsContent, CreateResolved,
        CreateRevalidated, CreateInspected, CreateDetected, CreateUnaudited, CreateAudited,
        CreateDenied, CreateThrows, CreateSucceeds
  <2>2. ASSUME NEW s \in Sessions, SessionNext(s)
        PROVE  blocked' = blocked
    BY <2>2
    DEF SessionNext, Spawn, LaunchFails, ProcessExits, StreamEnds, GiveUpStream, KillGivesUp,
        AdapterCrashes, Cancel, RemoveBegins, RemoveEnds
  <2>3. ASSUME NEW g \in Grants, GrantNext(g)
        PROVE  blocked \subseteq blocked'
    BY <2>3
    DEF GrantNext, GrantDecides, GrantUnaudited, GrantConsumed, GrantRecorded, GrantOpens,
        GrantRollsBack, GrantDenied, Changed, AllowWorkspace, BlockWorkspace
  <2>4. ASSUME NEW r \in Revokes, RevokeNext(r)
        PROVE  blocked \subseteq blocked'
    BY <2>4 DEF RevokeNext, RevokeBegins, RevokeTearsDown, RevokeEnds, BlockWorkspace
  <2>5. CASE WriteTrust \/ UNCHANGED vars
    BY <2>5 DEF WriteTrust, vars
  <2>6. CASE CrashAndRestart
    BY <1>1, <2>6 DEF CrashAndRestart, TypeOK, SessionTypes
  <2>7. QED
    BY <1>1, <2>1, <2>2, <2>3, <2>4, <2>5, <2>6 DEF Next
<1>2. QED
  BY <1>1, CoreInvariant, PTL DEF Spec, BlockIsNeverLifted

(* A session starts only where the trust record says "trusted" at that      *)
(* moment and nothing is blocked, however long ago the record was read.     *)
THEOREM StartsAreTrusted == Spec => StartsOnlyWhereTrusted
<1>1. ASSUME TypeOK /\ SessionInv /\ TrustInv, [Next]_vars,
             NEW s \in Sessions, pc[s] # "live", pc'[s] = "live", WorkspaceOf[s] # None
      PROVE  WorkspaceOf[s] \notin blocked /\ record[WorkspaceOf[s]] = "trusted"
  <2>0. pc \in [Sessions -> CreateStates]
    BY <1>1 DEF TypeOK, SessionTypes
  <2>1. ASSUME NEW t \in Sessions, CreateSucceeds(t)
        PROVE  WorkspaceOf[s] \notin blocked /\ record[WorkspaceOf[s]] = "trusted"
    <3>1. t = s /\ pc[s] = "leased" /\ WorkspaceOf[s] \notin blocked
      BY <1>1, <2>0, <2>1 DEF CreateSucceeds, AtCreate, Admitted, Changed
    <3>2. QED
      BY <1>1, <3>1 DEF TrustInv, DecisionsStand
  <2>2. ASSUME NEW t \in Sessions,
               \/ CreateArrives(t) \/ CreateRefusedForItsContent(t) \/ CreateResolved(t)
               \/ CreateRevalidated(t) \/ CreateInspected(t) \/ CreateDetected(t)
               \/ CreateUnaudited(t) \/ CreateAudited(t) \/ CreateDenied(t) \/ CreateThrows(t)
        PROVE  FALSE
    <3>1. \E to \in CreateStates \ {"live"} : pc' = [pc EXCEPT ![t] = to]
      BY <2>2
      DEF CreateStates, CreateArrives, CreateRefusedForItsContent, CreateResolved,
          CreateRevalidated, CreateInspected, CreateDetected, CreateUnaudited, CreateAudited,
          CreateDenied, CreateThrows
    <3>2. QED
      BY <1>1, <2>0, <3>1
  <2>3. ASSUME NEW t \in Sessions, SessionNext(t)
        PROVE  FALSE
    <3>1. pc' = pc \/ pc' = [pc EXCEPT ![t] = "ended"]
      BY <2>3
      DEF SessionNext, Spawn, LaunchFails, ProcessExits, StreamEnds, GiveUpStream,
          KillGivesUp, AdapterCrashes, Cancel, RemoveBegins, RemoveEnds, Finish
    <3>2. QED
      BY <1>1, <2>0, <3>1
  <2>4. ASSUME NEW g \in Grants, GrantNext(g)
        PROVE  FALSE
    BY <1>1, <2>4
    DEF GrantNext, GrantDecides, GrantUnaudited, GrantConsumed, GrantRecorded, GrantOpens,
        GrantRollsBack, GrantDenied
  <2>5. ASSUME NEW r \in Revokes, RevokeNext(r)
        PROVE  FALSE
    BY <1>1, <2>5 DEF RevokeNext, RevokeBegins, RevokeTearsDown, RevokeEnds
  <2>6. CASE WriteTrust \/ UNCHANGED vars
    BY <1>1, <2>6 DEF WriteTrust, vars
  <2>7. CASE CrashAndRestart
    BY <1>1, <2>0, <2>7 DEF CrashAndRestart, CreateStates
  <2>8. QED
    BY <1>1, <2>1, <2>2, <2>3, <2>4, <2>5, <2>6, <2>7 DEF Next, CreateNext
<1>2. ASSUME TypeOK /\ SessionInv /\ TrustInv, [Next]_vars
      PROVE  \A s \in Sessions : pc[s] # "live" /\ pc'[s] = "live" /\ WorkspaceOf[s] # None =>
                 WorkspaceOf[s] \notin blocked /\ record[WorkspaceOf[s]] = "trusted"
  BY <1>1, <1>2
<1>3. QED
  BY <1>2, CoreInvariant, PTL DEF Spec, StartsOnlyWhereTrusted
=============================================================================
