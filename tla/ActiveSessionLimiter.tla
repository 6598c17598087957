------------------------ MODULE ActiveSessionLimiter ------------------------
(***************************************************************************)
(* The admission counter of apps/daemon/src/active-session-limiter.ts: a   *)
(* map from session id to provider whose size is the global count, and a   *)
(* second map with the count per provider.  reserve() and release() have   *)
(* no await, so each is part of a step of its caller, SessionAdmission.    *)
(***************************************************************************)
EXTENDS Integers, FiniteSets

CONSTANTS
    Sessions, Providers,
    GlobalLimit,        \* ACTIVE_SESSION_LIMITS.global
    ProviderLimit,      \* ACTIVE_SESSION_LIMITS.perProvider
    None

VARIABLES
    held,               \* #held: the provider a session holds a slot of, or None
    perProvider         \* #perProvider; 0 for a provider with no entry

LimiterInit ==
    /\ held = [s \in Sessions |-> None]
    /\ perProvider = [p \in Providers |-> 0]

Holding == {s \in Sessions : held[s] # None}

(* Mutant: one too many. *)
FullOffByOne(p) ==
    \/ Cardinality(Holding) > GlobalLimit
    \/ perProvider[p] > ProviderLimit

(* The global limit is looked at before the provider's; which of the two    *)
(* refuses only changes the wording of the answer.                          *)
Full(p) ==
    \/ Cardinality(Holding) >= GlobalLimit
    \/ perProvider[p] >= ProviderLimit

(* reserve(): throws, and changes nothing, for a session that holds a slot  *)
(* already and when either limit is reached.                                *)
Reserve(p, s) ==
    /\ held[s] = None
    /\ ~Full(p)
    /\ held' = [held EXCEPT ![s] = p]
    /\ perProvider' = [perProvider EXCEPT ![p] = @ + 1]

(* release(): a session that holds nothing is no error.  The throw on an    *)
(* underflow is not modelled as a step; that it cannot happen follows from  *)
(* the accounting invariant of the modules that use the limiter.            *)
Release(s) ==
    /\ held' = [held EXCEPT ![s] = None]
    /\ perProvider' = [p \in Providers |-> IF p = held[s] THEN perProvider[p] - 1
                                                         ELSE perProvider[p]]
=============================================================================
