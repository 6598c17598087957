--------------------------- MODULE ExclusiveLease ---------------------------
(***************************************************************************)
(* What the workspace leases promise their callers: a workspace has at     *)
(* most one holder, a lease is granted only on a free workspace, and only  *)
(* the holder's own release frees it.  WorkspaceLease, asked for write     *)
(* leases only (workspaceLeaseModeFor), implements this specification;     *)
(* SessionAdmission is written on top of it.                               *)
(***************************************************************************)
CONSTANTS
    Holders,        \* who may hold a lease
    Workspaces,
    None

VARIABLE holder     \* the holder of each workspace, or None

Init == holder = [w \in Workspaces |-> None]

Acquire(h, w) ==
    /\ holder[w] = None
    /\ holder' = [holder EXCEPT ![w] = h]

(* Gives back everything h holds; nothing happens when it holds nothing. *)
ReleaseAll(h) ==
    holder' = [w \in Workspaces |-> IF holder[w] = h THEN None ELSE holder[w]]

Next == \E h \in Holders : ReleaseAll(h) \/ \E w \in Workspaces : Acquire(h, w)

Spec == Init /\ [][Next]_holder
=============================================================================
