------------------------- MODULE MCSessionAdmission -------------------------
(* Instances of SessionAdmission for TLC. *)
EXTENDS SessionAdmission, TLC

CONSTANTS s1, s2, s3, g1, r1, w1, claude

(* One workspace that everybody wants. *)
OneWorkspace == [s \in Sessions |-> w1]
AllClaude == [s \in Sessions |-> claude]
GrantW1 == [g \in Grants |-> w1]
RevokeW1 == [r \in Revokes |-> w1]

(* Two sessions in the workspace and one v1 session without any. *)
MixedWorkspaces == [s \in Sessions |-> IF s = s3 THEN None ELSE w1]

(* The two are interchangeable. *)
Symmetry == Permutations({s1, s2})
=============================================================================
