------------------------- MODULE MCWorkspaceLease -------------------------
(* Instances of WorkspaceLease for TLC. *)
EXTENDS WorkspaceLease
===========================================================================
