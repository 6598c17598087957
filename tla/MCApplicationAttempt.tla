------------------------ MODULE MCApplicationAttempt ------------------------
(* Instances of ApplicationAttempt for TLC. *)
EXTENDS ApplicationAttempt
CONSTANTS a1, a2
=============================================================================
