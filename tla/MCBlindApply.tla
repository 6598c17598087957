---------------------------- MODULE MCBlindApply ----------------------------
(* Postings of one employer and role, which are interchangeable. *)
EXTENDS BlindApply, TLC

SameRole == [v \in Vacancies |-> "role"]
Symmetry == Permutations(Vacancies)
=============================================================================
