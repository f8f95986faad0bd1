-------------------------- MODULE MCAdminOperators --------------------------
(* Instances of AdminOperators for TLC.                                     *)
EXTENDS AdminOperators, TLC

CONSTANTS ana, bia, r1, r2

Two == {ana, bia}

TwoRequests == {r1, r2}

Ana == {ana}

OneRequest == {r1}

RequestSymmetry == Permutations(Requests)

=============================================================================
