---------------------------- MODULE MCGovernance ----------------------------
(***************************************************************************)
(* An instance of Governance for TLC: an owner, and a user who may become  *)
(* moderator of one of two boards.                                         *)
(***************************************************************************)
EXTENDS Governance, TLC

CONSTANTS o, m, b1, b2

ModeratesOne == {<<m, b1>>}
Symmetry == Permutations(Requests)

=============================================================================
