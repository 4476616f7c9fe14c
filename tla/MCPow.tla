------------------------------- MODULE MCPow -------------------------------
(***************************************************************************)
(* An instance of Pow for TLC: two challenges, one of them with two        *)
(* spellings of its signature.                                             *)
(***************************************************************************)
EXTENDS Pow, TLC

CONSTANTS c1, c2, lower1, upper1, lower2

Signed == lower1 :> c1 @@ upper1 :> c1 @@ lower2 :> c2

Symmetry == Permutations(Requests) \cup Permutations({lower1, upper1})

=============================================================================
