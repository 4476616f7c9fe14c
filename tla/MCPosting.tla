----------------------------- MODULE MCPosting -----------------------------
(***************************************************************************)
(* Instances of Posting for TLC.                                           *)
(***************************************************************************)
EXTENDS Posting, TLC

Symmetry ==
    Permutations(Requests) \cup Permutations(Threads) \cup Permutations(Posts)

=============================================================================
