----------------------------- MODULE MCCaptcha -----------------------------
(***************************************************************************)
(* Instances of Captcha for TLC.                                           *)
(***************************************************************************)
EXTENDS Captcha, TLC

Symmetry == Permutations(Requests) \cup Permutations(Ids)

=============================================================================
