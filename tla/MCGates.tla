------------------------------ MODULE MCGates ------------------------------
(***************************************************************************)
(* An instance of Gates for TLC: an owner and a member.                    *)
(***************************************************************************)
EXTENDS Gates
=============================================================================
