----------------------------- MODULE MCAccount -----------------------------
(***************************************************************************)
(* Instances of Account for TLC: which handlers each request slot runs.    *)
(***************************************************************************)
EXTENDS Account, TLC

CONSTANTS r1, r2

Sessions ==
    r1 :> {"login", "logout", "password", "ban", "unban", "revoke",
           "setup", "confirm", "cancel", "disable"}
    @@ r2 :> {"login", "password", "revoke", "revoke_all", "feature"}

SecondFactor == r1 :> {"login", "totp"} @@ r2 :> {"login", "totp", "password"}

Enrolment ==
    r1 :> {"setup", "confirm", "disable", "regenerate"}
    @@ r2 :> {"login", "totp", "confirm"}

Symmetry == Permutations(SessionIds) \cup Permutations(PendingIds)
            \cup Permutations(Secrets) \cup Permutations(Codes)

=============================================================================
