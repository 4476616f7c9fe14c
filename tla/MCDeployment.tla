---------------------------- MODULE MCDeployment ----------------------------
(***************************************************************************)
(* An instance of Deployment for TLC: two releases, the second with one    *)
(* migration more, and a process beside the service.                       *)
(***************************************************************************)
EXTENDS Deployment, TLC

CONSTANTS v1, v2

OneMore == v1 :> 1 @@ v2 :> 2

=============================================================================
