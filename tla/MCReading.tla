----------------------------- MODULE MCReading -----------------------------
(***************************************************************************)
(* An instance of Reading for TLC: two boards with a thread each, and a    *)
(* reply in one of them that answers its first post.                       *)
(***************************************************************************)
EXTENDS Reading, TLC

CONSTANTS b1, b2, t1, t2, p1, p2, p3

BoardOfThread == t1 :> b1 @@ t2 :> b2
ThreadOfPost == p1 :> t1 @@ p2 :> t1 @@ p3 :> t2
Answers == p1 :> None @@ p2 :> p1 @@ p3 :> None

=============================================================================
