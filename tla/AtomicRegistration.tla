------------------------- MODULE AtomicRegistration -------------------------
(***************************************************************************)
(* What registration promises, whatever its statements wait for and        *)
(* however they fail: an account is there from one step to the next, under *)
(* a name nobody has, and that same step takes one use of an invite that   *)
(* still has one and is not revoked.  There is no half of a registration.  *)
(***************************************************************************)
EXTENDS Integers

CONSTANTS Names, Codes, MaxUses, None

VARIABLES accounts,   \* accounts made: the name, and the invite it came with
          uses        \* [Codes -> [max: Nat, count: Nat, revoked: BOOLEAN]];
                      \* a code nobody drew has max = 0

vars == <<accounts, uses>>

Init ==
    /\ accounts = {}
    /\ uses = [c \in Codes |-> [max |-> 0, count |-> 0, revoked |-> FALSE]]

\* Nobody has the name.
Free(n) == \A a \in accounts : a.name # n

Register(n) ==
    /\ Free(n)
    /\ accounts' = accounts \cup {[name |-> n, via |-> None]}
    /\ UNCHANGED uses

RegisterInvited(n, c) ==
    /\ Free(n)
    /\ uses[c].count < uses[c].max /\ ~uses[c].revoked
    /\ accounts' = accounts \cup {[name |-> n, via |-> c]}
    /\ uses' = [uses EXCEPT ![c].count = @ + 1]

Invite(c, m) ==
    /\ uses[c].max = 0
    /\ uses' = [uses EXCEPT ![c].max = m]
    /\ UNCHANGED accounts

Revoke(c) ==
    /\ uses[c].max > 0 /\ ~uses[c].revoked
    /\ uses' = [uses EXCEPT ![c].revoked = TRUE]
    /\ UNCHANGED accounts

Next ==
    \/ \E n \in Names : Register(n) \/ \E c \in Codes : RegisterInvited(n, c)
    \/ \E c \in Codes : Revoke(c) \/ \E m \in MaxUses : Invite(c, m)

Spec == Init /\ [][Next]_vars

=============================================================================
