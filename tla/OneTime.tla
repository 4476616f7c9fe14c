------------------------------ MODULE OneTime ------------------------------
(***************************************************************************)
(* What the forum promises of every token it hands out to be used once: a  *)
(* pending login, a recovery code, a captcha.  A token is accepted only    *)
(* while it is live, which it is at most once, and being accepted ends it. *)
(***************************************************************************)
EXTENDS Naturals

CONSTANT Tokens

VARIABLES state,      \* [Tokens -> {"unissued", "live", "spent", "void"}]
          accepted    \* [Tokens -> Nat]: how often the token was accepted

vars == <<state, accepted>>

Init ==
    /\ state \in [Tokens -> {"unissued", "live"}]
    /\ accepted = [t \in Tokens |-> 0]

\* Tokens are handed out and withdrawn, some of each at a time; one may be
\* withdrawn before it was ever handed out.
Renew(issue, withdraw) ==
    /\ \A t \in issue : state[t] = "unissued"
    /\ \A t \in withdraw : state[t] \in {"unissued", "live"}
    /\ state' = [t \in Tokens |-> IF t \in issue THEN "live"
                                  ELSE IF t \in withdraw THEN "void"
                                  ELSE state[t]]
    /\ UNCHANGED accepted

Accept(t) ==
    /\ state[t] = "live"
    /\ state' = [state EXCEPT ![t] = "spent"]
    /\ accepted' = [accepted EXCEPT ![t] = @ + 1]

Next ==
    \/ \E issue, withdraw \in SUBSET Tokens : Renew(issue, withdraw)
    \/ \E t \in Tokens : Accept(t)

Spec == Init /\ [][Next]_vars

=============================================================================
