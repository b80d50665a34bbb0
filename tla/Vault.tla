------------------------------- MODULE Vault -------------------------------
(***************************************************************************)
(* What the token store promises one Lark user, with the bundles, the two  *)
(* Lambdas and the clock left out: a bundle that is stored is good for one *)
(* redemption, after which it is replaced by another good one, by whoever  *)
(* redeemed it or by a login.  Only a fault can lose what it was redeemed  *)
(* for, and then only a login helps.                                       *)
(***************************************************************************)
CONSTANT Faults

VARIABLE state

Init == state = "none"

Store ==
    /\ state # "held"
    /\ state' = "held"

Redeem ==
    /\ state = "held"
    /\ state' = "renewing"

Lose ==
    /\ Faults
    /\ state = "renewing"
    /\ state' = "lost"

Next == Store \/ Redeem \/ Lose

\* A redemption under way ends.
Renewed == state = "renewing" /\ (Store \/ Lose)

Safety == Init /\ [][Next]_state

Spec == Safety /\ WF_state(Renewed)

=============================================================================
