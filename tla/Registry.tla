------------------------------ MODULE Registry ------------------------------
(***************************************************************************)
(* What the identity table promises about one Lark user, with the items,   *)
(* the replicas and the two Lambdas that work on them left out: a stranger *)
(* becomes a known user in one step, which takes a permission; a known     *)
(* user gets a session, which may be exchanged for another for a while,    *)
(* and in the end has one for good.                                        *)
(***************************************************************************)
CONSTANTS SessionIds, None, RegistrationOpen

VARIABLES
    permitted,  \* the user has been on the allowlist at some time
    known,
    session,
    final       \* the session is there for good

vars == <<permitted, known, session, final>>

Init ==
    /\ permitted = FALSE /\ known = FALSE
    /\ session = None /\ final = FALSE

Permit ==
    /\ permitted' = TRUE
    /\ UNCHANGED <<known, session, final>>

Enter ==
    /\ permitted \/ RegistrationOpen
    /\ known' = TRUE
    /\ UNCHANGED <<permitted, session, final>>

OpenSession ==
    /\ known /\ ~final
    /\ session' \in SessionIds
    /\ final' \in BOOLEAN
    /\ UNCHANGED <<permitted, known>>

Finalize ==
    /\ session # None /\ ~final
    /\ final' = TRUE
    /\ UNCHANGED <<permitted, known, session>>

Next == Permit \/ Enter \/ OpenSession \/ Finalize

\* Nothing is taken back, and each change is one of these.
Safety == Init /\ [][Next]_vars

Spec == Safety /\ WF_vars(Finalize)

=============================================================================
