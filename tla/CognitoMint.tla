---------------------------- MODULE CognitoMint ----------------------------
(***************************************************************************)
(* The Cognito user behind one lark:{open_id}, and the two programs that   *)
(* provision it and mint its tokens without knowing of each other: the     *)
(* web_api Lambda at a login (cognito_mint.py) and the agent container     *)
(* when its token cache runs out (agent/identity.py).                      *)
(*                                                                         *)
(* The password is an HMAC of the username under a salt that each process  *)
(* reads once and caches.  HMAC is taken to be injective, so a password is *)
(* the version of the salt it was derived from.  A process runs one mint   *)
(* at a time: a Lambda instance by itself, a container under _lock.        *)
(***************************************************************************)
EXTENDS Naturals

CONSTANTS
    Webs,          \* warm instances of the web_api Lambda
    Agents,        \* microVMs of the user
    NoSalt,        \* nothing cached, or no password set
    MaxRotations,  \* bound: how often the salt is replaced
    MaxDeletes     \* bound: how often an operator deletes the user

Procs == Webs \cup Agents
Salts == 0..MaxRotations

ASSUME BoundsAssumption == MaxRotations \in Nat /\ MaxDeletes \in Nat
ASSUME SidesAssumption == Webs \cap Agents = {}
ASSUME NoSaltAssumption == NoSalt \notin Salts

VARIABLES
    salt,       \* the version in Secrets Manager
    exists,     \* the user is in the pool
    password,   \* the salt its password was derived from, NoSalt when unset
    cached,     \* _salt, _password_salt
    pc,
    retried,    \* the agent is past its first refusal
    result,     \* how the last mint ended
    deletes,    \* how often the user was deleted
    disturbed   \* ghost: the user changed during this mint without its knowing

user == <<exists, password>>
vars == <<salt, user, cached, pc, retried, result, deletes, disturbed>>

Calls == {"get", "create", "set", "reset", "auth"}
Refusals == {"UsernameExists", "UserNotFound", "NotAuthorized"}

TypeOK ==
    /\ salt \in Salts
    /\ exists \in BOOLEAN
    /\ password \in Salts \cup {NoSalt}
    /\ password # NoSalt => exists
    /\ cached \in [Procs -> Salts \cup {NoSalt}]
    /\ \A p \in Procs : cached[p] # NoSalt => cached[p] <= salt
    /\ pc \in [Procs -> Calls \cup {"idle"}]
    /\ retried \in [Procs -> BOOLEAN]
    /\ \A p \in Procs : pc[p] = "reset" => p \in Agents /\ retried[p]
    /\ result \in [Procs -> Refusals \cup {"none", "token", "error"}]
    /\ deletes \in 0..MaxDeletes
    /\ disturbed \in [Procs -> BOOLEAN]

Init ==
    /\ salt = 0
    /\ exists = FALSE
    /\ password = NoSalt
    /\ cached = [p \in Procs |-> NoSalt]
    /\ pc = [p \in Procs |-> "idle"]
    /\ retried = [p \in Procs |-> FALSE]
    /\ result = [p \in Procs |-> "none"]
    /\ deletes = 0
    /\ disturbed = [p \in Procs |-> FALSE]

---------------------------------------------------------------------------
Goto(p, step) ==
    /\ pc' = [pc EXCEPT ![p] = step]
    /\ UNCHANGED <<retried, result>>

\* The call returns or raises to the handler.
End(p, how) ==
    /\ pc' = [pc EXCEPT ![p] = "idle"]
    /\ retried' = [retried EXCEPT ![p] = FALSE]
    /\ result' = [result EXCEPT ![p] = how]

\* Every mint under way, except p's own, sees the user change.
Disturb(p) ==
    disturbed' = [q \in Procs |-> disturbed[q]
                    \/ (q # p /\ pc[q] # "idle" /\ user' # user)]

\* mint_id_token, or get_user_jwt with no cached token that lasts.
Begin(p) ==
    /\ pc[p] = "idle"
    /\ pc' = [pc EXCEPT ![p] = "get"]
    /\ result' = [result EXCEPT ![p] = "none"]
    /\ disturbed' = [disturbed EXCEPT ![p] = FALSE]
    /\ UNCHANGED <<salt, user, cached, retried, deletes>>

\* Mutants of WhenFound: the retry forgets to set the password; the web side
\* trusts a user that is there to have one.
RetryAuthOnly(p) == IF p \in Webs THEN "set" ELSE "auth"

WebAuthOnly(p) == IF p \in Agents /\ retried[p] THEN "reset" ELSE "auth"

\* Where a mint goes on when the user is there: the web side sets the
\* password at every login, the agent only after a refusal.
WhenFound(p) ==
    IF p \in Webs THEN "set" ELSE IF retried[p] THEN "reset" ELSE "auth"

AdminGetUser(p) ==
    /\ pc[p] = "get"
    /\ Goto(p, IF exists THEN WhenFound(p) ELSE "create")
    /\ UNCHANGED <<salt, user, cached, deletes, disturbed>>

AdminCreateUser(p) ==
    /\ pc[p] = "create"
    /\ ~exists
    /\ exists' = TRUE
    /\ Goto(p, "set")
    /\ UNCHANGED <<salt, password, cached, deletes>>
    /\ Disturb(p)

\* The user is created, but the answer does not come, and the client of Cognito
\* calls again.  (The other calls can be repeated without harm.)
CreateRepeats(p) ==
    /\ pc[p] = "create"
    /\ ~exists
    /\ exists' = TRUE
    /\ disturbed' = [q \in Procs |-> disturbed[q] \/ pc[q] # "idle"]
    /\ UNCHANGED <<salt, password, cached, pc, retried, result, deletes>>

\* Another process created it since, or an attempt of the same call; neither
\* side expects that.
CreateRefused(p) ==
    /\ pc[p] = "create"
    /\ exists
    /\ End(p, "UsernameExists")
    /\ UNCHANGED <<salt, user, cached, deletes, disturbed>>

\* The password is an argument of the set and auth calls, so the salt is
\* read before the first of them.
GetSalt(p) ==
    /\ pc[p] \in {"set", "reset", "auth"}
    /\ cached[p] = NoSalt
    /\ cached' = [cached EXCEPT ![p] = salt]
    /\ UNCHANGED <<salt, user, pc, retried, result, deletes, disturbed>>

\* Mutant of AfterSet: the password is set twice in the first round too.
AfterSetTwice(p) ==
    IF p \in Agents /\ pc[p] = "set" THEN "reset" ELSE "auth"

\* A retrying agent that had to create the user sets the password twice:
\* once in _ensure_user, once for the retry.
AfterSet(p) ==
    IF p \in Agents /\ pc[p] = "set" /\ retried[p] THEN "reset" ELSE "auth"

AdminSetUserPassword(p) ==
    /\ pc[p] \in {"set", "reset"}
    /\ cached[p] # NoSalt
    /\ exists
    /\ password' = cached[p]
    /\ Goto(p, AfterSet(p))
    /\ UNCHANGED <<salt, exists, cached, deletes>>
    /\ Disturb(p)

SetRefused(p) ==
    /\ pc[p] \in {"set", "reset"}
    /\ cached[p] # NoSalt
    /\ ~exists
    /\ End(p, "UserNotFound")
    /\ UNCHANGED <<salt, user, cached, deletes, disturbed>>

Accepted(p) == exists /\ password = cached[p]

AuthAccepted(p) ==
    /\ pc[p] = "auth"
    /\ cached[p] # NoSalt
    /\ Accepted(p)
    /\ End(p, "token")
    /\ UNCHANGED <<salt, user, cached, deletes, disturbed>>

\* Mutant of AuthRefused: the agent retries until it is accepted.
RetryForEver(p) ==
    /\ pc[p] = "auth"
    /\ cached[p] # NoSalt
    /\ ~Accepted(p)
    /\ IF p \in Agents
       THEN /\ pc' = [pc EXCEPT ![p] = "get"]
            /\ retried' = [retried EXCEPT ![p] = TRUE]
            /\ UNCHANGED result
       ELSE End(p, IF exists THEN "NotAuthorized" ELSE "UserNotFound")
    /\ UNCHANGED <<salt, user, cached, deletes, disturbed>>

\* The agent provisions and sets the password, once; the web side gives up.
AuthRefused(p) ==
    /\ pc[p] = "auth"
    /\ cached[p] # NoSalt
    /\ ~Accepted(p)
    /\ IF p \in Agents /\ ~retried[p]
       THEN /\ pc' = [pc EXCEPT ![p] = "get"]
            /\ retried' = [retried EXCEPT ![p] = TRUE]
            /\ UNCHANGED result
       ELSE End(p, IF exists THEN "NotAuthorized" ELSE "UserNotFound")
    /\ UNCHANGED <<salt, user, cached, deletes, disturbed>>

\* Any call may fail for another reason; the exception reaches the handler.
Raises(p) ==
    /\ pc[p] # "idle"
    /\ End(p, "error")
    /\ UNCHANGED <<salt, user, cached, deletes, disturbed>>

---------------------------------------------------------------------------
\* The process is killed, or replaced by a cold one.
Restart(p) ==
    /\ End(p, "none")
    /\ cached' = [cached EXCEPT ![p] = NoSalt]
    /\ UNCHANGED <<salt, user, deletes, disturbed>>

Rotate ==
    /\ salt < MaxRotations
    /\ salt' = salt + 1
    /\ UNCHANGED <<user, cached, pc, retried, result, deletes, disturbed>>

Delete ==
    /\ exists /\ deletes < MaxDeletes
    /\ exists' = FALSE
    /\ password' = NoSalt
    /\ deletes' = deletes + 1
    /\ disturbed' = [q \in Procs |-> disturbed[q] \/ pc[q] # "idle"]
    /\ UNCHANGED <<salt, cached, pc, retried, result>>

---------------------------------------------------------------------------
Step(p) ==
    \/ AdminGetUser(p) \/ AdminCreateUser(p) \/ CreateRepeats(p)
    \/ CreateRefused(p) \/ GetSalt(p)
    \/ AdminSetUserPassword(p) \/ SetRefused(p)
    \/ AuthAccepted(p) \/ AuthRefused(p)

Next ==
    \/ \E p \in Procs : Begin(p) \/ Step(p) \/ Raises(p) \/ Restart(p)
    \/ Rotate
    \/ Delete

\* Every call to AWS returns, raises or is cut off by a timeout.
Fairness == \A p \in Procs : WF_vars(Step(p))

Spec == Init /\ [][Next]_vars /\ Fairness

---------------------------------------------------------------------------
(* A mint that nobody disturbs, and whose creation of the user is          *)
(* answered, is never refused, whatever it finds: no user, a user whose    *)
(* creator died before setting a password, a password from another salt, a *)
(* salt that is replaced half-way.  (AWS may still fail.)  This is the     *)
(* repair of _ensure_user and of the retry in get_user_jwt.                *)
OnlyRacesRefuse ==
    \A p \in Procs : result[p] \in Refusals => disturbed[p]

(* As long as the salt was never replaced and nobody deleted the user, the *)
(* two sides may overlap in any way and die anywhere: no password is ever  *)
(* refused in the end, and the one refusal left is that of a second        *)
(* creation, or of a second attempt at one.                                *)
OneSaltAgrees ==
    \A p \in Procs :
        result[p] \in {"NotAuthorized", "UserNotFound"} =>
            salt > 0 \/ deletes > 0

(* A mint ends even while another process keeps setting the password back  *)
(* to its own: "reset and retry once".                                     *)
EveryMintEnds == \A p \in Procs : pc[p] # "idle" ~> pc[p] = "idle"

=============================================================================
