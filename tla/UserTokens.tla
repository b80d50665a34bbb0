----------------------------- MODULE UserTokens -----------------------------
(***************************************************************************)
(* The Lark token bundle of one user: one Secrets Manager secret,          *)
(* {prefix}/user-tokens/{open_id}, written by the web_api Lambda at every  *)
(* login and read and refreshed by the tool Lambda whenever the agent      *)
(* calls a document tool.  Nothing orders the two Lambdas: each execution  *)
(* reads the secret, talks to Lark and writes the secret as separate       *)
(* calls.  No operation touches the secret of another open_id, so one      *)
(* secret is the whole of the interaction.                                 *)
(*                                                                         *)
(* A refresh token is single-use: Lark honours it once and answers with    *)
(* the next bundle (its grant), so a bundle is named by the number of the  *)
(* grant that issued it, in the order in which Lark issued them.           *)
(***************************************************************************)
EXTENDS Naturals

CONSTANTS
    Logins,         \* executions of the web_api Lambda that can overlap
    Tools,          \* executions of the tool Lambda that can overlap
    NoBundle,       \* "no such secret", "no bundle in hand"
    Lifetime,       \* expires_in of a user_access_token
    Margin,         \* a token this close to expires_at is refreshed first
    ToolTimeout,    \* the tool Lambda is killed this long after it started
    ExchangeDelay,  \* longest wait of a login from Lark's grant to "now"
    Faults,         \* whether calls fail and Lambdas are killed
    MaxGrants,      \* bound: grants Lark issues
    MaxTime         \* bound: the clock

Grants == 1..MaxGrants
Time   == 0..MaxTime

\* What a bundle holds.  refresh: it has a refresh_token.  issuedAt is Lark's
\* own record of the grant (no reader of the bundle sees it); expiresAt is
\* what the Lambda computed from its clock once the answer had arrived.
Bundle == [gen : Grants, refresh : BOOLEAN, issuedAt : Time,
           expiresAt : 0..(MaxTime + Lifetime)]

ASSUME BoundsAssumption ==
    /\ MaxGrants \in Nat /\ MaxTime \in Nat
    /\ Lifetime \in Nat /\ Margin \in Nat
    /\ ToolTimeout \in Nat /\ ExchangeDelay \in Nat
ASSUME NoBundleAssumption == NoBundle \notin Bundle
ASSUME FaultsAssumption == Faults \in BOOLEAN
\* 60 s of margin against 15 s of tool Lambda and two 10 s Lark calls.
ASSUME MarginAssumption ==
    /\ ExchangeDelay + ToolTimeout <= Margin
    /\ ToolTimeout + ToolTimeout <= Margin
    /\ ToolTimeout < Lifetime

VARIABLES
    now,          \* seconds, one clock for Lark and the Lambdas
    secret,       \* the stored bundle, NoBundle before the first login
    issued,       \* number of grants Lark has issued
    heir,         \* heir[g]: the grant Lark gave for g's refresh_token, or 0
    dropped,      \* refreshed grants that a fault kept from being stored
    toolPc, toolHeld, toolStart, toolAnswer,
    loginPc, loginHeld

larkVars  == <<issued, heir>>
toolVars  == <<toolPc, toolHeld, toolStart, toolAnswer>>
loginVars == <<loginPc, loginHeld>>
vars == <<now, secret, larkVars, dropped, toolVars, loginVars>>

TypeOK ==
    /\ now \in Time
    /\ secret \in Bundle \cup {NoBundle}
    /\ issued \in 0..MaxGrants
    /\ heir \in [Grants -> 0..MaxGrants]
    /\ dropped \subseteq Grants
    /\ toolPc \in [Tools -> {"idle", "refresh", "redeemed", "persist", "use"}]
    /\ toolHeld \in [Tools -> Bundle \cup {NoBundle}]
    /\ toolStart \in [Tools -> Time]
    /\ toolAnswer \in [Tools -> {"none", "served", "unauthorized"}]
    /\ loginPc \in [Logins -> {"idle", "granted", "put", "create"}]
    /\ loginHeld \in [Logins -> Bundle \cup {NoBundle}]
    /\ \A t \in Tools : toolPc[t] = "idle" <=> toolHeld[t] = NoBundle
    /\ \A l \in Logins : loginPc[l] = "idle" <=> loginHeld[l] = NoBundle

Init ==
    /\ now = 0
    /\ secret = NoBundle
    /\ issued = 0
    /\ heir = [g \in Grants |-> 0]
    /\ dropped = {}
    /\ toolPc = [t \in Tools |-> "idle"]
    /\ toolHeld = [t \in Tools |-> NoBundle]
    /\ toolStart = [t \in Tools |-> 0]
    /\ toolAnswer = [t \in Tools |-> "none"]
    /\ loginPc = [l \in Logins |-> "idle"]
    /\ loginHeld = [l \in Logins |-> NoBundle]

-----------------------------------------------------------------------------
(* What Lark does on a grant, and what the Lambdas compute from it. *)

\* The bundle in Lark's answer; expiresAt is filled in by the receiver.
NewBundle(hasRefresh) ==
    [gen |-> issued + 1, refresh |-> hasRefresh, issuedAt |-> now,
     expiresAt |-> 0]

\* expires_at = int(time.time()) + expires_in, once the answer is here.
Stamped(b) == [b EXCEPT !.expiresAt = now + Lifetime]

\* Mutant of Due: no margin.
DueAtExpiry(b) == now >= b.expiresAt

\* time.time() >= expires_at - 60
Due(b) == now + Margin >= b.expiresAt

\* Lark has honoured the refresh token of b already.
Spent(b) == heir[b.gen] # 0

-----------------------------------------------------------------------------
(* A document tool call: _resolve_token, then calls to Lark as the user. *)

\* The execution moves to pc holding b; its answer so far is a.
ToolGoto(t, pc, b, a) ==
    /\ toolPc' = [toolPc EXCEPT ![t] = pc]
    /\ toolHeld' = [toolHeld EXCEPT ![t] = b]
    /\ toolAnswer' = [toolAnswer EXCEPT ![t] = a]

ToolBegins(t) ==
    /\ toolPc[t] = "idle"
    /\ toolStart' = [toolStart EXCEPT ![t] = now]
    /\ UNCHANGED <<now, secret, larkVars, dropped, loginVars>>

\* No secret, or an expired token that cannot be refreshed: the user is told
\* to authorize.
ToolTurnsAway(t) ==
    /\ \/ secret = NoBundle
       \/ secret # NoBundle /\ Due(secret) /\ ~secret.refresh
    /\ ToolBegins(t)
    /\ ToolGoto(t, "idle", NoBundle, "unauthorized")

\* The stored token is good for at least Margin: use it.
ToolLoadsFresh(t) ==
    /\ secret # NoBundle
    /\ ~Due(secret)
    /\ ToolBegins(t)
    /\ ToolGoto(t, "use", secret, "none")

\* The stored token is about to expire: refresh it first.
ToolLoadsDue(t) ==
    /\ secret # NoBundle
    /\ Due(secret)
    /\ secret.refresh
    /\ ToolBegins(t)
    /\ ToolGoto(t, "refresh", secret, "none")

\* Lark takes the refresh token of the bundle that was read, whatever is
\* stored by now, and issues its heir; the answer is on its way.
ToolRedeems(t) ==
    /\ toolPc[t] = "refresh"
    /\ ~Spent(toolHeld[t])
    /\ issued < MaxGrants
    /\ issued' = issued + 1
    /\ heir' = [heir EXCEPT ![toolHeld[t].gen] = issued + 1]
    /\ ToolGoto(t, "redeemed", NewBundle(TRUE), "none")
    /\ UNCHANGED <<now, secret, dropped, toolStart, loginVars>>

\* Another execution redeemed the same refresh token first, or (a fault) the
\* request fails or Lark refuses: the failed refresh reads as no token.
ToolRefreshRefused(t) ==
    /\ toolPc[t] = "refresh"
    /\ Faults \/ Spent(toolHeld[t])
    /\ ToolGoto(t, "idle", NoBundle, "unauthorized")
    /\ UNCHANGED <<now, secret, larkVars, dropped, toolStart, loginVars>>

ToolReceives(t) ==
    /\ toolPc[t] = "redeemed"
    /\ ToolGoto(t, "persist", Stamped(toolHeld[t]), "none")
    /\ UNCHANGED <<now, secret, larkVars, dropped, toolStart, loginVars>>

\* The answer to the refresh is lost after Lark has honoured the token.
ToolAnswerLost(t) ==
    /\ Faults
    /\ toolPc[t] = "redeemed"
    /\ dropped' = dropped \cup {toolHeld[t].gen}
    /\ ToolGoto(t, "idle", NoBundle, "unauthorized")
    /\ UNCHANGED <<now, secret, larkVars, toolStart, loginVars>>

\* Mutant of ToolPersists: the refreshed bundle is used and never stored.
ToolForgetsToPersist(t) ==
    /\ toolPc[t] = "persist"
    /\ ToolGoto(t, "use", toolHeld[t], "none")
    /\ UNCHANGED <<now, secret, larkVars, dropped, toolStart, loginVars>>

\* put_secret_value: over whatever is stored by now.
ToolPersists(t) ==
    /\ toolPc[t] = "persist"
    /\ secret' = toolHeld[t]
    /\ ToolGoto(t, "use", toolHeld[t], "none")
    /\ UNCHANGED <<now, larkVars, dropped, toolStart, loginVars>>

\* The put fails: logged, and the call goes on with the new token.
ToolPersistFails(t) ==
    /\ Faults
    /\ toolPc[t] = "persist"
    /\ dropped' = dropped \cup {toolHeld[t].gen}
    /\ ToolGoto(t, "use", toolHeld[t], "none")
    /\ UNCHANGED <<now, secret, larkVars, toolStart, loginVars>>

\* Mutant of ToolEnds: the warm Lambda keeps the bundle for the next call.
ToolEndsHolding(t) ==
    /\ toolPc[t] = "use"
    /\ ToolGoto(t, "idle", toolHeld[t], "served")
    /\ UNCHANGED <<now, secret, larkVars, dropped, toolStart, loginVars>>

\* The calls to Lark with the user's token end, in a result or in Lark's error.
ToolEnds(t) ==
    /\ toolPc[t] = "use"
    /\ ToolGoto(t, "idle", NoBundle, "served")
    /\ UNCHANGED <<now, secret, larkVars, dropped, toolStart, loginVars>>

\* The execution dies (its time is up, or a call raises): nothing is rolled
\* back, and a bundle it alone held is gone.
ToolKilled(t) ==
    /\ Faults
    /\ toolPc[t] # "idle"
    /\ dropped' = IF toolPc[t] \in {"redeemed", "persist"}
                  THEN dropped \cup {toolHeld[t].gen} ELSE dropped
    /\ ToolGoto(t, "idle", NoBundle, "none")
    /\ UNCHANGED <<now, secret, larkVars, toolStart, loginVars>>

-----------------------------------------------------------------------------
(* A login: exchange_code, then _store_user_token. *)

LoginGoto(l, pc, b) ==
    /\ loginPc' = [loginPc EXCEPT ![l] = pc]
    /\ loginHeld' = [loginHeld EXCEPT ![l] = b]

\* Lark redeems the login code; without offline_access there is no
\* refresh_token in the answer.
LoginExchanges(l) ==
    /\ loginPc[l] = "idle"
    /\ issued < MaxGrants
    /\ issued' = issued + 1
    /\ \E hasRefresh \in BOOLEAN : LoginGoto(l, "granted", NewBundle(hasRefresh))
    /\ UNCHANGED <<now, secret, heir, dropped, toolVars>>

\* The token and user_info answers are in.
LoginReceives(l) ==
    /\ loginPc[l] = "granted"
    /\ LoginGoto(l, "put", Stamped(loginHeld[l]))
    /\ UNCHANGED <<now, secret, larkVars, dropped, toolVars>>

LoginPuts(l) ==
    /\ loginPc[l] = "put"
    /\ secret # NoBundle
    /\ secret' = loginHeld[l]
    /\ LoginGoto(l, "idle", NoBundle)
    /\ UNCHANGED <<now, larkVars, dropped, toolVars>>

\* ResourceNotFoundException: this user's first login must create the secret.
LoginFindsNoSecret(l) ==
    /\ loginPc[l] = "put"
    /\ secret = NoBundle
    /\ LoginGoto(l, "create", loginHeld[l])
    /\ UNCHANGED <<now, secret, larkVars, dropped, toolVars>>

\* create_secret, or ResourceExistsException when another first login was
\* quicker, which is logged and forgotten.
LoginCreates(l) ==
    /\ loginPc[l] = "create"
    /\ secret' = IF secret = NoBundle THEN loginHeld[l] ELSE secret
    /\ LoginGoto(l, "idle", NoBundle)
    /\ UNCHANGED <<now, larkVars, dropped, toolVars>>

\* The login raises, is killed, or cannot store: its grant is forgotten.
LoginFails(l) ==
    /\ Faults
    /\ loginPc[l] # "idle"
    /\ LoginGoto(l, "idle", NoBundle)
    /\ UNCHANGED <<now, secret, larkVars, dropped, toolVars>>

-----------------------------------------------------------------------------
\* Time passes, but never past the end of a tool execution nor past the
\* socket timeouts of a login that waits for Lark.
Tick ==
    /\ now < MaxTime
    /\ \A t \in Tools : toolPc[t] # "idle" => now < toolStart[t] + ToolTimeout
    /\ \A l \in Logins : loginPc[l] = "granted" =>
                            now < loginHeld[l].issuedAt + ExchangeDelay
    /\ now' = now + 1
    /\ UNCHANGED <<secret, larkVars, dropped, toolVars, loginVars>>

\* The end of the bounded horizon, so that TLC reports only real deadlocks.
AtBound ==
    /\ now = MaxTime \/ issued = MaxGrants
    /\ UNCHANGED vars

ToolStep(t) ==
    \/ ToolTurnsAway(t) \/ ToolLoadsFresh(t) \/ ToolLoadsDue(t)
    \/ ToolRedeems(t) \/ ToolRefreshRefused(t)
    \/ ToolReceives(t) \/ ToolAnswerLost(t)
    \/ ToolPersists(t) \/ ToolPersistFails(t)
    \/ ToolEnds(t) \/ ToolKilled(t)

LoginStep(l) ==
    \/ LoginExchanges(l) \/ LoginReceives(l)
    \/ LoginPuts(l) \/ LoginFindsNoSecret(l) \/ LoginCreates(l)
    \/ LoginFails(l)

Next ==
    \/ \E t \in Tools : ToolStep(t)
    \/ \E l \in Logins : LoginStep(l)
    \/ Tick
    \/ AtBound

\* A running Lambda execution gets on with what it does after Lark has
\* honoured its refresh token; nothing obliges a user to log in or the agent
\* to call a tool.
Fairness ==
    \A t \in Tools : WF_vars(ToolReceives(t)) /\ WF_vars(ToolPersists(t))

Spec == Init /\ [][Next]_vars /\ Fairness

-----------------------------------------------------------------------------
(* Properties *)

\* Nobody but a fault can lock the user out.  When the stored refresh token
\* has been used up, its heir is still in the hands of the execution that
\* refreshed it, or a fault has dropped it: no interleaving of logins and
\* tool calls alone leaves a dead bundle behind.
Pending(g) ==
    \E t \in Tools : toolPc[t] \in {"redeemed", "persist"} /\ toolHeld[t].gen = g

NeverStrandedByRace ==
    secret # NoBundle /\ Spent(secret) =>
        heir[secret.gen] \in dropped \/ Pending(heir[secret.gen])

\* A token the tool presents to Lark has not expired there, although
\* expires_at is computed late, from the Lambda's clock, and the token is
\* used up to a whole Lambda timeout after it was judged fresh.
LiveOnTheWire ==
    \A t \in Tools : toolPc[t] = "use" => now < toolHeld[t].issuedAt + Lifetime

\* What the stored bundle is worth to the user.
VaultState ==
    IF secret = NoBundle THEN "none"
    ELSE IF ~Spent(secret) THEN "held"
    ELSE IF heir[secret.gen] \in dropped THEN "lost"
    ELSE "renewing"

\* The secret, its two kinds of writers and Lark together are the token store
\* of Vault.tla: whatever overlaps, a redeemed bundle is replaced by one that
\* can be redeemed, never by another used-up one, it is lost only by a fault,
\* and the redemption ends.
Vlt == INSTANCE Vault WITH state <- VaultState

VaultHolds == Vlt!Spec

\* What the README says of the tools: once the user has authorized, each call
\* loads the stored token, refreshed on expiry, and acts as the user.  Here a
\* call answers "no user token on file" while a refreshable one is.
TurnedAway(t) ==
    toolAnswer[t] # "unauthorized" /\ toolAnswer'[t] = "unauthorized"

AuthorizedIsServed ==
    [][\A t \in Tools :
         TurnedAway(t) => secret = NoBundle \/ ~secret.refresh]_vars

=============================================================================
