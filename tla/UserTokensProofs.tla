-------------------------- MODULE UserTokensProofs --------------------------
(***************************************************************************)
(* What UserTokens.tla promises, for any number of logins and tool calls,  *)
(* any bounds and any timing that meets MarginAssumption, with faults or   *)
(* without: the types, that a race alone never strands the stored bundle,  *)
(* and that the tool never presents an expired token.                      *)
(***************************************************************************)
EXTENDS UserTokens, TLAPS

\* Every bundle Lark has issued and the program has not stored yet.
ToolUnsaved(t)  == toolPc[t] \in {"redeemed", "persist"}
LoginUnsaved(l) == loginPc[l] # "idle"

\* Grants are numbered in order, so the next one is not in use anywhere.
GensIssued ==
    /\ secret # NoBundle => secret.gen <= issued
    /\ \A t \in Tools : toolPc[t] # "idle" => toolHeld[t].gen <= issued
    /\ \A l \in Logins : LoginUnsaved(l) => loginHeld[l].gen <= issued
    /\ \A g \in Grants : heir[g] # 0 => g <= issued

\* A bundle not stored yet is in one hand, not in the secret, and nobody is
\* about to redeem its refresh token.
OneHand ==
    /\ \A t, u \in Tools :
         /\ ToolUnsaved(t)
         /\ \/ ToolUnsaved(u) /\ t # u
            \/ toolPc[u] = "refresh"
         => toolHeld[t].gen # toolHeld[u].gen
    /\ \A l, m \in Logins :
         LoginUnsaved(l) /\ LoginUnsaved(m) /\ l # m =>
            loginHeld[l].gen # loginHeld[m].gen
    /\ \A l \in Logins, t \in Tools :
         LoginUnsaved(l) /\ (ToolUnsaved(t) \/ toolPc[t] = "refresh") =>
            loginHeld[l].gen # toolHeld[t].gen
    /\ secret # NoBundle =>
         /\ \A t \in Tools : ToolUnsaved(t) => toolHeld[t].gen # secret.gen
         /\ \A l \in Logins : LoginUnsaved(l) => loginHeld[l].gen # secret.gen

\* Hence nobody has used its refresh token.
UnsavedIsUnspent ==
    /\ \A t \in Tools : ToolUnsaved(t) => ~Spent(toolHeld[t])
    /\ \A l \in Logins : LoginUnsaved(l) => ~Spent(loginHeld[l])

\* The inductive invariant behind NeverStrandedByRace.
StrandInv ==
    TypeOK /\ GensIssued /\ OneHand /\ UnsavedIsUnspent /\ NeverStrandedByRace

\* expiresAt is late by no more than the margin leaves for one execution.
Honest(b) == b.expiresAt + ToolTimeout <= b.issuedAt + Lifetime + Margin

StoredIsHonest ==
    /\ secret # NoBundle => Honest(secret)
    /\ \A l \in Logins : loginPc[l] \in {"put", "create"} => Honest(loginHeld[l])
    /\ \A t \in Tools : toolPc[t] = "persist" => Honest(toolHeld[t])

\* No execution outlives its timeout, no login waits longer than
\* ExchangeDelay, a refreshed bundle is younger than the call that got it,
\* and a token in use outlives the call that uses it.
OnTime ==
    /\ \A l \in Logins : loginPc[l] = "granted" =>
         now <= loginHeld[l].issuedAt + ExchangeDelay
    /\ \A t \in Tools : toolPc[t] # "idle" =>
         toolStart[t] <= now /\ now <= toolStart[t] + ToolTimeout
    /\ \A t \in Tools : ToolUnsaved(t) => toolStart[t] <= toolHeld[t].issuedAt
    /\ \A t \in Tools : toolPc[t] = "use" =>
         toolStart[t] + ToolTimeout < toolHeld[t].issuedAt + Lifetime

\* The inductive invariant behind LiveOnTheWire.
TimeInv == TypeOK /\ StoredIsHonest /\ OnTime

-----------------------------------------------------------------------------
(* What the operators of the model return. *)

\* The bundle in Lark's answer, and the stamped one, are bundles.
LEMMA NewBundleType ==
    ASSUME TypeOK, issued < MaxGrants, NEW r \in BOOLEAN
    PROVE  /\ NewBundle(r) \in Bundle
           /\ NewBundle(r).gen = issued + 1
           /\ NewBundle(r).issuedAt = now
<1>1. issued + 1 \in Grants /\ now \in Time /\ 0 \in 0..(MaxTime + Lifetime)
    BY BoundsAssumption DEF TypeOK, Grants, Time
<1> QED
    BY <1>1 DEF NewBundle, Bundle

LEMMA StampedType ==
    ASSUME TypeOK, NEW b \in Bundle
    PROVE  /\ Stamped(b) \in Bundle
           /\ Stamped(b).gen = b.gen
           /\ Stamped(b).issuedAt = b.issuedAt
           /\ Stamped(b).expiresAt = now + Lifetime
<1>1. now + Lifetime \in 0..(MaxTime + Lifetime)
    BY BoundsAssumption DEF TypeOK, Time
<1> QED
    BY <1>1 DEF Stamped, Bundle

LEMMA BundleIsNotNone == ASSUME NEW b \in Bundle PROVE b # NoBundle
BY NoBundleAssumption

\* ToolGoto and LoginGoto change one execution and keep the types.
LEMMA ToolGotoFacts ==
    ASSUME TypeOK, NEW t \in Tools, NEW pc, NEW b, NEW a, ToolGoto(t, pc, b, a)
    PROVE  \A u \in Tools :
             /\ toolPc'[u] = IF u = t THEN pc ELSE toolPc[u]
             /\ toolHeld'[u] = IF u = t THEN b ELSE toolHeld[u]
BY DEF TypeOK, ToolGoto

LEMMA LoginGotoFacts ==
    ASSUME TypeOK, NEW l \in Logins, NEW pc, NEW b, LoginGoto(l, pc, b)
    PROVE  \A m \in Logins :
             /\ loginPc'[m] = IF m = l THEN pc ELSE loginPc[m]
             /\ loginHeld'[m] = IF m = l THEN b ELSE loginHeld[m]
BY DEF TypeOK, LoginGoto

LEMMA ToolGotoType ==
    ASSUME TypeOK, NEW t \in Tools,
           NEW pc \in {"idle", "refresh", "redeemed", "persist", "use"},
           NEW b \in Bundle \cup {NoBundle},
           NEW a \in {"none", "served", "unauthorized"},
           pc = "idle" <=> b = NoBundle,
           ToolGoto(t, pc, b, a)
    PROVE  /\ toolPc' \in [Tools -> {"idle", "refresh", "redeemed", "persist", "use"}]
           /\ toolHeld' \in [Tools -> Bundle \cup {NoBundle}]
           /\ toolAnswer' \in [Tools -> {"none", "served", "unauthorized"}]
           /\ \A u \in Tools : toolPc'[u] = "idle" <=> toolHeld'[u] = NoBundle
BY DEF TypeOK, ToolGoto

LEMMA LoginGotoType ==
    ASSUME TypeOK, NEW l \in Logins,
           NEW pc \in {"idle", "granted", "put", "create"},
           NEW b \in Bundle \cup {NoBundle},
           pc = "idle" <=> b = NoBundle,
           LoginGoto(l, pc, b)
    PROVE  /\ loginPc' \in [Logins -> {"idle", "granted", "put", "create"}]
           /\ loginHeld' \in [Logins -> Bundle \cup {NoBundle}]
           /\ \A m \in Logins : loginPc'[m] = "idle" <=> loginHeld'[m] = NoBundle
BY DEF TypeOK, LoginGoto

\* An execution that is not idle holds a bundle.
LEMMA HeldIsBundle ==
    ASSUME TypeOK
    PROVE  /\ \A t \in Tools : toolPc[t] # "idle" => toolHeld[t] \in Bundle
           /\ \A l \in Logins : loginPc[l] # "idle" => loginHeld[l] \in Bundle
BY DEF TypeOK

-----------------------------------------------------------------------------
(* Type correctness. *)

LEMMA TypeInit == Init => TypeOK
BY BoundsAssumption DEF Init, TypeOK, Time, Grants

LEMMA TypeToolStep ==
    ASSUME TypeOK, NEW t \in Tools, ToolStep(t)
    PROVE  TypeOK'
<1> USE HeldIsBundle, BundleIsNotNone, ToolGotoType
<1>1. CASE ToolTurnsAway(t)
    BY <1>1 DEF ToolTurnsAway, ToolBegins, TypeOK, larkVars, loginVars
<1>2. CASE ToolLoadsFresh(t)
    BY <1>2 DEF ToolLoadsFresh, ToolBegins, TypeOK, larkVars, loginVars
<1>3. CASE ToolLoadsDue(t)
    BY <1>3 DEF ToolLoadsDue, ToolBegins, TypeOK, larkVars, loginVars
<1>4. CASE ToolRedeems(t)
  <2>1. issued < MaxGrants /\ issued + 1 \in 0..MaxGrants
    BY <1>4, BoundsAssumption DEF ToolRedeems, TypeOK
  <2>2. NewBundle(TRUE) \in Bundle
    BY <2>1, NewBundleType
  <2>3. heir' \in [Grants -> 0..MaxGrants]
    BY <1>4, <2>1 DEF ToolRedeems, TypeOK
  <2> QED
    BY <1>4, <2>1, <2>2, <2>3 DEF ToolRedeems, TypeOK, loginVars
<1>5. CASE ToolRefreshRefused(t)
    BY <1>5 DEF ToolRefreshRefused, TypeOK, larkVars, loginVars
<1>6. CASE ToolReceives(t)
  <2>1. Stamped(toolHeld[t]) \in Bundle
    BY <1>6, StampedType DEF ToolReceives
  <2> QED
    BY <1>6, <2>1 DEF ToolReceives, TypeOK, larkVars, loginVars
<1>7. CASE ToolAnswerLost(t)
  <2>1. toolHeld[t].gen \in Grants
    BY <1>7 DEF ToolAnswerLost, Bundle
  <2> QED
    BY <1>7, <2>1 DEF ToolAnswerLost, TypeOK, larkVars, loginVars
<1>8. CASE ToolPersists(t)
    BY <1>8 DEF ToolPersists, TypeOK, larkVars, loginVars
<1>9. CASE ToolPersistFails(t)
  <2>1. toolHeld[t].gen \in Grants
    BY <1>9 DEF ToolPersistFails, Bundle
  <2> QED
    BY <1>9, <2>1 DEF ToolPersistFails, TypeOK, larkVars, loginVars
<1>10. CASE ToolEnds(t)
    BY <1>10 DEF ToolEnds, TypeOK, larkVars, loginVars
<1>11. CASE ToolKilled(t)
  <2>1. toolHeld[t].gen \in Grants
    BY <1>11 DEF ToolKilled, Bundle
  <2> QED
    BY <1>11, <2>1 DEF ToolKilled, TypeOK, larkVars, loginVars
<1> QED
    BY <1>1, <1>2, <1>3, <1>4, <1>5, <1>6, <1>7, <1>8, <1>9, <1>10, <1>11
    DEF ToolStep

LEMMA TypeLoginStep ==
    ASSUME TypeOK, NEW l \in Logins, LoginStep(l)
    PROVE  TypeOK'
<1> USE HeldIsBundle, BundleIsNotNone, LoginGotoType
<1>1. CASE LoginExchanges(l)
  <2>1. PICK r \in BOOLEAN : LoginGoto(l, "granted", NewBundle(r))
    BY <1>1 DEF LoginExchanges
  <2>2. issued < MaxGrants /\ issued + 1 \in 0..MaxGrants
    BY <1>1, BoundsAssumption DEF LoginExchanges, TypeOK
  <2>3. NewBundle(r) \in Bundle
    BY <2>2, NewBundleType
  <2> QED
    BY <1>1, <2>1, <2>2, <2>3 DEF LoginExchanges, TypeOK, toolVars
<1>2. CASE LoginReceives(l)
  <2>1. Stamped(loginHeld[l]) \in Bundle
    BY <1>2, StampedType DEF LoginReceives
  <2> QED
    BY <1>2, <2>1 DEF LoginReceives, TypeOK, larkVars, toolVars
<1>3. CASE LoginPuts(l)
    BY <1>3 DEF LoginPuts, TypeOK, larkVars, toolVars
<1>4. CASE LoginFindsNoSecret(l)
    BY <1>4 DEF LoginFindsNoSecret, TypeOK, larkVars, toolVars
<1>5. CASE LoginCreates(l)
    BY <1>5 DEF LoginCreates, TypeOK, larkVars, toolVars
<1>6. CASE LoginFails(l)
    BY <1>6 DEF LoginFails, TypeOK, larkVars, toolVars
<1> QED
    BY <1>1, <1>2, <1>3, <1>4, <1>5, <1>6 DEF LoginStep

LEMMA TypeNext == TypeOK /\ [Next]_vars => TypeOK'
<1> SUFFICES ASSUME TypeOK, [Next]_vars PROVE TypeOK'
    OBVIOUS
<1>1. CASE Tick
    BY <1>1, BoundsAssumption
    DEF Tick, TypeOK, Time, larkVars, toolVars, loginVars
<1>2. CASE UNCHANGED vars
    BY <1>2 DEF vars, TypeOK, larkVars, toolVars, loginVars
<1> QED
    BY <1>1, <1>2, TypeToolStep, TypeLoginStep DEF Next, AtBound

\* Every variable keeps its type, and an execution holds a bundle exactly
\* while it runs.
THEOREM TypeCorrect == Spec => []TypeOK
BY TypeInit, TypeNext, PTL DEF Spec

-----------------------------------------------------------------------------
(* No race strands the bundle. *)

LEMMA StrandInit == Init => StrandInv
BY TypeInit DEF Init, StrandInv, GensIssued, OneHand, UnsavedIsUnspent,
    NeverStrandedByRace, ToolUnsaved, LoginUnsaved

LEMMA StrandToolStep ==
    ASSUME StrandInv, NEW t \in Tools, ToolStep(t)
    PROVE  GensIssued' /\ OneHand' /\ UnsavedIsUnspent' /\ NeverStrandedByRace'
<1> USE HeldIsBundle, ToolGotoFacts
    DEF StrandInv, GensIssued, OneHand, UnsavedIsUnspent, NeverStrandedByRace,
        ToolUnsaved, LoginUnsaved, Pending, Spent, larkVars, loginVars
<1>1. CASE ToolTurnsAway(t)
    BY <1>1 DEF ToolTurnsAway, ToolBegins
<1>2. CASE ToolLoadsFresh(t)
    BY <1>2 DEF ToolLoadsFresh, ToolBegins
<1>3. CASE ToolLoadsDue(t)
    BY <1>3 DEF ToolLoadsDue, ToolBegins
<1>4. CASE ToolRedeems(t)
  <2>1. issued \in Nat /\ issued < MaxGrants /\ TypeOK
    BY <1>4, BoundsAssumption DEF ToolRedeems, TypeOK
  <2>2. NewBundle(TRUE).gen = issued + 1 /\ issued + 1 \in Grants
    BY <2>1, NewBundleType DEF Bundle
  <2>3. toolHeld[t].gen \in Grants
    BY <1>4, <2>1 DEF ToolRedeems, Bundle
  <2>4. \A g \in Grants :
          heir'[g] = IF g = toolHeld[t].gen THEN issued + 1 ELSE heir[g]
    BY <1>4, <2>1 DEF ToolRedeems, TypeOK
  <2>5. /\ \A u \in Tools : toolPc[u] # "idle" => toolHeld[u].gen \in Grants
        /\ \A l \in Logins : loginPc[l] # "idle" => loginHeld[l].gen \in Grants
        /\ secret # NoBundle => secret.gen \in Grants
    BY <2>1 DEF TypeOK, Bundle
  <2>6. /\ \A u \in Tools : toolPc'[u] = IF u = t THEN "redeemed" ELSE toolPc[u]
        /\ \A u \in Tools : u # t => toolHeld'[u] = toolHeld[u]
        /\ toolHeld'[t].gen = issued + 1
    <3> HIDE ToolGotoFacts, HeldIsBundle
    <3>1. ToolGoto(t, "redeemed", NewBundle(TRUE), "none")
      BY <1>4 DEF ToolRedeems
    <3> QED
      BY <2>1, <2>2, <3>1 DEF ToolGoto, TypeOK
  <2>7. /\ toolPc[t] = "refresh" /\ heir[toolHeld[t].gen] = 0
        /\ issued' = issued + 1
        /\ UNCHANGED <<secret, dropped, loginPc, loginHeld>>
    BY <1>4 DEF ToolRedeems
  <2> HIDE ToolGotoFacts, HeldIsBundle, <1>4
  <2>8. GensIssued'
    BY <2>1, <2>2, <2>3, <2>4, <2>5, <2>6, <2>7 DEF Grants
  <2>9. OneHand'
    BY <2>1, <2>2, <2>5, <2>6, <2>7 DEF Grants
  <2>10. UnsavedIsUnspent'
    BY <2>1, <2>2, <2>3, <2>4, <2>5, <2>6, <2>7 DEF Grants
  <2>11. NeverStrandedByRace'
    BY <2>1, <2>2, <2>3, <2>4, <2>5, <2>6, <2>7 DEF Grants
  <2> QED
    BY <2>8, <2>9, <2>10, <2>11
<1>5. CASE ToolRefreshRefused(t)
    BY <1>5 DEF ToolRefreshRefused, ToolBegins
<1>6. CASE ToolReceives(t)
  <2>1. Stamped(toolHeld[t]).gen = toolHeld[t].gen
    BY <1>6, StampedType DEF ToolReceives
  <2>2. GensIssued'
    BY <1>6, <2>1 DEF ToolReceives
  <2>3. OneHand'
    BY <1>6, <2>1 DEF ToolReceives
  <2>4. UnsavedIsUnspent'
    BY <1>6, <2>1 DEF ToolReceives
  <2>5. NeverStrandedByRace'
    BY <1>6, <2>1 DEF ToolReceives
  <2> QED
    BY <2>2, <2>3, <2>4, <2>5
<1>7. CASE ToolAnswerLost(t)
    BY <1>7 DEF ToolAnswerLost, ToolBegins
<1>8. CASE ToolPersists(t)
    BY <1>8 DEF ToolPersists, ToolBegins
<1>9. CASE ToolPersistFails(t)
    BY <1>9 DEF ToolPersistFails, ToolBegins
<1>10. CASE ToolEnds(t)
    BY <1>10 DEF ToolEnds, ToolBegins
<1>11. CASE ToolKilled(t)
    BY <1>11 DEF ToolKilled, ToolBegins
<1> QED
    BY <1>1, <1>2, <1>3, <1>4, <1>5, <1>6, <1>7, <1>8, <1>9, <1>10, <1>11
    DEF ToolStep

LEMMA StrandLoginStep ==
    ASSUME StrandInv, NEW l \in Logins, LoginStep(l)
    PROVE  GensIssued' /\ OneHand' /\ UnsavedIsUnspent' /\ NeverStrandedByRace'
<1> USE HeldIsBundle, LoginGotoFacts
    DEF StrandInv, GensIssued, OneHand, UnsavedIsUnspent, NeverStrandedByRace,
        ToolUnsaved, LoginUnsaved, Pending, Spent, larkVars, toolVars
<1>1. CASE LoginExchanges(l)
  <2>1. issued \in Nat /\ issued < MaxGrants /\ TypeOK
    BY <1>1, BoundsAssumption DEF LoginExchanges, TypeOK
  <2>2. PICK r \in BOOLEAN : LoginGoto(l, "granted", NewBundle(r))
    BY <1>1 DEF LoginExchanges
  <2>3. NewBundle(r).gen = issued + 1 /\ issued + 1 \in Grants
    BY <2>1, NewBundleType DEF Bundle
  <2>4. /\ \A u \in Tools : toolPc[u] # "idle" => toolHeld[u].gen \in Grants
        /\ \A m \in Logins : loginPc[m] # "idle" => loginHeld[m].gen \in Grants
        /\ secret # NoBundle => secret.gen \in Grants
    BY <2>1 DEF TypeOK, Bundle
  <2>5. GensIssued'
    BY <1>1, <2>1, <2>2, <2>3, <2>4 DEF LoginExchanges, Grants
  <2>6. OneHand'
    BY <1>1, <2>1, <2>2, <2>3, <2>4 DEF LoginExchanges, Grants
  <2>7. UnsavedIsUnspent'
    BY <1>1, <2>1, <2>2, <2>3, <2>4 DEF LoginExchanges, Grants
  <2>8. NeverStrandedByRace'
    BY <1>1, <2>1, <2>2, <2>3, <2>4 DEF LoginExchanges, Grants
  <2> QED
    BY <2>5, <2>6, <2>7, <2>8
<1>2. CASE LoginReceives(l)
  <2>1. Stamped(loginHeld[l]).gen = loginHeld[l].gen
    BY <1>2, StampedType DEF LoginReceives
  <2>2. GensIssued'
    BY <1>2, <2>1 DEF LoginReceives
  <2>3. OneHand'
    BY <1>2, <2>1 DEF LoginReceives
  <2>4. UnsavedIsUnspent'
    BY <1>2, <2>1 DEF LoginReceives
  <2>5. NeverStrandedByRace'
    BY <1>2, <2>1 DEF LoginReceives
  <2> QED
    BY <2>2, <2>3, <2>4, <2>5
<1>3. CASE LoginPuts(l)
    BY <1>3 DEF LoginPuts
<1>4. CASE LoginFindsNoSecret(l)
    BY <1>4 DEF LoginFindsNoSecret
<1>5. CASE LoginCreates(l)
    BY <1>5 DEF LoginCreates
<1>6. CASE LoginFails(l)
    BY <1>6 DEF LoginFails
<1> QED
    BY <1>1, <1>2, <1>3, <1>4, <1>5, <1>6
    DEF LoginStep

LEMMA StrandNext == StrandInv /\ [Next]_vars => StrandInv'
<1> SUFFICES ASSUME StrandInv, [Next]_vars PROVE StrandInv'
    OBVIOUS
<1>1. TypeOK'
    BY TypeNext DEF StrandInv
<1>2. CASE Tick \/ UNCHANGED vars
    BY <1>1, <1>2
    DEF Tick, vars, larkVars, toolVars, loginVars, StrandInv, GensIssued,
        OneHand, UnsavedIsUnspent, NeverStrandedByRace, ToolUnsaved,
        LoginUnsaved, Pending, Spent
<1> QED
    BY <1>1, <1>2, StrandToolStep, StrandLoginStep DEF Next, AtBound, StrandInv

\* When the stored refresh token has been used up, its heir is on its way to
\* the secret or a fault has dropped it: no interleaving of logins and tool
\* calls alone locks the user out, however many of them run.
THEOREM NoStranding == Spec => []NeverStrandedByRace
<1>1. StrandInv => NeverStrandedByRace
    BY DEF StrandInv
<1> QED
    BY <1>1, StrandInit, StrandNext, PTL DEF Spec

-----------------------------------------------------------------------------
(* No token expires in use. *)

LEMMA TimeInit == Init => TimeInv
BY TypeInit DEF Init, TimeInv, StoredIsHonest, OnTime, ToolUnsaved

\* What the proof needs of a bundle: its times are numbers.
LEMMA TimesAreNat ==
    ASSUME TypeOK
    PROVE  /\ now \in Nat /\ Lifetime \in Nat /\ Margin \in Nat
           /\ ToolTimeout \in Nat /\ ExchangeDelay \in Nat
           /\ \A b \in Bundle : b.expiresAt \in Nat /\ b.issuedAt \in Nat
           /\ \A t \in Tools : toolStart[t] \in Nat
BY BoundsAssumption DEF TypeOK, Bundle, Time

LEMMA TimeToolStep ==
    ASSUME TimeInv, NEW t \in Tools, ToolStep(t)
    PROVE  StoredIsHonest' /\ OnTime'
<1> USE HeldIsBundle, ToolGotoFacts, TimesAreNat, MarginAssumption
    DEF TimeInv, StoredIsHonest, Honest, OnTime, ToolUnsaved, larkVars, loginVars
<1>1. CASE ToolTurnsAway(t)
    BY <1>1 DEF ToolTurnsAway, ToolBegins, TypeOK
<1>2. CASE ToolLoadsFresh(t)
    BY <1>2 DEF ToolLoadsFresh, ToolBegins, TypeOK, Due
<1>3. CASE ToolLoadsDue(t)
    BY <1>3 DEF ToolLoadsDue, ToolBegins, TypeOK
<1>4. CASE ToolRedeems(t)
  <2> HIDE ToolGotoFacts
  <2>1. ToolGoto(t, "redeemed", NewBundle(TRUE), "none") /\ TypeOK
    BY <1>4 DEF ToolRedeems
  <2>2. NewBundle(TRUE).issuedAt = now
    BY <1>4, <2>1, NewBundleType DEF ToolRedeems
  <2>3. /\ \A u \in Tools : toolPc'[u] = IF u = t THEN "redeemed" ELSE toolPc[u]
        /\ \A u \in Tools : u # t => toolHeld'[u] = toolHeld[u]
        /\ toolHeld'[t].issuedAt = now
    BY <2>1, <2>2 DEF ToolGoto, TypeOK
  <2>4. UNCHANGED <<now, secret, toolStart, loginPc, loginHeld>>
    BY <1>4 DEF ToolRedeems
  <2>5. toolPc[t] = "refresh" /\ toolStart[t] <= now
    BY <1>4 DEF ToolRedeems
  <2> HIDE <1>4
  <2>6. StoredIsHonest'
    BY <2>3, <2>4
  <2>7. OnTime'
    BY <2>3, <2>4, <2>5
  <2> QED
    BY <2>6, <2>7
<1>5. CASE ToolRefreshRefused(t)
    BY <1>5 DEF ToolRefreshRefused
<1>6. CASE ToolReceives(t)
  <2>1. toolHeld[t] \in Bundle /\ TypeOK
    BY <1>6 DEF ToolReceives
  <2>2. /\ Stamped(toolHeld[t]).issuedAt = toolHeld[t].issuedAt
        /\ Stamped(toolHeld[t]).expiresAt = now + Lifetime
    BY <2>1, StampedType
  <2>3. Honest(Stamped(toolHeld[t]))
    BY <1>6, <2>1, <2>2 DEF ToolReceives
  <2>4. StoredIsHonest'
    BY <1>6, <2>1, <2>3 DEF ToolReceives
  <2>5. OnTime'
    BY <1>6, <2>1, <2>2 DEF ToolReceives
  <2> QED
    BY <2>4, <2>5
<1>7. CASE ToolAnswerLost(t)
    BY <1>7 DEF ToolAnswerLost
<1>8. CASE ToolPersists(t)
    BY <1>8 DEF ToolPersists
<1>9. CASE ToolPersistFails(t)
    BY <1>9 DEF ToolPersistFails
<1>10. CASE ToolEnds(t)
    BY <1>10 DEF ToolEnds
<1>11. CASE ToolKilled(t)
    BY <1>11 DEF ToolKilled
<1> QED
    BY <1>1, <1>2, <1>3, <1>4, <1>5, <1>6, <1>7, <1>8, <1>9, <1>10, <1>11
    DEF ToolStep

LEMMA TimeLoginStep ==
    ASSUME TimeInv, NEW l \in Logins, LoginStep(l)
    PROVE  StoredIsHonest' /\ OnTime'
<1> USE HeldIsBundle, LoginGotoFacts, TimesAreNat, MarginAssumption
    DEF TimeInv, StoredIsHonest, Honest, OnTime, ToolUnsaved, larkVars, toolVars
<1>1. CASE LoginExchanges(l)
  <2>1. StoredIsHonest'
    BY <1>1 DEF LoginExchanges
  <2>2. PICK r \in BOOLEAN : LoginGoto(l, "granted", NewBundle(r))
    BY <1>1 DEF LoginExchanges
  <2>3. NewBundle(r).issuedAt = now
    BY <1>1, NewBundleType DEF LoginExchanges
  <2>4. OnTime'
    BY <1>1, <2>2, <2>3 DEF LoginExchanges
  <2> QED
    BY <2>1, <2>4
<1>2. CASE LoginReceives(l)
  <2>1. loginHeld[l] \in Bundle /\ TypeOK
    BY <1>2 DEF LoginReceives
  <2>2. /\ Stamped(loginHeld[l]).issuedAt = loginHeld[l].issuedAt
        /\ Stamped(loginHeld[l]).expiresAt = now + Lifetime
    BY <2>1, StampedType
  <2>3. Honest(Stamped(loginHeld[l]))
    BY <1>2, <2>1, <2>2 DEF LoginReceives
  <2>4. StoredIsHonest'
    BY <1>2, <2>1, <2>3 DEF LoginReceives
  <2>5. OnTime'
    BY <1>2, <2>1, <2>2 DEF LoginReceives
  <2> QED
    BY <2>4, <2>5
<1>3. CASE LoginPuts(l)
    BY <1>3 DEF LoginPuts, TypeOK
<1>4. CASE LoginFindsNoSecret(l)
    BY <1>4 DEF LoginFindsNoSecret
<1>5. CASE LoginCreates(l)
    BY <1>5 DEF LoginCreates, TypeOK
<1>6. CASE LoginFails(l)
    BY <1>6 DEF LoginFails
<1> QED
    BY <1>1, <1>2, <1>3, <1>4, <1>5, <1>6
    DEF LoginStep

LEMMA TimeNext == TimeInv /\ [Next]_vars => TimeInv'
<1> SUFFICES ASSUME TimeInv, [Next]_vars PROVE TimeInv'
    OBVIOUS
<1>1. TypeOK'
    BY TypeNext DEF TimeInv
<1>2. CASE Tick
  <2>1. StoredIsHonest'
    BY <1>2
    DEF Tick, TimeInv, StoredIsHonest, Honest, larkVars, toolVars, loginVars
  <2>2. OnTime'
    BY <1>2, TimesAreNat, HeldIsBundle
    DEF Tick, TimeInv, OnTime, ToolUnsaved, larkVars, toolVars, loginVars
  <2> QED
    BY <1>1, <2>1, <2>2 DEF TimeInv
<1>3. CASE UNCHANGED vars
    BY <1>1, <1>3
    DEF vars, larkVars, toolVars, loginVars, TimeInv, StoredIsHonest, Honest,
        OnTime, ToolUnsaved
<1> QED
    BY <1>1, <1>2, <1>3, TimeToolStep, TimeLoginStep DEF Next, AtBound, TimeInv

\* A token the tool presents to Lark has not expired there, for every timing
\* of logins and tool calls within MarginAssumption: the 60 s margin covers
\* both the late expires_at and the whole execution that uses the token.
THEOREM TokenIsLive == Spec => []LiveOnTheWire
<1>1. TimeInv => LiveOnTheWire
    BY TimesAreNat, HeldIsBundle DEF TimeInv, OnTime, LiveOnTheWire
<1> QED
    BY <1>1, TimeInit, TimeNext, PTL DEF Spec

-----------------------------------------------------------------------------
(* The refinement of Vault.tla. *)

\* What a fault has dropped was issued, so the next grant is not lost yet.
DroppedWasIssued == \A g \in dropped : g <= issued

VaultInv == StrandInv /\ DroppedWasIssued

LEMMA VaultInvInit == Init => VaultInv
BY StrandInit DEF Init, VaultInv, DroppedWasIssued

LEMMA VaultInvNext == VaultInv /\ [Next]_vars => VaultInv'
<1> SUFFICES ASSUME VaultInv, [Next]_vars PROVE DroppedWasIssued'
    BY StrandNext DEF VaultInv
<1>1. TypeOK /\ TypeOK' /\ GensIssued /\ DroppedWasIssued
    BY StrandNext DEF VaultInv, StrandInv
<1>2. issued' = issued \/ issued' = issued + 1
    BY DEF Next, ToolStep, LoginStep, ToolBegins, ToolTurnsAway,
       ToolLoadsFresh, ToolLoadsDue, ToolRedeems, ToolRefreshRefused,
       ToolReceives, ToolAnswerLost, ToolPersists, ToolPersistFails, ToolEnds,
       ToolKilled, LoginExchanges, LoginReceives, LoginPuts,
       LoginFindsNoSecret, LoginCreates, LoginFails, Tick, AtBound, larkVars,
       vars
<1>3. \/ dropped' = dropped
      \/ \E t \in Tools :
           toolPc[t] # "idle" /\ dropped' = dropped \cup {toolHeld[t].gen}
    BY DEF Next, ToolStep, LoginStep, ToolBegins, ToolTurnsAway,
       ToolLoadsFresh, ToolLoadsDue, ToolRedeems, ToolRefreshRefused,
       ToolReceives, ToolAnswerLost, ToolPersists, ToolPersistFails, ToolEnds,
       ToolKilled, LoginExchanges, LoginReceives, LoginPuts,
       LoginFindsNoSecret, LoginCreates, LoginFails, Tick, AtBound, larkVars,
       vars
<1>4. \A t \in Tools :
         toolPc[t] # "idle" => toolHeld[t].gen \in Nat /\ toolHeld[t].gen <= issued
    BY <1>1, HeldIsBundle, BoundsAssumption DEF GensIssued, Bundle, Grants
<1>5. dropped \subseteq Nat /\ issued \in Nat
    BY <1>1, BoundsAssumption DEF TypeOK, Grants
<1>6. ASSUME NEW g \in dropped' PROVE g \in Nat /\ g <= issued
    BY <1>1, <1>3, <1>4, <1>5, <1>6 DEF DroppedWasIssued
<1> QED
    BY <1>2, <1>5, <1>6 DEF DroppedWasIssued

\* A write stores a bundle nobody has redeemed.
LEMMA StoringHolds ==
    ASSUME NEW b \in Bundle, ~Spent(b), secret' = b, heir' = heir
    PROVE  [Vlt!Next]_VaultState
<1>1. VaultState' = "held"
    BY BundleIsNotNone DEF VaultState, Spent
<1> QED
    BY <1>1 DEF Vlt!Next, Vlt!Store

\* What does not touch the secret, the heirs or the losses is not seen.
LEMMA VaultSleeps ==
    ASSUME UNCHANGED <<secret, heir, dropped>>
    PROVE  [Vlt!Next]_VaultState
BY DEF VaultState, Spent

\* A fault that drops a grant changes the vault only if it waited for that.
LEMMA DroppingLoses ==
    ASSUME Faults, NEW g, dropped' = dropped \cup {g}, UNCHANGED <<secret, heir>>
    PROVE  [Vlt!Next]_VaultState
<1>1. VaultState' = VaultState \/ (VaultState = "renewing" /\ VaultState' = "lost")
    BY DEF VaultState, Spent
<1> QED
    BY <1>1 DEF Vlt!Next, Vlt!Lose

LEMMA RedeemingRenews ==
    ASSUME VaultInv, NEW t \in Tools, ToolRedeems(t)
    PROVE  [Vlt!Next]_VaultState
<1> USE DEF VaultInv, StrandInv
<1>1. /\ secret' = secret /\ dropped' = dropped
      /\ heir' = [heir EXCEPT ![toolHeld[t].gen] = issued + 1]
      /\ heir[toolHeld[t].gen] = 0
    BY DEF ToolRedeems, Spent
<1>2. issued \in Nat /\ issued + 1 \notin dropped
    BY BoundsAssumption DEF DroppedWasIssued, TypeOK, Grants
<1>3. CASE secret = NoBundle
    BY <1>1, <1>3 DEF VaultState
<1>4. CASE secret # NoBundle /\ secret.gen # toolHeld[t].gen
  <2>1. heir'[secret.gen] = heir[secret.gen]
      BY <1>1, <1>4 DEF TypeOK, Bundle
  <2> QED
      BY <1>1, <1>4, <2>1 DEF VaultState, Spent
<1>5. CASE secret # NoBundle /\ secret.gen = toolHeld[t].gen
  <2>1. heir'[secret.gen] = issued + 1
      BY <1>1, <1>5 DEF TypeOK, Bundle
  <2>2. VaultState = "held" /\ VaultState' = "renewing"
      BY <1>1, <1>2, <1>5, <2>1 DEF VaultState, Spent
  <2> QED
      BY <2>2 DEF Vlt!Next, Vlt!Redeem
<1> QED
    BY <1>3, <1>4, <1>5

\* The secret, the two Lambdas and Lark implement the abstract token store,
\* for any number of logins and tool calls: a used-up bundle is only ever
\* replaced by one that can be redeemed, and lost only by a fault.
THEOREM TokensImplementVault == Spec => Vlt!Safety
<1>1. Init => Vlt!Init
    BY DEF Init, Vlt!Init, VaultState
<1>2. VaultInv /\ [Next]_vars => [Vlt!Next]_VaultState
  <2> SUFFICES ASSUME VaultInv, [Next]_vars PROVE [Vlt!Next]_VaultState
      OBVIOUS
  <2> USE DEF VaultInv, StrandInv
  <2>1. ASSUME NEW t \in Tools, ToolStep(t) PROVE [Vlt!Next]_VaultState
    <3>1. CASE ToolRedeems(t)
        BY <3>1, RedeemingRenews
    <3>2. CASE ToolPersists(t)
      <4>1. toolHeld[t] \in Bundle /\ ~Spent(toolHeld[t])
          BY <3>2, HeldIsBundle DEF ToolPersists, UnsavedIsUnspent, ToolUnsaved
      <4> QED
          BY <3>2, <4>1, StoringHolds DEF ToolPersists, larkVars
    <3>3. CASE ToolAnswerLost(t) \/ ToolPersistFails(t)
        BY <3>3, DroppingLoses DEF ToolAnswerLost, ToolPersistFails, larkVars
    <3>4. CASE ToolKilled(t)
        BY <3>4, DroppingLoses, VaultSleeps DEF ToolKilled, larkVars
    <3>5. CASE \/ ToolTurnsAway(t) \/ ToolLoadsFresh(t) \/ ToolLoadsDue(t)
               \/ ToolRefreshRefused(t) \/ ToolReceives(t) \/ ToolEnds(t)
        BY <3>5, VaultSleeps DEF ToolTurnsAway, ToolLoadsFresh, ToolLoadsDue,
           ToolRefreshRefused, ToolReceives, ToolEnds, ToolBegins, larkVars
    <3> QED
        BY <2>1, <3>1, <3>2, <3>3, <3>4, <3>5 DEF ToolStep
  <2>2. ASSUME NEW l \in Logins, LoginStep(l) PROVE [Vlt!Next]_VaultState
    <3>1. CASE LoginPuts(l) \/ LoginCreates(l)
      <4>1. loginHeld[l] \in Bundle /\ ~Spent(loginHeld[l])
          BY <3>1, HeldIsBundle
             DEF LoginPuts, LoginCreates, UnsavedIsUnspent, LoginUnsaved
      <4>2. heir' = heir /\ dropped' = dropped /\ secret' \in {secret, loginHeld[l]}
          BY <3>1 DEF LoginPuts, LoginCreates, larkVars
      <4> QED
          BY <4>1, <4>2, StoringHolds, VaultSleeps
    <3>2. CASE \/ LoginExchanges(l) \/ LoginReceives(l)
               \/ LoginFindsNoSecret(l) \/ LoginFails(l)
        BY <3>2, VaultSleeps DEF LoginExchanges, LoginReceives,
           LoginFindsNoSecret, LoginFails, larkVars
    <3> QED
        BY <2>2, <3>1, <3>2 DEF LoginStep
  <2>3. CASE Tick \/ AtBound \/ UNCHANGED vars
      BY <2>3, VaultSleeps DEF Tick, AtBound, larkVars, vars
  <2> QED
      BY <2>1, <2>2, <2>3 DEF Next
<1> QED
    BY <1>1, <1>2, VaultInvInit, VaultInvNext, PTL DEF Spec, Vlt!Safety

=============================================================================
