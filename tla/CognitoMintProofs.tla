------------------------- MODULE CognitoMintProofs -------------------------
(***************************************************************************)
(* What CognitoMint.tla promises, for any number of web_api instances and  *)
(* containers, rotations and deletions, and a death at any step.           *)
(***************************************************************************)
EXTENDS CognitoMint, TLAPS

\* What a mint may rely on: the user it found, or did not find, and once it
\* has set the password, that the password is its own.
Steady(p) ==
    /\ pc[p] = "create" => ~exists
    /\ pc[p] \in {"set", "reset", "auth"} => exists
    /\ pc[p] = "auth" /\ (p \in Webs \/ retried[p]) =>
         cached[p] # NoSalt /\ password = cached[p]

\* A mint that nobody disturbed is steady, and so its refusal is impossible.
QuietInv ==
    /\ TypeOK
    /\ \A p \in Procs : ~disturbed[p] => Steady(p)
    /\ OnlyRacesRefuse

\* With one salt there is one password to set, whoever sets it.
Agreed(p) ==
    /\ pc[p] \in {"set", "reset", "auth"} => exists
    /\ pc[p] = "auth" /\ (p \in Webs \/ retried[p]) =>
         cached[p] = 0 /\ password = 0

AgreeInv ==
    /\ TypeOK
    /\ salt = 0 /\ deletes = 0 => \A p \in Procs : Agreed(p)
    /\ OneSaltAgrees

-----------------------------------------------------------------------------
LEMMA InitHolds == Init => QuietInv /\ AgreeInv
<1> SUFFICES ASSUME Init PROVE QuietInv /\ AgreeInv
    OBVIOUS
<1>1. TypeOK
  <2>1. /\ retried \in [Procs -> BOOLEAN]
        /\ disturbed \in [Procs -> BOOLEAN]
    BY Zenon DEF Init
  <2>2. /\ \A p \in Procs : pc[p] = "idle" /\ cached[p] = NoSalt
        /\ 0 \in Salts /\ 0 \in 0..MaxDeletes
    BY BoundsAssumption DEF Init, Salts
  <2> QED
    BY <2>1, <2>2 DEF Init, TypeOK
<1>2. \A p \in Procs : pc[p] = "idle" /\ result[p] = "none"
    BY DEF Init
<1> QED
    BY <1>1, <1>2 DEF QuietInv, AgreeInv, Steady, Agreed, OnlyRacesRefuse,
                     OneSaltAgrees, Refusals

LEMMA TypeStep ==
    ASSUME TypeOK, NEW p \in Procs,
           Begin(p) \/ Step(p) \/ Raises(p) \/ Restart(p)
    PROVE  TypeOK'
<1> USE BoundsAssumption, NoSaltAssumption
    DEF TypeOK, Salts, Procs, Calls, Refusals, Goto, End, user
<1>1. CASE Begin(p)
    BY <1>1 DEF Begin
<1>2. CASE AdminGetUser(p)
    BY <1>2 DEF AdminGetUser, WhenFound
<1>3. CASE AdminCreateUser(p)
    BY <1>3 DEF AdminCreateUser, Disturb, user
<1>4. CASE CreateRefused(p)
    BY <1>4 DEF CreateRefused
<1>5. CASE GetSalt(p)
    BY <1>5 DEF GetSalt
<1>6. CASE AdminSetUserPassword(p)
    BY <1>6 DEF AdminSetUserPassword, AfterSet, Disturb, user
<1>7. CASE SetRefused(p)
    BY <1>7 DEF SetRefused
<1>8. CASE AuthAccepted(p)
    BY <1>8 DEF AuthAccepted, Accepted
<1>9. CASE AuthRefused(p)
  <2>1. CASE p \in Agents /\ ~retried[p]
    BY <1>9, <2>1 DEF AuthRefused
  <2>2. ASSUME NEW how \in Refusals, End(p, how),
               UNCHANGED <<salt, user, cached, deletes, disturbed>>
        PROVE  TypeOK'
    BY <2>2
  <2> QED
    BY <1>9, <2>1, <2>2 DEF AuthRefused
<1>10. CASE Raises(p)
    BY <1>10 DEF Raises
<1>11. CASE Restart(p)
    BY <1>11 DEF Restart
<1>12. CASE CreateRepeats(p)
  <2>1. disturbed' \in [Procs -> BOOLEAN]
    BY <1>12, Zenon DEF CreateRepeats
  <2> QED
    BY <1>12, <2>1 DEF CreateRepeats
<1> QED
    BY <1>1, <1>2, <1>3, <1>4, <1>5, <1>6, <1>7, <1>8, <1>9, <1>10,
       <1>11, <1>12 DEF Step

LEMMA TypeNext == TypeOK /\ [Next]_vars => TypeOK'
<1> SUFFICES ASSUME TypeOK, [Next]_vars PROVE TypeOK'
    OBVIOUS
<1> USE BoundsAssumption, NoSaltAssumption DEF TypeOK, Salts, user
<1>1. CASE Rotate
    BY <1>1 DEF Rotate
<1>2. CASE Delete
  <2>1. disturbed' \in [Procs -> BOOLEAN]
    BY <1>2, Zenon DEF Delete
  <2>2. deletes' \in 0..MaxDeletes
    BY <1>2, SMT DEF Delete
  <2> QED
    BY <1>2, <2>1, <2>2 DEF Delete
<1>3. CASE UNCHANGED vars
    BY <1>3 DEF vars
<1> QED
    BY <1>1, <1>2, <1>3, TypeStep DEF Next

\* Every variable keeps its type.
THEOREM TypeCorrect == Spec => []TypeOK
<1>1. Init => TypeOK
    BY InitHolds DEF QuietInv
<1> QED
    BY <1>1, TypeNext, PTL DEF Spec

-----------------------------------------------------------------------------
LEMMA QuietStep ==
    ASSUME QuietInv, NEW p \in Procs,
           Begin(p) \/ Step(p) \/ Raises(p) \/ Restart(p)
    PROVE  (\A q \in Procs : ~disturbed[q] => Steady(q))' /\ OnlyRacesRefuse'
<1> USE SidesAssumption, NoSaltAssumption
    DEF QuietInv, TypeOK, Procs, Steady, OnlyRacesRefuse, Refusals, Goto, End,
        user
<1>1. CASE Begin(p)
    BY <1>1 DEF Begin
<1>2. CASE AdminGetUser(p)
    BY <1>2 DEF AdminGetUser, WhenFound
<1>3. CASE AdminCreateUser(p)
    BY <1>3 DEF AdminCreateUser, Disturb, user
<1>4. CASE CreateRefused(p)
    BY <1>4 DEF CreateRefused
<1>5. CASE GetSalt(p)
    BY <1>5 DEF GetSalt
<1>6. CASE AdminSetUserPassword(p)
    BY <1>6 DEF AdminSetUserPassword, AfterSet, Disturb, user
<1>7. CASE SetRefused(p)
    BY <1>7 DEF SetRefused
<1>8. CASE AuthAccepted(p)
    BY <1>8 DEF AuthAccepted, Accepted
<1>9. CASE AuthRefused(p)
    BY <1>9 DEF AuthRefused, Accepted
<1>10. CASE Raises(p)
    BY <1>10 DEF Raises
<1>11. CASE Restart(p)
    BY <1>11 DEF Restart
<1>12. CASE CreateRepeats(p)
    BY <1>12 DEF CreateRepeats
<1> QED
    BY <1>1, <1>2, <1>3, <1>4, <1>5, <1>6, <1>7, <1>8, <1>9, <1>10,
       <1>11, <1>12 DEF Step

LEMMA QuietNext == QuietInv /\ [Next]_vars => QuietInv'
<1> SUFFICES ASSUME QuietInv, [Next]_vars PROVE QuietInv'
    OBVIOUS
<1>1. TypeOK'
    BY TypeNext DEF QuietInv
<1> USE DEF QuietInv, TypeOK, Steady, OnlyRacesRefuse, user
<1>2. CASE Rotate
    BY <1>1, <1>2 DEF Rotate
<1>3. CASE Delete
    BY <1>1, <1>3 DEF Delete
<1>4. CASE UNCHANGED vars
    BY <1>1, <1>4 DEF vars
<1>5. CASE \E p \in Procs : Begin(p) \/ Step(p) \/ Raises(p) \/ Restart(p)
    BY <1>1, <1>5, QuietStep
<1> QED
    BY <1>2, <1>3, <1>4, <1>5 DEF Next

\* However many processes mint at once and whatever an earlier one left
\* behind, a mint that nobody disturbs, its creation of the user answered, is
\* not refused.
THEOREM QuietMintSucceeds == Spec => []OnlyRacesRefuse
<1>1. Init => QuietInv
    BY InitHolds
<1>2. QuietInv => OnlyRacesRefuse
    BY DEF QuietInv
<1> QED
    BY <1>1, <1>2, QuietNext, PTL DEF Spec

-----------------------------------------------------------------------------
LEMMA AgreeStep ==
    ASSUME AgreeInv, NEW p \in Procs,
           Begin(p) \/ Step(p) \/ Raises(p) \/ Restart(p)
    PROVE  (salt = 0 /\ deletes = 0 => \A q \in Procs : Agreed(q))'
           /\ OneSaltAgrees'
<1> USE BoundsAssumption, SidesAssumption, NoSaltAssumption
    DEF AgreeInv, TypeOK, Procs, Salts, Agreed, OneSaltAgrees, Goto, End, user
<1>1. CASE Begin(p)
    BY <1>1 DEF Begin
<1>2. CASE AdminGetUser(p)
    BY <1>2 DEF AdminGetUser, WhenFound
<1>3. CASE AdminCreateUser(p)
    BY <1>3 DEF AdminCreateUser, Disturb, user
<1>4. CASE CreateRefused(p)
    BY <1>4 DEF CreateRefused
<1>5. CASE GetSalt(p)
    BY <1>5 DEF GetSalt
<1>6. CASE AdminSetUserPassword(p)
    BY <1>6 DEF AdminSetUserPassword, AfterSet, Disturb, user
<1>7. CASE SetRefused(p)
    BY <1>7 DEF SetRefused
<1>8. CASE AuthAccepted(p)
    BY <1>8 DEF AuthAccepted, Accepted
<1>9. CASE AuthRefused(p)
    BY <1>9 DEF AuthRefused, Accepted
<1>10. CASE Raises(p)
    BY <1>10 DEF Raises
<1>11. CASE Restart(p)
    BY <1>11 DEF Restart
<1>12. CASE CreateRepeats(p)
    BY <1>12 DEF CreateRepeats
<1> QED
    BY <1>1, <1>2, <1>3, <1>4, <1>5, <1>6, <1>7, <1>8, <1>9, <1>10,
       <1>11, <1>12 DEF Step

LEMMA AgreeNext == AgreeInv /\ [Next]_vars => AgreeInv'
<1> SUFFICES ASSUME AgreeInv, [Next]_vars PROVE AgreeInv'
    OBVIOUS
<1>1. TypeOK'
    BY TypeNext DEF AgreeInv
<1> USE BoundsAssumption DEF AgreeInv, TypeOK, Salts, Agreed, OneSaltAgrees, user
<1>2. CASE Rotate
    BY <1>1, <1>2 DEF Rotate
<1>3. CASE Delete
    BY <1>1, <1>3 DEF Delete
<1>4. CASE UNCHANGED vars
    BY <1>1, <1>4 DEF vars
<1>5. CASE \E p \in Procs : Begin(p) \/ Step(p) \/ Raises(p) \/ Restart(p)
    BY <1>1, <1>5, AgreeStep
<1> QED
    BY <1>2, <1>3, <1>4, <1>5 DEF Next

\* With one salt and no deletion no password is refused in the end, for any
\* number of overlapping mints on both sides.
THEOREM OneSaltSuffices == Spec => []OneSaltAgrees
<1>1. Init => AgreeInv
    BY InitHolds
<1>2. AgreeInv => OneSaltAgrees
    BY DEF AgreeInv
<1> QED
    BY <1>1, <1>2, AgreeNext, PTL DEF Spec

=============================================================================
