------------------------ MODULE IdentityStoreProofs ------------------------
(***************************************************************************)
(* What IdentityStore.tla promises, for any number of overlapping          *)
(* executions, any lag of the reads and a failure at any step.             *)
(***************************************************************************)
EXTENDS IdentityStore, TLAPS

\* What an execution has read or written stays true, for the table only
\* grows: an allowed user was allowed, a channel once read is there, a
\* profile once written is there.
ReadsHold ==
    /\ allow \/ TRUE \in lag.allow => everAllowed
    /\ TRUE \in lag.channel => channel
    /\ session # None => channel
    /\ \A c \in Calls :
         /\ pc[c] \in {"user", "map", "link"} => everAllowed \/ RegistrationOpen
         /\ pc[c] = "map" => profile
         /\ pc[c] \in {"link", "session", "put"} => channel

\* The inductive invariant.
StoreInv ==
    TypeOK /\ ReadsHold /\ OnlyAllowedEnter /\ KnownHasProfile /\ LinkFollows

-----------------------------------------------------------------------------
LEMMA StoreInit == Init => StoreInv
<1> SUFFICES ASSUME Init PROVE StoreInv
    OBVIOUS
<1>1. TypeOK
    BY DEF Init, TypeOK, Pcs
<1>2. \A c \in Calls : pc[c] = "idle"
    BY DEF Init
<1> QED
    BY <1>1, <1>2
    DEF Init, StoreInv, ReadsHold, OnlyAllowedEnter, KnownHasProfile, LinkFollows

LEMMA TypeStep ==
    ASSUME TypeOK, NEW c \in Calls, Step(c)
    PROVE  TypeOK'
<1> USE DEF TypeOK, Goto, End, Pcs, items
<1>1. CASE Begin(c)
    BY <1>1 DEF Begin
<1>2. CASE ReadChannel(c)
    BY <1>2 DEF ReadChannel
<1>3. CASE IsUserAllowed(c)
    BY <1>3 DEF IsUserAllowed
<1>4. CASE NotAllowed(c)
    BY <1>4 DEF NotAllowed
<1>5. CASE PutProfile(c)
    BY <1>5 DEF PutProfile
<1>6. CASE PutChannel(c)
    BY <1>6 DEF PutChannel
<1>7. CASE PutLink(c)
    BY <1>7 DEF PutLink
<1>8. CASE ResolveOnly(c)
    BY <1>8 DEF ResolveOnly
<1>9. CASE ReuseSession(c)
    BY <1>9 DEF ReuseSession
<1>10. CASE FindNoSession(c)
    BY <1>10 DEF FindNoSession
<1>11. CASE PutSession(c)
    BY <1>11 DEF PutSession
<1>12. CASE Fail(c)
    BY <1>12 DEF Fail
<1> QED
    BY <1>1, <1>2, <1>3, <1>4, <1>5, <1>6, <1>7, <1>8, <1>9, <1>10, <1>11,
       <1>12
    DEF Step

LEMMA TypeNext == TypeOK /\ [Next]_vars => TypeOK'
<1> SUFFICES ASSUME TypeOK, [Next]_vars PROVE TypeOK'
    OBVIOUS
<1>1. ASSUME NEW b \in BOOLEAN, SetAllow(b) PROVE TypeOK'
    BY <1>1 DEF SetAllow, TypeOK
<1>2. CASE Settle
    BY <1>2 DEF Settle, TypeOK, items
<1>3. CASE UNCHANGED vars
    BY <1>3 DEF vars, TypeOK, items
<1> QED
    BY <1>1, <1>2, <1>3, TypeStep DEF Next

\* Every variable keeps its type.
THEOREM TypeCorrect == Spec => []TypeOK
<1>1. Init => TypeOK
    BY StoreInit DEF StoreInv
<1> QED
    BY <1>1, TypeNext, PTL DEF Spec

-----------------------------------------------------------------------------
LEMMA StoreStep ==
    ASSUME StoreInv, NEW c \in Calls, Step(c)
    PROVE  ReadsHold' /\ OnlyAllowedEnter' /\ KnownHasProfile' /\ LinkFollows'
<1> USE NoneAssumption
    DEF StoreInv, TypeOK, ReadsHold, OnlyAllowedEnter, KnownHasProfile,
        LinkFollows, Goto, End, items
<1>1. CASE Begin(c)
    BY <1>1 DEF Begin
<1>2. CASE ReadChannel(c)
    BY <1>2 DEF ReadChannel
<1>3. CASE IsUserAllowed(c)
    BY <1>3 DEF IsUserAllowed
<1>4. CASE NotAllowed(c)
    BY <1>4 DEF NotAllowed
<1>5. CASE PutProfile(c)
    BY <1>5 DEF PutProfile
<1>6. CASE PutChannel(c)
    BY <1>6 DEF PutChannel
<1>7. CASE PutLink(c)
    BY <1>7 DEF PutLink
<1>8. CASE ResolveOnly(c)
    BY <1>8 DEF ResolveOnly
<1>9. CASE ReuseSession(c)
    BY <1>9 DEF ReuseSession
<1>10. CASE FindNoSession(c)
    BY <1>10 DEF FindNoSession
<1>11. CASE PutSession(c)
    BY <1>11 DEF PutSession
<1>12. CASE Fail(c)
    BY <1>12 DEF Fail
<1> QED
    BY <1>1, <1>2, <1>3, <1>4, <1>5, <1>6, <1>7, <1>8, <1>9, <1>10, <1>11,
       <1>12
    DEF Step

LEMMA StoreNext == StoreInv /\ [Next]_vars => StoreInv'
<1> SUFFICES ASSUME StoreInv, [Next]_vars PROVE StoreInv'
    OBVIOUS
<1>1. TypeOK'
    BY TypeNext DEF StoreInv
<1> USE DEF StoreInv, TypeOK, ReadsHold, OnlyAllowedEnter, KnownHasProfile,
            LinkFollows, items
<1>2. ASSUME NEW b \in BOOLEAN, SetAllow(b) PROVE StoreInv'
    BY <1>1, <1>2 DEF SetAllow
<1>3. CASE Settle
    BY <1>1, <1>3 DEF Settle
<1>4. CASE UNCHANGED vars
    BY <1>1, <1>4 DEF vars
<1> QED
    BY <1>1, <1>2, <1>3, <1>4, StoreStep DEF Next

\* A user who was never on the allowlist never enters the table of a closed
\* deployment.
THEOREM EntryIsGated == Spec => []OnlyAllowedEnter
<1>1. StoreInv => OnlyAllowedEnter
    BY DEF StoreInv
<1> QED
    BY <1>1, StoreInit, StoreNext, PTL DEF Spec

\* A known user has a profile, wherever executions die.
THEOREM ChannelCommits == Spec => []KnownHasProfile
<1>1. StoreInv => KnownHasProfile
    BY DEF StoreInv
<1> QED
    BY <1>1, StoreInit, StoreNext, PTL DEF Spec

\* The link is missing for good only after a death between the last two puts.
THEOREM LinkIsWritten == Spec => []LinkFollows
<1>1. StoreInv => LinkFollows
    BY DEF StoreInv
<1> QED
    BY <1>1, StoreInit, StoreNext, PTL DEF Spec

\* Once no read can miss the session and no execution is about to replace it,
\* every execution of both Lambdas gets the same session for ever.
THEOREM SettlesForGood == Spec => SettledForGood
<1>1. TypeOK /\ [Next]_vars => [Settled => session' = session /\ Settled']_vars
  <2> SUFFICES ASSUME TypeOK, Settled, Next
               PROVE  session' = session /\ Settled'
      BY DEF vars, Settled
  <2> USE DEF Settled, TypeOK, items
  <2>1. ASSUME NEW c \in Calls, Step(c) PROVE session' = session /\ Settled'
      BY <2>1
      DEF Step, Begin, ReadChannel, IsUserAllowed, NotAllowed, PutProfile,
          PutChannel, PutLink, ResolveOnly, ReuseSession, FindNoSession,
          PutSession, Fail, Goto, End
  <2>2. ASSUME NEW b \in BOOLEAN, SetAllow(b)
        PROVE  session' = session /\ Settled'
      BY <2>2 DEF SetAllow
  <2>3. CASE Settle
      BY <2>3 DEF Settle
  <2> QED
      BY <2>1, <2>2, <2>3 DEF Next
<1> QED
    BY <1>1, TypeCorrect, PTL DEF Spec, SettledForGood

-----------------------------------------------------------------------------
(* IdentityStore implements Registry. *)

\* A step other than PutSession can do nothing to the session but settle it.
LEMMA SettlesOrStays ==
    ASSUME StoreInv, session' = session, lag'.session \subseteq lag.session,
           \A c \in Calls : pc'[c] = "put" => pc[c] = "put" \/ None \in lag.session
    PROVE  Settled' = Settled \/ (session # None /\ ~Settled /\ Settled')
BY DEF Settled

LEMMA StepsAreRegistered ==
    ASSUME StoreInv, NEW c \in Calls, Step(c)
    PROVE  [Reg!Next]_Reg!vars
<1> USE DEF StoreInv, TypeOK, ReadsHold, Goto, End, items
<1> USE DEF Reg!Next, Reg!vars
<1>1. CASE PutSession(c)
  <2>1. channel /\ ~Settled
      BY <1>1 DEF PutSession, Settled
  <2>2. session' \in SessionIds /\ Settled' \in BOOLEAN
      BY <1>1 DEF PutSession, Settled
  <2> QED
      BY <1>1, <2>1, <2>2 DEF PutSession, Reg!OpenSession
<1>2. CASE PutChannel(c)
  <2>1. everAllowed \/ RegistrationOpen
      BY <1>2 DEF PutChannel
  <2>2. Settled' = Settled
      BY <1>2 DEF PutChannel, Settled
  <2> QED
      BY <1>2, <2>1, <2>2 DEF PutChannel, Reg!Enter
<1>3. ASSUME UNCHANGED <<everAllowed, channel, session>>,
             Settled' = Settled \/ (session # None /\ ~Settled /\ Settled')
      PROVE  [Reg!Next]_Reg!vars
    BY <1>3 DEF Reg!Finalize
<1>4. CASE \/ Begin(c) \/ ReadChannel(c) \/ IsUserAllowed(c) \/ NotAllowed(c)
           \/ PutProfile(c) \/ PutLink(c) \/ ResolveOnly(c)
           \/ ReuseSession(c) \/ FindNoSession(c) \/ Fail(c)
  <2>1. UNCHANGED <<everAllowed, channel, session, lag>>
      BY <1>4
      DEF Begin, ReadChannel, IsUserAllowed, NotAllowed, PutProfile, PutLink,
          ResolveOnly, ReuseSession, FindNoSession, Fail
  <2>2. \A d \in Calls : pc'[d] = "put" => pc[d] = "put" \/ None \in lag.session
      BY <1>4
      DEF Begin, ReadChannel, IsUserAllowed, NotAllowed, PutProfile, PutLink,
          ResolveOnly, ReuseSession, FindNoSession, Fail
  <2> QED
      BY <1>3, <2>1, <2>2, SettlesOrStays
<1> QED
    BY <1>1, <1>2, <1>4 DEF Step

\* Every step of the two Lambdas, of the allowlist script and of the replicas
\* is a step of the registry or leaves it alone, so that whatever Registry
\* promises of its steps holds of the table.
THEOREM StoreImplementsRegistry == Spec => Reg!Safety
<1>1. Init => Reg!Init
    BY DEF Init, Reg!Init, Settled
<1>2. StoreInv /\ [Next]_vars => [Reg!Next]_Reg!vars
  <2> SUFFICES ASSUME StoreInv, [Next]_vars PROVE [Reg!Next]_Reg!vars
      OBVIOUS
  <2>1. ASSUME NEW b \in BOOLEAN, SetAllow(b) PROVE [Reg!Next]_Reg!vars
    <3>1. UNCHANGED <<channel, session>> /\ Settled' = Settled
        BY <2>1 DEF SetAllow, Settled, StoreInv, TypeOK
    <3>2. everAllowed' = everAllowed \/ everAllowed' = TRUE
      <4>1. everAllowed \in BOOLEAN
          BY DEF StoreInv, TypeOK
      <4> QED
          BY <2>1, <4>1 DEF SetAllow
    <3> QED
        BY <3>1, <3>2 DEF Reg!Next, Reg!vars, Reg!Permit
  <2>2. CASE Settle
    <3>1. UNCHANGED <<everAllowed, channel, session, pc>>
        BY <2>2 DEF Settle, items
    <3>2. Settled' = Settled \/ (session # None /\ ~Settled /\ Settled')
        BY <2>2, <3>1 DEF Settle, Settled, items
    <3> QED
        BY <3>1, <3>2 DEF Reg!Next, Reg!vars, Reg!Finalize
  <2>3. CASE UNCHANGED vars
      BY <2>3 DEF vars, items, Settled, Reg!vars
  <2> QED
      BY <2>1, <2>2, <2>3, StepsAreRegistered DEF Next
<1> QED
    BY <1>1, <1>2, StoreInit, StoreNext, PTL DEF Spec, Reg!Safety

=============================================================================
