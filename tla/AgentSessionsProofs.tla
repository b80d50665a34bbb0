------------------------ MODULE AgentSessionsProofs ------------------------
(***************************************************************************)
(* What AgentSessions.tla promises for any number of threads and any       *)
(* timing: the session handed out is open, none is lost but by a failure,  *)
(* and its token is never staler than TTL + BuildMax - Margin.      *)
(***************************************************************************)
EXTENDS AgentSessions, TLAPS

\* _lock is held exactly by the thread that builds.
LockInv == \A t \in Threads : pc[t] \in Building <=> lock = t

\* While somebody builds, the cached session is too old, and once its client has
\* been told to close, its connection is closed or given up.
Evicted ==
    /\ lock # NoThread /\ entry # NoSession => ~Fresh(entry)
    /\ \A t \in Threads : pc[t] = "close" => entry # NoSession
    /\ \A t \in Threads :
         pc[t] \in {"token", "connect", "list"} /\ entry # NoSession =>
             entry.conn \notin open \/ entry.conn \in leaked

\* The builder's connection is one, open, and its own from Connect on.
InHand ==
    /\ conn \subseteq open
    /\ conn # {} => lock # NoThread /\ pc[lock] = "list"
    /\ \A t \in Threads : pc[t] = "list" => \E c \in Connections : conn = {c}

\* A build is on time, and what it gets is good for Margin at its start.
Timely ==
    /\ lock # NoThread => began <= now /\ now <= began + BuildMax
    /\ \A t \in Threads : pc[t] \in {"connect", "list"} => began + Margin < token
    /\ entry # NoSession => entry.created + Margin < entry.tokenExp + BuildMax

\* The inductive invariant.
SessionInv ==
    TypeOK /\ LockInv /\ Evicted /\ InHand /\ Timely /\ FreshIsOpen /\ OpenIsOwned

-----------------------------------------------------------------------------
LEMMA SessionType ==
    ASSUME NEW s \in Session
    PROVE  /\ s # NoSession
           /\ s.conn \in Connections
           /\ s.created \in Nat /\ s.tokenExp \in Nat
BY NoneAssumption, NumbersAssumption DEF Session, Time, Expiry

LEMMA TypeInit == Init => TypeOK
BY NumbersAssumption DEF Init, TypeOK, Time, Expiry, Building

LEMMA TypeStep ==
    ASSUME TypeOK, NEW t \in Threads, Step(t)
    PROVE  TypeOK'
<1> USE DEF TypeOK, Goto, Building
<1>1. CASE Request(t)
    BY <1>1 DEF Request
<1>2. CASE Serve(t)
    BY <1>2, SessionType DEF Serve
<1>3. CASE Evict(t)
    BY <1>3 DEF Evict
<1>4. CASE CloseOld(t) \/ CloseRaises(t)
    BY <1>4 DEF CloseOld, CloseRaises, Evicted
<1>5. CASE UseCachedToken(t)
    BY <1>5 DEF UseCachedToken
<1>6. CASE MintToken(t)
  <2>1. now + Lifetime \in Expiry
    BY NumbersAssumption DEF Time, Expiry
  <2> QED
    BY <1>6, <2>1 DEF MintToken
<1>7. CASE Connect(t)
    BY <1>7 DEF Connect
<1>8. CASE Publish(t)
  <2>1. PICK c \in conn :
          LET s == [conn |-> c, created |-> now, tokenExp |-> token]
          IN  entry' = s /\ held' = [held EXCEPT ![t] = s]
    BY <1>8 DEF Publish
  <2> DEFINE s == [conn |-> c, created |-> now, tokenExp |-> token]
  <2>2. s \in Session /\ s # NoSession
    BY NoneAssumption DEF Session
  <2>3. entry' = s /\ held' = [held EXCEPT ![t] = s]
    BY <2>1
  <2> HIDE DEF s
  <2> QED
    BY <1>8, <2>2, <2>3 DEF Publish
<1>9. CASE BuildFails(t)
    BY <1>9 DEF BuildFails
<1>10. CASE BuildLeaks(t)
    BY <1>10 DEF BuildLeaks
<1>11. CASE ChatEnds(t)
    BY <1>11 DEF ChatEnds
<1> QED
    BY <1>1, <1>2, <1>3, <1>4, <1>5, <1>6, <1>7, <1>8, <1>9, <1>10, <1>11
    DEF Step, BuildStep

LEMMA TypeNext == TypeOK /\ [Next]_vars => TypeOK'
<1> SUFFICES ASSUME TypeOK, [Next]_vars PROVE TypeOK'
    OBVIOUS
<1>1. CASE Terminate
    BY <1>1, NumbersAssumption DEF Terminate, TypeOK, Time, Expiry, Building
<1>2. CASE Tick
    BY <1>2, NumbersAssumption DEF Tick, TypeOK, Time
<1>3. CASE UNCHANGED vars
    BY <1>3 DEF vars, TypeOK
<1> QED
    BY <1>1, <1>2, <1>3, TypeStep DEF Next

\* Every variable keeps its type, and a thread has a session exactly while
\* it chats.
THEOREM TypeCorrect == Spec => []TypeOK
BY TypeInit, TypeNext, PTL DEF Spec

-----------------------------------------------------------------------------
LEMMA SafetyInit == Init => SessionInv
BY TypeInit, NoneAssumption
DEF Init, SessionInv, LockInv, Evicted, InHand, Timely, FreshIsOpen,
    OpenIsOwned, Building

LEMMA SafetyStep ==
    ASSUME SessionInv, NEW t \in Threads, Step(t)
    PROVE  /\ LockInv' /\ Evicted' /\ InHand' /\ Timely'
           /\ FreshIsOpen' /\ OpenIsOwned'
<1> USE NumbersAssumption, NoneAssumption, SessionType
    DEF SessionInv, TypeOK, LockInv, Evicted, InHand, Timely, FreshIsOpen,
        OpenIsOwned, Building, Goto, Fresh, Time, Expiry
<1>1. CASE Request(t)
    BY <1>1 DEF Request
<1>2. CASE Serve(t)
    BY <1>2 DEF Serve
<1>3. CASE Evict(t)
  <2>1. LockInv'
    BY <1>3 DEF Evict
  <2>2. Evicted'
    BY <1>3 DEF Evict
  <2>3. InHand'
    BY <1>3 DEF Evict
  <2>4. Timely'
    BY <1>3 DEF Evict
  <2>5. FreshIsOpen'
    BY <1>3 DEF Evict
  <2>6. OpenIsOwned'
    BY <1>3 DEF Evict
  <2> QED
    BY <2>1, <2>2, <2>3, <2>4, <2>5, <2>6
<1>4. CASE CloseOld(t)
  <2>1. LockInv'
    BY <1>4 DEF CloseOld
  <2>2. Evicted'
    BY <1>4 DEF CloseOld
  <2>3. InHand'
    BY <1>4 DEF CloseOld
  <2>4. Timely'
    BY <1>4 DEF CloseOld
  <2>5. FreshIsOpen'
    BY <1>4 DEF CloseOld
  <2>6. OpenIsOwned'
    BY <1>4 DEF CloseOld
  <2> QED
    BY <2>1, <2>2, <2>3, <2>4, <2>5, <2>6
<1>5. CASE CloseRaises(t)
    BY <1>5 DEF CloseRaises
<1>6. CASE UseCachedToken(t)
    BY <1>6 DEF UseCachedToken
<1>7. CASE MintToken(t)
    BY <1>7, MarginAssumption DEF MintToken
<1>8. CASE Connect(t)
  <2>1. LockInv'
    BY <1>8 DEF Connect
  <2>2. Evicted'
    BY <1>8 DEF Connect
  <2>3. InHand'
    BY <1>8 DEF Connect
  <2>4. Timely'
    BY <1>8 DEF Connect
  <2>5. FreshIsOpen'
    BY <1>8 DEF Connect
  <2>6. OpenIsOwned'
    BY <1>8 DEF Connect
  <2> QED
    BY <2>1, <2>2, <2>3, <2>4, <2>5, <2>6
<1>9. CASE Publish(t)
  <2>1. LockInv'
    BY <1>9 DEF Publish
  <2>2. Evicted'
    BY <1>9 DEF Publish
  <2>3. InHand'
    BY <1>9 DEF Publish
  <2>4. Timely'
    BY <1>9 DEF Publish
  <2>5. FreshIsOpen'
    BY <1>9 DEF Publish
  <2>6. OpenIsOwned'
    <3>1. PICK c \in Connections : conn = {c}
      BY <1>9 DEF Publish
    <3>2. entry' = [conn |-> c, created |-> now, tokenExp |-> token]
      BY <1>9, <3>1 DEF Publish
    <3>3. entry' # NoSession /\ entry'.conn = c
      BY <3>1, <3>2 DEF Session
    <3>4. open' = open /\ leaked' = leaked /\ lock = t
      BY <1>9 DEF Publish
    <3> QED
      BY <3>1, <3>3, <3>4
  <2> QED
    BY <2>1, <2>2, <2>3, <2>4, <2>5, <2>6
<1>10. CASE BuildFails(t)
    BY <1>10 DEF BuildFails
<1>11. CASE BuildLeaks(t)
    BY <1>11 DEF BuildLeaks
<1>12. CASE ChatEnds(t)
    BY <1>12 DEF ChatEnds
<1> QED
    BY <1>1, <1>2, <1>3, <1>4, <1>5, <1>6, <1>7, <1>8, <1>9, <1>10, <1>11, <1>12
    DEF Step, BuildStep

LEMMA SafetyNext == SessionInv /\ [Next]_vars => SessionInv'
<1> SUFFICES ASSUME SessionInv, [Next]_vars PROVE SessionInv'
    OBVIOUS
<1>1. TypeOK'
    BY TypeNext DEF SessionInv
<1> USE NumbersAssumption, NoneAssumption, SessionType
    DEF SessionInv, LockInv, Evicted, InHand, Timely, FreshIsOpen,
        OpenIsOwned, Building, Fresh
<1>2. CASE Terminate
    BY <1>1, <1>2 DEF Terminate
<1>3. CASE Tick
    BY <1>1, <1>3 DEF Tick, TypeOK, Time
<1>4. CASE UNCHANGED vars
    BY <1>1, <1>4 DEF vars
<1> QED
    BY <1>1, <1>2, <1>3, <1>4, SafetyStep DEF Next

\* A session still young enough to be handed out has its connection open,
\* whatever builds failed before.
THEOREM ServedIsOpen == Spec => []FreshIsOpen
<1>1. SessionInv => FreshIsOpen
    BY DEF SessionInv
<1> QED
    BY <1>1, SafetyInit, SafetyNext, PTL DEF Spec

\* Only a failed build or a failed closing loses an open connection, however many
\* messages arrive at once.
THEOREM NoneIsLost == Spec => []OpenIsOwned
<1>1. SessionInv => OpenIsOwned
    BY DEF SessionInv
<1> QED
    BY <1>1, SafetyInit, SafetyNext, PTL DEF Spec

\* The token of a session that is handed out expired less than
\* TTL + BuildMax - Margin ago.
THEOREM StalenessIsBounded == Spec => []BoundedStaleness
<1>1. SessionInv => BoundedStaleness
    BY NumbersAssumption, SessionType
    DEF SessionInv, TypeOK, Timely, BoundedStaleness, Fresh, Time
<1> QED
    BY <1>1, SafetyInit, SafetyNext, PTL DEF Spec

=============================================================================
