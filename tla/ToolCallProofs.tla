--------------------------- MODULE ToolCallProofs ---------------------------
(***************************************************************************)
(* What ToolCall.tla promises for any number of users, calls, containers   *)
(* and versions of the key, and for any timing: an answer is the truth     *)
(* about what was done, and the key that is injected is recent.            *)
(***************************************************************************)
EXTENDS ToolCall, TLAPS

\* What Lark did in call x.
Done(x) == {d \in changed : d[2] = x}

\* The first n changes of a call, made for u.
FirstChanges(u, x, n) == {<<u, x, i>> : i \in 1..n}

\* The record r of call x goes with what Lark did in it, D: nothing before the
\* tool has the identity of the caller; then what was counted, for the user,
\* with a change left to make; and in the end what the agent is told.
Fits(r, x, D) ==
    /\ r.step \in {"read", "store", "inject", "dispatch"} => r.done = 0
    /\ r.step \in {"dispatch", "lark"} => r.actor = r.user
    /\ r.step = "lark" => r.done < Len(Changes[r.tool])
    /\ r.step # "answered" => D = FirstChanges(r.actor, x, r.done)
    /\ r.step = "answered" =>
         \E n \in r.told..(r.told + r.doubt) : D = FirstChanges(r.user, x, n)

\* The inductive invariant behind AnswersAreTrue.
ChangesInv == \A x \in Calls : Fits(call[x], x, Done(x))

\* The outcome k of a read by container c was right d time units before n, or
\* later: there was a failure then, or the key had not been replaced.
RightAt(k, c, n, d) ==
    IF k = NoKey THEN n <= failed[c] + d
    ELSE k = stored \/ n <= replaced[k] + d

\* The record r of a call: its execution is killed in time; the key at hand was
\* read by this execution, or by the one that filled the cache.
Held(r) ==
    /\ r.step \notin {"idle", "answered"} =>
         r.since <= now /\ now <= r.since + Timeout
    /\ r.step = "store" => RightAt(r.key, r.at, r.since, 0)
    /\ r.step = "inject" =>
         \/ RightAt(r.key, r.at, r.since, 0)
         \/ RightAt(r.key, r.at, r.since + 1, KeyTTL + Timeout)

\* The cached key e of container c was right when the execution began that
\* read it.
Cached(e, c) ==
    /\ e.until <= now + KeyTTL
    /\ RightAt(e.key, c, e.until, KeyTTL + Timeout)

\* The inductive invariant behind KeyIsRecent.
KeyInv ==
    /\ \A x \in Calls : Held(call[x])
    /\ \A c \in Interceptors : Cached(cache[c], c)

-----------------------------------------------------------------------------
(* Types. *)

LEMMA PlanType ==
    ASSUME NEW tool \in Tools
    PROVE  /\ Len(Changes[tool]) \in 0..2
           /\ Changes[tool] # <<>> => Len(Changes[tool]) > 0
BY DEF Tools, Changes

LEMMA NoCallType ==
    ASSUME NEW u \in Users
    PROVE  NoCall(u) \in Call /\ [NoCall(u) EXCEPT !.step = "answered"] \in Call
BY BoundsAssumption DEF NoCall, Call, Time, Tools, Changes

LEMMA AnswerType ==
    ASSUME NEW u \in Users, NEW n \in 0..2, NEW d \in 0..1
    PROVE  [NoCall(u) EXCEPT !.step = "answered", !.told = n, !.doubt = d] \in Call
<1>1. NoCall(u) \in Call
  BY NoCallType
<1> QED
  BY <1>1 DEF Call

\* A step that changes call x alone keeps the types of calls, provided the new
\* record is right and holds a container that nobody else holds.
LEMMA CallsType ==
    ASSUME TypeOK, NEW x \in Calls, NEW r \in Call,
           call' = [call EXCEPT ![x] = r],
           r.step \in {"read", "store", "inject"} <=> r.at # None,
           \A y \in Calls : y # x /\ call[y].at = r.at => r.at = None
    PROVE  /\ call' \in [Calls -> Call]
           /\ \A y \in Calls :
                call'[y].step \in {"read", "store", "inject"}
                    <=> call'[y].at # None
           /\ \A y, z \in Calls :
                call'[y].at = call'[z].at /\ y # z => call'[y].at = None
<1>1. call \in [Calls -> Call]
  BY DEF TypeOK
<1>2. call' \in [Calls -> Call] /\ call'[x] = r
  BY <1>1
<1>3. \A y \in Calls : y # x => call'[y] = call[y]
  BY <1>1
<1>4. ASSUME NEW y \in Calls
      PROVE  call'[y].step \in {"read", "store", "inject"} <=> call'[y].at # None
  BY <1>2, <1>3 DEF TypeOK
<1>5. ASSUME NEW y \in Calls, NEW z \in Calls,
             call'[y].at = call'[z].at, y # z
      PROVE  call'[y].at = None
  BY <1>2, <1>3, <1>5 DEF TypeOK
<1> QED
  BY <1>2, <1>4, <1>5

LEMMA TypeInit == Init => TypeOK
<1> SUFFICES ASSUME Init PROVE TypeOK
  OBVIOUS
<1>1. PICK u \in Users : call = [x \in Calls |-> NoCall(u)]
  BY DEF Init
<1>2. \A x \in Calls : call[x] = NoCall(u) /\ call[x] \in Call
  BY <1>1, NoCallType
<1>3. \A x \in Calls : call[x].step = "idle" /\ call[x].at = None
  BY <1>2 DEF NoCall
<1>4. now \in Time /\ stored \in Keys
  BY BoundsAssumption DEF Init, Time, Keys
<1>5. /\ cache \in [Interceptors -> [key : Keys \cup {NoKey}, until : Nat]]
      /\ replaced \in [Keys -> Time] /\ failed \in [Interceptors -> Time]
  BY BoundsAssumption DEF Init, Time
<1> QED
  BY <1>1, <1>2, <1>3, <1>4, <1>5 DEF Init, TypeOK

\* What a step does to one call, whatever the step: the call is kept by all
\* others, and the new record has the right type.
LEMMA TypeCallStep ==
    ASSUME TypeOK, ChangesInv, NEW x \in Calls, CallStep(x)
    PROVE  TypeOK'
<1> DEFINE CallsOK == /\ call' \in [Calls -> Call]
                      /\ \A y \in Calls :
                           call'[y].step \in {"read", "store", "inject"}
                               <=> call'[y].at # None
                      /\ \A y, z \in Calls :
                           call'[y].at = call'[z].at /\ y # z
                               => call'[y].at = None
<1>1. /\ call[x] \in Call /\ call \in [Calls -> Call] /\ now \in Time
      /\ stored \in Keys /\ replaced \in [Keys -> Time]
      /\ failed \in [Interceptors -> Time]
      /\ changed \subseteq Users \X Calls \X {1, 2}
      /\ cache \in [Interceptors -> [key : Keys \cup {NoKey}, until : Nat]]
  BY DEF TypeOK
<1>2. /\ call[x].step \in {"read", "store", "inject"} <=> call[x].at # None
      /\ \A y \in Calls : y # x /\ call[y].at = call[x].at => call[x].at = None
  BY DEF TypeOK
<1>3. ASSUME NEW r \in Call, call' = [call EXCEPT ![x] = r],
             r.step \in {"read", "store", "inject"} <=> r.at # None,
             r.at = call[x].at \/ r.at = None
      PROVE  CallsOK
  <2>1. \A y \in Calls : y # x /\ call[y].at = r.at => r.at = None
    BY <1>2, <1>3
  <2> QED
    BY <1>3, <2>1, CallsType
<1>4. call[x].user \in Users /\ call[x].at \in Interceptors \cup {None}
      /\ call[x].done \in 0..2 /\ call[x].tool \in Tools
      /\ call[x].key \in Keys \cup {NoKey} /\ call[x].since \in Time
  BY <1>1 DEF Call
<1>5. call' = [call EXCEPT ![x] = NoCall(call[x].user)] => CallsOK
  BY <1>3, <1>4, NoCallType DEF NoCall
<1>6. ASSUME NEW n \in 0..2, NEW d \in 0..1, Answer(x, n, d)
      PROVE  CallsOK
  <2> DEFINE r == [NoCall(call[x].user) EXCEPT !.step = "answered", !.told = n,
                                               !.doubt = d]
  <2>1. r \in Call /\ r.step = "answered" /\ r.at = None
    BY <1>4, AnswerType DEF NoCall
  <2>2. call' = [call EXCEPT ![x] = r]
    BY <1>6 DEF Answer
  <2> HIDE DEF r
  <2> QED
    BY <2>1, <2>2, <1>3
<1>7. CallsOK /\ now' = now /\ stored' = stored /\ replaced' = replaced
      /\ cache' \in [Interceptors -> [key : Keys \cup {NoKey}, until : Nat]]
      /\ failed' \in [Interceptors -> Time]
      /\ changed' \subseteq Users \X Calls \X {1, 2}
      => TypeOK'
  BY <1>1 DEF TypeOK
<1>8. CASE ReadKey(x)
  <2>1. call[x].at \in Interceptors
    BY <1>2, <1>4, <1>8 DEF ReadKey, At
  <2>2. PICK k \in Keys \cup {NoKey} :
           call' = [call EXCEPT ![x].step = "store", ![x].key = k]
    BY <1>1, <1>8 DEF ReadKey
  <2> DEFINE r == [call[x] EXCEPT !.step = "store", !.key = k]
  <2>3. r \in Call /\ r.step = "store" /\ r.at = call[x].at
    BY <1>1 DEF Call
  <2>4. call' = [call EXCEPT ![x] = r]
    BY <2>2
  <2>5. failed' \in [Interceptors -> Time]
    BY <1>1, <1>8 DEF ReadKey
  <2> HIDE DEF r
  <2>6. CallsOK
    BY <2>3, <2>4, <1>2, <1>3, <1>8 DEF ReadKey, At
  <2> QED
    BY <2>5, <2>6, <1>1, <1>7, <1>8 DEF ReadKey
<1>9. CASE StoreKey(x)
  <2> DEFINE r == [call[x] EXCEPT !.step = "inject"]
  <2>1. r \in Call /\ r.step = "inject" /\ r.at = call[x].at
    BY <1>1 DEF Call
  <2>2. call' = [call EXCEPT ![x] = r]
    BY <1>9 DEF StoreKey, Goto
  <2>3. now + KeyTTL \in Nat
    BY <1>1, BoundsAssumption DEF Time
  <2>4. cache' \in [Interceptors -> [key : Keys \cup {NoKey}, until : Nat]]
    BY <1>1, <1>4, <1>9, <2>3 DEF StoreKey
  <2> HIDE DEF r
  <2>5. CallsOK
    BY <2>1, <2>2, <1>2, <1>3, <1>9 DEF StoreKey, At
  <2> QED
    BY <2>4, <2>5, <1>1, <1>7, <1>9 DEF StoreKey
<1>10. CASE Inject(x)
  <2> DEFINE r == [call[x] EXCEPT !.step = "dispatch", !.at = None,
                                  !.actor = call[x].user, !.since = now]
  <2>1. r \in Call /\ r.step = "dispatch" /\ r.at = None
    BY <1>1, <1>4 DEF Call
  <2>2. call' = [call EXCEPT ![x] = r]
    BY <1>10, <1>1 DEF Inject
  <2> HIDE DEF r
  <2>3. CallsOK
    BY <2>1, <2>2, <1>3
  <2> QED
    BY <2>3, <1>1, <1>7, <1>10 DEF Inject
<1>11. CASE PassOn(x)
  BY <1>1, <1>6, <1>7, <1>11 DEF PassOn
<1>12. CASE Dispatch(x)
  <2>1. CASE Answer(x, 0, 0)
    BY <2>1, <1>1, <1>6, <1>7, <1>12 DEF Dispatch
  <2>2. CASE Goto(x, "lark")
    <3> DEFINE r == [call[x] EXCEPT !.step = "lark"]
    <3>1. r \in Call /\ r.step = "lark" /\ r.at = call[x].at
      BY <1>1 DEF Call
    <3>2. call' = [call EXCEPT ![x] = r]
      BY <2>2 DEF Goto
    <3>3. r.at = None
      BY <3>1, <1>2, <1>12 DEF Dispatch, At
    <3> HIDE DEF r
    <3>4. CallsOK
      BY <3>1, <3>2, <3>3, <1>3
    <3> QED
      BY <3>4, <1>1, <1>7, <1>12 DEF Dispatch
  <2> QED
    BY <2>1, <2>2, <1>12 DEF Dispatch
<1>13. ASSUME At(x, "lark")
       PROVE  call[x].done + 1 \in {1, 2} /\ call[x].done + 1 \in 0..2
  <2>1. call[x].done < Len(Plan(x)) /\ Len(Plan(x)) \in 0..2
    BY <1>4, <1>13, PlanType DEF ChangesInv, Fits, Plan, At
  <2>2. call[x].done \in 0..2
    BY <1>4
  <2>3. \A d \in 0..2, l \in 0..2 : d < l => d + 1 \in {1, 2} /\ d + 1 \in 0..2
    OBVIOUS
  <2> QED
    BY <2>1, <2>2, <2>3
<1>14. CASE LarkChanges(x)
  <2> DEFINE n == call[x].done + 1
  <2>1. n \in {1, 2} /\ n \in 0..2
    BY <1>14, <1>13 DEF LarkChanges
  <2>2. call[x].actor \in Users
    BY <1>1 DEF Call
  <2>3. changed' \subseteq Users \X Calls \X {1, 2}
    BY <2>1, <2>2, <1>1, <1>14 DEF LarkChanges
  <2>4. CallsOK
    <3>1. CASE Answer(x, n, 0)
      BY <3>1, <2>1, <1>6
    <3>2. CASE call' = [call EXCEPT ![x].done = n]
      <4> DEFINE r == [call[x] EXCEPT !.done = n]
      <4>1. r \in Call /\ r.step = call[x].step /\ r.at = call[x].at
        BY <2>1, <1>1 DEF Call
      <4>2. call' = [call EXCEPT ![x] = r]
        BY <3>2
      <4> HIDE DEF r
      <4> QED
        BY <4>1, <4>2, <1>2, <1>3
    <3> QED
      BY <3>1, <3>2, <1>14 DEF LarkChanges
  <2> QED
    BY <2>3, <2>4, <1>1, <1>7, <1>14 DEF LarkChanges
<1>15. CASE LarkRefuses(x)
  BY <1>1, <1>4, <1>6, <1>7, <1>15 DEF LarkRefuses
<1>16. CASE LarkFails(x)
  <2>1. call[x].actor \in Users /\ call[x].done + 1 \in {1, 2}
    BY <1>1, <1>16, <1>13 DEF Call, LarkFails
  <2>2. changed' \subseteq Users \X Calls \X {1, 2}
    BY <1>1, <1>16, <2>1 DEF LarkFails
  <2>3. CallsOK
    BY <1>4, <1>6, <1>16 DEF LarkFails
  <2> QED
    BY <1>1, <1>7, <1>16, <2>2, <2>3 DEF LarkFails
<1>17. CASE LarkIsSilent(x) \/ Die(x)
  BY <1>1, <1>5, <1>7, <1>17 DEF LarkIsSilent, Die, Break, Forget
<1> QED
  BY <1>8, <1>9, <1>10, <1>11, <1>12, <1>14, <1>15, <1>16, <1>17 DEF CallStep

LEMMA TypeArrive ==
    ASSUME TypeOK, NEW x \in Calls, NEW c \in Interceptors, Arrive(x, c)
    PROVE  TypeOK'
<1>1. PICK u \in Users, a \in Users, tool \in Tools :
         call' = [call EXCEPT ![x] =
                    [step |-> IF now < cache[c].until THEN "inject" ELSE "read",
                     user |-> u, tool |-> tool, at |-> c, key |-> cache[c].key,
                     since |-> now, actor |-> a, done |-> 0, told |-> 0,
                     doubt |-> 0]]
  BY DEF Arrive
<1> DEFINE r == [step |-> IF now < cache[c].until THEN "inject" ELSE "read",
                 user |-> u, tool |-> tool, at |-> c, key |-> cache[c].key,
                 since |-> now, actor |-> a, done |-> 0, told |-> 0,
                 doubt |-> 0]
<1>2. r \in Call /\ r.step \in {"inject", "read"} /\ r.at = c
  BY DEF TypeOK, Call
<1>3. call' = [call EXCEPT ![x] = r]
  BY <1>1
<1>4. c # None
  BY NoneAssumption
<1>5. \A y \in Calls : call[y].at # c
  BY DEF Arrive
<1> HIDE DEF r
<1>6. /\ r.step \in {"read", "store", "inject"} <=> r.at # None
      /\ \A y \in Calls : y # x /\ call[y].at = r.at => r.at = None
  BY <1>2, <1>4, <1>5
<1>7. /\ call' \in [Calls -> Call]
      /\ \A y \in Calls :
           call'[y].step \in {"read", "store", "inject"} <=> call'[y].at # None
      /\ \A y, z \in Calls :
           call'[y].at = call'[z].at /\ y # z => call'[y].at = None
  BY <1>2, <1>3, <1>6, CallsType
<1> QED
  BY <1>7 DEF TypeOK, Arrive, Forget

LEMMA TypeNext == TypeOK /\ ChangesInv /\ [Next]_vars => TypeOK'
<1> SUFFICES ASSUME TypeOK, ChangesInv, [Next]_vars
             PROVE  TypeOK'
  OBVIOUS
<1>1. ASSUME NEW x \in Calls, CallStep(x) PROVE TypeOK'
  BY <1>1, TypeCallStep
<1>2. ASSUME NEW x \in Calls, NEW c \in Interceptors, Arrive(x, c) PROVE TypeOK'
  BY <1>2, TypeArrive
<1>3. ASSUME NEW c \in Interceptors, Recycle(c) PROVE TypeOK'
  BY <1>3 DEF TypeOK, Recycle
<1>4. CASE RotateKey
  BY <1>4, BoundsAssumption DEF TypeOK, RotateKey, Keys
<1>5. CASE Tick
  BY <1>5, BoundsAssumption DEF TypeOK, Tick, Time
<1>6. CASE UNCHANGED vars
  BY <1>6 DEF TypeOK, vars
<1> QED
  BY <1>1, <1>2, <1>3, <1>4, <1>5, <1>6 DEF Next

-----------------------------------------------------------------------------
(* Answers. *)

LEMMA NothingYet ==
    ASSUME NEW u, NEW x
    PROVE  FirstChanges(u, x, 0) = {}
BY DEF FirstChanges

LEMMA OneMore ==
    ASSUME NEW u, NEW x, NEW n \in Nat
    PROVE  FirstChanges(u, x, n + 1) =
             FirstChanges(u, x, n) \cup {<<u, x, n + 1>>}
BY DEF FirstChanges

LEMMA NoCallFits ==
    ASSUME NEW u, NEW x
    PROVE  /\ Fits(NoCall(u), x, {})
           /\ \A n, d \in Nat : \A m \in n..(n + d) : \A D :
                D = FirstChanges(u, x, m) =>
                  Fits([NoCall(u) EXCEPT !.step = "answered", !.told = n,
                                         !.doubt = d], x, D)
BY NothingYet DEF Fits, NoCall

\* A step that changes call x alone, and nothing Lark did in the other calls.
LEMMA OneCallMoves ==
    ASSUME TypeOK, ChangesInv, NEW x \in Calls, NEW r,
           call' = [call EXCEPT ![x] = r],
           \A y \in Calls : y # x => Done(y)' = Done(y),
           Fits(r, x, Done(x)')
    PROVE  ChangesInv'
<1>1. call'[x] = r /\ \A y \in Calls : y # x => call'[y] = call[y]
  BY DEF TypeOK
<1>2. ASSUME NEW y \in Calls PROVE Fits(call'[y], y, Done(y)')
  BY <1>1 DEF ChangesInv
<1> QED
  BY <1>2 DEF ChangesInv, Fits, FirstChanges

LEMMA ForgetDone ==
    ASSUME NEW x \in Calls, Forget(x)
    PROVE  /\ Done(x)' = {}
           /\ \A y \in Calls : y # x => Done(y)' = Done(y)
BY DEF Forget, Done

LEMMA ChangesInit == Init => ChangesInv
<1> SUFFICES ASSUME Init, NEW x \in Calls PROVE Fits(call[x], x, Done(x))
  BY DEF ChangesInv
<1>1. PICK u \in Users : call = [y \in Calls |-> NoCall(u)]
  BY DEF Init
<1>2. call[x] = NoCall(u) /\ Done(x) = {}
  BY <1>1 DEF Init, Done
<1> QED
  BY <1>2, NoCallFits

LEMMA ChangesCallStep ==
    ASSUME TypeOK, ChangesInv, NEW x \in Calls, CallStep(x)
    PROVE  ChangesInv'
<1>1. call[x] \in Call /\ Fits(call[x], x, Done(x))
  BY DEF TypeOK, ChangesInv
<1>2. UNCHANGED changed => \A y \in Calls : Done(y)' = Done(y)
  BY DEF Done
<1>3. ASSUME NEW n \in Nat, NEW d \in Nat, NEW m \in n..(n + d), Answer(x, n, d),
             Done(x)' = FirstChanges(call[x].user, x, m),
             \A y \in Calls : y # x => Done(y)' = Done(y)
      PROVE  ChangesInv'
  <2> DEFINE r == [NoCall(call[x].user) EXCEPT !.step = "answered", !.told = n,
                                               !.doubt = d]
  <2>1. Fits(r, x, Done(x)')
    BY <1>3, NoCallFits
  <2>2. call' = [call EXCEPT ![x] = r]
    BY <1>3 DEF Answer
  <2> HIDE DEF r
  <2> QED
    BY <1>3, <2>1, <2>2, OneCallMoves
<1>4. call[x].done \in Nat
  BY <1>1 DEF Call
<1>5. CASE ReadKey(x)
  <2>1. PICK k : call' = [call EXCEPT ![x].step = "store", ![x].key = k]
    BY <1>5 DEF ReadKey
  <2> DEFINE r == [call[x] EXCEPT !.step = "store", !.key = k]
  <2>2. Fits(r, x, Done(x))
    BY <1>1, <1>5 DEF ReadKey, At, Fits, Call
  <2>3. call' = [call EXCEPT ![x] = r]
    BY <2>1
  <2>4. \A y \in Calls : Done(y)' = Done(y)
    BY <1>2, <1>5 DEF ReadKey
  <2>5. Fits(r, x, Done(x)')
    BY <2>2, <2>4
  <2> HIDE DEF r
  <2> QED
    BY <2>3, <2>4, <2>5, OneCallMoves
<1>6. CASE StoreKey(x)
  <2> DEFINE r == [call[x] EXCEPT !.step = "inject"]
  <2>1. Fits(r, x, Done(x))
    BY <1>1, <1>6 DEF StoreKey, At, Fits, Call
  <2>2. call' = [call EXCEPT ![x] = r]
    BY <1>6 DEF StoreKey, Goto
  <2>3. \A y \in Calls : Done(y)' = Done(y)
    BY <1>2, <1>6 DEF StoreKey
  <2>4. Fits(r, x, Done(x)')
    BY <2>1, <2>3
  <2> HIDE DEF r
  <2> QED
    BY <2>2, <2>3, <2>4, OneCallMoves
<1>7. CASE Inject(x)
  <2> DEFINE r == [call[x] EXCEPT !.step = "dispatch", !.at = None,
                                  !.actor = call[x].user, !.since = now]
  <2>1. /\ r.step = "dispatch" /\ r.actor = call[x].user
        /\ r.user = call[x].user /\ r.done = call[x].done
    BY <1>1 DEF Call
  <2>2. call[x].done = 0 /\ Done(x) = FirstChanges(call[x].actor, x, 0)
    BY <1>1, <1>7 DEF Inject, At, Fits
  <2>3. call' = [call EXCEPT ![x] = r]
    BY <1>1, <1>7 DEF Inject
  <2>4. \A y \in Calls : Done(y)' = Done(y)
    BY <1>2, <1>7 DEF Inject
  <2>5. Fits(r, x, Done(x)')
    <3>1. Done(x)' = FirstChanges(r.actor, x, 0)
      BY <2>2, <2>4, NothingYet
    <3> HIDE DEF r
    <3> QED
      BY <2>1, <2>2, <3>1 DEF Fits
  <2> HIDE DEF r
  <2> QED
    BY <2>3, <2>4, <2>5, OneCallMoves
<1>8. CASE PassOn(x)
  <2>1. Done(x) = FirstChanges(call[x].actor, x, 0)
    BY <1>1, <1>8 DEF PassOn, At, Fits
  <2>2. Done(x)' = FirstChanges(call[x].user, x, 0)
    BY <1>2, <1>8, <2>1, NothingYet DEF PassOn
  <2> QED
    BY <1>2, <1>3, <1>8, <2>2 DEF PassOn
<1>9. CASE Dispatch(x)
  <2>1. \A y \in Calls : Done(y)' = Done(y)
    BY <1>2, <1>9 DEF Dispatch
  <2>2. CASE Answer(x, 0, 0)
    <3>1. Done(x) = FirstChanges(call[x].actor, x, 0)
      BY <1>1, <1>9 DEF Dispatch, At, Fits
    <3>2. Done(x)' = FirstChanges(call[x].user, x, 0)
      BY <2>1, <3>1, NothingYet
    <3> QED
      BY <1>3, <2>1, <2>2, <3>2
  <2>3. CASE Plan(x) # <<>> /\ Goto(x, "lark")
    <3> DEFINE r == [call[x] EXCEPT !.step = "lark"]
    <3>1. call[x].tool \in Tools /\ Len(Changes[call[x].tool]) > 0
      BY <1>1, <2>3, PlanType DEF Call, Plan
    <3>2. Fits(r, x, Done(x))
      BY <1>1, <1>9, <3>1 DEF Dispatch, At, Fits, Call
    <3>3. call' = [call EXCEPT ![x] = r]
      BY <2>3 DEF Goto
    <3>4. Fits(r, x, Done(x)')
      BY <2>1, <3>2
    <3> HIDE DEF r
    <3> QED
      BY <2>1, <3>3, <3>4, OneCallMoves
  <2> QED
    BY <1>9, <2>2, <2>3 DEF Dispatch
<1>10. CASE LarkChanges(x)
  <2> DEFINE n == call[x].done + 1
  <2>1. /\ call[x].done \in Nat /\ call[x].actor = call[x].user
        /\ call[x].done < Len(Changes[call[x].tool])
        /\ Done(x) = FirstChanges(call[x].user, x, call[x].done)
    BY <1>1, <1>10 DEF LarkChanges, At, Fits, Call
  <2>2. changed' = changed \cup {<<call[x].user, x, n>>}
    BY <1>10, <2>1 DEF LarkChanges
  <2>3. \A y \in Calls : y # x => Done(y)' = Done(y)
    BY <2>2 DEF Done
  <2>4. Done(x)' = Done(x) \cup {<<call[x].user, x, n>>}
    BY <2>2 DEF Done
  <2>5. Done(x)' = FirstChanges(call[x].user, x, n)
    BY <2>1, <2>4, OneMore
  <2>6. CASE n = Len(Plan(x))
    BY <1>3, <1>10, <2>3, <2>5, <2>6 DEF LarkChanges
  <2>7. CASE n # Len(Plan(x))
    <3> DEFINE r == [call[x] EXCEPT !.done = n]
    <3>1. /\ r.step = "lark" /\ r.actor = r.user /\ r.user = call[x].user
          /\ r.done = n /\ r.tool = call[x].tool
      BY <1>1, <1>10, <2>1 DEF Call, LarkChanges, At
    <3>2. n < Len(Changes[call[x].tool])
      <4>1. Len(Changes[call[x].tool]) \in Nat
        BY <1>1, PlanType DEF Call
      <4> QED
        BY <2>1, <2>7, <4>1 DEF Plan
    <3>3. call' = [call EXCEPT ![x] = r]
      BY <1>10, <2>7 DEF LarkChanges
    <3> HIDE DEF r, n
    <3>4. Fits(r, x, Done(x)')
      BY <2>5, <3>1, <3>2 DEF Fits
    <3> QED
      BY <2>3, <3>3, <3>4, OneCallMoves
  <2> QED
    BY <2>6, <2>7
<1>11. CASE LarkRefuses(x)
  <2>1. Done(x) = FirstChanges(call[x].user, x, call[x].done)
    BY <1>1, <1>11 DEF LarkRefuses, At, Fits
  <2> QED
    BY <1>2, <1>3, <1>11, <1>4, <2>1 DEF LarkRefuses
<1>12. CASE LarkFails(x)
  <2> DEFINE n == call[x].done
  <2>1. Done(x) = FirstChanges(call[x].user, x, n) /\ call[x].actor = call[x].user
    BY <1>1, <1>12 DEF LarkFails, At, Fits
  <2>2. n \in Nat /\ n \in n..(n + 1) /\ n + 1 \in n..(n + 1) /\ Answer(x, n, 1)
    BY <1>4, <1>12 DEF LarkFails
  <2>3. CASE UNCHANGED changed
    BY <1>2, <1>3, <2>1, <2>2, <2>3
  <2>4. CASE changed' = changed \cup {<<call[x].actor, x, n + 1>>}
    <3>1. Done(x)' = Done(x) \cup {<<call[x].actor, x, n + 1>>}
      BY <2>4 DEF Done
    <3>2. \A y \in Calls : y # x => Done(y)' = Done(y)
      BY <2>4 DEF Done
    <3>3. Done(x)' = FirstChanges(call[x].user, x, n + 1)
      BY <2>1, <2>2, <3>1, OneMore
    <3> QED
      BY <1>3, <2>2, <3>2, <3>3
  <2> QED
    BY <1>12, <2>3, <2>4 DEF LarkFails
<1>13. CASE LarkIsSilent(x) \/ Die(x)
  <2>1. call' = [call EXCEPT ![x] = NoCall(call[x].user)] /\ Forget(x)
    BY <1>13 DEF LarkIsSilent, Die, Break
  <2>2. Fits(NoCall(call[x].user), x, Done(x)')
    BY <2>1, ForgetDone, NoCallFits
  <2> QED
    BY <2>1, <2>2, ForgetDone, OneCallMoves
<1> QED
  BY <1>5, <1>6, <1>7, <1>8, <1>9, <1>10, <1>11, <1>12, <1>13 DEF CallStep

LEMMA ChangesArrive ==
    ASSUME TypeOK, ChangesInv, NEW x \in Calls, NEW c \in Interceptors,
           Arrive(x, c)
    PROVE  ChangesInv'
<1>1. PICK u \in Users, a \in Users, tool \in Tools :
         call' = [call EXCEPT ![x] =
                    [step |-> IF now < cache[c].until THEN "inject" ELSE "read",
                     user |-> u, tool |-> tool, at |-> c, key |-> cache[c].key,
                     since |-> now, actor |-> a, done |-> 0, told |-> 0,
                     doubt |-> 0]]
  BY DEF Arrive
<1> DEFINE r == [step |-> IF now < cache[c].until THEN "inject" ELSE "read",
                 user |-> u, tool |-> tool, at |-> c, key |-> cache[c].key,
                 since |-> now, actor |-> a, done |-> 0, told |-> 0,
                 doubt |-> 0]
<1>2. call' = [call EXCEPT ![x] = r]
  BY <1>1
<1>3. Done(x)' = {} /\ \A y \in Calls : y # x => Done(y)' = Done(y)
  BY ForgetDone DEF Arrive
<1>4. Fits(r, x, Done(x)')
  BY <1>3, NothingYet DEF Fits
<1> HIDE DEF r
<1> QED
  BY <1>2, <1>3, <1>4, OneCallMoves

LEMMA ChangesNext == TypeOK /\ ChangesInv /\ [Next]_vars => ChangesInv'
<1> SUFFICES ASSUME TypeOK, ChangesInv, [Next]_vars
             PROVE  ChangesInv'
  OBVIOUS
<1>1. ASSUME NEW x \in Calls, CallStep(x) PROVE ChangesInv'
  BY <1>1, ChangesCallStep
<1>2. ASSUME NEW x \in Calls, NEW c \in Interceptors, Arrive(x, c)
      PROVE  ChangesInv'
  BY <1>2, ChangesArrive
<1>3. ASSUME UNCHANGED <<call, changed>> PROVE ChangesInv'
  BY <1>3 DEF ChangesInv, Fits, Done, FirstChanges
<1>4. ASSUME NEW c \in Interceptors, Recycle(c) PROVE ChangesInv'
  BY <1>3, <1>4 DEF Recycle
<1>5. CASE RotateKey
  BY <1>3, <1>5 DEF RotateKey
<1>6. CASE Tick
  BY <1>3, <1>6 DEF Tick
<1>7. CASE UNCHANGED vars
  BY <1>3, <1>7 DEF vars
<1> QED
  BY <1>1, <1>2, <1>4, <1>5, <1>6, <1>7 DEF Next

-----------------------------------------------------------------------------
(* The age of the key. *)

\* The ghosts move forward only, and the key that is replaced was right till
\* then.
Forward ==
    /\ \/ UNCHANGED failed
       \/ \E c \in Interceptors : failed' = [failed EXCEPT ![c] = now]
    /\ \/ UNCHANGED <<stored, replaced>>
       \/ replaced' = [replaced EXCEPT ![stored] = now]

\* So an outcome that was right at a time in the past stays so.
LEMMA RightStays ==
    ASSUME TypeOK, Forward,
           NEW k \in Keys \cup {NoKey}, NEW c \in Interceptors,
           NEW n \in Nat, NEW d \in Nat, n <= now + d, RightAt(k, c, n, d)
    PROVE  RightAt(k, c, n, d)'
<1>1. now \in Nat
  BY BoundsAssumption DEF TypeOK, Time
<1>2. CASE k = NoKey
  <2>1. n <= failed[c] + d
    BY <1>2 DEF RightAt
  <2>2. failed'[c] \in {failed[c], now}
    BY DEF Forward, TypeOK
  <2>3. n <= failed'[c] + d
    BY <2>1, <2>2
  <2> QED
    BY <1>2, <2>3 DEF RightAt
<1>3. CASE k # NoKey
  <2>1. k \in Keys /\ (k = stored \/ n <= replaced[k] + d)
    BY <1>3 DEF RightAt
  <2>2. CASE UNCHANGED <<stored, replaced>>
    BY <1>3, <2>1, <2>2 DEF RightAt
  <2>3. CASE replaced' = [replaced EXCEPT ![stored] = now]
    <3>1. replaced'[k] = IF k = stored THEN now ELSE replaced[k]
      BY <2>1, <2>3 DEF TypeOK
    <3>2. n <= replaced'[k] + d
      BY <2>1, <3>1
    <3> QED
      BY <1>3, <3>2 DEF RightAt
  <2> QED
    BY <2>2, <2>3 DEF Forward
<1> QED
  BY <1>2, <1>3

LEMMA HeldStays ==
    ASSUME TypeOK, Forward, UNCHANGED now, NEW r \in Call, Held(r),
           r.step \in {"store", "inject"} => r.at # None
    PROVE  Held(r)'
<1>1. now \in Nat /\ r.since \in Nat /\ r.key \in Keys \cup {NoKey}
  BY BoundsAssumption DEF TypeOK, Call, Time
<1>2. r.step \in {"store", "inject"} => r.at \in Interceptors
  BY DEF Call
<1>3. ASSUME r.step \in {"store", "inject"}, RightAt(r.key, r.at, r.since, 0)
      PROVE  RightAt(r.key, r.at, r.since, 0)'
  <2>1. r.since <= now + 0
    BY <1>1, <1>3 DEF Held
  <2> QED
    BY <1>1, <1>2, <1>3, <2>1, RightStays
<1>4. ASSUME r.step = "inject",
             RightAt(r.key, r.at, r.since + 1, KeyTTL + Timeout)
      PROVE  RightAt(r.key, r.at, r.since + 1, KeyTTL + Timeout)'
  <2>1. /\ r.since + 1 <= now + (KeyTTL + Timeout)
        /\ r.since + 1 \in Nat /\ KeyTTL + Timeout \in Nat
    BY <1>1, <1>4, BoundsAssumption DEF Held
  <2> QED
    BY <1>1, <1>2, <1>4, <2>1, RightStays
<1> QED
  BY <1>3, <1>4 DEF Held

LEMMA CachedStays ==
    ASSUME TypeOK, Forward, UNCHANGED now, NEW c \in Interceptors,
           NEW e \in [key : Keys \cup {NoKey}, until : Nat], Cached(e, c)
    PROVE  Cached(e, c)'
<1>1. now \in Nat /\ e.until <= now + (KeyTTL + Timeout)
      /\ KeyTTL + Timeout \in Nat
  BY BoundsAssumption DEF TypeOK, Time, Cached
<1>2. RightAt(e.key, c, e.until, KeyTTL + Timeout)'
  BY <1>1, RightStays DEF Cached
<1> QED
  BY <1>2 DEF Cached

\* A step that changes call x alone, and at most the cache of container c.
LEMMA OneKeyMoves ==
    ASSUME TypeOK, KeyInv, Forward, UNCHANGED now,
           NEW x \in Calls, NEW r, call' = [call EXCEPT ![x] = r], Held(r)',
           NEW c, NEW e,
           cache' = [cache EXCEPT ![c] = e], c \in Interceptors => Cached(e, c)'
    PROVE  KeyInv'
<1>1. ASSUME NEW y \in Calls PROVE Held(call[y])'
  <2>1. CASE y = x
    <3>1. call'[y] = r
      BY <2>1 DEF TypeOK
    <3> QED
      BY <3>1 DEF Held, RightAt
  <2>2. CASE y # x
    <3>1. PICK q \in Call : q = call[y] /\ q = call'[y]
      BY <2>2 DEF TypeOK
    <3>2. Held(q) /\ (q.step \in {"store", "inject"} => q.at # None)
      BY <3>1 DEF KeyInv, TypeOK
    <3>3. Held(q)'
      BY <3>2, HeldStays
    <3> QED
      BY <3>1, <3>3 DEF Held, RightAt
  <2> QED
    BY <2>1, <2>2
<1>2. ASSUME NEW i \in Interceptors PROVE Cached(cache[i], i)'
  <2>1. CASE i = c
    <3>1. cache'[i] = e
      BY <2>1 DEF TypeOK
    <3> QED
      BY <2>1, <3>1 DEF Cached, RightAt
  <2>2. CASE i # c
    <3>1. PICK q \in [key : Keys \cup {NoKey}, until : Nat] :
             q = cache[i] /\ q = cache'[i]
      BY <2>2 DEF TypeOK
    <3>2. Cached(q, i)'
      BY <3>1, CachedStays DEF KeyInv
    <3> QED
      BY <3>1, <3>2 DEF Cached, RightAt
  <2> QED
    BY <2>1, <2>2
<1> QED
  BY <1>1, <1>2 DEF KeyInv

LEMMA KeyInit == Init => KeyInv
<1> SUFFICES ASSUME Init PROVE KeyInv
  OBVIOUS
<1>1. \A x \in Calls : call[x].step = "idle"
  BY DEF Init, NoCall
<1>2. ASSUME NEW c \in Interceptors PROVE Cached(cache[c], c)
  BY BoundsAssumption DEF Init, Cached, RightAt
<1> QED
  BY <1>1, <1>2 DEF KeyInv, Held

LEMMA KeyCallStep ==
    ASSUME TypeOK, KeyInv, NEW x \in Calls, CallStep(x)
    PROVE  KeyInv'
<1>1. PICK o \in Call, n \in Nat : o = call[x] /\ n = now
  BY BoundsAssumption DEF TypeOK, Time
<1>2. /\ o.since \in Nat /\ KeyTTL \in Nat /\ Timeout \in Nat
      /\ o.step \in {"read", "store", "inject"} => o.at \in Interceptors
  BY <1>1, BoundsAssumption DEF TypeOK, Call, Time
<1>3. /\ Held(o)
      /\ o.step \notin {"idle", "answered"} =>
           o.since <= n /\ n <= o.since + Timeout
      /\ n' = n /\ UNCHANGED now
  BY <1>1 DEF KeyInv, Held, CallStep, ReadKey, StoreKey, Inject, Dispatch,
              LarkChanges, LarkRefuses, LarkFails, LarkIsSilent, Die, PassOn
<1>4. ASSUME NEW r, call' = [call EXCEPT ![x] = r], Held(r)', Forward,
             UNCHANGED <<now, cache>>
      PROVE  KeyInv'
  <2>1. /\ cache' = [cache EXCEPT ![None] = None]
        /\ None \in Interceptors => Cached(None, None)'
    BY <1>4, NoneAssumption DEF TypeOK
  <2> QED
    BY <1>4, <2>1, OneKeyMoves
<1>5. UNCHANGED <<stored, replaced, failed>> => Forward
  BY DEF Forward
\* Once it holds no key, a call need only be killed in time.
<1>6. ASSUME NEW r, call' = [call EXCEPT ![x] = r],
             UNCHANGED <<now, stored, cache, replaced, failed>>,
             r.step \in {"idle", "answered", "dispatch", "lark"},
             r.step \notin {"idle", "answered"} =>
               r.since <= n /\ n <= r.since + Timeout
      PROVE  KeyInv'
  <2>1. Held(r)'
    BY <1>1, <1>6 DEF Held
  <2> QED
    BY <1>4, <1>5, <1>6, <2>1
<1>7. CASE ReadKey(x)
  <2>1. PICK k : /\ call' = [call EXCEPT ![x].step = "store", ![x].key = k]
                 /\ \/ k = stored /\ UNCHANGED failed
                    \/ k = NoKey /\ failed' = [failed EXCEPT ![call[x].at] = now]
    BY <1>7 DEF ReadKey
  <2> DEFINE r == [o EXCEPT !.step = "store", !.key = k]
  <2>2. r.step = "store" /\ r.at = o.at /\ r.since = o.since /\ r.key = k
    BY DEF Call
  <2>3. call' = [call EXCEPT ![x] = r]
    BY <1>1, <2>1
  <2>4. o.since <= n /\ n <= o.since + Timeout /\ o.at \in Interceptors
    BY <1>1, <1>2, <1>3, <1>7 DEF ReadKey, At
  <2>5. Forward
    BY <1>1, <1>7, <2>4 DEF Forward, ReadKey
  <2>6. RightAt(k, o.at, o.since, 0)'
    <3>1. CASE k = stored /\ UNCHANGED failed
      <4>1. k # NoKey
        BY <3>1, NoneAssumption DEF TypeOK
      <4> QED
        BY <3>1, <4>1, <1>7 DEF RightAt, ReadKey
    <3>2. CASE k = NoKey /\ failed' = [failed EXCEPT ![call[x].at] = now]
      <4>1. failed'[o.at] = n
        BY <1>1, <3>2, <2>4 DEF TypeOK
      <4> QED
        BY <3>2, <4>1, <2>4, <1>2 DEF RightAt
    <3> QED
      BY <2>1, <3>1, <3>2
  <2> HIDE DEF r
  <2>7. Held(r)'
    BY <1>1, <1>3, <2>2, <2>4, <2>6 DEF Held, RightAt
  <2> QED
    BY <1>3, <2>3, <2>5, <2>7, <1>4, <1>7 DEF ReadKey
<1>8. CASE StoreKey(x)
  <2> DEFINE r == [o EXCEPT !.step = "inject"]
             e == [key |-> o.key, until |-> n + KeyTTL]
  <2>1. r.step = "inject" /\ r.at = o.at /\ r.since = o.since /\ r.key = o.key
    BY DEF Call
  <2>2. call' = [call EXCEPT ![x] = r] /\ cache' = [cache EXCEPT ![o.at] = e]
    BY <1>1, <1>8 DEF StoreKey, Goto
  <2>3. /\ o.since <= n /\ n <= o.since + Timeout /\ o.at \in Interceptors
        /\ RightAt(o.key, o.at, o.since, 0)
        /\ UNCHANGED <<stored, replaced, failed>>
    BY <1>1, <1>2, <1>3, <1>8 DEF StoreKey, At, Held
  <2>4. RightAt(o.key, o.at, o.since, 0)'
    BY <2>3 DEF RightAt
  <2>5. Cached(e, o.at)'
    <3>1. e.until = n + KeyTTL /\ e.key = o.key
      OBVIOUS
    <3>2. RightAt(o.key, o.at, n + KeyTTL, KeyTTL + Timeout)'
      <4>1. failed'[o.at] \in Nat
        BY <2>3, BoundsAssumption DEF TypeOK, Time
      <4>2. o.key # NoKey => replaced'[o.key] \in Nat
        BY <2>3, BoundsAssumption DEF TypeOK, Time, Call
      <4> QED
        BY <1>2, <2>3, <2>4, <4>1, <4>2 DEF RightAt
    <3> HIDE DEF e
    <3> QED
      BY <1>1, <1>2, <1>3, <3>1, <3>2 DEF Cached, RightAt
  <2> HIDE DEF r, e
  <2>6. Held(r)'
    BY <1>1, <1>3, <2>1, <2>3, <2>4 DEF Held, RightAt
  <2>7. Forward
    BY <1>5, <2>3
  <2>8. o.at \in Interceptors => Cached(e, o.at)'
    BY <2>5
  <2> QED
    BY <1>3, <2>2, <2>6, <2>7, <2>8, OneKeyMoves
<1>9. CASE Inject(x)
  <2> DEFINE r == [o EXCEPT !.step = "dispatch", !.at = None,
                            !.actor = o.user, !.since = n]
  <2>1. r.step = "dispatch" /\ r.since = n
    BY DEF Call
  <2>2. call' = [call EXCEPT ![x] = r]
    BY <1>1, <1>9 DEF Inject
  <2> HIDE DEF r
  <2>3. r.since <= n /\ n <= r.since + Timeout
    BY <1>2, <2>1
  <2> QED
    BY <1>6, <1>9, <2>1, <2>2, <2>3 DEF Inject
<1>10. ASSUME NEW m, NEW d, Answer(x, m, d),
              UNCHANGED <<now, stored, cache, replaced, failed>>
       PROVE  KeyInv'
  <2> DEFINE r == [NoCall(o.user) EXCEPT !.step = "answered", !.told = m,
                                         !.doubt = d]
  <2>1. r.step = "answered"
    BY DEF NoCall
  <2>2. call' = [call EXCEPT ![x] = r]
    BY <1>1, <1>10 DEF Answer
  <2> HIDE DEF r
  <2> QED
    BY <1>6, <1>10, <2>1, <2>2
<1>11. CASE PassOn(x)
  BY <1>10, <1>11 DEF PassOn
<1>12. CASE Dispatch(x)
  <2>1. CASE Goto(x, "lark")
    <3> DEFINE r == [o EXCEPT !.step = "lark"]
    <3>1. r.step = "lark" /\ r.since = o.since
      BY DEF Call
    <3>2. call' = [call EXCEPT ![x] = r]
      BY <1>1, <2>1 DEF Goto
    <3>3. o.since <= n /\ n <= o.since + Timeout
      BY <1>1, <1>3, <1>12 DEF Dispatch, At
    <3> HIDE DEF r
    <3> QED
      BY <1>6, <1>12, <3>1, <3>2, <3>3 DEF Dispatch
  <2> QED
    BY <1>10, <1>12, <2>1 DEF Dispatch
<1>13. CASE LarkChanges(x)
  <2>1. CASE call' = [call EXCEPT ![x].done = call[x].done + 1]
    <3> DEFINE r == [o EXCEPT !.done = o.done + 1]
    <3>1. r.step = "lark" /\ r.since = o.since
      BY <1>1, <1>13 DEF Call, LarkChanges, At
    <3>2. call' = [call EXCEPT ![x] = r]
      BY <1>1, <2>1
    <3>3. o.since <= n /\ n <= o.since + Timeout
      BY <1>1, <1>3, <1>13 DEF LarkChanges, At
    <3> HIDE DEF r
    <3> QED
      BY <1>6, <1>13, <3>1, <3>2, <3>3 DEF LarkChanges
  <2> QED
    BY <1>10, <1>13, <2>1 DEF LarkChanges
<1>14. CASE LarkRefuses(x) \/ LarkFails(x)
  BY <1>10, <1>14 DEF LarkRefuses, LarkFails
<1>15. CASE LarkIsSilent(x) \/ Die(x)
  <2> DEFINE r == NoCall(o.user)
  <2>1. r.step = "idle"
    BY DEF NoCall
  <2>2. call' = [call EXCEPT ![x] = r]
    BY <1>1, <1>15 DEF LarkIsSilent, Die, Break
  <2> HIDE DEF r
  <2> QED
    BY <1>6, <1>15, <2>1, <2>2 DEF LarkIsSilent, Die
<1> QED
  BY <1>7, <1>8, <1>9, <1>11, <1>12, <1>13, <1>14, <1>15 DEF CallStep

LEMMA KeyArrive ==
    ASSUME TypeOK, KeyInv, NEW x \in Calls, NEW c \in Interceptors,
           Arrive(x, c)
    PROVE  KeyInv'
<1>1. PICK e \in [key : Keys \cup {NoKey}, until : Nat], n \in Nat :
         e = cache[c] /\ n = now
  BY BoundsAssumption DEF TypeOK, Time
<1>2. PICK u \in Users, a \in Users, tool \in Tools :
         call' = [call EXCEPT ![x] =
                    [step |-> IF now < cache[c].until THEN "inject" ELSE "read",
                     user |-> u, tool |-> tool, at |-> c, key |-> cache[c].key,
                     since |-> now, actor |-> a, done |-> 0, told |-> 0,
                     doubt |-> 0]]
  BY DEF Arrive
<1> DEFINE r == [step |-> IF n < e.until THEN "inject" ELSE "read",
                 user |-> u, tool |-> tool, at |-> c, key |-> e.key,
                 since |-> n, actor |-> a, done |-> 0, told |-> 0,
                 doubt |-> 0]
<1>3. /\ call' = [call EXCEPT ![x] = r]
      /\ UNCHANGED <<now, stored, cache, replaced, failed>>
  BY <1>1, <1>2 DEF Arrive
<1>4. /\ r.step \in {"inject", "read"}
      /\ r.step = "inject" => n < e.until
      /\ r.at = c /\ r.key = e.key /\ r.since = n
  OBVIOUS
<1>5. RightAt(e.key, c, e.until, KeyTTL + Timeout)
  BY <1>1 DEF KeyInv, Cached
<1>6. r.step = "inject" => RightAt(e.key, c, n + 1, KeyTTL + Timeout)'
  <2>1. failed[c] \in Nat /\ (e.key # NoKey => replaced[e.key] \in Nat)
    BY BoundsAssumption DEF TypeOK, Time
  <2>2. KeyTTL + Timeout \in Nat
    BY BoundsAssumption
  <2> HIDE DEF r
  <2> QED
    BY <1>3, <1>4, <1>5, <2>1, <2>2 DEF RightAt
<1>7. n <= n + Timeout
  BY BoundsAssumption
<1> HIDE DEF r
<1>8. Held(r)'
  BY <1>1, <1>3, <1>4, <1>6, <1>7 DEF Held, RightAt
<1>9. /\ cache' = [cache EXCEPT ![None] = None]
      /\ None \in Interceptors => Cached(None, None)'
  BY <1>3, NoneAssumption DEF TypeOK
<1>10. Forward
  BY <1>3 DEF Forward
<1> QED
  BY <1>3, <1>8, <1>9, <1>10, OneKeyMoves

LEMMA KeyNext == TypeOK /\ KeyInv /\ [Next]_vars => KeyInv'
<1> SUFFICES ASSUME TypeOK, KeyInv, [Next]_vars
             PROVE  KeyInv'
  OBVIOUS
<1> USE BoundsAssumption
\* A step that leaves the calls, the caches and the clock alone.
<1>1. ASSUME Forward, UNCHANGED <<now, call, cache>> PROVE KeyInv'
  <2>1. ASSUME NEW x \in Calls PROVE Held(call[x])'
    <3>1. PICK r \in Call : r = call[x]
      BY DEF TypeOK
    <3>2. Held(r) /\ (r.step \in {"store", "inject"} => r.at # None)
      BY <3>1 DEF KeyInv, TypeOK
    <3>3. Held(r)'
      BY <1>1, <3>2, HeldStays
    <3> QED
      BY <1>1, <3>1, <3>3 DEF Held, RightAt
  <2>2. ASSUME NEW c \in Interceptors PROVE Cached(cache[c], c)'
    <3>1. PICK e \in [key : Keys \cup {NoKey}, until : Nat] : e = cache[c]
      BY DEF TypeOK
    <3>2. Cached(e, c)'
      BY <1>1, <3>1, CachedStays DEF KeyInv
    <3> QED
      BY <1>1, <3>1, <3>2 DEF Cached, RightAt
  <2> QED
    BY <2>1, <2>2 DEF KeyInv
<1>2. ASSUME NEW x \in Calls, CallStep(x) PROVE KeyInv'
  BY <1>2, KeyCallStep
<1>3. ASSUME NEW x \in Calls, NEW c \in Interceptors, Arrive(x, c) PROVE KeyInv'
  BY <1>3, KeyArrive
<1>4. ASSUME NEW c \in Interceptors, Recycle(c) PROVE KeyInv'
  <2>1. /\ UNCHANGED <<now, stored, call, replaced, failed>>
        /\ cache' = [cache EXCEPT ![c] = [key |-> NoKey, until |-> 0]]
    BY <1>4 DEF Recycle
  <2>2. ASSUME NEW i \in Interceptors PROVE Cached(cache[i], i)'
    <3>1. CASE i = c
      <4>1. cache'[i] = [key |-> NoKey, until |-> 0]
        BY <2>1, <3>1 DEF TypeOK
      <4>2. cache'[i].key = NoKey /\ cache'[i].until = 0
        BY <4>1
      <4>3. now' \in Nat /\ failed'[i] \in Nat
        BY <2>1 DEF TypeOK, Time
      <4>4. 0 <= now' + KeyTTL /\ 0 <= failed'[i] + (KeyTTL + Timeout)
        <5>1. \A m, d \in Nat : 0 <= m + d
          OBVIOUS
        <5>2. KeyTTL + Timeout \in Nat
          OBVIOUS
        <5> QED
          BY <4>3, <5>1, <5>2
      <4> QED
        BY <4>2, <4>4 DEF Cached, RightAt
    <3>2. CASE i # c
      <4>1. cache'[i] = cache[i] /\ Cached(cache[i], i)
        BY <2>1, <3>2 DEF TypeOK, KeyInv
      <4> QED
        BY <2>1, <4>1 DEF Cached, RightAt
    <3> QED
      BY <3>1, <3>2
  <2>3. ASSUME NEW x \in Calls PROVE Held(call[x])'
    BY <2>1 DEF KeyInv, Held, RightAt
  <2> QED
    BY <2>2, <2>3 DEF KeyInv
<1>5. CASE RotateKey
  <2>1. Forward
    BY <1>5 DEF Forward, RotateKey
  <2> QED
    BY <1>1, <1>5, <2>1 DEF RotateKey
<1>6. CASE Tick
  <2>1. now \in Nat /\ now' = now + 1
        /\ UNCHANGED <<stored, cache, call, replaced, failed>>
    BY <1>6 DEF Tick, TypeOK, Time
  <2>2. ASSUME NEW x \in Calls PROVE Held(call[x])'
    <3>1. call[x].since \in Nat
      BY DEF TypeOK, Call, Time
    <3>2. ~Ended(x) => now < call[x].since + Timeout
      BY <1>6 DEF Tick
    <3>3. call[x].step \notin {"idle", "answered"} =>
            call[x].since <= now' /\ now' <= call[x].since + Timeout
      BY <2>1, <3>1, <3>2 DEF KeyInv, Held, Ended
    <3> QED
      BY <2>1, <3>3 DEF KeyInv, Held, RightAt
  <2>3. ASSUME NEW c \in Interceptors PROVE Cached(cache[c], c)'
    <3>1. cache[c].until \in Nat
      BY DEF TypeOK
    <3>2. cache[c].until <= now' + KeyTTL
      BY <2>1, <3>1 DEF KeyInv, Cached
    <3> QED
      BY <2>1, <3>2 DEF KeyInv, Cached, RightAt
  <2> QED
    BY <2>2, <2>3 DEF KeyInv
<1>7. CASE UNCHANGED vars
  BY <1>1, <1>7 DEF vars, Forward
<1> QED
  BY <1>2, <1>3, <1>4, <1>5, <1>6, <1>7 DEF Next

LEMMA KeyInvRecent == TypeOK /\ KeyInv => KeyIsRecent
<1> SUFFICES ASSUME TypeOK, KeyInv, NEW x \in Calls, At(x, "inject")
             PROVE  LET k == call[x].key
                    IN  IF k = NoKey THEN now < failed[call[x].at] + KeyAge
                        ELSE k = stored \/ now < replaced[k] + KeyAge
  BY DEF KeyIsRecent
<1>1. PICK r \in Call : r = call[x]
  BY DEF TypeOK
<1>2. r.step = "inject" /\ r.at \in Interceptors
  BY <1>1 DEF At, TypeOK, Call
<1>3. /\ now \in Nat /\ r.since \in Nat /\ failed[r.at] \in Nat
      /\ r.key # NoKey => replaced[r.key] \in Nat
      /\ KeyTTL \in Nat /\ Timeout \in Nat /\ Timeout > 0
  BY <1>1, <1>2, BoundsAssumption DEF TypeOK, Call, Time
<1>4. /\ now <= r.since + Timeout
      /\ \/ RightAt(r.key, r.at, r.since, 0)
         \/ RightAt(r.key, r.at, r.since + 1, KeyTTL + Timeout)
  BY <1>1, <1>2 DEF KeyInv, Held
<1>5. CASE r.key = NoKey
  <2>1. \/ r.since <= failed[r.at] + 0
        \/ r.since + 1 <= failed[r.at] + (KeyTTL + Timeout)
    BY <1>4, <1>5 DEF RightAt
  <2>2. now < failed[r.at] + (Timeout + KeyTTL + Timeout)
    BY <1>3, <1>4, <2>1
  <2> QED
    BY <1>1, <1>5, <2>2 DEF KeyAge
<1>6. CASE r.key # NoKey /\ r.key # stored
  <2>1. \/ r.since <= replaced[r.key] + 0
        \/ r.since + 1 <= replaced[r.key] + (KeyTTL + Timeout)
    BY <1>4, <1>6 DEF RightAt
  <2>2. now < replaced[r.key] + (Timeout + KeyTTL + Timeout)
    BY <1>3, <1>4, <1>6, <2>1
  <2> QED
    BY <1>1, <1>6, <2>2 DEF KeyAge
<1> QED
  BY <1>1, <1>5, <1>6

-----------------------------------------------------------------------------
(* The theorems. *)

\* Every step keeps the types: what a call has counted never exceeds what its
\* tool does, a call holds a container exactly while the interceptor works on
\* it, and no two calls hold the same one.
THEOREM TypeCorrect == Spec => [](TypeOK /\ ChangesInv)
<1>1. Init => TypeOK /\ ChangesInv
  BY TypeInit, ChangesInit
<1>2. TypeOK /\ ChangesInv /\ [Next]_vars => (TypeOK /\ ChangesInv)'
  BY TypeNext, ChangesNext
<1> QED
  BY <1>1, <1>2, PTL DEF Spec

\* The answer of a tool speaks of every change Lark made in the call, each made
\* for the user whose turn it was, and of no other: whatever the model wrote
\* into the arguments, whoever else calls, whichever execution is killed.
THEOREM AnswersAreTrueAlways == Spec => []AnswersAreTrue
<1>1. TypeOK /\ ChangesInv => AnswersAreTrue
  BY DEF ChangesInv, Fits, FirstChanges, Done, AnswersAreTrue, At
<1> QED
  BY <1>1, TypeCorrect, PTL

\* A key that has been replaced, and the empty key of a failed read, are
\* injected for less than two executions and KeyTTL, in any container.
THEOREM KeyIsRecentAlways == Spec => []KeyIsRecent
<1>1. Init => KeyInv
  BY KeyInit
<1>2. TypeOK /\ KeyInv /\ [Next]_vars => KeyInv'
  BY KeyNext
<1>3. TypeOK /\ KeyInv => KeyIsRecent
  BY KeyInvRecent
<1> QED
  BY <1>1, <1>2, <1>3, TypeCorrect, PTL DEF Spec

=============================================================================
