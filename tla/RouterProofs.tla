---------------------------- MODULE RouterProofs ----------------------------
(***************************************************************************)
(* What Router.tla promises for any number of messages, containers,        *)
(* deliveries, attempts, tries, doubles and parts, and for all times that  *)
(* NumbersAssumption admits: the token of a reply outlives it, nothing     *)
(* acknowledged vanishes, no turn of the agent is without a cause, and no  *)
(* more events come of a message than its deliveries can account for.      *)
(***************************************************************************)
EXTENDS Router, FiniteSetTheorems, TLAPS

HookSteps == {"verify", "dispatch", "ack"}
SendSteps == {"token", "send"}

\* The steps before the run has anything taken off its hands.
FreshSteps == {"verify", "decrypt", "resolve", "invoke"}

\* What a container holds: TypeOK for its run, which steps a run of either kind
\* can be at, and an attempt that is left to a hook run that dispatches.
RunOK(r) ==
    /\ r \in Run
    /\ r.attempt = 0 <=> r.step \in HookSteps
    /\ r.step \in SendSteps => r.left > 0
    /\ r.step \in FreshSteps => ~r.handed
    /\ r.step = "verify" => r.calls = 0
    /\ r.step = "dispatch" => r.calls < MaxAttempts

RunsOK == /\ run \in [Containers -> Run \cup {None}]
          /\ \A c \in Containers : run[c] = None \/ RunOK(run[c])

LEMMA RunsAreFunction ==
    ASSUME RunsOK, NEW c \in Containers, NEW r
    PROVE  LET f == [run EXCEPT ![c] = r]
           IN  /\ DOMAIN f = Containers
               /\ f[c] = r
               /\ \A d \in Containers : d # c => f[d] = run[d]
BY DEF RunsOK

\* A step of container c that leaves a proper run or none there.
LEMMA OneRunChanges ==
    ASSUME RunsOK, NEW c \in Containers, NEW r, r = None \/ RunOK(r),
           run' = [run EXCEPT ![c] = r]
    PROVE  RunsOK'
BY DEF RunsOK, RunOK

LEMMA GotoRuns ==
    ASSUME RunsOK, NEW c \in Containers, run[c] # None, NEW s \in Steps,
           s \in HookSteps <=> run[c].step \in HookSteps,
           s \in SendSteps => run[c].left > 0,
           s \in FreshSteps => run[c].step \in FreshSteps,
           s # "verify", s = "dispatch" => run[c].step = "verify",
           Goto(c, s)
    PROVE  RunsOK'
<1> DEFINE r == [run[c] EXCEPT !.step = s]
<1>1. run[c] \in Run /\ RunOK(run[c])
    BY DEF RunsOK, RunOK
<1>2. /\ r \in Run /\ r.attempt = run[c].attempt /\ r.left = run[c].left
      /\ r.step = s /\ r.calls = run[c].calls /\ r.handed = run[c].handed
    BY <1>1 DEF Run
<1>3. RunOK(r)
    BY <1>1, <1>2, NumbersAssumption DEF RunOK
<1>4. run' = [run EXCEPT ![c] = r]
    BY DEF Goto
<1> QED
    BY <1>3, <1>4, OneRunChanges

LEMMA SendRuns ==
    ASSUME RunsOK, NEW c \in Containers, run[c] # None,
           run[c].step \notin HookSteps, NEW n \in 1..MaxParts,
           SendMessage(c, n)
    PROVE  RunsOK'
<1> DEFINE r == [run[c] EXCEPT !.step = "token", !.left = n]
<1>1. RunOK(run[c])
    BY DEF RunsOK
<1>2. n \in 0..MaxParts /\ n > 0
    BY NumbersAssumption
<1>3. /\ r \in Run /\ r.attempt = run[c].attempt /\ r.left = n
      /\ r.step = "token"
    BY <1>1, <1>2 DEF RunOK, Run, Steps
<1>4. RunOK(r)
    BY <1>1, <1>2, <1>3 DEF RunOK, HookSteps, FreshSteps
<1>5. run' = [run EXCEPT ![c] = r]
    BY DEF SendMessage
<1> QED
    BY <1>4, <1>5, OneRunChanges

LEMMA NewRunOK ==
    ASSUME NEW m \in Messages, NEW s \in Steps, NEW k \in 0..MaxTries,
           k = 0 <=> s \in HookSteps, s \notin SendSteps, s # "dispatch"
    PROVE  RunOK(NewRun(m, s, k))
BY NumbersAssumption DEF RunOK, NewRun, Run

LEMMA EndRuns ==
    ASSUME RunsOK, NEW c \in Containers, End(c)
    PROVE  RunsOK'
BY OneRunChanges DEF End

LEMMA PartRuns ==
    ASSUME RunsOK, NEW c \in Containers, SendPart(c)
    PROVE  RunsOK'
<1>1. RunOK(run[c]) /\ run[c].step = "send"
    BY DEF RunsOK, SendPart, At
<1> DEFINE r(taken) ==
             [run[c] EXCEPT !.left = run[c].left - 1, !.ok = run[c].ok /\ taken,
                !.step = IF run[c].left = 1 THEN "return" ELSE "send"]
<1>2. PICK taken \in BOOLEAN : run' = [run EXCEPT ![c] = r(taken)]
    BY <1>1 DEF SendPart
<1>3. /\ run[c] \in Run /\ run[c].left \in 1..MaxParts
      /\ run[c].attempt # 0
    BY <1>1, NumbersAssumption DEF RunOK, Run, SendSteps, HookSteps
<1>4. run[c].left - 1 \in 0..MaxParts
    BY <1>3, NumbersAssumption
<1>5. (run[c].ok /\ taken) \in BOOLEAN
    OBVIOUS
<1>6. /\ r(taken).step = (IF run[c].left = 1 THEN "return" ELSE "send")
      /\ r(taken).left = run[c].left - 1
      /\ r(taken).attempt = run[c].attempt
      /\ r(taken) \in Run
    BY <1>3, <1>4, <1>5 DEF Run, Steps
<1>7. RunOK(r(taken))
    BY <1>3, <1>6, NumbersAssumption DEF RunOK, HookSteps, SendSteps, FreshSteps
<1> QED
    BY <1>2, <1>7, OneRunChanges

\* Hook run c after an attempt: it goes on, or is through; if it is through with
\* nothing handed on, that is a silent end.
LEMMA DispatchShape ==
    ASSUME RunsOK, NEW c \in Containers, Dispatch(c)
    PROVE  /\ run[c] # None /\ RunOK(run[c]) /\ run[c].step = "dispatch"
           /\ run[c].msg \in Messages /\ run[c].calls + 1 \in 1..MaxAttempts
           /\ \E r : /\ run' = [run EXCEPT ![c] = r]
                    /\ RunOK(r) /\ r.msg = run[c].msg /\ r.attempt = 0
                    /\ r.calls = run[c].calls + 1 /\ r.step \in {"dispatch", "ack"}
                    /\ \/ Accept(run[c].msg) /\ UNCHANGED lost
                       \/ /\ UNCHANGED <<queue, dispatched, lost>>
                          /\ r.handed \/ r.step = "ack" => run[c].handed
                       \/ /\ UNCHANGED <<queue, dispatched>>
                          /\ Lose(run[c].msg)
<1>1. /\ run[c] # None /\ RunOK(run[c]) /\ run[c].step = "dispatch"
      /\ run[c] \in Run
    BY DEF Dispatch, At, RunsOK, RunOK
<1>2. /\ run[c].msg \in Messages /\ run[c].calls \in 0..MaxAttempts
      /\ run[c].calls < MaxAttempts /\ run[c].attempt = 0
      /\ run[c].handed \in BOOLEAN
    BY <1>1 DEF RunOK, Run, HookSteps
<1>3. run[c].calls + 1 \in 1..MaxAttempts
    BY <1>2, NumbersAssumption
<1>4. PICK accepted \in BOOLEAN, again \in BOOLEAN :
        /\ again => run[c].calls + 1 < MaxAttempts
        /\ Called(c, run[c].calls + 1, accepted, again)
        /\ IF accepted THEN Accept(run[c].msg) ELSE UNCHANGED <<queue, dispatched>>
        /\ IF accepted \/ run[c].handed \/ again THEN UNCHANGED lost
                                                ELSE Lose(run[c].msg)
    BY DEF Dispatch
<1>5. PICK h \in BOOLEAN : h <=> run[c].handed \/ accepted
    OBVIOUS
<1>6. PICK s \in {"dispatch", "ack"} : s = IF again THEN "dispatch" ELSE "ack"
    OBVIOUS
<1> DEFINE r == [run[c] EXCEPT !.calls = run[c].calls + 1, !.handed = h, !.step = s]
<1>7. /\ run' = [run EXCEPT ![c] = r]
      /\ r \in Run /\ r.msg = run[c].msg /\ r.attempt = run[c].attempt
      /\ r.calls = run[c].calls + 1 /\ r.handed = h /\ r.step = s
  <2>1. run' = [run EXCEPT ![c] = [run[c] EXCEPT
                  !.calls = run[c].calls + 1,
                  !.handed = run[c].handed \/ accepted,
                  !.step = IF again THEN "dispatch" ELSE "ack"]]
      BY <1>4, Zenon DEF Called
  <2>2. (run[c].handed \/ accepted) = h
      BY <1>5
  <2>3. run' = [run EXCEPT ![c] = r]
      BY <1>6, <2>1, <2>2, Zenon
  <2>4. run[c].calls + 1 \in 0..MaxAttempts /\ s \in Steps
      BY <1>3, NumbersAssumption DEF Steps
  <2> QED
      BY <1>1, <2>3, <2>4 DEF Run
<1>8. RunOK(r)
    BY <1>2, <1>4, <1>6, <1>7 DEF RunOK, HookSteps, SendSteps, FreshSteps
<1>9. \/ Accept(run[c].msg) /\ UNCHANGED lost
      \/ /\ UNCHANGED <<queue, dispatched, lost>>
         /\ r.handed \/ r.step = "ack" => run[c].handed
      \/ UNCHANGED <<queue, dispatched>> /\ Lose(run[c].msg)
    BY <1>4, <1>5, <1>6, <1>7
<1> HIDE DEF r
<1>10. r.attempt = 0 /\ r.step \in {"dispatch", "ack"}
    BY <1>2, <1>7
<1> QED
    BY <1>1, <1>2, <1>3, <1>7, <1>8, <1>9, <1>10

LEMMA DispatchRuns ==
    ASSUME RunsOK, NEW c \in Containers, Dispatch(c)
    PROVE  RunsOK'
BY DispatchShape, OneRunChanges

\* The agent has the message, and the run waits for it.
LEMMA InvokeShape ==
    ASSUME RunsOK, NEW c \in Containers, Invoke(c)
    PROVE  /\ run[c] # None /\ RunOK(run[c]) /\ run[c].step = "invoke"
           /\ run[c].msg \in Messages
           /\ \E r : /\ run' = [run EXCEPT ![c] = r]
                    /\ RunOK(r) /\ r.msg = run[c].msg
                    /\ r.attempt = run[c].attempt /\ r.attempt # 0
                    /\ r.step = "await" /\ r.handed
<1>1. run[c] # None /\ RunOK(run[c]) /\ run[c].step = "invoke" /\ run[c] \in Run
    BY DEF Invoke, At, RunsOK, RunOK
<1>2. run[c].msg \in Messages /\ run[c].attempt # 0
    BY <1>1 DEF RunOK, Run, HookSteps
<1> DEFINE r == [run[c] EXCEPT !.step = "await", !.handed = TRUE]
<1>3. run' = [run EXCEPT ![c] = r]
    BY DEF Invoke
<1>4. /\ r \in Run /\ r.msg = run[c].msg /\ r.attempt = run[c].attempt
      /\ r.step = "await" /\ r.handed
    BY <1>1 DEF Run, Steps
<1>5. RunOK(r)
    BY <1>2, <1>4 DEF RunOK, HookSteps, SendSteps, FreshSteps
<1> HIDE DEF r
<1> QED
    BY <1>1, <1>2, <1>3, <1>4, <1>5

LEMMA InvokeRuns ==
    ASSUME RunsOK, NEW c \in Containers, Invoke(c)
    PROVE  RunsOK'
BY InvokeShape, OneRunChanges

LEMMA TickRuns ==
    ASSUME RunsOK, Tick
    PROVE  RunsOK'
<1> SUFFICES ASSUME NEW c \in Containers
             PROVE  run'[c] = None \/ RunOK(run'[c])
  <2>1. run' = [c \in Containers |-> run'[c]]
      BY DEF Tick
  <2> QED
      BY <2>1 DEF RunsOK, RunOK
<1>1. CASE ~InSend(c)
    BY <1>1 DEF Tick, RunsOK
<1>2. CASE InSend(c)
  <2>1. RunOK(run[c]) /\ run[c].age < Timeout
      BY <1>2 DEF Tick, InSend, At, RunsOK
  <2>2. run'[c] = [run[c] EXCEPT !.age = @ + 1]
      BY <1>2 DEF Tick
  <2>3. run[c].age + 1 \in 0..Timeout
      BY <2>1, NumbersAssumption DEF RunOK, Run
  <2> QED
      BY <2>1, <2>2, <2>3 DEF RunOK, Run
<1> QED
    BY <1>1, <1>2

\* Time leaves a run what it is.
LEMMA TickShape ==
    ASSUME RunsOK, Tick, NEW c \in Containers, run[c] # None
    PROVE  /\ run'[c] # None /\ run'[c].msg = run[c].msg
           /\ run'[c].attempt = run[c].attempt /\ run'[c].step = run[c].step
           /\ run'[c].calls = run[c].calls /\ run'[c].handed = run[c].handed
           /\ run'[c] \in Run
<1>0. run[c] \in Run
    BY DEF RunsOK, RunOK
<1>1. CASE ~InSend(c)
    BY <1>0, <1>1 DEF Tick
<1>2. CASE InSend(c)
  <2>1. run'[c] = [run[c] EXCEPT !.age = @ + 1] /\ run[c].age < Timeout
      BY <1>2 DEF Tick
  <2>2. run[c].age + 1 \in 0..Timeout
      BY <1>0, <2>1, NumbersAssumption DEF Run
  <2>3. run'[c] \in Run
      BY <1>0, <2>1, <2>2 DEF Run
  <2> QED
      BY <1>0, <2>1, <2>3, NoneAssumption DEF Run
<1> QED
    BY <1>1, <1>2

LEMMA RunsInit == Init => RunsOK
BY DEF Init, RunsOK

\* A run is always of one kind and at a step of that kind.
LEMMA RunsNext == RunsOK /\ [Next]_vars => RunsOK'
<1> SUFFICES ASSUME RunsOK, [Next]_vars PROVE RunsOK'
    OBVIOUS
<1>1. ASSUME NEW m \in Messages, NEW c \in Containers, Deliver(m, c)
      PROVE  RunsOK'
  <2>1. RunOK(NewRun(m, "verify", 0))
      BY NewRunOK, NumbersAssumption DEF Steps, HookSteps, SendSteps
  <2> QED
      BY <1>1, <2>1, OneRunChanges DEF Deliver
<1>2. ASSUME NEW m \in Messages, NEW c \in Containers, Pick(m, c)
      PROVE  RunsOK'
  <2>1. PICK k \in Tries : run' = [run EXCEPT ![c] = NewRun(m, "decrypt", k)]
      BY <1>2 DEF Pick
  <2>2. k \in 0..MaxTries /\ k # 0
      BY NumbersAssumption DEF Tries
  <2>3. RunOK(NewRun(m, "decrypt", k))
      BY <2>2, NewRunOK DEF Steps, HookSteps, SendSteps
  <2> QED
      BY <2>1, <2>3, OneRunChanges
<1>3. ASSUME NEW c \in Containers, RunStep(c) PROVE RunsOK'
  <2> USE DEF At
  <2>1. CASE Verify(c)
      BY <2>1, GotoRuns, EndRuns
         DEF Verify, Steps, HookSteps, SendSteps, FreshSteps
  <2>2. CASE Dispatch(c) \/ Invoke(c)
      BY <2>2, DispatchRuns, InvokeRuns
  <2>3. CASE Decrypt(c)
      BY <2>3, GotoRuns, EndRuns
         DEF Decrypt, Steps, HookSteps, SendSteps, FreshSteps
  <2>4. CASE Resolve(c)
    <3>1. 1 \in 1..MaxParts
        BY NumbersAssumption
    <3> QED
        BY <2>4, <3>1, GotoRuns, SendRuns
           DEF Resolve, Steps, HookSteps, SendSteps, FreshSteps
  <2>5. CASE AnsweredNothing(c) \/ FetchFails(c)
      BY <2>5, GotoRuns
         DEF AnsweredNothing, FetchFails, Steps, HookSteps, SendSteps, FreshSteps
  <2>6. CASE InvokeFails(c) \/ Answered(c)
    <3>1. 1 \in 1..MaxParts
        BY NumbersAssumption
    <3> QED
        BY <2>6, <3>1, SendRuns DEF InvokeFails, Answered, HookSteps
  <2>7. CASE UseToken(c) \/ FetchToken(c)
    <3>1. run[c] # None /\ run[c].step = "token" /\ Goto(c, "send")
        BY <2>7 DEF UseToken, FetchToken
    <3>2. run[c].left > 0
        BY <3>1 DEF RunsOK, RunOK, SendSteps
    <3> QED
        BY <3>1, <3>2, GotoRuns DEF Steps, HookSteps, FreshSteps
  <2>8. CASE SendPart(c)
      BY <2>8, PartRuns
  <2>9. CASE \/ Acknowledge(c) \/ ResolveRaises(c) \/ Return(c)
             \/ HookDies(c) \/ EventDies(c)
      BY <2>9, EndRuns
         DEF Acknowledge, ResolveRaises, Return, HookDies, EventDies
  <2> QED
      BY <1>3, <2>1, <2>2, <2>3, <2>4, <2>5, <2>6, <2>7, <2>8, <2>9 DEF RunStep
<1>4. CASE \/ \E m \in Messages : GivesUp(m) \/ Doubles(m)
           \/ \E c \in Containers : Recycle(c)
           \/ UNCHANGED vars
    BY <1>4 DEF GivesUp, Doubles, Recycle, vars, RunsOK
<1>5. CASE Tick
    BY <1>5, TickRuns
<1> QED
    BY <1>1, <1>2, <1>3, <1>4, <1>5 DEF Next

-----------------------------------------------------------------------------
(* The token of a reply. *)

\* The code thinks a token good for no more than a timeout longer than Lark
\* does, and a token in use is good for the rest of the run.
TokensOK ==
    /\ tenant \in [Containers -> TenantToken]
    /\ \A c \in Containers :
         /\ tenant[c].seen <= tenant[c].life + Timeout
         /\ At(c, "send") => Timeout < tenant[c].life + run[c].age

TokenInv == RunsOK /\ TokensOK

LEMMA TokenInit == Init => TokenInv
<1> SUFFICES ASSUME Init PROVE TokensOK
    BY RunsInit DEF TokenInv
<1>1. NoToken \in TenantToken /\ NoToken.seen = 0 /\ NoToken.life = 0
    BY NumbersAssumption DEF NoToken, TenantToken
<1> QED
    BY <1>1, NumbersAssumption DEF Init, TokensOK, At

\* What happens in container c leaves the tokens of the others alone.
LEMMA OneTokenChanges ==
    ASSUME TokenInv, NEW c \in Containers, NEW k \in TenantToken,
           tenant' = [tenant EXCEPT ![c] = k],
           k.seen <= k.life + Timeout,
           \A d \in Containers : d # c => run'[d] = run[d],
           At(c, "send")' => Timeout < k.life + run'[c].age
    PROVE  TokensOK'
<1>1. tenant' \in [Containers -> TenantToken]
    BY DEF TokenInv, TokensOK
<1>2. ASSUME NEW d \in Containers
      PROVE  /\ tenant'[d].seen <= tenant'[d].life + Timeout
             /\ At(d, "send")' => Timeout < tenant'[d].life + run'[d].age
  <2>1. CASE d = c
      BY <2>1 DEF TokenInv, TokensOK
  <2>2. CASE d # c
      BY <2>2 DEF TokenInv, TokensOK, At
  <2> QED
      BY <2>1, <2>2
<1> QED
    BY <1>1, <1>2 DEF TokensOK

\* A step of container c that leaves the tokens alone and does not start to
\* send, or goes on sending.
LEMMA TokenKept ==
    ASSUME TokenInv, NEW c \in Containers, tenant' = tenant,
           \A d \in Containers : d # c => run'[d] = run[d],
           At(c, "send")' => At(c, "send") /\ run'[c].age = run[c].age
    PROVE  TokensOK'
BY DEF TokenInv, TokensOK, At

LEMMA ForgetKeeps ==
    ASSUME TokenInv, NEW c \in Containers, Forget(c), ~At(c, "send")',
           \A d \in Containers : d # c => run'[d] = run[d]
    PROVE  TokensOK'
<1>1. NoToken \in TenantToken /\ NoToken.seen <= NoToken.life + Timeout
    BY NumbersAssumption DEF NoToken, TenantToken
<1> QED
    BY <1>1, OneTokenChanges DEF Forget

LEMMA UseKeeps ==
    ASSUME TokenInv, NEW c \in Containers, UseToken(c)
    PROVE  TokensOK'
<1>1. /\ tenant' = [tenant EXCEPT ![c] = tenant[c]]
      /\ tenant[c] \in TenantToken /\ tenant[c].seen <= tenant[c].life + Timeout
      /\ tenant[c].seen > Early
    BY DEF UseToken, caches, TokenInv, TokensOK
<1>2. Timeout < tenant[c].life
    BY <1>1, NumbersAssumption DEF TenantToken
<1>3. run[c] \in Run /\ run'[c] = [run[c] EXCEPT !.step = "send"]
    BY DEF UseToken, Goto, At, TokenInv, RunsOK, RunOK
<1>4. Timeout < tenant[c].life + run'[c].age
    BY <1>1, <1>2, <1>3, NumbersAssumption DEF Run, TenantToken
<1>5. \A d \in Containers : d # c => run'[d] = run[d]
    BY DEF UseToken, Goto, TokenInv, RunsOK
<1> QED
    BY <1>1, <1>4, <1>5, OneTokenChanges

LEMMA FetchKeeps ==
    ASSUME TokenInv, NEW c \in Containers, FetchToken(c)
    PROVE  TokensOK'
<1>1. run[c] \in Run /\ run'[c] = [run[c] EXCEPT !.step = "send"]
    BY DEF FetchToken, Goto, At, TokenInv, RunsOK, RunOK
<1>2. PICK delay \in 0..run[c].age :
        tenant' = [tenant EXCEPT ![c] = [seen |-> TokenLife,
                                         life |-> TokenLife - delay]]
    BY DEF FetchToken
<1>3. /\ run[c].age \in 0..Timeout /\ run'[c].age = run[c].age
      /\ delay \in 0..Timeout
    BY <1>1, <1>2, NumbersAssumption DEF Run
<1> DEFINE k == [seen |-> TokenLife, life |-> TokenLife - delay]
<1>4. k \in TenantToken /\ k.seen <= k.life + Timeout /\ Timeout < k.life
    BY <1>3, NumbersAssumption DEF TenantToken
<1>5. Timeout < k.life + run'[c].age
    BY <1>3, <1>4, NumbersAssumption DEF TenantToken
<1>6. \A d \in Containers : d # c => run'[d] = run[d]
    BY DEF FetchToken, Goto, TokenInv, RunsOK
<1> QED
    BY <1>2, <1>4, <1>5, <1>6, OneTokenChanges

LEMMA TickKeeps ==
    ASSUME TokenInv, Tick
    PROVE  TokensOK'
<1> DEFINE Older(n) == IF n = 0 THEN 0 ELSE n - 1
<1>1. ASSUME NEW c \in Containers
      PROVE  /\ tenant'[c] \in TenantToken
             /\ tenant'[c].seen = Older(tenant[c].seen)
             /\ tenant'[c].life = Older(tenant[c].life)
  <2>1. tenant[c] \in TenantToken
      BY DEF TokenInv, TokensOK
  <2>2. DOMAIN tenant[c] = {"seen", "life"}
      BY <2>1 DEF TenantToken
  <2>3. tenant'[c] = [f \in {"seen", "life"} |-> Older(tenant[c][f])]
      BY <2>2 DEF Tick
  <2>4. tenant'[c] = [seen |-> Older(tenant[c].seen), life |-> Older(tenant[c].life)]
      BY <2>3
  <2>5. Older(tenant[c].seen) \in 0..TokenLife /\ Older(tenant[c].life) \in 0..TokenLife
      BY <2>1, NumbersAssumption DEF TenantToken
  <2> QED
      BY <2>4, <2>5 DEF TenantToken
<1>2. tenant' \in [Containers -> TenantToken]
    BY <1>1 DEF Tick
<1>3. ASSUME NEW c \in Containers
      PROVE  tenant'[c].seen <= tenant'[c].life + Timeout
    BY <1>1, NumbersAssumption DEF TokenInv, TokensOK, TenantToken
<1>4. ASSUME NEW c \in Containers, At(c, "send")'
      PROVE  Timeout < tenant'[c].life + run'[c].age
  <2>1. InSend(c)
      BY <1>4 DEF Tick, At, InSend
  <2>2. run'[c] = [run[c] EXCEPT !.age = @ + 1] /\ run[c].age < Timeout
      BY <2>1 DEF Tick
  <2>3. run[c] \in Run /\ run[c].step = "send"
      BY <1>4, <2>1, <2>2 DEF InSend, At, TokenInv, RunsOK, RunOK, Run
  <2>4. Timeout < tenant[c].life + run[c].age
      BY <2>1, <2>3 DEF At, InSend, TokenInv, TokensOK
  <2>5. run'[c].age = run[c].age + 1 /\ run[c].age \in Nat
      BY <2>2, <2>3, NumbersAssumption DEF Run
  <2>6. tenant[c].life \in Nat
      BY NumbersAssumption DEF TokenInv, TokensOK, TenantToken
  <2> QED
      BY <1>1, <2>2, <2>4, <2>5, <2>6, NumbersAssumption
<1> QED
    BY <1>2, <1>3, <1>4 DEF TokensOK

LEMMA TokenNext == TokenInv /\ [Next]_vars => TokenInv'
<1> SUFFICES ASSUME TokenInv, [Next]_vars PROVE TokensOK'
    BY RunsNext DEF TokenInv
<1>1. ASSUME NEW m \in Messages, NEW c \in Containers, Deliver(m, c) \/ Pick(m, c)
      PROVE  TokensOK'
  <2>1. PICK s \in Steps \ SendSteps, k \in Nat : run' = [run EXCEPT ![c] = NewRun(m, s, k)]
      BY <1>1, NumbersAssumption DEF Deliver, Pick, Steps, SendSteps, Tries
  <2>2. run'[c].step = s /\ \A d \in Containers : d # c => run'[d] = run[d]
      BY <2>1 DEF TokenInv, RunsOK, NewRun
  <2>3. tenant' = tenant
      BY <1>1 DEF Deliver, Pick, caches
  <2> QED
      BY <2>1, <2>2, <2>3, TokenKept DEF At, SendSteps
<1>2. ASSUME NEW c \in Containers, RunStep(c) PROVE TokensOK'
  <2>0. DOMAIN run = Containers /\ (run[c] = None \/ RunOK(run[c]))
      BY DEF TokenInv, RunsOK
  <2>1. CASE UseToken(c)
      BY <2>1, UseKeeps
  <2>2. CASE FetchToken(c)
      BY <2>2, FetchKeeps
  <2>3. CASE HookDies(c) \/ EventDies(c)
      BY <2>0, <2>3, ForgetKeeps DEF HookDies, EventDies, End, At
  <2>4. CASE SendPart(c)
    <3>1. PICK taken \in BOOLEAN :
            run' = [run EXCEPT ![c] =
                      [run[c] EXCEPT
                         !.left = run[c].left - 1, !.ok = run[c].ok /\ taken,
                         !.step = IF run[c].left = 1 THEN "return" ELSE "send"]]
        BY <2>4 DEF SendPart
    <3>2. run[c] \in Run /\ run'[c].age = run[c].age
        BY <2>0, <2>4, <3>1 DEF SendPart, At, RunOK, Run
    <3> QED
        BY <2>0, <2>4, <3>1, <3>2, TokenKept DEF SendPart, caches
  <2>5. CASE \/ Verify(c) \/ Acknowledge(c) \/ Decrypt(c)
             \/ Resolve(c) \/ ResolveRaises(c) \/ InvokeFails(c)
             \/ Answered(c) \/ AnsweredNothing(c) \/ FetchFails(c) \/ Return(c)
    <3>1. tenant' = tenant
        BY <2>5 DEF Verify, Acknowledge, Decrypt, Resolve,
           ResolveRaises, InvokeFails, Answered, AnsweredNothing,
           FetchFails, Return, caches
    <3>2. \/ \E s \in Steps \ {"send"} : Goto(c, s)
          \/ End(c)
          \/ \E n : SendMessage(c, n)
        BY <2>5 DEF Verify, Acknowledge, Decrypt, Resolve,
           ResolveRaises, InvokeFails, Answered, AnsweredNothing,
           FetchFails, Return, Steps
    <3>3. run[c] \in Run
        BY <2>0, <2>5 DEF RunOK, Verify, Acknowledge, Decrypt,
           Resolve, ResolveRaises, InvokeFails, Answered,
           AnsweredNothing, FetchFails, Return, At
    <3>4. ~At(c, "send")' /\ \A d \in Containers : d # c => run'[d] = run[d]
        BY <2>0, <3>2, <3>3 DEF Goto, End, SendMessage, At, Run
    <3> QED
        BY <3>1, <3>4, TokenKept
  <2>6. CASE Dispatch(c) \/ Invoke(c)
    <3>1. PICK r : /\ run' = [run EXCEPT ![c] = r]
                   /\ r.step \in {"dispatch", "ack", "await"}
        BY <2>6, DispatchShape, InvokeShape DEF TokenInv
    <3>2. tenant' = tenant
        BY <2>6 DEF Dispatch, Invoke, caches
    <3>3. ~At(c, "send")' /\ \A d \in Containers : d # c => run'[d] = run[d]
        BY <2>0, <3>1 DEF At
    <3> QED
        BY <3>2, <3>3, TokenKept
  <2> QED
      BY <1>2, <2>1, <2>2, <2>3, <2>4, <2>5, <2>6 DEF RunStep
<1>3. CASE (\E m \in Messages : GivesUp(m) \/ Doubles(m)) \/ UNCHANGED vars
    BY <1>3 DEF GivesUp, Doubles, vars, caches, TokenInv, TokensOK, At
<1>4. ASSUME NEW c \in Containers, Recycle(c) PROVE TokensOK'
    BY <1>4, ForgetKeeps DEF Recycle, At
<1>5. CASE Tick
    BY <1>5, TickKeeps
<1> QED
    BY <1>1, <1>2, <1>3, <1>4, <1>5 DEF Next

\* The token that send_message got once is honoured by Lark until the last part
\* of the reply is sent, for all timeouts, margins and lifetimes with
\* 2 * Timeout <= Early < TokenLife.
THEOREM TokenOutlivesReply == Spec => []TokenCoversReply
<1>1. TokenInv => TokenCoversReply
  <2> SUFFICES ASSUME TokenInv, NEW c \in Containers, At(c, "send")
               PROVE  tenant[c].life > 0
      BY DEF TokenCoversReply
  <2>1. /\ run[c].age \in 0..Timeout /\ tenant[c].life \in Nat
        /\ Timeout < tenant[c].life + run[c].age
      BY NumbersAssumption
         DEF TokenInv, TokensOK, RunsOK, RunOK, At, Run, TenantToken
  <2> QED
      BY <2>1, NumbersAssumption
<1> QED
    BY <1>1, TokenInit, TokenNext, PTL DEF Spec

-----------------------------------------------------------------------------
(* What becomes of an acknowledged message. *)

Done(m) == replied[m] \/ lost[m]

Accounted(m) == InProgress(m) \/ Done(m)

CountsOK ==
    /\ lark \in [Messages -> {"unsent", "waiting", "acked", "gave up"}]
    /\ queue \in [Messages -> [Tries -> Nat]]
    /\ replied \in [Messages -> BOOLEAN]
    /\ lost \in [Messages -> BOOLEAN]

\* A hook run that Lambda has taken an event from, or that is to acknowledge.
Claims(r) == r.step = "ack" \/ (r.step = "dispatch" /\ r.handed)

\* A message is accounted for once Lambda has taken an event of it, at the latest
\* before the hook run acknowledges it, and done before the event run returns.
Grounds ==
    /\ \A m \in Messages : lark[m] = "acked" => Accounted(m)
    /\ \A c \in Containers, m \in Messages :
         run[c] # None /\ run[c].msg = m =>
            /\ Claims(run[c]) => Accounted(m)
            /\ run[c].step = "return" => Done(m)

AckInv == RunsOK /\ CountsOK /\ Grounds

\* No silent end and no reply is taken back.
Lasting == \A m \in Messages : Done(m) => Done(m)'

\* Container c goes on with r.  Grounds are kept if nothing is taken from the
\* queue except to be run, the event of c goes on unless its message is done or
\* queued again, and the grounds of r itself are there.
LEMMA GroundsMove ==
    ASSUME AckInv, Lasting, NEW c \in Containers, NEW r,
           r = None \/ r \in Run,
           run' = [run EXCEPT ![c] = r],
           \A m \in Messages, k \in Tries :
             queue[m][k] > 0 =>
                \/ queue'[m][k] > 0
                \/ r # None /\ r.attempt # 0 /\ r.msg = m,
           \A m \in Messages :
             IsEvent(c) /\ run[c].msg = m =>
                \/ r # None /\ r.attempt # 0 /\ r.msg = m
                \/ Done(m)'
                \/ \E k \in Tries : queue'[m][k] > 0,
           \A m \in Messages :
             r # None /\ r.msg = m =>
                /\ Claims(r) => Accounted(m)'
                /\ r.step = "return" => Done(m)',
           \A m \in Messages : lark'[m] = "acked" => lark[m] = "acked" \/ Accounted(m)
    PROVE  Grounds'
<1>1. run'[c] = r /\ \A d \in Containers : d # c => run'[d] = run[d]
    BY DEF AckInv, RunsOK
<1>2. ASSUME NEW m \in Messages, Accounted(m) PROVE Accounted(m)'
  <2>1. CASE Done(m)
      BY <2>1 DEF Lasting, Accounted
  <2>2. ASSUME NEW k \in Tries, queue[m][k] > 0 PROVE Accounted(m)'
    <3>1. \/ queue'[m][k] > 0
          \/ r # None /\ r.attempt # 0 /\ r.msg = m
        BY <2>2
    <3> QED
        BY <1>1, <3>1 DEF Accounted, InProgress, IsEvent
  <2>3. ASSUME NEW d \in Containers, IsEvent(d), run[d].msg = m PROVE Accounted(m)'
    <3>1. CASE d # c
        BY <1>1, <2>3, <3>1 DEF Accounted, InProgress, IsEvent
    <3>2. CASE d = c
        BY <1>1, <2>3, <3>2 DEF Accounted, InProgress, IsEvent
    <3> QED
        BY <3>1, <3>2
  <2> QED
      BY <1>2, <2>1, <2>2, <2>3 DEF Accounted, InProgress
<1>3. \A m \in Messages : lark'[m] = "acked" => Accounted(m)'
    BY <1>2 DEF AckInv, Grounds
<1>4. ASSUME NEW d \in Containers, NEW m \in Messages,
             run'[d] # None, run'[d].msg = m
      PROVE  /\ Claims(run'[d]) => Accounted(m)'
             /\ run'[d].step = "return" => Done(m)'
  <2>1. CASE d = c
      BY <1>1, <1>4, <2>1
  <2>2. CASE d # c
      BY <1>1, <1>2, <1>4, <2>2 DEF AckInv, Grounds, Lasting
  <2> QED
      BY <2>1, <2>2
<1> QED
    BY <1>3, <1>4 DEF Grounds, Claims

LEMMA AckInit == Init => AckInv
BY RunsInit DEF Init, AckInv, CountsOK, Grounds, At

LEMMA FirstTry == 1 \in Tries
BY NumbersAssumption DEF Tries

LEMMA QueueUp ==
    ASSUME NEW q \in [Messages -> [Tries -> Nat]], NEW m \in Messages, NEW k \in Tries
    PROVE  LET p == [q EXCEPT ![m][k] = @ + 1]
           IN  /\ p \in [Messages -> [Tries -> Nat]]
               /\ p[m][k] > 0
               /\ \A n \in Messages, j \in Tries : q[n][j] > 0 => p[n][j] > 0
<1> DEFINE p == [q EXCEPT ![m][k] = @ + 1]
<1>1. q[m] \in [Tries -> Nat] /\ q[m][k] \in Nat
    OBVIOUS
<1>2. [q[m] EXCEPT ![k] = q[m][k] + 1] \in [Tries -> Nat]
    BY <1>1
<1>3. p \in [Messages -> [Tries -> Nat]]
    BY <1>2
<1>4. \A n \in Messages, j \in Tries :
        p[n][j] = IF n = m /\ j = k THEN q[n][j] + 1 ELSE q[n][j]
    OBVIOUS
<1>5. \A n \in Messages, j \in Tries : q[n][j] \in Nat
    OBVIOUS
<1>6. p[m][k] > 0 /\ \A n \in Messages, j \in Tries : q[n][j] > 0 => p[n][j] > 0
    BY <1>4, <1>5
<1> QED
    BY <1>3, <1>6

LEMMA QueueDown ==
    ASSUME NEW q \in [Messages -> [Tries -> Nat]], NEW m \in Messages, NEW k \in Tries,
           q[m][k] > 0
    PROVE  [q EXCEPT ![m][k] = @ - 1] \in [Messages -> [Tries -> Nat]]
<1>1. q[m] \in [Tries -> Nat] /\ q[m][k] \in Nat
    OBVIOUS
<1>2. [q[m] EXCEPT ![k] = q[m][k] - 1] \in [Tries -> Nat]
    BY <1>1
<1> QED
    BY <1>2

LEMMA RetryCounts ==
    ASSUME CountsOK, NEW r \in Run, r.attempt # 0, Retry(r)
    PROVE  /\ queue' \in [Messages -> [Tries -> Nat]]
           /\ lost' \in [Messages -> BOOLEAN]
           /\ \A m \in Messages : lost[m] => lost'[m]
           /\ \A m \in Messages, k \in Tries : queue[m][k] > 0 => queue'[m][k] > 0
           /\ lost'[r.msg] \/ \E k \in Tries : queue'[r.msg][k] > 0
<1>1. r.msg \in Messages /\ r.attempt \in 1..MaxTries
    BY NumbersAssumption DEF Run
<1>2. CASE r.attempt < MaxTries
  <2>1. r.attempt + 1 \in Tries
      BY <1>1, <1>2, NumbersAssumption DEF Tries
  <2>2. /\ queue' = [queue EXCEPT ![r.msg][r.attempt + 1] = @ + 1]
        /\ lost' = lost
      BY <1>2 DEF Retry
  <2>3. /\ queue' \in [Messages -> [Tries -> Nat]]
        /\ queue'[r.msg][r.attempt + 1] > 0
        /\ \A m \in Messages, k \in Tries : queue[m][k] > 0 => queue'[m][k] > 0
    <3>1. PICK k \in Tries : k = r.attempt + 1
        BY <2>1
    <3>2. queue' = [queue EXCEPT ![r.msg][k] = @ + 1]
        BY <2>2, <3>1
    <3>3. queue \in [Messages -> [Tries -> Nat]]
        BY DEF CountsOK
    <3>4. /\ queue' \in [Messages -> [Tries -> Nat]]
          /\ queue'[r.msg][k] > 0
          /\ \A m \in Messages, j \in Tries : queue[m][j] > 0 => queue'[m][j] > 0
        BY <1>1, <3>2, <3>3, QueueUp
    <3> QED
        BY <3>1, <3>4
  <2> QED
      BY <2>1, <2>2, <2>3 DEF CountsOK
<1>3. CASE ~(r.attempt < MaxTries)
    BY <1>1, <1>3 DEF Retry, Lose, CountsOK
<1> QED
    BY <1>2, <1>3

\* The run goes on to step s, of the same message and kind.
LEMMA GotoGrounds ==
    ASSUME AckInv, Lasting, NEW c \in Containers, run[c] # None, NEW s \in Steps,
           Goto(c, s), UNCHANGED lark,
           s # "ack", s = "dispatch" => ~run[c].handed,
           \A m \in Messages, k \in Tries : queue[m][k] > 0 => queue'[m][k] > 0,
           \A m \in Messages : run[c].msg = m => (s = "return" => Done(m)')
    PROVE  Grounds'
<1> DEFINE r == [run[c] EXCEPT !.step = s]
<1>1. run[c] \in Run
    BY DEF AckInv, RunsOK, RunOK
<1>2. /\ r \in Run /\ r.msg = run[c].msg /\ r.attempt = run[c].attempt
      /\ r.step = s /\ r.handed = run[c].handed /\ r.msg \in Messages
    BY <1>1 DEF Run
<1>3. run' = [run EXCEPT ![c] = r]
    BY DEF Goto
<1>4. r # None
    BY <1>2, NoneAssumption
<1>5. \A m \in Messages : IsEvent(c) /\ run[c].msg = m =>
        r # None /\ r.attempt # 0 /\ r.msg = m
    BY <1>2, <1>4 DEF IsEvent
<1>6. \A m \in Messages : r # None /\ r.msg = m =>
        /\ Claims(r) => Accounted(m)'
        /\ r.step = "return" => Done(m)'
    BY <1>2 DEF Claims
<1>7. \A m \in Messages, k \in Tries :
        queue[m][k] > 0 =>
           queue'[m][k] > 0 \/ (r # None /\ r.attempt # 0 /\ r.msg = m)
    OBVIOUS
<1>8. \A m \in Messages : lark'[m] = "acked" => lark[m] = "acked" \/ Accounted(m)
    OBVIOUS
<1>9. \A m \in Messages : IsEvent(c) /\ run[c].msg = m =>
        \/ r # None /\ r.attempt # 0 /\ r.msg = m
        \/ Done(m)'
        \/ \E k \in Tries : queue'[m][k] > 0
    BY <1>5
<1>10. r = None \/ r \in Run
    BY <1>2
<1> HIDE DEF r
<1> QED
    BY <1>3, <1>6, <1>7, <1>8, <1>9, <1>10, GroundsMove

LEMMA EndGrounds ==
    ASSUME AckInv, Lasting, NEW c \in Containers, End(c),
           \A m \in Messages, k \in Tries : queue[m][k] > 0 => queue'[m][k] > 0,
           \A m \in Messages : IsEvent(c) /\ run[c].msg = m =>
                Done(m)' \/ \E k \in Tries : queue'[m][k] > 0,
           \A m \in Messages : lark'[m] = "acked" => lark[m] = "acked" \/ Accounted(m)
    PROVE  Grounds'
BY GroundsMove DEF End

LEMMA CountsNext == RunsOK /\ CountsOK /\ [Next]_vars => CountsOK' /\ Lasting
<1> SUFFICES ASSUME RunsOK, CountsOK, [Next]_vars PROVE CountsOK' /\ Lasting
    OBVIOUS
<1>1. ASSUME NEW m \in Messages, NEW c \in Containers, Deliver(m, c)
      PROVE  CountsOK' /\ Lasting
    BY <1>1 DEF Deliver, outcome, ghosts, Lasting, Done, CountsOK
<1>2. ASSUME NEW m \in Messages, NEW c \in Containers, Pick(m, c)
      PROVE  CountsOK' /\ Lasting
  <2>1. PICK k \in Tries :
          /\ queue[m][k] > 0
          /\ queue' = [queue EXCEPT ![m][k] = @ - 1]
      BY <1>2 DEF Pick
  <2>2. queue' \in [Messages -> [Tries -> Nat]]
      BY <2>1, QueueDown DEF CountsOK
  <2> QED
      BY <1>2, <2>2 DEF Pick, webhook, outcome, ghosts, Lasting, Done, CountsOK
<1>3. ASSUME NEW m \in Messages, GivesUp(m) \/ Doubles(m)
      PROVE  CountsOK' /\ Lasting
  <2>1. CASE GivesUp(m)
      BY <2>1 DEF GivesUp, outcome, ghosts, Lasting, Done, CountsOK
  <2>2. CASE Doubles(m)
    <3>1. PICK k \in Tries : queue' = [queue EXCEPT ![m][k] = @ + 1]
        BY <2>2 DEF Doubles
    <3>2. queue' \in [Messages -> [Tries -> Nat]]
        BY <3>1, QueueUp DEF CountsOK
    <3> QED
        BY <2>2, <3>2 DEF Doubles, webhook, outcome, Lasting, Done, CountsOK
  <2> QED
      BY <1>3, <2>1, <2>2
<1>4. ASSUME NEW c \in Containers, RunStep(c) PROVE CountsOK' /\ Lasting
  <2>1. CASE Acknowledge(c)
    <3>1. lark' \in [Messages -> {"unsent", "waiting", "acked", "gave up"}]
        BY <2>1 DEF Acknowledge, CountsOK
    <3> QED
        BY <2>1, <3>1
           DEF Acknowledge, outcome, ghosts, Lasting, Done, CountsOK
  <2>2. CASE Dispatch(c)
    <3>1. /\ run[c].msg \in Messages
          /\ \/ Accept(run[c].msg) /\ UNCHANGED lost
             \/ UNCHANGED queue /\ (UNCHANGED lost \/ Lose(run[c].msg))
        BY <2>2, DispatchShape
    <3>2. queue' \in [Messages -> [Tries -> Nat]]
      <4>1. CASE UNCHANGED queue
          BY <4>1 DEF CountsOK
      <4>2. CASE queue' = [queue EXCEPT ![run[c].msg][1] = @ + 1]
          BY <3>1, <4>2, FirstTry, QueueUp DEF CountsOK
      <4> QED
          BY <3>1, <4>1, <4>2 DEF Accept
    <3>3. lost' = lost \/ Lose(run[c].msg)
        BY <3>1
    <3>4. /\ lost' \in [Messages -> BOOLEAN]
          /\ \A m \in Messages : lost[m] => lost'[m]
        BY <3>3 DEF Lose, CountsOK
    <3> QED
        BY <2>2, <3>2, <3>4 DEF Dispatch, webhook, outcome, Lasting, Done, CountsOK
  <2>3. CASE SendPart(c)
    <3>1. PICK b \in BOOLEAN :
            replied' = [replied EXCEPT ![run[c].msg] = @ \/ b]
        BY <2>3 DEF SendPart
    <3>2. /\ replied' \in [Messages -> BOOLEAN]
          /\ \A m \in Messages : replied[m] => replied'[m]
        BY <3>1 DEF CountsOK
    <3>3. lost' = lost \/ Lose(run[c].msg)
        BY <2>3 DEF SendPart
    <3>4. /\ lost' \in [Messages -> BOOLEAN]
          /\ \A m \in Messages : lost[m] => lost'[m]
        BY <3>3 DEF Lose, CountsOK
    <3> QED
        BY <2>3, <3>2, <3>4 DEF SendPart, webhook, Lasting, Done, CountsOK
  <2>4. CASE ResolveRaises(c) \/ EventDies(c)
    <3>1. run[c] \in Run /\ run[c].attempt # 0 /\ Retry(run[c])
        BY <2>4 DEF ResolveRaises, EventDies, At, IsEvent, RunsOK, RunOK, HookSteps
    <3>2. /\ queue' \in [Messages -> [Tries -> Nat]]
          /\ lost' \in [Messages -> BOOLEAN]
          /\ \A m \in Messages : lost[m] => lost'[m]
        BY <3>1, RetryCounts
    <3> QED
        BY <2>4, <3>2
           DEF ResolveRaises, EventDies, webhook, outcome, Lasting, Done, CountsOK
  <2>5. CASE Decrypt(c) \/ AnsweredNothing(c) \/ FetchFails(c)
      BY <2>5 DEF Decrypt, AnsweredNothing, FetchFails, Lose, webhook,
         outcome, Lasting, Done, CountsOK
  <2>6. CASE \/ Verify(c) \/ Resolve(c) \/ Invoke(c) \/ InvokeFails(c)
             \/ Answered(c) \/ UseToken(c) \/ FetchToken(c) \/ Return(c)
             \/ HookDies(c)
      BY <2>6 DEF Verify, Resolve, Invoke, InvokeFails, Answered, UseToken,
         FetchToken, Return, HookDies, webhook, outcome, ghosts, Lasting, Done,
         CountsOK
  <2> QED
      BY <1>4, <2>1, <2>2, <2>3, <2>4, <2>5, <2>6 DEF RunStep
<1>5. CASE (\E c \in Containers : Recycle(c)) \/ Tick \/ UNCHANGED vars
    BY <1>5 DEF Recycle, Tick, vars, webhook, outcome, ghosts, Lasting, Done,
       CountsOK
<1> QED
    BY <1>1, <1>2, <1>3, <1>4, <1>5 DEF Next

LEMMA GroundsRunStep ==
    ASSUME AckInv, CountsOK', Lasting, NEW c \in Containers, RunStep(c)
    PROVE  Grounds'
<1>1. run[c] # None /\ RunOK(run[c]) /\ run[c].msg \in Messages
    BY DEF AckInv, RunsOK, RunStep, RunOK, Run, At, IsEvent, Verify, Dispatch,
       Acknowledge, Decrypt, Resolve, ResolveRaises, Invoke, InvokeFails,
       Answered, AnsweredNothing, UseToken, FetchToken, FetchFails, SendPart,
       Return, HookDies, EventDies
<1>2. CASE Verify(c)
    BY <1>2, GotoGrounds, EndGrounds, <1>1
       DEF Verify, webhook, Steps, IsEvent, At, RunOK, HookSteps, FreshSteps
<1>3. CASE Dispatch(c)
  <2>0. PICK m \in Messages : m = run[c].msg
      BY <1>1
  <2>1. PICK r : /\ run' = [run EXCEPT ![c] = r]
                 /\ RunOK(r) /\ r.msg = m /\ r.attempt = 0
                 /\ r.step \in {"dispatch", "ack"}
                 /\ \/ Accept(m) /\ UNCHANGED lost
                    \/ /\ UNCHANGED <<queue, dispatched, lost>>
                       /\ r.handed \/ r.step = "ack" => run[c].handed
                    \/ UNCHANGED <<queue, dispatched>> /\ Lose(m)
      BY <1>3, <2>0, DispatchShape DEF AckInv
  <2>2. /\ run[c].step = "dispatch" /\ run[c].attempt = 0 /\ lark' = lark
        /\ r \in Run /\ r # None
      BY <1>1, <1>3, <2>1, NoneAssumption
         DEF Dispatch, At, RunOK, HookSteps, webhook
  <2>3. /\ \A n \in Messages, k \in Tries : queue[n][k] > 0 => queue'[n][k] > 0
        /\ Claims(r) => Accounted(m)'
    <3>1. CASE Accept(m)
      <4>1. /\ queue'[m][1] > 0
            /\ \A n \in Messages, k \in Tries : queue[n][k] > 0 => queue'[n][k] > 0
          BY <3>1, FirstTry, QueueUp DEF Accept, AckInv, CountsOK
      <4> QED
          BY <4>1, FirstTry DEF Accounted, InProgress
    <3>2. CASE /\ UNCHANGED <<queue, lost>>
               /\ r.handed \/ r.step = "ack" => run[c].handed
      <4>1. Claims(r) => Accounted(m)
          BY <1>1, <2>0, <2>2, <3>2 DEF Claims, AckInv, Grounds
      <4>2. Done(m) => Done(m)'
          BY DEF Lasting
      <4>3. \A d \in Containers : d # c => run'[d] = run[d]
          BY <2>1 DEF AckInv, RunsOK
      <4>4. InProgress(m) => InProgress(m)'
        <5>1. UNCHANGED queue
            BY <3>2
        <5>2. ASSUME NEW d \in Containers, IsEvent(d), run[d].msg = m
              PROVE  IsEvent(d)' /\ run'[d].msg = m
            BY <2>2, <4>3, <5>2 DEF IsEvent
        <5> QED
            BY <5>1, <5>2 DEF InProgress
      <4> QED
          BY <4>1, <4>2, <4>4, <3>2 DEF Accounted
    <3>3. CASE UNCHANGED queue /\ Lose(m)
        BY <3>3 DEF Lose, Accounted, Done, AckInv, CountsOK
    <3> QED
        BY <2>1, <3>1, <3>2, <3>3
  <2>4. \A n \in Messages :
          r # None /\ r.msg = n =>
             /\ Claims(r) => Accounted(n)'
             /\ r.step = "return" => Done(n)'
      BY <2>1, <2>3
  <2>5. \A n \in Messages : ~(IsEvent(c) /\ run[c].msg = n)
      BY <2>2 DEF IsEvent
  <2> QED
      BY <2>1, <2>2, <2>3, <2>4, <2>5, GroundsMove
<1>4. CASE Acknowledge(c)
  <2>1. Accounted(run[c].msg)
      BY <1>1, <1>4 DEF Acknowledge, At, AckInv, Grounds, Claims
  <2>2. \A m \in Messages : lark'[m] = "acked" => lark[m] = "acked" \/ Accounted(m)
      BY <1>1, <1>4, <2>1 DEF Acknowledge, AckInv, CountsOK
  <2> QED
      BY <1>1, <1>4, <2>2, EndGrounds
         DEF Acknowledge, IsEvent, At, RunOK, HookSteps
<1>5. CASE Decrypt(c)
  <2>1. CASE Goto(c, "resolve")
      BY <1>1, <1>5, <2>1, GotoGrounds DEF Decrypt, webhook, Steps
  <2>2. CASE End(c) /\ Lose(run[c].msg)
    <3>1. \A m \in Messages : run[c].msg = m => Done(m)'
        BY <1>1, <2>2 DEF Lose, Done, AckInv, CountsOK
    <3> QED
        BY <1>5, <2>2, <3>1, EndGrounds DEF Decrypt, webhook
  <2> QED
      BY <1>5, <2>1, <2>2 DEF Decrypt
<1>6. CASE ResolveRaises(c) \/ EventDies(c)
  <2>1. run[c].attempt # 0 /\ Retry(run[c]) /\ End(c) /\ UNCHANGED lark
      BY <1>1, <1>6
         DEF ResolveRaises, EventDies, At, IsEvent, RunOK, HookSteps, webhook
  <2>2. /\ \A m \in Messages, k \in Tries : queue[m][k] > 0 => queue'[m][k] > 0
        /\ lost'[run[c].msg] \/ \E k \in Tries : queue'[run[c].msg][k] > 0
      BY <1>1, <2>1, RetryCounts DEF AckInv, RunOK
  <2>3. \A m \in Messages : run[c].msg = m =>
          Done(m)' \/ \E k \in Tries : queue'[m][k] > 0
      BY <2>2 DEF Done
  <2> QED
      BY <2>1, <2>2, <2>3, EndGrounds
<1>7. CASE AnsweredNothing(c) \/ FetchFails(c)
  <2>1. Lose(run[c].msg) /\ Goto(c, "return") /\ UNCHANGED <<lark, queue>>
      BY <1>7 DEF AnsweredNothing, FetchFails, webhook
  <2>2. \A m \in Messages : run[c].msg = m => Done(m)'
      BY <1>1, <2>1 DEF Lose, Done, AckInv, CountsOK
  <2> QED
      BY <1>1, <2>1, <2>2, GotoGrounds DEF Steps
<1>8. CASE SendPart(c)
  <2> DEFINE r(taken) ==
               [run[c] EXCEPT !.left = run[c].left - 1, !.ok = run[c].ok /\ taken,
                  !.step = IF run[c].left = 1 THEN "return" ELSE "send"]
  <2>1. PICK taken \in BOOLEAN :
          /\ run' = [run EXCEPT ![c] = r(taken)]
          /\ replied' = [replied EXCEPT ![run[c].msg] =
                            @ \/ (run[c].left = 1 /\ (run[c].ok /\ taken))]
          /\ IF run[c].left = 1 /\ ~(run[c].ok /\ taken)
             THEN Lose(run[c].msg) ELSE UNCHANGED lost
      BY <1>8 DEF SendPart
  <2>2. /\ r(taken) # None /\ r(taken).msg = run[c].msg
        /\ r(taken).attempt = run[c].attempt /\ run[c].attempt # 0
        /\ r(taken).step = IF run[c].left = 1 THEN "return" ELSE "send"
        /\ r(taken) \in Run
    <3>1. run[c] \in Run /\ run[c].left \in 0..MaxParts /\ run[c].left > 0
        BY <1>1, <1>8 DEF SendPart, At, RunOK, Run, SendSteps
    <3>2. run[c].left - 1 \in 0..MaxParts
        BY <3>1, NumbersAssumption
    <3>3. run[c].attempt # 0
        BY <1>1, <1>8 DEF SendPart, At, RunOK, HookSteps
    <3>4. (run[c].ok /\ taken) \in BOOLEAN
        OBVIOUS
    <3> QED
        BY <3>1, <3>2, <3>3, <3>4, NoneAssumption DEF Run, Steps
  <2>3. \A m \in Messages, k \in Tries : queue'[m][k] = queue[m][k]
      BY <1>8 DEF SendPart
  <2>4. lark' = lark
      BY <1>8 DEF SendPart, webhook
  <2>5. \A m \in Messages : run[c].left = 1 /\ run[c].msg = m => Done(m)'
    <3> SUFFICES ASSUME NEW m \in Messages, run[c].left = 1, run[c].msg = m
                 PROVE  Done(m)'
        OBVIOUS
    <3>1. CASE run[c].ok /\ taken
      <4>1. replied' = [replied EXCEPT ![m] = @ \/ TRUE]
          BY <2>1, <3>1
      <4> QED
          BY <4>1 DEF Done, AckInv, CountsOK
    <3>2. CASE ~(run[c].ok /\ taken)
        BY <2>1, <3>2 DEF Lose, Done, AckInv, CountsOK
    <3> QED
        BY <3>1, <3>2
  <2>6. \A m \in Messages :
          r(taken) # None /\ r(taken).msg = m =>
             /\ Claims(r(taken)) => Accounted(m)'
             /\ r(taken).step = "return" => Done(m)'
      BY <2>2, <2>5 DEF Claims
  <2>7. \A m \in Messages, k \in Tries :
          queue[m][k] > 0 =>
             \/ queue'[m][k] > 0
             \/ r(taken) # None /\ r(taken).attempt # 0 /\ r(taken).msg = m
      BY <2>3
  <2>8. \A m \in Messages :
          IsEvent(c) /\ run[c].msg = m =>
             \/ r(taken) # None /\ r(taken).attempt # 0 /\ r(taken).msg = m
             \/ Done(m)'
             \/ \E k \in Tries : queue'[m][k] > 0
      BY <2>2
  <2>9. run' = [run EXCEPT ![c] = r(taken)]
      BY <2>1
  <2> HIDE DEF r
  <2> QED
      BY <2>2, <2>4, <2>6, <2>7, <2>8, <2>9, GroundsMove
<1>9. CASE Return(c)
  <2>1. Done(run[c].msg)
      BY <1>1, <1>9 DEF Return, At, AckInv, Grounds
  <2>2. \A m \in Messages : run[c].msg = m => Done(m)'
      BY <1>1, <2>1 DEF Lasting
  <2> QED
      BY <1>9, <2>2, EndGrounds DEF Return, webhook
<1>10. CASE HookDies(c)
    BY <1>10, EndGrounds DEF HookDies, webhook
<1>11. CASE UseToken(c) \/ FetchToken(c)
    BY <1>1, <1>11, GotoGrounds DEF UseToken, FetchToken, webhook, Steps
<1>12. CASE Resolve(c) \/ InvokeFails(c) \/ Answered(c)
  <2>1. \/ Goto(c, "invoke")
        \/ \E n : n \in 1..MaxParts /\ SendMessage(c, n)
      BY <1>12, NumbersAssumption DEF Resolve, InvokeFails, Answered
  <2>2. UNCHANGED <<lark, queue>>
      BY <1>12 DEF Resolve, InvokeFails, Answered, webhook
  <2>3. CASE Goto(c, "invoke")
      BY <1>1, <2>2, <2>3, GotoGrounds DEF Steps
  <2>4. ASSUME NEW n \in 1..MaxParts, SendMessage(c, n) PROVE Grounds'
    <3> DEFINE r == [run[c] EXCEPT !.step = "token", !.left = n]
    <3>1. run' = [run EXCEPT ![c] = r]
        BY <2>4 DEF SendMessage
    <3>2. n \in 0..MaxParts /\ run[c] \in Run
        BY <1>1, NumbersAssumption DEF RunOK
    <3>3. /\ r \in Run /\ r # None /\ r.msg = run[c].msg
          /\ r.attempt = run[c].attempt /\ r.step = "token"
        BY <3>2, NoneAssumption DEF Run, Steps
    <3> HIDE DEF r
    <3> QED
        BY <2>2, <3>1, <3>3, GroundsMove DEF IsEvent, Claims
  <2> QED
      BY <2>1, <2>3, <2>4
<1>13. CASE Invoke(c)
  <2>1. PICK r : /\ run' = [run EXCEPT ![c] = r]
                 /\ RunOK(r) /\ r.msg = run[c].msg
                 /\ r.attempt = run[c].attempt /\ r.step = "await"
      BY <1>13, InvokeShape DEF AckInv
  <2>2. UNCHANGED <<lark, queue>> /\ r \in Run /\ r # None /\ ~Claims(r)
      BY <1>13, <2>1, NoneAssumption DEF Invoke, RunOK, webhook, Claims
  <2> QED
      BY <2>1, <2>2, GroundsMove DEF IsEvent
<1> QED
    BY <1>2, <1>3, <1>4, <1>5, <1>6, <1>7, <1>8, <1>9, <1>10, <1>11, <1>12, <1>13
       DEF RunStep

LEMMA GroundsNewRun ==
    ASSUME AckInv, Lasting, NEW c \in Containers, run[c] = None,
           NEW m \in Messages, NEW s \in Steps, NEW j \in 0..MaxTries,
           s # "ack", s # "dispatch", s # "return",
           run' = [run EXCEPT ![c] = NewRun(m, s, j)],
           \A n \in Messages, k \in Tries :
             queue[n][k] > 0 => queue'[n][k] > 0 \/ (n = m /\ j # 0),
           \A n \in Messages : lark'[n] = "acked" => lark[n] = "acked"
    PROVE  Grounds'
<1> DEFINE r == NewRun(m, s, j)
<1>1. r \in Run /\ r.msg = m /\ r.attempt = j /\ r.step = s
    BY NumbersAssumption DEF NewRun, Run
<1>2. r # None /\ ~IsEvent(c)
    BY <1>1, NoneAssumption DEF IsEvent
<1>3. \A n \in Messages, k \in Tries :
        queue[n][k] > 0 =>
           queue'[n][k] > 0 \/ (r # None /\ r.attempt # 0 /\ r.msg = n)
    BY <1>1, <1>2
<1>4. run' = [run EXCEPT ![c] = r]
    OBVIOUS
<1>5. \A n \in Messages :
        r # None /\ r.msg = n =>
           /\ Claims(r) => Accounted(n)'
           /\ r.step = "return" => Done(n)'
    BY <1>1 DEF Claims
<1>6. \A n \in Messages : lark'[n] = "acked" => lark[n] = "acked" \/ Accounted(n)
    OBVIOUS
<1> HIDE DEF r
<1> QED
    BY <1>1, <1>2, <1>3, <1>4, <1>5, <1>6, GroundsMove

LEMMA AckNext == AckInv /\ [Next]_vars => AckInv'
<1> SUFFICES ASSUME AckInv, [Next]_vars PROVE Grounds'
    BY RunsNext, CountsNext DEF AckInv
<1>0. Lasting /\ CountsOK'
    BY CountsNext DEF AckInv
<1>1. ASSUME NEW m \in Messages, NEW c \in Containers, Deliver(m, c)
      PROVE  Grounds'
  <2>1. \A n \in Messages : lark'[n] = "acked" => lark[n] = "acked"
      BY <1>1 DEF Deliver, AckInv, CountsOK
  <2>2. 0 \in 0..MaxTries /\ "verify" \in Steps
      BY NumbersAssumption DEF Steps
  <2>3. \A n \in Messages, k \in Tries : queue[n][k] > 0 => queue'[n][k] > 0
      BY <1>1 DEF Deliver
  <2> QED
      BY <1>0, <1>1, <2>1, <2>2, <2>3, GroundsNewRun DEF Deliver
<1>2. ASSUME NEW m \in Messages, NEW c \in Containers, Pick(m, c)
      PROVE  Grounds'
  <2>1. PICK k \in Tries :
          /\ queue' = [queue EXCEPT ![m][k] = @ - 1]
          /\ run' = [run EXCEPT ![c] = NewRun(m, "decrypt", k)]
      BY <1>2 DEF Pick
  <2>2. k \in 0..MaxTries /\ k # 0
      BY NumbersAssumption DEF Tries
  <2>3. \A n \in Messages, j \in Tries : n # m => queue'[n][j] = queue[n][j]
      BY <2>1 DEF AckInv, CountsOK
  <2>4. \A n \in Messages, j \in Tries :
          queue[n][j] > 0 => queue'[n][j] > 0 \/ (n = m /\ k # 0)
      BY <2>2, <2>3
  <2>5. \A n \in Messages : lark'[n] = "acked" => lark[n] = "acked"
      BY <1>2 DEF Pick, webhook
  <2>6. run[c] = None /\ "decrypt" \in Steps
      BY <1>2 DEF Pick, Steps
  <2>7. run' = [run EXCEPT ![c] = NewRun(m, "decrypt", k)]
      BY <2>1
  <2> QED
      BY <1>0, <2>2, <2>4, <2>5, <2>6, <2>7, GroundsNewRun
<1>3. ASSUME NEW m \in Messages, GivesUp(m) \/ Doubles(m) PROVE Grounds'
  <2>1. \A n \in Messages : lark'[n] = "acked" => lark[n] = "acked"
      BY <1>3 DEF GivesUp, Doubles, webhook, AckInv, CountsOK
  <2>2. \A n \in Messages, k \in Tries : queue[n][k] > 0 => queue'[n][k] > 0
    <3>1. CASE GivesUp(m)
        BY <3>1 DEF GivesUp
    <3>2. CASE Doubles(m)
      <4>1. PICK k \in Tries : queue' = [queue EXCEPT ![m][k] = @ + 1]
          BY <3>2 DEF Doubles
      <4> QED
          BY <4>1, QueueUp DEF AckInv, CountsOK
    <3> QED
        BY <1>3, <3>1, <3>2
  <2>3. UNCHANGED run
      BY <1>3 DEF GivesUp, Doubles
  <2>4. \A n \in Messages : Accounted(n) => Accounted(n)'
      BY <1>0, <2>2, <2>3 DEF Accounted, InProgress, IsEvent, Lasting
  <2> QED
      BY <1>0, <2>1, <2>3, <2>4 DEF AckInv, Grounds, Claims, Lasting
<1>4. ASSUME NEW c \in Containers, RunStep(c) PROVE Grounds'
    BY <1>0, <1>4, GroundsRunStep
<1>5. CASE (\E c \in Containers : Recycle(c)) \/ UNCHANGED vars
    BY <1>5 DEF Recycle, vars, webhook, outcome, ghosts, AckInv, Grounds,
       Claims, Accounted, InProgress, Done, IsEvent
<1>6. CASE Tick
  <2>1. \A c \in Containers :
          run[c] # None /\ run[c] \in Run =>
             /\ run'[c] # None /\ run'[c].msg = run[c].msg
             /\ run'[c].attempt = run[c].attempt /\ run'[c].step = run[c].step
             /\ run'[c].handed = run[c].handed
      BY <1>6, TickShape DEF AckInv
  <2>2. \A c \in Containers : run[c] = None => run'[c] = None
      BY <1>6 DEF Tick, InSend, At
  <2>3. \A c \in Containers : run[c] # None => run[c] \in Run
      BY DEF AckInv, RunsOK, RunOK
  <2>4. UNCHANGED <<lark, queue, replied, lost>>
      BY <1>6 DEF Tick, webhook, outcome, ghosts
  <2>5. \A m \in Messages : Accounted(m) => Accounted(m)'
      BY <2>1, <2>2, <2>3, <2>4 DEF Accounted, InProgress, Done, IsEvent
  <2>6. \A m \in Messages : Done(m) => Done(m)'
      BY <2>4 DEF Done
  <2> QED
      BY <2>1, <2>2, <2>3, <2>4, <2>5, <2>6 DEF AckInv, Grounds, Claims
<1> QED
    BY <1>1, <1>2, <1>3, <1>4, <1>5, <1>6 DEF Next

\* Nothing acknowledged vanishes: it is queued or being run, or the chat has
\* the whole of a reply, or a known silent end has met it, for any number of
\* messages, containers, deliveries, attempts, tries, doubles and parts.
THEOREM NothingVanishes == Spec => []AckedIsAccounted
<1>1. AckInv => AckedIsAccounted
    BY DEF AckInv, Grounds, Accounted, Done, AckedIsAccounted
<1> QED
    BY <1>1, AckInit, AckNext, PTL DEF Spec

-----------------------------------------------------------------------------
(* How many events, runs and turns a message has. *)

\* The event runs, and those that have not given the agent the message yet.
EventRuns == {r \in Run : r.attempt # 0}
NotYet == {r \in EventRuns : ~r.handed}

\* The events of m are counted as the elements of a set: one for each that waits
\* for one of its runs, and one for each container that runs one.
Waiting(m) == {p \in Tries \X (Nat \ {0}) : p[2] <= queue[m][p[1]]}

Running(m, S) ==
    {p \in {0} \X Containers :
        run[p[2]] # None /\ run[p[2]].msg = m /\ run[p[2]] \in S}

Live(m, S) == Waiting(m) \cup Running(m, S)

\* The runs for which they are counted.
Counted(S) == S = NotYet \/ S = EventRuns

\* The attempts that hook runs of m may still make, as a set: one element for
\* each attempt that is left to a container.
ToCome(m) ==
    {p \in Containers \X (1..MaxAttempts) :
        /\ run[p[1]] # None /\ run[p[1]].msg = m
        /\ run[p[1]].step \in {"verify", "dispatch"}
        /\ run[p[1]].calls < p[2]}

\* The events of m that Lambda has put into its queue without a run of them.
Events(m) == dispatched[m] + doubled[m]

\* What a step does to the size of such a set.
LEMMA NoMore ==
    ASSUME NEW A, IsFiniteSet(A), NEW B, B \subseteq A
    PROVE  /\ IsFiniteSet(B)
           /\ Cardinality(B) \in Nat /\ Cardinality(A) \in Nat
           /\ Cardinality(B) <= Cardinality(A)
BY FS_Subset, FS_CardinalityType

LEMMA OneMore ==
    ASSUME NEW A, IsFiniteSet(A), NEW a, NEW B, B \subseteq A \cup {a}
    PROVE  /\ IsFiniteSet(B)
           /\ Cardinality(B) \in Nat /\ Cardinality(A) \in Nat
           /\ Cardinality(B) <= Cardinality(A) + 1
<1>0. Cardinality(A) \in Nat
    BY FS_CardinalityType
<1>1. /\ IsFiniteSet(A \cup {a})
      /\ Cardinality(A \cup {a}) <= Cardinality(A) + 1
    BY <1>0, FS_AddElement
<1>2. /\ IsFiniteSet(B) /\ Cardinality(B) \in Nat
      /\ Cardinality(A \cup {a}) \in Nat
      /\ Cardinality(B) <= Cardinality(A \cup {a})
    BY <1>1, NoMore
<1> QED
    BY <1>0, <1>1, <1>2

LEMMA OneLess ==
    ASSUME NEW A, IsFiniteSet(A), NEW a \in A, NEW B, B \subseteq A \ {a}
    PROVE  /\ IsFiniteSet(B)
           /\ Cardinality(B) \in Nat /\ Cardinality(A) \in Nat
           /\ Cardinality(B) + 1 <= Cardinality(A)
<1>1. /\ IsFiniteSet(A \ {a}) /\ Cardinality(A) \in Nat
      /\ Cardinality(A \ {a}) = Cardinality(A) - 1
    BY FS_RemoveElement, FS_CardinalityType
<1>2. /\ IsFiniteSet(B) /\ Cardinality(B) \in Nat
      /\ Cardinality(A \ {a}) \in Nat
      /\ Cardinality(B) <= Cardinality(A \ {a})
    BY <1>1, NoMore
<1> QED
    BY <1>1, <1>2

LEMMA OneForAnother ==
    ASSUME NEW A, IsFiniteSet(A), NEW a \in A, NEW b, NEW B,
           B \subseteq (A \ {a}) \cup {b}
    PROVE  /\ IsFiniteSet(B)
           /\ Cardinality(B) \in Nat /\ Cardinality(A) \in Nat
           /\ Cardinality(B) <= Cardinality(A)
<1>1. /\ IsFiniteSet(A \ {a}) /\ Cardinality(A) \in Nat
      /\ Cardinality(A \ {a}) = Cardinality(A) - 1
      /\ Cardinality(A \ {a}) \in Nat
    BY FS_RemoveElement, FS_CardinalityType
<1>2. /\ IsFiniteSet(B) /\ Cardinality(B) \in Nat
      /\ Cardinality(B) <= Cardinality(A \ {a}) + 1
    BY <1>1, OneMore
<1> QED
    BY <1>1, <1>2

\* An event of m that comes to wait for its k-th run, and one that is picked.
LEMMA WaitingUp ==
    ASSUME CountsOK, NEW m \in Messages, NEW k \in Tries,
           queue' = [queue EXCEPT ![m][k] = @ + 1],
           NEW n \in Messages
    PROVE  /\ Waiting(n)' \subseteq Waiting(n) \cup {<<k, queue[m][k] + 1>>}
           /\ n # m => Waiting(n)' = Waiting(n)
<1>1. \A j \in Tries :
        /\ queue[n][j] \in Nat
        /\ queue'[n][j] = IF n = m /\ j = k THEN queue[n][j] + 1 ELSE queue[n][j]
    BY DEF CountsOK
<1>2. ASSUME NEW p \in Waiting(n)', p \notin Waiting(n)
      PROVE  n = m /\ p = <<k, queue[m][k] + 1>>
  <2>1. p \in Tries \X (Nat \ {0}) /\ p[2] <= queue'[n][p[1]]
      BY <1>2 DEF Waiting
  <2>2. p = <<p[1], p[2]>> /\ p[1] \in Tries /\ p[2] \in Nat
      BY <2>1
  <2>3. ~(p[2] <= queue[n][p[1]])
      BY <1>2, <2>1 DEF Waiting
  <2>4. n = m /\ p[1] = k /\ p[2] = queue[m][k] + 1
      BY <1>1, <2>1, <2>2, <2>3
  <2> QED
      BY <2>2, <2>4
<1>3. ASSUME n # m PROVE Waiting(n)' = Waiting(n)
  <2>1. \A j \in Tries : queue'[n][j] = queue[n][j]
      BY <1>1, <1>3
  <2> QED
      BY <2>1 DEF Waiting
<1> QED
    BY <1>2, <1>3

LEMMA WaitingDown ==
    ASSUME CountsOK, NEW m \in Messages, NEW k \in Tries, queue[m][k] > 0,
           queue' = [queue EXCEPT ![m][k] = @ - 1],
           NEW n \in Messages
    PROVE  /\ <<k, queue[m][k]>> \in Waiting(m)
           /\ n = m => Waiting(n)' \subseteq Waiting(n) \ {<<k, queue[m][k]>>}
           /\ n # m => Waiting(n)' = Waiting(n)
<1>1. \A j \in Tries :
        /\ queue[n][j] \in Nat
        /\ queue'[n][j] = IF n = m /\ j = k THEN queue[n][j] - 1 ELSE queue[n][j]
    BY DEF CountsOK
<1>2. <<k, queue[m][k]>> \in Waiting(m)
  <2> DEFINE q == queue[m][k]
  <2>0. queue[m][k] \in Nat
      BY DEF CountsOK
  <2>1. q \in Nat \ {0}
      BY <2>0
  <2>2. q <= queue[m][k]
      BY <2>1
  <2>3. <<k, q>> \in Tries \X (Nat \ {0}) /\ <<k, q>>[1] = k /\ <<k, q>>[2] = q
      BY <2>1
  <2> QED
      BY <2>2, <2>3 DEF Waiting
<1>3. ASSUME n = m, NEW p \in Waiting(n)'
      PROVE  p \in Waiting(n) /\ p # <<k, queue[m][k]>>
  <2>1. p \in Tries \X (Nat \ {0}) /\ p[2] <= queue'[n][p[1]]
      BY <1>3 DEF Waiting
  <2>2. p = <<p[1], p[2]>> /\ p[1] \in Tries /\ p[2] \in Nat
      BY <2>1
  <2>3. p[2] <= queue[n][p[1]] /\ ~(p[1] = k /\ p[2] = queue[m][k])
      BY <1>1, <1>3, <2>1, <2>2
  <2> QED
      BY <2>1, <2>2, <2>3 DEF Waiting
<1>4. ASSUME n # m PROVE Waiting(n)' = Waiting(n)
  <2>1. \A j \in Tries : queue'[n][j] = queue[n][j]
      BY <1>1, <1>4
  <2> QED
      BY <2>1 DEF Waiting
<1> QED
    BY <1>2, <1>3, <1>4

\* Container c goes on with r.
LEMMA RunningMoves ==
    ASSUME RunsOK, NEW c \in Containers, NEW r, run' = [run EXCEPT ![c] = r],
           NEW n \in Messages, NEW S
    PROVE  /\ r # None /\ r.msg = n /\ r \in S =>
                Running(n, S)' \subseteq Running(n, S) \cup {<<0, c>>}
           /\ ~(r # None /\ r.msg = n /\ r \in S) =>
                Running(n, S)' \subseteq Running(n, S) \ {<<0, c>>}
           /\ run[c] # None /\ run[c].msg = n /\ run[c] \in S =>
                <<0, c>> \in Running(n, S)
<1>1. run'[c] = r /\ \A d \in Containers : d # c => run'[d] = run[d]
    BY DEF RunsOK
<1>2. \A p \in {0} \X Containers : p = <<0, p[2]>> /\ p[2] \in Containers
    OBVIOUS
<1>3. <<0, c>>[2] = c /\ <<0, c>> \in {0} \X Containers
    OBVIOUS
<1>4. run[c] # None /\ run[c].msg = n /\ run[c] \in S =>
        <<0, c>> \in Running(n, S)
    BY <1>3 DEF Running
<1>5. ASSUME NEW p \in Running(n, S)'
      PROVE  \/ p \in Running(n, S) /\ p # <<0, c>>
             \/ p = <<0, c>> /\ r # None /\ r.msg = n /\ r \in S
  <2>1. /\ p \in {0} \X Containers /\ run'[p[2]] # None /\ run'[p[2]].msg = n
        /\ run'[p[2]] \in S
      BY <1>5 DEF Running
  <2>2. CASE p[2] = c
      BY <1>1, <1>2, <2>1, <2>2
  <2>3. CASE p[2] # c
      BY <1>1, <1>2, <1>3, <2>1, <2>3 DEF Running
  <2> QED
      BY <2>2, <2>3
<1> QED
    BY <1>4, <1>5

\* Container c goes on with r, which is not counted unless its last run was.
LEMMA LiveKept ==
    ASSUME RunsOK, NEW c \in Containers, NEW r, run' = [run EXCEPT ![c] = r],
           UNCHANGED queue, NEW n \in Messages, NEW S,
           r # None /\ r.msg = n /\ r \in S =>
              run[c] # None /\ run[c].msg = n /\ run[c] \in S
    PROVE  Live(n, S)' \subseteq Live(n, S)
<1>1. Waiting(n)' = Waiting(n)
    BY DEF Waiting
<1>2. CASE r # None /\ r.msg = n /\ r \in S
  <2>1. /\ Running(n, S)' \subseteq Running(n, S) \cup {<<0, c>>}
        /\ <<0, c>> \in Running(n, S)
      BY <1>2, RunningMoves
  <2> QED
      BY <1>1, <2>1 DEF Live
<1>3. CASE ~(r # None /\ r.msg = n /\ r \in S)
  <2>1. Running(n, S)' \subseteq Running(n, S) \ {<<0, c>>}
      BY <1>3, RunningMoves
  <2> QED
      BY <1>1, <2>1 DEF Live
<1> QED
    BY <1>2, <1>3

\* The same when the run goes on to step s.
LEMMA GotoLive ==
    ASSUME RunsOK, NEW c \in Containers, run[c] # None, NEW s \in Steps,
           Goto(c, s), UNCHANGED queue, NEW n \in Messages, NEW S, Counted(S)
    PROVE  Live(n, S)' \subseteq Live(n, S)
<1> DEFINE r == [run[c] EXCEPT !.step = s]
<1>1. run[c] \in Run
    BY DEF RunsOK, RunOK
<1>2. r.msg = run[c].msg /\ (r \in S => run[c] \in S)
    BY <1>1 DEF Run, Counted, NotYet, EventRuns
<1>3. run' = [run EXCEPT ![c] = r]
    BY DEF Goto
<1>4. r # None /\ r.msg = n /\ r \in S =>
        run[c] # None /\ run[c].msg = n /\ run[c] \in S
    BY <1>2
<1> HIDE DEF r
<1> QED
    BY <1>3, <1>4, LiveKept

LEMMA SendLive ==
    ASSUME RunsOK, NEW c \in Containers, run[c] # None, NEW k \in 1..MaxParts,
           SendMessage(c, k), UNCHANGED queue, NEW n \in Messages, NEW S, Counted(S)
    PROVE  Live(n, S)' \subseteq Live(n, S)
<1> DEFINE r == [run[c] EXCEPT !.step = "token", !.left = k]
<1>1. run[c] \in Run
    BY DEF RunsOK, RunOK
<1>2. r.msg = run[c].msg /\ (r \in S => run[c] \in S)
    BY <1>1 DEF Run, Counted, NotYet, EventRuns
<1>3. run' = [run EXCEPT ![c] = r]
    BY DEF SendMessage
<1>4. r # None /\ r.msg = n /\ r \in S =>
        run[c] # None /\ run[c].msg = n /\ run[c] \in S
    BY <1>2
<1> HIDE DEF r
<1> QED
    BY <1>3, <1>4, LiveKept

LEMMA EndLive ==
    ASSUME RunsOK, NEW c \in Containers, End(c), UNCHANGED queue,
           NEW n \in Messages, NEW S
    PROVE  Live(n, S)' \subseteq Live(n, S)
BY LiveKept DEF End

\* The run of c ends, and its event is to be run again or not at all.
LEMMA RetryLive ==
    ASSUME RunsOK, CountsOK, NEW c \in Containers, run[c] # None,
           run[c].attempt # 0, Retry(run[c]), End(c),
           NEW n \in Messages, NEW S
    PROVE  \/ Live(n, S)' \subseteq Live(n, S)
           \/ /\ run[c].msg = n
              /\ \E b : Live(n, S)' \subseteq (Live(n, S) \ {<<0, c>>}) \cup {b}
<1>1. run[c] \in Run /\ run[c].msg \in Messages /\ run[c].attempt \in 1..MaxTries
    BY NumbersAssumption DEF RunsOK, RunOK, Run
<1>2. Running(n, S)' \subseteq Running(n, S) \ {<<0, c>>}
    BY RunningMoves DEF End
<1>3. \A p \in Waiting(n) : p # <<0, c>>
  <2> SUFFICES ASSUME NEW p \in Waiting(n) PROVE p # <<0, c>>
      OBVIOUS
  <2>1. p[1] \in Tries
      BY DEF Waiting
  <2>2. p[1] # 0
      BY <2>1, NumbersAssumption DEF Tries
  <2> QED
      BY <2>2
<1>4. CASE run[c].attempt < MaxTries
  <2>1. run[c].attempt + 1 \in Tries
      BY <1>1, <1>4, NumbersAssumption DEF Tries
  <2>2. PICK k \in Tries : k = run[c].attempt + 1
      BY <2>1
  <2>3. PICK m \in Messages : m = run[c].msg
      BY <1>1
  <2>4. queue' = [queue EXCEPT ![m][k] = @ + 1]
      BY <1>4, <2>2, <2>3 DEF Retry
  <2>5. /\ Waiting(n)' \subseteq Waiting(n) \cup {<<k, queue[m][k] + 1>>}
        /\ n # m => Waiting(n)' = Waiting(n)
      BY <2>4, WaitingUp
  <2>6. CASE n = m
    <3> DEFINE b == <<k, queue[m][k] + 1>>
    <3>1. Live(n, S)' \subseteq (Live(n, S) \ {<<0, c>>}) \cup {b}
        BY <1>2, <1>3, <2>5 DEF Live
    <3> QED
        BY <2>3, <2>6, <3>1
  <2>7. CASE n # m
      BY <1>2, <2>5, <2>7 DEF Live
  <2> QED
      BY <2>6, <2>7
<1>5. CASE ~(run[c].attempt < MaxTries)
  <2>1. UNCHANGED queue
      BY <1>5 DEF Retry
  <2> QED
      BY <2>1, EndLive
<1> QED
    BY <1>4, <1>5

\* An event that is picked no longer waits, but is run.
LEMMA PickLive ==
    ASSUME RunsOK, CountsOK, NEW m \in Messages, NEW c \in Containers, Pick(m, c),
           NEW n \in Messages, NEW S
    PROVE  \/ Live(n, S)' \subseteq Live(n, S)
           \/ \E a \in Live(n, S) :
                Live(n, S)' \subseteq (Live(n, S) \ {a}) \cup {<<0, c>>}
<1>1. PICK k \in Tries : /\ queue[m][k] > 0
                        /\ queue' = [queue EXCEPT ![m][k] = @ - 1]
                        /\ run' = [run EXCEPT ![c] = NewRun(m, "decrypt", k)]
    BY DEF Pick
<1> DEFINE a == <<k, queue[m][k]>>
<1>2. /\ a \in Waiting(m)
      /\ n = m => Waiting(n)' \subseteq Waiting(n) \ {a}
      /\ n # m => Waiting(n)' = Waiting(n)
    BY <1>1, WaitingDown
<1>3. NewRun(m, "decrypt", k).msg = m
    BY DEF NewRun
<1>4. CASE n = m
  <2>1. Running(n, S)' \subseteq Running(n, S) \cup {<<0, c>>}
      BY <1>1, RunningMoves
  <2>2. a \notin Running(n, S)
    <3>1. a[1] = k /\ k # 0
        BY NumbersAssumption DEF Tries
    <3> QED
        BY <3>1 DEF Running
  <2>3. a \in Live(n, S) /\ Live(n, S)' \subseteq (Live(n, S) \ {a}) \cup {<<0, c>>}
      BY <1>2, <1>4, <2>1, <2>2 DEF Live
  <2> QED
      BY <2>3
<1>5. CASE n # m
  <2> DEFINE r == NewRun(m, "decrypt", k)
  <2>1. ~(r # None /\ r.msg = n /\ r \in S) /\ run' = [run EXCEPT ![c] = r]
      BY <1>1, <1>3, <1>5
  <2> HIDE DEF r
  <2>2. Running(n, S)' \subseteq Running(n, S) \ {<<0, c>>}
      BY <2>1, RunningMoves
  <2> QED
      BY <1>2, <1>5, <2>2 DEF Live
<1> QED
    BY <1>4, <1>5

LEMMA UpByOne ==
    ASSUME NEW f \in [Messages -> Nat], NEW m \in Messages, NEW n \in Messages
    PROVE  /\ Count(f, m) \in [Messages -> Nat]
           /\ f[n] \in Nat
           /\ Count(f, m)[n] = IF n = m THEN f[n] + 1 ELSE f[n]
BY DEF Count

\* TypeOK for what CountsOK leaves out, the bound of dispatched apart.
NumbersOK ==
    /\ deliveries \in [Messages -> 0..MaxDeliveries]
    /\ turns \in [Messages -> Nat]
    /\ dispatched \in [Messages -> Nat]
    /\ doubled \in [Messages -> 0..MaxDoubles]
    /\ killed \in [Messages -> Nat]
    /\ creds \in [Containers -> {"unset", "loaded", "empty"}]

LEMMA NumbersInit == Init => NumbersOK
BY NumbersAssumption DEF Init, NumbersOK

LEMMA NumbersNext == RunsOK /\ NumbersOK /\ [Next]_vars => NumbersOK'
<1> SUFFICES ASSUME RunsOK, NumbersOK, [Next]_vars PROVE NumbersOK'
    OBVIOUS
<1>1. ASSUME NEW m \in Messages, NEW c \in Containers, Deliver(m, c)
      PROVE  NumbersOK'
  <2>1. deliveries[m] \in 0..MaxDeliveries /\ deliveries[m] < MaxDeliveries
      BY <1>1 DEF Deliver, NumbersOK
  <2>2. deliveries[m] + 1 \in 0..MaxDeliveries
      BY <2>1, NumbersAssumption
  <2>3. deliveries' \in [Messages -> 0..MaxDeliveries]
      BY <1>1, <2>2 DEF Deliver, Count, NumbersOK
  <2> QED
      BY <1>1, <2>3 DEF Deliver, caches, outcome, ghosts, causes, NumbersOK
<1>2. ASSUME NEW c \in Containers, RunStep(c) PROVE NumbersOK'
  <2>1. run[c].msg \in Messages
    <3>1. run[c] # None
        BY <1>2 DEF RunStep, At, IsEvent, Verify, Dispatch,
           Acknowledge, Decrypt, Resolve, ResolveRaises, Invoke, InvokeFails,
           Answered, AnsweredNothing, UseToken, FetchToken, FetchFails, SendPart,
           Return, HookDies, EventDies
    <3> QED
        BY <3>1 DEF RunsOK, RunOK, Run
  <2>2. CASE Verify(c) \/ Decrypt(c)
    <3>1. creds' \in [Containers -> {"unset", "loaded", "empty"}]
        BY <2>2 DEF Verify, Decrypt, HasKey, NumbersOK
    <3> QED
        BY <2>2, <3>1
           DEF Verify, Decrypt, webhook, outcome, ghosts, causes, NumbersOK
  <2>3. CASE Dispatch(c)
    <3>1. dispatched' = dispatched \/ dispatched' = Count(dispatched, run[c].msg)
        BY <2>3 DEF Dispatch, Accept
    <3>2. dispatched' \in [Messages -> Nat]
        BY <2>1, <3>1, UpByOne DEF NumbersOK
    <3> QED
        BY <2>3, <3>2 DEF Dispatch, webhook, caches, outcome, causes, NumbersOK
  <2>4. CASE Invoke(c)
    <3>1. turns' \in [Messages -> Nat]
        BY <2>1, <2>4, UpByOne DEF Invoke, NumbersOK
    <3> QED
        BY <2>4, <3>1 DEF Invoke, webhook, caches, ghosts, causes, NumbersOK
  <2>5. CASE EventDies(c)
    <3>1. killed' \in [Messages -> Nat]
        BY <2>1, <2>5, UpByOne DEF EventDies, NumbersOK
    <3> QED
        BY <2>5, <3>1 DEF EventDies, Forget, webhook, outcome, causes, NumbersOK
  <2>6. CASE HookDies(c)
      BY <2>6 DEF HookDies, Forget, webhook, outcome, ghosts, causes, NumbersOK
  <2>7. CASE \/ Acknowledge(c) \/ Resolve(c) \/ ResolveRaises(c)
             \/ InvokeFails(c) \/ Answered(c) \/ AnsweredNothing(c)
             \/ UseToken(c) \/ FetchToken(c) \/ FetchFails(c) \/ SendPart(c)
             \/ Return(c)
      BY <2>7 DEF Acknowledge, Resolve, ResolveRaises, InvokeFails, Answered,
         AnsweredNothing, UseToken, FetchToken, FetchFails, SendPart, Return,
         webhook, caches, outcome, ghosts, causes, NumbersOK
  <2> QED
      BY <1>2, <2>2, <2>3, <2>4, <2>5, <2>6, <2>7 DEF RunStep
<1>3. ASSUME NEW m \in Messages, Doubles(m) PROVE NumbersOK'
  <2>1. doubled[m] + 1 \in 0..MaxDoubles
      BY <1>3, NumbersAssumption DEF Doubles, NumbersOK
  <2>2. doubled' \in [Messages -> 0..MaxDoubles]
      BY <1>3, <2>1 DEF Doubles, Count, NumbersOK
  <2> QED
      BY <1>3, <2>2 DEF Doubles, webhook, caches, outcome, causes, NumbersOK
<1>4. CASE \/ \E m \in Messages, c \in Containers : Pick(m, c)
           \/ \E m \in Messages : GivesUp(m)
           \/ \E c \in Containers : Recycle(c)
           \/ Tick \/ UNCHANGED vars
    BY <1>4 DEF Pick, GivesUp, Recycle, Forget, Tick, vars, webhook, caches,
       outcome, ghosts, causes, NumbersOK
<1> QED
    BY <1>1, <1>2, <1>3, <1>4 DEF Next

\* The steps of a run that neither dispatch an event, nor give the agent a
\* message, nor end in another try.
Quiet(c) ==
    \/ Verify(c) \/ Acknowledge(c) \/ Decrypt(c) \/ Resolve(c)
    \/ InvokeFails(c) \/ Answered(c) \/ AnsweredNothing(c) \/ UseToken(c)
    \/ FetchToken(c) \/ FetchFails(c) \/ SendPart(c) \/ Return(c)
    \/ HookDies(c)

LEMMA QuietLive ==
    ASSUME RunsOK, NEW c \in Containers, Quiet(c), NEW n \in Messages,
           NEW S, Counted(S)
    PROVE  /\ Live(n, S)' \subseteq Live(n, S)
           /\ UNCHANGED <<turns, causes>>
<1>1. UNCHANGED <<queue, turns, causes>>
    BY DEF Quiet, Verify, Acknowledge, Decrypt, Resolve, InvokeFails, Answered,
       AnsweredNothing, UseToken, FetchToken, FetchFails, SendPart, Return,
       HookDies, outcome, ghosts
<1>2. run[c] # None /\ run[c] \in Run
    BY DEF Quiet, Verify, Acknowledge, Decrypt, Resolve, InvokeFails, Answered,
       AnsweredNothing, UseToken, FetchToken, FetchFails, SendPart, Return,
       HookDies, At, RunsOK, RunOK
<1>3. CASE SendPart(c)
  <2> DEFINE r(taken) ==
               [run[c] EXCEPT !.left = run[c].left - 1, !.ok = run[c].ok /\ taken,
                  !.step = IF run[c].left = 1 THEN "return" ELSE "send"]
  <2>1. PICK taken \in BOOLEAN : run' = [run EXCEPT ![c] = r(taken)]
      BY <1>3 DEF SendPart
  <2>2. r(taken).msg = run[c].msg
      BY <1>2 DEF Run
  <2>3. r(taken) \in S => run[c] \in S
      BY <1>2 DEF Run, Counted, NotYet, EventRuns
  <2> HIDE DEF r
  <2> QED
      BY <1>1, <1>2, <2>1, <2>2, <2>3, LiveKept
<1>4. CASE \/ Acknowledge(c) \/ Return(c) \/ HookDies(c)
    BY <1>1, <1>4, EndLive DEF Acknowledge, Return, HookDies
<1>5. CASE \/ Verify(c) \/ Decrypt(c) \/ AnsweredNothing(c) \/ FetchFails(c)
           \/ UseToken(c) \/ FetchToken(c)
  <2>1. End(c) \/ \E s \in Steps : Goto(c, s)
      BY <1>5 DEF Verify, Decrypt, AnsweredNothing, FetchFails, UseToken,
         FetchToken, Steps
  <2> QED
      BY <1>1, <1>2, <2>1, EndLive, GotoLive
<1>6. CASE Resolve(c) \/ InvokeFails(c) \/ Answered(c)
  <2>1. 1 \in 1..MaxParts
      BY NumbersAssumption
  <2>2. \/ \E s \in Steps : Goto(c, s)
        \/ \E k \in 1..MaxParts : SendMessage(c, k)
      BY <1>6, <2>1 DEF Resolve, InvokeFails, Answered, Steps
  <2> QED
      BY <1>1, <1>2, <2>2, GotoLive, SendLive
<1> QED
    BY <1>1, <1>3, <1>4, <1>5, <1>6 DEF Quiet

\* An attempt of a hook run: one event more, or none.
LEMMA DispatchLive ==
    ASSUME RunsOK, CountsOK, NEW c \in Containers, Dispatch(c),
           NEW n \in Messages, NEW S, Counted(S)
    PROVE  \/ Live(n, S)' \subseteq Live(n, S) /\ UNCHANGED dispatched
           \/ /\ dispatched' = Count(dispatched, run[c].msg)
              /\ n # run[c].msg => Live(n, S)' \subseteq Live(n, S)
              /\ \E b : Live(n, S)' \subseteq Live(n, S) \cup {b}
<1>1. run[c].msg \in Messages
    BY DispatchShape
<1>2. PICK m \in Messages : m = run[c].msg
    BY <1>1
<1>3. PICK r : /\ run' = [run EXCEPT ![c] = r] /\ r.attempt = 0
               /\ Accept(m) \/ UNCHANGED <<queue, dispatched>>
    BY <1>2, DispatchShape
<1>4. Running(n, S)' \subseteq Running(n, S) \ {<<0, c>>}
  <2>1. r \notin S
      BY <1>3 DEF Counted, NotYet, EventRuns
  <2> QED
      BY <1>3, <2>1, RunningMoves
<1>5. CASE UNCHANGED <<queue, dispatched>>
    BY <1>4, <1>5 DEF Live, Waiting
<1>6. CASE /\ queue' = [queue EXCEPT ![m][1] = @ + 1]
           /\ dispatched' = Count(dispatched, m)
  <2>1. /\ Waiting(n)' \subseteq Waiting(n) \cup {<<1, queue[m][1] + 1>>}
        /\ n # m => Waiting(n)' = Waiting(n)
      BY <1>6, FirstTry, WaitingUp
  <2>2. Live(n, S)' \subseteq Live(n, S) \cup {<<1, queue[m][1] + 1>>}
      BY <1>4, <2>1 DEF Live
  <2>3. n # m => Live(n, S)' \subseteq Live(n, S)
      BY <1>4, <2>1 DEF Live
  <2> QED
      BY <1>2, <1>6, <2>2, <2>3
<1> QED
    BY <1>3, <1>5, <1>6 DEF Accept

\* A step of Lark, of the clock or of an idle container.
Outside ==
    \/ \E m \in Messages, c \in Containers : Deliver(m, c)
    \/ \E m \in Messages : GivesUp(m)
    \/ \E c \in Containers : Recycle(c)
    \/ Tick \/ UNCHANGED vars

LEMMA OutsideLive ==
    ASSUME RunsOK, Outside, NEW n \in Messages, NEW S, Counted(S)
    PROVE  /\ Live(n, S)' \subseteq Live(n, S)
           /\ UNCHANGED <<turns, causes>>
<1>1. UNCHANGED <<queue, turns, causes>>
    BY DEF Outside, Deliver, GivesUp, Recycle, Tick, vars, outcome, ghosts
<1>2. ASSUME NEW m \in Messages, NEW c \in Containers, Deliver(m, c)
      PROVE  Live(n, S)' \subseteq Live(n, S)
  <2> DEFINE r == NewRun(m, "verify", 0)
  <2>1. run' = [run EXCEPT ![c] = r] /\ r \notin S
      BY <1>2 DEF Deliver, NewRun, Counted, NotYet, EventRuns
  <2> HIDE DEF r
  <2> QED
      BY <1>1, <2>1, LiveKept
<1>3. CASE run' = run
    BY <1>1, <1>3 DEF Live, Waiting, Running
<1>4. CASE Tick
  <2>1. \A c \in Containers :
          IF run[c] = None THEN run'[c] = None
          ELSE run'[c].msg = run[c].msg /\ (run'[c] \in S => run[c] \in S)
    <3>1. \A c \in Containers : run[c] = None => run'[c] = None
        BY <1>4 DEF Tick, InSend, At
    <3>2. \A c \in Containers : run[c] # None => run[c] \in Run
        BY DEF RunsOK, RunOK
    <3> QED
        BY <1>4, <3>1, <3>2, TickShape DEF Counted, NotYet, EventRuns
  <2>2. Running(n, S)' \subseteq Running(n, S)
      BY <2>1 DEF Running
  <2> QED
      BY <1>1, <2>2 DEF Live, Waiting
<1> QED
    BY <1>1, <1>2, <1>3, <1>4 DEF Outside, GivesUp, Recycle, vars

\* What a step may add to the events of message n that are still to come or to
\* be run, and what accounts for it.
LEMMA LiveStep ==
    ASSUME RunsOK, CountsOK, NumbersOK, [Next]_vars, NEW n \in Messages,
           NEW S, Counted(S), IsFiniteSet(Live(n, S))
    PROVE  /\ IsFiniteSet(Live(n, S)')
           /\ Cardinality(Live(n, S)') \in Nat /\ Cardinality(Live(n, S)) \in Nat
           /\ S = EventRuns =>
                Cardinality(Live(n, S)') + Events(n)
                   <= Cardinality(Live(n, S)) + Events(n)'
           /\ S = NotYet =>
                (turns'[n] + Cardinality(Live(n, S)')) + (Events(n) + killed[n])
                   <= (turns[n] + Cardinality(Live(n, S))) + (Events(n)' + killed'[n])
<1> DEFINE A == Live(n, S)
           B == Live(n, S)'
<1>0. /\ turns[n] \in Nat /\ dispatched[n] \in Nat /\ doubled[n] \in Nat
      /\ killed[n] \in Nat /\ Events(n) \in Nat /\ Cardinality(A) \in Nat
    BY FS_CardinalityType, NumbersAssumption DEF NumbersOK, Events
<1> SUFFICES
      /\ IsFiniteSet(B) /\ Cardinality(B) \in Nat
      /\ S = EventRuns =>
           Cardinality(B) + Events(n) <= Cardinality(A) + Events(n)'
      /\ S = NotYet =>
           (turns'[n] + Cardinality(B)) + (Events(n) + killed[n])
              <= (turns[n] + Cardinality(A)) + (Events(n)' + killed'[n])
    BY <1>0
<1>1. CASE /\ UNCHANGED <<turns, causes>>
           /\ IsFiniteSet(B) /\ Cardinality(B) \in Nat
           /\ Cardinality(B) <= Cardinality(A)
  <2>1. Events(n)' = Events(n)
      BY <1>1 DEF Events, causes
  <2> QED
      BY <1>0, <1>1, <2>1 DEF causes
<1>2. CASE Outside \/ \E c \in Containers : Quiet(c)
  <2>1. B \subseteq A /\ UNCHANGED <<turns, causes>>
      BY <1>2, OutsideLive, QuietLive
  <2>2. IsFiniteSet(B) /\ Cardinality(B) \in Nat /\ Cardinality(B) <= Cardinality(A)
      BY <2>1, NoMore
  <2> QED
      BY <1>1, <2>1, <2>2
<1>3. ASSUME NEW m \in Messages, NEW c \in Containers, Pick(m, c)
      PROVE  /\ UNCHANGED <<turns, causes>>
             /\ IsFiniteSet(B) /\ Cardinality(B) \in Nat
             /\ Cardinality(B) <= Cardinality(A)
  <2>1. UNCHANGED <<turns, causes>>
      BY <1>3 DEF Pick, outcome, ghosts
  <2>2. \/ B \subseteq A
        \/ \E a \in A : B \subseteq (A \ {a}) \cup {<<0, c>>}
      BY <1>3, PickLive
  <2>3. IsFiniteSet(B) /\ Cardinality(B) \in Nat /\ Cardinality(B) <= Cardinality(A)
      BY <2>2, NoMore, OneForAnother
  <2> QED
      BY <2>1, <2>3
<1>4. ASSUME UNCHANGED <<turns, killed>>,
             \/ B \subseteq A /\ Events(n)' = Events(n)
             \/ (\E x : B \subseteq A \cup {x}) /\ Events(n)' = Events(n) + 1
      PROVE  /\ UNCHANGED <<turns, killed>> /\ Events(n)' \in Nat
             /\ IsFiniteSet(B) /\ Cardinality(B) \in Nat
             /\ Cardinality(B) + Events(n) <= Cardinality(A) + Events(n)'
  <2>1. CASE B \subseteq A /\ Events(n)' = Events(n)
    <3>1. IsFiniteSet(B) /\ Cardinality(B) \in Nat /\ Cardinality(B) <= Cardinality(A)
        BY <2>1, NoMore
    <3> QED
        BY <1>0, <1>4, <2>1, <3>1
  <2>2. CASE (\E x : B \subseteq A \cup {x}) /\ Events(n)' = Events(n) + 1
    <3>1. IsFiniteSet(B) /\ Cardinality(B) \in Nat
          /\ Cardinality(B) <= Cardinality(A) + 1
        BY <2>2, OneMore
    <3> QED
        BY <1>0, <1>4, <2>2, <3>1
  <2> QED
      BY <1>4, <2>1, <2>2
<1>12. ASSUME NEW c \in Containers, Dispatch(c)
       PROVE  /\ UNCHANGED <<turns, killed>> /\ Events(n)' \in Nat
              /\ IsFiniteSet(B) /\ Cardinality(B) \in Nat
              /\ Cardinality(B) + Events(n) <= Cardinality(A) + Events(n)'
  <2>1. run[c].msg \in Messages
      BY <1>12, DispatchShape
  <2>2. UNCHANGED <<turns, doubled, killed>>
      BY <1>12 DEF Dispatch, outcome
  <2>3. CASE B \subseteq A /\ UNCHANGED dispatched
    <3>1. Events(n)' = Events(n)
        BY <2>2, <2>3 DEF Events
    <3> QED
        BY <1>0, <1>4, <2>1, <2>2, <2>3, <3>1
  <2>4. CASE /\ dispatched' = Count(dispatched, run[c].msg)
             /\ n # run[c].msg => B \subseteq A
             /\ \E x : B \subseteq A \cup {x}
    <3>1. dispatched'[n] = IF n = run[c].msg THEN dispatched[n] + 1 ELSE dispatched[n]
        BY <2>1, <2>4, UpByOne DEF NumbersOK
    <3>2. Events(n)' = IF n = run[c].msg THEN Events(n) + 1 ELSE Events(n)
        BY <1>0, <2>2, <3>1 DEF Events
    <3> QED
        BY <1>0, <1>4, <2>1, <2>2, <2>4, <3>2
  <2> QED
      BY <1>12, <2>3, <2>4, DispatchLive
<1>13. ASSUME NEW m \in Messages, Doubles(m)
       PROVE  /\ UNCHANGED <<turns, killed>> /\ Events(n)' \in Nat
              /\ IsFiniteSet(B) /\ Cardinality(B) \in Nat
              /\ Cardinality(B) + Events(n) <= Cardinality(A) + Events(n)'
  <2>1. PICK k \in Tries : queue' = [queue EXCEPT ![m][k] = @ + 1]
      BY <1>13 DEF Doubles
  <2>2. /\ UNCHANGED <<run, turns, dispatched, killed>>
        /\ doubled' = Count(doubled, m)
      BY <1>13 DEF Doubles, outcome
  <2>3. Running(n, S)' = Running(n, S)
      BY <2>2 DEF Running
  <2>4. /\ Waiting(n)' \subseteq Waiting(n) \cup {<<k, queue[m][k] + 1>>}
        /\ n # m => Waiting(n)' = Waiting(n)
      BY <2>1, WaitingUp
  <2>5. /\ B \subseteq A \cup {<<k, queue[m][k] + 1>>}
        /\ n # m => B \subseteq A
      BY <2>3, <2>4 DEF Live
  <2>6. doubled'[n] = IF n = m THEN doubled[n] + 1 ELSE doubled[n]
      BY <2>2 DEF Count, NumbersOK
  <2>7. Events(n)' = IF n = m THEN Events(n) + 1 ELSE Events(n)
      BY <1>0, <2>2, <2>6 DEF Events
  <2> QED
      BY <1>0, <1>4, <2>2, <2>5, <2>7
<1>5. ASSUME NEW c \in Containers, Invoke(c)
      PROVE  /\ Events(n)' = Events(n) /\ UNCHANGED killed /\ turns'[n] \in Nat
             /\ IsFiniteSet(B) /\ Cardinality(B) \in Nat
             /\ S = EventRuns => Cardinality(B) <= Cardinality(A)
             /\ S = NotYet => turns'[n] + Cardinality(B) <= turns[n] + Cardinality(A)
  <2>1. /\ UNCHANGED <<queue, dispatched, doubled, killed>>
        /\ turns' = Count(turns, run[c].msg)
      BY <1>5 DEF Invoke, ghosts, causes
  <2>2. /\ run[c] # None /\ RunOK(run[c]) /\ run[c].step = "invoke"
        /\ run[c].msg \in Messages
      BY <1>5, InvokeShape
  <2>3. PICK r : /\ run' = [run EXCEPT ![c] = r] /\ r.msg = run[c].msg /\ r.handed
      BY <1>5, InvokeShape
  <2>4. run[c] \in S
      BY <2>2 DEF RunOK, HookSteps, FreshSteps, Counted, NotYet, EventRuns
  <2>5. Events(n)' = Events(n)
      BY <2>1 DEF Events
  <2>6. IsFiniteSet(B) /\ Cardinality(B) \in Nat /\ Cardinality(B) <= Cardinality(A)
    <3>1. B \subseteq A
        BY <2>1, <2>2, <2>3, <2>4, LiveKept
    <3> QED
        BY <3>1, NoMore
  <2>7. turns'[n] = IF n = run[c].msg THEN turns[n] + 1 ELSE turns[n]
      BY <2>1, <2>2, UpByOne DEF NumbersOK
  <2>8. CASE n # run[c].msg
      BY <1>0, <2>1, <2>5, <2>6, <2>7, <2>8
  <2>9. CASE n = run[c].msg /\ S = NotYet
    <3>1. r \notin S
        BY <2>3, <2>9 DEF NotYet
    <3>2. /\ Running(n, S)' \subseteq Running(n, S) \ {<<0, c>>}
          /\ <<0, c>> \in Running(n, S)
        BY <2>2, <2>3, <2>4, <2>9, <3>1, RunningMoves
    <3>3. <<0, c>> \notin Waiting(n)
        BY NumbersAssumption DEF Waiting, Tries
    <3>4. <<0, c>> \in A /\ B \subseteq A \ {<<0, c>>}
        BY <2>1, <3>2, <3>3 DEF Live, Waiting
    <3>5. Cardinality(B) + 1 <= Cardinality(A)
        BY <3>4, OneLess
    <3> QED
        BY <1>0, <2>1, <2>5, <2>6, <2>7, <2>9, <3>5
  <2>10. CASE S = EventRuns
    <3>1. turns'[n] \in Nat
        BY <1>0, <2>7
    <3>2. S # NotYet \/ n # run[c].msg \/ S = NotYet
        OBVIOUS
    <3> QED
        BY <2>1, <2>5, <2>6, <2>8, <2>9, <2>10, <3>1
  <2> QED
      BY <2>8, <2>9, <2>10 DEF Counted
<1>6. ASSUME NEW c \in Containers, ResolveRaises(c) \/ EventDies(c)
      PROVE  /\ UNCHANGED turns /\ Events(n)' = Events(n) /\ killed'[n] \in Nat
             /\ IsFiniteSet(B) /\ Cardinality(B) \in Nat
             /\ S = EventRuns => Cardinality(B) <= Cardinality(A)
             /\ S = NotYet => Cardinality(B) + killed[n] <= Cardinality(A) + killed'[n]
  <2>1. /\ UNCHANGED <<turns, dispatched, doubled>> /\ Retry(run[c]) /\ End(c)
        /\ run[c] # None /\ run[c] \in Run /\ run[c].attempt # 0
        /\ run[c].msg \in Messages /\ run[c] \in EventRuns
      BY <1>6 DEF ResolveRaises, EventDies, IsEvent, outcome, causes, At, RunsOK,
         RunOK, Run, HookSteps, EventRuns
  <2>0. Events(n)' = Events(n)
      BY <2>1 DEF Events
  <2>2. \/ B \subseteq A
        \/ run[c].msg = n /\ \E b : B \subseteq (A \ {<<0, c>>}) \cup {b}
      BY <2>1, RetryLive
  <2>3. CASE B \subseteq A \/ run[c] \in S
    <3>1. run[c].msg = n /\ run[c] \in S => <<0, c>> \in A
        BY <2>1 DEF Running, Live
    <3>2. IsFiniteSet(B) /\ Cardinality(B) \in Nat /\ Cardinality(B) <= Cardinality(A)
      <4>1. CASE B \subseteq A
          BY <4>1, NoMore
      <4>2. ASSUME NEW b, <<0, c>> \in A, B \subseteq (A \ {<<0, c>>}) \cup {b}
            PROVE  /\ IsFiniteSet(B) /\ Cardinality(B) \in Nat
                   /\ Cardinality(B) <= Cardinality(A)
        <5>1. IsFiniteSet(A)
            OBVIOUS
        <5> HIDE DEF A, B
        <5> QED
            BY <4>2, <5>1, OneForAnother
      <4> QED
          BY <2>2, <2>3, <3>1, <4>1, <4>2
    <3>3. killed'[n] \in Nat /\ killed[n] <= killed'[n]
      <4>1. killed' = killed \/ killed' = Count(killed, run[c].msg)
          BY <1>6 DEF ResolveRaises, EventDies, causes
      <4>2. CASE killed' = killed
          BY <1>0, <4>2
      <4>3. CASE killed' = Count(killed, run[c].msg)
        <5>1. killed'[n] = IF n = run[c].msg THEN killed[n] + 1 ELSE killed[n]
            BY <2>1, <4>3, UpByOne DEF NumbersOK
        <5> QED
            BY <1>0, <5>1
      <4> QED
          BY <4>1, <4>2, <4>3
    <3> QED
        BY <1>0, <2>0, <2>1, <3>2, <3>3
  <2>4. CASE run[c].msg = n /\ run[c] \notin S
             /\ \E b : B \subseteq (A \ {<<0, c>>}) \cup {b}
    <3>1. S = NotYet /\ run[c].handed
        BY <2>1, <2>4 DEF Counted, NotYet
    <3>2. EventDies(c)
        BY <1>6, <2>1, <3>1 DEF ResolveRaises, At, RunsOK, RunOK, FreshSteps
    <3>3. killed'[n] = killed[n] + 1
        BY <2>1, <2>4, <3>1, <3>2, UpByOne DEF EventDies, NumbersOK
    <3>4. \E b : B \subseteq A \cup {b}
        BY <2>4
    <3>5. IsFiniteSet(B) /\ Cardinality(B) \in Nat
          /\ Cardinality(B) <= Cardinality(A) + 1
        BY <3>4, OneMore
    <3>6. S # EventRuns
        BY <2>1, <2>4
    <3> QED
        BY <1>0, <2>0, <2>1, <3>3, <3>5, <3>6
  <2> QED
      BY <2>2, <2>3, <2>4
<1> HIDE DEF A, B
<1>7. CASE \E m \in Messages, c \in Containers : Pick(m, c)
    BY <1>1, <1>3, <1>7
<1>8. CASE \/ \E c \in Containers : Dispatch(c)
           \/ \E m \in Messages : Doubles(m)
    BY <1>0, <1>8, <1>12, <1>13
<1>9. CASE \E c \in Containers : Invoke(c)
    BY <1>0, <1>5, <1>9
<1>10. CASE \E c \in Containers : ResolveRaises(c) \/ EventDies(c)
    BY <1>0, <1>6, <1>10
<1>11. \/ Outside \/ \E c \in Containers : Quiet(c)
       \/ \E m \in Messages, c \in Containers : Pick(m, c)
       \/ \E m \in Messages : Doubles(m)
       \/ \E c \in Containers : Dispatch(c)
       \/ \E c \in Containers : Invoke(c)
       \/ \E c \in Containers : ResolveRaises(c) \/ EventDies(c)
    BY DEF Next, RunStep, Outside, Quiet
<1> QED
    BY <1>2, <1>7, <1>8, <1>9, <1>10, <1>11

\* An event that waits or is being run was accepted by Lambda or is a double.
Backed ==
    \A m \in Messages :
        /\ IsFiniteSet(Live(m, EventRuns))
        /\ Cardinality(Live(m, EventRuns)) <= Events(m)

\* Each turn the agent has had, and each event that may still give it one, is an
\* event that was accepted, a double, or a run that died after the agent had the
\* message.
Caused ==
    \A m \in Messages :
        /\ IsFiniteSet(Live(m, NotYet))
        /\ turns[m] + Cardinality(Live(m, NotYet)) <= Events(m) + killed[m]

\* Each event that was accepted, and each attempt that a hook run may still make,
\* is one of the attempts of a delivery.
Delivered ==
    \A m \in Messages :
        /\ IsFiniteSet(ToCome(m))
        /\ dispatched[m] + Cardinality(ToCome(m)) <= MaxAttempts * deliveries[m]

CountInv == RunsOK /\ CountsOK /\ NumbersOK /\ Backed /\ Caused /\ Delivered

LEMMA CountInit == Init => CountInv
<1> SUFFICES ASSUME Init PROVE CountInv
    OBVIOUS
<1>1. RunsOK /\ CountsOK /\ NumbersOK
    BY RunsInit, NumbersInit, AckInit DEF AckInv
<1>2. ASSUME NEW A, A = {} PROVE IsFiniteSet(A) /\ Cardinality(A) = 0
    BY <1>2, FS_EmptySet, Zenon
<1>3. ASSUME NEW m \in Messages, NEW S
      PROVE  Live(m, S) = {} /\ ToCome(m) = {}
  <2>1. Running(m, S) = {} /\ ToCome(m) = {}
      BY DEF Init, Running, ToCome
  <2>2. Waiting(m) = {}
      BY DEF Init, Waiting
  <2> QED
      BY <2>1, <2>2 DEF Live
<1>4. ASSUME NEW m \in Messages
      PROVE  /\ IsFiniteSet(Live(m, EventRuns)) /\ IsFiniteSet(Live(m, NotYet))
             /\ IsFiniteSet(ToCome(m))
             /\ Cardinality(Live(m, EventRuns)) = 0
             /\ Cardinality(Live(m, NotYet)) = 0
             /\ Cardinality(ToCome(m)) = 0
    BY <1>2, <1>3, Zenon
<1>5. \A m \in Messages : turns[m] = 0 /\ Events(m) = 0 /\ killed[m] = 0
                          /\ dispatched[m] = 0 /\ MaxAttempts * deliveries[m] = 0
  <2>1. MaxAttempts * 0 = 0
      BY NumbersAssumption
  <2>2. \A m \in Messages : turns[m] = 0 /\ dispatched[m] = 0 /\ doubled[m] = 0
                            /\ killed[m] = 0 /\ deliveries[m] = 0
      BY DEF Init
  <2>3. \A m \in Messages : MaxAttempts * deliveries[m] = 0
      BY <2>1, <2>2, Zenon
  <2>4. ASSUME NEW m \in Messages PROVE Events(m) = 0
    <3>1. dispatched[m] = 0 /\ doubled[m] = 0
        BY <2>2
    <3> QED
        BY <3>1 DEF Events
  <2> QED
      BY <2>2, <2>3, <2>4
<1> QED
    BY <1>1, <1>4, <1>5 DEF CountInv, Backed, Caused, Delivered

\* Container c goes on with r: what it may still try is what r may.
LEMMA ToComeMoves ==
    ASSUME RunsOK, NEW c \in Containers, NEW r, run' = [run EXCEPT ![c] = r],
           NEW n \in Messages
    PROVE  \A p \in ToCome(n)' :
             /\ p \in Containers \X (1..MaxAttempts)
             /\ \/ p[1] # c /\ p \in ToCome(n)
                \/ /\ p[1] = c /\ r # None /\ r.msg = n
                   /\ r.step \in {"verify", "dispatch"} /\ r.calls < p[2]
<1> SUFFICES ASSUME NEW p \in ToCome(n)'
             PROVE  /\ p \in Containers \X (1..MaxAttempts)
                    /\ \/ p[1] # c /\ p \in ToCome(n)
                       \/ /\ p[1] = c /\ r # None /\ r.msg = n
                          /\ r.step \in {"verify", "dispatch"} /\ r.calls < p[2]
    OBVIOUS
<1>1. run'[c] = r /\ \A d \in Containers : d # c => run'[d] = run[d]
    BY DEF RunsOK
<1>2. /\ p \in Containers \X (1..MaxAttempts)
      /\ run'[p[1]] # None /\ run'[p[1]].msg = n
      /\ run'[p[1]].step \in {"verify", "dispatch"} /\ run'[p[1]].calls < p[2]
    BY DEF ToCome
<1>3. p[1] \in Containers
    BY <1>2
<1>4. CASE p[1] = c
    BY <1>1, <1>2, <1>4
<1>5. CASE p[1] # c
    BY <1>1, <1>2, <1>3, <1>5 DEF ToCome
<1> QED
    BY <1>2, <1>4, <1>5

\* Nothing more to try for a run that is not at these steps, or that has only
\* passed from the one to the other.
LEMMA ToComeKept ==
    ASSUME RunsOK, NEW c \in Containers, NEW r, run' = [run EXCEPT ![c] = r],
           \/ r = None
           \/ r.step \notin {"verify", "dispatch"}
           \/ /\ run[c] # None /\ run[c].step \in {"verify", "dispatch"}
              /\ r.msg = run[c].msg /\ r.calls = run[c].calls,
           NEW n \in Messages
    PROVE  ToCome(n)' \subseteq ToCome(n)
<1> SUFFICES ASSUME NEW p \in ToCome(n)' PROVE p \in ToCome(n)
    OBVIOUS
<1> QED
    BY ToComeMoves DEF ToCome

\* The attempts of one run.
LEMMA AttemptsOfOne ==
    ASSUME NEW c
    PROVE  /\ IsFiniteSet({c} \X (1..MaxAttempts))
           /\ Cardinality({c} \X (1..MaxAttempts)) = MaxAttempts
<1>1. IsFiniteSet({c}) /\ Cardinality({c}) = 1
    BY FS_Singleton
<1>2. IsFiniteSet(1..MaxAttempts) /\ Cardinality(1..MaxAttempts) = MaxAttempts
    BY FS_Interval, NumbersAssumption
<1> DEFINE A == {c}
           B == 1..MaxAttempts
<1> HIDE DEF A, B
<1>3. IsFiniteSet(A \X B) /\ Cardinality(A \X B) = Cardinality(A) * Cardinality(B)
  <2>1. IsFiniteSet(A) /\ IsFiniteSet(B)
      BY <1>1, <1>2 DEF A, B
  <2> QED
      BY <2>1, FS_Product, Zenon
<1>4. Cardinality(A) = 1 /\ Cardinality(B) = MaxAttempts
    BY <1>1, <1>2 DEF A, B
<1>5. IsFiniteSet(A \X B) /\ Cardinality(A \X B) = MaxAttempts
    BY <1>3, <1>4, NumbersAssumption
<1> QED
    BY <1>5 DEF A, B

LEMMA ManyMore ==
    ASSUME NEW A, IsFiniteSet(A), NEW D, IsFiniteSet(D), NEW B, B \subseteq A \cup D
    PROVE  /\ IsFiniteSet(B)
           /\ Cardinality(B) \in Nat /\ Cardinality(A) \in Nat /\ Cardinality(D) \in Nat
           /\ Cardinality(B) <= Cardinality(A) + Cardinality(D)
<1>1. /\ Cardinality(A) \in Nat /\ Cardinality(D) \in Nat
      /\ Cardinality(A \cap D) \in Nat
    BY FS_CardinalityType, FS_Intersection
<1>2. /\ IsFiniteSet(A \cup D)
      /\ Cardinality(A \cup D) = Cardinality(A) + Cardinality(D) - Cardinality(A \cap D)
    BY FS_Union
<1>3. /\ IsFiniteSet(B) /\ Cardinality(B) \in Nat
      /\ Cardinality(B) <= Cardinality(A \cup D)
    BY <1>2, NoMore
<1> QED
    BY <1>1, <1>2, <1>3

\* One delivery more is so many attempts more, and more deliveries are more.
LEMMA Times ==
    ASSUME NEW a \in Nat, NEW d \in Nat, NEW e \in Nat, d <= e
    PROVE  /\ a * d \in Nat /\ a * e \in Nat
           /\ a * (d + 1) = a * d + a
           /\ a * d <= a * e
<1>1. PICK k \in Nat : e = d + k
  <2>1. e - d \in Nat /\ e = d + (e - d)
      OBVIOUS
  <2> QED
      BY <2>1
<1>2. a * e = a * d + a * k /\ a * k \in Nat /\ a * d \in Nat
    BY <1>1
<1>3. a * (d + 1) = a * d + a
    OBVIOUS
<1> QED
    BY <1>2, <1>3

LEMMA DeliveredNext == CountInv /\ [Next]_vars => Delivered'
<1> SUFFICES ASSUME CountInv, [Next]_vars, NEW n \in Messages
             PROVE  /\ IsFiniteSet(ToCome(n)')
                    /\ dispatched'[n] + Cardinality(ToCome(n)')
                         <= MaxAttempts * deliveries'[n]
    BY DEF Delivered
<1> DEFINE A == ToCome(n)
           B == ToCome(n)'
<1>0. /\ RunsOK /\ NumbersOK
      /\ deliveries[n] \in Nat /\ dispatched[n] \in Nat
      /\ IsFiniteSet(A) /\ Cardinality(A) \in Nat
      /\ MaxAttempts \in Nat /\ MaxAttempts * deliveries[n] \in Nat
      /\ dispatched[n] + Cardinality(A) <= MaxAttempts * deliveries[n]
    BY NumbersAssumption, FS_CardinalityType, Times
       DEF CountInv, NumbersOK, Delivered
<1>1. CASE B \subseteq A /\ UNCHANGED <<deliveries, dispatched>>
  <2>1. IsFiniteSet(B) /\ Cardinality(B) \in Nat /\ Cardinality(B) <= Cardinality(A)
      BY <1>0, <1>1, NoMore
  <2> QED
      BY <1>0, <1>1, <2>1
<1>2. ASSUME NEW m \in Messages, NEW c \in Containers, Deliver(m, c)
      PROVE  /\ IsFiniteSet(B)
             /\ dispatched'[n] + Cardinality(B) <= MaxAttempts * deliveries'[n]
  <2> DEFINE r == NewRun(m, "verify", 0)
  <2>1. /\ run' = [run EXCEPT ![c] = r] /\ r.msg = m
        /\ deliveries' = Count(deliveries, m) /\ dispatched' = dispatched
      BY <1>2 DEF Deliver, NewRun, ghosts, causes
  <2> HIDE DEF r
  <2>2. ASSUME NEW p \in B
        PROVE  p \in A \/ (n = m /\ p \in {c} \X (1..MaxAttempts))
    <3>1. /\ p \in Containers \X (1..MaxAttempts)
          /\ p \in A \/ (p[1] = c /\ n = m)
        BY <1>0, <2>1, <2>2, ToComeMoves
    <3> QED
        BY <3>1
  <2>3. deliveries'[n] = IF n = m THEN deliveries[n] + 1 ELSE deliveries[n]
      BY <2>1 DEF Count, CountInv, NumbersOK
  <2>4. CASE n = m
    <3> DEFINE D == {c} \X (1..MaxAttempts)
    <3>1. IsFiniteSet(D) /\ Cardinality(D) = MaxAttempts
        BY AttemptsOfOne
    <3>2. B \subseteq A \cup D
        BY <2>2
    <3> HIDE DEF A, B, D
    <3>3. /\ IsFiniteSet(B) /\ Cardinality(B) \in Nat
          /\ Cardinality(B) <= Cardinality(A) + MaxAttempts
        BY <1>0, <3>1, <3>2, ManyMore
    <3>4. MaxAttempts * deliveries'[n] = MaxAttempts * deliveries[n] + MaxAttempts
        BY <1>0, <2>3, <2>4, Times
    <3> QED
        BY <1>0, <2>1, <3>3, <3>4
  <2>5. CASE n # m
      BY <1>1, <2>1, <2>2, <2>3, <2>5, <1>0, NoMore
  <2> QED
      BY <2>4, <2>5
<1>3. ASSUME NEW c \in Containers, Dispatch(c)
      PROVE  /\ IsFiniteSet(B)
             /\ dispatched'[n] + Cardinality(B) <= MaxAttempts * deliveries'[n]
  <2> DEFINE a == <<c, run[c].calls + 1>>
  <2>1. /\ run[c] # None /\ run[c].step = "dispatch" /\ RunOK(run[c])
        /\ run[c].msg \in Messages /\ run[c].calls + 1 \in 1..MaxAttempts
      BY <1>0, <1>3, DispatchShape
  <2>2. PICK r : /\ run' = [run EXCEPT ![c] = r]
                 /\ r.msg = run[c].msg /\ r.calls = run[c].calls + 1
                 /\ Accept(run[c].msg) \/ UNCHANGED dispatched
      BY <1>0, <1>3, DispatchShape
  <2>3. /\ deliveries' = deliveries
        /\ dispatched' = dispatched \/ dispatched' = Count(dispatched, run[c].msg)
      BY <1>3, <2>2 DEF Dispatch, Accept, webhook
  <2>4. run[c].calls \in Nat
      BY <2>1, NumbersAssumption DEF RunOK, Run
  <2>5. ASSUME NEW p \in B
        PROVE  /\ p \in Containers \X (1..MaxAttempts)
               /\ \/ p[1] # c /\ p \in A
                  \/ p[1] = c /\ run[c].msg = n /\ run[c].calls + 1 < p[2]
    <3>1. run' = [run EXCEPT ![c] = r] /\ RunsOK
        BY <1>0, <2>2
    <3>2. /\ p \in Containers \X (1..MaxAttempts)
          /\ (p[1] # c /\ p \in A) \/ (p[1] = c /\ r.msg = n /\ r.calls < p[2])
        BY <2>5, <3>1, ToComeMoves
    <3> QED
        BY <2>2, <3>2
  <2>6. CASE run[c].msg = n
    <3>1. a \in A
        BY <2>1, <2>4, <2>6 DEF ToCome
    <3>2. ASSUME NEW p \in B PROVE p \in A /\ p # a
      <4>1. /\ p \in Containers \X (1..MaxAttempts)
            /\ \/ p[1] # c /\ p \in A
               \/ p[1] = c /\ run[c].calls + 1 < p[2]
          BY <2>5, <3>2
      <4>2. CASE p[1] # c /\ p \in A
          BY <4>2
      <4>3. CASE p[1] = c /\ run[c].calls + 1 < p[2]
        <5>1. p[2] \in Nat /\ run[c].calls < p[2] /\ p # a
            BY <2>4, <4>1, <4>3, NumbersAssumption
        <5> QED
            BY <2>1, <2>6, <4>1, <4>3, <5>1 DEF ToCome
      <4> QED
          BY <4>1, <4>2, <4>3
    <3> HIDE DEF A, B, a
    <3>3. IsFiniteSet(B) /\ Cardinality(B) \in Nat
          /\ Cardinality(B) + 1 <= Cardinality(A)
        BY <1>0, <3>1, <3>2, OneLess
    <3>4. dispatched'[n] = dispatched[n] \/ dispatched'[n] = dispatched[n] + 1
        BY <1>0, <2>1, <2>3, <2>6, UpByOne DEF NumbersOK
    <3> QED
        BY <1>0, <2>3, <3>3, <3>4
  <2>7. CASE run[c].msg # n
    <3>1. B \subseteq A
        BY <2>7, <2>5
    <3>2. IsFiniteSet(B) /\ Cardinality(B) \in Nat /\ Cardinality(B) <= Cardinality(A)
        BY <1>0, <3>1, NoMore
    <3>3. dispatched'[n] = dispatched[n]
        BY <1>0, <2>1, <2>3, <2>7, UpByOne DEF NumbersOK
    <3> QED
        BY <1>0, <2>3, <3>2, <3>3
  <2> QED
      BY <2>6, <2>7
<1>4. ASSUME NEW m \in Messages, NEW c \in Containers, Pick(m, c)
      PROVE  B \subseteq A /\ UNCHANGED <<deliveries, dispatched>>
  <2>1. PICK k \in Tries : run' = [run EXCEPT ![c] = NewRun(m, "decrypt", k)]
      BY <1>4 DEF Pick
  <2> DEFINE r == NewRun(m, "decrypt", k)
  <2>2. run' = [run EXCEPT ![c] = r] /\ r.step \notin {"verify", "dispatch"}
      BY <2>1 DEF NewRun
  <2> HIDE DEF r
  <2>3. B \subseteq A
      BY <1>0, <2>2, ToComeKept
  <2> QED
      BY <1>4, <2>3 DEF Pick, webhook, ghosts, causes
<1>5. ASSUME NEW c \in Containers, RunStep(c), ~Dispatch(c)
      PROVE  B \subseteq A /\ UNCHANGED <<deliveries, dispatched>>
  <2>1. UNCHANGED <<deliveries, dispatched>>
      BY <1>5 DEF RunStep, Verify, Acknowledge, Decrypt, Resolve, ResolveRaises,
         Invoke, InvokeFails, Answered, AnsweredNothing, UseToken, FetchToken,
         FetchFails, SendPart, Return, HookDies, EventDies, webhook, outcome,
         ghosts, causes
  <2>2. run[c] # None /\ run[c] \in Run
      BY <1>0, <1>5 DEF RunStep, Verify, Acknowledge, Decrypt, Resolve,
         ResolveRaises, Invoke, InvokeFails, Answered, AnsweredNothing, UseToken,
         FetchToken, FetchFails, SendPart, Return, HookDies, EventDies, At,
         IsEvent, RunsOK, RunOK
  <2>3. CASE End(c)
      BY <1>0, <2>1, <2>3, ToComeKept DEF End
  <2>4. ASSUME NEW s, Goto(c, s), s = "dispatch" => run[c].step = "verify",
               s # "verify"
        PROVE  B \subseteq A
    <3> DEFINE r == [run[c] EXCEPT !.step = s]
    <3>1. /\ r.msg = run[c].msg /\ r.step = s /\ r.calls = run[c].calls
          /\ run' = [run EXCEPT ![c] = r]
        BY <2>2, <2>4 DEF Goto, Run
    <3> HIDE DEF r
    <3>2. CASE s = "dispatch"
        BY <1>0, <2>2, <2>4, <3>1, <3>2, ToComeKept
    <3>3. CASE s # "dispatch"
        BY <1>0, <2>4, <3>1, <3>3, ToComeKept
    <3> QED
        BY <3>2, <3>3
  <2>5. ASSUME NEW k, SendMessage(c, k)
        PROVE  B \subseteq A
    <3> DEFINE r == [run[c] EXCEPT !.step = "token", !.left = k]
    <3>1. r.step \notin {"verify", "dispatch"} /\ run' = [run EXCEPT ![c] = r]
        BY <2>2, <2>5 DEF SendMessage, Run
    <3> HIDE DEF r
    <3> QED
        BY <1>0, <3>1, ToComeKept
  <2>6. CASE SendPart(c)
    <3> DEFINE r(taken) ==
                 [run[c] EXCEPT !.left = run[c].left - 1, !.ok = run[c].ok /\ taken,
                    !.step = IF run[c].left = 1 THEN "return" ELSE "send"]
    <3>1. PICK taken \in BOOLEAN : run' = [run EXCEPT ![c] = r(taken)]
        BY <2>6 DEF SendPart
    <3>2. r(taken).step \notin {"verify", "dispatch"}
        BY <2>2 DEF Run
    <3> HIDE DEF r
    <3> QED
        BY <1>0, <2>1, <3>1, <3>2, ToComeKept
  <2>7. CASE Invoke(c)
    <3>1. PICK r : run' = [run EXCEPT ![c] = r] /\ r.step = "await"
        BY <1>0, <2>7, InvokeShape
    <3> QED
        BY <1>0, <2>1, <3>1, ToComeKept
  <2>8. \/ End(c) \/ SendPart(c) \/ Invoke(c) \/ \E k : SendMessage(c, k)
        \/ \E s : /\ Goto(c, s) /\ (s = "dispatch" => run[c].step = "verify")
                  /\ s # "verify"
      BY <1>5 DEF RunStep, Verify, Acknowledge, Decrypt, Resolve, ResolveRaises,
         InvokeFails, Answered, AnsweredNothing, UseToken, FetchToken,
         FetchFails, Return, HookDies, EventDies, At
  <2> QED
      BY <2>1, <2>3, <2>4, <2>5, <2>6, <2>7, <2>8
<1>6. CASE \/ \E m \in Messages : GivesUp(m) \/ Doubles(m)
           \/ \E c \in Containers : Recycle(c)
           \/ UNCHANGED vars
    BY <1>1, <1>6
       DEF GivesUp, Doubles, Recycle, vars, webhook, ghosts, causes, ToCome
<1>7. CASE Tick
  <2>1. \A c \in Containers :
          IF run[c] = None THEN run'[c] = None
          ELSE /\ run'[c].msg = run[c].msg /\ run'[c].step = run[c].step
               /\ run'[c].calls = run[c].calls
    <3>1. \A c \in Containers : run[c] = None => run'[c] = None
        BY <1>7 DEF Tick, InSend, At
    <3> QED
        BY <1>0, <1>7, <3>1, TickShape
  <2>2. B \subseteq A
      BY <2>1 DEF ToCome
  <2> QED
      BY <1>1, <1>7, <2>2 DEF Tick, webhook, ghosts, causes
<1>8. CASE \E m \in Messages, c \in Containers : Deliver(m, c)
    BY <1>2, <1>8
<1>9. CASE \/ \E m \in Messages, c \in Containers : Pick(m, c)
           \/ \E c \in Containers : RunStep(c) /\ ~Dispatch(c)
    BY <1>1, <1>4, <1>5, <1>9
<1>10. CASE \E c \in Containers : Dispatch(c)
    BY <1>3, <1>10
<1>11. \/ \E m \in Messages, c \in Containers : Deliver(m, c) \/ Pick(m, c)
       \/ \E m \in Messages : GivesUp(m) \/ Doubles(m)
       \/ \E c \in Containers : RunStep(c) \/ Recycle(c)
       \/ Tick \/ UNCHANGED vars
    BY DEF Next
<1> QED
    BY <1>6, <1>7, <1>8, <1>9, <1>10, <1>11

LEMMA CountNext == CountInv /\ [Next]_vars => CountInv'
<1> SUFFICES ASSUME CountInv, [Next]_vars PROVE CountInv'
    OBVIOUS
<1>1. (RunsOK /\ CountsOK /\ NumbersOK /\ Delivered)'
    BY RunsNext, CountsNext, NumbersNext, DeliveredNext DEF CountInv
<1>2. ASSUME NEW n \in Messages
      PROVE  /\ IsFiniteSet(Live(n, EventRuns)')
             /\ Cardinality(Live(n, EventRuns)') <= Events(n)'
  <2>1. /\ IsFiniteSet(Live(n, EventRuns))
        /\ Cardinality(Live(n, EventRuns)) <= Events(n)
      BY DEF CountInv, Backed
  <2>2. /\ IsFiniteSet(Live(n, EventRuns)')
        /\ Cardinality(Live(n, EventRuns)') \in Nat
        /\ Cardinality(Live(n, EventRuns)) \in Nat
        /\ Cardinality(Live(n, EventRuns)') + Events(n)
              <= Cardinality(Live(n, EventRuns)) + Events(n)'
      BY <2>1, LiveStep DEF CountInv, Counted
  <2>3. Events(n) \in Nat /\ Events(n)' \in Nat
      BY <1>1, NumbersAssumption DEF CountInv, NumbersOK, Events
  <2> QED
      BY <2>1, <2>2, <2>3
<1>3. ASSUME NEW n \in Messages
      PROVE  /\ IsFiniteSet(Live(n, NotYet)')
             /\ turns'[n] + Cardinality(Live(n, NotYet)') <= Events(n)' + killed'[n]
  <2>1. /\ IsFiniteSet(Live(n, NotYet))
        /\ turns[n] + Cardinality(Live(n, NotYet)) <= Events(n) + killed[n]
      BY DEF CountInv, Caused
  <2>2. /\ IsFiniteSet(Live(n, NotYet)')
        /\ Cardinality(Live(n, NotYet)') \in Nat
        /\ Cardinality(Live(n, NotYet)) \in Nat
        /\ (turns'[n] + Cardinality(Live(n, NotYet)')) + (Events(n) + killed[n])
              <= (turns[n] + Cardinality(Live(n, NotYet)))
                   + (Events(n)' + killed'[n])
      BY <2>1, LiveStep DEF CountInv, Counted
  <2>3. /\ turns[n] \in Nat /\ Events(n) \in Nat /\ killed[n] \in Nat
        /\ turns'[n] \in Nat /\ Events(n)' \in Nat /\ killed'[n] \in Nat
      BY <1>1, NumbersAssumption DEF CountInv, NumbersOK, Events
  <2> QED
      BY <2>1, <2>2, <2>3
<1> QED
    BY <1>1, <1>2, <1>3 DEF CountInv, Backed, Caused

\* The agent gets a message again only if Lambda accepted it again, or its queue
\* doubled it, or a run died after the agent had it, for any number of messages,
\* containers, attempts and tries: no exception of an event run repeats a turn.
THEOREM TurnsHaveCauseAlways == Spec => []TurnsHaveCause
<1>1. CountInv => TurnsHaveCause
  <2> SUFFICES ASSUME CountInv, NEW m \in Messages
               PROVE  turns[m] <= dispatched[m] + doubled[m] + killed[m]
      BY DEF TurnsHaveCause
  <2>1. /\ turns[m] \in Nat /\ dispatched[m] \in Nat /\ doubled[m] \in Nat
        /\ killed[m] \in Nat /\ Cardinality(Live(m, NotYet)) \in Nat
        /\ turns[m] + Cardinality(Live(m, NotYet)) <= Events(m) + killed[m]
      BY FS_CardinalityType, NumbersAssumption DEF CountInv, NumbersOK, Caused
  <2> QED
      BY <2>1 DEF Events
<1> QED
    BY <1>1, CountInit, CountNext, PTL DEF Spec

\* No more events wait for one of their runs than are live.
LEMMA WaitingIsLive ==
    ASSUME CountInv, NEW m \in Messages, NEW k \in Tries
    PROVE  queue[m][k] <= Cardinality(Live(m, EventRuns))
<1> DEFINE q == queue[m][k]
           f == [i \in 1..q |-> <<k, i>>]
           A == Live(m, EventRuns)
<1>1. q \in Nat
    BY DEF CountInv, CountsOK
<1>2. ASSUME NEW i \in 1..q PROVE <<k, i>> \in A
  <2>1. i \in Nat \ {0} /\ i <= q
      BY <1>1
  <2>2. <<k, i>> \in Tries \X (Nat \ {0}) /\ <<k, i>>[1] = k /\ <<k, i>>[2] = i
      BY <2>1
  <2> QED
      BY <2>1, <2>2 DEF Waiting, Live
<1>3. f \in [1..q -> A]
    BY <1>2
<1>4. \A i, j \in 1..q : f[i] = f[j] => i = j
    OBVIOUS
<1>5. f \in Injection(1..q, A)
    BY <1>3, <1>4 DEF Injection, IsInjective
<1>6. IsFiniteSet(A)
    BY DEF CountInv, Backed
<1> HIDE DEF f, A
<1>7. Cardinality(1..q) <= Cardinality(A)
    BY <1>5, <1>6, FS_Injection
<1>8. Cardinality(1..q) = q
    BY <1>1, FS_Interval
<1> QED
    BY <1>7, <1>8 DEF A

\* Every step keeps the types and the counts: no more events of a message wait for
\* a run or are being run than Lambda has accepted or doubled, and Lambda has
\* accepted no more of them than lambda_client may try for each delivery, the
\* attempts that running hooks have left set apart.
THEOREM TypeCorrect == Spec => [](TypeOK /\ Backed /\ Delivered)
<1> DEFINE Most == MaxAttempts * MaxDeliveries
<1>0. Most \in Nat /\ MaxDoubles \in Nat
    BY NumbersAssumption, Times
<1>1. CountInv /\ TokensOK => TypeOK /\ Backed /\ Delivered
  <2> SUFFICES ASSUME CountInv, TokensOK PROVE TypeOK
      BY DEF CountInv
  <2>1. /\ lark \in [Messages -> {"unsent", "waiting", "acked", "gave up"}]
        /\ deliveries \in [Messages -> 0..MaxDeliveries]
        /\ creds \in [Containers -> {"unset", "loaded", "empty"}]
        /\ tenant \in [Containers -> TenantToken]
        /\ turns \in [Messages -> Nat] /\ replied \in [Messages -> BOOLEAN]
        /\ doubled \in [Messages -> 0..MaxDoubles]
        /\ killed \in [Messages -> Nat] /\ lost \in [Messages -> BOOLEAN]
        /\ run \in [Containers -> Run \cup {None}]
      BY DEF CountInv, RunsOK, CountsOK, NumbersOK, TokensOK
  <2>2. ASSUME NEW m \in Messages
        PROVE  dispatched[m] \in 0..Most
    <3>1. /\ dispatched[m] \in Nat /\ deliveries[m] \in 0..MaxDeliveries
          /\ IsFiniteSet(ToCome(m))
          /\ dispatched[m] + Cardinality(ToCome(m)) <= MaxAttempts * deliveries[m]
        BY DEF CountInv, NumbersOK, Delivered
    <3>2. Cardinality(ToCome(m)) \in Nat
        BY <3>1, FS_CardinalityType
    <3>3. /\ MaxAttempts \in Nat /\ MaxDeliveries \in Nat /\ deliveries[m] \in Nat
          /\ deliveries[m] <= MaxDeliveries
        BY <3>1, NumbersAssumption
    <3>4. /\ MaxAttempts * deliveries[m] \in Nat
          /\ MaxAttempts * deliveries[m] <= Most
        BY <3>3, Times
    <3> HIDE DEF Most
    <3> QED
        BY <1>0, <3>1, <3>2, <3>4
  <2>3. ASSUME NEW m \in Messages, NEW k \in Tries
        PROVE  queue[m][k] \in 0..(Most + MaxDoubles)
    <3>1. /\ queue[m][k] <= Cardinality(Live(m, EventRuns))
          /\ Cardinality(Live(m, EventRuns)) <= Events(m)
          /\ Cardinality(Live(m, EventRuns)) \in Nat
        BY WaitingIsLive, FS_CardinalityType DEF CountInv, Backed
    <3>2. queue[m][k] \in Nat /\ doubled[m] \in 0..MaxDoubles
        BY DEF CountInv, CountsOK, NumbersOK
    <3>3. dispatched[m] \in 0..Most
        BY <2>2
    <3> HIDE DEF Most
    <3> QED
        BY <1>0, <3>1, <3>2, <3>3 DEF Events
  <2>4. dispatched \in [Messages -> 0..Most]
      BY <2>2 DEF CountInv, NumbersOK
  <2>5. queue \in [Messages -> [Tries -> 0..(Most + MaxDoubles)]]
    <3>1. \A m \in Messages : queue[m] \in [Tries -> 0..(Most + MaxDoubles)]
        BY <2>3 DEF CountInv, CountsOK
    <3> QED
        BY <3>1 DEF CountInv, CountsOK
  <2> QED
      BY <2>1, <2>4, <2>5 DEF TypeOK
<1>2. Spec => []CountInv
    BY CountInit, CountNext, PTL DEF Spec
<1>3. Spec => []TokensOK
  <2>1. TokenInv => TokensOK
      BY DEF TokenInv
  <2> QED
      BY <2>1, TokenInit, TokenNext, PTL DEF Spec
<1> QED
    BY <1>1, <1>2, <1>3, PTL

=============================================================================
