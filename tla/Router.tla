------------------------------- MODULE Router -------------------------------
(***************************************************************************)
(* The router Lambda: what becomes of a Lark message between the webhook   *)
(* and the reply in the chat.  The same function serves the webhook (a     *)
(* hook run: verify, dispatch to itself, acknowledge) and the asynchronous *)
(* invocation of itself (an event run: decrypt, resolve the user, invoke   *)
(* the agent, send).  A container has one run at a time and keeps the      *)
(* credentials and the tenant token it has loaded between runs.            *)
(*                                                                         *)
(* Lark delivers a message again until it is acknowledged in time.  The    *)
(* client of Lambda tries the invocation again when it gets no answer,     *)
(* though Lambda may have accepted it; Lambda runs an event again when its *)
(* run raises or dies, and now and then without a reason, since its queue  *)
(* promises to hand an event out at least once.                            *)
(***************************************************************************)
EXTENDS Naturals

CONSTANTS
    Messages,       \* messages of users
    Containers,     \* warm containers of the router Lambda
    None,           \* no run
    MaxDeliveries,  \* how often Lark delivers one message
    MaxAttempts,    \* how often lambda_client tries one invocation
    MaxTries,       \* how often Lambda runs one event
    MaxDoubles,     \* how often Lambda's queue doubles an event of a message
    MaxParts,       \* the messages a long reply is cut into
    Timeout,        \* the timeout of the Lambda
    Early,          \* the margin of get_tenant_token before expires_at
    TokenLife       \* what Lark says a new tenant token is good for

ASSUME NumbersAssumption ==
    /\ MaxDeliveries \in Nat \ {0} /\ MaxAttempts \in Nat \ {0}
    /\ MaxTries \in Nat \ {0} /\ MaxDoubles \in Nat
    /\ MaxParts \in Nat \ {0}
    /\ Timeout \in Nat /\ Early \in Nat /\ TokenLife \in Nat
    /\ 2 * Timeout <= Early /\ Early < TokenLife

Tries == 1..MaxTries
Steps == {"verify", "dispatch", "ack",
          "decrypt", "resolve", "invoke", "await", "token", "send", "return"}

\* attempt: which run of the event it is, 0 in a hook run.  calls: how often a
\* hook run has tried to dispatch.  handed: what the run has to hand on was taken,
\* the event by Lambda or the message by the agent.  left: the parts of the reply
\* not sent yet; ok: send_message's; age: the time since it was called.
Run == [msg : Messages, step : Steps, attempt : 0..MaxTries,
        calls : 0..MaxAttempts, handed : BOOLEAN,
        left : 0..MaxParts, ok : BOOLEAN, age : 0..Timeout]
ASSUME NoneAssumption == None \notin Run

\* _token_cache: the time to expires_at, and the time Lark will honour it.
TenantToken == [seen : 0..TokenLife, life : 0..TokenLife]
NoToken == [seen |-> 0, life |-> 0]

VARIABLES
    lark,        \* what Lark thinks of a message
    deliveries,  \* how often Lark has delivered it
    queue,       \* queue[m][k]: events of m that wait for their k-th run
    run,         \* the run of each container
    creds,       \* _creds_cache of each container
    tenant,      \* _token_cache of each container
    turns,       \* how often the agent was given the message
    replied,     \* whether the chat got the whole of a reply to it
    dispatched,  \* ghost: events Lambda has accepted for it
    doubled,     \* ghost: events of it that Lambda's queue has doubled
    killed,      \* ghost: event runs that died once the agent had the message
    lost         \* ghost: a run of it ended silently

webhook == <<lark, deliveries>>
caches == <<creds, tenant>>
outcome == <<turns, replied>>
causes == <<dispatched, doubled, killed>>
ghosts == <<causes, lost>>
vars == <<webhook, queue, run, caches, outcome, ghosts>>

TypeOK ==
    /\ lark \in [Messages -> {"unsent", "waiting", "acked", "gave up"}]
    /\ deliveries \in [Messages -> 0..MaxDeliveries]
    /\ queue \in [Messages -> [Tries -> 0..(MaxAttempts * MaxDeliveries + MaxDoubles)]]
    /\ run \in [Containers -> Run \cup {None}]
    /\ creds \in [Containers -> {"unset", "loaded", "empty"}]
    /\ tenant \in [Containers -> TenantToken]
    /\ turns \in [Messages -> Nat] /\ replied \in [Messages -> BOOLEAN]
    /\ dispatched \in [Messages -> 0..(MaxAttempts * MaxDeliveries)]
    /\ doubled \in [Messages -> 0..MaxDoubles]
    /\ killed \in [Messages -> Nat]
    /\ lost \in [Messages -> BOOLEAN]

Init ==
    /\ lark = [m \in Messages |-> "unsent"]
    /\ deliveries = [m \in Messages |-> 0]
    /\ queue = [m \in Messages |-> [k \in Tries |-> 0]]
    /\ run = [c \in Containers |-> None]
    /\ creds = [c \in Containers |-> "unset"]
    /\ tenant = [c \in Containers |-> NoToken]
    /\ turns = [m \in Messages |-> 0]
    /\ replied = [m \in Messages |-> FALSE]
    /\ dispatched = [m \in Messages |-> 0]
    /\ doubled = [m \in Messages |-> 0]
    /\ killed = [m \in Messages |-> 0]
    /\ lost = [m \in Messages |-> FALSE]

-----------------------------------------------------------------------------
At(c, step) == run[c] # None /\ run[c].step = step

IsEvent(c) == run[c] # None /\ run[c].attempt # 0

Goto(c, step) == run' = [run EXCEPT ![c].step = step]

End(c) == run' = [run EXCEPT ![c] = None]

NewRun(m, step, k) == [msg |-> m, step |-> step, attempt |-> k,
                       calls |-> 0, handed |-> FALSE,
                       left |-> 0, ok |-> TRUE, age |-> 0]

\* send_message, with a text of n parts.
SendMessage(c, n) ==
    run' = [run EXCEPT ![c] = [@ EXCEPT !.step = "token", !.left = n]]

\* A silent end: a log line, and nothing the user or Lark could act on.
Lose(m) == lost' = [lost EXCEPT ![m] = TRUE]

Count(f, m) == [f EXCEPT ![m] = @ + 1]

\* get_credentials: asked for once in the life of a container.  A failure is
\* cached like a success.
HasKey(c, ok) ==
    \/ creds[c] = "loaded" /\ ok /\ UNCHANGED creds
    \/ creds[c] = "empty" /\ ~ok /\ UNCHANGED creds
    \/ creds[c] = "unset" /\ creds' = [creds EXCEPT ![c] = IF ok THEN "loaded"
                                                           ELSE "empty"]

\* Lambda runs the event of run r once more, or has had enough of it.
Retry(r) ==
    IF r.attempt < MaxTries
    THEN /\ queue' = [queue EXCEPT ![r.msg][r.attempt + 1] = @ + 1]
         /\ UNCHANGED lost
    ELSE Lose(r.msg) /\ UNCHANGED queue

-----------------------------------------------------------------------------
(* The hook run. *)

Deliver(m, c) ==
    /\ lark[m] \in {"unsent", "waiting"}
    /\ deliveries[m] < MaxDeliveries
    /\ run[c] = None
    /\ lark' = [lark EXCEPT ![m] = "waiting"]
    /\ deliveries' = Count(deliveries, m)
    /\ run' = [run EXCEPT ![c] = NewRun(m, "verify", 0)]
    /\ UNCHANGED <<queue, caches, outcome, ghosts>>

\* The last delivery has had no answer either.
GivesUp(m) ==
    /\ lark[m] = "waiting"
    /\ deliveries[m] = MaxDeliveries
    /\ \A c \in Containers : run[c] # None /\ ~IsEvent(c) => run[c].msg # m
    /\ lark' = [lark EXCEPT ![m] = "gave up"]
    /\ UNCHANGED <<deliveries, queue, run, caches, outcome, ghosts>>

\* verify_signature fails closed: without the key everything is rejected, and
\* with it a delivery whose timestamp has left the replay window.
Verify(c) ==
    /\ At(c, "verify")
    /\ \E ok \in BOOLEAN :
         /\ HasKey(c, ok)
         /\ End(c) \/ (ok /\ Goto(c, "dispatch"))
    /\ UNCHANGED <<webhook, queue, tenant, outcome, ghosts>>

\* Hook run c after an attempt: it tries once more, or is through with it.
Called(c, calls, accepted, again) ==
    run' = [run EXCEPT ![c] =
             [@ EXCEPT !.calls = calls, !.handed = run[c].handed \/ accepted,
                       !.step = IF again THEN "dispatch" ELSE "ack"]]

\* Lambda puts the event into its queue.
Accept(m) ==
    /\ queue' = [queue EXCEPT ![m][1] = @ + 1]
    /\ dispatched' = Count(dispatched, m)

\* Mutant of Dispatch: an attempt that Lambda has accepted is not counted.
DispatchUncounted(c) ==
    /\ At(c, "dispatch")
    /\ \E again \in BOOLEAN : Called(c, run[c].calls, TRUE, again)
    /\ Accept(run[c].msg)
    /\ UNCHANGED <<webhook, caches, outcome, doubled, killed, lost>>

\* The invocation of itself, one attempt of it.  The client tries again as long
\* as it has no answer it can use, whether or not Lambda has accepted the
\* attempt; when it gives up it raises, which is logged and acknowledged.
Dispatch(c) ==
    /\ At(c, "dispatch")
    /\ \E accepted, again \in BOOLEAN :
         /\ again => run[c].calls + 1 < MaxAttempts
         /\ Called(c, run[c].calls + 1, accepted, again)
         /\ IF accepted THEN Accept(run[c].msg)
                        ELSE UNCHANGED <<queue, dispatched>>
         /\ IF accepted \/ run[c].handed \/ again THEN UNCHANGED lost
                                                 ELSE Lose(run[c].msg)
    /\ UNCHANGED <<webhook, caches, outcome, doubled, killed>>

\* The 200 reaches Lark in time, or too late for it to count.
Acknowledge(c) ==
    /\ At(c, "ack")
    /\ \/ lark' = [lark EXCEPT ![run[c].msg] = "acked"]
       \/ UNCHANGED lark
    /\ End(c)
    /\ UNCHANGED <<deliveries, queue, caches, outcome, ghosts>>

-----------------------------------------------------------------------------
(* The event run. *)

Pick(m, c) ==
    /\ run[c] = None
    /\ \E k \in Tries :
         /\ queue[m][k] > 0
         /\ queue' = [queue EXCEPT ![m][k] = @ - 1]
         /\ run' = [run EXCEPT ![c] = NewRun(m, "decrypt", k)]
    /\ UNCHANGED <<webhook, caches, outcome, ghosts>>

\* The queue hands an event out at least once: it may do so once more.
Doubles(m) ==
    /\ doubled[m] < MaxDoubles
    /\ \E k \in Tries :
         /\ queue[m][k] > 0
         /\ queue' = [queue EXCEPT ![m][k] = @ + 1]
    /\ doubled' = Count(doubled, m)
    /\ UNCHANGED <<webhook, run, caches, outcome, dispatched, killed, lost>>

\* decrypt_event answers None without the key, or when it cannot decrypt, and the
\* run ends well.  (Every body is encrypted: without an encryptKey no webhook gets
\* past Verify.)
Decrypt(c) ==
    /\ At(c, "decrypt")
    /\ \E ok \in BOOLEAN :
         /\ HasKey(c, ok)
         /\ \/ ok /\ Goto(c, "resolve") /\ UNCHANGED lost
            \/ End(c) /\ Lose(run[c].msg)
    /\ UNCHANGED <<webhook, queue, tenant, outcome, causes>>

\* resolve_user and get_or_create_session; a stranger is told so.
Resolve(c) ==
    /\ At(c, "resolve")
    /\ Goto(c, "invoke") \/ SendMessage(c, 1)
    /\ UNCHANGED <<webhook, queue, caches, outcome, ghosts>>

\* DynamoDB raises, and nothing catches it.
ResolveRaises(c) ==
    /\ At(c, "resolve")
    /\ Retry(run[c])
    /\ End(c)
    /\ UNCHANGED <<webhook, caches, outcome, causes>>

Invoke(c) ==
    /\ At(c, "invoke")
    /\ turns' = Count(turns, run[c].msg)
    /\ run' = [run EXCEPT ![c] = [@ EXCEPT !.step = "await", !.handed = TRUE]]
    /\ UNCHANGED <<webhook, queue, caches, replied, ghosts>>

\* Mutant of InvokeFails: the failure is logged and the run returns.
InvokeFailsSilently(c) ==
    /\ At(c, "invoke")
    /\ Goto(c, "return")
    /\ UNCHANGED <<webhook, queue, caches, outcome, ghosts>>

\* The agent cannot be reached: that is what the user gets to read.
InvokeFails(c) ==
    /\ At(c, "invoke")
    /\ SendMessage(c, 1)
    /\ UNCHANGED <<webhook, queue, caches, outcome, ghosts>>

\* Mutant of Answered: nothing catches what invoke_agent raises.
AnsweredOrRaises(c) ==
    /\ At(c, "await")
    /\ \/ SendMessage(c, 1) /\ UNCHANGED <<queue, lost>>
       \/ Retry(run[c]) /\ End(c)
    /\ UNCHANGED <<webhook, caches, outcome, causes>>

\* An answer, an error or no answer within the read timeout: all are sent.
Answered(c) ==
    /\ At(c, "await")
    /\ \E n \in 1..MaxParts : SendMessage(c, n)
    /\ UNCHANGED <<webhook, queue, caches, outcome, ghosts>>

AnsweredNothing(c) ==
    /\ At(c, "await")
    /\ Goto(c, "return")
    /\ Lose(run[c].msg)
    /\ UNCHANGED <<webhook, queue, caches, outcome, causes>>

\* Mutant of UseToken: the cached token is used for as long as it lives.
UseTokenToTheEnd(c) ==
    /\ At(c, "token")
    /\ tenant[c].seen > 0
    /\ Goto(c, "send")
    /\ UNCHANGED <<webhook, queue, caches, outcome, ghosts>>

\* get_tenant_token, once for all the parts: the cached one, short of its end.
UseToken(c) ==
    /\ At(c, "token")
    /\ tenant[c].seen > Early
    /\ Goto(c, "send")
    /\ UNCHANGED <<webhook, queue, caches, outcome, ghosts>>

\* A new one.  expires_at counts from the arrival of Lark's answer, which was
\* up to the age of the run on its way.
FetchToken(c) ==
    /\ At(c, "token")
    /\ tenant[c].seen <= Early
    /\ \E delay \in 0..run[c].age :
         tenant' = [tenant EXCEPT ![c] = [seen |-> TokenLife,
                                          life |-> TokenLife - delay]]
    /\ Goto(c, "send")
    /\ UNCHANGED <<webhook, queue, creds, outcome, ghosts>>

\* No token, no message; and the caller does not look.
FetchFails(c) ==
    /\ At(c, "token")
    /\ tenant[c].seen <= Early
    /\ Goto(c, "return")
    /\ Lose(run[c].msg)
    /\ UNCHANGED <<webhook, queue, caches, outcome, causes>>

\* One part.  A failure does not keep the next ones from being sent, and what
\* send_message returns in the end is not looked at.
SendPart(c) ==
    /\ At(c, "send")
    /\ \E taken \in BOOLEAN :
        LET whole == run[c].ok /\ taken
            last  == run[c].left = 1
        IN  /\ run' = [run EXCEPT ![c] =
                        [@ EXCEPT !.left = run[c].left - 1, !.ok = whole,
                                  !.step = IF last THEN "return" ELSE "send"]]
            /\ replied' = [replied EXCEPT ![run[c].msg] = @ \/ (last /\ whole)]
            /\ IF last /\ ~whole THEN Lose(run[c].msg)
                               ELSE UNCHANGED lost
    /\ UNCHANGED <<webhook, queue, caches, turns, causes>>

Return(c) ==
    /\ At(c, "return")
    /\ End(c)
    /\ UNCHANGED <<webhook, queue, caches, outcome, ghosts>>

-----------------------------------------------------------------------------
\* A container that is new has nothing in its caches.
Forget(c) ==
    /\ creds' = [creds EXCEPT ![c] = "unset"]
    /\ tenant' = [tenant EXCEPT ![c] = NoToken]

\* The timeout of the Lambda, or the end of its container, in a hook run.
HookDies(c) ==
    /\ run[c] # None /\ ~IsEvent(c)
    /\ End(c)
    /\ Forget(c)
    /\ UNCHANGED <<webhook, queue, outcome, ghosts>>

\* The same in an event run: Lambda retries, whatever the run had done.
EventDies(c) ==
    /\ IsEvent(c)
    /\ Retry(run[c])
    /\ killed' = IF run[c].handed THEN Count(killed, run[c].msg) ELSE killed
    /\ End(c)
    /\ Forget(c)
    /\ UNCHANGED <<webhook, outcome, dispatched, doubled>>

\* An idle container is replaced by a new one.
Recycle(c) ==
    /\ run[c] = None
    /\ Forget(c)
    /\ UNCHANGED <<webhook, queue, run, outcome, ghosts>>

InSend(c) == At(c, "token") \/ At(c, "send")

\* Time passes, but no run outlives the timeout of the Lambda.
Tick ==
    /\ \E c \in Containers : tenant[c] # NoToken \/ InSend(c)
    /\ \A c \in Containers : InSend(c) => run[c].age < Timeout
    /\ run' = [c \in Containers |->
                 IF InSend(c) THEN [run[c] EXCEPT !.age = @ + 1] ELSE run[c]]
    /\ tenant' = [c \in Containers |->
                    [f \in DOMAIN tenant[c] |->
                        IF tenant[c][f] = 0 THEN 0 ELSE tenant[c][f] - 1]]
    /\ UNCHANGED <<webhook, queue, creds, outcome, ghosts>>

RunStep(c) ==
    \/ Verify(c) \/ Dispatch(c) \/ Acknowledge(c)
    \/ Decrypt(c) \/ Resolve(c) \/ ResolveRaises(c) \/ Invoke(c)
    \/ InvokeFails(c) \/ Answered(c) \/ AnsweredNothing(c)
    \/ UseToken(c) \/ FetchToken(c) \/ FetchFails(c) \/ SendPart(c)
    \/ Return(c) \/ HookDies(c) \/ EventDies(c)

Next ==
    \/ \E m \in Messages, c \in Containers : Deliver(m, c) \/ Pick(m, c)
    \/ \E m \in Messages : GivesUp(m) \/ Doubles(m)
    \/ \E c \in Containers : RunStep(c) \/ Recycle(c)
    \/ Tick

\* Lark delivers again, Lambda runs what is queued, and a run ends by its own
\* doing or at its timeout.  Users need not write.
Fairness ==
    /\ \A m \in Messages :
         /\ WF_vars(lark[m] = "waiting" /\ \E c \in Containers : Deliver(m, c))
         /\ WF_vars(GivesUp(m))
         /\ WF_vars(\E c \in Containers : Pick(m, c))
    /\ \A c \in Containers : WF_vars(RunStep(c))

Spec == Init /\ [][Next]_vars /\ Fairness

-----------------------------------------------------------------------------
(* Properties *)

\* The agent gets a message again only if Lambda has accepted it again, or its
\* queue has doubled it, or a run died after the agent had it: no exception of the
\* event run repeats a turn.
TurnsHaveCause ==
    \A m \in Messages : turns[m] <= dispatched[m] + doubled[m] + killed[m]

InProgress(m) ==
    \/ \E k \in Tries : queue[m][k] > 0
    \/ \E c \in Containers : IsEvent(c) /\ run[c].msg = m

\* Nothing that was acknowledged vanishes without a reason: it is in progress,
\* or the chat has the whole of a reply, or one of the known silent ends has
\* met it; a reply with a part missing is one of these.
AckedIsAccounted ==
    \A m \in Messages :
        lark[m] = "acked" => InProgress(m) \/ replied[m] \/ lost[m]

\* The token that was judged once for all the parts of a reply is good for
\* Lark until the last of them is sent, with the rest of the Lambda's time to
\* send them in, and however late expires_at is.
TokenCoversReply == \A c \in Containers : At(c, "send") => tenant[c].life > 0

\* Whatever fails, a message Lark has delivered comes to an end: a reply in the
\* chat, a silent end, or Lark's giving up.
EveryMessageEnds ==
    \A m \in Messages :
        lark[m] = "waiting" ~> \/ replied[m] \/ lost[m]
                               \/ lark[m] = "gave up"

=============================================================================
