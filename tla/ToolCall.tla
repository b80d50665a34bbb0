------------------------------ MODULE ToolCall ------------------------------
(***************************************************************************)
(* A tool call on its way from the agent through the Gateway: the          *)
(* interceptor Lambda replaces the Authorization header by the tenant's    *)
(* key and writes the caller's identity into the arguments; the tool       *)
(* Lambda then acts on Lark as that user.  There is one tenant, so each    *)
(* warm interceptor caches one key, and caches a failed read as well, as   *)
(* the empty key.                                                          *)
(*                                                                         *)
(* A document tool makes up to two changes at Lark.  The user's token is   *)
(* the subject of UserTokens; here it is there or not.  Lark is taken to   *)
(* change nothing when it refuses a request (a code, or a 4xx status); an  *)
(* error of its own (a 5xx status) may come after the change.              *)
(***************************************************************************)
EXTENDS Naturals, Sequences

CONSTANTS
    Users,         \* whose turns the agent runs
    Calls,         \* tool calls that can overlap
    Interceptors,  \* warm containers of the interceptor Lambda
    None,          \* no container
    NoKey,         \* the empty key
    KeyTTL,        \* a key is cached this long
    Timeout,       \* each Lambda execution is killed this long after it began
    MaxKeys,       \* bound: versions of the tenant's key
    MaxTime        \* bound: the clock

Keys == 1..MaxKeys
Time == 0..MaxTime

ASSUME BoundsAssumption ==
    /\ KeyTTL \in Nat /\ MaxTime \in Nat
    /\ Timeout \in Nat \ {0} /\ MaxKeys \in Nat \ {0}
ASSUME NoneAssumption == None \notin Interceptors /\ NoKey \notin Keys

\* The changes each tool makes at Lark, in order; list is the request tools/list,
\* which calls none.
Changes == [whoami |-> <<>>, create_doc |-> <<"create", "append">>,
            create_empty |-> <<"create">>, edit_doc |-> <<"append">>,
            delete_doc |-> <<"delete">>, list |-> <<>>]

Tools == DOMAIN Changes

\* since: when the Lambda execution that works on the call began.  actor: the
\* identity in the arguments, at first what the model wrote there, if anything.
\* told: how many changes the answer speaks of; doubt: how many more it leaves
\* open.
Call == [step : {"idle", "read", "store", "inject", "dispatch", "lark",
                 "answered"},
         user : Users, tool : Tools, at : Interceptors \cup {None},
         key : Keys \cup {NoKey}, since : Time,
         actor : Users, done : 0..2, told : 0..2, doubt : 0..1]

VARIABLES
    now,
    stored,    \* the version in Secrets Manager
    cache,     \* _key_cache of each container: a key and its expiry
    call,
    changed,   \* what Lark did in the calls at hand: for whom, which change
    replaced,  \* ghost: when a version of the key was replaced
    failed     \* ghost: when a container last failed to read the key

vars == <<now, stored, cache, call, changed, replaced, failed>>

TypeOK ==
    /\ now \in Time /\ stored \in Keys
    /\ cache \in [Interceptors -> [key : Keys \cup {NoKey}, until : Nat]]
    /\ call \in [Calls -> Call]
    /\ changed \subseteq Users \X Calls \X {1, 2}
    /\ replaced \in [Keys -> Time] /\ failed \in [Interceptors -> Time]
    /\ \A x \in Calls :
         call[x].step \in {"read", "store", "inject"} <=> call[x].at # None
    /\ \A x, y \in Calls : call[x].at = call[y].at /\ x # y => call[x].at = None

NoCall(u) ==
    [step |-> "idle", user |-> u, tool |-> "whoami", at |-> None, key |-> NoKey,
     since |-> 0, actor |-> u, done |-> 0, told |-> 0, doubt |-> 0]

Init ==
    /\ now = 0 /\ stored = 1
    /\ cache = [c \in Interceptors |-> [key |-> NoKey, until |-> 0]]
    /\ \E u \in Users : call = [x \in Calls |-> NoCall(u)]
    /\ changed = {}
    /\ replaced = [k \in Keys |-> 0]
    /\ failed = [c \in Interceptors |-> 0]

-----------------------------------------------------------------------------
At(x, step) == call[x].step = step

Ended(x) == call[x].step \in {"idle", "answered"}

Plan(x) == Changes[call[x].tool]

Goto(x, step) == call' = [call EXCEPT ![x].step = step]

\* The result of the tool reaches the agent; it speaks of n changes, and leaves d
\* open.
Answer(x, n, d) ==
    call' = [call EXCEPT ![x] = [NoCall(call[x].user) EXCEPT
                                     !.step = "answered", !.told = n, !.doubt = d]]

\* Mutant of Break: the execution that dies keeps its container.
BreakOnly(x) == call' = [call EXCEPT ![x].step = "idle"]

\* What reaches the agent is an error of the gateway, which speaks of nothing.
Break(x) == call' = [call EXCEPT ![x] = NoCall(call[x].user)]

Forget(x) == changed' = {d \in changed : d[2] # x}

-----------------------------------------------------------------------------
(* The interceptor. *)

\* Mutant of Arrive: a key that is used stays cached for longer.
ArriveAndRenew(x, c) ==
    /\ Ended(x)
    /\ \A y \in Calls : call[y].at # c
    /\ Forget(x)
    /\ \E u, a \in Users, tool \in Tools :
         call' = [call EXCEPT ![x] =
                    [step |-> IF now < cache[c].until THEN "inject" ELSE "read",
                     user |-> u, tool |-> tool, at |-> c, key |-> cache[c].key,
                     since |-> now, actor |-> a, done |-> 0, told |-> 0,
                     doubt |-> 0]]
    /\ cache' = [cache EXCEPT ![c].until =
                   IF now < @ THEN now + KeyTTL ELSE @]
    /\ UNCHANGED <<now, stored, replaced, failed>>

\* A call arrives at a free container with the JWT of its user, and finds the
\* key in the cache or not.
Arrive(x, c) ==
    /\ Ended(x)
    /\ \A y \in Calls : call[y].at # c
    /\ Forget(x)
    /\ \E u, a \in Users, tool \in Tools :
         call' = [call EXCEPT ![x] =
                    [step |-> IF now < cache[c].until THEN "inject" ELSE "read",
                     user |-> u, tool |-> tool, at |-> c, key |-> cache[c].key,
                     since |-> now, actor |-> a, done |-> 0, told |-> 0,
                     doubt |-> 0]]
    /\ UNCHANGED <<now, stored, cache, replaced, failed>>

ReadKey(x) ==
    /\ At(x, "read")
    /\ \/ /\ call' = [call EXCEPT ![x].step = "store", ![x].key = stored]
          /\ UNCHANGED failed
       \/ /\ call' = [call EXCEPT ![x].step = "store", ![x].key = NoKey]
          /\ failed' = [failed EXCEPT ![call[x].at] = now]
    /\ UNCHANGED <<now, stored, cache, changed, replaced>>

\* The empty key of a failed read is cached like any other.
StoreKey(x) ==
    /\ At(x, "store")
    /\ cache' = [cache EXCEPT ![call[x].at] =
                   [key |-> call[x].key, until |-> now + KeyTTL]]
    /\ Goto(x, "inject")
    /\ UNCHANGED <<now, stored, changed, replaced, failed>>

\* The identity replaces whatever the model put there; the container is free.
Inject(x) ==
    /\ At(x, "inject")
    /\ call[x].tool # "list"
    /\ call' = [call EXCEPT ![x].step = "dispatch", ![x].at = None,
                            ![x].actor = call[x].user, ![x].since = now]
    /\ UNCHANGED <<now, stored, cache, changed, replaced, failed>>

\* Only a tools/call gets the identity; the gateway itself answers the rest.
PassOn(x) ==
    /\ At(x, "inject")
    /\ call[x].tool = "list"
    /\ Answer(x, 0, 0)
    /\ UNCHANGED <<now, stored, cache, changed, replaced, failed>>

-----------------------------------------------------------------------------
(* The tool. *)

\* A tool that changes nothing answers; so does one whose user has no token.
Dispatch(x) ==
    /\ At(x, "dispatch")
    /\ Answer(x, 0, 0) \/ (Plan(x) # <<>> /\ Goto(x, "lark"))
    /\ UNCHANGED <<now, stored, cache, changed, replaced, failed>>

LarkChanges(x) ==
    /\ At(x, "lark")
    /\ LET n == call[x].done + 1
       IN  /\ changed' = changed \cup {<<call[x].actor, x, n>>}
           /\ IF n = Len(Plan(x)) THEN Answer(x, n, 0)
              ELSE call' = [call EXCEPT ![x].done = n]
    /\ UNCHANGED <<now, stored, cache, replaced, failed>>

\* Mutant of LarkRefuses: the error of the last call is all that is told.
LarkRefusesOnly(x) ==
    /\ At(x, "lark")
    /\ Answer(x, 0, 0)
    /\ UNCHANGED <<now, stored, cache, changed, replaced, failed>>

\* Lark answers with a code, or a 4xx: the result names what was done before.
LarkRefuses(x) ==
    /\ At(x, "lark")
    /\ Answer(x, call[x].done, 0)
    /\ UNCHANGED <<now, stored, cache, changed, replaced, failed>>

\* A 5xx is told as such, with what was done before: the agent cannot know
\* whether Lark made the change for all that.
LarkFails(x) ==
    /\ At(x, "lark")
    /\ Answer(x, call[x].done, 1)
    /\ \/ UNCHANGED changed
       \/ changed' = changed \cup {<<call[x].actor, x, call[x].done + 1>>}
    /\ UNCHANGED <<now, stored, cache, replaced, failed>>

\* Lark's answer is lost or late, which _lark does not catch: whether the
\* change was made, nobody is told.
LarkIsSilent(x) ==
    /\ At(x, "lark")
    /\ Break(x)
    /\ Forget(x)
    /\ UNCHANGED <<now, stored, cache, replaced, failed>>

-----------------------------------------------------------------------------
\* A Lambda execution is killed.
Die(x) ==
    /\ ~Ended(x)
    /\ Break(x)
    /\ Forget(x)
    /\ UNCHANGED <<now, stored, cache, replaced, failed>>

\* A container is replaced by a new one.
Recycle(c) ==
    /\ \A x \in Calls : call[x].at # c
    /\ cache' = [cache EXCEPT ![c] = [key |-> NoKey, until |-> 0]]
    /\ UNCHANGED <<now, stored, call, changed, replaced, failed>>

\* The operator puts a new key.
RotateKey ==
    /\ stored < MaxKeys
    /\ stored' = stored + 1
    /\ replaced' = [replaced EXCEPT ![stored] = now]
    /\ UNCHANGED <<now, cache, call, changed, failed>>

Tick ==
    /\ now < MaxTime
    /\ \A x \in Calls : ~Ended(x) => now < call[x].since + Timeout
    /\ now' = now + 1
    /\ UNCHANGED <<stored, cache, call, changed, replaced, failed>>

CallStep(x) ==
    \/ ReadKey(x) \/ StoreKey(x) \/ Inject(x) \/ PassOn(x)
    \/ Dispatch(x) \/ LarkChanges(x) \/ LarkRefuses(x) \/ LarkFails(x)
    \/ LarkIsSilent(x) \/ Die(x)

Next ==
    \/ \E x \in Calls : CallStep(x) \/ \E c \in Interceptors : Arrive(x, c)
    \/ \E c \in Interceptors : Recycle(c)
    \/ RotateKey
    \/ Tick

Spec == Init /\ [][Next]_vars

-----------------------------------------------------------------------------
(* Properties *)

\* How old the outcome of a read can be when it is injected: the execution
\* that read it, the cache, and the execution that uses it.
KeyAge == Timeout + KeyTTL + Timeout

\* A key that has been replaced is injected for no longer than that, and so is
\* no key at all after a failed read: the next success heals the container.
KeyIsRecent ==
    \A x \in Calls : At(x, "inject") =>
        LET k == call[x].key
        IN  IF k = NoKey THEN now < failed[call[x].at] + KeyAge
            ELSE k = stored \/ now < replaced[k] + KeyAge

\* The answer of a tool is the truth: it speaks of every change that Lark has
\* made in this call, made for the user whose turn it was, and of no other; one that
\* tells of a server error leaves open the one change at which that happened.
AnswersAreTrue ==
    \A x \in Calls : At(x, "answered") =>
        \E n \in call[x].told..(call[x].told + call[x].doubt) :
            {d \in changed : d[2] = x} = {<<call[x].user, x, i>> : i \in 1..n}

=============================================================================
