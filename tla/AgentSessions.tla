--------------------------- MODULE AgentSessions ---------------------------
(***************************************************************************)
(* The session cache of the agent container (agent_core.py) and the        *)
(* Cognito token cache under it (identity.py).  AgentCore gives a user a   *)
(* microVM of its own, so the cache holds one entry; the threads are the   *)
(* executor threads in which /invocations and /ws turns of that user run.  *)
(*                                                                         *)
(* A session is an Agent with one MCP connection to the Gateway, opened    *)
(* with the access token that get_user_jwt returned.  Building one takes   *)
(* several calls, all under _lock; chatting takes place outside it.        *)
(***************************************************************************)
EXTENDS Naturals, FiniteSets

CONSTANTS
    Threads,      \* executor threads
    NoThread,     \* nobody holds _lock
    Connections,  \* names for MCP connections
    NoSession,    \* nothing cached, nothing in hand
    Lifetime,     \* a Cognito access token lives this long
    TTL,          \* _SESSION_TTL
    Margin,       \* early-refresh margin of the token cache
    BuildMax,     \* longest time a thread spends building a session
    MaxLeaks,     \* bound: connections that a failure leaves open
    MaxTime       \* bound: the clock

Time == 0..MaxTime
Expiry == 0..(MaxTime + Lifetime)

\* {agent, mcp, created}, and the expiry of the token the mcp was given
\* (the program does not keep it).
Session == [conn : Connections, created : Time, tokenExp : Expiry]

ASSUME NumbersAssumption ==
    /\ Lifetime \in Nat /\ TTL \in Nat /\ Margin \in Nat
    /\ BuildMax \in Nat /\ MaxLeaks \in Nat /\ MaxTime \in Nat
\* 3600 s against 60 s: a token just minted is good enough to cache.
ASSUME MarginAssumption == Margin < Lifetime
ASSUME NoneAssumption == NoSession \notin Session /\ NoThread \notin Threads

VARIABLES
    now,
    tokenCache,  \* expiry of the cached access token, 0 when there is none
    entry,       \* _sessions[session_id]
    lock,        \* the thread inside "with _lock"
    began,       \* when it took the lock to build
    pc, held,    \* held[t]: the session t chats with
    token,       \* expiry of the token the builder got
    conn,        \* the connection the builder has open, as a set
    open,        \* connections that are open
    leaked       \* ghost: open connections that a failed build, or a failed
                 \* closing, has left behind

vars == <<now, tokenCache, entry, lock, began, pc, held, token, conn, open,
          leaked>>

Building == {"close", "token", "connect", "list"}

TypeOK ==
    /\ now \in Time
    /\ tokenCache \in Expiry
    /\ entry \in Session \cup {NoSession}
    /\ lock \in Threads \cup {NoThread}
    /\ began \in Time
    /\ pc \in [Threads -> {"idle", "waiting", "chat"} \cup Building]
    /\ held \in [Threads -> Session \cup {NoSession}]
    /\ token \in Expiry
    /\ conn \subseteq Connections
    /\ open \subseteq Connections
    /\ leaked \subseteq Connections
    /\ \A t \in Threads : pc[t] = "chat" <=> held[t] # NoSession

Init ==
    /\ now = 0
    /\ tokenCache = 0
    /\ entry = NoSession
    /\ lock = NoThread
    /\ began = 0
    /\ pc = [t \in Threads |-> "idle"]
    /\ held = [t \in Threads |-> NoSession]
    /\ token = 0
    /\ conn = {}
    /\ open = {}
    /\ leaked = {}

-----------------------------------------------------------------------------
\* time.time() - s["created"] < _SESSION_TTL
Fresh(s) == now < s.created + TTL

Goto(t, where) == pc' = [pc EXCEPT ![t] = where]

\* A message of the user reaches the container.
Request(t) ==
    /\ pc[t] = "idle"
    /\ Goto(t, "waiting")
    /\ UNCHANGED <<now, tokenCache, entry, lock, began, held, token, conn, open,
                   leaked>>

\* The cached session is young enough.
Serve(t) ==
    /\ pc[t] = "waiting"
    /\ lock = NoThread
    /\ entry # NoSession
    /\ Fresh(entry)
    /\ held' = [held EXCEPT ![t] = entry]
    /\ Goto(t, "chat")
    /\ UNCHANGED <<now, tokenCache, entry, lock, began, token, conn, open, leaked>>

\* Mutant of Evict: the old connection is not closed.
EvictWithoutClosing(t) ==
    /\ pc[t] = "waiting"
    /\ lock = NoThread
    /\ entry # NoSession => ~Fresh(entry)
    /\ lock' = t
    /\ began' = now
    /\ Goto(t, "token")
    /\ UNCHANGED <<now, tokenCache, entry, held, token, conn, open, leaked>>

\* There is none, or it is too old: what follows is done under the lock.
Evict(t) ==
    /\ pc[t] = "waiting"
    /\ lock = NoThread
    /\ entry # NoSession => ~Fresh(entry)
    /\ lock' = t
    /\ began' = now
    /\ Goto(t, IF entry = NoSession THEN "token" ELSE "close")
    /\ UNCHANGED <<now, tokenCache, entry, held, token, conn, open, leaked>>

\* __exit__ of the old client.
CloseOld(t) ==
    /\ pc[t] = "close"
    /\ open' = open \ {entry.conn}
    /\ leaked' = leaked \ {entry.conn}
    /\ Goto(t, "token")
    /\ UNCHANGED <<now, tokenCache, entry, lock, began, held, token, conn>>

\* It raises, which is passed over: the old connection may be open still.
CloseRaises(t) ==
    /\ pc[t] = "close"
    /\ entry.conn \in open
    /\ Cardinality(leaked) < MaxLeaks
    /\ leaked' = leaked \cup {entry.conn}
    /\ Goto(t, "token")
    /\ UNCHANGED <<now, tokenCache, entry, lock, began, held, token, conn, open>>

\* Mutant of UseCachedToken: a cached token is never too old.
UseAnyCachedToken(t) ==
    /\ pc[t] = "token"
    /\ tokenCache # 0
    /\ token' = tokenCache
    /\ Goto(t, "connect")
    /\ UNCHANGED <<now, tokenCache, entry, lock, began, held, conn, open, leaked>>

\* get_user_jwt: the cached token, unless it is about to expire.
UseCachedToken(t) ==
    /\ pc[t] = "token"
    /\ now + Margin < tokenCache
    /\ token' = tokenCache
    /\ Goto(t, "connect")
    /\ UNCHANGED <<now, tokenCache, entry, lock, began, held, conn, open, leaked>>

MintToken(t) ==
    /\ pc[t] = "token"
    /\ ~(now + Margin < tokenCache)
    /\ tokenCache' = now + Lifetime
    /\ token' = now + Lifetime
    /\ Goto(t, "connect")
    /\ UNCHANGED <<now, entry, lock, began, held, conn, open, leaked>>

\* mcp.__enter__(), over a name nobody uses.
Connect(t) ==
    /\ pc[t] = "connect"
    /\ \E c \in Connections :
         /\ c \notin open
         /\ entry # NoSession => entry.conn # c
         /\ \A u \in Threads : held[u] # NoSession => held[u].conn # c
         /\ open' = open \cup {c}
         /\ conn' = {c}
    /\ Goto(t, "list")
    /\ UNCHANGED <<now, tokenCache, entry, lock, began, held, token, leaked>>

\* list_tools_sync and Agent(...) succeed: the session is cached and used.
Publish(t) ==
    /\ pc[t] = "list"
    /\ \E c \in conn :
         LET s == [conn |-> c, created |-> now, tokenExp |-> token]
         IN  entry' = s /\ held' = [held EXCEPT ![t] = s]
    /\ conn' = {}
    /\ lock' = NoThread
    /\ Goto(t, "chat")
    /\ UNCHANGED <<now, tokenCache, began, token, open, leaked>>

\* Mutants of BuildFails: the evicted session gets another TTL; the lock is
\* not released by an exception.
BuildFallsBack(t) ==
    /\ pc[t] \in {"token", "connect"}
    /\ entry' = IF entry = NoSession THEN entry
                ELSE [entry EXCEPT !.created = now]
    /\ lock' = NoThread
    /\ Goto(t, "idle")
    /\ UNCHANGED <<now, tokenCache, began, held, token, conn, open, leaked>>

BuildFailsLocked(t) ==
    /\ pc[t] \in {"token", "connect"}
    /\ Goto(t, "idle")
    /\ UNCHANGED <<now, tokenCache, entry, lock, began, held, token, conn, open,
                   leaked>>

\* No token, or no connection: the turn ends in an error.  The evicted
\* session stays in _sessions, with its connection closed.
BuildFails(t) ==
    /\ pc[t] \in {"token", "connect"}
    /\ lock' = NoThread
    /\ Goto(t, "idle")
    /\ UNCHANGED <<now, tokenCache, entry, began, held, token, conn, open, leaked>>

\* Listing the tools or opening Memory fails: the connection stays open and
\* the last reference to it is gone.
BuildLeaks(t) ==
    /\ pc[t] = "list"
    /\ Cardinality(leaked) < MaxLeaks
    /\ leaked' = leaked \cup conn
    /\ conn' = {}
    /\ lock' = NoThread
    /\ Goto(t, "idle")
    /\ UNCHANGED <<now, tokenCache, entry, began, held, token, open>>

\* Mutant of ChatEnds: the executor thread keeps its session.
ChatEndsHolding(t) ==
    /\ pc[t] = "chat"
    /\ Goto(t, "idle")
    /\ UNCHANGED <<now, tokenCache, entry, lock, began, held, token, conn, open,
                   leaked>>

ChatEnds(t) ==
    /\ pc[t] = "chat"
    /\ held' = [held EXCEPT ![t] = NoSession]
    /\ Goto(t, "idle")
    /\ UNCHANGED <<now, tokenCache, entry, lock, began, token, conn, open, leaked>>

\* AgentCore ends the microVM (idle, or a deployment); the next message
\* starts another one with everything as at the beginning but the time.
Terminate ==
    /\ now' = now /\ tokenCache' = 0 /\ entry' = NoSession
    /\ lock' = NoThread /\ began' = 0 /\ token' = 0
    /\ pc' = [t \in Threads |-> "idle"]
    /\ held' = [t \in Threads |-> NoSession]
    /\ conn' = {} /\ open' = {} /\ leaked' = {}

Tick ==
    /\ now < MaxTime
    /\ lock # NoThread => now < began + BuildMax
    /\ now' = now + 1
    /\ UNCHANGED <<tokenCache, entry, lock, began, pc, held, token, conn, open,
                   leaked>>

BuildStep(t) ==
    \/ CloseOld(t) \/ CloseRaises(t)
    \/ UseCachedToken(t) \/ MintToken(t) \/ Connect(t) \/ Publish(t)
    \/ BuildFails(t) \/ BuildLeaks(t)

Step(t) ==
    \/ Request(t) \/ Serve(t) \/ Evict(t) \/ BuildStep(t) \/ ChatEnds(t)

Next == (\E t \in Threads : Step(t)) \/ Terminate \/ Tick

\* Every call of a build has a timeout of its own, and the client's closing is
\* taken to end, so a build ends; nothing is assumed of users, of chats, or of
\* who gets the lock next.
Fairness == \A t \in Threads : WF_vars(BuildStep(t))

Spec == Init /\ [][Next]_vars /\ Fairness

-----------------------------------------------------------------------------
(* Properties *)

\* A session that _get_session would still hand out has its connection open:
\* a rebuild that closes the old connection and then fails never leaves a
\* closed one to be served.
FreshIsOpen ==
    entry # NoSession /\ Fresh(entry) => entry.conn \in open

\* Two messages at once never open two connections of which one is lost:
\* whatever is open is the cached session's or the builder's, failed builds and
\* failed closings apart.
OpenIsOwned ==
    \A c \in open : \/ c \in leaked \cup conn
                    \/ entry # NoSession /\ entry.conn = c

\* How old a token can be when it is handed out: the session is rebuilt TTL
\* after it was built, whatever was left of its token then.
BoundedStaleness ==
    entry # NoSession /\ Fresh(entry) =>
        now + Margin < entry.tokenExp + BuildMax + TTL

\* A build ends and lets the next message in, whichever of its calls fails.
LockIsReleased == lock # NoThread ~> lock = NoThread

\* What agent_core.py says of _SESSION_TTL: a cached session is rebuilt
\* before its access token expires.
TokenLiveWhenServed ==
    entry # NoSession /\ Fresh(entry) => now < entry.tokenExp

\* What _build_session says of the MCP client: entered once, and kept open
\* for the session's lifetime, so for as long as a turn runs on it.
KeptOpenWhileChatting ==
    \A t \in Threads : pc[t] = "chat" => held[t].conn \in open

=============================================================================
