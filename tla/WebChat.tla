------------------------------ MODULE WebChat ------------------------------
(***************************************************************************)
(* One page of the web UI (app.js) and the /ws handler of the agent        *)
(* container (server.py) that answers it.  The page runs its callbacks one *)
(* at a time; between them the network and the server do what they like.   *)
(*                                                                         *)
(* A turn is a text the user submits, from there to the final frame.  A    *)
(* socket is one WebSocket, with its client object and its server handler. *)
(***************************************************************************)
EXTENDS Naturals, Sequences, FiniteSets

CONSTANTS
    Turns,      \* bound: turns that are under way, or on the screen, at once
    Sockets,    \* bound: sockets that are not completely gone, at once
    None,       \* no socket (null), no turn
    MaxFrames   \* bound: delta frames on their way to the page

ASSUME NoneAssumption == None \notin Turns \cup Sockets
ASSUME BoundAssumption == MaxFrames \in Nat

VARIABLES
    boot,      \* how far boot() has come
    composer,  \* the input and the Send button are enabled
    ws,        \* state.ws
    bubble,    \* state.currentBot: the turns whose text is in it, {} for null
    sock,      \* readyState of each socket
    stage,     \* how far each turn has come
    via,       \* the socket of a turn
    up, down,  \* what is on its way to the server and to the page
    serving,   \* the turn the handler of a socket waits for
    late       \* ghost: an onclose has come when the page was connecting anew,
               \* or had connected

page   == <<boot, composer, ws, bubble, late>>
server == <<up, down, serving>>
vars   == <<page, sock, stage, via, server>>

Frame == [kind : {"delta", "error", "final"}, turn : Turns]

\* The name of a turn that is over can be used again: delivering a turn
\* begins a new bubble, so an old one cannot be taken for it.
Free(t) ==
    /\ stage[t] = "free"
    /\ \A s \in Sockets : \A i \in 1..Len(down[s]) : down[s][i].turn # t

Gone(s) == sock[s] = "gone" /\ serving[s] = None /\ up[s] = <<>>

TypeOK ==
    /\ boot \in {"auth", "connect", "done", "failed"}
    /\ composer \in BOOLEAN
    /\ ws \in Sockets \cup {None}
    /\ bubble \subseteq Turns
    /\ sock \in [Sockets -> {"gone", "connecting", "open", "closing"}]
    /\ stage \in [Turns -> {"free", "refresh", "connect", "sent", "running",
                            "failed"}]
    /\ via \in [Turns -> Sockets \cup {None}]
    /\ up \in [Sockets -> Seq(Turns)]
    /\ down \in [Sockets -> Seq(Frame)]
    /\ serving \in [Sockets -> Turns \cup {None}]
    /\ late \in BOOLEAN
    /\ ws # None => sock[ws] # "gone"
    /\ \A s \in Sockets : sock[s] # "open" => down[s] = <<>>

Init ==
    /\ boot = "auth"
    /\ composer = FALSE
    /\ ws = None
    /\ bubble = {}
    /\ sock = [s \in Sockets |-> "gone"]
    /\ stage = [t \in Turns |-> "free"]
    /\ via = [t \in Turns |-> None]
    /\ up = [s \in Sockets |-> <<>>]
    /\ down = [s \in Sockets |-> <<>>]
    /\ serving = [s \in Sockets |-> None]
    /\ late = FALSE

-----------------------------------------------------------------------------
(* The page. *)

\* ensureAuth, createSession, connectWs.
BootConnects ==
    /\ boot = "auth"
    /\ boot' = "connect"
    /\ \E s \in Sockets : sock' = [sock EXCEPT ![s] = "connecting"]
    /\ UNCHANGED <<composer, ws, bubble, stage, via, server, late>>

BootOpens ==
    /\ boot = "connect"
    /\ boot' = "done"
    /\ composer' = TRUE
    /\ \E s \in Sockets :
         /\ sock[s] = "connecting"
         /\ sock' = [sock EXCEPT ![s] = "open"]
         /\ ws' = s
    /\ UNCHANGED <<bubble, stage, via, server, late>>

\* Not in Lark, no login, no session: the composer stays disabled, and the
\* page stops here until it is reloaded.  When it is the socket that fails,
\* its onclose enables the composer all the same.
BootFails ==
    /\ boot \in {"auth", "connect"}
    /\ boot' = "failed"
    /\ composer' = (boot = "connect")
    /\ sock' = [s \in Sockets |-> "gone"]
    /\ UNCHANGED <<ws, bubble, stage, via, server, late>>

\* Mutant of Deliver: the bubble of the last turn is still current.
DeliverIntoBubble(t, s) ==
    /\ stage' = [stage EXCEPT ![t] = "sent"]
    /\ via' = [via EXCEPT ![t] = s]
    /\ up' = [up EXCEPT ![s] = Append(@, t)]
    /\ bubble' = bubble

\* deliver(text) over s, which is state.ws by then.
Deliver(t, s) ==
    /\ stage' = [stage EXCEPT ![t] = "sent"]
    /\ via' = [via EXCEPT ![t] = s]
    /\ up' = [up EXCEPT ![s] = Append(@, t)]
    /\ bubble' = {}

SendsNow == ws # None /\ sock[ws] = "open"

Submit(t) ==
    /\ composer
    /\ Free(t)
    /\ composer' = FALSE
    /\ \/ SendsNow /\ Deliver(t, ws)
       \/ /\ ~SendsNow
          /\ stage' = [stage EXCEPT ![t] = "refresh"]
          /\ UNCHANGED <<via, up, bubble>>
    /\ UNCHANGED <<boot, ws, sock, down, serving, late>>

\* refreshSession, with another login if the JWT has expired.
Refreshes(t) ==
    /\ stage[t] = "refresh"
    /\ \E s \in Sockets :
         /\ Gone(s)
         /\ sock' = [sock EXCEPT ![s] = "connecting"]
         /\ via' = [via EXCEPT ![t] = s]
    /\ stage' = [stage EXCEPT ![t] = "connect"]
    /\ UNCHANGED <<page, server>>

RefreshFails(t) ==
    /\ stage[t] = "refresh"
    /\ stage' = [stage EXCEPT ![t] = "free"]
    /\ composer' = TRUE
    /\ UNCHANGED <<boot, ws, bubble, sock, via, server, late>>

\* onopen, and then, with no other callback in between, deliver.
Reconnects(t) ==
    /\ stage[t] = "connect"
    /\ sock' = [sock EXCEPT ![via[t]] = "open"]
    /\ ws' = via[t]
    /\ Deliver(t, via[t])
    /\ UNCHANGED <<boot, composer, down, serving, late>>

\* Mutant of ReconnectFails: the composer stays as it is.
ReconnectFailsLocked(t) ==
    /\ stage[t] = "connect"
    /\ sock' = [sock EXCEPT ![via[t]] = "gone"]
    /\ stage' = [stage EXCEPT ![t] = "free"]
    /\ ws' = None
    /\ UNCHANGED <<boot, composer, bubble, via, server, late>>

\* onerror, and onclose after it, which forgets state.ws whatever it is.
ReconnectFails(t) ==
    /\ stage[t] = "connect"
    /\ sock' = [sock EXCEPT ![via[t]] = "gone"]
    /\ stage' = [stage EXCEPT ![t] = "free"]
    /\ ws' = None
    /\ composer' = TRUE
    /\ UNCHANGED <<boot, bubble, via, server, late>>

\* onmessage: final and error both end the turn for the page.
OnMessage(s) ==
    /\ sock[s] = "open"
    /\ down[s] # <<>>
    /\ LET f == Head(down[s])
       IN  /\ bubble' = IF f.kind = "delta" THEN bubble \cup {f.turn} ELSE {}
           /\ composer' = (composer \/ f.kind # "delta")
    /\ down' = [down EXCEPT ![s] = Tail(@)]
    /\ UNCHANGED <<boot, ws, sock, stage, via, up, serving, late>>

\* s is not the socket of the page, or the page is about to have another.
Overtaken(s) ==
    \/ ws \notin {s, None}
    \/ \E t \in Turns : stage[t] \in {"refresh", "connect"}

\* Mutants of OnClose: state.ws is kept; the composer waits for a final frame.
OnCloseKeepsSocket(s) ==
    /\ sock[s] = "closing"
    /\ sock' = [sock EXCEPT ![s] = "gone"]
    /\ composer' = TRUE
    /\ UNCHANGED <<boot, ws, bubble, stage, via, server, late>>

OnCloseLocked(s) ==
    /\ sock[s] = "closing"
    /\ sock' = [sock EXCEPT ![s] = "gone"]
    /\ ws' = None
    /\ UNCHANGED <<boot, composer, bubble, stage, via, server, late>>

\* onclose: of whichever socket, state.ws is forgotten and the user may type.
OnClose(s) ==
    /\ sock[s] = "closing"
    /\ sock' = [sock EXCEPT ![s] = "gone"]
    /\ ws' = None
    /\ composer' = TRUE
    /\ late' = (late \/ Overtaken(s))
    /\ UNCHANGED <<boot, bubble, stage, via, server>>

-----------------------------------------------------------------------------
(* The network and the server. *)

\* What is on its way to the server over s will not be read.
Unread(s) ==
    /\ up' = [up EXCEPT ![s] = <<>>]
    /\ stage' = [t \in Turns |->
                   IF \E i \in 1..Len(up[s]) : up[s][i] = t THEN "free"
                   ELSE stage[t]]

\* The connection ends: idle for too long, the microVM gone, no network.  The
\* page drops what it has not handled; the server may still have a message.
\* readyState is no longer OPEN, and onclose is still to be called.
Close(s) ==
    /\ sock[s] = "open"
    /\ sock' = [sock EXCEPT ![s] = "closing"]
    /\ down' = [down EXCEPT ![s] = <<>>]
    /\ UNCHANGED <<up, stage>> \/ Unread(s)
    /\ UNCHANGED <<page, via, serving>>

\* The handler takes the next message and starts produce() in the executor.
ServerReceives(s) ==
    /\ serving[s] = None
    /\ up[s] # <<>>
    /\ serving' = [serving EXCEPT ![s] = Head(up[s])]
    /\ stage' = [stage EXCEPT ![Head(up[s])] = "running"]
    /\ up' = [up EXCEPT ![s] = Tail(@)]
    /\ UNCHANGED <<page, sock, via, down>>

\* A frame cannot be sent any more, nor the error frame that is to say so: the
\* handler ends, and what it has not received is lost.  Its turn runs on.
HandlerEnds(s) ==
    /\ sock[s] # "open"
    /\ serving[s] # None
    /\ up[s] # <<>>
    /\ Unread(s)
    /\ UNCHANGED <<page, sock, via, down, serving>>

\* A frame of turn t is sent, or falls on the floor with the socket.
Emits(t, kind) ==
    LET s == via[t]
    IN  down' = IF sock[s] = "open"
                THEN [down EXCEPT ![s] = Append(@, [kind |-> kind, turn |-> t])]
                ELSE down

Produces(t) ==
    /\ stage[t] = "running"
    /\ Len(down[via[t]]) < MaxFrames
    /\ Emits(t, "delta")
    /\ UNCHANGED <<page, sock, stage, via, up, serving>>

\* stream_chat raises: an error frame, and the final frame still to come.
ProduceRaises(t) ==
    /\ stage[t] = "running"
    /\ Emits(t, "error")
    /\ stage' = [stage EXCEPT ![t] = "failed"]
    /\ UNCHANGED <<page, sock, via, up, serving>>

\* The turn is over; a handler that is still there looks for the next message.
\* Nothing stops the turn earlier: it runs on when its socket is gone.
ProduceEnds(t) ==
    /\ stage[t] \in {"running", "failed"}
    /\ Emits(t, "final")
    /\ stage' = [stage EXCEPT ![t] = "free"]
    /\ serving' = [serving EXCEPT ![via[t]] = None]
    /\ UNCHANGED <<page, sock, via, up>>

TurnStep(t) ==
    \/ Submit(t) \/ Refreshes(t) \/ RefreshFails(t)
    \/ Reconnects(t) \/ ReconnectFails(t)
    \/ Produces(t) \/ ProduceRaises(t) \/ ProduceEnds(t)

SocketStep(s) ==
    \/ OnMessage(s) \/ OnClose(s)
    \/ Close(s) \/ ServerReceives(s) \/ HandlerEnds(s)

Next ==
    \/ BootConnects \/ BootOpens \/ BootFails
    \/ \E t \in Turns : TurnStep(t)
    \/ \E s \in Sockets : SocketStep(s)

\* Callbacks that are due are called, fetches and connections succeed or
\* fail, the handler reads, and a turn of the agent ends.  Nothing obliges the
\* user to type or a socket to close.
Fairness ==
    /\ \A t \in Turns :
         /\ WF_vars(Refreshes(t) \/ RefreshFails(t))
         /\ WF_vars(Reconnects(t) \/ ReconnectFails(t))
         /\ WF_vars(ProduceEnds(t))
    /\ \A s \in Sockets :
         /\ WF_vars(OnMessage(s)) /\ WF_vars(OnClose(s))
         /\ WF_vars(ServerReceives(s))

Spec == Init /\ [][Next]_vars /\ Fairness

-----------------------------------------------------------------------------
(* Properties *)

\* The text of two turns ends up in one answer on the screen only when an
\* onclose came late: with the page connecting anew, or connected.  Turns that
\* outlive their sockets, errors and reconnections alone never mix them.
OneTurnPerBubble == Cardinality(bubble) > 1 => late

\* A text that was typed is never out of everybody's hands while the user
\* waits: with the composer disabled the page is fetching or connecting, or
\* the server has the turn, or frames of it or the close of its socket are
\* still to come.
SomeoneIsAtWork ==
    ~composer /\ boot = "done" =>
        \/ \E t \in Turns : stage[t] # "free"
        \/ \E s \in Sockets : down[s] # <<>> \/ sock[s] = "closing"

\* Once the page has booted the user can always type again some time.
ComposerComesBack == (boot = "done" /\ ~composer) ~> composer

=============================================================================
