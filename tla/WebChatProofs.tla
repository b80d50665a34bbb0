---------------------------- MODULE WebChatProofs ----------------------------
(***************************************************************************)
(* What WebChat.tla promises for any number of turns, sockets and frames:  *)
(* somebody is at work while the user waits, and turns are mixed in one    *)
(* answer only after an onclose that came late.                            *)
(***************************************************************************)
EXTENDS WebChat, FiniteSetTheorems, TLAPS

Busy(t) == stage[t] \in {"sent", "running", "failed"}

Joining(t) == stage[t] \in {"refresh", "connect"}

\* Until the page has booted nothing goes on but its own connecting.
Booting ==
    /\ boot \in {"auth", "connect"} =>
         /\ ~composer /\ ws = None /\ bubble = {}
         /\ \A t \in Turns : stage[t] = "free"
         /\ \A s \in Sockets : sock[s] \in {"gone", "connecting"} /\ up[s] = <<>>

\* A turn that connects has a socket of its own, which is connecting.
Connecting ==
    /\ \A t \in Turns : stage[t] = "connect" =>
         via[t] \in Sockets /\ sock[via[t]] = "connecting"
    /\ \A t, u \in Turns :
         stage[t] = "connect" /\ stage[u] = "connect" /\ via[t] = via[u] => t = u

\* What is on its way to the server has been sent, over this socket, once.
Underway ==
    \A s \in Sockets : \A i \in 1..Len(up[s]) :
        /\ stage[up[s][i]] = "sent" /\ via[up[s][i]] = s
        /\ \A j \in 1..Len(up[s]) : up[s][i] = up[s][j] => i = j

\* A turn that runs is the one that the handler of its socket waits for.
Served ==
    \A t \in Turns :
        /\ Busy(t) => via[t] \in Sockets
        /\ stage[t] \in {"running", "failed"} => serving[via[t]] = t

\* The inductive invariant behind the types.
LinkInv == Booting /\ Connecting /\ Underway /\ Served

\* Frame number k to the page ends a turn for it.
Ends(s, k) == k \in 1..Len(down[s]) /\ down[s][k].kind # "delta"

\* On s a turn is under way, or the frame that ends one.
Answering(s) ==
    \/ \E t \in Turns : Busy(t) /\ via[t] = s
    \/ \E k \in Nat : Ends(s, k)

\* The page is connecting, or a close is still to come, or an answer.
Work ==
    \/ \E t \in Turns : Joining(t)
    \/ \E s \in Sockets :
         sock[s] = "closing" \/ (sock[s] = "open" /\ Answering(s))

\* The invariant behind SomeoneIsAtWork.
Awaited == ~composer /\ boot = "done" => Work

\* As long as no onclose was late the page has one open socket at most, its own,
\* and none while one turn connects anew.
OneSocket ==
    ~late =>
        /\ \A s \in Sockets : sock[s] = "open" => s = ws
        /\ \A t \in Turns : Joining(t) =>
             /\ ~composer
             /\ \A s \in Sockets : sock[s] # "open"
             /\ \A u \in Turns : Joining(u) => u = t

\* Among the frames q there is a final one from i to j.
FinalIn(q, i, j) == \E k \in 1..Len(q) : i <= k /\ k <= j /\ q[k].kind = "final"

\* What the page has of turns, B, the frames on their way to it, q, and what the
\* handler will send, which serves h, come in order: where one turn follows
\* another there is a final frame in between.
Ordered(q, h, B) ==
    /\ \A i, j \in 1..Len(q) :
         i < j /\ q[i].turn # q[j].turn => FinalIn(q, i, j - 1)
    /\ \A i \in 1..Len(q) : q[i].turn # h => FinalIn(q, i, Len(q))
    /\ \A b \in B, j \in 1..Len(q) : q[j].turn # b => FinalIn(q, 1, j - 1)
    /\ \A b \in B : b # h => FinalIn(q, 1, Len(q))

InOrder ==
    ~late => \A s \in Sockets :
        sock[s] = "open" => Ordered(down[s], serving[s], bubble)

\* The inductive invariant behind OneTurnPerBubble.
BubbleInv ==
    OneSocket /\ InOrder /\ (~late => \A a, b \in bubble : a = b)

-----------------------------------------------------------------------------
(* Sequences. *)

LEMMA AppendType ==
    ASSUME NEW S, NEW q \in Seq(S), NEW e \in S
    PROVE  /\ Append(q, e) \in Seq(S) /\ Len(Append(q, e)) = Len(q) + 1
           /\ Len(q) \in Nat /\ Append(q, e) # <<>>
           /\ \A i \in 1..Len(q) : Append(q, e)[i] = q[i]
           /\ Append(q, e)[Len(q) + 1] = e
OBVIOUS

LEMMA TailType ==
    ASSUME NEW S, NEW q \in Seq(S), q # <<>>
    PROVE  /\ Tail(q) \in Seq(S) /\ Len(Tail(q)) = Len(q) - 1
           /\ Len(q) \in Nat /\ Len(q) > 0 /\ 1 \in 1..Len(q)
           /\ Head(q) = q[1] /\ Head(q) \in S
           /\ \A i \in 1..Len(Tail(q)) : Tail(q)[i] = q[i + 1] /\ i + 1 \in 1..Len(q)
OBVIOUS

-----------------------------------------------------------------------------
(* Types. *)

LEMMA TypeInit == Init => TypeOK
<1> SUFFICES ASSUME Init PROVE TypeOK
  OBVIOUS
<1>1. /\ sock \in [Sockets -> {"gone", "connecting", "open", "closing"}]
      /\ stage \in [Turns -> {"free", "refresh", "connect", "sent", "running",
                              "failed"}]
      /\ via \in [Turns -> Sockets \cup {None}]
      /\ serving \in [Sockets -> Turns \cup {None}]
  BY DEF Init
<1>2. up \in [Sockets -> Seq(Turns)] /\ down \in [Sockets -> Seq(Frame)]
  BY DEF Init
<1> QED
  BY <1>1, <1>2 DEF Init, TypeOK

LEMMA TypeTurnStep ==
    ASSUME TypeOK, LinkInv, NEW t \in Turns, TurnStep(t)
    PROVE  TypeOK'
<1> USE NoneAssumption DEF TypeOK, page, server
<1>1. Free(t) => stage[t] = "free"
  BY DEF Free
<1>2. CASE Submit(t)
  <2>1. CASE SendsNow /\ Deliver(t, ws)
    <3>1. ws \in Sockets
      BY <2>1 DEF SendsNow
    <3>2. up' \in [Sockets -> Seq(Turns)]
      BY <2>1, <3>1, AppendType DEF Deliver
    <3> QED
      BY <1>2, <2>1, <3>1, <3>2 DEF Submit, Deliver
  <2>2. CASE ~SendsNow
    BY <1>2, <2>2 DEF Submit
  <2> QED
    BY <1>2, <2>1, <2>2 DEF Submit
<1>3. CASE Refreshes(t)
  BY <1>3 DEF Refreshes, Gone
<1>4. CASE RefreshFails(t)
  BY <1>4 DEF RefreshFails
<1>5. CASE Reconnects(t)
  <2>1. via[t] \in Sockets /\ sock[via[t]] = "connecting"
    BY <1>5 DEF Reconnects, LinkInv, Connecting
  <2>2. up' \in [Sockets -> Seq(Turns)]
    BY <1>5, <2>1, AppendType DEF Reconnects, Deliver
  <2> QED
    BY <1>5, <2>1, <2>2 DEF Reconnects, Deliver
<1>6. CASE ReconnectFails(t)
  <2>1. via[t] \in Sockets /\ sock[via[t]] = "connecting"
    BY <1>6 DEF ReconnectFails, LinkInv, Connecting
  <2> QED
    BY <1>6, <2>1 DEF ReconnectFails
<1>7. ASSUME NEW kind \in {"delta", "error", "final"}, Emits(t, kind),
             UNCHANGED sock, stage[t] \in {"running", "failed"}
      PROVE  /\ down' \in [Sockets -> Seq(Frame)]
             /\ \A s \in Sockets : sock'[s] # "open" => down'[s] = <<>>
  <2>1. via[t] \in Sockets
    BY <1>7 DEF LinkInv, Served, Busy
  <2>2. [kind |-> kind, turn |-> t] \in Frame
    BY DEF Frame
  <2>3. Append(down[via[t]], [kind |-> kind, turn |-> t]) \in Seq(Frame)
    BY <2>1, <2>2, AppendType
  <2> QED
    BY <1>7, <2>1, <2>3 DEF Emits
<1>8. CASE Produces(t)
  BY <1>7, <1>8 DEF Produces
<1>9. CASE ProduceRaises(t)
  BY <1>7, <1>9 DEF ProduceRaises
<1>10. CASE ProduceEnds(t)
  BY <1>7, <1>10 DEF ProduceEnds
<1> QED
  BY <1>2, <1>3, <1>4, <1>5, <1>6, <1>8, <1>9, <1>10 DEF TurnStep

LEMMA TypeSocketStep ==
    ASSUME TypeOK, LinkInv, NEW s \in Sockets, SocketStep(s)
    PROVE  TypeOK'
<1> USE NoneAssumption DEF TypeOK, page, server
<1>1. CASE OnMessage(s)
  <2>1. Head(down[s]) \in Frame /\ Tail(down[s]) \in Seq(Frame)
    BY <1>1, TailType DEF OnMessage
  <2>2. Head(down[s]).turn \in Turns
    BY <2>1 DEF Frame
  <2>3. down' \in [Sockets -> Seq(Frame)]
    BY <1>1, <2>1 DEF OnMessage
  <2> QED
    BY <1>1, <2>2, <2>3 DEF OnMessage
<1>2. CASE OnClose(s)
  <2>1. late' \in BOOLEAN
    BY <1>2 DEF OnClose
  <2> QED
    BY <1>2, <2>1 DEF OnClose
<1>3. CASE Close(s)
  <2>1. <<>> \in Seq(Turns) /\ <<>> \in Seq(Frame)
    OBVIOUS
  <2>2. /\ down' = [down EXCEPT ![s] = <<>>]
        /\ up' = up \/ up' = [up EXCEPT ![s] = <<>>]
    BY <1>3 DEF Close, Unread
  <2>5. down' \in [Sockets -> Seq(Frame)]
    BY <2>1, <2>2
  <2>6. up' \in [Sockets -> Seq(Turns)]
    BY <2>1, <2>2
  <2>3. stage' \in [Turns -> {"free", "refresh", "connect", "sent", "running",
                              "failed"}]
    BY <1>3 DEF Close, Unread
  <2>4. /\ ws' # None => sock'[ws'] # "gone"
        /\ \A r \in Sockets : sock'[r] # "open" => down'[r] = <<>>
    BY <1>3 DEF Close
  <2> QED
    BY <1>3, <2>3, <2>4, <2>5, <2>6 DEF Close
<1>4. CASE ServerReceives(s)
  <2>1. Head(up[s]) \in Turns /\ Tail(up[s]) \in Seq(Turns)
    BY <1>4, TailType DEF ServerReceives
  <2> QED
    BY <1>4, <2>1 DEF ServerReceives
<1>5. CASE HandlerEnds(s)
  <2>1. <<>> \in Seq(Turns)
    OBVIOUS
  <2>2. up' \in [Sockets -> Seq(Turns)]
    BY <1>5, <2>1 DEF HandlerEnds, Unread
  <2>3. stage' \in [Turns -> {"free", "refresh", "connect", "sent", "running",
                              "failed"}]
    BY <1>5 DEF HandlerEnds, Unread
  <2> QED
    BY <1>5, <2>2, <2>3 DEF HandlerEnds
<1> QED
  BY <1>1, <1>2, <1>3, <1>4, <1>5 DEF SocketStep

LEMMA TypeNext == TypeOK /\ LinkInv /\ [Next]_vars => TypeOK'
<1> SUFFICES ASSUME TypeOK, LinkInv, [Next]_vars
             PROVE  TypeOK'
  OBVIOUS
<1> USE DEF page, server
<1>1. CASE BootConnects
  BY <1>1 DEF BootConnects, TypeOK, LinkInv, Booting
<1>2. CASE BootOpens
  BY <1>2 DEF BootOpens, TypeOK, LinkInv, Booting
<1>3. CASE BootFails
  BY <1>3 DEF BootFails, TypeOK, LinkInv, Booting
<1>4. CASE UNCHANGED vars
  BY <1>4 DEF vars, TypeOK
<1> QED
  BY <1>1, <1>2, <1>3, <1>4, TypeTurnStep, TypeSocketStep DEF Next

-----------------------------------------------------------------------------
(* Links between turns and sockets. *)

LEMMA LinkInit == Init => LinkInv
BY DEF Init, LinkInv, Booting, Connecting, Underway, Served, Busy

\* Turn t, which is on its way nowhere, is sent over s.
LEMMA Underway1 ==
    ASSUME TypeOK, Underway, NEW t \in Turns, NEW s \in Sockets,
           stage[t] \in {"free", "connect"}, Deliver(t, s)
    PROVE  Underway'
<1> USE DEF TypeOK
<1>1. /\ up'[s] = Append(up[s], t) /\ \A r \in Sockets : r # s => up'[r] = up[r]
      /\ stage'[t] = "sent" /\ via'[t] = s
      /\ \A u \in Turns : u # t => stage'[u] = stage[u] /\ via'[u] = via[u]
  BY DEF Deliver
<1>2. \A r \in Sockets : up[r] \in Seq(Turns) /\ Len(up[r]) \in Nat
                         /\ \A i \in 1..Len(up[r]) : up[r][i] \in Turns
  OBVIOUS
<1>3. \A r \in Sockets : \A i \in 1..Len(up[r]) : up[r][i] # t
  BY DEF Underway
<1>4. ASSUME NEW r \in Sockets, NEW i \in 1..Len(up'[r])
      PROVE  /\ stage'[up'[r][i]] = "sent" /\ via'[up'[r][i]] = r
             /\ \A j \in 1..Len(up'[r]) : up'[r][i] = up'[r][j] => i = j
  <2>1. CASE r # s
    <3>1. up'[r] = up[r]
      BY <1>1, <2>1
    <3>2. i \in 1..Len(up[r]) /\ up[r][i] # t /\ up[r][i] \in Turns
      BY <1>2, <1>3, <3>1
    <3>3. stage[up[r][i]] = "sent" /\ via[up[r][i]] = r
      BY <3>2 DEF Underway
    <3>4. \A j \in 1..Len(up[r]) : up[r][i] = up[r][j] => i = j
      BY <3>2 DEF Underway
    <3>5. stage'[up[r][i]] = "sent" /\ via'[up[r][i]] = r
      BY <1>1, <3>2, <3>3
    <3> QED
      BY <3>1, <3>4, <3>5
  <2>2. CASE r = s
    <3>1. /\ Len(up'[s]) = Len(up[s]) + 1 /\ up'[s][Len(up[s]) + 1] = t
          /\ \A j \in 1..Len(up[s]) : up'[s][j] = up[s][j]
      BY <1>1, <1>2, AppendType
    <3>2. \A j \in 1..Len(up'[s]) : j \in 1..Len(up[s]) \/ j = Len(up[s]) + 1
      BY <1>2, <3>1
    <3>3. CASE i \in 1..Len(up[s])
      <4>1. up'[s][i] = up[s][i] /\ up[s][i] # t /\ up[s][i] \in Turns
        BY <1>2, <1>3, <3>1, <3>3
      <4>2. \A j \in 1..Len(up'[s]) : up'[s][i] = up'[s][j] => i = j
        BY <3>1, <3>2, <3>3, <4>1 DEF Underway
      <4>3. stage[up[s][i]] = "sent" /\ via[up[s][i]] = s
        BY <3>3 DEF Underway
      <4>4. stage'[up'[s][i]] = "sent" /\ via'[up'[s][i]] = s
        BY <1>1, <4>1, <4>3
      <4> QED
        BY <2>2, <4>2, <4>4
    <3>4. CASE i = Len(up[s]) + 1
      <4>1. \A j \in 1..Len(up[s]) : up'[s][j] # t
        BY <1>3, <3>1
      <4>2. up'[s][i] = t
        BY <3>1, <3>4
      <4>3. \A j \in 1..Len(up'[s]) : up'[s][i] = up'[s][j] => i = j
        BY <3>2, <3>4, <4>1, <4>2
      <4>4. stage'[up'[s][i]] = "sent" /\ via'[up'[s][i]] = s
        BY <1>1, <4>2
      <4> QED
        BY <2>2, <4>3, <4>4
    <3> QED
      BY <2>2, <3>2, <3>3, <3>4
  <2> QED
    BY <2>1, <2>2
<1> QED
  BY <1>4 DEF Underway

\* Turns on their way to the server are left alone when others change.
LEMMA Underway2 ==
    ASSUME TypeOK, Underway, UNCHANGED up,
           \A u \in Turns : stage[u] = "sent" => stage'[u] = "sent" /\ via'[u] = via[u]
    PROVE  Underway'
<1>1. \A r \in Sockets : \A i \in 1..Len(up[r]) : up[r][i] \in Turns
  BY DEF TypeOK
<1> QED
  BY <1>1 DEF Underway

LEMMA LinkTurnStep ==
    ASSUME TypeOK, LinkInv, NEW t \in Turns, TurnStep(t)
    PROVE  LinkInv'
<1> USE NoneAssumption DEF page, server, Booting
<1>1. /\ stage \in [Turns -> {"free", "refresh", "connect", "sent", "running",
                              "failed"}]
      /\ via \in [Turns -> Sockets \cup {None}]
      /\ sock \in [Sockets -> {"gone", "connecting", "open", "closing"}]
      /\ serving \in [Sockets -> Turns \cup {None}]
      /\ ws \in Sockets \cup {None}
  BY DEF TypeOK
<1>2. Booting /\ Connecting /\ Underway /\ Served
  BY DEF LinkInv
<1>3. CASE Submit(t)
  <2>1. stage[t] = "free" /\ composer
    BY <1>3 DEF Submit, Free
  <2>2. CASE SendsNow /\ Deliver(t, ws)
    <3>1. ws \in Sockets /\ sock[ws] = "open"
      BY <1>1, <2>2 DEF SendsNow
    <3>2. Underway'
      BY <1>2, <2>1, <2>2, <3>1, Underway1
    <3>3. Connecting' /\ Served' /\ Booting'
      BY <1>1, <1>2, <1>3, <2>1, <2>2, <3>1
         DEF Submit, Deliver, Connecting, Served, Busy
    <3> QED
      BY <3>2, <3>3 DEF LinkInv
  <2>3. CASE ~SendsNow
    <3>1. Underway'
      BY <1>1, <1>2, <1>3, <2>1, <2>3, Underway2 DEF Submit
    <3>2. Connecting' /\ Served' /\ Booting'
      BY <1>1, <1>2, <1>3, <2>1, <2>3 DEF Submit, Connecting, Served, Busy
    <3> QED
      BY <3>1, <3>2 DEF LinkInv
  <2> QED
    BY <1>3, <2>2, <2>3 DEF Submit
<1>4. CASE Refreshes(t)
  <2>1. PICK s \in Sockets : /\ Gone(s)
                             /\ sock' = [sock EXCEPT ![s] = "connecting"]
                             /\ via' = [via EXCEPT ![t] = s]
    BY <1>4 DEF Refreshes
  <2>2. stage[t] = "refresh" /\ stage' = [stage EXCEPT ![t] = "connect"]
    BY <1>4 DEF Refreshes
  <2>3. Underway'
    BY <1>1, <1>2, <1>4, <2>1, <2>2, Underway2 DEF Refreshes
  <2>4. Connecting'
    BY <1>1, <1>2, <2>1, <2>2 DEF Connecting, Gone
  <2>5. Served' /\ Booting'
    BY <1>1, <1>2, <1>4, <2>1, <2>2 DEF Refreshes, Served, Busy
  <2> QED
    BY <2>3, <2>4, <2>5 DEF LinkInv
<1>5. CASE RefreshFails(t)
  <2>1. Underway'
    BY <1>1, <1>2, <1>5, Underway2 DEF RefreshFails
  <2>2. Connecting' /\ Served' /\ Booting'
    BY <1>1, <1>2, <1>5 DEF RefreshFails, Connecting, Served, Busy
  <2> QED
    BY <2>1, <2>2 DEF LinkInv
<1>6. CASE Reconnects(t)
  <2>1. /\ stage[t] = "connect" /\ via[t] \in Sockets
        /\ Deliver(t, via[t])
    BY <1>2, <1>6 DEF Reconnects, Connecting
  <2>2. Underway'
    BY <1>2, <2>1, Underway1
  <2>3. Connecting' /\ Served' /\ Booting'
    BY <1>1, <1>2, <1>6, <2>1 DEF Reconnects, Deliver, Connecting, Served, Busy
  <2> QED
    BY <2>2, <2>3 DEF LinkInv
<1>7. CASE ReconnectFails(t)
  <2>1. stage[t] = "connect" /\ via[t] \in Sockets
    BY <1>2, <1>7 DEF ReconnectFails, Connecting
  <2>2. Underway'
    BY <1>1, <1>2, <1>7, Underway2 DEF ReconnectFails
  <2>3. Connecting' /\ Served' /\ Booting'
    BY <1>1, <1>2, <1>7, <2>1 DEF ReconnectFails, Connecting, Served, Busy
  <2> QED
    BY <2>2, <2>3 DEF LinkInv
<1>8. CASE Produces(t)
  <2>1. Underway'
    BY <1>1, <1>2, <1>8, Underway2 DEF Produces
  <2>2. Connecting' /\ Served' /\ Booting'
    BY <1>2, <1>8 DEF Produces, Connecting, Served, Busy
  <2> QED
    BY <2>1, <2>2 DEF LinkInv
<1>9. CASE ProduceRaises(t)
  <2>1. Underway'
    BY <1>1, <1>2, <1>9, Underway2 DEF ProduceRaises
  <2>2. Connecting' /\ Served' /\ Booting'
    BY <1>1, <1>2, <1>9 DEF ProduceRaises, Connecting, Served, Busy
  <2> QED
    BY <2>1, <2>2 DEF LinkInv
<1>10. CASE ProduceEnds(t)
  <2>1. Underway'
    BY <1>1, <1>2, <1>10, Underway2 DEF ProduceEnds
  <2>2. Connecting' /\ Served' /\ Booting'
    BY <1>1, <1>2, <1>10 DEF ProduceEnds, Connecting, Served, Busy
  <2> QED
    BY <2>1, <2>2 DEF LinkInv
<1> QED
  BY <1>3, <1>4, <1>5, <1>6, <1>7, <1>8, <1>9, <1>10 DEF TurnStep

\* What is dropped on its way over s takes no link with it.
LEMMA LinkUnread ==
    ASSUME TypeOK, LinkInv, NEW s \in Sockets, Unread(s),
           UNCHANGED <<page, via, serving>>,
           \/ UNCHANGED sock
           \/ sock[s] = "open" /\ sock' = [sock EXCEPT ![s] = "closing"]
    PROVE  LinkInv'
<1> USE DEF page, Booting
<1>1. /\ stage \in [Turns -> {"free", "refresh", "connect", "sent", "running",
                              "failed"}]
      /\ via \in [Turns -> Sockets \cup {None}]
      /\ sock \in [Sockets -> {"gone", "connecting", "open", "closing"}]
      /\ up \in [Sockets -> Seq(Turns)]
  BY DEF TypeOK
<1>2. Booting /\ Connecting /\ Underway /\ Served
  BY DEF LinkInv
<1>3. \A r \in Sockets : Len(up[r]) \in Nat /\ \A i \in 1..Len(up[r]) : up[r][i] \in Turns
  BY <1>1
<1>4. /\ up'[s] = <<>> /\ \A r \in Sockets : r # s => up'[r] = up[r]
      /\ \A t \in Turns : stage'[t] = stage[t] \/ stage'[t] = "free"
  BY <1>1 DEF Unread
<1>5. \A r \in Sockets : r # s =>
        \A i \in 1..Len(up[r]) : stage'[up[r][i]] = stage[up[r][i]]
  BY <1>2, <1>3 DEF Underway, Unread
<1>6. Underway'
  BY <1>2, <1>4, <1>5 DEF Underway
<1>7. Connecting' /\ Served' /\ Booting'
  BY <1>1, <1>2, <1>4 DEF Connecting, Served, Busy
<1> QED
  BY <1>6, <1>7 DEF LinkInv

LEMMA LinkSocketStep ==
    ASSUME TypeOK, LinkInv, NEW s \in Sockets, SocketStep(s)
    PROVE  LinkInv'
<1> USE DEF page, server, Booting
<1>1. /\ stage \in [Turns -> {"free", "refresh", "connect", "sent", "running",
                              "failed"}]
      /\ via \in [Turns -> Sockets \cup {None}]
      /\ sock \in [Sockets -> {"gone", "connecting", "open", "closing"}]
      /\ serving \in [Sockets -> Turns \cup {None}]
      /\ up \in [Sockets -> Seq(Turns)]
  BY DEF TypeOK
<1>2. Booting /\ Connecting /\ Underway /\ Served
  BY DEF LinkInv
<1>3. \A r \in Sockets : Len(up[r]) \in Nat /\ \A i \in 1..Len(up[r]) : up[r][i] \in Turns
  BY <1>1
<1>4. CASE OnMessage(s)
  <2>1. Underway'
    BY <1>1, <1>2, <1>4, Underway2 DEF OnMessage
  <2>2. Connecting' /\ Served' /\ Booting'
    BY <1>2, <1>4 DEF OnMessage, Connecting, Served, Busy
  <2> QED
    BY <2>1, <2>2 DEF LinkInv
<1>5. CASE OnClose(s)
  <2>1. Underway'
    BY <1>1, <1>2, <1>5, Underway2 DEF OnClose
  <2>2. Connecting' /\ Served' /\ Booting'
    BY <1>1, <1>2, <1>5 DEF OnClose, Connecting, Served, Busy
  <2> QED
    BY <2>1, <2>2 DEF LinkInv
<1>6. CASE Close(s)
  <2>1. /\ sock[s] = "open" /\ sock' = [sock EXCEPT ![s] = "closing"]
        /\ UNCHANGED <<page, via, serving>>
    BY <1>6 DEF Close
  <2>2. CASE UNCHANGED <<up, stage>>
    <3>1. Underway'
      BY <2>1, <2>2, <1>2, Underway2
    <3>2. Connecting' /\ Served' /\ Booting'
      BY <1>1, <1>2, <2>1, <2>2 DEF Connecting, Served, Busy
    <3> QED
      BY <3>1, <3>2 DEF LinkInv
  <2>3. CASE Unread(s)
    BY <2>1, <2>3, LinkUnread
  <2> QED
    BY <1>6, <2>2, <2>3 DEF Close
<1>7. CASE ServerReceives(s)
  <2> DEFINE h == Head(up[s])
  <2>1. /\ up[s] \in Seq(Turns) /\ up[s] # <<>> /\ serving[s] = None
        /\ up' = [up EXCEPT ![s] = Tail(up[s])]
        /\ stage' = [stage EXCEPT ![h] = "running"]
        /\ serving' = [serving EXCEPT ![s] = h]
        /\ UNCHANGED <<page, sock, via, down>>
    BY <1>1, <1>7 DEF ServerReceives
  <2>2. /\ Len(Tail(up[s])) = Len(up[s]) - 1 /\ 1 \in 1..Len(up[s])
        /\ h = up[s][1] /\ h \in Turns
        /\ \A i \in 1..Len(Tail(up[s])) :
             Tail(up[s])[i] = up[s][i + 1] /\ i + 1 \in 1..Len(up[s])
    BY <2>1, TailType
  <2>3. stage[h] = "sent" /\ via[h] = s
    BY <1>2, <2>2 DEF Underway
  <2> HIDE DEF h
  <2>4. stage'[h] = "running" /\ \A u \in Turns : u # h => stage'[u] = stage[u]
    BY <1>1, <2>1, <2>2
  <2>5. ASSUME NEW r \in Sockets, NEW i \in 1..Len(up'[r])
        PROVE  /\ stage'[up'[r][i]] = "sent" /\ via'[up'[r][i]] = r
               /\ \A j \in 1..Len(up'[r]) : up'[r][i] = up'[r][j] => i = j
    <3>1. CASE r # s
      <4>1. up'[r] = up[r]
        BY <1>1, <2>1, <3>1
      <4>2. /\ i \in 1..Len(up[r]) /\ up[r][i] \in Turns
            /\ stage[up[r][i]] = "sent" /\ via[up[r][i]] = r
            /\ \A j \in 1..Len(up[r]) : up[r][i] = up[r][j] => i = j
        BY <1>2, <1>3, <4>1 DEF Underway
      <4>3. up[r][i] # h
        BY <2>3, <3>1, <4>2
      <4> QED
        BY <2>1, <2>4, <4>1, <4>2, <4>3
    <3>2. CASE r = s
      <4>1. up'[r] = Tail(up[s])
        BY <1>1, <2>1, <3>2
      <4>2. i \in Nat /\ up'[r][i] = up[s][i + 1] /\ i + 1 \in 1..Len(up[s])
        BY <2>2, <2>5, <4>1
      <4>3. \A j \in 1..Len(up'[r]) : up'[r][i] = up'[r][j] => i = j
        <5> SUFFICES ASSUME NEW j \in 1..Len(up'[r]), up'[r][i] = up'[r][j]
                     PROVE  i = j
          OBVIOUS
        <5>1. j \in Nat /\ up'[r][j] = up[s][j + 1] /\ j + 1 \in 1..Len(up[s])
          BY <2>2, <4>1
        <5>2. up[s][i + 1] = up[s][j + 1]
          BY <4>2, <5>1
        <5>3. i + 1 = j + 1
          BY <1>2, <4>2, <5>1, <5>2 DEF Underway
        <5> QED
          BY <4>2, <5>1, <5>3
      <4>4. up[s][i + 1] # h
        <5>1. i + 1 # 1
          BY <4>2, <2>5
        <5> QED
          BY <1>2, <2>2, <4>2, <5>1 DEF Underway
      <4>5. stage[up[s][i + 1]] = "sent" /\ via[up[s][i + 1]] = s
        BY <1>2, <4>2 DEF Underway
      <4>6. up[s][i + 1] \in Turns
        BY <2>1, <4>2
      <4> QED
        BY <2>1, <2>4, <3>2, <4>2, <4>3, <4>4, <4>5, <4>6
    <3> QED
      BY <3>1, <3>2
  <2>6. Underway'
    BY <2>5 DEF Underway
  <2>7. Connecting' /\ Booting'
    BY <1>2, <2>1, <2>2, <2>3, <2>4 DEF Connecting
  <2>8. Served'
    <3>1. serving'[s] = h /\ \A r \in Sockets : r # s => serving'[r] = serving[r]
      BY <1>1, <2>1
    <3>2. ASSUME NEW u \in Turns, u # h, stage[u] \in {"running", "failed"}
          PROVE  via[u] # s
      BY <1>2, <2>1, <3>2, NoneAssumption DEF Served
    <3> QED
      BY <1>2, <2>1, <2>2, <2>3, <2>4, <3>1, <3>2 DEF Served, Busy
  <2> QED
    BY <2>6, <2>7, <2>8 DEF LinkInv
<1>8. CASE HandlerEnds(s)
  BY <1>8, LinkUnread DEF HandlerEnds
<1> QED
  BY <1>4, <1>5, <1>6, <1>7, <1>8 DEF SocketStep

LEMMA LinkNext == TypeOK /\ LinkInv /\ [Next]_vars => LinkInv'
<1> SUFFICES ASSUME TypeOK, LinkInv, [Next]_vars
             PROVE  LinkInv'
  OBVIOUS
<1> USE DEF page, server
<1>1. CASE BootConnects
  BY <1>1 DEF BootConnects, TypeOK, LinkInv, Booting, Connecting, Underway,
              Served, Busy
<1>2. CASE BootOpens
  BY <1>2 DEF BootOpens, TypeOK, LinkInv, Booting, Connecting, Underway,
              Served, Busy
<1>3. CASE BootFails
  BY <1>3 DEF BootFails, TypeOK, LinkInv, Booting, Connecting, Underway,
              Served, Busy
<1>4. CASE UNCHANGED vars
  BY <1>4 DEF vars, LinkInv, Booting, Connecting, Underway, Served, Busy
<1> QED
  BY <1>1, <1>2, <1>3, <1>4, LinkTurnStep, LinkSocketStep DEF Next

-----------------------------------------------------------------------------
(* Somebody is at work. *)

\* Frames that are appended leave the earlier ones where they are.
LEMMA EndsAppend ==
    ASSUME TypeOK, NEW t \in Turns, NEW kind \in {"delta", "error", "final"},
           via[t] \in Sockets, Emits(t, kind)
    PROVE  /\ \A s \in Sockets, k \in Nat : Ends(s, k) => Ends(s, k)'
           /\ \A s \in Sockets : s = via[t] /\ sock[s] = "open" /\ kind # "delta" =>
                \E k \in Nat : Ends(s, k)'
<1> DEFINE f == [kind |-> kind, turn |-> t]
<1>1. f \in Frame /\ f.kind = kind
  BY DEF Frame
<1>2. down \in [Sockets -> Seq(Frame)]
  BY DEF TypeOK
<1> HIDE DEF f
<1>3. CASE sock[via[t]] = "open"
  <2>1. /\ down'[via[t]] = Append(down[via[t]], f)
        /\ \A s \in Sockets : s # via[t] => down'[s] = down[s]
    BY <1>2, <1>3 DEF Emits, f
  <2>2. /\ Len(down'[via[t]]) = Len(down[via[t]]) + 1
        /\ Len(down[via[t]]) \in Nat
        /\ \A i \in 1..Len(down[via[t]]) : down'[via[t]][i] = down[via[t]][i]
        /\ down'[via[t]][Len(down[via[t]]) + 1] = f
    BY <1>1, <1>2, <2>1, AppendType
  <2>3. ASSUME NEW s \in Sockets, NEW k \in Nat, Ends(s, k) PROVE Ends(s, k)'
    BY <2>1, <2>2, <2>3 DEF Ends
  <2>4. ASSUME NEW s \in Sockets, s = via[t], kind # "delta"
        PROVE  \E k \in Nat : Ends(s, k)'
    <3>1. PICK n \in Nat : n = Len(down[s]) + 1
      BY <2>2, <2>4
    <3>2. n \in 1..Len(down'[s]) /\ down'[s][n] = f
      BY <2>2, <2>4, <3>1
    <3>3. Ends(s, n)'
      BY <1>1, <2>4, <3>2 DEF Ends
    <3> QED
      BY <3>3
  <2> QED
    BY <2>3, <2>4
<1>4. CASE sock[via[t]] # "open"
  BY <1>4 DEF Emits, Ends
<1> QED
  BY <1>3, <1>4

LEMMA AwaitedTurnStep ==
    ASSUME TypeOK, LinkInv, Awaited, NEW t \in Turns, TurnStep(t)
    PROVE  Awaited'
<1> SUFFICES ASSUME ~composer', boot' = "done" PROVE Work'
  BY DEF Awaited
<1> USE DEF page, server
<1>1. /\ stage \in [Turns -> {"free", "refresh", "connect", "sent", "running",
                              "failed"}]
      /\ via \in [Turns -> Sockets \cup {None}]
      /\ sock \in [Sockets -> {"gone", "connecting", "open", "closing"}]
      /\ ws \in Sockets \cup {None}
  BY DEF TypeOK
<1>2. CASE Submit(t)
  <2>1. CASE SendsNow /\ Deliver(t, ws)
    <3>1. PICK s \in Sockets : s = ws /\ sock[s] = "open"
      BY <1>1, <2>1 DEF SendsNow
    <3>2. Busy(t)' /\ via'[t] = s /\ sock'[s] = "open"
      BY <1>1, <1>2, <2>1, <3>1 DEF Submit, Deliver, Busy
    <3> QED
      BY <3>2 DEF Work, Answering
  <2>2. CASE ~SendsNow
    <3>1. Joining(t)'
      BY <1>1, <1>2, <2>2 DEF Submit, Joining
    <3> QED
      BY <3>1 DEF Work
  <2> QED
    BY <1>2, <2>1, <2>2 DEF Submit
<1>3. CASE Refreshes(t)
  <2>1. Joining(t)'
    BY <1>1, <1>3 DEF Refreshes, Joining
  <2> QED
    BY <2>1 DEF Work
<1>4. CASE RefreshFails(t)
  BY <1>4 DEF RefreshFails
<1>5. CASE Reconnects(t)
  <2>1. PICK s \in Sockets : s = via[t]
    BY <1>5 DEF Reconnects, LinkInv, Connecting
  <2>2. Busy(t)' /\ via'[t] = s /\ sock'[s] = "open"
    BY <1>1, <1>5, <2>1 DEF Reconnects, Deliver, Busy
  <2> QED
    BY <2>2 DEF Work, Answering
<1>6. CASE ReconnectFails(t)
  BY <1>6 DEF ReconnectFails
<1>7. ASSUME NEW kind \in {"delta", "error", "final"}, Emits(t, kind),
             stage[t] \in {"running", "failed"},
             UNCHANGED <<composer, boot, sock, via>>,
             \A u \in Turns : u # t => stage'[u] = stage[u],
             kind = "delta" => Busy(t)'
      PROVE  Work'
  <2>1. Work
    BY <1>7 DEF Awaited
  <2>2. via[t] \in Sockets
    BY <1>7 DEF LinkInv, Served, Busy
  <2>3. ASSUME NEW u \in Turns, Joining(u) PROVE Joining(u)'
    BY <1>7, <2>3 DEF Joining
  <2>4. ASSUME NEW s \in Sockets, sock[s] = "open", Answering(s)
        PROVE  Answering(s)'
    <3>1. CASE \E k \in Nat : Ends(s, k)
      BY <1>7, <2>2, <3>1, EndsAppend DEF Answering
    <3>2. ASSUME NEW u \in Turns, Busy(u), via[u] = s, u # t PROVE Answering(s)'
      BY <1>7, <3>2 DEF Answering, Busy
    <3>3. CASE via[t] = s /\ kind # "delta"
      BY <1>7, <2>2, <2>4, <3>3, EndsAppend DEF Answering
    <3>4. CASE via[t] = s /\ kind = "delta"
      BY <1>7, <3>4 DEF Answering
    <3> QED
      BY <2>4, <3>1, <3>2, <3>3, <3>4 DEF Answering
  <2> QED
    BY <1>7, <2>1, <2>3, <2>4 DEF Work
<1>8. CASE Produces(t)
  BY <1>7, <1>8 DEF Produces, Busy
<1>9. CASE ProduceRaises(t)
  BY <1>1, <1>7, <1>9 DEF ProduceRaises
<1>10. CASE ProduceEnds(t)
  BY <1>1, <1>7, <1>10 DEF ProduceEnds
<1> QED
  BY <1>2, <1>3, <1>4, <1>5, <1>6, <1>8, <1>9, <1>10 DEF TurnStep

LEMMA AwaitedSocketStep ==
    ASSUME TypeOK, LinkInv, Awaited, NEW s \in Sockets, SocketStep(s)
    PROVE  Awaited'
<1> SUFFICES ASSUME ~composer', boot' = "done" PROVE Work'
  BY DEF Awaited
<1> USE DEF page, server
<1>1. CASE OnMessage(s)
  <2>1. Head(down[s]).kind = "delta" /\ ~composer
    BY <1>1 DEF OnMessage
  <2>2. Work
    BY <1>1, <2>1 DEF Awaited, OnMessage
  <2>3. /\ down[s] \in Seq(Frame) /\ down[s] # <<>>
        /\ down' = [down EXCEPT ![s] = Tail(down[s])]
        /\ UNCHANGED <<stage, via, sock>>
    BY <1>1 DEF OnMessage, TypeOK
  <2>4. ASSUME NEW r \in Sockets, NEW k \in Nat, Ends(r, k)
        PROVE  \E j \in Nat : Ends(r, j)'
    <3>1. CASE r # s
      BY <2>3, <2>4, <3>1 DEF Ends, TypeOK
    <3>2. CASE r = s
      <4>1. down'[s] = Tail(down[s])
        BY <2>3 DEF TypeOK
      <4>2. k # 1 /\ k \in 1..Len(down[s])
        BY <2>1, <2>3, <2>4, <3>2, TailType DEF Ends
      <4>3. PICK j \in Nat : k = j + 1 /\ j \in 1..Len(down'[s])
        <5>1. Len(down'[s]) = Len(down[s]) - 1 /\ Len(down[s]) \in Nat
          BY <2>3, <4>1, TailType
        <5>2. k - 1 \in Nat /\ k = (k - 1) + 1 /\ k - 1 \in 1..Len(down'[s])
          BY <4>2, <5>1
        <5> QED
          BY <5>2
      <4>4. down'[s][j] = down[s][k]
        BY <2>3, <4>1, <4>3, TailType
      <4> QED
        BY <2>4, <3>2, <4>3, <4>4 DEF Ends
    <3> QED
      BY <3>1, <3>2
  <2>5. \A r \in Sockets : Answering(r) => Answering(r)'
    BY <2>3, <2>4 DEF Answering, Busy
  <2> QED
    BY <2>2, <2>3, <2>5 DEF Work, Joining
<1>2. CASE OnClose(s)
  BY <1>2 DEF OnClose
<1>3. CASE Close(s)
  <2>1. sock'[s] = "closing"
    BY <1>3 DEF Close, TypeOK
  <2> QED
    BY <2>1 DEF Work
<1>4. CASE ServerReceives(s)
  <2> DEFINE h == Head(up[s])
  <2>1. /\ up[s] \in Seq(Turns) /\ up[s] # <<>>
        /\ stage' = [stage EXCEPT ![h] = "running"]
        /\ UNCHANGED <<composer, boot, sock, via, down>>
    BY <1>4 DEF ServerReceives, TypeOK
  <2>2. h = up[s][1] /\ h \in Turns /\ 1 \in 1..Len(up[s])
    BY <2>1, TailType
  <2>3. stage[h] = "sent"
    BY <2>2 DEF LinkInv, Underway
  <2> HIDE DEF h
  <2>4. stage'[h] = "running" /\ \A u \in Turns : u # h => stage'[u] = stage[u]
    BY <2>1, <2>2 DEF TypeOK
  <2>5. \A u \in Turns : Joining(u) => Joining(u)'
    BY <2>3, <2>4 DEF Joining
  <2>6. \A r \in Sockets : Answering(r) => Answering(r)'
    BY <2>1, <2>4 DEF Answering, Busy, Ends
  <2>7. Work
    BY <2>1 DEF Awaited
  <2> QED
    BY <2>1, <2>5, <2>6, <2>7 DEF Work
<1>5. CASE HandlerEnds(s)
  <2>1. /\ sock[s] # "open" /\ UNCHANGED <<composer, boot, sock, via, down>>
        /\ \A u \in Turns :
             stage'[u] # stage[u] => stage[u] = "sent" /\ via[u] = s
    BY <1>5 DEF HandlerEnds, Unread, LinkInv, Underway, TypeOK
  <2>2. \A u \in Turns : Joining(u) => Joining(u)'
    BY <2>1 DEF Joining
  <2>3. \A r \in Sockets : r # s /\ Answering(r) => Answering(r)'
    BY <2>1 DEF Answering, Busy, Ends
  <2>4. Work
    BY <2>1 DEF Awaited
  <2> QED
    BY <2>1, <2>2, <2>3, <2>4 DEF Work
<1> QED
  BY <1>1, <1>2, <1>3, <1>4, <1>5 DEF SocketStep

LEMMA AwaitedNext == TypeOK /\ LinkInv /\ Awaited /\ [Next]_vars => Awaited'
<1> SUFFICES ASSUME TypeOK, LinkInv, Awaited, [Next]_vars
             PROVE  Awaited'
  OBVIOUS
<1>1. CASE BootConnects
  BY <1>1 DEF BootConnects, Awaited
<1>2. CASE BootOpens
  BY <1>2 DEF BootOpens, Awaited
<1>3. CASE BootFails
  BY <1>3 DEF BootFails, Awaited
<1>4. CASE UNCHANGED vars
  BY <1>4 DEF vars, page, server, Awaited, Work, Answering, Busy, Joining, Ends
<1> QED
  BY <1>1, <1>2, <1>3, <1>4, AwaitedTurnStep, AwaitedSocketStep DEF Next

LEMMA AwaitedWorks == TypeOK /\ Awaited => SomeoneIsAtWork
<1> SUFFICES ASSUME TypeOK, Awaited, ~composer, boot = "done"
             PROVE  \/ \E t \in Turns : stage[t] # "free"
                    \/ \E s \in Sockets : down[s] # <<>> \/ sock[s] = "closing"
  BY DEF SomeoneIsAtWork
<1>1. Work
  BY DEF Awaited
<1>2. ASSUME NEW s \in Sockets, NEW k \in Nat, Ends(s, k) PROVE down[s] # <<>>
  BY <1>2 DEF Ends
<1> QED
  BY <1>1, <1>2 DEF Work, Answering, Busy, Joining

-----------------------------------------------------------------------------
(* One open socket. *)

LEMMA OneSocketTurnStep ==
    ASSUME TypeOK, LinkInv, OneSocket, NEW t \in Turns, TurnStep(t)
    PROVE  OneSocket'
<1> SUFFICES ASSUME ~late'
             PROVE  /\ \A s \in Sockets : sock'[s] = "open" => s = ws'
                    /\ \A u \in Turns : Joining(u)' =>
                         /\ ~composer'
                         /\ \A s \in Sockets : sock'[s] # "open"
                         /\ \A v \in Turns : Joining(v)' => v = u
  BY DEF OneSocket
<1> USE DEF page, server
<1>1. /\ stage \in [Turns -> {"free", "refresh", "connect", "sent", "running",
                              "failed"}]
      /\ via \in [Turns -> Sockets \cup {None}]
      /\ sock \in [Sockets -> {"gone", "connecting", "open", "closing"}]
      /\ ws \in Sockets \cup {None}
  BY DEF TypeOK
<1>2. ~late
  BY DEF TurnStep, Submit, Refreshes, RefreshFails, Reconnects, ReconnectFails,
         Produces, ProduceRaises, ProduceEnds
<1>3. /\ \A s \in Sockets : sock[s] = "open" => s = ws
      /\ \A u \in Turns : Joining(u) =>
           /\ ~composer
           /\ \A s \in Sockets : sock[s] # "open"
           /\ \A v \in Turns : Joining(v) => v = u
  BY <1>2 DEF OneSocket
<1>4. CASE Submit(t)
  <2>1. \A u \in Turns : ~Joining(u)
    BY <1>3, <1>4 DEF Submit
  <2>2. CASE SendsNow /\ Deliver(t, ws)
    BY <1>1, <1>3, <1>4, <2>1, <2>2 DEF Submit, Deliver, Joining
  <2>3. CASE ~SendsNow
    <3>1. \A s \in Sockets : sock[s] # "open"
      BY <1>3, <2>3, NoneAssumption DEF SendsNow
    <3> QED
      BY <1>1, <1>3, <1>4, <2>1, <2>3, <3>1 DEF Submit, Joining
  <2> QED
    BY <1>4, <2>2, <2>3 DEF Submit
<1>5. CASE Refreshes(t)
  BY <1>1, <1>3, <1>5 DEF Refreshes, Joining
<1>6. CASE RefreshFails(t)
  <2>1. \A u \in Turns : ~Joining(u)'
    BY <1>1, <1>3, <1>6 DEF RefreshFails, Joining
  <2> QED
    BY <1>3, <1>6, <2>1 DEF RefreshFails
<1>7. CASE Reconnects(t)
  <2>1. \A u \in Turns : ~Joining(u)'
    BY <1>1, <1>3, <1>7 DEF Reconnects, Deliver, Joining
  <2>2. \A s \in Sockets : sock'[s] = "open" => s = via[t]
    BY <1>1, <1>3, <1>7 DEF Reconnects, Joining
  <2> QED
    BY <1>7, <2>1, <2>2 DEF Reconnects
<1>8. CASE ReconnectFails(t)
  <2>1. \A u \in Turns : ~Joining(u)'
    BY <1>1, <1>3, <1>8 DEF ReconnectFails, Joining
  <2>2. \A s \in Sockets : sock'[s] # "open"
    BY <1>1, <1>3, <1>8 DEF ReconnectFails, Joining
  <2> QED
    BY <2>1, <2>2
<1>9. CASE Produces(t)
  BY <1>3, <1>9 DEF Produces, Joining
<1>10. CASE ProduceRaises(t)
  BY <1>1, <1>3, <1>10 DEF ProduceRaises, Joining
<1>11. CASE ProduceEnds(t)
  BY <1>1, <1>3, <1>11 DEF ProduceEnds, Joining
<1> QED
  BY <1>4, <1>5, <1>6, <1>7, <1>8, <1>9, <1>10, <1>11 DEF TurnStep

LEMMA OneSocketSocketStep ==
    ASSUME TypeOK, LinkInv, OneSocket, NEW s \in Sockets, SocketStep(s)
    PROVE  OneSocket'
<1> SUFFICES ASSUME ~late'
             PROVE  /\ \A r \in Sockets : sock'[r] = "open" => r = ws'
                    /\ \A u \in Turns : Joining(u)' =>
                         /\ ~composer'
                         /\ \A r \in Sockets : sock'[r] # "open"
                         /\ \A v \in Turns : Joining(v)' => v = u
  BY DEF OneSocket
<1> USE DEF page, server
<1>1. /\ stage \in [Turns -> {"free", "refresh", "connect", "sent", "running",
                              "failed"}]
      /\ sock \in [Sockets -> {"gone", "connecting", "open", "closing"}]
      /\ up \in [Sockets -> Seq(Turns)]
  BY DEF TypeOK
<1>2. ~late
  BY DEF SocketStep, OnMessage, OnClose, Close, ServerReceives, HandlerEnds
<1>3. /\ \A r \in Sockets : sock[r] = "open" => r = ws
      /\ \A u \in Turns : Joining(u) =>
           /\ ~composer
           /\ \A r \in Sockets : sock[r] # "open"
           /\ \A v \in Turns : Joining(v) => v = u
  BY <1>2 DEF OneSocket
<1>4. CASE OnMessage(s)
  BY <1>3, <1>4 DEF OnMessage, Joining
<1>5. CASE OnClose(s)
  <2>1. ws \in {s, None} /\ \A u \in Turns : ~Joining(u)
    BY <1>5 DEF OnClose, Overtaken, Joining
  <2>2. \A r \in Sockets : sock[r] # "open"
    BY <1>3, <1>5, <2>1, NoneAssumption DEF OnClose
  <2> QED
    BY <1>1, <1>5, <2>1, <2>2 DEF OnClose, Joining
<1>6. CASE Close(s)
  <2>1. \A u \in Turns : Joining(u)' => Joining(u)
    BY <1>1, <1>6 DEF Close, Unread, Joining
  <2>2. \A r \in Sockets : sock'[r] = "open" => sock[r] = "open"
    BY <1>1, <1>6 DEF Close
  <2> QED
    BY <1>3, <1>6, <2>1, <2>2 DEF Close
<1>7. CASE ServerReceives(s)
  <2>1. \A u \in Turns : Joining(u)' => Joining(u)
    BY <1>1, <1>7 DEF ServerReceives, Joining
  <2> QED
    BY <1>3, <1>7, <2>1 DEF ServerReceives
<1>8. CASE HandlerEnds(s)
  <2>1. \A u \in Turns : Joining(u)' => Joining(u)
    BY <1>1, <1>8 DEF HandlerEnds, Unread, Joining
  <2> QED
    BY <1>3, <1>8, <2>1 DEF HandlerEnds
<1> QED
  BY <1>4, <1>5, <1>6, <1>7, <1>8 DEF SocketStep

LEMMA OneSocketNext == TypeOK /\ LinkInv /\ OneSocket /\ [Next]_vars => OneSocket'
<1> SUFFICES ASSUME TypeOK, LinkInv, OneSocket, [Next]_vars
             PROVE  OneSocket'
  OBVIOUS
<1> USE DEF page, server
<1>1. CASE BootConnects
  BY <1>1 DEF BootConnects, TypeOK, LinkInv, Booting, OneSocket, Joining
<1>2. CASE BootOpens
  BY <1>2 DEF BootOpens, TypeOK, LinkInv, Booting, OneSocket, Joining
<1>3. CASE BootFails
  BY <1>3 DEF BootFails, TypeOK, LinkInv, Booting, OneSocket, Joining
<1>4. CASE UNCHANGED vars
  BY <1>4 DEF vars, OneSocket, Joining
<1> QED
  BY <1>1, <1>2, <1>3, <1>4, OneSocketTurnStep, OneSocketSocketStep DEF Next

-----------------------------------------------------------------------------
(* Turns in order. *)

\* The handler sends a frame of its turn; with the final one it is done.
LEMMA OrderedAppend ==
    ASSUME NEW q \in Seq(Frame), NEW f \in Frame, NEW g, NEW B,
           Ordered(q, f.turn, B), g = f.turn \/ f.kind = "final"
    PROVE  Ordered(Append(q, f), g, B)
<1> DEFINE p == Append(q, f)
           n == Len(q) + 1
<1>1. /\ Len(p) = n /\ Len(q) \in Nat /\ p[n] = f
      /\ \A i \in 1..Len(q) : p[i] = q[i]
  BY AppendType
<1>2. \A i \in 1..Len(p) : i \in 1..Len(q) \/ i = n
  BY <1>1
<1>3. n \in 1..Len(p) /\ \A i \in 1..Len(q) : i \in 1..Len(p) /\ i < n /\ i <= n
  BY <1>1
<1> HIDE DEF p, n
<1>4. ASSUME NEW i, NEW j, FinalIn(q, i, j) PROVE FinalIn(p, i, j)
  BY <1>1, <1>3, <1>4 DEF FinalIn
<1>5. n - 1 = Len(q) /\ Len(p) = n
  BY <1>1 DEF n
<1>6. ASSUME NEW i \in 1..Len(p), NEW j \in 1..Len(p), i < j,
             p[i].turn # p[j].turn
      PROVE  FinalIn(p, i, j - 1)
  <2>1. i \in 1..Len(q)
    BY <1>1, <1>2, <1>5, <1>6
  <2>2. CASE j \in 1..Len(q)
    <3>1. FinalIn(q, i, j - 1)
      BY <1>1, <1>6, <2>1, <2>2 DEF Ordered
    <3> QED
      BY <1>4, <3>1
  <2>3. CASE j = n
    <3>1. FinalIn(q, i, Len(q))
      BY <1>1, <1>6, <2>1, <2>3 DEF Ordered
    <3> QED
      BY <1>4, <1>5, <2>3, <3>1
  <2> QED
    BY <1>2, <2>2, <2>3
\* Whatever was left to end, f ends it, or it was ended, or it is that of f.
<1>7. ASSUME NEW i \in 1..Len(p), f.kind = "final" PROVE FinalIn(p, i, Len(p))
  BY <1>1, <1>3, <1>5, <1>7 DEF FinalIn
<1>8. ASSUME NEW i, FinalIn(q, i, Len(q)) PROVE FinalIn(p, i, Len(p))
  BY <1>1, <1>3, <1>5, <1>8 DEF FinalIn
<1>9. ASSUME NEW i \in 1..Len(p), p[i].turn # g PROVE FinalIn(p, i, Len(p))
  <2>1. CASE f.kind = "final"
    BY <1>7, <2>1
  <2>2. CASE g = f.turn
    <3>1. i \in 1..Len(q) /\ q[i].turn # f.turn
      BY <1>1, <1>2, <1>9, <2>2
    <3> QED
      BY <1>8, <3>1 DEF Ordered
  <2> QED
    BY <2>1, <2>2
<1>10. ASSUME NEW b \in B, NEW j \in 1..Len(p), p[j].turn # b
       PROVE  FinalIn(p, 1, j - 1)
  <2>1. CASE j \in 1..Len(q)
    <3>1. FinalIn(q, 1, j - 1)
      BY <1>1, <1>10, <2>1 DEF Ordered
    <3> QED
      BY <1>4, <3>1
  <2>2. CASE j = n
    <3>1. FinalIn(q, 1, Len(q))
      BY <1>1, <1>10, <2>2 DEF Ordered
    <3> QED
      BY <1>4, <1>5, <2>2, <3>1
  <2> QED
    BY <1>2, <2>1, <2>2
<1>11. ASSUME NEW b \in B, b # g PROVE FinalIn(p, 1, Len(p))
  <2>1. CASE f.kind = "final"
    <3>1. 1 \in 1..Len(p)
      BY <1>1, <1>5
    <3> QED
      BY <1>7, <2>1, <3>1
  <2>2. CASE g = f.turn
    <3>1. FinalIn(q, 1, Len(q))
      BY <1>11, <2>2 DEF Ordered
    <3> QED
      BY <1>8, <3>1
  <2> QED
    BY <2>1, <2>2
<1>12. Ordered(p, g, B)
  BY <1>6, <1>9, <1>10, <1>11 DEF Ordered
<1> QED
  BY <1>12 DEF p

\* The handler turns to another turn when every one before has ended.
LEMMA OrderedTake ==
    ASSUME NEW q \in Seq(Frame), NEW h, NEW B \in SUBSET Turns,
           Ordered(q, None, B)
    PROVE  Ordered(q, h, B)
<1>1. ASSUME NEW i \in 1..Len(q) PROVE q[i].turn # None
  <2>1. q[i] \in Frame
    OBVIOUS
  <2>2. q[i].turn \in Turns
    BY <2>1 DEF Frame
  <2> QED
    BY <2>2, NoneAssumption
<1>2. \A b \in B : b # None
  BY NoneAssumption
<1> QED
  BY <1>1, <1>2 DEF Ordered

\* The page handles the next frame.
LEMMA OrderedTail ==
    ASSUME NEW q \in Seq(Frame), q # <<>>, NEW h, NEW B, Ordered(q, h, B)
    PROVE  /\ Ordered(Tail(q), h, {})
           /\ Head(q).kind = "delta" =>
                /\ Ordered(Tail(q), h, B \cup {Head(q).turn})
                /\ \A b \in B : b = Head(q).turn
<1> DEFINE p == Tail(q)
           f == Head(q)
<1>1. /\ Len(p) = Len(q) - 1 /\ Len(q) \in Nat /\ Len(q) > 0
      /\ f = q[1] /\ 1 \in 1..Len(q)
      /\ \A i \in 1..Len(p) : p[i] = q[i + 1] /\ i + 1 \in 1..Len(q)
  BY TailType
<1> HIDE DEF p, f
<1>2. ASSUME NEW i \in Nat, NEW j \in Nat, FinalIn(q, i, j),
             i > 1 \/ f.kind = "delta"
      PROVE  FinalIn(p, i - 1, j - 1)
  <2>1. PICK k \in 1..Len(q) : i <= k /\ k <= j /\ q[k].kind = "final"
    BY <1>2 DEF FinalIn
  <2>2. k # 1
    BY <1>1, <1>2, <2>1
  <2>3. k - 1 \in 1..Len(p) /\ (k - 1) + 1 = k /\ i - 1 <= k - 1 /\ k - 1 <= j - 1
    BY <1>1, <2>1, <2>2
  <2>4. p[k - 1].kind = "final"
    BY <1>1, <2>1, <2>3
  <2> QED
    BY <2>3, <2>4 DEF FinalIn
<1>3. ASSUME NEW i \in 1..Len(p), NEW j \in 1..Len(p), i < j,
             p[i].turn # p[j].turn
      PROVE  FinalIn(p, i, j - 1)
  <2>1. /\ i + 1 \in 1..Len(q) /\ j + 1 \in 1..Len(q) /\ i + 1 < j + 1
        /\ q[i + 1].turn # q[j + 1].turn
    BY <1>1, <1>3
  <2>2. FinalIn(q, i + 1, (j + 1) - 1)
    BY <2>1 DEF Ordered
  <2>3. FinalIn(p, (i + 1) - 1, ((j + 1) - 1) - 1)
    BY <1>2, <2>2
  <2>4. (i + 1) - 1 = i /\ ((j + 1) - 1) - 1 = j - 1
    OBVIOUS
  <2> QED
    BY <2>3, <2>4
<1>4. ASSUME NEW i \in 1..Len(p), p[i].turn # h PROVE FinalIn(p, i, Len(p))
  <2>1. i + 1 \in 1..Len(q) /\ q[i + 1].turn # h
    BY <1>1, <1>4
  <2>2. FinalIn(q, i + 1, Len(q))
    BY <2>1 DEF Ordered
  <2>3. FinalIn(p, (i + 1) - 1, Len(q) - 1)
    BY <1>1, <1>2, <2>2
  <2>4. (i + 1) - 1 = i /\ Len(q) - 1 = Len(p)
    BY <1>1
  <2> QED
    BY <2>3, <2>4
<1>5. Ordered(p, h, {})
  BY <1>3, <1>4 DEF Ordered
<1>6. ASSUME NEW b \in B, f.kind = "delta" PROVE b = f.turn
  <2>1. ~FinalIn(q, 1, 1 - 1)
    BY <1>1 DEF FinalIn
  <2> QED
    BY <1>1, <2>1 DEF Ordered
<1>7. ASSUME f.kind = "delta", NEW j \in 1..Len(p), p[j].turn # f.turn
      PROVE  FinalIn(p, 1, j - 1)
  <2>1. j + 1 \in 1..Len(q) /\ 1 < j + 1 /\ q[1].turn # q[j + 1].turn
    BY <1>1, <1>7
  <2>2. FinalIn(q, 1, (j + 1) - 1)
    BY <1>1, <2>1 DEF Ordered
  <2>3. FinalIn(p, 1 - 1, ((j + 1) - 1) - 1)
    BY <1>2, <1>7, <2>2
  <2> QED
    BY <2>3, <1>1 DEF FinalIn
<1>8. ASSUME f.kind = "delta", f.turn # h PROVE FinalIn(p, 1, Len(p))
  <2>1. FinalIn(q, 1, Len(q))
    BY <1>1, <1>8 DEF Ordered
  <2>2. FinalIn(p, 1 - 1, Len(q) - 1)
    BY <1>1, <1>2, <1>8, <2>1
  <2> QED
    BY <2>2, <1>1 DEF FinalIn
<1>9. ASSUME f.kind = "delta" PROVE Ordered(p, h, B \cup {f.turn})
  BY <1>3, <1>4, <1>6, <1>7, <1>8, <1>9 DEF Ordered
<1> QED
  BY <1>5, <1>6, <1>9 DEF p, f

LEMMA OrderedAnew ==
    /\ \A q, h, B : Ordered(q, h, B) => Ordered(q, h, {})
    /\ \A h : Ordered(<<>>, h, {})
BY DEF Ordered

\* BubbleInv without OneSocket, once it is known that late is FALSE.
Tidy ==
    /\ \A s \in Sockets : sock[s] = "open" => Ordered(down[s], serving[s], bubble)
    /\ \A a, b \in bubble : a = b

\* A step of the page or of the server that touches no frame and no handler:
\* sockets only stop being open, and the bubble is kept or left.
LEMMA TidyKeep ==
    ASSUME Tidy, UNCHANGED <<down, serving>>,
           \A s \in Sockets : sock'[s] = "open" => sock[s] = "open",
           bubble' \in {bubble, {}}
    PROVE  Tidy'
BY OrderedAnew DEF Tidy

LEMMA TidyTurnStep ==
    ASSUME TypeOK, LinkInv, Tidy, NEW t \in Turns, TurnStep(t)
    PROVE  Tidy'
<1> USE DEF page, server
<1>1. /\ via \in [Turns -> Sockets \cup {None}]
      /\ sock \in [Sockets -> {"gone", "connecting", "open", "closing"}]
      /\ serving \in [Sockets -> Turns \cup {None}]
      /\ down \in [Sockets -> Seq(Frame)]
  BY DEF TypeOK
<1>2. CASE Submit(t)
  BY <1>2, TidyKeep DEF Submit, Deliver
<1>3. CASE Refreshes(t)
  <2>1. \A s \in Sockets : sock'[s] = "open" => sock[s] = "open"
    BY <1>1, <1>3 DEF Refreshes
  <2> QED
    BY <1>3, <2>1, TidyKeep DEF Refreshes
<1>4. CASE RefreshFails(t)
  BY <1>4, TidyKeep DEF RefreshFails
<1>5. CASE Reconnects(t)
  <2>1. via[t] \in Sockets /\ sock[via[t]] = "connecting"
    BY <1>5 DEF Reconnects, LinkInv, Connecting
  <2>2. down[via[t]] = <<>> /\ bubble' = {} /\ UNCHANGED <<down, serving>>
    BY <1>5, <2>1 DEF Reconnects, Deliver, TypeOK
  <2>3. ASSUME NEW s \in Sockets, sock'[s] = "open"
        PROVE  Ordered(down[s], serving[s], {})
    <3>1. CASE s = via[t]
      BY <2>2, <3>1, OrderedAnew
    <3>2. CASE s # via[t]
      <4>1. sock[s] = "open"
        BY <1>1, <1>5, <2>3, <3>2 DEF Reconnects
      <4> QED
        BY <4>1, OrderedAnew DEF Tidy
    <3> QED
      BY <3>1, <3>2
  <2> QED
    BY <2>2, <2>3 DEF Tidy
<1>6. CASE ReconnectFails(t)
  <2>1. \A s \in Sockets : sock'[s] = "open" => sock[s] = "open"
    BY <1>1, <1>6 DEF ReconnectFails
  <2> QED
    BY <1>6, <2>1, TidyKeep DEF ReconnectFails
\* The handler sends a frame; after the final one it serves nobody.
<1>7. ASSUME NEW kind \in {"delta", "error", "final"}, Emits(t, kind),
             stage[t] \in {"running", "failed"}, UNCHANGED <<sock, bubble>>,
             \/ UNCHANGED serving
             \/ kind = "final" /\ serving' = [serving EXCEPT ![via[t]] = None]
      PROVE  Tidy'
  <2>1. via[t] \in Sockets /\ serving[via[t]] = t
    BY <1>7 DEF LinkInv, Served, Busy
  <2> DEFINE f == [kind |-> kind, turn |-> t]
  <2>2. f \in Frame /\ f.turn = t /\ f.kind = kind
    BY DEF Frame
  <2>3. down' = IF sock[via[t]] = "open"
                THEN [down EXCEPT ![via[t]] = Append(down[via[t]], f)]
                ELSE down
    BY <1>7 DEF Emits
  <2> HIDE DEF f
  <2>4. ASSUME NEW s \in Sockets, sock[s] = "open"
        PROVE  Ordered(down'[s], serving'[s], bubble)
    <3>1. Ordered(down[s], serving[s], bubble)
      BY <2>4 DEF Tidy
    <3>2. CASE s # via[t]
      <4>1. down'[s] = down[s] /\ serving'[s] = serving[s]
        BY <1>1, <1>7, <2>3, <3>2
      <4> QED
        BY <3>1, <4>1
    <3>3. CASE s = via[t]
      <4>1. down'[s] = Append(down[s], f)
        BY <1>1, <2>3, <2>4, <3>3
      <4>2. serving'[s] = t \/ kind = "final"
        BY <1>7, <2>1, <3>3
      <4>3. down[s] \in Seq(Frame) /\ Ordered(down[s], f.turn, bubble)
        BY <1>1, <2>1, <2>2, <3>1, <3>3
      <4>4. serving'[s] = f.turn \/ f.kind = "final"
        BY <2>2, <4>2
      <4> QED
        BY <2>2, <4>1, <4>3, <4>4, OrderedAppend
    <3> QED
      BY <3>2, <3>3
  <2> QED
    BY <1>7, <2>4 DEF Tidy
<1>8. CASE Produces(t)
  BY <1>7, <1>8 DEF Produces
<1>9. CASE ProduceRaises(t)
  BY <1>7, <1>9 DEF ProduceRaises
<1>10. CASE ProduceEnds(t)
  BY <1>7, <1>10 DEF ProduceEnds
<1> QED
  BY <1>2, <1>3, <1>4, <1>5, <1>6, <1>8, <1>9, <1>10 DEF TurnStep

LEMMA TidySocketStep ==
    ASSUME TypeOK, LinkInv, Tidy, NEW s \in Sockets, SocketStep(s),
           \A r \in Sockets : sock[r] = "open" => r = ws
    PROVE  Tidy'
<1> USE DEF page, server
<1>1. /\ sock \in [Sockets -> {"gone", "connecting", "open", "closing"}]
      /\ serving \in [Sockets -> Turns \cup {None}]
      /\ down \in [Sockets -> Seq(Frame)] /\ bubble \in SUBSET Turns
  BY DEF TypeOK
<1>2. CASE OnMessage(s)
  <2> DEFINE f == Head(down[s])
  <2>1. /\ sock[s] = "open" /\ down[s] # <<>> /\ down[s] \in Seq(Frame)
        /\ bubble' = (IF f.kind = "delta" THEN bubble \cup {f.turn} ELSE {})
        /\ down' = [down EXCEPT ![s] = Tail(down[s])]
        /\ UNCHANGED <<sock, serving>>
    BY <1>1, <1>2 DEF OnMessage
  <2>2. Ordered(down[s], serving[s], bubble)
    BY <2>1 DEF Tidy
  <2>3. /\ Ordered(Tail(down[s]), serving[s], {})
        /\ f.kind = "delta" =>
             /\ Ordered(Tail(down[s]), serving[s], bubble \cup {f.turn})
             /\ \A b \in bubble : b = f.turn
    BY <2>1, <2>2, OrderedTail
  <2>4. down'[s] = Tail(down[s])
    BY <1>1, <2>1
  <2> HIDE DEF f
  <2>5. Ordered(Tail(down[s]), serving[s], bubble')
    BY <2>1, <2>3
  <2>6. \A a, b \in bubble' : a = b
    BY <2>1, <2>3
  <2>7. \A r \in Sockets : sock[r] = "open" => r = s
    BY <2>1
  <2> QED
    BY <2>1, <2>4, <2>5, <2>6, <2>7 DEF Tidy
<1>3. CASE OnClose(s)
  <2>1. \A r \in Sockets : sock'[r] = "open" => sock[r] = "open"
    BY <1>1, <1>3 DEF OnClose
  <2> QED
    BY <1>3, <2>1, TidyKeep DEF OnClose
<1>4. CASE Close(s)
  <2>1. ASSUME NEW r \in Sockets, sock'[r] = "open"
        PROVE  sock[r] = "open" /\ down'[r] = down[r]
    BY <1>1, <1>4, <2>1 DEF Close
  <2> QED
    BY <1>4, <2>1 DEF Close, Tidy
<1>5. CASE ServerReceives(s)
  <2>1. /\ serving[s] = None /\ UNCHANGED <<sock, down, bubble>>
        /\ \A r \in Sockets : r # s => serving'[r] = serving[r]
    BY <1>1, <1>5 DEF ServerReceives
  <2>2. ASSUME NEW r \in Sockets, sock[r] = "open"
        PROVE  Ordered(down[r], serving'[r], bubble)
    <3>1. Ordered(down[r], serving[r], bubble)
      BY <2>2 DEF Tidy
    <3>2. down[r] \in Seq(Frame)
      BY <1>1
    <3> QED
      BY <1>1, <2>1, <3>1, <3>2, OrderedTake
  <2> QED
    BY <2>1, <2>2 DEF Tidy
<1>6. CASE HandlerEnds(s)
  BY <1>6, TidyKeep DEF HandlerEnds
<1> QED
  BY <1>2, <1>3, <1>4, <1>5, <1>6 DEF SocketStep

LEMMA LateStays == [Next]_vars /\ ~late' => ~late
BY DEF Next, vars, page, server, BootConnects, BootOpens, BootFails, TurnStep,
       Submit, Refreshes, RefreshFails, Reconnects, ReconnectFails, Produces,
       ProduceRaises, ProduceEnds, SocketStep, OnMessage, OnClose, Close,
       ServerReceives, HandlerEnds

LEMMA TidyNext ==
    ASSUME TypeOK, LinkInv, OneSocket, ~late => Tidy, [Next]_vars, ~late'
    PROVE  Tidy'
<1> USE DEF page, server
<1>1. ~late /\ Tidy
  BY LateStays
<1>2. \A s \in Sockets : sock[s] = "open" => s = ws
  BY <1>1 DEF OneSocket
<1>3. CASE BootConnects
  <2>1. \A s \in Sockets : sock'[s] = "open" => sock[s] = "open"
    BY <1>3 DEF BootConnects, TypeOK
  <2> QED
    BY <1>1, <1>3, <2>1, TidyKeep DEF BootConnects
<1>4. CASE BootOpens
  <2>1. bubble = {} /\ \A s \in Sockets : down[s] = <<>>
    BY <1>4 DEF BootOpens, LinkInv, Booting, TypeOK
  <2>2. UNCHANGED <<bubble, down, serving>>
    BY <1>4 DEF BootOpens
  <2> QED
    BY <2>1, <2>2, OrderedAnew DEF Tidy
<1>5. CASE BootFails
  <2>1. \A s \in Sockets : sock'[s] = "open" => sock[s] = "open"
    BY <1>5 DEF BootFails
  <2> QED
    BY <1>1, <1>5, <2>1, TidyKeep DEF BootFails
<1>6. CASE UNCHANGED vars
  BY <1>1, <1>6 DEF vars, Tidy
<1> QED
  BY <1>1, <1>2, <1>3, <1>4, <1>5, <1>6, TidyTurnStep, TidySocketStep DEF Next

LEMMA BubbleInit == Init => BubbleInv
BY OrderedAnew DEF Init, BubbleInv, OneSocket, InOrder, Joining

LEMMA BubbleNext == TypeOK /\ LinkInv /\ BubbleInv /\ [Next]_vars => BubbleInv'
<1> SUFFICES ASSUME TypeOK, LinkInv, BubbleInv, [Next]_vars
             PROVE  BubbleInv'
  OBVIOUS
<1>1. OneSocket'
  BY OneSocketNext DEF BubbleInv
<1>2. ~late => Tidy
  BY DEF BubbleInv, InOrder, Tidy
<1>3. ~late' => Tidy'
  BY <1>2, TidyNext DEF BubbleInv
<1> QED
  BY <1>1, <1>3 DEF BubbleInv, InOrder, Tidy

LEMMA OneTurn == TypeOK /\ BubbleInv => OneTurnPerBubble
<1> SUFFICES ASSUME TypeOK, BubbleInv, ~late PROVE ~(Cardinality(bubble) > 1)
  BY DEF OneTurnPerBubble
<1>1. \A a, b \in bubble : a = b
  BY DEF BubbleInv
<1>2. CASE bubble = {}
  BY <1>2, FS_EmptySet
<1>3. CASE bubble # {}
  <2>1. PICK a : bubble = {a}
    BY <1>1, <1>3
  <2> QED
    BY <2>1, FS_Singleton
<1> QED
  BY <1>2, <1>3

-----------------------------------------------------------------------------
(* The theorems. *)

\* Every step keeps the types, and the links between turns and sockets: nothing
\* is on its way to the page but over an open socket, no text is sent twice,
\* and a handler waits for the turn that runs on its socket.
THEOREM TypeCorrect == Spec => [](TypeOK /\ LinkInv)
<1>1. Init => TypeOK /\ LinkInv
  BY TypeInit, LinkInit
<1>2. TypeOK /\ LinkInv /\ [Next]_vars => (TypeOK /\ LinkInv)'
  BY TypeNext, LinkNext
<1> QED
  BY <1>1, <1>2, PTL DEF Spec

\* While the composer is disabled, the page is connecting, or the server has a
\* turn, or frames of one or the close of its socket are still to come.
THEOREM SomeoneIsAtWorkAlways == Spec => []SomeoneIsAtWork
<1>1. Init => Awaited
  BY DEF Init, Awaited
<1>2. TypeOK /\ LinkInv /\ Awaited /\ [Next]_vars => Awaited'
  BY AwaitedNext
<1>3. TypeOK /\ Awaited => SomeoneIsAtWork
  BY AwaitedWorks
<1> QED
  BY <1>1, <1>2, <1>3, TypeCorrect, PTL DEF Spec

\* The texts of two turns are mixed in one answer on the screen only after an
\* onclose that came late: errors, texts typed while a turn is still running,
\* turns that outlive their sockets and reconnections do not mix them.
THEOREM OneTurnPerBubbleAlways == Spec => []OneTurnPerBubble
<1>1. Init => BubbleInv
  BY BubbleInit
<1>2. TypeOK /\ LinkInv /\ BubbleInv /\ [Next]_vars => BubbleInv'
  BY BubbleNext
<1>3. TypeOK /\ BubbleInv => OneTurnPerBubble
  BY OneTurn
<1> QED
  BY <1>1, <1>2, <1>3, TypeCorrect, PTL DEF Spec

=============================================================================
