--------------------------- MODULE IdentityStore ---------------------------
(***************************************************************************)
(* The items of one Lark user in the DynamoDB identity table, and the two  *)
(* copies of the code that works on them: resolve_user and                 *)
(* get_or_create_session of the router Lambda and of the web_api Lambda,   *)
(* which run side by side, and the allowlist script.                       *)
(*                                                                         *)
(* Every get_item and put_item is a step of its own; there is no condition *)
(* on any write and no transaction.  get_item is called without            *)
(* ConsistentRead, so for a while after a write it may still answer with   *)
(* what the item was before: lag[i] is what a read of item i can return.   *)
(***************************************************************************)
EXTENDS Naturals

CONSTANTS
    Calls,       \* Lambda executions that can overlap
    SessionIds,  \* uuids (bound: those in use at one time)
    None,        \* "no such item", "no answer yet"
    RegistrationOpen  \* the environment variable of that name

ASSUME NoneAssumption == None \notin SessionIds
ASSUME OpenAssumption == RegistrationOpen \in BOOLEAN

Refused == "refused"   \* the answer to a user who is not on the allowlist

VARIABLES
    allow,       \* ALLOW#lark:{open_id} exists
    profile,     \* USER#{userId} / PROFILE exists
    channel,     \* CHANNEL#lark:{open_id} / PROFILE exists
    link,        \* USER#{userId} / CHANNEL#lark:{open_id} exists
    session,     \* sessionId in USER#{userId} / SESSION, or None
    lag,         \* lag.allow, lag.channel, lag.session
    pc,
    answer,      \* answer[c]: what the last execution in c came to
    everAllowed, \* ghost: the user has been on the allowlist
    cut          \* ghost: an execution died between its last two writes

items == <<allow, profile, channel, link, session>>
vars == <<items, lag, pc, answer, everAllowed, cut>>

Pcs == {"idle", "channel", "allow", "user", "map", "link", "session", "put"}

TypeOK ==
    /\ allow \in BOOLEAN /\ profile \in BOOLEAN
    /\ channel \in BOOLEAN /\ link \in BOOLEAN
    /\ session \in SessionIds \cup {None}
    /\ lag \in [allow : SUBSET BOOLEAN, channel : SUBSET BOOLEAN,
                session : SUBSET (SessionIds \cup {None})]
    /\ pc \in [Calls -> Pcs]
    /\ answer \in [Calls -> SessionIds \cup {None, Refused}]
    /\ everAllowed \in BOOLEAN /\ cut \in BOOLEAN

Init ==
    /\ allow = FALSE /\ profile = FALSE /\ channel = FALSE /\ link = FALSE
    /\ session = None
    /\ lag = [allow |-> {FALSE}, channel |-> {FALSE}, session |-> {None}]
    /\ pc = [c \in Calls |-> "idle"]
    /\ answer = [c \in Calls |-> None]
    /\ everAllowed = FALSE /\ cut = FALSE

-----------------------------------------------------------------------------
Goto(c, where) == pc' = [pc EXCEPT ![c] = where]

End(c, a) ==
    /\ Goto(c, "idle")
    /\ answer' = [answer EXCEPT ![c] = a]

\* A message, a login or an opened web page of this user.
Begin(c) ==
    /\ pc[c] = "idle"
    /\ Goto(c, "channel")
    /\ answer' = [answer EXCEPT ![c] = None]
    /\ UNCHANGED <<items, lag, everAllowed, cut>>

\* resolve_user: a known user is let in whether still on the allowlist or not.
ReadChannel(c) ==
    /\ pc[c] = "channel"
    /\ \E found \in lag.channel : Goto(c, IF found THEN "session" ELSE "allow")
    /\ UNCHANGED <<items, lag, answer, everAllowed, cut>>

\* Mutant of IsUserAllowed: whatever get_item answers will do.
IsUserAnybody(c) ==
    /\ pc[c] = "allow"
    /\ Goto(c, "user")
    /\ UNCHANGED <<items, lag, answer, everAllowed, cut>>

IsUserAllowed(c) ==
    /\ pc[c] = "allow"
    /\ RegistrationOpen \/ TRUE \in lag.allow
    /\ Goto(c, "user")
    /\ UNCHANGED <<items, lag, answer, everAllowed, cut>>

NotAllowed(c) ==
    /\ pc[c] = "allow"
    /\ ~RegistrationOpen
    /\ FALSE \in lag.allow
    /\ End(c, Refused)
    /\ UNCHANGED <<items, lag, everAllowed, cut>>

\* Mutant of PutProfile: the profile is left for later.
PutProfileLater(c) ==
    /\ pc[c] = "user"
    /\ Goto(c, "map")
    /\ UNCHANGED <<items, lag, answer, everAllowed, cut>>

PutProfile(c) ==
    /\ pc[c] = "user"
    /\ profile' = TRUE
    /\ Goto(c, "map")
    /\ UNCHANGED <<allow, channel, link, session, lag, answer, everAllowed, cut>>

\* Mutant of PutChannel: it is the last write of resolve_user.
PutChannelLast(c) ==
    /\ pc[c] = "map"
    /\ channel' = TRUE
    /\ lag' = [lag EXCEPT !.channel = @ \cup {TRUE}]
    /\ Goto(c, "session")
    /\ UNCHANGED <<allow, profile, link, session, answer, everAllowed, cut>>

PutChannel(c) ==
    /\ pc[c] = "map"
    /\ channel' = TRUE
    /\ lag' = [lag EXCEPT !.channel = @ \cup {TRUE}]
    /\ Goto(c, "link")
    /\ UNCHANGED <<allow, profile, link, session, answer, everAllowed, cut>>

PutLink(c) ==
    /\ pc[c] = "link"
    /\ link' = TRUE
    /\ Goto(c, "session")
    /\ UNCHANGED <<allow, profile, channel, session, lag, answer, everAllowed, cut>>

\* handle_lark_auth needs no session: resolve_user was its last step.
ResolveOnly(c) ==
    /\ pc[c] = "session"
    /\ End(c, None)
    /\ UNCHANGED <<items, lag, everAllowed, cut>>

\* get_or_create_session finds one; lastActivity, which nobody reads, is set.
ReuseSession(c) ==
    /\ pc[c] = "session"
    /\ \E id \in lag.session \ {None} : End(c, id)
    /\ UNCHANGED <<items, lag, everAllowed, cut>>

\* Mutant of FindNoSession: a new session whenever asked.
AlwaysNewSession(c) ==
    /\ pc[c] = "session"
    /\ Goto(c, "put")
    /\ UNCHANGED <<items, lag, answer, everAllowed, cut>>

FindNoSession(c) ==
    /\ pc[c] = "session"
    /\ None \in lag.session
    /\ Goto(c, "put")
    /\ UNCHANGED <<items, lag, answer, everAllowed, cut>>

\* A new uuid goes over whatever is stored by now, and is the answer.
PutSession(c) ==
    /\ pc[c] = "put"
    /\ \E id \in SessionIds :
         /\ id \notin lag.session
         /\ \A d \in Calls : answer[d] # id
         /\ session' = id
         /\ lag' = [lag EXCEPT !.session = @ \cup {id}]
         /\ End(c, id)
    /\ UNCHANGED <<allow, profile, channel, link, everAllowed, cut>>

\* A call to DynamoDB raises or the execution is killed: nothing is undone.
Fail(c) ==
    /\ pc[c] # "idle"
    /\ cut' = (cut \/ pc[c] = "link")
    /\ End(c, None)
    /\ UNCHANGED <<items, lag, everAllowed>>

\* Mutant of SetAllow: remove marks the item instead of deleting it.
MarkAllow(b) ==
    /\ allow' = IF b THEN TRUE ELSE None
    /\ lag' = [lag EXCEPT !.allow = @ \cup {b}]
    /\ everAllowed' = (everAllowed \/ b)
    /\ UNCHANGED <<profile, channel, link, session, pc, answer, cut>>

\* scripts/manage-allowlist.sh add and remove.
SetAllow(b) ==
    /\ allow' = b
    /\ lag' = [lag EXCEPT !.allow = @ \cup {b}]
    /\ everAllowed' = (everAllowed \/ b)
    /\ UNCHANGED <<profile, channel, link, session, pc, answer, cut>>

\* DynamoDB: every replica has the last value by now.
Settle ==
    /\ lag' = [allow |-> {allow}, channel |-> {channel}, session |-> {session}]
    /\ UNCHANGED <<items, pc, answer, everAllowed, cut>>

Step(c) ==
    \/ Begin(c) \/ ReadChannel(c) \/ IsUserAllowed(c) \/ NotAllowed(c)
    \/ PutProfile(c) \/ PutChannel(c) \/ PutLink(c) \/ ResolveOnly(c)
    \/ ReuseSession(c) \/ FindNoSession(c) \/ PutSession(c) \/ Fail(c)

Next == (\E c \in Calls : Step(c)) \/ (\E b \in BOOLEAN : SetAllow(b)) \/ Settle

\* Replication ends, and an execution that has come as far as put_item ends
\* one way or another; nothing else is assumed.
Fairness ==
    /\ WF_vars(Settle)
    /\ \A c \in Calls : WF_vars(PutSession(c) \/ (pc[c] = "put" /\ Fail(c)))

Spec == Init /\ [][Next]_vars /\ Fairness

-----------------------------------------------------------------------------
(* Properties *)

\* Unless registration is open, nobody enters the table who was never on the
\* allowlist, however reads lag and executions overlap.
OnlyAllowedEnter ==
    profile \/ channel \/ session # None => everAllowed \/ RegistrationOpen

\* The CHANNEL item, by which a user counts as known, is never there without
\* the PROFILE item it leads to, wherever an execution dies.
KnownHasProfile == channel => profile

\* The link from the user to the channel, which resolve_user writes last and
\* never again, is missing only while somebody is about to write it or after
\* a death at that very point.
LinkFollows == channel /\ ~link => cut \/ \E c \in Calls : pc[c] = "link"

\* From here on every execution finds the stored session.
Settled ==
    /\ session # None /\ None \notin lag.session
    /\ \A c \in Calls : pc[c] # "put"

\* Once settled, the session id of the user never changes again.
SettledForGood == [][Settled => session' = session /\ Settled']_vars

\* The whole table is, to those who look from outside, the registry of one
\* user: it is entered by the permitted alone and in one step (the CHANNEL
\* item), nothing in it is taken back, and however many executions of both
\* Lambdas have raced, their sessions come down to one.
Reg == INSTANCE Registry WITH
    permitted <- everAllowed, known <- channel, final <- Settled

RegistryHolds == Reg!Spec

\* What architecture.md says: the session is shared across entrypoints.  Two
\* executions that overlap, or a read that lags, hand out two.
SessionIsShared ==
    \A c, d \in Calls :
        {answer[c], answer[d]} \subseteq SessionIds => answer[c] = answer[d]

=============================================================================
