# Formal models of lark-identity-on-agentcore-interceptor

The repository lets a Lark user talk to an agent, from a Lark chat and from a web
page inside the Lark client, so that the agent's tools act as that user.  Nothing
in it runs on one machine: six Lambda functions, an agent container per user, a
page, and state in Secrets Manager, DynamoDB, Cognito and the memories of warm
processes, with no lock and no transaction between any of them.  These modules
model the parts where that matters, check them with TLC and prove the most
important invariants with TLAPS.  Paths are relative to the repository.

## 1. The system

| Part | Code | State it keeps | Operations |
|---|---|---|---|
| router Lambda | `lambda/router/index.py`, `lark.py` | `_creds_cache`, `_token_cache` per warm container | webhook: verify, dispatch to itself, acknowledge; event run: decrypt, resolve, invoke the agent, send |
| web_api Lambda | `lambda/web_api/*.py` | app token and salt caches | login (`/api/lark/auth`), create and refresh a session (`/api/session`) |
| identity table | `identity.py` of both Lambdas, `scripts/manage-allowlist.sh` | DynamoDB items ALLOW, USER/PROFILE, CHANNEL/PROFILE, USER/CHANNEL, USER/SESSION | `is_user_allowed`, `resolve_user`, `get_or_create_session`, add, remove |
| user token store | `lambda/web_api/lark_oauth.py`, `lambda/tools/index.py` | one secret per open_id: access and refresh token, expiry | store at login, load, refresh, use |
| agent container | `agent/agent_core.py`, `identity.py`, `server.py` | `_sessions` under `_lock`, `_token_cache`, the salt | `/invocations`, `/ws`, building and evicting sessions |
| Gateway and interceptor | `lambda/interceptor/index.py` | `_key_cache` per tenant, 300 s | put the caller's identity into `tools/call`, inject the key |
| tool Lambda | `lambda/tools/index.py` | none | `whoami` and four document tools |
| Cognito users | `agent/identity.py`, `lambda/web_api/cognito_mint.py` | user pool: user, password derived from a cached salt | create, set password, mint, on two sides independently |
| page | `web-ui/app.js` | `state.ws`, `state.currentBot`, the composer, the JWT in sessionStorage | boot, send, reconnect, frames, close |
| deployment | `scripts/deploy.sh`, `destroy.sh` | `cdk.json` context, `.bedrock_agentcore.yaml`, deployed resources | four phases, teardown |
| CDK stacks | `app.py`, `stacks/` | what each stack was synthesized with | environments and roles of every component |

How they meet.  A chat message goes Lark -> router (webhook run) -> router (event
run) -> agent `/invocations` -> Lark.  A web turn goes page -> web_api (login,
session id, presigned URL) -> agent `/ws` -> page.  In the agent both end in
`_get_session`, whose MCP connection leads through the Gateway and interceptor to
the tool Lambda, which loads the Lark token that web_api stored.  The router and
web_api share the identity table; web_api and the tool Lambda share the token
secret; the agent and web_api share the Cognito user.

What is hard, component by component, and what correct means there:

- **Token store.**  A refresh token is single-use; reading the secret, redeeming
  the token and writing the secret are separate calls, and logins and tool calls
  overlap freely.  Correct: the user is not locked out by interleaving; an expired
  token is never presented; what was used up is replaced.
- **Session cache.**  Building a session takes several calls that can fail, under
  a lock, after the old connection was closed, with a token from a cache below it;
  chatting is outside the lock.  Correct: what is served is open, nothing open is
  lost, the lock is released, the token of a served session is live.
- **Identity table.**  Check-then-put without conditions, three writes without a
  transaction, eventually consistent reads.  Correct: only allowed users enter, a
  known user has a profile, the session id settles.
- **Page.**  Callbacks of several sockets, turns in the server that outlive their
  socket, `onclose` at any time.  Correct: the user can always type again, a turn
  is not lost silently, the text of two turns is not mixed.
- **Cognito user.**  Two programs provision it with get, create, set and auth as
  separate calls, each with a salt of its own cached; the web side sets the
  password at every login, the agent only after a refusal.  Correct: whatever a
  dead or differently salted process left behind, the next mint succeeds.
- **Router.**  At-least-once delivery three times over (Lark's webhook, the client that
  repeats a dispatch, Lambda's queue), caches that survive failures,
  exceptions swallowed in some places and not in others.  Correct: every message
  ends, nothing acknowledged vanishes without a reason, no turn repeats without
  cause, a token judged once lives to the last part of a reply.
- **Gateway, interceptor, tools.**  A key cache that also keeps failed reads, an
  identity that must replace whatever the model wrote, tools that make several
  changes at Lark and can fail between them.  Correct: an outdated or empty key is
  used for a bounded time, and a tool's answer tells what was changed, for whom.
- **Deployment.**  A script of some fifteen steps, half of them CLI calls outside
  CloudFormation, any of which may fail or be interrupted; what one phase learns
  reaches the others through files that know one account only; users log in
  meanwhile.  Correct: a known number of clean runs wires everything, repeating a
  step takes nothing apart, a clean destroy leaves nothing, and the roles permit
  what the code calls.

## 2. Modules

| Module | Models | Runs |
|---|---|---|
| `UserTokens` | one user's token secret, its writers, Lark's grants, the clock | `UserTokens`, `UserTokensServed` |
| `Vault` | what `UserTokens` promises: an atomic token store | as a property of `UserTokens` |
| `AgentSessions` | the cache of one agent container, its threads, its connections | `AgentSessions`, `AgentSessionsToken`, `AgentSessionsOpen` |
| `IdentityStore` | one user's items and the executions that work on them | `IdentityStore`, `IdentityStoreShared` |
| `Registry` | what `IdentityStore` promises: a user enters once and gets a session for good | as a property of `IdentityStore` |
| `WebChat` | one page and the `/ws` handlers of its sockets | `WebChat` |
| `CognitoMint` | one Cognito user and the processes that provision it and mint | `CognitoMint` |
| `Router` | messages from the webhook to the reply, over warm containers | `Router` |
| `ToolCall` | tool calls through the interceptor to Lark | `ToolCall` |
| `Deploy` | `deploy.sh`, `destroy.sh`, what they create and the files they share | `Deploy` |
| `Permissions` | the roles of the stacks and the calls of the code | in `Deploy` |
| `MC*` | the instances TLC runs, some with symmetry sets | |
| `*Proofs` | theorems about the module they are named after | |

A definition that only stands in a comment as "mutant of" another is a wrong
variant of it, kept to show that a property would notice.

### UserTokens

No code touches the secret of another open_id, so one secret is the whole of the
interaction.  A bundle is named by its grant (`gen`, the order in which Lark issued
them); `heir[g]` is what Lark gave for the refresh token of `g`.

A tool call goes `idle -> (use | refresh -> redeemed -> persist -> use) -> idle`:
the read in `_valid_user_token`, Lark's honouring of the refresh token, the
arrival of its answer (when `expires_at` is computed), `put_secret_value`, and the
calls to Lark with the token.  A login goes `idle -> granted -> put (-> create) ->
idle`.  Failures are actions: a refused refresh, a lost answer, a failed put, a
killed Lambda, a failed login; all but the refusal of a token that is used up need
`Faults`.  `Tick` moves one clock and respects the Lambda timeout (15 s,
`stacks/gateway_stack.py:92`) and the socket timeouts of the login.

Simplifications: Lark answers a refresh with a new refresh token, since the old one is
single-use (`tools/index.py:112` falls back to the old one, which would then be stored
although it is used up); the refresh token's own lifetime is left out, as
the code never looks at it; the secret's first read after a write is consistent.

- `NeverStrandedByRace`: a stored bundle that is used up has its heir in
  somebody's hands, or a fault has dropped it.
- `LiveOnTheWire`: a token in use is not expired at Lark's, though `expires_at`
  is computed late and the token is used up to a Lambda timeout after the check.
- `VaultHolds` (refinement, with its liveness): the secret, all its writers and
  Lark are the store of `Vault`, whose one variable is `VaultState`: none, held (can
  be redeemed once), renewing (redeemed, the heir on its way) or lost.  It forbids
  what the invariants do not, such as a used-up bundle stored over another, and
  requires that a renewal ends, in a good bundle or, by a fault only, in `lost`.
- `AuthorizedIsServed`: what the README says and the code does not do (section 4).

### AgentSessions

AgentCore gives each user a microVM, so `_sessions` has one entry.  A thread
requests, waits for `_lock`, and is served or evicts and builds: close the old
connection, token (cached or minted), connect, list, publish.  Closing may take its
time and may raise, which the code passes over (`CloseRaises`).  Every step of a build
can fail; after `connect` a failure leaks the connection.  Without a `GATEWAY_URL` a
session has neither token nor connection, and none of the below says anything: the
models are of a container that has one.  `Terminate` ends the microVM.  The turn itself
(`agent(message)`) is the stay in `chat`, of any length.

- `FreshIsOpen`: a session young enough to be served has its connection open.
- `OpenIsOwned`: an open connection is the cached one, the builder's, or one
  leaked by a failed build or closing; racing threads lose none.
- `BoundedStaleness`: how far past its expiry a served token can be: less than
  `BuildMax + TTL - Margin`.
- `LockIsReleased` (liveness).
- `TokenLiveWhenServed`, `KeptOpenWhileChatting`: section 4.

### IdentityStore

One execution is a call of either Lambda: `resolve_user`, then, except for a
login, `get_or_create_session`.  The two copies of the code are the same step for
step, so there is one set of actions.  `lag[i]` is the set of values that a read
of item `i` may return: a write adds to it, `Settle` reduces it to the stored
value.  `Fail` ends an execution at any step and undoes nothing.  `lastActivity`,
which is written when a session is found, is read by nobody and left out.

- `OnlyAllowedEnter`, `KnownHasProfile`, `LinkFollows`: who enters, and which
  items can exist without which.
- `SettledForGood` (action property): once every read finds the session and nobody
  is about to put another, the id never changes.
- `RegistryHolds` (refinement, with its liveness): the items, through their lagging
  reads, are the `Registry`: entering takes a permission, the session comes after,
  and once there it is final in the end, however many executions race.
- `SessionIsShared`: section 4.

### WebChat

The page's callbacks are actions (`Submit`, `Refreshes`, `Reconnects`,
`OnMessage`, `OnClose`, ...), atomic as in a browser.  `Close` ends a connection
(readyState leaves OPEN, unhandled frames are dropped); `OnClose` is the callback,
later.  `up` and `down` are what is on its way; `serving[s]` is the turn that the
handler of `s` waits for.  `produce()` is `Produces`, `ProduceRaises` and
`ProduceEnds`, and runs on without its socket.  On a socket that is closed the handler
may still read a message that had arrived, or end, since `send_json` raises there
(`HandlerEnds`); what it has not read is then read by nobody (`Unread`).

- `OneTurnPerBubble`: two turns share a bubble only after an `onclose` that came
  while the page was connecting anew, or after it had.  The hazard is real: such
  an `onclose` enables the composer or forgets the new socket, and the next text
  goes over a second one.
- `SomeoneIsAtWork`: with the composer disabled, a turn, a frame or a close is
  still to come.
- `ComposerComesBack` (liveness).

### CognitoMint

A password is the version of the salt it was derived from.  A mint of the web side
goes `get -> (create ->) set -> auth`; one of the agent `get -> (create -> set ->)
auth`, and after a refusal once more, with `reset` before `auth`
(`get_user_jwt`, the "password drift" branch).  `GetSalt` fills the cache just
before the first call that needs it.  `CreateRepeats` is botocore's repetition of a
creation whose answer was lost: the user is there, and the repetition is refused.  A
mint under way can meet `Raises` (any AWS error), `Restart` (the process is gone, and
its cache), `Rotate`, `Delete` and the steps of the others.  Cognito is taken to be
consistent; the token cache in front of the agent's mint is in `AgentSessions`.

- `OnlyRacesRefuse`: a mint is refused only if the user changed while it ran without
  its knowing: by another process or an operator, or by an attempt of its own whose
  answer was lost.  So a creator's death between create and
  set-password, or a password under another salt, is always repaired.
- `OneSaltAgrees`: while the salt is never replaced and nobody deletes the user,
  no overlap refuses a password in the end; what remains is
  `UsernameExistsException` when two create at once, or one creates twice.
- `EveryMintEnds` (liveness): also while the other side sets its own password
  again and again.

### Router

A container has one run at a time: a hook run (verify, dispatch, ack) or an event
run (decrypt, resolve, invoke, await, token, send, return).  An event may be repeated
in four ways: `Deliver` is also Lark's redelivery; `Dispatch` is one attempt of
`lambda_client`, which keeps botocore's default retries (`router/index.py:40`; the
AgentCore client above it has none): an attempt may be accepted and not answered, so
that the next one enqueues the event again, or the call raises though an attempt was
accepted; `Doubles` is Lambda's queue, which delivers at least once; and `Retry` is
Lambda's retry of an event run that raised or died.  Left out are events that are no
message of a user: the event run of such an event returns at once.  `creds` is
`_creds_cache`, in which a failure is kept like a success.
`tenant` is `_token_cache`: the time until the `expires_at` that the code computed
(`seen`) and until Lark's own (`life`), which differ by the time Lark's answer
travelled.  `send_message` gets the token once and sends the reply in parts
(`SendPart`), going on after a part that failed.  `Tick` lets time pass for the
tokens and for the runs in `send_message`, none of which outlives the timeout; time
spent earlier in a run only shortens what is left, so leaving it out allows more.

- `TurnsHaveCause`: the agent is given a message no more often than Lambda accepted an
  event of it (`dispatched`), plus the events the queue doubled (`doubled`), plus the
  runs that died once the agent had it (`killed`).  No exception of an event run
  repeats a turn, though several are swallowed and others are not.
- `AckedIsAccounted`: an acknowledged message is in progress, the chat has the whole
  of a reply to it, or it has met one of the known silent ends: a failed dispatch,
  no credentials or no plaintext, attempts used up, an empty answer, no tenant token, a part that
  was not sent.
- `TokenCoversReply`: the token judged once is honoured until the last part is sent.
  It needs `2 * Timeout <= Early` (60 s and 300 s in the code): one timeout for the
  late `expires_at`, one for the parts.
- `EveryMessageEnds` (liveness).

### ToolCall

A call is at the interceptor (`read -> store -> inject`, or `inject` at once while
the cached key is young), then at the tool Lambda (`dispatch -> lark`), then
`answered`.  A container of the interceptor has one call at a time and keeps its
`cache`.  `Inject` writes the caller into the arguments over what the model put
there (`actor`).  A tool is the list of changes it makes at Lark (`Changes`);
`LarkChanges` makes the next, `LarkRefuses` is Lark's error (the tool's result then
names what was done before), `LarkFails` a 5xx, after which Lark may have made the
change or not, `LarkIsSilent` a lost answer, `Die` a killed Lambda.  A request that is
no `tools/call` (`list`) gets the key and not the identity (`PassOn`).
Time passes with `Tick`; neither execution outlives its timeout.

- `KeyIsRecent`: a key that was replaced, or the empty key of a failed read, is
  injected for less than `KeyAge`: the cache's 300 s and two executions.
- `AnswersAreTrue`: the result of a tool speaks of exactly the changes that Lark made
  in this call, all of them for the user whose turn it was; one that reports a server
  error leaves open whether the change at which it came was made, and no other.  A
  call that breaks has no result, and nothing can be said of it: the code catches
  `HTTPError` only.

### Deploy and Permissions

A script is a sequence of steps (`FullRun`, `DestroyRun`, the phases); a step is one
CDK stack or one CLI call with what the script does about it.  `Abort` is a failing
step under `set -e`, or a kill; `Fail` a failure that the script swallows; `Missing`
a step whose inputs are not there.  `Configure` writes the file of the CLI before
`DeployRuntime` makes the runtime, so a script can end between the two.  There are
two targets (accounts), and one
`cdk.json` (`context`) and one `.bedrock_agentcore.yaml` (`config`) for both.
`TargetGone` is AWS finishing the deletion of a gateway target, in its own time;
`Login` a user whose token becomes a secret that no stack owns.  The ghosts `streak`
and `spoiled` count clean full runs on end and remember a destroy that met a fault.

- `OneRunReachesRuntime`: after one clean full run both entrypoints call the runtime
  that exists, whatever `cdk.json` held before.
- `TwoRunsWire`: after two on end everything is wired.  One is not enough: the
  runtime is deployed before the gateway (`deploy.sh:207`) and gets the `gateway_url`
  of an earlier day.  Excepted is a target whose destroy met a fault: its gateway may
  survive, trust a user pool that is gone, and is never updated.
- `StepsAreIdempotent` (action property): on a target that is wired, and that
  `cdk.json` names, no step of `deploy.sh` takes anything apart.
- `DestroyedIsGone`: a clean destroy leaves no stack, runtime, gateway or user token.
- `CallsAreGranted`: after a clean full run the calls of every component, with the
  names it was given, are in its role.  `Permissions` has one operator per role, from
  the stacks, and one per caller, from the code.

What AWS does is an assumption: a deletion of a gateway is refused while it has
targets, the deletions of a gateway and of a runtime are done when they are accepted
(AWS finishes both later; the scripts do not look at them again, and a new gateway or
runtime of the same name before that is not modelled), `agentcore deploy` fails with
the configuration of another account, a stack that exports nothing new keeps its user pool.

## 3. Runs, bounds, fairness

| Run | Instance | Distinct states |
|---|---|---|
| `UserTokens` | 2 tools, 2 logins, 3 grants, 3 time units, faults | 2.6 M |
| `AgentSessions` | 2 threads, 4 connections, 11 time units, 1 leak | 1.1 M |
| `IdentityStore` | 3 executions, 3 session ids | 0.6 M |
| `WebChat` | 2 turns, 3 sockets, 2 frames | 0.4 M |
| `CognitoMint` | 1 web_api instance, 2 containers, 1 rotation, 1 deletion | 0.5 M |
| `Router` | 1 message, 1 container, 2 deliveries of 2 attempts, 1 doubled event, 2 tries, 2 parts, token of 3 time units | 1.2 M |
| `ToolCall` | 2 users, 2 calls, 1 interceptor, 2 keys, 6 time units | 4.5 M |
| `Deploy` | 2 accounts with 4 and 1 scripts, 1 fault | 1.5 M |

The violation runs (section 4) use the instances of their module, or smaller ones.
Symmetry is used only where no liveness is checked: by the violation runs of
invariants, and by `ToolCall`.  Every bound is a constant, named as one where it is
declared.  Why they are enough:

- `UserTokens`: two tools and two logins are every pair that can race; with
  lifetime 3 and margin 2 (the smallest values that satisfy the assumptions with
  equality) the horizon covers a token's life from grant to expiry, and three
  grants give a login, a refresh, and a second writer.  In seconds the numbers are
  7200, 60, 15 and 20; the theorems hold for these as for all others.
- `AgentSessions`: lifetime 6, TTL 4, margin 1 keep the order of the real 3600,
  3000, 60 s: a second session is built on the token of the first.  The horizon
  passes the largest staleness.  The violation runs use real minutes.
- `IdentityStore`: three executions are one more than a race needs.
- `WebChat`: three sockets are an old one, its successor and the one opened beside
  it.  A name is reused once its turn is over and no frame of it is left.
- `CognitoMint`: two salts are enough for two sides to undo each other's password,
  and a third process for a race with a race; mints begin without bound.
- `Router`: messages meet only in a container's caches, which one message in two
  deliveries and up to ten event runs exercises.  One container runs them one after
  the other, in every order; runs in two containers share nothing but the queue and
  what Lark and the chat have got, and that any number of them keeps the invariants
  is proved.  (Two containers without the clock, `Timeout` and `Early` 0, `TokenLife`
  1, are 7.7 M states; TLC finds no error in the first three invariants there
  either.)  botocore and Lambda try more often than twice: the last try and one that
  is not the last are there.  Two parts are one that fails and one that follows.
  Timeout 1, margin 2 and life 3 meet the assumption with equality.
- `ToolCall`: the two calls are of one user or of two, and follow or overlap each
  other in one interceptor; more interceptors share nothing.  The horizon of 6
  passes `KeyAge` (4) for a key replaced, or a read failed, at any time up to 2.
- `Deploy`: a property speaks of at most two clean runs after one that went wrong or
  a destroy, which with one more run are four; the other account needs one to
  leave its traces in the files.  One fault at a time is what a run can be expected
  to survive.

`UserTokens` has `AtBound`, a stutter at the end of the bounded horizon, so that
TLC still reports real deadlocks.  `WebChat` is checked with
`CHECK_DEADLOCK FALSE`, because a page whose boot failed really stops until it is
reloaded; so is `ToolCall`, whose clock and keys are bounded while nothing obliges
an agent to call.  `Deploy` has `AtBound` too, when the operator has used up the
runs.

Fairness is stated per action, next to the specification, and always weak:

- `UserTokens`: a running execution receives Lark's answer and stores it (or dies,
  which is an outcome too).  Nothing makes users log in or agents call tools.
- `AgentSessions`: each call of a build returns or fails: it has a timeout; closing an
  MCP client, which joins its thread, is taken to end too.
  Nothing is assumed of chats, of users, or of who gets the lock.
- `IdentityStore`: replication ends, and an execution about to put does, or fails.
- `WebChat`: due callbacks run, fetches and connections end, the handler reads, a
  turn of the agent ends.
- `CognitoMint`: every call to AWS returns, raises or times out.  Nothing makes
  users log in, and nothing keeps the others quiet.
- `Router`: Lark delivers again, Lambda runs what is queued, a run ends by itself
  or at its timeout.
- `ToolCall` and `Deploy` state safety only, and no fairness: a call or a script may
  stop anywhere.

## 4. Where code and documents disagree

Each is a run that TLC ends with a counterexample.

| Run | What is said | What happens |
|---|---|---|
| `UserTokensServed` | `README.md:140`, the doc tools act as the user once authorized, the token refreshed on expiry | of two calls that refresh at once one tells the user to authorize |
| `AgentSessionsToken` | `agent_core.py:51` "Rebuild a cached session before its Cognito access token (~1h) expires" | a rebuild after 50 minutes reuses the 50 minutes old token and serves it for 50 more |
| `AgentSessionsOpen` | `agent_core.py:83`, `:94` the MCP client is kept open for the session's lifetime | a rebuild closes it under a running turn |
| `IdentityStoreShared` | `architecture.md:60` the session is shared across entrypoints | two overlapping first uses get two session ids |

Met while modelling, and stated here only:

- `lark_oauth.py:78` "we always overwrite with the newest values": two writers store
  their grants in either order.
- `app.js:82` "the composer is disabled while the agent works": a close mid-turn, and
  an error frame, enable it.
- `deploy.sh:2` lets `REGION` override the region, but `app.py:33` takes the region
  of `cdk.json` first.
- `deploy.sh:7` "create/update the MCP Gateway": a gateway that exists is not updated.
- `destroy.sh:109` ends by saying that runtime and gateway are gone; failed lookups
  and deletions of both were only warnings.
- `README.md` deploys the gateway before the runtime, `deploy.sh:207` after it.
- `stacks/__init__.py:27` speaks of the nearest retention period; the code rounds up.

## 5. Proofs

All theorems are checked to the last leaf, for every value of the constants that
satisfies the named assumptions of the module.

`UserTokensProofs`.  `TypeCorrect` is the base.  `NoStranding` rests on
`StrandInv`, which adds to `NeverStrandedByRace`: `GensIssued` (every bundle in
sight was issued), `OneHand` (a refreshed and not yet stored bundle is in one hand
only) and `UnsavedIsUnspent` (what has not been stored cannot have been
redeemed).  Without the last two a second execution could redeem an heir that the
first still holds, and the invariant would not carry over the first one's put.
`TokenIsLive` rests on `TimeInv`: `StoredIsHonest` (a stored `expires_at` is at
most `ExchangeDelay` or `ToolTimeout` later than Lark's) and `OnTime` (no
execution outlives its timeout), and uses `MarginAssumption`: 60 s cover 20 s of
login delay and 15 s of tool.  The assumption is what the numbers in the code
satisfy, and the mutant without a margin shows that it is needed.

`TokensImplementVault` shows that every step maps to a step of `Vault` or to a stutter
(`Spec => Vlt!Safety`).  A write stores a bundle nobody has redeemed
(`UnsavedIsUnspent`), so it ends in `held`; a redemption of the stored bundle ends in
`renewing`, for which `VaultInv` adds to `StrandInv` that a dropped grant was issued
(the new one is not lost yet); only a drop can lead to `lost`.  The fairness of
`Vault` is left to TLC.

`AgentSessionsProofs`.  `SessionInv` is one invariant for all three theorems:
`LockInv` (the lock's owner is the only builder, and no entry is fresh during a
build), `Evicted` (an entry that is being replaced is too old, and its connection closed or
given up once it was told to close), `InHand` (the
builder's connection is open and not leaked) and `Timely` (build time and token
ages).  `ServedIsOpen`, `NoneIsLost` and `StalenessIsBounded` follow.

`IdentityStoreProofs`.  `StoreInv` adds to the properties what a lagging read can
have seen (`ReadsHold`): a value is in `lag` only if it was stored, so acting on a
stale answer is acting on something that was true.  `EntryIsGated`,
`ChannelCommits`, `LinkIsWritten` follow, and `SettlesForGood` is the action
property, which needs no invariant but the typing.  `StoreImplementsRegistry` is the
refinement (`Spec => Reg!Safety`): `Settled` is `final`, the permission is
`everAllowed`, and `StoreInv` says why an execution that acts on a lagging read still
makes a step of the registry.

`CognitoMintProofs`.  `QuietInv` adds to `OnlyRacesRefuse` what an undisturbed mint
knows at each call (`Steady`: no user when it creates, a user when it sets, its own
password when it may not fail); every step that changes the user marks the others
as disturbed, and an unanswered creation its own mint, so the rest carries over.
`AgreeInv` says the same of all mints at once while there is one salt.  Both hold for
any number of processes, rotations and deletions.

`RouterProofs`.  `RunsOK` says which steps a run of either kind can be at, and that a
reply in `send_message` has a part left.  `TokenOutlivesReply` rests on `TokensOK`:
the code thinks a token good for at most one `Timeout` longer than Lark does, and a
token in use outlives what is left of the run (`Timeout - age`); taking it from the
cache establishes that because `2 * Timeout <= Early`.  `NothingVanishes` rests on
`Grounds`: a message is accounted for before the hook run acknowledges it, and done
before its event run returns; `Lasting` (no reply and no silent end is taken back)
carries that over the steps of the other containers.
`TypeCorrect` and `TurnsHaveCauseAlways` count: the events of a message that wait or
are being run are the elements of a set (`Live`), one for each place in the queue and
one for each container, and a step adds one, takes one out or changes one for
another (`LiveStep`).  `Caused` adds to `TurnsHaveCause` the events that may still
give the agent its message; without them a step that invokes the agent would not
keep it.  What an event can come from is `Events`, the accepted and the doubled ones;
a run that holds an event the agent has had (`handed`) is past it, so only its death
can add a cause.  `Backed` bounds the queue by `Events`, and `Delivered` what Lambda
accepts by `MaxAttempts` for each delivery, the attempts a running hook still has
(`ToCome`) set apart.

`ToolCallProofs`.  `AnswersAreTrueAlways` rests on `ChangesInv`: what Lark did in a
call is exactly what the tool has counted, for the user of the turn from the
injection on, and in the end what it has told, but for the one change that a server
error leaves in doubt.  Without the count there is nothing to
say about an execution that is killed between two changes.  `KeyIsRecentAlways` rests
on `KeyInv`: a cached outcome was right when the execution began that read it
(`Cached`), and the key at hand is that or was read by this execution (`Held`).
A failed read is an outcome too, so both are about the last failure as well.  The
theorem needs `Timeout > 0` (`BoundsAssumption`): with 0 for `Timeout` and `KeyTTL`
the strict bound fails; the timeout of a Lambda is a second at least.

`WebChatProofs`.  `LinkInv` links turns to sockets: nothing goes on before the page has
booted, a turn that connects has a socket of its own, what is on its way was sent
once and over this socket (`Underway`), and a handler serves the turn that runs
(`Served`).  `SomeoneIsAtWorkAlways` follows from `Awaited`, which names what the page
waits for over each socket; that a handler answers every turn it is given, or the
close of the socket does, is `Served`.  `OneTurnPerBubbleAlways` rests on `BubbleInv`:
unless an onclose came late the page has one open socket at most (`OneSocket`), and
in what it has shown, what is on its way and what the handler will send, one turn
follows another only after a final frame (`InOrder`).

`DeployProofs`.  `PlanInv` says that the rest of a run is in the order of its script,
which gives each step what it needs (`Orderly`): runtime before its ARN is stored,
that before the entrypoints, gateway before targets, secrets after the stack that
writes them.  The theorems about what a run leaves behind need an invariant of the
run while it goes on: `Undone` (a destroy without a fault has undone what it no
longer has to do), `DoneSoFar` (the same of a full run), and between the runs of a
streak `Settled` (all is wired but for the URL that the first run gave the runtime).
`TwoRunsWireAlways` needs `Trusted` too: unless a destroy met a fault a gateway trusts
the pool that exists, and no target is about to leave it.  `CallsAreGrantedAlways`
is `Settled` and the inclusion of the calls of each component in its role
(`Permitted`), for any pool and runtime; `StepsAreIdempotentAlways` is an action
property that needs `PlanInv` and the types only.

All the invariants and action properties that the runs check are thus theorems.
Only model-checked: every liveness property, and the fairness parts of the two
refinements, because fairness and ENABLED are out of the prover's reach; and the
violations of section 4, which are counterexamples.

## 6. Not modelled, and plan

Not modelled: the language model and the Strands agent (a turn is a step of any
length), Markdown and status texts, signing of URLs and checking of the page's JWT
(pure functions of their inputs), the cryptography of webhooks (it succeeds or
fails), buckets, APIs, log groups, the dashboard and the alarms of the stacks (no
behaviour), the bundling and retention helpers, `setup-lark.sh` (one put), tests,
CSS.  `download_image` has no caller.

Left, in this order:

1. An abstract specification of what the router promises for one message (it is given
   to the agent at least once, or ends in a way that is known), with `Router` shown to
   implement it.
2. The same for the page: what one turn promises its user, implemented by `WebChat`.
