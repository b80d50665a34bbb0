------------------------------- MODULE Deploy -------------------------------
(***************************************************************************)
(* deploy.sh and destroy.sh.  Part of the system is CDK stacks; the        *)
(* AgentCore Runtime and the Gateway are not, and the scripts create them  *)
(* with CLI calls of their own.  What is created by one phase reaches the  *)
(* others as stack outputs, and through cdk.json; the CLI keeps what it    *)
(* was configured with in .bedrock_agentcore.yaml.  There is one of each   *)
(* file, for whatever account the scripts are pointed at.                  *)
(*                                                                         *)
(* A script is a sequence of steps.  A step that fails ends it (set -e),   *)
(* except where the scripts swallow the failure; the operator may also     *)
(* kill it between any two steps, and starts any script at any time when   *)
(* none runs.  Meanwhile users log in.  Identifiers that AWS makes up      *)
(* (user pool, runtime, gateway) are numbers, 0 for none or for the sample *)
(* value in cdk.json; what the prefix names is not modelled.               *)
(***************************************************************************)
EXTENDS Naturals, Sequences, SequencesExt, Permissions

CONSTANTS
    Targets,    \* accounts the scripts are pointed at (PROFILE)
    Nobody,     \* no account
    MaxFaults,  \* bound: calls that fail, and scripts that are killed
    MaxRuns     \* bound: MaxRuns[t] scripts are started for target t

ASSUME NobodyAssumption == Nobody \notin Targets
ASSUME MaxFaultsAssumption == MaxFaults \in Nat
ASSUME MaxRunsAssumption == MaxRuns \in [Targets -> Nat]

Base   == <<"security", "agentcore", "router", "gateway", "observability">>
Stacks == Range(Base) \cup {"webui"}
Tools  == {"demo-whoami", "demo-docs", "demo-doc-write"}

\* What deploy.sh does for each of its options.
RuntimePhase  == <<"deploy-runtime", "persist-runtime">>
GatewayPhase  == <<"create-gateway", "persist-gateway",
                   "demo-whoami", "demo-docs", "demo-doc-write">>

\* Mutant of FrontendPhase: cdk deploy --exclusively.
FrontendAlone == <<"webui">>

\* cdk deploys the stacks that webui depends on as well.  config.js and the files
\* of the site, which follow, are left out: no other part reads them.
FrontendPhase == <<"security", "router", "webui">>

FullRun == Base \o RuntimePhase \o GatewayPhase \o FrontendPhase

\* Mutant of DestroyRun: the secrets of the users go first.
DestroyTokensFirst ==
    <<"user-tokens", "empty-gateway", "delete-gateway", "delete-runtime", "webui",
      "gateway", "router", "agentcore", "observability", "security",
      "clear-config">>

DestroyRun ==
    <<"empty-gateway", "delete-gateway", "delete-runtime",
      "webui", "gateway", "router", "agentcore", "observability", "security",
      "user-tokens", "clear-config">>

VARIABLES
    stacks,     \* the CDK stacks that exist
    pool,       \* the user pool of the security stack
    arn,        \* the runtime named in the environment and role of an entry
    runtime,    \* the AgentCore Runtime, and what it was configured with
    gateway,    \* the Gateway: the pool it trusts, its targets, the leaving ones
    userTokens, \* whether a secret {prefix}/user-tokens/* exists
    context,    \* cdk.json: runtime_id and gateway_url
    config,     \* .bedrock_agentcore.yaml: the target it is for, or Nobody
    script,     \* the script that runs, or ran last
    made,       \* number of identifiers AWS has made up
    faults,     \* number of faults so far
    runs,       \* number of scripts started for each target
    streak,     \* ghost: clean full runs on end, on one target
    spoiled     \* ghost: targets whose last destroy met a fault

cloud  == <<stacks, pool, arn, runtime, gateway, userTokens>>
ghosts == <<streak, spoiled>>
local  == <<context, config>>
vars   == <<cloud, local, script, made, faults, runs, ghosts>>

NoRuntime == [id |-> 0, url |-> 0, pool |-> 0]
NoGateway == [id |-> 0, pool |-> 0, tools |-> {}, leaving |-> {}]

Ids == Nat

TypeOK ==
    /\ stacks \in [Targets -> SUBSET Stacks]
    /\ pool \in [Targets -> Ids]
    /\ arn \in [Targets -> [{"router", "webui"} -> Ids]]
    /\ runtime \in [Targets -> [id : Ids, url : Ids, pool : Ids]]
    /\ gateway \in [Targets -> [id : Ids, pool : Ids, tools : SUBSET Tools,
                                leaving : SUBSET Tools]]
    /\ userTokens \in [Targets -> BOOLEAN]
    /\ context \in [runtime : Ids, url : Ids]
    /\ config \in Targets \cup {Nobody}
    /\ script.name \in {"full", "part", "destroy"}
    /\ script.target \in Targets /\ script.clean \in BOOLEAN
    /\ \E plan \in {FullRun, DestroyRun, Base, RuntimePhase, GatewayPhase,
                    FrontendPhase} : IsSuffix(script.todo, plan)
    /\ made \in Ids /\ faults \in 0..MaxFaults /\ runs \in [Targets -> Nat]
    /\ streak \in [target : Targets, length : 0..2]
    /\ spoiled \subseteq Targets
    \* what an identifier of 0 means, and what goes with what
    /\ \A t \in Targets :
         /\ pool[t] # 0 <=> "security" \in stacks[t]
         /\ gateway[t].id = 0 => gateway[t] = NoGateway
         /\ runtime[t].id = 0 => runtime[t] = NoRuntime
         /\ gateway[t].tools \cap gateway[t].leaving = {}

Init ==
    /\ stacks = [t \in Targets |-> {}]
    /\ pool = [t \in Targets |-> 0]
    /\ arn = [t \in Targets |-> [s \in {"router", "webui"} |-> 0]]
    /\ runtime = [t \in Targets |-> NoRuntime]
    /\ gateway = [t \in Targets |-> NoGateway]
    /\ userTokens = [t \in Targets |-> FALSE]
    /\ context = [runtime |-> 0, url |-> 0] /\ config = Nobody
    /\ \E t \in Targets :
         /\ script = [name |-> "part", target |-> t, todo |-> <<>>,
                      clean |-> FALSE]
         /\ streak = [target |-> t, length |-> 0]
    /\ made = 0 /\ faults = 0
    /\ runs = [t \in Targets |-> 0]
    /\ spoiled = {}

-----------------------------------------------------------------------------
(* Running a script. *)

Target == script.target

Idle == script.todo = <<>>

Doing(names, step) ==
    ~Idle /\ Head(script.todo) = step /\ script.name \in names

Deploying(step) == Doing({"full", "part"}, step)
Destroying(step) == Doing({"destroy"}, step)

Start(t, name, plan) ==
    /\ Idle
    /\ runs[t] < MaxRuns[t]
    /\ runs' = [runs EXCEPT ![t] = @ + 1]
    /\ script' = [name |-> name, target |-> t, todo |-> plan, clean |-> TRUE]
    /\ streak' = IF name = "full" /\ streak.target = t THEN streak
                 ELSE [target |-> t, length |-> 0]
    /\ UNCHANGED <<cloud, local, made, faults, spoiled>>

\* The operator calls deploy.sh, without or with an option, or destroy.sh.
StartScript(t) ==
    \/ Start(t, "full", FullRun)
    \/ \E plan \in {Base, RuntimePhase, GatewayPhase, FrontendPhase} :
         Start(t, "part", plan)
    \/ Start(t, "destroy", DestroyRun)

\* The ghosts, once the run goes on to todo; ok: its last call has not failed.
Score(todo, ok) ==
    LET done == todo = <<>> /\ ok /\ script.clean
    IN  /\ streak' = [streak EXCEPT !.length =
                        IF ~ok THEN 0
                        ELSE IF done /\ script.name = "full" /\ @ < 2 THEN @ + 1
                        ELSE @]
        /\ spoiled' = IF script.name # "destroy" THEN spoiled
                      ELSE IF ~ok THEN spoiled \cup {Target}
                      ELSE IF done THEN spoiled \ {Target}
                      ELSE spoiled

Proceed(ok) ==
    /\ script' = [script EXCEPT !.todo = Tail(@), !.clean = @ /\ ok]
    /\ Score(Tail(script.todo), ok)
    /\ UNCHANGED runs

Succeed == Proceed(TRUE) /\ UNCHANGED faults

Fault == faults < MaxFaults /\ faults' = faults + 1

\* A failure that the script swallows.
Fail == Fault /\ Proceed(FALSE)

\* A step fails and set -e ends the script, or it is killed.
Abort ==
    /\ ~Idle
    /\ Fault
    /\ script' = [script EXCEPT !.todo = <<>>, !.clean = FALSE]
    /\ Score(<<>>, FALSE)
    /\ UNCHANGED <<cloud, local, made, runs>>

\* cfn_out of a stack that does not exist ends the script as well, and so does
\* agentcore deploy with the configuration, and the role, of another account.
Missing ==
    /\ \/ /\ Deploying("deploy-runtime")
          /\ \/ ~({"agentcore", "security"} \subseteq stacks[Target])
             \/ config \notin {Target, Nobody}
       \/ Deploying("create-gateway") /\ ~({"gateway", "security"} \subseteq stacks[Target])
    /\ script' = [script EXCEPT !.todo = <<>>, !.clean = FALSE]
    /\ Score(<<>>, FALSE)
    /\ UNCHANGED <<cloud, local, made, faults, runs>>

-----------------------------------------------------------------------------
(* deploy.sh *)

\* A new user pool comes with a new security stack only.
DeploySecurity ==
    /\ Deploying("security")
    /\ stacks' = [stacks EXCEPT ![Target] = @ \cup {"security"}]
    /\ IF "security" \in stacks[Target] THEN UNCHANGED <<pool, made>>
       ELSE /\ made' = made + 1
            /\ pool' = [pool EXCEPT ![Target] = made + 1]
    /\ Succeed
    /\ UNCHANGED <<arn, runtime, gateway, userTokens, local>>

\* runtime_arn is made from the context at synthesis: the environment of the
\* Lambda and its role name the runtime that cdk.json names now.
DeployEntrypoint(s) ==
    /\ s \in {"router", "webui"} /\ Deploying(s)
    /\ stacks' = [stacks EXCEPT ![Target] = @ \cup {s}]
    /\ arn' = [arn EXCEPT ![Target][s] = context.runtime]
    /\ Succeed
    /\ UNCHANGED <<pool, runtime, gateway, userTokens, local, made>>

DeployStack(s) ==
    /\ s \in {"agentcore", "gateway", "observability"} /\ Deploying(s)
    /\ stacks' = [stacks EXCEPT ![Target] = @ \cup {s}]
    /\ Succeed
    /\ UNCHANGED <<pool, arn, runtime, gateway, userTokens, local, made>>

\* agentcore configure, before the first deploy: if that one fails, or the
\* script is killed between them, the file stays.
Configure ==
    /\ Deploying("deploy-runtime")
    /\ {"agentcore", "security"} \subseteq stacks[Target]
    /\ config = Nobody
    /\ config' = Target
    /\ UNCHANGED <<cloud, context, script, made, faults, runs, ghosts>>

\* agentcore deploy: creates or updates, with the gateway_url that cdk.json
\* holds by now.
DeployRuntime ==
    /\ Deploying("deploy-runtime")
    /\ {"agentcore", "security"} \subseteq stacks[Target]
    /\ config = Target
    /\ LET id == IF runtime[Target] = NoRuntime THEN made + 1 ELSE runtime[Target].id
       IN  /\ runtime' = [runtime EXCEPT ![Target] =
                            [id |-> id, url |-> context.url, pool |-> pool[Target]]]
           /\ made' = IF id > made THEN id ELSE made
    /\ Succeed
    /\ UNCHANGED <<stacks, pool, arn, gateway, userTokens, local>>

PersistRuntime ==
    /\ Deploying("persist-runtime")
    /\ context' = [context EXCEPT !.runtime = runtime[Target].id]
    /\ Succeed
    /\ UNCHANGED <<cloud, config, made>>

\* Mutant of CreateGateway: it does not look for the gateway by name first.
CreateGatewayAnyway ==
    /\ Deploying("create-gateway")
    /\ {"gateway", "security"} \subseteq stacks[Target]
    /\ made' = made + 1
    /\ gateway' = [gateway EXCEPT ![Target] =
                     [NoGateway EXCEPT !.id = made + 1, !.pool = pool[Target]]]
    /\ Succeed
    /\ UNCHANGED <<stacks, pool, arn, runtime, userTokens, local>>

\* A gateway that exists is left as it is, whatever pool it trusts.
CreateGateway ==
    /\ Deploying("create-gateway")
    /\ {"gateway", "security"} \subseteq stacks[Target]
    /\ IF gateway[Target] # NoGateway THEN UNCHANGED <<gateway, made>>
       ELSE /\ made' = made + 1
            /\ gateway' = [gateway EXCEPT ![Target] =
                             [NoGateway EXCEPT !.id = made + 1, !.pool = pool[Target]]]
    /\ Succeed
    /\ UNCHANGED <<stacks, pool, arn, runtime, userTokens, local>>

\* Mutant of PersistGateway: a gateway_url that is there is kept.
PersistGatewayOnce ==
    /\ Deploying("persist-gateway")
    /\ context' = [context EXCEPT !.url = IF @ = 0 THEN gateway[Target].id ELSE @]
    /\ Succeed
    /\ UNCHANGED <<cloud, config, made>>

\* get-gateway may fail: then gateway_url stays what it was.
PersistGateway ==
    /\ Deploying("persist-gateway")
    /\ \/ context' = [context EXCEPT !.url = gateway[Target].id] /\ Succeed
       \/ UNCHANGED context /\ Fail
    /\ UNCHANGED <<cloud, config, made>>

\* Mutant of CreateTarget: a target that is leaving counts as absent.
CreateTargetAgain(x) ==
    /\ Deploying(x)
    /\ gateway' = [gateway EXCEPT ![Target].tools = @ \cup {x}]
    /\ Succeed
    /\ UNCHANGED <<stacks, pool, arn, runtime, userTokens, local, made>>

\* A target that is listed is kept, one that is leaving included; a failure to
\* create one is reported and the script goes on.
CreateTarget(x) ==
    /\ Deploying(x)
    /\ \/ /\ x \in gateway[Target].tools \cup gateway[Target].leaving
          /\ UNCHANGED gateway /\ Succeed
       \/ /\ x \notin gateway[Target].tools \cup gateway[Target].leaving
          /\ gateway' = [gateway EXCEPT ![Target].tools = @ \cup {x}]
          /\ Succeed
       \/ UNCHANGED gateway /\ Fail
    /\ UNCHANGED <<stacks, pool, arn, runtime, userTokens, local, made>>

-----------------------------------------------------------------------------
(* destroy.sh *)

\* The deletion of a target is accepted, and takes its time; or refused.
EmptyGateway ==
    /\ Destroying("empty-gateway")
    /\ \E refused \in SUBSET gateway[Target].tools :
         /\ gateway' = [gateway EXCEPT
                          ![Target].leaving = @ \cup (gateway[Target].tools \ refused),
                          ![Target].tools = refused]
         /\ IF refused = {} THEN Succeed ELSE Fail
    /\ UNCHANGED <<stacks, pool, arn, runtime, userTokens, local, made>>

TargetGone(t) ==
    /\ \E x \in gateway[t].leaving :
         gateway' = [gateway EXCEPT ![t].leaving = @ \ {x}]
    /\ UNCHANGED <<stacks, pool, arn, runtime, userTokens, local, script,
                   made, faults, runs, ghosts>>

\* The script polls until no target is listed, and after 30 polls no longer.
\* The deletion is refused while there is one; a refusal is only a warning, and
\* so is that the gateway could not be looked up.
DeleteGateway ==
    /\ Destroying("delete-gateway")
    /\ \/ /\ gateway[Target].tools \cup gateway[Target].leaving = {}
          /\ gateway' = [gateway EXCEPT ![Target] = NoGateway]
          /\ Succeed
       \/ /\ gateway[Target].tools \cup gateway[Target].leaving # {}
          /\ UNCHANGED <<gateway, faults>> /\ Proceed(FALSE)
       \/ UNCHANGED gateway /\ Fail
    /\ UNCHANGED <<stacks, pool, arn, runtime, userTokens, local, made>>

DeleteRuntime ==
    /\ Destroying("delete-runtime")
    /\ \/ /\ runtime' = [runtime EXCEPT ![Target] = NoRuntime]
          /\ Succeed
       \/ UNCHANGED runtime /\ Fail
    /\ UNCHANGED <<stacks, pool, arn, gateway, userTokens, local, made>>

DestroyStack(s) ==
    /\ Destroying(s)
    /\ stacks' = [stacks EXCEPT ![Target] = @ \ {s}]
    /\ pool' = IF s = "security" THEN [pool EXCEPT ![Target] = 0] ELSE pool
    /\ arn' = IF s \in {"router", "webui"} THEN [arn EXCEPT ![Target][s] = 0]
              ELSE arn
    /\ Succeed
    /\ UNCHANGED <<runtime, gateway, userTokens, local, made>>

DeleteUserTokens ==
    /\ Destroying("user-tokens")
    /\ \/ userTokens' = [userTokens EXCEPT ![Target] = FALSE] /\ Succeed
       \/ UNCHANGED userTokens /\ Fail
    /\ UNCHANGED <<stacks, pool, arn, runtime, gateway, local, made>>

\* rm -f: of the one file, whichever account it is for.
ClearConfig ==
    /\ Destroying("clear-config")
    /\ config' = Nobody
    /\ Succeed
    /\ UNCHANGED <<cloud, context, made>>

-----------------------------------------------------------------------------
\* web_api stores the token of a user who logs in.
Login(t) ==
    /\ "webui" \in stacks[t]
    /\ userTokens' = [userTokens EXCEPT ![t] = TRUE]
    /\ UNCHANGED <<stacks, pool, arn, runtime, gateway, local, script, made,
                   faults, runs, ghosts>>

\* The end of the bounded horizon, so that TLC reports only real deadlocks.
AtBound == Idle /\ runs = MaxRuns /\ UNCHANGED vars

DeployStep ==
    \/ DeploySecurity
    \/ \E s \in Stacks : DeployEntrypoint(s) \/ DeployStack(s)
    \/ DeployRuntime \/ PersistRuntime
    \/ CreateGateway \/ PersistGateway
    \/ \E x \in Tools : CreateTarget(x)

DestroyStep ==
    \/ EmptyGateway \/ DeleteGateway \/ DeleteRuntime
    \/ \E s \in Stacks : DestroyStack(s)
    \/ DeleteUserTokens \/ ClearConfig

Next ==
    \/ \E t \in Targets : StartScript(t) \/ TargetGone(t) \/ Login(t)
    \/ DeployStep \/ DestroyStep \/ Configure
    \/ Abort \/ Missing
    \/ AtBound

Spec == Init /\ [][Next]_vars

-----------------------------------------------------------------------------
(* Properties *)

EntriesReachRuntime(t) ==
    /\ runtime[t] # NoRuntime
    /\ arn[t]["router"] = runtime[t].id /\ arn[t]["webui"] = runtime[t].id

\* Every component of t is there and knows the others as they are.
Wired(t) ==
    /\ stacks[t] = Stacks
    /\ EntriesReachRuntime(t)
    /\ gateway[t] # NoGateway
    /\ runtime[t].url = gateway[t].id
    /\ runtime[t].pool = pool[t] /\ gateway[t].pool = pool[t]
    /\ gateway[t].tools = Tools

\* After one full run in which nothing failed, both entrypoints call the
\* runtime that exists, whatever cdk.json held when it began.
OneRunReachesRuntime ==
    streak.length > 0 => EntriesReachRuntime(streak.target)

\* Two of them on end are enough for everything to be wired, whatever aborted
\* runs and other targets have left behind -- the first one gives the runtime
\* the gateway_url of an earlier day.  A destroy that met a fault is excepted:
\* it may leave a gateway that trusts a user pool which is gone.
TwoRunsWire ==
    streak.length = 2 /\ streak.target \notin spoiled => Wired(streak.target)

\* Once t is wired and cdk.json names its runtime and gateway, every step of
\* deploy.sh can be repeated: none takes anything apart.
StepsAreIdempotent ==
    [][\A t \in Targets :
         Wired(t) /\ context = [runtime |-> runtime[t].id, url |-> gateway[t].id]
         /\ script.name # "destroy" /\ t = Target => Wired(t)']_vars

\* A destroy in which nothing failed leaves nothing behind, not even the token
\* of a user who logged in while it ran.
DestroyedIsGone ==
    Idle /\ script.name = "destroy" /\ script.clean =>
        /\ stacks[Target] = {} /\ ~userTokens[Target]
        /\ runtime[Target] = NoRuntime /\ gateway[Target] = NoGateway

\* What the components call with the names they were given, their roles permit.
Calls(t) == UNION {
    AgentCalls(runtime[t].pool), RouterCalls(arn[t]["router"]),
    WebApiCalls(arn[t]["webui"], pool[t]), InterceptorCalls, ToolCalls,
    GatewayCalls}

Grants(t) == UNION {
    AgentRole(pool[t]), RouterRole(arn[t]["router"]),
    WebApiRole(arn[t]["webui"], pool[t]), InterceptorRole, ToolRole,
    GatewayRole}

CallsAreGranted ==
    streak.length > 0 => Calls(streak.target) \subseteq Grants(streak.target)

=============================================================================
