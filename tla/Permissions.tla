----------------------------- MODULE Permissions -----------------------------
(***************************************************************************)
(* Who may call what.  Every Lambda, the agent's container and the gateway *)
(* run under a role that the CDK stacks build from resource names of their *)
(* own, and call the services with names that reach them through their     *)
(* environment.  A permission and a call are triples of a component, an    *)
(* action and a resource; a resource carries a number where it is known    *)
(* only after something was created (a user pool, the agent's runtime),    *)
(* and 0 where the naming scheme of the project fixes it.                  *)
(***************************************************************************)
EXTENDS Naturals

Secrets == {"channels/lark", "cognito-password-secret", "tool-keys",
            "user-tokens"}

Fixed(names) == names \X {0}

\* One policy statement, or the calls a component makes of one service.
Statement(who, actions, resources) == {who} \X actions \X resources

CognitoAdmin == {"AdminCreateUser", "AdminSetUserPassword",
                 "AdminInitiateAuth", "AdminGetUser"}

TableAccess == {"GetItem", "PutItem", "UpdateItem", "DeleteItem", "Query", "Scan"}

-----------------------------------------------------------------------------
(* The roles. *)

AgentRole(pool) == UNION {
    Statement("agent", {"InvokeModel", "InvokeModelWithResponseStream",
                        "Converse", "ConverseStream"}, Fixed({"model"})),
    Statement("agent", CognitoAdmin, {<<"userpool", pool>>}),
    Statement("agent", {"GetSecretValue", "DescribeSecret"}, Fixed(Secrets)),
    Statement("agent", {"CreateEvent", "ListEvents", "GetEvent", "ListActors",
                        "ListSessions", "RetrieveMemoryRecords"},
              Fixed({"memory"}))}

RouterRole(arn) == UNION {
    Statement("router", {"InvokeAgentRuntime", "InvokeAgentRuntimeForUser"},
              {<<"runtime", arn>>}),
    Statement("router", TableAccess, Fixed({"identity"})),
    Statement("router", {"InvokeFunction"}, Fixed({"router"})),
    Statement("router", {"GetSecretValue", "DescribeSecret"}, Fixed(Secrets))}

WebApiRole(arn, pool) == UNION {
    Statement("web_api", {"InvokeAgentRuntime", "InvokeAgentRuntimeForUser",
                          "InvokeAgentRuntimeWithWebSocketStream"},
              {<<"runtime", arn>>}),
    Statement("web_api", {"GetSecretValue", "DescribeSecret"}, Fixed(Secrets)),
    Statement("web_api", {"CreateSecret"}, Fixed(Secrets)),
    Statement("web_api", {"PutSecretValue", "TagResource"},
              Fixed({"user-tokens"})),
    Statement("web_api", CognitoAdmin, {<<"userpool", pool>>}),
    Statement("web_api", TableAccess, Fixed({"identity"}))}

InterceptorRole ==
    Statement("interceptor", {"GetSecretValue"}, Fixed({"tool-keys"}))

\* Mutant of ToolRole: it may read the user's token, and not store a new one.
ToolRoleReadOnly ==
    Statement("tool", {"GetSecretValue"}, Fixed({"user-tokens", "channels/lark"}))

ToolRole == UNION {
    Statement("tool", {"GetSecretValue"}, Fixed({"user-tokens", "channels/lark"})),
    Statement("tool", {"PutSecretValue"}, Fixed({"user-tokens"}))}

GatewayRole ==
    Statement("gateway", {"InvokeFunction"}, Fixed({"interceptor", "tool"}))

-----------------------------------------------------------------------------
(* The calls. *)

\* get_user_jwt mints in the pool of its environment; BedrockModel streams; the
\* Memory session manager appends and replays events.  What AgentCore does for the
\* container under this role, the pull of its image and its logs, is left out.
AgentCalls(pool) == UNION {
    Statement("agent", {"InvokeModelWithResponseStream"}, Fixed({"model"})),
    Statement("agent", CognitoAdmin, {<<"userpool", pool>>}),
    Statement("agent", {"GetSecretValue"}, Fixed({"cognito-password-secret"})),
    Statement("agent", {"CreateEvent", "ListEvents"}, Fixed({"memory"}))}

\* runtimeUserId is always passed, which calls for the ForUser action.
RouterCalls(arn) == UNION {
    Statement("router", {"InvokeAgentRuntime", "InvokeAgentRuntimeForUser"},
              {<<"runtime", arn>>}),
    Statement("router", {"GetItem", "PutItem", "UpdateItem"}, Fixed({"identity"})),
    Statement("router", {"InvokeFunction"}, Fixed({"router"})),
    Statement("router", {"GetSecretValue"}, Fixed({"channels/lark"}))}

\* The socket of the page is signed with this role.
WebApiCalls(arn, pool) == UNION {
    Statement("web_api", {"InvokeAgentRuntime", "InvokeAgentRuntimeForUser",
                          "InvokeAgentRuntimeWithWebSocketStream"},
              {<<"runtime", arn>>}),
    Statement("web_api", {"GetSecretValue"},
              Fixed({"channels/lark", "cognito-password-secret"})),
    Statement("web_api", {"CreateSecret", "PutSecretValue"},
              Fixed({"user-tokens"})),
    Statement("web_api", CognitoAdmin, {<<"userpool", pool>>}),
    Statement("web_api", {"GetItem", "PutItem", "UpdateItem"}, Fixed({"identity"}))}

InterceptorCalls ==
    Statement("interceptor", {"GetSecretValue"}, Fixed({"tool-keys"}))

ToolCalls == UNION {
    Statement("tool", {"GetSecretValue"}, Fixed({"user-tokens", "channels/lark"})),
    Statement("tool", {"PutSecretValue"}, Fixed({"user-tokens"}))}

GatewayCalls ==
    Statement("gateway", {"InvokeFunction"}, Fixed({"interceptor", "tool"}))

=============================================================================
