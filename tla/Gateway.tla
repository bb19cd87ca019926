------------------------------- MODULE Gateway -------------------------------
(***************************************************************************)
(* One HTTP request, from TenantAuthMiddleware (app/core/security.py)      *)
(* through the routes of app/main.py to its answer.  POST                  *)
(* /v1/chat/completions is module ChatCompletion.  Of the MCP pool the     *)
(* module has what it may answer to one message: what it does meanwhile is *)
(* ProcessPool and ManagedProcess.                                         *)
(***************************************************************************)
EXTENDS ChatCompletion

CONSTANTS
  Tenants, TokenOf,   \* the tenant registry
  Strangers, Secrets,  \* other tenant ids, and what a client may present
  Requests,           \* the requests that may come
  Servers,            \* the MCP servers that are configured
  Policies, AllowedOf \* the tenants with a policy, and its allowed_servers

\* The messages of an MCP call: a JSON-RPC request with an id, a notification,
\* one of them without the other's name or id, one that is no JSON-RPC at all,
\* and a body that is no JSON object.
Messages == {"request", "notification", "no id", "malformed", "unreadable"}
Request == [route : {"healthz", "readyz", "chat", "servers", "rpc"},
            tenant : Tenants \cup Strangers \cup {"none"},
            token : Secrets \cup {"none", "not ascii"},
            server : STRING, message : Messages]

ASSUME GatewayAssumption ==
  /\ TokenOf \in [Tenants -> Secrets]
  /\ Tenants \cap Strangers = {} /\ "none" \notin Tenants \cup Strangers
  /\ {"none", "not ascii"} \cap Secrets = {}
  /\ Servers \subseteq STRING
  /\ Policies \subseteq Tenants
  /\ AllowedOf \in [Policies -> SUBSET Servers]
  /\ Requests \subseteq Request

VARIABLES
  request,    \* the request
  manager,    \* app.state.mcp is not None
  stage,      \* how far it has come
  status,     \* the status of the answer
  charged,    \* the charges for an MCP call (history)
  delivered   \* an MCP server may have seen the message (history)

rpcVars == <<stage, status, charged, delivered>>
gatewayVars == <<vars, request, manager, rpcVars>>

\* Before the middleware, at its route, asking the limiter, at the door of the
\* pool, with a bridge that runs, waiting for a line to drain, waiting for its
\* answer, answered.
Stages == {"arrived", "routed", "limiter", "pool", "started", "drain", "await", "answered"}

-----------------------------------------------------------------------------
AnswerWith(code) == stage' = "answered" /\ status' = code
GoOn(next) == stage' = next /\ UNCHANGED status
Aside == UNCHANGED <<vars, request, manager>>
Unserved == UNCHANGED <<charged, delivered>>

\* healthz, and readyz with the answer of Redis.
Health ==
  /\ stage = "arrived" /\ request.route \in {"healthz", "readyz"}
  /\ AnswerWith(200) \/ (request.route = "readyz" /\ AnswerWith(503))
  /\ Unserved /\ Aside

\* Mutant: any token of the registry will do.
TokenOfSomebody == \E t \in Tenants : request.token = TokenOf[t]
Authentic == request.token = TokenOf[request.tenant]

\* TenantAuthMiddleware.dispatch.
Authenticate ==
  /\ stage = "arrived" /\ request.route \notin {"healthz", "readyz"}
  /\ \/ request.tenant = "none" /\ AnswerWith(401)
     \/ request.tenant \in Strangers /\ AnswerWith(403)
     \/ request.tenant \in Tenants /\ request.token = "not ascii" /\ AnswerWith(400)
     \/ request.tenant \in Tenants /\ request.token # "not ascii" /\ ~Authentic
          /\ AnswerWith(401)
     \/ request.tenant \in Tenants /\ Authentic /\ GoOn("routed")
  /\ Unserved /\ Aside

Chat ==
  /\ stage = "routed" /\ request.route = "chat"
  /\ Next
  /\ UNCHANGED <<request, manager, rpcVars>>

\* As far as the providers move it.
ChatUpstream ==
  /\ stage = "routed" /\ request.route = "chat"
  /\ Upstream
  /\ UNCHANGED <<request, manager, rpcVars>>

\* allowed_servers.
Allowed == IF request.tenant \in Policies THEN AllowedOf[request.tenant] ELSE Servers

\* mcp_servers.
ListServers ==
  /\ stage = "routed" /\ request.route = "servers"
  /\ AnswerWith(IF manager THEN 200 ELSE 404)
  /\ Unserved /\ Aside

\* mcp_rpc up to the limiter.
Rpc ==
  /\ stage = "routed" /\ request.route = "rpc"
  /\ \/ request.message = "unreadable" /\ AnswerWith(400)
     \/ request.message # "unreadable" /\ ~manager /\ AnswerWith(404)
     \/ request.message # "unreadable" /\ manager
          /\ request.server \notin Servers /\ AnswerWith(404)
     \/ request.message # "unreadable" /\ manager
          /\ request.server \in Servers /\ GoOn("limiter")
  /\ Unserved /\ Aside

\* The limiter admits, refuses, or fails before or after the charge.
Limit ==
  /\ stage = "limiter"
  /\ \/ GoOn("pool") /\ charged' = charged + 1
     \/ AnswerWith(429) /\ charged' = charged
     \/ AnswerWith(503) /\ charged' \in {charged, charged + 1}
  /\ UNCHANGED delivered /\ Aside

\* _authorize.
Authorized ==
  /\ request.server \in Servers
  /\ request.tenant \in Policies => request.server \in AllowedOf[request.tenant]

\* _get_or_create_process: the policy, the limit of the tenant's processes, and
\* a subprocess that may not start.
TakeBridge ==
  /\ stage = "pool"
  /\ \/ ~Authorized /\ AnswerWith(403)
     \/ Authorized /\ request.tenant \in Policies /\ AnswerWith(403)
     \/ Authorized /\ AnswerWith(502)
     \/ Authorized /\ GoOn("started")
  /\ Unserved /\ Aside

\* JsonRpcRequest.model_validate, with require_id_for_request_response.
WellFormed == request.message \in {"request", "notification"}

\* request() and notify() up to the wait: their own ensure_started may fail,
\* the message may be no JSON-RPC, its id may be taken, it may have no encoding,
\* which nobody catches, and the pipe may be broken, before or after the server
\* has read the line.
Write(valid) ==
  /\ stage = "started"
  /\ \/ AnswerWith(502) /\ UNCHANGED delivered
     \/ ~valid /\ AnswerWith(400) /\ UNCHANGED delivered
     \/ valid /\ AnswerWith(500) /\ UNCHANGED delivered
     \/ valid /\ AnswerWith(502) /\ delivered' = TRUE
     \/ valid /\ delivered' = TRUE
          /\ GoOn(IF request.message = "notification" THEN "drain" ELSE "await")
  /\ UNCHANGED charged /\ Aside
\* Mutant: the message is validated when it has been written.
SendThenCheck ==
  \/ Write(TRUE)
  \/ /\ stage = "started" /\ ~WellFormed
     /\ AnswerWith(400) /\ delivered' = TRUE
     /\ UNCHANGED charged /\ Aside
Send == Write(WellFormed)

\* The line of a notification is drained, or the pipe breaks.
Accept ==
  /\ stage = "drain"
  /\ AnswerWith(202) \/ AnswerWith(502)
  /\ Unserved /\ Aside

\* A result or a JSON-RPC error, a timeout, an exit of the subprocess or a
\* broken pipe, or an exception of the stdout loop, which nobody catches.
Reply ==
  /\ stage = "await"
  /\ \E code \in {200, 504, 502, 500} : AnswerWith(code)
  /\ Unserved /\ Aside

GatewayInit ==
  /\ Init
  /\ request \in Requests
  /\ manager \in BOOLEAN
  /\ stage = "arrived" /\ status = 0
  /\ charged = 0 /\ delivered = FALSE

InPool == TakeBridge \/ Send \/ Accept \/ Reply
GatewayNext == Health \/ Authenticate \/ Chat \/ ListServers \/ Rpc \/ Limit \/ InPool

GatewaySpec == GatewayInit /\ [][GatewayNext]_gatewayVars

\* As in ChatCompletion.  Nothing is assumed of a bridge: a write may wait for
\* its server without a timeout (see ManagedProcess).
GatewayFairSpec == GatewaySpec /\ WF_gatewayVars(ChatUpstream)

-----------------------------------------------------------------------------
\* The values of every variable.
GatewayTypeOK ==
  /\ TypeOK
  /\ request \in Requests
  /\ manager \in BOOLEAN
  /\ stage \in Stages
  /\ status \in {0, 200, 202, 400, 401, 403, 404, 429, 500, 502, 503, 504}
  /\ charged \in 0..1
  /\ delivered \in BOOLEAN

\* What reaches a provider or an MCP server comes from the owner of the tenant's
\* token and was charged once: a chat for the estimate of its own body, however
\* many providers are tried, and a message as one request.  It goes to a server
\* that GET /v1/mcp/servers lists (security.py:42-75, main.py:118-239,
\* mcp_supervisor.py:482-487, 557-565; "MCP calls count one request", README.md:88).
Served == delivered \/ Asked # {}
ServedIsOwed ==
  Served => /\ request.tenant \in Tenants /\ request.token = TokenOf[request.tenant]
            /\ Asked # {} => paid = Estimate(body)
            /\ delivered => /\ charged = 1 /\ request.message \in {"request", "notification"}
                            /\ manager /\ request.server \in Allowed

\* A client that the gateway itself tells 4xx or 503 can correct its message and
\* send it again: neither a server nor a provider has seen it (main.py:118-258).
RefusalReachesNobody ==
  /\ status \in {400, 401, 403, 404, 429, 503} => ~delivered
  /\ pc \in {"invalid", "no limiter", "over quota"} => Asked = {}
=============================================================================
