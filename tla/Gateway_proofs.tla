---------------------------- MODULE Gateway_proofs ----------------------------
(***************************************************************************)
(* Proofs about Gateway, for any registry of tenants, any policies and     *)
(* servers and any number of providers: the gateway is a ChatCompletion    *)
(* with a door, and nobody is served whom it has not let in and charged.   *)
(***************************************************************************)
EXTENDS Gateway, Payload_proofs

-----------------------------------------------------------------------------
\* A step of the gateway is a step of the chat request, or leaves it alone.
LEMMA StepOfChat == [GatewayNext]_gatewayVars => [Next]_vars
<1>. SUFFICES ASSUME [GatewayNext]_gatewayVars PROVE [Next]_vars
  OBVIOUS
<1>1. CASE Health \/ Authenticate \/ ListServers \/ Rpc \/ Limit
  BY <1>1 DEF Health, Authenticate, ListServers, Rpc, Limit, Aside
<1>2. CASE Chat
  BY <1>2 DEF Chat
<1>3. CASE InPool
  BY <1>3 DEF InPool, TakeBridge, Send, Write, Accept, Reply, Aside
<1>4. CASE UNCHANGED gatewayVars
  BY <1>4 DEF gatewayVars
<1>. QED  BY <1>1, <1>2, <1>3, <1>4 DEF GatewayNext

\* The chat route behind the middleware behaves as ChatCompletion, so that all
\* that is proved of ChatCompletion holds in the gateway (main.py:118-199).
THEOREM GatewayImplementsChat == GatewaySpec => Spec
<1>1. GatewayInit => Init
  BY DEF GatewayInit
<1>. QED  BY <1>1, StepOfChat, PTL DEF GatewaySpec, Spec

-----------------------------------------------------------------------------
\* Before the limiter has admitted a chat request no provider is asked, and when
\* it has, what was charged is the estimate of the body.
Untouched == \A i \in 1..Turns : verdict[i] = "none"
AskInv ==
  /\ pc \in {"new", "limiter", "invalid", "no limiter", "over quota"} => Untouched
  /\ pc \in {"new", "limiter"} => paid = 0
  /\ pc = "limiter" => tokens = Estimate(body)
  /\ pc \in {"ask", "rejecting", "relay"} => paid = Estimate(body)
  /\ ~Untouched => paid = Estimate(body)

LEMMA StepAsk == BodyInv /\ AskInv /\ [Next]_vars => AskInv'
<1>. SUFFICES ASSUME BodyInv, AskInv, [Next]_vars PROVE AskInv'
  OBVIOUS
<1>1. CASE Unreadable \/ OverQuota \/ Disconnect
  BY <1>1 DEF Unreadable, OverQuota, Disconnect, routerVars, AskInv, Untouched, Ended
<1>2. CASE NoLimiter
  BY <1>2 DEF NoLimiter, AskInv, Untouched
<1>3. CASE Admitted
  <2>1. paid' = paid + tokens /\ paid = 0 /\ tokens = Estimate(body) /\ tokens \in Nat
    BY <1>3 DEF Admitted, AskInv, BodyInv
  <2>2. paid' = Estimate(body) /\ body' = body
    BY <1>3, <2>1 DEF Admitted
  <2>. QED  BY <1>3, <2>2 DEF Admitted, AskInv, Untouched
<1>4. CASE Receive
  <2>1. /\ Untouched /\ verdict' = verdict /\ paid' = 0
        /\ (pc' = "limiter" /\ tokens' = Estimate(body')) \/ pc' = "invalid"
    BY <1>4 DEF Receive, AskInv
  <2>. QED  BY <2>1 DEF AskInv, Untouched
<1>5. CASE Upstream
  <2>1. pc \in {"ask", "rejecting", "relay"}
    BY <1>5 DEF Upstream, FailOver, Reject, PassOn, CutOff, Answer, Undecodable, GiveUp,
                Begin, Chunk, EndOfStream, Break, Asking
  <2>2. paid' = paid /\ body' = body
    BY <1>5 DEF Upstream, FailOver, Reject, PassOn, CutOff, Answer, Undecodable, GiveUp,
                Begin, Chunk, EndOfStream, Break, routerVars
  <2>3. pc' \in {"ask", "rejecting", "relay", "rejected", "answer", "crash", "unavailable",
                 "done", "marker"}
    BY <1>5, <2>1 DEF Upstream, FailOver, Reject, PassOn, CutOff, Answer, Undecodable,
                      GiveUp, Begin, Chunk, EndOfStream, Break, Asking
  <2>4. paid' = Estimate(body')
    BY <2>1, <2>2 DEF AskInv
  <2>. QED  BY <2>3, <2>4 DEF AskInv
<1>6. CASE UNCHANGED vars
  BY <1>6 DEF vars, routerVars, AskInv, Untouched
<1>. QED  BY <1>1, <1>2, <1>3, <1>4, <1>5, <1>6 DEF Next

-----------------------------------------------------------------------------
(***************************************************************************)
(* How far a request has come tells what is known of it.  Neither property *)
(* is inductive: an answer does not say by itself who asked.               *)
(***************************************************************************)
Owner == request.tenant \in Tenants /\ request.token = TokenOf[request.tenant]
Sendable == charged = 1 /\ manager /\ Authorized
DoorInv ==
  /\ stage \in Stages
  /\ stage \notin {"arrived", "answered"} => Owner /\ status = 0
  /\ stage = "arrived" => status = 0
  /\ stage \notin {"arrived", "routed", "answered"} => request.route = "rpc" /\ manager
  /\ stage \in {"arrived", "routed", "limiter"} => charged = 0
  /\ stage \in {"pool", "started", "drain", "await"} => charged = 1
  /\ stage \in {"started", "drain", "await"} => Authorized
  /\ delivered => Owner /\ Sendable /\ WellFormed /\ stage \in {"drain", "await", "answered"}
  /\ delivered => status \in {0, 200, 202, 500, 502, 504}
  /\ pc # "new" => stage = "routed" /\ request.route = "chat"

LEMMA InitDoor == GatewayInit => AskInv /\ DoorInv
BY DEF GatewayInit, Init, AskInv, Untouched, DoorInv, Stages

LEMMA StepDoor ==
  ASSUME DoorInv, AskInv, [GatewayNext]_gatewayVars
  PROVE  DoorInv'
<1>1. CASE Health
  BY <1>1 DEF Health, AnswerWith, Unserved, Aside, vars, DoorInv, Owner, Sendable,
              WellFormed, Stages
<1>2. CASE Authenticate
  BY <1>2 DEF Authenticate, Authentic, AnswerWith, GoOn, Unserved, Aside, vars, DoorInv,
              Owner, Sendable, WellFormed, Stages
<1>3. CASE Chat
  BY <1>3 DEF Chat, rpcVars, DoorInv, Owner, Sendable, Authorized, WellFormed
<1>4. CASE ListServers
  BY <1>4 DEF ListServers, AnswerWith, Unserved, Aside, vars, DoorInv, Owner, Sendable,
              WellFormed, Stages
<1>5. CASE Rpc
  BY <1>5 DEF Rpc, AnswerWith, GoOn, Unserved, Aside, vars, DoorInv, Owner, Sendable,
              WellFormed, Stages
<1>6. CASE Limit
  BY <1>6 DEF Limit, AnswerWith, GoOn, Aside, vars, DoorInv, Owner, Sendable,
              WellFormed, Stages
<1>7. CASE TakeBridge
  BY <1>7 DEF TakeBridge, AnswerWith, GoOn, Unserved, Aside, vars, DoorInv, Owner,
              Sendable, Authorized, WellFormed, Stages
<1>8. CASE Send
  BY <1>8 DEF Send, Write, AnswerWith, GoOn, Aside, vars, DoorInv, Owner, Sendable,
              Authorized, WellFormed, Stages
<1>9. CASE Accept
  BY <1>9 DEF Accept, AnswerWith, Unserved, Aside, vars, DoorInv, Owner, Sendable,
              Authorized, WellFormed, Stages
<1>10. CASE Reply
  BY <1>10 DEF Reply, AnswerWith, Unserved, Aside, vars, DoorInv, Owner, Sendable,
               Authorized, WellFormed, Stages
<1>11. CASE UNCHANGED gatewayVars
  BY <1>11 DEF gatewayVars, vars, rpcVars, DoorInv, Owner, Sendable, Authorized,
               WellFormed
<1>. QED  BY <1>1, <1>2, <1>3, <1>4, <1>5, <1>6, <1>7, <1>8, <1>9, <1>10, <1>11
             DEF GatewayNext, InPool

LEMMA DoorIsKept == GatewaySpec => [](AskInv /\ DoorInv)
<1>1. GatewaySpec => []BodyInv
  BY GatewayImplementsChat, BodyIsKnown, PTL
<1>2. BodyInv /\ AskInv /\ DoorInv /\ [GatewayNext]_gatewayVars => (AskInv /\ DoorInv)'
  BY StepOfChat, StepAsk, StepDoor
<1>. QED  BY <1>1, <1>2, InitDoor, PTL DEF GatewaySpec

\* Whoever a provider or an MCP server works for has shown the token of the
\* tenant and was charged once, a chat for the estimate of its own body, and may
\* use the server.
THEOREM OnlyOwedIsServed == GatewaySpec => []ServedIsOwed
<1>1. AskInv /\ DoorInv => ServedIsOwed
  <2>. SUFFICES ASSUME AskInv, DoorInv, Served PROVE ServedIsOwed
    BY DEF ServedIsOwed
  <2>1. CASE delivered
    <3>1. Owner /\ Sendable /\ WellFormed
      BY <2>1 DEF DoorInv
    <3>2. request.server \in Allowed
      BY <3>1 DEF Sendable, Authorized, Allowed
    <3>3. Asked # {} => paid = Estimate(body)
      BY DEF Asked, AskInv, Untouched
    <3>. QED  BY <3>1, <3>2, <3>3 DEF ServedIsOwed, Owner, Sendable, WellFormed
  <2>2. CASE ~delivered
    <3>1. Asked # {}
      BY <2>2 DEF Served
    <3>2. pc # "new" /\ paid = Estimate(body)
      BY <3>1 DEF Asked, AskInv, Untouched
    <3>3. Owner
      BY <3>2 DEF DoorInv
    <3>. QED  BY <2>2, <3>2, <3>3 DEF ServedIsOwed, Owner
  <2>. QED  BY <2>1, <2>2
<1>. QED  BY <1>1, DoorIsKept, PTL

\* What the gateway refuses has reached no MCP server and no provider.
THEOREM RefusedIsUnseen == GatewaySpec => []RefusalReachesNobody
<1>1. AskInv /\ DoorInv => RefusalReachesNobody
  <2>. SUFFICES ASSUME AskInv, DoorInv PROVE RefusalReachesNobody
    OBVIOUS
  <2>1. status \in {400, 401, 403, 404, 429, 503} => ~delivered
    BY DEF DoorInv
  <2>2. pc \in {"invalid", "no limiter", "over quota"} => Asked = {}
    BY DEF Asked, AskInv, Untouched
  <2>. QED  BY <2>1, <2>2 DEF RefusalReachesNobody
<1>. QED  BY <1>1, DoorIsKept, PTL

-----------------------------------------------------------------------------
\* The statuses of the answers, and what no step changes.
StatusInv ==
  /\ request \in Requests /\ manager \in BOOLEAN /\ delivered \in BOOLEAN
  /\ charged \in 0..1
  /\ status \in {0, 200, 202, 400, 401, 403, 404, 429, 500, 502, 503, 504}

LEMMA StepStatus ==
  ASSUME StatusInv, DoorInv, [GatewayNext]_gatewayVars
  PROVE  StatusInv'
<1>1. CASE Health
  BY <1>1 DEF Health, AnswerWith, Unserved, Aside, StatusInv
<1>2. CASE Authenticate
  <2>1. UNCHANGED <<request, manager, charged, delivered>>
    BY <1>2 DEF Authenticate, Unserved, Aside
  <2>2. status' \in {400, 401, 403, status}
    BY <1>2 DEF Authenticate, AnswerWith, GoOn
  <2>. QED  BY <2>1, <2>2 DEF StatusInv
<1>3. CASE Chat \/ ListServers
  BY <1>3 DEF Chat, ListServers, AnswerWith, Unserved, Aside, rpcVars, StatusInv
<1>4. CASE Rpc
  BY <1>4 DEF Rpc, AnswerWith, GoOn, Unserved, Aside, StatusInv
<1>5. CASE Limit
  <2>1. charged = 0
    BY <1>5 DEF Limit, DoorInv
  <2>. QED  BY <1>5, <2>1 DEF Limit, AnswerWith, GoOn, Unserved, Aside, StatusInv
<1>6. CASE TakeBridge \/ Accept \/ Reply
  BY <1>6 DEF TakeBridge, Accept, Reply, AnswerWith, GoOn, Unserved, Aside, StatusInv
<1>7. CASE Send
  <2>1. UNCHANGED <<request, manager, charged>> /\ delivered' \in {TRUE, delivered}
    BY <1>7 DEF Send, Write, Aside
  <2>2. status' \in {400, 500, 502, status}
    BY <1>7 DEF Send, Write, AnswerWith, GoOn
  <2>3. delivered' \in BOOLEAN
    BY <2>1 DEF StatusInv
  <2>. QED  BY <2>1, <2>2, <2>3 DEF StatusInv
<1>8. CASE UNCHANGED gatewayVars
  BY <1>8 DEF gatewayVars, rpcVars, StatusInv
<1>. QED  BY <1>1, <1>2, <1>3, <1>4, <1>5, <1>6, <1>7, <1>8 DEF GatewayNext, InPool

\* An MCP call is charged once at most, an answer has one of the statuses that
\* the routes and the middleware give, and the chat request keeps its types.
THEOREM GatewayTypeIsCorrect == GatewaySpec => []GatewayTypeOK
<1>1. GatewayInit => StatusInv
  <2>1. GatewayInit => request \in Requests /\ manager \in BOOLEAN /\ delivered \in BOOLEAN
    BY DEF GatewayInit
  <2>2. GatewayInit => charged \in 0..1 /\ status = 0
    BY DEF GatewayInit
  <2>. QED  BY <2>1, <2>2 DEF StatusInv
<1>2. GatewaySpec => []StatusInv
  <2>1. StatusInv /\ AskInv /\ DoorInv /\ [GatewayNext]_gatewayVars => StatusInv'
    BY StepStatus
  <2>. QED  BY <1>1, <2>1, DoorIsKept, PTL DEF GatewaySpec
<1>3. GatewaySpec => []TypeOK
  BY GatewayImplementsChat, ChatTypeIsCorrect, PTL
<1>4. TypeOK /\ DoorInv /\ StatusInv => GatewayTypeOK
  BY DEF DoorInv, StatusInv, GatewayTypeOK
<1>. QED  BY <1>2, <1>3, <1>4, DoorIsKept, PTL
=============================================================================
