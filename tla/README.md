# A TLA+ model of async-mcp-gateway

The gateway is one asyncio process. It forwards chat completions to LLM
providers and JSON-RPC messages to MCP servers, which it runs as subprocesses,
one for each tenant and server. Redis holds the tenants' quotas. These modules
model the parts of it in which order, failure and time matter; TLC checks small
instances of them and TLAPS proves what the instances suggest for every value of
the constants. All references are to `app/` unless they name another directory.

    tlc -workers 4 -config MCManagedProcess.cfg MCManagedProcess
    tlapm ManagedProcess_proofs.tla

`PROJECT.json` lists the runs, the lines each definition translates, the
hazards, the findings and the theorems.

## 1. The system

### Components

| Component | State | Operations | Modelled in |
| --- | --- | --- | --- |
| MCP process bridge, `ManagedMCPProcess` (`services/mcp_supervisor.py`) | the subprocess, its reader, waiter and stderr tasks, `_pending`, the lifecycle lock, the write lock, `last_used_at` | `request`, `notify`, `restart`, `close`, `health_check`, `ensure_started`; the stdout, stderr and wait loops | `ManagedProcess`, `CallPromise` |
| MCP process pool and reaper, `MCPProcessPoolManager` (same file) | the table `_processes`, the reaper task, `_closed` | `start`, `close`, `invoke`, `notify`, `health_check`, `snapshot`, the reaper | `ProcessPool` |
| Rate limiter, `RedisTokenBucketRateLimiter` (`services/rate_limiter.py`) | two hashes a tenant in Redis, the script's sha | `initialize`, `check`, `ping`, `close`; a Lua script | `TokenBucket` |
| Provider failover, `LLMRouter`, and the chat route (`services/router.py`, `main.py`) | none between requests; the turn, the attempts and the stream of each request | `create_chat_completion`, `stream_chat_completion`, `chat_completions` | `ChatCompletion` |
| SSE guard, `_intercept_sse` (`services/router.py`) | `pending`, `released_tail`, `decoded_tail` | one step per chunk, the end of the stream | `SseGuard` |
| Payload translation and compaction (`main.py`, `services/rate_limiter.py`, `services/router.py`) | none | `_validate_chat_payload`, `estimate_prompt_tokens`, `_compact_payload`, `_to_anthropic_payload` | `Payload` |
| Middleware, MCP routes and lifespan (`core/security.py`, `main.py`) | the registry of tenants, `app.state` | the two headers, `healthz`, `readyz`, `mcp_servers`, `mcp_rpc`; startup and shutdown | `Gateway` (without startup and shutdown) |
| Configuration and schemas (`core/config.py`, `models/schemas.py`) | none | validation | no: data, no behaviour |
| Benchmark, example servers and clients | - | - | no: tools around the gateway |

### How they interact

The middleware lets a request through if it shows the token of the tenant it
names. A POST to `/v1/chat/completions` is validated, waits for the rate limiter,
which charges it for its estimated tokens, and then asks the tenant's providers in
their order of preference, each with the body compacted and, for Anthropic,
translated; a stream is passed through the guard. A POST to `/v1/mcp/{server}`
waits for the rate limiter and calls `invoke` or `notify` on the pool, which looks the bridge up in its
table, or creates it, and calls `request` or `notify` on the bridge. The reaper
walks the table at its interval and closes, recycles or checks what it finds.
Callers, reaper and the loops of a bridge are tasks of the one event loop, so
they interleave exactly at their suspension points: a contended lock, a drain, a
future, a subprocess, a reply of Redis. Redis is shared by any number of
gateways.

### What is hard, and what must hold

* **Bridge.** A request passes `ensure_started` while another task may be
  recycling the process; the process may die while a request is registered,
  queued for the write lock, draining or waiting; an answer may come after its
  deadline; ids are chosen by clients and may repeat, and those that
  `scripts/mcp_http_client.py` sends begin at 1 in every run; a payload may turn out to have
  no encoding when its future is registered already. It must hold that no caller with
  an id of its own is left waiting for a process that is gone, whatever the others
  do, that an answer never crosses from one process to the next, that recycling
  leaves no subprocess behind, and that every request ends.
* **Pool.** A caller that has looked its bridge up, and the reaper that has read
  `has_pending`, both go on to wait for a lock. It must hold that a tenant keeps
  to its limit, that no bridge with an entry in `_pending` is taken out of the
  table, that a removal does not take out a successor, that what is closed gets
  no new callers, that callers end, that what is idle is reaped and that a
  subprocess nobody listens to is replaced.
* **Rate limiter.** The script, the reply and the hashes may each be lost, checks
  run in another order than they read the clock and any time after it, for the
  Redis client has no timeout, contents are fractions, and the wait is rounded to
  whole seconds. It must hold that the
  quota is kept over every stretch of time, that nobody is charged twice or for a
  denial, that Retry-After is right and that expiry gives nothing away.
* **Router and guard.** Chunks end anywhere, a marker may straddle chunks,
  events and the place of a cut, a stream may break after part of it was relayed.
  Markers have no longest form, and the tail that is scanned again has a length. It
  must hold that no marker is relayed that stands in one event, or whose beginning
  the tail holds, that what is relayed is what was sent, that no event waits for a
  later one, that the client is told the truth about failures, and that an admitted
  request ends.
* **Payload.** What is charged, what fits and what is sent are computed by three
  functions that count differently. It must hold that what is sent is the end of the
  conversation, as long as it fits, and that nobody is sent more of it than was
  charged, but for the newlines that translation puts in.
* **Door.** Eight conditions in five places decide about an MCP call, and the last
  of them, whether the message is JSON-RPC at all, is tested when everything else
  was done. It must hold that what is served was owed, and that what is refused has
  reached nobody.

The 40 hazards are listed in `PROJECT.json` at the lines where they bite, with
the properties that watch them. Those without a property say why.

## 2. The modules and the code

Every module follows the code's control from one suspension point to the next:
an action is what a task runs without yielding. Definitions marked `Mutant` in a
comment are deliberately wrong variants of the definition below them; no
specification uses them. They are there to show that the properties notice such
a mistake.

### ManagedProcess: one bridge, one subprocess at a time

`pc` gives each task's suspension point: `ensure`, `restart` and `close` queue
for, or hold, the lifecycle lock; `write` queues for the write lock; `drain` is
in `stdin.drain()`; `await` is in `wait_for(future)`. `asyncio.Lock` is first in,
first out, so both locks are sequences whose head holds the lock or has just been
woken. `phase` says where the holder of the lifecycle lock is: cancelling the
loops, waiting after SIGTERM, waiting after SIGKILL, or starting. `_pending_lock`
is never held across an await and so needs no variable.

`child` is the subprocess as the operating system has it (`up`, `gone`) and as
asyncio has it (`exited`, once `returncode` is set): the time between the two is
where writes fail on a process that still counts as running. `wire` and `outbox`
are the pipes; the server may answer in any order or not at all. A future is
named by its call; `future` tells a result, the exception of `_fail_pending`
(`stopped`), that of the stdout loop (`broken` if no handler of `request()` names it,
`runtime` if the one for writes does, as for the RecursionError of a deeply nested
line), and a future that its caller dropped. `answer` and `target` are there for the properties: whose answer a call
received, and which subprocess it wrote to. `FailPending` runs the waiting
callers' except clauses in the same step, because they resume before anything
could register their id again; those that find a `runtime` error restart the process,
each when its turn comes (`Raise`, `WriteRaises`). A call in `Unencodable` may end
right where it was registered: `json.dumps(...).encode()` raises for a lone surrogate,
no except clause pops the entry, and it stays in `pending` until the process is
recycled. An entry is popped by its id, whoever registered it (`Pop`).

`CallPromise` is the abstract specification: a call is accepted and answered only
by a process in service, and taking it out of service fails every call it owes.
It knows of no lock, pipe or table. `KeepsPromise` states that the bridge
implements it, with `serving` mapped to "there is a process and nobody is
recycling it", the calls to those that share their id with no other (`Owners`), and
the status of a call to the state of its future. Ids are the clients' and nothing
keeps them apart, so nothing is assumed of them: the other calls share ids, lose
entries and take entries away, and what they may do to an owner is in the
steps of the bridge. A call with a shared id is promised only that it ends.

### ProcessPool: the table, its callers and the reaper

Each bridge is the one of `ManagedProcess`, reduced to its lifecycle lock, to
whether its subprocess runs, to the entries of `_pending` and to who waits for an
answer. `pending` has the calls with an entry, and `HasPending` reads only that, as
`has_pending` does: a call that could not be encoded leaves its entry there, and one
that times out pops the entry under its id, which may be another caller's.
`_fail_pending` tells those who have an entry and no others. `table` is
`_processes`; `owner` remembers the key a bridge was created for, which is how
`Registered(b)` compares identities as `_remove_process` and `_recycle_process` do.
The bridge may leave the table while callers still hold it: that is the heart of
this module. `todo` is the snapshot a pass of the reaper works on. Time is
counted in passes of the reaper: `idle` is the number of passes since
`last_used_at`, which requests, health checks and starts reset. A health check is
a request by the reaper, or by a `Probe`, that is told instead of raised.

A `Note` is a call of `notify`: it takes the way of a caller and then waits, in
`drain`, where `HasPending` does not see it; the reaper may close its bridge, and
the notification is lost without a word, as in the code. `ReaderDies` is an
exception of the stdout loop: the subprocess runs on and is `deaf`. What was
pending gets that exception: either one that no handler names, which
`health_check()` does not catch either, so that it ends the reaper's pass
(`Uncaught`) with the bridges behind it not examined, or a RuntimeError, on which
`request()` restarts the process (state `broken`).

### TokenBucket: checks and the Lua script

An amount is counted in 1/Window of a token, so that the refill of a tick is a
whole number and the arithmetic is exact; the script computes the same with
doubles. A check reads its clock, waits for Redis, runs the script, and after
NOSCRIPT loads it again and runs it once more. `ScriptsLost` is a restart of
Redis that keeps the data; `ReplyLost` is a connection that breaks after the
script ran; a hash is missing once `expiry` has passed. `charged` and `grants` are
histories for the properties.

`now` is read before the check waits for Redis, so a check may be up to `MaxLag`
old when the script runs, and others may have overtaken it. The Redis client has no
timeout, so `MaxLag` is any number and a bound of the runs only. A late check
writes its own, older time to `ts`, and the next check counts the time from there
once more. `slip` adds up how far `ts` was set back, or how far it is behind the
full window that a hash had to wait before it could expire. `QuotaHolds` says that
this is all that goes wrong: without overtaking the quota is exact, and with it the
quota is exceeded by no more than the refill of the time counted twice. With buckets
of 3 tokens a window of 3 ticks, a check that is two ticks late gives two tokens
away. A gateway whose clock is late has the same effect.

`RetryAfter` is what the client is told: the `reset_ms` of the script, rounded up to
seconds and at least one. `RetryAfterIsRight` is about these seconds. An estimate of
more tokens than a bucket holds is told a time as well, after which it is denied
once more; the property says so.

### SseGuard, Payload, ChatCompletion and Gateway: one request

`SseGuard` is `_intercept_sse`. Bytes are symbols: `d` and `e` open and close a
data line with a delta in it, `n` is a newline, and `m`, any number of fillers and
`k` are a marker. The patterns of the code have no longest match either
(`ignore ... previous`, `<tool ...>`), while the tail has `sse_scan_tail_bytes`: a
marker over several events that is longer is relayed, which
`tests/test_security_defaults.py:268` asserts. So `NoMarkerInBytes` and
`NoMarkerInText` speak of the markers whose beginning the tail can hold
(`OnlyLongMarkers`), and `NoMarkerInAnEvent` of those of any length in one event,
which are scanned at once. That keeps all there is to cutting and scanning: boundaries, the limit of
`pending`, the tails of both windows, and a marker that is in the bytes, or only
in the text which the deltas spell together. `released` is a history of what one
provider's stream gave the client.

`Payload` has no state: it is what is made of a body. A text is its length, which
is all that validation, estimate and compaction look at. A content is a list of
parts, each with a text and what stands beside it (its type, an image); a string is
one bare part, null a bare part of four characters, as which both Python's `str`
and JSON write it. A message may have more beside its content, such as tool calls.
`Estimate` counts the values of the messages, `Size` counts their JSON.
`ToAnthropic` keeps only texts, drops what is beside them, joins the texts of a
content with newlines (`Text`) and the system messages with blank lines (`Joined`).
That these three disagree is what makes the properties worth having: a content of
a thousand strings of one character is charged as a thousand characters and sent as
1999, and `SentIsCharged` says that a newline for each bare part is all there is
to that.

`ChatCompletion` extends both with the route and the provider loop: validation and
estimate, the limiter, and then each provider's turn, which ends with a verdict:
worth a try elsewhere (`error`, `exhausted`, `refused`, `garbled`, `broken`,
`cut off`), `rejected` (400, 413, 422), `undecodable`, or `answered`. The body of a
rejected stream is read inside the `try` (`rejecting`); if it breaks off the verdict
is `cut off` and the next provider is asked after all. `Sent(i)` is the payload
of turn `i`. `sources` remembers who spoke to the client, `paid` what the limiter
charged. A client may hang up at any time.

`Gateway` puts the middleware and the other routes around it. `request` has the
two headers, the route, the server and the kind of message; `stage` says how far
the request has come, `status` what it was answered. The chat route is the action
`Chat`, a step of `ChatCompletion`; the pool is what it may answer, as `ProcessPool`
has it. `Write` sets `delivered` as soon as the server may have read the line,
which is before the gateway knows whether the write went well; a message that has no
encoding is answered 500 and reaches nobody. `charged` counts the charges of an MCP
call, and `paid` the tokens a chat was charged for, so that `ServedIsOwed` can ask
for exactly the estimate of the body.

The composition is by extension, so that every property of the chat request is
checked behind the door as well; `GatewayImplementsChat` proves that nothing is
lost thereby.

## 3. The runs

Twelve runs, one for each question. "States" are distinct ones.

| Run | States | Question and result |
| --- | ---: | --- |
| `bridge` | 1 100 500 | Three calls, two with the same id and perhaps without an encoding, one with an id of its own. `RecyclingHasNoPending`, `NoOrphanChild` and `AnswerFromSameProcess` need no assumption about ids; `NobodyAwaitsTheDead` and the refinement `KeepsPromise` hold of the call with its own id, through drains, crashes, recycles, timeouts and whatever the other two take out of `_pending`. |
| `bridge_live` | 119 397 | A call, a notification, a restart by the manager and a close: every one ends (`EveryTaskEnds`), provided that a live child keeps reading its stdin. |
| `bridge_paused` | finding | Without that proviso a request never ends (`EveryCallEnds` is violated). |
| `bridge_double_restart` | finding | A request whose write failed terminates the process that has replaced the dead one (`RestartsOnlyItsOwnProcess` is violated). |
| `bridge_has_pending` | finding | With an id used twice, `has_pending` is false while a call awaits its answer (`HasPendingIsTruthful` is violated). |
| `pool` | 2 825 747 | Two callers with the same id, one of them perhaps without an encoding, a notification, a health check and the reaper over two servers of a tenant that may have one process, with subprocesses that crash or go deaf: `CapacityKept`, `ClosedIsOutOfTable` and `DropsOnlyTheIdle` hold. |
| `pool_live` | 108 589 | `EveryCallerEnds`, whatever no health check touches is reaped unless an entry that nobody pops was left behind in it (`UncheckedIsReaped`), and a health check gets a deaf subprocess replaced even where it ends the reaper's pass (`DeafIsReplaced`). |
| `pool_stray` | finding | A subprocess may run in a bridge that no table names (`NoStrayProcess` is violated). |
| `pool_health` | finding | With health checks on, an idle process is never reaped (`IdleIsReaped` is violated). |
| `bucket` | 2 001 249 | Three checks that may overtake one another and be as late as two windows, two buckets: `QuotaHolds`, `RetryAfterIsRight`, `ChargedOnce`, `ExpiryIsHarmless`. |
| `chat` | 207 014 | One request by anybody on any route. To two providers, with 72 streams in every chunking and 797 bodies: no marker is relayed that the guard can see (`NoMarkerInBytes`, `NoMarkerInText`, `NoMarkerInAnEvent`), what is relayed is right and prompt, failures are told truthfully, streams end where they must, what is sent is the end of the conversation (`SentIsTheEnd`) and, but for newlines, no more than was charged (`SentIsCharged`). To three MCP servers as well: what is served was owed (`ServedIsOwed`), what is refused has reached nobody (`RefusalReachesNobody`). An admitted chat ends (`AdmittedRequestEnds`). |
| `chat_stream` | finding | What the client is sent may come from two providers (`OneProvider` is violated). |

Deadlock is not checked anywhere: each model is of a bounded number of calls, and
stops when they are over. That nobody is stuck is what the liveness properties say.

### Findings

* **A request without a deadline** (`bridge_paused`). `drain()` at
  `mcp_supervisor.py:323` is outside the `wait_for` of line 143 and under the
  write lock. A child that stays alive and does not read its stdin blocks the
  request that filled the pipe, and all that queue behind it.
* **A second restart** (`bridge_double_restart`). A request whose write fails calls
  `restart()` (line 165) without looking at which process it was writing to. By then
  another request's `ensure_started` may have found the process dead and started a
  new one, which the first now terminates.
* **A request that is not pending** (`bridge_has_pending`). The except clauses pop
  their entry by its id, whoever registered it (lines 149, 159, 164). When the first
  of two calls with one id has lost its entry with its process, and the second was
  registered with the next, the first takes the second's entry away: `has_pending` is
  false while the second awaits an answer that can no longer reach it.
* **A process nobody knows** (`pool_stray`). A caller queues for the lifecycle
  lock of a bridge behind the reaper's `close()`; when it gets the lock the bridge
  is out of the table, and `ensure_started` starts a subprocess in it. The
  request is served, and the subprocess is never reaped, checked or closed.
* **Health checks keep processes in use** (`pool_health`). A health check goes
  through `request()`, which sets `last_used_at`.
* **Two answers in one stream** (`chat_stream`). `stream_chat_completion` fails
  over also when events of the first provider were already relayed.

Three more divergences are in the models and have no run of their own. Their
properties state what the code does, exception included:

* *A rejection that is not passed on.* The body of a 400, 413 or 422 to a stream is
  read inside the `try` (`router.py:254`); if it breaks off, line 276 asks the next
  provider, where the comment at lines 92-95 and `CHANGELOG.md:51` say that it is
  returned as-is. This is the verdict `cut off` of `FailureIsTrue`.
* *An entry nobody pops.* A request that cannot be encoded leaves its entry in
  `_pending` (`mcp_supervisor.py:137-140`, `320`), so that `has_pending` stays true and
  the idle process is not reaped. This is the exception `LeftBehind` of
  `UncheckedIsReaped`.
* *Newlines nobody pays for.* A content that is a list of strings is sent to Anthropic
  with newlines that the estimate has not counted. This is the term `Bare` of
  `SentIsCharged`.

### Bounds, and why they are enough

* *Bridge.* Two subprocesses are a process and its successor, which every
  staleness property is about; a behaviour that would start a third stops there.
  A call with an id of its own and two that share one give an owner, whom the others
  must not disturb, a latecomer and a duplicate; each of the two may fail to be
  encoded. The restarts and recycles of `bridge` are those of the calls, and a
  manager's restart and close, which take the same lock for the same cleanup, are in
  `bridge_live` with a notification. Subprocesses are symmetric in `bridge`, and so
  are the two calls that share an id.
* *Pool.* Two callers of one server and a notification to another, with
  a limit of one, put an existing bridge, a creation and a refusal beside each
  other, and the callers share their id; two bridges are one and its successor, and the health check competes
  with the reaper for the same bridge. `Ttl` is one pass in `pool`, so that any
  process that was not used since the last pass counts as idle, and two for
  liveness, where health checks are on for the other server.
* *Bucket.* `Window = 3` with capacities 2 and 3 gives refills that are no whole
  tokens in the one bucket and whole ones in the other; estimates of 1 and 3 let
  either bucket be the one that is short (callers never estimate less than 1). A
  second has two ticks, so that the longest wait, of three, is no whole number of
  them. `RetryAfterIsRight` asks for all estimates up to one more than the bucket
  holds. `MaxLag = 6` lets a check be as late as two windows, and be overtaken by both
  others. `MaxClock = 6` is the lifetime of the hashes, so that those of a check
  at the start expire. A fourth check adds no new kind of step.
* *Chat.* The streams are all those of three events among four kinds (a harmless
  delta, either half of a marker, a whole one that is no delta) and
  eight special ones: two lines in an event, a last event without its end, a line
  broken off, two too long to wait for, and three with markers longer than the tail, in
  one event, over two, and in the text of three. Chunks have any length.
  `MaxTail = 2` holds all but the last symbol of a marker with no more than one filler;
  `MaxPending = 8` is longer than an ordinary event and shorter than the two
  long ones. Two providers are one and its successor, and the second is the one
  that needs a translation.
* *Payload.* `MaxInput = 3` is a budget of 12 characters, `Frame = 2`, of which
  `RoleChars = 2` are the role's. With strings of 0, 2, 9 characters and null, three
  messages of the least size fit exactly (3 * 4 = 12), one large message leaves no
  room for any other, and the largest fits with nothing before it. Conversations have
  up to two messages of any of four roles, up to three of three roles; those of
  which contents are lists, of bare strings or of a typed text and an image, or that
  call tools, have up to three as well. Three messages are a newest one, one that fits
  or not, and an older one behind it. Payloads are not streamed in the run except one,
  for bodies and streams do not influence each other.
* *Door.* Two tenants, one with a policy for one of two servers, a third server
  that is not configured, a stranger, their tokens and a wrong one, and each of
  five kinds of message, is every combination the conditions tell apart.

### Fairness

* *Bridge.* The event loop runs every ready task, timers fire, SIGKILL works, and
  `startup_timeout_seconds` bounds a start: weak fairness of each of these steps.
  Nothing is assumed of the child. In particular it owes no answer, and a drain
  on a full pipe is fair only once the pipe is broken.
* *Pool.* The same, as seen from outside a bridge: locks are handed on, starts and
  closes end, deadlines fire, the reaper wakes up and goes on. Nothing is assumed
  of the drain of a notification. `UncheckedIsReaped` and `DeafIsReplaced` have the
  premise that crashes stop at some time: a process that crashes between any two
  passes is recycled each time and is never idle, and one that goes deaf whenever
  it is checked is never found out.
* *Chat.* Something comes of every request to a provider, since httpx has timeouts
  for connecting and reading; what a provider streams has an end, and the client reads
  it or hangs up. The Redis client has no timeout, so nothing is assumed of the limiter
  and `AdmittedRequestEnds` starts where the limiter has answered.
* *Door.* Nothing is assumed of the limiter or of a bridge: `bridge_paused` shows that a
  write may wait for ever, so there is no liveness property of an MCP call here. What
  may be said of it is `EveryTaskEnds` and `EveryCallerEnds`, under their provisos.

## 4. The proofs

All theorems are proved for every value of the constants under the named
assumptions of the modules (`ConstantsAssumption`, `PoolAssumption`,
`BucketAssumption`, `GuardAssumption`, `PayloadAssumption`, `ChatAssumption`,
`GatewayAssumption`); those say the type of each constant, and that names of
different kinds differ. In particular ids may be shared, checks may be any time late,
a tail may be shorter than a marker, and a second may have any number of ticks.
`PayloadAssumption` also says that `Absent` is neither a text nor a conversation, so
that a missing member is told from one that is there, and that a role has at least two
characters: `system`, with its six, pays for the blank line that translation puts
between two system messages.

| Module | Theorem | Result |
| --- | --- | --- |
| `ManagedProcess_proofs` | `TypeCorrect` | every variable keeps its type |
| | `RecyclingIsExclusive` | nothing is registered while the process is being recycled |
| | `NoChildIsOrphaned` | a subprocess that was not reaped is the current one |
| | `AnswersAreNotStale` | an answer comes from the subprocess the call wrote to |
| `CallPromise_proofs` | `OwnStaysPending` | a call that awaits its answer under an id of its own is in `_pending`, whatever ids the others use |
| | `TheDeadAreNotAwaited` | no such call waits for a subprocess whose exit was reported |
| | `BridgeKeepsPromise` | the bridge implements `CallPromise` for the calls with an id of their own |
| `ProcessPool_proofs` | `TypeCorrect` | every variable keeps its type |
| | `CapacityIsNeverExceeded` | no tenant has more bridges in the table than its limit |
| | `NobodyGetsAClosedBridge` | a bridge that is being closed is not in the table |
| | `NobodyIsDropped` | until shutdown no step takes a bridge with a pending entry, or with a request under an id of its own, out of the table |
| `TokenBucket_proofs` | `BucketsNeverOverflow` | no bucket is over its capacity or below zero |
| | `NobodyIsChargedTwice` | a check is charged once if allowed, never if denied |
| | `TheQuotaHolds` | no stretch of time is granted more than a bucket, the refill, and what late checks count twice |
| | `ExpiryGivesNothingAway` | a bucket whose hashes expired would be full again, also for a check that is a window late |
| | `RetryAfterTellsTheTime` | what is denied is allowed after the seconds of Retry-After, if a bucket holds it at all, and not a second sooner |
| `ChatCompletion_proofs` | `NoMarkerIsReleased` | no marker whose beginning the tail can hold is in the bytes relayed, for any stream, chunking and tail |
| | `RelayIsFaithful` | what is relayed is a prefix of what was sent and has arrived |
| | `NothingIsLost` | a stream that ended well was relayed completely |
| | `FailuresAreTrue` | the client is told of a failure only for a reason, and nobody is asked after an answer or a rejection that could be read |
| | `CompleteEventsAreRelayed` | what waits has no event boundary in it |
| | `NothingFollowsTheEnd` | the step that finds a marker, and all after the end, relay nothing |
| `SseText_proofs` | `NoMarkerInWhatTheClientReads` | no marker whose beginning the tail can hold is in the decoded text of what was relayed |
| | `NoMarkerWithinAnEvent` | no marker of whatever length is relayed that stands within one event |
| | `NoStreamEndsForNothing` | a stream is terminated only for a marker that was sent |
| `Payload_proofs` | `TheEndIsSent` | who is asked is sent all system messages and the end of the conversation, as much as fits |
| | `ChargesCoverWhatIsSent` | nobody is sent more of a conversation than was charged, but a newline for each bare part |
| | `ChatTypeIsCorrect` | every variable of the request keeps its type, the tails their bound |
| `Gateway_proofs` | `GatewayImplementsChat` | the gateway's chat route behaves as `ChatCompletion` |
| | `OnlyOwedIsServed` | what is served is the tenant's own, allowed, and charged once: a chat its estimate, a message one request |
| | `RefusedIsUnseen` | what is refused has reached no server and no provider |
| | `GatewayTypeIsCorrect` | every variable of the gateway keeps its type |

* **Bridge.** `RecyclingHasNoPending` is not inductive: a step inside the
  recycling says nothing unless the lock is tied to the process it guards.
  `LockInv` does so (whoever is past the cancellation of the loops holds the lock
  and there is no reader; starting means that there is no process), and
  `SafetyInv` is the conjunction with the type invariant and both lifecycle
  properties. `AnswerFromSameProcess` further needs `TargetInv`: a call captures
  its subprocess once, everything in `wire` and `outbox` is bound for the
  subprocess whose pipe it is in, and everything registered is bound for the
  current one. A delivery then matches two calls bound for the same subprocess,
  even if they share their id.
* **Bridge, promise.** `RegistryInv` relates `_pending` to the futures: an entry
  is filed under the id of its call, the open future of an owner has its entry, and
  once the waiter has reported the exit no owner's future is open. Only a call
  that shares the id can pop the entry of a call, and an owner shares it with nobody
  (`PopOwn`); for the others it is false, which `bridge_has_pending` shows. The
  refinement is a lemma for each kind of step that touches a future
  (`PromisedAccept`, `PromisedSettle`, `PromisedFailAll`), and one for each action that
  uses them; all other steps are stutters of `CallPromise`. `PromisedFailAll` needs
  `RegistryInv`: the abstract step fails every call that is owed an answer,
  `_fail_pending` only those that are in `_pending`.
* **Pool.** A tenant's entries can be counted only if they are finitely many,
  though `Keys` may be infinite; `CapacityInv` therefore has `FiniteTable`. That
  argument needs nothing else, whoever removes entries and when: only `Invoke`
  adds one, and it adds one that was counted. The other theorems rest on
  `PoolInv`: nobody stands twice in a queue, all who stand in it are at that
  bridge, and a bridge that one of them came to close is not in the table
  (`QueueInv`); a lock that is held has a holder (`HeldInv`); a bridge in the table is there under the key it was
  created for, and whoever is anywhere is at a bridge that was created
  (`OwnerInv`, `AtInv`). `QueueInv` is what `ClosedIsOutOfTable` needs: a remover takes the
  bridge out of the table before it queues for the lock, and no key is ever given
  an old bridge. `DropsOnlyTheIdle` needs `PendInv` beside it: nothing is pending on
  a bridge while its lock is held, so that the reaper may remove it when its recycling
  fails, and whoever awaits an answer under an id of its own has an entry, so that it
  may go by `has_pending` otherwise.
* **Bucket.** The type invariant carries that both buckets lie between zero and
  their capacity, through the bounds of `Load` and `Take`. `ChargedOnce` is
  inductive beside it: a check that ran the script to effect is over in the same
  step. `QuotaHolds` compares sums over stretches of grants, and its inductive
  form is `Covered(k, i)`: what is in bucket `k` now, and all that was taken since
  grant `i`, is no more than a full bucket and the refill of the time since,
  counted as the hashes count it (`ts + slip`). A script that runs late moves
  `slip` up as it moves `ts` back, so that the sum never falls. `LateInv` says
  that checks read the clock before they run, and that the hashes outlive their `ts` by
  two windows: when they are missing they had been full again for a window at least
  (`RefilledTo`), and what a check that is later still is given beyond that is in `slip`.
  How late a check may be is not used anywhere. `RetryAfterIsRight` follows from the
  type alone: the wait of one bucket is the least number of ticks that refill what is
  missing (`WaitIsRight`), the later of the two is that of both (`ResetIsRight`), and
  rounding it up to seconds adds less than one (`RetryAfterIsRounded`).
* **Chat, stream.** `StreamInv` says that `released` and then `pending` are
  exactly what was read, and that the released tail is the end of `released`. A
  marker in `released \o ready` would lie in one of them or across the join; the
  first two are excluded by the invariant and the scan. One across the join either
  begins in the tail, so that it stands in the window that was scanned
  (`MarkerShifts`), or has more than `MaxTail` symbols before its last one
  (`NoMarkerAcross`), and is one of the long ones.
* **Chat, events.** `EventInv` says that a stream without overlong events is relayed
  up to the end of an event (`EndsEvent`), and that a marker in what was relayed goes on
  over such an end (`Spread`). What is ready was scanned as a whole, so a new marker
  would have to begin before it, and go on over the end that stands there.
* **Chat, text.** The guard decodes the deltas of each part it releases by itself,
  and scans their text with the tail of the text before. `TextInv` says that
  `released` ends with a whole line, that both tails are ends of what they are
  tails of, and that only long markers are in the text so far. Since no line goes across the
  join, the text of `released \o ready` is the text of the one and the text of the
  other (`TextApart`); a marker across the join is in the window that was scanned,
  and conversely a marker in the window is in the text that was sent
  (`MarkerInTail`, `MarkerStays`, `UnsafeIsReal`). An event that was cut for its
  length ends in the middle of a line, and neither holds: hence the premise
  `Uncut` of both properties.
* **Chat, turns.** `TurnInv` says that all before the turn failed transiently,
  all after it have no verdict, and the one whose turn it is has none while the
  request is open, or has rejected it. `CutInv` adds that only the rejection of a
  stream is cut off.
* **Chat, body.** `BodyInv` says that whoever is asked is asked with a body that
  was found valid and whose tokens were counted; the two properties then are facts
  about the operators of `Payload`. What a loop collects (`Picked`) and what it adds
  up (`Total`) are recursive functions over positions, so the lemmas are about
  them: weights of two parts add up (`WeightConcat`), and what is picked and what is
  not weigh together what the whole does (`WeightOfParts`). `KeptEnd` is the
  invariant of the loop of `_compact_payload`: what was kept is an end of what was
  said, it fits or is the newest message alone, and once the loop was left the
  next would not fit (`KeepsEnd`, `CompactedIs`). What is sent then weighs no
  more than the whole (`EndWeighsLess`, `CompactedWeighsLess`). Its texts, joined,
  weigh no more than its contents and a newline for each bare part, since the type of
  a part that is not bare is longer than a newline (`JoinedIsShort`, `TextIsShort`),
  and the texts of the system messages, with their blank lines, no more than with
  their roles (`OwedIsEnough`, `TranslationIsCharged`); what the estimate counts is
  rounded up to tokens (`EstimateCovers`).
* **Chat, types.** `TypeOK` follows from the invariants of the stream, its text, the
  turns and the body together (`ChatInv`) and `InBounds`, which bounds the tails.
* **Door.** An answer does not say who asked, so neither property is inductive.
  `DoorInv` says what is known at each stage: past the middleware the token was
  right, past the limiter one charge was made, past `_authorize` the server is
  allowed, and only then may something be delivered. `AskInv` says the same of the
  chat route: nobody was asked before the limiter has charged the estimate of this very
  body, and nothing is charged afterwards. Each step of the gateway is a step of
  the chat request or leaves it alone (`StepOfChat`); hence
  `GatewayImplementsChat`, which carries the theorems of `ChatCompletion` over.

The invariants were checked with TLC, on the instances of the runs, before they were
proved; for `QuotaInv`, whose `Spent` is an unbounded CHOOSE that TLC cannot evaluate,
with the same sum written as a recursive operator. Sums and texts are recursive functions. That one exists, and is the only one, is proved from the least
number at which it would fail (`LeastExists`, `Upward`), because the induction
theorems of the library are out of reach of the provers used here.

Only model-checked, and why:

* `EveryTaskEnds`, `EveryCallerEnds`, `UncheckedIsReaped`, `DeafIsReplaced`,
  `AdmittedRequestEnds`: liveness under fairness is out of reach of the provers used here.

Every invariant of the passing runs is stated by a theorem, and so is every action
property. The findings are runs only.

## 5. What is not modelled

* Startup and shutdown of the application. `manager.start()` stands before the
  `try` of the lifespan, so that an exception of the limiter's initialisation
  leaves the reaper running in a process that ends; shutdown cancels the reaper,
  possibly between taking a bridge out of the table and closing it, and the
  subprocess sees its stdin close when the gateway ends. `Close` of `ProcessPool`
  has that outcome; no property is about it.
* Events that are delimited by CRLF: their boundaries, and the lines of
  their deltas, are those of LF here.
* A ValueError or a RecursionError while a body or an answer is rendered or encoded as
  JSON, except for the payload of an MCP call. The request ends with a 500.
* Word boundaries in the patterns: where a tail was cut in the middle of a word, one
  that began there seems to begin a word. `MarkerIsReal` is about markers without.
* A provider that trickles for ever, and a client that neither reads nor hangs up:
  nothing in the code bounds either.
* The cancellation of a caller. A task that is cancelled at `wait_for` leaves its
  entry in `_pending`, but the routes run to their end when a client leaves, so
  only shutdown cancels them.
* `start()` after `close()`: the application starts the pool once.
* The stderr loop, statistics, snapshots and logging.
* Doubles in the Lua script, and a clock of Redis that goes backwards.
* What a provider knows or insists on: it may reject a conversation that begins
  with an answer, or not know the model named for another one. Both are outcomes
  of a turn (`rejected`, `refused`); when they happen is not in the repository.
* Which requests share an HTTP connection: requests share only the limiter and
  the HTTP client's pool, so one request is enough for `ChatCompletion`.
* The patterns of the markers and the parsing of SSE and JSON: one kind of marker,
  with a beginning, an end and fillers between them, and data lines that have a delta
  or not. In a body, quotes, brackets and escapes, hence also those of parts that are
  lists or objects themselves, and the members that are passed on as they came
  (`model`, `temperature`, `max_tokens`, `tools`): the estimate counts none of them, and
  a provider other than Anthropic is sent them all.
* What translation drops: images, tool calls, and the null that Anthropic is sent as the
  text `None`. That it drops them is in `ToAnthropic`; no property says it should not.
* How the body of a rejection that is not a stream breaks off: that happens inside
  httpx before the status is seen, and is an `error` of the turn.
* Configuration and schemas: Pydantic models, validated once at startup; the one
  that requests meet, `JsonRpcRequest`, is in `Gateway`. The benchmark, the example
  servers and the client are programs of their own.

## 6. Plan

Done: `ManagedProcess` with `CallPromise`; `ProcessPool` with notifications and
deaf subprocesses; `TokenBucket` with checks that overtake one another; `SseGuard`,
`Payload`, `ChatCompletion` and `Gateway`; their runs; the theorems above.

Next:

1. An abstract specification of the pool and one of the limiter, as `CallPromise`
   is for the bridge, and the proofs that the modules implement them: a tenant's
   table as a bounded set of keys, and a quota as a counter that time refills.
2. `Gateway` over `ProcessPool` instead of the answers the pool may give.
