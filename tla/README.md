# A TLA+ verification project for Wrapsec

Wrapsec is a security gateway for AI traffic: requests are scanned by detectors,
a policy decides (allow, sanitize, block), every decision is written to a
tamper-evident audit log, and blocked or sanitized events are announced by
webhook and by email. Around that core stand sessions, user administration,
rate limits, retention and background workers. It runs as several identical
processes over one Postgres and one Redis, so most of its state is shared
between processes that may die at any point.

The project models the parts whose correctness depends on the order in which
those processes act. Paths below are relative to `src/`.

## 1. Inventory

| Component | State | Operations | Interacts with | What is hard | Correct when |
|---|---|---|---|---|---|
| Webhook queue, `cache/webhook_queue.py` | Redis main stream, consumer group (cursor, pending list), delayed sorted set, dead-letter stream | enqueue, enqueue_delayed, promote_delayed, read, read_own_pending, claim_stale, ack, move_to_dlq | emitter, worker | every operation is several Redis commands; acks are by id whoever holds the entry | nothing accepted is lost; duplicates only |
| Delivery worker, `workers/webhook_delivery.py` | loop, semaphore, in-flight tasks | startup drain, promote, reclaim, read, dispatch, shutdown drain | queue, handler | crash between two calls, reclaim of live work | an entry is acked only after it was handed on; every entry is settled |
| Delivery handler, `services/webhooks/delivery_handler.py` | attempt rows in Postgres | load endpoint, send, commit, decide | endpoint rows, worker | the endpoint changes while the request is under way; two stores | a dead letter has its row; attempts are bounded |
| Emitter, `services/webhooks/emitter.py` | none | lookup, fan-out | audit, queue | one enqueue of several fails | best effort by design |
| Endpoint row and circuit breaker, `db/repositories/webhook_endpoint.py`, `workers/webhook_circuit_breaker.py` | disabled flag, failure timer, secrets, a lease | record_success/failure, disable_stale, pause, reactivate, rotate_secret | handler, administrators, every process's scheduler | read-then-update, late outcomes, flapping | the timer measures one outage; old secrets keep validating unless rotations overlap; a dead endpoint is retired |
| Audit chain, `db/repositories/audit.py`, `security/audit_chain.py`, `scripts/verify_audit_chain.py` | rows linked by hash and position | create, create_many, verify_tenant | all request handlers, retention | concurrent tips, clocks that step back, deletion under the writers | the verifier accepts what the writers produce |
| Email outbox, `db/repositories/email_outbox.py`, `workers/email_delivery.py` | rows with status and attempt count | queue, claim_batch, send, mark, reschedule, purge | provider, settings, retention | crash after the claim, failed status write | one holder, counted sends, final states final |
| Retention, `workers/tasks.py` | a lease | per-tenant deletes | audit, email, proxy logs | deletes what others read | deletes only by age; the chain still verifies |
| Sessions, `services/auth/`, `api/v1/endpoints/auth.py`, `api/v1/middleware/auth.py` | refresh tokens, token_version, cached user, jti blacklist, lockout counters | login, refresh, logout, password change | Postgres row locks, Redis | replay of a rotated token, stale cache, logins and refreshes in flight during an invalidation | a token is exchanged once; an invalidated session ends |
| User administration and setup, `api/v1/endpoints/admin/users.py`, `setup.py`, `db/repositories/membership.py` | users, memberships, roles | setup, bootstrap, create, update (role, state or both), reset, unlock | sessions | two requests that each see the other's administrator; a reset in two commits; rows locked in several orders | a tenant keeps an administrator; a reset ends the old sessions |
| Request gate, `api/v1/middleware/` (auth, idempotency, rate_limit), `cache/rate_limit_store.py` | tenant status cache, idempotency keys, sliding windows | admit, claim, look up, store, charge | every request | retries while the first is under way; stale status; weighted requests | one effect per stored key; limits hold; a suspension takes effect |
| Scan gateway, `services/gateway/`, `cache/semantic_cache.py` | semantic cache, process semaphores | fan-out, process, cache, decide | detectors, policy, provider, audit | timeouts, one failing part, cached answers under another policy | a failure never weakens the decision |
| Detection engine, `engine/` | none | normalise, detect, guard, score, apply posture, decide | scan gateway | averaging, rounding, limits on views | a strong finding decides |
| Proxy and AI endpoints, `api/v1/endpoints/proxy.py`, `ai.py` | audit rows, interactions, events | scan, call the provider, scan its answer, log, answer | all of the above | several messages in one request; several writes at the end | what is sent was screened; what was decided is on record |
| Administration of policy and keys, `api/v1/endpoints/settings.py`, `keys.py`, `applications.py`, `departments.py`, `proxy_settings.py`, `admin/tenants.py`, `services/policy_resolver.py` | settings records, overrides, keys, tenant status | put, patch, rotate, revoke, suspend, resolve | every request reads them | read-modify-write without a lock; merging of layers | a request is decided by thresholds that are in order |
| MCP gateway, `mcp_gateway/` | configuration, routing table, remembered verdicts | start, connect, list, call, scan, close | agent, tool servers, the API | partial startup, concurrent listings, servers that never answer | it serves in full or not at all; nothing unscreened passes |
| Command line, `sdk/python/wrapsec/` | one run's verdicts and flags | scan, batch, retry, interrupt | the gateway | lost answers, retries, SIGINT | the exit code tells the truth |

Left out altogether: SIEM wire formats, email rendering and the SMTP dialogue,
queries that only read, the dashboard, the Node SDK and the plugins.
`PROJECT.json` lists each part with its sources and its status, and under
"hazards" every place where the code could go wrong in a way a test would hardly
reach.

## 2. Modules

| Module | Models | Runs |
|---|---|---|
| `WebhookDelivery` | emitter, queue, worker, handler | through `MCWebhookDelivery` |
| `DeliveryPromise` | what the queue promises its producers; `WebhookDelivery` implements it | `ImplementsPromise` |
| `EndpointHealth` | one endpoint row and all its writers | directly |
| `AuditChain` | one tenant's chain: writers, retention, verifier | through `MCAuditChain` |
| `EmailOutbox` | outbox rows, workers, provider, settings, retention | directly |
| `Sessions` | setup, login, tokens, user cache, user administration, row locks | through `MCSessions` |
| `Detection` | one scan as operators: detectors, views, guards, score, posture, policy | through `MCGateway` |
| `Tenancy` | what administrators change and a request reads | through `MCGateway` |
| `Gateway` | a request from the middleware to its answer; extends `Tenancy`, which extends `Detection` | through `MCGateway` |
| `Sdk` | `wrapsec batch` and `wrapsec scan` in front of `Gateway`, which it extends | through `MCGateway` |
| `McpGateway` | the MCP gateway process | through `MCMcpGateway` |
| `WebhookDeliveryProofs`, `AuditChainProofs`, `EmailOutboxProofs`, `EndpointHealthProofs`, `SessionsProofs`, `McpGatewayProofs` | theorems about the module each is named after (section 5) | - |
| `GatewayProofs` | lemmas about the operators of `Detection`, and theorems about `Gateway` with `Tenancy` and `Sdk` around it | - |
| `SdkProofs` | theorems about the exit code of the command line and about the rate limits; extends `GatewayProofs` | - |

A definition that models a function carries its name where TLA+ allows it. A
definition `X_Something` just above `X` is the same code with one plausible bug;
it is used by no specification. Substituted for `X`, it violates the property it
is listed with under "mutants" in `PROJECT.json`.

### WebhookDelivery

Each Redis command is one step, a MULTI block is one step, and the handler is cut
at its HTTP request. `stream` is the main stream (a stream id is a position),
`cursor` and `pel` the consumer group, `delayed` the sorted set (a set of
payloads: ZADD of an equal member adds nothing), `dlq` the dead-letter stream,
`deadRows` the committed attempt rows of status dead, `received` what receivers
have answered with 2xx. `tasks` are the `_dispatch_one` tasks: *queued* (waiting
for the semaphore), *sent* (the receiver has answered), *decided* (the handler
has returned), *handed* (the ZADD or XADD is done, the XACK is not). `due[w]` is
the result of ZRANGEBYSCORE a worker carries to its MULTI block; the loop is
sequential, so a worker that carries one neither reclaims nor reads.

Time is abstracted: any delayed member may be due, and an entry may exceed the
reclaim timeout when no task works on it or its task waits for a slot. A task that
has its slot and is still slower than the timeout counts as a fault, because
`api/main.py` sizes the timeout so that it does not happen. A graceful stop is
a crash of a worker without tasks; it is not told apart.

The endpoint is reduced to what the handler and emitter see: active, disabled,
deleted. `EndpointHealth` says why it changes.

### EndpointHealth

One row, from its creation to its deletion. `first_failure_at` is kept as its age
and expiry times as the time left, so the clock has no bound. `sweep[p]` separates
the SELECT of `disable_stale` from its UPDATE; `snapshot[a]` is the row a rotation
has read. Two history variables serve the properties: `recovered` (time since the
last success, reactivation or creation) and `promised` (how long each replaced
secret must still be honoured). Two administrators act at a time, so a rotation may
write (`rotate_secret`) what it read (`ReadForRotation`) before another one wrote.

### AuditChain

A writer is one request that writes `Size[w]` rows. The advisory lock, the tip
query, each row of the batch, COMMIT and rollback are separate steps. SHA-256 is
an injective function of the row's fields, its position and the previous hash.
Retention's DELETE and its COMMIT are two steps. The verifier's checks
(`content_modified`, `link_broken`, `forks`, `gap_spans`) are operators over the
committed rows. `Build` takes any stamp, which covers a clock that steps back.

### EmailOutbox

`locked[w]` is the set of rows a claim transaction has locked (FOR UPDATE SKIP
LOCKED), `jobs` the `_process_one` coroutines, `phase[w]` where the loop is. A
failed settings read ends the worker task ("dead"), because it lies outside the
loop's `try`. The settings are state: an operator's update is validated and
clamped, a producer reads whether notifications are on, a batch reads the attempt
ceiling once. Mail that is queued when notifications are switched off is still sent,
as in the code. Due times are left open.

### Sessions

A client is one HTTP request. A statement that reads or locks what another request
may change, a COMMIT and a Redis command are one step each; waiting for a row lock
is a guard (`UserFree`, `TokenFree`, `MembershipFree`); `req[c].holds` says whether a
request has locked the user and the membership row of its account, and who holds a token
follows from where it is. `sessions` is the log of tokens issued: one entry
is an access token together with its refresh token, `parent` the one it was rotated
from, `since` the token_version at the password check that opened the chain.
`cache[u]` is the row the middleware keeps in Redis. Setup takes its advisory lock;
`bootstrap_admin` (of a starting process, and the operator's endpoint of that name)
takes none.

`update_user` is the PATCH of an account, with a role, a state or both in one body. What
differs from the row it read is written later and in the order of the code: the guard
locks the membership row of an administrator (`count_active_admins_for_update`); with a
role in the body `repo.flush()` writes the state first (`flush`) and then the role
(`write_membership`); a state alone is written by `logout_all_sessions`. All of it is
committed by `logout_all_commit`. Two transactions that wait for each other are not stuck:
PostgreSQL aborts one (`deadlock_detected`), which rolls it back (`RolledBack`).

### Detection, Tenancy, Gateway, Sdk

`Detection` is the pure part. A text is a model value and `Profile[t]` what the
pattern sets, the classifiers, the judge model and the PII recogniser find in it;
everything the engine then does with these findings is translated: which views are
looked at, how a view's failure is carried, the order of the guards, weights and
floor of the score, the posture of a source, the thresholds. Scores are percentages
and the weighted score is an integer in 1/10000, so nothing is rounded.

`Tenancy` holds what administrators change. An endpoint that reads a row and writes
it back is two steps of its administrator (`Begin`, `End`), so their cycles may
overlap. Sections of settings are functions on the names they set, merged as
`deep_merge` does; a credential is absent, in the clear, encrypted, or encrypted
under another key.

`Gateway` takes a request through the middleware (key, tenant status and its cache,
rate limit, idempotency), the handler (policy, cache, scans, provider, output guard,
audit, event) and back. `req[c]` records what was sent to the provider, which rows
were written and what the caller was told. A failing part of the system is a fault
of one kind (`Fault`): each Redis use, database read or write, detector and provider
call has a kind of its own. `scanned` counts what the engine really scanned for a
key, for `RateBudget`.

`Sdk` adds the command line: its requests are clients of `Gateway` whose answers may
get lost or come late, and a request it no longer waits for goes on.

### McpGateway

Startup (`start`, `connect`, `serve`) either reaches `serving` or refuses. A step is
what happens between two awaits of a handler, and two requests of the agent are
served at a time. A scan is a call of the WrapSec API; `Judge[t]` is what that API
says of a text: allowed, blocked, sanitized with a rewritten text (*redact*), sanitized
for its score with none (*flag*), or not scanned because it is too large or empty. `seen`
is the memory of verdicts on definitions.

## 3. Runs

| Run | Question | Bounds and why they are enough |
|---|---|---|
| `webhook_safety` | Is a delivery that reached the queue ever lost, acked too early, dead-lettered without its row, or attempted too often? | One message, two workers, two attempts, one fault, one administered endpoint, three stream entries, two hand-overs per entry. Two workers suffice for every race over one entry: each race is between a holder and one other. One fault falls at every point; the third stream entry is the copy of a double promotion. 1.3 million states. |
| `webhook_liveness` | Is every queued delivery settled, and does the queue drain, after a crash or a failed call? | Two messages, one attempt each plus the extra one a fault can cause, one fault. `MaxStream` and `MaxDeliveries` are too large to bind, so no bound stands in for progress. |
| `endpoint_health` | Does the timer measure one outage, what drops a replaced secret, is a dead endpoint retired? | Two overlapping deliveries, two sweepers, two administrators: each race over the row is between two of its writers. Three secrets: two rotations in one grace window, one after the other or overlapping. 0.21 million states. |
| `endpoint_rotation` | Do replaced secrets stay valid for their grace window? (violated) | Two administrators, three secrets. |
| `endpoint_sweep` | Does the sweep disable a healthy endpoint? (violated) | One of each suffices. |
| `audit_chain` | Does the verifier accept the chain, are batches whole and contiguous, does every writer finish? | A single-row and two two-row writers, two stamps, two retention runs: a writer can be overtaken by two others and by retention. |
| `email_outbox` | Is a row held once, are sends counted, are final states final, is an uninterrupted message settled? | Two rows, two workers, batches of two, one slot, one fault, requested ceilings on both sides of the clamp. |
| `email_crash` | Is a claimed message retried after a crash? (violated) | The same. |
| `sessions` | Do rotation, invalidation, reset, lockout and setup hold against requests in flight, and in which orders may row locks cross? | Two users, two requests at a time, one crash or lost Redis command. `Scopes` lists which administrative operations may occur together in one behaviour: operations that contend for the same rows with a refresh, a login or each other share a scope, and setup and login are in all. Three tokens (two rotations of one chain) and one raise of token_version; two tokens where accounts are created, for the administrator and the account; one token and two raises where roles and states change together, so that two PATCHes of one account can be under way and do cross. A circle of more than two requests is left to the theorem. 0.50 million states. |
| `last_admin` | Does the last-admin guard keep an administrator? (violated) | The same without faults, demotion only. |
| `gateway` | Does a request get the verdict, the evidence, the budget and the answer it should, whatever fails and whatever administrators do meanwhile? | Two requests and one or two administrators' operations at a time, one fault (as many as `MaxAttempts` for the command line). `Scopes` has one entry a question: cache under changing settings, retries, budgets, suspension (with and without faults), keys, overrides and their sections, every failing part of a scan, the proxy, a call given up, `wrapsec scan` with SIGINT. A product of all of them would only add requests that do not meet. Eight texts: harmless, an attack, a weak one in two spellings, one hidden in a decoded view, one behind more views than are looked at, personal data and its redaction. The limit in force is 3 and the default 4, so a batch can pass the first. 0.60 million states. |
| `mcp_gateway` | Does the gateway serve only in full, pass only what was screened and permitted, and answer? | Sixteen configurations: one that is sound, and one for each way to be refused or to leave a check out. Three servers of which one claims another's names, two requests at a time, three in all, one failing scan; texts of every outcome of a scan. 0.40 million states. |

Properties, by module:

* `WebhookDelivery`: `NoMessageLost` (at least once), `AttemptsRecorded` (what a task
  owes its entry before it acks, Redis and Postgres agree on a dead letter, attempts
  are bounded), `AckOnlyAfterHandoff`, `ImplementsPromise` (refinement of
  `DeliveryPromise`), `EventuallySettled`, `QueueDrains`.
* `EndpointHealth`: `RowConsistent` (types, `TimerWithinOutage`), `AbandonedIsRetired`,
  `OnlyOverlapDropsSecrets` (the write of a rotation that another one has overtaken is
  the only step that drops a secret inside its grace window).
* `AuditChain`: `ChainVerifies`, `EvidenceContiguous`, `BatchesWhole` (`AllOrNone`,
  `GapsAreDeletions`), `AppendOnly`, `WritersFinish`.
* `EmailOutbox`: `HeldAndCounted` (types, `OneHolder`, `SendsCounted`),
  `TerminalIsFinal`, `QueuedIsSettled`.
* `Sessions`: `RefreshOnce`, `InvalidationReachesInFlight` (no usable chain of tokens
  is older than the last invalidation of its user), `ResetEndsSessions`,
  `LockoutBoundsGuesses` (how many wrong passwords get past the limit when requests
  overlap: a login in flight may pass a lock, and each success in flight may remove one,
  which lets the remaining ones pass again; hence a quadratic bound), `SetupOnce`,
  `RevocationTakesEffect` (once the cached row that accepts an old token is gone it does
  not come back), `OnlyUpdatesDeadlock` (requests that wait for each other's rows in a
  circle include two PATCHes of one account that have `Crossed`).
* `Detection`: `StrongSignalDecides` (stated in `Gateway`, over whole requests).
* `Gateway`: `ProviderSeesScreened`, `CacheMatchesPolicy`, `VerdictsAudited`,
  `ScoresWithheld`, `IdempotentRetries`, `RateBudget` (no key scans more inputs than the
  larger of the limit in force and the default, against which the further inputs of a
  request are charged, however requests fail or are given up).
* `Tenancy`: `ThresholdsOrdered`, `SuspensionTakesEffect` (stated in `Gateway`).
* `Sdk`: `ExitCodeHonest`.
* `McpGateway`: `ServesInFull`, `AgentSeesScreened` (no refused text, no unscanned
  metadata; a result with something to redact in its redacted form only),
  `ServerSeesPermitted`, `VerdictSticks`, `EveryRequestAnswered`.

Each of the modules also states `TypeOK`. `AuditChain`, `Sessions`, `Gateway` and
`McpGateway` do so for their readers and for their proofs; their runs spend no property
on it (`AuditTypeCorrect` proves that of the chain).

Deadlock is checked in `gateway`. Elsewhere it is not: each system may rest when
nothing is queued and the bounds on faults and messages are used up. That requests
do not wait for each other in a circle, but for the one that PostgreSQL resolves, is
`OnlyUpdatesDeadlock`: its part `OnlyUpdatesCross` is about who waits for whom
(`WaitsFor`), the other says that a request in progress which waits for nobody can go on.

### Fairness

* Webhooks: weak fairness of the tasks and of each step of a worker's loop (an
  asyncio loop runs what is ready), of a restart (a supervisor restarts the
  process) and of the reclaim of an entry nobody works on (time passes). No
  fairness of faults, administrators or the emitter.
* Endpoint: time passes; the scheduler starts sweeps, and one gets an expired
  lease; strong fairness of the sweep's two statements, because a sweep may fail
  but the scheduler repeats it. Deliveries and administrators are never obliged.
* Audit: strong fairness of the lock, because Postgres queues its waiters; weak
  fairness of a request's own steps.
* Email: weak fairness of loop and jobs and of a restart of the *process*; strong
  fairness of some claim, because the loop claims before it looks at the stop
  event again. Nothing restarts a worker task that died in a live process.
* Sessions: weak fairness of the two steps by which a request reads and stores a
  cached user (an event loop runs what is ready) and of Redis's expiry. Nobody has to
  log in or to act.
* Gateway: weak fairness of the write-back of an administrator's request and of the
  expiry of the tenant's cached status; `SuspensionTakesEffect` supposes besides that
  requests end, which their time limits ensure.
* MCP gateway: weak fairness of each request's next step. A server is not obliged to
  answer: the call timeout is what ends the wait.

## 4. Findings

1. **`endpoint_sweep`** - `disable_stale` selects stale endpoints and then updates
   them by id alone; an endpoint that recovers or is reactivated in between is
   disabled although healthy, contrary to the docstring (`webhook_endpoint.py:151`).
2. **`endpoint_rotation`** - `rotate_secret` (`webhook_endpoint.py:343`) builds the list of
   old secrets from a row it read without a lock. Of two rotations that overlap the second
   drops the secret the first one returned to its administrator, although the docstrings
   (`webhook_endpoint.py:322-326`, `api/v1/endpoints/webhooks.py:497-499`) promise that a
   replaced secret stays valid for its grace window.
3. **`email_crash`** - a row in `sending` is claimed by nobody: a message whose
   worker dies between the claim and the status write is never retried, contrary
   to `workers/email_delivery.py:22-24` and to the life cycle in `docs/api.md`.
4. **`last_admin`** - the docstring at `db/repositories/membership.py:146-148` says
   that the row lock serializes concurrent last-admin checks. The lock is on the row of
   the *target*: two requests that demote (or deactivate) two different administrators
   lock two different rows, each counts two administrators, and the tenant keeps none.

Three further configurations show disagreements with a comment or a document that the
properties of the passing runs allow for. They are not among the runs of `PROJECT.json`;
TLC reports a violation of the invariant of each within seconds.

* **`WebhookReclaim.cfg`** (`MCWebhookDelivery`, `NoDoubleSend`) - comments in
  `api/main.py:170-172` and `workers/webhook_delivery.py:166-167` say that a live worker's
  entry is never reclaimed because the timeout exceeds the worst single delivery. The idle
  time of an entry also counts the time its task waits for the semaphore, and the loop
  reads on however many tasks wait. The entry is reclaimed and handled twice without any
  fault. Nothing is lost (`NoMessageLost` holds); the receiver may see a duplicate.
* **`GatewayLimit.cfg`** (`MCGateway`, `BatchWithinLimit`) - `charge_additional_units`
  (`services/gateway/fanout.py:128`) charges the further inputs of a batch against the
  default of the environment, admission charges the first against the limit in force.
  Where the latter is smaller, a batch passes it, contrary to
  `api/v1/endpoints/ai.py:836-837` and `cache/rate_limit_store.py:59-60`. `RateBudget`
  says what does hold: the larger of the two.
* **`McpSanitize.cfg`** (`MCMcpGateway`, `SanitizedIsReplaced`) - a SANITIZE verdict that
  rests on the score has no rewritten text (`services/gateway/service.py:383-390`), so
  `mcp_gateway/interceptors/scan_result.py:87-97` forwards the result as it is, with its
  binary blocks, contrary to `docs/mcp_gateway.md:513-516`. `AgentSeesScreened` says what
  does hold: a result with something to redact passes in its redacted form only.

## 5. Theorems

TLAPS proves these for every value of the constants that satisfies the assumption named
in the module (`ConstantsAssumption`, `AuditAssumption`, `EmailAssumption`,
`EndpointAssumption`, `SessionsAssumption`, `BoundsAssumption` and `NoRowAssumption`, `McpAssumption`,
`DetectionAssumption`, `TenancyAssumption`, `GatewayAssumption`, `SdkAssumption`): any
number of workers, writers, requests, messages, rows, tokens, texts or servers, where a
run has two or three. The assumptions say what kind of thing a constant is; TLC evaluates
them on the instances it checks. Some say more: in `DetectionAssumption`, a text in which
no personal data is found is its own redacted form (the recogniser replaces what it
finds); in `GatewayAssumption`, a batch has at least one item
(`api/v1/schemas/request.py:156`) and a single scan exactly one; in `LimitAssumption`,
limits are numbers and only the records and bodies about limits set one; in
`SdkAssumption`, the file of prompts is finite. That no other request uses the
idempotency key of a call is not an assumption but a guard (`build_headers`): the key is
a fresh `uuid4`.

**Webhooks** (`WebhookDeliveryProofs`). `TypeCorrect` is proved action by action.
`AtLeastOnce` (`Spec => []NoMessageLost`) and `AckIsSafe`
(`Spec => AckOnlyAfterHandoff`) use the inductive invariant
`TypeOK /\ NoMessageLost /\ TasksHandOn`. `NoMessageLost` alone is not inductive:
nothing in it stops a task from acking an entry it has not handed on. `TasksHandOn`
says that a *handed* task has settled its delivery or queued a later attempt that
is still accounted for. The difficulty is that this later attempt may itself be
acked meanwhile by another task; `AckKeepsAccounts` shows that such an ack leaves
either a settled delivery or a still later attempt. The lemmas `...Keeps` show of
every other action that whatever was accounted for stays so (the double promotion
included), and `OnlyAckDrops` that no other action takes an entry off the
pending list. `EveryAttemptRecorded` (`Spec => []AttemptsRecorded`) adds that a payload
anywhere in the queue is within the retry schedule and that a task which decided to
dead-letter has committed its row. `QueueKeepsPromise` (`Spec => ImplementsPromise`)
is the refinement: what the queue owes are the keys of the payloads it holds, and
`TaskIsOwed` says that whatever a task settles was owed or settled before, although
another task may have acked its entry.

**Audit chain** (`AuditChainProofs`). `VerifierAccepts`
(`Spec => []ChainVerifies`), `EvidenceStaysTogether`, `ChainGrowsAtItsEnd` and
`AuditTypeCorrect` rest on the invariant that conjoins: only the lock's holder is
past the tip query; committed rows together with the holder's batch form a chain
(positions are unique and each row's link is the hash of the row below, where that
row is still there); the holder's `tip` is the end of that chain or lies above
every committed row when retention has deleted the tip; batches belong to
their writer; each request's rows are contiguous. `ChainVerifies` alone is not
inductive, since it says nothing of the rows a writer is about to commit.
`ChainSubset` makes retention harmless (a subset of a chain is a chain) and
`ChainExtends` carries `Build` and `Commit`. `RequestsStayWhole`
(`Spec => []BatchesWhole`) adds how many rows a batch has at its commit, and
`GapPointsNowhere`: the row above a gap links to a row that is gone.

**Email** (`EmailOutboxProofs`). `MailHeldAndCounted` (`Spec => []HeldAndCounted`) and
`RecordedIsFinal` (`Spec => TerminalIsFinal`). The invariant adds `LocksHold` (no row is
locked by two claims, and a locked row is still queued when its claim commits) and
`SnapshotsTrue` (the attempt count a job carries is the number of sends before its own).

**Endpoint rows** (`EndpointHealthProofs`). `TimerMeasuresOneOutage`
(`Spec => []RowConsistent`) and `RotationsKeepPromises`
(`Spec => OnlyOverlapDropsSecrets`), both for any number of administrators and rotations
that overlap. `SecretsOverlap` itself is false (section 4); what is proved is that it is
lost in one way only. The invariant says of every list of old secrets, the row's and those
rotations have read, that it cuts no promise short which it lists (`Keeps`), and of a
rotation that no other one has overtaken that the list it read is the row's
(`SnapshotsSound`).

**Sessions** (`SessionsProofs`). `TypesHold`, `ExchangedOnce` (`RefreshOnce`),
`InvalidationHolds` (`InvalidationReachesInFlight`), `ResetHolds` (`ResetEndsSessions`)
and `SetUpOnce` (`SetupOnce`). A token is made from a row, or a token, its request has
read some steps before; the invariant therefore says of what a request has read what the
properties say of the tokens issued: a row is `Credible` if its token_version is no
later than the user's and, where it is the user's current one although a reset has set
the flag that the row lacks, an unfinished reset of that user is still to raise it; a
token that is being rotated is live
and locked by that request alone (`TokensLocked`), and a token that has a successor is
dead. For setup: the advisory lock has one holder (`GateHeld`), which has seen no user
(`GateMeansNew`), and a founder never disappears (`FounderStays`).

`GuessesBounded` (`LockoutBoundsGuesses`) counts. The bound says nothing of the requests
that are between a count and the lock; the invariant `Budget` is an account of what they
may still do: every login in flight may count once more before the lock holds, and
every removal of the lock that is under way opens another round for those that remain.
Each step pays for what it does (`NextRound`). `OneDeadlock`
(`Spec => []OnlyUpdatesCross`) rests on `RowLocks`: which of the rows of its account a
request holds follows from where it is and what it has to write, and each row is held
once. `CircleCrosses` then looks at a circle: one that rotates a token waits for nobody,
one that revokes tokens only for those (`WaitsAtEnd`), so a circle needs a request that
holds the user row and waits for a membership row, which only a PATCH with a role and a
state does, and the one that holds that membership row and goes on to the user row.

**MCP gateway** (`McpGatewayProofs`). `FullService` (`ServesInFull`), `AnswersScreened`
(`AgentSeesScreened`; `SanitizedIsReplaced` is false, section 4), `CallsPermitted` (`ServerSeesPermitted`) and
`SettledVerdictStands` (`VerdictSticks`). The invariant adds that the routing table names
every tool once and only tools of configured servers (`KeysUnique`, `Owned`: a verdict is
remembered by name and a policy looked up by server), that a remembered approval is of a
clean definition (`SeenOK`), that a listing has decided exactly the tools before its
position, and `Settled`: a definition whose verdict was known when some listing began is
not being judged while that listing goes on. The table is built in the order a server
lists its tools; that this order exists is `OrderExists`, proved by taking a smallest
counterexample (`Least`).

**Gateway** (`GatewayProofs`). Two layers. The first invariant,
`Inv`, relates a request's record to what it shares with others (`RequestOK`: the type
of its key's row, the scores it shows, the order of its policy's thresholds, the stored
response a late retry will find), the claims of idempotency keys (`ClaimOK`), the cache,
the settings with the edits administrators have read but not yet written (`TenancyOK`),
and the command line. It gives `ThresholdsInOrder` (`ThresholdsOrdered`),
`ScoresStayHidden` (`ScoresWithheld`) and `RetriesReplayed` (`IdempotentRetries`). The
second says what was scanned: thresholds stay numbers through every merge
(`SettingsOK`), and in `AllScreened` a request's results are the scans of its own items
under its own policy, no provider is reached past a BLOCK, and what is sent comes of the
results. With the lemmas on the engine it gives `ScreenedReachesProvider`
(`ProviderSeesScreened`) and `StrongFindingsDecide` (`StrongSignalDecides`).
`CacheAnswersBacked` (`CacheMatchesPolicy`) adds `CacheBacked`: every entry was stored by
some request whose scan ended in ALLOW under the policy, source, mode and folded text of
its key; the request may be long gone and the settings may have changed since.
`VerdictsOnRecord` (`VerdictsAudited`) adds `OnRecord`, which says phase by phase what a
request has recorded and knows: nothing before its scans (`Coming`), then its verdict and
how a proxy call ended (`Going`), at the end its rows (`Gone`). TLC has checked these
invariants on the instance of the run `gateway`, too; of `CacheBacked` only the part about
requests, since the request behind an entry is any request.

Of one scan the module proves first, for every text, policy and failing part: it ends
in one of three verdicts (`ThreeVerdicts`); a part that must not fail blocks when it does
(`EssentialPartBlocks`); personal data above the threshold is redacted in what is
passed on (`PersonalDataRedacted`); the strongest finding in any view survives the
weighting (`StrongFindingDecides`); an ALLOW under a failure that is not tolerated is
an ALLOW without it (`FailureMadeNoDifference`); policies that agree on what the cache
key holds give the same verdict (`PoliciesAlike`).

**Command line and rate limits** (`SdkProofs`). `ExitCodeTold` (`ExitCodeHonest`): an exit
code of 0 or 2 means that every prompt `--limit` lets through has a verdict on its own text,
0 that none of them is a BLOCK, although attempts time out, are repeated and are answered
late. Two invariants carry it. `CommandOK` is about the command
alone: as long as nothing failed it has a verdict for every prompt behind the line it is
at. `CallOK` is about the requests it has sent: nobody but the attempts of one call uses
the idempotency key of that call, so the answer it waits for, be it a scan, a replay of the
stored response of an earlier attempt or a conflict with it, is about the text it sent.
`BudgetKept` (`RateBudget`; `BatchWithinLimit`, with the limit in force alone, is false,
section 4): `Fits` says that no bucket is over a limit it is charged
against, and `Paid` that the inputs a key has scanned, together with those its requests in
service may still scan, were charged to the key. What a request may still scan (`Units`)
follows from where it is: one input from its arrival, the rest of a batch from the
policy that counts them, the rest of a proxy call from its configuration; a request that
the limiter waved through while Redis was down owes nothing, and is not counted.

Three of these proofs corrected the models. The attempt to prove `RateBudget` met a case
TLC's instance did not have: a body of `PUT /settings/rate_limit` may leave out
`per_minute`, and what is stored then is the default, so the default belongs to the limits
that may be in force (`LimitsOf`). `LockoutBoundsGuesses` had a bound that is
linear in the number of requests; the attempt to prove it showed that it fails for three
requests, which TLC confirmed, and the bound is now the quadratic one. The text of a
result in `McpGateway` was written without the parentheses that SANY supplies and tlapm
does not.

**Model-checked only.** Liveness under fairness (`EventuallySettled`,
`QueueDrains`, `WritersFinish`, `AbandonedIsRetired`, `QueuedIsSettled`,
`RevocationTakesEffect`, `SuspensionTakesEffect`, `EveryRequestAnswered`) and the part of
`OnlyUpdatesDeadlock` that speaks of ENABLED are out of the prover's reach. Every other
property the passing runs check is a theorem.

## 6. What the models leave out

*Webhooks and endpoints.* The bodies, signatures and connector formats of requests; url, description, event types and config of an
endpoint. A payload that cannot be decoded or an entry without one: neither the
emitter nor the worker writes one. Growth: streams are never trimmed and waiting tasks
not bounded by the code; `MaxStream`, `MaxDeliveries`, `MaxFaults` and `MaxSweeps` are
bounds of the models.

*Audit.* Rows of chain_format 1 and rows written before the chain existed; the fields
of rows beyond position, link, stamp and owner; queries.

*Sessions.* What passwords are and when a JWT expires (a request that is refused for
either changes nothing); the login limit by address; users with memberships in several
tenants; locale; the cached answer of the setup status. A PATCH of the department, or
of one role that is not an administrator's to another, writes and locks the same rows as
a change of role and counts as one (`Differing`). The rewrite of
a deprecated password hash at login is a hazard without a property for that reason.
The lock flag is set after the count that reached the limit and has the same lifetime,
so it outlives that count.

*Gateway.* The scans of one request share nothing that a verdict depends on and are
one step, so the two semaphores of `fanout.py` are not modelled. Requests of an
administrator's key or of a signed-in user, debug output, metrics, the confidence
score, `GET /v1/ai/request/{id}`, the limit on the administration endpoints, the Azure
token cache of the provider. The sliding window is one window that passes at some
point. Best-effort admin events, written in a second commit. Of the command line:
`chat`, `audit`, `doctor`, output formats and the asynchronous client.

*MCP gateway.* The `mcp` package: its dispatch of concurrent handlers, its protocol
negotiation and what a client does with a cancelled call are external. The record of
refusals kept for operators.

Behaviours of the code that no property forbids, met while modelling:

* The claim of an idempotency key (`idempotency.py:104`) may expire before the response
  stored under it; a later request with another body is then answered from it. The
  property sets it aside (`foreign`). A concurrent retry is processed a second time, by
  design. When Redis fails at the store, the consumed body is lost to the caller. The
  batch endpoint is not among the paths the middleware covers.
* A call that ends in `provider_config_error` writes no audit row, although
  `proxy.py:836` speaks of every path; nothing was sent, and `VerdictsAudited` is about
  calls that were sent or told a verdict.
* `PUT /settings/rate_limit` writes the tenant's settings, the middleware reads the
  platform's.
* Thresholds that are out of order after all layers are merged revert to the defaults of
  the environment.
* `wrapsec batch` uses a turn index again after a line that failed.
* Concurrent PATCHes of an override lose one update; a credential that is read back
  masked and put again is dropped.
* A PATCH with a role and a state and a PATCH of the same account with a role lock its
  two rows in opposite orders; PostgreSQL aborts one of them, which the caller sees as an
  error of the server (`deadlock_detected`).
* The reactivation of a user leaves the cached inactive row until it expires.
* An allow list that is written but empty restricts nothing, which
  `docs/mcp_gateway.md:242` may be read to deny.
* A row's `content_modified` check compares a row with itself in the model: a row is its
  own content, so this part of `ChainVerifies` says only that no writer changes a row.
* A tool definition whose scan fails once is withheld for the life of the MCP process;
  `initialize` and `list_tools` at startup have no timeout; prose nested deeper than
  twelve levels and binary blocks are not scanned.

## 7. Plan

Done: every component of section 1 is modelled in whole or in part; theorems exist for
the webhook pipeline, the audit chain, the email outbox, endpoint rows, sessions, the
MCP gateway, the gateway and the command line.

Next:

1. `Gateway`: the two semaphores and scans as steps of their own; requests of signed-in
   users, composed with `Sessions`.
2. Composition of `WebhookDelivery` with `EndpointHealth` in place of its endpoint
   abstraction, and of the email outbox with the operations that enqueue mail.
