--------------------------- MODULE WebhookDelivery ---------------------------
(***************************************************************************)
(* Outbound webhook delivery: the emitter (services/webhooks/emitter.py),  *)
(* the Redis Streams queue (cache/webhook_queue.py), the worker loop       *)
(* (workers/webhook_delivery.py) and the delivery handler                  *)
(* (services/webhooks/delivery_handler.py).                                *)
(*                                                                         *)
(* Redis keeps three keys: the main stream with one consumer group (the    *)
(* group's cursor and its pending entries list, the PEL), the delayed      *)
(* sorted set and the dead-letter stream.  Each Redis command is one step; *)
(* a MULTI block is one step.  Each worker process runs one loop and one   *)
(* asyncio task per entry it was handed.  A stream id is the entry's       *)
(* position; XACK removes an entry from the PEL, never from the stream.    *)
(***************************************************************************)
EXTENDS Integers, Sequences, FiniteSets

CONSTANTS
    Endpoints,       \* webhook_endpoints rows, all of one tenant
    Messages,        \* audit events that are emitted (BLOCK or SANITIZE)
    Subscribed,      \* Subscribed[m]: endpoints whose event_types match m
    Workers,         \* worker replicas, each with a stable consumer name
    Concurrency,     \* slots of a worker's semaphore
    MaxAttempts,     \* retry_schedule.MAX_ATTEMPTS
    PromoteBatch,    \* the `batch` of promote_delayed
    MaxStream,       \* bound: entries ever added to the main stream
    MaxDeliveries,   \* bound: times one entry is handed to a consumer
    Administered,    \* bound: endpoints that are disabled, reactivated or deleted
    MaxFaults        \* bound: crashes, raised handlers, failed Redis calls,
                     \* deliveries slower than claim_min_idle_ms

ASSUME ConstantsAssumption ==
    /\ Subscribed \in [Messages -> SUBSET Endpoints]
    /\ Concurrency \in Nat \ {0}
    /\ MaxAttempts \in Nat \ {0}
    /\ PromoteBatch \in Nat \ {0}
    /\ MaxStream \in Nat
    /\ MaxDeliveries \in Nat
    /\ Administered \in SUBSET Endpoints
    /\ MaxFaults \in Nat

VARIABLES
    endpoint,  \* what a handler can see of a row: active, disabled, deleted
    fanout,    \* fanout[m]: endpoints the emitter has still to enqueue m for
    looked,    \* messages whose endpoint lookup has been made
    stream,    \* wrapsec:webhooks:main
    cursor,    \* the consumer group's last delivered id
    pel,       \* the consumer group's pending entries
    delayed,   \* wrapsec:webhooks:delayed, a set because ZADD collapses members
    dlq,       \* wrapsec:webhooks:dlq
    deadRows,  \* payloads with a row of status dead in webhook_delivery_attempts
    received,  \* <<endpoint, message>> pairs a receiver has answered with 2xx
    up,        \* worker processes that are running
    due,       \* due[w]: the ZRANGEBYSCORE result w has still to promote
    tasks,     \* the in-flight _dispatch_one tasks of all workers
    faults     \* faults so far

queueVars == <<stream, cursor, pel, delayed, dlq>>
workerVars == <<up, due, tasks>>
envVars == <<endpoint, fanout, looked>>
vars == <<endpoint, fanout, looked, stream, cursor, pel, delayed, dlq, deadRows,
          received, up, due, tasks, faults>>

Payload == [ep : Endpoints, msg : Messages, attempt : Nat \ {0}]
Pending == [id : Nat \ {0}, consumer : Workers, deliveries : Nat]

\* A task waits for a semaphore slot ("queued"), has the receiver's answer
\* ("sent"), has an outcome ("decided"), or has made the first of its two
\* Redis calls ("handed").
\* `deliveries` tells apart the tasks of one entry.
TaskState == {"queued", "sent", "decided", "handed"}
Answer == {"ok", "transient", "permanent"}
Verdict == {"none", "SUCCESS", "RETRY", "DLQ"} \cup Answer
Task == [worker : Workers, id : Nat \ {0}, deliveries : Nat, pc : TaskState,
         verdict : Verdict]

Key(p) == <<p.ep, p.msg>>
Unread == {i \in 1..Len(stream) : i > cursor}
PendingIds == {x.id : x \in pel}

\* The payloads the queue still holds: not yet read, pending, or delayed.
Held == {stream[i] : i \in Unread \cup PendingIds} \cup delayed

Running(t) == t.pc # "queued"
SlotFree(w) == Cardinality({t \in tasks : t.worker = w /\ Running(t)}) < Concurrency
Spawned(w, x) == [worker |-> w, id |-> x.id, deliveries |-> x.deliveries,
                  pc |-> "queued", verdict |-> "none"]
Become(t, pc, verdict) ==
    tasks' = (tasks \ {t}) \cup {[t EXCEPT !.pc = pc, !.verdict = verdict]}
Fault == faults < MaxFaults /\ faults' = faults + 1
-----------------------------------------------------------------------------
(* The emitter *)

\* emit_from_audit: the enabled endpoints that subscribe to the event.
find_active_for_event(m) == {e \in Subscribed[m] : endpoint[e] = "active"}

\* emit_from_audit, up to the loop over endpoints.  A lookup that fails is
\* logged and emits nothing.
EmitLookup(m) ==
    /\ m \notin looked
    /\ looked' = looked \cup {m}
    /\ \/ fanout' = [fanout EXCEPT ![m] = find_active_for_event(m)] /\ UNCHANGED faults
       \/ Fault /\ UNCHANGED fanout
    /\ UNCHANGED <<endpoint, deadRows, received, queueVars, workerVars>>

\* Mutant of Emit: attempts counted from 0.
Emit_FromZero(m, e) ==
    /\ e \in fanout[m]
    /\ Len(stream) < MaxStream
    /\ stream' = Append(stream, [ep |-> e, msg |-> m, attempt |-> 0])
    /\ fanout' = [fanout EXCEPT ![m] = @ \ {e}]
    /\ UNCHANGED <<endpoint, looked, cursor, pel, delayed, dlq, deadRows,
                   received, faults, workerVars>>

\* enqueue: one XADD of the loop over endpoints.
Emit(m, e) ==
    /\ e \in fanout[m]
    /\ Len(stream) < MaxStream
    /\ stream' = Append(stream, [ep |-> e, msg |-> m, attempt |-> 1])
    /\ fanout' = [fanout EXCEPT ![m] = @ \ {e}]
    /\ UNCHANGED <<endpoint, looked, cursor, pel, delayed, dlq, deadRows,
                   received, faults, workerVars>>

\* The XADD failed: the error is logged and the loop goes on without e.
EmitFail(m, e) ==
    /\ e \in fanout[m]
    /\ Fault
    /\ fanout' = [fanout EXCEPT ![m] = @ \ {e}]
    /\ UNCHANGED <<endpoint, looked, deadRows, received, queueVars, workerVars>>

-----------------------------------------------------------------------------
(* The endpoint rows, as the emitter and the handler see them *)

\* pause, and the circuit breaker's disable_stale.
Disable(e) ==
    /\ endpoint[e] = "active"
    /\ endpoint' = [endpoint EXCEPT ![e] = "disabled"]
    /\ UNCHANGED <<fanout, looked, deadRows, received, faults, queueVars, workerVars>>

Reactivate(e) ==
    /\ endpoint[e] = "disabled"
    /\ endpoint' = [endpoint EXCEPT ![e] = "active"]
    /\ UNCHANGED <<fanout, looked, deadRows, received, faults, queueVars, workerVars>>

\* Hard delete, the endpoint's attempt rows first, in one transaction.
Delete(e) ==
    /\ endpoint[e] # "deleted"
    /\ endpoint' = [endpoint EXCEPT ![e] = "deleted"]
    /\ deadRows' = {p \in deadRows : p.ep # e}
    /\ UNCHANGED <<fanout, looked, received, faults, queueVars, workerVars>>

-----------------------------------------------------------------------------
(* The worker loop *)

\* Mutant of PromoteRead: an off-by-one in the batch limit leaves the last due
\* member behind.
PromoteRead_LeavesOne(w) ==
    /\ w \in up
    /\ due[w] = <<>>
    /\ \E n \in 1..PromoteBatch : \E s \in [1..n -> delayed] :
          /\ n < Cardinality(delayed)
          /\ \A i, j \in 1..n : s[i] = s[j] => i = j
          /\ due' = [due EXCEPT ![w] = s]
    /\ UNCHANGED <<deadRows, received, up, tasks, faults, queueVars, envVars>>

\* promote_delayed, first command: the due members, in some order.  How far
\* the clock has advanced decides which of the delayed members are due.
PromoteRead(w) ==
    /\ w \in up
    /\ due[w] = <<>>
    /\ \E n \in 1..PromoteBatch : \E s \in [1..n -> delayed] :
          /\ \A i, j \in 1..n : s[i] = s[j] => i = j
          /\ due' = [due EXCEPT ![w] = s]
    /\ UNCHANGED <<deadRows, received, up, tasks, faults, queueVars, envVars>>

\* Mutant of PromoteExec: the members are removed but not added.
PromoteExec_RemOnly(w) ==
    /\ due[w] # <<>>
    /\ delayed' = delayed \ {due[w][i] : i \in 1..Len(due[w])}
    /\ due' = [due EXCEPT ![w] = <<>>]
    /\ UNCHANGED <<stream, cursor, pel, dlq, deadRows, received, up, tasks, faults, envVars>>

\* promote_delayed, the MULTI block: XADD and ZREM of each member read.
\* ZREM of a member another worker has promoted removes nothing; its XADD
\* adds a second copy.
PromoteExec(w) ==
    /\ due[w] # <<>>
    /\ Len(stream) + Len(due[w]) <= MaxStream
    /\ stream' = stream \o due[w]
    /\ delayed' = delayed \ {due[w][i] : i \in 1..Len(due[w])}
    /\ due' = [due EXCEPT ![w] = <<>>]
    /\ UNCHANGED <<cursor, pel, dlq, deadRows, received, up, tasks, faults, envVars>>

\* The MULTI block failed: logged by the loop, tried again next iteration.
PromoteFail(w) ==
    /\ due[w] # <<>>
    /\ Fault
    /\ due' = [due EXCEPT ![w] = <<>>]
    /\ UNCHANGED <<deadRows, received, up, tasks, queueVars, envVars>>

\* Idle time runs from the hand-over to the consumer.  It may exceed
\* claim_min_idle_ms when no task works on the entry any more, when its task
\* still waits for a slot, and, as a fault, when its task has got its slot but
\* is slow to finish.
IdleTooLong(x) ==
    IF \A t \in tasks : (t.id = x.id /\ t.deliveries = x.deliveries) =>
                            ~Running(t) /\ ~SlotFree(t.worker)
    THEN UNCHANGED faults
    ELSE Fault

\* claim_stale: XAUTOCLAIM hands the idle entry to w, whoever held it, and the
\* loop spawns a task for it.  The loop is past promote_delayed.
claim_stale(w, x) ==
    /\ w \in up
    /\ due[w] = <<>>
    /\ x \in pel
    /\ IdleTooLong(x)
    /\ x.deliveries < MaxDeliveries
    /\ LET y == [x EXCEPT !.consumer = w, !.deliveries = x.deliveries + 1]
       IN  /\ pel' = (pel \ {x}) \cup {y}
           /\ tasks' = tasks \cup {Spawned(w, y)}
    /\ UNCHANGED <<stream, cursor, delayed, dlq, deadRows, received, up, due, envVars>>

\* read: XREADGROUP ">" hands the next entry to w, and the loop spawns a
\* task for it.  A batch is several of these steps.
read(w) ==
    /\ w \in up
    /\ due[w] = <<>>
    /\ cursor < Len(stream)
    /\ cursor' = cursor + 1
    /\ LET x == [id |-> cursor + 1, consumer |-> w, deliveries |-> 1]
       IN  /\ pel' = pel \cup {x}
           /\ tasks' = tasks \cup {Spawned(w, x)}
    /\ UNCHANGED <<stream, delayed, dlq, deadRows, received, up, due, faults, envVars>>

\* The process dies, or is cancelled when the shutdown drain times out.
Crash(w) ==
    /\ w \in up
    /\ Fault
    /\ up' = up \ {w}
    /\ due' = [due EXCEPT ![w] = <<>>]
    /\ tasks' = {t \in tasks : t.worker # w}
    /\ UNCHANGED <<deadRows, received, queueVars, envVars>>

\* Mutant of Restart: the consumer is deleted and created again, and Redis
\* drops a deleted consumer's pending entries.
Restart_DropsPending(w) ==
    /\ w \notin up
    /\ up' = up \cup {w}
    /\ pel' = {x \in pel : x.consumer # w}
    /\ UNCHANGED <<stream, cursor, delayed, dlq, deadRows, received, due, tasks, faults, envVars>>

\* run, at startup: read_own_pending (XREADGROUP "0") hands w its own PEL
\* again and a task is spawned for each of its entries.  When that call fails,
\* or the process comes back under another name, nothing is recovered here.
Restart(w) ==
    /\ w \notin up
    /\ up' = up \cup {w}
    /\ \E drained \in BOOLEAN :
          LET own   == {x \in pel : drained /\ x.consumer = w /\ x.deliveries < MaxDeliveries}
              again == {[x EXCEPT !.deliveries = @ + 1] : x \in own}
          IN  /\ pel' = (pel \ own) \cup again
              /\ tasks' = tasks \cup {Spawned(w, y) : y \in again}
    /\ UNCHANGED <<stream, cursor, delayed, dlq, deadRows, received, due, faults, envVars>>

-----------------------------------------------------------------------------
(* One task: the handler, then the reconciliation of its outcome *)

\* Mutant of next_retry_delay: the schedule is one delay too long.
next_retry_delay_OneMore(attempt) == attempt <= MaxAttempts

\* A retry delay is left for a failed attempt (retry_schedule).
next_retry_delay(attempt) == attempt < MaxAttempts

\* send_once: the receiver's answer, and whether it took the message.
send_once(p, result) ==
    received' = IF result = "ok" THEN received \cup {Key(p)} ELSE received

\* WebhookDeliveryAttemptRepository.record: one row an attempt.  Of the rows,
\* the model keeps those of status dead.
record(p, result) == deadRows' = IF result = "dead" THEN deadRows \cup {p} ELSE deadRows

\* _handle, up to and including send_once: the slot is taken and the endpoint
\* loaded.  A deleted endpoint is dead-lettered without a row, a disabled one
\* with; an active one is sent the message, whatever happens to its row while
\* the request is under way.
Handle(t) ==
    /\ t \in tasks
    /\ t.pc = "queued"
    /\ SlotFree(t.worker)
    /\ LET p == stream[t.id] IN
          \/ /\ endpoint[p.ep] = "deleted"
             /\ Become(t, "decided", "DLQ")
             /\ UNCHANGED <<deadRows, received>>
          \/ /\ endpoint[p.ep] = "disabled"
             /\ record(p, "dead")
             /\ Become(t, "decided", "DLQ")
             /\ UNCHANGED received
          \/ /\ endpoint[p.ep] = "active"
             /\ \E result \in Answer : send_once(p, result) /\ Become(t, "sent", result)
             /\ UNCHANGED deadRows
    /\ UNCHANGED <<up, due, faults, queueVars, envVars>>

\* _handle, after send_once: the attempt row and the outcome.  The row of an
\* endpoint deleted meanwhile breaks the foreign key, which the worker treats
\* as any exception of the handler: retry.
Commit(t) ==
    /\ t \in tasks
    /\ t.pc = "sent"
    /\ LET p       == stream[t.id]
           deleted == endpoint[p.ep] = "deleted"
           retry   == t.verdict = "transient" /\ next_retry_delay(p.attempt)
       IN \/ /\ deleted
             /\ Become(t, "decided", "RETRY")
             /\ UNCHANGED deadRows
          \/ /\ ~deleted /\ retry
             /\ record(p, "failed")
             /\ Become(t, "decided", "RETRY")
          \/ /\ ~deleted /\ t.verdict = "ok"
             /\ record(p, "success")
             /\ Become(t, "decided", "SUCCESS")
          \/ /\ ~deleted /\ ~retry /\ t.verdict # "ok"
             /\ record(p, "dead")
             /\ Become(t, "decided", "DLQ")
    /\ UNCHANGED <<received, up, due, faults, queueVars, envVars>>

\* The handler raised (a database error, say): _dispatch_one makes it a retry
\* without consulting the retry schedule.
HandlerRaises(t) ==
    /\ t \in tasks
    /\ t.pc = "sent" \/ (t.pc = "queued" /\ SlotFree(t.worker))
    /\ Fault
    /\ Become(t, "decided", "RETRY")
    /\ UNCHANGED <<deadRows, received, up, due, queueVars, envVars>>

\* enqueue_delayed: the retry, with the next attempt number.
enqueue_delayed(t) ==
    /\ t \in tasks
    /\ t.pc = "decided"
    /\ t.verdict = "RETRY"
    /\ delayed' = delayed \cup {[stream[t.id] EXCEPT !.attempt = @ + 1]}
    /\ Become(t, "handed", "none")
    /\ UNCHANGED <<stream, cursor, pel, dlq, deadRows, received, up, due, faults, envVars>>

\* move_to_dlq, its XADD.
move_to_dlq(t) ==
    /\ t \in tasks
    /\ t.pc = "decided"
    /\ t.verdict = "DLQ"
    /\ dlq' = dlq \cup {stream[t.id]}
    /\ Become(t, "handed", "none")
    /\ UNCHANGED <<stream, cursor, pel, delayed, deadRows, received, up, due, faults, envVars>>

\* Mutant of ack: the XACK goes out before the ZADD or the XADD.
ack_First(t) ==
    /\ t \in tasks
    /\ t.pc = "decided"
    /\ pel' = {x \in pel : x.id # t.id}
    /\ tasks' = tasks \ {t}
    /\ UNCHANGED <<stream, cursor, delayed, dlq, deadRows, received, up, due, faults, envVars>>

\* ack: XACK drops the entry from the PEL, whichever consumer holds it now.
ack(t) ==
    /\ t \in tasks
    /\ t.pc = "handed" \/ (t.pc = "decided" /\ t.verdict = "SUCCESS")
    /\ pel' = {x \in pel : x.id # t.id}
    /\ tasks' = tasks \ {t}
    /\ UNCHANGED <<stream, cursor, delayed, dlq, deadRows, received, up, due, faults, envVars>>

\* Mutant of ReconcileFails: the XACK sits in a finally clause.
ReconcileFails_Acks(t) ==
    /\ t \in tasks
    /\ t.pc \in {"decided", "handed"}
    /\ Fault
    /\ pel' = {x \in pel : x.id # t.id}
    /\ tasks' = tasks \ {t}
    /\ UNCHANGED <<stream, cursor, delayed, dlq, deadRows, received, up, due, envVars>>

\* A Redis call of _dispatch_one failed: the exception ends the task and the
\* entry stays pending.
ReconcileFails(t) ==
    /\ t \in tasks
    /\ t.pc \in {"decided", "handed"}
    /\ Fault
    /\ tasks' = tasks \ {t}
    /\ UNCHANGED <<deadRows, received, up, due, queueVars, envVars>>

-----------------------------------------------------------------------------
Init ==
    /\ endpoint = [e \in Endpoints |-> "active"]
    /\ fanout = [m \in Messages |-> {}]
    /\ looked = {}
    /\ stream = <<>>
    /\ cursor = 0
    /\ pel = {}
    /\ delayed = {}
    /\ dlq = {}
    /\ deadRows = {}
    /\ received = {}
    /\ up = Workers
    /\ due = [w \in Workers |-> <<>>]
    /\ tasks = {}
    /\ faults = 0

Emitter == \E m \in Messages : EmitLookup(m) \/ \E e \in Endpoints : Emit(m, e) \/ EmitFail(m, e)
Admin == \E e \in Administered : Disable(e) \/ Reactivate(e) \/ Delete(e)
Loop(w) ==
    \/ PromoteRead(w) \/ PromoteExec(w) \/ PromoteFail(w)
    \/ \E x \in pel : claim_stale(w, x)
    \/ read(w) \/ Crash(w) \/ Restart(w)
Dispatch(t) ==
    \/ Handle(t) \/ Commit(t) \/ HandlerRaises(t)
    \/ enqueue_delayed(t) \/ move_to_dlq(t) \/ ack(t) \/ ReconcileFails(t)

Next ==
    \/ Emitter
    \/ Admin
    \/ \E w \in Workers : Loop(w)
    \/ \E t \in tasks : Dispatch(t)

Spec == Init /\ [][Next]_vars

\* The event loop runs every task to its end and every loop keeps iterating; a
\* supervisor restarts a worker that died; time passes, so delayed members fall
\* due and abandoned entries become claimable.  Nothing obliges a fault, an
\* administrator or the emitter to act.
Fairness ==
    /\ WF_vars(\E t \in tasks : Handle(t) \/ Commit(t) \/ enqueue_delayed(t)
                                   \/ move_to_dlq(t) \/ ack(t))
    /\ \A w \in Workers :
          /\ WF_vars(PromoteRead(w))
          /\ WF_vars(PromoteExec(w))
          /\ WF_vars(read(w))
          /\ WF_vars(Restart(w))
          /\ WF_vars(UNCHANGED faults /\ \E x \in pel : claim_stale(w, x))

FairSpec == Spec /\ Fairness
-----------------------------------------------------------------------------
(* Properties *)

\* The types of the variables.
TypeOK ==
    /\ endpoint \in [Endpoints -> {"active", "disabled", "deleted"}]
    /\ fanout \in [Messages -> SUBSET Endpoints]
    /\ looked \in SUBSET Messages
    /\ stream \in Seq(Payload)
    /\ cursor \in 0..Len(stream)
    /\ pel \in SUBSET Pending
    /\ \A x \in pel : x.id <= cursor
    /\ delayed \in SUBSET Payload
    /\ dlq \in SUBSET Payload
    /\ deadRows \in SUBSET Payload
    /\ received \in SUBSET (Endpoints \X Messages)
    /\ up \in SUBSET Workers
    /\ due \in [Workers -> Seq(Payload)]
    /\ tasks \in SUBSET Task
    /\ \A t \in tasks : t.id <= cursor
    /\ faults \in Nat

Settled(k) == k \in received \/ \E p \in dlq : Key(p) = k

\* The queue answers for delivery k: it is settled, or the queue holds a copy
\* of it at attempt a or later.
Accounted(k, a) == Settled(k) \/ \E p \in Held : Key(p) = k /\ p.attempt >= a

\* At-least-once.  Whatever crashes, raises, is reclaimed or is promoted twice,
\* a delivery that reached the main stream (enqueue) has been accepted by its
\* receiver, has been dead-lettered, or is still held by the queue: unread,
\* pending or delayed.
NoMessageLost == \A i \in 1..Len(stream) : Accounted(Key(stream[i]), 1)

\* What a task owes its entry before it acks: a task that has made the first of
\* its two Redis calls has settled the delivery or queued a later attempt of it
\* that is still accounted for, and a task with a 2xx answer has settled it.
TasksHandOn ==
    \A t \in tasks :
        /\ t.pc = "handed" => Accounted(Key(stream[t.id]), stream[t.id].attempt + 1)
        /\ t.verdict \in {"ok", "SUCCESS"} => Settled(Key(stream[t.id]))

\* An entry leaves the pending list (ack) only once its delivery is settled or
\* handed on to a later attempt, also when the task that acks is not the one
\* that holds the entry now.
AckOnlyAfterHandoff ==
    [][\A x \in pel : x.id \notin PendingIds' =>
          \/ Settled(Key(stream[x.id]))'
          \/ \E p \in Held' : Key(p) = Key(stream[x.id]) /\ p.attempt > stream[x.id].attempt]_vars

\* Redis and Postgres agree on a dead letter: the row of a message that
\* move_to_dlq has dead-lettered was committed before, unless its endpoint has
\* been deleted, and its rows with it.
DeadLetterHasRow ==
    \A p \in dlq : endpoint[p.ep] = "deleted" \/ p \in deadRows

\* The retry schedule bounds the attempts of a delivery, up to one more for
\* each handler that raised: those retries bypass next_retry_delay, and one
\* more for a retry whose endpoint row was deleted under it.
AttemptsBounded == \A p \in Held : p.attempt <= MaxAttempts + faults + 1

\* Every attempt is accounted for until its end: what a task has sent is handed
\* on before it acks, a dead letter has its row, and no delivery is attempted
\* without bound (_dispatch_one, _handle, next_retry_delay).
AttemptsRecorded == TasksHandOn /\ DeadLetterHasRow /\ AttemptsBounded

\* No entry is worked on by two tasks at a time, so that no message is sent
\* twice while its first delivery is under way (claim_min_idle_ms).
NoDoubleSend == \A t, u \in tasks : t.id = u.id => t = u

\* Once faults cease, every delivery in the main stream is settled: no entry is
\* left pending by a crash, a failed ack or a cancelled task for good, and no
\* retry stays in the delayed set.
EventuallySettled ==
    \A k \in Endpoints \X Messages :
        (\E i \in 1..Len(stream) : Key(stream[i]) = k) ~> Settled(k)

\* The queue itself drains: in the end nothing is unread, pending or delayed.
QueueDrains == <>[](Held = {})

\* The workers and the queue implement what the queue promises.
Promise == INSTANCE DeliveryPromise WITH
    Deliveries <- Endpoints \X Messages,
    owed       <- {Key(p) : p \in Held},
    settled    <- received \cup {Key(p) : p \in dlq}
ImplementsPromise == Promise!PromiseSpec
=============================================================================
