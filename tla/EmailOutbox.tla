----------------------------- MODULE EmailOutbox -----------------------------
(***************************************************************************)
(* The transactional email outbox: EmailService.queue writes a row in the  *)
(* caller's transaction, polling workers (workers/email_delivery.py) claim *)
(* batches of due rows, send each through the SMTP provider and record     *)
(* what became of it (db/repositories/email_outbox.py); retention deletes  *)
(* rows by age (workers/tasks.py).                                         *)
(*                                                                         *)
(* A SELECT ... FOR UPDATE SKIP LOCKED, a COMMIT and a call of the         *)
(* provider are one step each.  A job is one _process_one coroutine.  When *)
(* a row is due is left open: its available_at is some time in the past or *)
(* will be.                                                                *)
(***************************************************************************)
EXTENDS Integers, FiniteSets

CONSTANTS
    Rows,         \* email_outbox ids
    Workers,      \* processes that run the worker
    Batch,        \* rows claimed at a time
    Concurrency,  \* slots of a worker's semaphore
    MaxAttempts,  \* retry_schedule.MAX_ATTEMPTS
    Requested,    \* values of max_attempts an administrator asks for
    MaxFaults     \* bound: crashes and failed database calls

ASSUME EmailAssumption ==
    /\ Batch \in Nat \ {0}
    /\ Concurrency \in Nat \ {0}
    /\ MaxAttempts \in Nat \ {0}
    /\ Requested \subseteq Nat
    /\ MaxFaults \in Nat

VARIABLES
    status,    \* status[r]: absent, one of EmailStatus, or purged
    attempts,  \* attempt_count
    phase,     \* phase[w]: where w's loop is
    locked,    \* locked[w]: rows locked by w's claim transaction
    setting,   \* the stored email_settings row: {}, or {[enabled, max]} after a PUT
    cap,       \* cap[w]: the max_attempts w has read for its batch
    jobs,      \* the _process_one coroutines of all workers
    sends,     \* sends[r]: how often r was handed to the provider
    faults

\* What an outbox row holds of the message's fate.
rowVars == <<status, attempts>>
vars == <<rowVars, setting, phase, locked, cap, jobs, sends, faults>>

EmailStatus == {"queued", "sending", "provider_accepted", "failed"}
Terminal == {"provider_accepted", "failed"}

\* poll: top of the loop; claim: rows selected; settings: claim committed;
\* batch: gather under way; dead: run ended by an exception; down: no process.
Phase == {"poll", "claim", "settings", "batch", "dead", "down"}

\* What the SMTP library answers: no error, a refused recipient or login, a reply
\* code with a refused sender or in general (0 where there is none), no
\* connection or an answer too late, or another error of its own.
Reply == [kind : {"accepted", "recipient refused", "login refused", "no connection", "other"},
          code : {0}] \cup [kind : {"code"}, code : {0, 421, 550}]

_classify_by_code(code) == IF code \in 500..599 THEN "permanent" ELSE "transient"

\* SMTPProvider.send: the exception an answer becomes.
send(reply) ==
    CASE reply.kind = "accepted" -> "accepted"
      [] reply.kind \in {"recipient refused", "login refused"} -> "permanent"
      [] reply.kind = "code" -> _classify_by_code(reply.code)
      [] OTHER -> "transient"

\* What the worker sees.  "unexpected" is any other exception.
Outcome == {send(reply) : reply \in Reply} \cup {"unexpected"}
Job == [worker : Workers, row : Rows, attempt : Nat, pc : {"waiting", "answered"},
        outcome : Outcome \cup {"none"}]

JobsOf(w) == {j \in jobs : j.worker = w}
Fault == faults < MaxFaults /\ faults' = faults + 1
-----------------------------------------------------------------------------
(* Settings and notifications *)

\* validate_email_settings: what is asked for is checked, not clamped.
valid(max) == max \in 1..MaxAttempts

\* set_email_settings: the whole record is written.
set_email_settings(enabled, max) == setting' = {[enabled |-> enabled, max |-> max]}

\* put_email_settings_endpoint; a value that is not valid is a 400.
put_email_settings(enabled, max) ==
    /\ valid(max)
    /\ set_email_settings(enabled, max)
    /\ UNCHANGED <<rowVars, phase, locked, cap, jobs, sends, faults>>

\* get_email_settings: the stored record over the defaults.
get_email_settings ==
    IF setting = {} THEN [enabled |-> TRUE, max |-> MaxAttempts]
    ELSE CHOOSE stored \in setting : TRUE

\* EmailOutboxRepository.create.
create(r) ==
    /\ status[r] = "absent"
    /\ status' = [status EXCEPT ![r] = "queued"]
    /\ attempts' = [attempts EXCEPT ![r] = 0]

\* EmailService.queue: a queued row, committed with the business change.  A
\* reserved type, disabled notifications or a template error write nothing;
\* what is queued when notifications are disabled is still sent.
queue(r) ==
    /\ get_email_settings.enabled
    /\ create(r)
    /\ UNCHANGED <<setting, phase, locked, cap, jobs, sends, faults>>

\* _cleanup_email_outbox: the row is older than the retention period.  The
\* DELETE waits for a claim transaction that has locked the row.
Purge(r) ==
    /\ status[r] \in EmailStatus
    /\ \A w \in Workers : r \notin locked[w]
    /\ status' = [status EXCEPT ![r] = "purged"]
    /\ UNCHANGED <<attempts, setting, phase, locked, cap, jobs, sends, faults>>
-----------------------------------------------------------------------------
(* One worker's loop *)

\* Mutant of claim_batch: the rows are selected without FOR UPDATE.
claim_batch_NoLock(w) ==
    /\ phase[w] = "poll"
    /\ \E claimed \in SUBSET {r \in Rows : status[r] = "queued"} :
          /\ Cardinality(claimed) \in 1..Batch
          /\ locked' = [locked EXCEPT ![w] = claimed]
    /\ phase' = [phase EXCEPT ![w] = "claim"]
    /\ UNCHANGED <<rowVars, setting, cap, jobs, sends, faults>>

\* Mutant of claim_batch: the worker waits for a full batch.
claim_batch_Full(w) ==
    /\ phase[w] = "poll"
    /\ \E claimed \in SUBSET {r \in Rows : /\ status[r] = "queued"
                                           /\ \A v \in Workers : r \notin locked[v]} :
          /\ Cardinality(claimed) = Batch
          /\ locked' = [locked EXCEPT ![w] = claimed]
    /\ phase' = [phase EXCEPT ![w] = "claim"]
    /\ UNCHANGED <<rowVars, setting, cap, jobs, sends, faults>>

\* claim_batch: due rows that no other claim has locked.
claim_batch(w) ==
    /\ phase[w] = "poll"
    /\ \E claimed \in SUBSET {r \in Rows : /\ status[r] = "queued"
                                           /\ \A v \in Workers : r \notin locked[v]} :
          /\ Cardinality(claimed) \in 1..Batch
          /\ locked' = [locked EXCEPT ![w] = claimed]
    /\ phase' = [phase EXCEPT ![w] = "claim"]
    /\ UNCHANGED <<rowVars, setting, cap, jobs, sends, faults>>

\* _claim, its COMMIT: the rows are "sending" and w has a snapshot of each.
_claim(w) ==
    /\ phase[w] = "claim"
    /\ status' = [r \in Rows |-> IF r \in locked[w] THEN "sending" ELSE status[r]]
    /\ jobs' = jobs \cup {[worker |-> w, row |-> r, attempt |-> attempts[r],
                           pc |-> "waiting", outcome |-> "none"] : r \in locked[w]}
    /\ locked' = [locked EXCEPT ![w] = {}]
    /\ phase' = [phase EXCEPT ![w] = "settings"]
    /\ UNCHANGED <<attempts, setting, cap, sends, faults>>

\* The claim failed: rolled back, and tried again after a pause.
ClaimFails(w) ==
    /\ phase[w] = "claim"
    /\ Fault
    /\ locked' = [locked EXCEPT ![w] = {}]
    /\ phase' = [phase EXCEPT ![w] = "poll"]
    /\ UNCHANGED <<rowVars, setting, cap, jobs, sends>>

\* get_email_settings, once per batch.
ReadSettings(w) ==
    /\ phase[w] = "settings"
    /\ cap' = [cap EXCEPT ![w] = get_email_settings.max]
    /\ phase' = [phase EXCEPT ![w] = "batch"]
    /\ UNCHANGED <<rowVars, setting, locked, jobs, sends, faults>>

\* That read failed.  It is outside the loop's try: the exception ends run and
\* the claimed rows are dropped.
SettingsFail(w) ==
    /\ phase[w] = "settings"
    /\ Fault
    /\ jobs' = jobs \ JobsOf(w)
    /\ phase' = [phase EXCEPT ![w] = "dead"]
    /\ UNCHANGED <<rowVars, setting, locked, cap, sends>>

\* gather has returned: back to the top of the loop.
EndBatch(w) ==
    /\ phase[w] = "batch"
    /\ JobsOf(w) = {}
    /\ phase' = [phase EXCEPT ![w] = "poll"]
    /\ UNCHANGED <<rowVars, setting, locked, cap, jobs, sends, faults>>

\* The stop event, seen at the top of the loop.
Stop(w) ==
    /\ phase[w] \in {"poll", "dead"}
    /\ phase' = [phase EXCEPT ![w] = "down"]
    /\ UNCHANGED <<rowVars, setting, locked, cap, jobs, sends, faults>>

\* The process dies, or cancels the worker 30 s after the stop event.
Crash(w) ==
    /\ phase[w] \in {"claim", "settings", "batch"}
    /\ Fault
    /\ phase' = [phase EXCEPT ![w] = "down"]
    /\ locked' = [locked EXCEPT ![w] = {}]
    /\ jobs' = jobs \ JobsOf(w)
    /\ UNCHANGED <<rowVars, setting, cap, sends>>

\* Mutant of Restart: rows left in "sending" are put back into the queue.
Restart_Requeues(w) ==
    /\ phase[w] = "down"
    /\ phase' = [phase EXCEPT ![w] = "poll"]
    /\ status' = [r \in Rows |-> IF status[r] = "sending" THEN "queued" ELSE status[r]]
    /\ UNCHANGED <<attempts, setting, locked, cap, jobs, sends, faults>>

\* The process is started again.  Nothing looks for rows left in "sending".
Restart(w) ==
    /\ phase[w] = "down"
    /\ phase' = [phase EXCEPT ![w] = "poll"]
    /\ UNCHANGED <<rowVars, setting, locked, cap, jobs, sends, faults>>
-----------------------------------------------------------------------------
(* One job *)

\* provider.send, under the semaphore.
Send(j) ==
    /\ j \in jobs
    /\ j.pc = "waiting"
    /\ phase[j.worker] = "batch"
    /\ Cardinality({k \in JobsOf(j.worker) : k.pc = "answered"}) < Concurrency
    /\ sends' = [sends EXCEPT ![j.row] = @ + 1]
    /\ \E o \in Outcome :
          jobs' = (jobs \ {j}) \cup {[j EXCEPT !.pc = "answered", !.outcome = o]}
    /\ UNCHANGED <<rowVars, setting, phase, locked, cap, faults>>

\* _retry_or_fail: no attempt is left, by the setting or by the schedule.
exhausted(n, attempt) == attempt >= n \/ attempt >= MaxAttempts

\* A transaction of its own writes what became of the message; a row that
\* retention has deleted is left alone.
Settle(j, verdict) ==
    /\ j \in jobs
    /\ j.pc = "answered"
    /\ IF status[j.row] = "purged"
       THEN UNCHANGED rowVars
       ELSE /\ status' = [status EXCEPT ![j.row] = verdict]
            /\ attempts' = [attempts EXCEPT ![j.row] = j.attempt + 1]
    /\ jobs' = jobs \ {j}
    /\ UNCHANGED <<setting, phase, locked, cap, sends, faults>>

\* _process_one: a permanent failure is final, any other is tried again until
\* the attempts are exhausted.
GivesUp(j) ==
    \/ j.outcome = "permanent"
    \/ j.outcome \in {"transient", "unexpected"} /\ exhausted(cap[j.worker], j.attempt + 1)

mark_accepted(j) == j.outcome = "accepted" /\ Settle(j, "provider_accepted")

mark_failed(j) == GivesUp(j) /\ Settle(j, "failed")

reschedule(j) == j.outcome # "accepted" /\ ~GivesUp(j) /\ Settle(j, "queued")

Record(j) == mark_accepted(j) \/ mark_failed(j) \/ reschedule(j)

\* That transaction failed: gather swallows the exception.
RecordFails(j) ==
    /\ j \in jobs
    /\ j.pc = "answered"
    /\ Fault
    /\ jobs' = jobs \ {j}
    /\ UNCHANGED <<rowVars, setting, phase, locked, cap, sends>>
-----------------------------------------------------------------------------
Init ==
    /\ status = [r \in Rows |-> "absent"]
    /\ attempts = [r \in Rows |-> 0]
    /\ phase = [w \in Workers |-> "poll"]
    /\ locked = [w \in Workers |-> {}]
    /\ setting = {}
    /\ cap = [w \in Workers |-> MaxAttempts]
    /\ jobs = {}
    /\ sends = [r \in Rows |-> 0]
    /\ faults = 0

Loop(w) ==
    \/ claim_batch(w) \/ _claim(w) \/ ClaimFails(w) \/ ReadSettings(w) \/ SettingsFail(w)
    \/ EndBatch(w) \/ Stop(w) \/ Crash(w) \/ Restart(w)

Next ==
    \/ \E r \in Rows : queue(r) \/ Purge(r)
    \/ \E enabled \in BOOLEAN, max \in Requested : put_email_settings(enabled, max)
    \/ \E w \in Workers : Loop(w)
    \/ \E j \in jobs : Send(j) \/ Record(j) \/ RecordFails(j)

Spec == Init /\ [][Next]_vars

\* The event loop runs the worker and its jobs, rows fall due, and a process
\* that is down is started again; a loop claims before it looks at the stop
\* event again, so stops cannot starve the queue.  Nothing restarts a worker
\* task that died in a live process, and nothing obliges anybody to stop a
\* process, to fail or to purge.
FairSpec ==
    /\ Spec
    /\ \A w \in Workers :
          /\ WF_vars(claim_batch(w) \/ _claim(w) \/ ReadSettings(w) \/ EndBatch(w))
          /\ WF_vars(Restart(w))
          /\ WF_vars(\E j \in JobsOf(w) : Send(j) \/ Record(j))
    /\ SF_vars(\E w \in Workers : claim_batch(w))
-----------------------------------------------------------------------------
(* Properties *)

\* The types of the variables; the ceiling in force and the counts stay within
\* MAX_ATTEMPTS (get_email_settings, reschedule).
TypeOK ==
    /\ status \in [Rows -> EmailStatus \cup {"absent", "purged"}]
    /\ attempts \in [Rows -> 0..MaxAttempts]
    /\ \A stored \in setting : stored.enabled \in BOOLEAN /\ valid(stored.max)
    /\ phase \in [Workers -> Phase]
    /\ locked \in [Workers -> SUBSET Rows]
    /\ cap \in [Workers -> 1..MaxAttempts]
    /\ jobs \in SUBSET Job
    /\ sends \in [Rows -> Nat]
    /\ faults \in Nat

InHand(r) == \E j \in jobs : j.row = r

\* Two workers never process the same message (claim_batch), and a message one
\* of them has in hand is not in the queue.
OneHolder ==
    /\ \A j, k \in jobs : j.row = k.row => j = k
    /\ \A j \in jobs : status[j.row] \in {"sending", "purged"}

\* Every hand-over to the provider is counted, or its row is not sent again:
\* no message is sent more than MAX_ATTEMPTS times, whatever crashes.
SendsCounted ==
    \A r \in Rows : /\ sends[r] <= MaxAttempts
                    /\ status[r] \in EmailStatus \ {"sending"} => sends[r] = attempts[r]

\* A row the worker may send has at most one holder, and its count is true
\* (claim_batch, _claim, mark_accepted, mark_failed, reschedule).
HeldAndCounted == TypeOK /\ OneHolder /\ SendsCounted

\* A message that was accepted or given up stays so, until it is purged.
TerminalIsFinal ==
    [][\A r \in Rows : status[r] \in Terminal => status'[r] \in {status[r], "purged"}]_vars

\* A queued message is sent until it is accepted or given up, if its worker is
\* not interrupted: unless it is purged, the worker tasks die, or it is left in
\* "sending" with no worker at it, it ends accepted or failed.
QueuedIsSettled ==
    \A r \in Rows :
        status[r] = "queued" ~>
            \/ status[r] \in Terminal \cup {"purged"}
            \/ status[r] = "sending" /\ ~InHand(r)
            \/ \E w \in Workers : phase[w] = "dead"

\* A message the worker had claimed when it crashed is retried: no message
\* stays in "sending" for ever.
CrashedSendIsRetried ==
    \A r \in Rows : status[r] = "sending" ~> status[r] # "sending"
=============================================================================
