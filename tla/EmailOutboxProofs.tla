-------------------------- MODULE EmailOutboxProofs --------------------------
(* Proofs about EmailOutbox, for every value of its constants. *)
EXTENDS EmailOutbox, TLAPS

USE EmailAssumption DEF EmailAssumption

-----------------------------------------------------------------------------
(* HeldAndCounted is not inductive: what a claim will commit depends on the  *)
(* rows it has locked, and what a job will record on the snapshot it took.   *)

\* The row locks of the claim transactions: no row has two, and a locked row is
\* still in the queue when the claim commits.
LocksHold ==
    /\ \A w \in Workers : \A r \in locked[w] : status[r] = "queued"
    /\ \A v, w \in Workers : v # w => locked[v] \cap locked[w] = {}

\* A row in the queue has an attempt left, and so has the snapshot of a job; the
\* snapshot counts every hand-over but the job's own, which was answered.
SnapshotsTrue ==
    /\ \A r \in Rows : status[r] = "queued" => attempts[r] < MaxAttempts
    /\ \A r \in Rows : status[r] = "absent" => sends[r] = 0
    /\ \A j \in jobs :
          /\ j.attempt < MaxAttempts
          /\ sends[j.row] = IF j.pc = "waiting" THEN j.attempt ELSE j.attempt + 1
          /\ j.pc = "answered" => j.outcome \in Outcome

Inv == TypeOK /\ OneHolder /\ SendsCounted /\ LocksHold /\ SnapshotsTrue

-----------------------------------------------------------------------------
LEMMA InvInit == Init => Inv
BY DEF Init, Inv, TypeOK, OneHolder, SendsCounted, LocksHold, SnapshotsTrue,
       EmailStatus, Phase

\* What an answer of the provider is to the worker.
LEMMA Outcomes == Outcome \subseteq {"accepted", "permanent", "transient", "unexpected"}
BY DEF Outcome, send, _classify_by_code

\* The settings in force: the stored ones, or the defaults.
LEMMA SettingsInForce ==
    ASSUME TypeOK
    PROVE  get_email_settings.max \in 1..MaxAttempts
<1>1. CASE setting = {}
  BY <1>1 DEF get_email_settings
<1>2. CASE setting # {}
  <2>1. get_email_settings \in setting
    BY <1>2 DEF get_email_settings
  <2> QED BY <2>1 DEF TypeOK, valid
<1> QED BY <1>1, <1>2

\* A new row.
LEMMA InvQueue == ASSUME Inv, NEW r \in Rows, queue(r) PROVE Inv'
<1> USE DEF Inv
<1>1. /\ status[r] = "absent"
      /\ status' = [status EXCEPT ![r] = "queued"]
      /\ attempts' = [attempts EXCEPT ![r] = 0]
      /\ UNCHANGED <<setting, phase, locked, cap, jobs, sends, faults>>
  BY DEF queue, create
<1>2. TypeOK'
  BY <1>1 DEF TypeOK, EmailStatus
<1>3. OneHolder'
  BY <1>1 DEF OneHolder, TypeOK, Job
<1>4. SendsCounted' /\ SnapshotsTrue'
  BY <1>1 DEF SendsCounted, SnapshotsTrue, TypeOK
<1>5. LocksHold'
  BY <1>1 DEF LocksHold, TypeOK
<1> QED BY <1>2, <1>3, <1>4, <1>5

\* A row deleted by retention.
LEMMA InvPurge == ASSUME Inv, NEW r \in Rows, Purge(r) PROVE Inv'
<1> USE DEF Inv
<1>1. /\ \A w \in Workers : r \notin locked[w]
      /\ status[r] \in EmailStatus
      /\ status' = [status EXCEPT ![r] = "purged"]
      /\ UNCHANGED <<attempts, setting, phase, locked, cap, jobs, sends, faults>>
  BY DEF Purge
<1>2. TypeOK'
  BY <1>1 DEF TypeOK
<1>3. OneHolder'
  BY <1>1 DEF OneHolder, TypeOK, Job
<1>4. SendsCounted' /\ SnapshotsTrue'
  BY <1>1 DEF SendsCounted, SnapshotsTrue, TypeOK, EmailStatus
<1>5. LocksHold'
  BY <1>1 DEF LocksHold, TypeOK
<1> QED BY <1>2, <1>3, <1>4, <1>5

\* A stored setting.
LEMMA InvSettings ==
    ASSUME Inv, NEW enabled \in BOOLEAN, NEW max \in Requested,
           put_email_settings(enabled, max)
    PROVE  Inv'
<1>1. TypeOK'
  BY DEF Inv, put_email_settings, set_email_settings, TypeOK, valid, rowVars
<1> QED BY <1>1 DEF Inv, put_email_settings, OneHolder, SendsCounted, LocksHold,
                    SnapshotsTrue, rowVars

\* Rows are selected: none that another claim has locked.
LEMMA InvSelect == ASSUME Inv, NEW w \in Workers, claim_batch(w) PROVE Inv'
<1>1. PICK claimed \in SUBSET {r \in Rows : /\ status[r] = "queued"
                                            /\ \A v \in Workers : r \notin locked[v]} :
         locked' = [locked EXCEPT ![w] = claimed]
  BY DEF claim_batch
<1>2. TypeOK'
  BY <1>1 DEF Inv, claim_batch, TypeOK, Phase, rowVars
<1>3. LocksHold'
  BY <1>1 DEF Inv, claim_batch, LocksHold, TypeOK, rowVars
<1> QED BY <1>2, <1>3 DEF Inv, claim_batch, OneHolder, SendsCounted, SnapshotsTrue, rowVars

\* The claim commits: each locked row becomes one job of w.
LEMMA InvClaim == ASSUME Inv, NEW w \in Workers, _claim(w) PROVE Inv'
<1> DEFINE new(r) == [worker |-> w, row |-> r, attempt |-> attempts[r],
                      pc |-> "waiting", outcome |-> "none"]
<1>1. /\ status' = [r \in Rows |-> IF r \in locked[w] THEN "sending" ELSE status[r]]
      /\ jobs' = jobs \cup {new(r) : r \in locked[w]}
      /\ locked' = [locked EXCEPT ![w] = {}]
      /\ phase' = [phase EXCEPT ![w] = "settings"]
      /\ UNCHANGED <<attempts, setting, cap, sends, faults>>
  BY DEF _claim
<1>2. ASSUME NEW r \in locked[w]
      PROVE  /\ r \in Rows /\ status[r] = "queued"
             /\ attempts[r] \in Nat /\ attempts[r] < MaxAttempts /\ sends[r] = attempts[r]
             /\ \A j \in jobs : j.row # r
  BY DEF Inv, TypeOK, LocksHold, SnapshotsTrue, SendsCounted, OneHolder, EmailStatus
<1>3. ASSUME NEW r \in locked[w]
      PROVE  /\ new(r) \in Job
             /\ new(r).row = r /\ new(r).attempt = attempts[r] /\ new(r).pc = "waiting"
  BY <1>2 DEF Job
<1>4. ASSUME NEW j \in jobs'
      PROVE  \/ j \in jobs /\ j.row \notin locked[w]
             \/ \E r \in locked[w] : j = new(r)
  BY <1>1, <1>2
<1> HIDE DEF new
<1>5. TypeOK'
  <2>1. jobs' \in SUBSET Job
    BY <1>1, <1>3 DEF Inv, TypeOK
  <2> QED BY <1>1, <2>1 DEF Inv, TypeOK, EmailStatus, Phase
<1>6. OneHolder'
  <2>1. \A j \in jobs' : status'[j.row] \in {"sending", "purged"}
    BY <1>1, <1>2, <1>3, <1>4 DEF Inv, OneHolder, TypeOK, Job
  <2>2. ASSUME NEW j \in jobs', NEW k \in jobs', j.row = k.row PROVE j = k
    BY <1>2, <1>3, <1>4, <2>2 DEF Inv, OneHolder
  <2> QED BY <2>1, <2>2 DEF OneHolder
<1>7. SendsCounted'
  BY <1>1 DEF Inv, SendsCounted, TypeOK, EmailStatus
<1>8. LocksHold'
  BY <1>1 DEF Inv, LocksHold, TypeOK
<1>9. SnapshotsTrue'
  <2>1. \A r \in Rows : /\ status'[r] = "queued" => attempts'[r] < MaxAttempts
                        /\ status'[r] = "absent" => sends'[r] = 0
    BY <1>1 DEF Inv, SnapshotsTrue
  <2>2. ASSUME NEW j \in jobs'
        PROVE  /\ j.attempt < MaxAttempts
               /\ sends'[j.row] = IF j.pc = "waiting" THEN j.attempt ELSE j.attempt + 1
               /\ j.pc = "answered" => j.outcome \in Outcome
    BY <1>1, <1>2, <1>3, <1>4 DEF Inv, SnapshotsTrue
  <2> QED BY <2>1, <2>2 DEF SnapshotsTrue
<1> QED BY <1>5, <1>6, <1>7, <1>8, <1>9 DEF Inv

\* Steps that leave the rows and the counts alone, and drop jobs or locks at
\* most: a failed claim, a lost batch, a crash, the end of a batch.
LEMMA InvShrink ==
    ASSUME Inv, UNCHANGED <<rowVars, setting, sends>>, jobs' \subseteq jobs,
           phase' \in [Workers -> Phase], cap' \in [Workers -> 1..MaxAttempts], faults' \in Nat,
           locked' \in [Workers -> SUBSET Rows],
           \A w \in Workers : locked'[w] \subseteq locked[w]
    PROVE  Inv'
<1> USE DEF Inv, rowVars
<1>1. TypeOK'
  BY DEF TypeOK
<1>2. OneHolder' /\ SendsCounted' /\ SnapshotsTrue'
  BY DEF OneHolder, SendsCounted, SnapshotsTrue
<1>3. LocksHold'
  <2>1. \A v \in Workers : \A r \in locked'[v] : r \in locked[v]
    OBVIOUS
  <2> QED BY <2>1 DEF LocksHold
<1> QED BY <1>1, <1>2, <1>3

LEMMA InvLoop == ASSUME Inv, NEW w \in Workers, Loop(w) PROVE Inv'
<1> USE DEF Inv
<1>1. CASE claim_batch(w)
  BY <1>1, InvSelect
<1>2. CASE _claim(w)
  BY <1>2, InvClaim
<1>3. CASE ClaimFails(w)
  BY <1>3, InvShrink DEF ClaimFails, Fault, TypeOK, Phase
<1>4. CASE ReadSettings(w)
  BY <1>4, InvShrink, SettingsInForce DEF ReadSettings, TypeOK, Phase
<1>5. CASE SettingsFail(w)
  BY <1>5, InvShrink DEF SettingsFail, Fault, TypeOK, Phase
<1>6. CASE EndBatch(w)
  BY <1>6, InvShrink DEF EndBatch, TypeOK, Phase
<1>7. CASE Stop(w)
  BY <1>7, InvShrink DEF Stop, TypeOK, Phase
<1>8. CASE Crash(w)
  BY <1>8, InvShrink DEF Crash, Fault, TypeOK, Phase
<1>9. CASE Restart(w)
  BY <1>9, InvShrink DEF Restart, TypeOK, Phase
<1> QED BY <1>1, <1>2, <1>3, <1>4, <1>5, <1>6, <1>7, <1>8, <1>9 DEF Loop

\* A message is handed to the provider: the job's own send is the one its
\* snapshot does not count.
LEMMA InvSend == ASSUME Inv, NEW j \in jobs, Send(j) PROVE Inv'
<1> USE DEF Inv
<1>1. PICK o \in Outcome :
         jobs' = (jobs \ {j}) \cup {[j EXCEPT !.pc = "answered", !.outcome = o]}
  BY DEF Send
<1> DEFINE k == [j EXCEPT !.pc = "answered", !.outcome = o]
<1>2. j \in Job /\ j.pc = "waiting" /\ j.row \in Rows /\ j.attempt \in Nat
  BY DEF Send, TypeOK, Job
<1>3. k \in Job /\ k.row = j.row /\ k.attempt = j.attempt /\ k.pc = "answered" /\ k.outcome = o
  BY <1>2 DEF Job
<1>4. /\ sends' = [sends EXCEPT ![j.row] = @ + 1]
      /\ UNCHANGED <<status, attempts, setting, phase, locked, cap, faults>>
  BY DEF Send, rowVars
<1>5. jobs' = (jobs \ {j}) \cup {k}
  BY <1>1
<1> HIDE DEF k
<1>6. TypeOK'
  BY <1>2, <1>3, <1>4, <1>5 DEF TypeOK
<1>7. \A i \in jobs : i.row = j.row => i = j
  BY DEF OneHolder
<1>8. OneHolder'
  BY <1>3, <1>4, <1>5, <1>7 DEF OneHolder
<1>9. sends[j.row] = j.attempt /\ j.attempt < MaxAttempts
  BY <1>2 DEF SnapshotsTrue
<1>10. SendsCounted'
  BY <1>2, <1>4, <1>9 DEF SendsCounted, TypeOK, OneHolder, EmailStatus
<1>11. SnapshotsTrue'
  <2>1. \A r \in Rows : status[r] = "absent" => r # j.row
    BY DEF OneHolder
  <2>2. \A i \in jobs \ {j} : i.row # j.row /\ i.row \in Rows
    BY <1>7 DEF TypeOK, Job
  <2> QED BY <1>2, <1>3, <1>4, <1>5, <1>9, <2>1, <2>2 DEF SnapshotsTrue, TypeOK
<1>12. LocksHold'
  BY <1>4 DEF LocksHold
<1> QED BY <1>6, <1>8, <1>10, <1>11, <1>12

\* What became of a message is recorded; a verdict that puts the row back into
\* the queue leaves it an attempt.
LEMMA InvSettle ==
    ASSUME Inv, NEW j \in jobs, NEW verdict \in EmailStatus \ {"sending"}, Settle(j, verdict),
           verdict = "queued" => j.attempt + 1 < MaxAttempts
    PROVE  Inv'
<1> USE DEF Inv
<1>1. /\ j \in Job /\ j.pc = "answered" /\ j.row \in Rows /\ j.attempt \in Nat
      /\ jobs' = jobs \ {j}
      /\ UNCHANGED <<setting, phase, locked, cap, sends, faults>>
  BY DEF Settle, TypeOK, Job
<1>2. sends[j.row] = j.attempt + 1 /\ j.attempt < MaxAttempts
  BY <1>1 DEF SnapshotsTrue
<1>3. CASE status[j.row] = "purged"
  BY <1>1, <1>3, InvShrink DEF Settle, TypeOK
<1>4. CASE status[j.row] # "purged"
  <2>1. /\ status' = [status EXCEPT ![j.row] = verdict]
        /\ attempts' = [attempts EXCEPT ![j.row] = j.attempt + 1]
    BY <1>4 DEF Settle
  <2>2. status[j.row] = "sending"
    BY <1>4 DEF OneHolder
  <2>3. TypeOK'
    BY <1>1, <1>2, <2>1 DEF TypeOK, EmailStatus
  <2>4. \A i \in jobs' : i \in jobs /\ i.row # j.row /\ i.row \in Rows
    BY <1>1 DEF OneHolder, TypeOK, Job
  <2>5. OneHolder'
    BY <2>1, <2>4 DEF OneHolder, TypeOK
  <2>6. SendsCounted'
    BY <1>1, <1>2, <2>1 DEF SendsCounted, TypeOK
  <2>7. LocksHold'
    BY <1>1, <2>1, <2>2 DEF LocksHold, TypeOK
  <2>8. SnapshotsTrue'
    BY <1>1, <2>1, <2>4 DEF SnapshotsTrue, TypeOK, EmailStatus
  <2> QED BY <2>3, <2>5, <2>6, <2>7, <2>8
<1> QED BY <1>3, <1>4

LEMMA InvRecord == ASSUME Inv, NEW j \in jobs, Record(j) PROVE Inv'
<1>1. CASE mark_accepted(j)
  BY <1>1, InvSettle DEF mark_accepted, EmailStatus
<1>2. CASE mark_failed(j)
  BY <1>2, InvSettle DEF mark_failed, EmailStatus
<1>3. CASE reschedule(j)
  <2>1. j \in Job /\ j.pc = "answered"
    BY <1>3 DEF Inv, TypeOK, reschedule, Settle
  <2>2. j.outcome \in {"transient", "unexpected"}
    BY <1>3, <2>1, Outcomes DEF Inv, SnapshotsTrue, reschedule, GivesUp
  <2>3. j.attempt + 1 < MaxAttempts
    BY <1>3, <2>1, <2>2 DEF reschedule, GivesUp, exhausted, Job
  <2> QED BY <1>3, <2>3, InvSettle DEF reschedule, EmailStatus
<1> QED BY <1>1, <1>2, <1>3 DEF Record

LEMMA InvNext == Inv /\ [Next]_vars => Inv'
<1> SUFFICES ASSUME Inv, [Next]_vars PROVE Inv'
  OBVIOUS
<1>1. ASSUME NEW r \in Rows, queue(r) \/ Purge(r) PROVE Inv'
  BY <1>1, InvQueue, InvPurge
<1>2. ASSUME NEW enabled \in BOOLEAN, NEW max \in Requested, put_email_settings(enabled, max)
      PROVE  Inv'
  BY <1>2, InvSettings
<1>3. ASSUME NEW w \in Workers, Loop(w) PROVE Inv'
  BY <1>3, InvLoop
<1>4. ASSUME NEW j \in jobs, Send(j) PROVE Inv'
  BY <1>4, InvSend
<1>5. ASSUME NEW j \in jobs, Record(j) PROVE Inv'
  BY <1>5, InvRecord
<1>6. ASSUME NEW j \in jobs, RecordFails(j) PROVE Inv'
  BY <1>6, InvShrink DEF RecordFails, Fault, Inv, TypeOK
<1>7. CASE UNCHANGED vars
  BY <1>7, InvShrink DEF vars, Inv, TypeOK
<1> QED BY <1>1, <1>2, <1>3, <1>4, <1>5, <1>6, <1>7 DEF Next

\* However many workers poll the outbox, and whatever crashes or fails: a row
\* has at most one holder, a row in the queue has its true count, and no message
\* is handed to the provider more than MAX_ATTEMPTS times.
THEOREM MailHeldAndCounted == Spec => []HeldAndCounted
<1>1. Inv => HeldAndCounted
  BY DEF Inv, HeldAndCounted
<1> QED BY <1>1, InvInit, InvNext, PTL DEF Spec

-----------------------------------------------------------------------------
(* Accepted or given up for good *)

LEMMA TerminalStep ==
    Inv /\ [Next]_vars =>
        [\A r \in Rows : status[r] \in Terminal => status'[r] \in {status[r], "purged"}]_vars
<1> SUFFICES ASSUME Inv, Next, NEW r \in Rows, status[r] \in Terminal
             PROVE  status'[r] \in {status[r], "purged"}
  BY DEF vars
<1> USE DEF Inv, Terminal
<1>1. ASSUME NEW s \in Rows, queue(s) \/ Purge(s) PROVE status'[r] \in {status[r], "purged"}
  BY <1>1 DEF queue, create, Purge, TypeOK
<1>2. ASSUME NEW w \in Workers, Loop(w) PROVE status'[r] = status[r]
  <2>1. CASE _claim(w)
    BY <2>1 DEF _claim, LocksHold
  <2> QED BY <1>2, <2>1 DEF Loop, claim_batch, ClaimFails, ReadSettings, SettingsFail,
                            EndBatch, Stop, Crash, Restart, rowVars
<1>3. ASSUME NEW j \in jobs, NEW verdict, Settle(j, verdict) PROVE status'[r] = status[r]
  BY <1>3 DEF Settle, OneHolder, rowVars, TypeOK
<1>4. ASSUME NEW j \in jobs, Send(j) \/ Record(j) \/ RecordFails(j)
      PROVE  status'[r] = status[r]
  BY <1>3, <1>4 DEF Send, Record, mark_accepted, mark_failed, reschedule, RecordFails, rowVars
<1>5. ASSUME NEW enabled \in BOOLEAN, NEW max \in Requested, put_email_settings(enabled, max)
      PROVE  status'[r] = status[r]
  BY <1>5 DEF put_email_settings, rowVars
<1> QED BY <1>1, <1>2, <1>4, <1>5 DEF Next

\* No step of a worker, of a restart or of a notification takes back what was
\* recorded of a message that was accepted or given up.
THEOREM RecordedIsFinal == Spec => TerminalIsFinal
BY InvInit, InvNext, TerminalStep, PTL DEF Spec, TerminalIsFinal
=============================================================================
