------------------------ MODULE WebhookDeliveryProofs ------------------------
(* Proofs about WebhookDelivery, for every value of its constants. *)
EXTENDS WebhookDelivery, TLAPS

USE ConstantsAssumption DEF ConstantsAssumption

-----------------------------------------------------------------------------
(* Type correctness *)

LEMMA TypeInit == Init => TypeOK
BY DEF Init, TypeOK

LEMMA TypeEmitter == TypeOK /\ Emitter => TypeOK'
<1> SUFFICES ASSUME TypeOK, NEW m \in Messages,
                    \/ EmitLookup(m)
                    \/ \E e \in Endpoints : Emit(m, e) \/ EmitFail(m, e)
             PROVE  TypeOK'
  BY DEF Emitter
<1>1. CASE EmitLookup(m)
  <2>1. fanout' \in [Messages -> SUBSET Endpoints] /\ faults' \in Nat
    BY <1>1 DEF EmitLookup, find_active_for_event, Fault, TypeOK
  <2> QED BY <1>1, <2>1 DEF EmitLookup, TypeOK, queueVars, workerVars
<1>2. ASSUME NEW e \in Endpoints, Emit(m, e) PROVE TypeOK'
  <2>1. [ep |-> e, msg |-> m, attempt |-> 1] \in Payload
    BY DEF Payload
  <2>2. stream' \in Seq(Payload) /\ Len(stream') = Len(stream) + 1
    BY <1>2, <2>1 DEF Emit, TypeOK
  <2>3. fanout' \in [Messages -> SUBSET Endpoints]
    BY <1>2 DEF Emit, TypeOK
  <2> QED BY <1>2, <2>2, <2>3 DEF Emit, TypeOK, workerVars
<1>3. ASSUME NEW e \in Endpoints, EmitFail(m, e) PROVE TypeOK'
  BY <1>3 DEF EmitFail, Fault, TypeOK, queueVars, workerVars
<1> QED BY <1>1, <1>2, <1>3

LEMMA TypeAdmin == TypeOK /\ Admin => TypeOK'
<1> SUFFICES ASSUME TypeOK, NEW e \in Endpoints, Disable(e) \/ Reactivate(e) \/ Delete(e)
             PROVE  TypeOK'
  BY DEF Admin
<1> QED BY DEF Disable, Reactivate, Delete, TypeOK, queueVars, workerVars

\* Members read from the delayed set form a sequence of payloads.
LEMMA TypePromote ==
    ASSUME TypeOK, NEW w \in Workers,
           PromoteRead(w) \/ PromoteExec(w) \/ PromoteFail(w)
    PROVE  TypeOK'
<1>1. CASE PromoteRead(w)
  <2>1. PICK n \in 1..PromoteBatch : \E s \in [1..n -> delayed] :
              due' = [due EXCEPT ![w] = s]
    BY <1>1 DEF PromoteRead
  <2>2. PICK s \in [1..n -> delayed] : due' = [due EXCEPT ![w] = s]
    BY <2>1
  <2>3. s \in Seq(Payload)
    BY <2>2 DEF TypeOK
  <2> QED BY <1>1, <2>2, <2>3 DEF PromoteRead, TypeOK, queueVars, envVars
<1>2. CASE PromoteExec(w)
  <2>1. due[w] \in Seq(Payload)
    BY DEF TypeOK
  <2>2. stream' \in Seq(Payload) /\ Len(stream') = Len(stream) + Len(due[w])
    BY <1>2, <2>1 DEF PromoteExec, TypeOK
  <2> QED BY <1>2, <2>1, <2>2 DEF PromoteExec, TypeOK, envVars
<1>3. CASE PromoteFail(w)
  BY <1>3 DEF PromoteFail, Fault, TypeOK, queueVars, envVars
<1> QED BY <1>1, <1>2, <1>3

\* The task spawned for a pending entry.
LEMMA SpawnedTask ==
    ASSUME NEW w \in Workers, NEW x \in Pending
    PROVE  /\ Spawned(w, x) \in Task
           /\ Spawned(w, x).id = x.id
           /\ Spawned(w, x).pc = "queued"
           /\ Spawned(w, x).verdict = "none"
BY DEF Spawned, Task, TaskState, Verdict, Pending

\* A pending entry that is handed out again.
LEMMA HandedAgain ==
    ASSUME NEW w \in Workers, NEW x \in Pending
    PROVE  /\ [x EXCEPT !.deliveries = @ + 1] \in Pending
           /\ [x EXCEPT !.deliveries = @ + 1].id = x.id
           /\ [x EXCEPT !.consumer = w, !.deliveries = x.deliveries + 1] \in Pending
           /\ [x EXCEPT !.consumer = w, !.deliveries = x.deliveries + 1].id = x.id
<1>1. x.deliveries + 1 \in Nat
  BY DEF Pending
<1>2. [x EXCEPT !.deliveries = @ + 1] \in Pending /\ [x EXCEPT !.deliveries = @ + 1].id = x.id
  BY DEF Pending
<1>3. ASSUME NEW n \in Nat
      PROVE  /\ [x EXCEPT !.consumer = w, !.deliveries = n] \in Pending
             /\ [x EXCEPT !.consumer = w, !.deliveries = n].id = x.id
  BY DEF Pending
<1> QED BY <1>1, <1>2, <1>3

LEMMA TypeHandOver ==
    ASSUME TypeOK, NEW w \in Workers,
           (\E x \in pel : claim_stale(w, x)) \/ read(w) \/ Crash(w) \/ Restart(w)
    PROVE  TypeOK'
<1>1. ASSUME NEW x \in pel, claim_stale(w, x) PROVE TypeOK'
  <2> DEFINE y == [x EXCEPT !.consumer = w, !.deliveries = x.deliveries + 1]
  <2>1. y \in Pending /\ y.id = x.id
    BY HandedAgain DEF TypeOK
  <2>2. Spawned(w, y) \in Task /\ Spawned(w, y).id = x.id
    BY <2>1, SpawnedTask
  <2>3. pel' = (pel \ {x}) \cup {y} /\ tasks' = tasks \cup {Spawned(w, y)}
    BY <1>1 DEF claim_stale
  <2>4. faults' \in Nat
    <3>1. IdleTooLong(x) /\ faults \in Nat
      BY <1>1 DEF claim_stale, TypeOK
    <3> QED BY <3>1 DEF IdleTooLong, Fault
  <2> QED BY <1>1, <2>1, <2>2, <2>3, <2>4 DEF claim_stale, TypeOK, envVars
<1>2. CASE read(w)
  <2> DEFINE x == [id |-> cursor + 1, consumer |-> w, deliveries |-> 1]
  <2>1. x \in Pending /\ x.id = cursor + 1
    BY DEF TypeOK, Pending
  <2>2. Spawned(w, x) \in Task /\ Spawned(w, x).id = cursor + 1
    BY <2>1, SpawnedTask
  <2>3. /\ pel' = pel \cup {x} /\ tasks' = tasks \cup {Spawned(w, x)}
        /\ cursor' = cursor + 1 /\ cursor < Len(stream) /\ stream' = stream
    BY <1>2 DEF read
  <2>4. /\ \A z \in pel : z.id \in Nat /\ z.id <= cursor
        /\ \A t \in tasks : t.id \in Nat /\ t.id <= cursor
    BY DEF TypeOK, Pending, Task
  <2>5. cursor' \in 0..Len(stream')
    BY <2>3 DEF TypeOK
  <2> QED BY <1>2, <2>1, <2>2, <2>3, <2>4, <2>5 DEF read, TypeOK, envVars
<1>3. CASE Crash(w)
  BY <1>3 DEF Crash, Fault, TypeOK, queueVars, envVars
<1>4. CASE Restart(w)
  <2>1. PICK drained \in BOOLEAN :
           LET own   == {x \in pel : drained /\ x.consumer = w /\ x.deliveries < MaxDeliveries}
               again == {[x EXCEPT !.deliveries = @ + 1] : x \in own}
           IN  /\ pel' = (pel \ own) \cup again
               /\ tasks' = tasks \cup {Spawned(w, y) : y \in again}
    BY <1>4 DEF Restart
  <2> DEFINE own   == {x \in pel : drained /\ x.consumer = w /\ x.deliveries < MaxDeliveries}
             again == {[x EXCEPT !.deliveries = @ + 1] : x \in own}
  <2>2. ASSUME NEW y \in again PROVE y \in Pending /\ y.id <= cursor
    <3>1. PICK x \in own : y = [x EXCEPT !.deliveries = @ + 1]
      OBVIOUS
    <3>2. x \in Pending /\ x.id <= cursor
      BY DEF TypeOK
    <3> HIDE DEF again, own
    <3>3. y \in Pending /\ y.id = x.id
      BY <3>1, <3>2, HandedAgain
    <3> QED BY <3>2, <3>3
  <2>3. \A y \in again : Spawned(w, y) \in Task /\ Spawned(w, y).id <= cursor
    BY <2>2, SpawnedTask
  <2>4. pel' = (pel \ own) \cup again /\ tasks' = tasks \cup {Spawned(w, y) : y \in again}
    BY <2>1
  <2> HIDE DEF again, own
  <2>5. /\ pel' \in SUBSET Pending /\ \A x \in pel' : x.id <= cursor
        /\ tasks' \in SUBSET Task /\ \A t \in tasks' : t.id <= cursor
    BY <2>2, <2>3, <2>4 DEF TypeOK, own
  <2> QED BY <1>4, <2>5 DEF Restart, TypeOK, envVars
<1> QED BY <1>1, <1>2, <1>3, <1>4

\* The entry of a task, and what a task may become.
LEMMA TaskEntry ==
    ASSUME TypeOK, NEW t \in tasks
    PROVE  t.id \in 1..Len(stream) /\ stream[t.id] \in Payload /\ t.worker \in Workers
BY DEF TypeOK, Task

LEMMA TypeBecome ==
    ASSUME TypeOK, NEW t \in tasks, NEW pc \in TaskState, NEW verdict \in Verdict,
           Become(t, pc, verdict)
    PROVE  tasks' \in SUBSET Task /\ \A u \in tasks' : u.id <= cursor
<1>1. [t EXCEPT !.pc = pc, !.verdict = verdict] \in Task
  BY DEF TypeOK, Task
<1>2. [t EXCEPT !.pc = pc, !.verdict = verdict].id = t.id
  BY DEF TypeOK, Task
<1> QED BY <1>1, <1>2 DEF TypeOK, Become

LEMMA TypeDispatch ==
    ASSUME TypeOK, NEW t \in tasks, Dispatch(t)
    PROVE  TypeOK'
<1> DEFINE p == stream[t.id]
<1>1. p \in Payload /\ p.ep \in Endpoints /\ Key(p) \in Endpoints \X Messages
  BY TaskEntry DEF Payload, Key
<1>2. /\ {"queued", "sent", "decided", "handed"} \subseteq TaskState
      /\ {"none", "SUCCESS", "RETRY", "DLQ"} \cup Answer \subseteq Verdict
  BY DEF TaskState, Verdict
<1>3. CASE Handle(t)
  <2>1. PICK pc \in TaskState : \E verdict \in Verdict : Become(t, pc, verdict)
    BY <1>2, <1>3 DEF Handle
  <2>2. tasks' \in SUBSET Task /\ \A u \in tasks' : u.id <= cursor
    BY <2>1, TypeBecome
  <2>3. deadRows' \in SUBSET Payload /\ received' \in SUBSET (Endpoints \X Messages)
    BY <1>1, <1>3 DEF Handle, record, send_once, TypeOK
  <2> QED BY <1>3, <2>2, <2>3 DEF Handle, TypeOK, queueVars, envVars
<1>4. CASE Commit(t)
  <2>1. PICK pc \in TaskState : \E verdict \in Verdict : Become(t, pc, verdict)
    BY <1>2, <1>4 DEF Commit, record
  <2>2. tasks' \in SUBSET Task /\ \A u \in tasks' : u.id <= cursor
    BY <2>1, TypeBecome
  <2>3. deadRows' \in SUBSET Payload
    BY <1>1, <1>4 DEF Commit, record, TypeOK
  <2> QED BY <1>4, <2>2, <2>3 DEF Commit, record, TypeOK, queueVars, envVars
<1>5. CASE HandlerRaises(t)
  <2>1. tasks' \in SUBSET Task /\ \A u \in tasks' : u.id <= cursor
    BY <1>2, <1>5, TypeBecome DEF HandlerRaises
  <2> QED BY <1>5, <2>1 DEF HandlerRaises, Fault, TypeOK, queueVars, envVars
<1>6. CASE enqueue_delayed(t)
  <2>1. tasks' \in SUBSET Task /\ \A u \in tasks' : u.id <= cursor
    BY <1>2, <1>6, TypeBecome DEF enqueue_delayed
  <2>2. [p EXCEPT !.attempt = @ + 1] \in Payload
    BY <1>1 DEF Payload
  <2> QED BY <1>6, <2>1, <2>2 DEF enqueue_delayed, TypeOK, envVars
<1>7. CASE move_to_dlq(t)
  <2>1. tasks' \in SUBSET Task /\ \A u \in tasks' : u.id <= cursor
    BY <1>2, <1>7, TypeBecome DEF move_to_dlq
  <2> QED BY <1>1, <1>7, <2>1 DEF move_to_dlq, TypeOK, envVars
<1>8. CASE ack(t)
  BY <1>8 DEF ack, TypeOK, envVars
<1>9. CASE ReconcileFails(t)
  BY <1>9 DEF ReconcileFails, Fault, TypeOK, queueVars, envVars
<1> QED BY <1>3, <1>4, <1>5, <1>6, <1>7, <1>8, <1>9 DEF Dispatch

LEMMA TypeNext == TypeOK /\ [Next]_vars => TypeOK'
<1> SUFFICES ASSUME TypeOK, [Next]_vars PROVE TypeOK'
  OBVIOUS
<1>1. CASE Emitter
  BY <1>1, TypeEmitter
<1>2. CASE Admin
  BY <1>2, TypeAdmin
<1>3. ASSUME NEW w \in Workers, Loop(w) PROVE TypeOK'
  BY <1>3, TypePromote, TypeHandOver DEF Loop
<1>4. ASSUME NEW t \in tasks, Dispatch(t) PROVE TypeOK'
  BY <1>4, TypeDispatch
<1>5. CASE UNCHANGED vars
  BY <1>5 DEF vars, TypeOK
<1> QED BY <1>1, <1>2, <1>3, <1>4, <1>5 DEF Next

\* Every state the queue, the workers and the emitter reach is well typed: ids
\* refer to entries that exist, and tasks to entries that were handed out.
THEOREM TypeCorrect == Spec => []TypeOK
BY TypeInit, TypeNext, PTL DEF Spec

-----------------------------------------------------------------------------
(* At-least-once delivery.  NoMessageLost is not inductive: an ack may drop  *)
(* the last copy of a delivery unless the task that acks has handed it on,   *)
(* which is what TasksHandOn adds.                                           *)

Inv == TypeOK /\ NoMessageLost /\ TasksHandOn

HeldIds == Unread \cup PendingIds

\* What every step but an ack does: entries keep their place in the stream, no
\* held payload is dropped, and nothing settled is unsettled.
Keeps ==
    /\ Len(stream) <= Len(stream')
    /\ \A i \in 1..Len(stream) : stream'[i] = stream[i]
    /\ Held \subseteq Held'
    /\ PendingIds \subseteq PendingIds'
    /\ received \subseteq received'
    /\ dlq \subseteq dlq'

LEMMA HeldSubset ==
    ASSUME Len(stream) <= Len(stream'),
           \A i \in HeldIds : i \in HeldIds' /\ stream'[i] = stream[i],
           \A p \in delayed : p \in delayed' \/ \E i \in HeldIds' : stream'[i] = p
    PROVE  Held \subseteq Held'
BY DEF Held, HeldIds

LEMMA HeldIdsInStream ==
    ASSUME TypeOK
    PROVE  \A i \in HeldIds : i \in 1..Len(stream)
BY DEF HeldIds, Unread, PendingIds, TypeOK, Pending

LEMMA HeldPayloads ==
    ASSUME TypeOK
    PROVE  Held \subseteq Payload
BY HeldIdsInStream DEF Held, HeldIds, TypeOK

LEMMA AccountedKept ==
    ASSUME Keeps
    PROVE  /\ \A k : Settled(k) => Settled(k)'
           /\ \A k, a : Accounted(k, a) => Accounted(k, a)'
BY DEF Keeps, Settled, Accounted

\* Steps that leave the queue alone.
LEMMA QueueUnchangedKeeps ==
    ASSUME TypeOK, UNCHANGED queueVars, received \subseteq received'
    PROVE  Keeps
BY DEF Keeps, queueVars, Held, Unread, PendingIds

LEMMA EmitterKeeps ==
    ASSUME TypeOK, Emitter
    PROVE  Keeps
<1> USE DEF Emitter
<1>1. ASSUME NEW m \in Messages, EmitLookup(m) PROVE Keeps
  BY <1>1, QueueUnchangedKeeps DEF EmitLookup
<1>2. ASSUME NEW m \in Messages, NEW e \in Endpoints, EmitFail(m, e) PROVE Keeps
  BY <1>2, QueueUnchangedKeeps DEF EmitFail
<1>3. ASSUME NEW m \in Messages, NEW e \in Endpoints, Emit(m, e) PROVE Keeps
  <2>1. /\ Len(stream') = Len(stream) + 1
        /\ \A i \in 1..Len(stream) : stream'[i] = stream[i]
    BY <1>3 DEF Emit, TypeOK
  <2>2. \A i \in HeldIds : i \in HeldIds'
    BY <1>3, <2>1 DEF Emit, HeldIds, Unread, PendingIds, TypeOK
  <2>3. Held \subseteq Held'
    BY <1>3, <2>1, <2>2, HeldSubset, HeldIdsInStream DEF Emit, TypeOK
  <2> QED BY <1>3, <2>1, <2>3 DEF Emit, Keeps, PendingIds, TypeOK
<1> QED BY <1>1, <1>2, <1>3

LEMMA AdminKeeps ==
    ASSUME TypeOK, Admin
    PROVE  Keeps
BY QueueUnchangedKeeps DEF Admin, Disable, Reactivate, Delete

LEMMA PromoteKeeps ==
    ASSUME TypeOK, NEW w \in Workers,
           PromoteRead(w) \/ PromoteExec(w) \/ PromoteFail(w)
    PROVE  Keeps
<1>1. CASE PromoteRead(w) \/ PromoteFail(w)
  BY <1>1, QueueUnchangedKeeps DEF PromoteRead, PromoteFail
<1>2. CASE PromoteExec(w)
  <2>1. due[w] \in Seq(Payload) /\ stream \in Seq(Payload)
    BY DEF TypeOK
  <2>2. stream' = stream \o due[w]
    BY <1>2 DEF PromoteExec
  <2>3. /\ Len(stream') = Len(stream) + Len(due[w])
        /\ \A i \in 1..Len(stream) : stream'[i] = stream[i]
        /\ \A i \in 1..Len(due[w]) : stream'[Len(stream) + i] = due[w][i]
    BY <2>1, <2>2
  <2>4. \A i \in HeldIds : i \in HeldIds'
    BY <1>2, <2>1, <2>3 DEF PromoteExec, HeldIds, Unread, PendingIds, TypeOK
  <2>5. \A i \in 1..Len(due[w]) : Len(stream) + i \in HeldIds'
    BY <1>2, <2>1, <2>3 DEF PromoteExec, HeldIds, Unread, TypeOK
  <2>6. \A p \in delayed : p \in delayed' \/ \E i \in HeldIds' : stream'[i] = p
    BY <1>2, <2>3, <2>5, ZenonT(60) DEF PromoteExec
  <2>7. Held \subseteq Held'
    BY <2>1, <2>3, <2>4, <2>6, HeldSubset, HeldIdsInStream
  <2> QED BY <1>2, <2>1, <2>3, <2>7 DEF PromoteExec, Keeps, PendingIds
<1> QED BY <1>1, <1>2

LEMMA HandOverKeeps ==
    ASSUME TypeOK, NEW w \in Workers,
           (\E x \in pel : claim_stale(w, x)) \/ read(w) \/ Crash(w) \/ Restart(w)
    PROVE  Keeps
<1>1. ASSUME PendingIds \subseteq PendingIds', cursor' = cursor, stream' = stream,
             delayed' = delayed, dlq' = dlq, received' = received
      PROVE  Keeps
  <2>1. \A i \in HeldIds : i \in HeldIds'
    BY <1>1 DEF HeldIds, Unread
  <2>2. Held \subseteq Held'
    BY <1>1, <2>1, HeldSubset DEF TypeOK
  <2> QED BY <1>1, <2>2 DEF Keeps, TypeOK
<1>2. ASSUME NEW x \in pel, claim_stale(w, x) PROVE Keeps
  <2> DEFINE y == [x EXCEPT !.consumer = w, !.deliveries = x.deliveries + 1]
  <2>1. pel' = (pel \ {x}) \cup {y} /\ y.id = x.id
    BY <1>2, HandedAgain DEF claim_stale, TypeOK
  <2>2. PendingIds \subseteq PendingIds'
    BY <2>1 DEF PendingIds
  <2> QED BY <1>1, <1>2, <2>2 DEF claim_stale
<1>3. CASE read(w)
  <2> DEFINE x == [id |-> cursor + 1, consumer |-> w, deliveries |-> 1]
  <2>1. pel' = pel \cup {x} /\ x.id = cursor + 1 /\ cursor' = cursor + 1
    BY <1>3 DEF read
  <2>2. PendingIds' = PendingIds \cup {cursor + 1}
    BY <2>1 DEF PendingIds
  <2>3. \A i \in HeldIds : i \in HeldIds'
    BY <1>3, <2>1, <2>2 DEF read, HeldIds, Unread, TypeOK
  <2>4. Held \subseteq Held'
    BY <1>3, <2>3, HeldSubset DEF read, TypeOK
  <2> QED BY <1>3, <2>2, <2>4 DEF read, Keeps, TypeOK
<1>4. CASE Crash(w)
  BY <1>4, QueueUnchangedKeeps DEF Crash
<1>5. CASE Restart(w)
  <2>1. PICK drained \in BOOLEAN :
           LET own   == {x \in pel : drained /\ x.consumer = w /\ x.deliveries < MaxDeliveries}
               again == {[x EXCEPT !.deliveries = @ + 1] : x \in own}
           IN  pel' = (pel \ own) \cup again
    BY <1>5 DEF Restart
  <2> DEFINE own   == {x \in pel : drained /\ x.consumer = w /\ x.deliveries < MaxDeliveries}
             again == {[x EXCEPT !.deliveries = @ + 1] : x \in own}
  <2>2. ASSUME NEW x \in pel PROVE \E y \in pel' : y.id = x.id
    <3>1. CASE x \in own
      <4>1. [x EXCEPT !.deliveries = @ + 1].id = x.id
        BY HandedAgain DEF TypeOK
      <4>2. [x EXCEPT !.deliveries = @ + 1] \in pel'
        BY <2>1, <3>1
      <4> QED BY <4>1, <4>2
    <3>2. CASE x \notin own
      BY <2>1, <3>2
    <3> QED BY <3>1, <3>2
  <2>3. PendingIds \subseteq PendingIds'
    BY <2>2 DEF PendingIds
  <2> QED BY <1>1, <1>5, <2>3 DEF Restart
<1> QED BY <1>2, <1>3, <1>4, <1>5

LEMMA DispatchKeeps ==
    ASSUME TypeOK, NEW t \in tasks, Dispatch(t), ~ack(t)
    PROVE  Keeps
<1>1. CASE Handle(t)
  BY <1>1, QueueUnchangedKeeps DEF Handle, record, send_once
<1>2. CASE Commit(t) \/ HandlerRaises(t) \/ ReconcileFails(t)
  BY <1>2, QueueUnchangedKeeps DEF Commit, record, HandlerRaises, ReconcileFails
<1>3. CASE enqueue_delayed(t)
  BY <1>3 DEF enqueue_delayed, Keeps, Held, Unread, PendingIds, TypeOK
<1>4. CASE move_to_dlq(t)
  BY <1>4 DEF move_to_dlq, Keeps, Held, Unread, PendingIds, TypeOK
<1> QED BY <1>1, <1>2, <1>3, <1>4 DEF Dispatch

\* A step that keeps what is held loses no message, whatever it adds.
LEMMA KeepsNoMessageLost ==
    ASSUME TypeOK, TypeOK', NoMessageLost, Keeps, cursor' <= Len(stream)
    PROVE  NoMessageLost'
<1> SUFFICES ASSUME NEW i \in 1..Len(stream') PROVE Accounted(Key(stream[i]), 1)'
  BY DEF NoMessageLost
<1>1. CASE i \in 1..Len(stream)
  BY <1>1, AccountedKept DEF NoMessageLost, Keeps
<1>2. CASE i \notin 1..Len(stream)
  <2>1. i \in Unread'
    BY <1>2 DEF Unread, TypeOK
  <2>2. stream'[i] \in Held'
    BY <2>1 DEF Held
  <2>3. stream'[i].attempt >= 1
    <3>1. stream'[i] \in Payload
      BY DEF TypeOK
    <3> QED BY <3>1 DEF Payload
  <2> QED BY <2>2, <2>3 DEF Accounted
<1> QED BY <1>1, <1>2

\* Tasks that were there before keep what they have handed on.
LEMMA KeepsTask ==
    ASSUME TypeOK, TasksHandOn, Keeps, NEW u \in tasks
    PROVE  /\ stream'[u.id] = stream[u.id]
           /\ u.pc = "handed" => Accounted(Key(stream[u.id]), stream[u.id].attempt + 1)'
           /\ u.verdict \in {"ok", "SUCCESS"} => Settled(Key(stream[u.id]))'
<1>1. stream'[u.id] = stream[u.id]
  BY TaskEntry DEF Keeps
<1>2. u.pc = "handed" => Accounted(Key(stream[u.id]), stream[u.id].attempt + 1)'
  BY <1>1, AccountedKept DEF TasksHandOn
<1>3. u.verdict \in {"ok", "SUCCESS"} => Settled(Key(stream[u.id]))'
  BY <1>1, AccountedKept DEF TasksHandOn
<1> QED BY <1>1, <1>2, <1>3

\* A step whose new tasks, if any, have not handed anything on yet.
LEMMA KeepsTasksHandOn ==
    ASSUME TypeOK, TasksHandOn, Keeps,
           \A u \in tasks' : u \in tasks \/ (u.pc # "handed" /\ u.verdict \notin {"ok", "SUCCESS"})
    PROVE  TasksHandOn'
BY KeepsTask DEF TasksHandOn

\* The task that a step of its own has changed.
LEMMA BecomeHandsOn ==
    ASSUME TypeOK, TasksHandOn, Keeps, NEW t \in tasks,
           NEW pc \in TaskState, NEW verdict \in Verdict, Become(t, pc, verdict),
           pc = "handed" => Accounted(Key(stream[t.id]), stream[t.id].attempt + 1)',
           verdict \in {"ok", "SUCCESS"} => Settled(Key(stream[t.id]))'
    PROVE  TasksHandOn'
<1> DEFINE n == [t EXCEPT !.pc = pc, !.verdict = verdict]
<1>1. n.id = t.id /\ n.pc = pc /\ n.verdict = verdict
  BY DEF TypeOK, Task
<1>2. \A u \in tasks' : u \in tasks \/ u = n
  BY DEF Become
<1> QED BY <1>1, <1>2, KeepsTask DEF TasksHandOn

\* An ack drops one entry.  The task that acks has settled its delivery or
\* handed it on to a later attempt, so whatever was accounted for still is.
LEMMA AckKeepsAccounts ==
    ASSUME TypeOK, TypeOK', TasksHandOn, NEW t \in tasks, ack(t)
    PROVE  /\ \A k : Settled(k) => Settled(k)'
           /\ \A k : \A a \in Nat : Accounted(k, a) => Accounted(k, a)'
           /\ Accounted(Key(stream[t.id]), stream[t.id].attempt + 1)'
<1> DEFINE p == stream[t.id]
<1>1. p \in Payload /\ p.attempt \in Nat /\ stream' = stream
  BY TaskEntry DEF ack, Payload
<1>2. \A k : Settled(k) <=> Settled(k)'
  BY DEF ack, Settled
<1>0. Held' \subseteq Payload
  BY DEF ack, Held, Unread, PendingIds, TypeOK, Pending
<1>3. \A q \in Held : q # p => q \in Held'
  BY DEF ack, Held, Unread, PendingIds
<1>4. Accounted(Key(p), p.attempt + 1)
  BY DEF TasksHandOn, ack, Accounted
<1>5. Accounted(Key(p), p.attempt + 1)'
  <2>1. CASE Settled(Key(p))
    BY <1>1, <1>2, <2>1 DEF Accounted
  <2>2. ASSUME NEW q \in Held, Key(q) = Key(p), q.attempt >= p.attempt + 1
        PROVE  Accounted(Key(p), p.attempt + 1)'
    BY <1>1, <1>3, <2>2 DEF Accounted
  <2> QED BY <1>4, <2>1, <2>2 DEF Accounted
<1>6. ASSUME NEW k, NEW a \in Nat, Accounted(k, a) PROVE Accounted(k, a)'
  <2>1. CASE Settled(k)
    BY <1>2, <2>1 DEF Accounted
  <2>2. ASSUME NEW q \in Held, Key(q) = k, q.attempt >= a PROVE Accounted(k, a)'
    <3>1. CASE q # p
      BY <1>3, <2>2, <3>1 DEF Accounted
    <3>2. CASE q = p
      <4>1. \/ Settled(k)'
            \/ \E r \in Held' : Key(r) = k /\ r.attempt >= p.attempt + 1
        BY <1>1, <1>5, <2>2, <3>2 DEF Accounted
      <4>2. ASSUME NEW r \in Held', r.attempt >= p.attempt + 1 PROVE r.attempt >= a
        BY <1>0, <1>1, <2>2, <3>2, <4>2 DEF Payload
      <4> QED BY <4>1, <4>2 DEF Accounted
    <3> QED BY <3>1, <3>2
  <2> QED BY <1>6, <2>1, <2>2 DEF Accounted
<1> QED BY <1>1, <1>2, <1>5, <1>6

LEMMA AckPreserves ==
    ASSUME TypeOK, TypeOK', NoMessageLost, TasksHandOn, NEW t \in tasks, ack(t)
    PROVE  NoMessageLost' /\ TasksHandOn'
<1>1. stream' = stream /\ tasks' = tasks \ {t}
  BY DEF ack
<1>2. ASSUME NEW i \in 1..Len(stream') PROVE Accounted(Key(stream[i]), 1)'
  <2>1. PICK k : k = Key(stream[i])
    OBVIOUS
  <2>2. Accounted(k, 1)
    BY <1>1, <2>1 DEF NoMessageLost
  <2>3. Accounted(k, 1)'
    BY <2>2, AckKeepsAccounts
  <2> QED BY <1>1, <2>1, <2>3
<1>3. ASSUME NEW u \in tasks'
      PROVE  /\ u.pc = "handed" => Accounted(Key(stream[u.id]), stream[u.id].attempt + 1)'
             /\ u.verdict \in {"ok", "SUCCESS"} => Settled(Key(stream[u.id]))'
  <2>1. u \in tasks /\ stream[u.id].attempt + 1 \in Nat
    BY <1>1, TaskEntry DEF Payload
  <2>2. /\ u.pc = "handed" => Accounted(Key(stream[u.id]), stream[u.id].attempt + 1)
        /\ u.verdict \in {"ok", "SUCCESS"} => Settled(Key(stream[u.id]))
    BY <2>1 DEF TasksHandOn
  <2>3. PICK k, a : k = Key(stream[u.id]) /\ a = stream[u.id].attempt + 1
    OBVIOUS
  <2>4. u.pc = "handed" => Accounted(k, a)'
    BY <2>1, <2>2, <2>3, AckKeepsAccounts
  <2>5. u.verdict \in {"ok", "SUCCESS"} => Settled(k)'
    BY <2>2, <2>3, AckKeepsAccounts
  <2> QED BY <1>1, <2>3, <2>4, <2>5
<1> QED BY <1>2, <1>3 DEF NoMessageLost, TasksHandOn

LEMMA DispatchPreserves ==
    ASSUME TypeOK, TypeOK', NoMessageLost, TasksHandOn, NEW t \in tasks, Dispatch(t)
    PROVE  NoMessageLost' /\ TasksHandOn'
<1>1. CASE ack(t)
  BY <1>1, AckPreserves
<1>2. CASE ~ack(t)
  <2>1. Keeps /\ stream' = stream /\ cursor' = cursor
    BY <1>2, DispatchKeeps DEF Dispatch, Handle, Commit, record, HandlerRaises, ReconcileFails,
         enqueue_delayed, move_to_dlq, queueVars
  <2>2. NoMessageLost'
    BY <2>1, KeepsNoMessageLost DEF TypeOK
  <2> DEFINE p == stream[t.id]
  <2>3. p \in Payload /\ p.attempt \in Nat /\ p' = p
    BY <2>1, TaskEntry DEF Payload
  <2>4. /\ {"queued", "sent", "decided", "handed"} \subseteq TaskState
        /\ {"none", "SUCCESS", "RETRY", "DLQ"} \cup Answer \subseteq Verdict
    BY DEF TaskState, Verdict
  <2>5. CASE Handle(t)
    <3>1. CASE \E verdict \in {"DLQ"} : Become(t, "decided", verdict)
      BY <2>1, <2>2, <2>4, <3>1, BecomeHandsOn
    <3>2. ASSUME NEW result \in Answer, send_once(p, result), Become(t, "sent", result)
          PROVE  TasksHandOn'
      <4>1. result = "ok" => Settled(Key(p))'
        BY <2>1, <3>2 DEF send_once, Settled
      <4>2. result # "SUCCESS"
        BY DEF Answer
      <4> QED BY <2>1, <2>4, <3>2, <4>1, <4>2, BecomeHandsOn
    <3> QED BY <2>2, <2>5, <3>1, <3>2 DEF Handle
  <2>6. CASE Commit(t)
    <3>1. CASE Become(t, "decided", "RETRY") \/ Become(t, "decided", "DLQ")
      BY <2>1, <2>2, <2>4, <3>1, BecomeHandsOn
    <3>2. CASE t.verdict = "ok" /\ Become(t, "decided", "SUCCESS")
      <4>1. Settled(Key(p))'
        BY <2>1, <3>2, AccountedKept DEF TasksHandOn
      <4> QED BY <2>1, <2>2, <2>4, <3>2, <4>1, BecomeHandsOn
    <3> QED BY <2>2, <2>6, <3>1, <3>2 DEF Commit, record
  <2>7. CASE HandlerRaises(t)
    BY <2>1, <2>2, <2>4, <2>7, BecomeHandsOn DEF HandlerRaises
  <2>8. CASE enqueue_delayed(t)
    <3> DEFINE q == [p EXCEPT !.attempt = @ + 1]
    <3>1. Key(q) = Key(p) /\ q.attempt = p.attempt + 1
      BY <2>3 DEF Key, Payload
    <3>2. q \in Held'
      BY <2>8 DEF enqueue_delayed, Held
    <3>3. PICK k, a : k = Key(p) /\ a = p.attempt + 1
      OBVIOUS
    <3>4. a \in Nat /\ Key(q) = k /\ q.attempt >= a
      BY <2>3, <3>1, <3>3
    <3>5. Accounted(k, a)'
      BY <3>2, <3>4 DEF Accounted
    <3>6. Accounted(Key(p), p.attempt + 1)'
      BY <2>1, <3>3, <3>5
    <3> QED BY <2>1, <2>2, <2>4, <2>8, <3>6, BecomeHandsOn DEF enqueue_delayed
  <2>9. CASE move_to_dlq(t)
    <3>1. Accounted(Key(p), p.attempt + 1)'
      BY <2>1, <2>9 DEF move_to_dlq, Accounted, Settled
    <3> QED BY <2>1, <2>2, <2>4, <2>9, <3>1, BecomeHandsOn DEF move_to_dlq
  <2>10. CASE ReconcileFails(t)
    BY <2>1, <2>2, <2>10, KeepsTasksHandOn DEF ReconcileFails
  <2> QED BY <1>2, <2>5, <2>6, <2>7, <2>8, <2>9, <2>10 DEF Dispatch
<1> QED BY <1>1, <1>2

\* Only an ack drops anything.
LEMMA OnlyAckDrops ==
    ASSUME TypeOK, [Next]_vars, ~Keeps
    PROVE  \E t \in tasks : ack(t)
<1>1. CASE UNCHANGED vars
  BY <1>1, QueueUnchangedKeeps DEF vars, queueVars
<1>2. CASE Emitter \/ Admin
  BY <1>2, EmitterKeeps, AdminKeeps
<1>3. CASE \E w \in Workers : Loop(w)
  BY <1>3, PromoteKeeps, HandOverKeeps DEF Loop
<1>4. CASE \E t \in tasks : Dispatch(t)
  BY <1>4, DispatchKeeps
<1> QED BY <1>1, <1>2, <1>3, <1>4 DEF Next

LEMMA InvNext ==
    ASSUME Inv, [Next]_vars
    PROVE  Inv'
<1> USE DEF Inv
<1>1. TypeOK'
  BY TypeNext
<1>2. ASSUME Keeps, cursor' <= Len(stream), tasks' = tasks
      PROVE  NoMessageLost' /\ TasksHandOn'
  BY <1>1, <1>2, KeepsNoMessageLost, KeepsTasksHandOn
<1>3. CASE UNCHANGED vars
  <2>1. Keeps
    BY <1>3, QueueUnchangedKeeps DEF vars, queueVars
  <2> QED BY <1>1, <1>2, <1>3, <2>1 DEF vars, TypeOK
<1>4. CASE Emitter
  <2>1. tasks' = tasks /\ cursor' = cursor
    BY <1>4 DEF Emitter, EmitLookup, Emit, EmitFail, queueVars, workerVars
  <2> QED BY <1>1, <1>2, <1>4, <2>1, EmitterKeeps DEF TypeOK
<1>5. CASE Admin
  <2>1. tasks' = tasks /\ cursor' = cursor
    BY <1>5 DEF Admin, Disable, Reactivate, Delete, queueVars, workerVars
  <2> QED BY <1>1, <1>2, <1>5, <2>1, AdminKeeps DEF TypeOK
<1>6. ASSUME NEW w \in Workers, PromoteRead(w) \/ PromoteExec(w) \/ PromoteFail(w) PROVE Inv'
  <2>1. tasks' = tasks /\ cursor' = cursor
    BY <1>6 DEF PromoteRead, PromoteExec, PromoteFail, queueVars
  <2> QED BY <1>1, <1>2, <1>6, <2>1, PromoteKeeps DEF TypeOK
<1>7. ASSUME NEW w \in Workers,
             (\E x \in pel : claim_stale(w, x)) \/ read(w) \/ Crash(w) \/ Restart(w)
      PROVE  Inv'
  <2>1. Keeps
    BY <1>7, HandOverKeeps
  <2>2. cursor' <= Len(stream)
    <3>1. CASE read(w)
      BY <3>1 DEF read, TypeOK
    <3>2. CASE (\E x \in pel : claim_stale(w, x)) \/ Crash(w) \/ Restart(w)
      <4>1. cursor' = cursor
        BY <3>2 DEF claim_stale, Crash, Restart, queueVars
      <4> QED BY <4>1 DEF TypeOK
    <3> QED BY <1>7, <3>1, <3>2
  <2>3. \A u \in tasks' : u \in tasks \/ (u.pc = "queued" /\ u.verdict = "none")
    <3>1. CASE \E x \in pel : claim_stale(w, x)
      BY <3>1 DEF claim_stale, Spawned
    <3>2. CASE read(w)
      BY <3>2 DEF read, Spawned
    <3>3. CASE Crash(w)
      BY <3>3 DEF Crash
    <3>4. CASE Restart(w)
      <4>1. PICK again : tasks' = tasks \cup {Spawned(w, y) : y \in again}
        BY <3>4 DEF Restart
      <4> QED BY <4>1 DEF Spawned
    <3> QED BY <1>7, <3>1, <3>2, <3>3, <3>4
  <2>4. NoMessageLost' /\ TasksHandOn'
    BY <1>1, <2>1, <2>2, <2>3, KeepsNoMessageLost, KeepsTasksHandOn
  <2> QED BY <1>1, <2>4
<1>8. ASSUME NEW t \in tasks, Dispatch(t) PROVE Inv'
  BY <1>1, <1>8, DispatchPreserves
<1> QED BY <1>3, <1>4, <1>5, <1>6, <1>7, <1>8 DEF Next, Loop

LEMMA InvInit ==
    ASSUME Init
    PROVE  Inv
<1>1. TypeOK
  BY TypeInit
<1>2. NoMessageLost /\ TasksHandOn
  BY DEF Init, NoMessageLost, TasksHandOn
<1> QED BY <1>1, <1>2 DEF Inv

\* At-least-once delivery for every number of endpoints, messages, workers,
\* slots, attempts and faults: no delivery that enqueue has put on the main
\* stream is ever lost to a crash, a raised handler, a reclaim or a race of two
\* promotions.
THEOREM AtLeastOnce == Spec => []NoMessageLost
<1>1. Inv => NoMessageLost
  BY DEF Inv
<1> QED BY <1>1, InvInit, InvNext, PTL DEF Spec

\* _dispatch_one acks an entry only after it has settled the delivery or queued
\* its next attempt, also when another consumer holds the entry by then.
THEOREM AckIsSafe == Spec => AckOnlyAfterHandoff
<1> DEFINE A == \A x \in pel : x.id \notin PendingIds' =>
          \/ Settled(Key(stream[x.id]))'
          \/ \E p \in Held' : Key(p) = Key(stream[x.id]) /\ p.attempt > stream[x.id].attempt
<1>1. ASSUME Inv, [Next]_vars PROVE [A]_vars
  <2>1. TypeOK /\ TypeOK' /\ TasksHandOn
    BY <1>1, InvNext DEF Inv
  <2>2. ASSUME NEW t \in tasks, ack(t), NEW x \in pel, x.id \notin PendingIds'
        PROVE  \/ Settled(Key(stream[x.id]))'
               \/ \E p \in Held' : Key(p) = Key(stream[x.id]) /\ p.attempt > stream[x.id].attempt
    <3>1. x.id = t.id /\ stream' = stream
      BY <2>2 DEF ack, PendingIds
    <3>2. stream[t.id] \in Payload
      BY <2>1, <2>2, TaskEntry
    <3>3. PICK n \in Nat : n = stream[t.id].attempt
      BY <3>2 DEF Payload
    <3>4. Accounted(Key(stream[t.id]), stream[t.id].attempt + 1)'
      BY <2>1, <2>2, AckKeepsAccounts
    <3>5. \/ Settled(Key(stream[t.id]))'
          \/ \E p \in Held' : Key(p) = Key(stream[t.id]) /\ p.attempt >= n + 1
      BY <3>1, <3>3, <3>4 DEF Accounted
    <3>6. Held' \subseteq Payload
      BY <2>1 DEF Held, Unread, PendingIds, TypeOK, Pending
    <3>7. \A p \in Held' : p.attempt >= n + 1 => p.attempt > n
      BY <3>6 DEF Payload
    <3> QED BY <3>1, <3>3, <3>5, <3>7
  <2>3. ASSUME NEW x \in pel, x.id \notin PendingIds' PROVE \E t \in tasks : ack(t)
    <3>1. ~Keeps
      BY <2>3 DEF Keeps, PendingIds
    <3> QED BY <1>1, <2>1, <3>1, OnlyAckDrops
  <2> QED BY <2>2, <2>3
<1> QED BY <1>1, InvInit, InvNext, PTL DEF Spec, AckOnlyAfterHandoff
-----------------------------------------------------------------------------
(* Attempts and dead letters.  AttemptsBounded and DeadLetterHasRow speak of *)
(* what is held and what was dead-lettered; a task adds to either long after *)
(* it decided to, so the invariant speaks of what tasks have decided.        *)

\* Attempt a of a delivery to e is one the retry schedule, a handler that raised
\* or the deletion of e accounts for.
WithinSchedule(e, a) ==
    \/ a <= MaxAttempts + faults
    \/ endpoint[e] = "deleted" /\ a <= MaxAttempts + faults + 1

PayloadsWithin ==
    /\ \A i \in 1..Len(stream) : WithinSchedule(stream[i].ep, stream[i].attempt)
    /\ \A p \in delayed : WithinSchedule(p.ep, p.attempt)
    /\ \A w \in Workers : \A i \in 1..Len(due[w]) :
          WithinSchedule(due[w][i].ep, due[w][i].attempt)

\* What a task with payload p has decided: the attempt it sent was not the one
\* beyond the schedule, the attempt it will queue is within it, and the dead
\* letter it will write has its row.
DecidesWithin(pc, verdict, p) ==
    /\ pc = "sent" => p.attempt <= MaxAttempts + faults
    /\ verdict = "RETRY" => WithinSchedule(p.ep, p.attempt + 1)
    /\ verdict = "DLQ" => endpoint[p.ep] = "deleted" \/ p \in deadRows

TasksWithin == \A t \in tasks : DecidesWithin(t.pc, t.verdict, stream[t.id])

Recorded == Inv /\ PayloadsWithin /\ TasksWithin /\ DeadLetterHasRow

\* What no step takes back: the fault count grows, a deleted endpoint stays
\* deleted and takes its rows with it, and entries keep their place.
Forward ==
    /\ faults \in Nat /\ faults' \in Nat /\ faults <= faults'
    /\ \A e \in Endpoints : endpoint[e] = "deleted" => endpoint'[e] = "deleted"
    /\ \A p \in deadRows : p \in deadRows' \/ endpoint'[p.ep] = "deleted"
    /\ Len(stream) <= Len(stream')
    /\ \A i \in 1..Len(stream) : stream'[i] = stream[i]

LEMMA NextForward == ASSUME TypeOK, [Next]_vars PROVE Forward
<1>1. /\ Len(stream) <= Len(stream')
      /\ \A i \in 1..Len(stream) : stream'[i] = stream[i]
  <2>1. CASE Keeps
    BY <2>1 DEF Keeps
  <2>2. CASE \E t \in tasks : ack(t)
    BY <2>2 DEF ack, TypeOK
  <2> QED BY <2>1, <2>2, OnlyAckDrops
<1>2. faults \in Nat /\ faults' \in Nat /\ faults <= faults'
  <2>1. faults' = faults \/ faults' = faults + 1
    <3>1. CASE Emitter \/ Admin \/ UNCHANGED vars
      BY <3>1 DEF Emitter, EmitLookup, Emit, EmitFail, Fault, Admin, Disable, Reactivate,
                  Delete, vars
    <3>2. ASSUME NEW w \in Workers, Loop(w) PROVE faults' = faults \/ faults' = faults + 1
      BY <3>2 DEF Loop, PromoteRead, PromoteExec, PromoteFail, claim_stale, IdleTooLong, Fault,
                  read, Crash, Restart
    <3>3. ASSUME NEW t \in tasks, Dispatch(t) PROVE faults' = faults \/ faults' = faults + 1
      BY <3>3 DEF Dispatch, Handle, Commit, HandlerRaises, enqueue_delayed, move_to_dlq, ack,
                  ReconcileFails, Fault
    <3> QED BY <3>1, <3>2, <3>3 DEF Next
  <2> QED BY <2>1 DEF TypeOK
<1>3. /\ \A e \in Endpoints : endpoint[e] = "deleted" => endpoint'[e] = "deleted"
      /\ \A p \in deadRows : p \in deadRows' \/ endpoint'[p.ep] = "deleted"
  <2>1. CASE UNCHANGED endpoint /\ deadRows \subseteq deadRows'
    BY <2>1
  <2>2. CASE Emitter \/ UNCHANGED vars
    BY <2>1, <2>2 DEF Emitter, EmitLookup, Emit, EmitFail, vars
  <2>3. ASSUME NEW e \in Administered, Disable(e) \/ Reactivate(e)
        PROVE  /\ \A f \in Endpoints : endpoint[f] = "deleted" => endpoint'[f] = "deleted"
               /\ deadRows' = deadRows
    BY <2>3 DEF Disable, Reactivate, TypeOK
  <2>4. ASSUME NEW e \in Administered, Delete(e)
        PROVE  /\ \A f \in Endpoints : endpoint[f] = "deleted" => endpoint'[f] = "deleted"
               /\ \A p \in deadRows : p \in deadRows' \/ endpoint'[p.ep] = "deleted"
    BY <2>4 DEF Delete, TypeOK, Payload
  <2>5. ASSUME NEW w \in Workers, Loop(w) PROVE UNCHANGED <<endpoint, deadRows>>
    BY <2>5 DEF Loop, PromoteRead, PromoteExec, PromoteFail, claim_stale, read, Crash, Restart,
                envVars
  <2>6. ASSUME NEW t \in tasks, Dispatch(t) PROVE UNCHANGED endpoint /\ deadRows \subseteq deadRows'
    BY <2>6 DEF Dispatch, Handle, Commit, record, HandlerRaises, enqueue_delayed, move_to_dlq,
                ack, ReconcileFails, envVars
  <2> QED BY <2>1, <2>2, <2>3, <2>4, <2>5, <2>6 DEF Next, Admin
<1> QED BY <1>1, <1>2, <1>3 DEF Forward

LEMMA MoreFaults ==
    ASSUME NEW a \in Nat, NEW m \in Nat, NEW f \in Nat, NEW g \in Nat, f <= g
    PROVE  (a <= m + f => a <= m + g) /\ (a <= m + f + 1 => a <= m + g + 1)
OBVIOUS

LEMMA ScheduleKept ==
    ASSUME Forward, NEW e \in Endpoints, NEW a \in Nat, WithinSchedule(e, a)
    PROVE  WithinSchedule(e, a)'
<1>1. faults \in Nat /\ faults' \in Nat /\ faults <= faults'
  BY DEF Forward
<1>2. endpoint[e] = "deleted" => endpoint'[e] = "deleted"
  BY DEF Forward
<1>3. MaxAttempts \in Nat
  OBVIOUS
<1>4. CASE a <= MaxAttempts + faults
  <2>1. a <= MaxAttempts + faults'
    BY <1>1, <1>3, <1>4, MoreFaults
  <2> QED BY <2>1 DEF WithinSchedule
<1>5. CASE endpoint[e] = "deleted" /\ a <= MaxAttempts + faults + 1
  <2>1. a <= MaxAttempts + faults' + 1
    BY <1>1, <1>3, <1>5, MoreFaults
  <2> QED BY <1>2, <1>5, <2>1 DEF WithinSchedule
<1> QED BY <1>4, <1>5 DEF WithinSchedule

LEMMA DecisionKept ==
    ASSUME Forward, NEW p \in Payload, NEW pc, NEW verdict, DecidesWithin(pc, verdict, p)
    PROVE  DecidesWithin(pc, verdict, p)'
<1>1. p.ep \in Endpoints /\ p.attempt \in Nat /\ p.attempt + 1 \in Nat
  BY DEF Payload
<1>2. verdict = "RETRY" => WithinSchedule(p.ep, p.attempt + 1)'
  BY <1>1, ScheduleKept DEF DecidesWithin
<1>3. pc = "sent" => p.attempt <= MaxAttempts + faults'
  BY <1>1 DEF DecidesWithin, Forward
<1>4. verdict = "DLQ" => endpoint'[p.ep] = "deleted" \/ p \in deadRows'
  BY <1>1 DEF DecidesWithin, Forward
<1> QED BY <1>2, <1>3, <1>4 DEF DecidesWithin

\* Tasks there were keep their decision; the others are new and have made none,
\* or have just decided.
LEMMA TasksKept ==
    ASSUME TypeOK, TasksWithin, Forward,
           \A u \in tasks' : \/ u \in tasks
                             \/ u.pc # "sent" /\ u.verdict \notin {"RETRY", "DLQ"}
                             \/ DecidesWithin(u.pc, u.verdict, stream[u.id])'
    PROVE  TasksWithin'
<1> SUFFICES ASSUME NEW u \in tasks'
             PROVE  DecidesWithin(u.pc, u.verdict, stream[u.id])'
  BY DEF TasksWithin
<1>1. CASE u \in tasks
  <2>1. stream'[u.id] = stream[u.id] /\ stream[u.id] \in Payload
    BY <1>1, TaskEntry DEF Forward
  <2>2. DecidesWithin(u.pc, u.verdict, stream[u.id])
    BY <1>1 DEF TasksWithin
  <2>3. PICK p \in Payload : p = stream[u.id]
    BY <2>1
  <2>4. DecidesWithin(u.pc, u.verdict, p)'
    BY <2>2, <2>3, DecisionKept
  <2> QED BY <2>1, <2>3, <2>4
<1>2. CASE u.pc # "sent" /\ u.verdict \notin {"RETRY", "DLQ"}
  BY <1>2 DEF DecidesWithin
<1> QED BY <1>1, <1>2

\* Payloads there were stay within the schedule; the others must be.
LEMMA PayloadsKept ==
    ASSUME TypeOK, PayloadsWithin, Forward,
           \A i \in 1..Len(stream') : \/ i \in 1..Len(stream)
                                      \/ WithinSchedule(stream[i].ep, stream[i].attempt)',
           \A p \in delayed' : p \in delayed \/ WithinSchedule(p.ep, p.attempt)',
           \A w \in Workers : \A i \in 1..Len(due'[w]) :
              \/ i \in 1..Len(due[w]) /\ due'[w][i] = due[w][i]
              \/ WithinSchedule(due[w][i].ep, due[w][i].attempt)'
    PROVE  PayloadsWithin'
<1>1. ASSUME NEW p \in Payload, WithinSchedule(p.ep, p.attempt)
      PROVE  WithinSchedule(p.ep, p.attempt)'
  BY <1>1, ScheduleKept DEF Payload
<1>2. ASSUME NEW i \in 1..Len(stream') PROVE WithinSchedule(stream[i].ep, stream[i].attempt)'
  <2>1. CASE i \in 1..Len(stream)
    <3>1. PICK p \in Payload : p = stream[i]
      BY <2>1 DEF TypeOK
    <3>2. WithinSchedule(p.ep, p.attempt)'
      BY <1>1, <2>1, <3>1 DEF PayloadsWithin
    <3>3. stream'[i] = p
      BY <2>1, <3>1 DEF Forward
    <3> QED BY <3>2, <3>3
  <2> QED BY <2>1
<1>3. ASSUME NEW p \in delayed' PROVE WithinSchedule(p.ep, p.attempt)'
  BY <1>1 DEF PayloadsWithin, TypeOK
<1>4. ASSUME NEW w \in Workers, NEW i \in 1..Len(due'[w])
      PROVE  WithinSchedule(due[w][i].ep, due[w][i].attempt)'
  <2>1. CASE i \in 1..Len(due[w]) /\ due'[w][i] = due[w][i]
    <3>1. PICK p \in Payload : p = due[w][i]
      BY <2>1 DEF TypeOK
    <3>2. WithinSchedule(p.ep, p.attempt)'
      BY <1>1, <2>1, <3>1 DEF PayloadsWithin
    <3> QED BY <2>1, <3>1, <3>2
  <2> QED BY <2>1
<1> QED BY <1>2, <1>3, <1>4 DEF PayloadsWithin

LEMMA DeadLettersKept ==
    ASSUME TypeOK, DeadLetterHasRow, Forward,
           \A p \in dlq' : p \in dlq \/ endpoint'[p.ep] = "deleted" \/ p \in deadRows'
    PROVE  DeadLetterHasRow'
BY DEF DeadLetterHasRow, Forward, TypeOK, Payload

\* Steps outside the tasks.
LEMMA RecordedEmitterAdmin ==
    ASSUME Recorded, Forward, Emitter \/ Admin \/ UNCHANGED vars
    PROVE  PayloadsWithin' /\ TasksWithin' /\ DeadLetterHasRow'
<1> USE DEF Recorded, Inv
<1>1. UNCHANGED <<delayed, due, dlq, tasks>>
  BY DEF Emitter, EmitLookup, Emit, EmitFail, Admin, Disable, Reactivate, Delete, vars,
         queueVars, workerVars
<1>2. TasksWithin' /\ DeadLetterHasRow'
  BY <1>1, TasksKept, DeadLettersKept
<1>3. ASSUME NEW i \in 1..Len(stream'), i \notin 1..Len(stream)
      PROVE  WithinSchedule(stream[i].ep, stream[i].attempt)'
  <2>1. PICK m \in Messages, e \in Endpoints : Emit(m, e)
    BY <1>3 DEF Emitter, EmitLookup, EmitFail, Admin, Disable, Reactivate, Delete, vars, queueVars
  <2>2. stream'[i] = [ep |-> e, msg |-> m, attempt |-> 1]
    BY <1>3, <2>1 DEF Emit, TypeOK
  <2>3. 1 <= MaxAttempts + faults'
    BY DEF Forward
  <2> QED BY <2>2, <2>3 DEF WithinSchedule
<1>4. PayloadsWithin'
  BY <1>1, <1>3, PayloadsKept
<1> QED BY <1>2, <1>4

LEMMA RecordedLoop ==
    ASSUME Recorded, Forward, NEW w \in Workers, Loop(w)
    PROVE  PayloadsWithin' /\ TasksWithin' /\ DeadLetterHasRow'
<1> USE DEF Recorded, Inv
<1>1. DeadLetterHasRow'
  BY DeadLettersKept DEF Loop, PromoteRead, PromoteExec, PromoteFail, claim_stale, read, Crash,
                         Restart, queueVars
<1>2. TasksWithin'
  <2>1. CASE PromoteRead(w) \/ PromoteExec(w) \/ PromoteFail(w)
    BY <2>1, TasksKept DEF PromoteRead, PromoteExec, PromoteFail
  <2>2. CASE (\E x \in pel : claim_stale(w, x)) \/ read(w)
    <3>1. PICK y : tasks' = tasks \cup {Spawned(w, y)}
      BY <2>2 DEF claim_stale, read
    <3> QED BY <3>1, TasksKept DEF Spawned
  <2>3. CASE Crash(w)
    BY <2>3, TasksKept DEF Crash
  <2>4. CASE Restart(w)
    <3>1. PICK again : tasks' = tasks \cup {Spawned(w, y) : y \in again}
      BY <2>4 DEF Restart
    <3> QED BY <3>1, TasksKept DEF Spawned
  <2> QED BY <2>1, <2>2, <2>3, <2>4 DEF Loop
<1>3. ASSUME NEW p \in Payload, WithinSchedule(p.ep, p.attempt)
      PROVE  WithinSchedule(p.ep, p.attempt)'
  BY <1>3, ScheduleKept DEF Payload
<1>4. CASE PromoteRead(w)
  <2>1. PICK n \in 1..PromoteBatch : \E s \in [1..n -> delayed] : due' = [due EXCEPT ![w] = s]
    BY <1>4 DEF PromoteRead
  <2>2. PICK s \in [1..n -> delayed] : due' = [due EXCEPT ![w] = s]
    BY <2>1
  <2>3. s \in Seq(delayed) /\ Len(s) = n
    BY <2>2
  <2>4. ASSUME NEW i \in 1..Len(due'[w]) PROVE WithinSchedule(due[w][i].ep, due[w][i].attempt)'
    <3>1. due'[w] = s
      BY <2>2 DEF TypeOK
    <3>2. PICK p \in delayed : p = due'[w][i]
      BY <2>2, <2>3, <3>1
    <3>3. WithinSchedule(p.ep, p.attempt)'
      BY <1>3, <3>2 DEF PayloadsWithin, TypeOK
    <3> QED BY <3>2, <3>3
  <2>5. \A v \in Workers \ {w} : due'[v] = due[v]
    BY <2>2 DEF TypeOK
  <2>6. UNCHANGED <<stream, delayed>>
    BY <1>4 DEF PromoteRead, queueVars
  <2>7. PayloadsWithin'
    BY <2>4, <2>5, <2>6, PayloadsKept
  <2> QED BY <1>1, <1>2, <2>7
<1>5. CASE PromoteExec(w)
  <2>1. due[w] \in Seq(Payload) /\ stream \in Seq(Payload) /\ stream' = stream \o due[w]
    BY <1>5 DEF PromoteExec, TypeOK
  <2>2. ASSUME NEW i \in 1..Len(stream'), i \notin 1..Len(stream)
        PROVE  WithinSchedule(stream[i].ep, stream[i].attempt)'
    <3>1. i - Len(stream) \in 1..Len(due[w]) /\ stream'[i] = due[w][i - Len(stream)]
      BY <2>1, <2>2
    <3>2. PICK p \in Payload : p = due[w][i - Len(stream)]
      BY <2>1, <3>1
    <3>3. WithinSchedule(p.ep, p.attempt)
      BY <3>1, <3>2 DEF PayloadsWithin
    <3>4. WithinSchedule(p.ep, p.attempt)'
      BY <1>3, <3>3
    <3> QED BY <3>1, <3>2, <3>4
  <2>3. due'[w] = <<>> /\ \A v \in Workers \ {w} : due'[v] = due[v]
    BY <1>5 DEF PromoteExec, TypeOK
  <2>4. delayed' \subseteq delayed
    BY <1>5 DEF PromoteExec
  <2>5. PayloadsWithin'
    BY <2>2, <2>3, <2>4, PayloadsKept
  <2> QED BY <1>1, <1>2, <2>5
<1>6. CASE PromoteFail(w) \/ Crash(w)
  <2>1. /\ due'[w] = <<>> /\ \A v \in Workers \ {w} : due'[v] = due[v]
        /\ UNCHANGED <<stream, delayed>>
    BY <1>6 DEF PromoteFail, Crash, TypeOK, queueVars
  <2>2. PayloadsWithin'
    BY <2>1, PayloadsKept
  <2> QED BY <1>1, <1>2, <2>2
<1>7. CASE (\E x \in pel : claim_stale(w, x)) \/ read(w) \/ Restart(w)
  <2>1. UNCHANGED <<stream, delayed, due>>
    BY <1>7 DEF claim_stale, read, Restart
  <2>2. PayloadsWithin'
    BY <2>1, PayloadsKept
  <2> QED BY <1>1, <1>2, <2>2
<1> QED BY <1>4, <1>5, <1>6, <1>7 DEF Loop

\* A task that decides something does so within the schedule.
LEMMA BecomeDecides ==
    ASSUME TypeOK, TasksWithin, Forward, NEW t \in tasks, NEW pc \in TaskState,
           NEW verdict \in Verdict, Become(t, pc, verdict),
           DecidesWithin(pc, verdict, stream[t.id])'
    PROVE  TasksWithin'
<1> DEFINE n == [t EXCEPT !.pc = pc, !.verdict = verdict]
<1>1. n.id = t.id /\ n.pc = pc /\ n.verdict = verdict
  BY DEF TypeOK, Task
<1>2. \A u \in tasks' : u \in tasks \/ u = n
  BY DEF Become
<1> HIDE DEF n
<1>3. DecidesWithin(n.pc, n.verdict, stream[n.id])'
  BY <1>1
<1> QED BY <1>2, <1>3, TasksKept

\* What the handler decides: to dead-letter with a row, unless the endpoint is
\* gone; to retry within the schedule, or one beyond it for an endpoint deleted
\* after the send.
LEMMA HandlerDecides ==
    ASSUME TypeOK, PayloadsWithin, TasksWithin, Forward, NEW t \in tasks,
           Handle(t) \/ Commit(t) \/ HandlerRaises(t)
    PROVE  TasksWithin'
<1>1. PICK p \in Payload : p = stream[t.id]
  BY TaskEntry
<1>2. /\ p.ep \in Endpoints /\ p.attempt \in Nat /\ faults \in Nat /\ faults' \in Nat
      /\ MaxAttempts \in Nat
  BY DEF Payload, Forward
<1>3. stream'[t.id] = p /\ UNCHANGED endpoint
  BY <1>1 DEF Handle, Commit, HandlerRaises, queueVars, envVars
<1>4. /\ WithinSchedule(p.ep, p.attempt)
      /\ t.pc = "sent" => p.attempt <= MaxAttempts + faults
  BY <1>1, TaskEntry DEF PayloadsWithin, TasksWithin, DecidesWithin
<1>5. ASSUME NEW pc \in {"decided", "sent"}, NEW verdict \in Verdict, Become(t, pc, verdict),
             DecidesWithin(pc, verdict, p)'
      PROVE  TasksWithin'
  <2>1. pc \in TaskState
    BY DEF TaskState
  <2>2. DecidesWithin(pc, verdict, stream[t.id])'
    BY <1>3, <1>5
  <2> QED BY <1>5, <2>1, <2>2, BecomeDecides
<1>6. {"SUCCESS", "RETRY", "DLQ"} \cup Answer \subseteq Verdict
  BY DEF Verdict
<1>7. CASE Handle(t)
  <2>1. CASE endpoint[p.ep] # "active" /\ Become(t, "decided", "DLQ")
    <3>1. endpoint'[p.ep] = "deleted" \/ p \in deadRows'
      BY <1>1, <1>3, <1>7, <2>1 DEF Handle, record, TypeOK
    <3>2. DecidesWithin("decided", "DLQ", p)'
      BY <3>1 DEF DecidesWithin
    <3> QED BY <1>5, <1>6, <2>1, <3>2
  <2>2. ASSUME endpoint[p.ep] = "active", NEW result \in Answer, Become(t, "sent", result)
        PROVE  TasksWithin'
    <3>1. p.attempt <= MaxAttempts + faults
      BY <1>4, <2>2 DEF WithinSchedule
    <3>2. p.attempt <= MaxAttempts + faults'
      BY <1>2, <3>1, MoreFaults DEF Forward
    <3>3. DecidesWithin("sent", result, p)'
      BY <3>2 DEF DecidesWithin, Answer
    <3> QED BY <1>5, <1>6, <2>2, <3>3
  <2> QED BY <1>1, <1>7, <2>1, <2>2 DEF Handle
<1>8. CASE Commit(t)
  <2>1. UNCHANGED faults
    BY <1>8 DEF Commit
  <2>2. CASE Become(t, "decided", "SUCCESS")
    <3>1. DecidesWithin("decided", "SUCCESS", p)'
      BY DEF DecidesWithin
    <3> QED BY <1>5, <1>6, <2>2, <3>1
  <2>3. CASE Become(t, "decided", "DLQ") /\ p \in deadRows'
    <3>1. DecidesWithin("decided", "DLQ", p)'
      BY <2>3 DEF DecidesWithin
    <3> QED BY <1>5, <1>6, <2>3, <3>1
  <2>4. CASE Become(t, "decided", "RETRY") /\ endpoint[p.ep] = "deleted"
    <3>1. p.attempt <= MaxAttempts + faults
      BY <1>4, <1>8 DEF Commit
    <3>2. p.attempt + 1 <= MaxAttempts + faults + 1
      BY <1>2, <3>1
    <3>3. DecidesWithin("decided", "RETRY", p)'
      BY <1>3, <2>1, <2>4, <3>2 DEF DecidesWithin, WithinSchedule
    <3> QED BY <1>5, <1>6, <2>4, <3>3
  <2>5. CASE Become(t, "decided", "RETRY") /\ next_retry_delay(p.attempt)
    <3>1. p.attempt + 1 <= MaxAttempts + faults
      BY <1>2, <2>5 DEF next_retry_delay
    <3>2. DecidesWithin("decided", "RETRY", p)'
      BY <2>1, <3>1 DEF DecidesWithin, WithinSchedule
    <3> QED BY <1>5, <1>6, <2>5, <3>2
  <2> QED BY <1>1, <1>8, <2>2, <2>3, <2>4, <2>5 DEF Commit, record
<1>9. CASE HandlerRaises(t)
  <2>1. faults' = faults + 1 /\ Become(t, "decided", "RETRY")
    BY <1>9 DEF HandlerRaises, Fault
  <2>2. /\ p.attempt <= MaxAttempts + faults => p.attempt + 1 <= MaxAttempts + faults'
        /\ p.attempt <= MaxAttempts + faults + 1 => p.attempt + 1 <= MaxAttempts + faults' + 1
    BY <1>2, <2>1
  <2>3. WithinSchedule(p.ep, p.attempt + 1)'
    BY <1>3, <1>4, <2>2 DEF WithinSchedule
  <2>4. DecidesWithin("decided", "RETRY", p)'
    BY <2>3 DEF DecidesWithin
  <2> QED BY <1>5, <1>6, <2>1, <2>4
<1> QED BY <1>7, <1>8, <1>9

LEMMA RecordedDispatch ==
    ASSUME Recorded, Forward, NEW t \in tasks, Dispatch(t)
    PROVE  PayloadsWithin' /\ TasksWithin' /\ DeadLetterHasRow'
<1> USE DEF Recorded, Inv
<1>1. PICK p \in Payload : p = stream[t.id]
  BY TaskEntry
<1>2. DecidesWithin(t.pc, t.verdict, p)
  BY <1>1 DEF TasksWithin
<1>3. CASE Handle(t) \/ Commit(t) \/ HandlerRaises(t)
  <2>1. UNCHANGED <<stream, delayed, due, dlq>>
    BY <1>3 DEF Handle, Commit, HandlerRaises, queueVars
  <2> QED BY <1>3, <2>1, HandlerDecides, PayloadsKept, DeadLettersKept
<1>4. CASE ack(t) \/ ReconcileFails(t)
  <2>1. UNCHANGED <<stream, delayed, due, dlq>> /\ tasks' \subseteq tasks
    BY <1>4 DEF ack, ReconcileFails, queueVars
  <2> QED BY <2>1, TasksKept, PayloadsKept, DeadLettersKept
<1>5. ASSUME enqueue_delayed(t) \/ move_to_dlq(t) PROVE TasksWithin'
  <2>1. Become(t, "handed", "none")
    BY <1>5 DEF enqueue_delayed, move_to_dlq
  <2>2. DecidesWithin("handed", "none", stream[t.id])'
    BY DEF DecidesWithin
  <2>3. "handed" \in TaskState /\ "none" \in Verdict
    BY DEF TaskState, Verdict
  <2> QED BY <2>1, <2>2, <2>3, BecomeDecides
<1>6. CASE enqueue_delayed(t)
  <2> DEFINE q == [p EXCEPT !.attempt = @ + 1]
  <2>1. UNCHANGED <<stream, due, dlq>> /\ delayed' = delayed \cup {q}
    BY <1>1, <1>6 DEF enqueue_delayed
  <2>2. q.ep = p.ep /\ q.attempt = p.attempt + 1 /\ p.ep \in Endpoints /\ p.attempt + 1 \in Nat
    BY DEF Payload
  <2>3. WithinSchedule(p.ep, p.attempt + 1)'
    BY <1>2, <1>6, <2>2, ScheduleKept DEF enqueue_delayed, DecidesWithin
  <2> HIDE DEF q
  <2>4. WithinSchedule(q.ep, q.attempt)'
    BY <2>2, <2>3
  <2> QED BY <1>5, <1>6, <2>1, <2>4, PayloadsKept, DeadLettersKept
<1>7. CASE move_to_dlq(t)
  <2>1. UNCHANGED <<stream, delayed, due>> /\ dlq' = dlq \cup {p}
    BY <1>1, <1>7 DEF move_to_dlq
  <2>2. endpoint'[p.ep] = "deleted" \/ p \in deadRows'
    BY <1>2, <1>7 DEF move_to_dlq, DecidesWithin, envVars
  <2> QED BY <1>5, <1>7, <2>1, <2>2, PayloadsKept, DeadLettersKept
<1> QED BY <1>3, <1>4, <1>6, <1>7 DEF Dispatch

LEMMA RecordedNext == Recorded /\ [Next]_vars => Recorded'
<1> SUFFICES ASSUME Recorded, [Next]_vars PROVE Recorded'
  OBVIOUS
<1>1. Inv' /\ Forward
  BY InvNext, NextForward DEF Recorded, Inv
<1> QED BY <1>1, RecordedEmitterAdmin, RecordedLoop, RecordedDispatch DEF Recorded, Next

\* However tasks race, handlers raise and endpoints are deleted under them: a task
\* has handed on what it sent before it acks, move_to_dlq leaves no message
\* without its row in Postgres, and no message is attempted beyond the retry
\* schedule but once for each handler that raised and once for a deletion.
THEOREM EveryAttemptRecorded == Spec => []AttemptsRecorded
<1>1. Init => Recorded
  BY InvInit DEF Recorded, Init, PayloadsWithin, TasksWithin, DeadLetterHasRow
<1>2. ASSUME Recorded PROVE AttemptsRecorded
  <2> SUFFICES ASSUME NEW p \in Held PROVE p.attempt <= MaxAttempts + faults + 1
    BY <1>2 DEF Recorded, Inv, AttemptsRecorded, AttemptsBounded
  <2>1. p \in Payload /\ WithinSchedule(p.ep, p.attempt)
    BY <1>2, HeldPayloads, HeldIdsInStream DEF Recorded, Inv, PayloadsWithin, Held, HeldIds
  <2>2. p.attempt \in Nat /\ faults \in Nat /\ MaxAttempts \in Nat
    BY <1>2, <2>1 DEF Recorded, Inv, TypeOK, Payload
  <2> QED BY <2>1, <2>2 DEF WithinSchedule
<1> QED BY <1>1, <1>2, RecordedNext, PTL DEF Spec

-----------------------------------------------------------------------------
(* The queue keeps what it promises its producers *)

Owed == {Key(p) : p \in Held}
SettledKeys == received \cup {Key(p) : p \in dlq}

\* What a task settles, the queue has owed or has settled before, though its
\* entry may have been acked by another task in the meantime.
LEMMA TaskIsOwed == ASSUME Inv, NEW t \in tasks PROVE Key(stream[t.id]) \in Owed \cup SettledKeys
<1>1. t.id \in 1..Len(stream)
  BY TaskEntry DEF Inv
<1>2. Accounted(Key(stream[t.id]), 1)
  BY <1>1 DEF Inv, NoMessageLost
<1> QED BY <1>2 DEF Accounted, Settled, Owed, SettledKeys

\* A step that keeps what is held, and settles at most the delivery of a task.
LEMMA KeepsPromise ==
    ASSUME TypeOK, TypeOK', Keeps,
           \/ SettledKeys' = SettledKeys
           \/ /\ UNCHANGED queueVars \/ Held' = Held
              /\ \E k \in Endpoints \X Messages : /\ k \in Owed \cup SettledKeys
                                                  /\ SettledKeys' = SettledKeys \cup {k}
    PROVE  Promise!PromiseNext
<1>1. CASE SettledKeys' = SettledKeys
  <2>1. Owed' \in SUBSET (Endpoints \X Messages)
    <3>1. Held' \subseteq Payload
      BY DEF Held, Unread, PendingIds, TypeOK, Pending
    <3> QED BY <3>1 DEF Owed, Key, Payload
  <2>2. Owed' = Owed \cup Owed'
    BY DEF Keeps, Owed
  <2> QED BY <1>1, <2>1, <2>2 DEF Promise!PromiseNext, Promise!Accept, Owed, SettledKeys
<1>2. ASSUME NEW k \in Endpoints \X Messages, k \in Owed \cup SettledKeys,
             SettledKeys' = SettledKeys \cup {k}, Owed' = Owed
      PROVE  Promise!PromiseNext
  BY <1>2 DEF Promise!PromiseNext, Promise!Settle, Owed, SettledKeys
<1>3. UNCHANGED queueVars \/ Held' = Held => Owed' = Owed
  BY DEF queueVars, Owed, Held, Unread, PendingIds
<1> QED BY <1>1, <1>2, <1>3

LEMMA AckKeepsPromise ==
    ASSUME TypeOK, TypeOK', TasksHandOn, NEW t \in tasks, ack(t)
    PROVE  Promise!PromiseNext
<1>1. PICK k \in Endpoints \X Messages : k = Key(stream[t.id])
  BY TaskEntry DEF Key, Payload
<1>2. SettledKeys' = SettledKeys /\ stream' = stream
  BY DEF ack, SettledKeys
<1>3. Held' \subseteq Held /\ \A q \in Held : q # stream[t.id] => q \in Held'
  BY DEF ack, Held, Unread, PendingIds
<1>4. Owed' \subseteq Owed /\ Owed \subseteq Owed' \cup {k}
  BY <1>1, <1>3 DEF Owed
<1>5. CASE k \in Owed'
  <2>1. Owed' = Owed \cup {}
    BY <1>4, <1>5
  <2>2. Promise!Accept({})
    BY <1>2, <2>1 DEF Promise!Accept, Owed, SettledKeys
  <2> QED BY <2>2 DEF Promise!PromiseNext
<1>6. CASE k \notin Owed'
  <2>1. Accounted(Key(stream[t.id]), stream[t.id].attempt + 1)'
    BY AckKeepsAccounts
  <2>2. k \in SettledKeys'
    BY <1>1, <1>2, <1>6, <2>1 DEF Accounted, Settled, Owed, SettledKeys
  <2>3. Owed' = Owed \ {k}
    BY <1>4, <1>6
  <2> QED BY <1>2, <2>2, <2>3 DEF Promise!PromiseNext, Promise!Forget, Owed, SettledKeys
<1> QED BY <1>5, <1>6

LEMMA NextKeepsPromise ==
    ASSUME Inv, [Next]_vars
    PROVE  Promise!PromiseNext
<1> USE DEF Inv
<1>1. TypeOK'
  BY TypeNext
<1>2. CASE \E t \in tasks : ack(t)
  BY <1>1, <1>2, AckKeepsPromise
<1>3. CASE ~\E t \in tasks : ack(t)
  <2>1. Keeps
    BY <1>3, OnlyAckDrops
  <2>2. CASE received' = received /\ dlq' = dlq
    BY <1>1, <2>1, <2>2, KeepsPromise DEF SettledKeys
  <2>3. ASSUME NEW t \in tasks, Handle(t) \/ move_to_dlq(t) PROVE Promise!PromiseNext
    <3>1. PICK k \in Endpoints \X Messages : k = Key(stream[t.id])
      BY TaskEntry DEF Key, Payload
    <3>2. k \in Owed \cup SettledKeys
      BY <3>1, TaskIsOwed
    <3>3. CASE Handle(t)
      <4>1. UNCHANGED queueVars /\ (received' = received \/ received' = received \cup {k})
        BY <3>1, <3>3 DEF Handle, send_once
      <4>2. SettledKeys' = SettledKeys \/ SettledKeys' = SettledKeys \cup {k}
        BY <4>1 DEF SettledKeys, queueVars
      <4> QED BY <1>1, <2>1, <3>2, <4>1, <4>2, KeepsPromise
    <3>4. CASE move_to_dlq(t)
      <4>1. Held' = Held
        BY <3>4 DEF move_to_dlq, Held, Unread, PendingIds
      <4>2. SettledKeys' = SettledKeys \cup {k}
        BY <3>1, <3>4 DEF move_to_dlq, SettledKeys
      <4> QED BY <1>1, <2>1, <3>2, <4>1, <4>2, KeepsPromise
    <3> QED BY <2>3, <3>3, <3>4
  <2>4. CASE Emitter \/ Admin \/ UNCHANGED vars
    BY <2>2, <2>4 DEF Emitter, EmitLookup, Emit, EmitFail, Admin, Disable, Reactivate, Delete,
                      vars, queueVars
  <2>5. ASSUME NEW w \in Workers, Loop(w) PROVE received' = received /\ dlq' = dlq
    BY <2>5 DEF Loop, PromoteRead, PromoteExec, PromoteFail, claim_stale, read, Crash, Restart,
                queueVars
  <2>6. ASSUME NEW t \in tasks, Dispatch(t), ~Handle(t), ~move_to_dlq(t)
        PROVE  received' = received /\ dlq' = dlq
    BY <2>6 DEF Dispatch, Commit, record, HandlerRaises, enqueue_delayed, ack, ReconcileFails,
                queueVars
  <2> QED BY <2>2, <2>3, <2>4, <2>5, <2>6 DEF Next
<1> QED BY <1>2, <1>3

\* The emitter, the queue, the workers and the handler together implement
\* DeliveryPromise: a delivery that was accepted is owed until it is settled.
THEOREM QueueKeepsPromise == Spec => ImplementsPromise
<1>1. Init => Promise!PromiseInit
  BY DEF Init, Promise!PromiseInit, Held, Unread, PendingIds
<1>2. ASSUME Inv, [Next]_vars PROVE [Promise!PromiseNext]_(Promise!promiseVars)
  BY <1>2, NextKeepsPromise
<1> QED BY <1>1, <1>2, InvInit, InvNext, PTL DEF Spec, ImplementsPromise, Promise!PromiseSpec
=============================================================================
