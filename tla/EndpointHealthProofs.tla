------------------------ MODULE EndpointHealthProofs ------------------------
(* Proofs about EndpointHealth, for every value of its constants. *)
EXTENDS EndpointHealth, TLAPS

USE EndpointAssumption DEF EndpointAssumption

-----------------------------------------------------------------------------
(* The timer.  TimerWithinOutage is not inductive: a creation resets the     *)
(* history of recoveries, so that no timer may be running before it.         *)

NoTimerYet == endpoint = "absent" => first_failure_at = None

Timer == TypeOK /\ TimerWithinOutage /\ NoTimerYet

\* Times since, and times until, stay within their bounds.
LEMMA LaterAge ==
    ASSUME NEW t \in Ages \cup {None}
    PROVE  /\ Later(t) \in Ages \cup {None}
           /\ t # None => Later(t) \in Ages /\ Later(t) # None
           /\ t = None => Later(t) = None
BY DEF Later, Ages

LEMMA SoonerTime ==
    ASSUME NEW n \in Nat, NEW t \in 0..n
    PROVE  Sooner(t) \in 0..n /\ (Sooner(t) > 0 => t > 0)
BY DEF Sooner

LEMMA TimerInit == Init => Timer
<1> SUFFICES ASSUME Init PROVE Timer
  OBVIOUS
<1>1. 0 \in Ages /\ 0 \in 0..Grace /\ 0 \in 0..LeaseTTL
  BY DEF Ages
<1>2. disabled \in BOOLEAN
  BY DEF Init
<1>3. /\ first_failure_at \in Ages \cup {None} /\ lease \in 0..LeaseTTL
      /\ recovered \in Ages
  BY <1>1 DEF Init
<1>4. /\ old_secrets \in [Secrets -> 0..Grace]
      /\ promised \in [Secrets -> 0..Grace]
  BY <1>1 DEF Init
<1>5. snapshot \in [Admins -> [secret : Secrets, old : [Secrets -> 0..Grace]] \cup {None}]
  BY DEF Init
<1>6. /\ flight \in [Deliveries -> {"idle", "waiting"}]
      /\ sweep \in [Sweepers -> {"idle", "running", "stale"}]
      /\ endpoint \in {"absent", "generic", "connector", "deleted"} /\ secret \in Secrets
  BY DEF Init
<1>7. TypeOK
  BY <1>2, <1>3, <1>4, <1>5, <1>6 DEF TypeOK
<1> QED BY <1>7 DEF Init, Timer, TimerWithinOutage, NoTimerYet

LEMMA TimerTick == ASSUME Timer, Tick PROVE Timer'
<1> USE DEF Timer
<1>1. /\ first_failure_at' \in Ages \cup {None} /\ recovered' \in Ages
      /\ recovered \in Ages /\ first_failure_at \in Ages \cup {None}
  BY LaterAge DEF Tick, TypeOK, Ages
<1>2. lease' \in 0..LeaseTTL
  BY SoonerTime DEF Tick, TypeOK
<1>3. old_secrets' \in [Secrets -> 0..Grace] /\ promised' \in [Secrets -> 0..Grace]
  BY SoonerTime DEF Tick, TypeOK
<1>4. snapshot' \in [Admins -> [secret : Secrets, old : [Secrets -> 0..Grace]] \cup {None}]
  <2> DEFINE older(x) == [x EXCEPT !.old = [s \in Secrets |-> Sooner(@[s])]]
  <2>1. ASSUME NEW x \in [secret : Secrets, old : [Secrets -> 0..Grace]]
        PROVE  older(x) \in [secret : Secrets, old : [Secrets -> 0..Grace]]
    <3>1. [s \in Secrets |-> Sooner(x.old[s])] \in [Secrets -> 0..Grace]
      BY SoonerTime
    <3> QED BY <3>1
  <2>2. snapshot' = [a \in Admins |-> IF snapshot[a] = None THEN None ELSE older(snapshot[a])]
    BY DEF Tick
  <2> HIDE DEF older
  <2> QED BY <2>1, <2>2 DEF TypeOK
<1>5. TypeOK'
  BY <1>1, <1>2, <1>3, <1>4 DEF Tick, TypeOK
<1>6. TimerWithinOutage'
  BY <1>1 DEF Tick, TimerWithinOutage, Later, Ages
<1>7. NoTimerYet'
  BY LaterAge DEF Tick, NoTimerYet, TypeOK
<1> QED BY <1>5, <1>6, <1>7

LEMMA TimerDelivery == ASSUME Timer, NEW d \in Deliveries, Delivery(d) PROVE Timer'
BY DEF Timer, Delivery, Send, record_success, record_failure, Abandon, TypeOK,
       TimerWithinOutage, NoTimerYet, Exists, Ages, rowVars, secretVars, sweepVars

LEMMA TimerSweep == ASSUME Timer, NEW p \in Sweepers, Sweep(p) PROVE Timer'
<1> USE DEF Timer, TypeOK, TimerWithinOutage, NoTimerYet, rowVars, secretVars
<1>1. CASE _acquire_lease(p)
  BY <1>1 DEF _acquire_lease
<1>2. CASE LeaseFails(p) \/ SelectStale(p) \/ SweepFails(p)
  BY <1>2 DEF LeaseFails, SelectStale, SweepFails
<1>3. CASE DisableStale(p)
  BY <1>3 DEF DisableStale
<1> QED BY <1>1, <1>2, <1>3 DEF Sweep

LEMMA TimerAdmin ==
    ASSUME Timer,
           \/ \E kind \in {"generic", "connector"}, s \in Secrets : create_webhook(kind, s)
           \/ pause_webhook \/ reactivate_webhook \/ delete_webhook
    PROVE  Timer'
<1> USE DEF Timer, secretVars, sweepVars
<1>1. 0 \in Ages /\ 0 \in 0..Grace
  BY DEF Ages
<1>2. ASSUME NEW kind \in {"generic", "connector"}, NEW s \in Secrets, create_webhook(kind, s)
      PROVE  Timer'
  BY <1>1, <1>2 DEF create_webhook, create, TypeOK, TimerWithinOutage, NoTimerYet
<1>3. CASE pause_webhook
  <2>1. disabled' \in BOOLEAN
    BY <1>3 DEF pause_webhook, pause
  <2> QED BY <1>3, <2>1 DEF pause_webhook, pause, TypeOK, TimerWithinOutage, NoTimerYet
<1>4. CASE reactivate_webhook
  <2>1. disabled' \in BOOLEAN /\ first_failure_at' = None
    BY <1>4 DEF reactivate_webhook, reactivate
  <2> QED BY <1>1, <1>4, <2>1 DEF reactivate_webhook, reactivate, TypeOK, TimerWithinOutage,
                                  NoTimerYet
<1>5. CASE delete_webhook
  <2>1. disabled' \in BOOLEAN /\ first_failure_at' = None
    BY <1>5 DEF delete_webhook
  <2>2. old_secrets' \in [Secrets -> 0..Grace] /\ promised' \in [Secrets -> 0..Grace]
    BY <1>1, <1>5 DEF delete_webhook
  <2>3. TypeOK'
    BY <1>5, <2>1, <2>2 DEF delete_webhook, TypeOK
  <2> QED BY <2>1, <2>3 DEF TimerWithinOutage, NoTimerYet
<1> QED BY <1>2, <1>3, <1>4, <1>5

LEMMA TimerRotate == ASSUME Timer, NEW a \in Admins, Rotate(a) PROVE Timer'
<1> USE DEF Timer, TypeOK, TimerWithinOutage, NoTimerYet, rowVars, sweepVars
<1>1. CASE ReadForRotation(a)
  <2>1. [secret |-> secret, old |-> old_secrets] \in [secret : Secrets, old : [Secrets -> 0..Grace]]
    OBVIOUS
  <2> QED BY <1>1, <2>1 DEF ReadForRotation
<1>2. ASSUME NEW new \in Secrets, rotate_secret(a, new) PROVE Timer'
  <2>1. snapshot[a] \in [secret : Secrets, old : [Secrets -> 0..Grace]]
    BY <1>2 DEF rotate_secret
  <2>2. old_secrets' \in [Secrets -> 0..Grace] /\ promised' \in [Secrets -> 0..Grace]
    BY <1>2, <2>1 DEF rotate_secret
  <2> QED BY <1>2, <2>2 DEF rotate_secret
<1>3. CASE RotationFails(a)
  BY <1>3 DEF RotationFails
<1> QED BY <1>1, <1>2, <1>3 DEF Rotate

LEMMA TimerNext == Timer /\ [Next]_vars => Timer'
<1> SUFFICES ASSUME Timer, [Next]_vars PROVE Timer'
  OBVIOUS
<1>1. CASE UNCHANGED vars
  BY <1>1 DEF Timer, TypeOK, TimerWithinOutage, NoTimerYet, vars
<1> QED BY <1>1, TimerTick, TimerDelivery, TimerSweep, TimerAdmin, TimerRotate DEF Next

\* For any number of deliveries under way, of sweeping processes and of
\* administrators, overlapping rotations included: the row is well formed and the
\* failure timer never reaches back behind a success, a reactivation or the
\* creation of the endpoint.
THEOREM TimerMeasuresOneOutage == Spec => []RowConsistent
<1>1. Timer => RowConsistent
  BY DEF Timer, RowConsistent
<1> QED BY <1>1, TimerInit, TimerNext, PTL DEF Spec

-----------------------------------------------------------------------------
(* Rotated secrets.  A rotation writes what it read.  As long as the current *)
(* secret is the one it read, the rest of what it read is current, too; and  *)
(* a list, in the row or in a snapshot, keeps what it lists for as long as   *)
(* it is promised, so that the only promises lost are those a list lacks.    *)

Snapshots == [secret : Secrets, old : [Secrets -> 0..Grace]]

\* A list of old secrets that cuts no promise short and does not hold the secret
\* in use.
Keeps(old, using, owed) ==
    /\ old[using] = 0
    /\ \A s \in Secrets : old[s] > 0 => owed[s] <= old[s]

\* Nothing has been promised or read before the endpoint is created.
NothingYet ==
    endpoint = "absent" => /\ \A s \in Secrets : promised[s] = 0 /\ old_secrets[s] = 0
                           /\ \A a \in Admins : snapshot[a] = None

SnapshotsSound ==
    \A a \in Admins : snapshot[a] # None =>
        /\ Keeps(snapshot[a].old, secret, promised)
        /\ Exists /\ snapshot[a].secret = secret => snapshot[a].old = old_secrets

Inv == Timer /\ NothingYet /\ Keeps(old_secrets, secret, promised) /\ SnapshotsSound

LEMMA InvInit == Init => Inv
<1> SUFFICES ASSUME Init PROVE Inv
  OBVIOUS
<1>1. NothingYet /\ SnapshotsSound
  BY DEF Init, NothingYet, SnapshotsSound
<1>2. Keeps(old_secrets, secret, promised)
  BY DEF Init, Keeps
<1> QED BY <1>1, <1>2, TimerInit DEF Inv

\* Time shortens a promise and the list that keeps it alike.
LEMMA KeepsTick ==
    ASSUME NEW using \in Secrets, NEW old \in [Secrets -> 0..Grace],
           NEW owed \in [Secrets -> 0..Grace], Keeps(old, using, owed)
    PROVE  Keeps([s \in Secrets |-> Sooner(old[s])], using, [s \in Secrets |-> Sooner(owed[s])])
BY DEF Keeps, Sooner

LEMMA InvTick ==
    ASSUME Inv, Tick
    PROVE  NothingYet' /\ Keeps(old_secrets, secret, promised)' /\ SnapshotsSound'
<1> USE DEF Inv, Timer
<1>1. /\ secret \in Secrets /\ secret' = secret /\ endpoint' = endpoint
      /\ old_secrets' = [s \in Secrets |-> Sooner(old_secrets[s])]
      /\ promised' = [s \in Secrets |-> Sooner(promised[s])]
      /\ old_secrets \in [Secrets -> 0..Grace] /\ promised \in [Secrets -> 0..Grace]
  BY DEF Tick, TypeOK
<1>2. Keeps(old_secrets, secret, promised)'
  BY <1>1, KeepsTick
<1>3. NothingYet'
  BY <1>1 DEF NothingYet, Tick, Sooner
<1>4. SnapshotsSound'
  <2> SUFFICES ASSUME NEW a \in Admins, snapshot'[a] # None
               PROVE  /\ Keeps(snapshot'[a].old, secret', promised')
                      /\ Exists' /\ snapshot'[a].secret = secret'
                             => snapshot'[a].old = old_secrets'
    BY DEF SnapshotsSound
  <2>1. snapshot[a] # None /\ snapshot[a] \in Snapshots
    BY DEF Tick, TypeOK, Snapshots
  <2>2. snapshot'[a] = [snapshot[a] EXCEPT !.old = [s \in Secrets |-> Sooner(@[s])]]
    BY <2>1 DEF Tick
  <2>3. /\ snapshot'[a].secret = snapshot[a].secret
        /\ snapshot'[a].old = [s \in Secrets |-> Sooner(snapshot[a].old[s])]
        /\ snapshot[a].old \in [Secrets -> 0..Grace]
    BY <2>1, <2>2 DEF Snapshots
  <2>4. /\ Keeps(snapshot[a].old, secret, promised)
        /\ Exists /\ snapshot[a].secret = secret => snapshot[a].old = old_secrets
    BY <2>1 DEF SnapshotsSound
  <2>5. Keeps(snapshot'[a].old, secret', promised')
    BY <1>1, <2>3, <2>4, KeepsTick
  <2> QED BY <1>1, <2>3, <2>4, <2>5 DEF Exists
<1> QED BY <1>2, <1>3, <1>4

\* A rotation leaves a list that keeps what it keeps, overtaken or not.
LEMMA InvRotate ==
    ASSUME Inv, NEW a \in Admins, Rotate(a)
    PROVE  NothingYet' /\ Keeps(old_secrets, secret, promised)' /\ SnapshotsSound'
<1> USE DEF Inv, Timer
<1>1. CASE ReadForRotation(a)
  <2>1. /\ snapshot' = [snapshot EXCEPT ![a] = [secret |-> secret, old |-> old_secrets]]
        /\ endpoint = "generic"
        /\ UNCHANGED <<endpoint, secret, old_secrets, promised>>
    BY <1>1 DEF ReadForRotation, rowVars
  <2>2. /\ \A b \in Admins \ {a} : snapshot'[b] = snapshot[b]
        /\ snapshot'[a].secret = secret /\ snapshot'[a].old = old_secrets
    BY <2>1 DEF TypeOK
  <2> QED BY <2>1, <2>2 DEF NothingYet, SnapshotsSound, Exists
<1>2. ASSUME NEW new \in Secrets, rotate_secret(a, new)
      PROVE  NothingYet' /\ Keeps(old_secrets, secret, promised)' /\ SnapshotsSound'
  <2>1. /\ snapshot[a] # None /\ Exists /\ Fresh(new) /\ secret' = new /\ endpoint' = endpoint
        /\ old_secrets' = [snapshot[a].old EXCEPT ![snapshot[a].secret] = Grace]
        /\ promised' = [promised EXCEPT ![secret] = Grace]
        /\ snapshot' = [snapshot EXCEPT ![a] = None]
    BY <1>2 DEF rotate_secret, rowVars
  <2>2. /\ snapshot[a] \in Snapshots /\ secret \in Secrets
        /\ promised \in [Secrets -> 0..Grace]
    BY <2>1 DEF TypeOK, Snapshots
  <2>3. Keeps(snapshot[a].old, secret, promised)
    BY <2>1 DEF SnapshotsSound
  <2>4. /\ new # secret
        /\ \A b \in Admins : snapshot[b] # None =>
               new # snapshot[b].secret /\ snapshot[b].old[new] = 0
    BY <2>1 DEF Fresh
  <2>5. Keeps(old_secrets', secret', promised')
    <3>1. old_secrets'[new] = 0
      BY <2>1, <2>2, <2>4 DEF Snapshots
    <3>2. ASSUME NEW s \in Secrets, old_secrets'[s] > 0 PROVE promised'[s] <= old_secrets'[s]
      <4>1. CASE s = snapshot[a].secret
        BY <2>1, <2>2, <4>1 DEF Snapshots
      <4>2. CASE s # snapshot[a].secret
        BY <2>1, <2>2, <2>3, <3>2, <4>2 DEF Snapshots, Keeps
      <4> QED BY <4>1, <4>2
    <3> QED BY <2>1, <3>1, <3>2 DEF Keeps
  <2>6. SnapshotsSound'
    <3> SUFFICES ASSUME NEW b \in Admins, snapshot'[b] # None
                 PROVE  /\ Keeps(snapshot'[b].old, secret', promised')
                        /\ snapshot'[b].secret # secret'
      BY DEF SnapshotsSound
    <3>1. snapshot'[b] = snapshot[b] /\ snapshot[b] # None
      BY <2>1 DEF TypeOK
    <3>2. Keeps(snapshot[b].old, secret, promised)
      BY <3>1 DEF SnapshotsSound
    <3>3. \A s \in Secrets : snapshot[b].old[s] > 0 => promised'[s] = promised[s]
      BY <2>1, <2>2, <3>2 DEF Keeps
    <3> QED BY <2>1, <2>4, <3>1, <3>2, <3>3 DEF Keeps
  <2>7. NothingYet'
    BY <2>1 DEF NothingYet, Exists
  <2> QED BY <2>5, <2>6, <2>7
<1>3. CASE RotationFails(a)
  <2>1. /\ snapshot' = [snapshot EXCEPT ![a] = None]
        /\ UNCHANGED <<endpoint, secret, old_secrets, promised>>
    BY <1>3 DEF RotationFails, rowVars
  <2>2. \A b \in Admins : snapshot'[b] \in {None, snapshot[b]}
    BY <2>1 DEF TypeOK
  <2> QED BY <2>1, <2>2 DEF NothingYet, SnapshotsSound, Exists
<1> QED BY <1>1, <1>2, <1>3 DEF Rotate

LEMMA InvDelete ==
    ASSUME Inv, delete_webhook
    PROVE  NothingYet' /\ Keeps(old_secrets, secret, promised)' /\ SnapshotsSound'
<1> USE DEF Inv, Timer
<1>1. /\ endpoint' = "deleted" /\ secret' = secret /\ secret \in Secrets /\ snapshot' = snapshot
      /\ old_secrets' = [s \in Secrets |-> 0] /\ promised' = [s \in Secrets |-> 0]
  BY DEF delete_webhook, TypeOK
<1>2. Keeps(old_secrets', secret', promised')
  BY <1>1 DEF Keeps
<1>3. ASSUME NEW a \in Admins, snapshot[a] # None
      PROVE  Keeps(snapshot[a].old, secret', promised')
  <2>1. snapshot[a].old \in [Secrets -> 0..Grace] /\ Keeps(snapshot[a].old, secret, promised)
    BY <1>3 DEF TypeOK, SnapshotsSound
  <2> QED BY <1>1, <2>1 DEF Keeps
<1> QED BY <1>1, <1>2, <1>3 DEF NothingYet, SnapshotsSound, Exists

LEMMA InvNext == Inv /\ [Next]_vars => Inv'
<1> SUFFICES ASSUME Inv, [Next]_vars
             PROVE  NothingYet' /\ Keeps(old_secrets, secret, promised)' /\ SnapshotsSound'
  BY TimerNext DEF Inv
<1>1. CASE UNCHANGED <<endpoint, secret, old_secrets, promised, snapshot>>
  BY <1>1 DEF Inv, NothingYet, SnapshotsSound, Exists
<1>2. ASSUME NEW d \in Deliveries, Delivery(d)
      PROVE  UNCHANGED <<endpoint, secret, old_secrets, promised, snapshot>>
  BY <1>2 DEF Delivery, Send, record_success, record_failure, Abandon, rowVars, secretVars
<1>3. ASSUME NEW p \in Sweepers, Sweep(p)
      PROVE  UNCHANGED <<endpoint, secret, old_secrets, promised, snapshot>>
  BY <1>3 DEF Sweep, _acquire_lease, LeaseFails, SelectStale, DisableStale, SweepFails,
              rowVars, secretVars
<1>4. ASSUME NEW kind \in {"generic", "connector"}, NEW s \in Secrets, create_webhook(kind, s)
      PROVE  NothingYet' /\ Keeps(old_secrets, secret, promised)' /\ SnapshotsSound'
  BY <1>4 DEF create_webhook, create, Inv, Timer, TypeOK, NothingYet, Keeps, SnapshotsSound
<1>5. CASE pause_webhook \/ reactivate_webhook
  BY <1>1, <1>5 DEF pause_webhook, pause, reactivate_webhook, reactivate, secretVars
<1>6. CASE UNCHANGED vars
  BY <1>1, <1>6 DEF vars
<1> QED BY <1>1, <1>2, <1>3, <1>4, <1>5, <1>6, InvTick, InvRotate, InvDelete DEF Next

-----------------------------------------------------------------------------
(* The step that loses a promise. *)

\* The step drops secret s inside its grace window.
Drops(s) == Honoured(s) /\ promised'[s] > 0 /\ ~Honoured(s)'

\* Only two kinds of step shorten the list: time, which shortens the promise as
\* well, and a rotation whose snapshot lacks what the row has.
LEMMA OnlyOvertakenDrop ==
    ASSUME Inv, [Next]_vars, NEW s \in Secrets, Drops(s)
    PROVE  \E a \in Admins : Overtaken(a) /\ snapshot'[a] = None
<1> USE DEF Inv, Timer
<1>1. ~ UNCHANGED <<secret, old_secrets>>
  BY DEF Drops, Honoured
<1>2. CASE Tick
  <2>1. /\ secret' = secret /\ old_secrets[s] \in 0..Grace /\ promised[s] \in 0..Grace
        /\ old_secrets'[s] = Sooner(old_secrets[s]) /\ promised'[s] = Sooner(promised[s])
    BY <1>2 DEF Tick, TypeOK
  <2>2. old_secrets[s] > 0 => promised[s] <= old_secrets[s]
    BY DEF Keeps
  <2> QED BY <2>1, <2>2 DEF Drops, Honoured, Sooner
<1>3. ASSUME NEW d \in Deliveries, Delivery(d) PROVE FALSE
  BY <1>1, <1>3 DEF Delivery, Send, record_success, record_failure, Abandon, rowVars, secretVars
<1>4. ASSUME NEW p \in Sweepers, Sweep(p) PROVE FALSE
  BY <1>1, <1>4 DEF Sweep, _acquire_lease, LeaseFails, SelectStale, DisableStale, SweepFails,
                    rowVars, secretVars
<1>5. ASSUME NEW kind \in {"generic", "connector"}, NEW t \in Secrets, create_webhook(kind, t)
      PROVE  FALSE
  BY <1>5 DEF create_webhook, create, NothingYet, Drops, TypeOK
<1>6. ~ (pause_webhook \/ reactivate_webhook)
  BY <1>1 DEF pause_webhook, pause, reactivate_webhook, reactivate, secretVars
<1>7. ~ delete_webhook
  BY DEF delete_webhook, Drops
<1>8. ASSUME NEW a \in Admins, Rotate(a)
      PROVE  Overtaken(a) /\ snapshot'[a] = None
  <2>1. PICK new \in Secrets : rotate_secret(a, new)
    BY <1>1, <1>8 DEF Rotate, ReadForRotation, RotationFails
  <2>2. /\ snapshot[a] # None /\ Exists /\ snapshot[a] \in Snapshots
        /\ old_secrets' = [snapshot[a].old EXCEPT ![snapshot[a].secret] = Grace]
        /\ snapshot' = [snapshot EXCEPT ![a] = None]
    BY <2>1 DEF rotate_secret, TypeOK, Snapshots
  <2>3. ASSUME snapshot[a].secret = secret PROVE FALSE
    <3>1. old_secrets' = [old_secrets EXCEPT ![secret] = Grace]
      BY <2>2, <2>3 DEF SnapshotsSound
    <3> QED BY <3>1 DEF Drops, Honoured, TypeOK
  <2> QED BY <2>2, <2>3 DEF Overtaken, TypeOK
<1>9. ~ UNCHANGED vars
  BY <1>1 DEF vars
<1> QED BY <1>2, <1>3, <1>4, <1>5, <1>6, <1>7, <1>8, <1>9 DEF Next

\* For any number of administrators, secrets and overlapping rotations, and with
\* deliveries, sweeps, pauses and the deletion in between: a secret is dropped
\* inside its grace window by the write of an overtaken rotation only; a rotation
\* that read the current row, and everything else, keeps every promise that still
\* holds.
THEOREM RotationsKeepPromises == Spec => OnlyOverlapDropsSecrets
<1>1. Inv /\ [Next]_vars =>
          [\A s \in Secrets :
               Honoured(s) /\ promised'[s] > 0 /\ ~Honoured(s)'
                   => \E a \in Admins : Overtaken(a) /\ snapshot'[a] = None]_vars
  BY OnlyOvertakenDrop DEF Drops
<1> QED BY <1>1, InvInit, InvNext, PTL DEF Spec, OnlyOverlapDropsSecrets
=============================================================================
