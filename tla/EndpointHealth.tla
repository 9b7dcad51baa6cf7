--------------------------- MODULE EndpointHealth ---------------------------
(***************************************************************************)
(* One webhook_endpoints row and everybody who writes to it: deliveries    *)
(* that record their outcome (services/webhooks/delivery_handler.py), the  *)
(* circuit breaker's sweep (workers/webhook_circuit_breaker.py), and       *)
(* administrators who create, pause, reactivate or delete the endpoint or  *)
(* rotate its signing secret (api/v1/endpoints/webhooks.py); the           *)
(* statements are those of db/repositories/webhook_endpoint.py.            *)
(*                                                                         *)
(* A transaction of one UPDATE is one step; a SELECT and the UPDATE that   *)
(* uses its result are two, under READ COMMITTED.  A time stamp is kept as *)
(* the time since, or until, so that the clock has no bound: `Tick` ages   *)
(* what is past and shortens what is to come.                              *)
(***************************************************************************)
EXTENDS Integers, FiniteSets

CONSTANTS
    Deliveries,  \* deliveries to the endpoint that overlap
    Sweepers,    \* processes whose scheduler runs the sweep
    Admins,      \* requests that rotate the secret at a time
    Secrets,     \* values of secret_enc
    Threshold,   \* webhook_circuit_breaker_hours
    LeaseTTL,    \* CIRCUIT_BREAKER_LEASE_TTL
    Grace,       \* grace_hours of a rotation
    None         \* no failure, no selection, no snapshot

ASSUME EndpointAssumption ==
    /\ Threshold \in Nat \ {0}
    /\ LeaseTTL \in Nat \ {0}
    /\ Grace \in Nat \ {0}
    /\ None \notin Nat \cup Secrets
    /\ Secrets # {}

VARIABLES
    endpoint,          \* absent, generic (signed), connector, deleted
    disabled,
    first_failure_at,  \* time since, at most Threshold; or None
    secret,            \* secret_enc
    old_secrets,       \* old_secrets[s]: time until s expires, 0 if it is not listed
    flight,            \* flight[d]: idle, or waiting for the receiver's answer
    lease,             \* time until the lease in Redis expires, 0 if there is none
    sweep,             \* sweep[p]: idle, running, or stale: selected the endpoint
    snapshot,          \* snapshot[a]: the row a rotation has read, or None
    recovered,         \* history: time since the last success, reactivation or
                       \* creation, at most Threshold
    promised           \* history: promised[s]: time s is still to be honoured

rowVars == <<endpoint, disabled, first_failure_at>>
secretVars == <<secret, old_secrets, snapshot, promised>>
sweepVars == <<lease, sweep>>
vars == <<endpoint, disabled, first_failure_at, secret, old_secrets, flight, lease, sweep,
          snapshot, recovered, promised>>

Later(t) == IF t = None \/ t = Threshold THEN t ELSE t + 1
Sooner(t) == IF t = 0 THEN 0 ELSE t - 1

Tick ==
    /\ first_failure_at' = Later(first_failure_at)
    /\ recovered' = Later(recovered)
    /\ lease' = Sooner(lease)
    /\ old_secrets' = [s \in Secrets |-> Sooner(old_secrets[s])]
    /\ promised' = [s \in Secrets |-> Sooner(promised[s])]
    /\ snapshot' = [a \in Admins |->
                       IF snapshot[a] = None THEN None
                       ELSE [snapshot[a] EXCEPT !.old = [s \in Secrets |-> Sooner(@[s])]]]
    /\ UNCHANGED <<endpoint, disabled, secret, flight, sweep>>

\* _get_owned_endpoint_or_404; an UPDATE by id of a deleted row changes nothing.
Exists == endpoint \in {"generic", "connector"}
-----------------------------------------------------------------------------
(* A delivery *)

\* _handle loads the row and sends, if the endpoint is not disabled.
Send(d) ==
    /\ flight[d] = "idle"
    /\ Exists /\ ~disabled
    /\ flight' = [flight EXCEPT ![d] = "waiting"]
    /\ UNCHANGED <<recovered, rowVars, secretVars, sweepVars>>

\* Mutant of record_success: the timer is left running.
record_success_KeepsTimer(d) ==
    /\ flight[d] = "waiting"
    /\ flight' = [flight EXCEPT ![d] = "idle"]
    /\ recovered' = 0
    /\ UNCHANGED <<rowVars, secretVars, sweepVars>>

\* A 2xx answer clears the timer, whatever the row has become meanwhile.
record_success(d) ==
    /\ flight[d] = "waiting"
    /\ flight' = [flight EXCEPT ![d] = "idle"]
    /\ first_failure_at' = None
    /\ recovered' = 0
    /\ UNCHANGED <<endpoint, disabled, secretVars, sweepVars>>

\* Mutant of record_failure: every failure restarts the timer.
record_failure_Restarts(d) ==
    /\ flight[d] = "waiting"
    /\ flight' = [flight EXCEPT ![d] = "idle"]
    /\ first_failure_at' = IF Exists THEN 0 ELSE first_failure_at
    /\ UNCHANGED <<endpoint, disabled, recovered, secretVars, sweepVars>>

\* Any other answer starts the timer, if it is not running.
record_failure(d) ==
    /\ flight[d] = "waiting"
    /\ flight' = [flight EXCEPT ![d] = "idle"]
    /\ first_failure_at' = IF Exists /\ first_failure_at = None THEN 0 ELSE first_failure_at
    /\ UNCHANGED <<endpoint, disabled, recovered, secretVars, sweepVars>>

\* The handler ended without a record: its transaction failed.
Abandon(d) ==
    /\ flight[d] = "waiting"
    /\ flight' = [flight EXCEPT ![d] = "idle"]
    /\ UNCHANGED <<recovered, rowVars, secretVars, sweepVars>>
-----------------------------------------------------------------------------
(* run_circuit_breaker_sweep *)

\* _acquire_lease: SET NX EX.  A process that does not get the lease skips.
_acquire_lease(p) ==
    /\ sweep[p] = "idle"
    /\ lease = 0
    /\ lease' = LeaseTTL
    /\ sweep' = [sweep EXCEPT ![p] = "running"]
    /\ UNCHANGED <<flight, recovered, rowVars, secretVars>>

\* Redis failed: the sweep runs without the lease.
LeaseFails(p) ==
    /\ sweep[p] = "idle"
    /\ sweep' = [sweep EXCEPT ![p] = "running"]
    /\ UNCHANGED <<flight, lease, recovered, rowVars, secretVars>>

\* should_disable, as the WHERE clauses have it.
should_disable == first_failure_at # None /\ first_failure_at >= Threshold

\* disable_stale, its SELECT.
SelectStale(p) ==
    /\ sweep[p] = "running"
    /\ sweep' = [sweep EXCEPT ![p] = IF should_disable /\ ~disabled THEN "stale" ELSE "idle"]
    /\ UNCHANGED <<flight, lease, recovered, rowVars, secretVars>>

\* disable_stale, its UPDATE by id, and the commit.
DisableStale(p) ==
    /\ sweep[p] = "stale"
    /\ sweep' = [sweep EXCEPT ![p] = "idle"]
    /\ disabled' = (Exists \/ disabled)
    /\ UNCHANGED <<endpoint, flight, lease, first_failure_at, recovered, secretVars>>

\* The sweep failed or its process died; the lease stays until it expires.
SweepFails(p) ==
    /\ sweep[p] # "idle"
    /\ sweep' = [sweep EXCEPT ![p] = "idle"]
    /\ UNCHANGED <<flight, lease, recovered, rowVars, secretVars>>
-----------------------------------------------------------------------------
(* Administrators *)

\* The row of a new endpoint; a connector's secret is its ingest token.
create(kind, s) ==
    /\ endpoint' = kind
    /\ secret' = s
    /\ recovered' = 0
    /\ UNCHANGED <<disabled, first_failure_at, old_secrets, snapshot, promised, flight, sweepVars>>

create_webhook(kind, s) == endpoint = "absent" /\ create(kind, s)

pause ==
    /\ disabled' = TRUE
    /\ UNCHANGED <<endpoint, first_failure_at, flight, recovered, secretVars, sweepVars>>

pause_webhook == Exists /\ pause

reactivate ==
    /\ disabled' = FALSE
    /\ first_failure_at' = None
    /\ recovered' = 0
    /\ UNCHANGED <<endpoint, flight, secretVars, sweepVars>>

reactivate_webhook == Exists /\ reactivate

\* The row goes, with its timer and its old secrets; what is under way goes on.
delete_webhook ==
    /\ Exists
    /\ endpoint' = "deleted"
    /\ disabled' = FALSE
    /\ first_failure_at' = None
    /\ old_secrets' = [s \in Secrets |-> 0]
    /\ promised' = [s \in Secrets |-> 0]
    /\ UNCHANGED <<secret, snapshot, flight, recovered, sweepVars>>

\* rotate_webhook_secret reads the row once, to check who owns it and that it
\* is no connector.
ReadForRotation(a) ==
    /\ snapshot[a] = None
    /\ endpoint = "generic"
    /\ snapshot' = [snapshot EXCEPT ![a] = [secret |-> secret, old |-> old_secrets]]
    /\ UNCHANGED <<secret, old_secrets, promised, flight, recovered, rowVars, sweepVars>>

\* token_urlsafe has not returned this secret before.
Fresh(new) ==
    /\ new # secret /\ old_secrets[new] = 0 /\ promised[new] = 0
    /\ \A a \in Admins : snapshot[a] # None => new # snapshot[a].secret /\ snapshot[a].old[new] = 0

\* Mutant of rotate_secret: earlier old secrets are not kept.
rotate_secret_ForgetsOlder(a, new) ==
    /\ snapshot[a] # None
    /\ Exists
    /\ Fresh(new)
    /\ secret' = new
    /\ old_secrets' = [s \in Secrets |-> IF s = snapshot[a].secret THEN Grace ELSE 0]
    /\ promised' = [promised EXCEPT ![secret] = Grace]
    /\ snapshot' = [snapshot EXCEPT ![a] = None]
    /\ UNCHANGED <<flight, recovered, rowVars, sweepVars>>

\* rotate_secret: the secret that was read joins the old ones that were read and
\* have not expired, and a fresh one takes its place.
rotate_secret(a, new) ==
    /\ snapshot[a] # None
    /\ Exists
    /\ Fresh(new)
    /\ secret' = new
    /\ old_secrets' = [snapshot[a].old EXCEPT ![snapshot[a].secret] = Grace]
    /\ promised' = [promised EXCEPT ![secret] = Grace]
    /\ snapshot' = [snapshot EXCEPT ![a] = None]
    /\ UNCHANGED <<flight, recovered, rowVars, sweepVars>>

\* The request failed before its commit, or the row is gone.
RotationFails(a) ==
    /\ snapshot[a] # None
    /\ snapshot' = [snapshot EXCEPT ![a] = None]
    /\ UNCHANGED <<secret, old_secrets, promised, flight, recovered, rowVars, sweepVars>>
-----------------------------------------------------------------------------
Init ==
    /\ endpoint = "absent"
    /\ disabled = FALSE
    /\ first_failure_at = None
    /\ secret \in Secrets
    /\ old_secrets = [s \in Secrets |-> 0]
    /\ flight = [d \in Deliveries |-> "idle"]
    /\ lease = 0
    /\ sweep = [p \in Sweepers |-> "idle"]
    /\ snapshot = [a \in Admins |-> None]
    /\ recovered = 0
    /\ promised = [s \in Secrets |-> 0]

Delivery(d) ==
    Send(d) \/ record_success(d) \/ record_failure(d) \/ Abandon(d)
Sweep(p) ==
    \/ _acquire_lease(p) \/ LeaseFails(p)
    \/ SelectStale(p) \/ DisableStale(p) \/ SweepFails(p)
Rotate(a) == ReadForRotation(a) \/ (\E new \in Secrets : rotate_secret(a, new)) \/ RotationFails(a)

Next ==
    \/ Tick
    \/ \E d \in Deliveries : Delivery(d)
    \/ \E p \in Sweepers : Sweep(p)
    \/ \E kind \in {"generic", "connector"}, s \in Secrets : create_webhook(kind, s)
    \/ pause_webhook \/ reactivate_webhook \/ delete_webhook
    \/ \E a \in Admins : Rotate(a)

Spec == Init /\ [][Next]_vars

\* Time passes; the scheduler keeps starting sweeps, one of which gets a lease
\* that has expired; sweeps may fail, but not every time.  Nothing obliges a
\* delivery or an administrator to act, and nobody relies on Redis failing.
FairSpec ==
    /\ Spec
    /\ WF_vars(Tick)
    /\ WF_vars(\E p \in Sweepers : _acquire_lease(p))
    /\ \A p \in Sweepers : SF_vars(SelectStale(p)) /\ SF_vars(DisableStale(p))
-----------------------------------------------------------------------------
(* Properties *)

Ages == 0..Threshold

\* The types of the variables.
TypeOK ==
    /\ endpoint \in {"absent", "generic", "connector", "deleted"}
    /\ disabled \in BOOLEAN
    /\ first_failure_at \in Ages \cup {None}
    /\ secret \in Secrets
    /\ old_secrets \in [Secrets -> 0..Grace]
    /\ flight \in [Deliveries -> {"idle", "waiting"}]
    /\ lease \in 0..LeaseTTL
    /\ sweep \in [Sweepers -> {"idle", "running", "stale"}]
    /\ snapshot \in [Admins -> [secret : Secrets, old : [Secrets -> 0..Grace]] \cup {None}]
    /\ recovered \in Ages
    /\ promised \in [Secrets -> 0..Grace]

\* The timer measures one outage: it never reaches back behind the last
\* delivery that succeeded or the last reactivation, whatever deliveries were
\* under way (record_failure, record_success, reactivate).
TimerWithinOutage == first_failure_at # None => first_failure_at <= recovered

\* Deliveries are signed with s.
Honoured(s) == s = secret \/ old_secrets[s] > 0

\* "A receiver that has not yet updated its verifier code keeps validating
\* during the grace window": a secret that was replaced is signed with until its
\* window ends (rotate_secret).
SecretsOverlap == \A s \in Secrets : promised[s] > 0 => Honoured(s)

\* The row has been rotated since the rotation of administrator a read it.
Overtaken(a) == snapshot[a] # None /\ snapshot[a].secret # secret

\* What overlapping rotations can do to that promise, and nothing else can: a
\* secret stops being honoured inside its grace window only in the write of a
\* rotation that another one has overtaken; expiry, pruning, pauses, deliveries,
\* sweeps and rotations that read the current row never drop one (rotate_secret).
OnlyOverlapDropsSecrets ==
    [][\A s \in Secrets :
          Honoured(s) /\ promised'[s] > 0 /\ ~Honoured(s)'
              => \E a \in Admins : Overtaken(a) /\ snapshot'[a] = None]_vars

\* An endpoint that fails and never recovers does not go on for ever: some
\* sweep disables it, flapping between failures or not, whichever process got
\* the lease or died with it.
AbandonedIsRetired ==
    first_failure_at # None ~> (first_failure_at = None \/ disabled)

\* The row is well formed and its timer measures one outage, for every order of
\* deliveries, sweeps and requests, overlapping rotations included.
RowConsistent == TypeOK /\ TimerWithinOutage

\* The sweep skips healthy endpoints: it disables none whose timer is not
\* running (disable_stale).
HealthyNotDisabled ==
    [][\A p \in Sweepers : DisableStale(p) => disabled \/ first_failure_at # None]_vars
=============================================================================
