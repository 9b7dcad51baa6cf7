------------------------------ MODULE Gateway ------------------------------
(***************************************************************************)
(* A scan request from the rate limiter to its answer: the middleware      *)
(* (api/v1/middleware), the endpoints POST /v1/ai/request,                 *)
(* POST /v1/ai/scan-batch and POST /v1/chat/completions (endpoints/ai.py   *)
(* and proxy.py), the scan fan-out, the semantic cache and the provider    *)
(* call, while administrators change what the request depends on           *)
(* (module Tenancy).  What one scan decides is module Detection.           *)
(*                                                                         *)
(* A client is one request being served.  A Redis command, a group of SQL  *)
(* statements that reads one thing and a call of the provider are one step *)
(* each.  The scans of one request share nothing that changes: they are    *)
(* one step.  Requests of an administrator's key or of a signed-in user,   *)
(* debug output and metrics are left out.                                  *)
(***************************************************************************)
EXTENDS Tenancy

CONSTANTS
    Clients,    \* requests served at a time
    Requests,   \* request bodies, with their headers
    IdemKeys,   \* values of the Idempotency-Key header
    Replies,    \* texts a provider may answer with
    Scopes      \* bound: clients, requests, failures and other events of one behaviour

\* How the call of a provider ends.
Outcomes == {"BLOCKED", "TIMEOUT", "FAILED", "OUTPUT_BLOCKED", "SUCCESS"}

ASSUME GatewayAssumption ==
    /\ \A r \in Requests :
          /\ DOMAIN r = {"op", "items", "mode", "all", "idem", "address", "model"}
          /\ r.op \in {"scan", "execute", "batch", "proxy"}
          /\ r.items \in Seq([text : Texts, source : STRING, role : STRING])
          /\ r.op \in {"scan", "execute"} => Len(r.items) = 1
          /\ r.op = "batch" => r.items # <<>>
          /\ r.idem \in IdemKeys \cup {NoVal}
          /\ NoVal \notin {r} \cup {[r EXCEPT !.idem = i] : i \in IdemKeys}
    /\ Replies \subseteq Texts
    /\ NoVal \notin Texts \cup Outcomes \cup (Nat \X Parts)
    /\ \A s \in Scopes : s.clients \subseteq Clients /\ s.requests \subseteq Requests /\ s.faults \in Nat

\* Limits are numbers, and only the record and the bodies that have one set it.
ASSUME LimitAssumption ==
    /\ {Env.limit, Env.source_limit, Env.trial_limit} \subseteq Nat
    /\ "limit" \in DOMAIN Platform => "limit" \in DOMAIN Platform["limit"] /\ Platform["limit"].limit \in Nat
    /\ \A s \in DOMAIN Platform \ {"limit"} : "limit" \notin DOMAIN Platform[s]
    /\ \A b \in LimitBodies \cup Overrides : "limit" \in DOMAIN b => b.limit \in Nat
    /\ \A b \in ThresholdBodies \cup LayerBodies \cup JudgeBodies : "limit" \notin DOMAIN b

VARIABLES
    scope,    \* what occurs in this behaviour
    req,      \* req[c]: how far c's request is
    cache,    \* the semantic cache: the keys that hold an ALLOW response
    idem,     \* idem[<<k, i>>]: what idempotency key i holds for API key k
    bucket,   \* bucket[b]: units charged in the current rate-limit window
    scanned,  \* scanned[k]: units the engine scanned for API key k in this window
    faults,   \* failures so far
    cli       \* the command in front of the gateway, module Sdk

gatewayVars == <<scope, req, cache, idem, bucket, scanned, faults>>
vars == <<tenancyVars, gatewayVars, cli>>

Decisions == {"ALLOW", "SANITIZE", "BLOCK"}
Admitted == {"idem", "lookup", "handler", "overrides", "cache", "config", "scan", "provider",
             "output", "audit", "respond", "store"}
Phase == {"idle", "auth", "tenant", "tenant_store", "answered"} \cup Admitted

\* Why an answer carries no verdict: refused, too many requests, a server error,
\* which is the only one that is not stored for a retry, or a body that was
\* consumed and not sent.
NoAnswer == [kind |-> "none", decision |-> "none", output |-> NoVal, scores |-> FALSE,
             system |-> FALSE]
Refused == [NoAnswer EXCEPT !.kind = "refused"]
TooMany == [NoAnswer EXCEPT !.kind = "limited"]
Lost == [NoAnswer EXCEPT !.kind = "lost"]
ServerError == [NoAnswer EXCEPT !.kind = "error"]

\* The claim (a hash of the body) and the stored response, two Redis keys of
\* one lifetime each.  of: the body that response answers; foreign: it is not
\* the response of the request that holds the claim.
NoIdem == [body |-> NoVal, answer |-> NoAnswer, of |-> NoVal, foreign |-> FALSE]

\* target: the provider of a proxy call; outcome: its execution_status;
\* audited[i]: the audit row of input i; logged: the row of proxy_interactions.
NoReq == [pc |-> "idle", key |-> NoVal, body |-> NoVal, row |-> NoVal, status |-> NoVal,
          policy |-> NoVal, target |-> NoVal, results |-> <<>>, sent |-> <<>>, outcome |-> NoVal,
          answer |-> NoAnswer, audited |-> <<>>, logged |-> NoVal, events |-> 0, down |-> NoVal,
          hit |-> FALSE, late |-> FALSE, unmetered |-> FALSE, replay |-> NoIdem]

At(c, pc) == req[c].pc = pc
Goto(c, r) == req' = [req EXCEPT ![c] = r]
Step(c, pc) == [req[c] EXCEPT !.pc = pc]
\* The response passes through the idempotency middleware on its way out.
Answer(r, answer) == [r EXCEPT !.pc = "store", !.answer = answer]
\* The middleware in front of it answers by itself.
Reject(r, answer) == [r EXCEPT !.pc = "answered", !.answer = answer]

MayFail(what) == what \in scope.fails
Fault(what) == MayFail(what) /\ faults < scope.faults /\ faults' = faults + 1
NoFault == UNCHANGED faults
-----------------------------------------------------------------------------
(* Rate limits *)

Buckets == {<<"src">>, <<"app">>} \cup ({"key", "trial"} \X Keys)
live_rate_limit == IF "limit" \in DOMAIN Platform THEN Platform.limit.limit ELSE Env.limit

\* The script of rate_limit_store: all units or none.
is_rate_limited(buckets, b, limit, cost) == buckets[b] + cost > limit
Charge(buckets, b, limit, cost) ==
    IF is_rate_limited(buckets, b, limit, cost) THEN buckets
    ELSE [buckets EXCEPT ![b] = @ + cost]

\* The source address is charged first, then the key.
rate_limit_dispatch(c, k, body) ==
    LET source == Charge(bucket, <<"src">>, Env.source_limit, 1)
        refused == \/ is_rate_limited(bucket, <<"src">>, Env.source_limit, 1)
                   \/ is_rate_limited(source, <<"key", k>>, live_rate_limit, 1)
        r == [NoReq EXCEPT !.pc = "auth", !.key = k, !.body = body] IN
    /\ At(c, "idle")
    /\ \/ /\ bucket' = IF refused THEN source ELSE Charge(source, <<"key", k>>, live_rate_limit, 1)
          /\ Goto(c, IF refused THEN Reject(r, TooMany) ELSE r)
          /\ NoFault
       \/ /\ Fault("redis_rate")
          /\ bucket' = bucket
          /\ Goto(c, [r EXCEPT !.unmetered = TRUE])
    /\ UNCHANGED <<scope, cache, idem, scanned>>
    /\ UNCHANGED tenancyVars

\* Sixty seconds pass; no request takes that long.
window_passes ==
    /\ "window" \in scope.occurs
    /\ \A c \in Clients : At(c, "idle")
    /\ \E b \in Buckets : bucket[b] > 0
    /\ bucket' = [b \in Buckets |-> 0]
    /\ scanned' = [k \in Keys |-> 0]
    /\ UNCHANGED <<scope, req, cache, idem, faults>>
    /\ UNCHANGED <<tenancyVars, cli>>
-----------------------------------------------------------------------------
(* Authentication *)

\* The row, its revocation and expiry; is_allowed of the allowlist.
get_standard_key(k) == active_key(k) /\ keys[k].expires # "past"
is_allowed(row, address) == row.ips = {} \/ address \in row.ips

\* A key, then its allowlist, then the cached status of the tenant.
authenticate_api_key(c) ==
    LET k == req[c].key
        r == [req[c] EXCEPT !.row = keys[k]] IN
    /\ At(c, "auth")
    /\ \/ /\ ~(get_standard_key(k) /\ is_allowed(keys[k], req[c].body.address))
          /\ Goto(c, Reject(req[c], Refused))
          /\ NoFault
       \/ /\ get_standard_key(k)
          /\ is_allowed(keys[k], req[c].body.address)
          /\ \/ /\ NoFault
                /\ Goto(c, IF tenantCache = NoVal THEN [r EXCEPT !.pc = "tenant"]
                           ELSE IF tenantCache = "active" THEN [r EXCEPT !.pc = "idem"]
                           ELSE Reject(r, Refused))
             \/ Fault("redis_tenant") /\ Goto(c, [r EXCEPT !.pc = "tenant"])
    /\ UNCHANGED <<scope, cache, idem, bucket, scanned>>
    /\ UNCHANGED <<tenancyVars, cli>>

\* A database that does not answer counts as suspended.
tenant_read(c) ==
    /\ At(c, "tenant")
    /\ \/ Goto(c, [req[c] EXCEPT !.pc = "tenant_store", !.status = tenant]) /\ NoFault
       \/ Goto(c, Reject(req[c], Refused)) /\ Fault("db_tenant")
    /\ UNCHANGED <<scope, cache, idem, bucket, scanned>>
    /\ UNCHANGED <<tenancyVars, cli>>

tenant_store(c) ==
    /\ At(c, "tenant_store")
    /\ \/ tenantCache' = req[c].status /\ NoFault
       \/ tenantCache' = tenantCache /\ Fault("redis_tenant")
    /\ Goto(c, IF req[c].status = "active" THEN Step(c, "idem") ELSE Reject(req[c], Refused))
    /\ UNCHANGED <<scope, cache, idem, bucket, scanned>>
    /\ UNCHANGED <<keys, tenant, stored, override, rows, provider, admin, adminOps, cli>>
-----------------------------------------------------------------------------
(* Idempotency *)

\* scan-batch is not one of IDEMPOTENCY_PATHS.
UsesIdem(body) == body.idem # NoVal /\ body.op # "batch"
Slot(c) == <<req[c].key, req[c].body.idem>>

\* Mutant of idem_claim: the claim is a SET without NX.
idem_claim_NotNx(c) ==
    LET k == Slot(c) IN
    /\ At(c, "idem")
    /\ IF UsesIdem(req[c].body)
       THEN /\ idem' = [idem EXCEPT ![k].body = req[c].body]
            /\ Goto(c, Step(c, IF idem[k].body = NoVal THEN "handler" ELSE "lookup"))
       ELSE Goto(c, Step(c, "handler")) /\ UNCHANGED idem
    /\ UNCHANGED <<scope, cache, bucket, scanned, faults>>
    /\ UNCHANGED <<tenancyVars, cli>>

\* SET NX of the hash of the body.  Without Redis the request is processed.
idem_claim(c) ==
    LET k == Slot(c) IN
    /\ At(c, "idem")
    /\ \/ /\ ~UsesIdem(req[c].body)
          /\ Goto(c, Step(c, "handler"))
          /\ UNCHANGED <<idem, faults>>
       \/ /\ UsesIdem(req[c].body)
          /\ idem[k].body = NoVal
          /\ idem' = [idem EXCEPT ![k].body = req[c].body]
          /\ Goto(c, Step(c, "handler"))
          /\ NoFault
       \/ /\ UsesIdem(req[c].body)
          /\ idem[k].body # NoVal
          /\ Goto(c, [Step(c, "lookup") EXCEPT !.late = idem[k].answer # NoAnswer])
          /\ UNCHANGED <<idem, faults>>
       \/ /\ UsesIdem(req[c].body)
          /\ Fault("redis_idem")
          /\ Goto(c, Step(c, "handler"))
          /\ UNCHANGED idem
    /\ UNCHANGED <<scope, cache, bucket, scanned>>
    /\ UNCHANGED <<tenancyVars, cli>>

\* Another body is a conflict, a stored response is replayed; while the first
\* request is still processed there is neither, and this one is processed too.
idem_lookup(c) ==
    LET held == idem[Slot(c)] IN
    /\ At(c, "lookup")
    /\ Goto(c, IF held.body \notin {NoVal, req[c].body} THEN Reject(req[c], Refused)
               ELSE IF held.answer # NoAnswer
               THEN [req[c] EXCEPT !.pc = "answered", !.answer = held.answer, !.replay = held]
               ELSE Step(c, "handler"))
    /\ UNCHANGED <<scope, cache, idem, bucket, scanned, faults>>
    /\ UNCHANGED <<tenancyVars, cli>>

\* On the way out: every answer but a server error is stored, over any other.
\* When that fails the body has been read, and none is sent.
idem_store(c) ==
    LET k == Slot(c)
        stores == UsesIdem(req[c].body) /\ req[c].answer.kind # "error" IN
    /\ At(c, "store")
    /\ \/ /\ idem' = IF stores
                     THEN [idem EXCEPT ![k] = [@ EXCEPT !.answer = req[c].answer, !.of = req[c].body,
                                                        !.foreign = idem[k].body # req[c].body]]
                     ELSE idem
          /\ Goto(c, Step(c, "answered"))
          /\ NoFault
       \/ /\ stores
          /\ Fault("redis_idem")
          /\ Goto(c, [Step(c, "answered") EXCEPT !.answer = Lost])
          /\ UNCHANGED idem
    /\ UNCHANGED <<scope, cache, bucket, scanned>>
    /\ UNCHANGED <<tenancyVars, cli>>

\* idempotency_window_secs pass since the claim.
claim_expires(k) ==
    /\ "expiry" \in scope.occurs
    /\ idem[k].body # NoVal
    /\ idem' = [idem EXCEPT ![k].body = NoVal, ![k].foreign = idem[k].answer # NoAnswer]
    /\ UNCHANGED <<scope, req, cache, bucket, scanned, faults>>
    /\ UNCHANGED <<tenancyVars, cli>>

\* The response was stored later and goes later; a retry that was going to
\* read it is an ordinary request from now on.
response_expires(k) ==
    /\ idem[k].foreign
    /\ idem' = [idem EXCEPT ![k] = [NoIdem EXCEPT !.body = idem[k].body]]
    /\ req' = [c \in Clients |-> IF ~At(c, "idle") /\ Slot(c) = k THEN [req[c] EXCEPT !.late = FALSE]
                              ELSE req[c]]
    /\ UNCHANGED <<scope, cache, bucket, scanned, faults>>
    /\ UNCHANGED <<tenancyVars, cli>>

finish(c) ==
    /\ At(c, "answered")
    /\ Goto(c, NoReq)
    /\ UNCHANGED <<scope, cache, idem, bucket, scanned, faults>>
    /\ UNCHANGED tenancyVars
-----------------------------------------------------------------------------
(* The handlers, up to the policy *)

Op(c) == req[c].body.op
Messages(c) == req[c].body.items
Doing(c, pc, ops) == At(c, pc) /\ Op(c) \in ops
IsTrial(c) == req[c].row.type = "trial"

\* _eligible_segments: the messages of roles that are scanned, all of them or
\* the last one.  The other endpoints scan every item they are given.
Eligible(c) ==
    LET scannable == {i \in DOMAIN Messages(c) : Messages(c)[i].role \in Env.roles} IN
    IF Op(c) # "proxy" THEN DOMAIN Messages(c)
    ELSE IF req[c].body.all \/ scannable = {} THEN scannable ELSE {Max(scannable)}

NoCharge == [closed |-> FALSE, refused |-> FALSE, buckets |-> bucket]
Closed == [NoCharge EXCEPT !.closed = TRUE]
ChargeOf(b, limit, cost) ==
    [closed |-> FALSE, refused |-> is_rate_limited(bucket, b, limit, cost),
     buckets |-> Charge(bucket, b, limit, cost)]

\* Mutant of charge_additional_units: a batch costs what one request costs.
charge_additional_units_Free(k, n) == NoCharge

\* The n - 1 units beyond the first, against the default limit.
charge_additional_units(k, n) ==
    IF n > 1 THEN ChargeOf(<<"key", k>>, Env.limit, n - 1) ELSE NoCharge

\* A trial key may not reach a provider and has a limit of its own.
ai_request_gate(c) ==
    CASE ~IsTrial(c) -> NoCharge
      [] IsTrial(c) /\ Op(c) = "execute" -> Closed
      [] OTHER -> ChargeOf(<<"trial", req[c].key>>, Env.trial_limit, 1)

ai_scan_batch_gate(c) == charge_additional_units(req[c].key, Len(Messages(c)))

\* A model string is its provider here, or NoVal where the body names none.
parse_model_string(model) == model \in SupportedProviders

proxy_gate(c) ==
    IF IsTrial(c) \/ ~(req[c].body.model = NoVal \/ parse_model_string(req[c].body.model))
    THEN Closed ELSE NoCharge

\* A bucket that cannot be reached charges nothing and refuses nothing.
Metered(charge, unmetered) ==
    \/ bucket' = charge.buckets /\ ~unmetered /\ NoFault
    \/ bucket' = bucket /\ charge \notin {NoCharge, Closed} /\ unmetered /\ Fault("redis_rate")

\* The settings are read first, the overrides by later statements.
resolve_settings(c) ==
    LET charge == CASE Op(c) = "batch" -> ai_scan_batch_gate(c)
                    [] Op(c) = "proxy" -> proxy_gate(c)
                    [] OTHER -> ai_request_gate(c) IN
    /\ At(c, "handler")
    /\ \/ \E unmetered \in BOOLEAN :
            /\ Metered(charge, unmetered)
            /\ Goto(c, IF charge.closed \/ (charge.refused /\ ~unmetered)
                       THEN Answer(req[c], IF charge.closed THEN Refused ELSE TooMany)
                       ELSE [Step(c, "overrides") EXCEPT !.policy = tenant_policy,
                                                         !.unmetered = @ \/ unmetered])
       \/ /\ ~charge.closed /\ ~charge.refused
          /\ Fault("db_policy")
          /\ bucket' = charge.buckets
          /\ Goto(c, Answer(req[c], ServerError))
    /\ UNCHANGED <<scope, cache, idem, scanned>>
    /\ UNCHANGED <<tenancyVars, cli>>

\* An execution needs the judge layer, whatever turned it off.
execution_closed(c, p) == Op(c) = "execute" /\ ~p.llm

\* A layer that cannot be read, or a credential of an override that cannot be
\* decrypted, refuses the request.
resolve_policy(c) ==
    LET dept == level_policy(req[c].policy, "dept")
        resolved == valid_policy(IF req[c].row.app THEN level_policy(dept, "app") ELSE dept)
        after == CASE Op(c) = "batch" -> "scan" [] Op(c) = "proxy" -> "config" [] OTHER -> "cache"
        r == [req[c] EXCEPT !.policy = resolved] IN
    /\ At(c, "overrides")
    /\ \/ /\ Goto(c, IF ~decrypted(resolved) THEN Answer(req[c], ServerError)
                     ELSE IF execution_closed(c, resolved) THEN Answer(r, Refused)
                     ELSE [r EXCEPT !.pc = after])
          /\ NoFault
       \/ Fault("db_policy") /\ Goto(c, Answer(req[c], ServerError))
    /\ UNCHANGED <<scope, cache, idem, bucket, scanned>>
    /\ UNCHANGED <<tenancyVars, cli>>

\* The configuration in force, the model asked for or the default one, and
\* whether they belong together.
proxy_provider(c) ==
    LET own == "proxy" \in DOMAIN req[c].policy
        config == IF own THEN req[c].policy.proxy ELSE provider
        model == IF req[c].body.model # NoVal THEN req[c].body.model
                 ELSE IF config = NoVal THEN NoVal ELSE config.model IN
    IF config = NoVal \/ ~parse_model_string(model) \/ model # config.provider THEN NoVal
    ELSE [config |-> config, own |-> own]

\* The provider, then the messages to scan and their charge; nothing is
\* audited of a request that is refused here.
proxy_config(c) ==
    LET target == proxy_provider(c)
        n == Cardinality(Eligible(c))
        refused == target = NoVal \/ n = 0 \/ n > Env.max_messages
        charge == IF refused THEN Closed ELSE charge_additional_units(req[c].key, n) IN
    /\ At(c, "config")
    /\ \E unmetered \in BOOLEAN :
        /\ Metered(charge, unmetered)
        /\ Goto(c, IF refused THEN Answer(req[c], Refused)
                   ELSE IF charge.refused /\ ~unmetered THEN Answer(req[c], TooMany)
                   ELSE [Step(c, "scan") EXCEPT !.target = target, !.unmetered = @ \/ unmetered])
    /\ UNCHANGED <<scope, cache, idem, scanned>>
    /\ UNCHANGED <<tenancyVars, cli>>
-----------------------------------------------------------------------------
(* The semantic cache *)

\* What of a policy can change a verdict, without credentials.
policy_identity(p) ==
    [n \in DOMAIN p \ {"limit", "proxy"} |-> IF n = "judge" THEN p.judge.provider ELSE p[n]]

\* Mutant of cache_key: the policy is not part of the key.
cache_key_NoPolicy(r) ==
    [policy |-> NoVal, source |-> r.body.items[1].source, mode |-> r.body.mode, op |-> r.body.op,
     text |-> Fold[r.body.items[1].text]]

cache_key(r) ==
    [policy |-> policy_identity(r.policy), source |-> r.body.items[1].source, mode |-> r.body.mode, op |-> r.body.op,
     text |-> Fold[r.body.items[1].text]]

\* The scores of single detectors are for callers with settings:read, which a
\* live key has and a trial key has not.  The cache keeps whole responses; what
\* a caller may not see is taken out where a response is served.
holds_permission(row) == row.type # "trial"

\* Mutant of restrict_layer_scores: the scores stay.
restrict_layer_scores_Kept(c, answer) == answer

restrict_layer_scores(c, answer) ==
    IF holds_permission(req[c].row) THEN answer ELSE [answer EXCEPT !.scores = FALSE]

\* A scan that ended in an exception has no scores to show; a verdict of
\* detectors that failed says so in its reason.
build_response(decision, output, results) ==
    [kind |-> "verdict", decision |-> decision, output |-> output,
     scores |-> \E i \in DOMAIN results : results[i].layers,
     system |-> \E i \in DOMAIN results : results[i].reason = "SYSTEM_ERROR"]

cache_hit_audit(e) == [decision |-> e.decision, by |-> "cache"]

\* Mutant of cache_hit: a response from the cache is not audited.
cache_hit_Silent(c) ==
    /\ At(c, "cache")
    /\ \E e \in cache : /\ e.key = cache_key(req[c])
                        /\ Goto(c, Answer([req[c] EXCEPT !.hit = TRUE], restrict_layer_scores(c, e.answer)))
    /\ UNCHANGED <<scope, cache, idem, bucket, scanned, faults>>
    /\ UNCHANGED <<tenancyVars, cli>>

\* A hit is audited and answered with a trace of its own.
cache_hit(c) ==
    LET e == CHOOSE x \in cache : x.key = cache_key(req[c]) IN
    /\ At(c, "cache")
    /\ \E x \in cache : x.key = cache_key(req[c])
    /\ \/ /\ Goto(c, Answer([req[c] EXCEPT !.hit = TRUE, !.events = 1,
                                           !.audited = <<cache_hit_audit(e.answer)>>],
                            restrict_layer_scores(c, e.answer)))
          /\ NoFault
       \/ Fault("db_audit") /\ Goto(c, Answer(req[c], ServerError))
    /\ UNCHANGED <<scope, cache, idem, bucket, scanned>>
    /\ UNCHANGED <<tenancyVars, cli>>

\* Without an entry, or without Redis: the limit of the application, then the scan.
cache_miss(c) ==
    LET limit == req[c].policy.limit
        charge == IF req[c].row.app
                  THEN ChargeOf(<<"app">>, limit, 1) ELSE NoCharge
        Onward(refused) == Goto(c, IF refused THEN Answer(req[c], TooMany) ELSE Step(c, "scan")) IN
    /\ At(c, "cache")
    /\ \/ /\ \A e \in cache : e.key # cache_key(req[c])
          /\ \E unmetered \in BOOLEAN :
                Metered(charge, unmetered) /\ Onward(charge.refused /\ ~unmetered)
       \/ /\ \E e \in cache : e.key = cache_key(req[c])
          /\ Fault("redis_cache")
          /\ bucket' = charge.buckets
          /\ Onward(charge.refused)
    /\ UNCHANGED <<scope, cache, idem, scanned>>
    /\ UNCHANGED <<tenancyVars, cli>>

MayCache(response) == response.decision = "ALLOW"

cache_expires(e) ==
    /\ "cache" \in scope.occurs
    /\ e \in cache
    /\ cache' = cache \ {e}
    /\ UNCHANGED <<scope, req, idem, bucket, scanned, faults>>
    /\ UNCHANGED <<tenancyVars, cli>>
-----------------------------------------------------------------------------
(* Scan, provider, answer *)

Rank == [ALLOW |-> 0, SANITIZE |-> 1, BLOCK |-> 2]

\* _strictest_index; one item decides by itself.
Strictest(results) ==
    CHOOSE d \in Decisions : /\ \E i \in DOMAIN results : results[i].decision = d
                             /\ \A i \in DOMAIN results : Rank[results[i].decision] <= Rank[d]

\* Every eligible item through GatewayService.process, where at most one part
\* of one of the scans fails.
scan_items(c, f, part) ==
    [i \in Eligible(c) |-> process(Messages(c)[i].text, Messages(c)[i].source, req[c].body.mode,
                                   req[c].policy, IF i = f THEN {part} ELSE {})]

ScanOutcomes(c) ==
    {[results |-> scan_items(c, 0, "none"), down |-> NoVal]}
    \cup {[results |-> scan_items(c, f, part), down |-> <<f, part>>] :
              f \in Eligible(c), part \in Parts \cap scope.fails}

\* The scans s have ended and c goes on as r.
Scan(c, s, r) ==
    /\ IF s.down = NoVal THEN NoFault ELSE Fault(s.down[2])
    /\ Goto(c, r)
    /\ scanned' = IF req[c].unmetered THEN scanned
                  ELSE [scanned EXCEPT ![req[c].key] = @ + Cardinality(Eligible(c))]
    /\ UNCHANGED <<scope, cache, idem, bucket>>
    /\ UNCHANGED <<tenancyVars, cli>>

Judged(c, s) ==
    [req[c] EXCEPT !.results = s.results, !.down = s.down, !.answer.decision = Strictest(s.results)]

\* One input; an execution that is not blocked goes on to the provider.
ai_scan(c) ==
    /\ Doing(c, "scan", {"scan", "execute"})
    /\ \E s \in ScanOutcomes(c) :
         LET onward == IF Op(c) = "execute" /\ s.results[1].decision # "BLOCK" THEN "provider" ELSE "audit" IN
         Scan(c, s, [Judged(c, s) EXCEPT !.pc = onward])

ai_scan_batch(c) ==
    /\ Doing(c, "scan", {"batch"})
    /\ \E s \in ScanOutcomes(c) : Scan(c, s, [Judged(c, s) EXCEPT !.pc = "audit"])

\* The strictest verdict decides and is announced once.
proxy_scan(c) ==
    /\ Doing(c, "scan", {"proxy"})
    /\ \E s \in ScanOutcomes(c) :
         LET blocked == Strictest(s.results) = "BLOCK" IN
         Scan(c, s, [Judged(c, s) EXCEPT !.pc = IF blocked THEN "audit" ELSE "provider", !.events = 1,
                                         !.outcome = IF blocked THEN "BLOCKED" ELSE NoVal])
-----------------------------------------------------------------------------
(* The provider *)

\* Mutant of Outgoing: only the message that decided is replaced.
Outgoing_Winner(c) ==
    LET results == req[c].results
        winner == Max({i \in DOMAIN results : results[i].decision = Strictest(results)}) IN
    [i \in DOMAIN Messages(c) |-> IF i = winner /\ results[i].rewritten THEN results[i].prompt
                                  ELSE Messages(c)[i].text]

\* An execution sends the text the guard left; a proxy call sends all its
\* messages, those that were sanitized replaced.
Outgoing(c) ==
    [i \in DOMAIN Messages(c) |->
        IF i \in DOMAIN req[c].results /\ (Op(c) = "execute" \/ req[c].results[i].rewritten)
        THEN req[c].results[i].prompt ELSE Messages(c)[i].text]

Sent(c, r) ==
    /\ Goto(c, [r EXCEPT !.sent = Outgoing(c)])
    /\ UNCHANGED <<scope, cache, idem, bucket, scanned>>
    /\ UNCHANGED <<tenancyVars, cli>>

call_llm(c, reply) ==
    /\ Doing(c, "provider", {"execute"})
    /\ Sent(c, [Step(c, "output") EXCEPT !.answer.output = reply])
    /\ NoFault

\* The clients turn every error into an empty completion, which is a failed
\* execution of a scan whose verdict stands.
llm_fails(c) ==
    /\ Doing(c, "provider", {"execute"})
    /\ Fault("provider")
    /\ Sent(c, [Step(c, "audit") EXCEPT !.answer.kind = "error"])

\* A stored credential must still be readable, and openai cannot do without one.
resolve_provider(config) == config.key # "stale" /\ (config.provider = "openai" => config.key = "good")
resolve_provider_from_dict(config) == config.provider = "openai" => config.key = "good"
usable(target) ==
    IF target.own THEN resolve_provider_from_dict(target.config) ELSE resolve_provider(target.config)

\* A configuration that cannot be used is found only now, and this answer has
\* no audit row.
provider_config_error(c) ==
    /\ Doing(c, "provider", {"proxy"})
    /\ ~usable(req[c].target)
    /\ Goto(c, Answer(req[c], ServerError))
    /\ UNCHANGED <<scope, cache, idem, bucket, scanned, faults>>
    /\ UNCHANGED <<tenancyVars, cli>>

Forwarded(c, r) == Doing(c, "provider", {"proxy"}) /\ usable(req[c].target) /\ Sent(c, r)
UpstreamFails(c, outcome, answer) ==
    /\ Fault("provider")
    /\ Forwarded(c, [Step(c, "audit") EXCEPT !.outcome = outcome, !.answer = answer])

chat_completions(c, reply) ==
    Forwarded(c, [Step(c, "output") EXCEPT !.answer.output = reply]) /\ NoFault

provider_times_out(c) == UpstreamFails(c, "TIMEOUT", ServerError)
provider_malformed(c) == UpstreamFails(c, "FAILED", ServerError)
\* A rate limit, an unknown model or a rejected payload is the client's to act
\* on, everything else is a server error.
map_provider_failure == {Refused, TooMany, ServerError}
provider_unavailable(c) == \E answer \in map_provider_failure : UpstreamFails(c, "FAILED", answer)
\* A reply without text, such as a tool call, cannot be inspected.
provider_unsupported(c) == UpstreamFails(c, "FAILED", ServerError)
-----------------------------------------------------------------------------
(* The output guard *)

Inspect(c, After(_)) ==
    /\ \E fails \in BOOLEAN :
        /\ IF fails THEN Fault("output") ELSE NoFault
        /\ Goto(c, After(output_inspect(req[c].answer.output, fails)))
    /\ UNCHANGED <<scope, cache, idem, bucket, scanned>>
    /\ UNCHANGED <<tenancyVars, cli>>

Passed(answer, guard) ==
    IF guard.decision = "BLOCK" THEN [answer EXCEPT !.decision = "BLOCK", !.output = NoVal]
    ELSE [answer EXCEPT !.output = guard.text]

guard_completion(c) ==
    /\ Doing(c, "output", {"execute"})
    /\ Inspect(c, LAMBDA guard : [Step(c, "audit") EXCEPT !.answer = Passed(@, guard)])

guard_proxied(c) ==
    /\ Doing(c, "output", {"proxy"})
    /\ Inspect(c, LAMBDA guard :
            [Step(c, "audit") EXCEPT
                !.answer = Passed(@, guard),
                !.outcome = IF guard.decision = "BLOCK" THEN "OUTPUT_BLOCKED" ELSE "SUCCESS"])
-----------------------------------------------------------------------------
(* Audit and answer *)

\* The row of an input: its verdict, for an execution the one after the output.
build_audit_data(c, i) ==
    [decision |-> IF Op(c) = "execute" THEN req[c].answer.decision ELSE req[c].results[i].decision,
     by |-> "scan"]
segment_audit_row(c, i) == [decision |-> req[c].results[i].decision, by |-> "proxy"]

\* A row that cannot be written is an error to the caller.
audit_scan(c) ==
    /\ Doing(c, "audit", {"scan", "execute"})
    /\ \/ /\ Goto(c, [Step(c, IF req[c].answer.kind = "error" THEN "store" ELSE "respond") EXCEPT
                        !.audited = <<build_audit_data(c, 1)>>, !.events = 1,
                        !.answer = IF @.kind = "error" THEN ServerError ELSE @])
          /\ NoFault
       \/ Fault("db_audit") /\ Goto(c, Answer(req[c], ServerError))
    /\ UNCHANGED <<scope, cache, idem, bucket, scanned>>
    /\ UNCHANGED <<tenancyVars, cli>>

\* One row after the other, each committed; a failure keeps the ones before it
\* and drops the answer with its events.
audit_batch(c) ==
    LET Rows(n) == [i \in 1..n |-> build_audit_data(c, i)]
        n == Len(Messages(c)) IN
    /\ Doing(c, "audit", {"batch"})
    /\ \/ /\ Goto(c, [Answer(req[c], restrict_layer_scores(c,
                            build_response(req[c].answer.decision, NoVal, req[c].results)))
                      EXCEPT !.audited = Rows(n), !.events = n])
          /\ NoFault
       \/ /\ Fault("db_audit")
          /\ \E written \in 0..(n - 1) :
                Goto(c, [Answer(req[c], ServerError) EXCEPT !.audited = Rows(written)])
    /\ UNCHANGED <<scope, cache, idem, bucket, scanned>>
    /\ UNCHANGED <<tenancyVars, cli>>

\* The interaction is committed first, then the rows of its messages as one
\* unit; either may fail, and the call is answered all the same.
log_interaction(c) ==
    LET r == [Step(c, "respond") EXCEPT !.logged = req[c].outcome] IN
    /\ Doing(c, "audit", {"proxy"})
    /\ \/ /\ Goto(c, [r EXCEPT !.audited = [i \in DOMAIN req[c].results |-> segment_audit_row(c, i)]])
          /\ NoFault
       \/ Fault("db_audit") /\ (Goto(c, r) \/ Goto(c, Step(c, "respond")))
    /\ UNCHANGED <<scope, cache, idem, bucket, scanned>>
    /\ UNCHANGED <<tenancyVars, cli>>

\* set_cached_result of the whole response, best effort.
ai_respond(c) ==
    LET response == build_response(req[c].answer.decision, req[c].answer.output, req[c].results)
        stores == MayCache(response)
        key == cache_key(req[c]) IN
    /\ Doing(c, "respond", {"scan", "execute"})
    /\ \/ /\ cache' = IF stores THEN {e \in cache : e.key # key} \cup {[key |-> key, answer |-> response]}
                     ELSE cache
          /\ NoFault
       \/ stores /\ Fault("redis_cache") /\ UNCHANGED cache
    /\ Goto(c, Answer(req[c], restrict_layer_scores(c, response)))
    /\ UNCHANGED <<scope, idem, bucket, scanned>>
    /\ UNCHANGED <<tenancyVars, cli>>

\* The verdict on the input, the text that passed the output guard and no
\* scores; an upstream failure has its answer already.
proxy_respond(c) ==
    /\ Doing(c, "respond", {"proxy"})
    /\ Goto(c, Answer(req[c], IF req[c].outcome \in {"TIMEOUT", "FAILED"} THEN req[c].answer
                              ELSE build_response(req[c].answer.decision, req[c].answer.output, <<>>)))
    /\ UNCHANGED <<scope, cache, idem, bucket, scanned, faults>>
    /\ UNCHANGED <<tenancyVars, cli>>
-----------------------------------------------------------------------------
Init ==
    /\ scope \in Scopes
    /\ rows \in [Levels -> {"none", "active"}]
    /\ rows["app"] = "active" => rows["dept"] = "active"
    /\ "levels" \notin scope.occurs => \A l \in Levels : rows[l] = "active"
    /\ keys = [k \in Keys |-> IF rows["dept"] = "none" \/ FirstKeys[k] = NoVal THEN NoVal
                              ELSE [FirstKeys[k] EXCEPT !.app = @ /\ rows["app"] = "active"]]
    /\ tenant = "active"
    /\ tenantCache \in {"active", NoVal}
    /\ "status" \notin scope.occurs => tenantCache = "active"
    /\ stored = [s \in Sections |-> NoVal]
    /\ override = [l \in Levels |-> NoVal]
    /\ provider = NoVal
    /\ admin = [a \in Admins |-> Idle]
    /\ adminOps = 0
    /\ req = [c \in Clients |-> NoReq]
    /\ cache = {}
    /\ idem = [k \in Keys \X IdemKeys |-> NoIdem]
    /\ bucket = [b \in Buckets |-> 0]
    /\ scanned = [k \in Keys |-> 0]
    /\ faults = 0

Serve(c) ==
    \/ authenticate_api_key(c) \/ tenant_read(c) \/ tenant_store(c)
    \/ idem_claim(c) \/ idem_lookup(c) \/ resolve_settings(c) \/ resolve_policy(c)
    \/ proxy_config(c) \/ cache_hit(c) \/ cache_miss(c)
    \/ ai_scan(c) \/ ai_scan_batch(c) \/ proxy_scan(c)
    \/ llm_fails(c) \/ provider_config_error(c) \/ provider_times_out(c) \/ provider_malformed(c)
    \/ provider_unavailable(c) \/ provider_unsupported(c)
    \/ \E t \in Replies : call_llm(c, t) \/ chat_completions(c, t)
    \/ guard_completion(c) \/ guard_proxied(c)
    \/ audit_scan(c) \/ audit_batch(c) \/ log_interaction(c)
    \/ ai_respond(c) \/ proxy_respond(c) \/ idem_store(c)

\* The administration of this behaviour, one disjunct an endpoint.
Begin(a) ==
    \/ "keys" \in scope.occurs /\ \E k \in Keys : rotate_key_read(a, k)
    \/ "status" \in scope.occurs /\ \E s \in {"active", "suspended"} : set_status(a, s)
    \/ "settings" \in scope.occurs /\
         \/ \E b \in ThresholdBodies : update_thresholds(a, b)
         \/ \E b \in LayerBodies : update_layers(a, b)
         \/ \E b \in LimitBodies : update_rate_limit(a, b)
         \/ \E b \in JudgeBodies : update_llm_settings(a, b)
    \/ "sections" \in scope.occurs /\
         \/ \E b \in SectionBodies["judge"] \cup {NoVal} :
              update_dept_llm_override(a, b) \/ update_app_llm_override(a, b)
         \/ \E b \in SectionBodies["proxy"] \cup {NoVal} :
              update_dept_proxy_override(a, b) \/ update_app_proxy_override(a, b)

End(a) ==
    \/ \E k \in Keys : rotate_key(a, k)
    \/ drop_tenant_cache(a, FALSE)
    \/ settings_conflict(a) \/ settings_set(a)
    \/ department_update(a) \/ application_update(a)

Manage ==
    \/ "keys" \in scope.occurs /\ \E k \in Keys :
         \/ \E row \in {FirstKeys[j] : j \in Keys} \ {NoVal} :
              create_key(k, row) \/ create_key(k, [row EXCEPT !.type = "trial"])
         \/ \E ips \in SUBSET Addresses : update_key(k, ips)
         \/ delete_key(k) \/ key_expires(k)
    \/ "levels" \in scope.occurs /\
         \/ \E o \in Overrides : create_department(o) \/ create_application(o)
         \/ \E o \in Overrides \cup {NoVal} :
              update_department(o) \/ update_application(o) \/ set_application_policy(o)
         \/ reset_application_policy \/ delete_department \/ delete_application
    \/ "provider" \in scope.occurs /\
         \/ \E p \in ProviderConfigs : put_proxy_settings(p)
         \/ delete_proxy_settings \/ secret_key_changes
    \/ "status" \in scope.occurs /\ tenant_cache_expires

\* The client sends its request and takes the answer: rate_limit_dispatch and
\* finish are steps of module Sdk.
Next ==
    \/ \E c \in Clients : Serve(c)
    \/ window_passes
    \/ \E e \in cache : cache_expires(e)
    \/ \E k \in Keys \X IdemKeys : claim_expires(k) \/ response_expires(k)
    \/ (Manage \/ \E a \in Admins : Begin(a) \/ End(a)) /\ UNCHANGED <<gatewayVars, cli>>
    \/ \E a \in Admins : /\ drop_tenant_cache(a, TRUE)
                          /\ Fault("redis_tenant")
                          /\ UNCHANGED <<scope, req, cache, idem, bucket, scanned, cli>>
-----------------------------------------------------------------------------
(* Properties *)

\* The limits a bucket is charged against.  Those of the application: the
\* platform's or the default, what a body of PUT /settings/rate_limit stores (the
\* configured value where it names none) and what an override sets.
LimitsOf(b) ==
    CASE b[1] = "src" -> {Env.source_limit}
      [] b[1] = "trial" -> {Env.trial_limit}
      [] b[1] = "key" -> {live_rate_limit, Env.limit}
      [] OTHER -> {IF "limit" \in DOMAIN Platform THEN Platform.limit.limit ELSE system_defaults.limit, Env.limit}
                  \cup {x.limit : x \in {y \in LimitBodies \cup Overrides : "limit" \in DOMAIN y}}

\* The types of the variables.
TypeOK ==
    /\ keys \in [Keys -> KeyRow \cup {NoVal}]
    /\ tenant \in {"active", "suspended"} /\ tenantCache \in {"active", "suspended", NoVal}
    /\ \A c \in Clients : req[c].pc \in Phase /\ req[c].answer.decision \in Decisions \cup {"none"}
    /\ faults \in 0..scope.faults

\* The part that failed during the scan of item i, if any.
Down(c, i) == IF req[c].down # NoVal /\ req[c].down[1] = i THEN {req[c].down[2]} ELSE {}

\* What the enabled detectors say of the views of text t: its canonical form
\* and the first MAX_VIEWS decoded ones.
Signals(p, t) ==
    LET Shallow(n) == {i \in 1..n : Profile[t].views[i].depth <= MaxDecodeDepth}
        views == {Profile[t].canonical} \cup
                 {Profile[t].views[i].text : i \in {j \in Shallow(Len(Profile[t].views)) :
                                                      Cardinality(Shallow(j)) <= MaxViews}} IN
    UNION {  (IF p.rule THEN {m[2] : m \in Profile[v].rules} ELSE {})
        \cup (IF p.ml /\ Profile[v].tfidf[1] # "BENIGN" THEN {Profile[v].tfidf[2]} ELSE {})
        \cup (IF p.ml /\ TransformerReady /\ Profile[v].transformer[1] = "INJECTION"
              THEN {Profile[v].transformer[2]} ELSE {}) : v \in views}

\* No strong finding is diluted: where one enabled detector gives one view of
\* the input at least 50 % and at least the threshold in force for its source,
\* the verdict is as strict as that threshold asks, whichever view it was, how
\* the other detectors score and whatever part fails (evaluate_views, combine,
\* risk_score, apply_posture and decide together).  Tolerated failures that
\* take a view or a detector away, and the PII guardrail, which decides first,
\* are set aside.
StrongSignalDecides ==
    \A c \in Clients : \A i \in DOMAIN req[c].results :
        LET item == Messages(c)[i]
            p == req[c].policy
            signals == Signals(p, inspect(item.text, {}).text)
            Reaches(threshold) == \E s \in signals : s >= 50 /\ s >= apply_posture(threshold, item.source)
            verdict == req[c].results[i].decision IN
        (/\ Down(c, i) \cap {"normalize", "tfidf_raises", "transformer_slow"} = {}
         /\ pii_detect(item.text).score < Min({p.pii_sanitize, p.pii_block})) =>
            /\ Reaches(p.block) => verdict = "BLOCK"
            /\ Reaches(p.sanitize) => verdict # "ALLOW"

\* What reaches a provider was screened: every message that is scanned got a
\* verdict other than BLOCK from detectors none of which failed, and a message
\* whose PII the policy does not let through is sent in its redacted form,
\* also where another message decided the request.
Essential(p) ==
    {"guard_slow", "pii", "process", "toxicity"} \cup (IF p.rule THEN {"rule"} ELSE {})
    \cup (IF p.ml THEN {"tfidf", "ml_slow"} ELSE {})
    \cup (IF p.ml /\ TransformerReady THEN {"transformer"} ELSE {})
ProviderSeesScreened ==
    \A c \in Clients : req[c].sent # <<>> =>
        \A i \in Eligible(c) :
            LET p == req[c].policy
                t == Messages(c)[i].text IN
            /\ req[c].results[i].decision # "BLOCK"
            /\ Down(c, i) \cap Essential(p) = {}
            /\ pii_detect(t).score >= p.pii_sanitize => req[c].sent[i] = Profile[t].redacted

\* A response from the semantic cache is one the request's own policy, source
\* and mode would have allowed: a scan of a text that differs at most in case
\* and space ends in ALLOW, with at most one tolerated failure.
CacheMatchesPolicy ==
    \A c \in Clients : req[c].hit =>
        LET item == Messages(c)[1]
            tolerated == scope.fails \cap {"normalize", "tfidf_raises", "transformer_slow", "llm_empty"} IN
        \E t \in {x \in Texts : Fold[x] = Fold[item.text]}, down \in {{}} \cup {{x} : x \in tolerated} :
            process(t, item.source, req[c].body.mode, req[c].policy, down).decision = "ALLOW"

\* Evidence: a request that was given a verdict, or whose text was sent to a
\* provider, has an audit row for every input it scanned (one for a hit of the
\* cache) with the verdict reached on that input, and as many webhook events,
\* one for a proxy call.  The strictest row is the verdict the caller was told,
\* except that a proxy call blocked by its output tells so in the interaction.
\* The rows of a proxy call alone may be missing, when the database failed, and
\* they are never there without the interaction they belong to.
Settled(c) ==
    /\ req[c].pc \in {"store", "answered"} /\ req[c].replay = NoIdem
    /\ req[c].answer.kind = "verdict" \/ (req[c].sent # <<>> /\ Op(c) = "proxy")
VerdictsAudited ==
    \A c \in {x \in Clients : Settled(x)} :
        LET audited == req[c].audited
            proxied == Op(c) = "proxy"
            scans == IF req[c].hit THEN 1 ELSE Cardinality(DOMAIN req[c].results) IN
        /\ scans > 0
        /\ Cardinality(DOMAIN audited) = scans \/ (proxied /\ audited = <<>> /\ faults > 0)
        /\ req[c].events = IF proxied THEN 1 ELSE scans
        /\ audited # <<>> /\ req[c].answer.kind = "verdict" =>
              Strictest(audited) = req[c].answer.decision \/ req[c].outcome = "OUTPUT_BLOCKED"
        /\ proxied /\ audited # <<>> => req[c].logged = req[c].outcome
        /\ req[c].answer # Lost => (req[c].outcome = "SUCCESS" <=> proxied /\ req[c].answer.output # NoVal)

\* The scores of single detectors never reach a trial key, although the cache
\* and its entries are shared with keys that may see them: neither in a fresh
\* response, nor in a batch, nor from an entry a live key has filled, nor when
\* a stored response is replayed.
ScoresWithheld ==
    \A c \in Clients : req[c].answer.scores => keys[req[c].key].type # "trial"

\* A retry under an idempotency key is not processed again once the first
\* request's response is stored, and what is replayed as the response of the
\* claim's holder answers the body that was sent.
IdempotentRetries ==
    \A c \in Clients :
        /\ req[c].late => req[c].pc = "lookup" \/ req[c].answer = Refused \/ req[c].replay # NoIdem
        /\ req[c].replay # NoIdem /\ ~req[c].replay.foreign => req[c].replay.of = req[c].body

\* Fan-out is metered: in one window no API key has more inputs scanned than the
\* larger of the limit that admits its requests and the default the further
\* inputs of a request are charged against, however they are spread over single,
\* batch and proxy requests; and no bucket is ever filled beyond the largest of
\* the limits it is charged against by single and weighted charges.  Where the
\* limit in force is below the default, see BatchWithinLimit.
RateBudget ==
    /\ \A k \in Keys : \E limit \in LimitsOf(<<"key", k>>) : scanned[k] <= limit
    /\ \A b \in Buckets : \E limit \in LimitsOf(b) : bucket[b] \in 0..limit

\* "It cannot amplify throughput past the per-minute limit": no key has more
\* inputs scanned in a window than the limit in force, fan-out included
\* (ai_scan_batch, charge_additional_units).
BatchWithinLimit == \A k \in Keys : scanned[k] <= live_rate_limit

\* However two administrators' read-modify-write cycles interleave, and
\* whatever overrides are merged, the thresholds that are stored and the ones a
\* request is decided by are in order.
ThresholdsOrdered ==
    /\ stored["thresholds"] # NoVal => Ordered(stored["thresholds"])
    /\ \A c \in Clients : 
          (/\ req[c].policy # NoVal /\ ~At(c, "overrides")
           /\ req[c].answer.kind # "error") => Ordered(req[c].policy)

\* A suspended tenant is cut off in the end, although a request that read the
\* old status may write it back to the cache after the suspension dropped it.
SuspensionTakesEffect ==
    <>[](tenant = "suspended") => <>[](\A c \in Clients : req[c].pc \notin Admitted)
=============================================================================
