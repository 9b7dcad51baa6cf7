----------------------------- MODULE SdkProofs -----------------------------
(***************************************************************************)
(* What holds of the gateway and the command that calls it, for every file *)
(* of prompts and every number of attempts and of other clients.           *)
(*                                                                         *)
(* The exit code.  As long as nothing failed the command has a verdict for *)
(* every prompt behind it (CommandOK); the verdict it is given is one on   *)
(* the text it sent, because no attempt but its own uses the idempotency   *)
(* key of a call (CallOK).                                                 *)
(*                                                                         *)
(* The rate limits, which a retry is charged against like any request: the *)
(* inputs a key has scanned, and those its requests in service may still   *)
(* scan, are paid for (Paid), and no charge goes over its limit (Fits).    *)
(***************************************************************************)
EXTENDS GatewayProofs
-----------------------------------------------------------------------------
(* The steps of a request *)

\* The phases before the policy is read, and from there to the scan.
Paying == {"auth", "tenant", "tenant_store", "idem", "lookup", "handler"}
Reading == {"overrides", "cache", "config", "scan"}
Resolves(c) == resolve_settings(c) \/ resolve_policy(c) \/ proxy_config(c) \/ cache_miss(c)

\* A step of a request keeps who sent it and what was sent, and never goes back;
\* only the lookup gives it a response to replay.
SameSender(r, s) ==
    /\ DOMAIN s = Fields
    /\ s.key = r.key /\ s.body = r.body /\ s.replay = r.replay /\ (r.unmetered => s.unmetered)
    /\ r.pc # "idle" /\ s.pc # "idle" /\ (s.pc \in Paying => r.pc \in Paying)

LEMMA ServeSame ==
    ASSUME RequestsOK, NEW c \in Clients, Serve(c), ~idem_lookup(c)
    PROVE  \E s : Goto(c, s) /\ SameSender(req[c], s) /\ (s.pc \in Reading => Resolves(c))
<1>1. PICK r : r = req[c] /\ DOMAIN r = Fields
  BY DEF RequestsOK, RequestOK
<1> SUFFICES \E s : Goto(c, s) /\ SameSender(r, s) /\ (s.pc \in Reading => Resolves(c))
  BY <1>1
<1> DEFINE Goes(s) == SameSender(r, s) /\ s.pc \notin Reading
           Ends(s, a) == s = [r EXCEPT !.pc = "store", !.answer = a]
           Turned(s, a) == s = [r EXCEPT !.pc = "answered", !.answer = a]
<1>2. ASSUME NEW s, NEW a, Ends(s, a) \/ Turned(s, a), r.pc # "idle"
      PROVE  Goes(s)
  BY <1>1, <1>2, ZenonT(60) DEF SameSender, Paying, Reading, Fields
<1>11. CASE idem_store(c)
  <2>1. r.pc # "idle"
    BY <1>1, <1>11 DEF idem_store, At
  <2>2. PICK s : Goto(c, s) /\ (s = [r EXCEPT !.pc = "answered"] \/ s = [[r EXCEPT !.pc = "answered"] EXCEPT !.answer = Lost])
    BY <1>1, <1>11 DEF idem_store, Step
  <2>3. Goes(s)
    BY <1>1, <2>1, <2>2, ZenonT(60) DEF SameSender, Fields, Paying, Reading
  <2> QED BY <2>2, <2>3
<1>3. CASE authenticate_api_key(c) \/ tenant_read(c) \/ tenant_store(c) \/ idem_claim(c)
  <2>1. r.pc \in Paying /\ r.pc # "idle"
    BY <1>1, <1>3 DEF authenticate_api_key, tenant_read, tenant_store, idem_claim, At, Paying
  <2>2. PICK s, x : /\ Goto(c, s)
                    /\ \/ Turned(s, Refused) \/ s = [[r EXCEPT !.row = x] EXCEPT !.pc = "tenant"]
                       \/ s = [[r EXCEPT !.row = x] EXCEPT !.pc = "idem"]
                       \/ s = [[r EXCEPT !.row = x] EXCEPT !.pc = "answered", !.answer = Refused]
                       \/ s = [r EXCEPT !.pc = "tenant_store", !.status = x]
                       \/ s = [r EXCEPT !.pc = "idem"] \/ s = [r EXCEPT !.pc = "handler"]
                       \/ s = [[r EXCEPT !.pc = "lookup"] EXCEPT !.late = x]
    <3>1. CASE authenticate_api_key(c)
      BY <1>1, <3>1 DEF authenticate_api_key, Reject
    <3>2. CASE tenant_read(c) \/ tenant_store(c)
      BY <1>1, <3>2 DEF tenant_read, tenant_store, Step, Reject
    <3>3. CASE idem_claim(c)
      BY <1>1, <3>3 DEF idem_claim, Step
    <3> QED BY <1>3, <3>1, <3>2, <3>3
  <2>3. Goes(s)
    BY <1>1, <2>1, <2>2, ZenonT(60) DEF SameSender, Paying, Reading, Fields
  <2> QED BY <2>2, <2>3
<1>4. CASE resolve_settings(c) \/ resolve_policy(c) \/ proxy_config(c) \/ cache_miss(c)
  <2>1. r.pc # "idle"
    BY <1>1, <1>4 DEF resolve_settings, resolve_policy, proxy_config, cache_miss, At
  <2>2. PICK s, x, y : /\ Goto(c, s)
                       /\ \/ \E a : Ends(s, a)
                          \/ s = [[r EXCEPT !.policy = x] EXCEPT !.pc = "store", !.answer = Refused]
                          \/ s = [[r EXCEPT !.policy = x] EXCEPT !.pc = y] /\ y \in {"scan", "config", "cache"}
                          \/ s = [[r EXCEPT !.pc = "overrides"] EXCEPT !.policy = x, !.unmetered = @ \/ y]
                          \/ s = [[r EXCEPT !.pc = "scan"] EXCEPT !.target = x, !.unmetered = @ \/ y]
                          \/ s = [r EXCEPT !.pc = "scan"]
    <3>1. CASE resolve_settings(c)
      BY <1>1, <3>1 DEF resolve_settings, Step, Answer
    <3>2. CASE resolve_policy(c)
      <4>1. PICK p, after : /\ after \in {"scan", "config", "cache"}
                            /\ \/ \E a : Goto(c, [r EXCEPT !.pc = "store", !.answer = a])
                               \/ Goto(c, [[r EXCEPT !.policy = p] EXCEPT !.pc = "store", !.answer = Refused])
                               \/ Goto(c, [[r EXCEPT !.policy = p] EXCEPT !.pc = after])
        BY <1>1, <3>2 DEF resolve_policy, Answer
      <4> QED BY <4>1
    <3>3. CASE proxy_config(c)
      BY <1>1, <3>3 DEF proxy_config, Step, Answer
    <3>4. CASE cache_miss(c)
      BY <1>1, <3>4 DEF cache_miss, Step, Answer
    <3> QED BY <1>4, <3>1, <3>2, <3>3, <3>4
  <2>3. SameSender(r, s)
    <3>1. CASE \E a : Ends(s, a)
      BY <1>2, <2>1, <3>1
    <3>2. CASE s = [[r EXCEPT !.policy = x] EXCEPT !.pc = "store", !.answer = Refused]
      BY <1>1, <2>1, <3>2, ZenonT(60) DEF SameSender, Fields, Paying
    <3>3. CASE (s = [[r EXCEPT !.policy = x] EXCEPT !.pc = y] /\ y \in {"scan", "config", "cache"})
               \/ s = [r EXCEPT !.pc = "scan"]
      BY <1>1, <2>1, <3>3, ZenonT(60) DEF SameSender, Fields, Paying
    <3>4. CASE \/ s = [[r EXCEPT !.pc = "overrides"] EXCEPT !.policy = x, !.unmetered = @ \/ y]
               \/ s = [[r EXCEPT !.pc = "scan"] EXCEPT !.target = x, !.unmetered = @ \/ y]
      BY <1>1, <2>1, <3>4, ZenonT(60) DEF SameSender, Fields, Paying
    <3> QED BY <2>2, <3>1, <3>2, <3>3, <3>4
  <2> QED BY <1>4, <2>2, <2>3 DEF Resolves
<1>5. CASE cache_hit(c)
  <2>1. r.pc # "idle"
    BY <1>1, <1>5 DEF cache_hit, At
  <2>2. PICK e, x : e = (CHOOSE y \in cache : y.key = cache_key(req[c])) /\ x = <<cache_hit_audit(e.answer)>>
    OBVIOUS
  <2>3. PICK a : a = restrict_layer_scores(c, e.answer)
    OBVIOUS
  <2>4. \/ Goto(c, [[r EXCEPT !.hit = TRUE, !.events = 1, !.audited = x] EXCEPT !.pc = "store", !.answer = a])
        \/ Goto(c, [r EXCEPT !.pc = "store", !.answer = ServerError])
    BY <1>1, <1>5, <2>2, <2>3 DEF cache_hit, Answer
  <2>5. Goes([[r EXCEPT !.hit = TRUE, !.events = 1, !.audited = x] EXCEPT !.pc = "store", !.answer = a])
    BY <1>1, <2>1 DEF SameSender, Paying, Reading, Fields
  <2> QED BY <1>2, <2>1, <2>4, <2>5
<1>6. CASE ai_scan(c) \/ ai_scan_batch(c) \/ proxy_scan(c)
  <2>1. r.pc # "idle"
    BY <1>1, <1>6 DEF ai_scan, ai_scan_batch, proxy_scan, Doing, At
  <2>2. PICK x \in ScanOutcomes(c) : \E p \in {"provider", "audit"} : \E o :
           \/ Goto(c, [Judged(c, x) EXCEPT !.pc = p])
           \/ Goto(c, [Judged(c, x) EXCEPT !.pc = p, !.events = 1, !.outcome = o])
    <3>1. CASE ai_scan(c)
      BY <3>1 DEF ai_scan, Scan
    <3>2. CASE ai_scan_batch(c)
      BY <3>2 DEF ai_scan_batch, Scan
    <3>3. CASE proxy_scan(c)
      <4>1. PICK x \in ScanOutcomes(c) :
               Scan(c, x, [Judged(c, x) EXCEPT !.pc = IF Strictest(x.results) = "BLOCK" THEN "audit" ELSE "provider",
                                               !.events = 1,
                                               !.outcome = IF Strictest(x.results) = "BLOCK" THEN "BLOCKED" ELSE NoVal])
        BY <3>3 DEF proxy_scan
      <4>2. PICK p \in {"provider", "audit"}, o \in {"BLOCKED", NoVal} :
               /\ p = (IF Strictest(x.results) = "BLOCK" THEN "audit" ELSE "provider")
               /\ o = (IF Strictest(x.results) = "BLOCK" THEN "BLOCKED" ELSE NoVal)
        OBVIOUS
      <4> QED BY <4>1, <4>2 DEF Scan
    <3> QED BY <1>6, <3>1, <3>2, <3>3
  <2>3. PICK m : m = Judged(c, x)
    OBVIOUS
  <2>4. DOMAIN m = Fields /\ m.key = r.key /\ m.body = r.body /\ m.replay = r.replay /\ m.unmetered = r.unmetered
    BY <1>1, <2>3 DEF Judged, Fields
  <2>5. ASSUME NEW p \in {"provider", "audit"}, NEW o
        PROVE  Goes([m EXCEPT !.pc = p]) /\ Goes([m EXCEPT !.pc = p, !.events = 1, !.outcome = o])
    BY <2>1, <2>4, ZenonT(60) DEF SameSender, Paying, Reading, Fields
  <2> QED BY <2>2, <2>3, <2>5
<1>7. CASE \/ llm_fails(c) \/ provider_config_error(c) \/ provider_times_out(c) \/ provider_malformed(c)
           \/ provider_unavailable(c) \/ provider_unsupported(c)
           \/ \E t \in Replies : call_llm(c, t) \/ chat_completions(c, t)
  <2>1. r.pc # "idle"
    BY <1>1, <1>7 DEF llm_fails, provider_config_error, provider_times_out, provider_malformed, provider_unavailable,
         provider_unsupported, call_llm, chat_completions, UpstreamFails, Forwarded, Doing, At
  <2>2. ASSUME NEW m, NEW z, Goes(m), Goto(c, [m EXCEPT !.sent = z])
        PROVE  \E s : Goto(c, s) /\ Goes(s)
    BY <2>2 DEF SameSender, Paying, Reading, Fields
  <2>3. CASE provider_config_error(c)
    <3>1. Goto(c, [r EXCEPT !.pc = "store", !.answer = ServerError])
      BY <1>1, <2>3 DEF provider_config_error, Answer
    <3> QED BY <1>2, <2>1, <3>1
  <2>4. CASE llm_fails(c)
    <3>1. PICK m, z : m = [[r EXCEPT !.pc = "audit"] EXCEPT !.answer.kind = "error"] /\ z = Outgoing(c)
      OBVIOUS
    <3>2. Goto(c, [m EXCEPT !.sent = z])
      BY <1>1, <2>4, <3>1 DEF llm_fails, Sent, Step
    <3>3. Goes(m)
      BY <1>1, <2>1, <3>1 DEF SameSender, Paying, Reading, Fields
    <3> QED BY <2>2, <3>2, <3>3
  <2>5. ASSUME NEW t \in Replies, call_llm(c, t) \/ chat_completions(c, t)
        PROVE  \E s : Goto(c, s) /\ Goes(s)
    <3>1. PICK m, z : m = [[r EXCEPT !.pc = "output"] EXCEPT !.answer.output = t] /\ z = Outgoing(c)
      OBVIOUS
    <3>2. Goto(c, [m EXCEPT !.sent = z])
      BY <1>1, <2>5, <3>1 DEF call_llm, chat_completions, Forwarded, Sent, Step
    <3>3. Goes(m)
      BY <1>1, <2>1, <3>1 DEF SameSender, Paying, Reading, Fields
    <3> QED BY <2>2, <3>2, <3>3
  <2>6. CASE provider_times_out(c) \/ provider_malformed(c) \/ provider_unavailable(c) \/ provider_unsupported(c)
    <3>1. PICK o, a : UpstreamFails(c, o, a)
      BY <2>6 DEF provider_times_out, provider_malformed, provider_unavailable, provider_unsupported
    <3>2. PICK m, z : m = [[r EXCEPT !.pc = "audit"] EXCEPT !.outcome = o, !.answer = a] /\ z = Outgoing(c)
      OBVIOUS
    <3>3. Goto(c, [m EXCEPT !.sent = z])
      BY <1>1, <3>1, <3>2 DEF UpstreamFails, Forwarded, Sent, Step
    <3>4. Goes(m)
      BY <1>1, <2>1, <3>2 DEF SameSender, Paying, Reading, Fields
    <3> QED BY <2>2, <3>3, <3>4
  <2> QED BY <1>7, <2>3, <2>4, <2>5, <2>6
<1>8. CASE guard_completion(c) \/ guard_proxied(c)
  <2>1. r.pc # "idle"
    BY <1>1, <1>8 DEF guard_completion, guard_proxied, Doing, At
  <2>2. PICK s, a, o : Goto(c, s) /\ \/ s = [[r EXCEPT !.pc = "audit"] EXCEPT !.answer = a]
                                     \/ s = [[r EXCEPT !.pc = "audit"] EXCEPT !.answer = a, !.outcome = o]
    <3>1. CASE guard_completion(c)
      <4>1. PICK f \in BOOLEAN :
               Goto(c, [[r EXCEPT !.pc = "audit"] EXCEPT !.answer = Passed(@, output_inspect(r.answer.output, f))])
        BY <1>1, <3>1 DEF guard_completion, Inspect, Step
      <4>2. PICK a : a = Passed([r EXCEPT !.pc = "audit"].answer, output_inspect(r.answer.output, f))
        OBVIOUS
      <4> QED BY <4>1, <4>2
    <3>2. CASE guard_proxied(c)
      <4>1. PICK f \in BOOLEAN :
               Goto(c, [[r EXCEPT !.pc = "audit"] EXCEPT
                          !.answer = Passed(@, output_inspect(r.answer.output, f)),
                          !.outcome = IF output_inspect(r.answer.output, f).decision = "BLOCK"
                                      THEN "OUTPUT_BLOCKED" ELSE "SUCCESS"])
        BY <1>1, <3>2 DEF guard_proxied, Inspect, Step
      <4>2. PICK a, o : /\ a = Passed([r EXCEPT !.pc = "audit"].answer, output_inspect(r.answer.output, f))
                        /\ o = (IF output_inspect(r.answer.output, f).decision = "BLOCK"
                                THEN "OUTPUT_BLOCKED" ELSE "SUCCESS")
        OBVIOUS
      <4> QED BY <4>1, <4>2
    <3> QED BY <1>8, <3>1, <3>2
  <2>3. Goes(s)
    BY <1>1, <2>1, <2>2, ZenonT(60) DEF SameSender, Paying, Reading, Fields
  <2> QED BY <2>2, <2>3
<1>9. CASE audit_scan(c) \/ audit_batch(c) \/ log_interaction(c)
  <2>1. r.pc # "idle"
    BY <1>1, <1>9 DEF audit_scan, audit_batch, log_interaction, Doing, At
  <2>2. CASE audit_scan(c)
    <3>1. PICK row, a, p : /\ row = build_audit_data(c, 1)
                           /\ a = (IF r.answer.kind = "error" THEN ServerError ELSE r.answer)
                           /\ p = (IF r.answer.kind = "error" THEN "store" ELSE "respond")
      OBVIOUS
    <3>2. PICK s : /\ Goto(c, s)
                   /\ \/ Ends(s, ServerError)
                      \/ s = [[r EXCEPT !.pc = p] EXCEPT !.audited = <<row>>, !.events = 1, !.answer = a]
      BY <1>1, <2>2, <3>1 DEF audit_scan, Answer, Step
    <3>3. p \in {"store", "respond"}
      BY <3>1
    <3>4. Goes(s)
      BY <1>1, <1>2, <2>1, <3>2, <3>3, ZenonT(60) DEF SameSender, Paying, Reading, Fields
    <3> QED BY <3>2, <3>4
  <2>3. CASE audit_batch(c)
    <3> DEFINE Rows(n) == [i \in 1..n |-> build_audit_data(c, i)]
               total == Len(Messages(c))
               whole == restrict_layer_scores(c, build_response(req[c].answer.decision, NoVal, req[c].results))
    <3>1. \/ Goto(c, [Answer(r, whole) EXCEPT !.audited = Rows(total), !.events = total])
          \/ \E n \in 0..(total - 1) : Goto(c, [Answer(r, ServerError) EXCEPT !.audited = Rows(n)])
      BY <1>1, <2>3 DEF audit_batch
    <3> HIDE DEF Rows, total, whole
    <3>2. Goes([Answer(r, whole) EXCEPT !.audited = Rows(total), !.events = total])
      BY <1>1, <2>1 DEF SameSender, Paying, Reading, Fields, Answer
    <3>3. \A n : Goes([Answer(r, ServerError) EXCEPT !.audited = Rows(n)])
      BY <1>1, <2>1 DEF SameSender, Paying, Reading, Fields, Answer
    <3> QED BY <3>1, <3>2, <3>3
  <2>4. CASE log_interaction(c)
    <3>1. PICK rs, o : rs = [i \in DOMAIN req[c].results |-> segment_audit_row(c, i)] /\ o = req[c].outcome
      OBVIOUS
    <3>2. PICK s : /\ Goto(c, s)
                   /\ \/ s = [r EXCEPT !.pc = "respond"]
                      \/ s = [[r EXCEPT !.pc = "respond"] EXCEPT !.logged = o]
                      \/ s = [[[r EXCEPT !.pc = "respond"] EXCEPT !.logged = o] EXCEPT !.audited = rs]
      BY <1>1, <2>4, <3>1 DEF log_interaction, Step
    <3>3. Goes(s)
      BY <1>1, <2>1, <3>2, ZenonT(60) DEF SameSender, Paying, Reading, Fields
    <3> QED BY <3>2, <3>3
  <2> QED BY <1>9, <2>2, <2>3, <2>4
<1>10. CASE ai_respond(c) \/ proxy_respond(c)
  <2>1. r.pc # "idle"
    BY <1>1, <1>10 DEF ai_respond, proxy_respond, Doing, At
  <2>2. PICK s, a : Goto(c, s) /\ Ends(s, a)
    BY <1>1, <1>10 DEF ai_respond, proxy_respond, Answer
  <2> QED BY <1>2, <2>1, <2>2
<1> QED BY <1>3, <1>4, <1>5, <1>6, <1>7, <1>8, <1>9, <1>10, <1>11 DEF Serve
-----------------------------------------------------------------------------
(* What the command has told *)

CliFields == {"pc", "command", "line", "body", "attempt", "on", "processed", "verdicts", "error", "block", "interrupted"}

\* The prompts among the first n lines.
Prompts(n) == {m \in 1..n : Scannable(m)}
Blocked(r) == \E n \in DOMAIN r.verdicts : r.verdicts[n].decision = "BLOCK"

\* As long as nothing failed, batch has a verdict for every prompt before its
\* line, has counted them, and has noted whether one was blocked.
BatchOK(r) ==
    r.command = "batch" /\ ~r.error /\ r.pc # "off" =>
        /\ r.line \in 1..(Len(File) + 1)
        /\ DOMAIN r.verdicts = Prompts(r.line - 1)
        /\ r.processed = Cardinality(Prompts(r.line - 1)) /\ r.processed <= LineLimit
        /\ r.block <=> Blocked(r)
        /\ r.pc \in {"send", "wait"} => r.processed < LineLimit
        /\ r.pc = "exit" => r.line \notin DOMAIN File \/ r.processed >= LineLimit

\* scan has the verdict of its text when it ends, or has failed.
ScanOK(r) ==
    r.command = "scan" /\ ~r.error =>
        /\ r.pc \in {"next", "send", "wait"} => DOMAIN r.verdicts = {} /\ ~r.block
        /\ r.pc = "exit" => DOMAIN r.verdicts = {r.line} /\ (r.block <=> Blocked(r))

\* A verdict is one on the text of its line, and what is sent is that text.
TextOK(r) ==
    /\ \A n \in DOMAIN r.verdicts : n \in DOMAIN File /\ r.verdicts[n].of = File[n].body.items
    /\ r.pc \in {"send", "wait"} =>
          /\ r.line \in DOMAIN File /\ Scannable(r.line)
          /\ r.body.items = File[r.line].body.items /\ r.body.idem \in IdemKeys /\ r.body \in Bodies

CliType(r) ==
    /\ DOMAIN r = CliFields /\ r.command \in {"batch", "scan"} /\ r.pc \in {"off", "next", "send", "wait", "exit"}
    /\ r.error \in BOOLEAN /\ r.block \in BOOLEAN
    /\ r.pc = "off" => r.command = "batch"
CommandOK(r) == CliType(r) /\ TextOK(r) /\ BatchOK(r) /\ ScanOK(r)

LEMMA Lines == Len(File) \in Nat /\ DOMAIN File = 1..Len(File) /\ LineLimit \in Nat \ {0}
  BY SdkAssumption DEF SdkAssumption

LEMMA PromptsFinite ==
    ASSUME NEW n \in Int
    PROVE  IsFiniteSet(Prompts(n)) /\ Cardinality(Prompts(n)) \in Nat
<1>1. IsFiniteSet(1..n)
  BY FS_Interval
<1>2. Prompts(n) \subseteq 1..n
  BY DEF Prompts
<1> QED BY <1>1, <1>2, FS_Subset, FS_CardinalityType

LEMMA PromptsNext ==
    ASSUME NEW n \in Nat \ {0}
    PROVE  /\ Scannable(n) => /\ Prompts(n) = Prompts(n - 1) \cup {n}
                              /\ Cardinality(Prompts(n)) = Cardinality(Prompts(n - 1)) + 1
           /\ ~Scannable(n) => Prompts(n) = Prompts(n - 1)
<1>1. IsFiniteSet(Prompts(n - 1)) /\ n \notin Prompts(n - 1)
  BY PromptsFinite DEF Prompts
<1>2. Scannable(n) => Prompts(n) = Prompts(n - 1) \cup {n}
  BY DEF Prompts
<1>3. ~Scannable(n) => Prompts(n) = Prompts(n - 1)
  BY DEF Prompts
<1> QED BY <1>1, <1>2, <1>3, FS_AddElement

LEMMA PromptsGrow ==
    ASSUME NEW m \in Int, NEW n \in Int, m <= n
    PROVE  /\ Cardinality(Prompts(m)) <= Cardinality(Prompts(n))
           /\ m < n /\ n > 0 /\ Scannable(n) => Cardinality(Prompts(m)) < Cardinality(Prompts(n))
<1>1. Prompts(m) \subseteq Prompts(n) /\ IsFiniteSet(Prompts(n))
  BY PromptsFinite DEF Prompts
<1>2. ASSUME m < n, n > 0, Scannable(n)
      PROVE  n \in Prompts(n) /\ n \notin Prompts(m)
  BY <1>2 DEF Prompts
<1>3. IsFiniteSet(Prompts(m)) /\ Cardinality(Prompts(m)) \in Nat /\ Cardinality(Prompts(n)) \in Nat
  BY PromptsFinite
<1>4. Cardinality(Prompts(m)) <= Cardinality(Prompts(n))
  BY <1>1, FS_Subset
<1>5. ASSUME m < n, n > 0, Scannable(n)
      PROVE  Cardinality(Prompts(m)) < Cardinality(Prompts(n))
  <2>1. Prompts(n) # Prompts(m)
    BY <1>2, <1>5
  <2>2. Cardinality(Prompts(m)) # Cardinality(Prompts(n))
    BY <1>1, <2>1, FS_Subset
  <2> QED BY <1>3, <1>4, <2>2
<1> QED BY <1>4, <1>5

\* A command that has failed says so until it ends.
LEMMA FailedOK ==
    ASSUME NEW r, CliType(r), TextOK(r), NEW s, DOMAIN s = CliFields, s.command = r.command, s.error = TRUE,
           s.block \in BOOLEAN, s.verdicts = r.verdicts, s.pc \in {"next", "exit"}
    PROVE  CommandOK(s)
  BY DEF CommandOK, CliType, TextOK, BatchOK, ScanOK

LEMMA Failures ==
    ASSUME NEW r, CliType(r), TextOK(r)
    PROVE  LET f == [r EXCEPT !.error = TRUE] IN
           /\ CommandOK(NextLine(f)) /\ CommandOK(Exits(f)) /\ CommandOK(scan_ends(f))
           /\ CommandOK(Exits([r EXCEPT !.error = TRUE, !.on = NoVal]))
<1>1. PICK f, g : f = [r EXCEPT !.error = TRUE] /\ g = [r EXCEPT !.error = TRUE, !.on = NoVal]
  OBVIOUS
<1>2. \A h \in {f, g} : /\ DOMAIN h = CliFields /\ h.command = r.command /\ h.error = TRUE
                        /\ h.block \in BOOLEAN /\ h.verdicts = r.verdicts
  <2>1. DOMAIN r = CliFields /\ r.block \in BOOLEAN
    BY DEF CliType
  <2>2. DOMAIN f = CliFields /\ f.command = r.command /\ f.error = TRUE /\ f.block = r.block /\ f.verdicts = r.verdicts
    BY <1>1, <2>1 DEF CliFields
  <2>3. DOMAIN g = CliFields /\ g.command = r.command /\ g.error = TRUE /\ g.block = r.block /\ g.verdicts = r.verdicts
    BY <1>1, <2>1 DEF CliFields
  <2> QED BY <2>1, <2>2, <2>3
<1>3. ASSUME NEW h, DOMAIN h = CliFields, h.command = r.command, h.error = TRUE, h.block \in BOOLEAN,
             h.verdicts = r.verdicts
      PROVE  CommandOK(NextLine(h)) /\ CommandOK(Exits(h)) /\ CommandOK(scan_ends(h))
  <2>1. PICK s : s = Exits(h)
    OBVIOUS
  <2>2. DOMAIN s = CliFields /\ s.command = r.command /\ s.error = TRUE /\ s.block \in BOOLEAN
        /\ s.verdicts = r.verdicts /\ s.pc = "exit"
    BY <1>3, <2>1 DEF Exits, CliFields
  <2>3. PICK t : t = scan_ends(h)
    OBVIOUS
  <2>4. DOMAIN t = CliFields /\ t.command = r.command /\ t.error = TRUE /\ t.block \in BOOLEAN
        /\ t.verdicts = r.verdicts /\ t.pc = "exit"
    BY <1>3, <2>3 DEF scan_ends, CliFields
  <2>5. PICK u : u = [h EXCEPT !.pc = "next", !.line = @ + 1, !.body = NoVal, !.attempt = 0, !.on = NoVal]
    OBVIOUS
  <2>6. DOMAIN u = CliFields /\ u.command = r.command /\ u.error = TRUE /\ u.block \in BOOLEAN
        /\ u.verdicts = r.verdicts /\ u.pc = "next"
    BY <1>3, <2>5 DEF CliFields
  <2>7. NextLine(h) = t \/ NextLine(h) = u
    BY <2>3, <2>5 DEF NextLine
  <2> QED BY <2>1, <2>2, <2>3, <2>4, <2>6, <2>7, FailedOK
<1> QED BY <1>1, <1>2, <1>3

\* Another attempt, or none.
LEMMA RetryOK ==
    ASSUME NEW r, CommandOK(r), r.pc = "wait"
    PROVE  CommandOK(with_retry(r))
<1>1. PICK s : s = [r EXCEPT !.pc = "send", !.attempt = @ + 1, !.on = NoVal]
  OBVIOUS
<1>2. /\ DOMAIN s = CliFields /\ s.pc = "send" /\ s.command = r.command /\ s.line = r.line /\ s.body = r.body
      /\ s.processed = r.processed /\ s.verdicts = r.verdicts /\ s.error = r.error /\ s.block = r.block
  BY <1>1 DEF CommandOK, CliType, CliFields
<1>3. CommandOK(s)
  BY <1>2 DEF CommandOK, CliType, TextOK, BatchOK, ScanOK, Blocked
<1> QED BY <1>1, <1>3, Failures DEF with_retry, CommandOK

\* What one verdict adds to those of a command.
LEMMA OneMoreVerdict ==
    ASSUME NEW r, NEW v, NEW V, r.line \notin DOMAIN r.verdicts,
           V = [n \in DOMAIN r.verdicts \cup {r.line} |-> IF n = r.line THEN v ELSE r.verdicts[n]]
    PROVE  (\E n \in DOMAIN V : V[n].decision = "BLOCK") <=> Blocked(r) \/ v.decision = "BLOCK"
  BY DEF Blocked

\* A result is counted, is told, and counts as an error if the scan failed.
LEMMA ResultOK ==
    ASSUME NEW r, CommandOK(r), r.pc = "wait", NEW a, NEW of, of = File[r.line].body.items
    PROVE  CommandOK(batch_result(r, a, of))
<1>1. PICK code, v : code = get_scan_exit_code(a) /\ v = [decision |-> a.decision, of |-> of]
  OBVIOUS
<1>2. v.decision = a.decision /\ v.of = of /\ (code # 1 => (code = 2 <=> v.decision = "BLOCK"))
  BY <1>1 DEF get_scan_exit_code
<1>3. PICK V : V = [n \in DOMAIN r.verdicts \cup {r.line} |-> IF n = r.line THEN v ELSE r.verdicts[n]]
  OBVIOUS
<1>4. PICK e, b : e = (r.error \/ code = 1) /\ b = (r.block \/ code = 2)
  OBVIOUS
<1>5. PICK m : m = [r EXCEPT !.processed = @ + 1, !.error = e, !.block = b, !.verdicts = V]
  OBVIOUS
<1>6. /\ DOMAIN r = CliFields /\ r.command \in {"batch", "scan"} /\ r.error \in BOOLEAN /\ r.block \in BOOLEAN
      /\ e \in BOOLEAN /\ b \in BOOLEAN
  BY <1>4 DEF CommandOK, CliType
<1>7. /\ DOMAIN m = CliFields /\ m.command = r.command /\ m.line = r.line /\ m.processed = r.processed + 1
      /\ m.error = e /\ m.block = b /\ m.verdicts = V
  BY <1>5, <1>6 DEF CliFields
<1>8. batch_result(r, a, of) = NextLine(m)
  BY <1>1, <1>3, <1>4, <1>5 DEF batch_result
<1>9. /\ r.line \in DOMAIN File /\ Scannable(r.line)
      /\ \A n \in DOMAIN V : n \in DOMAIN File /\ V[n].of = File[n].body.items
  BY <1>2, <1>3 DEF CommandOK, TextOK
<1>10. ASSUME r.line \notin DOMAIN r.verdicts, ~e
       PROVE  (\E n \in DOMAIN V : V[n].decision = "BLOCK") <=> Blocked(r) \/ code = 2
  <2>1. (\E n \in DOMAIN V : V[n].decision = "BLOCK") <=> Blocked(r) \/ v.decision = "BLOCK"
    BY <1>3, <1>10, OneMoreVerdict, SMTT(30)
  <2>2. code # 1
    BY <1>4, <1>10
  <2> QED BY <1>2, <2>1, <2>2
<1>11. CASE r.command = "scan"
  <2>1. PICK s : s = scan_ends(m)
    OBVIOUS
  <2>2. /\ DOMAIN s = CliFields /\ s.command = "scan" /\ s.line = r.line /\ s.pc = "exit"
        /\ s.error = e /\ s.block = b /\ s.verdicts = V
    BY <1>7, <1>11, <2>1 DEF scan_ends, CliFields
  <2>3. ASSUME ~e
        PROVE  DOMAIN V = {r.line} /\ (b <=> \E n \in DOMAIN V : V[n].decision = "BLOCK")
    <3>1. DOMAIN r.verdicts = {} /\ ~r.block
      BY <1>4, <1>11, <2>3 DEF CommandOK, ScanOK
    <3>2. ~Blocked(r)
      BY <3>1 DEF Blocked
    <3> QED BY <1>3, <1>4, <1>10, <2>3, <3>1, <3>2
  <2>4. CliType(s) /\ TextOK(s) /\ BatchOK(s)
    BY <1>6, <1>9, <2>2 DEF CliType, TextOK, BatchOK
  <2>5. ScanOK(s)
    BY <1>6, <2>2, <2>3 DEF ScanOK, Blocked
  <2> QED BY <1>7, <1>8, <1>11, <2>1, <2>4, <2>5 DEF CommandOK, NextLine
<1>12. CASE r.command = "batch"
  <2>1. PICK s : s = [m EXCEPT !.pc = "next", !.line = @ + 1, !.body = NoVal, !.attempt = 0, !.on = NoVal]
    OBVIOUS
  <2>2. /\ DOMAIN s = CliFields /\ s.command = "batch" /\ s.line = r.line + 1 /\ s.pc = "next"
        /\ s.processed = r.processed + 1 /\ s.error = e /\ s.block = b /\ s.verdicts = V
    BY <1>7, <1>12, <2>1 DEF CliFields
  <2>3. CliType(s) /\ TextOK(s) /\ ScanOK(s)
    BY <1>6, <1>9, <2>2 DEF CliType, TextOK, ScanOK
  <2>4. ASSUME ~e
        PROVE  BatchOK(s)
    <3>1. /\ r.line \in 1..(Len(File) + 1) /\ DOMAIN r.verdicts = Prompts(r.line - 1)
          /\ r.processed = Cardinality(Prompts(r.line - 1)) /\ r.processed < LineLimit
          /\ r.block <=> Blocked(r)
      BY <1>4, <1>12, <2>4 DEF CommandOK, BatchOK
    <3>2. r.line \in Nat \ {0} /\ r.line <= Len(File) /\ Len(File) \in Nat /\ LineLimit \in Nat
      BY <1>9, <3>1, Lines
    <3>3. /\ Prompts(r.line) = Prompts(r.line - 1) \cup {r.line}
          /\ Cardinality(Prompts(r.line)) = Cardinality(Prompts(r.line - 1)) + 1
          /\ r.processed \in Nat
      <4>1. PICK l \in Nat \ {0} : l = r.line
        BY <3>2
      <4>2. l - 1 \in Int /\ Scannable(l)
        BY <1>9, <4>1
      <4>3. Cardinality(Prompts(l - 1)) \in Nat
        BY <4>2, PromptsFinite
      <4>4. Prompts(l) = Prompts(l - 1) \cup {l} /\ Cardinality(Prompts(l)) = Cardinality(Prompts(l - 1)) + 1
        BY <4>2, PromptsNext
      <4> QED BY <3>1, <4>1, <4>3, <4>4
    <3>4. r.line \notin DOMAIN r.verdicts
      BY <3>1, <3>2 DEF Prompts
    <3>5. DOMAIN V = Prompts(r.line) /\ s.line - 1 = r.line
      BY <1>3, <2>2, <3>1, <3>2, <3>3
    <3>6. b <=> Blocked(s)
      BY <1>4, <1>10, <2>2, <2>4, <3>1, <3>4 DEF Blocked
    <3>7. /\ s.line \in 1..(Len(File) + 1) /\ s.processed <= LineLimit
          /\ s.processed = Cardinality(Prompts(s.line - 1))
      <4>1. s.processed = Cardinality(Prompts(r.line))
        BY <2>2, <3>1, <3>3
      <4>2. s.line \in 1..(Len(File) + 1) /\ s.processed <= LineLimit
        BY <2>2, <3>1, <3>2, <3>3
      <4> QED BY <3>5, <4>1, <4>2
    <3> QED BY <2>2, <3>5, <3>6, <3>7 DEF BatchOK
  <2>5. ASSUME e
        PROVE  BatchOK(s)
    BY <2>2, <2>5, Zenon DEF BatchOK
  <2> QED BY <1>6, <1>7, <1>8, <1>12, <2>1, <2>3, <2>4, <2>5 DEF CommandOK, NextLine
<1> QED BY <1>6, <1>11, <1>12

\* Every step of the command by itself.
LEMMA CommandSteps ==
    ASSUME CommandOK(cli),
           \/ batch_start \/ interrupt \/ batch_skip \/ times_out \/ scan_interrupted
           \/ \E n \in DOMAIN File : scan_start(n)
           \/ \E i \in IdemKeys : client_scan(i)
           \/ \E c \in Clients : execute_request(c)
    PROVE  CommandOK(cli')
<1>1. PICK r : r = cli
  OBVIOUS
<1>2. CommandOK(r) /\ CliType(r) /\ TextOK(r) /\ BatchOK(r) /\ ScanOK(r) /\ DOMAIN r = CliFields
  BY <1>1 DEF CommandOK, CliType
<1>3. CASE batch_start
  <2>1. PICK s : s = [NoCli EXCEPT !.pc = "next"]
    OBVIOUS
  <2>2. /\ DOMAIN s = CliFields /\ s.pc = "next" /\ s.command = "batch" /\ s.line = 1 /\ s.processed = 0
        /\ s.verdicts = <<>> /\ ~s.error /\ ~s.block /\ s.error \in BOOLEAN /\ s.block \in BOOLEAN
    BY <2>1 DEF NoCli, CliFields
  <2>3. Prompts(0) = {} /\ Cardinality(Prompts(0)) = 0 /\ DOMAIN s.verdicts = {}
    BY <2>2, FS_EmptySet DEF Prompts
  <2>4. s.line \in 1..(Len(File) + 1) /\ s.line - 1 = 0 /\ s.processed <= LineLimit
    BY <2>2, Lines
  <2>5. CliType(s) /\ TextOK(s) /\ ScanOK(s)
    BY <2>2, <2>3 DEF CliType, TextOK, ScanOK
  <2>6. BatchOK(s)
    BY <2>2, <2>3, <2>4 DEF BatchOK, Blocked
  <2> QED BY <1>3, <2>1, <2>5, <2>6 DEF batch_start, CommandOK
<1>4. CASE interrupt
  <2>1. PICK s : s = [r EXCEPT !.interrupted = TRUE]
    OBVIOUS
  <2>2. /\ DOMAIN s = CliFields /\ s.pc = r.pc /\ s.command = r.command /\ s.line = r.line /\ s.body = r.body
        /\ s.processed = r.processed /\ s.verdicts = r.verdicts /\ s.error = r.error /\ s.block = r.block
    BY <1>2, <2>1 DEF CliFields
  <2>3. CommandOK(s)
    BY <1>2, <2>2 DEF CommandOK, CliType, TextOK, BatchOK, ScanOK, Blocked
  <2> QED BY <1>1, <1>4, <2>1, <2>3 DEF interrupt
<1>5. CASE batch_skip
  <2>1. r.pc = "next" /\ r.command = "batch"
    BY <1>1, <1>5 DEF batch_skip, CliAt
  <2>2. CASE r.line \notin DOMAIN File \/ r.processed >= LineLimit
    <3>1. PICK s : s = Exits(r)
      OBVIOUS
    <3>2. /\ DOMAIN s = CliFields /\ s.pc = "exit" /\ s.command = r.command /\ s.line = r.line
          /\ s.processed = r.processed /\ s.verdicts = r.verdicts /\ s.error = r.error /\ s.block = r.block
      BY <1>2, <3>1 DEF Exits, CliFields
    <3>3. CommandOK(s)
      BY <1>2, <2>1, <2>2, <3>2 DEF CommandOK, CliType, TextOK, BatchOK, ScanOK, Blocked
    <3>4. cli' = s \/ cli' = Exits([r EXCEPT !.error = TRUE])
      BY <1>1, <1>5, <2>2, <3>1 DEF batch_skip
    <3> QED BY <1>2, <3>3, <3>4, Failures
  <2>3. CASE r.line \in DOMAIN File /\ ~(r.processed >= LineLimit) /\ r.interrupted
    BY <1>1, <1>2, <1>5, <2>3, Failures DEF batch_skip
  <2>4. CASE r.line \in DOMAIN File /\ ~(r.processed >= LineLimit) /\ ~r.interrupted
    <3>1. PICK s : s = [r EXCEPT !.pc = "next", !.line = @ + 1, !.body = NoVal, !.attempt = 0, !.on = NoVal]
      OBVIOUS
    <3>2. cli' = s
      BY <1>1, <1>5, <2>1, <2>4, <3>1 DEF batch_skip, NextLine
    <3>3. /\ DOMAIN s = CliFields /\ s.pc = "next" /\ s.command = r.command /\ s.line = r.line + 1
          /\ s.processed = r.processed /\ s.verdicts = r.verdicts /\ s.error = r.error /\ s.block = r.block
      BY <1>2, <3>1 DEF CliFields
    <3>4. CliType(s) /\ TextOK(s) /\ ScanOK(s)
      BY <1>2, <2>1, <3>3 DEF CliType, TextOK, ScanOK
    <3>5. ASSUME ~r.error
          PROVE  BatchOK(s)
      <4>1. /\ r.line \in 1..(Len(File) + 1) /\ DOMAIN r.verdicts = Prompts(r.line - 1)
            /\ r.processed = Cardinality(Prompts(r.line - 1)) /\ r.processed <= LineLimit
            /\ r.block <=> Blocked(r)
        BY <1>2, <2>1, <3>5 DEF BatchOK
      <4>2. PICK l \in Nat \ {0} : l = r.line /\ l <= Len(File) /\ Len(File) \in Nat /\ LineLimit \in Nat
        BY <2>4, <4>1, Lines
      <4>3. Cardinality(Prompts(l - 1)) \in Nat
        <5>1. PICK m \in Int : m = l - 1
          BY <4>2
        <5> QED BY <5>1, PromptsFinite
      <4>4. ~Scannable(l)
        BY <1>1, <1>5, <2>4, <4>1, <4>2, <4>3 DEF batch_skip
      <4>5. Prompts(l) = Prompts(l - 1)
        BY <4>4, PromptsNext
      <4>6. s.line - 1 = l /\ s.line \in 1..(Len(File) + 1)
        BY <3>3, <4>2
      <4>7. Blocked(s) <=> Blocked(r)
        BY <3>3 DEF Blocked
      <4> QED BY <3>3, <4>1, <4>2, <4>5, <4>6, <4>7 DEF BatchOK
    <3>6. ASSUME r.error
          PROVE  BatchOK(s)
      BY <3>3, <3>6, Zenon DEF BatchOK
    <3> QED BY <3>2, <3>4, <3>5, <3>6 DEF CommandOK
  <2> QED BY <2>2, <2>3, <2>4
<1>6. CASE times_out
  BY <1>1, <1>2, <1>6, RetryOK DEF times_out, CliAt
<1>7. CASE scan_interrupted
  BY <1>1, <1>2, <1>7, Failures DEF scan_interrupted
<1>8. ASSUME NEW n \in DOMAIN File, scan_start(n)
      PROVE  CommandOK(cli')
  <2>1. PICK s : s = [NoCli EXCEPT !.pc = "next", !.command = "scan", !.line = n]
    OBVIOUS
  <2>2. /\ DOMAIN s = CliFields /\ s.pc = "next" /\ s.command = "scan" /\ s.line = n
        /\ s.verdicts = <<>> /\ ~s.error /\ ~s.block /\ s.error \in BOOLEAN /\ s.block \in BOOLEAN
    BY <2>1 DEF NoCli, CliFields
  <2>3. DOMAIN s.verdicts = {}
    BY <2>2
  <2>4. CliType(s) /\ TextOK(s) /\ ScanOK(s) /\ BatchOK(s)
    BY <2>2, <2>3 DEF CliType, TextOK, ScanOK, BatchOK
  <2>5. cli' = s \/ cli' = scan_ends([s EXCEPT !.error = TRUE])
    BY <1>8, <2>1 DEF scan_start
  <2> QED BY <2>4, <2>5, Failures DEF CommandOK
<1>9. ASSUME NEW i \in IdemKeys, client_scan(i)
      PROVE  CommandOK(cli')
  <2>1. r.pc = "next" /\ r.line \in DOMAIN File /\ r.processed < LineLimit /\ Scannable(r.line)
    BY <1>1, <1>9 DEF client_scan, CliAt
  <2>2. PICK f \in Requests : f = File[r.line].body
    BY <2>1, SdkAssumption DEF SdkAssumption, Scannable
  <2>3. PICK b : b = [f EXCEPT !.idem = i]
    OBVIOUS
  <2>4. b \in Bodies /\ b.items = f.items /\ b.idem = i
    BY <2>3, GatewayAssumption DEF Bodies, GatewayAssumption
  <2>5. PICK s : s = [r EXCEPT !.pc = "send", !.attempt = 1, !.body = b]
    OBVIOUS
  <2>6. cli' = s
    BY <1>1, <1>9, <2>2, <2>3, <2>5 DEF client_scan
  <2>7. /\ DOMAIN s = CliFields /\ s.pc = "send" /\ s.command = r.command /\ s.line = r.line /\ s.body = b
        /\ s.processed = r.processed /\ s.verdicts = r.verdicts /\ s.error = r.error /\ s.block = r.block
    BY <1>2, <2>5 DEF CliFields
  <2>8. CommandOK(s)
    BY <1>2, <2>1, <2>2, <2>4, <2>7 DEF CommandOK, CliType, TextOK, BatchOK, ScanOK, Blocked
  <2> QED BY <2>6, <2>8
<1>10. ASSUME NEW c \in Clients, execute_request(c)
       PROVE  CommandOK(cli')
  <2>1. PICK s : s = [r EXCEPT !.pc = "wait", !.on = c]
    OBVIOUS
  <2>2. r.pc = "send" /\ cli' = s
    BY <1>1, <1>10, <2>1 DEF execute_request, CliAt
  <2>3. /\ DOMAIN s = CliFields /\ s.pc = "wait" /\ s.command = r.command /\ s.line = r.line /\ s.body = r.body
        /\ s.processed = r.processed /\ s.verdicts = r.verdicts /\ s.error = r.error /\ s.block = r.block
    BY <1>2, <2>1 DEF CliFields
  <2>4. CommandOK(s)
    BY <1>2, <2>2, <2>3 DEF CommandOK, CliType, TextOK, BatchOK, ScanOK, Blocked
  <2> QED BY <2>2, <2>4
<1> QED BY <1>3, <1>4, <1>5, <1>6, <1>7, <1>8, <1>9, <1>10

\* The answer that is taken.
LEMMA ReceiveOK ==
    ASSUME CommandOK(cli), NEW c \in Clients, receive(c),
           (IF req[c].replay = NoIdem THEN req[c].body ELSE req[c].replay.of).items = File[cli.line].body.items
    PROVE  CommandOK(cli')
<1>1. PICK r, of, a : /\ r = cli /\ a = req[c].answer
                      /\ of = (IF req[c].replay = NoIdem THEN req[c].body ELSE req[c].replay.of).items
  OBVIOUS
<1>2. CommandOK(r) /\ r.pc = "wait" /\ of = File[r.line].body.items
  BY <1>1 DEF receive, CliAt
<1>3. \/ cli' = batch_result(r, a, of) \/ cli' = Exits([r EXCEPT !.error = TRUE, !.on = NoVal])
      \/ cli' = with_retry(r) \/ cli' = NextLine([r EXCEPT !.error = TRUE])
  BY <1>1 DEF receive
<1> QED BY <1>2, <1>3, ResultOK, RetryOK, Failures DEF CommandOK
-----------------------------------------------------------------------------
(* The attempts of one call *)

\* No other request has the idempotency key of a call, and what an attempt of
\* it is answered with was reached on the body of the call.
AttemptOf(r, b) ==
    r.pc # "idle" /\ r.body.idem = b.idem =>
        r.key = CliKey /\ r.body = b /\ (r.replay # NoIdem => r.replay.of = b)
Responded(b) ==
    LET held == idem[<<CliKey, b.idem>>] IN held.answer # NoAnswer => held.of = b
CallKey(b) ==
    /\ \A q \in scope.requests : q.idem # b.idem
    /\ Responded(b)
    /\ \A c \in Clients : AttemptOf(req[c], b)
Sends(c, b) == req[c].pc # "idle" /\ req[c].body = b
CallOK ==
    cli.pc \in {"send", "wait"} =>
        /\ CallKey(cli.body)
        /\ cli.pc = "wait" => cli.on \in Clients /\ Sends(cli.on, cli.body)

\* One request changes.
LEMMA OneAttempt ==
    ASSUME RequestsOK, NEW b, CallKey(b), UNCHANGED scope, Responded(b)',
           NEW c \in Clients, NEW s, Goto(c, s), AttemptOf(s, b)
    PROVE  CallKey(b)'
<1>1. \A d \in Clients : req'[d] = IF d = c THEN s ELSE req[d]
  BY DEF RequestsOK, Goto
<1>2. ASSUME NEW d \in Clients
      PROVE  AttemptOf(req[d], b)'
  <2>1. PICK t : t = req'[d] /\ AttemptOf(t, b)
    BY <1>1 DEF CallKey
  <2> QED BY <2>1 DEF AttemptOf
<1> QED BY <1>2 DEF CallKey

\* A stored response that nobody writes stays, or goes.
LEMMA RespondedStays ==
    ASSUME NEW b, Responded(b), UNCHANGED idem
    PROVE  Responded(b)'
  BY DEF Responded

\* One slot changes.
LEMMA SlotWritten ==
    ASSUME ClaimsOK, NEW b, b.idem \in IdemKeys, Responded(b),
           NEW k \in Keys \X IdemKeys, NEW held, idem' = [idem EXCEPT ![k] = held],
           k = <<CliKey, b.idem>> => (held.answer # NoAnswer => held.of = b)
    PROVE  Responded(b)'
<1>1. PICK j \in Keys \X IdemKeys : j = <<CliKey, b.idem>>
  BY SdkAssumption DEF SdkAssumption
<1>2. idem'[j] = IF j = k THEN held ELSE idem[j]
  BY DEF ClaimsOK
<1> QED BY <1>1, <1>2 DEF Responded

LEMMA ServeCall ==
    ASSUME Inv, NEW c \in Clients, Serve(c), NEW b, b.idem \in IdemKeys, CallKey(b)
    PROVE  CallKey(b)' /\ \A d \in Clients : Sends(d, b) => Sends(d, b)'
<1>1. RequestsOK /\ ClaimsOK /\ Responded(b) /\ UNCHANGED scope
  BY ServeFrame DEF Inv, CallKey
<1>2. PICK r : r = req[c] /\ DOMAIN r = Fields /\ AttemptOf(r, b)
  BY <1>1 DEF RequestsOK, RequestOK, CallKey
<1>3. ASSUME NEW s, Goto(c, s), r.pc # "idle", s.pc # "idle", s.body = r.body
      PROVE  \A d \in Clients : Sends(d, b) => Sends(d, b)'
  BY <1>1, <1>2, <1>3 DEF Sends, Goto, RequestsOK
<1>4. CASE idem_lookup(c)
  <2>1. PICK held : held = idem[<<r.key, r.body.idem>>]
    OBVIOUS
  <2>2. PICK s : /\ Goto(c, s)
                 /\ \/ s = [r EXCEPT !.pc = "answered", !.answer = Refused]
                    \/ /\ held.answer # NoAnswer
                       /\ s = [r EXCEPT !.pc = "answered", !.answer = held.answer, !.replay = held]
                    \/ s = [r EXCEPT !.pc = "handler"]
    BY <1>2, <1>4, <2>1 DEF idem_lookup, Step, Reject, Slot
  <2>3. /\ DOMAIN s = Fields /\ s.key = r.key /\ s.body = r.body /\ s.pc # "idle"
        /\ s.replay = r.replay \/ (held.answer # NoAnswer /\ s.replay = held)
    BY <1>2, <2>2, ZenonT(60) DEF Fields
  <2>4. r.pc # "idle" /\ UNCHANGED idem
    BY <1>2, <1>4 DEF idem_lookup, At
  <2>5. AttemptOf(s, b)
    BY <1>1, <1>2, <2>1, <2>3, <2>4 DEF AttemptOf, Responded
  <2>6. Responded(b)'
    BY <1>1, <2>4, RespondedStays
  <2> QED BY <1>1, <1>3, <2>2, <2>3, <2>4, <2>5, <2>6, OneAttempt
<1>5. CASE ~idem_lookup(c)
  <2>1. PICK s : Goto(c, s) /\ SameSender(r, s)
    BY <1>1, <1>2, <1>5, ServeSame
  <2>2. AttemptOf(s, b)
    BY <1>2, <2>1 DEF AttemptOf, SameSender
  <2>3. Responded(b)'
    <3>1. CASE UNCHANGED idem
      BY <1>1, <3>1, RespondedStays
    <3>2. ASSUME UsesIdem(r.body), r.pc # "idle"
          PROVE  Slot(c) \in Keys \X IdemKeys
      BY <1>1, <1>2, <3>2, SlotKnown DEF UsesIdem, At
    <3>3. PICK k : k = Slot(c) /\ k = <<r.key, r.body.idem>>
      BY <1>2 DEF Slot
    <3>4. CASE idem_claim(c) /\ idem' # idem
      <4>1. UsesIdem(r.body) /\ r.pc # "idle" /\ idem' = [idem EXCEPT ![k].body = r.body]
        BY <1>2, <3>3, <3>4 DEF idem_claim, At
      <4>2. k \in Keys \X IdemKeys /\ DOMAIN idem[k] = IdemFields
        BY <1>1, <3>2, <3>3, <4>1 DEF ClaimsOK, ClaimOK
      <4>3. PICK held : held = [idem[k] EXCEPT !.body = r.body]
        OBVIOUS
      <4>4. held.answer = idem[k].answer /\ held.of = idem[k].of
        BY <4>2, <4>3 DEF IdemFields
      <4>5. idem' = [idem EXCEPT ![k] = held]
        BY <4>1, <4>3
      <4> QED BY <1>1, <4>2, <4>4, <4>5, SlotWritten DEF Responded
    <3>5. CASE idem_store(c) /\ idem' # idem
      <4>1. PICK f : f = (idem[k].body # r.body)
        OBVIOUS
      <4>2. /\ UsesIdem(r.body) /\ r.pc # "idle"
            /\ idem' = [idem EXCEPT ![k] = [@ EXCEPT !.answer = r.answer, !.of = r.body, !.foreign = f]]
        BY <1>2, <3>3, <3>5, <4>1 DEF idem_store, At
      <4>3. k \in Keys \X IdemKeys /\ DOMAIN idem[k] = IdemFields
        BY <1>1, <3>2, <3>3, <4>2 DEF ClaimsOK, ClaimOK
      <4>4. PICK held : held = [idem[k] EXCEPT !.answer = r.answer, !.of = r.body, !.foreign = f]
        OBVIOUS
      <4>5. held.of = r.body
        BY <4>3, <4>4 DEF IdemFields
      <4>6. idem' = [idem EXCEPT ![k] = held]
        BY <4>2, <4>4
      <4>7. k = <<CliKey, b.idem>> => held.of = b
        BY <1>2, <3>3, <4>2, <4>5 DEF AttemptOf
      <4> QED BY <1>1, <4>3, <4>6, <4>7, SlotWritten
    <3> QED BY <3>1, <3>4, <3>5, ServeFrame
  <2> QED BY <1>1, <1>3, <2>1, <2>2, <2>3, OneAttempt DEF SameSender
<1> QED BY <1>4, <1>5

\* The claim or the response expires.
LEMMA ExpiryCall ==
    ASSUME Inv, NEW k \in Keys \X IdemKeys, claim_expires(k) \/ response_expires(k),
           NEW b, b.idem \in IdemKeys, CallKey(b)
    PROVE  CallKey(b)' /\ \A d \in Clients : Sends(d, b) => Sends(d, b)'
<1>1. RequestsOK /\ ClaimsOK /\ Responded(b) /\ UNCHANGED scope /\ DOMAIN idem[k] = IdemFields
  BY DEF Inv, CallKey, claim_expires, response_expires, ClaimsOK, ClaimOK
<1>2. CASE claim_expires(k)
  <2>1. PICK f : f = (idem[k].answer # NoAnswer)
    OBVIOUS
  <2>2. PICK held : held = [[idem[k] EXCEPT !.body = NoVal] EXCEPT !.foreign = f]
    OBVIOUS
  <2>3. held.answer = idem[k].answer /\ held.of = idem[k].of
    BY <1>1, <2>2 DEF IdemFields
  <2>4. idem' = [idem EXCEPT ![k] = held]
    BY <1>1, <1>2, <2>1, <2>2 DEF claim_expires, ClaimsOK
  <2>5. Responded(b)'
    BY <1>1, <2>3, <2>4, SlotWritten DEF Responded
  <2>6. UNCHANGED req
    BY <1>2 DEF claim_expires
  <2> QED BY <1>1, <2>5, <2>6 DEF CallKey, AttemptOf, Sends
<1>3. CASE response_expires(k)
  <2>1. PICK held : held = [NoIdem EXCEPT !.body = idem[k].body]
    OBVIOUS
  <2>2. held.answer = NoAnswer
    BY <2>1 DEF NoIdem
  <2>3. idem' = [idem EXCEPT ![k] = held]
    BY <1>3, <2>1 DEF response_expires
  <2>4. Responded(b)'
    BY <1>1, <2>2, <2>3, SlotWritten
  <2>5. ASSUME NEW d \in Clients
        PROVE  AttemptOf(req[d], b)' /\ (Sends(d, b) => Sends(d, b)')
    <3>1. PICK r : r = req[d] /\ DOMAIN r = Fields /\ AttemptOf(r, b)
      BY <1>1 DEF RequestsOK, RequestOK, CallKey
    <3>2. PICK s : s = req'[d]
      OBVIOUS
    <3>3. s = r \/ s = [r EXCEPT !.late = FALSE]
      BY <1>3, <3>1, <3>2 DEF response_expires
    <3>4. s.pc = r.pc /\ s.key = r.key /\ s.body = r.body /\ s.replay = r.replay
      BY <3>1, <3>3 DEF Fields
    <3> QED BY <3>1, <3>2, <3>4 DEF AttemptOf, Sends
  <2> QED BY <1>1, <2>4, <2>5 DEF CallKey
<1> QED BY <1>2, <1>3

\* A request arrives: another attempt of the call, or one with another key.
LEMMA DispatchCall ==
    ASSUME RequestsOK, NEW c \in Clients, NEW k \in Keys, NEW body, rate_limit_dispatch(c, k, body),
           NEW b, CallKey(b), body.idem = b.idem => body = b /\ k = CliKey
    PROVE  /\ CallKey(b)'
           /\ \A d \in Clients : Sends(d, b) => Sends(d, b)'
           /\ body = b => Sends(c, b)'
<1>1. PICK r : r = [NoReq EXCEPT !.pc = "auth", !.key = k, !.body = body]
  OBVIOUS
<1>2. PICK s \in {r, Reject(r, TooMany), [r EXCEPT !.unmetered = TRUE]} : Goto(c, s)
  BY <1>1 DEF rate_limit_dispatch
<1>3. /\ DOMAIN s = Fields /\ s.pc \in {"auth", "answered"} /\ s.key = k /\ s.body = body /\ s.replay = NoIdem
  <2>1. DOMAIN r = Fields /\ r.pc = "auth" /\ r.key = k /\ r.body = body /\ r.replay = NoIdem
    BY <1>1 DEF NoReq, Fields
  <2> QED BY <1>2, <2>1, ZenonT(60) DEF Reject, Fields
<1>4. AttemptOf(s, b)
  BY <1>3 DEF AttemptOf
<1>5. UNCHANGED <<scope, idem>> /\ req[c].pc = "idle"
  BY DEF rate_limit_dispatch, At
<1>6. Responded(b)'
  BY <1>5, RespondedStays DEF CallKey
<1>7. CallKey(b)'
  BY <1>2, <1>4, <1>5, <1>6, OneAttempt
<1>8. \A d \in Clients : req'[d] = IF d = c THEN s ELSE req[d]
  BY <1>2 DEF RequestsOK, Goto
<1> QED BY <1>3, <1>5, <1>7, <1>8 DEF Sends

\* A client takes its answer.
LEMMA FinishCall ==
    ASSUME RequestsOK, NEW c \in Clients, finish(c), NEW b, CallKey(b)
    PROVE  /\ CallKey(b)'
           /\ \A d \in Clients : d # c /\ Sends(d, b) => Sends(d, b)'
<1>1. Goto(c, NoReq) /\ UNCHANGED <<scope, idem>>
  BY DEF finish
<1>2. AttemptOf(NoReq, b)
  BY DEF AttemptOf, NoReq
<1>3. Responded(b)'
  BY <1>1, RespondedStays DEF CallKey
<1>4. CallKey(b)'
  BY <1>1, <1>2, <1>3, OneAttempt
<1>5. \A d \in Clients : req'[d] = IF d = c THEN NoReq ELSE req[d]
  BY <1>1 DEF RequestsOK, Goto
<1> QED BY <1>4, <1>5 DEF Sends

\* A new call has a key of its own.
LEMMA NewCall ==
    ASSUME Inv, NEW i \in IdemKeys, build_headers(i), UNCHANGED <<scope, req>>, NEW b, b.idem = i
    PROVE  CallKey(b)'
<1>1. PICK k \in Keys \X IdemKeys : k = <<CliKey, i>>
  BY SdkAssumption DEF SdkAssumption
<1>2. idem'[k] = NoIdem
  BY <1>1 DEF build_headers, Inv, ClaimsOK
<1>3. Responded(b)'
  BY <1>1, <1>2, Shapes DEF Responded
<1>4. ASSUME NEW c \in Clients
      PROVE  AttemptOf(req[c], b)'
  BY DEF AttemptOf, build_headers, At
<1> QED BY <1>3, <1>4 DEF CallKey, build_headers

\* After an answer or none, the call is over or is made again.
LEMMA CallGoesOn ==
    ASSUME CommandOK(cli), CliAt("wait"), NEW a, NEW of,
           \/ cli' = batch_result(cli, a, of) \/ cli' = Exits([cli EXCEPT !.error = TRUE, !.on = NoVal])
           \/ cli' = with_retry(cli) \/ cli' = NextLine([cli EXCEPT !.error = TRUE])
    PROVE  cli'.pc \in {"next", "exit"} \/ (cli'.pc = "send" /\ cli'.body = cli.body)
<1>1. PICK r : r = cli /\ DOMAIN r = CliFields
  BY DEF CommandOK, CliType
<1>2. ASSUME NEW h, DOMAIN h = CliFields
      PROVE  NextLine(h).pc \in {"next", "exit"} /\ Exits(h).pc \in {"next", "exit"}
  BY <1>2 DEF NextLine, Exits, scan_ends, CliFields
<1>3. PICK f, g, h : /\ f = [r EXCEPT !.error = TRUE] /\ g = [r EXCEPT !.error = TRUE, !.on = NoVal]
                     /\ h = [r EXCEPT !.pc = "send", !.attempt = @ + 1, !.on = NoVal]
  OBVIOUS
<1>4. DOMAIN f = CliFields /\ DOMAIN g = CliFields /\ h.pc = "send" /\ h.body = r.body
  BY <1>1, <1>3 DEF CliFields
<1>5. CASE cli' = batch_result(cli, a, of)
  <2>1. PICK m : /\ m = [r EXCEPT !.processed = @ + 1, !.error = @ \/ get_scan_exit_code(a) = 1,
                           !.block = @ \/ get_scan_exit_code(a) = 2,
                           !.verdicts = [n \in DOMAIN @ \cup {r.line} |->
                               IF n = r.line THEN [decision |-> a.decision, of |-> of] ELSE @[n]]]
                 /\ NextLine(m) = batch_result(r, a, of)
    BY DEF batch_result
  <2>2. DOMAIN m = CliFields
    BY <1>1, <2>1
  <2> QED BY <1>1, <1>2, <1>5, <2>1, <2>2
<1>6. CASE cli' = with_retry(cli)
  <2>1. cli' = h \/ cli' = NextLine(f)
    BY <1>1, <1>3, <1>6 DEF with_retry
  <2> QED BY <1>1, <1>2, <1>4, <2>1
<1> QED BY <1>1, <1>2, <1>3, <1>4, <1>5, <1>6

\* What an attempt is answered with was reached on the text of the line.
LEMMA AnswersTheLine ==
    ASSUME Inv, CommandOK(cli), CallOK, NEW c \in Clients, receive(c)
    PROVE  (IF req[c].replay = NoIdem THEN req[c].body ELSE req[c].replay.of).items = File[cli.line].body.items
<1>1. PICK r, b : r = req[c] /\ b = cli.body
  OBVIOUS
<1>2. cli.pc = "wait" /\ cli.on = c
  BY DEF receive, CliAt
<1>3. b.items = File[cli.line].body.items
  BY <1>1, <1>2 DEF CommandOK, TextOK
<1>4. AttemptOf(r, b) /\ r.pc # "idle" /\ r.body = b
  BY <1>1, <1>2 DEF CallOK, CallKey, Sends
<1> QED BY <1>1, <1>3, <1>4 DEF AttemptOf

LEMMA CallStep ==
    ASSUME Inv, CommandOK(cli), CallOK, [SdkNext]_vars
    PROVE  CallOK'
<1>1. PICK b : b = cli.body
  OBVIOUS
<1> DEFINE Calls == cli.pc \in {"send", "wait"}
<1>2. ASSUME Calls
      PROVE  /\ b.idem \in IdemKeys /\ CallKey(b)
             /\ cli.pc = "wait" => cli.on \in Clients /\ Sends(cli.on, b)
  BY <1>1, <1>2 DEF CommandOK, TextOK, CallOK
<1>3. ASSUME UNCHANGED cli,
             Calls => CallKey(b)' /\ \A d \in Clients : d = cli.on /\ Sends(d, b) => Sends(d, b)'
      PROVE  CallOK'
  BY <1>1, <1>2, <1>3 DEF CallOK
<1>4. ASSUME UNCHANGED <<scope, req, idem>>, CallKey(b)
      PROVE  CallKey(b)' /\ \A d \in Clients : Sends(d, b) => Sends(d, b)'
  BY <1>4 DEF CallKey, Responded, AttemptOf, Sends
<1>5. CASE UNCHANGED <<scope, req, idem, cli>>
  BY <1>2, <1>3, <1>4, <1>5
<1>6. ASSUME NEW c \in Clients, Serve(c)
      PROVE  CallOK'
  BY <1>2, <1>3, <1>6, ServeCall, ServeFrame
<1>7. ASSUME NEW k \in Keys \X IdemKeys, claim_expires(k) \/ response_expires(k)
      PROVE  CallOK'
  <2>1. UNCHANGED cli
    BY <1>7 DEF claim_expires, response_expires
  <2> QED BY <1>2, <1>3, <1>7, <2>1, ExpiryCall
<1>8. CASE Next
  <2>1. CASE window_passes \/ \E e \in cache : cache_expires(e)
    BY <1>5, <2>1 DEF window_passes, cache_expires
  <2>2. CASE (Manage \/ \E a \in Admins : Begin(a) \/ End(a)) /\ UNCHANGED <<gatewayVars, cli>>
    BY <1>5, <2>2 DEF gatewayVars
  <2> QED BY <1>5, <1>6, <1>7, <1>8, <2>1, <2>2 DEF Next
<1>9. CASE interrupt
  <2>1. cli'.pc = cli.pc /\ cli'.body = cli.body /\ cli'.on = cli.on
    BY <1>9 DEF interrupt, CommandOK, CliType, CliFields
  <2>2. UNCHANGED <<scope, req, idem>>
    BY <1>9 DEF interrupt, gatewayVars
  <2> QED BY <1>1, <1>2, <1>4, <2>1, <2>2 DEF CallOK
<1>10. ASSUME cli'.pc \notin {"send", "wait"}
       PROVE  CallOK'
  BY <1>10 DEF CallOK
<1>11. PICK r : r = cli /\ DOMAIN r = CliFields
  BY DEF CommandOK, CliType
<1>12. ASSUME NEW h, DOMAIN h = CliFields
       PROVE  /\ NextLine(h).pc \notin {"send", "wait"} /\ Exits(h).pc \notin {"send", "wait"}
              /\ scan_ends(h).pc \notin {"send", "wait"}
              /\ DOMAIN [h EXCEPT !.error = TRUE] = CliFields
  BY <1>12 DEF NextLine, Exits, scan_ends, CliFields
<1>13. CASE batch_start \/ batch_skip \/ scan_interrupted
  <2>1. CASE batch_start
    BY <1>10, <2>1 DEF batch_start, NoCli
  <2>2. CASE batch_skip \/ scan_interrupted
    BY <1>10, <1>11, <1>12, <2>2 DEF batch_skip, scan_interrupted
  <2> QED BY <1>13, <2>1, <2>2
<1>14. ASSUME NEW n \in DOMAIN File, scan_start(n)
       PROVE  CallOK'
  <2>1. PICK h : h = [NoCli EXCEPT !.pc = "next", !.command = "scan", !.line = n]
    OBVIOUS
  <2>2. DOMAIN h = CliFields /\ h.pc = "next"
    BY <2>1 DEF NoCli, CliFields
  <2>3. cli' = h \/ cli' = scan_ends([h EXCEPT !.error = TRUE])
    BY <1>14, <2>1 DEF scan_start
  <2> QED BY <1>10, <1>12, <2>2, <2>3
<1>15. CASE times_out
  <2>1. UNCHANGED <<scope, req, idem>> /\ CliAt("wait") /\ cli' = with_retry(cli)
    BY <1>15 DEF times_out
  <2>2. cli'.pc \in {"next", "exit"} \/ (cli'.pc = "send" /\ cli'.body = b)
    BY <1>1, <2>1, CallGoesOn
  <2>3. CallKey(b)'
    BY <1>2, <1>4, <2>1 DEF CliAt
  <2> QED BY <1>10, <2>2, <2>3 DEF CallOK
<1>16. ASSUME NEW i \in IdemKeys, client_scan(i)
       PROVE  CallOK'
  <2>1. cli.line \in DOMAIN File /\ Scannable(cli.line) /\ build_headers(i) /\ UNCHANGED <<scope, req>>
    BY <1>16 DEF client_scan
  <2>2. PICK f \in Requests : f = File[cli.line].body
    BY <2>1, SdkAssumption DEF SdkAssumption, Scannable
  <2>3. PICK n : n = [f EXCEPT !.idem = i]
    OBVIOUS
  <2>4. n.idem = i
    BY <2>3, GatewayAssumption DEF GatewayAssumption
  <2>5. cli' = [r EXCEPT !.pc = "send", !.attempt = 1, !.body = n]
    BY <1>11, <1>16, <2>2, <2>3 DEF client_scan
  <2>6. cli'.pc = "send" /\ cli'.body = n
    BY <1>11, <2>5 DEF CliFields
  <2>7. CallKey(n)'
    BY <2>1, <2>4, NewCall
  <2> QED BY <2>6, <2>7 DEF CallOK
<1>17. ASSUME NEW c \in Clients, execute_request(c)
       PROVE  CallOK'
  <2>1. cli.pc = "send" /\ rate_limit_dispatch(c, CliKey, b) /\ cli' = [r EXCEPT !.pc = "wait", !.on = c]
    BY <1>1, <1>11, <1>17 DEF execute_request, CliAt
  <2>2. cli'.pc = "wait" /\ cli'.body = b /\ cli'.on = c
    BY <1>1, <1>11, <2>1 DEF CliFields
  <2>3. CallKey(b)' /\ Sends(c, b)'
    BY <1>2, <2>1, DispatchCall, SdkAssumption DEF SdkAssumption, Inv
  <2> QED BY <2>2, <2>3 DEF CallOK
<1>18. ASSUME NEW c \in Clients, receive(c)
       PROVE  CallOK'
  <2>1. PICK of, a : /\ a = req[c].answer
                     /\ of = (IF req[c].replay = NoIdem THEN req[c].body ELSE req[c].replay.of).items
    OBVIOUS
  <2>2. /\ CliAt("wait") /\ finish(c)
        /\ \/ cli' = batch_result(cli, a, of) \/ cli' = Exits([cli EXCEPT !.error = TRUE, !.on = NoVal])
           \/ cli' = with_retry(cli) \/ cli' = NextLine([cli EXCEPT !.error = TRUE])
    BY <1>18, <2>1 DEF receive
  <2>3. cli'.pc \in {"next", "exit"} \/ (cli'.pc = "send" /\ cli'.body = b)
    BY <1>1, <2>2, CallGoesOn
  <2>4. CallKey(b)'
    BY <1>2, <2>2, FinishCall DEF CliAt, Inv
  <2> QED BY <1>10, <2>3, <2>4 DEF CallOK
<1>19. ASSUME NEW c \in Clients, other_client(c)
       PROVE  CallOK'
  <2>1. CASE finish(c) /\ cli.on # c /\ UNCHANGED cli
    BY <1>2, <1>3, <2>1, FinishCall DEF Inv
  <2>2. ASSUME NEW k \in Keys, NEW body \in scope.requests, rate_limit_dispatch(c, k, body), UNCHANGED cli
        PROVE  CallOK'
    <3>1. ASSUME Calls
          PROVE  CallKey(b)' /\ \A d \in Clients : Sends(d, b) => Sends(d, b)'
      <4>1. body.idem # b.idem
        BY <1>2, <3>1 DEF CallKey
      <4> QED BY <1>2, <2>2, <3>1, <4>1, DispatchCall DEF Inv
    <3> QED BY <1>3, <2>2, <3>1
  <2> QED BY <1>19, <2>1, <2>2 DEF other_client
<1>20. CASE UNCHANGED vars
  BY <1>5, <1>20 DEF vars, gatewayVars
<1> QED BY <1>8, <1>9, <1>13, <1>14, <1>15, <1>16, <1>17, <1>18, <1>19, <1>20 DEF SdkNext

LEMMA CommandStep ==
    ASSUME Inv, CommandOK(cli), CallOK, [SdkNext]_vars
    PROVE  CommandOK(cli')
<1>1. CASE UNCHANGED cli
  BY <1>1
<1>2. ASSUME NEW c \in Clients, Serve(c)
      PROVE  UNCHANGED cli
  BY <1>2, ServeFrame
<1>3. CASE Next \/ UNCHANGED vars
  <2>1. UNCHANGED cli
    BY <1>2, <1>3 DEF Next, vars, window_passes, cache_expires, claim_expires, response_expires
  <2> QED BY <1>1, <2>1
<1>4. ASSUME NEW c \in Clients, receive(c)
      PROVE  CommandOK(cli')
  BY <1>4, AnswersTheLine, ReceiveOK
<1>5. ASSUME NEW c \in Clients, other_client(c)
      PROVE  CommandOK(cli')
  BY <1>1, <1>5 DEF other_client
<1> QED BY <1>3, <1>4, <1>5, CommandSteps DEF SdkNext

\* What the command has told is what its exit code says.
LEMMA ToldIsHonest ==
    ASSUME CommandOK(cli)
    PROVE  ExitCodeHonest
<1>1. PICK r : r = cli /\ CliType(r) /\ TextOK(r) /\ BatchOK(r) /\ ScanOK(r)
  BY DEF CommandOK
<1>2. \A n \in DOMAIN r.verdicts : r.verdicts[n].of = File[n].body.items
  BY <1>1 DEF TextOK
<1>3. ASSUME r.pc = "exit", exit_code(r) # 1
      PROVE  DOMAIN r.verdicts = Due /\ (exit_code(r) = 2 <=> Blocked(r))
  <2>1. ~r.error /\ (exit_code(r) = 2 <=> r.block)
    BY <1>3 DEF exit_code
  <2>2. CASE r.command = "scan"
    BY <1>1, <1>3, <2>1, <2>2 DEF ScanOK, Due
  <2>3. CASE r.command = "batch"
    <3>1. /\ r.line \in 1..(Len(File) + 1) /\ DOMAIN r.verdicts = Prompts(r.line - 1)
          /\ r.processed = Cardinality(Prompts(r.line - 1)) /\ r.processed <= LineLimit
          /\ r.block <=> Blocked(r)
          /\ r.line \notin DOMAIN File \/ r.processed >= LineLimit
      BY <1>1, <1>3, <2>1, <2>3 DEF BatchOK
    <3>2. PICK l : l = r.line /\ l \in Int /\ l >= 1 /\ l <= Len(File) + 1
      BY <3>1, Lines
    <3>3. ASSUME NEW n \in DOMAIN File, Scannable(n)
          PROVE  n \in Prompts(l - 1) <=> Cardinality(Prompts(n)) <= LineLimit
      <4>1. n \in Int /\ n >= 1 /\ n <= Len(File) /\ Len(File) \in Nat /\ l - 1 \in Int /\ LineLimit \in Nat
        BY <3>2, Lines
      <4>2. Cardinality(Prompts(n)) \in Nat /\ Cardinality(Prompts(l - 1)) \in Nat
        BY <4>1, PromptsFinite
      <4>3. CASE n <= l - 1
        <5>1. n \in Prompts(l - 1)
          BY <3>3, <4>1, <4>3 DEF Prompts
        <5>2. Cardinality(Prompts(n)) <= Cardinality(Prompts(l - 1))
          BY <4>1, <4>3, PromptsGrow
        <5> QED BY <3>1, <3>2, <4>1, <4>2, <5>1, <5>2
      <4>4. CASE l - 1 < n
        <5>1. n \notin Prompts(l - 1)
          BY <4>1, <4>4 DEF Prompts
        <5>2. l \in DOMAIN File
          BY <3>2, <4>1, <4>4, Lines
        <5>3. Cardinality(Prompts(l - 1)) < Cardinality(Prompts(n))
          BY <3>3, <4>1, <4>4, PromptsGrow
        <5> QED BY <3>1, <3>2, <4>1, <4>2, <5>1, <5>2, <5>3
      <4> QED BY <3>2, <4>1, <4>3, <4>4
    <3>4. Prompts(l - 1) = Due
      <4>1. \A n \in Prompts(l - 1) : n \in DOMAIN File /\ Scannable(n)
        BY <3>2, Lines DEF Prompts
      <4>2. Due = {n \in DOMAIN File : Scannable(n) /\ Cardinality(Prompts(n)) <= LineLimit}
        BY <1>1, <2>3 DEF Due, Prompts
      <4> QED BY <3>3, <4>1, <4>2
    <3> QED BY <2>1, <3>1, <3>2, <3>4
  <2> QED BY <1>1, <2>2, <2>3 DEF CliType
<1> QED BY <1>1, <1>2, <1>3 DEF ExitCodeHonest, CliAt, Blocked

\* The exit code of wrapsec batch and wrapsec scan can be trusted, for every
\* file, limit and number of attempts, whatever else the gateway serves: see
\* ExitCodeHonest.
THEOREM ExitCodeTold == SdkSpec => []ExitCodeHonest
<1>1. SdkInit => CommandOK(cli) /\ CallOK
  <2> SUFFICES ASSUME SdkInit PROVE CommandOK(cli) /\ CallOK
    OBVIOUS
  <2>1. PICK r : r = NoCli
    OBVIOUS
  <2>2. /\ DOMAIN r = CliFields /\ r.pc = "off" /\ r.command = "batch" /\ r.verdicts = <<>>
        /\ r.error \in BOOLEAN /\ r.block \in BOOLEAN
    BY <2>1 DEF NoCli, CliFields
  <2>3. CommandOK(r)
    BY <2>2 DEF CommandOK, CliType, TextOK, BatchOK, ScanOK
  <2> QED BY <2>1, <2>2, <2>3 DEF SdkInit, CallOK
<1>2. Inv /\ CommandOK(cli) /\ CallOK /\ [SdkNext]_vars => CommandOK(cli)' /\ CallOK'
  <2> SUFFICES ASSUME Inv, CommandOK(cli), CallOK, [SdkNext]_vars PROVE CommandOK(cli)' /\ CallOK'
    OBVIOUS
  <2>1. PICK r : r = cli' /\ CommandOK(r)
    BY CommandStep
  <2>2. CommandOK(cli)'
    BY <2>1 DEF CommandOK, CliType, TextOK, BatchOK, ScanOK, Blocked
  <2> QED BY <2>2, CallStep
<1>3. CommandOK(cli) => ExitCodeHonest
  BY ToldIsHonest
<1> QED BY <1>1, <1>2, <1>3, InvAlways, PTL DEF SdkSpec
-----------------------------------------------------------------------------
(* Rate limits *)

\* The units a request has paid for and may still scan: the first one is paid
\* on arrival, the others with the policy of a batch or the configuration of a
\* proxy call.
Units(r) ==
    IF r.unmetered \/ r.pc \notin Paying \cup Reading THEN {}
    ELSE IF r.pc \in {"cache", "scan"} \/ (r.pc = "overrides" /\ r.body.op = "batch") THEN EligibleIn(r.body)
    ELSE {1}
Owed(r, k) == IF r.key = k THEN Units(r) ELSE {}
Pending(k) == {p \in Clients \X Nat : p[2] \in Owed(req[p[1]], k)}

\* No bucket is over a limit it is charged against, and what the requests of a
\* key have scanned or may still scan has been charged to the key.
Fits(buckets) ==
    /\ buckets \in [Buckets -> Nat]
    /\ \A b \in Buckets : \E l \in LimitsOf(b) : buckets[b] <= l
Paid(k) ==
    /\ scanned[k] \in Nat /\ bucket[<<"key", k>>] \in Nat
    /\ IsFiniteSet(Pending(k)) /\ scanned[k] + Cardinality(Pending(k)) <= bucket[<<"key", k>>]
PaidOK == DOMAIN scanned = Keys /\ Fits(bucket) /\ \A k \in Keys : Paid(k)

LEMMA LimitsAreNumbers ==
    ASSUME NEW b \in Buckets
    PROVE  LimitsOf(b) \subseteq Nat /\ \E l \in LimitsOf(b) : 0 <= l
<1>1. live_rate_limit \in Nat /\ Env.limit \in Nat /\ Env.source_limit \in Nat /\ Env.trial_limit \in Nat
  BY LimitAssumption DEF LimitAssumption, live_rate_limit
<1>2. system_defaults.limit \in Nat
  BY DEF system_defaults
<1>3. \A x \in LimitBodies \cup Overrides : "limit" \in DOMAIN x => x.limit \in Nat
  BY LimitAssumption DEF LimitAssumption
<1>4. (IF "limit" \in DOMAIN Platform THEN Platform.limit.limit ELSE system_defaults.limit) \in Nat
  BY <1>2, LimitAssumption DEF LimitAssumption
<1>5. LimitsOf(b) \subseteq Nat /\ LimitsOf(b) # {}
  BY <1>1, <1>3, <1>4 DEF LimitsOf
<1> QED BY <1>5

LEMMA BucketKinds ==
    ASSUME NEW k \in Keys
    PROVE  /\ <<"src">> \in Buckets /\ <<"app">> \in Buckets /\ <<"key", k>> \in Buckets /\ <<"trial", k>> \in Buckets
           /\ Env.source_limit \in LimitsOf(<<"src">>) /\ Env.trial_limit \in LimitsOf(<<"trial", k>>)
           /\ live_rate_limit \in LimitsOf(<<"key", k>>) /\ Env.limit \in LimitsOf(<<"key", k>>)
           /\ \A j \in Keys : <<"src">> # <<"key", j>> /\ <<"app">> # <<"key", j>> /\ <<"trial", k>> # <<"key", j>>
           /\ \A j \in Keys : <<"key", j>> = <<"key", k>> => j = k
  BY DEF Buckets, LimitsOf

\* A charge is taken whole or not at all, and below the limit.
LEMMA ChargeFits ==
    ASSUME NEW B, Fits(B), NEW b \in Buckets, NEW l \in LimitsOf(b), NEW n \in Nat,
           NEW C, C = Charge(B, b, l, n)
    PROVE  /\ Fits(C) /\ \A x \in Buckets : x # b => C[x] = B[x]
           /\ C[b] = (IF is_rate_limited(B, b, l, n) THEN B[b] ELSE B[b] + n)
<1>1. l \in Nat /\ B[b] \in Nat /\ DOMAIN B = Buckets
  BY LimitsAreNumbers DEF Fits
<1>2. CASE is_rate_limited(B, b, l, n)
  BY <1>2 DEF Charge
<1>3. CASE ~is_rate_limited(B, b, l, n)
  <2>1. C = [B EXCEPT ![b] = @ + n]
    BY <1>3 DEF Charge
  <2>2. B[b] + n <= l /\ B[b] + n \in Nat
    BY <1>1, <1>3 DEF is_rate_limited
  <2>3. C[b] = B[b] + n /\ (\A x \in Buckets : x # b => C[x] = B[x]) /\ C \in [Buckets -> Nat]
    BY <1>1, <2>1, <2>2 DEF Fits
  <2>4. ASSUME NEW x \in Buckets
        PROVE  \E m \in LimitsOf(x) : C[x] <= m
    BY <2>2, <2>3 DEF Fits
  <2>5. Fits(C)
    BY <2>3, <2>4 DEF Fits
  <2> QED BY <1>3, <2>1, <2>3, <2>5
<1> QED BY <1>2, <1>3
-----------------------------------------------------------------------------
LEMMA UnitsFinite ==
    ASSUME NEW r, r.pc # "idle" => r.body \in Bodies, NEW k
    PROVE  /\ Units(r) \subseteq Nat /\ IsFiniteSet(Units(r)) /\ Cardinality(Units(r)) \in Nat
           /\ Owed(r, k) \subseteq Nat /\ IsFiniteSet(Owed(r, k)) /\ Cardinality(Owed(r, k)) \in Nat
<1>1. /\ IsFiniteSet({}) /\ {} \subseteq Nat /\ Cardinality({}) \in Nat
      /\ IsFiniteSet({1}) /\ {1} \subseteq Nat /\ Cardinality({1}) \in Nat
  <2>1. IsFiniteSet({}) /\ Cardinality({}) = 0
    BY FS_EmptySet
  <2>2. IsFiniteSet({1}) /\ Cardinality({1}) = 1
    BY FS_Singleton
  <2> QED BY <2>1, <2>2
<1>2. CASE Units(r) \in {{}, {1}}
  <2>1. Owed(r, k) \in {{}, {1}}
    BY <1>2 DEF Owed
  <2> QED BY <1>1, <1>2, <2>1
<1>3. CASE Units(r) \notin {{}, {1}}
  <2>1. Units(r) = EligibleIn(r.body) /\ r.body \in Bodies
    BY <1>3 DEF Units, Paying, Reading
  <2>2. PICK n \in Nat : DOMAIN r.body.items = 1..n
    BY <2>1, BodyFacts
  <2>3. EligibleIn(r.body) \subseteq 1..n /\ EligibleIn(r.body) \subseteq Nat
    BY <2>1, <2>2, BodyFacts, EligibleItems
  <2>4. IsFiniteSet(1..n)
    BY FS_Interval
  <2>5. IsFiniteSet(Units(r)) /\ Units(r) \subseteq Nat
    BY <2>1, <2>3, <2>4, FS_Subset
  <2> QED BY <1>1, <2>5, FS_CardinalityType DEF Owed
<1> QED BY <1>2, <1>3

\* When one request moves, its units are what changes of the pending ones.
LEMMA PendingMoves ==
    ASSUME DOMAIN req = Clients, NEW c \in Clients, NEW s, Goto(c, s), NEW k, IsFiniteSet(Pending(k)),
           IsFiniteSet(Owed(req[c], k)), Owed(req[c], k) \subseteq Nat, IsFiniteSet(Owed(s, k)), Owed(s, k) \subseteq Nat
    PROVE  /\ IsFiniteSet(Pending(k))'
           /\ Cardinality(Pending(k))' =
                Cardinality(Pending(k)) - Cardinality(Owed(req[c], k)) + Cardinality(Owed(s, k))
<1> DEFINE Of(T) == {c} \X T
           rest == {p \in Clients \X Nat : p[1] # c /\ p[2] \in Owed(req[p[1]], k)}
<1>1. PICK S : S = Owed(req[c], k) /\ S \subseteq Nat /\ IsFiniteSet(S)
  OBVIOUS
<1>2. PICK T : T = Owed(s, k) /\ T \subseteq Nat /\ IsFiniteSet(T)
  OBVIOUS
<1>3. Pending(k) = rest \cup Of(S) /\ rest \cap Of(S) = {} /\ rest \cap Of(T) = {}
  BY <1>1, <1>2 DEF Pending
<1>4. /\ req'[c] = s /\ \A d \in Clients : d # c => req'[d] = req[d]
  BY DEF Goto
<1>5. Pending(k)' = rest \cup Of(T)
  <2>1. Pending(k)' = {p \in Clients \X Nat : p[2] \in Owed(req'[p[1]], k)}
    BY DEF Pending, Owed, Units
  <2> QED BY <1>2, <1>4, <2>1
<1>6. IsFiniteSet(rest) /\ Cardinality(rest) \in Nat
  BY <1>3, FS_Subset, FS_CardinalityType
<1>7. ASSUME NEW U, IsFiniteSet(U), U \subseteq Nat, rest \cap Of(U) = {}
      PROVE  /\ IsFiniteSet(rest \cup Of(U)) /\ Cardinality(U) \in Nat
             /\ Cardinality(rest \cup Of(U)) = Cardinality(rest) + Cardinality(U)
  <2>1. IsFiniteSet({c}) /\ Cardinality({c}) = 1
    BY FS_Singleton
  <2>2. IsFiniteSet(Of(U)) /\ Cardinality(Of(U)) = Cardinality({c}) * Cardinality(U)
    BY <1>7, <2>1, FS_Product
  <2>3. Cardinality(U) \in Nat
    BY <1>7, FS_CardinalityType
  <2>4. Cardinality(Of(U)) = Cardinality(U)
    BY <2>1, <2>2, <2>3
  <2> HIDE DEF rest, Of
  <2>5. /\ IsFiniteSet(rest \cup Of(U))
        /\ Cardinality(rest \cup Of(U)) = Cardinality(rest) + Cardinality(Of(U)) - Cardinality(rest \cap Of(U))
    BY <1>6, <2>2, FS_Union
  <2>6. Cardinality(rest \cap Of(U)) = 0
    BY <1>7, FS_EmptySet
  <2> QED BY <1>6, <2>3, <2>4, <2>5, <2>6
<1> HIDE DEF rest, Of
<1>8. /\ Cardinality(Pending(k)) = Cardinality(rest) + Cardinality(S) /\ Cardinality(S) \in Nat
      /\ IsFiniteSet(rest \cup Of(T)) /\ Cardinality(T) \in Nat
      /\ Cardinality(rest \cup Of(T)) = Cardinality(rest) + Cardinality(T)
  BY <1>1, <1>2, <1>3, <1>7
<1> QED BY <1>1, <1>2, <1>5, <1>6, <1>8
-----------------------------------------------------------------------------
\* One request moves, and what it scans or may still scan in addition is charged.
LEMMA Spends ==
    ASSUME PaidOK, RequestsOK, NEW c \in Clients, NEW s, Goto(c, s), s.pc # "idle" => s.body \in Bodies,
           Fits(bucket'), DOMAIN scanned' = Keys,
           \A k \in Keys : /\ scanned'[k] \in Nat
                           /\ (scanned'[k] - scanned[k]) + Cardinality(Owed(s, k)) - Cardinality(Owed(req[c], k))
                                <= bucket'[<<"key", k>>] - bucket[<<"key", k>>]
    PROVE  PaidOK'
<1>1. Fits(bucket)'
  BY DEF Fits
<1>2. ASSUME NEW k \in Keys
      PROVE  Paid(k)'
  <2>1. req[c].pc # "idle" => req[c].body \in Bodies
    BY DEF RequestsOK, RequestOK, Known
  <2>2. Paid(k) /\ DOMAIN req = Clients
    BY DEF PaidOK, RequestsOK
  <2>3. /\ Owed(s, k) \subseteq Nat /\ IsFiniteSet(Owed(s, k)) /\ Cardinality(Owed(s, k)) \in Nat
        /\ Owed(req[c], k) \subseteq Nat /\ IsFiniteSet(Owed(req[c], k)) /\ Cardinality(Owed(req[c], k)) \in Nat
    BY <2>1, UnitsFinite
  <2>4. /\ IsFiniteSet(Pending(k))'
        /\ Cardinality(Pending(k))' =
             Cardinality(Pending(k)) - Cardinality(Owed(req[c], k)) + Cardinality(Owed(s, k))
    BY <2>2, <2>3, PendingMoves DEF Paid
  <2>5. Cardinality(Pending(k)) \in Nat
    BY <2>2, FS_CardinalityType DEF Paid
  <2>6. bucket'[<<"key", k>>] \in Nat
    BY BucketKinds DEF Fits
  <2>7. scanned'[k] + Cardinality(Pending(k))' <= bucket'[<<"key", k>>]
    BY <2>2, <2>3, <2>4, <2>5, <2>6 DEF Paid
  <2> QED BY <2>4, <2>6, <2>7 DEF Paid
<1> QED BY <1>1, <1>2 DEF PaidOK

\* Nothing is scanned, and the request owes no more than before.
LEMMA Idles ==
    ASSUME PaidOK, RequestsOK, NEW c \in Clients, NEW s, Goto(c, s), s.pc # "idle" => s.body \in Bodies,
           UNCHANGED scanned, Fits(bucket'), \A k \in Keys : bucket[<<"key", k>>] <= bucket'[<<"key", k>>],
           Units(s) = {} \/ (s.key = req[c].key /\ Units(s) \subseteq Units(req[c]))
    PROVE  PaidOK'
<1>1. ASSUME NEW k \in Keys
      PROVE  /\ scanned'[k] \in Nat
             /\ (scanned'[k] - scanned[k]) + Cardinality(Owed(s, k)) - Cardinality(Owed(req[c], k))
                  <= bucket'[<<"key", k>>] - bucket[<<"key", k>>]
  <2>1. req[c].pc # "idle" => req[c].body \in Bodies
    BY DEF RequestsOK, RequestOK, Known
  <2>2. /\ Cardinality(Owed(s, k)) \in Nat
        /\ IsFiniteSet(Owed(req[c], k)) /\ Cardinality(Owed(req[c], k)) \in Nat
    BY <2>1, UnitsFinite
  <2>3. Owed(s, k) \subseteq Owed(req[c], k)
    BY DEF Owed
  <2>4. Cardinality(Owed(s, k)) <= Cardinality(Owed(req[c], k))
    BY <2>2, <2>3, FS_Subset
  <2>5. scanned'[k] = scanned[k] /\ scanned[k] \in Nat
    BY DEF PaidOK, Paid
  <2>6. bucket[<<"key", k>>] \in Nat /\ bucket'[<<"key", k>>] \in Nat /\ bucket[<<"key", k>>] <= bucket'[<<"key", k>>]
    BY BucketKinds DEF PaidOK, Fits
  <2> QED BY <2>2, <2>4, <2>5, <2>6
<1>2. DOMAIN scanned' = Keys
  BY DEF PaidOK
<1> QED BY <1>1, <1>2, Spends

\* Which steps of a request charge, and which scan.
LEMMA MeterFrame ==
    ASSUME NEW c, Serve(c)
    PROVE  /\ UNCHANGED bucket \/ resolve_settings(c) \/ proxy_config(c) \/ cache_miss(c)
           /\ UNCHANGED scanned \/ ai_scan(c) \/ ai_scan_batch(c) \/ proxy_scan(c)
<1>1. CASE authenticate_api_key(c) \/ tenant_read(c) \/ tenant_store(c)
           \/ idem_claim(c) \/ idem_lookup(c) \/ idem_store(c)
  BY <1>1 DEF authenticate_api_key, tenant_read, tenant_store, idem_claim, idem_lookup, idem_store
<1>2. CASE resolve_settings(c) \/ resolve_policy(c) \/ proxy_config(c) \/ cache_hit(c) \/ cache_miss(c)
  BY <1>2 DEF resolve_settings, resolve_policy, proxy_config, cache_hit, cache_miss
<1>3. CASE ai_scan(c) \/ ai_scan_batch(c) \/ proxy_scan(c)
  BY <1>3 DEF ai_scan, ai_scan_batch, proxy_scan, Scan
<1>4. CASE \/ llm_fails(c) \/ provider_config_error(c) \/ provider_times_out(c) \/ provider_malformed(c)
           \/ provider_unavailable(c) \/ provider_unsupported(c)
           \/ \E t \in Replies : call_llm(c, t) \/ chat_completions(c, t)
  BY <1>4 DEF llm_fails, provider_config_error, provider_times_out, provider_malformed, provider_unavailable,
              provider_unsupported, call_llm, chat_completions, UpstreamFails, Forwarded, Sent
<1>5. CASE guard_completion(c) \/ guard_proxied(c) \/ audit_scan(c) \/ audit_batch(c) \/ log_interaction(c)
           \/ ai_respond(c) \/ proxy_respond(c)
  BY <1>5 DEF guard_completion, guard_proxied, Inspect, audit_scan, audit_batch, log_interaction, ai_respond,
              proxy_respond
<1> QED BY <1>1, <1>2, <1>3, <1>4, <1>5 DEF Serve

\* On arrival: the source address, then the first unit of the key.
LEMMA DispatchPaid ==
    ASSUME PaidOK, RequestsOK, NEW c \in Clients, NEW k \in Keys, NEW body \in Bodies,
           rate_limit_dispatch(c, k, body)
    PROVE  PaidOK'
<1>1. PICK q : q = [NoReq EXCEPT !.pc = "auth", !.key = k, !.body = body]
  OBVIOUS
<1>2. DOMAIN q = Fields /\ q.pc = "auth" /\ q.key = k /\ q.body = body
  BY <1>1 DEF NoReq, Fields
<1>3. PICK source : source = Charge(bucket, <<"src">>, Env.source_limit, 1)
  OBVIOUS
<1>4. Fits(bucket) /\ Fits(source) /\ \A x \in Buckets : x # <<"src">> => source[x] = bucket[x]
  <2>1. Fits(bucket) /\ <<"src">> \in Buckets /\ Env.source_limit \in LimitsOf(<<"src">>)
    BY BucketKinds DEF PaidOK
  <2>2. PICK n \in Nat : n = 1
    OBVIOUS
  <2> QED BY <1>3, <2>1, <2>2, ChargeFits
<1>5. PICK both : both = Charge(source, <<"key", k>>, live_rate_limit, 1)
  OBVIOUS
<1>6. /\ Fits(both) /\ \A x \in Buckets : x # <<"key", k>> => both[x] = source[x]
      /\ ~is_rate_limited(source, <<"key", k>>, live_rate_limit, 1) =>
            both[<<"key", k>>] = source[<<"key", k>>] + 1
  <2>1. <<"key", k>> \in Buckets /\ live_rate_limit \in LimitsOf(<<"key", k>>)
    BY BucketKinds
  <2>2. PICK n \in Nat : n = 1
    OBVIOUS
  <2> QED BY <1>4, <1>5, <2>1, <2>2, ChargeFits
<1>7. /\ UNCHANGED scanned
      /\ \/ bucket' = source /\ Goto(c, Reject(q, TooMany))
         \/ bucket' = bucket /\ Goto(c, [q EXCEPT !.unmetered = TRUE])
         \/ /\ ~is_rate_limited(source, <<"key", k>>, live_rate_limit, 1)
            /\ bucket' = both /\ Goto(c, q)
  BY <1>1, <1>3, <1>5 DEF rate_limit_dispatch
<1>8. \A j \in Keys : /\ <<"key", j>> \in Buckets /\ source[<<"key", j>>] = bucket[<<"key", j>>]
                      /\ source[<<"key", j>>] \in Nat
  BY <1>4, BucketKinds DEF Fits
<1>9. CASE bucket' = source /\ Goto(c, Reject(q, TooMany))
  <2>1. PICK s : s = Reject(q, TooMany)
    OBVIOUS
  <2>2. s.pc = "answered" /\ s.body = body
    BY <1>2, <2>1 DEF Reject, Fields
  <2>3. Units(s) = {}
    BY <2>2 DEF Units, Paying, Reading
  <2> QED BY <1>4, <1>7, <1>8, <1>9, <2>1, <2>2, <2>3, Idles
<1>10. CASE bucket' = bucket /\ Goto(c, [q EXCEPT !.unmetered = TRUE])
  <2>1. PICK s : s = [q EXCEPT !.unmetered = TRUE]
    OBVIOUS
  <2>2. s.unmetered /\ s.body = body
    BY <1>2, <2>1 DEF Fields
  <2>3. Units(s) = {}
    BY <2>2 DEF Units
  <2>4. ASSUME NEW j \in Keys
        PROVE  bucket[<<"key", j>>] <= bucket'[<<"key", j>>]
    <3>1. bucket[<<"key", j>>] \in Nat /\ bucket'[<<"key", j>>] = bucket[<<"key", j>>]
      BY <1>8, <1>10
    <3> QED BY <3>1
  <2> QED BY <1>4, <1>7, <1>10, <2>1, <2>2, <2>3, <2>4, Idles
<1>11. CASE /\ ~is_rate_limited(source, <<"key", k>>, live_rate_limit, 1)
            /\ bucket' = both /\ Goto(c, q)
  <2>1. req[c].pc = "idle" /\ Units(req[c]) = {}
    BY DEF rate_limit_dispatch, At, Units, Paying, Reading
  <2>2. Units(q) \in {{}, {1}}
    BY <1>2 DEF Units, Paying, Reading
  <2>3. Cardinality({}) = 0 /\ Cardinality({1}) = 1
    BY FS_EmptySet, FS_Singleton
  <2>4. ASSUME NEW j \in Keys
        PROVE  /\ scanned'[j] \in Nat
               /\ (scanned'[j] - scanned[j]) + Cardinality(Owed(q, j)) - Cardinality(Owed(req[c], j))
                    <= bucket'[<<"key", j>>] - bucket[<<"key", j>>]
    <3>1. scanned'[j] = scanned[j] /\ scanned[j] \in Nat
      BY <1>7 DEF PaidOK, Paid
    <3>2. Owed(req[c], j) = {} /\ Owed(q, j) \in {{}, {1}} /\ (j # k => Owed(q, j) = {})
      BY <1>2, <2>1, <2>2 DEF Owed
    <3>3. bucket'[<<"key", j>>] = bucket[<<"key", j>>] + (IF j = k THEN 1 ELSE 0) /\ bucket[<<"key", j>>] \in Nat
      <4>1. CASE j = k
        BY <1>6, <1>8, <1>11, <4>1
      <4>2. CASE j # k
        BY <1>6, <1>8, <1>11, <4>2, BucketKinds
      <4> QED BY <4>1, <4>2
    <3> QED BY <2>3, <3>1, <3>2, <3>3
  <2>5. DOMAIN scanned' = Keys
    BY <1>7 DEF PaidOK
  <2> QED BY <1>2, <1>6, <1>11, <2>4, <2>5, Spends
<1> QED BY <1>7, <1>9, <1>10, <1>11

\* What a weighted or a trial charge makes of the buckets: nothing a limit does
\* not cover, and all of it to the key where it is not refused.
ChargeOK(charge, k, n) ==
    /\ Fits(charge.buckets)
    /\ \A j \in Keys : bucket[<<"key", j>>] <= charge.buckets[<<"key", j>>]
    /\ ~charge.refused /\ ~charge.closed => bucket[<<"key", k>>] + n <= charge.buckets[<<"key", k>>]

LEMMA ChargeIsOK ==
    ASSUME PaidOK, NEW b \in Buckets, NEW l \in LimitsOf(b), NEW n \in Nat, NEW k \in Keys
    PROVE  /\ b = <<"key", k>> => ChargeOK(ChargeOf(b, l, n), k, n)
           /\ ChargeOK(ChargeOf(b, l, n), k, 0)
<1>1. PICK C : C = Charge(bucket, b, l, n)
  OBVIOUS
<1>2. /\ Fits(C) /\ \A x \in Buckets : x # b => C[x] = bucket[x]
      /\ C[b] = (IF is_rate_limited(bucket, b, l, n) THEN bucket[b] ELSE bucket[b] + n)
  BY <1>1, ChargeFits DEF PaidOK
<1>3. \A x \in Buckets : bucket[x] \in Nat
  BY DEF PaidOK, Fits
<1>4. PICK h : h = ChargeOf(b, l, n)
  OBVIOUS
<1>5. h.buckets = C /\ h.closed = FALSE /\ h.refused = is_rate_limited(bucket, b, l, n)
  BY <1>1, <1>4 DEF ChargeOf
<1>6. ASSUME NEW x \in Buckets
      PROVE  bucket[x] <= C[x]
  BY <1>2, <1>3
<1>7. \A j \in Keys : <<"key", j>> \in Buckets /\ bucket[<<"key", j>>] \in Nat /\ bucket[<<"key", j>>] <= C[<<"key", j>>]
  BY <1>3, <1>6, BucketKinds
<1>8. ~h.refused /\ b = <<"key", k>> => bucket[<<"key", k>>] + n <= C[<<"key", k>>]
  BY <1>2, <1>3, <1>5
<1> QED BY <1>2, <1>4, <1>5, <1>7, <1>8 DEF ChargeOK

LEMMA NoChargeIsOK ==
    ASSUME PaidOK, NEW k \in Keys
    PROVE  ChargeOK(NoCharge, k, 0) /\ ChargeOK(Closed, k, 0) /\ Closed.closed /\ ~NoCharge.closed /\ ~NoCharge.refused
<1>1. \A j \in Keys : bucket[<<"key", j>>] \in Nat
  BY BucketKinds DEF PaidOK, Fits
<1>2. /\ NoCharge.buckets = bucket /\ Closed.buckets = bucket
      /\ Closed.closed /\ ~NoCharge.closed /\ ~NoCharge.refused
  BY DEF NoCharge, Closed
<1> QED BY <1>1, <1>2 DEF ChargeOK, PaidOK

\* n units in all, the first of which is paid.
LEMMA AdditionalIsOK ==
    ASSUME PaidOK, NEW k \in Keys, NEW n \in Nat
    PROVE  \E m \in Nat : n <= m + 1 /\ ChargeOK(charge_additional_units(k, n), k, m)
<1>1. CASE n > 1
  <2>1. PICK m \in Nat : m = n - 1 /\ n <= m + 1
    BY <1>1
  <2>2. charge_additional_units(k, n) = ChargeOf(<<"key", k>>, Env.limit, m)
    BY <1>1, <2>1 DEF charge_additional_units
  <2>3. <<"key", k>> \in Buckets /\ Env.limit \in LimitsOf(<<"key", k>>)
    BY BucketKinds
  <2>4. ChargeOK(ChargeOf(<<"key", k>>, Env.limit, m), k, m)
    BY <2>3, ChargeIsOK
  <2> QED BY <2>1, <2>2, <2>4
<1>2. CASE ~(n > 1)
  <2>1. PICK m \in Nat : m = 0 /\ n <= m + 1
    BY <1>2
  <2>2. charge_additional_units(k, n) = NoCharge
    BY <1>2 DEF charge_additional_units
  <2> QED BY <2>1, <2>2, NoChargeIsOK
<1> QED BY <1>1, <1>2

\* A request that paid for its first unit goes on to what the charge pays for.
LEMMA ChargePaid ==
    ASSUME PaidOK, RequestsOK, NEW c \in Clients, NEW s, Goto(c, s), s.pc # "idle" => s.body \in Bodies,
           UNCHANGED scanned, NEW charge, NEW k \in Keys, k = req[c].key, NEW m \in Nat, ChargeOK(charge, k, m),
           bucket' = bucket \/ bucket' = charge.buckets,
           Units(s) # {} => /\ s.key = k /\ bucket' = charge.buckets /\ ~charge.refused /\ ~charge.closed
                            /\ Units(req[c]) = {1} /\ Cardinality(Units(s)) <= m + 1
    PROVE  PaidOK'
<1>1. Fits(bucket') /\ DOMAIN scanned' = Keys
  BY DEF PaidOK, ChargeOK
<1>2. ASSUME NEW j \in Keys
      PROVE  /\ scanned'[j] \in Nat
             /\ (scanned'[j] - scanned[j]) + Cardinality(Owed(s, j)) - Cardinality(Owed(req[c], j))
                  <= bucket'[<<"key", j>>] - bucket[<<"key", j>>]
  <2>1. req[c].pc # "idle" => req[c].body \in Bodies
    BY DEF RequestsOK, RequestOK, Known
  <2>2. Cardinality(Owed(s, j)) \in Nat /\ Cardinality(Owed(req[c], j)) \in Nat
    BY <2>1, UnitsFinite
  <2>3. scanned'[j] = scanned[j] /\ scanned[j] \in Nat
    BY DEF PaidOK, Paid
  <2>4. bucket[<<"key", j>>] \in Nat /\ bucket'[<<"key", j>>] \in Nat /\ bucket[<<"key", j>>] <= bucket'[<<"key", j>>]
    <3>1. bucket[<<"key", j>>] \in Nat /\ bucket'[<<"key", j>>] \in Nat
      BY <1>1, BucketKinds DEF PaidOK, Fits
    <3> QED BY <3>1 DEF ChargeOK
  <2>5. CASE Owed(s, j) = {}
    <3>1. Cardinality(Owed(s, j)) = 0
      BY <2>5, FS_EmptySet
    <3> QED BY <2>2, <2>3, <2>4, <3>1
  <2>6. CASE Owed(s, j) # {}
    <3>1. /\ j = k /\ Owed(s, j) = Units(s) /\ Owed(req[c], j) = {1} /\ Cardinality(Units(s)) <= m + 1
          /\ bucket[<<"key", j>>] + m <= bucket'[<<"key", j>>]
      BY <2>6 DEF Owed, ChargeOK
    <3>2. Cardinality(Owed(req[c], j)) = 1
      BY <3>1, FS_Singleton
    <3> QED BY <2>2, <2>3, <2>4, <3>1, <3>2
  <2> QED BY <2>5, <2>6
<1> QED BY <1>1, <1>2, Spends

\* A request in its handler paid for one unit; a batch pays for the others.
LEMMA SettingsPaid ==
    ASSUME PaidOK, RequestsOK, NEW c \in Clients, resolve_settings(c)
    PROVE  PaidOK'
<1>1. PICK r : r = req[c] /\ DOMAIN r = Fields
  BY DEF RequestsOK, RequestOK
<1>2. PICK k \in Keys : k = r.key
  BY <1>1 DEF RequestsOK, RequestOK, Known, resolve_settings, At
<1>3. r.pc = "handler" /\ r.body \in Bodies
  BY <1>1 DEF RequestsOK, RequestOK, Known, resolve_settings, At
<1>4. PICK charge : charge = (CASE Op(c) = "batch" -> ai_scan_batch_gate(c)
                                [] Op(c) = "proxy" -> proxy_gate(c)
                                [] OTHER -> ai_request_gate(c))
  OBVIOUS
<1>5. \E m \in Nat : ChargeOK(charge, k, m) /\ (r.body.op = "batch" => Cardinality(EligibleIn(r.body)) <= m + 1)
  <2>1. CASE Op(c) = "batch"
    <3>1. PICK n \in Nat : n = Len(r.body.items) /\ EligibleIn(r.body) = 1..n
      BY <1>1, <1>3, <2>1, AllEligible DEF Op
    <3>2. Cardinality(EligibleIn(r.body)) = n
      BY <3>1, FS_Interval
    <3>3. charge = charge_additional_units(k, n)
      BY <1>1, <1>2, <1>4, <2>1, <3>1 DEF ai_scan_batch_gate, Messages
    <3> QED BY <3>2, <3>3, AdditionalIsOK
  <2>2. CASE Op(c) # "batch"
    <3>1. charge \in {NoCharge, Closed, ChargeOf(<<"trial", k>>, Env.trial_limit, 1)}
      BY <1>1, <1>2, <1>4, <2>2 DEF proxy_gate, ai_request_gate
    <3>2. PICK one \in Nat : one = 1
      OBVIOUS
    <3>3. ChargeOK(ChargeOf(<<"trial", k>>, Env.trial_limit, one), k, 0)
      BY BucketKinds, ChargeIsOK
    <3>4. ChargeOK(charge, k, 0)
      BY <3>1, <3>2, <3>3, NoChargeIsOK
    <3>5. PICK m \in Nat : m = 0
      OBVIOUS
    <3> QED BY <1>1, <2>2, <3>4, <3>5 DEF Op
  <2> QED BY <2>1, <2>2
<1>6. PICK m \in Nat : ChargeOK(charge, k, m) /\ (r.body.op = "batch" => Cardinality(EligibleIn(r.body)) <= m + 1)
  BY <1>5
<1>7. PICK u \in BOOLEAN : \E s, p :
        /\ UNCHANGED scanned /\ Goto(c, s)
        /\ bucket' = charge.buckets \/ (u /\ bucket' = bucket)
        /\ \/ \E a : s = [r EXCEPT !.pc = "store", !.answer = a]
           \/ /\ s = [[r EXCEPT !.pc = "overrides"] EXCEPT !.policy = p, !.unmetered = @ \/ u]
              /\ ~(charge.closed \/ (charge.refused /\ ~u))
  <2>1. /\ UNCHANGED scanned
        /\ \/ bucket' = charge.buckets /\ Goto(c, Answer(req[c], ServerError))
           \/ \E u \in BOOLEAN :
                /\ Metered(charge, u)
                /\ Goto(c, IF charge.closed \/ (charge.refused /\ ~u)
                           THEN Answer(req[c], IF charge.closed THEN Refused ELSE TooMany)
                           ELSE [Step(c, "overrides") EXCEPT !.policy = tenant_policy, !.unmetered = @ \/ u])
    BY <1>4 DEF resolve_settings
  <2>2. CASE bucket' = charge.buckets /\ Goto(c, Answer(req[c], ServerError))
    <3>1. PICK s : Goto(c, s) /\ s = [r EXCEPT !.pc = "store", !.answer = ServerError]
      BY <1>1, <2>2 DEF Answer
    <3> QED BY <2>1, <2>2, <3>1
  <2>3. ASSUME NEW u \in BOOLEAN, Metered(charge, u),
               Goto(c, IF charge.closed \/ (charge.refused /\ ~u)
                       THEN Answer(req[c], IF charge.closed THEN Refused ELSE TooMany)
                       ELSE [Step(c, "overrides") EXCEPT !.policy = tenant_policy, !.unmetered = @ \/ u])
        PROVE  \E v \in BOOLEAN : \E s, p :
                 /\ UNCHANGED scanned /\ Goto(c, s)
                 /\ bucket' = charge.buckets \/ (v /\ bucket' = bucket)
                 /\ \/ \E a : s = [r EXCEPT !.pc = "store", !.answer = a]
                    \/ /\ s = [[r EXCEPT !.pc = "overrides"] EXCEPT !.policy = p, !.unmetered = @ \/ v]
                       /\ ~(charge.closed \/ (charge.refused /\ ~v))
    <3>1. bucket' = charge.buckets \/ (u /\ bucket' = bucket)
      BY <2>3 DEF Metered
    <3>2. CASE charge.closed \/ (charge.refused /\ ~u)
      <4>1. PICK a : Goto(c, [r EXCEPT !.pc = "store", !.answer = a])
        BY <1>1, <2>3, <3>2 DEF Answer
      <4> QED BY <2>1, <3>1, <4>1
    <3>3. CASE ~(charge.closed \/ (charge.refused /\ ~u))
      <4>1. PICK p : p = tenant_policy
        OBVIOUS
      <4>2. Goto(c, [[r EXCEPT !.pc = "overrides"] EXCEPT !.policy = p, !.unmetered = @ \/ u])
        BY <1>1, <2>3, <3>3, <4>1 DEF Step
      <4> QED BY <2>1, <3>1, <3>3, <4>2
    <3> QED BY <3>2, <3>3
  <2> QED BY <2>1, <2>2, <2>3
<1>14. PICK s, p :
        /\ UNCHANGED scanned /\ Goto(c, s)
        /\ bucket' = charge.buckets \/ (u /\ bucket' = bucket)
        /\ \/ \E a : s = [r EXCEPT !.pc = "store", !.answer = a]
           \/ /\ s = [[r EXCEPT !.pc = "overrides"] EXCEPT !.policy = p, !.unmetered = @ \/ u]
              /\ ~(charge.closed \/ (charge.refused /\ ~u))
  BY <1>7
<1>8. /\ s.body = r.body /\ s.key = r.key /\ s.pc \in {"store", "overrides"}
      /\ s.pc = "overrides" => (s.unmetered \/ (~r.unmetered /\ ~u /\ ~charge.closed /\ ~charge.refused))
  BY <1>1, <1>14 DEF Fields
<1>9. Units(s) # {} =>
        /\ s.pc = "overrides" /\ ~s.unmetered
        /\ Units(s) = IF s.body.op = "batch" THEN EligibleIn(s.body) ELSE {1}
  BY <1>8 DEF Units, Paying, Reading
<1>10. ~r.unmetered => Units(r) = {1}
  BY <1>3 DEF Units, Paying, Reading
<1>11. Cardinality({1}) <= m + 1
  <2>1. Cardinality({1}) = 1
    BY FS_Singleton
  <2> QED BY <2>1
<1>12. Units(s) # {} => /\ s.key = k /\ bucket' = charge.buckets /\ ~charge.refused /\ ~charge.closed
                        /\ Units(r) = {1} /\ Cardinality(Units(s)) <= m + 1
  BY <1>2, <1>6, <1>14, <1>8, <1>9, <1>10, <1>11
<1>13. bucket' = bucket \/ bucket' = charge.buckets
  BY <1>14
<1> QED BY <1>1, <1>2, <1>3, <1>6, <1>14, <1>8, <1>12, <1>13, ChargePaid

\* So did a proxy call, which pays for its other messages.
LEMMA ConfigPaid ==
    ASSUME PaidOK, RequestsOK, NEW c \in Clients, proxy_config(c)
    PROVE  PaidOK'
<1>1. PICK r : r = req[c] /\ DOMAIN r = Fields
  BY DEF RequestsOK, RequestOK
<1>2. PICK k \in Keys : k = r.key
  BY <1>1 DEF RequestsOK, RequestOK, Known, proxy_config, At
<1>3. r.pc = "config" /\ r.body \in Bodies
  BY <1>1 DEF RequestsOK, RequestOK, Known, proxy_config, At
<1>4. PICK n \in Nat : n = Cardinality(Eligible(c)) /\ n = Cardinality(EligibleIn(r.body))
  <2>1. PICK q : q = [r EXCEPT !.pc = "scan", !.unmetered = FALSE]
    OBVIOUS
  <2>2. Units(q) = EligibleIn(r.body) /\ q.body = r.body
    BY <1>1, <2>1 DEF Units, Reading, Fields
  <2>3. Cardinality(Units(q)) \in Nat
    BY <1>3, <2>2, UnitsFinite
  <2> QED BY <1>1, <2>2, <2>3, SameOperators
<1> DEFINE refused == proxy_provider(c) = NoVal \/ n = 0 \/ n > Env.max_messages
<1>5. PICK charge : charge = (IF refused THEN Closed ELSE charge_additional_units(req[c].key, n))
  OBVIOUS
<1>6. PICK m \in Nat : ChargeOK(charge, k, m) /\ (~refused => n <= m + 1)
  <2>1. CASE refused
    <3>1. PICK m \in Nat : m = 0
      OBVIOUS
    <3> QED BY <1>5, <2>1, <3>1, NoChargeIsOK
  <2>2. CASE ~refused
    BY <1>1, <1>2, <1>5, <2>2, AdditionalIsOK
  <2> QED BY <2>1, <2>2
<1>7. charge.closed => refused
  BY <1>5 DEF charge_additional_units, ChargeOf, NoCharge
<1>8. PICK u \in BOOLEAN : \E s, t :
        /\ UNCHANGED scanned /\ Goto(c, s)
        /\ bucket' = charge.buckets \/ (u /\ bucket' = bucket)
        /\ \/ \E a : s = [r EXCEPT !.pc = "store", !.answer = a]
           \/ /\ s = [[r EXCEPT !.pc = "scan"] EXCEPT !.target = t, !.unmetered = @ \/ u]
              /\ ~refused /\ ~(charge.refused /\ ~u)
  <2>1. PICK u \in BOOLEAN :
          /\ UNCHANGED scanned /\ Metered(charge, u)
          /\ Goto(c, IF refused THEN Answer(req[c], Refused)
                     ELSE IF charge.refused /\ ~u THEN Answer(req[c], TooMany)
                     ELSE [Step(c, "scan") EXCEPT !.target = proxy_provider(c), !.unmetered = @ \/ u])
    BY <1>4, <1>5 DEF proxy_config
  <2> HIDE DEF refused
  <2>2. bucket' = charge.buckets \/ (u /\ bucket' = bucket)
    BY <2>1 DEF Metered
  <2>3. CASE refused \/ (charge.refused /\ ~u)
    <3>1. PICK a : Goto(c, [r EXCEPT !.pc = "store", !.answer = a])
      BY <1>1, <2>1, <2>3 DEF Answer
    <3> QED BY <2>1, <2>2, <3>1
  <2>4. CASE ~(refused \/ (charge.refused /\ ~u))
    <3>1. PICK t : t = proxy_provider(c)
      OBVIOUS
    <3>2. Goto(c, [[r EXCEPT !.pc = "scan"] EXCEPT !.target = t, !.unmetered = @ \/ u])
      BY <1>1, <2>1, <2>4, <3>1 DEF Step
    <3> QED BY <2>1, <2>2, <2>4, <3>2
  <2> QED BY <2>3, <2>4
<1> HIDE DEF refused
<1>14. PICK s, t :
        /\ UNCHANGED scanned /\ Goto(c, s)
        /\ bucket' = charge.buckets \/ (u /\ bucket' = bucket)
        /\ \/ \E a : s = [r EXCEPT !.pc = "store", !.answer = a]
           \/ /\ s = [[r EXCEPT !.pc = "scan"] EXCEPT !.target = t, !.unmetered = @ \/ u]
              /\ ~refused /\ ~(charge.refused /\ ~u)
  BY <1>8
<1>9. /\ s.body = r.body /\ s.key = r.key /\ s.pc \in {"store", "scan"}
      /\ s.pc = "scan" => ~refused /\ (s.unmetered \/ (~r.unmetered /\ ~u /\ ~charge.refused))
  BY <1>1, <1>14 DEF Fields
<1>10. Units(s) # {} => s.pc = "scan" /\ ~s.unmetered /\ Units(s) = EligibleIn(s.body)
  BY <1>9 DEF Units, Paying, Reading
<1>11. ~r.unmetered => Units(r) = {1}
  BY <1>3 DEF Units, Paying, Reading
<1>12. Units(s) # {} => /\ s.key = k /\ bucket' = charge.buckets /\ ~charge.refused /\ ~charge.closed
                        /\ Units(r) = {1} /\ Cardinality(Units(s)) <= m + 1
  BY <1>2, <1>4, <1>6, <1>7, <1>14, <1>9, <1>10, <1>11
<1>13. bucket' = bucket \/ bucket' = charge.buckets
  BY <1>14
<1> QED BY <1>1, <1>2, <1>3, <1>6, <1>14, <1>9, <1>12, <1>13, ChargePaid

\* The policy is resolved: what a single request, a batch and a proxy call owe
\* stays what it was.
LEMMA PolicyPaid ==
    ASSUME PaidOK, RequestsOK, NEW c \in Clients, resolve_policy(c)
    PROVE  PaidOK'
<1>1. PICK r : r = req[c] /\ DOMAIN r = Fields
  BY DEF RequestsOK, RequestOK
<1>2. r.pc = "overrides" /\ r.body \in Bodies /\ UNCHANGED <<bucket, scanned>>
  BY <1>1 DEF RequestsOK, RequestOK, Known, resolve_policy, At
<1>3. PICK p, after : /\ after = (CASE r.body.op = "batch" -> "scan" [] r.body.op = "proxy" -> "config" [] OTHER -> "cache")
                      /\ \/ \E a : Goto(c, [r EXCEPT !.pc = "store", !.answer = a])
                         \/ Goto(c, [[r EXCEPT !.policy = p] EXCEPT !.pc = "store", !.answer = Refused])
                         \/ Goto(c, [[r EXCEPT !.policy = p] EXCEPT !.pc = after])
  BY <1>1 DEF resolve_policy, Answer, Op
<1>4. PICK s : Goto(c, s) /\ \/ \E a : s = [r EXCEPT !.pc = "store", !.answer = a]
                             \/ s = [[r EXCEPT !.policy = p] EXCEPT !.pc = "store", !.answer = Refused]
                             \/ s = [[r EXCEPT !.policy = p] EXCEPT !.pc = after]
  BY <1>3
<1>5. s.body = r.body /\ s.key = r.key /\ s.unmetered = r.unmetered /\ s.pc \in {"store", after}
  BY <1>1, <1>4 DEF Fields
<1>6. Units(s) \subseteq Units(r)
  <2>1. CASE s.pc = "store" \/ r.unmetered
    BY <1>5, <2>1 DEF Units, Paying, Reading
  <2>2. CASE s.pc = after /\ ~r.unmetered
    <3>1. CASE r.body.op = "batch"
      BY <1>2, <1>3, <1>5, <2>2, <3>1 DEF Units, Paying, Reading
    <3>2. CASE r.body.op = "proxy"
      BY <1>2, <1>3, <1>5, <2>2, <3>2 DEF Units, Paying, Reading
    <3>3. CASE r.body.op \notin {"batch", "proxy"}
      <4>1. EligibleIn(r.body) = {1}
        BY <1>2, <3>3, AllEligible, BodyFacts
      <4> QED BY <1>2, <1>3, <1>5, <2>2, <3>3, <4>1 DEF Units, Paying, Reading
    <3> QED BY <3>1, <3>2, <3>3
  <2> QED BY <1>5, <2>1, <2>2
<1>7. \A j \in Keys : bucket[<<"key", j>>] \in Nat
  BY BucketKinds DEF PaidOK, Fits
<1>8. Fits(bucket') /\ \A j \in Keys : bucket[<<"key", j>>] <= bucket'[<<"key", j>>]
  BY <1>2, <1>7 DEF PaidOK
<1> QED BY <1>1, <1>2, <1>4, <1>5, <1>6, <1>8, Idles

\* The limit of the application is charged, the key is not.
LEMMA MissPaid ==
    ASSUME PaidOK, RequestsOK, NEW c \in Clients, Screened(req[c]), cache_miss(c)
    PROVE  PaidOK'
<1>1. PICK r : r = req[c] /\ DOMAIN r = Fields
  BY DEF RequestsOK, RequestOK
<1>2. r.pc = "cache" /\ r.body \in Bodies /\ UNCHANGED scanned
  BY <1>1 DEF RequestsOK, RequestOK, Known, cache_miss, At
<1>3. PICK limit \in LimitsOf(<<"app">>) : limit = r.policy.limit
  BY <1>1, <1>2 DEF Screened, Resolved, TypedPolicy, PolicyNames, Sound, AppLimits
<1>4. PICK one \in Nat : one = 1
  OBVIOUS
<1>5. PICK charge : charge = (IF r.row.app THEN ChargeOf(<<"app">>, limit, one) ELSE NoCharge)
  OBVIOUS
<1>6. PICK k \in Keys : k = r.key
  BY <1>1, <1>2 DEF RequestsOK, RequestOK, Known
<1>7. ChargeOK(charge, k, 0)
  BY <1>5, BucketKinds, ChargeIsOK, NoChargeIsOK
<1>8. PICK s : /\ Goto(c, s)
               /\ bucket' = charge.buckets \/ bucket' = bucket
               /\ s = [r EXCEPT !.pc = "scan"] \/ s = [r EXCEPT !.pc = "store", !.answer = TooMany]
  BY <1>1, <1>3, <1>4, <1>5 DEF cache_miss, Metered, Step, Answer
<1>9. s.body = r.body /\ s.key = r.key /\ s.unmetered = r.unmetered /\ s.pc \in {"scan", "store"}
  BY <1>1, <1>8 DEF Fields
<1>10. Units(s) \subseteq Units(r)
  BY <1>2, <1>9 DEF Units, Paying, Reading
<1>11. \A j \in Keys : bucket[<<"key", j>>] \in Nat
  BY BucketKinds DEF PaidOK, Fits
<1>12. Fits(bucket') /\ \A j \in Keys : bucket[<<"key", j>>] <= bucket'[<<"key", j>>]
  <2>1. CASE bucket' = charge.buckets
    BY <1>7, <2>1 DEF ChargeOK
  <2>2. CASE bucket' = bucket
    BY <1>11, <2>2 DEF PaidOK
  <2> QED BY <1>8, <2>1, <2>2
<1> QED BY <1>1, <1>2, <1>8, <1>9, <1>10, <1>12, Idles

\* What is scanned was owed.
LEMMA ScanPaid ==
    ASSUME PaidOK, RequestsOK, NEW c \in Clients, ai_scan(c) \/ ai_scan_batch(c) \/ proxy_scan(c),
           NEW s, Goto(c, s), s.pc \notin Paying \cup Reading, s.pc # "idle" => s.body \in Bodies
    PROVE  PaidOK'
<1>1. PICK r : r = req[c] /\ DOMAIN r = Fields
  BY DEF RequestsOK, RequestOK
<1>2. r.pc = "scan" /\ r.body \in Bodies /\ r.key \in Keys
  BY <1>1 DEF RequestsOK, RequestOK, Known, ai_scan, ai_scan_batch, proxy_scan, Doing, At
<1>3. PICK n : n = Cardinality(EligibleIn(r.body)) /\ n = Cardinality(Eligible(c))
  BY <1>1, SameOperators
<1>4. /\ UNCHANGED bucket
      /\ scanned' = IF r.unmetered THEN scanned ELSE [scanned EXCEPT ![r.key] = @ + n]
  BY <1>1, <1>3 DEF ai_scan, ai_scan_batch, proxy_scan, Scan
<1>5. Units(s) = {} /\ Units(r) = IF r.unmetered THEN {} ELSE EligibleIn(r.body)
  BY <1>2 DEF Units, Reading
<1>6. Fits(bucket') /\ DOMAIN scanned' = Keys
  BY <1>4 DEF PaidOK
<1>7. ASSUME NEW k \in Keys
      PROVE  /\ scanned'[k] \in Nat
             /\ (scanned'[k] - scanned[k]) + Cardinality(Owed(s, k)) - Cardinality(Owed(r, k))
                  <= bucket'[<<"key", k>>] - bucket[<<"key", k>>]
  <2>1. Cardinality({}) = 0
    BY FS_EmptySet
  <2>2. Cardinality(Owed(s, k)) = 0
    BY <1>5, <2>1 DEF Owed
  <2>3. Cardinality(Owed(r, k)) \in Nat
    BY <1>2, UnitsFinite
  <2>4. scanned[k] \in Nat /\ bucket[<<"key", k>>] \in Nat /\ bucket'[<<"key", k>>] = bucket[<<"key", k>>]
    BY <1>4 DEF PaidOK, Paid
  <2>5. CASE r.unmetered \/ k # r.key
    <3>1. scanned'[k] = scanned[k]
      BY <1>4, <2>5
    <3> QED BY <2>2, <2>3, <2>4, <3>1
  <2>6. CASE ~r.unmetered /\ k = r.key
    <3>1. Owed(r, k) = EligibleIn(r.body)
      BY <1>5, <2>6 DEF Owed
    <3>2. n \in Nat /\ Cardinality(Owed(r, k)) = n
      BY <1>3, <2>3, <3>1
    <3>3. scanned'[k] = scanned[k] + n
      BY <1>4, <2>6 DEF PaidOK
    <3> QED BY <2>2, <2>4, <3>2, <3>3
  <2> QED BY <2>5, <2>6
<1> QED BY <1>1, <1>6, <1>7, Spends

\* A request that is served.
LEMMA ServePaid ==
    ASSUME PaidOK, RequestsOK, NEW c \in Clients, Screened(req[c]), Serve(c)
    PROVE  PaidOK'
<1>1. PICK r : r = req[c] /\ DOMAIN r = Fields
  BY DEF RequestsOK, RequestOK
<1>2. \A j \in Keys : bucket[<<"key", j>>] \in Nat
  BY BucketKinds DEF PaidOK, Fits
<1>3. CASE resolve_settings(c) \/ resolve_policy(c) \/ proxy_config(c) \/ cache_miss(c)
  BY <1>3, SettingsPaid, PolicyPaid, ConfigPaid, MissPaid
<1>4. CASE idem_lookup(c)
  <2>1. r.pc = "lookup" /\ r.body \in Bodies
    BY <1>1, <1>4 DEF RequestsOK, RequestOK, Known, idem_lookup, At
  <2>2. PICK h : h = idem[<<r.key, r.body.idem>>]
    OBVIOUS
  <2>3. PICK s : /\ Goto(c, s)
                 /\ \/ s = [r EXCEPT !.pc = "answered", !.answer = Refused]
                    \/ s = [r EXCEPT !.pc = "answered", !.answer = h.answer, !.replay = h]
                    \/ s = [r EXCEPT !.pc = "handler"]
    BY <1>1, <1>4, <2>2 DEF idem_lookup, Step, Reject, Slot
  <2>4. s.body = r.body /\ s.key = r.key /\ s.unmetered = r.unmetered /\ s.pc \in {"answered", "handler"}
    BY <1>1, <2>3 DEF Fields
  <2>5. Units(s) \subseteq Units(r)
    BY <2>1, <2>4 DEF Units, Paying, Reading
  <2>6. UNCHANGED <<bucket, scanned>>
    BY <1>4 DEF idem_lookup
  <2>7. Fits(bucket') /\ \A j \in Keys : bucket[<<"key", j>>] <= bucket'[<<"key", j>>]
    BY <1>2, <2>6 DEF PaidOK
  <2> QED BY <1>1, <2>1, <2>3, <2>4, <2>5, <2>6, <2>7, Idles
<1>5. CASE ~Resolves(c) /\ ~idem_lookup(c)
  <2>1. PICK s : Goto(c, s) /\ SameSender(r, s) /\ s.pc \notin Reading
    BY <1>1, <1>5, ServeSame
  <2>2. /\ s.body = r.body /\ s.key = r.key /\ (r.unmetered => s.unmetered)
        /\ r.pc # "idle" /\ (s.pc \in Paying => r.pc \in Paying)
    BY <2>1 DEF SameSender
  <2>3. r.body \in Bodies
    BY <1>1, <2>2 DEF RequestsOK, RequestOK, Known
  <2>4. UNCHANGED bucket
    BY <1>5, MeterFrame DEF Resolves
  <2>5. CASE UNCHANGED scanned
    <3>1. Units(s) \subseteq Units(r)
      BY <2>1, <2>2 DEF Units, Paying, Reading
    <3>2. Fits(bucket') /\ \A j \in Keys : bucket[<<"key", j>>] <= bucket'[<<"key", j>>]
      BY <1>2, <2>4 DEF PaidOK
    <3> QED BY <1>1, <2>1, <2>2, <2>3, <2>5, <3>1, <3>2, Idles
  <2>6. CASE ai_scan(c) \/ ai_scan_batch(c) \/ proxy_scan(c)
    <3>1. r.pc \notin Paying
      BY <1>1, <2>6 DEF ai_scan, ai_scan_batch, proxy_scan, Doing, At, Paying
    <3> QED BY <2>1, <2>2, <2>3, <2>6, <3>1, ScanPaid
  <2> QED BY <2>5, <2>6, MeterFrame
<1> QED BY <1>3, <1>4, <1>5 DEF Resolves

\* What the other steps leave of the pending units.
LEMMA PendingStays ==
    ASSUME PaidOK, UNCHANGED <<bucket, scanned>>,
           \A c \in Clients : \A k : Owed(req'[c], k) = Owed(req[c], k)
    PROVE  PaidOK'
<1>1. ASSUME NEW k
      PROVE  Pending(k)' = Pending(k)
  <2>1. Pending(k)' = {p \in Clients \X Nat : p[2] \in Owed(req'[p[1]], k)}
    BY DEF Pending, Owed, Units
  <2> QED BY <2>1 DEF Pending
<1> QED BY <1>1 DEF PaidOK, Paid, Fits

LEMMA PaidStep ==
    ASSUME Inv, AllScreened, PaidOK, [SdkNext]_vars
    PROVE  PaidOK'
<1>1. RequestsOK /\ ClaimsOK
  BY DEF Inv
<1>2. CASE UNCHANGED <<bucket, scanned, req>>
  BY <1>2, PendingStays
<1>3. ASSUME NEW c \in Clients, Serve(c)
      PROVE  PaidOK'
  BY <1>1, <1>3, ServePaid DEF AllScreened
<1>4. ASSUME NEW c \in Clients, finish(c)
      PROVE  PaidOK'
  <2>1. Goto(c, NoReq) /\ UNCHANGED <<bucket, scanned>> /\ NoReq.pc = "idle"
    BY <1>4 DEF finish, NoReq
  <2>2. Units(NoReq) = {}
    BY <2>1 DEF Units, Paying, Reading
  <2>3. \A j \in Keys : bucket[<<"key", j>>] \in Nat
    BY BucketKinds DEF PaidOK, Fits
  <2>4. Fits(bucket') /\ \A j \in Keys : bucket[<<"key", j>>] <= bucket'[<<"key", j>>]
    BY <2>1, <2>3 DEF PaidOK
  <2> QED BY <1>1, <2>1, <2>2, <2>4, Idles
<1>5. CASE window_passes
  <2>1. /\ bucket' = [b \in Buckets |-> 0] /\ scanned' = [k \in Keys |-> 0] /\ UNCHANGED req
        /\ \A c \in Clients : req[c].pc = "idle"
    BY <1>5 DEF window_passes, At
  <2>2. Fits(bucket)'
    BY <2>1, LimitsAreNumbers DEF Fits
  <2>3. ASSUME NEW k \in Keys
        PROVE  Paid(k)'
    <3>1. Pending(k) = {}
      BY <2>1 DEF Pending, Owed, Units, Paying, Reading
    <3>2. Pending(k)' = {}
      BY <2>1, <3>1 DEF Pending
    <3>3. bucket'[<<"key", k>>] = 0 /\ scanned'[k] = 0
      BY <2>1, BucketKinds
    <3>4. IsFiniteSet({}) /\ Cardinality({}) = 0
      BY FS_EmptySet
    <3> QED BY <3>2, <3>3, <3>4 DEF Paid
  <2> QED BY <2>1, <2>2, <2>3 DEF PaidOK
<1>6. ASSUME NEW k \in Keys \X IdemKeys, response_expires(k)
      PROVE  PaidOK'
  <2>1. UNCHANGED <<bucket, scanned>>
    BY <1>6 DEF response_expires
  <2>2. ASSUME NEW c \in Clients, NEW j
        PROVE  Owed(req'[c], j) = Owed(req[c], j)
    <3>1. PICK r : r = req[c] /\ DOMAIN r = Fields
      BY <1>1 DEF RequestsOK, RequestOK
    <3>2. PICK s : s = req'[c] /\ (s = r \/ s = [r EXCEPT !.late = FALSE])
      BY <1>6, <3>1 DEF response_expires
    <3>3. s.key = r.key /\ s.body = r.body /\ s.pc = r.pc /\ s.unmetered = r.unmetered
      BY <3>1, <3>2 DEF Fields
    <3> QED BY <3>1, <3>2, <3>3 DEF Owed, Units
  <2> QED BY <2>1, <2>2, PendingStays
<1>7. ASSUME NEW c \in Clients, execute_request(c) \/ receive(c) \/ other_client(c)
      PROVE  PaidOK'
  <2>1. CASE finish(c)
    BY <1>4, <2>1
  <2>2. ASSUME NEW k \in Keys, NEW body \in Bodies, rate_limit_dispatch(c, k, body)
        PROVE  PaidOK'
    BY <1>1, <2>2, DispatchPaid
  <2>3. CASE execute_request(c)
    <3>1. CliKey \in Keys /\ cli.body \in Bodies /\ rate_limit_dispatch(c, CliKey, cli.body)
      BY <2>3, SdkAssumption DEF SdkAssumption, execute_request, CliAt, Inv, CliOK
    <3> QED BY <2>2, <3>1
  <2>4. CASE other_client(c) /\ ~finish(c)
    <3>1. PICK k \in Keys, body \in scope.requests : rate_limit_dispatch(c, k, body)
      BY <2>4 DEF other_client
    <3>2. body \in Bodies
      BY GatewayAssumption DEF GatewayAssumption, Inv, Bodies
    <3> QED BY <2>2, <3>1, <3>2
  <2> QED BY <1>7, <2>1, <2>3, <2>4 DEF receive
<1>8. CASE Next
  <2>1. CASE (\E e \in cache : cache_expires(e)) \/ \E k \in Keys \X IdemKeys : claim_expires(k)
    BY <1>2, <2>1 DEF cache_expires, claim_expires
  <2> QED BY <1>2, <1>3, <1>5, <1>6, <1>8, <2>1 DEF Next, gatewayVars
<1>9. CASE batch_start \/ interrupt \/ batch_skip \/ times_out \/ scan_interrupted
           \/ (\E n \in DOMAIN File : scan_start(n)) \/ \E i \in IdemKeys : client_scan(i)
  BY <1>2, <1>9 DEF batch_start, interrupt, batch_skip, times_out, scan_interrupted, scan_start, client_scan, gatewayVars
<1>10. CASE UNCHANGED vars
  BY <1>2, <1>10 DEF vars, gatewayVars
<1> QED BY <1>7, <1>8, <1>9, <1>10 DEF SdkNext

LEMMA PaidInitially == SdkInit => PaidOK
<1> SUFFICES ASSUME SdkInit PROVE PaidOK
  OBVIOUS
<1>1. /\ bucket = [b \in Buckets |-> 0] /\ scanned = [k \in Keys |-> 0]
      /\ \A c \in Clients : req[c] = NoReq
  BY DEF SdkInit, Init
<1>2. Fits(bucket)
  BY <1>1, LimitsAreNumbers DEF Fits
<1>3. ASSUME NEW k \in Keys
      PROVE  Paid(k)
  <2>1. NoReq.pc = "idle"
    BY DEF NoReq
  <2>2. Pending(k) = {}
    BY <1>1, <2>1 DEF Pending, Owed, Units, Paying, Reading
  <2>3. bucket[<<"key", k>>] = 0 /\ scanned[k] = 0
    BY <1>1, BucketKinds
  <2>4. IsFiniteSet({}) /\ Cardinality({}) = 0
    BY FS_EmptySet
  <2> QED BY <2>2, <2>3, <2>4 DEF Paid
<1> QED BY <1>1, <1>2, <1>3 DEF PaidOK

LEMMA PaidIsBudget == PaidOK => RateBudget
<1> SUFFICES ASSUME PaidOK PROVE RateBudget
  OBVIOUS
<1>1. ASSUME NEW b \in Buckets
      PROVE  \E l \in LimitsOf(b) : bucket[b] \in 0..l
  <2>1. PICK l \in LimitsOf(b) : bucket[b] <= l /\ bucket[b] \in Nat
    BY DEF PaidOK, Fits
  <2>2. l \in Nat
    BY LimitsAreNumbers
  <2> QED BY <2>1, <2>2
<1>2. ASSUME NEW k \in Keys
      PROVE  \E l \in LimitsOf(<<"key", k>>) : scanned[k] <= l
  <2>1. <<"key", k>> \in Buckets
    BY BucketKinds
  <2>2. PICK l \in LimitsOf(<<"key", k>>) : bucket[<<"key", k>>] <= l
    BY <2>1 DEF PaidOK, Fits
  <2>3. l \in Nat /\ scanned[k] \in Nat /\ bucket[<<"key", k>>] \in Nat
    BY <2>1, LimitsAreNumbers DEF PaidOK, Paid
  <2>4. Cardinality(Pending(k)) \in Nat /\ scanned[k] + Cardinality(Pending(k)) <= bucket[<<"key", k>>]
    BY FS_CardinalityType DEF PaidOK, Paid
  <2> QED BY <2>2, <2>3, <2>4
<1> QED BY <1>1, <1>2 DEF RateBudget

\* Fan-out buys nothing: whatever the limits, the number of requests in service
\* and of items in each, and however an administrator moves the application's
\* limit meanwhile, no key has more inputs scanned in a window than its limit
\* (rate_limit_dispatch, charge_additional_units, cache_miss, Scan).
THEOREM BudgetKept == SdkSpec => []RateBudget
<1>1. SdkInit => PaidOK
  BY PaidInitially
<1>2. Inv /\ AllScreened /\ PaidOK /\ [SdkNext]_vars => PaidOK'
  BY PaidStep
<1>3. SdkSpec => []PaidOK
  BY <1>1, <1>2, ScreenedAlways, PTL DEF SdkSpec
<1> QED BY <1>3, PaidIsBudget, PTL
=============================================================================
