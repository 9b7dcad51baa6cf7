----------------------------- MODULE MCGateway -----------------------------
(* An instance of Gateway for TLC: texts with what the models find in them,  *)
(* the defaults, request bodies and administrators' inputs.                  *)
EXTENDS Sdk, TLC

CONSTANTS hello, shout, weak, attack, encoded, personal, masked, stuffed,
          k1, k2, i1, i2, near, far, c1, c2

AllTexts == {hello, shout, weak, attack, encoded, personal, masked, stuffed}

Plain(t) == [rules |-> {}, tfidf |-> <<"BENIGN", 90>>, transformer |-> <<"SAFE", 90>>,
             judge |-> <<"BENIGN", 0>>, pii |-> 0, redacted |-> t, canonical |-> t, views |-> <<>>]

\* attack: the rules alone are sure of it; weak, and shout in capitals: below 50 % for every detector
\* but suspicious; encoded: only its decoded form, the first of two views, is
\* an attack; stuffed: an attack behind more views than are looked at.
Findings(t) ==
    CASE t = attack -> [Plain(t) EXCEPT !.rules = {<<"PROMPT_INJECTION", 75>>, <<"JAILBREAK", 60>>}]
      [] t \in {weak, shout} -> [Plain(t) EXCEPT !.rules = {<<"EXFILTRATION", 45>>}, !.tfidf = <<"TOXICITY", 49>>,
                                      !.judge = <<"JAILBREAK", 55>>]
      [] t = encoded -> [Plain(t) EXCEPT !.views = <<[text |-> attack, depth |-> 1],
                                                     [text |-> hello, depth |-> 1]>>]
      [] t = personal -> [Plain(t) EXCEPT !.pii = 1, !.redacted = masked]
      [] t = stuffed -> [Plain(t) EXCEPT !.transformer = <<"INJECTION", 62>>,
                                         !.views = <<[text |-> hello, depth |-> 3],
                                                     [text |-> hello, depth |-> 1],
                                                     [text |-> weak, depth |-> 2],
                                                     [text |-> attack, depth |-> 1]>>]
      [] OTHER -> Plain(t)
Profiles == [t \in AllTexts |-> Findings(t)]
Folds == [t \in AllTexts |-> IF t = shout THEN weak ELSE t]

Defaults == [block |-> 70, sanitize |-> 40, trigger |-> 30, delta |-> 10, out_block |-> 80,
             out_sanitize |-> 50, trusted |-> {"user"}, untrusted |-> {"tool"},
             unknown_is_untrusted |-> TRUE, judge |-> "ollama", limit |-> 4, source_limit |-> 3, trial_limit |-> 1,
             max_messages |-> 2, roles |-> {"user", "tool"}]
PlatformRecords == [limit |-> [limit |-> 3]]

Item(t, source, role) == [text |-> t, source |-> source, role |-> role]
Body(op, items) == [op |-> op, items |-> items, mode |-> "FAST", all |-> TRUE, idem |-> NoVal,
                    address |-> near, model |-> NoVal]
Hello == Body("scan", <<Item(hello, "user", "user")>>)
Shout == Body("scan", <<Item(shout, "user", "user")>>)
Attack == Body("scan", <<Item(attack, "user", "user")>>)
Whisper == Body("scan", <<Item(weak, "user", "user")>>)
Once == [Whisper EXCEPT !.idem = i1]
Weak == [Whisper EXCEPT !.mode = "FULL"]
WeakTool == Body("scan", <<Item(weak, "tool", "user")>>)
Encoded == Body("scan", <<Item(encoded, "user", "user")>>)
Stuffed == Body("scan", <<Item(stuffed, "web", "user")>>)
Far == [Hello EXCEPT !.address = far]
Batch == Body("batch", <<Item(hello, "user", "user"), Item(weak, "tool", "user")>>)
Execute == [Body("execute", <<Item(personal, "user", "user")>>) EXCEPT !.idem = i1]
Execute2 == [Body("execute", <<Item(hello, "user", "user")>>) EXCEPT !.idem = i1]
Proxy == Body("proxy", <<Item(personal, "user", "user"), Item(hello, "system", "system"),
                         Item(weak, "tool", "tool")>>)
ProxyLast == [Proxy EXCEPT !.all = FALSE, !.model = "openai"]
ProxyBad == [Proxy EXCEPT !.model = "malformed"]
ProxyNone == Body("proxy", <<Item(hello, "system", "system")>>)

AllRequests == {Hello, Attack, Shout, Whisper, Once, Weak, WeakTool, Encoded, Stuffed, Far, Batch, Execute, Execute2, Proxy,
                ProxyLast, ProxyBad, ProxyNone}

First == (k1 :> [revoked |-> FALSE, expires |-> "never", type |-> "live", app |-> TRUE, ips |-> {},
                 parent |-> NoVal]) @@ (k2 :> NoVal)

Scope(clients, requests, occurs, fails) ==
    [clients |-> clients, requests |-> requests, occurs |-> occurs, fails |-> fails, faults |-> 1]

\* Enough failures that a call is given up.
GivesUp == [Scope({}, {}, {"sdk"}, {"net", "redis_idem", "rule"}) EXCEPT !.faults = MaxAttempts]

\* One entry a question: the cache under changing settings, retries, budgets,
\* suspension, keys, overrides and their sections, failing parts of a scan, the
\* proxy, the command line.
AllScopes ==
    {Scope({c1}, {Whisper, Shout}, {"settings", "cache"}, {}),
     Scope({c1, c2}, {Execute, Once}, {"expiry"}, {"redis_idem"}),
     Scope({c1, c2}, {Batch, Hello}, {"window"}, {"redis_rate"}),
     Scope({c1, c2}, {Batch}, {"status", "window"}, {}),
     Scope({c1}, {Batch}, {"status", "window"}, {"redis_tenant", "db_tenant"}),
     Scope({c1}, {Far}, {"keys"}, {}),
     Scope({c1}, {Execute2}, {"keys"}, {}),
     Scope({c1}, {Execute2}, {"levels"}, {"db_policy"}),
     Scope({c1}, {ProxyLast}, {"sections", "provider"}, {}),
     Scope({c1}, {Weak, WeakTool, Encoded, Stuffed, Execute, Execute2}, {},
           Parts \cup {"db_audit", "provider", "output", "redis_cache"}),
     Scope({c1}, {Proxy, ProxyLast, ProxyBad, ProxyNone}, {"provider"},
           {"provider", "output", "db_audit", "rule", "pii", "redis_rate"}),
     GivesUp,
     Scope({}, {}, {"sdk", "scan", "sigint"}, {"net"})}
BatchScopes == {Scope({c1, c2}, {Batch, Hello}, {}, {})}

\* Two prompts and two lines that are none, one of them before a prompt.
Line(is, body) == [is |-> is, body |-> body]
Lines == <<Line("prompt", Hello), Line("blank", NoVal), Line("prompt", Attack), Line("invalid", NoVal)>>

Thresholds == {[block |-> 50], [sanitize |-> 65], [sanitize |-> 30]}
Layers == {[rule |-> FALSE]}
Limits == {[limit |-> 2]}
Config(p, model, key) == [provider |-> p, model |-> model, key |-> key]
Configs == {Config("openai", "openai", "plain"), Config("ollama", "openai", "absent")}
Judges == {[provider |-> "openai"]}
OverrideSections == [judge |-> {[provider |-> "openai", key |-> "plain"]},
                     proxy |-> {Config("openai", "openai", "plain")}]
PolicyOverrides == {[block |-> 30], [rule |-> FALSE, llm |-> FALSE, limit |-> 1],
                    [proxy |-> Config("openai", "openai", "stale")]}
=============================================================================
