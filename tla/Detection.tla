----------------------------- MODULE Detection -----------------------------
(***************************************************************************)
(* The detection engine as operators: detectors, normalised views, input   *)
(* and output guard, risk scorer, source posture and policy engine         *)
(* (engine/), put together the way GatewayService.process puts them        *)
(* together before it calls a provider (services/gateway/service.py).      *)
(*                                                                         *)
(* A text is a model value; what the patterns, the classifiers and the     *)
(* judge model say of it is its Profile.  Scores are percentages and the   *)
(* final score is in 1/10000.  down is the set of parts that fail during   *)
(* one scan.                                                               *)
(***************************************************************************)
EXTENDS Integers, Sequences, FiniteSets, FiniteSetsExt

CONSTANTS
    Texts,             \* texts, the views decoded from them included
    Profile,           \* Profile[t]: what the engine's models find in t
    Fold,              \* Fold[t]: t.strip().lower(), as the semantic cache compares
    TransformerReady,  \* whether the second classifier could be loaded
    MaxViews,          \* MAX_VIEWS
    MaxDecodeDepth,    \* MAX_DECODE_DEPTH
    Env                \* the values of config/settings.py the engine reads

ASSUME DetectionAssumption ==
    /\ Profile \in [Texts -> [rules : SUBSET (STRING \X (1..100)),
                              tfidf : STRING \X (0..100), transformer : STRING \X (0..100),
                              judge : STRING \X (0..100), pii : Nat,
                              redacted : Texts, canonical : Texts,
                              views : Seq([text : Texts, depth : Nat])]]
    /\ Fold \in [Texts -> Texts]
    /\ TransformerReady \in BOOLEAN
    /\ MaxViews \in Nat
    /\ MaxDecodeDepth \in Nat
    /\ \A t \in Texts : Profile[t].pii = 0 => Profile[t].redacted = t
    /\ Env.sanitize \in Nat /\ Env.block \in Nat
    /\ 0 < Env.sanitize /\ Env.sanitize < Env.block /\ Env.block <= 100
    /\ Env.delta \in Nat

\* The parts of one scan that can fail.
Parts == {"guard_slow", "pii", "redactor", "normalize", "rule", "tfidf", "tfidf_raises",
          "transformer", "transformer_slow", "ml_slow", "toxicity", "llm_raises", "llm_empty",
          "process"}
-----------------------------------------------------------------------------
(* Detectors *)

clean == [score |-> 0, threats |-> {}, failed |-> FALSE]
failure == [clean EXCEPT !.failed = TRUE]
Found(score, threats) == [score |-> score, threats |-> threats, failed |-> FALSE]

\* The highest base score among the categories that match, never their sum.
rule_detect(t, down) ==
    IF "rule" \in down THEN failure
    ELSE Found(Max({0} \cup {m[2] : m \in Profile[t].rules}), {m[1] : m \in Profile[t].rules})

\* A model file that is missing or does not match its hash is never loaded,
\* and a detector without its model reports failure.
ml_detect(t, down) ==
    LET label == Profile[t].tfidf[1]
        confidence == Profile[t].tfidf[2] IN
    CASE "tfidf" \in down -> failure
      [] "tfidf" \notin down /\ (label = "BENIGN" \/ confidence < 25) -> clean
      [] OTHER -> Found(confidence, {label})

transformer_detect(t, down) ==
    LET label == Profile[t].transformer[1]
        confidence == Profile[t].transformer[2] IN
    CASE "transformer" \in down -> failure
      [] "transformer" \notin down /\ label = "INJECTION" /\ confidence >= 50 ->
            Found(confidence, {"PROMPT_INJECTION"})
      [] OTHER -> clean

combine(a, b) ==
    [score |-> Max({a.score, b.score}), threats |-> a.threats \cup b.threats,
     failed |-> a.failed \/ b.failed]

\* Both classifiers run side by side.  An exception of the first that is not
\* its own verdict is swallowed only when the second takes part; a second one
\* that is late counts as clean.
pipeline_run(t, down) ==
    LET tfidf == IF "tfidf_raises" \notin down THEN ml_detect(t, down)
                 ELSE IF TransformerReady THEN clean ELSE failure
        transformer == IF ~TransformerReady \/ "transformer_slow" \in down THEN clean
                       ELSE transformer_detect(t, down) IN
    combine(tfidf, transformer)

\* The texts the detectors see: the canonical form and the first MAX_VIEWS of
\* the decoded forms, nested ones down to MAX_DECODE_DEPTH.
normalize(t, down) ==
    LET views == Profile[t].views
        Shallow(n) == {i \in 1..n : views[i].depth <= MaxDecodeDepth}
        kept == {i \in Shallow(Len(views)) : Cardinality(Shallow(i)) <= MaxViews} IN
    IF "normalize" \in down THEN [i \in {0} |-> t]
    ELSE [i \in {0} \cup kept |-> IF i = 0 THEN Profile[t].canonical ELSE views[i].text]

\* results: what one detector says of each view.  The first with the highest
\* score, failed if any view failed.
evaluate_views(results) ==
    LET top == Max({results[i].score : i \in DOMAIN results})
        best == Min({i \in DOMAIN results : results[i].score = top}) IN
    [score |-> top, threats |-> results[best].threats, failed |-> \E i \in DOMAIN results : results[i].failed]

parse_response(answer) ==
    IF answer[1] = "BENIGN" \/ answer[2] < 50 THEN clean ELSE Found(answer[2], {answer[1]})

\* The client answers with empty content when the model cannot be reached.
llm_detect(t, down) ==
    CASE "llm_raises" \in down -> failure
      [] "llm_empty" \in down -> clean
      [] OTHER -> parse_response(Profile[t].judge)
-----------------------------------------------------------------------------
(* Guards *)

pii_detect(t) ==
    IF Profile[t].pii = 0 THEN clean
    ELSE Found(Min({65 + 8 * (Profile[t].pii - 1), 95}), {"PII"})

\* InputGuard.inspect: text is what the next layers read.
inspect(t, down) ==
    LET pii == pii_detect(t) IN
    IF down \cap {"guard_slow", "pii"} # {} \/ (pii.score > 0 /\ "redactor" \in down)
    THEN [text |-> t, redacted |-> FALSE, pii |-> clean, failed |-> TRUE]
    ELSE IF pii.score = 0
    THEN [text |-> t, redacted |-> FALSE, pii |-> pii, failed |-> FALSE]
    ELSE [text |-> Profile[t].redacted, redacted |-> TRUE, pii |-> pii, failed |-> FALSE]

\* Toxicity is the first classifier's category with the combined score.
detect_from_ml(ml) == IF "TOXICITY" \in ml.threats THEN ml.score ELSE 0

\* OutputGuard.inspect_bounded and inspect.
output_inspect(t, fails) ==
    LET pii == pii_detect(t) IN
    CASE fails \/ pii.score >= Env.out_block -> [decision |-> "BLOCK", text |-> t]
      [] ~fails /\ pii.score < Env.out_sanitize -> [decision |-> "ALLOW", text |-> t]
      [] OTHER -> [decision |-> "SANITIZE", text |-> Profile[t].redacted]
-----------------------------------------------------------------------------
(* Scoring and policy *)

\* Mutant of risk_score: the weighted sum alone.
risk_score_Weighted(rule, ml, llm) == 40 * rule.score + 30 * ml.score + 30 * llm.score

\* The weighted sum, or the strongest detector where that one is at least 50 %.
risk_score(rule, ml, llm) ==
    LET weighted == 40 * rule.score + 30 * ml.score + 30 * llm.score
        strongest == Max({rule.score, ml.score, llm.score}) IN
    Min({10000, IF strongest >= 50 THEN Max({weighted, 100 * strongest}) ELSE weighted})

\* SourceRegistry.resolve and resolve_source_posture.
threshold_delta(source) ==
    IF \/ source \in Env.untrusted
       \/ source \notin Env.trusted /\ Env.unknown_is_untrusted
    THEN Env.delta ELSE 0

apply_posture(threshold, source) == Max({0, threshold - threshold_delta(source)})

\* The toxicity threshold is a policy's own only where an override sets one.
tox_block(p, block) == IF "tox_block" \in DOMAIN p THEN p.tox_block ELSE block

\* PolicyEngine.decide: the PII guardrail first, toxicity next, then the score.
decide(p, source, final, pii, toxicity) ==
    LET block == apply_posture(p.block, source)
        sanitize == apply_posture(p.sanitize, source) IN
    CASE pii >= p.pii_block -> "BLOCK"
      [] pii < p.pii_block /\ pii >= p.pii_sanitize -> "SANITIZE"
      [] pii < Min({p.pii_block, p.pii_sanitize}) /\ toxicity >= tox_block(p, block) -> "BLOCK"
      [] OTHER -> IF final >= 100 * block THEN "BLOCK"
                  ELSE IF final >= 100 * sanitize THEN "SANITIZE" ELSE "ALLOW"

primary_reason(p, failed, pii, toxicity, rule, ml, llm) ==
    LET strongest == Max({rule.score, ml.score, llm.score}) IN
    CASE failed -> "SYSTEM_ERROR"
      [] ~failed /\ pii >= p.pii_sanitize ->
            IF pii >= p.pii_block THEN "PII_GUARDRAIL_BLOCK" ELSE "PII_GUARDRAIL_SANITIZE"
      [] ~failed /\ pii < p.pii_sanitize /\ toxicity >= tox_block(p, p.block) -> "TOXICITY_GUARDRAIL_BLOCK"
      [] OTHER -> IF strongest = 0 THEN "NO_THREAT_DETECTED"
                  ELSE IF rule.score = strongest THEN "RULE_DETECTOR"
                  ELSE IF ml.score = strongest THEN "ML_DETECTOR" ELSE "LLM_DETECTOR"
-----------------------------------------------------------------------------
(* The input half of GatewayService.process *)

RuleResult(p, texts, down) ==
    IF p.rule THEN evaluate_views([i \in DOMAIN texts |-> rule_detect(texts[i], down)]) ELSE clean

MlResult(p, texts, down) ==
    CASE ~p.ml -> clean
      [] p.ml /\ "ml_slow" \in down -> failure
      [] OTHER -> evaluate_views([i \in DOMAIN texts |-> pipeline_run(texts[i], down)])

\* The judge is asked only about what the other layers found suspicious.
LlmResult(p, mode, t, rule, ml, pii, down) ==
    IF p.llm /\ mode = "FULL" /\ Max({rule.score, ml.score, pii.score}) >= Env.trigger
    THEN llm_detect(t, down) ELSE clean

detection_failed(guard, rule, ml, llm, down) ==
    guard.failed \/ rule.failed \/ ml.failed \/ llm.failed \/ "toxicity" \in down

\* What process returns.  prompt: what a provider would be given; rewritten:
\* the caller is told the sanitized input; layers: the response can show the
\* score of each layer.
Decided(decision, reason, guard) ==
    [layers |-> TRUE, decision |-> decision, prompt |-> guard.text, reason |-> reason,
     rewritten |-> decision = "SANITIZE" /\ guard.redacted]

\* Any exception in process blocks.
SystemError(t) ==
    [layers |-> FALSE, decision |-> "BLOCK", prompt |-> t, reason |-> "SYSTEM_ERROR",
     rewritten |-> FALSE]

process(t, source, mode, p, down) ==
    LET guard == inspect(t, down)
        texts == normalize(guard.text, down)
        rule == RuleResult(p, texts, down)
        ml == MlResult(p, texts, down)
        toxicity == IF "toxicity" \in down THEN 0 ELSE detect_from_ml(ml)
        llm == LlmResult(p, mode, guard.text, rule, ml, guard.pii, down)
        failed == detection_failed(guard, rule, ml, llm, down)
        final == risk_score(rule, ml, llm)
        decision == IF failed THEN "BLOCK"
                    ELSE decide(p, source, final, guard.pii.score, toxicity)
        reason == primary_reason(p, failed, guard.pii.score, toxicity, rule, ml, llm) IN
    IF "process" \in down THEN SystemError(t) ELSE Decided(decision, reason, guard)
=============================================================================
