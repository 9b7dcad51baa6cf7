--------------------------- MODULE GatewayProofs ---------------------------
(***************************************************************************)
(* What holds of every request the gateway serves, whatever the texts, the *)
(* keys, the administrators' bodies and the number of requests in service. *)
(*                                                                         *)
(* First the facts about one scan, for every text, policy and part that    *)
(* fails, on which the rest relies.                                        *)
(*                                                                         *)
(* Nearly every step moves one request and leaves the rows, the claims and *)
(* the settings alone.  RequestOK(r) says what the record r of a request   *)
(* owes to them, so that such a step needs one fact: its new record is in  *)
(* order (Advances).  The administration keeps the type of every key, and  *)
(* thresholds that are in order, however its reads and writes interleave   *)
(* (TenancyOK); the claims keep their responses apart (ClaimOK).           *)
(***************************************************************************)
EXTENDS Sdk, FiniteSetTheorems, WellFoundedInduction, TLAPS

\* The thresholds a scan compares with are numbers.
Thresholded(p) ==
    /\ {"block", "sanitize", "pii_block", "pii_sanitize"} \subseteq DOMAIN p
    /\ p.block \in Int /\ p.sanitize \in Int /\ p.pii_block \in Int /\ p.pii_sanitize \in Int
    /\ "tox_block" \in DOMAIN p => p.tox_block \in Int
-----------------------------------------------------------------------------
(* Greatest and least *)

\* A set of integers that is bounded has a greatest element, and Max is it.
LEMMA GreatestOf ==
    ASSUME NEW S, S \subseteq Int, S # {}, NEW n \in Int, \A x \in S : x <= n
    PROVE  Max(S) \in S /\ \A x \in S : x <= Max(S)
<1> DEFINE T == {n - x : x \in S}
<1>1. T \subseteq Nat /\ T # {}
  <2>1. \A x \in S : n - x \in Nat
    OBVIOUS
  <2> QED BY <2>1
<1>2. PICK R : IsWellFoundedOn(R, Nat) /\ \A x, y \in Nat : <<x, y>> \in R <=> x < y
  <2>1. IsWellFoundedOn(OpToRel(<, Nat), Nat)
    BY NatLessThanWellFounded
  <2>2. \A x, y \in Nat : <<x, y>> \in OpToRel(<, Nat) <=> x < y
    BY DEF OpToRel
  <2> QED BY <2>1, <2>2
<1>3. IsWellFoundedOn(R, Nat)
  BY <1>2
<1>4. PICK k \in T : \A y \in T : ~(<<y, k>> \in R)
  <2> HIDE DEF T
  <2> QED BY <1>1, <1>3, WFMin, Zenon
<1>5. \A y \in T : k <= y
  <2> HIDE DEF T
  <2>1. \A y \in T : y \in Nat /\ k \in Nat /\ ~(y < k)
    BY <1>1, <1>2, <1>4
  <2> QED BY <2>1
<1>6. PICK m \in S : k = n - m
  BY <1>4
<1>7. \A x \in S : m >= x
  BY <1>5, <1>6, SMTT(30)
<1>8. Max(S) \in S /\ \A y \in S : Max(S) >= y
  BY <1>7, Zenon DEF Max
<1> QED BY <1>8

LEMMA GreatestPercentage ==
    ASSUME NEW S, S \subseteq 0..100, S # {}
    PROVE  Max(S) \in S /\ Max(S) \in 0..100 /\ \A x \in S : x <= Max(S)
<1>1. PICK n \in Int : n = 100
  OBVIOUS
<1>2. S \subseteq Int /\ \A x \in S : x <= n
  BY <1>1
<1>3. Max(S) \in S /\ \A x \in S : x <= Max(S)
  BY <1>2, GreatestOf
<1> QED BY <1>3

LEMMA GreaterOf ==
    ASSUME NEW a \in Int, NEW b \in Int
    PROVE  Max({a, b}) = IF a >= b THEN a ELSE b
<1>1. \A x \in {a, b} : x <= IF a >= b THEN a ELSE b
  OBVIOUS
<1>2. Max({a, b}) \in {a, b} /\ \A x \in {a, b} : x <= Max({a, b})
  BY <1>1, GreatestOf
<1> QED BY <1>2

LEMMA LesserOf ==
    ASSUME NEW a \in Int, NEW b \in Int
    PROVE  Min({a, b}) = IF a <= b THEN a ELSE b
<1>1. \E x \in {a, b} : \A y \in {a, b} : x <= y
  OBVIOUS
<1>2. Min({a, b}) \in {a, b} /\ \A y \in {a, b} : Min({a, b}) <= y
  BY <1>1, Zenon DEF Min
<1> QED BY <1>2
-----------------------------------------------------------------------------
(* The guard *)

LEMMA ProfileFacts ==
    ASSUME NEW t \in Texts
    PROVE  /\ Profile[t].pii \in Nat /\ Profile[t].redacted \in Texts /\ Profile[t].canonical \in Texts
           /\ Profile[t].pii = 0 => Profile[t].redacted = t
  BY DetectionAssumption DEF DetectionAssumption

\* Personal data is found exactly where there is some, with 65 % or more.
LEMMA PiiScores ==
    ASSUME NEW t \in Texts
    PROVE  /\ pii_detect(t).score \in 0..95 /\ ~pii_detect(t).failed
           /\ pii_detect(t).score = 0 <=> Profile[t].pii = 0
<1>1. CASE Profile[t].pii = 0
  BY <1>1 DEF pii_detect, clean
<1>2. CASE Profile[t].pii # 0
  <2>1. Profile[t].pii \in Nat \ {0}
    BY <1>2, ProfileFacts
  <2>2. PICK n \in Int : n = 65 + 8 * (Profile[t].pii - 1) /\ n >= 65
    BY <2>1
  <2>3. pii_detect(t) = Found(Min({n, 95}), {"PII"})
    BY <1>2, <2>2 DEF pii_detect
  <2>4. Min({n, 95}) \in 65..95
    BY <2>2, LesserOf, SMTT(30)
  <2> QED BY <1>2, <2>3, <2>4 DEF Found
<1> QED BY <1>1, <1>2

LEMMA GuardFacts ==
    ASSUME NEW t \in Texts, NEW down
    PROVE  LET guard == inspect(t, down) IN
           /\ guard.text \in Texts
           /\ ~guard.failed => /\ guard.pii = pii_detect(t)
                               /\ guard.text = Profile[t].redacted
                               /\ guard.redacted <=> Profile[t].pii # 0
           /\ down \cap {"guard_slow", "pii"} # {} => guard.failed
<1>1. /\ Profile[t].redacted \in Texts /\ (Profile[t].pii = 0 => Profile[t].redacted = t)
      /\ pii_detect(t).score \in 0..95 /\ (pii_detect(t).score = 0 <=> Profile[t].pii = 0)
  BY ProfileFacts, PiiScores
<1> QED BY <1>1 DEF inspect
-----------------------------------------------------------------------------
(* Failures *)

\* Any view on which a detector failed makes its result a failure.
LEMMA FailedViews ==
    ASSUME NEW results, NEW i \in DOMAIN results, results[i].failed
    PROVE  evaluate_views(results).failed
  BY DEF evaluate_views

LEMMA FirstView ==
    ASSUME NEW t, NEW down
    PROVE  0 \in DOMAIN normalize(t, down)
  BY DEF normalize

\* A scan whose guard or one of whose detectors failed blocks.
LEMMA FailureBlocks ==
    ASSUME NEW t, NEW source, NEW mode, NEW p, NEW down,
           LET guard == inspect(t, down)
               texts == normalize(guard.text, down) IN
           \/ guard.failed \/ "toxicity" \in down \/ "process" \in down
           \/ RuleResult(p, texts, down).failed \/ MlResult(p, texts, down).failed
    PROVE  process(t, source, mode, p, down).decision = "BLOCK"
  BY DEF process, SystemError, Decided, detection_failed

\* A part of the scan that the policy depends on cannot fail unnoticed
\* (GatewayService.process: detection_failed and the exception handler).
LEMMA EssentialPartBlocks ==
    ASSUME NEW t, NEW source, NEW mode, NEW p, NEW part,
           \/ part \in {"guard_slow", "pii", "process", "toxicity"}
           \/ p.rule /\ part = "rule"
           \/ p.ml /\ part \in {"tfidf", "ml_slow"}
           \/ p.ml /\ TransformerReady /\ part = "transformer"
    PROVE  process(t, source, mode, p, {part}).decision = "BLOCK"
<1> DEFINE guard == inspect(t, {part})
           texts == normalize(guard.text, {part})
<1>1. 0 \in DOMAIN texts
  BY FirstView
<1>2. CASE part \in {"guard_slow", "pii"}
  BY <1>2, FailureBlocks DEF inspect
<1>3. CASE part \in {"process", "toxicity"}
  BY <1>3, FailureBlocks
<1>4. CASE p.rule /\ part = "rule"
  <2> DEFINE results == [i \in DOMAIN texts |-> rule_detect(texts[i], {part})]
  <2>1. results[0].failed /\ 0 \in DOMAIN results
    BY <1>1, <1>4 DEF rule_detect, failure, clean
  <2>2. RuleResult(p, texts, {part}) = evaluate_views(results)
    BY <1>4 DEF RuleResult
  <2>3. evaluate_views(results).failed
    <3> HIDE DEF results
    <3> QED BY <2>1, FailedViews
  <2> HIDE DEF results
  <2>4. RuleResult(p, texts, {part}).failed
    BY <2>2, <2>3
  <2> QED BY <2>4, FailureBlocks
<1>5. CASE p.ml /\ part = "ml_slow"
  <2>1. MlResult(p, texts, {part}).failed
    BY <1>5 DEF MlResult, failure, clean
  <2> QED BY <2>1, FailureBlocks
<1>6. CASE p.ml /\ (part = "tfidf" \/ (part = "transformer" /\ TransformerReady))
  <2> DEFINE results == [i \in DOMAIN texts |-> pipeline_run(texts[i], {part})]
  <2>1. results[0].failed /\ 0 \in DOMAIN results
    BY <1>1, <1>6 DEF pipeline_run, combine, ml_detect, transformer_detect, failure, clean
  <2>2. MlResult(p, texts, {part}) = evaluate_views(results)
    BY <1>6 DEF MlResult
  <2>3. evaluate_views(results).failed
    <3> HIDE DEF results
    <3> QED BY <2>1, FailedViews
  <2> HIDE DEF results
  <2>4. MlResult(p, texts, {part}).failed
    BY <2>2, <2>3
  <2> QED BY <2>4, FailureBlocks
<1> QED BY <1>2, <1>3, <1>4, <1>5, <1>6
-----------------------------------------------------------------------------
(* Verdicts *)

\* Every scan ends in one of the three verdicts.
LEMMA ThreeVerdicts ==
    ASSUME NEW t, NEW source, NEW mode, NEW p, NEW down
    PROVE  process(t, source, mode, p, down).decision \in {"ALLOW", "SANITIZE", "BLOCK"}
<1>1. \A final, pii, toxicity : decide(p, source, final, pii, toxicity) \in {"ALLOW", "SANITIZE", "BLOCK"}
  BY DEF decide
<1> QED BY <1>1 DEF process, SystemError, Decided

LEMMA GuardrailSanitizes ==
    ASSUME NEW p, Thresholded(p), NEW source, NEW final, NEW pii \in Int, NEW toxicity,
           pii >= p.pii_sanitize, decide(p, source, final, pii, toxicity) # "BLOCK"
    PROVE  decide(p, source, final, pii, toxicity) = "SANITIZE"
<1>1. pii < p.pii_block
  BY DEF decide, Thresholded
<1> QED BY <1>1 DEF decide, Thresholded

\* What is not blocked and holds more personal data than the policy lets
\* through is handed on redacted (InputGuard, PolicyEngine.decide).
LEMMA PersonalDataRedacted ==
    ASSUME NEW t \in Texts, NEW source, NEW mode, NEW p, Thresholded(p), NEW down,
           process(t, source, mode, p, down).decision # "BLOCK"
    PROVE  LET result == process(t, source, mode, p, down) IN
           /\ result.prompt = Profile[t].redacted
           /\ pii_detect(t).score >= p.pii_sanitize => result.rewritten \/ Profile[t].redacted = t
<1> DEFINE guard == inspect(t, down)
           texts == normalize(guard.text, down)
           rule == RuleResult(p, texts, down)
           ml == MlResult(p, texts, down)
           toxicity == IF "toxicity" \in down THEN 0 ELSE detect_from_ml(ml)
           llm == LlmResult(p, mode, guard.text, rule, ml, guard.pii, down)
           failed == detection_failed(guard, rule, ml, llm, down)
           final == risk_score(rule, ml, llm)
           verdict == decide(p, source, final, guard.pii.score, toxicity)
           reason == primary_reason(p, failed, guard.pii.score, toxicity, rule, ml, llm)
<1>1. /\ ~guard.failed /\ process(t, source, mode, p, down) = Decided(verdict, reason, guard)
      /\ verdict # "BLOCK"
  <2> HIDE DEF guard, rule, ml, llm, toxicity, texts, final, verdict, reason
  <2>1. process(t, source, mode, p, down)
          = IF "process" \in down THEN SystemError(t)
            ELSE Decided(IF failed THEN "BLOCK" ELSE verdict, reason, guard)
    BY DEF process, guard, rule, ml, llm, toxicity, texts, final, verdict, reason
  <2>2. "process" \notin down
    BY <2>1 DEF SystemError
  <2>3. ~failed
    <3> HIDE DEF failed
    <3> QED BY <2>1, <2>2 DEF Decided
  <2>4. process(t, source, mode, p, down) = Decided(verdict, reason, guard)
    BY <2>1, <2>2, <2>3
  <2> QED BY <2>3, <2>4 DEF Decided, detection_failed
<1>2. /\ guard.pii = pii_detect(t) /\ guard.text = Profile[t].redacted
      /\ guard.redacted <=> Profile[t].pii # 0
  BY <1>1, GuardFacts
<1>3. /\ pii_detect(t).score \in 0..95 /\ (Profile[t].pii = 0 => Profile[t].redacted = t)
  BY PiiScores, ProfileFacts
<1>4. guard.pii.score >= p.pii_sanitize => verdict = "SANITIZE"
  BY <1>1, <1>2, <1>3, GuardrailSanitizes
<1>5. ASSUME NEW d, NEW why, NEW g
      PROVE  /\ Decided(d, why, g).prompt = g.text
             /\ Decided(d, why, g).rewritten = (d = "SANITIZE" /\ g.redacted)
  BY DEF Decided
<1> HIDE DEF guard, verdict, reason
<1>6. process(t, source, mode, p, down).prompt = Profile[t].redacted
  BY <1>1, <1>2, <1>5
<1>7. process(t, source, mode, p, down).rewritten = (verdict = "SANITIZE" /\ guard.redacted)
  BY <1>1, <1>5
<1>8. pii_detect(t).score >= p.pii_sanitize =>
        process(t, source, mode, p, down).rewritten \/ Profile[t].redacted = t
  BY <1>2, <1>3, <1>4, <1>7
<1> QED BY <1>6, <1>8
-----------------------------------------------------------------------------
(* Scores *)

\* Confidences are percentages, and the views of a text are texts.
LEMMA Percentages ==
    ASSUME NEW t \in Texts
    PROVE  /\ \A m \in Profile[t].rules : m[2] \in 1..100
           /\ Profile[t].tfidf[2] \in 0..100 /\ Profile[t].transformer[2] \in 0..100
           /\ Profile[t].judge[2] \in 0..100
           /\ \A i \in 1..Len(Profile[t].views) : Profile[t].views[i].text \in Texts
<1>1. PICK q : q = Profile[t] /\ q \in [rules : SUBSET (STRING \X (1..100)),
                              tfidf : STRING \X (0..100), transformer : STRING \X (0..100),
                              judge : STRING \X (0..100), pii : Nat,
                              redacted : Texts, canonical : Texts,
                              views : Seq([text : Texts, depth : Nat])]
  BY DetectionAssumption, ZenonT(60) DEF DetectionAssumption
<1>2. /\ q.rules \subseteq STRING \X (1..100) /\ q.tfidf \in STRING \X (0..100)
      /\ q.transformer \in STRING \X (0..100) /\ q.judge \in STRING \X (0..100)
      /\ q.views \in Seq([text : Texts, depth : Nat])
  BY <1>1
<1>3. \A x, y : \A z \in x \X y : z[2] \in y
  OBVIOUS
<1>4. \A j \in 1..Len(q.views) : q.views[j].text \in Texts
  <2>1. ASSUME NEW S, NEW w \in Seq(S), NEW j \in 1..Len(w)
        PROVE  w[j] \in S
    OBVIOUS
  <2>2. \A j \in 1..Len(q.views) : q.views[j] \in [text : Texts, depth : Nat]
    BY <1>2, <2>1
  <2> QED BY <2>2
<1> QED BY <1>1, <1>2, <1>3, <1>4

\* The rules: the highest category that matches.
LEMMA RuleScores ==
    ASSUME NEW t \in Texts, NEW down
    PROVE  /\ rule_detect(t, down).score \in 0..100
           /\ "rule" \notin down => \A m \in Profile[t].rules : m[2] <= rule_detect(t, down).score
<1> DEFINE S == {0} \cup {m[2] : m \in Profile[t].rules}
<1>1. S \subseteq 0..100 /\ S # {} /\ \A m \in Profile[t].rules : m[2] \in S
  <2>1. PICK R : R = Profile[t].rules /\ \A m \in R : m[2] \in 1..100
    BY Percentages
  <2> QED BY <2>1
<1>2. CASE "rule" \in down
  BY <1>2 DEF rule_detect, failure, clean
<1>3. CASE "rule" \notin down
  <2>1. rule_detect(t, down).score = Max(S)
    BY <1>3 DEF rule_detect, Found
  <2> HIDE DEF S
  <2>2. Max(S) \in 0..100 /\ \A x \in S : x <= Max(S)
    BY <1>1, GreatestPercentage
  <2> QED BY <1>1, <2>1, <2>2
<1> QED BY <1>2, <1>3

\* The classifiers: each one's confidence, from the label's threshold on.
LEMMA MlScores ==
    ASSUME NEW t \in Texts, NEW down
    PROVE  LET score == pipeline_run(t, down).score IN
           /\ score \in 0..100
           /\ down \cap {"tfidf", "tfidf_raises"} = {} /\ Profile[t].tfidf[1] # "BENIGN" /\ Profile[t].tfidf[2] >= 50
                => Profile[t].tfidf[2] <= score
           /\ (/\ down \cap {"transformer", "transformer_slow"} = {} /\ TransformerReady
               /\ Profile[t].transformer[1] = "INJECTION" /\ Profile[t].transformer[2] >= 50)
                => Profile[t].transformer[2] <= score
<1> DEFINE first == Profile[t].tfidf
           second == Profile[t].transformer
<1>0. first[2] \in 0..100 /\ second[2] \in 0..100
  BY Percentages
<1>1. PICK a : a = IF "tfidf_raises" \notin down THEN ml_detect(t, down)
                   ELSE IF TransformerReady THEN clean ELSE failure
  OBVIOUS
<1>2. PICK b : b = IF ~TransformerReady \/ "transformer_slow" \in down THEN clean ELSE transformer_detect(t, down)
  OBVIOUS
<1>3. /\ a.score \in 0..100
      /\ down \cap {"tfidf", "tfidf_raises"} = {} /\ Profile[t].tfidf[1] # "BENIGN" /\ Profile[t].tfidf[2] >= 50
           => a.score = Profile[t].tfidf[2]
  <2>1. a = clean \/ a = failure \/ a = Found(first[2], {first[1]})
    BY <1>1 DEF ml_detect
  <2>2. down \cap {"tfidf", "tfidf_raises"} = {} /\ first[1] # "BENIGN" /\ first[2] >= 50
          => a = Found(first[2], {first[1]})
    <3> HIDE DEF first
    <3> QED BY <1>0, <1>1 DEF ml_detect, first
  <2> HIDE DEF first
  <2>3. a.score \in 0..100
    BY <1>0, <2>1 DEF clean, failure, Found
  <2>4. Found(first[2], {first[1]}).score = first[2]
    BY DEF Found
  <2> QED BY <2>2, <2>3, <2>4 DEF first
<1>4. /\ b.score \in 0..100
      /\ (/\ down \cap {"transformer", "transformer_slow"} = {} /\ TransformerReady
          /\ Profile[t].transformer[1] = "INJECTION" /\ Profile[t].transformer[2] >= 50)
           => b.score = Profile[t].transformer[2]
  <2>1. b = clean \/ b = failure \/ b = Found(second[2], {"PROMPT_INJECTION"})
    BY <1>2 DEF transformer_detect
  <2>2. (/\ down \cap {"transformer", "transformer_slow"} = {} /\ TransformerReady
         /\ second[1] = "INJECTION" /\ second[2] >= 50)
          => b = Found(second[2], {"PROMPT_INJECTION"})
    <3>1. "transformer" \notin down /\ second[1] = "INJECTION" /\ second[2] >= 50
            => transformer_detect(t, down) = Found(second[2], {"PROMPT_INJECTION"})
      BY DEF transformer_detect
    <3>2. down \cap {"transformer", "transformer_slow"} = {} => "transformer" \notin down /\ "transformer_slow" \notin down
      OBVIOUS
    <3> HIDE DEF second
    <3>3. TransformerReady /\ "transformer_slow" \notin down => b = transformer_detect(t, down)
      BY <1>2
    <3> QED BY <3>1, <3>2, <3>3, Zenon
  <2> HIDE DEF second
  <2>3. b.score \in 0..100
    BY <1>0, <2>1 DEF clean, failure, Found
  <2>4. Found(second[2], {"PROMPT_INJECTION"}).score = second[2]
    BY DEF Found
  <2> QED BY <2>2, <2>3, <2>4 DEF second
<1>5. pipeline_run(t, down).score = Max({a.score, b.score})
  BY <1>1, <1>2 DEF pipeline_run, combine
<1>6. PICK x \in 0..100, y \in 0..100 : x = a.score /\ y = b.score
  BY <1>3, <1>4
<1>7. Max({x, y}) = IF x >= y THEN x ELSE y
  BY GreaterOf
<1>8. /\ pipeline_run(t, down).score \in 0..100
      /\ a.score <= pipeline_run(t, down).score /\ b.score <= pipeline_run(t, down).score
  BY <1>5, <1>6, <1>7
<1> QED BY <1>3, <1>4, <1>8

\* Over all views: the highest.
LEMMA ViewScores ==
    ASSUME NEW results, DOMAIN results # {}, \A i \in DOMAIN results : results[i].score \in 0..100
    PROVE  /\ evaluate_views(results).score \in 0..100
           /\ \A i \in DOMAIN results : results[i].score <= evaluate_views(results).score
<1> DEFINE S == {results[i].score : i \in DOMAIN results}
<1>1. S \subseteq 0..100 /\ S # {} /\ \A i \in DOMAIN results : results[i].score \in S
  OBVIOUS
<1>2. evaluate_views(results).score = Max(S)
  BY DEF evaluate_views
<1> HIDE DEF S
<1>3. Max(S) \in 0..100 /\ \A x \in S : x <= Max(S)
  BY <1>1, GreatestPercentage
<1> QED BY <1>1, <1>2, <1>3

LEMMA JudgeScores ==
    ASSUME NEW t \in Texts, NEW p, NEW mode, NEW rule, NEW ml, NEW pii, NEW down
    PROVE  LlmResult(p, mode, t, rule, ml, pii, down).score \in 0..100
<1>1. llm_detect(t, down).score \in 0..100
  BY Percentages DEF llm_detect, parse_response, clean, failure, Found
<1> QED BY <1>1 DEF LlmResult, clean

\* A detector that is sure is not diluted by the weights of the others.
LEMMA StrongestCounts ==
    ASSUME NEW rule, NEW ml, NEW llm,
           rule.score \in 0..100, ml.score \in 0..100, llm.score \in 0..100,
           NEW s \in Int, s >= 50, s <= rule.score \/ s <= ml.score
    PROVE  risk_score(rule, ml, llm) \in Int /\ risk_score(rule, ml, llm) >= 100 * s
<1>1. PICK x \in 0..100, y \in 0..100, z \in 0..100 : x = rule.score /\ y = ml.score /\ z = llm.score
  OBVIOUS
<1>2. PICK S : S = {x, y, z}
  OBVIOUS
<1>3. S \subseteq 0..100 /\ S # {}
  BY <1>2
<1>4. PICK strongest : strongest = Max(S) /\ strongest \in 0..100 /\ \A v \in S : v <= strongest
  BY <1>3, GreatestPercentage
<1>5. strongest >= 50 /\ strongest >= s
  BY <1>1, <1>2, <1>4
<1>6. PICK weighted \in Int, over \in Int, all \in Int :
        weighted = 40 * x + 30 * y + 30 * z /\ over = 100 * strongest /\ all = 10000
  BY <1>4
<1>7. risk_score(rule, ml, llm) = Min({all, IF strongest >= 50 THEN Max({weighted, over}) ELSE weighted})
  BY <1>1, <1>2, <1>4, <1>6 DEF risk_score
<1>8. risk_score(rule, ml, llm) = Min({all, Max({weighted, over})})
  BY <1>5, <1>7
<1>9. PICK top \in Int : top = Max({weighted, over}) /\ top >= over
  BY GreaterOf
<1>10. Min({all, top}) = IF all <= top THEN all ELSE top
  BY LesserOf
<1>11. Min({all, top}) \in Int /\ Min({all, top}) >= over
  BY <1>4, <1>6, <1>9, <1>10
<1> QED BY <1>4, <1>5, <1>6, <1>8, <1>9, <1>11

\* A view x of what the guard hands on has a finding of s in an enabled detector.
Finds(p, x, s) ==
    \/ p.rule /\ \E m \in Profile[x].rules : s = m[2]
    \/ p.ml /\ Profile[x].tfidf[1] # "BENIGN" /\ s = Profile[x].tfidf[2]
    \/ p.ml /\ TransformerReady /\ Profile[x].transformer[1] = "INJECTION" /\ s = Profile[x].transformer[2]

\* Whatever else the detectors say and whichever part fails, bar the tolerated
\* failures, a strong finding in any view decides: it blocks from the block
\* threshold of its source on and is never let through from the sanitize
\* threshold on (evaluate_views, combine, risk_score, apply_posture, decide).
LEMMA StrongFindingDecides ==
    ASSUME NEW t \in Texts, NEW source, NEW mode, NEW p, Thresholded(p), NEW down,
           down = {} \/ \E part : down = {part},
           down \cap {"normalize", "tfidf_raises", "transformer_slow"} = {},
           pii_detect(t).score < p.pii_sanitize, pii_detect(t).score < p.pii_block,
           NEW k \in DOMAIN normalize(inspect(t, {}).text, {}),
           NEW s \in Int, s >= 50, Finds(p, normalize(inspect(t, {}).text, {})[k], s)
    PROVE  LET verdict == process(t, source, mode, p, down).decision IN
           /\ s >= apply_posture(p.block, source) => verdict = "BLOCK"
           /\ s >= apply_posture(p.sanitize, source) => verdict # "ALLOW"
<1> DEFINE guard == inspect(t, down)
           texts == normalize(guard.text, down)
           rule == RuleResult(p, texts, down)
           ml == MlResult(p, texts, down)
           toxicity == IF "toxicity" \in down THEN 0 ELSE detect_from_ml(ml)
           llm == LlmResult(p, mode, guard.text, rule, ml, guard.pii, down)
           failed == detection_failed(guard, rule, ml, llm, down)
           final == risk_score(rule, ml, llm)
           verdict == decide(p, source, final, guard.pii.score, toxicity)
           reason == primary_reason(p, failed, guard.pii.score, toxicity, rule, ml, llm)
<1> SUFFICES ASSUME process(t, source, mode, p, down).decision # "BLOCK"
             PROVE  /\ ~(s >= apply_posture(p.block, source))
                    /\ s >= apply_posture(p.sanitize, source) => process(t, source, mode, p, down).decision # "ALLOW"
  OBVIOUS
<1>1. ~guard.failed /\ ~failed /\ process(t, source, mode, p, down).decision = verdict
  <2> HIDE DEF guard, rule, ml, llm, toxicity, texts, final, verdict, reason
  <2>1. process(t, source, mode, p, down)
          = IF "process" \in down THEN SystemError(t)
            ELSE Decided(IF failed THEN "BLOCK" ELSE verdict, reason, guard)
    BY DEF process, guard, rule, ml, llm, toxicity, texts, final, verdict, reason
  <2>2. "process" \notin down
    BY <2>1 DEF SystemError
  <2>3. ~failed
    <3> HIDE DEF failed
    <3> QED BY <2>1, <2>2 DEF Decided
  <2> QED BY <2>1, <2>2, <2>3 DEF Decided, detection_failed
<1>2. \A part \in down : ~(p.rule /\ part = "rule") /\ ~(p.ml /\ part \in {"tfidf", "ml_slow"})
                         /\ ~(p.ml /\ TransformerReady /\ part = "transformer")
  <2> SUFFICES ASSUME NEW part \in down, \/ p.rule /\ part = "rule"
                                         \/ p.ml /\ part \in {"tfidf", "ml_slow"}
                                         \/ p.ml /\ TransformerReady /\ part = "transformer"
               PROVE  FALSE
    OBVIOUS
  <2>1. down = {part}
    OBVIOUS
  <2>2. process(t, source, mode, p, {part}).decision = "BLOCK"
    BY EssentialPartBlocks
  <2> QED BY <2>1, <2>2
<1>3. /\ guard.text = inspect(t, {}).text /\ guard.text \in Texts /\ guard.pii = pii_detect(t)
  <2>1. ~inspect(t, {}).failed
    BY DEF inspect
  <2> QED BY <1>1, <2>1, GuardFacts
<1>4. texts = normalize(inspect(t, {}).text, {})
  <2>1. \A u : normalize(u, down) = normalize(u, {})
    BY ZenonT(60) DEF normalize
  <2> QED BY <1>3, <2>1, Zenon
<1>5. k \in DOMAIN texts /\ Finds(p, texts[k], s) /\ \A i \in DOMAIN texts : texts[i] \in Texts
  <2>1. \A u \in Texts : \A i \in DOMAIN normalize(u, down) : normalize(u, down)[i] \in Texts
    BY Percentages, ProfileFacts DEF normalize
  <2> QED BY <1>3, <1>4, <2>1
<1> HIDE DEF texts
<1>6. rule.score \in 0..100 /\ (p.rule => \A i \in DOMAIN texts : rule_detect(texts[i], down).score <= rule.score)
  <2>1. PICK results : results = [i \in DOMAIN texts |-> rule_detect(texts[i], down)]
    OBVIOUS
  <2>2. DOMAIN results # {} /\ \A i \in DOMAIN results : results[i].score \in 0..100
    BY <1>5, <2>1, RuleScores
  <2>3. /\ evaluate_views(results).score \in 0..100
        /\ \A i \in DOMAIN results : results[i].score <= evaluate_views(results).score
    BY <2>2, ViewScores
  <2>4. rule = IF p.rule THEN evaluate_views(results) ELSE clean
    BY <2>1 DEF RuleResult
  <2> QED BY <2>1, <2>3, <2>4 DEF clean
<1>7. ml.score \in 0..100 /\ (p.ml => \A i \in DOMAIN texts : pipeline_run(texts[i], down).score <= ml.score)
  <2>1. PICK results : results = [i \in DOMAIN texts |-> pipeline_run(texts[i], down)]
    OBVIOUS
  <2>2. DOMAIN results # {} /\ \A i \in DOMAIN results : results[i].score \in 0..100
    BY <1>5, <2>1, MlScores
  <2>3. /\ evaluate_views(results).score \in 0..100
        /\ \A i \in DOMAIN results : results[i].score <= evaluate_views(results).score
    BY <2>2, ViewScores
  <2>4. ml = IF p.ml THEN evaluate_views(results) ELSE clean
    BY <1>2, <2>1 DEF MlResult
  <2> QED BY <2>1, <2>3, <2>4 DEF clean
<1>8. llm.score \in 0..100
  BY <1>3, JudgeScores
<1> HIDE DEF rule, ml, llm, guard, verdict, toxicity, failed
<1>9. s <= rule.score \/ s <= ml.score
  <2>1. PICK x \in Texts : x = texts[k]
    BY <1>5
  <2>2. CASE p.rule /\ \E m \in Profile[x].rules : s = m[2]
    <3>1. rule_detect(x, down).score \in 0..100 /\ s <= rule_detect(x, down).score
      BY <1>2, <2>2, RuleScores
    <3> QED BY <1>5, <1>6, <2>1, <2>2, <3>1
  <2>3. CASE p.ml /\ \/ Profile[x].tfidf[1] # "BENIGN" /\ s = Profile[x].tfidf[2]
                     \/ TransformerReady /\ Profile[x].transformer[1] = "INJECTION" /\ s = Profile[x].transformer[2]
    <3>1. pipeline_run(x, down).score \in 0..100 /\ s <= pipeline_run(x, down).score
      BY <1>2, <2>3, MlScores
    <3> QED BY <1>5, <1>7, <2>1, <2>3, <3>1
  <2> QED BY <1>5, <2>1, <2>2, <2>3 DEF Finds
<1>10. final \in Int /\ final >= 100 * s
  BY <1>6, <1>7, <1>8, <1>9, StrongestCounts
<1> HIDE DEF final
<1>11. \A x \in Int : apply_posture(x, source) \in Int
  <2> SUFFICES ASSUME NEW x \in Int
               PROVE  apply_posture(x, source) \in Int
    OBVIOUS
  <2>1. PICK y \in Int, z \in Int : y = x - threshold_delta(source) /\ z = 0
    <3>1. Env.delta \in Nat
      BY DetectionAssumption DEF DetectionAssumption
    <3>2. threshold_delta(source) \in Int
      BY <3>1 DEF threshold_delta
    <3> QED BY <3>2
  <2>2. Max({z, y}) \in Int
    BY GreaterOf
  <2> QED BY <2>1, <2>2 DEF apply_posture
<1>12. PICK block \in Int, sanitize \in Int : block = apply_posture(p.block, source)
                                              /\ sanitize = apply_posture(p.sanitize, source)
  BY <1>11 DEF Thresholded
<1>13. PICK pii \in Int : /\ pii = guard.pii.score /\ pii < p.pii_block /\ pii < p.pii_sanitize
                          /\ pii < Min({p.pii_block, p.pii_sanitize})
  <2>1. guard.pii.score \in Int
    BY <1>3, PiiScores
  <2>2. Min({p.pii_block, p.pii_sanitize}) = IF p.pii_block <= p.pii_sanitize THEN p.pii_block ELSE p.pii_sanitize
    BY LesserOf DEF Thresholded
  <2> QED BY <1>3, <2>1, <2>2
<1>14. verdict = IF toxicity >= tox_block(p, block) THEN "BLOCK"
                 ELSE IF final >= 100 * block THEN "BLOCK"
                 ELSE IF final >= 100 * sanitize THEN "SANITIZE" ELSE "ALLOW"
  <2> QED BY <1>12, <1>13 DEF decide, verdict, Thresholded
<1>15. s >= block => final >= 100 * block
  BY <1>10
<1>16. s >= sanitize => final >= 100 * sanitize
  BY <1>10
<1> QED BY <1>1, <1>12, <1>14, <1>15, <1>16
-----------------------------------------------------------------------------
(* When two scans end alike *)

\* The failures a scan survives with a detector, a view or the judge missing.
Tolerated == {"normalize", "tfidf_raises", "transformer_slow", "llm_empty"}

\* What a scan is put together from.
LEMMA ScanParts ==
    ASSUME NEW t, NEW source, NEW mode, NEW p, NEW down, NEW q, NEW other,
           "process" \notin down, "process" \notin other, ("toxicity" \in down) <=> ("toxicity" \in other),
           LET guard == inspect(t, down)
               texts == normalize(guard.text, down)
               rule == RuleResult(p, texts, down)
               ml == MlResult(p, texts, down) IN
           /\ inspect(t, other) = guard /\ normalize(guard.text, other) = texts
           /\ RuleResult(q, texts, other) = rule /\ MlResult(q, texts, other) = ml
           /\ LlmResult(q, mode, guard.text, rule, ml, guard.pii, other)
                = LlmResult(p, mode, guard.text, rule, ml, guard.pii, down),
           \A final, pii, toxicity : decide(q, source, final, pii, toxicity) = decide(p, source, final, pii, toxicity)
    PROVE  process(t, source, mode, q, other).decision = process(t, source, mode, p, down).decision
<1> DEFINE guard == inspect(t, down)
           texts == normalize(guard.text, down)
           rule == RuleResult(p, texts, down)
           ml == MlResult(p, texts, down)
           toxicity == IF "toxicity" \in down THEN 0 ELSE detect_from_ml(ml)
           llm == LlmResult(p, mode, guard.text, rule, ml, guard.pii, down)
           failed == detection_failed(guard, rule, ml, llm, down)
           final == risk_score(rule, ml, llm)
           Reason(z) == primary_reason(z, failed, guard.pii.score, toxicity, rule, ml, llm)
           Verdict(z) == IF failed THEN "BLOCK" ELSE decide(z, source, final, guard.pii.score, toxicity)
<1>1. process(t, source, mode, p, down) = Decided(Verdict(p), Reason(p), guard)
  BY DEF process
<1>2. detection_failed(guard, rule, ml, llm, other) = failed
  BY DEF detection_failed
<1>3. process(t, source, mode, q, other) = Decided(Verdict(q), Reason(q), guard)
  <2>1. /\ inspect(t, other) = guard /\ normalize(guard.text, other) = texts
        /\ RuleResult(q, texts, other) = rule /\ MlResult(q, texts, other) = ml
        /\ LlmResult(q, mode, guard.text, rule, ml, guard.pii, other) = llm
        /\ (IF "toxicity" \in other THEN 0 ELSE detect_from_ml(ml)) = toxicity
    OBVIOUS
  <2> HIDE DEF guard, texts, rule, ml, llm, failed, final, toxicity
  <2> QED BY <1>2, <2>1 DEF process, final
<1> HIDE DEF guard, texts, rule, ml, llm, failed, final, toxicity, Reason
<1>4. Verdict(q) = Verdict(p)
  OBVIOUS
<1> QED BY <1>1, <1>3, <1>4 DEF Decided

\* Where the part that failed is not one of the tolerated ones and the text is
\* allowed all the same, the failure made no difference.
LEMMA FailureMadeNoDifference ==
    ASSUME NEW t, NEW source, NEW mode, NEW p, NEW part, part \notin Tolerated,
           process(t, source, mode, p, {part}).decision = "ALLOW"
    PROVE  process(t, source, mode, p, {}).decision = "ALLOW"
<1> DEFINE guard == inspect(t, {part})
           texts == normalize(guard.text, {part})
           rule == RuleResult(p, texts, {part})
           ml == MlResult(p, texts, {part})
           llm == LlmResult(p, mode, guard.text, rule, ml, guard.pii, {part})
<1>1. /\ part \notin {"guard_slow", "pii", "process", "toxicity"}
      /\ p.rule => part # "rule"
      /\ p.ml => part \notin {"tfidf", "ml_slow"}
      /\ p.ml /\ TransformerReady => part # "transformer"
  BY EssentialPartBlocks
<1>2. ~guard.failed /\ ~llm.failed
  <2>1. ~guard.failed
    BY FailureBlocks
  <2>2. ~llm.failed
    <3> SUFFICES ASSUME llm.failed PROVE FALSE
      OBVIOUS
    <3>1. detection_failed(guard, rule, ml, llm, {part})
      BY DEF detection_failed
    <3> HIDE DEF guard, texts, rule, ml, llm
    <3>2. process(t, source, mode, p, {part}).decision = "BLOCK"
      BY <3>1 DEF process, SystemError, Decided, guard, texts, rule, ml, llm
    <3> QED BY <3>2
  <2> QED BY <2>1, <2>2
<1>3. inspect(t, {}) = guard
  BY <1>1, <1>2 DEF inspect
<1>4. \A u : normalize(u, {}) = normalize(u, {part})
  BY DEF normalize, Tolerated
<1>5. RuleResult(p, texts, {}) = rule
  <2>1. p.rule => \A u : rule_detect(u, {}) = rule_detect(u, {part})
    BY <1>1 DEF rule_detect
  <2> HIDE DEF texts
  <2> QED BY <2>1 DEF RuleResult
<1>6. MlResult(p, texts, {}) = ml
  <2>1. p.ml => \A u : pipeline_run(u, {}) = pipeline_run(u, {part})
    BY <1>1 DEF pipeline_run, ml_detect, transformer_detect, Tolerated
  <2> HIDE DEF texts
  <2> QED BY <1>1, <2>1 DEF MlResult
<1>7. LlmResult(p, mode, guard.text, rule, ml, guard.pii, {}) = llm
  <2> HIDE DEF guard, texts, rule, ml
  <2> QED BY <1>2 DEF LlmResult, llm_detect, failure, clean, Tolerated
<1> HIDE DEF guard, texts, rule, ml, llm
<1>8. /\ inspect(t, {}) = guard /\ normalize(guard.text, {}) = texts
      /\ RuleResult(p, texts, {}) = rule /\ MlResult(p, texts, {}) = ml
      /\ LlmResult(p, mode, guard.text, rule, ml, guard.pii, {}) = llm
  BY <1>3, <1>4, <1>5, <1>6, <1>7 DEF texts
<1> QED BY <1>1, <1>8, ScanParts DEF guard, texts, rule, ml, llm

\* What of a policy a scan reads.
SameForScans(p, q) ==
    /\ p.rule = q.rule /\ p.ml = q.ml /\ p.llm = q.llm
    /\ p.block = q.block /\ p.sanitize = q.sanitize
    /\ p.pii_block = q.pii_block /\ p.pii_sanitize = q.pii_sanitize
    /\ "tox_block" \in DOMAIN p <=> "tox_block" \in DOMAIN q
    /\ "tox_block" \in DOMAIN p => p.tox_block = q.tox_block

LEMMA PoliciesAlike ==
    ASSUME NEW t, NEW source, NEW mode, NEW p, NEW q, NEW down, SameForScans(p, q)
    PROVE  process(t, source, mode, q, down).decision = process(t, source, mode, p, down).decision
<1>1. CASE "process" \in down
  BY <1>1 DEF process, SystemError
<1>2. CASE "process" \notin down
  <2>1. \A texts : RuleResult(q, texts, down) = RuleResult(p, texts, down)
    BY DEF SameForScans, RuleResult
  <2>2. \A texts : MlResult(q, texts, down) = MlResult(p, texts, down)
    BY DEF SameForScans, MlResult
  <2>3. \A u, rule, ml, pii : LlmResult(q, mode, u, rule, ml, pii, down) = LlmResult(p, mode, u, rule, ml, pii, down)
    BY DEF SameForScans, LlmResult
  <2>4. \A final, pii, toxicity : decide(q, source, final, pii, toxicity) = decide(p, source, final, pii, toxicity)
    BY DEF SameForScans, decide, tox_block
  <2> QED BY <1>2, <2>1, <2>2, <2>3, <2>4, ScanParts
<1> QED BY <1>1, <1>2
-----------------------------------------------------------------------------
(* Requests *)

Fields == {"pc", "key", "body", "row", "status", "policy", "target", "results", "sent", "outcome",
           "answer", "audited", "logged", "events", "down", "hit", "late", "unmetered", "replay"}
AnswerFields == {"kind", "decision", "output", "scores", "system"}
IdemFields == {"body", "answer", "of", "foreign"}
AdminFields == {"pc", "what", "value", "absent"}

\* A body as a client or the command line sends it.
Bodies == Requests \cup {[b EXCEPT !.idem = i] : b \in Requests, i \in IdemKeys}

\* Whether single scores may be shown to key k.
MaySeeScores(k) == keys[k] # NoVal /\ keys[k].type # "trial"
-----------------------------------------------------------------------------
(* The inductive invariant *)

Known(r) == IF r.pc = "idle" THEN r = NoReq ELSE r.key \in Keys /\ r.body \in Bodies

\* The row a request was let in with may be out of date, not so its type.
RowOK(r) ==
    /\ r.pc \in Admitted \cup {"tenant", "tenant_store"} => r.row # NoVal
    /\ r.row # NoVal => keys[r.key] # NoVal /\ keys[r.key].type = r.row.type

ScoresOK(r) == r.answer.scores => MaySeeScores(r.key)

\* Between the two reads of the resolver a policy may be out of order, and it
\* stays so only in a request that has failed.
PolicyOK(r) ==
    \/ r.policy = NoVal \/ r.pc = "overrides" \/ Ordered(r.policy)
    \/ r.answer.kind = "error" /\ r.pc \in {"store", "answered"}

\* What is on its way out is an answer.
AnswerOK(r) ==
    r.pc = "store" \/ (r.outcome \in {"TIMEOUT", "FAILED"} /\ r.pc # "answered") => r.answer.kind # "none"

\* A retry that found a response to read will find it.
LateOK(r) ==
    /\ r.pc = "lookup" => r.body.idem \in IdemKeys
    /\ r.late => \/ r.pc = "lookup" /\ idem[<<r.key, r.body.idem>>].answer # NoAnswer
                 \/ r.pc = "answered" /\ (r.answer = Refused \/ r.replay # NoIdem)
ReplayOK(r) == r.replay # NoIdem => r.pc = "answered" /\ (~r.replay.foreign => r.replay.of = r.body)

RequestOK(r) ==
    /\ DOMAIN r = Fields /\ DOMAIN r.answer = AnswerFields
    /\ Known(r) /\ RowOK(r) /\ ScoresOK(r) /\ PolicyOK(r) /\ AnswerOK(r) /\ LateOK(r) /\ ReplayOK(r)

RequestsOK == /\ DOMAIN req = Clients
              /\ \A c \in Clients : RequestOK(req[c])

\* A response that is not foreign answers the body that holds the claim.
ClaimOK(k) ==
    /\ DOMAIN idem[k] = IdemFields /\ DOMAIN idem[k].answer = AnswerFields
    /\ idem[k].answer # NoAnswer /\ ~idem[k].foreign => idem[k].body # NoVal /\ idem[k].of = idem[k].body
    /\ idem[k].answer.scores => MaySeeScores(k[1])
ClaimsOK == /\ DOMAIN idem = Keys \X IdemKeys
            /\ \A k \in Keys \X IdemKeys : ClaimOK(k)

CacheOK == \A e \in cache : DOMAIN e.answer = AnswerFields /\ e.answer.kind = "verdict"

AdminOK(a) ==
    /\ DOMAIN admin[a] = AdminFields
    /\ admin[a].pc = "rotate" => /\ admin[a].what \in Keys /\ keys[admin[a].what] # NoVal
                                 /\ admin[a].value \in KeyRow
    /\ admin[a].pc = "save" /\ admin[a].what = "thresholds" => Ordered(admin[a].value)
TenancyOK == /\ keys \in [Keys -> KeyRow \cup {NoVal}]
             /\ DOMAIN stored = Sections
             /\ stored["thresholds"] # NoVal => Ordered(stored["thresholds"])
             /\ DOMAIN admin = Admins
             /\ \A a \in Admins : AdminOK(a)

CliOK == /\ {"pc", "body"} \subseteq DOMAIN cli
         /\ cli.pc \in {"send", "wait"} => cli.body \in Bodies

Inv == scope \in Scopes /\ RequestsOK /\ ClaimsOK /\ CacheOK /\ TenancyOK /\ CliOK
-----------------------------------------------------------------------------
(* Facts about the operators *)

\* The constants of the records.
LEMMA Shapes ==
    /\ DOMAIN NoReq = Fields /\ DOMAIN NoIdem = IdemFields /\ DOMAIN Idle = AdminFields
    /\ \A a \in {NoAnswer, Refused, TooMany, Lost, ServerError} : DOMAIN a = AnswerFields /\ ~a.scores
    /\ Refused.kind = "refused" /\ TooMany.kind = "limited" /\ Lost.kind = "lost"
    /\ ServerError.kind = "error" /\ NoAnswer.kind = "none" /\ NoIdem.answer = NoAnswer
    /\ ~NoIdem.foreign /\ NoReq.answer = NoAnswer /\ NoReq.replay = NoIdem
  BY DEF NoReq, NoIdem, Idle, NoAnswer, Refused, TooMany, Lost, ServerError,
         Fields, IdemFields, AdminFields, AnswerFields

\* No outcome is not a failure.
LEMMA NoWord == NoVal \notin {"TIMEOUT", "FAILED"}
  BY GatewayAssumption DEF GatewayAssumption, Outcomes

\* A body is never absent, and its idempotency key is one of the known ones.
LEMMA BodyFacts ==
    ASSUME NEW b \in Bodies
    PROVE  /\ b # NoVal
           /\ b.idem \in IdemKeys \cup {NoVal}
           /\ b.op \in {"scan", "execute", "batch", "proxy"}
           /\ b.items \in Seq([text : Texts, source : STRING, role : STRING])
           /\ b.op \in {"scan", "execute"} => Len(b.items) = 1
           /\ b.op = "batch" => b.items # <<>>
<1>1. \A r \in Requests :
        /\ r # NoVal
        /\ r.idem \in IdemKeys \cup {NoVal}
        /\ r.op \in {"scan", "execute", "batch", "proxy"}
        /\ r.items \in Seq([text : Texts, source : STRING, role : STRING])
        /\ r.op \in {"scan", "execute"} => Len(r.items) = 1
        /\ r.op = "batch" => r.items # <<>>
  BY GatewayAssumption DEF GatewayAssumption
<1>2. ASSUME NEW r \in Requests, NEW i \in IdemKeys
      PROVE  LET s == [r EXCEPT !.idem = i] IN s # NoVal /\ s.idem = i /\ s.op = r.op /\ s.items = r.items
  BY GatewayAssumption DEF GatewayAssumption
<1>3. CASE b \in Requests
  BY <1>1, <1>3
<1>4. CASE b \in {[r EXCEPT !.idem = i] : r \in Requests, i \in IdemKeys}
  <2>1. PICK r \in Requests, i \in IdemKeys : b = [r EXCEPT !.idem = i]
    BY <1>4
  <2>2. b # NoVal /\ b.idem = i /\ b.op = r.op /\ b.items = r.items
    BY <2>1, <1>2
  <2> QED BY <1>1, <2>2
<1> QED
  BY <1>3, <1>4 DEF Bodies

\* What gives way to the defaults is in order.
LEMMA ValidPolicies == \A p : Ordered(valid_policy(p))
  BY DetectionAssumption DEF valid_policy, Ordered, Merge, default_thresholds, DetectionAssumption
-----------------------------------------------------------------------------
(* Administration *)

\* A key is never taken away and never changes its type.
KeysKept == \A k \in Keys : keys[k] # NoVal => keys[k]' # NoVal /\ keys[k].type' = keys[k].type

\* A step of the administration.
Administration ==
    \/ Manage
    \/ \E a \in Admins : Begin(a) \/ End(a) \/ drop_tenant_cache(a, TRUE)

\* A change of one column other than the type.
LEMMA RowEdits ==
    ASSUME NEW row \in KeyRow
    PROVE  /\ row # NoVal
           /\ \A ips \in SUBSET Addresses : [row EXCEPT !.ips = ips] \in KeyRow /\ [row EXCEPT !.ips = ips].type = row.type
           /\ [row EXCEPT !.revoked = TRUE] \in KeyRow /\ [row EXCEPT !.revoked = TRUE].type = row.type
           /\ \A e \in {"grace", "past"} : [row EXCEPT !.expires = e] \in KeyRow /\ [row EXCEPT !.expires = e].type = row.type
           /\ \A k \in Keys : Successor(k, row) \in KeyRow
  BY TenancyAssumption DEF TenancyAssumption, KeyRow, Successor

\* While nobody's keys, settings or pending edits change there is nothing to show.
LEMMA QuietTenancy ==
    ASSUME TenancyOK, UNCHANGED <<keys, stored, admin>>
    PROVE  TenancyOK' /\ KeysKept
  BY DEF TenancyOK, AdminOK, KeysKept

\* A write to the row of one key, which does not change its type.
LEMMA RowStep ==
    ASSUME TenancyOK, UNCHANGED <<stored, admin>>, NEW k \in Keys, NEW row \in KeyRow,
           keys' = [keys EXCEPT ![k] = row], keys[k] # NoVal => row.type = keys[k].type
    PROVE  TenancyOK' /\ KeysKept
<1>1. keys' \in [Keys -> KeyRow \cup {NoVal}] /\ KeysKept
  BY RowEdits DEF TenancyOK, KeysKept
<1>2. \A a \in Admins : AdminOK(a)'
  BY <1>1 DEF TenancyOK, AdminOK, KeysKept
<1> QED BY <1>1, <1>2 DEF TenancyOK

\* One administrator's request goes on, keys and settings stay.
LEMMA EditStep ==
    ASSUME TenancyOK, UNCHANGED <<keys, stored>>, NEW a \in Admins, NEW e,
           admin' = [admin EXCEPT ![a] = e], DOMAIN e = AdminFields,
           e.pc = "rotate" => e.what \in Keys /\ keys[e.what] # NoVal /\ e.value \in KeyRow,
           e.pc = "save" /\ e.what = "thresholds" => Ordered(e.value)
    PROVE  TenancyOK' /\ KeysKept
<1>1. \A b \in Admins : AdminOK(b)'
  BY DEF TenancyOK, AdminOK
<1> QED BY <1>1 DEF TenancyOK, KeysKept

\* Administration keeps the keys and the order of the thresholds.
LEMMA AdministrationKeeps ==
    ASSUME TenancyOK, Administration
    PROVE  TenancyOK' /\ KeysKept
<1> USE DEF TenancyOK
<1>1. ASSUME NEW k \in Keys, NEW row, create_key(k, row)
      PROVE  TenancyOK' /\ KeysKept
  BY <1>1, RowStep DEF create_key
<1>2. ASSUME NEW k \in Keys, \/ \E ips \in SUBSET Addresses : update_key(k, ips)
                             \/ delete_key(k) \/ key_expires(k)
      PROVE  TenancyOK' /\ KeysKept
  <2>1. keys[k] \in KeyRow
    BY <1>2 DEF update_key, delete_key, key_expires, active_key
  <2>2. PICK row \in KeyRow : keys' = [keys EXCEPT ![k] = row] /\ row.type = keys[k].type
    <3>1. PICK row : /\ keys' = [keys EXCEPT ![k] = row]
                     /\ \/ \E ips \in SUBSET Addresses : row = [keys[k] EXCEPT !.ips = ips]
                        \/ row = [keys[k] EXCEPT !.revoked = TRUE]
                        \/ row = [keys[k] EXCEPT !.expires = "past"]
      BY <1>2 DEF update_key, delete_key, key_expires
    <3>2. row \in KeyRow /\ row.type = keys[k].type
      <4> HIDE DEF TenancyOK
      <4>1. PICK was \in KeyRow : was = keys[k]
        BY <2>1
      <4>2. CASE \E ips \in SUBSET Addresses : row = [was EXCEPT !.ips = ips]
        <5>1. PICK ips \in SUBSET Addresses : row = [was EXCEPT !.ips = ips]
          BY <4>2
        <5>2. [was EXCEPT !.ips = ips] \in KeyRow /\ [was EXCEPT !.ips = ips].type = was.type
          BY RowEdits
        <5> QED BY <4>1, <5>1, <5>2, Zenon
      <4>3. CASE row = [was EXCEPT !.revoked = TRUE]
        BY <4>1, <4>3, RowEdits
      <4>4. CASE row = [was EXCEPT !.expires = "past"]
        BY <4>1, <4>4, RowEdits
      <4> QED BY <3>1, <4>1, <4>2, <4>3, <4>4, Zenon
    <3> QED BY <3>1, <3>2
  <2>3. UNCHANGED <<stored, admin>>
    BY <1>2 DEF update_key, delete_key, key_expires
  <2> QED BY <2>2, <2>3, RowStep
<1>3. ASSUME NEW a \in Admins, NEW k \in Keys, rotate_key_read(a, k)
      PROVE  TenancyOK' /\ KeysKept
  <2> DEFINE e == [Idle EXCEPT !.pc = "rotate", !.what = k, !.value = keys[k]]
  <2>1. DOMAIN e = AdminFields /\ e.pc = "rotate" /\ e.what = k /\ e.value = keys[k]
    BY DEF Idle, AdminFields
  <2>2. keys[k] \in KeyRow /\ keys[k] # NoVal
    BY <1>3 DEF rotate_key_read, active_key
  <2>3. admin' = [admin EXCEPT ![a] = e] /\ UNCHANGED <<keys, stored>>
    BY <1>3 DEF rotate_key_read
  <2> HIDE DEF e
  <2> QED BY <2>1, <2>2, <2>3, EditStep
<1>4. ASSUME NEW a \in Admins, NEW new \in Keys, rotate_key(a, new)
      PROVE  TenancyOK' /\ KeysKept
  <2> DEFINE old == admin[a].what
             row == Successor(old, admin[a].value)
  <2>1. old \in Keys /\ keys[old] \in KeyRow /\ old # new /\ row \in KeyRow
    BY <1>4, RowEdits DEF rotate_key, AdminOK
  <2>2. [keys[old] EXCEPT !.expires = "grace"] \in KeyRow
        /\ [keys[old] EXCEPT !.expires = "grace"].type = keys[old].type
    BY <2>1, RowEdits
  <2>3. PICK after \in KeyRow : after = [keys[old] EXCEPT !.expires = "grace"]
    BY <2>2
  <2>4. keys' = [[keys EXCEPT ![new] = row] EXCEPT ![old].expires = "grace"]
    BY <1>4 DEF rotate_key
  <2>5. keys' = [[keys EXCEPT ![new] = row] EXCEPT ![old] = after]
    BY <2>1, <2>3, <2>4
  <2> HIDE DEF row, old
  <2>6. keys' \in [Keys -> KeyRow \cup {NoVal}] /\ KeysKept
    <3>1. after # NoVal /\ row # NoVal /\ keys[new] = NoVal
      BY <2>1, <1>4, RowEdits DEF rotate_key
    <3>2. /\ keys' \in [Keys -> KeyRow \cup {NoVal}] /\ keys'[old] = after /\ keys'[new] = row
          /\ \A k \in Keys \ {old, new} : keys'[k] = keys[k]
      BY <2>1, <2>5
    <3> QED BY <2>2, <2>3, <3>1, <3>2 DEF KeysKept
  <2>7. admin' = [admin EXCEPT ![a] = Idle] /\ UNCHANGED stored
    BY <1>4 DEF rotate_key
  <2>8. \A b \in Admins : AdminOK(b)'
    BY <2>6, <2>7, Shapes DEF AdminOK, KeysKept, Idle, AdminFields
  <2> QED BY <2>6, <2>7, <2>8
<1>5. ASSUME NEW a \in Admins, \/ \E s \in {"active", "suspended"} : set_status(a, s)
                               \/ drop_tenant_cache(a, FALSE) \/ drop_tenant_cache(a, TRUE)
                               \/ settings_conflict(a) \/ department_update(a) \/ application_update(a)
      PROVE  TenancyOK' /\ KeysKept
  <2>1. PICK e \in {Idle, [Idle EXCEPT !.pc = "drop"]} : admin' = [admin EXCEPT ![a] = e]
    BY <1>5 DEF set_status, drop_tenant_cache, settings_conflict, department_update, application_update,
                PatchSaved
  <2>2. DOMAIN e = AdminFields /\ e.pc \in {"idle", "drop"}
    BY <2>1 DEF Idle, AdminFields
  <2>3. UNCHANGED <<keys, stored>>
    BY <1>5 DEF set_status, drop_tenant_cache, settings_conflict, department_update, application_update,
                PatchSaved
  <2> QED BY <2>1, <2>2, <2>3, EditStep
<1>6. ASSUME NEW a \in Admins, NEW section \in Sections, NEW value, Edit(a, section, value),
             section = "thresholds" => Ordered(value)
      PROVE  TenancyOK' /\ KeysKept
  <2> DEFINE e == [pc |-> "save", what |-> section, value |-> value, absent |-> stored[section] = NoVal]
  <2>1. DOMAIN e = AdminFields /\ e.pc = "save" /\ e.what = section /\ e.value = value
    BY DEF AdminFields
  <2>2. admin' = [admin EXCEPT ![a] = e] /\ UNCHANGED <<keys, stored>>
    BY <1>6 DEF Edit
  <2> HIDE DEF e
  <2> QED BY <1>6, <2>1, <2>2, EditStep
<1>7. ASSUME NEW a \in Admins, settings_set(a)
      PROVE  TenancyOK' /\ KeysKept
  <2>1. stored["thresholds"]' # NoVal => Ordered(stored["thresholds"])'
    BY <1>7 DEF settings_set, AdminOK, Sections, Ordered
  <2>2. UNCHANGED keys /\ DOMAIN stored' = Sections /\ admin' = [admin EXCEPT ![a] = Idle]
    BY <1>7 DEF settings_set
  <2>3. \A b \in Admins : AdminOK(b)'
    BY <2>2 DEF AdminOK, Idle, AdminFields
  <2> QED BY <2>1, <2>2, <2>3 DEF KeysKept
<1>8. ASSUME NEW a \in Admins, NEW level \in Levels, NEW name, NEW body, PatchSection(a, level, name, body)
      PROVE  TenancyOK' /\ KeysKept
  <2> DEFINE value == Patched(override[level], name, body)
             e == [Idle EXCEPT !.pc = "save", !.what = level, !.value = value]
  <2>1. DOMAIN e = AdminFields /\ e.pc = "save" /\ e.what # "thresholds"
    BY DEF Idle, AdminFields, Levels
  <2>2. admin' = [admin EXCEPT ![a] = e] /\ UNCHANGED <<keys, stored>>
    BY <1>8 DEF PatchSection
  <2> HIDE DEF e
  <2> QED BY <2>1, <2>2, EditStep
<1>9. CASE Manage
  <2>1. CASE UNCHANGED <<keys, stored, admin>>
    BY <2>1, QuietTenancy
  <2> QED
    BY <1>9, <1>1, <1>2, <2>1
       DEF Manage, create_department, create_application, update_department, update_application,
           set_application_policy, reset_application_policy, delete_department, delete_application,
           Replace, Deactivate, put_proxy_settings, delete_proxy_settings, secret_key_changes,
           tenant_cache_expires
<1>10. ASSUME NEW a \in Admins, Begin(a)
       PROVE  TenancyOK' /\ KeysKept
  BY <1>10, <1>3, <1>5, <1>6, <1>8
     DEF Begin, update_thresholds, update_layers, update_rate_limit, update_llm_settings, Sections, Levels,
         update_dept_llm_override, update_app_llm_override, update_dept_proxy_override,
         update_app_proxy_override
<1>11. ASSUME NEW a \in Admins, End(a) \/ drop_tenant_cache(a, TRUE)
       PROVE  TenancyOK' /\ KeysKept
  BY <1>11, <1>4, <1>5, <1>7 DEF End
<1> QED BY <1>9, <1>10, <1>11 DEF Administration
-----------------------------------------------------------------------------
(* One request *)

\* Client c goes on with a record that is in order.
Advances(c) == \E r : Goto(c, r) /\ RequestOK(r)

\* No stored response goes.
AnswersStay == \A k \in Keys \X IdemKeys : idem[k].answer # NoAnswer => idem[k].answer' # NoAnswer

\* What a request owes to the keys and the claims outlives the others' steps.
LEMMA Later ==
    ASSUME NEW r, RequestOK(r), KeysKept, AnswersStay
    PROVE  RequestOK(r)'
<1>1. CASE r.pc = "idle"
  <2>1. r = NoReq
    BY <1>1 DEF RequestOK, Known
  <2> QED
    BY <2>1, NoWord, Shapes DEF NoReq, NoAnswer, RequestOK, Known, RowOK, ScoresOK, PolicyOK, AnswerOK,
                                LateOK, ReplayOK, Admitted
<1>2. CASE r.pc # "idle"
  <2>1. r.key \in Keys
    BY <1>2 DEF RequestOK, Known
  <2>2. RowOK(r)' /\ ScoresOK(r)'
    BY <2>1 DEF RequestOK, RowOK, ScoresOK, MaySeeScores, KeysKept
  <2>3. LateOK(r)'
    BY <2>1 DEF RequestOK, LateOK, AnswersStay
  <2> QED BY <2>2, <2>3 DEF RequestOK, Known, PolicyOK, AnswerOK, ReplayOK
<1> QED BY <1>1, <1>2

LEMMA Advance ==
    ASSUME RequestsOK, NEW c \in Clients, Advances(c), KeysKept, AnswersStay
    PROVE  RequestsOK'
<1>1. PICK r : Goto(c, r) /\ RequestOK(r)
  BY DEF Advances
<1>3. \A d \in Clients : req'[d] = IF d = c THEN r ELSE req[d]
  BY <1>1 DEF RequestsOK, Goto
<1>4. ASSUME NEW d \in Clients
      PROVE  RequestOK(req[d])'
  <2>1. PICK s : s = req'[d]
    OBVIOUS
  <2>2. RequestOK(s)
    BY <1>1, <1>3, <2>1 DEF RequestsOK
  <2>3. RequestOK(s)'
    BY <2>2, Later
  <2> QED BY <2>1, <2>3
<1> QED BY <1>1, <1>4 DEF RequestsOK, Goto

\* The fields that no step beyond the lookup writes.
Carries(r, s) ==
    DOMAIN s = Fields /\ s.key = r.key /\ s.body = r.body /\ s.row = r.row /\ s.late = r.late /\ s.replay = r.replay

\* Beyond the lookup a request is neither late nor replayed, and keeps who sent
\* it; what remains to be shown of its next record.
LEMMA Onward ==
    ASSUME NEW r, NEW s, RequestOK(r), r.pc \in Admitted \ {"lookup"},
           Carries(r, s), DOMAIN s.answer = AnswerFields, s.pc \notin {"idle", "lookup"},
           s.answer.scores => r.answer.scores \/ r.row.type # "trial",
           PolicyOK(s), AnswerOK(s)
    PROVE  RequestOK(s)
<1>1. ~r.late /\ r.replay = NoIdem /\ r.row # NoVal
  BY DEF RequestOK, LateOK, ReplayOK, RowOK, Admitted
<1> QED BY <1>1 DEF Carries, RequestOK, Known, RowOK, ScoresOK, MaySeeScores, LateOK, ReplayOK, Admitted

\* The response of the endpoint as the caller may see it.
LEMMA Restricted ==
    ASSUME NEW c, NEW a, DOMAIN a = AnswerFields
    PROVE  LET b == restrict_layer_scores(c, a) IN
           /\ DOMAIN b = AnswerFields /\ b.kind = a.kind
           /\ b.scores => req[c].row.type # "trial"
  BY DEF restrict_layer_scores, holds_permission, AnswerFields

LEMMA Responses ==
    ASSUME NEW decision, NEW output, NEW results
    PROVE  LET b == build_response(decision, output, results) IN
           /\ DOMAIN b = AnswerFields /\ b.kind = "verdict"
           /\ results = <<>> => ~b.scores
  BY DEF build_response, AnswerFields

\* An answer that carries no verdict ends a request whose policy is in order, a
\* server error any.
LEMMA Answers ==
    ASSUME NEW r, RequestOK(r), r.pc \in Admitted \ {"lookup", "store"},
           NEW a \in {Refused, TooMany, ServerError}, a = ServerError \/ r.pc # "overrides"
    PROVE  RequestOK(Answer(r, a))
<1>1. PICK s : s = Answer(r, a)
  OBVIOUS
<1>2. Carries(r, s) /\ s.pc = "store" /\ s.answer = a /\ s.policy = r.policy
  BY <1>1 DEF RequestOK, Answer, Fields, Carries
<1>3. DOMAIN a = AnswerFields /\ ~a.scores /\ a.kind # "none" /\ (a = ServerError => a.kind = "error")
  BY Shapes
<1>4. PolicyOK(s) /\ AnswerOK(s)
  BY <1>2, <1>3 DEF RequestOK, PolicyOK, AnswerOK, Admitted
<1> QED BY <1>1, <1>2, <1>3, <1>4, Onward

\* The gates and the policy.
LEMMA PolicySteps ==
    ASSUME RequestsOK, NEW c \in Clients,
           resolve_settings(c) \/ resolve_policy(c) \/ proxy_config(c) \/ cache_miss(c)
    PROVE  Advances(c)
<1> DEFINE r == req[c]
<1>1. RequestOK(r) /\ DOMAIN r = Fields /\ DOMAIN r.answer = AnswerFields
  BY DEF RequestsOK, RequestOK
<1>2. CASE resolve_settings(c)
  <2>1. r.pc = "handler"
    BY <1>2 DEF resolve_settings, At
  <2>2. PICK s : Goto(c, s) /\ \/ s \in {Answer(r, Refused), Answer(r, TooMany), Answer(r, ServerError)}
                               \/ \E b \in BOOLEAN : s = [r EXCEPT !.pc = "overrides", !.policy = tenant_policy,
                                                                   !.unmetered = @ \/ b]
    <3> HIDE DEF r
    <3> QED BY <1>2 DEF resolve_settings, Step, r
  <2>3. CASE \E b \in BOOLEAN : s = [r EXCEPT !.pc = "overrides", !.policy = tenant_policy, !.unmetered = @ \/ b]
    <3>1. Carries(r, s) /\ s.pc = "overrides" /\ s.answer = r.answer /\ s.outcome = r.outcome
      BY <1>1, <2>3 DEF Fields, Carries
    <3> QED BY <1>1, <2>1, <2>2, <3>1, Onward DEF PolicyOK, AnswerOK, RequestOK, Advances, Admitted
  <2> QED BY <1>1, <2>1, <2>2, <2>3, Answers DEF Admitted, Advances
<1>3. CASE resolve_policy(c)
  <2>1. r.pc = "overrides"
    BY <1>3 DEF resolve_policy, At
  <2> DEFINE dept == level_policy(req[c].policy, "dept")
             p == IF req[c].row.app THEN level_policy(dept, "app") ELSE dept
             after == CASE Op(c) = "batch" -> "scan" [] Op(c) = "proxy" -> "config" [] OTHER -> "cache"
  <2>2. PICK s \in {Answer(r, ServerError), [[r EXCEPT !.policy = valid_policy(p)] EXCEPT !.pc = after],
                    Answer([r EXCEPT !.policy = valid_policy(p)], Refused)} : Goto(c, s)
    BY <1>3 DEF resolve_policy
  <2>5. after \in {"scan", "config", "cache"}
    OBVIOUS
  <2> HIDE DEF p, after
  <2>3. CASE s = Answer(r, ServerError)
    BY <1>1, <2>1, <2>2, <2>3, Answers DEF Admitted, Advances
  <2>4. CASE s \in {[[r EXCEPT !.policy = valid_policy(p)] EXCEPT !.pc = after],
                    Answer([r EXCEPT !.policy = valid_policy(p)], Refused)}
    <3>1. Carries(r, s) /\ s.pc \in {after, "store"} /\ s.policy = valid_policy(p) /\ s.outcome = r.outcome
      BY <1>1, <2>4 DEF Fields, Carries, Answer
    <3>2. s.answer = Refused \/ (s.answer = r.answer /\ s.pc # "store")
      BY <1>1, <2>4, <2>5 DEF Fields, Answer
    <3>3. PolicyOK(s) /\ AnswerOK(s) /\ DOMAIN s.answer = AnswerFields
      BY <1>1, <2>1, <2>5, <3>1, <3>2, Shapes, ValidPolicies DEF PolicyOK, AnswerOK, RequestOK
    <3> QED BY <1>1, <2>1, <2>2, <2>5, <3>1, <3>2, <3>3, Shapes, Onward DEF Advances, Admitted
  <2> QED BY <2>2, <2>3, <2>4
<1>4. CASE proxy_config(c) \/ cache_miss(c)
  <2>1. r.pc \in {"config", "cache"}
    BY <1>4 DEF proxy_config, cache_miss, At
  <2> DEFINE Scans(s) == /\ Carries(r, s) /\ s.pc = "scan" /\ s.answer = r.answer /\ s.outcome = r.outcome
                         /\ s.policy = r.policy
  <2>2. PICK s : Goto(c, s) /\ (s \in {Answer(r, Refused), Answer(r, TooMany)} \/ Scans(s))
    <3>1. CASE proxy_config(c)
      <4>1. PICK b, s : /\ b \in BOOLEAN /\ Goto(c, s)
                        /\ \/ s \in {Answer(r, Refused), Answer(r, TooMany)}
                           \/ s = [[r EXCEPT !.pc = "scan"] EXCEPT !.target = proxy_provider(c),
                                                                   !.unmetered = @ \/ b]
        BY <3>1 DEF proxy_config, Step
      <4> QED BY <1>1, <4>1 DEF Carries, Fields
    <3>2. CASE cache_miss(c)
      <4>1. PICK s \in {Answer(r, TooMany), [r EXCEPT !.pc = "scan"]} : Goto(c, s)
        BY <3>2 DEF cache_miss, Step
      <4> QED BY <1>1, <4>1 DEF Carries, Fields
    <3> QED BY <1>4, <3>1, <3>2
  <2>3. CASE Scans(s)
    BY <1>1, <2>1, <2>2, <2>3, Onward DEF PolicyOK, AnswerOK, RequestOK, Advances, Admitted
  <2> QED BY <1>1, <2>1, <2>2, <2>3, Answers DEF Admitted, Advances
<1> QED BY <1>2, <1>3, <1>4

\* The scans and the provider.
LEMMA ScanSteps ==
    ASSUME RequestsOK, NEW c \in Clients,
           \/ ai_scan(c) \/ ai_scan_batch(c) \/ proxy_scan(c)
           \/ llm_fails(c) \/ provider_config_error(c) \/ provider_times_out(c) \/ provider_malformed(c)
           \/ provider_unavailable(c) \/ provider_unsupported(c)
           \/ \E t \in Replies : call_llm(c, t) \/ chat_completions(c, t)
    PROVE  Advances(c)
<1> DEFINE r == req[c]
<1>1. RequestOK(r) /\ DOMAIN r = Fields /\ DOMAIN r.answer = AnswerFields
  BY DEF RequestsOK, RequestOK
<1>2. CASE ai_scan(c) \/ ai_scan_batch(c) \/ proxy_scan(c)
  <2>1. r.pc = "scan"
    BY <1>2 DEF ai_scan, ai_scan_batch, proxy_scan, Doing, At
  <2>2. PICK scans, s : /\ Goto(c, s)
                        /\ \/ \E to \in {"audit", "provider"} : s = [Judged(c, scans) EXCEPT !.pc = to]
                           \/ \E to \in {"audit", "provider"}, o \in {"BLOCKED", NoVal} :
                                s = [Judged(c, scans) EXCEPT !.pc = to, !.events = 1, !.outcome = o]
    BY <1>2 DEF ai_scan, ai_scan_batch, proxy_scan, Scan
  <2>3. PICK j : j = Judged(c, scans)
    OBVIOUS
  <2>4. /\ Carries(r, j) /\ j.policy = r.policy /\ DOMAIN j.answer = AnswerFields
        /\ j.answer.scores = r.answer.scores /\ j.answer.kind = r.answer.kind
        /\ j.outcome = r.outcome
    BY <1>1, <2>3 DEF Judged, Fields, AnswerFields, Carries
  <2>5. /\ Carries(r, s) /\ s.policy = r.policy /\ s.answer = j.answer /\ s.pc \in {"audit", "provider"}
        /\ s.outcome \in {r.outcome, "BLOCKED", NoVal}
    BY <2>2, <2>3, <2>4, ZenonT(60) DEF Carries, Fields
  <2>6. PolicyOK(s) /\ AnswerOK(s)
    BY <1>1, <2>1, <2>4, <2>5, NoWord DEF RequestOK, PolicyOK, AnswerOK
  <2> QED BY <1>1, <2>1, <2>2, <2>4, <2>5, <2>6, Onward DEF Advances, Admitted
<1>3. CASE provider_config_error(c)
  BY <1>1, <1>3, Answers DEF provider_config_error, Doing, At, Admitted, Advances
<1>4. ASSUME NEW o \in {"TIMEOUT", "FAILED"}, NEW a \in {Refused, TooMany, ServerError},
             UpstreamFails(c, o, a)
      PROVE  Advances(c)
  <2>1. PICK s : /\ Goto(c, s) /\ r.pc = "provider"
                 /\ s = [[[r EXCEPT !.pc = "audit"] EXCEPT !.outcome = o, !.answer = a] EXCEPT !.sent = Outgoing(c)]
    BY <1>4 DEF UpstreamFails, Forwarded, Sent, Step, Doing, At
  <2>2. /\ Carries(r, s) /\ s.pc = "audit" /\ s.policy = r.policy /\ s.answer = a
        /\ ~a.scores /\ a.kind # "none" /\ DOMAIN a = AnswerFields
    BY <1>1, <2>1, Shapes DEF Carries, Fields
  <2> QED BY <1>1, <2>1, <2>2, Onward, ZenonT(60) DEF PolicyOK, AnswerOK, RequestOK, Advances, Admitted
<1>5. CASE provider_times_out(c) \/ provider_malformed(c) \/ provider_unavailable(c) \/ provider_unsupported(c)
  BY <1>5, <1>4 DEF provider_times_out, provider_malformed, provider_unavailable, provider_unsupported,
                    map_provider_failure
<1>6. CASE llm_fails(c) \/ \E t \in Replies : call_llm(c, t) \/ chat_completions(c, t)
  <2>1. r.pc = "provider"
    BY <1>6 DEF llm_fails, call_llm, chat_completions, Forwarded, Doing, At
  <2>2. PICK i : i \in {[r EXCEPT !.pc = "audit"], [r EXCEPT !.pc = "output"]}
               /\ \E j : /\ Goto(c, [j EXCEPT !.sent = Outgoing(c)])
                         /\ \/ j = [i EXCEPT !.answer.kind = "error"]
                            \/ \E t \in Replies : j = [i EXCEPT !.answer.output = t]
    BY <1>6 DEF llm_fails, call_llm, chat_completions, Forwarded, Sent, Step
  <2>3. /\ Carries(r, i) /\ i.pc \in {"audit", "output"} /\ i.policy = r.policy /\ i.outcome = r.outcome
        /\ i.answer = r.answer
    BY <1>1, <2>2 DEF Carries, Fields
  <2>4. PICK j : /\ Goto(c, [j EXCEPT !.sent = Outgoing(c)])
                 /\ \/ j = [i EXCEPT !.answer.kind = "error"]
                    \/ \E t \in Replies : j = [i EXCEPT !.answer.output = t]
    BY <2>2
  <2>5. /\ Carries(r, j) /\ j.pc = i.pc /\ j.policy = i.policy /\ j.outcome = i.outcome
        /\ DOMAIN j.answer = AnswerFields /\ j.answer.scores = r.answer.scores
        /\ j.answer.kind \in {"error", r.answer.kind}
    BY <1>1, <2>3, <2>4 DEF Carries, Fields, AnswerFields
  <2>6. PICK s : s = [j EXCEPT !.sent = Outgoing(c)]
    OBVIOUS
  <2>7. Carries(r, s) /\ s.pc = j.pc /\ s.policy = j.policy /\ s.outcome = j.outcome /\ s.answer = j.answer
    BY <2>6, <2>5 DEF Carries, Fields
  <2>8. PolicyOK(s) /\ AnswerOK(s)
    BY <1>1, <2>1, <2>3, <2>5, <2>7 DEF PolicyOK, AnswerOK, RequestOK
  <2> QED BY <1>1, <2>1, <2>3, <2>4, <2>5, <2>6, <2>7, <2>8, Onward, ZenonT(60) DEF Advances, Admitted
<1> QED BY <1>2, <1>3, <1>5, <1>6

\* The output guard, the audit and the response.
LEMMA AnswerSteps ==
    ASSUME RequestsOK, CacheOK, NEW c \in Clients,
           \/ guard_completion(c) \/ guard_proxied(c) \/ cache_hit(c)
           \/ audit_scan(c) \/ audit_batch(c) \/ log_interaction(c) \/ ai_respond(c) \/ proxy_respond(c)
    PROVE  Advances(c)
<1> DEFINE r == req[c]
<1>1. RequestOK(r) /\ DOMAIN r = Fields /\ DOMAIN r.answer = AnswerFields
  BY DEF RequestsOK, RequestOK
<1>2. CASE guard_completion(c) \/ guard_proxied(c)
  <2>1. PICK s, g : /\ Goto(c, s) /\ r.pc = "output"
                    /\ \/ s = [[r EXCEPT !.pc = "audit"] EXCEPT !.answer = Passed(@, g)]
                       \/ \E o \in {"OUTPUT_BLOCKED", "SUCCESS"} :
                            s = [[r EXCEPT !.pc = "audit"] EXCEPT !.answer = Passed(@, g), !.outcome = o]
    BY <1>2 DEF guard_completion, guard_proxied, Inspect, Step, Doing, At
  <2>2. LET a == Passed(r.answer, g) IN
        DOMAIN a = AnswerFields /\ a.kind = r.answer.kind /\ a.scores = r.answer.scores
    BY <1>1 DEF Passed, AnswerFields
  <2>3. /\ Carries(r, s) /\ s.pc = "audit" /\ s.policy = r.policy /\ s.answer = Passed(r.answer, g)
        /\ s.outcome \in {r.outcome, "OUTPUT_BLOCKED", "SUCCESS"}
    BY <1>1, <2>1, ZenonT(60) DEF Carries, Fields
  <2> QED BY <1>1, <2>1, <2>2, <2>3, Onward DEF PolicyOK, AnswerOK, RequestOK, Advances, Admitted
<1>3. CASE cache_hit(c)
  <2> DEFINE e == CHOOSE x \in cache : x.key = cache_key(r)
  <2>1. r.pc = "cache" /\ e \in cache
    BY <1>3 DEF cache_hit, At
  <2>2. PICK s : /\ Goto(c, s)
                 /\ \/ s = Answer(r, ServerError)
                    \/ s = Answer([r EXCEPT !.hit = TRUE, !.events = 1, !.audited = <<cache_hit_audit(e.answer)>>],
                                  restrict_layer_scores(c, e.answer))
    BY <1>3 DEF cache_hit
  <2> HIDE DEF e
  <2>3. CASE s = Answer(r, ServerError)
    BY <1>1, <2>1, <2>2, <2>3, Answers DEF Admitted, Advances
  <2>4. CASE s = Answer([r EXCEPT !.hit = TRUE, !.events = 1, !.audited = <<cache_hit_audit(e.answer)>>],
                        restrict_layer_scores(c, e.answer))
    <3>1. PICK a : /\ a = restrict_layer_scores(c, e.answer) /\ DOMAIN a = AnswerFields /\ a.kind = "verdict"
                   /\ a.scores => r.row.type # "trial"
      BY <2>1, Restricted DEF CacheOK
    <3>2. Carries(r, s) /\ s.pc = "store" /\ s.policy = r.policy /\ s.outcome = r.outcome /\ s.answer = a
      BY <1>1, <2>4, <3>1 DEF Answer, Carries, Fields
    <3> QED BY <1>1, <2>1, <2>2, <3>1, <3>2, Onward DEF PolicyOK, AnswerOK, RequestOK, Advances, Admitted
  <2> QED BY <2>2, <2>3, <2>4
<1>4. ASSUME NEW s, Goto(c, s), Carries(r, s), r.pc \in {"audit", "respond"}, s.pc \notin {"idle", "lookup"},
             DOMAIN s.answer = AnswerFields, s.policy = r.policy,
             s.answer.scores => r.answer.scores \/ r.row.type # "trial", AnswerOK(s)
      PROVE  Advances(c)
  BY <1>1, <1>4, Onward DEF PolicyOK, RequestOK, Advances, Admitted
<1>5. CASE audit_scan(c)
  <2>1. r.pc = "audit"
    BY <1>5 DEF audit_scan, Doing, At
  <2>2. PICK s : /\ Goto(c, s)
                 /\ \/ s = Answer(r, ServerError)
                    \/ /\ r.answer.kind = "error"
                       /\ s = [[r EXCEPT !.pc = "store"] EXCEPT !.audited = <<build_audit_data(c, 1)>>, !.events = 1,
                                                                !.answer = ServerError]
                    \/ /\ r.answer.kind # "error"
                       /\ s = [[r EXCEPT !.pc = "respond"] EXCEPT !.audited = <<build_audit_data(c, 1)>>, !.events = 1,
                                                                  !.answer = r.answer]
    BY <1>1, <1>5 DEF audit_scan, Step, Fields
  <2>3. CASE s # Answer(r, ServerError)
    <3>1. /\ Carries(r, s) /\ s.pc \in {"store", "respond"} /\ s.policy = r.policy /\ s.outcome = r.outcome
          /\ s.answer = ServerError \/ (s.answer = r.answer /\ s.pc # "store")
      BY <1>1, <2>2, <2>3, ZenonT(60) DEF Carries, Fields
    <3>2. AnswerOK(s) /\ DOMAIN s.answer = AnswerFields /\ (s.answer.scores => r.answer.scores)
      BY <1>1, <2>1, <3>1, Shapes DEF AnswerOK, RequestOK
    <3> QED BY <1>4, <2>1, <2>2, <3>1, <3>2
  <2> QED BY <1>1, <2>1, <2>2, <2>3, Answers DEF Admitted, Advances
<1>6. CASE audit_batch(c)
  <2> DEFINE b == restrict_layer_scores(c, build_response(r.answer.decision, NoVal, r.results))
  <2>1. r.pc = "audit"
    BY <1>6 DEF audit_batch, Doing, At
  <2>2. PICK s, rows_, n : /\ Goto(c, s)
                           /\ \/ s = [Answer(r, b) EXCEPT !.audited = rows_, !.events = n]
                              \/ s = [Answer(r, ServerError) EXCEPT !.audited = rows_]
    BY <1>6 DEF audit_batch
  <2>3. DOMAIN b = AnswerFields /\ b.kind = "verdict" /\ (b.scores => r.row.type # "trial")
    BY Restricted, Responses
  <2> HIDE DEF b
  <2>4. /\ Carries(r, s) /\ s.pc = "store" /\ s.policy = r.policy /\ s.outcome = r.outcome
        /\ s.answer \in {b, ServerError}
    BY <1>1, <2>2, ZenonT(60) DEF Carries, Answer, Fields
  <2> QED BY <1>4, <2>1, <2>2, <2>3, <2>4, Shapes DEF AnswerOK
<1>7. CASE log_interaction(c)
  <2>1. r.pc = "audit"
    BY <1>7 DEF log_interaction, Doing, At
  <2>2. PICK s, rows_ : /\ Goto(c, s)
                        /\ \/ s = [[[r EXCEPT !.pc = "respond"] EXCEPT !.logged = r.outcome] EXCEPT !.audited = rows_]
                           \/ s = [[r EXCEPT !.pc = "respond"] EXCEPT !.logged = r.outcome]
                           \/ s = [r EXCEPT !.pc = "respond"]
    BY <1>7 DEF log_interaction, Step
  <2>3. /\ Carries(r, s) /\ s.pc = "respond" /\ s.policy = r.policy /\ s.outcome = r.outcome /\ s.answer = r.answer
    BY <1>1, <2>2, ZenonT(60) DEF Carries, Fields
  <2> QED BY <1>1, <1>4, <2>1, <2>2, <2>3 DEF AnswerOK, RequestOK
<1>8. CASE ai_respond(c)
  <2> DEFINE b == restrict_layer_scores(c, build_response(r.answer.decision, r.answer.output, r.results))
  <2>1. r.pc = "respond" /\ Goto(c, Answer(r, b))
    BY <1>8 DEF ai_respond, Doing, At
  <2>2. DOMAIN b = AnswerFields /\ b.kind = "verdict" /\ (b.scores => r.row.type # "trial")
    BY Restricted, Responses
  <2> HIDE DEF b
  <2>3. PICK s : s = Answer(r, b)
    OBVIOUS
  <2>4. /\ Carries(r, s) /\ s.pc = "store" /\ s.policy = r.policy /\ s.answer = b
    BY <1>1, <2>3 DEF Carries, Answer, Fields
  <2> QED BY <1>4, <2>1, <2>2, <2>3, <2>4 DEF AnswerOK
<1>9. CASE proxy_respond(c)
  <2> DEFINE b == build_response(r.answer.decision, r.answer.output, <<>>)
  <2>1. PICK a : /\ r.pc = "respond" /\ Goto(c, Answer(r, a))
                 /\ (r.outcome \in {"TIMEOUT", "FAILED"} /\ a = r.answer) \/ a = b
    BY <1>9 DEF proxy_respond, Doing, At
  <2>2. DOMAIN b = AnswerFields /\ b.kind = "verdict" /\ ~b.scores
    BY Responses
  <2> HIDE DEF b
  <2>3. PICK s : s = Answer(r, a)
    OBVIOUS
  <2>4. /\ Carries(r, s) /\ s.pc = "store" /\ s.policy = r.policy /\ s.answer = a
    BY <1>1, <2>3 DEF Carries, Answer, Fields
  <2>5. a.kind # "none" /\ DOMAIN a = AnswerFields /\ (a.scores => r.answer.scores)
    BY <1>1, <2>1, <2>2 DEF RequestOK, AnswerOK
  <2> QED BY <1>4, <2>1, <2>3, <2>4, <2>5 DEF AnswerOK
<1> QED BY <1>2, <1>3, <1>5, <1>6, <1>7, <1>8, <1>9

\* A record of which only the state of the idempotency layer need be known.
LEMMA Entering ==
    ASSUME NEW r, NEW s, RequestOK(r), r.pc \in {"auth", "tenant", "tenant_store"},
           DOMAIN s = Fields, s.answer = r.answer \/ s.answer = Refused,
           s.key = r.key, s.body = r.body, s.late = r.late, s.replay = r.replay,
           s.outcome = r.outcome, s.policy = r.policy,
           s.pc \in {"tenant", "tenant_store", "idem", "answered"}, RowOK(s)
    PROVE  RequestOK(s)
<1>1. ~r.late /\ r.replay = NoIdem
  BY DEF RequestOK, LateOK, ReplayOK
<1> QED BY <1>1, Shapes DEF RequestOK, Known, ScoresOK, PolicyOK, AnswerOK, LateOK, ReplayOK

\* Authentication and the status of the tenant.
LEMMA EntrySteps ==
    ASSUME RequestsOK, TenancyOK, NEW c \in Clients,
           authenticate_api_key(c) \/ tenant_read(c) \/ tenant_store(c)
    PROVE  Advances(c)
<1> DEFINE r == req[c]
<1>1. RequestOK(r) /\ DOMAIN r = Fields /\ DOMAIN r.answer = AnswerFields
  BY DEF RequestsOK, RequestOK
<1>2. CASE authenticate_api_key(c)
  <2>1. r.pc = "auth" /\ r.key \in Keys
    BY <1>1, <1>2 DEF authenticate_api_key, At, RequestOK, Known
  <2>2. PICK s : /\ Goto(c, s)
                 /\ \/ s = [r EXCEPT !.pc = "answered", !.answer = Refused]
                    \/ /\ keys[r.key] # NoVal
                       /\ \/ \E to \in {"tenant", "idem"} : s = [[r EXCEPT !.row = keys[r.key]] EXCEPT !.pc = to]
                          \/ s = [[r EXCEPT !.row = keys[r.key]] EXCEPT !.pc = "answered", !.answer = Refused]
    BY <1>2 DEF authenticate_api_key, get_standard_key, active_key, Reject
  <2>3. /\ DOMAIN s = Fields /\ (s.answer = r.answer \/ s.answer = Refused)
        /\ s.key = r.key /\ s.body = r.body /\ s.late = r.late /\ s.replay = r.replay
        /\ s.outcome = r.outcome /\ s.policy = r.policy
        /\ s.pc \in {"tenant", "tenant_store", "idem", "answered"}
    BY <1>1, <2>2, ZenonT(60) DEF Fields
  <2>4. (s.row = r.row /\ s.pc = "answered") \/ (keys[r.key] # NoVal /\ s.row = keys[r.key])
    BY <1>1, <2>2 DEF Fields
  <2>5. RowOK(s)
    BY <1>1, <2>3, <2>4 DEF RequestOK, RowOK, Admitted
  <2> QED BY <1>1, <2>1, <2>2, <2>3, <2>5, Entering DEF Advances
<1>3. CASE tenant_read(c) \/ tenant_store(c)
  <2>1. r.pc \in {"tenant", "tenant_store"}
    BY <1>3 DEF tenant_read, tenant_store, At
  <2>2. PICK s : /\ Goto(c, s)
                 /\ \/ s = [r EXCEPT !.pc = "answered", !.answer = Refused]
                    \/ s = [r EXCEPT !.pc = "tenant_store", !.status = tenant]
                    \/ s = [r EXCEPT !.pc = "idem"]
    BY <1>3 DEF tenant_read, tenant_store, Reject, Step
  <2>3. /\ DOMAIN s = Fields /\ (s.answer = r.answer \/ s.answer = Refused)
        /\ s.key = r.key /\ s.body = r.body /\ s.late = r.late /\ s.replay = r.replay
        /\ s.outcome = r.outcome /\ s.policy = r.policy /\ s.row = r.row
        /\ s.pc \in {"tenant", "tenant_store", "idem", "answered"}
    BY <1>1, <2>2, ZenonT(60) DEF Fields
  <2>5. RowOK(s)
    BY <1>1, <2>1, <2>3 DEF RequestOK, RowOK
  <2> QED BY <1>1, <2>1, <2>2, <2>3, <2>5, Entering DEF Advances
<1> QED BY <1>2, <1>3

\* A request arrives, and its client takes the answer.
LEMMA ClientSteps ==
    ASSUME NEW c \in Clients,
           \/ finish(c)
           \/ \E k \in Keys, body \in Bodies : rate_limit_dispatch(c, k, body)
    PROVE  Advances(c)
<1>1. CASE finish(c)
  <2>1. RequestOK(NoReq)
    BY NoWord, Shapes DEF NoReq, NoAnswer, RequestOK, Known, RowOK, ScoresOK, PolicyOK, AnswerOK, LateOK,
                          ReplayOK, Admitted
  <2> QED BY <1>1, <2>1 DEF finish, Advances
<1>2. ASSUME NEW k \in Keys, NEW body \in Bodies, rate_limit_dispatch(c, k, body)
      PROVE  Advances(c)
  <2>1. PICK r : r = [NoReq EXCEPT !.pc = "auth", !.key = k, !.body = body]
    OBVIOUS
  <2>2. PICK s \in {r, Reject(r, TooMany), [r EXCEPT !.unmetered = TRUE]} : Goto(c, s)
    BY <1>2, <2>1 DEF rate_limit_dispatch
  <2>3. /\ DOMAIN s = Fields /\ s.pc \in {"auth", "answered"} /\ s.key = k /\ s.body = body
        /\ s.row = NoVal /\ s.policy = NoVal /\ s.outcome = NoVal /\ ~s.late /\ s.replay = NoIdem
        /\ s.answer \in {NoAnswer, TooMany}
    <3>1. /\ DOMAIN r = Fields /\ r.pc = "auth" /\ r.key = k /\ r.body = body
          /\ r.row = NoVal /\ r.policy = NoVal /\ r.outcome = NoVal /\ ~r.late /\ r.replay = NoIdem
          /\ r.answer = NoAnswer
      BY <2>1 DEF NoReq, Fields
    <3> QED BY <2>2, <3>1, ZenonT(60) DEF Reject, Fields
  <2>4. RequestOK(s)
    BY <2>3, NoWord, Shapes DEF RequestOK, Known, RowOK, ScoresOK, PolicyOK, AnswerOK, LateOK, ReplayOK, Admitted
  <2> QED BY <2>2, <2>4 DEF Advances
<1> QED BY <1>1, <1>2
-----------------------------------------------------------------------------
(* Claims and responses *)

\* The claim and the stored response, without another claim touched.
LEMMA ClaimStep ==
    ASSUME ClaimsOK, UNCHANGED keys, NEW k \in Keys \X IdemKeys, NEW held,
           idem' = [idem EXCEPT ![k] = held],
           DOMAIN held = IdemFields, DOMAIN held.answer = AnswerFields,
           held.answer # NoAnswer /\ ~held.foreign => held.body # NoVal /\ held.of = held.body,
           held.answer.scores => MaySeeScores(k[1])
    PROVE  ClaimsOK'
<1>1. \A j \in Keys \X IdemKeys : idem'[j] = IF j = k THEN held ELSE idem[j]
  BY DEF ClaimsOK
<1>2. ASSUME NEW j \in Keys \X IdemKeys
      PROVE  ClaimOK(j)'
  BY <1>1 DEF ClaimsOK, ClaimOK, MaySeeScores
<1> QED BY <1>2 DEF ClaimsOK

LEMMA SlotKnown ==
    ASSUME RequestsOK, NEW c \in Clients, ~At(c, "idle"), req[c].body.idem # NoVal
    PROVE  Slot(c) \in Keys \X IdemKeys
<1>1. req[c].key \in Keys /\ req[c].body \in Bodies
  BY DEF At, RequestsOK, RequestOK, Known
<1>2. req[c].body.idem \in IdemKeys
  BY <1>1, BodyFacts
<1> QED BY <1>1, <1>2 DEF Slot

\* SET NX.
LEMMA ClaimKeeps ==
    ASSUME RequestsOK, ClaimsOK, NEW c \in Clients, UNCHANGED keys, idem_claim(c)
    PROVE  Advances(c) /\ ClaimsOK' /\ AnswersStay
<1> DEFINE r == req[c]
           k == Slot(c)
<1>1. RequestOK(r) /\ DOMAIN r = Fields /\ DOMAIN r.answer = AnswerFields /\ r.pc = "idem"
  BY DEF RequestsOK, RequestOK, idem_claim, At
<1>2. r.key \in Keys /\ r.body \in Bodies /\ r.body # NoVal
  BY <1>1, BodyFacts DEF RequestOK, Known
<1>3. UsesIdem(r.body) => k \in Keys \X IdemKeys /\ r.body.idem \in IdemKeys
  BY <1>1, <1>2, SlotKnown, BodyFacts DEF UsesIdem, At
<1>4. Advances(c)
  <2>1. PICK s : /\ Goto(c, s)
                 /\ \/ s = [r EXCEPT !.pc = "handler"]
                    \/ /\ UsesIdem(r.body)
                       /\ s = [[r EXCEPT !.pc = "lookup"] EXCEPT !.late = (idem[k].answer # NoAnswer)]
    BY DEF idem_claim, Step
  <2>2. CASE s = [r EXCEPT !.pc = "handler"]
    <3>1. Carries(r, s) /\ s.pc = "handler" /\ s.answer = r.answer /\ s.policy = r.policy /\ s.outcome = r.outcome
      BY <1>1, <2>2 DEF Carries, Fields
    <3> QED BY <1>1, <2>1, <3>1, Onward DEF PolicyOK, AnswerOK, RequestOK, Advances, Admitted
  <2>3. CASE UsesIdem(r.body) /\ s = [[r EXCEPT !.pc = "lookup"] EXCEPT !.late = (idem[k].answer # NoAnswer)]
    <3>1. /\ DOMAIN s = Fields /\ s.pc = "lookup" /\ s.answer = r.answer /\ s.policy = r.policy
          /\ s.outcome = r.outcome /\ s.key = r.key /\ s.body = r.body /\ s.row = r.row /\ s.replay = r.replay
          /\ s.late => idem[k].answer # NoAnswer
      BY <1>1, <2>3 DEF Fields
    <3>2. LateOK(s)
      BY <1>3, <2>3, <3>1 DEF LateOK, Slot
    <3> QED
      BY <1>1, <2>1, <3>1, <3>2 DEF RequestOK, Known, RowOK, ScoresOK, PolicyOK, AnswerOK, ReplayOK, Advances, Admitted
  <2> QED BY <2>1, <2>2, <2>3
<1>5. CASE UNCHANGED idem
  BY <1>4, <1>5 DEF ClaimsOK, ClaimOK, MaySeeScores, AnswersStay
<1>6. CASE UsesIdem(r.body) /\ idem[k].body = NoVal /\ idem' = [idem EXCEPT ![k].body = r.body]
  <2>1. k \in Keys \X IdemKeys /\ ClaimOK(k)
    BY <1>3, <1>6 DEF ClaimsOK
  <2>2. PICK held : held = [idem[k] EXCEPT !.body = r.body]
    OBVIOUS
  <2>3. /\ DOMAIN held = IdemFields /\ held.answer = idem[k].answer /\ held.foreign = idem[k].foreign
    BY <2>1, <2>2 DEF ClaimOK, IdemFields
  <2>4. idem' = [idem EXCEPT ![k] = held]
    BY <1>6, <2>2
  <2> HIDE DEF k
  <2>5. ClaimsOK'
    BY <1>6, <2>1, <2>3, <2>4, ClaimStep DEF ClaimOK
  <2>6. AnswersStay
    BY <2>1, <2>3, <2>4 DEF AnswersStay, ClaimsOK
  <2> QED BY <1>4, <2>5, <2>6
<1> QED BY <1>5, <1>6 DEF idem_claim

\* The lookup.
LEMMA LookupKeeps ==
    ASSUME RequestsOK, ClaimsOK, NEW c \in Clients, UNCHANGED keys, idem_lookup(c)
    PROVE  Advances(c)
<1> DEFINE r == req[c]
           k == <<r.key, r.body.idem>>
           held == idem[k]
<1>1. RequestOK(r) /\ DOMAIN r = Fields /\ DOMAIN r.answer = AnswerFields /\ r.pc = "lookup"
  BY DEF RequestsOK, RequestOK, idem_lookup, At
<1>2. r.key \in Keys /\ r.body \in Bodies /\ r.body # NoVal
  BY <1>1, BodyFacts DEF RequestOK, Known
<1>3. PICK s : /\ Goto(c, s)
               /\ \/ s = [r EXCEPT !.pc = "answered", !.answer = Refused]
                  \/ /\ held.body \in {NoVal, r.body} /\ held.answer # NoAnswer
                     /\ s = [r EXCEPT !.pc = "answered", !.answer = held.answer, !.replay = held]
                  \/ held.answer = NoAnswer /\ s = [r EXCEPT !.pc = "handler"]
  BY DEF idem_lookup, Step, Reject, Slot
<1>4. /\ DOMAIN s = Fields /\ s.key = r.key /\ s.body = r.body /\ s.row = r.row /\ s.policy = r.policy
      /\ s.outcome = r.outcome /\ s.late = r.late /\ s.pc \in {"answered", "handler"}
  BY <1>1, <1>3, ZenonT(60) DEF Fields
<1>5. ~(r.replay # NoIdem)
  BY <1>1 DEF RequestOK, ReplayOK
<1>6. CASE s = [r EXCEPT !.pc = "handler"] /\ held.answer = NoAnswer
  <2>1. s.pc = "handler" /\ s.answer = r.answer /\ s.replay = r.replay /\ ~s.late
    BY <1>1, <1>4, <1>6 DEF Fields, RequestOK, LateOK
  <2> HIDE DEF held, k
  <2>2. LateOK(s) /\ ReplayOK(s)
    BY <1>5, <2>1 DEF LateOK, ReplayOK
  <2>3. PolicyOK(s) /\ AnswerOK(s)
    BY <1>1, <1>4, <2>1 DEF RequestOK, AnswerOK, PolicyOK
  <2>4. RowOK(s) /\ ScoresOK(s) /\ Known(s)
    BY <1>1, <1>4, <2>1 DEF RequestOK, RowOK, ScoresOK, Known, Admitted, MaySeeScores
  <2> QED BY <1>1, <1>3, <1>4, <2>1, <2>2, <2>3, <2>4 DEF RequestOK, Advances
<1>7. CASE s = [r EXCEPT !.pc = "answered", !.answer = Refused]
  <2>1. s.pc = "answered" /\ s.answer = Refused /\ s.replay = r.replay
    BY <1>1, <1>7 DEF Fields
  <2> QED
    BY <1>1, <1>3, <1>4, <1>5, <2>1, Shapes, ZenonT(60)
       DEF RequestOK, Known, RowOK, ScoresOK, PolicyOK, AnswerOK, LateOK, ReplayOK, Advances, Admitted
<1>8. CASE /\ held.body \in {NoVal, r.body} /\ held.answer # NoAnswer
           /\ s = [r EXCEPT !.pc = "answered", !.answer = held.answer, !.replay = held]
  <2>1. s.pc = "answered" /\ s.answer = held.answer /\ s.replay = held
    BY <1>1, <1>8 DEF Fields
  <2>2. ClaimOK(k) /\ k[1] = r.key
    BY <1>1, <1>2 DEF ClaimsOK, RequestOK, LateOK
  <2>3. held # NoIdem /\ (~held.foreign => held.of = r.body)
    BY <1>8, <2>2, Shapes DEF ClaimOK
  <2>4. DOMAIN held.answer = AnswerFields /\ (held.answer.scores => MaySeeScores(r.key))
    BY <2>2 DEF ClaimOK
  <2>5. AnswerOK(s) /\ PolicyOK(s)
    BY <1>1, <1>4, <2>1 DEF RequestOK, AnswerOK, PolicyOK
  <2>6. RowOK(s) /\ ScoresOK(s) /\ Known(s)
    BY <1>1, <1>4, <2>1, <2>4 DEF RequestOK, RowOK, ScoresOK, Known, Admitted, MaySeeScores
  <2> HIDE DEF held
  <2> QED
    BY <1>3, <1>4, <2>1, <2>3, <2>4, <2>5, <2>6 DEF RequestOK, LateOK, ReplayOK, Advances
<1> QED BY <1>3, <1>6, <1>7, <1>8 DEF Advances

\* The way out.
LEMMA StoreKeeps ==
    ASSUME RequestsOK, ClaimsOK, NEW c \in Clients, UNCHANGED keys, idem_store(c)
    PROVE  Advances(c) /\ ClaimsOK' /\ AnswersStay
<1> DEFINE r == req[c]
           k == Slot(c)
<1>1. RequestOK(r) /\ DOMAIN r = Fields /\ DOMAIN r.answer = AnswerFields /\ r.pc = "store"
  BY DEF RequestsOK, RequestOK, idem_store, At
<1>2. r.key \in Keys /\ r.body \in Bodies /\ r.body # NoVal /\ k[1] = r.key
  BY <1>1, BodyFacts DEF RequestOK, Known, Slot
<1>3. UsesIdem(r.body) => k \in Keys \X IdemKeys /\ r.body.idem \in IdemKeys
  BY <1>1, <1>2, SlotKnown, BodyFacts DEF UsesIdem, At
<1>4. Advances(c)
  <2>1. PICK s : /\ Goto(c, s)
                 /\ \/ s = [r EXCEPT !.pc = "answered"]
                    \/ /\ r.answer.kind # "error"
                       /\ s = [[r EXCEPT !.pc = "answered"] EXCEPT !.answer = Lost]
    BY DEF idem_store, Step
  <2>2. /\ Carries(r, s) /\ s.pc = "answered" /\ s.policy = r.policy
        /\ s.answer = r.answer \/ (r.answer.kind # "error" /\ s.answer = Lost)
    BY <1>1, <2>1, ZenonT(60) DEF Carries, Fields
  <2>3. PolicyOK(s) /\ AnswerOK(s) /\ DOMAIN s.answer = AnswerFields /\ (s.answer.scores => r.answer.scores)
    BY <1>1, <2>2, Shapes DEF RequestOK, PolicyOK, AnswerOK
  <2> QED BY <1>1, <2>1, <2>2, <2>3, Onward DEF Advances, Admitted
<1>5. CASE UNCHANGED idem
  BY <1>4, <1>5 DEF ClaimsOK, ClaimOK, MaySeeScores, AnswersStay
<1>6. CASE /\ UsesIdem(r.body)
           /\ idem' = [idem EXCEPT ![k] = [@ EXCEPT !.answer = r.answer, !.of = r.body,
                                                    !.foreign = idem[k].body # r.body]]
  <2>1. k \in Keys \X IdemKeys /\ ClaimOK(k)
    BY <1>3, <1>6 DEF ClaimsOK
  <2>2. PICK held : held = [idem[k] EXCEPT !.answer = r.answer, !.of = r.body, !.foreign = idem[k].body # r.body]
    OBVIOUS
  <2>3. /\ DOMAIN held = IdemFields /\ held.answer = r.answer /\ held.of = r.body /\ held.body = idem[k].body
        /\ ~held.foreign => idem[k].body = r.body
    BY <2>1, <2>2 DEF ClaimOK, IdemFields
  <2>4. idem' = [idem EXCEPT ![k] = held]
    BY <1>6, <2>2
  <2> HIDE DEF k
  <2>5. ClaimsOK'
    <3>1. r.answer.scores => MaySeeScores(k[1])
      BY <1>1, <1>2 DEF RequestOK, ScoresOK
    <3> QED BY <1>1, <1>2, <2>1, <2>3, <2>4, <3>1, ClaimStep
  <2>6. r.answer # NoAnswer
    BY <1>1, Shapes DEF RequestOK, AnswerOK
  <2>7. AnswersStay
    BY <2>1, <2>3, <2>4, <2>6 DEF AnswersStay, ClaimsOK
  <2> QED BY <1>4, <2>5, <2>7
<1> QED BY <1>5, <1>6 DEF idem_store

\* A claim ends before its response.
LEMMA ClaimExpiryKeeps ==
    ASSUME ClaimsOK, NEW k \in Keys \X IdemKeys, UNCHANGED keys, claim_expires(k)
    PROVE  ClaimsOK' /\ AnswersStay
<1>1. ClaimOK(k)
  BY DEF ClaimsOK
<1>2. PICK held : held = [idem[k] EXCEPT !.body = NoVal, !.foreign = idem[k].answer # NoAnswer]
  OBVIOUS
<1>3. idem' = [idem EXCEPT ![k] = held]
  BY <1>1, <1>2 DEF claim_expires, ClaimsOK, ClaimOK, IdemFields
<1>4. DOMAIN held = IdemFields /\ held.answer = idem[k].answer /\ (~held.foreign => held.answer = NoAnswer)
  BY <1>1, <1>2 DEF ClaimOK, IdemFields
<1>5. ClaimsOK'
  BY <1>1, <1>3, <1>4, ClaimStep DEF ClaimOK
<1> QED BY <1>3, <1>4, <1>5 DEF AnswersStay, ClaimsOK

\* A response ends, and the retries that were going to read it are told apart.
LEMMA ResponseExpiryKeeps ==
    ASSUME RequestsOK, ClaimsOK, NEW k \in Keys \X IdemKeys, UNCHANGED keys, response_expires(k)
    PROVE  ClaimsOK' /\ RequestsOK'
<1>1. PICK held : held = [NoIdem EXCEPT !.body = idem[k].body]
  OBVIOUS
<1>2. idem' = [idem EXCEPT ![k] = held]
  BY <1>1 DEF response_expires
<1>3. DOMAIN held = IdemFields /\ held.answer = NoAnswer /\ DOMAIN NoAnswer = AnswerFields /\ ~NoAnswer.scores
  BY <1>1, Shapes DEF NoIdem, IdemFields
<1>4. ClaimsOK'
  BY <1>2, <1>3, ClaimStep
<1>5. \A j \in Keys \X IdemKeys : j # k => idem'[j] = idem[j]
  BY <1>2 DEF ClaimsOK
<1>6. ASSUME NEW d \in Clients
      PROVE  RequestOK(req[d])'
  <2> DEFINE r == req[d]
  <2>1. RequestOK(r) /\ DOMAIN r = Fields
    BY DEF RequestsOK, RequestOK
  <2>2. PICK s : s = req'[d]
    OBVIOUS
  <2>3. s = IF ~At(d, "idle") /\ Slot(d) = k THEN [r EXCEPT !.late = FALSE] ELSE r
    BY <2>2 DEF response_expires
  <2>4. /\ DOMAIN s = Fields /\ Carries(r, [s EXCEPT !.late = r.late]) /\ s.pc = r.pc /\ s.policy = r.policy /\ s.answer = r.answer
        /\ s.outcome = r.outcome /\ s.key = r.key /\ s.body = r.body /\ s.row = r.row /\ s.replay = r.replay
        /\ (s.late => r.late /\ (r.pc = "idle" \/ <<r.key, r.body.idem>> # k))
        /\ (r.pc = "idle" => s = r)
    BY <2>1, <2>3 DEF Fields, Carries, At, Slot
  <2>5. LateOK(s)'
    BY <1>5, <2>1, <2>4 DEF RequestOK, LateOK, Known
  <2>6. RequestOK(s)'
    BY <2>1, <2>4, <2>5 DEF RequestOK, Known, RowOK, ScoresOK, MaySeeScores, PolicyOK, AnswerOK, ReplayOK
  <2> QED BY <2>2, <2>6
<1> QED BY <1>4, <1>6 DEF RequestsOK, response_expires

\* The command takes an idempotency key no request in service uses.
LEMMA FreshKeyKeeps ==
    ASSUME RequestsOK, ClaimsOK, NEW i \in IdemKeys, UNCHANGED <<keys, req>>, build_headers(i)
    PROVE  ClaimsOK' /\ RequestsOK'
<1> DEFINE k == <<CliKey, i>>
<1>1. k \in Keys \X IdemKeys
  BY SdkAssumption DEF SdkAssumption
<1>2. idem' = [idem EXCEPT ![k] = NoIdem]
  BY DEF build_headers
<1>3. ClaimsOK'
  BY <1>1, <1>2, Shapes, ClaimStep
<1>4. ASSUME NEW d \in Clients
      PROVE  RequestOK(req[d])'
  <2>1. RequestOK(req[d]) /\ (req[d].pc # "idle" => req[d].body.idem # i)
    BY DEF RequestsOK, build_headers, At
  <2>2. PICK r : r = req[d]
    OBVIOUS
  <2>3. LateOK(r)'
    BY <1>2, <2>1, <2>2, Shapes DEF RequestOK, LateOK, Known, ClaimsOK, NoReq
  <2>4. RequestOK(r)'
    BY <2>1, <2>2, <2>3 DEF RequestOK, Known, RowOK, ScoresOK, MaySeeScores, PolicyOK, AnswerOK, ReplayOK
  <2> QED BY <2>2, <2>4
<1> QED BY <1>3, <1>4 DEF RequestsOK
-----------------------------------------------------------------------------
(* The invariant *)

\* What a step that serves a request leaves alone.
LEMMA ServeFrame ==
    ASSUME NEW c, Serve(c)
    PROVE  /\ UNCHANGED <<scope, keys, stored, override, admin, cli>>
           /\ UNCHANGED idem \/ idem_claim(c) \/ idem_store(c)
           /\ UNCHANGED cache \/ ai_respond(c)
<1>1. CASE authenticate_api_key(c) \/ tenant_read(c) \/ tenant_store(c)
           \/ idem_claim(c) \/ idem_lookup(c) \/ idem_store(c)
  BY <1>1 DEF authenticate_api_key, tenant_read, tenant_store, idem_claim, idem_lookup, idem_store, tenancyVars
<1>2. CASE resolve_settings(c) \/ resolve_policy(c) \/ proxy_config(c) \/ cache_hit(c) \/ cache_miss(c)
  BY <1>2 DEF resolve_settings, resolve_policy, proxy_config, cache_hit, cache_miss, tenancyVars
<1>3. CASE ai_scan(c) \/ ai_scan_batch(c) \/ proxy_scan(c)
  BY <1>3 DEF ai_scan, ai_scan_batch, proxy_scan, Scan, tenancyVars
<1>4. CASE \/ llm_fails(c) \/ provider_config_error(c) \/ provider_times_out(c) \/ provider_malformed(c)
           \/ provider_unavailable(c) \/ provider_unsupported(c)
           \/ \E t \in Replies : call_llm(c, t) \/ chat_completions(c, t)
  BY <1>4 DEF llm_fails, provider_config_error, provider_times_out, provider_malformed, provider_unavailable,
              provider_unsupported, call_llm, chat_completions, UpstreamFails, Forwarded, Sent, tenancyVars
<1>5. CASE guard_completion(c) \/ guard_proxied(c) \/ audit_scan(c) \/ audit_batch(c) \/ log_interaction(c)
           \/ ai_respond(c) \/ proxy_respond(c)
  BY <1>5 DEF guard_completion, guard_proxied, Inspect, audit_scan, audit_batch, log_interaction, ai_respond,
              proxy_respond, tenancyVars
<1> QED BY <1>1, <1>2, <1>3, <1>4, <1>5 DEF Serve

LEMMA ServeAdvances ==
    ASSUME Inv, NEW c \in Clients, Serve(c)
    PROVE  Advances(c)
<1>1. UNCHANGED keys
  BY ServeFrame
<1> QED
  BY <1>1, EntrySteps, PolicySteps, ScanSteps, AnswerSteps, ClaimKeeps, LookupKeeps, StoreKeeps DEF Inv, Serve

LEMMA ServeKeeps ==
    ASSUME Inv, NEW c \in Clients, Serve(c)
    PROVE  Inv'
<1>1. UNCHANGED <<scope, keys, stored, admin, cli>>
  BY ServeFrame
<1>2. TenancyOK' /\ KeysKept
  BY <1>1, QuietTenancy DEF Inv
<1>3. CliOK'
  BY <1>1 DEF Inv, CliOK
<1>4. Advances(c)
  BY ServeAdvances
<1>5. ClaimsOK' /\ AnswersStay
  <2>1. CASE UNCHANGED idem
    BY <1>1, <2>1 DEF Inv, ClaimsOK, ClaimOK, MaySeeScores, AnswersStay
  <2> QED BY <1>1, <2>1, ServeFrame, ClaimKeeps, StoreKeeps DEF Inv
<1>6. CacheOK'
  <2>1. CASE UNCHANGED cache
    BY <2>1 DEF Inv, CacheOK
  <2>2. CASE ai_respond(c)
    <3> DEFINE b == build_response(req[c].answer.decision, req[c].answer.output, req[c].results)
               e == [key |-> cache_key(req[c]), answer |-> b]
    <3>1. e.answer = b /\ cache' \subseteq cache \cup {e}
      BY <2>2 DEF ai_respond
    <3>2. DOMAIN b = AnswerFields /\ b.kind = "verdict"
      BY Responses
    <3> HIDE DEF b, e
    <3> QED BY <3>1, <3>2 DEF Inv, CacheOK
  <2> QED BY <2>1, <2>2, ServeFrame
<1> QED BY <1>1, <1>2, <1>3, <1>4, <1>5, <1>6, Advance DEF Inv

\* The command changes its own record only, but for the request it sends and
\* the one whose answer it takes.
LEMMA CommandKeeps ==
    ASSUME CliOK,
           \/ batch_start \/ interrupt \/ batch_skip \/ times_out \/ scan_interrupted
           \/ \E n \in DOMAIN File : scan_start(n)
           \/ \E i \in IdemKeys : client_scan(i)
           \/ \E c \in Clients : execute_request(c) \/ receive(c)
    PROVE  CliOK'
<1> DEFINE Keeps(r) == {"pc", "body"} \subseteq DOMAIN r
           Off(r) == Keeps(r) /\ r.pc \notin {"send", "wait"}
<1>1. Keeps(NoCli) /\ Keeps(cli) /\ NoCli.pc = "off"
  BY DEF NoCli, CliOK
<1>2. ASSUME NEW r, Keeps(r)
      PROVE  Off(NextLine(r)) /\ Off(Exits(r)) /\ Off(scan_ends(r))
  BY <1>2 DEF NextLine, Exits, scan_ends
<1>3. ASSUME NEW r, Keeps(r)
      PROVE  Keeps([r EXCEPT !.error = TRUE]) /\ Keeps([r EXCEPT !.error = TRUE, !.on = NoVal])
  BY <1>3
<1>4. ASSUME NEW r, Off(r), cli' = r
      PROVE  CliOK'
  BY <1>4 DEF CliOK
<1>5. CASE batch_start
  BY <1>1, <1>5 DEF batch_start, CliOK, NoCli
<1>6. CASE interrupt
  BY <1>6 DEF interrupt, CliOK
<1>7. CASE batch_skip
  BY <1>1, <1>2, <1>3, <1>4, <1>7 DEF batch_skip
<1>8. CASE scan_interrupted
  BY <1>1, <1>2, <1>3, <1>4, <1>8 DEF scan_interrupted
<1>9. ASSUME NEW n \in DOMAIN File, scan_start(n)
      PROVE  CliOK'
  <2>1. PICK r : r = [NoCli EXCEPT !.pc = "next", !.command = "scan", !.line = n]
    OBVIOUS
  <2>2. Off(r)
    BY <1>1, <2>1
  <2>3. cli' = r \/ cli' = scan_ends([r EXCEPT !.error = TRUE])
    BY <1>9, <2>1 DEF scan_start
  <2> QED BY <1>2, <1>3, <1>4, <2>2, <2>3
<1>10. ASSUME NEW r, r = with_retry(cli), cli' = r, CliAt("wait")
       PROVE  CliOK'
  <2>1. CASE r = [cli EXCEPT !.pc = "send", !.attempt = @ + 1, !.on = NoVal]
    BY <1>10, <2>1 DEF CliOK, CliAt
  <2> QED BY <1>1, <1>2, <1>3, <1>4, <1>10, <2>1 DEF with_retry
<1>11. CASE times_out
  BY <1>10, <1>11 DEF times_out
<1>12. ASSUME NEW i \in IdemKeys, client_scan(i)
       PROVE  CliOK'
  <2>1. File[cli.line].body \in Requests
    BY <1>12, SdkAssumption DEF client_scan, Scannable, SdkAssumption
  <2>2. PICK b : b = [File[cli.line].body EXCEPT !.idem = i] /\ b \in Bodies
    <3>1. PICK f \in Requests : f = File[cli.line].body
      BY <2>1
    <3>2. [f EXCEPT !.idem = i] \in Bodies
      BY DEF Bodies
    <3> QED BY <3>1, <3>2
  <2>3. cli' = [cli EXCEPT !.pc = "send", !.attempt = 1, !.body = b]
    BY <1>12, <2>2 DEF client_scan
  <2> QED BY <1>1, <2>2, <2>3 DEF CliOK
<1>13. ASSUME NEW c \in Clients, execute_request(c)
       PROVE  CliOK'
  BY <1>13 DEF execute_request, CliOK, CliAt
<1>14. ASSUME NEW c \in Clients, receive(c)
       PROVE  CliOK'
  <2> DEFINE scanned_for == IF req[c].replay = NoIdem THEN req[c].body ELSE req[c].replay.of
  <2>1. CliAt("wait")
    BY <1>14 DEF receive
  <2>2. cli' \in {batch_result(cli, req[c].answer, scanned_for.items), Exits([cli EXCEPT !.error = TRUE, !.on = NoVal]),
                  with_retry(cli), NextLine([cli EXCEPT !.error = TRUE])}
    BY <1>14 DEF receive
  <2>3. Off(batch_result(cli, req[c].answer, scanned_for.items))
    <3>1. PICK a, of : a = req[c].answer /\ of = scanned_for.items
      OBVIOUS
    <3>2. PICK r : /\ r = [cli EXCEPT !.processed = @ + 1, !.error = @ \/ get_scan_exit_code(a) = 1,
                             !.block = @ \/ get_scan_exit_code(a) = 2,
                             !.verdicts = [n \in DOMAIN @ \cup {cli.line} |->
                                 IF n = cli.line THEN [decision |-> a.decision, of |-> of] ELSE @[n]]]
                   /\ NextLine(r) = batch_result(cli, a, of)
      BY DEF batch_result
    <3>3. Keeps(r)
      BY <1>1, <3>2
    <3> QED BY <1>2, <3>1, <3>2, <3>3
  <2> HIDE DEF scanned_for
  <2> QED BY <1>1, <1>2, <1>3, <1>4, <1>10, <2>1, <2>2, <2>3
<1> QED BY <1>5, <1>6, <1>7, <1>8, <1>9, <1>11, <1>12, <1>13, <1>14

\* The invariant is inductive.
LEMMA InvInitially == SdkInit => Inv
<1> SUFFICES ASSUME SdkInit PROVE Inv
  OBVIOUS
<1> USE DEF SdkInit, Init
<1>1. RequestsOK
  <2>1. RequestOK(NoReq)
    BY NoWord, Shapes DEF NoReq, NoAnswer, RequestOK, Known, RowOK, ScoresOK, PolicyOK, AnswerOK, LateOK,
                          ReplayOK, Admitted
  <2> QED BY <2>1 DEF RequestsOK
<1>2. ClaimsOK /\ CacheOK
  BY Shapes DEF ClaimsOK, ClaimOK, CacheOK
<1>3. keys \in [Keys -> KeyRow \cup {NoVal}]
  <2>1. ASSUME NEW row \in KeyRow, NEW b \in BOOLEAN
        PROVE  [row EXCEPT !.app = @ /\ b] \in KeyRow
    BY DEF KeyRow
  <2>2. \A k \in Keys : FirstKeys[k] \in KeyRow \cup {NoVal}
    BY TenancyAssumption DEF TenancyAssumption
  <2>3. ASSUME NEW k \in Keys, FirstKeys[k] # NoVal
        PROVE  [FirstKeys[k] EXCEPT !.app = @ /\ rows["app"] = "active"] \in KeyRow
    <3>1. PICK row \in KeyRow, b \in BOOLEAN : row = FirstKeys[k] /\ b = (rows["app"] = "active")
      BY <2>2, <2>3
    <3> QED BY <2>1, <3>1
  <2> QED BY <2>3
<1>4. TenancyOK
  BY <1>3 DEF TenancyOK, AdminOK, Sections, Idle, AdminFields
<1>5. CliOK
  BY DEF CliOK, NoCli
<1> QED BY <1>1, <1>2, <1>4, <1>5 DEF Inv

LEMMA InvStep ==
    ASSUME Inv, [SdkNext]_vars
    PROVE  Inv'
<1> USE DEF Inv
<1>1. ASSUME UNCHANGED <<keys, stored, admin>>
      PROVE  TenancyOK' /\ KeysKept
  BY <1>1, QuietTenancy
<1>2. ASSUME UNCHANGED <<keys, idem>>
      PROVE  ClaimsOK' /\ AnswersStay
  BY <1>2 DEF ClaimsOK, ClaimOK, MaySeeScores, AnswersStay
<1>3. ASSUME UNCHANGED <<req, idem>>, KeysKept, AnswersStay
      PROVE  RequestsOK'
  <2>1. ASSUME NEW c \in Clients
        PROVE  RequestOK(req[c])'
    <3>1. PICK r : r = req[c] /\ RequestOK(r)
      BY DEF RequestsOK
    <3>2. RequestOK(r)'
      BY <1>3, <3>1, Later
    <3> QED BY <1>3, <3>1, <3>2
  <2> QED BY <1>3, <2>1 DEF RequestsOK
<1>4. CASE UNCHANGED vars
  BY <1>1, <1>2, <1>3, <1>4 DEF vars, tenancyVars, gatewayVars, CacheOK, CliOK
<1>5. ASSUME NEW c \in Clients, Serve(c)
      PROVE  Inv'
  BY <1>5, ServeKeeps
<1>6. CASE window_passes \/ \E e \in cache : cache_expires(e)
  <2>1. UNCHANGED <<scope, keys, stored, admin, idem, req, cli>> /\ CacheOK'
    BY <1>6 DEF window_passes, cache_expires, tenancyVars, CacheOK
  <2> QED BY <1>1, <1>2, <1>3, <2>1 DEF CliOK
<1>7. ASSUME NEW k \in Keys \X IdemKeys, claim_expires(k)
      PROVE  Inv'
  <2>1. UNCHANGED <<scope, keys, stored, admin, req, cache, cli>>
    BY <1>7 DEF claim_expires, tenancyVars
  <2>2. ClaimsOK' /\ AnswersStay
    BY <1>7, <2>1, ClaimExpiryKeeps
  <2>3. ASSUME NEW c \in Clients
        PROVE  RequestOK(req[c])'
    <3>1. PICK r : r = req[c] /\ RequestOK(r)
      BY DEF RequestsOK
    <3>2. RequestOK(r)'
      BY <1>1, <2>1, <2>2, <3>1, Later
    <3> QED BY <2>1, <3>1, <3>2
  <2> QED BY <1>1, <2>1, <2>2, <2>3 DEF RequestsOK, CacheOK, CliOK
<1>8. ASSUME NEW k \in Keys \X IdemKeys, response_expires(k)
      PROVE  Inv'
  <2>1. UNCHANGED <<scope, keys, stored, admin, cache, cli>>
    BY <1>8 DEF response_expires, tenancyVars
  <2> QED BY <1>1, <1>8, <2>1, ResponseExpiryKeeps DEF CacheOK, CliOK
<1>9. CASE Administration /\ UNCHANGED <<scope, req, cache, idem, cli>>
  <2>1. TenancyOK' /\ KeysKept
    BY <1>9, AdministrationKeeps
  <2>2. AnswersStay
    BY <1>9 DEF AnswersStay
  <2>3. ClaimsOK'
    BY <1>9, <2>1 DEF ClaimsOK, ClaimOK, MaySeeScores, KeysKept
  <2> QED BY <1>3, <1>9, <2>1, <2>2, <2>3 DEF CacheOK, CliOK
<1>10. CASE Next
  BY <1>5, <1>6, <1>7, <1>8, <1>9, <1>10 DEF Next, gatewayVars, Administration
<1>11. CASE batch_start \/ interrupt \/ batch_skip \/ times_out \/ scan_interrupted
            \/ \E n \in DOMAIN File : scan_start(n)
  <2>1. UNCHANGED <<scope, keys, stored, admin, idem, req, cache>>
    BY <1>11 DEF batch_start, interrupt, batch_skip, times_out, scan_interrupted, scan_start, tenancyVars, gatewayVars
  <2>2. CliOK'
    BY <1>11, CommandKeeps
  <2> QED BY <1>1, <1>2, <1>3, <2>1, <2>2 DEF CacheOK
<1>12. ASSUME NEW i \in IdemKeys, client_scan(i)
       PROVE  Inv'
  <2>1. UNCHANGED <<scope, keys, stored, admin, req, cache>> /\ build_headers(i)
    BY <1>12 DEF client_scan, tenancyVars
  <2>2. CliOK'
    BY <1>12, CommandKeeps
  <2> QED BY <1>1, <2>1, <2>2, FreshKeyKeeps DEF CacheOK
<1>13. ASSUME NEW c \in Clients, execute_request(c) \/ receive(c) \/ other_client(c)
       PROVE  Inv'
  <2>1. UNCHANGED <<scope, keys, stored, admin, cache, idem>>
    BY <1>13 DEF execute_request, receive, other_client, rate_limit_dispatch, finish, tenancyVars
  <2>2. CliOK'
    <3>1. CASE other_client(c)
      BY <3>1 DEF other_client, CliOK
    <3> QED BY <1>13, <3>1, CommandKeeps
  <2>3. finish(c) \/ \E k \in Keys, body \in Bodies : rate_limit_dispatch(c, k, body)
    <3>1. CASE execute_request(c)
      BY <3>1, SdkAssumption DEF execute_request, CliOK, CliAt, SdkAssumption
    <3>2. CASE other_client(c)
      BY <3>2, GatewayAssumption DEF other_client, GatewayAssumption, Bodies
    <3> QED BY <1>13, <3>1, <3>2 DEF receive
  <2>4. Advances(c)
    BY <2>3, ClientSteps
  <2> QED BY <1>1, <1>2, <2>1, <2>2, <2>4, Advance DEF CacheOK
<1> QED BY <1>4, <1>10, <1>11, <1>12, <1>13 DEF SdkNext

\* The inductive invariant holds throughout.
THEOREM InvAlways == SdkSpec => []Inv
<1>1. Inv /\ [SdkNext]_vars => Inv'
  BY InvStep
<1> QED BY <1>1, InvInitially, PTL DEF SdkSpec
-----------------------------------------------------------------------------
(* What it is for *)

\* However the read-modify-write cycles of any number of administrators
\* interleave, the stored thresholds and the ones a request is decided by are
\* in order (update_thresholds, settings_set, resolve_policy).
THEOREM ThresholdsInOrder == SdkSpec => []ThresholdsOrdered
<1>1. Inv => ThresholdsOrdered
  BY DEF Inv, TenancyOK, RequestsOK, RequestOK, PolicyOK, ThresholdsOrdered, At
<1> QED BY <1>1, InvAlways, PTL

\* No trial key is ever shown the scores of single detectors, fresh, cached or
\* replayed (restrict_layer_scores, cache_hit, idem_lookup).
THEOREM ScoresStayHidden == SdkSpec => []ScoresWithheld
<1>1. Inv => ScoresWithheld
  BY DEF Inv, RequestsOK, RequestOK, ScoresOK, MaySeeScores, ScoresWithheld
<1> QED BY <1>1, InvAlways, PTL

\* A retry that comes after the response is stored reads it, and what it reads
\* answers the body it sent (idem_claim, idem_lookup, idem_store).
THEOREM RetriesReplayed == SdkSpec => []IdempotentRetries
<1>1. Inv => IdempotentRetries
  BY DEF Inv, RequestsOK, RequestOK, LateOK, ReplayOK, IdempotentRetries
<1> QED BY <1>1, InvAlways, PTL
-----------------------------------------------------------------------------
(* The thresholds of a policy are numbers *)

PolicyNames == {"block", "sanitize", "pii_block", "pii_sanitize", "rule", "ml", "llm", "limit"}
AppLimits == LimitsOf(<<"app">>)
\* A limit it sets is one of those the application's bucket may be charged against.
Sound(settings) == Numeric(settings) /\ ("limit" \in DOMAIN settings => settings.limit \in AppLimits)
TypedPolicy(p) == Sound(p) /\ PolicyNames \subseteq DOMAIN p

SettingsOK ==
    /\ \A s \in Sections : stored[s] # NoVal => Sound(stored[s])
    /\ DOMAIN override = Levels
    /\ \A l \in Levels : override[l] # NoVal => Sound(override[l])
    /\ \A a \in Admins : admin[a].pc = "save" /\ admin[a].value # NoVal => Sound(admin[a].value)

LEMMA TypedThresholds == \A p : TypedPolicy(p) => Thresholded(p)
  BY DEF TypedPolicy, PolicyNames, Sound, Numeric, ThresholdNames, Thresholded

LEMMA MergeNumeric ==
    ASSUME NEW a, NEW b, Numeric(a), Numeric(b)
    PROVE  /\ Numeric(Merge(a, b)) /\ DOMAIN Merge(a, b) = DOMAIN a \cup DOMAIN b
           /\ Numeric(deep_merge(a, b)) /\ DOMAIN deep_merge(a, b) = DOMAIN a \cup DOMAIN b
  BY DEF Numeric, ThresholdNames, Merge, deep_merge, ENCRYPTED_SECTIONS

LEMMA MergeSound ==
    ASSUME NEW a, NEW b, Sound(a), Sound(b)
    PROVE  Sound(Merge(a, b)) /\ Sound(deep_merge(a, b))
  BY MergeNumeric DEF Sound, Merge, deep_merge, ENCRYPTED_SECTIONS

LEMMA MergeTyped ==
    ASSUME NEW a, NEW b, TypedPolicy(a), Sound(b)
    PROVE  TypedPolicy(Merge(a, b)) /\ TypedPolicy(deep_merge(a, b))
<1>1. Sound(a) /\ Numeric(a) /\ Numeric(b) /\ PolicyNames \subseteq DOMAIN a
  BY DEF TypedPolicy, Sound
<1>2. /\ Sound(Merge(a, b)) /\ DOMAIN Merge(a, b) = DOMAIN a \cup DOMAIN b
      /\ Sound(deep_merge(a, b)) /\ DOMAIN deep_merge(a, b) = DOMAIN a \cup DOMAIN b
  BY <1>1, MergeNumeric, MergeSound
<1> QED BY <1>1, <1>2 DEF TypedPolicy

\* The limits a record or a body may set.
LEMMA Limits ==
    /\ Env.limit \in AppLimits
    /\ \A x \in LimitBodies \cup Overrides : "limit" \in DOMAIN x => x.limit \in AppLimits
    /\ "limit" \in DOMAIN Platform => "limit" \in DOMAIN Platform["limit"] /\ Platform["limit"].limit \in AppLimits
    /\ "limit" \notin DOMAIN Platform => system_defaults.limit \in AppLimits
  BY LimitAssumption DEF LimitAssumption, AppLimits, LimitsOf

LEMMA BodiesSound ==
    /\ \A s \in DOMAIN Platform : Sound(Platform[s])
    /\ \A b \in ThresholdBodies \cup LayerBodies \cup LimitBodies \cup JudgeBodies \cup Overrides : Sound(b)
<1>1. ASSUME NEW s \in DOMAIN Platform
      PROVE  Sound(Platform[s])
  BY TenancyAssumption, LimitAssumption, Limits DEF TenancyAssumption, LimitAssumption, Sound
<1>2. ASSUME NEW b \in ThresholdBodies \cup LayerBodies \cup LimitBodies \cup JudgeBodies \cup Overrides
      PROVE  Sound(b)
  BY TenancyAssumption, LimitAssumption, Limits DEF TenancyAssumption, LimitAssumption, Sound
<1> QED BY <1>1, <1>2

LEMMA DefaultsSound ==
    /\ Sound(default_thresholds) /\ Sound(default_layers) /\ Sound(default_rate_limit) /\ Sound(default_llm)
    /\ Sound(<<>>)
    /\ Numeric(system_defaults) /\ PolicyNames \subseteq DOMAIN system_defaults
    /\ DOMAIN default_thresholds = {"block", "sanitize"}
  BY DetectionAssumption, Limits
     DEF DetectionAssumption, Sound, Numeric, ThresholdNames, default_thresholds, default_layers,
         default_rate_limit, default_llm, system_defaults, PolicyNames

\* What the resolver makes of the layers.  The default limit is overruled where
\* the platform has one.
LEMMA TenantPolicyTyped ==
    ASSUME SettingsOK
    PROVE  TypedPolicy(tenant_policy)
<1>1. ASSUME NEW s \in Sections
      PROVE  Sound(layered(s))
  <2>1. Sound(IF s \in DOMAIN Platform THEN Platform[s] ELSE <<>>)
    BY BodiesSound, DefaultsSound
  <2>2. Sound(IF stored[s] = NoVal THEN <<>> ELSE stored[s])
    BY DefaultsSound DEF SettingsOK
  <2> QED BY <2>1, <2>2, MergeSound DEF layered
<1> DEFINE thresholds == Merge(default_thresholds, layered("thresholds"))
           pii == [pii_block |-> thresholds.block, pii_sanitize |-> thresholds.sanitize]
           settings == Merge(layered("layers"), layered("limit"))
           rest == Merge(settings, [judge |-> Merge(system_defaults.judge, layered("judge"))])
<1>2. Sound(thresholds) /\ {"block", "sanitize"} \subseteq DOMAIN thresholds
  <2>1. PICK base, over : base = default_thresholds /\ over = layered("thresholds")
    OBVIOUS
  <2>2. Sound(base) /\ Sound(over) /\ DOMAIN base = {"block", "sanitize"} /\ Numeric(base) /\ Numeric(over)
    BY <1>1, <2>1, DefaultsSound DEF Sections, Sound
  <2>3. Sound(Merge(base, over)) /\ DOMAIN Merge(base, over) = DOMAIN base \cup DOMAIN over
    BY <2>2, MergeNumeric, MergeSound
  <2> QED BY <2>1, <2>2, <2>3
<1> HIDE DEF thresholds
<1>3. Numeric(thresholds) /\ Numeric(pii) /\ DOMAIN pii = {"pii_block", "pii_sanitize"}
  BY <1>2 DEF Sound, Numeric, ThresholdNames
<1>4. Sound([judge |-> Merge(system_defaults.judge, layered("judge"))])
  BY DEF Sound, Numeric, ThresholdNames
<1>5. Sound(settings)
  BY <1>1, MergeSound DEF Sections
<1>6. "limit" \in DOMAIN Platform => "limit" \in DOMAIN rest
  BY Limits DEF layered, Merge
<1>7. tenant_policy = Merge(Merge(Merge(system_defaults, thresholds), pii), rest)
  BY DEF tenant_policy, thresholds
<1>8. Sound(rest) /\ Numeric(rest)
  BY <1>4, <1>5, MergeSound DEF Sound
<1> HIDE DEF pii, rest, settings
<1>9. PICK one, two : one = Merge(system_defaults, thresholds) /\ two = Merge(one, pii)
  OBVIOUS
<1>10. /\ Numeric(one) /\ DOMAIN one = DOMAIN system_defaults \cup DOMAIN thresholds
       /\ Numeric(two) /\ DOMAIN two = DOMAIN one \cup DOMAIN pii
       /\ Numeric(Merge(two, rest)) /\ DOMAIN Merge(two, rest) = DOMAIN two \cup DOMAIN rest
  BY <1>3, <1>8, <1>9, MergeNumeric, DefaultsSound
<1>11. one.limit = (IF "limit" \in DOMAIN thresholds THEN thresholds.limit ELSE system_defaults.limit)
  BY DefaultsSound, <1>9 DEF Merge, PolicyNames
<1>12. two.limit = one.limit
  BY DefaultsSound, <1>3, <1>9, <1>10 DEF Merge, PolicyNames
<1>13. Merge(two, rest).limit = (IF "limit" \in DOMAIN rest THEN rest.limit ELSE two.limit)
  BY DefaultsSound, <1>10 DEF Merge, PolicyNames
<1>14. Merge(two, rest).limit \in AppLimits
  BY <1>2, <1>6, <1>8, <1>11, <1>12, <1>13, Limits DEF Sound
<1> QED BY <1>7, <1>9, <1>10, <1>14, DefaultsSound DEF TypedPolicy, Sound

LEMMA ResolvedTyped ==
    ASSUME SettingsOK, NEW p, TypedPolicy(p)
    PROVE  /\ \A l \in Levels : TypedPolicy(level_policy(p, l))
           /\ TypedPolicy(valid_policy(p))
<1>1. ASSUME NEW l \in Levels
      PROVE  TypedPolicy(level_policy(p, l))
  BY MergeTyped DEF level_policy, SettingsOK
<1>2. TypedPolicy(valid_policy(p))
  BY MergeTyped, DefaultsSound DEF valid_policy
<1> QED BY <1>1, <1>2

\* Administrators only ever write numbers.
LEMMA SettingsKept ==
    ASSUME TenancyOK, SettingsOK, Administration
    PROVE  SettingsOK'
<1> DEFINE Value(v) == v # NoVal => Sound(v)
<1>1. ASSUME UNCHANGED <<stored, admin>>, DOMAIN override' = Levels, \A l \in Levels : Value(override[l]')
      PROVE  SettingsOK'
  BY <1>1 DEF SettingsOK, Sound, Numeric
<1>2. ASSUME UNCHANGED <<stored, override>>, NEW a \in Admins, NEW e, admin' = [admin EXCEPT ![a] = e],
             e.pc = "save" => Value(e.value)
      PROVE  SettingsOK'
  BY <1>2 DEF SettingsOK, Sound, Numeric, TenancyOK
<1>3. ASSUME NEW a \in Admins, NEW section \in Sections, NEW value, Sound(value), Edit(a, section, value)
      PROVE  SettingsOK'
  <2>1. PICK e : e = [pc |-> "save", what |-> section, value |-> value, absent |-> stored[section] = NoVal]
    OBVIOUS
  <2>2. e.value = value /\ admin' = [admin EXCEPT ![a] = e] /\ UNCHANGED <<stored, override>>
    BY <1>3, <2>1 DEF Edit
  <2> QED BY <1>2, <1>3, <2>2
<1>4. ASSUME NEW section \in Sections, NEW default, Sound(default),
             NEW body \in ThresholdBodies \cup LayerBodies \cup LimitBodies \cup JudgeBodies
      PROVE  Sound(Merge(Current(section, default), body))
  BY <1>4, MergeSound, BodiesSound DEF Current, SettingsOK
<1>5. ASSUME NEW a \in Admins, Begin(a)
      PROVE  SettingsOK'
  <2>1. ASSUME NEW b \in ThresholdBodies, update_thresholds(a, b)
        PROVE  SettingsOK'
    BY <1>3, <1>4, <2>1, DefaultsSound DEF update_thresholds, Sections
  <2>2. ASSUME NEW b \in LayerBodies, update_layers(a, b)
        PROVE  SettingsOK'
    BY <1>3, <1>4, <2>2, DefaultsSound DEF update_layers, Sections
  <2>3. ASSUME NEW b \in LimitBodies, update_rate_limit(a, b)
        PROVE  SettingsOK'
    BY <1>3, <1>4, <2>3, DefaultsSound DEF update_rate_limit, Sections
  <2>4. ASSUME NEW b \in JudgeBodies, update_llm_settings(a, b)
        PROVE  SettingsOK'
    BY <1>3, <1>4, <2>4, DefaultsSound DEF update_llm_settings, Sections
  <2>5. ASSUME NEW l \in Levels, NEW name \in ENCRYPTED_SECTIONS, NEW body, PatchSection(a, l, name, body)
        PROVE  SettingsOK'
    <3> DEFINE base == IF override[l] = NoVal THEN <<>> ELSE override[l]
    <3>1. Sound(base)
      BY DefaultsSound DEF SettingsOK
    <3> HIDE DEF base
    <3>2. Sound([n \in DOMAIN base \ {name} |-> base[n]])
      BY <3>1 DEF Sound, Numeric
    <3>3. Sound([n \in {name} |-> encrypted(body)])
      BY DEF Sound, Numeric, ThresholdNames, ENCRYPTED_SECTIONS
    <3>4. Sound(deep_merge(base, [n \in {name} |-> encrypted(body)]))
      BY <3>1, <3>3, MergeSound
    <3>5. Value(Patched(override[l], name, body))
      BY <3>2, <3>4 DEF Patched, base
    <3>6. PICK v : v = Patched(override[l], name, body)
      OBVIOUS
    <3>7. PICK e : e = [Idle EXCEPT !.pc = "save", !.what = l, !.value = v]
      OBVIOUS
    <3>8. e.value = v
      BY <3>7 DEF Idle
    <3> QED BY <1>2, <2>5, <3>5, <3>6, <3>7, <3>8 DEF PatchSection
  <2>6. ASSUME NEW k \in Keys, rotate_key_read(a, k)
        PROVE  SettingsOK'
    <3>1. PICK e : e = [Idle EXCEPT !.pc = "rotate", !.what = k, !.value = keys[k]]
      OBVIOUS
    <3>2. e.pc = "rotate"
      BY <3>1 DEF Idle
    <3> QED BY <1>2, <2>6, <3>1, <3>2 DEF rotate_key_read
  <2>7. ASSUME NEW s, set_status(a, s)
        PROVE  SettingsOK'
    <3>1. PICK e : e = [Idle EXCEPT !.pc = "drop"]
      OBVIOUS
    <3>2. e.pc = "drop"
      BY <3>1 DEF Idle
    <3> QED BY <1>2, <2>7, <3>1, <3>2 DEF set_status
  <2> QED
    BY <1>5, <2>1, <2>2, <2>3, <2>4, <2>5, <2>6, <2>7
       DEF Begin, update_dept_llm_override, update_app_llm_override, update_dept_proxy_override,
           update_app_proxy_override, Levels, ENCRYPTED_SECTIONS
<1>6. ASSUME NEW a \in Admins, End(a) \/ drop_tenant_cache(a, TRUE)
      PROVE  SettingsOK'
  <2>1. Idle.pc = "idle"
    BY DEF Idle
  <2>2. CASE settings_set(a)
    BY <2>1, <2>2 DEF settings_set, SettingsOK, TenancyOK, Sound, Numeric
  <2>3. CASE department_update(a) \/ application_update(a)
    BY <2>1, <2>3 DEF department_update, application_update, PatchSaved, SettingsOK, TenancyOK, Sound, Numeric, Levels
  <2>4. CASE UNCHANGED <<stored, override>> /\ admin' = [admin EXCEPT ![a] = Idle]
    BY <1>2, <2>1, <2>4
  <2> QED BY <1>6, <2>2, <2>3, <2>4 DEF End, rotate_key, drop_tenant_cache, settings_conflict
<1>7. CASE Manage
  <2>1. ASSUME NEW l \in Levels, NEW value \in Overrides \cup {NoVal}, UNCHANGED <<stored, admin>>,
               override' = [override EXCEPT ![l] = value]
        PROVE  SettingsOK'
    BY <1>1, <2>1, BodiesSound DEF SettingsOK
  <2>2. CASE UNCHANGED <<stored, admin, override>>
    BY <2>2 DEF SettingsOK, Sound, Numeric
  <2>3. CASE secret_key_changes
    <3> DEFINE Stale(s) == [s EXCEPT !.key = IF @ = "good" THEN "stale" ELSE @]
               Reread(o) == [n \in DOMAIN o |-> IF n \in ENCRYPTED_SECTIONS THEN Stale(o[n]) ELSE o[n]]
    <3>1. ASSUME NEW o, Sound(o)
          PROVE  Sound(Reread(o))
      BY <3>1 DEF Sound, Numeric, ThresholdNames, ENCRYPTED_SECTIONS
    <3>2. /\ UNCHANGED <<stored, admin>>
          /\ override' = [l \in Levels |-> IF override[l] = NoVal THEN NoVal ELSE Reread(override[l])]
      BY <2>3 DEF secret_key_changes
    <3> HIDE DEF Reread
    <3> QED BY <1>1, <3>1, <3>2 DEF SettingsOK
  <2>4. CASE \/ \E o \in Overrides : create_department(o) \/ create_application(o)
             \/ \E o \in Overrides \cup {NoVal} :
                  update_department(o) \/ update_application(o) \/ set_application_policy(o)
             \/ reset_application_policy
    BY <2>1, <2>4 DEF create_department, create_application, update_department, update_application,
         set_application_policy, reset_application_policy, Replace, Levels
  <2> QED
    BY <1>7, <2>2, <2>3, <2>4
       DEF Manage, create_key, update_key, delete_key, key_expires, delete_department, delete_application,
           Deactivate, put_proxy_settings, delete_proxy_settings, tenant_cache_expires
<1> QED BY <1>5, <1>6, <1>7 DEF Administration
-----------------------------------------------------------------------------
(* What was scanned is what is sent *)

Resolved == {"overrides", "cache", "config", "scan", "provider", "output", "audit", "respond"}
Judging == {"provider", "output", "audit", "respond"}
Leaving == {"store", "answered"}
Scanned == Judging \cup Leaving

\* The operators of the gateway as functions of a request's record.
EligibleIn(b) ==
    LET scannable == {i \in DOMAIN b.items : b.items[i].role \in Env.roles} IN
    IF b.op # "proxy" THEN DOMAIN b.items
    ELSE IF b.all \/ scannable = {} THEN scannable ELSE {Max(scannable)}
DownIn(r, i) == IF r.down # NoVal /\ r.down[1] = i THEN {r.down[2]} ELSE {}
ScansOf(r) ==
    [i \in EligibleIn(r.body) |->
        process(r.body.items[i].text, r.body.items[i].source, r.body.mode, r.policy, DownIn(r, i))]
OutgoingOf(r) ==
    [i \in DOMAIN r.body.items |->
        IF i \in DOMAIN r.results /\ (r.body.op = "execute" \/ r.results[i].rewritten)
        THEN r.results[i].prompt ELSE r.body.items[i].text]

\* The results are the scans under the policy of the request, no provider is
\* reached past a BLOCK, and what is sent comes of the results.
Passes(r) ==
    /\ r.body.op \in {"execute", "proxy"} /\ TypedPolicy(r.policy) /\ r.results = ScansOf(r)
    /\ \A i \in EligibleIn(r.body) : r.results[i].decision # "BLOCK"
Screened(r) ==
    /\ r.pc \in Resolved => TypedPolicy(r.policy)
    /\ r.results # <<>> => r.pc \in Scanned /\ TypedPolicy(r.policy) /\ r.results = ScansOf(r)
    /\ r.pc = "provider" => Passes(r)
    /\ r.sent # <<>> => r.pc \in Scanned \ {"provider"} /\ Passes(r) /\ r.sent = OutgoingOf(r)

AllScreened == \A c \in Clients : Screened(req[c])

LEMMA SameOperators ==
    ASSUME NEW c
    PROVE  /\ Eligible(c) = EligibleIn(req[c].body) /\ Outgoing(c) = OutgoingOf(req[c])
           /\ \A i : Down(c, i) = DownIn(req[c], i)
  BY DEF Eligible, EligibleIn, Op, Messages, Outgoing, OutgoingOf, Down, DownIn

\* A step that does not scan, resolve or send.
SameScreen(r, s) ==
    /\ s.body = r.body /\ s.policy = r.policy /\ s.results = r.results /\ s.down = r.down /\ s.sent = r.sent
    /\ s.pc = "provider" => r.pc = "provider"
    /\ s.pc \in Resolved => r.pc \in Resolved
    /\ r.pc \in Scanned => s.pc \in Scanned
    /\ r.pc \in Leaving => s.pc \in Leaving
    /\ s.hit = r.hit
    /\ s.pc \in Judging => r.pc \in Judging /\ (s.answer.decision = "ALLOW" => r.answer.decision = "ALLOW")

LEMMA ScreenCarried ==
    ASSUME NEW r, NEW s, Screened(r), SameScreen(r, s)
    PROVE  Screened(s)
<1>1. ScansOf(s) = ScansOf(r) /\ OutgoingOf(s) = OutgoingOf(r) /\ (Passes(r) => Passes(s))
  BY DEF SameScreen, ScansOf, OutgoingOf, DownIn, Passes
<1> QED BY <1>1 DEF SameScreen, Screened, Scanned, Judging, Leaving

LEMMA NothingScanned ==
    ASSUME NEW s, s.results = <<>>, s.sent = <<>>, s.pc # "provider", s.pc \in Resolved => TypedPolicy(s.policy)
    PROVE  Screened(s)
  BY DEF Screened

\* The steps that leave the screen of their request alone.
LEMMA SameScreenSteps ==
    ASSUME RequestsOK, NEW c \in Clients,
           \/ authenticate_api_key(c) \/ tenant_read(c) \/ tenant_store(c)
           \/ idem_claim(c) \/ idem_lookup(c) \/ idem_store(c)
           \/ proxy_config(c) \/ cache_miss(c) \/ provider_config_error(c)
           \/ guard_completion(c) \/ guard_proxied(c) \/ audit_scan(c) \/ audit_batch(c) \/ log_interaction(c)
           \/ ai_respond(c) \/ proxy_respond(c)
    PROVE  SameScreen(req[c], req'[c])
<1>1. PICK r : r = req[c] /\ DOMAIN r = Fields /\ DOMAIN r.answer = AnswerFields /\ DOMAIN req = Clients
  BY DEF RequestsOK, RequestOK
<1>2. ASSUME NEW s, Goto(c, s), SameScreen(r, s)
      PROVE  SameScreen(req[c], req'[c])
  BY <1>1, <1>2 DEF Goto
<1> DEFINE Ends(s, a) == s = [r EXCEPT !.pc = "store", !.answer = a]
           Turned(s, a) == s = [r EXCEPT !.pc = "answered", !.answer = a]
<1>3. ASSUME NEW s, NEW a, Ends(s, a) \/ Turned(s, a), r.pc # "idle"
      PROVE  SameScreen(r, s)
  BY <1>1, <1>3, ZenonT(60) DEF SameScreen, Resolved, Scanned, Judging, Leaving, Fields
<1>4. CASE authenticate_api_key(c)
  <2>1. PICK row : row = keys[r.key]
    OBVIOUS
  <2>2. PICK s : Goto(c, s) /\ \/ s = Reject(r, Refused)
                               \/ s = [[r EXCEPT !.row = row] EXCEPT !.pc = "tenant"]
                               \/ s = [[r EXCEPT !.row = row] EXCEPT !.pc = "idem"]
                               \/ s = Reject([r EXCEPT !.row = row], Refused)
    BY <1>1, <1>4, <2>1 DEF authenticate_api_key
  <2>3. r.pc = "auth"
    BY <1>1, <1>4 DEF authenticate_api_key, At
  <2>4. SameScreen(r, s)
    BY <1>1, <2>2, <2>3, ZenonT(60) DEF SameScreen, Resolved, Scanned, Judging, Leaving, Fields, Reject
  <2> QED BY <1>2, <2>2, <2>4
<1>5. CASE tenant_read(c)
  <2>1. r.pc = "tenant" /\ \E s : Goto(c, s) /\ \/ \E x : s = [r EXCEPT !.pc = "tenant_store", !.status = x]
                                                 \/ s = Reject(r, Refused)
    BY <1>1, <1>5 DEF tenant_read, At
  <2>2. PICK s : Goto(c, s) /\ ((\E x : s = [r EXCEPT !.pc = "tenant_store", !.status = x]) \/ s = Reject(r, Refused))
    BY <2>1
  <2>3. SameScreen(r, s)
    BY <1>1, <2>1, <2>2, ZenonT(60) DEF SameScreen, Resolved, Scanned, Judging, Leaving, Fields, Reject
  <2> QED BY <1>2, <2>2, <2>3
<1>6. CASE tenant_store(c)
  <2>1. PICK s : Goto(c, s) /\ (s = [r EXCEPT !.pc = "idem"] \/ s = Reject(r, Refused))
    BY <1>1, <1>6 DEF tenant_store, Step
  <2>2. r.pc = "tenant_store"
    BY <1>1, <1>6 DEF tenant_store, At
  <2>3. SameScreen(r, s)
    BY <1>1, <2>1, <2>2, ZenonT(60) DEF SameScreen, Resolved, Scanned, Judging, Leaving, Fields, Reject
  <2> QED BY <1>2, <2>1, <2>3
<1>7. CASE idem_claim(c)
  <2>1. PICK s : Goto(c, s) /\ \/ s = [r EXCEPT !.pc = "handler"]
                               \/ \E b : s = [[r EXCEPT !.pc = "lookup"] EXCEPT !.late = b]
    BY <1>1, <1>7 DEF idem_claim, Step
  <2>2. r.pc = "idem"
    BY <1>1, <1>7 DEF idem_claim, At
  <2>3. SameScreen(r, s)
    BY <1>1, <2>1, <2>2, ZenonT(60) DEF SameScreen, Resolved, Scanned, Judging, Leaving, Fields
  <2> QED BY <1>2, <2>1, <2>3
<1>8. CASE idem_lookup(c)
  <2>1. PICK held : held = idem[Slot(c)]
    OBVIOUS
  <2>2. PICK s : Goto(c, s) /\ \/ s = Reject(r, Refused)
                               \/ s = [r EXCEPT !.pc = "answered", !.answer = held.answer, !.replay = held]
                               \/ s = [r EXCEPT !.pc = "handler"]
    BY <1>1, <1>8, <2>1 DEF idem_lookup, Step
  <2>3. r.pc = "lookup"
    BY <1>1, <1>8 DEF idem_lookup, At
  <2>4. SameScreen(r, s)
    BY <1>1, <2>2, <2>3, ZenonT(60) DEF SameScreen, Resolved, Scanned, Judging, Leaving, Fields, Reject
  <2> QED BY <1>2, <2>2, <2>4
<1>9. CASE idem_store(c)
  <2>1. PICK s : Goto(c, s) /\ \/ s = [r EXCEPT !.pc = "answered"]
                               \/ s = [[r EXCEPT !.pc = "answered"] EXCEPT !.answer = Lost]
    BY <1>1, <1>9 DEF idem_store, Step
  <2>2. r.pc = "store"
    BY <1>1, <1>9 DEF idem_store, At
  <2>3. SameScreen(r, s)
    BY <1>1, <2>1, <2>2, ZenonT(60) DEF SameScreen, Resolved, Scanned, Judging, Leaving, Fields
  <2> QED BY <1>2, <2>1, <2>3
<1>10. CASE proxy_config(c)
  <2>1. PICK target : target = proxy_provider(c)
    OBVIOUS
  <2>2. PICK s : Goto(c, s) /\ \/ \E a : Ends(s, a)
                               \/ \E b : s = [[r EXCEPT !.pc = "scan"] EXCEPT !.target = target, !.unmetered = @ \/ b]
    BY <1>1, <1>10, <2>1 DEF proxy_config, Step, Answer
  <2>3. r.pc = "config"
    BY <1>1, <1>10 DEF proxy_config, At
  <2>4. CASE \E a : Ends(s, a)
    BY <1>2, <1>3, <2>2, <2>3, <2>4
  <2>5. CASE \E b : s = [[r EXCEPT !.pc = "scan"] EXCEPT !.target = target, !.unmetered = @ \/ b]
    <3>1. SameScreen(r, s)
      BY <1>1, <2>3, <2>5 DEF SameScreen, Resolved, Scanned, Judging, Leaving, Fields
    <3> QED BY <1>2, <2>2, <3>1
  <2> QED BY <2>2, <2>4, <2>5
<1>11. CASE cache_miss(c)
  <2>1. PICK s : Goto(c, s) /\ (Ends(s, TooMany) \/ s = [r EXCEPT !.pc = "scan"])
    BY <1>1, <1>11 DEF cache_miss, Step, Answer
  <2>2. r.pc = "cache"
    BY <1>1, <1>11 DEF cache_miss, At
  <2>3. SameScreen(r, s)
    BY <1>1, <2>1, <2>2 DEF SameScreen, Resolved, Scanned, Judging, Leaving, Fields
  <2> QED BY <1>2, <2>1, <2>3
<1>12. CASE provider_config_error(c)
  <2>1. PICK s : Goto(c, s) /\ Ends(s, ServerError)
    BY <1>1, <1>12 DEF provider_config_error, Answer
  <2>2. r.pc = "provider"
    BY <1>1, <1>12 DEF provider_config_error, Doing, At
  <2> QED BY <1>2, <1>3, <2>1, <2>2
<1>13. CASE guard_completion(c) \/ guard_proxied(c)
  <2>1. PICK s, g : Goto(c, s) /\ \/ s = [[r EXCEPT !.pc = "audit"] EXCEPT !.answer = Passed(@, g)]
                                  \/ s = [[r EXCEPT !.pc = "audit"] EXCEPT
                                            !.answer = Passed(@, g),
                                            !.outcome = IF g.decision = "BLOCK" THEN "OUTPUT_BLOCKED" ELSE "SUCCESS"]
    BY <1>1, <1>13 DEF guard_completion, guard_proxied, Inspect, Step
  <2>2. r.pc = "output"
    BY <1>1, <1>13 DEF guard_completion, guard_proxied, Doing, At
  <2>3. PICK a : a = Passed(r.answer, g) /\ (a.decision = "ALLOW" => r.answer.decision = "ALLOW")
    <3>1. PICK x : x = r.answer /\ DOMAIN x = AnswerFields
      BY <1>1
    <3>2. PICK a : a = Passed(x, g)
      OBVIOUS
    <3>3. a.decision = "ALLOW" => x.decision = "ALLOW"
      BY <3>1, <3>2 DEF Passed, AnswerFields
    <3> QED BY <3>1, <3>2, <3>3
  <2>4. s.answer = a
    BY <1>1, <2>1, <2>3 DEF Fields
  <2>5. SameScreen(r, s)
    BY <1>1, <2>1, <2>2, <2>3, <2>4 DEF SameScreen, Resolved, Scanned, Judging, Leaving, Fields
  <2> QED BY <1>2, <2>1, <2>5
<1>14. CASE audit_scan(c)
  <2>1. PICK row, a : /\ row = build_audit_data(c, 1)
                      /\ a = IF r.answer.kind = "error" THEN ServerError ELSE r.answer
    OBVIOUS
  <2>2. PICK s : Goto(c, s) /\ \/ Ends(s, ServerError)
                               \/ s = [[r EXCEPT !.pc = IF r.answer.kind = "error" THEN "store" ELSE "respond"]
                                         EXCEPT !.audited = <<row>>, !.events = 1, !.answer = a]
    BY <1>1, <1>14, <2>1 DEF audit_scan, Answer, Step
  <2>3. r.pc = "audit"
    BY <1>1, <1>14 DEF audit_scan, Doing, At
  <2>4. SameScreen(r, s)
    BY <1>1, <2>1, <2>2, <2>3, ZenonT(60) DEF SameScreen, Resolved, Scanned, Judging, Leaving, Fields
  <2> QED BY <1>2, <2>2, <2>4
<1>15. CASE audit_batch(c)
  <2> DEFINE Rows(n) == [i \in 1..n |-> build_audit_data(c, i)]
             total == Len(Messages(c))
             whole == restrict_layer_scores(c, build_response(req[c].answer.decision, NoVal, req[c].results))
  <2>1. \/ Goto(c, [Answer(r, whole) EXCEPT !.audited = Rows(total), !.events = total])
        \/ \E n \in 0..(total - 1) : Goto(c, [Answer(r, ServerError) EXCEPT !.audited = Rows(n)])
    BY <1>1, <1>15 DEF audit_batch
  <2>2. r.pc = "audit"
    BY <1>1, <1>15 DEF audit_batch, Doing, At
  <2> HIDE DEF Rows, total, whole
  <2>3. SameScreen(r, [Answer(r, whole) EXCEPT !.audited = Rows(total), !.events = total])
    BY <1>1, <2>2 DEF SameScreen, Resolved, Scanned, Judging, Leaving, Fields, Answer
  <2>4. \A n : SameScreen(r, [Answer(r, ServerError) EXCEPT !.audited = Rows(n)])
    BY <1>1, <2>2 DEF SameScreen, Resolved, Scanned, Judging, Leaving, Fields, Answer
  <2> QED BY <1>2, <2>1, <2>3, <2>4
<1>16. CASE log_interaction(c)
  <2> DEFINE all == [i \in DOMAIN req[c].results |-> segment_audit_row(c, i)]
  <2>1. PICK rs, o : rs = all /\ o = req[c].outcome
    OBVIOUS
  <2>2. PICK s : Goto(c, s) /\ \/ s = [r EXCEPT !.pc = "respond"]
                               \/ s = [[r EXCEPT !.pc = "respond"] EXCEPT !.logged = o]
                               \/ s = [[[r EXCEPT !.pc = "respond"] EXCEPT !.logged = o] EXCEPT !.audited = rs]
    BY <1>1, <1>16, <2>1 DEF log_interaction, Step
  <2>3. r.pc = "audit"
    BY <1>1, <1>16 DEF log_interaction, Doing, At
  <2> HIDE DEF all
  <2>4. SameScreen(r, s)
    BY <1>1, <2>2, <2>3, ZenonT(60) DEF SameScreen, Resolved, Scanned, Judging, Leaving, Fields
  <2> QED BY <1>2, <2>2, <2>4
<1>17. CASE ai_respond(c) \/ proxy_respond(c)
  <2>1. PICK s, a : Goto(c, s) /\ Ends(s, a)
    BY <1>1, <1>17 DEF ai_respond, proxy_respond, Answer
  <2>2. r.pc = "respond"
    BY <1>1, <1>17 DEF ai_respond, proxy_respond, Doing, At
  <2> QED BY <1>2, <1>3, <2>1, <2>2
<1> QED
  BY <1>4, <1>5, <1>6, <1>7, <1>8, <1>9, <1>10, <1>11, <1>12, <1>13, <1>14, <1>15, <1>16, <1>17

\* A response from the cache ends the request.
LEMMA HitStep ==
    ASSUME RequestsOK, NEW c \in Clients, Screened(req[c]), cache_hit(c)
    PROVE  /\ Screened(req'[c])
           /\ LET r == req[c]
                  s == req'[c] IN
              s.pc = "store" /\ s.body = r.body /\ s.policy = r.policy /\ s.down = r.down
<1>1. PICK r : r = req[c] /\ DOMAIN r = Fields /\ DOMAIN req = Clients
  BY DEF RequestsOK, RequestOK
<1> DEFINE e == CHOOSE x \in cache : x.key = cache_key(req[c])
<1>2. PICK a, rs : a = restrict_layer_scores(c, e.answer) /\ rs = <<cache_hit_audit(e.answer)>>
  OBVIOUS
<1>3. PICK s : Goto(c, s) /\ \/ s = [r EXCEPT !.pc = "store", !.answer = ServerError]
                             \/ s = [[r EXCEPT !.hit = TRUE, !.events = 1, !.audited = rs]
                                       EXCEPT !.pc = "store", !.answer = a]
  BY <1>1, <1>2 DEF cache_hit, Answer
<1>4. r.pc = "cache"
  BY <1>1 DEF cache_hit, At
<1> HIDE DEF e
<1>5. s.pc = "store" /\ s.body = r.body /\ s.policy = r.policy /\ s.results = r.results /\ s.sent = r.sent /\ s.down = r.down
  BY <1>1, <1>3 DEF Fields
<1>6. r.results = <<>> /\ r.sent = <<>>
  BY <1>1, <1>4 DEF Screened, Scanned, Judging, Leaving
<1>7. Screened(s)
  BY <1>5, <1>6, NothingScanned DEF Resolved
<1>8. req'[c] = s
  BY <1>1, <1>3 DEF Goto
<1> QED BY <1>1, <1>5, <1>7, <1>8

\* Only items of the request are scanned, and they are counted from one.
LEMMA EligibleItems ==
    ASSUME NEW b, NEW S, b.items \in Seq(S)
    PROVE  EligibleIn(b) \subseteq DOMAIN b.items /\ EligibleIn(b) \subseteq Nat \ {0}
<1>1. PICK n \in Nat : DOMAIN b.items = 1..n
  OBVIOUS
<1>2. ASSUME NEW T \in SUBSET (1..n), T # {}
      PROVE  Max(T) \in T
  <2>1. T \subseteq Int /\ T # {} /\ n \in Int /\ \A x \in T : x <= n
    BY <1>2
  <2> QED BY <2>1, GreatestOf
<1>3. EligibleIn(b) \subseteq 1..n
  BY <1>1, <1>2 DEF EligibleIn
<1> QED BY <1>1, <1>3

\* The resolver's two reads.
LEMMA ResolvedScreened ==
    ASSUME RequestsOK, SettingsOK, NEW c \in Clients, Screened(req[c]), req[c].results = <<>>, req[c].sent = <<>>,
           resolve_settings(c) \/ resolve_policy(c)
    PROVE  /\ Screened(req'[c])
           /\ LET s == req'[c] IN s.hit = req[c].hit /\ s.down = req[c].down /\ s.pc \notin Judging
<1> DEFINE Goal == /\ Screened(req'[c])
                   /\ LET s == req'[c] IN s.hit = req[c].hit /\ s.down = req[c].down /\ s.pc \notin Judging
<1>1. PICK r : r = req[c] /\ DOMAIN r = Fields /\ DOMAIN req = Clients
  BY DEF RequestsOK, RequestOK
<1>2. ASSUME NEW s, Goto(c, s), s.results = <<>>, s.sent = <<>>, s.pc \notin Judging,
             s.hit = r.hit, s.down = r.down, s.pc \in Resolved => TypedPolicy(s.policy)
      PROVE  Goal
  <2>1. req'[c] = s
    BY <1>1, <1>2 DEF Goto
  <2> QED BY <1>1, <1>2, <2>1, NothingScanned DEF Judging
<1>3. ASSUME NEW s, Goto(c, s), NEW q, NEW a, s = Answer([r EXCEPT !.policy = q], a) \/ s = Answer(r, a)
      PROVE  Goal
  <2>1. s.results = <<>> /\ s.sent = <<>> /\ s.pc = "store" /\ s.hit = r.hit /\ s.down = r.down
    BY <1>1, <1>3 DEF Answer, Fields
  <2> QED BY <1>2, <1>3, <2>1 DEF Resolved, Judging
<1> SUFFICES Goal
  OBVIOUS
<1> HIDE DEF Goal
<1>4. CASE resolve_settings(c)
  <2>1. PICK p : p = tenant_policy /\ TypedPolicy(p)
    BY TenantPolicyTyped
  <2>2. PICK s : Goto(c, s) /\ \/ \E a \in {Refused, TooMany, ServerError} : s = Answer(r, a)
                               \/ \E b : s = [[r EXCEPT !.pc = "overrides"] EXCEPT !.policy = p, !.unmetered = @ \/ b]
    BY <1>1, <1>4, <2>1 DEF resolve_settings, Step
  <2>3. CASE \E b : s = [[r EXCEPT !.pc = "overrides"] EXCEPT !.policy = p, !.unmetered = @ \/ b]
    <3>1. s.results = <<>> /\ s.sent = <<>> /\ s.pc = "overrides" /\ s.policy = p /\ s.hit = r.hit /\ s.down = r.down
      BY <1>1, <2>3 DEF Fields
    <3> QED BY <1>2, <2>1, <2>2, <3>1 DEF Judging
  <2> QED BY <1>3, <2>2, <2>3
<1>5. CASE resolve_policy(c)
  <2> DEFINE dept == level_policy(r.policy, "dept")
             resolved == valid_policy(IF r.row.app THEN level_policy(dept, "app") ELSE dept)
  <2>1. r.pc = "overrides"
    BY <1>1, <1>5 DEF resolve_policy, At
  <2>2. TypedPolicy(dept)
    BY <1>1, <2>1, ResolvedTyped DEF Screened, Resolved, Levels
  <2> HIDE DEF dept
  <2>3. TypedPolicy(resolved)
    <3>1. TypedPolicy(level_policy(dept, "app"))
      BY <2>2, ResolvedTyped DEF Levels
    <3>2. PICK q : q = (IF r.row.app THEN level_policy(dept, "app") ELSE dept) /\ TypedPolicy(q)
      BY <2>2, <3>1
    <3> QED BY <3>2, ResolvedTyped
  <2>4. PICK p : p = resolved /\ TypedPolicy(p)
    BY <2>3
  <2>5. PICK s : Goto(c, s) /\ \/ s = Answer(r, ServerError)
                               \/ s = Answer([r EXCEPT !.policy = p], Refused)
                               \/ \E pc \in {"scan", "config", "cache"} :
                                    s = [[r EXCEPT !.policy = p] EXCEPT !.pc = pc]
    BY <1>1, <1>5, <2>4 DEF resolve_policy, dept
  <2>6. CASE \E pc \in {"scan", "config", "cache"} : s = [[r EXCEPT !.policy = p] EXCEPT !.pc = pc]
    <3>1. s.results = <<>> /\ s.sent = <<>> /\ s.pc \in {"scan", "config", "cache"} /\ s.policy = p
         /\ s.hit = r.hit /\ s.down = r.down
      BY <1>1, <2>6 DEF Fields
    <3> QED BY <1>2, <2>4, <2>5, <3>1 DEF Judging
  <2> QED BY <1>3, <2>5, <2>6
<1> QED BY <1>4, <1>5

\* The verdict on all the items is BLOCK as soon as one of them is.
LEMMA StrictestBlocks ==
    ASSUME NEW results, \A i \in DOMAIN results : results[i].decision \in Decisions,
           NEW i \in DOMAIN results, results[i].decision = "BLOCK"
    PROVE  Strictest(results) = "BLOCK"
<1> DEFINE Tops(d) == /\ \E j \in DOMAIN results : results[j].decision = d
                      /\ \A j \in DOMAIN results : Rank[results[j].decision] <= Rank[d]
<1>1. Rank["ALLOW"] = 0 /\ Rank["SANITIZE"] = 1 /\ Rank["BLOCK"] = 2
  BY DEF Rank
<1>2. Tops("BLOCK")
  BY <1>1 DEF Decisions
<1>3. \A d \in Decisions : Tops(d) => d = "BLOCK"
  BY <1>1 DEF Decisions
<1> HIDE DEF Tops
<1>4. Strictest(results) = CHOOSE d \in Decisions : Tops(d)
  BY DEF Strictest, Tops
<1> QED BY <1>2, <1>3, <1>4 DEF Decisions

\* The scans.
LEMMA ScansScreened ==
    ASSUME RequestsOK, NEW c \in Clients, Screened(req[c]), req[c].sent = <<>>,
           ai_scan(c) \/ ai_scan_batch(c) \/ proxy_scan(c)
    PROVE  /\ Screened(req'[c])
           /\ LET u == req'[c] IN
              /\ u.hit = req[c].hit /\ u.body = req[c].body /\ u.results = ScansOf(u)
              /\ u.answer.decision = Strictest(u.results)
              /\ u.down # NoVal => u.down[2] \in scope.fails
<1>1. PICK r : r = req[c] /\ DOMAIN r = Fields /\ DOMAIN r.answer = AnswerFields /\ DOMAIN req = Clients
  BY DEF RequestsOK, RequestOK
<1>2. r.pc = "scan" /\ r.body \in Bodies /\ TypedPolicy(r.policy)
  BY <1>1 DEF RequestsOK, RequestOK, Known, Screened, Resolved, ai_scan, ai_scan_batch, proxy_scan, Doing, At
<1>3. PICK s \in ScanOutcomes(c) :
        \E u : /\ Goto(c, u)
               /\ \/ /\ r.body.op \in {"scan", "execute"}
                     /\ u = [Judged(c, s) EXCEPT !.pc = IF Op(c) = "execute" /\ s.results[1].decision # "BLOCK"
                                                        THEN "provider" ELSE "audit"]
                  \/ r.body.op = "batch" /\ u = [Judged(c, s) EXCEPT !.pc = "audit"]
                  \/ /\ r.body.op = "proxy"
                     /\ LET blocked == Strictest(s.results) = "BLOCK" IN
                        u = [Judged(c, s) EXCEPT !.pc = IF blocked THEN "audit" ELSE "provider", !.events = 1,
                                                 !.outcome = IF blocked THEN "BLOCKED" ELSE NoVal]
  BY <1>1 DEF ai_scan, ai_scan_batch, proxy_scan, Scan, Doing, Op
<1>4. PICK u : /\ Goto(c, u) /\ DOMAIN u = Fields
               /\ u.body = r.body /\ u.policy = r.policy /\ u.sent = r.sent
               /\ u.results = s.results /\ u.down = s.down
               /\ u.hit = r.hit /\ u.answer.decision = Strictest(s.results)
               /\ u.pc \in {"provider", "audit"}
               /\ u.pc = "provider" =>
                    \/ r.body.op = "execute" /\ s.results[1].decision # "BLOCK"
                    \/ r.body.op = "proxy" /\ Strictest(s.results) # "BLOCK"
  <2>1. PICK j : j = Judged(c, s)
    OBVIOUS
  <2>2. /\ DOMAIN j = Fields /\ j.body = r.body /\ j.policy = r.policy /\ j.sent = r.sent
        /\ j.results = s.results /\ j.down = s.down
        /\ j.hit = r.hit /\ j.answer.decision = Strictest(s.results)
    <3>1. PICK d : d = Strictest(s.results)
      OBVIOUS
    <3>2. j = [r EXCEPT !.results = s.results, !.down = s.down, !.answer.decision = d]
      BY <1>1, <2>1, <3>1 DEF Judged
    <3> QED BY <1>1, <3>1, <3>2 DEF Fields, AnswerFields
  <2>3. PICK u : /\ Goto(c, u)
                 /\ \/ /\ r.body.op \in {"scan", "execute"}
                       /\ u = [j EXCEPT !.pc = IF r.body.op = "execute" /\ s.results[1].decision # "BLOCK"
                                               THEN "provider" ELSE "audit"]
                    \/ r.body.op = "batch" /\ u = [j EXCEPT !.pc = "audit"]
                    \/ /\ r.body.op = "proxy"
                       /\ LET blocked == Strictest(s.results) = "BLOCK" IN
                          u = [j EXCEPT !.pc = IF blocked THEN "audit" ELSE "provider", !.events = 1,
                                        !.outcome = IF blocked THEN "BLOCKED" ELSE NoVal]
    BY <1>1, <1>3, <2>1 DEF Op
  <2>4. PICK blocked \in BOOLEAN : blocked = (Strictest(s.results) = "BLOCK")
    OBVIOUS
  <2>5. /\ DOMAIN u = Fields /\ u.body = j.body /\ u.policy = j.policy /\ u.sent = j.sent
        /\ u.results = j.results /\ u.down = j.down /\ u.hit = j.hit /\ u.answer = j.answer
        /\ u.pc \in {"provider", "audit"}
        /\ u.pc = "provider" =>
             \/ r.body.op = "execute" /\ s.results[1].decision # "BLOCK"
             \/ r.body.op = "proxy" /\ ~blocked
    <3>1. CASE r.body.op = "proxy" /\ u = [j EXCEPT !.pc = IF blocked THEN "audit" ELSE "provider", !.events = 1,
                                                    !.outcome = IF blocked THEN "BLOCKED" ELSE NoVal]
      BY <2>2, <3>1 DEF Fields
    <3>2. CASE \/ u = [j EXCEPT !.pc = "audit"]
               \/ /\ r.body.op \in {"scan", "execute"}
                  /\ u = [j EXCEPT !.pc = IF r.body.op = "execute" /\ s.results[1].decision # "BLOCK"
                                          THEN "provider" ELSE "audit"]
      BY <2>2, <3>2 DEF Fields
    <3> QED BY <2>3, <2>4, <3>1, <3>2
  <2> QED BY <2>2, <2>3, <2>4, <2>5
<1>5. s.results = ScansOf(u)
  <2>1. PICK f, part : /\ s.results = scan_items(c, f, part)
                       /\ \/ f = 0 /\ s.down = NoVal
                          \/ s.down = <<f, part>> /\ f \in Eligible(c) /\ part \in Parts
    BY <1>3 DEF ScanOutcomes
  <2>2. Eligible(c) = EligibleIn(u.body) /\ EligibleIn(u.body) \subseteq Nat \ {0}
    <3>1. r.body.items \in Seq([text : Texts, source : STRING, role : STRING])
      BY <1>2, BodyFacts
    <3>2. EligibleIn(r.body) \subseteq Nat \ {0}
      BY <3>1, EligibleItems
    <3> QED BY <1>1, <1>4, <3>2, SameOperators
  <2>3. ASSUME NEW i \in EligibleIn(u.body)
        PROVE  (IF i = f THEN {part} ELSE {}) = DownIn(u, i)
    <3>1. CASE f = 0 /\ s.down = NoVal
      BY <1>4, <2>2, <3>1 DEF DownIn
    <3>2. CASE s.down = <<f, part>> /\ f \in Eligible(c) /\ part \in Parts
      <4>1. s.down # NoVal
        BY <2>2, <3>2, GatewayAssumption DEF GatewayAssumption
      <4> QED BY <1>4, <3>2, <4>1 DEF DownIn
    <3> QED BY <2>1, <3>1, <3>2
  <2>4. scan_items(c, f, part) = [i \in EligibleIn(u.body) |->
            process(u.body.items[i].text, u.body.items[i].source, u.body.mode, u.policy,
                    IF i = f THEN {part} ELSE {})]
    BY <1>1, <1>4, <2>2 DEF scan_items, Messages
  <2> QED BY <2>1, <2>3, <2>4 DEF ScansOf
<1>6. u.pc = "provider" => \A i \in EligibleIn(u.body) : u.results[i].decision # "BLOCK"
  <2>1. DOMAIN u.results = EligibleIn(u.body)
    BY <1>4, <1>5 DEF ScansOf
  <2>2. \A i \in DOMAIN u.results : u.results[i].decision \in Decisions
    BY <1>4, <1>5, ThreeVerdicts DEF ScansOf, Decisions
  <2>3. CASE r.body.op = "execute" /\ s.results[1].decision # "BLOCK"
    <3>1. EligibleIn(u.body) = {1}
      BY <1>2, <1>4, <2>3, BodyFacts DEF EligibleIn
    <3> QED BY <1>4, <2>3, <3>1
  <2>4. CASE Strictest(s.results) # "BLOCK"
    BY <1>4, <2>1, <2>2, <2>4, StrictestBlocks
  <2> QED BY <1>4, <2>3, <2>4
<1>7. Screened(u)
  BY <1>1, <1>2, <1>4, <1>5, <1>6 DEF Screened, Passes, Scanned, Judging, Leaving
<1>8. s.down # NoVal => s.down[2] \in scope.fails
  BY <1>3 DEF ScanOutcomes
<1>9. req'[c] = u
  BY <1>1, <1>4 DEF Goto
<1> QED BY <1>1, <1>4, <1>5, <1>7, <1>8, <1>9

\* The calls of the provider.
LEMMA SendsScreened ==
    ASSUME RequestsOK, NEW c \in Clients, Screened(req[c]),
           \/ llm_fails(c) \/ provider_times_out(c) \/ provider_malformed(c) \/ provider_unavailable(c)
           \/ provider_unsupported(c) \/ \E t \in Replies : call_llm(c, t) \/ chat_completions(c, t)
    PROVE  /\ Screened(req'[c])
           /\ LET r == req[c]
                  u == req'[c] IN
              /\ r.pc = "provider" /\ u.hit = r.hit /\ u.body = r.body /\ u.policy = r.policy
              /\ u.results = r.results /\ u.down = r.down
              /\ u.answer.decision \in {r.answer.decision, "none"}
<1>1. PICK r : r = req[c] /\ DOMAIN r = Fields /\ DOMAIN r.answer = AnswerFields /\ DOMAIN req = Clients
  BY DEF RequestsOK, RequestOK
<1>2. r.pc = "provider"
  BY <1>1 DEF llm_fails, provider_times_out, provider_malformed, provider_unavailable, provider_unsupported,
              call_llm, chat_completions, UpstreamFails, Forwarded, Doing, At
<1>3. PICK i \in {[r EXCEPT !.pc = "audit"], [r EXCEPT !.pc = "output"]} :
        \E j : /\ Goto(c, [j EXCEPT !.sent = Outgoing(c)])
               /\ \/ j = [i EXCEPT !.answer.kind = "error"]
                  \/ \E t \in Replies : j = [i EXCEPT !.answer.output = t]
                  \/ \E o \in {"TIMEOUT", "FAILED"}, a \in {Refused, TooMany, ServerError} :
                       j = [i EXCEPT !.outcome = o, !.answer = a]
  <2>1. CASE llm_fails(c) \/ \E t \in Replies : call_llm(c, t) \/ chat_completions(c, t)
    BY <1>1, <2>1 DEF llm_fails, call_llm, chat_completions, Forwarded, Sent, Step
  <2>2. ASSUME NEW o \in {"TIMEOUT", "FAILED"}, NEW a \in {Refused, TooMany, ServerError}, UpstreamFails(c, o, a)
        PROVE  LET k == [r EXCEPT !.pc = "audit"] IN
               Goto(c, [[k EXCEPT !.outcome = o, !.answer = a] EXCEPT !.sent = Outgoing(c)])
    BY <1>1, <2>2 DEF UpstreamFails, Forwarded, Sent, Step
  <2>3. CASE \E o \in {"TIMEOUT", "FAILED"}, a \in {Refused, TooMany, ServerError} : UpstreamFails(c, o, a)
    BY <2>2, <2>3
  <2> QED
    BY <2>1, <2>3 DEF provider_times_out, provider_malformed, provider_unavailable, provider_unsupported,
                      map_provider_failure
<1>4. PICK j : /\ Goto(c, [j EXCEPT !.sent = Outgoing(c)])
               /\ \/ j = [i EXCEPT !.answer.kind = "error"]
                  \/ \E t \in Replies : j = [i EXCEPT !.answer.output = t]
                  \/ \E o \in {"TIMEOUT", "FAILED"}, a \in {Refused, TooMany, ServerError} :
                       j = [i EXCEPT !.outcome = o, !.answer = a]
  BY <1>3
<1>5. /\ DOMAIN i = Fields /\ i.pc \in {"audit", "output"} /\ i.body = r.body /\ i.policy = r.policy
      /\ i.results = r.results /\ i.down = r.down /\ i.hit = r.hit /\ i.answer = r.answer
  BY <1>1, <1>3 DEF Fields
<1>6. /\ DOMAIN j = Fields /\ j.pc = i.pc /\ j.body = i.body /\ j.policy = i.policy
      /\ j.results = i.results /\ j.down = i.down /\ j.hit = i.hit
      /\ j.answer.decision \in {r.answer.decision, "none"}
  <2>1. \A a \in {Refused, TooMany, ServerError} : a.decision = "none"
    BY DEF Refused, TooMany, ServerError, NoAnswer
  <2>2. CASE j = [i EXCEPT !.answer.kind = "error"] \/ \E t \in Replies : j = [i EXCEPT !.answer.output = t]
    BY <1>1, <1>5, <2>2 DEF Fields, AnswerFields
  <2>3. CASE \E o \in {"TIMEOUT", "FAILED"}, a \in {Refused, TooMany, ServerError} :
               j = [i EXCEPT !.outcome = o, !.answer = a]
    BY <1>5, <2>1, <2>3 DEF Fields
  <2> QED BY <1>4, <2>2, <2>3
<1>7. PICK u : u = [j EXCEPT !.sent = Outgoing(c)]
  OBVIOUS
<1>8. /\ u.pc \in {"audit", "output"} /\ u.body = r.body /\ u.policy = r.policy
      /\ u.results = r.results /\ u.down = r.down /\ u.sent = Outgoing(c)
      /\ u.hit = r.hit /\ u.answer = j.answer
  BY <1>5, <1>6, <1>7 DEF Fields
<1>9. /\ ScansOf(u) = ScansOf(r) /\ OutgoingOf(u) = OutgoingOf(r) /\ Outgoing(c) = OutgoingOf(r)
      /\ Passes(r) => Passes(u)
  BY <1>1, <1>8, SameOperators DEF ScansOf, OutgoingOf, DownIn, Passes
<1>10. Screened(u)
  BY <1>1, <1>2, <1>8, <1>9 DEF Screened, Scanned, Judging, Leaving, Resolved, Passes
<1>11. req'[c] = u
  BY <1>1, <1>4, <1>7 DEF Goto
<1> QED BY <1>1, <1>2, <1>6, <1>8, <1>10, <1>11

LEMMA ScreenedStep ==
    ASSUME Inv, SettingsOK, AllScreened, [SdkNext]_vars
    PROVE  SettingsOK' /\ AllScreened'
<1>1. RequestsOK /\ TenancyOK /\ DOMAIN req = Clients
  BY DEF Inv, RequestsOK
<1>2. ASSUME UNCHANGED <<stored, override, admin>>
      PROVE  SettingsOK'
  BY <1>2 DEF SettingsOK, Sound, Numeric
<1>3. ASSUME UNCHANGED req
      PROVE  AllScreened'
  BY <1>3 DEF AllScreened
<1>4. ASSUME NEW c \in Clients, Screened(req'[c]), \E r : Goto(c, r)
      PROVE  AllScreened'
  <2>1. \A d \in Clients : d # c => req'[d] = req[d]
    BY <1>4 DEF Goto
  <2>2. \A d \in Clients : Screened(req'[d])
    BY <1>4, <2>1 DEF AllScreened
  <2> QED BY <2>2 DEF AllScreened
<1>5. ASSUME NEW c \in Clients, Serve(c)
      PROVE  SettingsOK' /\ AllScreened'
  <2>1. UNCHANGED <<stored, override, admin>>
    BY <1>5, ServeFrame
  <2>2. \E r : Goto(c, r)
    BY <1>5, ServeAdvances DEF Advances
  <2>3. Screened(req[c])
    BY DEF AllScreened
  <2>4. Screened(req'[c])
    <3>1. CASE \/ authenticate_api_key(c) \/ tenant_read(c) \/ tenant_store(c)
               \/ idem_claim(c) \/ idem_lookup(c) \/ idem_store(c)
               \/ proxy_config(c) \/ cache_miss(c) \/ provider_config_error(c)
               \/ guard_completion(c) \/ guard_proxied(c) \/ audit_scan(c) \/ audit_batch(c) \/ log_interaction(c)
               \/ ai_respond(c) \/ proxy_respond(c)
      BY <1>1, <2>3, <3>1, SameScreenSteps, ScreenCarried
    <3>2. CASE resolve_settings(c) \/ resolve_policy(c)
      <4>1. req[c].results = <<>> /\ req[c].sent = <<>>
        BY <2>3, <3>2 DEF resolve_settings, resolve_policy, At, Screened, Scanned, Judging, Leaving
      <4> QED BY <1>1, <2>3, <3>2, <4>1, ResolvedScreened
    <3>3. CASE ai_scan(c) \/ ai_scan_batch(c) \/ proxy_scan(c)
      <4>1. req[c].sent = <<>>
        BY <2>3, <3>3 DEF ai_scan, ai_scan_batch, proxy_scan, Doing, At, Screened, Scanned, Judging, Leaving
      <4> QED BY <1>1, <2>3, <3>3, <4>1, ScansScreened
    <3>4. CASE \/ llm_fails(c) \/ provider_times_out(c) \/ provider_malformed(c) \/ provider_unavailable(c)
               \/ provider_unsupported(c) \/ \E t \in Replies : call_llm(c, t) \/ chat_completions(c, t)
      BY <1>1, <2>3, <3>4, SendsScreened
    <3>5. CASE cache_hit(c)
      BY <1>1, <2>3, <3>5, HitStep
    <3> QED BY <1>5, <3>1, <3>2, <3>3, <3>4, <3>5 DEF Serve
  <2> QED BY <1>2, <1>4, <2>1, <2>2, <2>4
<1>6. CASE UNCHANGED <<stored, override, admin, req>>
  BY <1>2, <1>3, <1>6
<1>7. ASSUME NEW k \in Keys \X IdemKeys, response_expires(k)
      PROVE  SettingsOK' /\ AllScreened'
  <2>1. UNCHANGED <<stored, override, admin>>
    BY <1>7 DEF response_expires, tenancyVars
  <2>2. ASSUME NEW c \in Clients
        PROVE  Screened(req'[c])
    <3>1. PICK r : r = req[c] /\ DOMAIN r = Fields /\ Screened(r)
      BY <1>1 DEF RequestsOK, RequestOK, AllScreened
    <3>2. req'[c] \in {r, [r EXCEPT !.late = FALSE]}
      BY <1>7, <3>1 DEF response_expires
    <3>3. SameScreen(r, r) /\ SameScreen(r, [r EXCEPT !.late = FALSE])
      BY <3>1 DEF SameScreen, Fields
    <3> QED BY <3>1, <3>2, <3>3, ScreenCarried
  <2> QED BY <1>2, <2>1, <2>2 DEF AllScreened
<1>8. ASSUME NEW c \in Clients, finish(c) \/ \E k, body : rate_limit_dispatch(c, k, body)
      PROVE  SettingsOK' /\ AllScreened'
  <2>1. UNCHANGED <<stored, override, admin>>
    BY <1>8 DEF finish, rate_limit_dispatch, tenancyVars
  <2>2. PICK r : Goto(c, r) /\ r.results = <<>> /\ r.sent = <<>> /\ r.pc \in {"idle", "auth", "answered"}
    <3>1. CASE finish(c)
      BY <3>1 DEF finish, NoReq
    <3>2. ASSUME NEW k, NEW body, rate_limit_dispatch(c, k, body)
          PROVE  \E r : Goto(c, r) /\ r.results = <<>> /\ r.sent = <<>> /\ r.pc \in {"idle", "auth", "answered"}
      <4>1. PICK q : q = [NoReq EXCEPT !.pc = "auth", !.key = k, !.body = body]
        OBVIOUS
      <4>2. DOMAIN q = Fields /\ q.results = <<>> /\ q.sent = <<>> /\ q.pc = "auth"
        BY <4>1 DEF NoReq, Fields
      <4>3. PICK r : Goto(c, r) /\ r \in {q, Reject(q, TooMany), [q EXCEPT !.unmetered = TRUE]}
        BY <3>2, <4>1 DEF rate_limit_dispatch
      <4>4. r.results = <<>> /\ r.sent = <<>> /\ r.pc \in {"idle", "auth", "answered"}
        BY <4>2, <4>3 DEF Reject, Fields
      <4> QED BY <4>3, <4>4
    <3> QED BY <1>8, <3>1, <3>2
  <2>3. Screened(r)
    BY <2>2, NothingScanned DEF Resolved
  <2> QED BY <1>1, <1>2, <1>4, <2>1, <2>2, <2>3 DEF Goto
<1>9. CASE Administration /\ UNCHANGED req
  BY <1>1, <1>3, <1>9, SettingsKept
<1>10. CASE Next
  <2>1. CASE window_passes \/ (\E e \in cache : cache_expires(e)) \/ \E k \in Keys \X IdemKeys : claim_expires(k)
    BY <1>6, <2>1 DEF window_passes, cache_expires, claim_expires, tenancyVars
  <2> QED BY <1>5, <1>7, <1>9, <1>10, <2>1 DEF Next, gatewayVars, Administration
<1>11. CASE batch_start \/ interrupt \/ batch_skip \/ times_out \/ scan_interrupted
            \/ (\E n \in DOMAIN File : scan_start(n)) \/ \E i \in IdemKeys : client_scan(i)
  BY <1>6, <1>11 DEF batch_start, interrupt, batch_skip, times_out, scan_interrupted, scan_start, client_scan,
                     tenancyVars, gatewayVars
<1>12. ASSUME NEW c \in Clients, execute_request(c) \/ receive(c) \/ other_client(c)
       PROVE  SettingsOK' /\ AllScreened'
  BY <1>8, <1>12 DEF execute_request, receive, other_client
<1>13. CASE UNCHANGED vars
  BY <1>6, <1>13 DEF vars, tenancyVars, gatewayVars
<1> QED BY <1>10, <1>11, <1>12, <1>13 DEF SdkNext

LEMMA ScreenedInitially == SdkInit => SettingsOK /\ AllScreened
<1> SUFFICES ASSUME SdkInit PROVE SettingsOK /\ AllScreened
  OBVIOUS
<1>1. SettingsOK
  BY DEF SdkInit, Init, SettingsOK, Idle
<1>2. Screened(NoReq)
  BY NothingScanned DEF NoReq, Resolved
<1> QED BY <1>1, <1>2 DEF SdkInit, Init, AllScreened

\* An item that is scanned is an item, and its text is a text.
LEMMA ItemTexts ==
    ASSUME NEW b \in Bodies, NEW i \in EligibleIn(b)
    PROVE  i \in DOMAIN b.items /\ b.items[i].text \in Texts
<1>1. b.items \in Seq([text : Texts, source : STRING, role : STRING])
  BY BodyFacts
<1>2. i \in DOMAIN b.items
  BY <1>1, EligibleItems
<1>3. PICK S, q : S = [text : Texts, source : STRING, role : STRING] /\ q = b.items
  OBVIOUS
<1>4. q \in Seq(S) /\ i \in 1..Len(q)
  BY <1>1, <1>2, <1>3
<1>5. q[i] \in S
  BY <1>4
<1> QED BY <1>2, <1>3, <1>5

\* The signals of a text are what the detectors find in its views.
LEMMA SignalsAreFindings ==
    ASSUME NEW p, NEW u \in Texts, NEW s \in Signals(p, u)
    PROVE  \E k \in DOMAIN normalize(u, {}) : Finds(p, normalize(u, {})[k], s)
<1> DEFINE kept == {i \in {j \in 1..Len(Profile[u].views) : Profile[u].views[j].depth <= MaxDecodeDepth} :
                      Cardinality({j \in 1..i : Profile[u].views[j].depth <= MaxDecodeDepth}) <= MaxViews}
           V == {Profile[u].canonical} \cup {Profile[u].views[i].text : i \in kept}
           Of(v) == (IF p.rule THEN {m[2] : m \in Profile[v].rules} ELSE {})
                    \cup (IF p.ml /\ Profile[v].tfidf[1] # "BENIGN" THEN {Profile[v].tfidf[2]} ELSE {})
                    \cup (IF p.ml /\ TransformerReady /\ Profile[v].transformer[1] = "INJECTION"
                          THEN {Profile[v].transformer[2]} ELSE {})
<1>1. Signals(p, u) = UNION {Of(v) : v \in V}
  BY DEF Signals
<1>2. normalize(u, {}) = [i \in {0} \cup kept |-> IF i = 0 THEN Profile[u].canonical ELSE Profile[u].views[i].text]
  BY DEF normalize
<1>3. 0 \notin kept
  OBVIOUS
<1>4. \A v : s \in Of(v) => Finds(p, v, s)
  BY DEF Finds
<1> HIDE DEF kept, Of
<1>5. PICK v \in V : s \in Of(v)
  BY <1>1
<1>6. PICK k \in {0} \cup kept : v = IF k = 0 THEN Profile[u].canonical ELSE Profile[u].views[k].text
  BY <1>3, <1>5
<1> QED BY <1>2, <1>4, <1>5, <1>6

LEMMA FindingsAreNumbers ==
    ASSUME NEW p, NEW u \in Texts, NEW k \in DOMAIN normalize(u, {}), NEW s, Finds(p, normalize(u, {})[k], s)
    PROVE  s \in Int
<1>1. PICK x \in Texts : x = normalize(u, {})[k]
  BY Percentages, ProfileFacts DEF normalize
<1>2. /\ \A m \in Profile[x].rules : m[2] \in Int
      /\ Profile[x].tfidf[2] \in Int /\ Profile[x].transformer[2] \in Int
  <2>1. PICK R : R = Profile[x].rules /\ \A m \in R : m[2] \in 1..100
    BY Percentages
  <2>2. \A m \in R : m[2] \in Int
    BY <2>1
  <2>3. Profile[x].tfidf[2] \in 0..100 /\ Profile[x].transformer[2] \in 0..100
    BY Percentages
  <2>4. 0..100 \subseteq Int
    OBVIOUS
  <2> QED BY <2>1, <2>2, <2>3, <2>4, Zenon
<1> QED BY <1>1, <1>2, Zenon DEF Finds

LEMMA ScreenedIsSafe ==
    ASSUME RequestsOK, AllScreened
    PROVE  ProviderSeesScreened
<1> SUFFICES ASSUME NEW c \in Clients, req[c].sent # <<>>, NEW i \in Eligible(c)
             PROVE  LET p == req[c].policy
                        t == Messages(c)[i].text IN
                    /\ req[c].results[i].decision # "BLOCK"
                    /\ Down(c, i) \cap Essential(p) = {}
                    /\ pii_detect(t).score >= p.pii_sanitize => req[c].sent[i] = Profile[t].redacted
  BY DEF ProviderSeesScreened
<1>1. PICK r : r = req[c] /\ Screened(r) /\ r.sent # <<>> /\ i \in EligibleIn(r.body)
  BY SameOperators DEF AllScreened
<1>2. r.pc \in Scanned /\ Passes(r) /\ r.sent = OutgoingOf(r)
  BY <1>1 DEF Screened
<1>3. r.body \in Bodies
  BY <1>1, <1>2 DEF RequestsOK, RequestOK, Known, Scanned, Judging, Leaving
<1>4. PICK p, t, source, mode, down :
        /\ p = r.policy /\ t = r.body.items[i].text /\ source = r.body.items[i].source /\ mode = r.body.mode
        /\ down = DownIn(r, i)
  OBVIOUS
<1>5. r.results[i] = process(t, source, mode, p, down) /\ i \in DOMAIN r.results
  BY <1>1, <1>2, <1>4 DEF Passes, ScansOf
<1>6. r.results[i].decision # "BLOCK"
  BY <1>1, <1>2 DEF Passes
<1>7. i \in DOMAIN r.body.items /\ t \in Texts
  BY <1>1, <1>3, <1>4, ItemTexts
<1>8. down \cap Essential(p) = {}
  <2> SUFFICES ASSUME NEW part \in down, part \in Essential(p)
               PROVE  FALSE
    OBVIOUS
  <2>1. down = {part}
    BY <1>4 DEF DownIn
  <2>2. process(t, source, mode, p, {part}).decision = "BLOCK"
    <3>1. \/ part \in {"guard_slow", "pii", "process", "toxicity"}
          \/ p.rule /\ part = "rule"
          \/ p.ml /\ part \in {"tfidf", "ml_slow"}
          \/ p.ml /\ TransformerReady /\ part = "transformer"
      BY DEF Essential
    <3> QED BY <3>1, EssentialPartBlocks
  <2> QED BY <1>5, <1>6, <2>1, <2>2
<1>9. pii_detect(t).score >= p.pii_sanitize => r.sent[i] = Profile[t].redacted
  <2>1. Thresholded(p)
    BY <1>2, <1>4, TypedThresholds DEF Passes
  <2>2. /\ r.results[i].prompt = Profile[t].redacted
        /\ pii_detect(t).score >= p.pii_sanitize => r.results[i].rewritten \/ Profile[t].redacted = t
    BY <1>5, <1>6, <1>7, <2>1, PersonalDataRedacted
  <2>3. r.sent[i] = IF r.body.op = "execute" \/ r.results[i].rewritten THEN r.results[i].prompt ELSE t
    BY <1>2, <1>4, <1>5, <1>7 DEF OutgoingOf
  <2> QED BY <2>2, <2>3
<1>10. Down(c, i) = down /\ Messages(c)[i].text = t
  BY <1>1, <1>4, SameOperators DEF Messages
<1> QED BY <1>1, <1>4, <1>6, <1>8, <1>9, <1>10

\* The second invariant, which the first one supports, holds throughout.
LEMMA ScreenedAlways == SdkSpec => [](Inv /\ SettingsOK /\ AllScreened)
<1> DEFINE Screening == SettingsOK /\ AllScreened
<1>1. SdkInit => Screening
  BY ScreenedInitially
<1>2. Inv /\ Screening /\ [SdkNext]_vars => Screening'
  BY ScreenedStep
<1> HIDE DEF Screening
<1>3. SdkSpec => [](Inv /\ Screening)
  BY <1>1, <1>2, InvAlways, PTL DEF SdkSpec
<1> QED BY <1>3 DEF Screening

\* Nothing reaches a provider that was not scanned in full, was blocked, or
\* holds personal data the request's policy does not let through, whatever
\* part of a scan fails, whichever message decided and however the settings
\* change meanwhile (scan_items, ai_scan, proxy_scan, Outgoing).
THEOREM ScreenedReachesProvider == SdkSpec => []ProviderSeesScreened
<1>1. Inv /\ SettingsOK /\ AllScreened => ProviderSeesScreened
  BY ScreenedIsSafe DEF Inv
<1> QED BY <1>1, ScreenedAlways, PTL

LEMMA ScansDecide ==
    ASSUME RequestsOK, AllScreened
    PROVE  StrongSignalDecides
<1> SUFFICES ASSUME NEW c \in Clients, NEW i \in DOMAIN req[c].results,
                    NEW s \in Signals(req[c].policy, inspect(Messages(c)[i].text, {}).text), s >= 50,
                    Down(c, i) \cap {"normalize", "tfidf_raises", "transformer_slow"} = {},
                    pii_detect(Messages(c)[i].text).score < Min({req[c].policy.pii_sanitize, req[c].policy.pii_block})
             PROVE  /\ s >= apply_posture(req[c].policy.block, Messages(c)[i].source)
                         => req[c].results[i].decision = "BLOCK"
                    /\ s >= apply_posture(req[c].policy.sanitize, Messages(c)[i].source)
                         => req[c].results[i].decision # "ALLOW"
  BY DEF StrongSignalDecides
<1>1. PICK r : r = req[c] /\ Screened(r) /\ i \in DOMAIN r.results
  BY DEF AllScreened
<1>2. r.pc \in Scanned /\ TypedPolicy(r.policy) /\ r.results = ScansOf(r) /\ i \in EligibleIn(r.body)
  <2>1. r.results # <<>>
    BY <1>1
  <2> QED BY <1>1, <2>1 DEF Screened, ScansOf
<1>3. PICK p, t, source, mode, down :
        /\ p = r.policy /\ t = r.body.items[i].text /\ source = r.body.items[i].source /\ mode = r.body.mode
        /\ down = DownIn(r, i)
  OBVIOUS
<1>4. r.results[i] = process(t, source, mode, p, down)
  BY <1>1, <1>2, <1>3 DEF ScansOf
<1>5. t \in Texts
  BY <1>1, <1>2, <1>3, ItemTexts DEF RequestsOK, RequestOK, Known, Scanned, Judging, Leaving
<1>6. Thresholded(p)
  BY <1>2, <1>3, TypedThresholds
<1>7. (down = {} \/ \E part : down = {part}) /\ down \cap {"normalize", "tfidf_raises", "transformer_slow"} = {}
  BY <1>1, <1>3, SameOperators DEF DownIn
<1>8. pii_detect(t).score < p.pii_sanitize /\ pii_detect(t).score < p.pii_block
  <2>1. Min({p.pii_sanitize, p.pii_block}) = IF p.pii_sanitize <= p.pii_block THEN p.pii_sanitize ELSE p.pii_block
    BY <1>6, LesserOf DEF Thresholded
  <2>2. pii_detect(t).score < Min({p.pii_sanitize, p.pii_block})
    BY <1>1, <1>3 DEF Messages
  <2>3. pii_detect(t).score \in Int
    BY <1>5, PiiScores
  <2> QED BY <1>6, <2>1, <2>2, <2>3 DEF Thresholded
<1>9. PICK u : u = inspect(t, {}).text /\ u \in Texts
  BY <1>5, GuardFacts
<1>10. s \in Signals(p, u)
  BY <1>1, <1>3, <1>9 DEF Messages
<1>11. PICK k \in DOMAIN normalize(u, {}) : Finds(p, normalize(u, {})[k], s)
  BY <1>9, <1>10, SignalsAreFindings
<1>12. s \in Int
  BY <1>9, <1>11, FindingsAreNumbers
<1>13. /\ s >= apply_posture(p.block, source) => process(t, source, mode, p, down).decision = "BLOCK"
       /\ s >= apply_posture(p.sanitize, source) => process(t, source, mode, p, down).decision # "ALLOW"
  BY <1>5, <1>6, <1>7, <1>8, <1>9, <1>11, <1>12, StrongFindingDecides
<1> QED BY <1>1, <1>3, <1>4, <1>13 DEF Messages

\* No strong finding is diluted: in every request that was scanned, a finding
\* of 50 % or more in any view, from any enabled detector, leads to the verdict
\* the threshold of the request's policy and source asks for (process,
\* evaluate_views, risk_score, apply_posture, decide).
THEOREM StrongFindingsDecide == SdkSpec => []StrongSignalDecides
<1>1. Inv /\ SettingsOK /\ AllScreened => StrongSignalDecides
  BY ScansDecide DEF Inv
<1> QED BY <1>1, ScreenedAlways, PTL
-----------------------------------------------------------------------------
(* What the cache answers *)

\* The failures a stored verdict may have survived.
Harmless(fails) == {{}} \cup {{x} : x \in fails \cap Tolerated}

\* The policy, source and mode of r let text t through.
LetsThrough(fails, r, t) ==
    \E down \in Harmless(fails) :
        process(t, r.body.items[1].source, r.body.mode, r.policy, down).decision = "ALLOW"
Vouched(fails, r) ==
    \E t \in {x \in Texts : Fold[x] = Fold[r.body.items[1].text]} : LetsThrough(fails, r, t)

\* An entry is what some request was told under the policy in its key.
EntryOK(fails, e) ==
    \E r : /\ e.key = cache_key(r) /\ TypedPolicy(r.policy)
           /\ r.body.items[1].text \in Texts /\ LetsThrough(fails, r, r.body.items[1].text)

\* A single scan's verdict is that of its text, or stricter; a failure that
\* happened is one that can; a hit is backed.
VerdictOK(fails, r) ==
    /\ r.down # NoVal => r.down[2] \in fails
    /\ r.hit => r.pc \in Leaving /\ Vouched(fails, r)
    /\ r.pc \in Judging /\ r.body.op \in {"scan", "execute"} =>
          r.results = ScansOf(r) /\ (r.answer.decision = "ALLOW" => r.results[1].decision = "ALLOW")

CacheBacked ==
    /\ \A e \in cache : EntryOK(scope.fails, e)
    /\ \A c \in Clients : VerdictOK(scope.fails, req[c])

\* What scans do not read of a policy is all that its identity leaves out.
LEMMA SameIdentity ==
    ASSUME NEW p, NEW q, TypedPolicy(p), TypedPolicy(q), policy_identity(p) = policy_identity(q)
    PROVE  SameForScans(p, q)
<1>1. DOMAIN p \ {"limit", "proxy"} = DOMAIN q \ {"limit", "proxy"}
  BY DEF policy_identity
<1>2. ASSUME NEW n \in DOMAIN p \ {"limit", "proxy", "judge"}
      PROVE  p[n] = q[n]
  <2>1. policy_identity(p)[n] = p[n] /\ policy_identity(q)[n] = q[n]
    BY <1>1 DEF policy_identity
  <2> QED BY <2>1
<1>3. \A n \in PolicyNames \ {"limit"} : n \in DOMAIN p \ {"limit", "proxy", "judge"}
  BY DEF TypedPolicy, PolicyNames
<1>4. \A n \in PolicyNames \ {"limit"} : p[n] = q[n]
  BY <1>2, <1>3
<1>5. "tox_block" \in DOMAIN p <=> "tox_block" \in DOMAIN q
  BY <1>1
<1>6. "tox_block" \in DOMAIN p => p["tox_block"] = q["tox_block"]
  BY <1>2
<1> QED BY <1>4, <1>5, <1>6 DEF SameForScans, PolicyNames

\* An entry found under a request's own key backs the request.
LEMMA EntryVouches ==
    ASSUME NEW fails, NEW e, EntryOK(fails, e), NEW s, TypedPolicy(s.policy), e.key = cache_key(s)
    PROVE  Vouched(fails, s)
<1>1. PICK r : /\ e.key = cache_key(r) /\ TypedPolicy(r.policy)
               /\ r.body.items[1].text \in Texts /\ LetsThrough(fails, r, r.body.items[1].text)
  BY DEF EntryOK
<1>2. PICK t \in Texts : t = r.body.items[1].text
  BY <1>1
<1>3. /\ policy_identity(r.policy) = policy_identity(s.policy)
      /\ r.body.items[1].source = s.body.items[1].source /\ r.body.mode = s.body.mode
      /\ Fold[t] = Fold[s.body.items[1].text]
  <2>1. cache_key(r) = cache_key(s)
    BY <1>1
  <2>2. ASSUME NEW q
        PROVE  /\ cache_key(q).policy = policy_identity(q.policy) /\ cache_key(q).source = q.body.items[1].source
               /\ cache_key(q).mode = q.body.mode /\ cache_key(q).text = Fold[q.body.items[1].text]
    BY DEF cache_key
  <2> HIDE DEF cache_key
  <2> QED BY <1>2, <2>1, <2>2
<1>4. SameForScans(r.policy, s.policy)
  BY <1>1, <1>3, SameIdentity
<1>5. LetsThrough(fails, s, t)
  <2>1. PICK down \in Harmless(fails) :
          process(t, r.body.items[1].source, r.body.mode, r.policy, down).decision = "ALLOW"
    BY <1>1, <1>2 DEF LetsThrough
  <2>2. process(t, s.body.items[1].source, s.body.mode, s.policy, down).decision = "ALLOW"
    BY <1>3, <1>4, <2>1, PoliciesAlike
  <2> QED BY <2>1, <2>2 DEF LetsThrough
<1> QED BY <1>2, <1>3, <1>5 DEF Vouched

\* A single scan that ended in ALLOW may be stored.
LEMMA ScanVouches ==
    ASSUME NEW fails, NEW r, r.body \in Bodies, r.body.op \in {"scan", "execute"}, r.pc \in Judging,
           VerdictOK(fails, r), r.answer.decision = "ALLOW"
    PROVE  r.body.items[1].text \in Texts /\ LetsThrough(fails, r, r.body.items[1].text)
<1>1. r.results = ScansOf(r) /\ r.results[1].decision = "ALLOW"
  BY DEF VerdictOK
<1>2. 1 \in EligibleIn(r.body) /\ r.body.items[1].text \in Texts
  <2>1. 1 \in EligibleIn(r.body)
    BY BodyFacts DEF EligibleIn
  <2> QED BY <2>1, ItemTexts
<1>3. PICK t, source, mode, p, down :
        /\ t = r.body.items[1].text /\ source = r.body.items[1].source /\ mode = r.body.mode /\ p = r.policy
        /\ down = DownIn(r, 1)
  OBVIOUS
<1>4. process(t, source, mode, p, down).decision = "ALLOW"
  BY <1>1, <1>2, <1>3 DEF ScansOf
<1>5. down = {} \/ \E part \in fails : down = {part}
  BY <1>3 DEF DownIn, VerdictOK
<1>6. PICK d \in Harmless(fails) : process(t, source, mode, p, d).decision = "ALLOW"
  <2>1. {} \in Harmless(fails)
    BY DEF Harmless
  <2>2. CASE down = {}
    BY <1>4, <2>1, <2>2
  <2>3. ASSUME NEW part \in fails, down = {part}
        PROVE  \E d \in Harmless(fails) : process(t, source, mode, p, d).decision = "ALLOW"
    <3>1. CASE part \in Tolerated
      BY <1>4, <2>3, <3>1 DEF Harmless
    <3>2. CASE part \notin Tolerated
      BY <1>4, <2>1, <2>3, <3>2, FailureMadeNoDifference
    <3> QED BY <3>1, <3>2
  <2> QED BY <1>5, <2>2, <2>3
<1> QED BY <1>2, <1>3, <1>6 DEF LetsThrough

LEMMA VerdictCarried ==
    ASSUME NEW fails, NEW r, NEW s, VerdictOK(fails, r), SameScreen(r, s)
    PROVE  VerdictOK(fails, s)
<1>1. ScansOf(s) = ScansOf(r) /\ (Vouched(fails, r) => Vouched(fails, s))
  BY DEF SameScreen, ScansOf, DownIn, Vouched, LetsThrough
<1> QED BY <1>1 DEF SameScreen, VerdictOK

\* One item decides by itself.
LEMMA SingleVerdict ==
    ASSUME NEW results, DOMAIN results = {1}, results[1].decision \in Decisions
    PROVE  Strictest(results) = results[1].decision
<1>1. PICK v \in Decisions : v = results[1].decision
  OBVIOUS
<1>2. \A d \in Decisions : Rank[d] \in Int
  BY DEF Rank, Decisions
<1>3. ASSUME NEW d \in Decisions
      PROVE  (/\ \E j \in DOMAIN results : results[j].decision = d
              /\ \A j \in DOMAIN results : Rank[results[j].decision] <= Rank[d]) <=> d = v
  BY <1>1, <1>2
<1>4. Strictest(results) = CHOOSE d \in Decisions : d = v
  BY <1>3, Zenon DEF Strictest
<1> QED BY <1>1, <1>4

\* The step that answers from the cache, or fails to audit the answer.
LEMMA HitBacked ==
    ASSUME RequestsOK, NEW c \in Clients, Screened(req[c]), NEW fails, VerdictOK(fails, req[c]),
           \A e \in cache : EntryOK(fails, e), cache_hit(c)
    PROVE  VerdictOK(fails, req'[c])
<1>1. PICK r : r = req[c] /\ r.pc = "cache" /\ TypedPolicy(r.policy) /\ VerdictOK(fails, r)
  BY DEF cache_hit, At, Screened, Resolved
<1>2. PICK s : s = req'[c] /\ s.pc = "store" /\ s.body = r.body /\ s.policy = r.policy /\ s.down = r.down
  BY <1>1, HitStep
<1>3. PICK e \in cache : e.key = cache_key(r)
  BY <1>1 DEF cache_hit
<1>4. e.key = cache_key(s)
  BY <1>2, <1>3 DEF cache_key
<1>5. Vouched(fails, s)
  BY <1>1, <1>2, <1>4, EntryVouches
<1> QED BY <1>1, <1>2, <1>5 DEF VerdictOK, Leaving, Judging

\* The steps that serve a request.
LEMMA ServeBacked ==
    ASSUME RequestsOK, SettingsOK, NEW c \in Clients, Screened(req[c]), VerdictOK(scope.fails, req[c]),
           \A e \in cache : EntryOK(scope.fails, e), Serve(c)
    PROVE  VerdictOK(scope.fails, req'[c])
<1>1. PICK fails : fails = scope.fails
  OBVIOUS
<1>2. CASE \/ authenticate_api_key(c) \/ tenant_read(c) \/ tenant_store(c)
           \/ idem_claim(c) \/ idem_lookup(c) \/ idem_store(c)
           \/ proxy_config(c) \/ cache_miss(c) \/ provider_config_error(c)
           \/ guard_completion(c) \/ guard_proxied(c) \/ audit_scan(c) \/ audit_batch(c) \/ log_interaction(c)
           \/ ai_respond(c) \/ proxy_respond(c)
  BY <1>2, SameScreenSteps, VerdictCarried
<1>3. CASE resolve_settings(c) \/ resolve_policy(c)
  <2>1. PICK r : r = req[c] /\ r.pc \in {"handler", "overrides"} /\ Screened(r) /\ VerdictOK(fails, r)
    BY <1>1, <1>3 DEF resolve_settings, resolve_policy, At
  <2>2. r.results = <<>> /\ r.sent = <<>> /\ ~r.hit
    BY <2>1 DEF Screened, VerdictOK, Scanned, Judging, Leaving
  <2>3. PICK s : s = req'[c] /\ s.hit = r.hit /\ s.down = r.down /\ s.pc \notin Judging
    BY <1>3, <2>1, <2>2, ResolvedScreened
  <2> QED BY <1>1, <2>1, <2>2, <2>3 DEF VerdictOK
<1>4. CASE ai_scan(c) \/ ai_scan_batch(c) \/ proxy_scan(c)
  <2>1. PICK r : r = req[c] /\ r.pc = "scan" /\ r.body \in Bodies /\ Screened(r) /\ VerdictOK(fails, r)
    BY <1>1, <1>4 DEF ai_scan, ai_scan_batch, proxy_scan, Doing, At, RequestsOK, RequestOK, Known
  <2>2. r.sent = <<>> /\ ~r.hit
    BY <2>1 DEF Screened, VerdictOK, Scanned, Judging, Leaving
  <2>3. PICK s : /\ s = req'[c] /\ s.hit = r.hit /\ s.body = r.body /\ s.results = ScansOf(s)
                 /\ s.answer.decision = Strictest(s.results) /\ (s.down # NoVal => s.down[2] \in fails)
    BY <1>1, <1>4, <2>1, <2>2, ScansScreened
  <2>4. s.body.op \in {"scan", "execute"} => s.answer.decision = s.results[1].decision
    <3> SUFFICES ASSUME s.body.op \in {"scan", "execute"}
                 PROVE  s.answer.decision = s.results[1].decision
      OBVIOUS
    <3>1. EligibleIn(s.body) = {1}
      BY <2>1, <2>3, BodyFacts DEF EligibleIn
    <3>2. PICK rs : rs = s.results /\ rs = ScansOf(s)
      BY <2>3
    <3>3. DOMAIN rs = {1} /\ rs[1].decision \in Decisions
      BY <3>1, <3>2, ThreeVerdicts DEF ScansOf, Decisions
    <3> QED BY <2>3, <3>2, <3>3, SingleVerdict
  <2> QED BY <1>1, <2>2, <2>3, <2>4 DEF VerdictOK
<1>5. CASE \/ llm_fails(c) \/ provider_times_out(c) \/ provider_malformed(c) \/ provider_unavailable(c)
           \/ provider_unsupported(c) \/ \E t \in Replies : call_llm(c, t) \/ chat_completions(c, t)
  <2>1. PICK r : r = req[c] /\ VerdictOK(fails, r)
    BY <1>1
  <2>2. PICK s : /\ s = req'[c]
                 /\ r.pc = "provider" /\ s.hit = r.hit /\ s.body = r.body /\ s.policy = r.policy
                 /\ s.results = r.results /\ s.down = r.down
                 /\ s.answer.decision \in {r.answer.decision, "none"}
    BY <1>5, <2>1, SendsScreened
  <2>3. ScansOf(s) = ScansOf(r) /\ ~s.hit
    BY <2>1, <2>2 DEF ScansOf, DownIn, VerdictOK, Leaving
  <2> QED BY <1>1, <2>1, <2>2, <2>3 DEF VerdictOK, Judging
<1>6. CASE cache_hit(c)
  BY <1>6, HitBacked
<1> QED BY <1>2, <1>3, <1>4, <1>5, <1>6 DEF Serve

\* What ai_respond puts into the cache.
LEMMA StoredBacked ==
    ASSUME RequestsOK, NEW c \in Clients, Screened(req[c]), NEW fails, VerdictOK(fails, req[c]), ai_respond(c)
    PROVE  cache' \subseteq cache \cup {e \in cache' : EntryOK(fails, e)}
<1>1. PICK r : /\ r = req[c] /\ r.pc = "respond" /\ r.body \in Bodies /\ r.body.op \in {"scan", "execute"}
               /\ TypedPolicy(r.policy) /\ VerdictOK(fails, r)
  BY DEF ai_respond, Doing, At, Op, Screened, Resolved, RequestsOK, RequestOK, Known
<1>2. PICK a : a = build_response(r.answer.decision, r.answer.output, r.results)
  OBVIOUS
<1>3. a.decision = r.answer.decision
  BY <1>2 DEF build_response
<1>4. PICK new : new = [key |-> cache_key(r), answer |-> a]
  OBVIOUS
<1>5. cache' \subseteq cache \/ (cache' \subseteq cache \cup {new} /\ a.decision = "ALLOW")
  BY <1>1, <1>2, <1>4 DEF ai_respond, MayCache
<1>6. a.decision = "ALLOW" => EntryOK(fails, new)
  <2>1. new.key = cache_key(r)
    BY <1>4
  <2>2. a.decision = "ALLOW" => r.body.items[1].text \in Texts /\ LetsThrough(fails, r, r.body.items[1].text)
    BY <1>1, <1>3, ScanVouches DEF Judging
  <2> QED BY <1>1, <2>1, <2>2 DEF EntryOK
<1> QED BY <1>5, <1>6

LEMMA BackedStep ==
    ASSUME Inv, SettingsOK, AllScreened, CacheBacked, [SdkNext]_vars
    PROVE  CacheBacked'
<1>1. RequestsOK /\ DOMAIN req = Clients
  BY DEF Inv, RequestsOK
<1>2. PICK fails : fails = scope.fails
  OBVIOUS
<1>3. /\ \A e \in cache : EntryOK(fails, e)
      /\ \A c \in Clients : VerdictOK(fails, req[c]) /\ Screened(req[c])
  BY <1>2 DEF CacheBacked, AllScreened
<1>4. ASSUME scope' = scope, \A e \in cache' : EntryOK(fails, e), \A c \in Clients : VerdictOK(fails, req'[c])
      PROVE  CacheBacked'
  BY <1>2, <1>4 DEF CacheBacked
<1>5. ASSUME scope' = scope, req' = req, cache' \subseteq cache
      PROVE  CacheBacked'
  BY <1>3, <1>4, <1>5
<1>6. ASSUME NEW c \in Clients, \E r : Goto(c, r), VerdictOK(fails, req'[c]), scope' = scope,
             \A e \in cache' : EntryOK(fails, e)
      PROVE  CacheBacked'
  <2>1. \A d \in Clients : d # c => req'[d] = req[d]
    BY <1>6 DEF Goto
  <2>2. \A d \in Clients : VerdictOK(fails, req'[d])
    BY <1>3, <1>6, <2>1
  <2> QED BY <1>4, <1>6, <2>2
<1>7. ASSUME NEW c \in Clients, Serve(c)
      PROVE  CacheBacked'
  <2>1. scope' = scope /\ (UNCHANGED cache \/ ai_respond(c))
    BY <1>7, ServeFrame
  <2>2. \E r : Goto(c, r)
    BY <1>7, ServeAdvances DEF Advances
  <2>3. VerdictOK(fails, req'[c])
    BY <1>1, <1>2, <1>3, <1>7, ServeBacked
  <2>4. \A e \in cache' : EntryOK(fails, e)
    <3>1. CASE ai_respond(c)
      <4>1. cache' \subseteq cache \cup {e \in cache' : EntryOK(fails, e)}
        BY <1>1, <1>3, <3>1, StoredBacked
      <4> QED BY <1>3, <4>1
    <3> QED BY <1>3, <2>1, <3>1
  <2> QED BY <1>6, <2>1, <2>2, <2>3, <2>4
<1>8. ASSUME NEW k \in Keys \X IdemKeys, response_expires(k)
      PROVE  CacheBacked'
  <2>1. scope' = scope /\ cache' = cache
    BY <1>8 DEF response_expires
  <2>2. ASSUME NEW c \in Clients
        PROVE  VerdictOK(fails, req'[c])
    <3>1. PICK r : r = req[c] /\ DOMAIN r = Fields /\ VerdictOK(fails, r)
      BY <1>1, <1>3 DEF RequestsOK, RequestOK
    <3>2. req'[c] \in {r, [r EXCEPT !.late = FALSE]}
      BY <1>8, <3>1 DEF response_expires
    <3>3. SameScreen(r, r) /\ SameScreen(r, [r EXCEPT !.late = FALSE])
      BY <3>1 DEF SameScreen, Fields
    <3> QED BY <3>1, <3>2, <3>3, VerdictCarried
  <2> QED BY <1>3, <1>4, <2>1, <2>2
<1>9. ASSUME NEW c \in Clients, finish(c) \/ \E k, body : rate_limit_dispatch(c, k, body)
      PROVE  CacheBacked'
  <2>1. scope' = scope /\ cache' = cache
    BY <1>9 DEF finish, rate_limit_dispatch
  <2>2. PICK r : Goto(c, r) /\ r.down = NoVal /\ ~r.hit /\ r.pc \in {"idle", "auth", "answered"}
    <3>1. CASE finish(c)
      BY <3>1 DEF finish, NoReq
    <3>2. ASSUME NEW k, NEW body, rate_limit_dispatch(c, k, body)
          PROVE  \E r : Goto(c, r) /\ r.down = NoVal /\ ~r.hit /\ r.pc \in {"idle", "auth", "answered"}
      <4>1. PICK q : q = [NoReq EXCEPT !.pc = "auth", !.key = k, !.body = body]
        OBVIOUS
      <4>2. DOMAIN q = Fields /\ q.down = NoVal /\ ~q.hit /\ q.pc = "auth"
        BY <4>1 DEF NoReq, Fields
      <4>3. PICK r : Goto(c, r) /\ r \in {q, Reject(q, TooMany), [q EXCEPT !.unmetered = TRUE]}
        BY <3>2, <4>1 DEF rate_limit_dispatch
      <4>4. r.down = NoVal /\ ~r.hit /\ r.pc \in {"idle", "auth", "answered"}
        BY <4>2, <4>3 DEF Reject, Fields
      <4> QED BY <4>3, <4>4
    <3> QED BY <1>9, <3>1, <3>2
  <2>3. VerdictOK(fails, r)
    BY <2>2 DEF VerdictOK, Judging
  <2> QED BY <1>1, <1>3, <1>6, <2>1, <2>2, <2>3 DEF Goto
<1>10. CASE Next
  <2>1. CASE window_passes \/ \E k \in Keys \X IdemKeys : claim_expires(k)
    BY <1>5, <2>1 DEF window_passes, claim_expires
  <2>2. CASE \E e \in cache : cache_expires(e)
    BY <1>5, <2>2 DEF cache_expires
  <2> QED BY <1>5, <1>7, <1>8, <1>10, <2>1, <2>2 DEF Next, gatewayVars
<1>11. CASE batch_start \/ interrupt \/ batch_skip \/ times_out \/ scan_interrupted
            \/ (\E n \in DOMAIN File : scan_start(n)) \/ \E i \in IdemKeys : client_scan(i)
  BY <1>5, <1>11 DEF batch_start, interrupt, batch_skip, times_out, scan_interrupted, scan_start, client_scan,
                     gatewayVars
<1>12. ASSUME NEW c \in Clients, execute_request(c) \/ receive(c) \/ other_client(c)
       PROVE  CacheBacked'
  BY <1>9, <1>12 DEF execute_request, receive, other_client
<1>13. CASE UNCHANGED vars
  BY <1>5, <1>13 DEF vars, gatewayVars
<1> QED BY <1>10, <1>11, <1>12, <1>13 DEF SdkNext

\* What the cache answers, the request's own policy would have allowed: the key
\* of an entry holds all that a scan reads of a policy, the entry was stored by
\* a request whose scan ended in ALLOW under that key, and a failure that
\* request survived is one of the tolerated (cache_key, policy_identity,
\* ai_respond, cache_hit).
THEOREM CacheAnswersBacked == SdkSpec => []CacheMatchesPolicy
<1>1. SdkInit => CacheBacked
  <2>1. \A fails : VerdictOK(fails, NoReq)
    BY DEF VerdictOK, NoReq, Judging
  <2> QED BY <2>1 DEF SdkInit, Init, CacheBacked
<1>2. Inv /\ SettingsOK /\ AllScreened /\ CacheBacked /\ [SdkNext]_vars => CacheBacked'
  BY BackedStep
<1>3. CacheBacked => CacheMatchesPolicy
  <2> SUFFICES ASSUME NEW c \in Clients, VerdictOK(scope.fails, req[c]), req[c].hit
               PROVE  LET item == Messages(c)[1]
                          tolerated == scope.fails \cap {"normalize", "tfidf_raises", "transformer_slow", "llm_empty"} IN
                      \E t \in {x \in Texts : Fold[x] = Fold[item.text]}, down \in {{}} \cup {{x} : x \in tolerated} :
                          process(t, item.source, req[c].body.mode, req[c].policy, down).decision = "ALLOW"
    BY DEF CacheBacked, CacheMatchesPolicy
  <2>1. Vouched(scope.fails, req[c])
    BY DEF VerdictOK
  <2> QED BY <2>1, Zenon DEF Vouched, LetsThrough, Harmless, Tolerated, Messages
<1> QED BY <1>1, <1>2, <1>3, ScreenedAlways, PTL DEF SdkSpec
-----------------------------------------------------------------------------
(* What is on record *)

\* Before its scans a request has recorded and said nothing.
Silent(r) ==
    /\ r.audited = <<>> /\ r.events = 0 /\ r.outcome = NoVal /\ r.answer = NoAnswer
    /\ ~r.hit /\ r.replay = NoIdem
Coming(r) ==
    r.pc \notin Scanned =>
        /\ Silent(r)
        /\ r.pc = "cache" => r.body.op \in {"scan", "execute"}
        /\ r.pc = "config" => r.body.op = "proxy"
        /\ r.pc = "scan" => EligibleIn(r.body) # {}

\* Then it knows its verdict, and a proxy call how it ended.
Knows(r) ==
    /\ r.body.op # "proxy" => r.outcome = NoVal
    /\ r.body.op = "proxy" => r.events = 1
    /\ r.body.op \in {"scan", "execute"} => r.answer.decision \in Decisions
    /\ r.body.op \in {"scan", "batch"} => r.answer.decision = Strictest(r.results)
Ahead(r) ==
    /\ r.outcome = NoVal /\ r.answer.kind = "none" /\ r.answer.decision = Strictest(r.results)
    /\ r.pc = "provider" => r.answer.output = NoVal
    /\ r.pc = "output" => r.answer.output \in Texts
Ended(r) ==
    /\ r.outcome \in Outcomes
    /\ r.outcome \in {"BLOCKED", "SUCCESS"} => r.answer.decision = Strictest(r.results)
    /\ r.outcome \in {"TIMEOUT", "FAILED"} => r.answer.kind \in {"refused", "limited", "error"}
    /\ r.outcome = "SUCCESS" <=> r.answer.output # NoVal
Recorded(f, r) ==
    /\ r.body.op \in {"scan", "execute"} =>
          DOMAIN r.audited = {1} /\ r.audited[1].decision = r.answer.decision /\ r.events = 1
    /\ r.body.op = "proxy" =>
          \/ r.audited = <<>> /\ f > 0
          \/ /\ DOMAIN r.audited = DOMAIN r.results /\ r.logged = r.outcome
             /\ \A i \in DOMAIN r.results : r.audited[i].decision = r.results[i].decision
Going(f, r) ==
    r.pc \in Judging =>
        /\ r.results = ScansOf(r) /\ EligibleIn(r.body) # {} /\ ~r.hit /\ r.replay = NoIdem /\ Knows(r)
        /\ r.pc # "respond" => r.audited = <<>>
        /\ r.pc \in {"provider", "output"} => Ahead(r)
        /\ r.pc \in {"audit", "respond"} /\ r.body.op = "proxy" => Ended(r)
        /\ r.pc = "respond" => Recorded(f, r)

\* At the end the rows are there, as many as scans, and say what was told.
Told(r) == r.answer.kind = "verdict" \/ (r.sent # <<>> /\ r.body.op = "proxy")
Proven(f, r) ==
    LET proxied == r.body.op = "proxy"
        scans == IF r.hit THEN {1} ELSE EligibleIn(r.body) IN
    /\ scans # {} /\ (~r.hit => DOMAIN r.results = scans)
    /\ DOMAIN r.audited = scans \/ (proxied /\ r.audited = <<>> /\ f > 0)
    /\ r.events = IF proxied THEN 1 ELSE Cardinality(scans)
    /\ r.audited # <<>> /\ r.answer.kind = "verdict" =>
          Strictest(r.audited) = r.answer.decision \/ r.outcome = "OUTPUT_BLOCKED"
    /\ proxied /\ r.audited # <<>> => r.logged = r.outcome
    /\ r.answer # Lost => (r.outcome = "SUCCESS" <=> proxied /\ r.answer.output # NoVal)
Gone(f, r) == r.pc \in Leaving /\ r.replay = NoIdem /\ Told(r) => Proven(f, r)

Noted(f, r) == Coming(r) /\ Going(f, r) /\ Gone(f, r)

OnRecord ==
    /\ faults \in Nat
    /\ \A e \in cache : e.answer.decision = "ALLOW"
    /\ \A c \in Clients : Noted(faults, req[c])

LEMMA NoTextLikeNone == NoVal \notin Texts \cup Outcomes
  BY GatewayAssumption DEF GatewayAssumption

\* A strictest verdict depends on the verdicts alone.
LEMMA SameStrictest ==
    ASSUME NEW xs, NEW ys, DOMAIN xs = DOMAIN ys, \A i \in DOMAIN xs : xs[i].decision = ys[i].decision
    PROVE  Strictest(xs) = Strictest(ys)
<1>1. ASSUME NEW d
      PROVE  (/\ \E j \in DOMAIN xs : xs[j].decision = d
              /\ \A j \in DOMAIN xs : Rank[xs[j].decision] <= Rank[d])
             <=> (/\ \E j \in DOMAIN ys : ys[j].decision = d
                  /\ \A j \in DOMAIN ys : Rank[ys[j].decision] <= Rank[d])
  <2>1. ASSUME NEW j \in DOMAIN xs
        PROVE  Rank[xs[j].decision] = Rank[ys[j].decision]
    OBVIOUS
  <2> QED BY <2>1
<1> QED BY <1>1, ZenonT(60) DEF Strictest

\* Every endpoint but the proxy scans all the items it is given, at least one.
LEMMA AllEligible ==
    ASSUME NEW b \in Bodies, b.op # "proxy"
    PROVE  /\ EligibleIn(b) = 1..Len(b.items) /\ Len(b.items) \in Nat \ {0}
           /\ b.op \in {"scan", "execute"} => EligibleIn(b) = {1}
<1>1. b.items \in Seq([text : Texts, source : STRING, role : STRING])
  BY BodyFacts
<1>2. b.op \in {"scan", "execute", "batch"}
  BY BodyFacts
<1>3. b.op \in {"scan", "execute"} => Len(b.items) = 1
  BY BodyFacts
<1>4. b.op = "batch" => b.items # <<>>
  BY BodyFacts
<1>5. EligibleIn(b) = 1..Len(b.items)
  BY <1>1 DEF EligibleIn
<1>6. PICK n \in Nat : n = Len(b.items) /\ (b.items # <<>> => n # 0)
  BY <1>1
<1>7. n # 0 /\ (b.op \in {"scan", "execute"} => n = 1)
  BY <1>2, <1>3, <1>4, <1>6
<1>8. n = 1 => 1..n = {1}
  OBVIOUS
<1> QED BY <1>5, <1>6, <1>7, <1>8

\* An answer without a verdict owes nothing, unless a proxy call was sent.
LEMMA TurnedAway ==
    ASSUME NEW f, NEW s, s.pc \in Leaving, s.answer.kind # "verdict", s.sent = <<>> \/ s.body.op # "proxy"
    PROVE  Noted(f, s)
  BY DEF Noted, Coming, Going, Gone, Told, Leaving, Judging, Scanned

\* A failure that has happened has happened.
LEMMA NotedLater ==
    ASSUME NEW f \in Nat, NEW g \in Nat, f <= g, NEW r, Noted(f, r)
    PROVE  Noted(g, r)
<1>1. f > 0 => g > 0
  OBVIOUS
<1> QED BY <1>1 DEF Noted, Going, Gone, Recorded, Proven

\* What no step before the scans touches.
Waits(r, s) ==
    /\ s.audited = r.audited /\ s.events = r.events /\ s.outcome = r.outcome /\ s.answer = r.answer
    /\ s.hit = r.hit /\ s.replay = r.replay /\ s.body = r.body
    /\ s.pc \notin Scanned
LEMMA NotedWaits ==
    ASSUME NEW f, NEW r, NEW s, Noted(f, r), r.pc \notin Scanned, Waits(r, s),
           s.pc = "cache" => s.body.op \in {"scan", "execute"}, s.pc = "config" => s.body.op = "proxy",
           s.pc = "scan" => EligibleIn(s.body) # {}
    PROVE  Noted(f, s)
  BY DEF Noted, Coming, Going, Gone, Waits, Silent, Scanned

\* Up to the handler.
LEMMA EntryNoted ==
    ASSUME RequestsOK, NEW c \in Clients, Screened(req[c]), NEW f, Noted(f, req[c]),
           \/ authenticate_api_key(c) \/ tenant_read(c) \/ tenant_store(c) \/ idem_claim(c) \/ idem_lookup(c)
    PROVE  Noted(f, req'[c])
<1>1. PICK r : r = req[c] /\ DOMAIN r = Fields /\ DOMAIN req = Clients /\ Screened(r) /\ Noted(f, r)
  BY DEF RequestsOK, RequestOK
<1>2. r.pc \in {"auth", "tenant", "tenant_store", "idem", "lookup"} /\ r.pc \notin Scanned
  <2>1. r.pc \in {"auth", "tenant", "tenant_store", "idem", "lookup"}
    BY <1>1 DEF authenticate_api_key, tenant_read, tenant_store, idem_claim, idem_lookup, At
  <2> QED BY <2>1 DEF Scanned, Judging, Leaving
<1>3. r.sent = <<>>
  BY <1>1, <1>2 DEF Screened
<1>4. ASSUME NEW s, Goto(c, s), Noted(f, s)
      PROVE  Noted(f, req'[c])
  BY <1>1, <1>4 DEF Goto
<1>5. ASSUME NEW s, NEW q, s = Reject(q, Refused), q.sent = <<>>, DOMAIN q = Fields
      PROVE  Noted(f, s)
  <2>1. s.pc = "answered" /\ s.answer = Refused /\ s.sent = <<>>
    BY <1>5 DEF Reject, Fields
  <2> QED BY <2>1, TurnedAway, Shapes DEF Leaving
<1>6. ASSUME NEW s, Waits(r, s), s.pc \in {"tenant", "tenant_store", "idem", "lookup", "handler"}
      PROVE  Noted(f, s)
  BY <1>1, <1>2, <1>6, NotedWaits
<1>7. CASE authenticate_api_key(c)
  <2>1. PICK q : q = [r EXCEPT !.row = keys[r.key]]
    OBVIOUS
  <2>2. PICK s : Goto(c, s) /\ \/ s = Reject(r, Refused) \/ s = Reject(q, Refused)
                               \/ s = [q EXCEPT !.pc = "tenant"] \/ s = [q EXCEPT !.pc = "idem"]
    BY <1>1, <1>7, <2>1 DEF authenticate_api_key
  <2>3. Waits(r, [q EXCEPT !.pc = "tenant"]) /\ Waits(r, [q EXCEPT !.pc = "idem"]) /\ q.sent = <<>> /\ DOMAIN q = Fields
        /\ [q EXCEPT !.pc = "tenant"].pc = "tenant" /\ [q EXCEPT !.pc = "idem"].pc = "idem"
    BY <1>1, <1>3, <2>1 DEF Waits, Fields, Scanned, Judging, Leaving
  <2> QED BY <1>1, <1>3, <1>4, <1>5, <1>6, <2>2, <2>3
<1>8. CASE tenant_read(c)
  <2>1. PICK s : Goto(c, s) /\ ((\E x : s = [r EXCEPT !.pc = "tenant_store", !.status = x]) \/ s = Reject(r, Refused))
    BY <1>1, <1>8 DEF tenant_read
  <2>2. CASE \E x : s = [r EXCEPT !.pc = "tenant_store", !.status = x]
    <3>1. Waits(r, s) /\ s.pc = "tenant_store"
      BY <1>1, <2>2 DEF Waits, Fields, Scanned, Judging, Leaving
    <3> QED BY <1>4, <1>6, <2>1, <3>1
  <2> QED BY <1>1, <1>3, <1>4, <1>5, <2>1, <2>2
<1>9. CASE tenant_store(c)
  <2>1. PICK s : Goto(c, s) /\ (s = [r EXCEPT !.pc = "idem"] \/ s = Reject(r, Refused))
    BY <1>1, <1>9 DEF tenant_store, Step
  <2>2. CASE s = [r EXCEPT !.pc = "idem"]
    <3>1. Waits(r, s) /\ s.pc = "idem"
      BY <1>1, <2>2 DEF Waits, Fields, Scanned, Judging, Leaving
    <3> QED BY <1>4, <1>6, <2>1, <3>1
  <2> QED BY <1>1, <1>3, <1>4, <1>5, <2>1, <2>2
<1>10. CASE idem_claim(c)
  <2>1. PICK s : Goto(c, s) /\ \/ s = [r EXCEPT !.pc = "handler"]
                               \/ \E b : s = [[r EXCEPT !.pc = "lookup"] EXCEPT !.late = b]
    BY <1>1, <1>10 DEF idem_claim, Step
  <2>2. Waits(r, s) /\ s.pc \in {"lookup", "handler"}
    BY <1>1, <2>1 DEF Waits, Fields, Scanned, Judging, Leaving
  <2> QED BY <1>4, <1>6, <2>1, <2>2
<1>11. CASE idem_lookup(c)
  <2>1. PICK held : held = idem[Slot(c)]
    OBVIOUS
  <2>2. PICK s : Goto(c, s) /\ \/ s = Reject(r, Refused)
                               \/ /\ s = [r EXCEPT !.pc = "answered", !.answer = held.answer, !.replay = held]
                                  /\ held.answer # NoAnswer
                               \/ s = [r EXCEPT !.pc = "handler"]
    BY <1>1, <1>11, <2>1 DEF idem_lookup, Step
  <2>3. CASE s = [r EXCEPT !.pc = "answered", !.answer = held.answer, !.replay = held] /\ held.answer # NoAnswer
    <3>1. s.pc = "answered" /\ s.replay # NoIdem
      BY <1>1, <2>3, Shapes DEF Fields
    <3> QED BY <1>4, <2>2, <3>1 DEF Noted, Coming, Going, Gone, Scanned, Judging, Leaving
  <2>4. CASE s = [r EXCEPT !.pc = "handler"]
    <3>1. Waits(r, s) /\ s.pc = "handler"
      BY <1>1, <2>4 DEF Waits, Fields, Scanned, Judging, Leaving
    <3> QED BY <1>4, <1>6, <2>2, <3>1
  <2> QED BY <1>1, <1>3, <1>4, <1>5, <2>2, <2>3, <2>4
<1> QED BY <1>7, <1>8, <1>9, <1>10, <1>11

\* The policy, the provider's configuration and the miss of the cache.
LEMMA PolicyNoted ==
    ASSUME RequestsOK, NEW c \in Clients, Screened(req[c]), NEW f, Noted(f, req[c]),
           resolve_settings(c) \/ resolve_policy(c) \/ proxy_config(c) \/ cache_miss(c)
    PROVE  Noted(f, req'[c])
<1>1. PICK r : r = req[c] /\ DOMAIN r = Fields /\ DOMAIN req = Clients /\ Screened(r) /\ Noted(f, r)
  BY DEF RequestsOK, RequestOK
<1>2. r.pc \in {"handler", "overrides", "config", "cache"} /\ r.pc \notin Scanned /\ r.body \in Bodies
  <2>1. r.pc \in {"handler", "overrides", "config", "cache"}
    BY <1>1 DEF resolve_settings, resolve_policy, proxy_config, cache_miss, At
  <2>2. r.body \in Bodies
    BY <1>1, <2>1 DEF RequestsOK, RequestOK, Known
  <2> QED BY <2>1, <2>2 DEF Scanned, Judging, Leaving
<1>3. r.sent = <<>>
  BY <1>1, <1>2 DEF Screened
<1>4. ASSUME NEW s, Goto(c, s), Noted(f, s)
      PROVE  Noted(f, req'[c])
  BY <1>1, <1>4 DEF Goto
<1>5. ASSUME NEW s, NEW a \in {Refused, TooMany, ServerError}, NEW p, Goto(c, s),
             s = Answer(r, a) \/ s = Answer([r EXCEPT !.policy = p], a)
      PROVE  Noted(f, req'[c])
  <2>1. s.pc = "store" /\ s.answer = a /\ s.sent = <<>>
    BY <1>1, <1>3, <1>5 DEF Answer, Fields
  <2>2. a.kind # "verdict"
    BY <1>5, Shapes
  <2> QED BY <1>4, <1>5, <2>1, <2>2, TurnedAway DEF Leaving
<1>6. ASSUME NEW s, Goto(c, s), Waits(r, s), s.pc = "cache" => s.body.op \in {"scan", "execute"},
             s.pc = "config" => s.body.op = "proxy", s.pc = "scan" => EligibleIn(s.body) # {}
      PROVE  Noted(f, req'[c])
  BY <1>1, <1>2, <1>4, <1>6, NotedWaits
<1>7. CASE resolve_settings(c)
  <2>1. PICK p : p = tenant_policy
    OBVIOUS
  <2>2. PICK s : Goto(c, s) /\ \/ \E a \in {Refused, TooMany, ServerError} : s = Answer(r, a)
                               \/ \E b : s = [[r EXCEPT !.pc = "overrides"] EXCEPT !.policy = p, !.unmetered = @ \/ b]
    BY <1>1, <1>7, <2>1 DEF resolve_settings, Step
  <2>3. CASE \E b : s = [[r EXCEPT !.pc = "overrides"] EXCEPT !.policy = p, !.unmetered = @ \/ b]
    <3>1. Waits(r, s) /\ s.pc = "overrides"
      BY <1>1, <2>3 DEF Waits, Fields, Scanned, Judging, Leaving
    <3> QED BY <1>6, <2>2, <3>1
  <2> QED BY <1>5, <2>2, <2>3
<1>8. CASE resolve_policy(c)
  <2> DEFINE dept == level_policy(r.policy, "dept")
  <2>1. PICK p : p = valid_policy(IF r.row.app THEN level_policy(dept, "app") ELSE dept)
    OBVIOUS
  <2>2. PICK after : after = CASE r.body.op = "batch" -> "scan" [] r.body.op = "proxy" -> "config" [] OTHER -> "cache"
    OBVIOUS
  <2>3. PICK s : Goto(c, s) /\ \/ s = Answer(r, ServerError)
                               \/ s = Answer([r EXCEPT !.policy = p], Refused)
                               \/ s = [[r EXCEPT !.policy = p] EXCEPT !.pc = after]
    BY <1>1, <1>8, <2>1, <2>2 DEF resolve_policy, Op
  <2>4. CASE s = [[r EXCEPT !.policy = p] EXCEPT !.pc = after]
    <3>1. r.body.op \in {"scan", "execute", "batch", "proxy"}
      BY <1>2, BodyFacts
    <3>2. after \in {"scan", "config", "cache"}
      BY <2>2
    <3>3. Waits(r, s) /\ s.pc = after /\ s.body = r.body
      BY <1>1, <2>4, <3>2 DEF Waits, Fields, Scanned, Judging, Leaving
    <3>4. after = "scan" => EligibleIn(r.body) # {}
      <4>1. after = "scan" => r.body.op = "batch"
        BY <2>2
      <4>2. r.body.op = "batch" => EligibleIn(r.body) = 1..Len(r.body.items) /\ Len(r.body.items) \in Nat \ {0}
        BY <1>2, AllEligible
      <4>3. \A n \in Nat \ {0} : 1 \in 1..n
        OBVIOUS
      <4> QED BY <4>1, <4>2, <4>3
    <3>5. (after = "cache" => r.body.op \in {"scan", "execute"}) /\ (after = "config" => r.body.op = "proxy")
      BY <2>2, <3>1
    <3> QED BY <1>6, <2>3, <3>3, <3>4, <3>5
  <2> QED BY <1>5, <2>3, <2>4
<1>9. CASE proxy_config(c)
  <2>1. PICK target : target = proxy_provider(c)
    OBVIOUS
  <2>2. PICK s : Goto(c, s) /\ \/ \E a \in {Refused, TooMany} : s = Answer(r, a)
                               \/ /\ \E b : s = [[r EXCEPT !.pc = "scan"] EXCEPT !.target = target, !.unmetered = @ \/ b]
                                  /\ Cardinality(Eligible(c)) # 0
    BY <1>1, <1>9, <2>1 DEF proxy_config, Step
  <2>3. CASE /\ \E b : s = [[r EXCEPT !.pc = "scan"] EXCEPT !.target = target, !.unmetered = @ \/ b]
             /\ Cardinality(Eligible(c)) # 0
    <3>1. Waits(r, s) /\ s.pc = "scan"
      BY <1>1, <2>3 DEF Waits, Fields, Scanned, Judging, Leaving
    <3>2. Eligible(c) # {}
      BY <2>3, FS_EmptySet
    <3>3. EligibleIn(s.body) # {}
      BY <1>1, <3>1, <3>2, SameOperators DEF Waits
    <3> QED BY <1>6, <2>2, <3>1, <3>3
  <2> QED BY <1>5, <2>2, <2>3
<1>10. CASE cache_miss(c)
  <2>1. PICK s : Goto(c, s) /\ (s = Answer(r, TooMany) \/ s = [r EXCEPT !.pc = "scan"])
    BY <1>1, <1>10 DEF cache_miss, Step
  <2>2. CASE s = [r EXCEPT !.pc = "scan"]
    <3>1. Waits(r, s) /\ s.pc = "scan"
      BY <1>1, <2>2 DEF Waits, Fields, Scanned, Judging, Leaving
    <3>2. r.body.op \in {"scan", "execute"}
      <4>1. r.pc = "cache"
        BY <1>1, <1>10 DEF cache_miss, At
      <4> QED BY <1>1, <1>2, <4>1 DEF Noted, Coming
    <3>3. EligibleIn(s.body) = {1}
      BY <1>2, <3>1, <3>2, AllEligible DEF Waits
    <3> QED BY <1>6, <2>1, <3>1, <3>3
  <2> QED BY <1>5, <2>1, <2>2
<1> QED BY <1>7, <1>8, <1>9, <1>10

\* A hit has one row and one event.
LEMMA HitNoted ==
    ASSUME RequestsOK, CacheOK, NEW c \in Clients, Screened(req[c]), NEW f, Noted(f, req[c]),
           \A e \in cache : e.answer.decision = "ALLOW", cache_hit(c)
    PROVE  Noted(f, req'[c])
<1>1. PICK r : r = req[c] /\ DOMAIN r = Fields /\ DOMAIN req = Clients /\ Screened(r) /\ Noted(f, r)
  BY DEF RequestsOK, RequestOK
<1>2. r.pc = "cache" /\ r.sent = <<>> /\ r.body.op # "proxy" /\ r.outcome = NoVal
  <2>1. r.pc = "cache"
    BY <1>1 DEF cache_hit, At
  <2> QED BY <1>1, <2>1 DEF Screened, Noted, Coming, Silent, Scanned, Judging, Leaving
<1> DEFINE choice == CHOOSE x \in cache : x.key = cache_key(req[c])
<1>3. PICK e \in cache : e = choice
  BY DEF cache_hit
<1> HIDE DEF choice
<1>4. PICK a : a = restrict_layer_scores(c, e.answer) /\ a.decision = "ALLOW"
  <2>1. PICK x : x = e.answer /\ DOMAIN x = AnswerFields /\ x.decision = "ALLOW"
    BY <1>3 DEF CacheOK
  <2>2. PICK a : a = restrict_layer_scores(c, x)
    OBVIOUS
  <2>3. a.decision = "ALLOW"
    BY <2>1, <2>2 DEF restrict_layer_scores, AnswerFields
  <2> QED BY <2>1, <2>2, <2>3
<1>5. PICK row : row = cache_hit_audit(e.answer) /\ row.decision = "ALLOW"
  <2>1. cache_hit_audit(e.answer).decision = "ALLOW"
    BY <1>3 DEF cache_hit_audit
  <2> QED BY <2>1
<1>6. PICK s : Goto(c, s) /\ \/ s = [r EXCEPT !.pc = "store", !.answer = ServerError]
                             \/ s = [[r EXCEPT !.hit = TRUE, !.events = 1, !.audited = <<row>>]
                                       EXCEPT !.pc = "store", !.answer = a]
  BY <1>1, <1>3, <1>4, <1>5 DEF cache_hit, Answer, choice
<1>7. Noted(f, s)
  <2>1. CASE s = [r EXCEPT !.pc = "store", !.answer = ServerError]
    <3>1. s.pc = "store" /\ s.answer = ServerError /\ s.sent = <<>>
      BY <1>1, <1>2, <2>1 DEF Fields
    <3> QED BY <3>1, TurnedAway, Shapes DEF Leaving
  <2>2. CASE s = [[r EXCEPT !.hit = TRUE, !.events = 1, !.audited = <<row>>] EXCEPT !.pc = "store", !.answer = a]
    <3>1. /\ s.pc = "store" /\ s.answer = a /\ s.hit /\ s.events = 1 /\ s.audited = <<row>>
          /\ s.body = r.body /\ s.outcome = NoVal
      BY <1>1, <1>2, <2>2 DEF Fields
    <3>2. DOMAIN s.audited = {1} /\ s.audited[1].decision = "ALLOW"
      BY <1>5, <3>1
    <3>3. Strictest(s.audited) = "ALLOW"
      BY <3>2, SingleVerdict DEF Decisions
    <3>4. Cardinality({1}) = 1
      BY FS_Singleton
    <3>5. NoVal # "SUCCESS"
      BY NoTextLikeNone DEF Outcomes
    <3>6. Proven(f, s)
      BY <1>2, <1>4, <3>1, <3>2, <3>3, <3>4, <3>5 DEF Proven
    <3> QED BY <3>1, <3>6 DEF Noted, Coming, Going, Gone, Scanned, Judging, Leaving
  <2> QED BY <1>6, <2>1, <2>2
<1> QED BY <1>1, <1>6, <1>7 DEF Goto

\* The scans.
LEMMA ScanNoted ==
    ASSUME RequestsOK, NEW c \in Clients, Screened(req[c]), NEW f, Noted(f, req[c]),
           ai_scan(c) \/ ai_scan_batch(c) \/ proxy_scan(c)
    PROVE  Noted(f, req'[c])
<1>1. PICK r : /\ r = req[c] /\ DOMAIN r = Fields /\ DOMAIN r.answer = AnswerFields /\ DOMAIN req = Clients
               /\ Screened(r) /\ Noted(f, r)
  BY DEF RequestsOK, RequestOK
<1>2. r.pc = "scan" /\ r.body \in Bodies
  BY <1>1 DEF RequestsOK, RequestOK, Known, ai_scan, ai_scan_batch, proxy_scan, Doing, At
<1>3. r.sent = <<>> /\ Silent(r) /\ EligibleIn(r.body) # {} /\ r.answer.kind = "none" /\ r.answer.output = NoVal
  <2>1. r.pc \notin Scanned
    BY <1>2 DEF Scanned, Judging, Leaving
  <2>2. Silent(r) /\ EligibleIn(r.body) # {}
    BY <1>1, <1>2, <2>1 DEF Noted, Coming
  <2> QED BY <1>1, <1>2, <2>1, <2>2 DEF Silent, Screened, NoAnswer
<1>4. PICK s \in ScanOutcomes(c) :
        \E u : /\ Goto(c, u)
               /\ \/ /\ r.body.op \in {"scan", "execute"}
                     /\ u = [Judged(c, s) EXCEPT !.pc = IF Op(c) = "execute" /\ s.results[1].decision # "BLOCK"
                                                        THEN "provider" ELSE "audit"]
                  \/ r.body.op = "batch" /\ u = [Judged(c, s) EXCEPT !.pc = "audit"]
                  \/ /\ r.body.op = "proxy"
                     /\ LET blocked == Strictest(s.results) = "BLOCK" IN
                        u = [Judged(c, s) EXCEPT !.pc = IF blocked THEN "audit" ELSE "provider", !.events = 1,
                                                 !.outcome = IF blocked THEN "BLOCKED" ELSE NoVal]
  BY <1>1 DEF ai_scan, ai_scan_batch, proxy_scan, Scan, Doing, Op
<1>5. PICK j : j = Judged(c, s)
  OBVIOUS
<1>6. /\ DOMAIN j = Fields /\ j.audited = <<>> /\ j.events = 0 /\ j.outcome = NoVal /\ j.body = r.body
      /\ j.answer.kind = "none" /\ j.answer.output = NoVal /\ j.replay = NoIdem
  <2>1. PICK d : d = Strictest(s.results)
    OBVIOUS
  <2>2. j = [r EXCEPT !.results = s.results, !.down = s.down, !.answer.decision = d]
    BY <1>1, <1>5, <2>1 DEF Judged
  <2> QED BY <1>1, <1>3, <2>2 DEF Fields, AnswerFields, Silent
<1>7. PICK blocked \in BOOLEAN : blocked = (Strictest(s.results) = "BLOCK")
  OBVIOUS
<1>8. PICK u : /\ Goto(c, u)
               /\ \/ /\ r.body.op \in {"scan", "execute"}
                     /\ u = [j EXCEPT !.pc = IF r.body.op = "execute" /\ s.results[1].decision # "BLOCK"
                                             THEN "provider" ELSE "audit"]
                  \/ r.body.op = "batch" /\ u = [j EXCEPT !.pc = "audit"]
                  \/ /\ r.body.op = "proxy"
                     /\ u = [j EXCEPT !.pc = IF blocked THEN "audit" ELSE "provider", !.events = 1,
                                      !.outcome = IF blocked THEN "BLOCKED" ELSE NoVal]
  BY <1>1, <1>4, <1>5, <1>7 DEF Op
<1>9. /\ u.audited = <<>> /\ u.body = r.body /\ u.answer = j.answer /\ u.replay = NoIdem
      /\ u.pc \in {"provider", "audit"}
      /\ r.body.op # "proxy" => u.outcome = NoVal
      /\ r.body.op = "proxy" => /\ u.events = 1
                                /\ \/ u.pc = "provider" /\ u.outcome = NoVal
                                   \/ u.pc = "audit" /\ u.outcome = "BLOCKED"
  <2>1. CASE /\ r.body.op = "proxy"
             /\ u = [j EXCEPT !.pc = IF blocked THEN "audit" ELSE "provider", !.events = 1,
                              !.outcome = IF blocked THEN "BLOCKED" ELSE NoVal]
    BY <1>6, <2>1 DEF Fields
  <2>2. CASE /\ r.body.op # "proxy"
             /\ \/ u = [j EXCEPT !.pc = "audit"]
                \/ u = [j EXCEPT !.pc = IF r.body.op = "execute" /\ s.results[1].decision # "BLOCK"
                                        THEN "provider" ELSE "audit"]
    BY <1>6, <2>2 DEF Fields
  <2> QED BY <1>8, <2>1, <2>2
<1>10. req'[c] = u
  BY <1>1, <1>8 DEF Goto
<1>11. u.hit = r.hit /\ u.results = ScansOf(u) /\ u.answer.decision = Strictest(u.results)
  BY <1>1, <1>3, <1>10, ScansScreened
<1>12. u.body.op \in {"scan", "execute"} => u.answer.decision \in Decisions
  <2> SUFFICES ASSUME u.body.op \in {"scan", "execute"}
               PROVE  u.answer.decision \in Decisions
    OBVIOUS
  <2>1. EligibleIn(u.body) = {1}
    BY <1>2, <1>9, AllEligible
  <2>2. PICK rs : rs = u.results /\ rs = ScansOf(u)
    BY <1>11
  <2>3. DOMAIN rs = {1} /\ rs[1].decision \in Decisions
    BY <2>1, <2>2, ThreeVerdicts DEF ScansOf, Decisions
  <2> QED BY <1>11, <2>2, <2>3, SingleVerdict
<1>13. Knows(u)
  BY <1>9, <1>11, <1>12 DEF Knows
<1>14. u.pc = "provider" => Ahead(u)
  BY <1>6, <1>9, <1>11 DEF Ahead
<1>15. u.pc = "audit" /\ u.body.op = "proxy" => Ended(u)
  BY <1>6, <1>9, <1>11 DEF Ended, Outcomes
<1> QED BY <1>3, <1>9, <1>10, <1>11, <1>13, <1>14, <1>15
        DEF Noted, Coming, Going, Gone, Silent, Scanned, Judging, Leaving

\* What every record between the scans and the answer has.
LEMMA JudgingFacts ==
    ASSUME NEW f, NEW r, Noted(f, r), r.pc \in Judging
    PROVE  /\ r.results = ScansOf(r) /\ EligibleIn(r.body) # {} /\ ~r.hit /\ r.replay = NoIdem /\ Knows(r)
           /\ r.pc # "respond" => r.audited = <<>>
           /\ r.pc \in {"provider", "output"} => Ahead(r)
           /\ r.pc \in {"audit", "respond"} /\ r.body.op = "proxy" => Ended(r)
           /\ r.pc = "respond" => Recorded(f, r)
  BY DEF Noted, Going

\* A step between the scans and the answer leaves what was scanned.
SameScans(r, s) ==
    /\ s.body = r.body /\ s.policy = r.policy /\ s.results = r.results /\ s.down = r.down
    /\ s.hit = r.hit /\ s.replay = r.replay
LEMMA NotedGoes ==
    ASSUME NEW f, NEW g, NEW r, NEW s, Noted(f, r), r.pc \in Judging, SameScans(r, s), s.pc \in Judging, Knows(s),
           s.pc # "respond" => s.audited = <<>>,
           s.pc \in {"provider", "output"} => Ahead(s),
           s.pc \in {"audit", "respond"} /\ s.body.op = "proxy" => Ended(s),
           s.pc = "respond" => Recorded(g, s)
    PROVE  Noted(g, s)
<1>1. ScansOf(s) = ScansOf(r)
  BY DEF SameScans, ScansOf, DownIn
<1> QED BY <1>1, JudgingFacts DEF SameScans, Noted, Coming, Going, Gone, Scanned, Judging, Leaving

\* The calls of the provider.
LEMMA ProviderNoted ==
    ASSUME RequestsOK, NEW c \in Clients, Screened(req[c]), NEW f, Noted(f, req[c]),
           \/ llm_fails(c) \/ provider_times_out(c) \/ provider_malformed(c) \/ provider_unavailable(c)
           \/ provider_unsupported(c) \/ provider_config_error(c)
           \/ \E t \in Replies : call_llm(c, t) \/ chat_completions(c, t)
    PROVE  Noted(f, req'[c])
<1>1. PICK r : /\ r = req[c] /\ DOMAIN r = Fields /\ DOMAIN r.answer = AnswerFields /\ DOMAIN req = Clients
               /\ Screened(r) /\ Noted(f, r)
  BY DEF RequestsOK, RequestOK
<1>2. r.pc = "provider" /\ r.body \in Bodies
  BY <1>1 DEF RequestsOK, RequestOK, Known, llm_fails, provider_times_out, provider_malformed,
              provider_unavailable, provider_unsupported, provider_config_error,
              call_llm, chat_completions, UpstreamFails, Forwarded, Doing, At
<1>3. r.pc \in Judging /\ r.audited = <<>> /\ Knows(r) /\ Ahead(r) /\ r.sent = <<>> /\ r.results = ScansOf(r)
  BY <1>1, <1>2, JudgingFacts DEF Judging, Screened
<1>4. ASSUME NEW s, Goto(c, s), Noted(f, s)
      PROVE  Noted(f, req'[c])
  BY <1>1, <1>4 DEF Goto
<1>5. PICK out : out = Outgoing(c)
  OBVIOUS
<1>6. CASE provider_config_error(c)
  <2>1. PICK s : Goto(c, s) /\ s = [r EXCEPT !.pc = "store", !.answer = ServerError]
    BY <1>1, <1>6 DEF provider_config_error, Answer
  <2>2. s.pc = "store" /\ s.answer = ServerError /\ s.sent = <<>>
    BY <1>1, <1>3, <2>1 DEF Fields
  <2>3. Noted(f, s)
    BY <2>2, TurnedAway, Shapes DEF Leaving
  <2> QED BY <1>4, <2>1, <2>3
<1>7. CASE llm_fails(c)
  <2>1. PICK j, u : Goto(c, u) /\ u = [j EXCEPT !.sent = out] /\ j = [[r EXCEPT !.pc = "audit"] EXCEPT !.answer.kind = "error"]
    BY <1>1, <1>5, <1>7 DEF llm_fails, Sent, Step
  <2>2. /\ DOMAIN j = Fields /\ SameScans(r, j) /\ j.pc = "audit" /\ j.answer.decision = r.answer.decision
        /\ j.outcome = r.outcome /\ j.audited = <<>> /\ j.events = r.events
    BY <1>1, <1>3, <2>1 DEF Fields, AnswerFields, SameScans
  <2>3. /\ SameScans(r, u) /\ u.pc = "audit" /\ u.answer = j.answer
        /\ u.outcome = r.outcome /\ u.audited = <<>> /\ u.events = r.events
    BY <2>1, <2>2 DEF Fields, SameScans
  <2>4. u.body.op = "execute"
    BY <1>1, <1>7, <2>3 DEF llm_fails, Doing, Op, SameScans
  <2>5. Knows(u)
    BY <1>3, <2>2, <2>3, <2>4 DEF Knows, SameScans
  <2>6. Noted(f, u)
    BY <1>1, <1>3, <2>3, <2>4, <2>5, NotedGoes DEF Judging
  <2> QED BY <1>4, <2>1, <2>6
<1>8. CASE \E t \in Replies : call_llm(c, t) \/ chat_completions(c, t)
  <2> PICK t \in Replies : call_llm(c, t) \/ chat_completions(c, t)
    BY <1>8
  <2>1. PICK j : Goto(c, [j EXCEPT !.sent = out]) /\ j = [[r EXCEPT !.pc = "output"] EXCEPT !.answer.output = t]
    BY <1>1, <1>5 DEF call_llm, chat_completions, Forwarded, Sent, Step
  <2>2. /\ DOMAIN j = Fields /\ SameScans(r, j) /\ j.pc = "output" /\ j.answer.decision = r.answer.decision
        /\ j.answer.kind = r.answer.kind /\ j.answer.output = t
        /\ j.outcome = r.outcome /\ j.audited = <<>> /\ j.events = r.events
    BY <1>1, <1>3, <2>1 DEF Fields, AnswerFields, SameScans
  <2>3. PICK u : u = [j EXCEPT !.sent = out]
    OBVIOUS
  <2>4. /\ SameScans(r, u) /\ u.pc = "output" /\ u.answer = j.answer
        /\ u.outcome = r.outcome /\ u.audited = <<>> /\ u.events = r.events
    BY <2>2, <2>3 DEF Fields, SameScans
  <2>5. Knows(u)
    BY <1>3, <2>2, <2>4 DEF Knows, SameScans
  <2>6. Ahead(u)
    <3>1. t \in Texts
      BY GatewayAssumption DEF GatewayAssumption
    <3> QED BY <1>3, <2>2, <2>4, <3>1 DEF Ahead, SameScans
  <2>7. Noted(f, u)
    BY <1>1, <1>3, <2>4, <2>5, <2>6, NotedGoes DEF Judging
  <2> QED BY <1>4, <2>1, <2>3, <2>7
<1>9. ASSUME NEW o \in {"TIMEOUT", "FAILED"}, NEW a \in {Refused, TooMany, ServerError}, UpstreamFails(c, o, a)
      PROVE  Noted(f, req'[c])
  <2>1. PICK j, u : Goto(c, u) /\ u = [j EXCEPT !.sent = out] /\ j = [[r EXCEPT !.pc = "audit"] EXCEPT !.outcome = o, !.answer = a]
    BY <1>1, <1>5, <1>9 DEF UpstreamFails, Forwarded, Sent, Step
  <2>2. r.body.op = "proxy"
    BY <1>1, <1>9 DEF UpstreamFails, Forwarded, Doing, Op
  <2>3. /\ DOMAIN j = Fields /\ SameScans(r, j) /\ j.pc = "audit" /\ j.answer = a /\ j.outcome = o
        /\ j.audited = <<>> /\ j.events = r.events
    BY <1>1, <1>3, <2>1 DEF Fields, SameScans
  <2>4. /\ SameScans(r, u) /\ u.pc = "audit" /\ u.answer = a /\ u.outcome = o
        /\ u.audited = <<>> /\ u.events = r.events
    BY <2>1, <2>3 DEF Fields, SameScans
  <2>5. Knows(u)
    BY <1>3, <2>2, <2>4 DEF Knows, SameScans
  <2>6. a.kind \in {"refused", "limited", "error"} /\ a.output = NoVal
    BY DEF Refused, TooMany, ServerError, NoAnswer
  <2>7. Ended(u)
    BY <2>4, <2>6 DEF Ended, Outcomes
  <2>8. Noted(f, u)
    BY <1>1, <1>3, <2>4, <2>5, <2>7, NotedGoes DEF Judging
  <2> QED BY <1>4, <2>1, <2>8
<1> QED
  BY <1>6, <1>7, <1>8, <1>9 DEF provider_times_out, provider_malformed, provider_unavailable, provider_unsupported,
                                map_provider_failure

\* The output guard.
LEMMA OutputNoted ==
    ASSUME RequestsOK, NEW c \in Clients, Screened(req[c]), NEW f, Noted(f, req[c]),
           guard_completion(c) \/ guard_proxied(c)
    PROVE  Noted(f, req'[c])
<1>1. PICK r : /\ r = req[c] /\ DOMAIN r = Fields /\ DOMAIN r.answer = AnswerFields /\ DOMAIN req = Clients
               /\ Noted(f, r)
  BY DEF RequestsOK, RequestOK
<1>2. r.pc = "output"
  BY <1>1 DEF guard_completion, guard_proxied, Doing, At
<1>3. r.pc \in Judging /\ r.audited = <<>> /\ Knows(r) /\ Ahead(r)
  BY <1>1, <1>2, JudgingFacts DEF Judging
<1>4. PICK t \in Texts : t = r.answer.output
  BY <1>2, <1>3 DEF Ahead
<1>5. PICK fails \in BOOLEAN :
        \/ /\ r.body.op = "execute"
           /\ Goto(c, [[r EXCEPT !.pc = "audit"] EXCEPT !.answer = Passed(@, output_inspect(t, fails))])
        \/ /\ r.body.op = "proxy"
           /\ Goto(c, [[r EXCEPT !.pc = "audit"] EXCEPT
                         !.answer = Passed(@, output_inspect(t, fails)),
                         !.outcome = IF output_inspect(t, fails).decision = "BLOCK" THEN "OUTPUT_BLOCKED" ELSE "SUCCESS"])
  BY <1>1, <1>4 DEF guard_completion, guard_proxied, Inspect, Step, Doing, Op
<1>6. PICK g : g = output_inspect(t, fails) /\ g.text \in Texts
  <2>1. output_inspect(t, fails).text \in {t, Profile[t].redacted}
    BY DEF output_inspect
  <2>2. Profile[t].redacted \in Texts
    BY ProfileFacts
  <2> QED BY <2>1, <2>2
<1>7. PICK x : x = r.answer /\ DOMAIN x = AnswerFields
  BY <1>1
<1>8. PICK a : a = Passed(x, g)
  OBVIOUS
<1>9. /\ a.decision \in {x.decision, "BLOCK"}
      /\ g.decision = "BLOCK" => a.output = NoVal
      /\ g.decision # "BLOCK" => a.output = g.text /\ a.decision = x.decision
  BY <1>7, <1>8 DEF Passed, AnswerFields
<1>10. PICK o : o = IF g.decision = "BLOCK" THEN "OUTPUT_BLOCKED" ELSE "SUCCESS"
  OBVIOUS
<1>11. PICK s : /\ Goto(c, s)
                /\ \/ r.body.op = "execute" /\ s = [[r EXCEPT !.pc = "audit"] EXCEPT !.answer = a]
                   \/ r.body.op = "proxy" /\ s = [[r EXCEPT !.pc = "audit"] EXCEPT !.answer = a, !.outcome = o]
  BY <1>1, <1>5, <1>6, <1>7, <1>8, <1>10
<1>12. /\ SameScans(r, s) /\ s.pc = "audit" /\ s.answer = a /\ s.audited = <<>> /\ s.events = r.events
       /\ r.body.op = "proxy" => s.outcome = o
       /\ r.body.op = "execute" => s.outcome = r.outcome
       /\ r.body.op \in {"execute", "proxy"}
  BY <1>1, <1>3, <1>11 DEF Fields, SameScans
<1>13. Knows(s)
  BY <1>3, <1>7, <1>9, <1>12 DEF Knows, SameScans, Decisions
<1>14. s.body.op = "proxy" => Ended(s)
  BY <1>3, <1>6, <1>7, <1>9, <1>10, <1>12, NoTextLikeNone DEF Ended, Outcomes, SameScans, Ahead
<1>15. Noted(f, s)
  BY <1>1, <1>3, <1>12, <1>13, <1>14, NotedGoes DEF Judging
<1> QED BY <1>1, <1>11, <1>15 DEF Goto

\* The rows of a scan and of a batch.
LEMMA AuditNoted ==
    ASSUME RequestsOK, NEW c \in Clients, Screened(req[c]), NEW f, Noted(f, req[c]), audit_scan(c) \/ audit_batch(c)
    PROVE  Noted(f, req'[c])
<1>1. PICK r : /\ r = req[c] /\ DOMAIN r = Fields /\ DOMAIN r.answer = AnswerFields /\ DOMAIN req = Clients
               /\ Noted(f, r)
  BY DEF RequestsOK, RequestOK
<1>2. r.pc = "audit" /\ r.body \in Bodies /\ r.body.op # "proxy"
  BY <1>1 DEF audit_scan, audit_batch, Doing, At, Op, RequestsOK, RequestOK, Known
<1>3. r.pc \in Judging /\ r.audited = <<>> /\ Knows(r) /\ r.results = ScansOf(r) /\ ~r.hit /\ r.replay = NoIdem
  BY <1>1, <1>2, JudgingFacts DEF Judging
<1>4. DOMAIN r.results = EligibleIn(r.body)
  BY <1>3 DEF ScansOf
<1>5. ASSUME NEW s, Goto(c, s), Noted(f, s)
      PROVE  Noted(f, req'[c])
  BY <1>1, <1>5 DEF Goto
<1>6. ASSUME NEW s, s.pc = "store", s.answer = ServerError, s.body.op # "proxy"
      PROVE  Noted(f, s)
  BY <1>6, TurnedAway, Shapes DEF Leaving
<1>7. CASE audit_scan(c)
  <2>1. r.body.op \in {"scan", "execute"}
    BY <1>1, <1>7 DEF audit_scan, Doing, Op
  <2>2. DOMAIN r.results = {1}
    BY <1>2, <1>4, <2>1, AllEligible
  <2>3. PICK row : row = build_audit_data(c, 1)
    OBVIOUS
  <2>4. row.decision = r.answer.decision
    <3>1. r.body.op = "scan" => r.answer.decision = r.results[1].decision
      <4>1. r.results[1].decision \in Decisions
        BY <1>3, <1>4, <2>2, ThreeVerdicts DEF ScansOf, Decisions
      <4>2. PICK rs : rs = r.results
        OBVIOUS
      <4>3. Strictest(rs) = rs[1].decision
        BY <2>2, <4>1, <4>2, SingleVerdict
      <4> QED BY <1>3, <4>2, <4>3 DEF Knows
    <3> QED BY <1>1, <2>1, <2>3, <3>1 DEF build_audit_data, Op
  <2>5. PICK a : a = IF r.answer.kind = "error" THEN ServerError ELSE r.answer
    OBVIOUS
  <2>6. PICK s : Goto(c, s) /\ \/ s = [r EXCEPT !.pc = "store", !.answer = ServerError]
                               \/ s = [[r EXCEPT !.pc = IF r.answer.kind = "error" THEN "store" ELSE "respond"]
                                         EXCEPT !.audited = <<row>>, !.events = 1, !.answer = a]
    BY <1>1, <1>7, <2>3, <2>5 DEF audit_scan, Answer, Step
  <2>7. CASE \/ s = [r EXCEPT !.pc = "store", !.answer = ServerError]
             \/ /\ r.answer.kind = "error"
                /\ s = [[r EXCEPT !.pc = "store"] EXCEPT !.audited = <<row>>, !.events = 1, !.answer = a]
    <3>1. s.pc = "store" /\ s.answer = ServerError /\ s.body = r.body
      BY <1>1, <2>5, <2>7 DEF Fields
    <3> QED BY <1>2, <1>5, <1>6, <2>6, <3>1
  <2>8. CASE /\ r.answer.kind # "error"
             /\ s = [[r EXCEPT !.pc = "respond"] EXCEPT !.audited = <<row>>, !.events = 1, !.answer = a]
    <3>1. /\ SameScans(r, s) /\ s.pc = "respond" /\ s.answer = r.answer /\ s.outcome = r.outcome
          /\ s.audited = <<row>> /\ s.events = 1
      BY <1>1, <2>5, <2>8 DEF Fields, SameScans
    <3>2. DOMAIN s.audited = {1} /\ s.audited[1] = row
      BY <3>1
    <3>3. Knows(s) /\ Recorded(f, s)
      BY <1>2, <1>3, <2>1, <2>4, <3>1, <3>2 DEF Knows, Recorded, SameScans
    <3>4. Noted(f, s)
      BY <1>1, <1>2, <1>3, <3>1, <3>3, NotedGoes DEF Judging, SameScans
    <3> QED BY <1>5, <2>6, <3>4
  <2> QED BY <2>6, <2>7, <2>8
<1>8. CASE audit_batch(c)
  <2> DEFINE Rows(n) == [i \in 1..n |-> build_audit_data(c, i)]
  <2>1. r.body.op = "batch"
    BY <1>1, <1>8 DEF audit_batch, Doing, Op
  <2>2. PICK total \in Nat \ {0} : total = Len(r.body.items) /\ EligibleIn(r.body) = 1..total
    BY <1>2, AllEligible
  <2>3. PICK a : a = restrict_layer_scores(c, build_response(r.answer.decision, NoVal, r.results))
    OBVIOUS
  <2>4. PICK all : all = Rows(total)
    OBVIOUS
  <2>5. DOMAIN all = 1..total /\ \A i \in 1..total : all[i].decision = r.results[i].decision
    BY <1>1, <2>1, <2>4 DEF build_audit_data, Op
  <2>6. \/ Goto(c, [[r EXCEPT !.pc = "store", !.answer = a] EXCEPT !.audited = all, !.events = total])
        \/ \E n \in 0..(total - 1) : Goto(c, [[r EXCEPT !.pc = "store", !.answer = ServerError] EXCEPT !.audited = Rows(n)])
    BY <1>1, <1>8, <2>2, <2>3, <2>4 DEF audit_batch, Answer, Messages
  <2> HIDE DEF Rows
  <2>7. ASSUME NEW n, Goto(c, [[r EXCEPT !.pc = "store", !.answer = ServerError] EXCEPT !.audited = Rows(n)])
        PROVE  Noted(f, req'[c])
    <3>1. PICK s : s = [[r EXCEPT !.pc = "store", !.answer = ServerError] EXCEPT !.audited = Rows(n)]
      OBVIOUS
    <3>2. s.pc = "store" /\ s.answer = ServerError /\ s.body = r.body
      BY <1>1, <3>1 DEF Fields
    <3> QED BY <1>2, <1>5, <1>6, <2>7, <3>1, <3>2
  <2>8. CASE Goto(c, [[r EXCEPT !.pc = "store", !.answer = a] EXCEPT !.audited = all, !.events = total])
    <3>1. PICK s : s = [[r EXCEPT !.pc = "store", !.answer = a] EXCEPT !.audited = all, !.events = total]
      OBVIOUS
    <3>2. /\ s.pc = "store" /\ s.answer = a /\ s.body = r.body /\ s.audited = all /\ s.events = total
          /\ s.results = r.results /\ s.outcome = r.outcome /\ ~s.hit
      BY <1>1, <1>3, <3>1 DEF Fields
    <3>3. a.decision = r.answer.decision
      <4>1. PICK b : b = build_response(r.answer.decision, NoVal, r.results)
        OBVIOUS
      <4>2. DOMAIN b = AnswerFields /\ b.decision = r.answer.decision
        BY <4>1, Responses DEF build_response
      <4> QED BY <2>3, <4>1, <4>2 DEF restrict_layer_scores, AnswerFields
    <3>4. Strictest(all) = a.decision
      <4>1. PICK rs : rs = r.results /\ DOMAIN rs = 1..total
        BY <1>4, <2>2
      <4>2. Strictest(all) = Strictest(rs)
        BY <2>5, <4>1, SameStrictest
      <4> QED BY <1>3, <2>1, <3>3, <4>1, <4>2 DEF Knows
    <3>5. Cardinality(1..total) = total
      <4>1. PICK lo \in Int : lo = 1
        OBVIOUS
      <4>2. Cardinality(lo..total) = IF lo > total THEN 0 ELSE total - lo + 1
        BY FS_Interval
      <4> QED BY <4>1, <4>2
    <3>6. NoVal # "SUCCESS" /\ 1 \in 1..total /\ s.outcome = NoVal
      BY <1>2, <1>3, <3>2, NoTextLikeNone DEF Outcomes, Knows
    <3>7. Proven(f, s)
      BY <1>2, <1>4, <2>2, <2>5, <3>2, <3>4, <3>5, <3>6 DEF Proven
    <3>8. Noted(f, s)
      BY <3>2, <3>7 DEF Noted, Coming, Going, Gone, Scanned, Judging, Leaving
    <3> QED BY <1>5, <2>8, <3>1, <3>8
  <2> QED BY <2>6, <2>7, <2>8
<1> QED BY <1>7, <1>8

\* The interaction and the rows of its messages.
LEMMA LogNoted ==
    ASSUME RequestsOK, faults \in Nat, NEW c \in Clients, Noted(faults, req[c]), log_interaction(c)
    PROVE  Noted(faults', req'[c])
<1>1. PICK r : /\ r = req[c] /\ DOMAIN r = Fields /\ DOMAIN r.answer = AnswerFields /\ DOMAIN req = Clients
               /\ Noted(faults, r)
  BY DEF RequestsOK, RequestOK
<1>2. r.pc = "audit" /\ r.body.op = "proxy"
  BY <1>1 DEF log_interaction, Doing, At, Op
<1>3. r.pc \in Judging /\ r.audited = <<>> /\ Knows(r) /\ Ended(r)
  BY <1>1, <1>2, JudgingFacts DEF Judging
<1>4. PICK rows1 : rows1 = [i \in DOMAIN r.results |-> segment_audit_row(c, i)]
  OBVIOUS
<1>5. DOMAIN rows1 = DOMAIN r.results /\ \A i \in DOMAIN r.results : rows1[i].decision = r.results[i].decision
  BY <1>1, <1>4 DEF segment_audit_row
<1>6. PICK o : o = r.outcome
  OBVIOUS
<1>7. PICK s : /\ Goto(c, s)
               /\ \/ s = [[[r EXCEPT !.pc = "respond"] EXCEPT !.logged = o] EXCEPT !.audited = rows1]
                  \/ /\ faults' > 0
                     /\ s = [r EXCEPT !.pc = "respond"] \/ s = [[r EXCEPT !.pc = "respond"] EXCEPT !.logged = o]
  <2>1. Fault("db_audit") => faults' > 0
    BY DEF Fault
  <2>2. PICK t, u : t = [r EXCEPT !.pc = "respond"] /\ u = [t EXCEPT !.logged = o]
    OBVIOUS
  <2>3. Goto(c, [u EXCEPT !.audited = rows1]) \/ (Fault("db_audit") /\ (Goto(c, u) \/ Goto(c, t)))
    BY <1>1, <1>4, <1>6, <2>2 DEF log_interaction, Step
  <2> QED BY <2>1, <2>2, <2>3
<1>8. /\ SameScans(r, s) /\ s.pc = "respond" /\ s.answer = r.answer /\ s.outcome = r.outcome /\ s.events = r.events
      /\ \/ s.audited = rows1 /\ s.logged = o
         \/ s.audited = <<>> /\ faults' > 0
  BY <1>1, <1>3, <1>7, ZenonT(60) DEF Fields, SameScans
<1>9. Knows(s) /\ Ended(s)
  BY <1>3, <1>8 DEF Knows, Ended, SameScans
<1>10. Recorded(faults', s)
  <2>1. s.body.op = "proxy" /\ s.results = r.results
    BY <1>2, <1>8 DEF SameScans
  <2> QED BY <1>5, <1>6, <1>8, <2>1 DEF Recorded
<1>11. Noted(faults', s)
  <2>1. PICK g : g = faults'
    OBVIOUS
  <2> QED BY <1>1, <1>3, <1>8, <1>9, <1>10, <2>1, NotedGoes DEF Judging
<1> QED BY <1>1, <1>7, <1>11 DEF Goto

\* The answers.
LEMMA RespondNoted ==
    ASSUME RequestsOK, NEW c \in Clients, NEW f, Noted(f, req[c]), ai_respond(c) \/ proxy_respond(c)
    PROVE  Noted(f, req'[c])
<1>1. PICK r : /\ r = req[c] /\ DOMAIN r = Fields /\ DOMAIN r.answer = AnswerFields /\ DOMAIN req = Clients
               /\ Noted(f, r)
  BY DEF RequestsOK, RequestOK
<1>2. r.pc = "respond" /\ r.body \in Bodies /\ r.body.op \in {"scan", "execute", "proxy"}
  BY <1>1 DEF ai_respond, proxy_respond, Doing, At, Op, RequestsOK, RequestOK, Known
<1>3. /\ r.pc \in Judging /\ r.results = ScansOf(r) /\ EligibleIn(r.body) # {} /\ ~r.hit /\ r.replay = NoIdem
      /\ Knows(r) /\ Recorded(f, r) /\ (r.body.op = "proxy" => Ended(r))
  BY <1>1, <1>2, JudgingFacts DEF Judging
<1>4. DOMAIN r.results = EligibleIn(r.body)
  BY <1>3 DEF ScansOf
<1>5. ASSUME NEW s, NEW a, s = [r EXCEPT !.pc = "store", !.answer = a]
      PROVE  /\ s.pc = "store" /\ s.answer = a /\ s.body = r.body /\ s.audited = r.audited /\ s.events = r.events
             /\ s.results = r.results /\ s.outcome = r.outcome /\ ~s.hit /\ s.logged = r.logged
  BY <1>1, <1>3, <1>5 DEF Fields
<1>6. ASSUME NEW s, s.pc = "store", Proven(f, s)
      PROVE  Noted(f, s)
  BY <1>6 DEF Noted, Coming, Going, Gone, Scanned, Judging, Leaving
<1>7. NoVal \notin Outcomes
  BY NoTextLikeNone
<1>8. CASE ai_respond(c)
  <2>1. r.body.op \in {"scan", "execute"} /\ EligibleIn(r.body) = {1}
    <3>1. r.body.op \in {"scan", "execute"}
      BY <1>1, <1>8 DEF ai_respond, Doing, Op
    <3> QED BY <1>2, <3>1, AllEligible
  <2>2. PICK a : a = restrict_layer_scores(c, build_response(r.answer.decision, r.answer.output, r.results))
    OBVIOUS
  <2>3. a.decision = r.answer.decision
    <3>1. PICK b : b = build_response(r.answer.decision, r.answer.output, r.results)
      OBVIOUS
    <3>2. DOMAIN b = AnswerFields /\ b.decision = r.answer.decision
      BY <3>1, Responses DEF build_response
    <3> QED BY <2>2, <3>1, <3>2 DEF restrict_layer_scores, AnswerFields
  <2>4. PICK s : Goto(c, s) /\ s = [r EXCEPT !.pc = "store", !.answer = a]
    BY <1>1, <1>8, <2>2 DEF ai_respond, Answer
  <2>5. DOMAIN r.audited = {1} /\ r.audited[1].decision = r.answer.decision /\ r.events = 1 /\ r.outcome = NoVal
        /\ r.answer.decision \in Decisions
    BY <1>3, <2>1 DEF Recorded, Knows
  <2>6. Strictest(r.audited) = r.answer.decision
    <3>1. PICK rs : rs = r.audited
      OBVIOUS
    <3> QED BY <2>5, <3>1, SingleVerdict
  <2>7. Cardinality({1}) = 1
    BY FS_Singleton
  <2>8. Proven(f, s)
    <3>1. /\ s.answer = a /\ s.audited = r.audited /\ s.events = 1 /\ s.body = r.body /\ s.body.op # "proxy"
          /\ s.results = r.results /\ s.outcome = NoVal /\ ~s.hit
      BY <1>5, <2>1, <2>4, <2>5, ZenonT(60)
    <3>2. NoVal # "SUCCESS"
      BY <1>7 DEF Outcomes
    <3> QED BY <1>4, <2>1, <2>3, <2>5, <2>6, <2>7, <3>1, <3>2 DEF Proven
  <2> QED BY <1>1, <1>5, <1>6, <2>4, <2>8 DEF Goto
<1>9. CASE proxy_respond(c)
  <2>1. r.body.op = "proxy"
    BY <1>1, <1>9 DEF proxy_respond, Doing, Op
  <2>2. PICK a : a = IF r.outcome \in {"TIMEOUT", "FAILED"} THEN r.answer
                     ELSE build_response(r.answer.decision, r.answer.output, <<>>)
    OBVIOUS
  <2>3. /\ a.output = r.answer.output
        /\ a.kind = "verdict" => r.outcome \notin {"TIMEOUT", "FAILED"} /\ a.decision = r.answer.decision
    <3>1. CASE r.outcome \in {"TIMEOUT", "FAILED"}
      BY <1>3, <2>1, <2>2, <3>1 DEF Ended
    <3>2. CASE r.outcome \notin {"TIMEOUT", "FAILED"}
      BY <2>2, <3>2 DEF build_response
    <3> QED BY <3>1, <3>2
  <2>4. PICK s : Goto(c, s) /\ s = [r EXCEPT !.pc = "store", !.answer = a]
    BY <1>1, <1>9, <2>2 DEF proxy_respond, Answer
  <2>5. r.events = 1 /\ Ended(r)
    BY <1>3, <2>1 DEF Knows
  <2>6. a.kind = "verdict" => r.answer.decision = Strictest(r.results) \/ r.outcome = "OUTPUT_BLOCKED"
    BY <2>3, <2>5 DEF Ended, Outcomes
  <2>7. \/ r.audited = <<>> /\ f > 0
        \/ DOMAIN r.audited = DOMAIN r.results /\ r.logged = r.outcome /\ Strictest(r.audited) = Strictest(r.results)
    <3>1. PICK xs, ys : xs = r.audited /\ ys = r.results
      OBVIOUS
    <3>2. \/ xs = <<>> /\ f > 0
          \/ /\ DOMAIN xs = DOMAIN ys /\ r.logged = r.outcome
             /\ \A i \in DOMAIN xs : xs[i].decision = ys[i].decision
      BY <1>3, <2>1, <3>1 DEF Recorded
    <3>3. DOMAIN xs = DOMAIN ys /\ (\A i \in DOMAIN xs : xs[i].decision = ys[i].decision) => Strictest(xs) = Strictest(ys)
      BY SameStrictest
    <3> QED BY <3>1, <3>2, <3>3
  <2>8. Proven(f, s)
    <3>1. /\ s.answer = a /\ s.body.op = "proxy" /\ s.audited = r.audited /\ s.events = 1 /\ s.body = r.body
          /\ s.results = r.results /\ s.outcome = r.outcome /\ ~s.hit /\ s.logged = r.logged
      BY <1>5, <2>1, <2>4, <2>5, ZenonT(60)
    <3>2. r.outcome = "SUCCESS" <=> a.output # NoVal
      BY <2>3, <2>5 DEF Ended
    <3>3. r.audited # <<>> => /\ DOMAIN r.audited = DOMAIN r.results /\ r.logged = r.outcome
                              /\ Strictest(r.audited) = Strictest(r.results)
      BY <2>7
    <3>4. r.audited # <<>> /\ a.kind = "verdict" => Strictest(r.audited) = a.decision \/ r.outcome = "OUTPUT_BLOCKED"
      BY <2>3, <2>6, <3>3
    <3>5. DOMAIN r.audited = EligibleIn(r.body) \/ (r.audited = <<>> /\ f > 0)
      BY <1>4, <2>7
    <3> QED BY <1>3, <1>4, <3>1, <3>2, <3>3, <3>4, <3>5 DEF Proven
  <2> QED BY <1>1, <1>5, <1>6, <2>4, <2>8 DEF Goto
<1> QED BY <1>8, <1>9

\* The middleware on the way out: the answer stays, or is lost.
LEMMA StoreNoted ==
    ASSUME RequestsOK, NEW c \in Clients, NEW f, Noted(f, req[c]), idem_store(c)
    PROVE  Noted(f, req'[c])
<1>1. PICK r : r = req[c] /\ DOMAIN r = Fields /\ DOMAIN req = Clients /\ Noted(f, r) /\ r.pc = "store"
  BY DEF RequestsOK, RequestOK, idem_store, At
<1>2. PICK s : Goto(c, s) /\ \/ s = [r EXCEPT !.pc = "answered"]
                             \/ s = [[r EXCEPT !.pc = "answered"] EXCEPT !.answer = Lost]
  BY <1>1 DEF idem_store, Step
<1>3. /\ s.pc = "answered" /\ s.body = r.body /\ s.audited = r.audited /\ s.events = r.events /\ s.sent = r.sent
      /\ s.results = r.results /\ s.outcome = r.outcome /\ s.hit = r.hit /\ s.logged = r.logged
      /\ s.replay = r.replay /\ s.answer \in {r.answer, Lost}
  BY <1>1, <1>2, ZenonT(60) DEF Fields
<1>4. Lost.kind # "verdict"
  BY Shapes
<1>5. r.replay = NoIdem /\ Told(r) => Proven(f, r)
  BY <1>1 DEF Noted, Gone, Leaving
<1>6. s.replay = NoIdem /\ Told(s) => Proven(f, s)
  <2>1. CASE s.answer = r.answer
    BY <1>3, <1>5, <2>1 DEF Told, Proven
  <2>2. CASE s.answer = Lost
    BY <1>3, <1>4, <1>5, <2>2 DEF Told, Proven
  <2> QED BY <1>3, <2>1, <2>2
<1>7. Noted(f, s)
  BY <1>3, <1>6 DEF Noted, Coming, Going, Gone, Scanned, Judging, Leaving
<1> QED BY <1>1, <1>2, <1>7 DEF Goto

\* Failures are counted up.
LEMMA FaultsGrow ==
    ASSUME faults \in Nat, [SdkNext]_vars
    PROVE  faults' \in Nat /\ faults <= faults'
<1> DEFINE Grow == faults' \in Nat /\ faults <= faults'
<1>1. (\A x : Fault(x) => Grow) /\ (NoFault => Grow) /\ (UNCHANGED faults => Grow)
  BY DEF Fault, NoFault
<1> SUFFICES Grow
  OBVIOUS
<1> HIDE DEF Grow
<1>2. ASSUME NEW c, Serve(c)
      PROVE  Grow
  <2>1. CASE authenticate_api_key(c) \/ tenant_read(c) \/ tenant_store(c)
             \/ idem_claim(c) \/ idem_lookup(c) \/ idem_store(c)
    BY <1>1, <2>1 DEF authenticate_api_key, tenant_read, tenant_store, idem_claim, idem_lookup, idem_store
  <2>2. CASE resolve_settings(c) \/ proxy_config(c) \/ cache_miss(c)
    <3>1. \A x, y : Metered(x, y) => Grow
      BY <1>1 DEF Metered
    <3> QED BY <1>1, <2>2, <3>1 DEF resolve_settings, proxy_config, cache_miss
  <2>3. CASE resolve_policy(c) \/ cache_hit(c)
    BY <1>1, <2>3 DEF resolve_policy, cache_hit
  <2>4. CASE ai_scan(c) \/ ai_scan_batch(c) \/ proxy_scan(c)
    BY <1>1, <2>4 DEF ai_scan, ai_scan_batch, proxy_scan, Scan
  <2>5. CASE \/ llm_fails(c) \/ provider_config_error(c) \/ provider_times_out(c) \/ provider_malformed(c)
             \/ provider_unavailable(c) \/ provider_unsupported(c)
             \/ \E t \in Replies : call_llm(c, t) \/ chat_completions(c, t)
    BY <1>1, <2>5 DEF llm_fails, provider_config_error, provider_times_out, provider_malformed,
              provider_unavailable, provider_unsupported, call_llm, chat_completions, UpstreamFails
  <2>6. CASE guard_completion(c) \/ guard_proxied(c) \/ audit_scan(c) \/ audit_batch(c) \/ log_interaction(c)
             \/ ai_respond(c) \/ proxy_respond(c)
    BY <1>1, <2>6 DEF guard_completion, guard_proxied, Inspect, audit_scan, audit_batch, log_interaction,
                      ai_respond, proxy_respond
  <2> QED BY <1>2, <2>1, <2>2, <2>3, <2>4, <2>5, <2>6 DEF Serve
<1>3. CASE Next
  <2>1. CASE \/ window_passes \/ (\E e \in cache : cache_expires(e))
             \/ \E k \in Keys \X IdemKeys : claim_expires(k) \/ response_expires(k)
    BY <1>1, <2>1 DEF window_passes, cache_expires, claim_expires, response_expires
  <2> QED BY <1>1, <1>2, <1>3, <2>1 DEF Next, gatewayVars
<1>4. CASE batch_start \/ interrupt \/ batch_skip \/ times_out \/ scan_interrupted
           \/ (\E n \in DOMAIN File : scan_start(n)) \/ \E i \in IdemKeys : client_scan(i)
  BY <1>1, <1>4 DEF batch_start, interrupt, batch_skip, times_out, scan_interrupted, scan_start, client_scan,
                    gatewayVars
<1>5. CASE \E c \in Clients : execute_request(c) \/ receive(c) \/ other_client(c)
  BY <1>1, <1>5 DEF execute_request, receive, other_client, rate_limit_dispatch, finish
<1>6. CASE UNCHANGED vars
  BY <1>1, <1>6 DEF vars, gatewayVars
<1> QED BY <1>3, <1>4, <1>5, <1>6 DEF SdkNext

\* The steps that serve a request.
LEMMA ServeNoted ==
    ASSUME RequestsOK, CacheOK, NEW c \in Clients, Screened(req[c]), faults \in Nat, faults' \in Nat, faults <= faults',
           Noted(faults, req[c]), \A e \in cache : e.answer.decision = "ALLOW", Serve(c)
    PROVE  Noted(faults', req'[c])
<1>1. CASE log_interaction(c)
  BY <1>1, LogNoted
<1>2. PICK f \in Nat, g \in Nat : f = faults /\ g = faults' /\ f <= g
  OBVIOUS
<1>3. ASSUME Noted(f, req'[c])
      PROVE  Noted(faults', req'[c])
  BY <1>2, <1>3, NotedLater
<1>4. CASE authenticate_api_key(c) \/ tenant_read(c) \/ tenant_store(c) \/ idem_claim(c) \/ idem_lookup(c)
  BY <1>2, <1>3, <1>4, EntryNoted
<1>5. CASE resolve_settings(c) \/ resolve_policy(c) \/ proxy_config(c) \/ cache_miss(c)
  BY <1>2, <1>3, <1>5, PolicyNoted
<1>6. CASE cache_hit(c)
  BY <1>2, <1>3, <1>6, HitNoted
<1>7. CASE ai_scan(c) \/ ai_scan_batch(c) \/ proxy_scan(c)
  BY <1>2, <1>3, <1>7, ScanNoted
<1>8. CASE \/ llm_fails(c) \/ provider_times_out(c) \/ provider_malformed(c) \/ provider_unavailable(c)
           \/ provider_unsupported(c) \/ provider_config_error(c)
           \/ \E t \in Replies : call_llm(c, t) \/ chat_completions(c, t)
  BY <1>2, <1>3, <1>8, ProviderNoted
<1>9. CASE guard_completion(c) \/ guard_proxied(c)
  BY <1>2, <1>3, <1>9, OutputNoted
<1>10. CASE audit_scan(c) \/ audit_batch(c)
  BY <1>2, <1>3, <1>10, AuditNoted
<1>11. CASE ai_respond(c) \/ proxy_respond(c)
  BY <1>2, <1>3, <1>11, RespondNoted
<1>12. CASE idem_store(c)
  BY <1>2, <1>3, <1>12, StoreNoted
<1> QED BY <1>1, <1>4, <1>5, <1>6, <1>7, <1>8, <1>9, <1>10, <1>11, <1>12 DEF Serve

LEMMA OnRecordStep ==
    ASSUME Inv, AllScreened, OnRecord, [SdkNext]_vars
    PROVE  OnRecord'
<1>1. RequestsOK /\ DOMAIN req = Clients /\ CacheOK
  BY DEF Inv, RequestsOK
<1>2. PICK f \in Nat, g \in Nat : f = faults /\ g = faults' /\ f <= g
  BY FaultsGrow DEF OnRecord
<1>3. /\ \A e \in cache : e.answer.decision = "ALLOW"
      /\ \A c \in Clients : Noted(f, req[c]) /\ Noted(g, req[c]) /\ Screened(req[c])
  BY <1>2, NotedLater DEF OnRecord, AllScreened
<1>4. ASSUME \A e \in cache' : e.answer.decision = "ALLOW", \A c \in Clients : Noted(g, req'[c])
      PROVE  OnRecord'
  BY <1>2, <1>4 DEF OnRecord
<1>5. ASSUME req' = req, cache' \subseteq cache
      PROVE  OnRecord'
  BY <1>3, <1>4, <1>5
<1>6. ASSUME NEW c \in Clients, \E r : Goto(c, r), Noted(g, req'[c]), \A e \in cache' : e.answer.decision = "ALLOW"
      PROVE  OnRecord'
  <2>1. \A d \in Clients : d # c => req'[d] = req[d]
    BY <1>6 DEF Goto
  <2>2. \A d \in Clients : Noted(g, req'[d])
    BY <1>3, <1>6, <2>1
  <2> QED BY <1>4, <1>6, <2>2
<1>7. ASSUME NEW c \in Clients, Serve(c)
      PROVE  OnRecord'
  <2>1. UNCHANGED cache \/ ai_respond(c)
    BY <1>7, ServeFrame
  <2>2. \E r : Goto(c, r)
    BY <1>7, ServeAdvances DEF Advances
  <2>3. Noted(g, req'[c])
    BY <1>1, <1>2, <1>3, <1>7, ServeNoted
  <2>4. \A e \in cache' : e.answer.decision = "ALLOW"
    <3>1. CASE ai_respond(c)
      <4>1. PICK a : a = build_response(req[c].answer.decision, req[c].answer.output, req[c].results)
        OBVIOUS
      <4>2. PICK new : new = [key |-> cache_key(req[c]), answer |-> a] /\ new.answer = a
        <5>1. PICK new : new = [key |-> cache_key(req[c]), answer |-> a]
          OBVIOUS
        <5> QED BY <5>1
      <4>3. cache' \subseteq cache \/ (cache' \subseteq cache \cup {new} /\ a.decision = "ALLOW")
        BY <3>1, <4>1, <4>2 DEF ai_respond, MayCache
      <4> QED BY <1>3, <4>2, <4>3
    <3> QED BY <1>3, <2>1, <3>1
  <2> QED BY <1>6, <2>2, <2>3, <2>4
<1>8. ASSUME NEW k \in Keys \X IdemKeys, response_expires(k)
      PROVE  OnRecord'
  <2>1. cache' = cache
    BY <1>8 DEF response_expires
  <2>2. ASSUME NEW c \in Clients
        PROVE  Noted(g, req'[c])
    <3>1. PICK r : r = req[c] /\ DOMAIN r = Fields /\ Noted(g, r)
      BY <1>1, <1>3 DEF RequestsOK, RequestOK
    <3>2. PICK s : s = [r EXCEPT !.late = FALSE] /\ req'[c] \in {r, s}
      BY <1>8, <3>1 DEF response_expires
    <3>3. \A n \in Fields \ {"late"} : s[n] = r[n]
      BY <3>1, <3>2
    <3>4. /\ s.pc = r.pc /\ s.body = r.body /\ s.policy = r.policy /\ s.results = r.results /\ s.down = r.down
          /\ s.sent = r.sent /\ s.outcome = r.outcome /\ s.answer = r.answer /\ s.audited = r.audited
          /\ s.logged = r.logged /\ s.events = r.events /\ s.hit = r.hit /\ s.replay = r.replay
      BY <3>3 DEF Fields
    <3>5. ScansOf(s) = ScansOf(r)
      BY <3>4 DEF ScansOf, DownIn
    <3>6. Coming(s) /\ Gone(g, s)
      BY <3>1, <3>4 DEF Noted, Coming, Silent, Gone, Told, Proven
    <3>7. Going(g, s)
      BY <3>1, <3>4, <3>5 DEF Noted, Going, Knows, Ahead, Ended, Recorded
    <3> QED BY <3>1, <3>2, <3>6, <3>7 DEF Noted
  <2> QED BY <1>3, <1>4, <2>1, <2>2
<1>9. ASSUME NEW c \in Clients, finish(c) \/ \E k, body : rate_limit_dispatch(c, k, body)
      PROVE  OnRecord'
  <2>1. cache' = cache
    BY <1>9 DEF finish, rate_limit_dispatch
  <2>2. PICK r : Goto(c, r) /\ \/ r.pc \in {"idle", "auth"} /\ Silent(r)
                               \/ r.pc = "answered" /\ r.answer = TooMany /\ r.sent = <<>>
    <3>1. CASE finish(c)
      BY <3>1 DEF finish, NoReq, Silent
    <3>2. ASSUME NEW k, NEW body, rate_limit_dispatch(c, k, body)
          PROVE  \E r : Goto(c, r) /\ \/ r.pc \in {"idle", "auth"} /\ Silent(r)
                                      \/ r.pc = "answered" /\ r.answer = TooMany /\ r.sent = <<>>
      <4>1. PICK q : q = [NoReq EXCEPT !.pc = "auth", !.key = k, !.body = body]
        OBVIOUS
      <4>2. DOMAIN q = Fields /\ q.sent = <<>> /\ q.pc = "auth" /\ Silent(q)
        BY <4>1 DEF NoReq, Fields, Silent
      <4>3. PICK r : Goto(c, r) /\ r \in {q, Reject(q, TooMany), [q EXCEPT !.unmetered = TRUE]}
        BY <3>2, <4>1 DEF rate_limit_dispatch
      <4>4. \/ r.pc \in {"idle", "auth"} /\ Silent(r)
            \/ r.pc = "answered" /\ r.answer = TooMany /\ r.sent = <<>>
        BY <4>2, <4>3 DEF Reject, Fields, Silent
      <4> QED BY <4>3, <4>4
    <3> QED BY <1>9, <3>1, <3>2
  <2>3. Noted(g, r)
    <3>1. CASE r.pc \in {"idle", "auth"} /\ Silent(r)
      BY <3>1 DEF Noted, Coming, Going, Gone, Scanned, Judging, Leaving
    <3>2. CASE r.pc = "answered" /\ r.answer = TooMany /\ r.sent = <<>>
      BY <3>2, TurnedAway, Shapes DEF Leaving
    <3> QED BY <2>2, <3>1, <3>2
  <2> QED BY <1>1, <1>3, <1>6, <2>1, <2>2, <2>3 DEF Goto
<1>10. CASE Next
  <2>1. CASE window_passes \/ \E k \in Keys \X IdemKeys : claim_expires(k)
    BY <1>5, <2>1 DEF window_passes, claim_expires
  <2>2. CASE \E e \in cache : cache_expires(e)
    BY <1>5, <2>2 DEF cache_expires
  <2> QED BY <1>5, <1>7, <1>8, <1>10, <2>1, <2>2 DEF Next, gatewayVars
<1>11. CASE batch_start \/ interrupt \/ batch_skip \/ times_out \/ scan_interrupted
            \/ (\E n \in DOMAIN File : scan_start(n)) \/ \E i \in IdemKeys : client_scan(i)
  BY <1>5, <1>11 DEF batch_start, interrupt, batch_skip, times_out, scan_interrupted, scan_start, client_scan,
                     gatewayVars
<1>12. ASSUME NEW c \in Clients, execute_request(c) \/ receive(c) \/ other_client(c)
       PROVE  OnRecord'
  BY <1>9, <1>12 DEF execute_request, receive, other_client
<1>13. CASE UNCHANGED vars
  BY <1>5, <1>13 DEF vars, gatewayVars
<1> QED BY <1>10, <1>11, <1>12, <1>13 DEF SdkNext

LEMMA RecordIsEvidence ==
    ASSUME RequestsOK, OnRecord
    PROVE  VerdictsAudited
<1> SUFFICES ASSUME NEW c \in Clients, Settled(c)
             PROVE  LET audited == req[c].audited
                        proxied == Op(c) = "proxy"
                        scans == IF req[c].hit THEN 1 ELSE Cardinality(DOMAIN req[c].results) IN
                    /\ scans > 0
                    /\ Cardinality(DOMAIN audited) = scans \/ (proxied /\ audited = <<>> /\ faults > 0)
                    /\ req[c].events = IF proxied THEN 1 ELSE scans
                    /\ audited # <<>> /\ req[c].answer.kind = "verdict" =>
                          Strictest(audited) = req[c].answer.decision \/ req[c].outcome = "OUTPUT_BLOCKED"
                    /\ proxied /\ audited # <<>> => req[c].logged = req[c].outcome
                    /\ req[c].answer # Lost => (req[c].outcome = "SUCCESS" <=> proxied /\ req[c].answer.output # NoVal)
  BY DEF VerdictsAudited
<1>1. PICK r : r = req[c] /\ r.pc \in Leaving /\ r.body \in Bodies /\ Proven(faults, r)
  BY DEF Settled, OnRecord, Noted, Gone, Told, Leaving, Op, RequestsOK, RequestOK, Known
<1>2. PICK scans : scans = (IF r.hit THEN {1} ELSE EligibleIn(r.body)) /\ scans # {}
  BY <1>1 DEF Proven
<1>3. IsFiniteSet(scans) /\ Cardinality({1}) = 1
  <2>1. PICK n \in Nat : DOMAIN r.body.items = 1..n
    BY <1>1, BodyFacts
  <2>2. EligibleIn(r.body) \in SUBSET (1..n)
    BY <1>1, <2>1, BodyFacts, EligibleItems
  <2>3. PICK lo \in Int : lo = 1
    OBVIOUS
  <2>4. IsFiniteSet(lo..n)
    BY FS_Interval
  <2>5. IsFiniteSet(EligibleIn(r.body))
    BY <2>2, <2>3, <2>4, FS_Subset
  <2> QED BY <1>2, <2>5, FS_Singleton
<1>4. Cardinality(scans) \in Nat /\ Cardinality(scans) > 0
  <2>1. Cardinality(scans) \in Nat
    BY <1>3, FS_CardinalityType
  <2>2. Cardinality(scans) # 0
    BY <1>2, <1>3, FS_EmptySet
  <2> QED BY <2>1, <2>2
<1>5. (IF r.hit THEN 1 ELSE Cardinality(DOMAIN r.results)) = Cardinality(scans)
  BY <1>1, <1>2, <1>3 DEF Proven
<1> QED BY <1>1, <1>2, <1>4, <1>5 DEF Proven, Op

\* Every verdict leaves evidence: a request that was told a verdict, or whose
\* text was sent by the proxy, has a row for every input it scanned, and the
\* rows say what it was told; the rows of a proxy call alone may be missing,
\* after a failure of the database, and are never there without their
\* interaction (audit_scan, audit_batch, log_interaction, cache_hit, idem_store).
THEOREM VerdictsOnRecord == SdkSpec => []VerdictsAudited
<1>1. SdkInit => OnRecord
  <2>1. \A f : Noted(f, NoReq)
    BY DEF NoReq, Noted, Coming, Going, Gone, Silent, Scanned, Judging, Leaving
  <2> QED BY <2>1 DEF SdkInit, Init, OnRecord
<1>2. Inv /\ AllScreened /\ OnRecord /\ [SdkNext]_vars => OnRecord'
  BY OnRecordStep
<1>3. Inv /\ OnRecord => VerdictsAudited
  BY RecordIsEvidence DEF Inv
<1> QED BY <1>1, <1>2, <1>3, ScreenedAlways, PTL DEF SdkSpec
=============================================================================
