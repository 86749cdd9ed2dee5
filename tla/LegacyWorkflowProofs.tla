------------------------- MODULE LegacyWorkflowProofs -------------------------
(***************************************************************************)
(* Theorems about a legacy run, for any repository, any limits, any call   *)
(* budget and any number of retries.                                       *)
(*                                                                         *)
(* The inductive invariant of the workflow follows its state: which steps  *)
(* are behind it, that each of their answers builds on the ones before,    *)
(* that each trace tells the truth about its answer, and that the traces   *)
(* and the calls reserved account for each other.                          *)
(*                                                                         *)
(* The token budget needs no more than what one message becomes: sections  *)
(* are removed by rank, and the ranks of a strict order are one to one.    *)
(*                                                                         *)
(* The inductive invariant of the evidence follows its stages: what the    *)
(* searches done so far have found, that the files selected are the best   *)
(* of them, what the reads done so far have hashed and quoted, and what    *)
(* the bundle made of it.                                                  *)
(***************************************************************************)
EXTENDS RunEvaluation, FiniteSetTheorems, NaturalsInduction, WellFoundedInduction, TLAPS

Names == {"analyze", "generate", "review"}

\* Where the executor is within a step, and which steps it has left behind.
Busy == {"prompt", "call", "backoff", "trace"}
Working == {"analyzing", "generating", "reviewing"}
PastAnalyze == {"generating", "reviewing", "completed"}
PastGenerate == {"reviewing", "completed"}

\* What a step may answer, given its inputs as it reads them: it names them by
\* their hashes, and cannot be better than they are.
GenerationsOn(a) ==
  {g \in {Generation(t, f.asks, f.degraded, AnalysisHash(a)) : t \in Texts, f \in Flags} :
     a.degraded => g.degraded}
ReviewsOn(a, g) ==
  {r \in {Review(t, d, f.asks, f.degraded, AnalysisHash(a), GenerationHash(g)) :
            t \in Texts, d \in {"PASS", "REJECT"}, f \in Flags} :
     a.degraded \/ g.degraded => r.degraded}
AnswersOn(st, out) ==
  IF st = "analyzing" THEN Analyses
  ELSE IF st = "generating" THEN GenerationsOn(ReparsedAnalysis(out["analyze"]))
  ELSE ReviewsOn(ReparsedAnalysis(out["analyze"]), ReparsedGeneration(out["generate"]))

\* A trace that tells what was answered and where it came from.
TrueTraces(o) ==
  {t \in Traces : /\ t.status = "degraded" <=> o.degraded
                  /\ t.fallback_level = "rule_baseline" <=> o.text \in BaselineTexts}

\* How many calls a trace says its step was charged: all its attempts, but
\* perhaps not the last if it came to nothing.
Least(t) == t.retry_count + IF t.fallback_level = "rule_baseline" THEN 0 ELSE 1
Most(t) == t.retry_count + 1
LeastBehind(st, tr) ==
  (IF st \in PastAnalyze THEN Least(tr["analyze"]) ELSE 0)
    + (IF st \in PastGenerate THEN Least(tr["generate"]) ELSE 0)
    + (IF st = "completed" THEN Least(tr["review"]) ELSE 0)
MostBehind(st, tr) ==
  (IF st \in PastAnalyze THEN Most(tr["analyze"]) ELSE 0)
    + (IF st \in PastGenerate THEN Most(tr["generate"]) ELSE 0)
    + (IF st = "completed" THEN Most(tr["review"]) ELSE 0)

TypeInv ==
  /\ phase \in {"setup", "evidence", "prompt", "call", "backoff", "trace", "store", "done"}
  /\ state \in {"created", "analyzing", "generating", "reviewing", "completed", "failed"}
  /\ calls \in 0..MaxCalls /\ retries \in 0..MaxRetries /\ retries <= calls
  /\ late \in BOOLEAN
  /\ exit \in {0, 2, 3, 4, 9} /\ (phase = "done" <=> exit # 9)
  /\ outputs \in [Names -> {NoOutput} \cup Analyses \cup Generations \cup Reviews]
  /\ traces \in [Names -> {NoOutput} \cup Traces]

PhaseInv ==
  /\ phase \in {"setup", "evidence"} => state = "created" /\ calls = 0 /\ retries = 0
  /\ phase \in Busy => state \in Working
  /\ phase = "store" => state = "completed"

OutputInv ==
  /\ state \in PastAnalyze =>
       outputs["analyze"] \in Analyses /\ traces["analyze"] \in TrueTraces(outputs["analyze"])
  /\ state \in PastGenerate =>
       /\ outputs["generate"] \in GenerationsOn(ReparsedAnalysis(outputs["analyze"]))
       /\ traces["generate"] \in TrueTraces(outputs["generate"])
  /\ state = "completed" =>
       /\ outputs["review"] \in ReviewsOn(ReparsedAnalysis(outputs["analyze"]),
                                         ReparsedGeneration(outputs["generate"]))
       /\ traces["review"] \in TrueTraces(outputs["review"])

DraftInv ==
  phase = "trace" =>
    /\ draft.output \in AnswersOn(state, outputs)
    /\ draft.trace \in TrueTraces(draft.output)
    /\ LeastBehind(state, traces) + Least(draft.trace) <= calls
    /\ calls <= MostBehind(state, traces) + Most(draft.trace)

AccountInv ==
  /\ phase \in {"prompt", "call", "backoff"} =>
       /\ LeastBehind(state, traces) + retries <= calls
       /\ calls <= MostBehind(state, traces) + retries
  /\ state = "completed" =>
       LeastBehind(state, traces) <= calls /\ calls <= MostBehind(state, traces)

\* The manifest takes its flags from the review and its hashes from the last
\* answers that name them.
ManifestInv ==
  /\ manifest # NoOutput <=> exit \in {0, 4}
  /\ exit \in {0, 4} =>
       LET g == outputs["generate"]
           r == outputs["review"]
       IN  /\ state = "completed" /\ manifest.status = state
           /\ manifest.degraded = r.degraded
           /\ manifest.analysis_hash = r.analysisHash
           /\ manifest.generation_hash = r.generationHash
           /\ manifest.review_hash = r.hash
           /\ exit = 0 <=> ~ (r.degraded \/ g.review \/ r.human)

WInv ==
  TypeInv /\ PhaseInv /\ OutputInv /\ DraftInv /\ AccountInv /\ ManifestInv

(* The steps, and what their answers are *)

\* The three steps and their states.
LEMMA StepsAndStates ==
  /\ DOMAIN StateOf = Names
  /\ StateOf["analyze"] = "analyzing" /\ StateOf["generate"] = "generating"
  /\ StateOf["review"] = "reviewing"
  /\ NextState["analyze"] = "generating" /\ NextState["generate"] = "reviewing"
  /\ NextState["review"] = "completed"
  BY DEF StateOf, NextState, Names

\* The step of a state.
LEMMA CurrentStep ==
  /\ state = "analyzing" => Step = "analyze"
  /\ state = "generating" => Step = "generate"
  /\ state = "reviewing" => Step = "review"
  <1>1. Step = CHOOSE s \in Names : StateOf[s] = state
    BY StepsAndStates DEF Step
  <1> QED BY <1>1, StepsAndStates DEF Names

\* The hashes of an answer's constructor are those of its content.
LEMMA AnalysisFields ==
  ASSUME NEW a \in Analyses
  PROVE  /\ a.text \in Texts /\ a.review \in BOOLEAN /\ a.degraded \in BOOLEAN
         /\ a.degraded => a.review
         /\ a.hash = AnalysisHash(a) /\ a # NoOutput
  <1>1. PICK t \in Texts, f \in Flags : a = Analysis(t, f.asks, f.degraded)
    BY DEF Analyses
  <1>2. f.asks \in BOOLEAN /\ f.degraded \in BOOLEAN /\ (f.degraded => f.asks)
    BY DEF Flags
  <1>3. a # NoOutput
    BY NoOutputAssumption
  <1> QED BY <1>1, <1>2, <1>3 DEF Analysis, AnalysisHash

\* The same of a generation made for an analysis.
LEMMA GenerationFields ==
  ASSUME NEW a \in Analyses, NEW g \in GenerationsOn(a)
  PROVE  /\ g \in Generations /\ g # NoOutput
         /\ g.text \in Texts /\ g.review \in BOOLEAN /\ g.degraded \in BOOLEAN
         /\ (g.degraded => g.review) /\ (a.degraded => g.degraded)
         /\ g.analysisHash = AnalysisHash(a) /\ g.hash = GenerationHash(g)
  <1>1. PICK t \in Texts, f \in Flags : g = Generation(t, f.asks, f.degraded, AnalysisHash(a))
    BY DEF GenerationsOn
  <1>2. f.asks \in BOOLEAN /\ f.degraded \in BOOLEAN /\ (f.degraded => f.asks)
    BY DEF Flags
  <1>3. g \in Generations
    BY <1>1 DEF Generations
  <1>4. g # NoOutput
    BY <1>3, NoOutputAssumption
  <1>5. a.degraded => g.degraded
    BY DEF GenerationsOn
  <1> QED BY <1>1, <1>2, <1>3, <1>4, <1>5 DEF Generation, GenerationHash

\* And of a review made for both.
LEMMA ReviewFields ==
  ASSUME NEW a \in Analyses, NEW g \in GenerationsOn(a), NEW r \in ReviewsOn(a, g)
  PROVE  /\ r \in Reviews /\ r # NoOutput
         /\ r.text \in Texts /\ r.human \in BOOLEAN /\ r.degraded \in BOOLEAN
         /\ r.decision \in {"PASS", "REJECT"}
         /\ (r.degraded => r.human) /\ (a.degraded \/ g.degraded => r.degraded)
         /\ r.analysisHash = AnalysisHash(a) /\ r.generationHash = GenerationHash(g)
         /\ r.hash = ReviewHash(r)
  <1>1. PICK t \in Texts, d \in {"PASS", "REJECT"}, f \in Flags :
          r = Review(t, d, f.asks, f.degraded, AnalysisHash(a), GenerationHash(g))
    BY DEF ReviewsOn
  <1>2. f.asks \in BOOLEAN /\ f.degraded \in BOOLEAN /\ (f.degraded => f.asks)
    BY DEF Flags
  <1>3. r \in Reviews
    BY <1>1, GenerationFields DEF Reviews
  <1>4. r # NoOutput
    BY <1>3, NoOutputAssumption
  <1>5. a.degraded \/ g.degraded => r.degraded
    BY DEF ReviewsOn
  <1> QED BY <1>1, <1>2, <1>3, <1>4, <1>5 DEF Review, ReviewHash

\* Parsing an output again changes its text at most: what is read is an answer
\* the step could have given, with the hash of its content.
LEMMA AnalysisRead ==
  ASSUME NEW a \in Analyses
  PROVE  /\ ReparsedAnalysis(a) \in Analyses
         /\ ReparsedAnalysis(a).degraded = a.degraded
         /\ Sanitized[a.text] = a.text => ReparsedAnalysis(a).hash = a.hash
         /\ Sanitized[a.text] # a.text => ReparsedAnalysis(a).hash # a.hash
  <1>1. PICK t \in Texts, f \in Flags : a = Analysis(t, f.asks, f.degraded)
    BY DEF Analyses
  <1>2. a.text = t /\ ReparsedAnalysis(a) = Analysis(Sanitized[t], f.asks, f.degraded)
    BY <1>1 DEF ReparsedAnalysis, Analysis
  <1>3. Sanitized[t] \in Texts
    BY TextsAssumption
  <1>4. ReparsedAnalysis(a) \in Analyses
    BY <1>2, <1>3 DEF Analyses
  <1> QED BY <1>1, <1>2, <1>4 DEF Analysis

\* The same of a generation.
LEMMA GenerationRead ==
  ASSUME NEW a \in Analyses, NEW g \in GenerationsOn(a)
  PROVE  /\ ReparsedGeneration(g) \in GenerationsOn(a)
         /\ ReparsedGeneration(g).degraded = g.degraded
         /\ Sanitized[g.text] = g.text => ReparsedGeneration(g).hash = g.hash
         /\ Sanitized[g.text] # g.text => ReparsedGeneration(g).hash # g.hash
  <1>1. PICK t \in Texts, f \in Flags : g = Generation(t, f.asks, f.degraded, AnalysisHash(a))
    BY DEF GenerationsOn
  <1>2. /\ g.text = t /\ g.degraded = f.degraded
        /\ ReparsedGeneration(g) = Generation(Sanitized[t], f.asks, f.degraded, AnalysisHash(a))
    BY <1>1 DEF ReparsedGeneration, Generation
  <1>3. Sanitized[t] \in Texts
    BY TextsAssumption
  <1>4. ReparsedGeneration(g).degraded = g.degraded
    BY <1>2 DEF Generation
  <1>5. ReparsedGeneration(g) \in GenerationsOn(a)
    BY <1>2, <1>3, <1>4 DEF GenerationsOn
  <1> QED BY <1>1, <1>2, <1>4, <1>5 DEF Generation

\* A review names what is read of both its inputs.
LEMMA LineageRead ==
  ASSUME NEW a \in Analyses, NEW g \in GenerationsOn(ReparsedAnalysis(a)),
         NEW r \in ReviewsOn(ReparsedAnalysis(a), ReparsedGeneration(g))
  PROVE  /\ g.analysisHash = ReparsedAnalysis(a).hash
         /\ r.analysisHash = ReparsedAnalysis(a).hash
         /\ ReparsedGeneration(g) \in GenerationsOn(ReparsedAnalysis(a))
         /\ ReparsedGeneration(g) \in Generations
         /\ r.generationHash = ReparsedGeneration(g).hash
  <1>1. ReparsedAnalysis(a) \in Analyses
    BY AnalysisRead
  <1>2. ReparsedGeneration(g) \in GenerationsOn(ReparsedAnalysis(a))
    BY <1>1, GenerationRead
  <1> QED BY <1>1, <1>2, AnalysisFields, GenerationFields, ReviewFields

\* Whatever the model says, a step answers what it may, and says whose words
\* they are.
LEMMA AnalyzeAnswers ==
  ASSUME NEW usable \in BOOLEAN, NEW o \in AnalyzeOutputs(usable)
  PROVE  o \in Analyses /\ (o.text \in BaselineTexts <=> ~ usable)
  <1>1. CASE usable
    <2>1. PICK t \in ModelTexts, f \in Flags : o = Analysis(t, f.asks, f.degraded)
      BY <1>1 DEF AnalyzeOutputs, ParsedAnalyses
    <2>2. o \in Analyses
      BY <2>1 DEF Analyses, Texts
    <2>3. o.text = t /\ t \notin BaselineTexts
      BY <2>1, TextsAssumption DEF Analysis
    <2> QED BY <1>1, <2>2, <2>3
  <1>2. CASE ~ usable
    <2> DEFINE f == [asks |-> TRUE, degraded |-> TRUE]
    <2>1. f \in Flags /\ f.asks = TRUE /\ f.degraded = TRUE
      BY DEF Flags
    <2>2. PICK t \in BaselineTexts : o = Analysis(t, f.asks, f.degraded)
      BY <1>2, <2>1 DEF AnalyzeOutputs, DegradedAnalyses
    <2> HIDE DEF f
    <2>3. o \in Analyses
      BY <2>1, <2>2 DEF Analyses, Texts
    <2>4. o.text = t
      BY <2>2 DEF Analysis
    <2> QED BY <1>2, <2>3, <2>4
  <1> QED BY <1>1, <1>2

\* The generator's answers, wrapped again or not.
LEMMA GenerateAnswers ==
  ASSUME outputs["analyze"] \in Analyses,
         NEW usable \in BOOLEAN, NEW o \in GenerateOutputs(usable)
  PROVE  /\ o \in GenerationsOn(ReparsedAnalysis(outputs["analyze"]))
         /\ o.text \in BaselineTexts <=> ~ usable
  <1> DEFINE a == ReparsedAnalysis(outputs["analyze"])
             ah == a.hash
             said == IF usable THEN ParsedGenerations(ah) ELSE DegradedGenerations(ah)
             forced == [asks |-> TRUE, degraded |-> TRUE]
  <1>0. forced \in Flags /\ forced.asks = TRUE /\ forced.degraded = TRUE
    BY DEF Flags
  <1>1. PICK g \in said : o = IF a.degraded /\ ~ g.degraded
                              THEN Generation(g.text, TRUE, TRUE, ah) ELSE g
    BY DEF GenerateOutputs
  <1>2. PICK text \in Texts, f \in Flags :
          /\ g = Generation(text, f.asks, f.degraded, ah)
          /\ text \in BaselineTexts <=> ~ usable
    <2>1. CASE usable
      BY <2>1, <1>1, TextsAssumption DEF ParsedGenerations, Texts
    <2>2. CASE ~ usable
      BY <2>2, <1>0, <1>1 DEF DegradedGenerations, Texts
    <2> QED BY <2>1, <2>2
  <1>3. g.text = text /\ g.degraded = f.degraded /\ f.degraded \in BOOLEAN
    BY <1>2 DEF Generation, Flags
  <1>4. PICK e \in Flags : /\ o = Generation(text, e.asks, e.degraded, ah)
                           /\ a.degraded => e.degraded
    <2>1. CASE a.degraded /\ ~ g.degraded
      <3>1. o = Generation(text, forced.asks, forced.degraded, ah)
        BY <2>1, <1>0, <1>1, <1>3
      <3> QED BY <1>0, <3>1
    <2>2. CASE ~ (a.degraded /\ ~ g.degraded)
      BY <2>2, <1>1, <1>2, <1>3
    <2> QED BY <2>1, <2>2
  <1>5. o.text = text /\ o.degraded = e.degraded
    BY <1>4 DEF Generation
  <1>6. ah = AnalysisHash(a)
    BY AnalysisRead, AnalysisFields
  <1> HIDE DEF a, ah, forced, said
  <1>7. o \in GenerationsOn(a)
    BY <1>4, <1>5, <1>6 DEF GenerationsOn
  <1> QED BY <1>2, <1>5, <1>7 DEF a

\* And the reviewer's.
LEMMA ReviewAnswers ==
  ASSUME outputs["analyze"] \in Analyses,
         outputs["generate"] \in GenerationsOn(ReparsedAnalysis(outputs["analyze"])),
         NEW usable \in BOOLEAN, NEW o \in ReviewOutputs(usable)
  PROVE  /\ o \in ReviewsOn(ReparsedAnalysis(outputs["analyze"]),
                            ReparsedGeneration(outputs["generate"]))
         /\ o.text \in BaselineTexts <=> ~ usable
  <1> DEFINE a == ReparsedAnalysis(outputs["analyze"])
             g == ReparsedGeneration(outputs["generate"])
             ah == a.hash
             gh == g.hash
             said == IF usable THEN ParsedReviews(ah, gh) ELSE DegradedReviews(ah, gh)
             forced == [asks |-> TRUE, degraded |-> TRUE]
  <1>0. forced \in Flags /\ forced.asks = TRUE /\ forced.degraded = TRUE
    BY DEF Flags
  <1>1. PICK r \in said : o = IF (a.degraded \/ g.degraded) /\ ~ r.degraded
                              THEN Review(r.text, r.decision, TRUE, TRUE, ah, gh) ELSE r
    BY DEF ReviewOutputs
  <1>2. PICK text \in Texts, d \in {"PASS", "REJECT"}, f \in Flags :
          /\ r = Review(text, d, f.asks, f.degraded, ah, gh)
          /\ text \in BaselineTexts <=> ~ usable
    <2>1. CASE usable
      BY <2>1, <1>1, TextsAssumption DEF ParsedReviews, Texts
    <2>2. CASE ~ usable
      BY <2>2, <1>0, <1>1 DEF DegradedReviews, Texts
    <2> QED BY <2>1, <2>2
  <1>3. /\ r.text = text /\ r.decision = d
        /\ r.degraded = f.degraded /\ f.degraded \in BOOLEAN
    BY <1>2 DEF Review, Flags
  <1>4. PICK e \in Flags : /\ o = Review(text, d, e.asks, e.degraded, ah, gh)
                           /\ (a.degraded \/ g.degraded) => e.degraded
    <2>1. CASE (a.degraded \/ g.degraded) /\ ~ r.degraded
      <3>1. o = Review(text, d, forced.asks, forced.degraded, ah, gh)
        BY <2>1, <1>0, <1>1, <1>3
      <3> QED BY <1>0, <3>1
    <2>2. CASE ~ ((a.degraded \/ g.degraded) /\ ~ r.degraded)
      BY <2>2, <1>1, <1>2, <1>3
    <2> QED BY <2>1, <2>2
  <1>5. o.text = text /\ o.degraded = e.degraded
    BY <1>4 DEF Review
  <1>6. ah = AnalysisHash(a) /\ gh = GenerationHash(g)
    <2>1. a \in Analyses
      BY AnalysisRead
    <2>2. g \in GenerationsOn(a)
      BY <2>1, GenerationRead
    <2> HIDE DEF a, g
    <2> QED BY <2>1, <2>2, AnalysisFields, GenerationFields
  <1> HIDE DEF a, g, ah, gh, forced, said
  <1>7. o \in ReviewsOn(a, g)
    BY <1>4, <1>5, <1>6 DEF ReviewsOn
  <1> QED BY <1>2, <1>5, <1>7 DEF a, g

\* What the step of a working executor answers, whichever step it is.
LEMMA AnswersAreSound ==
  ASSUME OutputInv, state \in Working, NEW usable \in BOOLEAN, NEW o \in Answers(usable)
  PROVE  /\ o \in AnswersOn(state, outputs) /\ o.degraded \in BOOLEAN
         /\ (o.text \in BaselineTexts <=> ~ usable)
  <1>1. ASSUME state = "analyzing"
        PROVE  /\ o \in AnswersOn(state, outputs) /\ o.degraded \in BOOLEAN
               /\ (o.text \in BaselineTexts <=> ~ usable)
    <2>1. o \in AnalyzeOutputs(usable)
      BY <1>1 DEF Answers
    <2>2. o \in Analyses /\ (o.text \in BaselineTexts <=> ~ usable)
      BY <2>1, AnalyzeAnswers
    <2> QED BY <1>1, <2>2, AnalysisFields DEF AnswersOn
  <1>2. ASSUME state = "generating"
        PROVE  /\ o \in AnswersOn(state, outputs) /\ o.degraded \in BOOLEAN
               /\ (o.text \in BaselineTexts <=> ~ usable)
    <2>1. o \in GenerateOutputs(usable)
      BY <1>2 DEF Answers
    <2>2. outputs["analyze"] \in Analyses
      BY <1>2 DEF OutputInv, PastAnalyze
    <2>3. /\ o \in GenerationsOn(ReparsedAnalysis(outputs["analyze"]))
          /\ (o.text \in BaselineTexts <=> ~ usable)
      BY <2>1, <2>2, GenerateAnswers
    <2> QED BY <1>2, <2>2, <2>3, AnalysisRead, GenerationFields DEF AnswersOn
  <1>3. ASSUME state = "reviewing"
        PROVE  /\ o \in AnswersOn(state, outputs) /\ o.degraded \in BOOLEAN
               /\ (o.text \in BaselineTexts <=> ~ usable)
    <2>1. o \in ReviewOutputs(usable)
      BY <1>3 DEF Answers
    <2>2. /\ outputs["analyze"] \in Analyses
          /\ outputs["generate"] \in GenerationsOn(ReparsedAnalysis(outputs["analyze"]))
      BY <1>3 DEF OutputInv, PastAnalyze, PastGenerate
    <2>3. /\ o \in ReviewsOn(ReparsedAnalysis(outputs["analyze"]),
                             ReparsedGeneration(outputs["generate"]))
          /\ (o.text \in BaselineTexts <=> ~ usable)
      BY <2>1, <2>2, ReviewAnswers
    <2> QED BY <1>3, <2>2, <2>3, AnalysisRead, GenerationRead, ReviewFields DEF AnswersOn
  <1> QED BY <1>1, <1>2, <1>3 DEF Working

-------------------------------------------------------------------------------
(* The initial state and the steps *)

\* Nothing has been done or charged at first.
LEMMA WorkflowStart == Init => WInv
  <1> SUFFICES ASSUME Init PROVE WInv
    OBVIOUS
  <1> USE DEF Init
  <1>1. TypeInv
    <2>1. outputs = [s \in Names |-> NoOutput] /\ traces = [s \in Names |-> NoOutput]
      BY StepsAndStates
    <2>2. 0 \in 0..MaxCalls /\ 0 \in 0..MaxRetries
      BY WorkflowAssumption
    <2>3. outputs \in [Names -> {NoOutput} \cup Analyses \cup Generations \cup Reviews]
          /\ traces \in [Names -> {NoOutput} \cup Traces]
      BY <2>1
    <2>4. calls \in 0..MaxCalls /\ retries \in 0..MaxRetries /\ retries <= calls
      BY <2>2
    <2> QED BY <2>3, <2>4 DEF TypeInv
  <1>2. PhaseInv
    BY DEF PhaseInv, Busy
  <1>3. OutputInv /\ DraftInv /\ AccountInv
    BY DEF OutputInv, DraftInv, AccountInv, PastAnalyze, PastGenerate
  <1>4. ManifestInv
    BY DEF ManifestInv
  <1> QED BY <1>1, <1>2, <1>3, <1>4 DEF WInv

\* A run that ends with an error leaves what it has and has no manifest.
LEMMA RunFails ==
  ASSUME WInv, phase # "done", state' = state \/ state' = "failed",
         phase' = "done", exit' \in {2, 3},
         UNCHANGED <<calls, retries, late, outputs, traces, manifest>>
  PROVE  WInv'
  <1>1. TypeInv'
    BY DEF WInv, TypeInv
  <1>2. PhaseInv' /\ DraftInv'
    BY DEF PhaseInv, DraftInv, Busy
  <1>3. OutputInv'
    BY DEF WInv, OutputInv, PastAnalyze, PastGenerate
  <1>4. AccountInv'
    <2>1. state' = "completed" =>
            LeastBehind(state, traces) <= calls /\ calls <= MostBehind(state, traces)
      BY DEF WInv, AccountInv
    <2> QED BY <2>1 DEF AccountInv
  <1>5. ManifestInv'
    BY DEF WInv, TypeInv, ManifestInv
  <1> QED BY <1>1, <1>2, <1>3, <1>4, <1>5 DEF WInv

\* The calls of the step so far, whatever the phase, while it is not over.
LEMMA StepGoesOn ==
  ASSUME WInv, phase \in {"prompt", "call", "backoff"},
         phase' \in {"prompt", "call", "backoff"}, late' \in BOOLEAN,
         \/ UNCHANGED <<calls, retries>>
         \/ /\ calls < MaxCalls /\ retries < MaxRetries
            /\ calls' = calls + 1 /\ retries' = retries + 1,
         UNCHANGED <<state, outputs, traces, manifest, exit>>
  PROVE  WInv'
  <1>0. state \in Working /\ calls \in Nat /\ retries \in Nat /\ MaxCalls \in Nat /\ MaxRetries \in Nat
    BY WorkflowAssumption DEF WInv, TypeInv, PhaseInv, Busy
  <1>1. TypeInv'
    BY <1>0 DEF WInv, TypeInv
  <1>2. PhaseInv' /\ DraftInv'
    BY <1>0 DEF PhaseInv, DraftInv
  <1>3. OutputInv'
    BY DEF WInv, OutputInv
  <1>4. AccountInv'
    <2>1. /\ LeastBehind(state, traces) + retries <= calls
          /\ calls <= MostBehind(state, traces) + retries
      BY DEF WInv, AccountInv
    <2>2. LeastBehind(state, traces) \in Int /\ MostBehind(state, traces) \in Int
      <3>1. state # "completed" /\ (state \in PastAnalyze => traces["analyze"] \in Traces)
            /\ (state \in PastGenerate => traces["generate"] \in Traces)
        BY <1>0 DEF Working, WInv, OutputInv, TrueTraces
      <3>2. \A t \in Traces : Least(t) \in Int /\ Most(t) \in Int
        BY <1>0 DEF Traces, Least, Most
      <3> QED BY <3>1, <3>2 DEF LeastBehind, MostBehind
    <2>3. /\ LeastBehind(state, traces) + retries' <= calls'
          /\ calls' <= MostBehind(state, traces) + retries'
      BY <1>0, <2>1, <2>2
    <2> QED BY <1>0, <2>3 DEF AccountInv, Working
  <1>5. ManifestInv'
    BY DEF WInv, ManifestInv
  <1> QED BY <1>1, <1>2, <1>3, <1>4, <1>5 DEF WInv

\* An answer and the trace that is about to be written of it.
LEMMA AnswerDrafted ==
  ASSUME WInv, phase = "call", NEW usable \in BOOLEAN,
         NEW level \in {"none", "retry", "json_repair", "rule_baseline"},
         usable <=> level # "rule_baseline", Drafted(usable, level),
         calls' = calls + 1 \/ (calls' = calls /\ ~ usable), calls' <= MaxCalls
  PROVE  WInv'
  <1>0. /\ state \in Working /\ calls \in Nat /\ retries \in 0..MaxRetries
        /\ MaxCalls \in Nat /\ MaxRetries \in Nat /\ retries \in Nat
        /\ phase' = "trace" /\ UNCHANGED <<state, retries, late, outputs, traces, manifest, exit>>
    BY WorkflowAssumption DEF WInv, TypeInv, PhaseInv, Busy, Drafted
  <1>1. PICK o \in Answers(usable) : draft' = [output |-> o, trace |-> TraceOf(o, level)]
    BY DEF Drafted
  <1>2. /\ o \in AnswersOn(state, outputs) /\ o.degraded \in BOOLEAN
        /\ o.text \in BaselineTexts <=> ~ usable
    BY <1>0, AnswersAreSound DEF WInv
  <1>3. /\ draft'.output = o /\ draft'.trace = TraceOf(o, level)
        /\ TraceOf(o, level).retry_count = retries
        /\ TraceOf(o, level).fallback_level = level
        /\ TraceOf(o, level).status = IF o.degraded THEN "degraded" ELSE "success"
    BY <1>1 DEF TraceOf
  <1>4. TraceOf(o, level) \in TrueTraces(o)
    <2>1. TraceOf(o, level) \in Traces
      BY <1>0, <1>2 DEF TraceOf, Traces
    <2>2. level = "rule_baseline" <=> o.text \in BaselineTexts
      BY <1>2
    <2> QED BY <1>2, <1>3, <2>1, <2>2 DEF TrueTraces
  <1>5. TypeInv'
    BY <1>0 DEF WInv, TypeInv
  <1>6. PhaseInv'
    BY <1>0 DEF PhaseInv
  <1>7. OutputInv'
    BY <1>0 DEF WInv, OutputInv
  <1>8. DraftInv'
    <2>1. /\ LeastBehind(state, traces) + retries <= calls
          /\ calls <= MostBehind(state, traces) + retries
      BY DEF WInv, AccountInv
    <2>2. LeastBehind(state, traces) \in Int /\ MostBehind(state, traces) \in Int
      <3>1. state # "completed" /\ (state \in PastAnalyze => traces["analyze"] \in Traces)
            /\ (state \in PastGenerate => traces["generate"] \in Traces)
        BY <1>0 DEF Working, WInv, OutputInv, TrueTraces
      <3>2. \A t \in Traces : Least(t) \in Int /\ Most(t) \in Int
        BY <1>0 DEF Traces, Least, Most
      <3> QED BY <3>1, <3>2 DEF LeastBehind, MostBehind
    <2>3. /\ Least(TraceOf(o, level)) = retries + IF usable THEN 1 ELSE 0
          /\ Most(TraceOf(o, level)) = retries + 1
      BY <1>3 DEF Least, Most
    <2>4. /\ LeastBehind(state, traces) + Least(TraceOf(o, level)) <= calls'
          /\ calls' <= MostBehind(state, traces) + Most(TraceOf(o, level))
      BY <1>0, <2>1, <2>2, <2>3
    <2> QED BY <1>0, <1>2, <1>3, <1>4, <2>4 DEF DraftInv
  <1>9. AccountInv'
    BY <1>0 DEF AccountInv, Working
  <1>10. ManifestInv'
    BY <1>0 DEF WInv, ManifestInv
  <1> QED BY <1>5, <1>6, <1>7, <1>8, <1>9, <1>10 DEF WInv

\* The executor enters the first step with nothing charged.
LEMMA ExecutorStarted == ASSUME WInv, StartExecutor PROVE WInv'
  <1>0. /\ phase = "evidence" /\ state = "created" /\ calls = 0 /\ retries = 0
        /\ UNCHANGED <<calls, retries, late, outputs, traces, manifest>>
    BY DEF StartExecutor, WInv, PhaseInv, workers
  <1>1. ASSUME phase' = "done", exit' = 3, state' = state
        PROVE  WInv'
    BY <1>0, <1>1, RunFails
  <1>2. ASSUME phase' = "prompt", state' = "analyzing", exit' = exit
        PROVE  WInv'
    <2>1. TypeInv'
      BY <1>0, <1>2 DEF WInv, TypeInv
    <2>2. PhaseInv' /\ DraftInv' /\ OutputInv'
      BY <1>2 DEF PhaseInv, DraftInv, OutputInv, Working, PastAnalyze, PastGenerate
    <2>3. AccountInv'
      BY <1>0, <1>2 DEF AccountInv, LeastBehind, MostBehind, PastAnalyze, PastGenerate
    <2>4. ManifestInv'
      BY <1>0, <1>2 DEF WInv, TypeInv, ManifestInv
    <2> QED BY <2>1, <2>2, <2>3, <2>4 DEF WInv
  <1> QED BY <1>1, <1>2 DEF StartExecutor, Advance, End

\* The steps before the executor and the ends it does not decide.
LEMMA OuterSteps ==
  ASSUME WInv, SetUp \/ CollectEvidence \/ EvidenceFails \/ PromptRefused \/ TraceFails
                 \/ StoreFails
  PROVE  WInv'
  <1>1. ASSUME SetUp PROVE WInv'
    <2>1. ASSUME phase' = "evidence", exit' = exit PROVE WInv'
      BY <1>1, <2>1 DEF SetUp, workers, WInv, TypeInv, PhaseInv, OutputInv, DraftInv, AccountInv,
           ManifestInv, Busy, PastAnalyze, PastGenerate
    <2>2. ASSUME phase' = "done", exit' = 2 PROVE WInv'
      BY <1>1, <2>2, RunFails DEF SetUp, workers
    <2> QED BY <1>1, <2>1, <2>2 DEF SetUp, End
  <1>2. ASSUME CollectEvidence PROVE WInv'
    BY <1>2 DEF CollectEvidence, workers, WInv, TypeInv, PhaseInv, OutputInv, DraftInv,
         AccountInv, ManifestInv
  <1>3. ASSUME EvidenceFails PROVE WInv'
    BY <1>3, RunFails DEF EvidenceFails, workers, End
  <1>4. ASSUME PromptRefused PROVE WInv'
    BY <1>4, RunFails DEF PromptRefused, workers, End, Advance
  <1>5. ASSUME TraceFails PROVE WInv'
    BY <1>5, RunFails DEF TraceFails, workers, End, Advance
  <1>6. ASSUME StoreFails PROVE WInv'
    BY <1>6, RunFails DEF StoreFails, workers, End
  <1> QED BY <1>1, <1>2, <1>3, <1>4, <1>5, <1>6

\* The steps within a step of the executor that give no answer.
LEMMA InnerSteps ==
  ASSUME WInv, DeadlinePasses \/ BuildPrompt \/ BackoffEnds
  PROVE  WInv'
  <1>0. late \in BOOLEAN
    BY DEF WInv, TypeInv
  <1>1. ASSUME DeadlinePasses PROVE WInv'
    BY <1>1, StepGoesOn DEF DeadlinePasses
  <1>2. ASSUME BuildPrompt PROVE WInv'
    <2>1. UNCHANGED <<calls, retries, late, outputs, traces, manifest>>
      BY <1>2 DEF BuildPrompt
    <2>2. ASSUME phase' = "call", state' = state, exit' = exit PROVE WInv'
      BY <1>0, <1>2, <2>1, <2>2, StepGoesOn DEF BuildPrompt
    <2>3. ASSUME phase' = "done", state' = "failed", exit' = 3 PROVE WInv'
      BY <1>2, <2>1, <2>3, RunFails DEF BuildPrompt
    <2> QED BY <1>2, <2>2, <2>3 DEF BuildPrompt, Advance, End
  <1>3. ASSUME BackoffEnds PROVE WInv'
    BY <1>0, <1>3, StepGoesOn DEF BackoffEnds, workers
  <1> QED BY <1>1, <1>2, <1>3

\* The call of a step, however it ends.
LEMMA CallSteps ==
  ASSUME WInv, BudgetRefuses \/ Answered \/ Unusable \/ CallFails
  PROVE  WInv'
  <1>0. phase = "call" /\ calls \in 0..MaxCalls /\ MaxCalls \in Nat /\ late \in BOOLEAN
        /\ retries \in 0..MaxRetries
    <2>1. phase = "call"
      <3>1. BudgetRefuses => phase = "call"
        BY DEF BudgetRefuses
      <3>2. Answered => phase = "call"
        BY DEF Answered
      <3>3. Unusable => phase = "call"
        BY DEF Unusable
      <3>4. CallFails => phase = "call"
        BY DEF CallFails
      <3> QED BY <3>1, <3>2, <3>3, <3>4
    <2> QED BY <2>1, WorkflowAssumption DEF WInv, TypeInv
  <1>1. ASSUME BudgetRefuses PROVE WInv'
    <2>1. Drafted(FALSE, "rule_baseline")
      BY <1>1, Zenon DEF BudgetRefuses
    <2>2. calls' = calls /\ calls' <= MaxCalls
      BY <1>0, <1>1 DEF BudgetRefuses
    <2> QED BY <1>0, <2>1, <2>2, AnswerDrafted
  <1>2. ASSUME Answered PROVE WInv'
    <2>1. PICK level \in Levels : Drafted(TRUE, level)
      BY <1>2 DEF Answered
    <2>2. level \in {"none", "retry", "json_repair", "rule_baseline"} /\ level # "rule_baseline"
      BY DEF Levels
    <2>3. calls' = calls + 1 /\ calls' <= MaxCalls
      BY <1>0, <1>2 DEF Answered, MayCall
    <2> QED BY <1>0, <2>1, <2>2, <2>3, AnswerDrafted
  <1>3. ASSUME Unusable PROVE WInv'
    <2>1. calls' = calls + 1 /\ calls' <= MaxCalls
      BY <1>0, <1>3 DEF Unusable, MayCall
    <2> QED BY <1>0, <1>3, <2>1, AnswerDrafted DEF Unusable
  <1>4. ASSUME CallFails PROVE WInv'
    <2>1. calls' = calls + 1 /\ calls' <= MaxCalls /\ calls < MaxCalls
      BY <1>0, <1>4 DEF CallFails, MayCall
    <2>2. ASSUME retries < MaxRetries, retries' = retries + 1, phase' = "backoff",
                 UNCHANGED <<evars, state, prompt, late, draft, outputs, traces, manifest, exit>>
          PROVE  WInv'
      BY <1>0, <2>1, <2>2, StepGoesOn
    <2>3. ASSUME Drafted(FALSE, "rule_baseline") PROVE WInv'
      BY <1>0, <2>1, <2>3, AnswerDrafted
    <2> QED BY <1>4, <2>2, <2>3 DEF CallFails
  <1> QED BY <1>1, <1>2, <1>3, <1>4

\* A step's answer becomes its result once its trace is written.
LEMMA TraceRecorded == ASSUME WInv, RecordTrace PROVE WInv'
  <1>0. /\ phase = "trace" /\ state \in Working /\ exit = 9 /\ manifest = NoOutput
        /\ outputs' = [outputs EXCEPT ![Step] = draft.output]
        /\ traces' = [traces EXCEPT ![Step] = draft.trace]
        /\ state' = NextState[Step] /\ retries' = 0
        /\ phase' = IF Step = "review" THEN "store" ELSE "prompt"
        /\ UNCHANGED <<calls, late, manifest, exit>>
    BY DEF RecordTrace, Advance, WInv, TypeInv, PhaseInv, ManifestInv, Busy
  <1>1. /\ calls \in 0..MaxCalls /\ late \in BOOLEAN /\ 0 \in 0..MaxRetries /\ calls \in Nat
        /\ outputs \in [Names -> {NoOutput} \cup Analyses \cup Generations \cup Reviews]
        /\ traces \in [Names -> {NoOutput} \cup Traces]
    BY WorkflowAssumption DEF WInv, TypeInv
  <1>2. /\ draft.output \in AnswersOn(state, outputs) /\ draft.trace \in TrueTraces(draft.output)
        /\ LeastBehind(state, traces) + Least(draft.trace) <= calls
        /\ calls <= MostBehind(state, traces) + Most(draft.trace)
    BY <1>0 DEF WInv, DraftInv
  <1>3. draft.trace \in Traces /\ (\A t \in Traces : Least(t) \in Int /\ Most(t) \in Int)
    BY <1>2, WorkflowAssumption DEF TrueTraces, Traces, Least, Most
  <1>4. Step \in Names /\ DraftInv' /\ ManifestInv'
    BY <1>0, CurrentStep DEF Working, Names, DraftInv, ManifestInv
  <1>5. draft.output \in Analyses \cup Generations \cup Reviews =>
          TypeInv'
    <2>1. ASSUME draft.output \in Analyses \cup Generations \cup Reviews
          PROVE  /\ outputs' \in [Names -> {NoOutput} \cup Analyses \cup Generations \cup Reviews]
                 /\ traces' \in [Names -> {NoOutput} \cup Traces]
      BY <1>0, <1>1, <1>3, <1>4, <2>1
    <2>2. state' \in {"generating", "reviewing", "completed"}
      BY <1>0, CurrentStep, StepsAndStates DEF Working
    <2>3. phase' \in {"prompt", "store"}
      BY <1>0
    <2> QED BY <1>0, <1>1, <2>1, <2>2, <2>3 DEF TypeInv
  <1>6. ASSUME state = "analyzing" PROVE WInv'
    <2>0. /\ Step = "analyze" /\ state' = "generating" /\ phase' = "prompt"
          /\ outputs'["analyze"] = draft.output /\ traces'["analyze"] = draft.trace
      BY <1>0, <1>1, <1>6, CurrentStep, StepsAndStates DEF Names
    <2>1. draft.output \in Analyses
      BY <1>2, <1>6 DEF AnswersOn
    <2>2. PhaseInv'
      BY <2>0 DEF PhaseInv, Working
    <2>3. OutputInv'
      BY <1>2, <2>0, <2>1 DEF OutputInv, PastGenerate
    <2>4. /\ LeastBehind(state, traces) = 0 /\ MostBehind(state, traces) = 0
          /\ LeastBehind(state', traces') = Least(draft.trace) + 0 + 0
          /\ MostBehind(state', traces') = Most(draft.trace) + 0 + 0
      BY <1>6, <2>0 DEF LeastBehind, MostBehind, PastAnalyze, PastGenerate
    <2>5. AccountInv'
      BY <1>0, <1>1, <1>2, <1>3, <2>0, <2>4 DEF AccountInv
    <2> QED BY <1>4, <1>5, <2>1, <2>2, <2>3, <2>5 DEF WInv
  <1>7. ASSUME state = "generating" PROVE WInv'
    <2>0. /\ Step = "generate" /\ state' = "reviewing" /\ phase' = "prompt"
          /\ outputs'["generate"] = draft.output /\ traces'["generate"] = draft.trace
          /\ outputs'["analyze"] = outputs["analyze"] /\ traces'["analyze"] = traces["analyze"]
      BY <1>0, <1>1, <1>7, CurrentStep, StepsAndStates DEF Names
    <2>1. /\ outputs["analyze"] \in Analyses
          /\ traces["analyze"] \in TrueTraces(outputs["analyze"]) /\ traces["analyze"] \in Traces
      BY <1>7 DEF WInv, OutputInv, PastAnalyze, TrueTraces
    <2>2. draft.output \in GenerationsOn(ReparsedAnalysis(outputs["analyze"]))
      BY <1>2, <1>7 DEF AnswersOn
    <2>3. draft.output \in Generations
      BY <2>1, <2>2, AnalysisRead, GenerationFields
    <2>4. PhaseInv'
      BY <2>0 DEF PhaseInv, Working
    <2>5. OutputInv'
      BY <1>2, <2>0, <2>1, <2>2 DEF OutputInv
    <2>6. /\ LeastBehind(state, traces) = Least(traces["analyze"]) + 0 + 0
          /\ MostBehind(state, traces) = Most(traces["analyze"]) + 0 + 0
          /\ LeastBehind(state', traces') = Least(traces["analyze"]) + Least(draft.trace) + 0
          /\ MostBehind(state', traces') = Most(traces["analyze"]) + Most(draft.trace) + 0
      BY <1>7, <2>0 DEF LeastBehind, MostBehind, PastAnalyze, PastGenerate
    <2>7. AccountInv'
      BY <1>0, <1>1, <1>2, <1>3, <2>0, <2>1, <2>6 DEF AccountInv
    <2> QED BY <1>4, <1>5, <2>3, <2>4, <2>5, <2>7 DEF WInv
  <1>8. ASSUME state = "reviewing" PROVE WInv'
    <2>0. /\ Step = "review" /\ state' = "completed" /\ phase' = "store"
          /\ outputs'["review"] = draft.output /\ traces'["review"] = draft.trace
          /\ outputs'["analyze"] = outputs["analyze"] /\ traces'["analyze"] = traces["analyze"]
          /\ outputs'["generate"] = outputs["generate"]
          /\ traces'["generate"] = traces["generate"]
      BY <1>0, <1>1, <1>8, CurrentStep, StepsAndStates DEF Names
    <2>1. /\ outputs["analyze"] \in Analyses
          /\ traces["analyze"] \in TrueTraces(outputs["analyze"]) /\ traces["analyze"] \in Traces
          /\ outputs["generate"] \in GenerationsOn(ReparsedAnalysis(outputs["analyze"]))
          /\ traces["generate"] \in TrueTraces(outputs["generate"])
          /\ traces["generate"] \in Traces
      BY <1>8 DEF WInv, OutputInv, PastAnalyze, PastGenerate, TrueTraces
    <2>2. draft.output \in ReviewsOn(ReparsedAnalysis(outputs["analyze"]),
                                      ReparsedGeneration(outputs["generate"]))
      BY <1>2, <1>8 DEF AnswersOn
    <2>3. draft.output \in Reviews
      BY <2>1, <2>2, AnalysisRead, GenerationRead, ReviewFields
    <2>4. PhaseInv'
      BY <2>0 DEF PhaseInv, Busy
    <2>5. OutputInv'
      BY <1>2, <2>0, <2>1, <2>2 DEF OutputInv
    <2>6. /\ LeastBehind(state, traces) = Least(traces["analyze"]) + Least(traces["generate"]) + 0
          /\ MostBehind(state, traces) = Most(traces["analyze"]) + Most(traces["generate"]) + 0
          /\ LeastBehind(state', traces') =
               Least(traces["analyze"]) + Least(traces["generate"]) + Least(draft.trace)
          /\ MostBehind(state', traces') =
               Most(traces["analyze"]) + Most(traces["generate"]) + Most(draft.trace)
      BY <1>8, <2>0 DEF LeastBehind, MostBehind, PastAnalyze, PastGenerate
    <2>7. AccountInv'
      BY <1>0, <1>1, <1>2, <1>3, <2>0, <2>1, <2>6 DEF AccountInv
    <2> QED BY <1>4, <1>5, <2>3, <2>4, <2>5, <2>7 DEF WInv
  <1> QED BY <1>0, <1>6, <1>7, <1>8 DEF Working

\* What runner.py finds in the results: the last step that has a key has it.
LEMMA ExtractedValues ==
  LET g == outputs["generate"]
      r == outputs["review"]
  IN  /\ Extracted("requires_review") = g.review
      /\ Extracted("requires_human_review") = r.human
      /\ Extracted("degraded") = r.degraded /\ Extracted("decision") = r.decision
      /\ Extracted("analysis_hash") = r.analysisHash
      /\ Extracted("generation_hash") = r.generationHash
      /\ Extracted("review_hash") = r.hash
  <1>1. /\ Meta(Steps[1]) = AnalyzeMeta /\ Meta(Steps[2]) = GenerateMeta
        /\ Meta(Steps[3]) = ReviewMeta
    BY DEF Meta, Steps
  <1>2. /\ DOMAIN GenerateMeta = {"degraded", "requires_review", "analysis_hash", "generation_hash"}
        /\ DOMAIN ReviewMeta = {"degraded", "requires_human_review", "decision", "analysis_hash",
                                "generation_hash", "review_hash"}
    BY DEF GenerateMeta, ReviewMeta
  <1>3. ASSUME NEW key \in DOMAIN ReviewMeta PROVE Extracted(key) = ReviewMeta[key]
    <2>1. PICK i \in 1..3 : /\ Extracted(key) = Meta(Steps[i])[key]
                            /\ \A k \in (i + 1)..3 : key \notin DOMAIN Meta(Steps[k])
      <3>1. \E j \in 1..3 : /\ key \in DOMAIN Meta(Steps[j])
                            /\ \A k \in (j + 1)..3 : key \notin DOMAIN Meta(Steps[k])
        BY <1>1
      <3> QED BY <3>1 DEF Extracted
    <2>2. i = 3
      BY <1>1, <2>1
    <2> QED BY <1>1, <2>1, <2>2
  <1>4. Extracted("requires_review") = GenerateMeta["requires_review"]
    <2> DEFINE key == "requires_review"
    <2>0. key \in DOMAIN GenerateMeta /\ key \notin DOMAIN ReviewMeta
      BY <1>2
    <2> HIDE DEF key
    <2>1. PICK i \in 1..3 : /\ Extracted(key) = Meta(Steps[i])[key]
                            /\ key \in DOMAIN Meta(Steps[i])
                            /\ \A k \in (i + 1)..3 : key \notin DOMAIN Meta(Steps[k])
      <3>1. /\ key \in DOMAIN Meta(Steps[2])
            /\ \A k \in (2 + 1)..3 : key \notin DOMAIN Meta(Steps[k])
        BY <1>1, <2>0
      <3>2. \E j \in 1..3 : /\ key \in DOMAIN Meta(Steps[j])
                            /\ \A k \in (j + 1)..3 : key \notin DOMAIN Meta(Steps[k])
        BY <3>1
      <3> QED BY <3>2 DEF Extracted
    <2>2. i = 2
      BY <1>1, <2>0, <2>1
    <2> QED BY <1>1, <2>1, <2>2 DEF key
  <1> QED BY <1>2, <1>3, <1>4 DEF GenerateMeta, ReviewMeta

\* The manifest and the exit code are put together.
LEMMA RunStored == ASSUME WInv, Store PROVE WInv'
  <1> DEFINE a == outputs["analyze"]
             g == outputs["generate"]
             r == outputs["review"]
  <1>0. /\ phase = "store" /\ state = "completed" /\ phase' = "done"
        /\ UNCHANGED <<state, calls, retries, late, outputs, traces>>
    BY DEF Store, End, WInv, PhaseInv, workers
  <1>1. /\ a \in Analyses /\ g \in GenerationsOn(ReparsedAnalysis(a))
        /\ r \in ReviewsOn(ReparsedAnalysis(a), ReparsedGeneration(g))
    BY <1>0 DEF WInv, OutputInv, PastAnalyze, PastGenerate
  <1>2. /\ g \in Generations /\ r \in Reviews /\ g.review \in BOOLEAN
        /\ r.human \in BOOLEAN /\ r.degraded \in BOOLEAN /\ r.decision \in {"PASS", "REJECT"}
        /\ r.analysisHash = ReparsedAnalysis(a).hash /\ ReparsedAnalysis(a) \in Analyses
        /\ r.generationHash = ReparsedGeneration(g).hash /\ ReparsedGeneration(g) \in Generations
    BY <1>1, LineageRead, AnalysisRead, GenerationFields, ReviewFields
  <1>3. /\ manifest' = [status |-> state,
                         analysis_hash   |-> r.analysisHash,
                         generation_hash |-> r.generationHash,
                         review_hash     |-> r.hash,
                         review_decision |-> r.decision,
                         degraded |-> r.degraded, requires_review |-> g.review \/ r.human]
        /\ exit' = IF r.degraded \/ (g.review \/ r.human) THEN 4 ELSE 0
    BY ExtractedValues DEF Store, End
  <1>4. /\ manifest'.status = state /\ manifest'.analysis_hash = r.analysisHash
        /\ manifest'.generation_hash = r.generationHash /\ manifest'.review_hash = r.hash
        /\ manifest'.degraded = r.degraded
    BY <1>3
  <1>5. manifest' # NoOutput
    <2>1. manifest' \in Manifests
      <3>1. /\ r.analysisHash \in {x.hash : x \in Analyses}
            /\ r.generationHash \in {x.hash : x \in Generations}
            /\ r.hash \in {x.hash : x \in Reviews} /\ (g.review \/ r.human) \in BOOLEAN
        BY <1>1, <1>2
      <3> QED BY <1>0, <1>2, <1>3, <3>1 DEF Manifests
    <2> QED BY <2>1, NoOutputAssumption
  <1>6. exit' \in {0, 4} /\ (exit' = 0 <=> ~ (r.degraded \/ g.review \/ r.human))
    BY <1>2, <1>3
  <1>7. TypeInv'
    BY <1>0, <1>6 DEF WInv, TypeInv
  <1>8. PhaseInv' /\ DraftInv' /\ OutputInv' /\ AccountInv'
    BY <1>0 DEF WInv, PhaseInv, DraftInv, OutputInv, AccountInv, Busy
  <1>9. ManifestInv'
    BY <1>0, <1>4, <1>5, <1>6 DEF ManifestInv
  <1> QED BY <1>7, <1>8, <1>9 DEF WInv

\* Every step of a run keeps the workflow's invariant.
LEMMA WorkflowSteps == WInv /\ [Next]_vars => WInv'
  <1>1. WInv /\ UNCHANGED vars => WInv'
    BY DEF vars, workers, WInv, TypeInv, PhaseInv, OutputInv, DraftInv, AccountInv, ManifestInv
  <1> QED BY <1>1, ExecutorStarted, OuterSteps, InnerSteps, CallSteps, TraceRecorded, RunStored
          DEF Next

\* Throughout a run the answers behind it build on each other, the traces are
\* true and the calls accounted for.
THEOREM WorkflowInvariance == Spec => []WInv
  BY WorkflowStart, WorkflowSteps, PTL DEF Spec

\* The workflow is type correct: the call budget and the retries are never
\* passed, traces say only what a trace can, a run that ends has a code and one
\* without an error a manifest.
THEOREM TypeCorrect == Spec => []TypeOK
  <1>1. WInv => TypeOK
    <2>1. TypeInv => \A s \in DOMAIN StateOf : traces[s] # NoOutput => traces[s] \in Traces
      BY StepsAndStates DEF TypeInv
    <2> QED BY <2>1 DEF WInv, TypeInv, ManifestInv, TypeOK
  <1> QED BY <1>1, WorkflowInvariance, PTL

-------------------------------------------------------------------------------
(* What a finished run says *)

\* How many of the three steps a set has.
LEMMA CountSteps ==
  ASSUME NEW S \in SUBSET Names
  PROVE  Cardinality(S) = (IF "analyze" \in S THEN 1 ELSE 0)
                            + (IF "generate" \in S THEN 1 ELSE 0)
                            + (IF "review" \in S THEN 1 ELSE 0)
  <1> DEFINE A == S \cap {"analyze"}
             B == S \cap {"analyze", "generate"}
  <1>1. IsFiniteSet(A) /\ Cardinality(A) = IF "analyze" \in S THEN 1 ELSE 0
    <2>1. CASE "analyze" \in S
      <3>1. A = {"analyze"}
        BY <2>1
      <3> HIDE DEF A
      <3> QED BY <2>1, <3>1, FS_Singleton
    <2>2. CASE "analyze" \notin S
      <3>1. A = {}
        BY <2>2
      <3> HIDE DEF A
      <3> QED BY <2>2, <3>1, FS_EmptySet
    <2> QED BY <2>1, <2>2
  <1>2. /\ IsFiniteSet(B)
        /\ Cardinality(B) = Cardinality(A) + IF "generate" \in S THEN 1 ELSE 0
    <2>1. Cardinality(A) \in Nat
      BY <1>1, FS_CardinalityType
    <2>2. CASE "generate" \in S
      <3>1. B = A \cup {"generate"} /\ "generate" \notin A
        BY <2>2
      <3> HIDE DEF A, B
      <3> QED BY <1>1, <2>2, <3>1, FS_AddElement
    <2>3. CASE "generate" \notin S
      <3>1. B = A
        BY <2>3
      <3> HIDE DEF A, B
      <3> QED BY <1>1, <2>1, <2>3, <3>1
    <2> QED BY <2>2, <2>3
  <1>3. Cardinality(S) = Cardinality(B) + IF "review" \in S THEN 1 ELSE 0
    <2>1. Cardinality(B) \in Nat
      BY <1>2, FS_CardinalityType
    <2>2. CASE "review" \in S
      <3>1. S = B \cup {"review"} /\ "review" \notin B
        BY <2>2 DEF Names
      <3> HIDE DEF B
      <3> QED BY <1>2, <2>2, <3>1, FS_AddElement
    <2>3. CASE "review" \notin S
      <3>1. S = B
        BY <2>3 DEF Names
      <3> HIDE DEF B
      <3> QED BY <1>2, <2>1, <2>3, <3>1
    <2> QED BY <2>2, <2>3
  <1> HIDE DEF A, B
  <1> QED BY <1>1, <1>2, <1>3

\* The exit code tells the truth about the whole run, and the traces explain
\* its calls (runner.py, _extract_metadata and the budget's accounts).
THEOREM ExitIsHonest == Spec => []HonestExit
  <1>1. WInv => HonestExit
    <2> SUFFICES ASSUME WInv, exit \in {0, 4} PROVE HonestExit
      BY DEF HonestExit
    <2> DEFINE a == outputs["analyze"]
               g == outputs["generate"]
               r == outputs["review"]
               baselines == {s \in DOMAIN StateOf : traces[s].fallback_level = "rule_baseline"}
               attempts(s) == traces[s].retry_count + 1
               made == attempts("analyze") + attempts("generate") + attempts("review")
               refused == Cardinality(baselines)
    <2>0. /\ state = "completed" /\ manifest.degraded = r.degraded
          /\ exit = 0 <=> ~ (r.degraded \/ g.review \/ r.human)
      BY DEF WInv, ManifestInv
    <2>1. /\ a \in Analyses /\ g \in GenerationsOn(ReparsedAnalysis(a))
          /\ r \in ReviewsOn(ReparsedAnalysis(a), ReparsedGeneration(g))
          /\ traces["analyze"] \in TrueTraces(a) /\ traces["generate"] \in TrueTraces(g)
          /\ traces["review"] \in TrueTraces(r)
      BY <2>0 DEF WInv, OutputInv, PastAnalyze, PastGenerate
    <2>2. /\ a.degraded \in BOOLEAN /\ g.degraded \in BOOLEAN /\ r.degraded \in BOOLEAN
          /\ a.degraded => g.degraded
          /\ a.degraded \/ g.degraded => r.degraded
      BY <2>1, AnalysisRead, GenerationRead, AnalysisFields, GenerationFields, ReviewFields
    <2>3. \A s \in DOMAIN StateOf : s = "analyze" \/ s = "generate" \/ s = "review"
      BY StepsAndStates DEF Names
    <2>4. manifest.degraded <=> \E s \in DOMAIN StateOf : outputs[s].degraded
      BY <2>0, <2>2, <2>3, StepsAndStates DEF Names
    <2>5. exit = 0 <=> /\ \A s \in DOMAIN StateOf : ~ outputs[s].degraded
                       /\ ~ g.review /\ ~ r.human
      BY <2>0, <2>2, <2>3, StepsAndStates DEF Names
    <2>6. \A s \in DOMAIN StateOf :
            /\ traces[s].status = "degraded" <=> outputs[s].degraded
            /\ traces[s].fallback_level = "rule_baseline" <=> outputs[s].text \in BaselineTexts
      BY <2>1, <2>3 DEF TrueTraces
    <2>7. made - refused <= calls /\ calls <= made
      <3>1. baselines \in SUBSET Names
        BY StepsAndStates
      <3>2. /\ "analyze" \in baselines <=> traces["analyze"].fallback_level = "rule_baseline"
            /\ "generate" \in baselines <=> traces["generate"].fallback_level = "rule_baseline"
            /\ "review" \in baselines <=> traces["review"].fallback_level = "rule_baseline"
        BY StepsAndStates DEF Names
      <3> HIDE DEF baselines
      <3>3. Cardinality(baselines) =
              (IF traces["analyze"].fallback_level = "rule_baseline" THEN 1 ELSE 0)
                + (IF traces["generate"].fallback_level = "rule_baseline" THEN 1 ELSE 0)
                + (IF traces["review"].fallback_level = "rule_baseline" THEN 1 ELSE 0)
        BY <3>1, <3>2, CountSteps
      <3>4. /\ LeastBehind(state, traces) = Least(traces["analyze"]) + Least(traces["generate"])
                                              + Least(traces["review"])
            /\ MostBehind(state, traces) = attempts("analyze") + attempts("generate")
                                             + attempts("review")
        BY <2>0 DEF LeastBehind, MostBehind, Most, PastAnalyze, PastGenerate
      <3>5. LeastBehind(state, traces) <= calls /\ calls <= MostBehind(state, traces)
        BY <2>0 DEF WInv, AccountInv
      <3>6. /\ traces["analyze"].retry_count \in Int /\ traces["generate"].retry_count \in Int
            /\ traces["review"].retry_count \in Int /\ calls \in Int
        BY <2>1, WorkflowAssumption DEF TrueTraces, Traces, WInv, TypeInv
      <3> QED BY <3>3, <3>4, <3>5, <3>6 DEF Least
    <2>8. state = "completed"
      BY <2>0
    <2> QED BY <2>4, <2>5, <2>6, <2>7, <2>8, Zenon DEF HonestExit
  <1> QED BY <1>1, WorkflowInvariance, PTL

\* The outputs are one lineage of what was read, whatever was degraded on the
\* way: the reviewer never refuses its inputs, the manifest names what it and
\* the generator read, and an evaluation that recomputes the hashes complains of
\* the lineage exactly if parsing a stored output again changed it
\* (workers/review.py, workers/models.py, evaluation/validators.py).
THEOREM LineageIsWhole == Spec => []LineageHolds
  <1>1. WInv /\ phase = "prompt" => InputsParse
    <2> SUFFICES ASSUME WInv PROVE InputsParse
      OBVIOUS
    <2>1. ASSUME state \in PastAnalyze
          PROVE  outputs["analyze"] \in Analyses /\ outputs["analyze"] # NoOutput
      BY <2>1, AnalysisFields DEF WInv, OutputInv
    <2>2. ASSUME state \in PastGenerate
          PROVE  /\ outputs["generate"] # NoOutput
                 /\ outputs["generate"].analysisHash = ReparsedAnalysis(outputs["analyze"]).hash
      <3>1. outputs["analyze"] \in Analyses
        BY <2>1, <2>2 DEF PastAnalyze, PastGenerate
      <3>2. outputs["generate"] \in GenerationsOn(ReparsedAnalysis(outputs["analyze"]))
        BY <2>2 DEF WInv, OutputInv
      <3>3. ReparsedAnalysis(outputs["analyze"]) \in Analyses
        BY <3>1, AnalysisRead
      <3> QED BY <3>2, <3>3, AnalysisFields, GenerationFields
    <2> QED BY <2>1, <2>2 DEF InputsParse, GeneratorReads, ReviewerReads, PastAnalyze, PastGenerate
  <1>2. ASSUME WInv, exit \in {0, 4}
        PROVE  /\ Findings \ {"tool_calls_missing", "source_evidence_missing"} =
                    {f \in {"analysis_lineage_invalid"} : ~ Settled("analyze")}
                      \cup {f \in {"review_lineage_invalid"} :
                              ~ (Settled("analyze") /\ Settled("generate"))}
               /\ manifest.analysis_hash = ReparsedAnalysis(outputs["analyze"]).hash
               /\ manifest.analysis_hash = outputs["generate"].analysisHash
               /\ manifest.generation_hash = ReparsedGeneration(outputs["generate"]).hash
               /\ manifest.review_hash = ReviewHash(outputs["review"])
    <2> DEFINE a == outputs["analyze"]
               g == outputs["generate"]
               r == outputs["review"]
    <2>0. /\ state = "completed" /\ manifest.status = state
          /\ manifest.analysis_hash = r.analysisHash /\ manifest.generation_hash = r.generationHash
          /\ manifest.review_hash = r.hash
      BY <1>2 DEF WInv, ManifestInv
    <2>1. /\ a \in Analyses /\ g \in GenerationsOn(ReparsedAnalysis(a))
          /\ r \in ReviewsOn(ReparsedAnalysis(a), ReparsedGeneration(g))
          /\ traces["analyze"] \in Traces /\ traces["generate"] \in Traces
          /\ traces["review"] \in Traces
      BY <1>2, <2>0 DEF WInv, OutputInv, PastAnalyze, PastGenerate, TrueTraces
    <2>2. /\ a.hash = AnalysisHash(a) /\ g.hash = GenerationHash(g) /\ r.hash = ReviewHash(r)
          /\ g.analysisHash = ReparsedAnalysis(a).hash
          /\ r.analysisHash = ReparsedAnalysis(a).hash
          /\ r.generationHash = ReparsedGeneration(g).hash
      BY <2>1, LineageRead, AnalysisRead, AnalysisFields, GenerationFields, ReviewFields
    <2>3. /\ g.analysisHash = a.hash <=> Settled("analyze")
          /\ r.analysisHash = a.hash <=> Settled("analyze")
          /\ r.generationHash = g.hash <=> Settled("generate")
      BY <2>1, <2>2, AnalysisRead, GenerationRead DEF Settled
    <2>4. ManifestFindings = {}
      BY <2>0 DEF ManifestFindings
    <2>5. LineageFindings = {f \in {"analysis_lineage_invalid"} : ~ Settled("analyze")}
                              \cup {f \in {"review_lineage_invalid"} :
                                      ~ (Settled("analyze") /\ Settled("generate"))}
      <3>1. LineageFindings =
              {f \in {"hash_content_invalid", "analysis_lineage_invalid", "review_lineage_invalid"} :
                 CASE f = "hash_content_invalid" -> FALSE
                   [] f = "analysis_lineage_invalid" -> ~ Settled("analyze")
                   [] f = "review_lineage_invalid" -> ~ (Settled("analyze") /\ Settled("generate"))}
        BY <2>2, <2>3 DEF LineageFindings
      <3> QED BY <3>1
    <2>6. TraceFindings = {}
      <3>1. \A s \in Names : traces[s] # NoOutput
        BY <2>1, NoOutputAssumption DEF Names
      <3> QED BY <3>1, StepsAndStates DEF TraceFindings
    <2>7. Findings \ {"tool_calls_missing", "source_evidence_missing"} = LineageFindings
      <3>1. LineageFindings \cap {"tool_calls_missing", "source_evidence_missing"} = {}
        BY DEF LineageFindings
      <3> QED BY <2>4, <2>6, <3>1 DEF Findings, SourceFindings
    <2> QED BY <2>0, <2>2, <2>5, <2>7
  <1>3. WInv => LineageHolds
    BY <1>1, <1>2 DEF LineageHolds
  <1> QED BY <1>3, WorkflowInvariance, PTL

-------------------------------------------------------------------------------
(* Least numbers and ranks *)

\* Every set of natural numbers that has one has a least one.
LEMMA LeastOne == \A T \in SUBSET Nat : T # {} => \E x \in T : \A y \in T : x <= y
  <1> DEFINE Below == OpToRel(<, Nat)
  <1>1. IsWellFoundedOn(Below, Nat)
    BY NatLessThanWellFounded
  <1>2. \A x, y \in Nat : y < x => <<y, x>> \in Below
    BY DEF OpToRel
  <1> HIDE DEF Below
  <1>3. ASSUME NEW T \in SUBSET Nat, T # {} PROVE \E x \in T : \A y \in T : x <= y
    <2>1. PICK x \in T : \A y \in T : ~ (<<y, x>> \in Below)
      BY <1>1, <1>3, WFMin
    <2>2. \A y \in T : y \in Nat /\ ~ (y < x)
      BY <1>2, <2>1
    <2> QED BY <2>1, <2>2
  <1> QED BY <1>3

\* How many members of a set come before one of them.
Before(S, R, x) == {y \in S : <<y, x>> \in R}
RankIn(S, R, x) == Cardinality(Before(S, R, x))

StrictOrder(S, R) ==
  /\ \A x \in S : <<x, x>> \notin R
  /\ \A x, y, z \in S : <<x, y>> \in R /\ <<y, z>> \in R => <<x, z>> \in R
  /\ \A x, y \in S : x = y \/ <<x, y>> \in R \/ <<y, x>> \in R

\* In a finite set in a strict order every member has a rank of its own, the
\* ranks grow with the order, and no rank is missing.
LEMMA Ranks ==
  ASSUME NEW S, IsFiniteSet(S), NEW R, StrictOrder(S, R)
  PROVE  /\ \A x \in S : RankIn(S, R, x) \in 0..(Cardinality(S) - 1)
         /\ \A x, y \in S : <<x, y>> \in R <=> RankIn(S, R, x) < RankIn(S, R, y)
         /\ \A i \in 0..(Cardinality(S) - 1) : \E x \in S : RankIn(S, R, x) = i
  <1> DEFINE N == Cardinality(S)
  <1>0. N \in Nat
    BY FS_CardinalityType
  <1>1. ASSUME NEW x \in S
        PROVE  /\ IsFiniteSet(Before(S, R, x)) /\ RankIn(S, R, x) \in Nat
               /\ RankIn(S, R, x) + 1 <= N
    <2>1. Before(S, R, x) \in SUBSET S /\ x \notin Before(S, R, x)
      BY DEF Before, StrictOrder
    <2>2. IsFiniteSet(Before(S, R, x))
      BY <2>1, FS_Subset
    <2>3. RankIn(S, R, x) \in Nat
      BY <2>2, FS_CardinalityType DEF RankIn
    <2>4. Before(S, R, x) \cup {x} \in SUBSET S
      BY <2>1
    <2>5. Cardinality(Before(S, R, x) \cup {x}) = Cardinality(Before(S, R, x)) + 1
      BY <2>1, <2>2, FS_AddElement
    <2>6. Cardinality(Before(S, R, x) \cup {x}) <= N
      BY <2>4, FS_Subset
    <2> QED BY <2>2, <2>3, <2>5, <2>6 DEF RankIn
  <1>2. ASSUME NEW x \in S, NEW y \in S, <<x, y>> \in R
        PROVE  RankIn(S, R, x) < RankIn(S, R, y)
    <2>1. Before(S, R, x) \cup {x} \in SUBSET Before(S, R, y)
      BY <1>2 DEF Before, StrictOrder
    <2>2. x \notin Before(S, R, x)
      BY DEF Before, StrictOrder
    <2>3. Cardinality(Before(S, R, x) \cup {x}) = Cardinality(Before(S, R, x)) + 1
      BY <1>1, <2>2, FS_AddElement
    <2>4. Cardinality(Before(S, R, x) \cup {x}) <= Cardinality(Before(S, R, y))
      BY <1>1, <2>1, FS_Subset
    <2>5. RankIn(S, R, x) \in Nat /\ RankIn(S, R, y) \in Nat
      BY <1>1
    <2> QED BY <2>3, <2>4, <2>5 DEF RankIn
  <1>3. ASSUME NEW x \in S, NEW y \in S, RankIn(S, R, x) < RankIn(S, R, y)
        PROVE  <<x, y>> \in R
    <2>1. RankIn(S, R, x) \in Nat /\ RankIn(S, R, y) \in Nat
      BY <1>1
    <2>2. x # y
      BY <1>3, <2>1
    <2>3. ~ (<<y, x>> \in R)
      BY <1>2, <1>3, <2>1
    <2> QED BY <2>2, <2>3 DEF StrictOrder
  <1>4. ASSUME NEW i \in 0..(N - 1) PROVE \E x \in S : RankIn(S, R, x) = i
    <2> DEFINE rank == [x \in S |-> RankIn(S, R, x)]
    <2>1. rank \in [S -> 0..(N - 1)]
      BY <1>0, <1>1
    <2>2. \A x, y \in S : rank[x] = rank[y] => x = y
      <3>1. ASSUME NEW x \in S, NEW y \in S, rank[x] = rank[y], x # y PROVE FALSE
        <4>1. <<x, y>> \in R \/ <<y, x>> \in R
          BY <3>1 DEF StrictOrder
        <4>2. RankIn(S, R, x) < RankIn(S, R, y) \/ RankIn(S, R, y) < RankIn(S, R, x)
          BY <1>2, <4>1
        <4>3. RankIn(S, R, x) \in Nat /\ RankIn(S, R, y) \in Nat
          BY <1>1
        <4> QED BY <3>1, <4>2, <4>3
      <3> QED BY <3>1
    <2>3. IsFiniteSet(0..(N - 1)) /\ Cardinality(0..(N - 1)) = N
      BY <1>0, FS_Interval
    <2>4. \A y \in 0..(N - 1) : \E x \in S : rank[x] = y
      <3> HIDE DEF rank
      <3>1. rank \in Injection(S, 0..(N - 1))
        BY <2>1, <2>2 DEF Injection, IsInjective
      <3>2. rank \in Surjection(S, 0..(N - 1))
        BY <2>3, <3>1, FS_Injection
      <3> QED BY <3>2 DEF Surjection
    <2> QED BY <2>4
  <1>5. \A x \in S : RankIn(S, R, x) \in 0..(N - 1)
    BY <1>0, <1>1
  <1> QED BY <1>2, <1>3, <1>4, <1>5
-------------------------------------------------------------------------------
(* The token budget *)

Order(m) == {p \in Indices(m) \X Indices(m) : GoesFirst(m, p[1], p[2])}
RankOf(m, i) == Cardinality({j \in Indices(m) : GoesFirst(m, j, i)})

\* The order in which sections go is a strict one, so each goes at a time of
\* its own.
LEMMA RemovalOrder ==
  ASSUME NEW m \in Messages
  PROVE  /\ Len(m.sections) \in Nat
         /\ \A i \in Indices(m) : RankOf(m, i) \in 0..(Len(m.sections) - 1)
         /\ \A i, j \in Indices(m) : GoesFirst(m, i, j) <=> RankOf(m, i) < RankOf(m, j)
         /\ \A n \in 0..(Len(m.sections) - 1) : \E i \in Indices(m) : RankOf(m, i) = n
  <1> DEFINE P(i) == Priority(m.sections[i].name)
  <1>1. Len(m.sections) \in Nat
    BY MessagesAssumption
  <1>2. \A name : Priority(name) \in Nat
    BY DEF Priority, DefaultPriorities
  <1>3. \A i \in Indices(m) : P(i) \in Nat /\ i \in Nat
    BY <1>1, <1>2 DEF Indices
  <1>4. \A i, j \in Indices(m) : GoesFirst(m, i, j) <=> P(i) < P(j) \/ (P(i) = P(j) /\ i < j)
    BY DEF GoesFirst
  <1>5. \A i, j \in Indices(m) : <<i, j>> \in Order(m) <=> GoesFirst(m, i, j)
    BY DEF Order
  <1> HIDE DEF P
  <1>6. StrictOrder(Indices(m), Order(m))
    BY <1>3, <1>4, <1>5 DEF StrictOrder
  <1>7. IsFiniteSet(Indices(m)) /\ Cardinality(Indices(m)) = Len(m.sections)
    BY <1>1, FS_Interval DEF Indices
  <1>8. ASSUME NEW i \in Indices(m) PROVE RankIn(Indices(m), Order(m), i) = RankOf(m, i)
    <2>1. Before(Indices(m), Order(m), i) = {j \in Indices(m) : GoesFirst(m, j, i)}
      BY <1>5 DEF Before
    <2> QED BY <2>1 DEF RankIn, RankOf
  <1>9. /\ \A i \in Indices(m) :
             RankIn(Indices(m), Order(m), i) \in 0..(Len(m.sections) - 1)
        /\ \A i, j \in Indices(m) :
             <<i, j>> \in Order(m)
               <=> RankIn(Indices(m), Order(m), i) < RankIn(Indices(m), Order(m), j)
        /\ \A n \in 0..(Len(m.sections) - 1) :
             \E i \in Indices(m) : RankIn(Indices(m), Order(m), i) = n
    BY <1>6, <1>7, Ranks
  <1> QED BY <1>1, <1>5, <1>8, <1>9

\* Nothing joined has no characters.
LEMMA NothingJoined == ASSUME NEW m \in Messages PROVE Joined(m, {}) = 0
  <1> DEFINE L == Len(m.sections)
             F(f) == [i \in 0..L |->
                        IF i = 0 THEN 0
                        ELSE f[i - 1] + IF i \in {} THEN m.sections[i].chars ELSE 0]
             none == [i \in 0..L |-> 0]
  <1>1. L \in Nat
    BY RemovalOrder
  <1>2. none = F(none)
    BY <1>1
  <1>3. PICK sum : sum = F(sum) /\ Joined(m, {}) = sum[L] + 0
    <2>1. \E f : f = F(f)
      BY <1>2
    <2> HIDE DEF none
    <2> QED BY <2>1 DEF Joined
  <1>4. ASSUME NEW k \in 0..L, sum[k] # 0 PROVE FALSE
    <2> DEFINE T == {j \in 0..L : sum[j] # 0}
    <2>1. T \in SUBSET Nat /\ T # {}
      BY <1>4
    <2>2. PICK j \in T : \A i \in T : j <= i
      BY <2>1, LeastOne
    <2>3. j \in 0..L /\ sum[j] # 0 /\ sum[j] = F(sum)[j]
      BY <1>3, <2>2
    <2>4. j # 0
      BY <2>3
    <2>5. j - 1 \in 0..L /\ ~ (j <= j - 1)
      BY <1>1, <2>3, <2>4
    <2>6. sum[j - 1] = 0
      BY <2>2, <2>5
    <2> QED BY <2>3, <2>4, <2>6
  <1>5. sum[L] = 0
    BY <1>1, <1>4
  <1> QED BY <1>3, <1>5

\* The loop stops: at the first number of removals after which the rest fits,
\* or when everything is gone.
LEMMA RemovedStops ==
  ASSUME NEW m \in Messages
  PROVE  /\ Removed(m) \in 0..Len(m.sections)
         /\ Fits(m, After(m, Removed(m))) \/ Removed(m) = Len(m.sections)
         /\ \A k \in 0..(Removed(m) - 1) : ~ Fits(m, After(m, k))
  <1> DEFINE L == Len(m.sections)
             Stop(n) == Fits(m, After(m, n)) \/ n = L
             T == {n \in 0..L : Stop(n)}
  <1>1. L \in Nat
    BY RemovalOrder
  <1>2. T \in SUBSET Nat /\ L \in T
    BY <1>1
  <1>3. PICK n \in T : \A k \in T : n <= k
    BY <1>2, LeastOne
  <1>4. \A k \in 0..(n - 1) : ~ Fits(m, After(m, k))
    <2>1. ASSUME NEW k \in 0..(n - 1), Fits(m, After(m, k)) PROVE FALSE
      <3>1. n \in 0..L
        BY <1>3
      <3>2. k \in 0..L /\ ~ (n <= k)
        BY <1>1, <3>1
      <3> QED BY <1>3, <2>1, <3>2
    <2> QED BY <2>1
  <1>5. n \in 0..L /\ Stop(n)
    BY <1>3
  <1>6. \E j \in 0..L : Stop(j) /\ \A k \in 0..(j - 1) : ~ Fits(m, After(m, k))
    BY <1>4, <1>5
  <1> HIDE DEF T
  <1> QED BY <1>6 DEF Removed

\* When every section is gone what is left is the message's base.
LEMMA NothingLeft ==
  ASSUME NEW m \in Messages
  PROVE  /\ After(m, Len(m.sections)) = {}
         /\ Fits(m, {}) <=> Tokens(m.base) <= InputBudget
  <1>1. ASSUME NEW i \in After(m, Len(m.sections)) PROVE FALSE
    <2>1. i \in Indices(m) /\ RankOf(m, i) >= Len(m.sections)
      BY DEF After, RankOf
    <2>2. Len(m.sections) \in Nat /\ RankOf(m, i) \in 0..(Len(m.sections) - 1)
      BY <2>1, RemovalOrder
    <2> QED BY <2>1, <2>2
  <1>2. m.base \in Nat
    BY MessagesAssumption
  <1>3. m.base + Joined(m, {}) = m.base
    BY <1>2, NothingJoined
  <1> QED BY <1>1, <1>3 DEF Fits

\* With the last section that went back, the message would be the one the
\* loop saw before it removed that section, which did not fit.
LEMMA LastOneGone ==
  ASSUME NEW m \in Messages, NEW n \in 0..Len(m.sections), NEW i \in Indices(m),
         i \notin After(m, n),
         \A j \in (Indices(m) \ After(m, n)) \ {i} : GoesFirst(m, j, i)
  PROVE  n - 1 \in 0..(n - 1) /\ After(m, n) \cup {i} = After(m, n - 1)
  <1>1. /\ Len(m.sections) \in Nat
        /\ \A j \in Indices(m) : RankOf(m, j) \in 0..(Len(m.sections) - 1)
        /\ \A j, k \in Indices(m) : GoesFirst(m, j, k) <=> RankOf(m, j) < RankOf(m, k)
        /\ \A r \in 0..(Len(m.sections) - 1) : \E j \in Indices(m) : RankOf(m, j) = r
    BY RemovalOrder
  <1>2. \A r : \A j : j \in After(m, r) <=> j \in Indices(m) /\ RankOf(m, j) >= r
    BY DEF After, RankOf
  <1>3. RankOf(m, i) \in Nat /\ RankOf(m, i) < n /\ n \in Nat
    BY <1>1, <1>2
  <1>4. \A j \in Indices(m) : RankOf(m, j) < n /\ j # i => RankOf(m, j) < RankOf(m, i)
    <2>1. ASSUME NEW j \in Indices(m), RankOf(m, j) < n, j # i
          PROVE  RankOf(m, j) < RankOf(m, i)
      <3>1. RankOf(m, j) \in Nat
        BY <1>1
      <3>2. j \notin After(m, n)
        BY <1>2, <1>3, <2>1, <3>1
      <3> QED BY <1>1, <2>1, <3>2
    <2> QED BY <2>1
  <1>5. RankOf(m, i) = n - 1
    <2>1. n - 1 \in 0..(Len(m.sections) - 1)
      BY <1>1, <1>3
    <2>2. PICK j \in Indices(m) : RankOf(m, j) = n - 1
      BY <1>1, <2>1
    <2>3. CASE j = i
      BY <2>2, <2>3
    <2>4. CASE j # i
      <3>1. n - 1 < RankOf(m, i)
        BY <1>3, <1>4, <2>2, <2>4
      <3> QED BY <1>3, <3>1
    <2> QED BY <2>3, <2>4
  <1>6. \A j \in Indices(m) : RankOf(m, j) >= n - 1 <=> RankOf(m, j) >= n \/ j = i
    <2>1. ASSUME NEW j \in Indices(m)
          PROVE  RankOf(m, j) >= n - 1 <=> RankOf(m, j) >= n \/ j = i
      <3>1. RankOf(m, j) \in Nat
        BY <1>1
      <3>2. j # i /\ RankOf(m, j) < n => RankOf(m, j) < n - 1
        BY <1>4, <1>5
      <3> QED BY <1>3, <1>5, <3>1, <3>2
    <2> QED BY <2>1
  <1>7. \A j : j \in After(m, n) \cup {i} <=> j \in After(m, n - 1)
    BY <1>2, <1>6
  <1> QED BY <1>3, <1>7

\* What the budget makes of one message.
TrimmedWell(p) ==
  LET m == p.message
      gone == Indices(m) \ p.kept
  IN  /\ p.error <=> /\ Tokens(m.base) > InputBudget
                     /\ p.trimmed
      /\ p.trimmed /\ ~ p.error => Fits(m, p.kept)
      /\ \A i \in gone :
           /\ \A j \in p.kept : GoesFirst(m, i, j)
           /\ (\A j \in gone \ {i} : GoesFirst(m, j, i)) => ~ Fits(m, p.kept \cup {i})

\* The budget makes of every message what it should.
LEMMA MessageTrimmed == ASSUME NEW m \in Messages PROVE TrimmedWell(Apply(m))
  <1> DEFINE whole == Tokens(m.base + m.slack + Joined(m, Indices(m))) <= InputBudget
             n == Removed(m)
             p == Apply(m)
             gone == Indices(m) \ p.kept
  <1>1. /\ p.message = m /\ p.trimmed = ~ whole
        /\ p.kept = IF whole THEN Indices(m) ELSE After(m, n)
        /\ p.error = (~ whole /\ (Tokens(m.base) > InputBudget \/ ~ Fits(m, p.kept)))
    BY DEF Apply
  <1>2. CASE whole
    <2>1. gone = {} /\ ~ p.trimmed /\ ~ p.error
      BY <1>1, <1>2
    <2> QED BY <1>1, <2>1 DEF TrimmedWell
  <1>3. CASE ~ whole
    <2>1. /\ p.trimmed /\ p.kept = After(m, n)
          /\ p.error <=> Tokens(m.base) > InputBudget \/ ~ Fits(m, p.kept)
      BY <1>1, <1>3
    <2>2. /\ n \in 0..Len(m.sections)
          /\ Fits(m, After(m, n)) \/ n = Len(m.sections)
          /\ \A k \in 0..(n - 1) : ~ Fits(m, After(m, k))
      BY RemovedStops
    <2>3. p.error <=> Tokens(m.base) > InputBudget
      <3>1. Fits(m, After(m, n)) \/ (After(m, n) = {} /\ ~ Fits(m, {}))
        BY <2>2, NothingLeft
      <3>2. Tokens(m.base) > InputBudget <=> ~ (Tokens(m.base) <= InputBudget)
        BY MessagesAssumption, BudgetAssumption DEF Tokens
      <3> QED BY <2>1, <3>1, <3>2, NothingLeft
    <2>4. ASSUME NEW i \in gone, NEW j \in p.kept PROVE GoesFirst(m, i, j)
      <3>1. i \in Indices(m) /\ ~ (RankOf(m, i) >= n) /\ j \in Indices(m) /\ RankOf(m, j) >= n
        BY <2>1 DEF After, RankOf
      <3>2. RankOf(m, i) \in Nat /\ RankOf(m, j) \in Nat
        BY <3>1, RemovalOrder
      <3>3. RankOf(m, i) < RankOf(m, j)
        BY <2>2, <3>1, <3>2
      <3> QED BY <3>1, <3>3, RemovalOrder
    <2>5. ASSUME NEW i \in gone, \A j \in gone \ {i} : GoesFirst(m, j, i)
          PROVE  ~ Fits(m, p.kept \cup {i})
      <3>1. n - 1 \in 0..(n - 1) /\ After(m, n) \cup {i} = After(m, n - 1)
        BY <2>1, <2>2, <2>5, LastOneGone
      <3> QED BY <2>1, <2>2, <3>1
    <2>6. p.trimmed /\ ~ p.error => Fits(m, p.kept)
      BY <2>1
    <2>7. TrimmedWell(p)
      <3>1. /\ p.error <=> Tokens(m.base) > InputBudget /\ p.trimmed
            /\ \A i \in gone :
                 /\ \A j \in p.kept : GoesFirst(m, i, j)
                 /\ (\A j \in gone \ {i} : GoesFirst(m, j, i)) => ~ Fits(m, p.kept \cup {i})
        BY <2>1, <2>3, <2>4, <2>5
      <3> HIDE DEF p
      <3> QED BY <1>1, <2>6, <3>1 DEF TrimmedWell
    <2> QED BY <2>7
  <1> QED BY <1>2, <1>3

\* What waits to be sent is what the budget made of some message.
PromptInv == prompt = NoOutput \/ \E m \in Messages : prompt = Apply(m)

\* Every prompt fits, and is as complete as the budget allows: whole sections
\* go, the least important first, and not one more than has to
\* (TokenBudgetManager.apply).
THEOREM PromptsKeepPriorities == Spec => []TrimKeepsPriorities
  <1>1. Init => PromptInv
    BY DEF Init, PromptInv
  <1>2. PromptInv /\ [Next]_vars => PromptInv'
    <2> SUFFICES ASSUME PromptInv, [Next]_vars PROVE PromptInv'
      OBVIOUS
    <2>1. CASE UNCHANGED prompt
      BY <2>1 DEF PromptInv
    <2>2. CASE BuildPrompt
      BY <2>2 DEF BuildPrompt, PromptInv
    <2>3. CASE RecordTrace
      BY <2>3 DEF RecordTrace, PromptInv
    <2>4. Next => BuildPrompt \/ RecordTrace \/ UNCHANGED prompt
      BY DEF Next, SetUp, CollectEvidence, EvidenceFails, StartExecutor, DeadlinePasses,
             PromptRefused, BudgetRefuses, Answered, Unusable, CallFails, BackoffEnds,
             TraceFails, Store, StoreFails, Drafted, workers
    <2>5. UNCHANGED vars => UNCHANGED prompt
      BY DEF vars, workers
    <2> QED BY <2>1, <2>2, <2>3, <2>4, <2>5
  <1>3. PromptInv => TrimKeepsPriorities
    BY MessageTrimmed DEF PromptInv, TrimKeepsPriorities, TrimmedWell
  <1> QED BY <1>1, <1>2, <1>3, PTL DEF Spec
-------------------------------------------------------------------------------
(* Sequences of matches *)

Match == [keyword : Nat, file : File]

\* What a sequence, an extended one, a tail and a concatenation hold.
LEMMA ElementsOf ==
  ASSUME NEW T
  PROVE  /\ \A s \in Seq(T) : Elements(s) \subseteq T
         /\ Elements(<<>>) = {}
         /\ \A s \in Seq(T), x \in T : Elements(Append(s, x)) = Elements(s) \cup {x}
         /\ \A s, t \in Seq(T) : Elements(s \o t) = Elements(s) \cup Elements(t)
         /\ \A s \in Seq(T) : s # <<>> =>
              /\ Head(s) \in T /\ Tail(s) \in Seq(T)
              /\ Elements(s) \subseteq Elements(Tail(s)) \cup {Head(s)}
  <1>1. ASSUME NEW s \in Seq(T) PROVE Elements(s) \subseteq T
    BY DEF Elements
  <1>2. Elements(<<>>) = {}
    BY DEF Elements
  <1>3. ASSUME NEW s \in Seq(T), NEW x \in T PROVE Elements(Append(s, x)) = Elements(s) \cup {x}
    <2>1. Len(s) \in Nat /\ Len(Append(s, x)) = Len(s) + 1 /\ Append(s, x)[Len(s) + 1] = x
      OBVIOUS
    <2>2. \A i \in 1..Len(s) : Append(s, x)[i] = s[i]
      OBVIOUS
    <2>3. 1..(Len(s) + 1) = 1..Len(s) \cup {Len(s) + 1}
      BY <2>1
    <2> QED BY <2>1, <2>2, <2>3 DEF Elements
  <1>4. ASSUME NEW s \in Seq(T), NEW t \in Seq(T)
        PROVE  Elements(s \o t) = Elements(s) \cup Elements(t)
    <2>1. Len(s) \in Nat /\ Len(t) \in Nat /\ Len(s \o t) = Len(s) + Len(t)
      OBVIOUS
    <2>2. \A i \in 1..Len(s) : i \in 1..Len(s \o t) /\ (s \o t)[i] = s[i]
      OBVIOUS
    <2>3. \A i \in 1..Len(t) : Len(s) + i \in 1..Len(s \o t) /\ (s \o t)[Len(s) + i] = t[i]
      OBVIOUS
    <2>4. ASSUME NEW i \in 1..Len(s \o t)
          PROVE  (s \o t)[i] \in Elements(s) \cup Elements(t)
      <3>1. CASE i \in 1..Len(s)
        BY <2>2, <3>1 DEF Elements
      <3>2. CASE i \notin 1..Len(s)
        <4>1. i - Len(s) \in 1..Len(t) /\ Len(s) + (i - Len(s)) = i
          BY <2>1, <3>2
        <4>2. (s \o t)[i] = t[i - Len(s)]
          BY <2>3, <4>1
        <4> QED BY <4>1, <4>2 DEF Elements
      <3> QED BY <3>1, <3>2
    <2>5. Elements(s \o t) \subseteq Elements(s) \cup Elements(t)
      BY <2>4 DEF Elements
    <2>6. Elements(s) \subseteq Elements(s \o t) /\ Elements(t) \subseteq Elements(s \o t)
      BY <2>2, <2>3 DEF Elements
    <2> QED BY <2>5, <2>6
  <1>5. ASSUME NEW s \in Seq(T), s # <<>>
        PROVE  /\ Head(s) \in T /\ Tail(s) \in Seq(T)
               /\ Elements(s) \subseteq Elements(Tail(s)) \cup {Head(s)}
    <2>1. Head(s) \in T /\ Tail(s) \in Seq(T) /\ Head(s) = s[1]
      BY <1>5
    <2>2. Len(s) \in Nat /\ Len(Tail(s)) = Len(s) - 1
      BY <1>5
    <2>3. ASSUME NEW i \in 1..Len(s), i # 1 PROVE i - 1 \in 1..Len(Tail(s)) /\ Tail(s)[i - 1] = s[i]
      <3>1. i - 1 \in 1..Len(Tail(s))
        BY <2>2, <2>3
      <3>2. Tail(s)[i - 1] = s[(i - 1) + 1]
        BY <1>5, <3>1
      <3> QED BY <2>2, <3>1, <3>2
    <2> QED BY <2>1, <2>3 DEF Elements
  <1> QED BY <1>1, <1>2, <1>3, <1>4, <1>5

\* A table that starts with c and goes from each number to the next by g.
Table(T, n, c, g, f) ==
  f \in [0..n -> T] /\ f[0] = c /\ \A i \in 1..n : f[i] = g[<<i, f[i - 1]>>]

\* A value for 0 and a way to go from each number to the next give a table.
LEMMA TableExists ==
  ASSUME NEW T, NEW n \in Nat, NEW c \in T, NEW g \in [(1..n) \X T -> T]
  PROVE  \E f : Table(T, n, c, g, f)
  <1> DEFINE Good(k) == \E f \in [0..k -> T] : f[0] = c /\ \A i \in 1..k : f[i] = g[<<i, f[i - 1]>>]
             Bad == {k \in 0..n : ~ Good(k)}
  <1>1. Good(0)
    <2> DEFINE h == [i \in 0..0 |-> c]
    <2>1. h \in [0..0 -> T] /\ h[0] = c
      OBVIOUS
    <2>2. \A i \in 1..0 : FALSE
      OBVIOUS
    <2> HIDE DEF h
    <2> QED BY <2>1, <2>2
  <1>2. ASSUME NEW k \in 1..n, Good(k - 1) PROVE Good(k)
    <2>1. PICK f \in [0..(k - 1) -> T] : f[0] = c /\ \A i \in 1..(k - 1) : f[i] = g[<<i, f[i - 1]>>]
      BY <1>2
    <2>2. k - 1 \in 0..(k - 1) /\ k \in 1..n /\ f[k - 1] \in T
      OBVIOUS
    <2> DEFINE h == [i \in 0..k |-> IF i = k THEN g[<<k, f[k - 1]>>] ELSE f[i]]
    <2>3. g[<<k, f[k - 1]>>] \in T
      BY <2>2
    <2>4. \A i \in 0..k : i # k => i \in 0..(k - 1)
      OBVIOUS
    <2>5. h \in [0..k -> T]
      BY <2>3, <2>4
    <2>6. h[0] = c
      BY <2>1
    <2>7. ASSUME NEW i \in 1..k PROVE h[i] = g[<<i, h[i - 1]>>]
      <3>1. i - 1 \in 0..k /\ i - 1 # k /\ h[i - 1] = f[i - 1]
        OBVIOUS
      <3>2. CASE i = k
        BY <3>1, <3>2
      <3>3. CASE i # k
        <4>1. i \in 1..(k - 1)
          BY <3>3
        <4> QED BY <2>1, <3>1, <3>3, <4>1
      <3> QED BY <3>2, <3>3
    <2>8. h[0] = c /\ \A i \in 1..k : h[i] = g[<<i, h[i - 1]>>]
      BY <2>6, <2>7
    <2> HIDE DEF h
    <2> QED BY <2>5, <2>8, Zenon
  <1> HIDE DEF Good
  <1>3. ASSUME Bad # {} PROVE FALSE
    <2>0. Bad \in SUBSET Nat
      OBVIOUS
    <2>1. PICK k \in Bad : \A j \in Bad : k <= j
      <3> HIDE DEF Bad
      <3> QED BY <1>3, <2>0, LeastOne
    <2>2. k \in 1..n
      BY <1>1, <2>1
    <2>3. k - 1 \notin Bad /\ k - 1 \in 0..n
      BY <2>1, <2>2
    <2> QED BY <1>2, <2>1, <2>2, <2>3
  <1>4. Good(n)
    BY <1>3
  <1> QED BY <1>4 DEF Good, Table

\* What holds of 0 and of each number after one it holds of, it holds of all.
LEMMA AllNumbers ==
  ASSUME NEW n \in Nat, NEW G, 0 \in G, \A i \in 1..n : i - 1 \in G => i \in G
  PROVE  0..n \subseteq G
  <1> DEFINE Bad == {k \in 0..n : k \notin G}
  <1>1. Bad \in SUBSET Nat
    OBVIOUS
  <1>2. ASSUME Bad # {} PROVE FALSE
    <2>1. PICK k \in Bad : \A j \in Bad : k <= j
      <3> HIDE DEF Bad
      <3> QED BY <1>1, <1>2, LeastOne
    <2>2. k \in 1..n
      BY <2>1
    <2>3. k - 1 \in 0..n /\ k - 1 \notin Bad
      BY <2>1, <2>2
    <2> QED BY <2>1, <2>2, <2>3
  <1> QED BY <1>2

\* The sum behind Chars, one match after the other.
LEMMA CharsTable ==
  ASSUME NEW s \in Seq(Match)
  PROVE  \E sum \in [0..Len(s) -> Nat] :
           /\ sum[0] = 0
           /\ \A i \in 1..Len(s) : sum[i] = sum[i - 1] + Size[s[i].file]
           /\ Chars(s) = sum[Len(s)]
  <1> DEFINE n == Len(s)
             F(f) == [i \in 0..n |-> IF i = 0 THEN 0 ELSE f[i - 1] + Size[s[i].file]]
             g == [p \in (1..n) \X Nat |-> p[2] + Size[s[p[1]].file]]
  <1>1. n \in Nat
    OBVIOUS
  <1>2. \A i \in 1..n : Size[s[i].file] \in Nat
    <2>1. ASSUME NEW i \in 1..n PROVE Size[s[i].file] \in Nat
      <3>1. s[i] \in Match
        OBVIOUS
      <3>2. s[i].file \in 1..Files
        BY <3>1 DEF Match, File
      <3> QED BY <3>2, EvidenceAssumption
    <2> QED BY <2>1
  <1>3. \A i \in 1..n : \A c \in Nat : g[<<i, c>>] = c + Size[s[i].file]
    OBVIOUS
  <1>4. g \in [(1..n) \X Nat -> Nat]
    BY <1>2
  <1>5. PICK f : Table(Nat, n, 0, g, f)
    <2>1. 0 \in Nat
      OBVIOUS
    <2> HIDE DEF g, n, F
    <2> QED BY <1>1, <1>4, <2>1, TableExists, Zenon
  <1>6. f = F(f)
    <2>0. f \in [0..n -> Nat] /\ f[0] = 0 /\ \A i \in 1..n : f[i] = g[<<i, f[i - 1]>>]
      BY <1>5 DEF Table
    <2>1. ASSUME NEW i \in 0..n PROVE f[i] = F(f)[i]
      <3>1. CASE i = 0
        BY <2>0, <3>1
      <3>2. CASE i # 0
        <4>1. i \in 1..n /\ i - 1 \in 0..n
          BY <1>1, <3>2
        <4>2. f[i - 1] \in Nat
          BY <2>0, <4>1
        <4>3. f[i] = g[<<i, f[i - 1]>>]
          BY <2>0, <4>1
        <4> QED BY <1>3, <3>2, <4>1, <4>2, <4>3
      <3> QED BY <3>1, <3>2
    <2> QED BY <2>0, <2>1
  <1>7. PICK sum : sum = F(sum) /\ Chars(s) = sum[n]
    <2>1. \E h : h = F(h)
      BY <1>6
    <2> HIDE DEF g
    <2> QED BY <2>1 DEF Chars
  <1>8. /\ DOMAIN sum = 0..n /\ sum = [i \in 0..n |-> sum[i]] /\ sum[0] = 0
        /\ \A i \in 1..n : sum[i] = sum[i - 1] + Size[s[i].file]
    BY <1>1, <1>7
  <1>9. \A i \in 0..n : sum[i] \in Nat
    <2> DEFINE G == {i \in 0..n : sum[i] \in Nat}
    <2>1. 0 \in G
      BY <1>1, <1>8
    <2>2. ASSUME NEW i \in 1..n, i - 1 \in G PROVE i \in G
      <3>1. sum[i - 1] \in Nat /\ Size[s[i].file] \in Nat
        BY <1>2, <2>2
      <3>2. sum[i] = sum[i - 1] + Size[s[i].file]
        BY <1>8
      <3>3. i \in 0..n
        BY <1>1
      <3> QED BY <3>1, <3>2, <3>3
    <2> HIDE DEF G
    <2>3. 0..n \subseteq G
      BY <1>1, <2>1, <2>2, AllNumbers
    <2> QED BY <2>3 DEF G
  <1>10. sum \in [0..n -> Nat]
    BY <1>8, <1>9
  <1> QED BY <1>7, <1>8, <1>10

\* Excerpts have a length; one more adds its own; and leaving off the last
\* ones makes nothing longer.
LEMMA CharsFacts ==
  /\ Chars(<<>>) = 0
  /\ \A s \in Seq(Match) : Chars(s) \in Nat
  /\ \A s \in Seq(Match), x \in Match : Chars(Append(s, x)) = Chars(s) + Size[x.file]
  /\ \A s \in Seq(Match) : \A k \in 0..Len(s) :
       SubSeq(s, 1, k) \in Seq(Match) /\ Chars(SubSeq(s, 1, k)) <= Chars(s)
  <1>1. Chars(<<>>) = 0
    <2>1. <<>> \in Seq(Match) /\ Len(<<>>) = 0
      OBVIOUS
    <2> QED BY <2>1, CharsTable
  <1>2. \A s \in Seq(Match) : Chars(s) \in Nat
    <2>1. ASSUME NEW s \in Seq(Match) PROVE Chars(s) \in Nat
      <3>1. PICK sum \in [0..Len(s) -> Nat] : Chars(s) = sum[Len(s)]
        BY CharsTable
      <3>2. Len(s) \in 0..Len(s)
        OBVIOUS
      <3> QED BY <3>1, <3>2
    <2> QED BY <2>1
  <1>3. ASSUME NEW s \in Seq(Match), NEW x \in Match
        PROVE  Chars(Append(s, x)) = Chars(s) + Size[x.file]
    <2> DEFINE t == Append(s, x)
               n == Len(s)
    <2>1. /\ n \in Nat /\ t \in Seq(Match) /\ Len(t) = n + 1 /\ t[n + 1] = x
          /\ \A i \in 1..n : t[i] = s[i]
      OBVIOUS
    <2>2. PICK sum \in [0..n -> Nat] :
            /\ sum[0] = 0 /\ \A i \in 1..n : sum[i] = sum[i - 1] + Size[s[i].file]
            /\ Chars(s) = sum[n]
      BY CharsTable
    <2> HIDE DEF t
    <2>3. PICK more \in [0..Len(t) -> Nat] :
            /\ more[0] = 0 /\ \A i \in 1..Len(t) : more[i] = more[i - 1] + Size[t[i].file]
            /\ Chars(t) = more[Len(t)]
      BY <2>1, CharsTable
    <2> DEFINE G == {i \in 0..n : more[i] = sum[i]}
    <2>4. 0 \in G
      BY <2>1, <2>2, <2>3
    <2>5. ASSUME NEW i \in 1..n, i - 1 \in G PROVE i \in G
      <3>1. i \in 1..Len(t) /\ i \in 0..n
        BY <2>1
      <3>2. more[i] = more[i - 1] + Size[s[i].file]
        BY <2>1, <2>3, <3>1
      <3>3. sum[i] = sum[i - 1] + Size[s[i].file] /\ more[i - 1] = sum[i - 1]
        BY <2>2, <2>5
      <3> QED BY <3>1, <3>2, <3>3
    <2>6. 0..n \subseteq G
      <3> HIDE DEF G, n
      <3> QED BY <2>1, <2>4, <2>5, AllNumbers
    <2>7. more[n] = sum[n]
      BY <2>1, <2>6
    <2>8. more[n + 1] = more[n] + Size[x.file]
      <3>1. n + 1 \in 1..Len(t) /\ (n + 1) - 1 = n
        BY <2>1
      <3> QED BY <2>1, <2>3, <3>1
    <2>9. Chars(t) = Chars(s) + Size[x.file]
      BY <2>1, <2>2, <2>3, <2>7, <2>8
    <2> QED BY <2>9 DEF t
  <1>4. ASSUME NEW s \in Seq(Match), NEW k \in 0..Len(s)
        PROVE  SubSeq(s, 1, k) \in Seq(Match) /\ Chars(SubSeq(s, 1, k)) <= Chars(s)
    <2> DEFINE n == Len(s)
               part(j) == SubSeq(s, 1, j)
               G == {j \in 0..n : Chars(part(n - j)) <= Chars(s)}
    <2>1. n \in Nat /\ \A j \in 0..n : part(j) \in Seq(Match) /\ Len(part(j)) = j
      OBVIOUS
    <2>2. part(n) = s
      OBVIOUS
    <2>3. \A j \in 1..n : part(j) = Append(part(j - 1), s[j]) /\ s[j] \in Match
      OBVIOUS
    <2>4. \A x \in Match : Size[x.file] \in Nat
      BY EvidenceAssumption DEF Match, File
    <2>5. \A j \in 1..n : Chars(part(j - 1)) <= Chars(part(j))
      <3>1. ASSUME NEW j \in 1..n PROVE Chars(part(j - 1)) <= Chars(part(j))
        <4>1. j - 1 \in 0..n
          BY <2>1
        <4> HIDE DEF part
        <4>2. part(j - 1) \in Seq(Match) /\ s[j] \in Match /\ part(j) = Append(part(j - 1), s[j])
          BY <2>1, <2>3, <4>1
        <4>3. Chars(part(j)) = Chars(part(j - 1)) + Size[s[j].file]
          BY <1>3, <4>2
        <4>4. Chars(part(j - 1)) \in Nat /\ Size[s[j].file] \in Nat
          BY <1>2, <2>4, <4>2
        <4> QED BY <4>3, <4>4
      <3> QED BY <3>1
    <2> HIDE DEF part
    <2>6. \A j \in 0..n : Chars(part(j)) \in Nat
      BY <1>2, <2>1
    <2>7. 0 \in G
      <3>1. n - 0 = n /\ 0 \in 0..n
        BY <2>1
      <3>2. Chars(s) \in Nat
        BY <1>2
      <3> QED BY <2>2, <3>1, <3>2
    <2>8. ASSUME NEW j \in 1..n, j - 1 \in G PROVE j \in G
      <3>1. /\ n - (j - 1) \in 1..n /\ (n - (j - 1)) - 1 = n - j /\ n - j \in 0..n
            /\ n - (j - 1) \in 0..n
        BY <2>1
      <3>2. Chars(part(n - j)) <= Chars(part(n - (j - 1)))
        BY <2>5, <3>1
      <3>3. Chars(part(n - (j - 1))) <= Chars(s)
        BY <2>8
      <3>4. /\ Chars(part(n - j)) \in Nat /\ Chars(part(n - (j - 1))) \in Nat /\ Chars(s) \in Nat
        BY <1>2, <2>6, <3>1
      <3>5. j \in 0..n
        BY <2>1
      <3> QED BY <3>2, <3>3, <3>4, <3>5
    <2>9. 0..n \subseteq G
      <3> HIDE DEF G, n
      <3> QED BY <2>1, <2>7, <2>8, AllNumbers
    <2>10. n - k \in 0..n /\ n - (n - k) = k
      BY <2>1
    <2>11. Chars(part(n - (n - k))) <= Chars(s)
      BY <2>9, <2>10
    <2>12. Chars(part(k)) <= Chars(s) /\ part(k) \in Seq(Match)
      BY <2>1, <2>10, <2>11
    <2> QED BY <2>12 DEF part
  <1> QED BY <1>1, <1>2, <1>3, <1>4

\* What is kept of excerpts that are too long is some of them, and fits.
LEMMA TrimmedFits ==
  ASSUME NEW s \in Seq(Match)
  PROVE  /\ Trimmed(s) \in Seq(Match) /\ Elements(Trimmed(s)) \subseteq Elements(s)
         /\ Chars(Trimmed(s)) <= MaxEvidenceChars
  <1> DEFINE n == Len(s)
             Step1(c, i) == IF Chars(c) + Size[s[i].file] <= MaxEvidenceChars
                            THEN Append(c, s[i]) ELSE c
             F(f) == [i \in 0..n |-> IF i = 0 THEN <<>> ELSE Step1(f[i - 1], i)]
             g == [p \in (1..n) \X Seq(Match) |-> Step1(p[2], p[1])]
  <1>1. n \in Nat /\ <<>> \in Seq(Match) /\ \A i \in 1..n : s[i] \in Match
    OBVIOUS
  <1>2. \A i \in 1..n : \A c \in Seq(Match) : Step1(c, i) \in Seq(Match)
    BY <1>1
  <1>3. \A i \in 1..n : \A c \in Seq(Match) : g[<<i, c>>] = Step1(c, i)
    OBVIOUS
  <1>4. g \in [(1..n) \X Seq(Match) -> Seq(Match)]
    <2> HIDE DEF Step1
    <2> QED BY <1>2
  <1>5. PICK f : Table(Seq(Match), n, <<>>, g, f)
    <2> HIDE DEF g, n, F, Step1
    <2> QED BY <1>1, <1>4, TableExists, Zenon
  <1>6. f = F(f)
    <2> HIDE DEF g, Step1
    <2>1. /\ f \in [0..n -> Seq(Match)] /\ f[0] = <<>>
          /\ \A i \in 1..n : f[i] = g[<<i, f[i - 1]>>]
      BY <1>5 DEF Table
    <2>2. ASSUME NEW i \in 0..n PROVE f[i] = IF i = 0 THEN <<>> ELSE Step1(f[i - 1], i)
      <3>1. CASE i = 0
        BY <2>1, <3>1
      <3>2. CASE i # 0
        <4>1. i \in 1..n /\ i - 1 \in 0..n
          BY <1>1, <3>2
        <4>2. f[i - 1] \in Seq(Match) /\ f[i] = g[<<i, f[i - 1]>>]
          BY <2>1, <4>1
        <4> QED BY <1>3, <3>2, <4>1, <4>2
      <3> QED BY <3>1, <3>2
    <2> QED BY <2>1, <2>2
  <1>7. PICK kept : kept = F(kept) /\ Trimmed(s) = kept[n]
    <2>1. \E h : h = F(h)
      BY <1>6
    <2> HIDE DEF g
    <2> QED BY <2>1 DEF Trimmed
  <1>8. kept[0] = <<>> /\ \A i \in 1..n : kept[i] = Step1(kept[i - 1], i)
    <2> HIDE DEF Step1
    <2> QED BY <1>1, <1>7
  <1> DEFINE Fine(c) == /\ c \in Seq(Match) /\ Elements(c) \subseteq Elements(s)
                        /\ Chars(c) <= MaxEvidenceChars
             G == {i \in 0..n : Fine(kept[i])}
  <1>9. MaxEvidenceChars \in Nat
    BY EvidenceAssumption
  <1>10. 0 \in G
    <2>1. Fine(<<>>)
      BY <1>1, <1>9, CharsFacts, ElementsOf
    <2> HIDE DEF Fine
    <2> QED BY <1>1, <1>8, <2>1
  <1>11. ASSUME NEW i \in 1..n, i - 1 \in G PROVE i \in G
    <2> DEFINE c == kept[i - 1]
    <2>1. Fine(c) /\ i \in 0..n
      BY <1>1, <1>11
    <2>2. kept[i] = Step1(c, i)
      BY <1>8
    <2> HIDE DEF c
    <2>3. s[i] \in Match /\ s[i] \in Elements(s)
      BY <1>1 DEF Elements
    <2>4. /\ Append(c, s[i]) \in Seq(Match)
          /\ Elements(Append(c, s[i])) = Elements(c) \cup {s[i]}
          /\ Chars(Append(c, s[i])) = Chars(c) + Size[s[i].file]
      BY <2>1, <2>3, CharsFacts, ElementsOf
    <2>5. Fine(Step1(c, i))
      <3>1. CASE Chars(c) + Size[s[i].file] <= MaxEvidenceChars
        <4>1. Step1(c, i) = Append(c, s[i])
          BY <3>1
        <4>2. Fine(Append(c, s[i]))
          BY <2>1, <2>3, <2>4, <3>1
        <4> QED BY <4>1, <4>2, Zenon
      <3>2. CASE ~ (Chars(c) + Size[s[i].file] <= MaxEvidenceChars)
        <4>1. Step1(c, i) = c
          BY <3>2
        <4> QED BY <2>1, <4>1, Zenon
      <3> QED BY <3>1, <3>2
    <2> HIDE DEF Fine, Step1
    <2> QED BY <2>1, <2>2, <2>5
  <1> HIDE DEF G
  <1>12. 0..n \subseteq G
    <2> HIDE DEF n
    <2> QED BY <1>1, <1>10, <1>11, AllNumbers
  <1>13. n \in G
    BY <1>1, <1>12
  <1> QED BY <1>7, <1>13 DEF G

\* What is quoted of a file is every match in it.
LEMMA MatchesInFile ==
  ASSUME NEW f, matches \in Seq(Match)
  PROVE  /\ MatchesIn(f) \in Seq(Match)
         /\ \A x : x \in Elements(MatchesIn(f)) <=> x \in Elements(matches) /\ x.file = f
  <1> DEFINE n == Len(matches)
             Step1(c, i) == IF matches[i].file = f THEN Append(c, matches[i]) ELSE c
             F(h) == [i \in 0..n |-> IF i = 0 THEN <<>> ELSE Step1(h[i - 1], i)]
             g == [p \in (1..n) \X Seq(Match) |-> Step1(p[2], p[1])]
  <1>1. n \in Nat /\ <<>> \in Seq(Match) /\ \A i \in 1..n : matches[i] \in Match
    OBVIOUS
  <1>2. \A i \in 1..n : \A c \in Seq(Match) : Step1(c, i) \in Seq(Match)
    BY <1>1
  <1>3. \A i \in 1..n : \A c \in Seq(Match) : g[<<i, c>>] = Step1(c, i)
    OBVIOUS
  <1>4. g \in [(1..n) \X Seq(Match) -> Seq(Match)]
    <2> HIDE DEF Step1
    <2> QED BY <1>2
  <1>5. PICK t : Table(Seq(Match), n, <<>>, g, t)
    <2> HIDE DEF g, n, F, Step1
    <2> QED BY <1>1, <1>4, TableExists, Zenon
  <1>6. t = F(t)
    <2> HIDE DEF g, Step1
    <2>1. /\ t \in [0..n -> Seq(Match)] /\ t[0] = <<>>
          /\ \A i \in 1..n : t[i] = g[<<i, t[i - 1]>>]
      BY <1>5 DEF Table
    <2>2. ASSUME NEW i \in 0..n PROVE t[i] = IF i = 0 THEN <<>> ELSE Step1(t[i - 1], i)
      <3>1. CASE i = 0
        BY <2>1, <3>1
      <3>2. CASE i # 0
        <4>1. i \in 1..n /\ i - 1 \in 0..n
          BY <1>1, <3>2
        <4>2. t[i - 1] \in Seq(Match) /\ t[i] = g[<<i, t[i - 1]>>]
          BY <2>1, <4>1
        <4> QED BY <1>3, <3>2, <4>1, <4>2
      <3> QED BY <3>1, <3>2
    <2> QED BY <2>1, <2>2
  <1>7. PICK of : of = F(of) /\ MatchesIn(f) = of[n]
    <2>1. \E h : h = F(h)
      BY <1>6
    <2> HIDE DEF g
    <2> QED BY <2>1 DEF MatchesIn
  <1>8. of[0] = <<>> /\ \A i \in 1..n : of[i] = Step1(of[i - 1], i)
    <2> HIDE DEF Step1
    <2> QED BY <1>1, <1>7
  <1> DEFINE Quoted(i) == {matches[j] : j \in {k \in 1..i : matches[k].file = f}}
             Fine(i) == of[i] \in Seq(Match) /\ Elements(of[i]) = Quoted(i)
             G == {i \in 0..n : Fine(i)}
  <1>9. 0 \in G
    <2>1. Quoted(0) = {}
      OBVIOUS
    <2>2. Elements(<<>>) = {}
      BY ElementsOf
    <2>3. Fine(0)
      <3> HIDE DEF Quoted
      <3> QED BY <1>1, <1>8, <2>1, <2>2
    <2> HIDE DEF Fine
    <2> QED BY <1>1, <2>3
  <1>10. ASSUME NEW i \in 1..n, i - 1 \in G PROVE i \in G
    <2>0. i \in 0..n
      BY <1>1
    <2>1. Fine(i - 1)
      <3> HIDE DEF Fine
      <3> QED BY <1>10
    <2>2. of[i] = Step1(of[i - 1], i)
      BY <1>8
    <2>3. 1..i = 1..(i - 1) \cup {i}
      OBVIOUS
    <2>4. ASSUME matches[i].file = f PROVE Fine(i)
      <3>1. Quoted(i) = Quoted(i - 1) \cup {matches[i]}
        BY <2>3, <2>4
      <3>2. of[i] = Append(of[i - 1], matches[i])
        BY <2>2, <2>4
      <3> HIDE DEF Quoted
      <3>3. /\ Append(of[i - 1], matches[i]) \in Seq(Match)
            /\ Elements(Append(of[i - 1], matches[i])) = Elements(of[i - 1]) \cup {matches[i]}
        BY <1>1, <2>1, ElementsOf
      <3> QED BY <2>1, <3>1, <3>2, <3>3
    <2>5. ASSUME matches[i].file # f PROVE Fine(i)
      <3>1. Quoted(i) = Quoted(i - 1)
        BY <2>3, <2>5
      <3>2. of[i] = of[i - 1]
        BY <2>2, <2>5
      <3> HIDE DEF Quoted
      <3> QED BY <2>1, <3>1, <3>2
    <2>6. Fine(i)
      BY <2>4, <2>5
    <2> HIDE DEF Fine
    <2> QED BY <2>0, <2>6
  <1> HIDE DEF G
  <1>11. 0..n \subseteq G
    <2> HIDE DEF n
    <2> QED BY <1>1, <1>9, <1>10, AllNumbers
  <1>12. n \in G
    BY <1>1, <1>11
  <1>13. of[n] \in Seq(Match) /\ Elements(of[n]) = Quoted(n)
    BY <1>12 DEF G
  <1>14. \A x : x \in Quoted(n) <=> x \in Elements(matches) /\ x.file = f
    BY DEF Elements
  <1> QED BY <1>7, <1>13, <1>14

\* A search's matches are one for each file found.
LEMMA PathOrder ==
  ASSUME NEW k \in Nat, NEW found \in SUBSET File
  PROVE  /\ InPathOrder(k, found) \in Seq(Match)
         /\ Elements(InPathOrder(k, found)) = {[keyword |-> k, file |-> f] : f \in found}
  <1> DEFINE R == {p \in found \X found : p[1] < p[2]}
             n == Cardinality(found)
             rank(f) == Cardinality({g \in found : g < f})
             At(i) == CHOOSE f \in found : rank(f) = i - 1
             match(f) == [keyword |-> k, file |-> f]
  <1>1. Files \in Nat /\ File \subseteq Nat
    BY EvidenceAssumption DEF File
  <1>2. IsFiniteSet(found) /\ n \in Nat
    <2>1. IsFiniteSet(File)
      BY <1>1, FS_Interval DEF File
    <2> QED BY <2>1, FS_Subset, FS_CardinalityType
  <1>3. \A f, g \in found : <<f, g>> \in R <=> f < g
    OBVIOUS
  <1>4. StrictOrder(found, R)
    <2> HIDE DEF R
    <2> QED BY <1>1, <1>3 DEF StrictOrder
  <1>5. \A f \in found : RankIn(found, R, f) = rank(f)
    <2>1. ASSUME NEW f \in found PROVE RankIn(found, R, f) = rank(f)
      <3>1. Before(found, R, f) = {g \in found : g < f}
        BY <1>3 DEF Before
      <3> QED BY <3>1 DEF RankIn
    <2> QED BY <2>1
  <1> HIDE DEF R
  <1>6. /\ \A f \in found : RankIn(found, R, f) \in 0..(n - 1)
        /\ \A f, g \in found : <<f, g>> \in R <=> RankIn(found, R, f) < RankIn(found, R, g)
        /\ \A i \in 0..(n - 1) : \E f \in found : RankIn(found, R, f) = i
    BY <1>2, <1>4, Ranks
  <1> HIDE DEF rank
  <1>7. /\ \A f \in found : rank(f) \in 0..(n - 1)
        /\ \A i \in 0..(n - 1) : \E f \in found : rank(f) = i
    BY <1>5, <1>6
  <1>8. ASSUME NEW f \in found, NEW g \in found, rank(f) = rank(g) PROVE f = g
    <2>0. RankIn(found, R, f) = RankIn(found, R, g) /\ RankIn(found, R, f) \in Nat
      <3>1. RankIn(found, R, f) = rank(f) /\ RankIn(found, R, g) = rank(g)
        BY <1>5
      <3>2. RankIn(found, R, f) \in 0..(n - 1)
        BY <1>6
      <3> QED BY <1>8, <3>1, <3>2
    <2>1. ~ (f < g) /\ ~ (g < f)
      <3>1. ~ (<<f, g>> \in R) /\ ~ (<<g, f>> \in R)
        BY <1>6, <2>0
      <3> QED BY <1>3, <3>1
    <2> QED BY <1>1, <2>1
  <1> HIDE DEF n
  <1>9. ASSUME NEW i \in 1..n PROVE At(i) \in found /\ rank(At(i)) = i - 1
    <2>1. i - 1 \in 0..(n - 1)
      BY <1>2
    <2>2. \E f \in found : rank(f) = i - 1
      BY <1>7, <2>1
    <2> QED BY <2>2
  <1>10. ASSUME NEW f \in found PROVE rank(f) + 1 \in 1..n /\ At(rank(f) + 1) = f
    <2>1. rank(f) + 1 \in 1..n /\ (rank(f) + 1) - 1 = rank(f)
      BY <1>2, <1>7
    <2>2. At(rank(f) + 1) \in found /\ rank(At(rank(f) + 1)) = rank(f)
      BY <1>9, <2>1
    <2> HIDE DEF At
    <2> QED BY <1>8, <2>1, <2>2
  <1>11. InPathOrder(k, found) = [i \in 1..n |-> match(At(i))]
    BY DEF InPathOrder, n, rank
  <1> HIDE DEF At
  <1>12. \A f \in found : match(f) \in Match
    BY DEF Match
  <1> HIDE DEF match
  <1>13. InPathOrder(k, found) \in Seq(Match) /\ Len(InPathOrder(k, found)) = n
    <2>1. [i \in 1..n |-> match(At(i))] \in [1..n -> Match]
      BY <1>9, <1>12
    <2>2. n \in Nat
      BY <1>2
    <2>3. \A h \in [1..n -> Match] : h \in Seq(Match) /\ Len(h) = n
      BY <2>2
    <2> QED BY <1>11, <2>1, <2>3
  <1>14. Elements(InPathOrder(k, found)) = {match(f) : f \in found}
    <2>1. Elements(InPathOrder(k, found)) = {match(At(i)) : i \in 1..n}
      BY <1>11, <1>13 DEF Elements
    <2>2. {match(At(i)) : i \in 1..n} = {match(f) : f \in found}
      BY <1>9, <1>10
    <2> QED BY <2>1, <2>2
  <1> QED BY <1>13, <1>14 DEF match

\* The files picked are matched ones, as many as may be, and none of them is
\* outranked by one that was passed over.
LEMMA BestFirst ==
  ASSUME matches \in Seq(Match)
  PROVE  /\ Ranked \in Seq(File) /\ Len(Ranked) <= MaxSelectedFiles
         /\ Elements(Ranked) \subseteq MatchedFiles
         /\ \A f \in MatchedFiles \ Elements(Ranked) : \A g \in Elements(Ranked) : Outranks(g, f)
  <1> DEFINE M == MatchedFiles
             R == {p \in M \X M : Outranks(p[1], p[2])}
             n == Cardinality(M)
             rank(f) == Cardinality({g \in M : Outranks(g, f)})
             last == IF n < MaxSelectedFiles THEN n ELSE MaxSelectedFiles
             At(i) == CHOOSE f \in M : Place(f) = i
  <1>1. M \subseteq File /\ Files \in Nat /\ MaxSelectedFiles \in Nat
    <2>1. \A i \in 1..Len(matches) : matches[i] \in Match
      OBVIOUS
    <2>2. \A x \in Match : x.file \in File
      BY DEF Match
    <2> QED BY <2>1, <2>2, EvidenceAssumption DEF MatchedFiles
  <1>2. IsFiniteSet(M) /\ n \in Nat
    <2>1. IsFiniteSet(File)
      BY <1>1, FS_Interval DEF File
    <2> HIDE DEF M
    <2> QED BY <1>1, <2>1, FS_Subset, FS_CardinalityType
  <1>3. \A f \in File : f \in Nat /\ Depth[f] \in Nat /\ Score(f) \in Nat
    <2>1. ASSUME NEW f \in File PROVE Score(f) \in Nat
      <3>1. IsFiniteSet(1..Len(matches))
        BY FS_Interval
      <3>2. {i \in 1..Len(matches) : matches[i].file = f} \in SUBSET (1..Len(matches))
        OBVIOUS
      <3> QED BY <3>1, <3>2, FS_Subset, FS_CardinalityType DEF Score
    <2>2. \A f \in File : f \in Nat /\ Depth[f] \in Nat
      BY EvidenceAssumption DEF File
    <2> QED BY <2>1, <2>2
  <1>4. \A f, g \in M : <<f, g>> \in R <=> Outranks(f, g)
    OBVIOUS
  <1>5. StrictOrder(M, R)
    <2> HIDE DEF M, R
    <2>1. \A f, g \in M : <<f, g>> \in R <=>
            \/ Depth[f] < Depth[g]
            \/ Depth[f] = Depth[g] /\ Score(f) > Score(g)
            \/ Depth[f] = Depth[g] /\ Score(f) = Score(g) /\ f < g
      BY <1>4 DEF Outranks
    <2>2. \A f \in M : f \in Nat /\ Depth[f] \in Nat /\ Score(f) \in Nat
      BY <1>1, <1>3
    <2>3. \A f \in M : <<f, f>> \notin R
      BY <2>1, <2>2
    <2>4. ASSUME NEW f \in M, NEW g \in M, NEW h \in M, <<f, g>> \in R, <<g, h>> \in R
          PROVE  <<f, h>> \in R
      <3>1. /\ Depth[f] \in Nat /\ Depth[g] \in Nat /\ Depth[h] \in Nat
            /\ Score(f) \in Nat /\ Score(g) \in Nat /\ Score(h) \in Nat
            /\ f \in Nat /\ g \in Nat /\ h \in Nat
        BY <2>2
      <3>2. /\ \/ Depth[f] < Depth[g]
               \/ Depth[f] = Depth[g] /\ Score(f) > Score(g)
               \/ Depth[f] = Depth[g] /\ Score(f) = Score(g) /\ f < g
            /\ \/ Depth[g] < Depth[h]
               \/ Depth[g] = Depth[h] /\ Score(g) > Score(h)
               \/ Depth[g] = Depth[h] /\ Score(g) = Score(h) /\ g < h
        BY <2>1, <2>4
      <3>3. \/ Depth[f] < Depth[h]
            \/ Depth[f] = Depth[h] /\ Score(f) > Score(h)
            \/ Depth[f] = Depth[h] /\ Score(f) = Score(h) /\ f < h
        BY <3>1, <3>2
      <3> QED BY <2>1, <3>3
    <2>5. ASSUME NEW f \in M, NEW g \in M
          PROVE  f = g \/ <<f, g>> \in R \/ <<g, f>> \in R
      BY <2>1, <2>2
    <2> QED BY <2>3, <2>4, <2>5 DEF StrictOrder
  <1>6. \A f \in M : RankIn(M, R, f) = rank(f)
    <2>1. ASSUME NEW f \in M PROVE RankIn(M, R, f) = rank(f)
      <3>1. Before(M, R, f) = {g \in M : Outranks(g, f)}
        <4> HIDE DEF M, R
        <4> QED BY <1>4 DEF Before
      <3> QED BY <3>1 DEF RankIn
    <2> QED BY <2>1
  <1>7. \A f \in M : Place(f) = rank(f) + 1
    BY DEF Place
  <1> HIDE DEF M, R, rank
  <1>8. /\ \A f \in M : RankIn(M, R, f) \in 0..(n - 1)
        /\ \A f, g \in M : <<f, g>> \in R <=> RankIn(M, R, f) < RankIn(M, R, g)
        /\ \A i \in 0..(n - 1) : \E f \in M : RankIn(M, R, f) = i
    BY <1>2, <1>5, Ranks
  <1> HIDE DEF n
  <1>9. \A f \in M : Place(f) \in 1..n
    BY <1>2, <1>6, <1>7, <1>8
  <1>10. \A f, g \in M : Outranks(f, g) <=> Place(f) < Place(g)
    <2>1. ASSUME NEW f \in M, NEW g \in M PROVE Outranks(f, g) <=> Place(f) < Place(g)
      <3>1. Outranks(f, g) <=> rank(f) < rank(g)
        BY <1>4, <1>6, <1>8
      <3>2. rank(f) \in Nat /\ rank(g) \in Nat
        BY <1>2, <1>6, <1>8
      <3> QED BY <1>7, <3>1, <3>2
    <2> QED BY <2>1
  <1>11. ASSUME NEW f \in M, NEW g \in M, Place(f) = Place(g) PROVE f = g
    <2>1. ~ (<<f, g>> \in R) /\ ~ (<<g, f>> \in R)
      <3>1. Place(f) \in Nat /\ Place(g) \in Nat
        BY <1>9
      <3> QED BY <1>4, <1>10, <1>11, <3>1
    <2> QED BY <1>5, <2>1 DEF StrictOrder
  <1>12. last \in Nat /\ last <= n /\ last <= MaxSelectedFiles
    BY <1>1, <1>2
  <1>13. n = last \/ last = MaxSelectedFiles
    OBVIOUS
  <1>14. Ranked = [i \in 1..last |-> At(i)]
    BY DEF Ranked, n, M
  <1> HIDE DEF last
  <1>15. ASSUME NEW i \in 1..last PROVE At(i) \in M /\ Place(At(i)) = i
    <2>1. i - 1 \in 0..(n - 1)
      BY <1>2, <1>12
    <2>2. PICK f \in M : RankIn(M, R, f) = i - 1
      BY <1>8, <2>1
    <2>3. Place(f) = i
      BY <1>6, <1>7, <2>2
    <2> QED BY <2>3
  <1> HIDE DEF At
  <1>16. Ranked \in Seq(File) /\ Len(Ranked) = last
    <2>1. [i \in 1..last |-> At(i)] \in [1..last -> File]
      BY <1>1, <1>15
    <2> QED BY <1>12, <1>14, <2>1
  <1>17. Elements(Ranked) = {At(i) : i \in 1..last}
    BY <1>14, <1>16 DEF Elements
  <1>18. ASSUME NEW f \in M, f \notin Elements(Ranked), NEW i \in 1..last
         PROVE  Outranks(At(i), f)
    <2>1. Place(f) \in 1..n
      BY <1>9
    <2>2. ASSUME Place(f) <= last PROVE FALSE
      <3>1. Place(f) \in 1..last
        BY <2>1, <2>2
      <3>2. At(Place(f)) = f
        BY <1>11, <1>15, <3>1
      <3> QED BY <1>17, <1>18, <3>1, <3>2
    <2>3. Place(At(i)) < Place(f)
      BY <1>12, <1>15, <2>1, <2>2
    <2> QED BY <1>10, <1>15, <2>3
  <1>19. Elements(Ranked) \subseteq M
    BY <1>15, <1>17
  <1>20. \A f \in M \ Elements(Ranked) : \A g \in Elements(Ranked) : Outranks(g, f)
    BY <1>17, <1>18
  <1> QED BY <1>12, <1>16, <1>19, <1>20 DEF M
-------------------------------------------------------------------------------
(* The collection of evidence *)

FileKinds == {"text", "opaque", "sensitive", "link", "odd"}
Calls == [tool : {"list", "search", "read"}, arg : Nat, status : {"success", "failed"}]

\* Keywords and files are both numbers, so todo holds numbers at any stage.
EvidenceTypes ==
  /\ limit \in Nat /\ truncated \in BOOLEAN /\ hashed \in SUBSET File
  /\ stage \in {"list", "search", "read", "bundled", "failed", "handed"}
  /\ todo \in Seq(Nat) /\ records \in Seq(Calls) /\ matches \in Seq(Match)
  /\ selected \in Seq(File) /\ excerpts \in Seq(Match)
  /\ stage # "handed" =>
       /\ kind \in [File -> FileKinds]
       /\ \E n \in KeywordCounts : hits \in [1..n -> SUBSET File]
  /\ stage = "list" => /\ limit > 0 /\ records = <<>> /\ matches = <<>>
                       /\ hashed = {} /\ excerpts = <<>>
  /\ stage = "search" => hashed = {} /\ excerpts = <<>>
  /\ stage = "read" => todo \in Seq(File)
  /\ Len(records) <= limit

\* Whatever matched or was read is text.
OnlyText == \A f \in MatchedFiles \cup hashed : kind[f] = "text"

\* A keyword was searched for; if that succeeded its matches are all there.
SearchedFor(k) ==
  \E r \in Elements(records) :
    /\ r.tool = "search" /\ r.arg = k
    /\ r.status = "success" =>
         \A f \in hits[k] : kind[f] = "text" => [keyword |-> k, file |-> f] \in Elements(matches)
AllSearched == \A k \in DOMAIN hits : SearchedFor(k)
SearchInv ==
  /\ stage = "search" =>
       /\ Elements(todo) \subseteq DOMAIN hits
       /\ \/ truncated
          \/ \A k \in DOMAIN hits : k \in Elements(todo) \/ SearchedFor(k)
  /\ stage \in {"read", "bundled"} => truncated \/ AllSearched

ReadFor(f) == \E r \in Elements(records) : r.tool = "read" /\ r.arg = f
WellSelected ==
  /\ Len(selected) <= MaxSelectedFiles
  /\ \A f \in MatchedFiles \ Elements(selected) : \A g \in Elements(selected) : Outranks(g, f)
ReadInv ==
  stage = "read" =>
    /\ \A f \in Elements(selected) : f \in Elements(todo) \/ ReadFor(f)
    /\ Elements(excerpts) = {x \in Elements(matches) : x.file \in hashed}

BundleInv ==
  stage = "bundled" =>
    /\ Chars(excerpts) <= MaxEvidenceChars /\ Len(excerpts) <= MaxSearchMatches
    /\ \A e \in Elements(excerpts) : e \in Elements(matches) /\ e.file \in hashed
    /\ \/ truncated
       \/ /\ \A f \in Elements(selected) : ReadFor(f)
          /\ \/ Len(excerpts) = MaxSearchMatches
             \/ \A x \in Elements(matches) : x.file \in hashed => x \in Elements(excerpts)

EInv ==
  /\ EvidenceTypes /\ OnlyText /\ SearchInv
  /\ stage \in {"read", "bundled"} => WellSelected
  /\ ReadInv /\ BundleInv

\* What can be read is text.
LEMMA ReadableIsText ==
  ASSUME kind \in [File -> FileKinds], NEW f \in File
  PROVE  Readable(f) <=> kind[f] = "text"
  <1>1. kind[f] \in FileKinds
    OBVIOUS
  <1> QED BY <1>1 DEF FileKinds, Readable, Resolves, Listed, Sensitive

\* A tool's result is an answer or a failure, and the record of it is typed.
LEMMA Results ==
  ASSUME NEW S, NEW result \in ToolResults(S), NEW tool \in {"list", "search", "read"},
         NEW arg \in Nat
  PROVE  /\ Record(tool, arg, result) \in Calls
         /\ Record(tool, arg, result).tool = tool /\ Record(tool, arg, result).arg = arg
         /\ result = Failed => Record(tool, arg, result).status # "success"
         /\ result # Failed => \E a \in S : result = Success(a) /\ result.output = a
  <1>1. result = Failed \/ \E a \in S : result = Success(a)
    BY DEF ToolResults
  <1>2. /\ Failed.status = "failed"
        /\ \A a : Success(a).status = "success" /\ Success(a).output = a
    BY DEF Failed, Success
  <1>3. result.status \in {"success", "failed"}
    BY <1>1, <1>2
  <1> QED BY <1>1, <1>2, <1>3 DEF Record, Calls

\* The matched files are those of the matches.
LEMMA Matched == \A f : f \in MatchedFiles <=> \E x \in Elements(matches) : f = x.file
  BY DEF MatchedFiles, Elements

\* Nothing is collected at the start of a run.
LEMMA EvidenceStart == Init => EInv
  <1> SUFFICES ASSUME Init PROVE EInv
    OBVIOUS
  <1>1. /\ limit \in ToolCallLimits /\ kind \in Kinds /\ stage = "list" /\ todo = <<>>
        /\ records = <<>> /\ matches = <<>> /\ selected = <<>> /\ hashed = {}
        /\ excerpts = <<>> /\ truncated = FALSE
    BY DEF Init, EvidenceInit
  <1>2. limit \in Nat /\ limit > 0 /\ kind \in [File -> FileKinds]
    BY <1>1, EvidenceAssumption DEF File, FileKinds
  <1>3. \E n \in KeywordCounts : hits \in [1..n -> SUBSET File]
    <2> DEFINE others == {f \in File : kind[f] # "text"}
               Occurrences == {others \cup s : s \in SUBSET (File \ others)}
    <2>1. Occurrences \subseteq SUBSET File
      OBVIOUS
    <2>2. hits \in UNION {[1..n -> Occurrences] : n \in KeywordCounts}
      BY DEF Init, EvidenceInit
    <2> HIDE DEF Occurrences
    <2>3. PICK n \in KeywordCounts : hits \in [1..n -> Occurrences]
      BY <2>2
    <2> QED BY <2>1, <2>3
  <1>4. Len(records) <= limit
    BY <1>1, <1>2
  <1>5. EvidenceTypes
    <2>1. /\ todo \in Seq(Nat) /\ records \in Seq(Calls) /\ matches \in Seq(Match)
          /\ selected \in Seq(File) /\ excerpts \in Seq(Match)
      BY <1>1
    <2>2. /\ truncated \in BOOLEAN /\ hashed \in SUBSET File
          /\ stage \in {"list", "search", "read", "bundled", "failed", "handed"}
          /\ stage # "search" /\ stage # "read"
      BY <1>1
    <2> QED BY <1>1, <1>2, <1>3, <1>4, <2>1, <2>2, Zenon DEF EvidenceTypes
  <1>6. OnlyText
    BY <1>1 DEF OnlyText, MatchedFiles
  <1> QED BY <1>1, <1>5, <1>6 DEF EInv, SearchInv, ReadInv, BundleInv

\* The rest of the run leaves the evidence alone.
LEMMA EvidenceKept == ASSUME EInv, UNCHANGED evars PROVE EInv'
  <1> USE DEF evars, given, collected
  <1>1. EvidenceTypes'
    BY DEF EInv, EvidenceTypes, KeywordCounts
  <1>2. OnlyText'
    BY DEF EInv, OnlyText, MatchedFiles
  <1>3. SearchInv'
    BY DEF EInv, SearchInv, AllSearched, SearchedFor
  <1>4. (stage \in {"read", "bundled"} => WellSelected)'
    BY DEF EInv, WellSelected, MatchedFiles, Outranks, Score
  <1>5. ReadInv'
    BY DEF EInv, ReadInv, ReadFor
  <1>6. BundleInv'
    BY DEF EInv, BundleInv, ReadFor
  <1> QED BY <1>1, <1>2, <1>3, <1>4, <1>5, <1>6 DEF EInv

\* Nothing of a bundle is promised once it is handed over.
LEMMA EvidenceHandedOver == ASSUME EInv, HandOver PROVE EInv'
  <1>1. /\ stage' = "handed" /\ limit' = 0 /\ todo' = <<>> /\ records' = <<>>
        /\ matches' = <<>> /\ selected' = <<>> /\ hashed' = {} /\ excerpts' = <<>>
        /\ truncated' = FALSE
    BY DEF HandOver
  <1>2. EvidenceTypes'
    <2>1. /\ todo' \in Seq(Nat) /\ records' \in Seq(Calls) /\ matches' \in Seq(Match)
          /\ selected' \in Seq(File) /\ excerpts' \in Seq(Match)
      BY <1>1
    <2>2. /\ truncated' \in BOOLEAN /\ hashed' \in SUBSET File /\ limit' \in Nat
          /\ stage' \in {"list", "search", "read", "bundled", "failed", "handed"}
          /\ stage' \notin {"list", "search", "read"}
      BY <1>1
    <2>3. Len(records') <= limit'
      BY <1>1
    <2> QED BY <1>1, <2>1, <2>2, <2>3 DEF EvidenceTypes
  <1>3. OnlyText'
    BY <1>1 DEF OnlyText, MatchedFiles
  <1> QED BY <1>1, <1>2, <1>3 DEF EInv, SearchInv, ReadInv, BundleInv

\* The one listing succeeds and the search begins, or it fails and ends there.
LEMMA FilesListed == ASSUME EInv, stage = "list", ListFiles PROVE EInv'
  <1>1. /\ EvidenceTypes /\ OnlyText
        /\ UNCHANGED <<limit, kind, hits, matches, selected, hashed, excerpts>>
    BY DEF EInv, ListFiles, given
  <1>2. PICK result \in ToolResults(ListAnswers) :
          /\ records' = Append(records, Record("list", 0, result))
          /\ \/ stage' = "failed" /\ UNCHANGED <<truncated, todo>>
             \/ /\ truncated' = result.output.truncated /\ stage' = "search"
                /\ result # Failed /\ todo' = [k \in DOMAIN hits |-> k]
    BY DEF ListFiles, Called
  <1>3. Record("list", 0, result) \in Calls
    BY Results
  <1>4. records' \in Seq(Calls) /\ Len(records') <= limit
    BY <1>1, <1>2, <1>3 DEF EvidenceTypes
  <1>5. result # Failed => result.output.truncated \in BOOLEAN
    <2>1. 0 \in Nat /\ "list" \in {"list", "search", "read"}
      OBVIOUS
    <2>2. result # Failed => \E a \in ListAnswers : result.output = a
      BY <2>1, Results
    <2> QED BY <2>2 DEF ListAnswers
  <1>6. PICK n \in KeywordCounts : hits \in [1..n -> SUBSET File]
    BY <1>1 DEF EvidenceTypes
  <1>7. n \in Nat /\ DOMAIN hits = 1..n
    BY <1>6, EvidenceAssumption DEF KeywordCounts
  <1>8. [k \in DOMAIN hits |-> k] \in Seq(Nat) /\ Elements([k \in DOMAIN hits |-> k]) = DOMAIN hits
    <2> DEFINE t == [k \in 1..n |-> k]
    <2>1. t \in [1..n -> Nat]
      OBVIOUS
    <2>2. t \in Seq(Nat) /\ Len(t) = n
      BY <1>7, <2>1
    <2>3. Elements(t) = 1..n
      BY <2>2 DEF Elements
    <2> QED BY <1>7, <2>2, <2>3
  <1>9. EvidenceTypes'
    <2>1. /\ limit' \in Nat /\ truncated' \in BOOLEAN /\ hashed' \in SUBSET File
          /\ stage' \in {"search", "failed"}
          /\ matches' \in Seq(Match) /\ selected' \in Seq(File) /\ excerpts' \in Seq(Match)
          /\ hashed' = {} /\ excerpts' = <<>> /\ kind' \in [File -> FileKinds]
      BY <1>1, <1>2, <1>5 DEF EvidenceTypes
    <2>2. todo' \in Seq(Nat)
      BY <1>1, <1>2, <1>8 DEF EvidenceTypes
    <2>3. \E m \in KeywordCounts' : hits' \in [1..m -> SUBSET File]
      BY <1>1, <1>6 DEF KeywordCounts
    <2>4. Len(records') <= limit'
      BY <1>1, <1>4
    <2> QED BY <1>4, <2>1, <2>2, <2>3, <2>4 DEF EvidenceTypes
  <1>10. OnlyText'
    BY <1>1 DEF OnlyText, MatchedFiles
  <1>11. SearchInv'
    BY <1>1, <1>2, <1>8 DEF SearchInv
  <1>12. stage' \in {"search", "failed"}
    BY <1>2
  <1> QED BY <1>9, <1>10, <1>11, <1>12 DEF EInv, ReadInv, BundleInv

\* A search that succeeds adds matches in files that can be read, all there
\* are unless it says it was cut short.
LEMMA SearchFinds ==
  ASSUME EInv, stage = "search", Search
  PROVE  LET k == Head(todo)
         IN  /\ k \in DOMAIN hits /\ k \in Nat /\ hits[k] \in SUBSET File
             /\ truncated' \in BOOLEAN /\ (truncated => truncated')
             /\ \E found \in SUBSET File, call \in Calls :
                  /\ matches' \in Seq(Match)
                  /\ Elements(matches')
                       = Elements(matches) \cup {[keyword |-> k, file |-> f] : f \in found}
                  /\ \A f \in found : kind[f] = "text"
                  /\ call.tool = "search" /\ call.arg = k /\ records' = Append(records, call)
                  /\ call.status = "success" /\ ~ truncated' =>
                       \A f \in hits[k] : kind[f] = "text" => f \in found
  <1> DEFINE k == Head(todo)
             there == {f \in hits[k] : Readable(f)}
  <1>1. /\ EvidenceTypes /\ todo # <<>> /\ Elements(todo) \subseteq DOMAIN hits
    BY DEF EInv, Search, SearchInv
  <1>2. /\ kind \in [File -> FileKinds] /\ matches \in Seq(Match) /\ todo \in Seq(Nat)
        /\ truncated \in BOOLEAN
    BY <1>1 DEF EvidenceTypes
  <1>3. k \in DOMAIN hits /\ k \in Nat
    <2>1. Len(todo) \in Nat /\ Len(todo) # 0 /\ k = todo[1]
      BY <1>1, <1>2
    <2>2. k \in Elements(todo)
      BY <2>1 DEF Elements
    <2>3. k \in Nat
      BY <1>1, <1>2
    <2> QED BY <1>1, <2>2, <2>3
  <1>4. hits[k] \in SUBSET File
    <2>1. PICK n \in KeywordCounts : hits \in [1..n -> SUBSET File]
      BY <1>1 DEF EvidenceTypes
    <2> QED BY <1>3, <2>1
  <1>5. PICK result \in ToolResults(SearchAnswers(k)) :
          /\ records' = Append(records, Record("search", k, result))
          /\ \/ result = Failed /\ UNCHANGED <<matches, truncated>>
             \/ /\ result # Failed
                /\ matches' = matches \o InPathOrder(k, result.output.found)
                /\ truncated' = (truncated \/ result.output.truncated)
    BY DEF Search, Called
  <1> DEFINE call == Record("search", k, result)
  <1>6. /\ call \in Calls /\ call.tool = "search" /\ call.arg = k
        /\ result = Failed => call.status # "success"
        /\ result # Failed => \E a \in SearchAnswers(k) : result.output = a
    <2>1. "search" \in {"list", "search", "read"}
      OBVIOUS
    <2> HIDE DEF k
    <2> QED BY <1>3, <2>1, Results
  <1> HIDE DEF call, k, there
  <1>7. ASSUME result = Failed
        PROVE  /\ truncated' = truncated
               /\ matches' \in Seq(Match)
               /\ Elements(matches')
                       = Elements(matches) \cup {[keyword |-> k, file |-> f] : f \in {}}
               /\ call.status # "success"
    BY <1>2, <1>5, <1>6, <1>7
  <1>8. ASSUME result # Failed
        PROVE  /\ truncated' \in BOOLEAN /\ (truncated => truncated')
               /\ matches' \in Seq(Match)
               /\ result.output.found \in SUBSET File
               /\ Elements(matches')
                       = Elements(matches)
                           \cup {[keyword |-> k, file |-> f] : f \in result.output.found}
               /\ \A f \in result.output.found : kind[f] = "text"
               /\ ~ truncated' =>
                     \A f \in hits[k] : kind[f] = "text" => f \in result.output.found
    <2> DEFINE found == result.output.found
    <2>1. /\ found \subseteq there /\ result.output.truncated \in BOOLEAN
          /\ found # there => result.output.truncated
      BY <1>6, <1>8 DEF SearchAnswers, there
    <2>2. \A f \in hits[k] : f \in there <=> kind[f] = "text"
      BY <1>2, <1>4, ReadableIsText DEF there
    <2>3. there \subseteq hits[k]
      BY DEF there
    <2> HIDE DEF found
    <2>4. found \in SUBSET File
      BY <1>4, <2>1, <2>3
    <2>5. /\ InPathOrder(k, found) \in Seq(Match)
          /\ Elements(InPathOrder(k, found)) = {[keyword |-> k, file |-> f] : f \in found}
      BY <1>3, <2>4, PathOrder
    <2>6. /\ matches' = matches \o InPathOrder(k, found)
          /\ truncated' = (truncated \/ result.output.truncated)
      BY <1>5, <1>8 DEF found
    <2>7. matches' \in Seq(Match) /\ Elements(matches') = Elements(matches) \cup Elements(InPathOrder(k, found))
      BY <1>2, <2>5, <2>6, ElementsOf
    <2>8. \A f \in found : kind[f] = "text"
      BY <2>1, <2>2, <2>3
    <2>9. ~ truncated' => \A f \in hits[k] : kind[f] = "text" => f \in found
      BY <1>2, <2>1, <2>2, <2>6
    <2>10. truncated' \in BOOLEAN /\ (truncated => truncated')
      BY <1>2, <2>1, <2>6
    <2> QED BY <2>4, <2>5, <2>7, <2>8, <2>9, <2>10 DEF found
  <1>9. records' = Append(records, call)
    BY <1>5 DEF call
  <1>10. \E found \in SUBSET File :
           /\ matches' \in Seq(Match)
           /\ Elements(matches')
                = Elements(matches) \cup {[keyword |-> k, file |-> f] : f \in found}
           /\ \A f \in found : kind[f] = "text"
           /\ call.status = "success" /\ ~ truncated' =>
                \A f \in hits[k] : kind[f] = "text" => f \in found
    <2>1. CASE result = Failed
      <3>1. {} \in SUBSET File /\ \A f \in {} : kind[f] = "text"
        OBVIOUS
      <3> QED BY <1>7, <2>1, <3>1
    <2>2. CASE result # Failed
      BY <1>8, <2>2
    <2> QED BY <2>1, <2>2
  <1>11. truncated' \in BOOLEAN /\ (truncated => truncated')
    BY <1>2, <1>7, <1>8
  <1> QED BY <1>3, <1>4, <1>6, <1>9, <1>10, <1>11 DEF k

\* A search adds matches of text files only, and misses none without a trace.
LEMMA Searched == ASSUME EInv, stage = "search", Search PROVE EInv'
  <1> DEFINE k == Head(todo)
  <1>1. /\ EvidenceTypes /\ OnlyText /\ SearchInv /\ todo # <<>> /\ Len(records) < limit
        /\ todo' = Tail(todo) /\ stage' = "search"
        /\ UNCHANGED <<limit, kind, hits, selected, hashed, excerpts>>
    BY DEF EInv, Search, CallsLeft, given
  <1>2. /\ k \in DOMAIN hits /\ truncated' \in BOOLEAN /\ (truncated => truncated')
    BY SearchFinds
  <1>3. PICK found \in SUBSET File, call \in Calls :
          /\ matches' \in Seq(Match)
          /\ Elements(matches')
               = Elements(matches) \cup {[keyword |-> k, file |-> f] : f \in found}
          /\ \A f \in found : kind[f] = "text"
          /\ call.tool = "search" /\ call.arg = k /\ records' = Append(records, call)
          /\ call.status = "success" /\ ~ truncated' =>
               \A f \in hits[k] : kind[f] = "text" => f \in found
    BY SearchFinds
  <1>4. /\ todo \in Seq(Nat) /\ records \in Seq(Calls) /\ limit \in Nat
        /\ Elements(todo) \subseteq DOMAIN hits
        /\ truncated \/ \A j \in DOMAIN hits : j \in Elements(todo) \/ SearchedFor(j)
    BY <1>1 DEF EvidenceTypes, SearchInv
  <1>5. /\ Tail(todo) \in Seq(Nat) /\ Elements(todo) \subseteq Elements(Tail(todo)) \cup {k}
        /\ records' \in Seq(Calls) /\ Len(records') <= limit
        /\ Elements(records') = Elements(records) \cup {call}
    <2>1. records' \in Seq(Calls) /\ Len(records') = Len(records) + 1 /\ Len(records) \in Nat
      BY <1>3, <1>4
    <2>2. Elements(records') = Elements(records) \cup {call}
      BY <1>3, <1>4, ElementsOf
    <2>3. Tail(todo) \in Seq(Nat) /\ Elements(todo) \subseteq Elements(Tail(todo)) \cup {k}
      BY <1>1, <1>4, ElementsOf
    <2>4. Len(records') <= limit
      BY <1>1, <1>4, <2>1
    <2> QED BY <2>1, <2>2, <2>3, <2>4
  <1>6. Elements(Tail(todo)) \subseteq Elements(todo)
    <2>1. Len(todo) \in Nat /\ Len(Tail(todo)) = Len(todo) - 1
      BY <1>1, <1>4
    <2>2. \A i \in 1..Len(Tail(todo)) : i + 1 \in 1..Len(todo) /\ Tail(todo)[i] = todo[i + 1]
      BY <1>1, <1>4, <2>1
    <2> QED BY <2>2 DEF Elements
  <1> HIDE DEF k
  <1>7. EvidenceTypes'
    <2>1. \E n \in KeywordCounts' : hits' \in [1..n -> SUBSET File]
      BY <1>1 DEF EvidenceTypes, KeywordCounts
    <2>2. /\ limit' \in Nat /\ hashed' \in SUBSET File /\ selected' \in Seq(File)
          /\ excerpts' \in Seq(Match) /\ hashed' = {} /\ excerpts' = <<>>
          /\ kind' \in [File -> FileKinds]
      BY <1>1 DEF EvidenceTypes
    <2>3. todo' \in Seq(Nat) /\ Len(records') <= limit'
      BY <1>1, <1>5
    <2> QED BY <1>1, <1>2, <1>3, <1>5, <2>1, <2>2, <2>3 DEF EvidenceTypes
  <1>8. OnlyText'
    <2>1. ASSUME NEW f \in MatchedFiles' PROVE kind[f] = "text"
      <3>1. PICK x \in Elements(matches') : f = x.file
        BY <2>1 DEF MatchedFiles, Elements
      <3>2. CASE x \in Elements(matches)
        <4>1. f \in MatchedFiles
          BY <3>1, <3>2 DEF MatchedFiles, Elements
        <4> QED BY <1>1, <4>1 DEF OnlyText
      <3>3. CASE x \notin Elements(matches)
        <4>1. f \in found
          BY <1>3, <3>1, <3>3
        <4> QED BY <1>3, <4>1
      <3> QED BY <3>2, <3>3
    <2> QED BY <1>1, <2>1 DEF OnlyText
  <1>9. ASSUME ~ truncated', NEW j \in DOMAIN hits
        PROVE  j \in Elements(todo') \/ SearchedFor(j)'
    <2>1. Elements(matches) \subseteq Elements(matches')
      BY <1>3
    <2>2. CASE SearchedFor(j)
      <3>1. PICK r \in Elements(records) :
              /\ r.tool = "search" /\ r.arg = j
              /\ r.status = "success" =>
                   \A f \in hits[j] : kind[f] = "text" => [keyword |-> j, file |-> f] \in Elements(matches)
        BY <2>2 DEF SearchedFor
      <3>2. r \in Elements(records')
        BY <1>5
      <3> QED BY <1>1, <2>1, <3>1, <3>2 DEF SearchedFor
    <2>3. CASE j = k
      <3>1. call \in Elements(records')
        BY <1>5
      <3>2. call.status = "success" =>
              \A f \in hits[j] : kind[f] = "text" => [keyword |-> j, file |-> f] \in Elements(matches')
        BY <1>3, <1>9, <2>3
      <3> QED BY <1>1, <1>3, <2>3, <3>1, <3>2 DEF SearchedFor
    <2>4. CASE j # k /\ ~ SearchedFor(j)
      <3>1. j \in Elements(todo)
        BY <1>2, <1>4, <1>9, <2>4
      <3> QED BY <1>1, <1>5, <2>4, <3>1
    <2> QED BY <2>2, <2>3, <2>4
  <1>10. SearchInv'
    BY <1>1, <1>4, <1>6, <1>9 DEF SearchInv
  <1> QED BY <1>1, <1>7, <1>8, <1>10 DEF EInv, ReadInv, BundleInv

\* Files are numbers, and sequences of them sequences of numbers.
LEMMA FilesAreNumbers == File \subseteq Nat /\ \A s \in Seq(File) : s \in Seq(Nat)
  <1>1. File \subseteq Nat
    BY EvidenceAssumption DEF File
  <1>2. ASSUME NEW s \in Seq(File) PROVE s \in Seq(Nat)
    <2>1. s \in [1..Len(s) -> File] /\ Len(s) \in Nat
      OBVIOUS
    <2>2. s \in [1..Len(s) -> Nat]
      BY <1>1, <2>1
    <2>3. \A n \in Nat : \A h \in [1..n -> Nat] : h \in Seq(Nat)
      OBVIOUS
    <2> QED BY <2>1, <2>2, <2>3
  <1> QED BY <1>1, <1>2

\* The files selected are the best of those matched.
LEMMA FilesSelected == ASSUME EInv, stage = "search", SelectFiles PROVE EInv'
  <1>1. /\ EvidenceTypes /\ OnlyText /\ SearchInv
        /\ stage' = "read" /\ selected' = Ranked /\ todo' = Ranked
        /\ truncated' = (truncated \/ todo # <<>>)
        /\ UNCHANGED <<limit, kind, hits, records, matches, hashed, excerpts>>
    BY DEF EInv, SelectFiles, given
  <1>2. matches \in Seq(Match) /\ truncated \in BOOLEAN /\ hashed = {} /\ excerpts = <<>>
    BY <1>1 DEF EvidenceTypes
  <1>3. /\ Ranked \in Seq(File) /\ Len(Ranked) <= MaxSelectedFiles
        /\ \A f \in MatchedFiles \ Elements(Ranked) : \A g \in Elements(Ranked) : Outranks(g, f)
    BY <1>2, BestFirst
  <1>4. EvidenceTypes'
    <2>1. \E n \in KeywordCounts' : hits' \in [1..n -> SUBSET File]
      BY <1>1 DEF EvidenceTypes, KeywordCounts
    <2>2. /\ limit' \in Nat /\ hashed' \in SUBSET File /\ records' \in Seq(Calls)
          /\ excerpts' \in Seq(Match) /\ matches' \in Seq(Match)
          /\ kind' \in [File -> FileKinds] /\ Len(records') <= limit'
      BY <1>1 DEF EvidenceTypes
    <2>3. truncated' \in BOOLEAN
      BY <1>1, <1>2
    <2>4. todo' \in Seq(Nat) /\ todo' \in Seq(File) /\ selected' \in Seq(File)
      BY <1>1, <1>3, FilesAreNumbers
    <2> QED BY <1>1, <2>1, <2>2, <2>3, <2>4 DEF EvidenceTypes
  <1>5. OnlyText'
    BY <1>1 DEF OnlyText, MatchedFiles
  <1>6. SearchInv'
    <2>1. ASSUME ~ truncated', NEW k \in DOMAIN hits PROVE SearchedFor(k)
      <3>1. todo = <<>> /\ ~ truncated
        BY <1>1, <2>1
      <3>2. k \notin Elements(todo)
        BY <3>1, ElementsOf
      <3> QED BY <1>1, <3>1, <3>2 DEF SearchInv
    <2>2. \A k : SearchedFor(k)' <=> SearchedFor(k)
      BY <1>1 DEF SearchedFor
    <2> QED BY <1>1, <2>1, <2>2 DEF SearchInv, AllSearched
  <1>7. WellSelected'
    <2>1. MatchedFiles' = MatchedFiles
      BY <1>1 DEF MatchedFiles
    <2>2. \A f, g : Outranks(g, f)' <=> Outranks(g, f)
      BY <1>1 DEF Outranks, Score
    <2> QED BY <1>1, <1>3, <2>1, <2>2 DEF WellSelected
  <1>8. ReadInv'
    <2>1. Elements(excerpts) = {}
      BY <1>2, ElementsOf
    <2> QED BY <1>1, <1>2, <2>1 DEF ReadInv
  <1>9. BundleInv'
    BY <1>1 DEF BundleInv
  <1> QED BY <1>4, <1>5, <1>6, <1>7, <1>8, <1>9 DEF EInv

\* A read file is hashed and quoted as it was matched, or accounted for by a failure.
LEMMA FileRead == ASSUME EInv, stage = "read", ReadFile PROVE EInv'
  <1> DEFINE f == Head(todo)
  <1>1. /\ EvidenceTypes /\ OnlyText /\ SearchInv /\ WellSelected /\ ReadInv
        /\ todo # <<>> /\ Len(records) < limit /\ todo' = Tail(todo) /\ stage' = "read"
        /\ UNCHANGED <<limit, kind, hits, matches, selected>>
    BY DEF EInv, ReadFile, CallsLeft, given
  <1>2. PICK result \in ToolResults(ReadAnswers(f)) :
          /\ records' = Append(records, Record("read", f, result))
          /\ \/ result = Failed /\ UNCHANGED <<hashed, excerpts, truncated>>
             \/ /\ result # Failed /\ hashed' = hashed \cup {f}
                /\ excerpts' = excerpts \o MatchesIn(f)
                /\ truncated' = (truncated \/ result.output.truncated)
    BY DEF ReadFile, Called
  <1>3. /\ todo \in Seq(File) /\ records \in Seq(Calls) /\ limit \in Nat /\ truncated \in BOOLEAN
        /\ matches \in Seq(Match) /\ excerpts \in Seq(Match) /\ hashed \in SUBSET File
        /\ kind \in [File -> FileKinds] /\ File \subseteq Nat
    <2>1. stage = "read"
      OBVIOUS
    <2> QED BY <1>1, <2>1, FilesAreNumbers DEF EvidenceTypes
  <1>4. /\ f \in File /\ Tail(todo) \in Seq(File)
        /\ Elements(todo) \subseteq Elements(Tail(todo)) \cup {f}
    BY <1>1, <1>3, ElementsOf
  <1> DEFINE call == Record("read", f, result)
  <1>5. /\ call \in Calls /\ call.tool = "read" /\ call.arg = f
        /\ result # Failed => \E a \in ReadAnswers(f) : result.output = a
    <2>1. "read" \in {"list", "search", "read"} /\ f \in Nat
      BY <1>3, <1>4
    <2> HIDE DEF f
    <2> QED BY <2>1, Results
  <1>6. records' = Append(records, call)
    BY <1>2
  <1> HIDE DEF f, call
  <1>7. /\ records' \in Seq(Calls) /\ Len(records') <= limit
        /\ Elements(records') = Elements(records) \cup {call}
    <2>1. records' \in Seq(Calls) /\ Len(records') = Len(records) + 1 /\ Len(records) \in Nat
      BY <1>3, <1>5, <1>6
    <2>2. Elements(records') = Elements(records) \cup {call}
      BY <1>3, <1>5, <1>6, ElementsOf
    <2>3. Len(records') <= limit
      BY <1>1, <1>3, <2>1
    <2> QED BY <2>1, <2>2, <2>3
  <1>8. /\ truncated' \in BOOLEAN /\ (truncated => truncated')
        /\ hashed' \in SUBSET File /\ \A g \in hashed' : kind[g] = "text"
        /\ excerpts' \in Seq(Match)
        /\ Elements(excerpts') = {x \in Elements(matches) : x.file \in hashed'}
    <2>1. /\ Elements(excerpts) = {x \in Elements(matches) : x.file \in hashed}
          /\ \A g \in hashed : kind[g] = "text"
      BY <1>1 DEF ReadInv, EInv, OnlyText
    <2>2. CASE result = Failed
      <3>1. UNCHANGED <<hashed, excerpts, truncated>>
        BY <1>2, <2>2
      <3> QED BY <1>3, <2>1, <3>1
    <2>3. CASE result # Failed
      <3>1. /\ hashed' = hashed \cup {f} /\ excerpts' = excerpts \o MatchesIn(f)
            /\ truncated' = (truncated \/ result.output.truncated)
        BY <1>2, <2>3
      <3>2. result.output.truncated \in BOOLEAN /\ Readable(f)
        BY <1>5, <2>3 DEF ReadAnswers
      <3>3. kind[f] = "text"
        BY <1>3, <1>4, <3>2, ReadableIsText
      <3>4. /\ MatchesIn(f) \in Seq(Match)
            /\ \A x : x \in Elements(MatchesIn(f)) <=> x \in Elements(matches) /\ x.file = f
        BY <1>3, MatchesInFile
      <3>5. /\ excerpts' \in Seq(Match)
            /\ Elements(excerpts') = Elements(excerpts) \cup Elements(MatchesIn(f))
        BY <1>3, <3>1, <3>4, ElementsOf
      <3>6. Elements(excerpts') = {x \in Elements(matches) : x.file \in hashed'}
        BY <2>1, <3>1, <3>4, <3>5
      <3>7. /\ truncated' \in BOOLEAN /\ (truncated => truncated')
        BY <1>3, <3>1, <3>2
      <3>8. hashed' \in SUBSET File /\ \A g \in hashed' : kind[g] = "text"
        BY <1>3, <1>4, <2>1, <3>1, <3>3
      <3> QED BY <3>5, <3>6, <3>7, <3>8
    <2> QED BY <2>2, <2>3
  <1>9. EvidenceTypes'
    <2>1. \E n \in KeywordCounts' : hits' \in [1..n -> SUBSET File]
      BY <1>1 DEF EvidenceTypes, KeywordCounts
    <2>2. /\ limit' \in Nat /\ selected' \in Seq(File) /\ matches' \in Seq(Match)
          /\ kind' \in [File -> FileKinds]
      BY <1>1, <1>3 DEF EvidenceTypes
    <2>3. todo' \in Seq(Nat) /\ todo' \in Seq(File)
      BY <1>1, <1>4, FilesAreNumbers
    <2>4. Len(records') <= limit'
      BY <1>1, <1>7
    <2> QED BY <1>1, <1>7, <1>8, <2>1, <2>2, <2>3, <2>4 DEF EvidenceTypes
  <1>10. OnlyText'
    <2>1. MatchedFiles' = MatchedFiles
      BY <1>1 DEF MatchedFiles
    <2> QED BY <1>1, <1>8, <2>1 DEF OnlyText
  <1>11. SearchInv'
    <2>1. ASSUME NEW k, SearchedFor(k) PROVE SearchedFor(k)'
      BY <1>1, <1>7, <2>1 DEF SearchedFor
    <2> QED BY <1>1, <1>8, <2>1 DEF SearchInv, AllSearched
  <1>12. WellSelected'
    <2>1. MatchedFiles' = MatchedFiles
      BY <1>1 DEF MatchedFiles
    <2>2. \A h, g : Outranks(g, h)' <=> Outranks(g, h)
      BY <1>1 DEF Outranks, Score
    <2> QED BY <1>1, <2>1, <2>2 DEF WellSelected
  <1>13. ReadInv'
    <2>1. ASSUME NEW g \in Elements(selected) PROVE g \in Elements(todo') \/ ReadFor(g)'
      <3>1. CASE g = f
        BY <1>5, <1>7, <3>1 DEF ReadFor
      <3>2. CASE g # f /\ g \in Elements(todo)
        BY <1>1, <1>4, <3>2
      <3>3. CASE g \notin Elements(todo)
        <4>1. ReadFor(g)
          BY <1>1, <2>1, <3>3 DEF ReadInv, EInv
        <4> QED BY <1>7, <4>1 DEF ReadFor
      <3> QED BY <3>1, <3>2, <3>3
    <2> QED BY <1>1, <1>8, <2>1 DEF ReadInv
  <1>14. BundleInv'
    BY <1>1 DEF BundleInv
  <1> QED BY <1>9, <1>10, <1>11, <1>12, <1>13, <1>14 DEF EInv

\* The bundle keeps to its limits and says what they cost.
LEMMA Bundled == ASSUME EInv, stage = "read", Bundle PROVE EInv'
  <1> DEFINE fits == Chars(excerpts) <= MaxEvidenceChars
             kept == IF fits THEN excerpts ELSE Trimmed(excerpts)
             m == IF Len(kept) < MaxSearchMatches THEN Len(kept) ELSE MaxSearchMatches
  <1>1. /\ EvidenceTypes /\ OnlyText /\ SearchInv /\ WellSelected /\ ReadInv
        /\ truncated' = (truncated \/ todo # <<>> \/ ~ fits) /\ stage' = "bundled"
        /\ excerpts' = SubSeq(kept, 1, m)
        /\ UNCHANGED <<limit, kind, hits, todo, records, matches, selected, hashed>>
    BY DEF EInv, Bundle, given
  <1>2. /\ excerpts \in Seq(Match) /\ truncated \in BOOLEAN /\ MaxSearchMatches \in Nat
    BY <1>1, EvidenceAssumption DEF EvidenceTypes
  <1>3. /\ kept \in Seq(Match) /\ Elements(kept) \subseteq Elements(excerpts)
        /\ Chars(kept) <= MaxEvidenceChars
    <2>1. CASE fits
      BY <1>2, <2>1
    <2>2. CASE ~ fits
      BY <1>2, <2>2, TrimmedFits
    <2> QED BY <2>1, <2>2
  <1>4. fits => kept = excerpts
    OBVIOUS
  <1> HIDE DEF kept
  <1>5. /\ Len(kept) \in Nat /\ m \in 0..Len(kept) /\ m <= MaxSearchMatches
        /\ m = Len(kept) \/ m = MaxSearchMatches
    BY <1>2, <1>3
  <1> HIDE DEF m
  <1>6. /\ excerpts' \in Seq(Match) /\ Chars(excerpts') <= Chars(kept)
    BY <1>1, <1>3, <1>5, CharsFacts
  <1>7. Len(excerpts') = m /\ \A i \in 1..m : excerpts'[i] = kept[i] /\ i \in 1..Len(kept)
    BY <1>1, <1>3, <1>5
  <1>8. /\ Elements(excerpts') \subseteq Elements(kept)
        /\ m = Len(kept) => Elements(excerpts') = Elements(kept)
    BY <1>7 DEF Elements
  <1>9. Chars(excerpts') <= MaxEvidenceChars
    <2>1. /\ Chars(excerpts') \in Nat /\ Chars(kept) \in Nat /\ MaxEvidenceChars \in Nat
      BY <1>3, <1>6, CharsFacts, EvidenceAssumption
    <2> QED BY <1>3, <1>6, <2>1
  <1>10. Elements(excerpts) = {x \in Elements(matches) : x.file \in hashed}
    BY <1>1 DEF ReadInv
  <1>11. truncated' \in BOOLEAN
    BY <1>1, <1>2
  <1>12. EvidenceTypes'
    <2>1. \E n \in KeywordCounts' : hits' \in [1..n -> SUBSET File]
      BY <1>1 DEF EvidenceTypes, KeywordCounts
    <2>2. /\ limit' \in Nat /\ selected' \in Seq(File) /\ matches' \in Seq(Match)
          /\ kind' \in [File -> FileKinds] /\ hashed' \in SUBSET File /\ todo' \in Seq(Nat)
          /\ records' \in Seq(Calls) /\ Len(records') <= limit'
      BY <1>1 DEF EvidenceTypes
    <2> QED BY <1>1, <1>6, <1>11, <2>1, <2>2 DEF EvidenceTypes
  <1>13. OnlyText'
    BY <1>1 DEF OnlyText, MatchedFiles
  <1>14. SearchInv'
    <2>1. \A k : SearchedFor(k)' <=> SearchedFor(k)
      BY <1>1 DEF SearchedFor
    <2> QED BY <1>1, <2>1 DEF SearchInv, AllSearched
  <1>15. WellSelected'
    <2>1. MatchedFiles' = MatchedFiles
      BY <1>1 DEF MatchedFiles
    <2>2. \A f, g : Outranks(g, f)' <=> Outranks(g, f)
      BY <1>1 DEF Outranks, Score
    <2> QED BY <1>1, <2>1, <2>2 DEF WellSelected
  <1>16. ReadInv'
    BY <1>1 DEF ReadInv
  <1>17. BundleInv'
    <2>1. \A e \in Elements(excerpts') : e \in Elements(matches') /\ e.file \in hashed'
      BY <1>1, <1>3, <1>8, <1>10
    <2>2. ASSUME ~ truncated' PROVE \A f \in Elements(selected') : ReadFor(f)'
      <3>1. todo = <<>> /\ Elements(todo) = {}
        BY <1>1, <2>2, ElementsOf
      <3>2. \A f \in Elements(selected) : ReadFor(f)
        BY <1>1, <3>1 DEF ReadInv
      <3> QED BY <1>1, <3>2 DEF ReadFor
    <2>3. ASSUME ~ truncated', Len(excerpts') # MaxSearchMatches
          PROVE  \A x \in Elements(matches') : x.file \in hashed' => x \in Elements(excerpts')
      <3>1. m = Len(kept) /\ kept = excerpts
        BY <1>1, <1>4, <1>5, <1>7, <2>3
      <3> QED BY <1>1, <1>8, <1>10, <3>1
    <2>4. Len(excerpts') <= MaxSearchMatches
      BY <1>5, <1>7
    <2> QED BY <1>9, <2>1, <2>2, <2>3, <2>4 DEF BundleInv
  <1> QED BY <1>1, <1>12, <1>13, <1>14, <1>15, <1>16, <1>17 DEF EInv

\* A bundle keeps every limit, quotes nothing that was not found in a text
\* file that was read, passes over no better file, and is complete as far as
\* its successful searches and reads go unless it says that it is cut short
\* (EvidenceCollector.collect).
THEOREM EvidenceIsSound == Spec => []EvidenceSound
  <1>1. Init => EInv
    BY EvidenceStart
  <1>2. EInv /\ [Next]_vars => EInv'
    <2> SUFFICES ASSUME EInv, [Next]_vars PROVE EInv'
      OBVIOUS
    <2>1. ASSUME Collect PROVE EInv'
      <3>1. CASE ListFiles
        BY <3>1, FilesListed DEF ListFiles
      <3>2. CASE Search
        BY <3>2, Searched DEF Search
      <3>3. CASE SelectFiles
        BY <3>3, FilesSelected DEF SelectFiles
      <3>4. CASE ReadFile
        BY <3>4, FileRead DEF ReadFile
      <3>5. CASE Bundle
        BY <3>5, Bundled DEF Bundle
      <3> QED BY <2>1, <3>1, <3>2, <3>3, <3>4, <3>5 DEF Collect
    <2>2. Next => Collect \/ HandOver \/ UNCHANGED evars
      BY DEF Next, SetUp, CollectEvidence, EvidenceFails, StartExecutor, DeadlinePasses,
             PromptRefused, BuildPrompt, BudgetRefuses, Answered, Unusable, CallFails,
             BackoffEnds, RecordTrace, TraceFails, Store, StoreFails, Drafted
    <2>3. UNCHANGED vars => UNCHANGED evars
      BY DEF vars
    <2> QED BY <2>1, <2>2, <2>3, EvidenceKept, EvidenceHandedOver
  <1>3. EInv => EvidenceSound
    <2> SUFFICES ASSUME EInv PROVE EvidenceSound
      OBVIOUS
    <2>1. Len(records) <= limit
      BY DEF EInv, EvidenceTypes
    <2>2. ASSUME stage = "bundled"
          PROVE  /\ WellSelected /\ OnlyText /\ (truncated \/ AllSearched)
                 /\ Chars(excerpts) <= MaxEvidenceChars /\ Len(excerpts) <= MaxSearchMatches
                 /\ \A e \in Elements(excerpts) : e \in Elements(matches) /\ e.file \in hashed
                 /\ \/ truncated
                    \/ /\ \A f \in Elements(selected) : ReadFor(f)
                       /\ \/ Len(excerpts) = MaxSearchMatches
                          \/ \A x \in Elements(matches) :
                               x.file \in hashed => x \in Elements(excerpts)
      BY <2>2 DEF EInv, SearchInv, BundleInv
    <2> QED BY <2>1, <2>2 DEF EvidenceSound, WellSelected, OnlyText, AllSearched, SearchedFor,
                               ReadFor
  <1> QED BY <1>1, <1>2, <1>3, PTL DEF Spec
===============================================================================
