---------------------------- MODULE LegacyWorkflow ----------------------------
(***************************************************************************)
(* A legacy run, runner.py:_run_owned: set up, collect evidence, take the  *)
(* executor (executor/engine.py) through analyze, generate and review,     *)
(* write the artifacts and the exit code.  A worker (workers/*.py) builds  *)
(* its prompt, calls the model under the run's budget with one retry       *)
(* (fallback/), and answers with what the model said or with a degraded    *)
(* baseline.                                                               *)
(*                                                                         *)
(* Abstracted: what outputs say (a text is the model's or a baseline's,    *)
(* and sanitising makes it another; a hash is the content it is of),       *)
(* prompts, latencies and token counts, the error file of a failed run.  A *)
(* run may be late from any prompt or call on; it is looked at only when a *)
(* call is reserved.                                                       *)
(***************************************************************************)
EXTENDS EvidenceCollection, TokenBudget

CONSTANTS MaxCalls, MaxRetries, Messages, NoOutput,
  ModelTexts, BaselineTexts,  \* what a parsed answer says, and a degraded one
  Sanitized                   \* what sanitising makes of a text

ASSUME WorkflowAssumption == MaxCalls \in Nat /\ MaxRetries \in Nat

\* A message has any number of sections of any length.
ASSUME MessagesAssumption ==
  \A m \in Messages :
    /\ m.base \in Nat /\ m.slack \in Nat
    /\ m.sections \in Seq([name : STRING, chars : Nat])

Texts == ModelTexts \cup BaselineTexts

\* Secrets are redacted within a line, and line breaks removed afterwards: what
\* was sanitised before need not stay as it is.
ASSUME TextsAssumption ==
  /\ ModelTexts \cap BaselineTexts = {}
  /\ Sanitized \in [Texts -> Texts]

VARIABLES
  phase,     \* setup, evidence, prompt, call, backoff, trace, store or done
  state,     \* the executor's workflow state
  prompt,    \* the message of the step, as the budget left it
  calls, retries, late,  \* reserved calls; retries of this step; deadline passed
  draft,     \* the worker's answer and the trace it is about to write
  outputs,   \* step -> its answer
  traces,    \* step -> what its trace file says
  manifest,  \* the stored manifest
  exit       \* exit code, 9 before the end

workers == <<prompt, calls, retries, late, draft, outputs, traces>>
vars == <<evars, phase, state, workers, manifest, exit>>

Steps == <<"analyze", "generate", "review">>
StateOf == [analyze |-> "analyzing", generate |-> "generating", review |-> "reviewing"]
NextState == [analyze |-> "generating", generate |-> "reviewing", review |-> "completed"]
Step == CHOOSE s \in DOMAIN StateOf : StateOf[s] = state

\* LEGAL_TRANSITIONS; WorkflowEngine.transition raises on any other.
Legal ==
  [created |-> {"analyzing"}, analyzing |-> {"generating", "failed"},
   generating |-> {"reviewing", "failed"}, reviewing |-> {"completed", "failed"},
   completed |-> {}, failed |-> {}]
Advance(to) == to \in Legal[state] /\ state' = to

AnalysisHash(a) == <<"analysis", a.text, a.review, a.degraded>>
GenerationHash(g) == <<"generation", g.text, g.review, g.degraded, g.analysisHash>>
ReviewHash(r) ==
  <<"review", r.text, r.decision, r.human, r.degraded, r.analysisHash, r.generationHash>>

\* The outputs' constructors fill in the hash of what they are given.
Analysis(text, rev, deg) ==
  [text |-> text, review |-> rev, degraded |-> deg,
   hash |-> <<"analysis", text, rev, deg>>]
Generation(text, rev, deg, ah) ==
  [text |-> text, review |-> rev, degraded |-> deg, analysisHash |-> ah,
   hash |-> <<"generation", text, rev, deg, ah>>]
Review(text, dec, hum, deg, ah, gh) ==
  [text |-> text, decision |-> dec, human |-> hum, degraded |-> deg,
   analysisHash |-> ah, generationHash |-> gh,
   hash |-> <<"review", text, dec, hum, deg, ah, gh>>]

\* from_json of a stored output sanitises every text of it again, leaves the
\* flags and has the constructor hash the result.
ReparsedAnalysis(a) == Analysis(Sanitized[a.text], a.review, a.degraded)
ReparsedGeneration(g) == Generation(Sanitized[g.text], g.review, g.degraded, g.analysisHash)

\* The generator needs an analysis that parses: an output, or nothing.
GeneratorReads == outputs["analyze"] # NoOutput

\* The reviewer parses the analysis again, and refuses a generation that is not
\* of what it then reads.
ReviewerReads ==
  /\ outputs["analyze"] # NoOutput /\ outputs["generate"] # NoOutput
  /\ outputs["generate"].analysisHash = ReparsedAnalysis(outputs["analyze"]).hash

InputsParse ==
  /\ state = "generating" => GeneratorReads
  /\ state = "reviewing" => ReviewerReads

\* The constructors refuse a degraded output that asks for nobody.
Flags == {f \in [asks : BOOLEAN, degraded : BOOLEAN] : f.degraded => f.asks}

\* What from_json makes of an answer it accepts.
ParsedAnalyses == {Analysis(t, f.asks, f.degraded) : t \in ModelTexts, f \in Flags}
ParsedGenerations(ah) ==
  {Generation(t, f.asks, f.degraded, ah) : t \in ModelTexts, f \in Flags}
ParsedReviews(ah, gh) ==
  {Review(t, d, f.asks, f.degraded, ah, gh) :
     t \in ModelTexts, d \in {"PASS", "REJECT"}, f \in Flags}

\* degraded_output, the baselines; they quote the reason and the inputs.
DegradedAnalyses == {Analysis(t, TRUE, TRUE) : t \in BaselineTexts}
DegradedGenerations(ah) == {Generation(t, TRUE, TRUE, ah) : t \in BaselineTexts}
DegradedReviews(ah, gh) == {Review(t, "REJECT", TRUE, TRUE, ah, gh) : t \in BaselineTexts}

\* The answers there are, with the hashes of whatever they rest on, and what
\* a trace and a manifest may say; NoOutput stands for their absence.
Analyses == {Analysis(t, f.asks, f.degraded) : t \in Texts, f \in Flags}
Generations ==
  {Generation(t, f.asks, f.degraded, AnalysisHash(a)) :
     t \in Texts, f \in Flags, a \in Analyses}
Reviews ==
  {Review(t, d, f.asks, f.degraded, AnalysisHash(a), GenerationHash(g)) :
     t \in Texts, d \in {"PASS", "REJECT"}, f \in Flags, a \in Analyses, g \in Generations}
Traces ==
  [status : {"success", "degraded"}, retry_count : 0..MaxRetries,
   fallback_level : {"none", "retry", "json_repair", "rule_baseline"}]
Manifests ==
  [status : {"completed"}, review_decision : {"PASS", "REJECT"},
   analysis_hash : {a.hash : a \in Analyses}, generation_hash : {g.hash : g \in Generations},
   review_hash : {r.hash : r \in Reviews}, degraded : BOOLEAN, requires_review : BOOLEAN]

ASSUME NoOutputAssumption ==
  NoOutput \notin Analyses \cup Generations \cup Reviews \cup Traces \cup Manifests

AnalyzeOutputs(usable) == IF usable THEN ParsedAnalyses ELSE DegradedAnalyses

\* Mutant of GenerateOutputs: the rewrapped output keeps the hash it had.
MutGenerateOutputs(usable) ==
  LET a == ReparsedAnalysis(outputs["analyze"])
      said == IF usable THEN ParsedGenerations(a.hash) ELSE DegradedGenerations(a.hash)
  IN  {IF a.degraded /\ ~ g.degraded
       THEN [g EXCEPT !.review = TRUE, !.degraded = TRUE] ELSE g : g \in said}

\* The generator names the analysis it reads.  An output built on a degraded
\* analysis is wrapped again as degraded, and so hashed again.
GenerateOutputs(usable) ==
  LET a == ReparsedAnalysis(outputs["analyze"])
      said == IF usable THEN ParsedGenerations(a.hash) ELSE DegradedGenerations(a.hash)
  IN  {IF a.degraded /\ ~ g.degraded
       THEN Generation(g.text, TRUE, TRUE, a.hash) ELSE g : g \in said}

\* So does the reviewer, of both its inputs.
ReviewOutputs(usable) ==
  LET a == ReparsedAnalysis(outputs["analyze"])
      g == ReparsedGeneration(outputs["generate"])
      said == IF usable THEN ParsedReviews(a.hash, g.hash) ELSE DegradedReviews(a.hash, g.hash)
  IN  {IF (a.degraded \/ g.degraded) /\ ~ r.degraded
       THEN Review(r.text, r.decision, TRUE, TRUE, a.hash, g.hash) ELSE r : r \in said}

Answers(usable) ==
  CASE state = "analyzing" -> AnalyzeOutputs(usable)
    [] state = "generating" -> GenerateOutputs(usable)
    [] state = "reviewing" -> ReviewOutputs(usable)

\* The metadata and outputs of each worker's result, as the runner finds them
\* in the step's.
AnalyzeMeta ==
  LET o == outputs["analyze"]
  IN  [degraded |-> o.degraded, requires_review |-> o.review, analysis_hash |-> o.hash]
GenerateMeta ==
  LET o == outputs["generate"]
  IN  [degraded |-> o.degraded, requires_review |-> o.review,
       analysis_hash |-> o.analysisHash, generation_hash |-> o.hash]
ReviewMeta ==
  LET o == outputs["review"]
  IN  [degraded |-> o.degraded, requires_human_review |-> o.human, decision |-> o.decision,
       analysis_hash |-> o.analysisHash, generation_hash |-> o.generationHash,
       review_hash |-> o.hash]
Meta(s) ==
  CASE s = "analyze" -> AnalyzeMeta [] s = "generate" -> GenerateMeta [] s = "review" -> ReviewMeta

\* Mutant of Extracted: the results are walked from the first.
MutExtracted(key) ==
  LET i == CHOOSE j \in 1..3 :
             /\ key \in DOMAIN Meta(Steps[j])
             /\ \A k \in 1..(j - 1) : key \notin DOMAIN Meta(Steps[k])
  IN  Meta(Steps[i])[key]

\* _extract_output, _extract_metadata: from the last result that has the key.
Extracted(key) ==
  LET i == CHOOSE j \in 1..3 :
             /\ key \in DOMAIN Meta(Steps[j])
             /\ \A k \in (j + 1)..3 : key \notin DOMAIN Meta(Steps[k])
  IN  Meta(Steps[i])[key]

End(code) == phase' = "done" /\ exit' = code
-------------------------------------------------------------------------------
Init ==
  /\ EvidenceInit
  /\ phase = "setup" /\ state = "created"
  /\ prompt = NoOutput /\ draft = NoOutput
  /\ calls = 0 /\ retries = 0 /\ late = FALSE
  /\ outputs = [s \in DOMAIN StateOf |-> NoOutput]
  /\ traces = [s \in DOMAIN StateOf |-> NoOutput] /\ manifest = NoOutput /\ exit = 9

\* The arguments, the provider's configuration, the repository, the tools:
\* each in turn may end the run with exit 2.
SetUp ==
  /\ phase = "setup"
  /\ \/ phase' = "evidence" /\ UNCHANGED exit
     \/ End(2)
  /\ UNCHANGED <<evars, state, workers, manifest>>

CollectEvidence ==
  /\ phase = "evidence" /\ Collect
  /\ UNCHANGED <<phase, state, workers, manifest, exit>>

EvidenceFails ==
  /\ phase = "evidence" /\ stage = "failed"
  /\ End(3)
  /\ UNCHANGED <<evars, state, workers, manifest>>

\* The traces directory is made, and the executor's start step entered.
StartExecutor ==
  /\ phase = "evidence" /\ stage = "bundled"
  /\ HandOver
  /\ \/ phase' = "prompt" /\ Advance("analyzing") /\ UNCHANGED exit
     \/ End(3) /\ UNCHANGED state
  /\ UNCHANGED <<workers, manifest>>

DeadlinePasses ==
  /\ phase \in {"prompt", "call", "backoff"} /\ ~ late
  /\ late' = TRUE
  /\ UNCHANGED <<evars, phase, state, prompt, calls, retries, draft, outputs, traces,
                 manifest, exit>>

\* The context builder raises: no files, or something that looks like a
\* secret; or the worker cannot read its inputs.
PromptRefused ==
  /\ phase = "prompt"
  /\ Advance("failed") /\ End(3)
  /\ UNCHANGED <<evars, workers, manifest>>

\* Any message may come up; the token budget trims or refuses it.
BuildPrompt ==
  /\ phase = "prompt" /\ discovered /\ InputsParse
  /\ \E m \in Messages :
       /\ prompt' = Apply(m)
       /\ IF prompt'.error THEN Advance("failed") /\ End(3)
          ELSE phase' = "call" /\ UNCHANGED <<state, exit>>
  /\ UNCHANGED <<evars, calls, retries, late, draft, outputs, traces, manifest>>

\* Mutant of MayCall: one call more than the policy has.
MutMayCall == ~ late /\ calls <= MaxCalls

\* ExecutionBudget.reserve_llm_call
MayCall == ~ late /\ calls < MaxCalls

\* A trace says degraded of the output it is written for, and how the
\* fallback manager came by it.
TraceOf(output, level) ==
  [status |-> IF output.degraded THEN "degraded" ELSE "success",
   fallback_level |-> level, retry_count |-> retries]

Drafted(usable, level) ==
  /\ \E o \in Answers(usable) : draft' = [output |-> o, trace |-> TraceOf(o, level)]
  /\ phase' = "trace"
  /\ UNCHANGED <<evars, state, prompt, retries, late, outputs, traces, manifest, exit>>

\* FallbackManager.execute, of an answer it can use.
Levels == {"json_repair", IF retries > 0 THEN "retry" ELSE "none"}

\* The budget's error is not one to retry.
BudgetRefuses ==
  /\ phase = "call" /\ ~ MayCall
  /\ Drafted(FALSE, "rule_baseline") /\ UNCHANGED calls

\* The model answers with something its parser takes, perhaps after repair.
Answered ==
  /\ phase = "call" /\ MayCall
  /\ calls' = calls + 1
  /\ \E level \in Levels : Drafted(TRUE, level)

\* Its answer is no JSON even after repair, misses fields or echoes other
\* hashes.
Unusable ==
  /\ phase = "call" /\ MayCall
  /\ calls' = calls + 1
  /\ Drafted(FALSE, "rule_baseline")

\* What an exception's text is taken for, and which of these are transient.
Errors ==
  {"PROVIDER_TIMEOUT", "PROVIDER_RATE_LIMITED", "PROVIDER_CONNECTION_ERROR",
   "PROVIDER_SERVER_ERROR", "PROVIDER_AUTH_FAILURE", "SECURITY_PATH_TRAVERSAL",
   "INTERNAL_UNEXPECTED"}
Retryable(code) ==
  code \in {"PROVIDER_TIMEOUT", "PROVIDER_RATE_LIMITED", "PROVIDER_CONNECTION_ERROR",
            "PROVIDER_SERVER_ERROR"}

\* Mutant of CallFails: the attempts are not advanced, and the call is
\* reserved outside of what is retried.
MutCallFails ==
  /\ phase = "call" /\ MayCall
  /\ phase' = "backoff"
  /\ UNCHANGED <<evars, state, workers, manifest, exit>>

\* The call raises: once more if the error is transient and a retry is left;
\* the failed call stays counted.
CallFails ==
  /\ phase = "call" /\ MayCall
  /\ calls' = calls + 1
  /\ \E code \in Errors :
       IF retries < MaxRetries /\ Retryable(code)
       THEN /\ retries' = retries + 1
            /\ phase' = "backoff"
            /\ UNCHANGED <<evars, state, prompt, late, draft, outputs, traces, manifest, exit>>
       ELSE Drafted(FALSE, "rule_baseline")

BackoffEnds ==
  /\ phase = "backoff" /\ phase' = "call"
  /\ UNCHANGED <<evars, state, workers, manifest, exit>>

\* The trace is written, then the answer becomes the step's result.
RecordTrace ==
  /\ phase = "trace"
  /\ outputs' = [outputs EXCEPT ![Step] = draft.output]
  /\ traces' = [traces EXCEPT ![Step] = draft.trace]
  /\ Advance(NextState[Step])
  /\ phase' = IF Step = "review" THEN "store" ELSE "prompt"
  /\ draft' = NoOutput /\ prompt' = NoOutput /\ retries' = 0
  /\ UNCHANGED <<evars, calls, late, manifest, exit>>

TraceFails ==
  /\ phase = "trace"
  /\ Advance("failed") /\ End(3)
  /\ UNCHANGED <<evars, workers, manifest>>

\* _load_run_traces wants the three of them.
AllTraced == \A s \in DOMAIN StateOf : traces[s] # NoOutput

\* The manifest takes hashes and flags from the results; the run's exit code
\* says whether a human must look.
Store ==
  /\ phase = "store" /\ AllTraced
  /\ LET asks == Extracted("requires_review") \/ Extracted("requires_human_review")
         degraded == Extracted("degraded")
     IN  /\ manifest' = [status |-> state,
                         analysis_hash   |-> Extracted("analysis_hash"),
                         generation_hash |-> Extracted("generation_hash"),
                         review_hash     |-> Extracted("review_hash"),
                         review_decision |-> Extracted("decision"),
                         degraded |-> degraded, requires_review |-> asks]
         /\ End(IF degraded \/ asks THEN 4 ELSE 0)
  /\ UNCHANGED <<evars, state, workers>>

\* The traces cannot be read back, or the store fails (RunDirectory).
StoreFails ==
  /\ phase = "store"
  /\ End(3)
  /\ UNCHANGED <<evars, state, workers, manifest>>

Next ==
  \/ SetUp \/ CollectEvidence \/ EvidenceFails \/ StartExecutor \/ DeadlinePasses
  \/ PromptRefused \/ BuildPrompt \/ BudgetRefuses \/ Answered \/ Unusable \/ CallFails
  \/ BackoffEnds \/ RecordTrace \/ TraceFails \/ Store \/ StoreFails

Spec == Init /\ [][Next]_vars
FairSpec == Spec /\ WF_vars(Next)
-------------------------------------------------------------------------------
(* The types, and the accounts: calls reserved within the policy, retries   *)
(* included; the step's retries bounded; and a run has a code when it ends. *)
TypeOK ==
  /\ phase \in {"setup", "evidence", "prompt", "call", "backoff", "trace", "store",
              "done"}
  /\ state \in {"created", "analyzing", "generating", "reviewing", "completed", "failed"}
  /\ calls \in 0..MaxCalls /\ retries \in 0..MaxRetries /\ retries <= calls
  /\ late \in BOOLEAN
  /\ \A s \in DOMAIN StateOf : traces[s] # NoOutput => traces[s] \in Traces
  /\ exit \in {0, 2, 3, 4, 9} /\ (phase = "done" <=> exit # 9)
  /\ manifest # NoOutput <=> exit \in {0, 4}

(* What reaches the model fits, and nothing less important was kept over    *)
(* what was dropped: the sections gone are the first of the removal order,  *)
(* and with the last of them back the message would not have fitted.  A     *)
(* message is refused only if it would not fit with no section left.        *)
(* (TokenBudgetManager.apply; its last check refuses nothing.)              *)
TrimKeepsPriorities ==
  prompt # NoOutput =>
    LET m == prompt.message
        gone == Indices(m) \ prompt.kept
    IN  /\ prompt.error <=> /\ Tokens(m.base) > InputBudget
                            /\ prompt.trimmed
        /\ prompt.trimmed /\ ~ prompt.error => Fits(m, prompt.kept)
        /\ \A i \in gone :
             /\ \A j \in prompt.kept : GoesFirst(m, i, j)
             /\ (\A j \in gone \ {i} : GoesFirst(m, j, i)) => ~ Fits(m, prompt.kept \cup {i})

(* Exit 0 is only for a run of which no step was degraded and whose         *)
(* generation and review ask for nobody; the manifest says degraded exactly *)
(* when some step was, whichever it was.  The traces tell the same story:   *)
(* each is of the output stored, says where it came from, and between them  *)
(* they explain every call the run was charged, one refused for want of     *)
(* budget excepted.                                                         *)
(* (_extract_metadata looks at the last step that reports a flag; retries   *)
(* go through _PolicyBoundLLMClient.)                                       *)
HonestExit ==
  exit \in {0, 4} =>
    /\ state = "completed"
    /\ manifest.degraded <=> \E s \in DOMAIN StateOf : outputs[s].degraded
    /\ exit = 0 <=> /\ \A s \in DOMAIN StateOf : ~ outputs[s].degraded
                    /\ ~ outputs["generate"].review /\ ~ outputs["review"].human
    /\ \A s \in DOMAIN StateOf :
         /\ traces[s].status = "degraded" <=> outputs[s].degraded
         /\ traces[s].fallback_level = "rule_baseline" <=> outputs[s].text \in BaselineTexts
    /\ LET attempts(s) == traces[s].retry_count + 1
           made == attempts("analyze") + attempts("generate") + attempts("review")
           refused == Cardinality({s \in DOMAIN StateOf :
                                     traces[s].fallback_level = "rule_baseline"})
       IN  made - refused <= calls /\ calls <= made

(* Whatever fails, however often, the run ends with an exit code.           *)
(* (The tool and call limits, the bounded retry, the executor's loop.)      *)
RunEnds == <>(phase = "done")
===============================================================================
