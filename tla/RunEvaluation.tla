---------------------------- MODULE RunEvaluation ----------------------------
(***************************************************************************)
(* The evaluation of a stored legacy run, evaluation/validators.py: it is  *)
(* written apart from the runner and trusts none of its claims.            *)
(*                                                                         *)
(* Abstracted: missing, linked or unreadable artifact files (RunDirectory  *)
(* says when they are whole), the search for secrets, the checks of a live *)
(* provider, source paths (the files do not change).                       *)
(***************************************************************************)
EXTENDS LegacyWorkflow

ManifestFindings ==
  {f \in {"workflow_status_invalid"} : manifest.status \notin {"completed", "failed"}}

\* The hashes are recomputed from the stored outputs; the lineage is looked
\* at only if they are right.
LineageFindings ==
  LET a == outputs["analyze"]
      g == outputs["generate"]
      r == outputs["review"]
      broken == a.hash # AnalysisHash(a) \/ g.hash # GenerationHash(g)
  IN  {f \in {"hash_content_invalid", "analysis_lineage_invalid", "review_lineage_invalid"} :
         CASE f = "hash_content_invalid" -> broken
           [] f = "analysis_lineage_invalid" -> ~ broken /\ g.analysisHash # a.hash
           [] f = "review_lineage_invalid" ->
                ~ broken /\ <<r.analysisHash, r.generationHash>> # <<a.hash, g.hash>>}

TraceFindings ==
  {f \in {"worker_trace_missing"} : {s \in DOMAIN StateOf : traces[s] # NoOutput} # DOMAIN StateOf}

\* No source, selected, matched or quoted.
SourceFindings == {f \in {"source_evidence_missing"} : ~ filed.sources}

\* validate_artifacts; every tool call must have succeeded, and there must be
\* one.
Findings ==
  ManifestFindings \cup LineageFindings \cup TraceFindings \cup SourceFindings
    \cup {f \in {"tool_calls_missing"} : filed.calls # {"success"}}
-------------------------------------------------------------------------------
\* Parsing an output again leaves it as it is stored.
Settled(step) == Sanitized[outputs[step].text] = outputs[step].text

(* The outputs are one lineage of what was read, whatever was degraded and  *)
(* wrapped again on the way: the reviewer never refuses its inputs; the     *)
(* generation, the review and the manifest name the same analysis, the      *)
(* stored one parsed once more, and the last two the same generation; each  *)
(* stored hash is that of its content.  So an evaluation that recomputes    *)
(* the hashes complains of the lineage exactly if sanitising changed what   *)
(* was read, and besides of missing evidence only.                          *)
(* (The workers' rewrapping, from_json, _extract_output, validators.py.)    *)
LineageHolds ==
  /\ phase = "prompt" => InputsParse
  /\ exit \in {0, 4} =>
       /\ Findings \ {"tool_calls_missing", "source_evidence_missing"} =
            {f \in {"analysis_lineage_invalid"} : ~ Settled("analyze")}
              \cup {f \in {"review_lineage_invalid"} :
                      ~ (Settled("analyze") /\ Settled("generate"))}
       /\ manifest.analysis_hash = ReparsedAnalysis(outputs["analyze"]).hash
       /\ manifest.analysis_hash = outputs["generate"].analysisHash
       /\ manifest.generation_hash = ReparsedGeneration(outputs["generate"]).hash
       /\ manifest.review_hash = ReviewHash(outputs["review"])
===============================================================================
