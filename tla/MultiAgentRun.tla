---------------------------- MODULE MultiAgentRun -----------------------------
(***************************************************************************)
(* One multi-agent run: _run_multi_agent_owned of runner_multi.py with the *)
(* scheduler and state machine of coordinator/, the revision controller    *)
(* and the RuntimeGuard budgets.                                           *)
(*                                                                         *)
(* The main thread walks through the stages of the plan; the agents of a   *)
(* stage run on a thread pool beside it.  A review that rejects buys one   *)
(* revision: the target again (slot 4), then synthesis and review (slots 5 *)
(* and 6).  An agent's output is identified by the slot it was produced    *)
(* in, which is also what a handoff's payload_ref names it by.             *)
(*                                                                         *)
(* The guard's clock is one bit, the passing of the deadline.              *)
(***************************************************************************)
EXTENDS Integers, FiniteSets, FiniteSetsExt, DelegationPlan

CONSTANTS
  Policies,   \* the ExecutionPolicy values a run may be given
  Usages      \* what a provider may report of one call's tokens

NoUsage == [input |-> 0, output |-> 0]

\* TokenPolicy and ExecutionPolicy, as far as their constructors accept them.
ValidTokens(t) ==
  /\ {t.runInput, t.runOutput, t.runTotal, t.agentInput, t.agentOutput} \subseteq Nat \ {0}
  /\ t.reserve \in Nat /\ t.reserve < t.runTotal
ValidPolicy(p) ==
  /\ p.maxCalls \in Nat \ {0} /\ p.maxParallel \in Nat \ {0} /\ p.maxRevisions \in Nat
  /\ ValidTokens(p.tokens)

ASSUME PolicyAssumption ==
  /\ \A p \in Policies : ValidPolicy(p)
  /\ NoUsage \in Usages /\ Usages \subseteq [input : Nat, output : Nat]

Codes == {"TIME_BUDGET_EXCEEDED", "CALL_BUDGET_EXCEEDED", "TOKEN_BUDGET_EXCEEDED",
          "REVISION_BUDGET_EXCEEDED", "PARALLEL_AGENT_LIMIT_EXCEEDED",
          "PROVIDER_CIRCUIT_REJECTED", "MULTI_AGENT_RUN_FAILED"}

Slots == 0..6
Never == -1          \* the version of an output that does not exist

VARIABLES
  policy,
  phase,      \* MultiAgentWorkflowEngine.state
  at,         \* where the main thread stands
  slot,       \* the stage_index it is at
  thread,     \* each agent's future in the current stage
  reply,      \* what the future returned or raised
  seen,       \* the futures as_completed() has yielded
  prior,      \* prior_outputs: the slot of each agent's latest output
  inputs,     \* what each execution was given: receiver, slot, sender, version
  handoffs,   \* runtime_handoffs: the same, with the version payload_ref names
  verdict,    \* decision and target of the latest review
  calls, revisions, spent,  \* RuntimeGuard; spent counts tokens
  round,      \* RevisionController._round
  late,       \* the deadline has passed
  stages,     \* the slots whose StageExecutionResult is kept
  tally,      \* the tokens those results report
  error,
  exit        \* the status of the RunResult

controlVars == <<phase, at, slot, error, exit>>
poolVars == <<thread, reply, seen>>
dataVars == <<prior, inputs, handoffs, verdict, stages, tally>>
guardVars == <<calls, revisions, spent, round>>
vars == <<policy, controlVars, poolVars, dataVars, guardVars, late>>

Idle == [a \in Agents |-> "idle"]
Reply(code, usage) == [code |-> code, usage |-> usage]
NoReply == [a \in Agents |-> Reply("none", NoUsage)]

\* Evidence is collected and the plan compiled before the try block.
Init ==
  /\ policy \in Policies
  /\ phase = "created" /\ at = "plan" /\ slot = 0
  /\ thread = Idle /\ reply = NoReply /\ seen = {}
  /\ prior = [a \in Agents |-> Never]
  /\ inputs = {} /\ handoffs = {}
  /\ verdict = [decision |-> "none", target |-> "none"]
  /\ calls = 0 /\ revisions = 0 /\ spent = NoUsage /\ round = 0
  /\ stages = {} /\ tally = NoUsage
  /\ late = FALSE
  /\ error = "none" /\ exit = "none"

\* Who runs in a slot, and the engine state entered for it.
TeamOf(s) == IF s = 4 THEN {verdict.target} ELSE Stage(IF s > 4 THEN s - 3 ELSE s)
Team == TeamOf(slot)
\* Mutant: the revision is run without leaving the review.
PhaseOfUnrevised(s) ==
  CASE s = 0 -> "analyzing"
    [] s = 1 -> "executing_specialists"
    [] s \in {2, 5} -> "synthesizing"
    [] s \in {3, 4, 6} -> "reviewing"
PhaseOf(s) ==
  CASE s = 0 -> "analyzing"
    [] s = 1 -> "executing_specialists"
    [] s \in {2, 5} -> "synthesizing"
    [] s \in {3, 6} -> "reviewing"
    [] s = 4 -> "revising"

\* An exception reaches the except clauses with this code.
Fail(code) ==
  /\ error' = code
  /\ at' = "failing"
  /\ UNCHANGED <<slot, exit>>

StartPlanning ==
  /\ at = "plan"
  /\ phase' = "planning" /\ at' = "stage"
  /\ UNCHANGED <<policy, slot, error, exit, poolVars, dataVars, guardVars, late>>

-------------------------------------------------------------------------------
(* Entering a stage: transition, handoffs, checks, submission *)

Planned(a) == CHOOSE s \in 0..3 : a \in Stage(s)

\* The slot payload_ref names: that of the sender's task, unless
\* sender_stage_overrides gives another.
\* Mutant: the overrides are not passed.
RefWithoutOverrides(sender) == Planned(sender)
Ref(sender) ==
  IF slot = 5 /\ sender = verdict.target THEN 4
  ELSE IF slot = 6 /\ sender = "synthesis" THEN 5
  ELSE Planned(sender)

Edge(a, d, v) == [to |-> a, slot |-> slot, from |-> d, version |-> v]

\* _validate_stage_inputs(), one per dependency; for a revision instead
\* _revision_handoff(), from the review to its target.
NewHandoffs ==
  IF slot = 4 THEN {Edge(verdict.target, "review", 3)}
  ELSE UNION {{Edge(a, d, Ref(d)) : d \in DependsOn[a]} : a \in Team}

\* The input schemas: whose outputs an agent has fields for.  Kept by hand
\* beside the plan's dependencies; other fields are forbidden.
InputFields(a) ==
  CASE a = "analyst" -> {}
    [] a \in {"design", "test", "risk"} -> {"analyst"}
    [] a = "synthesis" -> {"design", "test", "risk"}
    [] a = "review" -> {"synthesis"}

\* Mutant: the outputs of the planned stages are passed on, not the latest.
PlannedInputs == UNION {{Edge(a, d, Planned(d)) : d \in InputFields(a)} : a \in Team}

\* _validated_inputs(): each role gets the latest outputs its schema names,
\* and AgentRunner shows its provider nothing else.
NewInputs == UNION {{Edge(a, d, prior[d]) : d \in InputFields(a)} : a \in Team}

\* The scheduler gives every agent of the stage to the pool.
Submitted == [a \in Agents |-> IF a \in Team THEN "queued" ELSE "idle"]

\* First the handoffs are made and verified, then come the guard's checks, the
\* receivers' input contracts and the scheduler's own look at the deadline; with
\* all of that passed every agent is submitted.
EnterStage ==
  /\ at = "stage"
  /\ phase' = PhaseOf(slot)
  /\ \/ /\ ~late /\ Cardinality(Team) <= policy.maxParallel
        /\ handoffs' = handoffs \cup NewHandoffs
        /\ inputs' = inputs \cup NewInputs
        /\ thread' = Submitted
        /\ at' = "waiting"
        /\ UNCHANGED <<slot, error, exit>>
     \/ /\ \/ late /\ Fail("TIME_BUDGET_EXCEEDED")
           \/ ~late /\ Cardinality(Team) > policy.maxParallel /\ Fail("PARALLEL_AGENT_LIMIT_EXCEEDED")
        /\ handoffs' = handoffs \cup NewHandoffs
        /\ UNCHANGED <<inputs, thread>>
     \/ /\ Fail("MULTI_AGENT_RUN_FAILED")
        /\ handoffs' \in {handoffs, handoffs \cup NewHandoffs}
        /\ UNCHANGED <<inputs, thread>>
  /\ UNCHANGED <<policy, reply, seen, prior, verdict, stages, tally, guardVars, late>>

-------------------------------------------------------------------------------
(* The pool: one budgeted executor per agent *)

Raise(a, code) ==
  /\ thread' = [thread EXCEPT ![a] = "raised"]
  /\ reply' = [reply EXCEPT ![a] = Reply(code, NoUsage)]

poolFrame == <<policy, controlVars, seen, dataVars, revisions, round, late>>

\* Mutants: the call budget is off by one, either way.
BeginOverBudget(a) ==
  /\ thread[a] = "queued"
  /\ \/ /\ calls <= policy.maxCalls /\ ~late
        /\ calls' = calls + 1
        /\ thread' = [thread EXCEPT ![a] = "executing"]
        /\ UNCHANGED reply
     \/ /\ calls > policy.maxCalls \/ late
        /\ Raise(a, "CALL_BUDGET_EXCEEDED")
        /\ UNCHANGED calls
  /\ UNCHANGED <<spent, poolFrame>>
BeginUnderBudget(a) ==
  /\ thread[a] = "queued"
  /\ \/ /\ calls + 1 < policy.maxCalls /\ ~late
        /\ calls' = calls + 1
        /\ thread' = [thread EXCEPT ![a] = "executing"]
        /\ UNCHANGED reply
     \/ /\ calls + 1 >= policy.maxCalls
        /\ Raise(a, "CALL_BUDGET_EXCEEDED")
        /\ UNCHANGED calls
  /\ UNCHANGED <<spent, poolFrame>>

\* A worker picks the call up: it is counted, the clock is checked.
Begin(a) ==
  /\ thread[a] = "queued"
  /\ \/ /\ calls < policy.maxCalls /\ ~late
        /\ calls' = calls + 1
        /\ thread' = [thread EXCEPT ![a] = "executing"]
        /\ UNCHANGED reply
     \/ /\ calls < policy.maxCalls /\ late
        /\ calls' = calls + 1
        /\ Raise(a, "TIME_BUDGET_EXCEEDED")
     \/ /\ calls >= policy.maxCalls
        /\ Raise(a, "CALL_BUDGET_EXCEEDED")
        /\ UNCHANGED calls
  /\ UNCHANGED <<spent, poolFrame>>

\* What an agent's execution may return: a sound envelope; one that failed,
\* or that sanitisation spoils for its schema; one the circuit breaker refused.
Envelopes ==
  {Reply(c, u) : c \in {"ok", "AGENT_FAILED"}, u \in Usages}
    \cup {Reply("PROVIDER_CIRCUIT_REJECTED", NoUsage)}

\* Mutant: the retry reserve is not withheld from ordinary calls.
RefusedWithReserve(u) ==
  LET t == policy.tokens
  IN  \/ u.input > t.agentInput \/ u.output > t.agentOutput
      \/ spent.input + u.input > t.runInput \/ spent.output + u.output > t.runOutput
      \/ spent.input + u.input + spent.output + u.output > t.runTotal

\* consume_tokens(): a result within the limits of an agent may still be the
\* one the run has no tokens left for. No caller says is_retry.
TokensRefused(u) ==
  LET t == policy.tokens
  IN  \/ u.input > t.agentInput \/ u.output > t.agentOutput
      \/ spent.input + u.input > t.runInput \/ spent.output + u.output > t.runOutput
      \/ spent.input + u.input + spent.output + u.output > t.runTotal - t.reserve

\* The executor returns and its tokens are counted, or one of the two raises.
Return(a) ==
  /\ thread[a] = "executing"
  /\ \/ \E e \in Envelopes :
          /\ ~TokensRefused(e.usage)
          /\ thread' = [thread EXCEPT ![a] = "done"]
          /\ reply' = [reply EXCEPT ![a] = e]
          /\ spent' = [input  |-> spent.input + e.usage.input,
                       output |-> spent.output + e.usage.output]
     \/ /\ \E u \in Usages : TokensRefused(u)
        /\ Raise(a, "TOKEN_BUDGET_EXCEEDED")
        /\ UNCHANGED spent
     \/ Raise(a, "MULTI_AGENT_RUN_FAILED") /\ UNCHANGED spent
  /\ UNCHANGED <<calls, poolFrame>>

-------------------------------------------------------------------------------
(* The scheduler: as_completed(), then shutdown(wait=True) *)

schedulerFrame == <<policy, phase, slot, dataVars, guardVars, late, exit>>

Drain(code) == error' = code /\ at' = "draining"

\* Mutant: a future that raised is not yielded.
CollectDoneOnly(a) ==
  /\ at = "waiting"
  /\ a \notin seen /\ thread[a] = "done"
  /\ seen' = seen \cup {a}
  /\ UNCHANGED <<thread, reply, at, error, schedulerFrame>>

Collect(a) ==
  /\ at = "waiting"
  /\ a \notin seen
  /\ \/ thread[a] = "done" /\ seen' = seen \cup {a} /\ UNCHANGED <<at, error>>
     \/ thread[a] = "raised" /\ Drain(reply[a].code) /\ UNCHANGED seen
  /\ UNCHANGED <<thread, reply, schedulerFrame>>

\* as_completed() may time out on futures that are done but not yet yielded.
Timeout ==
  /\ at = "waiting" /\ late
  /\ seen # Team
  /\ Drain("TIME_BUDGET_EXCEEDED")
  /\ UNCHANGED <<poolVars, schedulerFrame>>

\* A worker may still get ahead of the cancellation of a queued future.
Cancel(a) ==
  /\ at = "draining"
  /\ thread[a] = "queued"
  /\ thread' = [thread EXCEPT ![a] = "cancelled"]
  /\ UNCHANGED <<reply, seen, at, error, schedulerFrame>>

\* Mutant: shutdown does not wait for started work.
LeaveRunning ==
  /\ at = "draining"
  /\ at' = "failing"
  /\ seen' = {}
  /\ UNCHANGED <<thread, reply, error, schedulerFrame>>

Drained ==
  /\ at = "draining"
  /\ \A a \in Agents : thread[a] \notin {"queued", "executing"}
  /\ at' = "failing"
  /\ thread' = Idle /\ reply' = NoReply /\ seen' = {}
  /\ UNCHANGED <<error, schedulerFrame>>

\* What a review may say and pass its schema: a rejection names a target,
\* though perhaps no agent; an acceptance need not.
ReviewPayloads ==
  {p \in [decision : {"PASS", "REJECT"}, target : Agents \cup {"unknown", "blank"}] :
     p.decision = "REJECT" => p.target # "blank"}

\* _review_decision() and _revision_target(); nobody asks for the target of
\* an acceptance.
Verdicts ==
  {[decision |-> p.decision,
    target   |-> IF p.decision = "PASS" THEN "none"
                 ELSE IF p.target = "blank" THEN "design" ELSE p.target] : p \in ReviewPayloads}

\* The stage's error: only a refusal by the circuit breaker keeps its code.
StageError(code) ==
  IF code = "PROVIDER_CIRCUIT_REJECTED" THEN code ELSE "MULTI_AGENT_RUN_FAILED"

\* What the results of the stage report, tokens of one kind.
Reported(k) == MapThenSumSet(LAMBDA a : reply[a].usage[k], Team)

\* Every future was yielded. One bad envelope fails the stage; otherwise its
\* outputs become the latest.
StageDone ==
  /\ at = "waiting"
  /\ seen = Team
  /\ \/ /\ \E a \in Team : reply[a].code # "ok" /\ Fail(StageError(reply[a].code))
        /\ UNCHANGED <<prior, verdict, stages, tally>>
     \/ /\ \A a \in Team : reply[a].code = "ok"
        /\ prior' = [a \in Agents |-> IF a \in Team THEN slot ELSE prior[a]]
        /\ stages' = stages \cup {slot}
        /\ tally' = [k \in {"input", "output"} |-> tally[k] + Reported(k)]
        /\ IF slot \in {3, 6} THEN verdict' \in Verdicts ELSE UNCHANGED verdict
        /\ slot' = IF slot \in {3, 6} THEN slot ELSE slot + 1
        /\ at' = IF slot \in {3, 6} THEN "review" ELSE "stage"
        /\ UNCHANGED <<error, exit>>
  /\ thread' = Idle /\ reply' = NoReply /\ seen' = {}
  /\ UNCHANGED <<policy, phase, inputs, handoffs, guardVars, late>>

-------------------------------------------------------------------------------
(* The review's decision *)

reviewFrame == <<policy, poolVars, dataVars, calls, spent, late, exit>>

Finish ==
  /\ phase' = "completed"
  /\ at' = "persisting"
  /\ UNCHANGED <<slot, error>>

Accept ==
  /\ at = "review"
  /\ verdict.decision = "PASS"
  /\ Finish
  /\ UNCHANGED <<revisions, round, reviewFrame>>

\* consume_revision() counts before it checks. An agent the registry does not
\* know raises; a role that is not revisable exhausts the revision at once.
Reject ==
  /\ at = "review" /\ slot = 3
  /\ verdict.decision = "REJECT"
  /\ revisions' = revisions + 1
  /\ \/ /\ revisions' > policy.maxRevisions
        /\ Fail("REVISION_BUDGET_EXCEEDED")
        /\ UNCHANGED <<phase, round>>
     \/ /\ revisions' <= policy.maxRevisions
        /\ verdict.target = "unknown"
        /\ Fail("MULTI_AGENT_RUN_FAILED")
        /\ UNCHANGED <<phase, round>>
     \/ /\ revisions' <= policy.maxRevisions
        /\ verdict.target \in Agents \ RevisableRoles
        /\ Finish
        /\ UNCHANGED round
     \/ /\ revisions' <= policy.maxRevisions
        /\ verdict.target \in RevisableRoles
        /\ round' = round + 1
        /\ slot' = 4 /\ at' = "stage"
        /\ UNCHANGED <<phase, error>>
  /\ UNCHANGED reviewFrame

RejectAgain ==
  /\ at = "review" /\ slot = 6
  /\ verdict.decision = "REJECT"
  /\ Finish
  /\ UNCHANGED <<revisions, round, reviewFrame>>

-------------------------------------------------------------------------------
(* Artifacts and the result *)

endFrame == <<policy, slot, poolVars, dataVars, guardVars, late, error>>

\* _persist_failed_run(): the engine fails unless it already ended.
PersistFailure ==
  /\ at = "failing"
  /\ phase' = IF phase \in {"completed", "failed"} THEN phase ELSE "failed"
  /\ exit' = "failed_runtime"
  /\ at' = "ended"
  /\ UNCHANGED endFrame

\* Mutant: only a second rejection exhausts the revision.
RoundsExhausted == verdict.decision = "REJECT" /\ round >= MaxTotalRounds
RevisionExhausted ==
  verdict.decision = "REJECT" /\ (verdict.target \notin RevisableRoles \/ round >= MaxTotalRounds)

\* _build_trace_tree: one span per result, the revised agent's under the
\* revision's.
Spans ==
  UNION {{[agent |-> a, stage |-> s, round |-> IF s >= 4 THEN 1 ELSE 0,
           parent |-> IF s = 4 THEN "revision" ELSE "coordinator"] : a \in TeamOf(s)} :
         s \in stages}

\* metrics.json is counted from the results, the manifest's budget_usage is
\* what the guard counted.
Metrics ==
  [llm_call_count |-> Cardinality(Spans),
   input_tokens |-> tally.input, output_tokens |-> tally.output,
   revision_count |-> round, review_decision |-> verdict.decision,
   revision_exhausted |-> RevisionExhausted, handoff_count |-> Cardinality(handoffs)]
BudgetUsage ==
  [llm_calls |-> calls, input_tokens |-> spent.input, output_tokens |-> spent.output,
   revision_count |-> revisions]

\* The writes may fail; the run's status is set by the revision flag.
Persist ==
  /\ at = "persisting"
  /\ exit' \in {"failed_runtime", IF RevisionExhausted THEN "rejected" ELSE "completed"}
  /\ at' = "ended"
  /\ UNCHANGED <<phase, endFrame>>

DeadlinePasses ==
  /\ ~late /\ at # "ended"
  /\ late' = TRUE
  /\ UNCHANGED <<policy, controlVars, poolVars, dataVars, guardVars>>

-------------------------------------------------------------------------------
Main ==
  \/ StartPlanning \/ EnterStage
  \/ (\E a \in Agents : Collect(a)) \/ Timeout \/ Drained \/ StageDone
  \/ Accept \/ Reject \/ RejectAgain \/ PersistFailure \/ Persist

Next ==
  \/ Main
  \/ \E a \in Agents : Begin(a) \/ Return(a) \/ Cancel(a)
  \/ DeadlinePasses

\* The main thread and the pool's workers run; an executor need not return.
FairSpec ==
  /\ Init /\ [][Next]_vars
  /\ WF_vars(Main)
  /\ WF_vars(\E a \in Agents : Begin(a))

Spec == Init /\ [][Next]_vars

-------------------------------------------------------------------------------
(* Properties *)

TypeOK ==
  /\ policy \in Policies
  /\ phase \in {"created", "planning", "analyzing", "executing_specialists", "synthesizing",
                "reviewing", "revising", "completed", "failed"}
  /\ at \in {"plan", "stage", "waiting", "draining", "failing", "review", "persisting", "ended"}
  /\ slot \in Slots
  /\ thread \in [Agents -> {"idle", "queued", "executing", "done", "raised", "cancelled"}]
  /\ reply \in [Agents -> [code : Codes \cup {"none", "ok", "AGENT_FAILED"}, usage : Usages]]
  /\ seen \subseteq Agents
  /\ prior \in [Agents -> Slots \cup {Never}]
  /\ inputs \subseteq [to : Agents, slot : Slots, from : Agents, version : Slots]
  /\ handoffs \subseteq [to : Agents, slot : Slots, from : Agents, version : Slots]
  /\ verdict \in Verdicts \cup {[decision |-> "none", target |-> "none"]}
  /\ calls \in 0..policy.maxCalls
  /\ revisions \in 0..policy.maxRevisions + 1
  /\ round \in 0..MaxTotalRounds
  /\ spent.input \in 0..policy.tokens.runInput /\ spent.output \in 0..policy.tokens.runOutput
  /\ stages \subseteq Slots
  /\ late \in BOOLEAN
  /\ error \in Codes \cup {"none"}
  /\ exit \in {"none", "completed", "rejected", "failed_runtime"}

\* No agent is queued or executing once the scheduler has given control back,
\* however the stage ended: neither the next stage, nor the failure artifacts,
\* nor the caller that frees the run's permit overlaps with its work.
NoWorkOutlivesItsStage ==
  at \notin {"waiting", "draining"} =>
    \A a \in Agents : thread[a] \notin {"queued", "executing"}

\* An execution of the plan is given exactly what its handoffs record: the
\* outputs they name are the ones it received, none is missing and none is an
\* earlier version, also after a revision. (Slot 4, the revised agent's own
\* execution, is not a planned one.)
InputsAreHandedOff ==
  \A s \in Slots \ {4} :
    (\E i \in inputs : i.slot = s) =>
      {i \in inputs : i.slot = s} = {h \in handoffs : h.slot = s}

\* What a finished run ends with is consistent: the latest output of every
\* agent was produced from the latest output of each of its dependencies, so
\* no accepted review rests on a synthesis of superseded designs.
NothingSuperseded ==
  exit \in {"completed", "rejected"} =>
    \A a \in Agents : \A d \in DependsOn[a] :
      [to |-> a, slot |-> prior[a], from |-> d, version |-> prior[d]] \in inputs

\* The status follows the last review: completed means it passed; rejected
\* means it did not and the revision was spent or could not be asked for. No
\* error is behind either.
StatusFollowsReview ==
  /\ exit = "completed" => verdict.decision = "PASS" /\ error = "none"
  /\ exit = "rejected" =>
       /\ verdict.decision = "REJECT" /\ error = "none"
       /\ prior["review"] = 6 \/ verdict.target \notin RevisableRoles

\* _LEGAL_TRANSITIONS.
Legal ==
  [p \in {"created", "planning", "analyzing", "executing_specialists", "synthesizing",
          "reviewing", "revising", "completed", "failed"} |->
     CASE p = "created" -> {"planning"}
       [] p = "planning" -> {"analyzing", "failed"}
       [] p = "analyzing" -> {"executing_specialists", "failed"}
       [] p = "executing_specialists" -> {"synthesizing", "failed"}
       [] p = "synthesizing" -> {"reviewing", "failed"}
       [] p = "reviewing" -> {"completed", "revising", "failed"}
       [] p = "revising" -> {"synthesizing", "failed"}
       [] p \in {"completed", "failed"} -> {}]

\* The runner never asks the engine for a transition its table refuses, so
\* StateTransitionError is unreachable from any interleaving of failures.
TransitionsAreLegal == [][phase' # phase => phase' \in Legal[phase]]_vars

\* What a finished run says it cost is what the guard charged it: every
\* counted call and token belongs to exactly one kept result, however the
\* agents of a stage raced for the last of them. (The guard alone also counts
\* the revision a review asked of a role that cannot revise.) No race reaches
\* into the retry reserve, and a budget of nine calls, below the default of
\* ten, is never what stops a run with one revision.
BudgetsAreExact ==
  /\ spent.input + spent.output <= policy.tokens.runTotal - policy.tokens.reserve
  /\ policy.maxCalls >= 9 => error # "CALL_BUDGET_EXCEEDED"
  /\ exit \in {"completed", "rejected"} =>
       /\ Metrics.llm_call_count = BudgetUsage.llm_calls
       /\ Metrics.input_tokens = BudgetUsage.input_tokens
       /\ Metrics.output_tokens = BudgetUsage.output_tokens
       /\ Metrics.revision_count =
            IF exit = "rejected" /\ slot = 3 THEN 0 ELSE BudgetUsage.revision_count

ExecutorsReturn == WF_vars(\E a \in Agents : Return(a))

\* If executors return, the run ends: no budget, timeout or failure leaves the
\* main thread waiting for a future that will not be completed.
RunEnds == ExecutorsReturn => <>(at = "ended")

\* An agent that executes has been given what the handoffs to it carry, the
\* rejecting review of a revision included (AgentRunner.execute: "Merges
\* *context* into the user message"; the context holds the revision task).
HandoffsAreDelivered ==
  \A h \in handoffs : h.slot = slot /\ thread[h.to] = "executing" => h \in inputs
===============================================================================
