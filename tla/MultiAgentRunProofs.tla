-------------------------- MODULE MultiAgentRunProofs --------------------------
(***************************************************************************)
(* Theorems about MultiAgentRun for every set of policies and every usage  *)
(* a provider may report.  The inductive invariant:                        *)
(*   TypeInv     the variables have their types;                           *)
(*   ControlInv  how the engine's state follows the main thread;           *)
(*   PoolInv     futures exist only while the scheduler waits or drains;   *)
(*   ReviewInv   what the verdict says once a review has ended;            *)
(*   HistoryInv  nothing was handed off or given in a slot not yet entered;*)
(*   PlanInv     which outputs are the latest, and that each execution so  *)
(*               far was given the latest of its time.                     *)
(***************************************************************************)
EXTENDS MultiAgentRun, DelegationPlanProofs, FiniteSetTheorems, TLAPS

Phases == {"created", "planning", "analyzing", "executing_specialists", "synthesizing",
           "reviewing", "revising", "completed", "failed"}
Points == {"plan", "stage", "waiting", "draining", "failing", "review", "persisting", "ended"}
Edges == [to : Agents, slot : Slots, from : Agents, version : Slots]
NoVerdict == [decision |-> "none", target |-> "none"]

TypeInv ==
  /\ policy \in Policies
  /\ phase \in Phases
  /\ at \in Points
  /\ slot \in Slots
  /\ thread \in [Agents -> {"idle", "queued", "executing", "done", "raised", "cancelled"}]
  /\ reply \in [Agents -> [code : Codes \cup {"none", "ok", "AGENT_FAILED"}, usage : Usages]]
  /\ seen \subseteq Agents
  /\ prior \in [Agents -> Slots \cup {Never}]
  /\ inputs \subseteq Edges /\ handoffs \subseteq Edges
  /\ verdict \in Verdicts \cup {NoVerdict}
  /\ calls \in 0..policy.maxCalls
  /\ revisions \in 0..policy.maxRevisions + 1
  /\ round \in 0..MaxTotalRounds
  /\ spent.input \in 0..policy.tokens.runInput /\ spent.output \in 0..policy.tokens.runOutput
  /\ stages \subseteq Slots
  /\ late \in BOOLEAN
  /\ error \in Codes \cup {"none"}
  /\ exit \in {"none", "completed", "rejected", "failed_runtime"}

\* The engine's state before a slot is entered.
PhaseBefore(s) ==
  CASE s = 0 -> "planning"
    [] s = 1 -> "analyzing"
    [] s = 2 -> "executing_specialists"
    [] s \in {3, 6} -> "synthesizing"
    [] s = 4 -> "reviewing"
    [] s = 5 -> "revising"

ControlInv ==
  /\ at = "plan" => phase = "created" /\ slot = 0
  /\ at = "stage" => phase = PhaseBefore(slot)
  /\ at \in {"waiting", "draining"} => phase = PhaseOf(slot)
  /\ at = "failing" => phase \notin {"created", "planning", "completed", "failed"}
  /\ at = "review" => phase = "reviewing" /\ slot \in {3, 6}
  /\ at = "persisting" => phase = "completed" /\ slot \in {3, 6}
  /\ at = "ended" <=> exit # "none"
  /\ exit \in {"completed", "rejected"} => slot \in {3, 6}
  /\ at \in {"plan", "stage", "waiting", "review", "persisting"} => error = "none"
  /\ exit \in {"completed", "rejected"} => error = "none"
  /\ slot < 4 /\ at # "failing" /\ exit # "failed_runtime" =>
       round = 0 /\ (at \in {"persisting", "ended"} \/ revisions = 0)
  /\ slot >= 4 => round = 1

Busy == {"queued", "executing"}

PoolInv ==
  /\ at \notin {"waiting", "draining"} => thread = Idle
  /\ \A a \in Agents : thread[a] = "raised" => reply[a].code \in Codes

ReviewInv ==
  /\ at = "review" => verdict \in Verdicts
  /\ at = "persisting" \/ exit \in {"completed", "rejected"} =>
       \/ verdict.decision = "PASS"
       \/ verdict.decision = "REJECT" /\ (slot = 6 \/ verdict.target \notin RevisableRoles)
  /\ exit = "completed" => verdict.decision = "PASS"
  /\ exit = "rejected" => verdict.decision = "REJECT"

HistoryInv ==
  /\ \A e \in inputs \cup handoffs : e.slot < slot \/ (e.slot = slot /\ at # "stage")
  /\ at = "plan" => inputs = {} /\ handoffs = {}
  /\ InputsAreHandedOff

\* The latest output of each agent when slot s is entered, in a run whose
\* review asks t to revise (t does not matter up to slot 4) ...
LatestBefore(s, t) ==
  [a \in Agents |->
     IF s > 4 /\ a = t THEN 4
     ELSE IF s > 5 /\ a = "synthesis" THEN 5
     ELSE IF s > 6 /\ a = "review" THEN 6
     ELSE IF Planned(a) < s THEN Planned(a) ELSE Never]

\* ... who runs in it, and that they were given those outputs.
Crew(s, t) == IF s = 4 THEN {t} ELSE Stage(IF s > 4 THEN s - 3 ELSE s)
Given(s, t, given) ==
  \A a \in Crew(s, t) : \A d \in DependsOn[a] :
    [to |-> a, slot |-> s, from |-> d, version |-> LatestBefore(s, t)[d]] \in given

PlanFor(t) ==
  /\ at \in {"stage", "waiting", "draining"} /\ slot >= 4 => verdict.target = t
  /\ at \in {"plan", "stage", "waiting", "draining"} =>
       prior = LatestBefore(slot, t) /\ \A s \in Slots : s < slot => Given(s, t, inputs)
  /\ at = "waiting" => Given(slot, t, inputs)
  /\ at \in {"review", "persisting"} \/ exit \in {"completed", "rejected"} =>
       prior = LatestBefore(slot + 1, t) /\ \A s \in Slots : s <= slot => Given(s, t, inputs)

PlanInv == \E t \in RevisableRoles : PlanFor(t)

IInv == TypeInv /\ ControlInv /\ PoolInv /\ ReviewInv /\ HistoryInv /\ PlanInv

-------------------------------------------------------------------------------
(* The plan *)

Level(a) ==
  IF a = "analyst" THEN 0 ELSE IF a \in Specialists THEN 1 ELSE IF a = "synthesis" THEN 2 ELSE 3

\* The stage of each agent.
LEMMA PlannedLevel == \A a \in Agents : Planned(a) = Level(a)
  BY PlanStages DEF Planned, Level, Agents, Specialists

\* The input schemas repeat the dependencies of the plan.
LEMMA FieldsAreDependencies == \A a \in Agents : InputFields(a) = DependsOn[a]
  BY Dependencies DEF InputFields, Agents, Specialists

\* What LatestBefore says of one agent.
LEMMA LatestValue ==
  ASSUME NEW s \in Int, NEW t, NEW a \in Agents
  PROVE  LatestBefore(s, t)[a] =
           IF s > 4 /\ a = t THEN 4
           ELSE IF s > 5 /\ a = "synthesis" THEN 5
           ELSE IF s > 6 /\ a = "review" THEN 6
           ELSE IF Level(a) < s THEN Level(a) ELSE Never
  BY PlannedLevel DEF LatestBefore

\* Up to the first review the plan does not depend on whom it asks to revise.
LEMMA LatestEarly ==
  ASSUME NEW s \in 0..4, NEW t, NEW u
  PROVE  LatestBefore(s, t) = LatestBefore(s, u)
  BY DEF LatestBefore

\* Who runs in each slot.
LEMMA CrewOf ==
  ASSUME NEW s \in Slots, NEW t \in Specialists
  PROVE  /\ Crew(s, t) = IF s = 0 THEN {"analyst"}
                         ELSE IF s = 1 THEN Specialists
                         ELSE IF s \in {2, 5} THEN {"synthesis"}
                         ELSE IF s = 4 THEN {t} ELSE {"review"}
         /\ Crew(s, t) \subseteq Agents
  <1>1. Crew(s, t) = IF s = 0 THEN {"analyst"}
                     ELSE IF s = 1 THEN Specialists
                     ELSE IF s \in {2, 5} THEN {"synthesis"}
                     ELSE IF s = 4 THEN {t} ELSE {"review"}
    BY PlanStages DEF Crew, Slots
  <1> QED BY <1>1 DEF Agents, Specialists

\* What an agent depends on has run when its slot is entered, and this is the
\* version that is then the latest.
LEMMA LatestOfDependency ==
  ASSUME NEW s \in Slots, NEW t \in Specialists, NEW a \in Crew(s, t), NEW d \in DependsOn[a]
  PROVE  /\ a \in Agents /\ d \in Agents
         /\ LatestBefore(s, t)[d] \in Slots
         /\ s # 4 => LatestBefore(s, t)[d] =
                       IF s = 5 /\ d = t THEN 4 ELSE IF s = 6 THEN 5 ELSE Level(d)
         /\ s = 6 => d = "synthesis"
  <1>1. a \in Agents
    BY CrewOf
  <1>2. d \in Agents
    BY <1>1, Dependencies DEF Agents, Specialists
  <1> USE <1>1, <1>2, LatestValue, CrewOf, Dependencies DEF Level, Specialists, Slots
  <1>3. CASE s \in {0, 1}
    BY <1>3
  <1>4. CASE s = 2
    BY <1>4
  <1>5. CASE s = 3
    BY <1>5
  <1>6. CASE s = 4
    BY <1>6
  <1>7. CASE s = 5
    BY <1>7
  <1>8. CASE s = 6
    BY <1>8
  <1> QED BY <1>3, <1>4, <1>5, <1>6, <1>7, <1>8

-------------------------------------------------------------------------------
(* Entering a stage *)

\* The team of the scheduler is the crew of the plan.
LEMMA TeamIsCrew ==
  ASSUME NEW t, slot >= 4 => verdict.target = t, slot \in Slots
  PROVE  Team = Crew(slot, t)
  BY DEF Team, TeamOf, Crew, Slots

\* Whatever a stage is given has been produced; a planned stage is given what
\* is handed off to it, and that is the latest of each dependency.
LEMMA StageGiven ==
  ASSUME TypeInv, at = "stage", NEW t \in RevisableRoles, PlanFor(t)
  PROVE  /\ Team = Crew(slot, t)
         /\ NewInputs \subseteq Edges /\ NewHandoffs \subseteq Edges
         /\ \A e \in NewInputs \cup NewHandoffs : e.slot = slot
         /\ slot # 4 => NewHandoffs = NewInputs
         /\ \A a \in Crew(slot, t) : \A d \in DependsOn[a] :
              [to |-> a, slot |-> slot, from |-> d, version |-> LatestBefore(slot, t)[d]] \in NewInputs
  <1> USE DEF RevisableRoles
  <1>1. /\ slot \in Slots /\ t \in Specialists
        /\ slot >= 4 => verdict.target = t
        /\ prior = LatestBefore(slot, t)
    BY DEF TypeInv, PlanFor
  <1>2. Team = Crew(slot, t)
    BY <1>1, TeamIsCrew
  <1>3. Team \subseteq Agents
    BY <1>1, <1>2, CrewOf
  <1>4. ASSUME NEW a \in Team PROVE InputFields(a) = DependsOn[a]
    BY <1>3, FieldsAreDependencies
  <1>5. ASSUME NEW a \in Team, NEW d \in DependsOn[a]
        PROVE  /\ a \in Agents /\ d \in Agents
               /\ prior[d] \in Slots
               /\ slot # 4 => Ref(d) = prior[d]
    <2>1. /\ a \in Agents /\ d \in Agents
          /\ prior[d] \in Slots
          /\ slot # 4 => prior[d] = IF slot = 5 /\ d = t THEN 4 ELSE IF slot = 6 THEN 5 ELSE Level(d)
          /\ slot = 6 => d = "synthesis"
      BY <1>1, <1>2, LatestOfDependency
    <2>2. Ref(d) = IF slot = 5 /\ d = verdict.target THEN 4
                   ELSE IF slot = 6 /\ d = "synthesis" THEN 5
                   ELSE Level(d)
      BY <2>1, PlannedLevel DEF Ref
    <2> QED BY <1>1, <2>1, <2>2
  <1>6. NewInputs = UNION {{Edge(a, d, prior[d]) : d \in DependsOn[a]} : a \in Team}
    BY <1>4 DEF NewInputs
  <1>7. ASSUME slot # 4 PROVE NewHandoffs = NewInputs
    BY <1>5, <1>6, <1>7 DEF NewHandoffs
  <1>8. \A e \in NewInputs : e \in Edges /\ e.slot = slot
    BY <1>1, <1>5, <1>6 DEF Edge, Edges
  <1>9. ASSUME slot = 4 PROVE \A e \in NewHandoffs : e \in Edges /\ e.slot = slot
    BY <1>1, <1>9 DEF NewHandoffs, Edge, Edges, Specialists, Agents, Slots
  <1>10. ASSUME NEW a \in Crew(slot, t), NEW d \in DependsOn[a]
         PROVE [to |-> a, slot |-> slot, from |-> d, version |-> LatestBefore(slot, t)[d]] \in NewInputs
    BY <1>1, <1>2, <1>6 DEF Edge
  <1> QED BY <1>2, <1>7, <1>8, <1>9, <1>10

-------------------------------------------------------------------------------
(* Typing *)

\* A verdict passes, or asks someone to revise, who may be unknown.
LEMMA VerdictCases ==
  \A v \in Verdicts : \/ v.decision = "PASS"
                      \/ v.decision = "REJECT" /\ v.target \in Agents \cup {"unknown"}
  <1> SUFFICES ASSUME NEW p \in ReviewPayloads
               PROVE  LET v == [decision |-> p.decision,
                                target   |-> IF p.decision = "PASS" THEN "none"
                                             ELSE IF p.target = "blank" THEN "design" ELSE p.target]
                      IN  \/ v.decision = "PASS"
                          \/ v.decision = "REJECT" /\ v.target \in Agents \cup {"unknown"}
    BY DEF Verdicts
  <1>1. /\ p.decision \in {"PASS", "REJECT"}
        /\ p.target \in Agents \cup {"unknown", "blank"}
    BY DEF ReviewPayloads
  <1> QED BY <1>1 DEF Agents

\* Policies have the numbers their constructors accept.
LEMMA PolicyNumbers ==
  ASSUME TypeInv
  PROVE  /\ policy.maxCalls \in Nat /\ policy.maxRevisions \in Nat
         /\ policy.tokens.runInput \in Nat /\ policy.tokens.runOutput \in Nat
         /\ policy.tokens.runTotal \in Nat /\ policy.tokens.reserve \in Nat
  BY PolicyAssumption DEF TypeInv, ValidPolicy, ValidTokens

\* A run about to be planned is type correct.
LEMMA TypeInit == Init => TypeInv
  <1> SUFFICES ASSUME Init PROVE TypeInv
    OBVIOUS
  <1>1. ValidPolicy(policy) /\ NoUsage \in Usages
    BY PolicyAssumption DEF Init
  <1>2. /\ 0 \in 0..policy.maxCalls /\ 0 \in 0..policy.maxRevisions + 1
        /\ 0 \in 0..policy.tokens.runInput /\ 0 \in 0..policy.tokens.runOutput
    BY <1>1 DEF ValidPolicy, ValidTokens
  <1>3. reply \in [Agents -> [code : Codes \cup {"none", "ok", "AGENT_FAILED"}, usage : Usages]]
    BY <1>1 DEF Init, NoReply, Reply
  <1>4. /\ policy \in Policies /\ phase \in Phases /\ at \in Points /\ late \in BOOLEAN
        /\ verdict \in Verdicts \cup {NoVerdict}
        /\ error \in Codes \cup {"none"}
        /\ exit \in {"none", "completed", "rejected", "failed_runtime"}
    BY DEF Init, Phases, Points, NoVerdict
  <1>5. /\ slot \in Slots /\ seen \subseteq Agents /\ stages \subseteq Slots
        /\ inputs \subseteq Edges /\ handoffs \subseteq Edges
        /\ prior \in [Agents -> Slots \cup {Never}]
        /\ round \in 0..MaxTotalRounds
    BY DEF Init, Slots, Never, MaxTotalRounds
  <1>6. thread \in [Agents -> {"idle", "queued", "executing", "done", "raised", "cancelled"}]
    BY DEF Init, Idle
  <1>7. /\ calls \in 0..policy.maxCalls /\ revisions \in 0..policy.maxRevisions + 1
        /\ spent.input \in 0..policy.tokens.runInput /\ spent.output \in 0..policy.tokens.runOutput
    BY <1>2 DEF Init, NoUsage
  <1> QED BY <1>3, <1>4, <1>5, <1>6, <1>7 DEF TypeInv

\* Empty futures have no code and no usage.
LEMMA NoReplyType ==
  NoReply \in [Agents -> [code : Codes \cup {"none", "ok", "AGENT_FAILED"}, usage : Usages]]
  BY PolicyAssumption DEF NoReply, Reply

\* A future that raises carries one of the runner's codes.
LEMMA RaiseType ==
  ASSUME TypeInv, NEW a \in Agents, NEW code \in Codes, Raise(a, code)
  PROVE  /\ thread' \in [Agents -> {"idle", "queued", "executing", "done", "raised", "cancelled"}]
         /\ reply' \in [Agents -> [code : Codes \cup {"none", "ok", "AGENT_FAILED"}, usage : Usages]]
  BY PolicyAssumption DEF Raise, Reply, TypeInv

\* The guard admits no call beyond the budget.
LEMMA TypeBegin ==
  ASSUME TypeInv, NEW a \in Agents, Begin(a)
  PROVE  TypeInv'
  <1>1. /\ UNCHANGED poolFrame /\ spent' = spent
        /\ UNCHANGED controlVars /\ UNCHANGED dataVars
    BY DEF Begin, poolFrame
  <1>2. calls' \in 0..policy.maxCalls
    BY PolicyNumbers DEF Begin, TypeInv
  <1>3. /\ thread' \in [Agents -> {"idle", "queued", "executing", "done", "raised", "cancelled"}]
        /\ reply' \in [Agents -> [code : Codes \cup {"none", "ok", "AGENT_FAILED"}, usage : Usages]]
    <2>1. CASE Raise(a, "TIME_BUDGET_EXCEEDED") \/ Raise(a, "CALL_BUDGET_EXCEEDED")
      BY <2>1, RaiseType DEF Codes
    <2>2. CASE thread' = [thread EXCEPT ![a] = "executing"] /\ reply' = reply
      BY <2>2 DEF TypeInv
    <2> QED BY <2>1, <2>2 DEF Begin
  <1> QED BY <1>1, <1>2, <1>3 DEF TypeInv, poolFrame, controlVars, dataVars

\* ... and no result beyond the tokens of the run.
LEMMA TypeReturn ==
  ASSUME TypeInv, NEW a \in Agents, Return(a)
  PROVE  TypeInv'
  <1>1. /\ UNCHANGED poolFrame /\ calls' = calls
        /\ UNCHANGED controlVars /\ UNCHANGED dataVars
    BY DEF Return, poolFrame
  <1> DEFINE Good == /\ thread' \in [Agents -> {"idle", "queued", "executing", "done", "raised", "cancelled"}]
                     /\ reply' \in [Agents -> [code : Codes \cup {"none", "ok", "AGENT_FAILED"}, usage : Usages]]
                     /\ spent'.input \in 0..policy.tokens.runInput
                     /\ spent'.output \in 0..policy.tokens.runOutput
  <1>2. Good
    <2>1. CASE \E e \in Envelopes :
                 /\ ~TokensRefused(e.usage)
                 /\ thread' = [thread EXCEPT ![a] = "done"]
                 /\ reply' = [reply EXCEPT ![a] = e]
                 /\ spent' = [input  |-> spent.input + e.usage.input,
                              output |-> spent.output + e.usage.output]
      <3>1. PICK e \in Envelopes :
                 /\ ~TokensRefused(e.usage)
                 /\ thread' = [thread EXCEPT ![a] = "done"]
                 /\ reply' = [reply EXCEPT ![a] = e]
                 /\ spent' = [input  |-> spent.input + e.usage.input,
                              output |-> spent.output + e.usage.output]
        BY <2>1
      <3>2. /\ e \in [code : Codes \cup {"none", "ok", "AGENT_FAILED"}, usage : Usages]
            /\ e.usage \in Usages
        BY PolicyAssumption DEF Envelopes, Reply, Codes
      <3>3. e.usage.input \in Nat /\ e.usage.output \in Nat
        BY <3>2, PolicyAssumption
      <3>4. /\ spent.input + e.usage.input \in 0..policy.tokens.runInput
            /\ spent.output + e.usage.output \in 0..policy.tokens.runOutput
        BY <3>1, <3>3, PolicyNumbers DEF TypeInv, TokensRefused
      <3> QED BY <3>1, <3>2, <3>4 DEF TypeInv
    <2>2. CASE (Raise(a, "TOKEN_BUDGET_EXCEEDED") \/ Raise(a, "MULTI_AGENT_RUN_FAILED")) /\ spent' = spent
      BY <2>2, RaiseType DEF Codes, TypeInv
    <2> QED BY <2>1, <2>2 DEF Return
  <1> QED BY <1>1, <1>2 DEF TypeInv, poolFrame, controlVars, dataVars

\* Every action assigns values of the variables' types.
LEMMA TypeStep == IInv /\ [Next]_vars => TypeInv'
  <1> SUFFICES ASSUME IInv, [Next]_vars PROVE TypeInv'
    OBVIOUS
  <1>0. TypeInv /\ ControlInv /\ PoolInv
    BY DEF IInv
  <1>1. ASSUME NEW a \in Agents, Begin(a) PROVE TypeInv'
    BY <1>0, <1>1, TypeBegin
  <1>2. ASSUME NEW a \in Agents, Return(a) PROVE TypeInv'
    BY <1>0, <1>2, TypeReturn
  <1> USE <1>0 DEF TypeInv, vars, controlVars, poolVars, dataVars, guardVars,
                   schedulerFrame, reviewFrame, endFrame
  <1>3. ASSUME NEW a \in Agents, Cancel(a) PROVE TypeInv'
    BY <1>3 DEF Cancel
  <1>4. CASE StartPlanning
    BY <1>4 DEF StartPlanning, Phases, Points
  <1>5. CASE EnterStage
    <2>1. PICK t \in RevisableRoles : PlanFor(t)
      BY DEF IInv, PlanInv
    <2>2. /\ Team = Crew(slot, t) /\ NewInputs \subseteq Edges /\ NewHandoffs \subseteq Edges
      BY <1>5, <2>1, StageGiven DEF EnterStage
    <2>3. /\ handoffs' \subseteq Edges /\ inputs' \subseteq Edges
      BY <1>5, <2>2 DEF EnterStage
    <2>4. thread' \in [Agents -> {"idle", "queued", "executing", "done", "raised", "cancelled"}]
      BY <1>5 DEF EnterStage, Submitted
    <2>5. phase' \in Phases
      BY <1>5 DEF EnterStage, PhaseOf, Phases, Slots
    <2>6. at' \in Points /\ error' \in Codes \cup {"none"} /\ UNCHANGED <<slot, exit>>
      BY <1>5 DEF EnterStage, Fail, Points, Codes
    <2>7. UNCHANGED <<policy, reply, seen, prior, verdict, stages, tally, guardVars, late>>
      BY <1>5 DEF EnterStage
    <2> QED BY <2>3, <2>4, <2>5, <2>6, <2>7
  <1>6. ASSUME NEW a \in Agents, Collect(a) PROVE TypeInv'
    BY <1>6 DEF Collect, Drain, Points, PoolInv
  <1>7. CASE Timeout
    BY <1>7 DEF Timeout, Drain, Points, Codes
  <1>8. CASE Drained
    BY <1>8, NoReplyType DEF Drained, Points, Idle
  <1>9. CASE StageDone
    <2>1. /\ UNCHANGED <<policy, phase, inputs, handoffs, guardVars, late>>
          /\ thread' = Idle /\ reply' = NoReply /\ seen' = {}
      BY <1>9 DEF StageDone
    <2>2. CASE /\ \E a \in Team : reply[a].code # "ok" /\ Fail(StageError(reply[a].code))
               /\ UNCHANGED <<prior, verdict, stages, tally>>
      BY <2>1, <2>2, NoReplyType DEF Fail, StageError, Codes, Points, Idle
    <2>3. CASE /\ prior' = [a \in Agents |-> IF a \in Team THEN slot ELSE prior[a]]
               /\ stages' = stages \cup {slot}
               /\ IF slot \in {3, 6} THEN verdict' \in Verdicts ELSE UNCHANGED verdict
               /\ slot' = IF slot \in {3, 6} THEN slot ELSE slot + 1
               /\ at' = IF slot \in {3, 6} THEN "review" ELSE "stage"
               /\ UNCHANGED <<error, exit>>
      <3>1. slot' \in Slots /\ at' \in Points /\ verdict' \in Verdicts \cup {NoVerdict}
        BY <2>3 DEF Slots, Points
      <3>2. prior' \in [Agents -> Slots \cup {Never}] /\ stages' \subseteq Slots
        BY <2>3
      <3> QED BY <2>1, <2>3, <3>1, <3>2, NoReplyType DEF Idle
    <2> QED BY <1>9, <2>2, <2>3 DEF StageDone
  <1>10. CASE Accept
    BY <1>10 DEF Accept, Finish, Phases, Points
  <1>11. CASE Reject
    <2>1. revisions = 0 /\ round = 0
      BY <1>11 DEF Reject, ControlInv
    <2>2. revisions' \in 0..policy.maxRevisions + 1 /\ round' \in 0..MaxTotalRounds
      BY <1>11, <2>1, PolicyNumbers DEF Reject, MaxTotalRounds
    <2>3. /\ phase' \in Phases /\ at' \in Points /\ slot' \in Slots
          /\ error' \in Codes \cup {"none"}
      BY <1>11 DEF Reject, Fail, Finish, Phases, Points, Slots, Codes
    <2>4. UNCHANGED <<policy, thread, reply, seen, prior, inputs, handoffs, verdict, stages,
                      calls, spent, late, exit>>
      BY <1>11 DEF Reject
    <2> QED BY <2>2, <2>3, <2>4
  <1>12. CASE RejectAgain
    BY <1>12 DEF RejectAgain, Finish, Phases, Points
  <1>13. CASE PersistFailure
    BY <1>13 DEF PersistFailure, Phases, Points
  <1>14. CASE Persist
    BY <1>14 DEF Persist, Points
  <1>15. CASE DeadlinePasses
    BY <1>15 DEF DeadlinePasses
  <1>16. CASE UNCHANGED vars
    BY <1>16
  <1> QED BY <1>1, <1>2, <1>3, <1>4, <1>5, <1>6, <1>7, <1>8, <1>9, <1>10, <1>11, <1>12,
             <1>13, <1>14, <1>15, <1>16
          DEF Next, Main

-------------------------------------------------------------------------------
(* The engine and the main thread *)

\* A worker changes nothing the main thread or the engine owns.
LEMMA PoolFrame ==
  ASSUME NEW a \in Agents, Begin(a) \/ Return(a) \/ Cancel(a)
  PROVE  UNCHANGED <<phase, slot, exit, error, at, seen, dataVars, revisions, round>>
  BY DEF Begin, Return, Cancel, poolFrame, schedulerFrame, controlVars, guardVars

\* The engine is in the state of the slot the main thread is at, and the run
\* counts one revision from slot 4 on.
LEMMA ControlStep == IInv /\ [Next]_vars => ControlInv'
  <1> SUFFICES ASSUME IInv, [Next]_vars PROVE ControlInv'
    OBVIOUS
  <1>0. TypeInv /\ ControlInv
    BY DEF IInv
  <1>1. ASSUME NEW a \in Agents, Begin(a) \/ Return(a) \/ Cancel(a) PROVE ControlInv'
    BY <1>0, <1>1, PoolFrame DEF ControlInv, PhaseOf, PhaseBefore
  <1>2. CASE StartPlanning
    BY <1>0, <1>2 DEF StartPlanning, ControlInv, PhaseBefore, guardVars
  <1>3. CASE EnterStage
    <2>1. slot \in Slots /\ phase' = PhaseOf(slot) /\ UNCHANGED <<slot, exit, round, revisions>>
      BY <1>0, <1>3 DEF EnterStage, Fail, TypeInv, guardVars
    <2>2. PhaseOf(slot) \notin {"created", "planning", "completed", "failed"}
      BY <2>1 DEF PhaseOf, Slots
    <2>3. at = "stage" /\ (at' = "failing" \/ (at' = "waiting" /\ error' = error))
      BY <1>3 DEF EnterStage, Fail
    <2> QED BY <1>0, <2>1, <2>2, <2>3 DEF ControlInv
  <1>4. CASE (\E a \in Agents : Collect(a)) \/ Timeout
    <2>1. /\ at = "waiting" /\ at' \in {"waiting", "draining"}
          /\ at' = "waiting" => error' = error
          /\ UNCHANGED <<phase, slot, exit, round, revisions>>
      BY <1>4 DEF Collect, Timeout, Drain, schedulerFrame, guardVars
    <2> QED BY <1>0, <2>1 DEF ControlInv, PhaseOf
  <1>5. CASE Drained
    <2>1. slot \in Slots /\ at = "draining" /\ at' = "failing"
          /\ UNCHANGED <<phase, slot, exit, error, round, revisions>>
      BY <1>0, <1>5 DEF Drained, schedulerFrame, guardVars, TypeInv
    <2>2. PhaseOf(slot) \notin {"created", "planning", "completed", "failed"}
      BY <2>1 DEF PhaseOf, Slots
    <2> QED BY <1>0, <2>1, <2>2 DEF ControlInv
  <1>6. CASE StageDone
    <2>1. slot \in Slots /\ at = "waiting" /\ UNCHANGED <<phase, exit, round, revisions>>
      BY <1>0, <1>6 DEF StageDone, Fail, guardVars, TypeInv
    <2>2. \/ at' = "failing" /\ slot' = slot
          \/ /\ slot' = IF slot \in {3, 6} THEN slot ELSE slot + 1
             /\ at' = IF slot \in {3, 6} THEN "review" ELSE "stage"
             /\ error' = error
      BY <1>6 DEF StageDone, Fail
    <2>3. PhaseOf(slot) \notin {"created", "planning", "completed", "failed"}
      BY <2>1 DEF PhaseOf, Slots
    <2>4. slot \in {3, 6} => PhaseOf(slot) = "reviewing"
      BY DEF PhaseOf
    <2>5. slot \notin {3, 6} => PhaseBefore(slot + 1) = PhaseOf(slot)
      BY <2>1 DEF PhaseOf, PhaseBefore, Slots
    <2> QED BY <1>0, <2>1, <2>2, <2>3, <2>4, <2>5 DEF ControlInv, Slots
  <1>7. CASE Accept \/ RejectAgain
    BY <1>0, <1>7 DEF Accept, RejectAgain, Finish, reviewFrame, ControlInv
  <1>8. CASE Reject
    <2>1. revisions = 0 /\ round = 0 /\ slot = 3 /\ at = "review" /\ phase = "reviewing"
      BY <1>0, <1>8 DEF Reject, ControlInv
    <2> QED BY <1>0, <1>8, <2>1 DEF Reject, Fail, Finish, reviewFrame, ControlInv, PhaseBefore
  <1>9. CASE PersistFailure \/ Persist
    BY <1>0, <1>9 DEF PersistFailure, Persist, endFrame, guardVars, ControlInv
  <1>10. CASE UNCHANGED <<controlVars, revisions, round>>
    BY <1>0, <1>10 DEF controlVars, ControlInv, PhaseOf, PhaseBefore
  <1> QED BY <1>1, <1>2, <1>3, <1>4, <1>5, <1>6, <1>7, <1>8, <1>9, <1>10
          DEF Next, Main, DeadlinePasses, vars, guardVars

\* Futures exist only from the submission of a stage to the moment the
\* scheduler gives control back.
LEMMA PoolStep == IInv /\ [Next]_vars => PoolInv'
  <1> SUFFICES ASSUME IInv, [Next]_vars PROVE PoolInv'
    OBVIOUS
  <1> USE DEF PoolInv
  <1>0. TypeInv /\ ControlInv /\ PoolInv
    BY DEF IInv
  <1>1. ASSUME NEW a \in Agents, Begin(a) \/ Return(a) \/ Cancel(a) PROVE PoolInv'
    <2>1. at' = at /\ thread[a] \in {"queued", "executing"}
      BY <1>1, PoolFrame DEF Begin, Return, Cancel
    <2>2. thread # Idle
      BY <2>1 DEF Idle
    <2>3. at' \in {"waiting", "draining"}
      BY <1>0, <2>1, <2>2
    <2>4. \A b \in Agents : thread'[b] = "raised" => reply'[b].code \in Codes
      BY <1>0, <1>1 DEF Begin, Return, Cancel, Raise, Reply, Codes, TypeInv
    <2> QED BY <2>3, <2>4
  <1>2. CASE EnterStage
    <2>1. at = "stage" /\ UNCHANGED reply
      BY <1>2 DEF EnterStage
    <2>2. \/ at' = "waiting" /\ thread' = Submitted
          \/ at' = "failing" /\ thread' = thread
      BY <1>2 DEF EnterStage, Fail
    <2> QED BY <1>0, <2>1, <2>2 DEF Submitted, Idle
  <1>3. ASSUME UNCHANGED <<thread, reply>>, at' \in {"waiting", "draining"} \/ at \notin {"waiting", "draining"}
        PROVE  PoolInv'
    BY <1>0, <1>3
  <1>4. CASE Drained \/ StageDone
    BY <1>4 DEF Drained, StageDone, Idle
  <1>5. CASE StartPlanning \/ (\E a \in Agents : Collect(a)) \/ Timeout
    BY <1>3, <1>5
    DEF StartPlanning, Collect, Timeout, Drain, poolVars
  <1>6. CASE Accept \/ Reject \/ RejectAgain \/ PersistFailure \/ Persist
    BY <1>3, <1>6
    DEF Accept, Reject, RejectAgain, PersistFailure, Persist, reviewFrame, endFrame, poolVars
  <1>7. CASE UNCHANGED <<controlVars, poolVars>>
    BY <1>0, <1>7 DEF controlVars, poolVars
  <1> QED BY <1>1, <1>2, <1>4, <1>5, <1>6, <1>7
          DEF Next, Main, DeadlinePasses, vars

\* A run is finished by an acceptance, or by a rejection that buys no revision.
LEMMA ReviewStep == IInv /\ [Next]_vars => ReviewInv'
  <1> SUFFICES ASSUME IInv, [Next]_vars PROVE ReviewInv'
    OBVIOUS
  <1> USE DEF ReviewInv
  <1>0. TypeInv /\ ControlInv /\ ReviewInv
    BY DEF IInv
  <1>1. ASSUME NEW a \in Agents, Begin(a) \/ Return(a) \/ Cancel(a) PROVE ReviewInv'
    BY <1>0, <1>1, PoolFrame DEF dataVars
  <1>2. CASE StageDone
    BY <1>0, <1>2 DEF StageDone, Fail, ControlInv
  <1>3. ASSUME at \notin {"review", "persisting", "ended"}, UNCHANGED exit,
               at' \notin {"review", "persisting"}
        PROVE  ReviewInv'
    BY <1>0, <1>3 DEF ControlInv
  <1>4. CASE StartPlanning \/ EnterStage \/ (\E a \in Agents : Collect(a)) \/ Timeout \/ Drained
    BY <1>3, <1>4
    DEF StartPlanning, EnterStage, Fail, Collect, Timeout, Drain, Drained, schedulerFrame
  <1>5. CASE Accept \/ RejectAgain
    BY <1>0, <1>5 DEF Accept, RejectAgain, Finish, reviewFrame, dataVars, ControlInv
  <1>6. CASE Reject
    <2>1. at = "review" /\ verdict.decision = "REJECT" /\ UNCHANGED <<verdict, exit>>
      BY <1>6 DEF Reject, reviewFrame, dataVars
    <2>2. at' \in {"failing", "stage"} \/ (at' = "persisting" /\ verdict.target \notin RevisableRoles)
      BY <1>6 DEF Reject, Fail, Finish
    <2> QED BY <1>0, <2>1, <2>2 DEF ControlInv
  <1>7. CASE PersistFailure
    BY <1>0, <1>7 DEF PersistFailure, endFrame, dataVars
  <1>8. CASE Persist
    <2>1. at = "persisting" /\ at' = "ended" /\ UNCHANGED <<verdict, slot, round>>
      BY <1>8 DEF Persist, endFrame, dataVars, guardVars
    <2>2. slot = 6 => round = 1
      BY <1>0 DEF ControlInv
    <2>3. exit' \in {"failed_runtime", IF RevisionExhausted THEN "rejected" ELSE "completed"}
      BY <1>8 DEF Persist
    <2>4. RevisionExhausted <=> verdict.decision = "REJECT"
      BY <1>0, <2>1, <2>2 DEF RevisionExhausted, MaxTotalRounds
    <2> QED BY <1>0, <2>1, <2>3, <2>4
  <1>9. CASE UNCHANGED <<controlVars, verdict>>
    BY <1>0, <1>9 DEF controlVars
  <1> QED BY <1>1, <1>2, <1>4, <1>5, <1>6, <1>7, <1>8, <1>9
          DEF Next, Main, DeadlinePasses, vars, dataVars

-------------------------------------------------------------------------------
(* Handoffs and inputs *)

\* The registers of handoffs and inputs are only written when a slot is entered.
LEMMA DataFrame ==
  ASSUME [Next]_vars, ~ EnterStage
  PROVE  UNCHANGED <<inputs, handoffs>>
  BY DEF Next, Main, StartPlanning, Begin, Return, Cancel, Collect, Timeout, Drained, StageDone,
         Accept, Reject, RejectAgain, PersistFailure, Persist, DeadlinePasses,
         poolFrame, schedulerFrame, reviewFrame, endFrame, dataVars, vars

\* The main thread only moves forward through the slots, and never back to the
\* entry of the slot it is in.
LEMMA SlotsAdvance ==
  ASSUME TypeInv, [Next]_vars
  PROVE  \/ slot' = slot /\ (at' = "stage" => at \in {"stage", "plan"})
         \/ slot' > slot /\ slot' \in Slots
  <1>1. slot \in Slots
    BY DEF TypeInv
  <1>2. ASSUME NEW a \in Agents, Begin(a) \/ Return(a) \/ Cancel(a)
        PROVE  UNCHANGED <<slot, at>>
    BY <1>2, PoolFrame
  <1>3. CASE StageDone
    BY <1>1, <1>3 DEF StageDone, Fail, Slots
  <1>4. CASE Reject
    BY <1>1, <1>4 DEF Reject, Fail, Finish, Slots
  <1>5. CASE ~ StageDone /\ ~ Reject /\ Main
    BY <1>5
    DEF Main, StartPlanning, EnterStage, Fail, Collect, Timeout, Drain, Drained, Accept,
        RejectAgain, Finish, PersistFailure, Persist, schedulerFrame, endFrame
  <1> QED BY <1>2, <1>3, <1>4, <1>5
          DEF Next, DeadlinePasses, vars, controlVars

\* A slot is entered once: nothing is handed off or given in it before, and what
\* is given then is what is handed off.
LEMMA HistoryStep == IInv /\ [Next]_vars => HistoryInv'
  <1> SUFFICES ASSUME IInv, [Next]_vars PROVE HistoryInv'
    OBVIOUS
  <1>0. TypeInv /\ HistoryInv
    BY DEF IInv
  <1>1. CASE ~ EnterStage
    <2>1. UNCHANGED <<inputs, handoffs>>
      BY <1>1, DataFrame
    <2>2. \/ slot' = slot /\ (at' = "stage" => at \in {"stage", "plan"})
          \/ slot' > slot /\ slot' \in Slots
      BY <1>0, SlotsAdvance
    <2>3. \A e \in inputs \cup handoffs : e.slot \in Int
      BY <1>0 DEF TypeInv, Edges, Slots
    <2>4. at' = "plan" => at = "plan"
      BY DEF Next, Main, StartPlanning, EnterStage, Fail, Begin, Return, Cancel, Collect, Timeout,
             Drain, Drained, StageDone, Accept, Reject, RejectAgain, Finish, PersistFailure,
             Persist, DeadlinePasses, poolFrame, schedulerFrame, controlVars, vars
    <2>5. InputsAreHandedOff'
      BY <1>0, <2>1 DEF HistoryInv, InputsAreHandedOff
    <2>6. slot \in Int /\ slot' \in Int
      BY <1>0, <2>2 DEF TypeInv, Slots
    <2>7. \A e \in inputs' \cup handoffs' : e.slot < slot' \/ (e.slot = slot' /\ at' # "stage")
      <3> SUFFICES ASSUME NEW e \in inputs \cup handoffs
                   PROVE  e.slot < slot' \/ (e.slot = slot' /\ at' # "stage")
        BY <2>1
      <3>1. at # "plan" /\ (e.slot < slot \/ (e.slot = slot /\ at # "stage"))
        BY <1>0 DEF HistoryInv
      <3> QED BY <2>2, <2>3, <2>6, <3>1
    <2> QED BY <1>0, <2>1, <2>4, <2>5, <2>7 DEF HistoryInv
  <1>2. CASE EnterStage
    <2>1. PICK t \in RevisableRoles : PlanFor(t)
      BY DEF IInv, PlanInv
    <2>2. /\ \A e \in NewInputs \cup NewHandoffs : e.slot = slot
          /\ slot # 4 => NewHandoffs = NewInputs
      BY <1>0, <1>2, <2>1, StageGiven DEF EnterStage
    <2>3. \A e \in inputs \cup handoffs : e.slot \in Int /\ e.slot < slot
      BY <1>0, <1>2 DEF EnterStage, HistoryInv, TypeInv, Edges, Slots
    <2>4. slot \in Int /\ slot' = slot /\ at' \in {"waiting", "failing"}
      BY <1>0, <1>2 DEF EnterStage, Fail, TypeInv, Slots
    <2>5. \/ handoffs' = handoffs \cup NewHandoffs /\ inputs' = inputs \cup NewInputs
          \/ handoffs' \in {handoffs, handoffs \cup NewHandoffs} /\ inputs' = inputs
      BY <1>2 DEF EnterStage
    <2>6. \A e \in inputs' \cup handoffs' : e.slot < slot' \/ (e.slot = slot' /\ at' # "stage")
      BY <2>2, <2>3, <2>4, <2>5
    <2>7. ASSUME NEW s \in Slots \ {4}, NEW i \in inputs', i.slot = s
          PROVE  {e \in inputs' : e.slot = s} = {h \in handoffs' : h.slot = s}
      <3>1. CASE s # slot
        <4>1. i \in inputs
          BY <2>2, <2>5, <2>7, <3>1
        <4>2. {e \in inputs' : e.slot = s} = {e \in inputs : e.slot = s}
          BY <2>2, <2>5, <3>1
        <4>3. {h \in handoffs' : h.slot = s} = {h \in handoffs : h.slot = s}
          BY <2>2, <2>5, <3>1
        <4> QED BY <1>0, <2>7, <4>1, <4>2, <4>3 DEF HistoryInv, InputsAreHandedOff
      <3>2. CASE s = slot
        <4>1. handoffs' = handoffs \cup NewHandoffs /\ inputs' = inputs \cup NewInputs
          BY <2>3, <2>5, <2>7, <3>2
        <4>2. {e \in inputs' : e.slot = s} = NewInputs
          BY <2>2, <2>3, <3>2, <4>1
        <4>3. {h \in handoffs' : h.slot = s} = NewHandoffs
          BY <2>2, <2>3, <3>2, <4>1
        <4> QED BY <2>2, <2>7, <3>2, <4>2, <4>3
      <3> QED BY <3>1, <3>2
    <2>8. InputsAreHandedOff'
      BY <2>7 DEF InputsAreHandedOff
    <2> QED BY <2>4, <2>6, <2>8 DEF HistoryInv
  <1> QED BY <1>1, <1>2

-------------------------------------------------------------------------------
(* The latest outputs *)

\* The outputs of a slot become the latest of its crew.
LEMMA LatestAfter ==
  ASSUME NEW s \in Slots, NEW t \in Specialists
  PROVE  [a \in Agents |-> IF a \in Crew(s, t) THEN s ELSE LatestBefore(s, t)[a]]
           = LatestBefore(s + 1, t)
  <1> SUFFICES ASSUME NEW a \in Agents
               PROVE  (IF a \in Crew(s, t) THEN s ELSE LatestBefore(s, t)[a])
                        = LatestBefore(s + 1, t)[a]
    BY DEF LatestBefore
  <1> USE LatestValue, CrewOf DEF Level, Specialists, Slots, Agents
  <1>1. CASE s \in {0, 1}
    BY <1>1
  <1>2. CASE s = 2
    BY <1>2
  <1>3. CASE s = 3
    BY <1>3
  <1>4. CASE s = 4
    BY <1>4
  <1>5. CASE s = 5
    BY <1>5
  <1>6. CASE s = 6
    BY <1>6
  <1> QED BY <1>1, <1>2, <1>3, <1>4, <1>5, <1>6

\* What was given stays given.
LEMMA GivenStays ==
  ASSUME NEW s, NEW t, NEW given, NEW more, Given(s, t, given), given \subseteq more
  PROVE  Given(s, t, more)
  BY DEF Given

\* Up to the first review what was given does not depend on the revision.
LEMMA GivenEarly ==
  ASSUME NEW s \in 0..3, NEW t, NEW u, NEW given, Given(s, t, given)
  PROVE  Given(s, u, given)
  <1>1. LatestBefore(s, t) = LatestBefore(s, u)
    BY LatestEarly
  <1>2. Crew(s, t) = Crew(s, u)
    BY DEF Crew
  <1> QED BY <1>1, <1>2 DEF Given

\* The plan is kept by a step that hands nothing to anyone new and neither enters
\* a stage nor ends one.
LEMMA PlanStays ==
  ASSUME NEW t \in RevisableRoles, TypeInv, ControlInv, PlanFor(t), inputs \subseteq inputs',
         prior' = prior, verdict' = verdict, slot' = slot, exit' = exit,
         \/ at' = at
         \/ at = "waiting" /\ at' = "draining"
         \/ at' = "failing"
  PROVE  PlanFor(t)'
  <1>1. \A s \in Slots : Given(s, t, inputs) => Given(s, t, inputs')
    BY GivenStays
  <1>2. slot \in Slots
    BY DEF TypeInv
  <1>3. CASE at' = at
    <2>1. at \in {"stage", "waiting", "draining"} /\ slot >= 4 => verdict.target = t
      BY DEF PlanFor
    <2>2. at \in {"plan", "stage", "waiting", "draining"} =>
            prior = LatestBefore(slot, t) /\ \A s \in Slots : s < slot => Given(s, t, inputs')
      BY <1>1 DEF PlanFor
    <2>3. at = "waiting" => Given(slot, t, inputs')
      BY <1>1, <1>2 DEF PlanFor
    <2>4. at \in {"review", "persisting"} \/ exit \in {"completed", "rejected"} =>
            prior = LatestBefore(slot + 1, t) /\ \A s \in Slots : s <= slot => Given(s, t, inputs')
      BY <1>1 DEF PlanFor
    <2> QED BY <1>3, <2>1, <2>2, <2>3, <2>4 DEF PlanFor
  <1>4. CASE at = "waiting" /\ at' = "draining"
    <2>1. exit = "none"
      BY <1>4 DEF ControlInv, TypeInv
    <2>2. slot >= 4 => verdict.target = t
      BY <1>4 DEF PlanFor
    <2>3. prior = LatestBefore(slot, t) /\ \A s \in Slots : s < slot => Given(s, t, inputs')
      BY <1>1, <1>4 DEF PlanFor
    <2> QED BY <1>4, <2>1, <2>2, <2>3 DEF PlanFor
  <1>5. CASE at' = "failing"
    <2>1. exit \in {"completed", "rejected"} =>
            prior = LatestBefore(slot + 1, t) /\ \A s \in Slots : s <= slot => Given(s, t, inputs')
      BY <1>1 DEF PlanFor
    <2> QED BY <1>5, <2>1 DEF PlanFor
  <1> QED BY <1>3, <1>4, <1>5

\* Every execution so far was given the latest outputs of its time, and in the
\* end nothing later was produced than what was used.
LEMMA PlanStep == IInv /\ [Next]_vars => PlanInv'
  <1> SUFFICES ASSUME IInv, [Next]_vars, NEW t \in RevisableRoles, PlanFor(t) PROVE PlanInv'
    BY DEF IInv, PlanInv
  <1>0. TypeInv /\ ControlInv /\ t \in Specialists /\ slot \in Slots
    BY DEF IInv, RevisableRoles, TypeInv
  <1>1. inputs \subseteq inputs'
    BY DataFrame DEF EnterStage
  <1>2. \A s \in Slots : Given(s, t, inputs) => Given(s, t, inputs')
    BY <1>1, GivenStays
  <1>3. ASSUME NEW a \in Agents, Begin(a) \/ Return(a) \/ Cancel(a) PROVE PlanFor(t)'
    <2>1. prior' = prior /\ verdict' = verdict /\ slot' = slot /\ exit' = exit /\ at' = at
      BY <1>3, PoolFrame DEF dataVars
    <2> QED BY <1>0, <1>1, <2>1, PlanStays
  <1>4. ASSUME (\E a \in Agents : Collect(a)) \/ Timeout \/ Drained PROVE PlanFor(t)'
    <2>1. prior' = prior /\ verdict' = verdict /\ slot' = slot /\ exit' = exit
      BY <1>4 DEF Collect, Timeout, Drain, Drained, schedulerFrame, dataVars
    <2>2. at' = at \/ (at = "waiting" /\ at' = "draining") \/ at' = "failing"
      BY <1>4 DEF Collect, Timeout, Drain, Drained, schedulerFrame
    <2> QED BY <1>0, <1>1, <2>1, <2>2, PlanStays
  <1>5. ASSUME StartPlanning PROVE PlanFor(t)'
    <2>1. at = "plan" /\ at' = "stage" /\ prior' = prior /\ slot' = slot /\ exit' = exit
      BY <1>5 DEF StartPlanning, dataVars
    <2>2. slot = 0 /\ exit = "none"
      BY <1>0, <2>1 DEF ControlInv, TypeInv
    <2>3. prior = LatestBefore(slot, t) /\ \A s \in Slots : s < slot => Given(s, t, inputs')
      BY <1>2, <2>1 DEF PlanFor
    <2> QED BY <2>1, <2>2, <2>3 DEF PlanFor
  <1>6. ASSUME EnterStage PROVE PlanFor(t)'
    <2>1. prior' = prior /\ verdict' = verdict /\ slot' = slot /\ exit' = exit /\ at = "stage"
      BY <1>6 DEF EnterStage, Fail
    <2>2. CASE at' = "failing"
      BY <1>0, <1>1, <2>1, <2>2, PlanStays
    <2>3. CASE at' = "waiting" /\ inputs' = inputs \cup NewInputs
      <3>1. exit = "none"
        BY <1>0, <2>1 DEF ControlInv, TypeInv
      <3>2. \A a \in Crew(slot, t) : \A d \in DependsOn[a] :
              [to |-> a, slot |-> slot, from |-> d, version |-> LatestBefore(slot, t)[d]] \in NewInputs
        BY <1>0, <2>1, StageGiven
      <3>3. Given(slot, t, inputs')
        BY <2>3, <3>2 DEF Given
      <3>4. slot >= 4 => verdict.target = t
        BY <2>1 DEF PlanFor
      <3>5. prior = LatestBefore(slot, t) /\ \A s \in Slots : s < slot => Given(s, t, inputs')
        BY <1>2, <2>1 DEF PlanFor
      <3> QED BY <2>1, <2>3, <3>1, <3>3, <3>4, <3>5 DEF PlanFor
    <2> QED BY <1>6, <2>2, <2>3 DEF EnterStage, Fail
  <1>7. ASSUME StageDone PROVE PlanFor(t)'
    <2>1. at = "waiting" /\ exit' = exit /\ inputs' = inputs
      BY <1>7 DEF StageDone, Fail
    <2>2. exit = "none"
      BY <1>0, <2>1 DEF ControlInv, TypeInv
    <2>3. CASE at' = "failing" /\ UNCHANGED <<prior, verdict, slot>>
      BY <1>0, <1>1, <2>1, <2>3, PlanStays
    <2>4. CASE /\ prior' = [a \in Agents |-> IF a \in Team THEN slot ELSE prior[a]]
               /\ slot \notin {3, 6} => verdict' = verdict
               /\ slot' = IF slot \in {3, 6} THEN slot ELSE slot + 1
               /\ at' = IF slot \in {3, 6} THEN "review" ELSE "stage"
      <3>1. prior = LatestBefore(slot, t) /\ (slot >= 4 => verdict.target = t)
        BY <2>1 DEF PlanFor
      <3>2. Team = Crew(slot, t)
        BY <1>0, <3>1, TeamIsCrew
      <3>3. \A s \in Slots : s <= slot => Given(s, t, inputs')
        BY <1>0, <2>1 DEF PlanFor, Slots
      <3>4. prior' = LatestBefore(slot + 1, t)
        BY <1>0, <2>4, <3>1, <3>2, LatestAfter
      <3>5. CASE slot \in {3, 6}
        BY <2>1, <2>2, <2>4, <3>3, <3>4, <3>5 DEF PlanFor
      <3>6. CASE slot \notin {3, 6}
        <4>1. slot' = slot + 1 /\ at' = "stage" /\ verdict' = verdict
          BY <2>4, <3>6
        <4>2. slot' >= 4 => verdict'.target = t
          BY <1>0, <3>1, <3>6, <4>1 DEF Slots
        <4>3. \A s \in Slots : s < slot' => Given(s, t, inputs')
          BY <1>0, <3>3, <4>1 DEF Slots
        <4> QED BY <2>1, <2>2, <3>4, <4>1, <4>2, <4>3 DEF PlanFor
      <3> QED BY <3>5, <3>6
    <2> QED BY <1>7, <2>3, <2>4 DEF StageDone, Fail
  <1>8. ASSUME Accept \/ RejectAgain PROVE PlanFor(t)'
    <2>1. at = "review" /\ at' = "persisting" /\ slot' = slot /\ prior' = prior /\ exit' = exit
      BY <1>8 DEF Accept, RejectAgain, Finish, reviewFrame, dataVars
    <2>2. prior = LatestBefore(slot + 1, t) /\ \A s \in Slots : s <= slot => Given(s, t, inputs')
      BY <1>2, <2>1 DEF PlanFor
    <2> QED BY <2>1, <2>2 DEF PlanFor
  <1>9. ASSUME Reject PROVE PlanInv'
    <2>1. at = "review" /\ slot = 3 /\ prior' = prior /\ verdict' = verdict /\ exit' = exit
      BY <1>9 DEF Reject, reviewFrame, dataVars
    <2>2. prior = LatestBefore(4, t) /\ \A s \in Slots : s <= 3 => Given(s, t, inputs')
      BY <1>2, <2>1 DEF PlanFor
    <2>3. exit = "none"
      BY <1>0, <2>1 DEF ControlInv, TypeInv
    <2>4. CASE at' \in {"failing", "persisting"} /\ slot' = slot
      <3>1. PlanFor(t)'
        BY <2>1, <2>2, <2>3, <2>4 DEF PlanFor
      <3> QED BY <3>1 DEF PlanInv
    <2>5. CASE verdict.target \in RevisableRoles /\ slot' = 4 /\ at' = "stage"
      <3>1. PICK u \in RevisableRoles : u = verdict.target
        BY <2>5
      <3>2. prior' = LatestBefore(4, u)
        BY <2>1, <2>2, LatestEarly
      <3>3. \A s \in Slots : s < 4 => Given(s, u, inputs')
        BY <2>2, GivenEarly DEF Slots
      <3>4. PlanFor(u)'
        BY <2>1, <2>3, <2>5, <3>1, <3>2, <3>3 DEF PlanFor
      <3> QED BY <3>1, <3>4 DEF PlanInv
    <2> QED BY <1>9, <2>4, <2>5 DEF Reject, Fail, Finish
  <1>10. ASSUME PersistFailure PROVE PlanFor(t)'
    BY <1>10 DEF PersistFailure, PlanFor
  <1>11. ASSUME Persist PROVE PlanFor(t)'
    <2>1. at = "persisting" /\ at' \in {"ended", "failing"} /\ slot' = slot /\ prior' = prior
      BY <1>11 DEF Persist, Fail, endFrame, dataVars
    <2>2. prior = LatestBefore(slot + 1, t) /\ \A s \in Slots : s <= slot => Given(s, t, inputs')
      BY <1>2, <2>1 DEF PlanFor
    <2> QED BY <2>1, <2>2 DEF PlanFor
  <1>12. ASSUME UNCHANGED <<controlVars, dataVars>> PROVE PlanFor(t)'
    <2>1. prior' = prior /\ verdict' = verdict /\ slot' = slot /\ exit' = exit /\ at' = at
      BY <1>12 DEF controlVars, dataVars
    <2> QED BY <1>0, <1>1, <2>1, PlanStays
  <1> QED BY <1>3, <1>4, <1>5, <1>6, <1>7, <1>8, <1>9, <1>10, <1>11, <1>12
          DEF Next, Main, DeadlinePasses, vars, PlanInv

-------------------------------------------------------------------------------
(* The theorems *)

\* Before the first slot nothing has been produced, handed off or given.
LEMMA InitIInv == Init => IInv
  <1> SUFFICES ASSUME Init PROVE IInv
    OBVIOUS
  <1>1. TypeInv
    BY TypeInit
  <1>2. ControlInv /\ PoolInv
    BY DEF Init, ControlInv, PoolInv, Idle
  <1>3. ReviewInv
    BY DEF Init, ReviewInv
  <1>4. HistoryInv
    BY DEF Init, HistoryInv, InputsAreHandedOff
  <1>5. "design" \in RevisableRoles
    BY DEF RevisableRoles, Specialists
  <1>6. ASSUME NEW a \in Agents PROVE LatestBefore(0, "design")[a] = Never
    BY LatestValue DEF Level, Agents, Specialists
  <1>7. prior = LatestBefore(slot, "design")
    BY <1>6 DEF Init, LatestBefore
  <1>8. PlanFor("design")
    BY <1>7 DEF Init, PlanFor, Slots
  <1> QED BY <1>1, <1>2, <1>3, <1>4, <1>5, <1>8 DEF IInv, PlanInv

\* Every step keeps it.
LEMMA StepIInv == IInv /\ [Next]_vars => IInv'
  BY TypeStep, ControlStep, PoolStep, ReviewStep, HistoryStep, PlanStep DEF IInv

\* The inductive invariant holds throughout a run.
THEOREM Invariance == Spec => []IInv
  BY InitIInv, StepIInv, PTL DEF Spec

\* Every variable of the runner keeps its type: no counter leaves its budget by
\* more than the revision that is counted before it is checked.
THEOREM TypeCorrect == Spec => []TypeOK
  <1>1. IInv => TypeOK
    BY DEF IInv, TypeInv, TypeOK, Phases, Points, Edges, NoVerdict
  <1> QED BY <1>1, Invariance, PTL

\* No agent is queued or executing once the scheduler has given control back.
THEOREM WorkEndsWithItsStage == Spec => []NoWorkOutlivesItsStage
  <1>1. IInv => NoWorkOutlivesItsStage
    BY DEF IInv, PoolInv, NoWorkOutlivesItsStage, Idle
  <1> QED BY <1>1, Invariance, PTL

\* A planned execution is given exactly what its handoffs name.
THEOREM InputsMatchHandoffs == Spec => []InputsAreHandedOff
  <1>1. IInv => InputsAreHandedOff
    BY DEF IInv, HistoryInv
  <1> QED BY <1>1, Invariance, PTL

\* When the last review has ended, each agent's latest output was produced from
\* the latest outputs of what it depends on.
LEMMA LatestFromLatest ==
  ASSUME NEW s \in {3, 6}, NEW t \in Specialists, NEW a \in Agents, NEW d \in DependsOn[a],
         NEW produced, produced = LatestBefore(s + 1, t)[a]
  PROVE  /\ produced \in Slots /\ produced <= s /\ a \in Crew(produced, t)
         /\ LatestBefore(produced, t)[d] = LatestBefore(s + 1, t)[d]
  <1>1. d \in Agents
    BY Dependencies DEF Agents, Specialists
  <1>2. s + 1 \in Int /\ produced = IF s + 1 > 4 /\ a = t THEN 4
                                    ELSE IF s + 1 > 5 /\ a = "synthesis" THEN 5
                                    ELSE IF s + 1 > 6 /\ a = "review" THEN 6
                                    ELSE Level(a)
    BY LatestValue DEF Level
  <1>3. produced \in Slots /\ produced <= s
    BY <1>2 DEF Level, Slots
  <1>4. a \in Crew(produced, t)
    BY <1>2, <1>3, CrewOf DEF Level, Agents, Specialists
  <1>5. /\ LatestBefore(s + 1, t)[d] = IF s + 1 > 4 /\ d = t THEN 4
                                       ELSE IF s + 1 > 5 /\ d = "synthesis" THEN 5
                                       ELSE IF s + 1 > 6 /\ d = "review" THEN 6
                                       ELSE IF Level(d) < s + 1 THEN Level(d) ELSE Never
        /\ LatestBefore(produced, t)[d] = IF produced > 4 /\ d = t THEN 4
                                          ELSE IF produced > 5 /\ d = "synthesis" THEN 5
                                          ELSE IF produced > 6 /\ d = "review" THEN 6
                                          ELSE IF Level(d) < produced THEN Level(d) ELSE Never
    BY <1>1, <1>2, <1>3, LatestValue DEF Slots
  <1>6. a # "analyst"
    BY Dependencies
  <1>7. CASE a = "synthesis"
    <2>1. d \in Specialists
      BY <1>7, Dependencies
    <2>2. produced = IF s = 6 THEN 5 ELSE 2
      BY <1>2, <1>7 DEF Level, Specialists
    <2> QED BY <1>3, <1>4, <1>5, <2>1, <2>2 DEF Level, Specialists
  <1>8. CASE a = "review"
    <2>1. d = "synthesis"
      BY <1>8, Dependencies
    <2>2. produced = IF s = 6 THEN 6 ELSE 3
      BY <1>2, <1>8 DEF Level, Specialists
    <2> QED BY <1>3, <1>4, <1>5, <2>1, <2>2 DEF Level, Specialists
  <1>9. CASE a \in Specialists
    <2>1. d = "analyst"
      BY <1>9, Dependencies DEF Specialists
    <2>2. produced \in {1, 4}
      BY <1>2, <1>9 DEF Level, Specialists
    <2> QED BY <1>3, <1>4, <1>5, <2>1, <2>2 DEF Level, Specialists
  <1> QED BY <1>3, <1>4, <1>6, <1>7, <1>8, <1>9 DEF Agents, Specialists

\* A finished run ends with nothing superseded: no accepted review rests on a
\* synthesis of designs that were revised since.
THEOREM NothingStale == Spec => []NothingSuperseded
  <1>1. IInv => NothingSuperseded
    <2> SUFFICES ASSUME IInv, exit \in {"completed", "rejected"},
                        NEW a \in Agents, NEW d \in DependsOn[a]
                 PROVE  [to |-> a, slot |-> prior[a], from |-> d, version |-> prior[d]] \in inputs
      BY DEF NothingSuperseded
    <2>1. slot \in {3, 6}
      BY DEF IInv, ControlInv
    <2>2. PICK t \in Specialists : PlanFor(t)
      BY DEF IInv, PlanInv, RevisableRoles
    <2>3. prior = LatestBefore(slot + 1, t) /\ \A s \in Slots : s <= slot => Given(s, t, inputs)
      BY <2>2 DEF PlanFor
    <2>4. /\ prior[a] \in Slots /\ prior[a] <= slot /\ a \in Crew(prior[a], t)
          /\ LatestBefore(prior[a], t)[d] = prior[d]
      BY <2>1, <2>3, LatestFromLatest
    <2>5. Given(prior[a], t, inputs)
      BY <2>3, <2>4
    <2> QED BY <2>4, <2>5 DEF Given
  <1> QED BY <1>1, Invariance, PTL

\* The status of a finished run follows its last review.
THEOREM StatusIsTheReviews == Spec => []StatusFollowsReview
  <1>1. IInv => StatusFollowsReview
    <2> SUFFICES ASSUME IInv PROVE StatusFollowsReview
      OBVIOUS
    <2>1. exit \in {"completed", "rejected"} => error = "none"
      BY DEF IInv, ControlInv
    <2>2. exit = "completed" => verdict.decision = "PASS"
      BY DEF IInv, ReviewInv
    <2>3. exit = "rejected" => /\ verdict.decision = "REJECT"
                               /\ slot = 6 \/ verdict.target \notin RevisableRoles
      BY DEF IInv, ReviewInv
    <2>4. ASSUME exit = "rejected", slot = 6 PROVE prior["review"] = 6
      <3>1. PICK t \in RevisableRoles : PlanFor(t)
        BY DEF IInv, PlanInv
      <3>2. prior = LatestBefore(7, t)
        BY <2>4, <3>1 DEF PlanFor
      <3>3. "review" \in Agents /\ t # "review"
        BY DEF Agents, RevisableRoles, Specialists
      <3> QED BY <3>2, <3>3, LatestValue
    <2> QED BY <2>1, <2>2, <2>3, <2>4 DEF StatusFollowsReview
  <1> QED BY <1>1, Invariance, PTL

\* The runner never asks the engine for a transition its table refuses.
THEOREM LegalTransitions == Spec => TransitionsAreLegal
  <1> DEFINE A == phase' # phase => phase' \in Legal[phase]
  <1>1. IInv /\ [Next]_vars => A
    <2> SUFFICES ASSUME IInv, Next, phase' # phase PROVE phase' \in Legal[phase]
      BY DEF vars, controlVars
    <2>0. TypeInv /\ ControlInv
      BY DEF IInv
    <2>1. /\ Legal["created"] = {"planning"}
          /\ Legal["planning"] = {"analyzing", "failed"}
          /\ Legal["analyzing"] = {"executing_specialists", "failed"}
          /\ Legal["executing_specialists"] = {"synthesizing", "failed"}
          /\ Legal["synthesizing"] = {"reviewing", "failed"}
          /\ Legal["reviewing"] = {"completed", "revising", "failed"}
          /\ Legal["revising"] = {"synthesizing", "failed"}
      BY DEF Legal
    <2>2. CASE StartPlanning
      BY <2>0, <2>1, <2>2 DEF StartPlanning, ControlInv
    <2>3. CASE EnterStage
      <3>1. slot \in Slots /\ phase = PhaseBefore(slot) /\ phase' = PhaseOf(slot)
        BY <2>0, <2>3 DEF EnterStage, TypeInv, ControlInv
      <3> QED BY <2>1, <3>1 DEF PhaseBefore, PhaseOf, Slots
    <2>4. CASE Accept \/ Reject \/ RejectAgain
      <3>1. phase = "reviewing" /\ phase' \in {phase, "completed"}
        BY <2>0, <2>4 DEF Accept, Reject, RejectAgain, Finish, ControlInv
      <3> QED BY <2>1, <3>1
    <2>5. CASE PersistFailure
      <3>1. /\ phase \in Phases \ {"created", "planning", "completed", "failed"}
            /\ phase' = "failed"
        BY <2>0, <2>5 DEF PersistFailure, ControlInv, TypeInv
      <3> QED BY <2>1, <3>1 DEF Phases
    <2>6. ASSUME NEW a \in Agents, Begin(a) \/ Return(a) \/ Cancel(a) PROVE FALSE
      BY <2>6, PoolFrame
    <2> QED BY <2>2, <2>3, <2>4, <2>5, <2>6
            DEF Next, Main, Collect, Timeout, Drained, StageDone, Persist, DeadlinePasses,
                schedulerFrame, endFrame, controlVars
  <1> QED BY <1>1, Invariance, PTL DEF Spec, TransitionsAreLegal

-------------------------------------------------------------------------------
(***************************************************************************)
(* What a run says it cost is what its guard charged it.  The invariant is *)
(* inductive relative to IInv:                                             *)
(*   StagesInv    the results kept are those of the slots passed;          *)
(*   CallsInv     the calls counted are those of the slots passed, and of  *)
(*                the current one all that are no longer queued, save those *)
(*                that raised or were cancelled before they were counted;  *)
(*   TokensInv    the tokens counted are those of the results kept and of  *)
(*                the replies of the current stage;                        *)
(*   RevisionInv  the one revision is counted when slot 4 is entered.      *)
(***************************************************************************)
\* How many agents run in a slot, and in it and those before it.
Size(s) == IF s = 1 THEN 3 ELSE 1
UpTo(s) == IF s = 0 THEN 1 ELSE s + 3
Before(s) == IF s = 0 THEN 0 ELSE IF s = 1 THEN 1 ELSE s + 2

Finished == at \in {"review", "persisting"} \/ exit \in {"completed", "rejected"}

StagesInv ==
  /\ at \in {"plan", "stage", "waiting", "draining"} => stages = {s \in Slots : s < slot}
  /\ Finished => stages = {s \in Slots : s <= slot}

Queued == {a \in Agents : thread[a] = "queued"}

CallsInv ==
  /\ at \in {"plan", "stage"} => calls = Before(slot)
  /\ at \in {"waiting", "draining"} =>
       /\ \A a \in Agents : thread[a] = "idle" <=> a \notin Team
       /\ calls + Cardinality(Queued) <= UpTo(slot)
       /\ (\A a \in Agents : thread[a] \notin {"raised", "cancelled"}) =>
            calls + Cardinality(Queued) = UpTo(slot)
  /\ Finished => calls = UpTo(slot)
  /\ \A a \in seen : thread[a] = "done"
  /\ \A a \in Agents : reply[a].code = "CALL_BUDGET_EXCEEDED" => policy.maxCalls < 9
  /\ error = "CALL_BUDGET_EXCEEDED" => policy.maxCalls < 9

\* The tokens of one kind that the agents of the current stage have replied with.
Used(k) ==
  reply["analyst"].usage[k] + reply["design"].usage[k] + reply["test"].usage[k]
    + reply["risk"].usage[k] + reply["synthesis"].usage[k] + reply["review"].usage[k]

TokensInv ==
  /\ spent.input + spent.output <= policy.tokens.runTotal - policy.tokens.reserve
  /\ tally \in [{"input", "output"} -> Nat]
  /\ \A a \in Agents : thread[a] # "done" => reply[a].usage = NoUsage
  /\ at \in {"plan", "stage", "waiting", "draining"} \/ Finished =>
       /\ spent.input = tally["input"] + Used("input")
       /\ spent.output = tally["output"] + Used("output")

RevisionInv ==
  /\ slot >= 4 => revisions = 1
  /\ (at = "persisting" \/ exit \in {"completed", "rejected"}) /\ slot = 3
       /\ verdict.decision = "PASS" => revisions = 0

BudgetInv == StagesInv /\ CallsInv /\ TokensInv /\ RevisionInv

-------------------------------------------------------------------------------
(* Who runs in a slot, and how many *)

\* The agents of a slot are agents, as many as its size.
LEMMA CrewSize ==
  ASSUME NEW s \in Slots, NEW t \in Specialists
  PROVE  IsFiniteSet(Crew(s, t)) /\ Cardinality(Crew(s, t)) = Size(s)
  <1>1. \A x : IsFiniteSet({x}) /\ Cardinality({x}) = 1
    BY FS_Singleton
  <1>2. IsFiniteSet(Specialists) /\ Cardinality(Specialists) = 3
    <2> DEFINE one == {"design"}
               two == one \cup {"test"}
    <2>1. IsFiniteSet(one) /\ Cardinality(one) = 1 /\ "test" \notin one
      BY <1>1
    <2>2. "risk" \notin two /\ Specialists = two \cup {"risk"}
      BY DEF Specialists
    <2> HIDE DEF one
    <2>3. IsFiniteSet(two) /\ Cardinality(two) = 2
      BY <2>1, FS_AddElement
    <2> HIDE DEF two
    <2> QED BY <2>2, <2>3, FS_AddElement
  <1>3. CASE s = 1
    BY <1>2, <1>3, CrewOf DEF Size
  <1>4. CASE s # 1
    <2>1. \/ Crew(s, t) = {"analyst"} \/ Crew(s, t) = {"synthesis"} \/ Crew(s, t) = {"review"}
          \/ Crew(s, t) = {t}
      BY <1>4, CrewOf
    <2> QED BY <1>1, <1>4, <2>1 DEF Size
  <1> QED BY <1>3, <1>4

\* While the scheduler waits or drains, the team is a crew of the plan.
LEMMA WaitingTeam ==
  ASSUME IInv, at \in {"stage", "waiting", "draining"}
  PROVE  \E t \in Specialists : Team = Crew(slot, t)
  <1>1. PICK t \in Specialists : PlanFor(t)
    BY DEF IInv, PlanInv, RevisableRoles
  <1>2. slot \in Slots /\ (slot >= 4 => verdict.target = t)
    BY <1>1 DEF IInv, TypeInv, PlanFor
  <1> QED BY <1>2, TeamIsCrew

\* Only some of the six agents are queued.
LEMMA QueuedIsFinite == IsFiniteSet(Queued) /\ Cardinality(Queued) \in Nat
  <1>1. \A x : IsFiniteSet({x})
    BY FS_Singleton
  <1>2. Agents = {"analyst"} \cup {"design"} \cup {"test"} \cup {"risk"} \cup {"synthesis"} \cup {"review"}
    BY DEF Agents
  <1>3. IsFiniteSet(Agents)
    BY <1>1, <1>2, FS_Union
  <1>4. Queued \subseteq Agents
    BY DEF Queued
  <1> QED BY <1>3, <1>4, FS_Subset, FS_CardinalityType

\* An agent that leaves the queue makes it shorter by one ...
LEMMA Dequeued ==
  ASSUME TypeInv, NEW a \in Agents, thread[a] = "queued", NEW st, st # "queued",
         thread' = [thread EXCEPT ![a] = st]
  PROVE  Cardinality(Queued) >= 1 /\ Cardinality(Queued') = Cardinality(Queued) - 1
  <1>1. a \in Queued
    BY DEF Queued
  <1>2. Queued' = Queued \ {a}
    BY DEF Queued, TypeInv
  <1>3. Cardinality(Queued \ {a}) = Cardinality(Queued) - 1
    BY <1>1, QueuedIsFinite, FS_RemoveElement
  <1>4. Cardinality(Queued \ {a}) \in Nat
    BY QueuedIsFinite, FS_Subset, FS_CardinalityType
  <1> QED BY <1>2, <1>3, <1>4, QueuedIsFinite

\* ... and another's change does not touch it.
LEMMA SameQueue ==
  ASSUME TypeInv, NEW a \in Agents, thread[a] # "queued", NEW st, st # "queued",
         thread' = [thread EXCEPT ![a] = st]
  PROVE  Queued' = Queued
  BY DEF Queued, TypeInv

-------------------------------------------------------------------------------
(* What is kept of a stage *)

\* The results kept are those of the slots passed.
LEMMA StagesStep == IInv /\ StagesInv /\ [Next]_vars => StagesInv'
  <1> SUFFICES ASSUME IInv, StagesInv, [Next]_vars PROVE StagesInv'
    OBVIOUS
  <1>0. TypeInv /\ ControlInv /\ slot \in Slots
    BY DEF IInv, TypeInv
  <1>1. CASE StageDone
    <2>1. at = "waiting" /\ exit' = exit /\ exit = "none"
      BY <1>0, <1>1 DEF StageDone, Fail, ControlInv, TypeInv
    <2>2. stages = {s \in Slots : s < slot}
      BY <2>1 DEF StagesInv
    <2>3. CASE at' = "failing"
      BY <2>1, <2>3 DEF StagesInv, Finished
    <2>4. CASE /\ stages' = stages \cup {slot}
               /\ slot' = IF slot \in {3, 6} THEN slot ELSE slot + 1
               /\ at' = IF slot \in {3, 6} THEN "review" ELSE "stage"
      <3>1. stages' = {s \in Slots : s <= slot}
        BY <1>0, <2>2, <2>4 DEF Slots
      <3>2. CASE slot \in {3, 6}
        BY <2>4, <3>1, <3>2 DEF StagesInv
      <3>3. CASE slot \notin {3, 6}
        <4>1. {s \in Slots : s <= slot} = {s \in Slots : s < slot + 1}
          BY <1>0 DEF Slots
        <4> QED BY <2>1, <2>4, <3>1, <3>3, <4>1 DEF StagesInv, Finished
      <3> QED BY <3>2, <3>3
    <2> QED BY <1>1, <2>3, <2>4 DEF StageDone, Fail
  <1>2. CASE Reject
    <2>1. at = "review" /\ slot = 3 /\ stages' = stages /\ exit' = exit /\ exit = "none"
      BY <1>0, <1>2 DEF Reject, reviewFrame, dataVars, ControlInv, TypeInv
    <2>2. stages = {s \in Slots : s <= 3}
      BY <2>1 DEF StagesInv, Finished
    <2>3. {s \in Slots : s <= 3} = {s \in Slots : s < 4}
      BY DEF Slots
    <2>4. \/ at' \in {"failing", "persisting"} /\ slot' = slot
          \/ slot' = 4 /\ at' = "stage"
      BY <1>2 DEF Reject, Fail, Finish
    <2> QED BY <2>1, <2>2, <2>3, <2>4 DEF StagesInv, Finished
  <1>3. ASSUME NEW a \in Agents, Begin(a) \/ Return(a) \/ Cancel(a) PROVE StagesInv'
    BY <1>3, PoolFrame DEF dataVars, StagesInv, Finished
  <1>4. CASE StartPlanning \/ EnterStage
    <2>1. stages' = stages /\ slot' = slot /\ exit' = exit /\ exit = "none"
      BY <1>0, <1>4 DEF StartPlanning, EnterStage, Fail, dataVars, ControlInv, TypeInv
    <2>2. at \in {"plan", "stage"} /\ at' \in {"stage", "waiting", "failing"}
      BY <1>4 DEF StartPlanning, EnterStage, Fail
    <2> QED BY <2>1, <2>2 DEF StagesInv, Finished
  <1>5. CASE (\E a \in Agents : Collect(a)) \/ Timeout \/ Drained
    <2>1. stages' = stages /\ slot' = slot /\ exit' = exit
      BY <1>5 DEF Collect, Timeout, Drained, schedulerFrame, dataVars
    <2>2. at \in {"waiting", "draining"} /\ at' \in {"waiting", "draining", "failing"} /\ exit = "none"
      BY <1>0, <1>5 DEF Collect, Timeout, Drained, Drain, ControlInv, TypeInv
    <2> QED BY <2>1, <2>2 DEF StagesInv, Finished
  <1>6. CASE Accept \/ RejectAgain \/ PersistFailure \/ Persist
    <2>1. stages' = stages /\ slot' = slot
      BY <1>6 DEF Accept, RejectAgain, Finish, PersistFailure, Persist, reviewFrame, endFrame, dataVars
    <2>2. Finished' => Finished
      BY <1>6 DEF Accept, RejectAgain, Finish, PersistFailure, Persist, reviewFrame, Finished
    <2>3. at' \in {"persisting", "ended"}
      BY <1>6 DEF Accept, RejectAgain, Finish, PersistFailure, Persist
    <2> QED BY <2>1, <2>2, <2>3 DEF StagesInv
  <1>7. CASE UNCHANGED <<controlVars, dataVars>>
    BY <1>7 DEF controlVars, dataVars, StagesInv, Finished
  <1> QED BY <1>1, <1>2, <1>3, <1>4, <1>5, <1>6, <1>7
          DEF Next, Main, DeadlinePasses, vars

-------------------------------------------------------------------------------
(* The calls *)

\* The slots' sizes add up, to nine at most.
LEMMA SizesAddUp ==
  ASSUME NEW s \in Slots
  PROVE  /\ Before(s) \in Nat /\ Before(s) + Size(s) = UpTo(s) /\ UpTo(s) \in 0..9
         /\ s < 6 => Before(s + 1) = UpTo(s)
  BY DEF Before, Size, UpTo, Slots

\* A run that has not reached its review has not ended.
LEMMA NotFinished ==
  ASSUME IInv, at \notin {"review", "persisting", "ended"}
  PROVE  exit = "none" /\ ~ Finished
  BY DEF IInv, ControlInv, Finished

\* A call that begins is counted as it leaves the queue, and as no more than nine
\* calls are ever due, a budget of nine refuses none.
LEMMA CallsBegin ==
  ASSUME IInv, CallsInv, NEW a \in Agents, Begin(a)
  PROVE  CallsInv'
  <1>0. TypeInv /\ slot \in Slots /\ calls \in Nat /\ policy.maxCalls \in Nat
    BY PolicyNumbers DEF IInv, TypeInv
  <1>1. thread[a] = "queued" /\ at \in {"waiting", "draining"}
    BY DEF Begin, IInv, PoolInv, Idle, TypeInv
  <1>2. /\ UNCHANGED <<slot, exit, error, at, seen, verdict, policy>>
        /\ Team' = Team
    <2>1. UNCHANGED <<slot, exit, error, at, seen, verdict, policy>>
      BY PoolFrame DEF dataVars, Begin, poolFrame
    <2> QED BY <2>1 DEF Team, TeamOf
  <1>3. PICK st \in {"executing", "raised"} : thread' = [thread EXCEPT ![a] = st]
    BY DEF Begin, Raise
  <1>4. /\ Cardinality(Queued) \in Nat /\ Cardinality(Queued) >= 1
        /\ Cardinality(Queued') = Cardinality(Queued) - 1
    BY <1>0, <1>1, <1>3, Dequeued, QueuedIsFinite
  <1>5. \A b \in Agents : thread'[b] = IF b = a THEN st ELSE thread[b]
    BY <1>0, <1>3 DEF TypeInv
  <1>6. \A b \in Agents : thread'[b] = "idle" <=> b \notin Team'
    BY <1>1, <1>2, <1>5 DEF CallsInv
  <1>7. UpTo(slot) \in 0..9 /\ calls + Cardinality(Queued) <= UpTo(slot)
    BY <1>0, <1>1, SizesAddUp DEF CallsInv
  <1>8. calls' \in {calls, calls + 1} /\ (st = "executing" => calls' = calls + 1)
    BY <1>0, <1>3, <1>5 DEF Begin, Raise, TypeInv
  <1>9. calls' + Cardinality(Queued') <= UpTo(slot')
    BY <1>0, <1>2, <1>4, <1>7, <1>8
  <1>10. (\A b \in Agents : thread'[b] \notin {"raised", "cancelled"}) =>
           calls' + Cardinality(Queued') = UpTo(slot')
    <2> SUFFICES ASSUME \A b \in Agents : thread'[b] \notin {"raised", "cancelled"}
                 PROVE  calls' + Cardinality(Queued') = UpTo(slot')
      OBVIOUS
    <2>1. st = "executing"
      BY <1>5
    <2>2. \A b \in Agents : thread[b] \notin {"raised", "cancelled"}
      BY <1>1, <1>5
    <2>3. calls + Cardinality(Queued) = UpTo(slot)
      BY <1>1, <2>2 DEF CallsInv
    <2> QED BY <1>0, <1>2, <1>4, <1>8, <2>1, <2>3
  <1>11. \A b \in seen' : thread'[b] = "done"
    BY <1>0, <1>1, <1>2, <1>5 DEF CallsInv, TypeInv
  <1>12. ASSUME NEW b \in Agents, reply'[b].code = "CALL_BUDGET_EXCEEDED" PROVE policy'.maxCalls < 9
    <2>1. CASE reply'[b] = reply[b]
      BY <1>2, <1>12, <2>1 DEF CallsInv
    <2>2. CASE calls >= policy.maxCalls
      BY <1>0, <1>2, <1>4, <1>7, <2>2
    <2>3. CASE reply' = [reply EXCEPT ![a] = Reply("TIME_BUDGET_EXCEEDED", NoUsage)]
      <3>1. reply'[b] = reply[b] \/ reply'[b].code = "TIME_BUDGET_EXCEEDED"
        BY <1>0, <2>3 DEF TypeInv, Reply
      <3> QED BY <1>12, <2>1, <3>1
    <2> QED BY <2>1, <2>2, <2>3 DEF Begin, Raise
  <1> QED BY <1>1, <1>2, <1>6, <1>9, <1>10, <1>11, <1>12, NotFinished DEF CallsInv, Finished

\* An answer, an error or a cancellation changes neither the calls nor, but for
\* the cancellation, the queue.
LEMMA CallsReturn ==
  ASSUME IInv, CallsInv, NEW a \in Agents, Return(a) \/ Cancel(a)
  PROVE  CallsInv'
  <1>0. TypeInv /\ slot \in Slots /\ calls \in Nat
    BY PolicyNumbers DEF IInv, TypeInv
  <1>1. thread[a] \in {"queued", "executing"} /\ at \in {"waiting", "draining"}
    BY DEF Return, Cancel, IInv, PoolInv, Idle
  <1>2. /\ UNCHANGED <<slot, exit, error, at, seen, verdict, policy, calls>>
        /\ Team' = Team
    <2>1. UNCHANGED <<slot, exit, error, at, seen, verdict, policy, calls>>
      BY PoolFrame DEF dataVars, Return, poolFrame, Cancel, schedulerFrame, guardVars
    <2> QED BY <2>1 DEF Team, TeamOf
  <1>3. PICK st \in {"done", "raised", "cancelled"} :
          /\ thread' = [thread EXCEPT ![a] = st]
          /\ st # "cancelled" => thread[a] = "executing"
          /\ st = "cancelled" => thread[a] = "queued"
    BY DEF Return, Raise, Cancel
  <1>4. /\ Cardinality(Queued) \in Nat
        /\ st # "cancelled" => Cardinality(Queued') = Cardinality(Queued)
        /\ st = "cancelled" => Cardinality(Queued') = Cardinality(Queued) - 1
    <2>1. CASE st = "cancelled"
      BY <1>0, <1>3, <2>1, Dequeued, QueuedIsFinite
    <2>2. CASE st # "cancelled"
      BY <1>0, <1>3, <2>2, SameQueue, QueuedIsFinite
    <2> QED BY <2>1, <2>2
  <1>5. \A b \in Agents : thread'[b] = IF b = a THEN st ELSE thread[b]
    BY <1>0, <1>3 DEF TypeInv
  <1>6. \A b \in Agents : thread'[b] = "idle" <=> b \notin Team'
    BY <1>1, <1>2, <1>5 DEF CallsInv
  <1>7. UpTo(slot) \in 0..9 /\ calls + Cardinality(Queued) <= UpTo(slot)
    BY <1>0, <1>1, SizesAddUp DEF CallsInv
  <1>8. calls' + Cardinality(Queued') <= UpTo(slot')
    BY <1>0, <1>2, <1>4, <1>7
  <1>9. (\A b \in Agents : thread'[b] \notin {"raised", "cancelled"}) =>
          calls' + Cardinality(Queued') = UpTo(slot')
    <2> SUFFICES ASSUME \A b \in Agents : thread'[b] \notin {"raised", "cancelled"}
                 PROVE  calls' + Cardinality(Queued') = UpTo(slot')
      OBVIOUS
    <2>1. st # "cancelled"
      BY <1>5
    <2>2. \A b \in Agents : thread[b] \notin {"raised", "cancelled"}
      BY <1>1, <1>5
    <2>3. calls + Cardinality(Queued) = UpTo(slot)
      BY <1>1, <2>2 DEF CallsInv
    <2> QED BY <1>2, <1>4, <2>1, <2>3
  <1>10. \A b \in seen' : thread'[b] = "done"
    BY <1>0, <1>1, <1>2, <1>5 DEF CallsInv, TypeInv
  <1>11. \A b \in Agents : reply'[b] = reply[b] \/ reply'[b].code # "CALL_BUDGET_EXCEEDED"
    <2>1. CASE reply' = reply
      BY <2>1
    <2>2. CASE \E e \in Envelopes : reply' = [reply EXCEPT ![a] = e]
      <3>1. PICK e \in Envelopes : reply' = [reply EXCEPT ![a] = e]
        BY <2>2
      <3>2. e.code # "CALL_BUDGET_EXCEEDED"
        BY DEF Envelopes, Reply
      <3> QED BY <1>0, <3>1, <3>2 DEF TypeInv
    <2>3. CASE \E c \in {"TOKEN_BUDGET_EXCEEDED", "MULTI_AGENT_RUN_FAILED"} :
                 reply' = [reply EXCEPT ![a] = Reply(c, NoUsage)]
      BY <1>0, <2>3 DEF TypeInv, Reply
    <2> QED BY <2>1, <2>2, <2>3 DEF Return, Raise, Cancel
  <1> QED BY <1>1, <1>2, <1>6, <1>8, <1>9, <1>10, <1>11, NotFinished DEF CallsInv, Finished

\* When a stage is entered its whole team is queued.
LEMMA CallsEnter ==
  ASSUME IInv, CallsInv, EnterStage
  PROVE  CallsInv'
  <1>0. TypeInv /\ slot \in Slots /\ calls \in Nat
    BY PolicyNumbers DEF IInv, TypeInv
  <1>1. at = "stage" /\ UNCHANGED <<slot, exit, seen, reply, policy, calls, verdict>>
    BY DEF EnterStage, Fail, guardVars
  <1>2. Team' = Team
    BY <1>1 DEF Team, TeamOf
  <1>3. calls = Before(slot) /\ exit = "none" /\ thread = Idle
    BY <1>1, NotFinished DEF CallsInv, IInv, PoolInv
  <1>4. seen = {}
    BY <1>0, <1>3 DEF CallsInv, Idle, TypeInv
  <1>5. CASE at' = "failing" /\ error' # "CALL_BUDGET_EXCEEDED"
    BY <1>1, <1>3, <1>4, <1>5 DEF CallsInv, Finished
  <1>6. CASE at' = "waiting" /\ thread' = Submitted /\ error' = error
    <2>1. PICK t \in Specialists : Team = Crew(slot, t)
      BY <1>1, WaitingTeam
    <2>2. Team \subseteq Agents /\ Cardinality(Team) = Size(slot)
      BY <1>0, <2>1, CrewOf, CrewSize
    <2>3. \A a \in Agents : thread'[a] = IF a \in Team THEN "queued" ELSE "idle"
      BY <1>6 DEF Submitted
    <2>4. Queued' = Team
      BY <2>2, <2>3 DEF Queued
    <2>5. calls' + Cardinality(Queued') = UpTo(slot') /\ UpTo(slot') \in 0..9
      BY <1>0, <1>1, <1>3, <2>2, <2>4, SizesAddUp
    <2> QED BY <1>1, <1>2, <1>3, <1>4, <1>6, <2>3, <2>5 DEF CallsInv, Finished
  <1> QED BY <1>5, <1>6 DEF EnterStage, Fail

\* A stage whose results are kept had every agent of its team counted.
LEMMA CallsDone ==
  ASSUME IInv, CallsInv, StageDone
  PROVE  CallsInv'
  <1>0. TypeInv /\ slot \in Slots /\ calls \in Nat
    BY PolicyNumbers DEF IInv, TypeInv
  <1>1. at = "waiting" /\ seen = Team /\ UNCHANGED <<exit, policy, calls>>
        /\ thread' = Idle /\ reply' = NoReply /\ seen' = {}
    BY DEF StageDone, Fail, guardVars
  <1>2. exit = "none"
    BY <1>1, NotFinished
  <1>3. \A a \in Agents : reply'[a].code = "none"
    BY <1>1 DEF NoReply, Reply
  <1>4. CASE at' = "failing" /\ error' # "CALL_BUDGET_EXCEEDED"
    BY <1>1, <1>2, <1>3, <1>4 DEF CallsInv, Finished
  <1>5. CASE /\ slot' = IF slot \in {3, 6} THEN slot ELSE slot + 1
             /\ at' = IF slot \in {3, 6} THEN "review" ELSE "stage"
             /\ error' = error
    <2>1. \A a \in Agents : thread[a] \in {"done", "idle"}
      BY <1>0, <1>1 DEF CallsInv, TypeInv
    <2>2. Queued = {}
      BY <2>1 DEF Queued
    <2>3. calls + Cardinality(Queued) = UpTo(slot)
      BY <1>1, <2>1 DEF CallsInv
    <2>4. calls = UpTo(slot)
      BY <1>0, <2>2, <2>3, FS_EmptySet
    <2>5. slot \notin {3, 6} => calls = Before(slot')
      BY <1>0, <1>5, <2>4, SizesAddUp DEF Slots
    <2>6. slot \in {3, 6} => calls = UpTo(slot')
      BY <1>5, <2>4
    <2> QED BY <1>1, <1>2, <1>3, <1>5, <2>5, <2>6 DEF CallsInv, Finished
  <1>6. \A code : StageError(code) # "CALL_BUDGET_EXCEEDED"
    BY DEF StageError
  <1> QED BY <1>4, <1>5, <1>6 DEF StageDone, Fail

\* Every step keeps the count.
LEMMA CallsStep == IInv /\ CallsInv /\ [Next]_vars => CallsInv'
  <1> SUFFICES ASSUME IInv, CallsInv, [Next]_vars PROVE CallsInv'
    OBVIOUS
  <1>0. TypeInv /\ ControlInv
    BY DEF IInv
  <1>1. CASE \E a \in Agents : Begin(a) \/ Return(a) \/ Cancel(a)
    BY <1>1, CallsBegin, CallsReturn
  <1>2. CASE EnterStage \/ StageDone
    BY <1>2, CallsEnter, CallsDone
  <1>3. ASSUME UNCHANGED <<thread, slot, verdict>>
        PROVE  Queued' = Queued /\ Team' = Team
    BY <1>3 DEF Queued, Team, TeamOf
  <1>4. CASE StartPlanning
    <2>1. slot = 0 /\ calls = Before(0) /\ exit = "none" /\ at = "plan"
      BY <1>0, <1>4, NotFinished DEF StartPlanning, ControlInv, CallsInv
    <2> QED BY <1>4, <2>1 DEF StartPlanning, CallsInv, Finished, poolVars, guardVars
  <1>5. ASSUME NEW a \in Agents, Collect(a) PROVE CallsInv'
    <2>1. /\ at = "waiting" /\ at' \in {"waiting", "draining"}
          /\ UNCHANGED <<thread, reply, slot, verdict, exit, policy, calls>>
      BY <1>5 DEF Collect, Drain, schedulerFrame, dataVars, guardVars
    <2>2. exit = "none" /\ Queued' = Queued /\ Team' = Team
      BY <1>3, <2>1, NotFinished
    <2>3. \A b \in seen' : thread'[b] = "done"
      BY <1>5, <2>1 DEF Collect, CallsInv
    <2>4. error' = error \/ error' = reply[a].code
      BY <1>5 DEF Collect, Drain
    <2> QED BY <2>1, <2>2, <2>3, <2>4 DEF CallsInv, Finished
  <1>6. CASE Timeout
    <2>1. /\ at = "waiting" /\ at' = "draining" /\ error' = "TIME_BUDGET_EXCEEDED"
          /\ UNCHANGED <<thread, reply, seen, slot, verdict, exit, policy, calls>>
      BY <1>6 DEF Timeout, Drain, schedulerFrame, dataVars, guardVars, poolVars
    <2>2. exit = "none" /\ Queued' = Queued /\ Team' = Team
      BY <1>3, <2>1, NotFinished
    <2> QED BY <2>1, <2>2 DEF CallsInv, Finished
  <1>7. CASE Drained
    <2>1. /\ at = "draining" /\ at' = "failing" /\ reply' = NoReply /\ seen' = {}
          /\ UNCHANGED <<exit, policy, error>>
      BY <1>7 DEF Drained, schedulerFrame
    <2>2. exit = "none" /\ \A a \in Agents : reply'[a].code = "none"
      BY <2>1, NotFinished DEF NoReply, Reply
    <2> QED BY <2>1, <2>2 DEF CallsInv, Finished
  <1>8. CASE Reject
    <2>1. /\ at = "review" /\ slot = 3
          /\ UNCHANGED <<thread, reply, seen, exit, policy, calls>>
      BY <1>8 DEF Reject, reviewFrame, poolVars
    <2>2. calls = UpTo(3) /\ exit = "none"
      BY <1>0, <2>1 DEF CallsInv, Finished, ControlInv, TypeInv
    <2>3. \/ at' = "failing" /\ error' # "CALL_BUDGET_EXCEEDED"
          \/ at' = "persisting" /\ slot' = slot /\ error' = error
          \/ at' = "stage" /\ slot' = 4 /\ error' = error
      BY <1>8 DEF Reject, Fail, Finish
    <2>4. UpTo(3) = Before(4)
      BY DEF UpTo, Before
    <2> QED BY <2>1, <2>2, <2>3, <2>4 DEF CallsInv, Finished
  <1>9. CASE Accept \/ RejectAgain \/ PersistFailure \/ Persist
    <2>1. UNCHANGED <<thread, reply, seen, slot, policy, calls, error>>
      BY <1>9 DEF Accept, RejectAgain, Finish, PersistFailure, Persist, reviewFrame, endFrame,
                  poolVars, guardVars
    <2>2. (Finished' => Finished) /\ at' \in {"persisting", "ended"}
      BY <1>9 DEF Accept, RejectAgain, Finish, PersistFailure, Persist, reviewFrame, Finished
    <2> QED BY <2>1, <2>2 DEF CallsInv
  <1>10. CASE UNCHANGED <<policy, controlVars, poolVars, dataVars, guardVars>>
    <2>1. UNCHANGED <<thread, reply, seen, slot, policy, calls, error, at, exit, verdict>>
      BY <1>10 DEF controlVars, poolVars, dataVars, guardVars
    <2>2. Queued' = Queued /\ Team' = Team
      BY <1>3, <2>1
    <2> QED BY <2>1, <2>2 DEF CallsInv, Finished
  <1> QED BY <1>1, <1>2, <1>4, <1>5, <1>6, <1>7, <1>8, <1>9, <1>10
          DEF Next, Main, DeadlinePasses, vars

-------------------------------------------------------------------------------
(* The tokens *)

Kinds == {"input", "output"}

\* A reply reports natural numbers.
LEMMA UsageType ==
  ASSUME TypeInv, NEW a \in Agents, NEW k \in Kinds
  PROVE  reply[a].usage[k] \in Nat /\ NoUsage[k] = 0
  <1>1. reply[a].usage \in [input : Nat, output : Nat]
    BY PolicyAssumption DEF TypeInv
  <1> QED BY <1>1 DEF Kinds, NoUsage

\* The fold that sums what the replies of a team report, unfolded once.
LEMMA ReportedFold ==
  ASSUME TypeInv, Team \subseteq Agents, NEW k \in Kinds
  PROVE  \E sum :
           /\ Reported(k) = sum[Team] /\ sum[{}] = 0
           /\ \A s \in (SUBSET Team) \ {{}} : \E x \in s : sum[s] = reply[x].usage[k] + sum[s \ {x}]
  <1> DEFINE F(f) == [s \in SUBSET Team |->
                        IF s = {} THEN 0
                        ELSE LET x == CHOOSE y \in s : TRUE
                             IN  reply[x].usage[k] + f[s \ {x}]]
             sum == CHOOSE f : f = F(f)
             Of(a, s) == IF a \in s THEN reply[a].usage[k] ELSE 0
             table == [s \in SUBSET Team |->
                         Of("analyst", s) + Of("design", s) + Of("test", s) + Of("risk", s)
                           + Of("synthesis", s) + Of("review", s)]
  <1>1. Reported(k) = sum[Team]
    BY DEF Reported, MapThenSumSet, MapThenFoldSet
  <1>2. \A s \in SUBSET Team : table[s] = F(table)[s]
    <2> TAKE s \in SUBSET Team
    <2>1. CASE s = {}
      BY <2>1
    <2>2. CASE s # {}
      <3> DEFINE x == CHOOSE y \in s : TRUE
      <3>1. x \in s
        BY <2>2
      <3>2. x \in Agents /\ s \ {x} \in SUBSET Team
        BY <3>1
      <3>3. \A a \in Agents : reply[a].usage[k] \in Nat
        BY UsageType
      <3>4. \A a \in Agents : Of(a, s) \in Nat /\ Of(a, s \ {x}) = IF a = x THEN 0 ELSE Of(a, s)
        BY <3>3
      <3>5. Of(x, s) = reply[x].usage[k]
        BY <3>1
      <3>6. F(table)[s] = reply[x].usage[k] + table[s \ {x}]
        BY <2>2
      <3> HIDE DEF x
      <3>7. x \in {"analyst", "design", "test", "risk", "synthesis", "review"}
        BY <3>2 DEF Agents
      <3>8. /\ table[s] = Of("analyst", s) + Of("design", s) + Of("test", s) + Of("risk", s)
                            + Of("synthesis", s) + Of("review", s)
            /\ table[s \ {x}] = Of("analyst", s \ {x}) + Of("design", s \ {x}) + Of("test", s \ {x})
                                  + Of("risk", s \ {x}) + Of("synthesis", s \ {x}) + Of("review", s \ {x})
        BY <3>2
      <3> HIDE DEF Of, table
      <3> QED BY <3>4, <3>5, <3>6, <3>7, <3>8 DEF Agents
    <2> QED BY <2>1, <2>2
  <1>3. table = F(table)
    BY <1>2
  <1>4. sum = F(sum)
    BY <1>3
  <1> HIDE DEF sum
  <1>5. sum[{}] = 0
    BY <1>4
  <1>6. \A s \in (SUBSET Team) \ {{}} : \E x \in s : sum[s] = reply[x].usage[k] + sum[s \ {x}]
    <2> TAKE s \in (SUBSET Team) \ {{}}
    <2> DEFINE x == CHOOSE y \in s : TRUE
    <2>1. x \in s
      OBVIOUS
    <2>2. sum[s] = reply[x].usage[k] + sum[s \ {x}]
      BY <1>4
    <2> QED BY <2>1, <2>2
  <1> QED BY <1>1, <1>5, <1>6

\* For the teams of the plan, one agent or the three specialists, that is what
\* all replies report, those of the agents outside the team being empty.
LEMMA ReportedIsUsed ==
  ASSUME TypeInv, NEW s \in Slots, NEW t \in Specialists, Team = Crew(s, t), NEW k \in Kinds,
         \A a \in Agents \ Team : reply[a].usage = NoUsage
  PROVE  Reported(k) = Used(k)
  <1>1. Team \subseteq Agents
    BY CrewOf
  <1>2. PICK sum : /\ Reported(k) = sum[Team] /\ sum[{}] = 0
                   /\ \A u \in (SUBSET Team) \ {{}} :
                        \E x \in u : sum[u] = reply[x].usage[k] + sum[u \ {x}]
    BY <1>1, ReportedFold
  <1>3. /\ \A a \in Agents : reply[a].usage[k] \in Nat
        /\ \A a \in Agents \ Team : reply[a].usage[k] = 0
    BY UsageType
  <1>4. \A x \in Team : sum[{x}] = reply[x].usage[k]
    <2> TAKE x \in Team
    <2>1. {x} \in (SUBSET Team) \ {{}} /\ {x} \ {x} = {}
      OBVIOUS
    <2>2. sum[{x}] = reply[x].usage[k] + sum[{x} \ {x}]
      BY <1>2, <2>1
    <2> QED BY <1>1, <1>2, <1>3, <2>1, <2>2
  <1>5. CASE s # 1
    <2>1. PICK x \in Agents : Team = {x}
      BY <1>5, CrewOf DEF Agents, Specialists
    <2>2. Reported(k) = reply[x].usage[k]
      BY <1>2, <1>4, <2>1
    <2>3. \A a \in Agents : a # x => reply[a].usage[k] = 0
      BY <1>3, <2>1
    <2>4. \A a \in Agents : reply[a].usage[k] = IF a = x THEN reply[x].usage[k] ELSE 0
      BY <2>3
    <2>5. reply[x].usage[k] \in Nat /\ x \in {"analyst", "design", "test", "risk", "synthesis", "review"}
      BY <1>3 DEF Agents
    <2>6. Used(k) = reply[x].usage[k]
      BY <2>4, <2>5 DEF Used, Agents
    <2> QED BY <2>2, <2>6
  <1>6. CASE s = 1
    <2>1. Team = Specialists
      BY <1>6, CrewOf
    <2>2. ASSUME NEW x \in Team, NEW y \in Team, x # y
          PROVE  sum[{x, y}] = reply[x].usage[k] + reply[y].usage[k]
      <3> DEFINE pair == {x, y}
      <3>1. pair \in (SUBSET Team) \ {{}} /\ pair \ {x} = {y} /\ pair \ {y} = {x}
        BY <2>2
      <3>2. \A z \in pair : z = x \/ z = y
        OBVIOUS
      <3> HIDE DEF pair
      <3>3. PICK z \in pair : sum[pair] = reply[z].usage[k] + sum[pair \ {z}]
        BY <1>2, <3>1
      <3>4. \/ sum[pair] = reply[x].usage[k] + sum[{y}]
            \/ sum[pair] = reply[y].usage[k] + sum[{x}]
        BY <3>1, <3>2, <3>3
      <3>5. reply[x].usage[k] \in Nat /\ reply[y].usage[k] \in Nat
        BY <1>1, <1>3
      <3>6. sum[{x}] = reply[x].usage[k] /\ sum[{y}] = reply[y].usage[k]
        BY <1>4
      <3>7. sum[pair] = reply[x].usage[k] + reply[y].usage[k]
        BY <3>4, <3>5, <3>6
      <3> QED BY <3>7 DEF pair
    <2>3. PICK z \in Team : sum[Team] = reply[z].usage[k] + sum[Team \ {z}]
      BY <1>2, <2>1 DEF Specialists
    <2>4. /\ Team \ {"design"} = {"test", "risk"} /\ Team \ {"test"} = {"design", "risk"}
          /\ Team \ {"risk"} = {"design", "test"}
      BY <2>1 DEF Specialists
    <2>5. /\ "design" \in Team /\ "test" \in Team /\ "risk" \in Team
          /\ z \in {"design", "test", "risk"}
      BY <2>1 DEF Specialists
    <2>6. sum[Team] = reply["design"].usage[k] + reply["test"].usage[k] + reply["risk"].usage[k]
      <3> DEFINE d == reply["design"].usage[k]
                 e == reply["test"].usage[k]
                 r == reply["risk"].usage[k]
      <3>1. /\ sum[{"test", "risk"}] = e + r
            /\ sum[{"design", "risk"}] = d + r
            /\ sum[{"design", "test"}] = d + e
        BY <2>2, <2>5
      <3>2. d \in Nat /\ e \in Nat /\ r \in Nat
        BY <1>1, <1>3, <2>5
      <3>3. /\ z = "design" => sum[Team] = d + sum[{"test", "risk"}]
            /\ z = "test" => sum[Team] = e + sum[{"design", "risk"}]
            /\ z = "risk" => sum[Team] = r + sum[{"design", "test"}]
        BY <2>3, <2>4
      <3> HIDE DEF d, e, r
      <3>4. sum[Team] = d + e + r
        BY <2>5, <3>1, <3>2, <3>3
      <3> QED BY <3>4 DEF d, e, r
    <2>7. \A a \in Agents : a \notin Specialists => reply[a].usage[k] = 0
      BY <1>3, <2>1
    <2>8. /\ reply["analyst"].usage[k] = 0 /\ reply["synthesis"].usage[k] = 0
          /\ reply["review"].usage[k] = 0
      BY <2>7 DEF Agents, Specialists
    <2>9. /\ reply["design"].usage[k] \in Nat /\ reply["test"].usage[k] \in Nat
          /\ reply["risk"].usage[k] \in Nat
      BY <1>1, <1>3, <2>5
    <2> QED BY <1>2, <2>6, <2>8, <2>9 DEF Used
  <1> QED BY <1>5, <1>6

\* What the replies report follows from what each reports.
LEMMA UsedSame ==
  ASSUME \A a \in Agents : reply'[a].usage = reply[a].usage, NEW k
  PROVE  Used(k)' = Used(k)
  BY DEF Used, Agents

\* No reply, no tokens.
LEMMA UsedNone ==
  ASSUME \A a \in Agents : reply'[a].usage = NoUsage, NEW k \in Kinds
  PROVE  Used(k)' = 0
  <1>1. NoUsage[k] = 0
    BY DEF Kinds, NoUsage
  <1> QED BY <1>1 DEF Used, Agents

\* The answer of one agent adds its tokens, that agent having reported none yet.
LEMMA UsedMore ==
  ASSUME TypeInv, NEW a \in Agents, NEW e, NEW k \in Kinds, e.usage[k] \in Nat,
         reply[a].usage = NoUsage, reply' = [reply EXCEPT ![a] = e]
  PROVE  Used(k)' = Used(k) + e.usage[k]
  <1>1. /\ \A b \in Agents : reply[b].usage[k] \in Nat
        /\ reply[a].usage[k] = 0
    BY UsageType
  <1>2. \A b \in Agents : reply'[b].usage[k] = reply[b].usage[k] + (IF b = a THEN e.usage[k] ELSE 0)
    BY <1>1 DEF TypeInv
  <1> DEFINE old(b) == reply[b].usage[k]
             new(b) == reply'[b].usage[k]
             more == e.usage[k]
  <1>3. /\ \A b \in Agents : old(b) \in Nat /\ new(b) = IF b = a THEN more ELSE old(b)
        /\ old(a) = 0 /\ more \in Nat
    BY <1>1, <1>2
  <1>4. /\ Used(k) = old("analyst") + old("design") + old("test") + old("risk")
                       + old("synthesis") + old("review")
        /\ Used(k)' = new("analyst") + new("design") + new("test") + new("risk")
                        + new("synthesis") + new("review")
    BY DEF Used
  <1> HIDE DEF old, new, more
  <1>5. Used(k)' = Used(k) + more
    BY <1>3, <1>4 DEF Agents
  <1> QED BY <1>5 DEF more

\* Tokens are counted with the reply that reports them, or not at all.
LEMMA TokensPool ==
  ASSUME IInv, TokensInv, NEW a \in Agents, Begin(a) \/ Return(a) \/ Cancel(a)
  PROVE  TokensInv'
  <1>0. TypeInv /\ thread[a] \in {"queued", "executing"} /\ reply[a].usage = NoUsage
    BY DEF IInv, Begin, Return, Cancel, TokensInv
  <1>1. /\ UNCHANGED <<policy, tally, at, exit>>
        /\ Finished' = Finished
    BY PoolFrame DEF dataVars, Begin, Return, Cancel, poolFrame, schedulerFrame, Finished
  <1>2. CASE /\ spent' = spent
             /\ reply' = reply \/ \E c : reply' = [reply EXCEPT ![a] = Reply(c, NoUsage)]
             /\ \E st : thread' = [thread EXCEPT ![a] = st]
    <2>1. \A b \in Agents : reply'[b].usage = reply[b].usage
      BY <1>0, <1>2 DEF TypeInv, Reply
    <2>2. Used("input")' = Used("input") /\ Used("output")' = Used("output")
      BY <2>1, UsedSame
    <2>3. \A b \in Agents : thread'[b] # "done" => reply'[b].usage = NoUsage
      <3> TAKE b \in Agents
      <3>1. b # a => thread'[b] = thread[b]
        BY <1>0, <1>2 DEF TypeInv
      <3> QED BY <1>0, <2>1, <3>1 DEF TokensInv
    <2> QED BY <1>1, <1>2, <2>2, <2>3 DEF TokensInv
  <1>3. CASE \E e \in Envelopes :
               /\ ~TokensRefused(e.usage)
               /\ thread' = [thread EXCEPT ![a] = "done"]
               /\ reply' = [reply EXCEPT ![a] = e]
               /\ spent' = [input  |-> spent.input + e.usage.input,
                            output |-> spent.output + e.usage.output]
    <2>1. PICK e \in Envelopes :
               /\ ~TokensRefused(e.usage)
               /\ thread' = [thread EXCEPT ![a] = "done"]
               /\ reply' = [reply EXCEPT ![a] = e]
               /\ spent' = [input  |-> spent.input + e.usage.input,
                            output |-> spent.output + e.usage.output]
      BY <1>3
    <2>2. e.usage \in [input : Nat, output : Nat]
      BY PolicyAssumption DEF Envelopes, Reply
    <2>3. e.usage["input"] \in Nat /\ e.usage["output"] \in Nat
      BY <2>2
    <2>4. /\ Used("input")' = Used("input") + e.usage["input"]
          /\ Used("output")' = Used("output") + e.usage["output"]
      BY <1>0, <2>1, <2>3, UsedMore DEF Kinds
    <2>5. spent.input \in Nat /\ spent.output \in Nat
      BY <1>0, PolicyNumbers DEF TypeInv
    <2>6. spent'.input = spent.input + e.usage.input /\ spent'.output = spent.output + e.usage.output
      BY <2>1
    <2>7. /\ policy.tokens.runTotal \in Nat /\ policy.tokens.reserve \in Nat
      BY <1>0, PolicyAssumption DEF TypeInv, ValidPolicy, ValidTokens
    <2>8. spent'.input + spent'.output <= policy'.tokens.runTotal - policy'.tokens.reserve
      BY <1>1, <2>1, <2>2, <2>5, <2>6, <2>7 DEF TokensRefused
    <2>9. \A b \in Agents : thread'[b] # "done" => reply'[b].usage = NoUsage
      BY <1>0, <2>1 DEF TokensInv, TypeInv
    <2>10. \A k \in Kinds : reply["analyst"].usage[k] \in Nat /\ reply["design"].usage[k] \in Nat
             /\ reply["test"].usage[k] \in Nat /\ reply["risk"].usage[k] \in Nat
             /\ reply["synthesis"].usage[k] \in Nat /\ reply["review"].usage[k] \in Nat
      BY <1>0, UsageType DEF Agents
    <2>11. Used("input") \in Nat /\ Used("output") \in Nat
      BY <2>10 DEF Used, Kinds
    <2>12. at \in {"plan", "stage", "waiting", "draining"} \/ Finished =>
             /\ spent'.input = tally["input"] + Used("input")'
             /\ spent'.output = tally["output"] + Used("output")'
      <3>1. tally["input"] \in Nat /\ tally["output"] \in Nat
        BY DEF TokensInv
      <3> QED BY <2>3, <2>4, <2>5, <2>6, <2>11, <3>1 DEF TokensInv
    <2> QED BY <1>1, <2>8, <2>9, <2>12 DEF TokensInv
  <1> QED BY <1>2, <1>3 DEF Begin, Return, Cancel, Raise, schedulerFrame, guardVars

\* A stage's tokens go from its replies to its results.
LEMMA TokensDone ==
  ASSUME IInv, CallsInv, TokensInv, StageDone
  PROVE  TokensInv'
  <1>0. TypeInv /\ slot \in Slots
    BY DEF IInv, TypeInv
  <1>1. /\ at = "waiting" /\ UNCHANGED <<policy, spent, exit>>
        /\ thread' = Idle /\ reply' = NoReply
    BY DEF StageDone, Fail, guardVars
  <1>2. exit = "none"
    BY <1>1, NotFinished
  <1>3. \A a \in Agents : reply'[a].usage = NoUsage
    BY <1>1 DEF NoReply, Reply
  <1>4. CASE at' = "failing" /\ tally' = tally
    BY <1>1, <1>2, <1>3, <1>4 DEF TokensInv, Finished
  <1>5. CASE tally' = [k \in {"input", "output"} |-> tally[k] + Reported(k)]
    <2>1. PICK t \in Specialists : Team = Crew(slot, t)
      BY <1>1, WaitingTeam
    <2>2. \A a \in Agents \ Team : reply[a].usage = NoUsage
      BY <1>1 DEF CallsInv, TokensInv
    <2>3. Reported("input") = Used("input") /\ Reported("output") = Used("output")
      BY <1>0, <2>1, <2>2, ReportedIsUsed DEF Kinds
    <2>4. Used("input")' = 0 /\ Used("output")' = 0
      BY <1>3, UsedNone DEF Kinds
    <2>5. tally'["input"] = spent.input /\ tally'["output"] = spent.output
      BY <1>1, <1>5, <2>3 DEF TokensInv
    <2>6. spent.input \in Nat /\ spent.output \in Nat
      BY <1>0, PolicyNumbers DEF TypeInv
    <2>7. tally' \in [{"input", "output"} -> Nat]
      BY <1>5, <2>5, <2>6
    <2> QED BY <1>1, <1>3, <2>4, <2>5, <2>6, <2>7 DEF TokensInv
  <1> QED BY <1>4, <1>5 DEF StageDone, Fail

\* Every step keeps the tokens.
LEMMA TokensStep == IInv /\ CallsInv /\ TokensInv /\ [Next]_vars => TokensInv'
  <1> SUFFICES ASSUME IInv, CallsInv, TokensInv, [Next]_vars PROVE TokensInv'
    OBVIOUS
  <1>0. TypeInv /\ PoolInv
    BY DEF IInv
  <1>1. CASE \E a \in Agents : Begin(a) \/ Return(a) \/ Cancel(a)
    BY <1>1, TokensPool
  <1>2. CASE StageDone
    BY <1>2, TokensDone
  <1>3. ASSUME reply' = reply
        PROVE  Used("input")' = Used("input") /\ Used("output")' = Used("output")
    BY <1>3 DEF Used
  <1>4. ASSUME UNCHANGED <<policy, spent, tally, reply>>,
               \A a \in Agents : thread[a] = "done" => thread'[a] = "done",
               (at' \in {"plan", "stage", "waiting", "draining"} \/ Finished')
                  => at \in {"plan", "stage", "waiting", "draining"} \/ Finished
        PROVE  TokensInv'
    BY <1>3, <1>4 DEF TokensInv
  <1>5. CASE StartPlanning
    BY <1>4, <1>5 DEF StartPlanning, poolVars, dataVars, guardVars
  <1>6. CASE EnterStage
    <2>1. UNCHANGED <<policy, spent, tally, reply>> /\ at = "stage"
      BY <1>6 DEF EnterStage, guardVars
    <2>2. \A a \in Agents : thread[a] # "done"
      BY <1>0, <2>1 DEF PoolInv, Idle
    <2> QED BY <1>4, <2>1, <2>2
  <1>7. CASE (\E a \in Agents : Collect(a)) \/ Timeout
    <2>1. UNCHANGED <<policy, spent, tally, reply, thread>> /\ at = "waiting"
      BY <1>7 DEF Collect, Timeout, schedulerFrame, dataVars, guardVars, poolVars
    <2> QED BY <1>4, <2>1
  <1>8. CASE Drained
    <2>1. /\ at = "draining" /\ at' = "failing" /\ reply' = NoReply
          /\ UNCHANGED <<policy, spent, tally, exit>>
      BY <1>8 DEF Drained, schedulerFrame, dataVars, guardVars
    <2>2. exit = "none" /\ \A a \in Agents : reply'[a].usage = NoUsage
      BY <2>1, NotFinished DEF NoReply, Reply
    <2> QED BY <2>1, <2>2 DEF TokensInv, Finished
  <1>9. CASE Accept \/ Reject \/ RejectAgain
    <2>1. UNCHANGED <<policy, spent, tally, reply, thread>> /\ at = "review"
      BY <1>9 DEF Accept, Reject, RejectAgain, reviewFrame, poolVars, dataVars
    <2> QED BY <1>4, <2>1 DEF Finished
  <1>10. CASE PersistFailure \/ Persist
    <2>1. UNCHANGED <<policy, spent, tally, reply, thread>> /\ at' = "ended"
      BY <1>10 DEF PersistFailure, Persist, endFrame, poolVars, dataVars, guardVars
    <2>2. Finished' => Finished
      BY <1>10 DEF PersistFailure, Persist, Finished
    <2> QED BY <1>4, <2>1, <2>2
  <1>11. CASE UNCHANGED <<policy, controlVars, poolVars, dataVars, guardVars>>
    <2>1. UNCHANGED <<policy, spent, tally, reply, thread, at, exit>>
      BY <1>11 DEF controlVars, poolVars, dataVars, guardVars
    <2> QED BY <1>4, <2>1 DEF Finished
  <1> QED BY <1>1, <1>2, <1>5, <1>6, <1>7, <1>8, <1>9, <1>10, <1>11
          DEF Next, Main, DeadlinePasses, vars

-------------------------------------------------------------------------------
(* The revision *)

\* The one revision a run asks for is counted when its slot is entered.
LEMMA RevisionStep == IInv /\ RevisionInv /\ [Next]_vars => RevisionInv'
  <1> SUFFICES ASSUME IInv, RevisionInv, [Next]_vars PROVE RevisionInv'
    OBVIOUS
  <1>0. TypeInv /\ ControlInv /\ slot \in Slots
    BY DEF IInv, TypeInv
  <1>1. CASE Reject
    <2>1. at = "review" /\ slot = 3 /\ exit' = exit /\ verdict' = verdict /\ revisions' = revisions + 1
      BY <1>1 DEF Reject, reviewFrame, dataVars
    <2>2. revisions = 0 /\ exit = "none" /\ verdict.decision = "REJECT"
      BY <1>0, <1>1, <2>1 DEF Reject, ControlInv, TypeInv
    <2>3. slot' \in {3, 4}
      BY <1>1, <2>1 DEF Reject, Fail, Finish
    <2> QED BY <2>1, <2>2, <2>3 DEF RevisionInv
  <1>2. CASE Accept
    <2>1. at = "review" /\ slot' = slot /\ revisions' = revisions /\ slot \in {3, 6}
      BY <1>0, <1>2 DEF Accept, Finish, ControlInv
    <2>2. slot = 3 => revisions = 0
      BY <1>0, <2>1 DEF ControlInv, TypeInv
    <2> QED BY <2>1, <2>2 DEF RevisionInv
  <1>3. CASE RejectAgain
    <2>1. slot = 6 /\ slot' = slot /\ revisions' = revisions
      BY <1>3 DEF RejectAgain, Finish
    <2> QED BY <2>1 DEF RevisionInv
  <1>4. CASE StageDone
    <2>1. at' \in {"failing", "review", "stage"} /\ exit' = exit /\ exit = "none" /\ revisions' = revisions
      BY <1>0, <1>4 DEF StageDone, Fail, guardVars, ControlInv, TypeInv
    <2>2. slot' >= 4 => slot >= 4
      BY <1>0, <1>4 DEF StageDone, Fail, Slots
    <2> QED BY <2>1, <2>2 DEF RevisionInv
  <1>5. ASSUME NEW a \in Agents, Begin(a) \/ Return(a) \/ Cancel(a) PROVE RevisionInv'
    BY <1>5, PoolFrame DEF dataVars, RevisionInv
  <1>6. CASE StartPlanning \/ EnterStage \/ (\E a \in Agents : Collect(a)) \/ Timeout \/ Drained
    <2>1. slot' = slot /\ revisions' = revisions /\ exit' = exit /\ at' # "persisting"
      BY <1>6 DEF StartPlanning, EnterStage, Fail, Collect, Timeout, Drained, Drain,
                  schedulerFrame, guardVars
    <2>2. exit = "none"
      BY <1>6, NotFinished DEF StartPlanning, EnterStage, Collect, Timeout, Drained
    <2> QED BY <2>1, <2>2 DEF RevisionInv
  <1>7. CASE PersistFailure \/ Persist
    <2>1. slot' = slot /\ revisions' = revisions /\ verdict' = verdict /\ at' = "ended"
      BY <1>7 DEF PersistFailure, Persist, endFrame, dataVars, guardVars
    <2>2. exit' \in {"completed", "rejected"} => at = "persisting"
      BY <1>7 DEF PersistFailure, Persist
    <2> QED BY <2>1, <2>2 DEF RevisionInv
  <1>8. CASE UNCHANGED <<controlVars, dataVars, guardVars>>
    BY <1>8 DEF controlVars, dataVars, guardVars, RevisionInv
  <1> QED BY <1>1, <1>2, <1>3, <1>4, <1>5, <1>6, <1>7, <1>8
          DEF Next, Main, DeadlinePasses, vars

-------------------------------------------------------------------------------
(* The theorem *)

\* Nothing has been counted in the beginning.
LEMMA BudgetInit == Init => BudgetInv
  <1> SUFFICES ASSUME Init PROVE BudgetInv
    OBVIOUS
  <1>1. StagesInv /\ RevisionInv
    BY DEF Init, StagesInv, RevisionInv, Finished, Slots
  <1>2. CallsInv
    BY DEF Init, CallsInv, Finished, Before, NoReply, Reply
  <1>3. \A a \in Agents : reply[a].usage = NoUsage
    BY DEF Init, NoReply, Reply
  <1>4. Used("input") = 0 /\ Used("output") = 0
    BY <1>3 DEF Used, Agents, NoUsage
  <1>5. tally \in [{"input", "output"} -> Nat] /\ tally["input"] = 0 /\ tally["output"] = 0
    BY DEF Init, NoUsage
  <1>6. policy.tokens.reserve < policy.tokens.runTotal
        /\ policy.tokens.runTotal \in Nat /\ policy.tokens.reserve \in Nat
    BY PolicyAssumption DEF Init, ValidPolicy, ValidTokens
  <1>7. spent.input = 0 /\ spent.output = 0
    BY DEF Init, NoUsage
  <1> QED BY <1>1, <1>2, <1>3, <1>4, <1>5, <1>6, <1>7 DEF BudgetInv, TokensInv

\* What is kept, the calls, the tokens and the revision agree throughout a run.
THEOREM BudgetInvariance == Spec => [](IInv /\ BudgetInv)
  <1>1. Init => IInv /\ BudgetInv
    BY InitIInv, BudgetInit
  <1>2. (IInv /\ BudgetInv) /\ [Next]_vars => (IInv /\ BudgetInv)'
    BY StepIInv, StagesStep, CallsStep, TokensStep, RevisionStep DEF BudgetInv
  <1> QED BY <1>1, <1>2, PTL DEF Spec

SpanOf(a, s) ==
  [agent |-> a, stage |-> s, round |-> IF s >= 4 THEN 1 ELSE 0,
   parent |-> IF s = 4 THEN "revision" ELSE "coordinator"]
SpansOf(s) == {SpanOf(a, s) : a \in TeamOf(s)}
SpansTo(s) == UNION {SpansOf(r) : r \in {r \in Slots : r <= s}}

\* A slot has a span for each of its agents.
LEMMA SpansOfSlot ==
  ASSUME NEW s \in Slots
  PROVE  IsFiniteSet(SpansOf(s)) /\ Cardinality(SpansOf(s)) = Size(s)
  <1>1. \A x : IsFiniteSet({x}) /\ Cardinality({x}) = 1
    BY FS_Singleton
  <1>2. CASE s # 1
    <2>1. \/ TeamOf(s) = {"analyst"} \/ TeamOf(s) = {"synthesis"} \/ TeamOf(s) = {"review"}
          \/ TeamOf(s) = {verdict.target}
      <3>1. s \in {0, 2, 3, 4, 5, 6}
        BY <1>2 DEF Slots
      <3> QED BY <3>1, PlanStages DEF TeamOf
    <2>2. \A x : TeamOf(s) = {x} => SpansOf(s) = {SpanOf(x, s)}
      BY DEF SpansOf
    <2>3. \E y : SpansOf(s) = {y}
      BY <2>1, <2>2
    <2> QED BY <1>1, <1>2, <2>3 DEF Size
  <1>3. CASE s = 1
    <2>1. TeamOf(s) = {"design", "test", "risk"}
      BY <1>3, PlanStages DEF TeamOf, Specialists
    <2> DEFINE one == {SpanOf("design", s)}
               two == one \cup {SpanOf("test", s)}
    <2>2. /\ SpanOf("test", s) # SpanOf("design", s) /\ SpanOf("risk", s) # SpanOf("design", s)
          /\ SpanOf("risk", s) # SpanOf("test", s)
      BY DEF SpanOf
    <2>3. /\ IsFiniteSet(one) /\ Cardinality(one) = 1
          /\ SpanOf("test", s) \notin one /\ SpanOf("risk", s) \notin two
      BY <1>1, <2>2
    <2>4. SpansOf(s) = two \cup {SpanOf("risk", s)}
      BY <2>1 DEF SpansOf
    <2> HIDE DEF one
    <2>5. IsFiniteSet(two) /\ Cardinality(two) = 2
      BY <2>3, FS_AddElement
    <2> HIDE DEF two
    <2> QED BY <1>3, <2>3, <2>4, <2>5, FS_AddElement DEF Size
  <1> QED BY <1>2, <1>3

\* The spans of the slots up to one are as many as their agents.
LEMMA SpansAddUp == \A s \in Slots : IsFiniteSet(SpansTo(s)) /\ Cardinality(SpansTo(s)) = UpTo(s)
  <1>1. ASSUME NEW s \in 0..5, IsFiniteSet(SpansTo(s)), Cardinality(SpansTo(s)) = UpTo(s)
        PROVE  IsFiniteSet(SpansTo(s + 1)) /\ Cardinality(SpansTo(s + 1)) = UpTo(s + 1)
    <2>1. s + 1 \in Slots /\ s \in Slots
      BY DEF Slots
    <2>2. {r \in Slots : r <= s + 1} = {r \in Slots : r <= s} \cup {s + 1}
      BY DEF Slots
    <2>3. SpansTo(s + 1) = SpansTo(s) \cup SpansOf(s + 1)
      BY <2>2 DEF SpansTo
    <2>4. SpansTo(s) \cap SpansOf(s + 1) = {}
      <3> SUFFICES ASSUME NEW x \in SpansTo(s), x \in SpansOf(s + 1) PROVE FALSE
        OBVIOUS
      <3>1. PICK r \in Slots : r <= s /\ x \in SpansOf(r)
        BY DEF SpansTo
      <3>2. x.stage = r /\ x.stage = s + 1
        BY <3>1 DEF SpansOf, SpanOf
      <3> QED BY <3>1, <3>2 DEF Slots
    <2>5. IsFiniteSet(SpansOf(s + 1)) /\ Cardinality(SpansOf(s + 1)) = Size(s + 1)
      BY <2>1, SpansOfSlot
    <2>6. /\ UpTo(s) \in Nat /\ Size(s + 1) \in Nat
          /\ UpTo(s) + Size(s + 1) = UpTo(s + 1)
      BY DEF UpTo, Size
    <2> DEFINE common == SpansTo(s) \cap SpansOf(s + 1)
    <2>7. Cardinality(common) = 0
      BY <2>4, FS_EmptySet
    <2>8. /\ IsFiniteSet(SpansTo(s + 1))
          /\ Cardinality(SpansTo(s + 1)) = UpTo(s) + Size(s + 1) - Cardinality(common)
      BY <1>1, <2>3, <2>5, FS_Union
    <2> HIDE DEF common
    <2> QED BY <2>6, <2>7, <2>8
  <1>2. IsFiniteSet(SpansTo(0)) /\ Cardinality(SpansTo(0)) = UpTo(0)
    <2>1. {r \in Slots : r <= 0} = {0}
      BY DEF Slots
    <2>2. SpansTo(0) = SpansOf(0)
      BY <2>1 DEF SpansTo
    <2> QED BY <2>2, SpansOfSlot DEF Slots, Size, UpTo
  <1> DEFINE Good(s) == IsFiniteSet(SpansTo(s)) /\ Cardinality(SpansTo(s)) = UpTo(s)
  <1>3. Good(0) /\ \A s \in 0..5 : Good(s) => Good(s + 1)
    BY <1>1, <1>2
  <1> HIDE DEF Good
  <1>4. Good(0) /\ Good(1) /\ Good(2) /\ Good(3) /\ Good(4) /\ Good(5) /\ Good(6)
    BY <1>3
  <1> QED BY <1>4 DEF Good, Slots

\* What a finished run says it cost is what its guard charged it: every counted
\* call and token belongs to a result that was kept, no race of a stage's agents
\* reaches into the retry reserve, and nine calls always suffice.
THEOREM CostsAreCharges == Spec => []BudgetsAreExact
  <1>1. IInv /\ BudgetInv => BudgetsAreExact
    <2> SUFFICES ASSUME IInv, BudgetInv PROVE BudgetsAreExact
      OBVIOUS
    <2>1. spent.input + spent.output <= policy.tokens.runTotal - policy.tokens.reserve
      BY DEF BudgetInv, TokensInv
    <2>2. policy.maxCalls >= 9 => error # "CALL_BUDGET_EXCEEDED"
      BY PolicyAssumption DEF BudgetInv, CallsInv, IInv, TypeInv, ValidPolicy
    <2>3. ASSUME exit \in {"completed", "rejected"}
          PROVE  /\ Metrics.llm_call_count = BudgetUsage.llm_calls
                 /\ Metrics.input_tokens = BudgetUsage.input_tokens
                 /\ Metrics.output_tokens = BudgetUsage.output_tokens
                 /\ Metrics.revision_count =
                      IF exit = "rejected" /\ slot = 3 THEN 0 ELSE BudgetUsage.revision_count
      <3>1. Finished /\ at = "ended" /\ slot \in {3, 6}
        BY <2>3 DEF Finished, IInv, ControlInv
      <3>2. stages = {s \in Slots : s <= slot} /\ calls = UpTo(slot)
        BY <3>1 DEF BudgetInv, StagesInv, CallsInv
      <3>3. Spans = SpansTo(slot)
        BY <3>2 DEF Spans, SpansTo, SpansOf, SpanOf
      <3>4. Cardinality(Spans) = calls
        BY <3>1, <3>2, <3>3, SpansAddUp DEF Slots
      <3>5. \A a \in Agents : reply[a].usage = NoUsage
        BY <3>1 DEF BudgetInv, TokensInv, IInv, PoolInv, Idle
      <3>6. Used("input") = 0 /\ Used("output") = 0
        BY <3>5 DEF Used, Agents, NoUsage
      <3>7. spent.input = tally["input"] /\ spent.output = tally["output"]
        BY <3>1, <3>6 DEF BudgetInv, TokensInv
      <3>8. round = IF exit = "rejected" /\ slot = 3 THEN 0 ELSE revisions
        <4>1. CASE slot = 6
          BY <4>1 DEF BudgetInv, RevisionInv, IInv, ControlInv
        <4>2. CASE slot = 3
          <5>1. round = 0
            BY <2>3, <3>1, <4>2 DEF IInv, ControlInv
          <5>2. exit = "completed" => revisions = 0
            BY <4>2 DEF BudgetInv, RevisionInv, IInv, ReviewInv
          <5> QED BY <2>3, <4>2, <5>1, <5>2
        <4> QED BY <3>1, <4>1, <4>2
      <3> QED BY <3>4, <3>7, <3>8 DEF Metrics, BudgetUsage
    <2> QED BY <2>1, <2>2, <2>3 DEF BudgetsAreExact
  <1> QED BY <1>1, BudgetInvariance, PTL

================================================================================
