----------------------------- MODULE PlanCompiler -----------------------------
(***************************************************************************)
(* How a run gets its plan, coordinator/coordinator.py:plan: a structural  *)
(* specification is compiled into stages (plan/compiler.py), validated     *)
(* (plan/validator.py), given one task brief per agent (plan/enricher.py)  *)
(* and bound into tasks.  In production the specification is the planner's *)
(* fixed topology; the compiler is written for any, and is checked here    *)
(* for every one of Specs.                                                 *)
(*                                                                         *)
(* Abstracted: texts, prompts and hashes (a hash names the plan it is of), *)
(* constraints (the planner gives every agent one), agent identities       *)
(* beyond their ids.                                                       *)
(***************************************************************************)
EXTENDS DelegationPlan, Sequences, FiniteSets

CONSTANT Specs  \* structural specifications: agents, dependency entries

\* What StructuralDelegationSpec accepts: some agents, and entries that
\* need not be complete, unique or about known agents.
ASSUME SpecsAssumption ==
  \A s \in Specs :
    /\ IsFiniteSet(s.agents) /\ s.agents # {}
    /\ \A i \in 1..Len(s.entries) : IsFiniteSet(s.entries[i].on)

VARIABLES
  spec,      \* the specification being planned
  pc,        \* the step of plan() reached
  inDegree,  \* the compiler's count of unplaced dependencies, per agent
  queue,     \* agents whose count is zero and that have no stage yet
  stages,    \* the stages cut so far
  briefs,    \* the enricher's: agent -> its brief
  tasks      \* the executable plan: agent -> its task

plan == <<briefs, tasks>>
vars == <<spec, pc, inDegree, queue, stages, plan>>

\* DeterministicPlanner.generate: the analyst's empty entry comes last.
PlannedOrder == <<"design", "test", "risk", "synthesis", "review", "analyst">>
Planned ==
  [agents  |-> Agents,
   entries |-> [i \in 1..6 |-> [agent |-> PlannedOrder[i],
                                on    |-> DependsOn[PlannedOrder[i]]]]]

\* The compiler's dep_map: an agent without an entry depends on nothing.
Deps(s) ==
  [a \in s.agents |->
     UNION {s.entries[i].on : i \in {j \in 1..Len(s.entries) : s.entries[j].agent = a}}]

\* What compile() refuses before it sorts.
IllFormed(s) ==
  \E i \in 1..Len(s.entries) :
    \/ \E j \in 1..(i - 1) : s.entries[j].agent = s.entries[i].agent
    \/ s.entries[i].agent \notin s.agents
    \/ ~ (s.entries[i].on \subseteq s.agents)

Placement == {stages[k] : k \in 1..Len(stages)}
-------------------------------------------------------------------------------
Init ==
  /\ spec \in Specs
  /\ pc = "spec"
  /\ inDegree = [a \in spec.agents |-> 0]
  /\ queue = {}
  /\ stages = <<>>
  /\ briefs = <<>> /\ tasks = <<>>

RefuseSpec ==
  /\ pc = "spec" /\ IllFormed(spec)
  /\ pc' = "error_spec"
  /\ UNCHANGED <<spec, inDegree, queue, stages, plan>>

CountDependencies ==
  /\ pc = "spec" /\ ~ IllFormed(spec)
  /\ inDegree' = [a \in spec.agents |-> Cardinality(Deps(spec)[a])]
  /\ queue' = {a \in spec.agents : inDegree'[a] = 0}
  /\ pc' = "sort"
  /\ UNCHANGED <<spec, stages, plan>>

\* Mutant of CutStage: a successor is queued with the first of its
\* dependencies, not the last.
MutCutStage ==
  /\ pc = "sort" /\ queue # {}
  /\ LET freed(a) == Deps(spec)[a] \cap queue
     IN  /\ inDegree' = [a \in spec.agents |-> inDegree[a] - Cardinality(freed(a))]
         /\ queue' = {a \in spec.agents : freed(a) # {} /\ a \notin UNION Placement}
  /\ stages' = Append(stages, queue)
  /\ UNCHANGED <<spec, pc, plan>>

\* One pass of the outer loop: the whole queue is a stage; the agents whose
\* last counted dependency was in it are queued.
CutStage ==
  /\ pc = "sort" /\ queue # {}
  /\ LET freed(a) == Deps(spec)[a] \cap queue
     IN  /\ inDegree' = [a \in spec.agents |-> inDegree[a] - Cardinality(freed(a))]
         /\ queue' = {a \in spec.agents : freed(a) # {} /\ inDegree'[a] = 0}
  /\ stages' = Append(stages, queue)
  /\ UNCHANGED <<spec, pc, plan>>

Visited == LET cards[k \in 0..Len(stages)] ==
                 IF k = 0 THEN 0 ELSE cards[k - 1] + Cardinality(stages[k])
           IN  cards[Len(stages)]

RefuseCycle ==
  /\ pc = "sort" /\ queue = {} /\ Visited # Cardinality(spec.agents)
  /\ pc' = "error_cycle"
  /\ UNCHANGED <<spec, inDegree, queue, stages, plan>>

\* Mutant of Compiled: the comparison of the counts is forgotten.
MutCompiled ==
  /\ pc = "sort" /\ queue = {}
  /\ pc' = "compiled"
  /\ UNCHANGED <<spec, inDegree, queue, stages, plan>>

Compiled ==
  /\ pc = "sort" /\ queue = {} /\ Visited = Cardinality(spec.agents)
  /\ pc' = "compiled"
  /\ UNCHANGED <<spec, inDegree, queue, stages, plan>>

\* PlanValidator's three structural checks, on the stages and the entries.
StructureValid ==
  /\ UNION Placement = spec.agents
  /\ \A j, k \in 1..Len(stages) : j # k => stages[j] \cap stages[k] = {}
  /\ \A i \in 1..Len(spec.entries) : \A g \in Placement :
       spec.entries[i].agent \in g => spec.entries[i].on \cap g = {}

\* build_schema_registry: the ids it registers before it freezes.
Registered == Agents \X {"input", "output"}

\* _check_schema_ids: every id an agent names must be one of these.
SchemasKnown == spec.agents \X {"input", "output"} \subseteq Registered

Validate ==
  /\ pc = "compiled"
  /\ pc' = CASE ~ StructureValid -> "error_structure"
             [] StructureValid /\ ~ SchemasKnown -> "error_schema"
             [] StructureValid /\ SchemasKnown -> "validated"
  /\ UNCHANGED <<spec, inDegree, queue, stages, plan>>

\* A brief says whose it is, and has a provenance if a model wrote it.
Brief(a, status) ==
  [agent |-> a, status |-> status, provenance |-> status = "enriched"]

\* One model call; an answer that is no JSON or no object raises like one
\* that never comes.
EnrichOne(a) == {Brief(a, "enriched"), Brief(a, "degraded")}

\* Whatever fails in a call costs that agent its brief and nobody else's.
Enrich ==
  /\ pc = "validated"
  /\ briefs' \in {b \in [spec.agents -> UNION {EnrichOne(a) : a \in spec.agents}] :
                   \A a \in spec.agents : b[a] \in EnrichOne(a)}
  /\ pc' = "enriched"
  /\ UNCHANGED <<spec, inDegree, queue, stages, tasks>>

Task(a) ==
  [stage     |-> CHOOSE k \in 1..Len(stages) : a \in stages[k],
   dependsOn |-> Deps(spec)[a],
   brief     |-> briefs[a]]

Bind ==
  /\ pc = "enriched"
  /\ tasks' = [a \in spec.agents |-> Task(a)]
  /\ pc' = "planned"
  /\ UNCHANGED <<spec, inDegree, queue, stages, briefs>>

Next ==
  \/ RefuseSpec \/ CountDependencies \/ CutStage \/ RefuseCycle \/ Compiled
  \/ Validate \/ Enrich \/ Bind

Spec == Init /\ [][Next]_vars
-------------------------------------------------------------------------------
Cyclic(s) ==
  \E c \in (SUBSET s.agents) \ {{}} : \A a \in c : Deps(s)[a] \cap c # {}

(* The compiler refuses a specification for a cycle exactly when some       *)
(* agents wait for each other, whatever else depends on them; what it       *)
(* accepts always passes the validator's structural checks; and nothing     *)
(* refuses the planner's own topology.                                      *)
(* (PlanCompiler.compile counts placed agents; it never looks for a cycle.) *)
CyclesRejected ==
  /\ pc = "error_cycle" => Cyclic(spec)
  /\ pc \in {"compiled", "validated", "enriched", "planned"} => ~ Cyclic(spec)
  /\ pc # "error_structure"
  /\ spec = Planned => pc \notin {"error_spec", "error_cycle", "error_schema"}

(* The tasks of a plan run as early as they may and no earlier: an agent    *)
(* comes after everything it depends on, and right after the last of it, so *)
(* no stage could be merged into the one before.  The planner's topology    *)
(* gets the stages the multi-agent runner's model starts from.              *)
StagesAreLevels ==
  pc = "planned" =>
    /\ \A a \in spec.agents :
         LET d == tasks[a].dependsOn
         IN  /\ \A b \in d : tasks[b].stage < tasks[a].stage
             /\ tasks[a].stage > 1 => \E b \in d : tasks[b].stage = tasks[a].stage - 1
    /\ spec = Planned => /\ Len(stages) = 4
                         /\ \A k \in 1..4 : stages[k] = Stage(k - 1)
===============================================================================
