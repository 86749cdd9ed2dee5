# SpecFlow in TLA+

TLA+ models of SpecFlow (`src/specflow`), the TLC configurations that check
them on small instances, and TLAPS proofs of what holds for every instance.
Paths below are relative to `src/src/specflow` unless they say otherwise.

SpecFlow turns a requirement and a repository into reviewed delivery
artifacts. A run is started over HTTP or from the command line; a
single-flight coordinator lets equivalent runs share one execution; the
execution is either the multi-agent runner (a fixed plan of six agents with one
revision) or the legacy three-step workflow; every live provider call passes a
circuit breaker. The program is threaded: FastAPI serves requests on a thread
pool, the agents of a stage run on another, and all of them share the
coordinator, the quotas, the database and the breaker.

## Inventory

| component | source | state | operations | talks to |
|---|---|---|---|---|
| single-flight coordinator | `single_flight.py` | `_entries` by key, an outcome and an event per entry, one lock | `claim`, `complete`, `wait`, `execute_owned` | calls `admit` under its lock; called by the run service and the CLI |
| run quotas | `api_security.py` | bounded semaphore, 60 s window | `acquire`, `count_request`, `release` | inside and outside the coordinator's lock |
| run service, recovery | `runs.py`, `db.py`, `main.py` | rows of runs and decisions, run directories | `create`, `record_decision`, `recover_interrupted_runs` | coordinator, quotas, multi-agent runner |
| circuit breaker | `llm/resilience.py` | registry of circuits, slots, generations | `attempt`, `_before_attempt`, `_finish`, eviction | every provider call of every thread |
| multi-agent runner | `runner_multi.py` | outputs, handoffs, verdict, budgets | planning, stages, revision, persisting | scheduler, engine, guard, agents, run directory |
| stage scheduler | `coordinator/scheduler.py` | futures of a stage | submit, collect, time out, cancel, shut down | guard, agents |
| state machine, revision | `coordinator/state_machine.py`, `revision.py` | workflow state, round | `transition`, `request_revision` | runner |
| runtime guard | `policy/` | calls, tokens, revisions, deadline | `consume_*`, `check_*` | runner and every agent thread |
| plan, compiler, handoffs | `plan/`, `handoff/` | none beyond their values | compile, validate | runner |
| agents, adapter | `agents/` | none | `execute` | providers |
| legacy workflow, fallback | `runner.py`, `executor/`, `workflow/`, `workers/`, `fallback/`, `policy/budget.py` | workflow state, step results, traces, call budget | evidence, three steps, retry, degrade, store, exit code | evidence, token budget, providers, artifact store |
| evidence collection, tools | `evidence/`, `tools/` | the bundle so far, recorded calls | list, search, select, read, bundle | repository files; both runners |
| token budget | `token_budget/` | none beyond its values | estimate, trim, refuse | every worker |
| run directories | `artifacts/`, writers in `runner_multi.py` | a directory, a manifest, `_COMPLETE` | look, make, write, finalize, remove | both runners, run service |
| evaluation | `evaluation/` | none | recompute and compare what a run stored | run directories |
| context, scanner, providers, trace, MCP, projects, CLI, schemas | the directories of those names | little or none | mostly pure functions and I/O | the runners |

What is hard in it, and hard to test:

* **Shared execution.** Lookup, admission, execution, publication and removal
  of an entry interleave with followers that wait, time out and read without
  the lock, and with exceptions and cancellations at each of these points.
* **Durability against sharing.** A row is committed three times around an
  execution others wait for. Each commit can fail, and the process can die
  between any two; what a follower was told must stay true.
* **The breaker.** A result can arrive after its circuit has opened, closed or
  been evicted; probes of different half-open periods overlap.
* **Stages.** The main thread collects futures while they run, raise or wait in
  the queue, under a deadline and a shared call budget; a revision re-runs part
  of a plan whose earlier outputs still exist.
* **Files.** A run leaves its artifacts by a dozen writes. The name of its
  directory is computed from repository and requirement, so a rerun, or another
  process, meets what an earlier one left.
* **Degradation.** A legacy step that fails is replaced by a baseline and the
  run goes on; later steps wrap what they built on it, hash it again, and the
  exit code is put together from what the last steps report. Every step parses,
  sanitises and hashes its inputs anew, and sanitising twice is not sanitising
  once.
* **Limits.** Calls, tokens, files, characters and matches each run out on their
  own; what is left out has to be said.

`PROJECT.json` lists each hazard at its line with the properties about it, and
the reason where there is none.

## What makes each component correct

* Coordinator and quotas: one execution per key; an entry exists exactly while
  its owner executes; followers are given their own owner's outcome or a
  failure; permits are conserved; every follower returns.
* Run service: final rows stay; a follower's row never claims more than its
  owner's durable row; a served running row has a thread; a decision is only
  attached to a run that may carry one; what a crash interrupted is resolved.
* Breaker: slots are exactly the calls in flight; an open circuit holds until
  it cools; only the last probe of the current period closes it; aliases name
  one resource; a tripped circuit recovers.
* Multi-agent run: no agent works outside its stage; inputs are what the
  handoffs say; a finished run rests on the latest outputs; the status follows
  the review; the reported cost is what was charged, and no limit is passed or
  hit early; only legal transitions are asked for; the run ends.
* Compiler: exactly the graphs with a cycle are refused, and an agent's stage is
  the earliest its dependencies allow.
* Run directory: `_COMPLETE` vouches for exactly the files there; what a run
  reported stays, whatever later processes do.
* Evidence: within its limits, nothing quoted that was not read, nothing left
  out without saying so.
* Token budget: what is sent fits, and nothing was dropped for something less
  important.
* Legacy workflow: the outputs are one lineage of what was read; the exit code, the manifest
  and the traces tell what was degraded; every call charged is explained; the
  run ends.

## Modules

| module | models | state and actions |
|---|---|---|
| `CoalescedCalls` | the promise of single-flight, abstract | `running`, `joined`, `published`, `got`; `Begin`, `Join`, `End`, `Take`, `GiveUp` |
| `SingleFlight` | coordinator and quotas | one `pc` per request. `claim()`: `AcquireAsOwner`/`CountOwner`/`Refuse...` are `admit(True)` under the lock, `JoinCounted` is `admit(False)`, `OwnUnmetered`/`JoinUnmetered` a CLI call; `OwnerCompletes`/`OwnerRaises` the body; `ReleasePermit`/`RemoveEntry` the two halves of `finally`; `StartWait`, `Wake`, `WaitTimesOut`, `ReadOutcome` are `wait()`; `Direct...` the request that bypasses the coordinator |
| `RunService` | `RunService` over `SingleFlight` (composed by `INSTANCE`; the shared actions are conjoined) | rows, directories and decisions survive `Crash`, the rest does not; `AddRow`, `Activate` are the start commits, `Finish` the final one, `Publish` is `complete()`, `BeginReview`/`CommitDecision` the check and the insert of `record_decision`, `Restart` the lifespan |
| `RunTable` | the promise of the two tables, abstract | `row`, `decided`, and `open`, the runs a thread still carries on; `Add`, `Activate`, `Finish`, `Abandon`, `Decide`, `Die`, `Recover` |
| `CircuitBreaker` | the provider guard | `AttemptNew`, `AttemptRecycling`, `AttemptResident`, `AttemptCooled` are the four ways through `_before_attempt`; `Succeed`, `FailCounted`, `FailExcluded` through `_finish`; `CoolDown` is the passing of `open_seconds` |
| `DelegationPlan` | the fixed plan and its stages | constant operators |
| `MultiAgentRun` | the owned run, scheduler, engine, revision controller, guard | main thread: `StartPlanning`, `EnterStage`, `Collect`, `Timeout`, `Drained`, `StageDone`, `Accept`, `Reject`, `RejectAgain`, `Persist`, `PersistFailure`; pool: `Begin`, `Return`, `Cancel`; `DeadlinePasses` |
| `PlanCompiler` | planning, `plan/compiler.py`, enrichment and binding | a specification is compiled pass by pass: `CutStage` is one pass of Kahn's loop, `RefuseSpec`, `RefuseCycle` and `Compiled` its ends; `Validate`, `Enrich`, `Bind` follow. The specification is any of `Specs` |
| `RunDirectory` | one run id on disk, and the processes that compute it | `Begin` and `Look` are the two looks for the directory, `MakeDir` the mkdir, `Write` each artifact, `WriteFails`/`Unlink`/`Removed` a failing write and the store's cleanup, `WriteIntegrity`/`WriteMarker` the finalization, `Report` what the caller is told, `Crash` the end of a process anywhere |
| `ClaimedDirectory` | the promise of a run directory, abstract | `taken`, `writers`, `published`, `content`; `Take`, `Change`, `Publish`, `Leave`, `Free` |
| `EvidenceCollection` | `EvidenceCollector.collect` over the repository tools | `ListFiles`, `Search` (one keyword), `SelectFiles`, `ReadFile` (one file), `Bundle`; each tool call may fail |
| `TokenBudget` | `TokenBudgetManager.apply` | constant operators |
| `LegacyWorkflow` | a whole legacy run; extends the two above | `SetUp`, `CollectEvidence`, `StartExecutor`; per step `BuildPrompt`, then `Answered`/`Unusable`/`CallFails`/`BudgetRefuses`, `BackoffEnds`, `RecordTrace`; `Store`; each failure an action of its own |
| `RunEvaluation` | `evaluation/validators.py` on what a legacy run stored | operators over the state of `LegacyWorkflow` |
| `SingleFlightProofs`, `RunServiceProofs`, `CircuitBreakerProofs`, `DelegationPlanProofs`, `MultiAgentRunProofs`, `PlanCompilerProofs`, `RunDirectoryProofs`, `LegacyWorkflowProofs` | theorems about the modules they are named for; the last one also about evidence, token budget and evaluation | an inductive invariant each, lemmas, theorems |
| `MC...` | instances for TLC | |

An operator marked `Mutant:` is not part of any specification. It is the form a
plausible bug would give to the definition after it, and exists to show that
the properties notice that bug.

Abstractions to keep in mind when reading a result:

* Keys, results, payloads and tokens are opaque. An agent's output is named by
  the slot that produced it, which is what a `payload_ref` distinguishes.
* Clocks are single bits or choices: the per-minute window forgets any number
  of its oldest entries at any count, the breaker's cool-down and the run's
  deadline may pass at any time.
* Commits that raise are `StartRaises` and `FinishRaises`, bounded by
  `MaxFaults`; `DirectoryRemoved` stands for anyone deleting a run directory.
* The breaker's object references are keys. That is sound because an entry with
  a call in flight is never evicted, which `CallsAccounted` checks.
* A request in `SingleFlight` is made once. A repeated request is another
  member of `Calls` with the same key.
* A hash is the content it is of, so two hashes are equal exactly when the
  contents are. An output says a text of the model's (`ModelTexts`), with every
  combination of flags its parser accepts, or of a baseline's (`BaselineTexts`).
  These are texts as stored, so sanitised once. `Sanitized` is what sanitising
  makes of one again, and `ReparsedAnalysis` and `ReparsedGeneration` are the
  outputs as a later worker reads them, hashed anew.
* A file of a repository is its number in path order with a kind: text, opaque
  (not decodable), sensitive, a link, or odd (listed, but `resolve_file` raises
  on it). Files do not change during a run.
* An artifact is who wrote it, or `Torn` between the truncation and the end of
  a `write_text`. The atomic `_safe_write` is one step.

## Runs

| run | question | instance | distinct states |
|---|---|---|---|
| `single_flight` | are sharing, cleanup, permits and delivery right, and is the coordinator an implementation of `CoalescedCalls`? | three equivalent API calls, one with another key, one CLI call with the first key; two permits, three per minute | 1.57 million |
| `single_flight_live` | do followers return, are keys freed? | two equivalent API calls and a CLI call; one permit, two per minute | 11,800 |
| `run_service` | do rows, decisions and directories stay consistent under failed commits, cancellations and a crash, and is the service an implementation of `RunTable`? | three requests of one key, two permits, one crash, one failed commit | 1.33 million |
| `run_service_live` | are running rows always resolved? | two requests of one key | 66,000 |
| `circuit_breaker` | accounting, eviction, probes, late results | three resources in a registry of two, three threads, threshold 2, two probes, seven failures | 49,000 |
| `circuit_breaker_recovery` | does a tripped circuit close again? | two resources, two threads, one probe, five failures | 6,800 |
| `multi_agent` | scheduling, call and token budgets, revision, handoffs, state machine, termination | the fixed plan with eight policies: the ordinary one, a call budget that ends in the revision, a stage wider than the pool, no revision, and four in which tokens run out (run total with a reserve, run input, run output, one agent's input); a call uses no tokens or 2 and 1 | 149,000 |
| `multi_agent_handoffs` | does an agent receive what is handed off to it? | the default policy | stops at a counterexample |
| `plan_compiler` | does the loop find cycles and levels, and is the planner's plan accepted? | every loop-free graph on four agents, every graph on three, also with unknown, repeated or missing entries, and the planner's own topology | 44,000 |
| `run_directory` | what do reruns, crashes and overlaps leave on disk, and is the directory one of `ClaimedDirectory`? | three processes of one run id, one crash; legacy processes overlap in twos, multi-agent ones follow each other | 956,000 |
| `run_directory_race` | the same with overlapping multi-agent processes | two processes, no crash | stops at a counterexample |
| `legacy_workflow` | is the evidence honest, are the outputs one lineage of what was read, does the exit code tell the truth, does the run end? | at most two keywords over three files of four assignments of kinds; 2, 4 or 5 tool calls, 2 files, 4 characters, 3 matches; twelve messages around a budget of 8 tokens; 4 model calls and one retry per step; two model texts, one of which sanitising changes again | 1.14 million |

Why the bounds are enough for the question:

* Three equivalent calls give an owner, a follower and a later owner of the
  same key, which is the least that separates a follower's own owner from the
  current one; the fourth shares only the quotas. Two permits for four API
  calls make every refusal happen, and three requests per minute make the
  window refuse both owners and followers.
* One crash and one failed commit can hit any step of any of the three
  requests. A second crash meets rows that recovery has already resolved or
  created rows it leaves alone, as the first may.
* Three threads can hold two probes of an old period and one of a new. A third
  resource against two places forces eviction. Seven failures trip a circuit
  three times at threshold 2; the bound stops failures, not successes.
* The plan is fixed in the code, so only the policy varies. Nine calls are one
  run with one revision; seven run out inside the revision. Each scarce policy
  makes another token limit the first to be reached, in a stage whose agents run
  concurrently or in the revision.
* Four agents give cycles with agents that depend on them, diamonds and an agent
  queued in the same pass as the last one it depends on.
* Three processes are a run that reported success, one that fails and cleans up
  and one that crashes or starts between them. `Write` is a step per artifact,
  so the crash can leave any prefix. Processes are interchangeable, and
  symmetry is used for them.
* Two keywords and three files make ranking, passing over, and each limit bite
  first for some choice; five calls are one fewer than collecting everything
  takes. Four model calls are three steps and a retry; a second retry
  leaves the last step without a call. Messages lie below, at and above the budget with and
  without their sections; their order is one that the templates make and one
  that a requirement containing section markers makes. With a text that
  sanitising leaves and one that it changes, a stored output agrees with what is
  read of it or does not, for the analysis and the generation independently.

Deadlock checking is off where the system stops: requests are made once
(`single_flight`, `run_service` and their liveness runs), and a compilation, a
multi-agent run, a legacy run and the processes of a run directory end. It is
on for both breaker runs, whose callers never stop.

## Fairness

* `SingleFlight!ThreadFairness`: a thread inside the coordinator runs on. An
  owner in the locked section finishes it, unwinding finishes, and a follower's
  wait ends because it is bounded. An owner's work may last for ever;
  `KeysAreFreed` takes its end as a premise (`WorkEnds`) and `FollowersReturn`
  does not.
* `RunService!FairSpec`: request threads run, waits are bounded, and a dead
  process is restarted. Nothing is assumed of the work (`WorkReturns` is a
  premise), of crashes or of commits.
* `CircuitBreaker!FairSpec`: a provider call ends, because the HTTP client has
  a timeout; time passes; callers keep asking for each resource (strong
  fairness, since other callers may use up the slot in between).
* `MultiAgentRun!FairSpec`: main thread and pool workers run. That executors
  return is a premise of `RunEnds` (`ExecutorsReturn`): `shutdown(wait=True)`
  waits for a running executor however long it takes.
* `LegacyWorkflow!FairSpec`: the one thread of the run goes on. A model call
  ends because the HTTP client has a timeout, a back-off because it sleeps for a
  fixed time, and every tool is bounded by its own limits. The other specs of
  this kind (`PlanCompiler`, `RunDirectory`) state no liveness.

## What is proved

TLC checks small instances. The theorems hold for every value of the constants
that satisfies the assumptions, and between them they state every invariant and
every action property of the passing runs, and the three refinements.
Two theorems state what follows from a checked property at once and has no check
of its own: `OneExecutionPerKey` from `EntriesHaveLiveOwners`, and
`FinishedRowsAreFinal` from `ImplementsRunTable`, whose steps leave such rows.

| module | theorem | says |
|---|---|---|
| `SingleFlightProofs` | `TypeCorrect` | `[]TypeOK`, the semaphore never above its initial value |
| | `SingleExecution` | `[]OneExecutionPerKey` |
| | `EntriesFollowOwners` | `[]EntriesHaveLiveOwners` |
| | `PermitConservation` | `[]PermitsAccounted` |
| | `OutcomeDelivery` | `[]FollowersGetOwnersOutcome` |
| | `Refinement` | `ImplementsCoalescedCalls` |
| `RunServiceProofs` | `TypeCorrect` | `[]TypeOK` |
| | `FinalRowsStand` | `FinishedRowsAreFinal`, an action property |
| | `FollowersAgree` | `[]FollowersAgreeWithOwners` |
| | `RunningRowsAreReal` | `[]RunningRowsHaveThreads` |
| | `DecisionsAreGrounded` | `[]DecisionsStand` |
| | `TablesRefined` | `ImplementsRunTable` |
| `CircuitBreakerProofs` | `TypeCorrect` | `[]TypeOK` |
| | `SlotsAreCalls` | `[]CallsAccounted` |
| | `AliasesAreUnique` | `[]AliasesNameOneResource` |
| | `ProbesAreBounded` | `[]ProbesBounded` |
| | `OpenHolds`, `ClosedByProbe` | `OpenCircuitHolds` and `ClosesByItsLastProbe`, action properties |
| `MultiAgentRunProofs` | `TypeCorrect` | `[]TypeOK` |
| | `WorkEndsWithItsStage` | `[]NoWorkOutlivesItsStage` |
| | `InputsMatchHandoffs` | `[]InputsAreHandedOff` |
| | `NothingStale` | `[]NothingSuperseded` |
| | `StatusIsTheReviews` | `[]StatusFollowsReview` |
| | `LegalTransitions` | `TransitionsAreLegal`, an action property |
| | `CostsAreCharges` | `[]BudgetsAreExact` |
| `DelegationPlanProofs` | `PlanStages` | the fixed plan has the four stages the runner executes |
| `PlanCompilerProofs` | `CyclesAreRefused` | `[]CyclesRejected` |
| | `PlansAreLevelled` | `[]StagesAreLevels` |
| `RunDirectoryProofs` | `TypeCorrect` | `[]TypeOK`, however many processes overlap |
| | `ResultsStand` | `[]SuccessStands`, given `OneAtATime` |
| | `MarkerIsTrue` | `[]CompleteMeansIntact`, given `OneAtATime` |
| | `DirectoryClaimed` | `ImplementsClaimedDirectory`, given `OneAtATime` |
| `LegacyWorkflowProofs` | `TypeCorrect` | `[]TypeOK` |
| | `ExitIsHonest` | `[]HonestExit` |
| | `LineageIsWhole` | `[]LineageHolds`, for any `Sanitized` |
| | `PromptsKeepPriorities` | `[]TrimKeepsPriorities` |
| | `EvidenceIsSound` | `[]EvidenceSound` |

`Invariance`, `BudgetInvariance` and `WorkflowInvariance` are the theorems that
the inductive invariants hold. Every strengthening was an invariant of a TLC run
before it was proved. Few of the properties are inductive alone; what each
needs besides is the argument for it.

* **Coordinator.** `IInv == TypeInv /\ LockInv /\ EntryInv /\ FlightInv /\
  PermitInv`, one lemma per part, each resting on those before it. That a key has one
  owner follows from the registry, that the registry lists exactly the executing
  calls from who holds the lock, and that a follower gets its own owner's
  outcome from the outcome not changing once its event is set. The range of
  `permits` comes from counting the holders. For the refinement, registration
  is `Begin`, removal `End`, joining `Join`, a read `Take`, a timeout or an
  exception in a follower `GiveUp`, and every other step a stutter.
* **Run service.** The coordinator's share of the state takes coordinator steps
  only, so its invariant is taken over from `SingleFlightProofs` by `INSTANCE`
  (a crash sets that state back to the initial one). Added to it: `ThreadInv`,
  how a request's place in `create`, its place in `claim` and its row agree;
  `ResultInv`, that what is about to be recorded or was published is backed by
  the owner's row, or by a directory removed since; and `RowInv`. `ResultInv` is
  what carries agreement across a crash: the owner commits before it publishes.
  For the refinement, `open` is the set of requests between their first commit
  and their last; the start commits are `Add` and `Activate`, the final one
  `Finish`, a commit that raises `Abandon`, the death of the process `Die`, and
  every other step a stutter. `Finish` asks a follower's success to be on record
  for its owner, which is `FollowedSuccess`, and `Recover` asks that nobody works
  on a run any more, which holds because the next process starts with no thread.
* **Breaker.** `TypeOK /\ RegistryInv /\ CircuitsInv`. A circuit's slots are the
  calls that hold its key, and an attempt whose generation is current was
  admitted in the circuit's present state; without the latter a late result
  could close a circuit it knows nothing of. The action properties follow from
  these with one lemma per way through `_before_attempt` and `_finish`. The next free
  alias exists because the registry is finite.
* **Multi-agent run.** `IInv == TypeInv /\ ControlInv /\ PoolInv /\ ReviewInv /\
  HistoryInv /\ PlanInv`. `ControlInv` ties the engine's state to the main
  thread, `PlanInv` says for each slot which output of each agent was the
  latest, the revision's included, and that the slot's agents were given it.
  `BudgetInv`, inductive relative to `IInv`, counts: calls are those of the
  slots passed plus, of the current one, those no longer queued, and tokens are
  those of the results kept plus the replies of the current stage. It holds
  while agents of a stage charge in any order.
* **Plan and compiler.** The loop invariant of Kahn's algorithm: every stage is
  all that was ready after those before it, the queue is what is ready now, a
  count is the number of dependencies still to be placed. If the loop stops
  early, a nonempty set of agents has all its members waiting for members,
  which a cycle is; if there is a cycle, the first of its agents to be placed
  would need one placed before. A task's stage is one after the last of its
  dependencies because an agent enters the queue in the pass that places it.
* **Run directory.** At most one process holds the directory (`HoldInv`); what it
  has written so far is there, whole and its own (`KeptInv`), and stays so once
  its result names the directory; the recorded hashes are those of the files
  (`RecordInv`). `HoldInv` is false for overlapping multi-agent processes, and
  so are the three theorems, which is the finding of `run_directory_race`. They
  therefore assume `OneAtATime`, `Overlap["multi"] <= 1`; legacy
  processes may overlap in any number. For the refinement `mkdir` is `Take`, a
  step inside `Change`, a result that names the directory `Publish`, an end or
  a crash inside `Leave`, and a finished clean-up `Free`: what a crashed or
  failed run left is changed by nobody, which no state alone can say.
* **Legacy workflow.** `WInv` follows the state: each answer behind it builds on
  the ones before as they are read again and cannot be better than they are, each trace tells the truth
  about its answer, and the calls charged lie between what the traces say at
  least and at most (`AccountInv`, `DraftInv`). The least leaves out a last
  attempt the budget refused.
* **Token budget.** The sections are removed by rank. `Ranks` shows that the ranks of a
  strict total order on a finite set are a bijection with its first numbers, so
  what is removed is a prefix of that order; that it is the shortest that fits
  is the least number principle.
* **Evidence.** `EInv` goes by stage: what the searches done so far found, that the
  files selected are the best of those matched, what the reads done so far
  have hashed and quoted, and what the bundle made of it.

No theorem uses an induction theorem over an operator. Recursive functions
(the stages of the plan, the characters of a list of excerpts, the matches in a
file, the trimming of sections) are shown to satisfy their equations by exhibiting a
table of their values, and facts about all their arguments by taking the
least argument at which they fail.

The assumptions, all checked by TLC on the instances:

| assumption | why the code justifies it |
|---|---|
| `CallsAssumption`, `CallersAssumption` | requests and resources are not `None`; the threads of the process are finite in number |
| `LimitsAssumption`, `SettingsAssumption` | no setting lets a limit below one through |
| `ResultsAssumption`, `NoOutputAssumption` | special answers and the absence of an output differ from results |
| `PolicyAssumption` | `ExecutionPolicy` refuses other values; usage is never negative |
| `SpecsAssumption` | a specification is a finite document that names an agent |
| `TextsAssumption` | what a baseline says is told apart from what the model says; sanitising gives some text for each |
| `DirectoryAssumption`, `WorkflowAssumption`, `EvidenceAssumption` | bounds and limits are natural numbers, a repository has finitely many files |
| `BudgetAssumption`, `MessagesAssumption` | budget and token size are positive, lengths are natural numbers, the sections a finite sequence |

Model-checked only: liveness (`FollowersReturn`, `KeysAreFreed`,
`RunningRowsResolve`, `TrippedCircuitsRecover` and both `RunEnds`), because the
prover does not handle fairness or `ENABLED`; and the two runs that end in a
counterexample, which show that something does not hold.

## What the checks showed

The properties of the passing runs hold. Two runs show the code disagreeing with
its documentation:

* **A revised agent never sees the review that rejected it**
  (`multi_agent_handoffs`, `HandoffsAreDelivered`). The runner records a handoff
  from review to the target and puts the revision task into the context, but
  `AgentRunner.execute` (`agents/adapter.py:68`) builds the prompt from
  `validated_input` alone, and that contains the requirement and the analysis.
  Its docstring says the context is merged into the message, and the design
  document shows the task going to the target agent. The revision is a second
  try with the same input.

* **A failing run writes into a directory another is completing**
  (`run_directory_race`, `CompleteMeansIntact`). `_persist_failed_run`
  (`runner_multi.py:1131`) accepts a directory that exists. Two overlapping
  processes with one run id pass the looks for the directory before either has
  made it; when one succeeds and the other fails, `_COMPLETE` stands over files
  that are not those whose hashes were recorded. `_finalize_run_directory` says
  the marker distinguishes whole runs from interrupted ones. With one process
  at a time, crashes included, the property holds (`run_directory`).

Read while modelling, and not the subject of a run of its own:

* `docs/tasks/T-016` (line 75) demands that the hash of an analysis be
  preserved, and it is not for every text. The generator and the reviewer read the stored analysis with
  `from_json` (`workers/generate.py:318`), which drops its hash, sanitises it
  again and hashes the result. `sanitize_worker_text` redacts first and removes
  line breaks afterwards, and a quoted secret is matched within a line only:
  `token = "foo\nbar"` is stored as `token = "foo bar"` and read as
  `token = "<redacted>"`. The generation, the review and the manifest then name
  a hash that no stored analysis has, and the evaluation reports
  `analysis_lineage_invalid`. The instance of `legacy_workflow` has such a text.
  What holds is `LineageHolds`: the readers agree with each other, so the
  reviewer refuses nothing, and the lineage is the stored one exactly if
  sanitising changes neither the analysis nor the generation.
* An agent's span in the trace tree of a mock run says `failed`
  (`runner_multi.py:958` takes a missing `success` for false) while metrics
  (1213, 1228) and stage validation take it for success.
* The manifest's `revision_count` is the engine's and `budget_usage`'s is the
  guard's; they differ when the target cannot be revised. Enrichment calls
  are in no budget. No caller passes `is_retry`, so the tokens reserved for
  retries are withheld from every call.
* `_validate_handoffs` compares the payload with itself, so
  `HANDOFF_INTEGRITY_FAILED` cannot come up here. `degraded_agents` and
  `enriched` of a plan are read by nobody. `_revision_target`'s default is
  unreachable, the schema refusing a rejection without a target.
* What evidence a legacy run quotes does not reach the workers' prompts; it is
  stored. An analysis that asks for review without being degraded no longer
  counts once the generation does not ask (`_extract_output` takes the last
  step that reports the key); `HonestExit` says what the code guarantees.
* The evaluation rejects a run with a failed tool call or no source, though the
  runner ended it with 0 or 4. `LineageHolds` allows these two findings and,
  exactly where reading changed a stored output, those of the lineage.
* A file that changes between search and read is quoted as searched and hashed
  as read. A listed file that does not resolve fails every keyword's search,
  and a failed search does not mark the bundle truncated; nor do the match and
  selection limits. `EvidenceSound` promises completeness only for the searches
  that succeeded.
* `_error_to_code` goes by words in the exception's text, so a status
  of 504 with nothing else to go by is not retried and a text with `generate` in
  it is, as a rate limit.
* The temporary file of an interrupted `_safe_write` stays, and a later run that
  fails into the same directory would hash it. An agent listed twice in
  `spec.agents` is not noticed by the compiler.
* `.traces/` is shared by the legacy runs of one output directory and written
  file by file; overlapping processes with one run id mix their traces.

Behaviour that is on purpose, and why it is not reported:

* With several half-open probes, a steady overlap of probes keeps a circuit from
  ever having a last one. `TrippedCircuitsRecover` is therefore checked for one
  probe, the default.
* Open and half-open circuits are never evicted: a registry full of them refuses
  new resources. `ClosesByItsLastProbe` relies on that.
* A `BaseException` cancels a run out of the work or the wait. The `except`
  branch of `create` would also catch one raised after the final commit and
  overwrite the row; nothing under that `try` raises one there, so the model
  does not either. A commit of `_start_run` that raises an `Exception`
  (`StartRaises`) goes through `claim`, which publishes `RUNNER_FAILED`
  (`single_flight.py:318-328`).
* Recovery resolves rows that say running. A row left created, because the
  process died between the two start commits, is left to the operator;
  `ImplementsRunTable` says that nobody else touches it.

## Not modelled

`PROJECT.json` gives the status and reason per component. In short:

* The repository scanner, the construction of prompts, how texts and paths
  are sanitised (`Sanitized` may be any function) and the rendering of artifacts are pure functions of text or
  of files; the models keep only when they refuse.
* Providers, MCP and the projects table are adapters with no protocol of their
  own. A provider call is a choice of outcomes where it is made.
* The evaluation harness runs the runners over a dataset; only the validators
  are modelled.
* Of the modelled components, artifact sizes and the outcome of a handoff's hash
  check are choices; columns of a row other than status, owner and artifact are
  left out, as are counters only a snapshot reports.
* Two legacy processes writing `.traces/` at once, files that change while
  they are read, the error file beside the run directories, and temporary files
  of interrupted writes.

## Plan

Done: the models, abstract specifications of three of them, and a proof of each
safety property of their runs. What could be added:

1. Evidence read by the multi-agent runner, as a second instance of
   `EvidenceCollection` inside `MultiAgentRun`.
2. The commits of a row as a component of their own, so that `RunService` can be
   checked with more than one failing commit per request.

## Running

    tlc -workers 2 -config MCSingleFlight.cfg MCSingleFlight
    tlapm SingleFlightProofs.tla

and likewise for every run of `PROJECT.json`, which names its module and
configuration, and for every `...Proofs` module. The longest run,
`single_flight`, takes about a minute and a half. `LegacyWorkflowProofs` is the
longest proof, with about 2,700 obligations.
