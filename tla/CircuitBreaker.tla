---------------------------- MODULE CircuitBreaker ----------------------------
(***************************************************************************)
(* ProviderResilienceGuard of specflow/llm/resilience.py: a bounded        *)
(* registry of circuits, one per provider resource (endpoint, model,       *)
(* credential), around the live provider calls of concurrent threads.      *)
(* Each caller repeats attempt(): _before_attempt() and _finish() are      *)
(* atomic under the guard's lock, the provider call between them is not.   *)
(*                                                                         *)
(* An entry object is named by its key: an attempt's entry is the one      *)
(* registered under its key for as long as the attempt is in flight, which *)
(* CallsAccounted checks.  The clock is one bit per circuit: whether       *)
(* open_seconds have passed since it opened.  The counters that only       *)
(* snapshot() reads (failure_count, rejection_count, transition_count)     *)
(* are left out.                                                           *)
(***************************************************************************)
EXTENDS Integers, FiniteSets

CONSTANTS
  Keys,               \* the resource identities
  Callers,            \* the threads that call a provider
  FailureThreshold, HalfOpenMaxProbes, MaxEntries,  \* ResilienceSettings
  MaxFailures,        \* bound of the model: how many calls may fail
  None

ASSUME SettingsAssumption ==
  /\ FailureThreshold \in Nat \ {0}
  /\ HalfOpenMaxProbes \in Nat \ {0}
  /\ MaxEntries \in Nat \ {0}
  /\ MaxFailures \in Nat
ASSUME CallersAssumption == IsFiniteSet(Callers) /\ None \notin Keys

Entry == [alias: 1..MaxEntries,
          state: {"CLOSED", "OPEN", "HALF_OPEN"},
          generation: Nat,
          cooled: BOOLEAN,
          consecutive: 0..FailureThreshold,
          activeCalls: Nat,
          activeProbes: Nat]
Attempt == [key: Keys, generation: Nat, probe: BOOLEAN]
NoEntry == [alias |-> 0]
NoAttempt == [key |-> None]

VARIABLES
  registry,   \* _entries
  call,       \* the attempt each caller is in, or NoAttempt
  failures    \* how many calls have failed so far

vars == <<registry, call, failures>>

Init ==
  /\ registry = [k \in Keys |-> NoEntry]
  /\ call = [c \in Callers |-> NoAttempt]
  /\ failures = 0

Resident(k) == registry[k] # NoEntry
Idle(c) == call[c] = NoAttempt
OnKey(k) == {c \in Callers : call[c].key = k}
ProbesOn(k) == {c \in OnKey(k) : call[c].probe}

\* _Entry(alias): a fresh, closed circuit.
NewEntry(a) ==
  [alias |-> a, state |-> "CLOSED", generation |-> 0, cooled |-> FALSE,
   consecutive |-> 0, activeCalls |-> 0, activeProbes |-> 0]

\* Mutant: a transition keeps the generation.
TransitionInPlace(e, s) == [e EXCEPT !.state = s, !.cooled = FALSE]

\* _transition(); opening a circuit also restarts its timer.
Transition(e, s) ==
  [e EXCEPT !.state = s, !.generation = @ + 1, !.cooled = FALSE]

\* Mutant: the alias is one more than the number of residents.
NextAlias(residents) == Cardinality(residents) + 1

\* The lowest alias that no resident entry uses.
FreeAlias(residents) ==
  CHOOSE a \in 1..MaxEntries :
    /\ \A k \in residents : registry[k].alias # a
    /\ \A b \in 1..MaxEntries : b < a => \E k \in residents : registry[k].alias = b

\* Mutant: a circuit with calls in flight counts as idle.
AnyHealthy(k) == registry[k].state = "CLOSED" /\ registry[k].consecutive = 0

\* Only a healthy closed circuit with nothing in flight may be evicted.
Recyclable(k) ==
  /\ registry[k].state = "CLOSED"
  /\ registry[k].activeCalls = 0
  /\ registry[k].consecutive = 0

-------------------------------------------------------------------------------
(* _before_attempt() *)

\* Mutant: probes are not counted against their limit.
AdmitUnlimited(c, k, e) ==
  LET probe == e.state = "HALF_OPEN" IN
  /\ registry' = [registry EXCEPT ![k] =
       [e EXCEPT !.activeCalls = @ + 1, !.activeProbes = @ + (IF probe THEN 1 ELSE 0)]]
  /\ call' = [call EXCEPT ![c] =
       [key |-> k, generation |-> e.generation, probe |-> probe]]

\* The call goes ahead on entry e of key k, as a probe if it is half open,
\* unless the probes in flight are at their limit.
Admit(c, k, e) ==
  LET probe == e.state = "HALF_OPEN" IN
  IF probe /\ e.activeProbes >= HalfOpenMaxProbes
    THEN registry' = [registry EXCEPT ![k] = e] /\ UNCHANGED call
    ELSE /\ registry' = [registry EXCEPT ![k] =
              [e EXCEPT !.activeCalls = @ + 1,
                        !.activeProbes = @ + (IF probe THEN 1 ELSE 0)]]
         /\ call' = [call EXCEPT ![c] =
              [key |-> k, generation |-> e.generation, probe |-> probe]]

\* The resource is not registered and there is room for it.
AttemptNew(c, k) ==
  /\ Idle(c) /\ ~Resident(k)
  /\ Cardinality({j \in Keys : Resident(j)}) < MaxEntries
  /\ Admit(c, k, NewEntry(FreeAlias({j \in Keys : Resident(j)})))
  /\ UNCHANGED failures

\* The registry is full: an idle healthy circuit makes room (the first in
\* insertion order; here any).  With none the call is rejected.
AttemptRecycling(c, k) ==
  /\ Idle(c) /\ ~Resident(k)
  /\ Cardinality({j \in Keys : Resident(j)}) >= MaxEntries
  /\ \E old \in Keys :
       /\ Resident(old) /\ Recyclable(old)
       /\ LET e == NewEntry(FreeAlias({j \in Keys : Resident(j)} \ {old})) IN
          registry' = [registry EXCEPT ![old] = NoEntry, ![k] = [e EXCEPT !.activeCalls = 1]]
  /\ call' = [call EXCEPT ![c] = [key |-> k, generation |-> 0, probe |-> FALSE]]
  /\ UNCHANGED failures

\* Closed or half open: admitted, or rejected at the probe limit.
AttemptResident(c, k) ==
  /\ Idle(c) /\ Resident(k)
  /\ registry[k].state # "OPEN"
  /\ Admit(c, k, registry[k])
  /\ UNCHANGED failures

\* Open for open_seconds: the circuit turns half open and the call probes it.
\* Before that the call is rejected, which changes nothing here.
AttemptCooled(c, k) ==
  /\ Idle(c) /\ Resident(k)
  /\ registry[k].state = "OPEN" /\ registry[k].cooled
  /\ Admit(c, k, Transition(registry[k], "HALF_OPEN"))
  /\ UNCHANGED failures

-------------------------------------------------------------------------------
(* _finish() *)

\* The attempt's entry with its slots given back.
Released(c) ==
  [registry[call[c].key] EXCEPT
     !.activeCalls = @ - 1,
     !.activeProbes = @ - (IF call[c].probe THEN 1 ELSE 0)]

IsCurrent(c) == call[c].generation = registry[call[c].key].generation

\* The attempt is over and leaves entry e behind.
FinishWith(c, e) ==
  /\ registry' = [registry EXCEPT ![call[c].key] = e]
  /\ call' = [call EXCEPT ![c] = NoAttempt]

\* Mutant: a probe's success closes the circuit while others are in flight.
SucceedEagerly(c) ==
  /\ ~Idle(c)
  /\ LET e == Released(c) IN
     FinishWith(c,
       IF ~IsCurrent(c) THEN e
       ELSE IF call[c].probe
              THEN Transition([e EXCEPT !.consecutive = 0], "CLOSED")
              ELSE [e EXCEPT !.consecutive = 0])
  /\ UNCHANGED failures

\* Success resets the count; that of the last probe in flight closes.
Succeed(c) ==
  /\ ~Idle(c)
  /\ LET e == Released(c)
         healthy == [e EXCEPT !.consecutive = 0]
     IN FinishWith(c, IF ~IsCurrent(c) THEN e
                      ELSE IF call[c].probe /\ e.activeProbes = 0
                             THEN Transition(healthy, "CLOSED")
                             ELSE healthy)
  /\ UNCHANGED failures

\* Mutant: the consecutive count is not capped at the threshold.
FailUncapped(c) ==
  /\ ~Idle(c) /\ failures < MaxFailures
  /\ LET e == Released(c)
         n == e.consecutive + 1
         counted == [e EXCEPT !.consecutive = n]
     IN FinishWith(c, IF ~IsCurrent(c) THEN e
                      ELSE IF call[c].probe \/ n >= FailureThreshold
                             THEN Transition(counted, "OPEN")
                             ELSE counted)
  /\ failures' = failures + 1

\* An availability failure (timeout, rate limit, 5xx, connection) counts; at
\* the threshold, or if it was a probe, the circuit opens.
FailCounted(c) ==
  /\ ~Idle(c) /\ failures < MaxFailures
  /\ LET e == Released(c)
         n == IF e.consecutive < FailureThreshold THEN e.consecutive + 1 ELSE FailureThreshold
         counted == [e EXCEPT !.consecutive = n]
     IN FinishWith(c, IF ~IsCurrent(c) THEN e
                      ELSE IF call[c].probe \/ n >= FailureThreshold
                             THEN Transition(counted, "OPEN")
                             ELSE counted)
  /\ failures' = failures + 1

\* Mutant: a call that ends in another exception keeps its slots.
FailUnreleased(c) ==
  /\ ~Idle(c) /\ failures < MaxFailures
  /\ FinishWith(c, registry[call[c].key])
  /\ failures' = failures + 1

\* Any other failure gives its slots back and leaves health unchanged.
FailExcluded(c) ==
  /\ ~Idle(c) /\ failures < MaxFailures
  /\ FinishWith(c, Released(c))
  /\ failures' = failures + 1

\* open_seconds have passed since the circuit opened.
CoolDown(k) ==
  /\ Resident(k)
  /\ registry[k].state = "OPEN" /\ ~registry[k].cooled
  /\ registry' = [registry EXCEPT ![k].cooled = TRUE]
  /\ UNCHANGED <<call, failures>>

-------------------------------------------------------------------------------
AttemptOn(k) ==
  \E c \in Callers :
    AttemptNew(c, k) \/ AttemptRecycling(c, k) \/ AttemptResident(c, k) \/ AttemptCooled(c, k)
Finish(c) == Succeed(c) \/ FailCounted(c) \/ FailExcluded(c)

Next ==
  \/ \E k \in Keys : AttemptOn(k) \/ CoolDown(k)
  \/ \E c \in Callers : Finish(c)

Spec == Init /\ [][Next]_vars

\* A provider call ends (every request has a timeout), time passes, and
\* callers keep asking for every resource.
FairSpec ==
  /\ Spec
  /\ \A c \in Callers : WF_vars(Finish(c))
  /\ \A k \in Keys : WF_vars(CoolDown(k)) /\ SF_vars(AttemptOn(k))

-------------------------------------------------------------------------------
(* Properties *)

TypeOK ==
  /\ registry \in [Keys -> Entry \cup {NoEntry}]
  /\ call \in [Callers -> Attempt \cup {NoAttempt}]
  /\ failures \in 0..MaxFailures

\* Every call in flight has its own circuit registered, and the slot counters
\* are exactly the calls and probes in flight: no exception path strands a
\* probe, and no circuit is evicted while a call can still report to it.
CallsAccounted ==
  \A k \in Keys :
    /\ ~Resident(k) => OnKey(k) = {}
    /\ Resident(k) => /\ registry[k].activeCalls = Cardinality(OnKey(k))
                      /\ registry[k].activeProbes = Cardinality(ProbesOn(k))

\* The registry never outgrows its bound and never gives one public alias to
\* two resources, however entries are evicted and re-created.
AliasesNameOneResource ==
  /\ Cardinality({k \in Keys : Resident(k)}) <= MaxEntries
  /\ \A j, k \in Keys :
       Resident(j) /\ Resident(k) /\ registry[j].alias = registry[k].alias => j = k

\* At most HalfOpenMaxProbes probes are in flight, counting those left over
\* from an earlier half-open period; an open circuit always has a slot left
\* for the call that will probe it, and a closed one is below the threshold.
ProbesBounded ==
  \A k \in Keys : Resident(k) =>
    /\ registry[k].activeProbes <= HalfOpenMaxProbes
    /\ registry[k].state = "OPEN" => registry[k].activeProbes < HalfOpenMaxProbes
    /\ registry[k].state = "CLOSED" => registry[k].consecutive < FailureThreshold

\* While a circuit is open and has not cooled down it stays open and admits
\* nothing, whatever late results of earlier calls arrive meanwhile.
OpenCircuitHolds ==
  [][\A k \in Keys :
       Resident(k) /\ registry[k].state = "OPEN" /\ ~registry[k].cooled =>
         /\ registry'[k] # NoEntry
         /\ registry'[k].state = "OPEN"
         /\ {c \in Callers : call'[c].key = k} \subseteq OnKey(k)]_vars

\* A tripped circuit closes only when a probe of its current half-open period
\* succeeds with no other probe still in flight; it is never closed by a late
\* result of an earlier period, nor forgotten by eviction.
ClosesByItsLastProbe ==
  [][\A k \in Keys :
       /\ Resident(k) /\ registry[k].state # "CLOSED"
       /\ (registry'[k] = NoEntry \/ registry'[k].state = "CLOSED")
       => \E c \in Callers :
            /\ ProbesOn(k) = {c} /\ call'[c] = NoAttempt
            /\ IsCurrent(c) /\ failures' = failures]_vars

\* With one probe at a time a tripped circuit recovers once the provider does
\* (the failures are bounded), provided callers keep asking.
TrippedCircuitsRecover ==
  \A k \in Keys :
    (Resident(k) /\ registry[k].state = "OPEN") ~> (Resident(k) /\ registry[k].state = "CLOSED")
===============================================================================
