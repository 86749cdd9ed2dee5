----------------------------- MODULE SingleFlight -----------------------------
(***************************************************************************)
(* The process-local coordinator of specflow/single_flight.py together     *)
(* with the admission quotas of specflow/api_security.py that run inside   *)
(* its lock.  A call is one pass of one thread through claim(): it finds   *)
(* or makes the entry of its key, executes (owner) or waits (follower),    *)
(* and unwinds.  API calls are admitted (concurrency permit for an owner,  *)
(* per-minute count for everyone); CLI calls (execute_owned) are not.      *)
(*                                                                         *)
(* The statements under `with self._lock' are one step wherever no other   *)
(* thread can see between them.  Permits can be seen from outside the lock *)
(* by the request whose repository cannot be prepared (DirectAcquire ...), *)
(* so taking and returning a permit are steps of their own.                *)
(***************************************************************************)
EXTENDS Integers, FiniteSets

CONSTANTS
  Calls,          \* the requests, each made once
  ApiCalls,       \* those that pass `admit' to claim()
  KeyOf,          \* the key prepare_run() derives for each call
  Results,        \* the results work() can return
  MaxConcurrent,  \* RunRateLimiter max_concurrent
  PerMinute,      \* RunRateLimiter per_minute
  None

RunnerFailed == "RUNNER_FAILED"
RunCancelled == "RUN_CANCELLED"
WaitTimeout  == "SINGLE_FLIGHT_WAIT_TIMEOUT"
Raised       == "raised"

Outcomes == Results \cup {RunnerFailed, RunCancelled}
Answers  == Outcomes \cup {WaitTimeout, Raised, None}

ASSUME CallsAssumption ==
  /\ ApiCalls \subseteq Calls
  /\ None \notin Calls
  /\ KeyOf \in [Calls -> {KeyOf[c] : c \in Calls}]
ASSUME LimitsAssumption ==
  /\ MaxConcurrent \in Nat \ {0}
  /\ PerMinute \in Nat \ {0}
ASSUME ResultsAssumption ==
  /\ None \notin Outcomes
  /\ {WaitTimeout, Raised} \cap Outcomes = {}
  /\ None \notin {WaitTimeout, Raised}

Keys == {KeyOf[c] : c \in Calls}

VARIABLES
  lock,      \* holder of SingleFlightCoordinator._lock across steps, or None
  entries,   \* _entries: the owner whose entry is registered under each key
  flight,    \* the entry each call holds, named by the call that made it
  outcome,   \* _Entry.outcome of the entry a call made
  done,      \* _Entry.done of the entry a call made
  permits,   \* value of RunRateLimiter._semaphore
  holds,     \* the calls that hold a permit
  window,    \* length of RunRateLimiter._window
  pc,
  answer     \* what claim()'s body gave back to each call, None until it has

vars == <<lock, entries, flight, outcome, done, permits, holds, window, pc, answer>>
limiterVars == <<permits, holds, window>>
entryVars == <<entries, outcome, done>>

Init ==
  /\ lock = None
  /\ entries = [k \in Keys |-> None]
  /\ flight = [c \in Calls |-> None]
  /\ outcome = [c \in Calls |-> RunnerFailed]
  /\ done = [c \in Calls |-> FALSE]
  /\ permits = MaxConcurrent
  /\ holds = {}
  /\ window = 0
  /\ pc = [c \in Calls |-> "new"]
  /\ answer = [c \in Calls |-> None]

Goto(c, label) == pc' = [pc EXCEPT ![c] = label]

-------------------------------------------------------------------------------
(* RunRateLimiter *)

\* acquire(): the non-blocking semaphore.
TakePermit(c) ==
  /\ permits > 0
  /\ permits' = permits - 1
  /\ holds' = holds \cup {c}

\* RunPermit.release(), and the release in acquire()'s except branch.
GivePermit(c) ==
  /\ permits' = permits + 1
  /\ holds' = holds \ {c}

\* count_request(): any number of the oldest timestamps may have left the
\* 60 s window; with room left the request is counted, otherwise it is not.
Counted ==
  \E kept \in 0..window : kept < PerMinute /\ window' = kept + 1
RateExceeded ==
  \E kept \in 0..window : kept >= PerMinute /\ window' = kept

-------------------------------------------------------------------------------
(* claim(): lookup, admission and registration under the lock *)

\* Registers the owner's new entry and leaves the locked section.
Register(c) ==
  /\ entries' = [entries EXCEPT ![KeyOf[c]] = c]
  /\ flight' = [flight EXCEPT ![c] = c]
  /\ lock' = None
  /\ Goto(c, "owning")

\* Mutant: the lookup leaves the lock before the entry is registered.
AcquireOutsideLock(c) ==
  /\ c \in ApiCalls
  /\ pc[c] = "new"
  /\ entries[KeyOf[c]] = None
  /\ TakePermit(c)
  /\ Goto(c, "counting")
  /\ UNCHANGED <<lock, entries, flight, outcome, done, window, answer>>

\* No entry for the key: admit(True) takes the permit first.
AcquireAsOwner(c) ==
  /\ c \in ApiCalls
  /\ pc[c] = "new" /\ lock = None
  /\ entries[KeyOf[c]] = None
  /\ TakePermit(c)
  /\ lock' = c
  /\ Goto(c, "counting")
  /\ UNCHANGED <<entries, flight, outcome, done, window, answer>>

\* ... and answers 429 when every permit is taken.
RefuseBusy(c) ==
  /\ c \in ApiCalls
  /\ pc[c] = "new" /\ lock = None
  /\ entries[KeyOf[c]] = None
  /\ permits = 0
  /\ Goto(c, "refused")
  /\ UNCHANGED <<lock, entries, flight, outcome, done, permits, holds, window, answer>>

\* The permit is counted against the minute and the entry registered.
CountOwner(c) ==
  /\ pc[c] = "counting"
  /\ Counted
  /\ Register(c)
  /\ UNCHANGED <<outcome, done, permits, holds, answer>>

\* Mutant: the permit is not returned when the count answers 429.
RefuseOwnerKeepsPermit(c) ==
  /\ pc[c] = "counting"
  /\ RateExceeded
  /\ lock' = None
  /\ Goto(c, "refused")
  /\ UNCHANGED <<entries, flight, outcome, done, permits, holds, answer>>

\* The count answers 429: the permit goes back and nothing is registered.
RefuseOwnerRate(c) ==
  /\ pc[c] = "counting"
  /\ RateExceeded
  /\ GivePermit(c)
  /\ lock' = None
  /\ Goto(c, "refused")
  /\ UNCHANGED <<entries, flight, outcome, done, answer>>

\* An entry exists: admit(False) only counts the follower.
JoinCounted(c) ==
  /\ c \in ApiCalls
  /\ pc[c] = "new" /\ lock = None
  /\ entries[KeyOf[c]] # None
  /\ Counted
  /\ flight' = [flight EXCEPT ![c] = entries[KeyOf[c]]]
  /\ Goto(c, "joined")
  /\ UNCHANGED <<lock, entries, outcome, done, permits, holds, answer>>

RefuseFollowerRate(c) ==
  /\ c \in ApiCalls
  /\ pc[c] = "new" /\ lock = None
  /\ entries[KeyOf[c]] # None
  /\ RateExceeded
  /\ Goto(c, "refused")
  /\ UNCHANGED <<lock, entries, flight, outcome, done, permits, holds, answer>>

\* The CLI passes no admit: the call registers or joins straight away.
OwnUnmetered(c) ==
  /\ c \in Calls \ ApiCalls
  /\ pc[c] = "new" /\ lock = None
  /\ entries[KeyOf[c]] = None
  /\ Register(c)
  /\ UNCHANGED <<outcome, done, permits, holds, window, answer>>

JoinUnmetered(c) ==
  /\ c \in Calls \ ApiCalls
  /\ pc[c] = "new" /\ lock = None
  /\ entries[KeyOf[c]] # None
  /\ flight' = [flight EXCEPT ![c] = entries[KeyOf[c]]]
  /\ Goto(c, "joined")
  /\ UNCHANGED <<lock, entries, outcome, done, permits, holds, window, answer>>

-------------------------------------------------------------------------------
(* The owner: body of the with statement, then its finally block *)

\* The body ends with flight.complete(r).
OwnerCompletes(c) ==
  /\ pc[c] = "owning"
  /\ \E r \in Results \cup {RunnerFailed} :
       /\ outcome' = [outcome EXCEPT ![c] = r]
       /\ answer' = [answer EXCEPT ![c] = r]
  /\ Goto(c, "unwinding")
  /\ UNCHANGED <<lock, entries, flight, done, permits, holds, window>>

\* Mutant: the cleanup is not in a finally block, so an exception skips it.
OwnerRaisesPastCleanup(c) ==
  /\ pc[c] = "owning"
  /\ \E r \in {RunnerFailed, RunCancelled} : outcome' = [outcome EXCEPT ![c] = r]
  /\ answer' = [answer EXCEPT ![c] = Raised]
  /\ Goto(c, "ended")
  /\ UNCHANGED <<lock, entries, flight, done, permits, holds, window>>

\* An exception leaves the body: claim() completes with a safe failure.
OwnerRaises(c) ==
  /\ pc[c] = "owning"
  /\ \E r \in {RunnerFailed, RunCancelled} : outcome' = [outcome EXCEPT ![c] = r]
  /\ answer' = [answer EXCEPT ![c] = Raised]
  /\ Goto(c, "unwinding")
  /\ UNCHANGED <<lock, entries, flight, done, permits, holds, window>>

\* Mutant: a permit is released whether or not one was taken.
ReleaseAlways(c) ==
  /\ pc[c] = "unwinding" /\ lock = None
  /\ lock' = c
  /\ GivePermit(c)
  /\ Goto(c, "removing")
  /\ UNCHANGED <<entries, flight, outcome, done, window, answer>>

\* finally: under the lock the owner's permit is released, if it took one ...
ReleasePermit(c) ==
  /\ pc[c] = "unwinding" /\ lock = None
  /\ lock' = c
  /\ IF c \in ApiCalls THEN GivePermit(c) ELSE UNCHANGED <<permits, holds>>
  /\ Goto(c, "removing")
  /\ UNCHANGED <<entries, flight, outcome, done, window, answer>>

\* Mutant: the entry goes but its event is never set.
RemoveWithoutWaking(c) ==
  /\ pc[c] = "removing"
  /\ entries' = [entries EXCEPT ![KeyOf[c]] = None]
  /\ lock' = None
  /\ Goto(c, "ended")
  /\ UNCHANGED <<flight, outcome, done, permits, holds, window, answer>>

\* ... then the entry is deleted and its followers are woken.
RemoveEntry(c) ==
  /\ pc[c] = "removing"
  /\ entries' = [entries EXCEPT ![KeyOf[c]] = None]
  /\ done' = [done EXCEPT ![c] = TRUE]
  /\ lock' = None
  /\ Goto(c, "ended")
  /\ UNCHANGED <<flight, outcome, permits, holds, window, answer>>

-------------------------------------------------------------------------------
(* The follower: Flight.wait(timeout) *)

\* done.wait() first looks at the flag and blocks when it is not set.
StartWait(c) ==
  /\ pc[c] = "joined"
  /\ Goto(c, IF done[flight[c]] THEN "woken" ELSE "waiting")
  /\ UNCHANGED <<lock, entries, flight, outcome, done, permits, holds, window, answer>>

Wake(c) ==
  /\ pc[c] = "waiting"
  /\ done[flight[c]]
  /\ Goto(c, "woken")
  /\ UNCHANGED <<lock, entries, flight, outcome, done, permits, holds, window, answer>>

\* Mutants: the result of done.wait() is ignored; the wait has no timeout.
TimeoutReadsOutcome(c) ==
  /\ pc[c] = "waiting"
  /\ answer' = [answer EXCEPT ![c] = outcome[flight[c]]]
  /\ Goto(c, "ended")
  /\ UNCHANGED <<lock, entries, flight, outcome, done, permits, holds, window>>
TimeoutNeverFires(c) ==
  /\ pc[c] = "waiting" /\ done[flight[c]]
  /\ answer' = [answer EXCEPT ![c] = WaitTimeout]
  /\ Goto(c, "ended")
  /\ UNCHANGED <<lock, entries, flight, outcome, done, permits, holds, window>>

\* The timer can fire at any moment, also just as the flag is being set.
WaitTimesOut(c) ==
  /\ pc[c] = "waiting"
  /\ answer' = [answer EXCEPT ![c] = WaitTimeout]
  /\ Goto(c, "ended")
  /\ UNCHANGED <<lock, entries, flight, outcome, done, permits, holds, window>>

\* The outcome is read after the wait has returned, without the lock.
ReadOutcome(c) ==
  /\ pc[c] = "woken"
  /\ answer' = [answer EXCEPT ![c] = outcome[flight[c]]]
  /\ Goto(c, "ended")
  /\ UNCHANGED <<lock, entries, flight, outcome, done, permits, holds, window>>

\* Mutant: the finally block does not ask whether the call is the owner.
FollowerRaisesAndRemoves(c) ==
  /\ pc[c] \in {"joined", "waiting"}
  /\ entries' = [entries EXCEPT ![KeyOf[c]] = None]
  /\ answer' = [answer EXCEPT ![c] = Raised]
  /\ Goto(c, "ended")
  /\ UNCHANGED <<lock, flight, outcome, done, permits, holds, window>>

\* A follower's own error or cancellation leaves the entry alone.
FollowerRaises(c) ==
  /\ pc[c] \in {"joined", "waiting"}
  /\ answer' = [answer EXCEPT ![c] = Raised]
  /\ Goto(c, "ended")
  /\ UNCHANGED <<lock, entries, flight, outcome, done, permits, holds, window>>

-------------------------------------------------------------------------------
(* RunService.create() when prepare_run() fails: admit(True) with no claim *)

DirectAcquire(c) ==
  /\ c \in ApiCalls
  /\ pc[c] = "new"
  /\ TakePermit(c)
  /\ Goto(c, "directCounting")
  /\ UNCHANGED <<lock, entries, flight, outcome, done, window, answer>>

DirectRefuseBusy(c) ==
  /\ c \in ApiCalls
  /\ pc[c] = "new"
  /\ permits = 0
  /\ Goto(c, "refused")
  /\ UNCHANGED <<lock, entries, flight, outcome, done, permits, holds, window, answer>>

DirectCount(c) ==
  /\ pc[c] = "directCounting"
  /\ Counted
  /\ Goto(c, "direct")
  /\ UNCHANGED <<lock, entries, flight, outcome, done, permits, holds, answer>>

DirectRefuseRate(c) ==
  /\ pc[c] = "directCounting"
  /\ RateExceeded
  /\ GivePermit(c)
  /\ Goto(c, "refused")
  /\ UNCHANGED <<lock, entries, flight, outcome, done, answer>>

\* The durable failure is recorded, or recording it raises: both release.
DirectRelease(c) ==
  /\ pc[c] = "direct"
  /\ GivePermit(c)
  /\ Goto(c, "ended")
  /\ UNCHANGED <<lock, entries, flight, outcome, done, window, answer>>

-------------------------------------------------------------------------------
Claim(c) ==
  \/ AcquireAsOwner(c) \/ RefuseBusy(c)
  \/ CountOwner(c) \/ RefuseOwnerRate(c)
  \/ JoinCounted(c) \/ RefuseFollowerRate(c)
  \/ OwnUnmetered(c) \/ JoinUnmetered(c)

Body(c) == OwnerCompletes(c) \/ OwnerRaises(c)
Unwind(c) == ReleasePermit(c) \/ RemoveEntry(c)

Follow(c) == StartWait(c) \/ Wake(c) \/ WaitTimesOut(c) \/ ReadOutcome(c)

Direct(c) ==
  \/ DirectAcquire(c) \/ DirectRefuseBusy(c)
  \/ DirectCount(c) \/ DirectRefuseRate(c) \/ DirectRelease(c)

Next ==
  \E c \in Calls : Claim(c) \/ Body(c) \/ Unwind(c) \/ Follow(c)
                   \/ FollowerRaises(c) \/ Direct(c)

Spec == Init /\ [][Next]_vars

\* Threads that can run do run, and a wait ends (it is bounded); nothing is
\* assumed of the owner's work.
ThreadFairness ==
  \A c \in Calls :
    /\ WF_vars(CountOwner(c) \/ RefuseOwnerRate(c))
    /\ WF_vars(Unwind(c))
    /\ WF_vars(Follow(c))

FairSpec == Spec /\ ThreadFairness

-------------------------------------------------------------------------------
(* Properties *)

Executing(c) == pc[c] \in {"owning", "unwinding", "removing"}
IsFollower(c) == flight[c] \notin {None, c}

TypeOK ==
  /\ lock \in Calls \cup {None}
  /\ entries \in [Keys -> Calls \cup {None}]
  /\ flight \in [Calls -> Calls \cup {None}]
  /\ outcome \in [Calls -> Outcomes]
  /\ done \in [Calls -> BOOLEAN]
  /\ permits \in 0..MaxConcurrent
  /\ holds \in SUBSET Calls
  /\ window \in 0..PerMinute
  /\ pc \in [Calls -> {"new", "counting", "owning", "unwinding", "removing",
                       "joined", "waiting", "woken", "refused", "ended",
                       "directCounting", "direct"}]
  /\ answer \in [Calls -> Answers]

\* Two equivalent calls never execute at the same time: the work of one has
\* ended and its entry is gone before another becomes owner of the key
\* (claim: lookup and registration are under one lock).
OneExecutionPerKey ==
  \A c, d \in Calls :
    Executing(c) /\ Executing(d) /\ KeyOf[c] = KeyOf[d] => c = d

\* Cleanup reaches every path: a registered entry belongs to a call that is
\* still on claim()'s stack, and such a call is findable under its key, so no
\* success, failure, exception or cancellation strands a key.
EntriesHaveLiveOwners ==
  /\ \A k \in Keys : entries[k] # None => Executing(entries[k]) /\ KeyOf[entries[k]] = k
  /\ \A c \in Calls : Executing(c) => entries[KeyOf[c]] = c

\* No permit leaks and none is returned twice, whichever way admission, the
\* work or the finally block ends; followers and refused calls hold none, and
\* admitted owners hold one for as long as they execute.
PermitsAccounted ==
  /\ permits + Cardinality(holds) = MaxConcurrent
  /\ \A c \in holds : pc[c] \in {"counting", "owning", "unwinding", "directCounting", "direct"}
  /\ \A c \in ApiCalls :
       pc[c] \in {"counting", "owning", "unwinding", "directCounting", "direct"} => c \in holds

\* What a follower is given is what its own owner ended with: the same result,
\* or a safe failure if the owner raised. It is never another execution's
\* outcome, the entry's initial value, or a result an exception withdrew.
FollowersGetOwnersOutcome ==
  \A c \in Calls : IsFollower(c) /\ answer[c] \in Outcomes =>
    LET owner == flight[c] IN
    /\ KeyOf[owner] = KeyOf[c]
    /\ pc[owner] = "ended"
    /\ \/ answer[owner] = answer[c]
       \/ answer[owner] = Raised /\ answer[c] \in {RunnerFailed, RunCancelled}

\* The coordinator implements the abstract coalescing of CoalescedCalls.
Coalesced == INSTANCE CoalescedCalls WITH
  running <- entries,
  joined <- flight,
  published <- [c \in Calls |-> IF done[c] THEN outcome[c] ELSE None],
  got <- [c \in Calls |-> IF IsFollower(c) THEN answer[c] ELSE None],
  GaveUp <- {WaitTimeout, Raised}

ImplementsCoalescedCalls == Coalesced!Spec

\* A follower always returns, even if its owner's work never does: the wait is
\* bounded and nobody else's progress is needed for it.
FollowersReturn ==
  \A c \in Calls : (pc[c] = "joined") ~> (pc[c] = "ended")

WorkEnds == \A c \in Calls : (pc[c] = "owning") ~> (pc[c] # "owning")

\* If the owners' work ends, every key becomes free again: nothing the lock,
\* the quotas or the followers do can keep an entry registered.
KeysAreFreed ==
  WorkEnds => \A c \in Calls : (entries[KeyOf[c]] = c) ~> (entries[KeyOf[c]] = None)
===============================================================================
