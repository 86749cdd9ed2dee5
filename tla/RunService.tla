------------------------------ MODULE RunService ------------------------------
(***************************************************************************)
(* RunService of specflow/runs.py over the coordinator and quotas of       *)
(* SingleFlight: the durable row of a run, the run directory it refers to, *)
(* review decisions, and what a process crash leaves for the next start.   *)
(*                                                                         *)
(* A request walks through create(): it enters through claim() (or, when   *)
(* its repository cannot be prepared, straight through admission), commits *)
(* its row as created, commits it as running, works or waits, commits the  *)
(* final state and only then publishes it to the followers.  Every commit  *)
(* may raise.  A crash loses the coordinator, the quotas and the threads;  *)
(* rows, run directories and decisions survive.                            *)
(***************************************************************************)
EXTENDS Integers, FiniteSets

CONSTANTS
  Calls,          \* POST /api/v1/runs requests, also naming the runs they make
  KeyOf,
  MaxConcurrent,
  PerMinute,
  None,
  MaxCrashes,     \* bound on process crashes
  MaxFaults       \* bound on commits that raise

\* What run_multi_agent() returns: 0 with or without result_status, 3 and 2.
Results == {"completed", "rejected", "failed_runtime", "failed_security"}

ASSUME CallsAssumption ==
  /\ None \notin Calls
  /\ KeyOf \in [Calls -> {KeyOf[c] : c \in Calls}]
ASSUME LimitsAssumption ==
  /\ MaxConcurrent \in Nat \ {0}
  /\ PerMinute \in Nat \ {0}
  /\ MaxCrashes \in Nat
  /\ MaxFaults \in Nat

VARIABLES lock, entries, flight, outcome, done, permits, holds, window, pc, answer
VARIABLES
  row,        \* workflow_runs
  body,       \* where each request stands in create()
  result,     \* its local variable of that name
  dir,        \* the run directory an owner's work leaves: none, present, gone
  reviewing,  \* runs whose review decision passed the check but is not committed
  decided,    \* runs with a row in review_decisions
  up,         \* the process serves requests
  crashes, faults

SF == INSTANCE SingleFlight WITH ApiCalls <- Calls

\* No result of a run is taken for the absence of one.
ASSUME ResultsAssumption ==
  None \notin SF!Outcomes \cup {SF!WaitTimeout, SF!Raised}

flightVars == <<lock, entries, flight, outcome, done, permits, holds, window, pc, answer>>
rowVars == <<row, dir, decided>>
boundVars == <<crashes, faults>>
vars == <<flightVars, rowVars, boundVars, body, result, reviewing, up>>

Absent == [status |-> "absent", owner |-> None, artifact |-> None]
Terminal == Results \cup {"cancelled"}

Init ==
  /\ SF!Init
  /\ row = [c \in Calls |-> Absent]
  /\ body = [c \in Calls |-> "idle"]
  /\ result = [c \in Calls |-> None]
  /\ dir = [c \in Calls |-> "none"]
  /\ reviewing = {} /\ decided = {}
  /\ up = TRUE
  /\ crashes = 0 /\ faults = 0

At(c, label) == body[c] = label
Move(c, label) == body' = [body EXCEPT ![c] = label]
Set(c, status) == row' = [row EXCEPT ![c].status = status]

\* A commit raises, at most MaxFaults times.
Fault == faults < MaxFaults /\ faults' = faults + 1

-------------------------------------------------------------------------------
(* Entering create(): claim() and the direct path *)

Unadmitted(c) ==
  /\ \/ SF!AcquireAsOwner(c) \/ SF!RefuseBusy(c)
     \/ SF!RefuseOwnerRate(c) \/ SF!RefuseFollowerRate(c)
     \/ SF!DirectAcquire(c) \/ SF!DirectRefuseBusy(c) \/ SF!DirectRefuseRate(c)
  /\ UNCHANGED body

Admitted(c) ==
  /\ SF!CountOwner(c) \/ SF!JoinCounted(c) \/ SF!DirectCount(c)
  /\ Move(c, "add")

Enter(c) ==
  /\ Unadmitted(c) \/ Admitted(c)
  /\ UNCHANGED <<rowVars, boundVars, result, reviewing, up>>

-------------------------------------------------------------------------------
(* _start_run(): two commits *)

AddRow(c) ==
  /\ At(c, "add")
  /\ row' = [row EXCEPT ![c] = [status |-> "created", owner |-> flight[c], artifact |-> None]]
  /\ Move(c, "activate")
  /\ UNCHANGED <<flightVars, dir, decided, boundVars, result, reviewing, up>>

\* With no flight the failure to record is already known.
Activate(c) ==
  /\ At(c, "activate")
  /\ Set(c, "running")
  /\ Move(c, IF flight[c] = None THEN "finish" ELSE IF flight[c] = c THEN "work" ELSE "wait")
  /\ result' = [result EXCEPT ![c] = IF flight[c] = None THEN "failed_security" ELSE None]
  /\ UNCHANGED <<flightVars, dir, decided, boundVars, reviewing, up>>

\* An exception leaves create(): through claim()'s except branch, which gives
\* an owner's followers a safe failure, or through the direct path's finally.
\* A follower that has its answer has nothing left to unwind.
Unwinds(c) ==
  \/ SF!OwnerRaises(c) /\ outcome'[c] = SF!RunnerFailed
  \/ SF!FollowerRaises(c)
  \/ SF!DirectRelease(c)
  \/ pc[c] = "ended" /\ UNCHANGED flightVars

\* Either commit of _start_run() raises: the row stays absent or created.
StartRaises(c) ==
  /\ body[c] \in {"add", "activate"}
  /\ Fault
  /\ Unwinds(c)
  /\ Move(c, "closed")
  /\ UNCHANGED <<rowVars, crashes, result, reviewing, up>>

-------------------------------------------------------------------------------
(* The owner works, a follower waits *)

\* A finished workflow leaves its run directory, a failed one may.
Work(c) ==
  /\ At(c, "work")
  /\ \E r \in Results \cup {SF!RunnerFailed}, d \in {"none", "present"} :
       /\ r \in {"completed", "rejected"} => d = "present"
       /\ r \in {"failed_security", SF!RunnerFailed} => d = "none"
       /\ result' = [result EXCEPT ![c] = r]
       /\ dir' = [dir EXCEPT ![c] = d]
  /\ Move(c, "finish")
  /\ UNCHANGED <<flightVars, row, decided, boundVars, reviewing, up>>

\* A BaseException out of the work or out of the wait cancels the run.
CancelWork(c) ==
  /\ At(c, "work")
  /\ result' = [result EXCEPT ![c] = SF!RunCancelled]
  /\ Move(c, "finish")
  /\ UNCHANGED <<flightVars, rowVars, boundVars, reviewing, up>>

CancelWait(c) ==
  /\ At(c, "wait")
  /\ SF!FollowerRaises(c)
  /\ result' = [result EXCEPT ![c] = SF!RunCancelled]
  /\ Move(c, "finish")
  /\ UNCHANGED <<rowVars, boundVars, reviewing, up>>

Wait(c) ==
  /\ At(c, "wait")
  /\ SF!StartWait(c) \/ SF!Wake(c)
  /\ UNCHANGED <<rowVars, boundVars, body, result, reviewing, up>>

Answered(c) ==
  /\ At(c, "wait")
  /\ SF!ReadOutcome(c) \/ SF!WaitTimesOut(c)
  /\ result' = [result EXCEPT ![c] = answer'[c]]
  /\ Move(c, "finish")
  /\ UNCHANGED <<rowVars, boundVars, reviewing, up>>

-------------------------------------------------------------------------------
(* _finish_run(), then publication *)

\* Mutant: a result that is not a workflow's is stored as it is.
StatusUnmapped(r) == r
StatusOf(r) ==
  IF r \in Results THEN r
  ELSE IF r = SF!RunCancelled THEN "cancelled" ELSE "failed_runtime"

\* The result names a run directory, the owner's. It may have gone since.
Artifact(c) == IF result[c] \in Results /\ row[c].owner # None THEN row[c].owner ELSE None
FinalRow(c) ==
  LET a == Artifact(c)
      there == IF a = None THEN "none" ELSE dir[a]
  IN [status   |-> IF there = "gone" THEN "failed_security" ELSE StatusOf(result[c]),
      owner    |-> row[c].owner,
      artifact |-> IF there = "present" THEN a ELSE None]

Finish(c) ==
  /\ At(c, "finish")
  /\ row' = [row EXCEPT ![c] = FinalRow(c)]
  /\ Move(c, IF pc[c] = "ended" THEN "closed" ELSE "publish")
  /\ UNCHANGED <<flightVars, dir, decided, boundVars, result, reviewing, up>>

\* Mutant: the failed commit is logged but the result is still published.
FinishSwallowed(c) ==
  /\ At(c, "finish")
  /\ Fault
  /\ Move(c, IF pc[c] = "ended" THEN "closed" ELSE "publish")
  /\ UNCHANGED <<flightVars, rowVars, crashes, result, reviewing, up>>

\* The final commit raises: rolled back, the row stays running.
FinishRaises(c) ==
  /\ At(c, "finish")
  /\ Fault
  /\ Unwinds(c)
  /\ Move(c, "failed")
  /\ UNCHANGED <<rowVars, crashes, result, reviewing, up>>

\* The owner's flight.complete(), or the re-raised cancellation, after the
\* commit; on the direct path the permit is released.
Publish(c) ==
  /\ At(c, "publish")
  /\ \/ SF!OwnerCompletes(c) /\ result[c] # SF!RunCancelled
     \/ SF!OwnerRaises(c) /\ result[c] = SF!RunCancelled
     \/ SF!DirectRelease(c)
  /\ flight[c] = c => outcome'[c] = result[c]
  /\ Move(c, "closed")
  /\ UNCHANGED <<rowVars, boundVars, result, reviewing, up>>

Unwind(c) ==
  /\ SF!ReleasePermit(c) \/ SF!RemoveEntry(c)
  /\ UNCHANGED <<rowVars, boundVars, body, result, reviewing, up>>

-------------------------------------------------------------------------------
(* Review decisions *)

HasFiles(c) == row[c].artifact # None /\ dir[row[c].artifact] = "present"

\* Mutant: any run with artifacts can be reviewed.
ReviewAnyRun(c) ==
  /\ HasFiles(c)
  /\ reviewing' = reviewing \cup {c}
  /\ UNCHANGED <<flightVars, rowVars, boundVars, body, result, up>>

\* record_decision(): the row and the files are checked ...
BeginReview(c) ==
  /\ row[c].status = "completed"
  /\ HasFiles(c)
  /\ reviewing' = reviewing \cup {c}
  /\ UNCHANGED <<flightVars, rowVars, boundVars, body, result, up>>

\* ... before the decision is committed, or its commit raises.
CommitDecision(c) ==
  /\ c \in reviewing
  /\ reviewing' = reviewing \ {c}
  /\ \/ decided' = decided \cup {c} /\ UNCHANGED faults
     \/ Fault /\ UNCHANGED decided
  /\ UNCHANGED <<flightVars, row, dir, crashes, body, result, up>>

-------------------------------------------------------------------------------
(* The process and its surroundings *)

\* The threads, the coordinator and the quotas are lost. Requests not yet made
\* will meet the next process.
Crash ==
  /\ up /\ crashes < MaxCrashes
  /\ up' = FALSE
  /\ crashes' = crashes + 1
  /\ lock' = None
  /\ entries' = [k \in SF!Keys |-> None]
  /\ flight' = [c \in Calls |-> None]
  /\ outcome' = [c \in Calls |-> SF!RunnerFailed]
  /\ done' = [c \in Calls |-> FALSE]
  /\ permits' = MaxConcurrent /\ holds' = {} /\ window' = 0
  /\ pc' = [c \in Calls |-> IF pc[c] = "new" THEN "new" ELSE "ended"]
  /\ answer' = [c \in Calls |-> None]
  /\ body' = [c \in Calls |-> IF body[c] = "idle" THEN "idle" ELSE "closed"]
  /\ result' = [c \in Calls |-> None]
  /\ reviewing' = {}
  /\ UNCHANGED <<rowVars, faults>>

\* recover_interrupted_runs(): one UPDATE over the rows left running.
\* Mutants: over every row; over the rows left created.
RecoveredAll(r) == [r EXCEPT !.status = IF @ = "absent" THEN @ ELSE "failed_runtime"]
RecoveredCreated(r) == [r EXCEPT !.status = IF @ = "created" THEN "failed_runtime" ELSE @]
Recovered(r) == [r EXCEPT !.status = IF @ = "running" THEN "failed_runtime" ELSE @]

\* The lifespan recovers before the first request is served.
Restart ==
  /\ ~up
  /\ up' = TRUE
  /\ row' = [c \in Calls |-> Recovered(row[c])]
  /\ UNCHANGED <<flightVars, dir, decided, boundVars, body, result, reviewing>>

\* Run directories can be deleted from outside at any time.
DirectoryRemoved(c) ==
  /\ dir[c] = "present"
  /\ dir' = [dir EXCEPT ![c] = "gone"]
  /\ UNCHANGED <<flightVars, row, decided, boundVars, body, result, reviewing, up>>

-------------------------------------------------------------------------------
Start(c) == AddRow(c) \/ Activate(c) \/ StartRaises(c)
WaitStep(c) == Wait(c) \/ Answered(c)
Final(c) == Finish(c) \/ FinishRaises(c)
Review(c) == BeginReview(c) \/ CommitDecision(c)

Serve(c) ==
  \/ Enter(c) \/ Start(c) \/ Work(c) \/ CancelWork(c) \/ CancelWait(c) \/ WaitStep(c)
  \/ Final(c) \/ Publish(c) \/ Unwind(c) \/ Review(c)

Next ==
  \/ up /\ \E c \in Calls : Serve(c)
  \/ Crash \/ Restart
  \/ \E c \in Calls : DirectoryRemoved(c)

Spec == Init /\ [][Next]_vars

\* Request threads run, a wait is bounded, and a crashed process is restarted.
\* Nothing is assumed of the work, of crashes or of commits.
FairSpec ==
  /\ Spec
  /\ WF_vars(Restart)
  /\ \A c \in Calls :
       /\ WF_vars(up /\ Start(c))
       /\ WF_vars(up /\ WaitStep(c))
       /\ WF_vars(up /\ Final(c))

-------------------------------------------------------------------------------
(* Properties *)

\* Each row names a status of the table, the run that owned the execution and
\* a run directory, if any; a run that was never started has no row.
TypeOK ==
  /\ SF!TypeOK
  /\ row \in [Calls -> [status : {"absent", "created", "running"} \cup Terminal,
                        owner : Calls \cup {None}, artifact : Calls \cup {None}]]
  /\ body \in [Calls -> {"idle", "add", "activate", "work", "wait", "finish",
                         "publish", "closed", "failed"}]
  /\ result \in [Calls -> SF!Answers]
  /\ dir \in [Calls -> {"none", "present", "gone"}]
  /\ reviewing \subseteq Calls /\ decided \subseteq Calls
  /\ up \in BOOLEAN
  /\ crashes \in 0..MaxCrashes /\ faults \in 0..MaxFaults

\* What a client was told of a finished run stays so: no cancellation, failed
\* commit, late owner or recovery rewrites a row that reached its final state.
FinishedRowsAreFinal ==
  [][\A c \in Calls : row[c].status \in Terminal => row'[c] = row[c]]_vars

\* A follower's row never claims more than its owner's durable row: when it
\* says completed or rejected, so does the owner's, with the same artifacts,
\* even if the process died right after (_finish_run precedes complete).
FollowersAgreeWithOwners ==
  \A c \in Calls :
    LET owner == row[c].owner IN
    owner \notin {None, c} /\ row[c].status \in {"completed", "rejected"} =>
      /\ row[owner].status = row[c].status
      /\ row[owner].artifact = row[c].artifact

\* A served row that says running has a thread of this process behind it, or
\* a final commit that raised in this process; and a thread that executes or
\* waits has a running row that names the flight it is in.
RunningRowsHaveThreads ==
  up => \A c \in Calls :
    /\ row[c].status = "running" => body[c] \in {"work", "wait", "finish", "failed"}
    /\ body[c] \in {"work", "wait", "finish"} => row[c].status = "running" /\ row[c].owner = flight[c]

\* A human decision is only ever attached to a completed run whose artifacts
\* were written by a run that is itself on record as completed, although the
\* check and the insert of record_decision are two steps.
DecisionsStand ==
  \A c \in decided :
    /\ row[c].status = "completed"
    /\ row[c].artifact # None
    /\ row[row[c].artifact].status = "completed"

\* The runs a thread still carries on: their row is at least created.
Open == {c \in Calls : body[c] \in {"activate", "work", "wait", "finish"}}

Table == INSTANCE RunTable WITH open <- Open

\* Seen from the database, all of create(), its crashes, failed commits and the
\* recovery is one guarded update of the tables at a time: a row goes through
\* created and running once, a follower records a success only when its owner
\* has it on record, recovery never fails a run that is still worked on, and a
\* decision rests on completed runs when it is inserted.
ImplementsRunTable == Table!Spec

WorkReturns == \A c \in Calls : At(c, "work") ~> ~At(c, "work")

\* If the work returns, a running row is finished, unless its final commit
\* raised; and once the process has died it is always finished, by recovery.
RunningRowsResolve ==
  \A c \in Calls :
    /\ WorkReturns => (row[c].status = "running" ~> (row[c].status \in Terminal \/ At(c, "failed")))
    /\ (row[c].status = "running" /\ ~up) ~> row[c].status \in Terminal
===============================================================================
