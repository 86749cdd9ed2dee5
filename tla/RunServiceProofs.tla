--------------------------- MODULE RunServiceProofs ---------------------------
(***************************************************************************)
(* Theorems about RunService for every set of requests, every assignment   *)
(* of keys, every limit and any number of crashes and failing commits.     *)
(*                                                                         *)
(* The coordinator's share of the state is that of SingleFlight, and every *)
(* step of a request either is one of its steps or leaves it alone, so its *)
(* inductive invariant is taken over from SingleFlightProofs (SFP); a      *)
(* crash re-establishes it.  On top of it:                                 *)
(*   TypeInv    the variables of RunService have their types;              *)
(*   ThreadInv  how a request's place in create(), its place in claim()    *)
(*              and its row agree;                                         *)
(*   ResultInv  what a request is about to record or has published is      *)
(*              backed by its owner's row, or by a run directory that was  *)
(*              removed since;                                             *)
(*   RowInv     rows of one execution agree, and reviewed runs stay put.   *)
(***************************************************************************)
EXTENDS RunService, TLAPS

SFP == INSTANCE SingleFlightProofs WITH ApiCalls <- Calls

Bodies == {"idle", "add", "activate", "work", "wait", "finish", "publish", "closed", "failed"}
Statuses == {"absent", "created", "running"} \cup Terminal
Rows == [status : Statuses, owner : Calls \cup {None}, artifact : Calls \cup {None}]
Successes == {"completed", "rejected"}

TypeInv ==
  /\ row \in [Calls -> Rows]
  /\ body \in [Calls -> Bodies]
  /\ result \in [Calls -> SF!Answers]
  /\ dir \in [Calls -> {"none", "present", "gone"}]
  /\ reviewing \subseteq Calls /\ decided \subseteq Calls
  /\ up \in BOOLEAN
  /\ crashes \in 0..MaxCrashes /\ faults \in 0..MaxFaults

Follows(c) == flight[c] \notin {None, c}

ThreadOf(c) ==
  /\ At(c, "idle") =>
       pc[c] \in {"new", "counting", "refused", "directCounting", "ended"} /\ row[c].status = "absent"
  /\ body[c] \in {"add", "activate"} => pc[c] \in {"owning", "joined", "direct"}
  /\ At(c, "add") => row[c].status = "absent"
  /\ At(c, "activate") => row[c].status = "created" /\ row[c].owner = flight[c]
  /\ At(c, "work") => pc[c] = "owning"
  /\ At(c, "wait") => pc[c] \in {"joined", "waiting", "woken"}
  /\ At(c, "finish") => pc[c] \in {"owning", "direct"} \/ (pc[c] = "ended" /\ Follows(c))
  /\ body[c] \in {"work", "wait", "finish"} => row[c].status = "running" /\ row[c].owner = flight[c]
  /\ At(c, "publish") => pc[c] \in {"owning", "direct"} /\ row[c].status \in Terminal
  /\ At(c, "failed") => pc[c] \in {"unwinding", "removing", "ended"} /\ row[c].status = "running"
  /\ At(c, "closed") => /\ pc[c] \in {"unwinding", "removing", "ended"}
                        /\ up => row[c].status # "running"
  /\ ~up => body[c] \in {"idle", "closed"}

ThreadInv == \A c \in Calls : ThreadOf(c)

\* A success r of the execution c owns is in c's row, or the row says why not.
Recorded(c, r) ==
  r \in Successes =>
    \/ row[c].status = r /\ row[c].artifact = c
    \/ row[c].status = "failed_security" /\ dir[c] = "gone"

ResultOf(c) ==
  /\ dir[c] # "none" => body[c] \in {"finish", "publish", "closed", "failed"}
  /\ At(c, "finish") /\ flight[c] = c /\ result[c] \in Successes => dir[c] # "none"
  /\ At(c, "finish") /\ Follows(c) => result[c] \in {answer[c], SF!RunCancelled}
  /\ At(c, "finish") /\ flight[c] = None => result[c] = "failed_security"
  /\ At(c, "publish") /\ flight[c] = c => Recorded(c, result[c])
  /\ flight[c] = c /\ pc[c] # "owning" => Recorded(c, outcome[c])

ResultInv == \A c \in Calls : ResultOf(c)

\* FollowersAgreeWithOwners of one run.
Agrees(c) ==
  row[c].owner \notin {None, c} /\ row[c].status \in Successes =>
    /\ row[row[c].owner].status = row[c].status
    /\ row[row[c].owner].artifact = row[c].artifact

RowOf(c) ==
  /\ Agrees(c)
  /\ row[c].artifact \in {None, row[c].owner}
  /\ row[c].artifact # None => dir[row[c].artifact] # "none"
  /\ c \in reviewing \cup decided => row[c].status = "completed" /\ row[c].artifact # None

RowInv == \A c \in Calls : RowOf(c)

IInv == SFP!IInv /\ TypeInv /\ ThreadInv /\ ResultInv /\ RowInv

-------------------------------------------------------------------------------
(* The coordinator's share of the state *)

\* The assumptions of SingleFlight hold of the constants it is given here.
LEMMA FlightAssumptions ==
  /\ Calls \subseteq Calls /\ None \notin Calls
  /\ KeyOf \in [Calls -> {KeyOf[c] : c \in Calls}]
  /\ MaxConcurrent \in Nat \ {0} /\ PerMinute \in Nat \ {0}
  /\ None \notin SFP!Outcomes
  /\ {SFP!WaitTimeout, SFP!Raised} \cap SFP!Outcomes = {}
  /\ None \notin {SFP!WaitTimeout, SFP!Raised}
  BY CallsAssumption, LimitsAssumption, ResultsAssumption
  DEF SF!Outcomes, SF!WaitTimeout, SF!Raised, SF!RunnerFailed, SF!RunCancelled, Results,
      SFP!Outcomes, SFP!WaitTimeout, SFP!Raised, SFP!RunnerFailed, SFP!RunCancelled

\* So a step of the coordinator preserves the coordinator's invariant ...
LEMMA FlightPreserved == SFP!IInv /\ [SFP!Next]_(SFP!vars) => SFP!IInv'
  BY FlightAssumptions, SFP!StepIInv

\* ... a fresh coordinator has it ...
LEMMA FlightInit == SFP!Init => SFP!IInv
  BY FlightAssumptions, SFP!InitIInv

\* ... and it implies the coordinator's type invariant.
LEMMA FlightTyped == SFP!IInv => SFP!TypeOK
  <1>1. SFP!IInv => permits \in 0..MaxConcurrent
    BY FlightAssumptions, SFP!PermitsBounded
  <1> QED BY <1>1 DEF SFP!IInv, SFP!TypeInv, SFP!TypeOK, SFP!PCs

\* The coordinator of RunService and the one of the theorems are the same.
LEMMA SameCoordinator ==
  /\ SF!Init <=> SFP!Init
  /\ SF!Next <=> SFP!Next
  /\ SF!TypeOK <=> SFP!TypeOK
  <1> USE DEF
    SF!Goto, SF!TakePermit, SF!GivePermit, SF!Counted, SF!RateExceeded, SF!Register, SF!Keys,
    SF!Outcomes, SF!Answers, SF!RunnerFailed, SF!RunCancelled, SF!WaitTimeout, SF!Raised,
    SFP!Goto, SFP!TakePermit, SFP!GivePermit, SFP!Counted, SFP!RateExceeded, SFP!Register, SFP!Keys,
    SFP!Outcomes, SFP!Answers, SFP!RunnerFailed, SFP!RunCancelled, SFP!WaitTimeout, SFP!Raised
  <1>1. SF!Init <=> SFP!Init
    BY DEF SF!Init, SFP!Init
  <1>2. SF!TypeOK <=> SFP!TypeOK
    BY DEF SF!TypeOK, SFP!TypeOK
  <1>3. ASSUME NEW c \in Calls
        PROVE  SF!Claim(c) <=> SFP!Claim(c)
    BY DEF SF!Claim, SF!AcquireAsOwner, SF!RefuseBusy, SF!CountOwner, SF!RefuseOwnerRate,
           SF!JoinCounted, SF!RefuseFollowerRate, SF!OwnUnmetered, SF!JoinUnmetered,
           SFP!Claim, SFP!AcquireAsOwner, SFP!RefuseBusy, SFP!CountOwner, SFP!RefuseOwnerRate,
           SFP!JoinCounted, SFP!RefuseFollowerRate, SFP!OwnUnmetered, SFP!JoinUnmetered
  <1>4. ASSUME NEW c \in Calls
        PROVE  /\ SF!Body(c) <=> SFP!Body(c)
               /\ SF!Unwind(c) <=> SFP!Unwind(c)
               /\ SF!FollowerRaises(c) <=> SFP!FollowerRaises(c)
    BY DEF SF!Body, SF!OwnerCompletes, SF!OwnerRaises, SF!Unwind, SF!ReleasePermit,
           SF!RemoveEntry, SF!FollowerRaises,
           SFP!Body, SFP!OwnerCompletes, SFP!OwnerRaises, SFP!Unwind, SFP!ReleasePermit,
           SFP!RemoveEntry, SFP!FollowerRaises
  <1>5. ASSUME NEW c \in Calls
        PROVE  SF!Follow(c) <=> SFP!Follow(c)
    BY DEF SF!Follow, SF!StartWait, SF!Wake, SF!WaitTimesOut, SF!ReadOutcome,
           SFP!Follow, SFP!StartWait, SFP!Wake, SFP!WaitTimesOut, SFP!ReadOutcome
  <1>6. ASSUME NEW c \in Calls
        PROVE  SF!Direct(c) <=> SFP!Direct(c)
    BY DEF SF!Direct, SF!DirectAcquire, SF!DirectRefuseBusy, SF!DirectCount,
           SF!DirectRefuseRate, SF!DirectRelease,
           SFP!Direct, SFP!DirectAcquire, SFP!DirectRefuseBusy, SFP!DirectCount,
           SFP!DirectRefuseRate, SFP!DirectRelease
  <1>7. SF!Next <=> SFP!Next
    BY <1>3, <1>4, <1>5, <1>6 DEF SF!Next, SFP!Next
  <1> QED BY <1>1, <1>2, <1>7

\* What the proofs below use of the coordinator's invariant.
LEMMA FlightFacts ==
  ASSUME SFP!IInv, NEW c \in Calls
  PROVE  /\ c # None
         /\ flight[c] \in Calls \cup {None}
         /\ pc[c] \in {"owning", "unwinding", "removing"} => flight[c] = c
         /\ pc[c] \in {"joined", "waiting", "woken"} => Follows(c) /\ answer[c] = None
         /\ pc[c] = "woken" => done[flight[c]]
         /\ done[c] => pc[c] = "ended" /\ flight[c] = c
         /\ flight[c] = c => pc[c] \in {"owning", "unwinding", "removing", "ended"}
         /\ Follows(c) => pc[c] \in {"joined", "waiting", "woken", "ended"}
         /\ Follows(c) /\ answer[c] \in SF!Outcomes =>
              done[flight[c]] /\ answer[c] = outcome[flight[c]]
  BY FlightAssumptions
  DEF SFP!IInv, SFP!TypeInv, SFP!FlightInv, SFP!IsFollower, SFP!Executing, Follows,
      SF!Outcomes, SFP!Outcomes, SF!RunnerFailed, SFP!RunnerFailed,
      SF!RunCancelled, SFP!RunCancelled

\* ... and of its types.
LEMMA FlightTypes ==
  ASSUME SFP!IInv
  PROVE  /\ flight \in [Calls -> Calls \cup {None}]
         /\ outcome \in [Calls -> SF!Outcomes]
         /\ pc \in [Calls -> SFP!PCs]
         /\ answer \in [Calls -> SF!Answers]
  BY DEF SFP!IInv, SFP!TypeInv, SF!Outcomes, SFP!Outcomes, SF!Answers, SFP!Answers,
         SF!RunnerFailed, SFP!RunnerFailed, SF!RunCancelled, SFP!RunCancelled,
         SF!WaitTimeout, SFP!WaitTimeout, SF!Raised, SFP!Raised

FlightStepOf(c) ==
  \/ SF!Claim(c) \/ SF!Body(c) \/ SF!Unwind(c)
  \/ SF!Follow(c) \/ SF!FollowerRaises(c) \/ SF!Direct(c)

\* A step of a request is its step of the coordinator or leaves that alone.
LEMMA ServeFlight ==
  ASSUME NEW c \in Calls, Serve(c)
  PROVE  FlightStepOf(c) \/ UNCHANGED flightVars
  <1> USE DEF FlightStepOf, SF!Claim, SF!Body, SF!Unwind, SF!Follow, SF!Direct
  <1>1. CASE Enter(c)
    BY <1>1 DEF Enter, Admitted, Unadmitted
  <1>2. CASE Start(c)
    BY <1>2 DEF Start, AddRow, Activate, StartRaises, Unwinds
  <1>3. CASE Work(c) \/ CancelWork(c) \/ CancelWait(c)
    BY <1>3 DEF Work, CancelWork, CancelWait
  <1>4. CASE WaitStep(c)
    BY <1>4 DEF WaitStep, Wait, Answered
  <1>5. CASE Final(c)
    BY <1>5 DEF Final, Finish, FinishRaises, Unwinds
  <1>6. CASE Publish(c) \/ Unwind(c)
    BY <1>6 DEF Publish, Unwind
  <1>7. CASE Review(c)
    BY <1>7 DEF Review, BeginReview, CommitDecision
  <1> QED BY <1>1, <1>2, <1>3, <1>4, <1>5, <1>6, <1>7 DEF Serve

\* A crash empties the coordinator and the quotas, and no call is left inside.
LEMMA FlightCrash == SFP!IInv /\ Crash => SFP!IInv'
  <1> SUFFICES ASSUME SFP!IInv, Crash PROVE SFP!IInv'
    OBVIOUS
  <1> USE FlightAssumptions DEF Crash, SFP!IInv
  <1>1. SFP!TypeInv'
    BY DEF SFP!TypeInv, SFP!PCs, SF!Keys, SFP!Keys, SFP!Outcomes, SFP!Answers,
           SFP!RunnerFailed, SF!RunnerFailed
  <1>2. SFP!LockInv'
    BY DEF SFP!LockInv
  <1>3. SFP!EntryInv'
    BY SFP!KeyOfType
    DEF SFP!EntryInv, SFP!EntriesHaveLiveOwners, SFP!Executing, SF!Keys, SFP!Keys
  <1>4. SFP!FlightInv'
    BY DEF SFP!FlightInv, SFP!Executing, SFP!IsFollower
  <1>5. SFP!PermitInv'
    <2>1. holds' = {} /\ permits' = MaxConcurrent
      OBVIOUS
    <2>2. SFP!Cardinality(holds') = 0 /\ SFP!IsFiniteSet(holds')
      BY <2>1, SFP!FS_EmptySet
    <2>3. \A c \in Calls : pc'[c] \in {"new", "ended"}
      OBVIOUS
    <2> QED BY <2>1, <2>2, <2>3 DEF SFP!PermitInv, SFP!HoldingStates
  <1> QED BY <1>1, <1>2, <1>3, <1>4, <1>5

\* Every step preserves the coordinator's invariant.
LEMMA FlightStep == SFP!IInv /\ [Next]_vars => SFP!IInv'
  <1> SUFFICES ASSUME SFP!IInv, [Next]_vars PROVE SFP!IInv'
    OBVIOUS
  <1>1. ASSUME NEW c \in Calls, Serve(c) PROVE SFP!IInv'
    <2>1. SF!Next \/ UNCHANGED flightVars
      BY <1>1, ServeFlight DEF FlightStepOf, SF!Next
    <2> QED BY <2>1, SameCoordinator, FlightPreserved DEF flightVars, SFP!vars
  <1>2. CASE Crash
    BY <1>2, FlightCrash
  <1>3. CASE UNCHANGED flightVars
    BY <1>3, FlightPreserved DEF flightVars, SFP!vars
  <1> QED BY <1>1, <1>2, <1>3 DEF Next, Restart, DirectoryRemoved, vars

-------------------------------------------------------------------------------
(* Typing *)

\* The row a finished run is given is a row of the table.
LEMMA FinalRowType ==
  ASSUME TypeInv, NEW c \in Calls
  PROVE  /\ FinalRow(c) \in Rows
         /\ FinalRow(c).status \in Terminal
         /\ FinalRow(c).owner = row[c].owner
  <1>1. row[c] \in Rows
    BY DEF TypeInv
  <1>2. row[c].owner \in Calls \cup {None}
    BY <1>1 DEF Rows
  <1>3. StatusOf(result[c]) \in Terminal
    BY DEF StatusOf, Terminal, Results
  <1>4. Artifact(c) \in Calls \cup {None}
    BY <1>2 DEF Artifact
  <1> DEFINE there == IF Artifact(c) = None THEN "none" ELSE dir[Artifact(c)]
             st == IF there = "gone" THEN "failed_security" ELSE StatusOf(result[c])
             at == IF there = "present" THEN Artifact(c) ELSE None
  <1>5. FinalRow(c) = [status |-> st, owner |-> row[c].owner, artifact |-> at]
    BY DEF FinalRow
  <1>6. st \in Terminal /\ at \in Calls \cup {None}
    BY <1>3, <1>4 DEF Terminal, Results
  <1> HIDE DEF st, at
  <1> QED BY <1>2, <1>5, <1>6 DEF Rows, Statuses

\* Recovery only touches the status.
LEMMA RecoveredType ==
  ASSUME NEW r \in Rows
  PROVE  /\ Recovered(r) \in Rows
         /\ Recovered(r).owner = r.owner /\ Recovered(r).artifact = r.artifact
         /\ Recovered(r).status = IF r.status = "running" THEN "failed_runtime" ELSE r.status
         /\ r.status # "running" => Recovered(r) = r
  <1>1. CASE r.status = "running"
    BY <1>1 DEF Recovered, Rows, Statuses, Terminal, Results
  <1>2. CASE r.status # "running"
    BY <1>2 DEF Recovered, Rows, Statuses, Terminal, Results
  <1> QED BY <1>1, <1>2

\* A service that has just been installed has no rows.
LEMMA TypeInit == Init => TypeInv
  BY LimitsAssumption
  DEF Init, TypeInv, Absent, Rows, Statuses, Bodies, SF!Answers

\* A commit that raises is counted.
LEMMA FaultType ==
  ASSUME faults \in 0..MaxFaults, Fault PROVE faults' \in 0..MaxFaults
  BY LimitsAssumption DEF Fault

\* Every action assigns values of the variables' types.
LEMMA TypeStep == TypeInv /\ SFP!IInv /\ SFP!IInv' /\ [Next]_vars => TypeInv'
  <1> SUFFICES ASSUME TypeInv, SFP!IInv, SFP!IInv', [Next]_vars PROVE TypeInv'
    OBVIOUS
  <1>0. flight \in [Calls -> Calls \cup {None}] /\ answer' \in [Calls -> SF!Answers]
    BY DEF SFP!IInv, SFP!TypeInv, SF!Outcomes, SFP!Outcomes, SF!Answers, SFP!Answers,
           SF!RunnerFailed, SFP!RunnerFailed, SF!RunCancelled, SFP!RunCancelled,
           SF!WaitTimeout, SFP!WaitTimeout, SF!Raised, SFP!Raised
  <1> USE <1>0 DEF TypeInv, Move, At, rowVars, boundVars
  <1>1. ASSUME NEW c \in Calls, Enter(c) PROVE TypeInv'
    BY <1>1 DEF Enter, Unadmitted, Admitted, Bodies
  <1>2. ASSUME NEW c \in Calls, AddRow(c) PROVE TypeInv'
    BY <1>2 DEF AddRow, Bodies, Rows, Statuses
  <1>3. ASSUME NEW c \in Calls, Activate(c) PROVE TypeInv'
    <2>1. row' \in [Calls -> Rows]
      BY <1>3 DEF Activate, Set, Rows, Statuses
    <2> QED BY <1>3, <2>1
      DEF Activate, Bodies, SF!Answers, SF!Outcomes, Results
  <1>4. ASSUME NEW c \in Calls, StartRaises(c) PROVE TypeInv'
    BY <1>4, FaultType DEF StartRaises, Bodies
  <1>5. ASSUME NEW c \in Calls, Work(c) PROVE TypeInv'
    BY <1>5 DEF Work, Bodies, SF!Answers, SF!Outcomes
  <1>6. ASSUME NEW c \in Calls, CancelWork(c) \/ CancelWait(c) PROVE TypeInv'
    BY <1>6 DEF CancelWork, CancelWait, Bodies, SF!Answers, SF!Outcomes
  <1>7. ASSUME NEW c \in Calls, Wait(c) PROVE TypeInv'
    BY <1>7 DEF Wait
  <1>8. ASSUME NEW c \in Calls, Answered(c) PROVE TypeInv'
    BY <1>8 DEF Answered, Bodies
  <1>9. ASSUME NEW c \in Calls, Finish(c) PROVE TypeInv'
    BY <1>9, FinalRowType DEF Finish, Bodies
  <1>10. ASSUME NEW c \in Calls, FinishRaises(c) PROVE TypeInv'
    BY <1>10, FaultType DEF FinishRaises, Bodies
  <1>11. ASSUME NEW c \in Calls, Publish(c) PROVE TypeInv'
    BY <1>11 DEF Publish, Bodies
  <1>12. ASSUME NEW c \in Calls, Unwind(c) PROVE TypeInv'
    BY <1>12 DEF Unwind
  <1>13. ASSUME NEW c \in Calls, BeginReview(c) PROVE TypeInv'
    BY <1>13 DEF BeginReview
  <1>14. ASSUME NEW c \in Calls, CommitDecision(c) PROVE TypeInv'
    BY <1>14, FaultType DEF CommitDecision
  <1>15. CASE Crash
    <2>1. crashes' \in 0..MaxCrashes
      BY <1>15, LimitsAssumption DEF Crash
    <2>2. UNCHANGED <<row, dir, decided, faults>> /\ reviewing' = {} /\ up' = FALSE
      BY <1>15 DEF Crash
    <2>3. body' \in [Calls -> Bodies]
      BY <1>15 DEF Crash, Bodies
    <2>4. result' \in [Calls -> SF!Answers]
      BY <1>15 DEF Crash, SF!Answers
    <2> QED BY <2>1, <2>2, <2>3, <2>4
  <1>16. CASE Restart
    BY <1>16, RecoveredType DEF Restart
  <1>17. ASSUME NEW c \in Calls, DirectoryRemoved(c) PROVE TypeInv'
    BY <1>17 DEF DirectoryRemoved
  <1>18. CASE UNCHANGED vars
    BY <1>18 DEF vars
  <1> QED BY <1>1, <1>2, <1>3, <1>4, <1>5, <1>6, <1>7, <1>8, <1>9, <1>10, <1>11, <1>12,
             <1>13, <1>14, <1>15, <1>16, <1>17, <1>18
          DEF Next, Serve, Start, WaitStep, Final, Review

-------------------------------------------------------------------------------
(* What a step of one request leaves alone *)

Same(d) ==
  /\ row'[d] = row[d] /\ body'[d] = body[d] /\ result'[d] = result[d] /\ dir'[d] = dir[d]
  /\ flight'[d] = flight[d] /\ pc'[d] = pc[d]
  /\ answer'[d] = answer[d] /\ outcome'[d] = outcome[d]

\* The coordinator touches the entry, the outcome and the answer of the call
\* that makes the step, and of no other.
LEMMA FlightElsewhere ==
  ASSUME SFP!IInv, NEW c \in Calls, FlightStepOf(c), NEW d \in Calls \ {c}
  PROVE  /\ flight'[d] = flight[d] /\ pc'[d] = pc[d]
         /\ answer'[d] = answer[d] /\ outcome'[d] = outcome[d]
  <1> USE FlightTypes DEF SF!Goto
  <1>1. CASE SF!Claim(c)
    BY <1>1 DEF SF!Claim, SF!AcquireAsOwner, SF!RefuseBusy, SF!CountOwner, SF!RefuseOwnerRate,
                SF!JoinCounted, SF!RefuseFollowerRate, SF!OwnUnmetered, SF!JoinUnmetered,
                SF!Register
  <1>2. CASE SF!Body(c) \/ SF!Unwind(c) \/ SF!FollowerRaises(c)
    BY <1>2 DEF SF!Body, SF!OwnerCompletes, SF!OwnerRaises, SF!Unwind, SF!ReleasePermit,
                SF!RemoveEntry, SF!FollowerRaises
  <1>3. CASE SF!Follow(c)
    BY <1>3 DEF SF!Follow, SF!StartWait, SF!Wake, SF!WaitTimesOut, SF!ReadOutcome
  <1>4. CASE SF!Direct(c)
    BY <1>4 DEF SF!Direct, SF!DirectAcquire, SF!DirectRefuseBusy, SF!DirectCount,
                SF!DirectRefuseRate, SF!DirectRelease
  <1> QED BY <1>1, <1>2, <1>3, <1>4 DEF FlightStepOf

\* So does the service: a request writes its own row and run directory only.
LEMMA ServeElsewhere ==
  ASSUME SFP!IInv, TypeInv, NEW c \in Calls, Serve(c)
  PROVE  up' = up /\ \A d \in Calls \ {c} : Same(d)
  <1> DEFINE Own == /\ up' = up
                    /\ \A d \in Calls \ {c} :
                         /\ row'[d] = row[d] /\ body'[d] = body[d]
                         /\ result'[d] = result[d] /\ dir'[d] = dir[d]
  <1>1. Own
    <2> USE DEF TypeInv, Move, rowVars, boundVars
    <2>1. CASE Enter(c)
      BY <2>1 DEF Enter, Admitted, Unadmitted
    <2>2. CASE Start(c)
      BY <2>2 DEF Start, AddRow, Activate, Set, StartRaises
    <2>3. CASE Work(c) \/ CancelWork(c) \/ CancelWait(c)
      BY <2>3 DEF Work, CancelWork, CancelWait
    <2>4. CASE WaitStep(c)
      BY <2>4 DEF WaitStep, Wait, Answered
    <2>5. CASE Final(c)
      BY <2>5 DEF Final, Finish, FinishRaises
    <2>6. CASE Publish(c) \/ Unwind(c)
      BY <2>6 DEF Publish, Unwind
    <2>7. CASE Review(c)
      BY <2>7 DEF Review, BeginReview, CommitDecision
    <2> QED BY <2>1, <2>2, <2>3, <2>4, <2>5, <2>6, <2>7 DEF Serve
  <1>2. ASSUME NEW d \in Calls \ {c}
        PROVE  /\ flight'[d] = flight[d] /\ pc'[d] = pc[d]
               /\ answer'[d] = answer[d] /\ outcome'[d] = outcome[d]
    BY ServeFlight, FlightElsewhere DEF flightVars
  <1> QED BY <1>1, <1>2 DEF Same

\* A thread whose state did not change is where it was.
LEMMA ThreadStays ==
  ASSUME NEW d \in Calls, ThreadOf(d), row'[d] = row[d], body'[d] = body[d],
         pc'[d] = pc[d], flight'[d] = flight[d], up' = up
  PROVE  ThreadOf(d)'
  BY DEF ThreadOf, At, Follows

\* What it recorded and published still agrees.
LEMMA ResultStays ==
  ASSUME NEW d \in Calls, ResultOf(d), Same(d)
  PROVE  ResultOf(d)'
  BY DEF ResultOf, Recorded, Same, At, Follows

-------------------------------------------------------------------------------
(* Requests and their rows *)

\* Nothing but the handlers in create() moves a request, and each leaves its
\* row in the state the next one expects.
LEMMA ThreadStep ==
  SFP!IInv /\ SFP!IInv' /\ TypeInv /\ ThreadInv /\ [Next]_vars => ThreadInv'
  <1> SUFFICES ASSUME SFP!IInv, TypeInv, ThreadInv, [Next]_vars PROVE ThreadInv'
    OBVIOUS
  <1>1. ASSUME NEW c \in Calls, up, Serve(c) PROVE ThreadOf(c)'
    <2> USE FlightFacts, FlightTypes DEF TypeInv, ThreadInv, ThreadOf, At, Move, Follows, SF!Goto
    <2>0. up' = up
      BY <1>1, ServeElsewhere
    <2> USE <1>1, <2>0
    <2>1. CASE Enter(c)
      <3>1. CASE Unadmitted(c)
        BY <3>1, <2>1
        DEF Enter, Unadmitted, rowVars, SF!AcquireAsOwner, SF!RefuseBusy,
            SF!RefuseOwnerRate, SF!RefuseFollowerRate,
            SF!DirectAcquire, SF!DirectRefuseBusy, SF!DirectRefuseRate
      <3>2. CASE Admitted(c)
        <4>1. body' = [body EXCEPT ![c] = "add"] /\ row' = row
          BY <2>1, <3>2 DEF Enter, Admitted, rowVars
        <4>2. /\ pc[c] \in {"new", "counting", "directCounting"}
              /\ pc'[c] \in {"owning", "joined", "direct"}
          BY <3>2 DEF Admitted, SF!CountOwner, SF!Register, SF!JoinCounted, SF!DirectCount
        <4>3. At(c, "idle")
          BY <4>2 DEF Bodies
        <4> QED BY <4>1, <4>2, <4>3
      <3> QED BY <2>1, <3>1, <3>2 DEF Enter
    <2>2. CASE AddRow(c)
      BY <2>2 DEF AddRow, flightVars
    <2>3. CASE Activate(c)
      BY <2>3 DEF Activate, flightVars, Set, Rows
    <2>4. CASE StartRaises(c)
      BY <2>4 DEF StartRaises, Unwinds, flightVars, rowVars, SF!OwnerRaises,
                  SF!FollowerRaises, SF!DirectRelease
    <2>5. CASE Work(c) \/ CancelWork(c)
      BY <2>5 DEF Work, CancelWork, flightVars, rowVars
    <2>6. CASE CancelWait(c)
      BY <2>6 DEF CancelWait, rowVars, SF!FollowerRaises
    <2>7. CASE Wait(c)
      BY <2>7 DEF Wait, rowVars, SF!StartWait, SF!Wake
    <2>8. CASE Answered(c)
      BY <2>8 DEF Answered, rowVars, SF!ReadOutcome, SF!WaitTimesOut
    <2>9. CASE Finish(c)
      BY <2>9, FinalRowType DEF Finish, flightVars, Terminal, Results
    <2>10. CASE FinishRaises(c)
      BY <2>10 DEF FinishRaises, Unwinds, flightVars, rowVars, SF!OwnerRaises,
                   SF!FollowerRaises, SF!DirectRelease
    <2>11. CASE Publish(c)
      BY <2>11 DEF Publish, rowVars, SF!OwnerCompletes, SF!OwnerRaises, SF!DirectRelease,
                   Terminal, Results
    <2>12. CASE Unwind(c)
      BY <2>12 DEF Unwind, rowVars, SF!ReleasePermit, SF!RemoveEntry
    <2>13. CASE Review(c)
      BY <2>13 DEF Review, BeginReview, CommitDecision, flightVars, rowVars
    <2> QED BY <2>1, <2>2, <2>3, <2>4, <2>5, <2>6, <2>7, <2>8, <2>9, <2>10, <2>11,
               <2>12, <2>13
            DEF Serve, Start, WaitStep, Final
  <1>2. ASSUME NEW c \in Calls, up, Serve(c) PROVE ThreadInv'
    BY <1>1, <1>2, ServeElsewhere, ThreadStays DEF ThreadInv, Same
  <1>3. CASE Crash
    BY <1>3, FlightTypes DEF Crash, rowVars, TypeInv, ThreadInv, ThreadOf, At, Bodies
  <1>4. CASE Restart
    <2> SUFFICES ASSUME NEW c \in Calls PROVE ThreadOf(c)'
      BY DEF ThreadInv
    <2>1. /\ row'[c] = Recovered(row[c]) /\ up' /\ ~up
          /\ body'[c] = body[c] /\ pc'[c] = pc[c] /\ row[c] \in Rows
      BY <1>4 DEF Restart, flightVars, TypeInv
    <2> QED BY <2>1, RecoveredType DEF ThreadInv, ThreadOf, At
  <1>5. CASE UNCHANGED <<row, body, pc, flight, up>>
    BY <1>5, ThreadStays DEF ThreadInv
  <1> QED BY <1>2, <1>3, <1>4, <1>5 DEF Next, DirectoryRemoved, flightVars, rowVars, vars

-------------------------------------------------------------------------------
(* Results, outcomes and run directories *)

\* What _finish_run() writes: the result, unless the owner's directory is gone,
\* and a directory only if it is there.
LEMMA FinalRowValue ==
  ASSUME TypeInv, NEW c \in Calls
  PROVE  /\ FinalRow(c).artifact \in {None, row[c].owner}
         /\ FinalRow(c).artifact # None => dir[FinalRow(c).artifact] = "present"
         /\ FinalRow(c).status \in Successes => result[c] = FinalRow(c).status
         /\ result[c] \in Successes /\ row[c].owner # None =>
              IF dir[row[c].owner] = "gone" THEN FinalRow(c).status = "failed_security"
              ELSE /\ FinalRow(c).status = result[c]
                   /\ dir[row[c].owner] = "present" => FinalRow(c).artifact = row[c].owner
  <1>1. row[c].owner \in Calls \cup {None}
    BY DEF TypeInv, Rows
  <1>2. Artifact(c) = IF result[c] \in Results /\ row[c].owner # None THEN row[c].owner ELSE None
    BY DEF Artifact
  <1> DEFINE there == IF Artifact(c) = None THEN "none" ELSE dir[Artifact(c)]
  <1>3. /\ FinalRow(c).artifact = IF there = "present" THEN Artifact(c) ELSE None
        /\ FinalRow(c).status = IF there = "gone" THEN "failed_security" ELSE StatusOf(result[c])
    BY DEF FinalRow
  <1>4. StatusOf(result[c]) \in Successes \/ result[c] \in Successes => StatusOf(result[c]) = result[c]
    BY DEF StatusOf, Successes, Results
  <1>5. Successes \subseteq Results /\ "failed_security" \notin Successes
    BY DEF Successes, Results
  <1> QED BY <1>1, <1>2, <1>3, <1>4, <1>5

\* A request that joins has another call's entry.
LEMMA JoinsAnother ==
  ASSUME SFP!IInv, NEW c \in Calls, SF!JoinCounted(c)
  PROVE  flight'[c] # c
  <1>1. KeyOf[c] \in SFP!Keys
    BY DEF SFP!Keys
  <1>2. entries[KeyOf[c]] # None => pc[entries[KeyOf[c]]] \in {"owning", "unwinding", "removing"}
    BY <1>1 DEF SFP!IInv, SFP!EntryInv, SFP!EntriesHaveLiveOwners, SFP!Executing
  <1>3. /\ pc[c] = "new" /\ entries[KeyOf[c]] # None
        /\ flight' = [flight EXCEPT ![c] = entries[KeyOf[c]]]
    BY DEF SF!JoinCounted
  <1> QED BY <1>2, <1>3, FlightTypes

\* A success is published only after its row is committed, and what is recorded
\* is neither withdrawn nor rewritten.
LEMMA ResultStep ==
  SFP!IInv /\ TypeInv /\ ThreadInv /\ ResultInv /\ [Next]_vars => ResultInv'
  <1> SUFFICES ASSUME SFP!IInv, TypeInv, ThreadInv, ResultInv, [Next]_vars PROVE ResultInv'
    OBVIOUS
  <1> USE DEF TypeInv
  <1>1. ASSUME NEW c \in Calls, up, Serve(c) PROVE ResultOf(c)'
    <2>0. ResultOf(c) /\ ThreadOf(c)
      BY DEF ResultInv, ThreadInv
    <2> USE <2>0, FlightFacts, FlightTypes
        DEF ResultOf, ThreadOf, At, Move, Follows, Recorded, Successes, rowVars, flightVars, SF!Goto
    <2>1. CASE Enter(c)
      <3>1. CASE Unadmitted(c)
        BY <3>1, <2>1
        DEF Enter, Unadmitted, SF!AcquireAsOwner, SF!RefuseBusy,
            SF!RefuseOwnerRate, SF!RefuseFollowerRate,
            SF!DirectAcquire, SF!DirectRefuseBusy, SF!DirectRefuseRate
      <3>2. CASE Admitted(c)
        <4>1. body' = [body EXCEPT ![c] = "add"] /\ UNCHANGED <<row, dir>>
          BY <2>1, <3>2 DEF Enter, Admitted
        <4>2. /\ pc[c] \in {"new", "counting", "directCounting"}
              /\ flight'[c] = c => pc'[c] = "owning"
          BY <3>2, JoinsAnother DEF Admitted, SF!CountOwner, SF!Register, SF!JoinCounted, SF!DirectCount
        <4>3. At(c, "idle")
          BY <4>2 DEF Bodies
        <4> QED BY <4>1, <4>2, <4>3
      <3> QED BY <2>1, <3>1, <3>2 DEF Enter
    <2>2. CASE AddRow(c)
      BY <2>2 DEF AddRow
    <2>3. CASE Activate(c)
      BY <2>3 DEF Activate, Set
    <2>4. CASE StartRaises(c)
      BY <2>4 DEF StartRaises, Unwinds, SF!OwnerRaises, SF!FollowerRaises, SF!DirectRelease,
                  SF!RunnerFailed
    <2>5. CASE Work(c)
      BY <2>5 DEF Work
    <2>6. CASE CancelWork(c)
      BY <2>6 DEF CancelWork, SF!RunCancelled
    <2>7. CASE CancelWait(c)
      BY <2>7 DEF CancelWait, SF!FollowerRaises
    <2>8. CASE Wait(c)
      BY <2>8 DEF Wait, SF!StartWait, SF!Wake
    <2>9. CASE Answered(c)
      BY <2>9 DEF Answered, SF!ReadOutcome, SF!WaitTimesOut
    <2>10. CASE Finish(c)
      BY <2>10, FinalRowValue DEF Finish
    <2>11. CASE FinishRaises(c)
      BY <2>11 DEF FinishRaises, Unwinds, SF!OwnerRaises, SF!FollowerRaises, SF!DirectRelease,
                   SF!RunnerFailed
    <2>12. CASE Publish(c)
      BY <2>12 DEF Publish, SF!OwnerCompletes, SF!OwnerRaises, SF!DirectRelease
    <2>13. CASE Unwind(c)
      BY <2>13 DEF Unwind, SF!ReleasePermit, SF!RemoveEntry
    <2>14. CASE Review(c)
      BY <2>14 DEF Review, BeginReview, CommitDecision
    <2> QED BY <1>1, <2>1, <2>2, <2>3, <2>4, <2>5, <2>6, <2>7, <2>8, <2>9, <2>10, <2>11,
               <2>12, <2>13, <2>14
            DEF Serve, Start, WaitStep, Final
  <1>2. ASSUME NEW c \in Calls, up, Serve(c) PROVE ResultInv'
    BY <1>1, <1>2, ServeElsewhere, ResultStays DEF ResultInv
  <1>3. CASE Crash
    BY <1>3, FlightFacts DEF Crash, rowVars, ResultInv, ResultOf, Bodies, At, Follows
  <1>4. CASE Restart
    <2> SUFFICES ASSUME NEW c \in Calls PROVE ResultOf(c)'
      BY DEF ResultInv
    <2>1. /\ UNCHANGED <<body, flight, pc, answer, outcome, result, dir>>
          /\ row'[c] = Recovered(row[c]) /\ row[c] \in Rows
      BY <1>4 DEF Restart, flightVars
    <2>2. ASSUME NEW r, Recorded(c, r) PROVE Recorded(c, r)'
      BY <2>1, <2>2, RecoveredType DEF Recorded, Successes
    <2> QED BY <2>1, <2>2 DEF ResultInv, ResultOf, At, Follows
  <1>5. ASSUME NEW c \in Calls, DirectoryRemoved(c) PROVE ResultInv'
    BY <1>5 DEF DirectoryRemoved, flightVars, ResultInv, ResultOf, Recorded, At, Follows
  <1>6. CASE UNCHANGED vars
    BY <1>6, ResultStays DEF vars, flightVars, rowVars, ResultInv, Same
  <1> QED BY <1>2, <1>3, <1>4, <1>5, <1>6 DEF Next

-------------------------------------------------------------------------------
(* Rows of one execution agree *)

\* A row that reached its final state is not written again.
LEMMA RowsKept ==
  ASSUME TypeInv, ThreadInv, SFP!IInv, [Next]_vars,
         NEW d \in Calls, row[d].status \in Terminal
  PROVE  row'[d] = row[d]
  <1> USE DEF TypeInv, Terminal, Results
  <1>1. ASSUME NEW c \in Calls, up, Serve(c) PROVE row'[d] = row[d]
    <2>1. CASE c # d
      BY <1>1, <2>1, ServeElsewhere DEF Same
    <2>2. CASE c = d
      <3> USE <2>2 DEF ThreadInv, ThreadOf, At, rowVars
      <3>1. ~ AddRow(c) /\ ~ Activate(c) /\ ~ Finish(c)
        BY DEF AddRow, Activate, Finish
      <3> QED BY <1>1, <3>1
        DEF Serve, Enter, Start, StartRaises, Work, CancelWork, CancelWait, WaitStep, Wait,
            Answered, Final, FinishRaises, Publish, Unwind, Review, BeginReview, CommitDecision
    <2> QED BY <2>1, <2>2
  <1>2. CASE Restart
    BY <1>2, RecoveredType DEF Restart
  <1> QED BY <1>1, <1>2 DEF Next, Crash, DirectoryRemoved, vars, rowVars

\* A run directory may be deleted, but what once was there is never forgotten.
LEMMA DirectoriesKept ==
  ASSUME TypeInv, ResultInv, SFP!IInv, [Next]_vars, NEW d \in Calls, dir[d] # "none"
  PROVE  dir'[d] # "none"
  <1> USE DEF TypeInv
  <1>1. ASSUME NEW c \in Calls, up, Serve(c) PROVE dir'[d] # "none"
    <2>1. CASE c # d
      BY <1>1, <2>1, ServeElsewhere DEF Same
    <2>2. CASE c = d
      <3> USE <2>2 DEF ResultInv, ResultOf, At, rowVars
      <3>1. ~ Work(c)
        BY DEF Work
      <3> QED BY <1>1, <3>1
        DEF Serve, Enter, Start, AddRow, Activate, StartRaises, CancelWork, CancelWait,
            WaitStep, Wait, Answered, Final, Finish, FinishRaises, Publish, Unwind, Review,
            BeginReview, CommitDecision
    <2> QED BY <2>1, <2>2
  <1> QED BY <1>1 DEF Next, Crash, Restart, DirectoryRemoved, vars, rowVars

\* A follower that records a success was given the outcome of its owner, whose
\* row was committed before and whose run directory is still there.
LEMMA FollowedSuccess ==
  ASSUME SFP!IInv, TypeInv, ThreadInv, ResultInv, RowInv, NEW c \in Calls, Finish(c),
         row[c].owner \notin {None, c}, FinalRow(c).status \in Successes
  PROVE  /\ row[c].owner \in Calls \ {c}
         /\ row[row[c].owner].status = FinalRow(c).status
         /\ row[row[c].owner].artifact = row[c].owner
         /\ FinalRow(c).artifact = row[c].owner
  <1> DEFINE o == row[c].owner
  <1>1. At(c, "finish") /\ flight[c] = o /\ Follows(c) /\ o \in Calls \ {c}
    BY FlightTypes DEF Finish, ThreadInv, ThreadOf, At, Follows
  <1>2. result[c] = FinalRow(c).status /\ dir[o] # "gone"
    BY <1>1, FinalRowValue, FinalRowType DEF Successes
  <1>3. answer[c] = result[c]
    BY <1>1, <1>2 DEF ResultInv, ResultOf, Successes, SF!RunCancelled
  <1>4. done[o] /\ outcome[o] = result[c]
    BY <1>1, <1>2, <1>3, FlightFacts DEF SF!Outcomes, Results, Successes
  <1>5. flight[o] = o /\ pc[o] = "ended"
    BY <1>1, <1>4, FlightFacts
  <1>6. row[o].status = result[c] /\ row[o].artifact = o
    BY <1>1, <1>2, <1>4, <1>5 DEF ResultInv, ResultOf, Recorded
  <1>7. dir[o] = "present"
    BY <1>1, <1>2, <1>6 DEF RowInv, RowOf, TypeInv, CallsAssumption
  <1>8. FinalRow(c).artifact = o
    BY <1>1, <1>2, <1>7, FinalRowValue
  <1> QED BY <1>1, <1>2, <1>6, <1>8

\* So a run that is written agrees with the run it follows.
LEMMA FinishedAgrees ==
  ASSUME SFP!IInv, TypeInv, ThreadInv, ResultInv, RowInv, NEW c \in Calls, Finish(c)
  PROVE  Agrees(c)'
  <1> DEFINE o == row[c].owner
  <1>1. row' = [row EXCEPT ![c] = FinalRow(c)]
    BY DEF Finish
  <1>2. row'[c] = FinalRow(c) /\ FinalRow(c).owner = o
    BY <1>1, FinalRowType DEF TypeInv
  <1>3. ASSUME o \notin {None, c}, FinalRow(c).status \in Successes
        PROVE  /\ row'[o].status = FinalRow(c).status
               /\ row'[o].artifact = FinalRow(c).artifact
    <2>1. o \in Calls \ {c}
      BY <1>3, FollowedSuccess
    <2>2. row'[o] = row[o]
      BY <1>1, <2>1 DEF TypeInv
    <2> QED BY <1>3, <2>2, FollowedSuccess
  <1> QED BY <1>2, <1>3 DEF Agrees

\* Every row either keeps its content or takes its next state, in which it
\* agrees with its owner's row, which is final.
LEMMA RowStep ==
  /\ SFP!IInv /\ TypeInv /\ ThreadInv /\ ResultInv /\ RowInv /\ TypeInv'
  /\ [Next]_vars
  => RowInv'
  <1> SUFFICES ASSUME SFP!IInv, TypeInv, ThreadInv, ResultInv, RowInv, TypeInv', [Next]_vars,
                      NEW d \in Calls
               PROVE  RowOf(d)'
    BY DEF RowInv
  <1>1. /\ RowOf(d) /\ row[d] \in Rows /\ row'[d] \in Rows
        /\ row[d].owner \in Calls \cup {None}
    BY DEF RowInv, TypeInv, Rows
  <1>2. CASE row'[d] = row[d]
    <2>1. Agrees(d)'
      <3>1. CASE row[d].owner \notin {None, d} /\ row[d].status \in Successes
        <4>1. row[row[d].owner].status \in Terminal
          BY <1>1, <3>1 DEF RowOf, Agrees, Successes, Terminal, Results
        <4>2. row'[row[d].owner] = row[row[d].owner]
          BY <1>1, <3>1, <4>1, RowsKept
        <4> QED BY <1>1, <1>2, <4>2 DEF RowOf, Agrees
      <3> QED BY <1>2, <3>1 DEF Agrees
    <2>2. row[d].artifact # None => dir'[row[d].artifact] # "none"
      BY <1>1, DirectoriesKept DEF RowOf
    <2>3. d \in reviewing' \cup decided' =>
            row[d].status = "completed" /\ row[d].artifact # None
      <3>1. CASE d \in reviewing \cup decided
        BY <3>1, <1>1 DEF RowOf
      <3>2. CASE \E c \in Calls : BeginReview(c) /\ c = d
        BY <3>2 DEF BeginReview, HasFiles
      <3> QED
        BY <3>1, <3>2
        DEF Next, Serve, Enter, Start, AddRow, Activate, StartRaises, Work, CancelWork,
            CancelWait, WaitStep, Wait, Answered, Final, Finish, FinishRaises, Publish, Unwind,
            Review, BeginReview, CommitDecision, Crash, Restart, DirectoryRemoved, vars, rowVars
    <2> QED BY <1>1, <1>2, <2>1, <2>2, <2>3 DEF RowOf
  <1>3. CASE row'[d] # row[d]
    <2>1. row[d].status \notin Terminal
      BY <1>3, RowsKept
    <2>2. d \notin reviewing \cup decided
      BY <1>1, <2>1 DEF RowOf, Terminal, Results
    <2>3. CASE up /\ (AddRow(d) \/ Activate(d))
      <3>1. UNCHANGED <<dir, reviewing, decided>>
        BY <2>3 DEF AddRow, Activate
      <3>2. CASE AddRow(d)
        <4>1. row'[d] = [status |-> "created", owner |-> flight[d], artifact |-> None]
          BY <3>2 DEF AddRow, TypeInv
        <4> QED BY <2>2, <3>1, <4>1 DEF RowOf, Agrees, Successes
      <3>3. CASE Activate(d)
        <4>1. row'[d] = [row[d] EXCEPT !.status = "running"]
          BY <3>3 DEF Activate, Set, TypeInv
        <4>2. /\ row'[d].status = "running"
              /\ row'[d].artifact = row[d].artifact /\ row'[d].owner = row[d].owner
          BY <1>1, <4>1 DEF Rows
        <4> QED BY <1>1, <2>2, <3>1, <4>2 DEF RowOf, Agrees, Successes
      <3> QED BY <2>3, <3>2, <3>3
    <2>4. CASE up /\ Finish(d)
      <3>1. Agrees(d)'
        BY <2>4, FinishedAgrees
      <3>2. row'[d] = FinalRow(d) /\ UNCHANGED <<dir, reviewing, decided>>
        BY <2>4 DEF Finish, TypeInv
      <3> QED BY <2>2, <3>1, <3>2, FinalRowValue, FinalRowType DEF RowOf
    <2>5. CASE Restart
      <3>1. /\ row'[d] = Recovered(row[d]) /\ UNCHANGED <<dir, reviewing, decided>>
        BY <2>5 DEF Restart
      <3>2. row'[d].status = "failed_runtime"
        BY <1>1, <1>3, <3>1, RecoveredType
      <3> QED BY <1>1, <2>2, <3>1, <3>2, RecoveredType DEF RowOf, Agrees, Successes
    <2> QED
      <3>1. ASSUME NEW c \in Calls, up, Serve(c) PROVE AddRow(d) \/ Activate(d) \/ Finish(d)
        <4>1. c = d
          BY <1>3, <3>1, ServeElsewhere DEF Same
        <4> QED BY <1>3, <3>1, <4>1
          DEF Serve, Enter, Start, StartRaises, Work, CancelWork, CancelWait, WaitStep, Wait,
              Answered, Final, FinishRaises, Publish, Unwind, Review, BeginReview,
              CommitDecision, rowVars
      <3>2. Restart \/ (up /\ (AddRow(d) \/ Activate(d) \/ Finish(d)))
        BY <1>3, <3>1 DEF Next, Crash, DirectoryRemoved, vars, rowVars
      <3> QED BY <2>3, <2>4, <2>5, <3>2
  <1> QED BY <1>2, <1>3

-------------------------------------------------------------------------------
(* The invariant and the theorems *)

\* A service that has just been installed satisfies the invariant.
LEMMA InitIInv == Init => IInv
  <1> SUFFICES ASSUME Init PROVE IInv
    OBVIOUS
  <1>1. SFP!IInv
    BY SameCoordinator, FlightInit DEF Init
  <1>2. TypeInv
    BY TypeInit
  <1>3. ThreadInv
    BY DEF Init, SF!Init, ThreadInv, ThreadOf, At, Absent
  <1>4. ResultInv
    BY CallsAssumption DEF Init, SF!Init, ResultInv, ResultOf, At, Follows
  <1>5. RowInv
    BY DEF Init, RowInv, RowOf, Agrees, Absent
  <1> QED BY <1>1, <1>2, <1>3, <1>4, <1>5 DEF IInv

\* Every step preserves it: the lemmas above put together.
LEMMA StepIInv == IInv /\ [Next]_vars => IInv'
  <1> SUFFICES ASSUME IInv, [Next]_vars PROVE IInv'
    OBVIOUS
  <1>1. SFP!IInv'
    BY FlightStep DEF IInv
  <1>2. TypeInv'
    BY <1>1, TypeStep DEF IInv
  <1>3. ThreadInv'
    BY <1>1, ThreadStep DEF IInv
  <1>4. ResultInv'
    BY ResultStep DEF IInv
  <1>5. RowInv'
    BY <1>2, RowStep DEF IInv
  <1> QED BY <1>1, <1>2, <1>3, <1>4, <1>5 DEF IInv

\* Hence it holds in every reachable state, however many crashes, restarts and
\* failed commits the behaviour contains.
THEOREM Invariance == Spec => []IInv
  BY InitIInv, StepIInv, PTL DEF Spec

\* Rows, threads, decisions and the coordinator are type correct: in particular
\* every finished row has a status of the table, whatever the work returned.
THEOREM TypeCorrect == Spec => []TypeOK
  <1>1. IInv => TypeOK
    BY FlightTyped, SameCoordinator DEF IInv, TypeInv, TypeOK, Rows, Statuses, Bodies
  <1> QED BY Invariance, <1>1, PTL

\* No cancellation, failed commit, late owner or recovery rewrites a row that
\* reached its final state.
THEOREM FinalRowsStand == Spec => FinishedRowsAreFinal
  <1> DEFINE A == \A c \in Calls : row[c].status \in Terminal => row'[c] = row[c]
  <1>1. IInv /\ [Next]_vars => [A]_vars
    BY RowsKept DEF IInv
  <1> QED BY <1>1, Invariance, PTL DEF Spec, FinishedRowsAreFinal

\* A follower's row never claims more than its owner's durable row, also across
\* a crash between the two.
THEOREM FollowersAgree == Spec => []FollowersAgreeWithOwners
  <1>1. IInv => FollowersAgreeWithOwners
    BY DEF IInv, RowInv, RowOf, Agrees, Successes, FollowersAgreeWithOwners
  <1> QED BY Invariance, <1>1, PTL

\* A served row that says running has a thread behind it or a final commit that
\* raised, and every executing or waiting thread has such a row.
THEOREM RunningRowsAreReal == Spec => []RunningRowsHaveThreads
  <1>1. IInv => RunningRowsHaveThreads
    BY DEF IInv, TypeInv, Bodies, ThreadInv, ThreadOf, At, RunningRowsHaveThreads, Terminal, Results
  <1> QED BY Invariance, <1>1, PTL

\* A review decision is only ever attached to a completed run whose artifacts
\* were written by a run on record as completed.
THEOREM DecisionsAreGrounded == Spec => []DecisionsStand
  <1>1. IInv => DecisionsStand
    <2> SUFFICES ASSUME IInv, NEW c \in decided
                 PROVE  /\ row[c].status = "completed"
                        /\ row[c].artifact # None
                        /\ row[row[c].artifact].status = "completed"
      BY DEF DecisionsStand
    <2>1. c \in Calls /\ RowOf(c)
      BY DEF IInv, TypeInv, RowInv
    <2> QED BY <2>1 DEF RowOf, Agrees, Successes
  <1> QED BY Invariance, <1>1, PTL

-------------------------------------------------------------------------------
(* The tables, seen on their own *)

\* A run is carried on exactly while its thread stands in one of four places.
LEMMA OpenMoves ==
  ASSUME TypeInv, NEW c \in Calls, NEW label, Move(c, label)
  PROVE  Open' = IF label \in {"activate", "work", "wait", "finish"}
                 THEN Open \cup {c} ELSE Open \ {c}
  BY DEF TypeInv, Move, Open

\* An empty service has empty tables.
LEMMA RefinementInit == Init => Table!Init
  BY DEF Init, Table!Init, Absent, Open

\* Recovery is the one update of the running rows, after every thread has died.
LEMMA RecoverIsRecover ==
  ASSUME TypeInv, ThreadInv, Restart
  PROVE  Table!Recover
  <1> DEFINE New(r) == IF r.status = "running" THEN [r EXCEPT !.status = "failed_runtime"] ELSE r
  <1>1. Open = {}
    BY DEF Restart, ThreadInv, ThreadOf, Open
  <1>2. Open' = Open
    BY DEF Restart, Open
  <1>3. ASSUME NEW r \in Rows PROVE Recovered(r) = New(r)
    BY RecoveredType DEF Recovered
  <1>4. \A c \in Calls : Recovered(row[c]) = New(row[c])
    BY <1>3 DEF TypeInv
  <1>5. row' = [c \in Calls |-> New(row[c])]
    BY <1>4 DEF Restart
  <1>6. decided' = decided
    BY DEF Restart
  <1> QED BY <1>1, <1>2, <1>5, <1>6 DEF Table!Recover

\* What _finish_run() commits is grounded: a success refers to the directory of
\* its owner, and a follower's is already on record for its owner.
LEMMA FinishIsGrounded ==
  ASSUME SFP!IInv, TypeInv, ThreadInv, ResultInv, RowInv, NEW c \in Calls, Finish(c)
  PROVE  Table!Grounded(c, FinalRow(c).status, FinalRow(c).artifact)
  <1> DEFINE o == row[c].owner
  <1>1. o \in Calls \cup {None} /\ None \notin Calls
    BY CallsAssumption DEF TypeInv, Rows
  <1>2. FinalRow(c).artifact \in {None, o}
    BY FinalRowValue
  <1>3. ASSUME FinalRow(c).status \in Successes
        PROVE  /\ FinalRow(c).artifact # None
               /\ o # c => row[o].status = FinalRow(c).status /\ row[o].artifact = FinalRow(c).artifact
    <2>1. result[c] = FinalRow(c).status
      BY <1>3, FinalRowValue
    <2>2. At(c, "finish") /\ flight[c] = o
      BY DEF Finish, ThreadInv, ThreadOf, At
    <2>3. CASE o = c
      <3>1. dir[c] # "none"
        BY <1>3, <2>1, <2>2, <2>3 DEF ResultInv, ResultOf
      <3>2. dir[c] \in {"none", "present", "gone"}
        BY DEF TypeInv
      <3>3. dir[c] # "gone"
        BY <1>1, <1>3, <2>1, <2>3, FinalRowValue DEF Successes
      <3> QED BY <1>1, <1>3, <2>1, <2>3, <3>1, <3>2, <3>3, FinalRowValue
    <2>4. CASE o \notin {None, c}
      BY <1>1, <1>3, <2>4, FollowedSuccess
    <2>5. o # None
      <3>1. result[c] # "failed_security"
        BY <1>3, <2>1 DEF Successes
      <3> QED BY <2>2, <3>1 DEF ResultInv, ResultOf
    <2> QED BY <2>3, <2>4, <2>5
  <1> QED BY <1>2, <1>3 DEF Table!Grounded, Table!Successes, Successes

\* Every step of the service is one update of the tables, or none.
LEMMA RefinementStep == IInv /\ [Next]_vars => [Table!Next]_(Table!vars)
  <1> SUFFICES ASSUME IInv, [Next]_vars PROVE [Table!Next]_(Table!vars)
    OBVIOUS
  <1>0. SFP!IInv /\ TypeInv /\ ThreadInv /\ ResultInv /\ RowInv
    BY DEF IInv
  <1>1. ASSUME NEW c \in Calls, up, Serve(c) PROVE [Table!Next]_(Table!vars)
    <2>0. ThreadOf(c) /\ row[c] \in Rows /\ row \in [Calls -> Rows]
      BY <1>0 DEF ThreadInv, TypeInv
    <2>1. CASE Enter(c)
      <3>1. UNCHANGED <<row, decided>>
        BY <2>1 DEF Enter, rowVars
      <3>2. CASE Unadmitted(c)
        BY <3>1, <3>2 DEF Unadmitted, Open, Table!vars
      <3>3. CASE Admitted(c)
        <4>1. Open' = Open \ {c}
          BY <1>0, <3>3, OpenMoves DEF Admitted
        <4> QED BY <3>1, <4>1 DEF Table!Abandon, Table!Next
      <3> QED BY <2>1, <3>2, <3>3 DEF Enter
    <2>2. CASE AddRow(c)
      <3>1. Open' = Open \cup {c}
        BY <1>0, <2>2, OpenMoves DEF AddRow
      <3>2. row[c].status = "absent"
        BY <2>0, <2>2 DEF AddRow, ThreadOf
      <3>3. flight[c] \in Calls \cup {None} /\ decided' = decided
        BY <1>0, <2>2, FlightFacts DEF AddRow
      <3>4. row' = [row EXCEPT ![c] = [status |-> "created", owner |-> flight[c], artifact |-> None]]
        BY <2>2 DEF AddRow
      <3>5. Table!Add(c)
        BY <3>1, <3>2, <3>3, <3>4 DEF Table!Add
      <3> QED BY <3>5 DEF Table!Next
    <2>3. CASE Activate(c)
      <3>1. c \in Open /\ row[c].status = "created"
        BY <2>0, <2>3 DEF Activate, ThreadOf, At, Open
      <3>2. PICK label \in {"finish", "work", "wait"} : Move(c, label)
        BY <2>3 DEF Activate
      <3>3. Open' = Open
        BY <1>0, <3>1, <3>2, OpenMoves
      <3>4. row' = [row EXCEPT ![c].status = "running"] /\ decided' = decided
        BY <2>3 DEF Activate, Set
      <3>5. Table!Activate(c)
        BY <3>1, <3>3, <3>4 DEF Table!Activate
      <3> QED BY <3>5 DEF Table!Next
    <2>4. CASE StartRaises(c)
      <3>1. Open' = Open \ {c}
        BY <1>0, <2>4, OpenMoves DEF StartRaises
      <3>2. UNCHANGED <<row, decided>>
        BY <2>4 DEF StartRaises, rowVars
      <3> QED BY <3>1, <3>2 DEF Table!Abandon, Table!Next
    <2>5. CASE Work(c) \/ CancelWork(c) \/ CancelWait(c) \/ Answered(c)
      <3>1. c \in Open
        BY <2>5 DEF Work, CancelWork, CancelWait, Answered, At, Open
      <3>2. Move(c, "finish") /\ UNCHANGED <<row, decided>>
        BY <2>5 DEF Work, CancelWork, CancelWait, Answered, rowVars
      <3>3. Open' = Open
        BY <1>0, <3>1, <3>2, OpenMoves
      <3> QED BY <3>2, <3>3 DEF Table!vars
    <2>6. CASE Wait(c) \/ Unwind(c)
      BY <2>6 DEF Wait, Unwind, rowVars, Open, Table!vars
    <2>7. CASE Finish(c)
      <3>1. c \in Open /\ row[c].status = "running"
        BY <2>0, <2>7 DEF Finish, ThreadOf, At, Open
      <3>2. PICK label \in {"closed", "publish"} : Move(c, label)
        BY <2>7 DEF Finish
      <3>3. Open' = Open \ {c}
        BY <1>0, <3>2, OpenMoves
      <3>4. Table!Grounded(c, FinalRow(c).status, FinalRow(c).artifact)
        BY <1>0, <2>7, FinishIsGrounded
      <3>5. /\ FinalRow(c).status \in Table!Finals
            /\ FinalRow(c).artifact \in Calls \cup {None}
        BY <1>0, FinalRowType DEF Rows, Terminal, Results, Table!Finals, Table!Successes
      <3>6. FinalRow(c) = [status |-> FinalRow(c).status, owner |-> row[c].owner,
                           artifact |-> FinalRow(c).artifact]
        BY <1>0, FinalRowType DEF Rows
      <3>7. row' = [row EXCEPT ![c] = [status |-> FinalRow(c).status, owner |-> row[c].owner,
                                       artifact |-> FinalRow(c).artifact]]
        BY <2>7, <3>6 DEF Finish
      <3>8. decided' = decided
        BY <2>7 DEF Finish
      <3>9. Table!Finish(c)
        BY <3>1, <3>3, <3>4, <3>5, <3>7, <3>8 DEF Table!Finish
      <3> QED BY <3>9 DEF Table!Next
    <2>8. CASE FinishRaises(c)
      <3>1. Open' = Open \ {c}
        BY <1>0, <2>8, OpenMoves DEF FinishRaises
      <3>2. UNCHANGED <<row, decided>>
        BY <2>8 DEF FinishRaises, rowVars
      <3> QED BY <3>1, <3>2 DEF Table!Abandon, Table!Next
    <2>9. CASE Publish(c)
      <3>1. Open' = Open \ {c}
        BY <1>0, <2>9, OpenMoves DEF Publish
      <3>2. UNCHANGED <<row, decided>>
        BY <2>9 DEF Publish, rowVars
      <3> QED BY <3>1, <3>2 DEF Table!Abandon, Table!Next
    <2>10. CASE BeginReview(c)
      BY <2>10 DEF BeginReview, rowVars, Open, Table!vars
    <2>11. CASE CommitDecision(c)
      <3>1. UNCHANGED <<row, body>>
        BY <2>11 DEF CommitDecision
      <3>2. Open' = Open
        BY <3>1 DEF Open
      <3>3. CASE decided' = decided
        BY <3>1, <3>2, <3>3 DEF Table!vars
      <3>4. CASE decided' = decided \cup {c}
        <4>1. RowOf(c) /\ c \in reviewing
          BY <1>0, <2>11 DEF CommitDecision, RowInv
        <4>2. /\ row[c].status = "completed" /\ row[c].artifact # None
              /\ row[row[c].artifact].status = "completed"
          BY <4>1 DEF RowOf, Agrees, Successes
        <4>3. Table!Decide(c)
          BY <3>1, <3>2, <3>4, <4>2 DEF Table!Decide
        <4> QED BY <4>3 DEF Table!Next
      <3> QED BY <2>11, <3>3, <3>4 DEF CommitDecision
    <2> QED BY <1>1, <2>1, <2>2, <2>3, <2>4, <2>5, <2>6, <2>7, <2>8, <2>9, <2>10, <2>11
            DEF Serve, Start, WaitStep, Final, Review
  <1>2. CASE Crash
    <2>1. \A c \in Calls : body'[c] \in {"idle", "closed"}
      BY <1>2 DEF Crash
    <2>2. Open' = {}
      BY <2>1 DEF Open
    <2>3. UNCHANGED <<row, decided>>
      BY <1>2 DEF Crash, rowVars
    <2> QED BY <2>2, <2>3 DEF Table!Die, Table!Next
  <1>3. CASE Restart
    BY <1>0, <1>3, RecoverIsRecover DEF Table!Next
  <1>4. ASSUME NEW c \in Calls, DirectoryRemoved(c) PROVE [Table!Next]_(Table!vars)
    BY <1>4 DEF DirectoryRemoved, Open, Table!vars
  <1>5. CASE UNCHANGED vars
    BY <1>5 DEF vars, rowVars, Open, Table!vars
  <1> QED BY <1>1, <1>2, <1>3, <1>4, <1>5 DEF Next

\* Every behaviour of the service, with its failed commits, crashes and
\* recoveries, is one of the tables'.
THEOREM TablesRefined == Spec => ImplementsRunTable
  BY RefinementInit, RefinementStep, Invariance, PTL
  DEF Spec, ImplementsRunTable, Table!Spec
===============================================================================
