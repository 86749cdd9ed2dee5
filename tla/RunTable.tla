------------------------------- MODULE RunTable -------------------------------
(***************************************************************************)
(* What the workflow_runs and review_decisions tables promise, without     *)
(* locks, permits, events or run directories: which single update a row    *)
(* may take next, on what the other rows must say for it, and that only a  *)
(* run nobody works on any more is resolved by recovery.                   *)
(***************************************************************************)
CONSTANTS
  Calls,    \* the runs
  None

VARIABLES
  row,      \* the status, owner and run directory on record for each run
  open,     \* the runs a thread still carries on
  decided   \* the runs with a review decision

vars == <<row, open, decided>>

Successes == {"completed", "rejected"}
Finals == Successes \cup {"failed_runtime", "failed_security", "cancelled"}

Init ==
  /\ row = [c \in Calls |-> [status |-> "absent", owner |-> None, artifact |-> None]]
  /\ open = {}
  /\ decided = {}

\* The run is recorded with the run that executes it: itself, the one it
\* follows, or None when it was refused its repository.
Add(c) ==
  /\ row[c].status = "absent"
  /\ \E o \in Calls \cup {None} :
       row' = [row EXCEPT ![c] = [status |-> "created", owner |-> o, artifact |-> None]]
  /\ open' = open \cup {c}
  /\ UNCHANGED decided

Activate(c) ==
  /\ c \in open /\ row[c].status = "created"
  /\ row' = [row EXCEPT ![c].status = "running"]
  /\ UNCHANGED <<open, decided>>

\* A success refers to the run directory of its owner, and a follower may only
\* record the one its owner already has on record.
Grounded(c, status, artifact) ==
  LET o == row[c].owner IN
  /\ artifact \in {None, o}
  /\ status \in Successes =>
       /\ artifact # None
       /\ o # c => row[o].status = status /\ row[o].artifact = artifact

Finish(c) ==
  /\ c \in open /\ row[c].status = "running"
  /\ \E s \in Finals, a \in Calls \cup {None} :
       /\ Grounded(c, s, a)
       /\ row' = [row EXCEPT ![c] = [status |-> s, owner |-> row[c].owner, artifact |-> a]]
  /\ open' = open \ {c}
  /\ UNCHANGED decided

\* A commit raised: the row stays as it is, and nobody will finish it.
Abandon(c) ==
  /\ open' = open \ {c}
  /\ UNCHANGED <<row, decided>>

\* The process dies with all its threads.
Die ==
  /\ open' = {}
  /\ UNCHANGED <<row, decided>>

\* One update resolves every row left running, when no run is being worked on.
Recover ==
  /\ open = {}
  /\ row' = [c \in Calls |-> IF row[c].status = "running"
                             THEN [row[c] EXCEPT !.status = "failed_runtime"]
                             ELSE row[c]]
  /\ UNCHANGED <<open, decided>>

\* A decision rests on a completed run whose directory a completed run wrote.
Decide(c) ==
  /\ row[c].status = "completed"
  /\ row[c].artifact # None
  /\ row[row[c].artifact].status = "completed"
  /\ decided' = decided \cup {c}
  /\ UNCHANGED <<row, open>>

Next ==
  \/ \E c \in Calls : Add(c) \/ Activate(c) \/ Finish(c) \/ Abandon(c) \/ Decide(c)
  \/ Die \/ Recover

Spec == Init /\ [][Next]_vars
===============================================================================
