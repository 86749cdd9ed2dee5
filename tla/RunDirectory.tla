----------------------------- MODULE RunDirectory -----------------------------
(***************************************************************************)
(* The directory of one run id on disk, and the processes that compute     *)
(* that id: the same repository and requirement always name the same       *)
(* directory.  runner_multi.py and artifacts/store.py look whether it      *)
(* exists, make it, write the artifacts one by one and, in the             *)
(* multi-agent runner, finish with artifact-integrity.json and _COMPLETE.  *)
(* Nothing but the file system keeps two processes apart, such as two      *)
(* invocations of the CLI, nor two calls of one process whose single-      *)
(* flight keys differ (in the model or a limit) and whose ids do not.  The *)
(* API gives every run an output directory of its own.                     *)
(*                                                                         *)
(* Abstracted: what an artifact says (only who wrote it), and the          *)
(* temporary file an interrupted _safe_write leaves behind.  Bounds:       *)
(* MaxCrashes, and Overlap processes at a time.                            *)
(***************************************************************************)
EXTENDS Naturals, Sequences, FiniteSets, Functions

CONSTANTS Proc, Modes, Overlap, MaxCrashes, Torn

ASSUME DirectoryAssumption ==
  /\ Modes \subseteq {"legacy", "multi"}
  /\ Overlap \in [Modes -> Nat]
  /\ MaxCrashes \in Nat
  /\ Torn \notin Proc

VARIABLES
  mode,       \* which runner the processes are
  dir,        \* the run directory exists
  files,      \* artifact name -> the process whose content it is, or Torn
  integrity,  \* what artifact-integrity.json records: files once, or <<>>
  complete,   \* _COMPLETE exists
  pc, todo,   \* per process: its step, the artifacts it has yet to write
  outcome,    \* per process: how its work went
  exit,       \* per process: exit code (4 counts as 0), or 9 before it ends
  given,      \* per process: its result names the directory
  crashes

disk == <<dir, files, integrity, complete>>
vars == <<mode, disk, pc, todo, outcome, exit, given, crashes>>

\* The artifacts in the order they are written.
Legacy == <<"manifest", "sources", "analysis", "generation", "review", "tool-calls",
            "trace", "technical-spec", "test-plan", "run-summary">>
Multi == <<"checkpoints", "manifest", "agent-outputs", "handoffs", "traces", "sources",
           "metrics">>
FailedRun == <<"manifest", "traces", "agent-outputs">>
NoEvidence == <<"manifest">>

Artifacts(how) ==
  IF mode = "legacy" THEN Legacy
  ELSE IF how = "success" THEN Multi
  ELSE IF how = "failed" THEN FailedRun ELSE NoEvidence

Alive(p) == pc[p] \notin {"idle", "done", "crashed"}

Go(p, step) == pc' = [pc EXCEPT ![p] = step]

\* The file n now has content v.
Put(n, v) == files' = [k \in DOMAIN files \cup {n} |-> IF k = n THEN v ELSE files[k]]

End(p, code, named) ==
  /\ Go(p, "done")
  /\ exit' = [exit EXCEPT ![p] = code]
  /\ given' = [given EXCEPT ![p] = named]
-------------------------------------------------------------------------------
Init ==
  /\ mode \in Modes
  /\ dir = FALSE /\ files = <<>> /\ integrity = <<>> /\ complete = FALSE
  /\ pc = [p \in Proc |-> "idle"]
  /\ todo = [p \in Proc |-> <<>>]
  /\ outcome = [p \in Proc |-> "none"]
  /\ exit = [p \in Proc |-> 9]
  /\ given = [p \in Proc |-> FALSE]
  /\ crashes = 0

\* Mutant of Begin: the runner does not look before it works.
MutBegin(p) ==
  /\ pc[p] = "idle" /\ Cardinality({q \in Proc : Alive(q)}) < Overlap[mode]
  /\ Go(p, "work")
  /\ UNCHANGED <<mode, disk, todo, outcome, exit, given, crashes>>

\* The multi-agent runner looks for the directory before it does any work.
Begin(p) ==
  /\ pc[p] = "idle" /\ Cardinality({q \in Proc : Alive(q)}) < Overlap[mode]
  /\ IF mode = "multi" /\ dir THEN End(p, 3, FALSE)
     ELSE Go(p, "work") /\ UNCHANGED <<exit, given>>
  /\ UNCHANGED <<mode, disk, todo, outcome, crashes>>

\* The work ends.  A multi-agent run that finds no evidence or fails keeps a
\* directory too; every other failure leaves none.
WorkEnds(p) ==
  /\ pc[p] = "work"
  /\ \/ \E how \in IF mode = "legacy" THEN {"success"} ELSE {"success", "failed", "noevidence"} :
          /\ outcome' = [outcome EXCEPT ![p] = how]
          /\ todo' = [todo EXCEPT ![p] = Artifacts(how)]
          /\ Go(p, IF how = "success" THEN "look" ELSE "make")
          /\ UNCHANGED <<exit, given>>
     \/ \E code \in {2, 3} : End(p, code, FALSE) /\ UNCHANGED <<outcome, todo>>
  /\ UNCHANGED <<mode, disk, crashes>>

\* A successful run looks again, and gives up if the directory is there.
Look(p) ==
  /\ pc[p] = "look"
  /\ IF dir THEN End(p, 3, FALSE) ELSE Go(p, "make") /\ UNCHANGED <<exit, given>>
  /\ UNCHANGED <<mode, disk, todo, outcome, crashes>>

\* Mutant of MakeDir: store.py makes the directory inside the try, so finding
\* it there runs the cleanup.
MutMakeDir(p) ==
  /\ pc[p] = "make"
  /\ IF dir /\ outcome[p] # "failed"
     THEN IF mode = "legacy" THEN Go(p, "remove") /\ UNCHANGED <<dir, exit, given>>
          ELSE End(p, 3, FALSE) /\ UNCHANGED dir
     ELSE /\ dir' = TRUE /\ Go(p, "write") /\ UNCHANGED <<exit, given>>
  /\ UNCHANGED <<mode, files, integrity, complete, todo, outcome, crashes>>

\* Mutant of MakeDir: a failed run does not make its directory.
MutForgetsMkdir(p) ==
  /\ pc[p] = "make"
  /\ \/ /\ ~ dir \/ outcome[p] = "failed"
        /\ dir' = (dir \/ outcome[p] # "failed")
        /\ Go(p, "write") /\ UNCHANGED <<exit, given>>
     \/ End(p, 3, FALSE) /\ UNCHANGED dir
  /\ UNCHANGED <<mode, files, integrity, complete, todo, outcome, crashes>>

\* Mutant of MakeDir: every mkdir accepts a directory that is there.
MutSharesDir(p) ==
  /\ pc[p] = "make"
  /\ \/ dir' = TRUE /\ Go(p, "write") /\ UNCHANGED <<exit, given>>
     \/ End(p, 3, FALSE) /\ UNCHANGED dir
  /\ UNCHANGED <<mode, files, integrity, complete, todo, outcome, crashes>>

\* mkdir: only _persist_failed_run accepts a directory that is there; the
\* file system may refuse it too.
MakeDir(p) ==
  /\ pc[p] = "make"
  /\ \/ /\ ~ dir \/ outcome[p] = "failed"
        /\ dir' = TRUE /\ Go(p, "write") /\ UNCHANGED <<exit, given>>
     \/ End(p, 3, FALSE) /\ UNCHANGED dir
  /\ UNCHANGED <<mode, files, integrity, complete, todo, outcome, crashes>>

\* _safe_write replaces the file in one step; write_text truncates it first,
\* after making the directory again should it be gone.
Write(p) ==
  /\ pc[p] = "write" /\ todo[p] # <<>>
  /\ LET n == Head(todo[p])
     IN  IF mode = "legacy" /\ n \notin DOMAIN files
         THEN Put(n, Torn) /\ UNCHANGED todo
         ELSE /\ Put(n, p)
              /\ todo' = [todo EXCEPT ![p] = Tail(@)]
  /\ dir' = (dir \/ mode = "legacy")
  /\ UNCHANGED <<mode, integrity, complete, pc, outcome, exit, given, crashes>>

\* A write is refused, for its size or by the file system, or a renderer
\* raises.  The multi-agent runner leaves what it has written; the store
\* removes the tree.
WriteFails(p) ==
  /\ pc[p] \in {"write", "integrity", "marker"} /\ (pc[p] = "write" => todo[p] # <<>>)
  /\ IF mode = "legacy" THEN Go(p, "remove") /\ UNCHANGED <<exit, given>>
     ELSE End(p, 3, FALSE)
  /\ UNCHANGED <<mode, disk, todo, outcome, crashes>>

Unlink(p) ==
  /\ pc[p] = "remove"
  /\ \E n \in DOMAIN files : files' = [k \in DOMAIN files \ {n} |-> files[k]]
  /\ UNCHANGED <<mode, dir, integrity, complete, pc, todo, outcome, exit, given, crashes>>

\* rmdir, or the file system refuses to remove the rest; exit 3 either way.
Removed(p) ==
  /\ pc[p] = "remove"
  /\ \/ DOMAIN files = {} /\ dir' = FALSE
     \/ UNCHANGED dir
  /\ End(p, 3, FALSE)
  /\ UNCHANGED <<mode, files, integrity, complete, todo, outcome, crashes>>

Written(p) ==
  /\ pc[p] = "write" /\ todo[p] = <<>>
  /\ Go(p, IF mode = "legacy" THEN "report" ELSE "integrity")
  /\ UNCHANGED <<mode, disk, todo, outcome, exit, given, crashes>>

\* _finalize_run_directory: hash every artifact there is, then mark.
WriteIntegrity(p) ==
  /\ pc[p] = "integrity"
  /\ integrity' = files
  /\ Go(p, "marker")
  /\ UNCHANGED <<mode, dir, files, complete, todo, outcome, exit, given, crashes>>

WriteMarker(p) ==
  /\ pc[p] = "marker"
  /\ complete' = TRUE
  /\ Go(p, "report")
  /\ UNCHANGED <<mode, dir, files, integrity, todo, outcome, exit, given, crashes>>

\* completed_artifact_directory: nothing is named that lacks its manifest or,
\* after a multi-agent run, its marker.
Report(p) ==
  /\ pc[p] = "report"
  /\ LET found == dir /\ "manifest" \in DOMAIN files /\ (mode = "multi" => complete)
     IN  End(p, IF found /\ outcome[p] = "success" THEN 0 ELSE 3, found)
  /\ UNCHANGED <<mode, disk, todo, outcome, crashes>>

Crash(p) ==
  /\ Alive(p) /\ crashes < MaxCrashes
  /\ crashes' = crashes + 1
  /\ Go(p, "crashed")
  /\ UNCHANGED <<mode, disk, todo, outcome, exit, given>>

Step(p) ==
  \/ Begin(p) \/ WorkEnds(p) \/ Look(p) \/ MakeDir(p) \/ Write(p) \/ WriteFails(p)
  \/ Unlink(p) \/ Removed(p) \/ Written(p) \/ WriteIntegrity(p) \/ WriteMarker(p)
  \/ Report(p) \/ Crash(p)

Next == \E p \in Proc : Step(p)

Spec == Init /\ [][Next]_vars
-------------------------------------------------------------------------------
Names == Range(Legacy) \cup Range(Multi)

IsListing(f) == DOMAIN f \subseteq Names /\ \A n \in DOMAIN f : f[n] \in Proc \cup {Torn}

(* The types, and that nothing is inside a directory that is not there:     *)
(* every write follows a mkdir, and only an emptied directory is removed.   *)
TypeOK ==
  /\ mode \in Modes /\ dir \in BOOLEAN /\ complete \in BOOLEAN
  /\ IsListing(files) /\ IsListing(integrity)
  /\ ~ dir => files = <<>> /\ ~ complete
  /\ crashes \in 0..MaxCrashes
  /\ \A p \in Proc :
       /\ pc[p] \in {"idle", "work", "look", "make", "write", "integrity", "marker",
                     "remove", "report", "done", "crashed"}
       /\ exit[p] \in {0, 2, 3, 9} /\ given[p] \in BOOLEAN
       /\ outcome[p] \in {"none", "success", "failed", "noevidence"}

(* _COMPLETE says what a reader takes it to say: the recorded hashes are    *)
(* those of exactly the files in the directory, none of them half written.  *)
(* (_finalize_run_directory; with one process at a time.)                   *)
CompleteMeansIntact ==
  complete => /\ integrity = files /\ "manifest" \in DOMAIN files
              /\ \A n \in DOMAIN files : files[n] # Torn

(* A result that names the directory stays true: whatever later or          *)
(* overlapping processes do, crash or clean up, the directory keeps every   *)
(* artifact of the run that reported it, whole and its own; exit 0 always   *)
(* names one.  (The two looks before mkdir, mkdir outside store.py's try.)  *)
SuccessStands ==
  \A p \in Proc :
    /\ exit[p] = 0 => given[p]
    /\ given[p] => /\ dir
                   /\ \A i \in 1..Len(Artifacts(outcome[p])) :
                        LET n == Artifacts(outcome[p])[i]
                        IN  n \in DOMAIN files /\ files[n] = p

\* The steps of a process that has made the directory and is not done with it.
Inside == {"write", "integrity", "marker", "remove", "report"}

Claimed == INSTANCE ClaimedDirectory WITH
  taken <- dir,
  writers <- {p \in Proc : pc[p] \in Inside},
  published <- {p \in Proc : given[p]},
  content <- <<files, integrity, complete>>

(* The two looks, mkdir and the order of the clean-up amount to exclusive   *)
(* ownership: only the process that made the directory changes what is in   *)
(* it or removes it, one result ever names it, and what a finished, failed  *)
(* or crashed run left there is never touched again.  (With one multi-agent *)
(* process at a time; store.py needs no such thing.)                        *)
ImplementsClaimedDirectory == Claimed!Spec
===============================================================================
