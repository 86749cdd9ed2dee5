-------------------------- MODULE RunDirectoryProofs --------------------------
(***************************************************************************)
(* Theorems about RunDirectory for any set of processes and any bounds.    *)
(* The inductive invariant has six parts:                                  *)
(*   TypeInv    the variables have their types;                            *)
(*   DirInv     nothing is inside a directory that is not there;           *)
(*   HoldInv    one process at most holds the directory;                   *)
(*   TodoInv    what is left to write is the end of the artifact list;     *)
(*   KeptInv    what has been written is there, whole and its own;         *)
(*   RecordInv  the recorded hashes are those of the files.                *)
(* The first two hold whatever overlaps.  The others need what the file    *)
(* system does not give: that multi-agent runs of one id do not overlap    *)
(* (OneAtATime); processes of the legacy store may, any number of them.    *)
(***************************************************************************)
EXTENDS RunDirectory, FiniteSetTheorems, TLAPS

\* Every list of artifacts is a sequence of their names.
LEMMA ArtifactsType ==
  \A how : Artifacts(how) \in Seq(Names)
  <1>1. Legacy \in Seq(Range(Legacy))
    <2>1. DOMAIN Legacy = 1..10 /\ Legacy = [i \in 1..10 |-> Legacy[i]]
      BY DEF Legacy
    <2> QED BY <2>1 DEF Range
  <1>2. Multi \in Seq(Range(Multi))
    <2>1. DOMAIN Multi = 1..7 /\ Multi = [i \in 1..7 |-> Multi[i]]
      BY DEF Multi
    <2> QED BY <2>1 DEF Range
  <1>3. FailedRun \in Seq(Range(Multi))
    <2>1. FailedRun \in Seq({"manifest", "traces", "agent-outputs"})
      BY DEF FailedRun
    <2>2. {"manifest", "traces", "agent-outputs"} \subseteq Range(Multi)
      BY DEF Multi, Range
    <2> QED BY <2>1, <2>2
  <1>4. NoEvidence \in Seq(Range(Multi))
    <2>1. NoEvidence \in Seq({"manifest"}) /\ "manifest" \in Range(Multi)
      BY DEF NoEvidence, Multi, Range
    <2> QED BY <2>1
  <1>5. \A l \in Seq(Range(Multi)) \cup Seq(Range(Legacy)) : l \in Seq(Names)
    BY DEF Names
  <1> QED BY <1>1, <1>2, <1>3, <1>4, <1>5 DEF Artifacts

\* A multi-agent run always writes a manifest.
LEMMA ManifestListed ==
  ASSUME mode = "multi"
  PROVE  \A how : \E i \in 1..Len(Artifacts(how)) : Artifacts(how)[i] = "manifest"
  <1>1. Multi[2] = "manifest" /\ Len(Multi) = 7
    BY DEF Multi
  <1>2. FailedRun[1] = "manifest" /\ Len(FailedRun) = 3
    BY DEF FailedRun
  <1>3. NoEvidence[1] = "manifest" /\ Len(NoEvidence) = 1
    BY DEF NoEvidence
  <1> QED BY <1>1, <1>2, <1>3 DEF Artifacts

-------------------------------------------------------------------------------
(* Types *)

Steps == {"idle", "work", "look", "make", "write", "integrity", "marker", "remove",
          "report", "done", "crashed"}

TypeInv ==
  /\ mode \in Modes /\ dir \in BOOLEAN /\ complete \in BOOLEAN
  /\ files \in [DOMAIN files -> Proc \cup {Torn}] /\ DOMAIN files \subseteq Names
  /\ integrity \in [DOMAIN integrity -> Proc \cup {Torn}] /\ DOMAIN integrity \subseteq Names
  /\ crashes \in 0..MaxCrashes
  /\ pc \in [Proc -> Steps]
  /\ todo \in [Proc -> Seq(Names)]
  /\ outcome \in [Proc -> {"none", "success", "failed", "noevidence"}]
  /\ exit \in [Proc -> {0, 2, 3, 9}]
  /\ given \in [Proc -> BOOLEAN]

\* Nothing is inside a directory that is not there; a multi-agent run never
\* removes one, and only such a run records its files and marks it complete.
DirInv ==
  /\ ~ dir => DOMAIN files = {} /\ ~ complete
  /\ mode = "multi" => \A p \in Proc : pc[p] \in Inside => dir /\ pc[p] # "remove"
  /\ mode = "legacy" => ~ complete /\ \A p \in Proc : pc[p] \notin {"integrity", "marker"}

\* Both hold initially.
LEMMA TypeInit == Init => TypeInv /\ DirInv
  <1> SUFFICES ASSUME Init PROVE TypeInv /\ DirInv
    OBVIOUS
  <1>1. files \in [DOMAIN files -> Proc \cup {Torn}] /\ DOMAIN files = {}
    BY DEF Init
  <1>2. integrity \in [DOMAIN integrity -> Proc \cup {Torn}] /\ DOMAIN integrity = {}
    BY DEF Init
  <1>3. todo \in [Proc -> Seq(Names)]
    BY DEF Init
  <1>4. TypeInv
    <2>1. /\ mode \in Modes /\ dir \in BOOLEAN /\ complete \in BOOLEAN
      BY DEF Init
    <2>0. crashes \in 0..MaxCrashes
      BY DirectoryAssumption DEF Init
    <2>2. /\ pc \in [Proc -> Steps]
          /\ outcome \in [Proc -> {"none", "success", "failed", "noevidence"}]
          /\ exit \in [Proc -> {0, 2, 3, 9}]
          /\ given \in [Proc -> BOOLEAN]
      BY DEF Init, Steps
    <2> QED BY <1>1, <1>2, <1>3, <2>0, <2>1, <2>2 DEF TypeInv
  <1>5. DirInv
    BY <1>1 DEF Init, DirInv, Inside
  <1> QED BY <1>4, <1>5

\* Every step keeps both.
LEMMA TypeStep == TypeInv /\ DirInv /\ [Next]_vars => TypeInv' /\ DirInv'
  <1> SUFFICES ASSUME TypeInv, DirInv, [Next]_vars PROVE TypeInv' /\ DirInv'
    OBVIOUS
  <1>0. mode \in {"legacy", "multi"}
    BY DirectoryAssumption DEF TypeInv
  <1> USE DEF TypeInv, DirInv, Steps, Inside, disk, Go, End
  <1>1. ASSUME NEW p \in Proc, Begin(p) PROVE TypeInv' /\ DirInv'
    <2>1. /\ pc' \in [Proc -> Steps] /\ exit' \in [Proc -> {0, 2, 3, 9}]
          /\ given' \in [Proc -> BOOLEAN]
          /\ \A q \in Proc : pc'[q] \in Inside => pc'[q] = pc[q]
      <3>1. CASE mode = "multi" /\ dir
        <4>1. End(p, 3, FALSE)
          BY <1>1, <3>1 DEF Begin
        <4> QED BY <4>1
      <3>2. CASE ~ (mode = "multi" /\ dir)
        <4>1. pc' = [pc EXCEPT ![p] = "work"] /\ UNCHANGED <<exit, given>>
          BY <1>1, <3>2 DEF Begin
        <4> QED BY <4>1
      <3> QED BY <3>1, <3>2
    <2>2. UNCHANGED <<mode, dir, files, integrity, complete, crashes, outcome, todo>>
      BY <1>1 DEF Begin
    <2> HIDE DEF Steps, Go, End
    <2>3. TypeInv'
      BY <2>1, <2>2
    <2>4. DirInv'
      BY <2>1, <2>2
    <2> QED BY <2>3, <2>4
  <1>2. ASSUME NEW p \in Proc, WorkEnds(p) PROVE TypeInv' /\ DirInv'
    <2>1. CASE \E how \in {"success", "failed", "noevidence"} :
                 /\ outcome' = [outcome EXCEPT ![p] = how]
                 /\ todo' = [todo EXCEPT ![p] = Artifacts(how)]
                 /\ Go(p, IF how = "success" THEN "look" ELSE "make")
                 /\ UNCHANGED <<exit, given>>
      BY <1>2, <2>1, ArtifactsType DEF WorkEnds
    <2>2. CASE \E code \in {2, 3} : End(p, code, FALSE) /\ UNCHANGED <<outcome, todo>>
      <3>1. PICK code \in {2, 3} : End(p, code, FALSE)
        BY <2>2
      <3>2. /\ pc' \in [Proc -> Steps] /\ exit' \in [Proc -> {0, 2, 3, 9}]
            /\ given' \in [Proc -> BOOLEAN]
            /\ \A q \in Proc : pc'[q] \in Inside => pc'[q] = pc[q]
        BY <3>1
      <3>3. UNCHANGED <<mode, dir, files, integrity, complete, crashes, outcome, todo>>
        BY <1>2, <2>2 DEF WorkEnds
      <3> HIDE DEF Steps, Go, End
      <3>4. TypeInv'
        BY <3>2, <3>3
      <3>5. DirInv'
        BY <3>2, <3>3
      <3> QED BY <3>4, <3>5
    <2> QED BY <1>2, <2>1, <2>2 DEF WorkEnds
  <1>3. ASSUME NEW p \in Proc, Look(p) PROVE TypeInv' /\ DirInv'
    <2>1. /\ pc' \in [Proc -> Steps] /\ exit' \in [Proc -> {0, 2, 3, 9}]
          /\ given' \in [Proc -> BOOLEAN]
          /\ \A q \in Proc : pc'[q] \in Inside => pc'[q] = pc[q]
      <3>1. CASE dir
        <4>1. End(p, 3, FALSE)
          BY <1>3, <3>1 DEF Look
        <4> QED BY <4>1
      <3>2. CASE ~ dir
        <4>1. pc' = [pc EXCEPT ![p] = "make"] /\ UNCHANGED <<exit, given>>
          BY <1>3, <3>2 DEF Look
        <4> QED BY <4>1
      <3> QED BY <3>1, <3>2
    <2>2. UNCHANGED <<mode, dir, files, integrity, complete, crashes, outcome, todo>>
      BY <1>3 DEF Look
    <2> HIDE DEF Steps, Go, End
    <2>3. TypeInv'
      BY <2>1, <2>2
    <2>4. DirInv'
      BY <2>1, <2>2
    <2> QED BY <2>3, <2>4
  <1>4. ASSUME NEW p \in Proc, MakeDir(p) PROVE TypeInv' /\ DirInv'
    <2>1. /\ pc' \in [Proc -> Steps] /\ exit' \in [Proc -> {0, 2, 3, 9}]
          /\ given' \in [Proc -> BOOLEAN] /\ dir' \in BOOLEAN
          /\ \A q \in Proc : pc'[q] \in Inside => pc'[q] = pc[q] \/ (pc'[q] = "write" /\ dir')
      <3>1. CASE End(p, 3, FALSE) /\ UNCHANGED dir
        BY <3>1
      <3>2. CASE dir' = TRUE /\ Go(p, "write") /\ UNCHANGED <<exit, given>>
        BY <3>2
      <3> QED BY <1>4, <3>1, <3>2 DEF MakeDir
    <2>2. UNCHANGED <<mode, files, integrity, complete, crashes, outcome, todo>>
      BY <1>4 DEF MakeDir
    <2>3. TypeInv'
      <3> HIDE DEF Steps, Inside, Go, End
      <3> QED BY <2>1, <2>2
    <2>4. DirInv'
      <3>1. dir => dir'
        BY <1>4 DEF MakeDir
      <3> HIDE DEF Steps, Go, End
      <3> QED BY <2>1, <2>2, <3>1
    <2> QED BY <2>3, <2>4
  <1>5. ASSUME NEW p \in Proc, Write(p) PROVE TypeInv' /\ DirInv'
    <2> DEFINE n == Head(todo[p])
    <2>1. n \in Names /\ Tail(todo[p]) \in Seq(Names)
      BY <1>5 DEF Write
    <2>2. PICK v \in Proc \cup {Torn} : Put(n, v)
      BY <1>5 DEF Write
    <2> HIDE DEF n
    <2>3. DOMAIN files' = DOMAIN files \cup {n}
      BY <2>2 DEF Put
    <2>4. files' \in [DOMAIN files' -> Proc \cup {Torn}] /\ DOMAIN files' \subseteq Names
      BY <2>1, <2>2, <2>3 DEF Put
    <2>5. todo' \in [Proc -> Seq(Names)]
      BY <1>5, <2>1 DEF Write
    <2>6. TypeInv'
      BY <1>5, <2>4, <2>5 DEF Write
    <2>7. dir'
      BY <1>0, <1>5 DEF Write
    <2>8. DirInv'
      BY <1>5, <2>7 DEF Write
    <2> QED BY <2>6, <2>8
  <1>6. ASSUME NEW p \in Proc, WriteFails(p) PROVE TypeInv' /\ DirInv'
    <2>1. UNCHANGED <<mode, dir, files, integrity, complete, crashes, outcome, todo>>
      BY <1>6 DEF WriteFails
    <2>2. CASE mode = "legacy"
      <3>1. pc' = [pc EXCEPT ![p] = "remove"] /\ UNCHANGED <<exit, given>>
        BY <1>6, <2>2 DEF WriteFails
      <3>2. pc' \in [Proc -> Steps] /\ \A q \in Proc : pc'[q] = pc[q] \/ pc'[q] = "remove"
        BY <3>1
      <3> HIDE DEF Steps, Go, End
      <3> QED BY <2>1, <2>2, <3>1, <3>2
    <2>3. CASE mode # "legacy"
      <3>1. End(p, 3, FALSE)
        BY <1>6, <2>3 DEF WriteFails
      <3>2. /\ pc' \in [Proc -> Steps] /\ exit' \in [Proc -> {0, 2, 3, 9}]
            /\ given' \in [Proc -> BOOLEAN]
            /\ \A q \in Proc : pc'[q] \in Inside => pc'[q] = pc[q]
        BY <3>1
      <3> HIDE DEF Steps, Go, End
      <3> QED BY <1>0, <2>1, <2>3, <3>2
    <2> QED BY <2>2, <2>3
  <1>7. ASSUME NEW p \in Proc, Unlink(p) PROVE TypeInv' /\ DirInv'
    BY <1>7 DEF Unlink
  <1>8. ASSUME NEW p \in Proc, Removed(p) PROVE TypeInv' /\ DirInv'
    BY <1>0, <1>8 DEF Removed
  <1>9. ASSUME NEW p \in Proc, Written(p) PROVE TypeInv' /\ DirInv'
    BY <1>0, <1>9 DEF Written
  <1>10. ASSUME NEW p \in Proc, WriteIntegrity(p) PROVE TypeInv' /\ DirInv'
    BY <1>10 DEF WriteIntegrity
  <1>11. ASSUME NEW p \in Proc, WriteMarker(p) PROVE TypeInv' /\ DirInv'
    BY <1>0, <1>11 DEF WriteMarker
  <1>12. ASSUME NEW p \in Proc, Report(p) PROVE TypeInv' /\ DirInv'
    BY <1>12 DEF Report
  <1>13. ASSUME NEW p \in Proc, Crash(p) PROVE TypeInv' /\ DirInv'
    BY <1>13, DirectoryAssumption DEF Crash
  <1>14. CASE UNCHANGED vars
    BY <1>14 DEF vars
  <1> QED BY <1>1, <1>2, <1>3, <1>4, <1>5, <1>6, <1>7, <1>8, <1>9, <1>10, <1>11, <1>12,
             <1>13, <1>14 DEF Next, Step
-------------------------------------------------------------------------------
(* Who holds the directory *)

\* The process is in the directory, or its result names it.
Holds(p) == pc[p] \in Inside \/ given[p]

\* Multi-agent runs of one id follow one another.
OneAtATime == "multi" \in Modes => Overlap["multi"] <= 1

\* One process at most holds the directory, and it is there.  A store's run
\* that gets so far is successful.  A multi-agent run before its mkdir has
\* found no directory, and no other is under way.
HoldInv ==
  /\ \A p \in Proc : Holds(p) => dir
  /\ \A p, q \in Proc : Holds(p) /\ Holds(q) => p = q
  /\ \A p \in Proc : /\ given[p] => pc[p] = "done"
                     /\ exit[p] = 0 => given[p]
  /\ mode = "legacy" =>
       \A p \in Proc : pc[p] \in {"look", "make"} \cup Inside => outcome[p] = "success"
  /\ mode = "multi" =>
       /\ \A p \in Proc : pc[p] \in {"work", "look", "make"} => ~ dir
       /\ \A p, q \in Proc : Alive(p) /\ Alive(q) => p = q

\* It holds initially.
LEMMA HoldInit == Init => HoldInv
  BY DEF Init, HoldInv, Holds, Inside, Alive

\* A multi-agent run that may start is alone.
LEMMA NoneAlive ==
  ASSUME OneAtATime, TypeInv, HoldInv, mode = "multi",
         Cardinality({q \in Proc : Alive(q)}) < Overlap[mode]
  PROVE  \A q \in Proc : ~ Alive(q)
  <1> SUFFICES ASSUME NEW q \in Proc, Alive(q) PROVE FALSE
    OBVIOUS
  <1>1. {r \in Proc : Alive(r)} = {q}
    BY DEF HoldInv
  <1>2. Cardinality({q}) = 1
    BY FS_Singleton
  <1>3. Overlap["multi"] \in Nat /\ Overlap["multi"] <= 1
    BY DirectoryAssumption DEF OneAtATime, TypeInv
  <1> QED BY <1>1, <1>2, <1>3

\* A process that gives up lets go of the directory.
LEMMA GivingUp ==
  ASSUME TypeInv, HoldInv, NEW p \in Proc, pc[p] # "done",
         \E code \in {2, 3} : End(p, code, FALSE),
         outcome' = outcome, dir' = dir, mode' = mode
  PROVE  HoldInv'
  <1>1. PICK code \in {2, 3} : End(p, code, FALSE)
    OBVIOUS
  <1>2. /\ pc' = [pc EXCEPT ![p] = "done"]
        /\ given' = [given EXCEPT ![p] = FALSE]
        /\ exit' = [exit EXCEPT ![p] = code]
    BY <1>1 DEF End, Go
  <1>3. pc \in [Proc -> Steps] /\ given \in [Proc -> BOOLEAN] /\ DOMAIN exit = Proc
    BY DEF TypeInv
  <1>4. /\ pc'[p] = "done" /\ ~ given'[p] /\ exit'[p] = code
        /\ \A q \in Proc : q # p =>
             pc'[q] = pc[q] /\ given'[q] = given[q] /\ exit'[q] = exit[q]
    BY <1>2, <1>3
  <1>5. ASSUME NEW q \in Proc, Holds(q)'
        PROVE  q # p /\ Holds(q)
    BY <1>4, <1>5 DEF Holds, Inside
  <1>6. ASSUME NEW q \in Proc, Alive(q)'
        PROVE  q # p /\ Alive(q) /\ pc'[q] = pc[q]
    BY <1>4, <1>6 DEF Alive
  <1>7. /\ \A q \in Proc : Holds(q)' => dir'
        /\ \A q, r \in Proc : Holds(q)' /\ Holds(r)' => q = r
    BY <1>5 DEF HoldInv
  <1>8. ASSUME NEW q \in Proc
        PROVE  (given'[q] => pc'[q] = "done") /\ (exit'[q] = 0 => given'[q])
    BY <1>4 DEF HoldInv
  <1>9. ASSUME mode' = "legacy", NEW q \in Proc, pc'[q] \in {"look", "make"} \cup Inside
        PROVE  outcome'[q] = "success"
    <2>1. pc'[q] = pc[q]
      BY <1>4, <1>9 DEF Inside
    <2> QED BY <1>9, <2>1 DEF HoldInv
  <1>10. ASSUME mode' = "multi"
         PROVE  /\ \A q \in Proc : pc'[q] \in {"work", "look", "make"} => ~ dir'
                /\ \A q, r \in Proc : Alive(q)' /\ Alive(r)' => q = r
    <2>1. ASSUME NEW q \in Proc, pc'[q] \in {"work", "look", "make"} PROVE ~ dir'
      BY <1>4, <1>10, <2>1 DEF HoldInv
    <2>2. ASSUME NEW q \in Proc, NEW r \in Proc, Alive(q)', Alive(r)' PROVE q = r
      BY <1>6, <1>10, <2>2 DEF HoldInv
    <2> QED BY <2>1, <2>2
  <1> QED BY <1>7, <1>8, <1>9, <1>10 DEF HoldInv

\* Every step keeps it.
LEMMA HoldStep ==
  ASSUME OneAtATime, TypeInv, DirInv, HoldInv, [Next]_vars
  PROVE  HoldInv'
  <1>0. mode \in {"legacy", "multi"}
    BY DirectoryAssumption DEF TypeInv
  <1> USE DEF TypeInv, DirInv, HoldInv, Holds, Alive, Steps, Inside, disk, Go, End
  <1>1. ASSUME NEW p \in Proc, Begin(p) PROVE HoldInv'
    <2>1. CASE mode = "multi" /\ dir
      BY <1>1, <2>1, GivingUp DEF Begin
    <2>2. CASE ~ (mode = "multi" /\ dir)
      <3>1. /\ pc[p] = "idle" /\ pc' = [pc EXCEPT ![p] = "work"]
            /\ UNCHANGED <<exit, given, outcome, dir, mode>>
        BY <1>1, <2>2 DEF Begin
      <3>2. ASSUME mode = "multi" PROVE \A q \in Proc : ~ Alive(q)
        BY <1>1, <3>2, NoneAlive DEF Begin
      <3> QED BY <1>0, <2>2, <3>1, <3>2
    <2> QED BY <2>1, <2>2
  <1>2. ASSUME NEW p \in Proc, WorkEnds(p) PROVE HoldInv'
    <2>1. CASE \E code \in {2, 3} : End(p, code, FALSE) /\ UNCHANGED <<outcome, todo>>
      <3>1. pc[p] # "done" /\ UNCHANGED <<mode, dir, outcome>>
        BY <1>2, <2>1 DEF WorkEnds
      <3> HIDE DEF TypeInv, HoldInv, End
      <3> QED BY <2>1, <3>1, GivingUp
    <2>2. CASE \E how \in IF mode = "legacy" THEN {"success"}
                          ELSE {"success", "failed", "noevidence"} :
                 /\ outcome' = [outcome EXCEPT ![p] = how]
                 /\ Go(p, IF how = "success" THEN "look" ELSE "make")
                 /\ UNCHANGED <<exit, given>>
      <3>1. PICK how \in IF mode = "legacy" THEN {"success"}
                         ELSE {"success", "failed", "noevidence"} :
              /\ outcome' = [outcome EXCEPT ![p] = how]
              /\ pc' = [pc EXCEPT ![p] = IF how = "success" THEN "look" ELSE "make"]
        BY <2>2
      <3>2. /\ pc'[p] \in {"look", "make"} /\ outcome'[p] = how
            /\ \A q \in Proc : q # p => pc'[q] = pc[q] /\ outcome'[q] = outcome[q]
        BY <3>1
      <3>3. UNCHANGED <<mode, dir, exit, given>> /\ pc[p] = "work"
        BY <1>2, <2>2 DEF WorkEnds
      <3>4. ~ given[p] /\ (mode = "legacy" => how = "success") /\ (mode = "multi" => ~ dir)
        BY <3>3
      <3>5. /\ \A q \in Proc : Holds(q)' => q # p /\ Holds(q)
            /\ \A q \in Proc : Alive(q)' => Alive(q)
        BY <3>2, <3>3, <3>4
      <3>6. ASSUME mode = "legacy", NEW q \in Proc, pc'[q] \in {"look", "make"} \cup Inside
            PROVE  outcome'[q] = "success"
        BY <3>2, <3>4, <3>6
      <3>7. ASSUME mode = "multi", NEW q \in Proc, pc'[q] \in {"work", "look", "make"}
            PROVE  ~ dir
        BY <3>4, <3>7
      <3>8. \A q \in Proc : (given'[q] => pc'[q] = "done") /\ (exit'[q] = 0 => given'[q])
        BY <3>2, <3>3, <3>4
      <3> QED BY <3>3, <3>5, <3>6, <3>7, <3>8
    <2> QED BY <1>2, <2>1, <2>2 DEF WorkEnds
  <1>3. ASSUME NEW p \in Proc, Look(p) PROVE HoldInv'
    <2>1. CASE dir
      BY <1>3, <2>1, GivingUp DEF Look
    <2>2. CASE ~ dir
      <3>1. /\ pc[p] = "look" /\ pc' = [pc EXCEPT ![p] = "make"]
            /\ UNCHANGED <<mode, dir, exit, given, outcome>>
        BY <1>3, <2>2 DEF Look
      <3>2. pc'[p] = "make" /\ \A q \in Proc : q # p => pc'[q] = pc[q]
        BY <3>1
      <3>3. \A q \in Proc : (Holds(q)' => Holds(q)) /\ (Alive(q)' => Alive(q))
        BY <3>1, <3>2
      <3>4. \A q \in Proc : (given'[q] => pc'[q] = "done") /\ (exit'[q] = 0 => given'[q])
        BY <3>1, <3>2
      <3>5. ASSUME mode = "legacy", NEW q \in Proc, pc'[q] \in {"look", "make"} \cup Inside
            PROVE  outcome'[q] = "success"
        BY <3>1, <3>2, <3>5
      <3> QED BY <2>2, <3>1, <3>3, <3>4, <3>5
    <2> QED BY <2>1, <2>2
  <1>4. ASSUME NEW p \in Proc, MakeDir(p) PROVE HoldInv'
    <2>1. CASE End(p, 3, FALSE) /\ UNCHANGED dir
      BY <1>4, <2>1, GivingUp DEF MakeDir
    <2>2. CASE /\ ~ dir \/ outcome[p] = "failed"
               /\ dir' = TRUE /\ Go(p, "write") /\ UNCHANGED <<exit, given>>
      <3>1. ~ dir
        BY <1>0, <1>4, <2>2 DEF MakeDir
      <3>2. \A q \in Proc : ~ Holds(q)
        BY <3>1
      <3>3. \A q \in Proc : pc'[q] = (IF q = p THEN "write" ELSE pc[q])
        BY <1>4, <2>2 DEF MakeDir
      <3>4. UNCHANGED <<mode, exit, given, outcome>> /\ dir' = TRUE /\ pc[p] = "make"
        BY <1>4, <2>2 DEF MakeDir
      <3>5. mode = "multi" => \A q \in Proc : q # p => ~ Alive(q)
        BY <3>4
      <3>6. \A q \in Proc : Holds(q)' => q = p
        BY <3>2, <3>3, <3>4
      <3>7. \A q \in Proc : (given'[q] => pc'[q] = "done") /\ (exit'[q] = 0 => given'[q])
        BY <3>3, <3>4
      <3>8. ASSUME mode = "legacy", NEW q \in Proc, pc'[q] \in {"look", "make"} \cup Inside
            PROVE  outcome'[q] = "success"
        BY <3>3, <3>4, <3>8
      <3>9. ASSUME mode = "multi"
            PROVE  /\ \A q \in Proc : pc'[q] \notin {"work", "look", "make"}
                   /\ \A q \in Proc : Alive(q)' => q = p
        BY <3>3, <3>5, <3>9
      <3> QED BY <3>4, <3>6, <3>7, <3>8, <3>9
    <2> QED BY <1>4, <2>1, <2>2 DEF MakeDir
  <1>5. ASSUME NEW p \in Proc, Write(p) PROVE HoldInv'
    BY <1>0, <1>5 DEF Write, Put
  <1>6. ASSUME NEW p \in Proc, WriteFails(p) PROVE HoldInv'
    <2>1. CASE mode = "legacy"
      BY <1>6, <2>1 DEF WriteFails
    <2>2. CASE mode # "legacy"
      BY <1>6, <2>2, GivingUp DEF WriteFails
    <2> QED BY <2>1, <2>2
  <1>7. ASSUME NEW p \in Proc, Unlink(p) PROVE HoldInv'
    BY <1>0, <1>7 DEF Unlink
  <1>8. ASSUME NEW p \in Proc, Removed(p) PROVE HoldInv'
    BY <1>0, <1>8 DEF Removed
  <1>9. ASSUME NEW p \in Proc, Written(p) PROVE HoldInv'
    BY <1>0, <1>9 DEF Written
  <1>10. ASSUME NEW p \in Proc, WriteIntegrity(p) PROVE HoldInv'
    BY <1>0, <1>10 DEF WriteIntegrity
  <1>11. ASSUME NEW p \in Proc, WriteMarker(p) PROVE HoldInv'
    BY <1>0, <1>11 DEF WriteMarker
  <1>12. ASSUME NEW p \in Proc, Report(p) PROVE HoldInv'
    BY <1>0, <1>12 DEF Report
  <1>13. ASSUME NEW p \in Proc, Crash(p) PROVE HoldInv'
    BY <1>0, <1>13 DEF Crash
  <1>14. CASE UNCHANGED vars
    BY <1>14 DEF vars
  <1> QED BY <1>1, <1>2, <1>3, <1>4, <1>5, <1>6, <1>7, <1>8, <1>9, <1>10, <1>11, <1>12,
             <1>13, <1>14 DEF Next, Step
-------------------------------------------------------------------------------
(* What is in the directory *)

\* The steps and the results that need what has been written.
Relies(p) == pc[p] \in {"write", "integrity", "marker", "report"} \/ given[p]

\* What is left to do is the end of the list of artifacts, all of it before
\* the mkdir and none of it after the writes.
IsRest(rest, list) ==
  /\ Len(rest) <= Len(list)
  /\ \A i \in 1..Len(rest) : rest[i] = list[Len(list) - Len(rest) + i]
TodoOf(p) ==
  /\ pc[p] \in {"look", "make"} => Len(todo[p]) = Len(Artifacts(outcome[p]))
  /\ pc[p] \in {"look", "make"} \/ Relies(p) => IsRest(todo[p], Artifacts(outcome[p]))
  /\ Relies(p) /\ pc[p] # "write" => Len(todo[p]) = 0
TodoInv == \A p \in Proc : TodoOf(p)

\* What has been written is there, whole and its own.
Kept(p, list, n) == \A i \in 1..n : list[i] \in DOMAIN files /\ files[list[i]] = p
KeptOf(p) ==
  Relies(p) =>
    Kept(p, Artifacts(outcome[p]), Len(Artifacts(outcome[p])) - Len(todo[p]))
KeptInv == \A p \in Proc : KeptOf(p)

\* The recorded hashes are those of the files from their recording on.
RecordInv ==
  /\ mode = "multi" => \A n \in DOMAIN files : files[n] # Torn
  /\ \A p \in Proc : pc[p] = "marker" => integrity = files
  /\ complete => /\ integrity = files /\ "manifest" \in DOMAIN files
                 /\ \A p \in Proc : pc[p] \notin {"write", "integrity", "marker"}

\* They hold initially.
LEMMA FilesInit == Init => TodoInv /\ KeptInv /\ RecordInv
  BY DEF Init, TodoInv, TodoOf, KeptInv, KeptOf, RecordInv, Relies

\* A process whose list stays is still fine if it comes from where it was.
LEMMA TodoStays ==
  ASSUME NEW q \in Proc, TodoOf(q), UNCHANGED <<mode, todo[q], outcome[q]>>,
         pc'[q] \in {"look", "make"} => pc[q] \in {"look", "make"},
         Relies(q)' => pc[q] = "make" \/ Relies(q),
         Relies(q)' /\ pc'[q] # "write" => Len(todo[q]) = 0
  PROVE  TodoOf(q)'
  BY DEF TodoOf, Artifacts

\* Every step keeps TodoInv: the lists change when the work ends and with each
\* artifact written, and no other step takes a process to where they matter.
LEMMA TodoStep ==
  ASSUME TypeInv, HoldInv, TodoInv, [Next]_vars
  PROVE  TodoInv'
  <1>1. ASSUME NEW p \in Proc, WorkEnds(p) PROVE TodoInv'
    <2>1. /\ mode' = mode
          /\ \A q \in Proc \ {p} : UNCHANGED <<pc[q], given[q], todo[q], outcome[q]>>
      BY <1>1 DEF WorkEnds, End, Go, TypeInv
    <2>2. \A q \in Proc \ {p} : TodoOf(q)'
      BY <2>1, TodoStays DEF TodoInv, TodoOf, Relies
    <2>3. ASSUME pc'[p] = "done" /\ ~ given'[p] PROVE TodoOf(p)'
      BY <2>3 DEF TodoOf, Relies
    <2>4. ASSUME /\ pc'[p] \in {"look", "make"} /\ ~ given'[p]
                 /\ \E how : outcome'[p] = how /\ todo'[p] = Artifacts(how)
          PROVE  TodoOf(p)'
      <3>1. todo'[p] = Artifacts(outcome[p])'
        BY <2>1, <2>4 DEF Artifacts
      <3>2. todo'[p] \in Seq(Names)
        BY <2>4, ArtifactsType
      <3>3. IsRest(todo[p], Artifacts(outcome[p]))'
        BY <3>1, <3>2 DEF IsRest
      <3> QED BY <2>4, <3>1, <3>3 DEF TodoOf, Relies
    <2>5. \/ pc'[p] = "done" /\ ~ given'[p]
          \/ /\ pc'[p] \in {"look", "make"} /\ ~ given'[p]
             /\ \E how : outcome'[p] = how /\ todo'[p] = Artifacts(how)
      BY <1>1 DEF WorkEnds, End, Go, TypeInv, HoldInv
    <2>6. TodoOf(p)'
      BY <2>3, <2>4, <2>5
    <2> QED BY <2>2, <2>6 DEF TodoInv
  <1>2. ASSUME NEW p \in Proc, Write(p) PROVE TodoInv'
    <2>1. UNCHANGED <<mode, pc, outcome, given>> /\ pc[p] = "write" /\ todo[p] # <<>>
      BY <1>2 DEF Write
    <2>2. /\ \A q \in Proc \ {p} : todo'[q] = todo[q]
          /\ todo'[p] \in {todo[p], Tail(todo[p])}
      BY <1>2 DEF Write, TypeInv
    <2>3. \A q \in Proc \ {p} : TodoOf(q)'
      BY <2>1, <2>2, TodoStays DEF TodoInv, TodoOf, Relies
    <2>4. ~ given[p]
      BY <2>1 DEF HoldInv
    <2>5. IsRest(todo[p], Artifacts(outcome[p]))
      BY <2>1 DEF TodoInv, TodoOf, Relies
    <2>6. /\ todo[p] \in Seq(Names) /\ Artifacts(outcome[p]) \in Seq(Names)
          /\ Artifacts(outcome[p]) = Artifacts(outcome[p])'
      BY <2>1, ArtifactsType DEF TypeInv, Artifacts
    <2>7. ASSUME NEW rest \in Seq(Names), NEW list \in Seq(Names), rest # <<>>, IsRest(rest, list)
          PROVE  IsRest(Tail(rest), list)
      <3>1. /\ Len(Tail(rest)) = Len(rest) - 1 /\ Len(Tail(rest)) \in Nat
            /\ \A i \in 1..Len(Tail(rest)) : Tail(rest)[i] = rest[i + 1]
        BY <2>7
      <3> QED BY <2>7, <3>1 DEF IsRest
    <2>8. IsRest(todo'[p], Artifacts(outcome[p])')
      BY <2>1, <2>2, <2>5, <2>6, <2>7
    <2>9. TodoOf(p)'
      BY <2>1, <2>4, <2>8 DEF TodoOf, Relies
    <2> QED BY <2>3, <2>9 DEF TodoInv
  <1>3. ASSUME NEW p \in Proc,
               \/ Begin(p) \/ Look(p) \/ MakeDir(p) \/ WriteFails(p) \/ Unlink(p) \/ Removed(p)
               \/ Written(p) \/ WriteIntegrity(p) \/ WriteMarker(p) \/ Report(p) \/ Crash(p)
        PROVE  TodoInv'
    <2>1. UNCHANGED <<mode, todo, outcome>>
      BY <1>3 DEF Begin, Look, MakeDir, WriteFails, Unlink, Removed, Written, WriteIntegrity,
                  WriteMarker, Report, Crash, End, Go
    <2> USE DEF TypeInv, HoldInv, Steps, End, Go
    <2>2. /\ \A q \in Proc \ {p} : UNCHANGED <<pc[q], given[q]>>
      BY <1>3 DEF Begin, Look, MakeDir, WriteFails, Unlink, Removed, Written, WriteIntegrity,
                  WriteMarker, Report, Crash
    <2>3. pc'[p] \in {"look", "make"} => pc[p] \in {"look", "make"}
      BY <1>3 DEF Begin, Look, MakeDir, WriteFails, Unlink, Removed, Written, WriteIntegrity,
                  WriteMarker, Report, Crash
    <2>4. Relies(p)' => pc[p] = "make" \/ Relies(p)
      BY <1>3 DEF Begin, Look, MakeDir, WriteFails, Unlink, Removed, Written, WriteIntegrity,
                  WriteMarker, Report, Crash, Relies
    <2>5. Relies(p)' /\ pc'[p] # "write" => \/ Relies(p) /\ pc[p] # "write"
                                            \/ todo[p] = <<>>
      BY <1>3 DEF Begin, Look, MakeDir, WriteFails, Unlink, Removed, Written, WriteIntegrity,
                  WriteMarker, Report, Crash, Relies
    <2>6. TodoOf(p)'
      BY <2>1, <2>3, <2>4, <2>5, TodoStays DEF TodoInv, TodoOf
    <2>7. \A q \in Proc \ {p} : TodoOf(q)'
      BY <2>1, <2>2, TodoStays DEF TodoInv, TodoOf, Relies
    <2> QED BY <2>6, <2>7 DEF TodoInv
  <1>4. CASE UNCHANGED vars
    BY <1>4 DEF vars, TodoInv, TodoOf, Artifacts, Relies
  <1> QED BY <1>1, <1>2, <1>3, <1>4 DEF Next, Step

\* Writing one file leaves the others as they are.
LEMMA PutOne ==
  ASSUME NEW n, NEW v, Put(n, v)
  PROVE  /\ DOMAIN files' = DOMAIN files \cup {n} /\ files'[n] = v
         /\ \A k \in DOMAIN files : k # n => files'[k] = files[k]
  BY DEF Put

\* The first of what is left comes right after what has been written.
LEMMA NextOfRest ==
  ASSUME NEW rest \in Seq(Names), NEW list \in Seq(Names), rest # <<>>, IsRest(rest, list)
  PROVE  LET k == Len(list) - Len(rest) IN
         k \in Nat /\ k + 1 \in 1..Len(list) /\ list[k + 1] = Head(rest)
  <1>1. Len(rest) \in Nat \ {0} /\ Len(list) \in Nat /\ Head(rest) = rest[1]
    OBVIOUS
  <1> QED BY <1>1 DEF IsRest

\* While no file changes, a process that relied on its files and goes on still
\* may.
LEMMA KeptStays ==
  ASSUME NEW q \in Proc, KeptOf(q), UNCHANGED <<mode, files>>,
         Relies(q)' => Relies(q) /\ UNCHANGED <<todo[q], outcome[q]>>
  PROVE  KeptOf(q)'
  <1> SUFFICES ASSUME Relies(q)' PROVE KeptOf(q)'
    BY DEF KeptOf
  <1>1. Artifacts(outcome[q])' = Artifacts(outcome[q]) /\ todo'[q] = todo[q]
    BY DEF Artifacts
  <1>2. Kept(q, Artifacts(outcome[q]), Len(Artifacts(outcome[q])) - Len(todo[q]))
    BY DEF KeptOf
  <1> QED BY <1>1, <1>2 DEF KeptOf, Kept

\* Nothing is written or removed but by the process that holds the directory,
\* and a file is never torn once it has been written.
LEMMA KeptStep ==
  ASSUME OneAtATime, TypeInv, DirInv, HoldInv, TodoInv, KeptInv, [Next]_vars
  PROVE  KeptInv'
  <1>1. ASSUME NEW p \in Proc, Write(p) PROVE KeptInv'
    <2>1. UNCHANGED <<mode, pc, outcome, given>> /\ pc[p] = "write" /\ todo[p] # <<>>
      BY <1>1 DEF Write
    <2>2. \A q \in Proc \ {p} : ~ Relies(q)
      BY <2>1 DEF HoldInv, Holds, Relies, Inside
    <2>3. \A q \in Proc \ {p} : KeptOf(q)'
      BY <2>1, <2>2 DEF KeptOf, Relies
    <2>10. PICK list, k : list = Artifacts(outcome[p]) /\ k = Len(list) - Len(todo[p])
      OBVIOUS
    <2>4. /\ todo[p] \in Seq(Names) /\ list \in Seq(Names)
          /\ Artifacts(outcome[p])' = list
      BY <2>1, <2>10, ArtifactsType DEF TypeInv, Artifacts
    <2>5. Kept(p, list, k) /\ IsRest(todo[p], list)
      BY <2>1, <2>10 DEF KeptInv, KeptOf, Relies, TodoInv, TodoOf
    <2>6. k \in Nat /\ k + 1 \in 1..Len(list) /\ list[k + 1] = Head(todo[p])
      BY <2>1, <2>10, <2>4, <2>5, NextOfRest
    <2>7. CASE Put(Head(todo[p]), Torn) /\ Head(todo[p]) \notin DOMAIN files /\ todo' = todo
      <3>1. \A i \in 1..k : list[i] # Head(todo[p])
        BY <2>5, <2>7 DEF Kept
      <3>2. Kept(p, list, k)'
        BY <2>5, <2>7, <3>1, PutOne DEF Kept
      <3>3. KeptOf(p)'
        BY <2>10, <2>4, <2>7, <3>2 DEF KeptOf, Kept
      <3> QED BY <2>3, <3>3 DEF KeptInv
    <2>8. CASE Put(Head(todo[p]), p) /\ todo' = [todo EXCEPT ![p] = Tail(@)]
      <3>1. \A i \in 1..k + 1 : list[i] \in DOMAIN files' /\ files'[list[i]] = p
        <4>1. TAKE i \in 1..k + 1
        <4>2. i \in 1..k \/ i = k + 1
          BY <2>6
        <4>3. list[i] \in DOMAIN files \cup {Head(todo[p])}
              /\ (list[i] # Head(todo[p]) => files[list[i]] = p)
          BY <2>5, <2>6, <4>2 DEF Kept
        <4> QED BY <2>8, <4>3, PutOne
      <3>2. Len(todo'[p]) = Len(todo[p]) - 1
        BY <2>1, <2>4, <2>8 DEF TypeInv
      <3>3. Len(list) - Len(todo'[p]) = k + 1
        BY <2>10, <2>4, <3>2
      <3>4. KeptOf(p)'
        BY <2>4, <3>1, <3>3 DEF KeptOf, Kept
      <3> QED BY <2>3, <3>4 DEF KeptInv
    <2> QED BY <1>1, <2>7, <2>8 DEF Write
  <1>2. ASSUME NEW p \in Proc, Unlink(p) PROVE KeptInv'
    <2>1. \A q \in Proc : ~ Relies(q)
      BY <1>2 DEF Unlink, HoldInv, Holds, Relies, Inside
    <2>2. UNCHANGED <<pc, given>>
      BY <1>2 DEF Unlink
    <2> QED BY <2>1, <2>2 DEF KeptInv, KeptOf, Relies
  <1>3. ASSUME NEW p \in Proc,
               \/ Begin(p) \/ WorkEnds(p) \/ Look(p) \/ MakeDir(p) \/ WriteFails(p)
               \/ Removed(p) \/ Written(p) \/ WriteIntegrity(p) \/ WriteMarker(p) \/ Report(p)
               \/ Crash(p)
        PROVE  KeptInv'
    <2>1. /\ UNCHANGED <<mode, files>>
          /\ \A q \in Proc \ {p} : UNCHANGED <<pc[q], given[q], todo[q], outcome[q]>>
      BY <1>3 DEF Begin, WorkEnds, Look, MakeDir, WriteFails, Removed, Written, WriteIntegrity,
                  WriteMarker, Report, Crash, End, Go, TypeInv, disk
    <2>2. \A q \in Proc \ {p} : KeptOf(q)'
      BY <2>1, KeptStays DEF KeptInv, Relies
    <2>3. Relies(p)' => \/ Relies(p) /\ UNCHANGED <<todo, outcome>>
                        \/ pc[p] = "make" /\ UNCHANGED <<todo, outcome>>
      BY <1>3 DEF Begin, WorkEnds, Look, MakeDir, WriteFails, Removed, Written, WriteIntegrity,
                  WriteMarker, Report, Crash, End, Go, TypeInv, HoldInv, Relies, disk
    <2>4. CASE Relies(p) /\ UNCHANGED <<todo, outcome>>
      BY <2>1, <2>2, <2>4, KeptStays DEF KeptInv
    <2>5. CASE pc[p] = "make" /\ UNCHANGED <<todo, outcome>>
      <3>1. Len(Artifacts(outcome[p])') - Len(todo'[p]) = 0
        BY <2>1, <2>5, ArtifactsType DEF TodoInv, TodoOf, TypeInv, Artifacts
      <3>2. KeptOf(p)'
        BY <3>1 DEF KeptOf, Kept
      <3> QED BY <2>2, <3>2 DEF KeptInv
    <2>6. CASE ~ Relies(p)'
      BY <2>2, <2>6 DEF KeptInv, KeptOf
    <2> QED BY <2>3, <2>4, <2>5, <2>6
  <1>4. CASE UNCHANGED vars
    BY <1>4 DEF vars, KeptInv, KeptOf, Kept, Artifacts, Relies, disk
  <1> QED BY <1>1, <1>2, <1>3, <1>4 DEF Next, Step

\* With every artifact of a multi-agent run written, the manifest is there.
LEMMA ManifestWritten ==
  ASSUME mode = "multi", TodoInv, KeptInv, NEW p \in Proc,
         pc[p] \in {"integrity", "marker", "report"}
  PROVE  "manifest" \in DOMAIN files
  <1> DEFINE list == Artifacts(outcome[p])
  <1>1. list \in Seq(Names) /\ Len(todo[p]) = 0
    BY ArtifactsType DEF TodoInv, TodoOf, Relies
  <1>2. PICK i \in 1..Len(list) : list[i] = "manifest"
    BY ManifestListed
  <1>3. Kept(p, list, Len(list) - Len(todo[p]))
    BY DEF KeptInv, KeptOf, Relies
  <1> HIDE DEF list
  <1> QED BY <1>1, <1>2, <1>3 DEF Kept

\* What is recorded is what is there: the files change only before they are
\* recorded, and nobody else is in the directory.
LEMMA RecordStep ==
  ASSUME OneAtATime, TypeInv, DirInv, HoldInv, TodoInv, KeptInv, RecordInv, [Next]_vars
  PROVE  RecordInv'
  <1>0. mode \in {"legacy", "multi"}
    BY DirectoryAssumption DEF TypeInv
  <1> USE DEF RecordInv, Go, End, disk
  <1>1. ASSUME NEW p \in Proc, Begin(p) PROVE RecordInv'
    BY <1>1 DEF Begin, TypeInv
  <1>2. ASSUME NEW p \in Proc, WorkEnds(p) PROVE RecordInv'
    BY <1>2 DEF WorkEnds, TypeInv
  <1>3. ASSUME NEW p \in Proc, Look(p) PROVE RecordInv'
    BY <1>3 DEF Look, TypeInv
  <1>4. ASSUME NEW p \in Proc, MakeDir(p) PROVE RecordInv'
    BY <1>0, <1>4 DEF MakeDir, TypeInv, HoldInv, DirInv
  <1>5. ASSUME NEW p \in Proc, Write(p) PROVE RecordInv'
    <2>1. UNCHANGED <<mode, integrity, complete, pc>> /\ pc[p] = "write"
      BY <1>5 DEF Write
    <2>2. ~ complete /\ \A q \in Proc : pc[q] # "marker"
      <3>1. \A q \in Proc : pc[q] = "marker" => q = p
        BY <2>1 DEF HoldInv, Holds, Inside
      <3> QED BY <2>1, <3>1
    <2>3. ASSUME mode = "multi" PROVE \A n \in DOMAIN files' : files'[n] # Torn
      <3>1. Put(Head(todo[p]), p)
        BY <1>5, <2>3 DEF Write
      <3>2. /\ DOMAIN files' = DOMAIN files \cup {Head(todo[p])}
            /\ files'[Head(todo[p])] = p
            /\ \A k \in DOMAIN files : k # Head(todo[p]) => files'[k] = files[k]
        BY <3>1, PutOne
      <3>3. p # Torn
        BY DirectoryAssumption
      <3> QED BY <2>3, <3>2, <3>3
    <2> QED BY <2>1, <2>2, <2>3
  <1>6. ASSUME NEW p \in Proc, WriteFails(p) PROVE RecordInv'
    BY <1>6 DEF WriteFails, TypeInv
  <1>7. ASSUME NEW p \in Proc, Unlink(p) PROVE RecordInv'
    BY <1>0, <1>7 DEF Unlink, DirInv, Inside
  <1>8. ASSUME NEW p \in Proc, Removed(p) PROVE RecordInv'
    BY <1>8 DEF Removed, TypeInv
  <1>9. ASSUME NEW p \in Proc, Written(p) PROVE RecordInv'
    BY <1>0, <1>9 DEF Written, TypeInv, DirInv
  <1>10. ASSUME NEW p \in Proc, WriteIntegrity(p) PROVE RecordInv'
    BY <1>0, <1>10 DEF WriteIntegrity, TypeInv, HoldInv, Holds, Inside, DirInv
  <1>11. ASSUME NEW p \in Proc, WriteMarker(p) PROVE RecordInv'
    BY <1>0, <1>11, ManifestWritten DEF WriteMarker, TypeInv, HoldInv, Holds, Inside, DirInv
  <1>12. ASSUME NEW p \in Proc, Report(p) PROVE RecordInv'
    BY <1>12 DEF Report, TypeInv
  <1>13. ASSUME NEW p \in Proc, Crash(p) PROVE RecordInv'
    BY <1>13 DEF Crash, TypeInv
  <1>14. CASE UNCHANGED vars
    BY <1>14 DEF vars
  <1> QED BY <1>1, <1>2, <1>3, <1>4, <1>5, <1>6, <1>7, <1>8, <1>9, <1>10, <1>11, <1>12,
             <1>13, <1>14 DEF Next, Step
-------------------------------------------------------------------------------
(* The theorems *)

IInv == TypeInv /\ DirInv /\ HoldInv /\ TodoInv /\ KeptInv /\ RecordInv

\* The types hold, and nothing is inside a directory that is not there, however
\* many processes overlap.
THEOREM TypeCorrect == Spec => []TypeOK
  <1>1. TypeInv /\ DirInv => TypeOK
    <2> SUFFICES ASSUME TypeInv, DirInv PROVE TypeOK
      OBVIOUS
    <2>1. IsListing(files) /\ IsListing(integrity)
      BY DEF TypeInv, IsListing
    <2>2. DOMAIN files = {} => files = <<>>
      <3>1. files = [n \in DOMAIN files |-> files[n]]
        BY DEF TypeInv
      <3> QED BY <3>1
    <2>3. \A p \in Proc :
            /\ pc[p] \in Steps /\ exit[p] \in {0, 2, 3, 9} /\ given[p] \in BOOLEAN
            /\ outcome[p] \in {"none", "success", "failed", "noevidence"}
      BY DEF TypeInv
    <2>4. /\ mode \in Modes /\ dir \in BOOLEAN /\ complete \in BOOLEAN
          /\ crashes \in 0..MaxCrashes
      BY DEF TypeInv
    <2> QED BY <2>1, <2>2, <2>3, <2>4 DEF DirInv, TypeOK, Steps
  <1> QED BY <1>1, TypeInit, TypeStep, PTL DEF Spec

\* With one multi-agent run at a time, every reachable state satisfies the
\* inductive invariant.
THEOREM Invariance ==
  ASSUME OneAtATime PROVE Spec => []IInv
  <1>1. Init => IInv
    BY TypeInit, HoldInit, FilesInit DEF IInv
  <1>2. IInv /\ [Next]_vars => IInv'
    BY TypeStep, HoldStep, TodoStep, KeptStep, RecordStep DEF IInv
  <1> QED BY <1>1, <1>2, PTL DEF Spec

\* A result that names the directory stays true: whatever other processes do,
\* crash or clean up, every artifact of its run stays there, whole and its own.
THEOREM ResultsStand ==
  ASSUME OneAtATime PROVE Spec => []SuccessStands
  <1>1. IInv => SuccessStands
    <2> SUFFICES ASSUME IInv, NEW p \in Proc
                 PROVE  /\ exit[p] = 0 => given[p]
                        /\ given[p] => /\ dir
                                       /\ \A i \in 1..Len(Artifacts(outcome[p])) :
                                            /\ Artifacts(outcome[p])[i] \in DOMAIN files
                                            /\ files[Artifacts(outcome[p])[i]] = p
      BY DEF SuccessStands
    <2>1. /\ exit[p] = 0 => given[p]
          /\ given[p] => dir /\ pc[p] = "done"
      BY DEF IInv, HoldInv, Holds
    <2>2. ASSUME given[p]
          PROVE  Kept(p, Artifacts(outcome[p]), Len(Artifacts(outcome[p])))
      <3>1. Len(todo[p]) = 0
        BY <2>1, <2>2 DEF IInv, TodoInv, TodoOf, Relies
      <3>2. Len(Artifacts(outcome[p])) - Len(todo[p]) = Len(Artifacts(outcome[p]))
        BY <3>1, ArtifactsType
      <3>3. Kept(p, Artifacts(outcome[p]), Len(Artifacts(outcome[p])) - Len(todo[p]))
        BY <2>2 DEF IInv, KeptInv, KeptOf, Relies
      <3> QED BY <3>2, <3>3
    <2> QED BY <2>1, <2>2 DEF Kept
  <1> QED BY <1>1, Invariance, PTL

\* _COMPLETE says that the recorded hashes are those of exactly the files in
\* the directory, the manifest among them and none half written.
THEOREM MarkerIsTrue ==
  ASSUME OneAtATime PROVE Spec => []CompleteMeansIntact
  <1>1. IInv => CompleteMeansIntact
    <2>1. IInv /\ complete => mode = "multi"
      BY DirectoryAssumption DEF IInv, TypeInv, DirInv
    <2> QED BY <2>1 DEF IInv, RecordInv, CompleteMeansIntact
  <1> QED BY <1>1, Invariance, PTL

-------------------------------------------------------------------------------
(* The directory as the processes' one claim *)

Writers == {q \in Proc : pc[q] \in Inside}
Published == {q \in Proc : given[q]}

\* A step of a process takes it in or out.
LEMMA WritersMove ==
  ASSUME TypeInv, NEW p \in Proc, NEW step, Go(p, step)
  PROVE  Writers' = IF step \in Inside THEN Writers \cup {p} ELSE Writers \ {p}
  <1>1. pc' = [pc EXCEPT ![p] = step] /\ DOMAIN pc = Proc
    BY DEF Go, TypeInv
  <1>2. pc'[p] = step /\ \A q \in Proc : q # p => pc'[q] = pc[q]
    BY <1>1
  <1> QED BY <1>2 DEF Writers

\* Ending decides whether its result names the directory.
LEMMA PublishedMoves ==
  ASSUME TypeInv, NEW p \in Proc, NEW code, NEW b \in BOOLEAN, End(p, code, b)
  PROVE  Published' = IF b THEN Published \cup {p} ELSE Published \ {p}
  <1>1. given' = [given EXCEPT ![p] = b] /\ DOMAIN given = Proc
    BY DEF End, TypeInv
  <1>2. given'[p] = b /\ \A q \in Proc : q # p => given'[q] = given[q]
    BY <1>1
  <1> QED BY <1>2 DEF Published

\* A process inside is alone there, and no result names the directory yet.
LEMMA InsideAlone ==
  ASSUME HoldInv, NEW p \in Proc, pc[p] \in Inside
  PROVE  dir /\ Writers = {p} /\ Published = {} /\ ~ given[p]
  <1>1. dir /\ \A q \in Proc : Holds(q) => q = p
    BY DEF HoldInv, Holds
  <1>2. ~ given[p]
    BY DEF HoldInv, Inside
  <1> QED BY <1>1, <1>2 DEF Holds, Writers, Published

\* Until it is, nobody is inside, and a directory that is not there is nobody's.
LEMMA OutsideFree ==
  ASSUME HoldInv, ~ dir
  PROVE  Writers = {} /\ Published = {}
  BY DEF HoldInv, Holds, Writers, Published

\* A process that gives up outside leaves no trace.
LEMMA GivingUpOutside ==
  ASSUME TypeInv, HoldInv, NEW p \in Proc, pc[p] \notin Inside, pc[p] # "done",
         NEW code, End(p, code, FALSE), UNCHANGED <<dir, files, integrity, complete>>
  PROVE  UNCHANGED Claimed!vars
  <1>1. Writers' = Writers \ {p}
    <2>1. Go(p, "done") /\ "done" \notin Inside
      BY DEF End, Inside
    <2> QED BY <2>1, WritersMove
  <1>2. Published' = Published \ {p}
    BY PublishedMoves
  <1>3. p \notin Writers /\ p \notin Published
    BY DEF Writers, Published, HoldInv
  <1> QED BY <1>1, <1>2, <1>3 DEF Claimed!vars, Writers, Published

\* One that moves on outside does neither.
LEMMA MovingOutside ==
  ASSUME TypeInv, NEW p \in Proc, pc[p] \notin Inside, NEW step, step \notin Inside,
         Go(p, step), UNCHANGED <<dir, files, integrity, complete, given>>
  PROVE  UNCHANGED Claimed!vars
  <1>1. Writers' = Writers \ {p} /\ p \notin Writers
    BY WritersMove DEF Writers
  <1>2. Published' = Published
    BY DEF Published
  <1> QED BY <1>1, <1>2 DEF Claimed!vars, Writers, Published

\* One that moves on inside changes the directory's content at most.
LEMMA MovingInside ==
  ASSUME TypeInv, HoldInv, NEW p \in Proc, pc[p] \in Inside, NEW step \in Inside,
         Go(p, step), UNCHANGED <<dir, given>>
  PROVE  Claimed!Next
  <1>1. Writers = {p} /\ dir
    BY InsideAlone
  <1>2. Writers' = Writers
    BY <1>1, WritersMove
  <1>3. Published' = Published
    BY DEF Published
  <1>4. Claimed!Change(p)
    BY <1>1, <1>2, <1>3 DEF Claimed!Change, Writers, Published
  <1> QED BY <1>4 DEF Claimed!Next

\* One that ends inside without a result leaves its files, or has removed them.
LEMMA LeavingInside ==
  ASSUME TypeInv, HoldInv, NEW p \in Proc, pc[p] \in Inside,
         NEW step, step \notin Inside, Go(p, step), Published' = Published \ {p},
         dir' \in {dir, FALSE}, UNCHANGED <<files, integrity, complete>>
  PROVE  Claimed!Next
  <1>1. Writers = {p} /\ dir /\ Published = {}
    BY InsideAlone
  <1>2. Writers' = {} /\ Published' = Published
    BY <1>1, WritersMove
  <1>3. CASE dir' = dir
    <2>1. Claimed!Leave(p)
      BY <1>1, <1>2, <1>3 DEF Claimed!Leave, Writers, Published
    <2> QED BY <2>1 DEF Claimed!Next
  <1>4. CASE dir' = FALSE
    <2>1. Claimed!Free(p)
      BY <1>1, <1>2, <1>4 DEF Claimed!Free, Writers, Published
    <2> QED BY <2>1 DEF Claimed!Next
  <1> QED BY <1>3, <1>4

\* Nobody has claimed the directory yet.
LEMMA RefinementInit == Init => Claimed!Init
  BY DEF Init, Claimed!Init, Inside

\* Every step takes, changes, publishes, leaves or frees the directory as its
\* one writer, or is none of the directory's business.
LEMMA RefinementStep ==
  ASSUME OneAtATime, TypeInv, DirInv, HoldInv, [Next]_vars
  PROVE  [Claimed!Next]_(Claimed!vars)
  <1>0. mode \in {"legacy", "multi"}
    BY DirectoryAssumption DEF TypeInv
  <1>1. ASSUME NEW p \in Proc, Begin(p) PROVE [Claimed!Next]_(Claimed!vars)
    <2>1. pc[p] = "idle" /\ UNCHANGED disk
      BY <1>1 DEF Begin
    <2>2. CASE End(p, 3, FALSE)
      BY <2>1, <2>2, GivingUpOutside DEF Inside, disk
    <2>3. CASE Go(p, "work") /\ UNCHANGED given
      BY <2>1, <2>3, MovingOutside DEF Inside, disk
    <2> QED BY <1>1, <2>2, <2>3 DEF Begin
  <1>2. ASSUME NEW p \in Proc, WorkEnds(p) PROVE [Claimed!Next]_(Claimed!vars)
    <2>1. pc[p] = "work" /\ UNCHANGED disk
      BY <1>2 DEF WorkEnds
    <2>2. ASSUME NEW code \in {2, 3}, End(p, code, FALSE) PROVE UNCHANGED Claimed!vars
      BY <2>1, <2>2, GivingUpOutside DEF Inside, disk
    <2>3. ASSUME NEW step \in {"look", "make"}, Go(p, step), UNCHANGED given
          PROVE  UNCHANGED Claimed!vars
      BY <2>1, <2>3, MovingOutside DEF Inside, disk
    <2>4. \/ \E code \in {2, 3} : End(p, code, FALSE)
          \/ \E step \in {"look", "make"} : Go(p, step) /\ UNCHANGED given
      BY <1>2 DEF WorkEnds
    <2> QED BY <2>2, <2>3, <2>4
  <1>3. ASSUME NEW p \in Proc, Look(p) PROVE [Claimed!Next]_(Claimed!vars)
    <2>1. pc[p] = "look" /\ UNCHANGED disk
      BY <1>3 DEF Look
    <2>2. CASE End(p, 3, FALSE)
      BY <2>1, <2>2, GivingUpOutside DEF Inside, disk
    <2>3. CASE Go(p, "make") /\ UNCHANGED given
      BY <2>1, <2>3, MovingOutside DEF Inside, disk
    <2> QED BY <1>3, <2>2, <2>3 DEF Look
  <1>4. ASSUME NEW p \in Proc, MakeDir(p) PROVE [Claimed!Next]_(Claimed!vars)
    <2>1. pc[p] = "make" /\ UNCHANGED <<files, integrity, complete>>
      BY <1>4 DEF MakeDir
    <2>2. CASE End(p, 3, FALSE) /\ UNCHANGED dir
      BY <2>1, <2>2, GivingUpOutside DEF Inside
    <2>3. CASE (~ dir \/ outcome[p] = "failed") /\ dir' = TRUE /\ Go(p, "write") /\ UNCHANGED given
      <3>1. ~ dir
        BY <1>0, <2>1, <2>3 DEF HoldInv
      <3>2. Writers = {} /\ Published = {}
        BY <3>1, OutsideFree
      <3>3. Writers' = {p}
        BY <2>3, <3>2, WritersMove DEF Inside
      <3>4. Published' = Published
        BY <2>3 DEF Published
      <3>5. Claimed!Take(p)
        BY <2>1, <2>3, <3>1, <3>2, <3>3, <3>4 DEF Claimed!Take, Writers, Published
      <3> QED BY <3>5 DEF Claimed!Next
    <2> QED BY <1>4, <2>2, <2>3 DEF MakeDir
  <1>5. ASSUME NEW p \in Proc, Write(p) \/ Unlink(p) PROVE [Claimed!Next]_(Claimed!vars)
    <2>1. pc[p] \in Inside /\ UNCHANGED <<pc, given>>
      BY <1>5 DEF Write, Unlink, Inside
    <2>2. Writers = {p} /\ dir
      BY <2>1, InsideAlone
    <2>3. dir' = dir
      BY <1>5, <2>2 DEF Write, Unlink
    <2>4. Claimed!Change(p)
      BY <2>1, <2>2, <2>3 DEF Claimed!Change, Writers
    <2> QED BY <2>4 DEF Claimed!Next
  <1>6. ASSUME NEW p \in Proc, WriteFails(p) PROVE [Claimed!Next]_(Claimed!vars)
    <2>1. pc[p] \in Inside /\ UNCHANGED disk
      BY <1>6 DEF WriteFails, Inside
    <2>2. CASE Go(p, "remove") /\ UNCHANGED given
      BY <2>1, <2>2, MovingInside DEF Inside, disk
    <2>3. CASE End(p, 3, FALSE)
      <3>1. Go(p, "done") /\ Published' = Published \ {p}
        BY <2>3, PublishedMoves DEF End
      <3> QED BY <2>1, <3>1, LeavingInside DEF Inside, disk
    <2> QED BY <1>6, <2>2, <2>3 DEF WriteFails
  <1>7. ASSUME NEW p \in Proc, Removed(p) PROVE [Claimed!Next]_(Claimed!vars)
    <2>1. pc[p] \in Inside /\ UNCHANGED <<files, integrity, complete>> /\ dir' \in {dir, FALSE}
      BY <1>7 DEF Removed, Inside
    <2>2. Go(p, "done") /\ Published' = Published \ {p}
      BY <1>7, PublishedMoves DEF Removed, End
    <2> QED BY <2>1, <2>2, LeavingInside DEF Inside
  <1>8. ASSUME NEW p \in Proc, Written(p) \/ WriteIntegrity(p) \/ WriteMarker(p)
        PROVE  [Claimed!Next]_(Claimed!vars)
    <2>1. PICK step \in Inside : Go(p, step)
      BY <1>8 DEF Written, WriteIntegrity, WriteMarker, Inside
    <2>2. pc[p] \in Inside /\ UNCHANGED <<dir, given>>
      BY <1>8 DEF Written, WriteIntegrity, WriteMarker, Inside, disk
    <2> QED BY <2>1, <2>2, MovingInside
  <1>9. ASSUME NEW p \in Proc, Report(p) PROVE [Claimed!Next]_(Claimed!vars)
    <2>1. pc[p] \in Inside /\ UNCHANGED disk
      BY <1>9 DEF Report, Inside
    <2>2. PICK code \in {0, 3}, b \in BOOLEAN : End(p, code, b)
      BY <1>9, <1>0 DEF Report, TypeInv
    <2>3. CASE b
      <3>1. Writers = {p} /\ dir /\ Published = {}
        BY <2>1, InsideAlone
      <3>2. Writers' = {}
        BY <2>2, <3>1, WritersMove DEF End, Inside
      <3>3. Published' = {p}
        BY <2>2, <2>3, <3>1, PublishedMoves
      <3>4. Claimed!Publish(p)
        BY <2>1, <3>1, <3>2, <3>3 DEF Claimed!Publish, Writers, Published, disk
      <3> QED BY <3>4 DEF Claimed!Next
    <2>4. CASE ~ b
      <3>1. Go(p, "done") /\ Published' = Published \ {p}
        BY <2>2, <2>4, PublishedMoves DEF End
      <3> QED BY <2>1, <3>1, LeavingInside DEF Inside, disk
    <2> QED BY <2>3, <2>4
  <1>10. ASSUME NEW p \in Proc, Crash(p) PROVE [Claimed!Next]_(Claimed!vars)
    <2>1. Go(p, "crashed") /\ UNCHANGED <<disk, given>>
      BY <1>10 DEF Crash
    <2>2. CASE pc[p] \in Inside
      <3>1. Published' = Published \ {p}
        BY <2>1, <2>2, InsideAlone DEF Published
      <3> QED BY <2>1, <2>2, <3>1, LeavingInside DEF Inside, disk
    <2>3. CASE pc[p] \notin Inside
      BY <2>1, <2>3, MovingOutside DEF Inside, disk
    <2> QED BY <2>2, <2>3
  <1>11. CASE UNCHANGED vars
    BY <1>11 DEF vars, disk, Claimed!vars
  <1> QED BY <1>1, <1>2, <1>3, <1>4, <1>5, <1>6, <1>7, <1>8, <1>9, <1>10, <1>11
          DEF Next, Step

\* With one multi-agent run at a time, every behaviour of the processes is one
\* of a directory that has a single writer, is published once and then stays.
THEOREM DirectoryClaimed ==
  ASSUME OneAtATime PROVE Spec => ImplementsClaimedDirectory
  <1>1. IInv /\ [Next]_vars => [Claimed!Next]_(Claimed!vars)
    BY RefinementStep DEF IInv
  <1> QED BY <1>1, RefinementInit, Invariance, PTL
          DEF Spec, ImplementsClaimedDirectory, Claimed!Spec
===============================================================================
