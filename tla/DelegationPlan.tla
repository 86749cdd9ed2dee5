---------------------------- MODULE DelegationPlan ----------------------------
(***************************************************************************)
(* The fixed delegation plan: the agents and dependencies of               *)
(* plan/planner.py, and the stages plan/compiler.py groups them into.      *)
(***************************************************************************)
EXTENDS Naturals

Agents == {"analyst", "design", "test", "risk", "synthesis", "review"}
Specialists == {"design", "test", "risk"}

DependsOn ==
  [a \in Agents |->
     CASE a = "analyst" -> {}
       [] a \in Specialists -> {"analyst"}
       [] a = "synthesis" -> Specialists
       [] a = "review" -> {"synthesis"}]

\* RevisionPolicy(): who may be asked to revise, and how often in a run.
RevisableRoles == Specialists
MaxTotalRounds == 1

\* The agents of the first n stages: a stage takes every agent whose
\* dependencies all lie in earlier ones.
Placed[n \in Nat] ==
  IF n = 0 THEN {} ELSE {a \in Agents : DependsOn[a] \subseteq Placed[n - 1]}

Stage(n) == {a \in Agents : a \notin Placed[n] /\ DependsOn[a] \subseteq Placed[n]}
===============================================================================
