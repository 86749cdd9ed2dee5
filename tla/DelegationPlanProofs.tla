-------------------------- MODULE DelegationPlanProofs --------------------------
(***************************************************************************)
(* The stages of the fixed plan.  Placed is a recursive function over the  *)
(* naturals: that it satisfies its equation is shown by a table of its     *)
(* values, and the stages are computed from the equation.                  *)
(***************************************************************************)
EXTENDS DelegationPlan, Integers, TLAPS

PlacedUpTo(n) ==
  IF n = 0 THEN {}
  ELSE IF n = 1 THEN {"analyst"}
  ELSE IF n = 2 THEN {"analyst"} \cup Specialists
  ELSE IF n = 3 THEN {"analyst", "synthesis"} \cup Specialists
  ELSE Agents

\* The dependencies, agent by agent.
LEMMA Dependencies ==
  /\ DependsOn["analyst"] = {}
  /\ DependsOn["design"] = {"analyst"} /\ DependsOn["test"] = {"analyst"}
  /\ DependsOn["risk"] = {"analyst"}
  /\ DependsOn["synthesis"] = Specialists
  /\ DependsOn["review"] = {"synthesis"}
  BY DEF DependsOn, Agents, Specialists

Ready(placed) == {a \in Agents : DependsOn[a] \subseteq placed}

\* Who can follow each prefix of the plan.
LEMMA ReadySets ==
  /\ Ready({}) = {"analyst"}
  /\ Ready({"analyst"}) = {"analyst"} \cup Specialists
  /\ Ready({"analyst"} \cup Specialists) = {"analyst", "synthesis"} \cup Specialists
  /\ Ready({"analyst", "synthesis"} \cup Specialists) = Agents
  /\ Ready(Agents) = Agents
  <1> USE Dependencies DEF Ready, Agents, Specialists
  <1>1. Ready({}) = {"analyst"}
    OBVIOUS
  <1>2. Ready({"analyst"}) = {"analyst"} \cup Specialists
    OBVIOUS
  <1>3. Ready({"analyst"} \cup Specialists) = {"analyst", "synthesis"} \cup Specialists
    OBVIOUS
  <1>4. Ready({"analyst", "synthesis"} \cup Specialists) = Agents
    OBVIOUS
  <1>5. Ready(Agents) = Agents
    OBVIOUS
  <1> QED BY <1>1, <1>2, <1>3, <1>4, <1>5

\* The recursive function of DelegationPlan is well defined: the table above
\* satisfies its equation.
LEMMA PlacedEquation ==
  Placed = [n \in Nat |-> IF n = 0 THEN {} ELSE {a \in Agents : DependsOn[a] \subseteq Placed[n - 1]}]
  <1> DEFINE F(f) == [n \in Nat |-> IF n = 0 THEN {} ELSE {a \in Agents : DependsOn[a] \subseteq f[n - 1]}]
             table == [n \in Nat |-> PlacedUpTo(n)]
  <1>1. table = F(table)
    <2>1. ASSUME NEW n \in Nat
          PROVE  table[n] = F(table)[n]
      <3>1. CASE n = 0
        BY <3>1 DEF PlacedUpTo
      <3>2. CASE n > 0
        <4>1. table[n - 1] = PlacedUpTo(n - 1)
          BY <3>2
        <4>2. PlacedUpTo(n) = Ready(PlacedUpTo(n - 1))
          BY <3>2, ReadySets DEF PlacedUpTo
        <4> QED BY <3>2, <4>1, <4>2 DEF Ready
      <3> QED BY <3>1, <3>2
    <2> QED BY <2>1
  <1>2. \E f : f = F(f)
    BY <1>1
  <1> HIDE DEF table
  <1> QED BY <1>2 DEF Placed

\* The agents of each planned stage.
LEMMA PlanStages ==
  /\ Stage(0) = {"analyst"} /\ Stage(1) = Specialists
  /\ Stage(2) = {"synthesis"} /\ Stage(3) = {"review"}
  <1>0. Placed[0] = {} /\ \A n \in Nat : Placed[n + 1] = Ready(Placed[n])
    <2>1. Placed[0] = {}
      BY PlacedEquation
    <2>2. ASSUME NEW n \in Nat PROVE Placed[n + 1] = Ready(Placed[n])
      <3>1. n + 1 \in Nat /\ n + 1 # 0 /\ (n + 1) - 1 = n
        OBVIOUS
      <3>2. Placed[n + 1] = {a \in Agents : DependsOn[a] \subseteq Placed[(n + 1) - 1]}
        BY <3>1, PlacedEquation
      <3> QED BY <3>1, <3>2 DEF Ready
    <2> QED BY <2>1, <2>2
  <1>a. /\ Placed[1] = Ready(Placed[0]) /\ Placed[2] = Ready(Placed[1])
        /\ Placed[3] = Ready(Placed[2])
    <2>1. /\ Placed[0 + 1] = Ready(Placed[0]) /\ Placed[1 + 1] = Ready(Placed[1])
          /\ Placed[2 + 1] = Ready(Placed[2])
      BY <1>0
    <2>2. 0 + 1 = 1 /\ 1 + 1 = 2 /\ 2 + 1 = 3
      OBVIOUS
    <2> QED BY <2>1, <2>2
  <1>1. Placed[1] = {"analyst"}
    BY <1>0, <1>a, ReadySets
  <1>2. Placed[2] = {"analyst"} \cup Specialists
    BY <1>a, <1>1, ReadySets
  <1>3. Placed[3] = {"analyst", "synthesis"} \cup Specialists
    BY <1>a, <1>2, ReadySets
  <1>4. \A n \in Nat : Stage(n) = Ready(Placed[n]) \ Placed[n]
    BY DEF Stage, Ready
  <1>5. /\ Stage(0) = Ready({}) \ {} /\ Stage(1) = Ready({"analyst"}) \ {"analyst"}
        /\ Stage(2) = Ready(Placed[2]) \ Placed[2] /\ Stage(3) = Ready(Placed[3]) \ Placed[3]
    BY <1>0, <1>1, <1>4
  <1> QED BY <1>2, <1>3, <1>5, ReadySets DEF Agents, Specialists

=================================================================================
