-------------------------- MODULE PlanCompilerProofs --------------------------
(***************************************************************************)
(* Theorems about PlanCompiler for every set of specifications, whatever   *)
(* agents they name and however these depend on each other.                *)
(*                                                                         *)
(* The inductive invariant has the loop invariant of Kahn's algorithm as   *)
(* its core: every stage so far is all that was ready after those before   *)
(* it, the queue is what is ready now, and a count is the number of an     *)
(* agent's dependencies that are still to be placed.                       *)
(***************************************************************************)
EXTENDS PlanCompiler, DelegationPlanProofs, FiniteSetTheorems, NaturalsInduction,
        WellFoundedInduction

\* The agents of the first k stages, and who can follow some agents.
Past(cut, k) == UNION {cut[j] : j \in 1..k}
Following(s, past) == {a \in s.agents \ past : Deps(s)[a] \subseteq past}

Refused == {"error_spec", "error_cycle", "error_structure", "error_schema"}
Accepted == {"compiled", "validated", "enriched", "planned"}

TypeInv ==
  /\ spec \in Specs
  /\ pc \in {"spec", "sort"} \cup Accepted \cup Refused
  /\ stages \in Seq(SUBSET spec.agents)

KahnInv ==
  /\ queue = Following(spec, Past(stages, Len(stages)))
  /\ \A k \in 1..Len(stages) : stages[k] # {} /\ stages[k] = Following(spec, Past(stages, k - 1))
  /\ \A a \in spec.agents :
       inDegree[a] = Cardinality(Deps(spec)[a] \ Past(stages, Len(stages)))
  /\ DOMAIN inDegree = spec.agents

EndInv ==
  /\ pc = "error_spec" => IllFormed(spec)
  /\ pc = "error_cycle" => queue = {} /\ Past(stages, Len(stages)) # spec.agents
  /\ pc \in Accepted \cup {"error_structure", "error_schema"} =>
       queue = {} /\ Past(stages, Len(stages)) = spec.agents
  /\ pc # "error_structure"
  /\ pc = "error_schema" => ~ SchemasKnown
  /\ pc = "planned" =>
       \A a \in spec.agents : /\ tasks[a].stage \in 1..Len(stages)
                              /\ a \in stages[tasks[a].stage]
                              /\ tasks[a].dependsOn = Deps(spec)[a]

IInv ==
  /\ TypeInv
  /\ pc = "spec" => stages = <<>>
  /\ pc \notin {"spec", "error_spec"} => ~ IllFormed(spec) /\ KahnInv
  /\ EndInv

-------------------------------------------------------------------------------
(* Least numbers, and what lies before a stage *)

\* Every set of natural numbers that has one has a least one.
LEMMA LeastNumber == \A T \in SUBSET Nat : T # {} => \E x \in T : \A y \in T : x <= y
  <1> DEFINE R == OpToRel(<, Nat)
  <1>1. IsWellFoundedOn(R, Nat)
    BY NatLessThanWellFounded
  <1>2. \A x, y \in Nat : y < x => <<y, x>> \in R
    BY DEF OpToRel
  <1> HIDE DEF R
  <1>3. ASSUME NEW T \in SUBSET Nat, T # {} PROVE \E x \in T : \A y \in T : x <= y
    <2>1. PICK x \in T : \A y \in T : ~ (<<y, x>> \in R)
      BY <1>1, <1>3, WFMin
    <2>2. \A y \in T : y \in Nat /\ ~ (y < x)
      BY <1>2, <2>1
    <2> QED BY <2>1, <2>2
  <1> QED BY <1>3

\* Before the first stage there is nobody, and each stage adds its agents.
LEMMA PastGrows ==
  /\ \A cut : Past(cut, 0) = {}
  /\ \A cut : \A k \in Nat : Past(cut, k + 1) = Past(cut, k) \cup cut[k + 1]
  /\ \A cut : \A j, k \in Nat : j <= k => Past(cut, j) \subseteq Past(cut, k)
  <1>1. \A cut : Past(cut, 0) = {}
    BY DEF Past
  <1>2. ASSUME NEW cut, NEW k \in Nat PROVE Past(cut, k + 1) = Past(cut, k) \cup cut[k + 1]
    <2>1. 1..(k + 1) = 1..k \cup {k + 1}
      OBVIOUS
    <2> QED BY <2>1 DEF Past
  <1>3. ASSUME NEW cut, NEW j \in Nat, NEW k \in Nat, j <= k PROVE Past(cut, j) \subseteq Past(cut, k)
    <2>1. 1..j \subseteq 1..k
      BY <1>3
    <2> QED BY <2>1 DEF Past
  <1> QED BY <1>1, <1>2, <1>3

\* A stage appended does not change those before it.
LEMMA PastKept ==
  ASSUME NEW S, NEW cut \in Seq(S), NEW x \in S, NEW k \in 0..Len(cut)
  PROVE  Past(Append(cut, x), k) = Past(cut, k)
  <1>1. \A j \in 1..k : Append(cut, x)[j] = cut[j]
    OBVIOUS
  <1> QED BY <1>1 DEF Past

\* What a well-formed specification says an agent depends on are its agents.
LEMMA DepsAreAgents ==
  ASSUME NEW s \in Specs, ~ IllFormed(s), NEW a \in s.agents
  PROVE  Deps(s)[a] \subseteq s.agents /\ IsFiniteSet(Deps(s)[a])
  <1>1. Deps(s)[a] \subseteq s.agents
    BY DEF Deps, IllFormed
  <1> QED BY <1>1, SpecsAssumption, FS_Subset

\* The agents of the stages so far are agents, what they depend on is among
\* them, and none of them is queued.
LEMMA PastIsClosed ==
  ASSUME TypeInv, ~ IllFormed(spec), KahnInv
  PROVE  /\ \A k \in 0..Len(stages) : Past(stages, k) \subseteq spec.agents
         /\ \A a \in Past(stages, Len(stages)) : Deps(spec)[a] \subseteq Past(stages, Len(stages))
         /\ queue \subseteq spec.agents /\ queue \cap Past(stages, Len(stages)) = {}
         /\ \A a \in queue : Deps(spec)[a] \subseteq Past(stages, Len(stages))
  <1>0. Len(stages) \in Nat
    BY DEF TypeInv
  <1>1. \A k \in 0..Len(stages) : Past(stages, k) \subseteq spec.agents
    BY DEF TypeInv, Past
  <1>2. ASSUME NEW a \in Past(stages, Len(stages))
        PROVE  Deps(spec)[a] \subseteq Past(stages, Len(stages))
    <2>1. PICK k \in 1..Len(stages) : a \in stages[k]
      BY DEF Past
    <2>2. Deps(spec)[a] \subseteq Past(stages, k - 1)
      BY <2>1 DEF KahnInv, Following
    <2>3. k - 1 \in Nat /\ k - 1 <= Len(stages)
      BY <1>0
    <2> QED BY <1>0, <2>2, <2>3, PastGrows
  <1>3. /\ queue \subseteq spec.agents /\ queue \cap Past(stages, Len(stages)) = {}
        /\ \A a \in queue : Deps(spec)[a] \subseteq Past(stages, Len(stages))
    BY DEF KahnInv, Following
  <1> QED BY <1>1, <1>2, <1>3

\* How many agents the stages so far have placed: what plan/compiler.py
\* counts as it goes is the number of agents in its stages, since no agent is
\* in two.
LEMMA VisitedCounts ==
  ASSUME TypeInv, ~ IllFormed(spec), KahnInv
  PROVE  Visited = Cardinality(Past(stages, Len(stages)))
  <1> DEFINE F(f) == [k \in 0..Len(stages) |->
                        IF k = 0 THEN 0 ELSE f[k - 1] + Cardinality(stages[k])]
             total == [k \in 0..Len(stages) |-> Cardinality(Past(stages, k))]
  <1>0. Len(stages) \in Nat /\ spec \in Specs /\ IsFiniteSet(spec.agents)
    BY SpecsAssumption DEF TypeInv
  <1>1. \A k \in 0..Len(stages) :
          IsFiniteSet(Past(stages, k)) /\ Cardinality(Past(stages, k)) \in Nat
    BY <1>0, PastIsClosed, FS_Subset, FS_CardinalityType
  <1>2. ASSUME NEW k \in 1..Len(stages)
        PROVE  Cardinality(Past(stages, k)) = Cardinality(Past(stages, k - 1)) + Cardinality(stages[k])
    <2>1. k - 1 \in Nat /\ (k - 1) + 1 = k /\ k - 1 \in 0..Len(stages) /\ k \in 0..Len(stages)
      BY <1>0
    <2>2. Past(stages, k) = Past(stages, k - 1) \cup stages[k]
      BY <2>1, PastGrows
    <2>3. stages[k] \cap Past(stages, k - 1) = {}
      BY DEF KahnInv, Following
    <2>4. IsFiniteSet(stages[k]) /\ IsFiniteSet(Past(stages, k - 1))
      BY <1>1, <2>1, <2>2, FS_Subset
    <2>5. Cardinality(Past(stages, k - 1) \cap stages[k]) = 0
      BY <2>3, FS_EmptySet
    <2>6. Cardinality(stages[k]) \in Nat /\ Cardinality(Past(stages, k - 1)) \in Nat
      BY <2>4, FS_CardinalityType
    <2>7. Cardinality(Past(stages, k - 1) \cup stages[k])
            = Cardinality(Past(stages, k - 1)) + Cardinality(stages[k])
                - Cardinality(Past(stages, k - 1) \cap stages[k])
      BY <2>4, FS_Union
    <2> QED BY <2>2, <2>5, <2>6, <2>7
  <1>3. total = F(total)
    <2>1. ASSUME NEW k \in 0..Len(stages) PROVE total[k] = F(total)[k]
      <3>1. CASE k = 0
        BY <3>1, PastGrows, FS_EmptySet
      <3>2. CASE k # 0
        <4>1. k \in 1..Len(stages) /\ k - 1 \in 0..Len(stages)
          BY <1>0, <3>2
        <4>2. total[k] = total[k - 1] + Cardinality(stages[k])
          BY <1>2, <4>1
        <4> QED BY <3>2, <4>2
      <3> QED BY <3>1, <3>2
    <2> QED BY <2>1
  <1>4. PICK cards : cards = F(cards) /\ Visited = cards[Len(stages)]
    <2>1. \E f : f = F(f)
      BY <1>3
    <2> HIDE DEF total
    <2> QED BY <2>1 DEF Visited
  <1>5. ASSUME NEW k \in 0..Len(stages), cards[k] # total[k] PROVE FALSE
    <2> DEFINE T == {j \in 0..Len(stages) : cards[j] # total[j]}
    <2>1. T \in SUBSET Nat /\ T # {}
      BY <1>5
    <2>2. PICK j \in T : \A i \in T : j <= i
      BY <2>1, LeastNumber
    <2>3. cards[j] = F(cards)[j] /\ total[j] = F(total)[j]
      BY <1>3, <1>4
    <2>4. CASE j = 0
      BY <2>2, <2>3, <2>4
    <2>5. CASE j # 0
      <3>1. j - 1 \in 0..Len(stages) /\ ~ (j <= j - 1)
        BY <1>0, <2>2, <2>5
      <3>2. cards[j - 1] = total[j - 1]
        BY <2>2, <3>1
      <3>3. cards[j] = cards[j - 1] + Cardinality(stages[j])
            /\ total[j] = total[j - 1] + Cardinality(stages[j])
        BY <2>2, <2>3, <2>5
      <3> QED BY <2>2, <3>2, <3>3
    <2> QED BY <2>4, <2>5
  <1> QED BY <1>0, <1>4, <1>5

-------------------------------------------------------------------------------
(* The initial state and the steps *)

\* Nothing is placed and nothing is counted at first.
LEMMA Start == Init => IInv
  <1> SUFFICES ASSUME Init PROVE IInv
    OBVIOUS
  <1>1. TypeInv
    BY DEF Init, TypeInv
  <1>2. EndInv
    BY DEF Init, EndInv, Accepted
  <1> QED BY <1>1, <1>2 DEF Init, IInv

\* compile() refuses a specification before it touches it.
LEMMA SpecRefused == ASSUME IInv, RefuseSpec PROVE IInv'
  <1>1. TypeInv'
    BY DEF IInv, RefuseSpec, TypeInv, Refused
  <1>2. EndInv'
    BY DEF RefuseSpec, EndInv, Accepted, IllFormed
  <1> QED BY <1>1, <1>2 DEF RefuseSpec, IInv

\* The counts start at the number of dependencies, and the agents without
\* any are queued.
LEMMA DependenciesCounted == ASSUME IInv, CountDependencies PROVE IInv'
  <1> USE DEF CountDependencies
  <1>0. /\ spec \in Specs /\ ~ IllFormed(spec) /\ stages = <<>> /\ Len(stages) = 0
        /\ pc' = "sort" /\ spec' = spec /\ stages' = stages
    BY DEF IInv, TypeInv
  <1>1. TypeInv'
    BY <1>0 DEF IInv, TypeInv
  <1>2. EndInv'
    BY <1>0 DEF EndInv, Accepted
  <1>3. Past(stages, 0) = {}
    BY PastGrows
  <1>4. queue' = Following(spec, Past(stages, 0))
    <2>1. \A a \in spec.agents : Cardinality(Deps(spec)[a]) = 0 <=> Deps(spec)[a] = {}
      BY <1>0, DepsAreAgents, FS_EmptySet
    <2> QED BY <1>3, <2>1 DEF Following
  <1>5. /\ \A a \in spec.agents : inDegree'[a] = Cardinality(Deps(spec)[a] \ Past(stages, 0))
        /\ DOMAIN inDegree' = spec.agents
    <2>1. \A a \in spec.agents : Deps(spec)[a] \ Past(stages, 0) = Deps(spec)[a]
      BY <1>3
    <2> QED BY <2>1
  <1>6. KahnInv'
    <2>1. Len(stages') = 0 /\ 1..Len(stages') = {}
      BY <1>0
    <2>2. queue' = Following(spec', Past(stages', Len(stages')))
      BY <1>0, <1>4, <2>1
    <2>3. \A a \in spec'.agents :
            inDegree'[a] = Cardinality(Deps(spec')[a] \ Past(stages', Len(stages')))
      BY <1>0, <1>5, <2>1
    <2>4. DOMAIN inDegree' = spec'.agents
      BY <1>0, <1>5
    <2> QED BY <2>1, <2>2, <2>3, <2>4 DEF KahnInv
  <1> QED BY <1>0, <1>1, <1>2, <1>6 DEF IInv

\* A cut makes the queue a stage.  An agent is queued next exactly when the
\* cut placed the last of its dependencies.
LEMMA StageCut == ASSUME IInv, CutStage PROVE IInv'
  <1> DEFINE n == Len(stages)
             P == Past(stages, n)
             D(a) == Deps(spec)[a]
  <1>0. /\ TypeInv /\ ~ IllFormed(spec) /\ KahnInv /\ spec \in Specs /\ n \in Nat
        /\ stages \in Seq(SUBSET spec.agents)
        /\ pc = "sort" /\ pc' = "sort" /\ spec' = spec
        /\ queue # {} /\ queue = Following(spec, P) /\ stages' = Append(stages, queue)
    BY DEF CutStage, IInv, TypeInv, KahnInv
  <1>1. /\ queue \subseteq spec.agents /\ queue \cap P = {}
        /\ \A a \in P \cup queue : D(a) \subseteq P
    BY <1>0, PastIsClosed
  <1>2. stages' \in Seq(SUBSET spec.agents) /\ Len(stages') = n + 1 /\ stages'[n + 1] = queue
        /\ \A k \in 1..n : stages'[k] = stages[k]
    BY <1>0, <1>1
  <1>3. \A k \in 0..n : Past(stages', k) = Past(stages, k)
    BY <1>0, <1>1, PastKept
  <1>4. Past(stages', n + 1) = P \cup queue
    <2>1. Past(stages', n + 1) = Past(stages', n) \cup stages'[n + 1]
      BY <1>0, PastGrows
    <2> QED BY <1>0, <1>2, <1>3, <2>1
  <1>5. TypeInv'
    BY <1>0, <1>2 DEF TypeInv
  <1>6. EndInv'
    BY <1>0 DEF EndInv, Accepted
  <1>7. inDegree' = [a \in spec.agents |-> inDegree[a] - Cardinality(D(a) \cap queue)]
        /\ queue' = {a \in spec.agents : D(a) \cap queue # {} /\ inDegree'[a] = 0}
    BY DEF CutStage
  <1>8. ASSUME NEW a \in spec.agents
        PROVE  inDegree'[a] = Cardinality(D(a) \ (P \cup queue))
    <2>1. IsFiniteSet(D(a) \ P)
      BY <1>0, DepsAreAgents, FS_Subset
    <2>2. Cardinality((D(a) \ P) \ queue)
            = Cardinality(D(a) \ P) - Cardinality((D(a) \ P) \cap queue)
      BY <2>1, FS_Difference
    <2>3. (D(a) \ P) \ queue = D(a) \ (P \cup queue) /\ (D(a) \ P) \cap queue = D(a) \cap queue
      BY <1>1
    <2>4. inDegree[a] = Cardinality(D(a) \ P)
      BY <1>0 DEF KahnInv
    <2> QED BY <1>7, <2>2, <2>3, <2>4
  <1>9. ASSUME NEW a \in spec.agents
        PROVE  inDegree'[a] = 0 <=> D(a) \subseteq P \cup queue
    <2>1. IsFiniteSet(D(a) \ (P \cup queue))
      BY <1>0, DepsAreAgents, FS_Subset
    <2>2. Cardinality(D(a) \ (P \cup queue)) = 0 <=> D(a) \ (P \cup queue) = {}
      BY <2>1, FS_EmptySet
    <2> QED BY <1>8, <2>2
  <1>10. queue' = Following(spec, P \cup queue)
    <2>1. ASSUME NEW a \in spec.agents, D(a) \subseteq P \cup queue
          PROVE  D(a) \cap queue # {} <=> a \notin P \cup queue
      BY <1>0, <1>1, <2>1 DEF Following
    <2> QED BY <1>7, <1>9, <2>1 DEF Following
  <1>11. KahnInv'
    <2>1. queue' = Following(spec', Past(stages', Len(stages')))
      BY <1>0, <1>2, <1>4, <1>10
    <2>2. ASSUME NEW k \in 1..Len(stages')
          PROVE  stages'[k] # {} /\ stages'[k] = Following(spec', Past(stages', k - 1))
      <3>1. CASE k \in 1..n
        <4>1. k - 1 \in 0..n
          BY <1>0, <3>1
        <4> QED BY <1>0, <1>2, <1>3, <3>1, <4>1 DEF KahnInv
      <3>2. CASE k = n + 1
        <4>1. k - 1 = n /\ n \in 0..n
          BY <1>0, <3>2
        <4> QED BY <1>0, <1>2, <1>3, <3>2, <4>1
      <3> QED BY <1>0, <1>2, <3>1, <3>2
    <2>3. \A a \in spec'.agents :
            inDegree'[a] = Cardinality(Deps(spec')[a] \ Past(stages', Len(stages')))
      BY <1>0, <1>2, <1>4, <1>8
    <2>4. DOMAIN inDegree' = spec'.agents
      BY <1>0, <1>7
    <2> QED BY <2>1, <2>2, <2>3, <2>4 DEF KahnInv
  <1> QED BY <1>0, <1>5, <1>6, <1>11 DEF IInv

\* Agents that were not placed when the queue ran empty wait for each other.
LEMMA CycleRefused == ASSUME IInv, RefuseCycle PROVE IInv'
  <1>0. /\ TypeInv /\ ~ IllFormed(spec) /\ KahnInv /\ queue = {}
        /\ Visited # Cardinality(spec.agents) /\ pc' = "error_cycle"
        /\ UNCHANGED <<spec, inDegree, queue, stages, plan>>
    BY DEF IInv, RefuseCycle
  <1>1. Past(stages, Len(stages)) # spec.agents
    BY <1>0, VisitedCounts
  <1>2. TypeInv'
    BY <1>0 DEF TypeInv, Refused
  <1>3. EndInv'
    BY <1>0, <1>1 DEF EndInv, Accepted
  <1>4. KahnInv'
    BY <1>0 DEF KahnInv
  <1> QED BY <1>0, <1>2, <1>3, <1>4 DEF IInv

\* As many placed agents as there are agents are all of them.
LEMMA AllPlaced == ASSUME IInv, Compiled PROVE IInv'
  <1>0. /\ TypeInv /\ ~ IllFormed(spec) /\ KahnInv /\ queue = {} /\ spec \in Specs
        /\ Visited = Cardinality(spec.agents) /\ pc' = "compiled"
        /\ UNCHANGED <<spec, inDegree, queue, stages, plan>>
    BY DEF IInv, Compiled, TypeInv
  <1>1. Past(stages, Len(stages)) = spec.agents
    <2>1. Past(stages, Len(stages)) \in SUBSET spec.agents
      <3>1. Len(stages) \in 0..Len(stages)
        BY <1>0 DEF TypeInv
      <3> QED BY <1>0, <3>1, PastIsClosed
    <2>2. Cardinality(Past(stages, Len(stages))) = Cardinality(spec.agents)
      BY <1>0, VisitedCounts
    <2> QED BY <1>0, <2>1, <2>2, SpecsAssumption, FS_Subset
  <1>2. TypeInv'
    BY <1>0 DEF TypeInv, Accepted
  <1>3. EndInv'
    BY <1>0, <1>1 DEF EndInv, Accepted
  <1>4. KahnInv'
    BY <1>0 DEF KahnInv
  <1> QED BY <1>0, <1>2, <1>3, <1>4 DEF IInv

\* No agent is in two stages, and none shares a stage with what it depends on.
LEMMA StagesApart ==
  ASSUME TypeInv, ~ IllFormed(spec), KahnInv
  PROVE  /\ \A j, k \in 1..Len(stages) : j # k => stages[j] \cap stages[k] = {}
         /\ \A k \in 1..Len(stages) : \A a \in stages[k] :
              a \in spec.agents /\ Deps(spec)[a] \subseteq Past(stages, k - 1)
         /\ \A k \in 1..Len(stages) : stages[k] \cap Past(stages, k - 1) = {}
  <1>0. Len(stages) \in Nat
    BY DEF TypeInv
  <1>1. \A k \in 1..Len(stages) : stages[k] = Following(spec, Past(stages, k - 1))
    BY DEF KahnInv
  <1>2. ASSUME NEW j \in 1..Len(stages), NEW k \in 1..Len(stages), j < k
        PROVE  stages[j] \cap stages[k] = {}
    <2>1. j \in 1..(k - 1)
      BY <1>0, <1>2
    <2>2. stages[j] \subseteq Past(stages, k - 1)
      BY <2>1 DEF Past
    <2> QED BY <1>1, <2>2 DEF Following
  <1>3. ASSUME NEW j \in 1..Len(stages), NEW k \in 1..Len(stages), j # k
        PROVE  stages[j] \cap stages[k] = {}
    <2>1. j < k \/ k < j
      BY <1>0, <1>3
    <2> QED BY <1>2, <2>1
  <1>4. \A k \in 1..Len(stages) : stages[k] \cap Past(stages, k - 1) = {}
    BY <1>1 DEF Following
  <1>5. \A k \in 1..Len(stages) : \A a \in stages[k] :
          a \in spec.agents /\ Deps(spec)[a] \subseteq Past(stages, k - 1)
    BY <1>1 DEF Following
  <1> QED BY <1>3, <1>4, <1>5

\* What the compiler accepts passes the validator's structural checks.
LEMMA Validated == ASSUME IInv, Validate PROVE IInv'
  <1>0. /\ TypeInv /\ ~ IllFormed(spec) /\ KahnInv /\ queue = {} /\ spec \in Specs
        /\ Past(stages, Len(stages)) = spec.agents
        /\ UNCHANGED <<spec, inDegree, queue, stages, plan>>
    BY DEF IInv, Validate, TypeInv, EndInv, Accepted
  <1>1. UNION Placement = spec.agents
    BY <1>0 DEF Placement, Past
  <1>2. \A j, k \in 1..Len(stages) : j # k => stages[j] \cap stages[k] = {}
    BY <1>0, StagesApart
  <1>3. ASSUME NEW i \in 1..Len(spec.entries), NEW k \in 1..Len(stages),
               spec.entries[i].agent \in stages[k]
        PROVE  spec.entries[i].on \cap stages[k] = {}
    <2>1. /\ spec.entries[i].agent \in spec.agents
          /\ Deps(spec)[spec.entries[i].agent] \subseteq Past(stages, k - 1)
          /\ stages[k] \cap Past(stages, k - 1) = {}
      BY <1>0, <1>3, StagesApart
    <2>2. spec.entries[i].on \subseteq Deps(spec)[spec.entries[i].agent]
      BY <2>1 DEF Deps
    <2> QED BY <2>1, <2>2
  <1>4. StructureValid
    BY <1>1, <1>2, <1>3 DEF StructureValid, Placement
  <1>5. pc' = "validated" \/ (pc' = "error_schema" /\ ~ SchemasKnown)
    BY <1>4 DEF Validate
  <1>6. TypeInv'
    BY <1>0, <1>5 DEF TypeInv, Accepted, Refused
  <1>7. EndInv'
    BY <1>0, <1>5 DEF EndInv, Accepted, SchemasKnown
  <1>8. KahnInv'
    BY <1>0 DEF KahnInv
  <1> QED BY <1>0, <1>5, <1>6, <1>7, <1>8 DEF IInv

\* The briefs do not touch the stages.
LEMMA Enriched == ASSUME IInv, Enrich PROVE IInv'
  <1>0. /\ TypeInv /\ ~ IllFormed(spec) /\ KahnInv /\ queue = {}
        /\ Past(stages, Len(stages)) = spec.agents
        /\ UNCHANGED <<spec, inDegree, queue, stages, tasks>> /\ pc' = "enriched"
    BY DEF IInv, Enrich, TypeInv, EndInv, Accepted
  <1>1. TypeInv'
    BY <1>0 DEF TypeInv, Accepted
  <1>2. EndInv'
    BY <1>0 DEF EndInv, Accepted
  <1>3. KahnInv'
    BY <1>0 DEF KahnInv
  <1> QED BY <1>0, <1>1, <1>2, <1>3 DEF IInv

\* Every agent's task says a stage it is in.
LEMMA Bound == ASSUME IInv, Bind PROVE IInv'
  <1>0. /\ TypeInv /\ ~ IllFormed(spec) /\ KahnInv /\ queue = {}
        /\ Past(stages, Len(stages)) = spec.agents
        /\ UNCHANGED <<spec, inDegree, queue, stages, briefs>> /\ pc' = "planned"
        /\ tasks' = [a \in spec.agents |-> Task(a)]
    BY DEF IInv, Bind, TypeInv, EndInv, Accepted
  <1>1. TypeInv'
    BY <1>0 DEF TypeInv, Accepted
  <1>2. ASSUME NEW a \in spec.agents
        PROVE  /\ tasks'[a].stage \in 1..Len(stages) /\ a \in stages[tasks'[a].stage]
               /\ tasks'[a].dependsOn = Deps(spec)[a]
    <2>1. \E k \in 1..Len(stages) : a \in stages[k]
      BY <1>0 DEF Past
    <2>2. tasks'[a].stage = (CHOOSE k \in 1..Len(stages) : a \in stages[k])
          /\ tasks'[a].dependsOn = Deps(spec)[a]
      BY <1>0 DEF Task
    <2> HIDE <1>0
    <2> QED BY <2>1, <2>2
  <1>3. EndInv'
    BY <1>0, <1>2 DEF EndInv, Accepted
  <1>4. KahnInv'
    BY <1>0 DEF KahnInv
  <1> QED BY <1>0, <1>1, <1>3, <1>4 DEF IInv

\* Planning keeps the loop invariant of the sort, whatever it is asked to
\* plan (coordinator/coordinator.py:plan).
THEOREM Invariance == Spec => []IInv
  <1>1. Init => IInv
    BY Start
  <1>2. IInv /\ [Next]_vars => IInv'
    <2>1. IInv /\ UNCHANGED vars => IInv'
      BY DEF vars, plan, IInv, TypeInv, KahnInv, EndInv, SchemasKnown
    <2> QED BY <2>1, SpecRefused, DependenciesCounted, StageCut, CycleRefused, AllPlaced,
               Validated, Enriched, Bound DEF Next
  <1> QED BY <1>1, <1>2, PTL DEF Spec

-------------------------------------------------------------------------------
(* Cycles *)

\* A compiled set of agents has no cycle: the earliest placed of some agents
\* that wait for each other would not have been ready.
LEMMA NoCycleInStages ==
  ASSUME TypeInv, ~ IllFormed(spec), KahnInv, Past(stages, Len(stages)) = spec.agents
  PROVE  ~ Cyclic(spec)
  <1> SUFFICES ASSUME NEW c \in (SUBSET spec.agents) \ {{}},
                      \A a \in c : Deps(spec)[a] \cap c # {}
               PROVE  FALSE
    BY DEF Cyclic
  <1> DEFINE T == {k \in 1..Len(stages) : stages[k] \cap c # {}}
  <1>0. Len(stages) \in Nat
    BY DEF TypeInv
  <1>1. T \in SUBSET Nat /\ T # {}
    BY <1>0 DEF Past
  <1>2. PICK k \in T : \A j \in T : k <= j
    BY <1>1, LeastNumber
  <1>3. PICK a \in stages[k] \cap c : TRUE
    BY <1>2
  <1>4. PICK b \in Deps(spec)[a] : b \in c
    BY <1>3
  <1>5. Deps(spec)[a] \subseteq Past(stages, k - 1)
    BY <1>2, <1>3, StagesApart
  <1>6. PICK j \in 1..(k - 1) : b \in stages[j]
    BY <1>4, <1>5 DEF Past
  <1>7. j \in T /\ ~ (k <= j)
    BY <1>0, <1>2, <1>4, <1>6
  <1> QED BY <1>2, <1>7

\* The agents that are not placed when nobody is ready are a cycle.
LEMMA UnplacedIsCycle ==
  ASSUME TypeInv, ~ IllFormed(spec), KahnInv, queue = {},
         Past(stages, Len(stages)) # spec.agents
  PROVE  Cyclic(spec)
  <1> DEFINE c == spec.agents \ Past(stages, Len(stages))
  <1>0. Len(stages) \in Nat /\ spec \in Specs
    BY DEF TypeInv
  <1>1. Past(stages, Len(stages)) \subseteq spec.agents
    BY <1>0, PastIsClosed
  <1>2. c \in (SUBSET spec.agents) \ {{}}
    BY <1>1
  <1>3. ASSUME NEW a \in c PROVE Deps(spec)[a] \cap c # {}
    <2>1. Deps(spec)[a] \subseteq spec.agents
      BY <1>0, DepsAreAgents
    <2>2. a \notin Following(spec, Past(stages, Len(stages)))
      BY DEF KahnInv
    <2> QED BY <2>1, <2>2 DEF Following
  <1> HIDE DEF c
  <1> QED BY <1>2, <1>3 DEF Cyclic

\* The planner's topology: its entries say what DependsOn says, each once.
LEMMA PlannedTopology ==
  /\ Planned.agents = Agents /\ \A a \in Agents : Deps(Planned)[a] = DependsOn[a]
  /\ ~ IllFormed(Planned)
  <1>1. /\ Planned.agents = Agents /\ Len(Planned.entries) = 6
        /\ \A i \in 1..6 : /\ Planned.entries[i].agent = PlannedOrder[i]
                           /\ Planned.entries[i].on = DependsOn[PlannedOrder[i]]
    BY DEF Planned
  <1>2. /\ PlannedOrder[1] = "design" /\ PlannedOrder[2] = "test" /\ PlannedOrder[3] = "risk"
        /\ PlannedOrder[4] = "synthesis" /\ PlannedOrder[5] = "review"
        /\ PlannedOrder[6] = "analyst"
    BY DEF PlannedOrder
  <1>3. /\ \A i \in 1..6 : PlannedOrder[i] \in Agents
        /\ \A i, j \in 1..6 : PlannedOrder[i] = PlannedOrder[j] => i = j
        /\ \A a \in Agents : \E i \in 1..6 : PlannedOrder[i] = a
    BY <1>2 DEF Agents
  <1>4. \A a \in Agents : DependsOn[a] \subseteq Agents
    BY Dependencies DEF Agents, Specialists
  <1>5. ASSUME NEW a \in Agents PROVE Deps(Planned)[a] = DependsOn[a]
    <2>1. Deps(Planned)[a]
            = UNION {Planned.entries[i].on : i \in {j \in 1..6 : Planned.entries[j].agent = a}}
      BY <1>1 DEF Deps
    <2>2. PICK n \in 1..6 : PlannedOrder[n] = a
      BY <1>3
    <2>3. {j \in 1..6 : Planned.entries[j].agent = a} = {n}
      BY <1>1, <1>3, <2>2
    <2>4. Planned.entries[n].on = DependsOn[a]
      BY <1>1, <2>2
    <2> QED BY <2>1, <2>3, <2>4
  <1>6. ~ IllFormed(Planned)
    BY <1>1, <1>3, <1>4 DEF IllFormed
  <1> QED BY <1>1, <1>5, <1>6

\* Nobody in the planner's topology waits for himself.
LEMMA PlannedIsAcyclic == ~ Cyclic(Planned)
  <1> SUFFICES ASSUME NEW c \in (SUBSET Agents) \ {{}},
                      \A a \in c : DependsOn[a] \cap c # {}
               PROVE  FALSE
    BY PlannedTopology DEF Cyclic
  <1>1. "analyst" \notin c
    BY Dependencies
  <1>2. c \cap Specialists = {}
    BY <1>1, Dependencies DEF Specialists
  <1>3. "synthesis" \notin c
    BY <1>2, Dependencies
  <1>4. "review" \notin c
    BY <1>3, Dependencies
  <1> QED BY <1>1, <1>2, <1>3, <1>4 DEF Agents, Specialists

\* The state predicate of the first theorem.
LEMMA CyclesDecided == IInv => CyclesRejected
  <1> SUFFICES ASSUME IInv PROVE CyclesRejected
    OBVIOUS
  <1>0. TypeInv /\ EndInv
    BY DEF IInv
  <1>1. pc = "error_cycle" => Cyclic(spec)
    BY <1>0, UnplacedIsCycle DEF IInv, EndInv
  <1>2. pc \in {"compiled", "validated", "enriched", "planned"} => ~ Cyclic(spec)
    BY <1>0, NoCycleInStages DEF IInv, EndInv, Accepted
  <1>3. pc # "error_structure"
    BY <1>0 DEF EndInv
  <1>4. ASSUME spec = Planned
        PROVE  pc # "error_spec" /\ pc # "error_cycle" /\ pc # "error_schema"
    <2>1. pc # "error_spec"
      BY <1>0, <1>4, PlannedTopology DEF EndInv
    <2>2. pc # "error_cycle"
      BY <1>1, <1>4, PlannedIsAcyclic
    <2>3. SchemasKnown
      BY <1>4, PlannedTopology DEF SchemasKnown, Registered
    <2> QED BY <1>0, <2>1, <2>2, <2>3 DEF EndInv
  <1> QED BY <1>1, <1>2, <1>3, <1>4 DEF CyclesRejected

\* The compiler, which only counts what it placed, refuses a specification
\* for a cycle exactly when it has one; the validator never disagrees with
\* the compiler; and the planner's topology always gets through
\* (plan/compiler.py, plan/validator.py).
THEOREM CyclesAreRefused == Spec => []CyclesRejected
  BY Invariance, CyclesDecided, PTL

-------------------------------------------------------------------------------
(* Stages *)

\* An agent's task is one stage after the last of its dependencies'.
LEMMA TasksAreLevelled ==
  ASSUME IInv, pc = "planned", NEW a \in spec.agents
  PROVE  /\ \A b \in tasks[a].dependsOn : tasks[b].stage < tasks[a].stage
         /\ tasks[a].stage > 1 =>
              \E b \in tasks[a].dependsOn : tasks[b].stage = tasks[a].stage - 1
  <1> DEFINE n == Len(stages)
             k == tasks[a].stage
  <1>0. /\ TypeInv /\ ~ IllFormed(spec) /\ KahnInv /\ n \in Nat
        /\ Past(stages, n) = spec.agents /\ spec \in Specs
    BY DEF IInv, EndInv, TypeInv, Accepted
  <1>1. \A b \in spec.agents : /\ tasks[b].stage \in 1..n /\ b \in stages[tasks[b].stage]
                               /\ tasks[b].dependsOn = Deps(spec)[b]
    BY DEF IInv, EndInv
  <1>2. \A b \in spec.agents : \A j \in 1..n : b \in stages[j] => tasks[b].stage = j
    BY <1>0, <1>1, StagesApart
  <1>3. Deps(spec)[a] \subseteq Past(stages, k - 1) /\ Deps(spec)[a] \subseteq spec.agents
    BY <1>0, <1>1, StagesApart, DepsAreAgents
  <1>4. ASSUME NEW b \in Deps(spec)[a] PROVE tasks[b].stage \in 1..(k - 1)
    <2>1. PICK j \in 1..(k - 1) : b \in stages[j]
      BY <1>3 DEF Past
    <2>2. j \in 1..n
      BY <1>0, <1>1, <2>1
    <2> QED BY <1>2, <1>3, <2>1, <2>2
  <1>5. ASSUME k > 1, \A b \in Deps(spec)[a] : tasks[b].stage # k - 1
        PROVE  FALSE
    <2>0. k \in 1..n /\ k - 1 \in 1..n
      BY <1>0, <1>1, <1>5
    <2>1. ASSUME NEW b \in Deps(spec)[a] PROVE b \in Past(stages, (k - 1) - 1)
      <3>1. tasks[b].stage \in 1..((k - 1) - 1)
        BY <1>4, <1>5, <2>0
      <3>2. b \in stages[tasks[b].stage]
        BY <1>1, <1>3
      <3> QED BY <3>1, <3>2 DEF Past
    <2>2. a \notin Past(stages, (k - 1) - 1)
      <3>1. a \notin Past(stages, k - 1)
        BY <1>0, <1>1, StagesApart
      <3>2. (k - 1) - 1 \in Nat /\ k - 1 \in Nat /\ (k - 1) - 1 <= k - 1
        BY <2>0
      <3>3. Past(stages, (k - 1) - 1) \subseteq Past(stages, k - 1)
        BY <3>2, PastGrows
      <3> QED BY <3>1, <3>3
    <2>3. a \in stages[k - 1]
      BY <1>0, <2>0, <2>1, <2>2 DEF KahnInv, Following
    <2> QED BY <1>2, <2>0, <2>3
  <1> QED BY <1>0, <1>1, <1>4, <1>5

\* The planner's topology is cut into its four stages.
LEMMA PlannedStages ==
  ASSUME TypeInv, KahnInv, spec = Planned, Past(stages, Len(stages)) = spec.agents
  PROVE  Len(stages) = 4 /\ \A k \in 1..4 : stages[k] = Stage(k - 1)
  <1> DEFINE n == Len(stages)
  <1>0. n \in Nat /\ Past(stages, n) = Agents
    BY PlannedTopology DEF TypeInv
  <1>1. \A past : Following(spec, past) = Ready(past) \ past
    BY PlannedTopology DEF Following, Ready
  <1>2. \A k \in 1..n : stages[k] # {} /\ stages[k] = Ready(Past(stages, k - 1)) \ Past(stages, k - 1)
    BY <1>1 DEF KahnInv
  <1>3. /\ Past(stages, 0) = {} /\ Past(stages, 1) = Past(stages, 0) \cup stages[1]
        /\ Past(stages, 2) = Past(stages, 1) \cup stages[2]
        /\ Past(stages, 3) = Past(stages, 2) \cup stages[3]
        /\ Past(stages, 4) = Past(stages, 3) \cup stages[4]
    <2>1. 0 + 1 = 1 /\ 1 + 1 = 2 /\ 2 + 1 = 3 /\ 3 + 1 = 4
      OBVIOUS
    <2> QED BY <2>1, PastGrows
  <1> DEFINE S1 == {"analyst"}
             S3 == {"synthesis"}
             S4 == {"review"}
             P2 == S1 \cup Specialists
             P3 == {"analyst", "synthesis"} \cup Specialists
  <1>35. \A past : past = {} => Ready(past) \ past = S1 /\ past \cup S1 = S1
    BY ReadySets
  <1>36. Ready(S1) \ S1 = Specialists /\ S1 \cup Specialists = P2
    BY ReadySets DEF Specialists
  <1>37. Ready(P2) \ P2 = S3 /\ P2 \cup S3 = P3
    BY ReadySets DEF Specialists
  <1>38. Ready(P3) \ P3 = S4 /\ P3 \cup S4 = Agents
    BY ReadySets DEF Specialists, Agents
  <1>39. Ready(Agents) \ Agents = {}
    BY ReadySets
  <1>32. Agents # {} /\ Agents # S1 /\ Agents # P2 /\ Agents # P3
    <2>1. "review" \in Agents /\ "review" \notin S1
      BY DEF Agents
    <2>2. "review" \notin P2 /\ "review" \notin P3
      BY DEF Specialists
    <2> HIDE DEF S1, P2, P3
    <2> QED BY <2>1, <2>2
  <1>33. stages[1] = S1 /\ stages[2] = Specialists /\ stages[3] = S3 /\ stages[4] = S4 =>
          \A k \in 1..4 : stages[k] = Stage(k - 1)
    <2>1. S1 = Stage(0) /\ Specialists = Stage(1) /\ S3 = Stage(2) /\ S4 = Stage(3)
      BY PlanStages
    <2> HIDE DEF S1, S3, S4
    <2>2. SUFFICES ASSUME stages[1] = S1 /\ stages[2] = Specialists /\ stages[3] = S3 /\ stages[4] = S4,
                          NEW k \in 1..4
                   PROVE  stages[k] = Stage(k - 1)
      OBVIOUS
    <2>3. k = 1 \/ k = 2 \/ k = 3 \/ k = 4
      OBVIOUS
    <2>4. 1 - 1 = 0 /\ 2 - 1 = 1 /\ 3 - 1 = 2 /\ 4 - 1 = 3
      OBVIOUS
    <2> QED BY <2>1, <2>2, <2>3, <2>4
  <1>34. n \in Nat
    BY <1>0
  <1> HIDE DEF n, S1, S3, S4, P2, P3
  <1>4. n >= 1 /\ stages[1] = S1 /\ Past(stages, 1) = S1
    <2>1. n # 0
      BY <1>0, <1>3, <1>32
    <2>2. 1 \in 1..n /\ 1 - 1 = 0
      BY <1>34, <2>1
    <2>3. stages[1] = Ready(Past(stages, 0)) \ Past(stages, 0)
      BY <1>2, <2>2
    <2>4. n >= 1
      BY <1>34, <2>2
    <2>5. Past(stages, 0) = {} /\ Past(stages, 1) = Past(stages, 0) \cup stages[1]
      BY <1>3
    <2>6. Ready(Past(stages, 0)) \ Past(stages, 0) = S1 /\ Past(stages, 0) \cup S1 = S1
      BY <1>35, <2>5
    <2>7. stages[1] = S1
      BY <2>3, <2>6
    <2>8. Past(stages, 1) = S1
      BY <2>5, <2>6, <2>7
    <2> QED BY <2>4, <2>7, <2>8
  <1>5. n >= 2 /\ stages[2] = Specialists /\ Past(stages, 2) = P2
    <2>1. n # 1
      BY <1>0, <1>4, <1>32
    <2>0. n >= 1
      BY <1>4
    <2>2. 2 \in 1..n /\ 2 - 1 = 1
      BY <1>34, <2>0, <2>1
    <2>3. stages[2] = Ready(Past(stages, 1)) \ Past(stages, 1)
      BY <1>2, <2>2
    <2>4. n >= 2
      BY <1>34, <2>2
    <2>5. Past(stages, 1) = S1 /\ Past(stages, 2) = Past(stages, 1) \cup stages[2]
      BY <1>3, <1>4
    <2>6. /\ Ready(Past(stages, 1)) \ Past(stages, 1) = Specialists
          /\ Past(stages, 1) \cup Specialists = P2
      BY <1>36, <2>5
    <2>7. stages[2] = Specialists
      BY <2>3, <2>6
    <2>8. Past(stages, 2) = P2
      BY <2>5, <2>6, <2>7
    <2> QED BY <2>4, <2>7, <2>8
  <1>6. n >= 3 /\ stages[3] = S3 /\ Past(stages, 3) = P3
    <2>1. n # 2
      BY <1>0, <1>5, <1>32
    <2>0. n >= 2
      BY <1>5
    <2>2. 3 \in 1..n /\ 3 - 1 = 2
      BY <1>34, <2>0, <2>1
    <2>3. stages[3] = Ready(Past(stages, 2)) \ Past(stages, 2)
      BY <1>2, <2>2
    <2>4. n >= 3
      BY <1>34, <2>2
    <2>5. Past(stages, 2) = P2 /\ Past(stages, 3) = Past(stages, 2) \cup stages[3]
      BY <1>3, <1>5
    <2>6. /\ Ready(Past(stages, 2)) \ Past(stages, 2) = S3
          /\ Past(stages, 2) \cup S3 = P3
      BY <1>37, <2>5
    <2>7. stages[3] = S3
      BY <2>3, <2>6
    <2>8. Past(stages, 3) = P3
      BY <2>5, <2>6, <2>7
    <2> QED BY <2>4, <2>7, <2>8
  <1>7. n >= 4 /\ stages[4] = S4 /\ Past(stages, 4) = Agents
    <2>1. n # 3
      BY <1>0, <1>6, <1>32
    <2>0. n >= 3
      BY <1>6
    <2>2. 4 \in 1..n /\ 4 - 1 = 3
      BY <1>34, <2>0, <2>1
    <2>3. stages[4] = Ready(Past(stages, 3)) \ Past(stages, 3)
      BY <1>2, <2>2
    <2>4. n >= 4
      BY <1>34, <2>2
    <2>5. Past(stages, 3) = P3 /\ Past(stages, 4) = Past(stages, 3) \cup stages[4]
      BY <1>3, <1>6
    <2>6. /\ Ready(Past(stages, 3)) \ Past(stages, 3) = S4
          /\ Past(stages, 3) \cup S4 = Agents
      BY <1>38, <2>5
    <2>7. stages[4] = S4
      BY <2>3, <2>6
    <2>8. Past(stages, 4) = Agents
      BY <2>5, <2>6, <2>7
    <2> QED BY <2>4, <2>7, <2>8
  <1>8. n = 4
    <2>1. ASSUME n > 4 PROVE FALSE
      <3>1. 5 \in 1..n /\ 5 - 1 = 4
        BY <1>34, <2>1
      <3>2. stages[5] # {} /\ stages[5] = Ready(Past(stages, 4)) \ Past(stages, 4)
        BY <1>2, <3>1 DEF n
      <3>3. Past(stages, 4) = Agents /\ Ready(Agents) \ Agents = {}
        BY <1>7, <1>39
      <3>4. Ready(Past(stages, 4)) \ Past(stages, 4) = {}
        BY <3>3
      <3> QED BY <3>2, <3>4
    <2>2. n >= 4
      BY <1>7
    <2> QED BY <1>34, <2>1, <2>2
  <1>9. Len(stages) = 4
    BY <1>8 DEF n
  <1> QED BY <1>4, <1>5, <1>6, <1>7, <1>9, <1>33, Zenon

\* In every plan the tasks of a stage are those that could run no earlier,
\* and the planner's topology gets the stages the runner is given
\* (plan/compiler.py, coordinator/coordinator.py:plan).
THEOREM PlansAreLevelled == Spec => []StagesAreLevels
  <1>1. IInv => StagesAreLevels
    <2> SUFFICES ASSUME IInv, pc = "planned" PROVE StagesAreLevels
      BY DEF StagesAreLevels
    <2>1. TypeInv /\ KahnInv /\ Past(stages, Len(stages)) = spec.agents
      BY DEF IInv, EndInv, Accepted
    <2>2. spec = Planned => Len(stages) = 4 /\ \A k \in 1..4 : stages[k] = Stage(k - 1)
      BY <2>1, PlannedStages
    <2> QED BY <2>2, TasksAreLevelled DEF StagesAreLevels
  <1> QED BY <1>1, Invariance, PTL

===============================================================================
