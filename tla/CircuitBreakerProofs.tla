------------------------- MODULE CircuitBreakerProofs -------------------------
(***************************************************************************)
(* Theorems about CircuitBreaker for any set of resources, any finite set  *)
(* of threads and any settings.  The inductive invariant has three parts:  *)
(*   TypeOK       the variables have their types;                          *)
(*   RegistryInv  the registry is finite, within its bound, and gives no   *)
(*                alias twice;                                             *)
(*   CircuitsInv  each circuit is sound: its slots are the calls in flight *)
(*                on it, its state bounds its slots and its count, and an  *)
(*                attempt of its generation was admitted in its state.     *)
(***************************************************************************)
EXTENDS CircuitBreaker, FiniteSetTheorems, WellFoundedInduction, TLAPS

Residents == {k \in Keys : Resident(k)}

RegistryInv ==
  /\ IsFiniteSet(Residents)
  /\ AliasesNameOneResource

\* What must hold of the circuit e of resource k.  An attempt is no newer than
\* its circuit, and one of the same generation finds the state that admitted it.
CircuitSound(k, e) ==
  /\ e.activeCalls = Cardinality(OnKey(k))
  /\ e.activeProbes = Cardinality(ProbesOn(k))
  /\ e.activeProbes <= HalfOpenMaxProbes
  /\ e.state = "OPEN" => e.activeProbes < HalfOpenMaxProbes
  /\ e.state = "CLOSED" => e.activeProbes = 0 /\ e.consecutive < FailureThreshold
  /\ \A c \in OnKey(k) :
       /\ call[c].generation <= e.generation
       /\ call[c].generation = e.generation =>
            e.state = (IF call[c].probe THEN "HALF_OPEN" ELSE "CLOSED")

CircuitsInv ==
  \A k \in Keys : IF Resident(k) THEN CircuitSound(k, registry[k]) ELSE OnKey(k) = {}

IInv == TypeOK /\ RegistryInv /\ CircuitsInv

-------------------------------------------------------------------------------
(* Aliases *)

\* Every set of naturals with a member has a least one.
LEMMA LeastNatural ==
  ASSUME NEW T \in SUBSET Nat, T # {}
  PROVE  \E x \in T : \A y \in T : x <= y
  <1>1. PICK x \in T : \A y \in T : ~ (<<y, x>> \in OpToRel(<, Nat))
    BY NatLessThanWellFounded, WFMin
  <1>2. \A y \in T : ~ (y < x)
    BY <1>1 DEF OpToRel
  <1> QED BY <1>2

\* Fewer residents than aliases leave an alias that no resident uses, and
\* FreeAlias is one.
LEMMA FreeAliasIsFree ==
  ASSUME TypeOK, NEW R \in SUBSET Residents, IsFiniteSet(R), Cardinality(R) < MaxEntries
  PROVE  /\ FreeAlias(R) \in 1..MaxEntries
         /\ \A k \in R : registry[k].alias # FreeAlias(R)
  <1> DEFINE Used(a) == \E k \in R : registry[k].alias = a
             Free == {a \in 1..MaxEntries : ~ Used(a)}
  <1>1. Free # {}
    <2>1. SUFFICES ASSUME \A a \in 1..MaxEntries : Used(a) PROVE FALSE
      BY <2>1
    <2> DEFINE f == [a \in 1..MaxEntries |-> CHOOSE k \in R : registry[k].alias = a]
    <2>2. \A a \in 1..MaxEntries : f[a] \in R /\ registry[f[a]].alias = a
      BY <2>1
    <2>3. f \in [1..MaxEntries -> R]
      BY <2>2
    <2>4. IsFiniteSet(1..MaxEntries) /\ Cardinality(1..MaxEntries) = MaxEntries
      BY FS_Interval, SettingsAssumption
    <2>5. PICK a, b \in 1..MaxEntries : a # b /\ f[a] = f[b]
      <3> HIDE DEF f
      <3> QED BY <2>3, <2>4, FS_PigeonHole
    <2> HIDE DEF f
    <2> QED BY <2>2, <2>5
  <1>2. Free \in SUBSET Nat
    BY SettingsAssumption
  <1>3. PICK a \in Free : \A b \in Free : a <= b
    BY <1>1, <1>2, LeastNatural
  <1>4. \A b \in 1..MaxEntries : b < a => Used(b)
    BY <1>2, <1>3, SettingsAssumption
  <1>5. \E x \in 1..MaxEntries :
          /\ \A k \in R : registry[k].alias # x
          /\ \A b \in 1..MaxEntries : b < x => \E k \in R : registry[k].alias = b
    BY <1>3, <1>4
  <1> QED BY <1>5 DEF FreeAlias

-------------------------------------------------------------------------------
(* Calls in flight *)

\* The calls and the probes on a circuit are finitely many.
LEMMA InFlightFinite ==
  \A k \in Keys : IsFiniteSet(OnKey(k)) /\ IsFiniteSet(ProbesOn(k))
  BY CallersAssumption, FS_Subset DEF OnKey, ProbesOn

\* An attempt that starts adds its thread to its circuit's calls, and to its
\* probes if it is one.
LEMMA Starting ==
  ASSUME TypeOK, NEW c \in Callers, Idle(c), NEW a \in Attempt,
         call' = [call EXCEPT ![c] = a], NEW k \in Keys
  PROVE  /\ OnKey(k)' = (IF a.key = k THEN OnKey(k) \cup {c} ELSE OnKey(k))
         /\ a.key # k => ProbesOn(k)' = ProbesOn(k)
         /\ \A b \in OnKey(k) : call'[b] = call[b]
         /\ Cardinality(OnKey(k)') = Cardinality(OnKey(k)) + (IF a.key = k THEN 1 ELSE 0)
         /\ Cardinality(ProbesOn(k)') =
              Cardinality(ProbesOn(k)) + (IF a.key = k /\ a.probe THEN 1 ELSE 0)
  <1> USE CallersAssumption DEF TypeOK, Idle, OnKey, ProbesOn, Attempt, NoAttempt
  <1>1. c \notin OnKey(k) /\ c \notin ProbesOn(k)
    OBVIOUS
  <1>2. OnKey(k)' = IF a.key = k THEN OnKey(k) \cup {c} ELSE OnKey(k)
    OBVIOUS
  <1>3. ProbesOn(k)' = IF a.key = k /\ a.probe THEN ProbesOn(k) \cup {c} ELSE ProbesOn(k)
    OBVIOUS
  <1> QED
    <2> HIDE DEF OnKey, ProbesOn
    <2>1. /\ Cardinality(OnKey(k)) \in Nat /\ Cardinality(ProbesOn(k)) \in Nat
          /\ Cardinality(OnKey(k) \cup {c}) = Cardinality(OnKey(k)) + 1
          /\ Cardinality(ProbesOn(k) \cup {c}) = Cardinality(ProbesOn(k)) + 1
      BY <1>1, InFlightFinite, FS_AddElement, FS_CardinalityType
    <2>2. \A b \in OnKey(k) : call'[b] = call[b]
      BY <1>1 DEF OnKey
    <2> QED BY <1>2, <1>3, <2>1, <2>2

\* It leaves the calls on every other circuit alone.
LEMMA StartingElsewhere ==
  ASSUME TypeOK, NEW c \in Callers, Idle(c), NEW a \in Attempt,
         call' = [call EXCEPT ![c] = a], NEW k \in Keys, a.key # k
  PROVE  /\ OnKey(k)' = OnKey(k) /\ ProbesOn(k)' = ProbesOn(k)
         /\ \A b \in OnKey(k) : call'[b] = call[b]
  <1>1. call'[c] = a /\ \A b \in Callers : b # c => call'[b] = call[b]
    BY DEF TypeOK
  <1>2. c \notin OnKey(k) /\ c \notin OnKey(k)'
    BY <1>1, CallersAssumption DEF OnKey, Idle, NoAttempt
  <1>3. OnKey(k)' = OnKey(k) /\ \A b \in OnKey(k) : call'[b] = call[b]
    BY <1>1, <1>2 DEF OnKey
  <1>4. ProbesOn(k)' = ProbesOn(k)
    BY <1>3 DEF ProbesOn, OnKey
  <1> QED BY <1>3, <1>4

\* One that ends takes it away again.
LEMMA Ending ==
  ASSUME TypeOK, NEW c \in Callers, ~ Idle(c),
         call' = [call EXCEPT ![c] = NoAttempt], NEW k \in Keys
  PROVE  /\ OnKey(k)' = OnKey(k) \ {c}
         /\ call[c].key # k => ProbesOn(k)' = ProbesOn(k)
         /\ \A b \in OnKey(k)' : call'[b] = call[b]
         /\ Cardinality(OnKey(k)') =
              Cardinality(OnKey(k)) - (IF call[c].key = k THEN 1 ELSE 0)
         /\ Cardinality(ProbesOn(k)') =
              Cardinality(ProbesOn(k)) - (IF call[c].key = k /\ call[c].probe THEN 1 ELSE 0)
         /\ Cardinality(OnKey(k)') \in Nat /\ Cardinality(ProbesOn(k)') \in Nat
  <1> USE CallersAssumption DEF TypeOK, Idle, OnKey, ProbesOn, Attempt, NoAttempt
  <1>1. /\ (IF call[c].key = k THEN 1 ELSE 0) = (IF c \in OnKey(k) THEN 1 ELSE 0)
        /\ (IF call[c].key = k /\ call[c].probe THEN 1 ELSE 0)
             = (IF c \in ProbesOn(k) THEN 1 ELSE 0)
    OBVIOUS
  <1>2. OnKey(k)' = OnKey(k) \ {c}
    OBVIOUS
  <1>3. ProbesOn(k)' = ProbesOn(k) \ {c}
    OBVIOUS
  <1> QED
    <2> HIDE DEF OnKey, ProbesOn
    <2>1. /\ Cardinality(OnKey(k)) \in Nat /\ Cardinality(ProbesOn(k)) \in Nat
          /\ Cardinality(OnKey(k) \ {c}) \in Nat /\ Cardinality(ProbesOn(k) \ {c}) \in Nat
          /\ Cardinality(OnKey(k) \ {c}) =
               Cardinality(OnKey(k)) - (IF c \in OnKey(k) THEN 1 ELSE 0)
          /\ Cardinality(ProbesOn(k) \ {c}) =
               Cardinality(ProbesOn(k)) - (IF c \in ProbesOn(k) THEN 1 ELSE 0)
      <3>1. ASSUME NEW S, IsFiniteSet(S)
            PROVE  /\ Cardinality(S) \in Nat /\ Cardinality(S \ {c}) \in Nat
                   /\ Cardinality(S \ {c}) = Cardinality(S) - (IF c \in S THEN 1 ELSE 0)
        <4>1. /\ IsFiniteSet(S \ {c})
              /\ Cardinality(S \ {c}) =
                   IF c \in S THEN Cardinality(S) - 1 ELSE Cardinality(S)
          BY <3>1, FS_RemoveElement
        <4>2. Cardinality(S) \in Nat /\ Cardinality(S \ {c}) \in Nat
          BY <3>1, <4>1, FS_CardinalityType
        <4> QED BY <4>1, <4>2
      <3> QED BY <3>1, InFlightFinite
    <2>2. \A b \in OnKey(k)' : call'[b] = call[b]
      BY <1>2 DEF OnKey
    <2>3. call[c].key # k => ProbesOn(k)' = ProbesOn(k)
      BY <1>3 DEF ProbesOn, OnKey
    <2> QED BY <1>1, <1>2, <1>3, <2>1, <2>2, <2>3

\* A circuit stays sound while no call on it starts or ends.
LEMMA StillSound ==
  ASSUME NEW k \in Keys, NEW e, CircuitSound(k, e), OnKey(k)' = OnKey(k),
         ProbesOn(k)' = ProbesOn(k), \A c \in OnKey(k) : call'[c] = call[c]
  PROVE  CircuitSound(k, e)'
  BY DEF CircuitSound

\* So a resource whose entry and calls are left alone keeps CircuitsInv.
LEMMA Undisturbed ==
  ASSUME CircuitsInv, NEW k \in Keys, registry'[k] = registry[k], OnKey(k)' = OnKey(k),
         ProbesOn(k)' = ProbesOn(k), \A c \in OnKey(k) : call'[c] = call[c]
  PROVE  IF Resident(k)' THEN CircuitSound(k, registry[k])' ELSE OnKey(k)' = {}
  BY DEF CircuitsInv, CircuitSound, Resident

-------------------------------------------------------------------------------
(* Entries *)

\* A circuit that changes state is a circuit, a generation later.
LEMMA Transitioned ==
  ASSUME NEW e \in Entry, NEW s \in {"CLOSED", "OPEN", "HALF_OPEN"}
  PROVE  /\ Transition(e, s) \in Entry
         /\ Transition(e, s).state = s /\ Transition(e, s).cooled = FALSE
         /\ Transition(e, s).generation = e.generation + 1
         /\ Transition(e, s).alias = e.alias
         /\ Transition(e, s).consecutive = e.consecutive
         /\ Transition(e, s).activeCalls = e.activeCalls
         /\ Transition(e, s).activeProbes = e.activeProbes
  <1> DEFINE e1 == [e EXCEPT !.state = s]
             e2 == [e1 EXCEPT !.generation = @ + 1]
             e3 == [e2 EXCEPT !.cooled = FALSE]
  <1>1. e1 \in Entry
    BY DEF Entry
  <1>2. e2 \in Entry
    <2> HIDE DEF e1
    <2> QED BY <1>1 DEF Entry
  <1>3. e3 \in Entry
    <2> HIDE DEF e2
    <2> QED BY <1>2 DEF Entry
  <1>4. Transition(e, s) = e3
    BY DEF Transition, Entry
  <1> QED BY <1>3, <1>4 DEF Transition, Entry

\* So is one whose slots change.
WithSlots(e, n, m) == [e EXCEPT !.activeCalls = n, !.activeProbes = m]

\* It keeps its other fields.
LEMMA Slotted ==
  ASSUME NEW e \in Entry, NEW n \in Nat, NEW m \in Nat
  PROVE  /\ WithSlots(e, n, m) \in Entry
         /\ WithSlots(e, n, m).activeCalls = n /\ WithSlots(e, n, m).activeProbes = m
         /\ WithSlots(e, n, m).state = e.state
         /\ WithSlots(e, n, m).generation = e.generation
         /\ WithSlots(e, n, m).alias = e.alias
         /\ WithSlots(e, n, m).consecutive = e.consecutive
  <1> DEFINE e1 == [e EXCEPT !.activeCalls = n]
             e2 == [e1 EXCEPT !.activeProbes = m]
  <1>1. e1 \in Entry
    BY DEF Entry
  <1>2. e2 \in Entry
    <2> HIDE DEF e1
    <2> QED BY <1>1 DEF Entry
  <1>3. WithSlots(e, n, m) = e2
    BY DEF Entry, WithSlots
  <1> QED BY <1>2, <1>3 DEF Entry, WithSlots

\* And one whose count changes.
WithCount(e, n) == [e EXCEPT !.consecutive = n]

\* It keeps its other fields too.
LEMMA Counted ==
  ASSUME NEW e \in Entry, NEW n \in 0..FailureThreshold
  PROVE  /\ WithCount(e, n) \in Entry
         /\ WithCount(e, n).consecutive = n
         /\ WithCount(e, n).activeCalls = e.activeCalls
         /\ WithCount(e, n).activeProbes = e.activeProbes
         /\ WithCount(e, n).state = e.state
         /\ WithCount(e, n).generation = e.generation
         /\ WithCount(e, n).alias = e.alias
  BY DEF Entry, WithCount

\* A new circuit is a circuit, and the mark of an unregistered resource is not.
LEMMA EntryTypes ==
  /\ \A a \in 1..MaxEntries : NewEntry(a) \in Entry
  /\ NoEntry \notin Entry
  <1>1. \A a \in 1..MaxEntries : NewEntry(a) \in Entry
    BY SettingsAssumption DEF NewEntry, Entry
  <1>2. NoEntry \notin Entry
    <2>1. \A e \in Entry : e.alias # 0
      BY SettingsAssumption DEF Entry
    <2> QED BY <2>1 DEF NoEntry
  <1> QED BY <1>1, <1>2

\* A sound circuit that is not open may admit a call; it keeps its alias and
\* its state, and every other circuit is left alone.
LEMMA AdmitStep ==
  ASSUME TypeOK, CircuitsInv, NEW c \in Callers, NEW k \in Keys, NEW e \in Entry,
         Idle(c), e.state # "OPEN", CircuitSound(k, e), Admit(c, k, e), UNCHANGED failures
  PROVE  /\ TypeOK' /\ CircuitsInv'
         /\ \E f \in Entry : /\ registry' = [registry EXCEPT ![k] = f]
                             /\ f.alias = e.alias /\ f.state = e.state
  <1> DEFINE probe == e.state = "HALF_OPEN"
             a == [key |-> k, generation |-> e.generation, probe |-> probe]
             f == [e EXCEPT !.activeCalls = @ + 1,
                            !.activeProbes = @ + (IF probe THEN 1 ELSE 0)]
  <1>1. /\ a \in Attempt /\ a.key = k /\ a.generation = e.generation /\ a.probe = probe
        /\ e.state = (IF a.probe THEN "HALF_OPEN" ELSE "CLOSED")
    BY DEF Attempt, Entry
  <1>2. /\ f \in Entry /\ f.alias = e.alias /\ f.state = e.state
        /\ f.generation = e.generation /\ f.consecutive = e.consecutive
        /\ f.activeCalls = e.activeCalls + 1
        /\ f.activeProbes = e.activeProbes + (IF probe THEN 1 ELSE 0)
    <2> DEFINE n == e.activeCalls + 1
               m == e.activeProbes + (IF probe THEN 1 ELSE 0)
    <2>1. n \in Nat /\ m \in Nat
      BY DEF Entry
    <2>2. f = WithSlots(e, n, m)
      BY DEF WithSlots
    <2>3. n = e.activeCalls + 1 /\ m = e.activeProbes + (IF probe THEN 1 ELSE 0)
      OBVIOUS
    <2> HIDE DEF n, m, f
    <2>4. f \in Entry /\ f.activeCalls = n /\ f.activeProbes = m
          /\ f.alias = e.alias /\ f.state = e.state
          /\ f.generation = e.generation /\ f.consecutive = e.consecutive
      BY <2>1, <2>2, Slotted
    <2> QED BY <2>3, <2>4
  <1> HIDE DEF a, f
  <1>3. CASE probe /\ e.activeProbes >= HalfOpenMaxProbes
    <2>1. registry' = [registry EXCEPT ![k] = e] /\ call' = call
      BY <1>3 DEF Admit
    <2>2. TypeOK'
      BY <2>1 DEF TypeOK
    <2>3. ASSUME NEW j \in Keys
          PROVE  /\ OnKey(j)' = OnKey(j) /\ ProbesOn(j)' = ProbesOn(j)
                 /\ \A b \in OnKey(j) : call'[b] = call[b]
      BY <2>1 DEF OnKey, ProbesOn
    <2>4. CircuitSound(k, e)'
      BY <2>3, StillSound
    <2>5. ASSUME NEW j \in Keys, j # k
          PROVE  IF Resident(j)' THEN CircuitSound(j, registry[j])' ELSE OnKey(j)' = {}
      <3>1. registry'[j] = registry[j]
        BY <2>1, <2>5 DEF TypeOK
      <3> QED BY <2>3, <3>1, Undisturbed
    <2>6. registry'[k] = e /\ Resident(k)'
      BY <2>1, EntryTypes DEF TypeOK, Resident
    <2>7. CircuitSound(k, registry[k])'
      BY <2>4, <2>6 DEF CircuitSound
    <2>8. CircuitsInv'
      BY <2>5, <2>6, <2>7 DEF CircuitsInv
    <2> QED BY <2>1, <2>2, <2>8
  <1>4. CASE ~ (probe /\ e.activeProbes >= HalfOpenMaxProbes)
    <2>1. registry' = [registry EXCEPT ![k] = f] /\ call' = [call EXCEPT ![c] = a]
      BY <1>4 DEF Admit, a, f
    <2>2. TypeOK'
      BY <1>1, <1>2, <2>1 DEF TypeOK
    <2>3. ASSUME NEW j \in Keys, j # k
          PROVE  IF Resident(j)' THEN CircuitSound(j, registry[j])' ELSE OnKey(j)' = {}
      <3>1. registry'[j] = registry[j]
        BY <2>1, <2>3 DEF TypeOK
      <3>2. /\ OnKey(j)' = OnKey(j) /\ ProbesOn(j)' = ProbesOn(j)
            /\ \A b \in OnKey(j) : call'[b] = call[b]
        <4>1. a \in Attempt /\ a.key # j
          BY <1>1, <2>3
        <4> QED BY <2>1, <4>1, StartingElsewhere
      <3> QED BY <3>1, <3>2, Undisturbed
    <2>4. CircuitSound(k, f)'
      <3>1. /\ OnKey(k)' = OnKey(k) \cup {c}
            /\ \A b \in OnKey(k) : call'[b] = call[b]
            /\ Cardinality(OnKey(k)') = Cardinality(OnKey(k)) + 1
            /\ Cardinality(ProbesOn(k)') =
                 Cardinality(ProbesOn(k)) + (IF probe THEN 1 ELSE 0)
        BY <1>1, <2>1, Starting
      <3>2. call'[c] = a
        BY <2>1 DEF TypeOK
      <3>3. \A b \in OnKey(k)' :
              /\ call'[b].generation <= f.generation
              /\ call'[b].generation = f.generation =>
                   f.state = (IF call'[b].probe THEN "HALF_OPEN" ELSE "CLOSED")
        <4>1. TAKE b \in OnKey(k)'
        <4>2. CASE b = c
          BY <1>1, <1>2, <3>2, <4>2 DEF Entry
        <4>3. CASE b \in OnKey(k)
          BY <1>2, <3>1, <4>3 DEF CircuitSound
        <4> QED BY <3>1, <4>2, <4>3
      <3>4. /\ f.activeCalls = Cardinality(OnKey(k)')
            /\ f.activeProbes = Cardinality(ProbesOn(k)')
        BY <1>2, <3>1 DEF CircuitSound
      <3>5. /\ f.activeProbes <= HalfOpenMaxProbes
            /\ f.state = "OPEN" => f.activeProbes < HalfOpenMaxProbes
            /\ f.state = "CLOSED" => f.activeProbes = 0 /\ f.consecutive < FailureThreshold
        BY <1>2, <1>4, SettingsAssumption DEF CircuitSound, Entry
      <3> QED BY <3>3, <3>4, <3>5 DEF CircuitSound
    <2>5. registry'[k] = f /\ Resident(k)'
      BY <1>2, <2>1, EntryTypes DEF TypeOK, Resident
    <2>6. CircuitSound(k, registry[k])'
      BY <2>4, <2>5 DEF CircuitSound
    <2>7. CircuitsInv'
      BY <2>3, <2>5, <2>6 DEF CircuitsInv
    <2> QED BY <1>2, <2>1, <2>2, <2>7
  <1> QED BY <1>3, <1>4

-------------------------------------------------------------------------------
(* Calls that end *)

\* The entry of an attempt is registered, and giving the attempt's slots back
\* leaves it sound.
LEMMA ReleaseStep ==
  ASSUME TypeOK, CircuitsInv, NEW c \in Callers, ~ Idle(c),
         call' = [call EXCEPT ![c] = NoAttempt], NEW k \in Keys, call[c].key = k
  PROVE  /\ Resident(k) /\ registry[k] \in Entry
         /\ \E f \in Entry :
              /\ f = Released(c)
              /\ f.alias = registry[k].alias /\ f.state = registry[k].state
              /\ f.generation = registry[k].generation
              /\ f.consecutive = registry[k].consecutive
              /\ f.activeProbes =
                   registry[k].activeProbes - (IF call[c].probe THEN 1 ELSE 0)
              /\ CircuitSound(k, f)'
  <1>1. c \in OnKey(k)
    BY DEF OnKey
  <1>2. Resident(k) /\ registry[k] \in Entry /\ CircuitSound(k, registry[k])
    BY <1>1 DEF CircuitsInv, TypeOK, Resident
  <1>3. PICK r \in Entry : r = registry[k]
    BY <1>2
  <1> DEFINE n == r.activeCalls - 1
             m == r.activeProbes - (IF call[c].probe THEN 1 ELSE 0)
  <1>4. Released(c) = WithSlots(r, n, m)
    BY <1>3 DEF Released, WithSlots
  <1>5. /\ n = Cardinality(OnKey(k)') /\ m = Cardinality(ProbesOn(k)')
        /\ n \in Nat /\ m \in Nat
        /\ OnKey(k)' \subseteq OnKey(k)
        /\ \A b \in OnKey(k)' : call'[b] = call[b]
    <2>1. r.activeCalls = Cardinality(OnKey(k)) /\ r.activeProbes = Cardinality(ProbesOn(k))
      BY <1>2, <1>3 DEF CircuitSound
    <2>2. /\ OnKey(k)' \subseteq OnKey(k)
          /\ \A b \in OnKey(k)' : call'[b] = call[b]
          /\ Cardinality(OnKey(k)') = Cardinality(OnKey(k)) - 1
          /\ Cardinality(ProbesOn(k)') =
               Cardinality(ProbesOn(k)) - (IF call[c].probe THEN 1 ELSE 0)
          /\ Cardinality(OnKey(k)') \in Nat /\ Cardinality(ProbesOn(k)') \in Nat
      BY Ending
    <2> QED BY <2>1, <2>2
  <1>6. m = r.activeProbes - (IF call[c].probe THEN 1 ELSE 0)
    OBVIOUS
  <1> HIDE DEF n, m
  <1>7. /\ WithSlots(r, n, m) \in Entry
        /\ WithSlots(r, n, m).activeCalls = n /\ WithSlots(r, n, m).activeProbes = m
        /\ WithSlots(r, n, m).state = r.state
        /\ WithSlots(r, n, m).generation = r.generation
        /\ WithSlots(r, n, m).alias = r.alias
        /\ WithSlots(r, n, m).consecutive = r.consecutive
    BY <1>5, Slotted
  <1>8. PICK f \in Entry : f = WithSlots(r, n, m)
    BY <1>7
  <1>9. CircuitSound(k, f)'
    <2>1. \A b \in OnKey(k)' :
            /\ call'[b].generation <= f.generation
            /\ call'[b].generation = f.generation =>
                 f.state = (IF call'[b].probe THEN "HALF_OPEN" ELSE "CLOSED")
      BY <1>2, <1>3, <1>5, <1>7, <1>8 DEF CircuitSound
    <2>2. /\ f.activeProbes <= HalfOpenMaxProbes
          /\ f.state = "OPEN" => f.activeProbes < HalfOpenMaxProbes
          /\ f.state = "CLOSED" => f.activeProbes = 0 /\ f.consecutive < FailureThreshold
      <3>1. /\ r.activeProbes <= HalfOpenMaxProbes /\ r.activeProbes \in Nat
            /\ r.state = "OPEN" => r.activeProbes < HalfOpenMaxProbes
            /\ r.state = "CLOSED" => r.activeProbes = 0 /\ r.consecutive < FailureThreshold
        BY <1>2, <1>3 DEF CircuitSound, Entry
      <3>2. m \in Nat /\ m <= r.activeProbes
        BY <1>5, <1>6, <3>1
      <3>3. /\ f.activeProbes = m /\ f.state = r.state /\ f.consecutive = r.consecutive
        BY <1>7, <1>8
      <3> QED BY <3>1, <3>2, <3>3, SettingsAssumption
    <2> QED BY <1>5, <1>7, <1>8, <2>1, <2>2 DEF CircuitSound
  <1> QED BY <1>2, <1>3, <1>4, <1>6, <1>7, <1>8, <1>9

\* The attempt ends and leaves a sound circuit of the same alias behind.
LEMMA FinishStep ==
  ASSUME TypeOK, CircuitsInv, NEW c \in Callers, ~ Idle(c), NEW k \in Keys, call[c].key = k,
         NEW e \in Entry, FinishWith(c, e), CircuitSound(k, e)', failures' \in 0..MaxFailures
  PROVE  TypeOK' /\ CircuitsInv' /\ registry' = [registry EXCEPT ![k] = e]
  <1>1. registry' = [registry EXCEPT ![k] = e] /\ call' = [call EXCEPT ![c] = NoAttempt]
    BY DEF FinishWith
  <1>2. TypeOK'
    BY <1>1 DEF TypeOK
  <1>3. ASSUME NEW j \in Keys, j # k
        PROVE  IF Resident(j)' THEN CircuitSound(j, registry[j])' ELSE OnKey(j)' = {}
    <2>1. registry'[j] = registry[j]
      BY <1>1, <1>3 DEF TypeOK
    <2>2. /\ OnKey(j)' = OnKey(j) \ {c} /\ ProbesOn(j)' = ProbesOn(j)
          /\ \A b \in OnKey(j)' : call'[b] = call[b]
      BY <1>1, <1>3, Ending
    <2>3. OnKey(j)' = OnKey(j)
      BY <1>3, <2>2 DEF OnKey
    <2> QED BY <2>1, <2>2, <2>3, Undisturbed
  <1>4. registry'[k] = e /\ Resident(k)'
    BY <1>1, EntryTypes DEF TypeOK, Resident
  <1>5. CircuitSound(k, registry[k])'
    BY <1>4 DEF CircuitSound
  <1>6. CircuitsInv'
    BY <1>3, <1>4, <1>5 DEF CircuitsInv
  <1> QED BY <1>1, <1>2, <1>6

\* A count that a closed circuit may have keeps the circuit sound.
LEMMA CountSound ==
  ASSUME NEW k \in Keys, NEW e \in Entry, CircuitSound(k, e)',
         NEW n \in 0..FailureThreshold, e.state = "CLOSED" => n < FailureThreshold
  PROVE  CircuitSound(k, WithCount(e, n))'
  <1>1. PICK f \in Entry : f = WithCount(e, n)
    BY Counted
  <1>2. CircuitSound(k, f)'
    BY <1>1, Counted DEF CircuitSound
  <1> QED BY <1>1, <1>2

\* A circuit may open while a probe slot is left, and close once no probe is
\* in flight and its count is below the threshold.
LEMMA TransitionSound ==
  ASSUME NEW k \in Keys, NEW e \in Entry, CircuitSound(k, e)',
         call' \in [Callers -> Attempt \cup {NoAttempt}],
         NEW n \in 0..FailureThreshold, NEW s \in {"CLOSED", "OPEN"},
         s = "OPEN" => e.activeProbes < HalfOpenMaxProbes,
         s = "CLOSED" => e.activeProbes = 0 /\ n < FailureThreshold
  PROVE  /\ Transition(WithCount(e, n), s) \in Entry
         /\ CircuitSound(k, Transition(WithCount(e, n), s))'
  <1>1. PICK d \in Entry : d = WithCount(e, n)
    BY Counted
  <1>2. PICK f \in Entry :
          /\ f = Transition(d, s)
          /\ f.state = s /\ f.generation = d.generation + 1 /\ f.consecutive = d.consecutive
          /\ f.activeCalls = d.activeCalls /\ f.activeProbes = d.activeProbes
    <2>1. s \in {"CLOSED", "OPEN", "HALF_OPEN"}
      OBVIOUS
    <2>2. Transition(d, s) \in Entry
      BY <2>1, Transitioned
    <2>3. /\ Transition(d, s).state = s /\ Transition(d, s).generation = d.generation + 1
          /\ Transition(d, s).consecutive = d.consecutive
          /\ Transition(d, s).activeCalls = d.activeCalls
          /\ Transition(d, s).activeProbes = d.activeProbes
      BY <2>1, Transitioned
    <2> QED BY <2>2, <2>3
  <1>3. /\ f.state = s /\ f.generation = e.generation + 1 /\ f.consecutive = n
        /\ f.activeCalls = e.activeCalls /\ f.activeProbes = e.activeProbes
    <2>1. /\ d.generation = e.generation /\ d.consecutive = n
          /\ d.activeCalls = e.activeCalls /\ d.activeProbes = e.activeProbes
      BY <1>1, Counted
    <2> QED BY <1>2, <2>1
  <1>4. \A b \in OnKey(k)' : call'[b].generation <= e.generation /\ call'[b].generation \in Nat
    <2>1. TAKE b \in OnKey(k)'
    <2>2. call'[b] \in Attempt
      BY CallersAssumption DEF OnKey, NoAttempt
    <2>3. call'[b].generation \in Nat
      BY <2>2 DEF Attempt
    <2> QED BY <2>3 DEF CircuitSound
  <1>5. CircuitSound(k, f)'
    BY <1>3, <1>4, SettingsAssumption DEF CircuitSound, Entry
  <1> QED BY <1>1, <1>2, <1>5

\* A call that ends leaves its resource a circuit with the same alias; a late
\* one leaves the state alone, and only the success of the last probe of the
\* current half-open period closes a circuit.
LEMMA FinishPreserves ==
  ASSUME TypeOK, CircuitsInv, NEW c \in Callers, Finish(c)
  PROVE  /\ TypeOK' /\ CircuitsInv'
         /\ ~ Idle(c) /\ call' = [call EXCEPT ![c] = NoAttempt]
         /\ \E k \in Keys, e \in Entry :
              /\ Resident(k) /\ call[c].key = k /\ e.alias = registry[k].alias
              /\ registry' = [registry EXCEPT ![k] = e]
              /\ ~ IsCurrent(c) => e.state = registry[k].state
              /\ registry[k].state # "CLOSED" /\ e.state = "CLOSED" =>
                   /\ IsCurrent(c) /\ call[c].probe /\ registry[k].activeProbes = 1
                   /\ failures' = failures
  <1>1. ~ Idle(c) /\ call' = [call EXCEPT ![c] = NoAttempt] /\ failures' \in 0..MaxFailures
    BY SettingsAssumption DEF Finish, Succeed, FailCounted, FailExcluded, FinishWith, TypeOK
  <1>2. PICK k \in Keys : call[c].key = k
    BY <1>1 DEF TypeOK, Idle, Attempt
  <1>3. /\ Resident(k) /\ registry[k] \in Entry
        /\ \E f \in Entry :
              /\ f = Released(c)
              /\ f.alias = registry[k].alias /\ f.state = registry[k].state
              /\ f.generation = registry[k].generation
              /\ f.consecutive = registry[k].consecutive
              /\ f.activeProbes =
                   registry[k].activeProbes - (IF call[c].probe THEN 1 ELSE 0)
              /\ CircuitSound(k, f)'
    BY <1>1, <1>2, ReleaseStep
  <1>4. PICK r \in Entry :
              /\ r = Released(c)
              /\ r.alias = registry[k].alias /\ r.state = registry[k].state
              /\ r.generation = registry[k].generation
              /\ r.consecutive = registry[k].consecutive
              /\ r.activeProbes =
                   registry[k].activeProbes - (IF call[c].probe THEN 1 ELSE 0)
              /\ CircuitSound(k, r)'
    BY <1>3
  <1>5. CircuitSound(k, registry[k]) /\ c \in OnKey(k) /\ call[c] \in Attempt
    BY <1>1, <1>2, <1>3 DEF CircuitsInv, OnKey, TypeOK, Idle
  <1>6. IsCurrent(c) => registry[k].state = (IF call[c].probe THEN "HALF_OPEN" ELSE "CLOSED")
    BY <1>2, <1>5 DEF CircuitSound, IsCurrent
  <1>7. SUFFICES \E e \in Entry :
          /\ FinishWith(c, e) /\ CircuitSound(k, e)' /\ e.alias = registry[k].alias
          /\ ~ IsCurrent(c) => e.state = registry[k].state
          /\ registry[k].state # "CLOSED" /\ e.state = "CLOSED" =>
               /\ IsCurrent(c) /\ call[c].probe /\ registry[k].activeProbes = 1
               /\ failures' = failures
    BY <1>1, <1>2, <1>3, FinishStep
  <1>8. CASE FailExcluded(c)
    BY <1>4, <1>8 DEF FailExcluded
  <1>9. CASE Succeed(c)
    <2> DEFINE healthy == WithCount(r, 0)
               closed == Transition(WithCount(r, 0), "CLOSED")
    <2>1. FinishWith(c, IF ~ IsCurrent(c) THEN r
                        ELSE IF call[c].probe /\ r.activeProbes = 0 THEN closed ELSE healthy)
      BY <1>4, <1>9 DEF Succeed, WithCount
    <2>2. /\ healthy \in Entry /\ healthy.alias = r.alias /\ CircuitSound(k, healthy)'
          /\ healthy.state = r.state
      BY <1>4, SettingsAssumption, Counted, CountSound
    <2>3. closed.alias = r.alias
      BY <2>2, Transitioned
    <2>4. r.activeProbes = 0 => closed \in Entry /\ CircuitSound(k, closed)'
      BY <1>1, <1>4, SettingsAssumption, TransitionSound DEF TypeOK
    <2>5. failures' = failures
      BY <1>9 DEF Succeed
    <2>6. call[c].probe /\ r.activeProbes = 0 => registry[k].activeProbes = 1
      BY <1>3, <1>4 DEF Entry
    <2> HIDE DEF healthy, closed
    <2>7. CASE ~ IsCurrent(c)
      BY <1>4, <2>1, <2>7
    <2>8. CASE IsCurrent(c) /\ call[c].probe /\ r.activeProbes = 0
      BY <1>4, <2>1, <2>3, <2>4, <2>5, <2>6, <2>8
    <2>9. CASE IsCurrent(c) /\ ~ (call[c].probe /\ r.activeProbes = 0)
      BY <1>4, <2>1, <2>2, <2>9
    <2> QED BY <2>7, <2>8, <2>9
  <1>10. CASE FailCounted(c)
    <2> DEFINE n == IF r.consecutive < FailureThreshold THEN r.consecutive + 1
                    ELSE FailureThreshold
               counted == WithCount(r, n)
               open == Transition(WithCount(r, n), "OPEN")
    <2>1. FinishWith(c, IF ~ IsCurrent(c) THEN r
                        ELSE IF call[c].probe \/ n >= FailureThreshold THEN open ELSE counted)
      BY <1>4, <1>10 DEF FailCounted, WithCount
    <2>2. n \in 0..FailureThreshold
      BY SettingsAssumption DEF Entry
    <2> HIDE DEF n
    <2>3. counted \in Entry /\ counted.alias = r.alias /\ counted.state = r.state
      BY <2>2, Counted
    <2>4. ~ (n >= FailureThreshold) => CircuitSound(k, counted)'
      BY <1>4, <2>2, SettingsAssumption, CountSound
    <2>5. open.alias = r.alias /\ open.state = "OPEN"
      BY <2>3, Transitioned
    <2>6. IsCurrent(c) => r.activeProbes < HalfOpenMaxProbes
      BY <1>3, <1>4, <1>5, <1>6, SettingsAssumption DEF CircuitSound, Attempt, Entry
    <2>7. IsCurrent(c) => open \in Entry /\ CircuitSound(k, open)'
      BY <1>1, <1>4, <2>2, <2>6, SettingsAssumption, TransitionSound DEF TypeOK
    <2> HIDE DEF counted, open
    <2>8. CASE ~ IsCurrent(c)
      BY <1>4, <2>1, <2>8
    <2>9. CASE IsCurrent(c) /\ (call[c].probe \/ n >= FailureThreshold)
      BY <1>4, <2>1, <2>5, <2>7, <2>9
    <2>10. CASE IsCurrent(c) /\ ~ (call[c].probe \/ n >= FailureThreshold)
      BY <1>4, <2>1, <2>3, <2>4, <2>10
    <2> QED BY <2>8, <2>9, <2>10
  <1> QED BY <1>8, <1>9, <1>10 DEF Finish

-------------------------------------------------------------------------------
(* The registry *)

\* Next to fewer than MaxEntries residents that stay as they are, a resource may
\* be given a circuit whose alias none of them uses.
LEMMA Registering ==
  ASSUME TypeOK, RegistryInv, NEW R \in SUBSET Residents, Cardinality(R) < MaxEntries,
         NEW k \in Keys, k \notin R, NEW e \in Entry, \A j \in R : registry[j].alias # e.alias,
         registry'[k] = e,
         \A j \in Keys \ {k} : registry'[j] = (IF j \in R THEN registry[j] ELSE NoEntry)
  PROVE  RegistryInv'
  <1>1. Residents' = R \cup {k}
    BY EntryTypes DEF Residents, Resident
  <1>2. IsFiniteSet(R) /\ Cardinality(R) \in Nat
    BY FS_Subset, FS_CardinalityType DEF RegistryInv
  <1>3. IsFiniteSet(R \cup {k}) /\ Cardinality(R \cup {k}) = Cardinality(R) + 1
    BY <1>2, FS_AddElement
  <1>4. IsFiniteSet(Residents') /\ Cardinality(Residents') <= MaxEntries
    BY <1>1, <1>2, <1>3, SettingsAssumption
  <1>5. \A i, j \in R \cup {k} : registry'[i].alias = registry'[j].alias => i = j
    <2>1. \A i, j \in R : registry[i].alias = registry[j].alias => i = j
      BY DEF RegistryInv, AliasesNameOneResource, Residents
    <2>2. \A j \in R : registry'[j] = registry[j]
      BY DEF Residents
    <2> QED BY <2>1, <2>2
  <1>6. \A i, j \in Keys :
          Resident(i)' /\ Resident(j)' /\ registry'[i].alias = registry'[j].alias => i = j
    BY <1>1, <1>5 DEF Residents
  <1> QED BY <1>4, <1>6 DEF RegistryInv, AliasesNameOneResource, Residents

\* A circuit may be replaced by one with its alias.
LEMMA Replacing ==
  ASSUME TypeOK, RegistryInv, NEW k \in Keys, Resident(k), NEW e \in Entry,
         e.alias = registry[k].alias, registry' = [registry EXCEPT ![k] = e]
  PROVE  RegistryInv'
  <1> DEFINE R == Residents \ {k}
  <1>1. k \in Residents
    BY DEF Residents
  <1>2. Cardinality(R) < MaxEntries
    <2>1. /\ IsFiniteSet(Residents) /\ Cardinality(Residents) <= MaxEntries
      BY DEF RegistryInv, AliasesNameOneResource, Residents
    <2>2. Cardinality(Residents) \in Nat /\ Cardinality(R) = Cardinality(Residents) - 1
      BY <1>1, <2>1, FS_RemoveElement, FS_CardinalityType
    <2> QED BY <2>1, <2>2, SettingsAssumption
  <1>3. \A j \in R : registry[j].alias # e.alias
    BY DEF RegistryInv, AliasesNameOneResource, Residents
  <1>4. registry'[k] = e
    BY DEF TypeOK
  <1>5. \A j \in Keys \ {k} : registry'[j] = (IF j \in R THEN registry[j] ELSE NoEntry)
    BY DEF TypeOK, Residents, Resident
  <1> HIDE DEF R
  <1>6. R \in SUBSET Residents /\ k \notin R
    BY DEF R
  <1> QED BY <1>2, <1>3, <1>4, <1>5, <1>6, Registering

-------------------------------------------------------------------------------
(* The invariant *)

\* It holds initially.
LEMMA InitInv == Init => IInv
  <1> SUFFICES ASSUME Init PROVE IInv
    OBVIOUS
  <1>1. TypeOK
    BY SettingsAssumption DEF Init, TypeOK
  <1>2. RegistryInv
    <2>1. Residents = {}
      BY DEF Init, Residents, Resident
    <2>2. IsFiniteSet(Residents) /\ Cardinality(Residents) = 0
      BY <2>1, FS_EmptySet
    <2> QED BY <2>1, <2>2, SettingsAssumption DEF RegistryInv, AliasesNameOneResource, Residents
  <1>3. CircuitsInv
    BY CallersAssumption DEF Init, CircuitsInv, Resident, OnKey, NoAttempt
  <1> QED BY <1>1, <1>2, <1>3 DEF IInv

\* A circuit just created is sound when nothing is in flight for it.
LEMMA FreshSound ==
  ASSUME NEW k \in Keys, OnKey(k) = {}, NEW a \in 1..MaxEntries
  PROVE  CircuitSound(k, NewEntry(a))
  <1>1. ProbesOn(k) = {}
    BY DEF ProbesOn
  <1>2. Cardinality(OnKey(k)) = 0 /\ Cardinality(ProbesOn(k)) = 0
    BY <1>1, FS_EmptySet
  <1> QED BY <1>2, SettingsAssumption DEF CircuitSound, NewEntry

\* A resource without a circuit has one made for it.
LEMMA NewPreserves ==
  ASSUME IInv, NEW c \in Callers, NEW k \in Keys, AttemptNew(c, k)
  PROVE  IInv'
  <1> DEFINE a == FreeAlias(Residents)
  <1>1. /\ Idle(c) /\ ~ Resident(k) /\ Cardinality(Residents) < MaxEntries
        /\ Admit(c, k, NewEntry(a)) /\ UNCHANGED failures
    BY DEF AttemptNew, Residents
  <1>2. a \in 1..MaxEntries /\ \A j \in Residents : registry[j].alias # a
    BY <1>1, FreeAliasIsFree DEF IInv, RegistryInv
  <1> HIDE DEF a
  <1>3. PICK e \in Entry : e = NewEntry(a)
    BY <1>2, EntryTypes
  <1>4. OnKey(k) = {}
    BY <1>1 DEF IInv, CircuitsInv
  <1>5. CircuitSound(k, e)
    BY <1>2, <1>3, <1>4, FreshSound
  <1>6. e.state = "CLOSED" /\ e.alias = a
    BY <1>3 DEF NewEntry
  <1>7. /\ TypeOK' /\ CircuitsInv'
        /\ \E f \in Entry : registry' = [registry EXCEPT ![k] = f] /\ f.alias = e.alias
    BY <1>1, <1>3, <1>5, <1>6, AdmitStep DEF IInv
  <1>8. PICK f \in Entry : registry' = [registry EXCEPT ![k] = f] /\ f.alias = e.alias
    BY <1>7
  <1>9. /\ registry'[k] = f
        /\ \A j \in Keys \ {k} : registry'[j] = (IF j \in Residents THEN registry[j] ELSE NoEntry)
        /\ k \notin Residents
    BY <1>1, <1>8 DEF IInv, TypeOK, Residents, Resident
  <1>10. RegistryInv'
    BY <1>1, <1>2, <1>6, <1>8, <1>9, Registering DEF IInv
  <1> QED BY <1>7, <1>10 DEF IInv

\* An idle healthy circuit makes room for it.
LEMMA RecyclingPreserves ==
  ASSUME IInv, NEW c \in Callers, NEW k \in Keys, AttemptRecycling(c, k)
  PROVE  IInv'
  <1>1. PICK old \in Keys :
          /\ Resident(old) /\ Recyclable(old)
          /\ registry' = [registry EXCEPT ![old] = NoEntry,
               ![k] = [NewEntry(FreeAlias(Residents \ {old})) EXCEPT !.activeCalls = 1]]
    BY DEF AttemptRecycling, Residents
  <1> DEFINE R == Residents \ {old}
             n == FreeAlias(R)
             a == [key |-> k, generation |-> 0, probe |-> FALSE]
  <1>2. /\ Idle(c) /\ ~ Resident(k) /\ k # old
        /\ call' = [call EXCEPT ![c] = a] /\ failures' = failures
    BY <1>1 DEF AttemptRecycling
  <1>3. R \in SUBSET Residents /\ IsFiniteSet(R) /\ Cardinality(R) < MaxEntries
    <2>1. /\ IsFiniteSet(Residents) /\ Cardinality(Residents) <= MaxEntries
          /\ old \in Residents
      BY <1>1 DEF IInv, RegistryInv, AliasesNameOneResource, Residents
    <2>2. /\ Cardinality(Residents) \in Nat /\ Cardinality(R) = Cardinality(Residents) - 1
          /\ IsFiniteSet(R)
      BY <2>1, FS_RemoveElement, FS_CardinalityType
    <2> QED BY <2>1, <2>2, SettingsAssumption
  <1>4. n \in 1..MaxEntries /\ \A j \in R : registry[j].alias # n
    BY <1>3, FreeAliasIsFree DEF IInv
  <1>5. PICK f \in Entry :
          /\ f = [NewEntry(n) EXCEPT !.activeCalls = 1]
          /\ f.alias = n /\ f.state = "CLOSED" /\ f.generation = 0
          /\ f.consecutive = 0 /\ f.activeCalls = 1 /\ f.activeProbes = 0
    <2> HIDE DEF n
    <2>1. PICK e \in Entry :
            /\ e = NewEntry(n)
            /\ e.alias = n /\ e.state = "CLOSED" /\ e.generation = 0
            /\ e.consecutive = 0 /\ e.activeProbes = 0
      <3>1. NewEntry(n) \in Entry
        BY <1>4, EntryTypes
      <3> QED BY <3>1 DEF NewEntry
    <2> DEFINE f == [e EXCEPT !.activeCalls = 1]
    <2>2. /\ f \in Entry
          /\ f.alias = n /\ f.state = "CLOSED" /\ f.generation = 0
          /\ f.consecutive = 0 /\ f.activeCalls = 1 /\ f.activeProbes = 0
      BY <2>1 DEF Entry
    <2> QED BY <2>1, <2>2
  <1>6. a \in Attempt /\ a.key = k /\ a.generation = 0 /\ a.probe = FALSE
    BY DEF Attempt
  <1>7. registry' = [registry EXCEPT ![old] = NoEntry, ![k] = f]
    BY <1>1, <1>5
  <1> HIDE DEF n, a
  <1>8. /\ registry' \in [Keys -> Entry \cup {NoEntry}]
        /\ registry'[k] = f /\ registry'[old] = NoEntry
        /\ \A j \in Keys \ {k, old} : registry'[j] = registry[j]
    BY <1>2, <1>5, <1>7 DEF IInv, TypeOK
  <1>9. TypeOK'
    BY <1>2, <1>6, <1>8 DEF IInv, TypeOK
  <1>10. RegistryInv'
    <2>1. \A j \in Keys \ {k} : registry'[j] = (IF j \in R THEN registry[j] ELSE NoEntry)
      BY <1>8 DEF Residents, Resident
    <2>2. k \notin R
      BY <1>2 DEF Residents
    <2>3. \A j \in R : registry[j].alias # f.alias
      BY <1>4, <1>5
    <2>4. TypeOK /\ RegistryInv
      BY DEF IInv
    <2> HIDE DEF R
    <2> QED BY <1>3, <1>8, <2>1, <2>2, <2>3, <2>4, Registering
  <1>11. OnKey(k) = {} /\ OnKey(old) = {}
    <2>1. OnKey(k) = {} /\ Cardinality(OnKey(old)) = 0
      BY <1>1, <1>2 DEF IInv, CircuitsInv, CircuitSound, Recyclable
    <2> QED BY <2>1, InFlightFinite, FS_EmptySet
  <1>12. /\ OnKey(k)' = {c} /\ call'[c] = a
         /\ Cardinality(OnKey(k)') = 1 /\ Cardinality(ProbesOn(k)') = 0
    <2>1. ProbesOn(k) = {}
      BY <1>11 DEF ProbesOn
    <2>2. /\ OnKey(k)' = OnKey(k) \cup {c}
          /\ Cardinality(OnKey(k)') = Cardinality(OnKey(k)) + 1
          /\ Cardinality(ProbesOn(k)') = Cardinality(ProbesOn(k)) + 0
      BY <1>2, <1>6, Starting DEF IInv
    <2>3. call'[c] = a
      BY <1>2 DEF IInv, TypeOK
    <2> QED BY <1>11, <2>1, <2>2, <2>3, FS_EmptySet
  <1>13. CircuitSound(k, f)'
    BY <1>5, <1>6, <1>12, SettingsAssumption DEF CircuitSound
  <1>14. CircuitSound(k, registry[k])' /\ Resident(k)'
    BY <1>5, <1>8, <1>13, EntryTypes DEF CircuitSound, Resident
  <1>15. ASSUME NEW j \in Keys, j # k
         PROVE  IF Resident(j)' THEN CircuitSound(j, registry[j])' ELSE OnKey(j)' = {}
    <2>1. /\ OnKey(j)' = OnKey(j) /\ ProbesOn(j)' = ProbesOn(j)
          /\ \A b \in OnKey(j) : call'[b] = call[b]
      <3>1. TypeOK /\ Idle(c) /\ a \in Attempt /\ call' = [call EXCEPT ![c] = a]
        BY <1>2, <1>6 DEF IInv
      <3>2. a.key # j
        BY <1>6, <1>15
      <3> QED BY <3>1, <3>2, StartingElsewhere
    <2>2. CASE j = old
      BY <1>8, <1>11, <2>1, <2>2 DEF Resident
    <2>3. CASE j # old
      <3>1. registry'[j] = registry[j]
        BY <1>8, <1>15, <2>3
      <3> QED BY <2>1, <3>1, Undisturbed DEF IInv
    <2> QED BY <2>2, <2>3
  <1>16. CircuitsInv'
    BY <1>14, <1>15 DEF CircuitsInv
  <1> QED BY <1>9, <1>10, <1>16 DEF IInv

\* A closed or half-open circuit admits the call, or rejects it at the limit.
LEMMA ResidentPreserves ==
  ASSUME IInv, NEW c \in Callers, NEW k \in Keys, AttemptResident(c, k)
  PROVE  IInv'
  <1>1. /\ Idle(c) /\ Resident(k) /\ registry[k].state # "OPEN"
        /\ Admit(c, k, registry[k]) /\ UNCHANGED failures
    BY DEF AttemptResident
  <1>2. PICK e \in Entry : e = registry[k]
    BY <1>1 DEF IInv, TypeOK, Resident
  <1>3. CircuitSound(k, e)
    BY <1>1, <1>2 DEF IInv, CircuitsInv
  <1>4. /\ TypeOK' /\ CircuitsInv'
        /\ \E f \in Entry : registry' = [registry EXCEPT ![k] = f] /\ f.alias = e.alias
    BY <1>1, <1>2, <1>3, AdmitStep DEF IInv
  <1>5. RegistryInv'
    BY <1>1, <1>2, <1>4, Replacing DEF IInv
  <1> QED BY <1>4, <1>5 DEF IInv

\* Turned half open, a circuit stays sound: no attempt is of the new generation.
LEMMA HalfOpenSound ==
  ASSUME IInv, NEW k \in Keys, Resident(k)
  PROVE  \E e \in Entry :
           /\ e = Transition(registry[k], "HALF_OPEN") /\ e.state = "HALF_OPEN"
           /\ e.alias = registry[k].alias /\ CircuitSound(k, e)
  <1>1. PICK r \in Entry : r = registry[k]
    BY DEF IInv, TypeOK, Resident
  <1>2. CircuitSound(k, r)
    BY <1>1 DEF IInv, CircuitsInv
  <1>3. PICK e \in Entry :
          /\ e = Transition(r, "HALF_OPEN") /\ e.state = "HALF_OPEN"
          /\ e.alias = r.alias /\ e.generation = r.generation + 1
          /\ e.activeCalls = r.activeCalls /\ e.activeProbes = r.activeProbes
    BY Transitioned
  <1>4. \A b \in OnKey(k) : call[b].generation <= r.generation /\ call[b].generation \in Nat
    <2>1. TAKE b \in OnKey(k)
    <2>2. call[b] \in Attempt
      BY CallersAssumption DEF IInv, TypeOK, OnKey, NoAttempt
    <2>3. call[b].generation \in Nat
      BY <2>2 DEF Attempt
    <2> QED BY <1>2, <2>3 DEF CircuitSound
  <1>5. CircuitSound(k, e)
    BY <1>2, <1>3, <1>4 DEF CircuitSound, Entry
  <1> QED BY <1>1, <1>3, <1>5

\* An open circuit turns half open after its time and admits a probe.
LEMMA CooledPreserves ==
  ASSUME IInv, NEW c \in Callers, NEW k \in Keys, AttemptCooled(c, k)
  PROVE  IInv'
  <1>1. /\ Idle(c) /\ Resident(k)
        /\ Admit(c, k, Transition(registry[k], "HALF_OPEN")) /\ UNCHANGED failures
    BY DEF AttemptCooled
  <1>2. PICK e \in Entry :
          /\ e = Transition(registry[k], "HALF_OPEN") /\ e.state = "HALF_OPEN"
          /\ e.alias = registry[k].alias /\ CircuitSound(k, e)
    BY <1>1, HalfOpenSound
  <1>3. /\ TypeOK' /\ CircuitsInv'
        /\ \E f \in Entry : registry' = [registry EXCEPT ![k] = f] /\ f.alias = e.alias
    BY <1>1, <1>2, AdmitStep DEF IInv
  <1>4. RegistryInv'
    BY <1>1, <1>2, <1>3, Replacing DEF IInv
  <1> QED BY <1>3, <1>4 DEF IInv

\* The open time of a circuit passes.
LEMMA CoolDownPreserves ==
  ASSUME IInv, NEW k \in Keys, CoolDown(k)
  PROVE  IInv'
  <1>1. Resident(k) /\ UNCHANGED <<call, failures>>
    BY DEF CoolDown
  <1>2. PICK r \in Entry : r = registry[k]
    BY <1>1 DEF IInv, TypeOK, Resident
  <1>3. PICK e \in Entry :
          /\ registry' = [registry EXCEPT ![k] = e]
          /\ e.alias = r.alias /\ e.state = r.state /\ e.generation = r.generation
          /\ e.consecutive = r.consecutive
          /\ e.activeCalls = r.activeCalls /\ e.activeProbes = r.activeProbes
    <2> DEFINE e == [r EXCEPT !.cooled = TRUE]
    <2>1. e \in Entry
      BY Zenon DEF Entry
    <2>2. /\ e.alias = r.alias /\ e.state = r.state /\ e.generation = r.generation
          /\ e.consecutive = r.consecutive
          /\ e.activeCalls = r.activeCalls /\ e.activeProbes = r.activeProbes
      BY DEF Entry
    <2>3. registry' = [registry EXCEPT ![k] = e]
      BY <1>2 DEF CoolDown
    <2> HIDE DEF e
    <2> QED BY <2>1, <2>2, <2>3
  <1>4. TypeOK'
    BY <1>1, <1>3 DEF IInv, TypeOK
  <1>5. RegistryInv'
    BY <1>1, <1>2, <1>3, Replacing DEF IInv
  <1>6. \A j \in Keys :
          /\ OnKey(j)' = OnKey(j) /\ ProbesOn(j)' = ProbesOn(j)
          /\ \A b \in OnKey(j) : call'[b] = call[b]
    BY <1>1 DEF OnKey, ProbesOn
  <1>7. ASSUME NEW j \in Keys, j # k
        PROVE  IF Resident(j)' THEN CircuitSound(j, registry[j])' ELSE OnKey(j)' = {}
    <2>1. registry'[j] = registry[j]
      BY <1>3, <1>7 DEF IInv, TypeOK
    <2> QED BY <1>6, <2>1, Undisturbed DEF IInv
  <1>8. CircuitSound(k, registry[k])' /\ Resident(k)'
    <2>1. CircuitSound(k, e)
      BY <1>1, <1>2, <1>3 DEF IInv, CircuitsInv, CircuitSound
    <2>2. CircuitSound(k, e)'
      BY <1>6, <2>1, StillSound
    <2>3. registry'[k] = e
      BY <1>3 DEF IInv, TypeOK
    <2> QED BY <2>2, <2>3, EntryTypes DEF CircuitSound, Resident
  <1>9. CircuitsInv'
    BY <1>7, <1>8 DEF CircuitsInv
  <1> QED BY <1>4, <1>5, <1>9 DEF IInv

\* A call that ends keeps the invariant.
LEMMA FinishKeepsInv ==
  ASSUME IInv, NEW c \in Callers, Finish(c)
  PROVE  IInv'
  <1>1. /\ TypeOK' /\ CircuitsInv'
        /\ \E k \in Keys, e \in Entry :
              /\ Resident(k) /\ e.alias = registry[k].alias
              /\ registry' = [registry EXCEPT ![k] = e]
    BY FinishPreserves DEF IInv
  <1>2. RegistryInv'
    BY <1>1, Replacing DEF IInv
  <1> QED BY <1>1, <1>2 DEF IInv

\* Every step keeps the invariant.
LEMMA NextInv == IInv /\ [Next]_vars => IInv'
  <1> SUFFICES ASSUME IInv, [Next]_vars PROVE IInv'
    OBVIOUS
  <1>1. ASSUME NEW k \in Keys, AttemptOn(k) PROVE IInv'
    BY <1>1, NewPreserves, RecyclingPreserves, ResidentPreserves, CooledPreserves DEF AttemptOn
  <1>2. ASSUME NEW k \in Keys, CoolDown(k) PROVE IInv'
    BY <1>2, CoolDownPreserves
  <1>3. ASSUME NEW c \in Callers, Finish(c) PROVE IInv'
    BY <1>3, FinishKeepsInv
  <1>4. CASE UNCHANGED vars
    BY <1>4 DEF vars, IInv, TypeOK, RegistryInv, AliasesNameOneResource, Residents, Resident,
                CircuitsInv, CircuitSound, OnKey, ProbesOn
  <1> QED BY <1>1, <1>2, <1>3, <1>4 DEF Next

\* So every reachable state satisfies it.
THEOREM Invariance == Spec => []IInv
  BY InitInv, NextInv, PTL DEF Spec

-------------------------------------------------------------------------------
(* The properties of the runs *)

\* The variables have their types.
THEOREM TypeCorrect == Spec => []TypeOK
  <1>1. IInv => TypeOK
    BY DEF IInv
  <1> QED BY <1>1, Invariance, PTL

\* The slot counters are exactly the calls and the probes in flight, so no
\* exception path strands a probe, and no circuit is evicted under a call.
THEOREM SlotsAreCalls == Spec => []CallsAccounted
  <1>1. IInv => CallsAccounted
    BY DEF IInv, CircuitsInv, CircuitSound, CallsAccounted
  <1> QED BY <1>1, Invariance, PTL

\* However circuits are evicted and created, the registry stays within its
\* bound and no two resources share an alias.
THEOREM AliasesAreUnique == Spec => []AliasesNameOneResource
  <1>1. IInv => AliasesNameOneResource
    BY DEF IInv, RegistryInv
  <1> QED BY <1>1, Invariance, PTL

\* The probes in flight never exceed their limit, an open circuit has a slot
\* left for its probe, and a closed one is below the threshold.
THEOREM ProbesAreBounded == Spec => []ProbesBounded
  <1>1. IInv => ProbesBounded
    BY DEF IInv, CircuitsInv, CircuitSound, ProbesBounded
  <1> QED BY <1>1, Invariance, PTL

\* An attempt on one resource leaves the circuit of another alone, and adds no
\* call to it.
LEMMA ElsewhereUntouched ==
  ASSUME IInv, NEW c \in Callers, NEW j \in Keys, NEW k \in Keys, j # k,
         AttemptNew(c, j) \/ AttemptResident(c, j) \/ AttemptCooled(c, j)
  PROVE  registry'[k] = registry[k] /\ \A d \in Callers : call'[d].key = k => call[d].key = k
  <1>1. PICK e : Admit(c, j, e)
    BY DEF AttemptNew, AttemptResident, AttemptCooled
  <1> QED BY <1>1 DEF Admit, IInv, TypeOK

\* Eviction only takes closed circuits.
LEMMA EvictionSparesOpen ==
  ASSUME IInv, NEW c \in Callers, NEW j \in Keys, AttemptRecycling(c, j),
         NEW k \in Keys, Resident(k), registry[k].state # "CLOSED"
  PROVE  registry'[k] = registry[k] /\ \A d \in Callers : call'[d].key = k => call[d].key = k
  BY DEF AttemptRecycling, Recyclable, IInv, TypeOK

\* Cooling keeps every circuit's state and every call.
LEMMA CoolingKeepsStates ==
  ASSUME IInv, NEW j \in Keys, CoolDown(j), NEW k \in Keys, Resident(k)
  PROVE  /\ Resident(k)' /\ registry'[k].state = registry[k].state
         /\ \A d \in Callers : call'[d].key = k => call[d].key = k
  <1>1. /\ Resident(j) /\ call' = call
        /\ registry' = [registry EXCEPT ![j] = [registry[j] EXCEPT !.cooled = TRUE]]
    BY DEF CoolDown
  <1>2. registry[j] \in Entry /\ registry[k] \in Entry
    BY <1>1 DEF IInv, TypeOK, Resident
  <1>3. CASE j = k
    <2>1. registry'[k] = [registry[k] EXCEPT !.cooled = TRUE]
      BY <1>1, <1>3 DEF IInv, TypeOK
    <2>2. registry'[k].state = registry[k].state /\ registry'[k].alias = registry[k].alias
      BY <1>2, <2>1 DEF Entry
    <2>3. registry[k].alias # 0
      BY <1>2, SettingsAssumption DEF Entry
    <2> QED BY <1>1, <2>2, <2>3 DEF Resident, NoEntry
  <1>4. CASE j # k
    BY <1>1, <1>4 DEF IInv, TypeOK, Resident
  <1> QED BY <1>3, <1>4

\* While a circuit is open and has not cooled down it stays open and admits
\* nothing, whatever late results arrive.
THEOREM OpenHolds == Spec => OpenCircuitHolds
  <1> DEFINE A == \A k \in Keys :
       Resident(k) /\ registry[k].state = "OPEN" /\ ~registry[k].cooled =>
         /\ registry'[k] # NoEntry
         /\ registry'[k].state = "OPEN"
         /\ {c \in Callers : call'[c].key = k} \subseteq OnKey(k)
  <1>1. IInv /\ [Next]_vars => [A]_vars
    <2> SUFFICES ASSUME IInv, Next, NEW k \in Keys, Resident(k),
                        registry[k].state = "OPEN", ~ registry[k].cooled
                 PROVE  /\ Resident(k)' /\ registry'[k].state = "OPEN"
                        /\ \A d \in Callers : call'[d].key = k => call[d].key = k
      BY DEF OnKey, Resident
    <2>1. ASSUME NEW c \in Callers, NEW j \in Keys, AttemptNew(c, j)
          PROVE  registry'[k] = registry[k] /\ \A d \in Callers : call'[d].key = k => call[d].key = k
      BY <2>1, ElsewhereUntouched DEF AttemptNew
    <2>2. ASSUME NEW c \in Callers, NEW j \in Keys, AttemptRecycling(c, j)
          PROVE  registry'[k] = registry[k] /\ \A d \in Callers : call'[d].key = k => call[d].key = k
      BY <2>2, EvictionSparesOpen
    <2>3. ASSUME NEW c \in Callers, NEW j \in Keys, AttemptResident(c, j)
          PROVE  registry'[k] = registry[k] /\ \A d \in Callers : call'[d].key = k => call[d].key = k
      BY <2>3, ElsewhereUntouched DEF AttemptResident
    <2>4. ASSUME NEW c \in Callers, NEW j \in Keys, AttemptCooled(c, j)
          PROVE  registry'[k] = registry[k] /\ \A d \in Callers : call'[d].key = k => call[d].key = k
      BY <2>4, ElsewhereUntouched DEF AttemptCooled
    <2>5. ASSUME NEW j \in Keys, CoolDown(j)
          PROVE  /\ Resident(k)' /\ registry'[k].state = "OPEN"
                 /\ \A d \in Callers : call'[d].key = k => call[d].key = k
      BY <2>5, CoolingKeepsStates
    <2>6. ASSUME NEW c \in Callers, Finish(c)
          PROVE  /\ Resident(k)' /\ registry'[k].state = "OPEN"
                 /\ \A d \in Callers : call'[d].key = k => call[d].key = k
      <3>1. /\ ~ Idle(c) /\ call' = [call EXCEPT ![c] = NoAttempt]
            /\ \E j \in Keys, e \in Entry :
                 /\ call[c].key = j /\ registry' = [registry EXCEPT ![j] = e]
                 /\ ~ IsCurrent(c) => e.state = registry[j].state
        BY <2>6, FinishPreserves DEF IInv
      <3>2. PICK j \in Keys, e \in Entry :
                 /\ call[c].key = j /\ registry' = [registry EXCEPT ![j] = e]
                 /\ ~ IsCurrent(c) => e.state = registry[j].state
        BY <3>1
      <3>3. \A d \in Callers : call'[d].key = k => call[d].key = k
        BY <3>1, CallersAssumption DEF IInv, TypeOK, NoAttempt
      <3>4. CASE j = k
        <4>1. ~ IsCurrent(c)
          BY <3>2, <3>4 DEF IInv, CircuitsInv, CircuitSound, OnKey, IsCurrent
        <4> QED BY <3>2, <3>3, <3>4, <4>1, EntryTypes DEF IInv, TypeOK, Resident
      <3>5. CASE j # k
        BY <3>2, <3>3, <3>5 DEF IInv, TypeOK, Resident
      <3> QED BY <3>4, <3>5
    <2> QED BY <2>1, <2>2, <2>3, <2>4, <2>5, <2>6 DEF Next, AttemptOn, Resident
  <1> QED BY <1>1, Invariance, PTL DEF Spec, OpenCircuitHolds

\* A tripped circuit closes only when the last probe of its current half-open
\* period succeeds, and is never forgotten by eviction.
THEOREM ClosedByProbe == Spec => ClosesByItsLastProbe
  <1> DEFINE A == \A k \in Keys :
       /\ Resident(k) /\ registry[k].state # "CLOSED"
       /\ (registry'[k] = NoEntry \/ registry'[k].state = "CLOSED")
       => \E c \in Callers :
            /\ ProbesOn(k) = {c} /\ call'[c] = NoAttempt
            /\ IsCurrent(c) /\ failures' = failures
  <1>1. IInv /\ [Next]_vars => [A]_vars
    <2> SUFFICES ASSUME IInv, Next, NEW k \in Keys, Resident(k),
                        registry[k].state # "CLOSED",
                        registry'[k] = NoEntry \/ registry'[k].state = "CLOSED"
                 PROVE  \E c \in Callers :
                          /\ ProbesOn(k) = {c} /\ call'[c] = NoAttempt
                          /\ IsCurrent(c) /\ failures' = failures
      OBVIOUS
    <2>1. registry'[k] # registry[k]
      BY DEF Resident
    <2>2. ASSUME NEW c \in Callers, NEW j \in Keys, AttemptNew(c, j) PROVE FALSE
      BY <2>1, <2>2, ElsewhereUntouched DEF AttemptNew
    <2>3. ASSUME NEW c \in Callers, NEW j \in Keys, AttemptRecycling(c, j) PROVE FALSE
      BY <2>1, <2>3, EvictionSparesOpen
    <2>4. ASSUME NEW c \in Callers, NEW j \in Keys,
                 AttemptResident(c, j) \/ AttemptCooled(c, j)
          PROVE  FALSE
      <3>1. j = k
        BY <2>1, <2>4, ElsewhereUntouched
      <3>2. PICK e \in Entry : /\ Idle(c) /\ e.state = "HALF_OPEN" /\ UNCHANGED failures
                               /\ CircuitSound(k, e) /\ Admit(c, k, e)
        <4>1. CASE AttemptResident(c, k)
          <5>1. registry[k] \in Entry /\ registry[k].state = "HALF_OPEN"
            BY <4>1 DEF AttemptResident, IInv, TypeOK, Resident, Entry
          <5> QED BY <4>1, <5>1 DEF AttemptResident, IInv, CircuitsInv
        <4>2. CASE AttemptCooled(c, k)
          BY <4>2, HalfOpenSound DEF AttemptCooled
        <4> QED BY <2>4, <3>1, <4>1, <4>2
      <3>3. PICK f \in Entry : registry' = [registry EXCEPT ![k] = f] /\ f.state = "HALF_OPEN"
        BY <3>2, AdmitStep DEF IInv
      <3>4. registry'[k] = f
        BY <3>3 DEF IInv, TypeOK
      <3> QED BY <3>3, <3>4, EntryTypes
    <2>5. ASSUME NEW j \in Keys, CoolDown(j) PROVE FALSE
      BY <2>5, CoolingKeepsStates DEF Resident
    <2>6. ASSUME NEW c \in Callers, Finish(c)
          PROVE  /\ ProbesOn(k) = {c} /\ call'[c] = NoAttempt
                 /\ IsCurrent(c) /\ failures' = failures
      <3>1. PICK j \in Keys, e \in Entry :
              /\ call[c].key = j /\ registry' = [registry EXCEPT ![j] = e]
              /\ registry[j].state # "CLOSED" /\ e.state = "CLOSED" =>
                   /\ IsCurrent(c) /\ call[c].probe /\ registry[j].activeProbes = 1
                   /\ failures' = failures
        BY <2>6, FinishPreserves DEF IInv
      <3>2. j = k /\ registry'[k] = e
        BY <2>1, <3>1 DEF IInv, TypeOK
      <3>3. e.state = "CLOSED"
        BY <3>2, EntryTypes
      <3>4. IsCurrent(c) /\ call[c].probe /\ registry[k].activeProbes = 1 /\ failures' = failures
        BY <3>1, <3>2, <3>3
      <3>5. call'[c] = NoAttempt
        BY <2>6, FinishPreserves DEF IInv, TypeOK
      <3>6. ProbesOn(k) = {c}
        <4>1. c \in ProbesOn(k)
          BY <3>1, <3>2, <3>4 DEF ProbesOn, OnKey
        <4>2. Cardinality(ProbesOn(k)) = 1
          BY <3>4 DEF IInv, CircuitsInv, CircuitSound
        <4>3. \E d : ProbesOn(k) = {d}
          BY <4>2, InFlightFinite, FS_Singleton
        <4> QED BY <4>1, <4>3
      <3> QED BY <3>4, <3>5, <3>6
    <2> QED BY <2>2, <2>3, <2>4, <2>5, <2>6 DEF Next, AttemptOn
  <1> QED BY <1>1, Invariance, PTL DEF Spec, ClosesByItsLastProbe

===============================================================================
