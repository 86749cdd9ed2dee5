-------------------------- MODULE SingleFlightProofs --------------------------
(***************************************************************************)
(* Theorems about SingleFlight for every set of calls, every assignment of *)
(* keys and every limit.  The inductive invariant has five parts, each     *)
(* proved from those before it:                                            *)
(*   TypeInv    the variables have their types, and a waiting call has an  *)
(*              entry to wait on (permits only Int: that they stay within  *)
(*              bounds is a consequence of PermitInv);                     *)
(*   LockInv    who is in a locked section that spans two steps;           *)
(*   EntryInv   the registry lists exactly the executing calls;            *)
(*   FlightInv  how a call's entry, answer and control state agree;        *)
(*   PermitInv  who holds a permit, and that permits are conserved.        *)
(***************************************************************************)
EXTENDS SingleFlight, FiniteSetTheorems, TLAPS

PCs == {"new", "counting", "owning", "unwinding", "removing", "joined", "waiting",
        "woken", "refused", "ended", "directCounting", "direct"}

TypeInv ==
  /\ lock \in Calls \cup {None}
  /\ entries \in [Keys -> Calls \cup {None}]
  /\ flight \in [Calls -> Calls \cup {None}]
  /\ outcome \in [Calls -> Outcomes]
  /\ done \in [Calls -> BOOLEAN]
  /\ permits \in Int
  /\ holds \in SUBSET Calls
  /\ window \in 0..PerMinute
  /\ pc \in [Calls -> PCs]
  /\ answer \in [Calls -> Answers]
  /\ \A c \in Calls : pc[c] \in {"joined", "waiting", "woken"} => flight[c] \in Calls

LockInv ==
  \A c \in Calls : (lock = c) <=> (pc[c] \in {"counting", "removing"})

EntryInv ==
  /\ EntriesHaveLiveOwners
  /\ \A c \in Calls : pc[c] = "counting" => entries[KeyOf[c]] = None

FlightInv ==
  \A c \in Calls :
    /\ Executing(c) => flight[c] = c
    /\ pc[c] \in {"new", "joined", "waiting", "woken"} => answer[c] = None
    /\ pc[c] \in {"joined", "waiting", "woken"} => IsFollower(c)
    /\ flight[c] = c => Executing(c) \/ (pc[c] = "ended" /\ done[c])
    /\ pc[c] = "woken" => done[flight[c]]
    /\ done[c] => pc[c] = "ended" /\ flight[c] = c
    /\ IsFollower(c) => /\ flight[flight[c]] = flight[c]
                        /\ KeyOf[flight[c]] = KeyOf[c]
                        /\ pc[c] \in {"joined", "waiting", "woken", "ended"}
    /\ flight[c] = c /\ pc[c] # "owning" =>
         \/ answer[c] = outcome[c]
         \/ answer[c] = Raised /\ outcome[c] \in {RunnerFailed, RunCancelled}
    /\ IsFollower(c) /\ answer[c] \in Outcomes =>
         done[flight[c]] /\ answer[c] = outcome[flight[c]]

HoldingStates == {"counting", "owning", "unwinding", "directCounting", "direct"}

PermitInv ==
  /\ \A c \in Calls : pc[c] \in {"counting", "directCounting", "direct"} => c \in ApiCalls
  /\ holds = {c \in ApiCalls : pc[c] \in HoldingStates}
  /\ IsFiniteSet(holds)
  /\ permits + Cardinality(holds) = MaxConcurrent
  /\ permits >= 0

-------------------------------------------------------------------------------
(* Typing *)

\* Every call has a key, by the definition of the set of keys.
LEMMA KeyOfType == \A c \in Calls : KeyOf[c] \in Keys
  BY DEF Keys

\* A fresh coordinator and limiter have the types TypeInv states.
LEMMA TypeInit == Init => TypeInv
  BY LimitsAssumption, CallsAssumption
  DEF Init, TypeInv, PCs, Outcomes, Answers

\* Every action assigns values of the variables' types.
LEMMA TypeStep == TypeInv /\ [Next]_vars => TypeInv'
  <1> SUFFICES ASSUME TypeInv, [Next]_vars PROVE TypeInv'
    OBVIOUS
  <1> USE CallsAssumption, LimitsAssumption, KeyOfType
      DEF TypeInv, PCs, Goto, Outcomes, Answers
  <1>1. ASSUME NEW c \in Calls, Claim(c) PROVE TypeInv'
    <2>1. CASE AcquireAsOwner(c)     BY <2>1 DEF AcquireAsOwner, TakePermit
    <2>2. CASE RefuseBusy(c)         BY <2>2 DEF RefuseBusy
    <2>3. CASE CountOwner(c)         BY <2>3 DEF CountOwner, Counted, Register
    <2>4. CASE RefuseOwnerRate(c)    BY <2>4 DEF RefuseOwnerRate, RateExceeded, GivePermit
    <2>5. CASE JoinCounted(c)        BY <2>5 DEF JoinCounted, Counted
    <2>6. CASE RefuseFollowerRate(c) BY <2>6 DEF RefuseFollowerRate, RateExceeded
    <2>7. CASE OwnUnmetered(c)       BY <2>7 DEF OwnUnmetered, Register
    <2>8. CASE JoinUnmetered(c)      BY <2>8 DEF JoinUnmetered
    <2> QED BY <1>1, <2>1, <2>2, <2>3, <2>4, <2>5, <2>6, <2>7, <2>8 DEF Claim
  <1>2. ASSUME NEW c \in Calls, Body(c) PROVE TypeInv'
    <2>1. CASE OwnerCompletes(c) BY <2>1 DEF OwnerCompletes
    <2>2. CASE OwnerRaises(c)    BY <2>2 DEF OwnerRaises
    <2> QED BY <1>2, <2>1, <2>2 DEF Body
  <1>3. ASSUME NEW c \in Calls, Unwind(c) PROVE TypeInv'
    <2>1. CASE ReleasePermit(c)
      <3>1. CASE c \in ApiCalls    BY <2>1, <3>1 DEF ReleasePermit, GivePermit
      <3>2. CASE c \notin ApiCalls BY <2>1, <3>2 DEF ReleasePermit
      <3> QED BY <3>1, <3>2
    <2>2. CASE RemoveEntry(c)       BY <2>2 DEF RemoveEntry
    <2> QED BY <1>3, <2>1, <2>2 DEF Unwind
  <1>4. ASSUME NEW c \in Calls, Follow(c) \/ FollowerRaises(c) PROVE TypeInv'
    <2>1. CASE StartWait(c)      BY <2>1 DEF StartWait
    <2>2. CASE Wake(c)           BY <2>2 DEF Wake
    <2>3. CASE WaitTimesOut(c)   BY <2>3 DEF WaitTimesOut
    <2>4. CASE ReadOutcome(c)
      <3>1. outcome[flight[c]] \in Answers
        BY <2>4 DEF ReadOutcome
      <3> QED BY <2>4, <3>1 DEF ReadOutcome
    <2>5. CASE FollowerRaises(c) BY <2>5 DEF FollowerRaises
    <2> QED BY <1>4, <2>1, <2>2, <2>3, <2>4, <2>5 DEF Follow
  <1>5. ASSUME NEW c \in Calls, Direct(c) PROVE TypeInv'
    <2>1. CASE DirectAcquire(c)    BY <2>1 DEF DirectAcquire, TakePermit
    <2>2. CASE DirectRefuseBusy(c) BY <2>2 DEF DirectRefuseBusy
    <2>3. CASE DirectCount(c)      BY <2>3 DEF DirectCount, Counted
    <2>4. CASE DirectRefuseRate(c) BY <2>4 DEF DirectRefuseRate, RateExceeded, GivePermit
    <2>5. CASE DirectRelease(c)    BY <2>5 DEF DirectRelease, GivePermit
    <2> QED BY <1>5, <2>1, <2>2, <2>3, <2>4, <2>5 DEF Direct
  <1>6. CASE UNCHANGED vars
    BY <1>6 DEF vars
  <1> QED BY <1>1, <1>2, <1>3, <1>4, <1>5, <1>6 DEF Next
-------------------------------------------------------------------------------
(* The lock *)

\* A locked section that spans two steps has one thread in it.
LEMMA LockStep == TypeInv /\ LockInv /\ [Next]_vars => LockInv'
  <1> SUFFICES ASSUME TypeInv, LockInv, [Next]_vars PROVE LockInv'
    OBVIOUS
  <1> USE CallsAssumption DEF TypeInv, LockInv, Goto
  <1>1. ASSUME NEW c \in Calls, AcquireAsOwner(c) PROVE LockInv'
    BY <1>1 DEF AcquireAsOwner
  <1>2. ASSUME NEW c \in Calls, RefuseBusy(c) PROVE LockInv'
    BY <1>2 DEF RefuseBusy
  <1>3. ASSUME NEW c \in Calls, CountOwner(c) PROVE LockInv'
    BY <1>3 DEF CountOwner, Register
  <1>4. ASSUME NEW c \in Calls, RefuseOwnerRate(c) PROVE LockInv'
    BY <1>4 DEF RefuseOwnerRate
  <1>5. ASSUME NEW c \in Calls, JoinCounted(c) PROVE LockInv'
    BY <1>5 DEF JoinCounted
  <1>6. ASSUME NEW c \in Calls, RefuseFollowerRate(c) PROVE LockInv'
    BY <1>6 DEF RefuseFollowerRate
  <1>7. ASSUME NEW c \in Calls, OwnUnmetered(c) PROVE LockInv'
    BY <1>7 DEF OwnUnmetered, Register
  <1>8. ASSUME NEW c \in Calls, JoinUnmetered(c) PROVE LockInv'
    BY <1>8 DEF JoinUnmetered
  <1>9. ASSUME NEW c \in Calls, OwnerCompletes(c) PROVE LockInv'
    BY <1>9 DEF OwnerCompletes
  <1>10. ASSUME NEW c \in Calls, OwnerRaises(c) PROVE LockInv'
    BY <1>10 DEF OwnerRaises
  <1>11. ASSUME NEW c \in Calls, ReleasePermit(c) PROVE LockInv'
    BY <1>11 DEF ReleasePermit
  <1>12. ASSUME NEW c \in Calls, RemoveEntry(c) PROVE LockInv'
    BY <1>12 DEF RemoveEntry
  <1>13. ASSUME NEW c \in Calls, StartWait(c) PROVE LockInv'
    BY <1>13 DEF StartWait
  <1>14. ASSUME NEW c \in Calls, Wake(c) PROVE LockInv'
    BY <1>14 DEF Wake
  <1>15. ASSUME NEW c \in Calls, WaitTimesOut(c) PROVE LockInv'
    BY <1>15 DEF WaitTimesOut
  <1>16. ASSUME NEW c \in Calls, ReadOutcome(c) PROVE LockInv'
    BY <1>16 DEF ReadOutcome
  <1>17. ASSUME NEW c \in Calls, FollowerRaises(c) PROVE LockInv'
    BY <1>17 DEF FollowerRaises
  <1>18. ASSUME NEW c \in Calls, DirectAcquire(c) PROVE LockInv'
    BY <1>18 DEF DirectAcquire
  <1>19. ASSUME NEW c \in Calls, DirectRefuseBusy(c) PROVE LockInv'
    BY <1>19 DEF DirectRefuseBusy
  <1>20. ASSUME NEW c \in Calls, DirectCount(c) PROVE LockInv'
    BY <1>20 DEF DirectCount
  <1>21. ASSUME NEW c \in Calls, DirectRefuseRate(c) PROVE LockInv'
    BY <1>21 DEF DirectRefuseRate
  <1>22. ASSUME NEW c \in Calls, DirectRelease(c) PROVE LockInv'
    BY <1>22 DEF DirectRelease
  <1>23. CASE UNCHANGED vars
    BY <1>23 DEF vars
  <1> QED BY <1>1, <1>2, <1>3, <1>4, <1>5, <1>6, <1>7, <1>8, <1>9, <1>10, <1>11, <1>12,
             <1>13, <1>14, <1>15, <1>16, <1>17, <1>18, <1>19, <1>20, <1>21, <1>22, <1>23
          DEF Next, Claim, Body, Unwind, Follow, Direct

-------------------------------------------------------------------------------
(* The registry *)

\* Registration and removal happen in the same locked section as the lookup
\* or release that justifies them, so the registry follows the owners.
LEMMA EntryStep == TypeInv /\ LockInv /\ EntryInv /\ [Next]_vars => EntryInv'
  <1> SUFFICES ASSUME TypeInv, LockInv, EntryInv, [Next]_vars PROVE EntryInv'
    OBVIOUS
  <1> USE CallsAssumption, KeyOfType
      DEF TypeInv, LockInv, EntryInv, EntriesHaveLiveOwners, Executing, Goto
  <1>1. ASSUME NEW c \in Calls, AcquireAsOwner(c) PROVE EntryInv'
    BY <1>1 DEF AcquireAsOwner
  <1>2. ASSUME NEW c \in Calls, RefuseBusy(c) PROVE EntryInv'
    BY <1>2 DEF RefuseBusy
  <1>3. ASSUME NEW c \in Calls, CountOwner(c) PROVE EntryInv'
    BY <1>3 DEF CountOwner, Register
  <1>4. ASSUME NEW c \in Calls, RefuseOwnerRate(c) PROVE EntryInv'
    BY <1>4 DEF RefuseOwnerRate
  <1>5. ASSUME NEW c \in Calls, JoinCounted(c) PROVE EntryInv'
    BY <1>5 DEF JoinCounted
  <1>6. ASSUME NEW c \in Calls, RefuseFollowerRate(c) PROVE EntryInv'
    BY <1>6 DEF RefuseFollowerRate
  <1>7. ASSUME NEW c \in Calls, OwnUnmetered(c) PROVE EntryInv'
    BY <1>7 DEF OwnUnmetered, Register
  <1>8. ASSUME NEW c \in Calls, JoinUnmetered(c) PROVE EntryInv'
    BY <1>8 DEF JoinUnmetered
  <1>9. ASSUME NEW c \in Calls, OwnerCompletes(c) PROVE EntryInv'
    BY <1>9 DEF OwnerCompletes
  <1>10. ASSUME NEW c \in Calls, OwnerRaises(c) PROVE EntryInv'
    BY <1>10 DEF OwnerRaises
  <1>11. ASSUME NEW c \in Calls, ReleasePermit(c) PROVE EntryInv'
    BY <1>11 DEF ReleasePermit
  <1>12. ASSUME NEW c \in Calls, RemoveEntry(c) PROVE EntryInv'
    BY <1>12 DEF RemoveEntry
  <1>13. ASSUME NEW c \in Calls, StartWait(c) PROVE EntryInv'
    BY <1>13 DEF StartWait
  <1>14. ASSUME NEW c \in Calls, Wake(c) PROVE EntryInv'
    BY <1>14 DEF Wake
  <1>15. ASSUME NEW c \in Calls, WaitTimesOut(c) PROVE EntryInv'
    BY <1>15 DEF WaitTimesOut
  <1>16. ASSUME NEW c \in Calls, ReadOutcome(c) PROVE EntryInv'
    BY <1>16 DEF ReadOutcome
  <1>17. ASSUME NEW c \in Calls, FollowerRaises(c) PROVE EntryInv'
    BY <1>17 DEF FollowerRaises
  <1>18. ASSUME NEW c \in Calls, DirectAcquire(c) PROVE EntryInv'
    BY <1>18 DEF DirectAcquire
  <1>19. ASSUME NEW c \in Calls, DirectRefuseBusy(c) PROVE EntryInv'
    BY <1>19 DEF DirectRefuseBusy
  <1>20. ASSUME NEW c \in Calls, DirectCount(c) PROVE EntryInv'
    BY <1>20 DEF DirectCount
  <1>21. ASSUME NEW c \in Calls, DirectRefuseRate(c) PROVE EntryInv'
    BY <1>21 DEF DirectRefuseRate
  <1>22. ASSUME NEW c \in Calls, DirectRelease(c) PROVE EntryInv'
    BY <1>22 DEF DirectRelease
  <1>23. CASE UNCHANGED vars
    BY <1>23 DEF vars
  <1> QED BY <1>1, <1>2, <1>3, <1>4, <1>5, <1>6, <1>7, <1>8, <1>9, <1>10, <1>11, <1>12,
             <1>13, <1>14, <1>15, <1>16, <1>17, <1>18, <1>19, <1>20, <1>21, <1>22, <1>23
          DEF Next, Claim, Body, Unwind, Follow, Direct

-------------------------------------------------------------------------------
(* Entries, outcomes and answers *)

\* An entry's outcome is settled before its event is set and never afterwards,
\* and only its own followers read it.
LEMMA FlightStep == TypeInv /\ LockInv /\ EntryInv /\ FlightInv /\ [Next]_vars => FlightInv'
  <1> SUFFICES ASSUME TypeInv, LockInv, EntryInv, FlightInv, [Next]_vars PROVE FlightInv'
    OBVIOUS
  <1> USE CallsAssumption, ResultsAssumption, KeyOfType
      DEF TypeInv, PCs, LockInv, EntryInv, EntriesHaveLiveOwners, FlightInv, Executing, IsFollower, Goto
  <1>1. ASSUME NEW c \in Calls, AcquireAsOwner(c) PROVE FlightInv'
    BY <1>1 DEF AcquireAsOwner
  <1>2. ASSUME NEW c \in Calls, RefuseBusy(c) PROVE FlightInv'
    BY <1>2 DEF RefuseBusy
  <1>3. ASSUME NEW c \in Calls, CountOwner(c) PROVE FlightInv'
    BY <1>3 DEF CountOwner, Register
  <1>4. ASSUME NEW c \in Calls, RefuseOwnerRate(c) PROVE FlightInv'
    BY <1>4 DEF RefuseOwnerRate
  <1>5. ASSUME NEW c \in Calls, JoinCounted(c) PROVE FlightInv'
    BY <1>5 DEF JoinCounted
  <1>6. ASSUME NEW c \in Calls, RefuseFollowerRate(c) PROVE FlightInv'
    BY <1>6 DEF RefuseFollowerRate
  <1>7. ASSUME NEW c \in Calls, OwnUnmetered(c) PROVE FlightInv'
    BY <1>7 DEF OwnUnmetered, Register
  <1>8. ASSUME NEW c \in Calls, JoinUnmetered(c) PROVE FlightInv'
    BY <1>8 DEF JoinUnmetered
  <1>9. ASSUME NEW c \in Calls, OwnerCompletes(c) PROVE FlightInv'
    BY <1>9 DEF OwnerCompletes
  <1>10. ASSUME NEW c \in Calls, OwnerRaises(c) PROVE FlightInv'
    BY <1>10 DEF OwnerRaises
  <1>11. ASSUME NEW c \in Calls, ReleasePermit(c) PROVE FlightInv'
    BY <1>11 DEF ReleasePermit
  <1>12. ASSUME NEW c \in Calls, RemoveEntry(c) PROVE FlightInv'
    BY <1>12 DEF RemoveEntry
  <1>13. ASSUME NEW c \in Calls, StartWait(c) PROVE FlightInv'
    BY <1>13 DEF StartWait
  <1>14. ASSUME NEW c \in Calls, Wake(c) PROVE FlightInv'
    BY <1>14 DEF Wake
  <1>15. ASSUME NEW c \in Calls, WaitTimesOut(c) PROVE FlightInv'
    BY <1>15 DEF WaitTimesOut
  <1>16. ASSUME NEW c \in Calls, ReadOutcome(c) PROVE FlightInv'
    BY <1>16 DEF ReadOutcome
  <1>17. ASSUME NEW c \in Calls, FollowerRaises(c) PROVE FlightInv'
    BY <1>17 DEF FollowerRaises
  <1>18. ASSUME NEW c \in Calls, DirectAcquire(c) PROVE FlightInv'
    BY <1>18 DEF DirectAcquire
  <1>19. ASSUME NEW c \in Calls, DirectRefuseBusy(c) PROVE FlightInv'
    BY <1>19 DEF DirectRefuseBusy
  <1>20. ASSUME NEW c \in Calls, DirectCount(c) PROVE FlightInv'
    BY <1>20 DEF DirectCount
  <1>21. ASSUME NEW c \in Calls, DirectRefuseRate(c) PROVE FlightInv'
    BY <1>21 DEF DirectRefuseRate
  <1>22. ASSUME NEW c \in Calls, DirectRelease(c) PROVE FlightInv'
    BY <1>22 DEF DirectRelease
  <1>23. CASE UNCHANGED vars
    BY <1>23 DEF vars
  <1> QED BY <1>1, <1>2, <1>3, <1>4, <1>5, <1>6, <1>7, <1>8, <1>9, <1>10, <1>11, <1>12,
             <1>13, <1>14, <1>15, <1>16, <1>17, <1>18, <1>19, <1>20, <1>21, <1>22, <1>23
          DEF Next, Claim, Body, Unwind, Follow, Direct

-------------------------------------------------------------------------------
(* Permits *)

\* A call that takes a permit had none, so the pool shrinks by one.
LEMMA TakeConserves ==
  ASSUME TypeInv, PermitInv, NEW c \in Calls, c \notin holds, TakePermit(c)
  PROVE  /\ IsFiniteSet(holds') /\ permits' + Cardinality(holds') = MaxConcurrent
         /\ permits' >= 0
  <1>1. /\ IsFiniteSet(holds \cup {c})
        /\ Cardinality(holds \cup {c}) = Cardinality(holds) + 1
    BY FS_AddElement DEF PermitInv
  <1>2. Cardinality(holds) \in Nat
    BY FS_CardinalityType DEF PermitInv
  <1> QED BY <1>1, <1>2, LimitsAssumption DEF TypeInv, PermitInv, TakePermit

\* A call that gives one back held one, so the pool grows by one.
LEMMA GiveConserves ==
  ASSUME TypeInv, PermitInv, NEW c \in Calls, c \in holds, GivePermit(c)
  PROVE  /\ IsFiniteSet(holds') /\ permits' + Cardinality(holds') = MaxConcurrent
         /\ permits' >= 0
  <1>1. /\ IsFiniteSet(holds \ {c})
        /\ Cardinality(holds \ {c}) = Cardinality(holds) - 1
    BY FS_RemoveElement DEF PermitInv
  <1>2. Cardinality(holds) \in Nat
    BY FS_CardinalityType DEF PermitInv
  <1> QED BY <1>1, <1>2, LimitsAssumption DEF TypeInv, PermitInv, GivePermit

\* Each state that holds a permit is entered by taking one and left by giving
\* it back.
LEMMA PermitStep == TypeInv /\ PermitInv /\ [Next]_vars => PermitInv'
  <1> SUFFICES ASSUME TypeInv, PermitInv, [Next]_vars PROVE PermitInv'
    OBVIOUS
  <1> USE CallsAssumption DEF TypeInv, PCs, HoldingStates, Goto
  <1>1. ASSUME NEW c \in Calls, AcquireAsOwner(c) PROVE PermitInv'
    <2>1. c \notin holds /\ TakePermit(c)
      BY <1>1 DEF PermitInv, AcquireAsOwner
    <2>2. holds' = {d \in ApiCalls : pc'[d] \in HoldingStates}
      BY <1>1 DEF PermitInv, AcquireAsOwner, TakePermit
    <2> QED BY <1>1, <2>1, <2>2, TakeConserves DEF PermitInv, AcquireAsOwner
  <1>2. ASSUME NEW c \in Calls, RefuseBusy(c) PROVE PermitInv'
    BY <1>2 DEF PermitInv, RefuseBusy
  <1>3. ASSUME NEW c \in Calls, CountOwner(c) PROVE PermitInv'
    BY <1>3 DEF PermitInv, CountOwner, Register
  <1>4. ASSUME NEW c \in Calls, RefuseOwnerRate(c) PROVE PermitInv'
    <2>1. c \in holds /\ GivePermit(c)
      BY <1>4 DEF PermitInv, RefuseOwnerRate
    <2>2. holds' = {d \in ApiCalls : pc'[d] \in HoldingStates}
      BY <1>4 DEF PermitInv, RefuseOwnerRate, GivePermit
    <2> QED BY <1>4, <2>1, <2>2, GiveConserves DEF PermitInv, RefuseOwnerRate
  <1>5. ASSUME NEW c \in Calls, JoinCounted(c) PROVE PermitInv'
    BY <1>5 DEF PermitInv, JoinCounted
  <1>6. ASSUME NEW c \in Calls, RefuseFollowerRate(c) PROVE PermitInv'
    BY <1>6 DEF PermitInv, RefuseFollowerRate
  <1>7. ASSUME NEW c \in Calls, OwnUnmetered(c) PROVE PermitInv'
    BY <1>7 DEF PermitInv, OwnUnmetered, Register
  <1>8. ASSUME NEW c \in Calls, JoinUnmetered(c) PROVE PermitInv'
    BY <1>8 DEF PermitInv, JoinUnmetered
  <1>9. ASSUME NEW c \in Calls, OwnerCompletes(c) PROVE PermitInv'
    BY <1>9 DEF PermitInv, OwnerCompletes
  <1>10. ASSUME NEW c \in Calls, OwnerRaises(c) PROVE PermitInv'
    BY <1>10 DEF PermitInv, OwnerRaises
  <1>11. ASSUME NEW c \in Calls, ReleasePermit(c) PROVE PermitInv'
    <2>1. CASE c \in ApiCalls
      <3>1. c \in holds /\ GivePermit(c)
        BY <1>11, <2>1 DEF PermitInv, ReleasePermit
      <3>2. holds' = {d \in ApiCalls : pc'[d] \in HoldingStates}
        BY <1>11, <2>1 DEF PermitInv, ReleasePermit, GivePermit
      <3> QED BY <1>11, <3>1, <3>2, GiveConserves DEF PermitInv, ReleasePermit
    <2>2. CASE c \notin ApiCalls
      <3>1. UNCHANGED <<permits, holds>> /\ pc' = [pc EXCEPT ![c] = "removing"]
        BY <1>11, <2>2 DEF ReleasePermit
      <3>2. \A d \in Calls : d # c => pc'[d] = pc[d]
        BY <3>1
      <3>3. {d \in ApiCalls : pc'[d] \in HoldingStates} = {d \in ApiCalls : pc[d] \in HoldingStates}
        BY <2>2, <3>2
      <3>4. \A d \in Calls : pc'[d] \in {"counting", "directCounting", "direct"} => d \in ApiCalls
        BY <3>1, <3>2 DEF PermitInv
      <3> QED BY <3>1, <3>3, <3>4 DEF PermitInv
    <2> QED BY <2>1, <2>2
  <1>12. ASSUME NEW c \in Calls, RemoveEntry(c) PROVE PermitInv'
    BY <1>12 DEF PermitInv, RemoveEntry
  <1>13. ASSUME NEW c \in Calls, StartWait(c) PROVE PermitInv'
    BY <1>13 DEF PermitInv, StartWait
  <1>14. ASSUME NEW c \in Calls, Wake(c) PROVE PermitInv'
    BY <1>14 DEF PermitInv, Wake
  <1>15. ASSUME NEW c \in Calls, WaitTimesOut(c) PROVE PermitInv'
    BY <1>15 DEF PermitInv, WaitTimesOut
  <1>16. ASSUME NEW c \in Calls, ReadOutcome(c) PROVE PermitInv'
    BY <1>16 DEF PermitInv, ReadOutcome
  <1>17. ASSUME NEW c \in Calls, FollowerRaises(c) PROVE PermitInv'
    BY <1>17 DEF PermitInv, FollowerRaises
  <1>18. ASSUME NEW c \in Calls, DirectAcquire(c) PROVE PermitInv'
    <2>1. c \notin holds /\ TakePermit(c)
      BY <1>18 DEF PermitInv, DirectAcquire
    <2>2. holds' = {d \in ApiCalls : pc'[d] \in HoldingStates}
      BY <1>18 DEF PermitInv, DirectAcquire, TakePermit
    <2> QED BY <1>18, <2>1, <2>2, TakeConserves DEF PermitInv, DirectAcquire
  <1>19. ASSUME NEW c \in Calls, DirectRefuseBusy(c) PROVE PermitInv'
    BY <1>19 DEF PermitInv, DirectRefuseBusy
  <1>20. ASSUME NEW c \in Calls, DirectCount(c) PROVE PermitInv'
    BY <1>20 DEF PermitInv, DirectCount
  <1>21. ASSUME NEW c \in Calls, DirectRefuseRate(c) PROVE PermitInv'
    <2>1. c \in holds /\ GivePermit(c)
      BY <1>21 DEF PermitInv, DirectRefuseRate
    <2>2. holds' = {d \in ApiCalls : pc'[d] \in HoldingStates}
      BY <1>21 DEF PermitInv, DirectRefuseRate, GivePermit
    <2> QED BY <1>21, <2>1, <2>2, GiveConserves DEF PermitInv, DirectRefuseRate
  <1>22. ASSUME NEW c \in Calls, DirectRelease(c) PROVE PermitInv'
    <2>1. c \in holds /\ GivePermit(c)
      BY <1>22 DEF PermitInv, DirectRelease
    <2>2. holds' = {d \in ApiCalls : pc'[d] \in HoldingStates}
      BY <1>22 DEF PermitInv, DirectRelease, GivePermit
    <2> QED BY <1>22, <2>1, <2>2, GiveConserves DEF PermitInv, DirectRelease
  <1>23. CASE UNCHANGED vars
    BY <1>23 DEF PermitInv, vars
  <1> QED BY <1>1, <1>2, <1>3, <1>4, <1>5, <1>6, <1>7, <1>8, <1>9, <1>10, <1>11, <1>12,
             <1>13, <1>14, <1>15, <1>16, <1>17, <1>18, <1>19, <1>20, <1>21, <1>22, <1>23
          DEF Next, Claim, Body, Unwind, Follow, Direct

-------------------------------------------------------------------------------
(* The invariant and what follows from it *)

IInv == TypeInv /\ LockInv /\ EntryInv /\ FlightInv /\ PermitInv

\* The invariant holds before the first call: no thread is in claim(), no entry
\* is registered and every permit is free.
LEMMA InitIInv == Init => IInv
  <1> SUFFICES ASSUME Init PROVE IInv
    OBVIOUS
  <1>1. TypeInv
    BY TypeInit
  <1>2. LockInv /\ EntryInv
    BY CallsAssumption, KeyOfType
    DEF Init, LockInv, EntryInv, EntriesHaveLiveOwners, Executing
  <1>3. FlightInv
    BY CallsAssumption, ResultsAssumption
    DEF Init, FlightInv, Executing, IsFollower, Outcomes
  <1>4. PermitInv
    BY CallsAssumption, LimitsAssumption, FS_EmptySet
    DEF Init, PermitInv, HoldingStates
  <1> QED BY <1>1, <1>2, <1>3, <1>4 DEF IInv

\* Every statement of every call preserves the invariant: the five steps above
\* put together.
LEMMA StepIInv == IInv /\ [Next]_vars => IInv'
  BY TypeStep, LockStep, EntryStep, FlightStep, PermitStep DEF IInv

\* Hence it holds in every reachable state.
LEMMA Invariance == Spec => []IInv
  BY InitIInv, StepIInv, PTL DEF Spec

\* Since the permits add up to MaxConcurrent, they never leave 0..MaxConcurrent,
\* although GivePermit has no guard.
LEMMA PermitsBounded == IInv => permits \in 0..MaxConcurrent
  <1> SUFFICES ASSUME IInv PROVE permits \in 0..MaxConcurrent
    OBVIOUS
  <1>1. Cardinality(holds) \in Nat
    BY FS_CardinalityType DEF IInv, PermitInv
  <1> QED BY <1>1, LimitsAssumption DEF IInv, TypeInv, PermitInv

\* Every reachable state is type correct; in particular the bounded semaphore
\* is never released past its initial value.
THEOREM TypeCorrect == Spec => []TypeOK
  <1>1. IInv => TypeOK
    BY PermitsBounded DEF IInv, TypeInv, TypeOK, PCs
  <1> QED BY Invariance, <1>1, PTL

\* At most one of the equivalent calls executes at a time.
THEOREM SingleExecution == Spec => []OneExecutionPerKey
  <1>1. IInv => OneExecutionPerKey
    BY DEF IInv, EntryInv, EntriesHaveLiveOwners, OneExecutionPerKey
  <1> QED BY Invariance, <1>1, PTL

\* No path strands an entry, and no executing call is missing from the registry.
THEOREM EntriesFollowOwners == Spec => []EntriesHaveLiveOwners
  <1>1. IInv => EntriesHaveLiveOwners
    BY DEF IInv, EntryInv
  <1> QED BY Invariance, <1>1, PTL

\* Permits are conserved over every admission, failure and cleanup path.
THEOREM PermitConservation == Spec => []PermitsAccounted
  <1>1. IInv => PermitsAccounted
    BY CallsAssumption
    DEF IInv, TypeInv, PermitInv, HoldingStates, PermitsAccounted
  <1> QED BY Invariance, <1>1, PTL

\* A follower is given its own owner's final outcome or a safe failure.
THEOREM OutcomeDelivery == Spec => []FollowersGetOwnersOutcome
  <1>1. IInv => FollowersGetOwnersOutcome
    <2> SUFFICES ASSUME IInv, NEW c \in Calls, IsFollower(c), answer[c] \in Outcomes
                 PROVE  LET owner == flight[c] IN
                        /\ KeyOf[owner] = KeyOf[c]
                        /\ pc[owner] = "ended"
                        /\ \/ answer[owner] = answer[c]
                           \/ /\ answer[owner] = Raised
                              /\ answer[c] \in {RunnerFailed, RunCancelled}
      BY DEF FollowersGetOwnersOutcome
    <2>1. flight[c] \in Calls
      BY DEF IInv, TypeInv, IsFollower
    <2>2. /\ KeyOf[flight[c]] = KeyOf[c]
          /\ flight[flight[c]] = flight[c]
          /\ done[flight[c]] /\ answer[c] = outcome[flight[c]]
      BY DEF IInv, FlightInv
    <2>3. pc[flight[c]] = "ended"
      BY <2>1, <2>2 DEF IInv, FlightInv
    <2> QED BY <2>1, <2>2, <2>3 DEF IInv, FlightInv
  <1> QED BY Invariance, <1>1, PTL

-------------------------------------------------------------------------------
(* The coordinator implements CoalescedCalls *)

\* The two mapped variables that are not variables of SingleFlight.
published == [c \in Calls |-> IF done[c] THEN outcome[c] ELSE None]
got == [c \in Calls |-> IF IsFollower(c) THEN answer[c] ELSE None]

\* Before the first call nothing runs, is joined or is published.
LEMMA RefinementInit == Init => Coalesced!Init
  BY DEF Init, Coalesced!Init, Coalesced!Keys, Keys, IsFollower

\* How the mapped variables change when an execution ends ...
LEMMA EndPublishes ==
  ASSUME TypeInv, NEW c \in Calls, RemoveEntry(c)
  PROVE  published' = [published EXCEPT ![c] = outcome[c]] /\ got' = got
  BY DEF TypeInv, RemoveEntry, published, got, IsFollower

\* ... and when a follower is given an answer.
LEMMA AnswerGiven ==
  ASSUME TypeInv, NEW c \in Calls, IsFollower(c), NEW a,
         answer' = [answer EXCEPT ![c] = a], UNCHANGED <<flight, outcome, done>>
  PROVE  published' = published /\ got' = [got EXCEPT ![c] = a]
  BY DEF TypeInv, published, got, IsFollower

\* Registration begins an execution, removal ends it, joins join; every other
\* step changes nothing the abstract specification can see.
LEMMA RefinementStep == IInv /\ [Next]_vars => [Coalesced!Next]_(Coalesced!vars)
  <1> SUFFICES ASSUME IInv, [Next]_vars
               PROVE  [Coalesced!Next]_(Coalesced!vars)
    OBVIOUS
  <1> USE CallsAssumption, ResultsAssumption, KeyOfType
      DEF IInv, TypeInv, PCs, LockInv, EntryInv, EntriesHaveLiveOwners, FlightInv,
          Executing, IsFollower, Goto
  <1>1. ASSUME NEW c \in Calls, AcquireAsOwner(c) PROVE UNCHANGED Coalesced!vars
    BY <1>1 DEF AcquireAsOwner, Coalesced!vars
  <1>2. ASSUME NEW c \in Calls, RefuseBusy(c) PROVE UNCHANGED Coalesced!vars
    BY <1>2 DEF RefuseBusy, Coalesced!vars
  <1>3. ASSUME NEW c \in Calls, CountOwner(c) PROVE Coalesced!Begin(c)
    BY <1>3 DEF CountOwner, Register, Coalesced!Begin
  <1>4. ASSUME NEW c \in Calls, RefuseOwnerRate(c) PROVE UNCHANGED Coalesced!vars
    BY <1>4 DEF RefuseOwnerRate, Coalesced!vars
  <1>5. ASSUME NEW c \in Calls, JoinCounted(c) PROVE Coalesced!Join(c)
    BY <1>5 DEF JoinCounted, Coalesced!Join
  <1>6. ASSUME NEW c \in Calls, RefuseFollowerRate(c) PROVE UNCHANGED Coalesced!vars
    BY <1>6 DEF RefuseFollowerRate, Coalesced!vars
  <1>7. ASSUME NEW c \in Calls, OwnUnmetered(c) PROVE Coalesced!Begin(c)
    BY <1>7 DEF OwnUnmetered, Register, Coalesced!Begin
  <1>8. ASSUME NEW c \in Calls, JoinUnmetered(c) PROVE Coalesced!Join(c)
    BY <1>8 DEF JoinUnmetered, Coalesced!Join
  <1>9. ASSUME NEW c \in Calls, OwnerCompletes(c) PROVE UNCHANGED Coalesced!vars
    BY <1>9 DEF OwnerCompletes, Coalesced!vars
  <1>10. ASSUME NEW c \in Calls, OwnerRaises(c) PROVE UNCHANGED Coalesced!vars
    BY <1>10 DEF OwnerRaises, Coalesced!vars
  <1>11. ASSUME NEW c \in Calls, ReleasePermit(c) PROVE UNCHANGED Coalesced!vars
    BY <1>11 DEF ReleasePermit, Coalesced!vars
  <1>12. ASSUME NEW c \in Calls, RemoveEntry(c) PROVE Coalesced!End(c)
    <2>1. outcome[c] \in Outcomes /\ entries[KeyOf[c]] = c
      BY <1>12 DEF RemoveEntry
    <2>2. published' = [published EXCEPT ![c] = outcome[c]] /\ got' = got
      BY <1>12, EndPublishes
    <2> QED BY <1>12, <2>1, <2>2 DEF RemoveEntry, Coalesced!End, published, got
  <1>13. ASSUME NEW c \in Calls, StartWait(c) PROVE UNCHANGED Coalesced!vars
    BY <1>13 DEF StartWait, Coalesced!vars
  <1>14. ASSUME NEW c \in Calls, Wake(c) PROVE UNCHANGED Coalesced!vars
    BY <1>14 DEF Wake, Coalesced!vars
  <1>15. ASSUME NEW c \in Calls, WaitTimesOut(c) PROVE Coalesced!GiveUp(c)
    <2>1. flight[c] \notin {None, c} /\ got[c] = None
      BY <1>15 DEF WaitTimesOut, got
    <2>2. published' = published /\ got' = [got EXCEPT ![c] = WaitTimeout]
      <3>1. answer' = [answer EXCEPT ![c] = WaitTimeout] /\ UNCHANGED <<flight, outcome, done>>
        BY <1>15 DEF WaitTimesOut
      <3>2. TypeInv /\ IsFollower(c)
        BY <2>1
      <3> QED BY ONLY <3>1, <3>2, AnswerGiven, c \in Calls
    <2> QED BY <1>15, <2>1, <2>2 DEF WaitTimesOut, Coalesced!GiveUp, published, got
  <1>16. ASSUME NEW c \in Calls, ReadOutcome(c) PROVE Coalesced!Take(c)
    <2>1. /\ flight[c] \in Calls \ {c} /\ done[flight[c]] /\ got[c] = None
          /\ published[flight[c]] = outcome[flight[c]]
          /\ outcome[flight[c]] # None
      BY <1>16 DEF ReadOutcome, published, got
    <2>2. published' = published /\ got' = [got EXCEPT ![c] = outcome[flight[c]]]
      <3>1. answer' = [answer EXCEPT ![c] = outcome[flight[c]]] /\ UNCHANGED <<flight, outcome, done>>
        BY <1>16 DEF ReadOutcome
      <3>2. TypeInv /\ IsFollower(c)
        BY <2>1
      <3> QED BY ONLY <3>1, <3>2, AnswerGiven, c \in Calls
    <2> QED BY <1>16, <2>1, <2>2 DEF ReadOutcome, Coalesced!Take, published, got
  <1>17. ASSUME NEW c \in Calls, FollowerRaises(c) PROVE Coalesced!GiveUp(c)
    <2>1. flight[c] \notin {None, c} /\ got[c] = None
      BY <1>17 DEF FollowerRaises, got
    <2>2. published' = published /\ got' = [got EXCEPT ![c] = Raised]
      <3>1. answer' = [answer EXCEPT ![c] = Raised] /\ UNCHANGED <<flight, outcome, done>>
        BY <1>17 DEF FollowerRaises
      <3>2. TypeInv /\ IsFollower(c)
        BY <2>1
      <3> QED BY ONLY <3>1, <3>2, AnswerGiven, c \in Calls
    <2> QED BY <1>17, <2>1, <2>2 DEF FollowerRaises, Coalesced!GiveUp, published, got
  <1>18. ASSUME NEW c \in Calls, DirectAcquire(c) PROVE UNCHANGED Coalesced!vars
    BY <1>18 DEF DirectAcquire, Coalesced!vars
  <1>19. ASSUME NEW c \in Calls, DirectRefuseBusy(c) PROVE UNCHANGED Coalesced!vars
    BY <1>19 DEF DirectRefuseBusy, Coalesced!vars
  <1>20. ASSUME NEW c \in Calls, DirectCount(c) PROVE UNCHANGED Coalesced!vars
    BY <1>20 DEF DirectCount, Coalesced!vars
  <1>21. ASSUME NEW c \in Calls, DirectRefuseRate(c) PROVE UNCHANGED Coalesced!vars
    BY <1>21 DEF DirectRefuseRate, Coalesced!vars
  <1>22. ASSUME NEW c \in Calls, DirectRelease(c) PROVE UNCHANGED Coalesced!vars
    BY <1>22 DEF DirectRelease, Coalesced!vars
  <1>23. CASE UNCHANGED vars
    BY <1>23 DEF vars, Coalesced!vars
  <1> QED BY <1>1, <1>2, <1>3, <1>4, <1>5, <1>6, <1>7, <1>8, <1>9, <1>10, <1>11, <1>12,
             <1>13, <1>14, <1>15, <1>16, <1>17, <1>18, <1>19, <1>20, <1>21, <1>22, <1>23
          DEF Next, Claim, Body, Unwind, Follow, Direct, Coalesced!Next

\* Every behaviour of the coordinator is one of the abstract coalescing.
THEOREM Refinement == Spec => ImplementsCoalescedCalls
  BY RefinementInit, RefinementStep, Invariance, PTL
  DEF Spec, ImplementsCoalescedCalls, Coalesced!Spec
===============================================================================
