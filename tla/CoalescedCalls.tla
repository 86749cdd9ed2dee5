---------------------------- MODULE CoalescedCalls ----------------------------
(***************************************************************************)
(* What single-flight promises, without locks, permits or events: of the   *)
(* calls that carry one key at most one executes at a time, a call that    *)
(* arrives meanwhile joins that execution, and what it is given is what    *)
(* that very execution published when it ended.                            *)
(***************************************************************************)
CONSTANTS
  Calls,      \* the requests, each made once
  KeyOf,      \* the equivalence key of each call
  Outcomes,   \* what an execution can publish
  GaveUp,     \* answers of a call that stops waiting before it is served
  None

Keys == {KeyOf[c] : c \in Calls}

VARIABLES
  running,    \* the call that executes for each key, or None
  joined,     \* the execution each call belongs to (its own if it executes)
  published,  \* the outcome of each ended execution, or None
  got         \* what each joining call has been given, or None

vars == <<running, joined, published, got>>

Init ==
  /\ running = [k \in Keys |-> None]
  /\ joined = [c \in Calls |-> None]
  /\ published = [c \in Calls |-> None]
  /\ got = [c \in Calls |-> None]

\* No execution is in flight for the key: this call starts one.
Begin(c) ==
  /\ joined[c] = None
  /\ running[KeyOf[c]] = None
  /\ running' = [running EXCEPT ![KeyOf[c]] = c]
  /\ joined' = [joined EXCEPT ![c] = c]
  /\ UNCHANGED <<published, got>>

\* One is in flight: this call joins it instead of executing.
Join(c) ==
  /\ joined[c] = None
  /\ running[KeyOf[c]] # None
  /\ joined' = [joined EXCEPT ![c] = running[KeyOf[c]]]
  /\ UNCHANGED <<running, published, got>>

\* The execution ends: it publishes its outcome and frees the key at once.
End(c) ==
  /\ running[KeyOf[c]] = c
  /\ running' = [running EXCEPT ![KeyOf[c]] = None]
  /\ \E r \in Outcomes : published' = [published EXCEPT ![c] = r]
  /\ UNCHANGED <<joined, got>>

\* A joined call is given what its execution published.
Take(c) ==
  /\ joined[c] \notin {None, c}
  /\ got[c] = None
  /\ published[joined[c]] # None
  /\ got' = [got EXCEPT ![c] = published[joined[c]]]
  /\ UNCHANGED <<running, joined, published>>

\* A joined call stops waiting (bounded wait, or an error of its own).
GiveUp(c) ==
  /\ joined[c] \notin {None, c}
  /\ got[c] = None
  /\ \E a \in GaveUp : got' = [got EXCEPT ![c] = a]
  /\ UNCHANGED <<running, joined, published>>

Next == \E c \in Calls : Begin(c) \/ Join(c) \/ End(c) \/ Take(c) \/ GiveUp(c)

Spec == Init /\ [][Next]_vars
===============================================================================
