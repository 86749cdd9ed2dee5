------------------------------ MODULE TokenBudget ------------------------------
(***************************************************************************)
(* The token budget of one prompt (token_budget/manager.py): a message is  *)
(* cut into named sections; when it is too long whole sections go, lowest  *)
(* priority first, until the rest fits.  Operators only.                   *)
(*                                                                         *)
(* A message is [base, sections, slack]: the characters of the system      *)
(* message and the metadata, the sections with their names and characters, *)
(* and the blank characters that joining the sections again drops.         *)
(***************************************************************************)
EXTENDS Naturals, Sequences, FiniteSets

CONSTANTS
  InputBudget,    \* max_tokens - reserved_response_tokens
  CharsPerToken   \* estimation_chars_per_token

ASSUME BudgetAssumption == InputBudget \in Nat \ {0} /\ CharsPerToken \in Nat \ {0}

\* DEFAULT_SECTION_PRIORITIES; a name without one has priority 0.
DefaultPriorities ==
  [system_message |-> 100, requirement |-> 90, project_overview |-> 80,
   technology_stack |-> 70, source_tracking |-> 60, evidence |-> 50, warnings |-> 40,
   unknowns |-> 30]
Priority(name) == IF name \in DOMAIN DefaultPriorities THEN DefaultPriorities[name] ELSE 0

\* TokenEstimator.estimate
Tokens(chars) ==
  LET t == (chars + CharsPerToken - 1) \div CharsPerToken IN IF t = 0 THEN 1 ELSE t

Indices(m) == 1..Len(m.sections)

\* The characters of the sections kept, one line break between two.
Joined(m, kept) ==
  LET sum[i \in 0..Len(m.sections)] ==
        IF i = 0 THEN 0
        ELSE sum[i - 1] + IF i \in kept THEN m.sections[i].chars ELSE 0
  IN  sum[Len(m.sections)] + IF kept = {} THEN 0 ELSE Cardinality(kept) - 1

Fits(m, kept) == Tokens(m.base + Joined(m, kept)) <= InputBudget

\* _removal_order: i goes before j.
GoesFirst(m, i, j) ==
  LET p(k) == Priority(m.sections[k].name) IN p(i) < p(j) \/ (p(i) = p(j) /\ i < j)

\* The sections left once n have gone.
After(m, n) == {i \in Indices(m) : Cardinality({j \in Indices(m) : GoesFirst(m, j, i)}) >= n}

\* Mutant of Removed: the loop looks whether the rest fits after it removes.
MutRemoved(m) ==
  CHOOSE n \in 1..Len(m.sections) :
    /\ Fits(m, After(m, n)) \/ n = Len(m.sections)
    /\ \A k \in 1..(n - 1) : ~ Fits(m, After(m, k))

\* _trim_sections: how many sections go before the rest fits, all if it never
\* does.
Removed(m) ==
  CHOOSE n \in 0..Len(m.sections) :
    /\ Fits(m, After(m, n)) \/ n = Len(m.sections)
    /\ \A k \in 0..(n - 1) : ~ Fits(m, After(m, k))

\* apply: the message as it is, refused, or trimmed.
Apply(m) ==
  LET whole == Tokens(m.base + m.slack + Joined(m, Indices(m))) <= InputBudget
      kept == IF whole THEN Indices(m) ELSE After(m, Removed(m))
  IN  [message |-> m, kept |-> kept, trimmed |-> ~ whole,
       error   |-> ~ whole /\ (Tokens(m.base) > InputBudget \/ ~ Fits(m, kept))]
===============================================================================
