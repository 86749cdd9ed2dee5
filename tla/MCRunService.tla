----------------------------- MODULE MCRunService -----------------------------
(* Three requests for the same key: one may own it, two may follow, or the  *)
(* third may own it after the first, in the same process or the next.       *)
EXTENDS RunService, TLC

CONSTANTS c1, c2, c3

MCCalls == {c1, c2, c3}
MCKeyOf == [c \in MCCalls |-> "key"]
MCPair == {c1, c2}
MCPairKeyOf == [c \in MCPair |-> "key"]
Symmetry == Permutations(MCCalls)
===============================================================================
