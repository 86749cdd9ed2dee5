---------------------------- MODULE MCMultiAgentRun ----------------------------
(* The default policy's limits, and the boundaries: no revision allowed, a  *)
(* stage wider than the pool, a call budget that ends in the revision, and  *)
(* tokens that run out on the way, each limit at a different call.          *)
EXTENDS MultiAgentRun

MCUsages == {NoUsage, [input |-> 2, output |-> 1]}

Roomy == [agentInput |-> 2, agentOutput |-> 1, runInput |-> 50, runOutput |-> 50,
          runTotal |-> 100, reserve |-> 0]
Scarce == {[Roomy EXCEPT !.runTotal = 13, !.reserve = 3], [Roomy EXCEPT !.runInput = 17],
           [Roomy EXCEPT !.runOutput = 4], [Roomy EXCEPT !.agentInput = 1]}
Policy(c, p, r) ==
  [maxCalls |-> c, maxParallel |-> p, maxRevisions |-> r, tokens |-> Roomy]

MCPolicies ==
  {Policy(9, 3, 1), Policy(7, 3, 1), Policy(9, 2, 1), Policy(9, 3, 0)}
    \cup {[Policy(9, 3, 1) EXCEPT !.tokens = t] : t \in Scarce}
MCDefaultPolicy == {Policy(10, 3, 1)}
================================================================================
