---------------------------- MODULE MCPlanCompiler ----------------------------
(* Every dependency graph on four agents, self-loops apart; on three agents *)
(* every one, and every one that may also name an agent that is not there,  *)
(* or name one twice, or leave agents without an entry; a few graphs with   *)
(* an agent whose schemas are not registered; and the planner's topology.   *)
EXTENDS PlanCompiler

Four == <<"analyst", "design", "test", "risk">>
Three == {"analyst", "design", "test"}

Graphs(agents, n, known) ==
  {[agents |-> agents, entries |-> [i \in 1..n |-> [agent |-> Four[i], on |-> g[i]]]] :
     g \in [1..n -> SUBSET known]}

Loopless(s) == \A i \in 1..Len(s.entries) : s.entries[i].agent \notin s.entries[i].on

Complete == {s \in Graphs({Four[i] : i \in 1..4}, 4, {Four[i] : i \in 1..4}) : Loopless(s)}
Partial == UNION {Graphs(Three, n, Three) : n \in 1..3}
Dangling == Graphs(Three, 4, {"analyst", "risk"}) \cup Graphs(Three, 3, Three \cup {"risk"})
Twice == {[s EXCEPT !.entries = Append(@, @[1])] : s \in Graphs(Three, 2, Three)}
Stranger == {[agents |-> {"stranger", "design"}, entries |-> e] :
               e \in {<<>>, <<[agent |-> "stranger", on |-> {"design"}]>>}}

MCSpecs == {Planned} \cup Complete \cup Partial \cup Dangling \cup Twice \cup Stranger
===============================================================================
