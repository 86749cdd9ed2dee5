--------------------------- MODULE MCCircuitBreaker ---------------------------
(* Three threads and two or three resources with room for two circuits. *)
EXTENDS CircuitBreaker, TLC

Interchangeable == Permutations(Keys) \cup Permutations(Callers)
===============================================================================
