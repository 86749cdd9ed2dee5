--------------------------- MODULE MCSingleFlight ---------------------------
(***************************************************************************)
(* Small instances of SingleFlight: three equivalent API calls, one API    *)
(* call with another key, and one unmetered (CLI) call.                    *)
(***************************************************************************)
EXTENDS SingleFlight, TLC

CONSTANTS a1, a2, a3, b1, u1, k1, k2

MCKeyOf == [c \in Calls |-> IF c = b1 THEN k2 ELSE k1]
Equivalent == Permutations({a1, a2, a3})
=============================================================================
