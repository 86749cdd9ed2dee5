---------------------------- MODULE MCRunDirectory ----------------------------
(* Legacy processes overlap in twos and hold all the same; multi-agent ones *)
(* one after another, a crash between any two steps; and overlapping ones.  *)
EXTENDS RunDirectory, TLC

MCModes == {"legacy", "multi"}
MCMulti == {"multi"}
MCOverlap == [m \in MCModes |-> IF m = "legacy" THEN 2 ELSE 1]
MCSymmetry == Permutations(Proc)
MCRace == [m \in MCMulti |-> 2]
===============================================================================
