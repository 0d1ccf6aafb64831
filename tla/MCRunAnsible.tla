---------------------------- MODULE MCRunAnsible ----------------------------
(* RunAnsible with two runs and two vault passwords as model values: one   *)
(* run in any mode, next to a normal one.                                  *)
EXTENDS RunAnsible

CONSTANTS r1, r2, s1, s2

MCModesOf == [r \in Runs |-> IF r = r1 THEN Modes ELSE {"normal"}]
=============================================================================
