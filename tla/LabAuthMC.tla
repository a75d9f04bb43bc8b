------------------------------ MODULE LabAuthMC ------------------------------
(***************************************************************************)
(* Two offerings, two teams of the first and one of the second.  The first  *)
(* ends at instant 0, the second begins and ends at instant 1.              *)
(***************************************************************************)
EXTENDS LabAuth, TLC

CONSTANTS o1, o2, t1, t2, t3

MCOfferingOf == [t \in Teams |-> IF t = t3 THEN o2 ELSE o1]
MCActiveFrom == [o \in Offerings |-> IF o = o2 THEN 1 ELSE 0]
MCActiveUntil == MCActiveFrom

Symmetry == Permutations(Requests) \cup Permutations(Students) \cup Permutations(Keys)
==============================================================================
