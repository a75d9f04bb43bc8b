---------------------------- MODULE ProvisioningMC ----------------------------
(***************************************************************************)
(* Rosters of two students: with codes A and B, which are sanitised to one  *)
(* name; and a student with code n2, "002", beside one without a code,      *)
(* whose automatic team has that number too.                                *)
(***************************************************************************)
EXTENDS Provisioning, TLC

CONSTANTS s1, s2, A, B, n1, n2, n3, n4, dA, d1, d2, d3, d4

MCAutoCode == <<n1, n2, n3, n4>>
MCDbOf == (A :> dA) @@ (B :> dA) @@ (n1 :> d1) @@ (n2 :> d2) @@ (n3 :> d3) @@ (n4 :> d4)

Row(s, c) == [student |-> s, code |-> c]
Colliding == <<Row(s1, A), Row(s2, B)>>
Numbered == <<Row(s1, n2), Row(s2, NoCode)>>
MCRosters == {Colliding, Numbered}

Symmetry == Permutations(Imports)
==============================================================================
