----------------------------- MODULE TeamResetMC -----------------------------
(***************************************************************************)
(* Instances of TeamReset for TLC.  Two teams of two offerings, one of them *)
(* seeded by a hook, each allowed one reset a day; requests for a pair of   *)
(* each, and the two malformed pairs an admin URL can carry.                *)
(***************************************************************************)
EXTENDS TeamReset, TLC

CONSTANTS t1, t2, o1, o2

MCTeams == {t1, t2}
MCOfferings == {o1, o2}
MCTeamOffering == (t1 :> o1) @@ (t2 :> o2)
MCResetLimit == (o1 :> 1) @@ (o2 :> 1)
MCHooked == {o1}
MCRequests == {[offering |-> o1, team |-> t1], [offering |-> o2, team |-> t2],
               [offering |-> Unknown, team |-> t1], [offering |-> o1, team |-> Unknown]}

\* One team only, for the questions about a single team's ledger.
OneTeam == {t1}
OneOffering == {o1}
OneTeamOffering == (t1 :> o1)
OneResetLimit == (o1 :> 1)
OneRequests == {[offering |-> o1, team |-> t1]}

Symmetry == Permutations(Callers) \cup Permutations(RowId)
==============================================================================
