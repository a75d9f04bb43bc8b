----------------------------- MODULE RateLimitMC -----------------------------
(***************************************************************************)
(* Students a and b are one team, which may send as many requests in a      *)
(* window as each of them alone: the third request of a window is refused,  *)
(* for its student or for its team.  Three windows, so that counters expire. *)
(***************************************************************************)
EXTENDS RateLimit, TLC

CONSTANTS a, b, t1, o1

MCMemberships == {[student |-> s, team |-> t1, offering |-> o1] : s \in {a, b}}
MCPerStudent == o1 :> 2
MCPerTeam == o1 :> Unset
MCMaximumTeamSize == o1 :> 2

Symmetry == Permutations(Requests) \cup Permutations({a, b})
==============================================================================
