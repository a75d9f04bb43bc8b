----------------------------- MODULE TeamBackendMC -----------------------------
(***************************************************************************)
(* Half a second is a tick.  One request is written plainly; the other may    *)
(* have a code with an escape, three characters for one, and a rest that is   *)
(* nothing, begins with two slashes, or has dot segments.                     *)
(***************************************************************************)
EXTENDS TeamBackend, TLC

CONSTANTS r1, r2

MCBasePath == <<"v1", "/">>
Path(code, rest) == [code |-> code, rest |-> rest]
MCPathsOf ==
  (r1 :> {Path(<<"c", "c">>, <<"x">>)})
  @@ (r2 :> {Path(<<"c", "%", "h", "h">>, <<"x">>), Path(<<"c", "c">>, <<>>),
             Path(<<"c", "c">>, <<"/", "x">>), Path(<<"c", "c">>, <<"/", "/">>),
             Path(<<"c", "c">>, <<"x", "..", "y">>)})

Symmetry == Permutations(Teams)
==============================================================================
