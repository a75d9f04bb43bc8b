----------------------------- MODULE DriveFetchMC -----------------------------
(***************************************************************************)
(* Two directories.  A team submits twice, with different links, and another *)
(* once; the second CSV has the rows in the other order.  The folder has two  *)
(* entries of one name, one whose own name is what the second is numbered to, *)
(* a document that gets .txt, and a subfolder.                                *)
(***************************************************************************)
EXTENDS DriveFetch

CONSTANTS d1, d2, l1, l2, l3, f1, f2, a, aTxt, aNo2, aNo2Txt, b, bTxt, other

MCNumbered == [n \in Names |-> [k \in 2..4 |-> IF n = a /\ k = 2 THEN aNo2 ELSE other]]
MCWithTxt == [n \in Names |->
  CASE n = a -> aTxt [] n = aNo2 -> aNo2Txt [] n = b -> bTxt [] OTHER -> other]

Entry(name, kind) == [name |-> name, kind |-> kind]
MCEntriesOf == [f \in FolderLinks |->
  IF f = f1 THEN <<Entry(aNo2, "file"), Entry(a, "folder"), Entry(a, "file"), Entry(a, "file")>>
            ELSE <<Entry(b, "document"), Entry(bTxt, "file"), Entry(a, "file"), Entry(a, "file")>>]

Submission(d, report, collection, f) == [dir |-> d, links |-> <<report, collection>>, folder |-> f]
First == Submission(d1, l1, NoLink, f1)
Again == Submission(d1, l2, l3, f2)
Second == Submission(d2, l3, NoLink, f2)
MCCsvs == {<<First, Again>>, <<Second, Again, First>>}
==============================================================================
