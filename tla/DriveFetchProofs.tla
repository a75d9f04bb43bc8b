--------------------------- MODULE DriveFetchProofs ---------------------------
(***************************************************************************)
(* Proofs about DriveFetch, for any CSVs, folders and number of runs: its    *)
(* type, that files are whole, that nothing in a directory is replaced, that *)
(* only a broken folder is short, and what an exit status of 0 means.        *)
(***************************************************************************)
EXTENDS DriveFetch, FiniteSetTheorems, SequenceTheorems, TLAPS

\* A run is at a row of its CSV; what it writes was not there when it looked; the
\* entries a folder keeps are those the loop has passed.
AtRow == step \notin {"off", "exit"} => row \in 1..Len(csv)
WritesNew == step \in {"write", "rename"} =>
  item \in 1..Slots /\ Link \in FileLinks /\ files[Dir][item] = Absent
FillsFolder == step \in {"entry", "write entry"} =>
  item = Slots + 1 /\ folders[Dir] # Absent /\ folders[Dir].kept \subseteq 1..(entry - 1)
EntryIsTorn == step = "write entry" => entry \in folders[Dir].torn

PlaceInv == AtRow /\ WritesNew /\ FillsFolder /\ EntryIsTorn

\* The row at hand is one of the CSV's.
LEMMA RowTyped ==
  ASSUME TypeOK, AtRow, step \notin {"off", "exit"}
  PROVE  /\ csv[row] \in RowType /\ csv \in Seq(RowType) /\ Dir \in Dirs
         /\ Link # NoLink => IF AtFolder THEN Link \in FolderLinks ELSE Link \in FileLinks
<1>1. row \in 1..Len(csv)
  BY DEF AtRow
<1>2. csv \in Csvs
  <2>1. csv \in Csvs \cup {<<>>}
    BY DEF TypeOK
  <2>2. csv # <<>>
    BY <1>1
  <2> QED
    BY <2>1, <2>2
<1>3. csv \in Seq(RowType)
  BY <1>2, SubmissionAssumption
<1>4. csv[row] \in RowType
  BY <1>1, <1>3
<1>5. Slots \in Nat \ {0} /\ item \in 1..(Slots + 1)
  BY SubmissionAssumption DEF TypeOK
<1>6. csv[row].dir \in Dirs /\ csv[row].folder \in FolderLinks \cup {NoLink}
      /\ csv[row].links \in [1..Slots -> FileLinks \cup {NoLink}]
  BY <1>4 DEF RowType
<1>7. ~AtFolder => csv[row].links[item] \in FileLinks \cup {NoLink}
  BY <1>5, <1>6 DEF AtFolder
<1> QED
  BY <1>3, <1>4, <1>6, <1>7 DEF Dir, Link

\* The names a folder's entries get are names.
LEMMA FileNameTyped ==
  ASSUME NEW f \in FolderLinks, NEW k \in 1..Len(EntriesOf[f])
  PROVE  FileName(EntriesOf[f], k) \in Names
<1> DEFINE es == EntriesOf[f]
           same == Called(es, es[k].name) \cap 1..k
<1>1. es \in Seq(EntryType) /\ es[k] \in EntryType /\ k \in Nat
  BY SubmissionAssumption
<1>2. IsFiniteSet(1..k) /\ Cardinality(1..k) = k
  BY <1>1, FS_Interval
<1>3. Cardinality(same) \in Nat /\ Cardinality(same) <= k
  <2>1. same \subseteq 1..k
    OBVIOUS
  <2>2. IsFiniteSet(same) /\ Cardinality(same) <= Cardinality(1..k)
    BY <1>2, <2>1, FS_Subset
  <2> QED
    BY <1>2, <2>2, FS_CardinalityType
<1>4. Occurrence(es, k) \in Nat /\ Occurrence(es, k) <= Len(es)
  BY <1>1, <1>3 DEF Occurrence
<1>5. BaseName(es, k) \in Names
  BY <1>1, <1>4, SubmissionAssumption DEF BaseName, NthName, EntryType
<1> QED
  BY <1>1, <1>5, SubmissionAssumption DEF FileName

\* Going on with the next item stays within the CSV, or ends the run.
LEMMA NextItemTyped ==
  ASSUME TypeOK, AtRow, step \notin {"off", "exit"}, NextItem
  PROVE  /\ csv' = csv /\ row' \in 1..(Len(csv) + 1) /\ item' \in 1..(Slots + 1) /\ entry' = 1
         /\ step' \in {"open", "exit"}
         /\ step' = "open" => row' \in 1..Len(csv)
<1>1. csv \in Seq(RowType) /\ row \in 1..Len(csv) /\ Len(csv) \in Nat
  BY RowTyped DEF AtRow
<1>2. Slots \in Nat \ {0} /\ item \in 1..(Slots + 1)
  BY SubmissionAssumption DEF TypeOK
<1> QED
  BY <1>1, <1>2 DEF NextItem, AtFolder

\* TypeOK, taken apart: the tree, and the run.
FolderOK(f) ==
  f # Absent => /\ f.kept \cup f.torn \subseteq 1..Len(EntriesOf[f.link])
                /\ f.kept \cap f.torn = {}
FilesOK == files \in [Dirs -> [1..Slots -> Content \cup {Absent}]]
FoldersOK == folders \in [Dirs -> FolderType \cup {Absent}] /\ \A d \in Dirs : FolderOK(folders[d])
PlaceOK == /\ csv \in Csvs \cup {<<>>} /\ row \in 1..(Len(csv) + 1) /\ item \in 1..(Slots + 1)
           /\ entry \in Nat \ {0}
           /\ step \in {"off", "open", "write", "rename", "entry", "write entry", "exit"}
RunOK == /\ failures \in Nat /\ runs \in 0..MaxRuns
         /\ exit \in -1..1
         /\ created \subseteq Dirs /\ broken \subseteq Dirs

\* The parts are TypeOK.
LEMMA TypeParts == TypeOK <=> FilesOK /\ FoldersOK /\ PlaceOK /\ RunOK
  BY DEF TypeOK, FilesOK, FoldersOK, FolderOK, PlaceOK, RunOK

\* The place of a run within one CSV.
LEMMA PlaceKept ==
  ASSUME PlaceOK, csv' = csv, row' \in 1..(Len(csv) + 1), item' \in 1..(Slots + 1),
         entry' \in Nat \ {0}, step' \in {"off", "open", "write", "rename", "entry", "write entry", "exit"}
  PROVE  PlaceOK'
<1>1. csv' \in Csvs \cup {<<>>}
  BY DEF PlaceOK
<1>2. row' \in 1..(Len(csv') + 1)
  OBVIOUS
<1> QED
  BY <1>1, <1>2 DEF PlaceOK

\* No step leaves the rows and entries there are.
LEMMA PlaceTyped == TypeOK /\ PlaceInv /\ [Next]_vars => PlaceOK'
<1> SUFFICES ASSUME TypeOK, PlaceInv, [Next]_vars PROVE PlaceOK'
  OBVIOUS
<1> USE DEF PlaceInv
<1>0. PlaceOK /\ Slots \in Nat /\ Len(csv) \in Nat
  <2>1. csv \in Csvs \cup {<<>>} /\ Csvs \subseteq Seq(RowType) /\ Slots \in Nat
    BY SubmissionAssumption DEF TypeOK
  <2>2. Len(csv) \in Nat
    <3>1. CASE csv = <<>>
      BY <3>1
    <3>2. CASE csv \in Seq(RowType)
      BY <3>2
    <3> QED
      BY <2>1, <3>1, <3>2
  <2> QED
    BY <2>1, <2>2, TypeParts
<1>1. CASE Begin
  <2>1. csv' \in Csvs /\ Len(csv') \in Nat
    BY <1>1, SubmissionAssumption DEF Begin
  <2> QED
    BY <1>1, <2>1, SubmissionAssumption DEF Begin, PlaceOK
<1>2. CASE Skip \/ Rename \/ CloseFolder \/ Fail
  <2>1. NextItem /\ step \notin {"off", "exit"}
    BY <1>2 DEF Skip, Rename, CloseFolder, Fail, Needed
  <2>2. csv' = csv /\ row' \in 1..(Len(csv) + 1) /\ item' \in 1..(Slots + 1)
    BY <2>1, NextItemTyped
  <2>3. entry' = 1 /\ step' \in {"open", "exit"}
    BY <2>1, NextItemTyped
  <2>4. entry' \in Nat \ {0}
    BY <2>3
  <2>5. step' \in {"off", "open", "write", "rename", "entry", "write entry", "exit"}
    BY <2>3
  <2> QED
    BY <1>0, <2>2, <2>4, <2>5, PlaceKept
<1>3. CASE Fetch \/ WriteTemporary \/ MakeFolder \/ OpenEntry \/ Killed
  <2>1. UNCHANGED place /\ step' \in {"write", "rename", "entry", "write entry", "off"}
    BY <1>3 DEF Fetch, WriteTemporary, MakeFolder, OpenEntry, Killed, Stay
  <2>2. csv' = csv /\ row' = row /\ item' = item /\ entry' = entry
    BY <2>1 DEF place
  <2>3. row' \in 1..(Len(csv) + 1) /\ item' \in 1..(Slots + 1) /\ entry' \in Nat \ {0}
    BY <1>0, <2>2 DEF PlaceOK
  <2>4. step' \in {"off", "open", "write", "rename", "entry", "write entry", "exit"}
    BY <2>1
  <2> QED
    BY <1>0, <2>2, <2>3, <2>4, PlaceKept
<1>4. CASE PassEntry \/ WriteEntry \/ Exit \/ UNCHANGED vars
  <2>1. csv' = csv /\ row' = row /\ item' = item
    BY <1>4 DEF PassEntry, WriteEntry, Exit, vars, place
  <2>6. entry' = entry \/ entry' = entry + 1
    BY <1>4 DEF PassEntry, WriteEntry, Exit, vars, place
  <2>2. step' \in {step, "entry", "off"}
    BY <1>4 DEF PassEntry, WriteEntry, Exit, vars
  <2>3. csv' = csv /\ row' \in 1..(Len(csv) + 1) /\ item' \in 1..(Slots + 1)
    BY <1>0, <2>1 DEF PlaceOK
  <2>7. entry \in Nat \ {0}
    BY <1>0 DEF PlaceOK
  <2>5. entry' \in Nat \ {0}
    BY <2>6, <2>7
  <2>4. step' \in {"off", "open", "write", "rename", "entry", "write entry", "exit"}
    BY <1>0, <2>2 DEF PlaceOK
  <2> QED
    BY <1>0, <2>3, <2>4, <2>5, PlaceKept
<1> QED
  BY <1>1, <1>2, <1>3, <1>4 DEF Next

\* A step keeps the counts, the exit status and the history typed.
LEMMA RunTyped == TypeOK /\ PlaceInv /\ [Next]_vars => RunOK'
<1> SUFFICES ASSUME TypeOK, PlaceInv, [Next]_vars PROVE RunOK'
  OBVIOUS
<1> USE DEF PlaceInv
<1>0. RunOK /\ MaxRuns \in Nat
  BY TypeParts, SubmissionAssumption
<1>1. step \notin {"off", "exit"} => Dir \in Dirs
  BY RowTyped
<1>2. CASE Skip \/ Fetch \/ WriteTemporary \/ Rename \/ PassEntry \/ OpenEntry \/ WriteEntry
        \/ CloseFolder \/ UNCHANGED vars
  <2>1. UNCHANGED <<failures, runs, exit, created, broken>>
    BY <1>2 DEF Skip, Fetch, WriteTemporary, Rename, PassEntry, OpenEntry, WriteEntry, CloseFolder, vars
  <2> QED
    BY <1>0, <2>1 DEF RunOK
<1>3. CASE Begin
  BY <1>0, <1>3 DEF Begin, RunOK
<1>4. CASE MakeFolder
  <2>1. created' = created \cup {Dir} /\ step = "open" /\ UNCHANGED <<failures, runs, exit, broken>>
    BY <1>4 DEF MakeFolder, Needed
  <2> QED
    BY <1>0, <1>1, <2>1 DEF RunOK
<1>5. CASE Fail
  <2>1. step \notin {"off", "exit"} /\ broken' \in {broken, broken \cup {Dir}}
        /\ failures' = failures + 1 /\ UNCHANGED <<runs, exit, created>>
    BY <1>5 DEF Fail, Counted, Interrupted, Needed
  <2> QED
    BY <1>0, <1>1, <2>1 DEF RunOK
<1>6. CASE Exit
  BY <1>0, <1>6 DEF Exit, Status, RunOK
<1>7. CASE Killed
  <2>1. broken' = broken \/ (Dir \in Dirs /\ broken' = broken \cup {Dir})
    BY <1>1, <1>7 DEF Killed, Interrupted, InFolder
  <2> QED
    BY <1>0, <1>7, <2>1 DEF Killed, RunOK
<1> QED
  BY <1>2, <1>3, <1>4, <1>5, <1>6, <1>7 DEF Next

\* A step keeps the reports and collections typed.
LEMMA FilesTyped == TypeOK /\ PlaceInv /\ [Next]_vars => FilesOK'
<1> SUFFICES ASSUME TypeOK, PlaceInv, [Next]_vars PROVE FilesOK'
  OBVIOUS
<1> USE DEF PlaceInv
<1>0. FilesOK
  BY TypeParts
<1>1. CASE Rename
  <2>1. [link |-> Link, whole |-> TRUE] \in Content
    BY <1>1 DEF Rename, WritesNew, Content
  <2> QED
    BY <1>0, <1>1, <2>1 DEF Rename, FilesOK
<1>2. CASE WriteTemporary
  BY <1>0, <1>2 DEF WriteTemporary, Written, FilesOK
<1>3. CASE Begin \/ Skip \/ Fetch \/ MakeFolder \/ PassEntry \/ OpenEntry \/ WriteEntry \/ CloseFolder
        \/ Fail \/ Exit \/ Killed \/ UNCHANGED vars
  BY <1>0, <1>3 DEF Begin, Skip, Fetch, MakeFolder, PassEntry, OpenEntry, WriteEntry, CloseFolder,
       Fail, Exit, Killed, vars, tree, FilesOK
<1> QED
  BY <1>1, <1>2, <1>3 DEF Next

\* A folder with one entry more: unfinished, or finished.
LEMMA EntryAdded ==
  ASSUME NEW f \in FolderType, NEW k \in Nat, NEW name \in Names
  PROVE  /\ Opened(f, k, name) \in FolderType /\ Opened(f, k, name).link = f.link
         /\ Opened(f, k, name).kept = f.kept /\ Opened(f, k, name).torn = f.torn \cup {k}
         /\ Opened(f, k, name).by = f.by /\ Opened(f, k, name).names = f.names \cup {name}
  BY DEF Opened, FolderType

\* Filling an entry keeps a folder a folder, with the entry now among the kept.
LEMMA EntryFinished ==
  ASSUME NEW f \in FolderType, NEW k \in Nat
  PROVE  /\ Filled(f, k) \in FolderType /\ Filled(f, k).link = f.link
         /\ Filled(f, k).kept = f.kept \cup {k} /\ Filled(f, k).torn = f.torn \ {k}
         /\ Filled(f, k).by = f.by /\ Filled(f, k).names = f.names
  BY DEF Filled, FolderType

\* While a run is in a folder, the folder is there and its entries are typed.
LEMMA FolderAtHand ==
  ASSUME TypeOK, PlaceInv, step \in {"entry", "write entry"}
  PROVE  /\ Dir \in Dirs /\ folders[Dir] \in FolderType /\ FolderOK(folders[Dir])
         /\ folders[Dir].link \in FolderLinks /\ Entries = EntriesOf[folders[Dir].link]
<1> USE DEF PlaceInv
<1>1. Dir \in Dirs
  BY RowTyped
<1>2. folders[Dir] \in FolderType /\ FolderOK(folders[Dir])
  BY <1>1, TypeParts DEF FillsFolder, FoldersOK
<1>3. folders[Dir].link \in FolderLinks
  BY <1>2 DEF FolderType
<1> QED
  BY <1>1, <1>2, <1>3 DEF Entries

\* What a folder keeps while the run is in it: entries of its page, all before the
\* one at hand.
LEMMA EntryAtHand ==
  ASSUME TypeOK, PlaceInv, step \in {"entry", "write entry"}
  PROVE  /\ folders[Dir].kept \subseteq 1..(entry - 1) /\ entry \in Nat \ {0} /\ Len(Entries) \in Nat
         /\ folders[Dir].kept \cup folders[Dir].torn \subseteq 1..Len(Entries)
<1>1. folders[Dir].kept \subseteq 1..(entry - 1)
  BY DEF PlaceInv, FillsFolder
<1>2. entry \in Nat \ {0}
  BY DEF TypeOK
<1>3. Entries \in Seq(EntryType)
  BY FolderAtHand, SubmissionAssumption
<1>4. folders[Dir].kept \cup folders[Dir].torn \subseteq 1..Len(Entries)
  <2>1. FolderOK(folders[Dir]) /\ folders[Dir] # Absent /\ Entries = EntriesOf[folders[Dir].link]
    BY FolderAtHand, SubmissionAssumption
  <2> QED
    BY <2>1 DEF FolderOK
<1>5. Len(Entries) \in Nat
  BY <1>3, LenProperties, Zenon
<1> QED
  BY <1>1, <1>2, <1>4, <1>5, Zenon

\* What a step makes of the folder at hand.
LEMMA FolderSteps ==
  ASSUME TypeOK, PlaceInv, OpenEntry \/ WriteEntry
  PROVE  LET f == folders[Dir]  g == folders'[Dir] IN
         /\ folders' = [folders EXCEPT ![Dir] = g]
         /\ g \in FolderType /\ FolderOK(g) /\ f.kept \subseteq g.kept
         /\ g.link = f.link /\ g.by = f.by
         /\ OpenEntry => /\ g.kept = f.kept /\ entry \in g.torn /\ entry \in 1..Len(Entries)
                         /\ g.names = f.names \cup {FileName(Entries, entry)}
         /\ WriteEntry => /\ g.kept = f.kept \cup {entry} /\ entry \in 1..Len(Entries)
                          /\ g.names = f.names
<1> DEFINE f == folders[Dir]  g == folders'[Dir]
<1>0. step \in {"entry", "write entry"}
  BY DEF OpenEntry, WriteEntry
<1>1. Dir \in Dirs /\ f \in FolderType /\ f.link \in FolderLinks /\ Entries = EntriesOf[f.link]
  BY <1>0, FolderAtHand
<1>2. Dir \in DOMAIN folders
  BY <1>1 DEF TypeOK
<1>3. f.kept \cup f.torn \subseteq 1..Len(Entries)
  BY <1>0, EntryAtHand
<1>6. f.kept \cap f.torn = {}
  BY <1>0, <1>1, FolderAtHand, SubmissionAssumption DEF FolderOK
<1>7. entry \in Nat
  BY DEF TypeOK
<1>4. CASE OpenEntry
  <2>1. folders' = [folders EXCEPT ![Dir] = Opened(f, entry, FileName(Entries, entry))]
    BY <1>4 DEF OpenEntry
  <2>2. g = Opened(f, entry, FileName(Entries, entry))
    BY <1>2, <2>1
  <2>3. entry <= Len(Entries)
    BY <1>4 DEF OpenEntry
  <2>4. entry \in 1..Len(Entries)
    <3>1. entry \in Nat \ {0} /\ Len(Entries) \in Nat
      BY <1>0, EntryAtHand, Zenon
    <3> QED
      BY <2>3, <3>1
  <2>5. FileName(Entries, entry) \in Names
    BY <1>1, <2>4, FileNameTyped
  <2>6. /\ g \in FolderType /\ g.link = f.link /\ g.kept = f.kept /\ g.torn = f.torn \cup {entry}
        /\ g.by = f.by /\ g.names = f.names \cup {FileName(Entries, entry)}
    BY <1>1, <1>7, <2>2, <2>5, EntryAdded
  <2>7. entry \notin f.kept
    <3>1. f.kept \subseteq 1..(entry - 1)
      BY <1>0, EntryAtHand, Zenon
    <3> QED
      BY <1>7, <3>1
  <2>8. FolderOK(g)
    BY <1>1, <1>3, <1>6, <2>4, <2>6, <2>7 DEF FolderOK
  <2> QED
    BY <1>4, <2>1, <2>2, <2>4, <2>6, <2>8 DEF OpenEntry, WriteEntry
<1>5. CASE WriteEntry
  <2>1. folders' = [folders EXCEPT ![Dir] = Filled(f, entry)]
    BY <1>5 DEF WriteEntry
  <2>2. g = Filled(f, entry)
    BY <1>2, <2>1
  <2>3. entry \in f.torn
    BY <1>5 DEF WriteEntry, EntryIsTorn, PlaceInv
  <2>4. /\ g \in FolderType /\ g.link = f.link /\ g.kept = f.kept \cup {entry} /\ g.torn = f.torn \ {entry}
        /\ g.by = f.by /\ g.names = f.names
    BY <1>1, <1>7, <2>2, EntryFinished
  <2>5. FolderOK(g)
    BY <1>1, <1>3, <1>6, <2>3, <2>4 DEF FolderOK
  <2> QED
    BY <1>3, <1>5, <2>1, <2>2, <2>3, <2>4, <2>5 DEF OpenEntry, WriteEntry
<1> QED
  BY <1>4, <1>5, <1>0

\* A step keeps the Drive folders typed.
LEMMA FoldersTyped == TypeOK /\ PlaceInv /\ [Next]_vars => FoldersOK'
<1> SUFFICES ASSUME TypeOK, PlaceInv, [Next]_vars PROVE FoldersOK'
  OBVIOUS
<1>0. FoldersOK
  BY TypeParts
<1>1. CASE OpenEntry \/ WriteEntry
  <2> DEFINE g == folders'[Dir]
  <2>1. folders' = [folders EXCEPT ![Dir] = g] /\ g \in FolderType /\ FolderOK(g)
    BY <1>1, FolderSteps
  <2> HIDE DEF g
  <2> QED
    BY <1>0, <2>1 DEF FoldersOK
<1>2. CASE MakeFolder
  <2>1. Dir \in Dirs /\ Link \in FolderLinks
    BY <1>2, RowTyped DEF MakeFolder, Needed, PlaceInv
  <2>2. PICK by \in {"archive", "page"} : folders' = [folders EXCEPT ![Dir] =
          [link |-> Link, by |-> by, kept |-> {}, torn |-> {}, names |-> {}]]
    BY <1>2 DEF MakeFolder
  <2> DEFINE g == [link |-> Link, by |-> by, kept |-> {}, torn |-> {}, names |-> {}]
  <2>3. g \in FolderType /\ FolderOK(g)
    BY <2>1 DEF FolderType, FolderOK
  <2>4. folders' = [folders EXCEPT ![Dir] = g]
    BY <2>2
  <2> HIDE DEF g
  <2> QED
    BY <1>0, <2>3, <2>4 DEF FoldersOK
<1>3. CASE Begin \/ Skip \/ Fetch \/ WriteTemporary \/ Rename \/ PassEntry \/ CloseFolder
        \/ Fail \/ Exit \/ Killed \/ UNCHANGED vars
  <2>1. folders' = folders
    BY <1>3 DEF Begin, Skip, Fetch, WriteTemporary, Rename, PassEntry, CloseFolder, Fail, Exit,
         Killed, vars, tree
  <2> QED
    BY <1>0, <2>1 DEF FoldersOK
<1> QED
  BY <1>1, <1>2, <1>3 DEF Next

\* The parts together.
LEMMA TypeStep == TypeOK /\ PlaceInv /\ [Next]_vars => TypeOK'
<1> SUFFICES ASSUME TypeOK, PlaceInv, [Next]_vars PROVE TypeOK'
  OBVIOUS
<1>1. FilesOK' /\ FoldersOK' /\ PlaceOK' /\ RunOK'
  BY FilesTyped, FoldersTyped, PlaceTyped, RunTyped
<1> QED
  BY <1>1 DEF TypeOK, FilesOK, FoldersOK, FolderOK, PlaceOK, RunOK

\* A step leaves the run at a row of its CSV.
LEMMA AtRowStep == TypeOK /\ PlaceInv /\ [Next]_vars => AtRow'
<1> SUFFICES ASSUME TypeOK, PlaceInv, [Next]_vars PROVE AtRow'
  OBVIOUS
<1> USE DEF PlaceInv
<1>1. CASE Begin
  <2>1. csv' \in Seq(RowType) /\ row' = 1 /\ (step' # "exit" => csv' # <<>>)
    BY <1>1, SubmissionAssumption DEF Begin
  <2>2. step' # "exit" => Len(csv') \in Nat \ {0}
    BY <2>1, EmptySeq, LenProperties
  <2> QED
    BY <2>1, <2>2 DEF AtRow
<1>2. CASE Skip \/ Rename \/ CloseFolder \/ Fail
  <2>1. NextItem /\ step \notin {"off", "exit"}
    BY <1>2 DEF Skip, Rename, CloseFolder, Fail, Needed
  <2>2. csv' = csv /\ step' \in {"open", "exit"} /\ (step' = "open" => row' \in 1..Len(csv))
    BY <2>1, NextItemTyped
  <2> QED
    BY <2>2 DEF AtRow
<1>3. CASE Fetch \/ WriteTemporary \/ MakeFolder \/ OpenEntry \/ PassEntry \/ WriteEntry
  <2>1. csv' = csv /\ row' = row /\ step \notin {"off", "exit"}
    BY <1>3 DEF Fetch, WriteTemporary, MakeFolder, OpenEntry, PassEntry, WriteEntry, Needed, Stay, place
  <2> QED
    BY <2>1 DEF AtRow
<1>4. CASE Exit \/ Killed
  BY <1>4 DEF Exit, Killed, Stay, AtRow
<1>5. CASE UNCHANGED vars
  BY <1>5 DEF vars, place, AtRow
<1> QED
  BY <1>1, <1>2, <1>3, <1>4, <1>5 DEF Next

\* What the run will write stays absent until it writes it.
LEMMA WritesNewStep == TypeOK /\ PlaceInv /\ [Next]_vars => WritesNew'
<1> SUFFICES ASSUME TypeOK, PlaceInv, [Next]_vars PROVE WritesNew'
  OBVIOUS
<1> USE DEF PlaceInv
<1>1. CASE Fetch
  <2>1. Link \in FileLinks /\ files[Dir][item] = Absent
    BY <1>1, RowTyped DEF Fetch, Needed, Exists
  <2>2. item \in 1..Slots
    <3>1. item \in 1..(Slots + 1) /\ Slots \in Nat
      BY SubmissionAssumption DEF TypeOK
    <3>2. ~(item > Slots)
      BY <1>1 DEF Fetch, AtFolder
    <3> QED
      BY <3>1, <3>2
  <2>3. csv' = csv /\ row' = row /\ item' = item /\ files' = files
    BY <1>1 DEF Fetch, Stay, place, tree
  <2> QED
    BY <2>1, <2>2, <2>3 DEF WritesNew, Link, AtFolder, Dir
<1>2. CASE WriteTemporary \/ UNCHANGED vars
  <2>1. csv' = csv /\ row' = row /\ item' = item /\ files' = files
        /\ (step' \in {"write", "rename"} => step \in {"write", "rename"})
    BY <1>2 DEF WriteTemporary, Written, Stay, place, vars, tree
  <2> QED
    BY <2>1 DEF WritesNew, Link, AtFolder, Dir
<1>3. CASE Begin \/ Skip \/ Rename \/ MakeFolder \/ PassEntry \/ OpenEntry \/ WriteEntry \/ CloseFolder
        \/ Fail \/ Exit \/ Killed
  <2>1. step' \notin {"write", "rename"}
    BY <1>3 DEF Begin, Skip, Rename, MakeFolder, PassEntry, OpenEntry, WriteEntry, CloseFolder, Fail,
         Exit, Killed, NextItem, Stay
  <2> QED
    BY <2>1 DEF WritesNew
<1> QED
  BY <1>1, <1>2, <1>3 DEF Next

\* The folder being filled stays, and the entry open in it is its unfinished one.
LEMMA FillsFolderStep == TypeOK /\ PlaceInv /\ [Next]_vars => FillsFolder' /\ EntryIsTorn'
<1> SUFFICES ASSUME TypeOK, PlaceInv, [Next]_vars PROVE FillsFolder' /\ EntryIsTorn'
  OBVIOUS
<1> DEFINE f == folders[Dir]  g == folders'[Dir]
<1>1. CASE MakeFolder
  <2>1. Dir \in Dirs /\ Link \in FolderLinks /\ item = Slots + 1
    BY <1>1, RowTyped, SubmissionAssumption DEF MakeFolder, Needed, PlaceInv, AtFolder, TypeOK
  <2>2. PICK by \in {"archive", "page"} : folders' = [folders EXCEPT ![Dir] =
          [link |-> Link, by |-> by, kept |-> {}, torn |-> {}, names |-> {}]]
    BY <1>1 DEF MakeFolder
  <2>3. g = [link |-> Link, by |-> by, kept |-> {}, torn |-> {}, names |-> {}]
    BY <2>1, <2>2 DEF TypeOK
  <2>4. g \in FolderType /\ g.kept = {}
    BY <2>1, <2>3 DEF FolderType
  <2>5. g # Absent
    BY <2>4, SubmissionAssumption
  <2>6. csv' = csv /\ row' = row /\ item' = item /\ step' = "entry"
    BY <1>1 DEF MakeFolder, Stay, place
  <2> QED
    BY <2>1, <2>4, <2>5, <2>6 DEF FillsFolder, EntryIsTorn, Dir
<1>2. CASE OpenEntry \/ WriteEntry
  <2>1. g \in FolderType /\ (OpenEntry => g.kept = f.kept /\ entry \in g.torn)
        /\ (WriteEntry => g.kept = f.kept \cup {entry})
    BY <1>2, FolderSteps
  <2>2. g # Absent
    BY <2>1, SubmissionAssumption
  <2>3. csv' = csv /\ row' = row /\ item' = item /\ step \in {"entry", "write entry"}
    BY <1>2 DEF OpenEntry, WriteEntry, Stay, place
  <2>4. item = Slots + 1
    BY <2>3 DEF PlaceInv, FillsFolder
  <2>5. f.kept \subseteq 1..(entry - 1) /\ entry \in Nat \ {0}
    BY <2>3, EntryAtHand, Zenon
  <2>6. CASE OpenEntry
    <3>1. entry' = entry
      BY <2>6 DEF OpenEntry, Stay, place
    <3> QED
      BY <2>1, <2>2, <2>3, <2>4, <2>5, <2>6, <3>1 DEF FillsFolder, EntryIsTorn, Dir
  <2>7. CASE WriteEntry
    <3>1. entry' = entry + 1 /\ step' = "entry"
      BY <2>7 DEF WriteEntry
    <3>2. g.kept \subseteq 1..(entry' - 1)
      BY <2>1, <2>5, <2>7, <3>1
    <3> QED
      BY <2>2, <2>3, <2>4, <3>1, <3>2 DEF FillsFolder, EntryIsTorn, Dir
  <2> QED
    BY <1>2, <2>6, <2>7
<1>3. CASE PassEntry \/ UNCHANGED vars
  <2>1. csv' = csv /\ row' = row /\ item' = item /\ step' = step /\ folders' = folders
    BY <1>3 DEF PassEntry, vars, place, tree
  <2>2. CASE UNCHANGED vars
    BY <2>1, <2>2 DEF vars, place, PlaceInv, FillsFolder, EntryIsTorn, Dir
  <2>3. CASE PassEntry
    <3>1. entry' = entry + 1 /\ step = "entry" /\ entry \in Nat
      BY <2>3 DEF PassEntry, TypeOK
    <3>2. item = Slots + 1 /\ f # Absent /\ f.kept \subseteq 1..(entry - 1)
      BY <3>1 DEF PlaceInv, FillsFolder
    <3>3. f.kept \subseteq 1..(entry' - 1)
      BY <3>1, <3>2
    <3> QED
      BY <2>1, <3>1, <3>2, <3>3 DEF FillsFolder, EntryIsTorn, Dir
  <2> QED
    BY <1>3, <2>2, <2>3
<1>4. CASE Begin \/ Skip \/ Fetch \/ WriteTemporary \/ Rename \/ CloseFolder \/ Fail \/ Exit \/ Killed
  <2>1. step' \notin {"entry", "write entry"}
    BY <1>4 DEF Begin, Skip, Fetch, WriteTemporary, Rename, CloseFolder, Fail, Exit, Killed, NextItem, Stay
  <2> QED
    BY <2>1 DEF FillsFolder, EntryIsTorn
<1> QED
  BY <1>1, <1>2, <1>3, <1>4 DEF Next

\* Init has the types and no run at work.
LEMMA Start == Init => TypeOK /\ PlaceInv
<1>1. Init => TypeOK
  BY SubmissionAssumption, EmptySeq DEF Init, TypeOK
<1>2. Init => PlaceInv
  BY DEF Init, PlaceInv, AtRow, WritesNew, FillsFolder, EntryIsTorn
<1> QED
  BY <1>1, <1>2

\* Every variable keeps its type, and a run its place: with PlaceInv, because the
\* type alone does not say that the row at hand is one of the CSV's, nor that what
\* a run is writing was not there.
LEMMA PlaceHolds == Spec => [](TypeOK /\ PlaceInv)
<1>1. TypeOK /\ PlaceInv /\ [Next]_vars => (TypeOK /\ PlaceInv)'
  <2>1. TypeOK /\ PlaceInv /\ [Next]_vars => AtRow' /\ WritesNew' /\ FillsFolder' /\ EntryIsTorn'
    BY AtRowStep, WritesNewStep, FillsFolderStep
  <2> QED
    BY <2>1, TypeStep DEF PlaceInv
<1> QED
  BY Start, <1>1, PTL DEF Spec

\* Every variable keeps its type: kept and unfinished entries of a folder are
\* entries of its page, and none is both.
THEOREM TypeCorrect == Spec => []TypeOK
  BY PlaceHolds, PTL

\* The files a step changes: one, by a rename, where nothing was.
LEMMA FilesChange ==
  TypeOK /\ PlaceInv /\ [Next]_vars =>
    \/ files' = files
    \/ /\ Dir \in Dirs /\ item \in 1..Slots /\ files[Dir][item] = Absent
       /\ files' = [files EXCEPT ![Dir][item] = [link |-> Link, whole |-> TRUE]]
<1> SUFFICES ASSUME TypeOK, PlaceInv, [Next]_vars, files' # files
             PROVE  /\ Dir \in Dirs /\ item \in 1..Slots /\ files[Dir][item] = Absent
                    /\ files' = [files EXCEPT ![Dir][item] = [link |-> Link, whole |-> TRUE]]
  OBVIOUS
<1>1. Rename
  BY DEF Next, Begin, Skip, Fetch, WriteTemporary, Written, MakeFolder, PassEntry, OpenEntry, WriteEntry,
      CloseFolder, Fail, Exit, Killed, vars, tree
<1>2. Dir \in Dirs
  BY <1>1, RowTyped DEF Rename, PlaceInv
<1> QED
  BY <1>1, <1>2 DEF Rename, PlaceInv, WritesNew

\* A report or collection is whole whenever it is there, for any failures, kills
\* and runs: it gets its name only when it is written, and never changes again.
THEOREM FilesStayWhole == Spec => []FilesAreWhole
<1>1. Init => FilesAreWhole
  BY DEF Init, FilesAreWhole
<1>2. TypeOK /\ PlaceInv /\ FilesAreWhole /\ [Next]_vars => FilesAreWhole'
  <2> SUFFICES ASSUME TypeOK, PlaceInv, FilesAreWhole, [Next]_vars,
                      NEW d \in Dirs, NEW i \in 1..Slots, files'[d][i] # Absent
               PROVE  files'[d][i].whole
    BY DEF FilesAreWhole
  <2>1. CASE files' = files
    BY <2>1 DEF FilesAreWhole
  <2>2. CASE files' # files
    <3>1. /\ Dir \in Dirs /\ item \in 1..Slots
          /\ files' = [files EXCEPT ![Dir][item] = [link |-> Link, whole |-> TRUE]]
      BY <2>2, FilesChange
    <3>2. files'[d][i] = IF d = Dir /\ i = item THEN [link |-> Link, whole |-> TRUE] ELSE files[d][i]
      BY <3>1 DEF TypeOK
    <3> QED
      BY <3>2 DEF FilesAreWhole
  <2> QED
    BY <2>1, <2>2
<1> QED
  BY <1>1, <1>2, PlaceHolds, PTL DEF Spec

\* No step replaces or removes what is in a directory.
LEMMA KeptStep ==
  ASSUME TypeOK, PlaceInv, [Next]_vars, NEW d \in Dirs
  PROVE  /\ \A i \in 1..Slots : files[d][i] # Absent => files'[d][i] = files[d][i]
         /\ folders[d] # Absent => /\ folders'[d] # Absent
                                   /\ folders'[d].link = folders[d].link
                                   /\ folders[d].kept \subseteq folders'[d].kept
<1>1. ASSUME NEW i \in 1..Slots, files[d][i] # Absent PROVE files'[d][i] = files[d][i]
  <2>1. CASE files' = files
    BY <2>1
  <2>2. CASE files' # files
    <3>1. /\ Dir \in Dirs /\ item \in 1..Slots /\ files[Dir][item] = Absent
          /\ files' = [files EXCEPT ![Dir][item] = [link |-> Link, whole |-> TRUE]]
      BY <2>2, FilesChange
    <3>2. ~(d = Dir /\ i = item)
      BY <1>1, <3>1
    <3>3. files'[d][i] = IF d = Dir /\ i = item THEN [link |-> Link, whole |-> TRUE] ELSE files[d][i]
      BY <3>1 DEF TypeOK
    <3> QED
      BY <3>2, <3>3
  <2> QED
    BY <2>1, <2>2
<1>2. ASSUME folders[d] # Absent
      PROVE  /\ folders'[d] # Absent /\ folders'[d].link = folders[d].link
             /\ folders[d].kept \subseteq folders'[d].kept
  <2> DEFINE g == folders'[Dir]
  <2>1. CASE OpenEntry \/ WriteEntry
    <3>1. folders' = [folders EXCEPT ![Dir] = g] /\ g \in FolderType
          /\ g.link = folders[Dir].link /\ folders[Dir].kept \subseteq g.kept
      BY <2>1, FolderSteps
    <3>2. g # Absent
      BY <3>1, SubmissionAssumption
    <3> HIDE DEF g
    <3>3. folders'[d] = IF d = Dir THEN g ELSE folders[d]
      BY <3>1 DEF TypeOK
    <3> QED
      BY <1>2, <3>1, <3>2, <3>3
  <2>2. CASE MakeFolder
    <3>1. folders[Dir] = Absent
      BY <2>2 DEF MakeFolder, Needed, Exists
    <3>2. d # Dir
      BY <1>2, <3>1
    <3>3. folders'[d] = folders[d]
      BY <2>2, <3>2 DEF MakeFolder, TypeOK
    <3> QED
      BY <1>2, <3>3
  <2>3. CASE ~(OpenEntry \/ WriteEntry \/ MakeFolder)
    <3>1. folders' = folders
      BY <2>3 DEF Next, Begin, Skip, Fetch, WriteTemporary, Rename, PassEntry, CloseFolder, Fail, Exit,
           Killed, vars, tree
    <3> QED
      BY <1>2, <3>1
  <2> QED
    BY <2>1, <2>2, <2>3
<1> QED
  BY <1>1, <1>2

\* Nothing a run has put in a directory is replaced or removed by a later step, be
\* it of another row of the team, another run or another CSV.
THEOREM NothingLost == Spec => NothingIsReplaced
<1>1. TypeOK /\ PlaceInv /\ [Next]_vars =>
        \A d \in Dirs :
          /\ \A i \in 1..Slots : files[d][i] # Absent => files'[d][i] = files[d][i]
          /\ folders[d] # Absent => /\ folders'[d] # Absent
                                    /\ folders'[d].link = folders[d].link
                                    /\ folders[d].kept \subseteq folders'[d].kept
  BY KeptStep
<1> QED
  BY <1>1, PlaceHolds, PTL DEF Spec, NothingIsReplaced

------------------------------------------------------------------------------
(* Folders, and the end of a run *)

\* An entry of a folder that is on disk, or left out for a reason.
Settled(f, k) == LET es == EntriesOf[f.link] IN
  k \in f.kept \/ (f.by = "page" /\ (es[k].kind = "folder" \/ NameTaken(es, k)))

\* A page is read from its first entry.  While the loop is at an entry, all before it are settled, and the names taken
\* are those of entries before it or, while it is written, its own.
PassedSettled == InFolder =>
  \A k \in 1..(entry - 1) : k \in 1..Len(Entries) => Settled(folders[Dir], k)
NamesOfPassed == InFolder /\ folders[Dir].by = "page" =>
  \A name \in folders[Dir].names :
    \E j \in 1..entry : /\ j \in 1..Len(Entries) /\ (j = entry => step = "write entry")
                        /\ Entries[j].kind # "folder" /\ FileName(Entries, j) = name
OpensAtFirst == step = "open" => entry = 1
FolderInv == OpensAtFirst /\ PassedSettled /\ NamesOfPassed /\ ShortFoldersWereBroken


\* Of two entries of one name the later is not called what the earlier is: their
\* occurrences differ, hence their numbers.
LEMMA NamesDiffer ==
  ASSUME NEW f \in FolderLinks, NEW k \in 1..Len(EntriesOf[f]), NEW j \in 1..(k - 1),
         EntriesOf[f][j].kind # "folder", EntriesOf[f][k].kind # "folder",
         EntriesOf[f][j].name = EntriesOf[f][k].name
  PROVE  FileName(EntriesOf[f], j) \notin {BaseName(EntriesOf[f], k), FileName(EntriesOf[f], k)}
<1> DEFINE es == EntriesOf[f]
           name == es[k].name
           all == Called(es, name)
           first == all \cap 1..j
           second == all \cap 1..k
<1>1. es \in Seq(EntryType) /\ Len(es) \in Nat /\ es[k] \in EntryType /\ k \in Nat /\ j \in 1..Len(es)
  BY SubmissionAssumption
<1>2. IsFiniteSet(1..Len(es))
  BY <1>1, FS_Interval
<1>3. all \subseteq 1..Len(es) /\ IsFiniteSet(all)
  <2>1. all \subseteq 1..Len(es)
    BY DEF Called
  <2> QED
    BY <1>2, <2>1, FS_Subset
<1>4. j \in first /\ k \in second /\ k \notin first /\ first \subseteq second /\ second \subseteq all
  BY <1>1 DEF Called
<1> HIDE DEF first, second, all
<1>5. IsFiniteSet(first) /\ IsFiniteSet(second)
  BY <1>3, <1>4, FS_Subset
<1>6. /\ Cardinality(first) \in Nat /\ Cardinality(second) \in Nat /\ Cardinality(all) \in Nat
      /\ Cardinality(first) <= Cardinality(second) /\ Cardinality(second) <= Cardinality(all)
      /\ Cardinality(first) # Cardinality(second) /\ Cardinality(first) # 0
  BY <1>3, <1>4, <1>5, FS_Subset, FS_EmptySet, FS_CardinalityType
<1>7. Cardinality(first) \in 1..Cardinality(all) /\ Cardinality(second) \in 1..Cardinality(all)
  BY <1>6
<1>8. name \in Names
  BY <1>1 DEF EntryType
<1>9. {NthName(name, Cardinality(first)), WithTxt[NthName(name, Cardinality(first))]}
        \cap {NthName(name, Cardinality(second)), WithTxt[NthName(name, Cardinality(second))]} = {}
  BY <1>6, <1>7, <1>8, NumberingAssumption DEF all
<1>10. /\ BaseName(es, j) = NthName(name, Cardinality(first))
       /\ BaseName(es, k) = NthName(name, Cardinality(second))
  BY DEF BaseName, Occurrence, first, second, all
<1> HIDE DEF es, name
<1> QED
  BY <1>9, <1>10 DEF FileName, es

\* An entry is passed over only for a reason: its name is taken by an earlier
\* entry, and that is never one of the same name.
LEMMA PassedOverSettled ==
  ASSUME TypeOK, PlaceInv, NamesOfPassed, step = "entry", entry <= Len(Entries), PassedOver(entry)
  PROVE  Settled(folders[Dir], entry)
<1> DEFINE es == Entries
<1>1. /\ InFolder /\ entry \in 1..Len(es) /\ folders[Dir].link \in FolderLinks
      /\ es = EntriesOf[folders[Dir].link] /\ folders[Dir].by = "page"
  <2>1. Slots \in Nat /\ item = Slots + 1 /\ entry \in Nat \ {0} /\ Len(Entries) \in Nat
    BY EntryAtHand, SubmissionAssumption DEF PlaceInv, FillsFolder
  <2> QED
    BY <2>1, FolderAtHand DEF InFolder, AtFolder, PassedOver
<1>2. CASE es[entry].kind = "folder"
  BY <1>1, <1>2 DEF Settled
<1>3. CASE es[entry].kind # "folder"
  <2>1. PICK name \in folders[Dir].names : name \in {BaseName(es, entry), FileName(es, entry)}
    BY <1>3 DEF PassedOver
  <2>2. PICK j \in 1..entry : j # entry /\ es[j].kind # "folder" /\ FileName(es, j) = name
    BY <1>1 DEF NamesOfPassed
  <2>3. j \in 1..(entry - 1)
    BY <1>1, <2>2
  <2>4. es[j].name # es[entry].name
    BY <1>1, <1>3, <2>1, <2>2, <2>3, NamesDiffer
  <2>5. NameTaken(es, entry)
    BY <2>1, <2>2, <2>3, <2>4 DEF NameTaken
  <2> QED
    BY <1>1, <2>5 DEF Settled
<1> QED
  BY <1>2, <1>3

\* What is settled in a folder stays settled when it gets another entry.
LEMMA SettledStays ==
  ASSUME NEW f, NEW g, g.link = f.link, g.by = f.by, f.kept \subseteq g.kept, NEW k, Settled(f, k)
  PROVE  Settled(g, k)
BY DEF Settled

\* A step keeps what is known of the folder at hand.
LEMMA BusyStep ==
  TypeOK /\ PlaceInv /\ FolderInv /\ [Next]_vars => OpensAtFirst' /\ PassedSettled' /\ NamesOfPassed'
<1> SUFFICES ASSUME TypeOK, PlaceInv, FolderInv, [Next]_vars
             PROVE  OpensAtFirst' /\ PassedSettled' /\ NamesOfPassed'
  OBVIOUS
<1> DEFINE f == folders[Dir]  g == folders'[Dir]
<1>1. CASE MakeFolder
  <2>1. Dir \in Dirs /\ entry = 1
    BY <1>1, RowTyped DEF MakeFolder, Needed, PlaceInv, FolderInv, OpensAtFirst
  <2>2. PICK by \in {"archive", "page"} : folders' = [folders EXCEPT ![Dir] =
          [link |-> Link, by |-> by, kept |-> {}, torn |-> {}, names |-> {}]]
    BY <1>1 DEF MakeFolder
  <2>3. g.names = {}
    BY <2>1, <2>2 DEF TypeOK
  <2>4. csv' = csv /\ row' = row /\ item' = item /\ entry' = 1 /\ step' = "entry"
    BY <1>1, <2>1 DEF MakeFolder, Stay, place
  <2>5. Dir' = Dir
    BY <2>4 DEF Dir
  <2> QED
    BY <2>3, <2>4, <2>5 DEF OpensAtFirst, PassedSettled, NamesOfPassed
<1>2. ASSUME OpenEntry \/ WriteEntry \/ PassEntry PROVE OpensAtFirst' /\ PassedSettled' /\ NamesOfPassed'
  <2>1. /\ step \in {"entry", "write entry"} /\ step' \in {"entry", "write entry"}
        /\ csv' = csv /\ row' = row /\ item' = item
        /\ OpenEntry => step = "entry" /\ entry' = entry /\ step' = "write entry"
        /\ WriteEntry => entry' = entry + 1 /\ step' = "entry"
        /\ PassEntry => entry' = entry + 1 /\ step = "entry" /\ folders' = folders
    BY <1>2 DEF OpenEntry, WriteEntry, PassEntry, Stay, place, tree
  <2>2. Dir' = Dir /\ InFolder
    <3>1. item = Slots + 1 /\ Slots \in Nat
      BY <2>1, SubmissionAssumption DEF PlaceInv, FillsFolder
    <3>2. AtFolder
      BY <3>1 DEF AtFolder
    <3> QED
      BY <2>1, <3>2 DEF Dir, InFolder
  <2>3. /\ g.link = f.link /\ g.by = f.by /\ f.kept \subseteq g.kept
        /\ OpenEntry => g.names = f.names \cup {FileName(Entries, entry)} /\ entry \in 1..Len(Entries)
        /\ WriteEntry => g.names = f.names /\ entry \in g.kept
    BY <1>2, <2>1, FolderSteps
  <2>4. Entries' = Entries
    BY <2>2, <2>3 DEF Entries
  <2>5. entry \in Nat \ {0} /\ Len(Entries) \in Nat
    BY <2>1, EntryAtHand
  <2>6. OpenEntry => entry' = entry
    BY <2>1
  <2>7. ~OpenEntry => entry' = entry + 1
    BY <1>2, <2>1
  <2>8. entry' \in Nat
    BY <2>5, <2>6, <2>7
  <2>9. PassedSettled'
    <3> SUFFICES ASSUME NEW k \in 1..(entry' - 1), k \in 1..Len(Entries) PROVE Settled(g, k)
      BY <2>2, <2>4 DEF PassedSettled
    <3>1. CASE k \in 1..(entry - 1)
      <4>1. Settled(f, k)
        BY <2>2, <3>1 DEF FolderInv, PassedSettled
      <4> QED
        BY <2>3, <4>1, SettledStays
    <3>2. CASE k \notin 1..(entry - 1)
      <4>1. k = entry /\ ~OpenEntry
        <5>1. CASE OpenEntry
          <6>1. k \in 1..(entry - 1)
            BY <2>6, <5>1
          <6> QED
            BY <3>2, <6>1
        <5>2. CASE ~OpenEntry
          <6>1. k = entry
            BY <2>5, <2>7, <3>2, <5>2
          <6> QED
            BY <5>2, <6>1
        <5> QED
          BY <5>1, <5>2
      <4>2. CASE WriteEntry
        BY <2>3, <4>1, <4>2 DEF Settled
      <4>3. CASE PassEntry
        <5>1. Settled(f, entry)
          BY <4>3, PassedOverSettled DEF PassEntry, FolderInv
        <5> QED
          BY <2>3, <4>1, <5>1, SettledStays
      <4> QED
        BY <1>2, <4>1, <4>2, <4>3
    <3> QED
      BY <3>1, <3>2
  <2>10. NamesOfPassed'
    <3> SUFFICES ASSUME g.by = "page", NEW name \in g.names
                 PROVE  \E j \in 1..entry' :
                          /\ j \in 1..Len(Entries) /\ (j = entry' => step' = "write entry")
                          /\ Entries[j].kind # "folder" /\ FileName(Entries, j) = name
      BY <2>2, <2>4 DEF NamesOfPassed
    <3>1. CASE name \in f.names
      <4>1. PICK j \in 1..entry : /\ j \in 1..Len(Entries) /\ (j = entry => step = "write entry")
                                  /\ Entries[j].kind # "folder" /\ FileName(Entries, j) = name
        BY <2>2, <2>3, <3>1 DEF FolderInv, NamesOfPassed
      <4>2. CASE OpenEntry
        BY <2>1, <4>1, <4>2
      <4>3. CASE ~OpenEntry
        <5>1. entry' = entry + 1
          BY <1>2, <2>1, <4>3
        <5>2. j \in 1..entry' /\ j # entry'
          BY <2>5, <5>1
        <5> QED
          BY <4>1, <5>2
      <4> QED
        BY <4>2, <4>3
    <3>2. CASE name \notin f.names
      <4>1. OpenEntry /\ name = FileName(Entries, entry) /\ entry \in 1..Len(Entries)
        BY <1>2, <2>1, <2>3, <3>2
      <4>2. Entries[entry].kind # "folder"
        <5>1. f.by = "page" /\ ~PassedOver(entry)
          BY <2>3, <4>1 DEF OpenEntry
        <5> QED
          BY <5>1 DEF PassedOver
      <4>3. entry \in 1..entry'
        BY <2>5, <2>6, <4>1
      <4>4. step' = "write entry"
        BY <2>1, <4>1
      <4> QED
        BY <4>1, <4>2, <4>3, <4>4
    <3> QED
      BY <3>1, <3>2
  <2> QED
    BY <2>1, <2>9, <2>10 DEF OpensAtFirst
<1>3. CASE UNCHANGED vars
  BY <1>3 DEF vars, tree, place, FolderInv, OpensAtFirst, PassedSettled, NamesOfPassed, InFolder,
      AtFolder, Dir, Entries
<1>4. CASE Begin \/ Skip \/ Rename \/ CloseFolder \/ Fail
  <2>1. step' \in {"open", "exit"} /\ entry' = 1
    BY <1>4 DEF Begin, Skip, Rename, CloseFolder, Fail, NextItem
  <2> QED
    BY <2>1 DEF OpensAtFirst, PassedSettled, NamesOfPassed, InFolder
<1>5. CASE Fetch \/ WriteTemporary \/ Exit \/ Killed
  <2>1. step' \in {"write", "rename", "off"}
    BY <1>5 DEF Fetch, WriteTemporary, Exit, Killed, Stay
  <2> QED
    BY <2>1 DEF OpensAtFirst, PassedSettled, NamesOfPassed, InFolder
<1> QED
  BY <1>1, <1>2, <1>3, <1>4, <1>5 DEF Next

\* The run is in a folder exactly when it is at its entries.
LEMMA InFolderIff == PlaceInv => (InFolder <=> step \in {"entry", "write entry"})
<1>1. Slots \in Nat
  BY SubmissionAssumption
<1>2. PlaceInv /\ step \in {"entry", "write entry"} => item = Slots + 1
  BY DEF PlaceInv, FillsFolder
<1>3. item = Slots + 1 => AtFolder
  BY <1>1 DEF AtFolder
<1> QED
  BY <1>2, <1>3 DEF InFolder

\* What a step changes in the folders, and which of them the run is in afterwards:
\* a folder is left only with all its entries settled, or broken.
LEMMA FolderEffects ==
  ASSUME TypeOK, PlaceInv, FolderInv, [Next]_vars
  PROVE  /\ broken \subseteq broken'
         /\ \/ /\ folders' = folders /\ (InFolder => InFolder' /\ Dir' = Dir)
            \/ /\ folders' = folders /\ ~InFolder' /\ Complete(Dir)
            \/ /\ folders' = folders /\ ~InFolder' /\ Dir \in broken' /\ failures' # 0
            \/ /\ folders' = folders /\ ~InFolder' /\ Dir \in broken' /\ step' = "off" /\ exit' = -1
            \/ /\ \A d \in Dirs : d # Dir => folders'[d] = folders[d]
               /\ InFolder' /\ Dir' = Dir
<1> DEFINE Goal == /\ broken \subseteq broken'
                   /\ \/ /\ folders' = folders /\ (InFolder => InFolder' /\ Dir' = Dir)
                      \/ /\ folders' = folders /\ ~InFolder' /\ Complete(Dir)
                      \/ /\ folders' = folders /\ ~InFolder' /\ Dir \in broken' /\ failures' # 0
                      \/ /\ folders' = folders /\ ~InFolder' /\ Dir \in broken' /\ step' = "off" /\ exit' = -1
                      \/ /\ \A d \in Dirs : d # Dir => folders'[d] = folders[d]
                         /\ InFolder' /\ Dir' = Dir
<1>0. PlaceInv' /\ (InFolder <=> step \in {"entry", "write entry"})
      /\ (InFolder' <=> step' \in {"entry", "write entry"})
  <2>1. PlaceInv'
    BY AtRowStep, WritesNewStep, FillsFolderStep DEF PlaceInv
  <2>2. (PlaceInv => (InFolder <=> step \in {"entry", "write entry"}))'
    BY InFolderIff, PTL
  <2> QED
    BY <2>1, <2>2, InFolderIff
<1>1. CASE Begin \/ Skip \/ Fetch \/ WriteTemporary \/ Rename \/ Exit
  BY <1>0, <1>1 DEF Begin, Skip, Fetch, WriteTemporary, Written, Rename, Exit, Needed, tree
<1>2. CASE MakeFolder \/ OpenEntry \/ WriteEntry
  <2>1. broken' = broken /\ csv' = csv /\ row' = row /\ step' \in {"entry", "write entry"}
    BY <1>2 DEF MakeFolder, OpenEntry, WriteEntry, Stay, place
  <2>2. \A d \in Dirs : d # Dir => folders'[d] = folders[d]
    BY <1>2 DEF MakeFolder, OpenEntry, WriteEntry, TypeOK
  <2> QED
    BY <1>0, <2>1, <2>2 DEF Dir
<1>3. CASE PassEntry \/ UNCHANGED vars
  <2>1. /\ folders' = folders /\ broken' = broken /\ csv' = csv /\ row' = row /\ step' = step
    BY <1>3 DEF PassEntry, vars, tree, place
  <2> QED
    BY <1>0, <2>1 DEF Dir
<1>4. CASE CloseFolder
  <2>1. /\ folders' = folders /\ broken' = broken /\ step = "entry" /\ step' \in {"open", "exit"}
        /\ entry > Len(Entries)
    BY <1>4 DEF CloseFolder, Through, NextItem, tree
  <2>2. InFolder /\ ~InFolder'
    BY <1>0, <2>1
  <2>3. Entries = EntriesOf[folders[Dir].link] /\ entry \in Nat /\ Len(Entries) \in Nat
    BY <2>1, FolderAtHand, EntryAtHand
  <2>4. \A k \in 1..Len(Entries) : Settled(folders[Dir], k)
    <3> TAKE k \in 1..Len(Entries)
    <3>1. k \in 1..(entry - 1)
      BY <2>1, <2>3
    <3> QED
      BY <2>2, <3>1 DEF FolderInv, PassedSettled
  <2>5. Complete(Dir)
    BY <2>3, <2>4 DEF Complete, Settled
  <2> QED
    BY <2>1, <2>2, <2>5
<1>5. CASE Fail
  <2>1. /\ folders' = folders /\ step' \in {"open", "exit"} /\ failures' = failures + 1
        /\ broken' = IF InFolder THEN broken \cup {Dir} ELSE broken
    BY <1>5 DEF Fail, Counted, Interrupted, NextItem, tree
  <2>2. failures' # 0
    <3>1. failures \in Nat
      BY DEF TypeOK
    <3> QED
      BY <2>1, <3>1
  <2>3. ~InFolder'
    BY <1>0, <2>1
  <2>4. broken \subseteq broken' /\ (InFolder => Dir \in broken')
    BY <2>1
  <2> QED
    BY <2>1, <2>2, <2>3, <2>4
<1>6. CASE Killed
  <2>1. /\ folders' = folders /\ step' = "off" /\ exit' = -1
        /\ broken' = IF InFolder THEN broken \cup {Dir} ELSE broken
    BY <1>6 DEF Killed, Interrupted, Stay, tree
  <2>2. ~InFolder'
    BY <1>0, <2>1
  <2>3. broken \subseteq broken' /\ (InFolder => Dir \in broken')
    BY <2>1
  <2> QED
    BY <2>1, <2>2, <2>3
<1> QED
  BY <1>1, <1>2, <1>3, <1>4, <1>5, <1>6 DEF Next

\* A step leaves no folder short, but for the one at hand and broken ones.
LEMMA ShortStep == TypeOK /\ PlaceInv /\ FolderInv /\ [Next]_vars => ShortFoldersWereBroken'
<1> SUFFICES ASSUME TypeOK, PlaceInv, FolderInv, [Next]_vars,
                    NEW d \in Dirs, folders'[d] # Absent, ~(InFolder' /\ Dir' = d)
             PROVE  Complete(d)' \/ d \in broken'
  BY DEF ShortFoldersWereBroken
<1>1. broken \subseteq broken'
  BY FolderEffects
<1>2. folders[d] # Absent /\ ~(InFolder /\ Dir = d) => Complete(d) \/ d \in broken
  BY DEF FolderInv, ShortFoldersWereBroken
<1>3. folders' = folders => (Complete(d)' <=> Complete(d))
  BY DEF Complete
<1>4. folders'[d] = folders[d] => (Complete(d)' <=> Complete(d))
  BY DEF Complete
<1> QED
  BY <1>1, <1>2, <1>3, <1>4, FolderEffects

\* A folder lacks an entry only where a run failed or was killed in it, whatever
\* the names of its entries, and however often the script ran: no clean run, and
\* no interruption elsewhere, leaves a folder short.
THEOREM OnlyBrokenFoldersAreShort == Spec => []ShortFoldersWereBroken
<1>1. Init => FolderInv
  BY DEF Init, FolderInv, OpensAtFirst, PassedSettled, NamesOfPassed, ShortFoldersWereBroken, InFolder
<1>2. TypeOK /\ PlaceInv /\ FolderInv /\ [Next]_vars => FolderInv'
  BY BusyStep, ShortStep DEF FolderInv
<1>3. FolderInv => ShortFoldersWereBroken
  BY DEF FolderInv
<1> QED
  BY <1>1, <1>2, <1>3, PlaceHolds, PTL DEF Spec
\* A run without failures has got all that it has passed, and every folder it made
\* is complete or at hand; it ends behind its last row.
GotFiles == \A r \in 1..Len(csv), i \in 1..Slots :
  (r < row \/ (r = row /\ i < item)) /\ csv[r].links[i] # NoLink => files[csv[r].dir][i] # Absent
GotFolders == \A r \in 1..Len(csv) :
  r < row /\ csv[r].folder # NoLink => folders[csv[r].dir] # Absent
MadeComplete == \A d \in created : Complete(d) \/ (InFolder /\ Dir = d)
RunInv == /\ step # "off" /\ failures = 0 => GotFiles /\ GotFolders /\ MadeComplete
          /\ step = "exit" => row > Len(csv)
          /\ CleanExitIsComplete

\* The CSV at hand is a sequence of rows.
LEMMA CsvTyped ==
  ASSUME TypeOK
  PROVE  /\ Len(csv) \in Nat /\ row \in Nat
         /\ \A r \in 1..Len(csv) : csv[r].dir \in Dirs
<1>1. csv \in Csvs \cup {<<>>} /\ row \in 1..(Len(csv) + 1)
  BY DEF TypeOK
<1>2. CASE csv = <<>>
  BY <1>1, <1>2
<1>3. CASE csv \in Csvs
  <2>1. csv \in Seq(RowType)
    BY <1>3, SubmissionAssumption
  <2>2. Len(csv) \in Nat /\ \A r \in 1..Len(csv) : csv[r] \in RowType
    BY <2>1
  <2>3. \A r \in 1..Len(csv) : csv[r].dir \in Dirs
    BY <2>2 DEF RowType
  <2> QED
    BY <1>1, <2>2, <2>3
<1> QED
  BY <1>1, <1>2, <1>3

\* What is there when the run turns to its next item: the item, or no link to it.
ItemGot == Link # NoLink => IF AtFolder THEN folders'[Dir] # Absent ELSE files'[Dir][item] # Absent

\* A step of a run that has not failed: it begins, stays where it is, or goes on
\* with the item got.
LEMMA RunMoves ==
  ASSUME TypeOK, PlaceInv, [Next]_vars, step' # "off", failures' = 0
  PROVE  \/ Begin
         \/ /\ step # "off" /\ failures = 0 /\ csv' = csv
            /\ created' = created \/ (created' = created \cup {Dir} /\ MakeFolder)
            /\ \/ row' = row /\ item' = item /\ step' # "exit"
               \/ UNCHANGED vars
               \/ NextItem /\ step \notin {"off", "exit"} /\ ItemGot
<1>0. failures \in Nat
  BY DEF TypeOK
<1>1. CASE Begin
  BY <1>1
<1>2. CASE Fetch \/ WriteTemporary \/ MakeFolder \/ PassEntry \/ OpenEntry \/ WriteEntry
  BY <1>2 DEF Fetch, WriteTemporary, MakeFolder, PassEntry, OpenEntry, WriteEntry, Needed, Stay, place
<1>3. CASE Skip
  BY <1>3 DEF Skip, NextItem, Exists, ItemGot, tree
<1>4. CASE Rename
  <2>1. files'[Dir][item] = [link |-> Link, whole |-> TRUE] /\ Link \in FileLinks
    BY <1>4, RowTyped DEF Rename, PlaceInv, WritesNew, TypeOK
  <2>2. [link |-> Link, whole |-> TRUE] \in Content
    BY <2>1 DEF Content
  <2>3. ~AtFolder
    <3>1. item \in 1..Slots /\ Slots \in Nat
      BY <1>4, SubmissionAssumption DEF Rename, PlaceInv, WritesNew
    <3>2. ~(item > Slots)
      BY <3>1
    <3> QED
      BY <3>2 DEF AtFolder
  <2>4. ItemGot
    BY <2>1, <2>2, <2>3, SubmissionAssumption DEF ItemGot
  <2> QED
    BY <1>4, <2>4 DEF Rename, NextItem
<1>5. CASE CloseFolder
  <2>1. folders' = folders /\ folders[Dir] # Absent
    BY <1>5 DEF CloseFolder, PlaceInv, FillsFolder, tree
  <2>2. AtFolder
    BY <1>5, InFolderIff DEF CloseFolder, InFolder
  <2> QED
    BY <1>5, <2>1, <2>2 DEF CloseFolder, NextItem, ItemGot
<1>6. CASE Fail
  <2>1. failures' = failures + 1
    BY <1>6 DEF Fail, Counted
  <2> QED
    BY <1>0, <2>1
<1>7. CASE Exit \/ Killed
  BY <1>7 DEF Exit, Killed, Stay
<1>8. CASE UNCHANGED vars
  BY <1>8 DEF vars, place
<1> QED
  BY <1>1, <1>2, <1>3, <1>4, <1>5, <1>6, <1>7, <1>8 DEF Next

\* Going on counts an item as passed only when it is got.
LEMMA GotStep ==
  ASSUME TypeOK, PlaceInv, [Next]_vars, GotFiles, GotFolders, csv' = csv, step \notin {"off", "exit"},
         NextItem, ItemGot
  PROVE  GotFiles' /\ GotFolders'
<1>0. /\ Slots \in Nat /\ item \in 1..(Slots + 1) /\ row \in Nat
      /\ AtFolder <=> item > Slots
      /\ AtFolder => row' = row + 1 /\ item' = 1
      /\ ~AtFolder => row' = row /\ item' = item + 1
  <2>1. Slots \in Nat /\ item \in 1..(Slots + 1) /\ row \in Nat
    BY SubmissionAssumption, CsvTyped DEF TypeOK
  <2>2. AtFolder <=> item > Slots
    BY DEF AtFolder
  <2>3. /\ AtFolder => row' = row + 1 /\ item' = 1
        /\ ~AtFolder => row' = row /\ item' = item + 1
    BY DEF NextItem
  <2> QED
    BY <2>1, <2>2, <2>3
<1>1. ASSUME NEW r \in 1..Len(csv), NEW i \in 1..Slots, r < row' \/ (r = row' /\ i < item'),
             csv[r].links[i] # NoLink
      PROVE  files'[csv[r].dir][i] # Absent
  <2>1. CASE r < row \/ (r = row /\ i < item)
    <3>1. files[csv[r].dir][i] # Absent
      BY <1>1, <2>1 DEF GotFiles
    <3> QED
      BY <3>1, CsvTyped, KeptStep
  <2>2. CASE ~(r < row \/ (r = row /\ i < item))
    <3>1. r = row /\ i = item /\ ~(item > Slots)
      BY <1>0, <1>1, <2>2, CsvTyped
    <3>2. ~AtFolder
      BY <1>0, <3>1
    <3> QED
      BY <1>1, <3>1, <3>2 DEF ItemGot, Link, Dir
  <2> QED
    BY <2>1, <2>2
<1>2. ASSUME NEW r \in 1..Len(csv), r < row', csv[r].folder # NoLink
      PROVE  folders'[csv[r].dir] # Absent
  <2>1. CASE r < row
    <3>1. folders[csv[r].dir] # Absent
      BY <1>2, <2>1 DEF GotFolders
    <3> QED
      BY <3>1, CsvTyped, KeptStep
  <2>2. CASE ~(r < row)
    <3>1. r = row /\ AtFolder
      BY <1>0, <1>2, <2>2, CsvTyped
    <3> QED
      BY <1>2, <3>1 DEF ItemGot, Link, Dir
  <2> QED
    BY <2>1, <2>2
<1> QED
  BY <1>1, <1>2 DEF GotFiles, GotFolders

\* A run without failures keeps its account of what it has got.
LEMMA AccountStep ==
  ASSUME TypeOK, PlaceInv, FolderInv, RunInv, [Next]_vars, step' # "off", failures' = 0
  PROVE  GotFiles' /\ GotFolders' /\ MadeComplete'
<1>1. CASE Begin
  <2>1. row' = 1 /\ item' = 1 /\ created' = {}
    BY <1>1 DEF Begin
  <2> QED
    BY <2>1 DEF GotFiles, GotFolders, MadeComplete
<1>2. CASE ~Begin
  <2>1. /\ step # "off" /\ failures = 0 /\ csv' = csv
        /\ created' = created \/ (created' = created \cup {Dir} /\ MakeFolder)
        /\ \/ row' = row /\ item' = item
           \/ NextItem /\ step \notin {"off", "exit"} /\ ItemGot
    <3>1. UNCHANGED vars => row' = row /\ item' = item
      BY DEF vars, place
    <3> QED
      BY <1>2, <3>1, RunMoves
  <2>2. GotFiles /\ GotFolders /\ MadeComplete
    BY <2>1 DEF RunInv
  <2>3. GotFiles' /\ GotFolders'
    <3>1. CASE row' = row /\ item' = item
      <4>1. \A r \in 1..Len(csv), i \in 1..Slots :
              files[csv[r].dir][i] # Absent => files'[csv[r].dir][i] # Absent
        BY CsvTyped, KeptStep
      <4>2. \A r \in 1..Len(csv) : folders[csv[r].dir] # Absent => folders'[csv[r].dir] # Absent
        BY CsvTyped, KeptStep
      <4> QED
        BY <2>1, <2>2, <3>1, <4>1, <4>2 DEF GotFiles, GotFolders
    <3> QED
      BY <2>1, <2>2, <3>1, GotStep
  <2>4. ASSUME NEW d \in created' PROVE (Complete(d) \/ (InFolder /\ Dir = d))'
    <3>1. d \in Dirs
      <4>1. created' \subseteq Dirs
        BY TypeStep DEF TypeOK
      <4> QED
        BY <4>1
    <3>2. CASE d \in created
      <4>1. Complete(d) \/ (InFolder /\ Dir = d)
        BY <2>2, <3>2 DEF MadeComplete
      <4>2. folders'[d] = folders[d] => (Complete(d)' <=> Complete(d))
        BY DEF Complete
      <4> QED
        BY <3>1, <4>1, <4>2, FolderEffects
    <3>3. CASE d \notin created
      <4>1. MakeFolder /\ d = Dir
        BY <2>1, <3>3
      <4>2. step' = "entry" /\ Dir' = Dir
        BY <4>1 DEF MakeFolder, Stay, place, Dir
      <4>3. PlaceInv'
        BY AtRowStep, WritesNewStep, FillsFolderStep DEF PlaceInv
      <4>4. (PlaceInv => (InFolder <=> step \in {"entry", "write entry"}))'
        BY InFolderIff, PTL
      <4> QED
        BY <4>1, <4>2, <4>3, <4>4
    <3> QED
      BY <3>2, <3>3
  <2> QED
    BY <2>3, <2>4 DEF MadeComplete
<1> QED
  BY <1>1, <1>2

\* A step keeps RunInv: a run comes to its end only behind its last row, and an
\* exit status of 0 reports its account.
LEMMA RunStep == TypeOK /\ PlaceInv /\ FolderInv /\ RunInv /\ [Next]_vars => RunInv'
<1> SUFFICES ASSUME TypeOK, PlaceInv, FolderInv, RunInv, [Next]_vars PROVE RunInv'
  OBVIOUS
<1>1. step' # "off" /\ failures' = 0 => GotFiles' /\ GotFolders' /\ MadeComplete'
  BY AccountStep
<1>2. ASSUME step' = "exit" PROVE row' > Len(csv')
  <2>1. CASE Begin
    <3>1. csv' = <<>> /\ row' = 1
      BY <1>2, <2>1 DEF Begin
    <3> QED
      BY <3>1
  <2>2. CASE Skip \/ Rename \/ CloseFolder \/ Fail
    <3>1. row = Len(csv) /\ row' = row + 1 /\ csv' = csv
      BY <1>2, <2>2 DEF Skip, Rename, CloseFolder, Fail, NextItem
    <3> QED
      BY <3>1, CsvTyped
  <2>3. CASE Fetch \/ WriteTemporary \/ MakeFolder \/ PassEntry \/ OpenEntry \/ WriteEntry \/ Exit \/ Killed
    BY <1>2, <2>3 DEF Fetch, WriteTemporary, MakeFolder, PassEntry, OpenEntry, WriteEntry, Exit, Killed, Stay
  <2>4. CASE UNCHANGED vars
    BY <1>2, <2>4 DEF RunInv, vars, place
  <2> QED
    BY <2>1, <2>2, <2>3, <2>4 DEF Next
<1>3. CleanExitIsComplete'
  <2>1. CASE Exit
    <3>1. /\ step = "exit" /\ files' = files /\ folders' = folders /\ csv' = csv /\ created' = created
          /\ exit' = IF failures > 0 THEN 1 ELSE 0
      BY <2>1 DEF Exit, Status, tree, place
    <3>2. failures \in Nat
      BY DEF TypeOK
    <3>3. CASE failures > 0
      BY <3>1, <3>3 DEF CleanExitIsComplete
    <3>4. CASE ~(failures > 0)
      <4>1. failures = 0
        BY <3>2, <3>4
      <4>2. GotFiles /\ GotFolders /\ MadeComplete /\ row > Len(csv)
        BY <3>1, <4>1 DEF RunInv
      <4>3. \A r \in 1..Len(csv) : r < row
        <5>1. row \in Nat /\ Len(csv) \in Nat
          BY CsvTyped
        <5> QED
          BY <4>2, <5>1
      <4>4. \A r \in 1..Len(csv) :
              /\ \A i \in 1..Slots : csv[r].links[i] # NoLink => files[csv[r].dir][i] # Absent
              /\ csv[r].folder # NoLink => folders[csv[r].dir] # Absent
        BY <4>2, <4>3 DEF GotFiles, GotFolders
      <4>5. \A d \in created : Complete(d)
        BY <3>1, <4>2 DEF MadeComplete, InFolder
      <4> QED
        BY <3>1, <4>4, <4>5 DEF CleanExitIsComplete, Complete
    <3> QED
      BY <3>3, <3>4
  <2>2. CASE UNCHANGED vars
    BY <2>2 DEF RunInv, vars, tree, place, CleanExitIsComplete, Complete
  <2>3. CASE Killed
    BY <2>3 DEF Killed, CleanExitIsComplete
  <2>4. CASE Begin \/ Skip \/ Fetch \/ WriteTemporary \/ Rename \/ MakeFolder \/ PassEntry \/ OpenEntry
          \/ WriteEntry \/ CloseFolder \/ Fail
    <3>1. step' # "off"
      BY <2>4 DEF Begin, Skip, Fetch, WriteTemporary, Rename, MakeFolder, PassEntry, OpenEntry,
         WriteEntry, CloseFolder, Fail, NextItem, Stay
    <3> QED
      BY <3>1 DEF CleanExitIsComplete
  <2> QED
    BY <2>1, <2>2, <2>3, <2>4 DEF Next
<1> QED
  BY <1>1, <1>2, <1>3 DEF RunInv

\* After an exit status of 0 every file and folder the CSV links is there, and the
\* folders the run made are complete, whatever earlier runs had left and however
\* the rows share their directories.
THEOREM CleanExitsAreComplete == Spec => []CleanExitIsComplete
<1>1. Init => FolderInv /\ RunInv
  BY DEF Init, FolderInv, OpensAtFirst, PassedSettled, NamesOfPassed, ShortFoldersWereBroken, InFolder,
      RunInv, CleanExitIsComplete
<1>2. TypeOK /\ PlaceInv /\ FolderInv /\ RunInv /\ [Next]_vars => FolderInv' /\ RunInv'
  BY BusyStep, ShortStep, RunStep DEF FolderInv
<1>3. RunInv => CleanExitIsComplete
  BY DEF RunInv
<1> QED
  BY <1>1, <1>2, <1>3, PlaceHolds, PTL DEF Spec
==============================================================================
