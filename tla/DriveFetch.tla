------------------------------ MODULE DriveFetch ------------------------------
(***************************************************************************)
(* check_reports/prepare_directories.py: for every row of a CSV of           *)
(* submissions, download the report, the collections and a Drive folder into *)
(* the team's directory.  What is there already is skipped, which is how a   *)
(* run goes on where an earlier one failed or was killed.  The steps are the *)
(* changes of the file system and the downloads between them.                *)
(***************************************************************************)
EXTENDS Integers, Sequences, FiniteSets

CONSTANTS Dirs,            \* team directories, as team_directory_name gives them
          FileLinks, FolderLinks, NoLink,
          Slots,           \* report.md is slot 1, collection<n>.json slot n + 1
          Csvs,            \* versions of the CSV: sequences of rows
          EntriesOf,       \* per folder: its entries in the order of its page
          Names, Numbered, \* file names; a name with its number before the suffix
          WithTxt,         \* a name with .txt after it
          Absent,          \* nothing under that path
          MaxRuns          \* bound: runs of the script

RowType == [dir : Dirs, links : [1..Slots -> FileLinks \cup {NoLink}],
            folder : FolderLinks \cup {NoLink}]
EntryType == [name : Names, kind : {"file", "document", "folder"}]
Content == [link : FileLinks, whole : BOOLEAN]
FolderType == [link : FolderLinks, by : {"archive", "page"},
               kept : SUBSET Nat, torn : SUBSET Nat, names : SUBSET Names]

ASSUME SubmissionAssumption ==
  /\ Slots \in Nat \ {0} /\ MaxRuns \in Nat
  /\ NoLink \notin FileLinks \cup FolderLinks
  /\ Absent \notin Content /\ Absent \notin FolderType
  /\ Csvs \subseteq Seq(RowType)
  /\ EntriesOf \in [FolderLinks -> Seq(EntryType)]
  /\ WithTxt \in [Names -> Names]
  /\ \A f \in FolderLinks, name \in Names :
       \A k \in 2..Len(EntriesOf[f]) : Numbered[name][k] \in Names

\* The entries of a page that are called name, and what the i-th is to be called.
Called(es, name) == {k \in 1..Len(es) : es[k].kind # "folder" /\ es[k].name = name}
NthName(name, i) == IF i > 1 THEN Numbered[name][i] ELSE name

\* {stem}_{count}{suffix}: of one name, the name itself and its numbered forms
\* differ, whether or not .txt comes after them.
ASSUME NumberingAssumption ==
  \A f \in FolderLinks, name \in Names :
    \A i, k \in 1..Cardinality(Called(EntriesOf[f], name)) :
      i # k => {NthName(name, i), WithTxt[NthName(name, i)]}
                 \cap {NthName(name, k), WithTxt[NthName(name, k)]} = {}

VARIABLES files,     \* per directory and slot: the file there
          folders,   \* per directory: drive_folder
          csv, row, item, entry,  \* the run's place in its loops
          step,      \* what the run does next
          failures,
          runs,      \* runs started
          exit,      \* exit status of the last run, -1 if it was killed
          created,   \* history: the folders the run has made
          broken     \* history: the folders a failed or killed run left

tree == <<files, folders>>
place == <<csv, row, item, entry>>
vars == <<tree, place, step, failures, runs, exit, created, broken>>

Init == /\ files = [d \in Dirs |-> [i \in 1..Slots |-> Absent]]
        /\ folders = [d \in Dirs |-> Absent]
        /\ csv = <<>> /\ row = 1 /\ item = 1 /\ entry = 1
        /\ step = "off" /\ failures = 0 /\ runs = 0 /\ exit = -1
        /\ created = {} /\ broken = {}
------------------------------------------------------------------------------
(* Where the run is *)

Dir == csv[row].dir
AtFolder == item > Slots
Link == IF AtFolder THEN csv[row].folder ELSE csv[row].links[item]

\* destination.exists(); a run that does not look, in a mutation.
Exists_Ignored == FALSE
Exists == IF AtFolder THEN folders[Dir] # Absent ELSE files[Dir][item] # Absent

Entries == EntriesOf[folders[Dir].link]
InFolder == AtFolder /\ step \in {"entry", "write entry"}

\* The next download of the row, or the next row; entries begin anew.
NextItem == /\ item' = IF AtFolder THEN 1 ELSE item + 1
            /\ row' = IF AtFolder THEN row + 1 ELSE row
            /\ step' = IF AtFolder /\ row = Len(csv) THEN "exit" ELSE "open"
            /\ entry' = 1
            /\ UNCHANGED csv
Stay(s) == step' = s /\ UNCHANGED place
------------------------------------------------------------------------------
(* A run of the script *)

Begin == /\ step = "off" /\ runs < MaxRuns
         /\ csv' \in Csvs
         /\ row' = 1 /\ item' = 1 /\ entry' = 1
         /\ step' = IF csv' = <<>> THEN "exit" ELSE "open"
         /\ failures' = 0 /\ runs' = runs + 1 /\ created' = {}
         /\ UNCHANGED <<tree, exit, broken>>

Skip == /\ step = "open"
        /\ Link = NoLink \/ Exists
        /\ NextItem
        /\ UNCHANGED <<tree, failures, runs, exit, created, broken>>

Needed == step = "open" /\ Link # NoLink /\ ~Exists

\* A report or collection: fetched whole, written under a temporary name, renamed.
Fetch == /\ Needed /\ ~AtFolder
         /\ Stay("write")
         /\ UNCHANGED <<tree, failures, runs, exit, created, broken>>

\* What the directory shows while the file is written: nothing new, because it is
\* written under another name; the file itself, unfinished, in a mutation.
Written_InPlace == [files EXCEPT ![Dir][item] = [link |-> Link, whole |-> FALSE]]
Written == files

WriteTemporary == /\ step = "write"
                  /\ files' = Written
                  /\ Stay("rename")
                  /\ UNCHANGED <<folders, failures, runs, exit, created, broken>>

Rename == /\ step = "rename"
          /\ files' = [files EXCEPT ![Dir][item] = [link |-> Link, whole |-> TRUE]]
          /\ NextItem
          /\ UNCHANGED <<folders, failures, runs, exit, created, broken>>
------------------------------------------------------------------------------
(* A Drive folder: its archive or, if Drive cannot make one (a 500), its       *)
(* page's entries one by one; drive_folder is made before either              *)

MakeFolder == /\ Needed /\ AtFolder
              /\ \E by \in {"archive", "page"} :
                   folders' = [folders EXCEPT ![Dir] =
                     [link |-> Link, by |-> by, kept |-> {}, torn |-> {}, names |-> {}]]
              /\ created' = created \cup {Dir}
              /\ Stay("entry")
              /\ UNCHANGED <<files, failures, runs, exit, broken>>

\* used_names: how often the name has come up; not counted in a mutation.
Occurrence_Uncounted(es, k) == 1
Occurrence(es, k) == Cardinality(Called(es, es[k].name) \cap 1..k)

BaseName(es, k) == NthName(es[k].name, Occurrence(es, k))
FileName(es, k) == IF es[k].kind = "document" THEN WithTxt[BaseName(es, k)] ELSE BaseName(es, k)

\* An archive has names of its own and holds subfolders too.  The page's
\* subfolders are left out, and so is an entry whose name is taken.
PassedOver(k) == LET es == Entries IN
  /\ folders[Dir].by = "page"
  /\ \/ es[k].kind = "folder"
     \/ {BaseName(es, k), FileName(es, k)} \cap folders[Dir].names # {}

PassEntry == /\ step = "entry" /\ entry <= Len(Entries) /\ PassedOver(entry)
             /\ entry' = entry + 1
             /\ UNCHANGED <<tree, csv, row, item, step, failures, runs, exit, created, broken>>

Opened(f, k, name) == [f EXCEPT !.torn = @ \cup {k}, !.names = @ \cup {name}]
Filled(f, k) == [f EXCEPT !.torn = @ \ {k}, !.kept = @ \cup {k}]

\* write_bytes opens the file under its own name, then fills it.
OpenEntry == /\ step = "entry" /\ entry <= Len(Entries) /\ ~PassedOver(entry)
             /\ folders' = [folders EXCEPT ![Dir] =
                  Opened(folders[Dir], entry, FileName(Entries, entry))]
             /\ Stay("write entry")
             /\ UNCHANGED <<files, failures, runs, exit, created, broken>>

WriteEntry == /\ step = "write entry"
              /\ folders' = [folders EXCEPT ![Dir] = Filled(folders[Dir], entry)]
              /\ entry' = entry + 1 /\ step' = "entry"
              /\ UNCHANGED <<files, csv, row, item, failures, runs, exit, created, broken>>

Through == entry > Len(Entries)

CloseFolder == /\ step = "entry" /\ Through
               /\ NextItem
               /\ UNCHANGED <<tree, failures, runs, exit, created, broken>>
------------------------------------------------------------------------------
(* What goes wrong, and the end *)

\* failures += 1; only for reports and collections, in a mutation.
Counted_FilesOnly == IF AtFolder THEN failures ELSE failures + 1
Counted == failures + 1

Interrupted == broken' = IF InFolder THEN broken \cup {Dir} ELSE broken

\* Not a Drive URL, no access, a broken connection, a bad archive, a full disk:
\* reported and counted, and the run goes on with what it had not come to yet.
Fail == /\ Needed \/ step \in {"write", "rename", "entry", "write entry"}
        /\ failures' = Counted
        /\ Interrupted
        /\ NextItem
        /\ UNCHANGED <<tree, runs, exit, created>>

\* return 1 if failures else 0; the number of failures, in a mutation.
Status_Count == failures
Status == IF failures > 0 THEN 1 ELSE 0

Exit == /\ step = "exit"
        /\ exit' = Status
        /\ step' = "off"
        /\ UNCHANGED <<tree, place, failures, runs, created, broken>>

\* Killed, or ended by an exception process_csv does not name.
Killed == /\ step # "off"
          /\ exit' = -1
          /\ Interrupted
          /\ Stay("off")
          /\ UNCHANGED <<tree, failures, runs, created>>

Next == \/ Begin \/ Skip \/ Fetch \/ WriteTemporary \/ Rename
        \/ MakeFolder \/ PassEntry \/ OpenEntry \/ WriteEntry \/ CloseFolder
        \/ Fail \/ Exit \/ Killed

Spec == Init /\ [][Next]_vars
------------------------------------------------------------------------------
(* Properties *)

TypeOK ==
  /\ files \in [Dirs -> [1..Slots -> Content \cup {Absent}]]
  /\ folders \in [Dirs -> FolderType \cup {Absent}]
  /\ \A d \in Dirs : folders[d] # Absent =>
       /\ folders[d].kept \cup folders[d].torn \subseteq 1..Len(EntriesOf[folders[d].link])
       /\ folders[d].kept \cap folders[d].torn = {}
  /\ csv \in Csvs \cup {<<>>} /\ row \in 1..(Len(csv) + 1) /\ item \in 1..(Slots + 1)
  /\ entry \in Nat \ {0}
  /\ step \in {"off", "open", "write", "rename", "entry", "write entry", "exit"}
  /\ failures \in Nat /\ runs \in 0..MaxRuns
  /\ exit \in -1..1
  /\ created \subseteq Dirs /\ broken \subseteq Dirs

\* A report or collection under its own name is whole, wherever the run that
\* wrote it failed or was killed: a later run skips what exists.
FilesAreWhole ==
  \A d \in Dirs, i \in 1..Slots : files[d][i] # Absent => files[d][i].whole

\* What a run has put in a directory no later row and no later run replaces or
\* removes: two rows of one team share a directory, and the CSV may have changed.
NothingIsReplaced ==
  [][\A d \in Dirs :
       /\ \A i \in 1..Slots : files[d][i] # Absent => files'[d][i] = files[d][i]
       /\ folders[d] # Absent => /\ folders'[d] # Absent
                                 /\ folders'[d].link = folders[d].link
                                 /\ folders[d].kept \subseteq folders'[d].kept]_vars

\* An earlier entry that is called differently has the name all the same: one of
\* them got the other's number, or .txt.
NameTaken(es, k) ==
  \E j \in 1..(k - 1) : /\ es[j].name # es[k].name /\ es[j].kind # "folder"
                        /\ FileName(es, j) \in {BaseName(es, k), FileName(es, k)}

\* Every entry of the folder is on disk; of those taken from its page, but for
\* subfolders and entries whose name was taken.
Complete(d) == LET es == EntriesOf[folders[d].link] IN
  \A k \in 1..Len(es) : \/ k \in folders[d].kept
                        \/ /\ folders[d].by = "page"
                           /\ es[k].kind = "folder" \/ NameTaken(es, k)

\* A folder that is there and that the run is not working on lacks an entry only if
\* a run failed or was killed in it: no clean run leaves it short.
ShortFoldersWereBroken ==
  \A d \in Dirs : folders[d] # Absent /\ ~(InFolder /\ Dir = d) => Complete(d) \/ d \in broken

\* After exit status 0 everything the CSV links is there, and the folders made by
\* this run are complete.  (Of a folder it found it says nothing: it may be short
\* since an earlier run, and is never completed.)
CleanExitIsComplete ==
  step = "off" /\ exit = 0 =>
    /\ \A r \in 1..Len(csv) :
         /\ \A i \in 1..Slots : csv[r].links[i] # NoLink => files[csv[r].dir][i] # Absent
         /\ csv[r].folder # NoLink => folders[csv[r].dir] # Absent
    /\ \A d \in created : Complete(d)
==============================================================================
