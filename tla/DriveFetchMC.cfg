SPECIFICATION Spec
CONSTANTS
  d1 = d1
  d2 = d2
  l1 = l1
  l2 = l2
  l3 = l3
  f1 = f1
  f2 = f2
  a = a
  aTxt = aTxt
  aNo2 = aNo2
  aNo2Txt = aNo2Txt
  b = b
  bTxt = bTxt
  other = other
  Dirs = {d1, d2}
  FileLinks = {l1, l2, l3}
  FolderLinks = {f1, f2}
  NoLink = NoLink
  Slots = 2
  Csvs <- MCCsvs
  EntriesOf <- MCEntriesOf
  Names = {a, aTxt, aNo2, aNo2Txt, b, bTxt, other}
  Numbered <- MCNumbered
  WithTxt <- MCWithTxt
  Absent = Absent
  MaxRuns = 2
INVARIANTS TypeOK FilesAreWhole ShortFoldersWereBroken CleanExitIsComplete
PROPERTIES NothingIsReplaced
CHECK_DEADLOCK FALSE
