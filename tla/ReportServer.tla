----------------------------- MODULE ReportServer -----------------------------
(***************************************************************************)
(* generate_report/server.js serves a CSV export from memory and reads it   *)
(* again when its modification time changes, while get_log.sh may be        *)
(* writing it: the shell empties the file, psql fills it in blocks, and     *)
(* the server's statSync and readFileSync are two looks at it.              *)
(***************************************************************************)
EXTENDS Integers, SequencesExt

CONSTANTS Ids,       \* of students and of teams
          Exports,   \* what psql may write: sequences of rows
          Absent,    \* there is no file
          MaxClock   \* bound: the last tick of the file system's clock

NoTime == [wall |-> -1, zone |-> 0]   \* started_at cut off, or not there

Rows == [student : Ids, team : Ids, at : [wall : Int, zone : Int]]

ASSUME ExportAssumption == /\ MaxClock \in Nat \ {0} /\ Absent \notin Seq(Rows)
                           /\ \A e \in Exports : /\ e \in Seq(Rows)
                                                 /\ \A i \in DOMAIN e : e[i].at # NoTime

VARIABLES clock,    \* ticks of the clock modification times are taken from
          file,     \* the rows in the file, or Absent
          mtime,    \* its modification time
          unsaved,  \* the rows psql has still to write
          cache,    \* mtimeMs and data, and (history) when the data was read
          statted,  \* the time statSync has returned, or 0
          served    \* the data of the last answer, or Absent

fileVars == <<clock, file, mtime, unsaved>>
serverVars == <<cache, statted, served>>
serverState == <<fileVars, serverVars>>

ServerInit == /\ clock = 1 /\ file = Absent /\ mtime = 0 /\ unsaved = <<>>
              /\ cache = [mtime |-> 0, data |-> <<>>, readAt |-> 0]
              /\ statted = 0 /\ served = Absent
------------------------------------------------------------------------------
(* get_log.sh *)

Torn(rows) == rows # <<>> /\ Last(rows).at = NoTime
Save(rows) == file' = rows /\ mtime' = clock /\ UNCHANGED <<clock, serverVars>>

Export == /\ unsaved = <<>>
          /\ \E e \in Exports : unsaved' = e
          /\ Save(<<>>)

\* A block ends between two rows, or within one.
WriteBlock == /\ unsaved # <<>>
              /\ LET whole == IF Torn(file) THEN Front(file) ELSE file IN
                 \/ Save(Append(whole, Head(unsaved))) /\ unsaved' = Tail(unsaved)
                 \/ /\ ~Torn(file)
                    /\ Save(Append(whole, [Head(unsaved) EXCEPT !.at = NoTime]))
                    /\ UNCHANGED unsaved

Tick == clock < MaxClock /\ clock' = clock + 1 /\ UNCHANGED <<file, mtime, unsaved, serverVars>>
------------------------------------------------------------------------------
(* GET /api/activity *)

\* mtimeMs; in whole seconds in a mutation.
Stamp_Seconds(t) == (t + 1) \div 2
Stamp(t) == t
TakenForCurrent == file # Absent /\ Stamp(mtime) = Stamp(cache.mtime)

Serve(rows) == served' = rows /\ statted' = 0

\* statSync throws without a file: 500.
Stat == /\ statted = 0
        /\ CASE file = Absent   -> Serve(Absent) /\ UNCHANGED cache
             [] TakenForCurrent -> Serve(cache.data) /\ UNCHANGED cache
             [] OTHER           -> statted' = mtime /\ UNCHANGED <<cache, served>>
        /\ UNCHANGED fileVars

Read == /\ statted # 0
        /\ cache' = [mtime |-> statted, data |-> file, readAt |-> clock]
        /\ Serve(file)
        /\ UNCHANGED fileVars

ServerNext == Export \/ WriteBlock \/ Tick \/ Stat \/ Read
------------------------------------------------------------------------------
(* Properties *)

ServerTypeOK == /\ file \in Seq(Rows) \cup {Absent} /\ served \in Seq(Rows) \cup {Absent}
                /\ clock \in 1..MaxClock /\ mtime \in 0..clock
                /\ cache.mtime \in 0..mtime /\ cache.readAt \in cache.mtime..clock
                /\ statted \in 0..mtime
                /\ file = Absent => served = Absent /\ mtime = 0

\* A copy that the server takes for current is the file as it is: it can be
\* stale, or end within a row, only if it was read in the very tick of the time
\* it is marked with.
CacheIsFile == TakenForCurrent /\ cache.readAt > cache.mtime => cache.data = file
==============================================================================
