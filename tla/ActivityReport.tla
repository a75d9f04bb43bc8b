---------------------------- MODULE ActivityReport ----------------------------
(***************************************************************************)
(* ActivityReport (generate_report/Report.jsx): the form with its search    *)
(* field, and the report made from the rows the host page has loaded from   *)
(* the server.  Times are hours; days and hours are those of Dhaka.         *)
(***************************************************************************)
EXTENDS ReportServer, FiniteSetsExt

CONSTANTS Days,     \* the dates the instructor may choose
          Guard,    \* the most days buildBuckets goes through: 4000
          None      \* null

Types == {"student", "team"}
Forms == [type : Types, id : Ids \cup {None}, start : Days \cup {None}, end : Days \cup {None}]
Bars == [day : Nat, hour : 0..23]
Reports == [of : Forms, noData : {TRUE}]
           \cup [of : Forms, noData : {FALSE}, total : Nat, counts : Seq(Nat), activeHours : Nat,
                 peak : Bars \cup {None}, peakCount : Nat]

ASSUME ReportAssumption == /\ Days \subseteq Nat /\ Guard \in Nat \ {0}
                           /\ None \notin Ids /\ None \notin Days /\ None \notin Seq(Rows)
                           /\ None \notin Bars /\ None \notin Reports

VARIABLES activities,  \* the rows the page was given, or None
          form,        \* reportType, selectedId, startDate and endDate
          text,        \* of the search field
          error,       \* the message above the report
          report,      \* the report shown, or None
          pressed      \* history: how the last press of the button ended, or
                       \* "edited" if the form has changed since

formVars == <<activities, form, text, error, report, pressed>>
reportVars == <<serverState, formVars>>

ReportInit == /\ ServerInit
              /\ activities = None
              /\ form = [type |-> "student", id |-> None, start |-> None, end |-> None]
              /\ text = ""
              /\ error = "" /\ report = None /\ pressed = "edited"
------------------------------------------------------------------------------
(* The report *)

\* normalizeStartedAt and toDhakaParts: the zone is taken off, Dhaka is six
\* hours ahead of UTC.
DhakaHour(row) == row.at.wall - row.at.zone + 6
DayOf(row) == DhakaHour(row) \div 24
HourOf(row) == DhakaHour(row) % 24

IdOf(row, type) == IF type = "student" THEN row.student ELSE row.team

\* The rows of the chosen id, and those on the chosen days, by their places.
HisRows(f) == {i \in DOMAIN activities : IdOf(activities[i], f.type) = f.id}
Filtered(f) == {i \in HisRows(f) : f.start <= DayOf(activities[i]) /\ DayOf(activities[i]) <= f.end}

\* One bucket for each hour of each day, in order, until the guard runs out.
Buckets(f) == LET days == Min({f.end - f.start + 1, Guard}) IN
              [i \in 1..24 * days |-> [day |-> f.start + (i - 1) \div 24, hour |-> (i - 1) % 24]]

CountIn(rows, bucket) == Cardinality({i \in rows : /\ DayOf(activities[i]) = bucket.day
                                                    /\ HourOf(activities[i]) = bucket.hour})

\* The first of the fullest buckets; the last one in a mutation.
Peak_Last(buckets, counts) == Max({i \in DOMAIN buckets : \A j \in DOMAIN buckets : counts[j] <= counts[i]})
Peak(buckets, counts) == Min({i \in DOMAIN buckets : \A j \in DOMAIN buckets : counts[j] <= counts[i]})

Made(f) == LET rows == Filtered(f)
               buckets == Buckets(f)
               counts == [i \in DOMAIN buckets |-> CountIn(rows, buckets[i])]
               peak == Peak(buckets, counts) IN
           [of |-> f, noData |-> FALSE, total |-> Cardinality(rows), counts |-> counts,
            activeHours |-> Cardinality({i \in DOMAIN buckets : counts[i] > 0}),
            peak |-> IF counts[peak] = 0 THEN None ELSE buckets[peak], peakCount |-> counts[peak]]
NoData(f) == [of |-> f, noData |-> TRUE]

Loaded == activities # None

Undated == None \in {form.start, form.end}

\* The first check that fails; the order of the dates is none in a mutation.
Complaint_AnyOrder == IF form.id = None THEN "no id" ELSE IF Undated THEN "no dates" ELSE ""
Complaint == CASE form.id = None               -> "no id"
               [] form.id # None /\ Undated   -> "no dates"
               [] form.id # None /\ ~Undated  -> IF form.start > form.end THEN "end before start" ELSE ""

\* A period without rows: the report says so; nothing happens in a mutation.
WithoutRows_Kept == report
WithoutRows == NoData(form)

\* A row of his without a time throws: what was set before stays set.
GenerateReport ==
  /\ Loaded
  /\ error' = Complaint
  /\ CASE Complaint # "" -> UNCHANGED report /\ pressed' = "refused"
       [] Complaint = "" /\ \E i \in HisRows(form) : activities[i].at = NoTime ->
            UNCHANGED report /\ pressed' = "thrown"
       [] OTHER -> /\ report' = IF Filtered(form) = {} THEN WithoutRows ELSE Made(form)
                   /\ pressed' = "made"
  /\ UNCHANGED <<serverState, activities, form, text>>
------------------------------------------------------------------------------
(* The form *)

Edit(f) == form' = f /\ pressed' = "edited" /\ UNCHANGED <<serverState, activities, error, report>>

Options(type) == {IdOf(activities[i], type) : i \in DOMAIN activities}

\* handleTypeChange: a new search field, and no id; the old id in a mutation.
IdAfterTypeChange_Kept == form.id
IdAfterTypeChange == None

ChangeType == /\ Loaded
              /\ \E type \in Types \ {form.type} :
                   Edit([form EXCEPT !.type = type, !.id = IdAfterTypeChange])
              /\ text' = IF IdAfterTypeChange = None THEN "" ELSE IdAfterTypeChange

ChooseDates == /\ Loaded
               /\ \E day \in Days : Edit([form EXCEPT !.start = day]) \/ Edit([form EXCEPT !.end = day])
               /\ UNCHANGED text

\* Typing takes the chosen id back.
Type == /\ Loaded
        /\ text' = "typed" /\ Edit([form EXCEPT !.id = None])

\* The menu offers the ids that match the text.
Pick == /\ Loaded
        /\ \E id \in Options(form.type) :
             /\ text \in {"", "typed", id}
             /\ text' = id /\ Edit([form EXCEPT !.id = id])

\* The host page asks the server and hands over its answer; once.
Load == /\ ~Loaded /\ served # Absent
        /\ activities' = served
        /\ UNCHANGED <<serverState, form, text, error, report, pressed>>

UseForm == ChangeType \/ ChooseDates \/ Type \/ Pick \/ GenerateReport

\* The file no longer matters to a page that is loaded.
ReportNext == (~Loaded /\ ServerNext /\ UNCHANGED formVars) \/ Load \/ UseForm

ReportSpec == ReportInit /\ [][ReportNext]_reportVars
------------------------------------------------------------------------------
(* Properties *)

ReportTypeOK == /\ ServerTypeOK
                /\ activities \in Seq(Rows) \cup {None}
                /\ form \in Forms
                /\ pressed \in {"edited", "refused", "thrown", "made"}
                /\ report \in Reports \cup {None}
                /\ report # None => report.of.id # None /\ report.of.start <= report.of.end

\* What the page is made of, the server's copy of the export included.
PageFits == ReportTypeOK /\ CacheIsFile

\* A chosen id is what the search field shows, and one of the chosen type.  The
\* report is that of the form the button was last pressed for, unless the press
\* was refused with a message, or a row without a time broke it off.
ReportIsTheForms == /\ form.id # None => form.id = text /\ form.id \in Options(form.type)
                    /\ pressed = "made" => report # None /\ report.of = form /\ error = ""
                    /\ pressed = "refused" => error # ""

\* The rows of a period, by hours since the epoch of Dhaka.
RowsIn(f, first, last) == {i \in DOMAIN activities : /\ IdOf(activities[i], f.type) = f.id
                                                     /\ DhakaHour(activities[i]) \in first..last}
Together(rows, h) == Cardinality({i \in rows : DhakaHour(activities[i]) = h})

\* The summary and the chart agree with the rows: all rows of the period are in
\* the total, each is in the bar of its hour, the peak is the earliest of the
\* fullest hours; but the chart ends when the guard does.
ReportAdds ==
  report # None =>
    LET f == report.of
        rows == RowsIn(f, 24 * f.start, 24 * f.end + 23)
        charted == RowsIn(f, 24 * f.start, 24 * Min({f.end + 1, f.start + Guard}) - 1)
        hours == {DhakaHour(activities[i]) : i \in charted}
    IN IF report.noData THEN rows = {}
       ELSE /\ report.total = Cardinality(rows) /\ rows # {}
            /\ FoldSeq(+, 0, report.counts) = Cardinality(charted)
            /\ report.activeHours = Cardinality(hours)
            /\ report.peak = None <=> charted = {}
            /\ charted # {} =>
                 LET h == 24 * report.peak.day + report.peak.hour IN
                 /\ h \in hours /\ report.peakCount = Together(charted, h)
                 /\ \A g \in hours : IF g < h THEN Together(charted, g) < report.peakCount
                                                ELSE Together(charted, g) <= report.peakCount
==============================================================================
