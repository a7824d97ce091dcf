------------------------------- MODULE Output -------------------------------
(***************************************************************************)
(* What is read of a run while FDS writes it: core/out_parser.py, and the    *)
(* outcome of the run, determine_run_status of core/job_runner.py with the   *)
(* lines that _run_and_await keeps of the console.                          *)
(*                                                                          *)
(* FDS writes its files piece by piece, and they are read at any time and    *)
(* from the start.  It opens them some time after it has started, over those *)
(* of an earlier run of the case.                                           *)
(***************************************************************************)
EXTENDS Integers, Sequences, FiniteSets

CONSTANTS
  Columns,         \* of the two CSV files, the time being the first
  HrrColumn,       \* where CHID_hrr.csv has the HRR
  MaxRows,         \* bound on data rows
  MaxRuns,         \* bound on runs of the case
  MaxPoints,       \* MAX_SERIES_POINTS
  LOG_TAIL_LINES,
  NoFile, NoStatus

ASSUME OutputAssumption ==
  /\ Columns \in Nat /\ HrrColumn \in 2..Columns
  /\ MaxRows \in Nat /\ MaxRuns \in Nat
  /\ MaxPoints \in Nat \ {0} /\ LOG_TAIL_LINES \in Nat \ {0}
  /\ NoStatus \notin {"cancelled", "failed", "done"}

VARIABLES
  fds,     \* the run: its number and how far it is
  csv,     \* a CSV file: whole rows, fields begun in the row after them
  out,     \* CHID.out: the run that wrote it, whole steps, completion marker
  log,     \* recent_lines: which of them contain "error"
  status   \* the outcome recorded last

outputVars == <<fds, csv, out, log, status>>

Running == fds.phase \in {"started", "writing"}

CsvFile == [whole : Nat, begun : 0..Columns, cut : BOOLEAN]
OutFile == [of : 1..MaxRuns, marker : BOOLEAN]

ASSUME OutFileAssumption == NoFile \notin CsvFile \union OutFile

OutputTypeOK ==
  /\ fds \in [phase : {"none", "started", "writing", "exited"}, run : 0..MaxRuns]
  /\ csv \in CsvFile \union {NoFile}
  /\ out \in OutFile \union {NoFile}
  /\ log \in Seq(BOOLEAN)
  /\ status \in {"cancelled", "failed", "done", NoStatus}

OutputInit ==
  /\ fds = [phase |-> "none", run |-> 0]
  /\ csv = NoFile /\ out = NoFile
  /\ log = <<>>
  /\ status = NoStatus

-----------------------------------------------------------------------------
(* FDS *)

Starts ==
  /\ ~Running /\ fds.phase # "exited"
  /\ fds.run < MaxRuns
  /\ fds' = [phase |-> "started", run |-> fds.run + 1]
  /\ log' = <<>>
  /\ status' = NoStatus
  /\ UNCHANGED <<csv, out>>

OpensFiles ==
  /\ fds.phase = "started"
  /\ fds' = [fds EXCEPT !.phase = "writing"]
  /\ csv' = [whole |-> 0, begun |-> 0, cut |-> FALSE]
  /\ out' = [of |-> fds.run, marker |-> FALSE]
  /\ UNCHANGED <<log, status>>

\* The units, the names, then rows of data, field by field; a flush can cut a
\* field in two.
WritesField ==
  /\ fds.phase = "writing"
  /\ csv' \in
       IF csv.cut THEN {[csv EXCEPT !.cut = FALSE]}
       ELSE IF csv.begun = Columns
       THEN {[whole |-> csv.whole + 1, begun |-> 0, cut |-> FALSE]}
       ELSE {[csv EXCEPT !.begun = @ + 1, !.cut = c] : c \in BOOLEAN}
  /\ csv'.whole < MaxRows + 2 \/ csv'.begun = 0
  /\ UNCHANGED <<fds, out, log, status>>

\* "STOP: FDS completed successfully"
WritesMarker ==
  /\ fds.phase = "writing"
  /\ out' = [out EXCEPT !.marker = TRUE]
  /\ UNCHANGED <<fds, csv, log, status>>

\* on_line
Prints(error) ==
  /\ Running \/ fds.phase = "exited"
  /\ log' = LET l == Append(log, error) IN
            IF Len(l) > LOG_TAIL_LINES THEN Tail(l) ELSE l
  /\ UNCHANGED <<fds, csv, out, status>>

\* By itself, or by a signal at any time
Exits ==
  /\ Running
  /\ fds' = [fds EXCEPT !.phase = "exited"]
  /\ UNCHANGED <<csv, out, log, status>>

-----------------------------------------------------------------------------
(* job_runner.py *)

HasError == \E i \in DOMAIN log : log[i]

\* CHID.out is read as it is, of this run or of an earlier one: a run that was
\* killed before it opened its own is "done" if the last one was.
determine_run_status(stop_requested) ==
  IF stop_requested THEN "cancelled"
  ELSE IF out # NoFile /\ out.marker /\ ~HasError THEN "done" ELSE "failed"

RunEnds(stop_requested) ==
  /\ fds.phase = "exited"
  /\ status' = determine_run_status(stop_requested)
  /\ fds' = [fds EXCEPT !.phase = "none"]
  /\ UNCHANGED <<csv, out, log>>

OutputNext ==
  \/ Starts \/ OpensFiles \/ WritesField \/ WritesMarker \/ Exits
  \/ \E error \in BOOLEAN : Prints(error)
  \/ \E stop_requested \in BOOLEAN : RunEnds(stop_requested)

OutputSpec == OutputInit /\ [][OutputNext]_outputVars

-----------------------------------------------------------------------------
(* out_parser.py *)

\* How many fields each row has for csv.reader; the first two are the header.
Rows(file) ==
  IF file = NoFile THEN <<>>
  ELSE [r \in 1..file.whole + (IF file.begun > 0 THEN 1 ELSE 0) |->
          IF r <= file.whole THEN Columns ELSE file.begun]

\* Whether field c of row r is written to its end
IsWhole(file, r, c) == ~(r = file.whole + 1 /\ c = file.begun /\ file.cut)

Greatest(S) == CHOOSE x \in S : \A y \in S : y <= x

\* The row that is read, or 0.  Mutant: the last one, complete or not.
_read_latest_csv_row_last(file) == IF Len(Rows(file)) < 3 THEN 0 ELSE Len(Rows(file))
_read_latest_csv_row(file) ==
  LET complete == {r \in 3..Len(Rows(file)) : Rows(file)[r] >= Columns} IN
  IF complete = {} THEN 0 ELSE Greatest(complete)

\* A reading is a row and whether the field was whole.
Reading(file, r, c) == [row |-> r, whole |-> IsWhole(file, r, c)]

parse_latest_hrr_kw(file) ==
  LET r == _read_latest_csv_row(file) IN
  IF r = 0 THEN {} ELSE {Reading(file, r, HrrColumn)}

parse_devc_latest(file) ==
  LET r == _read_latest_csv_row(file) IN
  [c \in IF r = 0 THEN {} ELSE 2..Columns |-> Reading(file, r, c)]

\* At most so many points, and the last.  Mutant: the last is not added.
Strided(samples) ==
  LET n == Len(samples)
      stride == (n + MaxPoints - 1) \div MaxPoints
  IN [i \in 1..(n + stride - 1) \div stride |-> samples[(i - 1) * stride + 1]]
thinned_strided(samples) == IF Len(samples) > MaxPoints THEN Strided(samples) ELSE samples
thinned(samples) ==
  IF Len(samples) <= MaxPoints THEN samples
  ELSE LET s == Strided(samples)
           last == samples[Len(samples)]
       IN IF s[Len(s)] # last THEN Append(s, last) ELSE s

\* Rows that do not reach the column are skipped; a field that was cut in two
\* may or may not read as a number (readable).
parse_devc_series(file, c, readable) ==
  LET rows == {r \in 3..Len(Rows(file)) :
                 Rows(file)[r] >= c /\ (IsWhole(file, r, c) \/ readable)}
      n == Cardinality(rows)
  IN thinned([i \in 1..n |-> Reading(file, i + 2, c)])

-----------------------------------------------------------------------------
(* Properties *)

\* What a poll reports while FDS is in the middle of a row: the heat release is
\* never half a number, nor is a device unless it stands in the last column,
\* and they are of the newest row that reaches it.
ReadingsAreWhole ==
  /\ HrrColumn < Columns =>
       \A x \in parse_latest_hrr_kw(csv) :
         x.whole /\ x.row >= csv.whole
  /\ \A c \in DOMAIN parse_devc_latest(csv) :
       parse_devc_latest(csv)[c].whole \/ c = Columns

\* The plotted history of a device begins with the first row and ends with the
\* last that has it, in order, whole but for that last one, in at most one
\* point more than the limit (parse_devc_series: "the last sample is always
\* kept so the curve ends at the most recent reading").
SeriesReachesTheEnd ==
  \A c \in 2..Columns, readable \in BOOLEAN :
    csv # NoFile =>
      LET s == parse_devc_series(csv, c, readable)
          reached == IF csv.begun > c \/ (csv.begun = c /\ (~csv.cut \/ readable))
                     THEN csv.whole + 1 ELSE csv.whole
      IN  /\ Len(s) <= MaxPoints + 1
          /\ reached >= 3 /\ s # <<>> => s[1].row = 3 /\ s[Len(s)].row = reached
          /\ reached >= 3 => s # <<>>
          /\ \A i \in 1..Len(s) - 1 : s[i].whole /\ s[i].row < s[i + 1].row
=============================================================================
