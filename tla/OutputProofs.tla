---------------------------- MODULE OutputProofs ----------------------------
(***************************************************************************)
(* Proofs about Output: what can be read of a run at any time while FDS      *)
(* writes it.                                                               *)
(***************************************************************************)
EXTENDS Output, FiniteSetTheorems, SequenceTheorems, TLAPS

-----------------------------------------------------------------------------
(* The invariant *)

\* FDS writes files that are there.
FilesAreOpen ==
  /\ fds.phase # "none" => fds.run > 0
  /\ fds.phase = "writing" => csv \in CsvFile /\ out \in OutFile

\* No file is of a run to come.
OutIsOfARun == out # NoFile => out.of <= fds.run

\* An outcome stands until the next start, and so does what it was read from.
DoneStands ==
  status = "done" => fds.phase = "none" /\ ~HasError /\ out # NoFile /\ out.marker

OutputInv == FilesAreOpen /\ OutIsOfARun /\ DoneStands

LEMMA OutputInitially == OutputInit => OutputTypeOK /\ OutputInv
BY OutputAssumption
DEF OutputInit, OutputTypeOK, OutputInv, FilesAreOpen, OutIsOfARun, DoneStands

LEMMA CsvFileIs ==
  ASSUME NEW w \in Nat, NEW b \in 0..Columns, NEW c \in BOOLEAN
  PROVE  [whole |-> w, begun |-> b, cut |-> c] \in CsvFile
BY DEF CsvFile

\* FDS goes on with its files: the outcome before it has been forgotten.
LEMMA FdsStep ==
  ASSUME OutputTypeOK, OutputInv, Starts \/ OpensFiles \/ WritesField \/ WritesMarker \/ Exits
  PROVE  OutputTypeOK' /\ OutputInv'
<1>1. CASE Starts
  <2>1. /\ fds' \in [phase : {"none", "started", "writing", "exited"}, run : 0..MaxRuns]
        /\ fds'.phase = "started" /\ fds'.run = fds.run + 1 /\ fds.run \in Nat
        /\ log' = <<>> /\ status' = NoStatus /\ UNCHANGED <<csv, out>>
    BY <1>1, OutputAssumption DEF Starts, OutputTypeOK
  <2>2. OutputTypeOK'
    BY <2>1 DEF OutputTypeOK
  <2>3. out # NoFile => out.of \in Nat /\ out.of <= fds.run
    BY DEF OutputTypeOK, OutputInv, OutIsOfARun, OutFile
  <2> QED
    BY <2>1, <2>2, <2>3, OutputAssumption
    DEF OutputInv, FilesAreOpen, OutIsOfARun, DoneStands
<1>2. CASE OpensFiles
  <2>1. /\ fds.phase = "started" /\ fds.run \in 1..MaxRuns
        /\ fds' \in [phase : {"none", "started", "writing", "exited"}, run : 0..MaxRuns]
        /\ fds'.phase = "writing" /\ fds'.run = fds.run
        /\ UNCHANGED <<log, status>>
    BY <1>2, OutputAssumption DEF OpensFiles, OutputTypeOK, OutputInv, FilesAreOpen
  <2>2. csv' \in CsvFile
    <3>1. csv' = [whole |-> 0, begun |-> 0, cut |-> FALSE]
      BY <1>2 DEF OpensFiles
    <3>2. 0 \in 0..Columns
      BY OutputAssumption
    <3> QED
      BY <3>1, <3>2, CsvFileIs
  <2>3. out' \in OutFile /\ out'.of = fds.run
    BY <1>2, <2>1 DEF OpensFiles, OutFile
  <2> QED
    BY <2>1, <2>2, <2>3
    DEF OutputTypeOK, OutputInv, FilesAreOpen, OutIsOfARun, DoneStands
<1>3. CASE WritesField
  <2>1. csv \in CsvFile /\ fds.phase = "writing" /\ UNCHANGED <<fds, out, log, status>>
    BY <1>3 DEF WritesField, OutputInv, FilesAreOpen
  <2>2. csv' \in CsvFile
    <3>1. CASE csv.cut
      <4>1. csv' = [csv EXCEPT !.cut = FALSE]
        BY <1>3, <3>1 DEF WritesField
      <4> QED
        BY <2>1, <4>1 DEF CsvFile
    <3>2. CASE ~csv.cut /\ csv.begun = Columns
      <4>1. csv' = [whole |-> csv.whole + 1, begun |-> 0, cut |-> FALSE]
        BY <1>3, <3>2 DEF WritesField
      <4>2. csv.whole + 1 \in Nat /\ 0 \in 0..Columns
        BY <2>1, OutputAssumption DEF CsvFile
      <4> QED
        BY <4>1, <4>2, CsvFileIs
    <3>3. CASE ~csv.cut /\ csv.begun # Columns
      <4>1. PICK c \in BOOLEAN : csv' = [csv EXCEPT !.begun = @ + 1, !.cut = c]
        BY <1>3, <3>3 DEF WritesField
      <4> QED
        <5>1. csv.begun + 1 \in 0..Columns
          BY <2>1, <3>3, OutputAssumption DEF CsvFile
        <5>2. ASSUME NEW b \in 0..Columns
              PROVE  [csv EXCEPT !.begun = b, !.cut = c] \in CsvFile
          BY <2>1 DEF CsvFile
        <5> QED
          BY <4>1, <5>1, <5>2
    <3> QED
      BY <3>1, <3>2, <3>3
  <2> QED
    BY <2>1, <2>2 DEF OutputTypeOK, OutputInv, FilesAreOpen, OutIsOfARun, DoneStands
<1>4. CASE WritesMarker
  <2>1. /\ out \in OutFile /\ fds.phase = "writing" /\ UNCHANGED <<fds, csv, log, status>>
        /\ out' = [out EXCEPT !.marker = TRUE]
    BY <1>4 DEF WritesMarker, OutputInv, FilesAreOpen
  <2>2. out' \in OutFile /\ out'.of = out.of
    BY <2>1 DEF OutFile
  <2>3. out.of <= fds.run
    BY <2>1, OutFileAssumption DEF OutputInv, OutIsOfARun
  <2> QED
    BY <2>1, <2>2, <2>3 DEF OutputTypeOK, OutputInv, FilesAreOpen, OutIsOfARun, DoneStands
<1>5. CASE Exits
  <2>1. /\ fds.phase \in {"started", "writing"} /\ UNCHANGED <<csv, out, log, status>>
        /\ fds' \in [phase : {"none", "started", "writing", "exited"}, run : 0..MaxRuns]
        /\ fds'.phase = "exited" /\ fds'.run = fds.run
    BY <1>5 DEF Exits, Running, OutputTypeOK
  <2> QED
    BY <2>1 DEF OutputTypeOK, OutputInv, FilesAreOpen, OutIsOfARun, DoneStands
<1> QED
  BY <1>1, <1>2, <1>3, <1>4, <1>5

\* What it prints is kept in part, while it runs and until its end is handled.
LEMMA PrintsStep ==
  ASSUME OutputTypeOK, OutputInv, NEW error \in BOOLEAN, Prints(error)
  PROVE  OutputTypeOK' /\ OutputInv'
<1>1. fds.phase # "none" /\ UNCHANGED <<fds, csv, out, status>>
  BY DEF Prints, Running
<1>2. log' \in Seq(BOOLEAN)
  <2> DEFINE l == Append(log, error)
  <2>1. l \in Seq(BOOLEAN) /\ l # <<>>
    BY DEF OutputTypeOK
  <2>2. Tail(l) \in Seq(BOOLEAN)
    BY <2>1, HeadTailProperties
  <2> QED
    BY <2>1, <2>2 DEF Prints
<1>3. status # "done"
  BY <1>1 DEF OutputInv, DoneStands
<1> QED
  BY <1>1, <1>2, <1>3 DEF OutputTypeOK, OutputInv, FilesAreOpen, OutIsOfARun, DoneStands

\* determine_run_status: "done" is what the file and the log say.
LEMMA RunEndsStep ==
  ASSUME OutputTypeOK, OutputInv, NEW stop_requested \in BOOLEAN, RunEnds(stop_requested)
  PROVE  OutputTypeOK' /\ OutputInv'
<1>1. /\ fds' \in [phase : {"none", "started", "writing", "exited"}, run : 0..MaxRuns]
      /\ fds'.phase = "none" /\ fds'.run = fds.run
      /\ UNCHANGED <<csv, out, log>>
  BY DEF RunEnds, OutputTypeOK
<1>2. /\ status' \in {"cancelled", "failed", "done"}
      /\ status' = "done" => out # NoFile /\ out.marker /\ ~HasError
  BY DEF RunEnds, determine_run_status
<1>3. HasError' <=> HasError
  BY <1>1 DEF HasError
<1> QED
  BY <1>1, <1>2, <1>3 DEF OutputTypeOK, OutputInv, FilesAreOpen, OutIsOfARun, DoneStands

\* The types of the state, and what its parts say of each other.
THEOREM OutputCorrect == OutputSpec => [](OutputTypeOK /\ OutputInv)
<1>1. (OutputTypeOK /\ OutputInv) /\ [OutputNext]_outputVars => (OutputTypeOK /\ OutputInv)'
  <2> SUFFICES ASSUME OutputTypeOK, OutputInv, [OutputNext]_outputVars
               PROVE  OutputTypeOK' /\ OutputInv'
    OBVIOUS
  <2>1. CASE UNCHANGED outputVars
    BY <2>1 DEF outputVars, OutputTypeOK, OutputInv, FilesAreOpen, OutIsOfARun, DoneStands,
                HasError
  <2> QED
    BY <2>1, FdsStep, PrintsStep, RunEndsStep DEF OutputNext
<1> QED
  BY <1>1, OutputInitially, PTL DEF OutputSpec

-----------------------------------------------------------------------------
(* The readings *)

\* The rows of a file: how many there are, and how far each goes.
LEMMA RowsAre ==
  ASSUME NEW file \in CsvFile, file # NoFile
  PROVE  /\ Len(Rows(file)) = file.whole + (IF file.begun > 0 THEN 1 ELSE 0)
         /\ Len(Rows(file)) \in Nat
         /\ \A r \in 1..Len(Rows(file)) :
              Rows(file)[r] = IF r <= file.whole THEN Columns ELSE file.begun
<1> DEFINE n == file.whole + (IF file.begun > 0 THEN 1 ELSE 0)
<1>1. n \in Nat
  BY DEF CsvFile
<1>2. Rows(file) = [r \in 1..n |-> IF r <= file.whole THEN Columns ELSE file.begun]
  BY DEF Rows
<1> HIDE DEF n
<1>3. Len(Rows(file)) = n
  BY <1>1, <1>2
<1> QED
  BY <1>1, <1>2, <1>3 DEF n

\* The greatest of an interval is its end.
LEMMA GreatestOfInterval ==
  ASSUME NEW a \in Int, NEW b \in Int, a <= b
  PROVE  Greatest(a..b) = b
BY DEF Greatest

\* The row that is read is the last one with all its fields begun: the newest,
\* or the one before it.
LEMMA LatestRowIs ==
  ASSUME NEW file \in CsvFile, file # NoFile
  PROVE  LET r == _read_latest_csv_row(file)
             n == IF file.begun = Columns THEN file.whole + 1 ELSE file.whole
         IN r = IF n >= 3 THEN n ELSE 0
<1> DEFINE n == IF file.begun = Columns THEN file.whole + 1 ELSE file.whole
           complete == {r \in 3..Len(Rows(file)) : Rows(file)[r] >= Columns}
<1>1. file.whole \in Nat /\ file.begun \in 0..Columns /\ Columns \in Nat /\ Columns >= 2
  BY OutputAssumption DEF CsvFile
<1>2. \A r \in Int : r \in complete <=> r \in 3..n
  BY <1>1, RowsAre
<1>3. complete = 3..n
  BY <1>1, <1>2, RowsAre
<1>4. _read_latest_csv_row(file) = IF complete = {} THEN 0 ELSE Greatest(complete)
  BY DEF _read_latest_csv_row
<1>5. n \in Int
  BY <1>1
<1> HIDE DEF complete, n
<1>6. CASE n >= 3
  <2>1. complete # {}
    BY <1>3, <1>5, <1>6
  <2>2. Greatest(complete) = n
    BY <1>3, <1>5, <1>6, GreatestOfInterval
  <2> QED
    BY <1>4, <1>6, <2>1, <2>2 DEF n
<1>7. CASE n < 3
  <2>1. complete = {}
    BY <1>3, <1>5, <1>7
  <2> QED
    BY <1>4, <1>5, <1>7, <2>1 DEF n
<1> QED
  BY <1>5, <1>6, <1>7

\* ReadingsAreWhole: whatever is half written when a file is polled, the heat
\* release that is reported is a whole number of the newest row or the one
\* before it (_read_latest_csv_row, parse_latest_hrr_kw, parse_devc_latest).
THEOREM ReadingsAreWholeHolds == OutputSpec => []ReadingsAreWhole
<1>1. ASSUME OutputTypeOK
      PROVE  ReadingsAreWhole
  <2> DEFINE row == _read_latest_csv_row(csv)
  <2>1. CASE csv = NoFile
    <3>1. Rows(csv) = <<>> /\ Len(Rows(csv)) = 0
      BY <2>1 DEF Rows
    <3>2. row = 0
      BY <3>1 DEF _read_latest_csv_row
    <3>3. parse_latest_hrr_kw(csv) = {} /\ DOMAIN parse_devc_latest(csv) = {}
      BY <3>2 DEF parse_latest_hrr_kw, parse_devc_latest
    <3> QED
      BY <3>3 DEF ReadingsAreWhole
  <2>2. CASE csv # NoFile
    <3>1. csv \in CsvFile /\ csv.whole \in Nat /\ csv.begun \in 0..Columns
      BY <1>1, <2>2 DEF OutputTypeOK, CsvFile
    <3>2. /\ row \in {0, csv.whole, csv.whole + 1}
          /\ row = csv.whole + 1 /\ row # 0 => csv.begun = Columns
          /\ row # 0 => row >= csv.whole
      BY <2>2, <3>1, LatestRowIs
    <3> HIDE DEF row
    <3>3. ASSUME row # 0, NEW c \in 2..Columns, c # Columns
          PROVE  Reading(csv, row, c).whole /\ Reading(csv, row, c).row = row
      <4>1. IsWhole(csv, row, c)
        BY <3>1, <3>2, <3>3 DEF IsWhole
      <4> QED
        BY <4>1 DEF Reading
    <3>4. ASSUME HrrColumn < Columns, NEW x \in parse_latest_hrr_kw(csv)
          PROVE  x.whole /\ x.row >= csv.whole
      <4>1. row # 0 /\ x = Reading(csv, row, HrrColumn)
        BY <3>4 DEF parse_latest_hrr_kw, row
      <4>2. HrrColumn \in 2..Columns /\ HrrColumn # Columns
        BY <3>4, OutputAssumption
      <4> QED
        BY <3>2, <3>3, <4>1, <4>2
    <3>5. ASSUME NEW c \in DOMAIN parse_devc_latest(csv), c # Columns
          PROVE  parse_devc_latest(csv)[c].whole
      <4>1. row # 0 /\ c \in 2..Columns /\ parse_devc_latest(csv)[c] = Reading(csv, row, c)
        BY <3>5 DEF parse_devc_latest, row
      <4> QED
        BY <3>3, <3>5, <4>1
    <3> QED
      BY <3>4, <3>5 DEF ReadingsAreWhole
  <2> QED
    BY <2>1, <2>2
<1> QED
  BY <1>1, OutputCorrect, PTL

-----------------------------------------------------------------------------
(* The series *)

LEMMA DivisionBounds ==
  ASSUME NEW a \in Nat, NEW b \in Nat \ {0}
  PROVE  /\ a \div b \in Nat
         /\ b * (a \div b) <= a
         /\ a < b * (a \div b) + b
OBVIOUS

LEMMA ProductGrows ==
  ASSUME NEW a \in Nat, NEW b \in Nat, NEW c \in Nat, a <= b
  PROVE  a * c <= b * c
OBVIOUS

\* The stride leaves at most MaxPoints samples, and no room behind them for
\* another.
LEMMA StrideFits ==
  ASSUME NEW n \in Nat, n > MaxPoints
  PROVE  LET stride == (n + MaxPoints - 1) \div MaxPoints
             k == (n + stride - 1) \div stride
         IN  /\ stride \in Nat \ {0} /\ k \in Nat \ {0} /\ k <= MaxPoints
             /\ (k - 1) * stride < n
<1> DEFINE M == MaxPoints
           stride == (n + M - 1) \div M
           k == (n + stride - 1) \div stride
<1>1. M \in Nat \ {0} /\ n + M - 1 \in Nat
  BY OutputAssumption
<1>2. stride \in Nat /\ M * stride <= n + M - 1 /\ n + M - 1 < M * stride + M
  BY <1>1, DivisionBounds
<1> HIDE DEF stride
<1>3. M * stride \in Nat /\ n <= M * stride
  BY <1>1, <1>2
<1>4. stride \in Nat \ {0}
  BY <1>1, <1>2, <1>3
<1>5. n + stride - 1 \in Nat
  BY <1>4
<1>6. k \in Nat /\ stride * k <= n + stride - 1 /\ n + stride - 1 < stride * k + stride
  BY <1>4, <1>5, DivisionBounds
<1> HIDE DEF k
<1>7. stride * k \in Nat /\ n <= stride * k
  BY <1>4, <1>6
<1>8. k \in Nat \ {0}
  <2>1. k = 0 => stride * k = 0
    BY <1>4
  <2> QED
    BY <1>1, <1>6, <1>7, <2>1
<1>9. (k - 1) * stride < n
  <2>1. (k - 1) * stride = stride * k - stride
    BY <1>4, <1>8
  <2> QED
    BY <1>4, <1>6, <1>7, <2>1
<1>10. k <= M
  <2>1. SUFFICES ASSUME M <= k - 1 PROVE FALSE
    BY <1>1, <1>8
  <2>2. M * stride <= (k - 1) * stride
    BY <1>1, <1>4, <1>8, <2>1, ProductGrows
  <2>3. (k - 1) * stride \in Nat
    BY <1>4, <1>8
  <2> QED
    BY <1>3, <1>9, <2>2, <2>3
<1> QED
  BY <1>4, <1>8, <1>9, <1>10 DEF k, stride

LEMMA FunctionIsSeq ==
  ASSUME NEW S, NEW k \in Nat, NEW f \in [1..k -> S]
  PROVE  f \in Seq(S) /\ Len(f) = k
<1>1. f \in Seq(S)
  BY SeqDef
<1>2. DOMAIN f = 1..Len(f) /\ Len(f) \in Nat /\ DOMAIN f = 1..k
  BY <1>1, LenProperties
<1> QED
  BY <1>1, <1>2

\* What is plotted is some of the samples, in order, the first and the last
\* among them, and at most one more than the limit.
LEMMA ThinnedKeepsTheEnds ==
  ASSUME NEW S, NEW samples \in Seq(S)
  PROVE  LET t == thinned(samples)
             n == Len(samples)
         IN  /\ t \in Seq(S) /\ Len(t) <= MaxPoints + 1
             /\ n > 0 => t # <<>> /\ t[1] = samples[1] /\ t[Len(t)] = samples[n]
             /\ \E at \in [1..Len(t) -> 1..n] :
                  /\ \A i \in 1..Len(t) : t[i] = samples[at[i]]
                  /\ \A i \in 1..Len(t) - 1 : at[i] < at[i + 1]
<1> DEFINE n == Len(samples)
           stride == (n + MaxPoints - 1) \div MaxPoints
           k == (n + stride - 1) \div stride
           s == Strided(samples)
           t == thinned(samples)
<1>1. n \in Nat /\ MaxPoints \in Nat \ {0}
  BY OutputAssumption
<1>2. CASE n <= MaxPoints
  <2>1. t = samples
    BY <1>2 DEF thinned
  <2> HIDE DEF t
  <2> DEFINE at == [i \in 1..n |-> i]
  <2>2. /\ at \in [1..Len(t) -> 1..n]
        /\ \A i \in 1..Len(t) : t[i] = samples[at[i]]
        /\ \A i \in 1..Len(t) - 1 : at[i] < at[i + 1]
    BY <1>1, <2>1
  <2>3. t \in Seq(S) /\ Len(t) <= MaxPoints + 1
    BY <1>1, <1>2, <2>1
  <2>4. n > 0 => t # <<>> /\ t[1] = samples[1] /\ t[Len(t)] = samples[n]
    BY <2>1
  <2> QED
    BY <2>2, <2>3, <2>4 DEF t
<1>3. CASE n > MaxPoints
  <2>1. /\ stride \in Nat \ {0} /\ k \in Nat \ {0} /\ k <= MaxPoints
        /\ (k - 1) * stride < n
    BY <1>1, <1>3, StrideFits
  <2>2. s = [i \in 1..k |-> samples[(i - 1) * stride + 1]]
    BY DEF Strided
  <2> HIDE DEF n, stride, k, s
  <2>3. ASSUME NEW i \in 1..k
        PROVE  /\ (i - 1) * stride + 1 \in 1..n
               /\ i < k => (i - 1) * stride + 1 < i * stride + 1
    <3>1. (i - 1) * stride <= (k - 1) * stride
      BY <2>1, ProductGrows
    <3>2. (i - 1) * stride \in Nat /\ i * stride = (i - 1) * stride + stride
      BY <2>1
    <3> QED
      BY <1>1, <2>1, <3>1, <3>2
  <2>4. \A i \in 1..n : samples[i] \in S
    BY DEF n
  <2>5. /\ s \in Seq(S) /\ Len(s) = k
        /\ \A i \in 1..k : s[i] = samples[(i - 1) * stride + 1]
    <3>1. s \in [1..k -> S]
      BY <2>2, <2>3, <2>4
    <3>2. s \in Seq(S) /\ Len(s) = k
      BY <2>1, <3>1, FunctionIsSeq
    <3> QED
      BY <2>2, <3>2
  <2>6. s # <<>> /\ s[1] = samples[1]
    <3>1. (1 - 1) * stride + 1 = 1
      BY <2>1
    <3> QED
      BY <2>1, <2>5, <3>1
  <2> DEFINE last == samples[n]
  <2>7. last \in S /\ n > 0
    BY <1>1, <1>3, <2>4
  <2>8. t = IF s[k] # last THEN Append(s, last) ELSE s
    BY <1>1, <1>3, <2>5 DEF thinned, n, s
  <2> HIDE DEF last, t
  <2>9. CASE s[k] = last
    <3> DEFINE at == [i \in 1..k |-> (i - 1) * stride + 1]
    <3>1. t = s /\ Len(t) = k
      BY <2>5, <2>8, <2>9
    <3>2. at \in [1..k -> 1..n] /\ \A i \in 1..k : t[i] = samples[at[i]]
      BY <2>3, <2>5, <3>1
    <3>3. \A i \in 1..k - 1 : at[i] < at[i + 1]
      BY <2>1, <2>3
    <3>4. t \in Seq(S) /\ k <= MaxPoints + 1 /\ t # <<>> /\ t[1] = samples[1] /\ t[k] = samples[n]
      BY <1>1, <2>1, <2>5, <2>6, <2>9, <3>1 DEF last
    <3> HIDE DEF at
    <3> QED
      BY <3>1, <3>2, <3>3, <3>4 DEF t, n
  <2>10. CASE s[k] # last
    <3> DEFINE at == [i \in 1..k + 1 |-> IF i <= k THEN (i - 1) * stride + 1 ELSE n]
    <3>1. /\ t = Append(s, last) /\ t \in Seq(S) /\ Len(t) = k + 1
          /\ \A i \in 1..k : t[i] = s[i]
          /\ t[k + 1] = last /\ t # <<>>
      <4>1. t = Append(s, last)
        BY <2>8, <2>10
      <4>2. s \in Seq(S) /\ last \in S /\ Len(s) = k /\ k \in Nat
        BY <2>1, <2>5, <2>7
      <4> HIDE DEF k, s
      <4>3. t \in Seq(S) /\ Len(t) = k + 1 /\ t[k + 1] = last
        BY <4>1, <4>2
      <4>4. \A i \in 1..k : t[i] = s[i]
        BY <4>1, <4>2
      <4>5. t # <<>>
        BY <4>2, <4>3
      <4> QED
        BY <4>1, <4>3, <4>4, <4>5
    <3>2. (k - 1) * stride + 1 # n
      BY <2>1, <2>5, <2>10 DEF last
    <3>3. /\ at \in [1..k + 1 -> 1..n]
          /\ \A i \in 1..k : at[i] = (i - 1) * stride + 1
          /\ at[k + 1] = n
      <4>1. n \in 1..n
        BY <1>1, <2>7
      <4>2. ASSUME NEW i \in 1..k + 1
            PROVE  (IF i <= k THEN (i - 1) * stride + 1 ELSE n) \in 1..n
        BY <2>1, <2>3, <4>1
      <4>3. at \in [1..k + 1 -> 1..n]
        BY <4>2
      <4>4. \A i \in 1..k : i \in 1..k + 1 /\ at[i] = (i - 1) * stride + 1
        BY <2>1
      <4>5. k + 1 \in 1..k + 1 /\ at[k + 1] = n
        BY <2>1
      <4> QED
        BY <4>3, <4>4, <4>5
    <3> HIDE DEF at
    <3>4. \A i \in 1..k + 1 : t[i] = samples[at[i]]
      <4>1. ASSUME NEW i \in 1..k PROVE t[i] = samples[at[i]]
        BY <2>5, <3>1, <3>3
      <4>2. t[k + 1] = samples[at[k + 1]]
        BY <3>1, <3>3 DEF last
      <4>3. \A i \in 1..k + 1 : i \in 1..k \/ i = k + 1
        BY <2>1
      <4> QED
        BY <4>1, <4>2, <4>3
    <3>5. ASSUME NEW i \in 1..k PROVE at[i] < at[i + 1]
      <4>1. CASE i < k
        <5>1. i + 1 \in 1..k /\ (i + 1) - 1 = i
          BY <2>1, <4>1
        <5> QED
          BY <2>3, <3>3, <4>1, <5>1
      <4>2. CASE i = k
        <5>1. at[k] \in 1..n /\ at[k] # n
          BY <2>1, <3>2, <3>3
        <5> QED
          BY <1>1, <3>3, <4>2, <5>1
      <4> QED
        BY <2>1, <4>1, <4>2
    <3>6. k + 1 <= MaxPoints + 1 /\ t[1] = samples[1] /\ t[k + 1] = samples[n]
      BY <1>1, <2>1, <2>6, <3>1 DEF last
    <3>7. /\ at \in [1..Len(t) -> 1..n]
          /\ \A i \in 1..Len(t) : t[i] = samples[at[i]]
          /\ \A i \in 1..Len(t) - 1 : at[i] < at[i + 1]
      <4>1. Len(t) = k + 1 /\ Len(t) - 1 = k
        BY <2>1, <3>1
      <4> QED
        BY <3>3, <3>4, <3>5, <4>1
    <3>8. Len(t) <= MaxPoints + 1 /\ t[Len(t)] = samples[n]
      BY <3>1, <3>6
    <3> QED
      BY <3>1, <3>6, <3>7, <3>8 DEF t, n
  <2> QED
    BY <2>9, <2>10
<1> QED
  BY <1>1, <1>2, <1>3

\* The rows that give the device in column c a number: from the first row of
\* data to the last one that reaches the column.
Reached(file, c, readable) ==
  IF file.begun > c \/ (file.begun = c /\ (~file.cut \/ readable))
  THEN file.whole + 1 ELSE file.whole

LEMMA RowsThatReach ==
  ASSUME NEW file \in CsvFile, file # NoFile, NEW c \in 2..Columns, NEW readable \in BOOLEAN
  PROVE  {r \in 3..Len(Rows(file)) : Rows(file)[r] >= c /\ (IsWhole(file, r, c) \/ readable)}
           = 3..Reached(file, c, readable)
<1> DEFINE rows == {r \in 3..Len(Rows(file)) :
                      Rows(file)[r] >= c /\ (IsWhole(file, r, c) \/ readable)}
           last == Reached(file, c, readable)
<1>1. file.whole \in Nat /\ file.begun \in 0..Columns /\ Columns \in Nat /\ c \in Nat
  BY OutputAssumption DEF CsvFile
<1>2. last \in {file.whole, file.whole + 1}
  BY DEF Reached
<1>3. ASSUME NEW r \in Int, r <= file.whole
      PROVE  r \in rows <=> r \in 3..last
  <2>1. 3 <= r => r \in 3..Len(Rows(file)) /\ Rows(file)[r] = Columns
    BY <1>1, <1>3, RowsAre
  <2>2. IsWhole(file, r, c)
    BY <1>1, <1>3 DEF IsWhole
  <2> QED
    BY <1>1, <1>2, <1>3, <2>1, <2>2
<1>4. ASSUME NEW r \in Int, r = file.whole + 1
      PROVE  r \in rows <=> r \in 3..last
  <2>1. 3 <= r => (r \in 3..Len(Rows(file)) <=> file.begun > 0)
    BY <1>1, <1>4, RowsAre
  <2>2. 3 <= r /\ file.begun > 0 => Rows(file)[r] = file.begun
    BY <1>1, <1>4, RowsAre
  <2>3. IsWhole(file, r, c) <=> ~(file.begun = c /\ file.cut)
    BY <1>1, <1>4 DEF IsWhole
  <2>4. r <= last <=>
          file.begun > c \/ (file.begun = c /\ (~file.cut \/ readable))
    BY <1>1, <1>4 DEF Reached
  <2> QED
    BY <1>1, <1>2, <1>4, <2>1, <2>2, <2>3, <2>4
<1>5. ASSUME NEW r \in Int, r > file.whole + 1
      PROVE  r \notin rows /\ r \notin 3..last
  BY <1>1, <1>2, <1>5, RowsAre
<1>6. \A r : r \in rows => r \in Int
  BY RowsAre
<1>7. \A r : r \in 3..last => r \in Int
  OBVIOUS
<1> HIDE DEF rows, last
<1>8. \A r \in Int : r \in rows <=> r \in 3..last
  BY <1>1, <1>3, <1>4, <1>5
<1>9. rows = 3..last
  BY <1>6, <1>7, <1>8
<1> QED
  BY <1>9 DEF rows, last

\* parse_devc_series, in terms of the rows it shows
LEMMA SeriesIs ==
  ASSUME NEW file \in CsvFile, file # NoFile, NEW c \in 2..Columns, NEW readable \in BOOLEAN
  PROVE  LET last == Reached(file, c, readable)
             n == IF last >= 3 THEN last - 2 ELSE 0
         IN  parse_devc_series(file, c, readable)
               = thinned([i \in 1..n |-> Reading(file, i + 2, c)])
<1> DEFINE last == Reached(file, c, readable)
           n == IF last >= 3 THEN last - 2 ELSE 0
           rows == {r \in 3..Len(Rows(file)) :
                      Rows(file)[r] >= c /\ (IsWhole(file, r, c) \/ readable)}
<1>1. last \in Nat
  BY DEF Reached, CsvFile
<1>2. rows = 3..last
  BY RowsThatReach
<1>3. parse_devc_series(file, c, readable)
        = thinned([i \in 1..Cardinality(rows) |-> Reading(file, i + 2, c)])
  BY DEF parse_devc_series
<1> HIDE DEF rows, last
<1>4. Cardinality(3..last) = n
  BY <1>1, FS_Interval
<1> QED
  BY <1>2, <1>3, <1>4 DEF last

\* SeriesReachesTheEnd: however long a run and wherever FDS is in a row, the
\* curve of a device has at most MaxPoints + 1 points, the first and the latest
\* row among them, in order and whole but for the latest (parse_devc_series).
THEOREM SeriesReachesTheEndHolds == OutputSpec => []SeriesReachesTheEnd
<1>1. ASSUME OutputTypeOK, csv # NoFile, NEW c \in 2..Columns, NEW readable \in BOOLEAN
      PROVE  LET s == parse_devc_series(csv, c, readable)
                 reached == Reached(csv, c, readable)
             IN  /\ Len(s) <= MaxPoints + 1
                 /\ reached >= 3 /\ s # <<>> => s[1].row = 3 /\ s[Len(s)].row = reached
                 /\ reached >= 3 => s # <<>>
                 /\ \A i \in 1..Len(s) - 1 : s[i].whole /\ s[i].row < s[i + 1].row
  <2> DEFINE s == parse_devc_series(csv, c, readable)
             last == Reached(csv, c, readable)
             n == IF last >= 3 THEN last - 2 ELSE 0
             samples == [i \in 1..n |-> Reading(csv, i + 2, c)]
             S == {Reading(csv, i + 2, c) : i \in 1..n}
  <2>1. csv \in CsvFile /\ csv.whole \in Nat
    BY <1>1 DEF OutputTypeOK, CsvFile
  <2>2. last \in Nat /\ last <= csv.whole + 1
    BY <2>1 DEF Reached
  <2> HIDE DEF last
  <2>3. n \in Nat /\ (n > 0 => last = n + 2) /\ (last >= 3 => n > 0)
    BY <2>2
  <2>4. s = thinned(samples)
    BY <1>1, <2>1, SeriesIs DEF last
  <2> HIDE DEF n, s
  <2>5. samples \in Seq(S) /\ Len(samples) = n
    <3>1. samples \in [1..n -> S]
      OBVIOUS
    <3> HIDE DEF samples, S
    <3> QED
      BY <2>3, <3>1, FunctionIsSeq
  <2>6. \A i \in 1..n : /\ samples[i].row = i + 2
                        /\ i < n => samples[i].whole
    <3> SUFFICES ASSUME NEW i \in 1..n
                 PROVE  samples[i].row = i + 2 /\ (i < n => samples[i].whole)
      OBVIOUS
    <3>1. samples[i] = [row |-> i + 2, whole |-> IsWhole(csv, i + 2, c)]
      BY DEF Reading
    <3>2. i < n => IsWhole(csv, i + 2, c)
      BY <2>1, <2>2, <2>3 DEF IsWhole
    <3> QED
      BY <3>1, <3>2
  <2> HIDE DEF samples, S
  <2>7. /\ s \in Seq(S) /\ Len(s) <= MaxPoints + 1
        /\ n > 0 => s # <<>> /\ s[1] = samples[1] /\ s[Len(s)] = samples[n]
        /\ \E at \in [1..Len(s) -> 1..n] :
             /\ \A i \in 1..Len(s) : s[i] = samples[at[i]]
             /\ \A i \in 1..Len(s) - 1 : at[i] < at[i + 1]
    BY <2>4, <2>5, ThinnedKeepsTheEnds
  <2>8. last >= 3 => s # <<>> /\ s[1].row = 3 /\ s[Len(s)].row = last
    BY <2>3, <2>6, <2>7
  <2>9. ASSUME NEW i \in 1..Len(s) - 1
        PROVE  s[i].whole /\ s[i].row < s[i + 1].row
    <3>1. PICK at \in [1..Len(s) -> 1..n] :
            /\ \A j \in 1..Len(s) : s[j] = samples[at[j]]
            /\ \A j \in 1..Len(s) - 1 : at[j] < at[j + 1]
      BY <2>7
    <3>2. i \in 1..Len(s) /\ i + 1 \in 1..Len(s)
      BY <2>7, <2>9
    <3>3. at[i] \in 1..n /\ at[i + 1] \in 1..n /\ at[i] < at[i + 1]
      BY <3>1, <3>2
    <3>4. s[i] = samples[at[i]] /\ s[i + 1] = samples[at[i + 1]]
      BY <3>1, <3>2
    <3>5. at[i] < n
      BY <2>3, <3>3
    <3>6. samples[at[i]].whole /\ samples[at[i]].row = at[i] + 2
      BY <2>6, <3>3, <3>5
    <3>7. samples[at[i + 1]].row = at[i + 1] + 2
      BY <2>6, <3>3
    <3>8. at[i] + 2 < at[i + 1] + 2
      BY <2>3, <3>3
    <3> QED
      BY <3>4, <3>6, <3>7, <3>8
  <2> QED
    BY <2>7, <2>8, <2>9 DEF s, last
<1>2. OutputTypeOK => SeriesReachesTheEnd
  BY <1>1 DEF SeriesReachesTheEnd, Reached
<1> QED
  BY <1>2, OutputCorrect, PTL
=============================================================================
