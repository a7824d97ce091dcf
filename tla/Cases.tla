------------------------------- MODULE Cases -------------------------------
(***************************************************************************)
(* What is read from a .fds file before it runs, and what is made of it:     *)
(* core/fds_parser.py, the checks of core/case_check.py that are about       *)
(* meshes, reactions and surfaces, core/estimator.py, and their use by the   *)
(* preview (inspect_fds_file) and by enqueue.                               *)
(*                                                                          *)
(* A text is a sequence of tokens <<kind, value>>: a word of letters after   *)
(* an ampersand, a quotation mark, a slash, a line break, an assignment that *)
(* somebody asks for.  An assignment contains its own, closed quotation.     *)
(***************************************************************************)
EXTENDS Integers, Sequences, FiniteSets

CONSTANTS
  Lines,                \* lines that are written, as sequences of tokens
  MaxLines, MaxHistory, \* bounds
  Durations,            \* seconds runs may take
  MaxProcesses,         \* bound on what users ask for
  default_mpi_processes,
  NoJob

Newline == <<"newline", "">>
Tokens == {Newline} \union UNION {{line[i] : i \in DOMAIN line} : line \in Lines}

\* "none" stands for no name below; the dimensions of a mesh are digits.
ASSUME CasesAssumption ==
  /\ Lines \subseteq Seq(Tokens)
  /\ \A token \in Tokens :
       /\ token[1] = "name" => token[2] # "none"
       /\ token[1] = "ijk" => token[2] \in Nat
  /\ MaxLines \in Nat /\ MaxHistory \in Nat
  /\ Durations \subseteq Nat
  /\ MaxProcesses \in Nat
  /\ default_mpi_processes \in Nat \ {0}

VARIABLES
  text,     \* of the .fds file
  lines,    \* how many lines it has
  job,      \* the job that was made of it, or NoJob
  history   \* get_completed_jobs

caseVars == <<text, lines, job, history>>

IsName(token) == token[1] = "name"
Quotes == {<<"quote", "single">>, <<"quote", "double">>}
Slash == <<"slash", "">>

Least(S) == CHOOSE x \in S : \A y \in S : x <= y

-----------------------------------------------------------------------------
(* fds_parser.py *)

\* _NAMELIST_START_RE
IsStart(t, p) == IsName(t[p]) /\ (p = 1 \/ t[p - 1] = Newline)

\* The quotation that is open after each token behind the head at p.
QuoteFrom(t, p) ==
  LET quote[c \in p..Len(t)] ==
        IF c = p THEN Slash   \* Slash: none
        ELSE LET open == quote[c - 1] IN
             IF open = Slash THEN IF t[c] \in Quotes THEN t[c] ELSE Slash
             ELSE IF t[c] = open THEN Slash ELSE open
  IN quote

\* Mutant: quotations are not looked at.
EndOf_any_slash(t, p) ==
  Least({c \in p + 1..Len(t) : t[c] = Slash} \union {Len(t) + 1})

\* The slash that ends the namelist, or the end of the file
EndOf(t, p) ==
  LET quote == QuoteFrom(t, p) IN
  Least({c \in p + 1..Len(t) : t[c] = Slash /\ quote[c - 1] = Slash} \union {Len(t) + 1})

Namelist(t, p) == [name |-> t[p][2], body |-> SubSeq(t, p + 1, EndOf(t, p) - 1)]

iter_namelists(t) ==
  LET from[p \in 1..Len(t) + 2] ==
        LET starts == {q \in p..Len(t) : IsStart(t, q)} IN
        IF starts = {} THEN <<>>
        ELSE LET q == Least(starts) IN <<Namelist(t, q)>> \o from[EndOf(t, q) + 1]
  IN from[1]

Assigned(body, kind) == {i \in DOMAIN body : body[i][1] = kind}

\* The MESH namelists with an IJK
meshes(list) == {m \in DOMAIN list : list[m].name = "MESH" /\ Assigned(list[m].body, "ijk") # {}}

parse_mesh_count(t) == Cardinality(meshes(iter_namelists(t)))

\* IJK multiplied, and added up
parse_mesh_cell_count(t) ==
  LET list == iter_namelists(t)
      cells(body) == body[Least(Assigned(body, "ijk"))][2]
      sum[m \in 0..Len(list)] ==
        IF m = 0 THEN 0
        ELSE sum[m - 1] + IF m \in meshes(list) THEN cells(list[m].body) ELSE 0
  IN sum[Len(list)]

-----------------------------------------------------------------------------
(* case_check.py *)

Builtin == {"INERT", "OPEN", "MIRROR", "PERIODIC", "HVAC"}

Values(namelists, kind) ==
  UNION {{l.body[i][2] : i \in Assigned(l.body, kind)} : l \in namelists}

check_case_text(t) ==
  LET list == iter_namelists(t)
      namelists == {list[i] : i \in DOMAIN list}
      Named(name) == {l \in namelists : l.name = name}
      missing == Values(namelists \ Named("SURF"), "surf_id")
                   \ (Values(Named("SURF"), "id") \union Builtin)
  IN  {<<"missing_surf", s>> : s \in missing}
      \union (IF parse_mesh_count(t) = 0 THEN {<<"no_mesh", "">>} ELSE {})
      \union (IF Values(Named("SURF"), "hrrpua") # {} /\ Named("REAC") = {}
              THEN {<<"hrrpua_without_reac", "">>} ELSE {})

-----------------------------------------------------------------------------
(* estimator.py: fractions are pairs <<numerator, denominator>>. *)

Leq(x, y) == x[1] * y[2] <= y[1] * x[2]

\* SIMILARITY_MIN_RATIO, SIMILARITY_MAX_RATIO
Similar(cells, run) == cells <= 5 * run.cells /\ run.cells <= 5 * cells

\* core-seconds per cell of the runs that count.  Mutant: of all runs.
Rates(runs, counted) ==
  [i \in counted |-> <<runs[i].duration * runs[i].processes, runs[i].cells>>]
Samples_any_size(cells, runs) == Rates(runs, {i \in DOMAIN runs : runs[i].duration # 0})
Samples(cells, runs) ==
  Rates(runs, {i \in DOMAIN runs : runs[i].duration # 0 /\ Similar(cells, runs[i])})

\* the kth smallest
OrderStatistic(s, k) ==
  CHOOSE x \in {s[i] : i \in DOMAIN s} :
    /\ Cardinality({i \in DOMAIN s : ~Leq(x, s[i])}) < k
    /\ Cardinality({i \in DOMAIN s : Leq(s[i], x)}) >= k

median(s) ==
  LET number == Cardinality(DOMAIN s)
      x == OrderStatistic(s, number \div 2)
      y == OrderStatistic(s, number \div 2 + 1)
  IN IF number % 2 = 1 THEN y
     ELSE <<x[1] * y[2] + y[1] * x[2], 2 * x[2] * y[2]>>

estimate_duration_s(cells, processes, runs) ==
  LET s == Samples(cells, runs)
      rate == median(s)
  IN
  CASE cells = 0 -> [basis |-> "unknown", seconds |-> <<0, 1>>]
    [] cells # 0 /\ DOMAIN s # {} ->
         [basis |-> "history", seconds |-> <<rate[1] * cells, rate[2] * processes>>]
    [] OTHER -> [basis |-> "fallback", seconds |-> <<3 * cells, 1000 * processes>>]

-----------------------------------------------------------------------------
(* The preview and enqueue *)

inspect_fds_file(t) ==
  LET count == parse_mesh_count(t) IN
  [cells |-> parse_mesh_cell_count(t),
   processes |-> IF count # 0 THEN count ELSE default_mpi_processes,
   findings |-> check_case_text(t)]

\* mpi is what was asked for; 0: nothing.  Mutant: the configured default
\* comes first.
resolved_processes_config_first(t, mpi) == IF mpi # 0 THEN mpi ELSE default_mpi_processes
resolved_processes(t, mpi) ==
  IF mpi # 0 THEN mpi
  ELSE IF parse_mesh_count(t) # 0 THEN parse_mesh_count(t) ELSE default_mpi_processes

Accepts(t, mpi) ==
  parse_mesh_count(t) # 0 => resolved_processes(t, mpi) <= parse_mesh_count(t)

JobOf(t, mpi, runs) ==
  LET cells == parse_mesh_cell_count(t)
      processes == resolved_processes(t, mpi)
  IN [cells |-> cells, processes |-> processes,
      estimate |-> estimate_duration_s(cells, processes, runs)]

-----------------------------------------------------------------------------
CaseInit ==
  /\ text = <<>> /\ lines = 0
  /\ job = NoJob
  /\ history = <<>>

\* Somebody writes the file ...
Writes ==
  /\ lines < MaxLines
  /\ \E line \in Lines : text' = text \o line \o <<Newline>>
  /\ lines' = lines + 1
  /\ UNCHANGED <<job, history>>

\* ... or begins another.
StartsOver ==
  /\ text' = <<>> /\ lines' = 0
  /\ UNCHANGED <<job, history>>

Enqueue(mpi) ==
  /\ job = NoJob
  /\ Accepts(text, mpi)
  /\ job' = JobOf(text, mpi, history)
  /\ UNCHANGED <<text, lines, history>>

\* The job is done, and counts for later estimates if its cells are known.
Completes(duration) ==
  /\ job # NoJob
  /\ Len(history) < MaxHistory
  /\ history' = IF job.cells = 0 THEN history
                ELSE <<[cells |-> job.cells, processes |-> job.processes,
                        duration |-> duration]>> \o history
  /\ job' = NoJob
  /\ UNCHANGED <<text, lines>>

\* It fails or is cancelled.
EndsOtherwise ==
  /\ job # NoJob
  /\ job' = NoJob
  /\ UNCHANGED <<text, lines, history>>

CaseNext ==
  \/ Writes \/ StartsOver
  \/ \E mpi \in 0..MaxProcesses : Enqueue(mpi)
  \/ \E duration \in Durations : Completes(duration)
  \/ EndsOtherwise

CaseSpec == CaseInit /\ [][CaseNext]_caseVars

-----------------------------------------------------------------------------
(* Properties *)

\* The reference reading: where each token of a text stands, left to right:
\* "out", "in" a namelist, or in it and "single" or "double" quoted.
Standing(t) ==
  LET at[i \in 0..Len(t)] ==
        IF i = 0 THEN "out"
        ELSE LET before == at[i - 1] IN
             CASE before = "out" -> IF IsStart(t, i) THEN "in" ELSE "out"
               [] before = "in" ->
                    IF t[i] = Slash THEN "out" ELSE IF t[i] \in Quotes THEN t[i][2] ELSE "in"
               [] OTHER -> IF t[i] = <<"quote", before>> THEN "in" ELSE before
  IN at

\* The name of the namelist that each token belongs to
Owner(t) ==
  LET at == Standing(t)
      heads == {h \in DOMAIN t : at[h - 1] = "out" /\ at[h] = "in"}
  IN [i \in DOMAIN t |->
        IF at[i] = "out" THEN "none"
        ELSE t[CHOOSE h \in heads : h <= i /\ \A g \in heads : g <= i => g <= h][2]]

\* The values of an assignment in namelists of these names
Said(t, kind, names) ==
  LET owner == Owner(t) IN
  {t[i][2] : i \in {k \in DOMAIN t : t[k][1] = kind /\ owner[k] \in names}}

\* The errors of the preview are those of a reader that goes through the file
\* once: no namelist is lost or made up by comments, by groups left open or
\* written over several lines, by slashes in quotations (case_check.py: "It
\* reads namelists as FDS itself delimits them").
FindingsAreReal ==
  LET owner == Owner(text)
      names == {owner[i] : i \in DOMAIN text} \ {"none"}
      used == Said(text, "surf_id", names \ {"SURF"})
      errors == inspect_fds_file(text).findings
  IN  /\ {e[2] : e \in {f \in errors : f[1] = "missing_surf"}}
           = used \ (Said(text, "id", {"SURF"}) \union Builtin)
      /\ <<"no_mesh", "">> \in errors <=> Said(text, "ijk", {"MESH"}) = {}
      /\ <<"hrrpua_without_reac", "">> \in errors
           <=> Said(text, "hrrpua", {"SURF"}) # {} /\ "REAC" \notin names

\* What the preview proposes is accepted, and is what enqueue takes if nothing
\* is asked for: the two handlers read the file on their own.
PreviewIsAccepted ==
  LET proposed == inspect_fds_file(text).processes IN
  /\ Accepts(text, proposed)
  /\ resolved_processes(text, 0) = proposed

\* An estimate from history is between what the fastest and the slowest of the
\* runs would need that have at least a fifth and at most five times the cells,
\* at their own rate on the processes of this job (estimator.py: "completed
\* jobs [...] whose cell count is the same order of magnitude").
EstimateIsInRange ==
  job # NoJob =>
    LET like == {i \in DOMAIN history : history[i].duration # 0 /\
                   5 * history[i].cells >= job.cells /\ history[i].cells <= 5 * job.cells}
        needs(i) == <<history[i].duration * history[i].processes * job.cells,
                      history[i].cells * job.processes>>
    IN  job.estimate.basis = "history" =>
          /\ \E i \in like : Leq(needs(i), job.estimate.seconds)
          /\ \E i \in like : Leq(job.estimate.seconds, needs(i))
=============================================================================
