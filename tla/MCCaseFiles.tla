---------------------------- MODULE MCCaseFiles ----------------------------
(***************************************************************************)
(* Instances of Files, Cases and Output for TLC, side by side: a behaviour   *)
(* is of one of them.  Two files of an upload are stored under one name, and *)
(* one input file loses its suffix; one directory may be made in another.   *)
(***************************************************************************)
EXTENDS Files, Cases, Output, TLC

CONSTANTS outer, inner, input, long, ramp, ramp2

MCAbove == [d \in Dir |-> IF d = inner THEN {outer} ELSE {}]
MCSafe == [f \in FileName |-> IF f = ramp2 THEN ramp ELSE f]
MCSymmetry == Permutations(Upload) \union Permutations(Download) \union Permutations(Inode)

MCLines == {
  <<<<"name", "MESH">>, <<"ijk", 1>>, Slash>>,
  <<<<"name", "MESH">>, <<"ijk", 6>>, Slash>>,
  <<<<"name", "MESH">>, <<"ijk", 1>>, Slash, Newline, <<"name", "MESH">>, <<"ijk", 1>>, Slash>>,
  <<<<"word", "">>, <<"name", "MESH">>, <<"ijk", 1>>, Slash>>,
  <<<<"name", "SURF">>, <<"id", "fire">>, <<"hrrpua", "">>>>,
  <<<<"name", "VENT">>, <<"surf_id", "fire">>, <<"surf_id", "OPEN">>, Slash>>,
  <<<<"name", "REAC">>, Slash>>,
  <<<<"word", "">>, <<"quote", "single">>, Slash>>,
  <<<<"quote", "double">>, <<"quote", "single">>, Slash, <<"quote", "double">>, Slash>>}

Init == FilesInit /\ CaseInit /\ OutputInit

NoFilesYet == /\ \A u \in Upload : upload[u] = NoUpload
              /\ case = [j \in Job |-> Nothing] /\ cut = {}
NoCaseYet == lines = 0 /\ history = <<>> /\ job = NoJob
NoRunYet == fds.run = 0

Next ==
  \/ NoCaseYet /\ FilesNext /\ UNCHANGED <<caseVars, outputVars>>
  \/ NoFilesYet /\ NoRunYet /\ CaseNext /\ UNCHANGED <<filesVars, outputVars>>
  \/ NoFilesYet /\ NoCaseYet /\ OutputNext /\ UNCHANGED <<filesVars, caseVars>>

Spec == Init /\ [][Next]_<<filesVars, caseVars, outputVars>>

\* CONSTRAINTs
FilesOrRun == NoFilesYet \/ NoRunYet
HistoryOfSmallCases == history # <<>> \/ job # NoJob => lines <= 1
DownloadsOfOneCase ==
  \/ \A a \in Archive : path[a] = Nothing /\ a \notin cut
  \/ Cardinality({u \in Upload : upload[u] # NoUpload}) <= 1
=============================================================================
