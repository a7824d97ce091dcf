--------------------------- MODULE MCQueueManager ---------------------------
(***************************************************************************)
(* Instances of QueueManager for TLC.                                       *)
(***************************************************************************)
EXTENDS QueueManager, TLC

CONSTANTS j1, j2, n1, n2

\* Every job fits on either machine; the agent's machine n2 is the bigger.
MCNeed    == [j \in Job |-> 1]
MCCores   == [n \in Node |-> IF n = n2 THEN 2 ELSE 1]
MCIdOrder == [n \in Node |-> IF n = n1 THEN 1 ELSE 2]

\* What the operator leaves alone in the larger instances (CONSTRAINTs).
NoDeadlines == \A j \in Job : jobs[j].scheduled_stop = "none"
NoArchiving == \A j \in Job : ~jobs[j].archived

MCSymmetry == Permutations(Job)
=============================================================================
