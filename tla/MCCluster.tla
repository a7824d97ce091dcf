----------------------------- MODULE MCCluster -----------------------------
(***************************************************************************)
(* Instances of Cluster for TLC.                                            *)
(***************************************************************************)
EXTENDS Cluster, TLC

CONSTANTS j1, j2, n1, n2, n3

\* Every job fits on every machine; the local machine n1 is the smallest.
MCNeed    == [j \in Job |-> 1]
MCIdOrder == [n \in Node |-> CASE n = n1 -> 1 [] n = n2 -> 2 [] OTHER -> 3]
MCCores   == MCIdOrder

MCSymmetry == Permutations(Job)

\* What the operator leaves alone in the larger instances (CONSTRAINTs).
NoDeadlines == \A j \in Job : jobs[j].scheduled_stop = "none"
NoArchiving == \A j \in Job : ~jobs[j].archived

\* The operator starts every job by hand.
NoAutoAdvance == ~auto_advance
=============================================================================
