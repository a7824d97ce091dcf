------------------------------ MODULE MCService ------------------------------
(***************************************************************************)
(* Instances of Service for TLC.                                            *)
(***************************************************************************)
EXTENDS Service, TLC

CONSTANTS j1, r1, r2, own, its, new, c1, here

\* CONSTRAINT: a machine that was set up by `fdsrouter agent` is not used as a
\* controller as well; neither command reads the other's file.
OnePurpose == Serving => agent_file = NoFile

\* CONSTRAINT: runs and updates, which touch neither file, are looked at on a
\* machine that serves as it was first started; everything else (starts,
\* restarts, pairings, edits, the script, crashes) meets without them.
RunsOrFiles ==
  \/ slot = Free /\ rev.published = 0
  \/ /\ agent_file = NoFile /\ verified = {} /\ Edits = {} /\ script = NoScript
     /\ file # NoFile /\ file.role = "controller" /\ file.port = "default"

\* CONSTRAINT: the script, which does not know agent-config.yaml, meets one edit
\* at a time and no restart by the unit; a crash and a start it does meet.
ScriptMeetsEdits ==
  script # NoScript =>
    /\ agent_file = NoFile /\ unit_job = NoUnitJob
    /\ \A q, r \in Request : request[q] # NoRequest /\ request[r] # NoRequest =>
         q = r /\ r \in Edits

\* CONSTRAINT: a node that was paired and is started as a controller after all
\* is asked for nothing more.
PairedServesOnly ==
  Serving /\ verified # {} => script = NoScript /\ \A r \in Request : request[r] = NoRequest

MCSymmetry == Permutations(Request) \union Permutations(Issued)
=============================================================================
