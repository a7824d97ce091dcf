------------------------------ MODULE JobTable ------------------------------
(***************************************************************************)
(* The job table of the service's SQLite file (src/fdsrouter/db): what one  *)
(* row holds, and what every statement of database.py does to the table.    *)
(*                                                                          *)
(* A table is a value, not a variable: the statements below are operators   *)
(* from tables to tables (or to what a SELECT returns), and the modules     *)
(* that own the table apply them to their variable jobs.  Every statement   *)
(* runs under the Database lock in one transaction, so each is atomic.      *)
(*                                                                          *)
(* Of a row only the columns that some decision depends on are kept.        *)
(* Timestamps are reduced to what is asked of them: start_requested_at,     *)
(* stop_requested_at and archived_at to "is it set", scheduled_stop_at to   *)
(* "unset, still ahead, or past".                                           *)
(***************************************************************************)
EXTENDS Integers

CONSTANTS
  Job,        \* ids of the jobs ever created (uuid4 hex, never reused)
  Node,       \* ids of the machines that may ever be in the node table
  NoNode,     \* the NULL of column node_id
  Positions,  \* queue positions in use: the bound on column queue_position
  Need        \* Need[j]: mpi_process_count of job j, fixed at creation

ASSUME JobTableAssumption ==
  /\ NoNode \notin Node
  /\ Positions \subseteq Nat
  /\ Need \in [Job -> Nat \ {0}]

NoPosition == -1                            \* the NULL of queue_position
Terminal   == {"done", "failed", "cancelled"}
Status     == {"absent", "queued", "running"} \union Terminal
Deadline   == {"none", "ahead", "past"}

Row == [status          : Status,
        node_id         : Node \union {NoNode},
        queue_position  : Positions \union {NoPosition},
        start_requested : BOOLEAN,
        stop_requested  : BOOLEAN,
        scheduled_stop  : Deadline,
        archived        : BOOLEAN]

NoRow == [status |-> "absent", node_id |-> NoNode, queue_position |-> NoPosition,
          start_requested |-> FALSE, stop_requested |-> FALSE,
          scheduled_stop |-> "none", archived |-> FALSE]

EmptyTable == [j \in Job |-> NoRow]

-----------------------------------------------------------------------------
(* SELECTs *)

WithStatus(t, s) == {j \in Job : t[j].status = s}
Queued(t) == WithStatus(t, "queued")

\* COALESCE(MAX(queue_position), -1) + 1 over the queued rows is p.
IsNextPosition(t, p) ==
  /\ \A j \in Queued(t) : t[j].queue_position < p
  /\ p = 0 \/ \E j \in Queued(t) : t[j].queue_position = p - 1

\* The queued rows of node n (of no node for NoNode), first of them in front.
QueuedOn(t, n) == {j \in Queued(t) : t[j].node_id = n}
IsHeadOf(t, S, j) ==
  /\ j \in S
  /\ \A k \in S : t[j].queue_position <= t[k].queue_position

get_unassigned_queued_jobs(t) == QueuedOn(t, NoNode)
\* Mutant: the head of the queue of all nodes.
IsNextQueuedJob_of_any_node(t, n, j) == IsHeadOf(t, Queued(t), j)
IsNextQueuedJob(t, n, j) == IsHeadOf(t, QueuedOn(t, n), j)

get_running_jobs(t, n) == {j \in WithStatus(t, "running") : t[j].node_id = n}

get_busy_node_ids(t) == {n \in Node : get_running_jobs(t, n) # {}}

\* Mutant: the comparison with the cutoff the wrong way round.
get_running_jobs_with_fresh_node(t, stale) ==
  {j \in WithStatus(t, "running") : t[j].node_id \notin stale}

get_running_jobs_with_stale_node(t, stale) ==
  {j \in WithStatus(t, "running") : t[j].node_id \in stale}

\* Mutant: without the rows that run.
get_queued_jobs_past_scheduled_stop(t) ==
  {j \in Queued(t) : t[j].scheduled_stop = "past"}

get_jobs_past_scheduled_stop(t) ==
  {j \in Job : t[j].scheduled_stop = "past" /\ t[j].status \in {"queued", "running"}}

-----------------------------------------------------------------------------
(* INSERT and UPDATEs *)

create_job(t, j, p, d) ==
  [t EXCEPT ![j] = [NoRow EXCEPT !.status = "queued",
                                 !.queue_position = p,
                                 !.scheduled_stop = d]]

set_scheduled_stop(t, j, d) ==
  IF t[j].status \in {"queued", "running"}
  THEN [t EXCEPT ![j].scheduled_stop = d] ELSE t

archive_finished_jobs(t) ==
  [j \in Job |-> IF t[j].status \in Terminal
                 THEN [t[j] EXCEPT !.archived = TRUE] ELSE t[j]]

\* Unconditional: whatever the row's status was, it is 'running' now.
start_job(t, j) ==
  [t EXCEPT ![j].status = "running", ![j].queue_position = NoPosition]

\* Mutant: without the reset of queue_position.
finish_job_keeps_position(t, j, s) == [t EXCEPT ![j].status = s]

\* Unconditional as well, also over an earlier outcome.
finish_job(t, j, s) ==
  [t EXCEPT ![j].status = s, ![j].queue_position = NoPosition]

\* Mutant: without the test of the status in the statement itself.
cancel_unfinished_job(t, j) ==
  IF t[j].status \in {"queued", "running"}
  THEN [t EXCEPT ![j].status = "cancelled", ![j].queue_position = NoPosition]
  ELSE t

cancel_queued_job(t, j) ==
  IF t[j].status = "queued"
  THEN [t EXCEPT ![j].status = "cancelled", ![j].queue_position = NoPosition]
  ELSE t

\* What ordered_job_ids may ask for.  The set of listed ids must be the queued
\* ones; an id listed twice is written twice and keeps its last index, so the
\* indices that remain are any that differ from each other.
Orders(t) ==
  {f \in [Queued(t) -> Positions] :
     \A j, k \in Queued(t) : j # k => f[j] # f[k]}

reorder_queue(t, f) ==
  [j \in Job |-> IF j \in Queued(t)
                 THEN [t[j] EXCEPT !.queue_position = f[j]] ELSE t[j]]

assign_job_to_node(t, j, n) ==
  IF t[j].node_id = NoNode /\ t[j].status = "queued"
  THEN [t EXCEPT ![j].node_id = n] ELSE t

set_stop_requested(t, j) ==
  IF t[j].status = "running" THEN [t EXCEPT ![j].stop_requested = TRUE] ELSE t

set_start_requested(t, j) ==
  IF t[j].status = "queued" THEN [t EXCEPT ![j].start_requested = TRUE] ELSE t
=============================================================================
