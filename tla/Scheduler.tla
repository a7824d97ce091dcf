----------------------------- MODULE Scheduler -----------------------------
(***************************************************************************)
(* Which node a queued job goes to (src/fdsrouter/core/scheduler.py), and    *)
(* what one scheduler tick of the queue manager writes to the job table.    *)
(***************************************************************************)
EXTENDS JobTable

CONSTANTS
  Cores,    \* Cores[n]: cpu_cores of node n, as it registers
  FdsReady, \* the nodes that register with a configured FDS and mpirun
  IdOrder   \* IdOrder[n]: the rank of n's id string among the node ids

ASSUME SchedulerAssumption ==
  /\ Cores \in [Node -> Nat]
  /\ FdsReady \subseteq Node
  /\ IdOrder \in [Node -> Nat]
  /\ \A m, n \in Node : IdOrder[m] = IdOrder[n] => m = n

\* online is the set of nodes whose last heartbeat is younger than
\* NODE_STALE_AFTER_S (is_node_online).
Eligible(j, online, busy) ==
  {n \in online \ busy : Cores[n] >= Need[j] /\ n \in FdsReady}

\* max() by (cpu_cores, id)
IsBest(n, S) ==
  /\ n \in S
  /\ \A m \in S : \/ Cores[m] < Cores[n]
                  \/ Cores[m] = Cores[n] /\ IdOrder[m] <= IdOrder[n]

pick_node_for_job(j, online, busy, n) ==
  LET S == Eligible(j, online, busy) IN
  IF S = {} THEN n = NoNode ELSE IsBest(n, S)

\* a is what a tick over table t assigns: the unassigned jobs are served in
\* queue order, and a node that got one is busy for those after it.
IsTick(t, online, a) ==
  LET U == get_unassigned_queued_jobs(t)
      Earlier(j) == {k \in U : t[k].queue_position < t[j].queue_position}
  IN  \A j \in U :
        pick_node_for_job(j, online,
                          get_busy_node_ids(t) \union {a[k] : k \in Earlier(j)},
                          a[j])

Ticks(t, online) ==
  {a \in [get_unassigned_queued_jobs(t) -> Node \union {NoNode}] :
     IsTick(t, online, a)}

assign_all(t, a) ==
  [j \in Job |-> IF j \in DOMAIN a /\ a[j] # NoNode
                 THEN assign_job_to_node(t, j, a[j])[j] ELSE t[j]]
=============================================================================
