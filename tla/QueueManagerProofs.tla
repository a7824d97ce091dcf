------------------------- MODULE QueueManagerProofs -------------------------
(***************************************************************************)
(* Theorems about QueueManager, for every set of jobs, nodes and faults.    *)
(***************************************************************************)
EXTENDS QueueManager, TLAPS

USE DEF Terminal, Status, Deadline, NoPosition, LoopPhases

-----------------------------------------------------------------------------
(* What the statements of the job table keep *)

Table == [Job -> Row]

LEMMA RowUpdates ==
  ASSUME NEW t \in Table, NEW j \in Job
  PROVE  /\ \A p \in Positions, d \in Deadline : create_job(t, j, p, d) \in Table
         /\ \A d \in Deadline : set_scheduled_stop(t, j, d) \in Table
         /\ start_job(t, j) \in Table
         /\ \A s \in Terminal : finish_job(t, j, s) \in Table
         /\ cancel_queued_job(t, j) \in Table
         /\ set_stop_requested(t, j) \in Table
         /\ set_start_requested(t, j) \in Table
<1> DEFINE r == t[j]
<1>0. r \in Row
  BY DEF Table
<1>1. \A q \in Row : [t EXCEPT ![j] = q] \in Table
  BY DEF Table
<1>2. ASSUME NEW s \in Status
      PROVE  [r EXCEPT !.status = s, !.queue_position = NoPosition] \in Row
  BY <1>0, <1>2 DEF Row
<1>3. ASSUME NEW s \in Status
      PROVE  [t EXCEPT ![j].status = s, ![j].queue_position = NoPosition] \in Table
  <2>1. [t EXCEPT ![j].status = s, ![j].queue_position = NoPosition]
          = [t EXCEPT ![j] = [r EXCEPT !.status = s, !.queue_position = NoPosition]]
    BY DEF Table
  <2> QED
    BY <1>1, <1>2, <2>1
<1>4. ASSUME NEW p \in Positions, NEW d \in Deadline
      PROVE  create_job(t, j, p, d) \in Table
  <2>1. NoRow \in Row
    BY DEF Row, NoRow
  <2>2. [NoRow EXCEPT !.status = "queued", !.queue_position = p, !.scheduled_stop = d] \in Row
    BY <2>1 DEF Row
  <2> QED
    BY <1>1, <2>2 DEF create_job
<1>5. ASSUME NEW d \in Deadline PROVE set_scheduled_stop(t, j, d) \in Table
  <2>1. [r EXCEPT !.scheduled_stop = d] \in Row
    BY <1>0 DEF Row
  <2>2. [t EXCEPT ![j].scheduled_stop = d] = [t EXCEPT ![j] = [r EXCEPT !.scheduled_stop = d]]
    BY DEF Table
  <2> QED
    BY <1>1, <2>1, <2>2 DEF set_scheduled_stop
<1>6. start_job(t, j) \in Table
  BY <1>3 DEF start_job
<1>7. ASSUME NEW s \in Terminal PROVE finish_job(t, j, s) \in Table
  BY <1>3 DEF finish_job
<1>8. cancel_queued_job(t, j) \in Table
  BY <1>3 DEF cancel_queued_job
<1>9. set_stop_requested(t, j) \in Table
  <2>1. [r EXCEPT !.stop_requested = TRUE] \in Row
    BY <1>0 DEF Row
  <2>2. [t EXCEPT ![j].stop_requested = TRUE] = [t EXCEPT ![j] = [r EXCEPT !.stop_requested = TRUE]]
    BY DEF Table
  <2> QED
    BY <1>1, <2>1, <2>2 DEF set_stop_requested
<1>10. set_start_requested(t, j) \in Table
  <2>1. [r EXCEPT !.start_requested = TRUE] \in Row
    BY <1>0 DEF Row
  <2>2. [t EXCEPT ![j].start_requested = TRUE] = [t EXCEPT ![j] = [r EXCEPT !.start_requested = TRUE]]
    BY DEF Table
  <2> QED
    BY <1>1, <2>1, <2>2 DEF set_start_requested
<1> QED
  BY <1>4, <1>5, <1>6, <1>7, <1>8, <1>9, <1>10

LEMMA TableUpdates ==
  ASSUME NEW t \in Table
  PROVE  /\ archive_finished_jobs(t) \in Table
         /\ \A f \in Orders(t) : reorder_queue(t, f) \in Table
         /\ \A o \in SUBSET Node : \A a \in Ticks(t, o) : assign_all(t, a) \in Table
         /\ \A alive \in SUBSET Job :
              recover_stale_running_job(t, alive) \subseteq Table
<1>1. archive_finished_jobs(t) \in Table
  <2>1. ASSUME NEW j \in Job PROVE [t[j] EXCEPT !.archived = TRUE] \in Row
    <3>1. t[j] \in Row
      BY DEF Table
    <3> QED
      BY <3>1 DEF Row
  <2> QED
    BY <2>1 DEF Table, archive_finished_jobs
<1>2. ASSUME NEW f \in Orders(t) PROVE reorder_queue(t, f) \in Table
  BY <1>2 DEF Table, Row, reorder_queue, Orders
<1>3. ASSUME NEW o \in SUBSET Node, NEW a \in Ticks(t, o)
      PROVE  assign_all(t, a) \in Table
  <2>1. a \in [get_unassigned_queued_jobs(t) -> Node \union {NoNode}]
    BY DEF Ticks
  <2> QED
    BY <2>1 DEF Table, Row, assign_all, assign_job_to_node
<1>4. ASSUME NEW alive \in SUBSET Job
      PROVE  recover_stale_running_job(t, alive) \subseteq Table
  <2>1. get_running_jobs(t, Local) \subseteq Job
    BY DEF get_running_jobs, WithStatus
  <2> QED
    BY <2>1, RowUpdates DEF recover_stale_running_job
<1> QED
  BY <1>1, <1>2, <1>3, <1>4

-----------------------------------------------------------------------------
(* Type correctness: one lemma per group of actions *)

LEMMA OperatorType ==
  ASSUME TypeOK, OperatorStep
  PROVE  TypeOK'
<1> USE QueueManagerAssumption
<1>0. jobs \in Table
  BY DEF TypeOK, Table
<1>1. CASE \E j \in Job, d \in Deadline : Enqueue(j, d)
  <2>1. jobs' \in Table
    BY <1>0, <1>1, RowUpdates DEF Enqueue
  <2> QED
    BY <1>1, <2>1 DEF TypeOK, Table, Enqueue, local, disp
<1>2. CASE ArchiveFinished
  <2>1. jobs' \in Table
    BY <1>0, <1>2, TableUpdates DEF ArchiveFinished
  <2> QED
    BY <1>2, <2>1 DEF TypeOK, Table, ArchiveFinished, local, disp
<1>3. CASE Reorder
  <2>1. jobs' \in Table
    BY <1>0, <1>3, TableUpdates DEF Reorder
  <2> QED
    BY <1>3, <2>1 DEF TypeOK, Table, Reorder, local, disp
<1>4. CASE \E j \in Job : Cancel(j)
  <2>1. jobs' \in Table
    BY <1>0, <1>4, RowUpdates DEF Cancel
  <2> QED
    BY <1>4, <2>1 DEF TypeOK, Table, Cancel, local, disp
<1>5. CASE \E j \in Job : StopRunningJob(j)
  <2>1. jobs' \in Table
    BY <1>0, <1>5, RowUpdates DEF StopRunningJob, stop_running_job
  <2> QED
    BY <1>5, <2>1 DEF TypeOK, Table, StopRunningJob, stop_running_job, disp
<1>6. CASE \E j \in Job : StartJobManually(j)
  <2>1. jobs' \in Table
    BY <1>0, <1>6, RowUpdates DEF StartJobManually, start_job_begins
  <2> QED
    BY <1>6, <2>1 DEF TypeOK, Table, StartJobManually, start_job_begins, local, disp
<1>7. CASE SetAutoAdvance
  BY <1>7 DEF TypeOK, SetAutoAdvance, local, disp
<1>8. CASE \E j \in Job, d \in Deadline : UpdateDeadline(j, d)
  <2>1. jobs' \in Table
    BY <1>0, <1>8, RowUpdates DEF UpdateDeadline
  <2> QED
    BY <1>8, <2>1 DEF TypeOK, Table, UpdateDeadline, local, disp
<1> QED
  BY <1>1, <1>2, <1>3, <1>4, <1>5, <1>6, <1>7, <1>8 DEF OperatorStep

LEMMA FinalizeType ==
  ASSUME TypeOK, NEW j \in Job, NEW s \in Terminal, finalize_job(j, s)
  PROVE  jobs' \in Table /\ running' \in Job \union {NoJob}
<1>1. jobs \in Table
  BY DEF TypeOK, Table
<1> QED
  BY <1>1, RowUpdates DEF finalize_job, TypeOK

LEMMA RunType ==
  ASSUME TypeOK, RunStep
  PROVE  TypeOK'
<1>0. jobs \in Table
  BY DEF TypeOK, Table
<1>1. CASE SpawnReturns
  <2>1. starting \in Job
    BY <1>1 DEF SpawnReturns, TypeOK
  <2>2. jobs' \in Table
    BY <1>0, <1>1, <2>1, RowUpdates DEF SpawnReturns
  <2> QED
    BY <1>1, <2>1, <2>2 DEF TypeOK, Table, SpawnReturns
<1>2. CASE SpawnRaises
  <2>1. starting \in Job
    BY <1>2 DEF SpawnRaises, TypeOK
  <2>2. jobs' \in Table
    BY <1>0, <1>2, <2>1, RowUpdates DEF SpawnRaises
  <2> QED
    BY <1>2, <2>1, <2>2 DEF TypeOK, Table, SpawnRaises, disp
<1>3. CASE \E j \in Job : ProcessExits(j)
  BY <1>3 DEF TypeOK, ProcessExits, disp
<1>4. ASSUME NEW j \in Job, RunEnds(j) PROVE TypeOK'
  <2>1. PICK s \in Outcomes : finalize_job(j, s)
    BY <1>4 DEF RunEnds
  <2>2. jobs' \in Table /\ running' \in Job \union {NoJob}
    BY <2>1, FinalizeType DEF Outcomes
  <2> QED
    BY <1>4, <2>2 DEF TypeOK, Table, RunEnds, disp
<1>5. CASE \E j \in Job : ReaderFails(j)
  BY <1>5 DEF TypeOK, ReaderFails, disp
<1>6. CASE \E j \in Job : OrphanExits(j)
  BY <1>6 DEF TypeOK, OrphanExits, disp
<1>7. CASE StartIsOver
  BY <1>7 DEF TypeOK, StartIsOver
<1> QED
  BY <1>1, <1>2, <1>3, <1>4, <1>5, <1>6, <1>7 DEF RunStep

LEMMA SweepType ==
  ASSUME TypeOK, NEW list \in SUBSET (Job \X {"queued", "running"}), sweep(list)
  PROVE  /\ jobs' \in Table /\ running' \in Job \union {NoJob}
         /\ loop' \in LoopPhases
         /\ todo' \subseteq Job \X {"queued", "running"}
<1>1. CASE list = {}
  BY <1>1 DEF sweep, TypeOK, Table
<1>2. CASE list # {}
  <2>1. PICK e \in list : /\ finalize_job(e[1], "failed")
                          /\ loop' = "sweeping" /\ todo' = list \ {e}
    BY <1>2 DEF sweep
  <2>2. jobs' \in Table /\ running' \in Job \union {NoJob}
    BY <2>1, FinalizeType
  <2> QED
    BY <2>1, <2>2
<1> QED
  BY <1>1, <1>2

LEMMA EnforceType ==
  ASSUME TypeOK, NEW list \in SUBSET (Job \X {"queued", "running"}), enforce(list)
  PROVE  /\ jobs' \in Table
         /\ UNCHANGED <<starting, spawn_failed, running, proc, orphans>>
         /\ stop_flag' \in BOOLEAN
         /\ signalled' \subseteq Job
         /\ loop' \in LoopPhases
         /\ todo' \subseteq Job \X {"queued", "running"}
<1>0. jobs \in Table
  BY DEF TypeOK, Table
<1>1. CASE list = {}
  BY <1>1 DEF enforce, TypeOK, Table, local
<1>2. CASE list # {}
  <2>1. PICK e \in list :
          /\ IF e[2] = "queued"
             THEN jobs' = cancel_queued_job(jobs, e[1]) /\ UNCHANGED local
             ELSE stop_running_job(e[1])
          /\ loop' = "stopping" /\ todo' = list \ {e}
    BY <1>2 DEF enforce
  <2>2. e[1] \in Job
    OBVIOUS
  <2>3. jobs' \in Table
    BY <1>0, <2>1, <2>2, RowUpdates DEF stop_running_job
  <2> QED
    BY <2>1, <2>2, <2>3 DEF TypeOK, stop_running_job, local
<1> QED
  BY <1>1, <1>2

LEMMA LoopType ==
  ASSUME TypeOK, LoopStep
  PROVE  TypeOK'
<1> USE QueueManagerAssumption
<1>0. jobs \in Table
  BY DEF TypeOK, Table
<1>1. CASE SchedulerTick
  <2>1. online' \in SUBSET Node /\ online' \subseteq nodes
    BY <1>1 DEF SchedulerTick, TypeOK
  <2>2. jobs' \in Table
    BY <1>0, <1>1, <2>1, TableUpdates DEF SchedulerTick
  <2> QED
    BY <1>1, <2>1, <2>2 DEF TypeOK, Table, SchedulerTick, local
<1>2. CASE SweepStaleRemoteJobs
  <2>1. PICK list \in SUBSET (Job \X {"queued", "running"}) : sweep(list)
    BY <1>2 DEF SweepStaleRemoteJobs, TypeOK, get_running_jobs_with_stale_node, WithStatus
  <2> QED
    BY <1>2, <2>1, SweepType DEF TypeOK, Table, SweepStaleRemoteJobs
<1>3. CASE EnforceScheduledStops
  <2>1. PICK list \in SUBSET (Job \X {"queued", "running"}) : enforce(list)
    BY <1>3 DEF EnforceScheduledStops, TypeOK, get_jobs_past_scheduled_stop
  <2> QED
    BY <1>3, <2>1, EnforceType DEF TypeOK, Table, EnforceScheduledStops
<1>4. CASE DispatchNext
  BY <1>4 DEF TypeOK, DispatchNext, start_job_begins, local
<1> QED
  BY <1>1, <1>2, <1>3, <1>4 DEF LoopStep

LEMMA RestartType ==
  ASSUME TypeOK, Restart
  PROVE  TypeOK'
<1> USE QueueManagerAssumption
<1>0. jobs \in Table
  BY DEF TypeOK, Table
<1>1. orphans' \subseteq Job
  BY DEF TypeOK, Restart
<1>2. jobs' \in Table
  BY <1>0, <1>1, TableUpdates DEF Restart
<1> QED
  BY <1>1, <1>2 DEF TypeOK, Table, Restart

LEMMA AgentType ==
  ASSUME TypeOK, AgentStep
  PROVE  TypeOK'
<1>0. jobs \in Table
  BY DEF TypeOK, Table
<1>1. CASE \E n \in Remote : Register(n)
  BY <1>1 DEF TypeOK, Register, Remote, local, disp
<1>2. CASE \E n \in Remote : Heartbeat(n)
  BY <1>2 DEF TypeOK, Heartbeat, Remote, local, disp
<1>3. CASE \E n \in Remote : HeartbeatExpires(n)
  BY <1>3 DEF TypeOK, HeartbeatExpires, local, disp
<1>4. CASE \E j \in Job : AgentStart(j)
  <2>1. jobs' \in Table
    BY <1>0, <1>4, RowUpdates DEF AgentStart
  <2> QED
    BY <1>4, <2>1 DEF TypeOK, Table, AgentStart, local, disp
<1>5. ASSUME NEW j \in Job, NEW s \in Terminal, AgentFinish(j, s) PROVE TypeOK'
  <2>1. jobs' \in Table /\ running' \in Job \union {NoJob}
    BY <1>5, FinalizeType DEF AgentFinish
  <2> QED
    BY <1>5, <2>1 DEF TypeOK, Table, AgentFinish, disp
<1> QED
  BY <1>1, <1>2, <1>3, <1>4, <1>5 DEF AgentStep

\* Every table, node set, flag and list of the queue manager keeps its type
\* in every behaviour.
THEOREM TypeCorrect == Spec => []TypeOK
<1>1. Init => TypeOK
  <2>1. EmptyTable \in [Job -> Row]
    BY DEF EmptyTable, NoRow, Row
  <2> QED
    BY <2>1, QueueManagerAssumption DEF Init, TypeOK
<1>2. TypeOK /\ [Next]_vars => TypeOK'
  <2> SUFFICES ASSUME TypeOK, [Next]_vars PROVE TypeOK'
    OBVIOUS
  <2>1. ASSUME NEW j \in Job, DeadlinePasses(j) PROVE TypeOK'
    <3>1. jobs' \in [Job -> Row]
      BY <2>1 DEF TypeOK, Row, DeadlinePasses
    <3> QED
      BY <2>1, <3>1 DEF TypeOK, DeadlinePasses, local, disp
  <2>2. CASE UNCHANGED vars
    BY <2>2 DEF TypeOK, vars, local, disp
  <2> QED
    BY <2>1, <2>2, OperatorType, RunType, LoopType, RestartType, AgentType DEF Next
<1> QED
  BY <1>1, <1>2, PTL DEF Spec

-----------------------------------------------------------------------------
(* What the statements of the job table do to status and node of a row *)

SameRow(t, u, k) == t[k].status = u[k].status /\ t[k].node_id = u[k].node_id

LEMMA OtherRows ==
  ASSUME NEW t \in Table, NEW j \in Job, NEW k \in Job, k # j
  PROVE  /\ \A p \in Positions, d \in Deadline : create_job(t, j, p, d)[k] = t[k]
         /\ start_job(t, j)[k] = t[k]
         /\ \A s \in Terminal : finish_job(t, j, s)[k] = t[k]
<1>1. ASSUME NEW p \in Positions, NEW d \in Deadline
      PROVE  create_job(t, j, p, d)[k] = t[k]
  BY <1>1 DEF Table, create_job
<1>2. start_job(t, j)[k] = t[k]
  BY DEF Table, start_job
<1>3. ASSUME NEW s \in Terminal PROVE finish_job(t, j, s)[k] = t[k]
  BY <1>3 DEF Table, finish_job
<1> QED
  BY <1>1, <1>2, <1>3

LEMMA ItsRow ==
  ASSUME NEW t \in Table, NEW j \in Job
  PROVE  /\ \A p \in Positions, d \in Deadline :
              /\ create_job(t, j, p, d)[j].status = "queued"
              /\ create_job(t, j, p, d)[j].node_id = NoNode
         /\ start_job(t, j)[j].status = "running"
         /\ start_job(t, j)[j].node_id = t[j].node_id
         /\ \A s \in Terminal :
              /\ finish_job(t, j, s)[j].status = s
              /\ finish_job(t, j, s)[j].node_id = t[j].node_id
<1>1. ASSUME NEW p \in Positions, NEW d \in Deadline
      PROVE  /\ create_job(t, j, p, d)[j].status = "queued"
             /\ create_job(t, j, p, d)[j].node_id = NoNode
  BY <1>1 DEF Table, Row, NoRow, create_job
<1>2. start_job(t, j)[j].status = "running" /\ start_job(t, j)[j].node_id = t[j].node_id
  BY DEF Table, Row, start_job
<1>3. ASSUME NEW s \in Terminal
      PROVE  /\ finish_job(t, j, s)[j].status = s
             /\ finish_job(t, j, s)[j].node_id = t[j].node_id
  BY <1>3 DEF Table, Row, finish_job
<1> QED
  BY <1>1, <1>2, <1>3

LEMMA AnyRow ==
  ASSUME NEW t \in Table, NEW j \in Job, NEW k \in Job
  PROVE  /\ \A d \in Deadline : SameRow(t, set_scheduled_stop(t, j, d), k)
         /\ SameRow(t, set_stop_requested(t, j), k)
         /\ SameRow(t, set_start_requested(t, j), k)
         /\ SameRow(t, archive_finished_jobs(t), k)
         /\ \A f \in Orders(t) : SameRow(t, reorder_queue(t, f), k)
<1>1. \A d \in Deadline : SameRow(t, set_scheduled_stop(t, j, d), k)
  BY DEF Table, Row, SameRow, set_scheduled_stop
<1>2. SameRow(t, set_stop_requested(t, j), k)
  BY DEF Table, Row, SameRow, set_stop_requested
<1>3. SameRow(t, set_start_requested(t, j), k)
  BY DEF Table, Row, SameRow, set_start_requested
<1>4. SameRow(t, archive_finished_jobs(t), k)
  BY DEF Table, Row, SameRow, archive_finished_jobs
<1>5. \A f \in Orders(t) : SameRow(t, reorder_queue(t, f), k)
  BY DEF Table, Row, SameRow, reorder_queue
<1> QED
  BY <1>1, <1>2, <1>3, <1>4, <1>5

LEMMA CancelRow ==
  ASSUME NEW t \in Table, NEW j \in Job, NEW k \in Job
  PROVE  \/ SameRow(t, cancel_queued_job(t, j), k)
         \/ /\ k = j /\ t[k].status = "queued"
            /\ cancel_queued_job(t, j)[k].status = "cancelled"
            /\ cancel_queued_job(t, j)[k].node_id = t[k].node_id
BY DEF Table, Row, SameRow, cancel_queued_job

LEMMA TickRow ==
  ASSUME NEW t \in Table, NEW o \in SUBSET Node, NEW a \in Ticks(t, o), NEW k \in Job
  PROVE  /\ assign_all(t, a)[k].status = t[k].status
         /\ \/ assign_all(t, a)[k].node_id = t[k].node_id
            \/ t[k].status = "queued" /\ t[k].node_id = NoNode
<1>1. a \in [get_unassigned_queued_jobs(t) -> Node \union {NoNode}]
  BY DEF Ticks
<1> QED
  BY <1>1 DEF Table, Row, assign_all, assign_job_to_node,
     get_unassigned_queued_jobs, QueuedOn, Queued, WithStatus

-----------------------------------------------------------------------------
(* The one slot of a local run *)

\* If every row keeps its status and its node, what the slot says of rows
\* stays true as long as the slot's own variables stay.
LEMMA SlotFrame ==
  ASSUME TypeOK, SlotInvariant, UNCHANGED <<starting, spawn_failed, running, proc>>,
         \A k \in Job : SameRow(jobs, jobs', k),
         loop' = "sweeping" => loop = "sweeping" /\ todo' \subseteq todo
  PROVE  SlotInvariant'
BY DEF SlotInvariant, SameRow, HasProcess, IsRemote, TypeOK

LEMMA SlotOperator ==
  ASSUME TypeOK, SlotInvariant, OperatorStep
  PROVE  SlotInvariant'
<1>0. jobs \in Table
  BY DEF TypeOK, Table
<1>1. ASSUME NEW j \in Job, NEW d \in Deadline, Enqueue(j, d) PROVE SlotInvariant'
  <2>1. PICK p \in Positions : jobs' = create_job(jobs, j, p, d)
    BY <1>1 DEF Enqueue
  <2>2. \A k \in Job \ {j} : jobs'[k] = jobs[k]
    BY <1>0, <2>1, OtherRows
  <2>3. jobs'[j].status = "queued" /\ jobs'[j].node_id = NoNode
    BY <1>0, <2>1, ItsRow
  <2>4. jobs[j].status = "absent" /\ UNCHANGED <<starting, spawn_failed, running, proc, loop, todo>>
    BY <1>1 DEF Enqueue, local, disp
  <2>5. ~IsRemote(j)
    BY <2>4, JobTableAssumption DEF SlotInvariant, IsRemote, Remote
  <2>6. ~HasProcess(j)
    BY <2>4, <2>5 DEF SlotInvariant
  <2>7. \A e \in todo : loop = "sweeping" => e[1] # j
    BY <2>5 DEF SlotInvariant
  <2> QED
    BY <2>2, <2>3, <2>4, <2>6, <2>7 DEF SlotInvariant, HasProcess, IsRemote, TypeOK
<1>2. CASE ArchiveFinished
  BY <1>0, <1>2, AnyRow, SlotFrame DEF ArchiveFinished, local, disp
<1>3. CASE Reorder
  BY <1>0, <1>3, AnyRow, SlotFrame DEF Reorder, local, disp
<1>4. ASSUME NEW j \in Job, Cancel(j) PROVE SlotInvariant'
  BY <1>0, <1>4, CancelRow
  DEF Cancel, local, disp, SlotInvariant, SameRow, HasProcess, IsRemote, TypeOK
<1>5. ASSUME NEW j \in Job, StopRunningJob(j) PROVE SlotInvariant'
  <2>1. \A k \in Job : SameRow(jobs, jobs', k)
    BY <1>0, <1>5, AnyRow DEF StopRunningJob, stop_running_job, SameRow
  <2> QED
    BY <1>5, <2>1, SlotFrame DEF StopRunningJob, stop_running_job, disp
<1>6. ASSUME NEW j \in Job, StartJobManually(j) PROVE SlotInvariant'
  <2>1. CASE jobs' = set_start_requested(jobs, j) /\ UNCHANGED local
    BY <1>0, <1>6, <2>1, AnyRow, SlotFrame DEF StartJobManually, local, disp
  <2>2. CASE start_job_begins(j)
    BY <1>6, <2>2 DEF StartJobManually, start_job_begins, Busy, disp,
       SlotInvariant, HasProcess, IsRemote
  <2> QED
    BY <1>6, <2>1, <2>2 DEF StartJobManually
<1>7. CASE SetAutoAdvance
  BY <1>7 DEF SetAutoAdvance, local, disp, SlotInvariant, HasProcess, IsRemote
<1>8. CASE \E j \in Job, d \in Deadline : UpdateDeadline(j, d)
  BY <1>0, <1>8, AnyRow, SlotFrame DEF UpdateDeadline, local, disp
<1> QED
  BY <1>1, <1>2, <1>3, <1>4, <1>5, <1>6, <1>7, <1>8 DEF OperatorStep

LEMMA SlotRun ==
  ASSUME TypeOK, SlotInvariant, RunStep
  PROVE  SlotInvariant'
<1>0. jobs \in Table
  BY DEF TypeOK, Table
<1>1. CASE SpawnReturns
  <2>1. starting \in Job
    BY <1>1 DEF SpawnReturns, TypeOK
  <2>2. \A k \in Job \ {starting} : jobs'[k] = jobs[k]
    BY <1>0, <1>1, <2>1, OtherRows DEF SpawnReturns
  <2>3. jobs'[starting].status = "running" /\ jobs'[starting].node_id = jobs[starting].node_id
    BY <1>0, <1>1, <2>1, ItsRow DEF SpawnReturns
  <2>4. \A k \in Job : HasProcess(k) => IsRemote(k)
    BY <1>1, <2>1, QueueManagerAssumption DEF SpawnReturns, SlotInvariant
  <2> QED
    BY <1>1, <2>1, <2>2, <2>3, <2>4
    DEF SpawnReturns, SlotInvariant, HasProcess, IsRemote, TypeOK
<1>2. CASE SpawnRaises
  <2>1. starting \in Job
    BY <1>2 DEF SpawnRaises, TypeOK
  <2>2. \A k \in Job \ {starting} : jobs'[k] = jobs[k]
    BY <1>0, <1>2, <2>1, OtherRows DEF SpawnRaises
  <2>3. jobs'[starting].status = "failed" /\ jobs'[starting].node_id = jobs[starting].node_id
    BY <1>0, <1>2, <2>1, ItsRow DEF SpawnRaises
  <2>4. \A k \in Job : HasProcess(k) => IsRemote(k)
    BY <1>2, <2>1, QueueManagerAssumption DEF SpawnRaises, SlotInvariant
  <2> QED
    BY <1>2, <2>1, <2>2, <2>3, <2>4
    DEF SpawnRaises, disp, SlotInvariant, HasProcess, IsRemote, TypeOK
<1>3. CASE \E j \in Job : ProcessExits(j)
  BY <1>3 DEF ProcessExits, disp, SlotInvariant, HasProcess, IsRemote, TypeOK
<1>4. ASSUME NEW j \in Job, RunEnds(j) PROVE SlotInvariant'
  <2>1. PICK s \in Terminal : finalize_job(j, s)
    BY <1>4 DEF RunEnds, Outcomes
  <2>2. \A k \in Job \ {j} : jobs'[k] = jobs[k]
    BY <1>0, <2>1, OtherRows DEF finalize_job
  <2>3. jobs'[j].status = s /\ jobs'[j].node_id = jobs[j].node_id
    BY <1>0, <2>1, ItsRow DEF finalize_job
  <2> QED
    BY <1>4, <2>1, <2>2, <2>3
    DEF RunEnds, finalize_job, disp, SlotInvariant, HasProcess, IsRemote, TypeOK
<1>5. CASE \E j \in Job : ReaderFails(j)
  BY <1>5 DEF ReaderFails, disp, SlotInvariant, HasProcess, IsRemote, TypeOK
<1>6. CASE \E j \in Job : OrphanExits(j)
  BY <1>6 DEF OrphanExits, disp, SlotInvariant, HasProcess, IsRemote, TypeOK
<1>7. CASE StartIsOver
  BY <1>7 DEF StartIsOver, SlotInvariant, HasProcess, IsRemote, TypeOK
<1> QED
  BY <1>1, <1>2, <1>3, <1>4, <1>5, <1>6, <1>7 DEF RunStep

\* A finish that is not this machine's own run takes nothing from the slot.
LEMMA SlotFinalize ==
  ASSUME TypeOK, SlotInvariant, NEW j \in Job, NEW s \in Terminal,
         IsRemote(j), finalize_job(j, s), UNCHANGED <<starting, spawn_failed, proc>>,
         loop' = "sweeping" => \A e \in todo' : e[1] \in Job /\ IsRemote(e[1])
  PROVE  SlotInvariant'
<1>0. jobs \in Table
  BY DEF TypeOK, Table
<1>1. \A k \in Job \ {j} : jobs'[k] = jobs[k]
  BY <1>0, OtherRows DEF finalize_job
<1>2. jobs'[j].status = s /\ jobs'[j].node_id = jobs[j].node_id
  BY <1>0, ItsRow DEF finalize_job
<1> QED
  BY <1>1, <1>2 DEF finalize_job, SlotInvariant, HasProcess, IsRemote, TypeOK

LEMMA SlotSweep ==
  ASSUME TypeOK, SlotInvariant, UNCHANGED <<starting, spawn_failed, proc>>,
         NEW list \in SUBSET (Job \X {"queued", "running"}),
         \A e \in list : IsRemote(e[1]), sweep(list)
  PROVE  SlotInvariant'
<1>1. CASE list = {}
  BY <1>1 DEF sweep, SlotInvariant, HasProcess, IsRemote
<1>2. CASE list # {}
  <2>1. PICK e \in list : /\ finalize_job(e[1], "failed")
                          /\ loop' = "sweeping" /\ todo' = list \ {e}
    BY <1>2 DEF sweep
  <2>2. e[1] \in Job /\ IsRemote(e[1])
    OBVIOUS
  <2>3. \A x \in todo' : x[1] \in Job /\ IsRemote(x[1])
    BY <2>1
  <2> QED
    BY <2>1, <2>2, <2>3, SlotFinalize
<1> QED
  BY <1>1, <1>2

LEMMA SlotLoop ==
  ASSUME TypeOK, SlotInvariant, LoopStep
  PROVE  SlotInvariant'
<1>0. jobs \in Table
  BY DEF TypeOK, Table
<1>1. CASE SchedulerTick
  <2>1. online' \in SUBSET Node
    BY <1>1, QueueManagerAssumption DEF SchedulerTick, TypeOK
  <2>2. PICK a \in Ticks(jobs, online') : jobs' = assign_all(jobs, a)
    BY <1>1 DEF SchedulerTick
  <2>3. \A k \in Job : /\ jobs'[k].status = jobs[k].status
                       /\ \/ jobs'[k].node_id = jobs[k].node_id
                          \/ jobs[k].status = "queued" /\ jobs[k].node_id = NoNode
    BY <1>0, <2>1, <2>2, TickRow
  <2>4. UNCHANGED <<starting, spawn_failed, running, proc>> /\ loop' = "sweep"
    BY <1>1 DEF SchedulerTick, local
  <2> QED
    BY <2>3, <2>4, JobTableAssumption
    DEF SlotInvariant, HasProcess, IsRemote, Remote, TypeOK
<1>2. CASE SweepStaleRemoteJobs
  <2>0. UNCHANGED <<starting, spawn_failed, proc>>
    BY <1>2 DEF SweepStaleRemoteJobs
  <2>1. CASE loop = "sweep"
    <3> DEFINE list == {j \in get_running_jobs_with_stale_node(jobs, nodes \ online) :
                          jobs[j].node_id # Local} \X {"running"}
    <3>1. sweep(list)
      BY <1>2, <2>1 DEF SweepStaleRemoteJobs
    <3>2. list \in SUBSET (Job \X {"queued", "running"})
      BY DEF get_running_jobs_with_stale_node, WithStatus
    <3>3. \A e \in list : IsRemote(e[1])
      BY DEF get_running_jobs_with_stale_node, IsRemote, Remote, TypeOK
    <3> QED
      BY <2>0, <3>1, <3>2, <3>3, SlotSweep
  <2>2. CASE loop = "sweeping"
    <3>1. sweep(todo)
      BY <1>2, <2>2 DEF SweepStaleRemoteJobs
    <3>2. todo \in SUBSET (Job \X {"queued", "running"})
      BY DEF TypeOK
    <3>3. \A e \in todo : IsRemote(e[1])
      BY <2>2 DEF SlotInvariant
    <3> QED
      BY <2>0, <3>1, <3>2, <3>3, SlotSweep
  <2> QED
    BY <1>2, <2>1, <2>2 DEF SweepStaleRemoteJobs
<1>3. CASE EnforceScheduledStops
  <2>1. PICK list \in SUBSET (Job \X {"queued", "running"}) : enforce(list)
    BY <1>3 DEF EnforceScheduledStops, TypeOK, get_jobs_past_scheduled_stop
  <2>2. CASE list = {}
    BY <2>1, <2>2 DEF enforce, local, SlotInvariant, HasProcess, IsRemote
  <2>3. CASE list # {}
    <3>1. PICK e \in list :
            /\ IF e[2] = "queued"
               THEN jobs' = cancel_queued_job(jobs, e[1]) /\ UNCHANGED local
               ELSE stop_running_job(e[1])
            /\ loop' = "stopping"
      BY <2>1, <2>3 DEF enforce
    <3>2. e[1] \in Job
      OBVIOUS
    <3>3. CASE e[2] = "queued"
      BY <1>0, <3>1, <3>2, <3>3, CancelRow
      DEF local, SlotInvariant, SameRow, HasProcess, IsRemote, TypeOK
    <3>4. CASE e[2] # "queued"
      <4>1. \A k \in Job : SameRow(jobs, jobs', k)
        BY <1>0, <3>1, <3>2, <3>4, AnyRow DEF stop_running_job, SameRow
      <4> QED
        BY <3>1, <3>4, <4>1, SlotFrame DEF stop_running_job
    <3> QED
      BY <3>3, <3>4
  <2> QED
    BY <2>2, <2>3
<1>4. CASE DispatchNext
  <2>1. ASSUME NEW j \in Job, IsNextQueuedJob(jobs, Local, j), start_job_begins(j)
        PROVE  SlotInvariant'
    <3>1. jobs[j].status = "queued"
      BY <2>1 DEF IsNextQueuedJob, IsHeadOf, QueuedOn, Queued, WithStatus
    <3> QED
      BY <1>4, <2>1, <3>1 DEF DispatchNext, start_job_begins, Busy, SlotInvariant,
         HasProcess, IsRemote
  <2>2. CASE UNCHANGED <<jobs, local>>
    BY <1>4, <2>2 DEF DispatchNext, local, SlotInvariant, HasProcess, IsRemote
  <2> QED
    BY <1>4, <2>1, <2>2 DEF DispatchNext
<1> QED
  BY <1>1, <1>2, <1>3, <1>4 DEF LoopStep

LEMMA SlotRestart ==
  ASSUME TypeOK, SlotInvariant, Restart
  PROVE  SlotInvariant'
<1>0. jobs \in Table
  BY DEF TypeOK, Table
<1>1. \A k \in Job : /\ jobs'[k].node_id = jobs[k].node_id
                     /\ jobs'[k].status = "absent" => jobs[k].status = "absent"
  <2>1. CASE jobs' = jobs
    BY <2>1
  <2>2. CASE \E j \in Job : jobs' = finish_job(jobs, j, "failed")
    <3>1. PICK j \in Job : jobs' = finish_job(jobs, j, "failed")
      BY <2>2
    <3> QED
      BY <1>0, <3>1, OtherRows, ItsRow
  <2> QED
    BY <2>1, <2>2 DEF Restart, recover_stale_running_job, get_running_jobs, WithStatus
<1>2. starting' = NoJob /\ loop' = "tick" /\ proc' = [k \in Job |-> "none"]
  BY DEF Restart
<1>3. \A k \in Job : ~HasProcess(k)'
  BY <1>2 DEF HasProcess
<1>4. (loop = "sweeping" => \A e \in todo : IsRemote(e[1]))'
  BY <1>2
<1>5. (\A k \in Job : jobs[k].status = "absent" => jobs[k].node_id = NoNode)'
  <2>1. \A k \in Job : jobs[k].status = "absent" => jobs[k].node_id = NoNode
    BY DEF SlotInvariant
  <2> QED
    BY <1>1, <2>1
<1> QED
  BY <1>2, <1>3, <1>4, <1>5 DEF SlotInvariant

LEMMA SlotAgent ==
  ASSUME TypeOK, SlotInvariant, AgentStep
  PROVE  SlotInvariant'
<1>0. jobs \in Table
  BY DEF TypeOK, Table
<1>1. CASE \E n \in Remote : Register(n) \/ Heartbeat(n) \/ HeartbeatExpires(n)
  BY <1>1 DEF Register, Heartbeat, HeartbeatExpires, local, disp, SlotInvariant,
     HasProcess, IsRemote
<1>2. ASSUME NEW j \in Job, AgentStart(j) PROVE SlotInvariant'
  <2>1. \A k \in Job \ {j} : jobs'[k] = jobs[k]
    BY <1>0, <1>2, OtherRows DEF AgentStart
  <2>2. jobs'[j].status = "running" /\ jobs'[j].node_id = jobs[j].node_id
    BY <1>0, <1>2, ItsRow DEF AgentStart
  <2> QED
    BY <1>2, <2>1, <2>2
    DEF AgentStart, local, disp, SlotInvariant, HasProcess, IsRemote, TypeOK
<1>3. ASSUME NEW j \in Job, NEW s \in Terminal, AgentFinish(j, s) PROVE SlotInvariant'
  <2>1. loop' = "sweeping" => \A e \in todo' : e[1] \in Job /\ IsRemote(e[1])
    BY <1>3 DEF AgentFinish, disp, SlotInvariant, TypeOK
  <2> QED
    BY <1>3, <2>1, SlotFinalize DEF AgentFinish, IsRemote
<1> QED
  BY <1>1, <1>2, <1>3 DEF AgentStep

LEMMA SlotStep ==
  ASSUME TypeOK, SlotInvariant, [Next]_vars
  PROVE  SlotInvariant'
<1>1. ASSUME NEW j \in Job, DeadlinePasses(j) PROVE SlotInvariant'
  <2>1. \A k \in Job : SameRow(jobs, jobs', k)
    BY <1>1 DEF DeadlinePasses, SameRow, TypeOK, Row
  <2> QED
    BY <1>1, <2>1, SlotFrame DEF DeadlinePasses, local, disp
<1>2. CASE UNCHANGED vars
  BY <1>2 DEF vars, local, disp, SlotInvariant, HasProcess, IsRemote
<1> QED
  BY <1>1, <1>2, SlotOperator, SlotRun, SlotLoop, SlotRestart, SlotAgent DEF Next

\* The slot that _running and _starting guard holds one local run at a time.
THEOREM SlotCorrect == Spec => []SlotInvariant
<1>1. Init => SlotInvariant
  BY DEF Init, EmptyTable, NoRow, SlotInvariant, HasProcess
<1>2. TypeOK /\ SlotInvariant /\ [Next]_vars => SlotInvariant'
  BY SlotStep
<1> QED
  BY <1>1, <1>2, TypeCorrect, PTL DEF Spec

\* Never two FDS processes of this service, nor a start while there is one,
\* other than of a job that was given to another node.
THEOREM OneLocalRunHolds == Spec => []OneLocalRun
<1>1. SlotInvariant => OneLocalRun
  BY QueueManagerAssumption DEF SlotInvariant, OneLocalRun, HasProcess, IsRemote
<1> QED
  BY <1>1, SlotCorrect, PTL

-----------------------------------------------------------------------------
(* Outcomes *)

\* j gets an outcome that replaces an earlier one.
Rewrites(j) == jobs[j].status \in Terminal /\ jobs'[j].status # jobs[j].status

LEMMA OutcomeFinalize ==
  ASSUME TypeOK, NEW j \in Job, NEW s \in Terminal, finalize_job(j, s),
         NEW k \in Job, Rewrites(k)
  PROVE  k = j /\ jobs'[k].status = s
<1>0. jobs \in Table
  BY DEF TypeOK, Table
<1>1. k # j => jobs'[k] = jobs[k]
  BY <1>0, OtherRows DEF finalize_job
<1>2. jobs'[j].status = s
  BY <1>0, ItsRow DEF finalize_job
<1> QED
  BY <1>1, <1>2 DEF Rewrites

LEMMA OutcomeSweep ==
  ASSUME TypeOK, NEW list \in SUBSET (Job \X {"queued", "running"}), sweep(list),
         NEW k \in Job, Rewrites(k)
  PROVE  (\E e \in list : e[1] = k) /\ jobs'[k].status = "failed"
<1>1. CASE list = {}
  BY <1>1 DEF sweep, Rewrites
<1>2. CASE list # {}
  <2>1. PICK e \in list : finalize_job(e[1], "failed")
    BY <1>2 DEF sweep
  <2>2. e[1] \in Job
    OBVIOUS
  <2> QED
    BY <2>1, <2>2, OutcomeFinalize
<1> QED
  BY <1>1, <1>2

\* What a step of the controller itself may replace: the outcome of a job whose
\* start is under way, of one that was given to another node while it was started
\* here, and of one on the list of the sweep.
StartRewrites(k) == k = starting /\ (IsRemote(k) \/ jobs[k].status = "cancelled")
RunRewrites(k)   == HasProcess(k) /\ IsRemote(k)
SweepRewrites(k) ==
  /\ loop = "sweeping" /\ IsRemote(k)
  /\ (\E e \in todo : e[1] = k) /\ jobs'[k].status = "failed"

LEMMA ControllerRewrites ==
  ASSUME TypeOK, SlotInvariant, NEW k \in Job, Rewrites(k),
         \/ OperatorStep \/ (\E j \in Job : DeadlinePasses(j)) \/ RunStep \/ LoopStep \/ Restart
  PROVE  StartRewrites(k) \/ RunRewrites(k) \/ SweepRewrites(k)
<1>0. jobs \in Table
  BY DEF TypeOK, Table
<1>1. CASE OperatorStep
  <2>1. ASSUME NEW j \in Job, NEW d \in Deadline, Enqueue(j, d) PROVE FALSE
    BY <1>0, <2>1, OtherRows DEF Enqueue, Rewrites
  <2>2. ASSUME NEW j \in Job, Cancel(j) PROVE FALSE
    BY <1>0, <2>2, CancelRow DEF Cancel, SameRow, Rewrites
  <2>3. ASSUME SameRow(jobs, jobs', k) PROVE FALSE
    BY <2>3 DEF SameRow, Rewrites
  <2>4. SameRow(jobs, jobs, k)
    BY DEF SameRow
  <2> QED
    BY <1>0, <1>1, <2>1, <2>2, <2>3, <2>4, AnyRow
    DEF OperatorStep, ArchiveFinished, Reorder, StopRunningJob, stop_running_job,
        StartJobManually, start_job_begins, SetAutoAdvance, UpdateDeadline
<1>2. ASSUME NEW j \in Job, DeadlinePasses(j) PROVE FALSE
  BY <1>2 DEF DeadlinePasses, Rewrites, TypeOK, Row
<1>3. CASE RunStep
  <2>0. k = starting /\ ~spawn_failed => IsRemote(k) \/ jobs[k].status = "cancelled"
    BY QueueManagerAssumption DEF SlotInvariant, Rewrites
  <2>1. ASSUME SpawnReturns PROVE k = starting /\ ~spawn_failed
    BY <1>0, <2>1, OtherRows DEF SpawnReturns, Rewrites, TypeOK
  <2>2. ASSUME SpawnRaises PROVE k = starting /\ ~spawn_failed
    BY <1>0, <2>2, OtherRows DEF SpawnRaises, Rewrites, TypeOK
  <2>3. ASSUME NEW j \in Job, RunEnds(j) PROVE RunRewrites(k)
    <3>1. PICK s \in Terminal : finalize_job(j, s)
      BY <2>3 DEF RunEnds, Outcomes
    <3>2. HasProcess(j) /\ (IsRemote(j) \/ jobs[j].status = "running")
      BY <2>3 DEF RunEnds, SlotInvariant, HasProcess
    <3>3. k = j
      BY <3>1, OutcomeFinalize
    <3> QED
      BY <3>2, <3>3 DEF Rewrites, RunRewrites
  <2>4. ASSUME NEW j \in Job, ProcessExits(j) \/ ReaderFails(j) \/ OrphanExits(j) \/ StartIsOver
        PROVE  FALSE
    BY <2>4 DEF ProcessExits, ReaderFails, OrphanExits, StartIsOver, Rewrites
  <2> QED
    BY <1>3, <2>0, <2>1, <2>2, <2>3, <2>4 DEF RunStep, StartRewrites
<1>4. CASE LoopStep
  <2>1. ASSUME SchedulerTick PROVE FALSE
    <3>1. online' \in SUBSET Node
      BY <2>1, QueueManagerAssumption DEF SchedulerTick, TypeOK
    <3> QED
      BY <1>0, <2>1, <3>1, TickRow DEF SchedulerTick, Rewrites
  <2>2. ASSUME SweepStaleRemoteJobs PROVE SweepRewrites(k)
    <3>1. CASE loop = "sweep"
      <4> DEFINE list == {j \in get_running_jobs_with_stale_node(jobs, nodes \ online) :
                            jobs[j].node_id # Local} \X {"running"}
      <4>1. sweep(list)
        BY <2>2, <3>1 DEF SweepStaleRemoteJobs
      <4>2. list \in SUBSET (Job \X {"queued", "running"})
        BY DEF get_running_jobs_with_stale_node, WithStatus
      <4>3. PICK e \in list : e[1] = k
        BY <4>1, <4>2, OutcomeSweep
      <4> QED
        BY <4>3 DEF get_running_jobs_with_stale_node, WithStatus, Rewrites
    <3>2. CASE loop = "sweeping"
      <4>1. sweep(todo)
        BY <2>2, <3>2 DEF SweepStaleRemoteJobs
      <4>2. todo \in SUBSET (Job \X {"queued", "running"})
        BY DEF TypeOK
      <4>3. \A e \in todo : IsRemote(e[1])
        BY <3>2 DEF SlotInvariant
      <4> QED
        BY <3>2, <4>1, <4>2, <4>3, OutcomeSweep DEF SweepRewrites
    <3> QED
      BY <2>2, <3>1, <3>2 DEF SweepStaleRemoteJobs
  <2>3. ASSUME EnforceScheduledStops PROVE FALSE
    <3>1. PICK list \in SUBSET (Job \X {"queued", "running"}) : enforce(list)
      BY <2>3 DEF EnforceScheduledStops, TypeOK, get_jobs_past_scheduled_stop
    <3>2. list # {}
      BY <3>1 DEF enforce, Rewrites
    <3>3. PICK e \in list : \/ jobs' = cancel_queued_job(jobs, e[1])
                           \/ stop_running_job(e[1])
      BY <3>1, <3>2 DEF enforce
    <3>4. e[1] \in Job
      OBVIOUS
    <3>5. CASE jobs' = cancel_queued_job(jobs, e[1])
      BY <1>0, <3>4, <3>5, CancelRow DEF SameRow, Rewrites
    <3>6. CASE stop_running_job(e[1])
      BY <1>0, <3>4, <3>6, AnyRow DEF stop_running_job, SameRow, Rewrites
    <3> QED
      BY <3>3, <3>5, <3>6
  <2>4. ASSUME DispatchNext PROVE FALSE
    BY <2>4 DEF DispatchNext, start_job_begins, Rewrites
  <2> QED
    BY <1>4, <2>1, <2>2, <2>3, <2>4 DEF LoopStep
<1>5. ASSUME Restart PROVE FALSE
  <2>1. CASE jobs' = jobs
    BY <2>1 DEF Rewrites
  <2>2. CASE \E j \in Job : jobs[j].status = "running" /\ jobs' = finish_job(jobs, j, "failed")
    BY <1>0, <2>2, OtherRows DEF Rewrites
  <2> QED
    BY <1>5, <2>1, <2>2 DEF Restart, recover_stale_running_job, get_running_jobs, WithStatus
<1> QED
  BY <1>1, <1>2, <1>3, <1>4, <1>5

LEMMA OutcomeStep ==
  ASSUME TypeOK, SlotInvariant, Next, NEW k \in Job, Rewrites(k)
  PROVE  IsRemote(k) \/ (k = starting /\ jobs[k].status = "cancelled")
<1>0. jobs \in Table
  BY DEF TypeOK, Table
<1>1. CASE AgentStep
  <2>1. ASSUME NEW j \in Job, AgentStart(j) PROVE IsRemote(k)
    BY <1>0, <2>1, OtherRows DEF AgentStart, IsRemote, Rewrites
  <2>2. ASSUME NEW j \in Job, NEW s \in Terminal, AgentFinish(j, s) PROVE IsRemote(k)
    BY <2>2, OutcomeFinalize DEF AgentFinish, IsRemote
  <2>3. ASSUME NEW n \in Remote, Register(n) \/ Heartbeat(n) \/ HeartbeatExpires(n)
        PROVE  FALSE
    BY <2>3 DEF Register, Heartbeat, HeartbeatExpires, Rewrites
  <2> QED
    BY <1>1, <2>1, <2>2, <2>3 DEF AgentStep
<1>2. CASE ~AgentStep
  BY <1>2, ControllerRewrites DEF Next, StartRewrites, RunRewrites, SweepRewrites
<1> QED
  BY <1>1, <1>2

\* No step replaces a recorded outcome, other than the start that was under
\* way when it was recorded, or what becomes of a job of another node.
THEOREM OutcomeIsFinalHolds == Spec => OutcomeIsFinal
<1>1. TypeOK /\ SlotInvariant /\ [Next]_vars =>
        [\A j \in Job : jobs[j].status \in Terminal /\ jobs'[j].status # jobs[j].status
                          => IsRemote(j) \/ (j = starting /\ jobs[j].status = "cancelled")]_vars
  BY OutcomeStep DEF Rewrites
<1> QED
  BY <1>1, TypeCorrect, SlotCorrect, PTL DEF Spec, OutcomeIsFinal

-----------------------------------------------------------------------------
(* The order of the queue *)

\* Row k keeps its place, or it is not queued and holds none.
KeepsOrLeaves(t, u, k) ==
  \/ u[k].status = t[k].status /\ u[k].queue_position = t[k].queue_position
  \/ u[k].status # "queued" /\ u[k].queue_position = NoPosition

LEMMA QueueFrame ==
  ASSUME QueuePositions, \A k \in Job : KeepsOrLeaves(jobs, jobs', k)
  PROVE  QueuePositions'
BY DEF QueuePositions, KeepsOrLeaves, Queued, WithStatus

LEMMA PlaceOfRow ==
  ASSUME NEW t \in Table, NEW j \in Job, NEW k \in Job
  PROVE  /\ \A d \in Deadline : KeepsOrLeaves(t, set_scheduled_stop(t, j, d), k)
         /\ KeepsOrLeaves(t, start_job(t, j), k)
         /\ \A s \in Terminal : KeepsOrLeaves(t, finish_job(t, j, s), k)
         /\ KeepsOrLeaves(t, cancel_queued_job(t, j), k)
         /\ KeepsOrLeaves(t, set_stop_requested(t, j), k)
         /\ KeepsOrLeaves(t, set_start_requested(t, j), k)
         /\ KeepsOrLeaves(t, archive_finished_jobs(t), k)
<1>1. \A d \in Deadline : KeepsOrLeaves(t, set_scheduled_stop(t, j, d), k)
  BY DEF Table, Row, KeepsOrLeaves, set_scheduled_stop
<1>2. KeepsOrLeaves(t, start_job(t, j), k)
  BY DEF Table, Row, KeepsOrLeaves, start_job
<1>3. ASSUME NEW s \in Terminal PROVE KeepsOrLeaves(t, finish_job(t, j, s), k)
  BY <1>3 DEF Table, Row, KeepsOrLeaves, finish_job
<1>4. KeepsOrLeaves(t, cancel_queued_job(t, j), k)
  BY DEF Table, Row, KeepsOrLeaves, cancel_queued_job
<1>5. KeepsOrLeaves(t, set_stop_requested(t, j), k)
  BY DEF Table, Row, KeepsOrLeaves, set_stop_requested
<1>6. KeepsOrLeaves(t, set_start_requested(t, j), k)
  BY DEF Table, Row, KeepsOrLeaves, set_start_requested
<1>7. KeepsOrLeaves(t, archive_finished_jobs(t), k)
  BY DEF Table, Row, KeepsOrLeaves, archive_finished_jobs
<1> QED
  BY <1>1, <1>2, <1>3, <1>4, <1>5, <1>6, <1>7

LEMMA QueueEnqueue ==
  ASSUME TypeOK, QueuePositions, NEW j \in Job, NEW d \in Deadline, Enqueue(j, d)
  PROVE  QueuePositions'
<1>0. jobs \in Table
  BY DEF TypeOK, Table
<1>1. PICK p \in Positions : IsNextPosition(jobs, p) /\ jobs' = create_job(jobs, j, p, d)
  BY DEF Enqueue
<1>2. \A k \in Job \ {j} : jobs'[k] = jobs[k]
  BY <1>0, <1>1, OtherRows
<1>3. jobs'[j].status = "queued" /\ jobs'[j].queue_position = p
  BY <1>0, <1>1 DEF Table, NoRow, create_job
<1>4. p \in Nat
  BY JobTableAssumption
<1>5. \A k \in Queued(jobs) : jobs[k].queue_position < p /\ jobs[k].queue_position \in Int
  <2>1. TAKE k \in Queued(jobs)
  <2>2. jobs[k].queue_position < p
    BY <1>1 DEF IsNextPosition
  <2>3. k \in Job
    BY DEF Queued, WithStatus
  <2>4. jobs[k].queue_position \in Positions \union {-1}
    BY <1>0, <2>3 DEF Table, Row
  <2>5. jobs[k].queue_position \in Int
    <3>1. \A q \in Positions \union {-1} : q \in Int
      BY JobTableAssumption
    <3> QED
      BY <2>4, <3>1
  <2> QED
    BY <2>2, <2>5
<1> QED
  BY <1>2, <1>3, <1>4, <1>5 DEF QueuePositions, Queued, WithStatus

LEMMA QueueReorder ==
  ASSUME TypeOK, QueuePositions, Reorder
  PROVE  QueuePositions'
<1>1. PICK f \in Orders(jobs) : jobs' = reorder_queue(jobs, f)
  BY DEF Reorder
<1>2. \A k \in Queued(jobs) : /\ jobs'[k].status = "queued"
                              /\ jobs'[k].queue_position = f[k]
                              /\ f[k] \in Positions
  BY <1>1 DEF reorder_queue, Orders, Queued, WithStatus, TypeOK, Row
<1>3. \A k \in Job \ Queued(jobs) : jobs'[k] = jobs[k]
  BY <1>1 DEF reorder_queue
<1>4. \A k, l \in Queued(jobs) : k # l => f[k] # f[l]
  BY DEF Orders
<1>5. NoPosition \notin Positions
  BY JobTableAssumption
<1>6. Queued(jobs') = Queued(jobs)
  BY <1>2, <1>3 DEF Queued, WithStatus
<1> QED
  BY <1>2, <1>3, <1>4, <1>5, <1>6 DEF QueuePositions, Queued, WithStatus

LEMMA QueueStep ==
  ASSUME TypeOK, QueuePositions, [Next]_vars
  PROVE  QueuePositions'
<1>0. jobs \in Table
  BY DEF TypeOK, Table
<1> DEFINE Kept == \A k \in Job : KeepsOrLeaves(jobs, jobs', k)
<1>1. jobs' = jobs => Kept
  BY DEF KeepsOrLeaves
<1>2. ASSUME NEW j \in Job, NEW s \in Terminal, finalize_job(j, s) PROVE Kept
  BY <1>0, <1>2, PlaceOfRow DEF finalize_job
<1>3. ASSUME NEW j \in Job, stop_running_job(j) PROVE Kept
  BY <1>0, <1>1, <1>3, PlaceOfRow DEF stop_running_job
<1>4. CASE OperatorStep
  <2>1. ASSUME ~Reorder, \A j \in Job, d \in Deadline : ~Enqueue(j, d) PROVE Kept
    BY <1>0, <1>1, <1>3, <1>4, <2>1, PlaceOfRow
    DEF OperatorStep, ArchiveFinished, Cancel, StopRunningJob, StartJobManually,
        start_job_begins, SetAutoAdvance, UpdateDeadline
  <2> QED
    BY <2>1, QueueEnqueue, QueueReorder, QueueFrame
<1>5. ASSUME NEW j \in Job, DeadlinePasses(j) PROVE Kept
  BY <1>5 DEF DeadlinePasses, KeepsOrLeaves, TypeOK, Row
<1>6. CASE RunStep
  <2>1. ASSUME SpawnReturns PROVE Kept
    BY <1>0, <2>1, PlaceOfRow DEF SpawnReturns, TypeOK
  <2>2. ASSUME SpawnRaises PROVE Kept
    BY <1>0, <2>2, PlaceOfRow DEF SpawnRaises, TypeOK
  <2>3. ASSUME NEW j \in Job, RunEnds(j) PROVE Kept
    BY <1>2, <2>3 DEF RunEnds, Outcomes
  <2> QED
    BY <1>1, <1>6, <2>1, <2>2, <2>3, QueueFrame
    DEF RunStep, StartIsOver, ProcessExits, ReaderFails, OrphanExits
<1>7. CASE LoopStep
  <2>1. ASSUME SchedulerTick PROVE Kept
    <3>1. PICK a \in Ticks(jobs, online') : jobs' = assign_all(jobs, a)
      BY <2>1 DEF SchedulerTick
    <3> QED
      BY <1>0, <3>1 DEF Table, Row, assign_all, assign_job_to_node, KeepsOrLeaves
  <2>2. ASSUME NEW list \in SUBSET (Job \X {"queued", "running"}), sweep(list) PROVE Kept
    <3>1. CASE list = {}
      BY <1>1, <2>2, <3>1 DEF sweep
    <3>2. CASE list # {}
      <4>1. PICK e \in list : finalize_job(e[1], "failed")
        BY <2>2, <3>2 DEF sweep
      <4> QED
        BY <1>2, <4>1
    <3> QED
      BY <3>1, <3>2
  <2>3. ASSUME NEW list \in SUBSET (Job \X {"queued", "running"}), enforce(list) PROVE Kept
    <3>1. CASE list = {}
      BY <1>1, <2>3, <3>1 DEF enforce
    <3>2. CASE list # {}
      <4>1. PICK e \in list : \/ jobs' = cancel_queued_job(jobs, e[1])
                             \/ stop_running_job(e[1])
        BY <2>3, <3>2 DEF enforce
      <4>2. e[1] \in Job
        OBVIOUS
      <4>3. CASE jobs' = cancel_queued_job(jobs, e[1])
        BY <1>0, <4>2, <4>3, PlaceOfRow
      <4> QED
        BY <1>3, <4>1, <4>2, <4>3
    <3> QED
      BY <3>1, <3>2
  <2>4. ASSUME SweepStaleRemoteJobs PROVE Kept
    <3>1. PICK list \in SUBSET (Job \X {"queued", "running"}) : sweep(list)
      BY <2>4 DEF SweepStaleRemoteJobs, TypeOK, get_running_jobs_with_stale_node, WithStatus
    <3> QED
      BY <2>2, <3>1
  <2>5. ASSUME EnforceScheduledStops PROVE Kept
    <3>1. PICK list \in SUBSET (Job \X {"queued", "running"}) : enforce(list)
      BY <2>5 DEF EnforceScheduledStops, TypeOK, get_jobs_past_scheduled_stop
    <3> QED
      BY <2>3, <3>1
  <2>6. ASSUME DispatchNext PROVE Kept
    BY <1>1, <2>6 DEF DispatchNext, start_job_begins
  <2> QED
    BY <1>7, <2>1, <2>4, <2>5, <2>6, QueueFrame DEF LoopStep
<1>8. CASE Restart
  <2>1. \/ jobs' = jobs
        \/ \E j \in Job : jobs' = finish_job(jobs, j, "failed")
    BY <1>8 DEF Restart, recover_stale_running_job, get_running_jobs, WithStatus
  <2>2. Kept
    BY <1>0, <1>1, <2>1, PlaceOfRow
  <2> QED
    BY <2>2, QueueFrame
<1>9. CASE AgentStep
  <2>1. ASSUME NEW j \in Job, AgentStart(j) PROVE Kept
    BY <1>0, <2>1, PlaceOfRow DEF AgentStart
  <2>2. ASSUME NEW j \in Job, NEW s \in Terminal, AgentFinish(j, s) PROVE Kept
    BY <1>2, <2>2 DEF AgentFinish
  <2> QED
    BY <1>1, <1>9, <2>1, <2>2, QueueFrame
    DEF AgentStep, Register, Heartbeat, HeartbeatExpires
<1>10. CASE UNCHANGED vars
  BY <1>1, <1>10, QueueFrame DEF vars
<1> QED
  BY <1>4, <1>5, <1>6, <1>7, <1>8, <1>9, <1>10, QueueFrame DEF Next

\* The queued rows are totally ordered by queue_position, and only they hold one.
THEOREM QueueOrdered == Spec => []QueuePositions
<1>1. Init => QueuePositions
  <2> HIDE DEF NoPosition
  <2>1. Init => \A j \in Job : jobs[j] = NoRow
    BY DEF Init, EmptyTable
  <2>2. NoRow.status = "absent" /\ NoRow.queue_position = NoPosition
    BY DEF NoRow
  <2> QED
    BY <2>1, <2>2 DEF QueuePositions, Queued, WithStatus
<1>2. TypeOK /\ QueuePositions /\ [Next]_vars => QueuePositions'
  BY QueueStep
<1> QED
  BY <1>1, <1>2, TypeCorrect, PTL DEF Spec

-----------------------------------------------------------------------------
(* On a machine of its own, with no other node in the table, QueueManager   *)
(* implements LocalSlot.                                                    *)

\* A start that has failed is still the start in progress.
FailureHasJob == spawn_failed => starting # NoJob

\* What the mapping needs of a state.
SlotIsOurs == TypeOK /\ SlotInvariant /\ FailureHasJob

-----------------------------------------------------------------------------
(* The invariant FailureHasJob *)

\* No step but a failed spawn sets spawn_failed, and only the end of that
\* start clears _starting, and both at once.
LEMMA FailureStep ==
  ASSUME TypeOK, FailureHasJob, [Next]_vars
  PROVE  FailureHasJob'
<1>1. ASSUME NEW j \in Job, start_job_begins(j) PROVE FailureHasJob'
  BY <1>1, QueueManagerAssumption DEF start_job_begins, FailureHasJob
<1>2. CASE UNCHANGED <<starting, spawn_failed>>
  BY <1>2 DEF FailureHasJob
<1>3. CASE OperatorStep
  BY <1>1, <1>2, <1>3 DEF OperatorStep, Enqueue, ArchiveFinished, Reorder, Cancel,
     StopRunningJob, stop_running_job, StartJobManually, SetAutoAdvance,
     UpdateDeadline, local
<1>4. ASSUME NEW j \in Job, DeadlinePasses(j) PROVE FailureHasJob'
  BY <1>2, <1>4 DEF DeadlinePasses, local
<1>5. CASE RunStep
  BY <1>5 DEF RunStep, SpawnReturns, SpawnRaises, StartIsOver, ProcessExits, RunEnds,
     ReaderFails, OrphanExits, FailureHasJob
<1>6. CASE LoopStep
  <2>1. CASE SchedulerTick
    BY <1>2, <2>1 DEF SchedulerTick, local
  <2>2. CASE SweepStaleRemoteJobs
    BY <1>2, <2>2 DEF SweepStaleRemoteJobs
  <2>3. CASE EnforceScheduledStops
    BY <1>2, <2>3 DEF EnforceScheduledStops, enforce, stop_running_job, local
  <2>4. CASE DispatchNext
    BY <1>1, <1>2, <2>4 DEF DispatchNext, local
  <2> QED
    BY <1>6, <2>1, <2>2, <2>3, <2>4 DEF LoopStep
<1>7. CASE Restart
  BY <1>7 DEF Restart, FailureHasJob
<1>8. CASE AgentStep
  BY <1>2, <1>8 DEF AgentStep, Register, Heartbeat, HeartbeatExpires, AgentStart,
     AgentFinish, local
<1>9. CASE UNCHANGED vars
  BY <1>2, <1>9 DEF vars, local
<1> QED
  BY <1>3, <1>4, <1>5, <1>6, <1>7, <1>8, <1>9 DEF Next

-----------------------------------------------------------------------------
(* What the steps of QueueManager are to the slot *)

\* A step that leaves the slot's variables alone is a stutter.
LEMMA SlotStutters ==
  ASSUME UNCHANGED <<starting, spawn_failed, running, proc>>
  PROVE  TheSlot' = TheSlot
BY DEF TheSlot

\* _start_job takes a free slot, and no other.
LEMMA SlotBegins ==
  ASSUME SlotIsOurs, NEW j \in Job, start_job_begins(j)
  PROVE  Slot!Begin(j)
<1>1. starting = NoJob /\ running = NoJob /\ spawn_failed = FALSE
  BY DEF SlotIsOurs, TypeOK, FailureHasJob, start_job_begins, Busy
<1>2. starting' = j /\ j # NoJob /\ spawn_failed' = FALSE
  BY <1>1, QueueManagerAssumption DEF start_job_begins
<1>3. TheSlot = [phase |-> "free"]
  BY <1>1 DEF TheSlot
<1>4. TheSlot' = [phase |-> "spawning", job |-> j]
  BY <1>2 DEF TheSlot
<1> QED
  BY <1>3, <1>4 DEF Slot!Begin, Slot!IsIn

\* What becomes of the process of a job that is not tracked (it was assigned
\* elsewhere meanwhile, and finished there) is nothing to the slot.
LEMMA SlotIgnores ==
  ASSUME SlotIsOurs, NEW j \in Job, running # j, UNCHANGED <<starting, spawn_failed, running>>,
         NEW p, proc' = [proc EXCEPT ![j] = p]
  PROVE  TheSlot' = TheSlot
<1>1. running # NoJob => proc'[running] = proc[running]
  BY DEF SlotIsOurs, TypeOK
<1> QED
  BY <1>1 DEF TheSlot

\* finalize_job frees the slot of its job, and no other.
LEMMA SlotFinalizes ==
  ASSUME SlotIsOurs, NEW j \in Job, NEW s, finalize_job(j, s),
         UNCHANGED <<starting, spawn_failed, proc>>
  PROVE  Slot!SlotNext \/ TheSlot' = TheSlot
<1>1. CASE running = j
  <2>1. starting = NoJob /\ j # NoJob /\ running' = NoJob
    BY <1>1, QueueManagerAssumption DEF SlotIsOurs, SlotInvariant, finalize_job
  <2>2. TheSlot.phase # "free" /\ TheSlot' = [phase |-> "free"]
    BY <1>1, <2>1 DEF TheSlot
  <2> QED
    BY <2>2 DEF Slot!SlotNext, Slot!Ends, Slot!IsIn, Slot!IsLeft, Slot!Free
<1>2. CASE running # j
  BY <1>2, SlotStutters DEF finalize_job
<1> QED
  BY <1>1, <1>2

LEMMA SlotRunStep ==
  ASSUME SlotIsOurs, RunStep
  PROVE  Slot!SlotNext \/ TheSlot' = TheSlot
<1>1. CASE SpawnReturns
  <2>1. starting \in Job /\ starting # NoJob /\ ~spawn_failed
    BY <1>1 DEF SpawnReturns, SlotIsOurs, TypeOK
  <2>2. TheSlot = [phase |-> "spawning", job |-> starting]
    BY <2>1 DEF TheSlot
  <2>3. /\ starting' = NoJob /\ running' = starting
        /\ proc'[starting] = "alive"
    BY <1>1, <2>1 DEF SpawnReturns, SlotIsOurs, TypeOK
  <2>4. TheSlot' = [phase |-> "running", job |-> starting]
    BY <2>1, <2>3 DEF TheSlot
  <2>5. Slot!Spawned
    BY <2>2, <2>4 DEF Slot!Spawned, Slot!IsIn, Slot!Becomes
  <2> QED
    BY <2>5 DEF Slot!SlotNext, Slot!SlotStep
<1>2. CASE SpawnRaises
  <2>1. starting # NoJob /\ ~spawn_failed /\ starting' = starting /\ spawn_failed'
    BY <1>2 DEF SpawnRaises
  <2>2. TheSlot = [phase |-> "spawning", job |-> starting]
    BY <2>1 DEF TheSlot
  <2>3. TheSlot' = [phase |-> "failing", job |-> starting]
    BY <2>1 DEF TheSlot
  <2>4. Slot!SpawnFails
    BY <2>2, <2>3 DEF Slot!SpawnFails, Slot!IsIn, Slot!Becomes
  <2> QED
    BY <2>4 DEF Slot!SlotNext, Slot!SlotStep
<1>3. CASE StartIsOver
  <2>1. spawn_failed /\ starting # NoJob /\ running = NoJob
    BY <1>3 DEF StartIsOver, SlotIsOurs, FailureHasJob, SlotInvariant
  <2>2. TheSlot = [phase |-> "failing", job |-> starting]
    BY <2>1 DEF TheSlot
  <2>3. TheSlot' = [phase |-> "free"]
    BY <1>3, <2>1 DEF StartIsOver, TheSlot
  <2>4. Slot!FailureIsOver
    BY <2>2, <2>3 DEF Slot!FailureIsOver, Slot!IsIn, Slot!IsLeft, Slot!Free
  <2> QED
    BY <2>4 DEF Slot!SlotNext, Slot!SlotStep
<1>4. ASSUME NEW j \in Job, ProcessExits(j) PROVE Slot!SlotNext \/ TheSlot' = TheSlot
  <2>1. CASE running = j
    <3>1. starting = NoJob /\ j # NoJob /\ proc[j] = "alive"
      BY <1>4, <2>1, QueueManagerAssumption DEF ProcessExits, SlotIsOurs, SlotInvariant
    <3>2. starting' = NoJob /\ running' = j /\ proc'[j] = "exited"
      BY <1>4, <2>1, <3>1 DEF ProcessExits, SlotIsOurs, TypeOK
    <3>3. TheSlot = [phase |-> "running", job |-> j]
      BY <2>1, <3>1 DEF TheSlot
    <3>4. TheSlot' = [phase |-> "over", job |-> j]
      BY <3>1, <3>2 DEF TheSlot
    <3>5. Slot!Exits
      BY <3>3, <3>4 DEF Slot!Exits, Slot!IsIn, Slot!Becomes
    <3> QED
      BY <3>5 DEF Slot!SlotNext, Slot!SlotStep
  <2>2. CASE running # j
    BY <1>4, <2>2, SlotIgnores DEF ProcessExits
  <2> QED
    BY <2>1, <2>2
<1>5. ASSUME NEW j \in Job, RunEnds(j) PROVE Slot!SlotNext \/ TheSlot' = TheSlot
  <2>1. CASE running = j
    <3>1. starting = NoJob /\ j # NoJob /\ proc[j] = "exited"
      BY <1>5, <2>1, QueueManagerAssumption DEF RunEnds, SlotIsOurs, SlotInvariant
    <3>2. starting' = NoJob /\ running' = NoJob
      BY <1>5, <2>1, <3>1 DEF RunEnds, finalize_job
    <3>3. TheSlot = [phase |-> "over", job |-> j]
      BY <2>1, <3>1 DEF TheSlot
    <3>4. TheSlot' = [phase |-> "free"]
      BY <3>2 DEF TheSlot
    <3>5. Slot!IsRecorded
      BY <3>3, <3>4 DEF Slot!IsRecorded, Slot!IsIn, Slot!IsLeft, Slot!Free
    <3> QED
      BY <3>5 DEF Slot!SlotNext, Slot!SlotStep
  <2>2. CASE running # j
    <3>1. running' = running
      BY <1>5, <2>2 DEF RunEnds, finalize_job
    <3> QED
      BY <1>5, <2>2, <3>1, SlotIgnores DEF RunEnds
  <2> QED
    BY <2>1, <2>2
<1>6. ASSUME NEW j \in Job, ReaderFails(j) PROVE TheSlot' = TheSlot
  \* The row is not written and _running_job_id stays: the slot is not left.
  <2>1. CASE running = j
    <3>1. starting = NoJob /\ j # NoJob /\ proc[j] = "exited"
      BY <1>6, <2>1, QueueManagerAssumption DEF ReaderFails, SlotIsOurs, SlotInvariant
    <3>2. starting' = NoJob /\ running' = j /\ proc'[j] = "none"
      BY <1>6, <2>1, <3>1 DEF ReaderFails, SlotIsOurs, TypeOK
    <3> QED
      BY <2>1, <3>1, <3>2 DEF TheSlot
  <2>2. CASE running # j
    BY <1>6, <2>2, SlotIgnores DEF ReaderFails
  <2> QED
    BY <2>1, <2>2
<1>7. ASSUME NEW j \in Job, OrphanExits(j) PROVE TheSlot' = TheSlot
  BY <1>7, SlotStutters DEF OrphanExits
<1> QED
  BY <1>1, <1>2, <1>3, <1>4, <1>5, <1>6, <1>7 DEF RunStep

LEMMA SlotLoopStep ==
  ASSUME SlotIsOurs, LoopStep
  PROVE  Slot!SlotNext \/ TheSlot' = TheSlot
<1>1. CASE SchedulerTick
  BY <1>1, SlotStutters DEF SchedulerTick, local
<1>2. CASE SweepStaleRemoteJobs
  <2>1. PICK list \in SUBSET (Job \X {"queued", "running"}) : sweep(list)
    BY <1>2 DEF SweepStaleRemoteJobs, SlotIsOurs, TypeOK, get_running_jobs_with_stale_node,
       WithStatus
  <2>2. CASE list = {}
    BY <1>2, <2>1, <2>2, SlotStutters DEF sweep, SweepStaleRemoteJobs
  <2>3. CASE list # {}
    <3>1. PICK e \in list : finalize_job(e[1], "failed")
      BY <2>1, <2>3 DEF sweep
    <3>2. e[1] \in Job
      OBVIOUS
    <3> QED
      BY <1>2, <3>1, <3>2, SlotFinalizes DEF SweepStaleRemoteJobs
  <2> QED
    BY <2>2, <2>3
<1>3. CASE EnforceScheduledStops
  BY <1>3, SlotStutters DEF EnforceScheduledStops, enforce, stop_running_job, local
<1>4. CASE DispatchNext
  <2>1. ASSUME NEW j \in Job, start_job_begins(j) PROVE Slot!SlotNext
    BY <2>1, SlotBegins DEF Slot!SlotNext, Slot!SlotStep
  <2> QED
    BY <1>4, <2>1, SlotStutters DEF DispatchNext, local
<1> QED
  BY <1>1, <1>2, <1>3, <1>4 DEF LoopStep

LEMMA SlotOperatorStep ==
  ASSUME SlotIsOurs, OperatorStep
  PROVE  Slot!SlotNext \/ TheSlot' = TheSlot
<1>1. ASSUME NEW j \in Job, start_job_begins(j) PROVE Slot!SlotNext
  BY <1>1, SlotBegins DEF Slot!SlotNext, Slot!SlotStep
<1> QED
  BY <1>1, SlotStutters
  DEF OperatorStep, Enqueue, ArchiveFinished, Reorder, Cancel, StopRunningJob,
      stop_running_job, StartJobManually, SetAutoAdvance, UpdateDeadline, local

\* Whatever held the slot is gone after a restart.
LEMMA SlotRestartStep ==
  ASSUME Restart
  PROVE  Slot!SlotNext \/ TheSlot' = TheSlot
<1>1. TheSlot' = [phase |-> "free"]
  BY DEF Restart, TheSlot
<1>2. TheSlot = [phase |-> "free"] \/ TheSlot.phase # "free"
  BY DEF TheSlot
<1>3. CASE TheSlot.phase # "free"
  BY <1>1, <1>3 DEF Slot!SlotNext, Slot!Ends, Slot!IsIn, Slot!IsLeft, Slot!Free
<1> QED
  BY <1>1, <1>2, <1>3

LEMMA SlotNextStep ==
  ASSUME SlotIsOurs, [Next]_vars
  PROVE  [Slot!SlotNext]_TheSlot
<1>1. ASSUME NEW j \in Job, DeadlinePasses(j) PROVE TheSlot' = TheSlot
  BY <1>1, SlotStutters DEF DeadlinePasses, local
<1>2. CASE AgentStep
  <2>1. ASSUME NEW j \in Job, NEW s \in Terminal, AgentFinish(j, s)
        PROVE  Slot!SlotNext \/ TheSlot' = TheSlot
    BY <2>1, SlotFinalizes DEF AgentFinish
  <2> QED
    BY <1>2, <2>1, SlotStutters
    DEF AgentStep, Register, Heartbeat, HeartbeatExpires, AgentStart, local
<1>3. CASE UNCHANGED vars
  BY <1>3, SlotStutters DEF vars, local
<1> QED
  BY <1>1, <1>2, <1>3, SlotOperatorStep, SlotRunStep, SlotLoopStep,
     SlotRestartStep DEF Next

\* No start, stop, cancel, deadline, failure or restart, no report of an agent
\* and no sweep takes, hands on or frees the local slot in any other way than
\* LocalSlot says (_busy, _start_job, finalize_job).
THEOREM SlotImplemented == Spec => ImplementsSlot
<1>1. Init => FailureHasJob
  BY DEF Init, FailureHasJob
<1>2. TypeOK /\ FailureHasJob /\ [Next]_vars => FailureHasJob'
  BY FailureStep
<1>3. Init => Slot!SlotInit
  BY DEF Init, TheSlot, Slot!SlotInit, Slot!Free
<1>4. TypeOK /\ SlotInvariant /\ FailureHasJob /\ [Next]_vars => [Slot!SlotNext]_TheSlot
  BY SlotNextStep DEF SlotIsOurs
<1> QED
  BY <1>1, <1>2, <1>3, <1>4, TypeCorrect, SlotCorrect, PTL
  DEF Spec, ImplementsSlot, Slot!SlotSpec

-----------------------------------------------------------------------------
(* Recovery.  If no FDS process outlives the service and every task on a      *)
(* process records its end, the rows that say "running on this machine" are   *)
(* the run the service tracks: recover_stale_running_job, which closes one    *)
(* row only, then closes all there is.                                        *)

\* Row k of table t is one that get_running_job looks for.
RunsHere(t, k) == t[k].status = "running" /\ t[k].node_id = Local

Tracked == RunningRowIsTracked /\ orphans = {}

\* No row begins to run here, the slot stays, and no process is forgotten.
LEMMA TrackedFrame ==
  ASSUME Tracked, orphans' = {},
         \A k \in Job : RunsHere(jobs', k) =>
            /\ RunsHere(jobs, k)
            /\ running' = running
            /\ HasProcess(k) => HasProcess(k)'
  PROVE  Tracked'
BY DEF Tracked, RunningRowIsTracked, RunsHere, get_running_jobs, WithStatus

LEMMA TrackedRow ==
  ASSUME NEW t \in Table, NEW j \in Job, NEW k \in Job
  PROVE  /\ \A d \in Deadline : RunsHere(set_scheduled_stop(t, j, d), k) => RunsHere(t, k)
         /\ \A s \in Terminal : RunsHere(finish_job(t, j, s), k) => k # j /\ RunsHere(t, k)
         /\ RunsHere(cancel_queued_job(t, j), k) => RunsHere(t, k)
         /\ RunsHere(set_stop_requested(t, j), k) => RunsHere(t, k)
         /\ RunsHere(set_start_requested(t, j), k) => RunsHere(t, k)
         /\ RunsHere(archive_finished_jobs(t), k) => RunsHere(t, k)
         /\ \A f \in Orders(t) : RunsHere(reorder_queue(t, f), k) => RunsHere(t, k)
<1>1. \A s \in Terminal : RunsHere(finish_job(t, j, s), k) => k # j /\ RunsHere(t, k)
  BY OtherRows, ItsRow DEF RunsHere
<1>2. RunsHere(cancel_queued_job(t, j), k) => RunsHere(t, k)
  BY CancelRow DEF RunsHere, SameRow
<1> QED
  BY <1>1, <1>2, AnyRow DEF RunsHere, SameRow

\* The end of any run, whoever reports it: the slot is freed only for its own.
LEMMA TrackedFinalize ==
  ASSUME TypeOK, Tracked, NEW j \in Job, NEW s \in Terminal, finalize_job(j, s),
         orphans' = orphans,
         \A k \in Job \ {j} : proc'[k] = proc[k]
  PROVE  Tracked'
<1>1. ASSUME NEW k \in Job, RunsHere(jobs', k)
      PROVE  k # j /\ RunsHere(jobs, k)
  BY <1>1, TrackedRow DEF finalize_job, TypeOK, Table
<1>2. ASSUME NEW k \in Job, RunsHere(jobs, k), k # j
      PROVE  running' = running
  BY <1>2 DEF finalize_job, Tracked, RunningRowIsTracked, RunsHere,
     get_running_jobs, WithStatus
<1> QED
  BY <1>1, <1>2, TrackedFrame DEF Tracked, HasProcess

LEMMA TrackedStop ==
  ASSUME TypeOK, Tracked, NEW j \in Job, stop_running_job(j)
  PROVE  Tracked'
<1>1. \A k \in Job : RunsHere(jobs', k) => RunsHere(jobs, k)
  BY TrackedRow DEF stop_running_job, TypeOK, Table
<1> QED
  BY <1>1, TrackedFrame DEF stop_running_job, Tracked, HasProcess

LEMMA TrackedOperator ==
  ASSUME TypeOK, Tracked, OperatorStep
  PROVE  Tracked'
<1>0. jobs \in Table
  BY DEF TypeOK, Table
<1>1. ASSUME NEW j \in Job, NEW d \in Deadline, Enqueue(j, d) PROVE Tracked'
  <2>1. PICK p \in Positions : jobs' = create_job(jobs, j, p, d)
    BY <1>1 DEF Enqueue
  <2>2. \A k \in Job : RunsHere(jobs', k) => RunsHere(jobs, k)
    BY <1>0, <2>1, OtherRows, ItsRow DEF RunsHere
  <2> QED
    BY <1>1, <2>2, TrackedFrame DEF Enqueue, local, Tracked, HasProcess
<1>2. CASE ArchiveFinished
  <2>1. \A k \in Job : RunsHere(jobs', k) => RunsHere(jobs, k)
    BY <1>0, <1>2, TrackedRow DEF ArchiveFinished
  <2> QED
    BY <1>2, <2>1, TrackedFrame DEF ArchiveFinished, local, Tracked, HasProcess
<1>3. CASE Reorder
  <2>1. \A k \in Job : RunsHere(jobs', k) => RunsHere(jobs, k)
    BY <1>0, <1>3, TrackedRow DEF Reorder
  <2> QED
    BY <1>3, <2>1, TrackedFrame DEF Reorder, local, Tracked, HasProcess
<1>4. ASSUME NEW j \in Job, Cancel(j) PROVE Tracked'
  <2>1. \A k \in Job : RunsHere(jobs', k) => RunsHere(jobs, k)
    BY <1>0, <1>4, TrackedRow DEF Cancel
  <2> QED
    BY <1>4, <2>1, TrackedFrame DEF Cancel, local, Tracked, HasProcess
<1>5. ASSUME NEW j \in Job, StopRunningJob(j) PROVE Tracked'
  BY <1>5, TrackedStop DEF StopRunningJob
<1>6. ASSUME NEW j \in Job, StartJobManually(j) PROVE Tracked'
  <2>1. \A k \in Job : RunsHere(jobs', k) => RunsHere(jobs, k)
    BY <1>0, <1>6, TrackedRow DEF StartJobManually, start_job_begins
  <2>2. UNCHANGED <<running, proc, orphans>>
    BY <1>6 DEF StartJobManually, start_job_begins, local
  <2> QED
    BY <2>1, <2>2, TrackedFrame DEF Tracked, HasProcess
<1>7. CASE SetAutoAdvance
  BY <1>7, TrackedFrame DEF SetAutoAdvance, local, Tracked, HasProcess
<1>8. ASSUME NEW j \in Job, NEW d \in Deadline, UpdateDeadline(j, d) PROVE Tracked'
  <2>1. \A k \in Job : RunsHere(jobs', k) => RunsHere(jobs, k)
    BY <1>0, <1>8, TrackedRow DEF UpdateDeadline
  <2> QED
    BY <1>8, <2>1, TrackedFrame DEF UpdateDeadline, local, Tracked, HasProcess
<1> QED
  BY <1>1, <1>2, <1>3, <1>4, <1>5, <1>6, <1>7, <1>8 DEF OperatorStep

\* A start finds no row running here, for it finds no run in the slot.
LEMMA TrackedRun ==
  ASSUME TypeOK, SlotInvariant, Tracked, RunStep, "reader_fails" \notin Faults
  PROVE  Tracked'
<1>0. jobs \in Table
  BY DEF TypeOK, Table
<1>1. CASE SpawnReturns
  <2>1. starting \in Job /\ running = NoJob
    BY <1>1 DEF SpawnReturns, SlotInvariant, TypeOK
  <2>2. \A k \in Job : ~RunsHere(jobs, k)
    BY <2>1, QueueManagerAssumption DEF Tracked, RunningRowIsTracked, RunsHere,
       get_running_jobs, WithStatus
  <2>3. \A k \in Job : RunsHere(jobs', k) => k = starting
    BY <1>0, <1>1, <2>1, <2>2, OtherRows DEF SpawnReturns, RunsHere
  <2>4. running' = starting /\ proc'[starting] = "alive" /\ orphans' = orphans
    BY <1>1, <2>1 DEF SpawnReturns, TypeOK
  <2> QED
    BY <2>3, <2>4 DEF Tracked, RunningRowIsTracked, RunsHere, HasProcess,
       get_running_jobs, WithStatus
<1>2. CASE SpawnRaises
  <2>1. \A k \in Job : RunsHere(jobs', k) => RunsHere(jobs, k)
    BY <1>0, <1>2, TrackedRow DEF SpawnRaises, TypeOK
  <2> QED
    BY <1>2, <2>1, TrackedFrame DEF SpawnRaises, Tracked, HasProcess
<1>3. ASSUME NEW j \in Job, ProcessExits(j) PROVE Tracked'
  <2>1. \A k \in Job : HasProcess(k) => HasProcess(k)'
    BY <1>3 DEF ProcessExits, HasProcess, TypeOK
  <2> QED
    BY <1>3, <2>1, TrackedFrame DEF ProcessExits, Tracked
<1>4. ASSUME NEW j \in Job, RunEnds(j) PROVE Tracked'
  <2>1. PICK s \in Terminal : finalize_job(j, s)
    BY <1>4 DEF RunEnds, Outcomes
  <2>2. \A k \in Job \ {j} : proc'[k] = proc[k]
    BY <1>4 DEF RunEnds, TypeOK
  <2> QED
    BY <1>4, <2>1, <2>2, TrackedFinalize DEF RunEnds
<1>5. ASSUME NEW j \in Job, OrphanExits(j) PROVE Tracked'
  BY <1>5 DEF OrphanExits, Tracked
<1>6. CASE StartIsOver
  BY <1>6, TrackedFrame DEF StartIsOver, Tracked, HasProcess
<1> QED
  BY <1>1, <1>2, <1>3, <1>4, <1>5, <1>6 DEF RunStep, ReaderFails

LEMMA TrackedLoop ==
  ASSUME TypeOK, Tracked, LoopStep
  PROVE  Tracked'
<1>0. jobs \in Table
  BY DEF TypeOK, Table
<1>1. CASE SchedulerTick
  <2>1. PICK a \in Ticks(jobs, online') : jobs' = assign_all(jobs, a)
    BY <1>1 DEF SchedulerTick
  <2>2. online' \in SUBSET Node
    BY <1>1, QueueManagerAssumption DEF SchedulerTick, TypeOK
  <2>3. \A k \in Job : RunsHere(jobs', k) => RunsHere(jobs, k)
    BY <1>0, <2>1, <2>2, TickRow DEF RunsHere
  <2> QED
    BY <1>1, <2>3, TrackedFrame DEF SchedulerTick, local, Tracked, HasProcess
<1>2. CASE SweepStaleRemoteJobs
  <2>1. PICK list \in SUBSET (Job \X {"queued", "running"}) : sweep(list)
    BY <1>2 DEF SweepStaleRemoteJobs, TypeOK, get_running_jobs_with_stale_node, WithStatus
  <2>2. UNCHANGED <<proc, orphans>>
    BY <1>2 DEF SweepStaleRemoteJobs
  <2>3. CASE list = {}
    BY <2>1, <2>2, <2>3, TrackedFrame DEF sweep, Tracked, HasProcess
  <2>4. CASE list # {}
    <3>1. PICK e \in list : finalize_job(e[1], "failed")
      BY <2>1, <2>4 DEF sweep
    <3>2. e[1] \in Job
      OBVIOUS
    <3> QED
      BY <2>2, <3>1, <3>2, TrackedFinalize
  <2> QED
    BY <2>3, <2>4
<1>3. CASE EnforceScheduledStops
  <2>1. PICK list \in SUBSET (Job \X {"queued", "running"}) : enforce(list)
    BY <1>3 DEF EnforceScheduledStops, TypeOK, get_jobs_past_scheduled_stop
  <2>2. CASE list = {}
    BY <2>1, <2>2, TrackedFrame DEF enforce, local, Tracked, HasProcess
  <2>3. CASE list # {}
    <3>1. PICK e \in list : \/ jobs' = cancel_queued_job(jobs, e[1]) /\ UNCHANGED local
                           \/ stop_running_job(e[1])
      BY <2>1, <2>3 DEF enforce
    <3>2. e[1] \in Job
      OBVIOUS
    <3>3. CASE jobs' = cancel_queued_job(jobs, e[1]) /\ UNCHANGED local
      <4>1. \A k \in Job : RunsHere(jobs', k) => RunsHere(jobs, k)
        BY <1>0, <3>2, <3>3, TrackedRow
      <4> QED
        BY <3>3, <4>1, TrackedFrame DEF local, Tracked, HasProcess
    <3> QED
      BY <3>1, <3>2, <3>3, TrackedStop
  <2> QED
    BY <2>2, <2>3
<1>4. CASE DispatchNext
  <2>1. UNCHANGED <<jobs, running, proc, orphans>>
    BY <1>4 DEF DispatchNext, start_job_begins, local
  <2> QED
    BY <2>1, TrackedFrame DEF Tracked, HasProcess
<1> QED
  BY <1>1, <1>2, <1>3, <1>4 DEF LoopStep

\* What runs here at a restart is one row, and recovery closes it.
LEMMA TrackedRestart ==
  ASSUME TypeOK, Tracked, Restart, "survive" \notin Faults, "pid_reused" \notin Faults
  PROVE  Tracked'
<1>0. jobs \in Table
  BY DEF TypeOK, Table
<1>1. orphans' = {}
  BY DEF Restart, Tracked
<1>2. \A j, k \in Job : RunsHere(jobs, j) /\ RunsHere(jobs, k) => j = k
  BY DEF Tracked, RunningRowIsTracked, RunsHere, get_running_jobs, WithStatus
<1>3. jobs' \in recover_stale_running_job(jobs, {})
  BY <1>1, \A S : S \union {} = S DEF Restart
<1>4. \A k \in Job : ~RunsHere(jobs', k)
  <2>1. CASE get_running_jobs(jobs, Local) = {}
    BY <1>3, <2>1 DEF recover_stale_running_job, get_running_jobs, WithStatus, RunsHere
  <2>2. CASE get_running_jobs(jobs, Local) # {}
    <3>1. PICK j \in get_running_jobs(jobs, Local) : jobs' = finish_job(jobs, j, "failed")
      BY <1>3, <2>2 DEF recover_stale_running_job
    <3>2. j \in Job /\ RunsHere(jobs, j)
      BY DEF get_running_jobs, WithStatus, RunsHere
    <3>3. \A k \in Job : RunsHere(jobs', k) => k # j /\ RunsHere(jobs, k)
      BY <1>0, <3>1, <3>2, TrackedRow
    <3> QED
      BY <1>2, <3>2, <3>3
  <2> QED
    BY <2>1, <2>2
<1> QED
  BY <1>1, <1>4 DEF Tracked, RunningRowIsTracked, RunsHere, get_running_jobs, WithStatus

LEMMA TrackedAgent ==
  ASSUME TypeOK, Tracked, AgentStep
  PROVE  Tracked'
<1>0. jobs \in Table
  BY DEF TypeOK, Table
<1>1. CASE \E n \in Remote : Register(n) \/ Heartbeat(n) \/ HeartbeatExpires(n)
  <2>1. UNCHANGED <<jobs, running, proc, orphans>>
    BY <1>1 DEF Register, Heartbeat, HeartbeatExpires, local
  <2> QED
    BY <2>1, TrackedFrame DEF Tracked, HasProcess
<1>2. ASSUME NEW j \in Job, AgentStart(j) PROVE Tracked'
  <2>1. jobs'[j].node_id # Local
    BY <1>0, <1>2, ItsRow DEF AgentStart, Remote
  <2>2. \A k \in Job \ {j} : jobs'[k] = jobs[k]
    BY <1>0, <1>2, OtherRows DEF AgentStart
  <2>3. \A k \in Job : RunsHere(jobs', k) => RunsHere(jobs, k)
    BY <2>1, <2>2 DEF RunsHere
  <2> QED
    BY <1>2, <2>3, TrackedFrame DEF AgentStart, local, Tracked, HasProcess
<1>3. ASSUME NEW j \in Job, NEW s \in Terminal, AgentFinish(j, s) PROVE Tracked'
  BY <1>3, TrackedFinalize DEF AgentFinish
<1> QED
  BY <1>1, <1>2, <1>3 DEF AgentStep

LEMMA TrackedStep ==
  ASSUME {"survive", "pid_reused", "reader_fails"} \intersect Faults = {},
         TypeOK, SlotInvariant, Tracked, [Next]_vars
  PROVE  Tracked'
<1>1. ASSUME NEW j \in Job, DeadlinePasses(j) PROVE Tracked'
  <2>1. \A k \in Job : RunsHere(jobs', k) => RunsHere(jobs, k)
    BY <1>1 DEF DeadlinePasses, RunsHere, TypeOK, Row
  <2> QED
    BY <1>1, <2>1, TrackedFrame DEF DeadlinePasses, local, Tracked, HasProcess
<1>2. CASE UNCHANGED vars
  BY <1>2, TrackedFrame DEF vars, local, Tracked, HasProcess
<1> QED
  BY <1>1, <1>2, TrackedOperator, TrackedRun, TrackedLoop, TrackedRestart,
     TrackedAgent DEF Next

\* Every row that says "running on this machine" is the run that the service
\* tracks and that will end, also after any number of restarts.
THEOREM RunningRowTracked ==
  ASSUME {"survive", "pid_reused", "reader_fails"} \intersect Faults = {}
  PROVE  Spec => []RunningRowIsTracked
<1>1. Init => Tracked
  <2>1. Init => \A j \in Job : jobs[j] = NoRow
    BY DEF Init, EmptyTable
  <2>2. NoRow.status = "absent"
    BY DEF NoRow
  <2> QED
    BY <2>1, <2>2 DEF Init, Tracked, RunningRowIsTracked, get_running_jobs, WithStatus
<1>2. TypeOK /\ SlotInvariant /\ Tracked /\ [Next]_vars => Tracked'
  BY TrackedStep
<1>3. Tracked => RunningRowIsTracked
  BY DEF Tracked
<1> QED
  BY <1>1, <1>2, <1>3, TypeCorrect, SlotCorrect, PTL DEF Spec
=============================================================================
