---------------------------- MODULE QueueManager ----------------------------
(***************************************************************************)
(* The controller's queue manager (src/fdsrouter/core/queue_manager.py) and  *)
(* the local FDS processes it owns.                                          *)
(*                                                                          *)
(* All of it runs on one asyncio event loop, so a coroutine is interrupted   *)
(* only where it awaits.  An action is what runs between two awaits: the     *)
(* dispatch loop is cut into the phases of loop, and a local start into      *)
(* "_start_job up to the await of the spawn" (starting) and the rest.  The   *)
(* await of a broadcast is counted as a point where others may run, as it is *)
(* whenever a client is connected.                                          *)
(*                                                                          *)
(* Machines that run an agent are an open environment here: they call the   *)
(* endpoints of api/routes_agent.py for jobs assigned to them, in any order *)
(* and any number of times.  Module Cluster puts real agents in their place.*)
(***************************************************************************)
EXTENDS Scheduler, FiniteSets

CONSTANTS
  Local,   \* the controller's own node id
  NoJob,   \* None for _running_job_id and for "no start in progress"
  Faults   \* which of the failures below may happen

FaultKinds == {
  "restart",       \* the service is restarted (or crashes and comes back)
  "survive",       \* ... and a running FDS process outlives it
  "pid_reused",    \* ... or its pid is another process' when the service is back
  "spawn_fails",   \* the FDS process cannot be created
  "reader_fails"}  \* log reader or log file fails: _run_and_await raises

ASSUME QueueManagerAssumption ==
  /\ Local \in Node
  /\ NoJob \notin Job
  /\ Faults \subseteq FaultKinds

Remote == Node \ {Local}

VARIABLES
  jobs,          \* the job table
  nodes,         \* ids in the node table
  online,        \* ... with a heartbeat younger than NODE_STALE_AFTER_S
  auto_advance,  \* _auto_advance
  starting,      \* the job whose FDS spawn _start_job awaits (_starting)
  spawn_failed,  \* that spawn raised; the broadcast of the failure is awaited
  running,       \* _running_job_id
  stop_flag,     \* _stop_requested
  proc,          \* the FDS process of a job and the _run_and_await task on it:
                 \* none, alive, or exited with the task draining its output
  signalled,     \* jobs whose local process has a terminate() task on it
  orphans,       \* jobs with an FDS process left by an earlier service process
  loop,          \* where the dispatch loop is
  todo           \* <<job, status as read>> the loop has yet to work through

local == <<starting, spawn_failed, running, stop_flag, proc, signalled, orphans>>
disp  == <<loop, todo>>
vars  == <<jobs, nodes, online, auto_advance, local, disp>>

LoopPhases == {"tick", "sweep", "sweeping", "stops", "stopping", "dispatch", "start"}

TypeOK ==
  /\ jobs \in [Job -> Row]
  /\ nodes \subseteq Node
  /\ Local \in nodes
  /\ online \subseteq nodes
  /\ auto_advance \in BOOLEAN
  /\ starting \in Job \union {NoJob}
  /\ spawn_failed \in BOOLEAN
  /\ running \in Job \union {NoJob}
  /\ stop_flag \in BOOLEAN
  /\ proc \in [Job -> {"none", "alive", "exited"}]
  /\ signalled \subseteq Job
  /\ orphans \subseteq Job
  /\ loop \in LoopPhases
  /\ todo \subseteq Job \X {"queued", "running"}

\* The service starts on an empty database and registers its own node.
Init ==
  /\ jobs = EmptyTable
  /\ nodes = {Local}
  /\ online = {Local}
  /\ auto_advance = FALSE
  /\ starting = NoJob /\ spawn_failed = FALSE
  /\ running = NoJob /\ stop_flag = FALSE
  /\ proc = [j \in Job |-> "none"]
  /\ signalled = {} /\ orphans = {}
  /\ loop = "tick" /\ todo = {}

Busy_spawn_only == starting # NoJob                      \* mutant of Busy
Busy == running # NoJob \/ starting # NoJob

\* Mutants of finalize_job: the slot freed by anyone's finish, the slot never
\* freed, the row not written.
finalize_job_frees_any(j, s) ==
  jobs' = finish_job(jobs, j, s) /\ running' = NoJob
finalize_job_keeps_slot(j, s) ==
  jobs' = finish_job(jobs, j, s) /\ running' = running
finalize_job_drops_row(j, s) ==
  jobs' = jobs /\ running' = IF running = j THEN NoJob ELSE running

\* The shared tail of a run: row, and _running if it is this job's.  Another
\* process' handle is dropped, never signalled.
finalize_job(j, s) ==
  /\ jobs' = finish_job(jobs, j, s)
  /\ running' = IF running = j THEN NoJob ELSE running

-----------------------------------------------------------------------------
(* The operator's requests: routes_jobs.py, routes_queue.py *)

Enqueue(j, d) ==
  /\ jobs[j].status = "absent"
  /\ \E p \in Positions :
       IsNextPosition(jobs, p) /\ jobs' = create_job(jobs, j, p, d)
  /\ UNCHANGED <<nodes, online, auto_advance, local, disp>>

ArchiveFinished ==
  /\ jobs' = archive_finished_jobs(jobs)
  /\ UNCHANGED <<nodes, online, auto_advance, local, disp>>

Reorder ==
  /\ \E f \in Orders(jobs) : jobs' = reorder_queue(jobs, f)
  /\ UNCHANGED <<nodes, online, auto_advance, local, disp>>

Cancel(j) ==
  /\ jobs' = cancel_queued_job(jobs, j)
  /\ UNCHANGED <<nodes, online, auto_advance, local, disp>>

\* Signals a run of this service, records the stop for the agent otherwise.
\* A row that names no node takes the second branch too.
stop_running_job(j) ==
  LET own == jobs[j].status = "running" /\ jobs[j].node_id = Local IN
  /\ IF own /\ running = j
     THEN /\ stop_flag' = TRUE
          /\ signalled' = IF proc[j] = "alive" THEN signalled \union {j} ELSE signalled
     ELSE UNCHANGED <<stop_flag, signalled>>
  /\ jobs' = IF own THEN jobs ELSE set_stop_requested(jobs, j)
  /\ UNCHANGED <<starting, spawn_failed, running, proc, orphans>>

StopRunningJob(j) ==
  /\ stop_running_job(j)
  /\ UNCHANGED <<nodes, online, auto_advance, disp>>

\* _start_job up to its await.
start_job_begins(j) ==
  /\ ~Busy
  /\ starting' = j
  /\ UNCHANGED <<jobs, spawn_failed, running, stop_flag, proc, signalled, orphans>>

\* Mutants of StartJobManually: without the check of the status, without the
\* branch for jobs of other nodes.
StartJobManually_any_status(j) ==
  /\ \/ /\ jobs[j].node_id \in Remote
        /\ jobs' = set_start_requested(jobs, j)
        /\ UNCHANGED local
     \/ /\ jobs[j].node_id \in {NoNode, Local}
        /\ start_job_begins(j)
  /\ UNCHANGED <<nodes, online, auto_advance, disp>>
StartJobManually_always_here(j) ==
  /\ jobs[j].status = "queued"
  /\ start_job_begins(j)
  /\ UNCHANGED <<nodes, online, auto_advance, disp>>

StartJobManually(j) ==
  /\ jobs[j].status = "queued"
  /\ \/ /\ jobs[j].node_id \in Remote
        /\ jobs' = set_start_requested(jobs, j)
        /\ UNCHANGED local
     \/ /\ jobs[j].node_id \in {NoNode, Local}
        /\ start_job_begins(j)
  /\ UNCHANGED <<nodes, online, auto_advance, disp>>

SetAutoAdvance ==
  /\ auto_advance' = ~auto_advance
  /\ UNCHANGED <<jobs, nodes, online, local, disp>>

UpdateDeadline(j, d) ==
  /\ jobs' = set_scheduled_stop(jobs, j, d)
  /\ UNCHANGED <<nodes, online, auto_advance, local, disp>>

\* The clock reaches a job's scheduled_stop_at.
DeadlinePasses(j) ==
  /\ jobs[j].scheduled_stop = "ahead"
  /\ jobs' = [jobs EXCEPT ![j].scheduled_stop = "past"]
  /\ UNCHANGED <<nodes, online, auto_advance, local, disp>>

-----------------------------------------------------------------------------
(* A local start and the run that follows *)

\* The spawn's await returns a process: the rest of _start_job.
SpawnReturns ==
  /\ starting # NoJob /\ ~spawn_failed
  /\ jobs' = start_job(jobs, starting)
  /\ running' = starting
  /\ stop_flag' = FALSE
  /\ proc' = [proc EXCEPT ![starting] = "alive"]
  /\ starting' = NoJob
  /\ loop' = IF loop = "start" THEN "tick" ELSE loop
  /\ UNCHANGED <<nodes, online, auto_advance, spawn_failed, signalled, orphans, todo>>

\* ... or raises: the job fails, _starting stays set over the broadcast of it.
SpawnRaises ==
  /\ "spawn_fails" \in Faults
  /\ starting # NoJob /\ ~spawn_failed
  /\ jobs' = finish_job(jobs, starting, "failed")
  /\ spawn_failed' = TRUE
  /\ UNCHANGED <<nodes, online, auto_advance, starting, running, stop_flag, proc,
                 signalled, orphans, disp>>

\* The finally clause: the queue keeps moving.
StartIsOver ==
  /\ spawn_failed
  /\ starting' = NoJob /\ spawn_failed' = FALSE
  /\ loop' = IF loop = "start" THEN "tick" ELSE loop
  /\ UNCHANGED <<jobs, nodes, online, auto_advance, running, stop_flag, proc,
                 signalled, orphans, todo>>

\* FDS ends: by itself, or by the SIGTERM and then SIGKILL of terminate().
ProcessExits(j) ==
  /\ proc[j] = "alive"
  /\ proc' = [proc EXCEPT ![j] = "exited"]
  /\ signalled' = signalled \ {j}
  /\ UNCHANGED <<jobs, nodes, online, auto_advance, starting, spawn_failed, running,
                 stop_flag, orphans, disp>>

\* determine_run_status, which reads the one _stop_requested flag as it is now.
Outcomes == IF stop_flag THEN {"cancelled"} ELSE {"done", "failed"}

RunEnds(j) ==
  /\ proc[j] = "exited"
  /\ proc' = [proc EXCEPT ![j] = "none"]
  /\ \E s \in Outcomes : finalize_job(j, s)
  /\ UNCHANGED <<nodes, online, auto_advance, starting, spawn_failed, stop_flag,
                 signalled, orphans, disp>>

\* log_task or energy_task had raised (full disk, a line beyond the reader's
\* limit): awaiting it raises in turn and finalize_job is not reached.
ReaderFails(j) ==
  /\ "reader_fails" \in Faults
  /\ proc[j] = "exited"
  /\ proc' = [proc EXCEPT ![j] = "none"]
  /\ UNCHANGED <<jobs, nodes, online, auto_advance, starting, spawn_failed, running,
                 stop_flag, signalled, orphans, disp>>

OrphanExits(j) ==
  /\ j \in orphans
  /\ orphans' = orphans \ {j}
  /\ UNCHANGED <<jobs, nodes, online, auto_advance, starting, spawn_failed, running,
                 stop_flag, proc, signalled, disp>>

-----------------------------------------------------------------------------
(* The dispatch loop *)

\* heartbeat_node, then _run_scheduler_tick, which reads and writes unawaited.
SchedulerTick ==
  /\ loop = "tick"
  /\ online' = online \union {Local}
  /\ \E a \in Ticks(jobs, online') : jobs' = assign_all(jobs, a)
  /\ loop' = "sweep"
  /\ UNCHANGED <<nodes, auto_advance, local, todo>>

\* _sweep_stale_remote_jobs: the list is read once, up front; each entry is
\* finalized as it was read, with an await after it.
sweep(list) ==
  IF list = {}
  THEN /\ loop' = "stops" /\ todo' = {}
       /\ UNCHANGED <<jobs, running>>
  ELSE \E e \in list :
         /\ finalize_job(e[1], "failed")
         /\ loop' = "sweeping" /\ todo' = list \ {e}

SweepStaleRemoteJobs ==
  /\ \/ /\ loop = "sweep"
        /\ sweep({j \in get_running_jobs_with_stale_node(jobs, nodes \ online) :
                    jobs[j].node_id # Local} \X {"running"})
     \/ loop = "sweeping" /\ sweep(todo)
  /\ UNCHANGED <<nodes, online, auto_advance, starting, spawn_failed, stop_flag,
                 proc, signalled, orphans>>

\* _enforce_scheduled_stops: the status read with the list chooses between
\* cancel and stop_running_job, each of which looks at the row again.
enforce(list) ==
  IF list = {}
  THEN /\ loop' = "dispatch" /\ todo' = {}
       /\ UNCHANGED <<jobs, local>>
  ELSE \E e \in list :
         /\ IF e[2] = "queued"
            THEN jobs' = cancel_queued_job(jobs, e[1]) /\ UNCHANGED local
            ELSE stop_running_job(e[1])
         /\ loop' = "stopping" /\ todo' = list \ {e}

EnforceScheduledStops ==
  /\ \/ /\ loop = "stops"
        /\ enforce({<<j, jobs[j].status>> : j \in get_jobs_past_scheduled_stop(jobs)})
     \/ loop = "stopping" /\ enforce(todo)
  /\ UNCHANGED <<nodes, online, auto_advance>>

MayStart(j) == auto_advance \/ jobs[j].start_requested

DispatchNext ==
  /\ loop = "dispatch"
  /\ \/ /\ \E j \in Job : /\ IsNextQueuedJob(jobs, Local, j)
                          /\ MayStart(j)
                          /\ start_job_begins(j)
        /\ loop' = "start"
     \/ /\ \/ Busy
           \/ \A j \in Job : IsNextQueuedJob(jobs, Local, j) => ~MayStart(j)
        /\ loop' = "tick"
        /\ UNCHANGED <<jobs, local>>
  /\ UNCHANGED <<nodes, online, auto_advance, todo>>

LoopStep ==
  SchedulerTick \/ SweepStaleRemoteJobs \/ EnforceScheduledStops \/ DispatchNext

-----------------------------------------------------------------------------
(* Restart of the service: everything in memory is lost.  Its FDS children   *)
(* go with it, or survive as orphans.  Then lifespan() in api/app.py         *)
(* registers the local node, recovers and starts a new dispatch loop.        *)

\* Mutant: the test of the process the wrong way round.
recover_stale_running_job_swapped(t, alive) ==
  LET R == get_running_jobs(t, Local) IN
  IF R = {} THEN {t}
  ELSE {IF j \in alive THEN finish_job(t, j, "failed") ELSE t : j \in R}

\* alive: the jobs with a process of the recorded pid, be it FDS or not.
recover_stale_running_job(t, alive) ==
  LET R == get_running_jobs(t, Local) IN
  IF R = {} THEN {t}
  ELSE {IF j \in alive THEN t ELSE finish_job(t, j, "failed") : j \in R}

Restart ==
  /\ "restart" \in Faults
  /\ LET children == {j \in Job : proc[j] = "alive" \/ (j = starting /\ ~spawn_failed)} IN
     IF "survive" \in Faults
     THEN \E S \in SUBSET children : orphans' = orphans \union S
     ELSE orphans' = orphans
  /\ \E reused \in IF "pid_reused" \in Faults THEN SUBSET Job ELSE {{}} :
       jobs' \in recover_stale_running_job(jobs, orphans' \union reused)
  /\ online' = online \union {Local}
  /\ auto_advance' = FALSE
  /\ starting' = NoJob /\ spawn_failed' = FALSE
  /\ running' = NoJob /\ stop_flag' = FALSE
  /\ proc' = [j \in Job |-> "none"] /\ signalled' = {}
  /\ loop' = "tick" /\ todo' = {}
  /\ UNCHANGED nodes

-----------------------------------------------------------------------------
(* What agents may do: routes_agent.py, and the passing of time *)

Register(n) ==
  /\ nodes' = nodes \union {n}
  /\ online' = online \union {n}
  /\ UNCHANGED <<jobs, auto_advance, local, disp>>

\* Mutant: a heartbeat of a node that was never registered.
Heartbeat_unregistered(n) ==
  /\ online' = online \union {n}
  /\ UNCHANGED <<jobs, nodes, auto_advance, local, disp>>

Heartbeat(n) ==
  /\ n \in nodes
  /\ online' = online \union {n}
  /\ UNCHANGED <<jobs, nodes, auto_advance, local, disp>>

\* Only for agents: the loop renews the local heartbeat before each use of it.
HeartbeatExpires(n) ==
  /\ n \in online
  /\ online' = online \ {n}
  /\ UNCHANGED <<jobs, nodes, auto_advance, local, disp>>

\* GET .../assignment answers n with job j.
assignment(n, j) == IsNextQueuedJob(jobs, n, j) /\ MayStart(j)

\* POST .../start, for whatever state the row is in
AgentStart(j) ==
  /\ jobs[j].node_id \in Remote
  /\ jobs' = start_job(jobs, j)
  /\ UNCHANGED <<nodes, online, auto_advance, local, disp>>

\* POST .../finish
AgentFinish(j, s) ==
  /\ jobs[j].node_id \in Remote
  /\ finalize_job(j, s)
  /\ UNCHANGED <<nodes, online, auto_advance, starting, spawn_failed, stop_flag,
                 proc, signalled, orphans, disp>>

-----------------------------------------------------------------------------
OperatorStep ==
  \/ \E j \in Job, d \in Deadline : Enqueue(j, d)
  \/ ArchiveFinished
  \/ Reorder
  \/ \E j \in Job : Cancel(j)
  \/ \E j \in Job : StopRunningJob(j)
  \/ \E j \in Job : StartJobManually(j)
  \/ SetAutoAdvance
  \/ \E j \in Job, d \in Deadline : UpdateDeadline(j, d)

RunStep ==
  \/ SpawnReturns
  \/ SpawnRaises
  \/ StartIsOver
  \/ \E j \in Job : ProcessExits(j)
  \/ \E j \in Job : RunEnds(j)
  \/ \E j \in Job : ReaderFails(j)
  \/ \E j \in Job : OrphanExits(j)

AgentStep ==
  \/ \E n \in Remote : Register(n)
  \/ \E n \in Remote : Heartbeat(n)
  \/ \E n \in Remote : HeartbeatExpires(n)
  \/ \E j \in Job : AgentStart(j)
  \/ \E j \in Job, s \in Terminal : AgentFinish(j, s)

Next ==
  \/ OperatorStep
  \/ \E j \in Job : DeadlinePasses(j)
  \/ RunStep
  \/ LoopStep
  \/ Restart
  \/ AgentStep

Spec == Init /\ [][Next]_vars

\* The event loop runs every ready task: the dispatch loop, a returned spawn,
\* the end of a run.  A process with terminate() on it is killed in the end.
Fairness ==
  /\ WF_vars(LoopStep)
  /\ WF_vars(SpawnReturns)
  /\ WF_vars(StartIsOver)
  /\ \A j \in Job : WF_vars(RunEnds(j))
  /\ \A j \in Job : WF_vars(ProcessExits(j) /\ j \in signalled)

FairSpec == Spec /\ Fairness

-----------------------------------------------------------------------------
(* Properties *)

IsRemote(j) == jobs[j].node_id \in Remote
HasProcess(j) == proc[j] # "none"

\* queue_position is a total order of the queued rows and NULL on all others,
\* whatever enqueues, reorders, cancels, starts and failures come together
\* (create_job, reorder_queue; the reset in finish_job has a comment on it).
QueuePositions ==
  \A j \in Job :
    /\ jobs[j].status = "queued" <=> jobs[j].queue_position # NoPosition
    /\ \A k \in Queued(jobs) \ {j} :
         j \in Queued(jobs) => jobs[j].queue_position # jobs[k].queue_position

\* Dispatch loop, manual starts, the ends of runs and restarts never have two
\* FDS processes of this service at once: the slot that _running and _starting
\* guard is one slot.  Excepted is a job the scheduler gave to another node
\* while its local spawn was under way (see the run runs_twice).
OneLocalRun ==
  LET Here == {j \in Job : HasProcess(j) /\ ~IsRemote(j)} IN
  /\ \A j, k \in Here : j = k
  /\ starting # NoJob => Here = {}

\* Why OneLocalRun and OutcomeIsFinal hold: no start while a run is tracked;
\* the row of a job whose spawn is awaited is in the queue or was cancelled
\* from it;
\* a process whose row names no other node is the tracked one, and its row
\* says running; the sweep only holds rows of other nodes; and a row gets its
\* node after it is created, never before.
SlotInvariant ==
  /\ starting # NoJob =>
       /\ running = NoJob
       /\ \/ jobs[starting].status \in {"queued", "cancelled"}
          \/ IsRemote(starting)
          \/ spawn_failed
  /\ \A j \in Job : HasProcess(j) /\ ~IsRemote(j) => running = j /\ jobs[j].status = "running"
  /\ loop = "sweeping" => \A e \in todo : IsRemote(e[1])
  /\ \A j \in Job : jobs[j].status = "absent" => jobs[j].node_id = NoNode

\* A row that says "running on this machine" is the run the service tracks,
\* and its process or the task that will record its end exists; a restart
\* leaves no such row behind (recover_stale_running_job).
RunningRowIsTracked ==
  \A j \in get_running_jobs(jobs, Local) : running = j /\ HasProcess(j)

\* The outcome of a job, once recorded, is never overwritten, save in two
\* ways: it was cancelled while its start was under way, or the agent it is
\* assigned to reports again (or the sweep gives that agent up).
OutcomeIsFinal ==
  [][\A j \in Job :
       jobs[j].status \in Terminal /\ jobs'[j].status # jobs[j].status
         => IsRemote(j) \/ (j = starting /\ jobs[j].status = "cancelled")]_vars

\* A local run with terminate() on it reaches an outcome.
StopEnds ==
  \A j \in Job : j \in signalled ~> jobs[j].status \in Terminal

\* A job that runs here beyond its deadline is brought to an end, unless the
\* operator withdraws the deadline (_enforce_scheduled_stops).
DeadlineEnds ==
  \A j \in Job :
    /\ jobs[j].status = "running" /\ jobs[j].node_id = Local
    /\ jobs[j].scheduled_stop = "past"
    ~> jobs[j].status \in Terminal \/ jobs[j].scheduled_stop # "past"

\* No simulation runs for ever.
SimulationsEnd == \A j \in Job : []<>(proc[j] # "alive")

\* With auto_advance left on and simulations that end, the queue runs dry:
\* each job that fits on this machine leaves it, whatever is reordered,
\* cancelled or started by hand, whatever spawn fails (_dispatch_loop).
QueueDrains ==
  <>[]auto_advance /\ SimulationsEnd =>
    \A j \in Job :
      jobs[j].status = "queued" /\ Need[j] <= Cores[Local] ~> jobs[j].status # "queued"

-----------------------------------------------------------------------------
(* What the service may rely on: the slot of this machine *)

\* The slot as _starting, _running_job_id and the process say.
TheSlot ==
  IF starting # NoJob
  THEN [phase |-> IF spawn_failed THEN "failing" ELSE "spawning", job |-> starting]
  ELSE IF running # NoJob
  THEN [phase |-> IF proc[running] = "alive" THEN "running" ELSE "over", job |-> running]
  ELSE [phase |-> "free"]

Slot == INSTANCE LocalSlot WITH slot <- TheSlot

\* The queue manager implements the slot: no start, stop, cancel, deadline,
\* failure, restart, report of an agent or sweep takes, hands on or frees it
\* in any other way (_busy, _start_job, finalize_job).
ImplementsSlot == Slot!SlotSpec

\* ... and no start, failed start or ended process holds it for ever.
SlotSettles == Slot!Settles
=============================================================================
