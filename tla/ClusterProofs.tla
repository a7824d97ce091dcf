--------------------------- MODULE ClusterProofs ---------------------------
(***************************************************************************)
(* Theorems about the controller with its agents, for every set of jobs and *)
(* machines: the cluster implements QueueManager, so that every theorem     *)
(* about the queue manager holds in it, and what the agents add.            *)
(***************************************************************************)
EXTENDS Cluster, QueueManagerProofs

USE DEF Terminal, Status, Deadline, NoPosition, LoopPhases, AgentPhases

-----------------------------------------------------------------------------
(* The agents' own variables *)

AgentTypes ==
  /\ agent \in [Remote -> Agent]
  /\ astray \in [Remote -> SUBSET Job]
  /\ net \subseteq Message

\* An agent has a job exactly while it works, and a process only then; every
\* message but the report of a start carries an outcome.
AgentsWork ==
  /\ \A n \in Remote :
       IF agent[n].pc \in {"down", "idle"}
       THEN agent[n].job = NoJob /\ agent[n].proc = "none"
       ELSE agent[n].job \in Job
  /\ \A m \in net : m.op # "start" => m.status \in Terminal

AgentInv == AgentTypes /\ AgentsWork

\* agent[n] becomes r and no other agent changes.
OnlyAgent(n, r) == agent' = [agent EXCEPT ![n] = r]

\* What a new record of agent n must be for AgentInv to stay.
GoodRecord(r) ==
  /\ r \in Agent
  /\ IF r.pc \in {"down", "idle"} THEN r.job = NoJob /\ r.proc = "none"
     ELSE r.job \in Job

LEMMA AgentFrame ==
  ASSUME AgentInv, NEW n \in Remote, NEW r, GoodRecord(r), OnlyAgent(n, r),
         astray' \in [Remote -> SUBSET Job],
         \A m \in net' \ net :
            m \in Message /\ (m.op # "start" => m.status \in Terminal)
  PROVE  AgentInv'
<1>1. agent' \in [Remote -> Agent]
  BY DEF OnlyAgent, GoodRecord, AgentInv, AgentTypes
<1>2. net' \subseteq Message
  BY DEF AgentInv, AgentTypes
<1>3. \A k \in Remote : agent'[k] = IF k = n THEN r ELSE agent[k]
  BY DEF OnlyAgent, AgentInv, AgentTypes
<1>4. AgentsWork'
  BY <1>3 DEF GoodRecord, AgentInv, AgentsWork
<1> QED
  BY <1>1, <1>2, <1>4 DEF AgentInv, AgentTypes

LEMMA IdleIsGood == GoodRecord(Idle) /\ GoodRecord(Down)
BY DEF GoodRecord, Idle, Down, Agent

\* A request of an agent that works is a message.
LEMMA RequestIsMessage ==
  ASSUME NEW n \in Remote, agent[n].job \in Job,
         NEW op \in {"start", "finish", "fail"}, NEW s \in Terminal \union {"running"}
  PROVE  /\ Request(n, op, s) \in Message
         /\ Request(n, op, s).op = op /\ Request(n, op, s).status = s
         /\ Request(n, op, s).from = n /\ Request(n, op, s).job = agent[n].job
BY DEF Request, Message

\* The record of an agent that gave up its run.
GivenUp(n) == [agent[n] EXCEPT !.pc = "fail", !.proc = "none", !.out = FALSE]

LEMMA GivesUp ==
  ASSUME AgentInv, NEW n \in Remote, agent[n].pc \notin {"down", "idle"}, gives_up(n)
  PROVE  /\ OnlyAgent(n, GivenUp(n)) /\ GoodRecord(GivenUp(n))
         /\ GivenUp(n).pc = "fail" /\ GivenUp(n).proc = "none"
         /\ GivenUp(n).job = agent[n].job
         /\ agent[n].job \in Job
         /\ astray' \in [Remote -> SUBSET Job]
<1>1. agent[n] \in Agent /\ agent[n].job \in Job
  BY DEF AgentInv, AgentTypes, AgentsWork
<1>2. GoodRecord(GivenUp(n)) /\ GivenUp(n).job = agent[n].job
      /\ GivenUp(n).pc = "fail" /\ GivenUp(n).proc = "none"
  BY <1>1 DEF GoodRecord, GivenUp, Agent
<1>3. OnlyAgent(n, GivenUp(n))
  BY DEF gives_up, OnlyAgent, GivenUp, AgentInv, AgentTypes
<1>4. astray' \in [Remote -> SUBSET Job]
  BY <1>1 DEF gives_up, AgentInv, AgentTypes
<1> QED
  BY <1>1, <1>2, <1>3, <1>4

\* What each step of an agent does to its record and its requests: the new
\* record r, and at most one new message.
LEMMA WorkKeepsAgents ==
  ASSUME AgentInv, NEW n \in Remote, WorkStep(n)
  PROVE  AgentInv'
<1>0. agent[n] \in Agent /\ astray \in [Remote -> SUBSET Job]
  BY DEF AgentInv, AgentTypes
<1>1. agent[n].pc \notin {"down", "idle"} => agent[n].job \in Job
  BY DEF AgentInv, AgentsWork
<1>2. CASE Poll(n)
  <2>1. PICK j \in Job : agent' = [agent EXCEPT ![n] =
          [pc |-> "fetch", job |-> j, proc |-> "none", out |-> FALSE, stop |-> FALSE]]
    BY <1>2 DEF Poll
  <2> DEFINE r == [pc |-> "fetch", job |-> j, proc |-> "none", out |-> FALSE, stop |-> FALSE]
  <2>2. GoodRecord(r) /\ OnlyAgent(n, r)
    BY <2>1 DEF GoodRecord, OnlyAgent, Agent
  <2> QED
    BY <1>0, <1>2, <2>2, AgentFrame DEF Poll
<1>3. CASE StartsFds(n)
  <2> DEFINE r == [agent[n] EXCEPT !.pc = "start", !.proc = "alive"]
  <2>1. GoodRecord(r) /\ OnlyAgent(n, r)
    BY <1>0, <1>1, <1>3 DEF StartsFds, GoodRecord, OnlyAgent, Agent, AgentInv, AgentTypes
  <2>2. \A m \in net' \ net : m \in Message /\ m.op = "start"
    BY <1>1, <1>3, RequestIsMessage DEF StartsFds
  <2> QED
    BY <1>0, <1>3, <2>1, <2>2, AgentFrame DEF StartsFds
<1>4. CASE CaseFails(n) \/ WatchFails(n)
  <2>1. gives_up(n) /\ agent[n].pc \notin {"down", "idle"}
    BY <1>4 DEF CaseFails, WatchFails
  <2>2. \A m \in net' \ net : m \in Message /\ m.status \in Terminal
    BY <1>1, <1>4, <2>1, RequestIsMessage DEF CaseFails, WatchFails
  <2> QED
    BY <2>1, <2>2, GivesUp, AgentFrame
<1>5. CASE ReportsMetrics(n)
  <2> DEFINE r == [agent[n] EXCEPT !.stop = TRUE]
  <2>1. GoodRecord(r) /\ OnlyAgent(n, r)
    BY <1>0, <1>1, <1>5 DEF ReportsMetrics, GoodRecord, OnlyAgent, Agent, AgentInv, AgentTypes
  <2> QED
    BY <1>0, <1>5, <2>1, AgentFrame DEF ReportsMetrics
<1>6. CASE RunIsOver(n)
  <2> DEFINE r == [agent[n] EXCEPT !.pc = "upload", !.out = FALSE]
  <2>1. GoodRecord(r) /\ OnlyAgent(n, r)
    BY <1>0, <1>1, <1>6 DEF RunIsOver, GoodRecord, OnlyAgent, Agent, AgentInv, AgentTypes
  <2> QED
    BY <1>0, <1>6, <2>1, AgentFrame DEF RunIsOver
<1>7. CASE Uploads(n)
  <2> DEFINE r == [agent[n] EXCEPT !.pc = "finish"]
  <2>1. GoodRecord(r) /\ OnlyAgent(n, r)
    BY <1>0, <1>1, <1>7 DEF Uploads, GoodRecord, OnlyAgent, Agent, AgentInv, AgentTypes
  <2>2. PICK s \in Terminal : net' = net \union {Request(n, "finish", s)}
    BY <1>7 DEF Uploads
  <2>3. \A m \in net' \ net : m \in Message /\ m.status \in Terminal
    BY <1>1, <1>7, <2>2, RequestIsMessage DEF Uploads
  <2> QED
    BY <1>0, <1>7, <2>1, <2>3, AgentFrame DEF Uploads
<1>8. CASE Answered(n)
  <2>1. CASE agent[n].pc = "start"
    <3> DEFINE r == [agent[n] EXCEPT !.pc = "run"]
    <3>1. GoodRecord(r) /\ OnlyAgent(n, r)
      BY <1>0, <1>1, <1>8, <2>1
      DEF Answered, GoodRecord, OnlyAgent, Agent, AgentInv, AgentTypes
    <3> QED
      BY <1>0, <1>8, <3>1, AgentFrame DEF Answered
  <2>2. CASE agent[n].pc # "start"
    <3>1. OnlyAgent(n, Idle)
      BY <1>8, <2>2 DEF Answered, OnlyAgent, AgentInv, AgentTypes
    <3> QED
      BY <1>0, <1>8, <3>1, IdleIsGood, AgentFrame DEF Answered
  <2> QED
    BY <2>1, <2>2
<1> QED
  BY <1>2, <1>3, <1>4, <1>5, <1>6, <1>7, <1>8 DEF WorkStep

LEMMA LifeKeepsAgents ==
  ASSUME AgentInv, NEW n \in Remote,
         \/ ComesUp(n) \/ Beats(n) \/ Expires(n)
         \/ OpensOut(n) \/ FdsExits(n) \/ AstrayExits(n)
         \/ Raises(n) \/ AgentCrashes(n)
  PROVE  AgentInv'
<1>0. agent[n] \in Agent /\ astray \in [Remote -> SUBSET Job]
  BY DEF AgentInv, AgentTypes
<1>1. IF agent[n].pc \in {"down", "idle"}
      THEN agent[n].job = NoJob /\ agent[n].proc = "none"
      ELSE agent[n].job \in Job
  BY DEF AgentInv, AgentsWork
<1>2. CASE ComesUp(n)
  BY <1>0, <1>2, IdleIsGood, AgentFrame DEF ComesUp, OnlyAgent
<1>3. CASE Beats(n) \/ Expires(n)
  BY <1>3 DEF Beats, Expires, agents, AgentInv, AgentTypes, AgentsWork
<1>4. CASE OpensOut(n)
  <2> DEFINE r == [agent[n] EXCEPT !.out = TRUE]
  <2>1. GoodRecord(r) /\ OnlyAgent(n, r)
    BY <1>0, <1>1, <1>4 DEF OpensOut, GoodRecord, OnlyAgent, Agent, AgentInv, AgentTypes
  <2> QED
    BY <1>0, <1>4, <2>1, AgentFrame DEF OpensOut
<1>5. CASE FdsExits(n)
  <2> DEFINE r == [agent[n] EXCEPT !.proc = "exited"]
  <2>1. GoodRecord(r) /\ OnlyAgent(n, r)
    BY <1>0, <1>1, <1>5 DEF FdsExits, GoodRecord, OnlyAgent, Agent, AgentInv, AgentTypes
  <2> QED
    BY <1>0, <1>5, <2>1, AgentFrame DEF FdsExits
<1>6. CASE AstrayExits(n)
  BY <1>0, <1>6 DEF AstrayExits, AgentInv, AgentTypes, AgentsWork
<1>7. CASE Raises(n)
  <2>1. PICK rest \in SUBSET net :
          IF agent[n].pc = "fail"
          THEN /\ agent' = [agent EXCEPT ![n] = Idle]
               /\ net' = rest
               /\ UNCHANGED astray
          ELSE /\ gives_up(n)
               /\ net' = rest \union {Request(n, "fail", "failed")}
    BY <1>7 DEF Raises
  <2>2. CASE agent[n].pc = "fail"
    BY <1>0, <2>1, <2>2, IdleIsGood, AgentFrame DEF OnlyAgent
  <2>3. CASE agent[n].pc # "fail"
    <3>1. gives_up(n) /\ agent[n].pc \notin {"down", "idle"}
      BY <1>7, <2>1, <2>3 DEF Raises
    <3>2. \A m \in net' \ net : m \in Message /\ m.status \in Terminal
      BY <1>1, <2>1, <2>3, <3>1, RequestIsMessage
    <3> QED
      BY <3>1, <3>2, GivesUp, AgentFrame
  <2> QED
    BY <2>2, <2>3
<1>8. CASE AgentCrashes(n)
  <2>1. OnlyAgent(n, Down) /\ net' \subseteq net
    BY <1>8 DEF AgentCrashes, OnlyAgent
  <2>2. agent[n].proc = "alive" => agent[n].job \in Job
    BY <1>1
  <2>3. astray' \in [Remote -> SUBSET Job]
    BY <1>0, <1>8, <2>2 DEF AgentCrashes
  <2> QED
    BY <2>1, <2>3, IdleIsGood, AgentFrame
<1> QED
  BY <1>2, <1>3, <1>4, <1>5, <1>6, <1>7, <1>8

LEMMA AgentInvStep ==
  ASSUME AgentInv, [ClusterNext]_cvars
  PROVE  AgentInv'
<1>1. CASE ControllerStep \/ UNCHANGED cvars
  BY <1>1 DEF ControllerStep, cvars, agents, AgentInv, AgentTypes, AgentsWork
<1>2. ASSUME NEW m \in net, Handle(m) \/ Refuse(m) PROVE AgentInv'
  BY <1>2 DEF Handle, Refuse, AgentInv, AgentTypes, AgentsWork
<1> QED
  BY <1>1, <1>2, WorkKeepsAgents, LifeKeepsAgents DEF ClusterNext

LEMMA AgentsCorrect == ClusterSpec => []AgentInv
<1>1. ClusterInit => AgentInv
  BY IdleIsGood DEF ClusterInit, AgentInv, AgentTypes, AgentsWork, GoodRecord, Down, Idle
<1>2. AgentInv /\ [ClusterNext]_cvars => AgentInv'
  BY AgentInvStep
<1> QED
  BY <1>1, <1>2, PTL DEF ClusterSpec

-----------------------------------------------------------------------------
(* The cluster implements the queue manager *)

\* Each request that a real agent gets through is one that the open
\* environment of QueueManager may send, and nothing else that an agent does
\* touches the controller.
LEMMA ClusterStep ==
  ASSUME AgentInv, [ClusterNext]_cvars
  PROVE  [Next]_vars
<1>1. CASE ControllerStep
  BY <1>1 DEF ControllerStep, Next
<1>2. ASSUME NEW n \in Remote, ComesUp(n) \/ Beats(n) \/ Expires(n)
      PROVE  AgentStep
  BY <1>2 DEF ComesUp, Beats, Expires, AgentStep
<1>3. ASSUME NEW n \in Remote,
             \/ WorkStep(n) \/ OpensOut(n) \/ FdsExits(n) \/ AstrayExits(n)
             \/ Raises(n) \/ AgentCrashes(n)
      PROVE  UNCHANGED vars
  BY <1>3 DEF WorkStep, Poll, StartsFds, CaseFails, ReportsMetrics, RunIsOver,
     WatchFails, Uploads, Answered, OpensOut, FdsExits, AstrayExits, Raises,
     AgentCrashes
<1>4. ASSUME NEW m \in net, Handle(m) PROVE AgentStep
  <2>1. m.job \in Job /\ (m.op # "start" => m.status \in Terminal)
    BY DEF AgentInv, AgentTypes, AgentsWork, Message
  <2> QED
    BY <1>4, <2>1 DEF Handle, AgentStep
<1>5. CASE UNCHANGED cvars \/ \E m \in net : Refuse(m)
  BY <1>5 DEF cvars, Refuse
<1> QED
  BY <1>1, <1>2, <1>3, <1>4, <1>5 DEF ClusterNext, Next

\* So what is proved of the queue manager may be cited here.  (The other way
\* round it says little: the environment of QueueManager calls any endpoint of
\* agents, for any job of theirs, at any time.)
LEMMA ClusterImplements == ClusterSpec => Spec
<1>1. ClusterInit => Init
  BY DEF ClusterInit
<1>2. AgentInv /\ [ClusterNext]_cvars => [Next]_vars
  BY ClusterStep
<1> QED
  BY <1>1, <1>2, AgentsCorrect, PTL DEF ClusterSpec, Spec

\* Every variable of the cluster keeps its type.
THEOREM ClusterTypeCorrect == ClusterSpec => []ClusterTypeOK
<1>1. AgentInv /\ TypeOK => ClusterTypeOK
  BY DEF AgentInv, AgentTypes, ClusterTypeOK
<1> QED
  BY <1>1, AgentsCorrect, ClusterImplements, TypeCorrect, PTL

\* What holds of the queue manager whatever agents do holds with real agents:
\* one local run, a total order of the queue, outcomes that stay, and the slot
\* that the rest of the service relies on.
THEOREM ClusterInherits ==
  ClusterSpec =>
    [](SlotInvariant /\ OneLocalRun /\ QueuePositions) /\ OutcomeIsFinal /\ ImplementsSlot
BY ClusterImplements, SlotCorrect, OneLocalRunHolds, QueueOrdered, OutcomeIsFinalHolds,
   SlotImplemented, PTL

-----------------------------------------------------------------------------
(* A row keeps the node it was given, and a job its machine *)

\* A node_id that is set is never changed: assign_job_to_node writes only over
\* NULL, and create_job only a row that was not there.
LEMMA NodeKept ==
  ASSUME TypeOK, SlotInvariant, [Next]_vars, NEW k \in Job, jobs[k].node_id # NoNode
  PROVE  jobs'[k].node_id = jobs[k].node_id
<1> DEFINE Keeps(u) == u[k].node_id = jobs[k].node_id
<1>0. jobs \in Table
  BY DEF TypeOK, Table
<1>1. ASSUME NEW j \in Job
      PROVE  /\ \A p \in Positions, d \in Deadline : k # j => Keeps(create_job(jobs, j, p, d))
             /\ Keeps(start_job(jobs, j))
             /\ \A s \in Terminal : Keeps(finish_job(jobs, j, s))
             /\ Keeps(cancel_queued_job(jobs, j))
  BY <1>0, OtherRows, ItsRow, CancelRow DEF SameRow
<1>2. ASSUME NEW j \in Job
      PROVE  /\ \A d \in Deadline : Keeps(set_scheduled_stop(jobs, j, d))
             /\ Keeps(set_stop_requested(jobs, j))
             /\ Keeps(set_start_requested(jobs, j))
             /\ Keeps(archive_finished_jobs(jobs))
             /\ \A f \in Orders(jobs) : Keeps(reorder_queue(jobs, f))
  BY <1>0, AnyRow DEF SameRow
<1>3. CASE OperatorStep
  <2>1. ASSUME NEW j \in Job, NEW d \in Deadline, Enqueue(j, d) PROVE Keeps(jobs')
    BY <1>1, <2>1 DEF Enqueue, SlotInvariant
  <2>2. ASSUME NEW j \in Job, StartJobManually(j) \/ StopRunningJob(j) PROVE Keeps(jobs')
    BY <1>2, <2>2 DEF StartJobManually, start_job_begins, StopRunningJob, stop_running_job
  <2> QED
    BY <1>1, <1>2, <1>3, <2>1, <2>2
    DEF OperatorStep, ArchiveFinished, Reorder, Cancel, SetAutoAdvance, UpdateDeadline
<1>4. ASSUME NEW j \in Job, DeadlinePasses(j) PROVE Keeps(jobs')
  BY <1>4 DEF DeadlinePasses, TypeOK, Row
<1>5. ASSUME NEW j \in Job, NEW s \in Terminal, finalize_job(j, s) PROVE Keeps(jobs')
  BY <1>1, <1>5 DEF finalize_job
<1>6. CASE RunStep
  <2>1. CASE SpawnReturns \/ SpawnRaises
    BY <1>1, <2>1 DEF SpawnReturns, SpawnRaises, TypeOK
  <2>2. ASSUME NEW j \in Job, RunEnds(j) PROVE Keeps(jobs')
    BY <1>5, <2>2 DEF RunEnds, Outcomes
  <2> QED
    BY <1>6, <2>1, <2>2 DEF RunStep, StartIsOver, ProcessExits, ReaderFails, OrphanExits
<1>7. CASE LoopStep
  <2>1. CASE SchedulerTick
    <3>1. online' \in SUBSET Node
      BY <2>1, QueueManagerAssumption DEF SchedulerTick, TypeOK
    <3> QED
      BY <1>0, <2>1, <3>1, TickRow DEF SchedulerTick
  <2>2. CASE SweepStaleRemoteJobs
    <3>1. PICK list \in SUBSET (Job \X {"queued", "running"}) : sweep(list)
      BY <2>2 DEF SweepStaleRemoteJobs, TypeOK, get_running_jobs_with_stale_node, WithStatus
    <3>2. \A e \in list : e[1] \in Job
      OBVIOUS
    <3> QED
      BY <1>5, <3>1, <3>2 DEF sweep
  <2>3. CASE EnforceScheduledStops
    <3>1. PICK list \in SUBSET (Job \X {"queued", "running"}) : enforce(list)
      BY <2>3 DEF EnforceScheduledStops, TypeOK, get_jobs_past_scheduled_stop
    <3>2. \A e \in list : e[1] \in Job
      OBVIOUS
    <3> QED
      BY <1>1, <1>2, <3>1, <3>2 DEF enforce, stop_running_job
  <2>4. CASE DispatchNext
    BY <2>4 DEF DispatchNext, start_job_begins
  <2> QED
    BY <1>7, <2>1, <2>2, <2>3, <2>4 DEF LoopStep
<1>8. CASE Restart
  BY <1>1, <1>8 DEF Restart, recover_stale_running_job, get_running_jobs, WithStatus
<1>9. CASE AgentStep
  BY <1>1, <1>5, <1>9 DEF AgentStep, Register, Heartbeat, HeartbeatExpires, AgentStart,
     AgentFinish
<1>10. CASE UNCHANGED vars
  BY <1>10 DEF vars
<1> QED
  BY <1>3, <1>4, <1>6, <1>7, <1>8, <1>9, <1>10 DEF Next

\* What a step does to the job of an agent, to its processes that nobody
\* watches, and to the requests under way.
LEMMA AgentEffect ==
  ASSUME AgentInv, [ClusterNext]_cvars
  PROVE  /\ \A k \in Remote : \/ agent'[k].job \in {agent[k].job, NoJob}
                              \/ /\ agent'[k].job \in Queued(jobs)
                                 /\ jobs[agent'[k].job].node_id = k
         /\ \A k \in Remote : \A j \in astray'[k] :
              j \in astray[k] \/ (agent[k].job = j /\ agent[k].proc = "alive")
         /\ \A m \in net' :
              m \in net \/ (m.from \in Remote /\ m.job \in Job /\ agent[m.from].job = m.job)
<1>0. agent \in [Remote -> Agent] /\ astray \in [Remote -> SUBSET Job]
  BY DEF AgentInv, AgentTypes
<1>1. CASE ControllerStep \/ UNCHANGED cvars
  BY <1>1 DEF ControllerStep, cvars, agents
<1>2. ASSUME NEW m \in net, Handle(m) \/ Refuse(m)
      PROVE  UNCHANGED <<agent, astray>> /\ net' \subseteq net
  BY <1>2 DEF Handle, Refuse
<1>3. ASSUME NEW n \in Remote,
             \/ WorkStep(n) \/ ComesUp(n) \/ Beats(n) \/ Expires(n)
             \/ OpensOut(n) \/ FdsExits(n) \/ AstrayExits(n)
             \/ Raises(n) \/ AgentCrashes(n)
      PROVE  /\ \A k \in Remote \ {n} : agent'[k] = agent[k] /\ astray'[k] = astray[k]
             /\ \/ agent'[n].job \in {agent[n].job, NoJob}
                \/ /\ agent'[n].job \in Queued(jobs)
                   /\ jobs[agent'[n].job].node_id = n
             /\ \A j \in astray'[n] :
                  j \in astray[n] \/ (agent[n].job = j /\ agent[n].proc = "alive")
             /\ \A m \in net' :
                  m \in net \/ (m.from = n /\ m.job \in Job /\ agent[n].job = m.job)
  <2>0. agent[n] \in Agent
    BY <1>0
  <2>1. agent[n].pc \notin {"down", "idle"} => agent[n].job \in Job
    BY DEF AgentInv, AgentsWork
  <2>2. ASSUME agent[n].job \in Job, NEW op \in {"start", "finish", "fail"},
               NEW s \in Terminal \union {"running"}
        PROVE  Request(n, op, s).from = n /\ Request(n, op, s).job = agent[n].job
    BY <2>2, RequestIsMessage
  <2>3. ASSUME gives_up(n), agent[n].pc \notin {"down", "idle"},
               NEW rest \in SUBSET net, net' = rest \union {Request(n, "fail", "failed")}
        PROVE  /\ \A k \in Remote \ {n} : agent'[k] = agent[k] /\ astray'[k] = astray[k]
               /\ agent'[n].job = agent[n].job
               /\ \A j \in astray'[n] :
                    j \in astray[n] \/ (agent[n].job = j /\ agent[n].proc = "alive")
               /\ \A m \in net' :
                    m \in net \/ (m.from = n /\ m.job \in Job /\ agent[n].job = m.job)
    <3>1. agent'[n] = GivenUp(n) /\ GivenUp(n).job = agent[n].job
          /\ \A k \in Remote \ {n} : agent'[k] = agent[k]
      BY <1>0, <2>3, GivesUp DEF OnlyAgent
    <3>2. /\ \A k \in Remote \ {n} : astray'[k] = astray[k]
          /\ \A j \in astray'[n] :
               j \in astray[n] \/ (agent[n].job = j /\ agent[n].proc = "alive")
      BY <1>0, <2>3 DEF gives_up
    <3> QED
      BY <2>1, <2>2, <2>3, <3>1, <3>2
  <2>4. CASE Poll(n)
    BY <1>0, <2>4 DEF Poll, assignment, IsNextQueuedJob, IsHeadOf, QueuedOn
  <2>5. CASE StartsFds(n)
    BY <1>0, <2>0, <2>1, <2>2, <2>5 DEF StartsFds, Agent
  <2>6. CASE CaseFails(n) \/ WatchFails(n)
    BY <2>3, <2>6 DEF CaseFails, WatchFails
  <2>7. CASE ReportsMetrics(n) \/ OpensOut(n) \/ FdsExits(n) \/ RunIsOver(n)
    BY <1>0, <2>0, <2>7 DEF ReportsMetrics, OpensOut, FdsExits, RunIsOver, Agent
  <2>8. CASE Uploads(n)
    <3>1. PICK s \in Terminal : net' = net \union {Request(n, "finish", s)}
      BY <2>8 DEF Uploads
    <3> QED
      BY <1>0, <2>0, <2>1, <2>2, <2>8, <3>1 DEF Uploads, Agent
  <2>9. CASE Answered(n)
    <3>1. agent'[n].job \in {agent[n].job, NoJob}
      BY <1>0, <2>0, <2>9 DEF Answered, Agent, Idle
    <3> QED
      BY <1>0, <2>9, <3>1 DEF Answered
  <2>10. CASE ComesUp(n)
    BY <1>0, <2>10 DEF ComesUp, Idle
  <2>11. CASE Beats(n) \/ Expires(n)
    BY <2>11 DEF Beats, Expires, agents
  <2>12. CASE AstrayExits(n)
    BY <1>0, <2>12 DEF AstrayExits
  <2>13. CASE Raises(n)
    <3>1. PICK rest \in SUBSET net :
            IF agent[n].pc = "fail"
            THEN /\ agent' = [agent EXCEPT ![n] = Idle]
                 /\ net' = rest
                 /\ UNCHANGED astray
            ELSE /\ gives_up(n)
                 /\ net' = rest \union {Request(n, "fail", "failed")}
      BY <2>13 DEF Raises
    <3>2. CASE agent[n].pc = "fail"
      BY <1>0, <3>1, <3>2 DEF Idle
    <3>3. CASE agent[n].pc # "fail"
      BY <2>3, <2>13, <3>1, <3>3 DEF Raises
    <3> QED
      BY <3>2, <3>3
  <2>14. CASE AgentCrashes(n)
    <3>1. agent'[n] = Down /\ Down.job = NoJob
          /\ \A k \in Remote \ {n} : agent'[k] = agent[k]
      BY <1>0, <2>14 DEF AgentCrashes, Down, Idle
    <3> QED
      BY <1>0, <2>14, <3>1 DEF AgentCrashes
  <2> QED
    BY <1>3, <2>4, <2>5, <2>6, <2>7, <2>8, <2>9, <2>10, <2>11, <2>12, <2>13, <2>14
    DEF WorkStep
<1> QED
  BY <1>1, <1>2, <1>3 DEF ClusterNext

\* Agents work on, run and report only what is assigned to their machine.
AtItsNode ==
  /\ \A n \in Remote : agent[n].job # NoJob => jobs[agent[n].job].node_id = n
  /\ \A n \in Remote : \A j \in astray[n] : jobs[j].node_id = n
  /\ \A m \in net : jobs[m.job].node_id = m.from

LEMMA AtItsNodeStep ==
  ASSUME TypeOK, SlotInvariant, AgentInv, AtItsNode, [ClusterNext]_cvars
  PROVE  AtItsNode'
<1>0. Remote \subseteq Node /\ NoNode \notin Remote
  BY JobTableAssumption DEF Remote
<1>1. ASSUME NEW j \in Job, NEW n \in Remote, jobs[j].node_id = n
      PROVE  jobs'[j].node_id = n
  BY <1>0, <1>1, ClusterStep, NodeKept
<1>2. \A n \in Remote : agent[n].job # NoJob => agent[n].job \in Job
  BY DEF AgentInv, AgentTypes, Agent
<1>3. ASSUME NEW n \in Remote, agent'[n].job # NoJob
      PROVE  jobs'[agent'[n].job].node_id = n
  BY <1>1, <1>2, <1>3, AgentEffect DEF AtItsNode, Queued, WithStatus
<1>4. ASSUME NEW n \in Remote, NEW j \in astray'[n]
      PROVE  jobs'[j].node_id = n
  <2>1. j \in Job
    BY AgentInvStep DEF AgentInv, AgentTypes
  <2>2. jobs[j].node_id = n
    BY <2>1, AgentEffect, QueueManagerAssumption DEF AtItsNode
  <2> QED
    BY <1>1, <2>1, <2>2
<1>5. ASSUME NEW m \in net'
      PROVE  jobs'[m.job].node_id = m.from
  <2>1. m.from \in Remote /\ m.job \in Job
    BY AgentInvStep DEF AgentInv, AgentTypes, Message
  <2>2. jobs[m.job].node_id = m.from
    BY <2>1, AgentEffect, QueueManagerAssumption DEF AtItsNode
  <2> QED
    BY <1>1, <2>1, <2>2
<1> QED
  BY <1>3, <1>4, <1>5 DEF AtItsNode

LEMMA AtItsNodeHolds == ClusterSpec => []AtItsNode
<1>1. ClusterInit => AtItsNode
  BY DEF ClusterInit, AtItsNode, Down, Idle
<1>2. TypeOK /\ SlotInvariant /\ AgentInv /\ AtItsNode /\ [ClusterNext]_cvars => AtItsNode'
  BY AtItsNodeStep
<1> QED
  BY <1>1, <1>2, ClusterImplements, TypeCorrect, SlotCorrect, AgentsCorrect, PTL
  DEF ClusterSpec

\* Crashes, lost, late and refused requests, retries and restarts of the
\* controller may have the machine of an agent start a job again; they never
\* have two of these machines run it.  Of Local nothing is said here.
THEOREM RunsOnOneAgentHolds == ClusterSpec => []RunsOnOneAgent
<1>1. AgentInv /\ AtItsNode => RunsOnOneAgent
  BY QueueManagerAssumption DEF AtItsNode, RunsOnOneAgent, RunsOn
<1> QED
  BY <1>1, AgentsCorrect, AtItsNodeHolds, PTL

\* What an agent does by itself changes no row.
LEMMA RowsOfOthers ==
  ASSUME NEW n \in Remote,
         \/ ComesUp(n) \/ Beats(n) \/ Expires(n)
         \/ WorkStep(n) \/ OpensOut(n) \/ FdsExits(n) \/ AstrayExits(n)
         \/ Raises(n) \/ AgentCrashes(n)
  PROVE  jobs' = jobs
BY DEF ComesUp, Register, Beats, Heartbeat, Expires, HeartbeatExpires, WorkStep, Poll,
   StartsFds, CaseFails, ReportsMetrics, RunIsOver, WatchFails, Uploads, Answered,
   OpensOut, FdsExits, AstrayExits, Raises, AgentCrashes, vars

\* Another outcome in the place of a recorded one comes from a start or a run
\* here, from the job's own machine, or from the sweep.
THEOREM OutcomeIsTheirsHolds == ClusterSpec => OutcomeIsTheirs
<1> DEFINE Causes(k) ==
      \/ k = starting
      \/ HasProcess(k) /\ IsRemote(k)
      \/ \E m \in net \ net' : m.job = k /\ m.from = jobs[k].node_id
      \/ loop = "sweeping" /\ (\E e \in todo : e[1] = k) /\ jobs'[k].status = "failed"
<1>1. ASSUME TypeOK, SlotInvariant, AgentInv, AtItsNode, ClusterNext,
             NEW k \in Job, Rewrites(k)
      PROVE  Causes(k)
  <2>0. jobs \in Table
    BY <1>1 DEF TypeOK, Table
  <2>1. CASE ControllerStep
    BY <1>1, <2>1, ControllerRewrites
    DEF ControllerStep, StartRewrites, RunRewrites, SweepRewrites
  <2>2. ASSUME NEW m \in net, Handle(m) PROVE Causes(k)
    <3>1. m.job \in Job /\ (m.op # "start" => m.status \in Terminal)
      BY <1>1 DEF AgentInv, AgentTypes, AgentsWork, Message
    <3>2. k = m.job
      BY <1>1, <2>0, <2>2, <3>1, OtherRows
      DEF Handle, AgentStart, AgentFinish, finalize_job, Rewrites
    <3>3. m \in net \ net' /\ m.from = jobs[m.job].node_id
      BY <1>1, <2>2 DEF Handle, AtItsNode
    <3> QED
      BY <3>2, <3>3
  <2>3. ASSUME NEW n \in Remote,
               \/ ComesUp(n) \/ Beats(n) \/ Expires(n)
               \/ WorkStep(n) \/ OpensOut(n) \/ FdsExits(n) \/ AstrayExits(n)
               \/ Raises(n) \/ AgentCrashes(n)
        PROVE  jobs' = jobs
    BY <2>3, RowsOfOthers
  <2>4. CASE \E m \in net : Refuse(m)
    BY <1>1, <2>4 DEF Refuse, vars, Rewrites
  <2> QED
    BY <1>1, <2>1, <2>2, <2>3, <2>4 DEF ClusterNext, Rewrites
<1>2. TypeOK /\ SlotInvariant /\ AgentInv /\ AtItsNode /\ [ClusterNext]_cvars
      => [\A j \in Job :
            jobs[j].status \in Terminal /\ jobs'[j].status # jobs[j].status =>
              \/ j = starting
              \/ HasProcess(j) /\ IsRemote(j)
              \/ \E m \in net \ net' : m.job = j /\ m.from = jobs[j].node_id
              \/ /\ loop = "sweeping" /\ \E e \in todo : e[1] = j
                 /\ jobs'[j].status = "failed"]_cvars
  BY <1>1 DEF Rewrites
<1> QED
  BY <1>2, ClusterImplements, TypeCorrect, SlotCorrect, AgentsCorrect, AtItsNodeHolds,
     PTL DEF ClusterSpec, OutcomeIsTheirs

-----------------------------------------------------------------------------
(* Starts by hand wait for the assignment: local runs are local             *)

\* What this machine starts or runs is assigned to it.
LocalsAreLocal ==
  /\ starting # NoJob => jobs[starting].node_id = Local
  /\ \A j \in Job : HasProcess(j) => jobs[j].node_id = Local

LEMMA LocalFrame ==
  ASSUME TypeOK, SlotInvariant, LocalsAreLocal, [Next]_vars,
         starting' \in {starting, NoJob},
         \A j \in Job : HasProcess(j)' => HasProcess(j) \/ (j = starting /\ j # NoJob)
  PROVE  LocalsAreLocal'
<1>1. Local # NoNode
  BY JobTableAssumption, QueueManagerAssumption
<1>2. ASSUME NEW j \in Job, jobs[j].node_id = Local PROVE jobs'[j].node_id = Local
  BY <1>1, <1>2, NodeKept
<1>3. starting # NoJob => starting \in Job
  BY DEF TypeOK
<1> QED
  BY <1>2, <1>3 DEF LocalsAreLocal, HasProcess

\* A start begins with a job of this node or of none, and a job of none is
\* excluded by hypothesis.
LEMMA LocalBegins ==
  ASSUME TypeOK, LocalsAreLocal, NEW j \in Job, start_job_begins(j),
         jobs[j].node_id \in {NoNode, Local}, StartsWaitForAssignment'
  PROVE  LocalsAreLocal'
BY QueueManagerAssumption
DEF start_job_begins, StartsWaitForAssignment, LocalsAreLocal, HasProcess

LEMMA LocalStep ==
  ASSUME TypeOK, SlotInvariant, LocalsAreLocal, [Next]_vars, StartsWaitForAssignment'
  PROVE  LocalsAreLocal'
<1>1. CASE UNCHANGED <<starting, proc>>
  BY <1>1, LocalFrame DEF HasProcess
<1>2. CASE OperatorStep
  <2>1. ASSUME NEW j \in Job, StartJobManually(j) PROVE LocalsAreLocal'
    BY <1>1, <2>1, LocalBegins DEF StartJobManually, local
  <2> QED
    BY <1>1, <1>2, <2>1 DEF OperatorStep, Enqueue, ArchiveFinished, Reorder, Cancel,
       StopRunningJob, stop_running_job, SetAutoAdvance, UpdateDeadline, local
<1>3. ASSUME NEW j \in Job, DeadlinePasses(j) PROVE LocalsAreLocal'
  BY <1>1, <1>3 DEF DeadlinePasses, local
<1>4. CASE RunStep
  <2>1. starting' \in {starting, NoJob}
    BY <1>4 DEF RunStep, SpawnReturns, SpawnRaises, StartIsOver, ProcessExits, RunEnds,
       ReaderFails, OrphanExits
  <2>2. ASSUME NEW k \in Job, HasProcess(k)'
        PROVE  HasProcess(k) \/ (k = starting /\ k # NoJob)
    <3>1. CASE SpawnReturns
      BY <2>2, <3>1 DEF SpawnReturns, HasProcess, TypeOK
    <3>2. ASSUME NEW j \in Job, ProcessExits(j) \/ RunEnds(j) \/ ReaderFails(j)
          PROVE  HasProcess(k)
      BY <2>2, <3>2 DEF ProcessExits, RunEnds, ReaderFails, HasProcess, TypeOK
    <3>3. CASE UNCHANGED proc
      BY <2>2, <3>3 DEF HasProcess
    <3> QED
      BY <1>4, <3>1, <3>2, <3>3 DEF RunStep, SpawnRaises, StartIsOver, OrphanExits
  <2> QED
    BY <1>4, <2>1, <2>2, LocalFrame DEF Next
<1>5. CASE LoopStep
  <2>1. CASE DispatchNext
    <3>1. ASSUME NEW j \in Job, IsNextQueuedJob(jobs, Local, j), start_job_begins(j)
          PROVE  LocalsAreLocal'
      <4>1. jobs[j].node_id = Local
        BY <3>1 DEF IsNextQueuedJob, IsHeadOf, QueuedOn
      <4> QED
        BY <3>1, <4>1, LocalBegins
    <3> QED
      BY <1>1, <2>1, <3>1 DEF DispatchNext, local
  <2> QED
    BY <1>1, <1>5, <2>1 DEF LoopStep, SchedulerTick, SweepStaleRemoteJobs,
       EnforceScheduledStops, enforce, stop_running_job, local
<1>6. CASE Restart
  BY <1>6 DEF Restart, LocalsAreLocal, HasProcess
<1>7. CASE AgentStep
  BY <1>1, <1>7 DEF AgentStep, Register, Heartbeat, HeartbeatExpires, AgentStart,
     AgentFinish, local
<1>8. CASE UNCHANGED vars
  BY <1>1, <1>8 DEF vars, local
<1> QED
  BY <1>2, <1>3, <1>4, <1>5, <1>6, <1>7, <1>8 DEF Next

LEMMA LocalsHold == Spec /\ []StartsWaitForAssignment => []LocalsAreLocal
<1>1. Init => LocalsAreLocal
  BY DEF Init, LocalsAreLocal, HasProcess
<1>2. /\ TypeOK /\ SlotInvariant /\ LocalsAreLocal
      /\ [Next]_vars /\ StartsWaitForAssignment'
      => LocalsAreLocal'
  BY LocalStep
<1> QED
  BY <1>1, <1>2, TypeCorrect, SlotCorrect, PTL DEF Spec

\* No agent leaves a process behind, as far as the faults of the code go: what
\* fails in the except clause fails before FDS starts or after it has ended.
NothingAstray ==
  \A n \in Remote :
    /\ astray[n] = {}
    /\ agent[n].pc = "fetch" => agent[n].proc = "none"

\* Each request is handled or refused while its sender waits for the answer ...
Delivered == {"lost", "late"} \intersect AgentFaults = {}

\* ... and none is refused.
Reliable == {"lost", "late", "refused"} \intersect AgentFaults = {}

LEMMA NothingAstrayStep ==
  ASSUME Delivered, "outlive" \notin AgentFaults,
         AgentInv, NothingAstray, [ClusterNext]_cvars
  PROVE  NothingAstray'
<1>0. agent \in [Remote -> Agent] /\ astray \in [Remote -> SUBSET Job]
  BY DEF AgentInv, AgentTypes
<1>1. CASE UNCHANGED <<agent, astray>>
  BY <1>1 DEF NothingAstray
<1>2. ASSUME NEW n \in Remote, WorkStep(n) PROVE NothingAstray'
  <2>0. agent[n] \in Agent
    BY <1>0
  <2>1. CASE Poll(n)
    BY <1>0, <2>1 DEF Poll, NothingAstray
  <2>2. CASE StartsFds(n) \/ ReportsMetrics(n) \/ RunIsOver(n) \/ Uploads(n)
    BY <1>0, <2>0, <2>2 DEF StartsFds, ReportsMetrics, RunIsOver, Uploads, NothingAstray, Agent
  <2>3. CASE CaseFails(n) \/ WatchFails(n)
    <3>1. gives_up(n) /\ agent[n].proc # "alive" /\ agent[n].pc \notin {"down", "idle"}
      BY <2>3 DEF CaseFails, WatchFails, NothingAstray
    <3>2. astray' = astray
      BY <3>1 DEF gives_up
    <3>3. \A k \in Remote : k # n => agent'[k] = agent[k]
      BY <1>0, <3>1 DEF gives_up
    <3>4. agent'[n].pc = "fail"
      BY <1>0, <3>1, GivesUp DEF OnlyAgent
    <3> QED
      BY <3>2, <3>3, <3>4 DEF NothingAstray
  <2>4. CASE Answered(n)
    BY <1>0, <2>0, <2>4 DEF Answered, NothingAstray, Agent, Idle
  <2> QED
    BY <1>2, <2>1, <2>2, <2>3, <2>4 DEF WorkStep
<1>3. ASSUME NEW n \in Remote, ComesUp(n) PROVE NothingAstray'
  BY <1>0, <1>3 DEF ComesUp, NothingAstray, Idle
<1>4. ASSUME NEW n \in Remote, OpensOut(n) \/ FdsExits(n) PROVE NothingAstray'
  <2>0. agent[n] \in Agent
    BY <1>0
  <2> QED
    BY <1>0, <1>4, <2>0 DEF OpensOut, FdsExits, NothingAstray, Agent
<1>5. ASSUME NEW n \in Remote, AstrayExits(n) \/ Raises(n) PROVE FALSE
  BY <1>5 DEF AstrayExits, Raises, NothingAstray, Delivered
<1>6. ASSUME NEW n \in Remote, AgentCrashes(n) PROVE NothingAstray'
  <2>1. Down.pc = "down"
    BY DEF Down, Idle
  <2> QED
    BY <1>0, <1>6, <2>1 DEF AgentCrashes, NothingAstray
<1> QED
  BY <1>1, <1>2, <1>3, <1>4, <1>5, <1>6
  DEF ClusterNext, ControllerStep, Beats, Expires, Handle, Refuse, cvars, agents

\* No FDS process outlives the service.
NoOrphans == orphans = {}

LEMMA NoOrphansHolds ==
  ASSUME "survive" \notin Faults
  PROVE  Spec => []NoOrphans
<1>1. Init => NoOrphans
  BY DEF Init, NoOrphans
<1>2. NoOrphans /\ [Next]_vars => NoOrphans'
  <2> SUFFICES ASSUME NoOrphans, [Next]_vars PROVE NoOrphans'
    OBVIOUS
  <2>1. CASE Next
    BY <2>1
    DEF NoOrphans, Next, OperatorStep, Enqueue, ArchiveFinished, Reorder, Cancel,
        StopRunningJob, stop_running_job, StartJobManually, start_job_begins,
        SetAutoAdvance, UpdateDeadline, DeadlinePasses, RunStep, SpawnReturns,
        SpawnRaises, StartIsOver, ProcessExits, RunEnds, ReaderFails, OrphanExits,
        LoopStep, SchedulerTick, SweepStaleRemoteJobs, EnforceScheduledStops, enforce,
        DispatchNext, Restart, AgentStep, Register, Heartbeat, HeartbeatExpires,
        AgentStart, AgentFinish, local
  <2>2. CASE UNCHANGED vars
    BY <2>2 DEF vars, local, NoOrphans
  <2> QED
    BY <2>1, <2>2
<1> QED
  BY <1>1, <1>2, PTL DEF Spec

\* If no request is lost or late, no FDS process outlives its agent or the
\* service and starts by hand wait for the assignment, a job has one FDS process
\* in the whole cluster, whatever crashes, fails, is refused, is cut off or
\* restarted.
THEOREM RunsOnceHolds ==
  ASSUME Delivered, "outlive" \notin AgentFaults, "survive" \notin Faults
  PROVE  ClusterSpec /\ []StartsWaitForAssignment => []RunsOnce
<1>1. ClusterInit => NothingAstray
  BY DEF ClusterInit, NothingAstray, Down, Idle
<1>2. AgentInv /\ NothingAstray /\ [ClusterNext]_cvars => NothingAstray'
  BY NothingAstrayStep
<1>3. ClusterSpec => []NothingAstray
  BY <1>1, <1>2, AgentsCorrect, PTL DEF ClusterSpec
<1>4. AtItsNode /\ LocalsAreLocal /\ NothingAstray /\ NoOrphans => RunsOnce
  <2> SUFFICES ASSUME AtItsNode, LocalsAreLocal, NothingAstray, NoOrphans,
                      NEW j \in Job, NEW p \in FdsOf(j)
               PROVE  p = <<jobs[j].node_id, TRUE>>
    BY DEF RunsOnce
  <2>0. p[1] \in Node /\ p[2] \in BOOLEAN /\ p = <<p[1], p[2]>>
    BY DEF FdsOf
  <2>1. CASE p[1] = Local
    <3>1. IF p[2] THEN proc[j] = "alive" ELSE j \in orphans
      BY <2>1 DEF FdsOf
    <3>2. p[2] = TRUE /\ jobs[j].node_id = Local
      BY <2>0, <3>1 DEF LocalsAreLocal, NoOrphans, HasProcess
    <3> QED
      BY <2>0, <2>1, <3>2
  <2>2. CASE p[1] # Local
    <3>1. IF p[2] THEN agent[p[1]].job = j ELSE j \in astray[p[1]]
      BY <2>2 DEF FdsOf
    <3>2. p[1] \in Remote
      BY <2>0, <2>2 DEF Remote
    <3>3. p[2] = TRUE /\ jobs[j].node_id = p[1]
      BY <2>0, <3>1, <3>2, QueueManagerAssumption DEF AtItsNode, NothingAstray
    <3> QED
      BY <2>0, <3>3
  <2> QED
    BY <2>1, <2>2
<1> QED
  BY <1>3, <1>4, AtItsNodeHolds, LocalsHold, NoOrphansHolds, ClusterImplements, PTL

-----------------------------------------------------------------------------
(* A watched run is a running row                                            *)

\* Every request under way is one that its sender still waits for.
AllPending == \A m \in net : agent[m.from].pc = m.op /\ agent[m.from].job = m.job

\* An agent that is up is online.
UpIsOnline == \A n \in Remote : agent[n].pc # "down" => n \in online

\* The report of the start is through (or the run already watched).
Watches(n) ==
  \/ agent[n].pc \in {"run", "upload"}
  \/ agent[n].pc = "start" /\ \A m \in net : m.from # n

WatchedRuns == \A n \in Remote : Watches(n) => jobs[agent[n].job].status = "running"

\* What the sweep has yet to close was started before and is in no agent's
\* hands, also if that agent is back by now.
SweepsTheAbandoned ==
  loop = "sweeping" =>
    \A e \in todo : /\ jobs[e[1]].status \notin {"absent", "queued"}
                    /\ \A n \in Remote : agent[n].job # e[1]

WatchInv == AllPending /\ UpIsOnline /\ WatchedRuns /\ SweepsTheAbandoned

\* Rows that say running or have an outcome never return to the queue.
LEMMA NeverRequeued ==
  ASSUME TypeOK, [Next]_vars, NEW k \in Job, jobs[k].status \notin {"absent", "queued"}
  PROVE  jobs'[k].status \notin {"absent", "queued"}
<1> DEFINE Out(u) == u[k].status \notin {"absent", "queued"}
<1>0. jobs \in Table
  BY DEF TypeOK, Table
<1>1. ASSUME NEW j \in Job
      PROVE  /\ \A p \in Positions, d \in Deadline : k # j => Out(create_job(jobs, j, p, d))
             /\ Out(start_job(jobs, j))
             /\ \A s \in Terminal : Out(finish_job(jobs, j, s))
             /\ Out(cancel_queued_job(jobs, j))
  <2>1. CASE k = j
    BY <1>0, <2>1, ItsRow, CancelRow DEF SameRow
  <2>2. CASE k # j
    BY <1>0, <2>2, OtherRows, CancelRow DEF SameRow
  <2> QED
    BY <2>1, <2>2
<1>2. ASSUME NEW j \in Job
      PROVE  /\ \A d \in Deadline : Out(set_scheduled_stop(jobs, j, d))
             /\ Out(set_stop_requested(jobs, j))
             /\ Out(set_start_requested(jobs, j))
             /\ Out(archive_finished_jobs(jobs))
             /\ \A f \in Orders(jobs) : Out(reorder_queue(jobs, f))
  BY <1>0, AnyRow DEF SameRow
<1>3. CASE OperatorStep
  <2>1. ASSUME NEW j \in Job, NEW d \in Deadline, Enqueue(j, d) PROVE Out(jobs')
    BY <1>1, <2>1 DEF Enqueue
  <2>2. ASSUME NEW j \in Job, StartJobManually(j) \/ StopRunningJob(j) PROVE Out(jobs')
    BY <1>2, <2>2 DEF StartJobManually, start_job_begins, StopRunningJob, stop_running_job
  <2> QED
    BY <1>1, <1>2, <1>3, <2>1, <2>2
    DEF OperatorStep, ArchiveFinished, Reorder, Cancel, SetAutoAdvance, UpdateDeadline
<1>4. ASSUME NEW j \in Job, DeadlinePasses(j) PROVE Out(jobs')
  BY <1>4 DEF DeadlinePasses, TypeOK, Row
<1>5. ASSUME NEW j \in Job, NEW s \in Terminal, finalize_job(j, s) PROVE Out(jobs')
  BY <1>1, <1>5 DEF finalize_job
<1>6. CASE RunStep
  <2>1. CASE SpawnReturns \/ SpawnRaises
    BY <1>1, <2>1 DEF SpawnReturns, SpawnRaises, TypeOK
  <2>2. ASSUME NEW j \in Job, RunEnds(j) PROVE Out(jobs')
    BY <1>5, <2>2 DEF RunEnds, Outcomes
  <2> QED
    BY <1>6, <2>1, <2>2 DEF RunStep, StartIsOver, ProcessExits, ReaderFails, OrphanExits
<1>7. CASE LoopStep
  <2>1. CASE SchedulerTick
    <3>1. online' \in SUBSET Node
      BY <2>1, QueueManagerAssumption DEF SchedulerTick, TypeOK
    <3> QED
      BY <1>0, <2>1, <3>1, TickRow DEF SchedulerTick
  <2>2. CASE SweepStaleRemoteJobs
    <3>1. PICK list \in SUBSET (Job \X {"queued", "running"}) : sweep(list)
      BY <2>2 DEF SweepStaleRemoteJobs, TypeOK, get_running_jobs_with_stale_node, WithStatus
    <3>2. \A e \in list : e[1] \in Job
      OBVIOUS
    <3> QED
      BY <1>5, <3>1, <3>2 DEF sweep
  <2>3. CASE EnforceScheduledStops
    <3>1. PICK list \in SUBSET (Job \X {"queued", "running"}) : enforce(list)
      BY <2>3 DEF EnforceScheduledStops, TypeOK, get_jobs_past_scheduled_stop
    <3>2. \A e \in list : e[1] \in Job
      OBVIOUS
    <3> QED
      BY <1>1, <1>2, <3>1, <3>2 DEF enforce, stop_running_job
  <2>4. CASE DispatchNext
    BY <2>4 DEF DispatchNext, start_job_begins
  <2> QED
    BY <1>7, <2>1, <2>2, <2>3, <2>4 DEF LoopStep
<1>8. CASE Restart
  BY <1>1, <1>8 DEF Restart, recover_stale_running_job, get_running_jobs, WithStatus
<1>9. CASE AgentStep
  BY <1>1, <1>5, <1>9 DEF AgentStep, Register, Heartbeat, HeartbeatExpires, AgentStart,
     AgentFinish
<1>10. CASE UNCHANGED vars
  BY <1>10 DEF vars
<1> QED
  BY <1>3, <1>4, <1>6, <1>7, <1>8, <1>9, <1>10 DEF Next

\* The controller itself ends only local runs and those that it sweeps: of a
\* row of another node it changes the status only to cancel it in the queue.
LEMMA RemoteRowKept ==
  ASSUME TypeOK, SlotInvariant, LocalsAreLocal, NEW k \in Job, IsRemote(k),
         \/ OperatorStep \/ (\E j \in Job : DeadlinePasses(j)) \/ RunStep
         \/ SchedulerTick \/ EnforceScheduledStops \/ DispatchNext \/ Restart
  PROVE  \/ jobs'[k].status = jobs[k].status
         \/ jobs[k].status = "queued" /\ jobs'[k].status = "cancelled"
<1> DEFINE Keeps(u) == \/ u[k].status = jobs[k].status
                       \/ jobs[k].status = "queued" /\ u[k].status = "cancelled"
<1>0. /\ jobs \in Table /\ jobs[k].node_id # Local /\ jobs[k].node_id # NoNode
  BY JobTableAssumption DEF TypeOK, Table, IsRemote, Remote
<1>1. ASSUME NEW j \in Job
      PROVE  /\ \A p \in Positions, d \in Deadline : k # j => Keeps(create_job(jobs, j, p, d))
             /\ k # j => Keeps(start_job(jobs, j))
             /\ \A s \in Terminal : k # j => Keeps(finish_job(jobs, j, s))
             /\ Keeps(cancel_queued_job(jobs, j))
             /\ \A d \in Deadline : Keeps(set_scheduled_stop(jobs, j, d))
             /\ Keeps(set_stop_requested(jobs, j))
             /\ Keeps(set_start_requested(jobs, j))
             /\ Keeps(archive_finished_jobs(jobs))
             /\ \A f \in Orders(jobs) : Keeps(reorder_queue(jobs, f))
  <2>1. /\ \A p \in Positions, d \in Deadline : k # j => Keeps(create_job(jobs, j, p, d))
        /\ k # j => Keeps(start_job(jobs, j))
        /\ \A s \in Terminal : k # j => Keeps(finish_job(jobs, j, s))
    BY <1>0, OtherRows
  <2>2. Keeps(cancel_queued_job(jobs, j))
    BY <1>0, CancelRow DEF SameRow
  <2> QED
    BY <1>0, <2>1, <2>2, AnyRow DEF SameRow
<1>2. CASE OperatorStep
  <2>1. ASSUME NEW j \in Job, NEW d \in Deadline, Enqueue(j, d) PROVE Keeps(jobs')
    BY <1>0, <1>1, <2>1 DEF Enqueue, SlotInvariant
  <2>2. ASSUME NEW j \in Job, StartJobManually(j) \/ StopRunningJob(j) PROVE Keeps(jobs')
    BY <1>1, <2>2 DEF StartJobManually, start_job_begins, StopRunningJob, stop_running_job
  <2> QED
    BY <1>1, <1>2, <2>1, <2>2
    DEF OperatorStep, ArchiveFinished, Reorder, Cancel, SetAutoAdvance, UpdateDeadline
<1>3. ASSUME NEW j \in Job, DeadlinePasses(j) PROVE Keeps(jobs')
  BY <1>3 DEF DeadlinePasses, TypeOK, Row
<1>4. CASE RunStep
  <2>1. starting # NoJob => starting \in Job /\ k # starting
    BY <1>0 DEF LocalsAreLocal, TypeOK
  <2>2. CASE SpawnReturns \/ SpawnRaises
    BY <1>1, <2>1, <2>2 DEF SpawnReturns, SpawnRaises
  <2>3. ASSUME NEW j \in Job, RunEnds(j) PROVE Keeps(jobs')
    <3>1. k # j
      BY <1>0, <2>3 DEF RunEnds, LocalsAreLocal, HasProcess
    <3> QED
      BY <1>1, <2>3, <3>1 DEF RunEnds, finalize_job, Outcomes
  <2> QED
    BY <1>4, <2>2, <2>3 DEF RunStep, StartIsOver, ProcessExits, ReaderFails, OrphanExits
<1>5. CASE SchedulerTick
  <2>1. online' \in SUBSET Node
    BY <1>5, QueueManagerAssumption DEF SchedulerTick, TypeOK
  <2> QED
    BY <1>0, <1>5, <2>1, TickRow DEF SchedulerTick
<1>6. CASE EnforceScheduledStops
  <2>1. PICK list \in SUBSET (Job \X {"queued", "running"}) : enforce(list)
    BY <1>6 DEF EnforceScheduledStops, TypeOK, get_jobs_past_scheduled_stop
  <2>2. \A e \in list : e[1] \in Job
    OBVIOUS
  <2> QED
    BY <1>1, <2>1, <2>2 DEF enforce, stop_running_job
<1>7. CASE DispatchNext
  BY <1>7 DEF DispatchNext, start_job_begins
<1>8. CASE Restart
  <2>1. \A j \in get_running_jobs(jobs, Local) : j \in Job /\ k # j
    BY <1>0 DEF get_running_jobs, WithStatus
  <2> QED
    BY <1>1, <1>8, <2>1 DEF Restart, recover_stale_running_job
<1> QED
  BY <1>2, <1>3, <1>4, <1>5, <1>6, <1>7, <1>8

\* The sweep leaves alone what an agent watches: it read its list while the
\* machine of each row on it was offline, and so its agent down.
LEMMA WatchSweep ==
  ASSUME TypeOK, SlotInvariant, AgentInv, AtItsNode, WatchInv,
         SweepStaleRemoteJobs, UNCHANGED agents
  PROVE  WatchedRuns' /\ SweepsTheAbandoned'
<1>0. jobs \in Table
  BY DEF TypeOK, Table
<1>1. ASSUME NEW list \in SUBSET (Job \X {"queued", "running"}), sweep(list),
             \A e \in list : /\ jobs[e[1]].status \notin {"absent", "queued"}
                             /\ \A n \in Remote : agent[n].job # e[1]
      PROVE  WatchedRuns' /\ SweepsTheAbandoned'
  <2>1. CASE list = {}
    BY <1>1, <2>1 DEF sweep, agents, WatchInv, WatchedRuns, Watches, SweepsTheAbandoned
  <2>2. CASE list # {}
    <3>1. PICK e \in list : /\ finalize_job(e[1], "failed")
                            /\ loop' = "sweeping" /\ todo' = list \ {e}
      BY <1>1, <2>2 DEF sweep
    <3>2. e[1] \in Job
      OBVIOUS
    <3>3. \A k \in Job : k # e[1] => jobs'[k] = jobs[k]
      BY <1>0, <3>1, <3>2, OtherRows DEF finalize_job
    <3>4. jobs'[e[1]].status = "failed"
      BY <1>0, <3>1, <3>2, ItsRow DEF finalize_job
    <3>5. WatchedRuns'
      <4> SUFFICES ASSUME NEW n \in Remote, Watches(n)' PROVE jobs'[agent'[n].job].status = "running"
        BY DEF WatchedRuns
      <4>1. Watches(n) /\ agent'[n] = agent[n]
        BY DEF Watches, agents
      <4>2. agent[n].job \in Job
        BY <4>1 DEF Watches, AgentInv, AgentsWork
      <4>3. agent[n].job # e[1]
        BY <1>1
      <4> QED
        BY <3>3, <4>1, <4>2, <4>3 DEF WatchInv, WatchedRuns
    <3>6. SweepsTheAbandoned'
      <4> SUFFICES ASSUME NEW x \in todo'
                   PROVE  /\ jobs'[x[1]].status \notin {"absent", "queued"}
                          /\ \A n \in Remote : agent'[n].job # x[1]
        BY DEF SweepsTheAbandoned
      <4>1. x \in list /\ x[1] \in Job
        BY <3>1
      <4> QED
        BY <1>1, <3>3, <3>4, <4>1 DEF agents
    <3> QED
      BY <3>5, <3>6
  <2> QED
    BY <2>1, <2>2
<1>2. CASE loop = "sweep"
  <2> DEFINE list == {j \in get_running_jobs_with_stale_node(jobs, nodes \ online) :
                        jobs[j].node_id # Local} \X {"running"}
  <2>1. sweep(list)
    BY <1>2 DEF SweepStaleRemoteJobs
  <2>2. list \in SUBSET (Job \X {"queued", "running"})
    BY DEF get_running_jobs_with_stale_node, WithStatus
  <2>3. ASSUME NEW e \in list
        PROVE  /\ jobs[e[1]].status \notin {"absent", "queued"}
               /\ \A n \in Remote : agent[n].job # e[1]
    <3>1. e[1] \in Job /\ jobs[e[1]].status = "running" /\ jobs[e[1]].node_id \in nodes \ online
      BY DEF get_running_jobs_with_stale_node, WithStatus
    <3>2. ASSUME NEW n \in Remote, agent[n].job = e[1] PROVE FALSE
      <4>1. agent[n].job # NoJob /\ jobs[e[1]].node_id = n
        BY <3>1, <3>2, QueueManagerAssumption DEF AtItsNode
      <4>2. n \in online
        BY <4>1 DEF AgentInv, AgentsWork, WatchInv, UpIsOnline
      <4> QED
        BY <3>1, <4>1, <4>2
    <3> QED
      BY <3>1, <3>2
  <2> QED
    BY <1>1, <2>1, <2>2, <2>3
<1>3. CASE loop = "sweeping"
  <2>1. sweep(todo) /\ todo \in SUBSET (Job \X {"queued", "running"})
    BY <1>3 DEF SweepStaleRemoteJobs, TypeOK
  <2> QED
    BY <1>1, <1>3, <2>1 DEF WatchInv, SweepsTheAbandoned
<1> QED
  BY <1>2, <1>3 DEF SweepStaleRemoteJobs

LEMMA WatchController ==
  ASSUME TypeOK, SlotInvariant, LocalsAreLocal, AgentInv, AtItsNode, WatchInv,
         ControllerStep
  PROVE  WatchInv'
<1>0. UNCHANGED <<agent, astray, net>> /\ [Next]_vars
  BY DEF ControllerStep, agents, Next
<1>1. AllPending'
  BY <1>0 DEF AllPending, WatchInv
<1>2. UpIsOnline'
  <2>1. online \subseteq online'
    BY DEF ControllerStep, OperatorStep, Enqueue, ArchiveFinished, Reorder, Cancel,
       StopRunningJob, StartJobManually, SetAutoAdvance, UpdateDeadline, DeadlinePasses,
       RunStep, SpawnReturns, SpawnRaises, StartIsOver, ProcessExits, RunEnds,
       ReaderFails, OrphanExits, LoopStep, SchedulerTick, SweepStaleRemoteJobs,
       EnforceScheduledStops, DispatchNext, Restart
  <2> QED
    BY <1>0, <2>1 DEF WatchInv, UpIsOnline
<1>3. CASE SweepStaleRemoteJobs
  BY <1>0, <1>1, <1>2, <1>3, WatchSweep DEF WatchInv, agents
<1>4. CASE ~SweepStaleRemoteJobs
  <2>1. WatchedRuns'
    <3> SUFFICES ASSUME NEW n \in Remote, Watches(n)'
                 PROVE  jobs'[agent'[n].job].status = "running"
      BY DEF WatchedRuns
    <3>1. Watches(n) /\ agent'[n] = agent[n]
      BY <1>0 DEF Watches
    <3>2. agent[n].job \in Job
      BY <3>1 DEF Watches, AgentInv, AgentsWork
    <3>3. jobs[agent[n].job].status = "running" /\ IsRemote(agent[n].job)
      BY <3>1, <3>2, QueueManagerAssumption
      DEF WatchInv, WatchedRuns, AtItsNode, IsRemote
    <3>4. jobs'[agent[n].job].status = "running"
      BY <1>4, <3>2, <3>3, RemoteRowKept DEF ControllerStep, LoopStep
    <3> QED
      BY <3>1, <3>4
  <2>2. loop' = "sweeping" => loop = "sweeping" /\ todo' = todo
    BY <1>4 DEF ControllerStep, OperatorStep, Enqueue, ArchiveFinished, Reorder, Cancel,
       StopRunningJob, StartJobManually, SetAutoAdvance, UpdateDeadline, DeadlinePasses,
       RunStep, SpawnReturns, SpawnRaises, StartIsOver, ProcessExits, RunEnds,
       ReaderFails, OrphanExits, LoopStep, SchedulerTick, EnforceScheduledStops, enforce,
       DispatchNext, Restart, disp
  <2>3. \A e \in todo : e[1] \in Job
    BY DEF TypeOK
  <2>4. SweepsTheAbandoned'
    BY <1>0, <2>2, <2>3, NeverRequeued DEF WatchInv, SweepsTheAbandoned
  <2> QED
    BY <1>1, <1>2, <2>1, <2>4 DEF WatchInv
<1> QED
  BY <1>3, <1>4

\* The controller handles a report that its sender still waits for.
LEMMA WatchHandle ==
  ASSUME TypeOK, AgentInv, AtItsNode, WatchInv, NEW m \in net, Handle(m)
  PROVE  WatchInv'
<1>0. jobs \in Table /\ m \in Message
  BY DEF TypeOK, Table, AgentInv, AgentTypes
<1>1. m.job \in Job /\ m.from \in Remote /\ m.op \in {"start", "finish", "fail"}
  BY <1>0 DEF Message
<1>2. UNCHANGED <<agent, online, loop, todo>> /\ net' \subseteq net
  BY DEF Handle, AgentStart, AgentFinish, disp
<1>3. agent[m.from].pc = m.op /\ jobs[m.job].node_id = m.from
  BY DEF WatchInv, AllPending, AtItsNode
<1>4. m.op # "start" => m.status \in Terminal
  BY DEF AgentInv, AgentsWork
<1>5. \A k \in Job : k # m.job => jobs'[k] = jobs[k]
  BY <1>0, <1>1, <1>4, OtherRows DEF Handle, AgentStart, AgentFinish, finalize_job
<1>6. /\ m.op = "start" => jobs'[m.job].status = "running"
      /\ m.op # "start" => jobs'[m.job].status \in Terminal
  BY <1>0, <1>1, <1>4, ItsRow DEF Handle, AgentStart, AgentFinish, finalize_job
<1>7. WatchedRuns'
  <2> SUFFICES ASSUME NEW n \in Remote, Watches(n)'
               PROVE  jobs'[agent'[n].job].status = "running"
    BY DEF WatchedRuns
  <2>1. agent[n].job \in Job /\ jobs[agent[n].job].node_id = n /\ agent'[n] = agent[n]
    BY <1>2, QueueManagerAssumption DEF Watches, AgentInv, AgentsWork, AtItsNode
  <2>2. CASE agent[n].job = m.job
    <3>1. n = m.from
      BY <1>3, <2>1, <2>2
    <3>2. m.op = "start"
      BY <1>1, <1>2, <1>3, <3>1 DEF Watches
    <3> QED
      BY <1>6, <2>1, <2>2, <3>2
  <2>3. CASE agent[n].job # m.job
    <3>1. n # m.from
      BY <2>3 DEF WatchInv, AllPending
    <3>2. Watches(n)
      BY <1>2, <3>1 DEF Watches, Handle
    <3> QED
      BY <1>5, <2>1, <2>3, <3>2 DEF WatchInv, WatchedRuns
  <2> QED
    BY <2>2, <2>3
<1>8. SweepsTheAbandoned'
  <2>1. \A e \in todo : e[1] \in Job
    BY DEF TypeOK
  <2>2. \A k \in Job : jobs[k].status \notin {"absent", "queued"}
                         => jobs'[k].status \notin {"absent", "queued"}
    BY <1>5, <1>6
  <2> QED
    BY <1>2, <2>1, <2>2 DEF WatchInv, SweepsTheAbandoned
<1> QED
  BY <1>2, <1>7, <1>8 DEF WatchInv, AllPending, UpIsOnline

\* A step of agent n alone that takes at most a queued job, answers for its own
\* requests and begins to watch only what runs.
LEMMA WatchFrame ==
  ASSUME TypeOK, WatchInv, NEW n \in Remote,
         UNCHANGED <<jobs, loop, todo>>,
         \A k \in Remote \ {n} : agent'[k] = agent[k],
         online \ {n} \subseteq online', agent'[n].pc # "down" => n \in online',
         agent'[n].job \in {agent[n].job, NoJob} \union Queued(jobs),
         \A m \in net' : \/ m \in net /\ m.from # n
                         \/ m.from = n /\ agent'[n].pc = m.op /\ agent'[n].job = m.job,
         \A m \in net : m.from # n => m \in net',
         Watches(n)' => jobs[agent'[n].job].status = "running",
         net \subseteq Message
  PROVE  WatchInv'
<1>1. AllPending'
  BY DEF WatchInv, AllPending, Message
<1>2. UpIsOnline'
  BY DEF WatchInv, UpIsOnline
<1>3. WatchedRuns'
  <2>1. \A k \in Remote \ {n} : Watches(k)' => Watches(k)
    BY DEF Watches
  <2> QED
    BY <2>1 DEF WatchInv, WatchedRuns
<1>4. SweepsTheAbandoned'
  <2>1. \A e \in todo : e[1] \in Job /\ e[1] # NoJob
    BY QueueManagerAssumption DEF TypeOK
  <2> QED
    BY <2>1 DEF WatchInv, SweepsTheAbandoned, Queued, WithStatus
<1> QED
  BY <1>1, <1>2, <1>3, <1>4 DEF WatchInv

LEMMA WatchAgent ==
  ASSUME Reliable, "cut_off" \notin AgentFaults,
         TypeOK, AgentInv, WatchInv, NEW n \in Remote,
         \/ WorkStep(n) \/ ComesUp(n) \/ Beats(n) \/ Expires(n)
         \/ OpensOut(n) \/ FdsExits(n) \/ AstrayExits(n)
         \/ Raises(n) \/ AgentCrashes(n)
  PROVE  WatchInv'
<1>0. agent \in [Remote -> Agent] /\ agent[n] \in Agent /\ net \subseteq Message
  BY DEF AgentInv, AgentTypes
<1>1. \A m \in net : m.from = n => agent[n].pc = m.op /\ agent[n].job = m.job
  BY DEF WatchInv, AllPending
<1>2. \A m \in net : m.from = n => agent[n].pc \in {"start", "finish", "fail"}
  BY <1>0, <1>1 DEF Message
<1>3. agent[n].pc \notin {"down", "idle"} => agent[n].job \in Job
  BY DEF AgentInv, AgentsWork
<1>4. agent[n].pc # "down" => n \in online
  BY DEF WatchInv, UpIsOnline
<1>5. ASSUME agent[n].job \in Job, NEW op \in {"start", "finish", "fail"},
             NEW s \in Terminal \union {"running"}
      PROVE  /\ Request(n, op, s).from = n /\ Request(n, op, s).op = op
             /\ Request(n, op, s).job = agent[n].job
  BY <1>5, RequestIsMessage
<1>6. CASE Poll(n)
  <2>1. /\ agent'[n].pc = "fetch" /\ agent'[n].job \in Queued(jobs)
        /\ \A k \in Remote \ {n} : agent'[k] = agent[k]
    BY <1>0, <1>6 DEF Poll, assignment, IsNextQueuedJob, IsHeadOf, QueuedOn
  <2>2. agent[n].pc = "idle" /\ UNCHANGED <<vars, net>>
    BY <1>6 DEF Poll
  <2>3. ~Watches(n)'
    BY <2>1 DEF Watches
  <2> QED
    BY <1>0, <1>2, <1>4, <2>1, <2>2, <2>3, WatchFrame DEF vars, disp
<1>7. CASE StartsFds(n)
  <2>1. /\ agent'[n].pc = "start" /\ agent'[n].job = agent[n].job
        /\ \A k \in Remote \ {n} : agent'[k] = agent[k]
    BY <1>0, <1>7 DEF StartsFds, Agent
  <2>2. /\ agent[n].pc = "fetch" /\ UNCHANGED vars
        /\ net' = net \union {Request(n, "start", "running")}
    BY <1>7 DEF StartsFds
  <2>3. ~Watches(n)'
    BY <1>3, <1>5, <2>1, <2>2 DEF Watches
  <2> QED
    BY <1>0, <1>2, <1>3, <1>4, <1>5, <2>1, <2>2, <2>3, WatchFrame DEF vars, disp
<1>8. CASE CaseFails(n) \/ WatchFails(n)
  <2>1. /\ agent[n].pc \in {"fetch", "run"} /\ gives_up(n) /\ UNCHANGED vars
        /\ net' = net \union {Request(n, "fail", "failed")}
    BY <1>8 DEF CaseFails, WatchFails
  <2>2. /\ agent'[n].pc = "fail" /\ agent'[n].job = agent[n].job
        /\ \A k \in Remote \ {n} : agent'[k] = agent[k]
    BY <1>0, <2>1, GivesUp DEF OnlyAgent
  <2>3. ~Watches(n)'
    BY <2>2 DEF Watches
  <2> QED
    BY <1>0, <1>2, <1>3, <1>4, <1>5, <2>1, <2>2, <2>3, WatchFrame DEF vars, disp
<1>9. CASE ReportsMetrics(n) \/ OpensOut(n) \/ FdsExits(n)
  <2>1. /\ agent'[n].pc = agent[n].pc /\ agent'[n].job = agent[n].job
        /\ \A k \in Remote \ {n} : agent'[k] = agent[k]
        /\ UNCHANGED <<vars, net>>
    BY <1>0, <1>9 DEF ReportsMetrics, OpensOut, FdsExits, Agent
  <2>2. Watches(n)' => jobs[agent'[n].job].status = "running"
    BY <2>1 DEF Watches, WatchInv, WatchedRuns
  <2> QED
    BY <1>0, <1>1, <1>4, <2>1, <2>2, WatchFrame DEF vars, disp
<1>10. CASE RunIsOver(n)
  <2>1. /\ agent[n].pc = "run" /\ agent'[n].pc = "upload" /\ agent'[n].job = agent[n].job
        /\ \A k \in Remote \ {n} : agent'[k] = agent[k]
        /\ UNCHANGED <<vars, net>>
    BY <1>0, <1>10 DEF RunIsOver, Agent
  <2>2. Watches(n)' => jobs[agent'[n].job].status = "running"
    BY <2>1 DEF Watches, WatchInv, WatchedRuns
  <2> QED
    BY <1>0, <1>2, <1>4, <2>1, <2>2, WatchFrame DEF vars, disp
<1>11. CASE Uploads(n)
  <2>1. /\ agent[n].pc = "upload" /\ agent'[n].pc = "finish" /\ agent'[n].job = agent[n].job
        /\ \A k \in Remote \ {n} : agent'[k] = agent[k]
        /\ UNCHANGED vars
    BY <1>0, <1>11 DEF Uploads, Agent
  <2>2. PICK s \in Terminal : net' = net \union {Request(n, "finish", s)}
    BY <1>11 DEF Uploads
  <2>3. ~Watches(n)'
    BY <2>1 DEF Watches
  <2> QED
    BY <1>0, <1>2, <1>3, <1>4, <1>5, <2>1, <2>2, <2>3, WatchFrame DEF vars, disp
<1>12. CASE Answered(n)
  <2>0. UNCHANGED <<vars, net>> /\ \A m \in net : m.from # n
    BY <1>1, <1>12 DEF Answered, Pending
  <2>1. CASE agent[n].pc = "start"
    <3>1. /\ agent'[n].pc = "run" /\ agent'[n].job = agent[n].job
          /\ \A k \in Remote \ {n} : agent'[k] = agent[k]
      BY <1>0, <1>12, <2>1 DEF Answered, Agent
    <3>2. Watches(n)
      BY <2>0, <2>1 DEF Watches
    <3>3. Watches(n)' => jobs[agent'[n].job].status = "running"
      BY <3>1, <3>2 DEF WatchInv, WatchedRuns
    <3> QED
      BY <1>0, <1>4, <2>0, <2>1, <3>1, <3>3, WatchFrame DEF vars, disp
  <2>2. CASE agent[n].pc # "start"
    <3>1. /\ agent'[n].pc = "idle" /\ agent'[n].job = NoJob
          /\ \A k \in Remote \ {n} : agent'[k] = agent[k]
          /\ agent[n].pc # "down"
      BY <1>0, <1>12, <2>2 DEF Answered, Idle
    <3>2. ~Watches(n)'
      BY <3>1 DEF Watches
    <3> QED
      BY <1>0, <1>4, <2>0, <3>1, <3>2, WatchFrame DEF vars, disp
  <2> QED
    BY <2>1, <2>2
<1>13. CASE ComesUp(n)
  <2>1. /\ agent[n].pc = "down" /\ agent'[n].pc = "idle" /\ agent'[n].job = NoJob
        /\ \A k \in Remote \ {n} : agent'[k] = agent[k]
        /\ online' = online \union {n} /\ UNCHANGED <<jobs, loop, todo, net>>
    BY <1>0, <1>13 DEF ComesUp, Register, disp, Idle
  <2>2. ~Watches(n)'
    BY <2>1 DEF Watches
  <2> QED
    BY <1>0, <1>2, <2>1, <2>2, WatchFrame
<1>14. CASE Beats(n) \/ Expires(n)
  <2>1. /\ UNCHANGED <<jobs, loop, todo, agent, net>>
        /\ online \ {n} \subseteq online' /\ (agent[n].pc # "down" => n \in online')
    BY <1>14 DEF Beats, Heartbeat, Expires, HeartbeatExpires, disp, agents
  <2>2. Watches(n)' => jobs[agent'[n].job].status = "running"
    BY <2>1 DEF Watches, WatchInv, WatchedRuns
  <2> QED
    BY <1>0, <1>1, <2>1, <2>2, WatchFrame
<1>15. CASE AstrayExits(n)
  BY <1>15 DEF AstrayExits, vars, disp, WatchInv, AllPending, UpIsOnline, WatchedRuns,
     Watches, SweepsTheAbandoned
<1>16. CASE Raises(n)
  BY <1>16 DEF Raises, Reliable
<1>17. CASE AgentCrashes(n)
  <2>1. /\ agent'[n].pc = "down" /\ agent'[n].job = NoJob
        /\ \A k \in Remote \ {n} : agent'[k] = agent[k]
        /\ UNCHANGED vars
    BY <1>0, <1>17 DEF AgentCrashes, Down, Idle
  <2>2. net' = net \ Pending(n)
    BY <1>17 DEF AgentCrashes, Reliable
  <2>3. \A m \in net : m \in Pending(n) <=> m.from = n
    BY <1>1 DEF Pending
  <2>4. ~Watches(n)'
    BY <2>1 DEF Watches
  <2> QED
    BY <1>0, <2>1, <2>2, <2>3, <2>4, WatchFrame DEF vars, disp
<1> QED
  BY <1>6, <1>7, <1>8, <1>9, <1>10, <1>11, <1>12, <1>13, <1>14, <1>15, <1>16, <1>17
  DEF WorkStep

LEMMA WatchStep ==
  ASSUME Reliable, "cut_off" \notin AgentFaults,
         TypeOK, SlotInvariant, LocalsAreLocal, AgentInv, AtItsNode, WatchInv,
         [ClusterNext]_cvars
  PROVE  WatchInv'
<1>1. CASE UNCHANGED cvars
  BY <1>1 DEF cvars, vars, agents, disp, WatchInv, AllPending, UpIsOnline, WatchedRuns,
     Watches, SweepsTheAbandoned
<1> QED
  BY <1>1, WatchController, WatchHandle, WatchAgent DEF ClusterNext, Refuse, Reliable

\* If no request is lost, late or refused, heartbeats of a live agent get through and
\* starts by hand wait for the assignment, the run that an agent watches is a
\* row that says running, whatever crashes, fails or is restarted: neither the
\* sweep nor any other run closes it.
THEOREM WatchedRunHolds ==
  ASSUME Reliable, "cut_off" \notin AgentFaults
  PROVE  ClusterSpec /\ []StartsWaitForAssignment => []WatchedRunIsRunning
<1>1. ClusterInit => WatchInv
  BY DEF ClusterInit, Init, WatchInv, AllPending, UpIsOnline, WatchedRuns, Watches,
     SweepsTheAbandoned, Down, Idle
<1>2. /\ TypeOK /\ SlotInvariant /\ LocalsAreLocal /\ AgentInv /\ AtItsNode /\ WatchInv
      /\ [ClusterNext]_cvars
      => WatchInv'
  BY WatchStep
<1>3. WatchInv => WatchedRunIsRunning
  BY DEF WatchInv, WatchedRuns, Watches, WatchedRunIsRunning
<1> QED
  BY <1>1, <1>2, <1>3, ClusterImplements, TypeCorrect, SlotCorrect, LocalsHold,
     AgentsCorrect, AtItsNodeHolds, PTL
  DEF ClusterSpec

-----------------------------------------------------------------------------
(* What an agent reported stays                                              *)

\* An agent waits for one answer at a time.
OnePending == \A m1, m2 \in net : m1.from = m2.from => m1 = m2

\* A row that has an outcome while an agent works on its job was cancelled
\* before its start was reported, or closed by the agent's last report.
Settled(n) ==
  /\ agent[n].pc \notin {"down", "idle"} /\ jobs[agent[n].job].status \in Terminal =>
       \/ jobs[agent[n].job].status = "cancelled" /\ agent[n].pc \in {"fetch", "start", "fail"}
       \/ agent[n].pc \in {"finish", "fail"} /\ \A m \in net : m.from # n
  /\ agent[n].pc = "finish" /\ (\E m \in net : m.from = n)
       => jobs[agent[n].job].status = "running"

\* What the sweep has yet to close still says running, and is on its list once.
SweepsRunning ==
  loop = "sweeping" => \A e \in todo : e[2] = "running" /\ jobs[e[1]].status = "running"

OutcomeInv == OnePending /\ (\A n \in Remote : Settled(n)) /\ SweepsRunning

\* What the controller does to the row of a job that an agent works on.
LEMMA HeldRow ==
  ASSUME TypeOK, SlotInvariant, LocalsAreLocal, AgentInv, AtItsNode, WatchInv,
         ControllerStep, NEW n \in Remote, agent[n].pc \notin {"down", "idle"}
  PROVE  \/ jobs'[agent[n].job].status = jobs[agent[n].job].status
         \/ /\ jobs[agent[n].job].status = "queued"
            /\ jobs'[agent[n].job].status = "cancelled"
<1> DEFINE j == agent[n].job
<1>0. jobs \in Table /\ j \in Job /\ j # NoJob
  BY QueueManagerAssumption DEF TypeOK, Table, AgentInv, AgentsWork
<1>1. jobs[j].node_id = n /\ IsRemote(j)
  BY <1>0 DEF AtItsNode, IsRemote
<1>2. ASSUME NEW list \in SUBSET (Job \X {"queued", "running"}), sweep(list),
             \A e \in list : e[1] # j
      PROVE  jobs'[j] = jobs[j]
  <2>1. CASE list = {}
    BY <1>2, <2>1 DEF sweep
  <2>2. CASE list # {}
    <3>1. PICK e \in list : finalize_job(e[1], "failed")
      BY <1>2, <2>2 DEF sweep
    <3> QED
      BY <1>0, <1>2, <3>1, OtherRows DEF finalize_job
  <2> QED
    BY <2>1, <2>2
<1>3. CASE SweepStaleRemoteJobs
  <2>1. CASE loop = "sweep"
    <3> DEFINE list == {k \in get_running_jobs_with_stale_node(jobs, nodes \ online) :
                          jobs[k].node_id # Local} \X {"running"}
    <3>1. sweep(list)
      BY <1>3, <2>1 DEF SweepStaleRemoteJobs
    <3>2. list \in SUBSET (Job \X {"queued", "running"})
      BY DEF get_running_jobs_with_stale_node, WithStatus
    <3>3. n \in online
      BY DEF WatchInv, UpIsOnline
    <3>4. \A e \in list : e[1] # j
      BY <1>1, <3>3 DEF get_running_jobs_with_stale_node, WithStatus
    <3> QED
      BY <1>2, <3>1, <3>2, <3>4
  <2>2. CASE loop = "sweeping"
    <3>1. sweep(todo) /\ todo \in SUBSET (Job \X {"queued", "running"})
      BY <1>3, <2>2 DEF SweepStaleRemoteJobs, TypeOK
    <3>2. \A e \in todo : e[1] # j
      BY <2>2 DEF WatchInv, SweepsTheAbandoned
    <3> QED
      BY <1>2, <3>1, <3>2
  <2> QED
    BY <1>3, <2>1, <2>2 DEF SweepStaleRemoteJobs
<1>4. CASE ~SweepStaleRemoteJobs
  BY <1>0, <1>1, <1>4, RemoteRowKept DEF ControllerStep, LoopStep
<1> QED
  BY <1>3, <1>4

\* A step of agent n leaves the others as they are.
LEMMA OutcomeFrame ==
  ASSUME OutcomeInv, NEW n \in Remote,
         UNCHANGED <<jobs, loop, todo>>,
         \A k \in Remote \ {n} : agent'[k] = agent[k],
         \A m \in net' : m.from # n => m \in net,
         \A m \in net : m.from # n => m \in net',
         \A m1, m2 \in net' : m1.from = n /\ m2.from = n => m1 = m2,
         Settled(n)'
  PROVE  OutcomeInv'
<1>1. OnePending'
  BY DEF OutcomeInv, OnePending
<1>2. ASSUME NEW k \in Remote \ {n} PROVE Settled(k)'
  BY DEF OutcomeInv, Settled
<1>3. SweepsRunning'
  BY DEF OutcomeInv, SweepsRunning
<1> QED
  BY <1>1, <1>2, <1>3 DEF OutcomeInv

LEMMA OutcomeController ==
  ASSUME TypeOK, SlotInvariant, LocalsAreLocal, AgentInv, AtItsNode, WatchInv, OutcomeInv,
         ControllerStep
  PROVE  OutcomeInv'
<1>0. UNCHANGED <<agent, astray, net>> /\ jobs \in Table
  BY DEF ControllerStep, agents, TypeOK, Table
<1>1. OnePending'
  BY <1>0 DEF OutcomeInv, OnePending
<1>2. ASSUME NEW n \in Remote PROVE Settled(n)'
  <2>1. CASE agent[n].pc \in {"down", "idle"}
    BY <1>0, <2>1 DEF Settled
  <2>2. CASE agent[n].pc \notin {"down", "idle"}
    <3>1. Settled(n) /\ (Watches(n) => jobs[agent[n].job].status = "running")
      BY DEF OutcomeInv, WatchInv, WatchedRuns
    <3>2. agent[n] \in Agent
      BY DEF AgentInv, AgentTypes
    <3> QED
      BY <1>0, <2>2, <3>1, <3>2, HeldRow DEF Settled, Watches, Agent
  <2> QED
    BY <2>1, <2>2
<1>3. SweepsRunning'
  <2>1. CASE ~SweepStaleRemoteJobs
    <3>1. loop' = "sweeping" => loop = "sweeping" /\ todo' = todo
      BY <2>1 DEF ControllerStep, OperatorStep, Enqueue, ArchiveFinished, Reorder, Cancel,
         StopRunningJob, StartJobManually, SetAutoAdvance, UpdateDeadline, DeadlinePasses,
         RunStep, SpawnReturns, SpawnRaises, StartIsOver, ProcessExits, RunEnds,
         ReaderFails, OrphanExits, LoopStep, SchedulerTick, EnforceScheduledStops, enforce,
         DispatchNext, Restart, disp
    <3>2. ASSUME loop = "sweeping", NEW e \in todo
          PROVE  e[2] = "running" /\ jobs'[e[1]].status = "running"
      <4>1. e[1] \in Job /\ IsRemote(e[1]) /\ e[2] = "running" /\ jobs[e[1]].status = "running"
        BY <3>2 DEF TypeOK, SlotInvariant, OutcomeInv, SweepsRunning
      <4> QED
        BY <2>1, <4>1, RemoteRowKept DEF ControllerStep, LoopStep
    <3> QED
      BY <3>1, <3>2 DEF SweepsRunning
  <2>2. ASSUME NEW list \in SUBSET (Job \X {"queued", "running"}), sweep(list),
               \A e \in list : e[2] = "running" /\ jobs[e[1]].status = "running"
        PROVE  SweepsRunning'
    <3>1. CASE list = {}
      BY <2>2, <3>1 DEF sweep, SweepsRunning
    <3>2. CASE list # {}
      <4>1. PICK e \in list : finalize_job(e[1], "failed") /\ todo' = list \ {e}
        BY <2>2, <3>2 DEF sweep
      <4>2. ASSUME NEW x \in list, x # e PROVE x[1] # e[1] /\ x[1] \in Job
        BY <2>2, <4>2
      <4>3. \A x \in list : x # e => jobs'[x[1]] = jobs[x[1]]
        BY <1>0, <4>1, <4>2, OtherRows DEF finalize_job
      <4> QED
        BY <2>2, <4>1, <4>3 DEF SweepsRunning
    <3> QED
      BY <3>1, <3>2
  <2>3. CASE SweepStaleRemoteJobs
    <3>1. CASE loop = "sweep"
      <4> DEFINE list == {k \in get_running_jobs_with_stale_node(jobs, nodes \ online) :
                            jobs[k].node_id # Local} \X {"running"}
      <4>1. sweep(list)
        BY <2>3, <3>1 DEF SweepStaleRemoteJobs
      <4>2. /\ list \in SUBSET (Job \X {"queued", "running"})
            /\ \A e \in list : e[2] = "running" /\ jobs[e[1]].status = "running"
        BY DEF get_running_jobs_with_stale_node, WithStatus
      <4> QED
        BY <2>2, <4>1, <4>2
    <3>2. CASE loop = "sweeping"
      BY <2>2, <2>3, <3>2 DEF SweepStaleRemoteJobs, TypeOK, OutcomeInv, SweepsRunning
    <3> QED
      BY <2>3, <3>1, <3>2 DEF SweepStaleRemoteJobs
  <2> QED
    BY <2>1, <2>3
<1> QED
  BY <1>1, <1>2, <1>3 DEF OutcomeInv

LEMMA OutcomeHandle ==
  ASSUME TypeOK, AgentInv, AtItsNode, WatchInv, OutcomeInv, NEW m \in net, Handle(m)
  PROVE  OutcomeInv'
<1>0. jobs \in Table /\ m \in Message
  BY DEF TypeOK, Table, AgentInv, AgentTypes
<1>1. m.job \in Job /\ m.from \in Remote /\ m.op \in {"start", "finish", "fail"}
  BY <1>0 DEF Message
<1>2. UNCHANGED <<agent, loop, todo>> /\ net' = net \ {m}
  BY DEF Handle, AgentStart, AgentFinish, disp
<1>3. /\ agent[m.from].pc = m.op /\ agent[m.from].job = m.job
      /\ jobs[m.job].node_id = m.from
  BY DEF WatchInv, AllPending, AtItsNode
<1>4. m.op # "start" => m.status \in Terminal
  BY DEF AgentInv, AgentsWork
<1>5. \A k \in Job : k # m.job => jobs'[k] = jobs[k]
  BY <1>0, <1>1, <1>4, OtherRows DEF Handle, AgentStart, AgentFinish, finalize_job
<1>6. m.op = "start" => jobs'[m.job].status = "running"
  BY <1>0, <1>1, ItsRow DEF Handle, AgentStart
<1>7. OnePending'
  BY <1>2 DEF OutcomeInv, OnePending
<1>8. ASSUME NEW n \in Remote PROVE Settled(n)'
  <2>1. CASE n = m.from
    <3>1. \A x \in net' : x.from # n
      BY <1>2, <2>1 DEF OutcomeInv, OnePending
    <3> QED
      BY <1>1, <1>2, <1>3, <1>6, <2>1, <3>1 DEF Settled
  <2>2. CASE n # m.from
    <3>1. agent[n].pc \notin {"down", "idle"} =>
            agent[n].job \in Job /\ jobs[agent[n].job].node_id = n
      BY QueueManagerAssumption DEF AgentInv, AgentsWork, AtItsNode
    <3>2. agent[n].pc \notin {"down", "idle"} => jobs'[agent[n].job] = jobs[agent[n].job]
      BY <1>3, <1>5, <2>2, <3>1
    <3>3. Settled(n) /\ \A x \in net : x.from = n => x \in net'
      BY <1>2, <2>2 DEF OutcomeInv
    <3> QED
      BY <1>2, <3>2, <3>3 DEF Settled
  <2> QED
    BY <2>1, <2>2
<1>9. SweepsRunning'
  <2>1. ASSUME loop = "sweeping", NEW e \in todo PROVE jobs'[e[1]] = jobs[e[1]]
    <3>1. e[1] \in Job /\ agent[m.from].job # e[1]
      BY <1>1, <2>1 DEF TypeOK, WatchInv, SweepsTheAbandoned
    <3> QED
      BY <1>3, <1>5, <3>1
  <2> QED
    BY <1>2, <2>1 DEF OutcomeInv, SweepsRunning
<1> QED
  BY <1>7, <1>8, <1>9 DEF OutcomeInv

LEMMA OutcomeAgent ==
  ASSUME Reliable, TypeOK, AgentInv, WatchInv, OutcomeInv, NEW n \in Remote,
         \/ WorkStep(n) \/ ComesUp(n) \/ Beats(n) \/ Expires(n)
         \/ OpensOut(n) \/ FdsExits(n) \/ AstrayExits(n)
         \/ Raises(n) \/ AgentCrashes(n)
  PROVE  OutcomeInv'
<1>0. agent \in [Remote -> Agent] /\ agent[n] \in Agent /\ net \subseteq Message
  BY DEF AgentInv, AgentTypes
<1>1. \A m \in net : m.from = n => agent[n].pc = m.op /\ agent[n].job = m.job
  BY DEF WatchInv, AllPending
<1>2. \A m \in net : m.from = n => agent[n].pc \in {"start", "finish", "fail"}
  BY <1>0, <1>1 DEF Message
<1>3. agent[n].pc \notin {"down", "idle"} => agent[n].job \in Job
  BY DEF AgentInv, AgentsWork
<1>4. Settled(n) /\ (Watches(n) => jobs[agent[n].job].status = "running")
  BY DEF OutcomeInv, WatchInv, WatchedRuns
<1>5. \A m1, m2 \in net : m1.from = n /\ m2.from = n => m1 = m2
  BY DEF OutcomeInv, OnePending
<1>6. ASSUME agent[n].job \in Job, NEW op \in {"start", "finish", "fail"},
             NEW s \in Terminal \union {"running"}
      PROVE  Request(n, op, s).from = n
  BY <1>6, RequestIsMessage
<1>7. CASE Poll(n)
  <2>1. /\ agent'[n].pc = "fetch" /\ jobs[agent'[n].job].status = "queued"
        /\ \A k \in Remote \ {n} : agent'[k] = agent[k]
        /\ UNCHANGED <<vars, net>>
    BY <1>0, <1>7 DEF Poll, assignment, IsNextQueuedJob, IsHeadOf, QueuedOn, Queued, WithStatus
  <2>2. Settled(n)'
    BY <2>1 DEF Settled, vars
  <2> QED
    BY <1>5, <2>1, <2>2, OutcomeFrame DEF vars, disp
<1>8. CASE StartsFds(n)
  <2>1. /\ agent[n].pc = "fetch" /\ agent'[n].pc = "start" /\ agent'[n].job = agent[n].job
        /\ \A k \in Remote \ {n} : agent'[k] = agent[k]
        /\ UNCHANGED vars /\ net' = net \union {Request(n, "start", "running")}
    BY <1>0, <1>8 DEF StartsFds, Agent
  <2>2. Settled(n)'
    BY <1>4, <2>1 DEF Settled, vars
  <2> QED
    BY <1>2, <1>3, <1>6, <2>1, <2>2, OutcomeFrame DEF vars, disp
<1>9. CASE CaseFails(n) \/ WatchFails(n)
  <2>1. /\ agent[n].pc \in {"fetch", "run"} /\ gives_up(n) /\ UNCHANGED vars
        /\ net' = net \union {Request(n, "fail", "failed")}
    BY <1>9 DEF CaseFails, WatchFails
  <2>2. /\ agent'[n].pc = "fail" /\ agent'[n].job = agent[n].job
        /\ \A k \in Remote \ {n} : agent'[k] = agent[k]
    BY <1>0, <2>1, GivesUp DEF OnlyAgent
  <2>3. Settled(n)'
    BY <1>4, <2>1, <2>2 DEF Settled, Watches, vars
  <2> QED
    BY <1>2, <1>3, <1>6, <2>1, <2>2, <2>3, OutcomeFrame DEF vars, disp
<1>10. CASE ReportsMetrics(n) \/ OpensOut(n) \/ FdsExits(n)
  <2>1. /\ agent'[n].pc = agent[n].pc /\ agent'[n].job = agent[n].job
        /\ \A k \in Remote \ {n} : agent'[k] = agent[k]
        /\ UNCHANGED <<vars, net>>
    BY <1>0, <1>10 DEF ReportsMetrics, OpensOut, FdsExits, Agent
  <2>2. Settled(n)'
    BY <1>4, <2>1 DEF Settled, vars
  <2> QED
    BY <1>5, <2>1, <2>2, OutcomeFrame DEF vars, disp
<1>11. CASE RunIsOver(n)
  <2>1. /\ agent[n].pc = "run" /\ agent'[n].pc = "upload" /\ agent'[n].job = agent[n].job
        /\ \A k \in Remote \ {n} : agent'[k] = agent[k]
        /\ UNCHANGED <<vars, net>>
    BY <1>0, <1>11 DEF RunIsOver, Agent
  <2>2. Settled(n)'
    BY <1>4, <2>1 DEF Settled, Watches, vars
  <2> QED
    BY <1>5, <2>1, <2>2, OutcomeFrame DEF vars, disp
<1>12. CASE Uploads(n)
  <2>1. /\ agent[n].pc = "upload" /\ agent'[n].pc = "finish" /\ agent'[n].job = agent[n].job
        /\ \A k \in Remote \ {n} : agent'[k] = agent[k]
        /\ UNCHANGED vars
    BY <1>0, <1>12 DEF Uploads, Agent
  <2>2. PICK s \in Terminal : net' = net \union {Request(n, "finish", s)}
    BY <1>12 DEF Uploads
  <2>3. Settled(n)'
    BY <1>4, <2>1 DEF Settled, Watches, vars
  <2> QED
    BY <1>2, <1>3, <1>6, <2>1, <2>2, <2>3, OutcomeFrame DEF vars, disp
<1>13. CASE Answered(n)
  <2>0. UNCHANGED <<vars, net>> /\ \A m \in net : m.from # n
    BY <1>1, <1>13 DEF Answered, Pending
  <2>1. CASE agent[n].pc = "start"
    <3>1. /\ agent'[n].pc = "run" /\ agent'[n].job = agent[n].job
          /\ \A k \in Remote \ {n} : agent'[k] = agent[k]
      BY <1>0, <1>13, <2>1 DEF Answered, Agent
    <3>2. Settled(n)'
      BY <1>4, <2>0, <2>1, <3>1 DEF Settled, Watches, vars
    <3> QED
      BY <2>0, <3>1, <3>2, OutcomeFrame DEF vars, disp
  <2>2. CASE agent[n].pc # "start"
    <3>1. /\ agent'[n].pc = "idle" /\ \A k \in Remote \ {n} : agent'[k] = agent[k]
      BY <1>0, <1>13, <2>2 DEF Answered, Idle
    <3>2. Settled(n)'
      BY <3>1 DEF Settled
    <3> QED
      BY <2>0, <3>1, <3>2, OutcomeFrame DEF vars, disp
  <2> QED
    BY <2>1, <2>2
<1>14. CASE ComesUp(n)
  <2>1. /\ agent'[n].pc = "idle" /\ \A k \in Remote \ {n} : agent'[k] = agent[k]
        /\ UNCHANGED <<jobs, loop, todo, net>>
    BY <1>0, <1>14 DEF ComesUp, Register, disp, Idle
  <2>2. Settled(n)'
    BY <2>1 DEF Settled
  <2> QED
    BY <1>5, <2>1, <2>2, OutcomeFrame
<1>15. CASE Beats(n) \/ Expires(n) \/ AstrayExits(n)
  <2>1. UNCHANGED <<jobs, loop, todo, agent, net>>
    BY <1>15 DEF Beats, Heartbeat, Expires, HeartbeatExpires, AstrayExits, vars, disp, agents
  <2>2. Settled(n)'
    BY <1>4, <2>1 DEF Settled
  <2> QED
    BY <1>5, <2>1, <2>2, OutcomeFrame
<1>16. CASE Raises(n)
  BY <1>16 DEF Raises, Reliable
<1>17. CASE AgentCrashes(n)
  <2>1. /\ agent'[n].pc = "down" /\ \A k \in Remote \ {n} : agent'[k] = agent[k]
        /\ UNCHANGED vars /\ net' = net \ Pending(n)
    BY <1>0, <1>17 DEF AgentCrashes, Down, Idle, Reliable
  <2>2. \A m \in net : m \in Pending(n) => m.from = n
    BY DEF Pending
  <2>3. Settled(n)'
    BY <2>1 DEF Settled
  <2> QED
    BY <1>5, <2>1, <2>2, <2>3, OutcomeFrame DEF vars, disp
<1> QED
  BY <1>7, <1>8, <1>9, <1>10, <1>11, <1>12, <1>13, <1>14, <1>15, <1>16, <1>17 DEF WorkStep

LEMMA OutcomeInvStep ==
  ASSUME Reliable, TypeOK, SlotInvariant, LocalsAreLocal, AgentInv, AtItsNode, WatchInv,
         OutcomeInv, [ClusterNext]_cvars
  PROVE  OutcomeInv'
<1>1. CASE UNCHANGED cvars
  BY <1>1 DEF cvars, vars, agents, disp, OutcomeInv, OnePending, Settled, SweepsRunning
<1> QED
  BY <1>1, OutcomeController, OutcomeHandle, OutcomeAgent DEF ClusterNext, Refuse, Reliable

\* Under the assumptions of WatchedRunHolds, what an agent reported of a run is
\* its last word: an outcome is only replaced if the job was cancelled in the
\* queue while its start was on the way.
THEOREM AgentOutcomeIsFinalHolds ==
  ASSUME Reliable, "cut_off" \notin AgentFaults
  PROVE  ClusterSpec /\ []StartsWaitForAssignment => AgentOutcomeIsFinal
<1> DEFINE Excused(k) ==
      /\ jobs[k].status = "cancelled"
      /\ \/ k = starting
         \/ \E n \in Remote : agent[n].job = k /\ agent[n].pc \in {"start", "fail"}
<1>1. ClusterInit => WatchInv /\ OutcomeInv
  BY DEF ClusterInit, Init, WatchInv, AllPending, UpIsOnline, WatchedRuns, Watches,
     SweepsTheAbandoned, Down, Idle, OutcomeInv, OnePending, Settled, SweepsRunning
<1>2. /\ TypeOK /\ SlotInvariant /\ LocalsAreLocal /\ AgentInv /\ AtItsNode
      /\ WatchInv /\ OutcomeInv /\ [ClusterNext]_cvars
      => WatchInv' /\ OutcomeInv'
  BY WatchStep, OutcomeInvStep
<1>3. ASSUME TypeOK, SlotInvariant, LocalsAreLocal, AgentInv, AtItsNode, WatchInv,
             OutcomeInv, ClusterNext, NEW k \in Job, Rewrites(k)
      PROVE  Excused(k)
  <2>0. jobs \in Table
    BY <1>3 DEF TypeOK, Table
  <2>1. CASE ControllerStep
    <3>1. StartRewrites(k) \/ RunRewrites(k) \/ SweepRewrites(k)
      BY <1>3, <2>1, ControllerRewrites DEF ControllerStep
    <3>2. CASE StartRewrites(k)
      BY <1>3, <3>2, QueueManagerAssumption
      DEF StartRewrites, LocalsAreLocal, IsRemote, Remote
    <3>3. ~RunRewrites(k)
      BY <1>3 DEF RunRewrites, LocalsAreLocal, IsRemote, Remote
    <3>4. ~SweepRewrites(k)
      BY <1>3 DEF SweepRewrites, OutcomeInv, SweepsRunning, Rewrites
    <3> QED
      BY <3>1, <3>2, <3>3, <3>4
  <2>2. ASSUME NEW m \in net, Handle(m) PROVE Excused(k)
    <3>1. /\ m.job \in Job /\ m.from \in Remote /\ m.op \in {"start", "finish", "fail"}
          /\ (m.op # "start" => m.status \in Terminal)
      BY <1>3 DEF AgentInv, AgentTypes, AgentsWork, Message
    <3>2. k = m.job
      BY <1>3, <2>0, <2>2, <3>1, OtherRows
      DEF Handle, AgentStart, AgentFinish, finalize_job, Rewrites
    <3>3. agent[m.from].pc = m.op /\ agent[m.from].job = m.job
      BY <1>3 DEF WatchInv, AllPending
    <3>4. Settled(m.from)
      BY <1>3, <3>1 DEF OutcomeInv
    <3> QED
      BY <1>3, <3>1, <3>2, <3>3, <3>4 DEF Settled, Rewrites
  <2>3. ASSUME NEW n \in Remote,
               \/ ComesUp(n) \/ Beats(n) \/ Expires(n)
               \/ WorkStep(n) \/ OpensOut(n) \/ FdsExits(n) \/ AstrayExits(n)
               \/ Raises(n) \/ AgentCrashes(n)
        PROVE  jobs' = jobs
    BY <2>3, RowsOfOthers
  <2>4. CASE \E m \in net : Refuse(m)
    BY <1>3, <2>4 DEF Refuse, vars, Rewrites
  <2> QED
    BY <1>3, <2>1, <2>2, <2>3, <2>4 DEF ClusterNext, Rewrites
<1>4. /\ TypeOK /\ SlotInvariant /\ LocalsAreLocal /\ AgentInv /\ AtItsNode
      /\ WatchInv /\ OutcomeInv /\ [ClusterNext]_cvars
      => [\A j \in Job :
            jobs[j].status \in Terminal /\ jobs'[j].status # jobs[j].status =>
              /\ jobs[j].status = "cancelled"
              /\ \/ j = starting
                 \/ \E n \in Remote : agent[n].job = j /\ agent[n].pc \in {"start", "fail"}]_cvars
  BY <1>3 DEF Rewrites
<1> QED
  BY <1>1, <1>2, <1>4, ClusterImplements, TypeCorrect, SlotCorrect, LocalsHold,
     AgentsCorrect, AtItsNodeHolds, PTL
  DEF ClusterSpec, AgentOutcomeIsFinal
=============================================================================
