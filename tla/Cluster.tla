------------------------------ MODULE Cluster ------------------------------
(***************************************************************************)
(* A controller and the agents of its remote nodes (src/fdsrouter/agent.py), *)
(* joined by the endpoints of api/routes_agent.py over a network that may    *)
(* lose or delay a request and lose a response.                              *)
(*                                                                          *)
(* An agent works on one job at a time: poll, download the case, start FDS,  *)
(* report the start, watch, upload the results, report the finish.  Any      *)
(* failed step lands in one except clause, which reports the job failed and  *)
(* leaves the FDS process alone.  Requests that only read at the controller  *)
(* (poll, metrics) are one step; those that write are messages in net.       *)
(***************************************************************************)
EXTENDS QueueManager

CONSTANT AgentFaults

AgentFaultKinds == {
  "agent_crash",  \* an agent dies, and may be started again later
  "outlive",      \* ... and its FDS process outlives it
  "lost",         \* a request or a response is lost
  "late",         \* a request arrives after its sender gave up on it or died
  "refused",      \* the controller answers with an error and does nothing
  "case_fails",   \* download, unpacking or start of FDS fails on the agent
  "watch_fails",  \* metrics or log task raises: an answer that is not JSON
  "cut_off"}      \* heartbeats of a live agent do not get through for 45 s

ASSUME ClusterAssumption == AgentFaults \subseteq AgentFaultKinds

VARIABLES
  agent,    \* per remote node: the coroutine _run_job, or where it is instead
  astray,   \* per remote node: jobs with an FDS process no agent watches
  net       \* requests sent and not yet handled

agents == <<agent, astray, net>>
cvars  == <<vars, agents>>

AgentPhases == {"down", "idle", "fetch", "start", "run", "upload", "finish", "fail"}
Agent == [pc   : AgentPhases,
          job  : Job \union {NoJob},
          proc : {"none", "alive", "exited"},
          out  : BOOLEAN,                       \* its reports are made from a CHID.out
          stop : BOOLEAN]                       \* _stop_requested

Idle == [pc |-> "idle", job |-> NoJob, proc |-> "none", out |-> FALSE, stop |-> FALSE]
Down == [Idle EXCEPT !.pc = "down"]

Message == [op : {"start", "finish", "fail"}, from : Remote, job : Job,
            status : Terminal \union {"running"}]

ClusterTypeOK ==
  /\ TypeOK
  /\ agent \in [Remote -> Agent]
  /\ astray \in [Remote -> SUBSET Job]
  /\ net \subseteq Message

ClusterInit ==
  /\ Init
  /\ agent = [n \in Remote |-> Down]
  /\ astray = [n \in Remote |-> {}]
  /\ net = {}

Request(n, op, s) == [op |-> op, from |-> n, job |-> agent[n].job, status |-> s]
Pending(n) == {m \in net : m.from = n /\ m.op = agent[n].pc /\ m.job = agent[n].job}

\* agent.py's run(): register, then the heartbeat and the polling loop.
ComesUp(n) ==
  /\ agent[n].pc = "down"
  /\ Register(n)
  /\ agent' = [agent EXCEPT ![n] = Idle]
  /\ UNCHANGED <<astray, net>>

Beats(n) ==
  /\ agent[n].pc # "down"
  /\ Heartbeat(n)
  /\ UNCHANGED agents

Expires(n) ==
  /\ agent[n].pc = "down" \/ "cut_off" \in AgentFaults
  /\ HeartbeatExpires(n)
  /\ UNCHANGED agents

\* GET .../assignment
Poll(n) ==
  /\ agent[n].pc = "idle"
  /\ \E j \in Job : /\ assignment(n, j)
                    /\ agent' = [agent EXCEPT ![n] =
                         [pc |-> "fetch", job |-> j, proc |-> "none", out |-> FALSE, stop |-> FALSE]]
  /\ UNCHANGED <<vars, astray, net>>

\* Case files are there and FDS is started; its start is reported.
StartsFds(n) ==
  /\ agent[n].pc = "fetch"
  /\ agent' = [agent EXCEPT ![n].pc = "start", ![n].proc = "alive"]
  /\ net' = net \union {Request(n, "start", "running")}
  /\ UNCHANGED <<vars, astray>>

\* The except clause of _run_job: whatever ran is no longer watched.
gives_up(n) ==
  /\ agent' = [agent EXCEPT ![n].pc = "fail", ![n].proc = "none", ![n].out = FALSE]
  /\ astray' = IF agent[n].proc = "alive"
               THEN [astray EXCEPT ![n] = @ \union {agent[n].job}] ELSE astray

CaseFails(n) ==
  /\ "case_fails" \in AgentFaults
  /\ agent[n].pc = "fetch"
  /\ gives_up(n)
  /\ net' = net \union {Request(n, "fail", "failed")}
  /\ UNCHANGED vars

\* FDS opens CHID.out.  From then on the report's devices are what
\* parse_devc_latest returns, a dict, where MetricsPayload has a list.
OpensOut(n) ==
  /\ agent[n].pc = "run" /\ agent[n].proc = "alive" /\ ~agent[n].out
  /\ agent' = [agent EXCEPT ![n].out = TRUE]
  /\ UNCHANGED <<vars, astray, net>>

\* POST .../metrics: all that the answer says is whether to stop; the answer to
\* a report that is refused (422) does not say it.
metrics(n) == ~agent[n].out /\ jobs[agent[n].job].stop_requested

\* Mutant: an agent that does not look at it.
ReportsMetrics_deaf(n) ==
  /\ agent[n].pc = "run" /\ agent[n].proc = "alive"
  /\ UNCHANGED cvars

ReportsMetrics(n) ==
  /\ agent[n].pc = "run" /\ agent[n].proc = "alive"
  /\ metrics(n)
  /\ agent' = [agent EXCEPT ![n].stop = TRUE]
  /\ UNCHANGED <<vars, astray, net>>

FdsExits(n) ==
  /\ agent[n].proc = "alive"
  /\ agent' = [agent EXCEPT ![n].proc = "exited"]
  /\ UNCHANGED <<vars, astray, net>>

AstrayExits(n) ==
  /\ \E j \in astray[n] : astray' = [astray EXCEPT ![n] = @ \ {j}]
  /\ UNCHANGED <<vars, agent, net>>

\* _monitor_until_done returns and _upload_results begins.
\* Mutant: the job is forgotten before its outcome is reported.
RunIsOver_forgets(n) ==
  /\ agent[n].pc = "run" /\ agent[n].proc = "exited"
  /\ agent' = [agent EXCEPT ![n].pc = "upload", ![n].out = FALSE, ![n].job = NoJob]
  /\ UNCHANGED <<vars, astray, net>>

RunIsOver(n) ==
  /\ agent[n].pc = "run" /\ agent[n].proc = "exited"
  /\ agent' = [agent EXCEPT ![n].pc = "upload", ![n].out = FALSE]
  /\ UNCHANGED <<vars, astray, net>>

\* ... or raises what one of its tasks had raised, and nothing is uploaded.
WatchFails(n) ==
  /\ "watch_fails" \in AgentFaults
  /\ agent[n].pc = "run" /\ agent[n].proc = "exited"
  /\ gives_up(n)
  /\ net' = net \union {Request(n, "fail", "failed")}
  /\ UNCHANGED vars

\* The results are stored, the outcome is reported (determine_run_status).
Uploads(n) ==
  /\ agent[n].pc = "upload"
  /\ agent' = [agent EXCEPT ![n].pc = "finish"]
  /\ \E s \in IF agent[n].stop THEN {"cancelled"} ELSE {"done", "failed"} :
       net' = net \union {Request(n, "finish", s)}
  /\ UNCHANGED <<vars, astray>>

-----------------------------------------------------------------------------
(* Requests *)

\* The controller handles a request, whether its sender still waits or not.
Handle(m) ==
  /\ m \in net
  /\ IF m.op = "start" THEN AgentStart(m.job) ELSE AgentFinish(m.job, m.status)
  /\ net' = net \ {m}
  /\ UNCHANGED <<agent, astray>>

\* ... or answers with an error instead: its token is another one by now (401),
\* the database is locked (500).
Refuse(m) ==
  /\ "refused" \in AgentFaults
  /\ m \in net
  /\ net' = net \ {m}
  /\ UNCHANGED <<vars, agent, astray>>

\* The answer arrives.  None of the reports looks at its status: an error is as
\* good as an answer (so is one to the upload of the results, a part of Uploads).
Answered(n) ==
  /\ Pending(n) = {}
  /\ agent' = [agent EXCEPT ![n] =
       CASE @.pc = "start" -> [@ EXCEPT !.pc = "run"]
         [] OTHER -> Idle]
  /\ agent[n].pc \in {"start", "finish", "fail"}
  /\ UNCHANGED <<vars, astray, net>>

\* A request raises: lost on the way there or back, or still on its way.
\* The failure report is not repeated; all else ends in a failure report.
Raises(n) ==
  /\ agent[n].pc \in {"start", "upload", "finish", "fail"}
  /\ \E rest \in   (IF "lost" \in AgentFaults THEN {net \ Pending(n)} ELSE {})
            \union (IF "late" \in AgentFaults THEN {net} ELSE {}) :
       IF agent[n].pc = "fail"
       THEN /\ agent' = [agent EXCEPT ![n] = Idle]
            /\ net' = rest
            /\ UNCHANGED astray
       ELSE /\ gives_up(n)
            /\ net' = rest \union {Request(n, "fail", "failed")}
  /\ UNCHANGED vars

\* The agent's process ends, its FDS process with it or not.
AgentCrashes(n) ==
  /\ "agent_crash" \in AgentFaults
  /\ agent[n].pc # "down"
  /\ agent' = [agent EXCEPT ![n] = Down]
  /\ \/ UNCHANGED astray
     \/ /\ "outlive" \in AgentFaults
        /\ agent[n].proc = "alive"
        /\ astray' = [astray EXCEPT ![n] = @ \union {agent[n].job}]
  /\ \/ net' = net \ Pending(n)
     \/ "late" \in AgentFaults /\ net' = net
  /\ UNCHANGED vars

-----------------------------------------------------------------------------
ControllerStep ==
  /\ \/ OperatorStep
     \/ \E j \in Job : DeadlinePasses(j)
     \/ RunStep
     \/ LoopStep
     \/ Restart
  /\ UNCHANGED agents

WorkStep(n) ==
  \/ Poll(n)
  \/ StartsFds(n)
  \/ CaseFails(n)
  \/ ReportsMetrics(n)
  \/ RunIsOver(n)
  \/ WatchFails(n)
  \/ Uploads(n)
  \/ Answered(n)

ClusterNext ==
  \/ ControllerStep
  \/ \E n \in Remote :
       \/ ComesUp(n) \/ Beats(n) \/ Expires(n)
       \/ WorkStep(n)
       \/ OpensOut(n) \/ FdsExits(n) \/ AstrayExits(n)
       \/ Raises(n) \/ AgentCrashes(n)
  \/ \E m \in net : Handle(m) \/ Refuse(m)

ClusterSpec == ClusterInit /\ [][ClusterNext]_cvars

\* Both event loops keep running, a request is handled or given up, a
\* terminated process dies, and a dead agent's heartbeat grows old.
ClusterFairness ==
  /\ WF_cvars(LoopStep /\ UNCHANGED agents)
  /\ WF_cvars(SpawnReturns /\ UNCHANGED agents)
  /\ WF_cvars(StartIsOver /\ UNCHANGED agents)
  /\ \A j \in Job : WF_cvars(RunEnds(j) /\ UNCHANGED agents)
  /\ \A n \in Remote :
       /\ WF_cvars(WorkStep(n))
       /\ WF_cvars(FdsExits(n) /\ agent[n].stop)
       /\ WF_cvars(Expires(n) /\ agent[n].pc = "down")
  /\ \A m \in Message : WF_cvars(Handle(m))

FairClusterSpec == ClusterSpec /\ ClusterFairness

-----------------------------------------------------------------------------
(* Properties *)

RunsOn(j, n) ==
  \/ agent[n].job = j /\ agent[n].proc = "alive"
  \/ j \in astray[n]

\* Crashes, lost, late and refused requests and retries can make the machine of
\* an agent start a job again, never the machines of two agents: node_id is
\* given once and kept (assign_job_to_node).  Local, which may start a job that
\* has no node_id yet, is not spoken of: see RunsOnce.
RunsOnOneAgent ==
  \A j \in Job : \A m, n \in Remote : RunsOn(j, m) /\ RunsOn(j, n) => m = n

\* A recorded outcome changes in four ways only, whatever is lost, late,
\* refused or given up: the job was being started or ran here, by hand; a report
\* comes from the machine that the job is assigned to, never another; or
\* the sweep closes, as failed, a run of its list whose agent was heard of since.
OutcomeIsTheirs ==
  [][\A j \in Job :
       jobs[j].status \in Terminal /\ jobs'[j].status # jobs[j].status =>
         \/ j = starting
         \/ HasProcess(j) /\ IsRemote(j)
         \/ \E m \in net \ net' : m.job = j /\ m.from = jobs[j].node_id
         \/ /\ loop = "sweeping" /\ \E e \in todo : e[1] = j
            /\ jobs'[j].status = "failed"]_cvars

\* The operator starts by hand only what the scheduler has assigned: runs_twice
\* shows what happens otherwise.
StartsWaitForAssignment ==
  starting # NoJob => jobs[starting].node_id # NoNode

\* While no request is lost or late, an agent that watches a run is the one
\* whose row says running: neither the sweep (also one that read its list
\* before a crashed agent came back) nor another run closes it meanwhile.
WatchedRunIsRunning ==
  \A n \in Remote :
    agent[n].pc \in {"run", "upload"} => jobs[agent[n].job].status = "running"

\* The outcome of a run that is reported by an agent is final as long as no
\* request is lost, late or refused: only a job that was cancelled in the queue
\* while its start was under way, here or at its agent, gets another one.
AgentOutcomeIsFinal ==
  [][\A j \in Job :
       jobs[j].status \in Terminal /\ jobs'[j].status # jobs[j].status =>
         /\ jobs[j].status = "cancelled"
         /\ \/ j = starting
            \/ \E n \in Remote : agent[n].job = j /\ agent[n].pc \in {"start", "fail"}]_cvars

\* The FDS processes of a job: their machines, and whether anyone there watches.
FdsOf(j) ==
  {p \in Node \X BOOLEAN :
     LET n == p[1]
         watched == p[2]
     IN IF n = Local
        THEN IF watched THEN proc[j] = "alive" ELSE j \in orphans
        ELSE IF watched THEN agent[n].job = j /\ agent[n].proc = "alive"
             ELSE j \in astray[n]}

\* A job has one FDS process in the whole cluster.
RunsOnce == \A j \in Job : \A p, q \in FdsOf(j) : p = q

RemoteStop(j, n) ==
  /\ jobs[j].status = "running" /\ jobs[j].stop_requested
  /\ agent[n].pc = "run" /\ agent[n].job = j

\* A stop recorded for a remote run reaches it: the row gets its outcome,
\* unless the agent dies first (then see LostRunEnds).  stop_running_job: "a
\* stop is instead recorded and picked up by that agent's next metrics report".
RemoteStopEnds ==
  \A j \in Job : \A n \in Remote :
    RemoteStop(j, n) ~> jobs[j].status \in Terminal \/ agent[n].pc = "down"

\* ... which it does as long as FDS has not opened its .out.
EarlyStopEnds ==
  \A j \in Job : \A n \in Remote :
    RemoteStop(j, n) ~> jobs[j].status \in Terminal \/ agent[n].pc = "down" \/ agent[n].out

\* The run of an agent that died is given up unless the agent comes back.
LostRunEnds ==
  \A j \in Job : \A n \in Remote :
    jobs[j].status = "running" /\ jobs[j].node_id = n /\ agent[n].pc = "down"
    ~> jobs[j].status \in Terminal \/ agent[n].pc # "down"
=============================================================================
