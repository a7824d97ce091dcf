# A formal model of FDSRouter

FDSRouter queues FDS fire simulations, runs them one at a time on each machine
and lets a controller hand jobs to agents on other machines. This directory
holds TLA+ modules translated from the Python source (`src/fdsrouter`), TLC
configurations that check them on small instances, and TLAPS proofs of what
holds for any number of jobs and machines.

## 1. The system

| part | source | state it keeps | operations |
|---|---|---|---|
| job table | `db/database.py`, `db/schema.sql` | rows of `node` and `job` in SQLite | one statement (or one short transaction) per method, all under one lock |
| scheduler | `core/scheduler.py` | none | `pick_node_for_job`: biggest idle, online, ready node that fits |
| queue manager | `core/queue_manager.py` | `_running`, `_running_job_id`, `_starting`, `_stop_requested`, `_auto_advance`, the dispatch loop | enqueue, reorder, cancel, start, stop, archive, scheduler tick, sweep of lost nodes, deadlines, start and end of local runs, recovery after a restart |
| FDS processes | `core/job_runner.py` | the `mpirun` child | start, exit, SIGTERM then SIGKILL, outcome of a run |
| endpoints for agents | `api/routes_agent.py` | none | register, heartbeat, assignment, case files, start, metrics (answers with the stop), log, results, finish |
| agent | `agent.py` | `_busy`, `_stop_requested`, one run | heartbeat, poll, download, run, report, upload, finish |
| operator endpoints | `api/routes_jobs.py`, `api/routes_queue.py` | none | call the queue manager |
| start-up | `api/app.py` | wires the parts | registers the local node, recovers, starts the loops |
| broadcast | `api/ws.py` | set of sockets | connect, disconnect, send to all |
| service control | `core/service_control.py`, `api/routes_service.py` | none | restart, stop, update through systemd |
| accounts | `core/auth.py`, `api/routes_auth.py` | rows of `user`, `session` | register, login, logout, resolve, expire |
| cases and uploads | `api/routes_upload.py`, `core/case_files.py` | directories | create, fill, zip, unzip |
| samplers | `core/monitor.py`, `core/system_monitor.py`, `core/external_jobs.py` | last sample | poll, broadcast |
| parsers, estimator | `core/fds_parser.py`, `core/out_parser.py`, `core/case_check.py`, `core/estimator.py` | none | pure functions of text and history |
| energy, notifications | `core/energy.py`, `core/notifications.py` | an accumulator | integrate, send |
| discovery, pairing, CLI | `core/discovery.py`, `cli.py`, `config.py`, `scripts/configure.py` | `config.yaml` | broadcast, answer, pair, persist the role |
| tray icon, browser client | `tray.py`, `static/` | views | poll the API, show updates |

How they interact: the operator's requests and the agents' requests are
coroutines on one asyncio event loop that share the queue manager's fields and
the job table; the dispatch loop runs on the same loop; every local run has a
task of its own. All of them interleave at every `await`. Agents are other
processes on other machines; they talk to the controller over HTTP only and are
never called.

What makes it hard:

* the spawn of FDS is awaited between reading a row and writing it;
* the dispatch loop reads lists and awaits between their entries;
* a row is "local" or "remote" by its `node_id`, which is NULL until the
  scheduler's tick, although the job may be started, stopped or cancelled before;
* the service may be restarted at any moment, with FDS processes that end or
  survive;
* an agent may crash, come back, or be cut off; its reports may be lost, handled
  although it took them for lost, or arrive after the controller gave it up;
* request handlers that are plain functions run in a thread pool, so those of
  accounts, service control and downloads interleave at every statement;
* broadcasts overlap at clients that do not read;
* `config.yaml` has four writers, one of them another process (the installer's
  script), and a machine's role and pairing hang on it;
* files are read while FDS is writing them, and archives while others delete them.

What makes each part correct: one local FDS process at a time; an outcome once
recorded stays; the queue is a strict order of the queued rows; a restart leaves
no row running without a run; a stop and a deadline bring a run to an end; the
queue drains; a job never runs on two agents; a lost agent's run is given up; an
ended session stays ended; a case that was answered is whole; an unconfirmed
restart spares a run; a machine keeps its role and token; a browser shows the
last announced state; what is read of a case or of FDS's output is what a
reference reading gives.

## 2. The modules

| module | models | state |
|---|---|---|
| `JobTable` | `db/database.py`, `job` and `node` of `schema.sql` | none: operators from tables to tables |
| `Scheduler` | `core/scheduler.py`, the writes of one tick | none |
| `LocalSlot` | what the queue manager promises about this machine | the slot |
| `QueueManager` | `core/queue_manager.py`, `core/job_runner.py`, the operator's endpoints, start-up; agents as an open environment; implements `LocalSlot` | job table, nodes, the fields of the queue manager, processes, the loop |
| `Cluster` | `agent.py`, the requests between agents and `api/routes_agent.py`; composed with `QueueManager` | ... and per agent its coroutine, stray processes, requests in flight |
| `Sessions` | `core/auth.py`, `api/routes_auth.py`, the `auth_gate` of `api/app.py`, the tables `user` and `session` | accounts, sessions, requests, clock |
| `Files` | `api/routes_upload.py`, `core/case_files.py`, both archives | directories, uploads, archives by name and by inode, downloads |
| `Config` | `config.py`, `scripts/configure.py` | none: operators on files |
| `Setup` | `cli.py`, `core/discovery.py`, the agent's own file | both files, the process, the controllers' tokens |
| `Service` | `core/service_control.py`, `api/routes_service.py`, the requests of `tray.py`, systemd; composes `Setup` and `LocalSlot` | ... and requests, the unit's job, revisions |
| `Updates` | `api/ws.py`, the endpoint of `api/app.py`, `refreshJobs` and the WebSocket of `static/app.js` | versions, broadcasts, connections, views |
| `Cases` | `core/fds_parser.py`, `core/case_check.py`, `core/estimator.py`, preview and enqueue | the text of a case, a job, history |
| `Output` | `core/out_parser.py`, `determine_run_status` | FDS's files and console |
| `MC...` | values of the constants, symmetry, constraints | |
| `QueueManagerProofs` | theorems about `QueueManager` and that it implements `LocalSlot` | |
| `ClusterProofs` | theorems about agents, and that those about the queue manager hold in `Cluster` | |
| `SessionsProofs`, `FilesProofs`, `ServiceProofs` (with `Setup`), `UpdatesProofs`, `CasesProofs`, `OutputProofs` | theorems about these modules | |

Every module states its type invariant. TLC checks those of `QueueManager` and
`Cluster`; all are proved, as part of the inductive invariants of section 4.

Definitions whose name ends in a suffix after the name of another
(`finalize_job_keeps_slot` beside `finalize_job`) are plausible bugs in that code.
No specification uses them; replacing the original by one makes the property
that `PROJECT.json` names beside it fail.

### JobTable and Scheduler

A table is a function from jobs to rows. Each method of `Database` that a
decision depends on is an operator of the same name. A row keeps `status`,
`node_id` (`NoNode` for NULL), `queue_position` (`NoPosition`), whether
`start_requested_at`, `stop_requested_at` and `archived_at` are set, and its
deadline as unset, ahead or past. Status `absent` is a job that has not been
created. Text, estimates, times, energy and pids are left out: nothing is
decided by them, save the pid in the recovery: what `pid_exists` says of it is
true of a process that survived, and may be of one that took the number over.

`reorder_queue` checks that the listed ids are, as a set, the queued ones; a
list that names an id twice passes and leaves gaps, which is why `Orders` allows
any assignment of different positions.

`Scheduler` is a relation (`pick_node_for_job(j, online, busy, n)`) and the set
of results a tick can have (`Ticks`), both free of recursion so that they can be
used in proofs. Jobs of equal position, which `QueuePositions` excludes, would be
served in any order.

### QueueManager and LocalSlot

An action is what runs between two awaits.

* `_start_job` is `start_job_begins` (sets `starting`), then `SpawnReturns`, or
  `SpawnRaises` and, after the broadcast it awaits, `StartIsOver`.
* The dispatch loop is the phases of `loop`: `SchedulerTick`,
  `SweepStaleRemoteJobs` (one entry of its list per step), `EnforceScheduledStops`
  (the same, with the status read with the list), `DispatchNext`, and `start`
  while its own `_start_job` is under way.
* A run is `proc[j]`: `alive`, `exited` while its task drains the output, `none`
  when the task is done (`RunEnds`) or has raised (`ReaderFails`).
* The one flag `_stop_requested` is `stop_flag`, read by `RunEnds`.
* `finalize_job` is the shared tail of a run, called by the run's task, the
  sweep and the agents' finish.
* `Restart` is the loss of all that is in memory, then `lifespan`: the node
  registered, `recover_stale_running_job`, a new loop. Which FDS processes outlive
  it is chosen under the fault `survive`, whose pid is another process' by then
  under `pid_reused`: the recovery looks at the number only and leaves the row.
* Agents call `AgentStart` and `AgentFinish` for jobs of other nodes whenever
  they like, register and beat; a heartbeat grows old (`HeartbeatExpires`) at any
  moment. Endpoints do not ask who calls, but an agent only ever names jobs it
  was given, and a job keeps its node.

`Faults` chooses what may go wrong: `restart`, `survive`, `pid_reused`,
`spawn_fails`, `reader_fails` (full disk, a line longer than the stream reader's
limit).

`LocalSlot` is what is left of all this for the rest of the service: a slot that
is free, or taken by a job that is `spawning`, `failing`, `running` or `over`.
`TheSlot` is the refinement mapping: the job of `_starting` or of
`_running_job_id`, and the state of its process. `ImplementsSlot` says that every
step of the queue manager is a step of the slot or leaves it alone; `SlotSettles`
that only a simulation takes as long as it likes. Both are checked on one
machine, without `survive`, `pid_reused` and `reader_fails`: after the last the
slot does stay taken until a restart.

### Cluster

An agent is its coroutine `_run_job`: `fetch`, `start`, `run`, `upload`,
`finish`, or `fail` (the except clause), and `idle` or `down`. What it reports
is a message in `net` until the controller has handled it; what it only reads
(polls, the answer to metrics) is one step. A message may be lost, or be handled
after its sender gave up or died; the answer to a handled message may be lost;
and the controller may answer with an error and do nothing (`Refuse`: 401 after
its token was changed, 500 when the database is locked). No report looks at the
status of its answer, so an agent goes on after an error as after a success
(`Answered`). FDS processes an agent no longer watches are in `astray`. `out`
says that FDS has opened `CHID.out`: from then on the agent's reports have a
shape the endpoint refuses, and carry no stop back.

The network keeps no order and duplicates nothing: HTTP requests are sent once,
and each on a connection of its own at worst.

`Cluster` EXTENDS `QueueManager` and takes its controller steps and its two
endpoints as they are. That it is an instance of the open environment is
therefore no property of the code but a fact about the modules: the lemma
`ClusterImplements`, by which what is proved about `QueueManager` holds in the
cluster too (`ClusterInherits`). What a handler that does not ask who calls, and
when, can do to a recorded outcome is said by two properties: `OutcomeIsTheirs`,
under every fault, names the four ways in which one may change;
`AgentOutcomeIsFinal`, on a network that neither loses, delays nor refuses, leaves
only a job cancelled during its start. `RunsOnce` counts every FDS process of a
job (`FdsOf`): the tracked one here, orphans, an agent's, stray ones.

### Sessions

An action is one statement on the database and what follows it. The gate is a
coroutine without an await, so only one request is in a phase of it at a time;
handlers run in threads and interleave with one another and with gates. A
request carries any token ever issued, so logged-out and expired ones too. The
table's UNIQUE user name is the guard of `create_user`; a violated one is an error
response. Time passes between any two statements (`Tick`). Hashes are taken as
injective, so tokens and passwords stand for themselves. `late` and `ended` are
history: what was true when the request arrived.

`routes_auth.py` says that "once the first account exists, creating another one
requires being logged in already". It does not: bootstrap mode is read before the
account is made, and two first registrations may both have read it (the run
`two_first_accounts`). `AnonymousAccountsAreFirst` is what is left of that rule:
nobody registers without a session who came after there was an account.

### Files

A directory knows the files in it and which upload wrote each, and may have been
made in another (`Above`), also one that an upload has not finished: all that is
asked of a parent is that it exists. An upload streams one file per step,
answers in a step of its own, may fail at any (limit, full disk, a directory
that is gone) and then removes its directory with all that is below it. Jobs and
downloads look whether the input file, or the directory, is still there.
`within` is history: an upload was under way in a directory above when this one
began; such a case may be taken away with that upload, before its answer or
after it, and is the only one that `AnsweredCaseIsWhole` does not speak of.
`Safe` is `safe_filename`, which maps different names to one and may take the
`.fds` suffix away. An archive is a name in `exports` that leads to an inode, so
that a download that is being sent keeps the file another one unlinks or
overwrites. `alone` is history: no other download of that archive overlapped.
`cut` names what a restart or a full disk left behind.

### Config, Setup and Service

`Config` keeps the five keys of `config.yaml` that decide something or are edited:
`role`, `cluster_token`, `controller_url`, `fds_binary`, `port`. Of the first three
every reader treats a null as an absent key; a null `fds_binary` is "no binary";
a `port` that is absent is the default and one that is null makes `int(None)`
raise, so it has both values (`IsReadable`). `load_config` mints a token where
there is none, `persist_role` and `configure` rewrite single keys, a save writes
all of them after the file was emptied.

`Setup` is one machine and its one `fdsrouter` process: `deciding` at the question
of `start`, `pairing` with up to three tokens, `joining`, `joined` (an agent) or
`serving` (a controller). Discovery finds any set of controllers. The operator may
answer anything, edit the role by hand (an editor that replaces the file), and
end the process anywhere; controllers change their tokens.

The installer's script runs whenever it likes, beside whatever runs, as
`install.sh` tells the operator to run it beside the service: it reads the file
(`ScriptReads`), opens and so empties it (`ScriptOpens`), writes (`ScriptWrites`),
and may die before either (`ScriptDies`). What it read may have been emptied by a
save or changed since; a process may start, or save, between any two of its
steps. One such script runs at a time. Of the script its work on the file is
modelled; that it is run by `install.sh`, and what that does besides (packages, the
unit, the desktop entry), is not.

`Service` adds what happens while it serves: guarded restarts, stops and updates
from the web interface and the tray, whose commands may fail at each stage;
edits that set fields one by one in the shared object, a null among their
values, then open the file and dump; systemd, which lets a save end but not an
update; crashes. Of writers that have the file open at once the last one's
contents stay: a longer text of another may leave a tail behind it, which is not
modelled. It takes the queue manager as `LocalSlot`, so the guard, a spawn and a
run interleave as `QueueManager` is shown to let them. `tty` is FALSE for a
process that systemd started.

What the code does keep of a configuration is said with what it does not.
`overlapped` and `beside` are history: two saves with different contents, or the
script beside this process, had the file open; each is over with the next save
that has the file to itself, or the next process. `EditIsSaved` excuses these
two. `IdentityIsKept` speaks of every step but the script's writing over what
others have changed since it read, and excuses a pairing, a death with the file
open, and the save of a process that the script wrote beside. `UnattendedServes`
excuses a node of another controller and a null port. `UpdateIsInstalled` is about
the restart an update asks for; a restart asked for by itself, between another
update's pull and its install, finds what is checked out and not yet installed.

### Updates

The state of the queue is a version number. A broadcast holds the event loop
(`loop`) from its announcement until it returns or waits for a client whose
buffer is full; then others go on. A connection has an endpoint (`task`), a link
(`up`), and messages on the way (`inbox`). A browser applies what arrives, asks
for the list (`Refreshes`) and reconnects with a new connection while the server
may still hold the old one. `stale` is history: the browser was last shown an
answer read earlier than what it showed, or a message that had waited.

### Cases and Output

These are pure functions over states that a writer produces step by step. A
case is a sequence of tokens, enough for what `iter_namelists` and the readers
tell apart: line starts, ampersand words, both quotations, slashes and the
assignments somebody asks for. `Standing` and `Owner` are the reference: one pass
with a state, where the code jumps from match to match. The checks of
`check_case_text` that are modelled are the missing mesh, the missing surface and
the heat release without reaction; those on ramps, files, CHID and T_END follow
the same pattern. An estimate is an exact fraction, so that its bounds are not
blurred by rounding.

`Output` is a run of FDS that writes two CSV files field by field, a field
possibly cut in two, and `CHID.out`, over the files of an earlier run of the same
case; `_read_latest_csv_row`, the latest values, the thinned series and the
outcome of the run are read off them at every state. Of `determine_run_status` no
property is stated: it is one test, and what can go wrong is in what it tests. It
believes a `CHID.out` that an earlier run of the case left behind, so a run that
crashed before FDS opened its own is `done`, which its docstring calls a failure.

## 3. Properties and runs

Passing runs (distinct states in brackets):

| run | instance | shows |
|---|---|---|
| `queue_safety` [604 k] | 2 machines, 2 jobs, 3 positions, all faults, open agents | `TypeOK`, `SlotInvariant`, `OneLocalRun`, `QueuePositions` |
| `solo_liveness` [212 k] | 1 machine, 2 jobs, restarts, failing spawns | `RunningRowIsTracked`, `OutcomeIsFinal`, `StopEnds`, `DeadlineEnds`, `QueueDrains`; the refinement `ImplementsSlot`, `SlotSettles` |
| `cluster_refines` [1.26 M] | 2 agents, 1 job, restarts, failing spawns, all agent faults | `ClusterTypeOK`, `RunsOnOneAgent`, `OutcomeIsTheirs` |
| `cluster_calm` [92 k] | 1 agent, 2 jobs, crashes and failures but a reliable network | `WatchedRunIsRunning`, `RunsOnce`, `AgentOutcomeIsFinal`, `EarlyStopEnds`, `LostRunEnds` |
| `sessions` [2.8 M] | 2 requests, 2 names (one from a proxy), 2 tokens, time to live 2 | `EndedSessionStaysEnded`, `AnonymousAccountsAreFirst`, `RegisterKeepsCaller`, `UseExtendsSession` |
| `service` [1.2 M] | 2 requests, the script, 1 job, 1 other controller, 3 tokens, 2 revisions | `SavedPairingVerified`, `UpdateIsInstalled`, `EditIsSaved`, `UnconfirmedSparesRuns`, `IdentityIsKept`, `UnattendedServes` |
| `updates` [0.7 M] | 1 browser, 2 connections, 2 broadcasts, 2 changes | `ViewIsCurrent`, `BroadcastEnds` |
| `case_files` [483 k] | 3 uploads, 2 downloads, a directory in another, 1 job, 4 file names; beside that, texts of 3 lines out of 9, 3 runs of history; beside that, 5 rows, 2 runs | `AnsweredCaseIsWhole`, `NoHalfWrittenCase`, `LoneArchiveIsWhole`, `ArchivesAreDeleted`; `FindingsAreReal`, `PreviewIsAccepted`, `EstimateIsInRange`; `ReadingsAreWhole`, `SeriesReachesTheEnd` |

Bounds. Two jobs are enough for everything that is about one job overtaking
another (a start against a run, a stop against the next run, a finish against
the tracked run); with three positions for them gaps and reuse occur. One remote
machine is enough where the question is the controller against an agent, two
where it is agent against agent. `Positions` bounds `queue_position`: an enqueue
that would exceed it is disabled, which only keeps jobs from being created. Jobs
are never deleted in the code either, so `absent` jobs are the bound on
creation. Every job fits on every machine in the instances, the agent's machine
is the bigger one, so that ticks prefer it. Two requests or downloads are the
overlaps that the properties of those modules are about: one that acts and one
that has read before. Three uploads are one in a directory, one below it, and
one that makes a directory again while its first writer goes on. Two revisions
are one installed and one to come: an update that pulls it meets another that
has pulled none or that one; of longer chains only the proof speaks. In
`sessions` the clock runs for as long as a session lives, so expiry, the
interval between touches and a touch after an expiry all occur. In `case_files`
two names share a safe name and one loses its suffix. In `updates` the browser's
old connection beside its new one is the slow or dead client beside the live
one. The nine lines of `case_files` hold a mesh in and out of place, a group
left open, slashes in both quotations, a lone apostrophe, and surfaces that are
and are not defined; histories have cell counts within and beyond the ratio of
five; a series is thinned from one row more than the limit on.

Constraints name what is left out of an instance. `NoDeadlines` and
`NoArchiving` (in `queue_safety`, `cluster_refines`, `cluster_calm`): the
operator sets no deadline and archives nothing; both happen in `solo_liveness`.
`StartsWaitForAssignment` (in `cluster_calm`): nothing unassigned is started by
hand; without it `RunsOnce` is false (run `runs_twice`). In `cluster_calm`, the
one liveness run with constraints, all three only take away steps of the
operator, to which no fairness applies, so no behaviour is cut off in the middle
of something that would have gone on. `NoAutoAdvance` (in `cluster_refines`):
the operator starts every job by hand; with auto_advance the controller's own
part is that of `queue_safety`. `CookieOrProxy` (in `sessions`): a request with
the proxy's header, for which the gate does not look at the cookie, has none. In
`service` four constraints keep apart what does not touch one another.
`OnePurpose`: a machine set up with `fdsrouter agent` does not serve as a
controller too, as neither command reads the other's file. `RunsOrFiles`: runs
and updates, which touch no file, are explored on a machine that serves as it
was first started. `ScriptMeetsEdits`: the script meets one edit at a time,
crashes and starts, but no restart by the unit. `PairedServesOnly`: a paired
node that is made to serve is asked for nothing. The proofs know none of the
four. In `case_files` the three modules are explored one beside the other (the
guards of `Next` in `MCCaseFiles`, and `FilesOrRun`), archives are looked at
with at most one upload (`DownloadsOfOneCase`), and runs of history are of cases
of at most one line (`HistoryOfSmallCases`), which have the cell counts of
larger ones. Ids are symmetric in `queue_safety`, `sessions`, `case_files` and
`service`; no liveness run uses symmetry.

Fairness. The event loop runs every ready task, so the dispatch loop, a returned
spawn, the end of a failed start and the end of a run are weakly fair. A process
ends fairly only if `terminate()` is on it (SIGKILL follows SIGTERM); only
`QueueDrains` assumes, in the property itself (`SimulationsEnd`), that
simulations end by themselves. In `Cluster` the same
holds of the agents' loops, every request is handled or given up, and the
heartbeat of a dead agent grows old. In `Updates` broadcasts go on, a client that
is connected reads in the end, and uvicorn's pings find out one that is gone; a
client that neither reads nor goes away would hold up a broadcast for ever. No
operator step, fault, crash, registration or change of the queue is fair.
`reader_fails` is left out of the liveness runs: after it the slot stays taken
until a restart, which is what the code does.

Runs that show the code departing from what it says (each a finding in
`PROJECT.json`, with the line quoted):

| run | what happens |
|---|---|
| `runs_twice` | during the spawn of a job started by hand the tick assigns it to an agent, which starts it as well |
| `stop_ignored` | once `CHID.out` exists the agent's report carries `devices` as a dict where the endpoint declares a list; the report is refused with 422 and the stop in its answer is never seen |
| `two_first_accounts` | two registrations at a fresh installation both read bootstrap mode before either made its account, so the second account is made by nobody who is logged in |
| `never_paired` | a fresh `config.yaml` has a token of its own, so a machine that joins a controller at the question of `fdsrouter start` is not asked for the controller's and is refused at every start |

Behaviours of the model without a run of their own, each a consequence of the
code that a reader should know:

* A job started by hand before the tick runs with `node_id` NULL; a stop or its
  deadline takes the branch for remote jobs and signals nothing. The recovery does
  not find its row either (`get_running_job` looks for the node's id).
* A cancel handled while the spawn is awaited is overwritten by `start_job`; if
  the row was archived meanwhile, it runs archived and is not listed.
* An agent that is back within 45 s of its last heartbeat forgets its run, whose
  row stays `running`.
* An agent whose reports are answered with errors goes on: the run it could not
  report as started runs to its end, and the row that it could not report as
  finished stays `running`.
* A process that survives a restart is watched by nobody, so its row stays
  `running` after it exits, until the next restart. One whose pid another process
  has taken by then stays `running` at that restart too.
* A start requested for a job that is not its node's first is not offered to the
  agent while the first has no permission. Jobs assigned and not yet started do
  not make a node busy, so ticks can give every job to the biggest machine.
* A stop that arrives between the exit of a process and the end of its output
  turns the outcome into `cancelled`.
* The guard of restart, stop and update does not see a spawn in progress, and is
  not repeated after the minutes of an update: a run begun in between is ended.
  One update's install can be cut off by another's restart.
* Two overlapping edits of the configuration may leave the file and the memory
  different; a crash between the opening and the dump of a save leaves an empty
  file, that is, a new token and the role `controller`.
* The installer's script beside the service leaves the file different from the
  form until the next save, which undoes what the script has set. If it reads
  the file while a save has emptied it, it writes it back without role and token:
  the next start mints another token, and no node's matches.
* A null `port` is accepted by the form's endpoint and saved; the next start raises.
* A restart asked for by itself does not wait for an update's install.
* A `config.yaml` that the installer wrote has no role, which is read as
  `controller`; with it the question of `start` is never put.
* Two downloads of one job's results at a time spoil each other: the second
  empties the file the first sends, and the first deletes the second's.
* An upload whose `.fds` file is stored under a safe name without the suffix
  answers with no path. A restart leaves a half-written case. A case uploaded into
  the directory of an upload under way is deleted with that one if it fails.
* A browser that reconnects does not ask for the list, and a new deadline or the
  stop of a remote run is not announced: it shows the old state until the next
  announcement. A client that does not read holds up the caller of the broadcast.
* A `CHID.out` of an earlier run of the case, left in place by a run that ends
  before FDS opens its own, confirms that run. A number in the last column may be
  read half written. A thinned series may have one point more than the limit.
* A group or a quotation left open swallows the namelists behind it, for the
  parser as for FDS.

## 4. Theorems

Each is a theorem of the specification of its module, for every value of the
constants that the assumptions beside their declarations allow: any sets of
jobs, machines, positions, requests, names, tokens, uploads, browsers, any
faults, any bound on counters. The `CONSTRAINT`s of the runs are no part of
them: what they leave out of an instance, the proofs include.

Assumptions. Values that stand for NULL or for nothing are not among the values
they are told from (`NoNode`, `NoJob`, `NoName`, `NoToken`, `NoUrl`, `Nobody`,
`NoFile`, `NoStatus`, `Nothing`); ids of nodes are ordered strictly, as SQLite's
text keys are; every token is minted here or issued elsewhere, not both; a
directory of uploads is no archive of a job (they are in different parents), and
those above it do not contain it and have theirs above it too; `TOUCH_INTERVAL`
is positive and at most the time to live; a CSV file has columns and the HRR is
not the first; the lines of a case are sequences of tokens, `none` is no name of
a namelist and the dimensions of a mesh are digits, as `_IJK_RE` demands; there
is at least one MPI process by default. TLC evaluates all of them in the runs.

How they were found: for each property the strengthening was first an invariant
of a TLC run of the instances above, then split into the facts that each group of
actions needs (the one of `Output`, which follows its module line by line, went
straight to the prover). A proof module has the invariant first, then a lemma for
what a step leaves alone (the frame), a lemma for each action or group of them,
then the theorems.

### The queue manager (`QueueManagerProofs`)

* `TypeCorrect`: `TypeOK`. One lemma per group of actions, over lemmas that each
  statement of the table maps tables to tables.
* `SlotCorrect`: `SlotInvariant`, inductive relative to `TypeOK`. It ties the slot
  (`starting`, `running`) to the rows: neither `OneLocalRun` nor
  `OutcomeIsFinal` is inductive, since both hang on which job a process, a pending
  start and an entry of the sweep's list belong to.
* `OneLocalRunHolds`: follows from it.
* `OutcomeIsFinalHolds`: every step that rewrites an outcome is a spawn of a
  cancelled job or concerns another node's job, given `SlotInvariant` before it.
* `QueueOrdered`: `QueuePositions`, inductive relative to `TypeOK`: every statement
  but two keeps a row's place or takes it from a row that leaves the queue
  (`KeepsOrLeaves`); `create_job` appends behind the maximum, `reorder_queue`
  gives different indices.
* `SlotImplemented`: `ImplementsSlot`, also beside agents. A step maps to the
  beginning or end of a spawn, the end of a process or of a run, or leaves
  `TheSlot` alone. It needs `SlotInvariant` (while something is being started
  nothing is tracked) and that what fails to start is a job (`FailureHasJob`).
  Where an agent finishes the job that runs here, which it may be given during
  the spawn, the slot is freed before the process ends (`Ends` of the slot), and
  the process is then nothing to it (`SlotIgnores`).
* `RunningRowTracked`: `RunningRowIsTracked`, if no process outlives the service,
  no pid is used again and no reader fails. Inductive with `orphans = {}`: since
  there is at most one row running here, closing one row is closing all. All three
  hypotheses are needed: an orphan is watched by nobody, a row whose pid somebody
  has is not closed, a failed reader never calls `finalize_job`.

### The cluster (`ClusterProofs`)

* `ClusterImplements`, a lemma: `ClusterSpec => Spec`. It holds by construction, as
  the agents' requests are the endpoints of `QueueManager`; all it needs is that a
  working agent has a job and a message but that of a start carries an outcome
  (`AgentInv`). It says nothing about the code by itself and is there to carry
  theorems over.
* `ClusterTypeCorrect`, and `ClusterInherits`: one local run, the order of the
  queue, final outcomes and the slot in the cluster, from the theorems above.
* `RunsOnOneAgentHolds`: under every fault. It speaks of two agents' machines;
  this machine may run a job beside one of them (`runs_twice`). From
  `AtItsNode`, that an agent, its stray processes and its messages are about
  jobs of its node, and `NodeKept`, that a `node_id` once set is never changed.
* `OutcomeIsTheirsHolds`: `OutcomeIsTheirs`, under every fault. The step that
  rewrites an outcome is found by action; that a report is about a job of its
  sender's machine is `AtItsNode`, that a run which ends here was running is
  `SlotInvariant`.
* `RunsOnceHolds`: if nothing is lost or late, no process outlives its agent or the
  service, and starts by hand wait for the assignment (as a hypothesis on the
  behaviour, `[]StartsWaitForAssignment`). Two invariants meet: `LocalsAreLocal` and
  `NothingAstray`. Each hypothesis excludes a way in which the code does start a
  job twice: the last is the finding of `runs_twice`; after a lost answer, or with
  a process that outlived its agent or the service, FDS is left running and a
  restart of the job runs beside it.
* `WatchedRunHolds`: if nothing is lost, late or refused, heartbeats of a live
  agent get through, and starts by hand wait. `WatchInv` says that every request
  under way is one its sender waits for, that an agent that is up is online,
  and, what makes it inductive, that an entry of the sweep's list is in no
  agent's hands although the sweep awaits between its entries
  (`SweepsTheAbandoned`).
* `AgentOutcomeIsFinalHolds`: `AgentOutcomeIsFinal`, from the same hypotheses and
  `WatchInv`. `OutcomeInv` adds that a job in an agent's hands whose row has an
  outcome was cancelled during its start, and that only running rows are in the
  sweep's list.

### Sessions (`SessionsProofs`)

`SessionsCorrect` is the types and `SessionsInv`: a live row is valid for one time
to live from its last use; one gate at a time is past its first look
(`OneGate`, since it does not await); what each request has read is still true as
far as it goes (`RequestOK`); and a touch writes a time not older than that at
which anyone else was let in (`TouchesLater`). From it `EndedSessionHolds`
(a row that was deleted stays so), `AnonymousAccountsHold` and
`RegisterKeepsCallerHolds` (accounts are never deleted, so what bootstrap mode was
bounds what it is), `UseExtendsHolds` (no touch moves an expiry back by more than
the interval).

### Files (`FilesProofs`)

`FilesCorrect` is the types and two invariants that do not meet. `UploadsInv`:
of uploads that were not begun within another's, each has a directory of its own
(`HasDirectory`, `OnItsOwn`), in which is what it has written and nothing else
(`OwnsItsFiles`), no upload under way above it (`NobodyAbove`), so no failure
reaches it; and a directory that exists is in directories that do (`Nested`).
`DownloadsInv`: a file of the exports directory, linked or not, is one archive
for as long as a name or a download refers to it, and a download that is alone
so far is alone with it. From them `AnsweredCaseHolds`,
`NoHalfWrittenCaseHolds`, `LoneArchiveHolds`, `ArchivesAreDeletedHolds`.

### Setup and Service (`ServiceProofs`)

`ServiceCorrect` is the types and `ServiceInv`: every file, every loaded Config and
whatever a save or the script is about to write has an address only beside a
token that it accepted; what is installed was checked out, what is checked out
was published, and an update is not behind what it pulled; an edit that has set
its fields, or whoever has the file open, is going to write the values in memory,
until two saves overlap or the script was beside; whoever is past the guard
beside a tracked run was forced or was there first. From it `SavedPairingHolds`,
`UpdateIsInstalledHolds`, `EditIsSavedHolds`, and the action properties
`UnconfirmedSparesHolds` and `UnattendedServesHolds`. `IdentityIsKeptHolds` is
proved step by step, over lemmas on `load_config`, `persist_role` and `configure`,
in terms of what the file will hold when those who have it open are done
(`ToCome`): the script may read an emptied file, and is then late when it opens it.

### Updates (`UpdatesProofs`)

`UpdatesCorrect` is the types and `UpdatesInv`: a connection that was told has the
last announcement still to be sent to it, or behind all that is on the way to it,
or the browser shows it, unless something late was or will be shown (`Reaches`).
That needs two facts on their own: a browser has one connection that is up
(`LinksOK`), and a broadcast that has not waited is the last announcement
(`AtOnce`), as the event loop sends without a pause until a client's buffer is
full. `ViewIsCurrentHolds` follows.

### Output (`OutputProofs`)

Theorems of `OutputSpec`, which the `Output` part of the `case_files` run obeys.
`OutputCorrect` is the types and `OutputInv`. `ReadingsAreWholeHolds` and
`SeriesReachesTheEndHolds` are about what is computed of the files in any state:
`RowsThatReach` says which rows have a column, `StrideFits` and
`ThinnedKeepsTheEnds` what thinning with a stride does to a series of any
length, by the bounds of an integer division.

### Cases (`CasesProofs`)

Theorems of `CaseSpec`, which the `Cases` part of the `case_files` run obeys,
for any set of lines, hence any text however long, and any history.
`CasesCorrect` is the invariant `CasesInv`: the file is a sequence of tokens,
every run of the history had cells and processes, and a job's estimate is that
of the history there is, which stays as it is for as long as the job is there.
The rest is about what the functions compute of any such text and history, in
three steps.

* *Recursion.* What a recursive function computes is proved by least
  counterexamples. `LeastOfNaturals`, that a set of naturals has a least element,
  is an instance of the library's theorem on well-founded relations that needs no
  operator as a parameter. From it come `Induction` (over sets, not operators),
  `RecursionIsSound` (a recursive definition that looks at smaller arguments has a
  value that satisfies its equation, without which a `CHOOSE` says nothing), and
  `UnfoldingStays`. The scan for quotations, the walk from namelist to namelist,
  the reference reading and the sum of the cells are all unfolded by these.
* *`FindingsAreRealHolds`.* `StandingIs`, `ReadingsAgree`, `InsideNamelist` and
  `OutsideNamelists` tie the state of the reference at a token to the open
  quotation in the scan that the namelist's head began, or to no head being in
  sight. So the reference is `out` behind the slash at which the scan stops, and
  the heads found by jumping (`NextHead`, `ListIs`) are those of the reference
  (`NamelistsAreThoseOfHeads`); what is said in a body is what the tokens owned
  by its head say (`ValuesAreSaid`), by name (`NamesAreOwners`).
  `PreviewIsAcceptedHolds` needs from it only that the number of meshes is one.
* *`EstimateIsInRangeHolds`.* The kth smallest sample exists: among the samples with
  at least k at or below them one has the fewest, and less than k lie strictly
  below it (`OrderStatisticIsSample`, by `MoreIsMore`). So the median is a sample or
  lies between two, and scaling by cells and processes keeps the order of
  fractions. All by cross-multiplication, as nothing is rounded.

### Only model-checked

The liveness properties: `StopEnds`, `DeadlineEnds`, `QueueDrains`, `SlotSettles`,
`EarlyStopEnds`, `LostRunEnds`, `BroadcastEnds`. Fairness and ENABLED are out of the
prover's reach. So are the four findings, which are counterexamples.

No module uses RECURSIVE operators: recursion is written as recursive functions.

## 5. What is left

Every safety property that a passing run checks is a theorem; the liveness
properties stay with TLC.

Not modelled:

* The samplers of temperature, fans, load and processes (`core/monitor.py`,
  `core/system_monitor.py`, `core/external_jobs.py`, `core/temperature.py`,
  `core/fans.py`): they read the operating system and no decision reads them.
* Energy, notifications, settings and the audit log: written beside a run and
  never read back by another part.
* Log lines and metric samples of agents: stored and shown; they take the same way
  as the reports that are modelled.
* The listings (nodes, jobs, devices, metrics, logs, directories) and what the
  browser client and the tray show: views. The tray's message that the service is
  back is one of them.
* `--port` and other overrides of `start`, which the next save writes into the
  file: only `--controller`, which is written in the same way, is modelled.
* Time step, limiting mesh and warnings of `CHID.out`, the end time of a case and
  the checks on ramps, files, CHID and T_END: searches of the pattern modelled.
