------------------------------- MODULE Service -------------------------------
(***************************************************************************)
(* The controller as a service: what its own endpoints (src/fdsrouter/api/   *)
(* routes_service.py, core/service_control.py) and systemd do to the process *)
(* and to the simulation it runs, called from the web interface and from     *)
(* the tray icon (tray.py).                                                 *)
(*                                                                          *)
(* The handlers are threads: everything else goes on between their steps.    *)
(* The queue manager is taken as its promise, LocalSlot; the process comes   *)
(* and goes as in Setup, by hand or started by systemd (prog.tty is FALSE).  *)
(***************************************************************************)
EXTENDS Setup, LocalSlot

CONSTANTS
  Request,      \* requests that may be under way at once
  MaxRevision   \* bound on the revisions that are published

ASSUME ServiceAssumption == MaxRevision \in Nat

VARIABLES
  request,    \* what each request does and how far it is
  unit_job,   \* what systemd has accepted to do with the unit
  rev,        \* revisions: published, checked out, installed
  begun_over, \* history: requests past their guard when the present run began
  overlapped, \* history: two saves with different contents had the file open
  beside      \* history: the script had it open beside this process

history == <<begun_over, overlapped, beside>>
vars == <<setup, slot, request, unit_job, rev, history>>

NoRequest == [verb |-> "none"]

Fields == ({"port"} \X (Ports \union {"null"})) \union ({"fds"} \X Binaries)

\* An update is past its guard, its pull or its install; an edit has fields left
\* to set, or has opened the file, with what it will write.
Requests ==
  [verb : {"restart", "stop"}, force : BOOLEAN]
  \union [verb : {"update"}, force : BOOLEAN, stage : {"guarded", "pulled", "installed"},
          pulled : 0..MaxRevision]
  \union [verb : {"edit"}, stage : {"setting"}, left : SUBSET Fields, changed : BOOLEAN]
  \union [verb : {"edit"}, stage : {"opened"}, written : Settings]

NoUnitJob == [verb |-> "none"]

\* what is done, for which request, whether forced, and for an update the
\* revision it pulled (0: not an update)
UnitJobs ==
  [verb : {"restart", "stop"}, by : Request, force : BOOLEAN, pulled : 0..MaxRevision]
  \union [verb : {"recover"}]

Serving == prog.phase = "serving"

\* The process has read config.yaml and goes on as a controller, or may yet.
HasLoaded == prog.phase \in {"deciding", "serving"}

\* systemd manages the process: the unit started it.
Controllable == ~prog.tty

ServiceTypeOK ==
  /\ SetupTypeOK
  /\ SlotTypeOK
  /\ request \in [Request -> Requests \union {NoRequest}]
  /\ unit_job \in UnitJobs \union {NoUnitJob}
  /\ rev \in [published : 0..MaxRevision, checkout : 0..MaxRevision,
              installed : 0..MaxRevision]
  /\ begun_over \subseteq Request
  /\ overlapped \in BOOLEAN
  /\ beside \in BOOLEAN

Init ==
  /\ SetupInit
  /\ SlotInit
  /\ request = [r \in Request |-> NoRequest]
  /\ unit_job = NoUnitJob
  /\ rev = [published |-> 0, checkout |-> 0, installed |-> 0]
  /\ begun_over = {}
  /\ overlapped = FALSE
  /\ beside = FALSE

Verb(r) == request[r].verb
Waits(r) == unit_job.verb \in {"restart", "stop"} /\ unit_job.by = r
Done(r) == request' = [request EXCEPT ![r] = NoRequest]

-----------------------------------------------------------------------------
(* The process *)

\* A start reads the file and loads the code that is checked out.
StartsUp(tty, controller) ==
  /\ Start(tty, controller)
  /\ overlapped' = FALSE
  /\ beside' = (HasLoaded' /\ ScriptHasOpen)

StartsByHand ==
  /\ unit_job = NoUnitJob
  /\ \E controller \in BOOLEAN : StartsUp(TRUE, controller)
  /\ UNCHANGED <<slot, request, unit_job, rev, begun_over>>

\* At boot, or `systemctl start`.
StartsAtBoot ==
  /\ unit_job = NoUnitJob
  /\ StartsUp(FALSE, FALSE)
  /\ UNCHANGED <<slot, request, unit_job, rev, begun_over>>

\* The script and the hand at the file do not wait for what systemd does.
SetsUp ==
  /\ SetupStep
  /\ prog' # prog => unit_job = NoUnitJob
  /\ beside' = (HasLoaded' /\ (beside \/ ScriptHasOpen'))
  /\ UNCHANGED <<slot, request, unit_job, rev, begun_over, overlapped>>

\* The process is gone, and with it its FDS child and its requests.
ProcessEnds ==
  /\ prog' = Down
  /\ slot' = Free
  /\ request' = [r \in Request |-> NoRequest]
  /\ begun_over' = {}
  /\ overlapped' = FALSE
  /\ beside' = FALSE
  /\ UNCHANGED <<file, agent_file, script, accepts, verified, rev>>

\* SIGTERM to the control group.  The server lets handlers return, but waits a
\* minute at most: an update may be cut off, a save is not.
SystemdStops ==
  /\ Serving
  /\ unit_job.verb \in {"restart", "stop"}
  /\ \A r \in Request : Verb(r) # "edit"
  /\ ProcessEnds
  /\ unit_job' = IF unit_job.verb = "stop" THEN NoUnitJob ELSE unit_job

\* A crash, or the power fails; Restart=on-failure under systemd.
Crashes ==
  /\ Serving
  /\ ProcessEnds
  /\ unit_job' = IF unit_job.verb = "stop" \/ prog.tty THEN NoUnitJob
                 ELSE IF unit_job.verb = "restart" THEN unit_job
                 ELSE [verb |-> "recover"]

SystemdStarts ==
  /\ unit_job.verb \in {"restart", "recover"}
  /\ StartsUp(FALSE, FALSE)
  /\ unit_job' = NoUnitJob
  /\ UNCHANGED <<slot, request, rev, begun_over>>

\* What the queue manager does meanwhile.
RunsGoOn ==
  /\ Serving
  /\ SlotStep
  /\ begun_over' = IF IsIn("spawning") /\ slot'.phase = "running"
                   THEN {r \in Request : Verb(r) \in {"restart", "stop", "update"} \/ Waits(r)}
                   ELSE IF slot' = Free THEN {} ELSE begun_over
  /\ UNCHANGED <<setup, request, unit_job, rev, overlapped, beside>>

-----------------------------------------------------------------------------
(* Restart, stop, update *)

\* current_job_id() is not None
RunIsTracked == slot.phase \in {"running", "over"}

\* Mutant: a job that is being started is all that is looked at.
guard_running_job_spawn(force) == force \/ ~IsIn("spawning")

guard_running_job(force) == force \/ ~RunIsTracked

Asked(verb, force) ==
  IF verb = "update"
  THEN [verb |-> verb, force |-> force, stage |-> "guarded", pulled |-> 0]
  ELSE [verb |-> verb, force |-> force]

Asks(r, verb, force) ==
  /\ Serving
  /\ request[r] = NoRequest /\ ~Waits(r)
  /\ guard_running_job(force)
  /\ request' = [request EXCEPT ![r] = Asked(verb, force)]
  /\ begun_over' = begun_over \ {r}
  /\ UNCHANGED <<setup, slot, unit_job, rev, overlapped, beside>>

\* The web interface, which repeats a refused request with force.
WebAsks(r) ==
  \E verb \in {"restart", "stop", "update"}, force \in BOOLEAN : Asks(r, verb, force)

\* The tray icon, which cannot ask for a confirmation.
TrayAsks(r) == \E verb \in {"restart", "stop", "update"} : Asks(r, verb, FALSE)

\* systemctl --no-block: the job is queued, in place of one that waits.
systemctl_verb(verb, r, pulled) ==
  /\ Controllable
  /\ unit_job' = [verb |-> verb, by |-> r, force |-> request[r].force, pulled |-> pulled]

Acts(r) ==
  /\ Verb(r) \in {"restart", "stop"}
  /\ systemctl_verb(Verb(r), r, 0)
  /\ Done(r)
  /\ UNCHANGED <<setup, slot, rev, history>>

\* A command of any request fails or times out: 500, nothing is undone.
Fails(r) ==
  /\ Verb(r) \in {"restart", "stop", "update"}
  /\ Done(r)
  /\ UNCHANGED <<setup, slot, unit_job, rev, history>>

Stage(r, stage) == Verb(r) = "update" /\ request[r].stage = stage

\* git pull --ff-only
UpdatePulls(r) ==
  /\ Stage(r, "guarded")
  /\ rev' = [rev EXCEPT !.checkout = rev.published]
  /\ request' = [request EXCEPT ![r].stage = "pulled", ![r].pulled = rev.published]
  /\ UNCHANGED <<setup, slot, unit_job, history>>

\* Mutant: a failed install is not noticed.
UpdateInstalls_unchecked(r) ==
  /\ Stage(r, "pulled")
  /\ \/ rev' = [rev EXCEPT !.installed = rev.checkout]
     \/ UNCHANGED rev
  /\ request' = [request EXCEPT ![r].stage = "installed"]
  /\ UNCHANGED <<setup, slot, unit_job, history>>

\* pip install -e
UpdateInstalls(r) ==
  /\ Stage(r, "pulled")
  /\ rev' = [rev EXCEPT !.installed = rev.checkout]
  /\ request' = [request EXCEPT ![r].stage = "installed"]
  /\ UNCHANGED <<setup, slot, unit_job, history>>

\* The restart at the end, where systemd manages the process.
UpdateRestarts(r) ==
  /\ Stage(r, "installed")
  /\ IF Controllable THEN systemctl_verb("restart", r, request[r].pulled)
     ELSE UNCHANGED unit_job
  /\ Done(r)
  /\ UNCHANGED <<setup, slot, rev, history>>

\* Somebody pushes.
Publish ==
  /\ rev.published < MaxRevision
  /\ rev' = [rev EXCEPT !.published = @ + 1]
  /\ UNCHANGED <<setup, slot, request, unit_job, history>>

-----------------------------------------------------------------------------
(* PUT /api/service/config *)

Edits == {r \in Request : Verb(r) = "edit"}
HasOpen(r) == r \in Edits /\ request[r].stage = "opened"

\* What is sent: one value for each of some fields (the web interface names all).
Payloads ==
  {fields \in SUBSET Fields \ {{}} : \A f, g \in fields : f[1] = g[1] => f = g}

EditAsks(r, fields) ==
  /\ Serving
  /\ request[r] = NoRequest /\ ~Waits(r)
  /\ request' = [request EXCEPT ![r] =
       [verb |-> "edit", stage |-> "setting", left |-> fields, changed |-> FALSE]]
  /\ UNCHANGED <<setup, slot, unit_job, rev, history>>

\* In memory, one by one, those that differ; none that does, nothing to do.
EditSets(r, name, value) ==
  /\ r \in Edits /\ request[r].stage = "setting"
  /\ <<name, value>> \in request[r].left
  /\ prog' = [prog EXCEPT !.config[name] = value]
  /\ LET left == request[r].left \ {<<name, value>>}
         changed == request[r].changed \/ prog.config[name] # value IN
     IF left = {} /\ ~changed THEN Done(r)
     ELSE request' = [request EXCEPT ![r].left = left, ![r].changed = changed]
  /\ UNCHANGED <<file, agent_file, script, accepts, verified, slot, unit_job, rev, history>>

\* A save that opens the file alone makes up for what went wrong before.
Opens(r, written) ==
  /\ r \in Edits /\ request[r].stage = "setting" /\ request[r].left = {}
  /\ file' = Empty
  /\ request' = [request EXCEPT ![r] = [verb |-> "edit", stage |-> "opened", written |-> written]]
  /\ overlapped' = \E q \in Edits : HasOpen(q) /\ (overlapped \/ request[q].written # written)
  /\ beside' = (beside /\ (ScriptHasOpen \/ \E q \in Edits : HasOpen(q)))
  /\ UNCHANGED <<agent_file, prog, script, accepts, verified, slot, unit_job, rev, begun_over>>

\* Mutant: what is on disk is written back.
SaveOpens_of_file(r) == Opens(r, Loaded(file))

\* save_config: the file is opened, and so emptied, for the whole Config ...
SaveOpens(r) == Opens(r, prog.config)

\* ... which is then written; the last writer's stays.
SaveDumps(r) ==
  /\ HasOpen(r)
  /\ file' = request[r].written
  /\ Done(r)
  /\ UNCHANGED <<agent_file, prog, script, accepts, verified, slot, unit_job, rev, history>>

-----------------------------------------------------------------------------
RequestStep ==
  \E r \in Request :
    \/ WebAsks(r) \/ TrayAsks(r) \/ Acts(r) \/ Fails(r)
    \/ UpdatePulls(r) \/ UpdateInstalls(r) \/ UpdateRestarts(r)
    \/ \E fields \in Payloads : EditAsks(r, fields)
    \/ \E field \in Fields : EditSets(r, field[1], field[2])
    \/ SaveOpens(r) \/ SaveDumps(r)

Next ==
  \/ StartsByHand \/ StartsAtBoot \/ SetsUp
  \/ SystemdStops \/ SystemdStarts \/ Crashes
  \/ RunsGoOn
  \/ RequestStep
  \/ Publish

Spec == Init /\ [][Next]_vars

-----------------------------------------------------------------------------
(* Properties *)

\* A restart, stop or update nobody confirmed never ends a simulation that was
\* running when it was asked for: only one whose start it overtook, in the
\* spawn or in the minutes of an update (routes_service.py: "both refuse while
\* a job is running unless the caller explicitly confirms").
UnconfirmedSparesRuns ==
  [][RunIsTracked /\ SystemdStops => unit_job.force \/ unit_job.by \in begun_over]_vars

\* A restart that an update asked for finds at least what that update pulled,
\* checked out and installed, whatever other updates did meanwhile, up to the
\* start of the new process (update: "only then restarts").
UpdateIsInstalled ==
  unit_job.verb = "restart" =>
    rev.checkout >= unit_job.pulled /\ rev.installed >= unit_job.pulled

\* What the form shows is what is on disk once the edits are answered
\* (save_config: "what they see in the form is what ends up on disk"), however
\* their steps interleave, unless a save was overtaken by a newer one or the
\* script wrote beside this process, and then until the next save that has the
\* file to itself or the next start.
EditIsSaved ==
  Serving /\ Edits = {} /\ ~overlapped /\ ~beside =>
    PortOf(file) = prog.config.port /\ file.fds = prog.config.fds

\* What the file will hold when those who have it open are done: what one of
\* them writes; or what it holds.
ToCome ==
  LET writing == {request[r].written : r \in {q \in Edits : HasOpen(q)}}
                   \union IF ScriptHasOpen THEN {script.written} ELSE {} IN
  IF writing = {} THEN {file} \ {NoFile} ELSE writing

RolesToCome == {f.role : f \in ToCome}
TokensToCome == {f.token : f \in ToCome}

\* The script opens a file that is not what it read, or that a save is writing.
ScriptIsLate ==
  ScriptOpens /\ (script.raw # file \/ \E r \in Edits : HasOpen(r))

\* The process or the script dies with the file open.
DiesWriting ==
  \/ prog' = Down /\ \E r \in Edits : HasOpen(r)
  \/ ScriptHasOpen /\ ScriptDies

\* The decision for a role is never forgotten, so that no start asks again, and
\* the token that other machines have copied stays this machine's, through
\* installer, starts, edits, updates and crashes: until it is paired itself, or
\* whoever has the file open dies.  It takes an installer's script that writes
\* back what others have changed since it read, or a save after the script had
\* the file open beside the process.
IdentityIsKept ==
  [][ToCome # {} /\ ~ScriptIsLate =>
       /\ \/ "auto" \notin RolesToCome => "auto" \notin RolesToCome'
          \/ DiesWriting /\ beside
       /\ \/ TokensToCome \subseteq {NoToken}
          \/ TokensToCome' \subseteq TokensToCome
          \/ prog.phase = "pairing" /\ prog'.phase = "joining"
          \/ DiesWriting
          \/ beside /\ \E r \in Edits : SaveOpens(r)]_vars

\* When systemd starts the service, at boot or again, it serves, with nobody at
\* a terminal, unless the machine is another controller's node or its file has a
\* port that is null (_decide_role: "an unattended start (systemd, a script)
\* always becomes a Controller").
UnattendedServes ==
  [][StartsAtBoot \/ SystemdStarts =>
       prog'.phase = "serving" \/ file'.role = "agent" \/ file'.port = "null"]_vars
=============================================================================
