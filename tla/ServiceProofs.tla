---------------------------- MODULE ServiceProofs ----------------------------
(***************************************************************************)
(* Proofs about Setup and Service: what every file and every loaded Config   *)
(* says of a pairing, what an update has behind it when it restarts the      *)
(* unit, what is on disk beside what is in memory, and whom a restart that   *)
(* waits at systemd may surprise.                                           *)
(***************************************************************************)
EXTENDS Service, TLAPS

-----------------------------------------------------------------------------
(* The invariants *)

\* An address in a file or a Config stands beside a token it accepted.
IsVerified(c) == c.url # NoUrl => <<c.url, c.token>> \in verified

ProgramOK ==
  /\ prog.phase # "down" /\ prog.cmd = "start" => file # NoFile
  /\ HasLoaded => /\ prog.cmd = "start" /\ prog.config.port # "none"
                  /\ IsVerified(prog.config)
  /\ Serving => prog.config.role = "controller"
  /\ prog.phase = "pairing" => prog.tries > 0

\* What the script read was in the file; while it has the file open, nobody
\* makes the role undecided.
ScriptOK ==
  /\ script.stage = "read" /\ script.raw # NoFile => IsVerified(script.raw)
  /\ ScriptHasOpen => IsVerified(script.written) /\ file # NoFile /\ file.role # "auto"

SetupInv == SavedPairingVerified /\ ProgramOK /\ ScriptOK

\* Only a process that serves has requests.
RequestsAreServed == ~Serving => \A r \in Request : request[r] = NoRequest

\* What is installed was checked out, and what is checked out was published.
RevisionsOK ==
  /\ rev.installed <= rev.checkout /\ rev.checkout <= rev.published
  /\ \A r \in Request : Verb(r) = "update" =>
       /\ request[r].stage # "guarded" => rev.checkout >= request[r].pulled
       /\ request[r].stage = "installed" => rev.installed >= request[r].pulled

\* An edit has the file open, or has set a field it has not saved yet.
Writing(r) == Verb(r) = "edit" /\ request[r].stage = "opened"
Changing(r) == Verb(r) = "edit" /\ request[r].stage = "setting" /\ request[r].changed

\* What is written has the identity in memory, and so has the file otherwise,
\* unless the script had it open beside the process.
DiskHasIdentity ==
  HasLoaded =>
    /\ \A r \in Request : Writing(r) =>
         /\ request[r].written.role = prog.config.role
         /\ request[r].written.token = prog.config.token
         /\ request[r].written.url = prog.config.url
    /\ ~beside =>
         /\ ~ScriptHasOpen
         /\ (\E r \in Request : Writing(r)) => file.role # "auto"
         /\ (\A r \in Request : ~Writing(r)) => file.token = prog.config.token

\* Once nobody has a field to save, what is written is what is in memory, and so
\* is the file when it is written.
DiskHasEdits ==
  HasLoaded /\ ~overlapped /\ ~beside /\ (\A r \in Request : ~Changing(r)) =>
    /\ \A r \in Request : Writing(r) =>
         request[r].written.port = prog.config.port /\ request[r].written.fds = prog.config.fds
    /\ (\A r \in Request : ~Writing(r)) =>
         PortOf(file) = prog.config.port /\ file.fds = prog.config.fds

\* Whoever is past the guard beside a tracked run is forced or was there first.
GuardOutlasted ==
  RunIsTracked => \A r \in Request :
    /\ Verb(r) \in {"restart", "stop", "update"} => request[r].force \/ r \in begun_over
    /\ Waits(r) => unit_job.force \/ r \in begun_over

ServiceInv ==
  SetupInv /\ RequestsAreServed /\ RevisionsOK /\ UpdateIsInstalled
    /\ DiskHasIdentity /\ DiskHasEdits /\ GuardOutlasted

-----------------------------------------------------------------------------
(* The file and the Config *)

Program == [phase : Phases, cmd : {"start", "agent"}, tty : BOOLEAN,
            config : Settings, tries : 0..MaxTries, found : SUBSET Controller]

LEMMA EmptySettings == Empty \in Settings /\ Empty.url = NoUrl /\ Empty.token = NoToken
<1>1. Empty \in Settings
  BY DEF Empty, Settings, Binaries
<1>2. Empty.url = NoUrl /\ Empty.token = NoToken
  BY DEF Empty
<1> QED
  BY <1>1, <1>2

LEMMA DownProgram == Down \in Program /\ Down.phase = "down"
<1>1. Down \in Program
  <2>1. Empty \in Settings
    BY EmptySettings
  <2> QED
    BY <2>1 DEF Down, Program, Phases, MaxTries
<1>2. Down.phase = "down"
  BY DEF Down
<1> QED
  BY <1>1, <1>2

\* What is loaded has a token and a role, those of the file if it had them, and
\* all else of the file.
LEMMA LoadKeeps ==
  ASSUME NEW f \in Settings \union {NoFile}, NEW g \in load_config(f)
  PROVE  /\ g \in Settings /\ g.token \in Token /\ g.role \in Roles
         /\ f = NoFile => g.url = NoUrl
         /\ f # NoFile => /\ g.url = f.url
                          /\ f.token # NoToken => g.token = f.token
                          /\ f.role # "auto" => g.role # "auto"
<1>1. CASE f = NoFile
  <2>1. g \in default_config
    BY <1>1 DEF load_config
  <2>2. g \in Settings
    BY <2>1 DEF default_config, Settings, Roles, Ports, Token
  <2> QED
    BY <1>1, <2>1, <2>2 DEF default_config, Roles, Token
<1>2. CASE f # NoFile
  <2>1. PICK t \in Minted :
          g = [f EXCEPT !.token = IF @ = NoToken THEN t ELSE @,
                        !.role = IF @ = "none" THEN "controller" ELSE @]
    BY <1>2 DEF load_config
  <2> QED
    BY <1>2, <2>1 DEF Settings, Roles, Token
<1> QED
  BY <1>1, <1>2

LEMMA LoadedKeeps ==
  ASSUME NEW f \in Settings
  PROVE  /\ Loaded(f) \in Settings /\ Loaded(f).port = PortOf(f) /\ PortOf(f) # "none"
         /\ Loaded(f).role = f.role /\ Loaded(f).token = f.token
         /\ Loaded(f).url = f.url /\ Loaded(f).fds = f.fds
BY DEF Loaded, PortOf, Settings, Ports

LEMMA PersistKeeps ==
  ASSUME NEW f \in Settings, NEW role \in Roles, NEW u \in Address \union {NoUrl},
         NEW t \in Token \union {NoToken}
  PROVE  LET g == persist_role(f, role, u, t) IN
         /\ g \in Settings /\ g.role = role /\ PortOf(g) = PortOf(f) /\ g.fds = f.fds
         /\ g.url = (IF u = NoUrl THEN f.url ELSE u)
         /\ g.token = (IF t = NoToken THEN f.token ELSE t)
BY DEF persist_role, Settings, Roles, PortOf

LEMMA ConfigureKeeps ==
  ASSUME NEW raw \in Settings \union {NoFile}, NEW port \in Ports \union {"none"},
         NEW found \in Binaries
  PROVE  LET g == configure(raw, port, found) IN
         /\ g \in Settings
         /\ raw = NoFile => g.url = NoUrl
         /\ raw # NoFile => g.role = raw.role /\ g.token = raw.token /\ g.url = raw.url
<1> DEFINE f == IF raw = NoFile THEN Empty ELSE raw
<1>1. f \in Settings /\ PortOf(f) \in Ports \union {"null"}
  BY EmptySettings DEF Settings, PortOf, Ports
<1>2. configure(raw, port, found) = [f EXCEPT !.fds = IF @ = "here" THEN @ ELSE found,
                                              !.port = IF port = "none" THEN PortOf(f) ELSE port]
  BY DEF configure
<1> QED
  BY <1>1, <1>2, EmptySettings DEF Settings

-----------------------------------------------------------------------------
(* Starts and pairings *)

LEMMA RunsProgram ==
  ASSUME NEW phase \in Phases, NEW cmd \in {"start", "agent"}, NEW tty \in BOOLEAN,
         NEW c \in Settings
  PROVE  LET p == Runs(phase, cmd, tty, c) IN
         p \in Program /\ p.phase = phase /\ p.cmd = cmd /\ p.tty = tty /\ p.config = c
BY DownProgram DEF Runs, Program

\* A process that turns to a controller elsewhere is down, joins it or asks for
\* its token; with an address in its Config if it asks.
BecomesAgent(p, cmd) ==
  /\ p \in Program
  /\ p.phase \in {"down", "pairing", "joining"}
  /\ p.phase # "down" => p.cmd = cmd
  /\ p.phase = "pairing" => p.tries > 0

LEMMA PairsAsAgent ==
  ASSUME NEW cmd \in {"start", "agent"}, NEW tty \in BOOLEAN, NEW c \in Settings,
         NEW given \in BOOLEAN, NEW p \in pair_with_controller(cmd, tty, c, given)
  PROVE  BecomesAgent(p, cmd)
<1>1. CASE p = Down
  BY <1>1, DownProgram DEF BecomesAgent
<1>2. CASE p # Down
  <2>1. PICK u \in UNION {pairing_address(c, given, found) : found \in discover_controllers} :
          /\ u # NoUrl
          /\ p = [Runs("pairing", cmd, tty, [c EXCEPT !.url = u]) EXCEPT !.tries = MaxTries]
    BY <1>2 DEF pair_with_controller
  <2>2. u \in Address
    BY <2>1, SetupAssumption DEF pairing_address, discover_controllers, Settings
  <2>3. [c EXCEPT !.url = u] \in Settings
    BY <2>2 DEF Settings
  <2> DEFINE q == Runs("pairing", cmd, tty, [c EXCEPT !.url = u])
  <2>4. q \in Program /\ q.phase = "pairing" /\ q.cmd = cmd
    BY <2>3, RunsProgram DEF Phases
  <2> HIDE DEF q
  <2>5. [q EXCEPT !.tries = MaxTries] \in Program
    BY <2>4 DEF Program, MaxTries
  <2>6. /\ [q EXCEPT !.tries = MaxTries].phase = "pairing"
        /\ [q EXCEPT !.tries = MaxTries].cmd = cmd
        /\ [q EXCEPT !.tries = MaxTries].tries > 0
    BY <2>4 DEF Program, MaxTries
  <2> QED
    BY <2>1, <2>5, <2>6 DEF BecomesAgent, q
<1> QED
  BY <1>1, <1>2

LEMMA RunsAsAgent ==
  ASSUME NEW tty \in BOOLEAN, NEW c \in Settings, NEW p \in run_as_agent(tty, c)
  PROVE  BecomesAgent(p, "start")
<1>1. CASE p \in pair_with_controller("start", tty, c, c.url # NoUrl)
  BY <1>1, PairsAsAgent
<1>2. CASE p = Runs("joining", "start", tty, c)
  BY <1>2, RunsProgram DEF BecomesAgent, Phases
<1> QED
  BY <1>1, <1>2 DEF run_as_agent

\* What a start leaves: a file beside the Config it read, and a process that
\* serves or may yet, or turns to another controller.
LEMMA StartLeaves ==
  ASSUME SetupTypeOK, SetupInv, NEW tty \in BOOLEAN, NEW controller \in BOOLEAN,
         Start(tty, controller)
  PROVE  /\ file' \in Settings /\ prog' \in Program /\ prog.phase = "down"
         /\ IsVerified(file')
         /\ BecomesAgent(prog', "start") \/ HasLoaded'
         /\ HasLoaded' =>
              /\ prog'.cmd = "start"
              /\ Serving' => prog'.config.role = "controller"
              /\ prog'.config.token = file'.token
              /\ prog'.config.url = file'.url
              /\ prog'.config.port = PortOf(file') /\ prog'.config.fds = file'.fds
         /\ file # NoFile =>
              /\ file.role # "auto" => file'.role # "auto"
              /\ file.token # NoToken => file'.token = file.token
         /\ ~tty /\ ~controller => Serving' \/ file'.role = "agent" \/ file'.port = "null"
<1>1. PICK f \in load_config(file) :
        LET c == IF controller THEN [Loaded(f) EXCEPT !.role = "controller"] ELSE Loaded(f) IN
        \/ /\ ~IsReadable(f)
           /\ file' = f /\ prog' = Down
        \/ /\ IsReadable(f) /\ c.role = "auto"
           /\ \E d \in decide_role(tty, f, c) : file' = d[1] /\ prog' = d[2]
        \/ /\ IsReadable(f) /\ c.role = "agent"
           /\ file' = f /\ prog' \in run_as_agent(tty, c)
        \/ /\ IsReadable(f) /\ c.role = "controller"
           /\ file' = f /\ prog' = run_as_controller(tty, c)
  BY DEF Start
<1> DEFINE c == IF controller THEN [Loaded(f) EXCEPT !.role = "controller"] ELSE Loaded(f)
<1>2. f \in Settings /\ f.token \in Token
  BY LoadKeeps DEF SetupTypeOK
<1>a. file = NoFile => f.url = NoUrl
  BY LoadKeeps DEF SetupTypeOK
<1>b. ASSUME file # NoFile
       PROVE  /\ f.url = file.url
              /\ file.token # NoToken => f.token = file.token
              /\ file.role # "auto" => f.role # "auto"
  BY <1>b, LoadKeeps DEF SetupTypeOK
<1>3. /\ c \in Settings /\ c.token = f.token /\ c.url = f.url
      /\ c.port = PortOf(f) /\ c.fds = f.fds
      /\ c.role = IF controller THEN "controller" ELSE f.role
  BY <1>2, LoadedKeeps DEF Settings, Roles
<1>4. IsVerified(f)
  <2>1. NoToken \notin Token /\ verified \subseteq Address \X Token
    BY ConfigAssumption DEF SetupTypeOK, Token
  <2> SUFFICES ASSUME f.url # NoUrl PROVE <<f.url, f.token>> \in verified
    BY DEF IsVerified
  <2>2. file # NoFile /\ f.url = file.url /\ (file.token # NoToken => f.token = file.token)
    BY <1>a, <1>b
  <2>3. <<file.url, file.token>> \in verified
    BY <2>2 DEF SetupInv, SavedPairingVerified
  <2>4. file.token # NoToken
    BY <2>1, <2>3
  <2> QED
    BY <2>2, <2>3, <2>4
<1>5. prog.phase = "down" /\ verified' = verified
  BY DEF Start
<1> HIDE DEF c
<1> DEFINE FileOK == /\ file' \in Settings /\ file'.token = f.token /\ file'.url = f.url
                     /\ PortOf(file') = PortOf(f) /\ file'.fds = f.fds
                     /\ file'.role \in {f.role, "controller"}
           ProgOK == /\ prog' \in Program
                     /\ \/ BecomesAgent(prog', "start") /\ ~HasLoaded' /\ file'.role = f.role
                        \/ /\ prog'.phase \in {"deciding", "serving"} /\ prog'.cmd = "start"
                           /\ prog'.config.token = c.token /\ prog'.config.url = c.url
                           /\ prog'.config.port = c.port /\ prog'.config.fds = c.fds
                           /\ prog'.phase = "serving" => prog'.config.role = "controller"
           Alone == ~tty /\ ~controller =>
                      prog'.phase = "serving" \/ file'.role = "agent" \/ file'.port = "null"
<1>6a. ASSUME ~IsReadable(f), file' = f, prog' = Down PROVE FileOK /\ ProgOK /\ Alone
  <2>1. BecomesAgent(prog', "start") /\ ~HasLoaded'
    BY <1>6a, DownProgram DEF BecomesAgent, HasLoaded
  <2>2. f.port = "null"
    BY <1>6a DEF IsReadable
  <2> QED
    BY <1>2, <1>6a, <2>1, <2>2 DEF BecomesAgent
<1>6. ASSUME IsReadable(f), c.role = "auto" PROVE FileOK /\ ProgOK /\ Alone
  <2>1. PICK d \in decide_role(tty, f, c) : file' = d[1] /\ prog' = d[2]
    BY <1>1, <1>6 DEF c
  <2>2. f.role = "auto" /\ ~controller
    BY <1>3, <1>6
  <2>3. CASE d = <<persist_role(f, "controller", NoUrl, NoToken),
                   run_as_controller(tty, [c EXCEPT !.role = "controller"])>>
    <3> DEFINE k == [c EXCEPT !.role = "controller"]
    <3>1. k \in Settings /\ k.role = "controller" /\ k.token = c.token /\ k.url = c.url
          /\ k.port = c.port /\ k.fds = c.fds
      BY <1>3 DEF Settings, Roles
    <3>2. prog' = Runs("serving", "start", tty, k)
      BY <2>1, <2>3 DEF run_as_controller
    <3> HIDE DEF k
    <3>3. prog' \in Program /\ prog'.phase = "serving" /\ prog'.cmd = "start" /\ prog'.config = k
      BY <3>1, <3>2, RunsProgram DEF Phases
    <3>4. /\ file' \in Settings /\ file'.role = "controller" /\ PortOf(file') = PortOf(f)
          /\ file'.fds = f.fds /\ file'.url = f.url /\ file'.token = f.token
      BY <1>2, <2>1, <2>3, PersistKeeps DEF Roles
    <3> QED
      BY <3>1, <3>3, <3>4
  <2>4. CASE d # <<persist_role(f, "controller", NoUrl, NoToken),
                   run_as_controller(tty, [c EXCEPT !.role = "controller"])>>
    <3>1. PICK found \in discover_controllers :
            tty /\ d = <<f, [Runs("deciding", "start", tty, c) EXCEPT !.found = found]>>
      BY <2>1, <2>4 DEF decide_role
    <3> DEFINE q == Runs("deciding", "start", tty, c)
    <3>2. q \in Program /\ q.phase = "deciding" /\ q.cmd = "start" /\ q.config = c
      BY <1>3, RunsProgram DEF Phases
    <3> HIDE DEF q
    <3>3. file' = f /\ prog' = [q EXCEPT !.found = found]
      BY <2>1, <3>1 DEF q
    <3>4. /\ prog' \in Program /\ prog'.phase = "deciding" /\ prog'.cmd = "start"
          /\ prog'.config = c
      BY <3>1, <3>2, <3>3 DEF Program, discover_controllers
    <3> QED
      BY <1>2, <3>1, <3>3, <3>4
  <2> QED
    BY <2>3, <2>4
<1>7. ASSUME IsReadable(f), c.role = "agent" PROVE FileOK /\ ProgOK /\ Alone
  <2>1. file' = f /\ prog' \in run_as_agent(tty, c)
    BY <1>1, <1>7 DEF c
  <2>2. BecomesAgent(prog', "start")
    BY <1>3, <2>1, RunsAsAgent
  <2>3. ~HasLoaded' /\ ~Serving'
    BY <2>2 DEF BecomesAgent, HasLoaded, Serving
  <2> QED
    BY <1>2, <1>3, <1>7, <2>1, <2>2, <2>3 DEF BecomesAgent
<1>8. ASSUME IsReadable(f), c.role = "controller" PROVE FileOK /\ ProgOK /\ Alone
  <2>1. file' = f /\ prog' = Runs("serving", "start", tty, c)
    BY <1>1, <1>8 DEF c, run_as_controller
  <2>2. prog' \in Program /\ prog'.phase = "serving" /\ prog'.cmd = "start" /\ prog'.config = c
    BY <1>3, <2>1, RunsProgram DEF Phases
  <2> QED
    BY <1>2, <1>8, <2>1, <2>2
<1>9. FileOK /\ ProgOK /\ Alone
  BY <1>1, <1>6a, <1>6, <1>7, <1>8 DEF c
<1>10. IsVerified(file')
  BY <1>4, <1>5, <1>9 DEF IsVerified
<1>11. BecomesAgent(prog', "start") \/ HasLoaded'
  BY <1>9 DEF HasLoaded
<1>12. HasLoaded' =>
         /\ prog'.cmd = "start"
         /\ Serving' => prog'.config.role = "controller"
         /\ prog'.config.token = file'.token
         /\ prog'.config.url = file'.url
         /\ prog'.config.port = PortOf(file') /\ prog'.config.fds = file'.fds
  BY <1>3, <1>9 DEF HasLoaded, Serving
<1>13. ASSUME file # NoFile
       PROVE  /\ file.role # "auto" => file'.role # "auto"
              /\ file.token # NoToken => file'.token = file.token
  BY <1>9, <1>13, <1>b
<1> QED
  BY <1>5, <1>9, <1>10, <1>11, <1>12, <1>13 DEF Serving

-----------------------------------------------------------------------------
(* The other steps of Setup *)

\* What such a step leaves: of a file the script has not open and the Config that
\* was loaded from it, and, unless it is the script's, of the identity in it.
Leaves ==
  /\ HasLoaded' => HasLoaded
  /\ Serving => prog' = prog
  /\ HasLoaded' /\ ~ScriptHasOpen /\ ~ScriptHasOpen' =>
       /\ file'.token = file.token /\ PortOf(file') = PortOf(file) /\ file'.fds = file.fds
       /\ file.role # "auto" => file'.role # "auto"
       /\ prog'.config.token = prog.config.token
       /\ prog'.config.port = prog.config.port /\ prog'.config.fds = prog.config.fds

KeepsFile ==
  /\ script' = script
  /\ file # NoFile =>
       /\ file' # NoFile /\ (file.role # "auto" => file'.role # "auto")
       /\ file.token # NoToken /\ file'.token # file.token =>
            prog.phase = "pairing" /\ prog'.phase = "joining"

\* What the script read or will write stays true of whoever goes on beside it.
LEMMA ScriptStays ==
  ASSUME ScriptOK, KeepsFile, verified \subseteq verified'
  PROVE  ScriptOK'
BY DEF ScriptOK, KeepsFile, ScriptHasOpen, IsVerified

\* The script reads, opens, writes the file or is interrupted.
LEMMA ScriptInv ==
  ASSUME SetupTypeOK, SetupInv, ScriptReads \/ ScriptOpens \/ ScriptWrites \/ ScriptDies
  PROVE  SetupTypeOK' /\ SetupInv' /\ Leaves
<1>1. UNCHANGED <<agent_file, prog, accepts, verified>>
  BY DEF ScriptReads, ScriptOpens, ScriptWrites, ScriptDies
<1>2. /\ script \in Scripts \union {NoScript} /\ file \in Settings \union {NoFile}
      /\ ScriptOK /\ SavedPairingVerified
  BY DEF SetupTypeOK, SetupInv
<1> DEFINE Ok == /\ file' \in Settings \union {NoFile} /\ script' \in Scripts \union {NoScript}
                 /\ ScriptOK'
                 /\ \/ file' = file
                    \/ file' \in Settings /\ IsVerified(file') /\ (ScriptHasOpen \/ ScriptHasOpen')
<1>3. ASSUME ScriptReads PROVE Ok
  <2>1. script' = [stage |-> "read", raw |-> file] /\ file' = file
    BY <1>3 DEF ScriptReads
  <2>2. script' \in Scripts
    BY <1>2, <2>1 DEF Scripts
  <2>3. ScriptOK'
    BY <1>1, <1>2, <2>1 DEF ScriptOK, ScriptHasOpen, SavedPairingVerified, IsVerified
  <2> QED
    BY <1>2, <2>1, <2>2, <2>3
<1>4. ASSUME ScriptOpens PROVE Ok
  <2>1. PICK port \in Ports \union {"none"}, found \in Binaries :
          script' = [stage |-> "opened", written |-> configure(script.raw, port, found)]
    BY <1>4 DEF ScriptOpens
  <2>2. script.stage = "read" /\ file' = Empty
    BY <1>4 DEF ScriptOpens
  <2>3. script.raw \in Settings \union {NoFile}
    BY <1>2, <2>2 DEF Scripts, NoScript
  <2> DEFINE w == configure(script.raw, port, found)
  <2>4. w \in Settings /\ IsVerified(w)
    <3>1. script.raw # NoFile => IsVerified(script.raw)
      BY <1>2, <2>2 DEF ScriptOK
    <3> QED
      BY <2>3, <3>1, ConfigureKeeps DEF IsVerified
  <2> HIDE DEF w
  <2>5. script' = [stage |-> "opened", written |-> w]
    BY <2>1 DEF w
  <2>6. script' \in Scripts /\ ScriptHasOpen'
    BY <2>4, <2>5 DEF Scripts, ScriptHasOpen
  <2>7. file' \in Settings /\ IsVerified(file') /\ file'.role # "auto"
    BY <2>2, EmptySettings DEF IsVerified, Empty
  <2>8. ScriptOK'
    BY <1>1, <2>4, <2>5, <2>7, NoFileAssumption DEF ScriptOK, ScriptHasOpen, IsVerified
  <2> QED
    BY <2>6, <2>7, <2>8
<1>5. ASSUME ScriptWrites PROVE Ok
  <2>1. ScriptHasOpen /\ file' = script.written /\ script' = NoScript
    BY <1>5 DEF ScriptWrites
  <2>2. script.written \in Settings /\ IsVerified(script.written)
    BY <1>2, <2>1 DEF Scripts, NoScript, ScriptHasOpen, ScriptOK
  <2>3. ScriptOK'
    BY <2>1 DEF ScriptOK, ScriptHasOpen, NoScript
  <2> QED
    BY <1>1, <2>1, <2>2, <2>3 DEF IsVerified
<1>6. ASSUME ScriptDies PROVE Ok
  <2>1. file' = file /\ script' = NoScript
    BY <1>6 DEF ScriptDies
  <2>2. ScriptOK'
    BY <2>1 DEF ScriptOK, ScriptHasOpen, NoScript
  <2> QED
    BY <1>2, <2>1, <2>2
<1>7. Ok
  BY <1>3, <1>4, <1>5, <1>6
<1> HIDE DEF Ok
<1>8. SetupTypeOK'
  BY <1>1, <1>7 DEF SetupTypeOK, Ok
<1>9. SavedPairingVerified'
  BY <1>1, <1>2, <1>7 DEF SavedPairingVerified, IsVerified, Ok
<1>10. ProgramOK'
  BY <1>1, <1>7, NoFileAssumption
  DEF SetupInv, ProgramOK, HasLoaded, Serving, IsVerified, Ok
<1>11. Leaves
  BY <1>1, <1>7 DEF Leaves, HasLoaded, Ok
<1> QED
  BY <1>7, <1>8, <1>9, <1>10, <1>11 DEF SetupInv, Ok

\* The role is written into the file by hand.
LEMMA HandWritesInv ==
  ASSUME SetupTypeOK, SetupInv, HandWritesRole
  PROVE  SetupTypeOK' /\ SetupInv' /\ Leaves /\ KeepsFile
<1>1. PICK role \in {"controller", "agent"} : file' = [file EXCEPT !.role = role]
  BY DEF HandWritesRole
<1>2. /\ file \in Settings /\ file # NoFile
      /\ UNCHANGED <<agent_file, prog, script, accepts, verified>>
  BY DEF HandWritesRole, SetupTypeOK
<1>3. /\ file' \in Settings /\ file'.role = role
      /\ file'.token = file.token /\ file'.url = file.url
      /\ file'.fds = file.fds /\ PortOf(file') = PortOf(file)
  BY <1>1, <1>2 DEF Settings, Roles, PortOf
<1>4. KeepsFile
  BY <1>2, <1>3, NoFileAssumption DEF KeepsFile
<1>5. SetupTypeOK'
  BY <1>2, <1>3 DEF SetupTypeOK
<1>6. SavedPairingVerified'
  BY <1>2, <1>3 DEF SetupInv, SavedPairingVerified
<1>7. ProgramOK'
  BY <1>2, <1>3, NoFileAssumption DEF SetupInv, ProgramOK, HasLoaded, Serving, IsVerified
<1>8. ScriptOK'
  BY <1>2, <1>4, ScriptStays DEF SetupInv
<1>9. Leaves
  BY <1>2, <1>3 DEF Leaves, HasLoaded
<1> QED
  BY <1>4, <1>5, <1>6, <1>7, <1>8, <1>9 DEF SetupInv

\* The operator decides: the own controller, or one that was found.
LEMMA DecideInv ==
  ASSUME SetupTypeOK, SetupInv, Decide
  PROVE  SetupTypeOK' /\ SetupInv' /\ Leaves /\ KeepsFile
<1>1. /\ prog \in Program /\ prog.phase = "deciding" /\ prog.cmd = "start"
      /\ file \in Settings /\ prog.config \in Settings
      /\ prog.config.port # "none" /\ IsVerified(prog.config)
      /\ UNCHANGED <<agent_file, script, accepts, verified>>
      /\ ~Serving /\ HasLoaded
  BY DEF Decide, SetupTypeOK, Program, SetupInv, ProgramOK, HasLoaded, Serving
<1>2. CASE /\ file' = persist_role(file, "controller", NoUrl, NoToken)
           /\ prog' = run_as_controller(TRUE, [prog.config EXCEPT !.role = "controller"])
  <2> DEFINE c == [prog.config EXCEPT !.role = "controller"]
  <2>1. /\ c \in Settings /\ c.role = "controller" /\ c.token = prog.config.token
        /\ c.url = prog.config.url /\ c.port = prog.config.port /\ c.fds = prog.config.fds
    BY <1>1 DEF Settings, Roles
  <2>2. prog' = Runs("serving", "start", TRUE, c)
    BY <1>2 DEF run_as_controller
  <2> HIDE DEF c
  <2>3. prog' \in Program /\ prog'.phase = "serving" /\ prog'.cmd = "start" /\ prog'.config = c
    <3>1. PICK tty \in BOOLEAN : prog' = Runs("serving", "start", tty, c)
      BY <2>2
    <3> QED
      BY <2>1, <3>1, RunsProgram DEF Phases
  <2>4. /\ file' \in Settings /\ file'.role = "controller" /\ PortOf(file') = PortOf(file)
        /\ file'.fds = file.fds /\ file'.url = file.url /\ file'.token = file.token
    BY <1>1, <1>2, PersistKeeps DEF Roles
  <2>5. SetupTypeOK'
    BY <1>1, <2>3, <2>4 DEF SetupTypeOK, Program
  <2>6. SavedPairingVerified'
    BY <1>1, <2>4, NoFileAssumption DEF SetupInv, SavedPairingVerified
  <2>7. ProgramOK'
    BY <1>1, <2>1, <2>3, <2>4, NoFileAssumption DEF ProgramOK, HasLoaded, Serving, IsVerified
  <2>8. Leaves
    BY <1>1, <2>1, <2>3, <2>4 DEF Leaves, HasLoaded
  <2>9. KeepsFile
    BY <1>1, <2>4, NoFileAssumption DEF KeepsFile
  <2>10. ScriptOK'
    BY <1>1, <2>9, ScriptStays DEF SetupInv
  <2> QED
    BY <2>5, <2>6, <2>7, <2>8, <2>9, <2>10 DEF SetupInv
<1>3. CASE /\ \E u \in prog.found :
                prog' \in run_as_agent(TRUE, [prog.config EXCEPT !.role = "agent", !.url = u])
           /\ UNCHANGED file
  <2>1. PICK u \in prog.found :
          prog' \in run_as_agent(TRUE, [prog.config EXCEPT !.role = "agent", !.url = u])
    BY <1>3
  <2>2. [prog.config EXCEPT !.role = "agent", !.url = u] \in Settings
    BY <1>1, SetupAssumption DEF Program, Settings, Roles
  <2>3. BecomesAgent(prog', "start")
    BY <2>1, <2>2, RunsAsAgent
  <2>4. SetupTypeOK'
    BY <1>1, <1>3, <2>3 DEF SetupTypeOK, BecomesAgent, Program
  <2>5. SavedPairingVerified'
    BY <1>1, <1>3 DEF SetupInv, SavedPairingVerified
  <2>6. ProgramOK' /\ ~HasLoaded'
    BY <1>1, <1>3, <2>3, NoFileAssumption DEF ProgramOK, HasLoaded, Serving, BecomesAgent
  <2>7. KeepsFile
    BY <1>1, <1>3 DEF KeepsFile
  <2>8. ScriptOK'
    BY <1>1, <2>7, ScriptStays DEF SetupInv
  <2> QED
    BY <1>1, <1>3, <2>4, <2>5, <2>6, <2>7, <2>8 DEF SetupInv, Leaves
<1> QED
  BY <1>2, <1>3 DEF Decide

\* `fdsrouter agent` keeps its own file and leaves config.yaml alone.
LEMMA AgentCommandInv ==
  ASSUME SetupTypeOK, SetupInv, NEW tty \in BOOLEAN, NEW pair \in BOOLEAN,
         NEW given \in Address \union {NoUrl}, AgentCommand(tty, pair, given)
  PROVE  SetupTypeOK' /\ SetupInv' /\ Leaves /\ KeepsFile
<1> DEFINE a == IF agent_file = NoFile THEN [token |-> NoToken, url |-> Localhost] ELSE agent_file
           c == [Empty EXCEPT !.role = "agent", !.token = a.token,
                              !.url = IF given = NoUrl THEN a.url ELSE given]
<1>1. prog.phase = "down" /\ UNCHANGED <<file, script, accepts, verified>> /\ agent_file' = a
  BY DEF AgentCommand
<1>2. a \in Pairing
  BY SetupAssumption DEF SetupTypeOK, Pairing
<1>3. agent_file = NoFile => a.token = NoToken
  OBVIOUS
<1>4. agent_file # NoFile => a = agent_file
  OBVIOUS
<1>5. \/ \E g \in BOOLEAN : prog' \in pair_with_controller("agent", tty, c, g)
      \/ prog' = Runs("joining", "agent", tty, c)
  BY DEF AgentCommand
<1> HIDE DEF a
<1>6. c \in Settings
  <2>1. Empty \in Settings
    BY EmptySettings
  <2> QED
    BY <1>2, <2>1 DEF Settings, Roles, Pairing
<1> HIDE DEF c
<1>7. BecomesAgent(prog', "agent")
  BY <1>5, <1>6, PairsAsAgent, RunsProgram DEF BecomesAgent, Phases
<1>8. SetupTypeOK'
  BY <1>1, <1>2, <1>7 DEF SetupTypeOK, BecomesAgent, Program
<1>9. SavedPairingVerified'
  BY <1>1, <1>3, <1>4 DEF SetupInv, SavedPairingVerified
<1>10. ProgramOK' /\ ~Serving /\ ~HasLoaded'
  BY <1>1, <1>7 DEF ProgramOK, HasLoaded, Serving, BecomesAgent
<1>11. KeepsFile
  BY <1>1 DEF KeepsFile
<1>12. ScriptOK'
  BY <1>1, <1>11, ScriptStays DEF SetupInv
<1> QED
  BY <1>1, <1>8, <1>9, <1>10, <1>11, <1>12 DEF SetupInv, Leaves

\* A token that was accepted is saved with its address.
LEMMA TokenAcceptedInv ==
  ASSUME SetupTypeOK, SetupInv, NEW t \in Token, TokenAccepted(t)
  PROVE  SetupTypeOK' /\ SetupInv' /\ Leaves /\ KeepsFile
<1> DEFINE c == [prog.config EXCEPT !.token = t]
<1>1. /\ prog \in Program /\ prog.phase = "pairing" /\ prog.config \in Settings
      /\ prog.config.url \in Controller
      /\ prog.cmd \in {"start", "agent"} /\ prog.tty \in BOOLEAN
  BY DEF TokenAccepted, Accepted, SetupTypeOK, Program
<1>2. c \in Settings /\ c.url = prog.config.url /\ c.token = t
  BY <1>1 DEF Settings
<1>3. c.url \in Address /\ c.url # NoUrl /\ t # NoToken
  BY <1>1, <1>2, SetupAssumption, ConfigAssumption DEF Token
<1>4. /\ save_pairing(c)
      /\ prog' = Runs("joining", prog.cmd, prog.tty, c)
      /\ verified' = verified \union {<<c.url, t>>} /\ UNCHANGED <<script, accepts>>
  BY DEF TokenAccepted
<1> HIDE DEF c
<1>5. BecomesAgent(prog', prog.cmd)
  BY <1>1, <1>2, <1>4, RunsProgram DEF BecomesAgent, Phases
<1>5a. prog'.phase = "joining"
  BY <1>1, <1>2, <1>4, RunsProgram DEF Phases
<1>6. CASE prog.cmd = "start"
  <2>1. file \in Settings
    BY <1>1, <1>6 DEF SetupTypeOK, SetupInv, ProgramOK
  <2>2. file' = persist_role(file, "agent", c.url, c.token) /\ agent_file' = agent_file
    BY <1>4, <1>6 DEF save_pairing
  <2>3. file' \in Settings /\ file'.role = "agent" /\ file'.url = c.url /\ file'.token = t
    BY <1>2, <1>3, <2>1, <2>2, PersistKeeps DEF Roles
  <2>4. SetupTypeOK'
    BY <1>3, <1>4, <1>5, <2>2, <2>3 DEF SetupTypeOK, BecomesAgent, Program
  <2>5. SavedPairingVerified'
    BY <1>4, <2>2, <2>3 DEF SetupInv, SavedPairingVerified
  <2>6. ProgramOK' /\ ~HasLoaded' /\ ~Serving
    BY <1>1, <1>5, <2>3, NoFileAssumption DEF ProgramOK, HasLoaded, Serving, BecomesAgent
  <2>7. KeepsFile
    BY <1>1, <1>4, <1>5a, <2>3, NoFileAssumption DEF KeepsFile
  <2>8. ScriptOK'
    BY <1>4, <2>7, ScriptStays DEF SetupInv
  <2> QED
    BY <1>1, <2>3, <2>4, <2>5, <2>6, <2>7, <2>8 DEF SetupInv, Leaves
<1>7. CASE prog.cmd = "agent"
  <2>1. file' = file /\ agent_file' = [token |-> c.token, url |-> c.url]
    BY <1>4, <1>7 DEF save_pairing
  <2>2. agent_file' \in Pairing /\ agent_file'.url = c.url /\ agent_file'.token = t
    BY <1>2, <1>3, <2>1 DEF Pairing
  <2>3. SetupTypeOK'
    BY <1>3, <1>4, <1>5, <2>1, <2>2 DEF SetupTypeOK, BecomesAgent, Program
  <2>4. SavedPairingVerified'
    BY <1>4, <2>1, <2>2 DEF SetupInv, SavedPairingVerified
  <2>5. ProgramOK' /\ ~HasLoaded' /\ ~Serving
    BY <1>1, <1>5, <1>7 DEF ProgramOK, HasLoaded, Serving, BecomesAgent
  <2>6. KeepsFile
    BY <1>4, <2>1 DEF KeepsFile
  <2>7. ScriptOK'
    BY <1>4, <2>6, ScriptStays DEF SetupInv
  <2> QED
    BY <1>1, <2>1, <2>3, <2>4, <2>5, <2>6, <2>7 DEF SetupInv, Leaves
<1> QED
  BY <1>1, <1>6, <1>7

\* A step that writes nothing and does not begin to serve.
LEMMA NothingWritten ==
  ASSUME SetupTypeOK, SetupInv, UNCHANGED <<file, agent_file, script, accepts, verified>>,
         ~Serving, prog' \in Program, ~HasLoaded',
         prog'.phase # "down" => prog.phase # "down" /\ prog'.cmd = prog.cmd,
         prog'.phase = "pairing" => prog'.tries > 0
  PROVE  SetupTypeOK' /\ SetupInv' /\ Leaves /\ KeepsFile
<1>1. SetupTypeOK'
  BY DEF SetupTypeOK, Program
<1>2. SavedPairingVerified'
  BY DEF SetupInv, SavedPairingVerified
<1>3. ProgramOK'
  BY DEF SetupInv, ProgramOK, HasLoaded, Serving
<1>4. KeepsFile
  BY DEF KeepsFile
<1>5. ScriptOK'
  BY <1>4, ScriptStays DEF SetupInv
<1> QED
  BY <1>1, <1>2, <1>3, <1>4, <1>5 DEF SetupInv, Leaves

\* Every step of Setup but the start keeps its invariants.
LEMMA SetupStepInv ==
  ASSUME SetupTypeOK, SetupInv, SetupStep
  PROVE  /\ SetupTypeOK' /\ SetupInv' /\ Leaves
         /\ KeepsFile \/ ScriptReads \/ ScriptOpens \/ ScriptWrites \/ ScriptDies
<1>1. prog \in Program
  BY DEF SetupTypeOK, Program
<1>2. ASSUME NEW t \in Token, TokenRefused(t)
      PROVE  SetupTypeOK' /\ SetupInv' /\ Leaves /\ KeepsFile
  <2>1. CASE prog' = Down
    BY <1>2, <2>1, DownProgram, NothingWritten DEF TokenRefused, HasLoaded, Serving
  <2>2. CASE prog.tries # 1 /\ prog' = [prog EXCEPT !.tries = @ - 1]
    <3>1. prog.tries > 0
      BY <1>2 DEF TokenRefused, SetupInv, ProgramOK
    <3>2. /\ prog' \in Program /\ prog'.phase = prog.phase /\ prog'.cmd = prog.cmd
          /\ prog'.tries > 0
      BY <1>1, <2>2, <3>1 DEF Program, MaxTries
    <3> QED
      BY <1>2, <3>2, NothingWritten DEF TokenRefused, HasLoaded, Serving
  <2> QED
    BY <1>2, <2>1, <2>2 DEF TokenRefused
<1>3. CASE Join
  <2>1. prog' = Down \/ prog' = [prog EXCEPT !.phase = "joined"]
    BY <1>3 DEF Join
  <2>2. CASE prog' = Down
    BY <1>3, <2>2, DownProgram, NothingWritten DEF Join, HasLoaded, Serving
  <2>3. CASE prog' = [prog EXCEPT !.phase = "joined"]
    <3>1. prog' \in Program /\ prog'.phase = "joined" /\ prog'.cmd = prog.cmd
      BY <1>1, <2>3 DEF Program, Phases
    <3> QED
      BY <1>3, <3>1, NothingWritten DEF Join, HasLoaded, Serving
  <2> QED
    BY <2>1, <2>2, <2>3
<1>4. CASE Quit
  BY <1>4, DownProgram, NothingWritten DEF Quit, HasLoaded, Serving
<1>5. ASSUME NEW k \in Controller, TokenChanges(k)
      PROVE  SetupTypeOK' /\ SetupInv' /\ Leaves /\ KeepsFile
  <2>1. UNCHANGED <<file, agent_file, prog, script, verified>> /\ accepts' \in [Controller -> Issued]
    BY <1>5 DEF TokenChanges, SetupTypeOK
  <2>2. SetupTypeOK'
    BY <2>1 DEF SetupTypeOK
  <2>3. SetupInv'
    BY <2>1 DEF SetupInv, SavedPairingVerified, ProgramOK, ScriptOK, ScriptHasOpen, HasLoaded,
                Serving, IsVerified
  <2> QED
    BY <2>1, <2>2, <2>3 DEF Leaves, KeepsFile, HasLoaded
<1> QED
  BY <1>2, <1>3, <1>4, <1>5, ScriptInv, HandWritesInv, DecideInv, AgentCommandInv, TokenAcceptedInv
  DEF SetupStep

-----------------------------------------------------------------------------
(* The process *)

\* What a request of a kind has besides its verb
LEMMA RequestTypes ==
  ASSUME ServiceTypeOK, NEW r \in Request
  PROVE  /\ Verb(r) \in {"none", "restart", "stop", "update", "edit"}
         /\ request[r] = NoRequest <=> Verb(r) = "none"
         /\ Verb(r) \in {"restart", "stop", "update"} => request[r].force \in BOOLEAN
         /\ Verb(r) = "update" => /\ request[r].stage \in {"guarded", "pulled", "installed"}
                                 /\ request[r].pulled \in 0..MaxRevision
         /\ Writing(r) => request[r].written \in Settings
         /\ Verb(r) = "edit" /\ request[r].stage = "setting" =>
              request[r] \in [verb : {"edit"}, stage : {"setting"}, left : SUBSET Fields,
                              changed : BOOLEAN]
<1>1. request[r] \in Requests \union {NoRequest}
  BY DEF ServiceTypeOK
<1> QED
  BY <1>1 DEF Requests, NoRequest, Verb, Writing

LEMMA NobodyAsks ==
  ASSUME \A r \in Request : request[r] = NoRequest
  PROVE  \A r \in Request : Verb(r) = "none" /\ ~Writing(r) /\ ~Changing(r)
BY DEF NoRequest, Verb, Writing, Changing

\* The process comes up: with nothing in memory that is not on disk.
LEMMA StartsUpInv ==
  ASSUME ServiceTypeOK, ServiceInv, NEW tty \in BOOLEAN, NEW controller \in BOOLEAN,
         StartsUp(tty, controller), UNCHANGED <<slot, request, rev, begun_over>>,
         unit_job' \in {unit_job, NoUnitJob}
  PROVE  ServiceTypeOK' /\ ServiceInv'
<1>1. /\ SetupTypeOK /\ SetupInv /\ Start(tty, controller)
      /\ overlapped' = FALSE /\ beside' = (HasLoaded' /\ ScriptHasOpen)
  BY DEF ServiceTypeOK, ServiceInv, StartsUp
<1>2. /\ file' \in Settings /\ prog' \in Program /\ prog.phase = "down"
      /\ IsVerified(file')
      /\ BecomesAgent(prog', "start") \/ HasLoaded'
  BY <1>1, StartLeaves
<1>3. HasLoaded' =>
        /\ prog'.cmd = "start"
        /\ Serving' => prog'.config.role = "controller"
        /\ prog'.config.token = file'.token
        /\ prog'.config.url = file'.url
        /\ prog'.config.port = PortOf(file') /\ prog'.config.fds = file'.fds
  BY <1>1, StartLeaves
<1>4. UNCHANGED <<agent_file, script, accepts, verified>>
  BY <1>1 DEF Start
<1>4a. beside' \in BOOLEAN /\ overlapped' \in BOOLEAN
  BY <1>1
<1>5. ServiceTypeOK'
  <2>1. SetupTypeOK'
    BY <1>1, <1>2, <1>4 DEF SetupTypeOK, Program
  <2>2. unit_job' \in UnitJobs \union {NoUnitJob}
    BY DEF ServiceTypeOK
  <2> QED
    BY <1>4a, <2>1, <2>2 DEF ServiceTypeOK, SlotTypeOK
<1>6. SetupInv'
  <2>1. SavedPairingVerified'
    BY <1>1, <1>2, <1>4 DEF SetupInv, SavedPairingVerified, IsVerified
  <2>2. ProgramOK'
    <3>1. PortOf(file') # "none"
      BY <1>2, LoadedKeeps
    <3> QED
      BY <1>2, <1>3, <1>4, <3>1, NoFileAssumption
      DEF ProgramOK, HasLoaded, Serving, BecomesAgent, IsVerified
  <2>3. ScriptOK'
    <3>1. file # NoFile /\ file.role # "auto" => file'.role # "auto"
      BY <1>1, StartLeaves
    <3> QED
      BY <1>1, <1>2, <1>4, <3>1, NoFileAssumption
      DEF SetupInv, ScriptOK, ScriptHasOpen, IsVerified
  <2> QED
    BY <2>1, <2>2, <2>3 DEF SetupInv
<1>7. \A r \in Request : request'[r] = NoRequest
  BY <1>2 DEF ServiceInv, RequestsAreServed, Serving
<1>8. \A r \in Request : Verb(r)' = "none" /\ ~Writing(r)'
  BY <1>7 DEF NoRequest, Verb, Writing
<1>9. RequestsAreServed' /\ RevisionsOK'
  BY <1>7, <1>8 DEF ServiceInv, RequestsAreServed, RevisionsOK
<1>10. UpdateIsInstalled'
  BY DEF ServiceInv, UpdateIsInstalled, NoUnitJob
<1>11. DiskHasIdentity' /\ DiskHasEdits'
  BY <1>1, <1>3, <1>4, <1>8 DEF DiskHasIdentity, DiskHasEdits, ScriptHasOpen
<1>12. GuardOutlasted'
  <2>1. \A r \in Request : Waits(r)' => Waits(r) /\ unit_job' = unit_job
    BY DEF Waits, NoUnitJob
  <2> QED
    BY <1>8, <2>1 DEF ServiceInv, GuardOutlasted, RunIsTracked
<1> QED
  BY <1>5, <1>6, <1>9, <1>10, <1>11, <1>12 DEF ServiceInv

\* A machine is set up while it does not serve, or the script writes its file.
LEMMA SetsUpInv ==
  ASSUME ServiceTypeOK, ServiceInv, SetsUp
  PROVE  ServiceTypeOK' /\ ServiceInv'
<1>1. /\ SetupTypeOK /\ SetupInv /\ SetupStep
      /\ UNCHANGED <<slot, request, unit_job, rev, begun_over, overlapped>>
      /\ beside' = (HasLoaded' /\ (beside \/ ScriptHasOpen'))
  BY DEF ServiceTypeOK, ServiceInv, SetsUp
<1>2. SetupTypeOK' /\ SetupInv' /\ Leaves
  BY <1>1, SetupStepInv
<1>3. ServiceTypeOK'
  <2>1. beside' \in BOOLEAN
    BY <1>1
  <2> QED
    BY <1>1, <1>2, <2>1 DEF ServiceTypeOK, SlotTypeOK
<1>4. RequestsAreServed'
  BY <1>1, <1>2 DEF ServiceInv, RequestsAreServed, Leaves, Serving
<1>5. RevisionsOK' /\ UpdateIsInstalled'
  BY <1>1 DEF ServiceInv, RevisionsOK, UpdateIsInstalled, Verb
<1>6. GuardOutlasted'
  BY <1>1 DEF ServiceInv, GuardOutlasted, RunIsTracked, Verb, Waits
<1>7. \A r \in Request : /\ Writing(r)' <=> Writing(r)
                         /\ Changing(r)' <=> Changing(r)
                         /\ Writing(r) => Serving
  BY <1>1 DEF ServiceInv, RequestsAreServed, Writing, Changing, Verb, NoRequest
<1>8. ASSUME HasLoaded'
      PROVE  /\ HasLoaded
             /\ \A r \in Request : Writing(r) => prog' = prog
             /\ ~beside' => /\ ~beside /\ ~ScriptHasOpen /\ ~ScriptHasOpen'
                            /\ file'.token = file.token /\ PortOf(file') = PortOf(file)
                            /\ file'.fds = file.fds
                            /\ file.role # "auto" => file'.role # "auto"
                            /\ prog'.config.token = prog.config.token
                            /\ prog'.config.port = prog.config.port
                            /\ prog'.config.fds = prog.config.fds
  BY <1>1, <1>2, <1>7, <1>8 DEF Leaves, ServiceInv, DiskHasIdentity
<1>9. DiskHasIdentity'
  BY <1>1, <1>7, <1>8 DEF ServiceInv, DiskHasIdentity
<1>10. DiskHasEdits'
  BY <1>1, <1>7, <1>8 DEF ServiceInv, DiskHasEdits
<1> QED
  BY <1>2, <1>3, <1>4, <1>5, <1>6, <1>9, <1>10 DEF ServiceInv

\* It ends, and its requests and its run with it.
LEMMA EndsInv ==
  ASSUME ServiceTypeOK, ServiceInv, SystemdStops \/ Crashes
  PROVE  ServiceTypeOK' /\ ServiceInv'
<1>1. ProcessEnds /\ unit_job' \in {unit_job, NoUnitJob, [verb |-> "recover"]}
  BY DEF SystemdStops, Crashes
<1>2. /\ prog' = Down /\ slot' = Free /\ begun_over' = {}
      /\ request' = [r \in Request |-> NoRequest]
      /\ UNCHANGED <<file, agent_file, script, accepts, verified, rev>>
      /\ overlapped' = FALSE /\ beside' = FALSE
  BY <1>1 DEF ProcessEnds
<1>3. SetupTypeOK' /\ SetupInv'
  <2>1. SetupTypeOK /\ SavedPairingVerified /\ ScriptOK
    BY DEF ServiceTypeOK, ServiceInv, SetupInv
  <2>2. prog' \in Program /\ prog'.phase = "down"
    BY <1>2, DownProgram
  <2>3. SetupTypeOK'
    BY <1>2, <2>1, <2>2 DEF SetupTypeOK, Program
  <2>4. SavedPairingVerified' /\ ProgramOK' /\ ScriptOK'
    BY <1>2, <2>1, <2>2 DEF SavedPairingVerified, ProgramOK, ScriptOK, ScriptHasOpen, HasLoaded,
                            Serving, IsVerified
  <2> QED
    BY <2>3, <2>4 DEF SetupInv
<1>4. ServiceTypeOK'
  <2>1. request' \in [Request -> Requests \union {NoRequest}] /\ SlotTypeOK'
    BY <1>2 DEF SlotTypeOK
  <2>2. unit_job' \in UnitJobs \union {NoUnitJob}
    BY <1>1 DEF ServiceTypeOK, UnitJobs
  <2> QED
    BY <1>2, <1>3, <2>1, <2>2 DEF ServiceTypeOK
<1>5. \A r \in Request : request'[r] = NoRequest /\ Verb(r)' = "none"
  BY <1>2 DEF NoRequest, Verb
<1>6. RequestsAreServed' /\ RevisionsOK'
  BY <1>2, <1>5 DEF ServiceInv, RequestsAreServed, RevisionsOK
<1>7. UpdateIsInstalled'
  BY <1>1, <1>2 DEF ServiceInv, UpdateIsInstalled, NoUnitJob
<1>8. ~HasLoaded' /\ ~RunIsTracked'
  BY <1>2, DownProgram DEF HasLoaded, RunIsTracked, Free
<1> QED
  BY <1>3, <1>4, <1>6, <1>7, <1>8
  DEF ServiceInv, DiskHasIdentity, DiskHasEdits, GuardOutlasted

\* The queue manager goes on; whoever waits when a run begins is noted.
LEMMA RunsGoOnInv ==
  ASSUME ServiceTypeOK, ServiceInv, RunsGoOn
  PROVE  ServiceTypeOK' /\ ServiceInv'
<1>1. SlotStep /\ UNCHANGED <<setup, request, unit_job, rev, overlapped, beside>>
  BY DEF RunsGoOn
<1>2. SetupTypeOK' /\ SetupInv'
  BY <1>1 DEF ServiceTypeOK, ServiceInv, SetupTypeOK, SetupInv, SavedPairingVerified, ProgramOK,
              ScriptOK, ScriptHasOpen, HasLoaded, Serving, IsVerified, setup
<1>3. SlotTypeOK'
  BY <1>1 DEF ServiceTypeOK, SlotTypeOK, SlotStep, Begin, Spawned, SpawnFails, FailureIsOver,
              Exits, IsRecorded, Becomes, IsLeft, IsIn, Taken, Free
<1>4. begun_over' \subseteq Request
  BY DEF RunsGoOn, ServiceTypeOK
<1>5. ServiceTypeOK'
  BY <1>1, <1>2, <1>3, <1>4 DEF ServiceTypeOK
<1>6. /\ RequestsAreServed' /\ RevisionsOK' /\ UpdateIsInstalled'
      /\ DiskHasIdentity' /\ DiskHasEdits'
  BY <1>1 DEF ServiceInv, RequestsAreServed, RevisionsOK, UpdateIsInstalled, DiskHasIdentity,
              DiskHasEdits, HasLoaded, Serving, Writing, Changing, Verb, ScriptHasOpen, setup
<1>7. GuardOutlasted'
  <2> SUFFICES ASSUME RunIsTracked', NEW r \in Request
               PROVE  /\ Verb(r) \in {"restart", "stop", "update"} =>
                           request[r].force \/ r \in begun_over'
                      /\ Waits(r) => unit_job.force \/ r \in begun_over'
    BY <1>1 DEF GuardOutlasted, Verb, Waits
  <2>1. CASE IsIn("spawning") /\ slot'.phase = "running"
    BY <2>1 DEF RunsGoOn
  <2>2. CASE ~(IsIn("spawning") /\ slot'.phase = "running")
    <3>1. slot' # Free
      BY DEF RunIsTracked, Free
    <3>2. begun_over' = begun_over
      BY <2>2, <3>1 DEF RunsGoOn
    <3>3. slot.phase = "running"
      BY <1>1, <2>2 DEF RunIsTracked, ServiceTypeOK, SlotTypeOK, SlotStep, Begin, Spawned,
                        SpawnFails, FailureIsOver, Exits, IsRecorded, Becomes, IsLeft, IsIn,
                        Taken, Free
    <3> QED
      BY <3>2, <3>3 DEF ServiceInv, GuardOutlasted, RunIsTracked
  <2> QED
    BY <2>1, <2>2
<1> QED
  BY <1>2, <1>5, <1>6, <1>7 DEF ServiceInv

-----------------------------------------------------------------------------
(* The requests *)

\* A request other than an edit begins, goes on or is answered: the file and
\* the Config are not touched.
Proceeds(r, q) ==
  /\ Serving /\ Verb(r) # "edit"
  /\ q \in Requests \union {NoRequest} /\ q.verb # "edit"
  /\ request' = [request EXCEPT ![r] = q]
  /\ UNCHANGED <<setup, slot, overlapped, beside>>

LEMMA ProceedsInv ==
  ASSUME ServiceTypeOK, ServiceInv, NEW r \in Request, NEW q, Proceeds(r, q)
  PROVE  /\ SetupTypeOK' /\ SlotTypeOK'
         /\ request' \in [Request -> Requests \union {NoRequest}]
         /\ overlapped' \in BOOLEAN /\ beside' \in BOOLEAN
         /\ request'[r] = q /\ \A s \in Request : s # r => request'[s] = request[s]
         /\ SetupInv' /\ RequestsAreServed' /\ DiskHasIdentity' /\ DiskHasEdits'
<1>1. /\ request' \in [Request -> Requests \union {NoRequest}]
      /\ request'[r] = q /\ \A s \in Request : s # r => request'[s] = request[s]
  BY DEF Proceeds, ServiceTypeOK
<1>2. SetupTypeOK' /\ SlotTypeOK' /\ overlapped' \in BOOLEAN /\ beside' \in BOOLEAN
  BY DEF Proceeds, setup, ServiceTypeOK, SetupTypeOK, SlotTypeOK
<1>3. SetupInv' /\ RequestsAreServed'
  BY DEF Proceeds, setup, ServiceInv, SetupInv, SavedPairingVerified, ProgramOK, ScriptOK,
         ScriptHasOpen, HasLoaded, Serving, IsVerified, RequestsAreServed
<1>4. /\ \A s \in Request : Writing(s)' <=> Writing(s)
      /\ \A s \in Request : Changing(s)' <=> Changing(s)
      /\ \A s \in Request : Writing(s) => request'[s] = request[s]
  BY <1>1 DEF Proceeds, Writing, Changing, Verb
<1>5. DiskHasIdentity' /\ DiskHasEdits'
  <2>1. UNCHANGED <<file, prog, script, overlapped, beside>>
    BY DEF Proceeds, setup
  <2> QED
    BY <1>4, <2>1 DEF ServiceInv, DiskHasIdentity, DiskHasEdits, HasLoaded, ScriptHasOpen
<1> QED
  BY <1>1, <1>2, <1>3, <1>5

\* A request passes the guard.
LEMMA AsksInv ==
  ASSUME ServiceTypeOK, ServiceInv, NEW r \in Request, NEW verb \in {"restart", "stop", "update"},
         NEW force \in BOOLEAN, Asks(r, verb, force)
  PROVE  ServiceTypeOK' /\ ServiceInv'
<1> DEFINE q == Asked(verb, force)
<1>1. q \in Requests /\ q.verb = verb /\ q.force = force
  BY ServiceAssumption DEF Asked, Requests
<1>2. verb = "update" => q.stage = "guarded"
  BY DEF Asked
<1>3. /\ Proceeds(r, q) /\ UNCHANGED <<unit_job, rev>> /\ begun_over' = begun_over \ {r}
      /\ ~Waits(r) /\ (force \/ ~RunIsTracked)
  BY <1>1, RequestTypes DEF Asks, Proceeds, guard_running_job
<1> HIDE DEF q
<1>4. /\ SetupTypeOK' /\ SlotTypeOK'
      /\ request' \in [Request -> Requests \union {NoRequest}]
      /\ overlapped' \in BOOLEAN /\ beside' \in BOOLEAN
      /\ request'[r] = q /\ \A s \in Request : s # r => request'[s] = request[s]
      /\ SetupInv' /\ RequestsAreServed' /\ DiskHasIdentity' /\ DiskHasEdits'
  BY <1>3, ProceedsInv
<1>5. ServiceTypeOK'
  BY <1>3, <1>4 DEF ServiceTypeOK
<1>6. RevisionsOK'
  BY <1>1, <1>2, <1>3, <1>4 DEF ServiceInv, RevisionsOK, Verb
<1>7. UpdateIsInstalled'
  BY <1>3 DEF ServiceInv, UpdateIsInstalled
<1>8. GuardOutlasted'
  <2> SUFFICES ASSUME RunIsTracked, NEW s \in Request
               PROVE  /\ Verb(s)' \in {"restart", "stop", "update"} =>
                           request'[s].force \/ s \in begun_over'
                      /\ Waits(s) => unit_job.force \/ s \in begun_over'
    BY <1>3 DEF GuardOutlasted, Waits, RunIsTracked, Proceeds
  <2>1. CASE s = r
    BY <1>1, <1>3, <1>4, <2>1
  <2>2. CASE s # r
    BY <1>3, <1>4, <2>2 DEF ServiceInv, GuardOutlasted, Verb
  <2> QED
    BY <2>1, <2>2
<1> QED
  BY <1>4, <1>5, <1>6, <1>7, <1>8 DEF ServiceInv

\* A restart or a stop is handed to systemd, or a request fails.
LEMMA ActsInv ==
  ASSUME ServiceTypeOK, ServiceInv, NEW r \in Request, Acts(r) \/ Fails(r)
  PROVE  ServiceTypeOK' /\ ServiceInv'
<1>1. Verb(r) \in {"restart", "stop", "update"} /\ request[r].force \in BOOLEAN
  BY RequestTypes DEF Acts, Fails
<1>2. Proceeds(r, NoRequest) /\ rev' = rev /\ begun_over' = begun_over
  <2>1. Serving
    BY <1>1 DEF ServiceInv, RequestsAreServed, Verb, NoRequest
  <2> QED
    BY <1>1, <2>1 DEF Acts, Fails, Proceeds, Done, NoRequest, history
<1>3. /\ SetupTypeOK' /\ SlotTypeOK'
      /\ request' \in [Request -> Requests \union {NoRequest}]
      /\ overlapped' \in BOOLEAN /\ beside' \in BOOLEAN
      /\ request'[r] = NoRequest /\ \A s \in Request : s # r => request'[s] = request[s]
      /\ SetupInv' /\ RequestsAreServed' /\ DiskHasIdentity' /\ DiskHasEdits'
  BY <1>2, ProceedsInv
<1>4. \/ unit_job' = unit_job
      \/ /\ Verb(r) \in {"restart", "stop"}
         /\ unit_job' = [verb |-> Verb(r), by |-> r, force |-> request[r].force, pulled |-> 0]
  BY DEF Acts, Fails, systemctl_verb
<1>5. ServiceTypeOK'
  <2>1. unit_job' \in UnitJobs \union {NoUnitJob}
    BY <1>1, <1>4, ServiceAssumption DEF ServiceTypeOK, UnitJobs
  <2> QED
    BY <1>2, <1>3, <2>1 DEF ServiceTypeOK
<1>6. RevisionsOK'
  BY <1>2, <1>3 DEF ServiceInv, RevisionsOK, Verb, NoRequest
<1>7. UpdateIsInstalled'
  <2>1. rev.checkout >= 0 /\ rev.installed >= 0
    BY ServiceAssumption DEF ServiceTypeOK
  <2> QED
    BY <1>2, <1>4, <2>1 DEF ServiceInv, UpdateIsInstalled
<1>8. GuardOutlasted'
  <2> SUFFICES ASSUME RunIsTracked, NEW s \in Request
               PROVE  /\ Verb(s)' \in {"restart", "stop", "update"} =>
                           request'[s].force \/ s \in begun_over
                      /\ Waits(s)' => unit_job'.force \/ s \in begun_over
    BY <1>2 DEF GuardOutlasted, RunIsTracked, Proceeds
  <2>1. Verb(s)' \in {"restart", "stop", "update"} => request'[s].force \/ s \in begun_over
    BY <1>3 DEF ServiceInv, GuardOutlasted, Verb, NoRequest
  <2>2. Waits(s)' => unit_job'.force \/ s \in begun_over
    BY <1>1, <1>4 DEF ServiceInv, GuardOutlasted, Waits
  <2> QED
    BY <2>1, <2>2
<1> QED
  BY <1>3, <1>5, <1>6, <1>7, <1>8 DEF ServiceInv

\* What an update's request becomes when it has pulled or installed
LEMMA UpdateBecomes ==
  ASSUME ServiceTypeOK, NEW r \in Request, UpdatePulls(r) \/ UpdateInstalls(r)
  PROVE  \E q \in Requests :
           /\ request' = [request EXCEPT ![r] = q]
           /\ q.verb = "update" /\ q.force = request[r].force
           /\ \/ /\ UpdatePulls(r) /\ q.stage = "pulled" /\ q.pulled = rev.published
              \/ /\ UpdateInstalls(r) /\ q.stage = "installed" /\ q.pulled = request[r].pulled
<1>1. request[r] \in [verb : {"update"}, force : BOOLEAN,
                      stage : {"guarded", "pulled", "installed"}, pulled : 0..MaxRevision]
  BY DEF UpdatePulls, UpdateInstalls, Stage, ServiceTypeOK, Requests, NoRequest, Verb
<1>2. CASE UpdatePulls(r)
  <2> DEFINE q == [request[r] EXCEPT !.stage = "pulled", !.pulled = rev.published]
  <2>1. rev.published \in 0..MaxRevision
    BY DEF ServiceTypeOK
  <2>2. q \in Requests /\ q.verb = "update" /\ q.force = request[r].force
        /\ q.stage = "pulled" /\ q.pulled = rev.published
    BY <1>1, <2>1 DEF Requests
  <2>3. request' = [request EXCEPT ![r] = q]
    BY <1>2 DEF UpdatePulls, ServiceTypeOK
  <2> QED
    BY <1>2, <2>2, <2>3
<1>3. CASE UpdateInstalls(r)
  <2> DEFINE q == [request[r] EXCEPT !.stage = "installed"]
  <2>1. q \in Requests /\ q.verb = "update" /\ q.force = request[r].force
        /\ q.stage = "installed" /\ q.pulled = request[r].pulled
    BY <1>1 DEF Requests
  <2>2. request' = [request EXCEPT ![r] = q]
    BY <1>3 DEF UpdateInstalls, ServiceTypeOK
  <2> QED
    BY <1>3, <2>1, <2>2
<1> QED
  BY <1>2, <1>3

\* An update pulls or installs: what it has done so far is done for good.
LEMMA UpdateStepInv ==
  ASSUME ServiceTypeOK, ServiceInv, NEW r \in Request, UpdatePulls(r) \/ UpdateInstalls(r)
  PROVE  ServiceTypeOK' /\ ServiceInv'
<1>1. /\ Verb(r) = "update" /\ request[r].force \in BOOLEAN
      /\ request[r].pulled \in 0..MaxRevision
      /\ UNCHANGED <<setup, slot, unit_job, history>>
  BY RequestTypes DEF UpdatePulls, UpdateInstalls, Stage
<1>2. /\ rev \in [published : 0..MaxRevision, checkout : 0..MaxRevision,
                  installed : 0..MaxRevision]
      /\ rev.installed <= rev.checkout /\ rev.checkout <= rev.published
  BY DEF ServiceTypeOK, ServiceInv, RevisionsOK
<1>3. PICK q \in Requests :
        /\ request' = [request EXCEPT ![r] = q]
        /\ q.verb = "update" /\ q.force = request[r].force
        /\ \/ /\ UpdatePulls(r) /\ q.stage = "pulled" /\ q.pulled = rev.published
           \/ /\ UpdateInstalls(r) /\ q.stage = "installed" /\ q.pulled = request[r].pulled
  BY UpdateBecomes
<1>4. Proceeds(r, q) /\ begun_over' = begun_over
  <2>1. Serving
    BY <1>1 DEF ServiceInv, RequestsAreServed, Verb, NoRequest
  <2> QED
    BY <1>1, <1>3, <2>1 DEF Proceeds, history
<1>5. /\ SetupTypeOK' /\ SlotTypeOK'
      /\ request' \in [Request -> Requests \union {NoRequest}]
      /\ overlapped' \in BOOLEAN /\ beside' \in BOOLEAN
      /\ request'[r] = q /\ \A s \in Request : s # r => request'[s] = request[s]
      /\ SetupInv' /\ RequestsAreServed' /\ DiskHasIdentity' /\ DiskHasEdits'
  BY <1>4, ProceedsInv
<1>6. /\ rev' \in [published : 0..MaxRevision, checkout : 0..MaxRevision,
                   installed : 0..MaxRevision]
      /\ rev'.installed <= rev'.checkout /\ rev'.checkout <= rev'.published
      /\ rev'.checkout >= rev.checkout /\ rev'.installed >= rev.installed
      /\ UpdatePulls(r) => rev'.checkout = rev.published
      /\ UpdateInstalls(r) => rev'.checkout = rev.checkout /\ rev'.installed = rev.checkout
  BY <1>2, <1>3, ServiceAssumption DEF UpdatePulls, UpdateInstalls
<1>7. ServiceTypeOK'
  BY <1>1, <1>4, <1>5, <1>6 DEF ServiceTypeOK
<1>8. RevisionsOK'
  <2> SUFFICES ASSUME NEW s \in Request, Verb(s)' = "update"
               PROVE  /\ request'[s].stage # "guarded" => rev'.checkout >= request'[s].pulled
                      /\ request'[s].stage = "installed" => rev'.installed >= request'[s].pulled
    BY <1>6 DEF RevisionsOK
  <2>1. CASE s = r
    <3>1. UpdateInstalls(r) => rev.checkout >= request[r].pulled
      BY <1>1 DEF UpdateInstalls, Stage, ServiceInv, RevisionsOK
    <3> QED
      BY <1>1, <1>2, <1>3, <1>5, <1>6, <2>1, <3>1, ServiceAssumption
  <2>2. CASE s # r
    <3>1. request'[s] = request[s] /\ Verb(s) = "update"
      BY <1>5, <2>2 DEF Verb
    <3>2. request[s].pulled \in 0..MaxRevision
      BY <3>1, RequestTypes
    <3> QED
      BY <1>2, <1>6, <3>1, <3>2, ServiceAssumption DEF ServiceInv, RevisionsOK
  <2> QED
    BY <2>1, <2>2
<1>9. UpdateIsInstalled'
  <2> SUFFICES ASSUME unit_job.verb = "restart"
               PROVE  rev'.checkout >= unit_job.pulled /\ rev'.installed >= unit_job.pulled
    BY <1>1 DEF UpdateIsInstalled
  <2>1. unit_job.pulled \in 0..MaxRevision
    BY DEF ServiceTypeOK, UnitJobs, NoUnitJob
  <2> QED
    BY <1>2, <1>6, <2>1, ServiceAssumption DEF ServiceInv, UpdateIsInstalled
<1>10. GuardOutlasted'
  BY <1>1, <1>3, <1>4, <1>5 DEF ServiceInv, GuardOutlasted, Verb, Waits, RunIsTracked
<1> QED
  BY <1>5, <1>7, <1>8, <1>9, <1>10 DEF ServiceInv

\* ... and asks for a restart with that behind it.
LEMMA UpdateRestartsInv ==
  ASSUME ServiceTypeOK, ServiceInv, NEW r \in Request, UpdateRestarts(r)
  PROVE  ServiceTypeOK' /\ ServiceInv'
<1>1. /\ Verb(r) = "update" /\ request[r].stage = "installed"
      /\ request[r].force \in BOOLEAN /\ request[r].pulled \in 0..MaxRevision
  BY RequestTypes DEF UpdateRestarts, Stage
<1>2. Proceeds(r, NoRequest) /\ rev' = rev /\ begun_over' = begun_over
  <2>1. Serving
    BY <1>1 DEF ServiceInv, RequestsAreServed, Verb, NoRequest
  <2> QED
    BY <1>1, <2>1 DEF UpdateRestarts, Proceeds, Done, NoRequest, history
<1>3. /\ SetupTypeOK' /\ SlotTypeOK'
      /\ request' \in [Request -> Requests \union {NoRequest}]
      /\ overlapped' \in BOOLEAN /\ beside' \in BOOLEAN
      /\ request'[r] = NoRequest /\ \A s \in Request : s # r => request'[s] = request[s]
      /\ SetupInv' /\ RequestsAreServed' /\ DiskHasIdentity' /\ DiskHasEdits'
  BY <1>2, ProceedsInv
<1>4. \/ unit_job' = unit_job
      \/ unit_job' = [verb |-> "restart", by |-> r, force |-> request[r].force,
                      pulled |-> request[r].pulled]
  BY DEF UpdateRestarts, systemctl_verb
<1>5. ServiceTypeOK'
  <2>1. unit_job' \in UnitJobs \union {NoUnitJob}
    BY <1>1, <1>4 DEF ServiceTypeOK, UnitJobs
  <2> QED
    BY <1>2, <1>3, <2>1 DEF ServiceTypeOK
<1>6. RevisionsOK'
  BY <1>2, <1>3 DEF ServiceInv, RevisionsOK, Verb, NoRequest
<1>7. UpdateIsInstalled'
  <2>1. rev.checkout >= request[r].pulled /\ rev.installed >= request[r].pulled
    BY <1>1 DEF ServiceInv, RevisionsOK
  <2> QED
    BY <1>2, <1>4, <2>1 DEF ServiceInv, UpdateIsInstalled
<1>8. GuardOutlasted'
  <2> SUFFICES ASSUME RunIsTracked, NEW s \in Request
               PROVE  /\ Verb(s)' \in {"restart", "stop", "update"} =>
                           request'[s].force \/ s \in begun_over
                      /\ Waits(s)' => unit_job'.force \/ s \in begun_over
    BY <1>2 DEF GuardOutlasted, RunIsTracked, Proceeds
  <2>1. Verb(s)' \in {"restart", "stop", "update"} => request'[s].force \/ s \in begun_over
    BY <1>3 DEF ServiceInv, GuardOutlasted, Verb, NoRequest
  <2>2. Waits(s)' => unit_job'.force \/ s \in begun_over
    BY <1>1, <1>4 DEF ServiceInv, GuardOutlasted, Waits
  <2> QED
    BY <2>1, <2>2
<1> QED
  BY <1>3, <1>5, <1>6, <1>7, <1>8 DEF ServiceInv

-----------------------------------------------------------------------------
(* Edits *)

\* An edit begins, sets a field, opens the file or has written it: what that
\* leaves alone.
Edited(r, q) ==
  /\ Serving /\ Verb(r) \in {"none", "edit"}
  /\ q \in Requests \union {NoRequest} /\ q.verb \in {"none", "edit"}
  /\ request' = [request EXCEPT ![r] = q]
  /\ UNCHANGED <<agent_file, script, accepts, verified, slot, unit_job, rev, begun_over>>
  /\ overlapped' \in BOOLEAN /\ beside' \in BOOLEAN

LEMMA EditedFrame ==
  ASSUME ServiceTypeOK, ServiceInv, NEW r \in Request, NEW q, Edited(r, q),
         file' \in Settings, prog' \in Program, prog'.phase = "serving", prog'.cmd = prog.cmd
  PROVE  /\ ServiceTypeOK'
         /\ request'[r] = q /\ \A s \in Request : s # r => request'[s] = request[s]
         /\ RequestsAreServed' /\ RevisionsOK' /\ UpdateIsInstalled' /\ GuardOutlasted'
<1>1. /\ request' \in [Request -> Requests \union {NoRequest}]
      /\ request'[r] = q /\ \A s \in Request : s # r => request'[s] = request[s]
  BY DEF Edited, ServiceTypeOK
<1>2. SetupTypeOK'
  BY DEF Edited, ServiceTypeOK, SetupTypeOK, Program
<1>3. ServiceTypeOK'
  BY <1>1, <1>2 DEF Edited, ServiceTypeOK, SlotTypeOK
<1>4. RequestsAreServed'
  BY DEF RequestsAreServed, Serving
<1>5. RevisionsOK' /\ UpdateIsInstalled'
  BY <1>1 DEF Edited, ServiceInv, RevisionsOK, UpdateIsInstalled, Verb
<1>6. GuardOutlasted'
  BY <1>1 DEF Edited, ServiceInv, GuardOutlasted, Verb, Waits, RunIsTracked
<1> QED
  BY <1>1, <1>3, <1>4, <1>5, <1>6

\* What holds of the setup while the process serves.
LEMMA WhileServing ==
  ASSUME ServiceTypeOK, ServiceInv, Serving
  PROVE  /\ prog \in Program /\ prog.cmd = "start" /\ file \in Settings
         /\ prog.config \in Settings /\ prog.config.port # "none"
         /\ prog.config.role = "controller" /\ IsVerified(prog.config)
         /\ SavedPairingVerified /\ ScriptOK /\ HasLoaded
BY DEF ServiceTypeOK, SetupTypeOK, Program, ServiceInv, SetupInv, ProgramOK, HasLoaded, Serving

\* A file that is written while the process serves, and a Config of its identity
LEMMA SetupWhileServing ==
  ASSUME ServiceTypeOK, ServiceInv, Serving, UNCHANGED <<agent_file, script, accepts, verified>>,
         file' \in Settings, IsVerified(file'), ScriptHasOpen => file'.role # "auto",
         prog' \in Program, prog'.phase = "serving", prog'.cmd = "start",
         prog'.config.port # "none", prog'.config.role = "controller",
         prog'.config.token = prog.config.token, prog'.config.url = prog.config.url
  PROVE  SetupInv' /\ Serving' /\ HasLoaded'
<1>1. IsVerified(prog.config) /\ SavedPairingVerified /\ ScriptOK
  BY WhileServing
<1>2. SavedPairingVerified'
  BY <1>1 DEF SavedPairingVerified, IsVerified
<1>3. ProgramOK' /\ Serving' /\ HasLoaded'
  BY <1>1, NoFileAssumption DEF ProgramOK, HasLoaded, Serving, IsVerified
<1>4. ScriptOK'
  BY <1>1, NoFileAssumption DEF ScriptOK, ScriptHasOpen, IsVerified
<1> QED
  BY <1>2, <1>3, <1>4 DEF SetupInv

LEMMA EditAsksInv ==
  ASSUME ServiceTypeOK, ServiceInv, NEW r \in Request, NEW fields \in Payloads,
         EditAsks(r, fields)
  PROVE  ServiceTypeOK' /\ ServiceInv'
<1> DEFINE q == [verb |-> "edit", stage |-> "setting", left |-> fields, changed |-> FALSE]
<1>1. /\ Serving /\ request[r] = NoRequest /\ request' = [request EXCEPT ![r] = q]
      /\ UNCHANGED <<file, agent_file, prog, script, accepts, verified>>
      /\ UNCHANGED <<slot, unit_job, rev, begun_over, overlapped, beside>>
  BY DEF EditAsks, setup, history
<1>2. q \in Requests /\ q.verb = "edit" /\ q.stage = "setting" /\ ~q.changed
  BY DEF Requests, Payloads
<1> HIDE DEF q
<1>3. Edited(r, q) /\ Verb(r) = "none"
  BY <1>1, <1>2, RequestTypes DEF Edited, ServiceTypeOK
<1>4. /\ prog \in Program /\ prog.phase = "serving" /\ file \in Settings
      /\ SetupInv
  BY <1>1, WhileServing DEF Serving, ServiceInv
<1>5. /\ ServiceTypeOK'
      /\ request'[r] = q /\ \A s \in Request : s # r => request'[s] = request[s]
      /\ RequestsAreServed' /\ RevisionsOK' /\ UpdateIsInstalled' /\ GuardOutlasted'
  BY <1>1, <1>3, <1>4, EditedFrame
<1>6. SetupInv'
  BY <1>1, <1>4 DEF SetupInv, SavedPairingVerified, ProgramOK, ScriptOK, ScriptHasOpen,
                    HasLoaded, Serving, IsVerified
<1>7. \A s \in Request : /\ Writing(s)' <=> Writing(s)
                         /\ Changing(s)' <=> Changing(s)
                         /\ Writing(s) => request'[s] = request[s]
  BY <1>2, <1>3, <1>5 DEF Writing, Changing, Verb
<1>8. DiskHasIdentity' /\ DiskHasEdits'
  BY <1>1, <1>7 DEF ServiceInv, DiskHasIdentity, DiskHasEdits, HasLoaded, ScriptHasOpen
<1> QED
  BY <1>5, <1>6, <1>8 DEF ServiceInv

\* What an edit's request becomes when it has set a field, and what the Config
LEMMA EditSetsLeaves ==
  ASSUME ServiceTypeOK, ServiceInv, NEW r \in Request, NEW field \in Fields,
         EditSets(r, field[1], field[2])
  PROVE  /\ Serving /\ prog' \in Program /\ prog'.phase = "serving" /\ prog'.cmd = prog.cmd
         /\ prog'.config.role = prog.config.role /\ prog'.config.token = prog.config.token
         /\ prog'.config.url = prog.config.url /\ prog'.config.port # "none"
         /\ UNCHANGED <<file, agent_file, script, accepts, verified, slot, unit_job, rev, history>>
         /\ \E q \in Requests \union {NoRequest} :
              /\ request' = [request EXCEPT ![r] = q]
              /\ q = NoRequest \/ (q.verb = "edit" /\ q.stage = "setting")
              /\ q = NoRequest \/ ~q.changed => prog'.config = prog.config /\ ~Changing(r)
<1> DEFINE name == field[1]
           value == field[2]
           left == request[r].left \ {<<name, value>>}
           changed == request[r].changed \/ prog.config[name] # value
           q == IF left = {} /\ ~changed THEN NoRequest
                ELSE [request[r] EXCEPT !.left = left, !.changed = changed]
           c == [prog.config EXCEPT ![name] = value]
<1>1. /\ Verb(r) = "edit" /\ request[r].stage = "setting"
      /\ prog' = [prog EXCEPT !.config[name] = value]
      /\ IF left = {} /\ ~changed THEN Done(r)
         ELSE request' = [request EXCEPT ![r].left = left, ![r].changed = changed]
      /\ UNCHANGED <<file, agent_file, script, accepts, verified, slot, unit_job, rev, history>>
  BY DEF EditSets, Edits
<1>2. request[r] \in [verb : {"edit"}, stage : {"setting"}, left : SUBSET Fields,
                      changed : BOOLEAN]
  BY <1>1, RequestTypes
<1>3. Serving
  BY <1>1 DEF ServiceInv, RequestsAreServed, Verb, NoRequest
<1>4. prog \in Program /\ prog.config \in Settings /\ prog.config.port # "none"
  BY <1>3, WhileServing
<1>5. /\ name \in {"port", "fds"}
      /\ name = "port" => value \in Ports \union {"null"}
      /\ name = "fds" => value \in Binaries
  BY DEF Fields
<1>6. prog' = [prog EXCEPT !.config = c]
  BY <1>1, <1>4 DEF Program
<1> HIDE DEF name, value
<1>7. /\ c \in Settings /\ c.role = prog.config.role /\ c.token = prog.config.token
      /\ c.url = prog.config.url /\ c.port # "none"
      /\ prog.config[name] = value => c = prog.config
  <2>1. CASE name = "port"
    BY <1>4, <1>5, <2>1 DEF Settings, Ports
  <2>2. CASE name = "fds"
    BY <1>4, <1>5, <2>2 DEF Settings
  <2> QED
    BY <1>5, <2>1, <2>2
<1> HIDE DEF c
<1>8. prog' \in Program /\ prog'.phase = prog.phase /\ prog'.cmd = prog.cmd /\ prog'.config = c
  BY <1>4, <1>6, <1>7 DEF Program
<1>9. left \in SUBSET Fields /\ changed \in BOOLEAN
  BY <1>2
<1>10. request' = [request EXCEPT ![r] = q]
  BY <1>1, <1>2 DEF ServiceTypeOK, Done
<1>11. /\ q \in Requests \union {NoRequest}
       /\ q = NoRequest \/ (q.verb = "edit" /\ q.stage = "setting")
       /\ q = NoRequest \/ ~q.changed => ~changed
  <2>1. CASE left = {} /\ ~changed
    BY <2>1
  <2>2. CASE ~(left = {} /\ ~changed)
    <3> HIDE DEF left, changed
    <3>1. q = [request[r] EXCEPT !.left = left, !.changed = changed]
      BY <2>2
    <3>2. /\ q \in [verb : {"edit"}, stage : {"setting"}, left : SUBSET Fields, changed : BOOLEAN]
          /\ q.changed = changed
      BY <1>2, <1>9, <3>1
    <3>3. q # NoRequest
      BY <3>2 DEF NoRequest
    <3> QED
      BY <3>2, <3>3 DEF Requests
  <2> QED
    BY <2>1, <2>2
<1>12. ~changed => prog'.config = prog.config /\ ~Changing(r)
  BY <1>7, <1>8 DEF Changing
<1> HIDE DEF q, changed
<1>13. \E p \in Requests \union {NoRequest} :
              /\ request' = [request EXCEPT ![r] = p]
              /\ p = NoRequest \/ (p.verb = "edit" /\ p.stage = "setting")
              /\ p = NoRequest \/ ~p.changed => prog'.config = prog.config /\ ~Changing(r)
  BY <1>10, <1>11, <1>12
<1> QED
  BY <1>1, <1>3, <1>7, <1>8, <1>13 DEF Serving

LEMMA EditSetsInv ==
  ASSUME ServiceTypeOK, ServiceInv, NEW r \in Request, NEW field \in Fields,
         EditSets(r, field[1], field[2])
  PROVE  ServiceTypeOK' /\ ServiceInv'
<1>1. /\ Serving /\ prog' \in Program /\ prog'.phase = "serving" /\ prog'.cmd = prog.cmd
      /\ prog'.config.role = prog.config.role /\ prog'.config.token = prog.config.token
      /\ prog'.config.url = prog.config.url /\ prog'.config.port # "none"
      /\ UNCHANGED <<file, agent_file, script, accepts, verified, slot, unit_job, rev>>
      /\ UNCHANGED <<begun_over, overlapped, beside>>
      /\ Verb(r) = "edit" /\ request[r].stage = "setting"
  BY EditSetsLeaves DEF EditSets, Edits, history
<1>2. PICK q \in Requests \union {NoRequest} :
        /\ request' = [request EXCEPT ![r] = q]
        /\ q = NoRequest \/ (q.verb = "edit" /\ q.stage = "setting")
        /\ q = NoRequest \/ ~q.changed => prog'.config = prog.config /\ ~Changing(r)
  BY EditSetsLeaves
<1>3. /\ file \in Settings /\ prog.cmd = "start" /\ prog.config.role = "controller"
      /\ SavedPairingVerified /\ ScriptOK /\ HasLoaded
  BY <1>1, WhileServing
<1>4. Edited(r, q)
  <2>1. q.verb \in {"none", "edit"}
    BY <1>2 DEF NoRequest
  <2> QED
    BY <1>1, <1>2, <2>1 DEF Edited, ServiceTypeOK
<1>5. /\ ServiceTypeOK'
      /\ request'[r] = q /\ \A s \in Request : s # r => request'[s] = request[s]
      /\ RequestsAreServed' /\ RevisionsOK' /\ UpdateIsInstalled' /\ GuardOutlasted'
  BY <1>1, <1>3, <1>4, EditedFrame
<1>6. SetupInv' /\ Serving' /\ HasLoaded'
  <2>1. IsVerified(file') /\ (ScriptHasOpen => file'.role # "auto")
    BY <1>1, <1>3, NoFileAssumption DEF SavedPairingVerified, IsVerified, ScriptOK
  <2> QED
    BY <1>1, <1>3, <2>1, SetupWhileServing
<1>7. /\ \A s \in Request : Writing(s)' <=> Writing(s)
      /\ \A s \in Request : Writing(s) => request'[s] = request[s]
      /\ \A s \in Request : s # r => (Changing(s)' <=> Changing(s))
  BY <1>1, <1>2, <1>5 DEF Writing, Changing, Verb, NoRequest
<1>8. DiskHasIdentity'
  BY <1>1, <1>3, <1>6, <1>7 DEF ServiceInv, DiskHasIdentity, ScriptHasOpen
<1>9. DiskHasEdits'
  <2> SUFFICES ASSUME ~overlapped, ~beside, \A s \in Request : ~Changing(s)'
               PROVE  /\ \A s \in Request : Writing(s)' =>
                           /\ request'[s].written.port = prog'.config.port
                           /\ request'[s].written.fds = prog'.config.fds
                      /\ (\A s \in Request : ~Writing(s)') =>
                           PortOf(file') = prog'.config.port /\ file'.fds = prog'.config.fds
    BY <1>1 DEF DiskHasEdits
  <2>1. q = NoRequest \/ ~q.changed
    BY <1>2, <1>5 DEF Changing, Verb
  <2>2. prog'.config = prog.config /\ \A s \in Request : ~Changing(s)
    BY <1>2, <1>7, <2>1
  <2> QED
    BY <1>1, <1>3, <1>7, <2>2 DEF ServiceInv, DiskHasEdits
<1> QED
  BY <1>5, <1>6, <1>8, <1>9 DEF ServiceInv

LEMMA SaveOpensInv ==
  ASSUME ServiceTypeOK, ServiceInv, NEW r \in Request, SaveOpens(r)
  PROVE  ServiceTypeOK' /\ ServiceInv'
<1> DEFINE q == [verb |-> "edit", stage |-> "opened", written |-> prog.config]
           Alone == \A s \in Request : Writing(s) => ~overlapped /\ request[s].written = prog.config
           Unmet == beside => ~ScriptHasOpen /\ \A s \in Request : ~Writing(s)
<1>1. /\ Verb(r) = "edit" /\ request[r].stage = "setting" /\ file' = Empty
      /\ request' = [request EXCEPT ![r] = q]
      /\ UNCHANGED <<agent_file, prog, script, accepts, verified, slot, unit_job, rev, begun_over>>
  BY DEF SaveOpens, Opens, Edits
<1>2. Serving
  BY <1>1 DEF ServiceInv, RequestsAreServed, Verb, NoRequest
<1>3. /\ prog \in Program /\ prog.cmd = "start"
      /\ prog.config \in Settings /\ prog.config.port # "none"
      /\ prog.config.role = "controller" /\ HasLoaded
  BY <1>2, WhileServing
<1>4. q \in Requests /\ q.verb = "edit" /\ q.stage = "opened" /\ q.written = prog.config
  BY <1>3 DEF Requests
<1> HIDE DEF q
<1>5. /\ overlapped' \in BOOLEAN /\ (~overlapped' => Alone)
      /\ beside' \in BOOLEAN /\ (~beside' => Unmet)
  <2>1. \A s \in Request : Writing(s) <=> s \in Edits /\ HasOpen(s)
    BY DEF Writing, HasOpen, Edits
  <2>2. /\ overlapped' = \E s \in Edits : HasOpen(s) /\ (overlapped \/ request[s].written # prog.config)
        /\ beside' = (beside /\ (ScriptHasOpen \/ \E s \in Edits : HasOpen(s)))
    BY DEF SaveOpens, Opens
  <2>3. overlapped' \in BOOLEAN /\ beside' \in BOOLEAN
    BY <2>2
  <2>4. (~overlapped' => Alone) /\ (~beside' => Unmet)
    BY <2>1, <2>2
  <2> QED
    BY <2>3, <2>4
<1>6. Edited(r, q)
  BY <1>1, <1>2, <1>4, <1>5 DEF Edited
<1>7. /\ ServiceTypeOK'
      /\ request'[r] = q /\ \A s \in Request : s # r => request'[s] = request[s]
      /\ RequestsAreServed' /\ RevisionsOK' /\ UpdateIsInstalled' /\ GuardOutlasted'
  BY <1>1, <1>2, <1>3, <1>6, EmptySettings, EditedFrame DEF Serving
<1>8. SetupInv' /\ Serving' /\ HasLoaded'
  <2>1. file' \in Settings /\ IsVerified(file') /\ file'.role # "auto"
    BY <1>1, EmptySettings DEF IsVerified, Empty
  <2> QED
    BY <1>1, <1>2, <1>3, <2>1, SetupWhileServing DEF Serving
<1>9. Writing(r)' /\ \A s \in Request : s # r => (Writing(s)' <=> Writing(s))
  BY <1>4, <1>7 DEF Writing, Verb
<1>10. DiskHasIdentity'
  <2>1. ASSUME NEW s \in Request, Writing(s)'
        PROVE  /\ request'[s].written.role = prog'.config.role
               /\ request'[s].written.token = prog'.config.token
               /\ request'[s].written.url = prog'.config.url
    BY <1>1, <1>3, <1>4, <1>7, <1>9, <2>1 DEF ServiceInv, DiskHasIdentity
  <2>2. ~beside' => ~ScriptHasOpen'
    BY <1>1, <1>3, <1>5 DEF ServiceInv, DiskHasIdentity, ScriptHasOpen
  <2>3. file'.role # "auto"
    BY <1>1 DEF Empty
  <2> QED
    BY <1>9, <2>1, <2>2, <2>3 DEF DiskHasIdentity
<1>11. DiskHasEdits'
  <2> SUFFICES ASSUME ~overlapped', NEW s \in Request, Writing(s)'
               PROVE  request'[s].written = prog'.config
    BY <1>9 DEF DiskHasEdits
  <2> QED
    BY <1>1, <1>4, <1>5, <1>7, <1>9
<1> QED
  BY <1>7, <1>8, <1>10, <1>11 DEF ServiceInv

LEMMA SaveDumpsInv ==
  ASSUME ServiceTypeOK, ServiceInv, NEW r \in Request, SaveDumps(r)
  PROVE  ServiceTypeOK' /\ ServiceInv'
<1> DEFINE w == request[r].written
<1>1. /\ Writing(r) /\ Verb(r) = "edit" /\ file' = w
      /\ request' = [request EXCEPT ![r] = NoRequest]
      /\ UNCHANGED <<agent_file, prog, script, accepts, verified, slot, unit_job, rev>>
      /\ UNCHANGED <<begun_over, overlapped, beside>>
  BY DEF SaveDumps, HasOpen, Edits, Writing, Done, history
<1>2. Serving
  BY <1>1 DEF ServiceInv, RequestsAreServed, Verb, NoRequest
<1>3. /\ prog \in Program /\ prog.cmd = "start" /\ prog.config.port # "none"
      /\ prog.config.role = "controller" /\ IsVerified(prog.config) /\ HasLoaded
  BY <1>2, WhileServing
<1>4. /\ w \in Settings /\ w.role = "controller" /\ w.token = prog.config.token
      /\ w.url = prog.config.url
  <2>1. w \in Settings
    BY <1>1, RequestTypes
  <2> QED
    BY <1>1, <1>3, <2>1 DEF ServiceInv, DiskHasIdentity
<1>5. Edited(r, NoRequest)
  BY <1>1, <1>2 DEF Edited, NoRequest, ServiceTypeOK
<1> HIDE DEF w
<1>6. /\ ServiceTypeOK'
      /\ request'[r] = NoRequest /\ \A s \in Request : s # r => request'[s] = request[s]
      /\ RequestsAreServed' /\ RevisionsOK' /\ UpdateIsInstalled' /\ GuardOutlasted'
  BY <1>1, <1>2, <1>3, <1>4, <1>5, EditedFrame DEF Serving
<1>7. SetupInv' /\ Serving' /\ HasLoaded'
  <2>1. IsVerified(file')
    BY <1>1, <1>3, <1>4 DEF IsVerified
  <2> QED
    BY <1>1, <1>2, <1>3, <1>4, <2>1, SetupWhileServing DEF Serving
<1>8. /\ ~Writing(r)' /\ ~Changing(r) /\ ~Changing(r)'
      /\ \A s \in Request : s # r => (Writing(s)' <=> Writing(s)) /\ (Changing(s)' <=> Changing(s))
  BY <1>1, <1>6 DEF Writing, Changing, Verb, NoRequest
<1>9. DiskHasIdentity'
  <2>1. ASSUME NEW s \in Request, Writing(s)' PROVE Writing(s) /\ request'[s] = request[s]
    BY <1>6, <1>8, <2>1
  <2>2. ~beside' => ~ScriptHasOpen'
    BY <1>1, <1>3 DEF ServiceInv, DiskHasIdentity, ScriptHasOpen
  <2> QED
    BY <1>1, <1>3, <1>4, <2>1, <2>2 DEF ServiceInv, DiskHasIdentity
<1>10. DiskHasEdits'
  <2> SUFFICES ASSUME ~overlapped, ~beside, \A s \in Request : ~Changing(s)'
               PROVE  /\ \A s \in Request : Writing(s)' =>
                           /\ request'[s].written.port = prog.config.port
                           /\ request'[s].written.fds = prog.config.fds
                      /\ PortOf(file') = prog.config.port /\ file'.fds = prog.config.fds
    BY <1>1 DEF DiskHasEdits
  <2>1. \A s \in Request : ~Changing(s)
    BY <1>8
  <2>2. \A s \in Request : Writing(s) =>
          request[s].written.port = prog.config.port /\ request[s].written.fds = prog.config.fds
    BY <1>3, <2>1 DEF ServiceInv, DiskHasEdits
  <2>3. w.port = prog.config.port /\ w.fds = prog.config.fds
    BY <1>1, <2>2 DEF w
  <2>4. PortOf(w) = w.port
    BY <1>3, <2>3 DEF PortOf
  <2> QED
    BY <1>1, <1>6, <1>8, <2>2, <2>3, <2>4
<1> QED
  BY <1>6, <1>7, <1>9, <1>10 DEF ServiceInv

\* Somebody pushes.
LEMMA PublishInv ==
  ASSUME ServiceTypeOK, ServiceInv, Publish
  PROVE  ServiceTypeOK' /\ ServiceInv'
<1>1. /\ rev' = [rev EXCEPT !.published = @ + 1] /\ rev.published < MaxRevision
      /\ UNCHANGED <<setup, slot, request, unit_job, history>>
  BY DEF Publish
<1>2. /\ rev' \in [published : 0..MaxRevision, checkout : 0..MaxRevision,
                   installed : 0..MaxRevision]
      /\ rev'.checkout = rev.checkout /\ rev'.installed = rev.installed
      /\ rev.installed <= rev.checkout /\ rev'.checkout <= rev'.published
  BY <1>1, ServiceAssumption DEF ServiceTypeOK, ServiceInv, RevisionsOK
<1>3. ServiceTypeOK'
  BY <1>1, <1>2 DEF ServiceTypeOK, SetupTypeOK, SlotTypeOK, setup, history
<1>4. RevisionsOK' /\ UpdateIsInstalled'
  BY <1>1, <1>2 DEF ServiceInv, RevisionsOK, UpdateIsInstalled, Verb
<1>5. SetupInv' /\ RequestsAreServed'
  BY <1>1 DEF ServiceInv, SetupInv, SavedPairingVerified, ProgramOK, ScriptOK,
              ScriptHasOpen, HasLoaded, Serving, IsVerified, RequestsAreServed, setup
<1>6. DiskHasIdentity' /\ DiskHasEdits' /\ GuardOutlasted'
  BY <1>1 DEF ServiceInv, DiskHasIdentity, DiskHasEdits, GuardOutlasted, HasLoaded, Writing,
              Changing, ScriptHasOpen, Verb, Waits, RunIsTracked, setup, history
<1> QED
  BY <1>3, <1>4, <1>5, <1>6 DEF ServiceInv

-----------------------------------------------------------------------------
(* The specification *)

\* Which of its starts a start is
LEMMA StartsAre ==
  ASSUME ServiceTypeOK, StartsByHand \/ StartsAtBoot \/ SystemdStarts
  PROVE  /\ UNCHANGED <<slot, request, rev, begun_over>>
         /\ unit_job' \in {unit_job, NoUnitJob}
         /\ \E tty, controller \in BOOLEAN : StartsUp(tty, controller)
         /\ StartsAtBoot \/ SystemdStarts => StartsUp(FALSE, FALSE)
<1>1. CASE StartsByHand
  <2>1. PICK controller \in BOOLEAN : StartsUp(TRUE, controller)
    BY <1>1 DEF StartsByHand
  <2> QED
    BY <1>1, <2>1 DEF StartsByHand, StartsAtBoot, SystemdStarts, NoUnitJob
<1>2. CASE StartsAtBoot \/ SystemdStarts
  <2>1. StartsUp(FALSE, FALSE)
    BY <1>2 DEF StartsAtBoot, SystemdStarts
  <2> QED
    BY <1>2, <2>1 DEF StartsAtBoot, SystemdStarts
<1> QED
  BY <1>1, <1>2

LEMMA ServiceInitially == Init => ServiceTypeOK /\ ServiceInv
<1> SUFFICES ASSUME Init PROVE ServiceTypeOK /\ ServiceInv
  OBVIOUS
<1>1. /\ file \in {NoFile, Empty} /\ agent_file = NoFile /\ prog = Down
      /\ accepts \in [Controller -> Issued] /\ verified = {}
      /\ request = [r \in Request |-> NoRequest] /\ unit_job = NoUnitJob
      /\ rev = [published |-> 0, checkout |-> 0, installed |-> 0]
      /\ begun_over = {} /\ overlapped = FALSE /\ beside = FALSE /\ script = NoScript
  BY DEF Init, SetupInit
<1>2. SetupTypeOK
  BY <1>1, EmptySettings, DownProgram DEF SetupTypeOK, Program
<1>3. SlotTypeOK
  BY DEF Init, SlotInit, SlotTypeOK
<1>4. ServiceTypeOK
  <2>1. request \in [Request -> Requests \union {NoRequest}]
    BY <1>1
  <2>2. rev \in [published : 0..MaxRevision, checkout : 0..MaxRevision,
                installed : 0..MaxRevision]
    BY <1>1, ServiceAssumption
  <2>3. /\ unit_job \in UnitJobs \union {NoUnitJob} /\ begun_over \subseteq Request
        /\ overlapped \in BOOLEAN /\ beside \in BOOLEAN
    BY <1>1
  <2> QED
    BY <1>2, <1>3, <2>1, <2>2, <2>3 DEF ServiceTypeOK
<1>5. \A r \in Request : request[r] = NoRequest /\ Verb(r) = "none"
  BY <1>1 DEF NoRequest, Verb
<1>6. prog.phase = "down"
  BY <1>1, DownProgram
<1>7. SetupInv
  BY <1>1, <1>6, EmptySettings DEF SetupInv, SavedPairingVerified, ProgramOK, ScriptOK, ScriptHasOpen,
                                   NoScript, HasLoaded, Serving
<1>8. RequestsAreServed /\ RevisionsOK /\ UpdateIsInstalled
  BY <1>1, <1>5 DEF RequestsAreServed, RevisionsOK, UpdateIsInstalled, NoUnitJob
<1>9. DiskHasIdentity /\ DiskHasEdits
  BY <1>6 DEF DiskHasIdentity, DiskHasEdits, HasLoaded
<1>10. GuardOutlasted
  BY <1>1, <1>5 DEF GuardOutlasted, Waits, NoUnitJob
<1> QED
  BY <1>4, <1>7, <1>8, <1>9, <1>10 DEF ServiceInv

\* A request's step is one of four kinds.
LEMMA RequestStepInv ==
  ASSUME ServiceTypeOK, ServiceInv, RequestStep
  PROVE  ServiceTypeOK' /\ ServiceInv'
<1>1. PICK r \in Request :
        \/ WebAsks(r) \/ TrayAsks(r) \/ Acts(r) \/ Fails(r)
        \/ UpdatePulls(r) \/ UpdateInstalls(r) \/ UpdateRestarts(r)
        \/ \E fields \in Payloads : EditAsks(r, fields)
        \/ \E field \in Fields : EditSets(r, field[1], field[2])
        \/ SaveOpens(r) \/ SaveDumps(r)
  BY DEF RequestStep
<1>2. CASE WebAsks(r) \/ TrayAsks(r)
  <2>1. PICK verb \in {"restart", "stop", "update"}, force \in BOOLEAN : Asks(r, verb, force)
    BY <1>2 DEF WebAsks, TrayAsks
  <2> QED
    BY <2>1, AsksInv
<1>3. CASE Acts(r) \/ Fails(r)
  BY <1>3, ActsInv
<1>4. CASE UpdatePulls(r) \/ UpdateInstalls(r)
  BY <1>4, UpdateStepInv
<1>5. CASE UpdateRestarts(r)
  BY <1>5, UpdateRestartsInv
<1>6. CASE \/ \E fields \in Payloads : EditAsks(r, fields)
           \/ \E field \in Fields : EditSets(r, field[1], field[2])
  BY <1>6, EditAsksInv, EditSetsInv
<1>7. CASE SaveOpens(r)
  BY <1>7, SaveOpensInv
<1>8. CASE SaveDumps(r)
  BY <1>8, SaveDumpsInv
<1> QED
  BY <1>1, <1>2, <1>3, <1>4, <1>5, <1>6, <1>7, <1>8

LEMMA ServiceStep ==
  ASSUME ServiceTypeOK, ServiceInv, [Next]_vars
  PROVE  ServiceTypeOK' /\ ServiceInv'
<1>1. CASE StartsByHand \/ StartsAtBoot \/ SystemdStarts
  BY <1>1, StartsAre, StartsUpInv
<1>2. CASE SetsUp
  BY <1>2, SetsUpInv
<1>3. CASE SystemdStops \/ Crashes
  BY <1>3, EndsInv
<1>4. CASE RunsGoOn
  BY <1>4, RunsGoOnInv
<1>5. CASE RequestStep
  BY <1>5, RequestStepInv
<1>6. CASE Publish
  BY <1>6, PublishInv
<1>7. CASE UNCHANGED vars
  <2>1. UNCHANGED <<file, agent_file, prog, script, accepts, verified, slot, request, unit_job,
                    rev, begun_over, overlapped, beside>>
    BY <1>7 DEF vars, setup, history
  <2>2. ServiceTypeOK'
    BY <2>1 DEF ServiceTypeOK, SetupTypeOK, SlotTypeOK
  <2>3. SetupInv' /\ RequestsAreServed' /\ RevisionsOK' /\ UpdateIsInstalled'
    BY <2>1 DEF ServiceInv, SetupInv, SavedPairingVerified, ProgramOK, ScriptOK,
                ScriptHasOpen, HasLoaded, Serving, IsVerified, RequestsAreServed, RevisionsOK,
                UpdateIsInstalled, Verb
  <2>4. DiskHasIdentity' /\ DiskHasEdits' /\ GuardOutlasted'
    BY <2>1 DEF ServiceInv, DiskHasIdentity, DiskHasEdits, GuardOutlasted, HasLoaded, Writing,
                Changing, ScriptHasOpen, Verb, Waits, RunIsTracked
  <2> QED
    BY <2>2, <2>3, <2>4 DEF ServiceInv
<1> QED
  BY <1>1, <1>2, <1>3, <1>4, <1>5, <1>6, <1>7 DEF Next

\* The types of the state, and the invariant all that follows rests on.
THEOREM ServiceCorrect == Spec => [](ServiceTypeOK /\ ServiceInv)
<1>1. Init => ServiceTypeOK /\ ServiceInv
  BY ServiceInitially
<1>2. (ServiceTypeOK /\ ServiceInv) /\ [Next]_vars => (ServiceTypeOK /\ ServiceInv)'
  BY ServiceStep
<1> QED
  BY <1>1, <1>2, PTL DEF Spec

\* SavedPairingVerified: a pairing in config.yaml or agent-config.yaml is one its
\* controller accepted (cli.py, _pair_with_controller), for any number of starts,
\* refusals, addresses and edits in between.
THEOREM SavedPairingHolds == Spec => []SavedPairingVerified
BY ServiceCorrect, PTL DEF ServiceInv, SetupInv

\* UpdateIsInstalled: a restart that an update queued finds what that update
\* pulled, checked out and installed (routes_service.py, update), for any number
\* of requests and revisions.
THEOREM UpdateIsInstalledHolds == Spec => []UpdateIsInstalled
BY ServiceCorrect, PTL DEF ServiceInv

\* EditIsSaved: once the edits are answered, the file holds what the form shows
\* (config.py, save_config), unless a save was overtaken by one with other
\* contents or the script had the file open beside the process.
THEOREM EditIsSavedHolds == Spec => []EditIsSaved
<1>1. ASSUME ServiceInv, Serving, Edits = {}, ~overlapped, ~beside
      PROVE  PortOf(file) = prog.config.port /\ file.fds = prog.config.fds
  <2>1. \A r \in Request : ~Writing(r) /\ ~Changing(r)
    BY <1>1 DEF Edits, Writing, Changing
  <2> QED
    BY <1>1, <2>1 DEF ServiceInv, DiskHasEdits, HasLoaded, Serving
<1>2. ServiceInv => EditIsSaved
  BY <1>1 DEF EditIsSaved
<1> QED
  BY <1>2, ServiceCorrect, PTL

\* UnconfirmedSparesRuns: a stop of the process that ends a tracked run was
\* forced or asked for before the run was tracked (guard_running_job).
THEOREM UnconfirmedSparesHolds == Spec => UnconfirmedSparesRuns
<1>1. ASSUME ServiceTypeOK, ServiceInv, RunIsTracked, SystemdStops
      PROVE  unit_job.force \/ unit_job.by \in begun_over
  <2>1. unit_job.verb \in {"restart", "stop"}
    BY <1>1 DEF SystemdStops
  <2>2. unit_job.by \in Request
    BY <1>1, <2>1 DEF ServiceTypeOK, UnitJobs, NoUnitJob
  <2> QED
    BY <1>1, <2>1, <2>2 DEF ServiceInv, GuardOutlasted, Waits
<1>2. ServiceTypeOK /\ ServiceInv =>
        [RunIsTracked /\ SystemdStops => unit_job.force \/ unit_job.by \in begun_over]_vars
  BY <1>1
<1> QED
  BY <1>2, ServiceCorrect, PTL DEF UnconfirmedSparesRuns

\* UnattendedServes: started by systemd, a machine serves unless it is another
\* controller's node or has a null for its port (cli.py, _decide_role).
THEOREM UnattendedServesHolds == Spec => UnattendedServes
<1>1. ASSUME ServiceTypeOK, ServiceInv, StartsAtBoot \/ SystemdStarts
      PROVE  prog'.phase = "serving" \/ file'.role = "agent" \/ file'.port = "null"
  <2>1. Start(FALSE, FALSE)
    BY <1>1, StartsAre DEF StartsUp
  <2>2. SetupTypeOK /\ SetupInv
    BY <1>1 DEF ServiceTypeOK, ServiceInv
  <2>3. ~FALSE /\ ~FALSE => Serving' \/ file'.role = "agent" \/ file'.port = "null"
    BY <2>1, <2>2, StartLeaves
  <2> QED
    BY <2>3 DEF Serving
<1>2. ServiceTypeOK /\ ServiceInv =>
        [StartsAtBoot \/ SystemdStarts =>
           prog'.phase = "serving" \/ file'.role = "agent" \/ file'.port = "null"]_vars
  BY <1>1
<1> QED
  BY <1>2, ServiceCorrect, PTL DEF UnattendedServes

-----------------------------------------------------------------------------
(* The identity *)

\* Somebody has the file open; what is being written.
SomebodyWrites == ScriptHasOpen \/ \E r \in Request : Writing(r)
IsWritten(f) ==
  \/ \E r \in Request : Writing(r) /\ f = request[r].written
  \/ ScriptHasOpen /\ f = script.written

LEMMA ToComeIs ==
  /\ SomebodyWrites => \A f : f \in ToCome <=> IsWritten(f)
  /\ ~SomebodyWrites => \A f : f \in ToCome <=> f = file /\ f # NoFile
<1> DEFINE writing == {request[r].written : r \in {q \in Edits : HasOpen(q)}}
                        \union IF ScriptHasOpen THEN {script.written} ELSE {}
<1>1. \A f : f \in writing <=> IsWritten(f)
  BY DEF IsWritten, Writing, HasOpen, Edits
<1>2. writing = {} <=> ~SomebodyWrites
  BY DEF SomebodyWrites, Writing, HasOpen, Edits
<1>3. ToCome = IF writing = {} THEN {file} \ {NoFile} ELSE writing
  BY DEF ToCome
<1> QED
  BY <1>1, <1>2, <1>3

LEMMA ToComeWillBe ==
  /\ SomebodyWrites' => \A f : f \in ToCome' <=> IsWritten(f)'
  /\ ~SomebodyWrites' => \A f : f \in ToCome' <=> f = file' /\ f # NoFile
<1> DEFINE writing == ({request[r].written : r \in {q \in Edits : HasOpen(q)}}
                         \union IF ScriptHasOpen THEN {script.written} ELSE {})'
<1>1. \A f : f \in writing <=> IsWritten(f)'
  BY DEF IsWritten, Writing, HasOpen, Edits
<1>2. writing = {} <=> ~SomebodyWrites'
  BY DEF SomebodyWrites, Writing, HasOpen, Edits
<1>3. ToCome' = IF writing = {} THEN {file'} \ {NoFile} ELSE writing
  BY DEF ToCome
<1> QED
  BY <1>1, <1>2, <1>3

\* What IdentityIsKept says of a step, of the files to come
Kept ==
  /\ \/ (\E f \in ToCome' : f.role = "auto") => \E f \in ToCome : f.role = "auto"
     \/ DiesWriting /\ beside
  /\ \/ \A f \in ToCome : f.token = NoToken
     \/ \A f \in ToCome' : \E g \in ToCome : f.token = g.token
     \/ prog.phase = "pairing" /\ prog'.phase = "joining"
     \/ DiesWriting
     \/ beside /\ \E r \in Request : SaveOpens(r)

LEMMA KeptSays ==
  ASSUME Kept
  PROVE  /\ \/ "auto" \notin RolesToCome => "auto" \notin RolesToCome'
            \/ DiesWriting /\ beside
         /\ \/ TokensToCome \subseteq {NoToken}
            \/ TokensToCome' \subseteq TokensToCome
            \/ prog.phase = "pairing" /\ prog'.phase = "joining"
            \/ DiesWriting
            \/ beside /\ \E r \in Request : SaveOpens(r)
<1>1. /\ "auto" \in RolesToCome <=> \E f \in ToCome : f.role = "auto"
      /\ "auto" \in RolesToCome' <=> \E f \in ToCome' : f.role = "auto"
  BY DEF RolesToCome
<1>2. /\ TokensToCome = {f.token : f \in ToCome}
      /\ TokensToCome' = {f.token : f \in ToCome'}
  BY DEF TokensToCome
<1>3. (\A f \in ToCome : f.token = NoToken) => TokensToCome \subseteq {NoToken}
  BY <1>2
<1>4. (\A f \in ToCome' : \E g \in ToCome : f.token = g.token) => TokensToCome' \subseteq TokensToCome
  BY <1>2
<1> HIDE DEF DiesWriting
<1> QED
  BY <1>1, <1>3, <1>4 DEF Kept

\* Nothing new is to come.
LEMMA NothingNew ==
  ASSUME \A f : f \in ToCome' => f \in ToCome
  PROVE  Kept
BY DEF Kept

\* The same writers, and the same file if there is none: the same to come.
LEMMA SameWriters ==
  ASSUME UNCHANGED <<file, script>>,
         \A r \in Request : /\ Writing(r)' <=> Writing(r)
                            /\ Writing(r) => request'[r].written = request[r].written
  PROVE  Kept
<1>1. SomebodyWrites' <=> SomebodyWrites
  BY DEF SomebodyWrites, ScriptHasOpen
<1>2. \A f : IsWritten(f)' <=> IsWritten(f)
  BY DEF IsWritten, ScriptHasOpen
<1>3. \A f : f \in ToCome' => f \in ToCome
  BY <1>1, <1>2, ToComeIs, ToComeWillBe
<1> QED
  BY <1>3, NothingNew

\* The file is changed, but what writers there are will write over it.
LEMMA FileKept ==
  ASSUME UNCHANGED <<script, request>>, ToCome # {},
         file # NoFile =>
           /\ file.role # "auto" => file'.role # "auto"
           /\ file.token # NoToken /\ file'.token # file.token =>
                prog.phase = "pairing" /\ prog'.phase = "joining"
  PROVE  Kept
<1>1. \A r \in Request : Writing(r)' <=> Writing(r)
  BY DEF Writing, Verb
<1>2. SomebodyWrites' <=> SomebodyWrites
  BY <1>1 DEF SomebodyWrites, ScriptHasOpen
<1>3. CASE SomebodyWrites
  <2>1. \A f : IsWritten(f)' <=> IsWritten(f)
    BY <1>1 DEF IsWritten, ScriptHasOpen
  <2>2. \A f : f \in ToCome' => f \in ToCome
    BY <1>2, <1>3, <2>1, ToComeIs, ToComeWillBe
  <2> QED
    BY <2>2, NothingNew
<1>4. CASE ~SomebodyWrites
  <2>1. file # NoFile /\ file \in ToCome /\ \A f \in ToCome : f = file
    BY <1>4, ToComeIs
  <2>2. \A f \in ToCome' : f = file'
    BY <1>2, <1>4, ToComeWillBe
  <2> QED
    BY <2>1, <2>2 DEF Kept
<1> QED
  BY <1>3, <1>4

LEMMA StartsKeepIdentity ==
  ASSUME ServiceTypeOK, ServiceInv, StartsByHand \/ StartsAtBoot \/ SystemdStarts, ToCome # {}
  PROVE  Kept
<1>1. PICK tty, controller \in BOOLEAN : StartsUp(tty, controller)
  BY StartsAre
<1>2. SetupTypeOK /\ SetupInv /\ Start(tty, controller) /\ UNCHANGED <<request, script>>
  BY <1>1, StartsAre DEF StartsUp, Start, ServiceTypeOK, ServiceInv
<1>3. file # NoFile => /\ file.role # "auto" => file'.role # "auto"
                       /\ file.token # NoToken => file'.token = file.token
  BY <1>2, StartLeaves
<1> QED
  BY <1>2, <1>3, FileKept

\* The script reads, opens the file that it read, writes it, or is interrupted
\* with the file open.
LEMMA ScriptKeepsIdentity ==
  ASSUME ServiceTypeOK, ServiceInv, ToCome # {}, ~ScriptIsLate, UNCHANGED request,
         ScriptReads \/ ScriptOpens \/ ScriptWrites \/ ScriptDies
  PROVE  Kept
<1>1. \A r \in Request : Writing(r)' <=> Writing(r)
  BY DEF Writing, Verb
<1>2. CASE ScriptReads
  <2>1. UNCHANGED file /\ ~ScriptHasOpen /\ ~ScriptHasOpen'
    BY <1>2 DEF ScriptReads, ScriptHasOpen, NoScript
  <2>2. SomebodyWrites' <=> SomebodyWrites
    BY <1>1, <2>1 DEF SomebodyWrites
  <2>3. \A f : IsWritten(f)' <=> IsWritten(f)
    BY <1>1, <2>1 DEF IsWritten
  <2>4. \A f : f \in ToCome' => f \in ToCome
    BY <2>1, <2>2, <2>3, ToComeIs, ToComeWillBe
  <2> QED
    BY <2>4, NothingNew
<1>3. CASE ScriptOpens
  <2>1. /\ script.raw = file /\ ~ScriptHasOpen /\ \A r \in Request : ~Writing(r)
    BY <1>3 DEF ScriptIsLate, ScriptOpens, ScriptHasOpen, Writing, HasOpen, Edits
  <2>2. file # NoFile /\ file \in ToCome /\ \A f \in ToCome : f = file
    BY <2>1, ToComeIs DEF SomebodyWrites
  <2>3. PICK port \in Ports \union {"none"}, found \in Binaries :
          script' = [stage |-> "opened", written |-> configure(script.raw, port, found)]
    BY <1>3 DEF ScriptOpens
  <2>4. ScriptHasOpen' /\ script'.written = configure(file, port, found)
    BY <2>1, <2>3 DEF ScriptHasOpen
  <2>5. script'.written.role = file.role /\ script'.written.token = file.token
    BY <2>2, <2>4, ConfigureKeeps DEF ServiceTypeOK, SetupTypeOK
  <2>6. \A f \in ToCome' : f = script'.written
    BY <1>1, <2>1, <2>4, ToComeWillBe DEF SomebodyWrites, IsWritten
  <2> QED
    BY <2>2, <2>5, <2>6 DEF Kept
<1>4. CASE ScriptWrites
  <2>1. ScriptHasOpen /\ ~ScriptHasOpen' /\ file' = script.written
    BY <1>4 DEF ScriptWrites, ScriptHasOpen, NoScript
  <2>2. \A f : f \in ToCome' => IsWritten(f)
    BY <1>1, <2>1, ToComeWillBe DEF SomebodyWrites, IsWritten
  <2>3. \A f : f \in ToCome' => f \in ToCome
    BY <2>1, <2>2, ToComeIs DEF SomebodyWrites
  <2> QED
    BY <2>3, NothingNew
<1>5. CASE ScriptDies
  <2>1. ~ScriptHasOpen' /\ UNCHANGED file
    BY <1>5 DEF ScriptDies, ScriptHasOpen, NoScript
  <2>2. CASE ~ScriptHasOpen
    <3>1. SomebodyWrites' <=> SomebodyWrites
      BY <1>1, <2>1, <2>2 DEF SomebodyWrites
    <3>2. \A f : IsWritten(f)' <=> IsWritten(f)
      BY <1>1, <2>1, <2>2 DEF IsWritten
    <3>3. \A f : f \in ToCome' => f \in ToCome
      BY <2>1, <3>1, <3>2, ToComeIs, ToComeWillBe
    <3> QED
      BY <3>3, NothingNew
  <2>3. CASE ScriptHasOpen
    <3>1. DiesWriting
      BY <1>5, <2>3 DEF DiesWriting
    <3>2. file.role # "auto"
      BY <2>3 DEF ServiceInv, SetupInv, ScriptOK
    <3>3. \A f \in ToCome' : IsWritten(f) \/ f = file
      BY <1>1, <2>1, ToComeWillBe DEF IsWritten
    <3>4. \A f \in ToCome' : f \in ToCome \/ f = file
      BY <2>3, <3>3, ToComeIs DEF SomebodyWrites
    <3> QED
      BY <3>1, <3>2, <3>4 DEF Kept
  <2> QED
    BY <2>2, <2>3
<1> QED
  BY <1>2, <1>3, <1>4, <1>5

LEMMA SetupKeepsIdentity ==
  ASSUME ServiceTypeOK, ServiceInv, SetsUp, ToCome # {}, ~ScriptIsLate
  PROVE  Kept
<1>1. SetupTypeOK /\ SetupInv /\ SetupStep /\ request' = request
  BY DEF ServiceTypeOK, ServiceInv, SetsUp
<1>2. CASE KeepsFile
  BY <1>1, <1>2, FileKept DEF KeepsFile
<1>3. CASE ScriptReads \/ ScriptOpens \/ ScriptWrites \/ ScriptDies
  BY <1>1, <1>3, ScriptKeepsIdentity
<1> QED
  BY <1>1, <1>2, <1>3, SetupStepInv

\* The process is gone: with the file open, or the file is what it was.
LEMMA EndsKeepIdentity ==
  ASSUME ServiceInv, SystemdStops \/ Crashes
  PROVE  Kept
<1>1. ProcessEnds /\ Serving
  BY DEF SystemdStops, Crashes
<1>2. UNCHANGED <<file, script>> /\ prog' = Down /\ \A r \in Request : ~Writing(r)'
  BY <1>1 DEF ProcessEnds, Writing, Verb, NoRequest
<1>3. CASE \A r \in Request : ~Writing(r)
  BY <1>2, <1>3, SameWriters
<1>4. CASE \E r \in Request : Writing(r)
  <2>1. DiesWriting
    BY <1>2, <1>4 DEF DiesWriting, Writing, HasOpen, Edits
  <2>2. ~beside => ~ScriptHasOpen /\ file.role # "auto"
    BY <1>1, <1>4 DEF ServiceInv, DiskHasIdentity, HasLoaded, Serving
  <2>3. ~beside => \A f \in ToCome' : f = file
    BY <1>2, <2>2, ToComeWillBe DEF SomebodyWrites, ScriptHasOpen
  <2> QED
    BY <2>1, <2>2, <2>3 DEF Kept
<1> QED
  BY <1>3, <1>4

\* A save opens the file, for the identity in memory.
LEMMA SaveOpensKeepsIdentity ==
  ASSUME ServiceTypeOK, ServiceInv, NEW r \in Request, SaveOpens(r), ToCome # {}
  PROVE  Kept
<1>1. /\ Verb(r) = "edit" /\ UNCHANGED <<prog, script>>
      /\ request' = [request EXCEPT ![r] = [verb |-> "edit", stage |-> "opened",
                                            written |-> prog.config]]
  BY DEF SaveOpens, Opens, Edits
<1>2. prog.config.role = "controller" /\ HasLoaded
  <2>1. Serving
    BY <1>1 DEF ServiceInv, RequestsAreServed, Verb, NoRequest
  <2> QED
    BY <2>1, WhileServing
<1>3. \A s \in Request : Writing(s)' =>
        \/ request'[s].written = prog.config
        \/ Writing(s) /\ request'[s].written = request[s].written
  BY <1>1 DEF Writing, Verb, ServiceTypeOK
<1>4. Writing(r)'
  BY <1>1 DEF Writing, Verb, ServiceTypeOK
<1>5. \A f \in ToCome' : f = prog.config \/ (SomebodyWrites /\ IsWritten(f))
  BY <1>1, <1>3, <1>4, ToComeWillBe DEF SomebodyWrites, IsWritten, ScriptHasOpen
<1>6. \A f \in ToCome' : f = prog.config \/ f \in ToCome
  BY <1>5, ToComeIs
<1>7. ASSUME ~beside PROVE \E g \in ToCome : g.token = prog.config.token
  <2>1. /\ ~ScriptHasOpen
        /\ \A s \in Request : Writing(s) => request[s].written.token = prog.config.token
        /\ (\A s \in Request : ~Writing(s)) => file.token = prog.config.token
    BY <1>2, <1>7 DEF ServiceInv, DiskHasIdentity
  <2>2. PICK g \in ToCome : TRUE
    OBVIOUS
  <2>3. g.token = prog.config.token
    BY <2>1, <2>2, ToComeIs DEF SomebodyWrites, IsWritten
  <2> QED
    BY <2>3
<1> QED
  BY <1>2, <1>6, <1>7 DEF Kept

\* It writes what was to come.
LEMMA SaveDumpsKeepsIdentity ==
  ASSUME ServiceTypeOK, NEW r \in Request, SaveDumps(r)
  PROVE  Kept
<1>1. /\ Writing(r) /\ file' = request[r].written /\ UNCHANGED script
      /\ request' = [request EXCEPT ![r] = NoRequest]
  BY DEF SaveDumps, HasOpen, Edits, Writing, Verb, Done
<1>2. \A s \in Request : Writing(s)' => Writing(s) /\ request'[s].written = request[s].written
  BY <1>1 DEF Writing, Verb, NoRequest, ServiceTypeOK
<1>3. \A f \in ToCome' : IsWritten(f)
  BY <1>1, <1>2, ToComeWillBe DEF IsWritten, ScriptHasOpen
<1>4. \A f : f \in ToCome' => f \in ToCome
  BY <1>1, <1>3, ToComeIs DEF SomebodyWrites
<1> QED
  BY <1>4, NothingNew

LEMMA RequestsKeepIdentity ==
  ASSUME ServiceTypeOK, ServiceInv, RequestStep, ToCome # {}
  PROVE  Kept
<1>1. PICK r \in Request :
        \/ WebAsks(r) \/ TrayAsks(r) \/ Acts(r) \/ Fails(r)
        \/ UpdatePulls(r) \/ UpdateInstalls(r) \/ UpdateRestarts(r)
        \/ \E fields \in Payloads : EditAsks(r, fields)
        \/ \E field \in Fields : EditSets(r, field[1], field[2])
        \/ SaveOpens(r) \/ SaveDumps(r)
  BY DEF RequestStep
<1>2. ASSUME UNCHANGED <<file, script>>, ~Writing(r),
             NEW q, request' = [request EXCEPT ![r] = q],
             q.verb = "edit" => q.stage # "opened"
      PROVE  Kept
  <2>1. request'[r] = q /\ \A s \in Request : s # r => request'[s] = request[s]
    BY <1>2 DEF ServiceTypeOK
  <2>2. \A s \in Request : /\ Writing(s)' <=> Writing(s)
                           /\ Writing(s) => request'[s].written = request[s].written
    BY <1>2, <2>1 DEF Writing, Verb
  <2> QED
    BY <1>2, <2>2, SameWriters
<1>3. CASE WebAsks(r) \/ TrayAsks(r)
  <2>1. PICK verb \in {"restart", "stop", "update"}, force \in BOOLEAN : Asks(r, verb, force)
    BY <1>3 DEF WebAsks, TrayAsks
  <2>2. /\ UNCHANGED <<file, script>> /\ ~Writing(r)
        /\ request' = [request EXCEPT ![r] = Asked(verb, force)]
    BY <2>1 DEF Asks, setup, Writing, Verb, NoRequest
  <2>3. Asked(verb, force).verb # "edit"
    BY DEF Asked
  <2> QED
    BY <1>2, <2>2, <2>3
<1>4. CASE \/ Acts(r) \/ Fails(r) \/ UpdateRestarts(r)
  <2>1. UNCHANGED <<file, script>> /\ ~Writing(r) /\ request' = [request EXCEPT ![r] = NoRequest]
    BY <1>4 DEF Acts, Fails, UpdateRestarts, Stage, setup, Writing, Done
  <2>2. NoRequest.verb # "edit"
    BY DEF NoRequest
  <2> QED
    BY <1>2, <2>1, <2>2
<1>5. CASE UpdatePulls(r) \/ UpdateInstalls(r)
  <2>1. UNCHANGED <<file, script>> /\ ~Writing(r)
    BY <1>5 DEF UpdatePulls, UpdateInstalls, Stage, setup, Writing
  <2>2. PICK q \in Requests : request' = [request EXCEPT ![r] = q] /\ q.verb = "update"
    BY <1>5, UpdateBecomes
  <2> QED
    BY <1>2, <2>1, <2>2
<1>6. ASSUME NEW fields \in Payloads, EditAsks(r, fields) PROVE Kept
  <2>1. /\ UNCHANGED <<file, script>> /\ ~Writing(r)
        /\ request' = [request EXCEPT ![r] =
             [verb |-> "edit", stage |-> "setting", left |-> fields, changed |-> FALSE]]
    BY <1>6 DEF EditAsks, setup, Writing, Verb, NoRequest
  <2> QED
    BY <1>2, <2>1
<1>7. ASSUME NEW field \in Fields, EditSets(r, field[1], field[2]) PROVE Kept
  <2>1. UNCHANGED <<file, script>>
    BY <1>7, EditSetsLeaves
  <2>2. ~Writing(r)
    BY <1>7 DEF EditSets, Writing
  <2>3. PICK q \in Requests \union {NoRequest} :
          /\ request' = [request EXCEPT ![r] = q]
          /\ q = NoRequest \/ (q.verb = "edit" /\ q.stage = "setting")
    BY <1>7, EditSetsLeaves
  <2>4. q.verb = "edit" => q.stage # "opened"
    BY <2>3 DEF NoRequest
  <2> QED
    BY <1>2, <2>1, <2>2, <2>3, <2>4
<1> QED
  BY <1>1, <1>3, <1>4, <1>5, <1>6, <1>7, SaveOpensKeepsIdentity, SaveDumpsKeepsIdentity

\* IdentityIsKept: the role that was decided and the token that others copied
\* stay, from installer to crash, but for a pairing, whoever dies with the file
\* open, a script that is late and a save after the script was beside it
\* (config.py, save_config; cli.py, _persist_role; scripts/configure.py).
THEOREM IdentityIsKeptHolds == Spec => IdentityIsKept
<1>1. ASSUME ServiceTypeOK, ServiceInv, Next, ToCome # {}, ~ScriptIsLate
      PROVE  Kept
  <2>1. CASE StartsByHand \/ StartsAtBoot \/ SystemdStarts
    BY <1>1, <2>1, StartsKeepIdentity
  <2>2. CASE SetsUp
    BY <1>1, <2>2, SetupKeepsIdentity
  <2>3. CASE SystemdStops \/ Crashes
    BY <1>1, <2>3, EndsKeepIdentity
  <2>4. CASE RunsGoOn \/ Publish
    BY <2>4, SameWriters DEF RunsGoOn, Publish, setup, Writing, Verb
  <2>5. CASE RequestStep
    BY <1>1, <2>5, RequestsKeepIdentity
  <2> QED
    BY <1>1, <2>1, <2>2, <2>3, <2>4, <2>5 DEF Next
<1>2. ASSUME ServiceTypeOK, ServiceInv, [Next]_vars
      PROVE  [ToCome # {} /\ ~ScriptIsLate =>
                /\ \/ "auto" \notin RolesToCome => "auto" \notin RolesToCome'
                   \/ DiesWriting /\ beside
                /\ \/ TokensToCome \subseteq {NoToken}
                   \/ TokensToCome' \subseteq TokensToCome
                   \/ prog.phase = "pairing" /\ prog'.phase = "joining"
                   \/ DiesWriting
                   \/ beside /\ \E r \in Edits : SaveOpens(r)]_vars
  <2>1. ASSUME Next, ToCome # {}, ~ScriptIsLate
        PROVE  /\ \/ "auto" \notin RolesToCome => "auto" \notin RolesToCome'
                  \/ DiesWriting /\ beside
               /\ \/ TokensToCome \subseteq {NoToken}
                  \/ TokensToCome' \subseteq TokensToCome
                  \/ prog.phase = "pairing" /\ prog'.phase = "joining"
                  \/ DiesWriting
                  \/ beside /\ \E r \in Request : SaveOpens(r)
    BY <1>1, <1>2, <2>1, KeptSays
  <2>2. \A r \in Request : SaveOpens(r) => r \in Edits
    BY DEF SaveOpens, Opens
  <2> QED
    BY <1>2, <2>1, <2>2
<1> QED
  BY <1>2, ServiceCorrect, PTL DEF Spec, IdentityIsKept
=============================================================================
