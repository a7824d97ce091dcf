-------------------------------- MODULE Setup --------------------------------
(***************************************************************************)
(* One machine from its first start: `fdsrouter start` with its choice of a  *)
(* role, `fdsrouter agent`, discovery and pairing (src/fdsrouter/cli.py,     *)
(* core/discovery.py, the configuration of agent.py).                       *)
(*                                                                          *)
(* One fdsrouter process at a time runs in the project directory, and        *)
(* whatever it does, the installer's script may be run beside it.  What it   *)
(* asks the operator is answered in any way; where nobody is at a terminal   *)
(* input() raises and the process ends.  An action is what runs between two  *)
(* answers of the operator, of a controller or of the network.               *)
(***************************************************************************)
EXTENDS Config, Naturals

CONSTANTS
  Controller,  \* addresses of other machines' controllers that answer
  Localhost    \* the address an agent's configuration starts with

ASSUME SetupAssumption ==
  /\ Controller \subseteq Address
  /\ Localhost \in Address

VARIABLES
  file,       \* config.yaml
  agent_file, \* agent-config.yaml
  prog,       \* the process: what it does, its Config, tokens left to try
  script,     \* scripts/configure.py: what it read, what it will write
  accepts,    \* the cluster token of each controller
  verified    \* history: <<address, token>> a controller accepted in a pairing

setup == <<file, agent_file, prog, script, accepts, verified>>

MaxTries == 3

Down == [phase |-> "down", cmd |-> "start", tty |-> FALSE,
         config |-> Empty, tries |-> 0, found |-> {}]

Phases == {"down", "deciding", "pairing", "joining", "joined", "serving"}

NoScript == [stage |-> "idle"]

Scripts ==
  [stage : {"read"}, raw : Settings \union {NoFile}]
  \union [stage : {"opened"}, written : Settings]

Pairing == [token : Token \union {NoToken}, url : Address]

ASSUME NoPairingAssumption == NoFile \notin Pairing

SetupTypeOK ==
  /\ file \in Settings \union {NoFile}
  /\ agent_file \in Pairing \union {NoFile}
  /\ prog \in [phase : Phases, cmd : {"start", "agent"}, tty : BOOLEAN,
               config : Settings, tries : 0..MaxTries, found : SUBSET Controller]
  /\ script \in Scripts \union {NoScript}
  /\ accepts \in [Controller -> Issued]
  /\ verified \subseteq Address \X Token

\* Nothing was ever started here; a file may be there from a version without
\* cluster, or from the installer.
SetupInit ==
  /\ file \in {NoFile, Empty}
  /\ agent_file = NoFile
  /\ prog = Down
  /\ script = NoScript
  /\ accepts \in [Controller -> Issued]
  /\ verified = {}

-----------------------------------------------------------------------------
(* core/discovery.py: whoever is on the LAN and answers in time, or nobody *)

discover_controllers == SUBSET Controller

-----------------------------------------------------------------------------
(* What the process does next, as functions of its Config *)

Runs(phase, cmd, tty, c) ==
  [Down EXCEPT !.phase = phase, !.cmd = cmd, !.tty = tty, !.config = c]

\* The address a pairing starts with: given, chosen from the list, typed in,
\* or left as it is.  Nothing typed in and nothing there: the request raises.
pairing_address(c, given, found) ==
  IF given THEN {c.url}
  ELSE (IF found = {} THEN {c.url} ELSE found) \union Address

\* _pair_with_controller up to its question for the token
pair_with_controller(cmd, tty, c, given) ==
  IF ~tty THEN {Down}
  ELSE {IF u = NoUrl THEN Down
        ELSE [Runs("pairing", cmd, tty, [c EXCEPT !.url = u]) EXCEPT !.tries = MaxTries] :
          u \in UNION {pairing_address(c, given, found) : found \in discover_controllers}}

\* _run_as_agent: pairing is skipped where there is a token and an address.
run_as_agent(tty, c) ==
  IF c.token = NoToken \/ c.url = NoUrl
  THEN pair_with_controller("start", tty, c, c.url # NoUrl)
  ELSE {Runs("joining", "start", tty, c)}

run_as_controller(tty, c) == Runs("serving", "start", tty, c)

-----------------------------------------------------------------------------
(* The commands *)

\* scripts/configure.py, run by install.sh or by hand, whatever runs: it reads
\* the file, which a save may just have emptied, ...
ScriptReads ==
  /\ script = NoScript
  /\ script' = [stage |-> "read", raw |-> file]
  /\ UNCHANGED <<file, agent_file, prog, accepts, verified>>

ScriptHasOpen == script.stage = "opened"

\* ... opens it, and so empties it, to write what it has made of it ...
ScriptOpens ==
  /\ script.stage = "read"
  /\ \E port \in Ports \union {"none"}, found \in Binaries :
       script' = [stage |-> "opened", written |-> configure(script.raw, port, found)]
  /\ file' = Empty
  /\ UNCHANGED <<agent_file, prog, accepts, verified>>

\* ... and writes it.
ScriptWrites ==
  /\ ScriptHasOpen
  /\ file' = script.written
  /\ script' = NoScript
  /\ UNCHANGED <<agent_file, prog, accepts, verified>>

\* Interrupted or killed
ScriptDies ==
  /\ script # NoScript
  /\ script' = NoScript
  /\ UNCHANGED <<file, agent_file, prog, accepts, verified>>

\* "role can also be set there directly to skip the question": an editor that
\* replaces the file.
HandWritesRole ==
  /\ file # NoFile
  /\ \E role \in {"controller", "agent"} : file' = [file EXCEPT !.role = role]
  /\ UNCHANGED <<agent_file, prog, script, accepts, verified>>

\* Mutant: the question is put whether or not anyone is there.
decide_role_anyway(tty, f, c) ==
  {<<persist_role(f, "controller", NoUrl, NoToken),
     run_as_controller(tty, [c EXCEPT !.role = "controller"])>>}
  \union {<<f, [Runs("deciding", "start", tty, c) EXCEPT !.found = found]>> :
            found \in discover_controllers \ {{}}}

\* _decide_role up to its question: the file it leaves and what comes next.
decide_role(tty, f, c) ==
  {<<persist_role(f, "controller", NoUrl, NoToken),
     run_as_controller(tty, [c EXCEPT !.role = "controller"])>>}
  \union {<<f, [Runs("deciding", "start", tty, c) EXCEPT !.found = found]>> :
            found \in IF tty THEN discover_controllers \ {{}} ELSE {}}

\* fdsrouter start [--controller], at a terminal or not.  A port that is null
\* ends it once the file is healed.
Start(tty, controller) ==
  /\ prog.phase = "down"
  /\ \E f \in load_config(file) :
       LET c == IF controller THEN [Loaded(f) EXCEPT !.role = "controller"] ELSE Loaded(f) IN
       \/ /\ ~IsReadable(f)
          /\ file' = f /\ prog' = Down
       \/ /\ IsReadable(f) /\ c.role = "auto"
          /\ \E d \in decide_role(tty, f, c) : file' = d[1] /\ prog' = d[2]
       \/ /\ IsReadable(f) /\ c.role = "agent"
          /\ file' = f /\ prog' \in run_as_agent(tty, c)
       \/ /\ IsReadable(f) /\ c.role = "controller"
          /\ file' = f /\ prog' = run_as_controller(tty, c)
  /\ UNCHANGED <<agent_file, script, accepts, verified>>

\* The rest of _decide_role: own controller, or one of those found.
Decide ==
  /\ prog.phase = "deciding"
  /\ \/ /\ file' = persist_role(file, "controller", NoUrl, NoToken)
        /\ prog' = run_as_controller(TRUE, [prog.config EXCEPT !.role = "controller"])
     \/ /\ \E u \in prog.found :
             prog' \in run_as_agent(TRUE, [prog.config EXCEPT !.role = "agent", !.url = u])
        /\ UNCHANGED file
  /\ UNCHANGED <<agent_file, script, accepts, verified>>

\* fdsrouter agent [--controller-url] [--pair]
AgentCommand(tty, pair, given) ==
  /\ prog.phase = "down"
  /\ LET a == IF agent_file = NoFile THEN [token |-> NoToken, url |-> Localhost] ELSE agent_file
         c == [Empty EXCEPT !.role = "agent", !.token = a.token,
                            !.url = IF given = NoUrl THEN a.url ELSE given] IN
     /\ agent_file' = a
     /\ IF pair \/ c.token = NoToken
        THEN prog' \in pair_with_controller("agent", tty, c, given # NoUrl)
        ELSE prog' = Runs("joining", "agent", tty, c)
  /\ UNCHANGED <<file, script, accepts, verified>>

-----------------------------------------------------------------------------
(* Pairing: at most three tokens are tried against /api/agent/register *)

Accepted(address, token) == address \in Controller /\ accepts[address] = token

\* save_fn: each command writes the file of its own.
save_pairing(c) ==
  IF prog.cmd = "start"
  THEN /\ file' = persist_role(file, "agent", c.url, c.token)
       /\ UNCHANGED agent_file
  ELSE /\ agent_file' = [token |-> c.token, url |-> c.url]
       /\ UNCHANGED file

TokenAccepted(t) ==
  /\ prog.phase = "pairing"
  /\ Accepted(prog.config.url, t)
  /\ LET c == [prog.config EXCEPT !.token = t] IN
     /\ save_pairing(c)
     /\ prog' = Runs("joining", prog.cmd, prog.tty, c)
     /\ verified' = verified \union {<<c.url, t>>}
  /\ UNCHANGED <<script, accepts>>

\* Mutant: the last token that was tried is saved, accepted or not.
TokenRefused_saves_last(t) ==
  /\ prog.phase = "pairing"
  /\ ~Accepted(prog.config.url, t)
  /\ LET c == [prog.config EXCEPT !.token = t] IN
     IF prog.tries = 1
     THEN save_pairing(c) /\ prog' = Runs("joining", prog.cmd, prog.tty, c)
     ELSE /\ prog' = [prog EXCEPT !.tries = @ - 1]
          /\ UNCHANGED <<file, agent_file>>
  /\ UNCHANGED <<script, accepts, verified>>

\* Refused, not reachable, or nothing entered (then t does not matter).
TokenRefused(t) ==
  /\ prog.phase = "pairing"
  /\ ~Accepted(prog.config.url, t)
  /\ prog' = IF prog.tries = 1 THEN Down ELSE [prog EXCEPT !.tries = @ - 1]
  /\ UNCHANGED <<file, agent_file, script, accepts, verified>>

\* agent.run: a registration that fails ends the process.
Join ==
  /\ prog.phase = "joining"
  /\ prog' = IF Accepted(prog.config.url, prog.config.token)
             THEN [prog EXCEPT !.phase = "joined"]
             ELSE Down
  /\ UNCHANGED <<file, agent_file, script, accepts, verified>>

\* The process ends: interrupted, killed, or an error nobody catches, such as
\* an answer 500 to the pairing or a controller not reached by the agent.
Quit ==
  /\ prog.phase \in Phases \ {"down", "serving"}
  /\ prog' = Down
  /\ UNCHANGED <<file, agent_file, script, accepts, verified>>

\* A controller elsewhere gets another token (its file is edited or replaced).
TokenChanges(c) ==
  /\ \E t \in Issued : accepts' = [accepts EXCEPT ![c] = t]
  /\ UNCHANGED <<file, agent_file, prog, script, verified>>

\* All but Start: Service says when the machine's service is started.
SetupStep ==
  \/ ScriptReads \/ ScriptOpens \/ ScriptWrites \/ ScriptDies
  \/ HandWritesRole
  \/ Decide
  \/ \E tty, pair \in BOOLEAN, given \in Address \union {NoUrl} : AgentCommand(tty, pair, given)
  \/ \E t \in Token : TokenAccepted(t)
  \/ \E t \in Token : TokenRefused(t)
  \/ Join
  \/ Quit
  \/ \E c \in Controller : TokenChanges(c)

-----------------------------------------------------------------------------
(* Properties *)

\* A pairing on disk, in either file, is one that its controller accepted,
\* however often a setup is refused, aborted or repeated with other addresses
\* (cli.py: "verified against the real /api/agent/register endpoint before
\* it's saved").
SavedPairingVerified ==
  /\ file # NoFile /\ file.url # NoUrl => <<file.url, file.token>> \in verified
  /\ agent_file # NoFile /\ agent_file.token # NoToken =>
       <<agent_file.url, agent_file.token>> \in verified

\* A machine that joins a controller by `fdsrouter start` has been paired with
\* it ("Say yes and it just asks for the cluster token").
AgentIsPaired ==
  prog.phase = "joining" /\ prog.cmd = "start" =>
    <<prog.config.url, prog.config.token>> \in verified
=============================================================================
