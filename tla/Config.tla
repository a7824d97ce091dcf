-------------------------------- MODULE Config --------------------------------
(***************************************************************************)
(* config.yaml of a machine (src/fdsrouter/config.py) and the installer's    *)
(* script that writes it too (src/scripts/configure.py): what each reader    *)
(* and writer makes of the file.  Of the sixteen keys five are kept: the     *)
(* ones a decision reads (role, cluster_token, controller_url), for which a  *)
(* null is read as an absent key, and two of those the web interface edits:  *)
(* fds_binary, where null is "no binary", and port, where an absent key is   *)
(* the default and a null is an error to the process that reads it.          *)
(***************************************************************************)
CONSTANTS
  Minted,   \* tokens this machine may mint (secrets.token_urlsafe)
  Issued,   \* tokens of other controllers
  Address,  \* addresses a controller may be looked for at
  NoToken, NoUrl, NoFile

ASSUME ConfigAssumption ==
  /\ Minted \intersect Issued = {}
  /\ NoToken \notin Minted \union Issued
  /\ NoUrl \notin Address
  /\ Minted # {}

Token == Minted \union Issued

Roles == {"auto", "controller", "agent"}
Ports == {"default", "other"}
Binaries == {"none", "here"}   \* a path where something is, or none such

Settings ==
  [role : Roles \union {"none"}, token : Token \union {NoToken},
   url : Address \union {NoUrl}, port : Ports \union {"null", "none"},
   fds : Binaries]

ASSUME NoFileAssumption == NoFile \notin Settings

\* A file with nothing in it: what open("w") leaves until the dump.
Empty == [role |-> "none", token |-> NoToken, url |-> NoUrl,
          port |-> "none", fds |-> "none"]

PortOf(f) == IF f.port = "none" THEN "default" ELSE f.port

\* What shutil.which finds goes in.
default_config ==
  [role : {"auto"}, token : Minted, url : {NoUrl}, port : {"default"}, fds : Binaries]

\* The file as it is after load_config, with the overrides it appends.
load_config(f) ==
  IF f = NoFile THEN default_config
  ELSE {[f EXCEPT !.token = IF @ = NoToken THEN t ELSE @,
                  !.role = IF @ = "none" THEN "controller" ELSE @] : t \in Minted}

\* ... and the Config it returns, where int(port) does not raise.
Loaded(f) == [f EXCEPT !.port = PortOf(f)]
IsReadable(f) == f.port # "null"

persist_role(f, role, url, token) ==
  [f EXCEPT !.role = role,
            !.url = IF url = NoUrl THEN @ ELSE url,
            !.token = IF token = NoToken THEN @ ELSE token]

\* Mutant: only the keys the script knows are written back.
configure_own_keys(raw, port, found) ==
  LET f == IF raw = NoFile THEN Empty ELSE raw IN
  [Empty EXCEPT !.fds = IF f.fds = "here" THEN "here" ELSE found,
                !.port = IF port = "none" THEN PortOf(f) ELSE port]

\* scripts/configure.py: keeps every value it read (a null as well) but a binary
\* that is not there, which it looks for, and the port it is told to set.
configure(raw, port, found) ==
  LET f == IF raw = NoFile THEN Empty ELSE raw IN
  [f EXCEPT !.fds = IF @ = "here" THEN @ ELSE found,
            !.port = IF port = "none" THEN PortOf(f) ELSE port]
=============================================================================
