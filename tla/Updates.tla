------------------------------ MODULE Updates ------------------------------
(***************************************************************************)
(* How a change of the queue reaches the browsers: ConnectionManager         *)
(* (api/ws.py), the endpoint of app.py, broadcast_queue of the queue manager *)
(* and the client's refreshJobs and connectWebSocket (static/app.js).        *)
(*                                                                          *)
(* Broadcasts are coroutines of one event loop and give it up only at a      *)
(* client whose buffer is full.  The state of the queue is a version number. *)
(***************************************************************************)
EXTENDS Integers, Sequences, FiniteSets

CONSTANTS
  Browser,
  Connection,   \* WebSocket objects that may exist at once
  Broadcast,    \* broadcasts that may be under way at once
  MaxVersion,   \* bound on the changes
  Nobody, None

ASSUME UpdatesAssumption ==
  /\ MaxVersion \in Nat
  /\ Nobody \notin Browser \union Connection \union Broadcast

VARIABLES
  version,     \* of the job table
  announced,   \* the last version that was broadcast
  told,        \* history: the connections it was broadcast to
  loop,        \* the broadcast that has the event loop
  broadcast,   \* per broadcast: where it is
  registered,  \* _connections
  connection,  \* per connection: its endpoint, its link and what is on the way
  view,        \* per browser: the version it shows (-1: none yet)
  asked,       \* per browser: what GET /api/jobs has read for it
  stale        \* history: browsers that were last shown something late

server  == <<announced, told, loop, broadcast, registered>>
clients == <<view, asked, stale>>
vars    == <<version, server, connection, clients>>

Versions == 0..MaxVersion

\* A message, and whether its broadcast had to wait for some client before.
Message == [version : Versions, held : BOOLEAN]

NoBroadcast == [version |-> 0, left |-> {}, at |-> Nobody, held |-> FALSE, on |-> FALSE]
NoConnection == [of |-> Nobody, task |-> "none", up |-> FALSE, slow |-> FALSE, inbox |-> <<>>]

UpdatesTypeOK ==
  /\ version \in Versions /\ announced \in Versions
  /\ told \subseteq Connection
  /\ loop \in Broadcast \union {Nobody}
  /\ broadcast \in [Broadcast -> [version : Versions, left : SUBSET Connection,
                                  at : Connection \union {Nobody},
                                  held : BOOLEAN, on : BOOLEAN]]
  /\ registered \subseteq {k \in Connection : connection[k].task # "none"}
  /\ connection \in [Connection -> [of : Browser \union {Nobody},
                                    task : {"none", "accepted", "serving", "closed"},
                                    up : BOOLEAN, slow : BOOLEAN, inbox : Seq(Message)]]
  /\ view \in [Browser -> Versions \union {-1}]
  /\ asked \in [Browser -> Versions \union {None}]
  /\ stale \subseteq Browser

Init ==
  /\ version = 0 /\ announced = 0 /\ told = {}
  /\ loop = Nobody
  /\ broadcast = [b \in Broadcast |-> NoBroadcast]
  /\ registered = {}
  /\ connection = [k \in Connection |-> NoConnection]
  /\ view = [c \in Browser |-> -1]
  /\ asked = [c \in Browser |-> None]
  /\ stale = {}

-----------------------------------------------------------------------------
(* Broadcasts *)

\* A handler or the dispatch loop changes the queue and calls broadcast_queue:
\* no await comes before the first send.  Mutant: the sends are left to a task.
Announced(b) ==
  /\ loop = Nobody /\ ~broadcast[b].on
  /\ version < MaxVersion
  /\ version' = version + 1
  /\ announced' = version'
  /\ told' = registered
  /\ broadcast' = [broadcast EXCEPT ![b] =
       [version |-> version', left |-> registered, at |-> Nobody, held |-> FALSE, on |-> TRUE]]
  /\ UNCHANGED <<registered, connection, clients>>
Announces_in_task(b) == Announced(b) /\ loop' = Nobody
Announces(b) == Announced(b) /\ loop' = b

\* update_job and the stop of a remote run change the row and tell nobody.
ChangesSilently ==
  /\ version < MaxVersion
  /\ version' = version + 1
  /\ UNCHANGED <<server, connection, clients>>

\* send_text to one of the targets: written, and waited for if the client does
\* not read.
Sends(b, k) ==
  /\ loop = b /\ k \in broadcast[b].left
  /\ connection[k].task \in {"accepted", "serving"}
  /\ connection' = IF connection[k].up
                   THEN [connection EXCEPT ![k].inbox =
                           Append(@, [version |-> broadcast[b].version, held |-> broadcast[b].held])]
                   ELSE connection
  /\ IF connection[k].slow
     THEN broadcast' = [broadcast EXCEPT ![b].left = @ \ {k}, ![b].at = k, ![b].held = TRUE]
          /\ loop' = Nobody
     ELSE broadcast' = [broadcast EXCEPT ![b].left = @ \ {k}]
          /\ loop' = loop
  /\ UNCHANGED <<version, announced, told, registered, clients>>

\* ... to one that is closed: the exception is caught, the client dropped.
\* Mutant: sent under the lock, which disconnect waits for.
Dead(b, k) ==
  /\ loop = b /\ k \in broadcast[b].left
  /\ connection[k].task \in {"none", "closed"}
  /\ UNCHANGED <<version, announced, told, connection, clients>>
SendFails_under_lock(b, k) ==
  /\ Dead(b, k)
  /\ loop' = Nobody
  /\ broadcast' = [broadcast EXCEPT ![b].at = k]
  /\ UNCHANGED registered
SendFails(b, k) ==
  /\ Dead(b, k)
  /\ registered' = registered \ {k}
  /\ broadcast' = [broadcast EXCEPT ![b].left = @ \ {k}]
  /\ UNCHANGED loop

\* Its client reads again, or is closed.
Resumes(b) ==
  /\ loop = Nobody
  /\ broadcast[b].on /\ broadcast[b].at = Nobody
  /\ loop' = b
  /\ UNCHANGED <<version, announced, told, broadcast, registered, connection, clients>>

BroadcastReturns(b) ==
  /\ loop = b /\ broadcast[b].left = {}
  /\ broadcast' = [broadcast EXCEPT ![b] = NoBroadcast]
  /\ loop' = Nobody
  /\ UNCHANGED <<version, announced, told, registered, connection, clients>>

-----------------------------------------------------------------------------
(* Connections *)

\* connectWebSocket, at boot and two seconds after the last one closed.  A
\* WebSocket object is not reused while a broadcast still holds it.
Opens(c, k) ==
  /\ connection[k].task = "none"
  /\ \A b \in Broadcast : k \notin broadcast[b].left /\ broadcast[b].at # k
  /\ \A i \in Connection : connection[i].of = c => ~connection[i].up
  /\ connection' = [connection EXCEPT ![k] =
       [of |-> c, task |-> "accepted", up |-> TRUE, slow |-> FALSE, inbox |-> <<>>]]
  /\ told' = told \ {k}
  /\ UNCHANGED <<version, announced, loop, broadcast, registered, clients>>

\* connect, after the accept
Registers(k) ==
  /\ loop = Nobody
  /\ connection[k].task = "accepted"
  /\ connection' = [connection EXCEPT ![k].task = "serving"]
  /\ registered' = registered \union {k}
  /\ UNCHANGED <<version, announced, told, loop, broadcast, clients>>

\* The page is closed or the network fails; what was on the way is lost.
LinkFails(k) ==
  /\ connection[k].up
  /\ connection' = [connection EXCEPT ![k].up = FALSE, ![k].inbox = <<>>]
  /\ UNCHANGED <<version, server, clients>>

BufferFills(k) ==
  /\ connection[k].task \in {"accepted", "serving"} /\ ~connection[k].slow
  /\ connection' = [connection EXCEPT ![k].slow = TRUE]
  /\ UNCHANGED <<version, server, clients>>

BufferEmpties(k) ==
  /\ connection[k].up /\ connection[k].slow
  /\ connection' = [connection EXCEPT ![k].slow = FALSE]
  /\ broadcast' = [b \in Broadcast |-> IF broadcast[b].at = k
                     THEN [broadcast[b] EXCEPT !.at = Nobody] ELSE broadcast[b]]
  /\ UNCHANGED <<version, announced, told, loop, registered, clients>>

\* The server learns of it, by FIN or by its pings; whoever waits to send gets
\* the exception.
Closes(k) ==
  /\ connection[k].task = "serving" /\ ~connection[k].up
  /\ connection' = [connection EXCEPT ![k].task = "closed"]
  /\ broadcast' = [b \in Broadcast |-> IF broadcast[b].at = k
                     THEN [broadcast[b] EXCEPT !.at = Nobody, !.left = @ \union {k}]
                     ELSE broadcast[b]]
  /\ UNCHANGED <<version, announced, told, loop, registered, clients>>

\* receive_text raises; finally disconnect.
EndpointReturns(k) ==
  /\ loop = Nobody
  /\ connection[k].task = "closed"
  /\ connection' = [connection EXCEPT ![k] = NoConnection]
  /\ registered' = registered \ {k}
  /\ told' = told \ {k}
  /\ UNCHANGED <<version, announced, loop, broadcast, clients>>

-----------------------------------------------------------------------------
(* Browsers *)

\* ws.onmessage
Shows(k) ==
  /\ connection[k].up /\ connection[k].inbox # <<>>
  /\ LET c == connection[k].of
         message == Head(connection[k].inbox)
     IN  /\ view' = [view EXCEPT ![c] = message.version]
         /\ stale' = IF message.held THEN stale \union {c} ELSE stale \ {c}
  /\ connection' = [connection EXCEPT ![k].inbox = Tail(@)]
  /\ UNCHANGED <<version, server, asked>>

\* refreshJobs: the handler reads the table in a thread ...
Refreshes(c) ==
  /\ asked[c] = None
  /\ asked' = [asked EXCEPT ![c] = version]
  /\ UNCHANGED <<version, server, connection, view, stale>>

\* ... and its answer replaces what is shown, or never arrives.
IsRefreshed(c) ==
  /\ asked[c] # None
  /\ \/ view' = [view EXCEPT ![c] = asked[c]]
        /\ stale' = IF asked[c] < view[c] THEN stale \union {c} ELSE stale
     \/ UNCHANGED <<view, stale>>
  /\ asked' = [asked EXCEPT ![c] = None]
  /\ UNCHANGED <<version, server, connection>>

-----------------------------------------------------------------------------
BroadcastSteps(b) ==
  \/ \E k \in Connection : Sends(b, k) \/ SendFails(b, k)
  \/ BroadcastReturns(b)

Next ==
  \/ \E b \in Broadcast : Announces(b) \/ Resumes(b) \/ BroadcastSteps(b)
  \/ ChangesSilently
  \/ \E c \in Browser, k \in Connection : Opens(c, k)
  \/ \E k \in Connection :
       \/ Registers(k) \/ LinkFails(k) \/ BufferFills(k) \/ BufferEmpties(k)
       \/ Closes(k) \/ EndpointReturns(k) \/ Shows(k)
  \/ \E c \in Browser : Refreshes(c) \/ IsRefreshed(c)

Spec == Init /\ [][Next]_vars

\* The event loop goes on, a client that is there reads in the end, and one
\* that is gone is found out by uvicorn's pings.
Fairness ==
  /\ \A b \in Broadcast : WF_vars(BroadcastSteps(b)) /\ WF_vars(Resumes(b))
  /\ \A k \in Connection :
       WF_vars(Registers(k)) /\ WF_vars(BufferEmpties(k)) /\ WF_vars(Closes(k))

FairSpec == Spec /\ Fairness

-----------------------------------------------------------------------------
(* Properties *)

Quiet(k) ==
  /\ \A b \in Broadcast : ~broadcast[b].on
  /\ connection[k].inbox = <<>>

\* Once nothing is on the way, a browser whose connection was there at the last
\* announcement shows at least that state, whichever clients died or stopped
\* reading meanwhile, unless the last it was shown was late: the answer to a
\* GET read earlier, or a message that had waited at another client (ws.py:
\* "live queue/system/job updates").
ViewIsCurrent ==
  \A k \in told :
    connection[k].up /\ Quiet(k) /\ connection[k].of \notin stale =>
      view[connection[k].of] >= announced

\* Every broadcast returns to its caller, the dispatch loop among them, though
\* clients die or stop reading while it sends to them.
BroadcastEnds == \A b \in Broadcast : broadcast[b].on ~> ~broadcast[b].on
=============================================================================
