--------------------------- MODULE UpdatesProofs ---------------------------
(***************************************************************************)
(* Proofs about Updates: what a browser shows, whatever becomes of the       *)
(* clients beside it.                                                       *)
(***************************************************************************)
EXTENDS Updates, SequenceTheorems, TLAPS

-----------------------------------------------------------------------------
(* The invariant *)

\* Who is connected is one browser's only connection, and not given up.
LinksOK ==
  /\ \A k \in Connection : connection[k].up =>
       connection[k].of \in Browser /\ connection[k].task \in {"accepted", "serving"}
  /\ \A j, k \in Connection :
       connection[j].up /\ connection[k].up /\ connection[j].of = connection[k].of => j = k

\* A broadcast that has not waited yet has the loop since it began, and is the
\* last announcement.
AtOnce ==
  /\ loop # Nobody => broadcast[loop].on
  /\ \A b \in Broadcast : broadcast[b].on /\ ~broadcast[b].held =>
       loop = b /\ broadcast[b].version = announced

\* The last announcement is still to be sent to the connection.
Owed(k) ==
  \E b \in Broadcast :
    broadcast[b].on /\ broadcast[b].version = announced /\ k \in broadcast[b].left

\* Once it has read all that is on the way, the browser shows the last
\* announcement, or something late.
WillShow(k) ==
  LET inbox == connection[k].inbox
      last  == inbox[Len(inbox)]
      c     == connection[k].of
  IN  IF inbox = <<>> THEN c \in stale \/ view[c] >= announced
      ELSE last.held \/ last.version >= announced

\* Whoever is told is shown it, or something late.
Reaches == \A k \in told : connection[k].up => Owed(k) \/ WillShow(k)

UpdatesInv == LinksOK /\ AtOnce /\ Reaches

-----------------------------------------------------------------------------
(* Steps that leave most of it alone *)

Sending == [version : Versions, left : SUBSET Connection, at : Connection \union {Nobody},
            held : BOOLEAN, on : BOOLEAN]

Link == [of : Browser \union {Nobody}, task : {"none", "accepted", "serving", "closed"},
         up : BOOLEAN, slow : BOOLEAN, inbox : Seq(Message)]

\* A connection that was there stays as it is, or goes down.
FewerLinks ==
  \A k \in Connection : connection'[k].up =>
    /\ connection[k].up /\ connection'[k].of = connection[k].of
    /\ connection'[k].inbox = connection[k].inbox
    /\ connection'[k].task \in {connection[k].task, "serving"}

\* No broadcast has got further.
SameSends ==
  /\ loop' = loop
  /\ \A b \in Broadcast :
       /\ broadcast'[b].version = broadcast[b].version
       /\ broadcast[b].left \subseteq broadcast'[b].left
       /\ broadcast'[b].held = broadcast[b].held /\ broadcast'[b].on = broadcast[b].on

LEMMA LinksFewer ==
  ASSUME LinksOK, FewerLinks
  PROVE  LinksOK'
<1>1. ASSUME NEW k \in Connection, connection'[k].up
      PROVE  /\ connection[k].up /\ connection'[k].of = connection[k].of
             /\ connection'[k].of \in Browser /\ connection'[k].task \in {"accepted", "serving"}
  BY <1>1 DEF LinksOK, FewerLinks
<1> QED
  BY <1>1 DEF LinksOK

LEMMA AtOnceStays ==
  ASSUME UpdatesTypeOK, AtOnce, SameSends, announced' = announced
  PROVE  AtOnce'
BY DEF UpdatesTypeOK, AtOnce, SameSends

LEMMA ReachesStays ==
  ASSUME UpdatesTypeOK, Reaches, FewerLinks, SameSends, told' \subseteq told,
         UNCHANGED <<announced, view, stale>>
  PROVE  Reaches'
<1> SUFFICES ASSUME NEW k \in told', connection'[k].up
             PROVE  Owed(k)' \/ WillShow(k)'
  BY DEF Reaches
<1>1. k \in told /\ k \in Connection
  BY DEF UpdatesTypeOK
<1>2. /\ connection[k].up /\ connection'[k].of = connection[k].of
      /\ connection'[k].inbox = connection[k].inbox
  BY <1>1 DEF FewerLinks
<1>3. Owed(k) => Owed(k)'
  BY DEF Owed, SameSends
<1>4. WillShow(k) => WillShow(k)'
  BY <1>2 DEF WillShow
<1> QED
  BY <1>1, <1>2, <1>3, <1>4 DEF Reaches

-----------------------------------------------------------------------------
(* Broadcasts *)

LEMMA AnnouncesInv ==
  ASSUME UpdatesTypeOK, UpdatesInv, NEW b \in Broadcast, Announces(b)
  PROVE  UpdatesTypeOK' /\ UpdatesInv'
<1> DEFINE x == [version |-> version', left |-> registered, at |-> Nobody,
                 held |-> FALSE, on |-> TRUE]
<1>1. /\ loop = Nobody /\ loop' = b
      /\ version < MaxVersion /\ version' = version + 1 /\ announced' = version'
      /\ told' = registered /\ broadcast' = [broadcast EXCEPT ![b] = x]
      /\ UNCHANGED <<registered, connection, view, asked, stale>>
  BY DEF Announces, Announced, clients
<1>2. /\ version' \in Versions /\ registered \subseteq Connection
      /\ broadcast \in [Broadcast -> Sending]
  BY <1>1, UpdatesAssumption DEF UpdatesTypeOK, Versions, Sending
<1>3. x \in Sending /\ x.on /\ x.version = announced' /\ x.left = registered
  BY <1>1, <1>2 DEF Sending
<1> HIDE DEF x
<1>4. broadcast' \in [Broadcast -> Sending] /\ broadcast'[b] = x
      /\ \A a \in Broadcast : a # b => broadcast'[a] = broadcast[a]
  BY <1>1, <1>2, <1>3
<1>5. UpdatesTypeOK'
  BY <1>1, <1>2, <1>4 DEF UpdatesTypeOK, Sending
<1>6. LinksOK'
  BY <1>1 DEF UpdatesInv, LinksOK
<1>7. AtOnce'
  <2>1. \A a \in Broadcast : broadcast[a].on => broadcast[a].held
    BY <1>1, UpdatesAssumption DEF UpdatesInv, AtOnce
  <2> QED
    BY <1>1, <1>3, <1>4, <2>1 DEF AtOnce
<1>8. Reaches'
  <2>1. \A k \in told' : Owed(k)'
    BY <1>1, <1>3, <1>4 DEF Owed
  <2> QED
    BY <2>1 DEF Reaches
<1> QED
  BY <1>5, <1>6, <1>7, <1>8 DEF UpdatesInv

LEMMA SendsInv ==
  ASSUME UpdatesTypeOK, UpdatesInv, NEW b \in Broadcast, NEW k \in Connection, Sends(b, k)
  PROVE  UpdatesTypeOK' /\ UpdatesInv'
<1> DEFINE m == [version |-> broadcast[b].version, held |-> broadcast[b].held]
<1>1. /\ loop = b /\ k \in broadcast[b].left
      /\ connection' = IF connection[k].up
                       THEN [connection EXCEPT ![k].inbox = Append(@, m)] ELSE connection
      /\ \/ /\ broadcast' = [broadcast EXCEPT ![b].left = @ \ {k}, ![b].at = k, ![b].held = TRUE]
            /\ loop' = Nobody
         \/ /\ broadcast' = [broadcast EXCEPT ![b].left = @ \ {k}]
            /\ loop' = b
      /\ UNCHANGED <<version, announced, told, registered, view, asked, stale>>
  BY DEF Sends, clients
<1>2. /\ broadcast \in [Broadcast -> Sending] /\ connection \in [Connection -> Link]
      /\ m \in Message /\ b # Nobody
  BY UpdatesAssumption DEF UpdatesTypeOK, Sending, Link, Message
<1>3. m.held \/ m.version = announced
  <2>1. broadcast[b].on
    BY <1>1, <1>2 DEF UpdatesInv, AtOnce
  <2> QED
    BY <2>1 DEF UpdatesInv, AtOnce
<1> HIDE DEF m
<1>4. /\ broadcast' \in [Broadcast -> Sending]
      /\ \A a \in Broadcast : a # b => broadcast'[a] = broadcast[a]
      /\ broadcast'[b].version = broadcast[b].version /\ broadcast'[b].on = broadcast[b].on
      /\ broadcast'[b].left = broadcast[b].left \ {k}
      /\ loop' = b => broadcast'[b].held = broadcast[b].held
      /\ loop' # b => broadcast'[b].held
  BY <1>1, <1>2 DEF Sending
<1>5. /\ connection' \in [Connection -> Link]
      /\ \A j \in Connection :
           /\ connection'[j].of = connection[j].of /\ connection'[j].task = connection[j].task
           /\ connection'[j].up = connection[j].up
           /\ j # k => connection'[j].inbox = connection[j].inbox
      /\ connection[k].up => connection'[k].inbox = Append(connection[k].inbox, m)
  <2> DEFINE n == [connection[k] EXCEPT !.inbox = Append(@, m)]
  <2>1. connection[k] \in Link /\ connection[k].inbox \in Seq(Message)
    BY <1>2 DEF Link
  <2>2. Append(connection[k].inbox, m) \in Seq(Message)
    BY <1>2, <2>1
  <2>3. /\ n \in Link /\ n.of = connection[k].of /\ n.task = connection[k].task
        /\ n.up = connection[k].up /\ n.inbox = Append(connection[k].inbox, m)
    BY <2>1, <2>2 DEF Link
  <2>4. connection[k].up => connection' = [connection EXCEPT ![k] = n]
    BY <1>1, <1>2
  <2> HIDE DEF n
  <2>5. CASE connection[k].up
    BY <1>2, <2>3, <2>4, <2>5
  <2>6. CASE ~connection[k].up
    BY <1>1, <1>2, <2>6
  <2> QED
    BY <2>5, <2>6
<1>6. UpdatesTypeOK'
  <2>1. \A j \in registered : j \in Connection /\ connection'[j].task # "none"
    BY <1>5 DEF UpdatesTypeOK
  <2>2. registered' \subseteq {j \in Connection : connection'[j].task # "none"}
    BY <1>1, <2>1
  <2>3. loop' \in Broadcast \union {Nobody}
    BY <1>1
  <2>4. broadcast' \in [Broadcast -> Sending] /\ connection' \in [Connection -> Link]
    BY <1>4, <1>5
  <2> QED
    BY <1>1, <2>2, <2>3, <2>4 DEF UpdatesTypeOK, Sending, Link
<1>7. LinksOK'
  BY <1>5 DEF UpdatesInv, LinksOK
<1>8. AtOnce'
  BY <1>1, <1>2, <1>4 DEF UpdatesInv, AtOnce
<1>9. Reaches'
  <2> SUFFICES ASSUME NEW j \in told, connection[j].up
               PROVE  Owed(j)' \/ WillShow(j)'
    BY <1>1, <1>5 DEF Reaches, UpdatesTypeOK
  <2>1. j \in Connection /\ (Owed(j) \/ WillShow(j))
    BY DEF UpdatesTypeOK, UpdatesInv, Reaches
  <2>2. CASE j # k
    <3>1. Owed(j) => Owed(j)'
      BY <1>1, <1>4, <2>2 DEF Owed
    <3>2. WillShow(j) => WillShow(j)'
      BY <1>1, <1>5, <2>1, <2>2 DEF WillShow
    <3> QED
      BY <2>1, <3>1, <3>2
  <2>3. CASE j = k
    <3> DEFINE inbox == connection[k].inbox
    <3>1. /\ Append(inbox, m) # <<>>
          /\ Append(inbox, m)[Len(Append(inbox, m))] = m
      BY <1>2 DEF Link
    <3>2. connection'[k].inbox = Append(inbox, m)
      BY <1>5, <2>3
    <3>3. m.version = announced => m.version >= announced
      BY DEF UpdatesTypeOK, Versions
    <3> QED
      BY <1>1, <1>3, <2>3, <3>1, <3>2, <3>3 DEF WillShow
  <2> QED
    BY <2>2, <2>3
<1> QED
  BY <1>6, <1>7, <1>8, <1>9 DEF UpdatesInv

LEMMA SendFailsInv ==
  ASSUME UpdatesTypeOK, UpdatesInv, NEW b \in Broadcast, NEW k \in Connection, SendFails(b, k)
  PROVE  UpdatesTypeOK' /\ UpdatesInv'
<1>1. /\ connection[k].task \in {"none", "closed"}
      /\ registered' = registered \ {k}
      /\ broadcast' = [broadcast EXCEPT ![b].left = @ \ {k}]
      /\ UNCHANGED <<loop, version, announced, told, connection, view, asked, stale>>
  BY DEF SendFails, Dead, clients
<1>2. broadcast \in [Broadcast -> Sending]
  BY DEF UpdatesTypeOK, Sending
<1>3. /\ broadcast' \in [Broadcast -> Sending]
      /\ \A a \in Broadcast :
           /\ broadcast'[a].version = broadcast[a].version /\ broadcast'[a].on = broadcast[a].on
           /\ broadcast'[a].held = broadcast[a].held
           /\ \A j \in Connection : j # k /\ j \in broadcast[a].left => j \in broadcast'[a].left
  BY <1>1, <1>2 DEF Sending
<1>4. ~connection[k].up
  BY <1>1 DEF UpdatesInv, LinksOK
<1>5. UpdatesTypeOK'
  BY <1>1, <1>3 DEF UpdatesTypeOK, Sending
<1>6. LinksOK' /\ AtOnce'
  BY <1>1, <1>3 DEF UpdatesTypeOK, UpdatesInv, LinksOK, AtOnce
<1>7. Reaches'
  <2> SUFFICES ASSUME NEW j \in told, connection[j].up
               PROVE  Owed(j)' \/ WillShow(j)'
    BY <1>1 DEF Reaches
  <2>1. j \in Connection /\ j # k /\ (Owed(j) \/ WillShow(j))
    BY <1>4 DEF UpdatesTypeOK, UpdatesInv, Reaches
  <2>2. Owed(j) => Owed(j)'
    BY <1>1, <1>3, <2>1 DEF Owed
  <2>3. WillShow(j) => WillShow(j)'
    BY <1>1 DEF WillShow
  <2> QED
    BY <2>1, <2>2, <2>3
<1> QED
  BY <1>5, <1>6, <1>7 DEF UpdatesInv

LEMMA ResumesInv ==
  ASSUME UpdatesTypeOK, UpdatesInv, NEW b \in Broadcast, Resumes(b)
  PROVE  UpdatesTypeOK' /\ UpdatesInv'
<1>1. /\ loop = Nobody /\ broadcast[b].on /\ loop' = b
      /\ UNCHANGED <<version, announced, told, broadcast, registered, connection, view, asked, stale>>
  BY DEF Resumes, clients
<1>2. UpdatesTypeOK'
  BY <1>1 DEF UpdatesTypeOK
<1>3. LinksOK' /\ Reaches'
  BY <1>1 DEF UpdatesInv, LinksOK, Reaches, Owed, WillShow
<1>4. AtOnce'
  BY <1>1, UpdatesAssumption DEF UpdatesInv, AtOnce
<1> QED
  BY <1>2, <1>3, <1>4 DEF UpdatesInv

LEMMA BroadcastReturnsInv ==
  ASSUME UpdatesTypeOK, UpdatesInv, NEW b \in Broadcast, BroadcastReturns(b)
  PROVE  UpdatesTypeOK' /\ UpdatesInv'
<1>1. /\ loop = b /\ broadcast[b].left = {} /\ loop' = Nobody
      /\ broadcast' = [broadcast EXCEPT ![b] = NoBroadcast]
      /\ UNCHANGED <<version, announced, told, registered, connection, view, asked, stale>>
  BY DEF BroadcastReturns, clients
<1>2. NoBroadcast \in Sending /\ ~NoBroadcast.on
  BY UpdatesAssumption DEF NoBroadcast, Sending, Versions
<1>3. /\ broadcast' \in [Broadcast -> Sending] /\ ~broadcast'[b].on
      /\ \A a \in Broadcast : a # b => broadcast'[a] = broadcast[a]
  BY <1>1, <1>2 DEF UpdatesTypeOK, Sending
<1>4. UpdatesTypeOK'
  BY <1>1, <1>3 DEF UpdatesTypeOK, Sending
<1>5. LinksOK' /\ AtOnce'
  BY <1>1, <1>3 DEF UpdatesInv, LinksOK, AtOnce
<1>6. Reaches'
  <2> SUFFICES ASSUME NEW k \in told, connection[k].up
               PROVE  Owed(k)' \/ WillShow(k)'
    BY <1>1 DEF Reaches
  <2>1. Owed(k) \/ WillShow(k)
    BY DEF UpdatesInv, Reaches
  <2>2. Owed(k) => Owed(k)'
    BY <1>1, <1>3 DEF Owed
  <2>3. WillShow(k) => WillShow(k)'
    BY <1>1 DEF WillShow
  <2> QED
    BY <2>1, <2>2, <2>3
<1> QED
  BY <1>4, <1>5, <1>6 DEF UpdatesInv

-----------------------------------------------------------------------------
(* Connections *)

\* A browser opens a connection: of its own, and told nothing yet.
LEMMA OpensInv ==
  ASSUME UpdatesTypeOK, UpdatesInv, NEW c \in Browser, NEW k \in Connection, Opens(c, k)
  PROVE  UpdatesTypeOK' /\ UpdatesInv'
<1> DEFINE n == [of |-> c, task |-> "accepted", up |-> TRUE, slow |-> FALSE, inbox |-> <<>>]
<1>1. /\ connection[k].task = "none"
      /\ \A i \in Connection : connection[i].of = c => ~connection[i].up
      /\ connection' = [connection EXCEPT ![k] = n] /\ told' = told \ {k}
      /\ UNCHANGED <<version, announced, loop, broadcast, registered, view, asked, stale>>
  BY DEF Opens, clients
<1>2. n \in Link /\ n.of = c /\ n.task = "accepted"
  BY DEF Link
<1> HIDE DEF n
<1>3. /\ connection' \in [Connection -> Link] /\ connection'[k] = n
      /\ \A j \in Connection : j # k => connection'[j] = connection[j]
  BY <1>1, <1>2 DEF UpdatesTypeOK, Link
<1>4. UpdatesTypeOK'
  <2>1. \A j \in registered : j \in Connection /\ connection'[j].task # "none"
    BY <1>1, <1>2, <1>3 DEF UpdatesTypeOK
  <2> QED
    BY <1>1, <1>3, <2>1 DEF UpdatesTypeOK, Link
<1>5. LinksOK'
  BY <1>1, <1>2, <1>3 DEF UpdatesInv, LinksOK
<1>6. AtOnce'
  BY <1>1 DEF UpdatesInv, AtOnce
<1>7. Reaches'
  <2> SUFFICES ASSUME NEW j \in told, j # k, connection'[j].up
               PROVE  Owed(j)' \/ WillShow(j)'
    BY <1>1 DEF Reaches
  <2>1. connection'[j] = connection[j]
    BY <1>3 DEF UpdatesTypeOK
  <2>2. Owed(j) \/ WillShow(j)
    BY <2>1 DEF UpdatesInv, Reaches
  <2> QED
    BY <1>1, <2>1, <2>2 DEF Owed, WillShow
<1> QED
  BY <1>4, <1>5, <1>6, <1>7 DEF UpdatesInv

\* An endpoint or a link goes on or goes down.
Settles ==
  /\ FewerLinks /\ SameSends /\ told' \subseteq told
  /\ connection' \in [Connection -> Link] /\ broadcast' \in [Broadcast -> Sending]
  /\ registered' \subseteq {k \in Connection : connection'[k].task # "none"}
  /\ UNCHANGED <<version, announced, view, asked, stale>>

LEMMA SettlesInv ==
  ASSUME UpdatesTypeOK, UpdatesInv, Settles
  PROVE  UpdatesTypeOK' /\ UpdatesInv'
<1>1. UpdatesTypeOK'
  BY DEF Settles, SameSends, UpdatesTypeOK, Link, Sending
<1>2. LinksOK'
  BY LinksFewer DEF Settles, UpdatesInv
<1>3. AtOnce'
  BY AtOnceStays DEF Settles, UpdatesInv
<1>4. Reaches'
  BY ReachesStays DEF Settles, UpdatesInv
<1> QED
  BY <1>1, <1>2, <1>3, <1>4 DEF UpdatesInv

\* The connection k becomes n, and the others stay.
LEMMA Becomes ==
  ASSUME UpdatesTypeOK, NEW k \in Connection, NEW n \in Link,
         connection' = [connection EXCEPT ![k] = n],
         n.up => /\ connection[k].up /\ n.of = connection[k].of
                 /\ n.inbox = connection[k].inbox /\ n.task \in {connection[k].task, "serving"},
         registered' \subseteq registered \union {k}, n.task = "none" => k \notin registered',
         told' \subseteq told, SameSends, broadcast' \in [Broadcast -> Sending],
         UNCHANGED <<version, announced, view, asked, stale>>
  PROVE  Settles
<1>1. /\ connection' \in [Connection -> Link] /\ connection'[k] = n
      /\ \A j \in Connection : j # k => connection'[j] = connection[j]
  BY DEF UpdatesTypeOK, Link
<1>2. FewerLinks
  BY <1>1 DEF FewerLinks
<1>3. registered' \subseteq {j \in Connection : connection'[j].task # "none"}
  BY <1>1 DEF UpdatesTypeOK
<1> QED
  BY <1>1, <1>2, <1>3 DEF Settles

LEMMA ConnectionStepInv ==
  ASSUME UpdatesTypeOK, UpdatesInv, NEW k \in Connection,
         \/ Registers(k) \/ LinkFails(k) \/ BufferFills(k) \/ BufferEmpties(k)
         \/ Closes(k) \/ EndpointReturns(k)
  PROVE  UpdatesTypeOK' /\ UpdatesInv'
<1>1. connection[k] \in Link /\ broadcast \in [Broadcast -> Sending]
  BY DEF UpdatesTypeOK, Link, Sending
<1>2. UNCHANGED <<loop, broadcast>> => SameSends /\ broadcast' \in [Broadcast -> Sending]
  BY <1>1 DEF SameSends
<1>3. CASE Registers(k)
  <2> DEFINE n == [connection[k] EXCEPT !.task = "serving"]
  <2>1. /\ n \in Link /\ n.task = "serving" /\ n.up = connection[k].up
        /\ n.of = connection[k].of /\ n.inbox = connection[k].inbox
    BY <1>1 DEF Link
  <2>2. /\ connection' = [connection EXCEPT ![k] = n] /\ registered' = registered \union {k}
        /\ UNCHANGED <<version, announced, told, loop, broadcast, view, asked, stale>>
    BY <1>3 DEF Registers, clients
  <2> HIDE DEF n
  <2> QED
    BY <1>2, <2>1, <2>2, Becomes, SettlesInv
<1>4. CASE LinkFails(k)
  <2> DEFINE n == [connection[k] EXCEPT !.up = FALSE, !.inbox = <<>>]
  <2>1. n \in Link /\ ~n.up /\ n.task = connection[k].task
    <3>1. <<>> \in Seq(Message)
      OBVIOUS
    <3> QED
      BY <1>1, <3>1 DEF Link
  <2>2. /\ connection' = [connection EXCEPT ![k] = n]
        /\ UNCHANGED <<version, announced, told, loop, broadcast, registered, view, asked, stale>>
    BY <1>4 DEF LinkFails, server, clients
  <2> HIDE DEF n
  <2>3. n.task = "none" => k \notin registered'
    BY <2>1, <2>2 DEF UpdatesTypeOK
  <2> QED
    BY <1>2, <2>1, <2>2, <2>3, Becomes, SettlesInv
<1>5. CASE BufferFills(k)
  <2> DEFINE n == [connection[k] EXCEPT !.slow = TRUE]
  <2>1. /\ n \in Link /\ n.task = connection[k].task /\ n.up = connection[k].up
        /\ n.of = connection[k].of /\ n.inbox = connection[k].inbox
    BY <1>1 DEF Link
  <2>2. /\ connection' = [connection EXCEPT ![k] = n]
        /\ UNCHANGED <<version, announced, told, loop, broadcast, registered, view, asked, stale>>
    BY <1>5 DEF BufferFills, server, clients
  <2> HIDE DEF n
  <2>3. n.task = "none" => k \notin registered'
    BY <2>1, <2>2 DEF UpdatesTypeOK
  <2> QED
    BY <1>2, <2>1, <2>2, <2>3, Becomes, SettlesInv
<1>6. CASE BufferEmpties(k)
  <2> DEFINE n == [connection[k] EXCEPT !.slow = FALSE]
  <2>1. /\ n \in Link /\ n.task = connection[k].task /\ n.up = connection[k].up
        /\ n.of = connection[k].of /\ n.inbox = connection[k].inbox
    BY <1>1 DEF Link
  <2>2. /\ connection' = [connection EXCEPT ![k] = n]
        /\ broadcast' = [b \in Broadcast |-> IF broadcast[b].at = k
                           THEN [broadcast[b] EXCEPT !.at = Nobody] ELSE broadcast[b]]
        /\ UNCHANGED <<version, announced, told, loop, registered, view, asked, stale>>
    BY <1>6 DEF BufferEmpties, clients
  <2> HIDE DEF n
  <2>3. SameSends /\ broadcast' \in [Broadcast -> Sending]
    BY <1>1, <2>2 DEF SameSends, Sending
  <2>4. n.task = "none" => k \notin registered'
    BY <2>1, <2>2 DEF UpdatesTypeOK
  <2> QED
    BY <2>1, <2>2, <2>3, <2>4, Becomes, SettlesInv
<1>7. CASE Closes(k)
  <2> DEFINE n == [connection[k] EXCEPT !.task = "closed"]
  <2>1. n \in Link /\ n.task = "closed" /\ ~n.up
    BY <1>1, <1>7 DEF Link, Closes
  <2>2. /\ connection' = [connection EXCEPT ![k] = n]
        /\ broadcast' = [b \in Broadcast |-> IF broadcast[b].at = k
                           THEN [broadcast[b] EXCEPT !.at = Nobody, !.left = @ \union {k}]
                           ELSE broadcast[b]]
        /\ UNCHANGED <<version, announced, told, loop, registered, view, asked, stale>>
    BY <1>7 DEF Closes, clients
  <2> HIDE DEF n
  <2>3. SameSends /\ broadcast' \in [Broadcast -> Sending]
    <3>1. ASSUME NEW b \in Broadcast
          PROVE  /\ broadcast'[b] \in Sending
                 /\ broadcast'[b].version = broadcast[b].version
                 /\ broadcast[b].left \subseteq broadcast'[b].left
                 /\ broadcast'[b].held = broadcast[b].held
                 /\ broadcast'[b].on = broadcast[b].on
      <4>1. CASE broadcast[b].at = k
        <5>1. /\ broadcast[b] \in Sending
              /\ broadcast'[b] = [broadcast[b] EXCEPT !.at = Nobody, !.left = @ \union {k}]
          BY <1>1, <2>2, <4>1
        <5>2. \A s \in Sending : [s EXCEPT !.at = Nobody, !.left = @ \union {k}] \in Sending
          BY DEF Sending
        <5>3. broadcast'[b] \in Sending
          BY <5>1, <5>2
        <5>4. /\ broadcast'[b].version = broadcast[b].version
              /\ broadcast'[b].left = broadcast[b].left \union {k}
              /\ broadcast'[b].held = broadcast[b].held
              /\ broadcast'[b].on = broadcast[b].on
          BY <5>1 DEF Sending
        <5> QED
          BY <5>3, <5>4
      <4>2. CASE broadcast[b].at # k
        BY <1>1, <2>2, <4>2
      <4> QED
        BY <4>1, <4>2
    <3>2. broadcast' \in [Broadcast -> Sending]
      BY <2>2, <3>1
    <3> QED
      BY <2>2, <3>1, <3>2 DEF SameSends
  <2> QED
    BY <2>1, <2>2, <2>3, Becomes, SettlesInv
<1>8. CASE EndpointReturns(k)
  <2>1. NoConnection \in Link /\ ~NoConnection.up
    BY DEF NoConnection, Link
  <2>2. /\ connection' = [connection EXCEPT ![k] = NoConnection]
        /\ registered' = registered \ {k} /\ told' = told \ {k}
        /\ UNCHANGED <<version, announced, loop, broadcast, view, asked, stale>>
    BY <1>8 DEF EndpointReturns, clients
  <2> QED
    BY <1>2, <2>1, <2>2, Becomes, SettlesInv
<1> QED
  BY <1>3, <1>4, <1>5, <1>6, <1>7, <1>8

-----------------------------------------------------------------------------
(* Browsers *)

LEMMA LastOfTail ==
  ASSUME NEW S, NEW s \in Seq(S), s # <<>>
  PROVE  /\ Head(s) \in S /\ Tail(s) \in Seq(S)
         /\ Tail(s) = <<>> => Head(s) = s[Len(s)]
         /\ Tail(s) # <<>> => Tail(s)[Len(Tail(s))] = s[Len(s)]
<1>1. /\ Head(s) \in S /\ Tail(s) \in Seq(S) /\ Len(Tail(s)) = Len(s) - 1
      /\ \A i \in 1..Len(Tail(s)) : Tail(s)[i] = s[i + 1]
  BY HeadTailProperties
<1>2. Len(s) \in Nat \ {0}
  BY EmptySeq
<1>3. Tail(s) = <<>> => Head(s) = s[Len(s)]
  <2>1. Head(s) = s[1]
    OBVIOUS
  <2>2. Tail(s) = <<>> => Len(Tail(s)) = 0
    BY EmptySeq
  <2> QED
    BY <1>1, <1>2, <2>1, <2>2
<1>4. Tail(s) # <<>> => Tail(s)[Len(Tail(s))] = s[Len(s)]
  <2>1. Tail(s) # <<>> => Len(Tail(s)) \in Nat \ {0}
    BY <1>1, EmptySeq
  <2> QED
    BY <1>1, <1>2, <2>1
<1> QED
  BY <1>1, <1>3, <1>4

\* A message is shown: what is left on the way ends as before, or it was the
\* last, and what it said is what the browser shows.
LEMMA ShowsInv ==
  ASSUME UpdatesTypeOK, UpdatesInv, NEW k \in Connection, Shows(k)
  PROVE  UpdatesTypeOK' /\ UpdatesInv'
<1> DEFINE c == connection[k].of
           inbox == connection[k].inbox
           n == [connection[k] EXCEPT !.inbox = Tail(inbox)]
<1>1. /\ connection[k].up /\ inbox # <<>>
      /\ view' = [view EXCEPT ![c] = Head(inbox).version]
      /\ stale' = IF Head(inbox).held THEN stale \union {c} ELSE stale \ {c}
      /\ connection' = [connection EXCEPT ![k] = n]
      /\ UNCHANGED <<version, announced, told, loop, broadcast, registered, asked>>
  BY DEF Shows, server
<1>2. /\ connection \in [Connection -> Link] /\ connection[k] \in Link
      /\ inbox \in Seq(Message) /\ c \in Browser
  BY <1>1 DEF UpdatesTypeOK, UpdatesInv, LinksOK, Link
<1>3. /\ Head(inbox) \in Message /\ Tail(inbox) \in Seq(Message)
      /\ Tail(inbox) = <<>> => Head(inbox) = inbox[Len(inbox)]
      /\ Tail(inbox) # <<>> => Tail(inbox)[Len(Tail(inbox))] = inbox[Len(inbox)]
  BY <1>1, <1>2, LastOfTail
<1>4. /\ n \in Link /\ n.of = c /\ n.up /\ n.task = connection[k].task
      /\ n.inbox = Tail(inbox)
  BY <1>1, <1>2, <1>3 DEF Link
<1> HIDE DEF n
<1>5. /\ connection' \in [Connection -> Link] /\ connection'[k] = n
      /\ \A j \in Connection : j # k => connection'[j] = connection[j]
  BY <1>1, <1>2, <1>4
<1>6. /\ view' \in [Browser -> Versions \union {-1}] /\ view'[c] = Head(inbox).version
      /\ \A d \in Browser : d # c => view'[d] = view[d] /\ (d \in stale' <=> d \in stale)
      /\ stale' \subseteq Browser /\ Head(inbox).held => c \in stale'
  BY <1>1, <1>2, <1>3 DEF UpdatesTypeOK, Message
<1>7. UpdatesTypeOK'
  <2>1. \A j \in registered : j \in Connection /\ connection'[j].task # "none"
    BY <1>4, <1>5 DEF UpdatesTypeOK
  <2> QED
    BY <1>1, <1>5, <1>6, <2>1 DEF UpdatesTypeOK, Link
<1>8. LinksOK' /\ AtOnce'
  BY <1>1, <1>4, <1>5 DEF UpdatesInv, LinksOK, AtOnce
<1>9. Reaches'
  <2> SUFFICES ASSUME NEW j \in told, connection'[j].up
               PROVE  Owed(j)' \/ WillShow(j)'
    BY <1>1 DEF Reaches
  <2>1. j \in Connection /\ connection[j].up
    BY <1>1, <1>4, <1>5 DEF UpdatesTypeOK
  <2>2. Owed(j) \/ WillShow(j)
    BY <2>1 DEF UpdatesInv, Reaches
  <2>3. Owed(j) => Owed(j)'
    BY <1>1 DEF Owed
  <2>4. CASE j # k
    <3>1. connection[j].of \in Browser /\ connection[j].of # c
      BY <1>1, <2>1, <2>4 DEF UpdatesInv, LinksOK
    <3>2. WillShow(j) => WillShow(j)'
      BY <1>1, <1>5, <1>6, <2>1, <2>4, <3>1 DEF WillShow
    <3> QED
      BY <2>2, <2>3, <3>2
  <2>5. CASE j = k
    <3>1. WillShow(k) => inbox[Len(inbox)].held \/ inbox[Len(inbox)].version >= announced
      BY <1>1 DEF WillShow
    <3>2. WillShow(k) => WillShow(k)'
      BY <1>1, <1>3, <1>4, <1>5, <1>6, <3>1 DEF WillShow
    <3> QED
      BY <2>2, <2>3, <2>5, <3>2
  <2> QED
    BY <2>4, <2>5
<1> QED
  BY <1>7, <1>8, <1>9 DEF UpdatesInv

\* An answer to GET /api/jobs is late, or no older than what is shown.
LEMMA IsRefreshedInv ==
  ASSUME UpdatesTypeOK, UpdatesInv, NEW c \in Browser, IsRefreshed(c)
  PROVE  UpdatesTypeOK' /\ UpdatesInv'
<1>1. /\ asked[c] # None /\ asked' = [asked EXCEPT ![c] = None]
      /\ \/ /\ view' = [view EXCEPT ![c] = asked[c]]
            /\ stale' = IF asked[c] < view[c] THEN stale \union {c} ELSE stale
         \/ UNCHANGED <<view, stale>>
      /\ UNCHANGED <<version, announced, told, loop, broadcast, registered, connection>>
  BY DEF IsRefreshed, server
<1>2. asked[c] \in Versions /\ view[c] \in Versions \union {-1} /\ announced \in Versions
  BY <1>1 DEF UpdatesTypeOK
<1>3. /\ view' \in [Browser -> Versions \union {-1}] /\ stale' \subseteq Browser
      /\ asked' \in [Browser -> Versions \union {None}] /\ stale \subseteq stale'
      /\ \A d \in Browser : d \in stale' \/ view'[d] >= view[d]
  <2>1. asked' \in [Browser -> Versions \union {None}]
    BY <1>1 DEF UpdatesTypeOK
  <2>2. /\ view' \in [Browser -> Versions \union {-1}] /\ stale' \subseteq Browser
        /\ stale \subseteq stale'
    BY <1>1, <1>2 DEF UpdatesTypeOK
  <2>3. ASSUME NEW d \in Browser PROVE d \in stale' \/ view'[d] >= view[d]
    <3>1. view[d] \in Int
      BY DEF UpdatesTypeOK, Versions
    <3>2. CASE view'[d] = view[d]
      BY <3>1, <3>2
    <3>3. CASE view'[d] # view[d]
      <4>1. d = c /\ view' = [view EXCEPT ![c] = asked[c]]
            /\ stale' = IF asked[c] < view[c] THEN stale \union {c} ELSE stale
        BY <1>1, <3>3 DEF UpdatesTypeOK
      <4>2. view'[c] = asked[c]
        BY <4>1 DEF UpdatesTypeOK
      <4> QED
        BY <1>2, <3>1, <4>1, <4>2 DEF Versions
    <3> QED
      BY <3>2, <3>3
  <2> QED
    BY <2>1, <2>2, <2>3
<1>4. UpdatesTypeOK'
  BY <1>1, <1>3 DEF UpdatesTypeOK
<1>5. LinksOK' /\ AtOnce'
  BY <1>1 DEF UpdatesInv, LinksOK, AtOnce
<1>6. Reaches'
  <2> SUFFICES ASSUME NEW k \in told, connection[k].up
               PROVE  Owed(k)' \/ WillShow(k)'
    BY <1>1 DEF Reaches
  <2>1. /\ Owed(k) \/ WillShow(k)
        /\ connection[k].of \in Browser
    BY DEF UpdatesTypeOK, UpdatesInv, Reaches, LinksOK
  <2>2. Owed(k) => Owed(k)'
    BY <1>1 DEF Owed
  <2>3. view[connection[k].of] >= announced /\ connection[k].of \notin stale' =>
          view'[connection[k].of] >= announced
    <3>1. /\ view[connection[k].of] \in Versions \union {-1}
          /\ view'[connection[k].of] \in Versions \union {-1}
      BY <1>3, <2>1 DEF UpdatesTypeOK
    <3> QED
      BY <1>2, <1>3, <2>1, <3>1 DEF Versions
  <2>4. WillShow(k) => WillShow(k)'
    BY <1>1, <1>3, <2>3 DEF WillShow
  <2> QED
    BY <2>1, <2>2, <2>4
<1> QED
  BY <1>4, <1>5, <1>6 DEF UpdatesInv

-----------------------------------------------------------------------------
(* The specification *)

LEMMA UpdatesInitially == Init => UpdatesTypeOK /\ UpdatesInv
<1> SUFFICES ASSUME Init PROVE UpdatesTypeOK /\ UpdatesInv
  OBVIOUS
<1>1. NoBroadcast \in Sending /\ ~NoBroadcast.on
  BY UpdatesAssumption DEF NoBroadcast, Sending, Versions
<1>2. NoConnection \in Link /\ ~NoConnection.up
  BY DEF NoConnection, Link
<1>3. 0 \in Versions
  BY UpdatesAssumption DEF Versions
<1>4. UpdatesTypeOK
  BY <1>1, <1>2, <1>3 DEF Init, UpdatesTypeOK, Sending, Link
<1>5. LinksOK /\ AtOnce /\ Reaches
  BY <1>1, <1>2 DEF Init, LinksOK, AtOnce, Reaches
<1> QED
  BY <1>4, <1>5 DEF UpdatesInv

LEMMA UpdatesStep ==
  ASSUME UpdatesTypeOK, UpdatesInv, [Next]_vars
  PROVE  UpdatesTypeOK' /\ UpdatesInv'
<1>1. ASSUME NEW b \in Broadcast, Announces(b) \/ Resumes(b) \/ BroadcastSteps(b)
      PROVE  UpdatesTypeOK' /\ UpdatesInv'
  BY <1>1, AnnouncesInv, ResumesInv, SendsInv, SendFailsInv, BroadcastReturnsInv
  DEF BroadcastSteps
<1>2. ASSUME NEW c \in Browser, NEW k \in Connection, Opens(c, k)
      PROVE  UpdatesTypeOK' /\ UpdatesInv'
  BY <1>2, OpensInv
<1>3. ASSUME NEW k \in Connection,
             \/ Registers(k) \/ LinkFails(k) \/ BufferFills(k) \/ BufferEmpties(k)
             \/ Closes(k) \/ EndpointReturns(k) \/ Shows(k)
      PROVE  UpdatesTypeOK' /\ UpdatesInv'
  BY <1>3, ConnectionStepInv, ShowsInv
<1>4. ASSUME NEW c \in Browser, IsRefreshed(c)
      PROVE  UpdatesTypeOK' /\ UpdatesInv'
  BY <1>4, IsRefreshedInv
<1>5. CASE ChangesSilently \/ (\E c \in Browser : Refreshes(c)) \/ UNCHANGED vars
  <2>1. UNCHANGED <<announced, told, loop, broadcast, registered, connection, view, stale>>
    BY <1>5 DEF ChangesSilently, Refreshes, vars, server, clients
  <2>2. version' \in Versions /\ asked' \in [Browser -> Versions \union {None}]
    BY <1>5, UpdatesAssumption
    DEF UpdatesTypeOK, Versions, ChangesSilently, Refreshes, vars, server, clients
  <2>3. UpdatesTypeOK'
    BY <2>1, <2>2 DEF UpdatesTypeOK
  <2>4. UpdatesInv'
    BY <2>1 DEF UpdatesInv, LinksOK, AtOnce, Reaches, Owed, WillShow
  <2> QED
    BY <2>3, <2>4
<1> QED
  BY <1>1, <1>2, <1>3, <1>4, <1>5 DEF Next

\* The types of the state, and the invariant of the broadcasts.
THEOREM UpdatesCorrect == Spec => [](UpdatesTypeOK /\ UpdatesInv)
<1>1. Init => UpdatesTypeOK /\ UpdatesInv
  BY UpdatesInitially
<1>2. (UpdatesTypeOK /\ UpdatesInv) /\ [Next]_vars => (UpdatesTypeOK /\ UpdatesInv)'
  BY UpdatesStep
<1> QED
  BY <1>1, <1>2, PTL DEF Spec

\* ViewIsCurrent: once nothing is on the way, a browser that was connected at the
\* last announcement shows at least that, unless it was last shown something
\* late (api/ws.py, broadcast; app.js, refreshJobs), for any number of browsers,
\* connections, broadcasts and changes.
THEOREM ViewIsCurrentHolds == Spec => []ViewIsCurrent
<1>1. UpdatesTypeOK /\ UpdatesInv => ViewIsCurrent
  <2> SUFFICES ASSUME UpdatesTypeOK, UpdatesInv, NEW k \in told,
                      connection[k].up, Quiet(k), connection[k].of \notin stale
               PROVE  view[connection[k].of] >= announced
    BY DEF ViewIsCurrent
  <2>1. ~Owed(k)
    BY DEF Quiet, Owed
  <2>2. WillShow(k)
    BY <2>1 DEF UpdatesInv, Reaches
  <2> QED
    BY <2>2 DEF WillShow, Quiet
<1> QED
  BY <1>1, UpdatesCorrect, PTL
=============================================================================
