--------------------------- MODULE SessionsProofs ---------------------------
(***************************************************************************)
(* Theorems about Sessions, for every set of requests, names and tokens,    *)
(* every bound on the clock and every TTL: the four safety properties of    *)
(* accounts and sessions follow from one inductive invariant.               *)
(***************************************************************************)
EXTENDS Sessions, TLAPS

Phases == GatePhases \union HandlerPhases \union {"idle", "gate"}

-----------------------------------------------------------------------------
(* Types *)

\* request[r] becomes q and no other request changes.
OnlyRequest(r, q) == request' = [request EXCEPT ![r] = q]

LEMMA RequestTypes ==
  ASSUME NEW q \in RequestState
  PROVE  /\ Idle \in RequestState
         /\ \A pc \in Phases : [q EXCEPT !.pc = pc] \in RequestState
         /\ \A pc \in Phases, u \in Name \union {NoName} :
              [q EXCEPT !.user = u, !.pc = pc] \in RequestState
         /\ \A pc \in Phases, t \in Time : [q EXCEPT !.now = t, !.pc = pc] \in RequestState
         /\ \A pc \in Phases, b \in BOOLEAN : [q EXCEPT !.bootstrap = b, !.pc = pc] \in RequestState
<1>1. Idle \in RequestState
  BY SessionsAssumption DEF Idle, RequestState, Time, Kinds
<1>2. \A pc \in Phases : [q EXCEPT !.pc = pc] \in RequestState
  BY DEF RequestState, Phases
<1>3. \A pc \in Phases, u \in Name \union {NoName} :
        [q EXCEPT !.user = u, !.pc = pc] \in RequestState
  BY DEF RequestState, Phases
<1>4. \A pc \in Phases, t \in Time : [q EXCEPT !.now = t, !.pc = pc] \in RequestState
  BY DEF RequestState, Phases
<1>5. \A pc \in Phases, b \in BOOLEAN : [q EXCEPT !.bootstrap = b, !.pc = pc] \in RequestState
  BY DEF RequestState, Phases
<1> QED
  BY <1>1, <1>2, <1>3, <1>4, <1>5

\* How a step of a gate or a handler writes the record of its request.
LEMMA RequestMoves ==
  ASSUME TypeOK, NEW r \in Request
  PROVE  /\ request[r] \in RequestState
         /\ Responds(r) => OnlyRequest(r, Idle)
         /\ \A pc \in Phases : GoesTo(r, pc) =>
              OnlyRequest(r, [request[r] EXCEPT !.pc = pc])
         /\ \A u \in Name \union {NoName} : Passes(r, u) =>
              \/ OnlyRequest(r, Idle)
              \/ OnlyRequest(r, [request[r] EXCEPT !.user = u, !.pc = "admitted"])
BY DEF TypeOK, Responds, GoesTo, Passes, OnlyRequest

LEMMA RequestFrame ==
  ASSUME TypeOK, NEW r \in Request, NEW q \in RequestState, OnlyRequest(r, q)
  PROVE  /\ request' \in [Request -> RequestState]
         /\ \A k \in Request : request'[k] = IF k = r THEN q ELSE request[k]
BY DEF TypeOK, OnlyRequest

LEMMA SessionTypes ==
  ASSUME TypeOK
  PROVE  /\ \A t \in Token : delete_session(t) => session' \in [Token -> Session]
         /\ \A t \in Token, now \in 0 .. MaxTime :
              touch_session(t, now) => session' \in [Token -> Session]
         /\ \A r \in Request :
              request[r].name \in Name /\ create_session(r) =>
                session' \in [Token -> Session] /\ Responds(r)
<1>0. \A now \in 0 .. MaxTime : now \in Time /\ now + TTL \in Time
  BY SessionsAssumption DEF Time
<1>1. \A t \in Token : delete_session(t) => session' \in [Token -> Session]
  BY DEF TypeOK, Session, delete_session
<1>2. ASSUME NEW t \in Token, NEW now \in 0 .. MaxTime, touch_session(t, now)
      PROVE  session' \in [Token -> Session]
  <2>1. now \in Time /\ now + TTL \in Time
    BY <1>0
  <2> QED
    BY <1>2, <2>1 DEF TypeOK, Session, touch_session
<1>3. ASSUME NEW r \in Request, request[r].name \in Name, create_session(r)
      PROVE  session' \in [Token -> Session] /\ Responds(r)
  <2>1. clock \in Time /\ clock + TTL \in Time
    BY <1>0 DEF TypeOK
  <2> QED
    BY <1>3, <2>1 DEF TypeOK, Session, create_session
<1> QED
  BY <1>1, <1>2, <1>3

-----------------------------------------------------------------------------
(* The inductive invariant *)

\* A row has an owner with an account, and is valid for one TTL from its use.
SessionsOK ==
  \A t \in Token :
    /\ session[t].state # "unused" => session[t].user \in users
    /\ session[t].state = "live" => session[t].expires_at = session[t].last_seen + TTL

\* One gate at a time is past its first look.
OneGate ==
  \A q, r \in Request :
    request[q].pc \in GatePhases /\ request[r].pc \in GatePhases => q = r

\* The session of request r is valid for the TTL less the touch interval.
FreshFor(r) ==
  LET s == session[request[r].token] IN
  s.state = "live" => s.expires_at > request[r].now + TTL - TouchEvery

\* r was let in by its cookie.
ByCookie(r) == request[r].header = NoName /\ request[r].user # NoName

CookieGate == {"resolve", "expired", "touch", "owner"}

\* What a gate has read of the request and its session.
GateOK(r) ==
  /\ request[r].now <= clock
  /\ request[r].user # NoName => request[r].user \in users
  /\ request[r].pc \in GatePhases \union {"gate"} => request[r].user = NoName
  /\ request[r].pc \in CookieGate => request[r].token # NoToken /\ request[r].header = NoName
  /\ request[r].pc \in {"proxy", "provision"} => request[r].header # NoName
  /\ request[r].token # NoToken => session[request[r].token].state # "unused"
  /\ request[r].pc = "owner" \/ ByCookie(r) => request[r].token # NoToken /\ FreshFor(r)

\* A request that came with an ended session stays nobody's.
EndedOK(r) ==
  request[r].ended =>
    /\ request[r].token # NoToken /\ session[request[r].token].state = "deleted"
    /\ request[r].header = NoName => request[r].user = NoName
    /\ request[r].pc \notin {"expired", "touch", "owner"}

\* What register and login know of the accounts.
HandlerOK(r) ==
  /\ request[r].late => users # {}
  /\ request[r].kind \in {"register", "login"} => request[r].name # NoName
  /\ request[r].pc \in {"register", "create", "first_session"} =>
       /\ request[r].kind = "register"
       /\ request[r].user = NoName => ~request[r].late
       /\ request[r].bootstrap => request[r].user = NoName
       /\ ~request[r].bootstrap => users # {}
  /\ request[r].pc = "first_session" => request[r].bootstrap /\ request[r].name \in users
  /\ request[r].pc = "login" => request[r].name \in users

RequestOK(r) == GateOK(r) /\ EndedOK(r) /\ HandlerOK(r)

\* A touch writes what was read after everyone who is in was let in.
TouchesLater ==
  \A q, r \in Request : At(q, "touch") /\ ByCookie(r) => request[r].now <= request[q].now

SessionsInv ==
  /\ SessionsOK
  /\ OneGate
  /\ \A r \in Request : RequestOK(r)
  /\ TouchesLater

\* What other requests do leaves request k as it should be, if accounts only
\* grow, ended sessions stay ended, and no session in use is shortened.
LEMMA OthersFrame ==
  ASSUME TypeOK, SessionsInv, NEW k \in Request,
         request'[k] = request[k], users \subseteq users', clock <= clock', clock' \in Nat,
         \A t \in Token : session[t].state # "unused" => session'[t].state # "unused",
         \A t \in Token : session[t].state = "deleted" => session'[t].state = "deleted",
         \A t \in Token : session'[t].state = "live" =>
            \/ session[t].state = "unused"
            \/ session[t].state = "live" /\ session'[t].expires_at = session[t].expires_at
            \/ (At(k, "owner") \/ ByCookie(k)) =>
                 session'[t].expires_at > request[k].now + TTL - TouchEvery
  PROVE  RequestOK(k)'
<1>0. request[k] \in RequestState /\ RequestOK(k)
  BY DEF TypeOK, SessionsInv
<1>1. request[k].token \in Token \union {NoToken} /\ request[k].now \in Nat
  BY <1>0, SessionsAssumption DEF RequestState, Time
<1>2. GateOK(k)'
  <2>1. At(k, "owner") \/ ByCookie(k) => FreshFor(k)'
    BY <1>0, <1>1 DEF RequestOK, GateOK, FreshFor, At
  <2> QED
    BY <1>0, <1>1, <2>1, SessionsAssumption DEF TypeOK, RequestOK, GateOK, ByCookie, At
<1>3. EndedOK(k)'
  BY <1>0, <1>1 DEF RequestOK, EndedOK
<1>4. HandlerOK(k)'
  BY <1>0 DEF RequestOK, HandlerOK
<1> QED
  BY <1>2, <1>3, <1>4 DEF RequestOK

\* What a step of request r alone must keep.  Sessions: nothing is undone, and
\* none of a request that is in is shortened; gate: r enters it only if it is
\* free, reads the clock before it touches, and is let in from within.
LEMMA InvFrame ==
  ASSUME TypeOK, SessionsInv, NEW r \in Request, NEW q \in RequestState,
         OnlyRequest(r, q), users \subseteq users', clock' = clock,
         \A t \in Token : session[t].state # "unused" => session'[t].state # "unused",
         \A t \in Token : session[t].state = "deleted" => session'[t].state = "deleted",
         \A t \in Token : session'[t].state = "live" =>
            \/ session[t].state = "unused"
            \/ session[t].state = "live" /\ session'[t].expires_at = session[t].expires_at
            \/ At(r, "touch") /\ session'[t].expires_at = request[r].now + TTL,
         SessionsOK', RequestOK(r)',
         q.pc \in GatePhases => request[r].pc \in GatePhases \/ GateIsFree,
         q.pc = "touch" => q.now = clock,
         q.header = NoName /\ q.user # NoName =>
           \/ ByCookie(r) /\ q.now = request[r].now
           \/ request[r].pc \in GatePhases
  PROVE  SessionsInv'
<1>0. \A k \in Request : request'[k] = IF k = r THEN q ELSE request[k]
  BY RequestFrame
<1>1. \A k \in Request : request[k] \in RequestState /\ RequestOK(k)
  BY DEF TypeOK, SessionsInv
<1>2. \A k \in Request : request[k].now \in Nat /\ request[k].now <= clock
  BY <1>1, SessionsAssumption DEF RequestState, Time, RequestOK, GateOK
<1>3. OneGate'
  BY <1>0 DEF SessionsInv, OneGate, GateIsFree
<1>4. ASSUME NEW k \in Request, k # r PROVE RequestOK(k)'
  <2>1. At(r, "touch") =>
          ((At(k, "owner") \/ ByCookie(k)) =>
             request[r].now + TTL > request[k].now + TTL - TouchEvery)
    <3> SUFFICES ASSUME At(r, "touch"), At(k, "owner") \/ ByCookie(k)
                 PROVE  request[r].now + TTL > request[k].now + TTL - TouchEvery
      OBVIOUS
    <3>1. ~At(k, "owner")
      BY <1>4 DEF SessionsInv, OneGate, At, GatePhases
    <3>2. request[k].now <= request[r].now
      BY <3>1 DEF SessionsInv, TouchesLater
    <3> QED
      BY <1>2, <3>2, SessionsAssumption
  <2>2. clock' \in Nat /\ clock <= clock'
    BY DEF TypeOK
  <2>3. request'[k] = request[k]
    BY <1>0, <1>4
  <2>4. \A t \in Token : session'[t].state = "live" =>
            \/ session[t].state = "unused"
            \/ session[t].state = "live" /\ session'[t].expires_at = session[t].expires_at
            \/ (At(k, "owner") \/ ByCookie(k)) =>
                 session'[t].expires_at > request[k].now + TTL - TouchEvery
    BY <2>1
  <2> QED
    BY <2>2, <2>3, <2>4, OthersFrame
<1>5. TouchesLater'
  <2> SUFFICES ASSUME NEW a \in Request, NEW b \in Request, At(a, "touch")', ByCookie(b)'
               PROVE  request'[b].now <= request'[a].now
    BY DEF TouchesLater
  <2>1. CASE a = r /\ b = r
    BY <2>1 DEF RequestOK, GateOK, GatePhases, At, ByCookie
  <2>2. CASE a = r /\ b # r
    BY <1>0, <1>2, <2>2 DEF At
  <2>3. CASE a # r /\ b = r
    <3>1. At(a, "touch")
      BY <1>0, <2>3 DEF At
    <3>2. request[r].pc \notin GatePhases
      BY <2>3, <3>1 DEF SessionsInv, OneGate, At, GatePhases
    <3>3. ByCookie(r) /\ request'[r].now = request[r].now
      BY <1>0, <2>3, <3>2 DEF ByCookie
    <3> QED
      BY <1>0, <2>3, <3>1, <3>3 DEF SessionsInv, TouchesLater
  <2>4. CASE a # r /\ b # r
    BY <1>0, <2>4 DEF SessionsInv, TouchesLater, At, ByCookie
  <2> QED
    BY <2>1, <2>2, <2>3, <2>4
<1> QED
  BY <1>3, <1>4, <1>5 DEF SessionsInv

\* The same for a step that writes no session.
LEMMA QuietFrame ==
  ASSUME TypeOK, SessionsInv, NEW r \in Request, NEW q \in RequestState,
         OnlyRequest(r, q), users \subseteq users', clock' = clock, session' = session,
         RequestOK(r)',
         q.pc \in GatePhases => request[r].pc \in GatePhases \/ GateIsFree,
         q.pc = "touch" => q.now = clock,
         q.header = NoName /\ q.user # NoName =>
           \/ ByCookie(r) /\ q.now = request[r].now
           \/ request[r].pc \in GatePhases
  PROVE  SessionsInv'
<1>1. SessionsOK'
  BY DEF SessionsInv, SessionsOK
<1>2. \A t \in Token : /\ session[t].state # "unused" => session'[t].state # "unused"
                       /\ session[t].state = "deleted" => session'[t].state = "deleted"
                       /\ session'[t].state = "live" =>
                            session[t].state = "live" /\ session'[t].expires_at = session[t].expires_at
  OBVIOUS
<1> QED
  BY <1>1, <1>2, InvFrame

\* A request that has been answered is as good as none.
LEMMA IdleIsOK ==
  ASSUME TypeOK, NEW r \in Request, request'[r] = Idle, clock' = clock
  PROVE  RequestOK(r)'
BY DEF TypeOK, Idle, RequestOK, GateOK, EndedOK, HandlerOK, ByCookie, CookieGate, GatePhases

LEMMA QuietAnswer ==
  ASSUME TypeOK, SessionsInv, NEW r \in Request, Responds(r),
         users \subseteq users', clock' = clock, session' = session
  PROVE  SessionsInv'
<1>1. Idle \in RequestState /\ OnlyRequest(r, Idle)
  BY RequestTypes, RequestMoves
<1>2. request'[r] = Idle
  BY <1>1, RequestFrame
<1>3. Idle.pc = "idle" /\ Idle.user = NoName
  BY DEF Idle
<1> QED
  BY <1>1, <1>2, <1>3, IdleIsOK, QuietFrame DEF GatePhases

-----------------------------------------------------------------------------
(* The gate *)

\* r moves to phase pc and nothing else is written.
LEMMA QuietMove ==
  ASSUME TypeOK, SessionsInv, NEW r \in Request, NEW pc \in Phases, GoesTo(r, pc),
         users \subseteq users', clock' = clock, session' = session,
         pc # "touch", pc \in GatePhases => request[r].pc \in GatePhases \/ GateIsFree,
         LET q == [request[r] EXCEPT !.pc = pc] IN request'[r] = q => RequestOK(r)'
  PROVE  SessionsInv'
<1> DEFINE q == [request[r] EXCEPT !.pc = pc]
<1>0. request[r] \in RequestState
  BY RequestMoves
<1>1. q \in RequestState /\ OnlyRequest(r, q)
  BY <1>0, RequestTypes, RequestMoves
<1>2. request'[r] = q
  BY <1>1, RequestFrame
<1>3. q.pc = pc /\ q.header = request[r].header /\ q.user = request[r].user /\ q.now = request[r].now
  BY <1>0 DEF RequestState
<1> QED
  BY <1>1, <1>2, <1>3, QuietFrame DEF ByCookie

\* r is let in or turned away as user u, and nothing else is written but
\* accounts.
LEMMA QuietPass ==
  ASSUME TypeOK, SessionsInv, NEW r \in Request, NEW u \in Name \union {NoName},
         Passes(r, u), users \subseteq users', users' \subseteq Name,
         clock' = clock, session' = session,
         u # NoName => u \in users' /\ request[r].pc \in GatePhases,
         u # NoName /\ request[r].header = NoName => At(r, "owner"),
         request[r].user = NoName
  PROVE  SessionsInv'
<1>1. CASE OnlyRequest(r, Idle)
  <2>1. Responds(r)
    BY <1>1 DEF OnlyRequest, Responds
  <2> QED
    BY <2>1, QuietAnswer
<1>2. CASE OnlyRequest(r, [request[r] EXCEPT !.user = u, !.pc = "admitted"])
  <2> DEFINE q == [request[r] EXCEPT !.user = u, !.pc = "admitted"]
  <2>0. request[r] \in RequestState /\ RequestOK(r)
    BY RequestMoves DEF SessionsInv
  <2>1. q \in RequestState
    BY <2>0, RequestTypes DEF Phases, HandlerPhases
  <2>2. request'[r] = q
    BY <1>2, <2>1, RequestFrame
  <2>3. /\ q.pc = "admitted" /\ q.user = u /\ q.now = request[r].now
        /\ q.header = request[r].header /\ q.token = request[r].token
        /\ q.late = request[r].late /\ q.kind = request[r].kind
        /\ q.name = request[r].name /\ q.ended = request[r].ended
    BY <2>0 DEF RequestState
  <2>4. GateOK(r)'
    BY <2>0, <2>2, <2>3 DEF RequestOK, GateOK, ByCookie, FreshFor, GatePhases, CookieGate, At
  <2>5. EndedOK(r)'
    BY <2>0, <2>2, <2>3 DEF RequestOK, EndedOK, At
  <2>6. HandlerOK(r)'
    BY <2>0, <2>2, <2>3 DEF RequestOK, HandlerOK
  <2> QED
    BY <1>2, <2>1, <2>3, <2>4, <2>5, <2>6, QuietFrame DEF RequestOK, GatePhases
<1> QED
  BY <1>1, <1>2, RequestMoves

LEMMA GateInv ==
  ASSUME TypeOK, SessionsInv, NEW r \in Request, GateStep(r)
  PROVE  SessionsInv'
<1>0. request[r] \in RequestState /\ RequestOK(r)
  BY RequestMoves DEF SessionsInv
<1>1. /\ request[r].pc \in GatePhases \union {"gate"} => request[r].user = NoName
      /\ request[r].pc \in GatePhases => request[r].pc \in Phases
  BY <1>0 DEF RequestOK, GateOK, Phases
<1>2. CASE Gate(r)
  <2>0. At(r, "gate") /\ GateIsFree /\ UNCHANGED <<users, session, clock>>
    BY <1>2 DEF Gate
  <2>1. CASE GoesTo(r, "admitted")
    <3>1. request'[r] = [request[r] EXCEPT !.pc = "admitted"] => RequestOK(r)'
      BY <1>0, <2>0 DEF RequestState, RequestOK, GateOK, EndedOK, HandlerOK, ByCookie,
         FreshFor, GatePhases, CookieGate, At
    <3> QED
      BY <2>0, <2>1, <3>1, QuietMove DEF Phases, HandlerPhases, GatePhases
  <2>2. CASE request[r].header # NoName /\ GoesTo(r, "proxy")
    <3>1. request'[r] = [request[r] EXCEPT !.pc = "proxy"] => RequestOK(r)'
      BY <1>0, <2>0, <2>2 DEF RequestState, RequestOK, GateOK, EndedOK, HandlerOK, ByCookie,
         FreshFor, GatePhases, CookieGate, At
    <3> QED
      BY <2>0, <2>2, <3>1, QuietMove DEF Phases, GatePhases
  <2>3. CASE request[r].header = NoName /\ request[r].token # NoToken /\ GoesTo(r, "resolve")
    <3>1. request'[r] = [request[r] EXCEPT !.pc = "resolve"] => RequestOK(r)'
      BY <1>0, <2>0, <2>3 DEF RequestState, RequestOK, GateOK, EndedOK, HandlerOK, ByCookie,
         FreshFor, GatePhases, CookieGate, At
    <3> QED
      BY <2>0, <2>3, <3>1, QuietMove DEF Phases, GatePhases
  <2>4. CASE Passes(r, NoName)
    BY <1>1, <2>0, <2>4, QuietPass DEF At, TypeOK
  <2> QED
    BY <1>2, <2>1, <2>2, <2>3, <2>4 DEF Gate
<1>3. CASE ResolveSession(r)
  <2>0. /\ At(r, "resolve") /\ UNCHANGED <<users, session, clock>>
        /\ request[r].token \in Token /\ request[r].header = NoName /\ request[r].user = NoName
    BY <1>0, <1>1, <1>3 DEF ResolveSession, RequestOK, GateOK, CookieGate, GatePhases, At, RequestState
  <2> DEFINE s == session[request[r].token]
  <2>1. CASE s.state # "live"
    BY <1>3, <2>0, <2>1, QuietPass DEF ResolveSession, At, TypeOK
  <2>2. CASE s.state = "live"
    <3> DEFINE pc == CASE s.expires_at <= clock -> "expired"
                       [] s.expires_at > clock /\ clock - s.last_seen >= TouchEvery -> "touch"
                       [] OTHER -> "owner"
               q == [request[r] EXCEPT !.now = clock, !.pc = pc]
    <3>1. s \in Session /\ clock \in Time /\ clock \in Nat
      BY <2>0, SessionsAssumption DEF TypeOK, Time
    <3>2. s.expires_at \in Nat /\ s.last_seen \in Nat /\ s.expires_at = s.last_seen + TTL
      BY <2>0, <2>2, <3>1, SessionsAssumption DEF Session, Time, SessionsInv, SessionsOK
    <3>3. pc \in {"expired", "touch", "owner"}
      OBVIOUS
    <3>4. pc = "owner" => s.expires_at > clock + TTL - TouchEvery
      BY <3>1, <3>2, SessionsAssumption
    <3> HIDE DEF pc
    <3>5. OnlyRequest(r, q)
      BY <1>0, <1>3, <2>2 DEF ResolveSession, OnlyRequest, pc, TypeOK
    <3>6. q \in RequestState
      BY <1>0, <3>1, <3>3, RequestTypes DEF Phases, GatePhases
    <3>7. request'[r] = q
      BY <3>5, <3>6, RequestFrame
    <3>8. /\ q.pc = pc /\ q.now = clock /\ q.user = NoName /\ q.header = NoName
          /\ q.token = request[r].token /\ q.late = request[r].late /\ q.kind = request[r].kind
          /\ q.name = request[r].name /\ q.ended = request[r].ended
      BY <1>0, <2>0 DEF RequestState
    <3>9. GateOK(r)'
      BY <1>0, <2>0, <2>2, <3>1, <3>3, <3>4, <3>7, <3>8, SessionsAssumption
      DEF RequestOK, GateOK, ByCookie, FreshFor, GatePhases, CookieGate
    <3>10. EndedOK(r)'
      BY <1>0, <2>0, <2>2, <3>7, <3>8 DEF RequestOK, EndedOK
    <3>11. HandlerOK(r)'
      BY <1>0, <2>0, <3>3, <3>7, <3>8 DEF RequestOK, HandlerOK
    <3> QED
      BY <2>0, <3>5, <3>6, <3>8, <3>9, <3>10, <3>11, QuietFrame
      DEF RequestOK, GatePhases, At
  <2> QED
    BY <2>1, <2>2
<1>4. CASE DeleteExpired(r)
  <2>0. /\ At(r, "expired") /\ UNCHANGED <<users, clock>>
        /\ request[r].token \in Token /\ request[r].user = NoName
        /\ delete_session(request[r].token) /\ Passes(r, NoName)
    BY <1>0, <1>1, <1>4
    DEF DeleteExpired, RequestOK, GateOK, CookieGate, GatePhases, At, RequestState
  <2> DEFINE q == [request[r] EXCEPT !.user = NoName, !.pc = "admitted"]
  <2>1. \A t \in Token :
          /\ session[t].state # "unused" => session'[t].state # "unused"
          /\ session[t].state = "deleted" => session'[t].state = "deleted"
          /\ session'[t].state = "live" => session[t].state = "live"
          /\ session'[t].expires_at = session[t].expires_at
          /\ session'[t].last_seen = session[t].last_seen
          /\ session'[t].user = session[t].user
          /\ session[t].state = "unused" => session'[t].state = "unused"
    BY <2>0 DEF delete_session, TypeOK, Session
  <2>2. SessionsOK'
    BY <2>0, <2>1 DEF SessionsInv, SessionsOK
  <2>3. CASE OnlyRequest(r, Idle)
    <3>1. Idle \in RequestState /\ Idle.pc = "idle" /\ Idle.user = NoName
      BY <1>0, RequestTypes DEF Idle
    <3>2. RequestOK(r)'
      BY <2>0, <2>3, <3>1, RequestFrame, IdleIsOK
    <3> QED
      BY <2>0, <2>1, <2>2, <2>3, <3>1, <3>2, InvFrame DEF GatePhases
  <2>4. CASE OnlyRequest(r, q)
    <3>1. q \in RequestState
      BY <1>0, RequestTypes DEF Phases, HandlerPhases
    <3>2. request'[r] = q
      BY <2>4, <3>1, RequestFrame
    <3>3. /\ q.pc = "admitted" /\ q.user = NoName /\ q.now = request[r].now
          /\ q.header = request[r].header /\ q.token = request[r].token
          /\ q.late = request[r].late /\ q.kind = request[r].kind
          /\ q.name = request[r].name /\ q.ended = request[r].ended
      BY <1>0 DEF RequestState
    <3>4. GateOK(r)'
      BY <1>0, <2>0, <2>1, <3>2, <3>3
      DEF RequestOK, GateOK, ByCookie, FreshFor, GatePhases, CookieGate
    <3>5. EndedOK(r)' /\ HandlerOK(r)'
      BY <1>0, <2>0, <2>1, <3>2, <3>3 DEF RequestOK, EndedOK, HandlerOK
    <3> QED
      BY <2>0, <2>1, <2>2, <2>4, <3>1, <3>3, <3>4, <3>5, InvFrame DEF RequestOK, GatePhases
  <2> QED
    BY <2>0, <2>3, <2>4, RequestMoves
<1>5. CASE TouchSession(r)
  <2>0. /\ At(r, "touch") /\ UNCHANGED <<users, clock>>
        /\ request[r].token \in Token /\ request[r].user = NoName /\ request[r].header = NoName
        /\ touch_session(request[r].token, request[r].now) /\ GoesTo(r, "owner")
    BY <1>0, <1>1, <1>5
    DEF TouchSession, RequestOK, GateOK, CookieGate, GatePhases, At, RequestState
  <2> DEFINE q == [request[r] EXCEPT !.pc = "owner"]
             now == request[r].now
  <2>1. now \in Nat /\ now + TTL > now + TTL - TouchEvery
    BY <1>0, SessionsAssumption DEF RequestState, Time
  <2>2. \A t \in Token :
          /\ session'[t].state = session[t].state
          /\ session'[t].user = session[t].user
          /\ \/ session'[t] = session[t]
             \/ session'[t].expires_at = now + TTL /\ session'[t].last_seen = now
    BY <2>0 DEF touch_session, TypeOK, Session
  <2>3. session[request[r].token].state = "live"
          => session'[request[r].token].expires_at = now + TTL
    BY <2>0 DEF touch_session, TypeOK, Session
  <2>4. SessionsOK'
    BY <2>0, <2>2 DEF SessionsInv, SessionsOK
  <2>5. q \in RequestState /\ OnlyRequest(r, q)
    BY <1>0, <2>0, RequestTypes, RequestMoves DEF Phases, GatePhases
  <2>6. request'[r] = q
    BY <2>5, RequestFrame
  <2>7. /\ q.pc = "owner" /\ q.user = NoName /\ q.now = now
        /\ q.header = NoName /\ q.token = request[r].token
        /\ q.late = request[r].late /\ q.kind = request[r].kind
        /\ q.name = request[r].name /\ q.ended = request[r].ended
    BY <1>0, <2>0 DEF RequestState
  <2>8. GateOK(r)'
    BY <1>0, <2>0, <2>1, <2>2, <2>3, <2>6, <2>7
    DEF RequestOK, GateOK, ByCookie, FreshFor, GatePhases, CookieGate, At
  <2>9. EndedOK(r)' /\ HandlerOK(r)'
    BY <1>0, <2>0, <2>6, <2>7 DEF RequestOK, EndedOK, HandlerOK, At
  <2>10. \A t \in Token : session'[t].state = "live" =>
            \/ session[t].state = "live" /\ session'[t].expires_at = session[t].expires_at
            \/ session'[t].expires_at = now + TTL
    BY <2>2
  <2> QED
    BY <2>0, <2>2, <2>4, <2>5, <2>7, <2>8, <2>9, <2>10, InvFrame
    DEF RequestOK, GatePhases, At
<1>6. CASE GetOwner(r)
  <2>0. /\ At(r, "owner") /\ UNCHANGED <<users, session, clock>>
        /\ request[r].token \in Token /\ request[r].user = NoName
        /\ Passes(r, session[request[r].token].user)
    BY <1>0, <1>1, <1>6
    DEF GetOwner, RequestOK, GateOK, CookieGate, GatePhases, At, RequestState
  <2>1. session[request[r].token].user \in users
    BY <1>0, <2>0, SessionsAssumption DEF RequestOK, GateOK, SessionsInv, SessionsOK
  <2> QED
    BY <2>0, <2>1, QuietPass DEF At, GatePhases, TypeOK
<1>7. CASE ProxyUser(r)
  <2>0. /\ At(r, "proxy") /\ UNCHANGED <<users, session, clock>>
        /\ request[r].header # NoName /\ request[r].user = NoName
    BY <1>0, <1>1, <1>7 DEF ProxyUser, RequestOK, GateOK, GatePhases, At
  <2>1. CASE request[r].header \in users
    BY <1>7, <2>0, <2>1, QuietPass DEF ProxyUser, At, GatePhases, TypeOK
  <2>2. CASE request[r].header \notin users
    <3>1. request'[r] = [request[r] EXCEPT !.pc = "provision"] => RequestOK(r)'
      BY <1>0, <2>0 DEF RequestState, RequestOK, GateOK, EndedOK, HandlerOK, ByCookie,
         FreshFor, GatePhases, CookieGate, At
    <3> QED
      BY <1>7, <2>0, <2>2, <3>1, QuietMove DEF ProxyUser, Phases, GatePhases, At
  <2> QED
    BY <2>1, <2>2
<1>8. CASE ProvisionProxyUser(r)
  <2>0. /\ At(r, "provision") /\ UNCHANGED <<session, clock>>
        /\ request[r].header # NoName /\ request[r].user = NoName
        /\ request[r].header \in Name
    BY <1>0, <1>1, <1>8, SessionsAssumption
    DEF ProvisionProxyUser, RequestOK, GateOK, GatePhases, At, RequestState
  <2>1. CASE create_user(request[r].header, FALSE) /\ Passes(r, request[r].header)
    BY <2>0, <2>1, QuietPass DEF create_user, At, GatePhases, TypeOK
  <2>2. CASE Responds(r) /\ UNCHANGED users
    BY <2>0, <2>2, QuietAnswer
  <2> QED
    BY <1>8, <2>1, <2>2 DEF ProvisionProxyUser
<1> QED
  BY <1>2, <1>3, <1>4, <1>5, <1>6, <1>7, <1>8 DEF GateStep

-----------------------------------------------------------------------------
(* The handlers *)

LEMMA HandlerInv ==
  ASSUME TypeOK, SessionsInv, NEW r \in Request, HandlerStep(r)
  PROVE  SessionsInv'
<1>0. request[r] \in RequestState /\ RequestOK(r)
  BY RequestMoves DEF SessionsInv
<1>1. CASE RegisterBegins(r)
  <2>0. At(r, "admitted") /\ request[r].kind = "register" /\ UNCHANGED <<users, session, clock>>
    BY <1>1 DEF RegisterBegins
  <2>1. CASE Responds(r)
    BY <2>0, <2>1, QuietAnswer
  <2>2. CASE /\ is_bootstrap_mode \/ request[r].user # NoName
             /\ ~Responds(r)
    <3> DEFINE q == [request[r] EXCEPT !.bootstrap = is_bootstrap_mode, !.pc = "register"]
    <3>0. is_bootstrap_mode \in BOOLEAN
      BY DEF is_bootstrap_mode
    <3>1. OnlyRequest(r, q)
      BY <1>0, <1>1, <2>2 DEF RegisterBegins, OnlyRequest, TypeOK
    <3>2. q \in RequestState
      BY <1>0, <3>0, RequestTypes DEF Phases, HandlerPhases
    <3>3. request'[r] = q
      BY <3>1, <3>2, RequestFrame
    <3>4. /\ q.pc = "register" /\ q.bootstrap = is_bootstrap_mode
          /\ q.user = request[r].user /\ q.now = request[r].now
          /\ q.header = request[r].header /\ q.token = request[r].token
          /\ q.late = request[r].late /\ q.kind = request[r].kind
          /\ q.name = request[r].name /\ q.ended = request[r].ended
      BY <1>0 DEF RequestState
    <3>5. GateOK(r)'
      BY <1>0, <2>0, <3>3, <3>4
      DEF RequestOK, GateOK, ByCookie, FreshFor, GatePhases, CookieGate
    <3>6. EndedOK(r)'
      BY <1>0, <2>0, <3>3, <3>4 DEF RequestOK, EndedOK
    <3>7. HandlerOK(r)'
      BY <1>0, <2>0, <2>2, <3>3, <3>4
      DEF RequestOK, HandlerOK, GateOK, is_bootstrap_mode
    <3> QED
      BY <2>0, <3>1, <3>2, <3>4, <3>5, <3>6, <3>7, QuietFrame
      DEF RequestOK, GatePhases, ByCookie
  <2> QED
    BY <1>1, <2>1, <2>2 DEF RegisterBegins
<1>2. CASE RegisterLooksUp(r)
  <2>0. At(r, "register") /\ UNCHANGED <<users, session, clock>>
    BY <1>2 DEF RegisterLooksUp
  <2>1. CASE Responds(r)
    BY <2>0, <2>1, QuietAnswer
  <2>2. CASE GoesTo(r, "create")
    <3>1. request'[r] = [request[r] EXCEPT !.pc = "create"] => RequestOK(r)'
      BY <1>0, <2>0 DEF RequestState, RequestOK, GateOK, EndedOK, HandlerOK, ByCookie,
         FreshFor, GatePhases, CookieGate, At
    <3> QED
      BY <2>0, <2>2, <3>1, QuietMove DEF Phases, HandlerPhases, GatePhases
  <2> QED
    BY <1>2, <2>1, <2>2 DEF RegisterLooksUp
<1>3. CASE RegisterCreates(r)
  <2>0. At(r, "create") /\ UNCHANGED <<session, clock>> /\ users \subseteq users'
    BY <1>3 DEF RegisterCreates, create_user
  <2>1. CASE Responds(r)
    BY <2>0, <2>1, QuietAnswer
  <2>2. CASE /\ create_user(request[r].name, TRUE)
             /\ request[r].bootstrap /\ GoesTo(r, "first_session")
    <3>0. users' = users \union {request[r].name}
      BY <2>2 DEF create_user
    <3>1. request'[r] = [request[r] EXCEPT !.pc = "first_session"] => RequestOK(r)'
      BY <1>0, <2>0, <2>2, <3>0 DEF RequestState, RequestOK, GateOK, EndedOK, HandlerOK,
         ByCookie, FreshFor, GatePhases, CookieGate, At
    <3> QED
      BY <2>0, <2>2, <3>1, QuietMove DEF Phases, HandlerPhases, GatePhases
  <2> QED
    BY <1>3, <2>1, <2>2 DEF RegisterCreates
<1>4. CASE LoginLooksUp(r)
  <2>0. At(r, "admitted") /\ request[r].kind = "login" /\ UNCHANGED <<users, session, clock>>
    BY <1>4 DEF LoginLooksUp
  <2>1. CASE Responds(r)
    BY <2>0, <2>1, QuietAnswer
  <2>2. CASE request[r].name \in password /\ GoesTo(r, "login")
    <3>0. request[r].name \in users
      BY <2>2 DEF TypeOK
    <3>1. request'[r] = [request[r] EXCEPT !.pc = "login"] => RequestOK(r)'
      BY <1>0, <2>0, <3>0 DEF RequestState, RequestOK, GateOK, EndedOK, HandlerOK, ByCookie,
         FreshFor, GatePhases, CookieGate, At
    <3> QED
      BY <2>0, <2>2, <3>1, QuietMove DEF Phases, HandlerPhases, GatePhases
  <2> QED
    BY <1>4, <2>1, <2>2 DEF LoginLooksUp
<1>5. CASE FirstSession(r) \/ LoginCreates(r)
  <2>0. /\ create_session(r) /\ UNCHANGED <<users, clock>> /\ request[r].name \in users
        /\ Responds(r)
    BY <1>0, <1>5
    DEF FirstSession, LoginCreates, create_session, RequestOK, HandlerOK, At
  <2>1. PICK t \in Token :
          /\ session[t].state = "unused"
          /\ session' = [session EXCEPT ![t] =
               [state |-> "live", user |-> request[r].name,
                expires_at |-> clock + TTL, last_seen |-> clock]]
    BY <2>0 DEF create_session
  <2>2. /\ session'[t] = [state |-> "live", user |-> request[r].name,
                          expires_at |-> clock + TTL, last_seen |-> clock]
        /\ \A x \in Token : x # t => session'[x] = session[x]
    BY <2>1 DEF TypeOK
  <2>3. SessionsOK'
    BY <2>0, <2>2 DEF SessionsInv, SessionsOK
  <2>4. /\ Idle \in RequestState /\ Idle.pc = "idle" /\ Idle.user = NoName
        /\ OnlyRequest(r, Idle)
    BY <2>0, RequestTypes, RequestMoves DEF Idle
  <2>5. RequestOK(r)'
    BY <2>0, <2>4, RequestFrame, IdleIsOK
  <2>6. \A x \in Token :
          /\ session[x].state # "unused" => session'[x].state # "unused"
          /\ session[x].state = "deleted" => session'[x].state = "deleted"
          /\ session'[x].state = "live" =>
               \/ session[x].state = "unused"
               \/ session[x].state = "live" /\ session'[x].expires_at = session[x].expires_at
    BY <2>1, <2>2
  <2> QED
    BY <2>0, <2>3, <2>4, <2>5, <2>6, InvFrame DEF GatePhases
<1>6. CASE Logout(r)
  <2>0. /\ Responds(r) /\ UNCHANGED <<users, clock>>
        /\ \/ session' = session
           \/ request[r].token \in Token /\ delete_session(request[r].token)
    BY <1>0, <1>6 DEF Logout, RequestState
  <2>1. \A t \in Token :
          /\ session[t].state # "unused" => session'[t].state # "unused"
          /\ session[t].state = "deleted" => session'[t].state = "deleted"
          /\ session'[t].state = "live" => session[t].state = "live"
          /\ session'[t].expires_at = session[t].expires_at
          /\ session'[t].last_seen = session[t].last_seen
          /\ session'[t].user = session[t].user
          /\ session[t].state = "unused" => session'[t].state = "unused"
    BY <2>0 DEF delete_session, TypeOK, Session
  <2>2. SessionsOK'
    BY <2>0, <2>1 DEF SessionsInv, SessionsOK
  <2>3. /\ Idle \in RequestState /\ Idle.pc = "idle" /\ Idle.user = NoName
        /\ OnlyRequest(r, Idle)
    BY <2>0, RequestTypes, RequestMoves DEF Idle
  <2>4. RequestOK(r)'
    BY <2>0, <2>3, RequestFrame, IdleIsOK
  <2> QED
    BY <2>0, <2>1, <2>2, <2>3, <2>4, InvFrame DEF GatePhases
<1>7. CASE Serve(r)
  BY <1>7, QuietAnswer DEF Serve
<1> QED
  BY <1>1, <1>2, <1>3, <1>4, <1>5, <1>6, <1>7 DEF HandlerStep

-----------------------------------------------------------------------------
(* Every step *)

LEMMA StepType ==
  ASSUME TypeOK, SessionsInv, NEW r \in Request, GateStep(r) \/ HandlerStep(r)
  PROVE  TypeOK'
<1>0. request[r] \in RequestState /\ RequestOK(r) /\ clock \in 0 .. MaxTime
  BY RequestMoves DEF SessionsInv, TypeOK
<1>1. ASSUME NEW pc \in Phases, GoesTo(r, pc)
      PROVE  request' \in [Request -> RequestState]
  <2>1. [request[r] EXCEPT !.pc = pc] \in RequestState
    BY <1>0, <1>1, RequestTypes
  <2>2. OnlyRequest(r, [request[r] EXCEPT !.pc = pc])
    BY <1>1, RequestMoves
  <2> QED
    BY <2>1, <2>2, RequestFrame
<1>2. ASSUME Responds(r) PROVE request' \in [Request -> RequestState]
  BY <1>0, <1>2, RequestTypes, RequestMoves, RequestFrame
<1>3. ASSUME NEW u \in Name \union {NoName}, Passes(r, u)
      PROVE  request' \in [Request -> RequestState]
  <2>1. [request[r] EXCEPT !.user = u, !.pc = "admitted"] \in RequestState
    BY <1>0, RequestTypes DEF Phases, HandlerPhases
  <2> QED
    BY <1>0, <1>3, <2>1, RequestTypes, RequestMoves, RequestFrame
<1>4. CASE Gate(r)
  <2>1. request' \in [Request -> RequestState]
    BY <1>1, <1>3, <1>4 DEF Gate, Phases, GatePhases, HandlerPhases
  <2> QED
    BY <1>4, <2>1 DEF Gate, TypeOK
<1>5. CASE ResolveSession(r)
  <2> DEFINE s == session[request[r].token]
             pc == CASE s.expires_at <= clock -> "expired"
                     [] s.expires_at > clock /\ clock - s.last_seen >= TouchEvery -> "touch"
                     [] OTHER -> "owner"
             q == [request[r] EXCEPT !.now = clock, !.pc = pc]
  <2>1. CASE s.state # "live"
    BY <1>3, <1>5, <2>1 DEF ResolveSession, TypeOK
  <2>2. CASE s.state = "live"
    <3>1. pc \in {"expired", "touch", "owner"}
      OBVIOUS
    <3> HIDE DEF pc
    <3>2. OnlyRequest(r, q)
      BY <1>0, <1>5, <2>2 DEF ResolveSession, OnlyRequest, pc, TypeOK
    <3>3. clock \in Time
      BY <1>0, SessionsAssumption DEF Time
    <3>4. q \in RequestState
      BY <1>0, <3>1, <3>3, RequestTypes DEF Phases, GatePhases
    <3> QED
      BY <1>5, <3>2, <3>4, RequestFrame DEF ResolveSession, TypeOK
  <2> QED
    BY <2>1, <2>2
<1>6. CASE DeleteExpired(r)
  <2>1. request[r].token \in Token
    BY <1>0, <1>6 DEF DeleteExpired, RequestOK, GateOK, CookieGate, At, RequestState
  <2> QED
    BY <1>3, <1>6, <2>1, SessionTypes DEF DeleteExpired, TypeOK
<1>7. CASE TouchSession(r)
  <2>1. request[r].token \in Token
    BY <1>0, <1>7 DEF TouchSession, RequestOK, GateOK, CookieGate, At, RequestState
  <2>2. request[r].now \in 0 .. MaxTime
    BY <1>0, SessionsAssumption DEF RequestOK, GateOK, RequestState, Time
  <2> QED
    BY <1>1, <1>7, <2>1, <2>2, SessionTypes DEF TouchSession, TypeOK, Phases, GatePhases
<1>8. CASE GetOwner(r)
  <2>1. session[request[r].token].user \in Name \union {NoName}
    BY <1>0, <1>8
    DEF GetOwner, TypeOK, Session, RequestOK, GateOK, At, RequestState
  <2> QED
    BY <1>3, <1>8, <2>1 DEF GetOwner, TypeOK
<1>9. CASE ProxyUser(r) \/ ProvisionProxyUser(r)
  <2>1. request[r].header \in Name
    BY <1>0, <1>9, SessionsAssumption
    DEF ProxyUser, ProvisionProxyUser, RequestOK, GateOK, At, RequestState
  <2>2. request' \in [Request -> RequestState]
    BY <1>1, <1>2, <1>3, <1>9, <2>1
    DEF ProxyUser, ProvisionProxyUser, Phases, GatePhases
  <2> QED
    BY <1>9, <2>1, <2>2 DEF ProxyUser, ProvisionProxyUser, create_user, TypeOK
<1>10. CASE RegisterBegins(r)
  <2> DEFINE q == [request[r] EXCEPT !.bootstrap = is_bootstrap_mode, !.pc = "register"]
  <2>1. q \in RequestState
    BY <1>0, RequestTypes DEF Phases, HandlerPhases, is_bootstrap_mode
  <2>2. request' \in [Request -> RequestState]
    <3>1. CASE Responds(r)
      BY <1>2, <3>1
    <3>2. CASE ~Responds(r)
      <4>1. OnlyRequest(r, q)
        BY <1>0, <1>10, <3>2 DEF RegisterBegins, OnlyRequest, TypeOK
      <4> QED
        BY <2>1, <4>1, RequestFrame
    <3> QED
      BY <3>1, <3>2
  <2> QED
    BY <1>10, <2>2 DEF RegisterBegins, TypeOK
<1>11. CASE RegisterLooksUp(r) \/ LoginLooksUp(r) \/ Serve(r)
  <2>1. request' \in [Request -> RequestState]
    BY <1>1, <1>2, <1>11 DEF RegisterLooksUp, LoginLooksUp, Serve, Phases, HandlerPhases
  <2> QED
    BY <1>11, <2>1 DEF RegisterLooksUp, LoginLooksUp, Serve, TypeOK
<1>12. CASE RegisterCreates(r)
  <2>1. request[r].name \in Name
    BY <1>0, <1>12 DEF RegisterCreates, RequestOK, HandlerOK, At, RequestState
  <2>2. request' \in [Request -> RequestState]
    BY <1>1, <1>2, <1>12 DEF RegisterCreates, Phases, HandlerPhases
  <2> QED
    BY <1>12, <2>1, <2>2 DEF RegisterCreates, create_user, TypeOK
<1>13. CASE FirstSession(r) \/ LoginCreates(r)
  <2>1. request[r].name \in Name
    BY <1>0, <1>13 DEF FirstSession, LoginCreates, RequestOK, HandlerOK, At, TypeOK
  <2> QED
    BY <1>2, <1>13, <2>1, SessionTypes DEF FirstSession, LoginCreates, TypeOK
<1>14. CASE Logout(r)
  <2>1. session' \in [Token -> Session]
    BY <1>0, <1>14, SessionTypes DEF Logout, RequestState, TypeOK
  <2> QED
    BY <1>2, <1>14, <2>1 DEF Logout, TypeOK
<1> QED
  BY <1>4, <1>5, <1>6, <1>7, <1>8, <1>9, <1>10, <1>11, <1>12, <1>13, <1>14
  DEF GateStep, HandlerStep

\* A request arrives: nothing is known of it but what it brings.
LEMMA ArrivalInv ==
  ASSUME TypeOK, SessionsInv, NEW r \in Request, NEW kind \in Kinds,
         NEW n \in Name \union {NoName}, NEW t \in Token \union {NoToken},
         NEW h \in ProxyNames \union {NoName}, Arrives(r, kind, n, t, h)
  PROVE  TypeOK' /\ SessionsInv'
<1>0. request[r] \in RequestState /\ UNCHANGED <<users, password, session, clock>>
  BY RequestMoves DEF Arrives
<1>1. PICK late \in BOOLEAN, ended \in BOOLEAN :
        /\ late = (users # {})
        /\ ended = (t # NoToken /\ session[t].state = "deleted")
  OBVIOUS
<1> DEFINE q == [Idle EXCEPT !.pc = "gate", !.kind = kind, !.name = n, !.token = t, !.header = h,
                             !.late = late, !.ended = ended]
<1>2. OnlyRequest(r, q)
  BY <1>1 DEF Arrives, OnlyRequest
<1>3. /\ q.pc = "gate" /\ q.kind = kind /\ q.name = n /\ q.token = t /\ q.header = h
      /\ q.now = 0 /\ q.user = NoName /\ q.bootstrap = FALSE
      /\ q.late => users # {}
      /\ q.ended => t # NoToken /\ session[t].state = "deleted"
  BY <1>1 DEF Idle
<1>4. q \in RequestState
  <2>1. Idle \in RequestState
    BY SessionsAssumption DEF Idle, RequestState, Time, Kinds
  <2>2. \A p \in RequestState : [p EXCEPT !.pc = "gate", !.kind = kind, !.name = n] \in RequestState
    BY DEF RequestState
  <2>3. \A p \in RequestState : [p EXCEPT !.token = t, !.header = h] \in RequestState
    BY DEF RequestState
  <2>4. \A p \in RequestState : [p EXCEPT !.late = late, !.ended = ended] \in RequestState
    BY DEF RequestState
  <2>5. q = [[[Idle EXCEPT !.pc = "gate", !.kind = kind, !.name = n]
                EXCEPT !.token = t, !.header = h]
               EXCEPT !.late = late, !.ended = ended]
    OBVIOUS
  <2> HIDE DEF q
  <2> QED
    BY <2>1, <2>2, <2>3, <2>4, <2>5
<1> HIDE DEF q
<1>5. request'[r] = q /\ request' \in [Request -> RequestState]
  BY <1>2, <1>4, RequestFrame
<1>6. t # NoToken => session[t].state # "unused"
  BY DEF Arrives
<1>7. kind \in {"register", "login"} => n # NoName
  BY DEF Arrives
<1>8. clock \in Nat
  BY DEF TypeOK
<1>9. RequestOK(r)'
  <2>1. GateOK(r)'
    BY <1>0, <1>3, <1>5, <1>6, <1>8 DEF GateOK, ByCookie, CookieGate, GatePhases
  <2>2. EndedOK(r)'
    BY <1>0, <1>3, <1>5, <1>6 DEF EndedOK, CookieGate, GatePhases
  <2>3. HandlerOK(r)'
    BY <1>0, <1>3, <1>5, <1>7 DEF HandlerOK
  <2> QED
    BY <2>1, <2>2, <2>3 DEF RequestOK
<1> QED
  BY <1>0, <1>3, <1>2, <1>4, <1>5, <1>9, QuietFrame DEF TypeOK, GatePhases

LEMMA SessionsStep ==
  ASSUME TypeOK, SessionsInv, [Next]_vars
  PROVE  TypeOK' /\ SessionsInv'
<1>1. CASE Restart
  <2>1. \A r \in Request : request'[r] = Idle
    BY <1>1 DEF Restart
  <2>2. /\ Idle \in RequestState /\ Idle.pc = "idle" /\ Idle.user = NoName
    BY SessionsAssumption DEF Idle, RequestState, Time, Kinds
  <2>3. TypeOK'
    BY <1>1, <2>2 DEF Restart, TypeOK
  <2>4. \A r \in Request : RequestOK(r)'
    BY <1>1, <2>1, IdleIsOK DEF Restart
  <2>5. SessionsOK'
    BY <1>1 DEF Restart, SessionsInv, SessionsOK
  <2>6. OneGate' /\ TouchesLater'
    BY <2>1, <2>2 DEF OneGate, TouchesLater, At, GatePhases
  <2> QED
    BY <2>3, <2>4, <2>5, <2>6 DEF SessionsInv
<1>2. CASE Tick
  <2>0. UNCHANGED <<users, password, session, request>> /\ clock' = clock + 1 /\ clock < MaxTime
    BY <1>2 DEF Tick
  <2>1. TypeOK'
    BY <2>0, SessionsAssumption DEF TypeOK
  <2>2. ASSUME NEW r \in Request PROVE RequestOK(r)'
    <3>1. RequestOK(r) /\ request[r].now \in Nat /\ clock \in Nat
      BY SessionsAssumption DEF SessionsInv, TypeOK, RequestState, Time
    <3> QED
      BY <2>0, <3>1
      DEF RequestOK, GateOK, EndedOK, HandlerOK, ByCookie, FreshFor
  <2>3. SessionsOK' /\ OneGate' /\ TouchesLater'
    BY <2>0 DEF SessionsInv, SessionsOK, OneGate, TouchesLater, At, ByCookie
  <2> QED
    BY <2>1, <2>2, <2>3 DEF SessionsInv
<1>3. CASE UNCHANGED vars
  <2>1. TypeOK'
    BY <1>3 DEF vars, TypeOK
  <2>2. \A r \in Request : RequestOK(r)'
    BY <1>3 DEF vars, SessionsInv, RequestOK, GateOK, EndedOK, HandlerOK, ByCookie, FreshFor
  <2>3. SessionsOK' /\ OneGate' /\ TouchesLater'
    BY <1>3 DEF vars, SessionsInv, SessionsOK, OneGate, TouchesLater, At, ByCookie
  <2> QED
    BY <2>1, <2>2, <2>3 DEF SessionsInv
<1> QED
  BY <1>1, <1>2, <1>3, ArrivalInv, StepType, GateInv, HandlerInv DEF Next

\* Types and the inductive invariant hold in every behaviour.
THEOREM SessionsCorrect == Spec => [](TypeOK /\ SessionsInv)
<1>1. Init => TypeOK /\ SessionsInv
  <2> SUFFICES ASSUME Init PROVE TypeOK /\ SessionsInv
    OBVIOUS
  <2>1. Idle \in RequestState /\ Idle.pc = "idle" /\ Idle.user = NoName
    BY SessionsAssumption DEF Idle, RequestState, Time, Kinds
  <2>2. NoSession \in Session /\ NoSession.state = "unused"
    BY SessionsAssumption DEF NoSession, Session, Time
  <2>3. TypeOK
    BY <2>1, <2>2, SessionsAssumption DEF Init, TypeOK
  <2>4. \A r \in Request : request[r] = Idle
    BY DEF Init
  <2>5. ASSUME NEW r \in Request PROVE RequestOK(r)
    BY <2>3, <2>4
    DEF TypeOK, Idle, RequestOK, GateOK, EndedOK, HandlerOK, ByCookie, CookieGate, GatePhases
  <2>6. SessionsOK /\ OneGate /\ TouchesLater
    BY <2>1, <2>2, <2>4 DEF Init, SessionsOK, OneGate, TouchesLater, At, GatePhases
  <2> QED
    BY <2>3, <2>5, <2>6 DEF SessionsInv
<1>2. TypeOK /\ SessionsInv /\ [Next]_vars => (TypeOK /\ SessionsInv)'
  BY SessionsStep
<1> QED
  BY <1>1, <1>2, PTL DEF Spec

-----------------------------------------------------------------------------
(* The properties *)

\* No request that arrives with a session that was logged out or found expired
\* is let in by it, whatever other requests with the same cookie are under way.
THEOREM EndedSessionHolds == Spec => []EndedSessionStaysEnded
<1>1. SessionsInv => EndedSessionStaysEnded
  BY DEF SessionsInv, RequestOK, EndedOK, EndedSessionStaysEnded
<1> QED
  BY <1>1, SessionsCorrect, PTL

\* Whoever registers without being logged in arrived before the first account.
THEOREM AnonymousAccountsHold == Spec => []AnonymousAccountsAreFirst
<1>1. SessionsInv => AnonymousAccountsAreFirst
  BY DEF SessionsInv, RequestOK, HandlerOK, AnonymousAccountsAreFirst
<1> QED
  BY <1>1, SessionsCorrect, PTL

\* Registering another account never logs its creator in as that account, and
\* registering the first one always does.
THEOREM RegisterKeepsCallerHolds == Spec => []RegisterKeepsCaller
<1>1. SessionsInv => RegisterKeepsCaller
  BY DEF SessionsInv, RequestOK, HandlerOK, RegisterKeepsCaller, At
<1> QED
  BY <1>1, SessionsCorrect, PTL

\* A request that is let in by its cookie leaves the session valid for the TTL
\* less the touch interval, whatever slower requests write to the row.
THEOREM UseExtendsHolds == Spec => []UseExtendsSession
<1>1. SessionsInv => UseExtendsSession
  BY DEF SessionsInv, RequestOK, GateOK, ByCookie, FreshFor, UseExtendsSession, At
<1> QED
  BY <1>1, SessionsCorrect, PTL
=============================================================================
