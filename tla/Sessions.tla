------------------------------ MODULE Sessions ------------------------------
(***************************************************************************)
(* Accounts and sessions: core/auth.py, api/routes_auth.py, the auth_gate    *)
(* middleware of api/app.py and their tables.                               *)
(*                                                                          *)
(* The gate is a coroutine without an await, so gates exclude one another,   *)
(* but the handlers it admits run in a thread pool: between any two          *)
(* statements of a gate or a handler another handler's may be executed.      *)
(* Each action is one statement on the database and what follows it.         *)
(*                                                                          *)
(* A request carries any session token that was ever issued, or none: what   *)
(* browsers keep in their cookies is not modelled.                           *)
(***************************************************************************)
EXTENDS Integers, FiniteSets

CONSTANTS
  Request, Name, Token,
  NoName, NoToken,
  ProxyNames,   \* the names a trusted proxy's header can give; {} without one
  TTL,          \* SESSION_TTL
  TouchEvery,   \* SESSION_TOUCH_INTERVAL
  MaxTime       \* bound on the clock

ASSUME SessionsAssumption ==
  /\ NoName \notin Name /\ NoToken \notin Token
  /\ ProxyNames \subseteq Name
  /\ TTL \in Nat /\ TouchEvery \in Nat \ {0} /\ TouchEvery <= TTL
  /\ MaxTime \in Nat

VARIABLES
  users,      \* user names with a row in user
  password,   \* ... whose row has a password_hash
  session,    \* per token: its row, and whether it was issued or deleted
  request,    \* per request: its gate and its handler
  clock

vars == <<users, password, session, request, clock>>

Time == 0 .. MaxTime + TTL
Kinds == {"register", "login", "logout", "protected"}
GatePhases == {"resolve", "expired", "touch", "owner", "proxy", "provision"}
HandlerPhases == {"admitted", "register", "create", "first_session", "login"}

Session == [state : {"unused", "live", "deleted"}, user : Name \union {NoName},
            expires_at : Time, last_seen : Time]
RequestState ==
  [pc : GatePhases \union HandlerPhases \union {"idle", "gate"},
   kind : Kinds,
   name : Name \union {NoName},        \* of the form
   token : Token \union {NoToken},     \* of the cookie
   header : ProxyNames \union {NoName}, \* of the proxy's header
   now : Time,                         \* _now() as the gate read it
   user : Name \union {NoName},        \* request.state.user
   bootstrap : BOOLEAN,                \* register's own reading
   late : BOOLEAN,   \* history: an account existed when the request arrived
   ended : BOOLEAN]  \* history: its session had been deleted by then

TypeOK ==
  /\ users \subseteq Name
  /\ password \subseteq users
  /\ session \in [Token -> Session]
  /\ request \in [Request -> RequestState]
  /\ clock \in 0 .. MaxTime

NoSession == [state |-> "unused", user |-> NoName, expires_at |-> 0, last_seen |-> 0]
Idle == [pc |-> "idle", kind |-> "protected", name |-> NoName, token |-> NoToken,
         header |-> NoName, now |-> 0, user |-> NoName,
         bootstrap |-> FALSE, late |-> FALSE, ended |-> FALSE]

Init ==
  /\ users = {} /\ password = {}
  /\ session = [t \in Token |-> NoSession]
  /\ request = [r \in Request |-> Idle]
  /\ clock = 0

is_bootstrap_mode == users = {}

At(r, pc) == request[r].pc = pc
GoesTo(r, pc) == request' = [request EXCEPT ![r].pc = pc]
Responds(r) == request' = [request EXCEPT ![r] = Idle]

-----------------------------------------------------------------------------
(* auth_gate *)

\* A request reaches the server.
Arrives(r, kind, n, t, h) ==
  /\ At(r, "idle")
  /\ n = NoName <=> kind \notin {"register", "login"}
  /\ t # NoToken => session[t].state # "unused"
  /\ request' = [request EXCEPT ![r] =
       [Idle EXCEPT !.pc = "gate", !.kind = kind, !.name = n, !.token = t,
                    !.header = h, !.late = users # {},
                    !.ended = t # NoToken /\ session[t].state = "deleted"]]
  /\ UNCHANGED <<users, password, session, clock>>

\* The event loop runs one gate at a time.
GateIsFree == \A q \in Request : request[q].pc \notin GatePhases

\* Who may pass once request.state.user is u (the last lines of auth_gate)
Passes(r, u) ==
  IF request[r].kind # "protected" \/ u # NoName
  THEN request' = [request EXCEPT ![r].user = u, ![r].pc = "admitted"]
  ELSE Responds(r)

Gate(r) ==
  /\ At(r, "gate") /\ GateIsFree
  /\ \/ is_bootstrap_mode /\ GoesTo(r, "admitted")
     \/ /\ ~is_bootstrap_mode
        /\ IF request[r].header # NoName THEN GoesTo(r, "proxy")
           ELSE IF request[r].token # NoToken THEN GoesTo(r, "resolve")
           ELSE Passes(r, NoName)
  /\ UNCHANGED <<users, password, session, clock>>

\* resolve_session: read the row,
ResolveSession(r) ==
  LET s == session[request[r].token] IN
  /\ At(r, "resolve")
  /\ IF s.state # "live"
     THEN Passes(r, NoName)
     ELSE request' = [request EXCEPT
            ![r].now = clock,
            ![r].pc = CASE s.expires_at <= clock -> "expired"
                        [] s.expires_at > clock /\ clock - s.last_seen >= TouchEvery -> "touch"
                        [] OTHER -> "owner"]
  /\ UNCHANGED <<users, password, session, clock>>

\* the DELETE shared by an expired session and a logout,
delete_session(t) == session' = [session EXCEPT ![t].state =
                                    IF @ = "live" THEN "deleted" ELSE @]

DeleteExpired(r) ==
  /\ At(r, "expired")
  /\ delete_session(request[r].token)
  /\ Passes(r, NoName)
  /\ UNCHANGED <<users, password, clock>>

\* an UPDATE, so that a row deleted meanwhile stays deleted.
\* Mutants: written as INSERT OR REPLACE; last_seen_at moved without expires_at.
touch_session_upserts(t, now) ==
  session' = [session EXCEPT ![t].state = "live", ![t].expires_at = now + TTL,
                             ![t].last_seen = now]
touch_session_keeps_expiry(t, now) ==
  session' = [session EXCEPT ![t].last_seen = now]
touch_session(t, now) ==
  session' = IF session[t].state = "live"
             THEN [session EXCEPT ![t].expires_at = now + TTL, ![t].last_seen = now]
             ELSE session

TouchSession(r) ==
  /\ At(r, "touch")
  /\ touch_session(request[r].token, request[r].now)
  /\ GoesTo(r, "owner")
  /\ UNCHANGED <<users, password, clock>>

\* ... and get_user of the row read first: accounts are never deleted.
GetOwner(r) ==
  /\ At(r, "owner")
  /\ Passes(r, session[request[r].token].user)
  /\ UNCHANGED <<users, password, session, clock>>

\* resolve_or_create_proxy_user
ProxyUser(r) ==
  /\ At(r, "proxy")
  /\ IF request[r].header \in users THEN Passes(r, request[r].header) ELSE GoesTo(r, "provision")
  /\ UNCHANGED <<users, password, session, clock>>

\* INSERT into user: the UNIQUE column makes it fail if the name was taken
\* meanwhile, and the request ends in an error.
create_user(n, with_password) ==
  /\ n \notin users
  /\ users' = users \union {n}
  /\ password' = IF with_password THEN password \union {n} ELSE password

ProvisionProxyUser(r) ==
  /\ At(r, "provision")
  /\ \/ create_user(request[r].header, FALSE) /\ Passes(r, request[r].header)
     \/ /\ request[r].header \in users
        /\ Responds(r) /\ UNCHANGED <<users, password>>
  /\ UNCHANGED <<session, clock>>

-----------------------------------------------------------------------------
(* The handlers *)

\* Mutant: a register that asks for no user.
RegisterBegins_open(r) ==
  /\ At(r, "admitted") /\ request[r].kind = "register"
  /\ request' = [request EXCEPT ![r].bootstrap = is_bootstrap_mode, ![r].pc = "register"]
  /\ UNCHANGED <<users, password, session, clock>>

RegisterBegins(r) ==
  /\ At(r, "admitted") /\ request[r].kind = "register"
  /\ IF ~is_bootstrap_mode /\ request[r].user = NoName
     THEN Responds(r)
     ELSE request' = [request EXCEPT ![r].bootstrap = is_bootstrap_mode, ![r].pc = "register"]
  /\ UNCHANGED <<users, password, session, clock>>

RegisterLooksUp(r) ==
  /\ At(r, "register")
  /\ IF request[r].name \in users THEN Responds(r) ELSE GoesTo(r, "create")
  /\ UNCHANGED <<users, password, session, clock>>

\* Mutant: every new account is logged in at once.
RegisterCreates_logs_in(r) ==
  /\ At(r, "create")
  /\ \/ create_user(request[r].name, TRUE) /\ GoesTo(r, "first_session")
     \/ /\ request[r].name \in users
        /\ Responds(r) /\ UNCHANGED <<users, password>>
  /\ UNCHANGED <<session, clock>>

RegisterCreates(r) ==
  /\ At(r, "create")
  /\ \/ /\ create_user(request[r].name, TRUE)
        /\ IF request[r].bootstrap THEN GoesTo(r, "first_session") ELSE Responds(r)
     \/ /\ request[r].name \in users
        /\ Responds(r) /\ UNCHANGED <<users, password>>
  /\ UNCHANGED <<session, clock>>

\* A token no one has seen before and its row; the response sets the cookie.
create_session(r) ==
  /\ \E t \in Token :
       /\ session[t].state = "unused"
       /\ session' = [session EXCEPT ![t] =
            [state |-> "live", user |-> request[r].name,
             expires_at |-> clock + TTL, last_seen |-> clock]]
  /\ Responds(r)

FirstSession(r) ==
  /\ At(r, "first_session")
  /\ create_session(r)
  /\ UNCHANGED <<users, password, clock>>

\* get_user_by_username and verify_password, then create_session
LoginLooksUp(r) ==
  /\ At(r, "admitted") /\ request[r].kind = "login"
  /\ \/ request[r].name \in password /\ GoesTo(r, "login")
     \/ Responds(r)                           \* unknown name, wrong password
  /\ UNCHANGED <<users, password, session, clock>>

LoginCreates(r) ==
  /\ At(r, "login")
  /\ create_session(r)
  /\ UNCHANGED <<users, password, clock>>

Logout(r) ==
  /\ At(r, "admitted") /\ request[r].kind = "logout"
  /\ IF request[r].token # NoToken THEN delete_session(request[r].token) ELSE UNCHANGED session
  /\ Responds(r)
  /\ UNCHANGED <<users, password, clock>>

Serve(r) ==
  /\ At(r, "admitted") /\ request[r].kind = "protected"
  /\ Responds(r)
  /\ UNCHANGED <<users, password, session, clock>>

-----------------------------------------------------------------------------
\* The service is restarted: requests are gone, rows are not.
Restart ==
  /\ request' = [r \in Request |-> Idle]
  /\ UNCHANGED <<users, password, session, clock>>

Tick ==
  /\ clock < MaxTime
  /\ clock' = clock + 1
  /\ UNCHANGED <<users, password, session, request>>

GateStep(r) ==
  Gate(r) \/ ResolveSession(r) \/ DeleteExpired(r) \/ TouchSession(r) \/ GetOwner(r)
    \/ ProxyUser(r) \/ ProvisionProxyUser(r)

HandlerStep(r) ==
  RegisterBegins(r) \/ RegisterLooksUp(r) \/ RegisterCreates(r) \/ FirstSession(r)
    \/ LoginLooksUp(r) \/ LoginCreates(r) \/ Logout(r) \/ Serve(r)

Next ==
  \/ \E r \in Request :
       \/ \E k \in Kinds, n \in Name \union {NoName}, t \in Token \union {NoToken},
            h \in ProxyNames \union {NoName} : Arrives(r, k, n, t, h)
       \/ GateStep(r)
       \/ HandlerStep(r)
  \/ Restart
  \/ Tick

Spec == Init /\ [][Next]_vars

-----------------------------------------------------------------------------
(* Properties *)

\* A session that was logged out or found expired is over: a request that
\* arrives with it afterwards is nobody's, also when an earlier request with
\* the same cookie is still between reading the row and sliding its expiry
\* forward (resolve_session, touch_session).
EndedSessionStaysEnded ==
  \A r \in Request :
    request[r].ended /\ request[r].header = NoName => request[r].user = NoName

\* The INSERT of register's account, in this step.
Registers(r) == At(r, "create") /\ users' # users /\ request'[r] # request[r]

\* routes_auth.py: "once the first account exists, creating another one requires
\* being logged in already".  The handlers of two first accounts break this: both
\* read bootstrap mode before either has its INSERT (run two_first_accounts).
AdditionalNeedsLogin ==
  [][\A r \in Request : Registers(r) /\ users # {} => request[r].user # NoName]_vars

\* What is left of that rule: the requests that make accounts without a login are
\* those that reached the server before there was any account, however the gate,
\* register's own reading of bootstrap mode, its look at the name and its INSERT
\* interleave with others.  No later request does.
AnonymousAccountsAreFirst ==
  \A r \in Request :
    request[r].pc \in {"register", "create", "first_session"} /\ request[r].user = NoName
      => ~request[r].late

\* "Creating an additional account while already logged in must never switch
\* the caller's own session" (register), which reads bootstrap mode anew after
\* the gate did; and whoever created the very first account is logged in.
RegisterKeepsCaller ==
  \A r \in Request :
    /\ At(r, "first_session") => request[r].user = NoName
    /\ At(r, "create") /\ users = {} => request[r].bootstrap

\* Using a session keeps it: a request that is let in by it leaves it valid for
\* the whole of SESSION_TTL, less the interval in which the row is not touched.
UseExtendsSession ==
  \A r \in Request :
    At(r, "admitted") /\ request[r].user # NoName /\ request[r].header = NoName
      => LET s == session[request[r].token] IN
         s.state = "live" => s.expires_at > request[r].now + TTL - TouchEvery
=============================================================================
