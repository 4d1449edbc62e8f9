------------------------------ MODULE HttpApi ------------------------------
(***************************************************************************)
(* A request on its way from a client over gateway-api to one of the API    *)
(* services and its calls of the RPC services.  The gateway turns the login *)
(* token into a user, a time and a signature in three headers, and the Auth *)
(* middleware of user-api and order-api turns those into the user of the    *)
(* request's context.  Time passes, and the clock of an API service differs *)
(* from that of the gateway.  An OPTIONS request is answered by the CORS    *)
(* middleware before all of this.                                           *)
(***************************************************************************)
EXTENDS ApiEndpoints

CONSTANTS
    Requests,      \* requests in flight
    Paths,         \* the paths that clients use
    MaxRows,       \* ticket users have ids up to it (bound of the instance)
    Bodies,        \* what a body names: a row, an order or a user, or Unreadable
    Payer,         \* order -> the user of its pay bill
    AccessExpire,  \* life of a login token, in ticks
    ClockSkew,     \* GatewayAuth.MaxClockSkewSeconds, in ticks
    Claimed,       \* users that clients claim to be in the gateway's headers
    Drifts,        \* clock of the API services minus that of the gateway
    PerfPaths,     \* PerfMode.AllowedPaths, empty if the mode is off
    Beside,        \* paths of requests that others come before or beside
    MaxTime, MaxRequests \* with Beside, bounds of the instance

ASSUME HttpAssumption ==
    /\ AccessExpire \in Nat /\ ClockSkew \in Nat \ {0} /\ Drifts \subseteq Int
    /\ MaxRows \in Nat /\ Users \subseteq 1..MaxRows
    /\ Bodies \subseteq 1..MaxRows \cup {Unreadable}
    /\ Payer \in [1..MaxRows -> Users]

VARIABLES
    now,      \* the gateway's clock
    drift,
    tokens,   \* login tokens that user-rpc has signed
    owner,    \* ticket user -> its user, Nobody if there is no row
    issued,   \* the ids that ticket users have had
    request,
    sent      \* paths of the requests sent so far

rows == <<owner, issued>>
vars == <<now, drift, tokens, rows, request, sent>>

Rows == 1..MaxRows
Never == -1

NoToken == [user |-> Nobody, exp |-> 0]
NoIdentity == [user |-> Nobody, at |-> 0, signed |-> FALSE]
Idle == [at |-> "idle"]

Init ==
    /\ now = 0
    /\ drift \in Drifts
    /\ tokens = {[user |-> u, exp |-> AccessExpire] : u \in Users}
    /\ owner = [x \in Rows |-> IF x \in Users THEN x ELSE Nobody]
    /\ issued = Users
    /\ request = [r \in Requests |-> Idle]
    /\ sent = <<>>

-----------------------------------------------------------------------------
(* Clients.  "identity" is what a client puts itself in the headers that    *)
(* are the gateway's, "perf" the user of a load test that has the secret.   *)
(* "bearer" and "checked" are history: the token of the request and when    *)
(* the gateway looked at it.                                                *)

Send(r, at, path, token, identity, perf, x) ==
    /\ sent' = Append(sent, path)
    /\ request' = [request EXCEPT ![r] =
         [at |-> at, path |-> path, authorization |-> token, identity |-> identity,
          perf |-> perf, id |-> x, context |-> Nobody, ask |-> Ask("none", Nobody, 0),
          bearer |-> token, checked |-> Never, status |-> "none"]]
    /\ UNCHANGED <<now, drift, tokens, rows>>

SetRequest(r, new) == request' = [request EXCEPT ![r] = new]

Answer(r, status) == SetRequest(r, [request[r] EXCEPT !.at = "answered", !.status = status])

\* The client has the answer.
Receive(r) ==
    /\ request[r] # Idle /\ request[r].at = "answered"
    /\ SetRequest(r, Idle)
    /\ UNCHANGED <<now, drift, tokens, rows, sent>>

-----------------------------------------------------------------------------
(* Tokens                                                                   *)

CreateToken(u) == [user |-> u, exp |-> now + AccessExpire]

ParseToken(t) == t \in tokens /\ now < t.exp

\* The user of a Bearer token, Nobody if there is none or it is not valid.
Authenticate(q) == IF ParseToken(q.authorization) THEN q.authorization.user ELSE Nobody

AuthenticatePerfRequest(q) == q.perf

RequiresPerfAuth(path) == path \in PerfPaths

AuthenticateAtGateway(q) ==
    IF RequiresPerfAuth(q.path) /\ AuthenticatePerfRequest(q) # Nobody
    THEN AuthenticatePerfRequest(q) ELSE Authenticate(q)

-----------------------------------------------------------------------------
(* gateway-api                                                              *)

\* The paths that the configuration forwards.
Mappings ==
    {<<"user", "register">>, <<"user", "exist">>, <<"user", "login">>, <<"user", "get", "id">>,
     <<"user", "get", "mobile">>, <<"user", "logout">>, <<"user", "update">>,
     <<"user", "update", "email">>, <<"user", "update", "mobile">>,
     <<"user", "update", "password">>, <<"user", "authentication">>,
     <<"user", "get", "user", "ticket", "list">>, <<"ticket", "user", "list">>,
     <<"ticket", "user", "add">>, <<"ticket", "user", "delete">>,
     <<"program", "category", "select", "all">>, <<"program", "detail">>,
     <<"program", "home", "list">>, <<"program", "page">>, <<"program", "preorder", "detail">>,
     <<"ticket", "category", "select", "list", "by", "program">>,
     <<"order", "account", "order", "count">>, <<"order", "cancel">>,
     <<"order", "purchase", "token">>, <<"order", "create">>, <<"order", "poll">>,
     <<"order", "get">>, <<"order", "get", "cache">>, <<"order", "pay">>,
     <<"order", "pay", "check">>, <<"order", "refund">>, <<"order", "select", "list">>,
     <<"pay", "common", "pay">>, <<"pay", "detail">>, <<"pay", "refund">>}

PublicUserPaths == {<<"user", "register">>, <<"user", "exist">>, <<"user", "login">>}

\* Faulty: the paths of the ticket users are forgotten.
RequiresAuthShort(path) ==
    IF path[1] = "user" THEN path \notin PublicUserPaths ELSE path[1] \in {"order", "pay", "agent"}

RequiresAuth(path) ==
    IF path[1] = "user" THEN path \notin PublicUserPaths
    ELSE path[1] \in {"order", "pay", "agent"} \/ (path[1] = "ticket" /\ path[2] = "user")

SignGatewayIdentity(u, t) == [user |-> u, at |-> t, signed |-> TRUE]

ClearGatewayIdentityHeaders(q) == [q EXCEPT !.identity = NoIdentity]

ClearExternalAuthHeaders(q) == [q EXCEPT !.authorization = NoToken]

AttachGatewayIdentityHeaders(q, u) == [q EXCEPT !.identity = SignGatewayIdentity(u, now)]

\* AuthMiddleware.Handle, behind the router, which knows the mappings.
Gateway(r) ==
    LET q == ClearGatewayIdentityHeaders(request[r])
        u == AuthenticateAtGateway(q)
        forwarded == [ClearExternalAuthHeaders(q) EXCEPT !.at = "service", !.checked = now]
    IN /\ request[r] # Idle /\ request[r].at = "gateway"
       /\ \/ q.path \notin Mappings /\ Answer(r, "notFound")
          \/ q.path \in Mappings /\ ~RequiresAuth(q.path) /\ SetRequest(r, forwarded)
          \/ /\ q.path \in Mappings /\ RequiresAuth(q.path)
             /\ IF u = Nobody THEN Answer(r, "unauthorized")
                ELSE SetRequest(r, AttachGatewayIdentityHeaders(forwarded, u))
       /\ UNCHANGED <<now, drift, tokens, rows, sent>>

-----------------------------------------------------------------------------
(* The API services                                                         *)

\* The routes of the services, behind the Auth middleware and without it.
AuthPaths == {route[1] : route \in AuthRoutes(Nobody, 0)}
PublicPaths == {route[1] : route \in PublicRoutes(Nobody, 0)}

\* Faulty: a header that is too old is taken all the same.
AuthenticateGatewayIdentityOld(h) ==
    IF h.user # Nobody /\ h.signed /\ h.at <= now + drift + ClockSkew THEN h.user ELSE Nobody

AuthenticateGatewayIdentity(h) ==
    IF /\ h.user # Nobody
       /\ h.at >= now + drift - ClockSkew /\ h.at <= now + drift + ClockSkew
       /\ h.signed
    THEN h.user ELSE Nobody

WithUserID(q, u) == [q EXCEPT !.context = u]

\* The router of the service and, in front of the routes that have it, Auth.
AuthMiddleware(r) ==
    LET q == request[r]
        u == AuthenticateGatewayIdentity(q.identity)
    IN /\ q # Idle /\ q.at = "service"
       /\ \/ /\ q.path \in AuthPaths
             /\ IF u = Nobody THEN Answer(r, "unauthorized")
                ELSE SetRequest(r, [WithUserID(q, u) EXCEPT !.at = "logic"])
          \/ /\ q.path \in PublicPaths
             /\ SetRequest(r, [q EXCEPT !.at = "logic"])
          \/ /\ q.path \notin AuthPaths \cup PublicPaths
             /\ Answer(r, "notFound")
       /\ UNCHANGED <<now, drift, tokens, rows, sent>>

\* What the handler of the path asks.
Routes(q) ==
    IF q.path \in AuthPaths THEN AuthRoutes(q.context, q.id) ELSE PublicRoutes(q.context, q.id)

Routed(q) == {route[2] : route \in {s \in Routes(q) : s[1] = q.path}}

\* Endpoints that call a service once.  Login answers with a token, and a new
\* ticket user gets an id that no row has had.
Serve(r) ==
    LET q == request[r] IN
    /\ q # Idle /\ q.at = "logic"
    /\ q.path \notin {<<"ticket", "user", "delete">>, <<"pay", "refund">>}
    /\ \E ask \in Routed(q) :
       /\ IF ask \in {Unauthorized, BadRequest} THEN Answer(r, ask.method)
          ELSE SetRequest(r, [q EXCEPT !.at = "answered", !.ask = ask, !.status = "ok"])
       /\ tokens' = IF ask.method = "Login" /\ ask.id \in Users
                    THEN tokens \cup {CreateToken(ask.id)} ELSE tokens
       /\ IF ask.method = "AddTicketUser"
          THEN \E x \in Rows \ issued :
                 /\ issued' = issued \cup {x}
                 /\ owner' = [owner EXCEPT ![x] = ask.user]
          ELSE UNCHANGED rows
    /\ UNCHANGED <<now, drift, sent>>

\* Endpoints that call twice.  The first call of DeleteTicketUser lists the
\* rows of the caller, and that of Refund gets the bill of the order.
ContainsTicketUserID(u, x) == x \in Rows /\ owner[x] = u

ServeFirst(r) ==
    LET q == request[r] IN
    /\ q # Idle /\ q.at = "logic"
    /\ q.path \in {<<"ticket", "user", "delete">>, <<"pay", "refund">>}
    /\ \E ask \in Routed(q) :
       \/ ask \in {Unauthorized, BadRequest} /\ Answer(r, ask.method)
       \/ ask.method = "GetPayBill" /\ SetRequest(r, [q EXCEPT !.at = "second", !.ask = ask])
       \/ /\ ask.method = "ListTicketUsers"
          /\ IF ContainsTicketUserID(ask.user, q.id)
             THEN SetRequest(r, [q EXCEPT !.at = "second", !.ask = ask])
             ELSE Answer(r, "unauthorized")
    /\ UNCHANGED <<now, drift, tokens, rows, sent>>

\* The second call, by the id of the row alone; its user is history: whose row it is.
DeleteTicketUserRow(r) ==
    LET q == request[r] IN
    /\ q # Idle /\ q.at = "second" /\ q.path = <<"ticket", "user", "delete">>
    /\ owner' = [owner EXCEPT ![q.id] = Nobody]
    /\ SetRequest(r, [q EXCEPT !.at = "answered", !.status = "ok",
                        !.ask = Ask("DeleteTicketUser", owner[q.id], q.id)])
    /\ UNCHANGED <<now, drift, tokens, issued, sent>>

RefundPayBill(r) ==
    LET q == request[r] IN
    /\ q # Idle /\ q.at = "second" /\ q.path = <<"pay", "refund">>
    /\ SetRequest(r, [q EXCEPT !.at = "answered", !.status = "ok",
                        !.ask = Ask("Refund", Payer[q.id], q.id)])
    /\ UNCHANGED <<now, drift, tokens, rows, sent>>

\* A call fails or times out: the handler answers with the error.
CallFails(r) ==
    /\ request[r] # Idle /\ request[r].at \in {"logic", "second"}
    /\ Answer(r, "error")
    /\ UNCHANGED <<now, drift, tokens, rows, sent>>

Tick ==
    /\ now < MaxTime
    /\ now' = now + 1
    /\ UNCHANGED <<drift, tokens, rows, request, sent>>

-----------------------------------------------------------------------------
Forged == {NoIdentity} \cup {[user |-> u, at |-> now, signed |-> FALSE] : u \in Claimed}

\* From outside over the gateway, and from inside past it.
Client(r) ==
    /\ request[r] = Idle
    /\ Len(sent) < MaxRequests
    /\ \A k \in DOMAIN sent : sent[k] \in Beside
    /\ \E path \in {p \in Paths : sent = <<>> \/ p \in Beside},
          token \in tokens \cup {NoToken}, identity \in Forged, x \in Bodies :
        \/ \E perf \in IF path \in PerfPaths THEN {Nobody} \cup Users ELSE {Nobody} :
             Send(r, "gateway", path, token, identity, perf, x)
        \/ Send(r, "service", path, token, identity, Nobody, x)

Next ==
    \/ \E r \in Requests :
         \/ Client(r) \/ Receive(r)
         \/ Gateway(r) \/ AuthMiddleware(r)
         \/ Serve(r) \/ ServeFirst(r) \/ DeleteTicketUserRow(r) \/ RefundPayBill(r)
         \/ CallFails(r)
    \/ Tick

Spec == Init /\ [][Next]_vars

-----------------------------------------------------------------------------
(* For whom the gateway lets a request pass.                                *)
Vouched(q) ==
    IF q.checked = Never THEN Nobody
    ELSE IF q.path \in PerfPaths /\ q.perf # Nobody THEN q.perf
    ELSE IF q.bearer \in tokens /\ q.checked < q.bearer.exp THEN q.bearer.user ELSE Nobody

\* For whom a call of an endpoint behind Auth is: the caller.  Two take something
\* else of the body: Logout a token, whose user it logs out, and the second call of
\* DeleteTicketUser the id of a row, which is the caller's or, after another delete,
\* nobody's.
ForCaller(q, caller) ==
    CASE q.ask.method = "Logout" -> q.ask.user = q.id
      [] q.ask.method = "DeleteTicketUser" -> q.ask.user \in {caller, Nobody}
      [] OTHER -> q.ask.user = caller

\* An endpoint behind the Auth middleware calls only for a caller whose token the
\* gateway has verified: for none if the gateway was passed by, whatever headers the
\* client has set, and for that caller whatever user its body names, also when rows
\* are added and deleted between its two calls.  The exception is Logout.
CallsForCaller ==
    \A r \in Requests :
        LET q == request[r] IN
        q # Idle /\ q.path \in AuthPaths /\ q.ask.method # "none" =>
            Vouched(q) # Nobody /\ ForCaller(q, Vouched(q))

\* A service that takes a user from the headers does so in time.
TakenInTime(r) ==
    LET q == request[r] IN
    q # Idle /\ q.at = "service" /\ request'[r] # Idle /\ request'[r].context # Nobody
      /\ q.perf = Nobody =>
        now + drift < q.bearer.exp + ClockSkew

\* Who is refused has no valid token, was too long on the way, or asks for
\* another user's row.
RefusedRightly(r) ==
    LET q == request[r] IN
    q # Idle /\ request'[r] # Idle /\ request'[r].status = "unauthorized" =>
        \/ q.at = "gateway" /\ ~(q.bearer \in tokens /\ now < q.bearer.exp)
        \/ q.at = "service" /\ Vouched(q) = Nobody
        \/ q.at = "service" /\ q.checked \notin (now + drift - ClockSkew)..(now + drift + ClockSkew)
        \/ q.at = "logic" /\ q.path = <<"ticket", "user", "delete">> /\ owner[q.id] # q.context
        \/ q.at = "answered"

\* Authentication is neither too lax nor too strict: a request that waits on its
\* way is refused, the latest when its token has been invalid for the skew that
\* is allowed and by which the clocks differ; and as the lists of paths of the
\* gateway, the routes with Auth and the endpoints agree, who sends a valid token
\* is not refused, unless the request was longer on its way than the skew.
AuthExact == [][\A r \in Requests : TakenInTime(r) /\ RefusedRightly(r)]_vars
=============================================================================
