---------------------------- MODULE HttpApiProofs ----------------------------
(***************************************************************************)
(* Proofs about HttpApi, for any users, requests, clients' claims, clocks,  *)
(* paths and numbers of requests.  First what the endpoints ask for, then   *)
(* the invariant of a request on its way.                                   *)
(***************************************************************************)
EXTENDS HttpApi, TLAPS

-----------------------------------------------------------------------------
(* What the endpoints ask.                                                  *)

\* A call of an endpoint behind Auth: refused, or for the user of the context.
Own(ask, u, x) ==
    /\ \/ ask \in {Unauthorized, BadRequest}
       \/ ask.user = IF ask.method = "Logout" THEN x ELSE u
    /\ ask.method # "GetPayBill"
    /\ u # Nobody => ask # Unauthorized
    /\ x = Unreadable => ask = BadRequest

LEMMA OwnParsed ==
    ASSUME NEW u \in Nat, NEW x \in Int, NEW ask, ask # Unauthorized, ask.method # "GetPayBill",
           ask.user = IF ask.method = "Logout" THEN x ELSE u
    PROVE  /\ Own(Parse(x, ask), u, x)
           /\ Own(Parse(x, RequireCurrentUserID(u, ask)), u, x)
           /\ Own(Parse(x, UserIDFromContext(u, ask)), u, x)
  <1>1. /\ Unauthorized # BadRequest
        /\ Unauthorized.method # "GetPayBill" /\ BadRequest.method # "GetPayBill"
    <2>1. Unauthorized.method = "unauthorized" /\ BadRequest.method = "badRequest"
      BY DEF Unauthorized, BadRequest, Ask
    <2> QED
      BY <2>1
  <1> QED
    BY <1>1 DEF Own, Parse, RequireCurrentUserID, UserIDFromContext, Nobody

LEMMA UserAuthAsks ==
    ASSUME NEW u \in Nat, NEW x \in Int, NEW route \in UserAuthRoutes(u, x)
    PROVE  Own(route[2], u, x)
  <1> DEFINE Mine(method, y) == Own(Parse(x, RequireCurrentUserID(u, Ask(method, u, y))), u, x)
  <1>1. ASSUME NEW method, method \notin {"unauthorized", "Logout", "GetPayBill"}, NEW y \in {0, x}
        PROVE  Mine(method, y)
    <2>1. /\ Ask(method, u, y).method = method /\ Unauthorized.method = "unauthorized"
          /\ Ask(method, u, y).user = u
      BY DEF Ask, Unauthorized
    <2> QED
      BY <1>1, <2>1, OwnParsed
  <1>2. Own(LogoutHandler(u, x), u, x)
    <2>1. /\ Logout(u, x).method = "Logout" /\ Logout(u, x).user = x
          /\ Unauthorized.method = "unauthorized"
      BY DEF Logout, Ask, Unauthorized
    <2> QED
      BY <2>1, OwnParsed DEF LogoutHandler
  <1>3. /\ Own(AddTicketUserHandler(u, x), u, x)
        /\ Own(DeleteTicketUserHandler(u, x), u, x)
        /\ Own(ListTicketUsersHandler(u, x), u, x)
        /\ Own(AuthenticationHandler(u, x), u, x)
    BY <1>1 DEF AddTicketUserHandler, DeleteTicketUserHandler, ListTicketUsersHandler,
                AuthenticationHandler, AddTicketUser, DeleteTicketUser, ListTicketUsers, Authentication
  <1>4. /\ Own(GetUserByIDHandler(u, x), u, x)
        /\ Own(GetUserByMobileHandler(u, x), u, x)
        /\ Own(GetUserAndTicketUserListHandler(u, x), u, x)
    BY <1>1 DEF GetUserByIDHandler, GetUserByMobileHandler, GetUserAndTicketUserListHandler,
                GetUserByID, GetUserByMobile, GetUserAndTicketUserList
  <1>5. /\ Own(UpdateUserHandler(u, x), u, x)
        /\ Own(UpdateEmailHandler(u, x), u, x)
        /\ Own(UpdateMobileHandler(u, x), u, x)
        /\ Own(UpdatePasswordHandler(u, x), u, x)
    BY <1>1 DEF UpdateUserHandler, UpdateEmailHandler, UpdateMobileHandler, UpdatePasswordHandler,
                UpdateUser, UpdateEmail, UpdateMobile, UpdatePassword
  <1> QED
    BY <1>2, <1>3, <1>4, <1>5 DEF UserAuthRoutes

LEMMA OrderAuthAsks ==
    ASSUME NEW u \in Nat, NEW x \in Int, NEW route \in OrderAuthRoutes(u, x)
    PROVE  Own(route[2], u, x)
  <1> DEFINE Mine(method, y) == Own(Parse(x, UserIDFromContext(u, Ask(method, u, y))), u, x)
  <1>1. ASSUME NEW method, method \notin {"unauthorized", "Logout", "GetPayBill"}, NEW y \in {0, x}
        PROVE  Mine(method, y)
    <2>1. /\ Ask(method, u, y).method = method /\ Unauthorized.method = "unauthorized"
          /\ Ask(method, u, y).user = u
      BY DEF Ask, Unauthorized
    <2> QED
      BY <1>1, <2>1, OwnParsed
  <1>2. /\ Own(CancelOrderHandler(u, x), u, x)
        /\ Own(CreateOrderHandler(u, x), u, x)
        /\ Own(CreatePurchaseTokenHandler(u, x), u, x)
        /\ Own(GetOrderHandler(u, x), u, x)
        /\ Own(ListOrdersHandler(u, x), u, x)
    BY <1>1 DEF CancelOrderHandler, CreateOrderHandler, CreatePurchaseTokenHandler, GetOrderHandler,
                ListOrdersHandler, CancelOrder, CreateOrder, CreatePurchaseToken, GetOrder, ListOrders
  <1>3. /\ Own(PayCheckHandler(u, x), u, x)
        /\ Own(PayOrderHandler(u, x), u, x)
        /\ Own(PollOrderHandler(u, x), u, x)
        /\ Own(RefundOrderHandler(u, x), u, x)
    BY <1>1 DEF PayCheckHandler, PayOrderHandler, PollOrderHandler, RefundOrderHandler,
                PayCheck, PayOrder, PollOrder, RefundOrder
  <1> QED
    BY <1>2, <1>3 DEF OrderAuthRoutes

LEMMA AuthAsks ==
    ASSUME NEW u \in Nat, NEW x \in Int, NEW route \in AuthRoutes(u, x)
    PROVE  Own(route[2], u, x)
  BY UserAuthAsks, OrderAuthAsks DEF AuthRoutes

\* A call of an endpoint without Auth is refused only for its body.
Open(ask, x) ==
    /\ ask # Unauthorized /\ ask.method \notin {"ListTicketUsers", "AddTicketUser"}
    /\ x = Unreadable => ask = BadRequest

LEMMA PublicAsks ==
    ASSUME NEW u, NEW x, NEW route \in PublicRoutes(u, x)
    PROVE  Open(route[2], x)
  <1>1. ASSUME NEW method, method \notin {"unauthorized", "ListTicketUsers", "AddTicketUser"}, NEW v, NEW y
        PROVE  Open(Parse(x, Ask(method, v, y)), x)
    <2>1. /\ Ask(method, v, y).method = method
          /\ Unauthorized.method = "unauthorized" /\ BadRequest.method = "badRequest"
      BY DEF Ask, Unauthorized, BadRequest
    <2> QED
      BY <1>1, <2>1 DEF Open, Parse
  <1>2. /\ Open(ExistHandler(u, x), x)
        /\ Open(LoginHandler(u, x), x)
        /\ Open(RegisterHandler(u, x), x)
    BY <1>1 DEF ExistHandler, LoginHandler, RegisterHandler, Exist, Login, Register
  <1>3. /\ Open(AccountOrderCountHandler(u, x), x)
        /\ Open(GetOrderCacheHandler(u, x), x)
        /\ Open(CommonPayHandler(u, x), x)
        /\ Open(GetPayBillHandler(u, x), x)
        /\ Open(RefundHandler(u, x), x)
    BY <1>1 DEF AccountOrderCountHandler, GetOrderCacheHandler, CommonPayHandler,
                GetPayBillHandler, RefundHandler, AccountOrderCount, GetOrderCache, CommonPay,
                GetPayBill, Refund
  <1>4. /\ Open(AddProgramHandler(u, x), x)
        /\ Open(BatchCreateProgramCategoriesHandler(u, x), x)
        /\ Open(ListProgramCategoriesHandler(u, x), x)
        /\ Open(ListProgramCategoriesByParentHandler(u, x), x)
        /\ Open(ListProgramCategoriesByTypeHandler(u, x), x)
        /\ Open(GetProgramDetailViewHandler(u, x), x)
        /\ Open(ListHomeProgramsHandler(u, x), x)
    BY <1>1 DEF AddProgramHandler, BatchCreateProgramCategoriesHandler,
                ListProgramCategoriesHandler, ListProgramCategoriesByParentHandler,
                ListProgramCategoriesByTypeHandler, GetProgramDetailViewHandler,
                ListHomeProgramsHandler, AddProgram, BatchCreateProgramCategories,
                ListProgramCategories, ListProgramCategoriesByParent,
                ListProgramCategoriesByType, GetProgramDetailView, ListHomePrograms
  <1>5. /\ Open(InvalidProgramHandler(u, x), x)
        /\ Open(PageProgramsHandler(u, x), x)
        /\ Open(GetProgramPreorderHandler(u, x), x)
        /\ Open(ResetProgramHandler(u, x), x)
        /\ Open(CreateProgramShowTimeHandler(u, x), x)
        /\ Open(UpdateProgramHandler(u, x), x)
    BY <1>1 DEF InvalidProgramHandler, PageProgramsHandler, GetProgramPreorderHandler,
                ResetProgramHandler, CreateProgramShowTimeHandler, UpdateProgramHandler,
                InvalidProgram, PagePrograms, GetProgramPreorder, ResetProgram,
                CreateProgramShowTime, UpdateProgram
  <1>6. /\ Open(CreateSeatHandler(u, x), x)
        /\ Open(BatchCreateSeatsHandler(u, x), x)
        /\ Open(GetSeatRelateInfoHandler(u, x), x)
        /\ Open(CreateTicketCategoryHandler(u, x), x)
        /\ Open(GetTicketCategoryDetailHandler(u, x), x)
        /\ Open(ListTicketCategoriesByProgramHandler(u, x), x)
    BY <1>1 DEF CreateSeatHandler, BatchCreateSeatsHandler, GetSeatRelateInfoHandler,
                CreateTicketCategoryHandler, GetTicketCategoryDetailHandler,
                ListTicketCategoriesByProgramHandler, CreateSeat, BatchCreateSeats,
                GetSeatRelateInfo, CreateTicketCategory, GetTicketCategoryDetail,
                ListTicketCategoriesByProgram
  <1> QED
    BY <1>2, <1>3, <1>4, <1>5, <1>6
       DEF PublicRoutes, UserPublicRoutes, OrderPublicRoutes, PayRoutes, ProgramRoutes

\* The paths behind Auth: the gateway asks for a token on each, and no route without
\* Auth, such as that of a refund over pay-api, has the same path.
LEMMA AuthPathsGuarded ==
    /\ \A path \in AuthPaths : RequiresAuth(path)
    /\ AuthPaths \cap PublicPaths = {}
    /\ <<"pay", "refund">> \notin AuthPaths
  <1>1. ASSUME NEW path \in AuthPaths
        PROVE  RequiresAuth(path) /\ path \notin PublicPaths /\ path # <<"pay", "refund">>
    <2>1. PICK route \in AuthRoutes(Nobody, 0) : path = route[1]
      BY DEF AuthPaths
    <2>2. ASSUME path \in PublicPaths
          PROVE  \/ path[1] \in {"pay", "program", "seat"}
                 \/ path[1] = "ticket" /\ path[2] = "category"
                 \/ path \in PublicUserPaths
                 \/ path \in {<<"order", "account", "order", "count">>, <<"order", "get", "cache">>}
      <3>1. PICK open \in PublicRoutes(Nobody, 0) : path = open[1]
        BY <2>2 DEF PublicPaths
      <3>2. CASE open \in UserPublicRoutes(Nobody, 0)
        BY <3>1, <3>2 DEF UserPublicRoutes, PublicUserPaths
      <3>3. CASE open \in OrderPublicRoutes(Nobody, 0)
        BY <3>1, <3>3 DEF OrderPublicRoutes
      <3>4. CASE open \in PayRoutes(Nobody, 0)
        BY <3>1, <3>4 DEF PayRoutes
      <3>5. CASE open \in ProgramRoutes(Nobody, 0)
        BY <3>1, <3>5 DEF ProgramRoutes
      <3> QED
        BY <3>1, <3>2, <3>3, <3>4, <3>5 DEF PublicRoutes
    <2>3. CASE route \in UserAuthRoutes(Nobody, 0)
      <3>1. path \in {<<"ticket", "user", "add">>, <<"ticket", "user", "delete">>,
                      <<"ticket", "user", "list">>, <<"user", "authentication">>,
                      <<"user", "get", "id">>, <<"user", "get", "mobile">>,
                      <<"user", "get", "user", "ticket", "list">>, <<"user", "logout">>,
                      <<"user", "update">>, <<"user", "update", "email">>,
                      <<"user", "update", "mobile">>, <<"user", "update", "password">>}
        BY <2>1, <2>3 DEF UserAuthRoutes
      <3>2. \/ path[1] = "ticket" /\ path[2] = "user"
            \/ path[1] = "user" /\ path \notin PublicUserPaths
        BY <3>1 DEF PublicUserPaths
      <3> QED
        BY <2>2, <3>2 DEF RequiresAuth, PublicUserPaths
    <2>4. CASE route \in OrderAuthRoutes(Nobody, 0)
      <3>1. path \in {<<"order", "cancel">>, <<"order", "create">>, <<"order", "get">>,
                      <<"order", "pay">>, <<"order", "pay", "check">>, <<"order", "poll">>,
                      <<"order", "purchase", "token">>, <<"order", "refund">>,
                      <<"order", "select", "list">>}
        BY <2>1, <2>4 DEF OrderAuthRoutes
      <3>2. /\ path[1] = "order"
            /\ path \notin {<<"order", "account", "order", "count">>, <<"order", "get", "cache">>}
        BY <3>1
      <3> QED
        BY <2>2, <3>2 DEF RequiresAuth, PublicUserPaths
    <2> QED
      BY <2>1, <2>3, <2>4 DEF AuthRoutes
  <1> QED
    BY <1>1

-----------------------------------------------------------------------------
(* The invariant of a request on its way.                                   *)

Accounts == Users \cup {Nobody}

TokenRows == [user : Users, exp : Int]

AllRoutes(u, x) == AuthRoutes(u, x) \cup PublicRoutes(u, x)

Calls ==
    {route[2] : route \in UNION {UNION {AllRoutes(u, x) : x \in Bodies} : u \in Accounts}}
    \cup {Ask(method, u, x) : method \in {"none", "DeleteTicketUser", "Refund"},
                              u \in Accounts, x \in Bodies \cup {0}}

RequestRows ==
    [at : {"gateway", "service", "logic", "second", "answered"}, path : Paths,
     authorization : TokenRows \cup {NoToken}, bearer : TokenRows \cup {NoToken},
     identity : [user : Accounts \cup Claimed, at : Int, signed : BOOLEAN],
     perf : Accounts, id : Bodies, context : Accounts, ask : Calls, checked : Int,
     status : {"none", "ok", "error", "notFound", "unauthorized", "badRequest"}]

\* The calls are for the user that the gateway has vouched for.
Called(q) ==
    q.path \in AuthPaths /\ q.ask.method # "none" =>
        Vouched(q) # Nobody /\ ForCaller(q, Vouched(q))

\* The row that is about to be deleted is the caller's or gone.
RowChecked(q) ==
    q.at = "second" /\ q.path = <<"ticket", "user", "delete">> =>
        q.id \in issued /\ owner[q.id] \in {q.context, Nobody}

\* A signature is the gateway's, made when it looked at the token and for the user
\* it vouches for, and on the paths behind Auth there is one; so the user of the
\* context is that one as well.
OnWay(q) ==
    /\ q.bearer \in tokens \cup {NoToken}
    /\ q.at # "answered" => q.status = "none"
    /\ q.at \in {"gateway", "service"} => q.context = Nobody
    /\ q.at \in {"gateway", "service", "logic"} => q.ask.method = "none"
    /\ q.at = "gateway" => q.authorization = q.bearer
    /\ q.at = "service" =>
          /\ q.identity.signed => /\ q.checked # Never /\ q.identity.at = q.checked
                                  /\ q.identity.user = Vouched(q)
          /\ q.checked # Never /\ q.path \in AuthPaths => q.identity.signed
    /\ q.at \in {"logic", "second"} /\ q.path \in AuthPaths =>
          q.context # Nobody /\ q.context = Vouched(q)
    /\ q.at = "second" => q.id \in Rows
    /\ Called(q)

\* Tokens are for users, and each request is as it should be at its place.
HttpInv ==
    /\ now \in Nat /\ drift \in Int /\ tokens \subseteq TokenRows
    /\ owner \in [Rows -> Accounts] /\ issued \subseteq Rows
    /\ \A x \in Rows \ issued : owner[x] = Nobody
    /\ request \in [Requests -> {Idle} \cup RequestRows]
    /\ \A r \in Requests : request[r] # Idle => OnWay(request[r]) /\ RowChecked(request[r])

LEMMA NotIdle ==
    ASSUME NEW q \in RequestRows
    PROVE  q # Idle
  BY DEF RequestRows, Idle

\* Nobody has no account, and no token is the empty one.
LEMMA NobodyElse == Nobody \notin Users /\ Accounts \subseteq Nat /\ NoToken \notin TokenRows
  BY UsersAssumption DEF Nobody, Accounts, NoToken, TokenRows

\* What happens to the rows: a new one has a new id, and an old one changes hands to
\* nobody.
RowsStep ==
    /\ owner' \in [Rows -> Accounts] /\ issued' \subseteq Rows /\ issued \subseteq issued'
    /\ \A x \in Rows \ issued' : owner'[x] = Nobody
    /\ \A x \in issued : owner'[x] \in {owner[x], Nobody}

LEMMA RowsStay ==
    ASSUME HttpInv, UNCHANGED rows
    PROVE  RowsStep
  BY DEF HttpInv, rows, RowsStep

LEMMA RowCheckedStays ==
    ASSUME HttpInv, RowsStep, NEW q, RowChecked(q)
    PROVE  RowChecked(q)'
  BY DEF RowChecked, RowsStep

\* New tokens do not change whom the gateway has vouched for.
LEMMA VouchedStays ==
    ASSUME tokens \subseteq tokens', tokens' \subseteq TokenRows, NEW q,
           q.bearer \in tokens \cup {NoToken}
    PROVE  Vouched(q)' = Vouched(q)
  <1>1. q.bearer \in tokens' <=> q.bearer \in tokens
    BY NobodyElse
  <1> QED
    BY <1>1 DEF Vouched

LEMMA OnWayStays ==
    ASSUME tokens \subseteq tokens', tokens' \subseteq TokenRows, NEW q, OnWay(q)
    PROVE  OnWay(q)'
  <1>1. Vouched(q)' = Vouched(q)
    BY VouchedStays DEF OnWay
  <1> QED
    BY <1>1 DEF OnWay, Called, ForCaller

\* One request goes on.
LEMMA RequestStep ==
    ASSUME HttpInv, NEW r \in Requests, NEW new, SetRequest(r, new),
           new = Idle \/ (new \in RequestRows /\ OnWay(new) /\ RowChecked(new)), RowsStep,
           now' = now, drift' = drift, tokens \subseteq tokens', tokens' \subseteq TokenRows
    PROVE  HttpInv'
  <1>1. request' \in [Requests -> {Idle} \cup RequestRows]
    BY DEF HttpInv, SetRequest
  <1>2. ASSUME NEW s \in Requests, request'[s] # Idle
        PROVE  OnWay(request[s])' /\ RowChecked(request[s])'
    <2>1. PICK q : q = request'[s]
      OBVIOUS
    <2>2. OnWay(q) /\ RowChecked(q)
      <3>1. CASE s = r
        BY <1>2, <2>1, <3>1 DEF HttpInv, SetRequest
      <3>2. CASE s # r
        BY <1>2, <2>1, <3>2 DEF HttpInv, SetRequest
      <3> QED
        BY <3>1, <3>2
    <2>3. OnWay(q)' /\ RowChecked(q)'
      BY <2>2, OnWayStays, RowCheckedStays
    <2> QED
      BY <2>1, <2>3 DEF OnWay, Called, ForCaller, Vouched, RowChecked
  <1> QED
    BY <1>1, <1>2 DEF HttpInv, RowsStep

\* An answer ends the way.
LEMMA AnswerStep ==
    ASSUME NEW q \in RequestRows, OnWay(q),
           NEW status \in {"error", "notFound", "unauthorized", "badRequest"}
    PROVE  LET new == [q EXCEPT !.at = "answered", !.status = status]
           IN  new \in RequestRows /\ OnWay(new) /\ RowChecked(new)
  <1> DEFINE new == [q EXCEPT !.at = "answered", !.status = status]
  <1>1. new \in RequestRows
    BY DEF RequestRows
  <1>2. /\ new.at = "answered" /\ new.bearer = q.bearer /\ new.path = q.path
        /\ new.ask = q.ask /\ new.checked = q.checked /\ new.perf = q.perf /\ new.id = q.id
    BY DEF RequestRows
  <1> HIDE DEF new
  <1>3. Vouched(new) = Vouched(q)
    BY <1>2 DEF Vouched
  <1>4. OnWay(new) /\ RowChecked(new)
    BY <1>2, <1>3 DEF OnWay, Called, ForCaller, RowChecked
  <1> QED
    BY <1>1, <1>4 DEF new

-----------------------------------------------------------------------------
(* The steps.                                                               *)

LEMMA SendInv ==
    ASSUME HttpInv, NEW r \in Requests, Client(r)
    PROVE  HttpInv'
  <1>1. PICK at \in {"gateway", "service"}, path \in Paths, token \in tokens \cup {NoToken},
             identity \in Forged, x \in Bodies, perf \in Accounts :
                Send(r, at, path, token, identity, perf, x)
    BY DEF Client, Accounts
  <1> DEFINE new ==
         [at |-> at, path |-> path, authorization |-> token, identity |-> identity,
          perf |-> perf, id |-> x, context |-> Nobody, ask |-> Ask("none", Nobody, 0),
          bearer |-> token, checked |-> Never, status |-> "none"]
  <1>2. SetRequest(r, new) /\ UNCHANGED <<now, drift, tokens, rows>>
    BY <1>1 DEF Send, SetRequest
  <1>3. /\ identity \in [user : Accounts \cup Claimed, at : Int, signed : BOOLEAN]
        /\ ~identity.signed
    <2>1. CASE identity = NoIdentity
      BY <2>1 DEF NoIdentity, Accounts
    <2>2. CASE identity # NoIdentity
      <3>1. PICK u \in Claimed : identity = [user |-> u, at |-> now, signed |-> FALSE]
        BY <2>2 DEF Forged
      <3> QED
        BY <3>1 DEF HttpInv
    <2> QED
      BY <2>1, <2>2
  <1>4. token \in TokenRows \cup {NoToken}
    BY DEF HttpInv
  <1>5. Ask("none", Nobody, 0) \in Calls /\ Ask("none", Nobody, 0).method = "none"
    <2>1. Ask("none", Nobody, 0).method = "none"
      BY DEF Ask
    <2> QED
      BY <2>1 DEF Calls, Accounts
  <1>6. new \in RequestRows
    BY <1>3, <1>4, <1>5 DEF RequestRows, Accounts, Never
  <1>7. /\ new.at \in {"gateway", "service"} /\ new.bearer = token /\ new.authorization = token
        /\ new.context = Nobody /\ new.ask.method = "none" /\ new.checked = Never
        /\ new.status = "none" /\ new.identity = identity
    BY <1>5
  <1> HIDE DEF new
  <1>8. OnWay(new) /\ RowChecked(new)
    BY <1>3, <1>7 DEF OnWay, Called, RowChecked
  <1> QED
    BY <1>2, <1>6, <1>8, RequestStep, RowsStay DEF HttpInv

LEMMA ReceiveInv ==
    ASSUME HttpInv, NEW r \in Requests, Receive(r)
    PROVE  HttpInv'
  <1>1. RowsStep
    BY RowsStay DEF Receive
  <1> QED
    BY <1>1, RequestStep DEF Receive, HttpInv

\* The request of a step.
LEMMA RequestOnWay ==
    ASSUME HttpInv, NEW r \in Requests, request[r] # Idle
    PROVE  request[r] \in RequestRows /\ OnWay(request[r])
  BY DEF HttpInv

LEMMA AnswerInv ==
    ASSUME HttpInv, NEW r \in Requests, request[r] # Idle,
           NEW status \in {"error", "notFound", "unauthorized", "badRequest"}, Answer(r, status),
           now' = now, drift' = drift, tokens' = tokens, UNCHANGED rows
    PROVE  HttpInv'
  <1>1. PICK q : q = request[r]
    OBVIOUS
  <1>2. q \in RequestRows /\ OnWay(q)
    BY <1>1, RequestOnWay
  <1>3. SetRequest(r, [q EXCEPT !.at = "answered", !.status = status])
    BY <1>1 DEF Answer
  <1> QED
    BY <1>2, <1>3, AnswerStep, RequestStep, RowsStay DEF HttpInv

\* Whom the gateway authenticates it vouches for.
LEMMA Authenticated ==
    ASSUME NEW q, NEW new, q.authorization = q.bearer, new.checked = now, now # Never,
           new.path = q.path, new.perf = q.perf, new.bearer = q.bearer
    PROVE  Vouched(new) = AuthenticateAtGateway(q)
  BY DEF Vouched, AuthenticateAtGateway, Authenticate, AuthenticatePerfRequest, RequiresPerfAuth,
         ParseToken

\* Forwarded with the identity h, which is signed for the user that the gateway has
\* authenticated or, on a path that needs none, not at all.
LEMMA ForwardStep ==
    ASSUME HttpInv, NEW q \in RequestRows, OnWay(q), q.at = "gateway",
           NEW h \in [user : Accounts \cup Claimed, at : Int, signed : BOOLEAN],
           NEW u, u = AuthenticateAtGateway([q EXCEPT !.identity = NoIdentity]),
           \/ ~h.signed /\ q.path \notin AuthPaths
           \/ h.signed /\ h.user = u /\ h.at = now,
           NEW new \in RequestRows, new.at = "service", new.path = q.path, new.bearer = q.bearer,
           new.identity = h, new.perf = q.perf, new.context = q.context, new.ask = q.ask,
           new.checked = now, new.status = q.status
    PROVE  OnWay(new) /\ RowChecked(new)
  <1> DEFINE cleared == [q EXCEPT !.identity = NoIdentity]
  <1>1. /\ cleared.authorization = q.authorization /\ cleared.bearer = q.bearer
        /\ cleared.path = q.path /\ cleared.perf = q.perf
    BY DEF RequestRows
  <1>2. now # Never /\ q.authorization = q.bearer
    BY DEF HttpInv, Never, OnWay
  <1> HIDE DEF cleared
  <1>3. Vouched(new) = AuthenticateAtGateway(cleared)
    BY <1>1, <1>2, Authenticated
  <1>4. Vouched(new) = u
    BY <1>3 DEF cleared
  <1> QED
    BY <1>2, <1>4 DEF OnWay, Called, RowChecked

LEMMA GatewayInv ==
    ASSUME HttpInv, NEW r \in Requests, Gateway(r)
    PROVE  HttpInv'
  <1>1. PICK q : q = request[r]
    OBVIOUS
  <1>2. request[r] # Idle /\ q.at = "gateway" /\ UNCHANGED <<now, drift, tokens, rows>>
    BY <1>1 DEF Gateway
  <1>3. q \in RequestRows /\ OnWay(q)
    BY <1>1, <1>2, RequestOnWay
  <1> DEFINE cleared == [q EXCEPT !.identity = NoIdentity]
             u == AuthenticateAtGateway(cleared)
             forwarded == [[cleared EXCEPT !.authorization = NoToken] EXCEPT !.at = "service", !.checked = now]
  <1>4. /\ cleared.path = q.path /\ cleared.perf = q.perf /\ cleared.authorization = q.authorization
        /\ now \in Int /\ NoIdentity \in [user : Accounts \cup Claimed, at : Int, signed : BOOLEAN]
        /\ ~NoIdentity.signed
    BY <1>3 DEF RequestRows, HttpInv, NoIdentity, Accounts
  <1>5. \/ Answer(r, "notFound") \/ Answer(r, "unauthorized")
        \/ ~RequiresAuth(q.path) /\ SetRequest(r, forwarded)
        \/ u # Nobody /\ SetRequest(r, [forwarded EXCEPT !.identity = SignGatewayIdentity(u, now)])
    BY <1>1, <1>4 DEF Gateway, ClearGatewayIdentityHeaders, ClearExternalAuthHeaders,
                      AttachGatewayIdentityHeaders
  <1>6. CASE Answer(r, "notFound") \/ Answer(r, "unauthorized")
    BY <1>2, <1>6, AnswerInv
  <1>7. forwarded \in RequestRows
    BY <1>3, <1>4 DEF RequestRows
  <1>8. /\ forwarded.at = "service" /\ forwarded.path = q.path /\ forwarded.bearer = q.bearer
        /\ forwarded.identity = NoIdentity /\ forwarded.perf = q.perf
        /\ forwarded.context = q.context /\ forwarded.ask = q.ask /\ forwarded.checked = now
        /\ forwarded.status = q.status
    BY <1>3 DEF RequestRows
  <1> HIDE DEF forwarded, u
  <1>9. CASE ~RequiresAuth(q.path) /\ SetRequest(r, forwarded)
    <2>1. q.path \notin AuthPaths
      BY <1>9, AuthPathsGuarded
    <2>2. OnWay(forwarded) /\ RowChecked(forwarded)
      BY <1>2, <1>3, <1>4, <1>7, <1>8, <2>1, ForwardStep
    <2> QED
      BY <1>2, <1>7, <1>9, <2>2, RequestStep, RowsStay DEF HttpInv
  <1>10. CASE u # Nobody /\ SetRequest(r, [forwarded EXCEPT !.identity = SignGatewayIdentity(u, now)])
    <2> DEFINE h == SignGatewayIdentity(u, now)
               new == [forwarded EXCEPT !.identity = h]
    <2>1. u \in Accounts
      <3>1. q.perf \in Accounts /\ q.authorization \in TokenRows \cup {NoToken}
        BY <1>3 DEF RequestRows
      <3>2. q.authorization.user \in Accounts
        BY <3>1 DEF TokenRows, NoToken, Accounts
      <3> HIDE DEF cleared
      <3> QED
        BY <1>4, <3>1, <3>2 DEF u, AuthenticateAtGateway, AuthenticatePerfRequest, Authenticate, Accounts
    <2>2. /\ h \in [user : Accounts \cup Claimed, at : Int, signed : BOOLEAN]
          /\ h.signed /\ h.user = u /\ h.at = now
      BY <1>4, <2>1 DEF SignGatewayIdentity
    <2> HIDE DEF h
    <2>3. new \in RequestRows
      BY <1>7, <2>2 DEF RequestRows
    <2>4. /\ new.at = "service" /\ new.path = q.path /\ new.bearer = q.bearer
          /\ new.identity = h /\ new.perf = q.perf /\ new.context = q.context
          /\ new.ask = q.ask /\ new.checked = now /\ new.status = q.status
      BY <1>7, <1>8 DEF RequestRows
    <2> HIDE DEF new
    <2>5. OnWay(new) /\ RowChecked(new)
      BY <1>2, <1>3, <2>2, <2>3, <2>4, ForwardStep DEF u
    <2> QED
      BY <1>2, <1>10, <2>3, <2>5, RequestStep, RowsStay DEF HttpInv, new, h
  <1> QED
    BY <1>5, <1>6, <1>9, <1>10

\* What the Auth middleware takes is what the gateway has vouched for, in time.
LEMMA IdentityTaken ==
    ASSUME HttpInv, NEW q \in RequestRows, OnWay(q), q.at = "service",
           AuthenticateGatewayIdentity(q.identity) # Nobody
    PROVE  /\ AuthenticateGatewayIdentity(q.identity) = Vouched(q)
           /\ q.checked >= now + drift - ClockSkew /\ q.checked # Never
  BY DEF AuthenticateGatewayIdentity, OnWay

LEMMA AuthMiddlewareInv ==
    ASSUME HttpInv, NEW r \in Requests, AuthMiddleware(r)
    PROVE  HttpInv'
  <1>1. PICK q : q = request[r]
    OBVIOUS
  <1>2. request[r] # Idle /\ q.at = "service" /\ UNCHANGED <<now, drift, tokens, rows>>
    BY <1>1 DEF AuthMiddleware
  <1>3. q \in RequestRows /\ OnWay(q)
    BY <1>1, <1>2, RequestOnWay
  <1> DEFINE u == AuthenticateGatewayIdentity(q.identity)
             known == [[q EXCEPT !.context = u] EXCEPT !.at = "logic"]
             open == [q EXCEPT !.at = "logic"]
  <1>4. \/ Answer(r, "unauthorized") \/ Answer(r, "notFound")
        \/ u # Nobody /\ SetRequest(r, known)
        \/ q.path \in PublicPaths /\ SetRequest(r, open)
    BY <1>1 DEF AuthMiddleware, WithUserID
  <1>5. CASE Answer(r, "unauthorized") \/ Answer(r, "notFound")
    BY <1>2, <1>5, AnswerInv
  <1>6. ASSUME NEW new \in RequestRows, new.at = "logic", new.path = q.path, new.bearer = q.bearer,
               new.perf = q.perf, new.ask = q.ask, new.checked = q.checked, new.status = q.status,
               new.path \in AuthPaths => new.context # Nobody /\ new.context = Vouched(q),
               SetRequest(r, new)
        PROVE  HttpInv'
    <2>1. Vouched(new) = Vouched(q)
      BY <1>6 DEF Vouched
    <2>2. OnWay(new) /\ RowChecked(new)
      BY <1>2, <1>3, <1>6, <2>1 DEF OnWay, Called, RowChecked
    <2> QED
      BY <1>2, <1>6, <2>2, RequestStep, RowsStay DEF HttpInv
  <1>7. CASE u # Nobody /\ SetRequest(r, known)
    <2>1. u = Vouched(q)
      BY <1>2, <1>3, <1>7, IdentityTaken
    <2>2. u \in Accounts
      <3>1. q.perf \in Accounts /\ q.bearer \in TokenRows \cup {NoToken}
        BY <1>3 DEF RequestRows
      <3>2. q.bearer.user \in Accounts
        BY <3>1 DEF TokenRows, NoToken, Accounts
      <3> QED
        BY <2>1, <3>1, <3>2 DEF Vouched, Accounts
    <2> HIDE DEF u
    <2>3. known \in RequestRows
      BY <1>3, <2>2 DEF RequestRows
    <2>4. /\ known.at = "logic" /\ known.path = q.path /\ known.bearer = q.bearer
          /\ known.perf = q.perf /\ known.ask = q.ask /\ known.checked = q.checked
          /\ known.status = q.status /\ known.context = u
      BY <1>3 DEF RequestRows
    <2> HIDE DEF known
    <2> QED
      BY <1>6, <1>7, <2>1, <2>3, <2>4
  <1>8. CASE q.path \in PublicPaths /\ SetRequest(r, open)
    <2>1. open \in RequestRows
      BY <1>3 DEF RequestRows
    <2>2. /\ open.at = "logic" /\ open.path = q.path /\ open.bearer = q.bearer
          /\ open.perf = q.perf /\ open.ask = q.ask /\ open.checked = q.checked
          /\ open.status = q.status
      BY <1>3 DEF RequestRows
    <2>3. q.path \notin AuthPaths
      BY <1>8, AuthPathsGuarded
    <2> HIDE DEF open
    <2> QED
      BY <1>6, <1>8, <2>1, <2>2, <2>3
  <1> QED
    BY <1>4, <1>5, <1>7, <1>8

\* What an endpoint asks: behind Auth for the user of the context.
LEMMA RoutedAsks ==
    ASSUME NEW q \in RequestRows, NEW ask \in Routed(q)
    PROVE  /\ ask \in Calls
           /\ q.path \in AuthPaths => Own(ask, q.context, q.id)
           /\ q.path \notin AuthPaths => Open(ask, q.id)
  <1>1. q.context \in Accounts /\ q.context \in Nat /\ q.id \in Bodies /\ q.id \in Int
    <2>1. q.context \in Accounts /\ q.id \in Bodies
      BY DEF RequestRows
    <2>2. Bodies \subseteq Int
      BY HttpAssumption DEF Unreadable
    <2> QED
      BY <2>1, <2>2, NobodyElse
  <1>2. PICK route \in Routes(q) : ask = route[2]
    BY DEF Routed
  <1>3. ask \in Calls
    <2>1. route \in AllRoutes(q.context, q.id)
      BY <1>2 DEF Routes, AllRoutes
    <2>2. route \in UNION {AllRoutes(q.context, x) : x \in Bodies}
      BY <1>1, <2>1
    <2> QED
      BY <1>1, <1>2, <2>2 DEF Calls
  <1>4. CASE q.path \in AuthPaths
    <2>1. route \in AuthRoutes(q.context, q.id)
      BY <1>2, <1>4 DEF Routes
    <2> QED
      BY <1>1, <1>2, <1>3, <1>4, <2>1, AuthAsks
  <1>5. CASE q.path \notin AuthPaths
    <2>1. route \in PublicRoutes(q.context, q.id)
      BY <1>2, <1>5 DEF Routes
    <2> QED
      BY <1>1, <1>2, <1>3, <1>5, <2>1, PublicAsks
  <1> QED
    BY <1>4, <1>5

\* A call that is made.
LEMMA CallStep ==
    ASSUME HttpInv, NEW r \in Requests, NEW q \in RequestRows, OnWay(q),
           q.at \in {"logic", "second"},
           NEW ask \in Calls, q.path \in AuthPaths =>
               \/ ask.user = IF ask.method = "Logout" THEN q.id ELSE q.context
               \/ ask.method = "DeleteTicketUser" /\ ask.user = Nobody,
           NEW new \in RequestRows, new.at \in {"second", "answered"}, new.path = q.path,
           new.bearer = q.bearer, new.perf = q.perf, new.checked = q.checked, new.ask = ask,
           new.context = q.context, new.id = q.id,
           new.at = "second" => new.id \in Rows /\ new.status = "none",
           RowChecked(new), RowsStep, SetRequest(r, new), now' = now, drift' = drift,
           tokens \subseteq tokens', tokens' \subseteq TokenRows
    PROVE  HttpInv'
  <1>1. Vouched(new) = Vouched(q)
    BY DEF Vouched
  <1>2. OnWay(new)
    BY <1>1 DEF OnWay, Called, ForCaller
  <1> QED
    BY <1>2, RequestStep

LEMMA ServeInv ==
    ASSUME HttpInv, NEW r \in Requests, Serve(r)
    PROVE  HttpInv'
  <1>1. PICK q : q = request[r]
    OBVIOUS
  <1>2. request[r] # Idle /\ q.at = "logic" /\ UNCHANGED <<now, drift>>
    BY <1>1 DEF Serve
  <1>3. q \in RequestRows /\ OnWay(q)
    BY <1>1, <1>2, RequestOnWay
  <1>4. PICK ask \in Routed(q) :
           /\ IF ask \in {Unauthorized, BadRequest} THEN Answer(r, ask.method)
              ELSE SetRequest(r, [q EXCEPT !.at = "answered", !.ask = ask, !.status = "ok"])
           /\ tokens' = IF ask.method = "Login" /\ ask.id \in Users
                        THEN tokens \cup {CreateToken(ask.id)} ELSE tokens
           /\ IF ask.method = "AddTicketUser"
              THEN \E x \in Rows \ issued :
                     issued' = issued \cup {x} /\ owner' = [owner EXCEPT ![x] = ask.user]
              ELSE UNCHANGED rows
    BY <1>1 DEF Serve
  <1>5. Unauthorized.method = "unauthorized" /\ BadRequest.method = "badRequest"
    BY DEF Unauthorized, BadRequest, Ask
  <1>6. CASE ask \in {Unauthorized, BadRequest}
    <2>1. tokens' = tokens /\ ask.method \in {"unauthorized", "badRequest"} /\ UNCHANGED rows
      BY <1>4, <1>5, <1>6
    <2> QED
      BY <1>2, <1>4, <1>6, <2>1, AnswerInv
  <1>7. CASE ask \notin {Unauthorized, BadRequest}
    <2> DEFINE new == [q EXCEPT !.at = "answered", !.ask = ask, !.status = "ok"]
    <2>1. SetRequest(r, new)
      BY <1>4, <1>7
    <2>2. ask \in Calls /\ (q.path \in AuthPaths => ask.user = IF ask.method = "Logout" THEN q.id ELSE q.context)
      BY <1>3, <1>7, RoutedAsks DEF Own
    <2>3. new \in RequestRows
      BY <1>3, <2>2 DEF RequestRows
    <2>4. /\ new.at = "answered" /\ new.path = q.path /\ new.bearer = q.bearer /\ new.perf = q.perf
          /\ new.checked = q.checked /\ new.ask = ask /\ new.context = q.context /\ new.id = q.id
      BY <1>3 DEF RequestRows
    <2>5. tokens \subseteq tokens' /\ tokens' \subseteq TokenRows
      <3>1. ASSUME ask.id \in Users PROVE CreateToken(ask.id) \in TokenRows
        BY <3>1, HttpAssumption DEF CreateToken, TokenRows, HttpInv
      <3> QED
        BY <1>4, <3>1 DEF HttpInv
    <2>6. RowsStep
      <3>1. CASE ask.method = "AddTicketUser"
        <4>1. PICK x \in Rows \ issued :
                 issued' = issued \cup {x} /\ owner' = [owner EXCEPT ![x] = ask.user]
          BY <1>4, <3>1
        <4>2. ask.user \in Accounts
          <5>1. q.path \in AuthPaths
            BY <1>3, <3>1, RoutedAsks DEF Open
          <5> QED
            BY <1>3, <2>2, <3>1, <5>1 DEF RequestRows
        <4> QED
          BY <4>1, <4>2 DEF RowsStep, HttpInv
      <3>2. CASE ask.method # "AddTicketUser"
        BY <1>4, <3>2, RowsStay
      <3> QED
        BY <3>1, <3>2
    <2> HIDE DEF new
    <2>7. RowChecked(new)
      BY <2>4 DEF RowChecked
    <2> QED
      BY <1>2, <1>3, <2>1, <2>2, <2>3, <2>4, <2>5, <2>6, <2>7, CallStep
  <1> QED
    BY <1>6, <1>7

LEMMA ServeFirstInv ==
    ASSUME HttpInv, NEW r \in Requests, ServeFirst(r)
    PROVE  HttpInv'
  <1>1. PICK q : q = request[r]
    OBVIOUS
  <1>2. request[r] # Idle /\ q.at = "logic" /\ UNCHANGED <<now, drift, tokens, rows>>
    BY <1>1 DEF ServeFirst
  <1>3. q \in RequestRows /\ OnWay(q)
    BY <1>1, <1>2, RequestOnWay
  <1>4. PICK ask \in Routed(q) :
           \/ ask \in {Unauthorized, BadRequest} /\ Answer(r, ask.method)
           \/ /\ ask.method \in {"GetPayBill", "ListTicketUsers"}
              /\ ask.method = "ListTicketUsers" => ContainsTicketUserID(ask.user, q.id)
              /\ SetRequest(r, [q EXCEPT !.at = "second", !.ask = ask])
           \/ Answer(r, "unauthorized")
    BY <1>1 DEF ServeFirst
  <1>5. Unauthorized.method = "unauthorized" /\ BadRequest.method = "badRequest"
    BY DEF Unauthorized, BadRequest, Ask
  <1>6. CASE ask \in {Unauthorized, BadRequest} /\ Answer(r, ask.method)
    <2>1. ask.method \in {"unauthorized", "badRequest"}
      BY <1>5, <1>6
    <2> QED
      BY <1>2, <1>6, <2>1, AnswerInv
  <1>7. CASE /\ ask.method \in {"GetPayBill", "ListTicketUsers"}
             /\ ask.method = "ListTicketUsers" => ContainsTicketUserID(ask.user, q.id)
             /\ SetRequest(r, [q EXCEPT !.at = "second", !.ask = ask])
    <2> DEFINE new == [q EXCEPT !.at = "second", !.ask = ask]
    <2>1. ask \notin {Unauthorized, BadRequest}
      BY <1>5, <1>7
    <2>2. ask \in Calls /\ (q.path \in AuthPaths => ask.user = IF ask.method = "Logout" THEN q.id ELSE q.context)
      BY <1>3, <2>1, RoutedAsks DEF Own
    <2>3. q.id \in Rows /\ q.status = "none"
      <3>1. q.id # Unreadable
        BY <1>3, <2>1, RoutedAsks DEF Own, Open
      <3>2. q.id \in Bodies
        BY <1>3 DEF RequestRows
      <3> QED
        BY <1>2, <1>3, <3>1, <3>2, HttpAssumption DEF Rows, OnWay
    <2>4. new \in RequestRows
      BY <1>3, <2>2 DEF RequestRows
    <2>5. /\ new.at = "second" /\ new.path = q.path /\ new.bearer = q.bearer /\ new.perf = q.perf
          /\ new.checked = q.checked /\ new.ask = ask /\ new.context = q.context /\ new.id = q.id
          /\ new.status = q.status
      BY <1>3 DEF RequestRows
    <2>6. SetRequest(r, new)
      BY <1>7
    <2> HIDE DEF new
    <2>7. RowChecked(new)
      <3> SUFFICES ASSUME q.path = <<"ticket", "user", "delete">>
                   PROVE  q.id \in issued /\ owner[q.id] = q.context
        BY <2>5 DEF RowChecked
      <3>1. q.path \in AuthPaths
        <4> DEFINE route == <<<<"ticket", "user", "delete">>, DeleteTicketUserHandler(Nobody, 0)>>
        <4>1. route \in AuthRoutes(Nobody, 0)
          BY DEF AuthRoutes, UserAuthRoutes
        <4>2. route[1] = <<"ticket", "user", "delete">>
          OBVIOUS
        <4> HIDE DEF route
        <4> QED
          BY <4>1, <4>2 DEF AuthPaths
      <3>2. ask.method = "ListTicketUsers"
        BY <1>3, <1>7, <3>1, RoutedAsks DEF Own
      <3>3. owner[q.id] = q.context
        BY <1>7, <2>2, <3>1, <3>2 DEF ContainsTicketUserID
      <3>4. q.context # Nobody
        BY <1>2, <1>3, <3>1 DEF OnWay
      <3> QED
        BY <2>3, <3>3, <3>4 DEF HttpInv
    <2> QED
      BY <1>2, <1>3, <2>2, <2>3, <2>4, <2>5, <2>6, <2>7, CallStep, RowsStay DEF HttpInv
  <1>8. CASE Answer(r, "unauthorized")
    BY <1>2, <1>8, AnswerInv
  <1> QED
    BY <1>4, <1>6, <1>7, <1>8

LEMMA SecondCallInv ==
    ASSUME HttpInv, NEW r \in Requests, DeleteTicketUserRow(r) \/ RefundPayBill(r)
    PROVE  HttpInv'
  <1>1. PICK q : q = request[r]
    OBVIOUS
  <1>2. request[r] # Idle /\ q.at = "second" /\ UNCHANGED <<now, drift, tokens, issued>>
    BY <1>1 DEF DeleteTicketUserRow, RefundPayBill, rows
  <1>3. q \in RequestRows /\ OnWay(q) /\ RowChecked(q)
    BY <1>1, <1>2, RequestOnWay DEF HttpInv
  <1>4. /\ q.id \in Bodies /\ q.id \in Rows
        /\ Payer[q.id] \in Accounts /\ owner[q.id] \in Accounts /\ Nobody \in Accounts
    BY <1>2, <1>3, HttpAssumption DEF OnWay, Rows, RequestRows, Accounts, HttpInv
  <1> DEFINE deleted == Ask("DeleteTicketUser", owner[q.id], q.id)
             refunded == Ask("Refund", Payer[q.id], q.id)
  <1>5. deleted \in Calls /\ refunded \in Calls
    BY <1>4 DEF Calls
  <1>6. deleted.method = "DeleteTicketUser" /\ deleted.user = owner[q.id]
    BY DEF Ask
  <1> HIDE DEF deleted, refunded
  <1>7. PICK ask \in {deleted, refunded} :
           /\ q.path \in AuthPaths => ask = deleted /\ deleted.user \in {q.context, Nobody}
           /\ SetRequest(r, [q EXCEPT !.at = "answered", !.status = "ok", !.ask = ask])
    <2>1. CASE DeleteTicketUserRow(r)
      BY <1>1, <1>2, <1>3, <1>6, <2>1 DEF DeleteTicketUserRow, deleted, RowChecked
    <2>2. CASE RefundPayBill(r)
      BY <1>1, <2>2, AuthPathsGuarded DEF RefundPayBill, refunded
    <2> QED
      BY <2>1, <2>2
  <1>8. RowsStep
    <2>1. CASE DeleteTicketUserRow(r)
      BY <1>1, <1>2, <1>4, <2>1 DEF DeleteTicketUserRow, RowsStep, HttpInv
    <2>2. CASE RefundPayBill(r)
      BY <2>2, RowsStay DEF RefundPayBill
    <2> QED
      BY <2>1, <2>2
  <1> DEFINE new == [q EXCEPT !.at = "answered", !.status = "ok", !.ask = ask]
  <1>9. new \in RequestRows
    BY <1>3, <1>5, <1>7 DEF RequestRows
  <1>10. /\ new.at = "answered" /\ new.path = q.path /\ new.bearer = q.bearer /\ new.perf = q.perf
         /\ new.checked = q.checked /\ new.ask = ask /\ new.context = q.context /\ new.id = q.id
    BY <1>3 DEF RequestRows
  <1>11. /\ ask \in Calls
         /\ q.path \in AuthPaths =>
               ask.method = "DeleteTicketUser" /\ ask.user \in {q.context, Nobody}
    BY <1>5, <1>6, <1>7
  <1> HIDE DEF new
  <1>12. SetRequest(r, new) /\ RowChecked(new)
    BY <1>7, <1>10 DEF new, RowChecked
  <1> QED
    BY <1>2, <1>3, <1>8, <1>9, <1>10, <1>11, <1>12, CallStep DEF HttpInv

LEMMA HttpInitInv == Init => HttpInv
  <1> SUFFICES ASSUME Init PROVE HttpInv
    OBVIOUS
  <1>1. now \in Nat /\ drift \in Int
    BY HttpAssumption DEF Init
  <1>2. tokens \subseteq TokenRows
    BY HttpAssumption DEF Init, TokenRows
  <1>3. request \in [Requests -> {Idle} \cup RequestRows] /\ \A r \in Requests : request[r] = Idle
    BY DEF Init
  <1>4. /\ owner \in [Rows -> Accounts] /\ issued \subseteq Rows
        /\ \A x \in Rows \ issued : owner[x] = Nobody
    BY HttpAssumption DEF Init, Rows, Accounts
  <1> QED
    BY <1>1, <1>2, <1>3, <1>4 DEF HttpInv

LEMMA HttpNextInv == HttpInv /\ [Next]_vars => HttpInv'
  <1> SUFFICES ASSUME HttpInv, [Next]_vars PROVE HttpInv'
    OBVIOUS
  <1>1. ASSUME NEW r \in Requests, Client(r) PROVE HttpInv'
    BY <1>1, SendInv
  <1>2. ASSUME NEW r \in Requests, Receive(r) PROVE HttpInv'
    BY <1>2, ReceiveInv
  <1>3. ASSUME NEW r \in Requests, Gateway(r) PROVE HttpInv'
    BY <1>3, GatewayInv
  <1>4. ASSUME NEW r \in Requests, AuthMiddleware(r) PROVE HttpInv'
    BY <1>4, AuthMiddlewareInv
  <1>5. ASSUME NEW r \in Requests, Serve(r) PROVE HttpInv'
    BY <1>5, ServeInv
  <1>6. ASSUME NEW r \in Requests, ServeFirst(r) PROVE HttpInv'
    BY <1>6, ServeFirstInv
  <1>7. ASSUME NEW r \in Requests, DeleteTicketUserRow(r) \/ RefundPayBill(r) PROVE HttpInv'
    BY <1>7, SecondCallInv
  <1>8. ASSUME NEW r \in Requests, CallFails(r) PROVE HttpInv'
    BY <1>8, AnswerInv DEF CallFails
  <1>9. CASE Tick
    BY <1>9 DEF Tick, rows, HttpInv, OnWay, Called, ForCaller, Vouched, RowChecked
  <1>10. CASE UNCHANGED vars
    BY <1>10 DEF vars, rows, HttpInv, OnWay, Called, ForCaller, Vouched, RowChecked
  <1> QED
    BY <1>1, <1>2, <1>3, <1>4, <1>5, <1>6, <1>7, <1>8, <1>9, <1>10 DEF Next

LEMMA HttpInvariant == Spec => []HttpInv
  BY HttpInitInv, HttpNextInv, PTL DEF Spec

\* An endpoint behind the Auth middleware calls only for a caller whose token the
\* gateway has verified, and for that caller whatever a client puts in the gateway's
\* headers or in its body; the second call of DeleteTicketUser, by a row's id, meets
\* a row of the caller or none.  Logout is the exception: it logs out the user of the
\* token in its body.
THEOREM HttpCallsForCaller == Spec => []CallsForCaller
  <1>1. HttpInv => CallsForCaller
    BY DEF HttpInv, OnWay, Called, CallsForCaller
  <1> QED
    BY <1>1, HttpInvariant, PTL

-----------------------------------------------------------------------------
(* Who is taken in and who is refused.                                      *)

\* A step that changes a request is one of its own.
Steps(r) ==
    \/ Client(r) \/ Receive(r) \/ Gateway(r) \/ AuthMiddleware(r)
    \/ Serve(r) \/ ServeFirst(r) \/ DeleteTicketUserRow(r) \/ RefundPayBill(r) \/ CallFails(r)

LEMMA OtherRequests ==
    ASSUME HttpInv, Next, NEW r \in Requests
    PROVE  request'[r] = request[r] \/ Steps(r)
  <1>1. ASSUME NEW s \in Requests, s # r, Steps(s)
        PROVE  request'[r] = request[r]
    <2>1. \E new : SetRequest(s, new)
      <3>1. CASE Client(s)
        BY <3>1 DEF Client, Send, SetRequest
      <3>2. CASE Receive(s)
        BY <3>2 DEF Receive, Answer, SetRequest
      <3>3. CASE Gateway(s)
        BY <3>3 DEF Gateway, Answer, SetRequest
      <3>4. CASE AuthMiddleware(s)
        BY <3>4 DEF AuthMiddleware, Answer, SetRequest
      <3>5. CASE Serve(s)
        BY <3>5 DEF Serve, Answer, SetRequest
      <3>6. CASE ServeFirst(s)
        BY <3>6 DEF ServeFirst, Answer, SetRequest
      <3>7. CASE DeleteTicketUserRow(s)
        BY <3>7 DEF DeleteTicketUserRow, Answer, SetRequest
      <3>8. CASE RefundPayBill(s)
        BY <3>8 DEF RefundPayBill, Answer, SetRequest
      <3>9. CASE CallFails(s)
        BY <3>9 DEF CallFails, Answer, SetRequest
      <3> QED
        BY <1>1, <3>1, <3>2, <3>3, <3>4, <3>5, <3>6, <3>7, <3>8, <3>9 DEF Steps
    <2> QED
      BY <1>1, <2>1 DEF SetRequest, HttpInv
  <1>2. CASE Tick
    BY <1>2 DEF Tick
  <1> QED
    BY <1>1, <1>2 DEF Next, Steps

\* What an answer leaves of a request.
LEMMA Answered ==
    ASSUME HttpInv, NEW r \in Requests, request[r] # Idle, NEW status, Answer(r, status)
    PROVE  request'[r].context = request[r].context /\ request'[r].status = status
  <1>1. request[r] \in RequestRows
    BY RequestOnWay
  <1>2. request'[r] = [request[r] EXCEPT !.at = "answered", !.status = status]
    BY DEF Answer, SetRequest, HttpInv
  <1> QED
    BY <1>1, <1>2 DEF RequestRows

\* A service takes a user from the headers while his token, or the skew, still runs.
LEMMA TakenStep ==
    ASSUME HttpInv, NEW r \in Requests, request'[r] = request[r] \/ Steps(r)
    PROVE  TakenInTime(r)
  <1> SUFFICES ASSUME request[r] # Idle, request[r].at = "service", request'[r] # Idle,
                      request'[r].context # Nobody, request[r].perf = Nobody
               PROVE  now + drift < request[r].bearer.exp + ClockSkew
    BY DEF TakenInTime
  <1>1. PICK q : q = request[r]
    OBVIOUS
  <1>2. q \in RequestRows /\ OnWay(q) /\ q.at = "service" /\ q.perf = Nobody /\ q.context = Nobody
    BY <1>1, RequestOnWay DEF OnWay
  <1>3. AuthMiddleware(r)
    BY <1>1, <1>2 DEF Steps, Client, Send, Receive, Gateway, Serve, ServeFirst, DeleteTicketUserRow,
                      RefundPayBill, CallFails
  <1> DEFINE u == AuthenticateGatewayIdentity(q.identity)
  <1>4. u # Nobody
    <2> SUFFICES ASSUME u = Nobody PROVE FALSE
      OBVIOUS
    <2>1. \/ Answer(r, "unauthorized") \/ Answer(r, "notFound")
          \/ SetRequest(r, [q EXCEPT !.at = "logic"])
      BY <1>1, <1>3 DEF AuthMiddleware
    <2>2. CASE Answer(r, "unauthorized") \/ Answer(r, "notFound")
      BY <1>1, <1>2, <2>2, Answered
    <2>3. CASE SetRequest(r, [q EXCEPT !.at = "logic"])
      <3>1. request'[r] = [q EXCEPT !.at = "logic"]
        BY <2>3 DEF SetRequest, HttpInv
      <3> QED
        BY <1>2, <3>1 DEF RequestRows
    <2> QED
      BY <2>1, <2>2, <2>3
  <1>5. /\ Vouched(q) # Nobody /\ q.checked # Never
        /\ q.checked >= now + drift - ClockSkew
    BY <1>2, <1>4, IdentityTaken
  <1>6. q.bearer \in tokens /\ q.checked < q.bearer.exp
    BY <1>2, <1>5 DEF Vouched
  <1>7. q.bearer.exp \in Int /\ q.checked \in Int /\ now \in Int /\ drift \in Int /\ ClockSkew \in Int
    BY <1>2, <1>6, HttpAssumption DEF HttpInv, TokenRows, RequestRows
  <1> QED
    BY <1>1, <1>5, <1>6, <1>7

\* The gateway refuses who has no valid token.
LEMMA GatewayRefuses ==
    ASSUME HttpInv, NEW q \in RequestRows, OnWay(q), q.at = "gateway",
           AuthenticateAtGateway([q EXCEPT !.identity = NoIdentity]) = Nobody
    PROVE  ~(q.bearer \in tokens /\ now < q.bearer.exp)
  <1> SUFFICES ASSUME q.bearer \in tokens, now < q.bearer.exp PROVE FALSE
    OBVIOUS
  <1> DEFINE cleared == [q EXCEPT !.identity = NoIdentity]
  <1>1. cleared.authorization = q.bearer
    BY DEF RequestRows, OnWay
  <1> HIDE DEF cleared
  <1>2. q.bearer.user \in Users
    BY DEF HttpInv, TokenRows
  <1>3. Authenticate(cleared) = q.bearer.user
    BY <1>1 DEF Authenticate, ParseToken
  <1>4. AuthenticateAtGateway(cleared) # Nobody
    BY <1>2, <1>3, NobodyElse DEF AuthenticateAtGateway
  <1> QED
    BY <1>4 DEF cleared

\* A service refuses who was not vouched for, or too long ago.
LEMMA ServiceRefuses ==
    ASSUME HttpInv, NEW q \in RequestRows, OnWay(q), q.at = "service", q.path \in AuthPaths,
           AuthenticateGatewayIdentity(q.identity) = Nobody, Vouched(q) # Nobody
    PROVE  q.checked \notin (now + drift - ClockSkew)..(now + drift + ClockSkew)
  <1>1. q.checked # Never
    BY DEF Vouched
  <1>2. q.identity.signed /\ q.identity.at = q.checked /\ q.identity.user # Nobody
    BY <1>1 DEF OnWay
  <1>3. q.checked \in Int /\ now \in Int /\ drift \in Int /\ ClockSkew \in Int
    BY HttpAssumption DEF HttpInv, RequestRows
  <1>4. ~(q.checked >= now + drift - ClockSkew /\ q.checked <= now + drift + ClockSkew)
    BY <1>2 DEF AuthenticateGatewayIdentity
  <1> QED
    BY <1>3, <1>4

LEMMA RefusedStep ==
    ASSUME HttpInv, NEW r \in Requests, request'[r] = request[r] \/ Steps(r)
    PROVE  RefusedRightly(r)
  <1> SUFFICES ASSUME request[r] # Idle, request'[r] # Idle, request'[r].status = "unauthorized"
               PROVE  LET q == request[r] IN
                      \/ q.at = "gateway" /\ ~(q.bearer \in tokens /\ now < q.bearer.exp)
                      \/ q.at = "service" /\ Vouched(q) = Nobody
                      \/ q.at = "service" /\ q.checked \notin (now + drift - ClockSkew)..(now + drift + ClockSkew)
                      \/ q.at = "logic" /\ q.path = <<"ticket", "user", "delete">> /\ owner[q.id] # q.context
                      \/ q.at = "answered"
    BY DEF RefusedRightly
  <1>1. PICK q : q = request[r]
    OBVIOUS
  <1> DEFINE Rightly ==
         \/ q.at = "gateway" /\ ~(q.bearer \in tokens /\ now < q.bearer.exp)
         \/ q.at = "service" /\ Vouched(q) = Nobody
         \/ q.at = "service" /\ q.checked \notin (now + drift - ClockSkew)..(now + drift + ClockSkew)
         \/ q.at = "logic" /\ q.path = <<"ticket", "user", "delete">> /\ owner[q.id] # q.context
         \/ q.at = "answered"
  <1>2. q \in RequestRows /\ OnWay(q) /\ q # Idle
    BY <1>1, RequestOnWay
  <1>3. q.at # "answered" => q.status = "none"
    BY <1>2 DEF OnWay
  <1>4. \A status : Answer(r, status) => status = "unauthorized"
    BY Answered
  <1>5. \A new : SetRequest(r, new) => new.status = "unauthorized"
    BY DEF SetRequest, HttpInv
  <1>6. Unauthorized.method = "unauthorized" /\ BadRequest.method = "badRequest"
    BY DEF Unauthorized, BadRequest, Ask
  <1>7. CASE request'[r] = request[r]
    BY <1>1, <1>3, <1>7
  <1>8. CASE Client(r) \/ Receive(r)
    <2>1. ~Client(r)
      BY DEF Client, Send
    <2>2. ~Receive(r)
      BY DEF Receive, SetRequest, HttpInv
    <2> QED
      BY <1>8, <2>1, <2>2
  <1>9. CASE Gateway(r)
    <2> DEFINE cleared == [q EXCEPT !.identity = NoIdentity]
               u == AuthenticateAtGateway(cleared)
               forwarded == [[cleared EXCEPT !.authorization = NoToken] EXCEPT !.at = "service", !.checked = now]
               signed == [forwarded EXCEPT !.identity = SignGatewayIdentity(u, now)]
    <2>1. q.at = "gateway"
      BY <1>1, <1>9 DEF Gateway
    <2>2. \/ Answer(r, "notFound") \/ (u = Nobody /\ Answer(r, "unauthorized"))
          \/ SetRequest(r, forwarded) \/ SetRequest(r, signed)
      BY <1>1, <1>9 DEF Gateway, ClearGatewayIdentityHeaders, ClearExternalAuthHeaders,
                        AttachGatewayIdentityHeaders
    <2>3. forwarded.status = "none" /\ signed.status = "none"
      BY <1>2, <1>3, <2>1 DEF RequestRows
    <2> HIDE DEF u, forwarded, signed
    <2>4. u = Nobody
      BY <1>4, <1>5, <2>2, <2>3
    <2> QED
      BY <1>1, <1>2, <2>1, <2>4, GatewayRefuses DEF u
  <1>10. CASE AuthMiddleware(r)
    <2> DEFINE u == AuthenticateGatewayIdentity(q.identity)
               known == [[q EXCEPT !.context = u] EXCEPT !.at = "logic"]
               open == [q EXCEPT !.at = "logic"]
    <2>1. q.at = "service"
      BY <1>1, <1>10 DEF AuthMiddleware
    <2>2. \/ (q.path \in AuthPaths /\ u = Nobody /\ Answer(r, "unauthorized")) \/ Answer(r, "notFound")
          \/ SetRequest(r, known) \/ SetRequest(r, open)
      BY <1>1, <1>10 DEF AuthMiddleware, WithUserID
    <2>3. known.status = "none" /\ open.status = "none"
      BY <1>2, <1>3, <2>1 DEF RequestRows
    <2> HIDE DEF u, known, open
    <2>4. q.path \in AuthPaths /\ u = Nobody
      BY <1>4, <1>5, <2>2, <2>3
    <2> QED
      BY <1>1, <1>2, <2>1, <2>4, ServiceRefuses DEF u
  <1>11. ASSUME NEW ask \in Routed(q), q.at = "logic" PROVE ask # Unauthorized
    BY <1>2, <1>11, RoutedAsks DEF Own, Open, OnWay
  <1>12. CASE Serve(r)
    <2>1. q.at = "logic"
      BY <1>1, <1>12 DEF Serve
    <2>2. PICK ask \in Routed(q) :
             IF ask \in {Unauthorized, BadRequest} THEN Answer(r, ask.method)
             ELSE SetRequest(r, [q EXCEPT !.at = "answered", !.ask = ask, !.status = "ok"])
      BY <1>1, <1>12 DEF Serve
    <2>3. ask # Unauthorized
      BY <1>11, <2>1
    <2>4. [q EXCEPT !.at = "answered", !.ask = ask, !.status = "ok"].status = "ok"
      BY <1>2 DEF RequestRows
    <2> QED
      BY <1>4, <1>5, <1>6, <2>2, <2>3, <2>4
  <1>13. CASE ServeFirst(r)
    <2>1. q.at = "logic" /\ q.path \in {<<"ticket", "user", "delete">>, <<"pay", "refund">>}
      BY <1>1, <1>13 DEF ServeFirst
    <2>2. PICK ask \in Routed(q) :
             \/ ask \in {Unauthorized, BadRequest} /\ Answer(r, ask.method)
             \/ SetRequest(r, [q EXCEPT !.at = "second", !.ask = ask])
             \/ ask.method = "ListTicketUsers" /\ ~ContainsTicketUserID(ask.user, q.id)
      BY <1>1, <1>13 DEF ServeFirst
    <2>3. [q EXCEPT !.at = "second", !.ask = ask].status = "none"
      BY <1>2, <1>3, <2>1 DEF RequestRows
    <2>4. ask # Unauthorized
      BY <1>11, <2>1
    <2>5. ask.method = "ListTicketUsers" /\ ~ContainsTicketUserID(ask.user, q.id)
      BY <1>4, <1>5, <1>6, <2>2, <2>3, <2>4
    <2>6. q.path \in AuthPaths
      BY <1>2, <2>5, RoutedAsks DEF Open
    <2>7. q.path = <<"ticket", "user", "delete">>
      BY <2>1, <2>6, AuthPathsGuarded
    <2>8. ask.user = q.context /\ q.id # Unreadable
      BY <1>2, <1>6, <2>5, <2>6, RoutedAsks DEF Own
    <2>9. q.id \in Rows
      BY <1>2, <2>8, HttpAssumption DEF RequestRows, Rows
    <2> QED
      BY <1>1, <2>1, <2>5, <2>7, <2>8, <2>9 DEF ContainsTicketUserID
  <1>14. CASE DeleteTicketUserRow(r) \/ RefundPayBill(r)
    <2>1. PICK ask : SetRequest(r, [q EXCEPT !.at = "answered", !.status = "ok", !.ask = ask])
      BY <1>1, <1>14 DEF DeleteTicketUserRow, RefundPayBill
    <2>2. [q EXCEPT !.at = "answered", !.status = "ok", !.ask = ask].status = "ok"
      BY <1>2 DEF RequestRows
    <2> QED
      BY <1>5, <2>1, <2>2
  <1>15. CASE CallFails(r)
    BY <1>4, <1>15 DEF CallFails
  <1> QED
    BY <1>7, <1>8, <1>9, <1>10, <1>12, <1>13, <1>14, <1>15 DEF Steps

\* Authentication is exact: nobody is taken in later than the skew after the end of
\* his token, and nobody is refused who has a valid token, was not too long on the
\* way and asks for his own row.
THEOREM HttpAuthExact == Spec => AuthExact
  <1>1. HttpInv /\ [Next]_vars =>
            [\A r \in Requests : TakenInTime(r) /\ RefusedRightly(r)]_vars
    <2> SUFFICES ASSUME HttpInv, Next, NEW r \in Requests
                 PROVE  TakenInTime(r) /\ RefusedRightly(r)
      OBVIOUS
    <2> QED
      BY OtherRequests, TakenStep, RefusedStep
  <1> QED
    BY <1>1, HttpInvariant, PTL DEF Spec, AuthExact
=============================================================================
