---------------------------- MODULE ApiEndpoints ----------------------------
(***************************************************************************)
(* The HTTP endpoints of user-api, order-api, pay-api and program-api: what *)
(* each asks of the service behind it.  u is the user in the context of the *)
(* request, Nobody if the route has no Auth middleware, and x is what the   *)
(* body names: an order, a row, a program or a user.  A path is the         *)
(* sequence of its segments; a route leads to a handler, which parses the   *)
(* body and runs the logic of the endpoint.  The routes of a service are    *)
(* the pairs of a path and what its handler asks; no path has two.          *)
(***************************************************************************)
EXTENDS Integers, Sequences

CONSTANTS Users

ASSUME UsersAssumption == Users \subseteq Nat \ {0}

Nobody == 0

\* A call of a service: the user it is for, and what else it names.
Ask(method, u, x) == [method |-> method, user |-> u, id |-> x]

Unauthorized == Ask("unauthorized", Nobody, 0)

\* A body that httpx.Parse refuses: the handler answers before its logic runs.
Unreadable == -1

BadRequest == Ask("badRequest", Nobody, 0)

Parse(x, ask) == IF x = Unreadable THEN BadRequest ELSE ask

\* The handlers behind the Auth middleware look for the user once more.
RequireCurrentUserID(u, ask) == IF u = Nobody THEN Unauthorized ELSE ask

UserIDFromContext(u, ask) == IF u \in Nat \ {0} THEN ask ELSE Unauthorized

-----------------------------------------------------------------------------
(* user-api                                                                 *)

Exist(u, x) == Ask("Exist", Nobody, x)
Login(u, x) == Ask("Login", Nobody, x)
Register(u, x) == Ask("Register", Nobody, x)
\* The user of the token in the request, who need not be the caller.
Logout(u, x) == Ask("Logout", x, x)
AddTicketUser(u, x) == RequireCurrentUserID(u, Ask("AddTicketUser", u, x))
\* The first call: the rows of the user, in which x is looked for.
DeleteTicketUser(u, x) == RequireCurrentUserID(u, Ask("ListTicketUsers", u, x))
ListTicketUsers(u, x) == RequireCurrentUserID(u, Ask("ListTicketUsers", u, 0))
Authentication(u, x) == RequireCurrentUserID(u, Ask("Authentication", u, x))
\* The id and the mobile of the request are ignored: the caller is looked up.
GetUserByID(u, x) == RequireCurrentUserID(u, Ask("GetUserById", u, 0))
GetUserByMobile(u, x) == RequireCurrentUserID(u, Ask("GetUserById", u, 0))
GetUserAndTicketUserList(u, x) ==
    RequireCurrentUserID(u, Ask("GetUserAndTicketUserList", u, 0))
UpdateUser(u, x) == RequireCurrentUserID(u, Ask("UpdateUser", u, x))

\* Faulty: the account is the one that the request names.
UpdateEmailOfRequest(u, x) == RequireCurrentUserID(u, Ask("UpdateEmail", x, x))

UpdateEmail(u, x) == RequireCurrentUserID(u, Ask("UpdateEmail", u, x))
UpdateMobile(u, x) == RequireCurrentUserID(u, Ask("UpdateMobile", u, x))
UpdatePassword(u, x) == RequireCurrentUserID(u, Ask("UpdatePassword", u, x))

ExistHandler(u, x) == Parse(x, Exist(u, x))
LoginHandler(u, x) == Parse(x, Login(u, x))
RegisterHandler(u, x) == Parse(x, Register(u, x))
LogoutHandler(u, x) == Parse(x, Logout(u, x))
AddTicketUserHandler(u, x) == Parse(x, AddTicketUser(u, x))
DeleteTicketUserHandler(u, x) == Parse(x, DeleteTicketUser(u, x))
ListTicketUsersHandler(u, x) == Parse(x, ListTicketUsers(u, x))
AuthenticationHandler(u, x) == Parse(x, Authentication(u, x))
GetUserByIDHandler(u, x) == Parse(x, GetUserByID(u, x))
GetUserByMobileHandler(u, x) == Parse(x, GetUserByMobile(u, x))
GetUserAndTicketUserListHandler(u, x) == Parse(x, GetUserAndTicketUserList(u, x))
UpdateUserHandler(u, x) == Parse(x, UpdateUser(u, x))
UpdateEmailHandler(u, x) == Parse(x, UpdateEmail(u, x))
UpdateMobileHandler(u, x) == Parse(x, UpdateMobile(u, x))
UpdatePasswordHandler(u, x) == Parse(x, UpdatePassword(u, x))

UserPublicRoutes(u, x) ==
    {<<<<"user", "exist">>, ExistHandler(u, x)>>,
     <<<<"user", "login">>, LoginHandler(u, x)>>,
     <<<<"user", "register">>, RegisterHandler(u, x)>>}

UserAuthRoutes(u, x) ==
    {<<<<"ticket", "user", "add">>, AddTicketUserHandler(u, x)>>,
     <<<<"ticket", "user", "delete">>, DeleteTicketUserHandler(u, x)>>,
     <<<<"ticket", "user", "list">>, ListTicketUsersHandler(u, x)>>,
     <<<<"user", "authentication">>, AuthenticationHandler(u, x)>>,
     <<<<"user", "get", "id">>, GetUserByIDHandler(u, x)>>,
     <<<<"user", "get", "mobile">>, GetUserByMobileHandler(u, x)>>,
     <<<<"user", "get", "user", "ticket", "list">>,
       GetUserAndTicketUserListHandler(u, x)>>,
     <<<<"user", "logout">>, LogoutHandler(u, x)>>,
     <<<<"user", "update">>, UpdateUserHandler(u, x)>>,
     <<<<"user", "update", "email">>, UpdateEmailHandler(u, x)>>,
     <<<<"user", "update", "mobile">>, UpdateMobileHandler(u, x)>>,
     <<<<"user", "update", "password">>, UpdatePasswordHandler(u, x)>>}

-----------------------------------------------------------------------------
(* order-api: the count and the cache are asked for without a user.         *)

CancelOrder(u, x) == UserIDFromContext(u, Ask("CancelOrder", u, x))
CreateOrder(u, x) == UserIDFromContext(u, Ask("CreateOrder", u, x))
CreatePurchaseToken(u, x) == UserIDFromContext(u, Ask("CreatePurchaseToken", u, x))
GetOrder(u, x) == UserIDFromContext(u, Ask("GetOrder", u, x))
ListOrders(u, x) == UserIDFromContext(u, Ask("ListOrders", u, 0))
PayCheck(u, x) == UserIDFromContext(u, Ask("PayCheck", u, x))
PayOrder(u, x) == UserIDFromContext(u, Ask("PayOrder", u, x))
PollOrder(u, x) == UserIDFromContext(u, Ask("PollOrderProgress", u, x))
RefundOrder(u, x) == UserIDFromContext(u, Ask("RefundOrder", u, x))
AccountOrderCount(u, x) == Ask("CountActiveTicketsByUserShowTime", x, 0)
GetOrderCache(u, x) == Ask("GetOrderCache", Nobody, x)

CancelOrderHandler(u, x) == Parse(x, CancelOrder(u, x))
CreateOrderHandler(u, x) == Parse(x, CreateOrder(u, x))
CreatePurchaseTokenHandler(u, x) == Parse(x, CreatePurchaseToken(u, x))
GetOrderHandler(u, x) == Parse(x, GetOrder(u, x))
ListOrdersHandler(u, x) == Parse(x, ListOrders(u, x))
PayCheckHandler(u, x) == Parse(x, PayCheck(u, x))
PayOrderHandler(u, x) == Parse(x, PayOrder(u, x))
PollOrderHandler(u, x) == Parse(x, PollOrder(u, x))
RefundOrderHandler(u, x) == Parse(x, RefundOrder(u, x))
AccountOrderCountHandler(u, x) == Parse(x, AccountOrderCount(u, x))
GetOrderCacheHandler(u, x) == Parse(x, GetOrderCache(u, x))

OrderAuthRoutes(u, x) ==
    {<<<<"order", "cancel">>, CancelOrderHandler(u, x)>>,
     <<<<"order", "create">>, CreateOrderHandler(u, x)>>,
     <<<<"order", "get">>, GetOrderHandler(u, x)>>,
     <<<<"order", "pay">>, PayOrderHandler(u, x)>>,
     <<<<"order", "pay", "check">>, PayCheckHandler(u, x)>>,
     <<<<"order", "poll">>, PollOrderHandler(u, x)>>,
     <<<<"order", "purchase", "token">>, CreatePurchaseTokenHandler(u, x)>>,
     <<<<"order", "refund">>, RefundOrderHandler(u, x)>>,
     <<<<"order", "select", "list">>, ListOrdersHandler(u, x)>>}

OrderPublicRoutes(u, x) ==
    {<<<<"order", "account", "order", "count">>, AccountOrderCountHandler(u, x)>>,
     <<<<"order", "get", "cache">>, GetOrderCacheHandler(u, x)>>}

-----------------------------------------------------------------------------
(* pay-api: the payer is in the request, and for a refund in the bill.      *)

CommonPay(u, x) == Ask("MockPay", x, x)
GetPayBill(u, x) == Ask("GetPayBill", Nobody, x)
\* The first call; the bill that it returns names the user of the second.
Refund(u, x) == Ask("GetPayBill", Nobody, x)

CommonPayHandler(u, x) == Parse(x, CommonPay(u, x))
GetPayBillHandler(u, x) == Parse(x, GetPayBill(u, x))
RefundHandler(u, x) == Parse(x, Refund(u, x))

PayRoutes(u, x) ==
    {<<<<"pay", "common", "pay">>, CommonPayHandler(u, x)>>,
     <<<<"pay", "detail">>, GetPayBillHandler(u, x)>>,
     <<<<"pay", "refund">>, RefundHandler(u, x)>>}

-----------------------------------------------------------------------------
(* program-api: one call each, for no user.                                 *)

AddProgram(u, x) == Ask("CreateProgram", Nobody, x)
BatchCreateProgramCategories(u, x) == Ask("BatchCreateProgramCategories", Nobody, x)
ListProgramCategories(u, x) == Ask("ListProgramCategories", Nobody, 0)
ListProgramCategoriesByParent(u, x) == Ask("ListProgramCategoriesByParent", Nobody, x)
ListProgramCategoriesByType(u, x) == Ask("ListProgramCategoriesByType", Nobody, x)
GetProgramDetailView(u, x) == Ask("GetProgramDetailView", Nobody, x)
ListHomePrograms(u, x) == Ask("ListHomePrograms", Nobody, x)
InvalidProgram(u, x) == Ask("InvalidProgram", Nobody, x)
PagePrograms(u, x) == Ask("PagePrograms", Nobody, x)
GetProgramPreorder(u, x) == Ask("GetProgramPreorder", Nobody, x)
ResetProgram(u, x) == Ask("ResetProgram", Nobody, x)
CreateProgramShowTime(u, x) == Ask("CreateProgramShowTime", Nobody, x)
UpdateProgram(u, x) == Ask("UpdateProgram", Nobody, x)
CreateSeat(u, x) == Ask("CreateSeat", Nobody, x)
BatchCreateSeats(u, x) == Ask("BatchCreateSeats", Nobody, x)
GetSeatRelateInfo(u, x) == Ask("GetSeatRelateInfo", Nobody, x)
CreateTicketCategory(u, x) == Ask("CreateTicketCategory", Nobody, x)
GetTicketCategoryDetail(u, x) == Ask("GetTicketCategoryDetail", Nobody, x)
ListTicketCategoriesByProgram(u, x) == Ask("ListTicketCategoriesByProgram", Nobody, x)

AddProgramHandler(u, x) == Parse(x, AddProgram(u, x))
BatchCreateProgramCategoriesHandler(u, x) == Parse(x, BatchCreateProgramCategories(u, x))
ListProgramCategoriesHandler(u, x) == Parse(x, ListProgramCategories(u, x))
ListProgramCategoriesByParentHandler(u, x) == Parse(x, ListProgramCategoriesByParent(u, x))
ListProgramCategoriesByTypeHandler(u, x) == Parse(x, ListProgramCategoriesByType(u, x))
GetProgramDetailViewHandler(u, x) == Parse(x, GetProgramDetailView(u, x))
ListHomeProgramsHandler(u, x) == Parse(x, ListHomePrograms(u, x))
InvalidProgramHandler(u, x) == Parse(x, InvalidProgram(u, x))
PageProgramsHandler(u, x) == Parse(x, PagePrograms(u, x))
GetProgramPreorderHandler(u, x) == Parse(x, GetProgramPreorder(u, x))
ResetProgramHandler(u, x) == Parse(x, ResetProgram(u, x))
CreateProgramShowTimeHandler(u, x) == Parse(x, CreateProgramShowTime(u, x))
UpdateProgramHandler(u, x) == Parse(x, UpdateProgram(u, x))
CreateSeatHandler(u, x) == Parse(x, CreateSeat(u, x))
BatchCreateSeatsHandler(u, x) == Parse(x, BatchCreateSeats(u, x))
GetSeatRelateInfoHandler(u, x) == Parse(x, GetSeatRelateInfo(u, x))
CreateTicketCategoryHandler(u, x) == Parse(x, CreateTicketCategory(u, x))
GetTicketCategoryDetailHandler(u, x) == Parse(x, GetTicketCategoryDetail(u, x))
ListTicketCategoriesByProgramHandler(u, x) == Parse(x, ListTicketCategoriesByProgram(u, x))

ProgramRoutes(u, x) ==
    {<<<<"program", "add">>, AddProgramHandler(u, x)>>,
     <<<<"program", "category", "save", "batch">>,
       BatchCreateProgramCategoriesHandler(u, x)>>,
     <<<<"program", "category", "select", "all">>, ListProgramCategoriesHandler(u, x)>>,
     <<<<"program", "category", "selectByParentProgramCategoryId">>,
       ListProgramCategoriesByParentHandler(u, x)>>,
     <<<<"program", "category", "selectByType">>,
       ListProgramCategoriesByTypeHandler(u, x)>>,
     <<<<"program", "detail", "view">>, GetProgramDetailViewHandler(u, x)>>,
     <<<<"program", "home", "list">>, ListHomeProgramsHandler(u, x)>>,
     <<<<"program", "invalid">>, InvalidProgramHandler(u, x)>>,
     <<<<"program", "page">>, PageProgramsHandler(u, x)>>,
     <<<<"program", "preorder", "detail">>, GetProgramPreorderHandler(u, x)>>,
     <<<<"program", "reset", "execute">>, ResetProgramHandler(u, x)>>,
     <<<<"program", "show", "time", "add">>, CreateProgramShowTimeHandler(u, x)>>,
     <<<<"program", "update">>, UpdateProgramHandler(u, x)>>,
     <<<<"seat", "add">>, CreateSeatHandler(u, x)>>,
     <<<<"seat", "batch", "add">>, BatchCreateSeatsHandler(u, x)>>,
     <<<<"seat", "relate", "info">>, GetSeatRelateInfoHandler(u, x)>>,
     <<<<"ticket", "category", "add">>, CreateTicketCategoryHandler(u, x)>>,
     <<<<"ticket", "category", "detail">>, GetTicketCategoryDetailHandler(u, x)>>,
     <<<<"ticket", "category", "select", "list", "by", "program">>,
       ListTicketCategoriesByProgramHandler(u, x)>>}

-----------------------------------------------------------------------------
AuthRoutes(u, x) == UserAuthRoutes(u, x) \cup OrderAuthRoutes(u, x)

PublicRoutes(u, x) ==
    UserPublicRoutes(u, x) \cup OrderPublicRoutes(u, x) \cup PayRoutes(u, x) \cup ProgramRoutes(u, x)
=============================================================================
