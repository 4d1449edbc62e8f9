---------------------------- MODULE UserAccounts ----------------------------
(***************************************************************************)
(* The accounts of user-rpc: the row of d_user, the mapping rows of         *)
(* d_user_mobile and d_user_email by which a login finds it, the ticket     *)
(* users, and in Redis the counters of failed logins and the login tokens.  *)
(* No handler uses a transaction: each statement is a step, a statement can *)
(* fail, and an update writes the whole row that was read at the start.     *)
(***************************************************************************)
EXTENDS Integers, FiniteSets

CONSTANTS
    Ids,              \* user ids, numbers in the order in which xid issues them
    Mobiles, Emails,  \* what a mapping row is found by
    Passwords,
    People,           \* identities of ticket users
    Handlers,         \* calls being served
    First,            \* the row of the account that exists at first, with id 1
    FailLimit,        \* UserAuth.LoginFailLimit
    None,
    MaxCalls, MaxFaults \* bounds of the instance

ASSUME AccountsAssumption ==
    /\ Ids \subseteq Nat \ {0} /\ 1 \in Ids
    /\ First \in [mobile : Mobiles, email : Emails, password : Passwords,
                  authenticated : BOOLEAN]
    /\ FailLimit \in Nat \ {0}
    /\ None \notin Mobiles \cup Emails \cup Passwords
    /\ Mobiles \cap Emails = {}   \* two tables
    /\ IsFiniteSet(Handlers)

VARIABLES
    user,      \* rows of d_user
    mapping,   \* mobile or email -> its mapping row, a unique key
    tickets,   \* rows of d_ticket_user: user and identity
    fails,     \* login key -> counter in Redis, 0 if there is no key
    timed,     \* the counters that have a TTL
    sessions,  \* users with a login token in Redis
    call,      \* what a handler is doing
    issued,    \* user ids and mapping ids issued so far
    calls, faults,
    promised,  \* history: the row as the successful calls left it
    damaged,   \* history: users with calls that overlapped or stopped half-way,
               \* or with a mapping row that a call of another user deleted
    robbers    \* history: users whose calls deleted the mapping row of another

Keys == Mobiles \cup Emails
rows == <<user, mapping, tickets>>
counters == <<fails, timed, sessions>>
history == <<promised, damaged, robbers>>
vars == <<rows, counters, call, issued, calls, faults, history>>

NoUser == [mobile |-> None]
NoRow == [id |-> 0, user |-> 0]
Idle == [op |-> "idle"]

Init ==
    /\ user = [u \in Ids |-> IF u = 1 THEN First ELSE NoUser]
    /\ mapping = [k \in Keys |->
                    CASE k = First.mobile -> [id |-> 1, user |-> 1]
                      [] k = First.email -> [id |-> 2, user |-> 1]
                      [] OTHER -> NoRow]
    /\ tickets = {}
    /\ fails = [k \in Keys |-> 0]
    /\ timed = {}
    /\ sessions = {}
    /\ call = [h \in Handlers |-> Idle]
    /\ issued = [users |-> 1, rows |-> 2]
    /\ calls = 0
    /\ faults = 0
    /\ promised = user
    /\ damaged = {}
    /\ robbers = {}

-----------------------------------------------------------------------------
(* Calls.  "row" is the copy of the user the handler works on, "key" the    *)
(* mobile or email it is about, "found" the mapping row it is to delete.    *)

At(h, ops, at) == call[h] # Idle /\ call[h].op \in ops /\ call[h].at = at

\* The calls that write the row of an account or its mapping rows.
UpdateOps == {"password", "authenticate", "profile", "mobile", "email"}
WriterOps == UpdateOps \cup {"register"}

Writer(h) == call[h] # Idle /\ call[h].op \in WriterOps

Writing(u) == {h \in Handlers : Writer(h) /\ call[h].user = u}

Begin(h, op, at, u, key, row) ==
    /\ call[h] = Idle
    /\ calls < MaxCalls
    /\ calls' = calls + 1
    /\ call' = [call EXCEPT ![h] = [op |-> op, at |-> at, user |-> u, key |-> key,
                                    row |-> row, found |-> NoRow]]

Goto(h, at) == call' = [call EXCEPT ![h].at = at]

\* A call ends: with an error, which may leave its work half-way ...
EndWithError(h) ==
    /\ call' = [call EXCEPT ![h] = Idle]
    /\ damaged' = IF call[h].at \in {"drop", "insert", "write", "insertEmail"}
                  THEN damaged \cup {call[h].user} ELSE damaged
    /\ UNCHANGED <<promised, robbers>>

\* ... or with success, and the fields it was called for are in the row.
EndWithSuccess(h, row) ==
    /\ call' = [call EXCEPT ![h] = Idle]
    /\ promised' = [promised EXCEPT ![call[h].user] = row]
    /\ UNCHANGED <<damaged, robbers>>

-----------------------------------------------------------------------------
(* The tables.                                                              *)

InsertUser(u, row) == user' = [user EXCEPT ![u] = row]

UpdateRow(u, row) == user' = [user EXCEPT ![u] = row]

\* The row of a mobile number, and that of an email address.
FindOneByKey(k) == mapping[k]

FindOneByEmail(k) == mapping[k]

Exist(m) == FindOneByKey(m) # NoRow

\* What a reply tells of a row: all but the password.
BuildUserInfo(row) ==
    [mobile |-> row.mobile, email |-> row.email, authenticated |-> row.authenticated]

BuildTicketUserInfo(t) == [user |-> t[1], person |-> t[2]]

GetUserById(u) == IF user[u] = NoUser THEN NoUser ELSE BuildUserInfo(user[u])

GetUserByMobile(m) == IF Exist(m) THEN GetUserById(FindOneByKey(m).user) ELSE NoUser

FindByUserId(u) == {t \in tickets : t[1] = u}

ListTicketUsers(u) == {BuildTicketUserInfo(t) : t \in FindByUserId(u)}

\* The ticket user x, a kind and number of document, of the user u.
FindTicketUser(u, x) == <<u, x>> \in tickets

GetUserAndTicketUserList(u) == [user |-> GetUserById(u), ticketUsers |-> ListTicketUsers(u)]

InsertMapping(k, u) ==
    /\ mapping' = [mapping EXCEPT ![k] = [id |-> issued.rows + 1, user |-> u]]
    /\ issued' = [issued EXCEPT !.rows = @ + 1]

\* By the id of the row: a row that was inserted since is left alone.
DeleteMapping(row) ==
    mapping' = [k \in Keys |-> IF mapping[k] = row THEN NoRow ELSE mapping[k]]

-----------------------------------------------------------------------------
(* Register                                                                 *)

Register(h, m, e, p) ==
    LET u == issued.users + 1 IN
    /\ u \in Ids
    /\ ~Exist(m)
    /\ Begin(h, "register", "user", u, m,
             [mobile |-> m, email |-> e, password |-> p, authenticated |-> FALSE])
    /\ issued' = [issued EXCEPT !.users = u]
    /\ UNCHANGED <<rows, counters, faults, history>>

RegisterUser(h) ==
    /\ At(h, {"register"}, "user")
    /\ InsertUser(call[h].user, call[h].row)
    /\ Goto(h, "insert")
    /\ UNCHANGED <<mapping, tickets, counters, issued, calls, faults, history>>

\* The unique key decides between two registrations that both saw no row.
RegisterMobile(h) ==
    LET c == call[h] IN
    /\ At(h, {"register"}, "insert")
    /\ IF FindOneByKey(c.key) # NoRow
       THEN EndWithError(h) /\ UNCHANGED <<mapping, issued>>
       ELSE /\ InsertMapping(c.key, c.user)
            /\ IF c.row.email = None
               THEN EndWithSuccess(h, c.row)
               ELSE Goto(h, "insertEmail") /\ UNCHANGED history
    /\ UNCHANGED <<user, tickets, counters, calls, faults>>

RegisterEmail(h) ==
    LET c == call[h] IN
    /\ At(h, {"register"}, "insertEmail")
    /\ IF FindOneByEmail(c.row.email) # NoRow
       THEN EndWithError(h) /\ UNCHANGED <<mapping, issued>>
       ELSE InsertMapping(c.row.email, c.user) /\ EndWithSuccess(h, c.row)
    /\ UNCHANGED <<user, tickets, counters, calls, faults>>

-----------------------------------------------------------------------------
(* Updates of an account: all of them read the row first.                   *)

BeginUpdate(h, op, at, u, key, row) ==
    /\ user[u] # NoUser
    /\ Begin(h, op, at, u, key, row)
    /\ damaged' = IF Writing(u) = {} THEN damaged ELSE damaged \cup {u}
    /\ UNCHANGED <<rows, counters, issued, faults, promised, robbers>>

UpdatePassword(h, u, p) ==
    BeginUpdate(h, "password", "write", u, None, [user[u] EXCEPT !.password = p])

\* Faulty: the row is built from the request alone.
AuthenticationRebuilds(h, u) ==
    BeginUpdate(h, "authenticate", "write", u, None,
                [user[u] EXCEPT !.authenticated = TRUE, !.email = None])

Authentication(h, u) ==
    BeginUpdate(h, "authenticate", "write", u, None, [user[u] EXCEPT !.authenticated = TRUE])

\* UpdateUser with a new mobile does what UpdateMobile does, beside the name,
\* gender and address.
UpdateMobile(h, u, m) ==
    BeginUpdate(h, "mobile", IF m = user[u].mobile THEN "write" ELSE "check", u, m, user[u])

UpdateUser(h, u) == BeginUpdate(h, "profile", "write", u, None, user[u])

\* Without an address the old one is removed.
UpdateEmail(h, u, e) ==
    LET old == user[u].email IN
    BeginUpdate(h, "email", IF e = old THEN "write" ELSE IF e = None THEN "old" ELSE "check",
                u, e, user[u])

\* The address must not be that of another user.
CheckKey(h) ==
    LET c == call[h] IN
    /\ At(h, {"mobile", "email"}, "check")
    /\ IF FindOneByKey(c.key).user \notin {0, c.user}
       THEN EndWithError(h)
       ELSE Goto(h, "old") /\ UNCHANGED history
    /\ UNCHANGED <<rows, counters, issued, calls, faults>>

OldKey(c) == IF c.op = "mobile" THEN c.row.mobile ELSE c.row.email

\* Whose mapping it is that the row of the user names is not looked at.
FindOld(h) ==
    LET c == call[h]
        old == IF OldKey(c) = None THEN NoRow ELSE FindOneByKey(OldKey(c))
    IN /\ At(h, {"mobile", "email"}, "old")
       /\ call' = [call EXCEPT ![h] =
                     [c EXCEPT !.found = old,
                               !.at = IF old # NoRow THEN "drop"
                                      ELSE IF c.key = None THEN "write" ELSE "insert"]]
       /\ UNCHANGED <<rows, counters, issued, calls, faults, history>>

\* UpdateMobile and UpdateUser take a failed read of the old mapping for none,
\* so that the old mobile stays a login.
FindOldFails(h) ==
    /\ At(h, {"mobile"}, "old")
    /\ faults < MaxFaults
    /\ faults' = faults + 1
    /\ Goto(h, "insert")
    /\ damaged' = damaged \cup {call[h].user}
    /\ UNCHANGED <<rows, counters, issued, calls, promised, robbers>>

\* Faulty: the old mapping row is kept.
DropOldKept(h) ==
    /\ At(h, {"mobile", "email"}, "drop")
    /\ Goto(h, IF call[h].key = None THEN "write" ELSE "insert")
    /\ UNCHANGED <<rows, counters, issued, calls, faults, history>>

\* The other users whose mapping row it is.
Victims(c) == {mapping[k].user : k \in {l \in Keys : mapping[l] = c.found}} \ {0, c.user}

DropOld(h) ==
    LET victims == Victims(call[h]) IN
    /\ At(h, {"mobile", "email"}, "drop")
    /\ DeleteMapping(call[h].found)
    /\ Goto(h, IF call[h].key = None THEN "write" ELSE "insert")
    /\ damaged' = damaged \cup victims
    /\ robbers' = IF victims = {} THEN robbers ELSE robbers \cup {call[h].user}
    /\ UNCHANGED <<user, tickets, counters, issued, calls, faults, promised>>

InsertNew(h) ==
    LET c == call[h] IN
    /\ At(h, {"mobile", "email"}, "insert")
    /\ IF FindOneByKey(c.key) # NoRow
       THEN EndWithError(h) /\ UNCHANGED <<mapping, issued>>
       ELSE InsertMapping(c.key, c.user) /\ Goto(h, "write") /\ UNCHANGED history
    /\ UNCHANGED <<user, tickets, counters, calls, faults>>

\* The row as read at the start, with the fields of the call.
Written(c) ==
    CASE c.op = "mobile" -> [c.row EXCEPT !.mobile = c.key]
      [] c.op = "email" -> [c.row EXCEPT !.email = c.key]
      [] OTHER -> c.row

Asked(c) ==
    LET p == promised[c.user] IN
    CASE c.op = "mobile" -> [p EXCEPT !.mobile = c.key]
      [] c.op = "email" -> [p EXCEPT !.email = c.key]
      [] c.op = "password" -> [p EXCEPT !.password = c.row.password]
      [] c.op = "authenticate" -> [p EXCEPT !.authenticated = TRUE]
      [] OTHER -> p

WriteRow(h) ==
    LET c == call[h] IN
    /\ At(h, UpdateOps, "write")
    /\ UpdateRow(c.user, Written(c))
    /\ EndWithSuccess(h, Asked(c))
    /\ UNCHANGED <<mapping, tickets, counters, issued, calls, faults>>

-----------------------------------------------------------------------------
(* Ticket users                                                             *)

AddTicketUser(h, u, x) ==
    /\ user[u] # NoUser
    /\ ~FindTicketUser(u, x)
    /\ Begin(h, "ticket", "ticket", u, x, NoUser)
    /\ UNCHANGED <<rows, counters, issued, faults, history>>

InsertTicketUser(h) ==
    /\ At(h, {"ticket"}, "ticket")
    /\ tickets' = tickets \cup {<<call[h].user, call[h].key>>}
    /\ call' = [call EXCEPT ![h] = Idle]
    /\ UNCHANGED <<user, mapping, counters, issued, calls, faults, history>>

DeleteTicketUser(t) ==
    /\ tickets' = tickets \ {t}
    /\ UNCHANGED <<user, mapping, counters, call, issued, calls, faults, history>>

-----------------------------------------------------------------------------
(* Login by mobile or email, and Logout.                                    *)

Login(h, k, p) ==
    /\ FindOneByKey(k) # NoRow
    /\ Begin(h, "login", "find", FindOneByKey(k).user, k, [password |-> p])
    /\ UNCHANGED <<rows, counters, issued, faults, history>>

\* The row of the user is read, and the password of the call compared with it.
LoginFind(h) ==
    LET c == call[h]
        right == user[c.user].password = c.row.password
    IN /\ At(h, {"login"}, "find")
       /\ call' = [call EXCEPT ![h] = [c EXCEPT !.row = [password |-> right], !.at = "guard"]]
       /\ UNCHANGED <<rows, counters, issued, calls, faults, history>>

\* Faulty: the attempt that reaches the limit is let through.
LoginGuardLate(h) ==
    /\ At(h, {"login"}, "guard")
    /\ IF fails[call[h].key] > FailLimit
       THEN call' = [call EXCEPT ![h] = Idle] ELSE Goto(h, "verify")
    /\ UNCHANGED <<rows, counters, issued, calls, faults, history>>

\* A counter that cannot be read is taken for none.
LoginGuard(h) ==
    /\ At(h, {"login"}, "guard")
    /\ \/ /\ IF fails[call[h].key] >= FailLimit
             THEN call' = [call EXCEPT ![h] = Idle] ELSE Goto(h, "verify")
          /\ UNCHANGED faults
       \/ faults < MaxFaults /\ faults' = faults + 1 /\ Goto(h, "verify")
    /\ UNCHANGED <<rows, counters, issued, calls, history>>

\* The first failure also sets the TTL of the counter.
LoginVerify(h) ==
    LET k == call[h].key IN
    /\ At(h, {"login"}, "verify")
    /\ IF call[h].row.password
       THEN /\ fails' = [fails EXCEPT ![k] = 0]
            /\ timed' = timed \ {k}
            /\ Goto(h, "token")
       ELSE /\ fails' = [fails EXCEPT ![k] = @ + 1]
            /\ call' = IF fails[k] = 0 THEN [call EXCEPT ![h].at = "expire"]
                       ELSE [call EXCEPT ![h] = Idle]
            /\ UNCHANGED timed
    /\ UNCHANGED <<rows, sessions, issued, calls, faults, history>>

\* Faulty: the counter is kept without a TTL.
LoginExpireNever(h) ==
    /\ At(h, {"login"}, "expire")
    /\ call' = [call EXCEPT ![h] = Idle]
    /\ UNCHANGED <<rows, counters, issued, calls, faults, history>>

LoginExpire(h) ==
    /\ At(h, {"login"}, "expire")
    /\ timed' = IF fails[call[h].key] > 0 THEN timed \cup {call[h].key} ELSE timed
    /\ call' = [call EXCEPT ![h] = Idle]
    /\ UNCHANGED <<rows, fails, sessions, issued, calls, faults, history>>

LoginToken(h) ==
    /\ At(h, {"login"}, "token")
    /\ sessions' = sessions \cup {call[h].user}
    /\ call' = [call EXCEPT ![h] = Idle]
    /\ UNCHANGED <<rows, fails, timed, issued, calls, faults, history>>

Logout(u) ==
    /\ u \in sessions
    /\ sessions' = sessions \ {u}
    /\ UNCHANGED <<rows, fails, timed, call, issued, calls, faults, history>>

CounterExpires(k) ==
    /\ k \in timed
    /\ fails' = [fails EXCEPT ![k] = 0]
    /\ timed' = timed \ {k}
    /\ UNCHANGED <<rows, sessions, call, issued, calls, faults, history>>

\* A statement or command fails, or the process dies.
Fail(h) ==
    /\ call[h] # Idle
    /\ faults < MaxFaults
    /\ faults' = faults + 1
    /\ EndWithError(h)
    /\ UNCHANGED <<rows, counters, issued, calls>>

-----------------------------------------------------------------------------
Start(h) ==
    \/ \E m \in Mobiles, e \in Emails \cup {None}, p \in Passwords : Register(h, m, e, p)
    \/ \E k \in Keys, p \in Passwords : Login(h, k, p)
    \/ \E u \in Ids :
         \/ \E p \in Passwords : UpdatePassword(h, u, p)
         \/ Authentication(h, u) \/ UpdateUser(h, u)
         \/ \E m \in Mobiles : UpdateMobile(h, u, m)
         \/ \E e \in Emails \cup {None} : UpdateEmail(h, u, e)
         \/ \E x \in People : AddTicketUser(h, u, x)

Step(h) ==
    \/ RegisterUser(h) \/ RegisterMobile(h) \/ RegisterEmail(h)
    \/ CheckKey(h) \/ FindOld(h) \/ FindOldFails(h) \/ DropOld(h) \/ InsertNew(h) \/ WriteRow(h)
    \/ InsertTicketUser(h)
    \/ LoginFind(h) \/ LoginGuard(h) \/ LoginVerify(h) \/ LoginExpire(h) \/ LoginToken(h)

Next ==
    \/ \E h \in Handlers : Start(h) \/ Step(h) \/ Fail(h)
    \/ \E t \in tickets : DeleteTicketUser(t)
    \/ \E u \in Ids : Logout(u)
    \/ \E k \in Keys : CounterExpires(k)

Spec == Init /\ [][Next]_vars

\* Handlers run to their end, and Redis drops a key whose TTL has passed.
FairSpec ==
    /\ Spec
    /\ \A h \in Handlers : WF_vars(Step(h))
    /\ \A k \in Keys : WF_vars(CounterExpires(k))

-----------------------------------------------------------------------------
MappingsOf(u) == {k \in Keys : mapping[k].user = u}

\* A user can log in with exactly the mobile and the email of his row, whatever
\* happens to other accounts, unless two calls wrote his account at a time, one
\* stopped half-way, or a call of another user deleted his mapping row (FindOld
\* does not look at whose it is).  Only an account that is itself damaged does
\* that: a registration refused for its email has left a row that names the
\* address of another user, and a later UpdateEmail deletes that mapping.
MappingsAgree ==
    /\ \A u \in Ids \ damaged :
        user[u] # NoUser /\ Writing(u) = {} =>
            /\ MappingsOf(u) = {user[u].mobile, user[u].email} \ {None}
            /\ GetUserByMobile(user[u].mobile) = GetUserById(u)
    /\ robbers \subseteq damaged

\* What a call has acknowledged stays in the row: no later call takes back a
\* password, an address or an authentication, unless calls that write this
\* account overlapped or failed, or its mapping row was deleted.
AcknowledgedKept ==
    \A u \in Ids \ damaged : Writing(u) = {} => user[u] = promised[u]

\* The counter is read and incremented in two steps, so that each handler may
\* guess once more than the limit says, and so may one whose read failed.
GuessesBounded ==
    \A k \in Keys : fails[k] <= FailLimit - 1 + Cardinality(Handlers) + faults

Untimed(k) == fails[k] > 0 /\ k \notin timed /\ \A h \in Handlers : ~At(h, {"login"}, "expire")

\* A locked login is open again in the end, unless the process died between
\* the first INCR and its EXPIRE.
LockEnds ==
    \A k \in Keys : fails[k] >= FailLimit ~> (fails[k] < FailLimit \/ (Untimed(k) /\ faults > 0))
=============================================================================
