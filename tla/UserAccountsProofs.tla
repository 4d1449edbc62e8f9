------------------------ MODULE UserAccountsProofs ------------------------
(***************************************************************************)
(* Proofs about UserAccounts for any users, addresses, handlers, number of  *)
(* calls and of faults.  No statement of a handler is in a transaction, so  *)
(* the invariant says, for each place between two statements, what the row  *)
(* and the mapping rows of the account look like (Positions), and that an   *)
(* account no writer is at is settled (Settled).                            *)
(***************************************************************************)
EXTENDS UserAccounts, FiniteSetTheorems, TLAPS

UserRow == [mobile : Mobiles, email : Emails \cup {None}, password : Passwords,
            authenticated : BOOLEAN]

MappingRow == [id : Nat, user : Ids \cup {0}]

Points == {"user", "insert", "insertEmail", "write", "check", "old", "drop", "ticket",
           "find", "guard", "verify", "expire", "token"}

AccountCalls(ops, keys) == [op : ops, at : Points, user : Ids, key : keys, row : UserRow,
                            found : MappingRow]

WriterCalls ==
    AccountCalls({"register", "mobile"}, Mobiles)
    \cup AccountCalls({"email"}, Emails \cup {None})
    \cup AccountCalls({"password", "authenticate", "profile"}, {None})

LoginCalls == [op : {"login"}, at : Points, user : Ids, key : Keys,
               row : [password : Passwords \cup BOOLEAN], found : MappingRow]

TicketCalls == [op : {"ticket"}, at : Points, user : Ids, key : People, row : {NoUser},
                found : MappingRow]

TypeOK ==
    /\ user \in [Ids -> UserRow \cup {NoUser}]
    /\ promised = [u \in Ids |-> promised[u]]
    /\ mapping \in [Keys -> MappingRow]
    /\ call \in [Handlers -> WriterCalls \cup LoginCalls \cup TicketCalls \cup {Idle}]
    /\ issued \in [users : Nat, rows : Nat]
    /\ fails \in [Keys -> Nat]
    /\ faults \in Nat

\* A mapping row names a user that is there, and its id names one mapping; an
\* id that was not issued names nothing.
Issued ==
    /\ \A k \in Keys : mapping[k].user = 0 <=> mapping[k].id = 0
    /\ \A k \in Keys : mapping[k].id <= issued.rows
    /\ \A k, l \in Keys : mapping[k].id = mapping[l].id /\ mapping[k].id # 0 => k = l
    /\ \A k \in Keys : mapping[k].user # 0 => user[mapping[k].user] # NoUser
    /\ \A u \in Ids : u > issued.users => user[u] = NoUser /\ promised[u] = NoUser
    /\ \A h \in Handlers : call[h] # Idle => call[h].user <= issued.users
    /\ \A h \in Handlers : call[h] # Idle /\ call[h].op \in WriterOps
            /\ ~(call[h].op = "register" /\ call[h].at = "user")
            => user[call[h].user] # NoUser

KeysOf(r) == IF r = NoUser THEN {} ELSE {r.mobile, r.email} \ {None}

OneWriter ==
    \A g, h \in Handlers :
        Writer(g) /\ Writer(h) /\ call[g].user = call[h].user /\ call[g].user \notin damaged
        => g = h

SettledUser(u) ==
    (\A h \in Handlers : Writer(h) => call[h].user # u)
    => user[u] = promised[u] /\ MappingsOf(u) = KeysOf(user[u])

Settled == \A u \in Ids \ damaged : SettledUser(u)

RegisterPosition(c) ==
    /\ promised[c.user] = NoUser
    /\ c.key = c.row.mobile
    /\ c.at \in {"user", "insert", "insertEmail"}
    /\ c.at = "user" => user[c.user] = NoUser
    /\ c.at # "user" => user[c.user] = c.row
    /\ c.at # "insertEmail" => MappingsOf(c.user) = {}
    /\ c.at = "insertEmail" => MappingsOf(c.user) = {c.key} /\ c.row.email # None

UpdatePosition(c) ==
    LET r == user[c.user] IN
    /\ r = promised[c.user] /\ r # NoUser
    /\ c.row = CASE c.op = "password" -> [r EXCEPT !.password = c.row.password]
                 [] c.op = "authenticate" -> [r EXCEPT !.authenticated = TRUE]
                 [] OTHER -> r
    /\ c.op \in {"mobile", "email"} \/ c.at = "write"
    /\ c.at \in {"check", "old", "drop", "insert", "write"}
    /\ c.at \in {"check", "old", "drop"} => c.key # OldKey(c) /\ MappingsOf(c.user) = KeysOf(r)
    /\ c.at = "drop" => OldKey(c) # None /\ c.found = mapping[OldKey(c)]
    /\ c.at = "insert" => c.key # None /\ MappingsOf(c.user) = KeysOf(r) \ {OldKey(c)}
    /\ c.at = "write" => MappingsOf(c.user) = KeysOf(Written(c))

Position(c) == IF c.op = "register" THEN RegisterPosition(c) ELSE UpdatePosition(c)

Positions ==
    \A h \in Handlers : Writer(h) /\ call[h].user \notin damaged => Position(call[h])

Accounts == OneWriter /\ Settled /\ Positions /\ robbers \subseteq damaged

\* The logins that have passed the guard and have not yet counted a failure.
Guessing(k) == {h \in Handlers : At(h, {"login"}, "verify") /\ call[h].key = k}

Guesses ==
    \A k \in Keys :
        fails[k] + Cardinality(Guessing(k)) <= FailLimit - 1 + Cardinality(Handlers) + faults

IInv == TypeOK /\ Issued /\ Accounts /\ Guesses

-----------------------------------------------------------------------------
\* The account that exists at first is settled and has its two mappings.
LEMMA InitIInv == Init => IInv
<1> SUFFICES ASSUME Init PROVE IInv
  OBVIOUS
<1> USE AccountsAssumption DEF Init, NoUser, NoRow, Idle, Keys
<1>1. TypeOK
  BY DEF TypeOK, UserRow, MappingRow
<1>2. Issued
  BY <1>1 DEF Issued
<1>3. \A h \in Handlers : ~Writer(h)
  BY DEF Writer
<1>4. Settled
  <2> SUFFICES ASSUME NEW u \in Ids PROVE user[u] = promised[u] /\ MappingsOf(u) = KeysOf(user[u])
    BY DEF Settled, SettledUser
  <2>1. CASE u = 1
    BY <2>1 DEF MappingsOf, KeysOf
  <2>2. CASE u # 1
    BY <2>2 DEF MappingsOf, KeysOf
  <2>3. QED
    BY <2>1, <2>2
<1>5. Accounts
  BY <1>3, <1>4 DEF Accounts, OneWriter, Positions
<1>6. Guesses
  <2>1. \A k \in Keys : Guessing(k) = {}
    BY DEF Guessing, At
  <2>2. Cardinality({}) = 0 /\ Cardinality(Handlers) \in Nat
    BY FS_EmptySet, FS_CardinalityType
  <2>3. \A k \in Keys : Cardinality(Guessing(k)) = 0
    BY <2>1, <2>2, Zenon
  <2>4. \A k \in Keys : fails[k] = 0
    OBVIOUS
  <2>5. faults = 0
    OBVIOUS
  <2>6. QED
    BY <2>2, <2>3, <2>4, <2>5 DEF Guesses
<1>7. QED
  BY <1>1, <1>2, <1>5, <1>6 DEF IInv

\* What the type says of a call that is not idle.
CallOK(c) ==
    /\ c \in WriterCalls \cup LoginCalls \cup TicketCalls
    /\ c.op \in WriterOps \cup {"login", "ticket"}
    /\ c.at \in Points
    /\ c.user \in Ids
    /\ c.op \in WriterOps => /\ c \in WriterCalls
                             /\ c.row \in UserRow
                             /\ c.key \in Keys \cup {None}
                             /\ c.found \in MappingRow
    /\ c.op \in {"mobile", "register"} => c.key \in Mobiles
    /\ c.op = "email" => c.key \in Emails \cup {None}
    /\ c.op = "login" => c.key \in Keys

LEMMA CallFields == TypeOK => \A h \in Handlers : call[h] # Idle => CallOK(call[h])
<1> SUFFICES ASSUME TypeOK, NEW h \in Handlers, call[h] # Idle PROVE CallOK(call[h])
  OBVIOUS
<1>1. call[h] \in WriterCalls \cup LoginCalls \cup TicketCalls
  BY DEF TypeOK
<1>2. QED
  BY <1>1 DEF WriterCalls, AccountCalls, LoginCalls, TicketCalls, WriterOps, UpdateOps, CallOK, Keys

\* A login that reads the row of its user goes on to the guard.
LEMMA LoginFindCall ==
  ASSUME TypeOK, NEW h \in Handlers, LoginFind(h)
  PROVE  /\ call[h] # Idle /\ call[h].op = "login" /\ call[h].at = "find"
         /\ call' \in [Handlers -> WriterCalls \cup LoginCalls \cup TicketCalls \cup {Idle}]
         /\ call'[h].op = "login" /\ call'[h].at = "guard" /\ call'[h].user = call[h].user
         /\ \A g \in Handlers \ {h} : call'[g] = call[g]
         /\ UNCHANGED <<rows, counters, issued, faults, history>>
<1>1. call[h] # Idle /\ call[h].op = "login" /\ call[h].at = "find"
  BY DEF LoginFind, At
<1>2. call[h] \in LoginCalls
  BY <1>1 DEF TypeOK, WriterCalls, AccountCalls, TicketCalls
<1>3. PICK b \in BOOLEAN : b = (user[call[h].user].password = call[h].row.password)
  OBVIOUS
<1>4. PICK d : d = [call[h] EXCEPT !.row = [password |-> b], !.at = "guard"]
  OBVIOUS
<1>5. d \in LoginCalls /\ d.op = "login" /\ d.at = "guard" /\ d.user = call[h].user
  BY <1>1, <1>2, <1>4 DEF LoginCalls, Points
<1>6. call' = [call EXCEPT ![h] = d]
  BY <1>3, <1>4 DEF LoginFind
<1>7. UNCHANGED <<rows, counters, issued, faults, history>>
  BY Zenon DEF LoginFind
<1>8. QED
  BY <1>1, <1>5, <1>6, <1>7 DEF TypeOK

\* Every action keeps the state well formed; a login reads the row of a user
\* that is there because its mapping row says so.
LEMMA TypeStep == TypeOK /\ Issued /\ [Next]_vars => TypeOK'
<1> SUFFICES ASSUME TypeOK, Issued, [Next]_vars PROVE TypeOK'
  OBVIOUS
<1> USE AccountsAssumption, CallFields DEF CallOK, rows, counters, history
<1>0. CASE UNCHANGED vars
  BY <1>0 DEF vars, TypeOK
<1>1. ASSUME NEW h \in Handlers, NEW m \in Mobiles, NEW e \in Emails \cup {None},
             NEW p \in Passwords, Register(h, m, e, p)
      PROVE TypeOK'
  BY <1>1 DEF Register, Begin, TypeOK, WriterCalls, AccountCalls, WriterOps, UpdateOps, Points, UserRow,
              MappingRow, NoRow, Keys
<1>2. ASSUME NEW h \in Handlers, NEW u \in Ids, NEW op \in UpdateOps, NEW at \in Points,
             NEW key, NEW row \in UserRow, BeginUpdate(h, op, at, u, key, row),
             CASE op = "mobile" -> key \in Mobiles [] op = "email" -> key \in Emails \cup {None}
               [] OTHER -> key = None
      PROVE TypeOK'
  <2>1. [op |-> op, at |-> at, user |-> u, key |-> key, row |-> row, found |-> NoRow] \in WriterCalls
    BY <1>2 DEF WriterCalls, AccountCalls, UpdateOps, MappingRow, NoRow
  <2>2. QED
    BY <1>2, <2>1 DEF BeginUpdate, Begin, TypeOK
<1>3. ASSUME NEW u \in Ids, user[u] # NoUser
      PROVE user[u] \in UserRow
  BY <1>3 DEF TypeOK
<1>4. ASSUME NEW h \in Handlers, NEW u \in Ids, NEW p \in Passwords, UpdatePassword(h, u, p)
      PROVE TypeOK'
  <2>1. [user[u] EXCEPT !.password = p] \in UserRow
    BY <1>3, <1>4 DEF UpdatePassword, BeginUpdate, UserRow
  <2>2. QED
    BY <1>2, <1>4, <2>1 DEF UpdatePassword, UpdateOps, Points
<1>5. ASSUME NEW h \in Handlers, NEW u \in Ids, Authentication(h, u)
      PROVE TypeOK'
  <2>1. [user[u] EXCEPT !.authenticated = TRUE] \in UserRow
    BY <1>3, <1>5 DEF Authentication, BeginUpdate, UserRow
  <2>2. QED
    BY <1>2, <1>5, <2>1 DEF Authentication, UpdateOps, Points
<1>6. ASSUME NEW h \in Handlers, NEW u \in Ids, UpdateUser(h, u)
      PROVE TypeOK'
  <2>1. user[u] \in UserRow
    BY <1>3, <1>6 DEF UpdateUser, BeginUpdate
  <2>2. QED
    BY <1>2, <1>6, <2>1 DEF UpdateUser, UpdateOps, Points
<1>7. ASSUME NEW h \in Handlers, NEW u \in Ids, NEW m \in Mobiles, UpdateMobile(h, u, m)
      PROVE TypeOK'
  <2>1. user[u] \in UserRow
    BY <1>3, <1>7 DEF UpdateMobile, BeginUpdate
  <2>2. QED
    BY <1>2, <1>7, <2>1 DEF UpdateMobile, UpdateOps, Points, Keys
<1>8. ASSUME NEW h \in Handlers, NEW u \in Ids, NEW e \in Emails \cup {None}, UpdateEmail(h, u, e)
      PROVE TypeOK'
  <2>1. user[u] \in UserRow
    BY <1>3, <1>8 DEF UpdateEmail, BeginUpdate
  <2>2. QED
    BY <1>2, <1>8, <2>1 DEF UpdateEmail, UpdateOps, Points, Keys
<1>9. ASSUME NEW h \in Handlers, NEW u \in Ids, NEW x \in People, AddTicketUser(h, u, x)
      PROVE TypeOK'
  BY <1>9 DEF AddTicketUser, Begin, TypeOK, TicketCalls, Points, MappingRow, NoRow
<1>10. ASSUME NEW h \in Handlers, NEW k \in Keys, NEW p \in Passwords, Login(h, k, p)
       PROVE TypeOK'
  <2>1. mapping[k] \in MappingRow /\ mapping[k] # NoRow
    BY <1>10 DEF Login, FindOneByKey, TypeOK
  <2>2. mapping[k].user \in Ids
    BY <2>1 DEF Issued, MappingRow, NoRow
  <2>3. QED
    BY <1>10, <2>2 DEF Login, FindOneByKey, Begin, TypeOK, LoginCalls, Points, MappingRow, NoRow
<1>11. ASSUME NEW h \in Handlers, call[h] # Idle, NEW at \in Points, Goto(h, at)
       PROVE call' \in [Handlers -> WriterCalls \cup LoginCalls \cup TicketCalls \cup {Idle}]
  BY <1>11 DEF TypeOK, Goto, WriterCalls, AccountCalls, LoginCalls, TicketCalls
<1>12. ASSUME NEW h \in Handlers, call' = [call EXCEPT ![h] = Idle]
       PROVE call' \in [Handlers -> WriterCalls \cup LoginCalls \cup TicketCalls \cup {Idle}]
  BY <1>12 DEF TypeOK
<1>13. ASSUME NEW h \in Handlers, RegisterUser(h) \/ CheckKey(h) \/ FindOldFails(h) \/ DropOld(h)
       PROVE TypeOK'
  BY <1>11, <1>12, <1>13 DEF RegisterUser, CheckKey, FindOldFails, DropOld, At, InsertUser,
     EndWithError, DeleteMapping, Points, TypeOK, WriterOps, UpdateOps, MappingRow, NoRow
<1>14. ASSUME NEW h \in Handlers, FindOld(h)
       PROVE TypeOK'
  <2>1. call[h] \in WriterCalls /\ call[h].row \in UserRow
    BY <1>14 DEF FindOld, At, WriterOps, UpdateOps
  <2>2. OldKey(call[h]) \in Keys \cup {None}
    BY <2>1 DEF OldKey, UserRow, Keys
  <2> DEFINE old == IF OldKey(call[h]) = None THEN NoRow ELSE mapping[OldKey(call[h])]
  <2>3. old \in MappingRow
    BY <2>2 DEF TypeOK, MappingRow, NoRow
  <2> HIDE DEF old
  <2>4. PICK at \in Points : call' = [call EXCEPT ![h] = [call[h] EXCEPT !.found = old, !.at = at]]
    BY <1>14 DEF FindOld, FindOneByKey, Points, old
  <2>5. [call[h] EXCEPT !.found = old, !.at = at] \in WriterCalls
    BY <2>1, <2>3 DEF WriterCalls, AccountCalls
  <2>6. QED
    BY <1>14, <2>4, <2>5 DEF FindOld, TypeOK
<1>15. ASSUME NEW k, NEW u \in Ids, InsertMapping(k, u)
       PROVE mapping' \in [Keys -> MappingRow] /\ issued' \in [users : Nat, rows : Nat]
  <2>1. [id |-> issued.rows + 1, user |-> u] \in MappingRow
    BY DEF TypeOK, MappingRow
  <2>2. issued' \in [users : Nat, rows : Nat]
    BY <1>15 DEF InsertMapping, TypeOK
  <2>3. mapping' \in [Keys -> MappingRow]
    BY <1>15, <2>1 DEF InsertMapping, TypeOK
  <2>4. QED
    BY <2>2, <2>3
<1>16. ASSUME NEW h \in Handlers, RegisterMobile(h) \/ RegisterEmail(h) \/ InsertNew(h)
       PROVE TypeOK'
  <2>1. call[h] # Idle /\ call[h] \in WriterCalls /\ call[h].row \in UserRow
    BY <1>16 DEF RegisterMobile, RegisterEmail, InsertNew, At, WriterOps, UpdateOps
  <2>2. CASE RegisterMobile(h)
    BY <1>11, <1>12, <1>15, <1>16, <2>1, <2>2 DEF RegisterMobile, At, EndWithError,
       EndWithSuccess, Points, TypeOK, MappingRow
  <2>3. CASE RegisterEmail(h)
    BY <1>11, <1>12, <1>15, <1>16, <2>1, <2>3 DEF RegisterEmail, At, EndWithError,
       EndWithSuccess, Points, TypeOK, MappingRow
  <2>4. CASE InsertNew(h)
    BY <1>11, <1>12, <1>15, <1>16, <2>1, <2>4 DEF InsertNew, At, EndWithError,
       Points, TypeOK, MappingRow
  <2>5. QED
    BY <1>16, <2>2, <2>3, <2>4
<1>17. ASSUME NEW h \in Handlers, WriteRow(h)
       PROVE TypeOK'
  <2>1. call[h] # Idle /\ call[h] \in WriterCalls /\ call[h].row \in UserRow
    BY <1>17 DEF WriteRow, At, WriterOps, UpdateOps
  <2>2. QED
    BY <1>12, <1>17, <2>1 DEF WriteRow, At, UpdateRow, Written, EndWithSuccess, TypeOK, UserRow, Keys
<1>18. ASSUME NEW h \in Handlers, InsertTicketUser(h) \/ LoginGuard(h) \/ LoginVerify(h)
              \/ LoginExpire(h) \/ LoginToken(h)
       PROVE TypeOK'
  BY <1>11, <1>12, <1>18 DEF InsertTicketUser, LoginGuard, LoginVerify, LoginExpire, LoginToken,
     At, Goto, Points, TypeOK
<1>19. ASSUME NEW h \in Handlers, Fail(h)
       PROVE TypeOK'
  BY <1>12, <1>19 DEF Fail, EndWithError, TypeOK
<1>20. ASSUME NEW t, DeleteTicketUser(t)
       PROVE TypeOK'
  BY <1>20 DEF DeleteTicketUser, TypeOK
<1>21. ASSUME NEW u \in Ids, Logout(u)
       PROVE TypeOK'
  BY <1>21 DEF Logout, TypeOK
<1>22. ASSUME NEW k \in Keys, CounterExpires(k)
       PROVE TypeOK'
  BY <1>22 DEF CounterExpires, TypeOK
<1>23. ASSUME NEW h \in Handlers, LoginFind(h)
       PROVE TypeOK'
  BY <1>23, LoginFindCall DEF TypeOK
<1>24. QED
  BY <1>0, <1>1, <1>4, <1>5, <1>6, <1>7, <1>8, <1>9, <1>10, <1>13, <1>14, <1>16, <1>17, <1>18,
     <1>19, <1>20, <1>21, <1>22, <1>23
  DEF Next, Start, Step

\* A row of d_user is never removed, and what is issued is new.
LEMMA IssuedStep == TypeOK /\ TypeOK' /\ Issued /\ [Next]_vars => Issued'
<1> SUFFICES ASSUME TypeOK, TypeOK', Issued, [Next]_vars PROVE Issued'
  OBVIOUS
<1> USE AccountsAssumption, CallFields DEF CallOK, rows, counters, history
<1>0. CASE UNCHANGED vars
  BY <1>0 DEF vars, Issued
<1>1. ASSUME NEW h \in Handlers, NEW m \in Mobiles, NEW e \in Emails \cup {None},
             NEW p \in Passwords, Register(h, m, e, p)
      PROVE Issued'
  BY <1>1 DEF Register, Begin, Issued, TypeOK
<1>2. ASSUME NEW h \in Handlers, NEW u \in Ids, NEW op, NEW at, NEW key, NEW row, op # "register",
             BeginUpdate(h, op, at, u, key, row)
      PROVE Issued'
  BY <1>2 DEF BeginUpdate, Begin, Issued, TypeOK, Idle
<1>3. ASSUME NEW h \in Handlers, NEW u \in Ids, NEW x \in People, AddTicketUser(h, u, x)
      PROVE Issued'
  BY <1>3 DEF AddTicketUser, Begin, Issued, TypeOK, Idle, WriterOps, UpdateOps
<1>4. ASSUME NEW h \in Handlers, NEW k \in Keys, NEW p \in Passwords, Login(h, k, p)
      PROVE Issued'
  <2>1. mapping[k].user \in Ids /\ mapping[k].user <= issued.users
    BY <1>4 DEF Login, FindOneByKey, TypeOK, Issued, MappingRow, NoRow
  <2>2. QED
    BY <1>4, <2>1 DEF Login, FindOneByKey, Begin, Issued, TypeOK, Idle, WriterOps, UpdateOps
<1>5. ASSUME NEW h \in Handlers, call' = [call EXCEPT ![h] = Idle],
             UNCHANGED <<user, mapping, issued, promised>>
      PROVE Issued'
  BY <1>5 DEF Issued, TypeOK
<1>6. ASSUME NEW h \in Handlers, call[h] # Idle, NEW at \in Points, call[h].at # "user", Goto(h, at),
             UNCHANGED <<user, mapping, issued, promised>>
      PROVE Issued'
  BY <1>6 DEF Goto, Issued, TypeOK, Idle
<1>7. ASSUME NEW h \in Handlers, RegisterUser(h)
      PROVE Issued'
  BY <1>7 DEF RegisterUser, At, InsertUser, Goto, Issued, TypeOK, Idle, UserRow, NoUser, WriterOps
<1>8. ASSUME NEW h \in Handlers, CheckKey(h) \/ FindOldFails(h)
      PROVE Issued'
  BY <1>5, <1>6, <1>8 DEF CheckKey, FindOldFails, At, EndWithError, Points
<1>9. ASSUME NEW h \in Handlers, FindOld(h)
      PROVE Issued'
  <2>1. call[h] \in WriterCalls
    BY <1>9 DEF FindOld, At, WriterOps, UpdateOps
  <2>2. /\ call'[h].op = call[h].op /\ call'[h].user = call[h].user
        /\ \A g \in Handlers \ {h} : call'[g] = call[g]
    BY <1>9, <2>1 DEF FindOld, TypeOK, WriterCalls, AccountCalls
  <2>3. QED
    BY <1>9, <2>2 DEF FindOld, At, Issued, TypeOK, Idle, WriterOps, UpdateOps
<1>10. ASSUME NEW h \in Handlers, DropOld(h)
       PROVE Issued'
  <2>1. \A k \in Keys : mapping'[k] \in {mapping[k], NoRow}
    BY <1>10 DEF DropOld, DeleteMapping
  <2>2. /\ \A k \in Keys : mapping'[k].user = 0 <=> mapping'[k].id = 0
        /\ \A k \in Keys : mapping'[k].id <= issued.rows
        /\ \A k, l \in Keys : mapping'[k].id = mapping'[l].id /\ mapping'[k].id # 0 => k = l
        /\ \A k \in Keys : mapping'[k].user # 0 => user[mapping'[k].user] # NoUser
    BY <2>1 DEF Issued, TypeOK, NoRow
  <2>3. \A g \in Handlers : call'[g] # Idle =>
            call[g] # Idle /\ call'[g].user = call[g].user /\ call'[g].op = call[g].op
            /\ (g # h => call'[g] = call[g])
    BY <1>10 DEF DropOld, At, Goto, TypeOK, Idle
  <2>4. QED
    BY <1>10, <2>2, <2>3 DEF DropOld, At, Issued, TypeOK
<1>11. ASSUME NEW k, NEW u \in Ids, InsertMapping(k, u), user[u] # NoUser, k \in Keys => mapping[k] = NoRow
       PROVE /\ \A l \in Keys : mapping'[l].user = 0 <=> mapping'[l].id = 0
             /\ \A l \in Keys : mapping'[l].id <= issued'.rows
             /\ \A l, m \in Keys : mapping'[l].id = mapping'[m].id /\ mapping'[l].id # 0 => l = m
             /\ \A l \in Keys : mapping'[l].user # 0 => user[mapping'[l].user] # NoUser
             /\ issued'.users = issued.users
  <2>1. /\ issued'.rows = issued.rows + 1 /\ issued.rows \in Nat
        /\ issued'.users = issued.users
    BY <1>11 DEF InsertMapping, TypeOK
  <2>2. /\ \A l \in Keys \ {k} : mapping'[l] = mapping[l]
        /\ k \in Keys => mapping'[k] = [id |-> issued.rows + 1, user |-> u]
    BY <1>11 DEF InsertMapping, TypeOK
  <2>3. \A l \in Keys : mapping[l].id \in Nat
    BY DEF TypeOK, MappingRow
  <2>4. QED
    BY <1>11, <2>1, <2>2, <2>3 DEF Issued
<1>12. ASSUME NEW h \in Handlers, call[h] # Idle, user[call[h].user] # NoUser,
              NEW k, InsertMapping(k, call[h].user), k \in Keys => mapping[k] = NoRow,
              UNCHANGED user,
              \A u \in Ids \ {call[h].user} : promised'[u] = promised[u],
              \/ call' = [call EXCEPT ![h] = Idle]
              \/ call[h].at # "user" /\ \E at \in Points : Goto(h, at)
       PROVE Issued'
  <2>1. \A g \in Handlers : call'[g] # Idle =>
            call[g] # Idle /\ call'[g].user = call[g].user /\ call'[g].op = call[g].op
            /\ (g # h => call'[g] = call[g])
    <3>1. CASE call' = [call EXCEPT ![h] = Idle]
      BY <3>1 DEF TypeOK
    <3>2. CASE \E at \in Points : Goto(h, at)
      BY <1>12, <3>2 DEF Goto, TypeOK
    <3>3. QED
      BY <1>12, <3>1, <3>2
  <2>2. call[h].user \in Ids /\ call[h].user <= issued.users
    BY <1>12 DEF Issued
  <2>3. \A u \in Ids : u > issued.users => user[u] = NoUser /\ promised'[u] = NoUser
    BY <1>12, <2>2 DEF Issued
  <2>4. \A g \in Handlers : call'[g] # Idle => call'[g].user <= issued.users
    BY <2>1 DEF Issued
  <2>5. \A g \in Handlers : call'[g] # Idle /\ call'[g].op \in WriterOps
            /\ ~(call'[g].op = "register" /\ call'[g].at = "user")
            => user[call'[g].user] # NoUser
    BY <1>12, <2>1 DEF Issued
  <2>6. UNCHANGED user
    BY <1>12
  <2>7. /\ \A l \in Keys : mapping'[l].user = 0 <=> mapping'[l].id = 0
        /\ \A l \in Keys : mapping'[l].id <= issued'.rows
        /\ \A l, m \in Keys : mapping'[l].id = mapping'[m].id /\ mapping'[l].id # 0 => l = m
        /\ \A l \in Keys : mapping'[l].user # 0 => user[mapping'[l].user] # NoUser
        /\ issued'.users = issued.users
    BY <1>11, <1>12, <2>2
  <2>8. QED
    BY <2>3, <2>4, <2>5, <2>6, <2>7 DEF Issued
<1>13. ASSUME NEW h \in Handlers, RegisterMobile(h) \/ RegisterEmail(h) \/ InsertNew(h)
       PROVE Issued'
  <2>1. /\ call[h] # Idle /\ call[h] \in WriterCalls /\ call[h].row \in UserRow
        /\ call[h].at # "user" /\ call[h].op \in WriterOps /\ call[h].user \in Ids
    BY <1>13 DEF RegisterMobile, RegisterEmail, InsertNew, At, WriterOps, UpdateOps
  <2>2. user[call[h].user] # NoUser
    BY <2>1 DEF Issued
  <2>3. CASE EndWithError(h) /\ UNCHANGED <<user, mapping, issued>>
    BY <1>5, <2>3 DEF EndWithError
  <2>4. CASE /\ RegisterMobile(h)
             /\ InsertMapping(call[h].key, call[h].user)
             /\ FindOneByKey(call[h].key) = NoRow
    BY <1>12, <2>1, <2>2, <2>4 DEF RegisterMobile, FindOneByKey, EndWithSuccess, TypeOK, Points
  <2>5. CASE /\ RegisterEmail(h)
             /\ InsertMapping(call[h].row.email, call[h].user) /\ EndWithSuccess(h, call[h].row)
             /\ FindOneByEmail(call[h].row.email) = NoRow
    BY <1>12, <2>1, <2>2, <2>5 DEF RegisterEmail, FindOneByEmail, EndWithSuccess, TypeOK
  <2>6. CASE /\ InsertNew(h)
             /\ InsertMapping(call[h].key, call[h].user) /\ Goto(h, "write") /\ UNCHANGED history
             /\ FindOneByKey(call[h].key) = NoRow
    BY <1>12, <2>1, <2>2, <2>6 DEF InsertNew, FindOneByKey, Points
  <2>7. QED
    BY <1>13, <2>3, <2>4, <2>5, <2>6 DEF RegisterMobile, RegisterEmail, InsertNew
<1>14. ASSUME NEW h \in Handlers, WriteRow(h)
       PROVE Issued'
  <2>1. call[h] # Idle /\ call[h].row \in UserRow /\ call[h].user \in Ids
        /\ call[h].op \in UpdateOps /\ (call[h].op = "mobile" => call[h].key \in Mobiles)
    BY <1>14 DEF WriteRow, At, WriterOps, UpdateOps
  <2>2. Written(call[h]).mobile \in Mobiles
    BY <2>1 DEF Written, UserRow
  <2>3. user'[call[h].user] # NoUser /\ \A u \in Ids \ {call[h].user} : user'[u] = user[u]
    BY <1>14, <2>1, <2>2 DEF WriteRow, UpdateRow, TypeOK, NoUser
  <2>4. \A u \in Ids \ {call[h].user} : promised'[u] = promised[u]
    BY <1>14, <2>1 DEF WriteRow, EndWithSuccess, TypeOK
  <2>5. call[h].user <= issued.users
    BY <2>1 DEF Issued
  <2>6. \A g \in Handlers : call'[g] # Idle => call'[g] = call[g]
    BY <1>14 DEF WriteRow, EndWithSuccess, TypeOK
  <2>7. QED
    <3>1. UNCHANGED <<mapping, issued>>
      BY <1>14 DEF WriteRow
    <3>2. \A u \in Ids : user[u] # NoUser => user'[u] # NoUser
      BY <2>3
    <3>3. \A u \in Ids : u > issued.users => user'[u] = NoUser /\ promised'[u] = NoUser
      <4>1. \A u \in Ids : u > issued.users => u # call[h].user
        BY <2>1, <2>5 DEF TypeOK
      <4>2. QED
        BY <2>3, <2>4, <4>1 DEF Issued
    <3>4. \A k \in Keys : mapping[k].user # 0 => mapping[k].user \in Ids
      BY DEF TypeOK, MappingRow
    <3>5. \A g \in Handlers : call'[g] # Idle =>
              /\ call'[g].user <= issued.users
              /\ call'[g].op \in WriterOps /\ ~(call'[g].op = "register" /\ call'[g].at = "user")
                 => user'[call'[g].user] # NoUser
      BY <2>6, <3>2 DEF Issued
    <3>6. \A k \in Keys : mapping[k].user # 0 => user'[mapping[k].user] # NoUser
      BY <3>2, <3>4 DEF Issued
    <3>7. QED
      BY <3>1, <3>3, <3>5, <3>6 DEF Issued
<1>15. ASSUME NEW h \in Handlers, InsertTicketUser(h) \/ LoginGuard(h) \/ LoginVerify(h)
              \/ LoginExpire(h) \/ LoginToken(h)
       PROVE Issued'
  <2>1. UNCHANGED <<user, mapping, issued, promised>>
    BY <1>15 DEF InsertTicketUser, LoginGuard, LoginVerify, LoginExpire, LoginToken
  <2>2. CASE call' = [call EXCEPT ![h] = Idle]
    BY <1>5, <2>1, <2>2
  <2>3. CASE \E at \in Points : Goto(h, at)
    BY <1>6, <1>15, <2>1, <2>3
    DEF InsertTicketUser, LoginGuard, LoginVerify, LoginExpire, LoginToken, At
  <2>4. QED
    BY <1>15, <2>2, <2>3
    DEF InsertTicketUser, LoginGuard, LoginVerify, LoginExpire, LoginToken, Goto, Points
<1>16. ASSUME NEW h \in Handlers, Fail(h)
       PROVE Issued'
  BY <1>5, <1>16 DEF Fail, EndWithError
<1>17. ASSUME UNCHANGED <<user, mapping, issued, promised, call>>
       PROVE Issued'
  BY <1>17 DEF Issued
<1>18. ASSUME NEW h \in Handlers, Start(h)
       PROVE Issued'
  BY <1>1, <1>2, <1>3, <1>4, <1>18
  DEF Start, UpdatePassword, Authentication, UpdateUser, UpdateMobile, UpdateEmail
<1>19. ASSUME NEW h \in Handlers, LoginFind(h)
       PROVE Issued'
  <2>1. /\ UNCHANGED <<user, mapping, issued, promised>> /\ call[h] # Idle /\ call'[h].op = "login"
        /\ call'[h].user = call[h].user /\ \A g \in Handlers \ {h} : call'[g] = call[g]
    BY <1>19, LoginFindCall
  <2>2. "login" \notin WriterOps
    BY DEF WriterOps, UpdateOps
  <2>3. QED
    BY <2>1, <2>2 DEF Issued
<1>20. QED
  BY <1>0, <1>7, <1>8, <1>9, <1>10, <1>13, <1>14, <1>15, <1>16, <1>17, <1>18, <1>19
  DEF Next, Step, DeleteTicketUser, Logout, CounterExpires

\* There are no more logins guessing than handlers.
LEMMA GuessingSize ==
  ASSUME NEW k
  PROVE  /\ IsFiniteSet(Guessing(k)) /\ Cardinality(Guessing(k)) \in Nat
         /\ Cardinality(Guessing(k)) <= Cardinality(Handlers) /\ Cardinality(Handlers) \in Nat
<1>1. Guessing(k) \subseteq Handlers
  BY DEF Guessing
<1>2. QED
  BY <1>1, AccountsAssumption, FS_Subset, FS_CardinalityType

\* A login joins those guessing when the counter is under the limit, or when it
\* could not be read, which is a fault; it leaves with the failure it counts.
LEMMA GuessesStep == TypeOK /\ TypeOK' /\ Guesses /\ [Next]_vars => Guesses'
<1> SUFFICES ASSUME TypeOK, TypeOK', Guesses, [Next]_vars PROVE Guesses'
  OBVIOUS
<1> USE AccountsAssumption, CallFields DEF CallOK, rows, counters, history
<1>a. \A k \in Keys : fails[k] \in Nat /\ fails'[k] \in Nat /\ faults \in Nat /\ faults' \in Nat
  BY DEF TypeOK
<1>b. \A k : IsFiniteSet(Guessing(k)') /\ Cardinality(Guessing(k)') \in Nat
             /\ Cardinality(Guessing(k)') <= Cardinality(Handlers)
  <2> SUFFICES ASSUME NEW k PROVE IsFiniteSet(Guessing(k)') /\ Cardinality(Guessing(k)') \in Nat
                                  /\ Cardinality(Guessing(k)') <= Cardinality(Handlers)
    OBVIOUS
  <2>1. Guessing(k)' \subseteq Handlers
    BY DEF Guessing
  <2>2. QED
    BY <2>1, FS_Subset, FS_CardinalityType
<1>1. ASSUME \A k \in Keys : Guessing(k)' \subseteq Guessing(k) /\ fails'[k] <= fails[k],
             faults <= faults'
      PROVE Guesses'
  <2> SUFFICES ASSUME NEW k \in Keys
               PROVE fails'[k] + Cardinality(Guessing(k)')
                       <= FailLimit - 1 + Cardinality(Handlers) + faults'
    BY DEF Guesses
  <2>1. Cardinality(Guessing(k)') <= Cardinality(Guessing(k))
    BY <1>1, GuessingSize, FS_Subset
  <2>2. QED
    BY <1>1, <1>a, <1>b, <2>1, GuessingSize DEF Guesses
<1>2. ASSUME NEW h \in Handlers, ~At(h, {"login"}, "verify")',
             \A g \in Handlers \ {h} : call'[g] = call[g],
             fails' = fails \/ \E k \in Keys : fails' = [fails EXCEPT ![k] = 0],
             faults <= faults'
      PROVE Guesses'
  <2>1. \A k \in Keys : Guessing(k)' \subseteq Guessing(k)
    BY <1>2 DEF Guessing, At
  <2>2. \A k \in Keys : fails'[k] <= fails[k]
    BY <1>2, <1>a DEF TypeOK
  <2>3. QED
    BY <1>1, <1>2, <2>1, <2>2
<1>3. ASSUME NEW h \in Handlers, LoginGuard(h)
      PROVE Guesses'
  <2>1. call[h].op = "login" /\ call[h].key \in Keys /\ call[h] # Idle
    BY <1>3 DEF LoginGuard, At
  <2>k. PICK k0 \in Keys : k0 = call[h].key
    BY <2>1
  <2>2. fails' = fails /\ faults <= faults'
    BY <1>3, <1>a DEF LoginGuard, TypeOK
  <2>3. CASE call' = [call EXCEPT ![h] = Idle]
    BY <1>2, <2>2, <2>3 DEF TypeOK, At
  <2>4. CASE Goto(h, "verify") /\ (fails[k0] < FailLimit \/ faults' = faults + 1)
    <3>1. \A k \in Keys \ {k0} : Guessing(k)' \subseteq Guessing(k)
      BY <2>1, <2>k, <2>4 DEF Guessing, At, Goto, TypeOK
    <3>2. Guessing(k0)' \subseteq Guessing(k0) \cup {h}
      BY <2>1, <2>k, <2>4 DEF Guessing, At, Goto, TypeOK
    <3>3. Cardinality(Guessing(k0)') <= Cardinality(Guessing(k0)) + 1
      <4>1. /\ IsFiniteSet(Guessing(k0) \cup {h})
            /\ Cardinality(Guessing(k0) \cup {h}) <= Cardinality(Guessing(k0)) + 1
        <5>1. IsFiniteSet(Guessing(k0)) /\ Cardinality(Guessing(k0)) \in Nat
          BY GuessingSize
        <5>2. /\ IsFiniteSet(Guessing(k0) \cup {h})
              /\ Cardinality(Guessing(k0) \cup {h}) =
                   IF h \in Guessing(k0) THEN Cardinality(Guessing(k0))
                   ELSE Cardinality(Guessing(k0)) + 1
          BY <5>1, FS_AddElement
        <5>3. QED
          BY <5>1, <5>2
      <4>2. Cardinality(Guessing(k0)') <= Cardinality(Guessing(k0) \cup {h})
        BY <3>2, <4>1, FS_Subset
      <4>3. QED
        BY <1>b, <4>1, <4>2, GuessingSize, FS_CardinalityType
    <3>4. \A k \in Keys \ {k0} : Cardinality(Guessing(k)') <= Cardinality(Guessing(k))
      BY <3>1, GuessingSize, FS_Subset
    <3>5. QED
      <4> SUFFICES ASSUME NEW k \in Keys
                   PROVE fails'[k] + Cardinality(Guessing(k)')
                           <= FailLimit - 1 + Cardinality(Handlers) + faults'
        BY DEF Guesses
      <4>1. fails[k] + Cardinality(Guessing(k)) <= FailLimit - 1 + Cardinality(Handlers) + faults
        BY DEF Guesses
      <4>2. /\ fails[k] \in Nat /\ fails'[k] = fails[k] /\ faults \in Nat /\ faults' \in Nat
            /\ Cardinality(Guessing(k)) \in Nat /\ Cardinality(Guessing(k)') \in Nat
            /\ Cardinality(Guessing(k)') <= Cardinality(Handlers) /\ Cardinality(Handlers) \in Nat
            /\ faults <= faults'
        BY <1>a, <1>b, <2>2, GuessingSize
      <4>3. CASE k # k0
        BY <3>4, <4>1, <4>2, <4>3
      <4>4. CASE k = k0
        BY <2>4, <3>3, <4>1, <4>2, <4>4
      <4>5. QED
        BY <4>3, <4>4
  <2>5. QED
    BY <1>3, <1>a, <2>1, <2>k, <2>3, <2>4 DEF LoginGuard
<1>4. ASSUME NEW h \in Handlers, LoginVerify(h)
      PROVE Guesses'
  <2>k. PICK k \in Keys : k = call[h].key
    BY <1>4 DEF LoginVerify, At
  <2>1. call[h].op = "login" /\ call[h] # Idle /\ h \in Guessing(k)
    BY <1>4, <2>k DEF LoginVerify, At, Guessing
  <2>2. faults' = faults /\ ~At(h, {"login"}, "verify")'
        /\ \A g \in Handlers \ {h} : call'[g] = call[g]
    <3>1. \A g \in Handlers \ {h} : call'[g] = call[g]
      BY <1>4 DEF LoginVerify, Goto, TypeOK
    <3>2. call'[h] = Idle \/ call'[h].at \in {"token", "expire"}
      BY <1>4, <2>1 DEF LoginVerify, Goto, TypeOK, WriterCalls, AccountCalls, LoginCalls, TicketCalls
    <3>3. QED
      BY <1>4, <3>1, <3>2 DEF LoginVerify, At
  <2>3. CASE fails' = [fails EXCEPT ![k] = 0]
    <3>1. faults <= faults'
      BY <2>2 DEF TypeOK
    <3>2. QED
      BY <1>2, <2>2, <2>3, <3>1
  <2>4. CASE fails' = [fails EXCEPT ![k] = @ + 1]
    <3>1. /\ \A l \in Keys : Guessing(l)' \subseteq Guessing(l)
          /\ Guessing(k)' \subseteq Guessing(k) \ {h}
      BY <2>2 DEF Guessing, At
    <3>2. Cardinality(Guessing(k)') <= Cardinality(Guessing(k)) - 1
      <4>1. /\ IsFiniteSet(Guessing(k) \ {h})
            /\ Cardinality(Guessing(k) \ {h}) = Cardinality(Guessing(k)) - 1
        BY <2>1, GuessingSize, FS_RemoveElement
      <4>2. Cardinality(Guessing(k)') <= Cardinality(Guessing(k) \ {h})
        BY <3>1, <4>1, FS_Subset
      <4>3. QED
        BY <4>1, <4>2
    <3>3. \A l \in Keys : Cardinality(Guessing(l)') <= Cardinality(Guessing(l))
      BY <3>1, GuessingSize, FS_Subset
    <3>4. QED
      <4> SUFFICES ASSUME NEW l \in Keys
                   PROVE fails'[l] + Cardinality(Guessing(l)')
                           <= FailLimit - 1 + Cardinality(Handlers) + faults'
        BY DEF Guesses
      <4>1. fails[l] + Cardinality(Guessing(l)) <= FailLimit - 1 + Cardinality(Handlers) + faults
        BY DEF Guesses
      <4>2. fails'[l] = IF l = k THEN fails[l] + 1 ELSE fails[l]
        BY <2>4 DEF TypeOK
      <4>3. /\ fails[l] \in Nat /\ faults \in Nat /\ faults' = faults
            /\ Cardinality(Guessing(l)) \in Nat /\ Cardinality(Guessing(l)') \in Nat
            /\ Cardinality(Handlers) \in Nat
        BY <1>a, <1>b, <2>2, GuessingSize
      <4>4. CASE l = k
        BY <3>2, <4>1, <4>2, <4>3, <4>4
      <4>5. CASE l # k
        BY <3>3, <4>1, <4>2, <4>3, <4>5
      <4>6. QED
        BY <4>4, <4>5
  <2>5. QED
    BY <1>4, <2>k, <2>3, <2>4 DEF LoginVerify
<1>5. ASSUME NEW h \in Handlers, Start(h)
      PROVE Guesses'
  <2>1. ASSUME NEW op, NEW at, NEW u, NEW key, NEW row, Begin(h, op, at, u, key, row), at # "verify"
        PROVE ~At(h, {"login"}, "verify")' /\ \A g \in Handlers \ {h} : call'[g] = call[g]
    BY <2>1 DEF Begin, At, TypeOK
  <2>2. fails' = fails /\ faults' = faults
    BY <1>5 DEF Start, Register, Login, UpdatePassword, Authentication, UpdateUser, UpdateMobile,
       UpdateEmail, AddTicketUser, BeginUpdate
  <2>3. ~At(h, {"login"}, "verify")' /\ \A g \in Handlers \ {h} : call'[g] = call[g]
    BY <1>5, <2>1 DEF Start, Register, Login, UpdatePassword, Authentication, UpdateUser,
       UpdateMobile, UpdateEmail, AddTicketUser, BeginUpdate
  <2>4. faults <= faults'
    BY <2>2 DEF TypeOK
  <2>5. QED
    BY <1>2, <2>2, <2>3, <2>4
<1>6. ASSUME NEW h \in Handlers, RegisterUser(h) \/ RegisterMobile(h) \/ RegisterEmail(h)
             \/ CheckKey(h) \/ FindOld(h) \/ FindOldFails(h) \/ DropOld(h) \/ InsertNew(h)
             \/ WriteRow(h) \/ InsertTicketUser(h) \/ LoginExpire(h) \/ LoginToken(h) \/ Fail(h)
      PROVE Guesses'
  <2>1. fails' = fails /\ faults <= faults'
    BY <1>6, <1>a DEF RegisterUser, RegisterMobile, RegisterEmail, CheckKey, FindOld, FindOldFails,
       DropOld, InsertNew, WriteRow, InsertTicketUser, LoginExpire, LoginToken, Fail, TypeOK
  <2>2. CASE call' = [call EXCEPT ![h] = Idle]
    BY <1>2, <2>1, <2>2 DEF At, TypeOK
  <2>3. CASE (\E at \in Points \ {"verify"} : Goto(h, at)) /\ call[h] # Idle
    BY <1>2, <2>1, <2>3 DEF At, TypeOK, Goto
  <2>4. CASE FindOld(h)
    <3>1. call[h] \in WriterCalls /\ call[h].op # "login"
      BY <2>4 DEF FindOld, At, WriterOps, UpdateOps
    <3>2. call'[h].op = call[h].op /\ \A g \in Handlers \ {h} : call'[g] = call[g]
      BY <2>4, <3>1 DEF FindOld, TypeOK, WriterCalls, AccountCalls
    <3>3. QED
      BY <1>2, <2>1, <3>1, <3>2 DEF At
  <2>5. QED
    BY <1>6, <2>2, <2>3, <2>4 DEF RegisterUser, RegisterMobile, RegisterEmail, CheckKey, FindOldFails,
       DropOld, InsertNew, WriteRow, InsertTicketUser, LoginExpire, LoginToken, Fail, EndWithError,
       EndWithSuccess, At, Points
<1>7. CASE UNCHANGED <<call, fails, faults>>
  BY <1>7 DEF Guesses, Guessing, At
<1>8. ASSUME NEW k \in Keys, CounterExpires(k)
      PROVE Guesses'
  <2>1. \A l \in Keys : Guessing(l)' = Guessing(l)
    BY <1>8 DEF CounterExpires, Guessing, At
  <2>2. \A l \in Keys : fails'[l] <= fails[l]
    BY <1>8, <1>a DEF CounterExpires, TypeOK
  <2>3. faults <= faults'
    BY <1>8, <1>a DEF CounterExpires
  <2>4. QED
    BY <1>1, <2>1, <2>2, <2>3
<1>9. ASSUME NEW h \in Handlers, LoginFind(h)
      PROVE Guesses'
  <2>1. fails' = fails /\ faults <= faults'
    BY <1>9, LoginFindCall DEF TypeOK
  <2>2. ~At(h, {"login"}, "verify")' /\ \A g \in Handlers \ {h} : call'[g] = call[g]
    BY <1>9, LoginFindCall DEF At
  <2>3. QED
    BY <1>2, <2>1, <2>2
<1>10. QED
  BY <1>3, <1>4, <1>5, <1>6, <1>7, <1>8, <1>9 DEF Next, Step, DeleteTicketUser, Logout, vars

-----------------------------------------------------------------------------
(* The accounts.  A step is about one account and leaves all others alone.  *)

Untouched(u) ==
    /\ user'[u] = user[u] /\ promised'[u] = promised[u]
    /\ \A k \in Keys : mapping[k].user = u \/ mapping'[k].user = u => mapping'[k] = mapping[k]

\* What a call relies on holds after a step that leaves its account alone.
LEMMA PositionKept ==
  ASSUME NEW c \in WriterCalls, Untouched(c.user), Position(c)
  PROVE  Position(c)'
<1> USE AccountsAssumption DEF Untouched
<1>1. c.row \in UserRow /\ c.op \in WriterOps /\ (c.op = "email" => c.key \in Emails \cup {None})
  BY DEF WriterCalls, AccountCalls, WriterOps, UpdateOps
<1>2. MappingsOf(c.user)' = MappingsOf(c.user)
  BY DEF MappingsOf
<1>3. CASE c.op = "register"
  BY <1>2, <1>3 DEF Position, RegisterPosition
<1>4. CASE c.op # "register"
  <2>1. c.at = "drop" => OldKey(c) \in MappingsOf(c.user)
    BY <1>1, <1>4 DEF Position, UpdatePosition, OldKey, KeysOf, WriterOps, UpdateOps, UserRow
  <2>2. c.at = "drop" => mapping'[OldKey(c)] = mapping[OldKey(c)]
    BY <2>1 DEF MappingsOf
  <2>3. QED
    BY <1>2, <1>4, <2>2 DEF Position, UpdatePosition
<1>5. QED
  BY <1>3, <1>4

\* One account at a time: it is enough to look at the account of the step.
LEMMA OneAccount ==
  ASSUME TypeOK, TypeOK', OneWriter, Settled, Positions,
         NEW h \in Handlers, NEW u \in Ids,
         damaged \subseteq damaged',
         \A g \in Handlers \ {h} : call'[g] = call[g],
         \A v \in Ids \ ({u} \cup damaged') : Untouched(v),
         Writer(h) => call[h].user = u,
         Writer(h)' => call'[h].user = u,
         u \notin damaged' =>
            /\ \A g \in Handlers \ {h} : Writer(g) => call[g].user # u
            /\ Writer(h)' => Position(call[h])'
            /\ ~Writer(h)' => user'[u] = promised'[u] /\ MappingsOf(u)' = KeysOf(user'[u])
  PROVE  OneWriter' /\ Settled' /\ Positions'
<1>1. \A g \in Handlers \ {h} : Writer(g)' <=> Writer(g)
  BY DEF Writer
<1>2. OneWriter'
  BY <1>1 DEF OneWriter
<1>3. Positions'
  <2> SUFFICES ASSUME NEW g \in Handlers, Writer(g)', call'[g].user \notin damaged'
               PROVE Position(call[g])'
    BY DEF Positions
  <2>1. CASE g = h
    BY <2>1
  <2>2. CASE g # h
    <3>1. PICK c : c = call[g]
      OBVIOUS
    <3>2. Writer(g) /\ call'[g] = c
      BY <1>1, <2>2, <3>1
    <3>3. c \in WriterCalls /\ c.user \in Ids \ {u} /\ c.user \notin damaged'
      BY <2>2, <3>1, <3>2, CallFields DEF CallOK, Writer
    <3>4. Position(c)
      BY <3>1, <3>2, <3>3 DEF Positions
    <3>5. Position(c)'
      BY <3>3, <3>4, PositionKept
    <3>6. QED
      BY <3>2, <3>5
  <2>3. QED
    BY <2>1, <2>2
<1>4. Settled'
  <2> SUFFICES ASSUME NEW v \in Ids, v \notin damaged',
                      \A g \in Handlers : Writer(g)' => call'[g].user # v
               PROVE user'[v] = promised'[v] /\ MappingsOf(v)' = KeysOf(user'[v])
    BY DEF Settled, SettledUser, KeysOf
  <2>1. CASE v = u
    BY <2>1
  <2>2. CASE v # u
    <3>1. \A g \in Handlers : Writer(g) => call[g].user # v
      BY <1>1, <2>2
    <3>2. user[v] = promised[v] /\ MappingsOf(v) = KeysOf(user[v])
      BY <3>1 DEF Settled, SettledUser
    <3>3. MappingsOf(v)' = MappingsOf(v)
      BY <2>2 DEF Untouched, MappingsOf
    <3>4. QED
      BY <2>2, <3>2, <3>3 DEF Untouched, KeysOf
  <2>3. QED
    BY <2>1, <2>2
<1>5. QED
  BY <1>2, <1>3, <1>4

\* Steps of logins and ticket users, and of no handler, write no account.
LEMMA NoAccount ==
  ASSUME TypeOK, TypeOK', OneWriter, Settled, Positions,
         UNCHANGED <<user, mapping, promised>>, damaged \subseteq damaged',
         \A g \in Handlers : Writer(g)' <=> Writer(g),
         \A g \in Handlers : Writer(g) => call'[g] = call[g]
  PROVE  OneWriter' /\ Settled' /\ Positions'
<1>1. OneWriter'
  BY DEF OneWriter
<1>2. Settled'
  <2> SUFFICES ASSUME NEW v \in Ids, v \notin damaged',
                      \A g \in Handlers : Writer(g)' => call'[g].user # v
               PROVE user'[v] = promised'[v] /\ MappingsOf(v)' = KeysOf(user'[v])
    BY DEF Settled, SettledUser, KeysOf
  <2>1. user[v] = promised[v] /\ MappingsOf(v) = KeysOf(user[v])
    BY DEF Settled, SettledUser
  <2>2. QED
    BY <2>1 DEF MappingsOf
<1>3. Positions'
  <2> SUFFICES ASSUME NEW g \in Handlers, Writer(g)', call'[g].user \notin damaged'
               PROVE Position(call[g])'
    BY DEF Positions
  <2>1. PICK c : c = call[g]
    OBVIOUS
  <2>2. Writer(g) /\ call'[g] = c
    BY <2>1
  <2>3. c \in WriterCalls /\ Position(c)
    BY <2>1, <2>2, CallFields DEF CallOK, Writer, Positions
  <2>4. Position(c)'
    BY <2>3, PositionKept DEF Untouched
  <2>5. QED
    BY <2>2, <2>4
<1>4. QED
  BY <1>1, <1>2, <1>3

\* An address of a row has its mapping row in the table of its own kind.
LEMMA RowKeys ==
  ASSUME NEW r \in UserRow
  PROVE  /\ r # NoUser /\ r.mobile \in Mobiles /\ r.mobile # None /\ r.mobile \in Keys
         /\ r.email \in Emails \cup {None}
         /\ r.mobile # r.email
         /\ KeysOf(r) = {r.mobile, r.email} \ {None}
  BY AccountsAssumption DEF UserRow, NoUser, Keys, KeysOf

\* A registration works on an account nobody else can know of; an update that
\* finds its account in use damages it.
LEMMA StartAccounts ==
  ASSUME IInv, TypeOK', NEW h \in Handlers, Start(h)
  PROVE  OneWriter' /\ Settled' /\ Positions'
<1> USE AccountsAssumption, CallFields DEF CallOK, IInv, Accounts, rows, counters, history
<1>1. ASSUME NEW m \in Mobiles, NEW e \in Emails \cup {None}, NEW p \in Passwords,
             Register(h, m, e, p)
      PROVE OneWriter' /\ Settled' /\ Positions'
  <2>1. PICK u \in Ids : u = issued.users + 1
    BY <1>1 DEF Register
  <2>2. u > issued.users
    BY <2>1 DEF TypeOK
  <2>3. user[u] = NoUser /\ promised[u] = NoUser /\ \A k \in Keys : mapping[k].user # u
    BY <2>2 DEF Issued
  <2>4. \A g \in Handlers \ {h} : Writer(g) => call[g].user # u
    BY <2>2 DEF Issued, Writer, TypeOK
  <2>5. /\ UNCHANGED <<user, mapping, promised, damaged>> /\ ~Writer(h)
        /\ \A g \in Handlers \ {h} : call'[g] = call[g]
    BY <1>1 DEF Register, Begin, TypeOK, Writer
  <2>6. /\ call'[h].op = "register" /\ call'[h].at = "user" /\ call'[h].user = u
        /\ call'[h].key = m /\ call'[h].row.mobile = m
    BY <1>1, <2>1 DEF Register, Begin, TypeOK
  <2>7. Position(call[h])'
    BY <2>3, <2>5, <2>6 DEF Position, RegisterPosition, MappingsOf
  <2>8. Writer(h)' /\ \A v \in Ids : Untouched(v)
    BY <2>5, <2>6 DEF Writer, WriterOps, Idle, Untouched
  <2>9. QED
    BY <2>4, <2>5, <2>6, <2>7, <2>8, OneAccount
<1>2. ASSUME NEW u \in Ids, NEW op \in UpdateOps, NEW at, NEW key, NEW row,
             BeginUpdate(h, op, at, u, key, row),
             NEW c, c = [op |-> op, at |-> at, user |-> u, key |-> key, row |-> row, found |-> NoRow],
             /\ user[u] \in UserRow /\ user[u] = promised[u] /\ MappingsOf(u) = KeysOf(user[u])
             => UpdatePosition(c)
      PROVE OneWriter' /\ Settled' /\ Positions'
  <2>1. /\ UNCHANGED <<user, mapping, promised>> /\ call'[h] = c
        /\ \A g \in Handlers \ {h} : call'[g] = call[g]
    BY <1>2 DEF BeginUpdate, Begin, TypeOK
  <2>2. damaged \subseteq damaged' /\ (u \notin damaged' => u \notin damaged /\ Writing(u) = {})
    BY <1>2 DEF BeginUpdate
  <2>3. u \notin damaged' => \A g \in Handlers : Writer(g) => call[g].user # u
    BY <2>2 DEF Writing
  <2>4. u \notin damaged' => user[u] = promised[u] /\ MappingsOf(u) = KeysOf(user[u])
    BY <2>2, <2>3 DEF Settled, SettledUser
  <2>5. user[u] \in UserRow
    BY <1>2 DEF BeginUpdate, TypeOK
  <2>6. c.op = op /\ c.user = u /\ (u \notin damaged' => Position(c))
    BY <1>2, <2>4, <2>5 DEF Position, UpdateOps
  <2>7. Writer(h)' /\ c \in WriterCalls
    BY <2>1, <2>6, CallFields DEF Writer, WriterOps, UpdateOps, Idle, TypeOK, LoginCalls, TicketCalls
  <2>8. \A v \in Ids : Untouched(v)
    BY <2>1 DEF Untouched
  <2>9. u \notin damaged' => Position(c)'
    BY <2>6, <2>7, <2>8, PositionKept
  <2>10. u \notin damaged' => Position(call[h])'
    BY <2>1, <2>9
  <2>11. ~Writer(h)
    BY <1>2 DEF BeginUpdate, Begin, Writer
  <2>12. QED
    BY <2>1, <2>2, <2>3, <2>6, <2>7, <2>8, <2>10, <2>11, OneAccount
<1>3. ASSUME NEW u \in Ids, NEW p \in Passwords, UpdatePassword(h, u, p)
      PROVE OneWriter' /\ Settled' /\ Positions'
  <2> DEFINE r == [user[u] EXCEPT !.password = p]
             c == [op |-> "password", at |-> "write", user |-> u, key |-> None, row |-> r,
                   found |-> NoRow]
  <2>1. ASSUME user[u] \in UserRow, user[u] = promised[u], MappingsOf(u) = KeysOf(user[u])
        PROVE UpdatePosition(c)
    <3>a. /\ r \in UserRow /\ r.password = p
          /\ r.mobile = user[u].mobile /\ r.email = user[u].email
      BY <2>1 DEF UserRow
    <3>1. r.password = p /\ KeysOf(r) = KeysOf(user[u])
      BY <2>1, <3>a, RowKeys
    <3>2. c.op = "password" /\ c.at = "write" /\ c.user = u /\ c.row = r
      OBVIOUS
    <3>w. Written(c) = r
      BY <3>2, Zenon DEF Written
    <3>3. c.row = [user[u] EXCEPT !.password = c.row.password]
      BY <3>1, <3>2
    <3>4. user[u] # NoUser
      BY <2>1, RowKeys
    <3> HIDE DEF c, r
    <3>5. QED
      BY <2>1, <3>1, <3>2, <3>w, <3>3, <3>4 DEF UpdatePosition
  <2> HIDE DEF r
  <2>2. QED
    BY <1>2, <1>3, <2>1 DEF UpdatePassword, UpdateOps, r
<1>4. ASSUME NEW u \in Ids, Authentication(h, u)
      PROVE OneWriter' /\ Settled' /\ Positions'
  <2> DEFINE r == [user[u] EXCEPT !.authenticated = TRUE]
             c == [op |-> "authenticate", at |-> "write", user |-> u, key |-> None, row |-> r,
                   found |-> NoRow]
  <2>1. ASSUME user[u] \in UserRow, user[u] = promised[u], MappingsOf(u) = KeysOf(user[u])
        PROVE UpdatePosition(c)
    <3>a. r \in UserRow /\ r.mobile = user[u].mobile /\ r.email = user[u].email
      BY <2>1 DEF UserRow
    <3>1. KeysOf(r) = KeysOf(user[u])
      BY <2>1, <3>a, RowKeys
    <3>2. c.op = "authenticate" /\ c.at = "write" /\ c.user = u /\ c.row = r
      OBVIOUS
    <3>w. Written(c) = r
      BY <3>2, Zenon DEF Written
    <3>3. c.row = [user[u] EXCEPT !.authenticated = TRUE]
      BY <3>1, <3>2
    <3>4. user[u] # NoUser
      BY <2>1, RowKeys
    <3> HIDE DEF c, r
    <3>5. QED
      BY <2>1, <3>1, <3>2, <3>w, <3>3, <3>4 DEF UpdatePosition
  <2>2. QED
    BY <1>2, <1>4, <2>1 DEF Authentication, UpdateOps
<1>5. ASSUME NEW u \in Ids, UpdateUser(h, u)
      PROVE OneWriter' /\ Settled' /\ Positions'
  <2> DEFINE c == [op |-> "profile", at |-> "write", user |-> u, key |-> None, row |-> user[u],
                   found |-> NoRow]
  <2>1. ASSUME user[u] \in UserRow, user[u] = promised[u], MappingsOf(u) = KeysOf(user[u])
        PROVE UpdatePosition(c)
    BY <2>1, RowKeys DEF UpdatePosition, Written
  <2>2. QED
    BY <1>2, <1>5, <2>1 DEF UpdateUser, UpdateOps
<1>6. ASSUME NEW u \in Ids, NEW m \in Mobiles, UpdateMobile(h, u, m)
      PROVE OneWriter' /\ Settled' /\ Positions'
  <2> DEFINE at == IF m = user[u].mobile THEN "write" ELSE "check"
             c == [op |-> "mobile", at |-> at, user |-> u, key |-> m, row |-> user[u],
                   found |-> NoRow]
  <2>1. ASSUME user[u] \in UserRow, user[u] = promised[u], MappingsOf(u) = KeysOf(user[u])
        PROVE UpdatePosition(c)
    <3>1. m = user[u].mobile => Written(c) = user[u]
      BY <2>1 DEF Written, UserRow
    <3>2. QED
      BY <2>1, <3>1, RowKeys DEF UpdatePosition, OldKey
  <2>2. QED
    BY <1>2, <1>6, <2>1 DEF UpdateMobile, UpdateOps
<1>7. ASSUME NEW u \in Ids, NEW e \in Emails \cup {None}, UpdateEmail(h, u, e)
      PROVE OneWriter' /\ Settled' /\ Positions'
  <2> DEFINE at == IF e = user[u].email THEN "write" ELSE IF e = None THEN "old" ELSE "check"
             c == [op |-> "email", at |-> at, user |-> u, key |-> e, row |-> user[u],
                   found |-> NoRow]
  <2>1. ASSUME user[u] \in UserRow, user[u] = promised[u], MappingsOf(u) = KeysOf(user[u])
        PROVE UpdatePosition(c)
    <3>1. e = user[u].email => Written(c) = user[u]
      BY <2>1 DEF Written, UserRow
    <3>2. QED
      BY <2>1, <3>1, RowKeys DEF UpdatePosition, OldKey
  <2>2. QED
    BY <1>2, <1>7, <2>1 DEF UpdateEmail, UpdateOps
<1>8. ASSUME NEW op \in {"login", "ticket"}, NEW at, NEW u, NEW key, NEW row,
             Begin(h, op, at, u, key, row), UNCHANGED <<user, mapping, promised, damaged>>
      PROVE OneWriter' /\ Settled' /\ Positions'
  <2>1. /\ \A g \in Handlers \ {h} : call'[g] = call[g]
        /\ ~Writer(h) /\ call'[h].op = op
    BY <1>8 DEF Begin, TypeOK, Writer
  <2>2. \A g \in Handlers : Writer(g)' <=> Writer(g)
    BY <2>1 DEF Writer, WriterOps, UpdateOps
  <2>3. QED
    BY <1>8, <2>1, <2>2, NoAccount
<1>9. QED
  BY <1>1, <1>3, <1>4, <1>5, <1>6, <1>7, <1>8 DEF Start, Login, AddTicketUser

\* A step of a writer: between two statements the account is where its position
\* says, and a call that ends leaves it settled or damaged.
LEMMA WriterAccounts ==
  ASSUME IInv, TypeOK', NEW h \in Handlers, Writer(h), Step(h) \/ Fail(h),
         damaged \subseteq damaged', call[h].user \notin damaged'
  PROVE  OneWriter' /\ Settled' /\ Positions'
<1> DEFINE Goal == OneWriter' /\ Settled' /\ Positions'
<1> USE AccountsAssumption DEF rows, counters, history
<1>1. PICK c : c = call[h]
  OBVIOUS
<1>2. PICK u \in Ids : u = c.user
  BY <1>1, CallFields DEF IInv, CallOK, Writer
<1>3. /\ TypeOK /\ Issued /\ OneWriter /\ Settled /\ Positions
      /\ c \in WriterCalls /\ c.op \in WriterOps /\ c # Idle /\ c.row \in UserRow /\ c.at \in Points
      /\ c.key \in Keys \cup {None} /\ c.found \in MappingRow
      /\ c.op \in {"mobile", "register"} => c.key \in Mobiles
      /\ c.op = "email" => c.key \in Emails \cup {None}
  BY <1>1, CallFields DEF IInv, Accounts, CallOK, Writer
<1>d. u \notin damaged /\ u \notin damaged'
  BY <1>1, <1>2
<1>4. Position(c)
  BY <1>1, <1>2, <1>3, <1>d DEF Positions
<1>5. \A g \in Handlers \ {h} : Writer(g) => call[g].user # u
  BY <1>1, <1>2, <1>3, <1>d DEF OneWriter
<1>6. ASSUME NEW d, d.user = u, d # Idle, d.op \in WriterOps, Position(d)', call'[h] = d,
             \A g \in Handlers \ {h} : call'[g] = call[g], \A v \in Ids \ {u} : Untouched(v)
      PROVE Goal
  <2>1. Position(call[h])'
    BY <1>6
  <2>2. Writer(h)'
    BY <1>6 DEF Writer
  <2>3. call[h].user = u /\ call'[h].user = u
    BY <1>1, <1>2, <1>6
  <2>4. TypeOK /\ OneWriter /\ Settled /\ Positions
    BY <1>3
  <2>5. /\ \A g \in Handlers \ {h} : call'[g] = call[g]
        /\ \A v \in Ids \ {u} : Untouched(v)
    BY <1>6
  <2>6. QED
    BY <1>d, <1>5, <2>1, <2>2, <2>3, <2>4, <2>5, OneAccount
<1>7. ASSUME call' = [call EXCEPT ![h] = Idle], \A v \in Ids \ {u} : Untouched(v),
             user'[u] = promised'[u], MappingsOf(u)' = KeysOf(user'[u])
      PROVE Goal
  <2>1. ~Writer(h)' /\ \A g \in Handlers \ {h} : call'[g] = call[g]
    BY <1>3, <1>7 DEF TypeOK, Writer
  <2>2. call[h].user = u
    BY <1>1, <1>2
  <2>3. TypeOK /\ OneWriter /\ Settled /\ Positions
    BY <1>3
  <2>4. /\ \A v \in Ids \ {u} : Untouched(v)
        /\ user'[u] = promised'[u] /\ MappingsOf(u)' = KeysOf(user'[u])
    BY <1>7
  <2>5. QED
    BY <1>d, <1>5, <2>1, <2>2, <2>3, <2>4, OneAccount
<1>8. ASSUME NEW at \in Points, Goto(h, at)
      PROVE /\ call'[h] = [c EXCEPT !.at = at] /\ call'[h] \in WriterCalls
            /\ \A g \in Handlers \ {h} : call'[g] = call[g]
  BY <1>1, <1>3, <1>8 DEF Goto, TypeOK, WriterCalls, AccountCalls
<1>10. ASSUME NEW d, NEW at, d = [c EXCEPT !.at = at]
       PROVE /\ d.op = c.op /\ d.user = c.user /\ d.key = c.key /\ d.row = c.row
             /\ d.found = c.found /\ d.at = at /\ d # Idle
             /\ OldKey(d) = OldKey(c) /\ Written(d) = Written(c)
  <2>1. /\ d.op = c.op /\ d.user = c.user /\ d.key = c.key /\ d.row = c.row
        /\ d.found = c.found /\ d.at = at
    BY <1>3, <1>10 DEF WriterCalls, AccountCalls
  <2>2. QED
    BY <1>3, <2>1 DEF OldKey, Written, Idle, WriterOps, UpdateOps
<1>9. UNCHANGED <<user, mapping, promised>> => \A v \in Ids : Untouched(v)
  BY DEF Untouched
<1>11. CASE RegisterUser(h)
  <2>1. c.op = "register" /\ c.at = "user" /\ RegisterPosition(c)
    BY <1>1, <1>4, <1>11 DEF RegisterUser, At, Position
  <2>2. PICK d : d = [c EXCEPT !.at = "insert"]
    OBVIOUS
  <2>3. call'[h] = d /\ \A g \in Handlers \ {h} : call'[g] = call[g]
    BY <1>8, <1>11, <2>2 DEF RegisterUser, Points
  <2>4. user'[u] = c.row /\ UNCHANGED <<mapping, promised>> /\ \A v \in Ids \ {u} : user'[v] = user[v]
    BY <1>1, <1>2, <1>3, <1>11 DEF RegisterUser, InsertUser, TypeOK
  <2>5. Position(d)'
    BY <1>2, <1>10, <2>1, <2>2, <2>4 DEF Position, RegisterPosition, MappingsOf
  <2>6. \A v \in Ids \ {u} : Untouched(v)
    BY <2>4 DEF Untouched
  <2>7. QED
    BY <1>2, <1>3, <1>6, <1>10, <2>2, <2>3, <2>5, <2>6
<1>12. ASSUME EndWithError(h), UNCHANGED <<user, mapping>>
       PROVE Goal
  <2>1. c.at \notin {"drop", "insert", "write", "insertEmail"}
    BY <1>1, <1>2, <1>d, <1>12 DEF EndWithError
  <2>2. user[u] = promised[u] /\ MappingsOf(u) = KeysOf(user[u])
    <3>1. CASE c.op = "register"
      BY <1>2, <1>4, <2>1, <3>1 DEF Position, RegisterPosition, KeysOf
    <3>2. CASE c.op # "register"
      BY <1>2, <1>4, <2>1, <3>2 DEF Position, UpdatePosition
    <3>3. QED
      BY <3>1, <3>2
  <2>3. MappingsOf(u)' = MappingsOf(u)
    BY <1>12 DEF MappingsOf
  <2>4. QED
    BY <1>7, <1>9, <1>12, <2>2, <2>3 DEF EndWithError
<1>13. ASSUME NEW k \in Keys, InsertMapping(k, u), mapping[k] = NoRow
       PROVE /\ MappingsOf(u)' = MappingsOf(u) \cup {k}
             /\ \A v \in Ids \ {u} : \A l \in Keys :
                    mapping[l].user = v \/ mapping'[l].user = v => mapping'[l] = mapping[l]
  <2>1. /\ \A l \in Keys \ {k} : mapping'[l] = mapping[l]
        /\ mapping'[k].user = u /\ mapping[k].user = 0
    BY <1>3, <1>13 DEF InsertMapping, TypeOK, NoRow
  <2>2. QED
    BY <2>1 DEF MappingsOf
<1>14. CASE RegisterMobile(h)
  <2>1. c.op = "register" /\ c.at = "insert" /\ RegisterPosition(c) /\ c.key \in Keys /\ c.key # None
    BY <1>1, <1>3, <1>4, <1>14 DEF RegisterMobile, At, Position, Keys
  <2>2. CASE FindOneByKey(c.key) # NoRow
    BY <1>1, <1>12, <1>14, <2>2 DEF RegisterMobile
  <2>3. CASE mapping[c.key] = NoRow
    <3>1. InsertMapping(c.key, u) /\ UNCHANGED user
      BY <1>1, <1>2, <1>14, <2>3 DEF RegisterMobile, FindOneByKey
    <3>2. MappingsOf(u) = {} /\ user[u] = c.row /\ promised[u] = NoUser /\ c.key = c.row.mobile
      BY <1>2, <2>1 DEF RegisterPosition
    <3>3. MappingsOf(u)' = {c.key}
      BY <1>13, <2>1, <2>3, <3>1, <3>2
    <3>4. CASE c.row.email = None
      <4>1. call' = [call EXCEPT ![h] = Idle] /\ promised' = [promised EXCEPT ![u] = c.row]
        BY <1>1, <1>2, <1>14, <2>3, <3>4 DEF RegisterMobile, FindOneByKey, EndWithSuccess
      <4>2. promised'[u] = c.row /\ \A v \in Ids \ {u} : promised'[v] = promised[v]
        BY <1>3, <4>1 DEF TypeOK
      <4>3. KeysOf(c.row) = {c.key}
        BY <1>3, <2>1, <3>2, <3>4, RowKeys
      <4>4. \A v \in Ids \ {u} : Untouched(v)
        BY <1>13, <2>1, <2>3, <3>1, <4>2 DEF Untouched
      <4>5. user'[u] = promised'[u] /\ MappingsOf(u)' = KeysOf(user'[u])
        BY <3>1, <3>2, <3>3, <4>2, <4>3
      <4>6. QED
        BY <1>7, <4>1, <4>4, <4>5
    <3>5. CASE c.row.email # None
      <4>1. Goto(h, "insertEmail") /\ UNCHANGED promised
        BY <1>1, <1>14, <2>3, <3>5 DEF RegisterMobile, FindOneByKey
      <4>2. PICK d : d = [c EXCEPT !.at = "insertEmail"]
        OBVIOUS
      <4>3. call'[h] = d /\ \A g \in Handlers \ {h} : call'[g] = call[g]
        BY <1>8, <4>1, <4>2 DEF Points
      <4>4. \A v \in Ids \ {u} : Untouched(v)
        BY <1>13, <2>1, <2>3, <3>1, <4>1 DEF Untouched
      <4>5. Position(d)'
        BY <1>2, <1>10, <2>1, <3>1, <3>2, <3>3, <3>5, <4>1, <4>2 DEF Position, RegisterPosition
      <4>6. QED
        BY <1>2, <1>3, <1>6, <1>10, <4>2, <4>3, <4>4, <4>5
    <3>6. QED
      BY <3>4, <3>5
  <2>4. QED
    BY <2>2, <2>3 DEF FindOneByKey
<1>15. CASE RegisterEmail(h)
  <2>1. c.op = "register" /\ c.at = "insertEmail" /\ RegisterPosition(c)
    BY <1>1, <1>4, <1>15 DEF RegisterEmail, At, Position
  <2>2. CASE FindOneByEmail(c.row.email) # NoRow
    BY <1>1, <1>12, <1>15, <2>2 DEF RegisterEmail
  <2>3. CASE mapping[c.row.email] = NoRow
    <3>1. InsertMapping(c.row.email, u) /\ UNCHANGED user /\ EndWithSuccess(h, c.row)
      BY <1>1, <1>2, <1>15, <2>3 DEF RegisterEmail, FindOneByEmail
    <3>2. /\ MappingsOf(u) = {c.row.mobile} /\ user[u] = c.row
          /\ c.row.email # None /\ c.row.email \in Keys
      BY <1>2, <1>3, <2>1, RowKeys DEF RegisterPosition, Keys
    <3>3. MappingsOf(u)' = KeysOf(c.row)
      <4>1. MappingsOf(u)' = {c.row.mobile} \cup {c.row.email}
        BY <1>13, <2>3, <3>1, <3>2
      <4>2. KeysOf(c.row) = {c.row.mobile, c.row.email} \ {None} /\ c.row.mobile # None
        BY <1>3, RowKeys
      <4>3. QED
        BY <3>2, <4>1, <4>2
    <3>4. promised'[u] = c.row /\ \A v \in Ids \ {u} : promised'[v] = promised[v]
      BY <1>1, <1>2, <1>3, <3>1 DEF EndWithSuccess, TypeOK
    <3>5. \A v \in Ids \ {u} : Untouched(v)
      BY <1>13, <2>3, <3>1, <3>2, <3>4 DEF Untouched
    <3>6. user'[u] = promised'[u] /\ MappingsOf(u)' = KeysOf(user'[u])
      BY <3>1, <3>2, <3>3, <3>4
    <3>7. QED
      BY <1>7, <3>1, <3>5, <3>6 DEF EndWithSuccess
  <2>4. QED
    BY <2>2, <2>3 DEF FindOneByEmail
<1>16. CASE CheckKey(h)
  <2>1. c.op # "register" /\ c.at = "check" /\ UpdatePosition(c)
    BY <1>1, <1>4, <1>16 DEF CheckKey, At, Position
  <2>2. CASE EndWithError(h)
    BY <1>12, <1>16, <2>2 DEF CheckKey
  <2>3. CASE Goto(h, "old") /\ UNCHANGED history
    <3>1. PICK d : d = [c EXCEPT !.at = "old"]
      OBVIOUS
    <3>2. call'[h] = d /\ \A g \in Handlers \ {h} : call'[g] = call[g]
      BY <1>8, <2>3, <3>1 DEF Points
    <3>3. UNCHANGED <<user, mapping, promised>>
      BY <1>16, <2>3 DEF CheckKey
    <3>4. Position(d)'
      BY <1>10, <2>1, <3>1, <3>3 DEF Position, UpdatePosition, MappingsOf
    <3>5. QED
      BY <1>2, <1>3, <1>6, <1>9, <1>10, <3>1, <3>2, <3>3, <3>4
  <2>4. QED
    BY <1>16, <2>2, <2>3 DEF CheckKey
<1>17. ASSUME c.op \in {"mobile", "email"}
       PROVE /\ OldKey(c) \in Keys \cup {None}
             /\ OldKey(c) # None => OldKey(c) \in KeysOf(c.row)
             /\ KeysOf(Written(c)) = ((KeysOf(c.row) \ {OldKey(c)}) \cup {c.key}) \ {None}
  <2>1. c.row.mobile \in Mobiles /\ c.row.email \in Emails \cup {None} /\ c.row.mobile # None
        /\ KeysOf(c.row) = {c.row.mobile, c.row.email} \ {None}
    BY <1>3, RowKeys
  <2>2. CASE c.op = "mobile"
    <3>1. OldKey(c) = c.row.mobile /\ Written(c) = [c.row EXCEPT !.mobile = c.key]
      BY <2>2 DEF OldKey, Written
    <3>2. Written(c) \in UserRow /\ Written(c).mobile = c.key /\ Written(c).email = c.row.email
      BY <1>3, <2>2, <3>1 DEF UserRow
    <3>3. KeysOf(Written(c)) = {c.key, c.row.email} \ {None}
      BY <3>2, RowKeys
    <3>4. QED
      BY <1>3, <2>1, <2>2, <3>1, <3>3 DEF Keys
  <2>3. CASE c.op = "email"
    <3>1. OldKey(c) = c.row.email /\ Written(c) = [c.row EXCEPT !.email = c.key]
      BY <2>3 DEF OldKey, Written
    <3>2. Written(c) \in UserRow /\ Written(c).email = c.key /\ Written(c).mobile = c.row.mobile
      BY <1>3, <2>3, <3>1 DEF UserRow
    <3>3. KeysOf(Written(c)) = {c.row.mobile, c.key} \ {None}
      BY <3>2, RowKeys
    <3>4. QED
      BY <1>3, <2>1, <2>3, <3>1, <3>3 DEF Keys
  <2>4. QED
    BY <1>17, <2>2, <2>3
<1>18. ASSUME c.op \in {"mobile", "email"}
       PROVE /\ UpdatePosition(c) /\ c.row = user[u]
             /\ user[u] = promised[u] /\ user[u] # NoUser
  BY <1>2, <1>4, <1>18 DEF Position, UpdatePosition
<1>19. CASE FindOld(h)
  <2>1. c.op \in {"mobile", "email"} /\ c.at = "old"
    BY <1>1, <1>19 DEF FindOld, At
  <2>2. /\ c.key # OldKey(c) /\ MappingsOf(u) = KeysOf(c.row)
        /\ c.row = user[u] /\ user[u] = promised[u] /\ user[u] # NoUser
    BY <1>2, <1>18, <2>1 DEF UpdatePosition
  <2>3. PICK old : old = IF OldKey(c) = None THEN NoRow ELSE mapping[OldKey(c)]
    OBVIOUS
  <2>4. PICK at : at = IF old # NoRow THEN "drop" ELSE IF c.key = None THEN "write" ELSE "insert"
    OBVIOUS
  <2>5. PICK d : d = [c EXCEPT !.found = old, !.at = at]
    OBVIOUS
  <2>6. call'[h] = d /\ \A g \in Handlers \ {h} : call'[g] = call[g]
    BY <1>1, <1>3, <1>19, <2>3, <2>4, <2>5 DEF FindOld, FindOneByKey, TypeOK
  <2>7. /\ d.op = c.op /\ d.user = c.user /\ d.key = c.key /\ d.row = c.row
        /\ d.found = old /\ d.at = at
    BY <1>3, <2>5 DEF WriterCalls, AccountCalls
  <2>8. d # Idle /\ OldKey(d) = OldKey(c) /\ KeysOf(Written(d)) = KeysOf(Written(c))
    BY <2>1, <2>7 DEF OldKey, Written, Idle
  <2>9. UNCHANGED <<user, mapping, promised>>
    BY <1>19 DEF FindOld
  <2>10. OldKey(c) # None => OldKey(c) \in Keys /\ mapping[OldKey(c)].user = u
    BY <1>17, <2>1, <2>2 DEF MappingsOf
  <2>11. old = NoRow => OldKey(c) = None
    BY <1>2, <2>3, <2>10 DEF NoRow
  <2>12. old = NoRow => c.key # None /\ at = "insert" /\ MappingsOf(u) = KeysOf(c.row) \ {OldKey(c)}
    BY <1>3, <2>2, <2>4, <2>11, RowKeys
  <2>13. old # NoRow => at = "drop" /\ OldKey(c) # None /\ old = mapping[OldKey(c)]
    BY <2>3, <2>4
  <2>14. at \in {"drop", "insert"} /\ (at = "drop" <=> old # NoRow)
    BY <2>12, <2>13
  <2>15. MappingsOf(u)' = MappingsOf(u)
    BY <2>9 DEF MappingsOf
  <2>16. UpdatePosition(d)'
    BY <1>2, <2>1, <2>2, <2>7, <2>8, <2>9, <2>12, <2>13, <2>14, <2>15 DEF UpdatePosition
  <2>17. Position(d)'
    BY <2>1, <2>7, <2>16 DEF Position
  <2>18. QED
    BY <1>2, <1>3, <1>6, <1>9, <2>6, <2>7, <2>8, <2>9, <2>17
<1>20. CASE DropOld(h)
  <2>1. c.op \in {"mobile", "email"} /\ c.at = "drop"
    BY <1>1, <1>20 DEF DropOld, At
  <2>2. /\ MappingsOf(u) = KeysOf(c.row) /\ OldKey(c) # None /\ c.found = mapping[OldKey(c)]
        /\ c.row = user[u] /\ user[u] = promised[u] /\ user[u] # NoUser
    BY <1>2, <1>18, <2>1 DEF UpdatePosition
  <2>3. OldKey(c) \in Keys /\ mapping[OldKey(c)].user = u
    BY <1>17, <2>1, <2>2 DEF MappingsOf
  <2>4. u # 0
    OBVIOUS
  <2>5. \A k \in Keys : mapping[k] = c.found <=> k = OldKey(c)
    BY <1>3, <2>2, <2>3, <2>4 DEF Issued, TypeOK, MappingRow
  <2>6. /\ mapping'[OldKey(c)] = NoRow
        /\ \A k \in Keys \ {OldKey(c)} : mapping'[k] = mapping[k]
    BY <1>1, <1>20, <2>3, <2>5 DEF DropOld, DeleteMapping
  <2>7. UNCHANGED <<user, promised>>
    BY <1>20 DEF DropOld
  <2>8. MappingsOf(u)' = KeysOf(c.row) \ {OldKey(c)}
    BY <2>2, <2>3, <2>4, <2>6 DEF MappingsOf, NoRow
  <2>9. \A v \in Ids \ {u} : Untouched(v)
    BY <2>3, <2>6, <2>7 DEF Untouched, NoRow
  <2>10. PICK at \in Points : at = IF c.key = None THEN "write" ELSE "insert"
    BY DEF Points
  <2>11. PICK d : d = [c EXCEPT !.at = at]
    OBVIOUS
  <2>12. call'[h] = d /\ \A g \in Handlers \ {h} : call'[g] = call[g]
    BY <1>1, <1>8, <1>20, <2>10, <2>11 DEF DropOld
  <2>13. c.key = None => KeysOf(Written(c)) = KeysOf(c.row) \ {OldKey(c)}
    BY <1>3, <1>17, <2>1, RowKeys
  <2>14. UpdatePosition(d)'
    <3>1. /\ d.op = c.op /\ d.user = u /\ d.key = c.key /\ d.row = c.row /\ d.at = at
          /\ OldKey(d) = OldKey(c) /\ Written(d) = Written(c)
      BY <1>2, <1>10, <2>11
    <3>2. at \in {"insert", "write"} /\ (at = "write" => c.key = None) /\ (at = "insert" => c.key # None)
      BY <2>10
    <3>3. QED
      BY <2>1, <2>2, <2>7, <2>8, <2>13, <3>1, <3>2 DEF UpdatePosition
  <2>15. Position(d)'
    BY <1>10, <2>1, <2>11, <2>14 DEF Position
  <2>16. QED
    BY <1>2, <1>3, <1>6, <1>10, <2>9, <2>11, <2>12, <2>15
<1>21. CASE InsertNew(h)
  <2>1. c.op \in {"mobile", "email"} /\ c.at = "insert"
    BY <1>1, <1>21 DEF InsertNew, At
  <2>2. /\ MappingsOf(u) = KeysOf(c.row) \ {OldKey(c)} /\ c.key # None /\ c.key \in Keys
        /\ c.row = user[u] /\ user[u] = promised[u] /\ user[u] # NoUser
    BY <1>2, <1>3, <1>18, <2>1 DEF UpdatePosition
  <2>3. CASE FindOneByKey(c.key) # NoRow
    BY <1>1, <1>12, <1>21, <2>3 DEF InsertNew
  <2>4. CASE mapping[c.key] = NoRow
    <3>1. InsertMapping(c.key, u) /\ Goto(h, "write") /\ UNCHANGED <<user, promised>>
      BY <1>1, <1>2, <1>21, <2>4 DEF InsertNew, FindOneByKey
    <3>2. MappingsOf(u)' = KeysOf(Written(c))
      <4>1. MappingsOf(u)' = MappingsOf(u) \cup {c.key}
        BY <1>13, <2>2, <2>4, <3>1
      <4>2. None \notin KeysOf(c.row)
        BY <1>3, RowKeys
      <4>3. KeysOf(Written(c)) = ((KeysOf(c.row) \ {OldKey(c)}) \cup {c.key}) \ {None}
        BY <1>17, <2>1
      <4>4. QED
        BY <2>2, <4>1, <4>2, <4>3
    <3>3. \A v \in Ids \ {u} : Untouched(v)
      BY <1>13, <2>2, <2>4, <3>1 DEF Untouched
    <3>4. PICK d : d = [c EXCEPT !.at = "write"]
      OBVIOUS
    <3>5. call'[h] = d /\ \A g \in Handlers \ {h} : call'[g] = call[g]
      BY <1>8, <3>1, <3>4 DEF Points
    <3>6. /\ d.op = c.op /\ d.user = u /\ d.key = c.key /\ d.row = c.row /\ d.at = "write"
          /\ d # Idle /\ Written(d) = Written(c)
      BY <1>2, <1>10, <3>4
    <3>7. UpdatePosition(d)'
      BY <2>1, <2>2, <3>1, <3>2, <3>6 DEF UpdatePosition
    <3>8. Position(d)'
      BY <2>1, <3>6, <3>7 DEF Position
    <3>9. QED
      BY <1>3, <1>6, <3>3, <3>5, <3>6, <3>8
  <2>5. QED
    BY <2>3, <2>4 DEF FindOneByKey
<1>22. CASE WriteRow(h)
  <2>1. c.op \in UpdateOps /\ c.op # "register" /\ c.at = "write"
    BY <1>1, <1>22 DEF WriteRow, At, UpdateOps
  <2>2. /\ UpdatePosition(c) /\ MappingsOf(u) = KeysOf(Written(c))
        /\ user[u] = promised[u] /\ user[u] \in UserRow
    BY <1>2, <1>3, <1>4, <2>1 DEF Position, UpdatePosition, TypeOK
  <2>3. Asked(c) = Written(c)
    BY <1>2, <1>3, <2>1, <2>2 DEF UpdatePosition, Asked, Written, UpdateOps, UserRow
  <2>4. /\ user' = [user EXCEPT ![u] = Written(c)]
        /\ call' = [call EXCEPT ![h] = Idle]
        /\ promised' = [promised EXCEPT ![u] = Asked(c)]
        /\ UNCHANGED mapping
    BY <1>1, <1>2, <1>22 DEF WriteRow, UpdateRow, EndWithSuccess
  <2>5. /\ user'[u] = Written(c) /\ promised'[u] = Written(c)
        /\ \A v \in Ids \ {u} : user'[v] = user[v] /\ promised'[v] = promised[v]
    BY <1>3, <2>3, <2>4 DEF TypeOK
  <2>6. MappingsOf(u)' = MappingsOf(u)
    BY <2>4 DEF MappingsOf
  <2>7. \A v \in Ids \ {u} : Untouched(v)
    BY <2>4, <2>5 DEF Untouched
  <2>8. QED
    BY <1>7, <2>2, <2>4, <2>5, <2>6, <2>7
<1>23. CASE FindOldFails(h)
  BY <1>1, <1>2, <1>d, <1>23 DEF FindOldFails
<1>24. CASE Fail(h)
  BY <1>12, <1>24 DEF Fail
<1>25. CASE InsertTicketUser(h) \/ LoginFind(h) \/ LoginGuard(h) \/ LoginVerify(h)
            \/ LoginExpire(h) \/ LoginToken(h)
  BY <1>1, <1>3, <1>25 DEF InsertTicketUser, LoginFind, LoginGuard, LoginVerify, LoginExpire, LoginToken, At,
     WriterOps, UpdateOps
<1>26. QED
  BY <1>11, <1>14, <1>15, <1>16, <1>19, <1>20, <1>21, <1>22, <1>23, <1>24, <1>25 DEF Step

\* A step of a writer of a damaged account: it touches no account but its own
\* and the one whose mapping row it deletes, which is damaged by that.
LEMMA DamagedWriter ==
  ASSUME IInv, TypeOK', NEW h \in Handlers, Writer(h), Step(h) \/ Fail(h),
         damaged \subseteq damaged', call[h].user \in damaged'
  PROVE  OneWriter' /\ Settled' /\ Positions'
<1> USE AccountsAssumption DEF rows, counters, history
<1>1. PICK u \in Ids : u = call[h].user
  BY CallFields DEF IInv, CallOK, Writer
<1>2. /\ TypeOK /\ Issued /\ OneWriter /\ Settled /\ Positions
      /\ call[h] \in WriterCalls /\ call[h].op \in WriterOps /\ call[h] # Idle
  BY CallFields DEF IInv, Accounts, CallOK, Writer
<1>3. RegisterUser(h) \/ RegisterMobile(h) \/ RegisterEmail(h) \/ CheckKey(h) \/ FindOld(h)
      \/ FindOldFails(h) \/ DropOld(h) \/ InsertNew(h) \/ WriteRow(h) \/ Fail(h)
  BY <1>2 DEF Step, InsertTicketUser, LoginFind, LoginGuard, LoginVerify, LoginExpire, LoginToken,
     At, WriterOps, UpdateOps
<1>4. /\ \A g \in Handlers \ {h} : call'[g] = call[g]
      /\ call'[h] = Idle \/ call'[h].user = u
  <2>1. CASE call' = [call EXCEPT ![h] = Idle]
    BY <1>2, <2>1 DEF TypeOK
  <2>2. CASE \E at : Goto(h, at)
    BY <1>1, <1>2, <2>2 DEF Goto, TypeOK, WriterCalls, AccountCalls
  <2>3. CASE FindOld(h)
    BY <1>1, <1>2, <2>3 DEF FindOld, TypeOK, WriterCalls, AccountCalls
  <2>4. QED
    BY <1>3, <2>1, <2>2, <2>3 DEF RegisterUser, RegisterMobile, RegisterEmail, CheckKey, FindOldFails,
       DropOld, InsertNew, WriteRow, Fail, EndWithError, EndWithSuccess
<1>5. \A v \in Ids \ {u} : user'[v] = user[v] /\ promised'[v] = promised[v]
  <2>1. \A v \in Ids \ {u} : user'[v] = user[v]
    BY <1>1, <1>2, <1>3 DEF RegisterUser, RegisterMobile, RegisterEmail, CheckKey, FindOld,
       FindOldFails, DropOld, InsertNew, WriteRow, Fail, InsertUser, UpdateRow, TypeOK
  <2>2. promised' = promised \/ \E row : promised' = [promised EXCEPT ![u] = row]
    BY <1>1, <1>3 DEF RegisterUser, RegisterMobile, RegisterEmail, CheckKey, FindOld,
       FindOldFails, DropOld, InsertNew, WriteRow, Fail, EndWithError, EndWithSuccess
  <2>3. QED
    BY <1>2, <2>1, <2>2 DEF TypeOK
<1>6. ASSUME NEW v \in Ids \ ({u} \cup damaged'), NEW k \in Keys,
             mapping[k].user = v \/ mapping'[k].user = v
      PROVE mapping'[k] = mapping[k]
  <2>1. CASE UNCHANGED mapping
    BY <2>1
  <2>2. ASSUME NEW l, InsertMapping(l, u), l \in Keys => mapping[l] = NoRow PROVE mapping'[k] = mapping[k]
    <3>1. k = l => mapping[k].user = 0 /\ mapping'[k].user = u
      BY <1>2, <2>2 DEF InsertMapping, TypeOK, NoRow
    <3>2. k # l => mapping'[k] = mapping[k]
      BY <1>2, <2>2 DEF InsertMapping, TypeOK
    <3>3. QED
      BY <1>6, <3>1, <3>2
  <2>3. CASE DropOld(h)
    <3>1. mapping'[k] = IF mapping[k] = call[h].found THEN NoRow ELSE mapping[k]
      BY <2>3 DEF DropOld, DeleteMapping
    <3>2. CASE mapping[k] = call[h].found
      <4>1. mapping[k].user = v
        BY <1>6, <3>1, <3>2 DEF NoRow
      <4>2. v \in Victims(call[h])
        BY <1>1, <1>6, <3>2, <4>1 DEF Victims
      <4>3. QED
        BY <1>6, <2>3, <4>2 DEF DropOld
    <3>3. QED
      BY <3>1, <3>2
  <2>4. QED
    BY <1>1, <1>3, <2>1, <2>2, <2>3 DEF RegisterUser, RegisterMobile, RegisterEmail, CheckKey, FindOld,
       FindOldFails, InsertNew, WriteRow, Fail, FindOneByKey, FindOneByEmail
<1>7. \A v \in Ids \ ({u} \cup damaged') : Untouched(v)
  BY <1>5, <1>6 DEF Untouched
<1>8. Writer(h)' => call'[h].user = u
  BY <1>4 DEF Writer
<1>9. QED
  BY <1>1, <1>2, <1>4, <1>7, <1>8, OneAccount

\* A call of an account that is not damaged deletes no mapping of another user:
\* the row it names is its own.
LEMMA OwnMapping ==
  ASSUME IInv, NEW h \in Handlers, DropOld(h), call[h].user \notin damaged
  PROVE  Victims(call[h]) = {}
<1>1. PICK c : c = call[h]
  OBVIOUS
<1>2. c # Idle /\ c.op \in {"mobile", "email"} /\ c.at = "drop"
  BY <1>1 DEF DropOld, At
<1>3. c.user \in Ids /\ c.row \in UserRow
  BY <1>1, <1>2, CallFields DEF IInv, CallOK, WriterOps, UpdateOps
<1>4. UpdatePosition(c)
  BY <1>1, <1>2 DEF IInv, Accounts, Positions, Position, Writer, WriterOps, UpdateOps
<1>5. c.found = mapping[OldKey(c)] /\ OldKey(c) # None /\ MappingsOf(c.user) = KeysOf(c.row)
  BY <1>2, <1>4 DEF UpdatePosition
<1>6. OldKey(c) \in KeysOf(c.row)
  BY <1>2, <1>3, <1>5, RowKeys DEF OldKey
<1>7. mapping[OldKey(c)].user = c.user
  BY <1>5, <1>6 DEF MappingsOf
<1>8. QED
  BY <1>1, <1>5, <1>7 DEF Victims

\* Damage is never taken back, and only a damaged account robs another.
LEMMA DamageStep == IInv /\ [Next]_vars => damaged \subseteq damaged' /\ robbers' \subseteq damaged'
<1> SUFFICES ASSUME IInv, [Next]_vars PROVE damaged \subseteq damaged' /\ robbers' \subseteq damaged'
  OBVIOUS
<1> USE DEF rows, counters, history
<1>1. ASSUME damaged \subseteq damaged', UNCHANGED robbers
      PROVE damaged \subseteq damaged' /\ robbers' \subseteq damaged'
  BY <1>1 DEF IInv, Accounts
<1>2. ASSUME NEW h \in Handlers, Start(h) PROVE damaged \subseteq damaged' /\ UNCHANGED robbers
  BY <1>2 DEF Start, Register, Login, UpdatePassword, Authentication, UpdateUser, UpdateMobile,
     UpdateEmail, AddTicketUser, BeginUpdate
<1>3. ASSUME NEW h \in Handlers, Step(h) \/ Fail(h), ~DropOld(h)
      PROVE damaged \subseteq damaged' /\ UNCHANGED robbers
  BY <1>3 DEF Step, RegisterUser, RegisterMobile, RegisterEmail, CheckKey, FindOld, FindOldFails,
     InsertNew, WriteRow, InsertTicketUser, LoginFind, LoginGuard, LoginVerify, LoginExpire,
     LoginToken, Fail, EndWithError, EndWithSuccess
<1>4. ASSUME NEW h \in Handlers, DropOld(h)
      PROVE damaged \subseteq damaged' /\ robbers' \subseteq damaged'
  BY <1>4, OwnMapping DEF DropOld, IInv, Accounts
<1>5. QED
  BY <1>1, <1>2, <1>3, <1>4 DEF Next, vars, DeleteTicketUser, Logout, CounterExpires

\* Accounts are kept by every step: the others than a writer's write no account.
LEMMA AccountsStep == IInv /\ TypeOK' /\ [Next]_vars => Accounts'
<1> SUFFICES ASSUME IInv, TypeOK', [Next]_vars
             PROVE OneWriter' /\ Settled' /\ Positions'
  BY DamageStep DEF Accounts
<1> USE DEF rows, counters, history
<1>1. damaged \subseteq damaged'
  BY DamageStep
<1>2. TypeOK /\ OneWriter /\ Settled /\ Positions
  BY DEF IInv, Accounts
<1>3. ASSUME NEW h \in Handlers, Start(h)
      PROVE OneWriter' /\ Settled' /\ Positions'
  BY <1>3, StartAccounts
<1>4. ASSUME NEW h \in Handlers, Step(h) \/ Fail(h)
      PROVE OneWriter' /\ Settled' /\ Positions'
  <2>1. CASE Writer(h)
    BY <1>1, <1>4, <2>1, WriterAccounts, DamagedWriter
  <2>2. CASE ~Writer(h)
    <3>1. call[h] # Idle
      BY <1>4 DEF Step, RegisterUser, RegisterMobile, RegisterEmail, CheckKey, FindOld, FindOldFails,
         DropOld, InsertNew, WriteRow, InsertTicketUser, LoginFind, LoginGuard, LoginVerify,
         LoginExpire, LoginToken, Fail, At
    <3>2. call[h].op \in {"login", "ticket"}
      BY <1>2, <2>2, <3>1, CallFields DEF CallOK, Writer
    <3>3. InsertTicketUser(h) \/ LoginFind(h) \/ LoginGuard(h) \/ LoginVerify(h) \/ LoginExpire(h)
          \/ LoginToken(h) \/ Fail(h)
      BY <1>4, <3>2 DEF Step, RegisterUser, RegisterMobile, RegisterEmail, CheckKey, FindOld,
         FindOldFails, DropOld, InsertNew, WriteRow, At, UpdateOps
    <3>4. UNCHANGED <<user, mapping, promised>>
      BY <1>2, <3>3, LoginFindCall DEF InsertTicketUser, LoginGuard, LoginVerify, LoginExpire, LoginToken,
         Fail, EndWithError
    <3>5. LoginFind(h) \/ (\E at : Goto(h, at)) \/ call' = [call EXCEPT ![h] = Idle]
      BY <3>3 DEF InsertTicketUser, LoginGuard, LoginVerify, LoginExpire, LoginToken, Fail,
         EndWithError, Goto
    <3>6. /\ \A g \in Handlers \ {h} : call'[g] = call[g]
          /\ call'[h] = Idle \/ call'[h].op = call[h].op
      <4>1. CASE LoginFind(h)
        BY <1>2, <4>1, LoginFindCall
      <4>2. CASE ~LoginFind(h)
        BY <1>2, <3>1, <3>2, <3>5, <4>2, CallFields DEF Goto, TypeOK, CallOK, WriterCalls,
           AccountCalls, LoginCalls, TicketCalls
      <4>3. QED
        BY <4>1, <4>2
    <3>7. \A g \in Handlers : Writer(g)' <=> Writer(g)
      BY <2>2, <3>1, <3>2, <3>6 DEF Writer, WriterOps, UpdateOps
    <3>8. \A g \in Handlers : Writer(g) => call'[g] = call[g]
      BY <2>2, <3>6
    <3>9. QED
      BY <1>1, <1>2, <3>4, <3>7, <3>8, NoAccount
  <2>3. QED
    BY <2>1, <2>2
<1>5. ASSUME UNCHANGED <<user, mapping, promised, call>>
      PROVE OneWriter' /\ Settled' /\ Positions'
  BY <1>1, <1>2, <1>5, NoAccount DEF Writer
<1>6. QED
  BY <1>3, <1>4, <1>5 DEF Next, vars, DeleteTicketUser, Logout, CounterExpires

LEMMA Invariance == Spec => []IInv
<1>1. Init => IInv
  BY InitIInv
<1>2. IInv /\ [Next]_vars => IInv'
  BY TypeStep, IssuedStep, GuessesStep, AccountsStep DEF IInv
<1>3. QED
  BY <1>1, <1>2, PTL DEF Spec

-----------------------------------------------------------------------------
\* An account that no call writes has no writer.
LEMMA NoWriters ==
  ASSUME NEW u \in Ids, Writing(u) = {}
  PROVE  \A h \in Handlers : Writer(h) => call[h].user # u
  BY DEF Writing

\* User rows, mapping rows, counters and the calls under way keep their types.
THEOREM AccountsTypeCorrect == Spec => []TypeOK
<1>1. IInv => TypeOK
  BY DEF IInv
<1>2. QED
  BY <1>1, Invariance, PTL

\* What a user-rpc call has acknowledged stays in the row, for any number of
\* accounts, handlers and calls (update_*_logic.go write back the whole row).
THEOREM AcknowledgedKeptTheorem == Spec => []AcknowledgedKept
<1>1. IInv => AcknowledgedKept
  BY NoWriters DEF IInv, Accounts, Settled, SettledUser, AcknowledgedKept
<1>2. QED
  BY <1>1, Invariance, PTL

\* A user logs in with exactly the mobile and the email of his row, though the
\* row and its mapping rows are written by separate statements.
THEOREM MappingsAgreeTheorem == Spec => []MappingsAgree
<1>1. IInv => MappingsAgree
  <2> SUFFICES ASSUME IInv, NEW u \in Ids \ damaged, user[u] # NoUser, Writing(u) = {}
               PROVE /\ MappingsOf(u) = {user[u].mobile, user[u].email} \ {None}
                     /\ GetUserByMobile(user[u].mobile) = GetUserById(u)
    BY DEF MappingsAgree, IInv, Accounts
  <2>1. user[u] \in UserRow
    BY DEF IInv, TypeOK
  <2>2. MappingsOf(u) = KeysOf(user[u])
    BY NoWriters DEF IInv, Accounts, Settled, SettledUser
  <2>3. MappingsOf(u) = {user[u].mobile, user[u].email} \ {None}
    BY <2>1, <2>2, RowKeys
  <2>4. mapping[user[u].mobile].user = u /\ u # 0
    BY <2>1, <2>3, RowKeys, AccountsAssumption DEF MappingsOf
  <2>5. mapping[user[u].mobile] # NoRow
    BY <2>4 DEF NoRow
  <2>6. QED
    BY <2>3, <2>4, <2>5 DEF GetUserByMobile, Exist, FindOneByKey
<1>2. QED
  BY <1>1, Invariance, PTL

\* The check of the counter and its increment are two commands, so the limit
\* can be passed, but by no more than one guess of each handler and one for
\* each failed read.
THEOREM GuessesBoundedTheorem == Spec => []GuessesBounded
<1>1. IInv => GuessesBounded
  <2> SUFFICES ASSUME IInv, NEW k \in Keys
               PROVE fails[k] <= FailLimit - 1 + Cardinality(Handlers) + faults
    BY DEF GuessesBounded
  <2>1. fails[k] + Cardinality(Guessing(k)) <= FailLimit - 1 + Cardinality(Handlers) + faults
    BY DEF IInv, Guesses
  <2>2. fails[k] \in Nat /\ faults \in Nat
    BY DEF IInv, TypeOK
  <2>3. QED
    BY <2>1, <2>2, GuessingSize, AccountsAssumption
<1>2. QED
  BY <1>1, Invariance, PTL
=============================================================================
