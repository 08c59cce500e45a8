--------------------------- MODULE AccountsProofs ---------------------------
(***************************************************************************)
(* Theorems about Accounts for any number of users, visitors and           *)
(* administrators, and any roles and addresses.                            *)
(*                                                                         *)
(* The argument: a stale entity carries a role that its own user was once  *)
(* given, and nobody takes a grant back; and no entity knows the hash, so  *)
(* no save finds it changed.                                               *)
(***************************************************************************)
EXTENDS Accounts, TLAPS

\* What holds of a sign-up or login in progress.
VisitOK(w) ==
    /\ w.pc \in {"lookup", "insert"} => w.email \in Email /\ w.role \in Role
    /\ w.pc = "sign" => w.user \in UserId /\ w.role \in granted[w.user]

\* What holds of an administrator's request in progress: its entity has no
\* hash and a role that this user was given.
ClerkOK(h) ==
    /\ h.pc # "idle" => h.key \in UserId
    /\ h.pc \in {"reload", "write", "insert"} =>
          /\ h.entity \in UserEntity
          /\ h.entity.hash = "undefined"
          /\ h.entity.role \in granted[h.key]
    /\ "hash" \notin h.cols

\* The inductive invariant.
AccountInv ==
    /\ AccountTypeOK
    /\ \A v \in Visitor : VisitOK(visit[v])
    /\ \A c \in Clerk : ClerkOK(clerk[c])
    /\ \A u \in Office!Stored : users[u].role \in granted[u]
    /\ OneUserPerEmail

\* The passwords that a step leaves alone.
HashesStay ==
    \A u \in UserId :
        users[u] # None /\ users'[u] # None => users'[u].hash = users[u].hash

\* No step takes a grant back.
Grows ==
    /\ granted' \in [UserId -> SUBSET Role]
    /\ \A u \in UserId : granted[u] \subseteq granted'[u]

-----------------------------------------------------------------------------
(* Rows and entities                                                       *)

\* A stored user has a row of the table.
LEMMA StoredRow ==
    ASSUME AccountInv, NEW u \in Office!Stored
    PROVE  u \in UserId /\ users[u] \in UserRow /\ users[u].role \in granted[u]
BY DEF AccountInv, AccountTypeOK, Office!Stored

\* A key that was handed out neither names a user nor is held by a request.
LEMMA FreshKey ==
    ASSUME AccountInv, NEW u \in Fresh
    PROVE  u \in UserId /\ users[u] = None /\ granted[u] = {}
BY StoredRow DEF Fresh, Office!Stored

\* The entity of a plain SELECT: the row without its hash.
LEMMA LoadedEntity ==
    ASSUME AccountInv, NEW u \in Office!Stored
    PROVE  LET e == Office!Loaded(u)
           IN  /\ e \in UserEntity
               /\ e.hash = "undefined"
               /\ e.role \in granted[u]
<1> DEFINE e == Office!Loaded(u)
<1>1. users[u] \in UserRow /\ users[u].role \in granted[u]
  BY StoredRow
<1>2. DOMAIN users[u] = UserColumn
  BY <1>1 DEF UserRow, UserColumn
<1>3. e = [email |-> users[u].email, hash |-> "undefined",
           role |-> users[u].role, active |-> users[u].active]
  BY <1>2 DEF Office!Loaded, UserColumn, HiddenColumn
<1>4. QED
  BY <1>1, <1>3 DEF UserRow, UserEntity

\* An UPDATE leaves the hash, and takes the role from the row or the entity.
LEMMA PatchUser ==
    ASSUME NEW row \in UserRow, NEW entity \in UserEntity,
           NEW cols, "hash" \notin cols
    PROVE  LET p == Patch(row, entity, cols)
           IN  /\ p \in UserRow
               /\ p.hash = row.hash
               /\ p.role \in {row.role, entity.role}
<1> DEFINE p == Patch(row, entity, cols)
<1>1. DOMAIN row = UserColumn
  BY DEF UserRow, UserColumn
<1>2. p = [email |-> p.email, hash |-> p.hash, role |-> p.role,
           active |-> p.active]
  BY <1>1 DEF Patch, UserColumn
<1>3. \A c \in UserColumn : p[c] = IF c \in cols THEN entity[c] ELSE row[c]
  BY <1>1 DEF Patch
<1>4. /\ p.email \in {row.email, entity.email} /\ p.hash = row.hash
      /\ p.role \in {row.role, entity.role}
      /\ p.active \in {row.active, entity.active}
  BY <1>3 DEF UserColumn
<1>5. QED
  BY <1>2, <1>4 DEF UserRow, UserEntity
-----------------------------------------------------------------------------
(* What a step leaves of the requests in progress                          *)

\* Requests that do not move stay in order while grants only grow.
LEMMA RequestsStable ==
    ASSUME AccountInv, Grows
    PROVE  /\ visit' = visit => \A v \in Visitor : VisitOK(visit[v])'
           /\ clerk' = clerk => \A c \in Clerk : ClerkOK(clerk[c])'
BY DEF AccountInv, Grows, VisitOK, ClerkOK

\* A step of one visitor keeps all visits in order if it keeps that one.
LEMMA VisitMoves ==
    ASSUME AccountInv, Grows, NEW v \in Visitor, NEW w \in VisitHandler,
           visit' = [visit EXCEPT ![v] = w], VisitOK(w)'
    PROVE  /\ visit' \in [Visitor -> VisitHandler]
           /\ \A x \in Visitor : VisitOK(visit[x])'
<1>1. visit \in [Visitor -> VisitHandler]
  BY DEF AccountInv, AccountTypeOK
<1>2. ASSUME NEW x \in Visitor
      PROVE  VisitOK(visit[x])'
  <2>1. CASE x = v
    BY <1>1, <2>1 DEF VisitOK
  <2>2. CASE x # v
    BY <1>1, <2>2 DEF VisitOK, AccountInv, Grows
  <2>3. QED
    BY <2>1, <2>2
<1>3. QED
  BY <1>1, <1>2

\* The same for a step of one administrator.
LEMMA ClerkMoves ==
    ASSUME AccountInv, Grows, NEW c \in Clerk,
           NEW h \in Office!Handler(UserEntity, UserColumn),
           clerk' = [clerk EXCEPT ![c] = h], ClerkOK(h)'
    PROVE  /\ clerk' \in [Clerk -> Office!Handler(UserEntity, UserColumn)]
           /\ \A x \in Clerk : ClerkOK(clerk[x])'
<1>1. clerk \in [Clerk -> Office!Handler(UserEntity, UserColumn)]
  BY DEF AccountInv, AccountTypeOK
<1>2. ASSUME NEW x \in Clerk
      PROVE  ClerkOK(clerk[x])'
  <2>1. CASE x = c
    BY <1>1, <2>1 DEF ClerkOK
  <2>2. CASE x # c
    BY <1>1, <2>2 DEF ClerkOK, AccountInv, Grows
  <2>3. QED
    BY <2>1, <2>2
<1>3. QED
  BY <1>1, <1>2

\* A free slot of auth-service is in order.
LEMMA IdleVisit == NoVisit \in VisitHandler /\ VisitOK(NoVisit)'
BY DEF NoVisit, VisitHandler, VisitOK

\* A free slot of an administrator is in order.
LEMMA IdleClerk ==
    /\ Office!Idle \in Office!Handler(UserEntity, UserColumn)
    /\ ClerkOK(Office!Idle)'
BY DEF Office!Idle, Office!Handler, ClerkOK

\* A step of a visitor that leaves the table alone.
LEMMA VisitStep ==
    ASSUME AccountInv, NEW v \in Visitor, NEW w \in VisitHandler,
           Visiting(v, w), VisitOK(w), users' = users, clerk' = clerk,
           granted' = granted, attached' \subseteq UserId
    PROVE  AccountInv' /\ HashesStay
<1>1. Grows
  BY DEF Grows, AccountInv, AccountTypeOK
<1>2. visit' = [visit EXCEPT ![v] = w] /\ VisitOK(w)'
  BY DEF Visiting, VisitOK
<1>3. /\ visit' \in [Visitor -> VisitHandler]
      /\ \A x \in Visitor : VisitOK(visit[x])'
  BY <1>1, <1>2, VisitMoves
<1>4. \A c \in Clerk : ClerkOK(clerk[c])'
  BY <1>1, RequestsStable
<1>5. AccountTypeOK'
  BY <1>1, <1>3 DEF AccountInv, AccountTypeOK, Grows
<1>6. OneUserPerEmail' /\ \A u \in Office!Stored' : users'[u].role \in granted'[u]
  BY DEF AccountInv, OneUserPerEmail, Office!Stored
<1>7. QED
  BY <1>3, <1>4, <1>5, <1>6 DEF AccountInv, HashesStay

\* A step of an administrator that leaves the table alone.
LEMMA ClerkStep ==
    ASSUME AccountInv, Grows, NEW c \in Clerk,
           NEW h \in Office!Handler(UserEntity, UserColumn),
           clerk' = [clerk EXCEPT ![c] = h], ClerkOK(h)',
           users' = users, visit' = visit, attached' = attached
    PROVE  AccountInv' /\ HashesStay
<1>1. /\ clerk' \in [Clerk -> Office!Handler(UserEntity, UserColumn)]
      /\ \A x \in Clerk : ClerkOK(clerk[x])'
  BY ClerkMoves
<1>2. \A v \in Visitor : VisitOK(visit[v])'
  BY RequestsStable
<1>3. AccountTypeOK'
  BY <1>1 DEF AccountInv, AccountTypeOK, Grows
<1>4. OneUserPerEmail' /\ \A u \in Office!Stored' : users'[u].role \in granted'[u]
  BY DEF AccountInv, OneUserPerEmail, Office!Stored, Grows
<1>5. QED
  BY <1>1, <1>2, <1>3, <1>4 DEF AccountInv, HashesStay

-----------------------------------------------------------------------------
(* Visitors                                                                *)

\* POST /auth/register starts.
LEMMA RegisterStep ==
    ASSUME AccountInv, NEW v \in Visitor, NEW email \in Email,
           NEW role \in Role, Register(v, email, role)
    PROVE  AccountInv' /\ HashesStay
<1> DEFINE w == [NoVisit EXCEPT !.pc = "insert", !.kind = "register",
                                !.email = email, !.role = role]
<1>1. w \in VisitHandler /\ VisitOK(w)
  BY DEF NoVisit, VisitHandler, VisitOK
<1>2. Visiting(v, w) /\ users' = users /\ clerk' = clerk
          /\ granted' = granted /\ attached' = attached
  BY DEF Register
<1>3. QED
  BY <1>1, <1>2, VisitStep DEF AccountInv, AccountTypeOK

\* POST /auth/guest starts.
LEMMA GuestStep ==
    ASSUME AccountInv, NEW v \in Visitor, NEW email \in Email, Guest(v, email)
    PROVE  AccountInv' /\ HashesStay
<1>0. Participant \in Role
  BY AccountsAssumption
<1>1. CASE Visiting(v, [NoVisit EXCEPT !.pc = "lookup", !.kind = "guest",
                              !.email = email, !.role = Participant])
  <2> DEFINE w == [NoVisit EXCEPT !.pc = "lookup", !.kind = "guest",
                              !.email = email, !.role = Participant]
  <2>1. w \in VisitHandler /\ VisitOK(w)
    BY <1>0 DEF NoVisit, VisitHandler, VisitOK
  <2>2. QED
    BY <1>1, <2>1, VisitStep DEF Guest, AccountInv, AccountTypeOK
<1>2. ASSUME NEW u \in Known(email),
             Visiting(v, [NoVisit EXCEPT !.pc = "attach", !.kind = "guest",
                              !.user = u])
      PROVE  AccountInv' /\ HashesStay
  <2> DEFINE w == [NoVisit EXCEPT !.pc = "attach", !.kind = "guest",
                              !.user = u]
  <2>1. u \in UserId
    BY DEF Known, Office!Stored
  <2>2. w \in VisitHandler /\ VisitOK(w)
    BY <2>1 DEF NoVisit, VisitHandler, VisitOK
  <2>3. QED
    BY <1>2, <2>2, VisitStep DEF Guest, AccountInv, AccountTypeOK
<1>3. QED
  BY <1>1, <1>2 DEF Guest

\* The second look-up by email.
LEMMA LookUpAgainStep ==
    ASSUME AccountInv, NEW v \in Visitor, LookUpAgain(v)
    PROVE  AccountInv' /\ HashesStay
<1> DEFINE w == [visit[v] EXCEPT !.pc = "insert"]
<1>1. visit[v] \in VisitHandler /\ VisitOK(visit[v])
  BY DEF AccountInv, AccountTypeOK
<1>2. w \in VisitHandler /\ VisitOK(w)
  BY <1>1 DEF LookUpAgain, VisitHandler, VisitOK
<1>3. NoVisit \in VisitHandler /\ VisitOK(NoVisit)
  BY DEF NoVisit, VisitHandler, VisitOK
<1>4. Visiting(v, w) \/ Visiting(v, NoVisit)
  BY DEF LookUpAgain
<1>5. users' = users /\ clerk' = clerk /\ granted' = granted
          /\ attached' = attached
  BY DEF LookUpAgain
<1>6. QED
  BY <1>2, <1>3, <1>4, <1>5, VisitStep DEF AccountInv, AccountTypeOK

\* A token is signed for the account that was found or made.
LEMMA SigningStep ==
    ASSUME AccountInv, NEW v \in Visitor, NEW u \in Office!Stored,
           Login(v, u) \/ Refresh(v, u)
    PROVE  AccountInv' /\ HashesStay
<1> DEFINE w == [NoVisit EXCEPT !.pc = "sign", !.user = u,
                                !.role = users[u].role]
<1>1. /\ u \in UserId /\ users[u].role \in Role
      /\ users[u].role \in granted[u]
  BY StoredRow DEF UserRow
<1>2. w \in VisitHandler /\ VisitOK(w)
  BY <1>1 DEF NoVisit, VisitHandler, VisitOK
<1>3. Visiting(v, w) /\ users' = users /\ clerk' = clerk
          /\ granted' = granted /\ attached' = attached
  BY DEF Login, Refresh
<1>4. QED
  BY <1>2, <1>3, VisitStep DEF AccountInv, AccountTypeOK

\* A visit ends, answered or not.
LEMMA VisitEnds ==
    ASSUME AccountInv, NEW v \in Visitor,
           Sign(v) \/ Attach(v) \/ VisitFails(v)
    PROVE  AccountInv' /\ HashesStay
<1>1. NoVisit \in VisitHandler /\ VisitOK(NoVisit)
  BY DEF NoVisit, VisitHandler, VisitOK
<1>2. /\ Visiting(v, NoVisit) /\ users' = users /\ clerk' = clerk
      /\ granted' = granted
  BY DEF Sign, Attach, VisitFails
<1>3. attached' \subseteq UserId
  BY DEF Sign, Attach, VisitFails, Office!Stored, AccountInv, AccountTypeOK
<1>4. QED
  BY <1>1, <1>2, <1>3, VisitStep

\* A new user is stored under a fresh key with the role it was given.
LEMMA NewUserStep ==
    ASSUME AccountInv, NEW u \in Fresh, NEW email \in Email,
           NEW hash \in Secret \cup {None}, NEW role \in Role,
           ~Taken(email),
           users' = [users EXCEPT ![u] = NewUser(email, hash, role)],
           granted' = [granted EXCEPT ![u] = {role}]
    PROVE  /\ Grows
           /\ users' \in [UserId -> UserRow \cup {None}]
           /\ \A x \in Office!Stored' : users'[x].role \in granted'[x]
           /\ OneUserPerEmail'
           /\ HashesStay
<1> DEFINE row == NewUser(email, hash, role)
<1>1. u \in UserId /\ users[u] = None /\ granted[u] = {}
  BY FreshKey
<1>2. row \in UserRow /\ row.email = email /\ row.role = role
  BY DEF NewUser, UserRow
<1>3. /\ users \in [UserId -> UserRow \cup {None}]
      /\ granted \in [UserId -> SUBSET Role]
  BY DEF AccountInv, AccountTypeOK
<1>4. Grows
  BY <1>1, <1>3 DEF Grows
<1>5. users' \in [UserId -> UserRow \cup {None}]
  BY <1>1, <1>2, <1>3
<1>6. \A x \in Office!Stored' :
          x = u \/ (x \in Office!Stored /\ users'[x] = users[x] /\ x # u)
  BY <1>1, <1>3 DEF Office!Stored
<1>7. users'[u] = row /\ granted'[u] = {role}
  BY <1>1, <1>3
<1>8. ASSUME NEW x \in Office!Stored'
      PROVE  users'[x].role \in granted'[x]
  <2>1. CASE x = u
    BY <1>2, <1>7, <2>1
  <2>2. CASE x # u
    <3>1. x \in Office!Stored /\ users'[x] = users[x] /\ x \in UserId
      BY <1>6, <2>2 DEF Office!Stored
    <3>2. granted'[x] = granted[x]
      BY <1>3, <2>2, <3>1
    <3>3. QED
      BY <3>1, <3>2 DEF AccountInv
  <2>3. QED
    BY <2>1, <2>2
<1>9. \A x \in Office!Stored : users[x].email # email
  BY DEF Taken
<1>10. OneUserPerEmail'
  <2> SUFFICES ASSUME NEW x \in Office!Stored', NEW y \in Office!Stored',
                      users'[x].email = users'[y].email
               PROVE  x = y
    BY DEF OneUserPerEmail
  <2>1. CASE x = u /\ y # u
    BY <1>2, <1>6, <1>7, <1>9, <2>1
  <2>2. CASE x # u /\ y = u
    BY <1>2, <1>6, <1>7, <1>9, <2>2
  <2>3. CASE x # u /\ y # u
    BY <1>6, <2>3 DEF AccountInv, OneUserPerEmail
  <2>4. QED
    BY <2>1, <2>2, <2>3
<1>11. HashesStay
  BY <1>1, <1>3 DEF HashesStay
<1>12. QED
  BY <1>4, <1>5, <1>8, <1>10, <1>11

\* The INSERT of a registration: the unique index refuses a taken email.
LEMMA InsertUserStep ==
    ASSUME AccountInv, NEW v \in Visitor, InsertUser(v)
    PROVE  AccountInv' /\ HashesStay
<1> DEFINE asked == visit[v]
           guest == asked.kind = "guest"
<1>1. /\ asked \in VisitHandler /\ asked.email \in Email
      /\ asked.role \in Role
  BY DEF AccountInv, AccountTypeOK, InsertUser, VisitOK
<1>2. CASE Visiting(v, NoVisit) /\ UNCHANGED <<users, granted>>
  <2>1. NoVisit \in VisitHandler /\ VisitOK(NoVisit)
    BY DEF NoVisit, VisitHandler, VisitOK
  <2>2. QED
    BY <1>2, <2>1, VisitStep DEF InsertUser, AccountInv, AccountTypeOK
<1>3. ASSUME NEW u \in Fresh, ~Taken(asked.email),
             users' = [users EXCEPT ![u] = NewUser(asked.email,
                          IF guest THEN "random" ELSE "chosen", asked.role)],
             granted' = [granted EXCEPT ![u] = {asked.role}],
             Visiting(v, [asked EXCEPT
                          !.pc = IF guest THEN "attach" ELSE "sign", !.user = u])
      PROVE  AccountInv' /\ HashesStay
  <2> DEFINE hash == IF guest THEN "random" ELSE "chosen"
  <2>0. hash \in Secret \cup {None}
    BY DEF Secret
  <2>1. /\ Grows
        /\ users' \in [UserId -> UserRow \cup {None}]
        /\ \A x \in Office!Stored' : users'[x].role \in granted'[x]
        /\ OneUserPerEmail'
        /\ HashesStay
    BY <1>1, <1>3, <2>0, NewUserStep
  <2>2. u \in UserId /\ granted'[u] = {asked.role}
    BY <1>3, FreshKey DEF AccountInv, AccountTypeOK
  <2>3. PICK w : w = [asked EXCEPT !.pc = IF guest THEN "attach" ELSE "sign",
                                   !.user = u]
    OBVIOUS
  <2>4. /\ visit' = [visit EXCEPT ![v] = w]
        /\ w \in VisitHandler /\ VisitOK(w)'
    BY <1>1, <1>3, <2>2, <2>3 DEF Visiting, VisitHandler, VisitOK
  <2>5. /\ visit' \in [Visitor -> VisitHandler]
        /\ \A x \in Visitor : VisitOK(visit[x])'
    BY <2>1, <2>3, <2>4, VisitMoves
  <2>6. clerk' = clerk /\ attached' = attached
    BY DEF InsertUser
  <2>7. \A c \in Clerk : ClerkOK(clerk[c])'
    BY <2>1, <2>6, RequestsStable
  <2>8. AccountTypeOK'
    BY <2>1, <2>5, <2>6 DEF AccountInv, AccountTypeOK, Grows
  <2>9. QED
    BY <2>1, <2>5, <2>7, <2>8 DEF AccountInv
<1>4. QED
  BY <1>2, <1>3 DEF InsertUser

-----------------------------------------------------------------------------
(* Administrators                                                          *)

\* An administrator creates a user.
LEMMA CreateUserStep ==
    ASSUME AccountInv, NEW c \in Clerk, NEW email \in Email,
           NEW role \in Role, CreateUser(c, email, role)
    PROVE  AccountInv' /\ HashesStay
<1>1. PICK u \in Fresh :
          /\ Office!Insert(c, u, NewUser(email, "chosen", role))
          /\ granted' = [granted EXCEPT ![u] = {role}]
  BY DEF CreateUser
<1>2. /\ users' = [users EXCEPT ![u] = NewUser(email, "chosen", role)]
      /\ clerk' = clerk /\ visit' = visit /\ attached' = attached
  BY <1>1 DEF CreateUser, Office!Insert
<1>3. /\ Grows
      /\ users' \in [UserId -> UserRow \cup {None}]
      /\ \A x \in Office!Stored' : users'[x].role \in granted'[x]
      /\ OneUserPerEmail'
      /\ HashesStay
  <2>1. "chosen" \in Secret \cup {None} /\ ~Taken(email)
    BY DEF Secret, CreateUser
  <2>2. QED
    BY <1>1, <1>2, <2>1, NewUserStep
<1>4. /\ \A v \in Visitor : VisitOK(visit[v])'
      /\ \A x \in Clerk : ClerkOK(clerk[x])'
  BY <1>2, <1>3, RequestsStable
<1>5. AccountTypeOK'
  BY <1>2, <1>3 DEF AccountInv, AccountTypeOK, Grows
<1>6. QED
  BY <1>3, <1>4, <1>5 DEF AccountInv

\* A bulk import: one transaction.
LEMMA BulkCreateStep ==
    ASSUME AccountInv, NEW c \in Clerk, NEW email \in Email,
           NEW other \in Email, NEW role \in Role,
           BulkCreate(c, email, other, role)
    PROVE  AccountInv' /\ HashesStay
<1>1. PICK u \in Fresh, w \in Fresh :
          /\ u # w
          /\ users' = [users EXCEPT ![u] = NewUser(email, None, role),
                                    ![w] = NewUser(other, None, role)]
          /\ granted' = [granted EXCEPT ![u] = {role}, ![w] = {role}]
  BY DEF BulkCreate
<1>2. /\ u \in UserId /\ users[u] = None /\ granted[u] = {}
      /\ w \in UserId /\ users[w] = None /\ granted[w] = {}
  BY FreshKey
<1>3. /\ users \in [UserId -> UserRow \cup {None}]
      /\ granted \in [UserId -> SUBSET Role]
  BY DEF AccountInv, AccountTypeOK
<1>4. /\ email # other /\ visit' = visit /\ clerk' = clerk
      /\ attached' = attached
      /\ \A x \in Office!Stored :
            users[x].email # email /\ users[x].email # other
  BY DEF BulkCreate, Taken
<1>5. /\ users'[u] = NewUser(email, None, role)
      /\ users'[w] = NewUser(other, None, role)
      /\ \A x \in UserId \ {u, w} : users'[x] = users[x]
  BY <1>1, <1>2, <1>3
<1>6. /\ granted'[u] = {role} /\ granted'[w] = {role}
      /\ \A x \in UserId \ {u, w} : granted'[x] = granted[x]
      /\ granted' \in [UserId -> SUBSET Role]
  BY <1>1, <1>2, <1>3
<1>7. /\ users'[u] \in UserRow /\ users'[u].email = email
      /\ users'[u].role = role
      /\ users'[w] \in UserRow /\ users'[w].email = other
      /\ users'[w].role = role
  BY <1>5 DEF NewUser, UserRow
<1>8. Grows
  BY <1>2, <1>6 DEF Grows
<1>9. users' \in [UserId -> UserRow \cup {None}]
  BY <1>1, <1>2, <1>3, <1>5, <1>7
<1>10. \A x \in Office!Stored' :
          \/ x = u
          \/ x = w
          \/ x \in Office!Stored /\ x \in UserId \ {u, w}
                /\ users'[x] = users[x]
  BY <1>5 DEF Office!Stored
<1>11. \A x \in Office!Stored' : users'[x].role \in granted'[x]
  BY <1>6, <1>7, <1>10 DEF AccountInv
<1>12. OneUserPerEmail'
  <2> SUFFICES ASSUME NEW x \in Office!Stored', NEW y \in Office!Stored',
                      users'[x].email = users'[y].email
               PROVE  x = y
    BY DEF OneUserPerEmail
  <2>1. CASE x \in Office!Stored /\ users'[x] = users[x]
    BY <1>4, <1>7, <1>10, <2>1 DEF AccountInv, OneUserPerEmail
  <2>2. CASE x = u
    BY <1>4, <1>7, <1>10, <2>2
  <2>3. CASE x = w
    BY <1>4, <1>7, <1>10, <2>3
  <2>4. QED
    BY <1>10, <2>1, <2>2, <2>3
<1>13. HashesStay
  BY <1>2, <1>5 DEF HashesStay
<1>14. /\ \A v \in Visitor : VisitOK(visit[v])'
       /\ \A x \in Clerk : ClerkOK(clerk[x])'
  BY <1>4, <1>8, RequestsStable
<1>15. AccountTypeOK'
  BY <1>4, <1>6, <1>9 DEF AccountInv, AccountTypeOK
<1>16. QED
  BY <1>11, <1>12, <1>13, <1>14, <1>15 DEF AccountInv

\* A request that has loaded a user and will save an entity without a hash,
\* with a role that this user was given or is being given.
LEMMA TakeStep ==
    ASSUME AccountInv, Grows, NEW c \in Clerk, NEW u \in UserId,
           NEW e \in UserEntity, e.hash = "undefined", e.role \in granted'[u],
           Office!Take(c, u, e), visit' = visit, attached' = attached
    PROVE  AccountInv' /\ HashesStay
<1>1. PICK h : h = [Office!Idle EXCEPT !.pc = "reload", !.key = u,
                                       !.entity = e]
  OBVIOUS
<1>2. /\ h \in Office!Handler(UserEntity, UserColumn)
      /\ h.pc = "reload" /\ h.key = u /\ h.entity = e /\ h.cols = {}
  BY <1>1 DEF Office!Idle, Office!Handler
<1>3. ClerkOK(h)'
  BY <1>2 DEF ClerkOK
<1>4. clerk' = [clerk EXCEPT ![c] = h] /\ users' = users
  BY <1>1 DEF Office!Take
<1>5. QED
  BY <1>2, <1>3, <1>4, ClerkStep

\* PUT of a user starts: the body may hold a role.
LEMMA SetRoleStep ==
    ASSUME AccountInv, NEW c \in Clerk, NEW u \in Office!Stored,
           NEW role \in Role, SetRole(c, u, role)
    PROVE  AccountInv' /\ HashesStay
<1> DEFINE l == Office!Loaded(u)
           e == [l EXCEPT !.role = role]
<1>1. u \in UserId /\ l \in UserEntity /\ l.hash = "undefined"
  BY LoadedEntity, StoredRow
<1>2. e \in UserEntity /\ e.hash = "undefined" /\ e.role = role
  <2> HIDE DEF l
  <2>1. QED
    BY <1>1 DEF UserEntity
<1>3. /\ Office!Take(c, u, e) /\ visit' = visit /\ attached' = attached
      /\ granted' = [granted EXCEPT ![u] = @ \cup {role}]
  BY DEF SetRole
<1>4. granted \in [UserId -> SUBSET Role]
  BY DEF AccountInv, AccountTypeOK
<1>5. Grows /\ role \in granted'[u]
  BY <1>1, <1>3, <1>4 DEF Grows
<1>6. PICK x \in UserEntity : x = e
  BY <1>2
<1>7. QED
  BY <1>1, <1>2, <1>3, <1>5, <1>6, TakeStep

\* The requests that change no role.
LEMMA EditStep ==
    ASSUME AccountInv, NEW c \in Clerk, NEW u \in Office!Stored,
           \/ \E email \in Email : SetEmail(c, u, email)
           \/ \E active \in BOOLEAN : SetActive(c, u, active)
           \/ UpdateProfile(c, u)
    PROVE  AccountInv' /\ HashesStay
<1> DEFINE l == Office!Loaded(u)
<1>1. /\ u \in UserId /\ l \in UserEntity /\ l.hash = "undefined"
      /\ l.role \in granted[u]
  BY LoadedEntity, StoredRow
<1>2. /\ \E e \in UserEntity : /\ Office!Take(c, u, e)
                               /\ e.hash = l.hash /\ e.role = l.role
      /\ visit' = visit /\ attached' = attached /\ granted' = granted
  <2>1. ASSUME NEW email \in Email, SetEmail(c, u, email)
        PROVE  <1>2
    <3>1. PICK x : x = l
      OBVIOUS
    <3>2. LET e == [x EXCEPT !.email = email]
          IN  e \in UserEntity /\ e.hash = x.hash /\ e.role = x.role
      BY <1>1, <3>1 DEF UserEntity
    <3>3. QED
      BY <2>1, <3>1, <3>2 DEF SetEmail
  <2>2. ASSUME NEW active \in BOOLEAN, SetActive(c, u, active)
        PROVE  <1>2
    <3>1. PICK x : x = l
      OBVIOUS
    <3>2. LET e == [x EXCEPT !.active = active]
          IN  e \in UserEntity /\ e.hash = x.hash /\ e.role = x.role
      BY <1>1, <3>1 DEF UserEntity
    <3>3. QED
      BY <2>2, <3>1, <3>2 DEF SetActive
  <2>3. CASE UpdateProfile(c, u)
    BY <1>1, <2>3 DEF UpdateProfile
  <2>4. QED
    BY <2>1, <2>2, <2>3
<1>3. Grows
  BY <1>2 DEF Grows, AccountInv, AccountTypeOK
<1>4. PICK e \in UserEntity : /\ Office!Take(c, u, e)
                              /\ e.hash = "undefined"
                              /\ e.role \in granted'[u]
  BY <1>1, <1>2
<1>5. QED
  BY <1>1, <1>2, <1>3, <1>4, TakeStep

\* DELETE of a user starts.
LEMMA RemoveUserStep ==
    ASSUME AccountInv, NEW c \in Clerk, NEW u \in Office!Stored,
           RemoveUser(c, u)
    PROVE  AccountInv' /\ HashesStay
<1>1. PICK h : h = [Office!Idle EXCEPT !.pc = "delete", !.key = u]
  OBVIOUS
<1>2. u \in UserId
  BY DEF Office!Stored
<1>3. /\ h \in Office!Handler(UserEntity, UserColumn) /\ ClerkOK(h)'
  BY <1>1, <1>2 DEF Office!Idle, Office!Handler, ClerkOK
<1>4. /\ clerk' = [clerk EXCEPT ![c] = h] /\ users' = users
      /\ visit' = visit /\ attached' = attached /\ granted' = granted
  BY <1>1 DEF RemoveUser, Office!TakeOut
<1>5. Grows
  BY <1>4 DEF Grows, AccountInv, AccountTypeOK
<1>6. QED
  BY <1>3, <1>4, <1>5, ClerkStep

\* The first round trip of a save.
LEMMA ReloadUserStep ==
    ASSUME AccountInv, NEW c \in Clerk, ReloadUser(c)
    PROVE  AccountInv' /\ HashesStay
<1> DEFINE old == clerk[c]
           k == old.key
<1>1. /\ old \in Office!Handler(UserEntity, UserColumn)
      /\ old.pc = "reload" /\ k \in UserId /\ old.entity \in UserEntity
      /\ old.entity.hash = "undefined" /\ old.entity.role \in granted[k]
      /\ "hash" \notin old.cols
  BY DEF AccountInv, AccountTypeOK, ClerkOK, ReloadUser, Office!Reload
<1>2. clerk \in [Clerk -> Office!Handler(UserEntity, UserColumn)]
  BY DEF AccountInv, AccountTypeOK
<1>3. /\ users' = users /\ visit' = visit /\ attached' = attached
      /\ granted' = granted
  BY DEF ReloadUser, Office!Reload
<1>4. Grows
  BY <1>3 DEF Grows, AccountInv, AccountTypeOK
<1>5. PICK e : e = old.entity
  OBVIOUS
<1>6. CASE users[k] # None
  <2> DEFINE cols == Changed(users[k], e) \ Office!Undefined(e)
  <2>1. users[k] \in UserRow
    BY <1>1, <1>6 DEF AccountInv, AccountTypeOK
  <2>2. cols \subseteq UserColumn /\ "hash" \notin cols
    BY <1>1, <1>5, <2>1 DEF Changed, UserRow, UserColumn, Office!Undefined,
                            HiddenColumn
  <2>3. PICK h : h = [old EXCEPT !.pc = "write", !.cols = cols]
    OBVIOUS
  <2>4. clerk' = [clerk EXCEPT ![c] = h]
    <3>1. clerk' = [clerk EXCEPT ![c].pc = "write", ![c].cols = cols]
      BY <1>5, <1>6 DEF ReloadUser, Office!Reload, Office!Undefined,
                        Office!Changed, Changed
    <3>2. QED
      BY <1>1, <1>2, <2>3, <3>1
  <2>5. /\ h \in Office!Handler(UserEntity, UserColumn)
        /\ h.pc = "write" /\ h.key = k /\ h.entity = e /\ h.cols = cols
    BY <1>1, <1>5, <2>2, <2>3 DEF Office!Handler
  <2>6. ClerkOK(h)'
    BY <1>1, <1>3, <1>5, <2>2, <2>5 DEF ClerkOK
  <2>7. QED
    BY <1>3, <1>4, <2>4, <2>5, <2>6, ClerkStep
<1>7. CASE users[k] = None
  <2>1. PICK h : h = [old EXCEPT !.pc = "insert"]
    OBVIOUS
  <2>2. clerk' = [clerk EXCEPT ![c] = h]
    BY <1>1, <1>2, <1>7, <2>1 DEF ReloadUser, Office!Reload
  <2>3. /\ h \in Office!Handler(UserEntity, UserColumn)
        /\ h.pc = "insert" /\ h.key = k /\ h.entity = e
        /\ h.cols = old.cols
    BY <1>1, <1>5, <2>1 DEF Office!Handler
  <2>4. ClerkOK(h)'
    BY <1>1, <1>3, <1>5, <2>3 DEF ClerkOK
  <2>5. QED
    BY <1>3, <1>4, <2>2, <2>3, <2>4, ClerkStep
<1>8. QED
  BY <1>6, <1>7

\* The second round trip of a save.
LEMMA WriteUserStep ==
    ASSUME AccountInv, NEW c \in Clerk, WriteUser(c)
    PROVE  AccountInv' /\ HashesStay
<1> DEFINE h == clerk[c]
           k == h.key
<1>1. /\ h.pc \in {"write", "insert"} /\ k \in UserId
      /\ h.entity \in UserEntity /\ h.entity.hash = "undefined"
      /\ h.entity.role \in granted[k] /\ "hash" \notin h.cols
  BY DEF AccountInv, AccountTypeOK, ClerkOK, WriteUser, Office!Write
<1>2. /\ users \in [UserId -> UserRow \cup {None}]
      /\ \A u \in UserId : users[u] # None => users[u].role \in granted[u]
  BY DEF AccountInv, AccountTypeOK, Office!Stored
<1> PICK new : new = Office!Saved(h, users[k])
  OBVIOUS
<1>3. /\ users' = [users EXCEPT ![k] = new]
      /\ clerk' = [clerk EXCEPT ![c] = Office!Idle]
      /\ visit' = visit /\ attached' = attached /\ granted' = granted
  BY DEF WriteUser, Office!Write
<1>4. \/ new = users[k]
      \/ /\ new \in UserRow
         /\ new.role \in granted[k]
         /\ users[k] # None => new.hash = users[k].hash
  <2>1. CASE h.pc = "write" /\ users[k] # None
    <3>1. new = Patch(users[k], h.entity, h.cols) /\ users[k] \in UserRow
      BY <1>1, <1>2, <2>1 DEF Office!Saved, Office!Patch, Patch
    <3>2. QED
      BY <1>1, <1>2, <2>1, <3>1, PatchUser
  <2>2. CASE h.pc = "insert" /\ users[k] = None
    <3>1. DOMAIN h.entity = UserColumn
      BY <1>1 DEF UserEntity, UserColumn
    <3>2. PICK e : e = h.entity
      OBVIOUS
    <3>3. new = [x \in DOMAIN e |-> IF x \in Office!Undefined(e) THEN None
                                    ELSE e[x]]
      BY <2>2, <3>2 DEF Office!Saved, Office!Undefined
    <3>4. Office!Undefined(e) = {"hash"}
      BY <1>1, <3>2 DEF Office!Undefined, HiddenColumn
    <3>5. new = [email |-> e.email, hash |-> None, role |-> e.role,
                 active |-> e.active]
      BY <3>1, <3>2, <3>3, <3>4 DEF UserColumn
    <3>6. QED
      BY <1>1, <2>2, <3>2, <3>5 DEF UserEntity, UserRow
  <2>3. CASE ~(h.pc = "write" /\ users[k] # None)
               /\ ~(h.pc = "insert" /\ users[k] = None)
    BY <2>3 DEF Office!Saved
  <2>4. QED
    BY <2>1, <2>2, <2>3
<1>5. /\ users' \in [UserId -> UserRow \cup {None}]
      /\ \A u \in UserId : users'[u] # None => users'[u].role \in granted'[u]
      /\ HashesStay
  <2>0. /\ k \in UserId /\ new \in UserRow \cup {None}
        /\ new # None => new.role \in granted[k]
        /\ new # None /\ users[k] # None => new.hash = users[k].hash
    BY <1>1, <1>2, <1>4
  <2>1. users' \in [UserId -> UserRow \cup {None}]
    BY <1>2, <1>3, <2>0
  <2>2. ASSUME NEW u \in UserId, users'[u] # None
        PROVE  /\ users'[u].role \in granted'[u]
               /\ users[u] # None => users'[u].hash = users[u].hash
    <3>1. CASE u = k
      <4>1. users'[u] = new
        BY <1>2, <1>3, <2>0, <3>1
      <4>2. QED
        BY <1>3, <2>0, <2>2, <3>1, <4>1
    <3>2. CASE u # k
      BY <1>2, <1>3, <2>0, <2>2, <3>2
    <3>3. QED
      BY <3>1, <3>2
  <2>3. QED
    BY <2>1, <2>2 DEF HashesStay
<1>6. OneUserPerEmail'
  BY DEF WriteUser, OneUserPerEmail, Office!Stored
<1>7. Grows
  BY <1>3 DEF Grows, AccountInv, AccountTypeOK
<1>8. /\ clerk' \in [Clerk -> Office!Handler(UserEntity, UserColumn)]
      /\ \A x \in Clerk : ClerkOK(clerk[x])'
  BY <1>3, <1>7, IdleClerk, ClerkMoves
<1>9. \A v \in Visitor : VisitOK(visit[v])'
  BY <1>3, <1>7, RequestsStable
<1>10. AccountTypeOK'
  BY <1>3, <1>5, <1>8 DEF AccountInv, AccountTypeOK
<1>11. QED
  BY <1>5, <1>6, <1>8, <1>9, <1>10 DEF AccountInv, Office!Stored

\* The DELETE of a user.
LEMMA DeleteUserStep ==
    ASSUME AccountInv, NEW c \in Clerk, DeleteUser(c)
    PROVE  AccountInv' /\ HashesStay
<1>1. /\ users' = users \/ users' = [users EXCEPT ![clerk[c].key] = None]
      /\ clerk' = [clerk EXCEPT ![c] = Office!Idle]
      /\ visit' = visit /\ attached' = attached /\ granted' = granted
  BY DEF DeleteUser, Office!Delete
<1>2. users \in [UserId -> UserRow \cup {None}]
  BY DEF AccountInv, AccountTypeOK
<1>3. /\ users' \in [UserId -> UserRow \cup {None}]
      /\ \A u \in UserId : users'[u] \in {users[u], None}
  BY <1>1, <1>2
<1>4. /\ OneUserPerEmail' /\ HashesStay
      /\ \A u \in Office!Stored' : users'[u].role \in granted'[u]
  BY <1>1, <1>3 DEF AccountInv, OneUserPerEmail, HashesStay, Office!Stored
<1>5. Grows
  BY <1>1 DEF Grows, AccountInv, AccountTypeOK
<1>6. /\ clerk' \in [Clerk -> Office!Handler(UserEntity, UserColumn)]
      /\ \A x \in Clerk : ClerkOK(clerk[x])'
  BY <1>1, <1>5, IdleClerk, ClerkMoves
<1>7. \A v \in Visitor : VisitOK(visit[v])'
  BY <1>1, <1>5, RequestsStable
<1>8. AccountTypeOK'
  BY <1>1, <1>3, <1>6 DEF AccountInv, AccountTypeOK
<1>9. QED
  BY <1>4, <1>6, <1>7, <1>8 DEF AccountInv

\* An administrator's request is cut short.
LEMMA ClerkFailsStep ==
    ASSUME AccountInv, NEW c \in Clerk, ClerkFails(c)
    PROVE  AccountInv' /\ HashesStay
<1>1. Grows
  BY DEF ClerkFails, Grows, AccountInv, AccountTypeOK
<1>2. QED
  BY <1>1, IdleClerk, ClerkStep DEF ClerkFails

-----------------------------------------------------------------------------
\* The invariant holds at the start.
LEMMA AccountsStart == AccountInit => AccountInv
<1> SUFFICES ASSUME AccountInit
             PROVE  AccountInv
  OBVIOUS
<1>1. Office!Stored = {}
  BY DEF AccountInit, Office!Stored
<1>2. /\ \A v \in Visitor : VisitOK(visit[v])
      /\ visit \in [Visitor -> VisitHandler]
  BY DEF AccountInit, NoVisit, VisitHandler, VisitOK
<1>3. /\ \A c \in Clerk : ClerkOK(clerk[c])
      /\ clerk \in [Clerk -> Office!Handler(UserEntity, UserColumn)]
  BY DEF AccountInit, Office!Idle, Office!Handler, ClerkOK
<1>4. AccountTypeOK
  BY <1>2, <1>3 DEF AccountInit, AccountTypeOK
<1>5. QED
  BY <1>1, <1>2, <1>3, <1>4 DEF AccountInv, OneUserPerEmail

\* Every step keeps the invariant.
LEMMA AccountsStep ==
    AccountInv /\ [AccountNext]_accountVars => AccountInv' /\ HashesStay
<1> SUFFICES ASSUME AccountInv, [AccountNext]_accountVars
             PROVE  AccountInv' /\ HashesStay
  OBVIOUS
<1>1. ASSUME NEW v \in Visitor, Visits(v)
      PROVE  AccountInv' /\ HashesStay
  <2>1. CASE \E email \in Email :
                Guest(v, email) \/ \E role \in Role : Register(v, email, role)
    BY <2>1, GuestStep, RegisterStep
  <2>2. CASE \E u \in Office!Stored : Login(v, u) \/ Refresh(v, u)
    BY <2>2, SigningStep
  <2>3. CASE LookUpAgain(v)
    BY <2>3, LookUpAgainStep
  <2>4. CASE InsertUser(v)
    BY <2>4, InsertUserStep
  <2>5. CASE Sign(v) \/ Attach(v) \/ VisitFails(v)
    BY <2>5, VisitEnds
  <2>6. QED
    BY <1>1, <2>1, <2>2, <2>3, <2>4, <2>5 DEF Visits
<1>2. ASSUME NEW c \in Clerk, Administers(c)
      PROVE  AccountInv' /\ HashesStay
  <2>1. CASE \E email, other \in Email, role \in Role :
                CreateUser(c, email, role) \/ BulkCreate(c, email, other, role)
    BY <2>1, CreateUserStep, BulkCreateStep
  <2>2. ASSUME NEW u \in Office!Stored,
               \/ \E role \in Role : SetRole(c, u, role)
               \/ \E email \in Email : SetEmail(c, u, email)
               \/ \E active \in BOOLEAN : SetActive(c, u, active)
               \/ UpdateProfile(c, u) \/ RemoveUser(c, u)
        PROVE  AccountInv' /\ HashesStay
    BY <2>2, SetRoleStep, EditStep, RemoveUserStep
  <2>3. CASE ReloadUser(c)
    BY <2>3, ReloadUserStep
  <2>4. CASE WriteUser(c)
    BY <2>4, WriteUserStep
  <2>5. CASE DeleteUser(c)
    BY <2>5, DeleteUserStep
  <2>6. CASE ClerkFails(c)
    BY <2>6, ClerkFailsStep
  <2>7. QED
    BY <1>2, <2>1, <2>2, <2>3, <2>4, <2>5, <2>6 DEF Administers
<1>3. CASE UNCHANGED accountVars
  <2>1. users' = users /\ visit' = visit /\ clerk' = clerk
            /\ granted' = granted /\ attached' = attached
    BY <1>3 DEF accountVars
  <2>2. Grows
    BY <2>1 DEF Grows, AccountInv, AccountTypeOK
  <2>3. /\ \A v \in Visitor : VisitOK(visit[v])'
        /\ \A x \in Clerk : ClerkOK(clerk[x])'
    BY <2>1, <2>2, RequestsStable
  <2>4. QED
    BY <2>1, <2>3 DEF AccountInv, AccountTypeOK, OneUserPerEmail,
                      Office!Stored, HashesStay
<1>4. QED
  BY <1>1, <1>2, <1>3 DEF AccountNext

\* Whatever requests overlap, rows, entities and tokens carry only roles that
\* were granted, and no entity in memory knows a hash.
THEOREM AccountInvariance == AccountSpec => []AccountInv
<1>1. AccountInv /\ [AccountNext]_accountVars => AccountInv'
  BY AccountsStep
<1>2. QED
  BY <1>1, AccountsStart, PTL DEF AccountSpec

\* The tables and requests of user-service keep their types.
THEOREM AccountsTypeCorrect == AccountSpec => []AccountTypeOK
<1>1. AccountInv => AccountTypeOK
  BY DEF AccountInv
<1>2. QED
  BY <1>1, AccountInvariance, PTL

\* However sign-ups, guests, imports and changes of address overlap, an email
\* has one account (the unique index of users).
THEOREM EmailsAreUnique == AccountSpec => []OneUserPerEmail
<1>1. AccountInv => OneUserPerEmail
  BY DEF AccountInv
<1>2. QED
  BY <1>1, AccountInvariance, PTL

\* No stale save and no late signature gives anybody a role that no request
\* has given to that user (update, login and refreshToken).
THEOREM RolesAreGranted == AccountSpec => []RoleWasGranted
<1>1. AccountInv => RoleWasGranted
  BY DEF AccountInv, RoleWasGranted, VisitOK
<1>2. QED
  BY <1>1, AccountInvariance, PTL

\* No save of an administrator or of a profile changes or clears a password
\* (passwordHash is select: false, so the saved entity does not have it).
THEOREM PasswordsStay == AccountSpec => PasswordKept
<1>1. AccountInv /\ [AccountNext]_accountVars
          => [\A u \in UserId :
                users[u] # None /\ users'[u] # None
                    => users'[u].hash = users[u].hash]_accountVars
  BY AccountsStep DEF HashesStay
<1>2. QED
  BY <1>1, AccountInvariance, PTL DEF AccountSpec, PasswordKept

=============================================================================
