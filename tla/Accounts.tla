------------------------------ MODULE Accounts ------------------------------
(***************************************************************************)
(* The users table and who writes it: user-service (sign-up, guests,       *)
(* administration) and networking-service (profiles).  Tokens are signed   *)
(* from a user that was loaded a moment before.                            *)
(*                                                                         *)
(* A sign-up, a guest's or a login's request runs in a slot v of Visitor;  *)
(* an administrator's or a profile's, which ends in save or remove, in a   *)
(* slot c of Clerk.  A request that is refused leaves the state alone.     *)
(***************************************************************************)
EXTENDS Integers, FiniteSets, TypeOrm

CONSTANTS
    UserId,     \* primary keys of users
    Email,
    Role,       \* the roles that requests ask for
    Participant,    \* the role of guests
    Visitor,    \* slots for sign-ups and logins in progress
    Clerk       \* slots for administration in progress

ASSUME AccountsAssumption ==
    /\ Participant \in Role
    /\ None \notin UserId
    /\ None \notin Role

VARIABLES
    users,      \* [UserId -> row or None]: the users table
    visit,      \* [Visitor -> handler]
    clerk,      \* [Clerk -> handler]
    granted,    \* history: [UserId -> the roles a request gave this user]
    attached    \* the users some registration refers to

accountVars == <<users, visit, clerk, granted, attached>>

\* The password a user chose, or the random one of a guest.
Secret == {"chosen", "random"}

UserRow == [email: Email, hash: Secret \cup {None}, role: Role,
            active: BOOLEAN]

UserColumn == {"email", "hash", "role", "active"}

VisitHandler ==
    [pc: {"idle", "lookup", "insert", "sign", "attach"},
     kind: {"none", "register", "guest"},
     email: Email \cup {None},
     role: Role \cup {None},
     user: UserId \cup {None}]

\* passwordHash is select: false, so a loaded entity does not have it.
HiddenColumn == {"hash"}

UserEntity == [email: Email, hash: Secret \cup {None, "undefined"},
               role: Role, active: BOOLEAN]

ASSUME UserEntityAssumption == None \notin UserEntity

Office == INSTANCE SavedRows WITH Key <- UserId, Hidden <- HiddenColumn,
                                  rows <- users, request <- clerk

AccountTypeOK ==
    /\ users \in [UserId -> UserRow \cup {None}]
    /\ visit \in [Visitor -> VisitHandler]
    /\ clerk \in [Clerk -> Office!Handler(UserEntity, UserColumn)]
    /\ granted \in [UserId -> SUBSET Role]
    /\ attached \subseteq UserId

-----------------------------------------------------------------------------
NoVisit == [pc |-> "idle", kind |-> "none", email |-> None, role |-> None,
            user |-> None]

AccountInit ==
    /\ users = [u \in UserId |-> None]
    /\ visit = [v \in Visitor |-> NoVisit]
    /\ clerk = [c \in Clerk |-> Office!Idle]
    /\ granted = [u \in UserId |-> {}]
    /\ attached = {}

\* Mutant of Taken: the unique index is missing.
TakenNever(email) == FALSE

\* The unique index on email.
Taken(email) == \E u \in Office!Stored : users[u].email = email

\* findByEmail: the lookups that precede an insert.
Known(email) == {u \in Office!Stored : users[u].email = email}

\* The keys the sequence has not handed out yet.
Fresh == {u \in UserId : granted[u] = {}}

NewUser(email, hash, role) ==
    [email |-> email, hash |-> hash, role |-> role, active |-> TRUE]

Visiting(v, handler) == visit' = [visit EXCEPT ![v] = handler]

-----------------------------------------------------------------------------
\* POST /auth/register: the lookup of create; hashing and insert follow.
Register(v, email, role) ==
    /\ visit[v] = NoVisit
    /\ Known(email) = {}
    /\ Visiting(v, [NoVisit EXCEPT !.pc = "insert", !.kind = "register",
                                   !.email = email, !.role = role])
    /\ UNCHANGED <<users, clerk, granted, attached>>

\* POST /auth/guest, from the public page: a known email is attached at once,
\* whoever owns it; for a new one create looks it up a second time.
Guest(v, email) ==
    /\ visit[v] = NoVisit
    /\ \/ /\ Known(email) = {}
          /\ Visiting(v, [NoVisit EXCEPT !.pc = "lookup", !.kind = "guest",
                              !.email = email, !.role = Participant])
       \/ \E u \in Known(email) :
             Visiting(v, [NoVisit EXCEPT !.pc = "attach", !.kind = "guest",
                              !.user = u])
    /\ UNCHANGED <<users, clerk, granted, attached>>

\* The second lookup: of two first sign-ups of one guest, the slower one is
\* answered "Email already registered".
LookUpAgain(v) ==
    /\ visit[v].pc = "lookup"
    /\ Visiting(v, IF Known(visit[v].email) = {}
                   THEN [visit[v] EXCEPT !.pc = "insert"] ELSE NoVisit)
    /\ UNCHANGED <<users, clerk, granted, attached>>

\* The INSERT, which the unique index may refuse.
InsertUser(v) ==
    /\ visit[v].pc = "insert"
    /\ LET asked == visit[v]
           guest == asked.kind = "guest"
       IN \/ /\ Taken(asked.email)
             /\ Visiting(v, NoVisit)
             /\ UNCHANGED <<users, granted>>
          \/ \E u \in Fresh :
                /\ ~Taken(asked.email)
                /\ users' = [users EXCEPT ![u] = NewUser(asked.email,
                       IF guest THEN "random" ELSE "chosen", asked.role)]
                /\ granted' = [granted EXCEPT ![u] = {asked.role}]
                /\ Visiting(v, [asked EXCEPT
                       !.pc = IF guest THEN "attach" ELSE "sign", !.user = u])
    /\ UNCHANGED <<clerk, attached>>

\* POST /auth/login with the right password: the checks are made on the user
\* as loaded; comparing hashes and signing take time.
Login(v, u) ==
    /\ visit[v] = NoVisit
    /\ users[u].active
    /\ users[u].hash = "chosen"
    /\ Visiting(v, [NoVisit EXCEPT !.pc = "sign", !.user = u,
                                   !.role = users[u].role])
    /\ UNCHANGED <<users, clerk, granted, attached>>

\* Mutant of Refresh: signs the role that the caller's old token names.
RefreshClaimed(v, u) ==
    /\ visit[v] = NoVisit
    /\ \E role \in Role :
          Visiting(v, [NoVisit EXCEPT !.pc = "sign", !.user = u,
                                      !.role = role])
    /\ UNCHANGED <<users, clerk, granted, attached>>

\* POST /auth/refresh/:id asks for no password and no active account.
Refresh(v, u) ==
    /\ visit[v] = NoVisit
    /\ Visiting(v, [NoVisit EXCEPT !.pc = "sign", !.user = u,
                                   !.role = users[u].role])
    /\ UNCHANGED <<users, clerk, granted, attached>>

\* generateTokens signs what the handler holds, and the request is over.
Sign(v) ==
    /\ visit[v].pc = "sign"
    /\ Visiting(v, NoVisit)
    /\ UNCHANGED <<users, clerk, granted, attached>>

\* The second call of the public page: a registration for the guest, which
\* the foreign key on users refuses once the account is gone.
Attach(v) ==
    /\ visit[v].pc = "attach"
    /\ attached' = attached \cup ({visit[v].user} \cap Office!Stored)
    /\ Visiting(v, NoVisit)
    /\ UNCHANGED <<users, clerk, granted>>

\* A call that rejects, or a visitor who closes the page between the calls.
VisitFails(v) ==
    /\ visit[v] # NoVisit
    /\ Visiting(v, NoVisit)
    /\ UNCHANGED <<users, clerk, granted, attached>>

-----------------------------------------------------------------------------
\* POST /users.
CreateUser(c, email, role) ==
    /\ ~Taken(email)
    /\ \E u \in Fresh :
          /\ Office!Insert(c, u, NewUser(email, "chosen", role))
          /\ granted' = [granted EXCEPT ![u] = {role}]
    /\ UNCHANGED <<visit, attached>>

\* POST /users/bulk: one transaction, no lookup, and the passwords of the
\* body have no column to go to.
BulkCreate(c, email, other, role) ==
    /\ clerk[c] = Office!Idle
    /\ email # other
    /\ ~Taken(email) /\ ~Taken(other)
    /\ \E u, w \in Fresh :
          /\ u # w
          /\ users' = [users EXCEPT ![u] = NewUser(email, None, role),
                                    ![w] = NewUser(other, None, role)]
          /\ granted' = [granted EXCEPT ![u] = {role}, ![w] = {role}]
    /\ UNCHANGED <<visit, clerk, attached>>

\* PUT /users/:id: the body may hold a role or another email.
SetRole(c, u, role) ==
    /\ Office!Take(c, u, [Office!Loaded(u) EXCEPT !.role = role])
    /\ granted' = [granted EXCEPT ![u] = @ \cup {role}]
    /\ UNCHANGED <<visit, attached>>

SetEmail(c, u, email) ==
    /\ Office!Take(c, u, [Office!Loaded(u) EXCEPT !.email = email])
    /\ UNCHANGED <<visit, granted, attached>>

\* Mutant of SetActive: the hash is scrubbed from the entity too early.
SetActiveScrubbing(c, u, active) ==
    /\ Office!Take(c, u, [Office!Loaded(u) EXCEPT !.active = active,
                                                 !.hash = None])
    /\ UNCHANGED <<visit, granted, attached>>

\* PATCH /users/:id/status.
SetActive(c, u, active) ==
    /\ Office!Take(c, u, [Office!Loaded(u) EXCEPT !.active = active])
    /\ UNCHANGED <<visit, granted, attached>>

\* PUT /networking/profiles/:id: the pipe strips every field of the body, as
\* the DTO has no decorators, but the loaded user is saved all the same.
UpdateProfile(c, u) ==
    /\ Office!Take(c, u, Office!Loaded(u))
    /\ UNCHANGED <<visit, granted, attached>>

RemoveUser(c, u) ==
    /\ Office!TakeOut(c, u)
    /\ UNCHANGED <<visit, granted, attached>>

ReloadUser(c) ==
    Office!Reload(c) /\ UNCHANGED <<visit, granted, attached>>

\* The unique index refuses an UPDATE or INSERT with somebody else's email.
WriteUser(c) ==
    /\ Office!Write(c)
    /\ \A u, w \in UserId :
          (u # w /\ users'[u] # None /\ users'[w] # None)
              => users'[u].email # users'[w].email
    /\ UNCHANGED <<visit, granted, attached>>

DeleteUser(c) ==
    /\ Office!Delete(c, clerk[c].key \in attached)
    /\ UNCHANGED <<visit, granted, attached>>

ClerkFails(c) ==
    /\ clerk[c] # Office!Idle
    /\ clerk' = [clerk EXCEPT ![c] = Office!Idle]
    /\ UNCHANGED <<users, visit, granted, attached>>

-----------------------------------------------------------------------------
Visits(v) ==
    \/ \E email \in Email :
          Guest(v, email) \/ \E role \in Role : Register(v, email, role)
    \/ \E u \in Office!Stored : Login(v, u) \/ Refresh(v, u)
    \/ LookUpAgain(v) \/ InsertUser(v) \/ Sign(v) \/ Attach(v)
    \/ VisitFails(v)

Administers(c) ==
    \/ \E email, other \in Email, role \in Role :
          CreateUser(c, email, role) \/ BulkCreate(c, email, other, role)
    \/ \E u \in Office!Stored :
          \/ \E role \in Role : SetRole(c, u, role)
          \/ \E email \in Email : SetEmail(c, u, email)
          \/ \E active \in BOOLEAN : SetActive(c, u, active)
          \/ UpdateProfile(c, u) \/ RemoveUser(c, u)
    \/ ReloadUser(c) \/ WriteUser(c) \/ DeleteUser(c)
    \/ ClerkFails(c)

AccountNext ==
    \/ \E v \in Visitor : Visits(v)
    \/ \E c \in Clerk : Administers(c)

AccountSpec == AccountInit /\ [][AccountNext]_accountVars

-----------------------------------------------------------------------------
(* Properties                                                              *)

\* However sign-ups, guests, bulk imports and changes of address overlap,
\* nobody gets a second account under one email.
OneUserPerEmail ==
    \A u, w \in Office!Stored : users[u].email = users[w].email => u = w

\* Saves of stale users bring old roles back, and logins sign the role of a
\* user loaded earlier; but no row and no token ever carries a role that no
\* request has given to that very user.
RoleWasGranted ==
    /\ \A u \in Office!Stored : users[u].role \in granted[u]
    /\ \A v \in Visitor :
          visit[v].pc = "sign" => visit[v].role \in granted[visit[v].user]

\* The hash stays out of every entity: none of the saves, by administrators
\* or by profiles, changes or clears a password.
PasswordKept ==
    [][\A u \in UserId :
          users[u] # None /\ users'[u] # None
              => users'[u].hash = users[u].hash]_accountVars

=============================================================================
