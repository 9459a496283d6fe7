---------------------------- MODULE AuthSessions ----------------------------
(***************************************************************************)
(* The email/password half of services/auth: sign-up, sign-in, refresh,    *)
(* sign-out and account deletion, served concurrently.  A request is one   *)
(* goroutine; between two of its SQL statements any other request, an      *)
(* expiry, a ban or a crash of the service may happen.  HTTP and gRPC       *)
(* handlers call the same methods, so one request stands for both.          *)
(***************************************************************************)
EXTENDS AuthStore

CONSTANTS
    Requests,         \* handler goroutines that may run at the same time
    StrongPasswords,  \* passwords of at least eight characters
    MaxFaults         \* bound: database errors, lost replies and crashes

ASSUME SessionsAssumption ==
    /\ StrongPasswords \subseteq Passwords
    /\ MaxFaults \in Nat

VARIABLES
    req,          \* req[r]: what goroutine r is doing
    refreshHeld,  \* refresh tokens clients received
    faults        \* faults so far

storeVars == <<users, sessions>>
vars == <<users, sessions, req, refreshHeld, faults>>

Statements == {"CreateUser", "GetUserByEmail", "GetSession", "RevokeSession",
               "GetUserByID", "CreateSession", "DeleteUser"}

Ops == {"SignUp", "SignIn", "RefreshToken", "SignOut", "DeleteUser"}

Replies == {"none", "pair", "done", "invalid", "unauthorized", "banned",
            "conflict", "internal"}

Request == [op : Ops \cup {"none"},
            pc : Statements \cup {"idle", "replied"},
            email : Emails \cup {NoEmail},
            password : Passwords \cup {NoPassword},
            user : UserIds \cup {NoUser},           \* the user row it read or wrote
            session : SessionIds \cup {NoSession},  \* the session it was given
            grant : SessionIds \cup {NoSession},    \* the session it inserted
            reply : Replies,
            stale : BOOLEAN,           \* history: session was not active at the start
            barred : SUBSET UserIds]   \* history: users banned or gone at the start

Idle == [op |-> "none", pc |-> "idle", email |-> NoEmail, password |-> NoPassword,
         user |-> NoUser, session |-> NoSession, grant |-> NoSession,
         reply |-> "none", stale |-> FALSE, barred |-> {}]

TypeOK ==
    /\ StoreTypeOK
    /\ req \in [Requests -> Request]
    /\ refreshHeld \subseteq SessionIds
    /\ faults \in 0..MaxFaults

Init ==
    /\ StoreInit
    /\ req = [r \in Requests |-> Idle]
    /\ refreshHeld = {}
    /\ faults = 0

-----------------------------------------------------------------------------
(* How a request moves: to its next statement, or to its reply.             *)

At(r, statement) == req[r].pc = statement

Goto(r, statement, u) == req' = [req EXCEPT ![r].pc = statement, ![r].user = u]

\* An answer without a token pair: what the goroutine had read is forgotten.
Reply(r, answer) ==
    req' = [req EXCEPT ![r] = [Idle EXCEPT !.op = req[r].op, !.session = req[r].session,
                                           !.pc = "replied", !.reply = answer]]

ReplyPair(r, s) ==
    req' = [req EXCEPT ![r] = [req[r] EXCEPT !.pc = "replied", !.reply = "pair", !.grant = s]]

NoFault == UNCHANGED faults

\* A fault, within the bound.
Fault ==
    /\ faults < MaxFaults
    /\ faults' = faults + 1

Barred == {u \in UserIds : BarredUser(u)}

\* The bound on a behaviour: identifiers are never reused, so a request that
\* may insert a row starts only while one is left for it.
UserIdLeft ==
    Cardinality({u \in UserIds : users[u].status = "free"})
      > Cardinality({r \in Requests : At(r, "CreateUser")})

SessionIdLeft ==
    Cardinality({s \in SessionIds : sessions[s].status = "free"})
      > Cardinality({r \in Requests : req[r].op \in {"SignUp", "SignIn", "RefreshToken"}
                                       /\ req[r].pc \in Statements})

\* A new request takes an idle goroutine.
Start(r, fields) ==
    /\ At(r, "idle")
    /\ req' = [req EXCEPT ![r] = fields]
    /\ UNCHANGED <<users, sessions, refreshHeld, faults>>

\* Validation answers before any statement is executed.
SignUp(r) ==
    /\ UserIdLeft /\ SessionIdLeft
    /\ \E e \in Emails, p \in Passwords :
         LET call == [Idle EXCEPT !.op = "SignUp", !.email = e, !.password = p]
         IN  Start(r, IF p \in StrongPasswords
                      THEN [call EXCEPT !.pc = "CreateUser"]
                      ELSE [call EXCEPT !.pc = "replied", !.reply = "invalid"])

SignIn(r) ==
    /\ SessionIdLeft
    /\ \E e \in Emails, p \in Passwords :
         Start(r, [Idle EXCEPT !.op = "SignIn", !.pc = "GetUserByEmail", !.email = e,
                               !.password = p, !.barred = Barred])

WithToken(r, op) ==
    \E s \in refreshHeld :
        Start(r, [Idle EXCEPT !.op = op, !.pc = "GetSession", !.session = s,
                              !.stale = ~Active(s), !.barred = Barred])

RefreshToken(r) == SessionIdLeft /\ WithToken(r, "RefreshToken")

SignOut(r) == WithToken(r, "SignOut")

\* A JWT is made with each refresh token and expires first, after fifteen
\* minutes against thirty days; whether they are over is left open.  Its
\* signature and its time are all that is looked at, so it outlives a
\* revocation and the account.
ValidateAccessToken(s) == ~sessions[s].expired

\* AuthMiddleware reads no table: who holds a valid JWT may delete the account.
DeleteUser(r) ==
    \E s \in refreshHeld :
        /\ ValidateAccessToken(s)
        /\ Start(r, [Idle EXCEPT !.op = "DeleteUser", !.pc = "DeleteUser",
                                 !.user = sessions[s].user])

-----------------------------------------------------------------------------
(* One action per SQL statement.                                            *)

\* A statement that wrote may still be reported as failed: the commit went
\* through and the connection did not.
Acknowledged(next, failed) == (next /\ NoFault) \/ (failed /\ Fault)

CreateUser(r) ==
    /\ At(r, "CreateUser")
    /\ \/ /\ UserWithEmail(req[r].email) # {}
          /\ Reply(r, "conflict")
          /\ NoFault
          /\ UNCHANGED storeVars
       \/ \E u \in UserIds :
            /\ InsertUser(u, req[r].email, req[r].password)
            /\ Acknowledged(Goto(r, "CreateSession", u), Reply(r, "internal"))
    /\ UNCHANGED refreshHeld

\* Whether the salted hash of the row is of this password.
VerifyPassword(password, u) == users[u].password = password

\* Mutant: the handler forgets the ban, which SignIn must check itself.
GetUserByEmail_NoBanCheck(r) ==
    /\ At(r, "GetUserByEmail")
    /\ \/ /\ UserWithEmail(req[r].email) = {}
          /\ Reply(r, "unauthorized")
       \/ \E u \in UserWithEmail(req[r].email) :
            \/ /\ ~VerifyPassword(req[r].password, u)
               /\ Reply(r, "unauthorized")
            \/ /\ VerifyPassword(req[r].password, u)
               /\ Goto(r, "CreateSession", u)
    /\ UNCHANGED <<users, sessions, refreshHeld, faults>>

\* SignIn decides everything on the row it read here.
GetUserByEmail(r) ==
    /\ At(r, "GetUserByEmail")
    /\ \/ /\ UserWithEmail(req[r].email) = {}
          /\ Reply(r, "unauthorized")
       \/ \E u \in UserWithEmail(req[r].email) :
            \/ /\ users[u].banned
               /\ Reply(r, "banned")
            \/ /\ ~users[u].banned
               /\ ~VerifyPassword(req[r].password, u)
               /\ Reply(r, "unauthorized")
            \/ /\ ~users[u].banned
               /\ VerifyPassword(req[r].password, u)
               /\ Goto(r, "CreateSession", u)
    /\ UNCHANGED <<users, sessions, refreshHeld, faults>>

\* Mutant: the lookup ignores revoked_at and expires_at.
GetSession_AnyRow(r) ==
    /\ At(r, "GetSession")
    /\ \/ /\ sessions[req[r].session].status = "live"
          /\ Goto(r, "RevokeSession", sessions[req[r].session].user)
       \/ /\ sessions[req[r].session].status # "live"
          /\ Reply(r, "unauthorized")
    /\ UNCHANGED <<users, sessions, refreshHeld, faults>>

\* An unknown, revoked or expired token is refused by RefreshToken and
\* passed over in silence by SignOut.
GetSession(r) ==
    /\ At(r, "GetSession")
    /\ \/ /\ Active(req[r].session)
          /\ Goto(r, "RevokeSession", sessions[req[r].session].user)
       \/ /\ ~Active(req[r].session)
          /\ req[r].op = "RefreshToken"
          /\ Reply(r, "unauthorized")
       \/ /\ ~Active(req[r].session)
          /\ req[r].op = "SignOut"
          /\ Reply(r, "done")
    /\ UNCHANGED <<users, sessions, refreshHeld, faults>>

\* Mutant: a refresh and a sign-out that forget to revoke.
RevokeSession_Skipped(r) ==
    /\ At(r, "RevokeSession")
    /\ IF req[r].op = "RefreshToken" THEN Goto(r, "GetUserByID", req[r].user)
                                     ELSE Reply(r, "done")
    /\ UNCHANGED <<users, sessions, refreshHeld, faults>>

\* RefreshToken goes on to the user; SignOut answers 204 whatever
\* RevokeSession returned.
RevokeSession(r) ==
    /\ At(r, "RevokeSession")
    /\ MarkRevoked(req[r].session)
    /\ \/ /\ req[r].op = "RefreshToken"
          /\ Acknowledged(Goto(r, "GetUserByID", req[r].user), Reply(r, "internal"))
       \/ /\ req[r].op = "SignOut"
          /\ Reply(r, "done")
          /\ NoFault
    /\ UNCHANGED refreshHeld

\* The ban is checked after the old session was revoked.
GetUserByID(r) ==
    /\ At(r, "GetUserByID")
    /\ \/ /\ ~LiveUser(req[r].user)
          /\ Reply(r, "internal")
       \/ /\ LiveUser(req[r].user)
          /\ users[req[r].user].banned
          /\ Reply(r, "banned")
       \/ /\ LiveUser(req[r].user)
          /\ ~users[req[r].user].banned
          /\ Goto(r, "CreateSession", req[r].user)
    /\ UNCHANGED <<users, sessions, refreshHeld, faults>>

\* Mutant: no foreign key from sessions to users.
CreateSession_NoForeignKey(r) ==
    /\ At(r, "CreateSession")
    /\ \E s \in SessionIds :
         /\ sessions[s].status = "free"
         /\ sessions' = [sessions EXCEPT ![s] = [FreeSession EXCEPT
                           !.status = "live", !.user = req[r].user, !.from = req[r].session]]
         /\ ReplyPair(r, s)
    /\ UNCHANGED <<users, refreshHeld, faults>>

\* The INSERT of createTokenPair.
CreateSession(r) ==
    /\ At(r, "CreateSession")
    /\ \/ /\ ~LiveUser(req[r].user)
          /\ Reply(r, "internal")
          /\ NoFault
          /\ UNCHANGED storeVars
       \/ \E s \in SessionIds :
            /\ InsertSession(s, req[r].user, req[r].session)
            /\ Acknowledged(ReplyPair(r, s), Reply(r, "internal"))
    /\ UNCHANGED refreshHeld

DeleteUserStatement(r) ==
    /\ At(r, "DeleteUser")
    /\ DeleteUserRow(req[r].user)
    /\ Acknowledged(Reply(r, "done"), Reply(r, "internal"))
    /\ UNCHANGED refreshHeld

\* A statement fails and changes nothing.  The services answer 500, except
\* SignOut, which takes any error of either statement for "no such token".
StatementFails(r) ==
    /\ req[r].pc \in Statements
    /\ Fault
    /\ Reply(r, IF req[r].op = "SignOut" THEN "done" ELSE "internal")
    /\ UNCHANGED <<users, sessions, refreshHeld>>

-----------------------------------------------------------------------------
(* The world around the service.                                            *)

\* Mutant: the client keeps whatever the reply carries for a token.
Deliver_AnyReply(r) ==
    /\ At(r, "replied")
    /\ refreshHeld' = refreshHeld \cup {req[r].grant}
    /\ req' = [req EXCEPT ![r] = Idle]
    /\ UNCHANGED <<users, sessions, faults>>

Deliver(r) ==
    /\ At(r, "replied")
    /\ refreshHeld' = refreshHeld \cup (IF req[r].reply = "pair" THEN {req[r].grant} ELSE {})
    /\ req' = [req EXCEPT ![r] = Idle]
    /\ UNCHANGED <<users, sessions, faults>>

\* The connection to the client breaks before the reply is read.
LoseReply(r) ==
    /\ At(r, "replied")
    /\ Fault
    /\ req' = [req EXCEPT ![r] = Idle]
    /\ UNCHANGED <<users, sessions, refreshHeld>>

\* The process dies: requests are gone, the tables are not.
Crash ==
    /\ \E r \in Requests : ~At(r, "idle")
    /\ Fault
    /\ req' = [r \in Requests |-> Idle]
    /\ UNCHANGED <<users, sessions, refreshHeld>>

Ban(u) == BanUserRow(u) /\ UNCHANGED <<req, refreshHeld, faults>>

SessionExpires(s) ==
    ExpireRow(s) /\ UNCHANGED <<req, refreshHeld, faults>>

\* Only the bound on identifiers ends a behaviour.
Exhausted ==
    /\ ~(SessionIdLeft /\ UserIdLeft)
    /\ \A r \in Requests : At(r, "idle")
    /\ UNCHANGED vars

-----------------------------------------------------------------------------
Submit(r) == SignUp(r) \/ SignIn(r) \/ RefreshToken(r) \/ SignOut(r) \/ DeleteUser(r)

Execute(r) ==
    \/ CreateUser(r) \/ GetUserByEmail(r) \/ GetSession(r) \/ RevokeSession(r)
    \/ GetUserByID(r) \/ CreateSession(r) \/ DeleteUserStatement(r)

Environment ==
    \/ Crash
    \/ \E u \in UserIds : Ban(u)
    \/ \E s \in SessionIds : SessionExpires(s)

Next ==
    \/ \E r \in Requests :
         Submit(r) \/ Execute(r) \/ StatementFails(r) \/ Deliver(r) \/ LoseReply(r)
    \/ Environment
    \/ Exhausted

Spec == Init /\ [][Next]_vars

-----------------------------------------------------------------------------
(* Properties.                                                              *)

\* "Old token should no longer work": a refresh that started after its token
\* was exchanged, signed out, expired or cascaded away gets no pair.
StaleTokenRefused ==
    \A r \in Requests : req[r].reply = "pair" => ~req[r].stale

\* Nobody gets a pair for an account that was banned or deleted before the
\* request started, whether the request brought a password or a token.
BarredAccountRefused ==
    \A r \in Requests : req[r].reply = "pair" => req[r].user \notin req[r].barred

\* Once a sign-out is answered the token is dead, even when a refresh of the
\* same token runs at the same time, provided the database did not fail.
SignOutEndsSession ==
    \A r \in Requests :
        faults = 0 /\ req[r].op = "SignOut" /\ req[r].reply = "done"
            => ~Active(req[r].session)

\* What holds between the statements of a request, and makes the properties
\* above inductive (AuthProofs).
\* Tokens only come from the sessions table.
TokensGranted == \A s \in refreshHeld : sessions[s].status # "free"

\* The session a request works with was granted; from the revocation on it is
\* dead, and it belongs to the user the request will create a session for.
RequestInv(r) ==
    /\ req[r].session # NoSession => sessions[req[r].session].status # "free"
    /\ req[r].grant # NoSession => sessions[req[r].grant].status # "free"
    /\ req[r].pc \in {"GetSession", "RevokeSession", "GetUserByID"} => req[r].session # NoSession
    /\ req[r].pc \in {"RevokeSession", "GetUserByID", "CreateSession"} /\ req[r].session # NoSession
         => sessions[req[r].session].user = req[r].user
    /\ req[r].pc \in {"GetUserByID", "CreateSession"} /\ req[r].session # NoSession
         => ~Active(req[r].session)
    /\ req[r].stale => req[r].pc = "GetSession" /\ ~Active(req[r].session)
    /\ req[r].pc \in Statements => req[r].reply = "none"
    /\ req[r].pc \in {"CreateUser", "GetUserByEmail"} => req[r].session = NoSession
    /\ req[r].pc = "DeleteUser" => req[r].op = "DeleteUser"
    /\ \A u \in req[r].barred : BarredUser(u)
    /\ req[r].pc = "CreateSession" \/ req[r].reply = "pair" => req[r].user \notin req[r].barred
    /\ req[r].reply = "pair" => req[r].grant # NoSession
    /\ faults = 0 /\ req[r].op = "SignOut" /\ req[r].reply = "done"
         => req[r].session # NoSession /\ ~Active(req[r].session)

Inv ==
    /\ TypeOK
    /\ SessionsHaveAccounts
    /\ RotationEndsPredecessor
    /\ OwnersKnown
    /\ TokensGranted
    /\ \A r \in Requests : RequestInv(r)

\* Design document: the refresh token is rotated at every use, so it is used
\* once.  Refuted: two refreshes that both read the session before either
\* revoked it are both answered with a pair.
OneSuccessorPerToken ==
    \A s, t \in SessionIds :
        sessions[s].from # NoSession /\ sessions[s].from = sessions[t].from => s = t
==============================================================================
