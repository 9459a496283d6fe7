------------------------------ MODULE AuthStore ------------------------------
(***************************************************************************)
(* The two tables every auth request reads and writes:                     *)
(* garance_auth.users and garance_auth.sessions.  Each operator below is    *)
(* one SQL statement of services/auth/internal/store, and PostgreSQL makes  *)
(* one statement atomic; nothing in the service opens a transaction that    *)
(* spans two.  Identifiers are UUIDs and random tokens, never reused, so a  *)
(* deleted row keeps its identifier (status "deleted").                     *)
(***************************************************************************)
EXTENDS Naturals, FiniteSets

CONSTANTS
    UserIds,     \* users.id
    SessionIds,  \* sessions.id, and the refresh token stored in the same row
    Emails,      \* addresses clients use
    Passwords,   \* passwords clients type
    NoUser, NoSession, NoEmail, NoPassword

ASSUME StoreAssumption ==
    /\ NoUser \notin UserIds
    /\ NoSession \notin SessionIds
    /\ NoEmail \notin Emails
    /\ NoPassword \notin Passwords

VARIABLES
    users,       \* the users table
    sessions     \* the sessions table; "from" is history: the token exchanged for it

UserRow == [status : {"free", "live", "deleted"},
            email : Emails \cup {NoEmail},
            password : Passwords \cup {NoPassword},
            verified : BOOLEAN,
            banned : BOOLEAN]

SessionRow == [status : {"free", "live", "deleted"},
               user : UserIds \cup {NoUser},
               from : SessionIds \cup {NoSession},
               revoked : BOOLEAN,
               expired : BOOLEAN]

StoreTypeOK ==
    /\ users \in [UserIds -> UserRow]
    /\ sessions \in [SessionIds -> SessionRow]

FreeUser == [status |-> "free", email |-> NoEmail, password |-> NoPassword,
             verified |-> FALSE, banned |-> FALSE]

FreeSession == [status |-> "free", user |-> NoUser, from |-> NoSession,
                revoked |-> FALSE, expired |-> FALSE]

StoreInit ==
    /\ users = [u \in UserIds |-> FreeUser]
    /\ sessions = [s \in SessionIds |-> FreeSession]

LiveUser(u) == u \in UserIds /\ users[u].status = "live"

\* An account that was banned or deleted.
BarredUser(u) ==
    \/ users[u].status = "live" /\ users[u].banned
    \/ users[u].status = "deleted"

\* The WHERE clause of GetSessionByRefreshToken.
Active(s) ==
    /\ sessions[s].status = "live"
    /\ ~sessions[s].revoked
    /\ ~sessions[s].expired

UserWithEmail(e) == {u \in UserIds : users[u].status = "live" /\ users[u].email = e}

\* INSERT INTO users: the UNIQUE index on email refuses a second row.
InsertUser(u, e, p) ==
    /\ users[u].status = "free"
    /\ UserWithEmail(e) = {}
    /\ users' = [users EXCEPT ![u] = [FreeUser EXCEPT !.status = "live", !.email = e,
                                                      !.password = p]]
    /\ UNCHANGED sessions

\* INSERT INTO sessions: the foreign key refuses a user that is gone.
InsertSession(s, u, p) ==
    /\ sessions[s].status = "free"
    /\ LiveUser(u)
    /\ sessions' = [sessions EXCEPT ![s] = [FreeSession EXCEPT !.status = "live",
                                                               !.user = u, !.from = p]]
    /\ UNCHANGED users

\* UPDATE sessions SET revoked_at WHERE id: a row already revoked is
\* written again, a row that is gone is not an error.
MarkRevoked(s) ==
    /\ sessions' = [sessions EXCEPT ![s].revoked = (sessions[s].status = "live")]
    /\ UNCHANGED users

\* Mutant: sessions.user_id without ON DELETE CASCADE.
DeleteUserRow_NoCascade(u) ==
    /\ users' = [users EXCEPT ![u] = IF LiveUser(u)
                                     THEN [FreeUser EXCEPT !.status = "deleted"] ELSE users[u]]
    /\ UNCHANGED sessions

\* DELETE FROM users with ON DELETE CASCADE on sessions.user_id; no row is
\* not an error.  Of a deleted row only the identifier is left (and, of a
\* session, whose it was and what it was exchanged for).
DeleteUserRow(u) ==
    /\ users' = [users EXCEPT ![u] = IF LiveUser(u)
                                     THEN [FreeUser EXCEPT !.status = "deleted"] ELSE users[u]]
    /\ sessions' = [s \in SessionIds |->
                      IF sessions[s].status = "live" /\ sessions[s].user = u
                      THEN [sessions[s] EXCEPT !.status = "deleted", !.revoked = FALSE,
                                               !.expired = FALSE]
                      ELSE sessions[s]]

\* banned_at is written by an operator's SQL; no handler of the service sets it.
BanUserRow(u) ==
    /\ LiveUser(u)
    /\ ~users[u].banned
    /\ users' = [users EXCEPT ![u].banned = TRUE]
    /\ UNCHANGED sessions

\* expires_at passes: 30 days after the row was inserted.
ExpireRow(s) ==
    /\ sessions[s].status = "live"
    /\ ~sessions[s].expired
    /\ sessions' = [sessions EXCEPT ![s].expired = TRUE]
    /\ UNCHANGED users

-----------------------------------------------------------------------------
(* What the statements keep, whoever executes them, and what the two tables *)
(* show of the session ledger.                                              *)

\* A session row in use belongs to an account that exists: a refresh or a
\* sign-in that read the user before DeleteUser ran cannot leave a session
\* behind for the account that is gone.
SessionsHaveAccounts ==
    \A s \in SessionIds : sessions[s].status = "live" => LiveUser(sessions[s].user)

\* Rotation: the token a refresh was paid with no longer works once its
\* successor exists, and both were granted to one account.
RotationEndsPredecessor ==
    \A s \in SessionIds :
        sessions[s].status # "free" /\ sessions[s].from # NoSession =>
            /\ ~Active(sessions[s].from)
            /\ sessions[sessions[s].from].status # "free"
            /\ sessions[sessions[s].from].user = sessions[s].user

\* A session that was ever inserted names its account.
OwnersKnown ==
    \A s \in SessionIds : sessions[s].status # "free" => sessions[s].user \in UserIds

\* The ledger the service keeps: an account is open while its row is
\* there, a token active while GetSessionByRefreshToken would find it.
AccountState(u) ==
    CASE users[u].status = "free" -> "none"
      [] users[u].status = "live" -> "open"
      [] users[u].status = "deleted" -> "closed"

TokenState(s) ==
    CASE sessions[s].status = "free" -> "none"
      [] sessions[s].status # "free" /\ Active(s) -> "active"
      [] sessions[s].status # "free" /\ ~Active(s) -> "ended"

\* The two tables, seen as the state of SessionLedger.
Ledger == INSTANCE SessionLedger WITH
    account <- [u \in UserIds |-> AccountState(u)],
    token <- [s \in SessionIds |-> TokenState(s)],
    owner <- [s \in SessionIds |-> sessions[s].user],
    from <- [s \in SessionIds |-> sessions[s].from]

\* Whatever the requests do to the tables, it is a behaviour of the ledger:
\* a token that has ended never works again, and is granted only to an open
\* account, for credentials or for an ended token of the same account.
LedgerSpec == Ledger!Spec
==============================================================================
