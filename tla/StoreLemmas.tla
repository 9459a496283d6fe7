---------------------------- MODULE StoreLemmas ----------------------------
(***************************************************************************)
(* What the statements of AuthStore may change, for the proofs about the    *)
(* two halves of the auth service that execute them.  These lemmas are the  *)
(* only place where the rows of the two tables are looked into.             *)
(***************************************************************************)
EXTENDS AuthStore, TLAPS

\* INSERT INTO users keeps the tables well-typed and only moves them forward.
LEMMA InsertUserForward ==
    ASSUME StoreTypeOK, NEW u \in UserIds, NEW e \in Emails \cup {NoEmail},
           NEW p \in Passwords \cup {NoPassword},
           InsertUser(u, e, p)
    PROVE  /\ StoreTypeOK'
           /\ UNCHANGED sessions
           /\ users'[u].status = "live"
           /\ \A v \in UserIds : v # u => users'[v] = users[v]
           /\ users[u].status = "free"
  BY DEF StoreTypeOK, InsertUser, UserRow, FreeUser

\* INSERT INTO sessions touches one free row and gives it to a live account.
LEMMA InsertSessionForward ==
    ASSUME StoreTypeOK, NEW s \in SessionIds, NEW u, NEW p \in SessionIds \cup {NoSession},
           InsertSession(s, u, p)
    PROVE  /\ StoreTypeOK'
           /\ UNCHANGED users
           /\ LiveUser(u)
           /\ sessions[s].status = "free"
           /\ sessions'[s] = [status |-> "live", user |-> u, from |-> p,
                              revoked |-> FALSE, expired |-> FALSE]
           /\ \A t \in SessionIds : t # s => sessions'[t] = sessions[t]
  BY DEF StoreTypeOK, InsertSession, SessionRow, FreeSession, LiveUser

\* UPDATE ... SET revoked_at ends a session and touches nothing else.
LEMMA MarkRevokedForward ==
    ASSUME StoreTypeOK, NEW s \in SessionIds, MarkRevoked(s)
    PROVE  /\ StoreTypeOK'
           /\ UNCHANGED users
           /\ ~Active(s)'
           /\ \A t \in SessionIds : /\ sessions'[t].status = sessions[t].status
                                    /\ sessions'[t].user = sessions[t].user
                                    /\ sessions'[t].from = sessions[t].from
                                    /\ t # s => sessions'[t] = sessions[t]
  BY ZenonT(60) DEF StoreTypeOK, MarkRevoked, SessionRow, Active

\* DELETE FROM users with its cascade leaves no live session of the account.
LEMMA DeleteUserForward ==
    ASSUME StoreTypeOK, NEW u \in UserIds \cup {NoUser}, DeleteUserRow(u)
    PROVE  /\ StoreTypeOK'
           /\ \A v \in UserIds :
                \/ users'[v] = users[v] /\ (v = u => ~LiveUser(v))
                \/ v = u /\ users[v].status = "live" /\ users'[v].status = "deleted"
           /\ \A t \in SessionIds :
                /\ sessions'[t].user = sessions[t].user
                /\ sessions'[t].from = sessions[t].from
                /\ (sessions'[t].status = "free") <=> (sessions[t].status = "free")
                /\ sessions'[t].status = "live" => sessions[t].user # u
                /\ sessions[t].user # u => sessions'[t] = sessions[t]
                /\ Active(t)' => Active(t)
  <1>1. users' \in [UserIds -> UserRow]
    BY DEF StoreTypeOK, DeleteUserRow, UserRow, FreeUser
  <1>2. sessions' \in [SessionIds -> SessionRow]
    <2>1. \A t \in SessionIds : sessions[t] \in SessionRow
      BY DEF StoreTypeOK
    <2>2. \A row \in SessionRow :
            [row EXCEPT !.status = "deleted", !.revoked = FALSE, !.expired = FALSE] \in SessionRow
      BY DEF SessionRow
    <2>3. QED
      BY <2>1, <2>2 DEF DeleteUserRow
  <1>3. ASSUME NEW v \in UserIds
        PROVE  \/ users'[v] = users[v] /\ (v = u => ~LiveUser(v))
               \/ v = u /\ users[v].status = "live" /\ users'[v].status = "deleted"
    BY DEF StoreTypeOK, DeleteUserRow, UserRow, FreeUser, LiveUser
  <1>4. ASSUME NEW t \in SessionIds
        PROVE  /\ sessions'[t].user = sessions[t].user
               /\ sessions'[t].from = sessions[t].from
               /\ (sessions'[t].status = "free") <=> (sessions[t].status = "free")
               /\ sessions'[t].status = "live" => sessions[t].user # u
               /\ sessions[t].user # u => sessions'[t] = sessions[t]
               /\ Active(t)' => Active(t)
    BY DEF StoreTypeOK, DeleteUserRow, SessionRow, Active
  <1> QED
    BY <1>1, <1>2, <1>3, <1>4 DEF StoreTypeOK

\* A ban is a fact about one live row.
LEMMA BanForward ==
    ASSUME StoreTypeOK, NEW u \in UserIds, BanUserRow(u)
    PROVE  /\ StoreTypeOK'
           /\ UNCHANGED sessions
           /\ \A v \in UserIds : /\ users'[v].status = users[v].status
                                 /\ users[v].banned => users'[v].banned
  BY DEF StoreTypeOK, BanUserRow, UserRow

\* Expiry ends a session and touches nothing else.
LEMMA ExpireForward ==
    ASSUME StoreTypeOK, NEW s \in SessionIds, ExpireRow(s)
    PROVE  /\ StoreTypeOK'
           /\ UNCHANGED users
           /\ ~Active(s)'
           /\ \A t \in SessionIds : /\ sessions'[t].status = sessions[t].status
                                    /\ sessions'[t].user = sessions[t].user
                                    /\ sessions'[t].from = sessions[t].from
                                    /\ t # s => sessions'[t] = sessions[t]
  BY DEF StoreTypeOK, ExpireRow, SessionRow, Active

\* "Verified" is no part of what an account is to its sessions.
LEMMA VerifyForward ==
    ASSUME StoreTypeOK, NEW u \in UserIds, NEW b \in BOOLEAN,
           users' = [users EXCEPT ![u].verified = b], UNCHANGED sessions
    PROVE  /\ StoreTypeOK'
           /\ \A v \in UserIds : /\ users'[v].status = users[v].status
                                 /\ users'[v].banned = users[v].banned
  BY DEF StoreTypeOK, UserRow

-----------------------------------------------------------------------------
(* The tables: what every statement keeps, whoever executes it.             *)

\* The tables only move forward: a session keeps its owner and predecessor
\* and never comes back to life, and a ban or a deletion is never undone.
TablesForward ==
    /\ \A s \in SessionIds : sessions[s].status # "free" =>
         /\ sessions'[s].status # "free"
         /\ sessions'[s].user = sessions[s].user
         /\ sessions'[s].from = sessions[s].from
         /\ ~Active(s) => ~Active(s)'
    /\ \A u \in UserIds : BarredUser(u) => BarredUser(u)'

StoreInv ==
    /\ StoreTypeOK
    /\ SessionsHaveAccounts
    /\ RotationEndsPredecessor
    /\ OwnersKnown

\* Creating an account.
LEMMA InsertUserKeeps ==
    ASSUME StoreInv, NEW u \in UserIds, NEW e \in Emails \cup {NoEmail},
           NEW p \in Passwords \cup {NoPassword},
           InsertUser(u, e, p)
    PROVE  StoreInv' /\ TablesForward
  <1>1. /\ StoreTypeOK'
        /\ UNCHANGED sessions
        /\ users'[u].status = "live"
        /\ \A v \in UserIds : v # u => users'[v] = users[v]
        /\ users[u].status = "free"
    BY InsertUserForward DEF StoreInv
  <1>2. TablesForward
    BY <1>1 DEF TablesForward, Active, BarredUser
  <1> QED
    BY <1>1, <1>2 DEF StoreInv, SessionsHaveAccounts, RotationEndsPredecessor, OwnersKnown,
                      LiveUser, Active

\* Granting a session: the predecessor, if any, must be dead and the user's own.
LEMMA InsertSessionKeeps ==
    ASSUME StoreInv, NEW s \in SessionIds, NEW u, NEW p \in SessionIds \cup {NoSession},
           InsertSession(s, u, p),
           p # NoSession => /\ ~Active(p)
                            /\ sessions[p].status # "free"
                            /\ sessions[p].user = u
    PROVE  StoreInv' /\ TablesForward
  <1>1. /\ StoreTypeOK'
        /\ UNCHANGED users
        /\ LiveUser(u)
        /\ sessions[s].status = "free"
        /\ sessions'[s] = [status |-> "live", user |-> u, from |-> p,
                           revoked |-> FALSE, expired |-> FALSE]
        /\ \A t \in SessionIds : t # s => sessions'[t] = sessions[t]
    BY InsertSessionForward DEF StoreInv
  <1>2. TablesForward
    BY <1>1 DEF TablesForward, Active, BarredUser
  <1>3. SessionsHaveAccounts' /\ OwnersKnown'
    BY <1>1 DEF StoreInv, SessionsHaveAccounts, OwnersKnown, LiveUser
  <1>4. ASSUME NEW t \in SessionIds, sessions'[t].status # "free", sessions'[t].from # NoSession
        PROVE  /\ ~Active(sessions[t].from)'
               /\ sessions'[sessions'[t].from].status # "free"
               /\ sessions'[sessions'[t].from].user = sessions'[t].user
    <2>1. CASE t = s
      BY <1>1, <1>4, <2>1 DEF Active
    <2>2. CASE t # s
      <3>1. sessions'[t] = sessions[t]
        BY <1>1, <2>2
      <3>2. sessions[t].from \in SessionIds /\ sessions[t].from # s
        BY <3>1, <1>4, <1>1 DEF StoreInv, StoreTypeOK, SessionRow, RotationEndsPredecessor
      <3> QED
        BY <3>1, <3>2, <1>1, <1>4 DEF StoreInv, RotationEndsPredecessor, Active
    <2> QED
      BY <2>1, <2>2
  <1> QED
    BY <1>1, <1>2, <1>3, <1>4 DEF StoreInv, RotationEndsPredecessor, Active

\* Ending a session, by revocation or by expiry.
LEMMA EndSessionKeeps ==
    ASSUME StoreInv, NEW s \in SessionIds, MarkRevoked(s) \/ ExpireRow(s)
    PROVE  StoreInv' /\ TablesForward /\ ~Active(s)' /\ UNCHANGED users
  <1>1. /\ StoreTypeOK'
        /\ UNCHANGED users
        /\ ~Active(s)'
        /\ \A t \in SessionIds : /\ sessions'[t].status = sessions[t].status
                                 /\ sessions'[t].user = sessions[t].user
                                 /\ sessions'[t].from = sessions[t].from
                                 /\ t # s => sessions'[t] = sessions[t]
    BY MarkRevokedForward, ExpireForward DEF StoreInv
  <1>2. ASSUME NEW t \in SessionIds, ~Active(t)
        PROVE  ~Active(t)'
    BY <1>1, <1>2 DEF Active
  <1>3. TablesForward
    BY <1>1, <1>2 DEF TablesForward, BarredUser
  <1>4. SessionsHaveAccounts' /\ OwnersKnown'
    BY <1>1 DEF StoreInv, SessionsHaveAccounts, OwnersKnown, LiveUser
  <1>5. RotationEndsPredecessor'
    <2>1. \A t \in SessionIds : sessions[t].from \in SessionIds \cup {NoSession}
      BY DEF StoreInv, StoreTypeOK, SessionRow
    <2> QED
      BY <1>1, <1>2, <2>1 DEF StoreInv, RotationEndsPredecessor, Active
  <1> QED
    BY <1>1, <1>3, <1>4, <1>5 DEF StoreInv

\* Closing an account.
LEMMA DeleteUserRowKeeps ==
    ASSUME StoreInv, NEW u \in UserIds \cup {NoUser}, DeleteUserRow(u)
    PROVE  StoreInv' /\ TablesForward
  <1>1. /\ StoreTypeOK'
        /\ \A v \in UserIds :
             \/ users'[v] = users[v] /\ (v = u => ~LiveUser(v))
             \/ v = u /\ users[v].status = "live" /\ users'[v].status = "deleted"
        /\ \A t \in SessionIds :
             /\ sessions'[t].user = sessions[t].user
             /\ sessions'[t].from = sessions[t].from
             /\ (sessions'[t].status = "free") <=> (sessions[t].status = "free")
             /\ sessions'[t].status = "live" => sessions[t].user # u
             /\ sessions[t].user # u => sessions'[t] = sessions[t]
             /\ Active(t)' => Active(t)
    BY DeleteUserForward DEF StoreInv
  <1>2. TablesForward
    BY <1>1 DEF TablesForward, BarredUser, LiveUser
  <1>3. SessionsHaveAccounts'
    BY <1>1 DEF StoreInv, SessionsHaveAccounts, LiveUser
  <1>4. OwnersKnown'
    BY <1>1 DEF StoreInv, OwnersKnown
  <1>5. RotationEndsPredecessor'
    <2>1. \A t \in SessionIds : sessions[t].from \in SessionIds \cup {NoSession}
      BY DEF StoreInv, StoreTypeOK, SessionRow
    <2> QED
      BY <1>1, <2>1 DEF StoreInv, RotationEndsPredecessor, Active
  <1> QED
    BY <1>1, <1>2, <1>3, <1>4, <1>5 DEF StoreInv

\* Banning an account.
LEMMA BanUserRowKeeps ==
    ASSUME StoreInv, NEW u \in UserIds, BanUserRow(u)
    PROVE  StoreInv' /\ TablesForward
  <1>1. /\ StoreTypeOK'
        /\ UNCHANGED sessions
        /\ \A v \in UserIds : users'[v].status = users[v].status
                              /\ (users[v].banned => users'[v].banned)
    BY BanForward DEF StoreInv
  <1> QED
    BY <1>1 DEF StoreInv, TablesForward, BarredUser, SessionsHaveAccounts, RotationEndsPredecessor, OwnersKnown,
                LiveUser, Active

\* Verifying an address.
LEMMA VerifyKeeps ==
    ASSUME StoreInv, NEW u \in UserIds, NEW b \in BOOLEAN,
           users' = [users EXCEPT ![u].verified = b], UNCHANGED sessions
    PROVE  StoreInv' /\ TablesForward /\ UNCHANGED Ledger!vars
  <1>1. /\ StoreTypeOK'
        /\ \A v \in UserIds : /\ users'[v].status = users[v].status
                              /\ users'[v].banned = users[v].banned
    BY VerifyForward DEF StoreInv
  <1>2. \A v \in UserIds : AccountState(v)' = AccountState(v)
    BY <1>1 DEF AccountState
  <1>3. \A s \in SessionIds : TokenState(s)' = TokenState(s)
    BY DEF TokenState, Active
  <1>4. UNCHANGED Ledger!vars
    BY <1>2, <1>3 DEF Ledger!vars
  <1> QED
    BY <1>1, <1>4 DEF StoreInv, TablesForward, BarredUser, SessionsHaveAccounts,
                      RotationEndsPredecessor, OwnersKnown, LiveUser, Active

\* Leaving the tables alone.
LEMMA NoStatementKeeps ==
    ASSUME StoreInv, UNCHANGED <<users, sessions>>
    PROVE  StoreInv' /\ TablesForward
  BY DEF StoreInv, StoreTypeOK, TablesForward, BarredUser, SessionsHaveAccounts, RotationEndsPredecessor,
         OwnersKnown, LiveUser, Active

-----------------------------------------------------------------------------
(* The statements as steps of SessionLedger.                                *)

\* What the ledger shows of a row.
LEMMA AccountStates ==
    ASSUME StoreTypeOK, NEW u \in UserIds
    PROVE  /\ AccountState(u) = "none" <=> users[u].status = "free"
           /\ AccountState(u) = "open" <=> users[u].status = "live"
           /\ AccountState(u) = "closed" <=> users[u].status = "deleted"
           /\ AccountState(u) \in {"none", "open", "closed"}
  BY DEF StoreTypeOK, UserRow, AccountState

\* The same for tokens.
LEMMA TokenStates ==
    ASSUME StoreTypeOK, NEW s \in SessionIds
    PROVE  /\ TokenState(s) = "none" <=> sessions[s].status = "free"
           /\ TokenState(s) = "active" <=> Active(s)
           /\ TokenState(s) = "ended" <=> sessions[s].status # "free" /\ ~Active(s)
           /\ TokenState(s) \in {"none", "active", "ended"}
  BY DEF StoreTypeOK, SessionRow, TokenState, Active

\* A step under which no row changes its face is no step of the ledger.
LEMMA SameFace ==
    ASSUME \A u \in UserIds : AccountState(u)' = AccountState(u),
           \A s \in SessionIds : /\ TokenState(s)' = TokenState(s)
                                 /\ sessions'[s].user = sessions[s].user
                                 /\ sessions'[s].from = sessions[s].from
    PROVE  UNCHANGED Ledger!vars
  BY DEF Ledger!vars

\* Leaving the tables alone.
LEMMA NoStatementMaps ==
    ASSUME UNCHANGED <<users, sessions>>
    PROVE  UNCHANGED Ledger!vars
  BY DEF Ledger!vars, AccountState, TokenState, Active

\* INSERT INTO users opens an account.
LEMMA InsertUserMaps ==
    ASSUME StoreInv, NEW u \in UserIds, NEW e \in Emails \cup {NoEmail},
           NEW p \in Passwords \cup {NoPassword}, InsertUser(u, e, p)
    PROVE  Ledger!OpenAccount(u)
  <1>1. /\ StoreTypeOK'
        /\ UNCHANGED sessions
        /\ users'[u].status = "live"
        /\ \A v \in UserIds : v # u => users'[v] = users[v]
        /\ users[u].status = "free"
    BY InsertUserForward DEF StoreInv
  <1>2. AccountState(u) = "none" /\ AccountState(u)' = "open"
    BY <1>1 DEF AccountState
  <1>3. \A v \in UserIds : v # u => AccountState(v)' = AccountState(v)
    BY <1>1 DEF AccountState
  <1>4. \A s \in SessionIds : TokenState(s)' = TokenState(s)
    BY <1>1 DEF TokenState, Active
  <1> QED
    BY <1>1, <1>2, <1>3, <1>4 DEF Ledger!OpenAccount

\* INSERT INTO sessions grants a token.
LEMMA InsertSessionMaps ==
    ASSUME StoreInv, NEW s \in SessionIds, NEW u \in UserIds,
           NEW p \in SessionIds \cup {NoSession}, InsertSession(s, u, p),
           p # NoSession => /\ ~Active(p)
                            /\ sessions[p].status # "free"
                            /\ sessions[p].user = u
    PROVE  Ledger!Grant(s, u, p)
  <1>1. /\ StoreTypeOK'
        /\ UNCHANGED users
        /\ LiveUser(u)
        /\ sessions[s].status = "free"
        /\ sessions'[s] = [status |-> "live", user |-> u, from |-> p,
                           revoked |-> FALSE, expired |-> FALSE]
        /\ \A t \in SessionIds : t # s => sessions'[t] = sessions[t]
    BY InsertSessionForward DEF StoreInv
  <1>2. AccountState(u) = "open" /\ TokenState(s) = "none"
    BY <1>1 DEF AccountState, TokenState, LiveUser
  <1>3. p # NoSession => p \in SessionIds /\ TokenState(p) = "ended"
    BY TokenStates DEF StoreInv
  <1>4. Active(s)' /\ TokenState(s)' = "active"
    BY <1>1 DEF TokenState, Active
  <1>5. \A t \in SessionIds : t # s => TokenState(t)' = TokenState(t)
    BY <1>1 DEF TokenState, Active
  <1>6. \A v \in UserIds : AccountState(v)' = AccountState(v)
    BY <1>1 DEF AccountState
  <1>c. \A t \in SessionIds :
          /\ sessions'[t].user = IF t = s THEN u ELSE sessions[t].user
          /\ sessions'[t].from = IF t = s THEN p ELSE sessions[t].from
    BY <1>1
  <1>7. [t \in SessionIds |-> sessions[t].user]'
          = [[t \in SessionIds |-> sessions[t].user] EXCEPT ![s] = u]
    BY <1>c
  <1>8. [t \in SessionIds |-> sessions[t].from]'
          = [[t \in SessionIds |-> sessions[t].from] EXCEPT ![s] = p]
    BY <1>c
  <1>9. [t \in SessionIds |-> TokenState(t)]'
          = [[t \in SessionIds |-> TokenState(t)] EXCEPT ![s] = "active"]
    BY <1>4, <1>5
  <1>10. p # NoSession => [t \in SessionIds |-> sessions[t].user][p] = u
    BY <1>3
  <1> QED
    BY <1>2, <1>3, <1>6, <1>7, <1>8, <1>9, <1>10 DEF Ledger!Grant

\* Revocation and expiry end an active token, and show nothing of another.
LEMMA EndSessionMaps ==
    ASSUME StoreInv, NEW s \in SessionIds, MarkRevoked(s) \/ ExpireRow(s)
    PROVE  Ledger!End(s) \/ UNCHANGED Ledger!vars
  <1>1. /\ StoreTypeOK'
        /\ UNCHANGED users
        /\ ~Active(s)'
        /\ \A t \in SessionIds : /\ sessions'[t].status = sessions[t].status
                                 /\ sessions'[t].user = sessions[t].user
                                 /\ sessions'[t].from = sessions[t].from
                                 /\ t # s => sessions'[t] = sessions[t]
    BY MarkRevokedForward, ExpireForward DEF StoreInv
  <1>2. \A u \in UserIds : AccountState(u)' = AccountState(u)
    BY <1>1 DEF AccountState
  <1>3. \A t \in SessionIds : t # s => TokenState(t)' = TokenState(t)
    BY <1>1 DEF TokenState, Active
  <1>4. CASE Active(s)
    <2>1. TokenState(s) = "active"
      BY <1>4, TokenStates DEF StoreInv
    <2>2. TokenState(s)' = "ended"
      BY <1>1, <1>4 DEF TokenState, Active
    <2> QED
      BY <1>1, <1>2, <1>3, <2>1, <2>2 DEF Ledger!End
  <1>5. CASE ~Active(s)
    <2>1. TokenState(s)' = TokenState(s)
      BY <1>1, <1>5 DEF TokenState
    <2> QED
      BY <1>1, <1>2, <1>3, <2>1, SameFace
  <1> QED
    BY <1>4, <1>5

\* DELETE FROM users with its cascade closes the account and ends its tokens.
LEMMA DeleteUserMaps ==
    ASSUME StoreInv, NEW u \in UserIds \cup {NoUser}, DeleteUserRow(u)
    PROVE  (u \in UserIds /\ Ledger!CloseAccount(u)) \/ UNCHANGED Ledger!vars
  <1>1. /\ StoreTypeOK'
        /\ \A v \in UserIds :
             \/ users'[v] = users[v] /\ (v = u => ~LiveUser(v))
             \/ v = u /\ users[v].status = "live" /\ users'[v].status = "deleted"
        /\ \A t \in SessionIds :
             /\ sessions'[t].user = sessions[t].user
             /\ sessions'[t].from = sessions[t].from
             /\ (sessions'[t].status = "free") <=> (sessions[t].status = "free")
             /\ sessions'[t].status = "live" => sessions[t].user # u
             /\ sessions[t].user # u => sessions'[t] = sessions[t]
             /\ Active(t)' => Active(t)
    BY DeleteUserForward DEF StoreInv
  <1>2. \A v \in UserIds : v # u => AccountState(v)' = AccountState(v)
    BY <1>1 DEF AccountState
  <1>3. \A t \in SessionIds : sessions[t].user # u => TokenState(t)' = TokenState(t)
    BY <1>1 DEF TokenState, Active
  <1>4. \A t \in SessionIds : sessions[t].user = u =>
          TokenState(t)' = IF TokenState(t) = "active" THEN "ended" ELSE TokenState(t)
    <2> SUFFICES ASSUME NEW t \in SessionIds, sessions[t].user = u
                 PROVE  TokenState(t)' = IF TokenState(t) = "active" THEN "ended"
                                                                     ELSE TokenState(t)
      OBVIOUS
    <2>1. ~Active(t)'
      BY <1>1 DEF Active
    <2> QED
      BY <1>1, <2>1 DEF TokenState
  <1>5. CASE LiveUser(u)
    <2>1. u \in UserIds /\ AccountState(u) = "open" /\ AccountState(u)' = "closed"
      BY <1>1, <1>5 DEF AccountState, LiveUser
    <2> QED
      BY ZenonT(60), <1>1, <1>2, <1>3, <1>4, <2>1 DEF Ledger!CloseAccount
  <1>6. CASE ~LiveUser(u)
    <2>1. \A v \in UserIds : AccountState(v)' = AccountState(v)
      BY <1>1, <1>6 DEF AccountState, LiveUser
    <2>2. \A t \in SessionIds : TokenState(t)' = TokenState(t)
      <3> SUFFICES ASSUME NEW t \in SessionIds, sessions[t].user = u
                   PROVE  TokenState(t)' = TokenState(t)
        BY <1>3
      <3>1. ~Active(t)
        BY <1>6 DEF StoreInv, SessionsHaveAccounts, Active
      <3> QED
        BY <1>4, <3>1, TokenStates DEF StoreInv
    <2> QED
      BY <1>1, <2>1, <2>2, SameFace
  <1> QED
    BY <1>5, <1>6

\* A ban does not show in the ledger.
LEMMA BanMaps ==
    ASSUME StoreInv, NEW u \in UserIds, BanUserRow(u)
    PROVE  UNCHANGED Ledger!vars
  <1>1. /\ UNCHANGED sessions
        /\ \A v \in UserIds : users'[v].status = users[v].status
    BY BanForward DEF StoreInv
  <1>2. \A v \in UserIds : AccountState(v)' = AccountState(v)
    BY <1>1 DEF AccountState
  <1>3. \A s \in SessionIds : TokenState(s)' = TokenState(s)
    BY <1>1 DEF TokenState, Active
  <1> QED
    BY <1>1, <1>2, <1>3, SameFace

=============================================================================
