---------------------------- MODULE SessionLedger ----------------------------
(***************************************************************************)
(* What the auth service promises about refresh tokens, without requests,  *)
(* tables or failures.  An account is opened once and closed once.  A      *)
(* token is granted to an open account, either after the credentials were  *)
(* checked or in exchange for an earlier token of the same account that    *)
(* has already ended.  A token that has ended never works again, and       *)
(* closing an account ends every token of it.                              *)
(* AuthSessions and AuthOAuth implement this specification (AuthProofs and *)
(* AuthOAuthProofs).                                                       *)
(***************************************************************************)
CONSTANTS
    UserIds,     \* accounts
    SessionIds,  \* refresh tokens
    NoUser,      \* owner of a token that was never granted
    NoSession    \* predecessor of a token granted on credentials

VARIABLES
    account,     \* account[u]: "none", "open" or "closed"
    token,       \* token[s]: "none", "active" or "ended"
    owner,       \* owner[s]: the account s was granted to
    from         \* from[s]: the token s was exchanged for

vars == <<account, token, owner, from>>

Init ==
    /\ account = [u \in UserIds |-> "none"]
    /\ token = [s \in SessionIds |-> "none"]
    /\ owner = [s \in SessionIds |-> NoUser]
    /\ from = [s \in SessionIds |-> NoSession]

OpenAccount(u) ==
    /\ account[u] = "none"
    /\ account' = [account EXCEPT ![u] = "open"]
    /\ UNCHANGED <<token, owner, from>>

CloseAccount(u) ==
    /\ account[u] = "open"
    /\ account' = [account EXCEPT ![u] = "closed"]
    /\ token' = [s \in SessionIds |->
                    IF owner[s] = u /\ token[s] = "active" THEN "ended" ELSE token[s]]
    /\ UNCHANGED <<owner, from>>

\* A token granted for credentials has no predecessor; one granted in
\* exchange has a predecessor that has ended and belonged to the same account.
Grant(s, u, p) ==
    /\ account[u] = "open"
    /\ token[s] = "none"
    /\ p # NoSession => p \in SessionIds /\ token[p] = "ended" /\ owner[p] = u
    /\ token' = [token EXCEPT ![s] = "active"]
    /\ owner' = [owner EXCEPT ![s] = u]
    /\ from' = [from EXCEPT ![s] = p]
    /\ UNCHANGED account

\* Sign-out, exchange and expiry all end a token.
End(s) ==
    /\ token[s] = "active"
    /\ token' = [token EXCEPT ![s] = "ended"]
    /\ UNCHANGED <<account, owner, from>>

Next ==
    \/ \E u \in UserIds : OpenAccount(u) \/ CloseAccount(u)
    \/ \E s \in SessionIds : End(s)
    \/ \E s \in SessionIds, u \in UserIds, p \in SessionIds \cup {NoSession} : Grant(s, u, p)

Spec == Init /\ [][Next]_vars
==============================================================================
