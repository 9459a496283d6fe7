----------------------------- MODULE AuthProofs -----------------------------
(***************************************************************************)
(* Proofs about AuthSessions for every number of users, tokens, requests    *)
(* and faults.                                                              *)
(***************************************************************************)
EXTENDS AuthSessions, StoreLemmas, TLAPS

-----------------------------------------------------------------------------
(* The requests.                                                            *)

\* What a goroutine knows survives the statements of the others.
LEMMA OthersKeep ==
    ASSUME TypeOK, TablesForward, faults' \in Nat, faults' >= faults,
           NEW q \in Requests, RequestInv(q), req'[q] = req[q]
    PROVE  RequestInv(q)'
  <1>1. req[q] \in Request
    BY DEF TypeOK
  <1>2. faults' = 0 => faults = 0
    BY DEF TypeOK
  <1> QED
    BY <1>1, <1>2 DEF RequestInv, TablesForward, Request

\* An idle goroutine claims nothing.
LEMMA IdleInv ==
    ASSUME NEW q \in Requests, req'[q] = Idle
    PROVE  RequestInv(q)' /\ Idle \in Request
  BY DEF RequestInv, Idle, Request, Replies, Ops, Statements

\* A reply without a pair claims nothing but, for SignOut, a dead token.
LEMMA ReplyKeeps ==
    ASSUME TypeOK, TablesForward, NEW r \in Requests, RequestInv(r),
           NEW a \in Replies \ {"none", "pair"}, Reply(r, a),
           NEW k, k = req[r].session,
           faults' = 0 /\ req[r].op = "SignOut" /\ a = "done" => k # NoSession /\ ~Active(k)'
    PROVE  /\ req' \in [Requests -> Request]
           /\ \A q \in Requests : q # r => req'[q] = req[q]
           /\ RequestInv(r)'
  <1> DEFINE answer == [Idle EXCEPT !.op = req[r].op, !.session = req[r].session,
                                    !.pc = "replied", !.reply = a]
  <1>1. req[r] \in Request
    BY DEF TypeOK
  <1>2. /\ answer \in Request
        /\ answer.op = req[r].op
        /\ answer.session = req[r].session
        /\ answer.pc = "replied"
        /\ answer.reply = a
        /\ answer.grant = NoSession
        /\ answer.stale = FALSE
        /\ answer.barred = {}
    <2>1. Idle \in Request /\ Idle.grant = NoSession /\ Idle.stale = FALSE /\ Idle.barred = {}
      BY DEF Idle, Request, Replies, Ops
    <2> QED
      BY ZenonT(60), <1>1, <2>1 DEF Request
  <1>3. req' = [req EXCEPT ![r] = answer]
    BY DEF Reply
  <1> HIDE DEF answer
  <1>4. req' \in [Requests -> Request] /\ req'[r] = answer
        /\ \A q \in Requests : q # r => req'[q] = req[q]
    BY <1>2, <1>3 DEF TypeOK
  <1>5. RequestInv(r)'
    BY <1>1, <1>2, <1>4 DEF RequestInv, TablesForward, Request, Statements
  <1> QED
    BY <1>4, <1>5

\* Moving to the next statement keeps what the request knows, provided that
\* statement's premises hold.
LEMMA GotoKeeps ==
    ASSUME TypeOK, TablesForward, faults' \in Nat, faults' >= faults,
           NEW r \in Requests, RequestInv(r),
           NEW t \in Statements \ {"GetSession", "DeleteUser"},
           NEW u \in UserIds \cup {NoUser}, Goto(r, t, u),
           ~req[r].stale, req[r].reply = "none",
           NEW k, k = req[r].session,
           t \in {"CreateUser", "GetUserByEmail"} => k = NoSession,
           t \in {"RevokeSession", "GetUserByID"} => k # NoSession,
           k # NoSession => sessions'[k].user = u,
           t \in {"GetUserByID", "CreateSession"} /\ k # NoSession => ~Active(k)',
           t = "CreateSession" => u \notin req[r].barred
    PROVE  /\ req' \in [Requests -> Request]
           /\ \A q \in Requests : q # r => req'[q] = req[q]
           /\ RequestInv(r)'
  <1>1. req[r] \in Request
    BY DEF TypeOK
  <1>2. /\ req' \in [Requests -> Request]
        /\ req'[r].op = req[r].op
        /\ req'[r].session = req[r].session
        /\ req'[r].grant = req[r].grant
        /\ req'[r].reply = req[r].reply
        /\ req'[r].stale = req[r].stale
        /\ req'[r].barred = req[r].barred
        /\ req'[r].pc = t
        /\ req'[r].user = u
        /\ \A q \in Requests : q # r => req'[q] = req[q]
    BY ZenonT(60), <1>1 DEF Goto, TypeOK, Request
  <1>3. RequestInv(r)'
    BY <1>1, <1>2 DEF RequestInv, TablesForward, Request
  <1> QED
    BY <1>2, <1>3

\* Taking a request from a client.
LEMMA StartKeeps ==
    ASSUME TypeOK, NEW r \in Requests, NEW call \in Request, Start(r, call),
           call.grant = NoSession,
           call.pc \in {"CreateUser", "GetUserByEmail", "GetSession", "DeleteUser", "replied"},
           call.reply \in {"none", "invalid"},
           call.pc # "replied" => call.reply = "none",
           call.pc \in {"CreateUser", "GetUserByEmail"} => call.session = NoSession,
           call.pc = "DeleteUser" => call.op = "DeleteUser",
           call.session # NoSession => sessions[call.session].status # "free",
           call.pc = "GetSession" => call.session # NoSession,
           call.stale => call.pc = "GetSession" /\ ~Active(call.session),
           \A u \in call.barred : BarredUser(u)
    PROVE  /\ req' \in [Requests -> Request]
           /\ \A q \in Requests : q # r => req'[q] = req[q]
           /\ RequestInv(r)'
  <1>1. /\ req' \in [Requests -> Request]
        /\ req'[r] = call
        /\ \A q \in Requests : q # r => req'[q] = req[q]
        /\ UNCHANGED <<users, sessions, faults>>
    BY DEF Start, TypeOK
  <1> QED
    BY <1>1 DEF RequestInv, Active, BarredUser, Statements

\* One step of one goroutine, put together.
LEMMA Assemble ==
    ASSUME Inv, StoreInv', TablesForward,
           NEW r \in Requests,
           req' \in [Requests -> Request],
           \A q \in Requests : q # r => req'[q] = req[q],
           RequestInv(r)',
           UNCHANGED refreshHeld,
           NoFault \/ Fault
    PROVE  Inv'
  <1>1. faults \in Nat /\ faults' \in 0..MaxFaults /\ faults' >= faults
    BY SessionsAssumption DEF Inv, TypeOK, NoFault, Fault
  <1>2. TypeOK'
    BY <1>1 DEF Inv, TypeOK, StoreInv
  <1>3. TokensGranted'
    BY DEF Inv, TypeOK, TokensGranted, TablesForward
  <1>4. \A q \in Requests : RequestInv(q)'
    <2> TAKE q \in Requests
    <2>1. CASE q = r
      BY <2>1
    <2>2. CASE q # r
      BY <1>1, <2>2, OthersKeep DEF Inv
    <2> QED
      BY <2>1, <2>2
  <1> QED
    BY <1>2, <1>3, <1>4 DEF Inv, StoreInv

-----------------------------------------------------------------------------
(* The actions.                                                             *)

\* Starting a request.
LEMMA SubmitKeeps ==
    ASSUME Inv, NEW r \in Requests, Submit(r)
    PROVE  Inv'
  <1> USE DEF Statements
  <1>i. /\ Idle \in Request
        /\ Idle.grant = NoSession
        /\ Idle.session = NoSession
        /\ Idle.reply = "none"
        /\ Idle.stale = FALSE
        /\ Idle.barred = {}
    BY DEF Idle, Request, Replies, Ops
  <1>s. ASSUME NEW call \in Request, Start(r, call),
               /\ req' \in [Requests -> Request]
               /\ \A q \in Requests : q # r => req'[q] = req[q]
               /\ RequestInv(r)'
        PROVE  Inv'
    <2>1. StoreInv' /\ TablesForward
      BY <1>s, NoStatementKeeps DEF Start, Inv, TypeOK, StoreInv
    <2> QED
      BY <1>s, <2>1, Assemble DEF Start, NoFault
  <1>t. TypeOK
    BY DEF Inv
  <1>1. CASE SignUp(r)
    <2>1. PICK e \in Emails, p \in Passwords :
            Start(r, IF p \in StrongPasswords
                     THEN [[Idle EXCEPT !.op = "SignUp", !.email = e, !.password = p]
                             EXCEPT !.pc = "CreateUser"]
                     ELSE [[Idle EXCEPT !.op = "SignUp", !.email = e, !.password = p]
                             EXCEPT !.pc = "replied", !.reply = "invalid"])
      BY <1>1 DEF SignUp
    <2> DEFINE base == [Idle EXCEPT !.op = "SignUp", !.email = e, !.password = p]
               call == IF p \in StrongPasswords
                       THEN [base EXCEPT !.pc = "CreateUser"]
                       ELSE [base EXCEPT !.pc = "replied", !.reply = "invalid"]
    <2>2. /\ base \in Request
          /\ base.grant = NoSession
          /\ base.session = NoSession
          /\ base.reply = "none"
          /\ base.stale = FALSE
          /\ base.barred = {}
      BY <1>i DEF Request, Ops
    <2> HIDE DEF base
    <2>3. /\ call \in Request
          /\ call.grant = NoSession
          /\ \/ call.pc = "CreateUser" /\ call.reply = "none"
             \/ call.pc = "replied" /\ call.reply = "invalid"
          /\ call.session = NoSession
          /\ call.stale = FALSE
          /\ call.barred = {}
      BY <2>2 DEF Request, Replies
    <2>4. Start(r, call)
      BY <2>1 DEF base
    <2> HIDE DEF call
    <2> QED
      BY <2>3, <2>4, <1>s, <1>t, StartKeeps
  <1>2. CASE SignIn(r)
    <2>1. PICK e \in Emails, p \in Passwords :
            Start(r, [Idle EXCEPT !.op = "SignIn", !.pc = "GetUserByEmail", !.email = e,
                                  !.password = p, !.barred = Barred])
      BY <1>2 DEF SignIn
    <2> DEFINE call == [Idle EXCEPT !.op = "SignIn", !.pc = "GetUserByEmail", !.email = e,
                                    !.password = p, !.barred = Barred]
    <2>2. Barred \subseteq UserIds /\ \A u \in Barred : BarredUser(u)
      BY DEF Barred
    <2>3. /\ call \in Request
          /\ call.grant = NoSession
          /\ call.pc = "GetUserByEmail"
          /\ call.reply = "none"
          /\ call.session = NoSession
          /\ call.stale = FALSE
          /\ call.barred = Barred
      BY <1>i, <2>2 DEF Request, Ops
    <2> HIDE DEF call
    <2>4. Start(r, call)
      BY <2>1 DEF call
    <2> QED
      BY <2>2, <2>3, <2>4, <1>s, <1>t, StartKeeps
  <1>3. ASSUME NEW op \in Ops, WithToken(r, op)
        PROVE  Inv'
    <2>1. PICK s \in refreshHeld :
            Start(r, [Idle EXCEPT !.op = op, !.pc = "GetSession", !.session = s,
                                  !.stale = ~Active(s), !.barred = Barred])
      BY <1>3 DEF WithToken
    <2> DEFINE call == [Idle EXCEPT !.op = op, !.pc = "GetSession", !.session = s,
                                    !.stale = ~Active(s), !.barred = Barred]
    <2>2. Barred \subseteq UserIds /\ \A u \in Barred : BarredUser(u)
      BY DEF Barred
    <2>3. s \in SessionIds /\ sessions[s].status # "free" /\ s # NoSession
      BY StoreAssumption DEF Inv, TypeOK, TokensGranted
    <2>4. (~Active(s)) \in BOOLEAN
      BY DEF Active
    <2>5. /\ call \in Request
          /\ call.grant = NoSession
          /\ call.pc = "GetSession"
          /\ call.reply = "none"
          /\ call.session = s
          /\ call.stale = ~Active(s)
          /\ call.barred = Barred
      BY ZenonT(60), <1>3, <1>i, <2>2, <2>3, <2>4 DEF Request
    <2> HIDE DEF call
    <2>6. Start(r, call)
      BY <2>1 DEF call
    <2> QED
      BY <2>2, <2>3, <2>5, <2>6, <1>s, <1>t, StartKeeps
  <1>4. CASE RefreshToken(r)
    BY <1>3, <1>4 DEF RefreshToken, Ops
  <1>5. CASE SignOut(r)
    BY <1>3, <1>5 DEF SignOut, Ops
  <1>6. CASE DeleteUser(r)
    <2>1. PICK s \in refreshHeld :
            Start(r, [Idle EXCEPT !.op = "DeleteUser", !.pc = "DeleteUser",
                                  !.user = sessions[s].user])
      BY <1>6 DEF DeleteUser
    <2> DEFINE call == [Idle EXCEPT !.op = "DeleteUser", !.pc = "DeleteUser",
                                    !.user = sessions[s].user]
    <2>2. sessions[s].user \in UserIds \cup {NoUser}
      BY DEF Inv, TypeOK, StoreTypeOK, SessionRow
    <2>3. /\ call \in Request
          /\ call.grant = NoSession
          /\ call.pc = "DeleteUser"
          /\ call.op = "DeleteUser"
          /\ call.reply = "none"
          /\ call.session = NoSession
          /\ call.stale = FALSE
          /\ call.barred = {}
      BY <1>i, <2>2 DEF Request, Ops
    <2> HIDE DEF call
    <2>4. Start(r, call)
      BY <2>1 DEF call
    <2> QED
      BY <2>3, <2>4, <1>s, <1>t, StartKeeps
  <1> QED
    BY <1>1, <1>2, <1>4, <1>5, <1>6 DEF Submit

\* Executing a statement.
LEMMA ExecuteKeeps ==
    ASSUME Inv, NEW r \in Requests, Execute(r) \/ StatementFails(r)
    PROVE  Inv'
  <1> USE DEF At
  <1>t. /\ TypeOK
        /\ StoreInv
        /\ RequestInv(r)
        /\ req[r] \in Request
    BY DEF Inv, TypeOK, StoreInv
  <1>f. NoFault \/ Fault => /\ faults' \in Nat
                           /\ faults' >= faults
                           /\ faults \in Nat
    BY <1>t DEF TypeOK, NoFault, Fault
  <1>k. PICK k : k = req[r].session
    OBVIOUS
  <1>w. PICK w : w = req[r].user
    OBVIOUS
  <1>n. k \in SessionIds \cup {NoSession} /\ w \in UserIds \cup {NoUser}
    BY <1>t, <1>k, <1>w DEF Request
  <1>r. ASSUME NEW a \in Replies \ {"none", "pair"}, Reply(r, a), StoreInv', TablesForward,
               UNCHANGED refreshHeld, NoFault \/ Fault,
               faults' = 0 /\ req[r].op = "SignOut" /\ a = "done" => k # NoSession /\ ~Active(k)'
        PROVE  Inv'
    BY <1>r, <1>t, <1>k, ReplyKeeps, Assemble
  <1>g. ASSUME NEW t \in {"RevokeSession", "GetUserByID", "CreateSession"},
               NEW u \in UserIds \cup {NoUser},
               Goto(r, t, u), StoreInv', TablesForward, UNCHANGED refreshHeld, NoFault \/ Fault,
               req[r].pc \in Statements,
               ~req[r].stale,
               t \in {"RevokeSession", "GetUserByID"} => k # NoSession,
               k # NoSession => sessions'[k].user = u,
               t \in {"GetUserByID", "CreateSession"} /\ k # NoSession => ~Active(k)',
               t = "CreateSession" => u \notin req[r].barred
        PROVE  Inv'
    <2>1. req[r].reply = "none"
      BY <1>g, <1>t DEF RequestInv
    <2>2. t \in Statements \ {"GetSession", "DeleteUser"} /\ t \notin {"CreateUser", "GetUserByEmail"}
      BY <1>g DEF Statements
    <2>3. /\ req' \in [Requests -> Request]
          /\ \A q \in Requests : q # r => req'[q] = req[q]
          /\ RequestInv(r)'
      BY <1>g, <1>f, <1>t, <1>k, <2>1, <2>2, GotoKeeps
    <2> QED
      BY <1>g, <2>3, Assemble
  <1>1. CASE CreateUser(r)
    <2>1. CASE Reply(r, "conflict") /\ NoFault /\ UNCHANGED storeVars
      <3>1. StoreInv' /\ TablesForward
        BY <1>t, <2>1, NoStatementKeeps, <1>k, <1>w DEF storeVars
      <3> QED
        BY <1>1, <2>1, <3>1, <1>r, <1>k, <1>w DEF CreateUser, Replies
    <2>2. ASSUME NEW u \in UserIds, InsertUser(u, req[r].email, req[r].password),
                 Acknowledged(Goto(r, "CreateSession", u), Reply(r, "internal"))
          PROVE  Inv'
      <3>1. StoreInv' /\ TablesForward
        BY <1>t, <2>2, InsertUserKeeps, <1>k, <1>w DEF Request
      <3>2. /\ req[r].pc = "CreateUser"
            /\ UNCHANGED refreshHeld
            /\ k = NoSession
            /\ ~req[r].stale
            /\ u \notin req[r].barred
        BY <1>1, <1>t, <2>2, <1>k, <1>w DEF CreateUser, RequestInv, InsertUser, BarredUser
      <3>3. CASE Goto(r, "CreateSession", u) /\ NoFault
        BY <3>1, <3>2, <3>3, <1>g DEF Statements
      <3>4. CASE Reply(r, "internal") /\ Fault
        BY <3>1, <3>2, <3>4, <1>r DEF Replies
      <3> QED
        BY <2>2, <3>3, <3>4 DEF Acknowledged
    <2> QED
      BY <1>1, <2>1, <2>2, <1>k, <1>w DEF CreateUser
  <1>2. CASE GetUserByEmail(r)
    <2>1. /\ StoreInv'
          /\ TablesForward
          /\ UNCHANGED <<users, sessions, refreshHeld>>
          /\ NoFault
      BY <1>2, <1>t, NoStatementKeeps, <1>k, <1>w DEF GetUserByEmail, NoFault
    <2>2. ASSUME NEW a \in {"unauthorized", "banned"}, Reply(r, a)
          PROVE  Inv'
      BY <2>1, <2>2, <1>r DEF Replies
    <2>3. ASSUME NEW u \in UserWithEmail(req[r].email), ~users[u].banned,
                 Goto(r, "CreateSession", u)
          PROVE  Inv'
      <3>1. /\ u \in UserIds
            /\ req[r].pc = "GetUserByEmail"
            /\ k = NoSession
            /\ ~req[r].stale
            /\ u \notin req[r].barred
        BY <1>2, <1>t, <2>3, <1>k, <1>w DEF GetUserByEmail, UserWithEmail, RequestInv, BarredUser, Request
      <3> QED
        BY <2>1, <2>3, <3>1, <1>g DEF Statements
    <2> QED
      BY <1>2, <2>2, <2>3, <1>k, <1>w DEF GetUserByEmail
  <1>3. CASE GetSession(r)
    <2>1. /\ StoreInv'
          /\ TablesForward
          /\ UNCHANGED <<users, sessions, refreshHeld>>
          /\ NoFault
      BY <1>3, <1>t, NoStatementKeeps, <1>k, <1>w DEF GetSession, NoFault
    <2>2. /\ req[r].pc = "GetSession"
          /\ k # NoSession
          /\ k \in SessionIds
          /\ req[r].stale => ~Active(k)
      BY <1>3, <1>t, <1>n, <1>k, <1>w DEF GetSession, RequestInv
    <2>3. CASE Active(k)
               /\ Goto(r, "RevokeSession", sessions[k].user)
      <3>1. sessions[k].user \in UserIds \cup {NoUser}
        BY <1>t, <2>2, <1>k, <1>w DEF StoreInv, StoreTypeOK, SessionRow
      <3> QED
        BY <2>1, <2>2, <2>3, <3>1, <1>g DEF Statements
    <2>4. CASE ~Active(k) /\ Reply(r, "unauthorized")
      BY <2>1, <2>4, <1>r DEF Replies
    <2>5. CASE ~Active(k) /\ Reply(r, "done")
      <3>1. ~Active(k)'
        BY <2>1, <2>5 DEF Active
      <3> QED
        BY <2>1, <2>2, <2>5, <3>1, <1>r DEF Replies
    <2> QED
      BY <1>3, <2>3, <2>4, <2>5, <1>k, <1>w DEF GetSession
  <1>4. CASE RevokeSession(r)
    <2>1. /\ req[r].pc = "RevokeSession"
          /\ UNCHANGED refreshHeld
          /\ k # NoSession
          /\ k \in SessionIds
          /\ sessions[k].status # "free"
          /\ sessions[k].user = w
          /\ ~req[r].stale
          /\ w \in UserIds \cup {NoUser}
      BY <1>4, <1>t, <1>n, <1>k, <1>w DEF RevokeSession, RequestInv, Request
    <2>2. StoreInv' /\ TablesForward /\ ~Active(k)'
      BY <1>4, <1>t, <2>1, EndSessionKeeps, <1>k, <1>w DEF RevokeSession
    <2>3. CASE Acknowledged(Goto(r, "GetUserByID", w), Reply(r, "internal"))
      <3>1. CASE Goto(r, "GetUserByID", w) /\ NoFault
        <4>1. sessions'[k].user = w
          BY <2>1, <2>2 DEF TablesForward
        <4> QED
          BY <2>1, <2>2, <3>1, <4>1, <1>g DEF Statements
      <3>2. CASE Reply(r, "internal") /\ Fault
        BY <2>1, <2>2, <3>2, <1>r DEF Replies
      <3> QED
        BY <2>3, <3>1, <3>2 DEF Acknowledged
    <2>4. CASE Reply(r, "done") /\ NoFault
      BY <2>1, <2>2, <2>4, <1>r DEF Replies
    <2> QED
      BY <1>4, <2>3, <2>4, <1>k, <1>w DEF RevokeSession
  <1>5. CASE GetUserByID(r)
    <2>1. /\ StoreInv'
          /\ TablesForward
          /\ UNCHANGED <<users, sessions, refreshHeld>>
          /\ NoFault
      BY <1>5, <1>t, NoStatementKeeps, <1>k, <1>w DEF GetUserByID, NoFault
    <2>2. ASSUME NEW a \in {"internal", "banned"}, Reply(r, a)
          PROVE  Inv'
      BY <2>1, <2>2, <1>r DEF Replies
    <2>3. CASE LiveUser(w) /\ ~users[w].banned
               /\ Goto(r, "CreateSession", w)
      <3>1. /\ req[r].pc = "GetUserByID"
            /\ k # NoSession
            /\ sessions[k].user = w
            /\ ~Active(k)
            /\ ~req[r].stale
            /\ w \in UserIds
            /\ w \notin req[r].barred
        BY <1>5, <1>t, <2>3, <1>k, <1>w DEF GetUserByID, RequestInv, LiveUser, BarredUser
      <3>2. ~Active(k)' /\ sessions'[k].user = w
        BY <2>1, <3>1 DEF Active
      <3> QED
        BY <2>1, <2>3, <3>1, <3>2, <1>g DEF Statements
    <2> QED
      BY <1>5, <2>2, <2>3, <1>k, <1>w DEF GetUserByID
  <1>6. CASE CreateSession(r)
    <2>1. /\ req[r].pc = "CreateSession"
          /\ UNCHANGED refreshHeld
          /\ k # NoSession => /\ sessions[k].status # "free"
                             /\ sessions[k].user = w
                             /\ ~Active(k)
          /\ ~req[r].stale
          /\ w \notin req[r].barred
          /\ req[r].reply = "none"
      BY <1>6, <1>t, <1>k, <1>w DEF CreateSession, RequestInv, Statements
    <2>2. CASE Reply(r, "internal") /\ NoFault /\ UNCHANGED storeVars
      <3>1. StoreInv' /\ TablesForward
        BY <1>t, <2>2, NoStatementKeeps DEF storeVars
      <3> QED
        BY <2>1, <2>2, <3>1, <1>r DEF Replies
    <2>3. ASSUME NEW s \in SessionIds, InsertSession(s, w, k),
                 Acknowledged(ReplyPair(r, s), Reply(r, "internal"))
          PROVE  Inv'
      <3>1. StoreInv' /\ TablesForward
        BY <1>t, <1>n, <2>1, <2>3, InsertSessionKeeps
      <3>2. CASE Reply(r, "internal") /\ Fault
        BY <2>1, <3>1, <3>2, <1>r DEF Replies
      <3>3. CASE ReplyPair(r, s) /\ NoFault
        <4>1. /\ req' \in [Requests -> Request]
              /\ \A q \in Requests : q # r => req'[q] = req[q]
              /\ req'[r].op = req[r].op
              /\ req'[r].session = req[r].session
              /\ req'[r].user = req[r].user
              /\ req'[r].stale = req[r].stale
              /\ req'[r].barred = req[r].barred
              /\ req'[r].pc = "replied"
              /\ req'[r].reply = "pair"
              /\ req'[r].grant = s
          <5> DEFINE answer == [req[r] EXCEPT !.pc = "replied", !.reply = "pair", !.grant = s]
          <5>1. /\ answer \in Request
                /\ answer.op = req[r].op
                /\ answer.session = req[r].session
                /\ answer.user = req[r].user
                /\ answer.stale = req[r].stale
                /\ answer.barred = req[r].barred
                /\ answer.pc = "replied"
                /\ answer.reply = "pair"
                /\ answer.grant = s
            BY ZenonT(60), <1>t DEF Request, Replies
          <5>2. req' = [req EXCEPT ![r] = answer]
            BY <3>3 DEF ReplyPair
          <5> HIDE DEF answer
          <5> QED
            BY <1>t, <5>1, <5>2 DEF TypeOK
        <4>2. sessions'[s].status = "live"
          BY <2>3, <1>t DEF InsertSession, StoreInv, StoreTypeOK, SessionRow, FreeSession
        <4>3. \A u \in req[r].barred : u \in UserIds /\ BarredUser(u)'
          BY <1>t, <3>1 DEF RequestInv, TablesForward, Request
        <4>4. RequestInv(r)'
          BY <1>k, <1>w, <1>n, <2>1, <3>1, <4>1, <4>2, <4>3, StoreAssumption
             DEF RequestInv, Statements, TablesForward
        <4> QED
          BY <2>1, <3>1, <3>3, <4>1, <4>4, Assemble
      <3> QED
        BY <2>3, <3>2, <3>3 DEF Acknowledged
    <2> QED
      BY <1>6, <1>k, <1>w, <2>2, <2>3 DEF CreateSession
  <1>7. CASE DeleteUserStatement(r)
    <2>1. StoreInv' /\ TablesForward
      BY <1>7, <1>t, <1>w, <1>n, DeleteUserRowKeeps DEF DeleteUserStatement
    <2>2. CASE Reply(r, "done") /\ NoFault
      <3>1. req[r].op = "DeleteUser"
        BY <1>7, <1>t DEF DeleteUserStatement, RequestInv
      <3> QED
        BY <1>7, <2>1, <2>2, <3>1, <1>k, <1>r DEF DeleteUserStatement, Replies
    <2>3. CASE Reply(r, "internal") /\ Fault
      BY <1>7, <2>1, <2>3, <1>r DEF DeleteUserStatement, Replies
    <2> QED
      BY <1>7, <2>2, <2>3 DEF DeleteUserStatement, Acknowledged
  <1>8. CASE StatementFails(r)
    <2>1. /\ StoreInv'
          /\ TablesForward
          /\ UNCHANGED refreshHeld
          /\ Fault
      BY <1>8, <1>t, NoStatementKeeps DEF StatementFails
    <2>2. faults' # 0
      BY <2>1, <1>t DEF Fault, TypeOK
    <2>3. (IF req[r].op = "SignOut" THEN "done" ELSE "internal") \in Replies \ {"none", "pair"}
      BY DEF Replies
    <2> QED
      BY <1>8, <2>1, <2>2, <2>3, <1>r DEF StatementFails
  <1> QED
    BY <1>1, <1>2, <1>3, <1>4, <1>5, <1>6, <1>7, <1>8 DEF Execute

\* What happens around the service.
LEMMA EnvironmentKeeps ==
    ASSUME Inv,
           (\E r \in Requests : Deliver(r) \/ LoseReply(r)) \/ Environment
    PROVE  Inv'
  <1>t. TypeOK /\ StoreInv
    BY DEF Inv, TypeOK, StoreInv
  <1>f. NoFault \/ Fault => faults' \in 0..MaxFaults /\ faults' >= faults
    BY <1>t, SessionsAssumption DEF TypeOK, NoFault, Fault
  <1>a. ASSUME StoreInv', TablesForward, NoFault \/ Fault, TokensGranted', refreshHeld' \subseteq SessionIds,
               req' \in [Requests -> Request],
               \A q \in Requests : req'[q] = req[q] \/ req'[q] = Idle
        PROVE  Inv'
    <2>1. \A q \in Requests : RequestInv(q)'
      BY <1>a, <1>t, <1>f, OthersKeep, IdleInv DEF Inv
    <2> QED
      BY <1>a, <1>f, <2>1 DEF Inv, TypeOK, StoreInv
  <1>1. ASSUME NEW r \in Requests, Deliver(r) \/ LoseReply(r)
        PROVE  Inv'
    <2>1. StoreInv' /\ TablesForward
      BY <1>1, <1>t, NoStatementKeeps DEF Deliver, LoseReply
    <2>2. /\ req' \in [Requests -> Request]
          /\ \A q \in Requests : req'[q] = req[q] \/ req'[q] = Idle
      BY ZenonT(60), <1>1, <1>t, IdleInv DEF Deliver, LoseReply, TypeOK, Idle, Request, Replies, Ops
    <2>3. /\ refreshHeld' \subseteq SessionIds
          /\ \A s \in refreshHeld' : sessions'[s].status # "free"
      <3>1. req[r] \in Request
        BY <1>t DEF TypeOK
      <3>2. /\ UNCHANGED sessions
            /\ \A s \in refreshHeld' : s \in refreshHeld
                                     \/ (req[r].reply = "pair" /\ s = req[r].grant)
        BY <1>1 DEF Deliver, LoseReply
      <3>3. req[r].reply = "pair" => /\ req[r].grant \in SessionIds
                                     /\ sessions[req[r].grant].status # "free"
        BY <3>1 DEF Inv, RequestInv, Request
      <3> QED
        BY <1>t, <3>2, <3>3 DEF Inv, TypeOK, TokensGranted
    <2> QED
      BY <1>1, <1>a, <2>1, <2>2, <2>3 DEF Deliver, LoseReply, NoFault, TokensGranted
  <1>2. CASE Crash
    <2>1. StoreInv' /\ TablesForward
      BY <1>2, <1>t, NoStatementKeeps DEF Crash
    <2>2. req' \in [Requests -> Request] /\ \A q \in Requests : req'[q] = Idle
      BY <1>2 DEF Crash, Idle, Request, Replies, Ops
    <2> QED
      BY <1>2, <1>a, <1>t, <2>1, <2>2 DEF Crash, Inv, TypeOK, TokensGranted
  <1>3. ASSUME StoreInv', TablesForward, UNCHANGED <<req, refreshHeld, faults>>
        PROVE  Inv'
    <2>1. TokensGranted'
      BY <1>3, <1>t DEF Inv, TypeOK, TokensGranted, TablesForward
    <2> QED
      BY <1>3, <1>a, <1>t, <2>1 DEF TypeOK, NoFault
  <1>4. ASSUME NEW u \in UserIds, Ban(u)
        PROVE  Inv'
    BY <1>3, <1>4, <1>t, BanUserRowKeeps DEF Ban
  <1>5. ASSUME NEW s \in SessionIds, SessionExpires(s)
        PROVE  Inv'
    BY <1>3, <1>5, <1>t, EndSessionKeeps DEF SessionExpires
  <1> QED
    BY <1>1, <1>2, <1>4, <1>5 DEF Environment

\* Nothing happens, or only the bound is reached.
LEMMA StutterKeeps ==
    ASSUME Inv, UNCHANGED vars
    PROVE  Inv'
  <1>1. StoreInv'
    BY NoStatementKeeps DEF Inv, TypeOK, StoreInv, vars
  <1>2. \A q \in Requests : RequestInv(q)'
    BY DEF Inv, RequestInv, vars, Active, BarredUser
  <1> QED
    BY <1>1, <1>2 DEF Inv, TypeOK, StoreInv, TokensGranted, vars

-----------------------------------------------------------------------------
(* The theorems.                                                            *)

\* The inductive invariant: in every state the tables are consistent and
\* every request in flight knows what its next statement relies on.
THEOREM Invariance == Spec => []Inv
  <1>1. Init => Inv
    <2> SUFFICES ASSUME Init
                 PROVE  Inv
      OBVIOUS
    <2>1. TypeOK
      BY SessionsAssumption DEF Init, StoreInit, TypeOK, StoreTypeOK, UserRow, SessionRow, FreeUser,
           FreeSession, Idle, Request, Replies, Ops
    <2>2. \A r \in Requests : RequestInv(r)
      BY DEF Init, RequestInv, Idle, Statements
    <2> QED
      BY <2>1, <2>2 DEF Init, StoreInit, Inv, FreeSession, SessionsHaveAccounts,
                        RotationEndsPredecessor, OwnersKnown, TokensGranted
  <1>2. Inv /\ [Next]_vars => Inv'
    BY SubmitKeeps, ExecuteKeeps, EnvironmentKeeps, StutterKeeps DEF Next, Exhausted
  <1> QED
    BY <1>1, <1>2, PTL DEF Spec

\* Every variable of the service and of its database keeps its type: no request is
\* ever in a state its handler has no statement for.
THEOREM TypeOKAlways == Spec => []TypeOK
  BY Invariance, PTL DEF Inv

\* Every live session belongs to an account that exists.
THEOREM SessionsHaveAccountsAlways == Spec => []SessionsHaveAccounts
  BY Invariance, PTL DEF Inv

\* Once a refresh has produced a session, the token it was paid with is dead.
THEOREM RotationAlways == Spec => []RotationEndsPredecessor
  BY Invariance, PTL DEF Inv

\* A refresh that started with a dead token is never answered with a pair.
THEOREM StaleTokenAlwaysRefused == Spec => []StaleTokenRefused
  <1>1. Inv => StaleTokenRefused
    BY DEF Inv, RequestInv, StaleTokenRefused, Statements
  <1> QED
    BY <1>1, Invariance, PTL

\* No pair is issued for an account banned or deleted before the request began.
THEOREM BarredAccountAlwaysRefused == Spec => []BarredAccountRefused
  <1>1. Inv => BarredAccountRefused
    BY DEF Inv, RequestInv, BarredAccountRefused
  <1> QED
    BY <1>1, Invariance, PTL

\* Without database faults an answered sign-out has ended its session.
THEOREM SignOutAlwaysEnds == Spec => []SignOutEndsSession
  <1>1. Inv => SignOutEndsSession
    BY DEF Inv, RequestInv, SignOutEndsSession
  <1> QED
    BY <1>1, Invariance, PTL

-----------------------------------------------------------------------------
(* AuthSessions implements SessionLedger: every statement of every request *)
(* is one step of the ledger, or none.                                     *)

-----------------------------------------------------------------------------
\* Every step of the service is a step of the ledger or leaves it alone.
LEMMA StepMaps ==
    ASSUME Inv, [Next]_vars
    PROVE  [Ledger!Next]_Ledger!vars
  <1>t. StoreInv /\ TypeOK
    BY DEF Inv, TypeOK, StoreInv
  <1>1. CASE UNCHANGED <<users, sessions>>
    BY <1>1, NoStatementMaps
  <1>2. ASSUME NEW r \in Requests, Execute(r)
        PROVE  [Ledger!Next]_Ledger!vars
    <2>k. PICK k, w : k = req[r].session /\ w = req[r].user
      OBVIOUS
    <2>r. /\ req[r] \in Request
          /\ RequestInv(r)
          /\ k \in SessionIds \cup {NoSession}
          /\ w \in UserIds \cup {NoUser}
      BY <1>t, <2>k DEF Inv, TypeOK, Request
    <2>1. CASE CreateUser(r)
      <3>1. CASE UNCHANGED storeVars
        BY <3>1, NoStatementMaps DEF storeVars
      <3>2. ASSUME NEW u \in UserIds, InsertUser(u, req[r].email, req[r].password)
            PROVE  Ledger!OpenAccount(u)
        BY <1>t, <2>r, <3>2, InsertUserMaps DEF Request
      <3> QED
        BY <2>1, <3>1, <3>2 DEF CreateUser, Ledger!Next
    <2>2. CASE GetUserByEmail(r) \/ GetSession(r) \/ GetUserByID(r)
      BY <2>2, NoStatementMaps DEF GetUserByEmail, GetSession, GetUserByID
    <2>3. CASE RevokeSession(r)
      <3>1. k \in SessionIds /\ MarkRevoked(k)
        BY <2>3, <2>k, <2>r DEF RevokeSession, RequestInv, At
      <3> QED
        BY <1>t, <3>1, EndSessionMaps DEF Ledger!Next
    <2>4. CASE CreateSession(r)
      <3>1. CASE UNCHANGED storeVars
        BY <3>1, NoStatementMaps DEF storeVars
      <3>2. ASSUME NEW s \in SessionIds, InsertSession(s, w, k)
            PROVE  w \in UserIds /\ Ledger!Grant(s, w, k)
        <4>1. w \in UserIds
          BY <3>2 DEF InsertSession, LiveUser
        <4>2. k # NoSession => /\ ~Active(k)
                               /\ sessions[k].status # "free"
                               /\ sessions[k].user = w
          BY <2>4, <2>k, <2>r DEF CreateSession, RequestInv, At
        <4> QED
          BY <1>t, <2>r, <3>2, <4>1, <4>2, InsertSessionMaps
      <3> QED
        BY <2>4, <2>k, <2>r, <3>1, <3>2 DEF CreateSession, Ledger!Next
    <2>5. CASE DeleteUserStatement(r)
      <3>1. DeleteUserRow(w)
        BY <2>5, <2>k DEF DeleteUserStatement
      <3> QED
        BY <1>t, <2>r, <3>1, DeleteUserMaps DEF Ledger!Next
    <2> QED
      BY <1>2, <2>1, <2>2, <2>3, <2>4, <2>5 DEF Execute
  <1>3. ASSUME NEW u \in UserIds, Ban(u)
        PROVE  UNCHANGED Ledger!vars
    BY <1>t, <1>3, BanMaps DEF Ban
  <1>4. ASSUME NEW s \in SessionIds, SessionExpires(s)
        PROVE  [Ledger!Next]_Ledger!vars
    BY <1>t, <1>4, EndSessionMaps DEF SessionExpires, Ledger!Next
  <1>5. ASSUME NEW r \in Requests,
               Submit(r) \/ StatementFails(r) \/ Deliver(r) \/ LoseReply(r)
        PROVE  UNCHANGED <<users, sessions>>
    BY <1>5 DEF Submit, SignUp, SignIn, RefreshToken, SignOut, WithToken, DeleteUser, Start,
                StatementFails, Deliver, LoseReply
  <1> QED
    BY <1>1, <1>2, <1>3, <1>4, <1>5 DEF Next, Environment, Crash, Exhausted, vars

\* The service keeps the ledger: accounts open and close once, a token is
\* granted to an open account for credentials or for an ended token of the
\* same account, and a token that has ended never works again.
THEOREM Refinement == Spec => LedgerSpec
  <1>1. Init => Ledger!Init
    BY DEF Init, StoreInit, FreeUser, FreeSession, Ledger!Init, AccountState, TokenState
  <1>2. Inv /\ [Next]_vars => [Ledger!Next]_Ledger!vars
    BY StepMaps
  <1> QED
    BY <1>1, <1>2, Invariance, PTL DEF Spec, LedgerSpec, Ledger!Spec

=============================================================================
