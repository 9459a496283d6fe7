----------------------------- MODULE EngineRows -----------------------------
(***************************************************************************)
(* Row requests and scoped SQL of the engine on pooled connections: which   *)
(* statements a handler sends on which of its two ports, what PostgreSQL    *)
(* does with each, and in which state the connection goes back to the pool. *)
(* A handler whose client went away is dropped between two statements, and  *)
(* the pool hands its connection on as it is (deadpool's fast recycling     *)
(* only asks whether it is closed).  EnginePool has the pool's capacity and *)
(* the schema lock; here a request waits for one free connection.           *)
(***************************************************************************)
EXTENDS Integers, Sequences, Answers

CONSTANTS
    Requests,
    Conns,        \* connections of the pool
    Users,        \* user ids a verified token may carry
    Anonymous,    \* no x-user-id header, no verified token
    NoConn,
    MaxFaults     \* bound: failures of PostgreSQL or of a connection

ASSUME EngineRowsAssumption ==
    /\ Anonymous \notin Users
    /\ NoConn \notin Conns
    /\ MaxFaults \in Nat

VARIABLES
    session,   \* session[c]: the PostgreSQL side of connection c
    job,       \* job[r]: the engine's handler of request r
    rows,      \* requests whose write is committed
    faults

engineVars == <<session, job, rows, faults>>

Callers == Users \cup {Anonymous}

\* "uid" is request.user_id; "wrote": uncommitted writes of the open transaction.
Session == [tx : {"none", "open", "failed"}, role : {"owner", "anon", "authenticated"},
            uid : Callers, readonly : BOOLEAN, wrote : SUBSET Requests]

Fresh == [tx |-> "none", role |-> "owner", uid |-> Anonymous, readonly |-> FALSE, wrote |-> {}]

RowRpcs == {"ListRows", "GetRow", "InsertRow", "UpdateRow", "DeleteRow"}
Writers == {"InsertRow", "UpdateRow", "DeleteRow"}
Rpcs == RowRpcs \cup {"ExecuteSQL", "ListTables", "GetSchema", "ReloadSchema"}

Statements == {"BEGIN", "SearchPath", "ReadOnly", "Role", "UserId", "Query", "COMMIT"}

NotRun == [role |-> "none", uid |-> Anonymous]

\* What a request tells the engine; "writes": the statement changes data.
Message == [rpc : Rpcs \cup {"none"}, user_id : Callers, readwrite : BOOLEAN, writes : BOOLEAN]

message(rpc, user) == [rpc |-> rpc, user_id |-> user, readwrite |-> FALSE,
                       writes |-> rpc \in Writers]

\* "ran" is who PostgreSQL took the caller of a row request for; "inherited": the
\* connection came with a transaction of someone else; "unkept": the COMMIT failed.
Job == [m : Message, port : {"grpc", "http"}, pc : {"idle", "wait", "run", "rollback", "done"},
        left : Seq(Statements), conn : Conns \cup {NoConn},
        code : Codes, ran : [role : {"none", "owner", "anon", "authenticated"}, uid : Callers],
        inherited : BOOLEAN, unkept : BOOLEAN]

NoJob == [m |-> message("none", Anonymous), port |-> "grpc", pc |-> "idle", left |-> <<>>,
          conn |-> NoConn, code |-> "OK", ran |-> NotRun, inherited |-> FALSE, unkept |-> FALSE]

EngineTypeOK ==
    /\ session \in [Conns -> Session]
    /\ job \in [Requests -> Job]
    /\ rows \subseteq Requests
    /\ faults \in 0..MaxFaults

EngineInit ==
    /\ session = [c \in Conns |-> Fresh]
    /\ job = [r \in Requests |-> NoJob]
    /\ rows = {}
    /\ faults = 0

-----------------------------------------------------------------------------
(* The messages of the gRPC port: which of them say who is calling.         *)

ListRowsRequest(user) == message("ListRows", user)
GetRowRequest(user) == message("GetRow", user)
InsertRowRequest(user) == message("InsertRow", user)
UpdateRowRequest(user) == message("UpdateRow", user)
DeleteRowRequest(user) == message("DeleteRow", user)

ExecuteSQLRequest(readwrite, writes) ==
    [message("ExecuteSQL", Anonymous) EXCEPT !.readwrite = readwrite, !.writes = writes]

ListTablesRequest == message("ListTables", Anonymous)
GetSchemaRequest == message("GetSchema", Anonymous)
ReloadSchemaRequest == message("ReloadSchema", Anonymous)

-----------------------------------------------------------------------------
(* The statements of a handler.                                             *)

role_of(user) == IF user = Anonymous THEN "anon" ELSE "authenticated"

\* Mutant: role and user are set before the transaction begins.
set_rls_context_Early == <<"Role", "UserId", "BEGIN">>

set_rls_context == <<"BEGIN", "Role", "UserId">>

If(condition, statement) == IF condition THEN <<statement>> ELSE <<>>

http_row == set_rls_context \o <<"Query", "COMMIT">>

http_execute_sql(m) ==
    <<"BEGIN", "SearchPath">>
      \o If(~m.readwrite, "Role") \o If(~m.readwrite, "ReadOnly")
      \o If(m.user_id # Anonymous, "UserId") \o <<"Query", "COMMIT">>

\* The user_id of the message is not read: no transaction, no role.
grpc_row == <<"Query">>

\* Mutant: READ ONLY is set before the transaction begins.
grpc_execute_sql_ReadOnlyFirst(m) ==
    If(~m.readwrite, "ReadOnly") \o <<"BEGIN", "SearchPath", "Query", "COMMIT">>

grpc_execute_sql(m) ==
    <<"BEGIN", "SearchPath">> \o If(~m.readwrite, "ReadOnly") \o <<"Query", "COMMIT">>

Program(m, port) ==
    CASE m.rpc \in RowRpcs /\ port = "http" -> http_row
      [] m.rpc = "ExecuteSQL" /\ port = "http" -> http_execute_sql(m)
      [] m.rpc = "ExecuteSQL" /\ port = "grpc" -> grpc_execute_sql(m)
      [] OTHER -> grpc_row

HttpRow(j) == j.port = "http" /\ j.m.rpc \in RowRpcs
InTransaction(j) == HttpRow(j) \/ j.m.rpc = "ExecuteSQL"

-----------------------------------------------------------------------------
(* PostgreSQL: one statement on one session.                                *)

\* COMMIT of a failed transaction rolls it back and is not an error.
Rejects(s, statement, writes) ==
    \/ s.tx = "failed" /\ statement # "COMMIT"
    \/ statement = "Query" /\ writes /\ s.readonly

\* BEGIN inside a transaction and SET LOCAL outside one only warn.
After(s, statement, user, r, writes) ==
    CASE statement = "BEGIN" /\ s.tx = "none" -> [s EXCEPT !.tx = "open"]
      [] statement = "Role" /\ s.tx = "open" -> [s EXCEPT !.role = role_of(user)]
      [] statement = "UserId" /\ s.tx = "open" -> [s EXCEPT !.uid = user]
      [] statement = "ReadOnly" /\ s.tx = "open" -> [s EXCEPT !.readonly = TRUE]
      [] statement = "Query" /\ s.tx = "open" /\ writes -> [s EXCEPT !.wrote = @ \cup {r}]
      [] statement = "COMMIT" -> Fresh
      [] OTHER -> s

AfterError(s, statement) ==
    IF s.tx = "none" \/ statement = "COMMIT" THEN Fresh
    ELSE [s EXCEPT !.tx = "failed", !.wrote = {}]

\* What becomes durable when the statement succeeds.
Durable(s, statement, r, writes) ==
    CASE statement = "COMMIT" -> s.wrote
      [] statement = "Query" /\ s.tx = "none" /\ writes -> {r}
      [] OTHER -> {}

-----------------------------------------------------------------------------
(* Handlers.                                                                *)

\* Mutant: the pool hands out a connection in use.
Free_Shared(c) == c \in Conns

Free(c) == \A r \in Requests : job[r].conn # c

\* The answers that need no connection: an unknown table, a bad parameter, body or
\* SQL text, and the cached schema.
Immediate(m) ==
    CASE m.rpc \in RowRpcs -> {"NotFound", "InvalidArgument"}
      [] m.rpc = "ExecuteSQL" -> {"InvalidArgument"}
      [] m.rpc = "GetSchema" -> {"OK", "NotFound"}
      [] OTHER -> {}

Handle(r, m, port) ==
    LET j == [NoJob EXCEPT !.m = m, !.port = port]
    IN  \/ /\ m.rpc # "GetSchema"
           /\ job' = [job EXCEPT ![r] = [j EXCEPT !.pc = "wait", !.left = Program(m, port)]]
        \/ \E code \in Immediate(m) :
             job' = [job EXCEPT ![r] = [j EXCEPT !.pc = "done", !.code = code]]

Acquire(r) ==
    /\ job[r].pc = "wait"
    /\ \E c \in Conns :
         /\ Free(c)
         /\ job' = [job EXCEPT ![r].pc = "run", ![r].conn = c,
                               ![r].inherited = session[c].tx # "none"]
    /\ UNCHANGED <<session, rows, faults>>

\* A request waits for a new connection and PostgreSQL refuses it.
AcquireFails(r) ==
    /\ job[r].pc = "wait"
    /\ faults < MaxFaults
    /\ faults' = faults + 1
    /\ job' = [job EXCEPT ![r].pc = "done", ![r].code = "Internal", ![r].left = <<>>]
    /\ UNCHANGED <<session, rows>>

At(r, statement) == job[r].pc = "run" /\ Head(job[r].left) = statement

\* The answer goes out and the guard returns the connection to the pool.
Done(j, code) == [j EXCEPT !.pc = "done", !.code = code, !.conn = NoConn, !.left = <<>>]

\* A query that finds no row is no error; the handler tells the caller later.
Found(j) == {"OK"} \cup (IF j.m.rpc \in {"GetRow", "UpdateRow", "DeleteRow"} THEN {"NotFound"} ELSE {})

Advance(j) ==
    IF Len(j.left) = 1 THEN Done(j, j.code) ELSE [j EXCEPT !.left = Tail(@)]

Setup(r) ==
    LET j == job[r] s == session[job[r].conn] statement == Head(job[r].left)
    IN  /\ j.pc = "run"
        /\ statement \notin {"Query", "COMMIT"}
        /\ ~Rejects(s, statement, j.m.writes)
        /\ session' = [session EXCEPT ![j.conn] = After(s, statement, j.m.user_id, r, j.m.writes)]
        /\ job' = [job EXCEPT ![r] = Advance(j)]
        /\ UNCHANGED <<rows, faults>>

Query(r) ==
    LET j == job[r] s == session[job[r].conn]
    IN  /\ At(r, "Query")
        /\ ~Rejects(s, "Query", j.m.writes)
        /\ \E code \in Found(j) :
             LET writes == j.m.writes /\ code = "OK"
             IN  /\ session' = [session EXCEPT
                                  ![j.conn] = After(s, "Query", j.m.user_id, r, writes)]
                 /\ rows' = rows \cup Durable(s, "Query", r, writes)
                 /\ job' = [job EXCEPT ![r] = Advance([j EXCEPT !.code = code,
                              !.ran = IF j.m.rpc \in RowRpcs
                                      THEN [role |-> s.role, uid |-> s.uid] ELSE NotRun])]
        /\ UNCHANGED faults

Commit(r) ==
    LET j == job[r] s == session[job[r].conn]
    IN  /\ At(r, "COMMIT")
        /\ session' = [session EXCEPT ![j.conn] = After(s, "COMMIT", j.m.user_id, r, j.m.writes)]
        /\ rows' = rows \cup Durable(s, "COMMIT", r, j.m.writes)
        /\ job' = [job EXCEPT ![r] = Advance(j)]
        /\ UNCHANGED faults


\* Mutant: every error of a statement is called the caller's mistake.
QueryErrors_CallersMistake(j) == {"InvalidArgument"}

QueryErrors(j) ==
    CASE j.m.rpc = "ListTables" -> {"OK"}
      [] j.port = "http" /\ j.m.rpc = "ExecuteSQL" -> {"InvalidArgument", "PermissionDenied"}
      [] j.port = "http" -> {"Internal", "PermissionDenied"}
      [] j.m.rpc = "ExecuteSQL" -> {"InvalidArgument"}
      [] OTHER -> {"Internal"}


\* Mutant: the outcome of COMMIT is ignored by every handler.
Failed_CommitIgnored(j, statement) ==
    CASE statement = "Query" /\ InTransaction(j) ->
           {[j EXCEPT !.pc = "rollback", !.code = code] : code \in QueryErrors(j)}
      [] statement = "Query" /\ ~InTransaction(j) -> {Done(j, code) : code \in QueryErrors(j)}
      [] statement = "COMMIT" -> {Done([j EXCEPT !.unkept = HttpRow(j)], j.code)}
      [] OTHER -> {Done(j, "Internal")}

\* Mutant: a row handler reports a COMMIT whose answer did not arrive as an error.
Failed_CommitReported(j, statement) ==
    CASE statement = "Query" /\ InTransaction(j) ->
           {[j EXCEPT !.pc = "rollback", !.code = code] : code \in QueryErrors(j)}
      [] statement = "Query" /\ ~InTransaction(j) -> {Done(j, code) : code \in QueryErrors(j)}
      [] OTHER -> {Done(j, "Internal")}

\* The statement came back with an error.  Only an error of the query is followed
\* by a ROLLBACK, and a row handler does not look at the outcome of its COMMIT.
Failed(j, statement) ==
    CASE statement = "Query" /\ InTransaction(j) ->
           {[j EXCEPT !.pc = "rollback", !.code = code] : code \in QueryErrors(j)}
      [] statement = "Query" /\ ~InTransaction(j) -> {Done(j, code) : code \in QueryErrors(j)}
      [] statement = "COMMIT" /\ HttpRow(j) -> {Done([j EXCEPT !.unkept = TRUE], j.code)}
      [] OTHER -> {Done(j, "Internal")}

\* The caller's own mistake, the state of the connection, or a fault.
StatementFails(r) ==
    LET j == job[r] s == session[job[r].conn] statement == Head(job[r].left)
        expected == statement = "Query" \/ Rejects(s, statement, j.m.writes)
    IN  /\ j.pc = "run"
        /\ expected \/ faults < MaxFaults
        /\ faults' = faults + (IF expected THEN 0 ELSE 1)
        /\ session' = [session EXCEPT ![j.conn] = AfterError(s, statement)]
        /\ job' \in {[job EXCEPT ![r] = k] : k \in Failed(j, statement)}
        /\ UNCHANGED rows

\* The connection breaks: the server rolls back, or has committed and cannot say so.
\* The pool replaces a closed connection by a new one.
ConnectionLost(r) ==
    LET j == job[r] s == session[job[r].conn] statement == Head(job[r].left)
    IN  /\ j.pc = "run"
        /\ faults < MaxFaults
        /\ faults' = faults + 1
        /\ \E happened \in {{}, Durable(s, statement, r, j.m.writes)} :
             /\ Rejects(s, statement, j.m.writes) => happened = {}
             /\ rows' = rows \cup happened
        /\ session' = [session EXCEPT ![j.conn] = Fresh]
        /\ job' \in {[job EXCEPT ![r] = k] : k \in Failed(j, statement)}

Rollback(r) ==
    LET j == job[r]
    IN  /\ j.pc = "rollback"
        /\ session' = [session EXCEPT ![j.conn] = Fresh]
        /\ job' = [job EXCEPT ![r] = Done(j, j.code)]
        /\ UNCHANGED <<rows, faults>>

Running(r) == job[r].pc \in {"wait", "run", "rollback"}

\* The peers of "gone" are gone: each handler's future is dropped where it waits.
Drop(gone) ==
    job' = [r \in Requests |-> IF r \in gone /\ Running(r)
              THEN [NoJob EXCEPT !.m = job[r].m, !.pc = "done", !.code = "Canceled"] ELSE job[r]]

EngineStep(r) ==
    \/ Acquire(r) \/ AcquireFails(r)
    \/ Setup(r) \/ Query(r) \/ Commit(r) \/ Rollback(r)
    \/ StatementFails(r) \/ ConnectionLost(r)

-----------------------------------------------------------------------------

\* A row request on the engine's own port runs under the caller of that request,
\* also on a connection that comes with the transaction of a request that was
\* given up (routes.rs, set_rls_context).
HttpRowsUnderCaller ==
    \A r \in Requests : HttpRow(job[r]) /\ job[r].ran # NotRun =>
        job[r].ran = [role |-> role_of(job[r].m.user_id), uid |-> job[r].m.user_id]

\* A write that was answered with success stays: it is lost only if the handler
\* threw away the error of its COMMIT, or if a row request of the gRPC port was
\* given a connection in the middle of somebody else's transaction.
AnsweredWriteKept ==
    \A r \in Requests :
        LET j == job[r]
        IN  /\ j.pc = "done" /\ j.code = "OK" /\ j.m.writes
            /\ ~j.unkept
            /\ ~(j.inherited /\ ~InTransaction(j))
            => r \in rows

\* A row request of the engine's own port that was answered with an error has
\* written nothing, and no later COMMIT on the connection writes it.
RefusedRowLeavesNothing ==
    \A r \in Requests : HttpRow(job[r]) /\ job[r].pc = "done" /\ job[r].code \notin {"OK", "Canceled"} =>
        r \notin rows \cup UNION {session[c].wrote : c \in Conns}

\* SQL that was not asked for in readwrite mode never writes, whatever transaction
\* the connection brings along.
ReadOnlyQueryWritesNothing ==
    \A r \in Requests : job[r].m.rpc = "ExecuteSQL" /\ ~job[r].m.readwrite =>
        r \notin rows \cup UNION {session[c].wrote : c \in Conns}

\* "Access rules define row-level security policies.  They are enforced by the
\* Engine at query time" (docs/site/schema.md:144): every row request runs under
\* the role and the user id of its caller.
RulesEnforced ==
    \A r \in Requests : job[r].m.rpc \in RowRpcs /\ job[r].ran # NotRun =>
        job[r].ran = [role |-> role_of(job[r].m.user_id), uid |-> job[r].m.user_id]
=============================================================================
