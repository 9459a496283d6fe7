------------------------------ MODULE Gateway ------------------------------
(***************************************************************************)
(* The gateway in front of the engine, auth and storage: the routes and the *)
(* middleware before them, one gRPC call (or one HTTP request passed        *)
(* through) per request, and how the outcome becomes an HTTP status.        *)
(* Composed with EngineRows, which also serves clients on its own port.     *)
(* The process stops without waiting for the requests it is handling, and a *)
(* client may go away at any time; either cancels the call.                 *)
(***************************************************************************)
EXTENDS EngineRows

CONSTANT
    Load       \* bound: Load[r] are the routes and calls that request r may take

VARIABLES
    call       \* call[r]: what the client of request r sees

vars == <<engineVars, call>>

Cut == 0       \* no answer: the connection of the client is gone
Unset == 1

-----------------------------------------------------------------------------
(* Routes.  "signedIn": refused without a user.  "body": a body that is no  *)
(* JSON or no form is refused before the call.  "ok": status of a success.  *)

route(service, op, ok) ==
    [service |-> service, op |-> op, signedIn |-> FALSE, body |-> FALSE, ok |-> ok]

requireAuth(handler) == [handler EXCEPT !.signedIn = TRUE]
Body(handler) == [handler EXCEPT !.body = TRUE]

ListRows == route("engine", "ListRows", 200)
GetRow == route("engine", "GetRow", 200)
InsertRow == route("engine", "InsertRow", 201)
UpdateRow == route("engine", "UpdateRow", 200)
DeleteRow == route("engine", "DeleteRow", 204)
ListTables == route("engine", "ListTables", 200)
GetSchema == route("engine", "GetSchema", 200)
GetSchemaTable == route("engine", "GetSchema", 200)
ReloadSchema == route("engine", "ReloadSchema", 200)
ExecuteSQL == Body(route("engine", "ExecuteSQL", 200))
MigratePreview == route("engine_http", "MigratePreview", 200)
MigrateApply == route("engine_http", "MigrateApply", 201)

EngineRoutes ==
    [ListRows |-> ListRows, GetRow |-> GetRow, InsertRow |-> InsertRow,
     UpdateRow |-> UpdateRow, DeleteRow |-> DeleteRow, ListTables |-> ListTables,
     GetSchema |-> GetSchema, GetSchemaTable |-> GetSchemaTable,
     ReloadSchema |-> ReloadSchema, ExecuteSQL |-> ExecuteSQL,
     MigratePreview |-> MigratePreview, MigrateApply |-> MigrateApply]

SignUp == Body(route("auth", "SignUp", 201))
SignIn == Body(route("auth", "SignIn", 200))
RefreshToken == Body(route("auth", "RefreshToken", 200))
SignOut == Body(route("auth", "SignOut", 204))
GetUser == requireAuth(route("auth", "GetUser", 200))
DeleteUser == requireAuth(route("auth", "DeleteUser", 204))
OAuthInitiate == route("auth_http", "OAuthInitiate", 302)
OAuthCallback == route("auth_http", "OAuthCallback", 302)

AuthRoutes ==
    [SignUp |-> SignUp, SignIn |-> SignIn, RefreshToken |-> RefreshToken,
     SignOut |-> SignOut, GetUser |-> GetUser, DeleteUser |-> DeleteUser,
     OAuthInitiate |-> OAuthInitiate, OAuthCallback |-> OAuthCallback]

CreateBucket == requireAuth(Body(route("storage", "CreateBucket", 201)))
ListBuckets == requireAuth(route("storage", "ListBuckets", 200))
DeleteBucket == requireAuth(route("storage", "DeleteBucket", 204))
Upload == requireAuth(Body(route("storage", "Upload", 201)))
Download == route("storage", "Download", 200)
DeleteFile == requireAuth(route("storage", "DeleteFile", 204))
CreateSignedURL == requireAuth(Body(route("storage", "CreateSignedURL", 200)))
ListFiles == requireAuth(route("storage", "ListFiles", 200))

StorageRoutes ==
    [CreateBucket |-> CreateBucket, ListBuckets |-> ListBuckets,
     DeleteBucket |-> DeleteBucket, Upload |-> Upload, Download |-> Download,
     DeleteFile |-> DeleteFile, CreateSignedURL |-> CreateSignedURL,
     ListFiles |-> ListFiles]

Routes ==
    [name \in DOMAIN EngineRoutes \cup DOMAIN AuthRoutes \cup DOMAIN StorageRoutes |->
        IF name \in DOMAIN EngineRoutes THEN EngineRoutes[name]
        ELSE IF name \in DOMAIN AuthRoutes THEN AuthRoutes[name] ELSE StorageRoutes[name]]

-----------------------------------------------------------------------------

Call == [route : DOMAIN Routes \cup {"none"},
         pc : {"idle", "calling", "direct", "answered"},
         status : 0..599]

NoCall == [route |-> "none", pc |-> "idle", status |-> Unset]

TypeOK ==
    /\ EngineTypeOK
    /\ call \in [Requests -> Call]
    \* The engine's connections are shared: no two handlers hold the same one.
    /\ \A r, q \in Requests : r # q /\ job[r].conn # NoConn => job[r].conn # job[q].conn

Init ==
    /\ EngineInit
    /\ call = [r \in Requests |-> NoCall]

-----------------------------------------------------------------------------
(* A request comes in: middleware, route, the checks before the call.       *)

\* A header that is missing, is no bearer token or does not verify is no error:
\* the request goes on without a user.
Headers == {"absent", "malformed", "unverified"} \cup Users
ExtractJWT(header) == IF header \in Users THEN header ELSE Anonymous

\* The way the request took no longer matters.
Answer(r, status) ==
    call' = [call EXCEPT ![r] = [NoCall EXCEPT !.pc = "answered", !.status = status]]

\* The requests the routes of "services" let through, with the user they carry.
Arrives(r, services, name, user) ==
    /\ call[r].pc = "idle"
    /\ name \in Load[r] /\ Routes[name].service \in services
    /\ \E header \in Headers : user = ExtractJWT(header)

Admitted(name, user) == Routes[name].signedIn => user # Anonymous

Unauthorized(r) ==
    /\ \E name \in DOMAIN Routes, user \in Callers :
         /\ Arrives(r, {"auth", "storage"}, name, user)
         /\ ~Admitted(name, user)
         /\ Answer(r, 401)
    /\ UNCHANGED engineVars

BadBody(r) ==
    /\ \E name \in DOMAIN Routes, user \in Callers :
         /\ Arrives(r, {"engine", "auth", "storage"}, name, user)
         /\ Admitted(name, user)
         /\ Routes[name].body
         /\ Answer(r, 400)
    /\ UNCHANGED engineVars

\* An OPTIONS request with an Origin is answered before any route is looked at.
CORS(r) ==
    /\ call[r].pc = "idle"
    /\ Answer(r, 204)
    /\ UNCHANGED engineVars

-----------------------------------------------------------------------------
(* The call.                                                                *)

Calling(r, name) ==
    call' = [call EXCEPT ![r] = [NoCall EXCEPT !.route = name, !.pc = "calling"]]

Requested(name, user) ==
    CASE name = "ListRows" -> {ListRowsRequest(user)}
      [] name = "GetRow" -> {GetRowRequest(user)}
      [] name = "InsertRow" -> {InsertRowRequest(user)}
      [] name = "UpdateRow" -> {UpdateRowRequest(user)}
      [] name = "DeleteRow" -> {DeleteRowRequest(user)}
      [] name = "ExecuteSQL" ->
           {ExecuteSQLRequest(readwrite, writes) : readwrite \in BOOLEAN, writes \in BOOLEAN}
      [] name = "ListTables" -> {ListTablesRequest}
      [] name \in {"GetSchema", "GetSchemaTable"} -> {GetSchemaRequest}
      [] name = "ReloadSchema" -> {ReloadSchemaRequest}

CallEngine(r) ==
    /\ \E name \in DOMAIN Routes, user \in Callers :
         /\ Arrives(r, {"engine"}, name, user)
         /\ \E m \in Requested(name, user) : Handle(r, m, "grpc")
         /\ Calling(r, name)
    /\ UNCHANGED <<session, rows, faults>>

CallAuth(r) ==
    /\ \E name \in DOMAIN Routes, user \in Callers :
         /\ Arrives(r, {"auth"}, name, user)
         /\ Admitted(name, user)
         /\ Calling(r, name)
    /\ UNCHANGED engineVars

CallStorage(r) ==
    /\ \E name \in DOMAIN Routes, user \in Callers :
         /\ Arrives(r, {"storage"}, name, user)
         /\ Admitted(name, user)
         /\ Calling(r, name)
    /\ UNCHANGED engineVars

PassThrough(r, service) ==
    /\ \E name \in DOMAIN Routes, user \in Callers :
         /\ Arrives(r, {service}, name, user)
         /\ Calling(r, name)
    /\ UNCHANGED engineVars

proxyToEngineHTTP(r) == PassThrough(r, "engine_http")
proxyToAuthHTTP(r) == PassThrough(r, "auth_http")

Waiting(r, service) == call[r].pc = "calling" /\ Routes[call[r].route].service = service

\* The engine has answered.
Reply(r) ==
    /\ Waiting(r, "engine")
    /\ job[r].pc = "done"
    /\ Answer(r, IF job[r].code = "OK" THEN Routes[call[r].route].ok
                  ELSE writeGRPCError(job[r].code))
    /\ UNCHANGED engineVars

\* What auth and storage write is in AuthSessions, AuthOAuth and FileStorage, and is
\* no state of this module: an error here may well follow a write there.
ServeAuth(r) ==
    /\ Waiting(r, "auth")
    /\ LET handler == Routes[call[r].route]
       IN  \/ Answer(r, handler.ok)
           \/ \E e \in AuthErrors(handler.op) :
                LET code == AuthCode(handler.op, e)
                IN  Answer(r, IF code = "OK" THEN handler.ok ELSE writeGRPCError(code))
    /\ UNCHANGED engineVars

ServeStorage(r) ==
    /\ Waiting(r, "storage")
    /\ LET handler == Routes[call[r].route]
       IN  \/ Answer(r, handler.ok)
           \/ \E e \in StorageErrors(handler.op) :
                Answer(r, writeGRPCError(mapStorageError(e)))
    /\ UNCHANGED engineVars

\* The status of the service is passed on as it is; what it wrote is in EnginePool
\* and AuthOAuth.
ServePassThrough(r) ==
    /\ Waiting(r, "engine_http") \/ Waiting(r, "auth_http")
    /\ LET handler == Routes[call[r].route]
       IN  \E status \in {handler.ok} \cup PassedOn(handler.op) : Answer(r, status)
    /\ UNCHANGED engineVars

\* The service cannot be reached, or the connection to it breaks before the answer
\* is back; a handler of the engine that is still running is dropped with it.
Unreachable(r) ==
    /\ call[r].pc = "calling"
    /\ faults < MaxFaults
    /\ faults' = faults + 1
    /\ Answer(r, IF Routes[call[r].route].service \in {"engine_http", "auth_http"} THEN 502
                  ELSE writeGRPCError("Unavailable"))
    /\ Drop({r})
    /\ UNCHANGED <<session, rows>>

-----------------------------------------------------------------------------
(* Clients on the engine's own port, clients that go away, the process.     *)

Direct(r) ==
    /\ call[r].pc = "idle"
    /\ \E user \in Callers :
         \/ \E rpc \in RowRpcs \cap Load[r] : Handle(r, message(rpc, user), "http")
         \/ "ExecuteSQL" \in Load[r] /\ \E readwrite, writes \in BOOLEAN :
              Handle(r, [ExecuteSQLRequest(readwrite, writes) EXCEPT !.user_id = user], "http")
    /\ call' = [call EXCEPT ![r].pc = "direct"]
    /\ UNCHANGED <<session, rows, faults>>

\* Who waits for the gateway or for the engine's own port is gone.
Cancel(gone) ==
    /\ call' = [r \in Requests |-> IF r \in gone
                  THEN [NoCall EXCEPT !.pc = "answered", !.status = Cut] ELSE call[r]]
    /\ Drop(gone)

Abandon(r) ==
    /\ \/ call[r].pc = "calling"
       \/ call[r].pc = "direct" /\ Running(r)
    /\ Cancel({r})
    /\ UNCHANGED <<session, rows, faults>>

\* SIGTERM: ListenAndServe returns as soon as Shutdown is called, and main with it;
\* the process is started again.
main ==
    /\ faults < MaxFaults
    /\ faults' = faults + 1
    /\ Cancel({r \in Requests : call[r].pc = "calling"})
    /\ UNCHANGED <<session, rows>>

Finished ==
    /\ \A r \in Requests : call[r].pc \in {"answered", "direct"}
    /\ \A r \in Requests : job[r].pc \in {"idle", "done"}
    /\ UNCHANGED vars

Arrive(r) ==
    \/ Unauthorized(r) \/ BadBody(r) \/ CORS(r)
    \/ CallEngine(r) \/ CallAuth(r) \/ CallStorage(r)
    \/ proxyToEngineHTTP(r) \/ proxyToAuthHTTP(r)
    \/ Direct(r)

Serve(r) ==
    \/ Reply(r) \/ ServeAuth(r) \/ ServeStorage(r) \/ ServePassThrough(r)
    \/ Unreachable(r)

Engine(r) == EngineStep(r) /\ UNCHANGED call

Next ==
    \/ \E r \in Requests : Arrive(r) \/ Serve(r) \/ Engine(r) \/ Abandon(r)
    \/ main
    \/ Finished

Spec == Init /\ [][Next]_vars

-----------------------------------------------------------------------------

\* A request that reached the engine through the gateway and was answered with a
\* client error changed nothing: not when the statement failed, not when its row was
\* missing, and not on a connection that came with somebody else's transaction
\* (engine.go, helpers.go: writeGRPCError).  Auth and storage promise no such thing:
\* a 403 may follow the end of a session, a 409 the loss of the stored bytes.
ClientErrorWroteNothing ==
    \A r \in Requests : job[r].m.rpc # "none" /\ call[r].status \in 400..499 =>
        r \notin rows \cup UNION {session[c].wrote : c \in Conns}
=============================================================================
