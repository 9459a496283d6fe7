------------------------------ MODULE EnginePool ------------------------------
(***************************************************************************)
(* What the handlers of garance-engine wait for: a client of the           *)
(* PostgreSQL pool and the RwLock around the cached schema.  A request is   *)
(* one task.  Some handlers take the lock and then wait for a client, some  *)
(* hold clients and then wait for the lock, and a migration waits for a     *)
(* second and a third client while it holds the first.  Both queues are     *)
(* first in, first out and have no timeout.                                 *)
(* HTTP and gRPC handlers wait for the same things in the same order; only  *)
(* the HTTP reload goes on to attach triggers.                              *)
(*                                                                          *)
(* A handler that is dropped, or returns early, between its BEGIN and its   *)
(* COMMIT gives back a client whose transaction is still open, with the     *)
(* role it had set: the pool hands it on as it is.  What later handlers see *)
(* and do on such a client is part of the model.                            *)
(***************************************************************************)
EXTENDS Naturals, Sequences, FiniteSets, FiniteSetsExt, Functions

CONSTANTS
    Requests,    \* handler tasks that may run at the same time
    Serves,      \* Serves[r]: the handlers task r may run
    PoolSize,    \* max_size of the pool
    Files,       \* names of migration files
    MaxVersion,  \* bound: schema changes made outside of migrations stop here
    MaxLeaks,    \* bound: clients with a leftover transaction at the same time
    NoFile

Reading == {"Rows", "Schema"}        \* list_rows ... delete_row and list_tables; get_schema
Refreshing == {"Reload", "Apply"}    \* reload_schema, migrate_apply
Ops == Reading \cup Refreshing \cup {"Sql", "Preview"}

ASSUME PoolAssumption ==
    /\ IsFiniteSet(Requests)
    /\ Serves \in [Requests -> SUBSET Ops]
    /\ PoolSize \in Nat \ {0}
    /\ MaxVersion \in Nat
    /\ MaxLeaks \in Nat
    /\ NoFile \notin Files

VARIABLES
    free,        \* clients in the pool
    leftover,    \* sessions of those clients of the pool that have a transaction open
    poolQueue,   \* tasks waiting for a client
    lockQueue,   \* tasks waiting for the RwLock
    req,         \* req[r]: what task r is doing
    db,          \* version of the schema in PostgreSQL: committed changes so far
    cache,       \* version the cached schema is known to include
    misread,     \* the cached schema was introspected inside a leftover transaction that
                 \* hides tables (its role) or shows uncommitted ones
    recorded,    \* garance_platform.migrations
    commits,     \* history: commits[f]: how often file f took effect
    promised,    \* history: newest version an answered reload or migration saw
    raced        \* history: a cached schema was replaced while another was on its way

pool == <<free, leftover>>
waiting == <<pool, poolQueue, lockQueue, req>>
database == <<db, recorded, commits>>
cached == <<cache, misread>>
history == <<promised, raced>>
vars == <<waiting, database, cached, history>>

\* What PostgreSQL keeps for a client: its transaction, whether a role with
\* fewer rights is in force, and whether the schema was changed in it.
Session == [tx : {"none", "open", "failed"}, role : BOOLEAN, changed : BOOLEAN]

Clean == [tx |-> "none", role |-> FALSE, changed |-> FALSE]
Failed == [tx |-> "failed", role |-> FALSE, changed |-> FALSE]

Statements == {"Query", "Execute", "Introspect", "ReadColumns", "CheckApplied", "RunSql",
               "Record", "Commit", "Attach"}

Request == [op : Ops \cup {"none"},
            pc : Statements \cup {"idle", "Client", "Lock"},
            clients : 0..3,                    \* clients it holds
            session : Session,                 \* of the client it took last
            behind : Session,                  \* of the client it took before
            lock : {"none", "read", "write"},  \* guard it holds
            saw : Nat,                         \* version it read, from the cache or the database
            misread : BOOLEAN,                 \* it introspected inside a leftover transaction
            since : Nat,                       \* version its answer will vouch for
            file : Files \cup {NoFile}]

Idle == [op |-> "none", pc |-> "idle", clients |-> 0, session |-> Clean, behind |-> Clean,
         lock |-> "none", saw |-> 0, misread |-> FALSE, since |-> 0, file |-> NoFile]

TypeOK ==
    /\ free \in 0..PoolSize
    /\ leftover \in Seq(Session \ {Clean}) /\ Len(leftover) <= free
    /\ poolQueue \in Seq(Requests)
    /\ lockQueue \in Seq(Requests)
    /\ req \in [Requests -> Request]
    /\ db \in Nat /\ cache \in Nat /\ promised \in Nat
    /\ recorded \subseteq Files
    /\ commits \in [Files -> Nat]
    /\ raced \in BOOLEAN /\ misread \in BOOLEAN

\* main introspects before it serves.
Init ==
    /\ free = PoolSize
    /\ leftover = <<>>
    /\ poolQueue = <<>>
    /\ lockQueue = <<>>
    /\ req = [r \in Requests |-> Idle]
    /\ db = 0 /\ cache = 0
    /\ recorded = {}
    /\ commits = [f \in Files |-> 0]
    /\ promised = 0
    /\ raced = FALSE /\ misread = FALSE

-----------------------------------------------------------------------------
At(r, pc) == req[r].pc = pc

Busy(r) == req[r].op # "none"

Holding(lock) == {r \in Requests : req[r].lock = lock}

Goto(r, pc) == req' = [req EXCEPT ![r].pc = pc]

Queued(queue, r) == \E i \in DOMAIN queue : queue[i] = r

\* A task has at most one place in a queue; those behind it move up.
Without(queue, r) ==
    LET place == CHOOSE i \in DOMAIN queue : queue[i] = r
    IN  IF Queued(queue, r)
        THEN SubSeq(queue, 1, place - 1) \o SubSeq(queue, place + 1, Len(queue)) ELSE queue

\* The head of a FIFO queue and nobody else is served.
ClientReady(r) == At(r, "Client") /\ Head(poolQueue) = r /\ free > 0

LockReady(r) ==
    /\ At(r, "Lock")
    /\ Head(lockQueue) = r
    /\ Holding("write") = {}
    /\ req[r].op \in Refreshing => Holding("read") = {}

\* The INSERT waits for a transaction that inserted the same filename.
RecordReady(r) ==
    /\ At(r, "Record")
    /\ \A q \in Requests : ~(At(q, "Commit") /\ req[q].file = req[r].file)

AskClient(r, fields) ==
    /\ req' = [req EXCEPT ![r] = [fields EXCEPT !.pc = "Client"]]
    /\ poolQueue' = Append(poolQueue, r)

AskLock(r, fields) ==
    /\ req' = [req EXCEPT ![r] = [fields EXCEPT !.pc = "Lock"]]
    /\ lockQueue' = Append(lockQueue, r)

\* A client goes back to the pool as its last statement left it.
Returned(session) == IF session = Clean THEN <<>> ELSE <<session>>

\* Mutant: a migration returns only its first client.
Leave_Leaks(r, session) ==
    /\ req' = [req EXCEPT ![r] = Idle]
    /\ free' = IF req[r].clients > 0 THEN free + 1 ELSE free
    /\ leftover' = leftover \o Returned(req[r].behind) \o Returned(session)
    /\ poolQueue' = Without(poolQueue, r)
    /\ lockQueue' = Without(lockQueue, r)

\* The task ends: guard and clients are dropped, the last one in this
\* session, and a place in a queue is given up.
Leave(r, session) ==
    /\ req' = [req EXCEPT ![r] = Idle]
    /\ free' = free + req[r].clients
    /\ leftover' = leftover \o Returned(req[r].behind) \o Returned(session)
    /\ poolQueue' = Without(poolQueue, r)
    /\ lockQueue' = Without(lockQueue, r)

\* An answered reload or migration vouches for the version it started from.
Vouch(r) == promised' = IF req[r].since > promised THEN req[r].since ELSE promised

-----------------------------------------------------------------------------
(* A request arrives and waits, for the lock or for a client.               *)

Arrive(r, op) ==
    /\ ~Busy(r)
    /\ op \in Serves[r]
    /\ UNCHANGED <<pool, database, cached, history>>

Read(r) ==
    /\ \E op \in Reading : Arrive(r, op) /\ AskLock(r, [Idle EXCEPT !.op = op])
    /\ UNCHANGED poolQueue

ReloadSchema(r) ==
    /\ Arrive(r, "Reload")
    /\ AskClient(r, [Idle EXCEPT !.op = "Reload", !.since = db])
    /\ UNCHANGED lockQueue

MigrateApply(r) ==
    /\ Arrive(r, "Apply")
    /\ \E f \in Files : AskClient(r, [Idle EXCEPT !.op = "Apply", !.file = f])
    /\ UNCHANGED lockQueue

\* execute_sql and migrate_preview.
UseClient(r) ==
    /\ \E op \in {"Sql", "Preview"} : Arrive(r, op) /\ AskClient(r, [Idle EXCEPT !.op = op])
    /\ UNCHANGED lockQueue

-----------------------------------------------------------------------------
(* What a wait ends in.                                                     *)

\* What task r does with its next client.
NextStatement(r) ==
    CASE req[r].op = "Rows" -> "Query"
      [] req[r].op = "Sql" -> "Execute"
      [] req[r].op \in {"Reload", "Preview"} -> "Introspect"
      [] req[r].op = "Apply" -> <<"CheckApplied", "Introspect", "Attach">>[req[r].clients + 1]

\* Mutant: a client is handed out whether or not the pool has one.
TakeClient_Unchecked(r) ==
    /\ At(r, "Client") /\ Head(poolQueue) = r
    /\ free' = IF free > 0 THEN free - 1 ELSE PoolSize + 1
    /\ poolQueue' = Tail(poolQueue)
    /\ req' = [req EXCEPT ![r].clients = @ + 1, ![r].pc = NextStatement(r)]
    /\ UNCHANGED <<leftover, lockQueue, database, cached, history>>

\* The pool looks at nothing but whether the connection is closed.  Where its
\* leftover sessions stand among the others is left open.
TakeClient(r) ==
    /\ ClientReady(r)
    /\ free' = free - 1
    /\ poolQueue' = Tail(poolQueue)
    /\ \E session \in {Clean} \cup Range(leftover) :
          /\ \/ session = Clean /\ free > Len(leftover) /\ UNCHANGED leftover
             \/ leftover # <<>> /\ session = Head(leftover) /\ leftover' = Tail(leftover)
          /\ req' = [req EXCEPT ![r].clients = @ + 1, ![r].pc = NextStatement(r),
                                ![r].session = session, ![r].behind = req[r].session]
    /\ UNCHANGED <<lockQueue, database, cached, history>>

\* Mutant: the guard is dropped once the SQL is built.
TakeReadLock_Dropped(r) ==
    /\ LockReady(r)
    /\ req[r].op = "Rows"
    /\ AskClient(r, [req[r] EXCEPT !.saw = cache])
    /\ lockQueue' = Tail(lockQueue)
    /\ UNCHANGED <<pool, database, cached, history>>

\* Mutant: a reader overtakes the writers in the queue.
TakeReadLock_Overtakes(r) ==
    /\ At(r, "Lock") /\ req[r].op = "Rows" /\ Holding("write") = {}
    /\ AskClient(r, [req[r] EXCEPT !.saw = cache, !.lock = "read"])
    /\ lockQueue' = Without(lockQueue, r)
    /\ UNCHANGED <<pool, database, cached, history>>

\* Mutant: a row request asks for the lock again while it holds its guard.
TakeReadLock_Again(r) ==
    /\ LockReady(r)
    /\ req[r].op = "Rows"
    /\ \/ /\ req[r].lock = "none"
          /\ req' = [req EXCEPT ![r].lock = "read", ![r].saw = cache]
          /\ lockQueue' = Append(Tail(lockQueue), r)
          /\ UNCHANGED poolQueue
       \/ /\ req[r].lock = "read"
          /\ AskClient(r, req[r])
          /\ lockQueue' = Tail(lockQueue)
    /\ UNCHANGED <<pool, database, cached, history>>

\* The SQL is built from the cached table, and the guard is kept while the
\* task waits for a client.  An unknown table or column, and get_schema, end
\* here.
TakeReadLock(r) ==
    /\ LockReady(r)
    /\ \/ /\ req[r].op \in Reading
          /\ Leave(r, Clean)
       \/ /\ req[r].op = "Rows"
          /\ AskClient(r, [req[r] EXCEPT !.saw = cache, !.lock = "read"])
          /\ lockQueue' = Tail(lockQueue)
          /\ UNCHANGED pool
    /\ UNCHANGED <<database, cached, history>>

\* The task has begun to introspect and will swap its result in.
Swapping(r) ==
    /\ req[r].op \in Refreshing
    /\ req[r].pc \in {"ReadColumns", "Lock"}

\* The cached schema is replaced by the one introspected before the wait.
\* migrate_apply drops the guard and asks for its third client; the gRPC
\* reload answers; the HTTP reload attaches triggers under the guard.
TakeWriteLock(r) ==
    /\ LockReady(r)
    /\ cache' = req[r].saw /\ misread' = req[r].misread
    /\ raced' = (raced \/ \E q \in Requests \ {r} : Swapping(q))
    /\ \/ /\ req[r].op = "Apply"
          /\ AskClient(r, req[r])
          /\ lockQueue' = Tail(lockQueue)
          /\ UNCHANGED <<pool, promised>>
       \/ /\ req[r].op = "Reload"
          /\ Leave(r, req[r].session)
          /\ Vouch(r)
       \/ /\ req[r].op = "Reload"
          /\ req' = [req EXCEPT ![r].pc = "Attach", ![r].lock = "write"]
          /\ lockQueue' = Tail(lockQueue)
          /\ UNCHANGED <<pool, poolQueue, promised>>
    /\ req[r].op \in Refreshing
    /\ UNCHANGED database

-----------------------------------------------------------------------------
(* One action per statement that matters here.                              *)

\* In a failed transaction PostgreSQL refuses everything up to its ROLLBACK.
Usable(session) == session.tx # "failed"

\* The session after a statement that failed.
Broken(session) == IF session.tx = "none" THEN Clean ELSE Failed

\* COMMIT takes the changes of a leftover transaction along.
CommitLeftover(session) == db' = IF session.changed THEN db + 1 ELSE db

\* BEGIN to COMMIT or ROLLBACK of a row request, or the single statement of one
\* that came by gRPC, which joins a leftover transaction.
Query(r) ==
    /\ At(r, "Query")
    /\ \/ /\ Usable(req[r].session)
          /\ Leave(r, Clean)
          /\ CommitLeftover(req[r].session) \/ UNCHANGED db
       \/ /\ \E session \in {req[r].session, Broken(req[r].session)} : Leave(r, session)
          /\ UNCHANGED db
    /\ UNCHANGED <<recorded, commits, cached, history>>

\* execute_sql in readwrite mode may change the schema; it does not reload.
Execute(r) ==
    /\ At(r, "Execute")
    /\ \/ /\ ~Usable(req[r].session)
          /\ Leave(r, Failed)
          /\ UNCHANGED db
       \/ /\ Usable(req[r].session)
          /\ Leave(r, Clean)
          /\ \/ CommitLeftover(req[r].session)
             \/ UNCHANGED db
             \/ db < MaxVersion /\ db' = db + 1
    /\ UNCHANGED <<recorded, commits, cached, history>>

\* Mutant: a refresh reads the cache, not the database.
Introspect_Cached(r) ==
    /\ At(r, "Introspect") /\ Usable(req[r].session)
    /\ req' = [req EXCEPT ![r].pc = "ReadColumns", ![r].saw = cache]
    /\ UNCHANGED <<pool, poolQueue, lockQueue, database, cached, history>>

\* information_schema shows a role the tables it has rights on, perhaps none,
\* and a transaction its own changes.
Visible(session) ==
    IF session.role THEN 0 ELSE IF session.changed THEN db + 1 ELSE db

\* Five queries without a transaction of their own: whatever the others see,
\* the result includes the version the first of them finds.
Introspect(r) ==
    /\ At(r, "Introspect")
    /\ LET session == req[r].session
       IN  \/ ~Usable(session) /\ Leave(r, Failed)
           \/ /\ Usable(session)
              /\ req' = [req EXCEPT ![r].pc = "ReadColumns", ![r].saw = Visible(session),
                                    ![r].misread = session.role \/ session.changed]
              /\ UNCHANGED <<pool, poolQueue, lockQueue>>
    /\ UNCHANGED <<database, cached, history>>

\* The last query returns.  Only migrate_preview ends here.
ReadColumns(r) ==
    /\ At(r, "ReadColumns")
    /\ \/ req[r].op = "Preview" /\ Leave(r, req[r].session)
       \/ /\ req[r].op \in Refreshing
          /\ AskLock(r, req[r])
          /\ UNCHANGED <<pool, poolQueue>>
    /\ UNCHANGED <<database, cached, history>>

\* CREATE SCHEMA is what a role of the engine may not do.
MayCreate(session) == Usable(session) /\ ~session.role

\* Checked outside of the transaction: 409 if the file was applied before.
CheckApplied(r) ==
    /\ At(r, "CheckApplied")
    /\ \/ ~MayCreate(req[r].session) /\ Leave(r, Failed)
       \/ /\ MayCreate(req[r].session)
          /\ req[r].file \in recorded
          /\ Leave(r, req[r].session)
       \/ /\ MayCreate(req[r].session)
          /\ req[r].file \notin recorded
          /\ Goto(r, "RunSql")
          /\ UNCHANGED <<pool, poolQueue, lockQueue>>
    /\ UNCHANGED <<database, cached, history>>

\* A migration that fails is rolled back and answered 400 (Abort).  From here on
\* its Transaction ends a leftover one as well, whichever way it ends itself.
RunSql(r) ==
    /\ At(r, "RunSql")
    /\ req' = [req EXCEPT ![r].pc = "Record", ![r].session = Clean]
    /\ UNCHANGED <<pool, poolQueue, lockQueue, database, cached, history>>

\* Mutant: filename is not UNIQUE.
Record_NotUnique(r) ==
    /\ At(r, "Record")
    /\ Goto(r, "Commit")
    /\ UNCHANGED <<pool, poolQueue, lockQueue, database, cached, history>>

\* UNIQUE (filename): waits for a concurrent insert, then fails or goes on.
Record(r) ==
    /\ RecordReady(r)
    /\ \/ req[r].file \in recorded /\ Leave(r, Clean)
       \/ /\ req[r].file \notin recorded
          /\ Goto(r, "Commit")
          /\ UNCHANGED <<pool, poolQueue, lockQueue>>
    /\ UNCHANGED <<database, cached, history>>

\* The first client stays checked out while the task asks for a second.
Commit(r) ==
    /\ At(r, "Commit")
    /\ recorded' = recorded \cup {req[r].file}
    /\ commits' = [commits EXCEPT ![req[r].file] = @ + 1]
    /\ db' = db + 1
    /\ AskClient(r, [req[r] EXCEPT !.since = db + 1])
    /\ UNCHANGED <<pool, lockQueue, cached, history>>

\* Triggers, and grants after a migration; their errors are ignored.
Attach(r) ==
    /\ At(r, "Attach")
    /\ \E session \in {req[r].session, Broken(req[r].session)} : Leave(r, session)
    /\ Vouch(r)
    /\ UNCHANGED <<database, cached, raced>>

-----------------------------------------------------------------------------
(* What may end a request early, and the world around the engine.           *)

\* The sessions in which a task that stops now gives back the client it took
\* last.  A row handler and execute_sql open their transaction by hand: nothing
\* rolls it back when they are dropped, or return early, before its end.  A
\* connection that is lost is replaced.
LeftBy(r) ==
    LET session == req[r].session
        begun == [session EXCEPT !.tx = "open"]
    IN  {session, Broken(session), Clean}
          \cup (IF req[r].pc \in {"Query", "Execute"} /\ Usable(session)
                THEN {Failed, begun, [begun EXCEPT !.role = TRUE]} ELSE {})
          \cup (IF At(r, "Execute") /\ Usable(session) /\ db < MaxVersion
                THEN {[begun EXCEPT !.changed = TRUE]} ELSE {})

\* The clients with a leftover transaction, in the pool and held.
Leaked == Len(leftover) + Cardinality({r \in Requests : req[r].session # Clean})
                        + Cardinality({r \in Requests : req[r].behind # Clean})

\* A statement fails, no client can be opened, or the caller goes away and
\* its task is dropped where it stands.  Only migrate_apply has a transaction
\* that is rolled back then.
Abort(r) ==
    /\ Busy(r)
    /\ \E session \in LeftBy(r) :
          /\ req[r].session = Clean /\ session # Clean => Leaked < MaxLeaks
          /\ Leave(r, session)
    /\ UNCHANGED <<database, cached, history>>

\* The garance CLI and psql change the schema without the engine.
ChangeSchema ==
    /\ db < MaxVersion
    /\ db' = db + 1
    /\ UNCHANGED <<waiting, recorded, commits, cached, history>>

\* The engine is restarted and introspects.
Restart ==
    /\ \E r \in Requests : Busy(r)
    /\ free' = PoolSize /\ leftover' = <<>>
    /\ poolQueue' = <<>> /\ lockQueue' = <<>>
    /\ req' = [r \in Requests |-> Idle]
    /\ cache' = db /\ misread' = FALSE
    /\ raced' = FALSE
    /\ UNCHANGED <<database, promised>>

Submit(r) == Read(r) \/ ReloadSchema(r) \/ MigrateApply(r) \/ UseClient(r)

\* What the runtime and PostgreSQL get done for a task.
Run(r) ==
    \/ TakeClient(r) \/ TakeReadLock(r) \/ TakeWriteLock(r)
    \/ Query(r) \/ Execute(r) \/ Introspect(r) \/ ReadColumns(r)
    \/ CheckApplied(r) \/ RunSql(r) \/ Record(r) \/ Commit(r) \/ Attach(r)

Next ==
    \/ \E r \in Requests : Submit(r) \/ Run(r) \/ Abort(r)
    \/ ChangeSchema
    \/ Restart

Spec == Init /\ [][Next]_vars

\* A task that was woken is polled, and PostgreSQL answers every statement and
\* wakes an INSERT when the transaction it waited for has ended.
FairSpec == Spec /\ \A r \in Requests : WF_vars(Run(r)) /\ SF_vars(Record(r))

-----------------------------------------------------------------------------
(* Properties.                                                              *)

\* No path through a handler loses or duplicates a client or a guard: what
\* tasks hold and what the pool has add up, and a writer is alone.
ResourcesAccounted ==
    /\ free + MapThenSumSet(LAMBDA r : req[r].clients, Requests) = PoolSize
    /\ Holding("write") # {} => Cardinality(Holding("write")) = 1 /\ Holding("read") = {}

\* A row request runs its SQL while the schema it was built from is still
\* the cached one, however long it waited for a client.
QueryUsesItsSchema ==
    \A r \in Requests : At(r, "Query") => req[r].saw = cache

\* The cache never runs ahead of what was committed; and as long as no two
\* refreshes overlapped it includes every version an answered reload or
\* migration vouched for.  One thing excuses it, and only until the next
\* refresh: that it was introspected on a client whose leftover transaction
\* hid tables or showed uncommitted ones.
CacheHonest ==
    ~misread => /\ cache <= db
                /\ ~raced => promised <= cache

\* A migration file takes effect at most once although its check runs outside
\* of the transaction, and exactly when the tracking table says so.
MigrationAppliedOnce ==
    \A f \in Files : commits[f] = (IF f \in recorded THEN 1 ELSE 0)

\* The clients a task of this kind may hold while it waits for something.
Kept(op) == CASE op = "Apply" -> 2 [] op = "Reload" -> 1 [] OTHER -> 0

KeptBy(r) == IF Serves[r] = {} THEN 0 ELSE Max({Kept(op) : op \in Serves[r]})

LargeEnough == PoolSize > MapThenSumSet(KeptBy, Requests)

Runnable(r) ==
    \/ req[r].pc \in Statements \ {"Record"}
    \/ RecordReady(r) \/ ClientReady(r) \/ LockReady(r)

\* With more clients than the refreshing tasks can hold while they wait, the
\* tasks never all wait for one another.
NoCircularWait ==
    LargeEnough /\ (\E r \in Requests : Busy(r)) => \E r \in Requests : Runnable(r)

\* ... and every request ends, none overtaken for ever.
Answered ==
    LargeEnough => \A r \in Requests : Busy(r) ~> ~Busy(r)

\* "new requests see the updated one" (engine design): once a reload or a
\* migration is answered, the cached schema includes what it saw.  Refuted: a
\* reload that introspected earlier may swap its result in later.
AnsweredReloadStays == promised <= cache
==============================================================================
