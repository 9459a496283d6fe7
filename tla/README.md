# Garance: TLA+ models, checks and proofs

Garance is a backend-as-a-service: Go services for auth, storage and the
gateway, a Rust engine that serves a PostgreSQL schema over HTTP and gRPC, an
Elixir realtime service, a TypeScript SDK and a Go CLI. This directory holds
TLA+ models of its concurrent cores, the TLC runs that check them and theorems
checked by TLAPS. Paths below are relative to the repository.

## 1. Inventory

| component | state | operations | with whom | what makes it correct | status |
|---|---|---|---|---|---|
| Auth (`services/auth`: service/auth.go, store) | tables `users`, `sessions`; none in memory | SignUp, SignIn, RefreshToken, SignOut, DeleteUser | PostgreSQL one statement at a time, clients over HTTP and (via the gateway) gRPC | sessions belong to accounts that exist; a rotated or ended token is dead; a ban holds | modelled |
| OAuth (service/oauth.go, oauth/, crypto/encrypt.go, store/identity.go, oauth_state.go, provider.go) | `oauth_states`, `identities`, `oauth_providers`, the encryption key | initiate, callback, provider administration | auth tables, the provider | a state works once; nobody is signed in with an address that is not theirs; identities have accounts; a closed provider signs nobody in | modelled |
| Storage (`services/storage`) | tables `buckets`, `files`; objects in S3 | create/delete bucket, upload, download, delete, sign URL | PostgreSQL and S3, no transaction over the two | rows obey limits; a row has its bytes | modelled |
| Engine: waiting (`engine/…/api/routes.rs`, grpc/server.rs, garance-pooler) | pool of clients, `RwLock<Schema>`, `garance_platform.migrations` | CRUD, schema reads, reload, execute_sql, migrate preview/apply | PostgreSQL, CLI changing the schema behind it | no lost client, no circular wait, a migration once, a fresh cache | modelled |
| Engine: transactions (set_rls_context) | session state of pooled connections | BEGIN, SET LOCAL, statement, COMMIT/ROLLBACK | pool | an acknowledged write is durable; a row request runs as its caller; read-only SQL writes nothing | partly (SQL with transaction control of its own is not) |
| Engine: triggers and roles | triggers per table | attach_triggers, grants | reload, migrate | every table ends up with its trigger | partly (waiting and notifying, not which tables) |
| Engine: diff (`diff/`, schema/rls.rs) | none | compute statements | CLI | the statements, in order, lead to the desired schema | not modelled |
| Engine: query builder | none | build SQL | | text of one statement | not modelled |
| Realtime (`services/realtime`) | ETS table of subscriptions, monitors, connection state | subscribe, unsubscribe, notify, dispatch, restart | PG NOTIFY, PubSub, channels | what is told of a change reaches each subscriber once for each subscription, in order | modelled |
| SDK realtime client | sockets, channels, timers | subscribe, unsubscribe, reconnect | gateway | after a reconnection every channel is subscribed, once | not modelled |
| Gateway (`services/gateway`) | none; requests in flight | HTTP to gRPC, pass-through, websocket relay, restart | all services | a client error of the engine wrote nothing; a cut request leaves a legal database | modelled |
| CLI | files on disk | migrate, reset, seed, scaffolding | engine, PostgreSQL | files and tracking table agree | partly (schema changes the engine does not see) |
| DSL, codegen, dashboard, SDK REST clients, e-mail verification store | none, or one token | | | | not modelled |

The hard behaviours are of four kinds. *No transaction spans two calls*: auth
and storage run each SQL statement and S3 call on its own, so any two requests
interleave between them and a crash may fall there. *Waiting with something in
hand*: engine handlers hold a pool client or the schema guard while they wait
for the other, without timeouts. *Stale reads*: a row, a bucket's limits or an
introspected schema is used after a wait. *Ignored errors*: sign-out, upload
clean-up, COMMIT of row requests, the identity of an OAuth account, trigger
attachment. *Lost or repeated messages*: a notification nobody listens to, one
notification for two changes, a restarted registry, two subscriptions of one
client. PROJECT.json lists each
hazard at its line with the properties that cover it.

## 2. Modules

| module | models | kind |
|---|---|---|
| `SessionLedger` | what auth promises about refresh tokens: granted, exchanged, ended | abstract specification |
| `AuthStore` | the two auth tables, one operator per SQL statement, and what they show of `SessionLedger` | component |
| `AuthSessions` | the five auth requests, one action per statement; extends `AuthStore`; implements `SessionLedger` | component, composition |
| `StoreLemmas` | what each statement of `AuthStore` may change and keeps, and which step of `SessionLedger` it is | lemmas |
| `AuthProofs` | theorems about `AuthSessions`, and that it implements `SessionLedger` | proofs |
| `AuthOAuthProofs`, `FileStorageProofs`, `GatewayProofs`, `RealtimeProofs` | theorems about `AuthOAuth`, `FileStorage`, `Gateway` with `EngineRows`, and `Realtime` | proofs |
| `FoldLemmas`, `EnginePoolProofs` | sums over finite sets and cut sequences; theorems about `EnginePool` | lemmas, proofs |
| `FileStorage` | storage requests, one action per SQL statement or S3 call | component |
| `EnginePool` | engine handlers, the pool, the RwLock, migrations | component |
| `AuthOAuth` | authorize, callback, linking, provider administration; extends `AuthStore`; implements `SessionLedger` | component, composition |
| `Answers` | how each service names an error, on its HTTP and gRPC port, and what the gateway makes of a code | pure operators |
| `EngineRows` | row requests and `execute_sql` on pooled connections, statement by statement, on both ports; extends `Answers` | component |
| `Gateway` | every route of the gateway, over `EngineRows` | component, composition |
| `Realtime` | trigger, listener, dispatcher, registry, channels, relay, clients | component |
| `MC*` | instances for TLC | |

### AuthSessions

`users` and `sessions` are the tables; a row has status `free` (identifier not
yet used), `live` or `deleted`. A session's `id` and `refresh_token` are one
identifier, both being unique and random. `req[r]` is a handler goroutine: the
statement it executes next (`pc`), what it has read, its reply. HTTP and gRPC
handlers call the same service methods. Validation that precedes the first
statement belongs to the action that starts the request. `faults` counts
statements that fail, writes whose acknowledgement is lost, replies that are
lost and crashes. `SignOut` answers 204 whatever happens; `RefreshToken`
revokes, then reads the user, then checks the ban, as in the code. `stale`,
`barred`, `from` and `grant` are history, read by properties only. `banned_at`
is written by no handler; the model lets an operator write it. `expired` of a
session is set by the clock. A JWT holder may delete the account; the middleware
reads no table, so a deleted account can be deleted again.

### FileStorage

`buckets`, `files` and `objects` are separate, with no transaction over them.
Rows are reached through the bucket id read at the start of the request,
objects through the bucket *name*; a key joins two paths with a slash, so file
`x/y` of bucket `a` and file `y` of bucket `a/x` share one. Upload puts the
object, inserts the row, and removes the object if the insert is refused,
whatever the reason. `alone` is history: no other writer has worked on the key
since the upload began. `misled` records that a committed call was reported as
failed, after which the code cannot know what it stored.

### EnginePool

A request is a task that holds up to three clients and a guard. Row requests
take the read guard, build their SQL, then wait for a client under the guard.
Reload takes a client, introspects, then waits for the write guard. Migration
takes one client, runs and commits, takes a second while it holds the first,
introspects, waits for the write guard, and after it waits for a third client
to attach triggers. `poolQueue` and `lockQueue` are first in, first out, as
deadpool's semaphore and tokio's RwLock are; neither wait has a timeout. A
guard and clients are released together, because a handler drops its locals
without waiting. `Abort` is an error return, a client that cannot be opened, or
a dropped future, at any point. `db` counts committed schema changes; `cache`
is the version the cached schema is known to include, a lower bound because
introspection is several queries without a transaction. The contents of a
migration are not modelled: a file whose own SQL contains COMMIT is outside
the model.

A handler that is dropped, or returns early, between BEGIN and COMMIT gives its
client back with the transaction open and the role set (routes.rs:35-41,
207-228; server.rs:239-249). `leftover` are the sessions of such clients in the
pool; where they stand among the clean ones is left open, so a task is given a
clean client or the first of these.
On a leftover session a migration's BEGIN joins the transaction that is there,
its COMMIT commits both, a failed transaction refuses every statement, and an
introspection sees uncommitted tables or, under `garance_anon`, not all:
`misread` marks a cache that came from one. `MaxLeaks` bounds how many there
are. Locks that a leftover transaction keeps on rows are not modelled.

### AuthOAuth

A flow is a goroutine of authorize or callback; `flow[f].pc` names the
statement or provider call it executes next, as in `AuthSessions`. The tables
of `AuthStore` are joined by `states`, `identities` and `providers`. A callback
consumes its state with one `DELETE ... RETURNING`, reads the provider, opens
the sealed secret with the key of the running process, asks the provider for
the profile, then finds the user by identity, by address, or creates one. Each
failed lookup is taken for "not found", and the errors of `CreateIdentity` and
`VerifyUserEmail` are dropped, as in the code; errors that end a request end it
at once. Other requests are present by the one statement of theirs that a flow
can notice: the INSERT of a sign-up, the DELETE of an account, a ban. Operators
create, change and delete providers, owners change their address at the
provider, states expire, and the process restarts with another key; all faults
and changes share the bound `MaxFaults`. `Init` has one configured provider.
`held`, `opened`, `barred`, `closed`, `stale` and `own` are history; `own` is the
address the provider knew of the person when it was asked, and is kept with the
identity that was inserted then. `SignedInAsOwner` compares the account a
callback signs in to with these addresses (`Owns`), not with the one the lookup
used. Two cases are excepted by name, profiles without an `id` and accounts
with the printed address `<nil>`; the second is what `NoEmailKeepsApart` is
violated by.

### EngineRows, Answers, Gateway

`session[c]` is what PostgreSQL knows of a pooled connection: its transaction,
role, user id, read-only flag and uncommitted writes. A handler is a list of
statements (`http_row`, `grpc_row`, `http_execute_sql`, `grpc_execute_sql`)
that it works off, with the early returns between them: the HTTP port sets role
and user in a transaction, the gRPC port runs the bare statement. `BEGIN`
inside a transaction is a warning in PostgreSQL, `SET LOCAL` outside one has no
effect, any statement of a failed transaction is refused, and its COMMIT rolls
back. A connection goes back as it is; a lost one is replaced. `EnginePool` has
the queues and the lock, so here a request takes any free connection.

`Gateway` receives a request on one of its routes (`Routes`), with a token that
is valid, expired or missing and a body that can be read or not, answers at
once or calls a service, and maps the code that comes back. The engine is
`EngineRows`; auth and storage answer with any error their gRPC handlers
return, translated by `Answers` as they do. What these services write is not in
this module but in `AuthSessions` and `FileStorage`, and nothing is claimed
here of it: their 403 may follow the end of a session and their 409 the loss of
the stored bytes. `Unreachable` is a service that is down or breaks off the
call; a handler of the engine that is still running is dropped with it. `Abandon` is a client
that hangs up: the handler of its request is dropped at its next await. `main`
is a SIGTERM and the restart after it: `ListenAndServe` returns as soon as
`Shutdown` is called, so requests in flight are cut. `Direct` is a client of
the engine's own port. Each request is used once. The SQL of `execute_sql`
only reads or writes.

`AnsweredWriteKept` names its two exceptions, which are what the code does: the
row handlers of the HTTP port drop the error of COMMIT, and a gRPC row request
may be given a connection in the middle of a transaction somebody left open.

### Realtime

Every process has its mailbox: PostgreSQL's queue to the listener (`notify`),
the dispatcher's, each channel's, and the wire to each client that the
gateway's relay copies. `dispatcher.to` are the rows of the table that a change
still has to be sent to: the dispatcher reads the table once and sends to one
channel after another, while subscriptions come and go. The supervisor is
`one_for_one`: listener, registry and dispatcher die and start again alone.
What was committed while nobody listened is gone. The table belongs to the
registry's process and goes with it (the comment in subscription_registry.ex
expects it to survive); a channel that then subscribes crashes. A channel that
is killed leaves its rows, because `subscribe/5` runs in the channel and
monitors itself; messages to it are dropped. A row too large for a notification
arrives without its columns and matches no filter. A commit is of a whole
transaction (`Transactions`), and PostgreSQL sends equal payloads of one
transaction once: two large rows, whose payloads carry neither row nor time of
their own, come as one notification. `carrier[n]` is the number of the change
whose notification tells of change n, so what a client is owed for change n is
a copy of number `carrier[n]`. Clients speak Phoenix's
protocol. `client[c]` is what c was sent since its last join, and
`undisturbed` says that nothing has been lost since; both are history.

## 3. Runs

| run | expects | shows | bounds |
|---|---|---|---|
| `auth_sessions` | pass | consistency of accounts, tokens, rotation, bans and sign-out; the ledger is implemented | 2 requests, 2 accounts, 3 tokens, 1 fault: a token, its exchange, and a second exchange or sign-in at the same time |
| `auth_reuse` | violation | two overlapping refreshes of one token both get a pair | no fault |
| `auth_noemail` | violation | two people without an address are signed in to one account, that of `<nil>` | 1 flow at a time, 2 people, no fault |
| `file_storage` | pass | rows within limits under bucket re-creation, undisturbed files whole, downloads matching their row | 2 requests, 2 bucket ids, 2 colliding paths, 2 offers, 1 fault |
| `file_conflict` | violation | a refused duplicate upload destroys the stored object | 1 request, no fault |
| `engine_pool` | pass | clients and guards accounted for, schema stable under a query, honest cache, migrations once, no circular wait | a task that only borrows, one that reloads or migrates, one that migrates; 1 file, 5 clients, 1 leftover transaction, 1 schema change from outside |
| `engine_progress` | pass | every request ends | a reader, a reload, a migration, 4 clients, 1 file, no leftover transaction |
| `engine_stale` | violation | a slow reload undoes a newer refresh | as `engine_pool`, 2 files, no leftover transaction |
| `auth_oauth` | pass | a state opens one session, for its provider; nobody is signed in with an address the provider never knew of them, nor the banned, nor through a closed provider; identities have accounts; created accounts are verified | 2 flows, 2 users, 2 sessions, 2 states, 2 people (one with an address at first, one without), 3 addresses (two of one spelling, one `<nil>`), 3 provider names, 2 keys, 1 fault or change |
| `gateway` | pass | rows of the HTTP port run as their caller, answered writes stay, refused ones leave nothing, read-only SQL writes nothing, a client error of the engine wrote nothing | 2 requests over 1 connection, one of any kind and one that inserts or runs SQL; a user and nobody; 1 fault |
| `gateway_rules` | violation | a row request through the gateway runs as the owner of the tables, whom no access rule binds | as `gateway`, no fault |
| `realtime` | pass | each notified change once for each subscription, in commit order, none after an unsubscription; an undisturbed subscriber receives what it waits for | 1 client, 3 commands, 2 subscriptions (with a filter or without), 2 changes in transactions of an own row, of a large and an own row, or of two large rows, 1 death or reconnection, 1 message on the wire |

Two requests suffice for the pairwise races of auth and storage; identifiers
are never reused, so three tokens give one chain of two exchanges or two
branches. In the engine a circle needs a reader that holds the guard and
refreshers that hold all clients: with 4 clients (one fewer than
`LargeEnough` asks) TLC finds that circle in the instance of `engine_pool`,
so the bound is tight.
One connection makes every pair of engine requests meet on it, which is the only
thing a second would take away. Clients of realtime share only the dispatcher's
loop over rows, and two rows of one client exercise it; two changes are enough
to be reordered, and the wire's bound only delays a push. The default pool has 16 clients; two per migration and
one per reload is what it must exceed. Nothing in the engine limits the number
of refreshes, so `NoCircularWait` and `Answered` hold only under that
condition.

Each violation quotes what a document, comment or test says, and is the only
property of its run; the passing runs check what the code does guarantee
instead: `RotationEndsPredecessor` (each successor follows a revocation),
`SignedInAsOwner` (except for the printed address), `UndisturbedFileIsWhole`
(without another writer), `CacheHonest` (without overlapping refreshes and
without a leftover transaction that was introspected in), `HttpRowsUnderCaller` (on the
port that sets the role).

Symmetry is used for safety only, in the runs of auth, storage and the pool;
the others have none. Deadlock is checked in every run; `Exhausted` and
`Finished` are the bounds on identifiers, requests and changes and nothing else.

*Fairness* is assumed in `engine_progress` and `realtime` only. In the first, `WF(Run(r))`: tokio polls a
task that was woken, and PostgreSQL answers a statement. `SF(Record(r))`: an
INSERT that waits for a concurrent one of the same filename is woken when that
transaction ends, and others may start meanwhile. No fairness is assumed for
clients, aborts or restarts. In `realtime` the BEAM schedules every process, so
each reads its mailbox (`HandleNotification`, `HandleChange`, `Send`,
`Channel(c)`), the supervisor starts what died, and the relay copies what it
reads (`proxyWS`). Nothing is assumed of commits, commands and deaths.

## 4. Proofs

Every safety invariant that a passing run checks is
also a theorem `Spec => []Inv` for every value of the constants, and so is the
refinement of `SessionLedger` by both halves of the auth service. Each proof module defines its inductive
invariant, has one lemma per action (`...Keeps`) that says the action preserves
it, and ends in `Invariance`, `TypeOKAlways` and a theorem per property. TLC
checked every inductive invariant on the instance of the component's run before
it was proved.

Assumed of the constants are only the `ASSUME`s of the models: null values are
no identifiers (`StoreAssumption`, `SessionsAssumption`, `OAuthAssumption`,
`EngineRowsAssumption`, `StorageAssumption`, `PoolAssumption`), bounds on faults
are natural numbers, and so are all bounds of `Realtime` (`RealtimeAssumption`, which also says that transactions consist of changes), lower-casing is idempotent, sizes and limits are numbers,
and the pool has at least one client and finitely many tasks. No set but that
of the tasks has to be finite.

*`AuthProofs`.* `RotationEndsPredecessor` and its companions are not inductive: a
refresh that is about to insert must have a dead session of the same account,
so `RequestInv` says what a request may rely on between two statements, and
`OwnersKnown` and `TokensGranted` that what it read was granted. Rows only ever
move towards `revoked`, `expired` and `deleted` (`StoreLemmas`), so what one
request relies on is kept by every other.

Its last part is `Refinement`: every step of the service maps to a step of
`SessionLedger` or to a stutter, using `Inv`. An account is open while its row
lives and a token active while the lookup would find it. Which step a statement
is does not depend on the request that executes it, so that is in `StoreLemmas`
(`...Maps`).

*`AuthOAuthProofs`.* `FlowInv` is the same idea for sign-in through a provider,
for eleven statements and calls: whose state was consumed, that the provider was
open, who was barred, and that the user found is one the person asked about owns:
an identity says which address its person had when it was inserted, and
addresses of accounts never change. `OneSignInPerState` needs
`OneTrip`, that no two flows are past the `DELETE ... RETURNING` of one state:
the state is deleted by the first, and a deleted one never comes back
(`Forward`). `Refinement` shows that sign-in through a provider keeps the same
ledger: a callback opens an account once and grants a token to an open account
only. It needs `StoreInv`, that the two tables are in order, beside `IInv`; TLC
checked both and `LedgerSpec` on the instance of `auth_oauth`, which as a run
checks the properties of sign-in alone.

*`EnginePoolProofs`.* What a task holds is decided by what it does and where it
stands (`TasksCoherent`), and the tasks that wait are exactly those in the
queues, once (`QueuesOrderly`). From these follow that clients add up
(`ClientsAddUp`, a sum over the tasks), that readers and a writer exclude each
other and that no version vouched for is above the committed one. A refresh that
introspected inside a leftover transaction may have read anything, so
`VersionsKnown` and `PromisesHold` speak of the others only (`SwapsVersion`), and
of the cache while the last swap was not such a one; the next refresh on a clean
client makes it honest again, which is why `CacheHonest` needs no more than
`~misread`.
`NeverCircularWait` is a counting argument: with `LargeEnough` clients, when every
task waits, one of them waits for something nobody holds. The sums are folds
over a finite set; since induction theorems with an operator parameter cannot be
instantiated, `FoldLemmas` proves each fact about them by a smallest
counterexample.

*`GatewayProofs`.* What a handler may rely on is a relation between the
statements it has still to send and the session it holds: once `BEGIN` is behind
it its connection is in a transaction, its own or one it was given, and once the
role, the user or READ ONLY is behind it that transaction has them, unless it
has failed. Only the holder of a connection changes its session, so each
handler's relation is kept by the others. The gateway's properties follow from a
second relation, between a call and its handler; `ClientErrorWroteNothing` is of
calls that have a handler of the engine. `Shape` says
how what is left of a transaction looks: where BEGIN, the query and COMMIT are in it.

*`FileStorageProofs`.* No transaction joins a row and its object, so everything
rests on who works on the object's key. A request that is alone has no other
writer on its key (`Apart`); a row that is alone has no writer at all and its
object is whole (`RowFits`); a request that is alone knows what the key holds
(`Knows`). Only a writer of a key changes its object (`Moves`), and a new writer
first ends the solitude of everyone on the key (`Begins`). The limits follow
from bucket ids that are never used again (`Forward`): a bucket that is still
there is the one the upload was validated against. Nothing is assumed of the
keys, so the theorems hold however many pairs of names share one.

*`RealtimeProofs`.* What a client was sent and what its channel has still to
read are one `Stream`: the channel turns the next mail of it into a push, the
relay leaves it as it is, and it grows at its end only, by a command or by what
the dispatcher sends. The numbers in the dispatcher's hand, in its mailbox and
in `notify` rise (`InLine`) and are above all that a stream tells of
(`Ordered`), which gives `InCommitOrder`. Only changes with a notification of
their own are in line (`Heads`); every other is equal to the one whose
notification tells of it (`Carried`, from `Committed` about a whole
transaction), so the two match the same subscriptions. Where the last word of a channel was an
unsubscription there are no rows and only older changes under way (`Stopped`).
`Paired` is a bijection between the rows of a steady client and its confirmed
subscriptions, so that a change has as many rows to be sent to as it has
subscriptions waiting (`Counted`); reading the table once for each change is
what makes this inductive while subscriptions come and go. No row of a channel
is numbered above their count (`RowsNumbered`), hence a new row, numbered one
more, is never one that is there. A channel killed without `terminate` keeps its rows,
but the join number in them is never used again.

*Only model-checked.* `Answered` and `Received` are liveness under fairness, beyond TLAPS. The five
violation runs are counterexamples, which TLC finds.

To be provable, `FileStorage` indexes `files` by a pair, `EnginePool` names
`Without` and `Queued`, and `Realtime` types its registry as one record; tlapm reads `f[a, b]` and a fold of an expression badly.

## 5. Plan

Done: every module of section 2, with the proofs of section 4: each safety
invariant of a passing run is proved, and the refinement of `SessionLedger` by
`AuthSessions` and by `AuthOAuth`.

To follow: nothing that has to be proved for what is modelled. Worth stating
next are action properties of the tables (`TablesForward` of `StoreLemmas` and
`Forward` of `FileStorageProofs` are ones already, as lemmas about the steps) and an
abstract specification of the realtime service, a log read by each subscriber
from the place where it subscribed, which `Ordered` and `Counted` are half of.

## 6. Not modelled

The bytes of password hashes and of JWTs, SQL text and JSON; listings and other
pure reads of auth and storage; signed URLs after they are issued (S3 checks them); the
dashboard, the DSL and code generation, the query builder, the schema diff and
`sql_guard.rs`, which are functions on text without state. `verification.go`
(e-mail verification, password reset) is called by nothing. Also left out:

- SQL of `execute_sql` that controls transactions itself: PostgreSQL's rules for
  it would have to be in `EngineRows` in full.
- Which tables have a realtime trigger: `Realtime` has one table that has it.
- What a failed sign-out leaves behind: the code answers 204 for every error
  (auth.go:132, handler.go:135), so a token may outlive an answered sign-out;
  `SignOutEndsSession` claims nothing after a fault.
- Where the ports of a service differ in the status of one failure. An id that
  is no UUID is 400 over gRPC (auth grpcserver/server.go:60, :75) and 401 on
  auth's own port (handler.go:146, :168), a failed lookup of a user 500 and 404;
  an empty bucket name (storage handler.go:73) or file name (handler.go:215) is
  refused on storage's own port only; a file too large is 400 through the
  gateway and 413 on the own port, a type not allowed 400 and 415. `Answers` has
  the gateway's side; nothing written promises that the two agree.
- The second half of a deletion that crashed: the object is gone and the row
  stays until the deletion is repeated. The model reaches that state, and no
  property calls it right or wrong.
- Notifications committed while the listener is down are lost, and a subscriber
  who counts messages does not count changes (section 2). The properties speak
  of what is notified, and `Received` of subscribers nothing was lost for.
- Locks on rows that a leftover transaction of the pool keeps: a migration that
  needs one would wait until that client is used again. `Answered` is claimed
  without leftover transactions (`MaxLeaks = 0`).
- Profiles without an `id`: all people with one share the identity `<nil>` at
  that provider; `SignedInAsOwner` excepts them.
- The supervisor giving up: three deaths in five seconds, a database that is
  down for instance, end the realtime service. `MaxFaults` is 1 in the run.
- The SDK's realtime client. It sends `{type: 'subscribe', table}` and waits for
  `type: 'change'` (sdks/typescript/src/realtime.ts:75, :154); the server is a
  Phoenix endpoint that expects `phx_join` on a topic, and the gateway dials
  `/socket/websocket` and copies frames unchanged (proxy/realtime.go:42). No
  change can reach the client, so a model of its reconnection would say nothing
  about the system.
- `garance db migrate` of the CLI. It posts `desired_schema`
  (cli/cmd/db.go:47) to a handler that wants `schema` or the schema itself
  (routes.rs:459) and is refused with a 400; the steps behind it read fields that
  are never sent (routes.rs:477) and omit the `filename` that migrate_apply
  requires (routes.rs:485).

Disagreements met on the way that no run of their own checks: a connection left
in a failed transaction refuses the first statement of every later handler until
it is closed; the gateway's CORS headers do not allow `X-Garance-SQL-Mode`; an empty e-mail is refused by
auth's HTTP port and not by its gRPC port, which the gateway uses; uploads
through the gateway end at gRPC's 4 MB and not at the 5 GB its reader allows.
