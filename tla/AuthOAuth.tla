------------------------------ MODULE AuthOAuth ------------------------------
(***************************************************************************)
(* OAuth sign-in of services/auth: authorize, callback, account linking    *)
(* and the provider configuration, over the tables of AuthStore.  A flow is *)
(* one goroutine of OAuthInitiate or OAuthCallback; between two of its SQL  *)
(* statements or provider calls anything else may happen.  Of the password  *)
(* half only the statements that touch what a flow reads are here: the      *)
(* INSERT of a sign-up and the DELETE of an account (AuthSessions has the   *)
(* requests around them).                                                   *)
(***************************************************************************)
EXTENDS AuthStore

CONSTANTS
    MaxFaults,         \* bound: faults and changes of configuration, together
    Flows,             \* goroutines that serve an OAuth request at the same time
    StateIds, NoState, \* oauth_states.state: random, never reused
    ProviderNames,     \* names an operator may configure
    Accounts,          \* accounts people have at the providers
    NilAccount,        \* what a missing "id" is printed as
    NilEmail,          \* what fmt prints for a missing "email": an address like any other
    Lower,             \* strings.ToLower on addresses; a sign-up keeps the spelling it gets
    NoName,
    BaseIsLocal,       \* BASE_URL names localhost, as on a developer's machine
    Keys               \* values ENCRYPTION_KEY takes over the restarts

ASSUME OAuthAssumption ==
    /\ NoName \notin ProviderNames
    /\ NilAccount \notin Accounts
    /\ NoState \notin StateIds
    /\ NilEmail \in Emails
    /\ Lower \in [Emails -> Emails]
    /\ \A e \in Emails : Lower[Lower[e]] = Lower[e]
    /\ BaseIsLocal \in BOOLEAN
    /\ MaxFaults \in Nat

VARIABLES
    providers,    \* garance_platform.oauth_providers
    states,       \* garance_auth.oauth_states
    identities,   \* garance_auth.identities
    key,          \* the encryption key of the running process
    flow,         \* flow[f]: what goroutine f is doing
    address,      \* the address a provider knows of an account, NoEmail if none or private
    faults,       \* failures of the database, a provider or the process so far
    changes       \* changes by operators and account owners so far

tableVars == <<users, sessions, states, identities>>
configVars == <<providers, key, address, changes>>
vars == <<users, sessions, providers, states, identities, key, flow, address, faults,
          changes>>

ProviderRow == [status : {"none", "row"}, enabled : BOOLEAN, sealed : Keys]

\* "held" is history: the browser was sent to the provider with this state;
\* so is "opened": the sessions inserted on the strength of it.
StateRow == [status : {"free", "live", "gone"},
             provider : ProviderNames \cup {NoName},
             held : BOOLEAN,
             opened : SUBSET SessionIds]

FreeState == [status |-> "free", provider |-> NoName, held |-> FALSE, opened |-> {}]

\* "own" is history: the address the provider knew when the row was inserted.
IdentityRow == [provider : ProviderNames, account : Accounts \cup {NilAccount},
                user : UserIds, own : Emails \cup {NoEmail}]

Steps == {"GetProvider", "CreateOAuthState", "ConsumeState", "GetProviderConfig",
          "GetUserProfile", "GetIdentity", "GetUserByEmail",
          "LinkIdentity", "CreateUser", "RetryByEmail", "VerifyUserEmail",
          "CreateIdentity", "GetUserByID", "CreateSession"}

Errors == {"invalid_redirect", "invalid_state", "not_configured", "no_email",
           "banned", "internal"}

Flow == [op : {"none", "OAuthAuthorize", "OAuthCallback"},
         pc : Steps \cup {"idle", "replied"},
         provider : ProviderNames \cup {NoName},
         state : StateIds \cup {NoState},
         account : Accounts \cup {NilAccount},
         email : Emails \cup {NoEmail},
         user : UserIds \cup {NoUser},
         banned : BOOLEAN,                       \* banned_at of the row it read
         grant : SessionIds \cup {NoSession},
         reply : {"none", "authorize", "pair"},
         own : Emails \cup {NoEmail},  \* history: the person's address when asked for
         stale : BOOLEAN,          \* history: the state was not live at the start
         closed : BOOLEAN,         \* history: the provider has not been open since the start
         barred : SUBSET UserIds]  \* history: users banned or gone at the start

Idle == [op |-> "none", pc |-> "idle", provider |-> NoName,
         state |-> NoState, account |-> NilAccount, email |-> NoEmail, user |-> NoUser,
         banned |-> FALSE, grant |-> NoSession, reply |-> "none", own |-> NoEmail,
         stale |-> FALSE, closed |-> FALSE, barred |-> {}]

TypeOK ==
    /\ StoreTypeOK
    /\ providers \in [ProviderNames -> ProviderRow]
    /\ states \in [StateIds -> StateRow]
    /\ identities \subseteq IdentityRow
    /\ key \in Keys
    /\ flow \in [Flows -> Flow]
    /\ address \in [Accounts -> Emails \cup {NoEmail}]
    /\ faults \in 0..MaxFaults
    /\ changes \in 0..MaxFaults

\* The service starts over a table in which an operator configured a provider.
Init ==
    /\ StoreInit
    /\ key \in Keys
    /\ \E p \in ProviderNames :
         providers = [q \in ProviderNames |->
                        [status |-> IF q = p THEN "row" ELSE "none",
                         enabled |-> q = p, sealed |-> key]]
    /\ states = [x \in StateIds |-> FreeState]
    /\ identities = {}
    /\ flow = [f \in Flows |-> Idle]
    /\ address \in [Accounts -> (Emails \ {NilEmail}) \cup {NoEmail}]
    /\ faults = 0
    /\ changes = 0

-----------------------------------------------------------------------------
(* How a flow moves.                                                        *)

At(f, step) == flow[f].pc = step

Set(f, fields) == flow' = [flow EXCEPT ![f] = fields]

Goto(f, step) == Set(f, [flow[f] EXCEPT !.pc = step])

\* An error answer ends the request and leaves nothing behind, so which of
\* the answers it is need not be kept.
Reply(f, answer) == answer \in Errors /\ Set(f, Idle)

\* Mutant: the secret is stored as it was sent.
Encrypt_Plaintext == "plaintext"

\* A secret is known by the key it was encrypted under, and AES-GCM opens it
\* under no other.
Encrypt == key
Decrypt(p) == providers[p].sealed = key

NewProvider(p) == p \in {"google", "github", "gitlab"}

\* GetProvider finds an enabled provider.
Open(p) == providers[p].status = "row" /\ providers[p].enabled

NoFault == UNCHANGED faults
Fault == faults + changes < MaxFaults /\ faults' = faults + 1

\* A statement that wrote may still be reported as failed.
Acknowledged(next, failed) == (next /\ NoFault) \/ (failed /\ Fault)

OnlyFlow == UNCHANGED <<tableVars, configVars>>

\* The bounds on a behaviour: identifiers are never reused, so what may
\* insert a row starts only while one is left for it.
Pending(kind) ==
    CASE kind = "state" -> {f \in Flows : flow[f].op = "OAuthAuthorize" /\ flow[f].pc \in Steps}
      [] kind = "user" -> {f \in Flows : flow[f].op = "OAuthCallback" /\ flow[f].pc \in Steps}

InsertsLeft ==
    /\ Cardinality({u \in UserIds : users[u].status = "free"}) > Cardinality(Pending("user"))
    /\ Cardinality({s \in SessionIds : sessions[s].status = "free"}) > Cardinality(Pending("user"))

StateIdLeft ==
    Cardinality({x \in StateIds : states[x].status = "free"}) > Cardinality(Pending("state"))

-----------------------------------------------------------------------------
(* OAuthAuthorize: GET /auth/v1/oauth/{provider}.                           *)

\* Where the tokens may be sent: a redirect_uri of another origin, or none, is
\* refused, so that the ones stored need not be told apart.
isValidRedirectURI(to) == to = IF BaseIsLocal THEN "localhost" ELSE "own origin"

OAuthAuthorize(f) ==
    /\ At(f, "idle")
    /\ StateIdLeft
    /\ \E p \in ProviderNames, to \in {"localhost", "own origin"} :
         IF isValidRedirectURI(to)
         THEN Set(f, [Idle EXCEPT !.op = "OAuthAuthorize", !.provider = p,
                                  !.pc = "GetProvider"])
         ELSE Reply(f, "invalid_redirect")
    /\ NoFault
    /\ OnlyFlow

\* Mutant: the state is stored for a provider NewProvider does not know.
GetProvider_AnyName(f) ==
    /\ At(f, "GetProvider")
    /\ LET p == flow[f].provider IN
       \/ ~Open(p) /\ Reply(f, "not_configured")
       \/ Open(p) /\ ~Decrypt(p) /\ Reply(f, "internal")
       \/ Open(p) /\ Decrypt(p) /\ Goto(f, "CreateOAuthState")
    /\ NoFault
    /\ OnlyFlow

\* The row, its secret and the provider's name are checked before a state exists.
GetProvider(f) ==
    /\ At(f, "GetProvider")
    /\ LET p == flow[f].provider IN
       \/ ~Open(p) /\ Reply(f, "not_configured")
       \/ Open(p) /\ ~Decrypt(p) /\ Reply(f, "internal")
       \/ Open(p) /\ Decrypt(p) /\ ~NewProvider(p) /\ Reply(f, "internal")
       \/ Open(p) /\ Decrypt(p) /\ NewProvider(p) /\ Goto(f, "CreateOAuthState")
    /\ NoFault
    /\ OnlyFlow

CreateOAuthState(f) ==
    /\ At(f, "CreateOAuthState")
    /\ \E x \in StateIds :
         /\ states[x].status = "free"
         /\ states' = [states EXCEPT ![x] = [FreeState EXCEPT !.status = "live",
                         !.provider = flow[f].provider]]
         /\ Acknowledged(Set(f, [flow[f] EXCEPT !.pc = "replied", !.reply = "authorize",
                                                !.state = x]),
                         Reply(f, "internal"))
    /\ UNCHANGED <<users, sessions, identities, configVars>>

-----------------------------------------------------------------------------
(* OAuthCallback: GET /auth/v1/oauth/{provider}/callback.                   *)

\* The browser comes back with a state it was sent away with, perhaps for the
\* second time, perhaps too late, perhaps to the callback of another provider.
OAuthCallback(f) ==
    /\ At(f, "idle")
    /\ InsertsLeft
    /\ \E x \in StateIds, p \in ProviderNames :
         /\ states[x].held
         /\ Set(f, [Idle EXCEPT !.op = "OAuthCallback", !.pc = "ConsumeState",
                                !.provider = p, !.state = x,
                                !.stale = (states[x].status # "live"),
                                !.closed = ~Open(p),
                                !.barred = {u \in UserIds : BarredUser(u)}])
    /\ NoFault
    /\ OnlyFlow

\* Mutant: the state is looked up and left in the table.
GetAndConsumeOAuthState_Kept(f) ==
    /\ At(f, "ConsumeState")
    /\ LET x == flow[f].state IN
       \/ states[x].status # "live" /\ Reply(f, "invalid_state")
       \/ states[x].status = "live" /\ states[x].provider # flow[f].provider
            /\ Reply(f, "invalid_state")
       \/ states[x].status = "live" /\ states[x].provider = flow[f].provider
            /\ Goto(f, "GetProviderConfig")
    /\ NoFault
    /\ OnlyFlow

\* Mutant: a state is good for the callback of any provider.
GetAndConsumeOAuthState_AnyProvider(f) ==
    /\ At(f, "ConsumeState")
    /\ LET x == flow[f].state
           live == states[x].status = "live"
       IN  /\ states' = [states EXCEPT ![x].status = IF live THEN "gone" ELSE @]
           /\ IF live THEN Goto(f, "GetProviderConfig") ELSE Reply(f, "invalid_state")
    /\ NoFault
    /\ UNCHANGED <<users, sessions, identities, configVars>>

\* DELETE ... RETURNING: the state is gone whatever becomes of the callback.
\* The DELETE of expired rows before it removes what no statement would find.
GetAndConsumeOAuthState(f) ==
    /\ At(f, "ConsumeState")
    /\ LET x == flow[f].state
           live == states[x].status = "live"
           meant == live /\ states[x].provider = flow[f].provider
       IN  /\ states' = [states EXCEPT ![x].status = IF live THEN "gone" ELSE @]
           /\ IF meant THEN Acknowledged(Goto(f, "GetProviderConfig"), Reply(f, "invalid_state"))
                       ELSE Reply(f, "invalid_state") /\ NoFault
    /\ UNCHANGED <<users, sessions, identities, configVars>>

\* Mutant: a callback that does not ask whether the provider is enabled.
GetProviderConfig_Disabled(f) ==
    /\ At(f, "GetProviderConfig")
    /\ LET p == flow[f].provider IN
       \/ providers[p].status # "row" /\ Reply(f, "not_configured")
       \/ providers[p].status = "row" /\ ~Decrypt(p) /\ Reply(f, "internal")
       \/ providers[p].status = "row" /\ Decrypt(p) /\ Goto(f, "GetUserProfile")
    /\ NoFault
    /\ OnlyFlow

\* The error of NewProvider is dropped here: ProviderKnown says why no
\* callback gets past this point with a name it does not know.
GetProviderConfig(f) ==
    /\ At(f, "GetProviderConfig")
    /\ LET p == flow[f].provider IN
       \/ ~Open(p) /\ Reply(f, "not_configured")
       \/ Open(p) /\ ~Decrypt(p) /\ Reply(f, "internal")
       \/ Open(p) /\ Decrypt(p) /\ Goto(f, "GetUserProfile")
    /\ NoFault
    /\ OnlyFlow

(* What the three providers answer to a code and to the token it bought.    *)
(* "refused": the code was used or has expired, and the error object reads  *)
(* as a token without a field set.  "garbled": a body that is not JSON,     *)
(* for the token or for the profile.  No profile at all is an error.        *)

EmailOr(a, missing) == IF address[a] = NoEmail THEN missing ELSE Lower[address[a]]

\* An empty address is asked for again among the verified ones; the error of
\* that second call is dropped.
GitHub(a, body) ==
    CASE body = "good" -> {[account |-> a, email |-> EmailOr(a, NoEmail)]}
      [] body = "refused" -> {[account |-> NilAccount, email |-> NoEmail]}
      [] body = "garbled" -> {[account |-> NilAccount, email |-> EmailOr(a, NoEmail)]}

\* No decoding error is looked at.
GitLab(a, body) ==
    IF body = "good" THEN {[account |-> a, email |-> EmailOr(a, NilEmail)]}
                     ELSE {[account |-> NilAccount, email |-> NilEmail]}

Google(a, body) ==
    CASE body = "good" -> {[account |-> a, email |-> EmailOr(a, NilEmail)]}
      [] body = "refused" -> {[account |-> NilAccount, email |-> NilEmail]}
      [] body = "garbled" -> {}

\* Nobody else is asked: ProviderKnown.
Profiles(p, a, body) ==
    CASE p = "github" -> GitHub(a, body)
      [] p = "gitlab" -> GitLab(a, body)
      [] p = "google" -> Google(a, body)
      [] OTHER -> {}

\* ExchangeCode, GetUserProfile and the check that there is an address.
GetUserProfile(f) ==
    /\ At(f, "GetUserProfile")
    /\ \/ /\ \E a \in Accounts, body \in {"good", "refused", "garbled"} :
               /\ IF body = "garbled" THEN Fault ELSE NoFault
               /\ \E profile \in Profiles(flow[f].provider, a, body) :
                    IF profile.email = NoEmail
                    THEN Reply(f, "no_email")
                    ELSE Set(f, [flow[f] EXCEPT !.pc = "GetIdentity",
                                                !.account = profile.account,
                                                !.email = profile.email,
                                                !.own = EmailOr(a, NoEmail)])
       \/ Reply(f, "internal") /\ Fault
    /\ OnlyFlow

-----------------------------------------------------------------------------
(* findOrCreateOAuthUser: one action per SQL statement.                     *)

\* Mutant: the lookup forgets provider_user_id.
IdentityOf_AnyAccount(p, a) == {i \in identities : i.provider = p}

IdentityOf(p, a) == {i \in identities : i.provider = p /\ i.account = a}

GoWith(f, step, u) == Set(f, [flow[f] EXCEPT !.pc = step, !.user = u])

\* Any error reads as "no identity".  The UPDATE of provider_data that follows
\* a hit changes nothing modelled here, and its error is ignored.
GetIdentity(f) ==
    /\ At(f, "GetIdentity")
    /\ \/ /\ \E i \in IdentityOf(flow[f].provider, flow[f].account) :
               GoWith(f, "GetUserByID", i.user)
          /\ NoFault
       \/ /\ IdentityOf(flow[f].provider, flow[f].account) = {}
          /\ Goto(f, "GetUserByEmail")
          /\ NoFault
       \/ Goto(f, "GetUserByEmail") /\ Fault
    /\ OnlyFlow

\* Any error reads as "no such user".
GetUserByEmail(f) ==
    /\ At(f, "GetUserByEmail")
    /\ \/ /\ \E u \in UserWithEmail(flow[f].email) :
               Set(f, [flow[f] EXCEPT !.pc = "LinkIdentity", !.user = u,
                                      !.banned = users[u].banned])
          /\ NoFault
       \/ /\ UserWithEmail(flow[f].email) = {}
          /\ Goto(f, "CreateUser")
          /\ NoFault
       \/ Goto(f, "CreateUser") /\ Fault
    /\ OnlyFlow

\* INSERT INTO identities: refused by the UNIQUE index when the provider
\* account has one, by the foreign key when the user is gone.
InsertIdentity(f) ==
    identities' = IF LiveUser(flow[f].user)
                       /\ IdentityOf(flow[f].provider, flow[f].account) = {}
                  THEN identities \cup {[provider |-> flow[f].provider,
                         account |-> flow[f].account, user |-> flow[f].user,
                         own |-> flow[f].own]}
                  ELSE identities

\* The error of the INSERT is ignored: the flow goes on as if it had worked.
StoreIdentity(f) ==
    /\ \/ InsertIdentity(f) /\ NoFault
       \/ UNCHANGED identities /\ Fault
    /\ UNCHANGED <<users, sessions, states, configVars>>

\* Mutant: linking skips the ban check of the callback.
LinkIdentity_NoBanCheck(f) ==
    /\ At(f, "LinkIdentity")
    /\ Goto(f, "CreateSession")
    /\ StoreIdentity(f)

\* The user read by address is linked and used; the ban is that of the row read.
LinkIdentity(f) ==
    /\ At(f, "LinkIdentity")
    /\ IF flow[f].banned THEN Reply(f, "banned") ELSE Goto(f, "CreateSession")
    /\ StoreIdentity(f)

CreateUser(f) ==
    /\ At(f, "CreateUser")
    /\ \/ /\ UserWithEmail(flow[f].email) # {}
          /\ Goto(f, "RetryByEmail")
          /\ NoFault
          /\ UNCHANGED <<users, sessions>>
       \/ \E u \in UserIds :
            /\ InsertUser(u, flow[f].email, NoPassword)
            /\ Acknowledged(GoWith(f, "VerifyUserEmail", u), Reply(f, "internal"))
       \/ Reply(f, "internal") /\ Fault /\ UNCHANGED <<users, sessions>>
    /\ UNCHANGED <<states, identities, configVars>>

\* The address was taken in the meantime: by a sign-up, or by another callback.
RetryByEmail(f) ==
    /\ At(f, "RetryByEmail")
    /\ \/ /\ \E u \in UserWithEmail(flow[f].email) : GoWith(f, "VerifyUserEmail", u)
          /\ NoFault
       \/ UserWithEmail(flow[f].email) = {} /\ Reply(f, "internal") /\ NoFault
       \/ Reply(f, "internal") /\ Fault
    /\ OnlyFlow

\* Mutant: the address of the new user is left unverified.
VerifyUserEmail_Skipped(f) ==
    /\ At(f, "VerifyUserEmail")
    /\ Goto(f, "CreateIdentity")
    /\ NoFault
    /\ OnlyFlow

\* UPDATE users: no row is not an error, and its error is ignored anyway.
VerifyUserEmail(f) ==
    /\ At(f, "VerifyUserEmail")
    /\ Goto(f, "CreateIdentity")
    /\ \/ /\ users' = [users EXCEPT ![flow[f].user].verified = LiveUser(flow[f].user)]
          /\ NoFault
       \/ UNCHANGED users /\ Fault
    /\ UNCHANGED <<sessions, states, identities, configVars>>

CreateIdentity(f) ==
    /\ At(f, "CreateIdentity")
    /\ Goto(f, "GetUserByID")
    /\ StoreIdentity(f)

GetUserByID(f) ==
    /\ At(f, "GetUserByID")
    /\ LET u == flow[f].user IN
       \/ ~LiveUser(u) /\ Reply(f, "internal") /\ NoFault
       \/ LiveUser(u) /\ users[u].banned /\ Reply(f, "banned") /\ NoFault
       \/ LiveUser(u) /\ ~users[u].banned /\ Goto(f, "CreateSession") /\ NoFault
       \/ Reply(f, "internal") /\ Fault
    /\ OnlyFlow

\* The INSERT of createTokenPair.
CreateSession(f) ==
    /\ At(f, "CreateSession")
    /\ \/ /\ ~LiveUser(flow[f].user)
          /\ Reply(f, "internal")
          /\ NoFault
          /\ UNCHANGED <<users, sessions, states>>
       \/ \E s \in SessionIds :
            /\ InsertSession(s, flow[f].user, NoSession)
            /\ states' = [states EXCEPT ![flow[f].state].opened = @ \cup {s}]
            /\ Acknowledged(Set(f, [flow[f] EXCEPT !.pc = "replied", !.reply = "pair",
                                                   !.grant = s]),
                            Reply(f, "internal"))
    /\ UNCHANGED <<identities, configVars>>

\* The other statements that fail without a trace, all answered with an error.
StatementFails(f) ==
    /\ flow[f].pc \in {"GetProvider", "CreateOAuthState", "ConsumeState",
                       "GetProviderConfig", "CreateSession"}
    /\ Fault
    /\ Reply(f, CASE At(f, "ConsumeState") -> "invalid_state"
                  [] flow[f].pc \in {"GetProvider", "GetProviderConfig"} -> "not_configured"
                  [] flow[f].pc \in {"CreateOAuthState", "CreateSession"} -> "internal")
    /\ OnlyFlow

-----------------------------------------------------------------------------
(* Operators, browsers, the password half of the service, restarts.         *)

\* A provider that is opened again ends the history of having been closed.
Reopened(p) ==
    flow' = [f \in Flows |-> IF flow[f].provider = p THEN [flow[f] EXCEPT !.closed = FALSE]
                                                     ELSE flow[f]]

Change == faults + changes < MaxFaults /\ changes' = changes + 1

\* Admin handlers: one statement each, which does what it says or fails whole.
CreateProvider(p) ==
    /\ providers[p].status = "none"
    /\ providers' = [providers EXCEPT ![p] = [status |-> "row", enabled |-> TRUE,
                                              sealed |-> Encrypt]]
    /\ Reopened(p)

\* Every field of the PATCH is optional; a new secret is encrypted first.
UpdateProvider(p) ==
    /\ providers[p].status = "row"
    /\ \E on \in BOOLEAN, secret \in {providers[p].sealed, Encrypt} :
         /\ providers' = [providers EXCEPT ![p].enabled = on, ![p].sealed = secret]
         /\ IF on THEN Reopened(p) ELSE UNCHANGED flow

DeleteProvider(p) ==
    /\ providers[p].status = "row"
    /\ providers' = [providers EXCEPT ![p] = [status |-> "none", enabled |-> FALSE,
                                              sealed |-> @.sealed]]
    /\ UNCHANGED flow

Administer ==
    /\ Change
    /\ \E p \in ProviderNames : CreateProvider(p) \/ UpdateProvider(p) \/ DeleteProvider(p)
    /\ UNCHANGED <<tableVars, faults, key, address>>

\* Somebody changes the address of their provider account.
ChangeAddress ==
    /\ Change
    /\ \E a \in Accounts, e \in (Emails \ {NilEmail}) \cup {NoEmail} :
         address[a] # e /\ address' = [address EXCEPT ![a] = e]
    /\ UNCHANGED <<tableVars, faults, providers, key, flow>>

\* A redirect: to the provider with the state, or home with the tokens.
Deliver(f) ==
    /\ At(f, "replied")
    /\ states' = IF flow[f].reply = "authorize"
                 THEN [states EXCEPT ![flow[f].state].held = TRUE] ELSE states
    /\ Set(f, Idle)
    /\ UNCHANGED <<users, sessions, identities, faults, configVars>>

\* expires_at passes, ten minutes after the row was inserted; no statement
\* finds the row from then on.
StateExpires(x) ==
    /\ states[x].status = "live"
    /\ states' = [states EXCEPT ![x].status = "gone"]
    /\ UNCHANGED <<users, sessions, identities, faults, configVars, flow>>

\* Mutant: identities.user_id without ON DELETE CASCADE.
DeleteUser_NoCascade(u) ==
    /\ LiveUser(u)
    /\ DeleteUserRow(u)
    /\ UNCHANGED <<states, identities, flow, faults, configVars>>

\* AuthSessions!DeleteUserStatement, with ON DELETE CASCADE on identities.user_id.
DeleteUser(u) ==
    /\ LiveUser(u)
    /\ DeleteUserRow(u)
    /\ identities' = {i \in identities : i.user # u}
    /\ UNCHANGED <<states, flow, faults, configVars>>

\* AuthSessions!CreateUser: somebody signs up with a password.
SignUp(u) ==
    /\ InsertsLeft
    /\ \E e \in Emails, p \in Passwords : InsertUser(u, e, p)
    /\ UNCHANGED <<states, identities, flow, faults, configVars>>

Ban(u) == BanUserRow(u) /\ UNCHANGED <<states, identities, flow, faults, configVars>>

\* The process dies and starts again, perhaps with another ENCRYPTION_KEY.
Restart ==
    /\ Fault
    /\ key' \in Keys
    /\ flow' = [f \in Flows |-> Idle]
    /\ UNCHANGED <<tableVars, providers, address, changes>>

\* Only the bound on identifiers ends a behaviour.
Exhausted ==
    /\ ~(InsertsLeft /\ StateIdLeft)
    /\ \A f \in Flows : At(f, "idle")
    /\ UNCHANGED vars

-----------------------------------------------------------------------------
Authorize(f) == OAuthAuthorize(f) \/ GetProvider(f) \/ CreateOAuthState(f)

Callback(f) ==
    \/ OAuthCallback(f) \/ GetAndConsumeOAuthState(f) \/ GetProviderConfig(f)
    \/ GetUserProfile(f)

FindOrCreateOAuthUser(f) ==
    \/ GetIdentity(f) \/ GetUserByEmail(f) \/ LinkIdentity(f)
    \/ CreateUser(f) \/ RetryByEmail(f) \/ VerifyUserEmail(f) \/ CreateIdentity(f)
    \/ GetUserByID(f)

Next ==
    \/ \E f \in Flows : \/ Authorize(f) \/ Callback(f) \/ FindOrCreateOAuthUser(f)
                        \/ CreateSession(f) \/ StatementFails(f) \/ Deliver(f)
    \/ \E x \in StateIds : StateExpires(x)
    \/ \E u \in UserIds : SignUp(u) \/ DeleteUser(u) \/ Ban(u)
    \/ Administer \/ ChangeAddress \/ Restart \/ Exhausted

Spec == Init /\ [][Next]_vars

-----------------------------------------------------------------------------
(* Properties.                                                              *)

\* "State for CSRF protection": one trip to the provider opens at most one
\* session, however often and however concurrently its callback is called.
OneSignInPerState ==
    \A x \in StateIds : Cardinality(states[x].opened) <= 1

\* A callback is granted only on a state that was live when it started, and
\* only for the provider the browser was sent to with it.
StateHonoured ==
    \A f \in Flows :
        flow[f].reply = "pair" =>
            ~flow[f].stale /\ states[flow[f].state].provider = flow[f].provider

\* A callback asks only a provider NewProvider has a case for: the error it
\* drops at oauth.go:87 would be a call on a nil interface.  It rests on
\* OAuthAuthorize, which stores no state for any other name.
ProviderKnown ==
    \A f \in Flows : At(f, "GetUserProfile") => NewProvider(flow[f].provider)

\* A provider account has at most one identity, and it names a user that is
\* there, although accounts are deleted while callbacks link them.
IdentitiesHaveAccounts ==
    \A i, j \in identities :
        /\ LiveUser(i.user)
        /\ i.provider = j.provider /\ i.account = j.account => i = j

\* The addresses a person is known by: the one the provider had when it was
\* asked, and those it had when the identities of the account were inserted.
Owns(f) == {flow[f].own} \cup
           {i.own : i \in {j \in identities : /\ j.provider = flow[f].provider
                                              /\ j.account = flow[f].account
                                              /\ j.user = flow[f].user}}

\* Nobody is signed in to an account with an address that the provider never
\* knew of them, not even while sign-ups, callbacks for the same account,
\* deletions and changes of the address go on.  It says nothing of a profile
\* without an "id", whose identities strangers share, nor of the account with
\* the printed address, which NoEmailKeepsApart is about.
SignedInAsOwner ==
    \A f \in Flows :
        LET u == flow[f].user IN
        /\ flow[f].reply = "pair" /\ LiveUser(u)
        /\ flow[f].account # NilAccount /\ users[u].email # NilEmail
        => users[u].email \in Owns(f)

\* "No email from provider: returns 400": somebody whose address the provider
\* does not tell is not signed in to the account of another person.
NoEmailKeepsApart ==
    \A f \in Flows :
        flow[f].reply = "pair" /\ flow[f].account # NilAccount /\ flow[f].own = NoEmail =>
            \A i \in identities :
                i.user = flow[f].user => i.account \in {flow[f].account, NilAccount}

\* An account that was banned or deleted before the callback started is not
\* signed in, whichever of the three lookups found it.
BarredUserRefused ==
    \A f \in Flows : flow[f].reply = "pair" => flow[f].user \notin flow[f].barred

\* A provider that has been disabled, or not configured, all the time since
\* the callback started signs nobody in: a state from before does not help.
ClosedProviderRefused ==
    \A f \in Flows : flow[f].reply = "pair" => ~flow[f].closed

\* "Create new user (no password, email verified)": an account without a
\* password is verified once the callback that created it is past the UPDATE,
\* provided that nothing failed.
CreatedAccountsVerified ==
    \A u \in UserIds :
        faults = 0 /\ LiveUser(u) /\ users[u].password = NoPassword =>
            users[u].verified \/ \E f \in Flows : At(f, "VerifyUserEmail") /\ flow[f].user = u
==============================================================================
