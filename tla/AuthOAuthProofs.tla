--------------------------- MODULE AuthOAuthProofs ---------------------------
(***************************************************************************)
(* Proofs about AuthOAuth for every number of flows, states, accounts,      *)
(* providers, faults and changes of configuration.                          *)
(***************************************************************************)
EXTENDS AuthOAuth, StoreLemmas, FiniteSetTheorems, TLAPS

(* The inductive invariant: what a flow may rely on between two statements. *)

\* The state of the flow has been taken out of its table.
Consumed == {"GetProviderConfig", "GetUserProfile", "GetIdentity", "GetUserByEmail",
             "LinkIdentity", "CreateUser", "RetryByEmail", "VerifyUserEmail",
             "CreateIdentity", "GetUserByID", "CreateSession"}

\* The provider was found open.
Asking == Consumed \ {"GetProviderConfig"}

\* The provider has answered.
Profiled == Asking \ {"GetUserProfile"}

\* The user is chosen.
Chosen == {"LinkIdentity", "VerifyUserEmail", "CreateIdentity", "GetUserByID", "CreateSession"}

Among(f, steps) == flow[f].pc \in steps \/ flow[f].reply = "pair"

\* An identity of provider account a that names user u.
Linked(i, p, a, u) == i.provider = p /\ i.account = a /\ i.user = u

\* The user has the address that was reported, or the identity, or is gone.
Owned(f) ==
    users[flow[f].user].status = "live" =>
        \/ users[flow[f].user].email = flow[f].email
        \/ \E i \in identities : Linked(i, flow[f].provider, flow[f].account, flow[f].user)

FlowInv(f) ==
    /\ At(f, "idle") => flow[f] = Idle
    /\ ~At(f, "idle") => flow[f].provider \in ProviderNames
    /\ flow[f].reply # "none" <=> At(f, "replied")
    /\ At(f, "CreateOAuthState") => NewProvider(flow[f].provider)
    /\ At(f, "ConsumeState") \/ Among(f, Consumed) \/ flow[f].reply = "authorize" =>
         flow[f].state \in StateIds /\ states[flow[f].state].status # "free"
    /\ At(f, "ConsumeState") /\ flow[f].stale => states[flow[f].state].status = "gone"
    /\ Among(f, Consumed) => /\ ~flow[f].stale
                             /\ states[flow[f].state].status = "gone"
                             /\ states[flow[f].state].provider = flow[f].provider
    /\ Among(f, Asking) => ~flow[f].closed
    /\ Among(f, Profiled) => flow[f].email \in Emails
    /\ Among(f, Chosen) => /\ flow[f].user \in UserIds
                           /\ users[flow[f].user].status # "free"
                           /\ Owned(f)
    /\ At(f, "LinkIdentity") /\ ~flow[f].banned => flow[f].user \notin flow[f].barred
    /\ Among(f, {"CreateSession"}) => flow[f].user \notin flow[f].barred
    /\ \A u \in flow[f].barred : BarredUser(u)

\* A state is stored for a provider that is known, and held once it is stored.
StatesKnown ==
    \A x \in StateIds : /\ states[x].status # "free" => NewProvider(states[x].provider)
                        /\ states[x].held => states[x].status # "free"

\* A trip to the provider: one callback at most gets past the DELETE of its
\* state, and it has not opened a session yet.
OneTrip ==
    /\ \A x \in StateIds : /\ states[x].opened # {} => states[x].status = "gone"
                           /\ \A s, t \in states[x].opened : s = t
    /\ \A f \in Flows : flow[f].pc \in Consumed => states[flow[f].state].opened = {}
    /\ \A f, g \in Flows : /\ flow[f].pc \in Consumed /\ flow[g].pc \in Consumed
                           /\ flow[f].state = flow[g].state
                           => f = g

ClosedKnown == \A f \in Flows : flow[f].closed => ~Open(flow[f].provider)

IInv ==
    /\ TypeOK
    /\ \A f \in Flows : FlowInv(f)
    /\ StatesKnown
    /\ OneTrip
    /\ ClosedKnown
    /\ IdentitiesHaveAccounts
    /\ CreatedAccountsVerified

-----------------------------------------------------------------------------
(* What the steps of one flow leave to the others.                          *)

\* The tables only move forward: a state that was taken stays taken, a user
\* keeps its address and never comes back, a ban is never undone, and an
\* identity goes only with its user.
Forward ==
    /\ \A x \in StateIds :
         /\ states[x].status # "free" => /\ states'[x].status # "free"
                                         /\ states'[x].provider = states[x].provider
         /\ states[x].status = "gone" => states'[x].status = "gone"
    /\ \A u \in UserIds :
         /\ users[u].status # "free" =>
              /\ users'[u].status # "free"
              /\ users'[u].status = "live" => /\ users[u].status = "live"
                                              /\ users'[u].email = users[u].email
         /\ BarredUser(u) => BarredUser(u)'
    /\ \A i \in identities : users'[i.user].status = "live" => i \in identities'

\* Leaving the tables alone is one way to move forward.
LEMMA NothingMoves == ASSUME UNCHANGED <<users, states, identities>> PROVE Forward
  BY DEF Forward, BarredUser

\* What a flow relies on survives the statements of the others.
LEMMA OthersKeep ==
    ASSUME TypeOK, Forward, NEW g \in Flows, FlowInv(g), flow'[g] = flow[g]
    PROVE  FlowInv(g)'
  <1>1. flow[g] \in Flow /\ flow[g].barred \subseteq UserIds
    BY DEF TypeOK, Flow
  <1>2. Among(g, Chosen) => Owned(g)'
    <2>1. SUFFICES ASSUME Among(g, Chosen), users'[flow[g].user].status = "live"
                   PROVE  Owned(g)'
      BY <1>1 DEF Owned
    <2>2. flow[g].user \in UserIds /\ users[flow[g].user].status # "free" /\ Owned(g)
      BY <2>1 DEF FlowInv
    <2>3. \A i \in identities :
             Linked(i, flow[g].provider, flow[g].account, flow[g].user) => i \in identities'
      BY <2>1 DEF Forward, Linked
    <2>4. QED
      BY <2>1, <2>2, <2>3 DEF Owned, Forward
  <1>3. QED
    BY <1>1, <1>2 DEF FlowInv, Forward, At, Among

\* An idle flow relies on nothing.
LEMMA IdleKeeps ==
    ASSUME NEW f \in Flows, flow'[f] = Idle
    PROVE  FlowInv(f)' /\ Idle \in Flow /\ ~Idle.closed /\ Idle.pc = "idle"
  BY DEF FlowInv, Idle, Flow, At, Among, Consumed, Asking, Profiled, Chosen

\* Moving on to another statement changes nothing else of a flow.
LEMMA GotoFields ==
    ASSUME NEW k \in Flow, NEW step \in Steps
    PROVE  LET m == [k EXCEPT !.pc = step]
           IN  /\ m \in Flow
               /\ m.pc = step
               /\ m.op = k.op /\ m.provider = k.provider /\ m.state = k.state
               /\ m.account = k.account /\ m.email = k.email /\ m.user = k.user
               /\ m.banned = k.banned /\ m.grant = k.grant /\ m.reply = k.reply
               /\ m.stale = k.stale /\ m.closed = k.closed /\ m.barred = k.barred
               /\ m.own = k.own
  BY DEF Flow

\* One step of one flow, put together.
LEMMA Assemble ==
    ASSUME IInv, NEW f \in Flows, NEW k \in Flow, Set(f, k), Forward,
           StoreTypeOK', states' \in [StateIds -> StateRow], identities' \subseteq IdentityRow,
           UNCHANGED configVars, NoFault \/ Fault,
           FlowInv(f)', StatesKnown', OneTrip', IdentitiesHaveAccounts',
           CreatedAccountsVerified',
           k.closed => ~Open(k.provider)
    PROVE  IInv'
  <1>1. /\ flow' \in [Flows -> Flow]
        /\ flow'[f] = k
        /\ \A g \in Flows : g # f => flow'[g] = flow[g]
    BY DEF IInv, TypeOK, Set
  <1>2. TypeOK'
    <2>1. faults' \in 0..MaxFaults
      BY OAuthAssumption DEF IInv, TypeOK, NoFault, Fault
    <2>2. QED
      BY <1>1, <2>1 DEF IInv, TypeOK, configVars
  <1>3. \A g \in Flows : FlowInv(g)'
    BY <1>1, OthersKeep DEF IInv
  <1>4. ClosedKnown'
    BY <1>1 DEF IInv, ClosedKnown, Open, configVars
  <1>5. QED
    BY <1>2, <1>3, <1>4 DEF IInv

\* A step that takes no state and opens no session keeps trips apart.
LEMMA SameTrips ==
    ASSUME IInv, NEW f \in Flows, NEW k \in Flow, Set(f, k),
           k.pc \in Consumed => flow[f].pc \in Consumed /\ k.state = flow[f].state,
           \A x \in StateIds : /\ states'[x].opened = states[x].opened
                               /\ states[x].status = "gone" => states'[x].status = "gone"
    PROVE  OneTrip'
  <1>1. /\ flow'[f] = k
        /\ \A g \in Flows : g # f => flow'[g] = flow[g]
    BY DEF IInv, TypeOK, Set
  <1>2. \A g \in Flows : flow'[g].pc \in Consumed =>
          flow[g].pc \in Consumed /\ flow'[g].state = flow[g].state /\ flow[g].state \in StateIds
    BY <1>1 DEF IInv, FlowInv, Among
  <1>3. QED
    BY <1>2 DEF IInv, OneTrip

\* A step that leaves the users alone leaves the ones to verify.
LEMMA SameVerified ==
    ASSUME IInv, NEW f \in Flows, NEW k \in Flow, Set(f, k), ~At(f, "VerifyUserEmail"),
           UNCHANGED users, NoFault \/ Fault
    PROVE  CreatedAccountsVerified'
  <1>1. \A g \in Flows : g # f => flow'[g] = flow[g]
    BY DEF IInv, TypeOK, Set
  <1>2. faults' = 0 => faults = 0
    BY DEF IInv, TypeOK, NoFault, Fault
  <1>3. \A g \in Flows : At(g, "VerifyUserEmail") => At(g, "VerifyUserEmail")'
                                                      /\ flow'[g].user = flow[g].user
    BY <1>1 DEF At
  <1>4. QED
    BY <1>2, <1>3 DEF IInv, CreatedAccountsVerified, LiveUser

\* A step that only moves the flow.
LEMMA QuietKeeps ==
    ASSUME IInv, NEW f \in Flows, NEW k \in Flow, Set(f, k), OnlyFlow, NoFault \/ Fault,
           FlowInv(f)', ~At(f, "VerifyUserEmail"),
           k.pc \in Consumed => flow[f].pc \in Consumed /\ k.state = flow[f].state,
           k.closed => ~Open(k.provider)
    PROVE  IInv'
  <1>1. UNCHANGED <<users, sessions, states, identities>> /\ UNCHANGED configVars
    BY DEF OnlyFlow, tableVars
  <1>2. Forward
    BY <1>1, NothingMoves
  <1>3. StoreTypeOK' /\ states' \in [StateIds -> StateRow] /\ identities' \subseteq IdentityRow
    BY <1>1 DEF IInv, TypeOK, StoreTypeOK
  <1>4. OneTrip'
    BY <1>1, SameTrips
  <1>5. StatesKnown' /\ IdentitiesHaveAccounts'
    BY <1>1 DEF IInv, StatesKnown, IdentitiesHaveAccounts, LiveUser
  <1>6. CreatedAccountsVerified'
    BY <1>1, SameVerified
  <1>7. QED
    BY <1>1, <1>2, <1>3, <1>4, <1>5, <1>6, Assemble

\* An error answer.
LEMMA QuietReplyKeeps ==
    ASSUME IInv, NEW f \in Flows, NEW a, Reply(f, a), OnlyFlow, NoFault \/ Fault,
           ~At(f, "VerifyUserEmail")
    PROVE  IInv'
  <1>1. Set(f, Idle) /\ flow'[f] = Idle
    BY DEF Reply, Set, IInv, TypeOK
  <1>2. FlowInv(f)' /\ Idle \in Flow /\ ~Idle.closed /\ Idle.pc = "idle"
    BY <1>1, IdleKeeps
  <1>3. Idle.pc \notin Consumed
    BY <1>2 DEF Consumed
  <1>4. QED
    BY <1>1, <1>2, <1>3, QuietKeeps

\* Moving on without a statement that writes: what the next one relies on has
\* to be shown.
LEMMA QuietGotoKeeps ==
    ASSUME IInv, NEW f \in Flows, NEW step \in Steps, Goto(f, step), OnlyFlow,
           NoFault \/ Fault, flow[f].pc \in Steps, ~At(f, "VerifyUserEmail"),
           step \in Consumed => flow[f].pc \in Consumed,
           step # "ConsumeState",
           step = "CreateOAuthState" => NewProvider(flow[f].provider),
           step \in Asking => ~flow[f].closed,
           step \in Profiled => flow[f].pc \in Profiled,
           step \in Chosen => flow[f].pc \in Chosen,
           step # "LinkIdentity",
           step = "CreateSession" => flow[f].user \notin flow[f].barred
    PROVE  IInv'
  <1> DEFINE k == [flow[f] EXCEPT !.pc = step]
  <1>1. flow[f] \in Flow
    BY DEF IInv, TypeOK
  <1>2. /\ k \in Flow
        /\ k.pc = step
        /\ k.op = flow[f].op /\ k.provider = flow[f].provider /\ k.state = flow[f].state
        /\ k.account = flow[f].account /\ k.email = flow[f].email /\ k.user = flow[f].user
        /\ k.banned = flow[f].banned /\ k.grant = flow[f].grant /\ k.reply = flow[f].reply
        /\ k.stale = flow[f].stale /\ k.closed = flow[f].closed
        /\ k.barred = flow[f].barred
    BY <1>1, GotoFields
  <1>3. Set(f, k)
    BY DEF Goto
  <1> HIDE DEF k
  <1>4. flow'[f] = k /\ UNCHANGED <<users, states, identities>>
    BY <1>3 DEF IInv, TypeOK, Set, OnlyFlow, tableVars
  <1>5. step \notin {"idle", "replied"} /\ flow[f].pc \notin {"idle", "replied"}
    BY DEF Steps
  <1>6. FlowInv(f)'
    BY <1>2, <1>4, <1>5 DEF IInv, FlowInv, At, Among, Owned, BarredUser, Consumed, Asking,
                            Profiled, Chosen
  <1>7. k.closed => ~Open(k.provider)
    BY <1>2 DEF IInv, ClosedKnown
  <1>8. QED
    BY <1>2, <1>3, <1>6, <1>7, QuietKeeps

-----------------------------------------------------------------------------
(* The actions of a flow.                                                   *)

\* The fields of a flow that is about to start.
LEMMA IdleFields ==
    /\ Idle \in Flow
    /\ Idle.op = "none" /\ Idle.pc = "idle" /\ Idle.provider = NoName /\ Idle.state = NoState
    /\ Idle.account = NilAccount /\ Idle.email = NoEmail /\ Idle.user = NoUser
    /\ Idle.banned = FALSE /\ Idle.grant = NoSession /\ Idle.reply = "none"
    /\ Idle.stale = FALSE /\ Idle.closed = FALSE /\ Idle.barred = {}
    /\ Idle.own = NoEmail
  BY DEF Idle, Flow

\* A browser asks to be sent to a provider.
LEMMA OAuthAuthorizeKeeps == ASSUME IInv, NEW f \in Flows, OAuthAuthorize(f) PROVE IInv'
  <1>1. At(f, "idle") /\ NoFault /\ OnlyFlow
    BY DEF OAuthAuthorize
  <1>2. ~At(f, "VerifyUserEmail")
    BY <1>1 DEF At
  <1>3. PICK p \in ProviderNames :
          \/ Reply(f, "invalid_redirect")
          \/ Set(f, [Idle EXCEPT !.op = "OAuthAuthorize", !.provider = p, !.pc = "GetProvider"])
    BY DEF OAuthAuthorize
  <1>4. CASE Reply(f, "invalid_redirect")
    BY <1>1, <1>2, <1>4, QuietReplyKeeps
  <1> DEFINE k == [Idle EXCEPT !.op = "OAuthAuthorize", !.provider = p, !.pc = "GetProvider"]
  <1>5. CASE Set(f, k)
    <2>1. /\ k \in Flow
          /\ k.pc = "GetProvider" /\ k.provider = p /\ k.reply = "none"
          /\ k.closed = FALSE /\ k.barred = {}
      BY IdleFields DEF Flow, Steps
    <2> HIDE DEF k
    <2>2. flow'[f] = k
      BY <1>5 DEF IInv, TypeOK, Set
    <2>3. FlowInv(f)'
      BY <2>1, <2>2 DEF FlowInv, At, Among, Consumed, Asking, Profiled, Chosen
    <2>4. k.pc \notin Consumed
      BY <2>1 DEF Consumed
    <2>5. QED
      BY <1>1, <1>2, <1>5, <2>1, <2>3, <2>4, QuietKeeps
  <1>6. QED
    BY <1>3, <1>4, <1>5

\* Nothing is stored for a provider that is closed or unknown.
LEMMA GetProviderKeeps == ASSUME IInv, NEW f \in Flows, GetProvider(f) PROVE IInv'
  <1>1. At(f, "GetProvider") /\ NoFault /\ OnlyFlow
    BY DEF GetProvider
  <1>2. ~At(f, "VerifyUserEmail") /\ flow[f].pc \in Steps
    BY <1>1 DEF At, Steps
  <1>3. CASE Reply(f, "not_configured") \/ Reply(f, "internal")
    BY <1>1, <1>2, <1>3, QuietReplyKeeps
  <1>4. CASE NewProvider(flow[f].provider) /\ Goto(f, "CreateOAuthState")
    <2>1. "CreateOAuthState" \in Steps \ Consumed
      BY DEF Steps, Consumed
    <2>2. "CreateOAuthState" \notin Asking \cup Profiled \cup Chosen
      BY DEF Asking, Profiled, Chosen, Consumed
    <2>3. QED
      BY <1>1, <1>2, <1>4, <2>1, <2>2, QuietGotoKeeps
  <1>5. QED
    BY <1>3, <1>4 DEF GetProvider

\* A browser comes back: what is barred and closed now is remembered.
LEMMA OAuthCallbackKeeps == ASSUME IInv, NEW f \in Flows, OAuthCallback(f) PROVE IInv'
  <1>1. At(f, "idle") /\ NoFault /\ OnlyFlow
    BY DEF OAuthCallback
  <1>2. ~At(f, "VerifyUserEmail")
    BY <1>1 DEF At
  <1> DEFINE B == {u \in UserIds : BarredUser(u)}
  <1>3. PICK x \in StateIds, p \in ProviderNames :
          /\ states[x].held
          /\ Set(f, [Idle EXCEPT !.op = "OAuthCallback", !.pc = "ConsumeState",
                                 !.provider = p, !.state = x,
                                 !.stale = (states[x].status # "live"),
                                 !.closed = ~Open(p), !.barred = B])
    BY DEF OAuthCallback
  <1> DEFINE stale == states[x].status # "live"
             closed == ~Open(p)
             k == [Idle EXCEPT !.op = "OAuthCallback", !.pc = "ConsumeState",
                               !.provider = p, !.state = x,
                               !.stale = stale, !.closed = closed, !.barred = B]
  <1>4. B \in SUBSET UserIds /\ stale \in BOOLEAN /\ closed \in BOOLEAN
    OBVIOUS
  <1>5. Set(f, k)
    BY <1>3, Zenon
  <1>6. \A u \in B : BarredUser(u)
    OBVIOUS
  <1> HIDE DEF stale, closed, B
  <1>k. k = [Idle EXCEPT !.op = "OAuthCallback", !.pc = "ConsumeState",
                         !.provider = p, !.state = x,
                         !.stale = stale, !.closed = closed, !.barred = B]
    OBVIOUS
  <1>s. "ConsumeState" \in Steps
    BY DEF Steps
  <1> HIDE DEF k
  <1>7. /\ k \in Flow
        /\ k.pc = "ConsumeState" /\ k.provider = p /\ k.state = x /\ k.reply = "none"
        /\ k.stale = stale /\ k.closed = closed /\ k.barred = B
    BY <1>4, <1>k, <1>s, IdleFields, ZenonT(60) DEF Flow
  <1>8. flow'[f] = k /\ UNCHANGED <<users, states, identities>>
    BY <1>1, <1>5 DEF IInv, TypeOK, Set, OnlyFlow, tableVars
  <1>9. states[x].status # "free" /\ states[x].status \in {"free", "live", "gone"}
    BY <1>3 DEF IInv, TypeOK, StateRow, StatesKnown
  <1>10. \A u \in k.barred : BarredUser(u)'
    BY <1>6, <1>7, <1>8 DEF BarredUser
  <1>11. k.stale => states[x].status = "gone"
    BY <1>7, <1>9 DEF stale
  <1>12. FlowInv(f)'
    BY <1>7, <1>8, <1>9, <1>10, <1>11 DEF FlowInv, At, Among, Consumed, Asking, Profiled, Chosen
  <1>13. k.pc \notin Consumed /\ (k.closed => ~Open(k.provider))
    BY <1>7 DEF Consumed, closed
  <1>14. QED
    BY <1>1, <1>2, <1>5, <1>7, <1>12, <1>13, QuietKeeps

\* The provider is open here, and a flow whose provider was never open since
\* its start gets no further.
LEMMA GetProviderConfigKeeps == ASSUME IInv, NEW f \in Flows, GetProviderConfig(f) PROVE IInv'
  <1>1. At(f, "GetProviderConfig") /\ NoFault /\ OnlyFlow
    BY DEF GetProviderConfig
  <1>2. ~At(f, "VerifyUserEmail") /\ flow[f].pc \in Steps /\ flow[f].pc \in Consumed
    BY <1>1 DEF At, Steps, Consumed
  <1>3. CASE Reply(f, "not_configured") \/ Reply(f, "internal")
    BY <1>1, <1>2, <1>3, QuietReplyKeeps
  <1>4. CASE Open(flow[f].provider) /\ Goto(f, "GetUserProfile")
    <2>1. ~flow[f].closed
      BY <1>4 DEF IInv, ClosedKnown
    <2>2. "GetUserProfile" \in Steps /\ "GetUserProfile" \notin Profiled \cup Chosen
      BY DEF Steps, Profiled, Chosen
    <2>3. QED
      BY <1>1, <1>2, <1>4, <2>1, <2>2, QuietGotoKeeps
  <1>5. QED
    BY <1>3, <1>4 DEF GetProviderConfig

\* Whatever a provider answers, an address that gets through is one.
LEMMA ProfileTyped ==
    ASSUME TypeOK, NEW a \in Accounts, NEW body \in {"good", "refused", "garbled"}, NEW p,
           NEW profile \in Profiles(p, a, body)
    PROVE  profile.account \in Accounts \cup {NilAccount} /\ profile.email \in Emails \cup {NoEmail}
           /\ EmailOr(a, NoEmail) \in Emails \cup {NoEmail}
           /\ profile.email \in {EmailOr(a, NoEmail), NilEmail, NoEmail}
  <1>1. EmailOr(a, NoEmail) \in Emails \cup {NoEmail} /\ EmailOr(a, NilEmail) \in Emails
        /\ EmailOr(a, NilEmail) \in {EmailOr(a, NoEmail), NilEmail}
    BY OAuthAssumption DEF EmailOr, TypeOK
  <1>2. QED
    BY <1>1, OAuthAssumption DEF Profiles, GitHub, GitLab, Google

\* The answer of the provider decides who the flow is for.
LEMMA GetUserProfileKeeps == ASSUME IInv, NEW f \in Flows, GetUserProfile(f) PROVE IInv'
  <1>1. At(f, "GetUserProfile") /\ OnlyFlow /\ (NoFault \/ Fault)
    BY DEF GetUserProfile
  <1>2. ~At(f, "VerifyUserEmail") /\ flow[f].pc \in Consumed /\ flow[f].pc \in Asking
    BY <1>1 DEF At, Consumed, Asking
  <1>3. CASE Reply(f, "no_email") \/ Reply(f, "internal")
    BY <1>1, <1>2, <1>3, QuietReplyKeeps
  <1>4. CASE ~(Reply(f, "no_email") \/ Reply(f, "internal"))
    <2>0. PICK a \in Accounts, body \in {"good", "refused", "garbled"} :
            \E profile \in Profiles(flow[f].provider, a, body) :
              /\ profile.email # NoEmail
              /\ Set(f, [flow[f] EXCEPT !.pc = "GetIdentity", !.account = profile.account,
                                        !.email = profile.email,
                                        !.own = EmailOr(a, NoEmail)])
      BY <1>4 DEF GetUserProfile
    <2>1. PICK profile \in Profiles(flow[f].provider, a, body) :
            /\ profile.email # NoEmail
            /\ Set(f, [flow[f] EXCEPT !.pc = "GetIdentity", !.account = profile.account,
                                      !.email = profile.email,
                                        !.own = EmailOr(a, NoEmail)])
      BY <2>0
    <2> DEFINE k == [flow[f] EXCEPT !.pc = "GetIdentity", !.account = profile.account,
                                    !.email = profile.email, !.own = EmailOr(a, NoEmail)]
    <2>2. profile.account \in Accounts \cup {NilAccount} /\ profile.email \in Emails
          /\ EmailOr(a, NoEmail) \in Emails \cup {NoEmail}
      BY <2>1, ProfileTyped DEF IInv
    <2>3. flow[f] \in Flow
      BY DEF IInv, TypeOK
    <2>4. /\ k \in Flow
          /\ k.pc = "GetIdentity" /\ k.provider = flow[f].provider /\ k.state = flow[f].state
          /\ k.email = profile.email /\ k.reply = flow[f].reply /\ k.stale = flow[f].stale
          /\ k.closed = flow[f].closed /\ k.barred = flow[f].barred
      <3>1. "GetIdentity" \in Steps
        BY DEF Steps
      <3>2. QED
        BY <2>2, <2>3, <3>1, ZenonT(60) DEF Flow
    <2> HIDE DEF k
    <2>5. Set(f, k)
      BY <2>1 DEF k
    <2>6. flow'[f] = k /\ UNCHANGED <<users, states, identities>>
      BY <1>1, <2>5 DEF IInv, TypeOK, Set, OnlyFlow, tableVars
    <2>7. FlowInv(f)'
      BY <1>1, <1>2, <2>2, <2>4, <2>6 DEF IInv, FlowInv, At, Among, BarredUser, Consumed, Asking,
                                          Profiled, Chosen
    <2>8. k.closed => ~Open(k.provider)
      BY <2>4 DEF IInv, ClosedKnown
    <2>9. QED
      BY <1>1, <1>2, <2>4, <2>5, <2>7, <2>8, QuietKeeps
  <1>5. QED
    BY <1>3, <1>4

\* A live user was found, by the address or by the identity.
LEMMA ChooseKeeps ==
    ASSUME IInv, NEW f \in Flows, NEW step \in {"VerifyUserEmail", "GetUserByID"},
           NEW u \in UserIds, GoWith(f, step, u), OnlyFlow, NoFault \/ Fault,
           flow[f].pc \in Profiled, ~At(f, "VerifyUserEmail"),
           users[u].status = "live",
           \/ users[u].email = flow[f].email
           \/ \E i \in identities : Linked(i, flow[f].provider, flow[f].account, u)
    PROVE  IInv'
  <1> DEFINE k == [flow[f] EXCEPT !.pc = step, !.user = u]
  <1>1. flow[f] \in Flow
    BY DEF IInv, TypeOK
  <1>2. /\ k \in Flow
        /\ k.pc = step /\ k.user = u
        /\ k.provider = flow[f].provider /\ k.state = flow[f].state
        /\ k.account = flow[f].account /\ k.email = flow[f].email
        /\ k.reply = flow[f].reply /\ k.stale = flow[f].stale
        /\ k.closed = flow[f].closed /\ k.barred = flow[f].barred
    <2>1. step \in Steps /\ u \in UserIds \cup {NoUser}
      BY DEF Steps
    <2>2. QED
      BY <1>1, <2>1, ZenonT(60) DEF Flow
  <1>3. Set(f, k)
    BY DEF GoWith
  <1> HIDE DEF k
  <1>4. flow'[f] = k /\ UNCHANGED <<users, states, identities>>
    BY <1>3 DEF IInv, TypeOK, Set, OnlyFlow, tableVars
  <1>5. flow[f].pc \in Asking /\ flow[f].pc \in Consumed /\ ~At(f, "replied") /\ ~At(f, "idle")
    BY DEF Profiled, Asking, Consumed, At
  <1>6. Owned(f)'
    BY <1>2, <1>4 DEF Owned
  <1>7. FlowInv(f)'
    BY <1>2, <1>4, <1>5, <1>6 DEF IInv, FlowInv, At, Among, BarredUser, Consumed, Asking,
                                  Profiled
  <1>8. k.closed => ~Open(k.provider)
    BY <1>2 DEF IInv, ClosedKnown
  <1>9. QED
    BY <1>2, <1>3, <1>5, <1>7, <1>8, QuietKeeps

\* The user of an identity is there.
LEMMA GetIdentityKeeps == ASSUME IInv, NEW f \in Flows, GetIdentity(f) PROVE IInv'
  <1>1. At(f, "GetIdentity") /\ OnlyFlow /\ (NoFault \/ Fault)
    BY DEF GetIdentity
  <1>2. /\ ~At(f, "VerifyUserEmail") /\ flow[f].pc \in Steps
        /\ flow[f].pc \in Consumed /\ flow[f].pc \in Asking /\ flow[f].pc \in Profiled
    BY <1>1 DEF At, Steps, Consumed, Asking, Profiled
  <1>3. ASSUME NEW i \in IdentityOf(flow[f].provider, flow[f].account),
               GoWith(f, "GetUserByID", i.user)
        PROVE  IInv'
    <2>1. /\ i \in IdentityRow /\ i \in identities /\ LiveUser(i.user)
          /\ i.provider = flow[f].provider /\ i.account = flow[f].account
      BY <1>3 DEF IInv, TypeOK, IdentityOf, IdentitiesHaveAccounts
    <2>2. i.user \in UserIds /\ Linked(i, flow[f].provider, flow[f].account, i.user)
      BY <2>1 DEF IdentityRow, Linked
    <2>3. QED
      BY <1>1, <1>2, <1>3, <2>1, <2>2, ChooseKeeps DEF LiveUser
  <1>4. CASE Goto(f, "GetUserByEmail")
    <2>1. /\ "GetUserByEmail" \in Steps /\ "GetUserByEmail" \notin Chosen
          /\ ~flow[f].closed
      BY <1>2 DEF Steps, Chosen, IInv, FlowInv, Among
    <2>2. QED
      BY <1>1, <1>2, <1>4, <2>1, QuietGotoKeeps
  <1>5. QED
    BY <1>3, <1>4 DEF GetIdentity

\* The ban is that of the row the address found.
LEMMA GetUserByEmailKeeps == ASSUME IInv, NEW f \in Flows, GetUserByEmail(f) PROVE IInv'
  <1>1. At(f, "GetUserByEmail") /\ OnlyFlow /\ (NoFault \/ Fault)
    BY DEF GetUserByEmail
  <1>2. /\ ~At(f, "VerifyUserEmail") /\ flow[f].pc \in Steps
        /\ flow[f].pc \in Consumed /\ flow[f].pc \in Asking /\ flow[f].pc \in Profiled
    BY <1>1 DEF At, Steps, Consumed, Asking, Profiled
  <1>3. ASSUME NEW u \in UserWithEmail(flow[f].email),
               Set(f, [flow[f] EXCEPT !.pc = "LinkIdentity", !.user = u,
                                      !.banned = users[u].banned])
        PROVE  IInv'
    <2> DEFINE k == [flow[f] EXCEPT !.pc = "LinkIdentity", !.user = u,
                                    !.banned = users[u].banned]
    <2>1. /\ u \in UserIds /\ users[u].status = "live" /\ users[u].email = flow[f].email
          /\ users[u].banned \in BOOLEAN
      BY <1>3 DEF UserWithEmail, IInv, TypeOK, StoreTypeOK, UserRow
    <2>2. flow[f] \in Flow
      BY DEF IInv, TypeOK
    <2>3. /\ k \in Flow
          /\ k.pc = "LinkIdentity" /\ k.user = u /\ k.banned = users[u].banned
          /\ k.provider = flow[f].provider /\ k.state = flow[f].state
          /\ k.account = flow[f].account /\ k.email = flow[f].email
          /\ k.reply = flow[f].reply /\ k.stale = flow[f].stale
          /\ k.closed = flow[f].closed /\ k.barred = flow[f].barred
      <3>1. "LinkIdentity" \in Steps
        BY DEF Steps
      <3>2. QED
        BY <2>1, <2>2, <3>1, ZenonT(60) DEF Flow
    <2>4. Set(f, k)
      BY <1>3
    <2> HIDE DEF k
    <2>5. flow'[f] = k /\ UNCHANGED <<users, states, identities>>
      BY <1>1, <2>4 DEF IInv, TypeOK, Set, OnlyFlow, tableVars
    <2>6. Owned(f)'
      BY <2>1, <2>3, <2>5 DEF Owned
    <2>7. ~k.banned => k.user \notin k.barred
      BY <2>1, <2>3 DEF IInv, FlowInv, BarredUser
    <2>8. /\ ~At(f, "replied") /\ ~At(f, "idle")
          /\ \A u_1 \in k.barred : BarredUser(u_1)'
      BY <1>1, <2>3, <2>5 DEF At, IInv, FlowInv, BarredUser
    <2>9. FlowInv(f)'
      BY <1>2, <2>1, <2>3, <2>5, <2>6, <2>7, <2>8 DEF IInv, FlowInv, At, Among, Consumed, Asking,
                                                      Profiled
    <2>10. k.closed => ~Open(k.provider)
      BY <2>3 DEF IInv, ClosedKnown
    <2>11. QED
      BY <1>1, <1>2, <2>3, <2>4, <2>9, <2>10, QuietKeeps
  <1>4. CASE Goto(f, "CreateUser")
    <2>1. /\ "CreateUser" \in Steps /\ "CreateUser" \notin Chosen
          /\ ~flow[f].closed
      BY <1>2 DEF Steps, Chosen, IInv, FlowInv, Among
    <2>2. QED
      BY <1>1, <1>2, <1>4, <2>1, QuietGotoKeeps
  <1>5. QED
    BY <1>3, <1>4 DEF GetUserByEmail

\* The user who took the address in the meantime has it.
LEMMA RetryByEmailKeeps == ASSUME IInv, NEW f \in Flows, RetryByEmail(f) PROVE IInv'
  <1>1. At(f, "RetryByEmail") /\ OnlyFlow /\ (NoFault \/ Fault)
    BY DEF RetryByEmail
  <1>2. ~At(f, "VerifyUserEmail") /\ flow[f].pc \in Profiled
    BY <1>1 DEF At, Consumed, Asking, Profiled
  <1>3. ASSUME NEW u \in UserWithEmail(flow[f].email), GoWith(f, "VerifyUserEmail", u)
        PROVE  IInv'
    BY <1>1, <1>2, <1>3, ChooseKeeps DEF UserWithEmail
  <1>4. CASE Reply(f, "internal")
    BY <1>1, <1>2, <1>4, QuietReplyKeeps
  <1>5. QED
    BY <1>3, <1>4 DEF RetryByEmail

\* Whoever is found neither banned nor gone was neither when the flow started.
LEMMA GetUserByIDKeeps == ASSUME IInv, NEW f \in Flows, GetUserByID(f) PROVE IInv'
  <1>1. At(f, "GetUserByID") /\ OnlyFlow /\ (NoFault \/ Fault)
    BY DEF GetUserByID
  <1>2. /\ ~At(f, "VerifyUserEmail") /\ flow[f].pc \in Steps
        /\ flow[f].pc \in Consumed /\ flow[f].pc \in Asking /\ flow[f].pc \in Profiled
        /\ flow[f].pc \in Chosen
    BY <1>1 DEF At, Steps, Consumed, Asking, Profiled, Chosen
  <1>3. CASE Reply(f, "internal") \/ Reply(f, "banned")
    BY <1>1, <1>2, <1>3, QuietReplyKeeps
  <1>4. CASE /\ LiveUser(flow[f].user) /\ ~users[flow[f].user].banned
             /\ Goto(f, "CreateSession")
    <2>1. "CreateSession" \in Steps /\ ~flow[f].closed
      BY <1>2 DEF Steps, IInv, FlowInv, Among
    <2>2. flow[f].user \notin flow[f].barred
      BY <1>4 DEF IInv, FlowInv, BarredUser, LiveUser
    <2>3. QED
      BY <1>1, <1>2, <1>4, <2>1, <2>2, QuietGotoKeeps
  <1>5. QED
    BY <1>3, <1>4 DEF GetUserByID

\* A statement that fails without a trace.
LEMMA StatementFailsKeeps == ASSUME IInv, NEW f \in Flows, StatementFails(f) PROVE IInv'
  <1>1. ~At(f, "VerifyUserEmail") /\ OnlyFlow /\ Fault
    BY DEF StatementFails, At
  <1>2. \E a : Reply(f, a)
    BY DEF StatementFails
  <1>3. QED
    BY <1>1, <1>2, QuietReplyKeeps

\* A state is stored for the provider that was just found known, and no session
\* was ever opened with it.
LEMMA CreateOAuthStateKeeps == ASSUME IInv, NEW f \in Flows, CreateOAuthState(f) PROVE IInv'
  <1> DEFINE K(x) == [flow[f] EXCEPT !.pc = "replied", !.reply = "authorize", !.state = x]
  <1>1. /\ At(f, "CreateOAuthState") /\ (NoFault \/ Fault)
        /\ UNCHANGED <<users, sessions, identities>> /\ UNCHANGED configVars
    BY DEF CreateOAuthState, Acknowledged
  <1>2. PICK x \in StateIds :
          /\ states[x].status = "free"
          /\ states' = [states EXCEPT ![x] = [FreeState EXCEPT !.status = "live",
                                                               !.provider = flow[f].provider]]
          /\ Set(f, K(x)) \/ Reply(f, "internal")
    BY DEF CreateOAuthState, Acknowledged
  <1>3. /\ flow[f] \in Flow /\ flow[f].provider \in ProviderNames
        /\ NewProvider(flow[f].provider)
    BY <1>1 DEF IInv, TypeOK, FlowInv, At
  <1> DEFINE row == [FreeState EXCEPT !.status = "live", !.provider = flow[f].provider]
  <1>4. /\ row \in StateRow /\ row.status = "live" /\ row.provider = flow[f].provider
        /\ row.held = FALSE /\ row.opened = {}
    BY <1>3 DEF FreeState, StateRow
  <1> HIDE DEF row
  <1>5. /\ states' \in [StateIds -> StateRow]
        /\ states'[x] = row
        /\ \A y \in StateIds : y # x => states'[y] = states[y]
    BY <1>2, <1>4 DEF IInv, TypeOK, row
  <1>6. states[x].opened = {}
    BY <1>2 DEF IInv, OneTrip
  <1>7. Forward
    BY <1>1, <1>2, <1>5 DEF Forward, BarredUser
  <1>8. StatesKnown' /\ IdentitiesHaveAccounts' /\ StoreTypeOK' /\ identities' \subseteq IdentityRow
    BY <1>1, <1>3, <1>4, <1>5 DEF IInv, TypeOK, StatesKnown, IdentitiesHaveAccounts, LiveUser,
                                  StoreTypeOK
  <1>9. \A y \in StateIds : /\ states'[y].opened = states[y].opened
                            /\ states[y].status = "gone" => states'[y].status = "gone"
    BY <1>2, <1>4, <1>5, <1>6
  <1>10. ASSUME NEW k \in Flow, Set(f, k), FlowInv(f)', k.pc \notin Consumed,
                k.closed => ~Open(k.provider)
         PROVE  IInv'
    <2>1. OneTrip'
      BY <1>9, <1>10, SameTrips
    <2>2. CreatedAccountsVerified'
      BY <1>1, <1>10, SameVerified DEF At
    <2>3. QED
      BY <1>1, <1>5, <1>7, <1>8, <1>10, <2>1, <2>2, Assemble
  <1>11. CASE Set(f, K(x))
    <2> DEFINE k == K(x)
    <2>1. /\ k \in Flow
          /\ k.pc = "replied" /\ k.reply = "authorize" /\ k.state = x
          /\ k.provider = flow[f].provider /\ k.closed = flow[f].closed
          /\ k.barred = flow[f].barred
      BY <1>3 DEF Flow
    <2> HIDE DEF k, K
    <2>2. flow'[f] = k
      BY <1>11 DEF IInv, TypeOK, Set, k
    <2>3. \A u \in k.barred : BarredUser(u)'
      BY <1>1, <2>1 DEF IInv, FlowInv, BarredUser
    <2>4. FlowInv(f)'
      BY <1>3, <1>4, <1>5, <2>1, <2>2, <2>3 DEF FlowInv, At, Among, Consumed, Asking, Profiled,
                                                Chosen
    <2>5. k.closed => ~Open(k.provider)
      BY <2>1 DEF IInv, ClosedKnown
    <2>6. k.pc \notin Consumed
      BY <2>1 DEF Consumed
    <2>7. QED
      BY <1>10, <1>11, <2>1, <2>4, <2>5, <2>6 DEF k
  <1>12. CASE Reply(f, "internal")
    <2>1. Set(f, Idle) /\ flow'[f] = Idle
      BY <1>12 DEF Reply, Set, IInv, TypeOK
    <2>2. FlowInv(f)' /\ Idle \in Flow /\ ~Idle.closed /\ Idle.pc \notin Consumed
      BY <2>1, IdleKeeps DEF Consumed
    <2>3. QED
      BY <1>10, <2>1, <2>2
  <1>13. QED
    BY <1>2, <1>11, <1>12

\* The DELETE hands a state to one callback, once.
LEMMA ConsumeStateKeeps ==
    ASSUME IInv, NEW f \in Flows, GetAndConsumeOAuthState(f)
    PROVE  IInv'
  <1> DEFINE x == flow[f].state
  <1>1. /\ At(f, "ConsumeState") /\ (NoFault \/ Fault)
        /\ UNCHANGED <<users, sessions, identities>> /\ UNCHANGED configVars
        /\ states' = [states EXCEPT ![x].status = IF states[x].status = "live" THEN "gone" ELSE @]
        /\ \/ /\ states[x].status = "live" /\ states[x].provider = flow[f].provider
              /\ Goto(f, "GetProviderConfig")
           \/ Reply(f, "invalid_state")
    BY DEF GetAndConsumeOAuthState, Acknowledged
  <1>2. flow[f] \in Flow /\ x \in StateIds /\ states[x].status # "free"
    BY <1>1 DEF IInv, TypeOK, FlowInv
  <1>3. /\ states' \in [StateIds -> StateRow]
        /\ states'[x].status = "gone"
        /\ states'[x].provider = states[x].provider
        /\ states'[x].held = states[x].held
        /\ states'[x].opened = states[x].opened
        /\ \A y \in StateIds : y # x => states'[y] = states[y]
    <2>1. states[x] \in StateRow /\ states \in [StateIds -> StateRow]
      BY <1>2 DEF IInv, TypeOK
    <2>2. states[x].status \in {"live", "gone"}
      BY <1>2, <2>1 DEF StateRow
    <2> DEFINE row == [states[x] EXCEPT !.status = "gone"]
    <2>3. /\ row \in StateRow /\ row.status = "gone" /\ row.provider = states[x].provider
          /\ row.held = states[x].held /\ row.opened = states[x].opened
      BY <2>1, ZenonT(30) DEF StateRow
    <2>4. states' = [states EXCEPT ![x] = row]
      BY <1>1, <2>2
    <2> HIDE DEF row
    <2>5. QED
      BY <1>2, <2>1, <2>3, <2>4
  <1>4. Forward
    BY <1>1, <1>2, <1>3 DEF Forward, BarredUser
  <1>5. StatesKnown' /\ IdentitiesHaveAccounts' /\ StoreTypeOK' /\ identities' \subseteq IdentityRow
    BY <1>1, <1>2, <1>3 DEF IInv, TypeOK, StatesKnown, IdentitiesHaveAccounts, LiveUser,
                            StoreTypeOK
  <1>6. ASSUME NEW k \in Flow, Set(f, k), FlowInv(f)', OneTrip', k.closed => ~Open(k.provider)
        PROVE  IInv'
    <2>1. CreatedAccountsVerified'
      BY <1>1, <1>6, SameVerified DEF At
    <2>2. QED
      BY <1>1, <1>3, <1>4, <1>5, <1>6, <2>1, Assemble
  <1>7. CASE /\ states[x].status = "live" /\ states[x].provider = flow[f].provider
             /\ Goto(f, "GetProviderConfig")
    <2> DEFINE k == [flow[f] EXCEPT !.pc = "GetProviderConfig"]
    <2>1. /\ k \in Flow
          /\ k.pc = "GetProviderConfig" /\ k.state = x /\ k.provider = flow[f].provider
          /\ k.reply = flow[f].reply /\ k.stale = flow[f].stale /\ k.closed = flow[f].closed
          /\ k.barred = flow[f].barred
      <3>1. "GetProviderConfig" \in Steps
        BY DEF Steps
      <3>2. QED
        BY <1>2, <3>1, GotoFields
    <2>2. Set(f, k)
      BY <1>7 DEF Goto
    <2> HIDE DEF k
    <2>3. /\ flow'[f] = k
          /\ \A g \in Flows : g # f => flow'[g] = flow[g]
      BY <2>2 DEF IInv, TypeOK, Set
    <2>4. \A u \in k.barred : BarredUser(u)'
      BY <1>1, <2>1 DEF IInv, FlowInv, BarredUser
    <2>5. FlowInv(f)'
      BY <1>1, <1>2, <1>3, <1>7, <2>1, <2>3, <2>4
         DEF IInv, FlowInv, At, Among, Consumed, Asking, Profiled, Chosen
    <2>6. OneTrip'
      <3>1. states[x].opened = {}
        BY <1>2, <1>7 DEF IInv, OneTrip
      <3>2. \A g \in Flows : flow[g].pc \in Consumed =>
              flow[g].state # x /\ flow[g].state \in StateIds
        BY <1>7 DEF IInv, FlowInv, Among
      <3>3. \A y \in StateIds : /\ states'[y].opened = states[y].opened
                                /\ states[y].status = "gone" => states'[y].status = "gone"
        BY <1>3
      <3>4. QED
        BY <1>2, <2>1, <2>3, <3>1, <3>2, <3>3 DEF IInv, OneTrip
    <2>7. k.closed => ~Open(k.provider)
      BY <2>1 DEF IInv, ClosedKnown
    <2>8. QED
      BY <1>6, <2>1, <2>2, <2>5, <2>6, <2>7
  <1>8. CASE Reply(f, "invalid_state")
    <2>1. Set(f, Idle) /\ flow'[f] = Idle
      BY <1>8 DEF Reply, Set, IInv, TypeOK
    <2>2. FlowInv(f)' /\ Idle \in Flow /\ ~Idle.closed /\ Idle.pc \notin Consumed
      BY <2>1, IdleKeeps DEF Consumed
    <2>3. \A y \in StateIds : /\ states'[y].opened = states[y].opened
                              /\ states[y].status = "gone" => states'[y].status = "gone"
      BY <1>3
    <2>4. OneTrip'
      BY <2>1, <2>2, <2>3, SameTrips
    <2>5. QED
      BY <1>6, <2>1, <2>2, <2>4
  <1>9. QED
    BY <1>1, <1>7, <1>8

\* The unique index and the foreign key keep identities in order, whether the
\* INSERT works or not.
LEMMA StoreIdentityKeeps ==
    ASSUME IInv, NEW f \in Flows, flow[f].provider \in ProviderNames, StoreIdentity(f)
    PROVE  /\ identities' \subseteq IdentityRow
           /\ identities \subseteq identities'
           /\ IdentitiesHaveAccounts'
           /\ UNCHANGED <<users, sessions, states>> /\ UNCHANGED configVars
           /\ NoFault \/ Fault
           /\ Forward
  <1> DEFINE new == [provider |-> flow[f].provider, account |-> flow[f].account,
                     user |-> flow[f].user, own |-> flow[f].own]
  <1>1. /\ UNCHANGED <<users, sessions, states>> /\ UNCHANGED configVars
        /\ NoFault \/ Fault
        /\ \/ identities' = identities
           \/ /\ LiveUser(flow[f].user)
              /\ IdentityOf(flow[f].provider, flow[f].account) = {}
              /\ identities' = identities \cup {new}
    BY DEF StoreIdentity, InsertIdentity
  <1>2. identities \subseteq IdentityRow /\ flow[f].account \in Accounts \cup {NilAccount}
        /\ flow[f].own \in Emails \cup {NoEmail}
    BY DEF IInv, TypeOK, Flow
  <1>3. LiveUser(flow[f].user) =>
          /\ new \in IdentityRow
          /\ new.provider = flow[f].provider /\ new.account = flow[f].account
          /\ new.user = flow[f].user
    BY <1>2 DEF IdentityRow, LiveUser
  <1> HIDE DEF new
  <1>4. identities' \subseteq IdentityRow /\ identities \subseteq identities'
    BY <1>1, <1>2, <1>3
  <1>5. IdentitiesHaveAccounts'
    BY <1>1, <1>3 DEF IInv, IdentitiesHaveAccounts, LiveUser, IdentityOf
  <1>6. Forward
    BY <1>1, <1>4 DEF Forward, BarredUser
  <1>7. QED
    BY <1>1, <1>4, <1>5, <1>6

\* The step of a flow that stores an identity.
LEMMA LinkedKeeps ==
    ASSUME IInv, NEW f \in Flows, NEW k \in Flow, Set(f, k), StoreIdentity(f),
           flow[f].pc \in Chosen, ~At(f, "VerifyUserEmail"),
           FlowInv(f)',
           k.pc \in Consumed => k.state = flow[f].state,
           k.closed => ~Open(k.provider)
    PROVE  IInv'
  <1>1. flow[f].provider \in ProviderNames /\ flow[f].pc \in Consumed
    BY DEF IInv, FlowInv, At, Chosen, Consumed
  <1>2. /\ identities' \subseteq IdentityRow /\ IdentitiesHaveAccounts' /\ Forward
        /\ UNCHANGED <<users, sessions, states>> /\ UNCHANGED configVars
        /\ NoFault \/ Fault
    BY <1>1, StoreIdentityKeeps
  <1>3. StoreTypeOK' /\ states' \in [StateIds -> StateRow] /\ StatesKnown'
    BY <1>2 DEF IInv, TypeOK, StoreTypeOK, StatesKnown
  <1>4. OneTrip'
    BY <1>1, <1>2, SameTrips
  <1>5. CreatedAccountsVerified'
    BY <1>2, SameVerified
  <1>6. QED
    BY <1>2, <1>3, <1>4, <1>5, Assemble

\* ... goes on or ends.
LEMMA LinkedGotoKeeps ==
    ASSUME IInv, NEW f \in Flows, NEW step \in {"CreateSession", "GetUserByID"},
           StoreIdentity(f), Goto(f, step), flow[f].pc \in {"LinkIdentity", "CreateIdentity"},
           step = "CreateSession" => flow[f].user \notin flow[f].barred
    PROVE  IInv'
  <1> DEFINE k == [flow[f] EXCEPT !.pc = step]
  <1>1. flow[f] \in Flow /\ step \in Steps
    BY DEF IInv, TypeOK, Steps
  <1>2. /\ k \in Flow /\ k.pc = step
        /\ k.provider = flow[f].provider /\ k.state = flow[f].state
        /\ k.account = flow[f].account /\ k.email = flow[f].email /\ k.user = flow[f].user
        /\ k.reply = flow[f].reply /\ k.stale = flow[f].stale
        /\ k.closed = flow[f].closed /\ k.barred = flow[f].barred
    BY <1>1, GotoFields
  <1>3. Set(f, k)
    BY DEF Goto
  <1> HIDE DEF k
  <1>4. /\ flow[f].pc \in Consumed /\ flow[f].pc \in Asking /\ flow[f].pc \in Profiled
        /\ flow[f].pc \in Chosen /\ ~At(f, "VerifyUserEmail") /\ ~At(f, "idle")
        /\ ~At(f, "replied")
    BY DEF Consumed, Asking, Profiled, Chosen, At
  <1>5. flow'[f] = k /\ UNCHANGED <<users, states>> /\ identities \subseteq identities'
    BY <1>3, <1>4, StoreIdentityKeeps DEF IInv, TypeOK, Set, FlowInv
  <1>6. Owned(f)'
    BY <1>2, <1>4, <1>5 DEF IInv, FlowInv, Among, Owned
  <1>7. FlowInv(f)'
    BY <1>2, <1>4, <1>5, <1>6 DEF IInv, FlowInv, At, Among, BarredUser, Consumed, Asking, Profiled
  <1>8. k.closed => ~Open(k.provider)
    BY <1>2 DEF IInv, ClosedKnown
  <1>9. QED
    BY <1>2, <1>3, <1>4, <1>7, <1>8, LinkedKeeps

\* A banned user who was found by address is linked, and refused.
LEMMA LinkIdentityKeeps == ASSUME IInv, NEW f \in Flows, LinkIdentity(f) PROVE IInv'
  <1>1. At(f, "LinkIdentity") /\ StoreIdentity(f)
    BY DEF LinkIdentity
  <1>2. flow[f].pc \in Chosen /\ ~At(f, "VerifyUserEmail")
    BY <1>1 DEF At, Chosen
  <1>3. CASE flow[f].banned
    <2>1. Set(f, Idle) /\ flow'[f] = Idle
      BY <1>3 DEF LinkIdentity, Reply, Set, IInv, TypeOK
    <2>2. FlowInv(f)' /\ Idle \in Flow /\ ~Idle.closed /\ Idle.pc \notin Consumed
      BY <2>1, IdleKeeps DEF Consumed
    <2>3. QED
      BY <1>1, <1>2, <2>1, <2>2, LinkedKeeps
  <1>4. CASE ~flow[f].banned
    <2>1. Goto(f, "CreateSession")
      BY <1>4 DEF LinkIdentity
    <2>2. flow[f].user \notin flow[f].barred
      BY <1>1, <1>4 DEF IInv, FlowInv
    <2>3. QED
      BY <1>1, <2>1, <2>2, LinkedGotoKeeps DEF At
  <1>5. QED
    BY <1>3, <1>4

\* The identity of the user that was created, or found in its place.
LEMMA CreateIdentityKeeps == ASSUME IInv, NEW f \in Flows, CreateIdentity(f) PROVE IInv'
  BY LinkedGotoKeeps DEF CreateIdentity, At

\* A step of a flow that writes the users table: what has to be shown of it.
LEMMA UsersKeep ==
    ASSUME IInv, NEW f \in Flows, NEW k \in Flow, Set(f, k), NoFault \/ Fault,
           UNCHANGED <<sessions, states, identities>>, UNCHANGED configVars,
           StoreTypeOK', Forward,
           \A u \in UserIds : users[u].status = "live" => users'[u].status = "live",
           FlowInv(f)', CreatedAccountsVerified',
           k.pc \in Consumed => flow[f].pc \in Consumed /\ k.state = flow[f].state,
           k.closed => ~Open(k.provider)
    PROVE  IInv'
  <1>1. states' \in [StateIds -> StateRow] /\ identities' \subseteq IdentityRow /\ StatesKnown'
    BY DEF IInv, TypeOK, StatesKnown
  <1>2. OneTrip'
    BY SameTrips
  <1>3. IdentitiesHaveAccounts'
    BY DEF IInv, IdentitiesHaveAccounts, LiveUser
  <1>4. QED
    BY <1>1, <1>2, <1>3, Assemble

\* A new account has the address that was reported, and waits to be verified.
LEMMA CreateUserKeeps == ASSUME IInv, NEW f \in Flows, CreateUser(f) PROVE IInv'
  <1>1. /\ At(f, "CreateUser") /\ UNCHANGED <<states, identities>> /\ UNCHANGED configVars
        /\ NoFault \/ Fault
    BY DEF CreateUser, Acknowledged
  <1>2. /\ ~At(f, "VerifyUserEmail") /\ flow[f].pc \in Steps
        /\ flow[f].pc \in Consumed /\ flow[f].pc \in Asking /\ flow[f].pc \in Profiled
        /\ ~At(f, "idle") /\ ~At(f, "replied")
    BY <1>1 DEF At, Steps, Consumed, Asking, Profiled
  <1>3. flow[f] \in Flow /\ flow[f].email \in Emails /\ ~flow[f].closed
    BY <1>2 DEF IInv, TypeOK, FlowInv, Among
  <1>4. CASE UNCHANGED <<users, sessions>> /\ Goto(f, "RetryByEmail")
    <2>1. "RetryByEmail" \in Steps /\ "RetryByEmail" \notin Chosen
      BY DEF Steps, Chosen
    <2>2. OnlyFlow
      BY <1>1, <1>4 DEF OnlyFlow, tableVars
    <2>3. QED
      BY <1>1, <1>2, <1>3, <1>4, <2>1, <2>2, QuietGotoKeeps
  <1>5. CASE UNCHANGED <<users, sessions>> /\ Reply(f, "internal")
    <2>1. OnlyFlow
      BY <1>1, <1>5 DEF OnlyFlow, tableVars
    <2>2. QED
      BY <1>1, <1>2, <1>5, <2>1, QuietReplyKeeps
  <1>6. ASSUME NEW u \in UserIds, InsertUser(u, flow[f].email, NoPassword),
               \/ GoWith(f, "VerifyUserEmail", u)
               \/ Reply(f, "internal") /\ Fault
        PROVE  IInv'
    <2>1. /\ StoreTypeOK' /\ UNCHANGED sessions
          /\ users'[u].status = "live" /\ users[u].status = "free"
          /\ \A v \in UserIds : v # u => users'[v] = users[v]
      <3>1. StoreTypeOK /\ flow[f].email \in Emails \cup {NoEmail}
            /\ NoPassword \in Passwords \cup {NoPassword}
        BY <1>3 DEF IInv, TypeOK
      <3>2. QED
        BY <1>6, <3>1, InsertUserForward
    <2>2. users'[u].email = flow[f].email
      BY <1>6 DEF InsertUser, FreeUser, IInv, TypeOK, StoreTypeOK
    <2>3. Forward
      BY <1>1, <2>1 DEF Forward, BarredUser
    <2>4. CASE GoWith(f, "VerifyUserEmail", u)
      <3> DEFINE k == [flow[f] EXCEPT !.pc = "VerifyUserEmail", !.user = u]
      <3>1. /\ k \in Flow
            /\ k.pc = "VerifyUserEmail" /\ k.user = u
            /\ k.provider = flow[f].provider /\ k.state = flow[f].state
            /\ k.account = flow[f].account /\ k.email = flow[f].email
            /\ k.reply = flow[f].reply /\ k.stale = flow[f].stale
            /\ k.closed = flow[f].closed /\ k.barred = flow[f].barred
        <4>1. "VerifyUserEmail" \in Steps
          BY DEF Steps
        <4>2. QED
          BY <1>3, <4>1 DEF Flow
      <3>2. Set(f, k)
        BY <2>4 DEF GoWith
      <3> HIDE DEF k
      <3>3. /\ flow'[f] = k
            /\ \A g \in Flows : g # f => flow'[g] = flow[g]
        BY <3>2 DEF IInv, TypeOK, Set
      <3>4. Owned(f)' /\ users'[k.user].status # "free"
        BY <2>1, <2>2, <3>1, <3>3 DEF Owned
      <3>5. \A v \in k.barred : BarredUser(v)'
        <4>1. k.barred \subseteq UserIds /\ \A v \in k.barred : BarredUser(v)
          BY <1>3, <3>1 DEF Flow, IInv, FlowInv
        <4>2. QED
          BY <2>3, <4>1 DEF Forward
      <3>6. FlowInv(f)'
        BY <1>1, <1>2, <1>3, <3>1, <3>3, <3>4, <3>5
           DEF IInv, FlowInv, At, Among, Consumed, Asking, Profiled
      <3>7. CreatedAccountsVerified'
        <4>1. faults' = 0 => faults = 0
          BY <1>1 DEF IInv, TypeOK, NoFault, Fault
        <4>2. At(f, "VerifyUserEmail")' /\ flow'[f].user = u
          BY <3>1, <3>3 DEF At
        <4>3. \A g \in Flows : At(g, "VerifyUserEmail") => At(g, "VerifyUserEmail")'
                                                            /\ flow'[g].user = flow[g].user
          BY <1>2, <3>3 DEF At
        <4>4. QED
          BY <2>1, <4>1, <4>2, <4>3 DEF IInv, CreatedAccountsVerified, LiveUser
      <3>8. \A v \in UserIds : users[v].status = "live" => users'[v].status = "live"
        BY <2>1
      <3>9. QED
        BY <1>1, <1>2, <1>3, <2>1, <2>3, <3>1, <3>2, <3>6, <3>7, <3>8, UsersKeep
    <2>5. CASE Reply(f, "internal") /\ Fault
      <3>1. Set(f, Idle) /\ flow'[f] = Idle
        BY <2>5 DEF Reply, Set, IInv, TypeOK
      <3>2. FlowInv(f)' /\ Idle \in Flow /\ ~Idle.closed /\ Idle.pc \notin Consumed
        BY <3>1, IdleKeeps DEF Consumed
      <3>3. CreatedAccountsVerified'
        BY <2>5 DEF CreatedAccountsVerified, Fault, IInv, TypeOK
      <3>4. \A v \in UserIds : users[v].status = "live" => users'[v].status = "live"
        BY <2>1
      <3>5. QED
        BY <1>1, <2>1, <2>3, <3>1, <3>2, <3>3, <3>4, UsersKeep
    <2>6. QED
      BY <1>6, <2>4, <2>5
  <1>7. QED
    BY <1>4, <1>5, <1>6 DEF CreateUser, Acknowledged

\* The account is verified, if the statement works and the account is there.
LEMMA VerifyUserEmailKeeps == ASSUME IInv, NEW f \in Flows, VerifyUserEmail(f) PROVE IInv'
  <1> DEFINE u == flow[f].user
             k == [flow[f] EXCEPT !.pc = "CreateIdentity"]
  <1>1. /\ At(f, "VerifyUserEmail") /\ Set(f, k)
        /\ UNCHANGED <<sessions, states, identities>> /\ UNCHANGED configVars
        /\ \/ users' = [users EXCEPT ![u].verified = LiveUser(u)] /\ NoFault
           \/ UNCHANGED users /\ Fault
    BY DEF VerifyUserEmail, Goto
  <1>2. /\ flow[f].pc \in Consumed /\ flow[f].pc \in Asking /\ flow[f].pc \in Profiled
        /\ flow[f].pc \in Chosen /\ ~At(f, "idle") /\ ~At(f, "replied")
    BY <1>1 DEF At, Consumed, Asking, Profiled, Chosen
  <1>3. flow[f] \in Flow /\ u \in UserIds /\ users[u].status # "free" /\ Owned(f)
    BY <1>2 DEF IInv, TypeOK, FlowInv, Among
  <1>4. /\ k \in Flow /\ k.pc = "CreateIdentity"
        /\ k.provider = flow[f].provider /\ k.state = flow[f].state
        /\ k.account = flow[f].account /\ k.email = flow[f].email /\ k.user = u
        /\ k.reply = flow[f].reply /\ k.stale = flow[f].stale
        /\ k.closed = flow[f].closed /\ k.barred = flow[f].barred
    <2>1. "CreateIdentity" \in Steps
      BY DEF Steps
    <2>2. QED
      BY <1>3, <2>1, GotoFields
  <1> HIDE DEF k
  <1>5. /\ flow'[f] = k
        /\ \A g \in Flows : g # f => flow'[g] = flow[g]
    BY <1>1 DEF IInv, TypeOK, Set
  <1>6. /\ users' \in [UserIds -> UserRow]
        /\ \A v \in UserIds : /\ users'[v].status = users[v].status
                              /\ users'[v].email = users[v].email
                              /\ users'[v].password = users[v].password
                              /\ users'[v].banned = users[v].banned
                              /\ v # u => users'[v] = users[v]
        /\ NoFault /\ users[u].status = "live" => users'[u].verified
    <2>1. users \in [UserIds -> UserRow] /\ users[u] \in UserRow
      BY <1>3 DEF IInv, TypeOK, StoreTypeOK
    <2> DEFINE row == [users[u] EXCEPT !.verified = LiveUser(u)]
    <2>2. LiveUser(u) \in BOOLEAN
      BY DEF LiveUser
    <2>3. /\ row \in UserRow /\ row.status = users[u].status /\ row.email = users[u].email
          /\ row.password = users[u].password /\ row.banned = users[u].banned
          /\ row.verified = LiveUser(u)
      BY <2>1, <2>2, ZenonT(60) DEF UserRow
    <2> HIDE DEF row
    <2>4. CASE users' = [users EXCEPT ![u] = row]
      BY <1>3, <2>1, <2>3, <2>4 DEF LiveUser
    <2>5. CASE UNCHANGED users /\ Fault
      BY <2>1, <2>5 DEF NoFault, Fault, IInv, TypeOK
    <2>6. QED
      BY <1>1, <2>4, <2>5 DEF row
  <1>7. Forward
    BY <1>1, <1>6 DEF Forward, BarredUser
  <1>8. StoreTypeOK'
    BY <1>1, <1>6 DEF IInv, TypeOK, StoreTypeOK
  <1>9. Owned(f)' /\ users'[k.user].status # "free"
    BY <1>1, <1>3, <1>4, <1>5, <1>6 DEF Owned
  <1>10. \A v \in k.barred : BarredUser(v)'
    <2>1. k.barred \subseteq UserIds /\ \A v \in k.barred : BarredUser(v)
      BY <1>3, <1>4 DEF Flow, IInv, FlowInv
    <2>2. QED
      BY <1>7, <2>1 DEF Forward
  <1>11. FlowInv(f)'
    BY <1>1, <1>2, <1>4, <1>5, <1>9, <1>10
       DEF IInv, FlowInv, At, Among, Consumed, Asking, Profiled
  <1>12. CreatedAccountsVerified'
    <2>1. SUFFICES ASSUME faults' = 0, NEW v \in UserIds, LiveUser(v)',
                          users'[v].password = NoPassword
                   PROVE  \/ users'[v].verified
                          \/ \E g \in Flows : At(g, "VerifyUserEmail")' /\ flow'[g].user = v
      BY DEF CreatedAccountsVerified
    <2>2. faults = 0 /\ NoFault
      BY <1>1, <2>1 DEF IInv, TypeOK, NoFault, Fault
    <2>3. CASE v = u
      BY <1>6, <2>1, <2>2, <2>3 DEF LiveUser
    <2>4. CASE v # u
      BY <1>5, <1>6, <2>1, <2>2, <2>4 DEF IInv, CreatedAccountsVerified, LiveUser, At
    <2>5. QED
      BY <2>3, <2>4
  <1>13. k.closed => ~Open(k.provider)
    BY <1>4 DEF IInv, ClosedKnown
  <1>14. QED
    BY <1>1, <1>2, <1>4, <1>6, <1>7, <1>8, <1>11, <1>12, <1>13, UsersKeep

\* The session is the first and the last of its state.
LEMMA CreateSessionKeeps == ASSUME IInv, NEW f \in Flows, CreateSession(f) PROVE IInv'
  <1> DEFINE x == flow[f].state
  <1>1. /\ At(f, "CreateSession") /\ UNCHANGED identities /\ UNCHANGED configVars
        /\ NoFault \/ Fault
    BY DEF CreateSession, Acknowledged
  <1>2. /\ ~At(f, "VerifyUserEmail") /\ flow[f].pc \in Consumed /\ flow[f].pc \in Asking
        /\ flow[f].pc \in Profiled /\ flow[f].pc \in Chosen /\ ~At(f, "idle")
        /\ ~At(f, "replied")
    BY <1>1 DEF At, Consumed, Asking, Profiled, Chosen
  <1>3. /\ flow[f] \in Flow /\ x \in StateIds /\ states[x].status = "gone"
        /\ states[x].opened = {}
    BY <1>2 DEF IInv, TypeOK, FlowInv, Among, OneTrip
  <1>4. CASE Reply(f, "internal") /\ UNCHANGED <<users, sessions, states>>
    <2>1. OnlyFlow
      BY <1>1, <1>4 DEF OnlyFlow, tableVars
    <2>2. QED
      BY <1>1, <1>2, <1>4, <2>1, QuietReplyKeeps
  <1>5. ASSUME NEW s \in SessionIds, InsertSession(s, flow[f].user, NoSession),
               states' = [states EXCEPT ![x].opened = @ \cup {s}],
               \/ Set(f, [flow[f] EXCEPT !.pc = "replied", !.reply = "pair", !.grant = s])
               \/ Reply(f, "internal")
        PROVE  IInv'
    <2>1. StoreTypeOK' /\ UNCHANGED users
      BY <1>5, InsertSessionForward DEF IInv, TypeOK
    <2>2. /\ states' \in [StateIds -> StateRow]
          /\ states'[x].status = "gone" /\ states'[x].provider = states[x].provider
          /\ states'[x].held = states[x].held /\ states'[x].opened = {s}
          /\ \A y \in StateIds : y # x => states'[y] = states[y]
      <3>1. states \in [StateIds -> StateRow] /\ states[x] \in StateRow
        BY <1>3 DEF IInv, TypeOK
      <3> DEFINE row == [states[x] EXCEPT !.opened = {s}]
      <3>2. /\ row \in StateRow /\ row.status = states[x].status
            /\ row.provider = states[x].provider /\ row.held = states[x].held
            /\ row.opened = {s}
        <4>1. {s} \in SUBSET SessionIds
          OBVIOUS
        <4>2. QED
          BY <3>1, <4>1, ZenonT(60) DEF StateRow
      <3>3. states' = [states EXCEPT ![x] = row]
        BY <1>3, <1>5
      <3> HIDE DEF row
      <3>4. QED
        BY <1>3, <3>1, <3>2, <3>3
    <2>3. Forward
      BY <1>1, <1>3, <2>1, <2>2 DEF Forward, BarredUser
    <2>4. StatesKnown' /\ IdentitiesHaveAccounts' /\ identities' \subseteq IdentityRow
      BY <1>1, <1>3, <2>1, <2>2 DEF IInv, TypeOK, StatesKnown, IdentitiesHaveAccounts, LiveUser
    <2>5. ASSUME NEW k \in Flow, Set(f, k), FlowInv(f)', k.pc \notin Consumed,
                 k.closed => ~Open(k.provider)
          PROVE  IInv'
      <3>1. OneTrip'
        <4>1. /\ flow'[f] = k
              /\ \A g \in Flows : g # f => flow'[g] = flow[g]
          BY <2>5 DEF IInv, TypeOK, Set
        <4>2. \A g \in Flows : g # f /\ flow[g].pc \in Consumed =>
                flow[g].state # x /\ flow[g].state \in StateIds
          BY <1>2 DEF IInv, OneTrip, FlowInv, Among
        <4>3. \A y \in StateIds : /\ states'[y].opened # {} => states'[y].status = "gone"
                                  /\ \A a, b \in states'[y].opened : a = b
          BY <2>2 DEF IInv, OneTrip
        <4>4. \A g \in Flows : flow'[g].pc \in Consumed =>
                /\ g # f /\ flow[g].pc \in Consumed /\ flow'[g].state = flow[g].state
                /\ states'[flow[g].state].opened = states[flow[g].state].opened
          BY <2>2, <2>5, <4>1, <4>2
        <4>5. QED
          BY <4>3, <4>4 DEF IInv, OneTrip
      <3>2. CreatedAccountsVerified'
        BY <1>1, <1>2, <2>1, <2>5, SameVerified
      <3>3. QED
        BY <1>1, <2>1, <2>2, <2>3, <2>4, <2>5, <3>1, <3>2, Assemble
    <2>6. CASE Set(f, [flow[f] EXCEPT !.pc = "replied", !.reply = "pair", !.grant = s])
      <3> DEFINE k == [flow[f] EXCEPT !.pc = "replied", !.reply = "pair", !.grant = s]
      <3>1. /\ k \in Flow /\ k.pc = "replied" /\ k.reply = "pair"
            /\ k.provider = flow[f].provider /\ k.state = flow[f].state
            /\ k.account = flow[f].account /\ k.email = flow[f].email
            /\ k.user = flow[f].user /\ k.stale = flow[f].stale
            /\ k.closed = flow[f].closed /\ k.barred = flow[f].barred
        BY <1>3 DEF Flow
      <3> HIDE DEF k
      <3>2. Set(f, k)
        BY <2>6 DEF k
      <3>3. flow'[f] = k
        BY <3>2 DEF IInv, TypeOK, Set
      <3>4. Owned(f)'
        BY <1>1, <1>2, <2>1, <3>1, <3>3 DEF IInv, FlowInv, Among, Owned
      <3>5. \A v \in k.barred : BarredUser(v)'
        BY <2>1, <3>1 DEF IInv, FlowInv, BarredUser
      <3>6. FlowInv(f)'
        BY <1>1, <1>2, <1>3, <2>1, <2>2, <3>1, <3>3, <3>4, <3>5 DEF IInv, FlowInv, At, Among
      <3>7. k.closed => ~Open(k.provider)
        BY <3>1 DEF IInv, ClosedKnown
      <3>8. k.pc \notin Consumed
        BY <3>1 DEF Consumed
      <3>9. QED
        BY <2>5, <3>1, <3>2, <3>6, <3>7, <3>8
    <2>7. CASE Reply(f, "internal")
      <3>1. Set(f, Idle) /\ flow'[f] = Idle
        BY <2>7 DEF Reply, Set, IInv, TypeOK
      <3>2. FlowInv(f)' /\ Idle \in Flow /\ ~Idle.closed /\ Idle.pc \notin Consumed
        BY <3>1, IdleKeeps DEF Consumed
      <3>3. QED
        BY <2>5, <3>1, <3>2
    <2>8. QED
      BY <1>5, <2>6, <2>7
  <1>6. QED
    BY <1>4, <1>5 DEF CreateSession, Acknowledged

\* The browser leaves with a state that is stored, or with its tokens.
LEMMA DeliverKeeps == ASSUME IInv, NEW f \in Flows, Deliver(f) PROVE IInv'
  <1> DEFINE x == flow[f].state
  <1>1. /\ At(f, "replied") /\ Set(f, Idle) /\ NoFault
        /\ UNCHANGED <<users, sessions, identities>> /\ UNCHANGED configVars
        /\ states' = IF flow[f].reply = "authorize"
                     THEN [states EXCEPT ![x].held = TRUE] ELSE states
    BY DEF Deliver, NoFault
  <1>2. flow'[f] = Idle
    BY <1>1 DEF Set, IInv, TypeOK
  <1>3. FlowInv(f)' /\ Idle \in Flow /\ ~Idle.closed /\ Idle.pc \notin Consumed
    BY <1>2, IdleKeeps DEF Consumed
  <1>4. /\ states' \in [StateIds -> StateRow]
        /\ \A y \in StateIds : /\ states'[y].status = states[y].status
                               /\ states'[y].provider = states[y].provider
                               /\ states'[y].opened = states[y].opened
                               /\ states'[y].held => states[y].held
                                                       \/ states[y].status # "free"
    <2>1. CASE flow[f].reply = "authorize"
      <3>1. x \in StateIds /\ states[x].status # "free"
        BY <2>1 DEF IInv, FlowInv
      <3>2. states \in [StateIds -> StateRow] /\ states[x] \in StateRow
        BY <3>1 DEF IInv, TypeOK
      <3> DEFINE row == [states[x] EXCEPT !.held = TRUE]
      <3>3. /\ row \in StateRow /\ row.status = states[x].status
            /\ row.provider = states[x].provider /\ row.opened = states[x].opened
        BY <3>2, ZenonT(60) DEF StateRow
      <3>4. states' = [states EXCEPT ![x] = row]
        BY <1>1, <2>1
      <3> HIDE DEF row
      <3>5. QED
        BY <3>1, <3>2, <3>3, <3>4
    <2>2. CASE flow[f].reply # "authorize"
      BY <1>1, <2>2 DEF IInv, TypeOK
    <2>3. QED
      BY <2>1, <2>2
  <1>5. Forward
    BY <1>1, <1>4 DEF Forward, BarredUser
  <1>6. StatesKnown' /\ IdentitiesHaveAccounts' /\ StoreTypeOK' /\ identities' \subseteq IdentityRow
    BY <1>1, <1>4 DEF IInv, TypeOK, StatesKnown, IdentitiesHaveAccounts, LiveUser, StoreTypeOK
  <1>7. OneTrip'
    BY <1>1, <1>3, <1>4, SameTrips
  <1>8. CreatedAccountsVerified'
    BY <1>1, <1>3, SameVerified DEF At
  <1>9. QED
    BY <1>1, <1>3, <1>4, <1>5, <1>6, <1>7, <1>8, Assemble

-----------------------------------------------------------------------------
(* What happens around the flows.                                           *)

\* The tables move forward while every flow stands where it stood.
LEMMA WorldKeeps ==
    ASSUME IInv, Forward, UNCHANGED <<flow, providers, key, faults>>,
           StoreTypeOK', states' \in [StateIds -> StateRow], identities' \subseteq IdentityRow,
           address' \in [Accounts -> Emails \cup {NoEmail}], changes' \in 0..MaxFaults,
           \A x \in StateIds : /\ states'[x].opened = states[x].opened
                               /\ states'[x].held = states[x].held,
           StatesKnown', IdentitiesHaveAccounts', CreatedAccountsVerified'
    PROVE  IInv'
  <1>1. TypeOK'
    BY DEF IInv, TypeOK
  <1>2. \A f \in Flows : FlowInv(f)'
    BY OthersKeep DEF IInv
  <1>3. OneTrip'
    <2>1. \A f \in Flows : flow[f].pc \in Consumed => flow[f].state \in StateIds
      BY DEF IInv, FlowInv, Among
    <2>2. \A f \in Flows : flow[f].pc \in Consumed =>
            states'[flow[f].state].opened = states[flow[f].state].opened
      BY <2>1
    <2>3. \A x \in StateIds : /\ states'[x].opened # {} => states'[x].status = "gone"
                              /\ \A s, t \in states'[x].opened : s = t
      BY DEF IInv, OneTrip, Forward
    <2>4. QED
      BY <2>2, <2>3 DEF IInv, OneTrip
  <1>4. ClosedKnown'
    BY DEF IInv, ClosedKnown, Open
  <1>5. QED
    BY <1>1, <1>2, <1>3, <1>4 DEF IInv

\* A sign-up has a password; nobody waits to verify it.
LEMMA SignUpKeeps == ASSUME IInv, NEW u \in UserIds, SignUp(u) PROVE IInv'
  <1>1. PICK e \in Emails, p \in Passwords : InsertUser(u, e, p)
    BY DEF SignUp
  <1>2. UNCHANGED <<states, identities, flow, faults, providers, key, address, changes>>
    BY DEF SignUp, configVars
  <1>3. /\ StoreTypeOK' /\ UNCHANGED sessions
        /\ users'[u].status = "live" /\ users[u].status = "free"
        /\ \A v \in UserIds : v # u => users'[v] = users[v]
    BY <1>1, InsertUserForward DEF IInv, TypeOK
  <1>4. users'[u].password = p
    BY <1>1 DEF InsertUser, FreeUser, IInv, TypeOK, StoreTypeOK
  <1>5. Forward
    BY <1>2, <1>3 DEF Forward, BarredUser
  <1>6. IdentitiesHaveAccounts' /\ StatesKnown'
    BY <1>2, <1>3 DEF IInv, IdentitiesHaveAccounts, StatesKnown, LiveUser
  <1>7. CreatedAccountsVerified'
    BY <1>2, <1>3, <1>4, StoreAssumption DEF IInv, CreatedAccountsVerified, LiveUser, At
  <1>8. QED
    BY <1>2, <1>3, <1>5, <1>6, <1>7, WorldKeeps DEF IInv, TypeOK

\* An account takes its identities with it.
LEMMA DeleteUserKeeps == ASSUME IInv, NEW u \in UserIds, DeleteUser(u) PROVE IInv'
  <1>1. /\ LiveUser(u) /\ DeleteUserRow(u) /\ identities' = {i \in identities : i.user # u}
        /\ UNCHANGED <<states, flow, faults, providers, key, address, changes>>
    BY DEF DeleteUser, configVars
  <1>2. /\ StoreTypeOK'
        /\ \A v \in UserIds :
             \/ users'[v] = users[v] /\ (v = u => ~LiveUser(v))
             \/ v = u /\ users[v].status = "live" /\ users'[v].status = "deleted"
    BY <1>1, DeleteUserForward DEF IInv, TypeOK
  <1>3. users'[u].status = "deleted" /\ \A v \in UserIds : v # u => users'[v] = users[v]
    BY <1>1, <1>2
  <1>4. identities' \subseteq identities /\ \A i \in identities : i.user \in UserIds
    BY <1>1 DEF IInv, TypeOK, IdentityRow
  <1>5. Forward
    BY <1>1, <1>3, <1>4 DEF Forward, BarredUser
  <1>6. IdentitiesHaveAccounts' /\ StatesKnown'
    BY <1>1, <1>3, <1>4 DEF IInv, IdentitiesHaveAccounts, StatesKnown, LiveUser
  <1>7. CreatedAccountsVerified'
    BY <1>1, <1>3 DEF IInv, CreatedAccountsVerified, LiveUser, At
  <1>8. QED
    BY <1>1, <1>2, <1>4, <1>5, <1>6, <1>7, WorldKeeps DEF IInv, TypeOK

\* A ban changes neither the address nor the password of a user.
LEMMA BanKeeps == ASSUME IInv, NEW u \in UserIds, Ban(u) PROVE IInv'
  <1>1. /\ BanUserRow(u)
        /\ UNCHANGED <<states, identities, flow, faults, providers, key, address, changes>>
    BY DEF Ban, configVars
  <1>2. /\ StoreTypeOK' /\ UNCHANGED sessions
        /\ \A v \in UserIds : /\ users'[v].status = users[v].status
                              /\ users[v].banned => users'[v].banned
    BY <1>1, BanForward DEF IInv, TypeOK
  <1>3. \A v \in UserIds : /\ users'[v].email = users[v].email
                           /\ users'[v].password = users[v].password
                           /\ users'[v].verified = users[v].verified
    <2>1. users \in [UserIds -> UserRow]
      BY DEF IInv, TypeOK, StoreTypeOK
    <2>2. users' = [users EXCEPT ![u].banned = TRUE]
      BY <1>1 DEF BanUserRow
    <2>3. QED
      BY <2>1, <2>2, ZenonT(60) DEF UserRow
  <1>4. Forward
    BY <1>1, <1>2, <1>3 DEF Forward, BarredUser
  <1>5. IdentitiesHaveAccounts' /\ StatesKnown'
    BY <1>1, <1>2 DEF IInv, IdentitiesHaveAccounts, StatesKnown, LiveUser
  <1>6. CreatedAccountsVerified'
    BY <1>1, <1>2, <1>3 DEF IInv, CreatedAccountsVerified, LiveUser, At
  <1>7. QED
    BY <1>1, <1>2, <1>4, <1>5, <1>6, WorldKeeps DEF IInv, TypeOK

\* A state that expires was not taken yet, or it is not there to expire.
LEMMA StateExpiresKeeps == ASSUME IInv, NEW x \in StateIds, StateExpires(x) PROVE IInv'
  <1>1. /\ states[x].status = "live" /\ states' = [states EXCEPT ![x].status = "gone"]
        /\ UNCHANGED <<users, sessions, identities, flow, faults, providers, key, address,
                       changes>>
    BY DEF StateExpires, configVars
  <1>2. /\ states' \in [StateIds -> StateRow]
        /\ states'[x].status = "gone" /\ states'[x].provider = states[x].provider
        /\ states'[x].held = states[x].held /\ states'[x].opened = states[x].opened
        /\ \A y \in StateIds : y # x => states'[y] = states[y]
    <2>1. states \in [StateIds -> StateRow] /\ states[x] \in StateRow
      BY DEF IInv, TypeOK
    <2> DEFINE row == [states[x] EXCEPT !.status = "gone"]
    <2>2. /\ row \in StateRow /\ row.status = "gone" /\ row.provider = states[x].provider
          /\ row.held = states[x].held /\ row.opened = states[x].opened
      BY <2>1, ZenonT(60) DEF StateRow
    <2>3. states' = [states EXCEPT ![x] = row]
      BY <1>1
    <2> HIDE DEF row
    <2>4. QED
      BY <2>1, <2>2, <2>3
  <1>3. Forward
    BY <1>1, <1>2 DEF Forward, BarredUser
  <1>4. IdentitiesHaveAccounts' /\ StatesKnown' /\ CreatedAccountsVerified' /\ StoreTypeOK'
    BY <1>1, <1>2 DEF IInv, IdentitiesHaveAccounts, StatesKnown, LiveUser,
                      CreatedAccountsVerified, At, TypeOK, StoreTypeOK
  <1>5. QED
    BY <1>1, <1>2, <1>3, <1>4, WorldKeeps DEF IInv, TypeOK

\* Somebody changes the address of their account at a provider.
LEMMA ChangeAddressKeeps == ASSUME IInv, ChangeAddress PROVE IInv'
  <1>1. /\ UNCHANGED <<users, sessions, states, identities, flow, faults, providers, key>>
        /\ \E a \in Accounts, e \in (Emails \ {NilEmail}) \cup {NoEmail} :
             address' = [address EXCEPT ![a] = e]
        /\ faults + changes < MaxFaults /\ changes' = changes + 1
    BY DEF ChangeAddress, Change, tableVars
  <1>2. address' \in [Accounts -> Emails \cup {NoEmail}] /\ changes' \in 0..MaxFaults
    BY <1>1, OAuthAssumption DEF IInv, TypeOK
  <1>3. Forward
    BY <1>1, NothingMoves
  <1>4. IdentitiesHaveAccounts' /\ StatesKnown' /\ CreatedAccountsVerified' /\ StoreTypeOK'
    BY <1>1 DEF IInv, IdentitiesHaveAccounts, StatesKnown, LiveUser, CreatedAccountsVerified,
                At, TypeOK, StoreTypeOK
  <1>5. QED
    BY <1>1, <1>2, <1>3, <1>4, WorldKeeps DEF IInv, TypeOK

\* An operator changes the configuration: at most the memory of a closed
\* provider is lost, and none is kept of one that is open.
LEMMA AdministerKeeps == ASSUME IInv, Administer PROVE IInv'
  <1>1. /\ UNCHANGED <<users, sessions, states, identities, faults, key, address>>
        /\ faults + changes < MaxFaults /\ changes' = changes + 1
    BY DEF Administer, Change, tableVars
  <1>2. PICK p \in ProviderNames : CreateProvider(p) \/ UpdateProvider(p) \/ DeleteProvider(p)
    BY DEF Administer
  <1>3. providers \in [ProviderNames -> ProviderRow] /\ key \in Keys
    BY DEF IInv, TypeOK
  <1>4. /\ providers' \in [ProviderNames -> ProviderRow]
        /\ \A q \in ProviderNames : q # p => providers'[q] = providers[q]
        /\ \/ Reopened(p)
           \/ UNCHANGED flow /\ ~providers'[p].enabled
    <2>1. CASE CreateProvider(p)
      BY <1>3, <2>1 DEF CreateProvider, ProviderRow, Encrypt
    <2>2. CASE UpdateProvider(p)
      <3>1. PICK on \in BOOLEAN, secret \in Keys :
              /\ providers' = [providers EXCEPT ![p].enabled = on, ![p].sealed = secret]
              /\ IF on THEN Reopened(p) ELSE UNCHANGED flow
        BY <1>3, <2>2 DEF UpdateProvider, Encrypt, ProviderRow
      <3> DEFINE row == [providers[p] EXCEPT !.enabled = on, !.sealed = secret]
      <3>2. row \in ProviderRow /\ row.enabled = on
        BY <1>3, ZenonT(60) DEF ProviderRow
      <3>3. providers' = [providers EXCEPT ![p] = row]
        BY <1>3, <3>1
      <3> HIDE DEF row
      <3>4. QED
        BY <1>3, <3>1, <3>2, <3>3
    <2>3. CASE DeleteProvider(p)
      BY <1>3, <2>3 DEF DeleteProvider, ProviderRow
    <2>4. QED
      BY <1>2, <2>1, <2>2, <2>3
  <1>5. ASSUME NEW f \in Flows
        PROVE  /\ flow'[f] \in Flow
               /\ flow'[f].pc = flow[f].pc /\ flow'[f].provider = flow[f].provider
               /\ flow'[f].state = flow[f].state /\ flow'[f].account = flow[f].account
               /\ flow'[f].email = flow[f].email /\ flow'[f].user = flow[f].user
               /\ flow'[f].banned = flow[f].banned /\ flow'[f].reply = flow[f].reply
               /\ flow'[f].stale = flow[f].stale /\ flow'[f].barred = flow[f].barred
               /\ flow'[f].closed => flow[f].closed
               /\ flow'[f].closed => flow[f].provider # p \/ ~providers'[p].enabled
               /\ flow[f].pc = "idle" => flow'[f] = Idle
    <2>1. flow[f] \in Flow
      BY DEF IInv, TypeOK
    <2>2. CASE flow'[f] = flow[f] /\ (flow[f].provider # p \/ ~providers'[p].enabled)
      BY <2>1, <2>2 DEF IInv, FlowInv, At
    <2>3. CASE flow[f].provider = p /\ flow'[f] = [flow[f] EXCEPT !.closed = FALSE]
      <3> DEFINE k == [flow[f] EXCEPT !.closed = FALSE]
      <3>1. /\ k \in Flow
            /\ k.pc = flow[f].pc /\ k.provider = flow[f].provider
            /\ k.state = flow[f].state /\ k.account = flow[f].account
            /\ k.email = flow[f].email /\ k.user = flow[f].user
            /\ k.banned = flow[f].banned /\ k.reply = flow[f].reply
            /\ k.stale = flow[f].stale /\ k.barred = flow[f].barred
            /\ ~k.closed
        BY <2>1, ZenonT(60) DEF Flow
      <3> HIDE DEF k
      <3>2. flow[f].pc # "idle"
        BY <2>3, IdleFields, OAuthAssumption DEF IInv, FlowInv, At
      <3>3. flow'[f] = k
        BY <2>3 DEF k
      <3>4. QED
        BY <3>1, <3>2, <3>3
    <2>4. QED
      BY <1>4, <2>2, <2>3 DEF Reopened
  <1>6. flow' \in [Flows -> Flow]
    <2>1. flow' = [f \in Flows |-> flow'[f]]
      BY <1>4 DEF Reopened, IInv, TypeOK
    <2>2. QED
      BY <1>5, <2>1
  <1>7. TypeOK'
    <2>1. changes' \in 0..MaxFaults
      BY <1>1, OAuthAssumption DEF IInv, TypeOK
    <2>2. QED
      BY <1>1, <1>4, <1>6, <2>1 DEF IInv, TypeOK, StoreTypeOK
  <1>8. ASSUME NEW f \in Flows PROVE FlowInv(f)'
    <2>1. flow'[f].pc = "idle" => flow'[f] = Idle
      BY <1>5
    <2>2. Owned(f)' <=> Owned(f)
      BY <1>1, <1>5 DEF Owned
    <2>3. FlowInv(f)
      BY DEF IInv
    <2>4. QED
      BY <1>1, <1>5, <2>1, <2>2, <2>3 DEF FlowInv, At, Among, BarredUser
  <1>9. ClosedKnown'
    <2>1. ASSUME NEW f \in Flows, flow'[f].closed PROVE ~Open(flow[f].provider)'
      <3>1. flow[f].closed /\ flow[f].provider \in ProviderNames
        BY <1>5, <2>1, IdleFields DEF IInv, FlowInv, At
      <3>2. CASE flow[f].provider = p
        BY <1>5, <2>1, <3>2 DEF Open
      <3>3. CASE flow[f].provider # p
        BY <1>4, <1>5, <3>1, <3>3 DEF IInv, ClosedKnown, Open
      <3>4. QED
        BY <3>2, <3>3
    <2>2. QED
      BY <1>5, <2>1 DEF ClosedKnown, Open
  <1>10. OneTrip'
    BY <1>1, <1>5 DEF IInv, OneTrip
  <1>11. StatesKnown' /\ IdentitiesHaveAccounts'
    BY <1>1 DEF IInv, StatesKnown, IdentitiesHaveAccounts, LiveUser
  <1>12. CreatedAccountsVerified'
    BY <1>1, <1>5 DEF IInv, CreatedAccountsVerified, LiveUser, At
  <1>13. QED
    BY <1>7, <1>8, <1>9, <1>10, <1>11, <1>12 DEF IInv

\* The process dies: the flows are gone, what they stored stays.
LEMMA RestartKeeps == ASSUME IInv, Restart PROVE IInv'
  <1>1. /\ UNCHANGED <<users, sessions, states, identities, providers, address, changes>>
        /\ flow' = [f \in Flows |-> Idle] /\ key' \in Keys
        /\ faults + changes < MaxFaults /\ faults' = faults + 1
    BY DEF Restart, Fault, tableVars
  <1>2. \A f \in Flows : flow'[f] = Idle
    BY <1>1
  <1>3. faults' \in 0..MaxFaults /\ faults' # 0
    BY <1>1, OAuthAssumption DEF IInv, TypeOK
  <1>4. TypeOK'
    BY <1>1, <1>3, IdleFields DEF IInv, TypeOK, StoreTypeOK
  <1>5. \A f \in Flows : FlowInv(f)'
    BY <1>2, IdleKeeps
  <1>6. Idle.pc \notin Consumed /\ ~Idle.closed
    BY IdleFields DEF Consumed
  <1>7. OneTrip' /\ ClosedKnown'
    BY <1>1, <1>2, <1>6 DEF IInv, OneTrip, ClosedKnown
  <1>8. StatesKnown' /\ IdentitiesHaveAccounts' /\ CreatedAccountsVerified'
    BY <1>1, <1>3 DEF IInv, StatesKnown, IdentitiesHaveAccounts, LiveUser,
                      CreatedAccountsVerified
  <1>9. QED
    BY <1>4, <1>5, <1>7, <1>8 DEF IInv

\* The invariant is about the variables alone.
LEMMA StutterKeeps == ASSUME IInv, UNCHANGED vars PROVE IInv'
  <1>1. UNCHANGED <<users, sessions, states, identities, flow, faults, providers, key, address,
                    changes>>
    BY DEF vars
  <1>2. Forward
    BY <1>1, NothingMoves
  <1>3. IdentitiesHaveAccounts' /\ StatesKnown' /\ CreatedAccountsVerified' /\ StoreTypeOK'
    BY <1>1 DEF IInv, IdentitiesHaveAccounts, StatesKnown, LiveUser, CreatedAccountsVerified,
                At, TypeOK, StoreTypeOK
  <1>4. QED
    BY <1>1, <1>2, <1>3, WorldKeeps DEF IInv, TypeOK

\* The service starts over empty tables and one provider that is configured.
LEMMA InitHolds == ASSUME Init PROVE IInv
  <1>1. \A f \in Flows : flow[f] = Idle
    BY DEF Init
  <1>2. TypeOK
    <2>1. StoreTypeOK
      BY DEF Init, StoreInit, StoreTypeOK, FreeUser, FreeSession, UserRow, SessionRow
    <2>2. FreeState \in StateRow
      BY DEF FreeState, StateRow
    <2>3. providers \in [ProviderNames -> ProviderRow]
      BY DEF Init, ProviderRow
    <2>4. QED
      BY <2>1, <2>2, <2>3, IdleFields, OAuthAssumption DEF Init, TypeOK
  <1>3. \A f \in Flows : FlowInv(f)
    BY <1>1, IdleFields DEF FlowInv, At, Among, Consumed, Asking, Profiled, Chosen
  <1>4. \A x \in StateIds : states[x] = FreeState
    BY DEF Init
  <1>5. StatesKnown /\ OneTrip /\ ClosedKnown
    BY <1>1, <1>4 DEF StatesKnown, OneTrip, ClosedKnown, FreeState, Idle, Consumed
  <1>6. IdentitiesHaveAccounts /\ CreatedAccountsVerified
    BY DEF Init, StoreInit, IdentitiesHaveAccounts, CreatedAccountsVerified, LiveUser, FreeUser
  <1>7. QED
    BY <1>2, <1>3, <1>5, <1>6 DEF IInv

-----------------------------------------------------------------------------
(* The theorems.                                                            *)

\* The invariant holds in every reachable state, whatever flows, people and
\* operators do in between.
THEOREM Invariance == Spec => []IInv
  <1>1. Init => IInv
    BY InitHolds
  <1>2. IInv /\ [Next]_vars => IInv'
    <2> SUFFICES ASSUME IInv, [Next]_vars PROVE IInv'
      OBVIOUS
    <2>1. ASSUME NEW f \in Flows, Authorize(f) PROVE IInv'
      BY <2>1, OAuthAuthorizeKeeps, GetProviderKeeps, CreateOAuthStateKeeps DEF Authorize
    <2>2. ASSUME NEW f \in Flows, Callback(f) PROVE IInv'
      BY <2>2, OAuthCallbackKeeps, ConsumeStateKeeps, GetProviderConfigKeeps,
         GetUserProfileKeeps DEF Callback
    <2>3. ASSUME NEW f \in Flows, FindOrCreateOAuthUser(f) PROVE IInv'
      BY <2>3, GetIdentityKeeps, GetUserByEmailKeeps, LinkIdentityKeeps, CreateUserKeeps,
         RetryByEmailKeeps, VerifyUserEmailKeeps, CreateIdentityKeeps, GetUserByIDKeeps
         DEF FindOrCreateOAuthUser
    <2>4. ASSUME NEW f \in Flows, CreateSession(f) \/ StatementFails(f) \/ Deliver(f) PROVE IInv'
      BY <2>4, CreateSessionKeeps, StatementFailsKeeps, DeliverKeeps
    <2>5. ASSUME NEW u \in UserIds, SignUp(u) \/ DeleteUser(u) \/ Ban(u) PROVE IInv'
      BY <2>5, SignUpKeeps, DeleteUserKeeps, BanKeeps
    <2>6. CASE Exhausted \/ UNCHANGED vars
      BY <2>6, StutterKeeps DEF Exhausted
    <2>7. QED
      BY <2>1, <2>2, <2>3, <2>4, <2>5, <2>6, StateExpiresKeeps, AdministerKeeps,
         ChangeAddressKeeps, RestartKeeps DEF Next
  <1>3. QED
    BY <1>1, <1>2, PTL DEF Spec

-----------------------------------------------------------------------------
(* Whose the addresses are: a second invariant, which rests on the first.   *)

\* The user was found by the address that was reported.
ByAddress == {"LinkIdentity", "VerifyUserEmail", "CreateIdentity"}

\* The address that was reported is the person's, or the printed one.
OwnFlow(f) ==
    /\ Among(f, Profiled) => flow[f].email \in {flow[f].own, NilEmail}
    /\ flow[f].pc \in ByAddress /\ users[flow[f].user].status = "live" =>
         users[flow[f].user].email = flow[f].email

\* So is the address of the user an identity names.
OwnIdentity(i) == users[i.user].status = "live" => users[i.user].email \in {i.own, NilEmail}

OwnInv ==
    /\ \A f \in Flows : OwnFlow(f)
    /\ \A i \in identities : OwnIdentity(i)

\* A user keeps its address and does not come back.
UsersForward ==
    \A u \in UserIds :
        users[u].status # "free" /\ users'[u].status = "live" =>
            users[u].status = "live" /\ users'[u].email = users[u].email

LEMMA UsersMoveForward == ASSUME IInv, [Next]_vars PROVE UsersForward
  <1>1. CASE UNCHANGED users
    BY <1>1 DEF UsersForward
  <1>2. ASSUME NEW u \in UserIds, NEW e \in Emails \cup {NoEmail},
               NEW p \in Passwords \cup {NoPassword}, InsertUser(u, e, p)
        PROVE  UsersForward
    <2>1. users[u].status = "free" /\ \A v \in UserIds : v # u => users'[v] = users[v]
      BY <1>2, InsertUserForward DEF IInv, TypeOK
    <2> QED
      BY <2>1 DEF UsersForward
  <1>3. ASSUME NEW f \in Flows, CreateUser(f) PROVE UsersForward
    <2>1. flow[f].email \in Emails \cup {NoEmail} /\ NoPassword \in Passwords \cup {NoPassword}
      BY DEF IInv, TypeOK, Flow
    <2> QED
      BY <1>1, <1>2, <1>3, <2>1 DEF CreateUser
  <1>4. ASSUME NEW f \in Flows, VerifyUserEmail(f) PROVE UsersForward
    <2>1. CASE UNCHANGED users
      BY <1>1, <2>1
    <2>2. CASE users' = [users EXCEPT ![flow[f].user].verified = LiveUser(flow[f].user)]
      <3>1. flow[f].user \in UserIds /\ users \in [UserIds -> UserRow]
        BY <1>4 DEF VerifyUserEmail, IInv, FlowInv, Among, Chosen, At, TypeOK, StoreTypeOK
      <3>2. \A v \in UserIds : /\ users'[v].status = users[v].status
                               /\ users'[v].email = users[v].email
        BY <2>2, <3>1, ZenonT(60) DEF UserRow
      <3> QED
        BY <3>2 DEF UsersForward
    <2> QED
      BY <1>4, <2>1, <2>2 DEF VerifyUserEmail
  <1>5. ASSUME NEW f \in Flows, CreateSession(f) PROVE UsersForward
    BY <1>1, <1>5, InsertSessionForward DEF CreateSession, IInv, TypeOK
  <1>6. ASSUME NEW u \in UserIds, SignUp(u) PROVE UsersForward
    BY <1>2, <1>6 DEF SignUp
  <1>7. ASSUME NEW u \in UserIds, DeleteUser(u) PROVE UsersForward
    <2>1. \A v \in UserIds :
             \/ users'[v] = users[v]
             \/ users'[v].status = "deleted"
      BY <1>7, DeleteUserForward DEF DeleteUser, IInv, TypeOK
    <2> QED
      BY <2>1 DEF UsersForward
  <1>8. ASSUME NEW u \in UserIds, Ban(u) PROVE UsersForward
    <2>1. users \in [UserIds -> UserRow] /\ users' = [users EXCEPT ![u].banned = TRUE]
      BY <1>8 DEF Ban, BanUserRow, IInv, TypeOK, StoreTypeOK
    <2>2. \A v \in UserIds : /\ users'[v].status = users[v].status
                             /\ users'[v].email = users[v].email
      BY <2>1, ZenonT(60) DEF UserRow
    <2> QED
      BY <2>2 DEF UsersForward
  <1>9. ASSUME NEW f \in Flows,
               \/ Authorize(f) \/ Callback(f) \/ StatementFails(f) \/ Deliver(f)
               \/ GetIdentity(f) \/ GetUserByEmail(f) \/ LinkIdentity(f) \/ RetryByEmail(f)
               \/ CreateIdentity(f) \/ GetUserByID(f)
        PROVE  UNCHANGED users
    <2>1. CASE Authorize(f)
      BY <2>1 DEF Authorize, OAuthAuthorize, GetProvider, CreateOAuthState, OnlyFlow, tableVars
    <2>2. CASE Callback(f)
      BY <2>2 DEF Callback, OAuthCallback, GetAndConsumeOAuthState, GetProviderConfig,
                  GetUserProfile, OnlyFlow, tableVars
    <2>3. CASE StatementFails(f) \/ Deliver(f)
      BY <2>3 DEF StatementFails, Deliver, OnlyFlow, tableVars
    <2>4. CASE GetIdentity(f) \/ GetUserByEmail(f) \/ RetryByEmail(f) \/ GetUserByID(f)
      BY <2>4 DEF GetIdentity, GetUserByEmail, RetryByEmail, GetUserByID, OnlyFlow, tableVars
    <2>5. CASE LinkIdentity(f) \/ CreateIdentity(f)
      BY <2>5 DEF LinkIdentity, CreateIdentity, StoreIdentity
    <2> QED
      BY <1>9, <2>1, <2>2, <2>3, <2>4, <2>5
  <1>10. CASE \/ \E x \in StateIds : StateExpires(x)
              \/ Administer \/ ChangeAddress \/ Restart \/ Exhausted \/ UNCHANGED vars
    BY <1>1, <1>10 DEF StateExpires, Administer, ChangeAddress, Restart, Exhausted, tableVars, vars
  <1> QED
    BY <1>1, <1>3, <1>4, <1>5, <1>6, <1>7, <1>8, <1>9, <1>10 DEF Next, FindOrCreateOAuthUser

\* What is known of the person stays known while the others move.
LEMMA OwnOthersKeep ==
    ASSUME IInv, OwnInv, UsersForward, NEW g \in Flows,
           flow'[g].pc = flow[g].pc, flow'[g].reply = flow[g].reply,
           flow'[g].email = flow[g].email, flow'[g].own = flow[g].own,
           flow'[g].user = flow[g].user
    PROVE  OwnFlow(g)'
  <1>1. flow[g].pc \in ByAddress => /\ flow[g].user \in UserIds
                                    /\ users[flow[g].user].status # "free"
    BY DEF IInv, FlowInv, Among, ByAddress, Chosen
  <1> QED
    BY <1>1 DEF OwnInv, OwnFlow, Among, UsersForward

\* A flow that is not past its profile says nothing of addresses.
LEMMA OwnEarly ==
    ASSUME NEW f \in Flows, flow'[f].pc \notin Profiled, flow'[f].reply # "pair"
    PROVE  OwnFlow(f)'
  BY DEF OwnFlow, Among, ByAddress, Profiled, Asking, Consumed

LEMMA OwnReply ==
    ASSUME IInv, NEW f \in Flows, NEW a, Reply(f, a)
    PROVE  OwnFlow(f)'
  <1>1. flow'[f] = Idle
    BY DEF Reply, Set, IInv, TypeOK
  <1> QED
    BY <1>1, IdleFields, OwnEarly DEF Profiled, Asking, Consumed

\* Moving on keeps what is known.
LEMMA OwnGoto ==
    ASSUME IInv, OwnInv, UsersForward, NEW f \in Flows, NEW step \in Steps, Goto(f, step),
           step \in Profiled => flow[f].pc \in Profiled,
           step \in ByAddress => flow[f].pc \in ByAddress,
           flow[f].pc \in Steps
    PROVE  OwnFlow(f)'
  <1>1. flow[f] \in Flow
    BY DEF IInv, TypeOK
  <1> DEFINE k == [flow[f] EXCEPT !.pc = step]
  <1>2. /\ k.pc = step /\ k.email = flow[f].email /\ k.own = flow[f].own
        /\ k.user = flow[f].user /\ k.reply = flow[f].reply
    BY <1>1, GotoFields
  <1>3. flow'[f] = k
    BY DEF Goto, Set, IInv, TypeOK
  <1> HIDE DEF k
  <1>4. flow[f].reply # "pair"
    BY DEF IInv, FlowInv, At, Steps
  <1>5. flow[f].pc \in ByAddress => /\ flow[f].user \in UserIds
                                    /\ users[flow[f].user].status # "free"
    BY DEF IInv, FlowInv, Among, ByAddress, Chosen
  <1> QED
    BY <1>2, <1>3, <1>4, <1>5 DEF OwnInv, OwnFlow, Among, UsersForward

\* The user was found, or made, by the address.
LEMMA OwnFound ==
    ASSUME IInv, OwnInv, NEW f \in Flows, flow[f].pc \in Profiled, NEW k, flow'[f] = k,
           k.email = flow[f].email, k.own = flow[f].own, k.reply = flow[f].reply,
           k.pc \in Profiled,
           k.pc \in ByAddress => users'[k.user].email = flow[f].email
    PROVE  OwnFlow(f)'
  <1>1. flow[f].email \in {flow[f].own, NilEmail}
    BY DEF OwnInv, OwnFlow, Among
  <1> QED
    BY <1>1 DEF OwnFlow

\* Every step of a flow.
LEMMA OwnFlowSteps ==
    ASSUME IInv, OwnInv, UsersForward, NEW f \in Flows,
           \/ Authorize(f) \/ Callback(f) \/ FindOrCreateOAuthUser(f)
           \/ CreateSession(f) \/ StatementFails(f) \/ Deliver(f)
    PROVE  OwnFlow(f)'
  <1>0. flow[f] \in Flow
    BY DEF IInv, TypeOK
  <1>1. ASSUME NEW k \in Flow, Set(f, k) PROVE flow'[f] = k
    BY <1>1 DEF Set, IInv, TypeOK
  <1>2. CASE OAuthAuthorize(f)
    <2>1. ASSUME NEW p \in ProviderNames,
                 Set(f, [Idle EXCEPT !.op = "OAuthAuthorize", !.provider = p, !.pc = "GetProvider"])
          PROVE  OwnFlow(f)'
      <3>1. flow'[f].pc = "GetProvider" /\ flow'[f].reply = "none"
        BY <2>1, IdleFields DEF Set, IInv, TypeOK, Flow
      <3> QED
        BY <3>1, OwnEarly DEF Profiled, Asking, Consumed
    <2> QED
      BY <1>2, <2>1, OwnReply DEF OAuthAuthorize
  <1>3. CASE GetProvider(f)
    <2>1. /\ "CreateOAuthState" \in Steps /\ "CreateOAuthState" \notin Profiled
          /\ "CreateOAuthState" \notin ByAddress /\ flow[f].pc \in Steps
      BY <1>3 DEF GetProvider, At, Steps, Profiled, Asking, Consumed, ByAddress
    <2> QED
      BY <1>3, <2>1, OwnReply, OwnGoto DEF GetProvider
  <1>4. CASE CreateOAuthState(f)
    <2>1. ASSUME NEW x \in StateIds,
                 Set(f, [flow[f] EXCEPT !.pc = "replied", !.reply = "authorize", !.state = x])
          PROVE  OwnFlow(f)'
      <3>1. flow'[f].pc = "replied" /\ flow'[f].reply = "authorize"
        BY <1>0, <2>1 DEF Set, IInv, TypeOK, Flow
      <3> QED
        BY <3>1, OwnEarly DEF Profiled, Asking, Consumed
    <2> QED
      BY <1>4, <2>1, OwnReply DEF CreateOAuthState, Acknowledged
  <1>5. CASE OAuthCallback(f)
    <2>1. flow'[f].pc = "ConsumeState" /\ flow'[f].reply = "none"
      BY <1>5, IdleFields DEF OAuthCallback, Set, IInv, TypeOK, Flow
    <2> QED
      BY <2>1, OwnEarly DEF Profiled, Asking, Consumed
  <1>6. CASE GetAndConsumeOAuthState(f)
    <2>1. /\ "GetProviderConfig" \in Steps /\ "GetProviderConfig" \notin Profiled
          /\ "GetProviderConfig" \notin ByAddress /\ flow[f].pc \in Steps
      BY <1>6 DEF GetAndConsumeOAuthState, At, Steps, Profiled, Asking, Consumed, ByAddress
    <2> QED
      BY <1>6, <2>1, OwnReply, OwnGoto DEF GetAndConsumeOAuthState, Acknowledged
  <1>7. CASE GetProviderConfig(f)
    <2>1. /\ "GetUserProfile" \in Steps /\ "GetUserProfile" \notin Profiled
          /\ "GetUserProfile" \notin ByAddress /\ flow[f].pc \in Steps
      BY <1>7 DEF GetProviderConfig, At, Steps, Profiled, Asking, Consumed, ByAddress
    <2> QED
      BY <1>7, <2>1, OwnReply, OwnGoto DEF GetProviderConfig
  <1>8. CASE GetUserProfile(f)
    <2>1. ASSUME NEW a \in Accounts, NEW body \in {"good", "refused", "garbled"},
                 NEW profile \in Profiles(flow[f].provider, a, body), profile.email # NoEmail,
                 Set(f, [flow[f] EXCEPT !.pc = "GetIdentity", !.account = profile.account,
                                        !.email = profile.email, !.own = EmailOr(a, NoEmail)])
          PROVE  OwnFlow(f)'
      <3>1. profile.email \in {EmailOr(a, NoEmail), NilEmail}
        BY <2>1, ProfileTyped DEF IInv
      <3>2. /\ flow'[f].pc = "GetIdentity" /\ flow'[f].email = profile.email
            /\ flow'[f].own = EmailOr(a, NoEmail)
        BY <1>0, <2>1 DEF Set, IInv, TypeOK, Flow
      <3>3. "GetIdentity" \notin ByAddress
        BY DEF ByAddress
      <3> QED
        BY <3>1, <3>2, <3>3 DEF OwnFlow
    <2> QED
      BY <1>8, <2>1, OwnReply DEF GetUserProfile
  <1>9. ASSUME NEW step \in {"GetUserByID", "VerifyUserEmail"}, NEW u \in UserIds,
               GoWith(f, step, u), flow[f].pc \in Profiled,
               step = "VerifyUserEmail" => users'[u].email = flow[f].email
        PROVE  OwnFlow(f)'
    <2> DEFINE k == [flow[f] EXCEPT !.pc = step, !.user = u]
    <2>1. /\ k.pc = step /\ k.user = u /\ k.email = flow[f].email /\ k.own = flow[f].own
          /\ k.reply = flow[f].reply
      BY <1>0, ZenonT(60) DEF Flow
    <2>2. flow'[f] = k
      BY <1>9 DEF GoWith, Set, IInv, TypeOK
    <2> HIDE DEF k
    <2>3. step \in Profiled /\ (step \in ByAddress => step = "VerifyUserEmail")
      BY DEF Profiled, Asking, Consumed, ByAddress
    <2> QED
      BY <1>9, <2>1, <2>2, <2>3, OwnFound
  <1>10. CASE GetIdentity(f)
    <2>1. flow[f].pc \in Profiled /\ flow[f].pc \in Steps
      BY <1>10 DEF GetIdentity, At, Steps, Profiled, Asking, Consumed
    <2>2. ASSUME NEW i \in IdentityOf(flow[f].provider, flow[f].account),
                 GoWith(f, "GetUserByID", i.user)
          PROVE  OwnFlow(f)'
      <3>1. i.user \in UserIds
        BY <2>2 DEF IdentityOf, IInv, TypeOK, IdentityRow
      <3> QED
        BY <1>9, <2>1, <2>2, <3>1
    <2>3. "GetUserByEmail" \in Steps /\ "GetUserByEmail" \notin ByAddress
      BY DEF Steps, ByAddress
    <2> QED
      BY <1>10, <2>1, <2>2, <2>3, OwnGoto DEF GetIdentity
  <1>11. CASE GetUserByEmail(f)
    <2>1. flow[f].pc \in Profiled /\ flow[f].pc \in Steps /\ UNCHANGED users
      BY <1>11 DEF GetUserByEmail, At, Steps, Profiled, Asking, Consumed, OnlyFlow, tableVars
    <2>2. ASSUME NEW u \in UserWithEmail(flow[f].email),
                 Set(f, [flow[f] EXCEPT !.pc = "LinkIdentity", !.user = u,
                                        !.banned = users[u].banned])
          PROVE  OwnFlow(f)'
      <3> DEFINE k == [flow[f] EXCEPT !.pc = "LinkIdentity", !.user = u,
                                      !.banned = users[u].banned]
      <3>1. /\ k.pc = "LinkIdentity" /\ k.user = u /\ k.email = flow[f].email
            /\ k.own = flow[f].own /\ k.reply = flow[f].reply
        BY <1>0, ZenonT(60) DEF Flow
      <3>2. flow'[f] = k
        BY <2>2 DEF Set, IInv, TypeOK
      <3> HIDE DEF k
      <3>3. "LinkIdentity" \in Profiled /\ users[u].email = flow[f].email
        BY <2>2 DEF Profiled, Asking, Consumed, UserWithEmail
      <3> QED
        BY <2>1, <3>1, <3>2, <3>3, OwnFound
    <2>3. "CreateUser" \in Steps /\ "CreateUser" \notin ByAddress
      BY DEF Steps, ByAddress
    <2> QED
      BY <1>11, <2>1, <2>2, <2>3, OwnGoto DEF GetUserByEmail
  <1>12. CASE LinkIdentity(f)
    <2>1. /\ "CreateSession" \in Steps /\ "CreateSession" \notin ByAddress
          /\ flow[f].pc \in Profiled /\ flow[f].pc \in Steps
      BY <1>12 DEF LinkIdentity, At, Steps, Profiled, Asking, Consumed, ByAddress
    <2> QED
      BY <1>12, <2>1, OwnReply, OwnGoto DEF LinkIdentity
  <1>13. CASE CreateUser(f)
    <2>1. /\ "RetryByEmail" \in Steps /\ "RetryByEmail" \notin ByAddress
          /\ flow[f].pc \in Profiled /\ flow[f].pc \in Steps
      BY <1>13 DEF CreateUser, At, Steps, Profiled, Asking, Consumed, ByAddress
    <2>2. ASSUME NEW u \in UserIds, InsertUser(u, flow[f].email, NoPassword)
          PROVE  users'[u].email = flow[f].email
      BY <2>2 DEF InsertUser, FreeUser, IInv, TypeOK, StoreTypeOK
    <2> QED
      BY <1>9, <1>13, <2>1, <2>2, OwnReply, OwnGoto DEF CreateUser, Acknowledged
  <1>14. CASE RetryByEmail(f)
    <2>1. flow[f].pc \in Profiled /\ UNCHANGED users
      BY <1>14 DEF RetryByEmail, At, Profiled, Asking, Consumed, OnlyFlow, tableVars
    <2>2. \A u \in UserWithEmail(flow[f].email) : u \in UserIds /\ users[u].email = flow[f].email
      BY DEF UserWithEmail
    <2> QED
      BY <1>9, <1>14, <2>1, <2>2, OwnReply DEF RetryByEmail
  <1>15. CASE VerifyUserEmail(f)
    <2>1. /\ "CreateIdentity" \in Steps /\ flow[f].pc \in ByAddress
          /\ flow[f].pc \in Profiled /\ flow[f].pc \in Steps
      BY <1>15 DEF VerifyUserEmail, At, Steps, Profiled, Asking, Consumed, ByAddress
    <2> QED
      BY <1>15, <2>1, OwnGoto DEF VerifyUserEmail
  <1>16. CASE CreateIdentity(f)
    <2>1. /\ "GetUserByID" \in Steps /\ "GetUserByID" \notin ByAddress
          /\ flow[f].pc \in Profiled /\ flow[f].pc \in Steps
      BY <1>16 DEF CreateIdentity, At, Steps, Profiled, Asking, Consumed, ByAddress
    <2> QED
      BY <1>16, <2>1, OwnGoto DEF CreateIdentity
  <1>17. CASE GetUserByID(f)
    <2>1. /\ "CreateSession" \in Steps /\ "CreateSession" \notin ByAddress
          /\ flow[f].pc \in Profiled /\ flow[f].pc \in Steps
      BY <1>17 DEF GetUserByID, At, Steps, Profiled, Asking, Consumed, ByAddress
    <2> QED
      BY <1>17, <2>1, OwnReply, OwnGoto DEF GetUserByID
  <1>18. CASE CreateSession(f)
    <2>1. flow[f].pc \in Profiled
      BY <1>18 DEF CreateSession, At, Profiled, Asking, Consumed
    <2>2. ASSUME NEW s \in SessionIds,
                 Set(f, [flow[f] EXCEPT !.pc = "replied", !.reply = "pair", !.grant = s])
          PROVE  OwnFlow(f)'
      <3>1. /\ flow'[f].pc = "replied" /\ flow'[f].email = flow[f].email
            /\ flow'[f].own = flow[f].own
        BY <1>0, <2>2 DEF Set, IInv, TypeOK, Flow
      <3>2. "replied" \notin ByAddress
        BY DEF ByAddress
      <3> QED
        BY <2>1, <3>1, <3>2 DEF OwnInv, OwnFlow, Among
    <2> QED
      BY <1>18, <2>2, OwnReply DEF CreateSession, Acknowledged
  <1>19. CASE StatementFails(f)
    BY <1>19, OwnReply DEF StatementFails
  <1>20. CASE Deliver(f)
    <2>1. flow'[f] = Idle
      BY <1>20 DEF Deliver, Set, IInv, TypeOK
    <2> QED
      BY <2>1, IdleFields, OwnEarly DEF Profiled, Asking, Consumed
  <1> QED
    BY <1>2, <1>3, <1>4, <1>5, <1>6, <1>7, <1>8, <1>10, <1>11, <1>12, <1>13, <1>14, <1>15, <1>16,
       <1>17, <1>18, <1>19, <1>20 DEF Authorize, Callback, FindOrCreateOAuthUser

\* An identity is stored for a user who was found by the address.
LEMMA OwnStore ==
    ASSUME IInv, OwnInv, UsersForward, NEW f \in Flows, flow[f].pc \in {"LinkIdentity", "CreateIdentity"},
           StoreIdentity(f)
    PROVE  \A i \in identities' : OwnIdentity(i)'
  <1> DEFINE new == [provider |-> flow[f].provider, account |-> flow[f].account,
                     user |-> flow[f].user, own |-> flow[f].own]
  <1>1. identities' \subseteq identities \cup {new} /\ UNCHANGED users
    BY DEF StoreIdentity, InsertIdentity
  <1>2. new.user = flow[f].user /\ new.own = flow[f].own
    OBVIOUS
  <1>3. flow[f].pc \in Profiled /\ flow[f].pc \in ByAddress
    BY DEF Profiled, Asking, Consumed, ByAddress
  <1> HIDE DEF new
  <1>4. users[new.user].status = "live" => users[new.user].email \in {new.own, NilEmail}
    BY <1>2, <1>3 DEF OwnInv, OwnFlow, Among
  <1>5. ASSUME NEW i \in identities' PROVE OwnIdentity(i)'
    <2>1. CASE i = new
      BY <1>1, <1>4, <2>1 DEF OwnIdentity
    <2>2. CASE i \in identities
      BY <1>1, <2>2 DEF OwnInv, OwnIdentity
    <2> QED
      BY <1>1, <2>1, <2>2
  <1> QED
    BY <1>5

LEMMA OwnSteps == ASSUME IInv, OwnInv, [Next]_vars PROVE OwnInv'
  <1>1. UsersForward
    BY UsersMoveForward
  <1>2. identities \subseteq IdentityRow /\ \A i \in identities : LiveUser(i.user)
    BY DEF IInv, TypeOK, IdentitiesHaveAccounts
  <1>3. ASSUME identities' \subseteq identities PROVE \A i \in identities' : OwnIdentity(i)'
    <2>1. \A i \in identities : i.user \in UserIds /\ users[i.user].status = "live"
      BY <1>2 DEF IdentityRow, LiveUser
    <2> QED
      BY <1>1, <1>3, <2>1 DEF OwnInv, OwnIdentity, UsersForward
  <1>4. ASSUME NEW f \in Flows,
               \/ Authorize(f) \/ Callback(f) \/ FindOrCreateOAuthUser(f)
               \/ CreateSession(f) \/ StatementFails(f) \/ Deliver(f)
        PROVE  OwnInv'
    <2>1. OwnFlow(f)'
      BY <1>1, <1>4, OwnFlowSteps
    <2>2. \A g \in Flows : g # f => flow'[g] = flow[g]
      <3>1. ASSUME NEW k, Set(f, k) PROVE \A g \in Flows : g # f => flow'[g] = flow[g]
        BY <3>1 DEF Set, IInv, TypeOK
      <3>2. \E k : Set(f, k)
        <4>1. CASE Authorize(f)
          BY <4>1 DEF Authorize, OAuthAuthorize, GetProvider, CreateOAuthState, Reply, Goto,
                      Acknowledged
        <4>2. CASE Callback(f)
          BY <4>2 DEF Callback, OAuthCallback, GetAndConsumeOAuthState, GetProviderConfig,
                      GetUserProfile, Reply, Goto, Acknowledged
        <4>3. CASE GetIdentity(f) \/ GetUserByEmail(f) \/ LinkIdentity(f) \/ RetryByEmail(f)
          BY <4>3 DEF GetIdentity, GetUserByEmail, LinkIdentity, RetryByEmail, Reply, Goto, GoWith
        <4>4. CASE CreateUser(f) \/ VerifyUserEmail(f) \/ CreateIdentity(f) \/ GetUserByID(f)
          BY <4>4 DEF CreateUser, VerifyUserEmail, CreateIdentity, GetUserByID, Reply, Goto,
                      GoWith, Acknowledged
        <4>5. CASE CreateSession(f) \/ StatementFails(f) \/ Deliver(f)
          BY <4>5 DEF CreateSession, StatementFails, Deliver, Reply, Acknowledged
        <4> QED
          BY <1>4, <4>1, <4>2, <4>3, <4>4, <4>5 DEF FindOrCreateOAuthUser
      <3> QED
        BY <3>1, <3>2
    <2>3. \A g \in Flows : OwnFlow(g)'
      BY <1>1, <2>1, <2>2, OwnOthersKeep
    <2>4. CASE LinkIdentity(f) \/ CreateIdentity(f)
      <3>1. flow[f].pc \in {"LinkIdentity", "CreateIdentity"} /\ StoreIdentity(f)
        BY <2>4 DEF LinkIdentity, CreateIdentity, At
      <3> QED
        BY <1>1, <2>3, <3>1, OwnStore DEF OwnInv
    <2>5. CASE ~(LinkIdentity(f) \/ CreateIdentity(f))
      <3>1. UNCHANGED identities
        <4>1. CASE Authorize(f)
          BY <4>1 DEF Authorize, OAuthAuthorize, GetProvider, CreateOAuthState, OnlyFlow, tableVars
        <4>2. CASE Callback(f)
          BY <4>2 DEF Callback, OAuthCallback, GetAndConsumeOAuthState, GetProviderConfig,
                      GetUserProfile, OnlyFlow, tableVars
        <4>3. CASE StatementFails(f) \/ Deliver(f) \/ CreateSession(f)
          BY <4>3 DEF StatementFails, Deliver, CreateSession, OnlyFlow, tableVars
        <4>4. CASE GetIdentity(f) \/ GetUserByEmail(f) \/ RetryByEmail(f) \/ GetUserByID(f)
          BY <4>4 DEF GetIdentity, GetUserByEmail, RetryByEmail, GetUserByID, OnlyFlow, tableVars
        <4>5. CASE CreateUser(f) \/ VerifyUserEmail(f)
          BY <4>5 DEF CreateUser, VerifyUserEmail
        <4> QED
          BY <1>4, <2>5, <4>1, <4>2, <4>3, <4>4, <4>5 DEF FindOrCreateOAuthUser
      <3> QED
        BY <1>3, <2>3, <3>1 DEF OwnInv
    <2> QED
      BY <2>4, <2>5
  <1>5. ASSUME UNCHANGED flow, identities' \subseteq identities PROVE OwnInv'
    BY <1>1, <1>3, <1>5, OwnOthersKeep DEF OwnInv
  <1>6. ASSUME NEW u \in UserIds, SignUp(u) \/ DeleteUser(u) \/ Ban(u) PROVE OwnInv'
    BY <1>5, <1>6 DEF SignUp, DeleteUser, Ban
  <1>7. CASE \/ \E x \in StateIds : StateExpires(x)
             \/ ChangeAddress \/ Exhausted \/ UNCHANGED vars
    BY <1>5, <1>7 DEF StateExpires, ChangeAddress, Exhausted, vars, tableVars
  <1>8. CASE Restart
    <2>1. UNCHANGED identities /\ \A f \in Flows : flow'[f] = Idle
      BY <1>8 DEF Restart, tableVars
    <2>2. \A f \in Flows : OwnFlow(f)'
      BY <2>1, IdleFields, OwnEarly DEF Profiled, Asking, Consumed
    <2> QED
      BY <1>3, <2>1, <2>2 DEF OwnInv
  <1>9. CASE Administer
    <2>1. UNCHANGED identities
      BY <1>9 DEF Administer, tableVars
    <2>2. ASSUME NEW f \in Flows
          PROVE  /\ flow'[f].pc = flow[f].pc /\ flow'[f].reply = flow[f].reply
                 /\ flow'[f].email = flow[f].email /\ flow'[f].own = flow[f].own
                 /\ flow'[f].user = flow[f].user
      <3>1. flow[f] \in Flow
        BY DEF IInv, TypeOK
      <3>2. flow'[f] = flow[f] \/ flow'[f] = [flow[f] EXCEPT !.closed = FALSE]
        BY <1>9 DEF Administer, CreateProvider, UpdateProvider, DeleteProvider, Reopened
      <3> DEFINE k == [flow[f] EXCEPT !.closed = FALSE]
      <3>3. /\ k.pc = flow[f].pc /\ k.reply = flow[f].reply /\ k.email = flow[f].email
            /\ k.own = flow[f].own /\ k.user = flow[f].user
        BY <3>1, ZenonT(60) DEF Flow
      <3> QED
        BY <3>2, <3>3
    <2> QED
      BY <1>1, <1>3, <2>1, <2>2, OwnOthersKeep DEF OwnInv
  <1> QED
    BY <1>4, <1>6, <1>7, <1>8, <1>9 DEF Next

\* The addresses are the persons' in every reachable state.
LEMMA OwnInvAlways == Spec => []OwnInv
  <1>1. Init => OwnInv
    <2>1. ASSUME Init, NEW f \in Flows PROVE OwnFlow(f)
      BY <2>1, IdleFields DEF Init, OwnFlow, Among, ByAddress, Profiled, Asking, Consumed
    <2> QED
      BY <2>1 DEF Init, OwnInv
  <1>2. IInv /\ OwnInv /\ [Next]_vars => OwnInv'
    BY OwnSteps
  <1> QED
    BY <1>1, <1>2, Invariance, PTL DEF Spec

-----------------------------------------------------------------------------
(* The other theorems.                                                      *)

\* Every variable keeps its type.
THEOREM TypeOKAlways == Spec => []TypeOK
  <1>1. IInv => TypeOK
    BY DEF IInv
  <1>2. QED
    BY <1>1, Invariance, PTL

\* One trip to the provider opens one session at most, however often and
\* however concurrently its callback is called: the DELETE hands the state out
\* once, and whoever has it inserts once.
THEOREM OneSignInPerStateAlways == Spec => []OneSignInPerState
  <1>1. ASSUME IInv, NEW x \in StateIds PROVE Cardinality(states[x].opened) <= 1
    <2>1. CASE states[x].opened = {}
      <3>1. Cardinality({}) = 0
        BY FS_EmptySet
      <3>2. QED
        BY <2>1, <3>1
    <2>2. CASE states[x].opened # {}
      <3>0. PICK s \in states[x].opened : TRUE
        BY <2>2
      <3>1. \A t \in states[x].opened : t = s
        BY <1>1 DEF IInv, OneTrip
      <3>2. Cardinality({s}) = 1
        BY FS_Singleton
      <3>3. states[x].opened = {s}
        BY <3>0, <3>1
      <3>4. QED
        BY <3>2, <3>3
    <2>3. QED
      BY <2>1, <2>2
  <1>2. IInv => OneSignInPerState
    BY <1>1 DEF OneSignInPerState
  <1>3. QED
    BY <1>2, Invariance, PTL

\* Nobody is signed in on a state that was used up or had expired when the
\* callback started, or that was meant for another provider.
THEOREM StateAlwaysHonoured == Spec => []StateHonoured
  <1>1. IInv => StateHonoured
    BY DEF IInv, FlowInv, Among, StateHonoured
  <1>2. QED
    BY <1>1, Invariance, PTL

\* No callback asks a provider NewProvider has no case for, so that the error
\* it drops cannot be one.
THEOREM ProviderAlwaysKnown == Spec => []ProviderKnown
  <1>1. IInv => ProviderKnown
    BY DEF IInv, FlowInv, Among, At, Consumed, StatesKnown, ProviderKnown
  <1>2. QED
    BY <1>1, Invariance, PTL

\* An identity always names a user that is there, and a provider account has
\* one at most.
THEOREM IdentitiesAlwaysHaveAccounts == Spec => []IdentitiesHaveAccounts
  <1>1. IInv => IdentitiesHaveAccounts
    BY DEF IInv
  <1>2. QED
    BY <1>1, Invariance, PTL

\* Nobody is signed in to an account whose address the provider never knew of
\* them, unless it is the printed one.
THEOREM AlwaysSignedInAsOwner == Spec => []SignedInAsOwner
  <1>1. ASSUME IInv, OwnInv, NEW f \in Flows, flow[f].reply = "pair", LiveUser(flow[f].user),
               users[flow[f].user].email # NilEmail
        PROVE  users[flow[f].user].email \in Owns(f)
    <2>1. Owned(f) /\ users[flow[f].user].status = "live"
      BY <1>1 DEF IInv, FlowInv, Among, LiveUser
    <2>2. CASE users[flow[f].user].email = flow[f].email
      BY <1>1, <2>2 DEF OwnInv, OwnFlow, Among, Owns
    <2>3. ASSUME NEW i \in identities, Linked(i, flow[f].provider, flow[f].account, flow[f].user)
          PROVE  users[flow[f].user].email \in Owns(f)
      BY <1>1, <2>1, <2>3 DEF OwnInv, OwnIdentity, Linked, Owns
    <2> QED
      BY <2>1, <2>2, <2>3 DEF Owned
  <1>2. IInv /\ OwnInv => SignedInAsOwner
    BY <1>1 DEF SignedInAsOwner
  <1>3. QED
    BY <1>2, Invariance, OwnInvAlways, PTL

\* A user who was banned or gone when the callback started is not signed in,
\* by whichever lookup it was found.
THEOREM BarredUserAlwaysRefused == Spec => []BarredUserRefused
  <1>1. IInv => BarredUserRefused
    BY DEF IInv, FlowInv, Among, BarredUserRefused
  <1>2. QED
    BY <1>1, Invariance, PTL

\* A provider that was closed from the start of the callback on signs nobody in.
THEOREM ClosedProviderAlwaysRefused == Spec => []ClosedProviderRefused
  <1>1. IInv => ClosedProviderRefused
    BY DEF IInv, FlowInv, Among, ClosedProviderRefused
  <1>2. QED
    BY <1>1, Invariance, PTL

\* Without a fault, an account that a callback created is verified once its
\* UPDATE is done.
THEOREM CreatedAccountsAlwaysVerified == Spec => []CreatedAccountsVerified
  <1>1. IInv => CreatedAccountsVerified
    BY DEF IInv
  <1>2. QED
    BY <1>1, Invariance, PTL


-----------------------------------------------------------------------------
(* AuthOAuth implements SessionLedger too.                                  *)

\* Every step of a flow, of an operator or of the password half keeps the
\* tables in order, and is a step of the ledger or leaves it alone.
LEMMA StepMaps ==
    ASSUME IInv, StoreInv, [Next]_vars
    PROVE  StoreInv' /\ [Ledger!Next]_Ledger!vars
  <1>1. CASE UNCHANGED <<users, sessions>>
    BY <1>1, NoStatementKeeps, NoStatementMaps
  <1>2. ASSUME NEW f \in Flows,
               \/ Authorize(f) \/ Callback(f) \/ StatementFails(f) \/ Deliver(f)
               \/ GetIdentity(f) \/ GetUserByEmail(f) \/ LinkIdentity(f) \/ RetryByEmail(f)
               \/ CreateIdentity(f) \/ GetUserByID(f)
        PROVE  UNCHANGED <<users, sessions>>
    <2>1. CASE Authorize(f)
      BY <2>1 DEF Authorize, OAuthAuthorize, GetProvider, CreateOAuthState, OnlyFlow, tableVars
    <2>2. CASE Callback(f)
      BY <2>2 DEF Callback, OAuthCallback, GetAndConsumeOAuthState, GetProviderConfig,
                  GetUserProfile, OnlyFlow, tableVars
    <2>3. CASE StatementFails(f) \/ Deliver(f)
      BY <2>3 DEF StatementFails, Deliver, OnlyFlow, tableVars
    <2>4. CASE GetIdentity(f) \/ GetUserByEmail(f) \/ RetryByEmail(f) \/ GetUserByID(f)
      BY <2>4 DEF GetIdentity, GetUserByEmail, RetryByEmail, GetUserByID, OnlyFlow, tableVars
    <2>5. CASE LinkIdentity(f) \/ CreateIdentity(f)
      BY <2>5 DEF LinkIdentity, CreateIdentity, StoreIdentity
    <2> QED
      BY <1>2, <2>1, <2>2, <2>3, <2>4, <2>5
  <1>3. ASSUME NEW f \in Flows, CreateUser(f)
        PROVE  StoreInv' /\ [Ledger!Next]_Ledger!vars
    <2>1. flow[f].email \in Emails \cup {NoEmail} /\ NoPassword \in Passwords \cup {NoPassword}
      BY DEF IInv, TypeOK, Flow
    <2>2. ASSUME NEW u \in UserIds, InsertUser(u, flow[f].email, NoPassword)
          PROVE  StoreInv' /\ Ledger!OpenAccount(u)
      BY <2>1, <2>2, InsertUserKeeps, InsertUserMaps
    <2> QED
      BY <1>1, <1>3, <2>2 DEF CreateUser, Ledger!Next
  <1>4. ASSUME NEW f \in Flows, VerifyUserEmail(f)
        PROVE  StoreInv' /\ [Ledger!Next]_Ledger!vars
    <2>1. flow[f].user \in UserIds
      BY <1>4 DEF VerifyUserEmail, IInv, FlowInv, Among, Chosen, At
    <2>2. LiveUser(flow[f].user) \in BOOLEAN
      BY DEF LiveUser
    <2> QED
      BY <1>1, <1>4, <2>1, <2>2, VerifyKeeps DEF VerifyUserEmail
  <1>5. ASSUME NEW f \in Flows, CreateSession(f)
        PROVE  StoreInv' /\ [Ledger!Next]_Ledger!vars
    <2>1. flow[f].user \in UserIds
      BY <1>5 DEF CreateSession, IInv, FlowInv, Among, Chosen, At
    <2>2. ASSUME NEW s \in SessionIds, InsertSession(s, flow[f].user, NoSession)
          PROVE  StoreInv' /\ Ledger!Grant(s, flow[f].user, NoSession)
      BY <2>1, <2>2, InsertSessionKeeps, InsertSessionMaps
    <2> QED
      BY <1>1, <1>5, <2>1, <2>2 DEF CreateSession, Ledger!Next
  <1>6. ASSUME NEW u \in UserIds, SignUp(u)
        PROVE  StoreInv' /\ [Ledger!Next]_Ledger!vars
    BY <1>6, InsertUserKeeps, InsertUserMaps DEF SignUp, Ledger!Next
  <1>7. ASSUME NEW u \in UserIds, DeleteUser(u)
        PROVE  StoreInv' /\ [Ledger!Next]_Ledger!vars
    BY <1>7, DeleteUserRowKeeps, DeleteUserMaps DEF DeleteUser, Ledger!Next
  <1>8. ASSUME NEW u \in UserIds, Ban(u)
        PROVE  StoreInv' /\ [Ledger!Next]_Ledger!vars
    BY <1>8, BanUserRowKeeps, BanMaps DEF Ban
  <1>9. CASE \/ \E x \in StateIds : StateExpires(x)
             \/ Administer \/ ChangeAddress \/ Restart \/ Exhausted \/ UNCHANGED vars
    BY <1>1, <1>9 DEF StateExpires, Administer, ChangeAddress, Restart, Exhausted, tableVars, vars
  <1> QED
    BY <1>1, <1>2, <1>3, <1>4, <1>5, <1>6, <1>7, <1>8, <1>9 DEF Next, FindOrCreateOAuthUser

\* The two tables stay in order under OAuth sign-in as well.
LEMMA StoreInvAlways == Spec => []StoreInv
  <1>1. Init => StoreInv
    BY InitHolds DEF Init, StoreInit, StoreInv, IInv, TypeOK, SessionsHaveAccounts,
                     RotationEndsPredecessor, OwnersKnown, FreeSession
  <1>2. IInv /\ StoreInv /\ [Next]_vars => StoreInv'
    BY StepMaps
  <1> QED
    BY <1>1, <1>2, Invariance, PTL DEF Spec

\* No interleaving of a callback with the deletion of an account leaves a
\* session of an account that is gone.
THEOREM SessionsHaveAccountsAlways == Spec => []SessionsHaveAccounts
  <1>1. StoreInv => SessionsHaveAccounts
    BY DEF StoreInv
  <1> QED
    BY <1>1, StoreInvAlways, PTL

\* OAuth sign-in keeps the ledger the password half keeps: a callback opens an
\* account once and grants its tokens to open accounts only.
THEOREM Refinement == Spec => LedgerSpec
  <1>1. Init => Ledger!Init
    BY DEF Init, StoreInit, FreeUser, FreeSession, Ledger!Init, AccountState, TokenState
  <1>2. IInv /\ StoreInv /\ [Next]_vars => [Ledger!Next]_Ledger!vars
    BY StepMaps
  <1> QED
    BY <1>1, <1>2, Invariance, StoreInvAlways, PTL DEF Spec, LedgerSpec, Ledger!Spec
=============================================================================
