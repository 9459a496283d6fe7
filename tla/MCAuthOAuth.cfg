\* Two OAuth requests at a time, one fault or change, two users, two people, two states.
CONSTANTS
    u1 = u1  u2 = u2
    s1 = s1  s2 = s2
    x1 = x1  x2 = x2
    f1 = f1  f2 = f2
    a1 = a1  a2 = a2
    e1 = e1  e2 = e2  nil = nil
    p1 = p1
    k1 = k1  k2 = k2
    UserIds = {u1, u2}
    SessionIds = {s1, s2}
    Emails = {e1, e2, nil}
    Passwords = {p1}
    NoUser = NoUser
    NoSession = NoSession
    NoEmail = NoEmail
    NoPassword = NoPassword
    MaxFaults = 1
    Flows = {f1, f2}
    StateIds = {x1, x2}
    NoState = NoState
    ProviderNames = {"github", "gitlab", "other"}
    Accounts = {a1, a2}
    NilAccount = NilAccount
    NilEmail = nil
    Lower <- MCLower
    NoName = NoName
    BaseIsLocal = FALSE
    Keys = {k1, k2}
SPECIFICATION MCSpec
SYMMETRY MCSymmetry
INVARIANTS TypeOK OneSignInPerState StateHonoured ProviderKnown IdentitiesHaveAccounts
    SignedInAsOwner BarredUserRefused ClosedProviderRefused CreatedAccountsVerified
