\* One OAuth request after another, nothing fails, two people, no passwords.
CONSTANTS
    u1 = u1  u2 = u2
    s1 = s1  s2 = s2
    x1 = x1  x2 = x2
    f1 = f1  f2 = f2
    a1 = a1  a2 = a2
    e1 = e1  e2 = e2  nil = nil
    p1 = p1
    k1 = k1  k2 = k2
    UserIds = {u1, u2}
    SessionIds = {s1, s2}
    Emails = {e1, e2, nil}
    Passwords = {}
    NoUser = NoUser
    NoSession = NoSession
    NoEmail = NoEmail
    NoPassword = NoPassword
    MaxFaults = 0
    Flows = {f1}
    StateIds = {x1, x2}
    NoState = NoState
    ProviderNames = {"github", "gitlab", "google"}
    Accounts = {a1, a2}
    NilAccount = NilAccount
    NilEmail = nil
    Lower <- MCLower
    NoName = NoName
    BaseIsLocal = FALSE
    Keys = {k1, k2}
SPECIFICATION Spec
SYMMETRY MCSymmetry
INVARIANT NoEmailKeepsApart
