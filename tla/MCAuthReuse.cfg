\* Two refreshes of one token at the same time; no fault.
CONSTANTS
    u1 = u1  u2 = u2
    s1 = s1  s2 = s2  s3 = s3
    r1 = r1  r2 = r2
    e1 = e1
    strong = strong  weak = weak
    UserIds = {u1, u2}
    SessionIds = {s1, s2, s3}
    Emails = {e1}
    Passwords = {strong, weak}
    StrongPasswords = {strong}
    Requests = {r1, r2}
    NoUser = NoUser
    NoSession = NoSession
    NoEmail = NoEmail
    NoPassword = NoPassword
    MaxFaults = 0
SPECIFICATION Spec
SYMMETRY MCSymmetry
INVARIANT OneSuccessorPerToken
