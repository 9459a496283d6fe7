--------------------------- MODULE MCAuthSessions ---------------------------
\* Instances of AuthSessions for TLC.
EXTENDS AuthSessions, TLC

CONSTANTS u1, u2, s1, s2, s3, r1, r2, e1, strong, weak

\* Identifiers and goroutines are interchangeable.
MCSymmetry == Permutations(UserIds) \cup Permutations(SessionIds) \cup Permutations(Requests)
=============================================================================
