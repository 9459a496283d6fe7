----------------------------- MODULE MCAuthOAuth -----------------------------
\* An instance of AuthOAuth for TLC.
EXTENDS AuthOAuth, TLC

CONSTANTS u1, u2, s1, s2, x1, x2, f1, f2, a1, a2, e1, e2, nil, p1, k1, k2

\* e2 is e1 in capitals.
MCLower == [e \in Emails |-> IF e = e2 THEN e1 ELSE e]

\* Of the two people one has an address at first, in small letters, and one
\* has none; ChangeAddress brings the other cases.
MCInit == Init /\ {address[a] : a \in Accounts} = {e1, NoEmail}

MCSpec == MCInit /\ [][Next]_vars

MCSymmetry == Permutations(UserIds) \cup Permutations(SessionIds)
              \cup Permutations(StateIds) \cup Permutations(Flows)
              \cup Permutations(Keys) \cup Permutations(Accounts)
==============================================================================
