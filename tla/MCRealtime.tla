---------------------------- MODULE MCRealtime ----------------------------
\* An instance of Realtime for TLC.
EXTENDS Realtime

CONSTANTS c1, u1

\* Every insert, or those of one's own rows.
MCSubscriptions ==
    {[events |-> "INSERT", filter |-> f, user |-> u1] : f \in {Nobody, u1}}

Own == [event |-> "INSERT", row |-> 1, owner |-> u1]

\* Too large for a notification: which row it is, and whose, is not told.
Large == [event |-> "INSERT", row |-> Nobody, owner |-> Nobody]

MCChanges == {Own, Large}

\* An own row, a large and an own one, and two large ones, whose payloads are equal.
MCTransactions == {<<Own>>, <<Large, Own>>, <<Large, Large>>}
=============================================================================
