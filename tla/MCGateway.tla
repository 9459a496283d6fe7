----------------------------- MODULE MCGateway -----------------------------
\* An instance of Gateway for TLC.
EXTENDS Gateway, TLC

CONSTANTS r1, r2, u1, c1

\* One request of any kind meets one that writes or runs SQL.
MCLoad == r1 :> DOMAIN Routes @@ r2 :> {"InsertRow", "ExecuteSQL"}
=============================================================================
