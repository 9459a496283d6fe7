\* Two requests, on the gateway or on the engine's own port, and one connection.
CONSTANTS
    r1 = r1  r2 = r2
    u1 = u1
    c1 = c1
    Requests = {r1, r2}
    Conns = {c1}
    Users = {u1}
    Anonymous = Anonymous
    NoConn = NoConn
    Load <- MCLoad
    MaxFaults = 1
SPECIFICATION Spec
INVARIANTS TypeOK HttpRowsUnderCaller AnsweredWriteKept RefusedRowLeavesNothing
    ReadOnlyQueryWritesNothing ClientErrorWroteNothing
