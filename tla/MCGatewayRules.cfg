\* Access rules of row requests: the same instance without a fault.
CONSTANTS
    r1 = r1  r2 = r2
    u1 = u1
    c1 = c1
    Requests = {r1, r2}
    Conns = {c1}
    Users = {u1}
    Anonymous = Anonymous
    NoConn = NoConn
    Load <- MCLoad
    MaxFaults = 0
SPECIFICATION Spec
INVARIANT RulesEnforced
