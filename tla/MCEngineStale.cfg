\* Two refreshes at the same time; the clients suffice.
CONSTANTS
    r1 = r1  r2 = r2  r3 = r3
    f1 = f1  f2 = f2
    Requests = {r1, r2, r3}
    Files = {f1, f2}
    Serves <- MCServes
    PoolSize = 5
    MaxVersion = 1
    MaxLeaks = 0
    NoFile = NoFile
SPECIFICATION Spec
SYMMETRY MCSymmetry
INVARIANT AnsweredReloadStays
