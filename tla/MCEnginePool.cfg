\* Two tasks that reload or migrate; one client more than they can keep, and one
\* of the clients may have a leftover transaction.
CONSTANTS
    r1 = r1  r2 = r2  r3 = r3
    f1 = f1  f2 = f2
    Requests = {r1, r2, r3}
    Files = {f1}
    Serves <- MCServes
    PoolSize = 5
    MaxVersion = 1
    MaxLeaks = 1
    NoFile = NoFile
SPECIFICATION Spec
SYMMETRY MCSymmetry
INVARIANTS TypeOK ResourcesAccounted QueryUsesItsSchema CacheHonest
    MigrationAppliedOnce NoCircularWait
