\* A reader, a reload and a migration; one client more than they can keep.
CONSTANTS
    r1 = r1  r2 = r2  r3 = r3
    f1 = f1  f2 = f2
    Requests = {r1, r2, r3}
    Files = {f1}
    Serves <- MCServesOneEach
    PoolSize = 4
    MaxVersion = 1
    MaxLeaks = 0
    NoFile = NoFile
SPECIFICATION FairSpec
PROPERTY Answered
