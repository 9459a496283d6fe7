\* Two requests at a time, two buckets over time, one fault.
CONSTANTS
    b1 = b1  b2 = b2
    r1 = r1  r2 = r2
    BucketIds = {b1, b2}
    Requests = {r1, r2}
    BucketNames <- MCBucketNames
    FileNames <- MCFileNames
    Paths <- MCPaths
    Offers <- MCOffers
    Limits <- MCLimits
    MaxFaults = 1
    NoBucket = NoBucket
    NoName = NoName
    NoOffer = NoOffer
    NoLimit = NoLimit
SPECIFICATION Spec
SYMMETRY MCSymmetry
INVARIANTS TypeOK FilesWithinLimits UndisturbedFileIsWhole DownloadMatchesRow
