\* One request at a time, no fault.
CONSTANTS
    b1 = b1  b2 = b2
    r1 = r1  r2 = r2
    BucketIds = {b1, b2}
    Requests = {r1}
    BucketNames <- MCBucketNames
    FileNames <- MCFileNames
    Paths <- MCPaths
    Offers <- MCOffers
    Limits <- MCLimits
    MaxFaults = 0
    NoBucket = NoBucket
    NoName = NoName
    NoOffer = NoOffer
    NoLimit = NoLimit
SPECIFICATION Spec
SYMMETRY MCSymmetry
INVARIANT StoredFilesHaveBytes
