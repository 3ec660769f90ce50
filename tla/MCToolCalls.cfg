\* Two calls of each tool, or of two tools that share entries of the cache.
SPECIFICATION Spec
CONSTANTS
    c1 = c1
    c2 = c2
    Calls = {c1, c2}
    Regions = {"us-east-1", "us-west-2", "eu-west-1"}
    NoRegion = NoRegion
    Names = {any, one}
    DefaultName = any
    RegionLists <- SomeRegionLists
    Environments <- SomeEnvironments
    NoTool = NoTool
    Ttl = 2
    MaxDuration = 0
    MaxTime = 2
SYMMETRY Interchangeable
INVARIANTS TypeOK DeclaredRequests RegionsAllowed PartialHasItems AnswersAsked
PROPERTIES ListedCallable
CHECK_DEADLOCK FALSE
