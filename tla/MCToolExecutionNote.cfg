\* The note of a paid answer whose cache read failed.
SPECIFICATION Spec
CONSTANTS
    overview = overview
    summaryCall = summaryCall
    again = again
    summary = summary
    byService = byService
    Calls = {overview, summaryCall}
    Keys = {summary, byService}
    HttpOf <- Separate
    Reads <- TwoReads
INVARIANTS NoteTruthful
CHECK_DEADLOCK FALSE
