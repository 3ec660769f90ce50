\* Two calls in one batch and another in an HTTP request of its own, over one KV.
SPECIFICATION FairSpec
CONSTANTS
    overview = overview
    summaryCall = summaryCall
    again = again
    summary = summary
    byService = byService
    Calls = {overview, summaryCall, again}
    Keys = {summary, byService}
    HttpOf <- Batched
    Reads <- TwoReads
INVARIANTS TypeOK AloneAccurate ChargeExplained HitIsFree CostCovered
PROPERTIES CallsSettle
CHECK_DEADLOCK FALSE
