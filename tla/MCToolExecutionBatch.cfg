\* Two calls in one JSON-RPC batch share a collector.
SPECIFICATION Spec
CONSTANTS
    overview = overview
    summaryCall = summaryCall
    again = again
    summary = summary
    byService = byService
    Calls = {summaryCall, again}
    Keys = {summary, byService}
    HttpOf <- Batched
    Reads <- TwoReads
INVARIANTS ReportAccurate
CHECK_DEADLOCK FALSE
