--------------------------- MODULE MCToolExecution ----------------------------
(***************************************************************************)
(* Instances of ToolExecution for TLC: aws_cost_overview and two calls of  *)
(* get_aws_cost_summary, in HTTP requests of their own and in a batch.     *)
(***************************************************************************)
EXTENDS ToolExecution, TLC

CONSTANTS overview, summaryCall, again,   \* the calls
          summary, byService              \* the two Cost Explorer queries

TwoReads == [c \in Calls |-> IF c = overview THEN {summary, byService} ELSE {summary}]

\* Each call in an HTTP request of its own.
Separate == [c \in Calls |-> c]

\* The two summaries in one JSON-RPC batch, the overview in an HTTP request of its
\* own.
Batched == [c \in Calls |-> IF c = overview THEN "alone" ELSE "batch"]
=============================================================================
