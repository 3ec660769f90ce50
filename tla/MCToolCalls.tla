------------------------------ MODULE MCToolCalls ------------------------------
(***************************************************************************)
(* Instances of ToolCalls for TLC.                                         *)
(***************************************************************************)
EXTENDS ToolCalls

CONSTANTS c1, c2

\* Calls are told apart by their tools only.
Interchangeable == Permutations(Calls)

SomeRegionLists ==
    {<<>>, <<"us-west-2">>, <<"us-west-2", "us-east-1">>, <<"us-west-2", "us-west-2">>,
     <<"us-west-2", "eu-west-1">>}

\* All is exposed and allowed.
Open ==
    [own |-> "us-west-2", allowed |-> <<"us-east-1", "us-west-2">>, packs |-> Packs,
     enabled |-> {}, disabled |-> {}, granted |-> TRUE, cache |-> TRUE]

\* One region; the default packs and one more without some tools; some tools only;
\* no scope; no cache.
Narrow ==
    {[Open EXCEPT !.allowed = <<"us-west-2">>],
     [Open EXCEPT !.packs = DefaultPacks \cup {"aggregates"},
                  !.disabled = {"list_s3_buckets", "get_cloudwatch_alarms"}],
     [Open EXCEPT !.enabled = {"fetch", "list_ec2_instances", "get_budget_status"}],
     [Open EXCEPT !.granted = FALSE], [Open EXCEPT !.cache = FALSE]}

Of(d, t1, t2) == [deployment |-> d, tools |-> (c1 :> t1 @@ c2 :> t2)]

\* Two calls of a tool.
Twice(tools) == {Of(Open, {t}, {t}) : t \in tools}

Overviews == {"aws_account_overview", "aws_observability_overview", "aws_cost_overview"}

\* An overview and a tool that shares the entries of a client with it.
Shared ==
    {Of(Open, {"aws_account_overview"}, {"list_s3_buckets"}),
     Of(Open, {"aws_observability_overview"}, {"get_cloudwatch_alarms"}),
     Of(Open, {"aws_observability_overview"}, {"list_log_groups"}),
     Of(Open, {"aws_cost_overview"}, {"get_aws_cost_summary", "get_aws_cost_by_service"}),
     Of(Open, {"get_cloudwatch_logs"}, {"get_recent_log_errors"})}

SomeEnvironments ==
    Twice(Tools \ Overviews) \cup Shared \cup {Of(d, {t}, {}) : d \in Narrow, t \in Tools}
===============================================================================
