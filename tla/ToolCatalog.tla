------------------------------- MODULE ToolCatalog -------------------------------
(***************************************************************************)
(* The tools of the gateway, one definition each: what its manifest        *)
(* declares, what its input schema admits, and which AWS clients its       *)
(* handler calls, in strands that run at the same time.  And the clients:  *)
(* the requests each makes, in order, and what its cache key is made of.   *)
(***************************************************************************)
EXTENDS Integers, Sequences

-----------------------------------------------------------------------------
(* The steps of a client.                                                  *)

\* A step makes requests.  If one fails, so does the client, unless the step is
\* only tried; AWS may deny what is optional; what is absent may be an error like
\* any other, or it is kept as an answer; a step may be left out; and a fan asks
\* every region and takes what it gets.
Step(how, where, asks) == [how |-> how, where |-> where, asks |-> asks]

Must(asks) == Step("must", "asked", asks)
Kept(asks) == Step("kept", "asked", asks)
Maybe(asks) == Step("maybe", "asked", asks)
Fan(asks) == Step("fan", "asked", asks)

\* What is asked where the service or the bucket is, and not where the call says.
Global(step) == [step EXCEPT !.where = "us-east-1"]
OwnRegion(step) == [step EXCEPT !.where = "own"]
InBucketRegion(asks) == Step("optional", "bucket", asks)

\* A client whose answers are cached: the parameters its key is made of, and
\* those its requests and its answer are made of.  "times" is the time it is called.
Cached(keyed, made, steps) == [cached |-> TRUE, keyed |-> keyed, made |-> made, steps |-> steps]

\* The names, prefixes, patterns and filters of a call are its "name".
Named == {"regions", "name"}

listInstances == Cached(Named, Named, <<Fan({"ec2:DescribeInstances"})>>)

listFunctionsOfAnyLimit ==
    Cached({"regions"}, {"regions", "limit"}, <<Fan({"lambda:ListFunctions"})>>)

listFunctions ==
    Cached({"regions", "limit"}, {"regions", "limit"}, <<Fan({"lambda:ListFunctions"})>>)

listAlarms == Cached(Named, Named, <<Fan({"cloudwatch:DescribeAlarms"})>>)

summarizeAlarms ==
    Cached(Named \cup {"limit"}, Named \cup {"limit"}, <<Must({"cloudwatch:DescribeAlarms"})>>)

listBuckets == Cached({"limit"}, {"limit"}, <<Global(Must({"s3:ListAllMyBuckets"}))>>)

\* A tool with a default pattern of its own has keys of its own.
filterLogEvents ==
    Cached(Named \cup {"tool", "limit", "hours", "times"},
           Named \cup {"tool", "limit", "hours", "times"},
           <<Must({"logs:FilterLogEvents"})>>)

describeLogStreams == Cached(Named, Named, <<Kept({"logs:DescribeLogStreams"})>>)

describeLogGroups ==
    Cached(Named \cup {"limit"}, Named \cup {"limit"}, <<Must({"logs:DescribeLogGroups"})>>)

assertClusterExists == Must({"ecs:DescribeClusters"})

getServiceHealthWithTasks ==
    Cached(Named, Named,
           <<assertClusterExists, Must({"ecs:DescribeServices"}), Must({"ecs:ListTasks"})>>)

getServiceHealth == Cached(Named, Named, <<assertClusterExists, Must({"ecs:DescribeServices"})>>)

\* No tasks: an answer without items, which is stored as well.
collectTaskArns == Kept({"ecs:ListTasks"})

listEcsTasks ==
    Cached(Named \cup {"limit"}, Named \cup {"limit"},
           <<assertClusterExists, collectTaskArns, Must({"ecs:DescribeTasks"})>>)

\* The tasks that stopped since a cutoff, which the key does not have.
getRecentStoppedEcsTasks ==
    Cached(Named \cup {"limit", "hours"}, Named \cup {"limit", "hours", "times"},
           <<assertClusterExists, collectTaskArns, Must({"ecs:DescribeTasks"})>>)

\* Its last step is a client of its own, with an entry of its own in the cache.
compareServiceImageWithEcr ==
    Cached(Named, Named,
           <<assertClusterExists, Must({"ecs:DescribeServices"}),
             Must({"ecs:DescribeTaskDefinition"}), Must({"ecs:ListTasks"}),
             Maybe({"ecs:DescribeTasks"}),
             Must({"ecr:DescribeImages", "ecr:DescribeImageScanFindings",
                   "ecr:GetLifecyclePolicy"})>>)

getImageStatus ==
    Cached(Named, Named,
           <<Kept({"ecr:DescribeImages"}), Maybe({"ecr:DescribeImageScanFindings"}),
             Must({"ecr:GetLifecyclePolicy"})>>)

\* Made anew by every call.
assertInstanceExists ==
    [cached |-> FALSE, keyed |-> Named, made |-> Named,
     steps |-> <<Must({"rds:DescribeDBInstances"})>>]

getInstanceHealth ==
    Cached(Named, Named,
           <<Must({"rds:DescribeDBInstances"}), Maybe({"rds:DescribeDBSubnetGroups"})>>)

\* From a start to an end, which the key does not have.
getRdsInstanceMetrics ==
    Cached(Named \cup {"hours"}, Named \cup {"hours", "times"},
           <<Must({"cloudwatch:GetMetricData"})>>)

checkParameterInventory ==
    Cached(Named \cup {"tool"}, Named \cup {"tool"}, <<Must({"ssm:DescribeParameters"})>>)

\* Its metrics are those up to the time they are asked for.
getBucketPosture ==
    Cached(Named, Named \cup {"times"},
           <<Kept({"s3:GetBucketLocation"}),
             InBucketRegion({"s3:GetBucketPublicAccessBlock", "s3:GetBucketEncryption",
                             "s3:GetBucketVersioning", "s3:GetLifecycleConfiguration",
                             "s3:GetBucketPolicyStatus"}),
             Step("tried", "bucket", {"cloudwatch:GetMetricData"})>>)

getConfigurationStatus ==
    Cached(Named, Named,
           <<Kept({"ses:GetConfigurationSet"}), Kept({"ses:GetConfigurationSetEventDestinations"})>>)

\* Given the ARN of a topic, no topics are listed.
getTopicStatusByName ==
    Cached(Named, Named,
           <<Kept({"sns:ListTopics"}),
             Kept({"sns:GetTopicAttributes", "sns:ListSubscriptionsByTopic"})>>)

getTopicStatusByArn ==
    Cached(Named, Named, <<Kept({"sns:GetTopicAttributes", "sns:ListSubscriptionsByTopic"})>>)

getRulesStatus ==
    Cached(Named \cup {"limit"}, Named \cup {"limit"},
           <<Must({"events:ListRules"}), Maybe({"events:DescribeRule", "events:ListTargetsByRule"}),
             Must({"scheduler:ListSchedules"}), Maybe({"scheduler:GetSchedule"})>>)

getBudgetStatus ==
    Cached({"name"}, {"name"},
           <<Global(Kept({"budgets:DescribeBudgets"})),
             Global(Kept({"budgets:DescribeNotificationsForBudget"})),
             Global(Step("maybeKept", "asked", {"budgets:DescribeSubscribersForNotification"}))>>)

getCostSummary ==
    Cached({"days", "name"}, {"days", "name"}, <<OwnRegion(Must({"ce:GetCostAndUsage"}))>>)

getCostByService ==
    Cached({"days", "name"}, {"days", "name"}, <<OwnRegion(Must({"ce:GetCostAndUsage"}))>>)

Client ==
    [listInstances |-> listInstances, listFunctions |-> listFunctions,
     listAlarms |-> listAlarms, summarizeAlarms |-> summarizeAlarms,
     listBuckets |-> listBuckets, filterLogEvents |-> filterLogEvents,
     describeLogStreams |-> describeLogStreams, describeLogGroups |-> describeLogGroups,
     getServiceHealth |-> getServiceHealth, listEcsTasks |-> listEcsTasks,
     getRecentStoppedEcsTasks |-> getRecentStoppedEcsTasks,
     compareServiceImageWithEcr |-> compareServiceImageWithEcr,
     getImageStatus |-> getImageStatus, assertInstanceExists |-> assertInstanceExists,
     getInstanceHealth |-> getInstanceHealth, getRdsInstanceMetrics |-> getRdsInstanceMetrics,
     checkParameterInventory |-> checkParameterInventory, getBucketPosture |-> getBucketPosture,
     getConfigurationStatus |-> getConfigurationStatus,
     getTopicStatusByName |-> getTopicStatusByName, getTopicStatusByArn |-> getTopicStatusByArn,
     getRulesStatus |-> getRulesStatus, getBudgetStatus |-> getBudgetStatus,
     getCostSummary |-> getCostSummary, getCostByService |-> getCostByService]

AsksOf(c) == UNION {Client[c].steps[i].asks : i \in DOMAIN Client[c].steps}

-----------------------------------------------------------------------------
(* The tools.                                                              *)

\* What a handler reads: with which client, if the call names this part of the
\* answer, and whether once for each region.
Read(client) == [client |-> client, part |-> "always", each |-> FALSE]
IfAsked(part, client) == [Read(client) EXCEPT !.part = part]
EachRegion(part, client) == [IfAsked(part, client) EXCEPT !.each = TRUE]

\* A tool of the gateway itself.
Local(pack, kind) ==
    [pack |-> pack, kind |-> kind, region |-> "none", class |-> "free", ttl |-> 0, minTtl |-> 0,
     capabilities |-> {}, strands |-> <<>>, parts |-> {}, usual |-> {}, sections |-> {}, named |-> FALSE,
     limit |-> 0, days |-> 0, results |-> 0, hours |-> 0, topLimit |-> 0, topHours |-> 0]

\* A tool that reads AWS.  Its region is the gateway's own; that of the call, or
\* else the own; that of the call; us-east-1; any number of the allowed ones; or
\* none, for a service that has none.
Aws(pack, region, class, ttl, capabilities, strands) ==
    [Local(pack, "aws-readonly") EXCEPT
        !.region = region, !.class = class, !.ttl = ttl, !.minTtl = ttl,
        !.capabilities = capabilities, !.strands = strands, !.named = TRUE]

\* A call may set a limit up to a maximum, which the schema and the policy share.
Limited(tool, default, max) ==
    [tool EXCEPT !.limit = default, !.results = max, !.topLimit = max]

\* The same for the hours to look back.
LookingBack(tool, max) == [tool EXCEPT !.hours = max, !.topHours = max]

\* Only the schema, or the client, bounds the limit or the hours.
SchemaLimited(tool, default, max) == [tool EXCEPT !.limit = default, !.topLimit = max]
SchemaLookingBack(tool, max) == [tool EXCEPT !.topHours = max]

search == Local("core", "chatgpt-discovery")
fetch == Local("core", "chatgpt-discovery")
get_gateway_status == Local("core", "local-status")

Dated(tool) == [tool EXCEPT !.days = 90]

get_aws_cost_summary ==
    Dated(Aws("cost", "own", "paid", 1800, {"ce:GetCostAndUsage"}, <<<<Read("getCostSummary")>>>>))

\* Its limit cuts the answer after it was cached.
get_aws_cost_by_service ==
    Dated(Limited(Aws("cost", "own", "paid", 1800, {"ce:GetCostAndUsage"},
                      <<<<Read("getCostByService")>>>>), 10, 25))

get_budget_status ==
    Aws("cost", "us-east-1", "low", 300,
        {"budgets:DescribeBudgets", "budgets:DescribeNotificationsForBudget",
         "budgets:DescribeSubscribersForNotification"}, <<<<Read("getBudgetStatus")>>>>)

list_ec2_instances ==
    Aws("inventory", "allowed", "fanout-sensitive", 300, {"ec2:DescribeInstances"},
        <<<<Read("listInstances")>>>>)

list_lambda_functions ==
    Limited(Aws("inventory", "allowed", "fanout-sensitive", 300, {"lambda:ListFunctions"},
                <<<<Read("listFunctions")>>>>), 100, 100)

list_s3_buckets ==
    Limited(Aws("inventory", "global", "low", 300, {"s3:ListAllMyBuckets"},
                <<<<Read("listBuckets")>>>>), 100, 100)

EcrCapabilities ==
    {"ecr:DescribeImages", "ecr:DescribeImageScanFindings", "ecr:GetLifecyclePolicy"}

get_ecr_image_status ==
    Aws("inventory", "argument", "low", 300, EcrCapabilities, <<<<Read("getImageStatus")>>>>)

compare_ecs_task_image_with_ecr ==
    Aws("inventory", "argument", "low", 300,
        {"ecs:DescribeClusters", "ecs:DescribeServices", "ecs:DescribeTaskDefinition",
         "ecs:ListTasks", "ecs:DescribeTasks"} \cup EcrCapabilities,
        <<<<Read("compareServiceImageWithEcr")>>>>)

get_cloudwatch_alarms ==
    Aws("observability", "allowed", "fanout-sensitive", 300, {"cloudwatch:DescribeAlarms"},
        <<<<Read("listAlarms")>>>>)

get_cloudwatch_alarm_summary ==
    Limited(Aws("observability", "argument", "fanout-sensitive", 300,
                {"cloudwatch:DescribeAlarms"}, <<<<Read("summarizeAlarms")>>>>), 50, 100)

\* If a prefix of streams is given it is looked for first.  The look-back is in
\* minutes, so that the policy's bound of hours does not see it.
get_cloudwatch_logs ==
    [SchemaLookingBack(Limited(Aws("observability", "argument", "volume-sensitive", 300,
        {"logs:FilterLogEvents", "logs:DescribeLogStreams"},
        <<<<IfAsked("prefix", "describeLogStreams"), Read("filterLogEvents")>>>>), 20, 50), 24)
     EXCEPT !.parts = {"prefix"}]

get_recent_log_errors ==
    LookingBack(Limited(Aws("observability", "required", "volume-sensitive", 300,
        {"logs:FilterLogEvents"}, <<<<Read("filterLogEvents")>>>>), 20, 50), 24)

list_log_groups ==
    Limited(Aws("observability", "required", "volume-sensitive", 300, {"logs:DescribeLogGroups"},
                <<<<Read("describeLogGroups")>>>>), 100, 100)

get_ecs_service_health ==
    Aws("observability", "argument", "low", 300, {"ecs:DescribeClusters", "ecs:DescribeServices"},
        <<<<Read("getServiceHealth")>>>>)

list_ecs_tasks ==
    Limited(Aws("observability", "argument", "volume-sensitive", 300,
        {"ecs:ListTasks", "ecs:DescribeTasks"}, <<<<Read("listEcsTasks")>>>>), 100, 100)

get_recent_stopped_ecs_tasks ==
    SchemaLookingBack(Limited(Aws("observability", "argument", "volume-sensitive", 300,
        {"ecs:ListTasks", "ecs:DescribeTasks"}, <<<<Read("getRecentStoppedEcsTasks")>>>>),
        100, 100), 24)

get_rds_instance_health ==
    Aws("database", "argument", "low", 300,
        {"rds:DescribeDBInstances", "rds:DescribeDBSubnetGroups"}, <<<<Read("getInstanceHealth")>>>>)

\* In minutes, too.
get_rds_metrics ==
    SchemaLookingBack(Aws("database", "argument", "volume-sensitive", 300,
        {"rds:DescribeDBInstances", "cloudwatch:GetMetricData"},
        <<<<Read("assertInstanceExists"), Read("getRdsInstanceMetrics")>>>>), 24)

aws_account_overview ==
    [Aws("aggregates", "allowed", "fanout-sensitive", 300,
        {"ec2:DescribeInstances", "lambda:ListFunctions", "s3:ListAllMyBuckets"},
        <<<<IfAsked("ec2", "listInstances")>>, <<IfAsked("lambda", "listFunctions")>>,
          <<IfAsked("s3", "listBuckets")>>>>)
     EXCEPT !.parts = {"ec2", "lambda", "s3"}, !.usual = {"ec2"}, !.limit = 100, !.named = FALSE]

aws_cost_overview ==
    Dated(Limited(Aws("aggregates", "own", "paid", 1800, {"ce:GetCostAndUsage"},
        <<<<Read("getCostSummary")>>, <<Read("getCostByService")>>>>), 10, 25))

aws_observability_overview ==
    [Limited(Aws("aggregates", "allowed", "fanout-sensitive", 300,
        {"cloudwatch:DescribeAlarms", "logs:DescribeLogGroups"},
        <<<<IfAsked("alarms", "listAlarms")>>, <<EachRegion("logGroups", "describeLogGroups")>>>>),
        5, 100)
     EXCEPT !.parts = {"alarms", "logGroups"}, !.usual = {"alarms"}, !.named = FALSE]

Security(capabilities, client) ==
    Aws("security", "argument", "low", 300, capabilities, <<<<Read(client)>>>>)

check_ssm_parameter_inventory == Security({"ssm:DescribeParameters"}, "checkParameterInventory")

get_s3_bucket_posture ==
    Security({"s3:GetBucketLocation", "s3:GetBucketPublicAccessBlock", "s3:GetBucketEncryption",
              "s3:GetBucketVersioning", "s3:GetLifecycleConfiguration",
              "s3:GetBucketPolicyStatus", "cloudwatch:GetMetricData"}, "getBucketPosture")

get_ses_configuration_status ==
    Security({"ses:GetConfigurationSet", "ses:GetConfigurationSetEventDestinations"},
             "getConfigurationStatus")

\* The topic is given by its name, or by its ARN.
get_sns_topic_status ==
    [Security({"sns:ListTopics", "sns:GetTopicAttributes", "sns:ListSubscriptionsByTopic"},
              "getTopicStatusByName")
     EXCEPT !.parts = {"topicName", "topicArn"}, !.usual = {"topicName"},
            !.strands = <<<<IfAsked("topicName", "getTopicStatusByName"),
                            IfAsked("topicArn", "getTopicStatusByArn")>>>>]

get_eventbridge_rules_status ==
    SchemaLimited(Security({"events:ListRules", "events:DescribeRule", "events:ListTargetsByRule",
                            "scheduler:ListSchedules", "scheduler:GetSchedule"},
                           "getRulesStatus"), 25, 50)

-----------------------------------------------------------------------------
(* The application-ops tools: ApplicationOps has what their sections do.   *)

\* The clients each section of an application may call.
SectionClients ==
    [compute |-> {"getServiceHealth", "listEcsTasks"}, database |-> {"getInstanceHealth"},
     logs |-> {"filterLogEvents"}, ssm |-> {"checkParameterInventory"},
     artifacts |-> {"compareServiceImageWithEcr", "getImageStatus"},
     s3 |-> {"getBucketPosture"}, ses |-> {"getConfigurationStatus"},
     alerting |-> {"summarizeAlarms", "getTopicStatusByName", "getTopicStatusByArn",
                   "getRulesStatus"},
     budget |-> {"getBudgetStatus"}]

SectionCapabilities ==
    [compute |-> {"ecs:DescribeClusters", "ecs:DescribeServices", "ecs:ListTasks",
                  "ecs:DescribeTasks"},
     database |-> {"rds:DescribeDBInstances", "rds:DescribeDBSubnetGroups"},
     logs |-> {"logs:FilterLogEvents"},
     ssm |-> {"ssm:DescribeParameters"},
     artifacts |-> {"ecs:DescribeClusters", "ecs:DescribeServices", "ecs:DescribeTaskDefinition",
                    "ecs:ListTasks", "ecs:DescribeTasks"} \cup EcrCapabilities,
     s3 |-> {"s3:GetBucketLocation", "s3:GetBucketPublicAccessBlock", "s3:GetBucketEncryption",
             "s3:GetBucketVersioning", "s3:GetLifecycleConfiguration", "s3:GetBucketPolicyStatus"},
     ses |-> {"ses:GetConfigurationSet", "ses:GetConfigurationSetEventDestinations"},
     alerting |-> {"sns:ListTopics", "sns:GetTopicAttributes", "sns:ListSubscriptionsByTopic",
                   "events:ListRules", "events:DescribeRule", "events:ListTargetsByRule",
                   "scheduler:ListSchedules", "scheduler:GetSchedule",
                   "cloudwatch:DescribeAlarms"},
     budget |-> {"budgets:DescribeBudgets", "budgets:DescribeNotificationsForBudget",
                 "budgets:DescribeSubscribersForNotification"}]

Application(region, sections) ==
    [Aws("application-ops", region, "fanout-sensitive", 300,
         (UNION {SectionCapabilities[s] : s \in sections}) \cup {"sts:AssumeRole"}, <<>>)
     EXCEPT !.sections = sections, !.named = FALSE]

list_application_profiles == [Local("application-ops", "local-status") EXCEPT !.ttl = 60]
get_application_environment_overview == Application("own", DOMAIN SectionClients)
get_application_compute_status == Application("own", {"compute"})
get_application_database_status == Application("own", {"database"})
get_application_logs == LookingBack(Limited(Application("own", {"logs"}), 20, 50), 24)
get_application_secret_inventory == Application("own", {"ssm"})
get_application_artifact_status == Application("own", {"artifacts"})
get_application_alerting_status == Application("own", {"alerting"})
get_application_cost_status == Application("us-east-1", {"budget"})

\* createToolManifests.
Tool ==
    [search |-> search, fetch |-> fetch, get_gateway_status |-> get_gateway_status,
     get_aws_cost_summary |-> get_aws_cost_summary,
     get_aws_cost_by_service |-> get_aws_cost_by_service,
     list_ec2_instances |-> list_ec2_instances, get_cloudwatch_alarms |-> get_cloudwatch_alarms,
     get_cloudwatch_logs |-> get_cloudwatch_logs,
     get_cloudwatch_alarm_summary |-> get_cloudwatch_alarm_summary,
     get_recent_log_errors |-> get_recent_log_errors,
     list_lambda_functions |-> list_lambda_functions, list_s3_buckets |-> list_s3_buckets,
     list_log_groups |-> list_log_groups, aws_account_overview |-> aws_account_overview,
     aws_cost_overview |-> aws_cost_overview,
     aws_observability_overview |-> aws_observability_overview,
     get_ecs_service_health |-> get_ecs_service_health, list_ecs_tasks |-> list_ecs_tasks,
     get_recent_stopped_ecs_tasks |-> get_recent_stopped_ecs_tasks,
     get_rds_instance_health |-> get_rds_instance_health, get_rds_metrics |-> get_rds_metrics,
     check_ssm_parameter_inventory |-> check_ssm_parameter_inventory,
     get_ecr_image_status |-> get_ecr_image_status,
     compare_ecs_task_image_with_ecr |-> compare_ecs_task_image_with_ecr,
     get_s3_bucket_posture |-> get_s3_bucket_posture,
     get_ses_configuration_status |-> get_ses_configuration_status,
     get_sns_topic_status |-> get_sns_topic_status,
     get_eventbridge_rules_status |-> get_eventbridge_rules_status,
     get_budget_status |-> get_budget_status,
     list_application_profiles |-> list_application_profiles,
     get_application_environment_overview |-> get_application_environment_overview,
     get_application_compute_status |-> get_application_compute_status,
     get_application_database_status |-> get_application_database_status,
     get_application_logs |-> get_application_logs,
     get_application_secret_inventory |-> get_application_secret_inventory,
     get_application_artifact_status |-> get_application_artifact_status,
     get_application_alerting_status |-> get_application_alerting_status,
     get_application_cost_status |-> get_application_cost_status]

Tools == DOMAIN Tool

Packs == {Tool[t].pack : t \in Tools}

DefaultPacks == {"core", "cost", "inventory", "observability", "database"}
=============================================================================
