---------------------------- MODULE ToolCallsProofs ----------------------------
(***************************************************************************)
(* Proofs about ToolCalls, for any calls, regions, names, deployments and  *)
(* durations: the tools and their clients are those of ToolCatalog, and    *)
(* what is said of each of them is proved one by one.                      *)
(***************************************************************************)
EXTENDS ToolCalls, FiniteSetTheorems, WellFoundedInduction, TLAPS

-----------------------------------------------------------------------------
(* Sequences.  Induction is by the least number a statement fails for.     *)

Less == {ss \in Nat \X Nat : ss[1] < ss[2]}

LEMMA LessWF == IsWellFoundedOn(Less, Nat)
BY NatLessThanWellFounded DEF OpToRel, Less

\* Numbers have a least one.
LEMMA Least ==
    ASSUME NEW T, T \subseteq Nat, T # {}
    PROVE  \E m \in T : \A k \in T : m <= k
<1>1. PICK m \in T : \A k \in T : ~ (<<k, m>> \in Less)
  BY WFMin, LessWF
<1>2. \A k \in T : ~ (k < m)
  BY <1>1 DEF Less
<1> QED
  BY <1>2

\* Sequences over a set, one after the other, are a sequence over it.
LEMMA ConcatIn ==
    ASSUME NEW S, NEW a \in Seq(S), NEW b \in Seq(S)
    PROVE  a \o b \in Seq(S)
OBVIOUS

\* The prefixes of a flattened sequence, up to the m-th of its parts.
StepPrefixes(s, m, g) == \A i \in 1..m : g[i] = IF i = 1 THEN s[i] ELSE g[i-1] \o s[i]

\* And so are any number of them.
LEMMA FlattenSeqIn ==
    ASSUME NEW S, NEW s \in Seq(Seq(S))
    PROVE  FlattenSeq(s) \in Seq(S)
<1> DEFINE E(g) == g = [i \in 1..Len(s) |-> IF i = 1 THEN s[i] ELSE g[i-1] \o s[i]]
<1> DEFINE f == CHOOSE g : E(g)
<1>1. CASE Len(s) = 0
  <2>1. s = <<>> /\ s \in Seq(S)
    BY <1>1
  <2> QED
    BY <2>1, <1>1 DEF FlattenSeq
<1>2. CASE Len(s) # 0
  <2>0. Len(s) \in Nat /\ \A i \in 1..Len(s) : s[i] \in Seq(S)
    OBVIOUS
  <2>1. \A m \in 1..Len(s) : \E g \in [1..m -> Seq(S)] : StepPrefixes(s, m, g)
    <3> DEFINE T == {m \in 1..Len(s) : ~\E g \in [1..m -> Seq(S)] : StepPrefixes(s, m, g)}
    <3> SUFFICES ASSUME T # {} PROVE FALSE
      OBVIOUS
    <3>1. PICK m \in T : \A k \in T : m <= k
      <4>1. T \subseteq Nat
        BY <2>0
      <4> HIDE DEF T
      <4> QED
        BY <4>1, Least
    <3>2. CASE m = 1
      <4> DEFINE g == [i \in 1..1 |-> s[1]]
      <4>1. g \in [1..1 -> Seq(S)] /\ StepPrefixes(s, 1, g)
        BY <2>0, <1>2 DEF StepPrefixes
      <4> QED
        BY <4>1, <3>2
    <3>3. CASE m # 1
      <4>0. m \in 1..Len(s)
        BY <3>1
      <4>1. m - 1 \in 1..Len(s) /\ m - 1 \notin T /\ m \in 1..Len(s)
        <5>1. m - 1 \in 1..Len(s) /\ ~(m <= m - 1)
          BY <4>0, <3>3, <2>0
        <5> HIDE DEF T
        <5> QED
          BY <5>1, <4>0, <3>1
      <4>2. PICK h \in [1..(m-1) -> Seq(S)] : StepPrefixes(s, m - 1, h)
        BY <4>1
      <4> DEFINE g == [i \in 1..m |-> IF i = m THEN h[m-1] \o s[m] ELSE h[i]]
      <4>3. h[m-1] \o s[m] \in Seq(S)
        BY <4>1, <2>0, ConcatIn
      <4>4. g \in [1..m -> Seq(S)]
        BY <4>1, <4>3, <2>0
      <4>5. ASSUME NEW i \in 1..m PROVE g[i] = IF i = 1 THEN s[i] ELSE g[i-1] \o s[i]
        <5>1. CASE i = m
          <6>1. g[i] = h[m-1] \o s[m] /\ m - 1 \in 1..m /\ g[i-1] = h[i-1]
            <7>1. m \in 1..m /\ m - 1 \in 1..m /\ m - 1 # m
              BY <4>1, <3>3, <2>0
            <7>2. g[m] = h[m-1] \o s[m] /\ g[m-1] = h[m-1]
              BY <7>1
            <7> HIDE DEF g
            <7> QED
              BY <5>1, <7>1, <7>2
          <6> QED
            BY <6>1, <5>1, <3>3
        <5>2. CASE i # m
          <6>1. i \in 1..(m-1) /\ g[i] = h[i] /\ (i # 1 => g[i-1] = h[i-1])
            BY <5>2, <4>1, <2>0
          <6> QED
            BY <6>1, <4>2 DEF StepPrefixes
        <5> QED
          BY <5>1, <5>2
      <4>6. StepPrefixes(s, m, g)
        BY <4>5 DEF StepPrefixes
      <4> QED
        BY <4>4, <4>6, <3>1
    <3> QED
      BY <3>2, <3>3
  <2>2. PICK g \in [1..Len(s) -> Seq(S)] : StepPrefixes(s, Len(s), g)
    BY <2>1, <2>0, <1>2
  <2>3. E(g)
    BY Zenon, <2>2 DEF StepPrefixes
  <2>4. E(f)
    BY Zenon, <2>3
  <2>5. DOMAIN f = 1..Len(s) /\ StepPrefixes(s, Len(s), f)
    <3> HIDE DEF f
    <3> QED
      BY <2>4 DEF StepPrefixes
  <2>6. \A i \in 1..Len(s) : f[i] \in Seq(S)
    <3> DEFINE T == {m \in 1..Len(s) : f[m] \notin Seq(S)}
    <3> SUFFICES ASSUME T # {} PROVE FALSE
      OBVIOUS
    <3> HIDE DEF f
    <3>1. PICK m \in T : \A k \in T : m <= k
      <4>1. T \subseteq Nat
        BY <2>0
      <4> HIDE DEF T
      <4> QED
        BY <4>1, Least
    <3>2. m \in 1..Len(s) /\ (m # 1 => m - 1 \in 1..Len(s) /\ f[m-1] \in Seq(S))
      BY <3>1, <2>0
    <3>3. f[m] = IF m = 1 THEN s[m] ELSE f[m-1] \o s[m]
      BY <3>2, <2>5 DEF StepPrefixes
    <3>4. f[m] \in Seq(S)
      BY <3>2, <3>3, <2>0, ConcatIn
    <3> QED
      BY <3>4, <3>1
  <2>7. FlattenSeq(s) = f[Len(s)]
    BY <1>2 DEF FlattenSeq
  <2>8. Len(s) \in 1..Len(s)
    BY <2>0, <1>2
  <2> HIDE DEF f
  <2> QED
    BY <2>6, <2>7, <2>8
<1> QED
  BY <1>1, <1>2

-----------------------------------------------------------------------------
(* The clients.                                                            *)

ParamNames == {"regions", "name", "limit", "hours", "days", "times", "tool"}

\* A step that goes on without an answer, and one that takes what is absent for
\* its answer.
Lossy(step) == step.how \in {"optional", "tried"}
Keeping(step) == step.how \in {"kept", "maybeKept"}

\* The IAM policy grants the request; if it is made in us-east-1 whatever the call
\* says, that is where its service is.
Grantable(step, x) ==
    /\ IamAction(x) \in ReadonlyPolicy
    /\ step.where = "us-east-1" => IamAction(x) \in {"s3:ListAllMyBuckets", "budgets:ViewBudget"}

\* After a step that may lose something, a client finds nothing absent.
StepsOK(steps) ==
    /\ Len(steps) \in Nat \ {0} /\ DOMAIN steps = 1..Len(steps)
    /\ \A i \in 1..Len(steps) : \A x \in steps[i].asks : Grantable(steps[i], x)
    /\ \A i, j \in 1..Len(steps) : i < j /\ Lossy(steps[i]) => ~Keeping(steps[j])

\* The key has all that the answer is made of, but for the time.
ClientOK(k) ==
    /\ k.made \subseteq k.keyed \cup {"times"} /\ k.keyed \subseteq ParamNames
    /\ StepsOK(k.steps)

LEMMA ClientsOK == \A k \in DOMAIN Client : ClientOK(Client[k])
<1> USE DEF ClientOK, StepsOK, Lossy, Keeping, Grantable, IamAction,
            ReadonlyPolicy, ParamNames, Cached, Named, Step
<1>1. /\ ClientOK(listInstances)
      /\ ClientOK(listFunctions)
      /\ ClientOK(listAlarms)
      /\ ClientOK(summarizeAlarms)
  BY DEF listInstances, listFunctions, listAlarms, summarizeAlarms, Fan, Must
<1>2. /\ ClientOK(listBuckets)
      /\ ClientOK(filterLogEvents)
      /\ ClientOK(describeLogStreams)
      /\ ClientOK(describeLogGroups)
  BY DEF listBuckets, filterLogEvents, describeLogStreams, describeLogGroups, Global, Kept,
         Must
<1>3. /\ ClientOK(getServiceHealth)
      /\ ClientOK(listEcsTasks)
      /\ ClientOK(getRecentStoppedEcsTasks)
      /\ ClientOK(compareServiceImageWithEcr)
  BY DEF getServiceHealth, listEcsTasks, getRecentStoppedEcsTasks,
         compareServiceImageWithEcr, Kept, Maybe, Must, assertClusterExists, collectTaskArns
<1>4. /\ ClientOK(getImageStatus)
      /\ ClientOK(assertInstanceExists)
      /\ ClientOK(getInstanceHealth)
      /\ ClientOK(getRdsInstanceMetrics)
  BY DEF getImageStatus, assertInstanceExists, getInstanceHealth, getRdsInstanceMetrics,
         Kept, Maybe, Must
<1>5. /\ ClientOK(checkParameterInventory)
      /\ ClientOK(getBucketPosture)
      /\ ClientOK(getConfigurationStatus)
      /\ ClientOK(getTopicStatusByName)
  BY DEF checkParameterInventory, getBucketPosture, getConfigurationStatus,
         getTopicStatusByName, InBucketRegion, Kept, Must
<1>6. /\ ClientOK(getTopicStatusByArn)
      /\ ClientOK(getRulesStatus)
      /\ ClientOK(getBudgetStatus)
      /\ ClientOK(getCostSummary)
  BY DEF getTopicStatusByArn, getRulesStatus, getBudgetStatus, getCostSummary, Global, Kept,
         Maybe, Must, OwnRegion
<1>7. /\ ClientOK(getCostByService)
  BY DEF getCostByService, Must, OwnRegion
<1> HIDE DEF ClientOK
<1> QED
  BY <1>1, <1>2, <1>3, <1>4, <1>5, <1>6, <1>7 DEF Client

\* What the clients ask for, by what they are about.
LEMMA InventoryAsks ==
    /\ AsksOf("listInstances") \subseteq {"ec2:DescribeInstances"}
    /\ AsksOf("listFunctions") \subseteq {"lambda:ListFunctions"}
    /\ AsksOf("listBuckets") \subseteq {"s3:ListAllMyBuckets"}
    /\ AsksOf("getImageStatus") \subseteq
           {"ecr:DescribeImageScanFindings", "ecr:DescribeImages", "ecr:GetLifecyclePolicy"}
BY DEF AsksOf, Client, listInstances, listFunctions, listBuckets, getImageStatus, Cached,
         Fan, Global, Kept, Maybe, Must, Named, Step

LEMMA ObservabilityAsks ==
    /\ AsksOf("listAlarms") \subseteq {"cloudwatch:DescribeAlarms"}
    /\ AsksOf("summarizeAlarms") \subseteq {"cloudwatch:DescribeAlarms"}
    /\ AsksOf("filterLogEvents") \subseteq {"logs:FilterLogEvents"}
    /\ AsksOf("describeLogStreams") \subseteq {"logs:DescribeLogStreams"}
    /\ AsksOf("describeLogGroups") \subseteq {"logs:DescribeLogGroups"}
BY DEF AsksOf, Client, listAlarms, summarizeAlarms, filterLogEvents, describeLogStreams,
         describeLogGroups, Cached, Fan, Kept, Must, Named, Step

LEMMA EcsAsks ==
    /\ AsksOf("getServiceHealth") \subseteq {"ecs:DescribeClusters", "ecs:DescribeServices"}
    /\ AsksOf("listEcsTasks") \subseteq {"ecs:DescribeClusters", "ecs:DescribeTasks",
                                         "ecs:ListTasks"}
    /\ AsksOf("getRecentStoppedEcsTasks") \subseteq
           {"ecs:DescribeClusters", "ecs:DescribeTasks", "ecs:ListTasks"}
BY DEF AsksOf, Client, getServiceHealth, listEcsTasks, getRecentStoppedEcsTasks, Cached,
         Kept, Must, Named, Step, assertClusterExists, collectTaskArns

LEMMA DatabasesAsks ==
    /\ AsksOf("assertInstanceExists") \subseteq {"rds:DescribeDBInstances"}
    /\ AsksOf("getInstanceHealth") \subseteq
           {"rds:DescribeDBInstances", "rds:DescribeDBSubnetGroups"}
    /\ AsksOf("getRdsInstanceMetrics") \subseteq {"cloudwatch:GetMetricData"}
BY DEF AsksOf, Client, assertInstanceExists, getInstanceHealth, getRdsInstanceMetrics,
         Cached, Maybe, Must, Named, Step

LEMMA SecurityAsks ==
    /\ AsksOf("checkParameterInventory") \subseteq {"ssm:DescribeParameters"}
    /\ AsksOf("getBucketPosture") \subseteq
           {"cloudwatch:GetMetricData", "s3:GetBucketEncryption", "s3:GetBucketLocation",
            "s3:GetBucketPolicyStatus", "s3:GetBucketPublicAccessBlock",
            "s3:GetBucketVersioning", "s3:GetLifecycleConfiguration"}
    /\ AsksOf("getConfigurationStatus") \subseteq
           {"ses:GetConfigurationSet", "ses:GetConfigurationSetEventDestinations"}
    /\ AsksOf("getTopicStatusByName") \subseteq
           {"sns:GetTopicAttributes", "sns:ListSubscriptionsByTopic", "sns:ListTopics"}
    /\ AsksOf("getTopicStatusByArn") \subseteq
           {"sns:GetTopicAttributes", "sns:ListSubscriptionsByTopic"}
    /\ AsksOf("getRulesStatus") \subseteq
           {"events:DescribeRule", "events:ListRules", "events:ListTargetsByRule",
            "scheduler:GetSchedule", "scheduler:ListSchedules"}
BY SMTT(30) DEF AsksOf, Client, checkParameterInventory, getBucketPosture, getConfigurationStatus,
         getTopicStatusByName, getTopicStatusByArn, getRulesStatus, Cached, InBucketRegion,
         Kept, Maybe, Must, Named, Step

LEMMA CostAsks ==
    /\ AsksOf("getBudgetStatus") \subseteq
           {"budgets:DescribeBudgets", "budgets:DescribeNotificationsForBudget",
            "budgets:DescribeSubscribersForNotification"}
    /\ AsksOf("getCostSummary") \subseteq {"ce:GetCostAndUsage"}
    /\ AsksOf("getCostByService") \subseteq {"ce:GetCostAndUsage"}
BY DEF AsksOf, Client, getBudgetStatus, getCostSummary, getCostByService, Cached, Global,
         Kept, Must, OwnRegion, Step

LEMMA ComparisonAsks ==
    AsksOf("compareServiceImageWithEcr") \subseteq
           {"ecr:DescribeImageScanFindings", "ecr:DescribeImages", "ecr:GetLifecyclePolicy",
            "ecs:DescribeClusters", "ecs:DescribeServices", "ecs:DescribeTaskDefinition",
            "ecs:DescribeTasks", "ecs:ListTasks"}
<1> DEFINE steps == Client["compareServiceImageWithEcr"].steps
<1>1. Client["compareServiceImageWithEcr"] = compareServiceImageWithEcr
  BY DEF Client
<1>2. DOMAIN steps = 1..6
  BY <1>1 DEF compareServiceImageWithEcr, Cached
<1>3. \A i \in 1..6 : steps[i].asks \subseteq
          {"ecr:DescribeImageScanFindings", "ecr:DescribeImages", "ecr:GetLifecyclePolicy",
           "ecs:DescribeClusters", "ecs:DescribeServices", "ecs:DescribeTaskDefinition",
           "ecs:DescribeTasks", "ecs:ListTasks"}
  BY <1>1 DEF compareServiceImageWithEcr, Cached, Step, Must, Maybe, assertClusterExists
<1> QED
  BY <1>2, <1>3 DEF AsksOf

-----------------------------------------------------------------------------
(* The tools.                                                              *)

ReadOK(read, declared) == read.client \in DOMAIN Client /\ AsksOf(read.client) \subseteq declared

StrandOK(strand, declared) ==
    /\ Len(strand) \in Nat /\ DOMAIN strand = 1..Len(strand)
    /\ \A r \in 1..Len(strand) : ReadOK(strand[r], declared)

StrandsOK(strands, declared) ==
    /\ Len(strands) \in Nat /\ DOMAIN strands = 1..Len(strands)
    /\ \A s \in 1..Len(strands) : StrandOK(strands[s], declared)

SectionsOK(tool, declared) ==
    tool.sections # {} =>
        /\ tool.strands = <<>> /\ "sts:AssumeRole" \in tool.capabilities
        /\ \A s \in tool.sections : \A k \in SectionClients[s] :
              k \in DOMAIN Client /\ AsksOf(k) \subseteq declared

\* The manifest is within the cost control, its bounds are those of the schema,
\* and if its region is us-east-1 the tool is about budgets.
ManifestOK(t, tool) ==
    /\ tool.kind = "aws-readonly" => tool.capabilities # {}
    /\ tool.kind = "aws-readonly" <=> tool.class # "free"
    /\ tool.class \in {"paid", "volume-sensitive", "fanout-sensitive"} =>
          tool.minTtl > 0 /\ tool.ttl >= tool.minTtl
    /\ tool.days \in {0, 90}
    /\ tool.results > 0 => tool.topLimit = tool.results
    /\ tool.hours > 0 => tool.topHours = tool.hours
    /\ tool.region = "us-east-1" => t \in {"get_budget_status", "get_application_cost_status"}

ToolOK(t, tool) ==
    /\ ManifestOK(t, tool)
    /\ StrandsOK(tool.strands, tool.capabilities \cup Undeclared(t))
    /\ SectionsOK(tool, tool.capabilities \cup Undeclared(t))

LEMMA ToolsOK == \A t \in Tools : ToolOK(t, Tool[t])
<1>0. DOMAIN Client =
        {"listInstances", "listFunctions", "listAlarms", "summarizeAlarms", "listBuckets",
         "filterLogEvents", "describeLogStreams", "describeLogGroups", "getServiceHealth",
         "listEcsTasks", "getRecentStoppedEcsTasks", "compareServiceImageWithEcr",
         "getImageStatus", "assertInstanceExists", "getInstanceHealth",
         "getRdsInstanceMetrics", "checkParameterInventory", "getBucketPosture",
         "getConfigurationStatus", "getTopicStatusByName", "getTopicStatusByArn",
         "getRulesStatus", "getBudgetStatus", "getCostSummary", "getCostByService"}
  BY DEF Client
<1> USE DEF ToolOK, ManifestOK, StrandsOK, StrandOK, ReadOK, SectionsOK, Undeclared
<1>1. ToolOK("search", search)
  BY DEF Local, search
<1>2. ToolOK("fetch", fetch)
  BY DEF Local, fetch
<1>3. ToolOK("get_gateway_status", get_gateway_status)
  BY DEF Local, get_gateway_status
<1>4. ToolOK("get_aws_cost_summary", get_aws_cost_summary)
  BY <1>0, CostAsks DEF Aws, Dated, Local, Read, get_aws_cost_summary
<1>5. ToolOK("get_aws_cost_by_service", get_aws_cost_by_service)
  BY <1>0, CostAsks DEF Aws, Dated, Limited, Local, Read, get_aws_cost_by_service
<1>6. ToolOK("list_ec2_instances", list_ec2_instances)
  BY <1>0, InventoryAsks DEF Aws, Local, Read, list_ec2_instances
<1>7. ToolOK("get_cloudwatch_alarms", get_cloudwatch_alarms)
  BY <1>0, ObservabilityAsks DEF Aws, Local, Read, get_cloudwatch_alarms
<1>8. ToolOK("get_cloudwatch_logs", get_cloudwatch_logs)
  BY <1>0, ObservabilityAsks DEF Aws, IfAsked, Limited, Local, Read, SchemaLookingBack,
         get_cloudwatch_logs
<1>9. ToolOK("get_cloudwatch_alarm_summary", get_cloudwatch_alarm_summary)
  BY <1>0, ObservabilityAsks DEF Aws, Limited, Local, Read, get_cloudwatch_alarm_summary
<1>10. ToolOK("get_recent_log_errors", get_recent_log_errors)
  BY <1>0, ObservabilityAsks DEF Aws, Limited, Local, LookingBack, Read,
         get_recent_log_errors
<1>11. ToolOK("list_lambda_functions", list_lambda_functions)
  BY <1>0, InventoryAsks DEF Aws, Limited, Local, Read, list_lambda_functions
<1>12. ToolOK("list_s3_buckets", list_s3_buckets)
  BY <1>0, InventoryAsks DEF Aws, Limited, Local, Read, list_s3_buckets
<1>13. ToolOK("list_log_groups", list_log_groups)
  BY <1>0, ObservabilityAsks DEF Aws, Limited, Local, Read, list_log_groups
<1>14. ToolOK("aws_account_overview", aws_account_overview)
  BY <1>0, InventoryAsks DEF Aws, IfAsked, Local, Read, aws_account_overview
<1>15. ToolOK("aws_cost_overview", aws_cost_overview)
  BY <1>0, CostAsks DEF Aws, Dated, Limited, Local, Read, aws_cost_overview
<1>16. ToolOK("aws_observability_overview", aws_observability_overview)
  <2>1. EachRegion("logGroups", "describeLogGroups").client = "describeLogGroups"
    BY DEF EachRegion, IfAsked, Read
  <2> QED
    BY <1>0, ObservabilityAsks, <2>1 DEF Aws, IfAsked, Limited, Local, Read,
           aws_observability_overview
<1>17. ToolOK("get_ecs_service_health", get_ecs_service_health)
  BY <1>0, EcsAsks DEF Aws, Local, Read, get_ecs_service_health
<1>18. ToolOK("list_ecs_tasks", list_ecs_tasks)
  BY <1>0, EcsAsks DEF Aws, Limited, Local, Read, list_ecs_tasks
<1>19. ToolOK("get_recent_stopped_ecs_tasks", get_recent_stopped_ecs_tasks)
  BY <1>0, EcsAsks DEF Aws, Limited, Local, Read, SchemaLookingBack,
         get_recent_stopped_ecs_tasks
<1>20. ToolOK("get_rds_instance_health", get_rds_instance_health)
  BY <1>0, DatabasesAsks DEF Aws, Local, Read, get_rds_instance_health
<1>21. ToolOK("get_rds_metrics", get_rds_metrics)
  BY <1>0, DatabasesAsks DEF Aws, Local, Read, SchemaLookingBack, get_rds_metrics
<1>22. ToolOK("check_ssm_parameter_inventory", check_ssm_parameter_inventory)
  BY <1>0, SecurityAsks DEF Aws, Local, Read, Security, check_ssm_parameter_inventory
<1>23. ToolOK("get_ecr_image_status", get_ecr_image_status)
  BY <1>0, InventoryAsks DEF Aws, EcrCapabilities, Local, Read, get_ecr_image_status
<1>24. ToolOK("compare_ecs_task_image_with_ecr", compare_ecs_task_image_with_ecr)
  BY <1>0, ComparisonAsks DEF Aws, EcrCapabilities, Local, Read,
         compare_ecs_task_image_with_ecr
<1>25. ToolOK("get_s3_bucket_posture", get_s3_bucket_posture)
  BY <1>0, SecurityAsks DEF Aws, Local, Read, Security, get_s3_bucket_posture
<1>26. ToolOK("get_ses_configuration_status", get_ses_configuration_status)
  BY <1>0, SecurityAsks DEF Aws, Local, Read, Security, get_ses_configuration_status
<1>27. ToolOK("get_sns_topic_status", get_sns_topic_status)
  BY <1>0, SecurityAsks DEF Aws, IfAsked, Local, Read, Security, get_sns_topic_status
<1>28. ToolOK("get_eventbridge_rules_status", get_eventbridge_rules_status)
  BY <1>0, SecurityAsks DEF Aws, Local, Read, SchemaLimited, Security,
         get_eventbridge_rules_status
<1>29. ToolOK("get_budget_status", get_budget_status)
  BY <1>0, CostAsks DEF Aws, Local, Read, get_budget_status
<1>30. ToolOK("list_application_profiles", list_application_profiles)
  BY DEF Local, list_application_profiles
<1>31. ToolOK("get_application_environment_overview", get_application_environment_overview)
  BY <1>0, InventoryAsks, ObservabilityAsks, EcsAsks, DatabasesAsks, SecurityAsks, CostAsks,
     ComparisonAsks
  DEF Application, Aws, EcrCapabilities, Local, SectionCapabilities, SectionClients,
      get_application_environment_overview
<1>32. ToolOK("get_application_compute_status", get_application_compute_status)
  BY <1>0, InventoryAsks, ObservabilityAsks, EcsAsks, DatabasesAsks, SecurityAsks, CostAsks,
     ComparisonAsks
  DEF Application, Aws, EcrCapabilities, Local, SectionCapabilities, SectionClients,
      get_application_compute_status
<1>33. ToolOK("get_application_database_status", get_application_database_status)
  BY <1>0, InventoryAsks, ObservabilityAsks, EcsAsks, DatabasesAsks, SecurityAsks, CostAsks,
     ComparisonAsks
  DEF Application, Aws, EcrCapabilities, Local, SectionCapabilities, SectionClients,
      get_application_database_status
<1>34. ToolOK("get_application_logs", get_application_logs)
  BY <1>0, InventoryAsks, ObservabilityAsks, EcsAsks, DatabasesAsks, SecurityAsks, CostAsks,
     ComparisonAsks
  DEF Application, Aws, EcrCapabilities, Limited, Local, LookingBack, SectionCapabilities,
      SectionClients, get_application_logs
<1>35. ToolOK("get_application_secret_inventory", get_application_secret_inventory)
  BY <1>0, InventoryAsks, ObservabilityAsks, EcsAsks, DatabasesAsks, SecurityAsks, CostAsks,
     ComparisonAsks
  DEF Application, Aws, EcrCapabilities, Local, SectionCapabilities, SectionClients,
      get_application_secret_inventory
<1>36. ToolOK("get_application_artifact_status", get_application_artifact_status)
  BY <1>0, InventoryAsks, ObservabilityAsks, EcsAsks, DatabasesAsks, SecurityAsks, CostAsks,
     ComparisonAsks
  DEF Application, Aws, EcrCapabilities, Local, SectionCapabilities, SectionClients,
      get_application_artifact_status
<1>37. ToolOK("get_application_alerting_status", get_application_alerting_status)
  BY <1>0, InventoryAsks, ObservabilityAsks, EcsAsks, DatabasesAsks, SecurityAsks, CostAsks,
     ComparisonAsks
  DEF Application, Aws, EcrCapabilities, Local, SectionCapabilities, SectionClients,
      get_application_alerting_status
<1>38. ToolOK("get_application_cost_status", get_application_cost_status)
  BY <1>0, InventoryAsks, ObservabilityAsks, EcsAsks, DatabasesAsks, SecurityAsks, CostAsks,
     ComparisonAsks
  DEF Application, Aws, EcrCapabilities, Local, SectionCapabilities, SectionClients,
      get_application_cost_status
<1> HIDE DEF ToolOK
<1> QED
  BY <1>1, <1>2, <1>3, <1>4, <1>5, <1>6, <1>7, <1>8, <1>9, <1>10, <1>11, <1>12, <1>13, <1>14,
     <1>15, <1>16,
     <1>17, <1>18, <1>19, <1>20, <1>21, <1>22, <1>23, <1>24, <1>25, <1>26, <1>27, <1>28, <1>29,
     <1>30, <1>31, <1>32, <1>33, <1>34, <1>35, <1>36, <1>37, <1>38 DEF Tools, Tool

-----------------------------------------------------------------------------
(* Deployments and arguments.                                              *)

\* What a sequence over a set is.
LEMMA SeqDef ==
    ASSUME NEW S, NEW n \in Nat, NEW q, q = [i \in 1..n |-> q[i]], \A i \in 1..n : q[i] \in S
    PROVE  q \in Seq(S)
<1>1. q \in [1..n -> S]
  OBVIOUS
<1> QED
  BY <1>1

DeploymentOK(d) ==
    /\ d \in Deployment
    /\ d.own \in ToSet(d.allowed)
    /\ IsInjective(d.allowed)

\* Lists of allowed regions, and the reads of a strand of a tool.
AllowedLists(d) == {g \in Seq(Regions) : ToSet(g) \subseteq ToSet(d.allowed)}

ReadsIn(d, t, s) ==
    {[client |-> Tool[t].strands[s][r].client, regions |-> g] :
        r \in DOMAIN Tool[t].strands[s], g \in AllowedLists(d)}

\* What the arguments of a call say of regions.
LEMMA ArgsRegions ==
    ASSUME NEW t \in Tools, NEW a \in ArgsOf(t)
    PROVE  /\ a.region \in Regions \cup {NoRegion}
           /\ a.region # NoRegion => Tool[t].region \in {"argument", "required"}
           /\ a.regions \in Seq(Regions)
<1> DEFINE usual == {[DefaultArgs(t) EXCEPT !.region = r] :
                        r \in IF Tool[t].region = "required" THEN Regions ELSE {NoRegion}}
           OK(x) == /\ x.region \in Regions \cup {NoRegion}
                    /\ x.region # NoRegion => Tool[t].region \in {"argument", "required"}
                    /\ x.regions \in Seq(Regions)
                    /\ DOMAIN x = DOMAIN DefaultArgs(t)
<1>0. DOMAIN DefaultArgs(t) =
          {"region", "regions", "limit", "name", "hours", "days", "parts", "id"}
  BY DEF DefaultArgs
<1>1. ASSUME NEW x \in usual PROVE OK(x)
  <2>1. PICK r \in IF Tool[t].region = "required" THEN Regions ELSE {NoRegion} :
              x = [DefaultArgs(t) EXCEPT !.region = r]
    OBVIOUS
  <2>2. <<>> \in Seq(Regions)
    OBVIOUS
  <2>3. x.region = r /\ x.regions = <<>> /\ DOMAIN x = DOMAIN DefaultArgs(t)
    BY <2>1 DEF DefaultArgs
  <2> QED
    BY <2>1, <2>2, <2>3, RegionsAssumption
<1>2. CASE a \in usual
  BY <1>1, <1>2
<1>3. CASE a \notin usual
  <2>1. PICK x \in usual, k \in DOMAIN DefaultArgs(t) :
              \E v \in OtherArgs(t)[k] : a = [x EXCEPT ![k] = v]
    BY <1>3 DEF ArgsOf
  <2>2. PICK v \in OtherArgs(t)[k] : a = [x EXCEPT ![k] = v]
    BY <2>1
  <2>3. OK(x)
    BY <1>1
  <2>4. CASE k = "region"
    <3>1. v \in Regions /\ Tool[t].region \in {"argument", "required"}
      BY <2>2, <2>4 DEF OtherArgs
    <3>2. a.region = v /\ a.regions = x.regions
      BY <2>2, <2>3, <2>4, <1>0
    <3> QED
      BY <2>3, <3>1, <3>2
  <2>5. CASE k = "regions"
    <3>1. v \in RegionLists
      BY <2>2, <2>5 DEF OtherArgs
    <3>2. a.region = x.region /\ a.regions = v
      BY <2>2, <2>3, <2>5, <1>0
    <3> QED
      BY <2>3, <3>1, <3>2, RegionsAssumption
  <2>6. CASE k \notin {"region", "regions"}
    <3>1. a.region = x.region /\ a.regions = x.regions
      BY <2>2, <2>3, <2>6, <1>0
    <3> QED
      BY <2>3, <3>1
  <2> QED
    BY <2>4, <2>5, <2>6
<1> QED
  BY <1>2, <1>3

\* A call reads in allowed regions.
LEMMA RegionsRead ==
    ASSUME NEW d, DeploymentOK(d), NEW t \in Tools, NEW a \in ArgsOf(t), Regional(d, t, a)
    PROVE  ReadRegions(d, t, a) \in AllowedLists(d)
<1>0. /\ d.own \in ToSet(d.allowed) /\ d.allowed \in Seq(Regions)
      /\ ToSet(d.allowed) \subseteq Regions
  BY DEF DeploymentOK, Deployment, ToSet
<1>1. CASE Tool[t].region # "allowed"
  <2>1. RegionOf(d, t, a) \in ToSet(d.allowed)
    <3>1. CASE SingleRegion(t)
      BY <3>1 DEF Regional
    <3>2. CASE ~SingleRegion(t)
      <4>1. a.region = NoRegion
        BY <3>2, ArgsRegions DEF SingleRegion
      <4>2. RegionOf(d, t, a) = d.own
        BY <3>2, <4>1 DEF RegionOf, SingleRegion
      <4> QED
        BY <4>2, <1>0
    <3> QED
      BY <3>1, <3>2
  <2> DEFINE g == <<RegionOf(d, t, a)>>
  <2>2. g \in Seq(Regions) /\ ToSet(g) = {RegionOf(d, t, a)}
    BY <2>1, <1>0 DEF ToSet
  <2>3. ReadRegions(d, t, a) = g
    BY <1>1 DEF ReadRegions
  <2> HIDE DEF g
  <2> QED
    BY <2>1, <2>2, <2>3 DEF AllowedLists
<1>2. CASE Tool[t].region = "allowed"
  <2>1. a.regions \in Seq(Regions) /\ ToSet(a.regions) \subseteq ToSet(d.allowed)
    BY <1>2, ArgsRegions DEF Regional, RegionsResolve
  <2> QED
    BY <1>0, <1>2, <2>1 DEF ReadRegions, AllowedLists
<1> QED
  BY <1>1, <1>2

\* The reads of a tool make a plan.
LEMMA PlanReads ==
    ASSUME NEW d, DeploymentOK(d), NEW t \in Tools, NEW a \in ArgsOf(t), Regional(d, t, a)
    PROVE  /\ DOMAIN Plan(d, t, a) = DOMAIN Tool[t].strands
           /\ \A s \in DOMAIN Tool[t].strands : Plan(d, t, a)[s] \in Seq(ReadsIn(d, t, s))
<1> SUFFICES ASSUME NEW s \in DOMAIN Tool[t].strands
             PROVE  Plan(d, t, a)[s] \in Seq(ReadsIn(d, t, s))
  BY DEF Plan
<1> DEFINE strand == Tool[t].strands[s]
           parts == [i \in DOMAIN strand |-> ReadsOf(d, t, a, strand[i])]
           regions == ReadRegions(d, t, a)
<1>1. Len(strand) \in Nat /\ DOMAIN strand = 1..Len(strand)
  BY ToolsOK DEF ToolOK, StrandsOK, StrandOK
<1>2. regions \in AllowedLists(d) /\ regions \in Seq(Regions)
  BY RegionsRead DEF AllowedLists
<1>3. ASSUME NEW i \in DOMAIN strand PROVE ReadsOf(d, t, a, strand[i]) \in Seq(ReadsIn(d, t, s))
  <2> DEFINE client == strand[i].client
  <2>0. \A g \in AllowedLists(d) : [client |-> client, regions |-> g] \in ReadsIn(d, t, s)
    BY DEF ReadsIn
  <2>1. CASE ~Asked(strand[i], a)
    BY <2>1 DEF ReadsOf
  <2>2. CASE Asked(strand[i], a) /\ strand[i].each
    <3> DEFINE q == [k \in DOMAIN regions |-> [client |-> client, regions |-> <<regions[k]>>]]
    <3>1. DOMAIN regions = 1..Len(regions) /\ Len(regions) \in Nat
      BY <1>2
    <3>2. ASSUME NEW k \in DOMAIN regions PROVE q[k] \in ReadsIn(d, t, s)
      <4> DEFINE g == <<regions[k]>>
      <4>1. regions[k] \in Regions /\ regions[k] \in ToSet(d.allowed)
        BY <1>2, <3>1 DEF AllowedLists, ToSet
      <4>2. g \in Seq(Regions) /\ ToSet(g) = {regions[k]}
        BY <4>1 DEF ToSet
      <4>3. q[k] = [client |-> client, regions |-> g]
        OBVIOUS
      <4> HIDE DEF g, q
      <4> QED
        BY <2>0, <4>1, <4>2, <4>3 DEF AllowedLists
    <3>3. ReadsOf(d, t, a, strand[i]) = q
      BY <2>2 DEF ReadsOf
    <3>4. q = [k \in 1..Len(regions) |-> q[k]]
      BY <3>1
    <3> HIDE DEF q
    <3> QED
      BY <3>1, <3>2, <3>3, <3>4, SeqDef
  <2>3. CASE Asked(strand[i], a) /\ ~strand[i].each
    <3>1. ReadsOf(d, t, a, strand[i]) = <<[client |-> client, regions |-> regions]>>
      BY <2>3 DEF ReadsOf
    <3>2. [client |-> client, regions |-> regions] \in ReadsIn(d, t, s)
      BY <2>0, <1>2
    <3> QED
      BY <3>1, <3>2
  <2> QED
    BY <2>1, <2>2, <2>3
<1>4. parts \in Seq(Seq(ReadsIn(d, t, s)))
  <2>1. /\ parts = [i \in 1..Len(strand) |-> parts[i]]
        /\ \A i \in 1..Len(strand) : parts[i] \in Seq(ReadsIn(d, t, s))
        /\ Len(strand) \in Nat
    BY <1>1, <1>3
  <2> HIDE DEF parts, strand
  <2> QED
    BY <2>1, SeqDef
<1>5. Plan(d, t, a)[s] = FlattenSeq(parts)
  <2> DEFINE F(x) == FlattenSeq([i \in DOMAIN Tool[t].strands[x] |->
                                   ReadsOf(d, t, a, Tool[t].strands[x][i])])
  <2>1. Plan(d, t, a) = [x \in DOMAIN Tool[t].strands |-> F(x)]
    BY Zenon DEF Plan
  <2>2. F(s) = FlattenSeq(parts)
    BY Zenon
  <2> HIDE DEF F, parts
  <2> QED
    BY <2>1, <2>2
<1> HIDE DEF parts
<1> QED
  BY <1>4, <1>5, FlattenSeqIn

\* The read that comes next.
LEMMA NextRead ==
    ASSUME NEW d, NEW t \in Tools, NEW s \in DOMAIN Tool[t].strands,
           NEW todo \in Seq(ReadsIn(d, t, s)), todo # <<>>
    PROVE  /\ Head(todo).client \in DOMAIN Client
           /\ AsksOf(Head(todo).client) \subseteq Tool[t].capabilities \cup Undeclared(t)
           /\ ToSet(Head(todo).regions) \subseteq ToSet(d.allowed)
           /\ Tail(todo) \in Seq(ReadsIn(d, t, s))
<1>1. Head(todo) \in ReadsIn(d, t, s) /\ Tail(todo) \in Seq(ReadsIn(d, t, s))
  OBVIOUS
<1>2. PICK r \in DOMAIN Tool[t].strands[s], g \in AllowedLists(d) :
            Head(todo) = [client |-> Tool[t].strands[s][r].client, regions |-> g]
  BY <1>1 DEF ReadsIn
<1>3. ReadOK(Tool[t].strands[s][r], Tool[t].capabilities \cup Undeclared(t))
  BY ToolsOK DEF ToolOK, StrandsOK, StrandOK
<1> QED
  BY <1>1, <1>2, <1>3 DEF ReadOK, AllowedLists

\* A list without repetitions is no longer than one that has all its elements.
LEMMA NoLonger ==
    ASSUME NEW S, NEW p \in Seq(S), NEW q \in Seq(S), IsInjective(p), ToSet(p) \subseteq ToSet(q)
    PROVE  Len(p) <= Len(q)
<1> DEFINE f == [i \in 1..Len(p) |-> CHOOSE j \in 1..Len(q) : q[j] = p[i]]
<1>1. ASSUME NEW i \in 1..Len(p) PROVE \E j \in 1..Len(q) : q[j] = p[i]
  <2>1. p[i] \in ToSet(p)
    BY DEF ToSet
  <2>2. p[i] \in ToSet(q) /\ DOMAIN q = 1..Len(q)
    BY <2>1
  <2> QED
    BY <2>2 DEF ToSet
<1>2. f \in [1..Len(p) -> 1..Len(q)] /\ \A i \in 1..Len(p) : q[f[i]] = p[i]
  BY <1>1
<1>3. ASSUME Len(q) < Len(p) PROVE FALSE
  <2> DEFINE S1 == 1..Len(p)
             S2 == 1..Len(q)
  <2>1. \A n \in Nat : IsFiniteSet(1..n) /\ Cardinality(1..n) = n
    <3> SUFFICES ASSUME NEW n \in Nat PROVE IsFiniteSet(1..n) /\ Cardinality(1..n) = n
      OBVIOUS
    <3>1. IsFiniteSet(1..n) /\ Cardinality(1..n) = IF 1 > n THEN 0 ELSE n - 1 + 1
      BY FS_Interval
    <3> QED
      BY <3>1
  <2>2. IsFiniteSet(S1) /\ IsFiniteSet(S2) /\ Cardinality(S2) < Cardinality(S1)
    <3>1. Len(p) \in Nat /\ Len(q) \in Nat
      OBVIOUS
    <3> QED
      BY <1>3, <2>1, <3>1
  <2>3. PICK x, y \in S1 : x # y /\ f[x] = f[y]
    <3>1. f \in [S1 -> S2]
      BY <1>2
    <3> HIDE DEF f, S1, S2
    <3> QED
      BY <2>2, <3>1, FS_PigeonHole
  <2>4. p[x] = p[y] /\ x \in DOMAIN p /\ y \in DOMAIN p
    BY <1>2, <2>3
  <2> QED
    BY <2>3, <2>4 DEF IsInjective
<1>4. Len(p) \in Nat /\ Len(q) \in Nat
  OBVIOUS
<1> QED
  BY <1>3, <1>4

-----------------------------------------------------------------------------
(* The invariant.                                                          *)

IsStrand(x) ==
    x = [todo |-> x.todo, stage |-> x.stage, params |-> x.params, answer |-> x.answer,
         failed |-> x.failed]

IsAnswer(a) == a = [client |-> a.client, of |-> a.of, missing |-> a.missing, items |-> a.items]

IsCall(k) ==
    k = [pc |-> k.pc, tool |-> k.tool, args |-> k.args, strands |-> k.strands, since |-> k.since]

\* What an answer is made of and its key has.
Shown(k) == k.made \cap k.keyed

\* An answer of a client, made from these parameters as far as its key has them.
AnswerFine(a, params) ==
    /\ a.client \in DOMAIN Client
    /\ Restrict(a.of, Shown(Client[a.client])) = Restrict(params, Shown(Client[a.client]))
    /\ a.missing # {} => a.items

\* A strand that makes the steps of a client: its answer has items as yet, and
\* what is missing from it was lost in an earlier step.
StepFine(k, read, x) ==
    /\ x.stage \in 1 .. Len(k.steps)
    /\ DOMAIN x.params = ParamNames
    /\ DOMAIN x.params.regions = ToSet(read.regions)
    /\ x.answer.client = read.client
    /\ x.answer.of = Restrict(x.params, k.made)
    /\ x.answer.items = TRUE
    /\ x.answer.missing # {} => \E i \in 1 .. Len(k.steps) : i < x.stage /\ Lossy(k.steps[i])

StrandFine(d, t, s, x) ==
    /\ IsStrand(x) /\ IsAnswer(x.answer)
    /\ x.todo \in Seq(ReadsIn(d, t, s))
    /\ x.stage \in Nat
    /\ x.stage = 0 => x.answer = NoAnswer \/ AnswerFine(x.answer, x.params)
    /\ x.stage # 0 => x.todo # <<>> /\ StepFine(Client[Head(x.todo).client], Head(x.todo), x)

\* The strands of a call are those of its tool, which the policy has accepted.
RunFine(d, k) ==
    /\ k.tool \in Exposed(d) /\ d.granted
    /\ k.strands = [s \in DOMAIN Tool[k.tool].strands |-> k.strands[s]]
    /\ \A s \in DOMAIN Tool[k.tool].strands : StrandFine(d, k.tool, s, k.strands[s])

CallFine(d, w, n, k) ==
    /\ IsCall(k)
    /\ k.pc \in {"idle", "asked", "refused", "running", "done", "failed"}
    /\ k.since \in 0 .. n
    /\ k.pc \in {"asked", "running", "failed"} => k.tool \in w /\ k.args \in ArgsOf(k.tool)
    /\ k.pc \in {"running", "failed"} => RunFine(d, k)
    /\ k.pc \notin {"running", "failed"} => k.strands = <<>>

\* An answer in the cache is the one its key asks for.
EntryFine(n, e) ==
    /\ IsAnswer(e.answer)
    /\ e.answer.client \in DOMAIN Client /\ Client[e.answer.client].cached
    /\ DOMAIN e.key = Client[e.answer.client].keyed
    /\ AnswerFine(e.answer, e.key)
    /\ e.expires \in n + 1 .. n + Ttl

CallsFine ==
    /\ call = [c \in Calls |-> call[c]]
    /\ \A c \in Calls : CallFine(deployment, workload[c], now, call[c])

GatewayFine ==
    /\ now \in 0 .. MaxTime
    /\ DeploymentOK(deployment)
    /\ workload \in [Calls -> SUBSET Tools]

IInv == GatewayFine /\ CallsFine /\ \A e \in kv : EntryFine(now, e)

LEMMA InitFine == Init => IInv
<1> SUFFICES ASSUME Init PROVE IInv
  OBVIOUS
<1>1. PICK e \in Environments : deployment = e.deployment /\ workload = e.tools
  BY DEF Init
<1>2. GatewayFine
  BY <1>1, EnvironmentsAssumption, TimesAssumption DEF Init, GatewayFine, DeploymentOK
<1>3. /\ IsCall(InitialCall) /\ InitialCall.pc = "idle"
      /\ InitialCall.since = 0 /\ InitialCall.strands = <<>>
  BY DEF InitialCall, IsCall
<1>4. ASSUME NEW c \in Calls PROVE CallFine(deployment, workload[c], now, call[c])
  <2>1. call[c] = InitialCall /\ now = 0
    BY DEF Init
  <2> QED
    BY <1>3, <2>1 DEF CallFine
<1>5. call = [c \in Calls |-> call[c]] /\ kv = {}
  BY DEF Init
<1> QED
  BY <1>2, <1>4, <1>5 DEF IInv, CallsFine

\* A strand of a call, and its tool.
LEMMA StrandOf ==
    ASSUME IInv, NEW c \in Calls, NEW s \in DOMAIN call[c].strands
    PROVE  /\ call[c].pc \in {"running", "failed"}
           /\ call[c].tool \in Tools
           /\ s \in DOMAIN Tool[call[c].tool].strands
           /\ StrandFine(deployment, call[c].tool, s, call[c].strands[s])
<1>1. CallFine(deployment, workload[c], now, call[c])
  BY DEF IInv, CallsFine
<1>2. call[c].pc \in {"running", "failed"}
  BY <1>1 DEF CallFine
<1>3. RunFine(deployment, call[c])
  BY <1>1, <1>2 DEF CallFine
<1> QED
  BY <1>2, <1>3 DEF RunFine, Exposed

\* The read a strand is at.
LEMMA ReadOf ==
    ASSUME IInv, NEW c \in Calls, NEW s \in DOMAIN call[c].strands,
           call[c].strands[s].todo # <<>>
    PROVE  LET strand == call[c].strands[s]
           IN /\ Head(strand.todo).client \in DOMAIN Client
              /\ ClientOK(ClientOf(strand))
              /\ AsksOf(Head(strand.todo).client) \subseteq
                     Tool[call[c].tool].capabilities \cup Undeclared(call[c].tool)
              /\ ToSet(Head(strand.todo).regions) \subseteq ToSet(deployment.allowed)
              /\ Tail(strand.todo) \in Seq(ReadsIn(deployment, call[c].tool, s))
<1>1. call[c].strands[s].todo \in Seq(ReadsIn(deployment, call[c].tool, s))
  BY StrandOf DEF StrandFine
<1> QED
  BY <1>1, StrandOf, NextRead, ClientsOK DEF ClientOf

-----------------------------------------------------------------------------
(* The steps of a strand.                                                  *)

LEMMA StrandChange ==
    ASSUME IInv, NEW c \in Calls, NEW s \in DOMAIN call[c].strands, NEW x,
           StrandFine(deployment, call[c].tool, s, x), SetStrand(c, s, x),
           UNCHANGED <<now, deployment, workload>>
    PROVE  GatewayFine' /\ CallsFine'
<1> DEFINE k == [call[c] EXCEPT !.strands[s] = x]
<1>0. call = [b \in Calls |-> call[b]] /\ CallFine(deployment, workload[c], now, call[c])
  BY DEF IInv, CallsFine
<1>1. call' = [b \in Calls |-> IF b = c THEN k ELSE call[b]]
  BY <1>0 DEF SetStrand
<1>2. /\ IsCall(k) /\ k.pc = call[c].pc /\ k.tool = call[c].tool /\ k.args = call[c].args
      /\ k.since = call[c].since /\ k.strands = [call[c].strands EXCEPT ![s] = x]
  BY <1>0 DEF CallFine, IsCall
<1>3. RunFine(deployment, call[c]) /\ call[c].pc \in {"running", "failed"}
  BY SMTT(30), <1>0, StrandOf DEF CallFine
<1> HIDE DEF k
<1>4. RunFine(deployment, k)
  <2>1. k.strands = [b \in DOMAIN Tool[k.tool].strands |->
                       IF b = s THEN x ELSE call[c].strands[b]]
    BY <1>2, <1>3 DEF RunFine
  <2>2. \A b \in DOMAIN Tool[k.tool].strands : StrandFine(deployment, k.tool, b, k.strands[b])
    BY <1>2, <1>3, <2>1 DEF RunFine
  <2>3. k.strands = [b \in DOMAIN Tool[k.tool].strands |-> k.strands[b]]
    BY <2>1
  <2> QED
    BY <1>2, <1>3, <2>2, <2>3 DEF RunFine
<1>5. CallFine(deployment, workload[c], now, k)
  BY <1>0, <1>2, <1>3, <1>4 DEF CallFine
<1>6. CallsFine'
  <2>1. \A b \in Calls : CallFine(deployment, workload[b], now, call'[b])
    BY <1>1, <1>5 DEF IInv, CallsFine
  <2>2. call' = [b \in Calls |-> call'[b]]
    BY <1>1
  <2> QED
    BY <2>1, <2>2 DEF CallsFine
<1> QED
  BY <1>6 DEF IInv, GatewayFine

LEMMA RestrictTwice ==
    ASSUME NEW f, NEW A, NEW B, A \subseteq B
    PROVE  Restrict(Restrict(f, B), A) = Restrict(f, A)
BY DEF Restrict

\* A key says of an answer all that it shows.
LEMMA KeyHasAll ==
    ASSUME NEW k, NEW params
    PROVE  Restrict(Restrict(params, Client[k].keyed), Shown(Client[k]))
             = Restrict(params, Shown(Client[k]))
<1>1. Shown(Client[k]) \subseteq Client[k].keyed
  BY DEF Shown
<1> QED
  BY <1>1, RestrictTwice

\* What a strand is when a read is over.
LEMMA AfterRecord ==
    ASSUME NEW strand, IsStrand(strand), NEW params, NEW answer,
           NEW x, x = After(strand, params, answer)
    PROVE  /\ IsStrand(x) /\ x.stage = 0 /\ x.params = params /\ x.answer = answer
           /\ x.todo = <<>> \/ x.todo = Tail(strand.todo)
<1>1. ASSUME NEW rest, x = [strand EXCEPT !.todo = rest, !.stage = 0, !.params = params,
                                          !.answer = answer]
      PROVE  /\ IsStrand(x) /\ x.stage = 0 /\ x.params = params /\ x.answer = answer
             /\ x.todo = rest
  BY <1>1 DEF IsStrand
<1>2. PICK rest \in {<<>>, Tail(strand.todo)} :
            x = [strand EXCEPT !.todo = rest, !.stage = 0, !.params = params, !.answer = answer]
  <2>1. CASE answer.client = "describeLogStreams" /\ ~answer.items
    BY <2>1 DEF After
  <2>2. CASE ~ (answer.client = "describeLogStreams" /\ ~answer.items)
    BY <2>2 DEF After
  <2> QED
    BY <2>1, <2>2
<1> QED
  BY Zenon, <1>1, <1>2

\* A read is over, with an answer of its client.
LEMMA AfterFine ==
    ASSUME IInv, NEW c \in Calls, NEW s \in DOMAIN call[c].strands,
           call[c].strands[s].todo # <<>>,
           NEW params, NEW answer, IsAnswer(answer), AnswerFine(answer, params)
    PROVE  StrandFine(deployment, call[c].tool, s, After(call[c].strands[s], params, answer))
<1> DEFINE strand == call[c].strands[s]
           x == After(strand, params, answer)
<1> SUFFICES StrandFine(deployment, call[c].tool, s, x)
  OBVIOUS
<1>2. /\ IsStrand(x) /\ x.stage = 0 /\ x.params = params /\ x.answer = answer
      /\ x.todo = <<>> \/ x.todo = Tail(strand.todo)
  BY StrandOf, AfterRecord DEF StrandFine
<1>3. x.todo \in Seq(ReadsIn(deployment, call[c].tool, s))
  <2>1. <<>> \in Seq(ReadsIn(deployment, call[c].tool, s))
    OBVIOUS
  <2>2. Tail(strand.todo) \in Seq(ReadsIn(deployment, call[c].tool, s))
    BY ReadOf
  <2> HIDE DEF x
  <2> QED
    BY <1>2, <2>1, <2>2
<1> HIDE DEF x
<1> QED
  BY <1>2, <1>3 DEF StrandFine

LEMMA FinishFine ==
    ASSUME IInv, NEW c \in Calls, NEW s \in DOMAIN call[c].strands,
           call[c].strands[s].todo # <<>>, NEW answer, IsAnswer(answer),
           answer.client = Head(call[c].strands[s].todo).client,
           AnswerFine(answer, call[c].strands[s].params), Finish(c, s, answer)
    PROVE  IInv'
<1> DEFINE strand == call[c].strands[s]
           entry == [key |-> KeyOf(strand, strand.params), answer |-> answer,
                     expires |-> now + Ttl]
<1>1. /\ SetStrand(c, s, After(strand, strand.params, answer))
      /\ UNCHANGED <<now, deployment, workload>>
      /\ \/ UNCHANGED kv
         \/ Cacheable(strand) /\ kv' = kv \cup {entry}
  BY DEF Finish, FinishFor
<1>2. GatewayFine' /\ CallsFine'
  BY SMTT(30), <1>1, AfterFine, StrandChange
<1>3. ASSUME Cacheable(strand) PROVE EntryFine(now, entry)
  <2>1. /\ answer.client \in DOMAIN Client /\ ClientOf(strand) = Client[answer.client]
    BY ZenonT(30), ReadOf DEF ClientOf
  <2>2. Client[answer.client].cached
    BY ZenonT(30), <1>3, <2>1 DEF Cacheable
  <2>3. entry.key = Restrict(strand.params, Client[answer.client].keyed)
    BY ZenonT(30), <2>1 DEF KeyOf
  <2>4. DOMAIN entry.key = Client[answer.client].keyed
    BY Zenon, <2>3 DEF Restrict
  <2>5. AnswerFine(answer, entry.key)
    <3> HIDE DEF entry
    <3>1. Restrict(entry.key, Shown(Client[answer.client]))
            = Restrict(strand.params, Shown(Client[answer.client]))
      BY Zenon, <2>1, <2>3, KeyHasAll
    <3> QED
      BY SMTT(30), <3>1 DEF AnswerFine
  <2>6. now \in Nat /\ now + Ttl \in now + 1 .. now + Ttl
    BY TimesAssumption DEF IInv, GatewayFine
  <2>7. entry.answer = answer /\ entry.expires = now + Ttl
    OBVIOUS
  <2> HIDE DEF entry
  <2> QED
    BY ZenonT(30), <2>1, <2>2, <2>4, <2>5, <2>6, <2>7 DEF EntryFine
<1>4. \A e \in kv' : EntryFine(now', e)
  <2>1. \A e \in kv : EntryFine(now, e)
    BY DEF IInv
  <2> HIDE DEF entry
  <2> QED
    BY <1>1, <1>3, <2>1
<1> QED
  BY <1>2, <1>4 DEF IInv

\* A strand when a read begins, and when a step is over.
Begun(strand, params, answer) ==
    [strand EXCEPT !.stage = 1, !.params = params, !.answer = answer]

Advanced(strand, answer) == [strand EXCEPT !.stage = @ + 1, !.answer = answer]

LEMMA BegunRecord ==
    ASSUME NEW strand, IsStrand(strand), NEW params, NEW answer,
           NEW x, x = Begun(strand, params, answer)
    PROVE  /\ IsStrand(x) /\ x.todo = strand.todo /\ x.stage = 1
           /\ x.params = params /\ x.answer = answer
BY DEF IsStrand, Begun

LEMMA AdvancedRecord ==
    ASSUME NEW strand, IsStrand(strand), NEW answer, NEW x, x = Advanced(strand, answer)
    PROVE  /\ IsStrand(x) /\ x.todo = strand.todo /\ x.stage = strand.stage + 1
           /\ x.params = strand.params /\ x.answer = answer
BY DEF IsStrand, Advanced

LEMMA HitFine ==
    ASSUME IInv, NEW c \in Calls, NEW s \in DOMAIN call[c].strands, Hit(c, s)
    PROVE  IInv'
<1> DEFINE strand == call[c].strands[s]
           params == Params(Head(strand.todo), call[c].tool, call[c].args)
<1>1. PICK e \in kv :
            /\ e.answer.client = Head(strand.todo).client /\ e.key = KeyOf(strand, params)
            /\ SetStrand(c, s, After(strand, params, e.answer))
  BY DEF Hit
<1>2. UNCHANGED <<now, deployment, workload, kv>> /\ strand.todo # <<>>
  BY DEF Hit, Looks
<1> HIDE DEF params
<1>3. AnswerFine(e.answer, params) /\ IsAnswer(e.answer)
  <2>1. EntryFine(now, e)
    BY DEF IInv
  <2>2. e.key = Restrict(params, Client[e.answer.client].keyed)
    BY <1>1 DEF KeyOf, ClientOf
  <2>3. Restrict(e.key, Shown(Client[e.answer.client]))
          = Restrict(params, Shown(Client[e.answer.client]))
    BY <2>2, KeyHasAll
  <2> QED
    BY <2>1, <2>3 DEF EntryFine, AnswerFine
<1>4. GatewayFine' /\ CallsFine'
  <2>1. StrandFine(deployment, call[c].tool, s, After(strand, params, e.answer))
    BY <1>2, <1>3, AfterFine
  <2> QED
    BY <1>1, <1>2, <2>1, StrandChange
<1> QED
  BY <1>2, <1>4 DEF IInv

LEMMA MissFine ==
    ASSUME IInv, NEW c \in Calls, NEW s \in DOMAIN call[c].strands, Miss(c, s)
    PROVE  IInv'
<1> DEFINE strand == call[c].strands[s]
           read == Head(strand.todo)
           params == Params(read, call[c].tool, call[c].args)
           answer == AnswerOf(strand, params, {}, TRUE)
           x == Begun(strand, params, answer)
<1>1. SetStrand(c, s, x) /\ UNCHANGED <<now, deployment, workload, kv>> /\ strand.todo # <<>>
  BY DEF Miss, Looks, Begun
<1>2. DOMAIN params = ParamNames /\ DOMAIN params.regions = ToSet(read.regions)
  BY DEF Params, ParamNames, Sorted
<1> HIDE DEF params
<1>3. /\ IsAnswer(answer) /\ answer.client = read.client
      /\ answer.missing = {} /\ answer.items = TRUE
      /\ answer.of = Restrict(params, Client[read.client].made)
  BY DEF AnswerOf, IsAnswer, MadeFrom, ClientOf
<1> HIDE DEF answer
<1>4. IsStrand(strand) /\ strand.todo \in Seq(ReadsIn(deployment, call[c].tool, s))
  BY StrandOf DEF StrandFine
<1>5. /\ IsStrand(x) /\ x.todo = strand.todo /\ x.stage = 1
      /\ x.params = params /\ x.answer = answer
  BY <1>4, BegunRecord
<1>6. 1 \in 1 .. Len(Client[read.client].steps)
  <2>1. ClientOK(Client[read.client])
    BY <1>1, ReadOf DEF ClientOf
  <2> HIDE DEF x, read
  <2>2. Len(Client[read.client].steps) \in Nat \ {0}
    BY SMTT(30), <2>1 DEF ClientOK, StepsOK
  <2> QED
    BY <2>2
<1> HIDE DEF x
<1>7. StepFine(Client[read.client], read, x)
  BY Zenon, <1>2, <1>3, <1>5, <1>6 DEF StepFine
<1>8. StrandFine(deployment, call[c].tool, s, x)
  <2>1. /\ x.todo \in Seq(ReadsIn(deployment, call[c].tool, s)) /\ x.todo # <<>>
        /\ Head(x.todo) = read
    BY <1>1, <1>4, <1>5
  <2> HIDE DEF read, strand
  <2> QED
    BY <1>3, <1>5, <1>7, <2>1 DEF StrandFine
<1>9. GatewayFine' /\ CallsFine'
  BY <1>1, <1>8, StrandChange
<1> QED
  BY <1>1, <1>9 DEF IInv

\* An answer that leaves something out, one that finds nothing there, and one from
\* the regions that have answered.
Losing(a, lost) == [a EXCEPT !.missing = @ \cup lost]

Absent(a) == [a EXCEPT !.items = FALSE]

OfRegions(a, failed, items) == [a EXCEPT !.missing = failed, !.items = items]

LEMMA LosingRecord ==
    ASSUME NEW a, IsAnswer(a), NEW lost, NEW b, b = Losing(a, lost)
    PROVE  /\ IsAnswer(b) /\ b.client = a.client /\ b.of = a.of
           /\ b.missing = a.missing \cup lost /\ b.items = a.items
BY DEF IsAnswer, Losing

LEMMA AbsentRecord ==
    ASSUME NEW a, IsAnswer(a), NEW b, b = Absent(a)
    PROVE  /\ IsAnswer(b) /\ b.client = a.client /\ b.of = a.of
           /\ b.missing = a.missing /\ b.items = FALSE
BY DEF IsAnswer, Absent

LEMMA OfRegionsRecord ==
    ASSUME NEW a, IsAnswer(a), NEW failed, NEW items, NEW b, b = OfRegions(a, failed, items)
    PROVE  /\ IsAnswer(b) /\ b.client = a.client /\ b.of = a.of
           /\ b.missing = failed /\ b.items = items
BY DEF IsAnswer, OfRegions

\* The step a strand is at.
LEMMA StepAt ==
    ASSUME IInv, NEW c \in Calls, NEW s \in DOMAIN call[c].strands, Steps(c, s)
    PROVE  LET strand == call[c].strands[s]
           IN /\ strand.todo # <<>> /\ IsStrand(strand) /\ IsAnswer(strand.answer)
              /\ strand.todo \in Seq(ReadsIn(deployment, call[c].tool, s))
              /\ StepFine(Client[Head(strand.todo).client], Head(strand.todo), strand)
<1>1. call[c].strands[s].stage # 0 /\ call[c].strands[s].todo # <<>>
  BY SMTT(30), StrandOf DEF Steps, StrandFine
<1> QED
  BY <1>1, StrandOf DEF StrandFine

LEMMA FinishStep ==
    ASSUME IInv, NEW c \in Calls, NEW s \in DOMAIN call[c].strands, Steps(c, s),
           NEW answer, IsAnswer(answer), answer.client = call[c].strands[s].answer.client,
           answer.of = call[c].strands[s].answer.of, answer.missing # {} => answer.items,
           Finish(c, s, answer)
    PROVE  IInv'
<1> DEFINE strand == call[c].strands[s]
<1>1. /\ strand.todo # <<>> /\ answer.client = Head(strand.todo).client
      /\ answer.of = Restrict(strand.params, Client[answer.client].made)
  BY ZenonT(30), StepAt DEF StepFine
<1>2. answer.client \in DOMAIN Client
  BY Zenon, <1>1, ReadOf
<1>3. AnswerFine(answer, strand.params)
  <2>1. Shown(Client[answer.client]) \subseteq Client[answer.client].made
    BY DEF Shown
  <2>2. Restrict(answer.of, Shown(Client[answer.client]))
          = Restrict(strand.params, Shown(Client[answer.client]))
    <3> HIDE DEF strand
    <3> QED
      BY <1>1, <2>1, RestrictTwice
  <2> QED
    BY Zenon, <1>2, <2>2 DEF AnswerFine
<1> QED
  BY ZenonT(30), <1>1, <1>3, FinishFine

LEMMA NotThereFine ==
    ASSUME IInv, NEW c \in Calls, NEW s \in DOMAIN call[c].strands, NotThere(c, s)
    PROVE  IInv'
<1> DEFINE strand == call[c].strands[s]
           k == Client[Head(strand.todo).client]
           answer == Absent(strand.answer)
<1>1. Steps(c, s) /\ Keeping(k.steps[strand.stage]) /\ Finish(c, s, answer)
  BY ZenonT(30) DEF NotThere, Absent, Keeping, StepOf, ClientOf
<1>2. IsAnswer(strand.answer) /\ StepFine(k, Head(strand.todo), strand) /\ ClientOK(k)
  BY Zenon, <1>1, StepAt, ReadOf DEF ClientOf
<1>3. strand.answer.missing = {}
  <2> HIDE DEF k, strand
  <2> QED
    BY SMTT(30), <1>1, <1>2 DEF StepFine, ClientOK, StepsOK
<1>4. IsAnswer(answer) /\ answer.client = strand.answer.client /\ answer.of = strand.answer.of
      /\ answer.missing = {}
  BY Zenon, <1>2, <1>3, AbsentRecord
<1> HIDE DEF answer
<1> QED
  BY ZenonT(30), <1>1, <1>4, FinishStep

LEMMA FetchedEachFine ==
    ASSUME IInv, NEW c \in Calls, NEW s \in DOMAIN call[c].strands, FetchedEach(c, s)
    PROVE  IInv'
<1> DEFINE strand == call[c].strands[s]
<1>1. PICK failed \in SUBSET DOMAIN strand.params.regions, items \in BOOLEAN :
            /\ FanAnswers(DOMAIN strand.params.regions, failed, items)
            /\ Finish(c, s, OfRegions(strand.answer, failed, items))
  BY Zenon DEF FetchedEach, OfRegions
<1> DEFINE answer == OfRegions(strand.answer, failed, items)
<1>2. Steps(c, s)
  BY DEF FetchedEach
<1>3. IsAnswer(strand.answer)
  BY <1>2, StepAt
<1>4. IsAnswer(answer) /\ answer.client = strand.answer.client /\ answer.of = strand.answer.of
      /\ answer.missing = failed /\ answer.items = items
  BY <1>3, OfRegionsRecord
<1>5. /\ Finish(c, s, answer)
      /\ failed = {} \/ items
  BY <1>1 DEF FanAnswers
<1> HIDE DEF answer
<1> QED
  BY SMTT(30), <1>2, <1>4, <1>5, FinishStep

LEMMA FetchedFine ==
    ASSUME IInv, NEW c \in Calls, NEW s \in DOMAIN call[c].strands, Fetched(c, s)
    PROVE  IInv'
<1> DEFINE strand == call[c].strands[s]
           read == Head(strand.todo)
           k == Client[read.client]
<1>1. Steps(c, s)
  BY SMTT(30) DEF Fetched
<1>2. PICK lost : /\ lost # {} => Lossy(k.steps[strand.stage])
                  /\ IF strand.stage = Len(k.steps) THEN Finish(c, s, Losing(strand.answer, lost))
                     ELSE /\ SetStrand(c, s, Advanced(strand, Losing(strand.answer, lost)))
                          /\ UNCHANGED <<now, deployment, workload, kv>>
  BY Zenon DEF Fetched, Losing, Advanced, Lossy, StepOf, ClientOf
<1> DEFINE answer == Losing(strand.answer, lost)
           x == Advanced(strand, answer)
<1>3. /\ strand.todo # <<>> /\ IsStrand(strand) /\ IsAnswer(strand.answer)
      /\ strand.todo \in Seq(ReadsIn(deployment, call[c].tool, s))
      /\ StepFine(k, read, strand)
  BY <1>1, StepAt
<1>4. /\ IsAnswer(answer) /\ answer.client = strand.answer.client /\ answer.of = strand.answer.of
      /\ answer.missing = strand.answer.missing \cup lost /\ answer.items = strand.answer.items
  <2>1. answer = Losing(strand.answer, lost)
    BY SMTT(30)
  <2> HIDE DEF answer, strand
  <2> QED
    BY <1>3, <2>1, LosingRecord
<1>5. answer.items = TRUE
  BY Zenon, <1>3, <1>4 DEF StepFine
<1>6. CASE strand.stage = Len(k.steps)
  <2>1. Finish(c, s, answer)
    BY <1>2, <1>6
  <2> HIDE DEF answer
  <2> QED
    BY SMTT(30), <1>1, <1>4, <1>5, <2>1, FinishStep
<1>7. CASE strand.stage # Len(k.steps)
  <2>1. SetStrand(c, s, x) /\ UNCHANGED <<now, deployment, workload, kv>>
    BY Zenon, <1>2, <1>7
  <2>2. /\ IsStrand(x) /\ x.todo = strand.todo /\ x.stage = strand.stage + 1
        /\ x.params = strand.params /\ x.answer = answer
    <3> HIDE DEF strand, answer
    <3> QED
      BY SMTT(30), <1>3, AdvancedRecord
  <2>3. Len(k.steps) \in Nat /\ strand.stage \in 1 .. Len(k.steps)
    <3>1. ClientOK(k)
      BY Zenon, <1>3, ReadOf DEF ClientOf
    <3> QED
      BY ZenonT(30), <1>3, <3>1 DEF ClientOK, StepsOK, StepFine
  <2> HIDE DEF x, answer, k, read, strand
  <2>4. x.stage \in 1 .. Len(k.steps) /\ x.stage \in Nat /\ x.stage # 0
    BY <1>7, <2>2, <2>3
  <2>5. answer.missing # {} => \E i \in 1 .. Len(k.steps) : i < x.stage /\ Lossy(k.steps[i])
    <3>1. CASE strand.answer.missing # {}
      <4>1. PICK i \in 1 .. Len(k.steps) : i < strand.stage /\ Lossy(k.steps[i])
        BY <1>3, <3>1 DEF StepFine
      <4>2. i < x.stage
        BY <2>2, <2>3, <4>1
      <4> QED
        BY <4>1, <4>2
    <3>2. CASE lost # {}
      <4>1. strand.stage < x.stage
        BY <2>2, <2>3
      <4> QED
        BY <1>2, <2>3, <3>2, <4>1
    <3> QED
      BY <1>4, <3>1, <3>2
  <2>6. StepFine(k, read, x)
    BY <1>3, <1>4, <1>5, <2>2, <2>4, <2>5 DEF StepFine
  <2>7. k = Client[Head(x.todo).client] /\ read = Head(x.todo)
    BY <2>2 DEF k, read
  <2>8. StrandFine(deployment, call[c].tool, s, x)
    BY <1>3, <1>4, <2>2, <2>4, <2>6, <2>7 DEF StrandFine
  <2>9. GatewayFine' /\ CallsFine'
    BY <2>1, <2>8, StrandChange
  <2> QED
    BY SMTT(30), <2>1, <2>9 DEF IInv
<1> QED
  BY <1>6, <1>7

\* What a strand is when it fails.
Failing(strand) == [strand EXCEPT !.failed = TRUE]

LEMMA FailingRecord ==
    ASSUME NEW strand, IsStrand(strand), NEW x, x = Failing(strand)
    PROVE  /\ IsStrand(x) /\ x.todo = strand.todo
           /\ x.stage = strand.stage /\ x.answer = strand.answer
BY DEF IsStrand, Failing

LEMMA StrandRecord ==
    ASSUME NEW reads
    PROVE  /\ IsStrand(Strand(reads)) /\ Strand(reads).todo = reads
           /\ Strand(reads).stage = 0 /\ Strand(reads).answer = NoAnswer
BY DEF IsStrand, Strand

LEMMA FailFine ==
    ASSUME IInv, NEW c \in Calls, NEW s \in DOMAIN call[c].strands, Fail(c, s)
    PROVE  IInv'
<1> DEFINE x == Failing(Strand(<<>>))
<1>1. SetStrand(c, s, x) /\ UNCHANGED <<now, deployment, workload, kv>>
  BY DEF Fail, Failing
<1>2. /\ IsStrand(x)
      /\ x.todo = <<>> /\ x.stage = 0 /\ x.answer = NoAnswer
  BY StrandRecord, FailingRecord
<1>3. IsAnswer(NoAnswer) /\ <<>> \in Seq(ReadsIn(deployment, call[c].tool, s))
  BY DEF IsAnswer, NoAnswer
<1> HIDE DEF x
<1>5. StrandFine(deployment, call[c].tool, s, x)
  BY <1>2, <1>3 DEF StrandFine
<1>6. GatewayFine' /\ CallsFine'
  BY <1>1, <1>5, StrandChange
<1> QED
  BY <1>1, <1>6 DEF IInv

-----------------------------------------------------------------------------
(* The beginning and the end of a call, and time.                          *)

\* A call becomes another that is fine.
LEMMA CallChange ==
    ASSUME IInv, NEW c \in Calls, NEW k, CallFine(deployment, workload[c], now, k),
           call' = [call EXCEPT ![c] = k], UNCHANGED <<now, deployment, workload, kv>>
    PROVE  IInv'
<1>1. call = [b \in Calls |-> call[b]]
  BY DEF IInv, CallsFine
<1>2. call' = [b \in Calls |-> IF b = c THEN k ELSE call[b]]
  BY <1>1
<1>3. \A b \in Calls : CallFine(deployment, workload[b], now, call'[b])
  BY <1>2 DEF IInv, CallsFine
<1>4. call' = [b \in Calls |-> call'[b]]
  BY <1>2
<1>5. CallsFine'
  BY <1>3, <1>4 DEF CallsFine
<1> QED
  BY <1>5 DEF IInv, GatewayFine

\* What a call is when it arrives.
Arrived(k, t, a) == [k EXCEPT !.pc = "asked", !.tool = t, !.args = a]

LEMMA ArrivedRecord ==
    ASSUME NEW k, IsCall(k), NEW t, NEW a, NEW x, x = Arrived(k, t, a)
    PROVE  /\ IsCall(x) /\ x.pc = "asked" /\ x.tool = t /\ x.args = a
           /\ x.since = k.since /\ x.strands = k.strands
BY DEF IsCall, Arrived

LEMMA ArriveFine ==
    ASSUME IInv, NEW c \in Calls, Arrive(c)
    PROVE  IInv'
<1>0. PICK t \in workload[c] : \E a \in ArgsOf(t) :
            call' = [call EXCEPT ![c] = [@ EXCEPT !.pc = "asked", !.tool = t, !.args = a]]
  BY Zenon DEF Arrive
<1>1. PICK a \in ArgsOf(t) :
            call' = [call EXCEPT ![c] = [@ EXCEPT !.pc = "asked", !.tool = t, !.args = a]]
  BY Zenon, <1>0
<1> DEFINE k == Arrived(call[c], t, a)
<1>2. CallFine(deployment, workload[c], now, call[c]) /\ call[c].pc = "idle"
  BY DEF IInv, CallsFine, Arrive
<1>3. /\ IsCall(k) /\ k.pc = "asked" /\ k.tool = t /\ k.args = a
      /\ k.since = call[c].since /\ k.strands = call[c].strands
  BY <1>2, ArrivedRecord DEF CallFine
<1>4. call' = [call EXCEPT ![c] = k] /\ UNCHANGED <<now, deployment, workload, kv>>
  BY <1>1 DEF Arrive, Arrived
<1> HIDE DEF k
<1>5. CallFine(deployment, workload[c], now, k)
  BY <1>2, <1>3 DEF CallFine
<1> QED
  BY <1>4, <1>5, CallChange

\* A call that is over leaves nothing behind.
LEMMA OverFine ==
    ASSUME IInv, NEW c \in Calls, NEW pc \in {"refused", "done"},
           call' = [call EXCEPT ![c] = [InitialCall EXCEPT !.pc = pc]],
           UNCHANGED <<now, deployment, workload, kv>>
    PROVE  IInv'
<1> DEFINE k == [InitialCall EXCEPT !.pc = pc]
<1>1. IsCall(k) /\ k.pc = pc /\ k.since = 0 /\ k.strands = <<>>
  BY DEF InitialCall, IsCall
<1>2. call' = [call EXCEPT ![c] = k] /\ now \in Nat
  BY DEF IInv, GatewayFine
<1> HIDE DEF k
<1>3. CallFine(deployment, workload[c], now, k)
  BY <1>1, <1>2 DEF CallFine
<1> QED
  BY <1>2, <1>3, CallChange

\* What a call is when it starts, and when it fails.
Started(k, n, strands) == [k EXCEPT !.pc = "running", !.since = n, !.strands = strands]

FailedCall(k) == [k EXCEPT !.pc = "failed"]

LEMMA StartedRecord ==
    ASSUME NEW k, IsCall(k), NEW n, NEW strands, NEW x, x = Started(k, n, strands)
    PROVE  /\ IsCall(x) /\ x.pc = "running" /\ x.tool = k.tool /\ x.args = k.args
           /\ x.since = n /\ x.strands = strands
BY DEF IsCall, Started

LEMMA FailedRecord ==
    ASSUME NEW k, IsCall(k), NEW x, x = FailedCall(k)
    PROVE  /\ IsCall(x) /\ x.pc = "failed" /\ x.tool = k.tool /\ x.args = k.args
           /\ x.since = k.since /\ x.strands = k.strands
BY DEF IsCall, FailedCall

LEMMA StartFine ==
    ASSUME IInv, NEW c \in Calls, Start(c)
    PROVE  IInv'
<1> DEFINE t == call[c].tool
           a == call[c].args
           plan == Plan(deployment, t, a)
           strands == [s \in DOMAIN plan |-> Strand(plan[s])]
           x == Started(call[c], now, strands)
<1>1. call' = [call EXCEPT ![c] = x] /\ UNCHANGED <<now, deployment, workload, kv>>
  BY DEF Start, Started
<1>2. CallFine(deployment, workload[c], now, call[c]) /\ call[c].pc = "asked"
  BY DEF IInv, CallsFine, Start
<1>3. t \in workload[c] /\ t \in Tools /\ a \in ArgsOf(t)
  BY <1>2 DEF CallFine, IInv, GatewayFine
<1>4. t \in Exposed(deployment) /\ deployment.granted /\ Regional(deployment, t, a)
  BY DEF Start, Accepts, Allowed
<1>5. /\ DOMAIN plan = DOMAIN Tool[t].strands
      /\ \A s \in DOMAIN Tool[t].strands : plan[s] \in Seq(ReadsIn(deployment, t, s))
  <2>1. DeploymentOK(deployment)
    BY DEF IInv, GatewayFine
  <2> QED
    BY <1>3, <1>4, <2>1, PlanReads
<1> HIDE DEF plan
<1>6. ASSUME NEW s \in DOMAIN Tool[t].strands PROVE StrandFine(deployment, t, s, strands[s])
  <2> DEFINE y == Strand(plan[s])
  <2>1. strands[s] = y
    BY <1>5
  <2>2. IsStrand(y) /\ y.todo = plan[s] /\ y.stage = 0 /\ y.answer = NoAnswer
    BY StrandRecord
  <2>3. IsAnswer(NoAnswer)
    BY DEF IsAnswer, NoAnswer
  <2> HIDE DEF y, strands, t
  <2> QED
    BY <1>5, <2>1, <2>2, <2>3 DEF StrandFine
<1>7. strands = [s \in DOMAIN Tool[t].strands |-> strands[s]]
  BY <1>5
<1> HIDE DEF strands
<1>8. /\ IsCall(x) /\ x.pc = "running" /\ x.tool = t /\ x.args = a
      /\ x.since = now /\ x.strands = strands
  BY <1>2, StartedRecord DEF CallFine
<1>9. now \in Nat
  BY DEF IInv, GatewayFine
<1> HIDE DEF x, t, a
<1>10. RunFine(deployment, x)
  BY <1>4, <1>6, <1>7, <1>8 DEF RunFine
<1>11. CallFine(deployment, workload[c], now, x)
  BY <1>3, <1>8, <1>9, <1>10 DEF CallFine
<1> QED
  BY <1>1, <1>11, CallChange

LEMMA ReplyErrorFine ==
    ASSUME IInv, NEW c \in Calls, ReplyError(c)
    PROVE  IInv'
<1> DEFINE x == FailedCall(call[c])
<1>1. call' = [call EXCEPT ![c] = x] /\ UNCHANGED <<now, deployment, workload, kv>>
  <2>1. call' = [call EXCEPT ![c].pc = "failed"] /\ UNCHANGED <<now, deployment, workload, kv>>
    BY DEF ReplyError
  <2> QED
    BY <2>1 DEF FailedCall
<1>2. CallFine(deployment, workload[c], now, call[c]) /\ call[c].pc = "running"
  BY DEF IInv, CallsFine, ReplyError
<1>3. /\ IsCall(x) /\ x.pc = "failed" /\ x.tool = call[c].tool /\ x.args = call[c].args
      /\ x.since = call[c].since /\ x.strands = call[c].strands
  BY <1>2, FailedRecord DEF CallFine
<1> HIDE DEF x
<1>4. RunFine(deployment, x)
  BY <1>2, <1>3 DEF CallFine, RunFine
<1>5. CallFine(deployment, workload[c], now, x)
  BY <1>2, <1>3, <1>4 DEF CallFine
<1> QED
  BY <1>1, <1>5, CallChange

LEMMA TickFine ==
    ASSUME IInv, Tick
    PROVE  IInv'
<1>1. /\ now \in 0 .. MaxTime /\ MaxTime \in Nat /\ now < MaxTime /\ now' = now + 1
      /\ UNCHANGED <<deployment, workload, call>> /\ kv' = {e \in kv : e.expires > now'}
  BY TimesAssumption DEF Tick, IInv, GatewayFine
<1>2. GatewayFine'
  <2>1. now' \in 0 .. MaxTime
    BY <1>1
  <2> QED
    BY <1>1, <2>1 DEF IInv, GatewayFine
<1>3. CallsFine'
  <2>1. \A i \in 0 .. now : i \in 0 .. now'
    BY <1>1
  <2>2. ASSUME NEW c \in Calls PROVE CallFine(deployment, workload[c], now', call[c])
    <3>1. CallFine(deployment, workload[c], now, call[c])
      BY DEF IInv, CallsFine
    <3> QED
      BY <2>1, <3>1 DEF CallFine
  <2> QED
    BY <1>1, <2>2 DEF IInv, CallsFine
<1>4. ASSUME NEW e \in kv' PROVE EntryFine(now', e)
  <2>1. EntryFine(now, e) /\ e.expires > now'
    BY <1>1 DEF IInv
  <2>2. e.expires \in now + 1 .. now + Ttl
    BY <2>1 DEF EntryFine
  <2>3. e.expires \in now' + 1 .. now' + Ttl
    BY <1>1, <2>1, <2>2, TimesAssumption
  <2> QED
    BY <2>1, <2>3 DEF EntryFine
<1> QED
  BY <1>2, <1>3, <1>4 DEF IInv

LEMMA NextFine == IInv /\ [Next]_vars => IInv'
<1> SUFFICES ASSUME IInv, [Next]_vars PROVE IInv'
  OBVIOUS
<1>1. ASSUME NEW c \in Calls, CallStep(c) PROVE IInv'
  <2>1. CASE Arrive(c)
    BY <2>1, ArriveFine
  <2>2. CASE Refuse(c)
    BY <2>2, OverFine DEF Refuse
  <2>3. CASE Start(c)
    BY <2>3, StartFine
  <2>4. CASE Reply(c)
    BY <2>4, OverFine DEF Reply
  <2>5. CASE ReplyError(c)
    BY <2>5, ReplyErrorFine
  <2>6. CASE \E s \in DOMAIN call[c].strands : StrandStep(c, s)
    <3>1. PICK s \in DOMAIN call[c].strands : StrandStep(c, s)
      BY <2>6
    <3>2. CASE Hit(c, s)
      BY <3>2, HitFine
    <3>3. CASE Miss(c, s)
      BY <3>3, MissFine
    <3>4. CASE Fetched(c, s)
      BY <3>4, FetchedFine
    <3>5. CASE NotThere(c, s)
      BY <3>5, NotThereFine
    <3>6. CASE FetchedEach(c, s)
      BY <3>6, FetchedEachFine
    <3>7. CASE Fail(c, s)
      BY <3>7, FailFine
    <3> QED
      BY <3>1, <3>2, <3>3, <3>4, <3>5, <3>6, <3>7 DEF StrandStep
  <2> QED
    BY <1>1, <2>1, <2>2, <2>3, <2>4, <2>5, <2>6 DEF CallStep
<1>2. CASE Tick
  BY <1>2, TickFine
<1>3. CASE UNCHANGED vars
  BY <1>3 DEF vars, IInv, GatewayFine, CallsFine
<1> QED
  BY <1>1, <1>2, <1>3 DEF Next

\* The invariant holds in every state.
LEMMA Fine == Spec => []IInv
<1> QED
  BY InitFine, NextFine, PTL DEF Spec

-----------------------------------------------------------------------------
(* What the invariant comes to.                                            *)

LEMMA ReadClient ==
    ASSUME NEW d, NEW t, NEW s, NEW read \in ReadsIn(d, t, s)
    PROVE  read.client \in {Tool[t].strands[s][r].client : r \in DOMAIN Tool[t].strands[s]}
<1>1. PICK r \in DOMAIN Tool[t].strands[s], g \in AllowedLists(d) :
            read = [client |-> Tool[t].strands[s][r].client, regions |-> g]
  BY DEF ReadsIn
<1>2. read.client = Tool[t].strands[s][r].client
  BY <1>1
<1> QED
  BY <1>2

\* The state has its types: a strand that makes a step makes it for a client of its
\* call's tool, and every call under way has passed the policy.
THEOREM TypeCorrect == Spec => []TypeOK
<1>1. ASSUME IInv PROVE TypeOK
  <2>1. /\ now \in 0 .. MaxTime /\ deployment \in Deployment
        /\ workload \in [Calls -> SUBSET Tools]
    BY <1>1 DEF IInv, GatewayFine, DeploymentOK
  <2>2. ASSUME NEW e \in kv
        PROVE  /\ e.answer.client \in DOMAIN Client /\ Client[e.answer.client].cached
               /\ DOMAIN e.key = Client[e.answer.client].keyed
               /\ e.expires \in now + 1 .. now + Ttl
    BY <1>1 DEF IInv, EntryFine
  <2>3. ASSUME NEW c \in Calls
        PROVE  /\ call[c].pc \in {"idle", "asked", "refused", "running", "done", "failed"}
               /\ call[c].pc \in {"asked", "running", "failed"} =>
                     call[c].tool \in workload[c] /\ call[c].args \in ArgsOf(call[c].tool)
               /\ call[c].since \in 0 .. now
    BY SMTT(30), <1>1 DEF IInv, CallsFine, CallFine
  <2>4. ASSUME NEW c \in Calls, NEW s \in DOMAIN call[c].strands
        PROVE  LET strand == call[c].strands[s]
               IN /\ strand.stage = 0 \/ strand.stage \in DOMAIN ClientOf(strand).steps
                  /\ \A i \in DOMAIN strand.todo :
                        strand.todo[i].client \in
                            {Tool[call[c].tool].strands[s][r].client :
                                r \in DOMAIN Tool[call[c].tool].strands[s]}
    <3> DEFINE strand == call[c].strands[s]
    <3>1. StrandFine(deployment, call[c].tool, s, strand)
      BY <1>1, StrandOf
    <3>2. strand.stage = 0 \/ strand.stage \in DOMAIN ClientOf(strand).steps
      <4>1. CASE strand.stage # 0
        <5>1. strand.todo # <<>> /\ strand.stage \in 1 .. Len(ClientOf(strand).steps)
          BY Zenon, <3>1, <4>1 DEF StrandFine, StepFine, ClientOf
        <5>2. ClientOK(ClientOf(strand))
          BY SMTT(30), <1>1, <5>1, ReadOf
        <5> QED
          BY SMTT(30), <5>1, <5>2 DEF ClientOK, StepsOK
      <4> QED
        BY <4>1
    <3>3. ASSUME NEW i \in DOMAIN strand.todo
          PROVE  strand.todo[i].client \in {Tool[call[c].tool].strands[s][r].client :
                                               r \in DOMAIN Tool[call[c].tool].strands[s]}
      <4>1. strand.todo[i] \in ReadsIn(deployment, call[c].tool, s)
        BY <3>1 DEF StrandFine
      <4> HIDE DEF strand
      <4> QED
        BY <4>1, ReadClient
    <3> QED
      BY Zenon, <3>2, <3>3
  <2> QED
    BY Zenon, <2>1, <2>2, <2>3, <2>4 DEF TypeOK
<1> QED
  BY <1>1, Fine, PTL

\* An answer that leaves something out is not empty, in use or in the cache: so it
\* is for every number of calls and regions, and for every list of steps that a
\* client of the catalog has.
THEOREM PartialAnswersHaveItems == Spec => []PartialHasItems
<1>1. ASSUME IInv PROVE PartialHasItems
  <2> SUFFICES ASSUME NEW answer \in AnswersHeld, answer.missing # {} PROVE answer.items
    BY DEF PartialHasItems
  <2>1. CASE \E e \in kv : answer = e.answer
    BY <1>1, <2>1 DEF IInv, EntryFine, AnswerFine
  <2>2. CASE \E c \in Calls : \E s \in DOMAIN call[c].strands :
               call[c].strands[s].stage = 0 /\ answer = call[c].strands[s].answer
    <3>1. PICK c \in Calls : \E s \in DOMAIN call[c].strands :
                call[c].strands[s].stage = 0 /\ answer = call[c].strands[s].answer
      BY <2>2
    <3>2. PICK s \in DOMAIN call[c].strands :
                call[c].strands[s].stage = 0 /\ answer = call[c].strands[s].answer
      BY <3>1
    <3>3. answer = NoAnswer \/ AnswerFine(answer, call[c].strands[s].params)
      BY <1>1, <3>2, StrandOf DEF StrandFine
    <3> QED
      BY <3>3 DEF AnswerFine, NoAnswer
  <2> QED
    BY <2>1, <2>2 DEF AnswersHeld
<1> QED
  BY <1>1, Fine, PTL

-----------------------------------------------------------------------------
(* The times of answers.                                                   *)

\* When an answer was made, if its client's key does not say it.
FreshFor(a, params) ==
    Timed(Client[a.client]) =>
        /\ a.of["times"] \in Nat
        /\ params["times"] \in a.of["times"] .. a.of["times"] + Ttl + MaxDuration - 1

\* A strand of a call that started at "since": it reads within the time of the call.
StrandTimed(n, since, x) ==
    /\ x.todo # <<>> => n <= since + MaxDuration
    /\ x.stage # 0 => x.params["times"] \in since .. n
    /\ x.stage = 0 /\ x.answer # NoAnswer => FreshFor(x.answer, x.params)

\* An answer in the cache was made no longer before it was stored than a call takes.
EntryTimed(n, e) ==
    Timed(Client[e.answer.client]) =>
        /\ e.answer.of["times"] \in 0 .. n
        /\ e.expires <= e.answer.of["times"] + Ttl + MaxDuration

StrandsTimed ==
    \A c \in Calls : \A s \in DOMAIN call[c].strands :
        StrandTimed(now, call[c].since, call[c].strands[s])

TInv == StrandsTimed /\ \A e \in kv : EntryTimed(now, e)

\* What the clock and the bounds are.
LEMMA Clock ==
    ASSUME IInv
    PROVE  /\ now \in Nat /\ Ttl \in Nat \ {0} /\ MaxDuration \in Nat
           /\ \A c \in Calls : call[c].since \in Nat /\ call[c].since <= now
BY SMTT(30), TimesAssumption DEF IInv, GatewayFine, CallsFine, CallFine

\* A strand changes, and only that.
LEMMA StrandTimedChange ==
    ASSUME IInv, TInv, NEW c \in Calls, NEW s \in DOMAIN call[c].strands, NEW x,
           StrandTimed(now, call[c].since, x), SetStrand(c, s, x), UNCHANGED now
    PROVE  StrandsTimed'
<1>1. call = [b \in Calls |-> call[b]] /\ IsCall(call[c])
  BY SMTT(30) DEF IInv, CallsFine, CallFine
<1> DEFINE k == [call[c] EXCEPT !.strands[s] = x]
<1>2. call' = [b \in Calls |-> IF b = c THEN k ELSE call[b]]
  BY <1>1 DEF SetStrand
<1>3. k.since = call[c].since /\ k.strands = [call[c].strands EXCEPT ![s] = x]
  BY <1>1 DEF IsCall
<1> HIDE DEF k
<1>4. ASSUME NEW b \in Calls, NEW r \in DOMAIN call'[b].strands
      PROVE  StrandTimed(now, call'[b].since, call'[b].strands[r])
  <2>1. CASE b = c
    <3>1. /\ call'[b].since = call[c].since /\ r \in DOMAIN call[c].strands
          /\ call'[b].strands[r] = IF r = s THEN x ELSE call[c].strands[r]
      BY <1>2, <1>3, <2>1
    <3> QED
      BY <3>1 DEF TInv, StrandsTimed
  <2>2. CASE b # c
    BY <1>2, <2>2 DEF TInv, StrandsTimed
  <2> QED
    BY <2>1, <2>2
<1> QED
  BY <1>4 DEF StrandsTimed

\* A read is over: its strand has no more to do than it had.
LEMMA AfterTimed ==
    ASSUME IInv, TInv, NEW c \in Calls, NEW s \in DOMAIN call[c].strands,
           call[c].strands[s].todo # <<>>, NEW params, NEW answer, FreshFor(answer, params),
           SetStrand(c, s, After(call[c].strands[s], params, answer)), UNCHANGED now
    PROVE  StrandsTimed'
<1> DEFINE strand == call[c].strands[s]
           x == After(strand, params, answer)
<1>1. x.stage = 0 /\ x.params = params /\ x.answer = answer
  BY StrandOf, AfterRecord DEF StrandFine
<1>2. now <= call[c].since + MaxDuration
  BY DEF TInv, StrandsTimed, StrandTimed
<1> HIDE DEF x
<1>3. StrandTimed(now, call[c].since, x)
  BY <1>1, <1>2 DEF StrandTimed
<1> QED
  BY <1>3, StrandTimedChange DEF x

LEMMA HitTimed ==
    ASSUME IInv, TInv, NEW c \in Calls, NEW s \in DOMAIN call[c].strands, Hit(c, s)
    PROVE  TInv'
<1> DEFINE strand == call[c].strands[s]
           params == Params(Head(strand.todo), call[c].tool, call[c].args)
<1>1. PICK e \in kv : SetStrand(c, s, After(strand, params, e.answer))
  BY DEF Hit
<1>2. UNCHANGED <<now, kv>> /\ strand.todo # <<>>
  BY DEF Hit, Looks
<1>3. params["times"] = now
  BY DEF Params
<1> HIDE DEF params
<1>4. FreshFor(e.answer, params)
  <2>1. EntryTimed(now, e) /\ e.expires \in now + 1 .. now + Ttl
    BY DEF IInv, EntryFine, TInv
  <2> QED
    BY <1>3, <2>1, Clock DEF EntryTimed, FreshFor
<1>5. StrandsTimed'
  BY <1>1, <1>2, <1>4, AfterTimed
<1> QED
  BY <1>2, <1>5 DEF TInv

LEMMA MissTimed ==
    ASSUME IInv, TInv, NEW c \in Calls, NEW s \in DOMAIN call[c].strands, Miss(c, s)
    PROVE  TInv'
<1> DEFINE strand == call[c].strands[s]
           params == Params(Head(strand.todo), call[c].tool, call[c].args)
           answer == AnswerOf(strand, params, {}, TRUE)
           x == Begun(strand, params, answer)
<1>1. SetStrand(c, s, x) /\ UNCHANGED <<now, kv>> /\ strand.todo # <<>>
  BY DEF Miss, Looks, Begun
<1>2. params["times"] = now
  BY DEF Params
<1> HIDE DEF params, answer
<1>3. x.stage = 1 /\ x.params = params
  BY StrandOf, BegunRecord DEF StrandFine
<1>4. now <= call[c].since + MaxDuration
  BY <1>1 DEF TInv, StrandsTimed, StrandTimed
<1> HIDE DEF x
<1>5. StrandTimed(now, call[c].since, x)
  BY <1>2, <1>3, <1>4, Clock DEF StrandTimed
<1>6. StrandsTimed'
  BY <1>1, <1>5, StrandTimedChange
<1> QED
  BY <1>1, <1>6 DEF TInv

\* An answer of a step was made at the time of its parameters.
LEMMA FinishTimed ==
    ASSUME IInv, TInv, NEW c \in Calls, NEW s \in DOMAIN call[c].strands, Steps(c, s),
           NEW answer, answer.client = call[c].strands[s].answer.client,
           answer.of = call[c].strands[s].answer.of, Finish(c, s, answer)
    PROVE  TInv'
<1> DEFINE strand == call[c].strands[s]
           entry == [key |-> KeyOf(strand, strand.params), answer |-> answer,
                     expires |-> now + Ttl]
<1>1. /\ SetStrand(c, s, After(strand, strand.params, answer))
      /\ UNCHANGED now
      /\ UNCHANGED kv \/ kv' = kv \cup {entry}
  BY DEF Finish, FinishFor
<1>2. /\ strand.todo # <<>>
      /\ answer.of = Restrict(strand.params, Client[answer.client].made)
      /\ strand.stage # 0
  <2>1. strand.stage # 0
    BY SMTT(30), StrandOf DEF Steps, StrandFine
  <2> QED
    BY ZenonT(30), <2>1, StepAt DEF StepFine
<1>3. strand.params["times"] \in call[c].since .. now /\ now <= call[c].since + MaxDuration
  BY <1>2 DEF TInv, StrandsTimed, StrandTimed
<1>4. ASSUME Timed(Client[answer.client]) PROVE answer.of["times"] = strand.params["times"]
  BY <1>2, <1>4 DEF Timed, Restrict
<1>5. FreshFor(answer, strand.params)
  <2> HIDE DEF strand
  <2> QED
    BY <1>3, <1>4, Clock DEF FreshFor
<1>6. StrandsTimed'
  BY <1>1, <1>2, <1>5, AfterTimed
<1>7. EntryTimed(now, entry)
  <2>1. entry.answer = answer /\ entry.expires = now + Ttl
    OBVIOUS
  <2> HIDE DEF entry, strand
  <2> QED
    BY <1>3, <1>4, <2>1, Clock DEF EntryTimed
<1> HIDE DEF entry
<1> QED
  BY <1>1, <1>6, <1>7 DEF TInv

LEMMA FetchedTimed ==
    ASSUME IInv, TInv, NEW c \in Calls, NEW s \in DOMAIN call[c].strands, Fetched(c, s)
    PROVE  TInv'
<1> DEFINE strand == call[c].strands[s]
<1>1. Steps(c, s)
  BY SMTT(30) DEF Fetched
<1>2. PICK lost : \/ Finish(c, s, Losing(strand.answer, lost))
                  \/ /\ SetStrand(c, s, Advanced(strand, Losing(strand.answer, lost)))
                     /\ UNCHANGED <<now, kv>>
  BY Zenon DEF Fetched, Losing, Advanced
<1> DEFINE answer == Losing(strand.answer, lost)
           x == Advanced(strand, answer)
<1>3. IsStrand(strand) /\ IsAnswer(strand.answer) /\ strand.todo # <<>>
  BY <1>1, StepAt
<1>4. answer.client = strand.answer.client /\ answer.of = strand.answer.of
  BY <1>3 DEF Losing, IsAnswer
<1>5. CASE Finish(c, s, answer)
  BY <1>1, <1>4, <1>5, FinishTimed
<1>6. CASE SetStrand(c, s, x) /\ UNCHANGED <<now, kv>>
  <2> HIDE DEF answer
  <2>1. x.stage = strand.stage + 1 /\ x.params = strand.params /\ x.todo = strand.todo
    BY <1>3, AdvancedRecord
  <2>2. strand.stage \in Nat /\ strand.stage # 0
    BY SMTT(30), <1>1, StrandOf DEF Steps, StrandFine
  <2>3. strand.params["times"] \in call[c].since .. now /\ now <= call[c].since + MaxDuration
    BY <1>3, <2>2 DEF TInv, StrandsTimed, StrandTimed
  <2> HIDE DEF x, strand
  <2>4. StrandTimed(now, call[c].since, x)
    BY <2>1, <2>2, <2>3 DEF StrandTimed
  <2>5. StrandsTimed'
    BY <1>6, <2>4, StrandTimedChange
  <2> QED
    BY <1>6, <2>5 DEF TInv
<1> QED
  BY <1>2, <1>5, <1>6

LEMMA NotThereTimed ==
    ASSUME IInv, TInv, NEW c \in Calls, NEW s \in DOMAIN call[c].strands, NotThere(c, s)
    PROVE  TInv'
<1> DEFINE old == call[c].strands[s].answer
           answer == Absent(old)
<1>1. Steps(c, s) /\ Finish(c, s, answer)
  BY Zenon DEF NotThere, Absent
<1>2. IsAnswer(old)
  BY <1>1, StepAt
<1>3. answer.client = old.client /\ answer.of = old.of
  <2> HIDE DEF old
  <2> QED
    BY <1>2, AbsentRecord
<1> HIDE DEF answer
<1> QED
  BY <1>1, <1>3, FinishTimed

LEMMA FetchedEachTimed ==
    ASSUME IInv, TInv, NEW c \in Calls, NEW s \in DOMAIN call[c].strands, FetchedEach(c, s)
    PROVE  TInv'
<1> DEFINE old == call[c].strands[s].answer
<1>1. PICK failed, items : Finish(c, s, OfRegions(old, failed, items))
  BY Zenon DEF FetchedEach, OfRegions
<1> DEFINE answer == OfRegions(old, failed, items)
<1>2. Steps(c, s)
  BY DEF FetchedEach
<1>3. IsAnswer(old)
  BY <1>2, StepAt
<1>4. answer.client = old.client /\ answer.of = old.of
  <2> HIDE DEF old
  <2> QED
    BY <1>3, OfRegionsRecord
<1>5. Finish(c, s, answer)
  BY <1>1
<1> HIDE DEF answer
<1> QED
  BY <1>2, <1>4, <1>5, FinishTimed

LEMMA FailTimed ==
    ASSUME IInv, TInv, NEW c \in Calls, NEW s \in DOMAIN call[c].strands, Fail(c, s)
    PROVE  TInv'
<1> DEFINE x == Failing(Strand(<<>>))
<1>1. SetStrand(c, s, x) /\ UNCHANGED <<now, kv>>
  BY DEF Fail, Failing
<1>2. x.todo = <<>> /\ x.stage = 0 /\ x.answer = NoAnswer
  BY StrandRecord, FailingRecord
<1> HIDE DEF x
<1>3. StrandTimed(now, call[c].since, x)
  BY <1>2 DEF StrandTimed
<1> QED
  BY <1>1, <1>3, StrandTimedChange DEF TInv

\* A call becomes another.
LEMMA CallTimedChange ==
    ASSUME IInv, TInv, NEW c \in Calls, NEW k, call' = [call EXCEPT ![c] = k],
           \A s \in DOMAIN k.strands : StrandTimed(now, k.since, k.strands[s]),
           UNCHANGED <<now, kv>>
    PROVE  TInv'
<1>1. call' = [b \in Calls |-> IF b = c THEN k ELSE call[b]]
  BY DEF IInv, CallsFine
<1>2. StrandsTimed'
  BY <1>1 DEF TInv, StrandsTimed
<1> QED
  BY <1>2 DEF TInv

LEMMA StartTimed ==
    ASSUME IInv, TInv, NEW c \in Calls, Start(c)
    PROVE  TInv'
<1> DEFINE plan == Plan(deployment, call[c].tool, call[c].args)
           strands == [s \in DOMAIN plan |-> Strand(plan[s])]
           k == Started(call[c], now, strands)
<1>1. call' = [call EXCEPT ![c] = k] /\ UNCHANGED <<now, kv>>
  BY DEF Start, Started
<1> HIDE DEF plan
<1>2. k.since = now /\ k.strands = strands
  BY SMTT(30), StartedRecord DEF IInv, CallsFine, CallFine
<1>3. ASSUME NEW s \in DOMAIN strands PROVE StrandTimed(now, now, strands[s])
  <2>1. strands[s].stage = 0 /\ strands[s].answer = NoAnswer
    BY StrandRecord
  <2>2. now <= now + MaxDuration
    BY Clock
  <2> HIDE DEF strands
  <2> QED
    BY <2>1, <2>2 DEF StrandTimed
<1> HIDE DEF k, strands
<1> QED
  BY <1>1, <1>2, <1>3, CallTimedChange

\* Calls that arrive or are over have no strands, and a call that fails keeps its own.
LEMMA CallTimed ==
    ASSUME IInv, TInv, NEW c \in Calls,
           Arrive(c) \/ Refuse(c) \/ Reply(c) \/ ReplyError(c)
    PROVE  TInv'
<1>1. CallFine(deployment, workload[c], now, call[c])
  BY DEF IInv, CallsFine
<1>2. CASE Arrive(c)
  <2>1. PICK t, a : call' = [call EXCEPT ![c] = Arrived(call[c], t, a)]
    BY Zenon, <1>2 DEF Arrive, Arrived
  <2> DEFINE k == Arrived(call[c], t, a)
  <2>2. k.strands = call[c].strands
    BY <1>1, ArrivedRecord DEF CallFine
  <2>3. call[c].strands = <<>> /\ UNCHANGED <<now, kv>>
    BY <1>1, <1>2 DEF Arrive, CallFine
  <2> HIDE DEF k
  <2>4. \A s \in DOMAIN k.strands : StrandTimed(now, k.since, k.strands[s])
    BY <2>2, <2>3
  <2> QED
    BY <2>1, <2>3, <2>4, CallTimedChange DEF k
<1>3. CASE Refuse(c) \/ Reply(c)
  <2>1. PICK pc : call' = [call EXCEPT ![c] = [InitialCall EXCEPT !.pc = pc]]
    BY Zenon, <1>3 DEF Refuse, Reply
  <2> DEFINE k == [InitialCall EXCEPT !.pc = pc]
  <2>2. k.strands = <<>>
    BY DEF InitialCall
  <2>3. UNCHANGED <<now, kv>>
    BY <1>3 DEF Refuse, Reply
  <2> HIDE DEF k
  <2>4. \A s \in DOMAIN k.strands : StrandTimed(now, k.since, k.strands[s])
    BY <2>2
  <2> QED
    BY <2>1, <2>3, <2>4, CallTimedChange DEF k
<1>4. CASE ReplyError(c)
  <2>1. call' = [call EXCEPT ![c] = FailedCall(call[c])] /\ UNCHANGED <<now, kv>>
    <3>1. call' = [call EXCEPT ![c].pc = "failed"] /\ UNCHANGED <<now, kv>>
      BY <1>4 DEF ReplyError
    <3> QED
      BY <3>1 DEF FailedCall
  <2>2. FailedCall(call[c]).since = call[c].since /\ FailedCall(call[c]).strands = call[c].strands
    BY <1>1, FailedRecord DEF CallFine
  <2> QED
    BY <2>1, <2>2, CallTimedChange DEF TInv, StrandsTimed
<1> QED
  BY <1>2, <1>3, <1>4

LEMMA TickTimed ==
    ASSUME IInv, TInv, Tick
    PROVE  TInv'
<1>1. /\ now' = now + 1 /\ UNCHANGED call /\ kv' \subseteq kv
      /\ \A c \in Calls : Busy(c) => now < call[c].since + MaxDuration
  BY DEF Tick
<1>2. ASSUME NEW c \in Calls, NEW s \in DOMAIN call[c].strands
      PROVE  StrandTimed(now', call[c].since, call[c].strands[s])
  <2>1. StrandTimed(now, call[c].since, call[c].strands[s])
    BY DEF TInv, StrandsTimed
  <2>2. call[c].strands[s].todo # <<>> => now < call[c].since + MaxDuration
    BY <1>1, StrandOf DEF Busy
  <2>3. call[c].since \in Nat /\ now \in Nat /\ MaxDuration \in Nat
    BY Clock
  <2> QED
    BY <1>1, <2>1, <2>2, <2>3 DEF StrandTimed
<1>3. ASSUME NEW e \in kv PROVE EntryTimed(now', e)
  BY <1>1, Clock DEF TInv, EntryTimed
<1> QED
  BY <1>1, <1>2, <1>3 DEF TInv, StrandsTimed

LEMMA NextTimed == IInv /\ TInv /\ [Next]_vars => TInv'
<1> SUFFICES ASSUME IInv, TInv, [Next]_vars PROVE TInv'
  OBVIOUS
<1>1. ASSUME NEW c \in Calls, CallStep(c) PROVE TInv'
  <2>1. CASE Arrive(c) \/ Refuse(c) \/ Reply(c) \/ ReplyError(c)
    BY <2>1, CallTimed
  <2>2. CASE Start(c)
    BY <2>2, StartTimed
  <2>3. CASE \E s \in DOMAIN call[c].strands : StrandStep(c, s)
    <3>1. PICK s \in DOMAIN call[c].strands : StrandStep(c, s)
      BY <2>3
    <3>2. CASE Hit(c, s)
      BY <3>2, HitTimed
    <3>3. CASE Miss(c, s)
      BY <3>3, MissTimed
    <3>4. CASE Fetched(c, s)
      BY <3>4, FetchedTimed
    <3>5. CASE NotThere(c, s)
      BY <3>5, NotThereTimed
    <3>7. CASE FetchedEach(c, s)
      BY <3>7, FetchedEachTimed
    <3>6. CASE Fail(c, s)
      BY <3>6, FailTimed
    <3> QED
      BY <3>1, <3>2, <3>3, <3>4, <3>5, <3>6, <3>7 DEF StrandStep
  <2> QED
    BY <1>1, <2>1, <2>2, <2>3 DEF CallStep
<1>2. CASE Tick
  BY <1>2, TickTimed
<1>3. CASE UNCHANGED vars
  BY <1>3 DEF vars, TInv, StrandsTimed
<1> QED
  BY <1>1, <1>2, <1>3 DEF Next

LEMMA InitTimed == Init => TInv
<1> SUFFICES ASSUME Init PROVE TInv
  OBVIOUS
<1>1. kv = {} /\ \A c \in Calls : call[c].strands = <<>>
  BY DEF Init, InitialCall
<1> QED
  BY <1>1 DEF TInv, StrandsTimed

LEMMA InTime == Spec => [](IInv /\ TInv)
<1>1. IInv /\ TInv /\ [Next]_vars => (IInv /\ TInv)'
  BY NextFine, NextTimed
<1>2. Init => IInv /\ TInv
  BY InitFine, InitTimed
<1> QED
  BY <1>1, <1>2, PTL DEF Spec

\* Every read is answered by what its own request would have been answered with,
\* whichever call and tool the answer was made for, or, where the key leaves out the
\* time, would have been less than a TTL and the time of a call ago.
THEOREM AnswersAreAsked == Spec => []AnswersAsked
<1>1. ASSUME IInv, TInv PROVE AnswersAsked
  <2> SUFFICES ASSUME NEW c \in Calls, NEW s \in DOMAIN call[c].strands,
                      call[c].strands[s].stage = 0, call[c].strands[s].answer # NoAnswer
               PROVE  Answers(call[c].strands[s].answer, call[c].strands[s].params)
    BY DEF AnswersAsked
  <2> DEFINE answer == call[c].strands[s].answer
             params == call[c].strands[s].params
             client == Client[answer.client]
  <2>1. AnswerFine(answer, params)
    BY <1>1, StrandOf DEF StrandFine
  <2>2. FreshFor(answer, params)
    BY <1>1 DEF TInv, StrandsTimed, StrandTimed
  <2> HIDE DEF answer, params
  <2>3. ClientOK(client)
    BY <2>1, ClientsOK DEF AnswerFine
  <2>4. ASSUME NEW x \in client.made, x \in client.keyed \/ x # "times"
        PROVE  answer.of[x] = params[x]
    <3>1. x \in Shown(client)
      BY <2>3, <2>4 DEF ClientOK, Shown
    <3>2. Restrict(answer.of, Shown(client)) = Restrict(params, Shown(client))
      BY <2>1 DEF AnswerFine
    <3>3. Restrict(answer.of, Shown(client))[x] = answer.of[x]
          /\ Restrict(params, Shown(client))[x] = params[x]
      BY <3>1 DEF Restrict
    <3> QED
      BY <3>2, <3>3
  <2> QED
    BY <2>2, <2>4 DEF Answers, FreshFor, answer, params
<1> QED
  BY <1>1, InTime, PTL

-----------------------------------------------------------------------------
(* The requests of a call.                                                 *)

\* A request that a step of a client makes: it is granted, and in an allowed region
\* unless its service or its bucket is elsewhere.
LEMMA StepRequest ==
    ASSUME NEW d, NEW k \in DOMAIN Client, NEW i \in 1 .. Len(Client[k].steps),
           NEW x \in Client[k].steps[i].asks, NEW q,
           q.capability = x, q.where = Client[k].steps[i].where,
           q.where \in {"us-east-1", "bucket"} \/ q.region \in ToSet(d.allowed)
    PROVE  /\ x \in AsksOf(k)
           /\ IamAction(x) \in ReadonlyPolicy
           /\ \/ q.region \in ToSet(d.allowed)
              \/ q.where = "bucket"
              \/ IamAction(x) \in {"s3:ListAllMyBuckets", "budgets:ViewBudget"}
<1>1. ClientOK(Client[k])
  BY ClientsOK
<1>2. i \in DOMAIN Client[k].steps /\ Grantable(Client[k].steps[i], x)
  BY <1>1 DEF ClientOK, StepsOK
<1>3. x \in AsksOf(k)
  BY <1>2 DEF AsksOf
<1> QED
  BY <1>2, <1>3 DEF Grantable

RequestFine(d, t, q) ==
    /\ q.capability \in Tool[t].capabilities \cup Undeclared(t)
    /\ q.capability # "sts:AssumeRole" => IamAction(q.capability) \in ReadonlyPolicy
    /\ \/ q.region \in ToSet(d.allowed)
       \/ q.where = "bucket"
       \/ IamAction(q.capability) \in {"s3:ListAllMyBuckets", "budgets:ViewBudget"}

LEMMA SectionRequestFine ==
    ASSUME NEW t \in Tools, Tool[t].sections # {}, DeploymentOK(deployment),
           NEW q \in SectionRequests(t)
    PROVE  RequestFine(deployment, t, q)
<1>1. SectionsOK(Tool[t], Tool[t].capabilities \cup Undeclared(t))
  BY ToolsOK DEF ToolOK
<1>2. CASE q = Request("sts:AssumeRole", "asked", deployment.own)
  <2>1. q.capability = "sts:AssumeRole" /\ q.region = deployment.own
    BY <1>2 DEF Request
  <2>2. "sts:AssumeRole" \in Tool[t].capabilities /\ deployment.own \in ToSet(deployment.allowed)
    BY <1>1 DEF SectionsOK, DeploymentOK
  <2> QED
    BY <2>1, <2>2 DEF RequestFine
<1>3. CASE q # Request("sts:AssumeRole", "asked", deployment.own)
  <2> DEFINE clients == UNION {SectionClients[s] : s \in Tool[t].sections}
             steps == UNION {ToSet(Client[k].steps) : k \in clients}
  <2>1. PICK step \in steps : \E x \in step.asks, r \in ToSet(deployment.allowed) :
              q = Request(x, step.where, r)
    BY <1>3 DEF SectionRequests
  <2>2. PICK x \in step.asks, r \in ToSet(deployment.allowed) : q = Request(x, step.where, r)
    BY <2>1
  <2>3. PICK k \in clients : step \in ToSet(Client[k].steps)
    BY <2>1
  <2>4. k \in DOMAIN Client /\ AsksOf(k) \subseteq Tool[t].capabilities \cup Undeclared(t)
    BY <1>1, <2>3 DEF SectionsOK
  <2>5. PICK i \in 1 .. Len(Client[k].steps) : step = Client[k].steps[i]
    <3>1. ClientOK(Client[k])
      BY <2>4, ClientsOK
    <3> QED
      BY <2>3, <3>1 DEF ClientOK, StepsOK, ToSet
  <2>6. q.capability = x /\ q.where = step.where /\ q.region = r
    BY <2>2 DEF Request
  <2> HIDE DEF clients, steps
  <2>7. /\ x \in AsksOf(k) /\ IamAction(x) \in ReadonlyPolicy
        /\ q.region \in ToSet(deployment.allowed)
    BY ZenonT(30), <2>2, <2>4, <2>5, <2>6, StepRequest
  <2> QED
    BY <2>4, <2>6, <2>7 DEF RequestFine
<1> QED
  BY <1>2, <1>3

LEMMA StrandRequestFine ==
    ASSUME IInv, NEW c \in Calls, NEW s \in DOMAIN call[c].strands, Steps(c, s),
           NEW x \in StepOf(call[c].strands[s]).asks,
           NEW r \in RequestRegions(call[c].strands[s]),
           NEW q, q = Request(x, StepOf(call[c].strands[s]).where, r)
    PROVE  RequestFine(deployment, call[c].tool, q)
<1> DEFINE strand == call[c].strands[s]
           read == Head(strand.todo)
           k == read.client
           i == strand.stage
           step == Client[k].steps[i]
<1>1. StepOf(strand) = step
  BY Zenon DEF StepOf, ClientOf
<1>2. /\ strand.todo # <<>> /\ StepFine(Client[k], read, strand)
  BY SMTT(30), StepAt
<1>3. /\ k \in DOMAIN Client
      /\ AsksOf(k) \subseteq Tool[call[c].tool].capabilities \cup Undeclared(call[c].tool)
      /\ ToSet(read.regions) \subseteq ToSet(deployment.allowed)
  BY ZenonT(30), <1>2, ReadOf
<1>4. i \in 1 .. Len(Client[k].steps) /\ DOMAIN strand.params.regions = ToSet(read.regions)
  BY ZenonT(30), <1>2 DEF StepFine
<1>5. q.capability = x /\ q.where = step.where /\ q.region = r
  BY Zenon, <1>1 DEF Request
<1>6. q.where \in {"us-east-1", "bucket"} \/ q.region \in ToSet(deployment.allowed)
  <2>1. deployment.own \in ToSet(deployment.allowed)
    BY SMTT(30) DEF IInv, GatewayFine, DeploymentOK
  <2>2. r \in CASE step.where = "us-east-1" -> {"us-east-1"}
                [] step.where = "own" -> {deployment.own}
                [] step.where = "bucket" -> Regions
                [] OTHER -> DOMAIN strand.params.regions
    BY ZenonT(30), <1>1 DEF RequestRegions
  <2> HIDE DEF step, read
  <2> QED
    BY <1>3, <1>4, <1>5, <2>1, <2>2
<1>7. x \in step.asks
  BY Zenon, <1>1
<1> HIDE DEF strand, read, k, i
<1>8. /\ x \in AsksOf(k) /\ IamAction(x) \in ReadonlyPolicy
      /\ \/ q.region \in ToSet(deployment.allowed)
         \/ q.where = "bucket"
         \/ IamAction(x) \in {"s3:ListAllMyBuckets", "budgets:ViewBudget"}
  BY <1>3, <1>4, <1>5, <1>6, <1>7, StepRequest
<1> QED
  BY <1>3, <1>5, <1>8 DEF RequestFine

\* What a call asks, it asks for a tool that the policy has accepted.
LEMMA RequestsFine ==
    ASSUME IInv, NEW c \in Calls, NEW q \in InFlight(c)
    PROVE  /\ call[c].tool \in Exposed(deployment) /\ deployment.granted
           /\ RequestFine(deployment, call[c].tool, q)
<1>1. CallFine(deployment, workload[c], now, call[c])
  BY DEF IInv, CallsFine
<1>2. CASE call[c].pc = "running" /\ Tool[call[c].tool].sections # {}
  <2>1. call[c].tool \in Exposed(deployment) /\ deployment.granted
    BY <1>1, <1>2 DEF CallFine, RunFine
  <2>2. call[c].tool \in Tools /\ q \in SectionRequests(call[c].tool) /\ DeploymentOK(deployment)
    BY <1>2, <2>1 DEF Exposed, InFlight, IInv, GatewayFine
  <2> QED
    BY <1>2, <2>1, <2>2, SectionRequestFine
<1>3. CASE ~ (call[c].pc = "running" /\ Tool[call[c].tool].sections # {})
  <2>1. PICK s \in DOMAIN call[c].strands :
              /\ Steps(c, s)
              /\ \E x \in StepOf(call[c].strands[s]).asks,
                    r \in RequestRegions(call[c].strands[s]) :
                    q = Request(x, StepOf(call[c].strands[s]).where, r)
    BY <1>3 DEF InFlight
  <2>2. call[c].tool \in Exposed(deployment) /\ deployment.granted
    BY <1>1, StrandOf DEF CallFine, RunFine
  <2> QED
    BY <2>1, <2>2, StrandRequestFine
<1> QED
  BY <1>2, <1>3

\* A call asks AWS in the allowed regions, but for the services that have one
\* endpoint and for a bucket.
THEOREM RegionsAreAllowed == Spec => []RegionsAllowed
<1>1. ASSUME IInv PROVE RegionsAllowed
  BY <1>1, RequestsFine DEF RegionsAllowed, RequestFine
<1> QED
  BY <1>1, Fine, PTL

\* A call asks AWS for nothing but what the manifest of its tool declares, but for
\* the known few, and what the read-only policy grants, and its tool is exposed.
THEOREM RequestsAreDeclared == Spec => []DeclaredRequests
<1>1. ASSUME IInv PROVE DeclaredRequests
  BY <1>1, RequestsFine DEF DeclaredRequests, RequestFine
<1> QED
  BY <1>1, Fine, PTL

\* A listed tool with arguments that its schema admits and that are proper.
LEMMA ProperAccepted ==
    ASSUME IInv, NEW t \in PubliclyListed(deployment), NEW a \in ArgsOf(t), deployment.granted,
           SchemaAdmits(t, a), Proper(t, a)
    PROVE  Accepts(t, a)
<1>1. t \in Exposed(deployment) /\ t \in Tools /\ DeploymentOK(deployment)
  BY DEF PubliclyListed, Exposed, IInv, GatewayFine
<1>2. ManifestOK(t, Tool[t])
  BY <1>1, ToolsOK DEF ToolOK
<1>3. MetadataAllowed(deployment, t) /\ CostControlled(t)
  BY <1>1, <1>2 DEF MetadataAllowed, CostControlled, ManifestOK
<1>4. Regional(deployment, t, a)
  <2>1. ASSUME SingleRegion(t) PROVE RegionOf(deployment, t, a) \in ToSet(deployment.allowed)
    <3>1. CASE Tool[t].region = "own"
      BY <1>1, <3>1 DEF RegionOf, DeploymentOK
    <3>2. CASE Tool[t].region = "us-east-1"
      BY <1>2, <3>2 DEF RegionOf, ManifestOK, Proper
    <3>3. CASE Tool[t].region \notin {"own", "us-east-1"}
      BY <1>1, <3>3 DEF RegionOf, DeploymentOK, Proper
    <3> QED
      BY <3>1, <3>2, <3>3
  <2> QED
    BY <2>1 DEF Regional, RegionsResolve, Proper
<1>5. WithinBounds(deployment, t, a)
  <2>1. Tool[t].days > 0 => a.days <= Tool[t].days
    BY <1>2 DEF ManifestOK, Proper
  <2>2. Tool[t].results > 0 => a.limit <= Tool[t].results
    BY <1>2 DEF ManifestOK, SchemaAdmits
  <2>3. Tool[t].hours > 0 => a.hours <= Tool[t].hours
    BY <1>2 DEF ManifestOK, SchemaAdmits
  <2>4. Len(a.regions) <= Len(deployment.allowed)
    <3>1. a.regions \in Seq(Regions) /\ deployment.allowed \in Seq(Regions)
      BY <1>1, ArgsRegions DEF DeploymentOK, Deployment
    <3> QED
      BY <3>1, NoLonger DEF Proper
  <2> QED
    BY <2>1, <2>2, <2>3, <2>4 DEF WithinBounds
<1>6. HandlerAccepts(deployment, t, a)
  BY <1>4 DEF HandlerAccepts, Proper
<1> QED
  BY <1>1, <1>3, <1>4, <1>5, <1>6 DEF Accepts, Allowed

\* A step of a call leaves the others alone.
LEMMA OthersSame ==
    ASSUME NEW b \in Calls, CallStep(b), NEW c \in Calls \ {b}, IInv
    PROVE  call'[c] = call[c]
<1>0. call = [o \in Calls |-> call[o]]
  BY DEF IInv, CallsFine
<1>1. CASE Arrive(b) \/ Refuse(b) \/ Start(b) \/ Reply(b) \/ ReplyError(b)
  BY Zenon, <1>0, <1>1 DEF Arrive, Refuse, Start, Reply, ReplyError
<1>2. CASE \E s \in DOMAIN call[b].strands : StrandStep(b, s)
  <2>1. PICK s : StrandStep(b, s)
    BY SMTT(30), <1>2
  <2>2. \E x : SetStrand(b, s, x)
    BY Zenon, <2>1 DEF StrandStep, Hit, Miss, Fetched, NotThere, FetchedEach, Fail, Finish,
       FinishFor
  <2>3. PICK x : call' = [call EXCEPT ![b].strands[s] = x]
    BY <2>2 DEF SetStrand
  <2> QED
    BY <1>0, <2>3
<1> QED
  BY <1>1, <1>2 DEF CallStep

\* Nothing but a refusal refuses a call.
LEMMA OnlyRefuse ==
    ASSUME IInv, [Next]_vars, NEW c \in Calls, call[c].pc = "asked", call'[c].pc = "refused"
    PROVE  Refuse(c)
<1>0. call = [o \in Calls |-> call[o]]
  BY DEF IInv, CallsFine
<1>1. CASE Tick \/ UNCHANGED vars
  BY <1>1 DEF Tick, vars
<1>2. ASSUME NEW b \in Calls, CallStep(b) PROVE Refuse(c)
  <2>1. b = c
    BY <1>2, OthersSame
  <2>2. CallStep(c)
    BY <1>2, <2>1
  <2>3. ~ Arrive(c) /\ ~ Reply(c) /\ ~ ReplyError(c)
    BY DEF Arrive, Reply, ReplyError
  <2>4. ~ Start(c)
    <3>1. SUFFICES ASSUME Start(c) PROVE call'[c].pc = "running"
      BY SMTT(30)
    <3>2. PICK strands : call' = [call EXCEPT ![c] = Started(call[c], now, strands)]
      BY Zenon, <3>1 DEF Start, Started
    <3>3. IsCall(call[c])
      BY DEF IInv, CallsFine, CallFine
    <3> QED
      BY <1>0, <3>2, <3>3, StartedRecord
  <2>5. ASSUME NEW s \in DOMAIN call[c].strands PROVE FALSE
    BY StrandOf
  <2> QED
    BY <2>2, <2>3, <2>4, <2>5 DEF CallStep
<1> QED
  BY <1>1, <1>2 DEF Next

\* A tool that the gateway lists is not refused arguments that its schema admits,
\* in any deployment: the list, the schemas, the bounds of the policy and the
\* manifests agree.
THEOREM ListedAreCallable == Spec => ListedCallable
<1> DEFINE Served == \A c \in Calls :
                        call[c].pc = "asked" /\ call'[c].pc = "refused" =>
                            \/ call[c].tool \notin PubliclyListed(deployment)
                            \/ ~deployment.granted
                            \/ ~SchemaAdmits(call[c].tool, call[c].args)
                            \/ ~Proper(call[c].tool, call[c].args)
<1>1. ASSUME IInv, [Next]_vars PROVE Served
  <2> SUFFICES ASSUME NEW c \in Calls, call[c].pc = "asked", call'[c].pc = "refused",
                      call[c].tool \in PubliclyListed(deployment), deployment.granted,
                      SchemaAdmits(call[c].tool, call[c].args),
                      Proper(call[c].tool, call[c].args)
               PROVE  FALSE
    OBVIOUS
  <2>1. ~Accepts(call[c].tool, call[c].args)
    BY <1>1, OnlyRefuse DEF Refuse
  <2>2. call[c].args \in ArgsOf(call[c].tool)
    BY <1>1 DEF IInv, CallsFine, CallFine
  <2> QED
    BY <1>1, <2>1, <2>2, ProperAccepted
<1>2. Served => [Served]_vars
  OBVIOUS
<1> QED
  BY <1>1, Fine, PTL DEF Spec, ListedCallable

=============================================================================
