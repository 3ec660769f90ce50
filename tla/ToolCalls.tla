-------------------------------- MODULE ToolCalls --------------------------------
(***************************************************************************)
(* Calls of the tools of ToolCatalog: which tools a deployment shows, what *)
(* the input schemas and the tool policy refuse, and how the clients of a  *)
(* call answer from the cache or from AWS, with some regions failing, some *)
(* resources absent and some requests left out.                            *)
(*                                                                         *)
(* The calls of an isolate share the cache of answers.  Writes to it may   *)
(* be lost or seen late, and reading it may fail.  The sections of the     *)
(* application-ops tools are in ApplicationOps; here they are the requests *)
(* they may make.                                                          *)
(***************************************************************************)
EXTENDS ToolCatalog, FiniteSets, SequencesExt

CONSTANTS
    Calls,
    Regions,       \* the regions of AWS, among them us-east-1
    NoRegion,      \* a call without a region
    Names,         \* what calls may name, among them DefaultName
    DefaultName,   \* nothing named: no prefix, no filter
    RegionLists,   \* the lists of regions a call may give
    Environments,  \* a deployment of the gateway and, as a bound, what tools each
                   \* call may be of
    NoTool,
    Ttl,           \* the TTL of a cached answer
    MaxDuration,   \* bound: how long a call may run
    MaxTime        \* bound: how long the clock runs

ASSUME RegionsAssumption ==
    /\ "us-east-1" \in Regions
    /\ NoRegion \notin Regions
    /\ RegionLists \subseteq Seq(Regions) /\ <<>> \in RegionLists
    /\ DefaultName \in Names

Deployment ==
    [own : Regions, allowed : Seq(Regions), packs : SUBSET Packs, enabled : SUBSET Tools,
     disabled : SUBSET Tools, granted : BOOLEAN, cache : BOOLEAN]

ASSUME EnvironmentsAssumption ==
    \A e \in Environments :
        /\ e.deployment \in Deployment
        /\ e.deployment.own \in ToSet(e.deployment.allowed)
        /\ IsInjective(e.deployment.allowed)
        /\ e.tools \in [Calls -> SUBSET Tools]

ASSUME TimesAssumption == Ttl \in Nat \ {0} /\ MaxDuration \in Nat /\ MaxTime \in Nat

VARIABLES
    now,
    deployment,  \* the environment of the gateway
    workload,    \* bound: the tools each call may be of
    kv,          \* the answers a reader of the cache may find
    call         \* the tool calls

vars == <<now, deployment, workload, kv, call>>

-----------------------------------------------------------------------------
(* Exposure.                                                               *)

\* resolveExposedToolNames.  Every tool is read-only, and so is the risk a
\* deployment may allow.
Exposed(d) ==
    {t \in Tools :
        /\ Tool[t].pack \in d.packs
        /\ t \notin d.disabled
        /\ d.enabled # {} => t \in d.enabled}

\* All tools are registered, and the exposed ones are listed.
PubliclyListed(d) == Exposed(d)

\* What search and fetch know.
Catalogued(d) == PubliclyListed(d) \ {"search", "fetch"}

-----------------------------------------------------------------------------
(* Arguments, and what refuses them.                                       *)

DefaultArgs(t) ==
    [region |-> NoRegion, regions |-> <<>>, limit |-> Tool[t].limit, name |-> DefaultName,
     hours |-> IF Tool[t].topHours > 0 THEN 1 ELSE 0, days |-> Tool[t].days,
     parts |-> Tool[t].usual, id |-> NoTool]

\* What else each argument may be, beside its default.
OtherArgs(t) ==
    [region |-> IF Tool[t].region \in {"argument", "required"} THEN Regions ELSE {},
     regions |-> IF Tool[t].region = "allowed" THEN RegionLists ELSE {},
     limit |-> IF Tool[t].topLimit > 0 THEN {1, Tool[t].topLimit, Tool[t].topLimit + 1} ELSE {},
     name |-> IF Tool[t].named THEN Names ELSE {},
     hours |-> IF Tool[t].topHours > 0 THEN {Tool[t].topHours, Tool[t].topHours + 1} ELSE {},
     days |-> IF Tool[t].days > 0 THEN {Tool[t].days + 1} ELSE {},
     parts |-> SUBSET Tool[t].parts,
     id |-> IF t = "fetch" THEN Tools ELSE {}]

\* Bound: a call differs from the default in at most one argument; a tool that
\* requires a region is given one.
ArgsOf(t) ==
    LET usual == {[DefaultArgs(t) EXCEPT !.region = r] :
                     r \in IF Tool[t].region = "required" THEN Regions ELSE {NoRegion}}
    IN usual \cup UNION {{[a EXCEPT ![k] = v] : v \in OtherArgs(t)[k]} :
                            a \in usual, k \in DOMAIN DefaultArgs(t)}

\* The input schema, and what clients check of their arguments themselves.
SchemaAdmits(t, a) ==
    /\ Tool[t].topLimit > 0 => a.limit <= Tool[t].topLimit
    /\ Tool[t].topHours > 0 => a.hours <= Tool[t].topHours
    /\ t = "get_sns_topic_status" => Cardinality(a.parts) = 1

\* The region of a call: what the manifest tells the policy, and what the handler
\* goes by.
RegionOf(d, t, a) ==
    CASE Tool[t].region = "own" -> d.own
      [] Tool[t].region = "us-east-1" -> "us-east-1"
      [] OTHER -> IF a.region # NoRegion THEN a.region ELSE d.own

SingleRegion(t) == Tool[t].region \in {"own", "us-east-1", "argument", "required"}

FirstRegionResolves(d, regions) == regions # <<>> => Head(regions) \in ToSet(d.allowed)

\* resolveRegions: whether a list of regions is allowed, and what it comes to.
RegionsResolve(d, regions) == ToSet(regions) \subseteq ToSet(d.allowed)

Regional(d, t, a) ==
    /\ SingleRegion(t) => RegionOf(d, t, a) \in ToSet(d.allowed)
    /\ Tool[t].region = "allowed" => RegionsResolve(d, a.regions)

IamAction(capability) ==
    CASE capability = "s3:GetBucketEncryption" -> "s3:GetEncryptionConfiguration"
      [] capability \in {"budgets:DescribeBudgets", "budgets:DescribeNotificationsForBudget",
                         "budgets:DescribeSubscribersForNotification"} -> "budgets:ViewBudget"
      [] OTHER -> capability

\* infra/aws/iam-readonly-policy.json: what it grants.
ReadonlyPolicy ==
    {"ce:GetCostAndUsage", "ec2:DescribeInstances", "cloudwatch:DescribeAlarms",
     "lambda:ListFunctions", "s3:ListAllMyBuckets", "s3:GetBucketLocation",
     "s3:GetBucketPublicAccessBlock", "s3:GetEncryptionConfiguration",
     "s3:GetBucketVersioning", "s3:GetLifecycleConfiguration", "s3:GetBucketPolicyStatus",
     "ecr:DescribeImages", "ecr:DescribeImageScanFindings", "ecr:GetLifecyclePolicy",
     "logs:DescribeLogGroups", "logs:FilterLogEvents", "logs:DescribeLogStreams",
     "ecs:DescribeClusters", "ecs:DescribeServices", "ecs:ListTasks", "ecs:DescribeTasks",
     "ecs:DescribeTaskDefinition", "rds:DescribeDBInstances", "rds:DescribeDBSubnetGroups",
     "cloudwatch:GetMetricData", "ssm:DescribeParameters", "ses:GetConfigurationSet",
     "ses:GetConfigurationSetEventDestinations", "sns:ListTopics", "sns:GetTopicAttributes",
     "sns:ListSubscriptionsByTopic", "events:ListRules", "events:DescribeRule",
     "events:ListTargetsByRule", "scheduler:ListSchedules", "scheduler:GetSchedule",
     "budgets:ViewBudget"}

ActionsOf(t) == {IamAction(x) : x \in Tool[t].capabilities}

\* validateAwsMetadata.
MetadataAllowed(d, t) ==
    Tool[t].kind = "aws-readonly" =>
        Tool[t].capabilities # {} /\ ActionsOf(t) \subseteq UNION {ActionsOf(x) : x \in Exposed(d)}

\* validateCostControlManifest.
CostControlled(t) ==
    /\ Tool[t].kind = "aws-readonly" <=> Tool[t].class # "free"
    /\ Tool[t].class \in {"paid", "volume-sensitive", "fanout-sensitive"} =>
          Tool[t].minTtl > 0 /\ Tool[t].ttl >= Tool[t].minTtl

\* A limit that is no more than the bound is too much.
WithinTighterBounds(d, t, a) ==
    /\ Tool[t].days > 0 => a.days <= Tool[t].days
    /\ Tool[t].results > 0 => a.limit < Tool[t].results
    /\ Tool[t].hours > 0 => a.hours <= Tool[t].hours
    /\ Tool[t].region = "allowed" => Len(a.regions) <= Len(d.allowed)

\* validateCostControlRequest.  The regions are counted with their repetitions.
WithinBounds(d, t, a) ==
    /\ Tool[t].days > 0 => a.days <= Tool[t].days
    /\ Tool[t].results > 0 => a.limit <= Tool[t].results
    /\ Tool[t].hours > 0 => a.hours <= Tool[t].hours
    /\ Tool[t].region = "allowed" => Len(a.regions) <= Len(d.allowed)

\* evaluateToolPolicy.
Allowed(d, t, a) ==
    /\ t \in Exposed(d)
    /\ d.granted
    /\ MetadataAllowed(d, t)
    /\ CostControlled(t)
    /\ Regional(d, t, a)
    /\ WithinBounds(d, t, a)

\* A handler checks the regions again, and fetch knows only the catalog.
HandlerAccepts(d, t, a) ==
    /\ Regional(d, t, a)
    /\ t = "fetch" => a.id \in Catalogued(d)

-----------------------------------------------------------------------------
(* What a call reads.                                                      *)

Asked(read, a) == read.part = "always" \/ read.part \in a.parts

\* The regions of a call, in their order: none named are all the allowed ones.
ReadRegions(d, t, a) ==
    IF Tool[t].region # "allowed" THEN <<RegionOf(d, t, a)>>
    ELSE IF a.regions = <<>> THEN d.allowed ELSE a.regions

\* A read for each region, one after the other, or one for all of them.
ReadsOf(d, t, a, read) ==
    LET regions == ReadRegions(d, t, a)
    IN IF ~Asked(read, a) THEN <<>>
       ELSE IF read.each
       THEN [i \in DOMAIN regions |-> [client |-> read.client, regions |-> <<regions[i]>>]]
       ELSE <<[client |-> read.client, regions |-> regions]>>

\* One strand of reads after the other, and the strands at the same time.
Plan(d, t, a) ==
    [s \in DOMAIN Tool[t].strands |->
       FlattenSeq([i \in DOMAIN Tool[t].strands[s] |->
                     ReadsOf(d, t, a, Tool[t].strands[s][i])])]

\* A key has the regions of a call sorted, with their repetitions.
Sorted(regions) == [r \in ToSet(regions) |-> Cardinality({i \in DOMAIN regions : regions[i] = r})]

\* What a client is called with.
Params(read, t, a) ==
    [regions |-> Sorted(read.regions), name |-> a.name, limit |-> a.limit, hours |-> a.hours,
     days |-> a.days, times |-> now, tool |-> t]

NoAnswer == [client |-> NoTool, of |-> <<>>, missing |-> {}, items |-> FALSE]

Strand(reads) ==
    [todo |-> reads, stage |-> 0, params |-> <<>>, answer |-> NoAnswer, failed |-> FALSE]

InitialCall == [pc |-> "idle", tool |-> NoTool, args |-> <<>>, strands |-> <<>>, since |-> 0]

Init ==
    /\ now = 0
    /\ \E e \in Environments : deployment = e.deployment /\ workload = e.tools
    /\ kv = {}
    /\ call = [c \in Calls |-> InitialCall]

-----------------------------------------------------------------------------
(* A call.                                                                 *)

Arrive(c) ==
    /\ call[c].pc = "idle"
    /\ \E t \in workload[c] : \E a \in ArgsOf(t) :
          call' = [call EXCEPT ![c] = [@ EXCEPT !.pc = "asked", !.tool = t, !.args = a]]
    /\ UNCHANGED <<now, deployment, workload, kv>>

Accepts(t, a) ==
    SchemaAdmits(t, a) /\ Allowed(deployment, t, a) /\ HandlerAccepts(deployment, t, a)

Refuse(c) ==
    /\ call[c].pc = "asked"
    /\ ~Accepts(call[c].tool, call[c].args)
    /\ call' = [call EXCEPT ![c] = [InitialCall EXCEPT !.pc = "refused"]]
    /\ UNCHANGED <<now, deployment, workload, kv>>

\* The handler starts the strands.
Start(c) ==
    /\ call[c].pc = "asked"
    /\ Accepts(call[c].tool, call[c].args)
    /\ LET plan == Plan(deployment, call[c].tool, call[c].args)
       IN call' = [call EXCEPT ![c] =
                     [@ EXCEPT !.pc = "running", !.since = now,
                               !.strands = [s \in DOMAIN plan |-> Strand(plan[s])]]]
    /\ UNCHANGED <<now, deployment, workload, kv>>

-----------------------------------------------------------------------------
(* A strand of a call.                                                     *)

SetStrand(c, s, strand) == call' = [call EXCEPT ![c].strands[s] = strand]

ClientOf(strand) == Client[Head(strand.todo).client]

\* cacheReadWithStatus.
Cacheable(strand) == deployment.cache /\ ClientOf(strand).cached

KeyOf(strand, params) == Restrict(params, ClientOf(strand).keyed)

MadeFrom(strand, params) == Restrict(params, ClientOf(strand).made)

\* The answer that is made.
AnswerOf(strand, params, missing, items) ==
    [client |-> Head(strand.todo).client, of |-> MadeFrom(strand, params), missing |-> missing,
     items |-> items]

\* A read is over.  No log streams: the handler looks for no events.
After(strand, params, answer) ==
    [strand EXCEPT
        !.todo = IF answer.client = "describeLogStreams" /\ ~answer.items THEN <<>> ELSE Tail(@),
        !.stage = 0, !.params = params, !.answer = answer]

Looks(c, s) ==
    /\ call[c].pc \in {"running", "failed"}
    /\ call[c].strands[s].todo # <<>>
    /\ call[c].strands[s].stage = 0

Hit(c, s) ==
    LET strand == call[c].strands[s]
        params == Params(Head(strand.todo), call[c].tool, call[c].args)
    IN /\ Looks(c, s)
       /\ Cacheable(strand)
       /\ \E e \in kv :
             /\ e.answer.client = Head(strand.todo).client /\ e.key = KeyOf(strand, params)
             /\ SetStrand(c, s, After(strand, params, e.answer))
       /\ UNCHANGED <<now, deployment, workload, kv>>

\* A miss, a cache that is seen late or cannot be read, or no cache.
Miss(c, s) ==
    LET strand == call[c].strands[s]
        params == Params(Head(strand.todo), call[c].tool, call[c].args)
    IN /\ Looks(c, s)
       /\ SetStrand(c, s, [strand EXCEPT !.stage = 1, !.params = params,
                                         !.answer = AnswerOf(strand, params, {}, TRUE)])
       /\ UNCHANGED <<now, deployment, workload, kv>>

StepOf(strand) == ClientOf(strand).steps[strand.stage]

Steps(c, s) == call[c].strands[s].todo # <<>> /\ call[c].strands[s].stage > 0

\* cacheSet: the new answer may be seen, or not.
FinishFor(ttl, c, s, answer) ==
    LET strand == call[c].strands[s]
        entry == [key |-> KeyOf(strand, strand.params), answer |-> answer, expires |-> now + ttl]
    IN /\ SetStrand(c, s, After(strand, strand.params, answer))
       /\ \/ UNCHANGED kv
          \/ Cacheable(strand) /\ kv' = kv \cup {entry}
       /\ UNCHANGED <<now, deployment, workload>>

\* Without a TTL of its own, an answer is kept for half an hour.
FinishWithDefaultTtl(c, s, answer) == FinishFor(6 * Ttl, c, s, answer)

Finish(c, s, answer) == FinishFor(Ttl, c, s, answer)

\* A step has its answers, but for optional ones that fail: all of them or none,
\* as which ones makes no difference here.
Fetched(c, s) ==
    LET strand == call[c].strands[s]
        step == StepOf(strand)
    IN /\ Steps(c, s)
       /\ step.how # "fan"
       /\ \E lost \in IF step.how \in {"optional", "tried"} THEN {{}, step.asks} ELSE {{}} :
             LET answer == [strand.answer EXCEPT !.missing = @ \cup lost]
             IN IF strand.stage = Len(ClientOf(strand).steps) THEN Finish(c, s, answer)
                ELSE /\ SetStrand(c, s, [strand EXCEPT !.stage = @ + 1, !.answer = answer])
                     /\ UNCHANGED <<now, deployment, workload, kv>>

\* What is asked for does not exist, and that is the answer.
NotThere(c, s) ==
    LET strand == call[c].strands[s]
    IN /\ Steps(c, s)
       /\ StepOf(strand).how \in {"kept", "maybeKept"}
       /\ Finish(c, s, [strand.answer EXCEPT !.items = FALSE])

FanAnswersInPart(regions, failed, items) == failed # regions

\* Regions may fail if others have items, or if none fails there need not be any.
FanAnswers(regions, failed, items) == failed = {} \/ items

\* Every region has answered or failed.
FetchedEach(c, s) ==
    LET strand == call[c].strands[s]
        regions == DOMAIN strand.params.regions
    IN /\ Steps(c, s)
       /\ StepOf(strand).how = "fan"
       /\ \E failed \in SUBSET regions, items \in BOOLEAN :
             /\ failed = regions => ~items
             /\ FanAnswers(regions, failed, items)
             /\ Finish(c, s, [strand.answer EXCEPT !.missing = failed, !.items = items])

\* An error ends the strand.
Fail(c, s) ==
    LET strand == call[c].strands[s]
    IN /\ Steps(c, s)
       /\ StepOf(strand).how # "tried"
       /\ SetStrand(c, s, [Strand(<<>>) EXCEPT !.failed = TRUE])
       /\ UNCHANGED <<now, deployment, workload, kv>>

-----------------------------------------------------------------------------
(* The end of a call, and time.                                            *)

\* Every strand has its answers; a tool of the gateway itself has none.
Reply(c) ==
    /\ call[c].pc = "running"
    /\ \A s \in DOMAIN call[c].strands :
          call[c].strands[s].todo = <<>> /\ ~call[c].strands[s].failed
    /\ call' = [call EXCEPT ![c] = [InitialCall EXCEPT !.pc = "done"]]
    /\ UNCHANGED <<now, deployment, workload, kv>>

\* The first strand that fails fails the call.  The others go on.
ReplyError(c) ==
    /\ call[c].pc = "running"
    /\ \/ \E s \in DOMAIN call[c].strands : call[c].strands[s].failed
       \/ Tool[call[c].tool].sections # {}
    /\ call' = [call EXCEPT ![c].pc = "failed"]
    /\ UNCHANGED <<now, deployment, workload, kv>>

Busy(c) ==
    /\ call[c].pc \in {"running", "failed"}
    /\ \E s \in DOMAIN call[c].strands : call[c].strands[s].todo # <<>>

Tick ==
    /\ now < MaxTime
    /\ \A c \in Calls : Busy(c) => now < call[c].since + MaxDuration
    /\ now' = now + 1
    /\ kv' = {e \in kv : e.expires > now'}
    /\ UNCHANGED <<deployment, workload, call>>

StrandStep(c, s) ==
    \/ Hit(c, s) \/ Miss(c, s) \/ Fetched(c, s) \/ NotThere(c, s) \/ FetchedEach(c, s) \/ Fail(c, s)

CallStep(c) ==
    \/ Arrive(c) \/ Refuse(c) \/ Start(c) \/ Reply(c) \/ ReplyError(c)
    \/ \E s \in DOMAIN call[c].strands : StrandStep(c, s)

Next == Tick \/ \E c \in Calls : CallStep(c)

Spec == Init /\ [][Next]_vars

-----------------------------------------------------------------------------
(* The requests of a call.                                                 *)

Request(capability, where, region) == [capability |-> capability, where |-> where, region |-> region]

RequestRegions(strand) ==
    CASE StepOf(strand).where = "us-east-1" -> {"us-east-1"}
      [] StepOf(strand).where = "own" -> {deployment.own}
      [] StepOf(strand).where = "bucket" -> Regions
      [] OTHER -> DOMAIN strand.params.regions

\* The sections of an application ask for anything their clients do, as a role.
\* Profiles name regions that are allowed, and a bucket is wherever it is.
SectionRequests(t) ==
    LET clients == UNION {SectionClients[s] : s \in Tool[t].sections}
        steps == UNION {ToSet(Client[k].steps) : k \in clients}
    IN {Request("sts:AssumeRole", "asked", deployment.own)} \cup
       UNION {{Request(x, step.where, r) : x \in step.asks, r \in ToSet(deployment.allowed)} :
                 step \in steps}

\* What a call is asking AWS.
InFlight(c) ==
    LET strands == {call[c].strands[s] : s \in {x \in DOMAIN call[c].strands : Steps(c, x)}}
    IN IF call[c].pc = "running" /\ Tool[call[c].tool].sections # {}
       THEN SectionRequests(call[c].tool)
       ELSE UNION {{Request(x, StepOf(strand).where, r) :
                       x \in StepOf(strand).asks, r \in RequestRegions(strand)} :
                      strand \in strands}

-----------------------------------------------------------------------------
(* Properties.                                                             *)

\* The state has its types: a strand that makes a step makes it for a client of
\* its tool, whose plan the policy has accepted.
TypeOK ==
    /\ now \in 0 .. MaxTime
    /\ deployment \in Deployment
    /\ workload \in [Calls -> SUBSET Tools]
    /\ \A e \in kv :
          /\ e.answer.client \in DOMAIN Client /\ Client[e.answer.client].cached
          /\ DOMAIN e.key = Client[e.answer.client].keyed
          /\ e.expires \in now + 1 .. now + Ttl
    /\ \A c \in Calls :
          /\ call[c].pc \in {"idle", "asked", "refused", "running", "done", "failed"}
          /\ call[c].pc \in {"asked", "running", "failed"} =>
                /\ call[c].tool \in workload[c]
                /\ call[c].args \in ArgsOf(call[c].tool)
          /\ call[c].since \in 0 .. now
          /\ \A s \in DOMAIN call[c].strands :
                LET strand == call[c].strands[s]
                IN /\ strand.stage = 0 \/ strand.stage \in DOMAIN ClientOf(strand).steps
                   /\ \A i \in DOMAIN strand.todo :
                         strand.todo[i].client \in
                             {Tool[call[c].tool].strands[s][r].client :
                                 r \in DOMAIN Tool[call[c].tool].strands[s]}

\* Arguments that a caller may expect to be served.
Proper(t, a) ==
    /\ {a.region} \ {NoRegion} \subseteq ToSet(deployment.allowed)
    /\ ToSet(a.regions) \subseteq ToSet(deployment.allowed)
    /\ IsInjective(a.regions)
    /\ a.days <= 90
    /\ t \in {"get_budget_status", "get_application_cost_status"} =>
          "us-east-1" \in ToSet(deployment.allowed)
    /\ t = "fetch" => a.id \in Catalogued(deployment)

\* A tool that the gateway lists, with arguments that its schema admits, is not
\* refused: the filters of the list and of the catalog, the schemas, the bounds of
\* the policy and the manifests agree.  Of the arguments, the regions have to be
\* allowed ones, each named once, and the dates no more than 90 days.
ListedCallable ==
    [][\A c \in Calls :
          call[c].pc = "asked" /\ call'[c].pc = "refused" =>
              \/ call[c].tool \notin PubliclyListed(deployment)
              \/ ~deployment.granted
              \/ ~SchemaAdmits(call[c].tool, call[c].args)
              \/ ~Proper(call[c].tool, call[c].args)]_vars

\* The requests of some tools that their manifests do not declare.
Undeclared(t) ==
    CASE t \in {"list_ecs_tasks", "get_recent_stopped_ecs_tasks"} -> {"ecs:DescribeClusters"}
      [] t = "get_application_environment_overview" -> {"cloudwatch:GetMetricData"}
      [] OTHER -> {}

\* Whatever a call asks AWS, the deployment exposes its tool, the tool's manifest
\* declares it, but for the few that are known, and the read-only IAM policy of
\* the repository grants it, but for the assumption of roles.
DeclaredRequests ==
    \A c \in Calls : \A q \in InFlight(c) :
        /\ call[c].tool \in Exposed(deployment) /\ deployment.granted
        /\ q.capability \in Tool[call[c].tool].capabilities \cup Undeclared(call[c].tool)
        /\ q.capability # "sts:AssumeRole" => IamAction(q.capability) \in ReadonlyPolicy

\* AWS is asked in the allowed regions only, but for the services that have one
\* endpoint, and for a bucket, which is asked where it is.
RegionsAllowed ==
    \A c \in Calls : \A q \in InFlight(c) :
        \/ q.region \in ToSet(deployment.allowed)
        \/ q.where = "bucket"
        \/ IamAction(q.capability) \in {"s3:ListAllMyBuckets", "budgets:ViewBudget"}

\* The answers in use and in the cache.
AnswersHeld ==
    {e.answer : e \in kv} \cup
        UNION {{call[c].strands[s].answer :
                   s \in {x \in DOMAIN call[c].strands : call[c].strands[x].stage = 0}} :
                  c \in Calls}

\* An answer that leaves something out is not empty: regions that failed do not
\* make it look as if there were nothing, and what could not be read of a bucket
\* does not make it look missing.
PartialHasItems == \A answer \in AnswersHeld : answer.missing # {} => answer.items

\* The answers of some clients depend on when they are made, and their keys do not.
Timed(client) == "times" \in client.made \ client.keyed

\* An answer for these parameters: made from them, but for the time if the client's
\* key does not have it, which is no longer ago than the TTL and what a call takes.
Answers(answer, params) ==
    LET client == Client[answer.client]
    IN /\ \A x \in client.made : x \in client.keyed \/ x # "times" => answer.of[x] = params[x]
       /\ Timed(client) =>
             params.times \in answer.of.times .. answer.of.times + Ttl + MaxDuration - 1

\* Whichever tool and call an answer was made for, it is the answer to the read
\* that uses it: the key of a client has all that its requests and its answer are
\* made of, and where the time is left out of it the answer is of late.
AnswersAsked ==
    \A c \in Calls : \A s \in DOMAIN call[c].strands :
        LET strand == call[c].strands[s]
        IN strand.stage = 0 /\ strand.answer # NoAnswer => Answers(strand.answer, strand.params)
=============================================================================
