----------------------------- MODULE ApplicationOps -----------------------------
(***************************************************************************)
(* The application-ops tools.  A call names a profile; for each section of *)
(* the tool the blocks of the profile say what to read and as which role.  *)
(* The sections of a call run at the same time and none fails another.     *)
(* Every read goes through the KV cache of normalized answers, which the   *)
(* calls of all profiles and the direct tools share.                       *)
(*                                                                         *)
(* Credentials come from the resolver: CredentialResolver shows that they  *)
(* are those of the role asked for, so that resolving one either fails or  *)
(* yields it.                                                              *)
(***************************************************************************)
EXTENDS Integers, Sequences

CONSTANTS
    Calls,        \* the tool calls
    Profile,      \* the profiles: what their blocks configure
    Requests,     \* what a call may ask for
    Roles,        \* the roles, among them DefaultRole
    DefaultRole,
    NoAuth,       \* a profile or a block without auth
    Ttl,          \* the TTL of a cached answer
    MaxDuration,  \* bound: how long a call may run
    MaxTime       \* bound: how long the clock runs

Profiles == DOMAIN Profile

Blocks == {"ecs", "logGroup", "rds", "ssm", "ecr", "s3", "ses", "sns",
           "eventbridge", "budget", "accountId"}

Auths == Roles \cup {NoAuth}

Reads == {"service", "tasks", "rds", "logs", "ssm", "compare", "image", "posture",
          "ses", "alarms", "topic", "rules", "budget"}

ApplicationSections ==
    {"compute", "database", "logs", "ssm", "artifacts", "s3", "ses", "alerting", "budget"}

Sections == ApplicationSections \cup {"direct"}

\* The sections of each application-ops tool.
ToolSections ==
    {ApplicationSections} \cup {{s} : s \in ApplicationSections \ {"s3", "ses"}}

ASSUME ProfilesAssumption ==
    /\ DefaultRole \in Roles /\ NoAuth \notin Roles
    /\ \A p \in Profiles :
          /\ Profile[p].auth \in Auths
          /\ Profile[p].blocks \subseteq Blocks
          /\ "logGroup" \in Profile[p].blocks => "ecs" \in Profile[p].blocks
          /\ "accountId" \in Profile[p].blocks => "budget" \in Profile[p].blocks
          /\ Profile[p].blockAuth \in [Blocks -> Auths]

\* A direct tool is given the names and the region that some profile holds too.
ASSUME RequestsAssumption ==
    \A q \in Requests :
        /\ q.profile \in Profiles
        /\ \/ q.sections \in ToolSections
           \/ q.sections = {"direct"} /\ q.read \in Reads

ASSUME TimesAssumption == Ttl \in Nat \ {0} /\ MaxDuration \in Nat /\ MaxTime \in Nat

VARIABLES
    now,    \* the time
    kv,     \* the answers a reader of the cache may find
    call,   \* the tool calls
    job     \* the sections of each call

vars == <<now, kv, call, job>>

-----------------------------------------------------------------------------
(* What a section reads, and as which role.                                *)

\* resolveBlockCredentials: the block's auth, else the profile's, else the
\* gateway's own credentials.
RoleOrNone(p, auth) == IF auth # NoAuth THEN auth ELSE Profile[p].auth

Role(p, auth) ==
    IF auth # NoAuth THEN auth
    ELSE IF Profile[p].auth # NoAuth THEN Profile[p].auth
    ELSE DefaultRole

BlockAuth(p, b) == Profile[p].blockAuth[b]

Has(p, b) == b \in Profile[p].blocks

\* The role is part of the key only for SES, and only if the block names one.
KeyRole(p, read) ==
    IF read = "ses" /\ BlockAuth(p, "ses") \notin {NoAuth, DefaultRole}
    THEN BlockAuth(p, "ses") ELSE NoAuth

\* Budgets have no region, and alarms are not asked for by name.
KeyWithoutRegion(p, read, keyRole) == [read |-> read, name |-> Profile[p].name, role |-> keyRole]

Key(p, read, keyRole) ==
    [read |-> read,
     region |-> IF read = "budget" THEN "any" ELSE Profile[p].region,
     name |-> IF read = "alarms" THEN "any" ELSE Profile[p].name,
     role |-> keyRole]

Item(p, read, role) ==
    [read |-> read, role |-> role, key |-> Key(p, read, KeyRole(p, read))]

\* A read under the block's auth, where the block is configured.
ItemsOf(p, b, read) ==
    IF Has(p, b) THEN <<Item(p, read, Role(p, BlockAuth(p, b)))>> ELSE <<>>

buildComputeStatus(p) == ItemsOf(p, "ecs", "service") \o ItemsOf(p, "ecs", "tasks")

buildDatabaseStatus(p) == ItemsOf(p, "rds", "rds")

buildApplicationLogs(p) == IF Has(p, "logGroup") THEN ItemsOf(p, "ecs", "logs") ELSE <<>>

buildSecretInventory(p) == ItemsOf(p, "ssm", "ssm")

ArtifactAuth(p) ==
    IF BlockAuth(p, "ecr") = NoAuth /\ Has(p, "ecs") THEN BlockAuth(p, "ecs")
    ELSE BlockAuth(p, "ecr")

\* One read, of the service's image and the repository's or of the latter only.
buildArtifactStatus(p) ==
    IF ~Has(p, "ecr") THEN <<>>
    ELSE <<Item(p, IF Has(p, "ecs") THEN "compare" ELSE "image", Role(p, ArtifactAuth(p)))>>

\* The alarms are always included, with the profile's auth.
buildAlertingStatus(p) ==
    <<Item(p, "alarms", Role(p, NoAuth))>>
        \o ItemsOf(p, "sns", "topic") \o ItemsOf(p, "eventbridge", "rules")

\* A budget without an account fails before it reads: see Launch.
buildCostStatus(p) == IF Has(p, "accountId") THEN ItemsOf(p, "budget", "budget") ELSE <<>>

buildS3Posture(p) == ItemsOf(p, "s3", "posture")

buildSesStatus(p) == ItemsOf(p, "ses", "ses")

\* The reads of a section, in their order.
Plan(p, s) ==
    CASE s = "compute"   -> buildComputeStatus(p)
      [] s = "database"  -> buildDatabaseStatus(p)
      [] s = "logs"      -> buildApplicationLogs(p)
      [] s = "ssm"       -> buildSecretInventory(p)
      [] s = "artifacts" -> buildArtifactStatus(p)
      [] s = "s3"        -> buildS3Posture(p)
      [] s = "ses"       -> buildSesStatus(p)
      [] s = "alerting"  -> buildAlertingStatus(p)
      [] s = "budget"    -> buildCostStatus(p)

\* A direct tool reads with the gateway's own credentials, and its key is made
\* of its input.
DirectPlan(q) ==
    <<[read |-> q.read, role |-> DefaultRole, key |-> Key(q.profile, q.read, NoAuth)]>>

Plans ==
    [q \in Requests |->
       [s \in q.sections |-> IF s = "direct" THEN DirectPlan(q) ELSE Plan(q.profile, s)]]

PlanOf(q, s) == Plans[q][s]

\* resolveAlertingAuthStrategy and authStrategyLabel.
Label(q, s) ==
    IF \E i \in DOMAIN PlanOf(q, s) : PlanOf(q, s)[i].role # DefaultRole
    THEN "assume-role" ELSE "default"

-----------------------------------------------------------------------------
\* An answer: as whom and for which profiles it was read, and the time of its
\* oldest part.
Answers == [roles : SUBSET Roles, profiles : SUBSET Profiles, oldest : 0..MaxTime]
NoAnswer == [roles |-> {}, profiles |-> {}, oldest |-> 0]
Entries == [answer : Answers, expires : Nat]

Together(a, b) ==
    [roles |-> a.roles \cup b.roles, profiles |-> a.profiles \cup b.profiles,
     oldest |-> IF a.oldest <= b.oldest THEN a.oldest ELSE b.oldest]

\* The status of a section; where a running one is; the reads it has done and
\* their answers, with the time each was had; and the answer it is making.
Statuses == {"none", "running", "skipped", "ok", "error"}
Places == {"resolve", "lookup", "aws", "innerLookup", "innerAws", "innerStore", "store"}
JobStates ==
    [status : Statuses, at : Places, label : {"none", "default", "assume-role"},
     answers : Seq([answer : Answers, at : 0..MaxTime]),
     making : Answers, inner : Answers]
NoJob == [status |-> "none", at |-> "resolve", label |-> "none", answers |-> <<>>,
          making |-> NoAnswer, inner |-> NoAnswer]

CallStates == [phase : {"idle", "running", "answered", "failed"}, request : Requests,
               started : 0..MaxTime]

AllKeys ==
    {Key(p, read, keyRole) : p \in Profiles, read \in Reads, keyRole \in Auths}

Init ==
    /\ now = 0
    /\ kv = [k \in AllKeys |-> {}]
    /\ call \in [Calls -> {[phase |-> "idle", request |-> q, started |-> 0] : q \in Requests}]
    /\ job = [c \in Calls |-> [s \in Sections |-> NoJob]]

Request(c) == call[c].request
Running(c, s) == job[c][s].status = "running"

\* The read a section is at.
Current(c, s) == PlanOf(Request(c), s)[Len(job[c][s].answers) + 1]

\* The key of the answer the comparison of images makes use of.
InnerKey(c) == Key(Request(c).profile, "image", NoAuth)

SetJob(c, s, j) == job' = [job EXCEPT ![c][s] = j]

Move(c, s, at, making, inner) ==
    SetJob(c, s, [status |-> "running", at |-> at, label |-> "none",
                  answers |-> job[c][s].answers, making |-> making, inner |-> inner])

Error == [status |-> "error", at |-> "resolve", label |-> "none", answers |-> <<>>,
          making |-> NoAnswer, inner |-> NoAnswer]

\* A section goes on to its next read, or is done.  Only the alerting section
\* resolves credentials for each of its reads.
Take(c, s, answer) ==
    LET answers == Append(job[c][s].answers, [answer |-> answer, at |-> now])
        done == Len(answers) = Len(PlanOf(Request(c), s))
    IN SetJob(c, s, [status |-> IF done THEN "ok" ELSE "running",
                     at |-> IF done \/ s = "alerting" THEN "resolve" ELSE "lookup",
                     label |-> IF done THEN Label(Request(c), s) ELSE "none",
                     answers |-> answers, making |-> NoAnswer, inner |-> NoAnswer])

PutUnlimited(key, answer) ==
    kv' = [kv EXCEPT ![key] = @ \cup {[answer |-> answer, expires |-> MaxTime + 1]}]

Put(key, answer) ==
    kv' = [kv EXCEPT ![key] = @ \cup {[answer |-> answer, expires |-> now + Ttl]}]

-----------------------------------------------------------------------------
(* The tool call.                                                          *)

\* All its sections start at once; what is not configured is skipped, and a
\* budget without an account is an error.
Launch(c) ==
    /\ call[c].phase = "idle"
    /\ call' = [call EXCEPT ![c] = [phase |-> "running", request |-> Request(c), started |-> now]]
    /\ job' = [job EXCEPT ![c] =
                 [s \in Sections |->
                    IF s \notin Request(c).sections THEN NoJob
                    ELSE IF s = "budget" /\ Has(Request(c).profile, "budget")
                            /\ ~Has(Request(c).profile, "accountId")
                    THEN Error
                    ELSE [status |-> IF PlanOf(Request(c), s) = <<>> THEN "skipped" ELSE "running",
                          at |-> "resolve", label |-> "none", answers |-> <<>>,
                          making |-> NoAnswer, inner |-> NoAnswer]]]
    /\ UNCHANGED <<now, kv>>

\* The profile is not there, or its region is not allowed.
Refuse(c) ==
    /\ call[c].phase = "idle"
    /\ call' = [call EXCEPT ![c] = [phase |-> "failed", request |-> Request(c), started |-> 0]]
    /\ UNCHANGED <<now, kv, job>>

ReplyIfAllWell(c) ==
    /\ call[c].phase = "running"
    /\ \A s \in Sections : job[c][s].status \in {"none", "skipped", "ok"}
    /\ call' = [call EXCEPT ![c] = [phase |-> "answered", request |-> Request(c), started |-> 0]]
    /\ job' = [job EXCEPT ![c] = [s \in Sections |-> NoJob]]
    /\ UNCHANGED <<now, kv>>

\* The answer is made when the last section has ended, well or badly, and the
\* call is forgotten.
Reply(c) ==
    /\ call[c].phase = "running"
    /\ \A s \in Sections : ~Running(c, s)
    /\ call' = [call EXCEPT ![c] = [phase |-> "answered", request |-> Request(c), started |-> 0]]
    /\ job' = [job EXCEPT ![c] = [s \in Sections |-> NoJob]]
    /\ UNCHANGED <<now, kv>>

-----------------------------------------------------------------------------
(* A section.                                                              *)

\* A role may not be assumed; the section fails before it looks into the cache.
Resolve(c, s) ==
    /\ Running(c, s) /\ job[c][s].at = "resolve"
    /\ \/ Move(c, s, "lookup", NoAnswer, NoAnswer)
       \/ Current(c, s).role # DefaultRole /\ SetJob(c, s, Error)
    /\ UNCHANGED <<now, kv, call>>

\* Reading the cache may fail, and a write may not be visible yet.  The key of
\* the logs has the time of the call in it, in milliseconds, so that they are
\* not found again.
Miss(c, s) ==
    /\ Running(c, s) /\ job[c][s].at = "lookup"
    /\ Move(c, s, "aws", NoAnswer, NoAnswer)
    /\ UNCHANGED <<now, kv, call>>

Hit(c, s) ==
    /\ Running(c, s) /\ job[c][s].at = "lookup"
    /\ Current(c, s).read # "logs"
    /\ \E e \in kv[Current(c, s).key] : Take(c, s, e.answer)
    /\ UNCHANGED <<now, kv, call>>

Own(c, s) == [roles |-> {Current(c, s).role}, profiles |-> {Request(c).profile}, oldest |-> now]

\* The requests to AWS.  The comparison of images then reads the image's status
\* like any other tool does.
Ask(c, s) ==
    /\ Running(c, s) /\ job[c][s].at = "aws"
    /\ Move(c, s, IF Current(c, s).read = "compare" THEN "innerLookup" ELSE "store",
            Own(c, s), NoAnswer)
    /\ UNCHANGED <<now, kv, call>>

InnerMiss(c, s) ==
    /\ Running(c, s) /\ job[c][s].at = "innerLookup"
    /\ Move(c, s, "innerAws", job[c][s].making, NoAnswer)
    /\ UNCHANGED <<now, kv, call>>

InnerHit(c, s) ==
    /\ Running(c, s) /\ job[c][s].at = "innerLookup"
    /\ \E e \in kv[InnerKey(c)] :
          Move(c, s, "store", Together(job[c][s].making, e.answer), NoAnswer)
    /\ UNCHANGED <<now, kv, call>>

InnerAsk(c, s) ==
    /\ Running(c, s) /\ job[c][s].at = "innerAws"
    /\ Move(c, s, "innerStore", job[c][s].making, Own(c, s))
    /\ UNCHANGED <<now, kv, call>>

InnerStore(c, s) ==
    /\ Running(c, s) /\ job[c][s].at = "innerStore"
    /\ Put(InnerKey(c), job[c][s].inner) \/ UNCHANGED kv
    /\ Move(c, s, "store", Together(job[c][s].making, job[c][s].inner), NoAnswer)
    /\ UNCHANGED <<now, call>>

FailSkipping(c, s) ==
    /\ Running(c, s) /\ job[c][s].at \in {"aws", "innerAws"}
    /\ Take(c, s, NoAnswer)
    /\ UNCHANGED <<now, kv, call>>

FailRetrying(c, s) ==
    /\ Running(c, s) /\ job[c][s].at \in {"aws", "innerAws"}
    /\ Move(c, s, "resolve", NoAnswer, NoAnswer)
    /\ UNCHANGED <<now, kv, call>>

\* A request to AWS fails: the section fails, whatever it has read before.
Fail(c, s) ==
    /\ Running(c, s) /\ job[c][s].at \in {"aws", "innerAws"}
    /\ SetJob(c, s, Error)
    /\ UNCHANGED <<now, kv, call>>

\* Writing the cache may fail without anyone noticing.
Store(c, s) ==
    /\ Running(c, s) /\ job[c][s].at = "store"
    /\ Put(Current(c, s).key, job[c][s].making) \/ UNCHANGED kv
    /\ Take(c, s, job[c][s].making)
    /\ UNCHANGED <<now, call>>

\* Answers whose time has passed are gone.
Tick ==
    /\ now < MaxTime
    /\ \A c \in Calls : call[c].phase = "running" => now < call[c].started + MaxDuration
    /\ now' = now + 1
    /\ kv' = [k \in AllKeys |-> {e \in kv[k] : e.expires >= now + 1}]
    /\ UNCHANGED <<call, job>>

SectionStep(c, s) ==
    \/ Resolve(c, s) \/ Miss(c, s) \/ Hit(c, s) \/ Ask(c, s)
    \/ InnerMiss(c, s) \/ InnerHit(c, s) \/ InnerAsk(c, s) \/ InnerStore(c, s)
    \/ Fail(c, s) \/ Store(c, s)

Next ==
    \/ \E c \in Calls : Launch(c) \/ Refuse(c) \/ Reply(c)
    \/ \E c \in Calls, s \in Sections : SectionStep(c, s)
    \/ Tick

Spec == Init /\ [][Next]_vars

CallStep(c) == Launch(c) \/ Reply(c) \/ \E s \in Sections : SectionStep(c, s)

\* Requests to AWS and to KV end, well or badly, and the Worker goes on with
\* every call.
FairSpec == Spec /\ \A c \in Calls : WF_vars(CallStep(c))
-----------------------------------------------------------------------------
(* Properties.                                                             *)

\* What every state looks like.
TypeOK ==
    /\ now \in 0..MaxTime
    /\ kv \in [AllKeys -> SUBSET Entries]
    /\ call \in [Calls -> CallStates]
    /\ job \in [Calls -> [Sections -> JobStates]]

\* Where the answer of a profile may be that of another: the same read, of the
\* same name in the same region.
SameResource(p, p2, read) ==
    /\ read = "budget" \/ Profile[p].region = Profile[p2].region
    /\ read = "alarms" \/ Profile[p].name = Profile[p2].name

\* A comparison of images reads the image too.
ReadsOf(read) == IF read = "compare" THEN {"compare", "image"} ELSE {read}

\* As whom a resource is read, where some call reads it as somebody else.
Contests ==
    [p \in Profiles |-> [read \in Reads |->
       {role \in Roles :
          \E q \in Requests : \E s \in q.sections : \E i \in DOMAIN PlanOf(q, s) :
             /\ SameResource(p, q.profile, read)
             /\ ReadsOf(PlanOf(q, s)[i].read) \cap ReadsOf(read) # {}
             /\ PlanOf(q, s)[i].role # role}]]

Contended(p, read, role) == role \in Contests[p][read]

\* The section of an SES block that names its own role.
SesOfOwnRole(p, s) == s = "ses" /\ BlockAuth(p, "ses") \notin {NoAuth, DefaultRole}

Ok(c, s) == job[c][s].status = "ok"

\* What a section reports was read as the role its block or its profile names,
\* unless another call reads the same name in the same region as another role;
\* and for an SES block with a role of its own even then
\* (resolveSectionCredentials, buildCacheKey).
OwnAnswers ==
    \A c \in Calls, s \in Sections :
        Ok(c, s) => \A i \in DOMAIN job[c][s].answers :
            LET item == PlanOf(Request(c), s)[i]
                p == Request(c).profile
            IN ~Contended(p, item.read, item.role) \/ SesOfOwnRole(p, s) =>
                  job[c][s].answers[i].answer.roles = {item.role}

\* A section that is ok has an answer to each of its reads, in their order, and
\* its label says whether a role was assumed for any of them
\* (resolveAlertingAuthStrategy).
SectionsComplete ==
    \A c \in Calls, s \in Sections :
        Ok(c, s) =>
            /\ Len(job[c][s].answers) = Len(PlanOf(Request(c), s))
            /\ \A i \in DOMAIN job[c][s].answers : job[c][s].answers[i].answer # NoAnswer
            /\ job[c][s].label = "assume-role" <=>
                  \E i \in DOMAIN PlanOf(Request(c), s) :
                      PlanOf(Request(c), s)[i].role # DefaultRole

\* An answer is no older than its making and the life of a cached answer allow,
\* and the comparison of images, which is made of a cached answer, no older than
\* twice that (cacheSet, compareServiceImageWithEcr).
Depth(read) == IF read = "compare" THEN 2 ELSE 1

AgeBounded ==
    \A c \in Calls, s \in Sections :
        Ok(c, s) => \A i \in DOMAIN job[c][s].answers :
            LET a == job[c][s].answers[i] IN
            a.at - a.answer.oldest <= Depth(PlanOf(Request(c), s)[i].read) * (Ttl + MaxDuration)

\* However answers are shared, kept and made of one another, what a section reports
\* was read of the resource its profile names (buildCacheKey).
OwnResource ==
    \A c \in Calls, s \in Sections :
        Ok(c, s) => \A i \in DOMAIN job[c][s].answers :
            \A p2 \in job[c][s].answers[i].answer.profiles :
                SameResource(Request(c).profile, p2, PlanOf(Request(c), s)[i].read)

\* "get_application_compute_status | Yes | profileId + ECS keys": what a call
\* reports was read for the profile it names.
OwnProfile ==
    \A c \in Calls, s \in ApplicationSections :
        Ok(c, s) => \A i \in DOMAIN job[c][s].answers :
            job[c][s].answers[i].answer.profiles = {Request(c).profile}

\* How many steps a section has at most before it: by the place it is at, and for
\* each read it has not had.
Rank == [resolve |-> 7, lookup |-> 6, aws |-> 5, innerLookup |-> 4, innerAws |-> 3,
         innerStore |-> 2, store |-> 1]

Left(c, s) ==
    8 * (Len(PlanOf(Request(c), s)) - Len(job[c][s].answers)) + Rank[job[c][s].at]

\* No section goes round in circles, whatever fails and whatever the cache has or
\* has not: each of its steps ends it or takes it nearer to its end, so that what
\* it asks of AWS is bounded (buildEnvironmentOverview, cacheGet).
SectionsAdvance ==
    [][\A c \in Calls, s \in Sections :
          Running(c, s) /\ job'[c][s] # job[c][s] =>
             /\ Left(c, s) \in Nat
             /\ job'[c][s].status # "running" \/ Left(c, s)' < Left(c, s)]_vars

\* Every call is answered, however its sections fare (buildEnvironmentOverview).
CallsAnswered == \A c \in Calls : call[c].phase = "running" ~> call[c].phase = "answered"
=============================================================================
