# Verification of the AWS MCP gateway

TLA+ models of the AWS MCP gateway, a Cloudflare Worker that gives MCP clients
read-only tools over an AWS account, checked with TLC on small instances and
proved with TLAPS for all. This file is the inventory of the system, the plan,
and what the checks and the proofs show. `PROJECT.json` maps every definition
to the lines it models.

## The system

One `fetch` of the Worker is one HTTP request. Isolates serve many at a time;
what the requests of one share is the key set of the issuer, and what all share
is outside: KV (cached AWS answers, application profiles), the Durable Objects
of the rate limiter, AWS itself. Within a request, promises interleave at every
`await`.

| Part | State it keeps | Operations | Interacts with |
|---|---|---|---|
| Rate limiter, `security/rate-limit.ts` | a window per identity, in a Durable Object | `enforceRateLimit`, `AuthRateLimitDurableObject.fetch` | first step of `/mcp` |
| Request pipeline, `index.ts`, `config/` | none; builds a `GatewayContext` per request | route, rate limit, authenticate, validate the environment, handle | all below |
| Authentication, `auth/` | the key set of the issuer, per isolate, five minutes; what `jose` has fetched of it | bearer, JWKS, introspection, the hybrid of both | pipeline; issuer, authorization server |
| MCP session, `mcp/session-restore.ts` | none: sessions are restored from the request | transport per request, restore | pipeline; MCP SDK |
| Tool policy, `mcp/tools/policy.ts`, `config/tool-exposure.ts` | none: decisions over 38 manifests | exposure, packs, scopes, regions, cost control | dispatch of every tool |
| Execution telemetry, `telemetry/`, `mcp/execution/` | a collector per HTTP request | reset, record, attach metadata | cache, AWS client, dispatch |
| Cache, `cache/` | answers in KV for 300 or 1800 s | read with status, set | every AWS read |
| AWS clients, `aws/` | none | one or several signed requests, a normalized answer | cache, telemetry |
| Credential resolver, `aws/credentials/`, `aws/sts/` | sessions of assumed roles, per resolver | `resolve`, `assumeRole` | application-ops; STS |
| Application profiles, `profiles/`, `scripts/app-profiles/` | an index and one document per profile, in KV | CLI put and delete; Worker list and load | application-ops |
| Application-ops tools, `composition/application-ops/` | none | nine sections of an overview, alone or together | resolver, cache, AWS, profiles |
| Overviews, `composition/` | none | account, cost, observability | AWS clients |
| Audit, logging, descriptors, scripts, infrastructure | none the program reads back | output, tables, set-up | |

What is hard here:

* clocks: payloads are stamped by the isolate and compared in a Durable
  Object; STS's expiry is compared with the Worker's clock;
* sharing: a collector per HTTP request and a JSON-RPC batch of calls; one
  cache for all roles and tools; one key set for all requests of an isolate;
  one index for all runs of the CLI;
* two writes without a transaction, runs of the CLI that break off, KV that
  shows old values;
* concurrency inside a call: sections, regions and reads that finish in any
  order, and fail one by one;
* answers made of cached answers, and answers that leave out what failed;
* the world outside: keys are rotated and tokens revoked while requests are
  under way, and every check has a way of failing of its own;
* three lists that have to agree: what a tool declares, what its clients
  request, and what the policy and the IAM policy let through.

What makes each part correct is written as properties below; every hazard with
its line, and the property that watches it, is in `PROJECT.json`.

## Modules

| Module | Models | State | Actions |
|---|---|---|---|
| `RateLimit` | `security/rate-limit.ts` | `now`, the live `config`, `req`, the `window` of each identity | `Ask` (the payload is stamped), `Decide`, `LoseAnswer`, `FailToAsk`, `Deploy`, `Tick` |
| `ToolExecution` | `wrapManifestHandler`, the collector, `cacheReadWithStatus`, `awsRequest`, Cost Explorer, the metadata of paid tools | `kv`, `collector` per HTTP request, the reads of each call, its `report` | `Dispatch`, `ReadCache`, `Respond`, `Receive`, `FailRequest`, `Store`, `Answer`, `Fail`, `Expire` |
| `ProfileStore` | `putProfileToKv`, `deleteProfileFromKv`, `resolveApplicationProfileForTool` | `index`, `docs`, what a Worker may still see of them, the runs, the tool calls | `ReadIndex`, `WriteDoc`, `WriteIndex`, `BreakOff`; `Toggle`, `Damage`, `Spoil` by hand; `FindEntry`, `LoadIndex`, `LoadDoc`, `Unavailable`; `Propagate` |
| `CredentialResolver` | `createCredentialResolver`, `assumeRole` | the `cache` of each resolver, the calls, the `skew` | `UseDefault`, `Reject`, `UseCached`, `Ask`, `Issue` (STS), `Receive`, `Abort`, `Fail`, `Tick` |
| `ApplicationOps` | `sections.ts`, the cache keys and the nested read of `image-compare.ts` | `kv`, the calls, the `job` of each section | `Launch`, `Refuse`, `Reply`; `Resolve`, `Miss`, `Hit`, `Ask`, `Store`, `Fail`, `Inner...`; `Tick` |
| `GatewayRequest` | `index.ts`, `config/env.ts`, `auth/`, the transport of a request | `deployment`, the issuer's keys, the isolate's `jwks` and its `remote` key sets, the requests | `Route`, `Arrive`, `Meter`, `Limit`; `AuthenticateBearer`, `AuthenticateOAuth`, `CreateKeySet`, `Verify`, `StartFetch`, `AnswerFetch`, `FinishFetch`, `FailFetch`, `AnswerIntrospection`, `Introspect`, `DenyIntrospection`, `FailIntrospection`; `Explain`, `Handle`; `Publish`, `Withdraw`, `Revoke`, `Tick` |
| `Admission` | nothing of the code: what the gateway promises of `/mcp` | which requests are entitled, metered, granted, and their outcome | `Arrive`, `Dismiss`, `Meter`, `Grant`, `Handle`, `Explain`, `Close` |
| `ProfileCatalog` | nothing of the code: what the CLI promises of the profiles, as one atomic table | the row of each profile, the runs, whether the promise still holds | `Start`, `Write`, `End`, `BreakOff`, `Undo`, `Edit`, `Damage` |
| `RoleSessions` | nothing of the code: what a resolver promises to those who ask | what is asked, the sessions granted in each HTTP request, the outcomes | `GiveOwn`, `Grant`, `Reuse`, `Refuse`, `Pass` |
| `ToolCatalog` | the 38 manifests, the clients under `aws/` and the overviews under `composition/` | none: tables | none |
| `ToolCalls` | exposure, policy, cost control, regions, and calls of the tools of `ToolCatalog` | `deployment`, `kv`, the calls and the strands of each | `Arrive`, `Refuse`, `Start`, `Reply`, `ReplyError`; `Hit`, `Miss`, `Fetched`, `NotThere`, `FetchedEach`, `Fail`; `Tick` |

`MC...` modules instantiate them, `...Proofs` modules hold the proofs. A
definition that ends in a deviation of another's name (`AllowedBeforeCounting`
beside `Allowed`) is a plausible bug: put in the place of the other, it makes
a run fail, which shows that the property depends on the code being as it is.

How state and actions correspond to the code:

* An action covers the code from one `await` to the next. What the code does
  without awaiting is one step. Reading, evaluating and storing in the Durable
  Object is one step too, because its input gate holds other events back.
* A history variable (marked so in each module) is not in the code; it says
  what happened, for a property to refer to.
* `RateLimit`: the history variable `openedFor` keeps the length each window was
  opened with, whatever version is deployed afterwards. Identities stand for the hashes of tokens and addresses. Ticks
  divide the second (`TicksPerSecond`), so that rounding to seconds matters.
* `ToolExecution`: what a request answers is left out, what it costs is kept.
* `ProfileStore`: a document is a version, or broken; of an entry the version
  it was taken from and `enabled` are kept. The size limit is a number of
  bytes per entry.
* `CredentialResolver`: credentials are whose they are and when they expire.
  Milliseconds are ticks; the order margin, timeout, lifetime is kept.
* `ApplicationOps`: a read is its name, the role it is made as and its key.
  The requests one read is made of are one step; the comparison of images,
  which reads the image status through the cache while it is itself being
  cached, has its steps of its own. Profiles differ in region, role and blocks.
* `GatewayRequest`: an environment is which settings are there and which are
  malformed, with the two relations between settings that are checked (the
  resource is the audience, the region is allowed). A credential is what the
  checks tell apart: its kind, its key, its expiry, what its own claims say (which
  issuer, whether this audience, which scopes, whether an expiry), whether the
  authorization server knows it, and what the server's answer says of the same
  things. Claims and answer may contradict each other, and an answer may name no
  issuer: `introspection.ts` then asks for none. The
  secret presented under OAuth is a token that is no JWT. A key set belongs to
  the request that created it, `remote` is what `jose` keeps of it, and
  answers to requests that share it arrive in any order. `jose`'s own
  `cacheMaxAge` is left out, because the isolate gives up a key set sooner.
  The server's answer and what the Worker makes of it are two steps, between
  which the token may expire or be revoked. The MCP SDK, `jose`, the issuer and
  the authorization server are external.
* `ToolCatalog` has one definition for each tool and each client. A client is
  a list of steps, each with the requests it makes, where, and whether their
  failure is the client's; with the parameters its cache key has and those its
  answer is made of. Those include the times of the requests, which the key of
  `get_rds_metrics` and `get_recent_stopped_ecs_tasks` and the posture of a
  bucket leaves out: their cached answers are of an earlier time. A tool calls
  clients in strands that run at the same time.
* `ToolCalls` interprets these tables. The optional requests of a step fail
  all or none: which of them makes no difference to what follows. A step a
  client may skip is taken to be made, so that its requests are checked. The
  sections of the application-ops tools are here only the requests they may
  make: `ApplicationOps` has their order and their cache.

How the modules fit together: `GatewayRequest` takes the answer of the limiter
as any answer, `RateLimit` says which it is; `Handle` hands over to the calls
of `ToolCalls`, whose paid tools `ToolExecution` opens up and whose
application-ops tools `ApplicationOps` opens up; the roles of `ApplicationOps`
are those `CredentialResolver` resolves, and its profiles are what the reader of
`ProfileStore` loads. What one part takes for granted of another is a module of
its own that the other is shown to implement: `Admission` is what the tools may
assume of a request that reaches them, `RoleSessions` what the step `Resolve` of
`ApplicationOps` assumes (an answer, once, of the own role), and `ProfileCatalog`
what whoever publishes a profile assumes of the store.

How the three are seen in the states of the code: a request of `Admission` is
one of `GatewayRequest` without its credential's details and the steps of
checking it. The row of a profile in `ProfileCatalog` is its document and flag if
the index lists it and no document otherwise (`SeenRow`), so that a document
written before its entry, or left over after its entry is gone, is not seen; the
promise ends (`sound`) with `disturbed`, once an overtaken run has written the
index or an operator has damaged it. A call of `RoleSessions` has its outcome
once `resolve` returns, and the sessions granted in its HTTP request are those its
resolver has `received`; the cache and what is under way are not seen.

## Runs

| Run | Properties | Bounds, and why they suffice |
|---|---|---|
| `rate_limit` | `TypeOK`, `AdmittedWithinLimit`, `LockoutBounded`, `RetryAfterSuffices`, `WindowsSpaced` | Three requests, a token and an address, two versions (1 per 3 s, 2 per 2 s), half-second ticks, skew and delay of one tick. Three requests exceed both limits and six ticks outlast a window. |
| `tool_execution` | `TypeOK`, `AloneAccurate`, `ChargeExplained`, `HitIsFree`, `CostCovered`, `CallsSettle` | The cost overview (two reads) in an HTTP request of its own, and two summaries (one of them each) in a batch, over one KV: one call's store is the other's hit, in the batch and across, and a reset between the two of the batch would lose a request. |
| `tool_execution_batch` | `ReportAccurate`, violated | The two summaries in one batch. |
| `tool_execution_note` | `NoteTruthful`, violated | The overview and a summary in two requests. |
| `profile_store` | `TypeOK`, `StoreConsistent`, `RequestsServed`, `CorruptKept`, `CatalogKept` | Two runs of the CLI, two profiles with two versions, one tool call, stale KV reads and one edit by hand: enough for each run to be overtaken, broken off half way and read half way. Two entries of a byte against a limit of two bytes: the most that may be there just fit, and no run is refused for the size. |
| `profile_size` | `StaysModifiable`, violated | Two entries of two bytes against a limit of three: the real numbers, 50 pretty-printed entries against 16 384 bytes, in proportion. |
| `credential_resolver` | `TypeOK`, `OwnRole`, `Usable`, `SessionsReused`, `SessionsKept` | Three calls in one HTTP request, so that an older answer may overtake a newer one before a third call looks, or in two, so that a session might be carried from one to the other; time for a session to near its expiry; skew of one tick. |
| `application_ops` | `TypeOK`, `OwnAnswers`, `OwnResource`, `SectionsComplete`, `AgeBounded` | Two calls for four profiles of two regions that use the same names, with own, profile and no roles; alone, in an overview and as a direct tool. A TTL of one and calls of up to one in three ticks: an answer stored late in one call is found in the last moment by the other, and a comparison is made of it, older than a single life would allow. The full age of a comparison, found by a third call, is left to the theorem. |
| `application_settle` | `CallsAnswered`, `SectionsAdvance` | One call: each tool with one section, of a profile with every block, and the overview of three profiles that between them have every block, with six sections running at a time, five, and three beside a budget that fails at once. Each read may fail, and any combination of sections. Nine sections at once are beyond TLC, and nothing in a section depends on how many there are beside it: `Reply` waits for all. One call on an empty cache finds nothing in it, so `Hit` is left to `application_ops`. |
| `application_twins` | `OwnProfile`, violated | Two profiles whose roles are of two accounts. |
| `gateway_request` | `TypeOK`, `SessionsServed`, `AdmissionKept`, `WithdrawnKeysExpire`, `PublishedKeysAccepted`, `RevokedRefused` | Two requests of one isolate, one key, four credentials (none; a good JWT that the server says is of another issuer; a JWT of another issuer that the server calls active without naming issuer or expiry; and the secret, which to OAuth is an opaque token that expires and has one of two scopes), eight deployments: complete in each mode, and incomplete in the ways each check finds first. One key is enough, because only whether a token's key is in a set matters. A TTL of two, a cooldown and a request of one and three ticks: a key set is shared, lapses and is made again, and one key or token changes meanwhile. |
| `tool_calls` | `TypeOK`, `DeclaredRequests`, `RegionsAllowed`, `PartialHasItems`, `AnswersAsked`, `ListedCallable` | Each of the 38 tools, two calls of it, or, of an overview, one and one of a tool that shares cache entries with it, everything exposed; and one call under each of five narrow deployments. Three regions of which two are allowed; arguments are the default but for one, which takes its bound and one more; two ticks, of which a cached answer lives two, so that it is found at a later time than it was made at. A call takes no time here: what a longer one does to the age of an answer is left to the theorem. No property relates more than two calls. |

Deadlock is not checked: every model stops when its calls are done and its
clock has reached its bound. `CallsSettle` and `CallsAnswered` say instead that
nothing stops half way.

Symmetry is used for calls, resolvers, runs and requests, never with a liveness
property. In `tool_calls` the calls differ by the `workload` only, which is part
of the state and permuted with them.

### Where the code and its documents disagree

The violated runs, one property each, quote the line they contradict in
`PROJECT.json`:

* `tool_execution_batch`: the collector is per HTTP request and not per
  invocation, so batched calls report each other's reads and cost.
* `tool_execution_note`: a paid request made because the cache was unavailable
  is noted as one that was not made.
* `profile_size`: the CLI writes an index it then refuses to read.
* `application_twins`: cache keys hold neither profile nor role, so two
  accounts that use the same names share answers.

Each has a counterpart that holds and says where the line is: `AloneAccurate` (a
call that is alone in its HTTP request) and `CostCovered` (in a batch, no call is
told of less than it has cost), `HitIsFree` (what is said to be from the cache
was), the theorem `ModifiableIfSmall` (`StaysModifiable` holds if as many entries
as are allowed fit into the bytes that are) and `OwnResource` (accounts may be
confused, regions and names never).

Noticed while modelling, present in the models unless said otherwise, and
without a run of their own:

* Direct tools share those keys, so "default gateway credentials only"
  (`docs/aws-tools.md:35`) holds of what they ask and not of what they report.
* A comparison of images is up to two TTLs old; `AgeBounded` has the factor,
  `docs/mcp-tools.md:2229` has not.
* The command documented as the repair of an invalid index
  (`docs/application-profiles.md`) refuses to run on one.
* An empty index is missing to the CLI and invalid to the Worker, and a put
  writes over it (`docs/application-profiles.md:247`).
* A resolver lives for one HTTP request, so its sessions are not kept "per
  isolate" (`docs/aws-credentials.md:107`).
* The posture of a bucket is asked for in the region the bucket is in, whether
  or not it is allowed (`aws/s3/posture.ts`; `docs/deployment.md:177`).
  `RegionsAllowed` has the exception.
* Budgets are in `us-east-1`, and their tools are refused unless that region is
  allowed (`docs/mcp-tools.md:2022`).
* `list_ecs_tasks` and `get_recent_stopped_ecs_tasks` request
  `ecs:DescribeClusters`, which their manifests do not declare
  (`docs/tooling-conventions.md:82`); the environment overview requests
  `cloudwatch:GetMetricData` likewise (`docs/aws-capability-matrix.md:3`).
  `Undeclared` in `ToolCalls` is the whole list, and `DeclaredRequests` says
  that there are no others.
* `get_rds_metrics` describes the instances before it looks into its cache, so
  that a hit makes a request (`docs/mcp-tools.md:2201`).
* A posture whose optional requests failed is cached like a complete one, and
  one whose encryption request failed reads as a bucket without encryption.
* `list_ec2_instances` reads one page of each region; `truncated` of
  `get_eventbridge_rules_status` is never true; `search` returns 25 entries of a
  catalog of 36; these are about the content of answers and in no model.
* `get_recent_log_errors` and `get_cloudwatch_logs` pass the exact time as their
  end, where `docs/mcp-tools.md:670` has it in buckets: no later call finds
  their answers.
* `resolveRegions` keeps repetitions, which then count towards the bound on
  regions and are part of the key.
* `getRecentStoppedEcsTasks` applies its limit before it leaves out what is too
  old, and may return fewer tasks than there are.
* The request to the authorization server has no timeout.
* An answer to an introspection that names no issuer is accepted, in the hybrid
  mode also for a JWT whose own issuer was refused a moment before
  (`auth/oauth/introspection.ts:48`). `docs/auth/token-validation.md:24` has the
  issuer checked "when present" and its line 11 requires one that matches;
  `docs/specs/oauth-chatgpt-connector.md:153` says that wrong-issuer tokens do
  not reach MCP. `Entitled` in `GatewayRequest` says what is accepted.
* The metrics of an RDS instance and the stopped tasks of a cluster are of a
  span that ends when they were asked for, and a cached answer is given for a
  later one (`aws/cloudwatch/metrics.ts`, `aws/ecs/client.ts`). `AnswersAsked`
  says by how much.

## Fairness

* `ToolExecution`: weak fairness of each call's steps: the runtime goes on with
  a call whose promises have settled. A request to AWS settles because the
  client aborts it, before or after its headers (`aws/client.ts`).
* `ApplicationOps`: weak fairness of `CallStep(c)`, all steps of a call
  together: some section of a running call goes on. That is less than fairness
  of each section, and enough, because a section has finitely many steps.

The other models need none: their properties are safety. `GatewayRequest` could
not have fairness that the code justifies, because introspection waits without
a timeout.

## Proofs

Each theorem holds for all values of the constants under the assumptions named
in the module (`...Assumption`), which TLC evaluates in the runs.

* `RateLimitProofs`. `IInv` adds to `TypeOK` that a payload under way is no
  older than `MaxDelay` and stamped within `MaxSkew`, and that a stored window
  was opened by a payload so stamped, with the length of some deployed version,
  and has let through no more than were counted. Limits alone are not
  inductive: without the link from `window` to `openedAt` and `openedFor` a
  window might be reopened at any time, or after the length of a version other
  than the one that opened it. Proved: `TypeCorrect`, `LimitHolds`, `LockoutEnds`,
  `SpacingHolds`, `RetryAfterHolds`.
* `ToolExecutionProofs`. `IInv` assumes nothing of which calls share an HTTP
  request. It says that a collector has at least what each of its running calls
  has done (`Covered`), that a read with a request under way has missed or found
  no cache, and that a report is the metadata of a collector that was like that
  when it was made (`Reported`): a report cannot be described by the collector of
  now, which other calls of the batch go on writing to. Dispatching is where it
  could break, and does not, because the calls of a batch are all dispatched, and
  the collector reset, before any of them reads. Proved: `TypeCorrect`,
  `HitsAreFree`, `CostsAreCovered`. Of a call that is alone in its HTTP request
  (`Alone`) the collector is what the call has done and no more (`Mirrored`,
  `OwnReported`), whatever batches there are beside it: `AloneIsAccurate`,
  `ChargesExplained`. `ReportsAccurate` concludes that every report is accurate
  where every call is alone; `tool_execution_batch` shows that it is not else.
* `ProfileStoreProofs`. `IInv` adds that a run that has not been overtaken
  still holds the current index, that the document of a run half way is in
  place, and that no such run has read a corrupt index. `CallsAreServed` needs a
  second invariant, `Serving`: as long as there were only puts, every index and
  document that a Worker may see, or that a run is about to write, serves the
  profiles published at the start. Proved: `TypeCorrect`, `Consistency`,
  `OthersAreKept`, `CorruptIsKept`, `CallsAreServed`; and `ModifiableIfSmall`, for
  finitely many profiles and where `RoomForAll` (`MaxCount * EntryBytes <=
  MaxBytes`), which is what the code's two limits would have to satisfy.
* `ProfileCatalogProofs`. The refinement of `ProfileCatalog`: each write of a
  run, each edit and each interruption is a step of the table or a stutter
  (`CatalogIsKept`). `IInv` of the store is needed where the second write is: the
  run's entry is still as it read it, and its document is still its own. A put of
  a new profile takes effect at its second write and one of a listed profile at
  its first, a deletion at the first, so the table's `Write` and `End` both may.
* `CredentialResolverProofs`. `IInv` adds that an entry of the cache is of its
  key's role and id, that a session under way or received was issued within a
  timeout, and that the cached session is at most a timeout short of the best
  received. The last is what makes `SessionsReused` hold although answers may
  overtake one another. Proved: `TypeCorrect`, `RolesAreOwn`,
  `CredentialsLast`, `SessionsAreReused`, and the refinement `SessionsAreKept`: a
  cached session is one its resolver has received, so `UseCached` is a `Reuse`,
  and `Receive` a `Grant`.
* `GatewayRequestProofs`. `IInv` says of each request how long it is under way
  and what its phase implies of the checks it has passed (`Fine`); that nobody
  uses a key set before it is created (`NotBefore`); that for each key set there
  is a time it was created at, from which all keys date that are in it or under
  way to it, and before which nobody who uses it gave it up (`KeySetsDated`);
  and that a key absent from a key set was published at most a request's length
  before that was fetched (`NewKeysOnlyMissing`). The creation time has to be
  quantified: the isolate forgets it when another request replaces the cached
  set, while requests go on with the old one. That an introspection has answered
  implies that the token was active when the request was under way (`Fine`),
  which is what `RevokedRefused` needs: the answer is used later, and a token
  revoked in between is still accepted. Proved: `TypeCorrect`,
  `AdmissionIsKept` (the refinement: each step is one of `Admission`'s or a
  stutter), `WithdrawnKeysDoExpire`, `PublishedKeysAreAccepted`,
  `RevokedAreRefused`, `SessionsAreServed`.
* `ApplicationOpsProofs`. `IInv` follows an answer from the request that reads
  it into the cache, from there into a section or a comparison, and from that
  into the cache again: at each place it was read as roles that some call reads
  that resource as, and is so old at most (`KvFine`, `JobsFine`). An entry must
  be dated by its expiry and not by its age, because a comparison takes over the
  age of what it is made of. Proved: `TypeCorrect`, `AnswersAreOwn`,
  `ResourcesAreOwn`, `SectionsAreComplete`, `AgeIsBounded`. `ProfilesAreOwn` has
  the hypothesis `Apart`, that no profile names a resource of another;
  `application_twins` has profiles that do.
  `SectionsDoAdvance` is the safety half of `CallsAnswered`: every step of a
  section makes a natural number smaller (`Left`), whatever fails, for any number of sections. What remains
  for TLC is that fairness makes the steps happen and `Reply` follows.
* `ToolCallsProofs`. What the tables of `ToolCatalog` must be like is said once
  for any tool and any client and proved of each of the 38 and the 25
  (`ToolsOK`, `ClientsOK`): the key of a client has all that its answer is made
  of, but for the time; after a step that may lose something no step takes what is absent for an
  answer; the requests of a tool's clients are declared by its manifest; its
  bounds are those of its schema. `IInv` follows a strand through the steps of
  its client and the answer into the cache: what is missing from an answer was
  lost in an earlier step, and an entry is the answer its key asks for. A second
  invariant on top of it, `TInv`, dates what the keys leave undated: the read in
  hand is of a time of its call, and an entry lives no longer than the TTL after
  it was stored and was made at most a call's length before that. The
  strands of a call are a fold over the reads of its tool, which `FlattenSeq`
  defines recursively; what it returns is shown by the least prefix it would be
  wrong for, the one form of induction that needs no operator as a parameter
  (`Least`, `FlattenSeqIn`). Proved: `TypeCorrect`, `AnswersAreAsked`,
  `PartialAnswersHaveItems`, `RegionsAreAllowed`, `RequestsAreDeclared`,
  `ListedAreCallable`. That the bounds of the policy admit what the schema does
  includes a pigeonhole argument (`NoLonger`): a list of regions without
  repetitions is no longer than the list of the allowed ones.

Only model-checked are the liveness properties `CallsSettle` and
`CallsAnswered`: liveness under fairness is out of the prover's reach. Every
other property of a run that passes is the statement of a theorem.

What the theorems with hypotheses leave open is shown by runs: where not every
call is alone `tool_execution_batch` is violated, without `RoomForAll`
`profile_size`, without `Apart` `application_twins`.

## Plan

Done, in this order: `RateLimit`, `ToolExecution`, `ProfileStore` and
`CredentialResolver` with their proofs; `ApplicationOps`; `GatewayRequest` with
the authentication and `Admission`, and its proofs; `ToolCatalog` and
`ToolCalls`, for the policy, the clients, the regions and the overviews; the
proofs of `ApplicationOps` and `ToolCalls`; the type correctness of every model
and `CallsAreServed`; `ProfileCatalog` and `RoleSessions` with the refinements, and
what holds of batches, of accounts and of limits beside the disagreements above.

Left:

1. Narrowing the allowed regions under a published index, in `ProfileStore`.
2. The steps of a read in `ApplicationOps`, joined with those of `ToolCatalog`.

## Not modelled

* Parsing and normalizing of AWS answers, pages and the cutting down to limits:
  they change no state; a read is an answer, an answer without items, or an
  error.
* Signing, hashing and the formats of keys, tokens and settings: a key is what
  it is made of, a setting is there, malformed or missing.
* Validation of profile documents field by field: a document is valid or not.
  `get`, `list` and `validate` of the CLI change no state.
* Output schemas, descriptors and the generated capability matrix: texts and
  tables that decide nothing.
* Audit, logging and redaction: nothing reads them back.
* Set-up, release and infrastructure scripts: run by hand, outside the Worker.
  The read-only IAM policy of the repository is in `ToolCalls`, as what AWS
  grants.
