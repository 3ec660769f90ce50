---------------------------- MODULE ToolExecution -----------------------------
(***************************************************************************)
(* The paid Cost Explorer tools: a tool call reads through the KV cache,   *)
(* asks AWS where the cache does not answer, stores what AWS said, and     *)
(* attaches to its result what the execution collector saw of it.          *)
(*                                                                         *)
(* Every HTTP request to /mcp builds one context with one collector.  The  *)
(* messages of a JSON-RPC batch are dispatched together in that context,   *)
(* so their calls run concurrently.  All contexts share the KV namespace.  *)
(* A call may do several cached reads at once (aws_cost_overview does two, *)
(* with Promise.all).                                                      *)
(***************************************************************************)
EXTENDS Integers, FiniteSets

CONSTANTS
    Calls,      \* the tool calls
    HttpOf,     \* the HTTP request, and so the context, each call arrives in
    Keys,       \* the cache keys, one per Cost Explorer query
    Reads       \* the cached reads each call does

ASSUME ReadsAssumption == Reads \in [Calls -> SUBSET Keys]

Https == {HttpOf[c] : c \in Calls}

CallsOf(x) == {c \in Calls : HttpOf[c] = x}

VARIABLES
    cacheBound,  \* the deployment has the AWS_MCP_CACHE binding
    kv,          \* the keys with an unexpired entry in KV
    collector,   \* the execution collector of each context
    phase,       \* what each call is doing
    read,        \* what each cached read of each call is doing
    report,      \* the execution metadata attached to each answer
    own          \* history: what really happened on behalf of each call

vars == <<cacheBound, kv, collector, phase, read, report, own>>

-----------------------------------------------------------------------------
(* The collector and the metadata built from it.                           *)

CacheStatuses == {"hit", "miss", "disabled", "unavailable"}

\* The counts are per capability; the paid tools use one, ce:GetCostAndUsage.
Collectors == [statuses : SUBSET CacheStatuses, requests : Nat]

EmptyCollector == [statuses |-> {}, requests |-> 0]

\* recordCacheStatus and recordAwsRequest accumulate.
Recorded(col, statuses, n) ==
    [statuses |-> col.statuses \cup statuses, requests |-> col.requests + n]

\* The composite status: miss > unavailable > hit > disabled, and
\* "unavailable" when nothing was recorded (resolveDefaultCacheBlock).
\* "bypass" is declared in the code and recorded nowhere.
CompositeStatusHitFirst(statuses) ==
    CASE "hit" \in statuses -> "hit"
      [] "hit" \notin statuses /\ "miss" \in statuses -> "miss"
      [] statuses = {"disabled"} -> "disabled"
      [] OTHER -> "unavailable"

CompositeStatus(statuses) ==
    CASE "miss" \in statuses -> "miss"
      [] "miss" \notin statuses /\ "unavailable" \in statuses -> "unavailable"
      [] statuses \cap {"miss", "unavailable"} = {} /\ "hit" \in statuses -> "hit"
      [] statuses = {"disabled"} -> "disabled"
      [] OTHER -> "unavailable"

\* Charged: a status that implies a live call, and a positive estimate.  The
\* estimate is counted in unit prices, 0.01 USD in the code.
IsChargedUnlessHit(col) ==
    CompositeStatus(col.statuses) # "hit" /\ col.requests > 0

IsCharged(col) == CompositeStatus(col.statuses) = "miss" /\ col.requests > 0

\* resolveBillingNote of a paid tool.
BillingNote(col) ==
    IF ~IsCharged(col) /\ col.statuses # {} THEN "no new request" ELSE "estimate"

\* formatVisibleBillingNote: the line appended to the answer's text.
VisibleNote(col) ==
    CASE CompositeStatus(col.statuses) = "hit" -> "served from cache"
      [] IsCharged(col) -> "served from AWS"
      [] OTHER -> "none"

MetadataFirstFree(col) ==
    [status |-> CompositeStatus(col.statuses),
     requests |-> col.requests,
     charged |-> IsCharged(col),
     estimate |-> col.requests - 1,
     note |-> BillingNote(col),
     visible |-> VisibleNote(col)]

Metadata(col) ==
    [status |-> CompositeStatus(col.statuses),
     requests |-> col.requests,
     charged |-> IsCharged(col),
     estimate |-> IF IsCharged(col) THEN col.requests ELSE 0,
     note |-> BillingNote(col),
     visible |-> VisibleNote(col)]

Reports ==
    [status : CacheStatuses, requests : Nat, charged : BOOLEAN, estimate : Nat,
     note : {"no new request", "estimate"},
     visible : {"served from cache", "served from AWS", "none"}]

NoReport == [status |-> "unavailable", requests |-> 0, charged |-> FALSE,
             estimate |-> 0, note |-> "estimate", visible |-> "none"]

-----------------------------------------------------------------------------
(* The steps of a call.                                                    *)

Phases == {"waiting", "running", "answered", "failed"}

ReadPhases == {"idle", "reading", "calling", "receiving", "storing", "done", "failed"}

Init ==
    /\ cacheBound \in BOOLEAN
    /\ kv \in IF cacheBound THEN SUBSET Keys ELSE {{}}
    /\ collector = [x \in Https |-> EmptyCollector]
    /\ phase = [c \in Calls |-> "waiting"]
    /\ read = [c \in Calls |-> [k \in Keys |-> "idle"]]
    /\ report = [c \in Calls |-> NoReport]
    /\ own = [c \in Calls |-> EmptyCollector]

\* Both the context's collector and the call's own history take note.
NoteOverwriting(c, k, next, statuses, n) ==
    /\ read' = [read EXCEPT ![c][k] = next]
    /\ collector' = [collector EXCEPT ![HttpOf[c]] =
                       [statuses |-> IF statuses = {} THEN @.statuses ELSE statuses,
                        requests |-> @.requests + n]]
    /\ own' = [own EXCEPT ![c] = Recorded(@, statuses, n)]

Note(c, k, next, statuses, n) ==
    /\ read' = [read EXCEPT ![c][k] = next]
    /\ collector' = [collector EXCEPT ![HttpOf[c]] = Recorded(@, statuses, n)]
    /\ own' = [own EXCEPT ![c] = Recorded(@, statuses, n)]

Advance(c, k, next) ==
    /\ read' = [read EXCEPT ![c][k] = next]
    /\ UNCHANGED <<collector, own>>

\* As Dispatch, with something to wait for before each call.
DispatchOneByOne(x) ==
    /\ \E c \in CallsOf(x) :
          /\ phase[c] = "waiting"
          /\ phase' = [phase EXCEPT ![c] = "running"]
          /\ read' = [read EXCEPT ![c] =
                         [k \in Keys |-> IF k \in Reads[c] THEN "reading" ELSE "idle"]]
    /\ collector' = [collector EXCEPT ![x] = EmptyCollector]
    /\ UNCHANGED <<cacheBound, kv, report, own>>

\* The transport hands the messages of one HTTP request to the server one
\* after the other without waiting.  Each call that passes the policy resets
\* the collector and starts its reads before any of them has been answered;
\* the others fail at once and leave the collector alone.
Dispatch(x) ==
    /\ \A c \in CallsOf(x) : phase[c] = "waiting"
    /\ \E allowed \in SUBSET CallsOf(x) :
          /\ phase' = [c \in Calls |->
                         IF c \in allowed THEN "running"
                         ELSE IF c \in CallsOf(x) THEN "failed" ELSE phase[c]]
          /\ read' = [c \in Calls |-> [k \in Keys |->
                        IF c \in allowed /\ k \in Reads[c] THEN "reading" ELSE read[c][k]]]
          /\ collector' = IF allowed = {} THEN collector
                          ELSE [collector EXCEPT ![x] = EmptyCollector]
    /\ UNCHANGED <<cacheBound, kv, report, own>>

\* cacheReadWithStatus: no binding, a failed read, nothing stored, or a value.
ReadCache(c, k) ==
    /\ read[c][k] = "reading"
    /\ \/ ~cacheBound /\ Note(c, k, "calling", {"disabled"}, 0)
       \/ cacheBound /\ Note(c, k, "calling", {"unavailable"}, 0)
       \/ /\ cacheBound /\ k \notin kv
          /\ Note(c, k, "calling", {"miss"}, 0)
       \/ /\ cacheBound /\ k \in kv
          /\ Note(c, k, "done", {"hit"}, 0)
    /\ UNCHANGED <<cacheBound, kv, phase, report>>

\* awsRequest: a response with a success status is counted before its body is
\* read.
Respond(c, k) ==
    /\ read[c][k] = "calling"
    /\ Note(c, k, "receiving", {}, 1)
    /\ UNCHANGED <<cacheBound, kv, phase, report>>

\* The whole body has arrived and parses.
Receive(c, k) ==
    /\ read[c][k] = "receiving"
    /\ Advance(c, k, IF cacheBound THEN "storing" ELSE "done")
    /\ UNCHANGED <<cacheBound, kv, phase, report>>

\* awsRequest throws: an error status, a network error, a body that does not
\* parse, or the abort timer, which covers the response and its body.
FailRequestBeforeHeaders(c, k) ==
    /\ read[c][k] = "calling"
    /\ Advance(c, k, "failed")
    /\ UNCHANGED <<cacheBound, kv, phase, report>>

FailRequest(c, k) ==
    /\ read[c][k] \in {"calling", "receiving"}
    /\ Advance(c, k, "failed")
    /\ UNCHANGED <<cacheBound, kv, phase, report>>

\* cacheSet: a failed put is swallowed.
Store(c, k) ==
    /\ read[c][k] = "storing"
    /\ Advance(c, k, "done")
    /\ kv' \in {kv, kv \cup {k}}
    /\ UNCHANGED <<cacheBound, phase, report>>

\* wrapManifestHandler after the handler returned: the snapshot is taken from
\* the context's collector.
Answer(c) ==
    /\ phase[c] = "running"
    /\ \A k \in Reads[c] : read[c][k] = "done"
    /\ phase' = [phase EXCEPT ![c] = "answered"]
    /\ report' = [report EXCEPT ![c] = Metadata(collector[HttpOf[c]])]
    /\ UNCHANGED <<cacheBound, kv, collector, read, own>>

\* One read failed: Promise.all rejects and safeMcpHandler answers with an
\* error.  The call's other reads go on.
Fail(c) ==
    /\ phase[c] = "running"
    /\ \E k \in Reads[c] : read[c][k] = "failed"
    /\ phase' = [phase EXCEPT ![c] = "failed"]
    /\ UNCHANGED <<cacheBound, kv, collector, read, report, own>>

\* An entry reaches its expirationTtl.
Expire ==
    /\ \E k \in kv : kv' = kv \ {k}
    /\ UNCHANGED <<cacheBound, collector, phase, read, report, own>>

Next ==
    \/ \E x \in Https : Dispatch(x)
    \/ \E c \in Calls, k \in Keys :
          ReadCache(c, k) \/ Respond(c, k) \/ Receive(c, k) \/ FailRequest(c, k)
            \/ Store(c, k)
    \/ \E c \in Calls : Answer(c) \/ Fail(c)
    \/ Expire

Spec == Init /\ [][Next]_vars

\* KV operations settle, the abort timer of awsRequest fires, and the event
\* loop runs what is ready.  AWS owes no response: Respond and Receive are not
\* fair.
Fairness ==
    /\ \A c \in Calls, k \in Keys :
          /\ WF_vars(ReadCache(c, k))
          /\ WF_vars(FailRequest(c, k))
          /\ WF_vars(Store(c, k))
    /\ \A c \in Calls : WF_vars(Answer(c)) /\ WF_vars(Fail(c))

FairSpec == Spec /\ Fairness
-----------------------------------------------------------------------------
(* Properties.                                                             *)

\* What every state looks like.
TypeOK ==
    /\ cacheBound \in BOOLEAN
    /\ kv \subseteq Keys
    /\ collector \in [Https -> Collectors]
    /\ phase \in [Calls -> Phases]
    /\ read \in [Calls -> [Keys -> ReadPhases]]
    /\ report \in [Calls -> Reports]
    /\ own \in [Calls -> Collectors]

\* The call is the only one of its HTTP request, and no part of a batch.
Alone(c) == CallsOf(HttpOf[c]) = {c}

\* The report is about the call: the requests made for it and the outcome of its
\* own cache reads.
Accurate(c) ==
    /\ report[c].requests = own[c].requests
    /\ report[c].status = CompositeStatus(own[c].statuses)

\* The metadata of an answer describes the call it is attached to.
ReportAccurate == \A c \in Calls : phase[c] = "answered" => Accurate(c)

\* So it does where the call is alone in its HTTP request, whatever batches share
\* the cache with it (wrapManifestHandler).
AloneAccurate == \A c \in Calls : phase[c] = "answered" /\ Alone(c) => Accurate(c)

\* A call that is alone is reported as charged exactly when one of its own reads
\* missed, and then for as many requests as were made for it, at least one.
ChargeExplained ==
    \A c \in Calls :
        phase[c] = "answered" /\ Alone(c) =>
            /\ report[c].charged <=> "miss" \in own[c].statuses
            /\ report[c].charged => /\ report[c].estimate = own[c].requests
                                    /\ own[c].requests > 0

\* An answer that says it was served from the cache cost no request.
HitIsFree ==
    \A c \in Calls :
        phase[c] = "answered" /\ (report[c].status = "hit"
                                   \/ report[c].visible = "served from cache") =>
            own[c].requests = 0

\* Even in a batch, whose calls share a collector, no call is told of less than
\* it has cost: the requests made for it are reported, and charged if a read of
\* its own missed.
CostCovered ==
    \A c \in Calls :
        phase[c] = "answered" =>
            /\ report[c].requests >= own[c].requests
            /\ "miss" \in own[c].statuses =>
                  report[c].charged /\ report[c].estimate >= own[c].requests

\* A paid answer whose billing note says that no new Cost Explorer request was
\* made has indeed made none.
NoteTruthful ==
    \A c \in Calls :
        phase[c] = "answered" /\ report[c].note = "no new request" =>
            own[c].requests = 0

\* Every call that was dispatched is answered, with a result or an error,
\* whatever AWS does.
CallsSettle ==
    \A c \in Calls : phase[c] = "running" ~> phase[c] \in {"answered", "failed"}
=============================================================================
