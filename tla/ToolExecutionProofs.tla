------------------------- MODULE ToolExecutionProofs --------------------------
(***************************************************************************)
(* The execution metadata of an answer leaves out nothing of its call, and *)
(* is accurate of one that is alone in its HTTP request, for any number of *)
(* calls, of keys and of reads per call.                                   *)
(***************************************************************************)
EXTENDS ToolExecution, TLAPS

\* A collector has all that a call has done.
Covers(col, done) == done.statuses \subseteq col.statuses /\ done.requests <= col.requests

\* A hit needs the binding that "disabled" says is missing.
Consistent(col) ==
    /\ "hit" \in col.statuses => cacheBound
    /\ "disabled" \in col.statuses => ~cacheBound

\* The calls of an HTTP request are dispatched before any of them has recorded
\* anything, so that none loses by the reset of another.
Covered == \A c \in Calls : Covers(collector[HttpOf[c]], own[c])

ContextsConsistent == \A x \in Https : Consistent(collector[x])

\* Before a call is dispatched nothing happens on its behalf, and only the
\* reads it has to do are ever started.
ReadsStarted ==
    \A c \in Calls :
        /\ phase[c] = "waiting" => /\ own[c] = EmptyCollector
                                   /\ \A k \in Keys : read[c][k] = "idle"
        /\ \A k \in Keys : k \notin Reads[c] => read[c][k] = "idle"

\* A request follows a cache read that did not hit.
RequestsExplained ==
    \A c \in Calls :
        /\ own[c].requests > 0 =>
              own[c].statuses \cap {"miss", "unavailable", "disabled"} # {}
        /\ \A k \in Keys :
              read[c][k] = "calling" =>
                 own[c].statuses \cap {"miss", "unavailable", "disabled"} # {}

\* A miss is followed by a request, unless the request is still to come or
\* failed.
MissesFollowed ==
    \A c \in Calls :
        "miss" \in own[c].statuses =>
            \/ own[c].requests > 0
            \/ \E k \in Keys : read[c][k] \in {"calling", "failed"}

\* The report of an answered call is the metadata of a collector that had all of
\* its history.
Snapshot(c) ==
    \E col \in Collectors :
        report[c] = Metadata(col) /\ Covers(col, own[c]) /\ Consistent(col)

Reported ==
    \A c \in Calls :
        phase[c] = "answered" => Snapshot(c) /\ \A k \in Reads[c] : read[c][k] = "done"

IInv ==
    /\ TypeOK
    /\ Covered
    /\ ContextsConsistent
    /\ ReadsStarted
    /\ RequestsExplained
    /\ MissesFollowed
    /\ Reported

-----------------------------------------------------------------------------
(* The collector and the metadata.                                         *)

\* Recording leaves a collector a collector.
LEMMA RecordedType ==
    ASSUME NEW col \in Collectors, NEW s \in SUBSET CacheStatuses, NEW n \in Nat
    PROVE  /\ Recorded(col, s, n) \in Collectors
           /\ Recorded(col, s, n).statuses = col.statuses \cup s
           /\ Recorded(col, s, n).requests = col.requests + n
BY DEF Recorded, Collectors

\* The composite status is one of the four, follows the priority, and is "hit"
\* only when nothing but hits (and "disabled") was recorded.
LEMMA CompositeStatusRange ==
    ASSUME NEW statuses \in SUBSET CacheStatuses
    PROVE  /\ CompositeStatus(statuses) \in CacheStatuses
           /\ CompositeStatus(statuses) = "miss" <=> "miss" \in statuses
           /\ CompositeStatus(statuses) = "hit" =>
                 /\ statuses \cap {"miss", "unavailable"} = {}
                 /\ "hit" \in statuses
<1>1. CASE "miss" \in statuses
  BY <1>1 DEF CompositeStatus, CacheStatuses
<1>2. CASE "miss" \notin statuses /\ "unavailable" \in statuses
  BY <1>2 DEF CompositeStatus, CacheStatuses
<1>3. CASE statuses \cap {"miss", "unavailable"} = {} /\ "hit" \in statuses
  BY <1>3 DEF CompositeStatus, CacheStatuses
<1>4. CASE statuses = {"disabled"}
  BY <1>4 DEF CompositeStatus, CacheStatuses
<1>5. CASE statuses = {}
  BY <1>5 DEF CompositeStatus, CacheStatuses
<1>6. QED
  BY <1>1, <1>2, <1>3, <1>4, <1>5 DEF CacheStatuses

\* The metadata of a collector is a well-formed report.
LEMMA MetadataType ==
    ASSUME NEW col \in Collectors
    PROVE  Metadata(col) \in Reports
<1>1. col.statuses \in SUBSET CacheStatuses /\ col.requests \in Nat
  BY DEF Collectors
<1>2. CompositeStatus(col.statuses) \in CacheStatuses
  BY <1>1, CompositeStatusRange
<1>3. IsCharged(col) \in BOOLEAN
  BY DEF IsCharged
<1>4. BillingNote(col) \in {"no new request", "estimate"}
  BY DEF BillingNote
<1>5. VisibleNote(col) \in {"served from cache", "served from AWS", "none"}
  BY <1>3 DEF VisibleNote
<1>6. QED
  BY <1>1, <1>2, <1>3, <1>4, <1>5 DEF Metadata, Reports

-----------------------------------------------------------------------------
(* The inductive invariant.                                                *)

\* The contexts are those the calls arrive in.
LEMMA ContextOfCall == \A c \in Calls : HttpOf[c] \in Https
BY DEF Https

LEMMA InitIInv == Init => IInv
<1> SUFFICES ASSUME Init PROVE IInv
  OBVIOUS
<1>1. EmptyCollector \in Collectors /\ NoReport \in Reports
  BY DEF EmptyCollector, Collectors, NoReport, Reports, CacheStatuses
<1>2. kv \subseteq Keys /\ cacheBound \in BOOLEAN
  BY DEF Init
<1>3. TypeOK
  BY <1>1, <1>2 DEF Init, TypeOK, Phases, ReadPhases
<1>4. Covered /\ ContextsConsistent
  BY ContextOfCall DEF Init, Covered, Covers, ContextsConsistent, Consistent, EmptyCollector
<1>5. ReadsStarted /\ RequestsExplained /\ MissesFollowed /\ Reported
  BY DEF Init, ReadsStarted, RequestsExplained, MissesFollowed, Reported, EmptyCollector
<1>6. QED
  BY <1>3, <1>4, <1>5 DEF IInv

\* What Note changes, and that what a call records is in the collector of its
\* context.
LEMMA NoteEffect ==
    ASSUME IInv, NEW c \in Calls, NEW k \in Keys, NEW next \in ReadPhases,
           NEW s \in SUBSET CacheStatuses, NEW n \in Nat, Note(c, k, next, s, n),
           UNCHANGED cacheBound, "hit" \in s => cacheBound, "disabled" \in s => ~cacheBound
    PROVE  /\ collector' \in [Https -> Collectors]
           /\ own' \in [Calls -> Collectors]
           /\ Covered' /\ ContextsConsistent'
           /\ own'[c] = Recorded(own[c], s, n)
           /\ \A d \in Calls : d # c => own'[d] = own[d]
<1> DEFINE x == HttpOf[c]
<1>1. x \in Https /\ own[c] \in Collectors /\ collector[x] \in Collectors
  BY ContextOfCall DEF IInv, TypeOK
<1>2. /\ own' = [own EXCEPT ![c] = Recorded(own[c], s, n)]
      /\ collector' = [collector EXCEPT ![x] = Recorded(collector[x], s, n)]
  BY DEF Note
<1>3. \A col \in Collectors :
          /\ Recorded(col, s, n) \in Collectors
          /\ Recorded(col, s, n).statuses = col.statuses \cup s
          /\ Recorded(col, s, n).requests = col.requests + n
          /\ col.requests \in Nat
  BY RecordedType DEF Collectors
<1>4. /\ own' \in [Calls -> Collectors]
      /\ own'[c] = Recorded(own[c], s, n)
      /\ \A d \in Calls : d # c => own'[d] = own[d]
  BY <1>1, <1>2, <1>3 DEF IInv, TypeOK
<1>5. /\ collector' \in [Https -> Collectors]
      /\ collector'[x] = Recorded(collector[x], s, n)
      /\ \A y \in Https : y # x => collector'[y] = collector[y]
  BY <1>1, <1>2, <1>3 DEF IInv, TypeOK
<1>6. Covers(collector'[x], collector[x])
  BY <1>1, <1>3, <1>5 DEF Covers
<1>7. Covered'
  <2> SUFFICES ASSUME NEW d \in Calls PROVE Covers(collector'[HttpOf[d]], own'[d])
    BY DEF Covered, Covers
  <2>0. /\ Covers(collector[HttpOf[d]], own[d]) /\ HttpOf[d] \in Https
        /\ own[d].requests \in Nat /\ collector[HttpOf[d]].requests \in Nat
    BY ContextOfCall DEF IInv, Covered, TypeOK, Collectors
  <2>1. CASE d = c
    BY <1>1, <1>3, <1>4, <1>5, <2>0, <2>1 DEF Covers
  <2>2. CASE d # c /\ HttpOf[d] = x
    <3>1. collector'[x].requests \in Nat
      BY <1>1, <1>5 DEF Collectors
    <3>2. QED
      BY <1>4, <1>6, <2>0, <2>2, <3>1 DEF Covers
  <2>3. CASE d # c /\ HttpOf[d] # x
    BY <1>4, <1>5, <2>0, <2>3
  <2>4. QED
    BY <2>1, <2>2, <2>3
<1>8. ContextsConsistent'
  <2> SUFFICES ASSUME NEW y \in Https
               PROVE  /\ "hit" \in collector'[y].statuses => cacheBound
                      /\ "disabled" \in collector'[y].statuses => ~cacheBound
    BY DEF ContextsConsistent, Consistent
  <2>1. Consistent(collector[y])
    BY DEF IInv, ContextsConsistent
  <2>2. CASE y = x
    <3>1. collector'[y].statuses = collector[y].statuses \cup s
      BY <1>1, <1>3, <1>5, <2>2
    <3>2. QED
      BY <2>1, <3>1 DEF Consistent
  <2>3. CASE y # x
    BY <1>5, <2>1, <2>3 DEF Consistent
  <2>4. QED
    BY <2>2, <2>3
<1>9. QED
  BY <1>4, <1>5, <1>7, <1>8

\* Recording a cache status counts no request.
LEMMA NoteStatus ==
    ASSUME IInv, NEW c \in Calls, NEW k \in Keys, NEW next \in ReadPhases,
           NEW s \in SUBSET CacheStatuses, Note(c, k, next, s, 0),
           UNCHANGED cacheBound, "hit" \in s => cacheBound, "disabled" \in s => ~cacheBound
    PROVE  /\ collector' \in [Https -> Collectors]
           /\ own' \in [Calls -> Collectors]
           /\ Covered' /\ ContextsConsistent'
           /\ own'[c].statuses = own[c].statuses \cup s
           /\ own'[c].requests = own[c].requests
           /\ \A d \in Calls : d # c => own'[d] = own[d]
<1>1. own[c].requests \in Nat
  BY DEF IInv, TypeOK, Collectors
<1>2. /\ collector' \in [Https -> Collectors]
      /\ own' \in [Calls -> Collectors]
      /\ Covered' /\ ContextsConsistent'
      /\ own'[c] = Recorded(own[c], s, 0)
      /\ \A d \in Calls : d # c => own'[d] = own[d]
  BY NoteEffect
<1>3. QED
  BY <1>1, <1>2 DEF Recorded

\* A read that moves on is one the call had to do and its call is not waiting.
LEMMA ReadActive ==
    ASSUME IInv, NEW c \in Calls, NEW k \in Keys, read[c][k] # "idle"
    PROVE  k \in Reads[c] /\ phase[c] # "waiting"
BY DEF IInv, ReadsStarted

\* A read that is not done belongs to a call that is not answered.
LEMMA NotAnswered ==
    ASSUME IInv, NEW c \in Calls, NEW k \in Keys, read[c][k] # "idle", read[c][k] # "done"
    PROVE  phase[c] # "answered"
BY ReadActive DEF IInv, Reported

\* A report stays what it was made of.
LEMMA SnapshotStays ==
    ASSUME NEW c \in Calls, Snapshot(c), UNCHANGED <<cacheBound, report>>, own'[c] = own[c]
    PROVE  Snapshot(c)'
<1>1. PICK col \in Collectors :
          report[c] = Metadata(col) /\ Covers(col, own[c]) /\ Consistent(col)
  BY DEF Snapshot
<1>2. report'[c] = Metadata(col) /\ Covers(col, own'[c]) /\ Consistent(col)'
  BY <1>1 DEF Consistent
<1>3. QED
  BY <1>2 DEF Snapshot, Metadata, IsCharged, BillingNote, VisibleNote, Covers

\* A step that moves one read on and touches neither calls nor reports keeps
\* the invariant when it keeps what the history says of the reads.
LEMMA ReadStep ==
    ASSUME IInv, NEW c \in Calls, NEW k \in Keys,
           read[c][k] # "idle", read[c][k] # "done",
           NEW next \in ReadPhases \ {"idle"},
           read' = [read EXCEPT ![c][k] = next],
           UNCHANGED <<cacheBound, phase, report>>,
           kv' \subseteq Keys,
           collector' \in [Https -> Collectors], own' \in [Calls -> Collectors],
           Covered', ContextsConsistent',
           \A d \in Calls : d # c => own'[d] = own[d],
           own'[c].requests > 0 \/ next = "calling" =>
              own'[c].statuses \cap {"miss", "unavailable", "disabled"} # {},
           own[c].statuses \subseteq own'[c].statuses,
           "miss" \in own'[c].statuses =>
              \/ own'[c].requests > 0
              \/ next \in {"calling", "failed"}
              \/ \E j \in Keys \ {k} : read[c][j] \in {"calling", "failed"}
    PROVE  IInv'
<1>0. TypeOK /\ next \in ReadPhases
  BY DEF IInv
<1>1. k \in Reads[c] /\ phase[c] # "waiting" /\ phase[c] # "answered"
  BY ReadActive, NotAnswered
<1>2. /\ read' \in [Calls -> [Keys -> ReadPhases]]
      /\ read'[c][k] = next
      /\ \A d \in Calls, j \in Keys : d # c \/ j # k => read'[d][j] = read[d][j]
  BY <1>0 DEF TypeOK
<1>3. TypeOK'
  BY <1>2 DEF IInv, TypeOK
<1>4. ReadsStarted'
  BY <1>1, <1>2 DEF IInv, ReadsStarted
<1>6. RequestsExplained'
  <2> SUFFICES ASSUME NEW d \in Calls
               PROVE  /\ own'[d].requests > 0 =>
                            own'[d].statuses \cap {"miss", "unavailable", "disabled"} # {}
                      /\ \A j \in Keys :
                            read'[d][j] = "calling" =>
                               own'[d].statuses \cap {"miss", "unavailable", "disabled"} # {}
    BY DEF RequestsExplained
  <2>1. CASE d # c
    BY <1>2, <2>1 DEF IInv, RequestsExplained
  <2>2. CASE d = c
    <3>1. ASSUME NEW j \in Keys, j # k, read'[c][j] = "calling"
          PROVE  own'[c].statuses \cap {"miss", "unavailable", "disabled"} # {}
      <4>1. own[c].statuses \cap {"miss", "unavailable", "disabled"} # {}
        BY <1>2, <3>1 DEF IInv, RequestsExplained
      <4>2. QED
        BY <4>1
    <3>2. QED
      BY <1>2, <2>2, <3>1
  <2>3. QED
    BY <2>1, <2>2
<1>7. MissesFollowed'
  BY <1>2 DEF IInv, MissesFollowed
<1>8. Reported'
  <2> SUFFICES ASSUME NEW d \in Calls, phase[d] = "answered"
               PROVE  Snapshot(d)' /\ \A j \in Reads[d] : read'[d][j] = "done"
    BY DEF Reported
  <2>1. d # c /\ Snapshot(d) /\ \A j \in Reads[d] : read[d][j] = "done"
    BY <1>1 DEF IInv, Reported
  <2>2. Snapshot(d)'
    BY <2>1, SnapshotStays
  <2>3. QED
    BY <1>2, <2>1, <2>2, ReadsAssumption
<1>9. QED
  BY <1>3, <1>4, <1>6, <1>7, <1>8 DEF IInv

\* Reading the cache: the four outcomes.
LEMMA ReadCacheIInv ==
    ASSUME IInv, NEW c \in Calls, NEW k \in Keys, ReadCache(c, k)
    PROVE  IInv'
<1>1. read[c][k] = "reading" /\ UNCHANGED <<cacheBound, kv, phase, report>>
  BY DEF ReadCache
<1>2. kv' \subseteq Keys
  BY <1>1 DEF IInv, TypeOK
<1>3. own[c].requests \in Nat /\ own[c].statuses \subseteq CacheStatuses
  BY DEF IInv, TypeOK, Collectors
<1>4. RequestsExplained /\ MissesFollowed
  BY DEF IInv
<1>5. ASSUME NEW s \in {"disabled", "unavailable", "miss"},
             Note(c, k, "calling", {s}, 0),
             s = "disabled" <=> ~cacheBound
      PROVE  IInv'
  <2>0. PICK m \in SUBSET CacheStatuses : m = {s} /\ Note(c, k, "calling", m, 0)
    BY <1>5 DEF CacheStatuses, ReadPhases
  <2>1. /\ collector' \in [Https -> Collectors] /\ own' \in [Calls -> Collectors]
        /\ Covered' /\ ContextsConsistent'
        /\ own'[c].statuses = own[c].statuses \cup m
        /\ own'[c].requests = own[c].requests
        /\ \A d \in Calls : d # c => own'[d] = own[d]
    BY <1>1, <1>5, <2>0, NoteStatus DEF ReadPhases
  <2>2. read' = [read EXCEPT ![c][k] = "calling"]
    BY <1>5 DEF Note
  <2>3. /\ own'[c].statuses \cap {"miss", "unavailable", "disabled"} # {}
        /\ own[c].statuses \subseteq own'[c].statuses
    BY <1>5, <2>0, <2>1
  <2>4. QED
    BY <1>1, <1>2, <2>1, <2>2, <2>3, ReadStep DEF ReadPhases
<1>6. ASSUME Note(c, k, "done", {"hit"}, 0), cacheBound
      PROVE  IInv'
  <2>0. PICK m \in SUBSET CacheStatuses : m = {"hit"} /\ Note(c, k, "done", m, 0)
    BY <1>6 DEF CacheStatuses, ReadPhases
  <2>1. /\ collector' \in [Https -> Collectors] /\ own' \in [Calls -> Collectors]
        /\ Covered' /\ ContextsConsistent'
        /\ own'[c].statuses = own[c].statuses \cup m
        /\ own'[c].requests = own[c].requests
        /\ \A d \in Calls : d # c => own'[d] = own[d]
    BY <1>1, <1>6, <2>0, NoteStatus DEF ReadPhases
  <2>2. read' = [read EXCEPT ![c][k] = "done"]
    BY <1>6 DEF Note
  <2>3. own[c].statuses \subseteq own'[c].statuses
    BY <2>1
  <2>4. own'[c].requests > 0 =>
           own'[c].statuses \cap {"miss", "unavailable", "disabled"} # {}
    BY <1>3, <1>4, <2>0, <2>1 DEF RequestsExplained
  <2>5. "miss" \in own'[c].statuses =>
           \/ own'[c].requests > 0
           \/ \E j \in Keys \ {k} : read[c][j] \in {"calling", "failed"}
    BY <1>1, <1>3, <1>4, <2>0, <2>1 DEF MissesFollowed
  <2>6. QED
    BY <1>1, <1>2, <2>1, <2>2, <2>3, <2>4, <2>5, ReadStep DEF ReadPhases
<1>7. QED
  BY <1>5, <1>6 DEF ReadCache

\* Counting a response.
LEMMA RespondIInv ==
    ASSUME IInv, NEW c \in Calls, NEW k \in Keys, Respond(c, k)
    PROVE  IInv'
<1>1. /\ read[c][k] = "calling" /\ UNCHANGED <<cacheBound, kv, phase, report>>
      /\ Note(c, k, "receiving", {}, 1)
  BY DEF Respond
<1>2. kv' \subseteq Keys
  BY <1>1 DEF IInv, TypeOK
<1>3. own[c].requests \in Nat
  BY DEF IInv, TypeOK, Collectors
<1>4. RequestsExplained
  BY DEF IInv
<1>0. PICK m \in SUBSET CacheStatuses : m = {} /\ Note(c, k, "receiving", m, 1)
  BY <1>1 DEF ReadPhases
<1>5. /\ collector' \in [Https -> Collectors] /\ own' \in [Calls -> Collectors]
      /\ Covered' /\ ContextsConsistent'
      /\ own'[c] = Recorded(own[c], m, 1)
      /\ \A d \in Calls : d # c => own'[d] = own[d]
  <2>1. /\ "receiving" \in ReadPhases /\ UNCHANGED cacheBound
        /\ ("hit" \in m => cacheBound) /\ ("disabled" \in m => ~cacheBound)
    BY <1>0, <1>1 DEF ReadPhases
  <2>2. 1 \in Nat
    OBVIOUS
  <2> QED
    BY <1>0, <2>1, <2>2, NoteEffect, Zenon
<1>6. own'[c].statuses = own[c].statuses /\ own'[c].requests > 0
  BY <1>0, <1>3, <1>5 DEF Recorded
<1>7. read' = [read EXCEPT ![c][k] = "receiving"]
  BY <1>1 DEF Note
<1>8. own'[c].statuses \cap {"miss", "unavailable", "disabled"} # {}
  BY <1>1, <1>4, <1>6 DEF RequestsExplained
<1>9. QED
  BY <1>1, <1>2, <1>5, <1>6, <1>7, <1>8, ReadStep DEF ReadPhases

\* The steps of a read that the collector does not see.
LEMMA AdvanceIInv ==
    ASSUME IInv, NEW c \in Calls, NEW k \in Keys,
           Receive(c, k) \/ FailRequest(c, k) \/ Store(c, k)
    PROVE  IInv'
<1>1. PICK next \in {"storing", "done", "failed"} : Advance(c, k, next)
  BY DEF Receive, FailRequest, Store
<1>2. /\ read[c][k] \in {"calling", "receiving", "storing"}
      /\ UNCHANGED <<cacheBound, phase, report>>
      /\ read[c][k] = "calling" => next = "failed"
  <2>1. CASE Receive(c, k)
    BY <2>1 DEF Receive
  <2>2. CASE FailRequest(c, k)
    <3>1. Advance(c, k, "failed") /\ TypeOK
      BY <2>2 DEF FailRequest, IInv
    <3>2. read'[c][k] = "failed" /\ read'[c][k] = next
      BY <1>1, <3>1 DEF Advance, TypeOK
    <3>3. QED
      BY <2>2, <3>2 DEF FailRequest
  <2>3. CASE Store(c, k)
    BY <2>3 DEF Store
  <2>4. QED
    BY <2>1, <2>2, <2>3
<1>3. kv' \subseteq Keys
  BY DEF Receive, FailRequest, Store, IInv, TypeOK
<1>4. read' = [read EXCEPT ![c][k] = next] /\ own' = own /\ collector' = collector
  BY <1>1 DEF Advance
<1>5. /\ collector' \in [Https -> Collectors] /\ own' \in [Calls -> Collectors]
      /\ Covered' /\ ContextsConsistent'
  BY <1>2, <1>4 DEF IInv, TypeOK, Covered, Covers, ContextsConsistent, Consistent
<1>6. own'[c].requests > 0 =>
         own'[c].statuses \cap {"miss", "unavailable", "disabled"} # {}
  BY <1>4 DEF IInv, RequestsExplained
<1>7. "miss" \in own'[c].statuses =>
         \/ own'[c].requests > 0
         \/ next \in {"calling", "failed"}
         \/ \E j \in Keys \ {k} : read[c][j] \in {"calling", "failed"}
  BY <1>2, <1>4 DEF IInv, MissesFollowed
<1>8. QED
  BY <1>1, <1>2, <1>3, <1>4, <1>5, <1>6, <1>7, ReadStep DEF ReadPhases

\* Resetting the collector of a context loses nothing: none of its calls has
\* recorded anything yet.
LEMMA DispatchIInv ==
    ASSUME IInv, NEW x \in Https, Dispatch(x)
    PROVE  IInv'
<1>1. PICK allowed \in SUBSET CallsOf(x) :
        /\ phase' = [c \in Calls |->
                       IF c \in allowed THEN "running"
                       ELSE IF c \in CallsOf(x) THEN "failed" ELSE phase[c]]
        /\ read' = [c \in Calls |-> [k \in Keys |->
                      IF c \in allowed /\ k \in Reads[c] THEN "reading" ELSE read[c][k]]]
        /\ collector' = IF allowed = {} THEN collector
                        ELSE [collector EXCEPT ![x] = EmptyCollector]
  BY DEF Dispatch
<1>2. UNCHANGED <<cacheBound, kv, report, own>>
  BY DEF Dispatch
<1>3. \A c \in Calls : HttpOf[c] = x =>
         /\ phase[c] = "waiting" /\ own[c] = EmptyCollector
         /\ \A k \in Keys : read[c][k] = "idle"
  BY DEF Dispatch, CallsOf, IInv, ReadsStarted
<1>4. allowed \subseteq Calls /\ \A c \in allowed : HttpOf[c] = x
  BY DEF CallsOf
<1>5. EmptyCollector \in Collectors
  BY DEF EmptyCollector, Collectors, CacheStatuses
<1>6. collector' \in [Https -> Collectors]
  BY <1>1, <1>5 DEF IInv, TypeOK
<1>7. read' \in [Calls -> [Keys -> ReadPhases]]
  BY <1>1 DEF IInv, TypeOK, ReadPhases
<1>8. phase' \in [Calls -> Phases]
  BY <1>1 DEF IInv, TypeOK, Phases
<1>9. TypeOK'
  BY <1>2, <1>6, <1>7, <1>8 DEF IInv, TypeOK
<1>10. Covered' /\ ContextsConsistent'
  <2>1. EmptyCollector.statuses = {} /\ EmptyCollector.requests = 0
    BY DEF EmptyCollector
  <2>2. ASSUME NEW y \in Https
        PROVE  collector'[y] = collector[y] \/ (y = x /\ collector'[y] = EmptyCollector)
    BY <1>1 DEF IInv, TypeOK
  <2>3. ASSUME NEW c \in Calls PROVE Covers(collector'[HttpOf[c]], own[c])
    <3>1. HttpOf[c] \in Https /\ Covers(collector[HttpOf[c]], own[c])
      BY ContextOfCall DEF IInv, Covered
    <3>2. CASE HttpOf[c] = x /\ collector'[x] = EmptyCollector
      BY <1>3, <2>1, <3>2 DEF Covers
    <3>3. QED
      BY <2>2, <3>1, <3>2
  <2>4. ASSUME NEW y \in Https PROVE Consistent(collector'[y])
    BY <2>1, <2>2 DEF IInv, ContextsConsistent, Consistent
  <2>5. QED
    BY <1>2, <2>3, <2>4 DEF Covered, Covers, ContextsConsistent, Consistent
<1>11. \A c \in Calls, k \in Keys :
          /\ c \notin allowed => read'[c][k] = read[c][k]
          /\ k \notin Reads[c] => read'[c][k] = read[c][k]
          /\ c \in allowed => read'[c][k] \in {"idle", "reading"}
  BY <1>1, <1>3, <1>4
<1>12. \A c \in Calls :
          /\ c \in allowed => phase'[c] = "running"
          /\ c \notin allowed /\ HttpOf[c] = x => phase'[c] = "failed"
          /\ HttpOf[c] # x => phase'[c] = phase[c]
  BY <1>1, <1>4 DEF CallsOf
<1>13. ReadsStarted'
  BY <1>2, <1>4, <1>11, <1>12 DEF IInv, ReadsStarted
<1>15. RequestsExplained'
  BY <1>2, <1>11 DEF IInv, RequestsExplained
<1>16. \A c \in allowed : "miss" \notin own[c].statuses
  BY <1>3, <1>4 DEF EmptyCollector
<1>17. MissesFollowed'
  BY <1>2, <1>11, <1>16 DEF IInv, MissesFollowed
<1>18. Reported'
  <2> SUFFICES ASSUME NEW c \in Calls, phase'[c] = "answered"
               PROVE  Snapshot(c)' /\ \A k \in Reads[c] : read'[c][k] = "done"
    BY DEF Reported
  <2>1. phase[c] = "answered" /\ c \notin allowed
    BY <1>4, <1>12
  <2>2. Snapshot(c) /\ \A k \in Reads[c] : read[c][k] = "done"
    BY <2>1 DEF IInv, Reported
  <2>3. Snapshot(c)'
    BY <1>2, <2>2, SnapshotStays
  <2>4. QED
    BY <1>11, <2>1, <2>2, <2>3, ReadsAssumption
<1>19. QED
  BY <1>9, <1>10, <1>13, <1>15, <1>17, <1>18 DEF IInv

\* Taking the snapshot, and answering with an error.
LEMMA AnswerIInv ==
    ASSUME IInv, NEW c \in Calls, Answer(c) \/ Fail(c)
    PROVE  IInv'
<1>1. /\ phase[c] = "running"
      /\ UNCHANGED <<cacheBound, kv, collector, read, own>>
  BY DEF Answer, Fail
<1>2. PICK p \in {"answered", "failed"} :
         /\ phase' = [phase EXCEPT ![c] = p]
         /\ p = "answered" =>
               /\ report' = [report EXCEPT ![c] = Metadata(collector[HttpOf[c]])]
               /\ \A k \in Reads[c] : read[c][k] = "done"
         /\ p = "failed" => report' = report
  BY DEF Answer, Fail
<1>3. /\ collector[HttpOf[c]] \in Collectors
      /\ Covers(collector[HttpOf[c]], own[c]) /\ Consistent(collector[HttpOf[c]])
  BY ContextOfCall DEF IInv, Covered, ContextsConsistent, TypeOK
<1>4. Metadata(collector[HttpOf[c]]) \in Reports
  BY <1>3, MetadataType
<1>5. TypeOK'
  BY <1>1, <1>2, <1>4 DEF IInv, TypeOK, Phases
<1>6. phase'[c] = p /\ \A d \in Calls : d # c => phase'[d] = phase[d]
  BY <1>2 DEF IInv, TypeOK
<1>7. ReadsStarted'
  BY <1>1, <1>6 DEF IInv, ReadsStarted
<1>8. Reported'
  <2> SUFFICES ASSUME NEW d \in Calls, phase'[d] = "answered"
               PROVE  Snapshot(d)' /\ \A k \in Reads[d] : read[d][k] = "done"
    BY <1>1 DEF Reported
  <2>1. CASE d = c
    <3>1. report'[c] = Metadata(collector[HttpOf[c]])
      BY <1>2, <1>6, <2>1 DEF IInv, TypeOK
    <3>2. Snapshot(c)'
      BY <1>1, <1>3, <3>1
         DEF Snapshot, Metadata, IsCharged, BillingNote, VisibleNote, Covers, Consistent
    <3>3. QED
      BY <1>2, <1>6, <2>1, <3>2
  <2>2. CASE d # c
    <3>1. phase[d] = "answered" /\ report'[d] = report[d]
      BY <1>2, <1>6, <2>2 DEF IInv, TypeOK
    <3>2. Snapshot(d) /\ \A k \in Reads[d] : read[d][k] = "done"
      BY <3>1 DEF IInv, Reported
    <3>3. Snapshot(d)'
      BY <1>1, <3>1, <3>2
         DEF Snapshot, Metadata, IsCharged, BillingNote, VisibleNote, Covers, Consistent
    <3>4. QED
      BY <3>2, <3>3
  <2>3. QED
    BY <2>1, <2>2
<1>9. Covered' /\ ContextsConsistent' /\ RequestsExplained' /\ MissesFollowed'
  BY <1>1 DEF IInv, Covered, Covers, ContextsConsistent, Consistent, RequestsExplained,
              MissesFollowed
<1>10. QED
  BY <1>5, <1>7, <1>8, <1>9 DEF IInv

\* Nothing the invariant speaks of changes.
LEMMA QuietIInv ==
    ASSUME IInv, kv' \subseteq Keys,
           UNCHANGED <<cacheBound, collector, phase, read, report, own>>
    PROVE  IInv'
<1>1. TypeOK'
  BY DEF IInv, TypeOK
<1>2. Reported'
  BY SnapshotStays DEF IInv, Reported
<1>3. Covered' /\ ContextsConsistent' /\ ReadsStarted' /\ RequestsExplained' /\ MissesFollowed'
  BY DEF IInv, Covered, Covers, ContextsConsistent, Consistent, ReadsStarted,
         RequestsExplained, MissesFollowed
<1>4. QED
  BY <1>1, <1>2, <1>3 DEF IInv

LEMMA NextIInv ==
    ASSUME IInv, [Next]_vars
    PROVE  IInv'
<1>1. ASSUME NEW x \in Https, Dispatch(x) PROVE IInv'
  BY <1>1, DispatchIInv
<1>2. ASSUME NEW c \in Calls, NEW k \in Keys, ReadCache(c, k) PROVE IInv'
  BY <1>2, ReadCacheIInv
<1>3. ASSUME NEW c \in Calls, NEW k \in Keys, Respond(c, k) PROVE IInv'
  BY <1>3, RespondIInv
<1>4. ASSUME NEW c \in Calls, NEW k \in Keys,
             Receive(c, k) \/ FailRequest(c, k) \/ Store(c, k)
      PROVE  IInv'
  BY <1>4, AdvanceIInv
<1>5. ASSUME NEW c \in Calls, Answer(c) \/ Fail(c) PROVE IInv'
  BY <1>5, AnswerIInv
<1>6. CASE Expire
  BY <1>6, QuietIInv DEF Expire, IInv, TypeOK
<1>7. CASE UNCHANGED vars
  BY <1>7, QuietIInv DEF vars, IInv, TypeOK
<1>8. QED
  BY <1>1, <1>2, <1>3, <1>4, <1>5, <1>6, <1>7 DEF Next

-----------------------------------------------------------------------------
(* What holds of batches, too.                                             *)

\* The inductive invariant holds in every state.
THEOREM Invariance == Spec => []IInv
<1>1. Init => IInv
  BY InitIInv
<1>2. IInv /\ [Next]_vars => IInv'
  BY NextIInv
<1>3. QED
  BY <1>1, <1>2, PTL DEF Spec

\* Every state is well-typed.
THEOREM TypeCorrect == Spec => []TypeOK
<1>1. IInv => TypeOK
  BY DEF IInv
<1>2. QED
  BY <1>1, Invariance, PTL

\* What an answered call has done, and what its report is made of.
LEMMA AnsweredFacts ==
    ASSUME IInv, NEW c \in Calls, phase[c] = "answered"
    PROVE  /\ own[c].requests \in Nat /\ own[c].statuses \in SUBSET CacheStatuses
           /\ "miss" \in own[c].statuses => own[c].requests > 0
           /\ own[c].requests > 0 =>
                 own[c].statuses \cap {"miss", "unavailable", "disabled"} # {}
           /\ Snapshot(c)
<1>1. Snapshot(c) /\ \A k \in Reads[c] : read[c][k] = "done"
  BY DEF IInv, Reported
<1>2. own[c].requests \in Nat /\ own[c].statuses \in SUBSET CacheStatuses
  BY DEF IInv, TypeOK, Collectors
<1>3. \A k \in Keys : read[c][k] \in {"idle", "done"}
  BY <1>1 DEF IInv, ReadsStarted
<1>4. "miss" \in own[c].statuses => own[c].requests > 0
  BY <1>3 DEF IInv, MissesFollowed
<1>5. QED
  BY <1>1, <1>2, <1>4 DEF IInv, RequestsExplained

\* An answer reported as a cache hit cost no AWS request, in a batch or alone.
THEOREM HitsAreFree == Spec => []HitIsFree
<1> DEFINE Hit(r) == r.status = "hit" \/ r.visible = "served from cache"
<1>0. ASSUME NEW col, Hit(Metadata(col)) PROVE CompositeStatus(col.statuses) = "hit"
  <2>1. /\ Metadata(col).status = CompositeStatus(col.statuses)
        /\ Metadata(col).visible = VisibleNote(col)
    BY DEF Metadata
  <2>2. VisibleNote(col) = "served from cache" => CompositeStatus(col.statuses) = "hit"
    BY DEF VisibleNote, IsCharged
  <2>3. QED
    BY <1>0, <2>1, <2>2
<1>1. ASSUME IInv, NEW c \in Calls, phase[c] = "answered", Hit(report[c])
      PROVE  own[c].requests = 0
  <2>1. PICK col \in Collectors :
            report[c] = Metadata(col) /\ Covers(col, own[c]) /\ Consistent(col)
    BY <1>1, AnsweredFacts DEF Snapshot
  <2>2. CompositeStatus(col.statuses) = "hit"
    <3> HIDE DEF Hit
    <3>1. QED
      BY <1>0, <1>1, <2>1
  <2>3. col.statuses \cap {"miss", "unavailable"} = {} /\ "hit" \in col.statuses
    BY <2>2, CompositeStatusRange DEF Collectors
  <2>4. /\ own[c].requests \in Nat
        /\ own[c].requests > 0 =>
              own[c].statuses \cap {"miss", "unavailable", "disabled"} # {}
    BY <1>1, AnsweredFacts
  <2>5. own[c].statuses \cap {"miss", "unavailable", "disabled"} = {}
    BY <2>1, <2>3 DEF Covers, Consistent
  <2>6. QED
    BY <2>4, <2>5
<1>2. IInv => HitIsFree
  BY <1>1 DEF HitIsFree
<1>3. QED
  BY <1>2, Invariance, PTL

\* Whatever calls share an HTTP request, none is told of less than it has cost:
\* the collector they share is reset before any of them records anything
\* (wrapManifestHandler, ctx.execution.reset).
THEOREM CostsAreCovered == Spec => []CostCovered
<1>1. IInv => CostCovered
  <2> SUFFICES ASSUME IInv, NEW c \in Calls, phase[c] = "answered"
               PROVE  /\ report[c].requests >= own[c].requests
                      /\ "miss" \in own[c].statuses =>
                            report[c].charged /\ report[c].estimate >= own[c].requests
    BY DEF CostCovered
  <2>1. PICK col \in Collectors :
            report[c] = Metadata(col) /\ Covers(col, own[c]) /\ Consistent(col)
    BY AnsweredFacts DEF Snapshot
  <2>2. /\ report[c].requests = col.requests /\ report[c].charged = IsCharged(col)
        /\ report[c].estimate = IF IsCharged(col) THEN col.requests ELSE 0
    BY <2>1 DEF Metadata
  <2>3. col.requests >= own[c].requests /\ col.requests \in Nat /\ own[c].requests \in Nat
    BY <2>1, AnsweredFacts DEF Covers, Collectors
  <2>4. ASSUME "miss" \in own[c].statuses PROVE IsCharged(col)
    <3>1. CompositeStatus(col.statuses) = "miss"
      BY <2>1, <2>4, CompositeStatusRange DEF Covers, Collectors
    <3>2. col.requests > 0
      BY <2>3, <2>4, AnsweredFacts
    <3>3. QED
      BY <3>1, <3>2 DEF IsCharged
  <2>5. QED
    BY <2>2, <2>3, <2>4
<1>2. QED
  BY <1>1, Invariance, PTL

-----------------------------------------------------------------------------
(* What holds of a call that is alone in its HTTP request.                 *)

\* Nobody else writes to its collector.
LEMMA AloneContext ==
    ASSUME NEW c \in Calls, NEW d \in Calls, Alone(c), HttpOf[d] = HttpOf[c]
    PROVE  d = c
BY DEF Alone, CallsOf

\* The collector and the history of a call that is alone agree, and so the report
\* is the metadata of that.
Mirrored == \A c \in Calls : Alone(c) => collector[HttpOf[c]] = own[c]

OwnReported ==
    \A c \in Calls : phase[c] = "answered" /\ Alone(c) => report[c] = Metadata(own[c])

LEMMA InitMirrored == Init => Mirrored /\ OwnReported
BY ContextOfCall DEF Init, Mirrored, OwnReported

\* What a call records, the collector of its context does.
LEMMA NoteMirrored ==
    ASSUME IInv, Mirrored, NEW c \in Calls, NEW k, NEW next, NEW s, NEW n,
           Note(c, k, next, s, n)
    PROVE  Mirrored'
<1> DEFINE x == HttpOf[c]
<1>1. x \in Https
  BY ContextOfCall
<1>2. /\ own' = [own EXCEPT ![c] = Recorded(own[c], s, n)]
      /\ collector' = [collector EXCEPT ![x] = Recorded(collector[x], s, n)]
  BY DEF Note
<1>3. own'[c] = Recorded(own[c], s, n) /\ \A d \in Calls : d # c => own'[d] = own[d]
  BY <1>2 DEF IInv, TypeOK
<1>4. /\ collector'[x] = Recorded(collector[x], s, n)
      /\ \A y \in Https : y # x => collector'[y] = collector[y]
  BY <1>1, <1>2 DEF IInv, TypeOK
<1>5. ASSUME NEW d \in Calls, Alone(d) PROVE collector'[HttpOf[d]] = own'[d]
  <2>0. collector[HttpOf[d]] = own[d] /\ HttpOf[d] \in Https
    BY <1>5, ContextOfCall DEF Mirrored
  <2>1. CASE d = c
    BY <1>3, <1>4, <2>0, <2>1
  <2>2. CASE d # c
    <3>1. HttpOf[d] # x
      BY <1>5, <2>2, AloneContext
    <3>2. QED
      BY <1>3, <1>4, <2>0, <2>2, <3>1
  <2>3. QED
    BY <2>1, <2>2
<1>6. QED
  BY <1>5 DEF Mirrored, Alone, CallsOf

\* The history of an answered call is complete.
LEMMA NoteNotAnswered ==
    ASSUME IInv, NEW c \in Calls, NEW k \in Keys, NEW next, NEW s, NEW n,
           Note(c, k, next, s, n), read[c][k] \in {"reading", "calling"},
           UNCHANGED <<phase, report>>, OwnReported
    PROVE  OwnReported'
<1>1. phase[c] # "answered"
  BY NotAnswered
<1>2. \A d \in Calls : d # c => own'[d] = own[d]
  BY DEF Note, IInv, TypeOK
<1>3. ASSUME NEW d \in Calls, phase'[d] = "answered", Alone(d)
      PROVE  report'[d] = Metadata(own'[d])
  BY <1>1, <1>2, <1>3 DEF OwnReported
<1>4. QED
  BY <1>3 DEF OwnReported, Alone, CallsOf, Metadata, IsCharged, BillingNote, VisibleNote

\* Neither histories nor reports change.
LEMMA ReportsStay ==
    ASSUME OwnReported, UNCHANGED <<report, own>>,
           \A c \in Calls : phase'[c] = "answered" => phase[c] = "answered"
    PROVE  OwnReported'
BY DEF OwnReported, Alone, CallsOf, Metadata, IsCharged, BillingNote, VisibleNote

LEMMA NextMirrored ==
    ASSUME IInv, Mirrored, OwnReported, [Next]_vars
    PROVE  Mirrored' /\ OwnReported'
<1>1. ASSUME NEW x \in Https, Dispatch(x) PROVE Mirrored' /\ OwnReported'
  <2>1. /\ UNCHANGED <<report, own>>
        /\ collector' = collector \/ collector' = [collector EXCEPT ![x] = EmptyCollector]
    BY <1>1 DEF Dispatch
  <2>2. \A c \in Calls : phase'[c] = "answered" => phase[c] = "answered"
    BY <1>1 DEF Dispatch
  <2>3. ASSUME NEW c \in Calls, Alone(c) PROVE collector'[HttpOf[c]] = own[c]
    <3>1. HttpOf[c] \in Https /\ collector[HttpOf[c]] = own[c]
      BY <2>3, ContextOfCall DEF Mirrored
    <3>2. HttpOf[c] = x => own[c] = EmptyCollector
      BY <1>1 DEF Dispatch, CallsOf, IInv, ReadsStarted
    <3>3. QED
      BY <2>1, <3>1, <3>2 DEF IInv, TypeOK
  <2>4. QED
    BY <2>1, <2>2, <2>3, ReportsStay DEF Mirrored, Alone, CallsOf
<1>2. ASSUME NEW c \in Calls, NEW k \in Keys, ReadCache(c, k) \/ Respond(c, k)
      PROVE  Mirrored' /\ OwnReported'
  <2>1. PICK next, s, n : Note(c, k, next, s, n)
    BY <1>2 DEF ReadCache, Respond
  <2>2. read[c][k] \in {"reading", "calling"} /\ UNCHANGED <<phase, report>>
    BY <1>2 DEF ReadCache, Respond
  <2>3. QED
    BY <2>1, <2>2, NoteMirrored, NoteNotAnswered
<1>3. ASSUME NEW c \in Calls, NEW k \in Keys,
             Receive(c, k) \/ FailRequest(c, k) \/ Store(c, k)
      PROVE  Mirrored' /\ OwnReported'
  <2>1. UNCHANGED <<collector, own, phase, report>>
    BY <1>3 DEF Receive, FailRequest, Store, Advance
  <2>2. QED
    BY <2>1, ReportsStay DEF Mirrored, Alone, CallsOf
<1>4. ASSUME NEW c \in Calls, Answer(c) PROVE Mirrored' /\ OwnReported'
  <2>1. /\ UNCHANGED <<collector, own>> /\ phase' = [phase EXCEPT ![c] = "answered"]
        /\ report' = [report EXCEPT ![c] = Metadata(collector[HttpOf[c]])]
    BY <1>4 DEF Answer
  <2>2. Alone(c) => report'[c] = Metadata(own[c])
    BY <2>1 DEF Mirrored, IInv, TypeOK
  <2>3. \A d \in Calls : d # c => phase'[d] = phase[d] /\ report'[d] = report[d]
    BY <2>1 DEF IInv, TypeOK
  <2>4. ASSUME NEW d \in Calls, phase'[d] = "answered", Alone(d)
        PROVE  report'[d] = Metadata(own[d])
    BY <2>2, <2>3, <2>4 DEF OwnReported
  <2>5. UNCHANGED <<collector, own>>
    BY <2>1
  <2>6. Mirrored'
    BY <2>5 DEF Mirrored, Alone, CallsOf
  <2>7. OwnReported'
    BY <2>4, <2>5 DEF OwnReported, Alone, CallsOf, Metadata, IsCharged, BillingNote, VisibleNote
  <2>8. QED
    BY <2>6, <2>7
<1>5. ASSUME NEW c \in Calls, Fail(c) PROVE Mirrored' /\ OwnReported'
  <2>1. UNCHANGED <<collector, own, report>> /\ phase' = [phase EXCEPT ![c] = "failed"]
    BY <1>5 DEF Fail
  <2>2. \A d \in Calls : phase'[d] = "answered" => phase[d] = "answered"
    BY <2>1 DEF IInv, TypeOK
  <2>3. QED
    BY <2>1, <2>2, ReportsStay DEF Mirrored, Alone, CallsOf
<1>6. CASE Expire \/ UNCHANGED vars
  <2>1. UNCHANGED <<collector, own, report, phase>>
    BY <1>6 DEF Expire, vars
  <2>2. QED
    BY <2>1, ReportsStay DEF Mirrored, Alone, CallsOf
<1>7. QED
  BY <1>1, <1>2, <1>3, <1>4, <1>5, <1>6 DEF Next

\* What is reported of a call that is alone is what it has done.
THEOREM OwnInvariance == Spec => [](IInv /\ OwnReported)
<1>1. Init => Mirrored /\ OwnReported
  BY InitMirrored
<1>2. IInv /\ (Mirrored /\ OwnReported) /\ [Next]_vars => (Mirrored /\ OwnReported)'
  BY NextMirrored
<1>3. QED
  BY <1>1, <1>2, Invariance, PTL DEF Spec

\* The metadata of an answer (wrapManifestHandler) reports the requests and the
\* cache outcomes of its own call and of no other, where the call is alone in its
\* HTTP request.
THEOREM AloneIsAccurate == Spec => []AloneAccurate
<1>1. OwnReported => AloneAccurate
  <2> SUFFICES ASSUME OwnReported, NEW c \in Calls, phase[c] = "answered", Alone(c)
               PROVE  Accurate(c)
    BY DEF AloneAccurate
  <2>1. report[c] = Metadata(own[c])
    BY DEF OwnReported
  <2>2. QED
    BY <2>1 DEF Metadata, Accurate
<1>2. QED
  BY <1>1, OwnInvariance, PTL

\* Without batches this is what is expected of every answer.
COROLLARY ReportsAccurate ==
    ASSUME \A c \in Calls : Alone(c)
    PROVE  Spec => []ReportAccurate
<1>1. AloneAccurate => ReportAccurate
  BY DEF AloneAccurate, ReportAccurate
<1>2. QED
  BY <1>1, AloneIsAccurate, PTL

\* A call that is alone is reported as charged exactly when one of its reads
\* missed, for the requests made for it.
THEOREM ChargesExplained == Spec => []ChargeExplained
<1>1. IInv /\ OwnReported => ChargeExplained
  <2> SUFFICES ASSUME IInv, OwnReported, NEW c \in Calls, phase[c] = "answered", Alone(c)
               PROVE  /\ report[c].charged <=> "miss" \in own[c].statuses
                      /\ report[c].charged => /\ report[c].estimate = own[c].requests
                                              /\ own[c].requests > 0
    BY DEF ChargeExplained
  <2> report[c] = Metadata(own[c])
    BY DEF OwnReported
  <2>1. /\ report[c].charged = IsCharged(own[c])
        /\ report[c].estimate = IF IsCharged(own[c]) THEN own[c].requests ELSE 0
    BY DEF Metadata
  <2>2. IsCharged(own[c]) <=> "miss" \in own[c].statuses
    BY AnsweredFacts, CompositeStatusRange DEF IsCharged
  <2>3. IsCharged(own[c]) => own[c].requests > 0
    BY DEF IsCharged
  <2>4. QED
    BY <2>1, <2>2, <2>3
<1>2. QED
  BY <1>1, OwnInvariance, PTL
=============================================================================
