--------------------------- MODULE CredentialResolver ---------------------------
(***************************************************************************)
(* The credentials a tool call reads AWS with: the gateway's own, or those *)
(* of a role that STS lets it assume for a while.  A resolver keeps the    *)
(* assumed ones in a Map.  Each HTTP request has a resolver of its own;    *)
(* the sections of a composed tool and the calls of a batch use it at the  *)
(* same time, and their STS requests are answered in any order.            *)
(*                                                                         *)
(* A tick stands for the unit of the durations; STS's clock is the         *)
(* reference and the Worker's is off by a constant skew.                   *)
(***************************************************************************)
EXTENDS Integers

CONSTANTS
    Calls,       \* the calls of resolve()
    Resolvers,   \* the resolvers, one per HTTP request
    Roles,       \* the role ARNs, among them DefaultRole for the strategy "default"
    DefaultRole,
    ValidRoles,  \* the roles whose ARN is well formed
    Ids,         \* the external ids, among them NoId
    NoId,
    Margin,      \* CREDENTIAL_REFRESH_MARGIN_MS
    Timeout,     \* STS_REQUEST_TIMEOUT_MS
    Lifetime,    \* how long STS lets a session last when no duration is asked for
    MaxSkew,     \* how far the Worker's clock may be off
    MaxTime      \* bound: how long the clock runs

ASSUME RolesAssumption ==
    DefaultRole \in Roles /\ ValidRoles \subseteq Roles \ {DefaultRole} /\ NoId \in Ids

ASSUME TimesAssumption ==
    /\ Margin \in Nat /\ Timeout \in Nat /\ Lifetime \in Nat
    /\ MaxSkew \in Nat /\ MaxTime \in Nat
    /\ Lifetime > Margin + Timeout

VARIABLES
    now,         \* the time
    skew,        \* what the Worker's clock is ahead of it
    resolverOf,  \* the resolver each call uses, that of its HTTP request
    cache,       \* the Map of each resolver
    call,        \* the calls of resolve()
    received     \* history: the credentials STS has sent to each resolver

vars == <<now, skew, resolverOf, cache, call, received>>

-----------------------------------------------------------------------------
Skews == -MaxSkew..MaxSkew

\* Whose credentials they are, and until when; 0 for the default credentials,
\* which have no expiry.
Credentials == [role : Roles, id : Ids, expires : Nat]
Session(role, id, expires) == [role |-> role, id |-> id, expires |-> expires]
NoCredentials == Session(DefaultRole, NoId, 0)
DefaultCredentials == NoCredentials

\* buildCredentialCacheKey: a hash of the role and the external id.
Keys == Roles \X Ids
KeyWithoutId(role, id) == <<role, NoId>>
Key(role, id) == <<role, id>>

CallStates ==
    [phase : {"ready", "asked", "issued", "done", "failed"}, role : Roles, id : Ids,
     askedAt : Nat, credentials : Credentials, handedAt : Nat]

Init ==
    /\ now = 0
    /\ skew \in Skews
    /\ resolverOf \in [Calls -> Resolvers]
    /\ cache = [r \in Resolvers |-> [k \in Keys |-> NoCredentials]]
    /\ call \in [Calls -> {[phase |-> "ready", role |-> role, id |-> id, askedAt |-> 0,
                            credentials |-> NoCredentials, handedAt |-> 0] :
                           role \in Roles, id \in Ids}]
    /\ received = [r \in Resolvers |-> {}]

\* Date.now() in the Worker.
Clock == now + skew

\* isNearExpiry
NearExpiryAtExpiry(credentials) == credentials.expires - Clock <= 0
NearExpiry(credentials) == credentials.expires - Clock <= Margin

Cached(c) == cache[resolverOf[c]][Key(call[c].role, call[c].id)]

IsCachedOrAbsent(c) == Cached(c) = NoCredentials \/ ~NearExpiry(Cached(c))

\* The entry that resolve() may return.
IsCached(c) == Cached(c) # NoCredentials /\ ~NearExpiry(Cached(c))

Advance(c, phase, askedAt, credentials, handedAt) ==
    call' = [call EXCEPT ![c] =
               [phase |-> phase, role |-> call[c].role, id |-> call[c].id,
                askedAt |-> askedAt, credentials |-> credentials, handedAt |-> handedAt]]

-----------------------------------------------------------------------------
(* resolve(): after the key has been hashed, the cache is read and STS is   *)
(* asked without a pause.                                                   *)

\* The bound lets a call that starts time out.
Starting(c) == call[c].phase = "ready" /\ now + Timeout <= MaxTime

UseDefault(c) ==
    /\ Starting(c)
    /\ call[c].role = DefaultRole
    /\ Advance(c, "done", 0, DefaultCredentials, now)
    /\ UNCHANGED <<now, skew, resolverOf, cache, received>>

RejectBeforeDefault(c) ==
    /\ Starting(c)
    /\ call[c].role \notin ValidRoles
    /\ Advance(c, "failed", 0, NoCredentials, 0)
    /\ UNCHANGED <<now, skew, resolverOf, cache, received>>

Reject(c) ==
    /\ Starting(c)
    /\ call[c].role \notin ValidRoles \cup {DefaultRole}
    /\ Advance(c, "failed", 0, NoCredentials, 0)
    /\ UNCHANGED <<now, skew, resolverOf, cache, received>>

UseCached(c) ==
    /\ Starting(c)
    /\ call[c].role \in ValidRoles
    /\ IsCached(c)
    /\ Advance(c, "done", 0, Cached(c), now)
    /\ UNCHANGED <<now, skew, resolverOf, cache, received>>

Ask(c) ==
    /\ Starting(c)
    /\ call[c].role \in ValidRoles
    /\ ~IsCached(c)
    /\ Advance(c, "asked", now, NoCredentials, 0)
    /\ UNCHANGED <<now, skew, resolverOf, cache, received>>

\* STS starts a session for the role and the external id it is asked for.
Issue(c) ==
    /\ call[c].phase = "asked"
    /\ Advance(c, "issued", call[c].askedAt,
               Session(call[c].role, call[c].id, now + Lifetime), 0)
    /\ UNCHANGED <<now, skew, resolverOf, cache, received>>

ReceiveUncached(c) ==
    /\ call[c].phase = "issued"
    /\ received' = [received EXCEPT ![resolverOf[c]] = @ \cup {call[c].credentials}]
    /\ Advance(c, "done", call[c].askedAt, call[c].credentials, now)
    /\ UNCHANGED <<now, skew, resolverOf, cache>>

\* What arrives last is kept, and nobody looks at the expiry of what has just
\* arrived.
Receive(c) ==
    /\ call[c].phase = "issued"
    /\ cache' = [cache EXCEPT ![resolverOf[c]][Key(call[c].role, call[c].id)] =
                   call[c].credentials]
    /\ received' = [received EXCEPT ![resolverOf[c]] = @ \cup {call[c].credentials}]
    /\ Advance(c, "done", call[c].askedAt, call[c].credentials, now)
    /\ UNCHANGED <<now, skew, resolverOf>>

Pending(c) == call[c].phase \in {"asked", "issued"}

\* The timer aborts the request, or the reading of its answer.
Abort(c) ==
    /\ Pending(c)
    /\ now >= call[c].askedAt + Timeout
    /\ Advance(c, "failed", call[c].askedAt, NoCredentials, 0)
    /\ UNCHANGED <<now, skew, resolverOf, cache, received>>

\* The session name is malformed, STS refuses, the network fails, or the answer
\* lacks a credential.
Fail(c) ==
    /\ Pending(c)
    /\ Advance(c, "failed", call[c].askedAt, NoCredentials, 0)
    /\ UNCHANGED <<now, skew, resolverOf, cache, received>>

\* A timer that is due is served before time goes on.
Tick ==
    /\ now < MaxTime
    /\ \A c \in Calls : Pending(c) => now < call[c].askedAt + Timeout
    /\ now' = now + 1
    /\ UNCHANGED <<skew, resolverOf, cache, call, received>>

Next ==
    \/ \E c \in Calls :
          \/ UseDefault(c) \/ Reject(c) \/ UseCached(c) \/ Ask(c)
          \/ Issue(c) \/ Receive(c) \/ Abort(c) \/ Fail(c)
    \/ Tick

Spec == Init /\ [][Next]_vars
-----------------------------------------------------------------------------
(* Properties.                                                             *)

\* What every state looks like: a call that ended well has the credentials of
\* some role, its own default ones at least.
TypeOK ==
    /\ now \in 0..MaxTime
    /\ skew \in Skews
    /\ resolverOf \in [Calls -> Resolvers]
    /\ cache \in [Resolvers -> [Keys -> Credentials]]
    /\ call \in [Calls -> CallStates]
    /\ received \in [Resolvers -> SUBSET Credentials]
    /\ \A c \in Calls :
          call[c].phase = "done" /\ call[c].role # DefaultRole =>
             call[c].credentials # NoCredentials

Assumed(c) == call[c].phase = "done" /\ call[c].role # DefaultRole

\* However the calls of a request interleave, each reads AWS as the role it
\* named, under a session STS granted for its external id
\* (buildCredentialCacheKey).
OwnRole ==
    \A c \in Calls :
        call[c].phase = "done" =>
           /\ call[c].credentials.role = call[c].role
           /\ call[c].role # DefaultRole => call[c].credentials.id = call[c].id

\* Credentials that are handed out, cached or new, last for the refresh margin
\* less the skew of the Worker's clock (isNearExpiry).
Usable ==
    \A c \in Calls :
        Assumed(c) => call[c].credentials.expires - call[c].handedAt > Margin - MaxSkew

\* The credentials a resolver has received for what the call asks for.
Known(c) == {k \in received[resolverOf[c]] : k.role = call[c].role /\ k.id = call[c].id}

Asks(c) == call[c].phase = "ready" /\ call'[c].phase = "asked"

\* An answer that overtakes another is replaced by an older one, yet at most
\* one timeout of the newer one's life is wasted: STS is asked only when no
\* credentials the resolver has received for the role and the external id last
\* longer than margin and timeout together (resolve, cache.set).
SparesRequests ==
    \A c \in Calls :
        Asks(c) => \A k \in Known(c) : k.expires - Clock <= Margin + Timeout

SessionsReused == [][SparesRequests]_vars

\* What those who ask see: an outcome, once there is one.
SeenOutcome(c) ==
    CASE call[c].phase = "done"   -> [outcome |-> "given", session |-> call[c].credentials]
      [] call[c].phase = "failed" -> [outcome |-> "refused", session |-> NoCredentials]
      [] OTHER                    -> [outcome |-> "waiting", session |-> NoCredentials]

SeenAsked ==
    [c \in Calls |-> [role |-> call[c].role, id |-> call[c].id, resolver |-> resolverOf[c]]]

SeenOutcomes == [c \in Calls |-> SeenOutcome(c)]

Sessions ==
    INSTANCE RoleSessions
    WITH asked <- SeenAsked, granted <- received, got <- SeenOutcomes,
         Life <- Margin - MaxSkew, Times <- 0..(MaxTime + Lifetime)

\* Whatever is cached, and however the answers of STS overtake one another, time
\* out or fail, those who ask see one session of their own granted or refused:
\* the gateway's own credentials are never refused, nothing is answered twice, and
\* no session comes from another HTTP request (createCredentialResolver).
SessionsKept == Sessions!Spec
=============================================================================
