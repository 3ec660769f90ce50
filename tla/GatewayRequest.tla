----------------------------- MODULE GatewayRequest -----------------------------
(***************************************************************************)
(* A request to the Worker, from fetch (src/index.ts) to the MCP handler:  *)
(* the rate limiter, whose answer RateLimit explains; authentication with  *)
(* the bearer secret, with a JWT and the keys of the issuer, or by asking  *)
(* the authorization server; the validation of the environment; and the    *)
(* MCP session, which no isolate remembers.                                *)
(*                                                                         *)
(* The requests of an isolate share the cached key set of the issuer.  The *)
(* issuer publishes and withdraws keys, and the authorization server       *)
(* revokes tokens, while requests are under way.                           *)
(***************************************************************************)
EXTENDS Integers

CONSTANTS
    Requests,
    NoRequest,      \* no request: no cached key set, no session
    Credentials,    \* what a request may carry in its Authorization header
    Deployments,    \* the environments the Worker may be deployed with
    Keys,           \* the signing keys of the issuer
    NoKey,          \* a token not signed with one of them
    Scopes,
    Ttl,            \* CACHE_TTL_MS of auth/oauth/jwks.ts
    Cooldown,       \* jose: an unknown key is not looked for again so soon
    MaxWork,        \* bound: how long a request may be under way
    MaxTime,        \* bound: how long the clock runs
    MaxChanges      \* bound: how often keys or tokens change outside

Settings == {"accessKey", "secretKey", "region", "allowedRegions", "token", "resource",
             "issuer", "audience", "scopes", "validation", "jwks", "introspection",
             "rateLimits", "exposure"}

ASSUME DeploymentsAssumption ==
    Deployments \subseteq
        [mode : {"invalid", "local-bearer", "oauth"},
         validation : {"jwks", "introspection", "hybrid"},
         limiter : BOOLEAN,
         present : SUBSET Settings, malformed : SUBSET Settings,
         sameAudience : BOOLEAN, regionAllowed : BOOLEAN,
         required : SUBSET Scopes]

\* What the claims of a JWT, or the answer to an introspection, say of a token:
\* whether they name our issuer, another or none, whether they name the audience
\* of the gateway, which scopes, and whether they say when the token expires.
Claims == [issuer : {"ours", "other", "none"}, audience : BOOLEAN,
           scopes : SUBSET Scopes, timed : BOOLEAN]

\* A token, what its own claims say, whether the authorization server knows it,
\* and what that says of it.  The two need not agree.
ASSUME CredentialsAssumption ==
    /\ NoKey \notin Keys
    /\ Credentials \subseteq
           [kind : {"none", "secret", "jwt", "opaque"}, key : Keys \cup {NoKey},
            claims : Claims, known : BOOLEAN, answer : Claims, expires : Nat]
    /\ \A c \in Credentials : c.kind # "jwt" => c.key = NoKey

ASSUME TimesAssumption ==
    /\ Ttl \in Nat \ {0} /\ Cooldown \in Nat \ {0} /\ MaxWork \in Nat /\ MaxTime \in Nat
    /\ MaxChanges \in Nat

ASSUME NoRequestAssumption == NoRequest \notin Requests

VARIABLES
    now,
    deployment,  \* the environment of the Worker
    published,   \* the keys the issuer publishes
    since,       \* history: when each key was published
    until,       \* history: when each key was withdrawn, or Never
    changes,     \* how often keys or tokens have changed
    revokedAt,   \* when the authorization server revoked a credential, or Never
    jwks,        \* cachedJwks: who created the key set, and when
    remote,      \* the key set each request has created, as jose keeps it
    sessions,    \* history: the requests that were given a session id
    req          \* the requests

vars == <<now, deployment, published, since, until, changes, revokedAt, jwks, remote, sessions, req>>

Never == MaxTime + 1

-----------------------------------------------------------------------------
(* Configuration.                                                          *)

\* The settings are there, and not blank.
Given(d, settings) == settings \subseteq d.present

RateLimitValid(d) ==
    /\ d.mode # "invalid"
    /\ "rateLimits" \notin d.malformed
    /\ d.mode = "oauth" => d.limiter

OAuthSettings(d) ==
    {"resource", "issuer", "audience", "scopes"}
        \cup (IF d.validation = "introspection" THEN {} ELSE {"jwks"})
        \cup (IF d.validation = "jwks" THEN {} ELSE {"introspection"})

\* An optional address that is present has to be well-formed too.
AddressesValid(d) ==
    d.malformed \cap {"resource", "issuer", "audience", "jwks", "introspection"} = {}

OAuthValid(d) ==
    /\ Given(d, OAuthSettings(d))
    /\ AddressesValid(d)
    /\ d.malformed \cap {"scopes", "validation"} = {}
    /\ d.sameAudience

EnvValid(d) ==
    /\ d.mode # "invalid"
    /\ Given(d, {"accessKey", "secretKey", "region", "allowedRegions"})
    /\ d.mode = "local-bearer" => Given(d, {"token"})
    /\ d.mode = "oauth" => OAuthValid(d) /\ RateLimitValid(d)
    /\ d.regionAllowed
    /\ "exposure" \notin d.malformed

-----------------------------------------------------------------------------
(* The state of a request.                                                 *)

Phases == {"new", "asking", "authenticate", "import", "verify", "fetching",
           "received", "introspect", "fallback", "vouched", "granted", "handled", "explained",
           "closed"}

Final == {"handled", "explained", "closed"}

Ways == {"none", "secret", "jwks", "introspection"}

Statuses == {0, 200, 400, 401, 403, 404, 429, 503}

NoClaims == [issuer |-> "none", audience |-> FALSE, scopes |-> {}, timed |-> FALSE]

NoCredential ==
    [kind |-> "none", key |-> NoKey, claims |-> NoClaims, known |-> FALSE,
     answer |-> NoClaims, expires |-> 0]

\* A request; the key set it verifies its token with, and the keys it was sent.
RequestStates ==
    [phase : Phases, credential : Credentials \cup {NoCredential}, started : 0..MaxTime,
     metered : BOOLEAN, via : Ways, uses : Requests \cup {NoRequest}, got : SUBSET Keys,
     status : Statuses]

NewRequest ==
    [phase |-> "new", credential |-> NoCredential, started |-> 0, metered |-> FALSE,
     via |-> "none", uses |-> NoRequest, got |-> {}, status |-> 0]

KeySets == [keys : SUBSET Keys, loaded : BOOLEAN, fetched : 0..MaxTime]
EmptyKeySet == [keys |-> {}, loaded |-> FALSE, fetched |-> 0]

Init ==
    /\ now = 0
    /\ deployment \in Deployments
    /\ published \in SUBSET Keys
    /\ since = [k \in Keys |-> 0]
    /\ until = [k \in Keys |-> Never]
    /\ changes = 0
    /\ revokedAt = [c \in Credentials |-> Never]
    /\ jwks = [by |-> NoRequest, at |-> 0]
    /\ remote = [r \in Requests |-> EmptyKeySet]
    /\ sessions = {}
    /\ req = [r \in Requests |-> NewRequest]

Token(r) == req[r].credential

At(r, phase) == req[r].phase = phase

Outside == <<now, deployment, published, since, until, changes, revokedAt>>

Shared == <<jwks, remote, sessions>>

\* The request goes on, and nothing it shares with others changes.
Become(r, state) == req' = [req EXCEPT ![r] = state] /\ UNCHANGED <<Outside, Shared>>

Goto(r, phase) == Become(r, [req[r] EXCEPT !.phase = phase])

\* The answer is sent, and the request is forgotten.
Ended(phase, status) == [NewRequest EXCEPT !.phase = phase, !.status = status]

Closed(status) == Ended("closed", status)

Close(r, status) == Become(r, Closed(status))

Granted(r, way) ==
    [req[r] EXCEPT !.phase = "granted", !.via = way, !.uses = NoRequest, !.got = {}]

-----------------------------------------------------------------------------
(* The route and the rate limiter.                                         *)

\* The metadata of the protected resource.
MetadataStatus(d) ==
    IF d.mode = "invalid" THEN 503
    ELSE IF d.mode # "oauth" THEN 404
    ELSE IF OAuthValid(d) THEN 200 ELSE 503

\* /health, the metadata, and everything else that is not /mcp.
Route(r) ==
    /\ At(r, "new")
    /\ \/ Close(r, 200)
       \/ Close(r, MetadataStatus(deployment))
       \/ Close(r, 404)

\* /mcp up to the first await.  Without a limiter, which only the local mode may
\* be, requests are not metered.
Arrive(r) ==
    /\ At(r, "new")
    /\ IF ~RateLimitValid(deployment) THEN Close(r, 503)
       ELSE \E c \in Credentials :
          Become(r, [NewRequest EXCEPT
                        !.phase = IF deployment.limiter THEN "asking" ELSE "authenticate",
                        !.credential = c, !.started = now])

Meter(r) ==
    /\ At(r, "asking")
    /\ Become(r, [req[r] EXCEPT !.phase = "authenticate", !.metered = TRUE])

\* The window is full, or the Durable Object fails: enforceRateLimit fails
\* closed.
Limit(r) == At(r, "asking") /\ (Close(r, 429) \/ Close(r, 503))

-----------------------------------------------------------------------------
(* Authentication.                                                         *)

AuthenticateBearer(r) ==
    /\ At(r, "authenticate")
    /\ deployment.mode = "local-bearer"
    /\ IF Token(r).kind = "secret" /\ Given(deployment, {"token"})
       THEN Become(r, Granted(r, "secret"))
       ELSE Close(r, 401)

KeySetCachedForever == jwks.by # NoRequest

\* The cached key set is fresh enough.
KeySetCached == jwks.by # NoRequest /\ now - jwks.at < Ttl

AsksServerByKind(r) ==
    deployment.validation # "jwks" /\ Token(r).kind # "jwt"

\* Introspection comes first: in its own mode, and in the hybrid one unless the
\* token looks like a JWT.
AsksServer(r) ==
    \/ deployment.validation = "introspection"
    \/ deployment.validation = "hybrid" /\ Token(r).kind # "jwt"

\* authenticateRequest and authenticateOAuthRequest up to their first await.
AuthenticateOAuth(r) ==
    /\ At(r, "authenticate")
    /\ deployment.mode = "oauth"
    /\ IF ~OAuthValid(deployment) THEN Close(r, 503)
       ELSE IF Token(r).kind = "none" THEN Close(r, 401)
       ELSE IF AsksServer(r) THEN Goto(r, "introspect")
       ELSE IF KeySetCached
       THEN Become(r, [req[r] EXCEPT !.phase = "verify", !.uses = jwks.by])
       ELSE Goto(r, "import")

CreateKeySetUnused(r) ==
    /\ At(r, "import")
    /\ jwks' = [by |-> r, at |-> now]
    /\ req' = [req EXCEPT ![r].phase = "verify"]
    /\ UNCHANGED <<Outside, remote, sessions>>

\* getJwksResolver after its await: the request creates a key set and caches
\* it, over one that another request has meanwhile created.  Key sets that no
\* request holds any more are gone.
CreateKeySet(r) ==
    /\ At(r, "import")
    /\ jwks' = [by |-> r, at |-> now]
    /\ req' = [req EXCEPT ![r].phase = "verify", ![r].uses = r]
    /\ remote' = [q \in Requests |->
                    IF \E x \in Requests \ {r} : req[x].uses = q THEN remote[q] ELSE EmptyKeySet]
    /\ UNCHANGED <<Outside, sessions>>

\* What an exception leads to: introspection in the hybrid mode, once, else 401.
AfterError(r) ==
    IF deployment.validation = "hybrid" /\ req[r].phase # "fallback"
    THEN [req[r] EXCEPT !.phase = "fallback", !.uses = NoRequest, !.got = {}]
    ELSE Closed(401)

KeySet(r) == remote[req[r].uses]

\* A set that is never fetched again.
CoolingDownForever(r) == KeySet(r).loaded

CoolingDown(r) == now < KeySet(r).fetched + Cooldown

\* What is said of the token names no expiry, or one that is yet to come.
HasValidTimes(c, said) == said.timed => now < c.expires

\* What jwtVerify throws for: the issuer it is told to verify has to be named.
JwtClaimsHold(r) ==
    Token(r).claims.issuer = "ours" /\ HasValidTimes(Token(r), Token(r).claims)

HasRequiredScopes(said) == deployment.required \subseteq said.scopes

\* The checks of the gateway on what is said of the token: audience, times, scopes.
Claimed(r, way, said) ==
    IF ~said.audience \/ ~HasValidTimes(Token(r), said) THEN Closed(401)
    ELSE IF HasRequiredScopes(said) THEN Granted(r, way)
    ELSE Closed(403)

Verified(r, keys) ==
    IF Token(r).key \in keys /\ JwtClaimsHold(r)
    THEN Claimed(r, "jwks", Token(r).claims) ELSE AfterError(r)

\* jwtVerify with a key set that is loaded and has the key, or may not be
\* loaded again so soon; or of something that is not a JWT at all.
Verify(r) ==
    /\ At(r, "verify")
    /\ \/ Token(r).kind # "jwt"
       \/ KeySet(r).loaded /\ (Token(r).key \in KeySet(r).keys \/ CoolingDown(r))
    /\ Become(r, Verified(r, KeySet(r).keys))

\* The key set is fetched: it never was, or it has not the key.
StartFetch(r) ==
    /\ At(r, "verify")
    /\ Token(r).kind = "jwt"
    /\ ~KeySet(r).loaded \/ (Token(r).key \notin KeySet(r).keys /\ ~CoolingDown(r))
    /\ Goto(r, "fetching")

AnswerFetch(r) ==
    /\ At(r, "fetching")
    /\ Become(r, [req[r] EXCEPT !.phase = "received", !.got = published])

\* The answers to two requests that share a key set may arrive in any order.
FinishFetch(r) ==
    /\ At(r, "received")
    /\ remote' = [remote EXCEPT ![req[r].uses] =
                    [keys |-> req[r].got, loaded |-> TRUE, fetched |-> now]]
    /\ req' = [req EXCEPT ![r] = Verified(r, req[r].got)]
    /\ UNCHANGED <<Outside, jwks, sessions>>

\* jose gives up on the issuer after five seconds.
FailFetch(r) ==
    /\ At(r, "fetching")
    /\ Become(r, AfterError(r))

\* Active for the server: it has issued the token, and not revoked it since.
Active(c) == c.known /\ now < c.expires /\ revokedAt[c] > now

\* The authorization server answers whether the token is active now, and says
\* more of it if it is.
AnswerIntrospection(r) ==
    /\ At(r, "introspect") \/ At(r, "fallback")
    /\ IF Active(Token(r)) THEN Goto(r, "vouched") ELSE Close(r, 401)

IntrospectAnyIssuer(r) ==
    /\ At(r, "vouched")
    /\ Become(r, Claimed(r, "introspection", Token(r).answer))

\* authenticateViaIntrospection after its awaits.  The answer need not name an
\* issuer, and is not asked again: the token may have been revoked since.
Introspect(r) ==
    /\ At(r, "vouched")
    /\ Become(r, IF Token(r).answer.issuer # "other"
                 THEN Claimed(r, "introspection", Token(r).answer) ELSE Closed(401))

\* The server answers with an error: a denial.
DenyIntrospection(r) ==
    /\ At(r, "introspect") \/ At(r, "fallback")
    /\ Close(r, 401)

\* The server cannot be reached, or its answer is no JSON: an exception.
FailIntrospection(r) ==
    /\ At(r, "introspect") \/ At(r, "fallback")
    /\ Become(r, AfterError(r))

-----------------------------------------------------------------------------
(* The environment and the MCP handler.                                    *)

Explain(r) ==
    /\ At(r, "granted")
    /\ ~EnvValid(deployment)
    /\ Become(r, Ended("explained", 503))

TransportUnrestored(initialize, session) ==
    [sessions |-> initialize \/ session # NoRequest, session |-> NoRequest]

\* createStreamableHttpMcpHandler: a transport of its own for each request.  It
\* has sessions if the request begins or names one; a named session is restored
\* although nothing remembers that it was ever begun.
Transport(initialize, session) ==
    [sessions |-> initialize \/ session # NoRequest,
     session |-> IF ~initialize THEN session ELSE NoRequest]

\* The transport of the MCP SDK refuses a call of a session it does not know.
SdkStatus(t, initialize) ==
    IF ~initialize /\ t.sessions /\ t.session = NoRequest THEN 400 ELSE 200

\* A session is named by the request it was given to.
Handle(r) ==
    /\ At(r, "granted")
    /\ EnvValid(deployment)
    /\ \E initialize \in BOOLEAN, session \in sessions \cup {NoRequest} :
          /\ req' = [req EXCEPT ![r] =
                Ended("handled", SdkStatus(Transport(initialize, session), initialize))]
          /\ sessions' = IF initialize THEN sessions \cup {r} ELSE sessions
    /\ UNCHANGED <<Outside, jwks, remote>>

-----------------------------------------------------------------------------
(* The issuer, the authorization server and the clock.                     *)

Change == changes < MaxChanges /\ changes' = changes + 1

\* A key that was withdrawn is not published again.
Publish(k) ==
    /\ Change
    /\ k \notin published
    /\ until[k] = Never
    /\ published' = published \cup {k}
    /\ since' = [since EXCEPT ![k] = now]
    /\ UNCHANGED <<now, deployment, until, revokedAt, Shared, req>>

Withdraw(k) ==
    /\ Change
    /\ k \in published
    /\ published' = published \ {k}
    /\ until' = [until EXCEPT ![k] = now]
    /\ UNCHANGED <<now, deployment, since, revokedAt, Shared, req>>

Revoke(c) ==
    /\ Change
    /\ c.known
    /\ revokedAt[c] = Never
    /\ revokedAt' = [revokedAt EXCEPT ![c] = now]
    /\ UNCHANGED <<now, deployment, published, since, until, Shared, req>>

UnderWay(r) == req[r].phase \notin {"new"} \cup Final

Tick ==
    /\ now < MaxTime
    /\ \A r \in Requests : UnderWay(r) => now < req[r].started + MaxWork
    /\ now' = now + 1
    /\ UNCHANGED <<deployment, published, since, until, changes, revokedAt, Shared, req>>

Admit(r) == Route(r) \/ Arrive(r) \/ Meter(r) \/ Limit(r)

Authenticate(r) ==
    \/ AuthenticateBearer(r) \/ AuthenticateOAuth(r) \/ CreateKeySet(r)
    \/ Verify(r) \/ StartFetch(r) \/ AnswerFetch(r) \/ FinishFetch(r) \/ FailFetch(r)
    \/ AnswerIntrospection(r) \/ Introspect(r) \/ DenyIntrospection(r) \/ FailIntrospection(r)

Next ==
    \/ \E r \in Requests : Admit(r) \/ Authenticate(r) \/ Explain(r) \/ Handle(r)
    \/ \E k \in Keys : Publish(k) \/ Withdraw(k)
    \/ \E c \in Credentials : Revoke(c)
    \/ Tick

Spec == Init /\ [][Next]_vars

-----------------------------------------------------------------------------
(* Properties.                                                             *)

\* What every state looks like.
TypeOK ==
    /\ now \in 0..MaxTime
    /\ deployment \in Deployments
    /\ published \subseteq Keys
    /\ since \in [Keys -> 0..MaxTime]
    /\ until \in [Keys -> 0..Never]
    /\ changes \in 0..MaxChanges
    /\ revokedAt \in [Credentials -> 0..Never]
    /\ jwks \in [by : Requests \cup {NoRequest}, at : 0..MaxTime]
    /\ remote \in [Requests -> KeySets]
    /\ sessions \subseteq Requests
    /\ req \in [Requests -> RequestStates]
    /\ \A r \in Requests : req[r].phase \in {"verify", "fetching", "received"} =>
                               req[r].uses \in Requests

\* A credential the deployment is to accept, leaving aside whether it is still
\* good: the secret; a JWT that is signed and whose claims name our issuer, this
\* resource and the required scopes, unless only the server may vouch for it; or
\* a token the server knows and says that it is for this resource, has the
\* scopes and, if it says so at all, is of our issuer.
Entitled(c) ==
    \/ deployment.mode = "local-bearer" /\ c.kind = "secret"
    \/ /\ deployment.mode = "oauth"
       /\ deployment.validation # "introspection"
       /\ c.kind = "jwt" /\ c.key \in Keys /\ c.claims.issuer = "ours"
       /\ c.claims.audience /\ HasRequiredScopes(c.claims)
    \/ /\ deployment.mode = "oauth"
       /\ deployment.validation # "jwks"
       /\ c.known /\ c.answer.issuer # "other"
       /\ c.answer.audience /\ HasRequiredScopes(c.answer)

Outcome(r) ==
    CASE At(r, "new") -> "none"
      [] req[r].phase \in Final -> req[r].phase
      [] OTHER -> "arrived"

Admission == INSTANCE Admission WITH
    rules <- [metering |-> deployment.limiter, sound |-> EnvValid(deployment)],
    entitled <- {r \in Requests : ~At(r, "new") /\ Entitled(Token(r))},
    metered <- {r \in Requests : req[r].metered},
    granted <- {r \in Requests : req[r].via # "none"},
    outcome <- [r \in Requests |-> Outcome(r)]

\* The pipeline of fetch implements the promise of Admission: no order of its
\* steps, no failure of the limiter, the issuer or the authorization server and
\* no fallback lets a request through that was not metered and is not entitled,
\* or shows settings to it (fetch, authenticateRequest, envErrorResponse).
AdmissionKept == Admission!Spec

\* The credential of r is accepted in this step.
Accepts(r, way) == req[r].via = "none" /\ req'[r].via = way

\* A token signed with a withdrawn key is accepted no longer than the cached key
\* set lives and a request takes (getJwksResolver).
WithdrawnKeysExpire ==
    [][\A r \in Requests :
          Accepts(r, "jwks") =>
             \/ Token(r).key \in published
             \/ /\ until[Token(r).key] # Never
                /\ now < until[Token(r).key] + Ttl + MaxWork]_vars

\* A good token is not found wanting for its key once the key has been published
\* for as long as jose waits before it looks again and a request takes, although
\* requests share a key set and its answers overtake one another
\* (getJwksResolver, jwtVerify).
Good(r) ==
    /\ Token(r).kind = "jwt" /\ JwtClaimsHold(r)
    /\ Token(r).claims.audience /\ HasRequiredScopes(Token(r).claims)

PublishedKeysAccepted ==
    [][\A r \in Requests :
          /\ req[r].phase \in {"verify", "received"}
          /\ req'[r].phase \in {"closed", "fallback"}
          /\ Good(r)
          => \/ Token(r).key \notin published
             \/ now < since[Token(r).key] + Cooldown + MaxWork]_vars

\* A token revoked before its request came is accepted only where the signature
\* of a JWT is enough.  An opaque token never is, and no token where the server is
\* to be asked about all of them: not after an exception, not by the other way,
\* and not on an answer that was given before (authenticateOAuthRequest,
\* authenticateViaIntrospection).
RevokedRefused ==
    [][\A r \in Requests :
          /\ deployment.mode = "oauth"
          /\ req[r].via = "none" /\ req'[r].via # "none"
          /\ revokedAt[Token(r)] < req[r].started
          => /\ Token(r).kind = "jwt" /\ deployment.validation # "introspection"
             /\ req'[r].via = "jwks"]_vars

\* A caller is served whether or not the isolate has seen its session begin
\* (shouldUseSessionManagement, restoreTransportSession).
SessionsServed == \A r \in Requests : At(r, "handled") => req[r].status = 200
=============================================================================
