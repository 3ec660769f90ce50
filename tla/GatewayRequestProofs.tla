-------------------------- MODULE GatewayRequestProofs --------------------------
(***************************************************************************)
(* Proofs about GatewayRequest, for any requests, credentials, keys,       *)
(* deployments and durations.                                              *)
(***************************************************************************)
EXTENDS GatewayRequest, TLAPS

KeyPhases == {"verify", "fetching", "received"}

EarlyPhases == {"new", "asking", "authenticate", "import"}

\* A request under way has not been so for too long.
InTime(s) ==
    s.phase \notin {"new"} \cup Final => s.started <= now /\ now <= s.started + MaxWork

\* The authorization server has found the token active since the request came.
VouchedFor(s) ==
    /\ deployment.mode = "oauth" /\ deployment.validation # "jwks"
    /\ s.credential \in Credentials /\ s.credential.known
    /\ s.started <= revokedAt[s.credential]

\* What the phase of a request says of the checks it has passed.
Checked(s) ==
    /\ s.phase = "new" => s = NewRequest
    /\ s.phase \in Final => s.credential = NoCredential /\ s.metered = FALSE
    /\ s.phase = "granted" <=> s.via # "none"
    /\ s.phase \notin {"new", "asking"} \cup Final => (deployment.limiter => s.metered = TRUE)
    /\ s.phase \in {"import"} \cup KeyPhases =>
          deployment.mode = "oauth" /\ deployment.validation # "introspection"
    /\ s.phase \in {"introspect", "fallback"} =>
          deployment.mode = "oauth" /\ deployment.validation # "jwks"
    /\ s.phase = "vouched" => VouchedFor(s)
    /\ s.phase \in KeyPhases => s.uses \in Requests
    /\ s.phase \notin KeyPhases => s.uses = NoRequest
    /\ s.phase = "handled" => s.status = 200

Fine(s) == InTime(s) /\ Checked(s)

Uses(s, q) == s.phase \in KeyPhases /\ s.uses = q

\* Nobody uses the key set of a request before the request creates it.
NotBefore ==
    \A q \in Requests : req[q].phase \in EarlyPhases =>
        jwks.by # q /\ \A x \in Requests : ~Uses(req[x], q)

\* The key was published at t or later.
PublishedSince(k, t) == k \in published \/ (until[k] # Never /\ t <= until[k])

\* The request may use a key set created at t.
MayUse(s, t) ==
    /\ s.started < t + Ttl
    /\ s.phase = "received" => \A k \in s.got : PublishedSince(k, t)

\* The key set of q was created at t: its keys, and those that are about to be
\* its keys, date from then, and so does what those who use it may accept.
CreatedAt(q, t) ==
    /\ jwks.by = q => jwks.at = t
    /\ \A k \in remote[q].keys : PublishedSince(k, t)
    /\ \A x \in Requests : Uses(req[x], q) => MayUse(req[x], t)

KeySetsDated == \A q \in Requests : \E t \in 0..now : CreatedAt(q, t)

\* A key that is not in a key set was published at most a request's duration
\* before the key set was fetched, and a key that was not sent not before the
\* request began.
NewKeysOnlyMissing ==
    /\ \A q \in Requests : remote[q].fetched <= now
    /\ \A q \in Requests, k \in published :
          remote[q].loaded /\ k \notin remote[q].keys => remote[q].fetched <= since[k] + MaxWork
    /\ \A x \in Requests, k \in published :
          req[x].phase = "received" /\ k \notin req[x].got => req[x].started <= since[k]

\* The time of the cached key set is not in the future.
CachedBefore == jwks.at <= now

IInv ==
    /\ TypeOK
    /\ \A r \in Requests : Fine(req[r])
    /\ NotBefore /\ KeySetsDated /\ NewKeysOnlyMissing /\ CachedBefore

-----------------------------------------------------------------------------
(* States of a request.                                                    *)

\* Every state of a request is typed.
LEMMA RequestTyped ==
    ASSUME TypeOK, NEW r \in Requests
    PROVE  /\ req[r] \in RequestStates
           /\ Token(r) \in Credentials \cup {NoCredential}
           /\ req[r].started \in Nat /\ req[r].got \subseteq Keys
           /\ now \in Nat /\ jwks.at \in Nat
BY TimesAssumption DEF TypeOK, RequestStates, Token

\* Only a JWT is signed with a key.
LEMMA KeysAreOfJwts ==
    ASSUME NEW c \in Credentials \cup {NoCredential}, c.key \in Keys
    PROVE  c.kind = "jwt" /\ c \in Credentials
BY CredentialsAssumption DEF NoCredential

\* An ended request holds nothing.
LEMMA EndedFine ==
    ASSUME TypeOK, NEW phase \in Final, NEW status \in Statuses,
           phase = "handled" => status = 200
    PROVE  /\ Ended(phase, status) \in RequestStates
           /\ Fine(Ended(phase, status))
           /\ Ended(phase, status).phase = phase
           /\ Ended(phase, status).credential = NoCredential
           /\ Ended(phase, status).metered = FALSE
           /\ Ended(phase, status).via = "none"
<1>1. NewRequest \in RequestStates
  BY TimesAssumption DEF NewRequest, RequestStates, Phases, Ways, Statuses
<1>2. /\ Ended(phase, status) \in RequestStates
      /\ Ended(phase, status).phase = phase /\ Ended(phase, status).status = status
      /\ Ended(phase, status).credential = NewRequest.credential
      /\ Ended(phase, status).metered = NewRequest.metered
      /\ Ended(phase, status).via = NewRequest.via
      /\ Ended(phase, status).uses = NewRequest.uses
  BY <1>1 DEF Ended, RequestStates, Phases, Final
<1>3. /\ NewRequest.credential = NoCredential /\ NewRequest.metered = FALSE
      /\ NewRequest.via = "none" /\ NewRequest.uses = NoRequest
  BY DEF NewRequest
<1>4. InTime(Ended(phase, status)) /\ Checked(Ended(phase, status))
  BY <1>2, <1>3 DEF InTime, Checked, KeyPhases, Final
<1>5. QED
  BY <1>2, <1>3, <1>4 DEF Fine

\* So does a request that is closed.
LEMMA ClosedFine ==
    ASSUME TypeOK, NEW status \in Statuses
    PROVE  /\ Closed(status) \in RequestStates
           /\ Fine(Closed(status))
           /\ Closed(status).phase = "closed"
           /\ Closed(status).credential = NoCredential
           /\ Closed(status).metered = FALSE
           /\ Closed(status).via = "none"
BY EndedFine DEF Closed, Final

\* A credential is accepted once the request was metered.
LEMMA GrantedFine ==
    ASSUME IInv, NEW r \in Requests, NEW way \in Ways \ {"none"},
           req[r].phase \notin {"new", "asking"} \cup Final
    PROVE  /\ Granted(r, way) \in RequestStates
           /\ Fine(Granted(r, way))
           /\ Granted(r, way).phase = "granted"
           /\ Granted(r, way).credential = req[r].credential
           /\ Granted(r, way).metered = req[r].metered
           /\ Granted(r, way).via = way
<1>1. req[r] \in RequestStates /\ Fine(req[r])
  BY RequestTyped DEF IInv
<1>2. /\ Granted(r, way) \in RequestStates
      /\ Granted(r, way).phase = "granted" /\ Granted(r, way).via = way
      /\ Granted(r, way).credential = req[r].credential
      /\ Granted(r, way).metered = req[r].metered
      /\ Granted(r, way).started = req[r].started
      /\ Granted(r, way).uses = NoRequest
  BY <1>1 DEF Granted, RequestStates, Phases
<1>3. InTime(Granted(r, way)) /\ Checked(Granted(r, way))
  BY <1>1, <1>2 DEF Fine, InTime, Checked, KeyPhases, Final
<1>4. QED
  BY <1>2, <1>3 DEF Fine

\* An exception closes the request, or leads to introspection where that is in
\* force.
LEMMA AfterErrorFine ==
    ASSUME IInv, NEW r \in Requests,
           req[r].phase \in KeyPhases \cup {"introspect", "fallback"}
    PROVE  \/ AfterError(r) = Closed(401)
           \/ /\ AfterError(r) \in RequestStates
              /\ Fine(AfterError(r))
              /\ AfterError(r).phase = "fallback"
              /\ AfterError(r).credential = req[r].credential
              /\ AfterError(r).metered = req[r].metered
              /\ AfterError(r).via = "none"
<1>1. req[r] \in RequestStates /\ Fine(req[r])
  BY RequestTyped DEF IInv
<1>2. SUFFICES ASSUME deployment.validation = "hybrid", req[r].phase # "fallback"
      PROVE  /\ AfterError(r) \in RequestStates
             /\ Fine(AfterError(r))
             /\ AfterError(r).phase = "fallback"
             /\ AfterError(r).credential = req[r].credential
             /\ AfterError(r).metered = req[r].metered
             /\ AfterError(r).via = "none"
  BY DEF AfterError
<1> DEFINE s == [req[r] EXCEPT !.phase = "fallback", !.uses = NoRequest, !.got = {}]
<1>a. AfterError(r) = s
  BY <1>2 DEF AfterError
<1>b. /\ s \in RequestStates /\ s.phase = "fallback" /\ s.via = req[r].via
      /\ s.credential = req[r].credential /\ s.metered = req[r].metered
      /\ s.started = req[r].started /\ s.uses = NoRequest
  BY <1>1 DEF RequestStates, Phases
<1>3. /\ AfterError(r) \in RequestStates
      /\ AfterError(r).phase = "fallback"
      /\ AfterError(r).credential = req[r].credential
      /\ AfterError(r).metered = req[r].metered
      /\ AfterError(r).started = req[r].started
      /\ AfterError(r).via = req[r].via
      /\ AfterError(r).uses = NoRequest
  BY <1>a, <1>b
<1>4. req[r].via = "none" /\ deployment.mode = "oauth"
  BY <1>1 DEF Fine, Checked, KeyPhases
<1>5. InTime(AfterError(r)) /\ Checked(AfterError(r))
  BY <1>1, <1>2, <1>3, <1>4 DEF Fine, InTime, Checked, KeyPhases, Final
<1>6. QED
  BY <1>3, <1>4, <1>5 DEF Fine

\* The checks on claims accept the credential only with audience and scopes.
LEMMA ClaimedOutcome ==
    ASSUME NEW r \in Requests, NEW way, NEW said
    PROVE  \/ Claimed(r, way, said) = Closed(401)
           \/ Claimed(r, way, said) = Closed(403)
           \/ /\ Claimed(r, way, said) = Granted(r, way)
              /\ said.audience /\ HasRequiredScopes(said)
BY DEF Claimed

\* A token is accepted with the keys only if they have its key, and turned down
\* for nothing else if it is good.
LEMMA VerifiedOutcome ==
    ASSUME NEW r \in Requests, NEW keys
    PROVE  /\ \/ Verified(r, keys) = Closed(401)
              \/ Verified(r, keys) = Closed(403)
              \/ /\ Verified(r, keys) = AfterError(r)
                 /\ Token(r).key \notin keys \/ ~JwtClaimsHold(r)
              \/ /\ Verified(r, keys) = Granted(r, "jwks")
                 /\ Token(r).key \in keys /\ JwtClaimsHold(r)
                 /\ Token(r).claims.audience /\ HasRequiredScopes(Token(r).claims)
           /\ Good(r) /\ Token(r).key \in keys => Verified(r, keys) = Granted(r, "jwks")
<1>1. CASE Token(r).key \in keys /\ JwtClaimsHold(r)
  <2>1. Verified(r, keys) = Claimed(r, "jwks", Token(r).claims)
    BY <1>1 DEF Verified
  <2>2. Good(r) => Claimed(r, "jwks", Token(r).claims) = Granted(r, "jwks")
    BY DEF Claimed, Good, JwtClaimsHold
  <2>3. QED
    BY <1>1, <2>1, <2>2, ClaimedOutcome
<1>2. CASE ~(Token(r).key \in keys /\ JwtClaimsHold(r))
  BY <1>2 DEF Verified, Good, JwtClaimsHold
<1>3. QED
  BY <1>1, <1>2

\* What a verification ends in is a state the request may be in.
LEMMA VerifiedFine ==
    ASSUME IInv, NEW r \in Requests, req[r].phase \in KeyPhases, NEW keys
    PROVE  /\ Verified(r, keys) \in RequestStates
           /\ Fine(Verified(r, keys))
           /\ Verified(r, keys).phase \in {"closed", "fallback", "granted"}
<1>1. \A status \in {401, 403} :
         /\ Closed(status) \in RequestStates /\ Fine(Closed(status))
         /\ Closed(status).phase = "closed"
  BY ClosedFine DEF IInv, Statuses
<1>2. /\ Granted(r, "jwks") \in RequestStates /\ Fine(Granted(r, "jwks"))
      /\ Granted(r, "jwks").phase = "granted"
  BY GrantedFine DEF KeyPhases, Final, Ways
<1>3. QED
  BY <1>1, <1>2, VerifiedOutcome, AfterErrorFine

-----------------------------------------------------------------------------
\* A step of one request that leaves everything else alone keeps the invariant
\* if it keeps the invariant's claims about the request.
LEMMA OneRequestStep ==
    ASSUME IInv, NEW r \in Requests, NEW s \in RequestStates, Fine(s),
           req' = [req EXCEPT ![r] = s], UNCHANGED <<Outside, Shared>>,
           s.phase \in EarlyPhases => req[r].phase \in EarlyPhases,
           \A q \in Requests : Uses(s, q) =>
              /\ req[q].phase \notin EarlyPhases
              /\ \A t \in 0..now : CreatedAt(q, t) => MayUse(s, t),
           s.phase = "received" => \A k \in published : k \notin s.got => s.started <= since[k]
    PROVE  IInv'
<1> USE DEF Outside, Shared
<1>1. \A x \in Requests : req'[x] = IF x = r THEN s ELSE req[x]
  BY DEF IInv, TypeOK
<1>2. TypeOK'
  <2>1. req' \in [Requests -> RequestStates]
    BY DEF IInv, TypeOK
  <2>2. \A x \in Requests : req'[x].phase \in {"verify", "fetching", "received"} =>
                                req'[x].uses \in Requests
    BY <1>1 DEF IInv, TypeOK, Fine, Checked, KeyPhases
  <2>3. QED
    BY <2>1, <2>2 DEF IInv, TypeOK
<1>3. \A x \in Requests : Fine(req[x])'
  BY <1>1 DEF IInv, Fine, InTime, Checked, VouchedFor
<1>4. NotBefore'
  BY <1>1 DEF IInv, NotBefore, Uses, EarlyPhases, KeyPhases
<1>5. KeySetsDated'
  <2> SUFFICES ASSUME NEW q \in Requests PROVE \E t \in 0..now : CreatedAt(q, t)'
    BY DEF KeySetsDated
  <2>1. PICK t \in 0..now : CreatedAt(q, t)
    BY DEF IInv, KeySetsDated
  <2>2. \A k : PublishedSince(k, t)' <=> PublishedSince(k, t)
    BY DEF PublishedSince
  <2>3. \A x \in Requests : Uses(req'[x], q) => MayUse(req'[x], t)
    BY <1>1, <2>1 DEF CreatedAt
  <2>4. QED
    BY <2>1, <2>2, <2>3 DEF CreatedAt, Uses, MayUse
<1>6. NewKeysOnlyMissing' /\ CachedBefore'
  BY <1>1 DEF IInv, NewKeysOnlyMissing, CachedBefore
<1>7. QED
  BY <1>2, <1>3, <1>4, <1>5, <1>6 DEF IInv

\* So does one that ends with no key set.
LEMMA StepWithoutKeys ==
    ASSUME IInv, NEW r \in Requests, NEW s \in RequestStates, Fine(s), Become(r, s),
           s.phase \notin KeyPhases,
           s.phase \in EarlyPhases => req[r].phase \in EarlyPhases
    PROVE  IInv'
BY OneRequestStep DEF Become, Uses, KeyPhases

-----------------------------------------------------------------------------
(* The actions.                                                            *)

\* A request that is closed holds nothing.
LEMMA CloseKeeps ==
    ASSUME IInv, NEW r \in Requests, NEW status \in Statuses, Close(r, status)
    PROVE  IInv'
BY StepWithoutKeys, ClosedFine DEF IInv, Close, KeyPhases, EarlyPhases

\* Neither a route beside /mcp nor the limiter disturbs anything.
LEMMA AdmitKeeps == ASSUME IInv, NEW r \in Requests, Admit(r) PROVE IInv'
<1>1. req[r] \in RequestStates /\ Fine(req[r]) /\ now \in Nat /\ req[r].started \in Nat
  BY RequestTyped DEF IInv
<1>2. CASE Route(r)
  BY <1>2, CloseKeeps DEF Route, MetadataStatus, Statuses
<1>3. CASE Arrive(r)
  <2>1. CASE ~RateLimitValid(deployment)
    BY <1>3, <2>1, CloseKeeps DEF Arrive, Statuses
  <2>2. CASE RateLimitValid(deployment)
    <3> DEFINE s(c) == [NewRequest EXCEPT
                          !.phase = IF deployment.limiter THEN "asking" ELSE "authenticate",
                          !.credential = c, !.started = now]
    <3>1. PICK c \in Credentials : Become(r, s(c))
      BY <1>3, <2>2 DEF Arrive
    <3>2. req[r].phase = "new" /\ NewRequest \in RequestStates
      BY <1>1, <1>3 DEF Arrive, At, Fine, Checked
    <3>3. deployment.limiter \in BOOLEAN
      BY DeploymentsAssumption DEF IInv, TypeOK
    <3>4. /\ s(c) \in RequestStates
          /\ s(c).phase = IF deployment.limiter THEN "asking" ELSE "authenticate"
          /\ s(c).started = now /\ s(c).via = NewRequest.via
          /\ s(c).uses = NewRequest.uses
      <4>1. now \in 0..MaxTime
        BY DEF IInv, TypeOK
      <4>2. QED
        BY <3>2, <3>3, <4>1 DEF RequestStates, Phases
    <3>5. NewRequest.via = "none" /\ NewRequest.uses = NoRequest
      BY DEF NewRequest
    <3>6. Fine(s(c))
      BY <1>1, <3>3, <3>4, <3>5, TimesAssumption DEF Fine, InTime, Checked, Final, KeyPhases
    <3>7. s(c).phase \notin KeyPhases /\ req[r].phase \in EarlyPhases
      BY <3>2, <3>4 DEF KeyPhases, EarlyPhases
    <3> HIDE DEF s
    <3>8. QED
      BY <3>1, <3>4, <3>6, <3>7, StepWithoutKeys
  <2>3. QED
    BY <2>1, <2>2
<1>4. CASE Meter(r)
  <2> DEFINE s == [req[r] EXCEPT !.phase = "authenticate", !.metered = TRUE]
  <2>1. /\ s \in RequestStates /\ s.phase = "authenticate" /\ s.metered = TRUE
        /\ s.started = req[r].started /\ s.via = req[r].via /\ s.uses = req[r].uses
    BY <1>1 DEF RequestStates, Phases
  <2>2. req[r].phase = "asking" /\ Become(r, s)
    BY <1>4 DEF Meter, At
  <2>3. Fine(s)
    BY <1>1, <2>1, <2>2 DEF Fine, InTime, Checked, Final, KeyPhases
  <2>4. QED
    BY <2>1, <2>2, <2>3, StepWithoutKeys DEF KeyPhases, EarlyPhases
<1>5. CASE Limit(r)
  BY <1>5, CloseKeeps DEF Limit, Statuses
<1>6. QED
  BY <1>2, <1>3, <1>4, <1>5 DEF Admit

\* The bearer secret is compared.
LEMMA BearerKeeps == ASSUME IInv, NEW r \in Requests, AuthenticateBearer(r) PROVE IInv'
<1>1. CASE Close(r, 401)
  BY <1>1, CloseKeeps DEF Statuses
<1>2. CASE Become(r, Granted(r, "secret"))
  <2>1. req[r].phase = "authenticate"
    BY DEF AuthenticateBearer, At
  <2>2. QED
    BY <1>2, <2>1, GrantedFine, StepWithoutKeys DEF Ways, Final, KeyPhases, EarlyPhases
<1>3. QED
  BY <1>1, <1>2 DEF AuthenticateBearer

\* A request that goes on to another phase keeps all it has.
LEMMA WithPhase ==
    ASSUME IInv, NEW r \in Requests, NEW phase \in Phases
    PROVE  LET s == [req[r] EXCEPT !.phase = phase] IN
           /\ s \in RequestStates /\ s.phase = phase /\ s.credential = req[r].credential
           /\ s.started = req[r].started /\ s.metered = req[r].metered
           /\ s.via = req[r].via /\ s.uses = req[r].uses /\ s.got = req[r].got
BY RequestTyped DEF IInv, RequestStates

\* The way to authenticate is chosen; a cached key set is no older than its TTL.
LEMMA OAuthKeeps == ASSUME IInv, NEW r \in Requests, AuthenticateOAuth(r) PROVE IInv'
<1>1. /\ req[r] \in RequestStates /\ Fine(req[r]) /\ now \in Nat /\ req[r].started \in Nat
      /\ jwks.at \in Nat
  BY RequestTyped DEF IInv
<1>2. req[r].phase = "authenticate" /\ deployment.mode = "oauth"
  BY DEF AuthenticateOAuth, At
<1>3. deployment.validation \in {"jwks", "introspection", "hybrid"}
  BY DeploymentsAssumption DEF IInv, TypeOK
<1>4. CASE Close(r, 503) \/ Close(r, 401)
  BY <1>4, CloseKeeps DEF Statuses
<1>5. CASE Goto(r, "introspect") /\ deployment.validation # "jwks"
  <2> DEFINE s == [req[r] EXCEPT !.phase = "introspect"]
  <2>1. /\ s \in RequestStates /\ s.phase = "introspect" /\ s.started = req[r].started
        /\ s.metered = req[r].metered /\ s.via = req[r].via /\ s.uses = req[r].uses
    BY WithPhase DEF Phases
  <2>2. Fine(s)
    BY <1>1, <1>2, <1>5, <2>1 DEF Fine, InTime, Checked, Final, KeyPhases
  <2>3. QED
    BY <1>5, <2>1, <2>2, StepWithoutKeys DEF Goto, KeyPhases, EarlyPhases
<1>6. CASE Goto(r, "import") /\ deployment.validation # "introspection"
  <2> DEFINE s == [req[r] EXCEPT !.phase = "import"]
  <2>1. /\ s \in RequestStates /\ s.phase = "import" /\ s.started = req[r].started
        /\ s.metered = req[r].metered /\ s.via = req[r].via /\ s.uses = req[r].uses
    BY WithPhase DEF Phases
  <2>2. Fine(s)
    BY <1>1, <1>2, <1>6, <2>1 DEF Fine, InTime, Checked, Final, KeyPhases
  <2>3. QED
    BY <1>2, <1>6, <2>1, <2>2, StepWithoutKeys DEF Goto, KeyPhases, EarlyPhases
<1>7. CASE /\ deployment.validation # "introspection" /\ KeySetCached
           /\ Become(r, [req[r] EXCEPT !.phase = "verify", !.uses = jwks.by])
  <2> DEFINE s == [req[r] EXCEPT !.phase = "verify", !.uses = jwks.by]
  <2>1. jwks.by \in Requests /\ now - jwks.at < Ttl
    BY <1>7 DEF KeySetCached, IInv, TypeOK
  <2>2. /\ s \in RequestStates /\ s.phase = "verify" /\ s.started = req[r].started
        /\ s.metered = req[r].metered /\ s.via = req[r].via /\ s.uses = jwks.by
    BY <1>1, <2>1 DEF RequestStates, Phases
  <2>3. Fine(s)
    BY <1>1, <1>2, <1>7, <2>1, <2>2 DEF Fine, InTime, Checked, Final, KeyPhases
  <2>4. req[r].started <= now
    BY <1>1, <1>2 DEF Fine, InTime, Final
  <2>5. ASSUME NEW q \in Requests, Uses(s, q)
        PROVE  /\ req[q].phase \notin EarlyPhases
               /\ \A t \in 0..now : CreatedAt(q, t) => MayUse(s, t)
    <3>1. q = jwks.by
      BY <2>2, <2>5 DEF Uses
    <3>2. req[q].phase \notin EarlyPhases
      BY <3>1 DEF IInv, NotBefore
    <3>3. \A t \in 0..now : CreatedAt(q, t) => t = jwks.at
      BY <3>1 DEF CreatedAt
    <3>4. \A t \in 0..now : CreatedAt(q, t) => MayUse(s, t)
      BY <1>1, <2>1, <2>2, <2>4, <3>3, TimesAssumption DEF MayUse
    <3>5. QED
      BY <3>2, <3>4
  <2>6. Become(r, s) /\ s.phase \notin EarlyPhases /\ s.phase # "received"
    BY <1>7, <2>2 DEF EarlyPhases
  <2>7. QED
    BY <2>2, <2>3, <2>5, <2>6, OneRequestStep DEF Become
<1>8. QED
  BY <1>3, <1>4, <1>5, <1>6, <1>7 DEF AuthenticateOAuth, AsksServer

\* A new key set dates from now, and nobody has used it yet.
LEMMA CreateKeySetKeeps == ASSUME IInv, NEW r \in Requests, CreateKeySet(r) PROVE IInv'
<1> DEFINE s == [req[r] EXCEPT !.phase = "verify", !.uses = r]
<1>1. /\ req[r] \in RequestStates /\ Fine(req[r]) /\ now \in Nat /\ req[r].started \in Nat
      /\ jwks.at \in Nat
  BY RequestTyped DEF IInv
<1>2. /\ s \in RequestStates /\ s.phase = "verify" /\ s.started = req[r].started
      /\ s.metered = req[r].metered /\ s.via = req[r].via /\ s.uses = r
  BY <1>1 DEF RequestStates, Phases
<1>3. req[r].phase = "import"
  BY DEF CreateKeySet, At
<1>4. Fine(s)
  BY <1>1, <1>2, <1>3 DEF Fine, InTime, Checked, Final, KeyPhases
<1>5. /\ req' = [req EXCEPT ![r] = s]
      /\ \A x \in Requests : req'[x] = IF x = r THEN s ELSE req[x]
  BY DEF CreateKeySet, IInv, TypeOK
<1>6. jwks' = [by |-> r, at |-> now] /\ UNCHANGED <<now, deployment, published, since, until,
                                                    changes, revokedAt, sessions>>
  BY DEF CreateKeySet, Outside
<1> HIDE DEF s
<1>7. \A q \in Requests : remote'[q] = remote[q] \/ remote'[q] = EmptyKeySet
  BY DEF CreateKeySet
<1>8. /\ EmptyKeySet \in KeySets /\ EmptyKeySet.keys = {}
      /\ EmptyKeySet.loaded = FALSE /\ EmptyKeySet.fetched = 0
  BY TimesAssumption DEF EmptyKeySet, KeySets
<1>9. \A x \in Requests : ~Uses(req[x], r)
  BY <1>3 DEF IInv, NotBefore, EarlyPhases
<1>10. remote'[r] = EmptyKeySet
  <2>1. \A x \in Requests : req[x].phase \in KeyPhases \/ req[x].uses = NoRequest
    BY DEF IInv, Fine, Checked
  <2>2. \A x \in Requests : req[x].uses # r
    BY <1>9, <2>1, NoRequestAssumption DEF Uses
  <2>3. QED
    BY <2>2 DEF CreateKeySet
<1>11. TypeOK'
  <2>1. req' \in [Requests -> RequestStates]
    BY <1>2, <1>5 DEF IInv, TypeOK
  <2>2. remote' \in [Requests -> KeySets]
    BY <1>8 DEF CreateKeySet, IInv, TypeOK
  <2>3. jwks' \in [by : Requests \cup {NoRequest}, at : 0..MaxTime]
    BY <1>6 DEF IInv, TypeOK
  <2>4. \A x \in Requests : req'[x].phase \in {"verify", "fetching", "received"} =>
                                req'[x].uses \in Requests
    BY <1>2, <1>5 DEF IInv, TypeOK
  <2>5. QED
    BY <1>6, <2>1, <2>2, <2>3, <2>4 DEF IInv, TypeOK
<1>12. \A x \in Requests : Fine(req[x])'
  BY <1>4, <1>5, <1>6 DEF IInv, Fine, InTime, Checked, VouchedFor
<1>13. NotBefore'
  BY <1>2, <1>5, <1>6 DEF IInv, NotBefore, Uses, EarlyPhases
<1>14. KeySetsDated'
  <2> SUFFICES ASSUME NEW q \in Requests PROVE \E t \in 0..now : CreatedAt(q, t)'
    BY <1>6 DEF KeySetsDated
  <2>1. \A k, t : PublishedSince(k, t)' <=> PublishedSince(k, t)
    BY <1>6 DEF PublishedSince
  <2>2. CASE q = r
    <3>1. s.started < now + Ttl
      BY <1>1, <1>2, <1>3, TimesAssumption DEF Fine, InTime, Final
    <3>2. \A x \in Requests : Uses(req'[x], r) => x = r
      BY <1>5, <1>9
    <3>3. MayUse(req[r], now)'
      BY <1>2, <1>5, <1>6, <3>1 DEF MayUse
    <3>4. jwks'.at = now
      BY <1>6
    <3>5. CreatedAt(r, now)'
      BY <1>6, <1>8, <1>10, <3>2, <3>3, <3>4 DEF CreatedAt, Uses
    <3>6. now \in 0..now
      BY <1>1
    <3>7. CreatedAt(q, now)'
      BY <2>2, <3>5
    <3>8. QED
      BY <1>6, <3>6, <3>7 DEF CreatedAt
  <2>3. CASE q # r
    <3>1. PICK t \in 0..now : CreatedAt(q, t)
      BY DEF IInv, KeySetsDated
    <3>2. jwks'.by # q
      BY <1>6, <2>3
    <3>3. \A k \in remote'[q].keys : PublishedSince(k, t)'
      BY <1>7, <1>8, <2>1, <3>1 DEF CreatedAt
    <3>4. \A x \in Requests : Uses(req'[x], q) => MayUse(req'[x], t)
      BY <1>2, <1>5, <2>3, <3>1 DEF CreatedAt, Uses
    <3>5. CreatedAt(q, t)'
      BY <2>1, <3>2, <3>3, <3>4 DEF CreatedAt, Uses, MayUse
    <3>6. QED
      BY <3>5
  <2>4. QED
    BY <2>2, <2>3
<1>15. NewKeysOnlyMissing'
  BY <1>1, <1>2, <1>5, <1>6, <1>7, <1>8 DEF IInv, NewKeysOnlyMissing
<1>16. CachedBefore'
  BY <1>1, <1>6 DEF CachedBefore
<1>17. QED
  BY <1>11, <1>12, <1>13, <1>14, <1>15, <1>16 DEF IInv

\* A token is verified with the keys that are there.
LEMMA VerifyKeeps == ASSUME IInv, NEW r \in Requests, Verify(r) PROVE IInv'
<1>1. req[r].phase \in KeyPhases
  BY DEF Verify, At, KeyPhases
<1>2. PICK keys : Become(r, Verified(r, keys))
  BY DEF Verify
<1>3. QED
  BY <1>1, <1>2, VerifiedFine, StepWithoutKeys DEF KeyPhases, EarlyPhases

\* Keys are asked for with the key set the request has.
LEMMA StartFetchKeeps == ASSUME IInv, NEW r \in Requests, StartFetch(r) PROVE IInv'
<1> DEFINE s == [req[r] EXCEPT !.phase = "fetching"]
<1>1. Fine(req[r]) /\ req[r].phase = "verify" /\ Become(r, s)
  BY DEF StartFetch, At, Goto, IInv
<1>2. /\ s \in RequestStates /\ s.phase = "fetching" /\ s.started = req[r].started
      /\ s.metered = req[r].metered /\ s.via = req[r].via /\ s.uses = req[r].uses
  BY WithPhase DEF Phases
<1> HIDE DEF s
<1>3. Fine(s)
  BY <1>1, <1>2 DEF Fine, InTime, Checked, Final, KeyPhases
<1>4. s.phase \notin EarlyPhases /\ s.phase # "received"
  BY <1>2 DEF EarlyPhases
<1>5. ASSUME NEW q \in Requests, Uses(s, q)
      PROVE  /\ req[q].phase \notin EarlyPhases
             /\ \A t \in 0..now : CreatedAt(q, t) => MayUse(s, t)
  <2>1. Uses(req[r], q)
    BY <1>1, <1>2, <1>5 DEF Uses, KeyPhases
  <2>2. QED
    BY <1>2, <2>1 DEF IInv, NotBefore, CreatedAt, MayUse
<1>6. QED
  BY <1>1, <1>2, <1>3, <1>4, <1>5, OneRequestStep DEF Become

\* The keys that are sent are those that are published.
LEMMA AnswerFetchKeeps == ASSUME IInv, NEW r \in Requests, AnswerFetch(r) PROVE IInv'
<1> DEFINE s == [req[r] EXCEPT !.phase = "received", !.got = published]
<1>1. Fine(req[r]) /\ req[r].phase = "fetching" /\ Become(r, s)
  BY DEF AnswerFetch, At, IInv
<1>2. /\ s \in RequestStates /\ s.phase = "received" /\ s.started = req[r].started
      /\ s.metered = req[r].metered /\ s.via = req[r].via /\ s.uses = req[r].uses
      /\ s.got = published
  <2>1. req[r] \in RequestStates /\ published \in SUBSET Keys
    BY RequestTyped DEF IInv, TypeOK
  <2>2. QED
    BY <2>1 DEF RequestStates, Phases
<1> HIDE DEF s
<1>3. Fine(s)
  BY <1>1, <1>2 DEF Fine, InTime, Checked, Final, KeyPhases
<1>4. s.phase \notin EarlyPhases
  BY <1>2 DEF EarlyPhases
<1>5. ASSUME NEW q \in Requests, Uses(s, q)
      PROVE  /\ req[q].phase \notin EarlyPhases
             /\ \A t \in 0..now : CreatedAt(q, t) => MayUse(s, t)
  <2>1. Uses(req[r], q)
    BY <1>1, <1>2, <1>5 DEF Uses, KeyPhases
  <2>2. QED
    BY <1>2, <2>1 DEF IInv, NotBefore, CreatedAt, MayUse, PublishedSince
<1>6. QED
  BY <1>1, <1>2, <1>3, <1>4, <1>5, OneRequestStep DEF Become

\* The keys that were sent date from when the key set was created, for whoever
\* else uses it.
LEMMA FinishFetchKeeps == ASSUME IInv, NEW r \in Requests, FinishFetch(r) PROVE IInv'
<1> DEFINE s == Verified(r, req[r].got)
           set == [keys |-> req[r].got, loaded |-> TRUE, fetched |-> now]
<1>1. /\ req[r] \in RequestStates /\ Fine(req[r]) /\ now \in Nat /\ req[r].started \in Nat
      /\ req[r].got \subseteq Keys
  BY RequestTyped DEF IInv
<1>2. req[r].phase = "received" /\ req[r].uses \in Requests
  BY DEF FinishFetch, At, IInv, TypeOK
<1>3. s \in RequestStates /\ Fine(s) /\ s.phase \in {"closed", "fallback", "granted"}
  BY <1>2, VerifiedFine DEF KeyPhases
<1> HIDE DEF s
<1>4. /\ req' = [req EXCEPT ![r] = s]
      /\ \A x \in Requests : req'[x] = IF x = r THEN s ELSE req[x]
  BY DEF FinishFetch, IInv, TypeOK, s
<1>5. UNCHANGED <<now, deployment, published, since, until, changes, revokedAt, jwks, sessions>>
  BY DEF FinishFetch, Outside
<1>6. \A q \in Requests : remote'[q] = IF q = req[r].uses THEN set ELSE remote[q]
  BY DEF FinishFetch, IInv, TypeOK
<1>7. TypeOK'
  <2>1. req' \in [Requests -> RequestStates]
    BY <1>3, <1>4 DEF IInv, TypeOK
  <2>2. set \in KeySets
    BY <1>1 DEF KeySets, IInv, TypeOK
  <2>3. remote' \in [Requests -> KeySets]
    BY <2>2 DEF FinishFetch, IInv, TypeOK
  <2>4. \A x \in Requests : req'[x].phase \in {"verify", "fetching", "received"} =>
                                req'[x].uses \in Requests
    BY <1>3, <1>4 DEF IInv, TypeOK
  <2>5. QED
    BY <1>5, <2>1, <2>3, <2>4 DEF IInv, TypeOK
<1>8. \A x \in Requests : Fine(req[x])'
  BY <1>3, <1>4, <1>5 DEF IInv, Fine, InTime, Checked, VouchedFor
<1>9. NotBefore'
  BY <1>3, <1>4, <1>5 DEF IInv, NotBefore, Uses, EarlyPhases, KeyPhases
<1>10. KeySetsDated'
  <2> SUFFICES ASSUME NEW q \in Requests PROVE \E t \in 0..now : CreatedAt(q, t)'
    BY <1>5 DEF KeySetsDated
  <2>1. PICK t \in 0..now : CreatedAt(q, t)
    BY DEF IInv, KeySetsDated
  <2>2. \A k : PublishedSince(k, t)' <=> PublishedSince(k, t)
    BY <1>5 DEF PublishedSince
  <2>3. \A k \in remote'[q].keys : PublishedSince(k, t)'
    <3>1. CASE q = req[r].uses
      <4>1. MayUse(req[r], t)
        BY <1>2, <2>1, <3>1 DEF CreatedAt, Uses, KeyPhases
      <4>2. remote'[q].keys = req[r].got
        BY <1>6, <3>1
      <4>3. QED
        BY <1>2, <2>2, <4>1, <4>2 DEF MayUse
    <3>2. CASE q # req[r].uses
      BY <1>6, <2>1, <2>2, <3>2 DEF CreatedAt
    <3>3. QED
      BY <3>1, <3>2
  <2>4. \A x \in Requests : Uses(req'[x], q) => MayUse(req'[x], t)
    BY <1>3, <1>4, <2>1 DEF CreatedAt, Uses, KeyPhases
  <2>5. QED
    BY <1>5, <2>1, <2>2, <2>3, <2>4 DEF CreatedAt, Uses, MayUse
<1>11. NewKeysOnlyMissing'
  <2>1. now <= req[r].started + MaxWork
    BY <1>1, <1>2 DEF Fine, InTime, Final
  <2>2. \A k \in published : k \notin req[r].got => now <= since[k] + MaxWork
    <3> SUFFICES ASSUME NEW k \in published, k \notin req[r].got
                 PROVE  now <= since[k] + MaxWork
      OBVIOUS
    <3>1. req[r].started <= since[k] /\ since[k] \in Nat
      BY <1>2 DEF IInv, NewKeysOnlyMissing, TypeOK
    <3>2. QED
      BY <1>1, <2>1, <3>1, TimesAssumption
  <2>3. \A q \in Requests : remote'[q].fetched <= now
    BY <1>1, <1>6 DEF IInv, NewKeysOnlyMissing
  <2>4. \A q \in Requests, k \in published :
          remote'[q].loaded /\ k \notin remote'[q].keys => remote'[q].fetched <= since[k] + MaxWork
    BY <1>6, <2>2 DEF IInv, NewKeysOnlyMissing
  <2>5. \A x \in Requests, k \in published :
          req'[x].phase = "received" /\ k \notin req'[x].got => req'[x].started <= since[k]
    BY <1>3, <1>4 DEF IInv, NewKeysOnlyMissing
  <2>6. QED
    BY <1>5, <2>3, <2>4, <2>5 DEF NewKeysOnlyMissing
<1>12. CachedBefore'
  BY <1>5 DEF IInv, CachedBefore
<1>13. QED
  BY <1>7, <1>8, <1>9, <1>10, <1>11, <1>12 DEF IInv

\* The server vouches for a token that is active, or the request is closed.
LEMMA AnswerIntrospectionKeeps ==
    ASSUME IInv, NEW r \in Requests, AnswerIntrospection(r) PROVE IInv'
<1> DEFINE s == [req[r] EXCEPT !.phase = "vouched"]
<1>1. /\ req[r] \in RequestStates /\ Fine(req[r]) /\ now \in Nat /\ req[r].started \in Nat
      /\ Token(r) \in Credentials \cup {NoCredential}
  BY RequestTyped DEF IInv
<1>2. req[r].phase \in {"introspect", "fallback"}
  BY DEF AnswerIntrospection, At
<1>3. CASE ~Active(Token(r))
  BY <1>3, CloseKeeps DEF AnswerIntrospection, Statuses
<1>4. CASE Active(Token(r))
  <2>1. /\ s \in RequestStates /\ s.phase = "vouched" /\ s.started = req[r].started
        /\ s.metered = req[r].metered /\ s.via = req[r].via /\ s.uses = req[r].uses
        /\ s.credential = req[r].credential
    BY WithPhase DEF Phases
  <2>2. Become(r, s)
    BY <1>4 DEF AnswerIntrospection, Goto
  <2> HIDE DEF s
  <2>3. Token(r) \in Credentials /\ Token(r).known /\ revokedAt[Token(r)] > now
    BY <1>1, <1>4 DEF Active, NoCredential
  <2>4. revokedAt[Token(r)] \in Nat
    BY <2>3, TimesAssumption DEF IInv, TypeOK, Never
  <2>5. req[r].started <= now
    BY <1>1, <1>2 DEF Fine, InTime, Final
  <2>6. req[r].started <= revokedAt[Token(r)]
    BY <1>1, <2>3, <2>4, <2>5
  <2>7. deployment.mode = "oauth" /\ deployment.validation # "jwks"
    BY <1>1, <1>2 DEF Fine, Checked
  <2>8. VouchedFor(s)
    BY <2>1, <2>3, <2>6, <2>7 DEF VouchedFor, Token
  <2>9. Fine(s)
    BY <1>1, <1>2, <2>1, <2>8 DEF Fine, InTime, Checked, Final, KeyPhases
  <2>10. QED
    BY <2>1, <2>2, <2>9, StepWithoutKeys DEF KeyPhases, EarlyPhases
<1>5. QED
  BY <1>3, <1>4

\* Introspection, and the errors of both ways.
LEMMA IntrospectionKeeps ==
    ASSUME IInv, NEW r \in Requests,
           FailFetch(r) \/ Introspect(r) \/ DenyIntrospection(r) \/ FailIntrospection(r)
    PROVE  IInv'
<1>1. req[r].phase \in KeyPhases \cup {"introspect", "fallback", "vouched"}
  BY DEF FailFetch, Introspect, DenyIntrospection, FailIntrospection, At, KeyPhases
<1>2. CASE FailFetch(r) \/ FailIntrospection(r)
  <2>1. req[r].phase \in KeyPhases \cup {"introspect", "fallback"} /\ Become(r, AfterError(r))
    BY <1>2 DEF FailFetch, FailIntrospection, At, KeyPhases
  <2>2. CASE AfterError(r) = Closed(401)
    BY <2>1, <2>2, CloseKeeps DEF Close, Statuses
  <2>3. CASE AfterError(r) # Closed(401)
    BY <2>1, <2>3, AfterErrorFine, StepWithoutKeys DEF KeyPhases, EarlyPhases
  <2>4. QED
    BY <2>2, <2>3
<1>3. CASE Close(r, 401) \/ Become(r, Closed(401)) \/ Become(r, Closed(403))
  BY <1>3, CloseKeeps DEF Close, Statuses
<1>4. CASE Become(r, Granted(r, "introspection"))
  <2>1. req[r].phase \notin {"new", "asking"} \cup Final
    BY <1>1 DEF KeyPhases, Final
  <2>2. QED
    BY <1>4, <2>1, GrantedFine, StepWithoutKeys DEF Ways, KeyPhases, EarlyPhases
<1>5. QED
  BY <1>2, <1>3, <1>4, ClaimedOutcome DEF Introspect, DenyIntrospection

\* A handled request is answered, whatever session it names.
LEMMA HandledWell ==
    ASSUME NEW initialize \in BOOLEAN, NEW session
    PROVE  SdkStatus(Transport(initialize, session), initialize) = 200
<1>1. CASE initialize = TRUE
  BY <1>1 DEF SdkStatus
<1>2. CASE initialize = FALSE
  <2>1. /\ Transport(initialize, session).session = session
        /\ Transport(initialize, session).sessions = (session # NoRequest)
    BY <1>2 DEF Transport
  <2>2. QED
    BY <1>2, <2>1 DEF SdkStatus
<1>3. QED
  BY <1>1, <1>2

\* An ended request holds nothing, whatever session it was given.
LEMMA EndKeeps ==
    ASSUME IInv, NEW r \in Requests, NEW s \in RequestStates, Fine(s), s.phase \in Final,
           req' = [req EXCEPT ![r] = s],
           sessions' \subseteq Requests, UNCHANGED <<Outside, jwks, remote>>
    PROVE  IInv'
<1>2. s.phase \notin KeyPhases /\ s.phase \notin EarlyPhases
  BY DEF Final, KeyPhases, EarlyPhases
<1>3. \A x \in Requests : req'[x] = IF x = r THEN s ELSE req[x]
  BY DEF IInv, TypeOK
<1>4. UNCHANGED <<now, deployment, published, since, until, changes, revokedAt, jwks, remote>>
  BY DEF Outside
<1>5. TypeOK'
  <2>1. req' \in [Requests -> RequestStates]
    BY DEF IInv, TypeOK
  <2>2. \A x \in Requests : req'[x].phase \in {"verify", "fetching", "received"} =>
                                req'[x].uses \in Requests
    BY <1>2, <1>3 DEF IInv, TypeOK, KeyPhases
  <2>3. QED
    BY <1>4, <2>1, <2>2 DEF IInv, TypeOK
<1>6. \A x \in Requests : Fine(req[x])'
  BY <1>3, <1>4 DEF IInv, Fine, InTime, Checked, VouchedFor
<1>7. NotBefore'
  BY <1>2, <1>3, <1>4 DEF IInv, NotBefore, Uses
<1>8. KeySetsDated'
  <2> SUFFICES ASSUME NEW q \in Requests PROVE \E t \in 0..now : CreatedAt(q, t)'
    BY <1>4 DEF KeySetsDated
  <2>1. PICK t \in 0..now : CreatedAt(q, t)
    BY DEF IInv, KeySetsDated
  <2>2. \A k : PublishedSince(k, t)' <=> PublishedSince(k, t)
    BY <1>4 DEF PublishedSince
  <2>3. \A x \in Requests : Uses(req'[x], q) => MayUse(req'[x], t)
    BY <1>2, <1>3, <2>1 DEF CreatedAt, Uses
  <2>4. QED
    BY <1>4, <2>1, <2>2, <2>3 DEF CreatedAt, Uses, MayUse
<1>9. NewKeysOnlyMissing' /\ CachedBefore'
  BY <1>2, <1>3, <1>4 DEF IInv, NewKeysOnlyMissing, CachedBefore, KeyPhases
<1>10. QED
  BY <1>5, <1>6, <1>7, <1>8, <1>9 DEF IInv

\* Handled or told what is wrong, the request ends.
LEMMA ExplainHandleKeeps ==
    ASSUME IInv, NEW r \in Requests, Explain(r) \/ Handle(r) PROVE IInv'
<1>1. CASE Explain(r)
  <2>1. /\ req' = [req EXCEPT ![r] = Ended("explained", 503)]
        /\ UNCHANGED <<Outside, jwks, remote>> /\ sessions' = sessions
    BY <1>1 DEF Explain, Become, Shared
  <2>2. sessions' \subseteq Requests
    BY <2>1 DEF IInv, TypeOK
  <2>3. /\ Ended("explained", 503) \in RequestStates /\ Fine(Ended("explained", 503))
        /\ Ended("explained", 503).phase \in Final
    BY EndedFine DEF Final, Statuses, IInv
  <2>4. QED
    BY <2>1, <2>2, <2>3, EndKeeps
<1>2. CASE Handle(r)
  <2>1. PICK initialize \in BOOLEAN, session \in sessions \cup {NoRequest} :
          /\ req' = [req EXCEPT ![r] =
                Ended("handled", SdkStatus(Transport(initialize, session), initialize))]
          /\ sessions' = IF initialize THEN sessions \cup {r} ELSE sessions
    BY <1>2 DEF Handle
  <2>2. req' = [req EXCEPT ![r] = Ended("handled", 200)]
    BY <2>1, HandledWell
  <2>3. sessions' \subseteq Requests
    BY <2>1 DEF IInv, TypeOK
  <2>4. UNCHANGED <<Outside, jwks, remote>>
    BY <1>2 DEF Handle
  <2>5. /\ Ended("handled", 200) \in RequestStates /\ Fine(Ended("handled", 200))
        /\ Ended("handled", 200).phase \in Final
    BY EndedFine DEF Final, Statuses, IInv
  <2>6. QED
    BY <2>2, <2>3, <2>4, <2>5, EndKeeps
<1>3. QED
  BY <1>1, <1>2

\* A key that is published now was not sent earlier.
LEMMA PublishKeeps == ASSUME IInv, NEW k \in Keys, Publish(k) PROVE IInv'
<1>1. /\ until[k] = Never /\ published' = published \cup {k}
      /\ since' = [since EXCEPT ![k] = now] /\ changes < MaxChanges /\ changes' = changes + 1
      /\ UNCHANGED <<now, deployment, until, revokedAt, jwks, remote, sessions, req>>
  BY DEF Publish, Change, Shared
<1>2. now \in Nat
  BY DEF IInv, TypeOK
<1>3. TypeOK'
  BY <1>1, TimesAssumption DEF IInv, TypeOK
<1>4. \A r \in Requests : Fine(req[r])'
  BY <1>1 DEF IInv, Fine, InTime, Checked, VouchedFor
<1>5. NotBefore' /\ CachedBefore'
  BY <1>1 DEF IInv, NotBefore, CachedBefore, Uses
<1>6. KeySetsDated'
  <2> SUFFICES ASSUME NEW q \in Requests PROVE \E t \in 0..now : CreatedAt(q, t)'
    BY <1>1 DEF KeySetsDated
  <2>1. PICK t \in 0..now : CreatedAt(q, t)
    BY DEF IInv, KeySetsDated
  <2>2. \A j : PublishedSince(j, t) => PublishedSince(j, t)'
    BY <1>1 DEF PublishedSince
  <2>3. QED
    BY <1>1, <2>1, <2>2 DEF CreatedAt, Uses, MayUse
<1>7. NewKeysOnlyMissing'
  <2>1. \A q \in Requests : remote[q].fetched <= now /\ remote[q].fetched \in Nat
    <3>1. \A q \in Requests : remote[q].fetched \in Nat
      BY DEF IInv, TypeOK, KeySets
    <3>2. QED
      BY <3>1 DEF IInv, NewKeysOnlyMissing
  <2>2. \A x \in Requests : req[x].phase = "received" => req[x].started <= now
    BY DEF IInv, Fine, InTime, Final
  <2>3. \A j \in published' : since'[j] = IF j = k THEN now ELSE since[j]
    BY <1>1 DEF IInv, TypeOK
  <2>4. \A q \in Requests : remote[q].fetched <= now + MaxWork
    <3> SUFFICES ASSUME NEW q \in Requests PROVE remote[q].fetched <= now + MaxWork
      OBVIOUS
    <3>1. remote[q].fetched <= now /\ remote[q].fetched \in Nat /\ MaxWork \in Nat
      BY <2>1, TimesAssumption
    <3>2. QED
      BY <1>2, <3>1
  <2>5. QED
    BY <1>1, <2>1, <2>2, <2>3, <2>4 DEF IInv, NewKeysOnlyMissing
<1>8. QED
  BY <1>3, <1>4, <1>5, <1>6, <1>7 DEF IInv

\* A key that is withdrawn now was published when it was fetched.
LEMMA WithdrawKeeps == ASSUME IInv, NEW k \in Keys, Withdraw(k) PROVE IInv'
<1>1. /\ published' = published \ {k} /\ until' = [until EXCEPT ![k] = now]
      /\ changes < MaxChanges /\ changes' = changes + 1
      /\ UNCHANGED <<now, deployment, since, revokedAt, jwks, remote, sessions, req>>
  BY DEF Withdraw, Change, Shared
<1>2. now \in 0..MaxTime /\ now # Never
  BY TimesAssumption DEF IInv, TypeOK, Never
<1>3. TypeOK'
  BY <1>1, <1>2, TimesAssumption DEF IInv, TypeOK, Never
<1>4. \A r \in Requests : Fine(req[r])'
  BY <1>1 DEF IInv, Fine, InTime, Checked, VouchedFor
<1>5. NotBefore' /\ CachedBefore' /\ NewKeysOnlyMissing'
  BY <1>1 DEF IInv, NotBefore, CachedBefore, NewKeysOnlyMissing, Uses
<1>6. KeySetsDated'
  <2> SUFFICES ASSUME NEW q \in Requests PROVE \E t \in 0..now : CreatedAt(q, t)'
    BY <1>1 DEF KeySetsDated
  <2>1. PICK t \in 0..now : CreatedAt(q, t)
    BY DEF IInv, KeySetsDated
  <2>2. \A j \in Keys : until'[j] = IF j = k THEN now ELSE until[j]
    BY <1>1 DEF IInv, TypeOK
  <2>3. \A j \in Keys : PublishedSince(j, t) => PublishedSince(j, t)'
    BY <1>1, <1>2, <2>2 DEF PublishedSince, Never
  <2>4. remote[q].keys \subseteq Keys /\ \A x \in Requests : req[x].got \subseteq Keys
    BY RequestTyped DEF IInv, TypeOK, KeySets
  <2>5. QED
    BY <1>1, <2>1, <2>3, <2>4 DEF CreatedAt, Uses, MayUse
<1>7. QED
  BY <1>3, <1>4, <1>5, <1>6 DEF IInv

\* Revoking a token touches nothing else, and comes after the requests that carry it.
LEMMA RevokeKeeps == ASSUME IInv, NEW c \in Credentials, Revoke(c) PROVE IInv'
<1>1. /\ revokedAt' = [revokedAt EXCEPT ![c] = now]
      /\ changes < MaxChanges /\ changes' = changes + 1
      /\ UNCHANGED <<now, deployment, published, since, until, jwks, remote, sessions, req>>
  BY DEF Revoke, Change, Shared
<1>2. TypeOK'
  BY <1>1, TimesAssumption DEF IInv, TypeOK, Never
<1>3. \A r \in Requests : Fine(req[r])'
  <2> SUFFICES ASSUME NEW r \in Requests PROVE Fine(req[r])'
    OBVIOUS
  <2>1. Fine(req[r])
    BY DEF IInv
  <2>2. ASSUME req[r].phase = "vouched" PROVE VouchedFor(req[r])'
    <3>1. VouchedFor(req[r]) /\ req[r].started <= now
      BY <2>1, <2>2 DEF Fine, Checked, InTime, Final
    <3>2. revokedAt'[req[r].credential] = IF req[r].credential = c
                                          THEN now ELSE revokedAt[req[r].credential]
      BY <1>1, <3>1 DEF VouchedFor, IInv, TypeOK
    <3>3. QED
      BY <1>1, <3>1, <3>2 DEF VouchedFor
  <2>3. QED
    BY <1>1, <2>1, <2>2 DEF Fine, InTime, Checked
<1>4. NotBefore' /\ KeySetsDated' /\ NewKeysOnlyMissing' /\ CachedBefore'
  BY <1>1 DEF IInv, NotBefore, Uses, KeySetsDated, CreatedAt, MayUse, PublishedSince,
              NewKeysOnlyMissing, CachedBefore
<1>5. QED
  BY <1>2, <1>3, <1>4 DEF IInv

\* Time passes only while no request has taken too long.
LEMMA TickKeeps == ASSUME IInv, Tick PROVE IInv'
<1>1. /\ now < MaxTime /\ now' = now + 1 /\ now \in Nat
      /\ UNCHANGED <<deployment, published, since, until, changes, revokedAt, jwks, remote,
                     sessions, req>>
  BY RequestTyped DEF Tick, Shared, IInv, TypeOK
<1>2. TypeOK'
  BY <1>1, TimesAssumption DEF IInv, TypeOK
<1>3. \A r \in Requests : Fine(req[r])'
  <2> SUFFICES ASSUME NEW r \in Requests PROVE Fine(req[r])'
    OBVIOUS
  <2>1. req[r].phase \notin {"new"} \cup Final => now < req[r].started + MaxWork
    BY DEF Tick, UnderWay
  <2>2. req[r].started \in Nat /\ Fine(req[r])
    BY RequestTyped DEF IInv
  <2>3. QED
    BY <1>1, <2>1, <2>2, TimesAssumption DEF Fine, InTime, Checked, VouchedFor
<1>4. NotBefore'
  BY <1>1 DEF IInv, NotBefore, Uses
<1>5. KeySetsDated'
  <2> SUFFICES ASSUME NEW q \in Requests PROVE \E t \in 0..now + 1 : CreatedAt(q, t)'
    BY <1>1 DEF KeySetsDated
  <2>1. PICK t \in 0..now : CreatedAt(q, t)
    BY DEF IInv, KeySetsDated
  <2>2. t \in 0..now + 1
    BY <1>1
  <2>3. QED
    BY <1>1, <2>1, <2>2 DEF CreatedAt, Uses, MayUse, PublishedSince
<1>6. NewKeysOnlyMissing' /\ CachedBefore'
  <2>1. \A q \in Requests : remote[q].fetched \in Nat
    BY DEF IInv, TypeOK, KeySets
  <2>2. jwks.at \in Nat
    BY DEF IInv, TypeOK
  <2>3. QED
    BY <1>1, <2>1, <2>2 DEF IInv, NewKeysOnlyMissing, CachedBefore
<1>7. QED
  BY <1>2, <1>3, <1>4, <1>5, <1>6 DEF IInv

-----------------------------------------------------------------------------
(* The invariant.                                                          *)

\* Initially every request is new and no key set exists.
LEMMA Initially == Init => IInv
<1> SUFFICES ASSUME Init PROVE IInv
  OBVIOUS
<1> USE TimesAssumption
<1>1. /\ NewRequest \in RequestStates /\ NewRequest.phase = "new" /\ NewRequest.via = "none"
      /\ NewRequest.uses = NoRequest
  BY DEF NewRequest, RequestStates, Phases, Ways, Statuses
<1>2. /\ EmptyKeySet \in KeySets /\ EmptyKeySet.keys = {}
      /\ EmptyKeySet.loaded = FALSE /\ EmptyKeySet.fetched = 0
  BY DEF EmptyKeySet, KeySets
<1>3. /\ \A r \in Requests : req[r] = NewRequest /\ remote[r] = EmptyKeySet
      /\ now = 0 /\ jwks.by = NoRequest /\ jwks.at = 0
  BY DEF Init
<1>4. TypeOK
  BY <1>1, <1>2, <1>3 DEF Init, TypeOK, Never
<1>5. \A r \in Requests : Fine(req[r])
  BY <1>1, <1>3 DEF Fine, InTime, Checked, Final, KeyPhases
<1>6. \A x, q \in Requests : ~Uses(req[x], q)
  BY <1>1, <1>3 DEF Uses, KeyPhases
<1>7. NotBefore
  BY <1>3, <1>6, NoRequestAssumption DEF NotBefore
<1>8. KeySetsDated
  BY <1>2, <1>3, <1>6, NoRequestAssumption DEF KeySetsDated, CreatedAt
<1>9. NewKeysOnlyMissing /\ CachedBefore
  BY <1>1, <1>2, <1>3 DEF NewKeysOnlyMissing, CachedBefore
<1>10. QED
  BY <1>4, <1>5, <1>7, <1>8, <1>9 DEF IInv

\* Every step keeps the invariant.
LEMMA Stepwise == IInv /\ [Next]_vars => IInv'
<1> SUFFICES ASSUME IInv, [Next]_vars PROVE IInv'
  OBVIOUS
<1>1. CASE \E r \in Requests : Admit(r)
  BY <1>1, AdmitKeeps
<1>2. ASSUME NEW r \in Requests, Authenticate(r) PROVE IInv'
  BY <1>2, BearerKeeps, OAuthKeeps, CreateKeySetKeeps, VerifyKeeps, StartFetchKeeps,
     AnswerFetchKeeps, FinishFetchKeeps, AnswerIntrospectionKeeps,
     IntrospectionKeeps DEF Authenticate
<1>3. CASE \E r \in Requests : Explain(r) \/ Handle(r)
  BY <1>3, ExplainHandleKeeps
<1>4. CASE \E k \in Keys : Publish(k) \/ Withdraw(k)
  BY <1>4, PublishKeeps, WithdrawKeeps
<1>5. CASE \E c \in Credentials : Revoke(c)
  BY <1>5, RevokeKeeps
<1>6. CASE Tick
  BY <1>6, TickKeeps
<1>7. CASE UNCHANGED vars
  BY <1>7 DEF vars, IInv, TypeOK, Fine, InTime, Checked, VouchedFor, NotBefore, Uses, KeySetsDated,
              CreatedAt, MayUse, PublishedSince, NewKeysOnlyMissing, CachedBefore
<1>8. QED
  BY <1>1, <1>2, <1>3, <1>4, <1>5, <1>6, <1>7 DEF Next

\* The invariant holds always.
LEMMA Invariant == Spec => []IInv
BY Initially, Stepwise, PTL DEF Spec

\* Every reachable state is typed: no request uses a key set that was never
\* created (GatewayContext and the module state of auth/oauth/jwks.ts).
THEOREM TypeCorrect == Spec => []TypeOK
<1>1. IInv => TypeOK
  BY DEF IInv
<1>2. QED
  BY <1>1, Invariant, PTL

\* A caller is served whether or not the isolate has seen its session begin
\* (shouldUseSessionManagement, restoreTransportSession).
THEOREM SessionsAreServed == Spec => []SessionsServed
<1>1. IInv => SessionsServed
  BY DEF IInv, Fine, Checked, SessionsServed, At
<1>2. QED
  BY <1>1, Invariant, PTL

-----------------------------------------------------------------------------
(* When a credential is accepted or turned down.                           *)

\* A request is changed by its own steps only.
LEMMA OwnSteps ==
    ASSUME IInv, [Next]_vars, NEW r \in Requests, req'[r] # req[r]
    PROVE  Admit(r) \/ Authenticate(r) \/ Explain(r) \/ Handle(r)
<1>1. req \in [Requests -> RequestStates]
  BY DEF IInv, TypeOK
<1>2. ASSUME NEW x \in Requests, NEW s, req' = [req EXCEPT ![x] = s] PROVE x = r
  BY <1>1, <1>2
<1>3. ASSUME NEW x \in Requests, NEW s, Become(x, s) PROVE x = r
  BY <1>2, <1>3 DEF Become
<1>4. ASSUME NEW x \in Requests, Admit(x) PROVE x = r
  BY <1>3, <1>4 DEF Admit, Route, Arrive, Meter, Limit, Close
<1>5. ASSUME NEW x \in Requests, Authenticate(x) PROVE x = r
  <2>1. CASE CreateKeySet(x)
    <3>1. req' = [req EXCEPT ![x] = [req[x] EXCEPT !.phase = "verify", !.uses = x]]
      BY <1>1, <2>1 DEF CreateKeySet
    <3>2. QED
      BY <1>2, <3>1
  <2>2. CASE FinishFetch(x)
    BY <1>2, <2>2 DEF FinishFetch
  <2>3. CASE ~CreateKeySet(x) /\ ~FinishFetch(x)
    BY <1>3, <1>5, <2>3
       DEF Authenticate, AuthenticateBearer, AuthenticateOAuth, Verify, StartFetch, AnswerFetch,
           FailFetch, AnswerIntrospection, Introspect, DenyIntrospection, FailIntrospection,
           Close, Goto
  <2>4. QED
    BY <2>1, <2>2, <2>3
<1>6. ASSUME NEW x \in Requests, Explain(x) \/ Handle(x) PROVE x = r
  BY <1>2, <1>3, <1>6 DEF Explain, Handle
<1>7. \A k \in Keys : ~Publish(k) /\ ~Withdraw(k)
  BY DEF Publish, Withdraw
<1>8. \A c \in Credentials : ~Revoke(c)
  BY DEF Revoke
<1>9. ~Tick /\ ~UNCHANGED vars
  BY DEF Tick, vars
<1>10. QED
  BY <1>4, <1>5, <1>6, <1>7, <1>8, <1>9 DEF Next

\* The credential may be accepted: as the bearer secret, with the keys the
\* request has, or by the authorization server.
Secret(r) ==
    /\ req[r].phase = "authenticate" /\ deployment.mode = "local-bearer"
    /\ Token(r).kind = "secret"

Signed(r) ==
    /\ \/ req[r].phase = "verify" /\ Token(r).key \in KeySet(r).keys
       \/ req[r].phase = "received" /\ Token(r).key \in req[r].got
    /\ JwtClaimsHold(r)
    /\ Token(r).claims.audience /\ HasRequiredScopes(Token(r).claims)

Vouched(r) ==
    /\ req[r].phase = "vouched" /\ VouchedFor(req[r])
    /\ Token(r).answer.issuer # "other"
    /\ Token(r).answer.audience /\ HasRequiredScopes(Token(r).answer)

\* Each way of authenticating accepts a credential for its own reason.
LEMMA AcceptingStep ==
    ASSUME IInv, [Next]_vars, NEW r \in Requests, req[r].via = "none", req'[r].via # "none"
    PROVE  /\ \/ req'[r].via = "secret" /\ Secret(r)
              \/ req'[r].via = "jwks" /\ Signed(r)
              \/ req'[r].via = "introspection" /\ Vouched(r)
           /\ UNCHANGED <<now, deployment, published, until, revokedAt>>
<1> DEFINE Accepted(way) == req'[r] = Granted(r, way)
<1>1. /\ req \in [Requests -> RequestStates] /\ req[r] \in RequestStates
      /\ TypeOK /\ Fine(req[r])
  BY RequestTyped DEF IInv, TypeOK
<1>2. \A s : req' = [req EXCEPT ![r] = s] => req'[r] = s
  BY <1>1
<1>3. \A s : Become(r, s) => req'[r] = s /\ UNCHANGED <<now, deployment, published, until, revokedAt>>
  BY <1>2 DEF Become, Outside
<1>4. \A status \in Statuses : req'[r] # Closed(status)
  BY <1>1, ClosedFine
<1>5. \A way : Granted(r, way).via = way
  BY <1>1 DEF Granted, RequestStates
<1>6. req[r].phase \in KeyPhases \cup {"introspect", "fallback"} => req'[r] # AfterError(r)
  BY <1>4, AfterErrorFine DEF Statuses
<1>7. \A phase : [req[r] EXCEPT !.phase = phase].via = "none"
  BY <1>1 DEF RequestStates
<1>8. ~Admit(r)
  <2>1. ~Route(r) /\ ~Limit(r)
    BY <1>3, <1>4 DEF Route, Limit, Close, MetadataStatus, Statuses
  <2>2. ~Arrive(r)
    <3>1. ~Close(r, 503)
      BY <1>3, <1>4 DEF Close, Statuses
    <3>2. \A c, phase : [NewRequest EXCEPT !.phase = phase, !.credential = c, !.started = now].via = "none"
      BY DEF NewRequest
    <3>3. QED
      BY <1>3, <3>1, <3>2 DEF Arrive
  <2>3. ~Meter(r)
    <3>1. [req[r] EXCEPT !.phase = "authenticate", !.metered = TRUE].via = "none"
      BY <1>1 DEF RequestStates
    <3>2. QED
      BY <1>3, <3>1 DEF Meter
  <2>4. QED
    BY <2>1, <2>2, <2>3 DEF Admit
<1>9. ~Explain(r) /\ ~Handle(r)
  <2>1. req[r].phase # "granted"
    BY <1>1 DEF Fine, Checked
  <2>2. QED
    BY <2>1 DEF Explain, Handle, At
<1>10. CASE AuthenticateBearer(r)
  <2>1. ~Close(r, 401)
    BY <1>3, <1>4 DEF Close, Statuses
  <2>2. Become(r, Granted(r, "secret")) /\ Secret(r)
    BY <1>10, <2>1 DEF AuthenticateBearer, At, Secret
  <2>3. QED
    BY <1>3, <1>5, <2>2
<1>11. ~AuthenticateOAuth(r)
  <2>1. ~Close(r, 503) /\ ~Close(r, 401)
    BY <1>3, <1>4 DEF Close, Statuses
  <2>2. \A phase : ~Goto(r, phase)
    BY <1>3, <1>7 DEF Goto
  <2>3. [req[r] EXCEPT !.phase = "verify", !.uses = jwks.by].via = "none"
    BY <1>1 DEF RequestStates
  <2>4. QED
    BY <1>3, <2>1, <2>2, <2>3 DEF AuthenticateOAuth
<1>12. ~CreateKeySet(r)
  <2>1. [req[r] EXCEPT !.phase = "verify", !.uses = r].via = "none"
    BY <1>1 DEF RequestStates
  <2>2. CreateKeySet(r) => req' = [req EXCEPT ![r] = [req[r] EXCEPT !.phase = "verify", !.uses = r]]
    BY <1>1 DEF CreateKeySet
  <2>3. QED
    BY <1>2, <2>1, <2>2
<1>13. ~StartFetch(r) /\ ~AnswerFetch(r)
  <2>1. [req[r] EXCEPT !.phase = "received", !.got = published].via = "none"
    BY <1>1 DEF RequestStates
  <2>2. QED
    BY <1>3, <1>7, <2>1 DEF StartFetch, AnswerFetch, Goto
<1>14. ASSUME NEW keys, req'[r] = Verified(r, keys), req[r].phase \in {"verify", "received"}
       PROVE  /\ req'[r].via = "jwks" /\ Token(r).key \in keys /\ JwtClaimsHold(r)
              /\ Token(r).claims.audience /\ HasRequiredScopes(Token(r).claims)
  <2>1. req'[r] # Closed(401) /\ req'[r] # Closed(403)
    BY <1>4 DEF Statuses
  <2>2. req'[r] # AfterError(r)
    BY <1>6, <1>14 DEF KeyPhases
  <2>3. QED
    BY <1>5, <1>14, <2>1, <2>2, VerifiedOutcome
<1>15. CASE Verify(r)
  BY <1>3, <1>14, <1>15 DEF Verify, At, Signed
<1>16. CASE FinishFetch(r)
  BY <1>2, <1>14, <1>16 DEF FinishFetch, At, Signed, Outside
<1>17. ~FailFetch(r) /\ ~DenyIntrospection(r) /\ ~FailIntrospection(r)
  BY <1>3, <1>4, <1>6
     DEF FailFetch, DenyIntrospection, FailIntrospection, At, Close, KeyPhases, Statuses
<1>a. ~AnswerIntrospection(r)
  <2>1. ~Close(r, 401)
    BY <1>3, <1>4 DEF Close, Statuses
  <2>2. ~Goto(r, "vouched")
    BY <1>3, <1>7 DEF Goto
  <2>3. QED
    BY <2>1, <2>2 DEF AnswerIntrospection
<1>18. CASE Introspect(r)
  <2>1. req'[r] # Closed(401) /\ req'[r] # Closed(403)
    BY <1>4 DEF Statuses
  <2>a. req[r].phase = "vouched" /\ VouchedFor(req[r])
    BY <1>1, <1>18 DEF Introspect, At, Fine, Checked
  <2>2. /\ req'[r] = Granted(r, "introspection") /\ Vouched(r)
        /\ UNCHANGED <<now, deployment, published, until, revokedAt>>
    BY <1>3, <1>18, <2>1, <2>a, ClaimedOutcome DEF Introspect, Vouched
  <2>3. QED
    BY <1>5, <2>2
<1>19. QED
  BY OwnSteps, <1>8, <1>9, <1>10, <1>11, <1>12, <1>13, <1>15, <1>16, <1>17, <1>a, <1>18
     DEF Authenticate

\* A token signed with a withdrawn key is accepted no longer than the cached key
\* set lives and a request takes, however many requests share and replace key
\* sets (getJwksResolver).
THEOREM WithdrawnKeysDoExpire == Spec => WithdrawnKeysExpire
<1>1. ASSUME IInv, [Next]_vars, NEW r \in Requests, Accepts(r, "jwks")
      PROVE  \/ Token(r).key \in published
             \/ /\ until[Token(r).key] # Never
                /\ now < until[Token(r).key] + Ttl + MaxWork
  <2> DEFINE k == Token(r).key
             q == req[r].uses
  <2>1. Signed(r)
    BY <1>1, AcceptingStep DEF Accepts
  <2>2. Uses(req[r], q) /\ q \in Requests
    BY <1>1, <2>1 DEF Signed, Uses, KeyPhases, IInv, TypeOK
  <2>3. PICK t \in 0..now : CreatedAt(q, t)
    BY <1>1, <2>2 DEF IInv, KeySetsDated
  <2>4. PublishedSince(k, t)
    <3>1. CASE req[r].phase = "verify"
      BY <2>1, <2>3, <3>1 DEF Signed, CreatedAt, KeySet
    <3>2. CASE req[r].phase = "received"
      BY <2>1, <2>2, <2>3, <3>2 DEF Signed, CreatedAt, MayUse
    <3>3. QED
      BY <2>1, <3>1, <3>2 DEF Signed
  <2>5. req[r].started < t + Ttl
    BY <2>2, <2>3 DEF CreatedAt, MayUse
  <2>6. req[r].started \in Nat /\ now \in Nat
    BY <1>1, RequestTyped DEF IInv
  <2>7. now <= req[r].started + MaxWork
    BY <1>1, <2>1 DEF IInv, Fine, InTime, Final, Signed
  <2>8. CASE k \notin published
    <3>1. k \in Keys
      <4>1. CASE req[r].phase = "verify"
        BY <1>1, <2>1, <2>2, <4>1 DEF Signed, KeySet, IInv, TypeOK, KeySets
      <4>2. CASE req[r].phase = "received"
        BY <1>1, <2>1, <4>2, RequestTyped DEF Signed, IInv
      <4>3. QED
        BY <2>1, <4>1, <4>2 DEF Signed
    <3>2. until[k] # Never /\ t <= until[k] /\ until[k] \in Nat
      BY <1>1, <2>4, <2>8, <3>1, TimesAssumption DEF PublishedSince, IInv, TypeOK, Never
    <3>3. now < until[k] + Ttl + MaxWork
      BY <2>5, <2>6, <2>7, <3>2, TimesAssumption
    <3>4. QED
      BY <3>2, <3>3
  <2>9. QED
    BY <2>8
<1> DEFINE A == \A r \in Requests :
                   Accepts(r, "jwks") =>
                      \/ Token(r).key \in published
                      \/ /\ until[Token(r).key] # Never
                         /\ now < until[Token(r).key] + Ttl + MaxWork
<1>2. IInv /\ [Next]_vars => [A]_vars
  BY <1>1
<1>3. QED
  BY <1>2, Invariant, PTL DEF Spec, WithdrawnKeysExpire

\* A key a token is verified with is the key of a JWT.
LEMMA SignedIsJwt ==
    ASSUME IInv, NEW r \in Requests, Signed(r)
    PROVE  Token(r).kind = "jwt" /\ deployment.validation # "introspection"
<1>1. req[r].phase \in KeyPhases /\ Fine(req[r]) /\ req[r].uses \in Requests
  BY DEF Signed, KeyPhases, IInv, Fine, Checked
<1>2. Token(r).key \in Keys
  <2>1. CASE req[r].phase = "verify"
    BY <1>1, <2>1 DEF Signed, KeySet, IInv, TypeOK, KeySets
  <2>2. CASE req[r].phase = "received"
    BY <2>2, RequestTyped DEF Signed, IInv
  <2>3. QED
    BY <2>1, <2>2 DEF Signed
<1>3. Token(r) \in Credentials \cup {NoCredential}
  BY RequestTyped DEF IInv
<1>4. QED
  BY <1>1, <1>2, <1>3, KeysAreOfJwts DEF Fine, Checked, KeyPhases

\* A token revoked before its request came is accepted only where the signature
\* of a JWT is enough: what the server said of it is not older than the request,
\* and no way leads an opaque token to the keys, nor any where the server is to
\* be asked about all (authenticateOAuthRequest, authenticateViaIntrospection).
THEOREM RevokedAreRefused == Spec => RevokedRefused
<1> DEFINE A == \A r \in Requests :
                   /\ deployment.mode = "oauth"
                   /\ req[r].via = "none" /\ req'[r].via # "none"
                   /\ revokedAt[Token(r)] < req[r].started
                   => /\ Token(r).kind = "jwt" /\ deployment.validation # "introspection"
                      /\ req'[r].via = "jwks"
<1>1. ASSUME IInv, [Next]_vars, NEW r \in Requests, deployment.mode = "oauth",
             req[r].via = "none", req'[r].via # "none",
             revokedAt[Token(r)] < req[r].started
      PROVE  /\ Token(r).kind = "jwt" /\ deployment.validation # "introspection"
             /\ req'[r].via = "jwks"
  <2>1. CASE Secret(r)
    BY <1>1, <2>1 DEF Secret
  <2>2. CASE req'[r].via = "jwks" /\ Signed(r)
    BY <1>1, <2>2, SignedIsJwt
  <2>3. CASE Vouched(r)
    <3>1. Token(r) \in Credentials /\ req[r].started <= revokedAt[Token(r)]
      BY <2>3 DEF Vouched, VouchedFor, Token
    <3>2. revokedAt[Token(r)] \in Nat /\ req[r].started \in Nat
      BY <1>1, <3>1, RequestTyped, TimesAssumption DEF IInv, TypeOK, Never
    <3>3. QED
      BY <1>1, <3>1, <3>2
  <2>4. QED
    BY <1>1, <2>1, <2>2, <2>3, AcceptingStep
<1>2. IInv /\ [Next]_vars => [A]_vars
  BY <1>1
<1>3. QED
  BY <1>2, Invariant, PTL DEF Spec, RevokedRefused

\* A good token is turned down by the keys only if they lack its key, and then
\* they may not be fetched anew yet, or have just been.
LEMMA TurnedDownStep ==
    ASSUME IInv, [Next]_vars, NEW r \in Requests, Good(r),
           req[r].phase \in {"verify", "received"}, req'[r].phase \in {"closed", "fallback"}
    PROVE  \/ /\ req[r].phase = "verify" /\ KeySet(r).loaded
              /\ Token(r).key \notin KeySet(r).keys /\ CoolingDown(r)
           \/ req[r].phase = "received" /\ Token(r).key \notin req[r].got
<1>1. req \in [Requests -> RequestStates] /\ req[r] \in RequestStates /\ TypeOK
  BY RequestTyped DEF IInv, TypeOK
<1>2. Authenticate(r)
  BY OwnSteps DEF Admit, Route, Arrive, Meter, Limit, Explain, Handle, At
<1>3. \A keys : Token(r).key \in keys => Verified(r, keys).phase = "granted"
  <2>1. Granted(r, "jwks").phase = "granted"
    BY <1>1 DEF Granted, RequestStates, Phases
  <2>2. QED
    BY <1>1, <2>1, VerifiedOutcome
<1>4. CASE req[r].phase = "received"
  <2>1. FinishFetch(r)
    BY <1>2, <1>4 DEF Authenticate, AuthenticateBearer, AuthenticateOAuth, CreateKeySet, Verify,
         StartFetch, AnswerFetch, FailFetch, AnswerIntrospection, Introspect, DenyIntrospection,
         FailIntrospection, At
  <2>2. req'[r] = Verified(r, req[r].got)
    BY <1>1, <2>1 DEF FinishFetch
  <2>3. QED
    BY <1>3, <1>4, <2>2
<1>5. CASE req[r].phase = "verify"
  <2>1. Verify(r) \/ StartFetch(r)
    BY <1>2, <1>5 DEF Authenticate, AuthenticateBearer, AuthenticateOAuth, CreateKeySet,
         AnswerFetch, FinishFetch, FailFetch, AnswerIntrospection, Introspect, DenyIntrospection,
         FailIntrospection, At
  <2>2. ~StartFetch(r)
    <3>1. [req[r] EXCEPT !.phase = "fetching"].phase = "fetching"
      BY <1>1 DEF RequestStates
    <3>2. QED
      BY <1>1, <3>1 DEF StartFetch, Goto, Become
  <2>3. req'[r] = Verified(r, KeySet(r).keys)
    BY <1>1, <2>1, <2>2 DEF Verify, Become
  <2>4. Token(r).key \notin KeySet(r).keys
    BY <1>3, <2>3
  <2>5. QED
    BY <1>5, <2>1, <2>2, <2>4 DEF Verify, Good
<1>6. QED
  BY <1>4, <1>5

\* A good token is not found wanting for its key once the key has been published
\* for as long as jose waits before it looks again and a request takes, although
\* answers to requests that share a key set overtake one another
\* (getJwksResolver, jwtVerify).
THEOREM PublishedKeysAreAccepted == Spec => PublishedKeysAccepted
<1>1. ASSUME IInv, [Next]_vars, NEW r \in Requests, Good(r),
             req[r].phase \in {"verify", "received"}, req'[r].phase \in {"closed", "fallback"},
             Token(r).key \in published
      PROVE  now < since[Token(r).key] + Cooldown + MaxWork
  <2> DEFINE k == Token(r).key
             q == req[r].uses
  <2>1. q \in Requests /\ k \in Keys
    BY <1>1 DEF IInv, TypeOK
  <2>2. since[k] \in Nat /\ now \in Nat /\ req[r].started \in Nat
    BY <1>1, <2>1, RequestTyped DEF IInv, TypeOK
  <2>3. CASE req[r].phase = "verify" /\ KeySet(r).loaded /\ k \notin KeySet(r).keys /\ CoolingDown(r)
    <3>1. remote[q].fetched <= since[k] + MaxWork
      BY <1>1, <2>1, <2>3 DEF IInv, NewKeysOnlyMissing, KeySet
    <3>2. now < remote[q].fetched + Cooldown
      BY <2>3 DEF CoolingDown, KeySet
    <3>3. remote[q].fetched \in Nat
      BY <1>1, <2>1 DEF IInv, TypeOK, KeySets
    <3>4. QED
      BY <2>2, <3>1, <3>2, <3>3, TimesAssumption
  <2>4. CASE req[r].phase = "received" /\ k \notin req[r].got
    <3>1. req[r].started <= since[k]
      BY <1>1, <2>4 DEF IInv, NewKeysOnlyMissing
    <3>2. now <= req[r].started + MaxWork
      BY <1>1, <2>4 DEF IInv, Fine, InTime, Final
    <3>3. QED
      BY <2>2, <3>1, <3>2, TimesAssumption
  <2>5. QED
    BY <1>1, <2>3, <2>4, TurnedDownStep
<1> DEFINE A == \A r \in Requests :
                   /\ req[r].phase \in {"verify", "received"}
                   /\ req'[r].phase \in {"closed", "fallback"}
                   /\ Good(r)
                   => \/ Token(r).key \notin published
                      \/ now < since[Token(r).key] + Cooldown + MaxWork
<1>2. IInv /\ [Next]_vars => [A]_vars
  BY <1>1
<1>3. QED
  BY <1>2, Invariant, PTL DEF Spec, PublishedKeysAccepted

-----------------------------------------------------------------------------
(* Admission is implemented.                                               *)

\* What Admission sees of a state of a request.
Seen(s) == IF s.phase = "new" THEN "none" ELSE IF s.phase \in Final THEN s.phase ELSE "arrived"

\* What has become of a request, and what has become of it after a step.
LEMMA OutcomeIs ==
    ASSUME NEW r \in Requests
    PROVE  Outcome(r) = Seen(req[r]) /\ Outcome(r)' = Seen(req'[r])
<1>1. CASE req[r].phase = "new"
  BY <1>1 DEF Outcome, At, Final, Seen
<1>2. CASE req[r].phase \in Final
  BY <1>2 DEF Outcome, At, Final, Seen
<1>3. CASE req[r].phase \notin {"new"} \cup Final
  BY <1>3 DEF Outcome, At, Final, Seen
<1>4. Outcome(r) = Seen(req[r])
  BY <1>1, <1>2, <1>3
<1>5. CASE req'[r].phase = "new"
  BY <1>4, <1>5 DEF Outcome, At, Final, Seen
<1>6. CASE req'[r].phase \in Final
  BY <1>4, <1>6 DEF Outcome, At, Final, Seen
<1>7. CASE req'[r].phase \notin {"new"} \cup Final
  BY <1>4, <1>7 DEF Outcome, At, Final, Seen
<1>8. QED
  BY <1>4, <1>5, <1>6, <1>7

SeenRules == [metering |-> deployment.limiter, sound |-> EnvValid(deployment)]
SeenEntitled == {x \in Requests : ~At(x, "new") /\ Entitled(Token(x))}
SeenMetered == {x \in Requests : req[x].metered}
SeenGranted == {x \in Requests : req[x].via # "none"}
SeenOutcome == [x \in Requests |-> Outcome(x)]

\* A step of one request changes what Admission sees of that request only.
LEMMA SeenStep ==
    ASSUME IInv, NEW r \in Requests, NEW s \in RequestStates,
           req' = [req EXCEPT ![r] = s], deployment' = deployment
    PROVE  /\ SeenEntitled' = IF s.phase # "new" /\ Entitled(s.credential)
                              THEN SeenEntitled \cup {r} ELSE SeenEntitled \ {r}
           /\ SeenMetered' = IF s.metered THEN SeenMetered \cup {r} ELSE SeenMetered \ {r}
           /\ SeenGranted' = IF s.via # "none" THEN SeenGranted \cup {r} ELSE SeenGranted \ {r}
           /\ SeenOutcome' = [SeenOutcome EXCEPT ![r] = Seen(s)]
<1>1. \A x \in Requests : req'[x] = IF x = r THEN s ELSE req[x]
  BY DEF IInv, TypeOK
<1>2. \A c : Entitled(c)' <=> Entitled(c)
  BY DEF Entitled, HasRequiredScopes
<1>3. SeenEntitled' = IF s.phase # "new" /\ Entitled(s.credential)
                      THEN SeenEntitled \cup {r} ELSE SeenEntitled \ {r}
  <2>1. \A x \in Requests : Entitled(Token(x))' <=> Entitled(Token(x)')
    BY DEF Entitled, HasRequiredScopes
  <2>2. QED
    BY <1>1, <1>2, <2>1 DEF SeenEntitled, At, Token
<1>4. SeenMetered' = IF s.metered THEN SeenMetered \cup {r} ELSE SeenMetered \ {r}
  BY <1>1 DEF SeenMetered
<1>5. SeenGranted' = IF s.via # "none" THEN SeenGranted \cup {r} ELSE SeenGranted \ {r}
  BY <1>1 DEF SeenGranted
<1>6. SeenOutcome' = [SeenOutcome EXCEPT ![r] = Seen(s)]
  <2>1. \A x \in Requests : Outcome(x) = Seen(req[x]) /\ Outcome(x)' = Seen(req'[x])
    BY OutcomeIs
  <2>2. SeenOutcome = [x \in Requests |-> Seen(req[x])]
    BY <2>1 DEF SeenOutcome
  <2>3. SeenOutcome' = [x \in Requests |-> Seen(req'[x])]
    BY <2>1 DEF SeenOutcome
  <2>4. QED
    BY <1>1, <2>2, <2>3
<1>7. QED
  BY <1>3, <1>4, <1>5, <1>6

\* The rules do not change.
LEMMA RulesKept == ASSUME deployment' = deployment PROVE SeenRules' = SeenRules
<1>1. EnvValid(deployment)' <=> EnvValid(deployment)
  BY DEF EnvValid, Given, OAuthValid, OAuthSettings, AddressesValid, RateLimitValid
<1>2. EnvValid(deployment)' = EnvValid(deployment)
  BY DEF EnvValid, Given, OAuthValid, OAuthSettings, AddressesValid, RateLimitValid
<1>3. QED
  BY <1>2 DEF SeenRules

\* Nobody is entitled without a credential.
LEMMA NobodyIsEntitled == ~Entitled(NoCredential)
BY DEF Entitled, NoCredential

\* What Admission sees stays as it is when what it sees of one request does.
LEMMA MapStutter ==
    ASSUME IInv, NEW r \in Requests, NEW s \in RequestStates,
           req' = [req EXCEPT ![r] = s], deployment' = deployment,
           req[r].phase \notin {"new"} \cup Final, s.phase \notin {"new"} \cup Final,
           s.credential = req[r].credential, s.metered = req[r].metered, s.via = req[r].via
    PROVE  UNCHANGED Admission!vars
<1>1. SeenEntitled' = SeenEntitled
  BY SeenStep DEF SeenEntitled, At, Token
<1>2. SeenMetered' = SeenMetered
  BY SeenStep DEF SeenMetered
<1>3. SeenGranted' = SeenGranted
  BY SeenStep DEF SeenGranted
<1>4. SeenOutcome' = SeenOutcome
  <2>1. Seen(s) = "arrived" /\ SeenOutcome[r] = "arrived" /\ SeenOutcome \in [Requests -> {Outcome(x) : x \in Requests}]
    BY OutcomeIs DEF Seen, SeenOutcome
  <2>2. SeenOutcome' = [SeenOutcome EXCEPT ![r] = "arrived"]
    BY <2>1, SeenStep
  <2>3. QED
    BY <2>1, <2>2
<1>5. SeenRules' = SeenRules
  BY RulesKept
<1>6. QED
  BY <1>1, <1>2, <1>3, <1>4, <1>5
     DEF Admission!vars, SeenRules, SeenEntitled, SeenMetered, SeenGranted, SeenOutcome

\* A request that ends is forgotten but for its outcome.
LEMMA MapEnd ==
    ASSUME IInv, NEW r \in Requests, NEW s \in RequestStates, Fine(s), s.phase \in Final,
           req' = [req EXCEPT ![r] = s], deployment' = deployment,
           req[r].phase \notin {"new"} \cup Final
    PROVE  Admission!End(r, s.phase)
<1>1. s.credential = NoCredential /\ s.metered = FALSE /\ s.via = "none" /\ s.phase # "new"
  BY DEF Fine, Checked, Final
<1>2. /\ SeenEntitled' = SeenEntitled \ {r} /\ SeenMetered' = SeenMetered \ {r}
      /\ SeenGranted' = SeenGranted \ {r} /\ SeenOutcome' = [SeenOutcome EXCEPT ![r] = s.phase]
  BY <1>1, SeenStep, NobodyIsEntitled DEF Seen
<1>3. SeenOutcome[r] = "arrived" /\ SeenRules' = SeenRules
  BY OutcomeIs, RulesKept DEF Seen, SeenOutcome
<1>4. QED
  BY <1>2, <1>3
     DEF Admission!End, Admission!Becomes, SeenRules, SeenEntitled, SeenMetered, SeenGranted, SeenOutcome

\* A request turned away at once was never under way.
LEMMA MapDismiss ==
    ASSUME IInv, NEW r \in Requests, NEW status \in Statuses, Close(r, status),
           req[r].phase = "new"
    PROVE  Admission!Dismiss(r)
<1> DEFINE s == Closed(status)
<1>1. /\ s \in RequestStates /\ s.phase = "closed" /\ s.credential = NoCredential
      /\ s.metered = FALSE /\ s.via = "none"
  BY ClosedFine DEF IInv
<1>2. req' = [req EXCEPT ![r] = s] /\ deployment' = deployment
  BY DEF Close, Become, Outside
<1> HIDE DEF s
<1>3. r \notin SeenEntitled /\ r \notin SeenMetered /\ r \notin SeenGranted
  BY DEF IInv, Fine, Checked, NewRequest, SeenEntitled, SeenMetered, SeenGranted, At
<1>4. /\ SeenEntitled' = SeenEntitled /\ SeenMetered' = SeenMetered
      /\ SeenGranted' = SeenGranted /\ SeenOutcome' = [SeenOutcome EXCEPT ![r] = "closed"]
  <2>1. ~Entitled(s.credential)
    BY <1>1, NobodyIsEntitled
  <2>2. /\ SeenEntitled' = SeenEntitled \ {r} /\ SeenMetered' = SeenMetered \ {r}
        /\ SeenGranted' = SeenGranted \ {r} /\ SeenOutcome' = [SeenOutcome EXCEPT ![r] = Seen(s)]
    BY <1>1, <1>2, <2>1, SeenStep
  <2>3. Seen(s) = "closed"
    BY <1>1 DEF Seen, Final
  <2>4. QED
    BY <1>3, <2>2, <2>3
<1>5. SeenOutcome[r] = "none" /\ SeenRules' = SeenRules
  BY <1>2, OutcomeIs, RulesKept DEF Seen, SeenOutcome
<1>6. QED
  BY <1>4, <1>5
     DEF Admission!Dismiss, Admission!Becomes, SeenRules, SeenEntitled, SeenMetered, SeenGranted, SeenOutcome

\* A credential is accepted that entitles, and was metered where that is in force.
LEMMA MapGrant ==
    ASSUME IInv, NEW r \in Requests, NEW way \in Ways \ {"none"}, Entitled(Token(r)),
           req' = [req EXCEPT ![r] = Granted(r, way)], deployment' = deployment,
           req[r].phase \notin {"new", "asking"} \cup Final
    PROVE  Admission!Grant(r)
<1> DEFINE s == Granted(r, way)
<1>1. /\ s \in RequestStates /\ s.phase = "granted" /\ s.credential = req[r].credential
      /\ s.metered = req[r].metered /\ s.via # "none"
  BY GrantedFine
<1> HIDE DEF s
<1>2. req' = [req EXCEPT ![r] = s]
  BY DEF s
<1>3. r \in SeenEntitled
  BY DEF SeenEntitled, At
<1>4. SeenRules.metering => r \in SeenMetered
  BY DEF SeenRules, SeenMetered, IInv, Fine, Checked
<1>5. SeenEntitled' = SeenEntitled
  <2>1. Token(r) = s.credential
    BY <1>1 DEF Token
  <2>2. Entitled(s.credential)
    BY <2>1
  <2>3. SeenEntitled' = SeenEntitled \cup {r}
    BY <1>1, <1>2, <2>2, SeenStep
  <2>4. QED
    BY <1>3, <2>3
<1>6. SeenMetered' = SeenMetered
  BY <1>1, <1>2, SeenStep DEF SeenMetered
<1>7. SeenGranted' = SeenGranted \cup {r}
  BY <1>1, <1>2, SeenStep
<1>8. SeenOutcome[r] = "arrived" /\ SeenRules' = SeenRules
  BY OutcomeIs, RulesKept DEF Seen, SeenOutcome
<1>9. SeenOutcome' = SeenOutcome
  <2>1. SeenOutcome' = [SeenOutcome EXCEPT ![r] = "arrived"]
    BY <1>1, <1>2, SeenStep DEF Seen, Final
  <2>2. QED
    BY <1>8, <2>1 DEF SeenOutcome
<1>10. QED
  BY <1>3, <1>4, <1>5, <1>6, <1>7, <1>8, <1>9
     DEF Admission!Grant, SeenRules, SeenEntitled, SeenMetered, SeenGranted, SeenOutcome

\* A step or a stutter of Admission.
Mapped == Admission!Next \/ UNCHANGED Admission!vars

\* What admits, grants, ends or dismisses is a step of Admission.
LEMMA MapNext ==
    ASSUME NEW r \in Requests,
           \/ Admission!Arrive(r) \/ Admission!Dismiss(r) \/ Admission!Meter(r)
           \/ Admission!Grant(r) \/ Admission!Handle(r) \/ Admission!Explain(r)
           \/ Admission!Close(r)
    PROVE  Mapped
BY DEF Mapped, Admission!Next

\* A request under way is closed.
LEMMA MapClosed ==
    ASSUME IInv, NEW r \in Requests, NEW status \in Statuses,
           req' = [req EXCEPT ![r] = Closed(status)], deployment' = deployment,
           req[r].phase \notin {"new"} \cup Final
    PROVE  Mapped
<1> DEFINE s == Closed(status)
<1>1. s \in RequestStates /\ Fine(s) /\ s.phase = "closed"
  BY ClosedFine DEF IInv
<1> HIDE DEF s
<1>2. req' = [req EXCEPT ![r] = s]
  BY DEF s
<1>3. Admission!End(r, s.phase)
  BY <1>1, <1>2, MapEnd DEF Final
<1>4. Admission!Close(r)
  BY <1>1, <1>3 DEF Admission!Close
<1>5. QED
  BY <1>4, MapNext

\* An exception closes the request or is not seen by Admission.
LEMMA MapAfterError ==
    ASSUME IInv, NEW r \in Requests, req[r].phase \in KeyPhases \cup {"introspect", "fallback"},
           req' = [req EXCEPT ![r] = AfterError(r)], deployment' = deployment
    PROVE  Mapped
<1> DEFINE s == AfterError(r)
<1>1. req[r].phase \notin {"new"} \cup Final /\ req[r].via = "none"
  BY DEF KeyPhases, Final, IInv, Fine, Checked
<1>2. CASE s = Closed(401)
  <2>1. req' = [req EXCEPT ![r] = Closed(401)] /\ 401 \in Statuses
    BY <1>2 DEF Statuses
  <2>2. QED
    BY <1>1, <2>1, MapClosed
<1>3. CASE s # Closed(401)
  <2>1. /\ s \in RequestStates /\ s.phase = "fallback" /\ s.credential = req[r].credential
        /\ s.metered = req[r].metered /\ s.via = req[r].via
    BY <1>1, <1>3, AfterErrorFine
  <2> HIDE DEF s
  <2>2. req' = [req EXCEPT ![r] = s]
    BY DEF s
  <2>3. QED
    BY <1>1, <2>1, <2>2, MapStutter DEF Mapped, Final
<1>4. QED
  BY <1>2, <1>3

\* A token is verified for a deployment that verifies tokens.
LEMMA MapVerified ==
    ASSUME IInv, NEW r \in Requests, req[r].phase \in {"verify", "received"},
           NEW keys \in SUBSET Keys,
           req' = [req EXCEPT ![r] = Verified(r, keys)], deployment' = deployment
    PROVE  Mapped
<1>1. req[r].phase \notin {"new", "asking"} \cup Final
  BY DEF Final
<1>2. CASE Verified(r, keys) = Closed(401)
  <2>1. req' = [req EXCEPT ![r] = Closed(401)] /\ 401 \in Statuses
    BY <1>2 DEF Statuses
  <2>2. QED
    BY <1>1, <2>1, MapClosed
<1>a. CASE Verified(r, keys) = Closed(403)
  <2>1. req' = [req EXCEPT ![r] = Closed(403)] /\ 403 \in Statuses
    BY <1>a DEF Statuses
  <2>2. QED
    BY <1>1, <2>1, MapClosed
<1>3. CASE Verified(r, keys) = AfterError(r)
  BY <1>3, MapAfterError DEF KeyPhases
<1>4. CASE /\ Verified(r, keys) = Granted(r, "jwks") /\ Token(r).key \in keys
           /\ JwtClaimsHold(r) /\ Token(r).claims.audience
           /\ HasRequiredScopes(Token(r).claims)
  <2>1. deployment.mode = "oauth" /\ deployment.validation # "introspection"
    BY DEF IInv, Fine, Checked, KeyPhases
  <2>2. Token(r) \in Credentials \cup {NoCredential}
    BY RequestTyped DEF IInv
  <2>3. Token(r).kind = "jwt"
    BY <1>4, <2>2, KeysAreOfJwts
  <2>4. Entitled(Token(r))
    BY <1>4, <2>1, <2>3 DEF Entitled, JwtClaimsHold
  <2>5. Admission!Grant(r)
    BY <1>1, <1>4, <2>4, MapGrant DEF Ways
  <2>6. QED
    BY <2>5, MapNext
<1>5. QED
  BY <1>2, <1>a, <1>3, <1>4, VerifiedOutcome

\* The way into /mcp.
LEMMA MapAdmit == ASSUME IInv, NEW r \in Requests, Admit(r) PROVE Mapped
<1>1. req[r] \in RequestStates /\ Fine(req[r])
  BY RequestTyped DEF IInv
<1>2. CASE Route(r)
  <2>1. req[r].phase = "new" /\ \E status \in Statuses : Close(r, status)
    BY <1>2 DEF Route, At, MetadataStatus, Statuses
  <2>2. QED
    BY <2>1, MapDismiss, MapNext
<1>3. CASE Arrive(r)
  <2>1. req[r].phase = "new"
    BY <1>3 DEF Arrive, At
  <2>2. CASE ~RateLimitValid(deployment)
    BY <1>3, <2>1, <2>2, MapDismiss, MapNext DEF Arrive, Statuses
  <2>3. CASE RateLimitValid(deployment)
    <3>1. PICK c \in Credentials :
            Become(r, [NewRequest EXCEPT
                          !.phase = IF deployment.limiter THEN "asking" ELSE "authenticate",
                          !.credential = c, !.started = now])
      BY <1>3, <2>3 DEF Arrive
    <3> DEFINE s == [NewRequest EXCEPT
                       !.phase = IF deployment.limiter THEN "asking" ELSE "authenticate",
                       !.credential = c, !.started = now]
    <3>2. req[r] = NewRequest /\ NewRequest \in RequestStates
      BY <1>1, <2>1 DEF Fine, Checked
    <3>3. now \in 0..MaxTime /\ deployment.limiter \in BOOLEAN
      BY DeploymentsAssumption DEF IInv, TypeOK
    <3>4. /\ s \in RequestStates /\ s.phase \in {"asking", "authenticate"}
          /\ s.metered = NewRequest.metered /\ s.via = NewRequest.via
      BY <3>2, <3>3 DEF RequestStates, Phases
    <3>5. NewRequest.metered = FALSE /\ NewRequest.via = "none"
      BY DEF NewRequest
    <3>6. req' = [req EXCEPT ![r] = s] /\ deployment' = deployment
      BY <3>1 DEF Become, Outside
    <3> HIDE DEF s
    <3>7. s.phase # "new" /\ Seen(s) = "arrived" /\ s.metered = FALSE /\ s.via = "none"
      BY <3>4, <3>5 DEF Seen, Final
    <3>8. r \notin SeenEntitled /\ r \notin SeenMetered /\ r \notin SeenGranted
      BY <2>1, <3>2, <3>5 DEF SeenEntitled, SeenMetered, SeenGranted, At
    <3>9. SeenEntitled' = SeenEntitled \cup {r} \/ SeenEntitled' = SeenEntitled \ {r}
      BY <3>4, <3>6, SeenStep
    <3>10. SeenMetered' = SeenMetered \ {r} /\ SeenGranted' = SeenGranted \ {r}
      BY <3>4, <3>6, <3>7, SeenStep
    <3>11. SeenOutcome' = [SeenOutcome EXCEPT ![r] = "arrived"]
      BY <3>4, <3>6, <3>7, SeenStep
    <3>12. SeenOutcome[r] = "none" /\ SeenRules' = SeenRules
      BY <2>1, <3>6, OutcomeIs, RulesKept DEF Seen, SeenOutcome
    <3>a. /\ SeenEntitled' \in {SeenEntitled, SeenEntitled \cup {r}}
          /\ SeenMetered' = SeenMetered /\ SeenGranted' = SeenGranted
      BY <3>8, <3>9, <3>10
    <3>13. Admission!Arrive(r)
      BY <3>a, <3>11, <3>12
         DEF Admission!Arrive, Admission!Becomes, SeenRules, SeenEntitled, SeenMetered,
             SeenGranted, SeenOutcome
    <3>14. QED
      BY <3>13, MapNext
  <2>4. QED
    BY <2>2, <2>3
<1>4. CASE Meter(r)
  <2> DEFINE s == [req[r] EXCEPT !.phase = "authenticate", !.metered = TRUE]
  <2>1. /\ s \in RequestStates /\ s.phase = "authenticate" /\ s.metered = TRUE
        /\ s.credential = req[r].credential /\ s.via = req[r].via
    BY <1>1 DEF RequestStates, Phases
  <2>2. req[r].phase = "asking" /\ req[r].via = "none"
    BY <1>1, <1>4 DEF Meter, At, Fine, Checked
  <2>3. req' = [req EXCEPT ![r] = s] /\ deployment' = deployment
    BY <1>4 DEF Meter, Become, Outside
  <2> HIDE DEF s
  <2>4. SeenEntitled' = SeenEntitled
    <3>1. s.phase # "new"
      BY <2>1
    <3>2. CASE Entitled(s.credential)
      <4>1. r \in SeenEntitled
        BY <2>1, <2>2, <3>2 DEF SeenEntitled, At, Token
      <4>2. SeenEntitled' = SeenEntitled \cup {r}
        BY <2>1, <2>3, <3>1, <3>2, SeenStep
      <4>3. QED
        BY <4>1, <4>2
    <3>3. CASE ~Entitled(s.credential)
      <4>1. r \notin SeenEntitled
        BY <2>1, <3>3 DEF SeenEntitled, At, Token
      <4>2. SeenEntitled' = SeenEntitled \ {r}
        BY <2>1, <2>3, <3>1, <3>3, SeenStep
      <4>3. QED
        BY <4>1, <4>2
    <3>4. QED
      BY <3>2, <3>3
  <2>5. SeenMetered' = SeenMetered \cup {r}
    BY <2>1, <2>3, SeenStep
  <2>6. SeenGranted' = SeenGranted
    BY <2>1, <2>2, <2>3, SeenStep DEF SeenGranted
  <2>7. SeenOutcome[r] = "arrived" /\ SeenRules' = SeenRules
    BY <2>2, <2>3, OutcomeIs, RulesKept DEF Seen, SeenOutcome, Final
  <2>8. SeenOutcome' = SeenOutcome
    <3>1. Seen(s) = "arrived"
      BY <2>1 DEF Seen, Final
    <3>2. SeenOutcome' = [SeenOutcome EXCEPT ![r] = Seen(s)]
      BY <2>1, <2>3, SeenStep
    <3>3. QED
      BY <2>7, <3>1, <3>2 DEF SeenOutcome
  <2>9. Admission!Meter(r)
    BY <2>4, <2>5, <2>6, <2>7, <2>8
       DEF Admission!Meter, SeenRules, SeenEntitled, SeenMetered, SeenGranted, SeenOutcome
  <2>10. QED
    BY <2>9, MapNext
<1>5. CASE Limit(r)
  <2>1. req[r].phase = "asking" /\ (Close(r, 429) \/ Close(r, 503))
    BY <1>5 DEF Limit, At
  <2>2. QED
    BY <2>1, MapClosed DEF Close, Become, Outside, Final, Statuses
<1>6. QED
  BY <1>2, <1>3, <1>4, <1>5 DEF Admit

\* The ways of authenticating.
LEMMA MapAuthenticate == ASSUME IInv, NEW r \in Requests, Authenticate(r) PROVE Mapped
<1>1. /\ req[r] \in RequestStates /\ Fine(req[r]) /\ req \in [Requests -> RequestStates]
      /\ Token(r) = req[r].credential
  BY RequestTyped DEF IInv, TypeOK, Token
<1>2. ASSUME NEW s, Become(r, s) PROVE req' = [req EXCEPT ![r] = s] /\ deployment' = deployment
  BY <1>2 DEF Become, Outside
<1>3. ASSUME req[r].phase \notin {"new"} \cup Final, NEW status \in Statuses, Close(r, status)
      PROVE  Mapped
  BY <1>2, <1>3, MapClosed DEF Close
<1>4. ASSUME req[r].phase \notin {"new"} \cup Final, NEW phase \in Phases \ ({"new"} \cup Final),
             Goto(r, phase)
      PROVE  Mapped
  <2> DEFINE s == [req[r] EXCEPT !.phase = phase]
  <2>1. /\ s \in RequestStates /\ s.phase = phase /\ s.credential = req[r].credential
        /\ s.metered = req[r].metered /\ s.via = req[r].via
    BY WithPhase
  <2>2. req' = [req EXCEPT ![r] = s] /\ deployment' = deployment
    BY <1>2, <1>4 DEF Goto
  <2> HIDE DEF s
  <2>3. QED
    BY <1>4, <2>1, <2>2, MapStutter DEF Mapped
<1>5. CASE AuthenticateBearer(r)
  <2>1. req[r].phase = "authenticate" /\ deployment.mode = "local-bearer"
    BY <1>5 DEF AuthenticateBearer, At
  <2>2. CASE Close(r, 401)
    BY <1>3, <2>1, <2>2 DEF Final, Statuses
  <2>3. CASE Become(r, Granted(r, "secret")) /\ Token(r).kind = "secret"
    <3>1. Entitled(Token(r))
      BY <2>1, <2>3 DEF Entitled
    <3>2. Admission!Grant(r)
      BY <1>2, <2>1, <2>3, <3>1, MapGrant DEF Ways, Final
    <3>3. QED
      BY <3>2, MapNext
  <2>4. QED
    BY <1>5, <2>2, <2>3 DEF AuthenticateBearer
<1>6. CASE AuthenticateOAuth(r)
  <2>1. req[r].phase = "authenticate"
    BY <1>6 DEF AuthenticateOAuth, At
  <2>2. CASE Close(r, 503) \/ Close(r, 401)
    BY <1>3, <2>1, <2>2 DEF Final, Statuses
  <2>3. CASE Goto(r, "introspect") \/ Goto(r, "import")
    BY <1>4, <2>1, <2>3 DEF Final, Phases
  <2>4. CASE jwks.by # NoRequest /\ Become(r, [req[r] EXCEPT !.phase = "verify", !.uses = jwks.by])
    <3> DEFINE s == [req[r] EXCEPT !.phase = "verify", !.uses = jwks.by]
    <3>1. jwks.by \in Requests
      BY <2>4 DEF IInv, TypeOK
    <3>2. /\ s \in RequestStates /\ s.phase = "verify" /\ s.credential = req[r].credential
          /\ s.metered = req[r].metered /\ s.via = req[r].via
      BY <1>1, <3>1 DEF RequestStates, Phases
    <3>3. req' = [req EXCEPT ![r] = s] /\ deployment' = deployment
      BY <1>2, <2>4
    <3> HIDE DEF s
    <3>4. QED
      BY <2>1, <3>2, <3>3, MapStutter DEF Mapped, Final
  <2>5. QED
    BY <1>6, <2>2, <2>3, <2>4 DEF AuthenticateOAuth, KeySetCached
<1>7. CASE CreateKeySet(r)
  <2> DEFINE s == [req[r] EXCEPT !.phase = "verify", !.uses = r]
  <2>1. req[r].phase = "import"
    BY <1>7 DEF CreateKeySet, At
  <2>2. /\ s \in RequestStates /\ s.phase = "verify" /\ s.credential = req[r].credential
        /\ s.metered = req[r].metered /\ s.via = req[r].via
    BY <1>1 DEF RequestStates, Phases
  <2>3. req' = [req EXCEPT ![r] = s] /\ deployment' = deployment
    BY <1>1, <1>7 DEF CreateKeySet, Outside
  <2> HIDE DEF s
  <2>4. QED
    BY <2>1, <2>2, <2>3, MapStutter DEF Mapped, Final
<1>8. CASE Verify(r)
  <2>1. req[r].phase = "verify" /\ Become(r, Verified(r, KeySet(r).keys))
    BY <1>8 DEF Verify, At
  <2>2. KeySet(r).keys \in SUBSET Keys
    BY <2>1 DEF IInv, TypeOK, KeySet, KeySets
  <2>3. QED
    BY <1>2, <2>1, <2>2, MapVerified
<1>9. CASE StartFetch(r)
  BY <1>4, <1>9 DEF StartFetch, At, Final, Phases
<1>10. CASE AnswerFetch(r)
  <2> DEFINE s == [req[r] EXCEPT !.phase = "received", !.got = published]
  <2>1. req[r].phase = "fetching" /\ Become(r, s)
    BY <1>10 DEF AnswerFetch, At
  <2>2. published \in SUBSET Keys
    BY DEF IInv, TypeOK
  <2>3. /\ s \in RequestStates /\ s.phase = "received" /\ s.credential = req[r].credential
        /\ s.metered = req[r].metered /\ s.via = req[r].via
    BY <1>1, <2>2 DEF RequestStates, Phases
  <2>4. req' = [req EXCEPT ![r] = s] /\ deployment' = deployment
    BY <1>2, <2>1
  <2> HIDE DEF s
  <2>5. QED
    BY <2>1, <2>3, <2>4, MapStutter DEF Mapped, Final
<1>11. CASE FinishFetch(r)
  <2>1. /\ req[r].phase = "received" /\ req' = [req EXCEPT ![r] = Verified(r, req[r].got)]
        /\ deployment' = deployment
    BY <1>11 DEF FinishFetch, At, Outside
  <2>2. req[r].got \in SUBSET Keys
    BY RequestTyped DEF IInv
  <2>3. QED
    BY <2>1, <2>2, MapVerified
<1>12. CASE FailFetch(r) \/ FailIntrospection(r)
  BY <1>2, <1>12, MapAfterError DEF FailFetch, FailIntrospection, At, KeyPhases
<1>13. CASE DenyIntrospection(r)
  BY <1>3, <1>13 DEF DenyIntrospection, At, Final, Statuses
<1>14. CASE AnswerIntrospection(r)
  <2>1. req[r].phase \in {"introspect", "fallback"}
    BY <1>14 DEF AnswerIntrospection, At
  <2>2. Close(r, 401) \/ Goto(r, "vouched")
    BY <1>14 DEF AnswerIntrospection
  <2>3. QED
    BY <1>3, <1>4, <2>1, <2>2 DEF Final, Phases, Statuses
<1>a. CASE Introspect(r)
  <2>1. req[r].phase = "vouched" /\ VouchedFor(req[r])
    BY <1>1, <1>a DEF Introspect, At, Fine, Checked
  <2>2. CASE Become(r, Closed(401)) \/ Become(r, Closed(403))
    BY <1>3, <2>1, <2>2 DEF Close, Final, Statuses
  <2>3. CASE /\ Become(r, Granted(r, "introspection"))
             /\ Token(r).answer.issuer # "other" /\ Token(r).answer.audience
             /\ HasRequiredScopes(Token(r).answer)
    <3>1. Entitled(Token(r))
      BY <2>1, <2>3 DEF Entitled, VouchedFor, Token
    <3>2. Admission!Grant(r)
      BY <1>2, <2>1, <2>3, <3>1, MapGrant DEF Ways, Final
    <3>3. QED
      BY <3>2, MapNext
  <2>4. QED
    BY <1>a, <2>2, <2>3, ClaimedOutcome DEF Introspect
<1>15. QED
  BY <1>5, <1>6, <1>7, <1>8, <1>9, <1>10, <1>11, <1>12, <1>13, <1>14, <1>a
     DEF Authenticate

\* The environment is validated after the credential was accepted.
LEMMA MapExplainHandle == ASSUME IInv, NEW r \in Requests, Explain(r) \/ Handle(r) PROVE Mapped
<1>1. req[r].phase = "granted" /\ deployment' = deployment
  BY DEF Explain, Handle, At, Become, Outside
<1>2. r \in SeenGranted /\ req[r].phase \notin {"new"} \cup Final
  BY <1>1 DEF SeenGranted, IInv, Fine, Checked, Final
<1>3. SeenRules.sound = EnvValid(deployment)
  BY DEF SeenRules
<1>4. CASE Explain(r)
  <2> DEFINE s == Ended("explained", 503)
  <2>1. s \in RequestStates /\ Fine(s) /\ s.phase = "explained"
    BY EndedFine DEF IInv, Final, Statuses
  <2>2. req' = [req EXCEPT ![r] = s] /\ ~EnvValid(deployment)
    BY <1>4 DEF Explain, Become
  <2> HIDE DEF s
  <2>3. s.phase \in Final
    BY <2>1 DEF Final
  <2>4. Admission!End(r, "explained")
    BY <1>1, <1>2, <2>1, <2>2, <2>3, MapEnd
  <2>5. Admission!Explain(r)
    BY <1>2, <2>2, <2>4 DEF Admission!Explain, SeenGranted
  <2>6. QED
    BY <2>5, MapNext
<1>5. CASE Handle(r)
  <2> DEFINE s == Ended("handled", 200)
  <2>1. s \in RequestStates /\ Fine(s) /\ s.phase = "handled"
    BY EndedFine DEF IInv, Final, Statuses
  <2>2. req' = [req EXCEPT ![r] = s] /\ EnvValid(deployment)
    BY <1>5, HandledWell DEF Handle
  <2> HIDE DEF s
  <2>3. s.phase \in Final
    BY <2>1 DEF Final
  <2>4. Admission!End(r, "handled")
    BY <1>1, <1>2, <2>1, <2>2, <2>3, MapEnd
  <2>5. Admission!Handle(r)
    BY <1>2, <2>2, <2>4 DEF Admission!Handle, SeenGranted
  <2>6. QED
    BY <2>5, MapNext
<1>6. QED
  BY <1>4, <1>5

\* A step that leaves the requests and the deployment alone is not seen.
LEMMA MapOutside ==
    ASSUME UNCHANGED <<deployment, req>> PROVE UNCHANGED Admission!vars
<1>1. SeenRules' = SeenRules
  BY RulesKept
<1>2. \A x \in Requests : Entitled(Token(x))' <=> Entitled(Token(x))
  BY DEF Entitled, HasRequiredScopes, Token
<1>3. SeenEntitled' = SeenEntitled /\ SeenMetered' = SeenMetered /\ SeenGranted' = SeenGranted
  BY <1>2 DEF SeenEntitled, SeenMetered, SeenGranted, At
<1>4. SeenOutcome' = SeenOutcome
  BY OutcomeIs DEF SeenOutcome
<1>5. QED
  BY <1>1, <1>3, <1>4
     DEF Admission!vars, SeenRules, SeenEntitled, SeenMetered, SeenGranted, SeenOutcome

\* The pipeline of fetch implements Admission: no order of its steps, no failure
\* of the limiter, the issuer or the authorization server and no fallback lets a
\* request through that was not metered and is not entitled, or shows settings to
\* it (fetch, authenticateRequest, envErrorResponse).
THEOREM AdmissionIsKept == Spec => AdmissionKept
<1>1. Init => Admission!Init
  <2> SUFFICES ASSUME Init PROVE Admission!Init
    OBVIOUS
  <2>1. \A r \in Requests : req[r] = NewRequest
    BY DEF Init
  <2>2. /\ NewRequest.phase = "new" /\ NewRequest.metered = FALSE /\ NewRequest.via = "none"
    BY DEF NewRequest
  <2>3. SeenEntitled = {} /\ SeenMetered = {} /\ SeenGranted = {}
    BY <2>1, <2>2 DEF SeenEntitled, SeenMetered, SeenGranted, At
  <2>4. SeenOutcome = [r \in Requests |-> "none"]
    BY <2>1, <2>2, OutcomeIs DEF SeenOutcome, Seen
  <2>5. SeenRules \in [metering : BOOLEAN, sound : BOOLEAN]
    <3>1. deployment.limiter \in BOOLEAN
      BY DeploymentsAssumption DEF Init
    <3>2. EnvValid(deployment) \in BOOLEAN
      BY DEF EnvValid
    <3>3. QED
      BY <3>1, <3>2 DEF SeenRules
  <2>6. QED
    BY <2>3, <2>4, <2>5
       DEF Admission!Init, SeenRules, SeenEntitled, SeenMetered, SeenGranted, SeenOutcome
<1>2. IInv /\ [Next]_vars => [Admission!Next]_(Admission!vars)
  <2> SUFFICES ASSUME IInv, [Next]_vars PROVE Mapped
    BY DEF Mapped
  <2>1. ASSUME NEW r \in Requests, Admit(r) \/ Authenticate(r) \/ Explain(r) \/ Handle(r)
        PROVE  Mapped
    BY <2>1, MapAdmit, MapAuthenticate, MapExplainHandle
  <2>2. CASE \E k \in Keys : Publish(k) \/ Withdraw(k)
    BY <2>2, MapOutside DEF Publish, Withdraw, Mapped
  <2>3. CASE \E c \in Credentials : Revoke(c)
    BY <2>3, MapOutside DEF Revoke, Mapped
  <2>4. CASE Tick
    BY <2>4, MapOutside DEF Tick, Mapped
  <2>5. CASE UNCHANGED vars
    BY <2>5, MapOutside DEF vars, Mapped
  <2>6. QED
    BY <2>1, <2>2, <2>3, <2>4, <2>5 DEF Next
<1>3. QED
  BY <1>1, <1>2, Invariant, PTL DEF Spec, AdmissionKept, Admission!Spec
=============================================================================
