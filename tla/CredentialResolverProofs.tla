------------------------- MODULE CredentialResolverProofs -------------------------
(***************************************************************************)
(* Proofs about CredentialResolver, for any calls, resolvers, roles and    *)
(* durations.                                                              *)
(***************************************************************************)
EXTENDS CredentialResolver, TLAPS

\* An assumed session is not the absence of one.
Real(k) == k.role \in ValidRoles

\* A cache entry is a session that was granted for its key, and one the
\* resolver has received.
CacheOwn ==
    \A r \in Resolvers, role \in Roles, id \in Ids :
        LET k == cache[r][Key(role, id)] IN
        k # NoCredentials =>
            k.role = role /\ k.id = id /\ role \in ValidRoles /\ k \in received[r]

\* A request to STS is never older than the timeout, and what STS has granted
\* dates from its time.
PendingInTime ==
    \A c \in Calls :
        /\ Pending(c) => /\ call[c].role \in ValidRoles
                         /\ call[c].askedAt <= now
                         /\ now <= call[c].askedAt + Timeout
        /\ call[c].phase = "issued" =>
              /\ call[c].credentials.role = call[c].role
              /\ call[c].credentials.id = call[c].id
              /\ call[c].askedAt + Lifetime <= call[c].credentials.expires
              /\ call[c].credentials.expires <= now + Lifetime

\* Nothing received lasts longer than a lifetime from now.
ReceivedInTime ==
    \A r \in Resolvers : \A k \in received[r] : k.expires <= now + Lifetime

\* What the cache has for a key expires at most a timeout earlier than anything
\* received for it: this is what an answer that overtook another may cost.
NearBest ==
    \A r \in Resolvers : \A k \in received[r] :
        /\ Real(k)
        /\ cache[r][Key(k.role, k.id)] # NoCredentials
        /\ k.expires <= cache[r][Key(k.role, k.id)].expires + Timeout

IInv ==
    /\ TypeOK /\ CacheOwn /\ PendingInTime /\ ReceivedInTime /\ NearBest
    /\ OwnRole /\ Usable

-----------------------------------------------------------------------------
\* Initially nothing has been asked, cached or received.
LEMMA Initially == Init => IInv
<1> SUFFICES ASSUME Init PROVE IInv
  OBVIOUS
<1> USE RolesAssumption, TimesAssumption
<1>1. NoCredentials \in Credentials
  BY DEF NoCredentials, Session, Credentials
<1>2. \A c \in Calls : call[c].phase = "ready"
  BY DEF Init
<1>3. call \in [Calls -> CallStates]
  BY <1>1 DEF Init, CallStates
<1>4. TypeOK
  BY <1>1, <1>2, <1>3 DEF Init, TypeOK
<1>5. CacheOwn
  BY DEF Init, CacheOwn, Key, Keys
<1>6. PendingInTime /\ ReceivedInTime /\ NearBest /\ OwnRole /\ Usable
  BY <1>2 DEF Init, PendingInTime, ReceivedInTime, NearBest, OwnRole, Usable, Pending, Assumed
<1>7. QED
  BY <1>4, <1>5, <1>6 DEF IInv

\* Every entry of a cache has a type.
LEMMA CacheTyped ==
    ASSUME TypeOK, NEW r \in Resolvers, NEW role \in Roles, NEW id \in Ids
    PROVE  /\ Key(role, id) \in Keys
           /\ cache[r][Key(role, id)] \in Credentials
           /\ cache[r][Key(role, id)].expires \in Nat
BY DEF TypeOK, Key, Keys, Credentials

\* A step of one call that leaves the cache, the answers received and the time
\* alone keeps the invariant if it keeps the invariant's claims about the call.
LEMMA OneCallStep ==
    ASSUME IInv, NEW c \in Calls, NEW s \in CallStates,
           call' = [call EXCEPT ![c] = s],
           UNCHANGED <<now, skew, resolverOf, cache, received>>,
           s.phase = "done" =>
              /\ s.credentials.role = s.role
              /\ s.role # DefaultRole =>
                    /\ s.credentials # NoCredentials
                    /\ s.credentials.id = s.id
                    /\ s.credentials.expires - s.handedAt > Margin - MaxSkew,
           s.phase \in {"asked", "issued"} =>
              s.role \in ValidRoles /\ s.askedAt <= now /\ now <= s.askedAt + Timeout,
           s.phase = "issued" =>
              /\ s.credentials.role = s.role
              /\ s.credentials.id = s.id
              /\ s.askedAt + Lifetime <= s.credentials.expires
              /\ s.credentials.expires <= now + Lifetime
    PROVE  IInv'
<1>1. call \in [Calls -> CallStates]
  BY DEF IInv, TypeOK
<1>2. \A d \in Calls : call'[d] = IF d = c THEN s ELSE call[d]
  BY <1>1
<1>3. TypeOK'
  BY <1>1, <1>2 DEF IInv, TypeOK, Skews
<1>4. CacheOwn' /\ ReceivedInTime' /\ NearBest'
  BY DEF IInv, CacheOwn, ReceivedInTime, NearBest, Real
<1>5. PendingInTime'
  BY <1>2 DEF IInv, PendingInTime, Pending
<1>6. OwnRole' /\ Usable'
  BY <1>2 DEF IInv, OwnRole, Usable, Assumed
<1>7. QED
  BY <1>3, <1>4, <1>5, <1>6 DEF IInv

-----------------------------------------------------------------------------
(* The actions.                                                            *)

LEMMA UseDefaultKeeps == ASSUME IInv, NEW c \in Calls, UseDefault(c) PROVE IInv'
<1> DEFINE s == [phase |-> "done", role |-> call[c].role, id |-> call[c].id,
                 askedAt |-> 0, credentials |-> DefaultCredentials, handedAt |-> now]
<1>1. s \in CallStates
  BY RolesAssumption DEF IInv, TypeOK, CallStates, Credentials, DefaultCredentials, NoCredentials, Session
<1>2. call' = [call EXCEPT ![c] = s] /\ UNCHANGED <<now, skew, resolverOf, cache, received>>
  BY DEF UseDefault, Advance
<1>3. s.phase = "done" /\ s.role = DefaultRole /\ s.credentials.role = DefaultRole
  BY DEF UseDefault, DefaultCredentials, NoCredentials, Session
<1>4. QED
  BY <1>1, <1>2, <1>3, OneCallStep

LEMMA EndKeeps ==
    ASSUME IInv, NEW c \in Calls, NEW t \in Nat,
           Advance(c, "failed", t, NoCredentials, 0),
           UNCHANGED <<now, skew, resolverOf, cache, received>>
    PROVE  IInv'
<1> DEFINE s == [phase |-> "failed", role |-> call[c].role, id |-> call[c].id,
                 askedAt |-> t, credentials |-> NoCredentials, handedAt |-> 0]
<1>1. s \in CallStates
  BY RolesAssumption DEF IInv, TypeOK, CallStates, Credentials, NoCredentials, Session
<1>2. call' = [call EXCEPT ![c] = s]
  BY DEF Advance
<1>3. s.phase = "failed"
  OBVIOUS
<1>4. QED
  BY <1>1, <1>2, <1>3, OneCallStep

LEMMA UseCachedKeeps == ASSUME IInv, NEW c \in Calls, UseCached(c) PROVE IInv'
<1> DEFINE s == [phase |-> "done", role |-> call[c].role, id |-> call[c].id,
                 askedAt |-> 0, credentials |-> Cached(c), handedAt |-> now]
<1>0. /\ call[c] \in CallStates /\ call[c].role \in Roles /\ call[c].id \in Ids
      /\ resolverOf[c] \in Resolvers /\ now \in Nat /\ skew \in Int /\ -MaxSkew <= skew
      /\ Margin \in Nat /\ MaxSkew \in Nat
  BY TimesAssumption DEF IInv, TypeOK, CallStates, Skews
<1>1. /\ Cached(c) \in Credentials /\ Cached(c).expires \in Nat
      /\ Cached(c).role = call[c].role /\ Cached(c).id = call[c].id
      /\ Cached(c) # NoCredentials
  BY <1>0, CacheTyped DEF IInv, CacheOwn, Cached, UseCached, IsCached
<1>2. s \in CallStates
  BY <1>0, <1>1 DEF CallStates
<1>3. Cached(c).expires - (now + skew) > Margin
  BY <1>0, <1>1, TimesAssumption DEF UseCached, IsCached, NearExpiry, Clock
<1>4. Cached(c).expires - now > Margin - MaxSkew
  BY <1>0, <1>1, <1>3
<1>5. call' = [call EXCEPT ![c] = s] /\ UNCHANGED <<now, skew, resolverOf, cache, received>>
  BY DEF UseCached, Advance
<1>6. /\ s.phase = "done" /\ s.credentials = Cached(c)
      /\ s.role = call[c].role /\ s.id = call[c].id /\ s.handedAt = now
  OBVIOUS
<1> HIDE DEF s
<1>7. QED
  BY <1>1, <1>2, <1>4, <1>5, <1>6, OneCallStep

LEMMA AskKeeps == ASSUME IInv, NEW c \in Calls, Ask(c) PROVE IInv'
<1> DEFINE s == [phase |-> "asked", role |-> call[c].role, id |-> call[c].id,
                 askedAt |-> now, credentials |-> NoCredentials, handedAt |-> 0]
<1>0. now \in Nat /\ Timeout \in Nat
  BY TimesAssumption DEF IInv, TypeOK
<1>1. s \in CallStates
  BY <1>0, RolesAssumption DEF IInv, TypeOK, CallStates, Credentials, NoCredentials, Session
<1>2. call' = [call EXCEPT ![c] = s] /\ UNCHANGED <<now, skew, resolverOf, cache, received>>
  BY DEF Ask, Advance
<1>3. s.phase = "asked" /\ s.role \in ValidRoles /\ s.askedAt <= now /\ now <= s.askedAt + Timeout
  BY <1>0 DEF Ask
<1> HIDE DEF s
<1>4. QED
  BY <1>0, <1>1, <1>2, <1>3, OneCallStep

LEMMA IssueKeeps == ASSUME IInv, NEW c \in Calls, Issue(c) PROVE IInv'
<1> DEFINE k == Session(call[c].role, call[c].id, now + Lifetime)
           s == [phase |-> "issued", role |-> call[c].role, id |-> call[c].id,
                 askedAt |-> call[c].askedAt, credentials |-> k, handedAt |-> 0]
<1>0. now \in Nat /\ Lifetime \in Nat /\ call[c] \in CallStates /\ call[c].askedAt \in Nat
  BY TimesAssumption DEF IInv, TypeOK, CallStates
<1>1. k \in Credentials /\ k.role = call[c].role /\ k.id = call[c].id /\ k.expires = now + Lifetime
  BY <1>0 DEF CallStates, Credentials, Session
<1>2. s \in CallStates
  BY <1>0, <1>1 DEF CallStates
<1>3. call' = [call EXCEPT ![c] = s] /\ UNCHANGED <<now, skew, resolverOf, cache, received>>
  BY DEF Issue, Advance
<1>4. call[c].role \in ValidRoles /\ call[c].askedAt <= now /\ now <= call[c].askedAt + Timeout
  BY DEF Issue, IInv, PendingInTime, Pending
<1>5. /\ s.phase = "issued" /\ s.role = call[c].role /\ s.id = call[c].id
      /\ s.askedAt = call[c].askedAt /\ s.credentials = k
  OBVIOUS
<1> HIDE DEF s, k
<1>6. s.askedAt + Lifetime <= s.credentials.expires /\ s.credentials.expires <= now + Lifetime
  BY <1>0, <1>1, <1>4, <1>5
<1>7. QED
  BY <1>1, <1>2, <1>3, <1>4, <1>5, <1>6, OneCallStep

LEMMA TickKeeps == ASSUME IInv, Tick PROVE IInv'
<1>0. /\ now \in Nat /\ now' = now + 1 /\ now' \in 0..MaxTime
      /\ Lifetime \in Nat /\ Timeout \in Nat /\ call \in [Calls -> CallStates]
      /\ UNCHANGED <<skew, resolverOf, cache, call, received>>
  BY TimesAssumption DEF IInv, TypeOK, Tick
<1>1. TypeOK'
  BY <1>0 DEF IInv, TypeOK, Skews
<1>2. CacheOwn' /\ NearBest' /\ OwnRole' /\ Usable'
  BY <1>0 DEF IInv, CacheOwn, NearBest, Real, OwnRole, Usable, Assumed
<1>3. PendingInTime'
  <2> SUFFICES ASSUME NEW c \in Calls
      PROVE /\ Pending(c) => /\ call[c].role \in ValidRoles
                             /\ call[c].askedAt <= now + 1
                             /\ now + 1 <= call[c].askedAt + Timeout
            /\ call[c].phase = "issued" =>
                  /\ call[c].credentials.role = call[c].role
                  /\ call[c].credentials.id = call[c].id
                  /\ call[c].askedAt + Lifetime <= call[c].credentials.expires
                  /\ call[c].credentials.expires <= now + 1 + Lifetime
    BY <1>0 DEF PendingInTime, Pending
  <2>1. call[c].askedAt \in Nat /\ call[c].credentials.expires \in Nat
    BY <1>0 DEF CallStates, Credentials
  <2>2. Pending(c) => now < call[c].askedAt + Timeout
    BY DEF Tick
  <2>3. QED
    BY <1>0, <2>1, <2>2 DEF IInv, PendingInTime
<1>4. ReceivedInTime'
  <2> SUFFICES ASSUME NEW r \in Resolvers, NEW k \in received[r]
      PROVE k.expires <= now + 1 + Lifetime
    BY <1>0 DEF ReceivedInTime
  <2>1. k.expires \in Nat /\ k.expires <= now + Lifetime
    BY DEF IInv, TypeOK, Credentials, ReceivedInTime
  <2>2. QED
    BY <1>0, <2>1
<1>5. QED
  BY <1>1, <1>2, <1>3, <1>4 DEF IInv

\* The one step that writes the cache.
LEMMA ReceiveKeeps == ASSUME IInv, NEW c \in Calls, Receive(c) PROVE IInv'
<1> DEFINE r0 == resolverOf[c]
           k0 == call[c].credentials
           key == Key(call[c].role, call[c].id)
           s == [phase |-> "done", role |-> call[c].role, id |-> call[c].id,
                 askedAt |-> call[c].askedAt, credentials |-> k0, handedAt |-> now]
<1>1. /\ now \in Nat /\ Lifetime \in Nat /\ Timeout \in Nat /\ Margin \in Nat /\ MaxSkew \in Nat
      /\ Lifetime > Margin + Timeout /\ r0 \in Resolvers
      /\ call[c] \in CallStates /\ call[c].role \in Roles /\ call[c].id \in Ids
      /\ call[c].askedAt \in Nat /\ k0 \in Credentials /\ k0.expires \in Nat
  BY TimesAssumption DEF IInv, TypeOK, CallStates, Credentials
<1>2. /\ call[c].role \in ValidRoles /\ call[c].askedAt <= now /\ now <= call[c].askedAt + Timeout
      /\ k0.role = call[c].role /\ k0.id = call[c].id
      /\ call[c].askedAt + Lifetime <= k0.expires /\ k0.expires <= now + Lifetime
  BY DEF Receive, IInv, PendingInTime, Pending
<1>3. k0 # NoCredentials /\ call[c].role # DefaultRole /\ Real(k0)
  BY <1>2, RolesAssumption DEF NoCredentials, Session, Real
<1>4. s \in CallStates
  BY <1>1 DEF CallStates
<1>5. /\ s.phase = "done" /\ s.role = call[c].role /\ s.id = call[c].id
      /\ s.credentials = k0 /\ s.handedAt = now
  OBVIOUS
<1>6. /\ call' = [call EXCEPT ![c] = s] /\ now' = now /\ skew' = skew
      /\ resolverOf' = resolverOf
  BY DEF Receive, Advance
<1>7. \A d \in Calls : call'[d] = IF d = c THEN s ELSE call[d]
  BY <1>6 DEF IInv, TypeOK
<1>8. \A r \in Resolvers : received'[r] = IF r = r0 THEN received[r] \cup {k0} ELSE received[r]
  BY DEF Receive, IInv, TypeOK
<1>9. key \in Keys
  BY <1>1 DEF Key, Keys
<1>10. cache' = [cache EXCEPT ![r0][key] = k0]
  BY DEF Receive
<1> HIDE DEF key, s, r0
<1>11. \A r \in Resolvers, k \in Keys :
          cache'[r][k] = IF r = r0 /\ k = key THEN k0 ELSE cache[r][k]
  BY <1>1, <1>9, <1>10 DEF IInv, TypeOK
<1>12. k0.expires - now > Margin - MaxSkew
  BY <1>1, <1>2
<1>13. TypeOK'
  <2>1. cache' \in [Resolvers -> [Keys -> Credentials]]
    BY <1>1, <1>9, <1>10 DEF IInv, TypeOK
  <2>2. received' \in [Resolvers -> SUBSET Credentials]
    BY <1>1 DEF Receive, IInv, TypeOK, r0
  <2>3. call' \in [Calls -> CallStates]
    BY <1>4, <1>6 DEF IInv, TypeOK
  <2>4. \A d \in Calls : call'[d].phase = "done" /\ call'[d].role # DefaultRole =>
                            call'[d].credentials # NoCredentials
    BY <1>3, <1>5, <1>7 DEF IInv, TypeOK
  <2>5. QED
    BY <1>6, <2>1, <2>2, <2>3, <2>4 DEF IInv, TypeOK, Skews
<1>14. CacheOwn'
  <2> SUFFICES ASSUME NEW r \in Resolvers, NEW role \in Roles, NEW id \in Ids,
                      cache'[r][Key(role, id)] # NoCredentials
      PROVE /\ cache'[r][Key(role, id)].role = role
            /\ cache'[r][Key(role, id)].id = id
            /\ role \in ValidRoles
            /\ cache'[r][Key(role, id)] \in received'[r]
    BY DEF CacheOwn, Key
  <2>1. Key(role, id) \in Keys
    BY DEF Key, Keys
  <2>2. CASE r = r0 /\ Key(role, id) = key
    <3>1. role = call[c].role /\ id = call[c].id
      BY <2>2 DEF Key, key
    <3>2. cache'[r][Key(role, id)] = k0
      BY <1>11, <2>1, <2>2
    <3>3. k0 \in received'[r]
      BY <1>8, <2>2
    <3>4. QED
      BY <1>2, <3>1, <3>2, <3>3
  <2>3. CASE ~(r = r0 /\ Key(role, id) = key)
    <3>1. cache'[r][Key(role, id)] = cache[r][Key(role, id)]
      BY <1>11, <2>1, <2>3
    <3>2. cache[r][Key(role, id)] # NoCredentials =>
             /\ cache[r][Key(role, id)].role = role
             /\ cache[r][Key(role, id)].id = id
             /\ role \in ValidRoles
             /\ cache[r][Key(role, id)] \in received[r]
      BY DEF IInv, CacheOwn
    <3>3. received[r] \subseteq received'[r]
      BY <1>8
    <3>4. QED
      BY <3>1, <3>2, <3>3
  <2>4. QED
    BY <2>2, <2>3
<1>15. PendingInTime'
  BY <1>5, <1>6, <1>7 DEF IInv, PendingInTime, Pending
<1>16. ReceivedInTime'
  BY <1>2, <1>6, <1>8 DEF IInv, ReceivedInTime
<1>17. NearBest'
  <2> SUFFICES ASSUME NEW r \in Resolvers, NEW k \in received'[r]
      PROVE /\ Real(k)
            /\ cache'[r][Key(k.role, k.id)] # NoCredentials
            /\ k.expires <= cache'[r][Key(k.role, k.id)].expires + Timeout
    BY DEF NearBest, Key, Real
  <2>0. k \in Credentials
    BY <1>1, <1>8 DEF IInv, TypeOK
  <2>1. k.expires \in Nat /\ Key(k.role, k.id) \in Keys
    BY <2>0 DEF Credentials, Key, Keys
  <2>2. Real(k) /\ k.expires <= now + Lifetime
    BY <1>2, <1>3, <1>8 DEF IInv, NearBest, ReceivedInTime
  <2>3. CASE r = r0 /\ Key(k.role, k.id) = key
    <3>1. cache'[r][Key(k.role, k.id)] = k0
      BY <1>11, <2>1, <2>3
    <3>2. now + Lifetime <= k0.expires + Timeout
      BY <1>1, <1>2
    <3>3. QED
      BY <1>1, <1>3, <2>1, <2>2, <3>1, <3>2
  <2>4. CASE ~(r = r0 /\ Key(k.role, k.id) = key)
    <3>1. cache'[r][Key(k.role, k.id)] = cache[r][Key(k.role, k.id)]
      BY <1>11, <2>1, <2>4
    <3>2. k \in received[r]
      BY <1>2, <1>8, <2>4 DEF key
    <3>3. QED
      BY <2>2, <3>1, <3>2 DEF IInv, NearBest
  <2>5. QED
    BY <2>3, <2>4
<1>18. OwnRole' /\ Usable'
  BY <1>2, <1>5, <1>7, <1>12 DEF IInv, OwnRole, Usable, Assumed
<1>19. QED
  BY <1>13, <1>14, <1>15, <1>16, <1>17, <1>18 DEF IInv

-----------------------------------------------------------------------------
LEMMA StepKeeps == IInv /\ [Next]_vars => IInv'
<1> SUFFICES ASSUME IInv, [Next]_vars PROVE IInv'
  OBVIOUS
<1>0. \A c \in Calls : call[c].askedAt \in Nat
  BY DEF IInv, TypeOK, CallStates
<1>1. ASSUME NEW c \in Calls, UseDefault(c) PROVE IInv'
  BY <1>1, UseDefaultKeeps
<1>2. ASSUME NEW c \in Calls, Reject(c) PROVE IInv'
  BY <1>2, EndKeeps DEF Reject
<1>3. ASSUME NEW c \in Calls, UseCached(c) PROVE IInv'
  BY <1>3, UseCachedKeeps
<1>4. ASSUME NEW c \in Calls, Ask(c) PROVE IInv'
  BY <1>4, AskKeeps
<1>5. ASSUME NEW c \in Calls, Issue(c) PROVE IInv'
  BY <1>5, IssueKeeps
<1>6. ASSUME NEW c \in Calls, Receive(c) PROVE IInv'
  BY <1>6, ReceiveKeeps
<1>7. ASSUME NEW c \in Calls, Abort(c) PROVE IInv'
  BY <1>0, <1>7, EndKeeps DEF Abort
<1>8. ASSUME NEW c \in Calls, Fail(c) PROVE IInv'
  BY <1>0, <1>8, EndKeeps DEF Fail
<1>9. CASE Tick
  BY <1>9, TickKeeps
<1>10. CASE UNCHANGED vars
  BY <1>10 DEF vars, IInv, TypeOK, Skews, CacheOwn, PendingInTime, ReceivedInTime, NearBest,
               Real, OwnRole, Usable, Assumed, Pending
<1>11. QED
  BY <1>1, <1>2, <1>3, <1>4, <1>5, <1>6, <1>7, <1>8, <1>9, <1>10 DEF Next

\* The inductive invariant holds.
THEOREM Invariance == Spec => []IInv
<1>1. Init => IInv
  BY Initially
<1>2. IInv /\ [Next]_vars => IInv'
  BY StepKeeps
<1>3. QED
  BY <1>1, <1>2, PTL DEF Spec

\* Every variable keeps its type, and no call ends well without credentials.
THEOREM TypeCorrect == Spec => []TypeOK
<1>1. IInv => TypeOK
  BY DEF IInv
<1>2. QED
  BY <1>1, Invariance, PTL

\* Every call reads AWS as the role and with the external id it named.
THEOREM RolesAreOwn == Spec => []OwnRole
<1>1. IInv => OwnRole
  BY DEF IInv
<1>2. QED
  BY <1>1, Invariance, PTL

\* Credentials that are handed out last for the margin less the skew.
THEOREM CredentialsLast == Spec => []Usable
<1>1. IInv => Usable
  BY DEF IInv
<1>2. QED
  BY <1>1, Invariance, PTL

\* Answers out of order cost at most one timeout of a session's life.
THEOREM SessionsAreReused == Spec => SessionsReused
<1>1. IInv /\ [Next]_vars => [SparesRequests]_vars
  <2> SUFFICES ASSUME IInv, Next, NEW c \in Calls, Asks(c), NEW k \in Known(c)
      PROVE k.expires - Clock <= Margin + Timeout
    BY DEF SparesRequests
  <2>0. call \in [Calls -> CallStates]
    BY DEF IInv, TypeOK
  <2>1. Ask(c)
    <3>1. ASSUME NEW d \in Calls,
                 UseDefault(d) \/ Reject(d) \/ UseCached(d) \/ Issue(d) \/ Receive(d)
                    \/ Abort(d) \/ Fail(d)
          PROVE FALSE
      BY <2>0, <3>1 DEF Asks, UseDefault, Reject, UseCached, Issue, Receive, Abort, Fail, Advance
    <3>2. ASSUME NEW d \in Calls, Ask(d) PROVE d = c
      BY <2>0, <3>2 DEF Asks, Ask, Advance
    <3>3. ~Tick
      BY DEF Asks, Tick
    <3>4. QED
      BY <3>1, <3>2, <3>3 DEF Next
  <2>2. resolverOf[c] \in Resolvers /\ call[c].role \in Roles /\ call[c].id \in Ids
    BY <2>0 DEF CallStates, IInv, TypeOK
  <2>3. /\ Cached(c) # NoCredentials /\ k.expires <= Cached(c).expires + Timeout
        /\ Cached(c).expires \in Nat /\ k.expires \in Nat
    BY <2>2, CacheTyped DEF IInv, TypeOK, NearBest, Known, Cached, Credentials
  <2>4. Cached(c).expires - Clock <= Margin
    BY <2>1, <2>3 DEF Ask, IsCached, NearExpiry
  <2>5. Clock \in Int /\ Margin \in Nat /\ Timeout \in Nat
    BY TimesAssumption DEF IInv, TypeOK, Skews, Clock
  <2>6. QED
    BY <2>3, <2>4, <2>5
<1>2. QED
  BY <1>1, Invariance, PTL DEF Spec, SessionsReused

-----------------------------------------------------------------------------
(* The resolver implements RoleSessions.                                   *)

\* What is seen of a call.
LEMMA SeenOf ==
    ASSUME NEW c \in Calls
    PROVE  /\ SeenAsked[c].role = call[c].role /\ SeenAsked[c].id = call[c].id
           /\ SeenAsked[c].resolver = resolverOf[c]
           /\ SeenOutcomes[c] = SeenOutcome(c)
           /\ SeenOutcomes[c].outcome = "waiting" <=> call[c].phase \notin {"done", "failed"}
BY DEF SeenAsked, SeenOutcomes, SeenOutcome

\* A step of a call that does not end it is not seen.
LEMMA Unseen ==
    ASSUME IInv, NEW c \in Calls, NEW phase, NEW t, NEW k, NEW h,
           Advance(c, phase, t, k, h), call[c].phase \notin {"done", "failed"},
           phase \notin {"done", "failed"}, UNCHANGED resolverOf
    PROVE  SeenAsked' = SeenAsked /\ SeenOutcomes' = SeenOutcomes
<1>1. call \in [Calls -> CallStates]
  BY DEF IInv, TypeOK
<1>2. /\ call'[c].phase = phase /\ call'[c].role = call[c].role /\ call'[c].id = call[c].id
      /\ \A d \in Calls : d # c => call'[d] = call[d]
  BY <1>1 DEF Advance
<1>3. ASSUME NEW d \in Calls
      PROVE  SeenOutcome(d)' = SeenOutcome(d) /\ call'[d].role = call[d].role
                /\ call'[d].id = call[d].id
  <2>1. CASE d = c
    BY <2>1, <1>2 DEF SeenOutcome
  <2>2. CASE d # c
    BY <2>2, <1>2 DEF SeenOutcome
  <2>3. QED
    BY <2>1, <2>2
<1>4. SeenAsked' = SeenAsked
  BY <1>3 DEF SeenAsked
<1>5. SeenOutcomes' = SeenOutcomes
  BY <1>3 DEF SeenOutcomes
<1>6. QED
  BY <1>4, <1>5

\* A call that ends well is given what it has; one that fails is refused.
LEMMA SeenEnd ==
    ASSUME IInv, NEW c \in Calls, NEW phase \in {"done", "failed"}, NEW t, NEW k, NEW h,
           Advance(c, phase, t, k, h), call[c].phase \notin {"done", "failed"},
           phase = "failed" => k = NoCredentials, UNCHANGED resolverOf
    PROVE  /\ SeenAsked' = SeenAsked
           /\ Sessions!Answer(c, IF phase = "done" THEN "given" ELSE "refused", k)
<1> DEFINE new == [outcome |-> IF phase = "done" THEN "given" ELSE "refused", session |-> k]
<1>1. call \in [Calls -> CallStates]
  BY DEF IInv, TypeOK
<1>2. /\ call'[c].phase = phase /\ call'[c].role = call[c].role /\ call'[c].id = call[c].id
      /\ call'[c].credentials = k
      /\ \A d \in Calls : d # c => call'[d] = call[d]
  BY <1>1 DEF Advance
<1>3. \A d \in Calls : call'[d].role = call[d].role /\ call'[d].id = call[d].id
  BY <1>2
<1>4. SeenAsked' = SeenAsked
  BY <1>3 DEF SeenAsked
<1>5. SeenOutcome(c)' = new
  BY <1>2 DEF SeenOutcome
<1>6. \A d \in Calls : d # c => SeenOutcome(d)' = SeenOutcome(d)
  BY <1>2 DEF SeenOutcome
<1> HIDE DEF new
<1>7. SeenOutcomes' = [SeenOutcomes EXCEPT ![c] = new]
  <2>1. SeenOutcomes' = [d \in Calls |-> SeenOutcome(d)']
    BY DEF SeenOutcomes
  <2>2. [SeenOutcomes EXCEPT ![c] = new] = [d \in Calls |-> IF d = c THEN new ELSE SeenOutcome(d)]
    BY DEF SeenOutcomes
  <2> HIDE DEF SeenOutcome
  <2>3. QED
    BY <1>5, <1>6, <2>1, <2>2
<1>8. SeenOutcomes[c].outcome = "waiting"
  BY SeenOf
<1>9. QED
  BY <1>4, <1>7, <1>8 DEF Sessions!Answer, new

\* A refusal is one of the abstract specification, for a call that names a role.
LEMMA RefusalIsOne ==
    ASSUME IInv, NEW c \in Calls, NEW t, Advance(c, "failed", t, NoCredentials, 0),
           call[c].phase \notin {"done", "failed"}, call[c].role # DefaultRole,
           UNCHANGED <<now, resolverOf, received>>
    PROVE  Sessions!Refuse(c)
<1>1. SeenAsked' = SeenAsked /\ Sessions!Answer(c, "refused", NoCredentials)
  BY SeenEnd
<1>2. NoCredentials = Sessions!Own
  BY DEF NoCredentials, Session, Sessions!Own, Sessions!Session
<1>3. QED
  BY <1>1, <1>2, SeenOf DEF Sessions!Refuse

LEMMA UseDefaultIsOne ==
    ASSUME IInv, NEW c \in Calls, UseDefault(c)
    PROVE  Sessions!GiveOwn(c)
<1>1. /\ call[c].phase = "ready" /\ call[c].role = DefaultRole
      /\ UNCHANGED <<now, resolverOf, received>>
      /\ Advance(c, "done", 0, DefaultCredentials, now)
  BY DEF UseDefault, Starting
<1>2. SeenAsked' = SeenAsked /\ Sessions!Answer(c, "given", DefaultCredentials)
  BY <1>1, SeenEnd
<1>3. DefaultCredentials = Sessions!Own
  BY DEF DefaultCredentials, NoCredentials, Session, Sessions!Own, Sessions!Session
<1>4. QED
  BY <1>1, <1>2, <1>3, SeenOf DEF Sessions!GiveOwn

LEMMA UseCachedIsOne ==
    ASSUME IInv, NEW c \in Calls, UseCached(c)
    PROVE  Sessions!Reuse(c)
<1>1. /\ call[c].phase = "ready" /\ call[c].role \in ValidRoles
      /\ UNCHANGED <<now, resolverOf, received>>
      /\ Advance(c, "done", 0, Cached(c), now) /\ IsCached(c)
  BY DEF UseCached, Starting
<1>2. /\ call[c].role \in Roles /\ call[c].id \in Ids /\ resolverOf[c] \in Resolvers
      /\ call[c].role # DefaultRole
  BY <1>1, RolesAssumption DEF IInv, TypeOK, CallStates
<1>3. /\ Cached(c).role = call[c].role /\ Cached(c).id = call[c].id
      /\ Cached(c) \in received[resolverOf[c]] /\ Cached(c).expires \in Nat
  BY <1>1, <1>2, CacheTyped DEF IInv, CacheOwn, Cached, IsCached
<1>4. Cached(c).expires - (now + skew) > Margin
  BY <1>1, <1>3, TimesAssumption DEF IsCached, NearExpiry, Clock, IInv, TypeOK, Skews
<1>5. Cached(c).expires - now > Margin - MaxSkew
  BY <1>3, <1>4, TimesAssumption DEF IInv, TypeOK, Skews
<1>6. SeenAsked' = SeenAsked /\ Sessions!Answer(c, "given", Cached(c))
  BY <1>1, SeenEnd
<1>7. Sessions!Suits(c, Cached(c))
  BY <1>3, <1>5, SeenOf DEF Sessions!Suits
<1>8. QED
  BY <1>1, <1>2, <1>3, <1>6, <1>7, SeenOf DEF Sessions!Reuse

LEMMA ReceiveIsOne ==
    ASSUME IInv, NEW c \in Calls, Receive(c)
    PROVE  Sessions!Grant(c)
<1> DEFINE k == call[c].credentials
<1>1. /\ call[c].phase = "issued" /\ UNCHANGED <<now, resolverOf>>
      /\ received' = [received EXCEPT ![resolverOf[c]] = @ \cup {k}]
      /\ Advance(c, "done", call[c].askedAt, k, now)
  BY DEF Receive
<1>2. /\ call[c].role \in ValidRoles /\ now <= call[c].askedAt + Timeout
      /\ k.role = call[c].role /\ k.id = call[c].id
      /\ call[c].askedAt + Lifetime <= k.expires /\ k.expires <= now + Lifetime
  BY <1>1 DEF IInv, PendingInTime, Pending
<1>3. call[c].role # DefaultRole
  BY <1>2, RolesAssumption
<1>4. /\ k \in Credentials /\ k.expires \in Nat /\ call[c].askedAt \in Nat
      /\ now \in 0..MaxTime
  BY DEF IInv, TypeOK, CallStates, Credentials
<1>5. k = Sessions!Session(k.role, k.id, k.expires)
  BY <1>4 DEF Credentials, Sessions!Session
<1>6. k.expires \in 0..(MaxTime + Lifetime) /\ k.expires - now > Margin - MaxSkew
  BY <1>2, <1>4, TimesAssumption
<1>7. SeenAsked' = SeenAsked /\ Sessions!Answer(c, "given", k)
  BY <1>1, SeenEnd
<1>8. Sessions!Suits(c, k)
  BY <1>2, <1>6, SeenOf DEF Sessions!Suits
<1>9. /\ SeenAsked[c].role = k.role /\ SeenAsked[c].id = k.id /\ SeenAsked[c].role # DefaultRole
      /\ SeenAsked[c].resolver = resolverOf[c]
  BY <1>2, <1>3, SeenOf
<1> HIDE DEF k
<1>10. QED
  BY <1>1, <1>5, <1>6, <1>7, <1>8, <1>9 DEF Sessions!Grant

\* What is initially there.
LEMMA InitIsOne == Init => Sessions!Init
<1> SUFFICES ASSUME Init PROVE Sessions!Init
  OBVIOUS
<1>1. /\ now = 0 /\ received = [r \in Resolvers |-> {}]
      /\ call \in [Calls -> {[phase |-> "ready", role |-> role, id |-> id, askedAt |-> 0,
                              credentials |-> NoCredentials, handedAt |-> 0] :
                             role \in Roles, id \in Ids}]
      /\ resolverOf \in [Calls -> Resolvers]
  BY DEF Init
<1>2. ASSUME NEW c \in Calls
      PROVE  call[c].phase = "ready" /\ call[c].role \in Roles /\ call[c].id \in Ids
  BY <1>1
<1>3. SeenAsked \in [Calls -> [role : Roles, id : Ids, resolver : Resolvers]]
  BY <1>1, <1>2 DEF SeenAsked
<1>4. SeenOutcomes = [c \in Calls |-> [outcome |-> "waiting", session |-> Sessions!Own]]
  BY <1>2 DEF SeenOutcomes, SeenOutcome, NoCredentials, Session, Sessions!Own, Sessions!Session
<1>5. QED
  BY <1>1, <1>3, <1>4 DEF Sessions!Init

LEMMA StepIsOne == IInv /\ [Next]_vars => [Sessions!Next]_Sessions!vars
<1> SUFFICES ASSUME IInv, [Next]_vars PROVE [Sessions!Next]_Sessions!vars
  OBVIOUS
<1>1. ASSUME NEW c \in Calls, UseDefault(c) PROVE Sessions!Next
  BY <1>1, UseDefaultIsOne DEF Sessions!Next
<1>2. ASSUME NEW c \in Calls, UseCached(c) PROVE Sessions!Next
  BY <1>2, UseCachedIsOne DEF Sessions!Next
<1>3. ASSUME NEW c \in Calls, Receive(c) PROVE Sessions!Next
  BY <1>3, ReceiveIsOne DEF Sessions!Next
<1>4. ASSUME NEW c \in Calls, Reject(c) PROVE Sessions!Next
  BY <1>4, RefusalIsOne DEF Sessions!Next, Reject, Starting
<1>5. ASSUME NEW c \in Calls, Abort(c) \/ Fail(c) PROVE Sessions!Next
  <2>1. /\ Pending(c) /\ UNCHANGED <<now, resolverOf, received>>
        /\ Advance(c, "failed", call[c].askedAt, NoCredentials, 0)
    BY <1>5 DEF Abort, Fail
  <2>2. call[c].role # DefaultRole
    BY <2>1, RolesAssumption DEF IInv, PendingInTime
  <2>3. QED
    BY <2>1, <2>2, RefusalIsOne DEF Sessions!Next, Pending
<1>6. ASSUME NEW c \in Calls, Ask(c) \/ Issue(c) PROVE UNCHANGED Sessions!vars
  BY <1>6, Unseen DEF Ask, Issue, Starting, Sessions!vars
<1>7. ASSUME Tick PROVE Sessions!Next
  BY <1>7 DEF Tick, Sessions!Next, Sessions!Pass, SeenAsked, SeenOutcomes, SeenOutcome
<1>8. ASSUME UNCHANGED vars PROVE UNCHANGED Sessions!vars
  BY <1>8 DEF vars, Sessions!vars, SeenAsked, SeenOutcomes, SeenOutcome
<1>9. QED
  BY <1>1, <1>2, <1>3, <1>4, <1>5, <1>6, <1>7, <1>8 DEF Next

\* createCredentialResolver keeps what RoleSessions promises, for any calls,
\* resolvers, roles and durations: what is cached and what is under way is seen of
\* no one who asks.
THEOREM SessionsAreKept == Spec => SessionsKept
<1>1. Init => Sessions!Init
  BY InitIsOne
<1>2. IInv /\ [Next]_vars => [Sessions!Next]_Sessions!vars
  BY StepIsOne
<1>3. QED
  BY <1>1, <1>2, Invariance, PTL DEF Spec, SessionsKept, Sessions!Spec
=============================================================================
