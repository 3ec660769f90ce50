------------------------------ MODULE RateLimit ------------------------------
(***************************************************************************)
(* The request throttle in front of /mcp (src/security/rate-limit.ts).     *)
(*                                                                         *)
(* Every isolate of the Worker that receives a request asks a Durable      *)
(* Object, one per caller identity, whether the request fits the fixed     *)
(* window.  The Durable Object has no clock of its own: it evaluates the   *)
(* window with the nowMs, the limit and the window length that the asking  *)
(* isolate put in the payload.  Isolates' clocks differ, payloads arrive   *)
(* late and out of order, two deployed versions may disagree on the        *)
(* limits, and an answer can be lost after the window was stored.          *)
(***************************************************************************)
EXTENDS Integers

CONSTANTS
    Requests,        \* the requests that arrive at /mcp
    Tokens,          \* bearer tokens, as the callers present them
    Addresses,       \* client addresses (CF-Connecting-IP or X-Forwarded-For)
    NoToken,         \* the request carries no bearer token
    Configs,         \* the [maxRequests, windowSeconds] pairs ever deployed
    TicksPerSecond,  \* ticks of the model's clock per second; 1000 in the code
    MaxSkew,         \* an isolate's clock is at most this far from real time
    MaxDelay,        \* a payload is evaluated at most this long after it is sent
    MaxTime          \* bound of a run: real time stops here

\* validateRateLimitConfig admits positive integers only (parsePositiveInteger).
ASSUME ConfigsAssumption ==
    Configs \subseteq [maxRequests : Nat \ {0}, windowSeconds : Nat \ {0}]

ASSUME ClockAssumption ==
    /\ TicksPerSecond \in Nat \ {0}
    /\ MaxSkew \in Nat
    /\ MaxDelay \in Nat
    /\ MaxTime \in Nat

ASSUME NoTokenAssumption == NoToken \notin Tokens

VARIABLES
    now,        \* real time
    config,     \* the configuration of the version now receiving requests
    req,        \* each request: its phase and what was computed for it
    window,     \* the window each Durable Object has stored
    openedAt,   \* history: the real time the stored window was opened
    openedFor,  \* history: the length, in ticks, it was opened with
    admitted    \* history: how many requests the stored window let through

vars == <<now, config, req, window, openedAt, openedFor, admitted>>

-----------------------------------------------------------------------------
(* Identities and windows.                                                 *)

\* One Durable Object per identity: the token when there is one, otherwise
\* the client address.
Identities == ({"token"} \X Tokens) \cup ({"ip"} \X Addresses)

IdentityAlwaysToken(token, address) == <<"token", token>>

Identity(token, address) ==
    IF token # NoToken THEN <<"token", token>> ELSE <<"ip", address>>

\* storage.get found nothing.
NoWindow == [count |-> 0, resetAt |-> 0]

Windows == [count : Nat, resetAt : Int]

Payloads == [maxRequests : Nat \ {0}, windowSeconds : Nat \ {0}, at : Int]

WindowTicks(c) == c.windowSeconds * TicksPerSecond

FloorSeconds(ticks) == ticks \div TicksPerSecond

CeilSeconds(ticks) == (ticks + TicksPerSecond - 1) \div TicksPerSecond

SecondsUntil(resetAt, at) ==
    LET s == CeilSeconds(resetAt - at) IN IF s > 1 THEN s ELSE 1

\* There is no stored window, or it no longer covers the payload's time.
Expired(w, p) == w.count = 0 \/ w.resetAt <= p.at

NextWindowShortened(w, p) ==
    IF Expired(w, p)
    THEN [count |-> 1, resetAt |-> p.at + WindowTicks(p)]
    ELSE [count |-> w.count + 1,
          resetAt |-> IF w.resetAt < p.at + WindowTicks(p)
                      THEN w.resetAt ELSE p.at + WindowTicks(p)]

NextWindowSliding(w, p) ==
    IF Expired(w, p)
    THEN [count |-> 1, resetAt |-> p.at + WindowTicks(p)]
    ELSE [count |-> w.count + 1, resetAt |-> w.resetAt + WindowTicks(p)]

\* evaluateRateLimitWindow, first result: the window stored afterwards.
NextWindow(w, p) ==
    IF Expired(w, p)
    THEN [count |-> 1, resetAt |-> p.at + WindowTicks(p)]
    ELSE [count |-> w.count + 1, resetAt |-> w.resetAt]

AllowedBeforeCounting(w, p) == Expired(w, p) \/ w.count <= p.maxRequests

Allowed(w, p) == Expired(w, p) \/ w.count + 1 <= p.maxRequests

RetryAfter(w, p) ==
    IF Expired(w, p) THEN p.windowSeconds ELSE SecondsUntil(w.resetAt, p.at)

-----------------------------------------------------------------------------
(* Requests.                                                               *)

Phases == {"waiting", "asking", "allowed", "limited", "unavailable"}

IdleRequest ==
    [phase |-> "waiting", who |-> <<>>, payload |-> <<>>,
     sentAt |-> 0, retryAfter |-> 0]

Init ==
    /\ now = 0
    /\ config \in Configs
    /\ req = [r \in Requests |-> IdleRequest]
    /\ window = [i \in Identities |-> NoWindow]
    /\ openedAt = [i \in Identities |-> 0]
    /\ openedFor = [i \in Identities |-> 0]
    /\ admitted = [i \in Identities |-> 0]

\* enforceRateLimit up to stub.fetch: the identity, then the payload stamped
\* with the isolate's own Date.now().
Ask(r) ==
    /\ req[r].phase = "waiting"
    /\ \E token \in Tokens \cup {NoToken}, address \in Addresses,
          skew \in -MaxSkew..MaxSkew :
          req' = [req EXCEPT ![r] =
                    [phase |-> "asking",
                     who |-> Identity(token, address),
                     payload |-> [maxRequests |-> config.maxRequests,
                                  windowSeconds |-> config.windowSeconds,
                                  at |-> now + skew],
                     sentAt |-> now, retryAfter |-> 0]]
    /\ UNCHANGED <<now, config, window, openedAt, openedFor, admitted>>

\* What one evaluation in the Durable Object does to its storage.  Reading,
\* evaluating and storing is one step: the object's input gate holds back
\* other events while it waits for its storage.
Evaluate(r) ==
    LET i == req[r].who
        p == req[r].payload
        w == window[i]
    IN  /\ window' = [window EXCEPT ![i] = NextWindow(w, p)]
        /\ openedAt' = [openedAt EXCEPT ![i] = IF Expired(w, p) THEN now ELSE @]
        /\ openedFor' = [openedFor EXCEPT ![i] =
                           IF Expired(w, p) THEN WindowTicks(p) ELSE @]

\* enforceRateLimit returns: null when allowed, else a 429 that carries
\* Retry-After, or a 503.  The payload is forgotten.
Finish(r, phase, retryAfter) ==
    req' = [req EXCEPT ![r] =
              [phase |-> phase, who |-> req[r].who, payload |-> <<>>,
               sentAt |-> 0, retryAfter |-> retryAfter]]

\* The Durable Object answers and enforceRateLimit passes the decision on.
Decide(r) ==
    LET i == req[r].who
        p == req[r].payload
        w == window[i]
        ok == Allowed(w, p)
    IN  /\ req[r].phase = "asking"
        /\ Evaluate(r)
        /\ admitted' = [admitted EXCEPT ![i] =
                          (IF Expired(w, p) THEN 0 ELSE @) + (IF ok THEN 1 ELSE 0)]
        /\ Finish(r, IF ok THEN "allowed" ELSE "limited",
                  IF ok THEN 0 ELSE RetryAfter(w, p))
        /\ UNCHANGED <<now, config>>

\* The window is stored but the answer does not reach the isolate: the catch
\* of enforceRateLimit answers 503 and the request has been counted.
LoseAnswer(r) ==
    LET i == req[r].who
    IN  /\ req[r].phase = "asking"
        /\ Evaluate(r)
        /\ admitted' = [admitted EXCEPT ![i] =
                          IF Expired(window[i], req[r].payload) THEN 0 ELSE @]
        /\ Finish(r, "unavailable", 0)
        /\ UNCHANGED <<now, config>>

\* The Durable Object cannot be reached at all: 503, nothing is counted.
FailToAsk(r) ==
    /\ req[r].phase = "asking"
    /\ Finish(r, "unavailable", 0)
    /\ UNCHANGED <<now, config, window, openedAt, openedFor, admitted>>

\* Another version, with other limits, starts to receive the requests.
\* Payloads already sent keep the limits of the version that sent them, and
\* the stored windows stay.
Deploy ==
    /\ \E c \in Configs \ {config} : config' = c
    /\ UNCHANGED <<now, req, window, openedAt, openedFor, admitted>>

\* Real time passes, but no payload is under way for longer than MaxDelay.
Tick ==
    /\ now < MaxTime
    /\ \A r \in Requests :
          req[r].phase = "asking" => now < req[r].sentAt + MaxDelay
    /\ now' = now + 1
    /\ UNCHANGED <<config, req, window, openedAt, openedFor, admitted>>

Next ==
    \/ \E r \in Requests : Ask(r) \/ Decide(r) \/ LoseAnswer(r) \/ FailToAsk(r)
    \/ Deploy
    \/ Tick

Spec == Init /\ [][Next]_vars

-----------------------------------------------------------------------------
(* Properties.                                                             *)

RequestStates ==
    [phase : Phases, who : Identities \cup {<<>>}, payload : Payloads \cup {<<>>},
     sentAt : Nat, retryAfter : Nat]

\* What every state looks like; a request that is asking has an identity and a payload.
TypeOK ==
    /\ now \in Nat
    /\ config \in Configs
    /\ req \in [Requests -> RequestStates]
    /\ \A r \in Requests :
          req[r].phase = "asking" => /\ req[r].who \in Identities
                                     /\ req[r].payload \in Payloads
    /\ window \in [Identities -> Windows]
    /\ openedAt \in [Identities -> Nat]
    /\ openedFor \in [Identities -> Nat]
    /\ admitted \in [Identities -> Nat]

\* However payloads are delayed, reordered or stamped, and whichever versions
\* sent them, a window lets through no more requests than the most generous
\* limit ever deployed.
AdmittedWithinLimit ==
    \A i \in Identities :
        admitted[i] > 0 => \E c \in Configs : admitted[i] <= c.maxRequests

\* An isolate whose clock runs ahead cannot shut an identity out for good: a
\* stored window ends at most one window length and one skew after now.
LockoutBounded ==
    \A i \in Identities :
        window[i].count > 0 =>
            \E c \in Configs : window[i].resetAt <= now + MaxSkew + WindowTicks(c)

\* The count of a stored window goes back to one only when it is reopened.
Reopened(i) ==
    /\ window[i].count > 0
    /\ window'[i] # window[i]
    /\ window'[i].count = 1

\* A window is not reopened early.  When an identity's next window is opened,
\* the previous one has been open, in real time, for the length it was opened
\* with, less at most the skew of the two clocks and the delay of the payload
\* that opened it: a request of a version with a shorter window does not end it.
WindowsSpaced ==
    [][\A i \in Identities :
          Reopened(i) =>
             now >= openedAt[i] + openedFor[i] - MaxDelay - 2 * MaxSkew]_vars

\* A caller that was limited and waits for Retry-After on the same clock comes
\* back after the window it was limited by has ended.
RetryAfterSuffices ==
    [][\A r \in Requests :
          req[r].phase = "asking" /\ req'[r].phase = "limited" =>
             req[r].payload.at + req'[r].retryAfter * TicksPerSecond
                >= window'[req[r].who].resetAt]_vars
=============================================================================
