--------------------------- MODULE RateLimitProofs ----------------------------
(***************************************************************************)
(* Theorems about RateLimit, for every set of requests, identities and     *)
(* configurations and every bound on skew and delay.                       *)
(***************************************************************************)
EXTENDS RateLimit, TLAPS

\* A payload under way was stamped within the skew of the time it was sent, is
\* not overdue, and carries the limits of some deployed version.
PayloadsFresh ==
    \A r \in Requests :
        req[r].phase = "asking" =>
            /\ req[r].sentAt <= now
            /\ now <= req[r].sentAt + MaxDelay
            /\ req[r].payload.at <= req[r].sentAt + MaxSkew
            /\ req[r].payload.at >= req[r].sentAt - MaxSkew
            /\ \E c \in Configs :
                  /\ req[r].payload.maxRequests = c.maxRequests
                  /\ req[r].payload.windowSeconds = c.windowSeconds

\* The end of a stored window lies the length it was opened with, that of a
\* deployed version, after it was opened, give or take the skew and the delay of
\* the payload that opened it.
WindowsAnchored ==
    \A i \in Identities :
        window[i].count > 0 =>
            /\ openedAt[i] <= now
            /\ \E c \in Configs : openedFor[i] = WindowTicks(c)
            /\ window[i].resetAt <= openedAt[i] + MaxSkew + openedFor[i]
            /\ window[i].resetAt >= openedAt[i] + openedFor[i] - MaxDelay - MaxSkew

\* Every admission has been counted.
AdmissionsCounted == \A i \in Identities : admitted[i] <= window[i].count

IInv ==
    /\ TypeOK
    /\ PayloadsFresh
    /\ WindowsAnchored
    /\ AdmissionsCounted
    /\ AdmittedWithinLimit

-----------------------------------------------------------------------------
(* The operators of the evaluation.                                        *)

\* A window length is a number of ticks.
LEMMA WindowTicksType ==
    ASSUME NEW c, c.windowSeconds \in Nat
    PROVE  WindowTicks(c) \in Nat
BY ClockAssumption DEF WindowTicks

\* The stored window, as evaluateRateLimitWindow leaves it.
LEMMA NextWindowType ==
    ASSUME NEW w \in Windows, NEW p \in Payloads
    PROVE  /\ NextWindow(w, p) \in Windows
           /\ NextWindow(w, p).count > 0
           /\ Expired(w, p) => /\ NextWindow(w, p).count = 1
                               /\ NextWindow(w, p).resetAt = p.at + WindowTicks(p)
           /\ ~Expired(w, p) => /\ w.count > 0
                                /\ NextWindow(w, p).count = w.count + 1
                                /\ NextWindow(w, p).resetAt = w.resetAt
<1>1. WindowTicks(p) \in Nat
  BY WindowTicksType DEF Payloads
<1>2. QED
  BY <1>1 DEF NextWindow, Expired, Windows, Payloads

\* Rounding up to whole seconds loses no tick.
LEMMA CeilSecondsCovers ==
    ASSUME NEW x \in Int
    PROVE  /\ CeilSeconds(x) \in Int
           /\ CeilSeconds(x) * TicksPerSecond >= x
<1> DEFINE K == TicksPerSecond
           q == (x + K - 1) \div K
<1>1. K \in Nat /\ K > 0
  BY ClockAssumption
<1>2. q \in Int /\ q * K + ((x + K - 1) % K) = x + K - 1 /\ (x + K - 1) % K <= K - 1
  BY <1>1
<1>3. QED
  BY <1>1, <1>2 DEF CeilSeconds

\* Retry-After is a number of seconds.
LEMMA RetryAfterType ==
    ASSUME NEW w \in Windows, NEW p \in Payloads
    PROVE  RetryAfter(w, p) \in Nat
<1>1. CeilSeconds(w.resetAt - p.at) \in Int
  BY CeilSecondsCovers DEF Windows, Payloads
<1>2. QED
  BY <1>1 DEF RetryAfter, SecondsUntil, Windows, Payloads

-----------------------------------------------------------------------------
(* The inductive invariant.                                                *)

\* What a request that finishes leaves behind.
LEMMA FinishType ==
    ASSUME TypeOK, PayloadsFresh, NEW r \in Requests, req[r].phase = "asking",
           NEW phase \in Phases \ {"asking"}, NEW n \in Nat, Finish(r, phase, n)
    PROVE  /\ req' \in [Requests -> RequestStates]
           /\ req'[r].phase = phase
           /\ req'[r].retryAfter = n
           /\ \A s \in Requests : s # r => req'[s] = req[s]
<1> DEFINE new == [phase |-> phase, who |-> req[r].who, payload |-> <<>>,
                   sentAt |-> 0, retryAfter |-> n]
<1>1. new \in RequestStates
  BY DEF TypeOK, RequestStates
<1>2. req' = [req EXCEPT ![r] = new]
  BY DEF Finish
<1>3. QED
  BY <1>1, <1>2 DEF TypeOK

\* The initial state satisfies the invariant.
LEMMA InitIInv == Init => IInv
<1> SUFFICES ASSUME Init PROVE IInv
  OBVIOUS
<1>1. TypeOK
  BY DEF Init, TypeOK, IdleRequest, RequestStates, Phases, NoWindow, Windows
<1>2. PayloadsFresh /\ WindowsAnchored /\ AdmissionsCounted /\ AdmittedWithinLimit
  BY DEF Init, PayloadsFresh, WindowsAnchored, AdmissionsCounted,
         AdmittedWithinLimit, IdleRequest, NoWindow
<1>3. QED
  BY <1>1, <1>2 DEF IInv

\* Sending a payload touches no window.
LEMMA AskIInv ==
    ASSUME IInv, NEW r \in Requests, Ask(r)
    PROVE  IInv'
<1> USE DEF IInv
<1>1. PICK token \in Tokens \cup {NoToken}, address \in Addresses,
           skew \in -MaxSkew..MaxSkew :
        req' = [req EXCEPT ![r] =
                  [phase |-> "asking",
                   who |-> Identity(token, address),
                   payload |-> [maxRequests |-> config.maxRequests,
                                windowSeconds |-> config.windowSeconds,
                                at |-> now + skew],
                   sentAt |-> now, retryAfter |-> 0]]
  BY DEF Ask
<1> DEFINE p == [maxRequests |-> config.maxRequests,
                 windowSeconds |-> config.windowSeconds,
                 at |-> now + skew]
           new == [phase |-> "asking", who |-> Identity(token, address),
                   payload |-> p, sentAt |-> now, retryAfter |-> 0]
<1>2. skew \in Int /\ -MaxSkew <= skew /\ skew <= MaxSkew
  BY ClockAssumption
<1>3. Identity(token, address) \in Identities
  BY DEF Identity, Identities
<1>4. p \in Payloads
  BY <1>2, ConfigsAssumption DEF TypeOK, Payloads
<1>5. new \in RequestStates
  BY <1>3, <1>4 DEF RequestStates, Phases, TypeOK
<1>6. req' = [req EXCEPT ![r] = new]
  BY <1>1
<1>7. /\ req' \in [Requests -> RequestStates]
      /\ req'[r] = new
      /\ \A s \in Requests : s # r => req'[s] = req[s]
  BY <1>5, <1>6 DEF TypeOK
<1>8. UNCHANGED <<now, config, window, openedAt, openedFor, admitted>>
  BY DEF Ask
<1>9. TypeOK'
  BY <1>3, <1>4, <1>7, <1>8 DEF TypeOK
<1>10. PayloadsFresh'
  BY <1>2, <1>7, <1>8, ClockAssumption DEF PayloadsFresh, TypeOK
<1>11. (WindowsAnchored /\ AdmissionsCounted /\ AdmittedWithinLimit)'
  BY <1>8 DEF WindowsAnchored, AdmissionsCounted, AdmittedWithinLimit
<1>12. QED
  BY <1>9, <1>10, <1>11

\* What an evaluation does to the windows, whatever becomes of its answer.
LEMMA EvaluateAnchors ==
    ASSUME IInv, NEW r \in Requests, req[r].phase = "asking", Evaluate(r), now' = now
    PROVE  /\ WindowsAnchored'
           /\ window' \in [Identities -> Windows]
           /\ openedAt' \in [Identities -> Nat]
        /\ openedFor' \in [Identities -> Nat]
           /\ openedFor' \in [Identities -> Nat]
<1> USE DEF IInv
<1> DEFINE i == req[r].who
           p == req[r].payload
           w == window[i]
<1>1. i \in Identities /\ p \in Payloads /\ w \in Windows
  BY DEF TypeOK
<1>2. /\ window' = [window EXCEPT ![i] = NextWindow(w, p)]
      /\ openedAt' = [openedAt EXCEPT ![i] = IF Expired(w, p) THEN now ELSE openedAt[i]]
      /\ openedFor' = [openedFor EXCEPT ![i] =
                         IF Expired(w, p) THEN WindowTicks(p) ELSE openedFor[i]]
  BY DEF Evaluate
<1>3. /\ window' \in [Identities -> Windows]
      /\ openedAt' \in [Identities -> Nat]
      /\ openedFor' \in [Identities -> Nat]
  <2>1. WindowTicks(p) \in Nat
    BY <1>1, WindowTicksType DEF Payloads
  <2>2. QED
    BY <1>1, <1>2, <2>1, NextWindowType DEF TypeOK
<1>4. ASSUME NEW j \in Identities, window'[j].count > 0
      PROVE  /\ openedAt'[j] <= now'
             /\ \E c \in Configs : openedFor'[j] = WindowTicks(c)
             /\ window'[j].resetAt <= openedAt'[j] + MaxSkew + openedFor'[j]
             /\ window'[j].resetAt >=
                   openedAt'[j] + openedFor'[j] - MaxDelay - MaxSkew
  <2>1. CASE j # i
    BY <1>1, <1>2, <1>4, <2>1 DEF WindowsAnchored, TypeOK
  <2>2. CASE j = i /\ ~Expired(w, p)
    <3>1. /\ w.count > 0
          /\ window'[i].resetAt = w.resetAt
          /\ openedAt'[i] = openedAt[i]
          /\ openedFor'[i] = openedFor[i]
      BY <1>1, <1>2, <2>2, NextWindowType DEF TypeOK
    <3>2. QED
      BY <1>1, <2>2, <3>1 DEF WindowsAnchored
  <2>3. CASE j = i /\ Expired(w, p)
    <3>1. /\ window'[i].resetAt = p.at + WindowTicks(p)
          /\ openedAt'[i] = now
          /\ openedFor'[i] = WindowTicks(p)
      BY <1>1, <1>2, <2>3, NextWindowType DEF TypeOK
    <3>2. PICK c \in Configs : p.maxRequests = c.maxRequests
                              /\ p.windowSeconds = c.windowSeconds
      BY DEF PayloadsFresh
    <3>3. WindowTicks(p) = WindowTicks(c) /\ WindowTicks(p) \in Nat
      BY <1>1, <3>2, WindowTicksType DEF WindowTicks, Payloads
    <3>4. now \in Nat /\ p.at \in Int /\ req[r].sentAt \in Nat
      BY <1>1 DEF TypeOK, Payloads, RequestStates
    <3>5. p.at <= now + MaxSkew /\ p.at >= now - MaxDelay - MaxSkew
      <4>1. /\ req[r].sentAt <= now
            /\ now <= req[r].sentAt + MaxDelay
            /\ p.at <= req[r].sentAt + MaxSkew
            /\ p.at >= req[r].sentAt - MaxSkew
        BY DEF PayloadsFresh
      <4>2. QED
        BY <3>4, <4>1, ClockAssumption
    <3>6. /\ window'[i].resetAt <= openedAt'[i] + MaxSkew + openedFor'[i]
          /\ window'[i].resetAt >= openedAt'[i] + openedFor'[i] - MaxDelay - MaxSkew
      BY <3>1, <3>3, <3>4, <3>5, ClockAssumption
    <3>7. QED
      BY <2>3, <3>1, <3>3, <3>4, <3>6
  <2>4. QED
    BY <2>1, <2>2, <2>3
<1>5. WindowsAnchored'
  BY <1>4 DEF WindowsAnchored
<1>6. QED
  BY <1>3, <1>5

\* The count and the admissions move together.
LEMMA EvaluateCounts ==
    ASSUME IInv, NEW r \in Requests, req[r].phase = "asking", Evaluate(r),
           NEW ok \in BOOLEAN, ok => Allowed(window[req[r].who], req[r].payload),
           admitted' = [admitted EXCEPT ![req[r].who] =
              (IF Expired(window[req[r].who], req[r].payload)
               THEN 0 ELSE admitted[req[r].who]) + (IF ok THEN 1 ELSE 0)]
    PROVE  /\ admitted' \in [Identities -> Nat]
           /\ AdmissionsCounted'
           /\ AdmittedWithinLimit'
<1> USE DEF IInv
<1> DEFINE i == req[r].who
           p == req[r].payload
           w == window[i]
           before == IF Expired(w, p) THEN 0 ELSE admitted[i]
           after == before + (IF ok THEN 1 ELSE 0)
<1>1. i \in Identities /\ p \in Payloads /\ w \in Windows /\ admitted[i] \in Nat
  BY DEF TypeOK
<1>2. before \in Nat /\ after \in Nat
  BY <1>1
<1>3. window' = [window EXCEPT ![i] = NextWindow(w, p)]
  BY DEF Evaluate
<1>4. /\ admitted' \in [Identities -> Nat]
      /\ admitted'[i] = after
      /\ window'[i] = NextWindow(w, p)
      /\ \A j \in Identities : j # i => admitted'[j] = admitted[j] /\ window'[j] = window[j]
  BY <1>1, <1>2, <1>3 DEF TypeOK
<1>5. after <= NextWindow(w, p).count
  <2>1. CASE Expired(w, p)
    BY <1>1, <2>1, NextWindowType
  <2>2. CASE ~Expired(w, p)
    <3>1. admitted[i] <= w.count /\ NextWindow(w, p).count = w.count + 1
      BY <1>1, <2>2, NextWindowType DEF AdmissionsCounted
    <3>2. QED
      BY <1>1, <2>2, <3>1 DEF Windows
  <2>3. QED
    BY <2>1, <2>2
<1>6. after > 0 => \E c \in Configs : after <= c.maxRequests
  <2>1. CASE ~ok
    BY <1>1, <2>1 DEF AdmittedWithinLimit
  <2>2. CASE ok
    <3>1. PICK c \in Configs : p.maxRequests = c.maxRequests
      BY DEF PayloadsFresh
    <3>2. c.maxRequests \in Nat \ {0}
      BY ConfigsAssumption
    <3>3. CASE Expired(w, p)
      BY <2>2, <3>2, <3>3
    <3>4. CASE ~Expired(w, p)
      <4>1. w.count + 1 <= c.maxRequests /\ admitted[i] <= w.count
        BY <1>1, <2>2, <3>1, <3>4 DEF Allowed, AdmissionsCounted
      <4>2. QED
        BY <1>1, <2>2, <3>2, <3>4, <4>1 DEF Windows
    <3>5. QED
      BY <3>3, <3>4
  <2>3. QED
    BY <2>1, <2>2
<1>7. AdmissionsCounted'
  BY <1>4, <1>5 DEF AdmissionsCounted
<1>8. AdmittedWithinLimit'
  BY <1>4, <1>6 DEF AdmittedWithinLimit
<1>9. QED
  BY <1>4, <1>7, <1>8

\* Answering a request, from the window or without an answer.
LEMMA FinishIInv ==
    ASSUME IInv, NEW r \in Requests, req[r].phase = "asking",
           NEW phase \in Phases \ {"asking"}, NEW n \in Nat, Finish(r, phase, n),
           UNCHANGED <<now, config>>,
           window' \in [Identities -> Windows], openedAt' \in [Identities -> Nat],
           openedFor' \in [Identities -> Nat],
           admitted' \in [Identities -> Nat],
           WindowsAnchored', AdmissionsCounted', AdmittedWithinLimit'
    PROVE  IInv'
<1>1. /\ req' \in [Requests -> RequestStates]
      /\ req'[r].phase = phase
      /\ \A s \in Requests : s # r => req'[s] = req[s]
  BY FinishType DEF IInv
<1>2. TypeOK'
  BY <1>1 DEF IInv, TypeOK
<1>3. PayloadsFresh'
  BY <1>1 DEF IInv, PayloadsFresh
<1>4. QED
  BY <1>2, <1>3 DEF IInv

\* Every step of the specification preserves the invariant.
LEMMA NextIInv == IInv /\ [Next]_vars => IInv'
<1> SUFFICES ASSUME IInv, [Next]_vars PROVE IInv'
  OBVIOUS
<1>1. ASSUME NEW r \in Requests, Ask(r) PROVE IInv'
  BY <1>1, AskIInv
<1>2. ASSUME NEW r \in Requests, Decide(r) PROVE IInv'
  <2> DEFINE i == req[r].who
             p == req[r].payload
             w == window[i]
             ok == Allowed(w, p)
  <2>1. /\ req[r].phase = "asking"
        /\ Evaluate(r)
        /\ now' = now /\ config' = config
        /\ admitted' = [admitted EXCEPT ![i] =
                          (IF Expired(w, p) THEN 0 ELSE admitted[i])
                            + (IF ok THEN 1 ELSE 0)]
        /\ Finish(r, IF ok THEN "allowed" ELSE "limited",
                  IF ok THEN 0 ELSE RetryAfter(w, p))
    BY <1>2 DEF Decide
  <2>2. i \in Identities /\ p \in Payloads /\ w \in Windows
    BY <2>1 DEF IInv, TypeOK
  <2>3. RetryAfter(w, p) \in Nat
    BY <2>2, RetryAfterType
  <2>4. ok \in BOOLEAN
    BY DEF Allowed, Expired
  <2>5. /\ admitted' \in [Identities -> Nat]
        /\ AdmissionsCounted' /\ AdmittedWithinLimit'
    BY <2>1, <2>4, EvaluateCounts
  <2>6. /\ window' \in [Identities -> Windows]
        /\ openedAt' \in [Identities -> Nat]
        /\ openedFor' \in [Identities -> Nat]
        /\ WindowsAnchored'
    BY <2>1, EvaluateAnchors
  <2>7. CASE ok
    <3>1. Finish(r, "allowed", 0)
      BY <2>1, <2>7
    <3>2. QED
      BY <2>1, <2>5, <2>6, <3>1, FinishIInv DEF Phases
  <2>8. CASE ~ok
    <3>1. Finish(r, "limited", RetryAfter(w, p))
      BY <2>1, <2>8
    <3>2. QED
      BY <2>1, <2>3, <2>5, <2>6, <3>1, FinishIInv DEF Phases
  <2>9. QED
    BY <2>4, <2>7, <2>8
<1>3. ASSUME NEW r \in Requests, LoseAnswer(r) PROVE IInv'
  <2>1. /\ req[r].phase = "asking"
        /\ Evaluate(r)
        /\ now' = now /\ config' = config
        /\ Finish(r, "unavailable", 0)
    BY <1>3 DEF LoseAnswer
  <2> DEFINE i == req[r].who
             before == IF Expired(window[i], req[r].payload) THEN 0 ELSE admitted[i]
  <2>2. admitted' = [admitted EXCEPT ![i] = before]
    BY <1>3 DEF LoseAnswer
  <2>3. before \in Nat
    BY <2>1 DEF IInv, TypeOK
  <2>4. admitted' = [admitted EXCEPT ![i] = before + (IF FALSE THEN 1 ELSE 0)]
    <3>1. before + 0 = before
      BY <2>3
    <3>2. QED
      BY <2>2, <3>1
  <2>5. /\ admitted' \in [Identities -> Nat]
        /\ AdmissionsCounted' /\ AdmittedWithinLimit'
    BY <2>1, <2>4, EvaluateCounts
  <2>6. /\ window' \in [Identities -> Windows]
        /\ openedAt' \in [Identities -> Nat]
        /\ openedFor' \in [Identities -> Nat]
        /\ WindowsAnchored'
    BY <2>1, EvaluateAnchors
  <2>7. QED
    BY <2>1, <2>5, <2>6, FinishIInv DEF Phases
<1>4. ASSUME NEW r \in Requests, FailToAsk(r) PROVE IInv'
  <2>1. /\ req[r].phase = "asking"
        /\ Finish(r, "unavailable", 0)
        /\ UNCHANGED <<now, config, window, openedAt, openedFor, admitted>>
    BY <1>4 DEF FailToAsk
  <2>2. /\ window' \in [Identities -> Windows]
        /\ openedAt' \in [Identities -> Nat]
        /\ openedFor' \in [Identities -> Nat]
        /\ admitted' \in [Identities -> Nat]
    BY <2>1 DEF IInv, TypeOK
  <2>3. WindowsAnchored' /\ AdmissionsCounted' /\ AdmittedWithinLimit'
    BY <2>1 DEF IInv, WindowsAnchored, AdmissionsCounted, AdmittedWithinLimit
  <2>4. QED
    BY <2>1, <2>2, <2>3, FinishIInv DEF Phases
<1>5. CASE Deploy
  BY <1>5 DEF Deploy, IInv, TypeOK, PayloadsFresh, WindowsAnchored,
              AdmissionsCounted, AdmittedWithinLimit
<1>6. CASE Tick
  <2>1. /\ now' = now + 1
        /\ UNCHANGED <<config, req, window, openedAt, openedFor, admitted>>
        /\ \A r \in Requests :
              req[r].phase = "asking" => now < req[r].sentAt + MaxDelay
    BY <1>6 DEF Tick
  <2>2. TypeOK'
    BY <2>1 DEF IInv, TypeOK
  <2>3. PayloadsFresh'
    BY <2>1, ClockAssumption DEF IInv, TypeOK, RequestStates, PayloadsFresh
  <2>4. WindowsAnchored'
    BY <2>1 DEF IInv, TypeOK, WindowsAnchored
  <2>5. AdmissionsCounted' /\ AdmittedWithinLimit'
    BY <2>1 DEF IInv, AdmissionsCounted, AdmittedWithinLimit
  <2>6. QED
    BY <2>2, <2>3, <2>4, <2>5 DEF IInv
<1>7. CASE UNCHANGED vars
  BY <1>7 DEF vars, IInv, TypeOK, PayloadsFresh, WindowsAnchored,
              AdmissionsCounted, AdmittedWithinLimit
<1>8. QED
  BY <1>1, <1>2, <1>3, <1>4, <1>5, <1>6, <1>7 DEF Next

-----------------------------------------------------------------------------
(* The theorems.                                                           *)

\* The inductive invariant holds throughout.
THEOREM Invariance == Spec => []IInv
BY InitIInv, NextIInv, PTL DEF Spec

\* The variables keep their types: in particular every request that is waiting
\* for the Durable Object has an identity and a well-formed payload.
THEOREM TypeCorrect == Spec => []TypeOK
<1>1. IInv => TypeOK
  BY DEF IInv
<1>2. QED
  BY <1>1, Invariance, PTL

\* No window lets through more requests than the most generous limit deployed,
\* for any skew, any delay and any order of arrival.
THEOREM LimitHolds == Spec => []AdmittedWithinLimit
<1>1. IInv => AdmittedWithinLimit
  BY DEF IInv
<1>2. QED
  BY <1>1, Invariance, PTL

\* A stored window never ends later than one window length and one skew from now.
THEOREM LockoutEnds == Spec => []LockoutBounded
<1>1. ASSUME IInv PROVE LockoutBounded
  <2> SUFFICES ASSUME NEW i \in Identities, window[i].count > 0
               PROVE  \E c \in Configs :
                         window[i].resetAt <= now + MaxSkew + WindowTicks(c)
    BY DEF LockoutBounded
  <2>1. PICK c \in Configs :
          /\ openedFor[i] = WindowTicks(c)
          /\ window[i].resetAt <= openedAt[i] + MaxSkew + openedFor[i]
    BY <1>1 DEF IInv, WindowsAnchored
  <2>2. WindowTicks(c) \in Nat
    BY WindowTicksType, ConfigsAssumption
  <2>3. openedAt[i] <= now /\ openedAt[i] \in Nat /\ now \in Nat
        /\ window[i].resetAt \in Int
    BY <1>1 DEF IInv, TypeOK, WindowsAnchored, Windows
  <2>4. window[i].resetAt <= now + MaxSkew + WindowTicks(c)
    BY <2>1, <2>2, <2>3, ClockAssumption
  <2>5. QED
    BY <2>4
<1>2. QED
  BY <1>1, Invariance, PTL

\* An expired window has been open for the length it was opened with, less the
\* skew of the clocks that opened it and found it expired and the delay between.
LEMMA ExpiredIsOld ==
    ASSUME IInv, NEW r \in Requests, req[r].phase = "asking",
           window[req[r].who].count > 0,
           Expired(window[req[r].who], req[r].payload)
    PROVE  now >= openedAt[req[r].who] + openedFor[req[r].who]
                    - MaxDelay - 2 * MaxSkew
<1> DEFINE i == req[r].who
           p == req[r].payload
<1>1. /\ i \in Identities
      /\ now \in Nat /\ openedAt[i] \in Nat
      /\ req[r].sentAt \in Nat /\ p.at \in Int
      /\ window[i].resetAt \in Int /\ window[i].count \in Nat
  BY DEF IInv, TypeOK, RequestStates, Payloads, Windows
<1>2. window[i].resetAt <= p.at
  BY <1>1 DEF Expired
<1>3. p.at <= now + MaxSkew
  <2>1. req[r].sentAt <= now /\ p.at <= req[r].sentAt + MaxSkew
    BY DEF IInv, PayloadsFresh
  <2>2. QED
    BY <1>1, <2>1, ClockAssumption
<1>4. window[i].resetAt >= openedAt[i] + openedFor[i] - MaxDelay - MaxSkew
  BY <1>1 DEF IInv, WindowsAnchored
<1>5. openedFor[i] \in Nat
  BY <1>1 DEF IInv, TypeOK
<1>6. QED
  BY <1>1, <1>2, <1>3, <1>4, <1>5, ClockAssumption

\* A window is reopened only by an evaluation that finds it expired.
LEMMA ReopenedByEvaluation ==
    ASSUME IInv, [Next]_vars, NEW i \in Identities, Reopened(i)
    PROVE  \E r \in Requests : /\ req[r].phase = "asking"
                               /\ req[r].who = i
                               /\ Expired(window[i], req[r].payload)
<1>1. PICK r \in Requests : req[r].phase = "asking" /\ Evaluate(r)
  BY DEF Reopened, Next, vars, Ask, Decide, LoseAnswer, FailToAsk, Deploy, Tick
<1> DEFINE w == window[req[r].who]
           p == req[r].payload
<1>2. req[r].who \in Identities /\ w \in Windows /\ p \in Payloads
  BY <1>1 DEF IInv, TypeOK
<1>3. window' = [window EXCEPT ![req[r].who] = NextWindow(w, p)]
  BY <1>1 DEF Evaluate
<1>4. req[r].who = i
  BY <1>2, <1>3 DEF Reopened, IInv, TypeOK
<1>5. NextWindow(w, p).count = 1 /\ w.count > 0 /\ w.count \in Nat
  BY <1>2, <1>3, <1>4 DEF Reopened, IInv, TypeOK, Windows
<1>6. Expired(w, p)
  BY <1>2, <1>5, NextWindowType
<1>7. QED
  BY <1>1, <1>4, <1>6

\* No identity's next window opens before the previous one has lasted the length
\* it was opened with, whichever versions sent the payloads, less the delay of a
\* payload and the skew of two clocks.
THEOREM SpacingHolds == Spec => WindowsSpaced
<1> DEFINE Spaced ==
        \A i \in Identities :
           Reopened(i) =>
              now >= openedAt[i] + openedFor[i] - MaxDelay - 2 * MaxSkew
<1>1. ASSUME IInv, [Next]_vars PROVE Spaced
  <2> SUFFICES ASSUME NEW i \in Identities, Reopened(i)
               PROVE  now >= openedAt[i] + openedFor[i] - MaxDelay - 2 * MaxSkew
    OBVIOUS
  <2>1. PICK r \in Requests : /\ req[r].phase = "asking"
                             /\ req[r].who = i
                             /\ Expired(window[i], req[r].payload)
    BY <1>1, ReopenedByEvaluation
  <2>2. window[i].count > 0
    BY DEF Reopened
  <2>3. QED
    BY <1>1, <2>1, <2>2, ExpiredIsOld
<1>2. QED
  BY <1>1, Invariance, PTL DEF Spec, WindowsSpaced

\* Waiting for Retry-After is enough to outlast the window one was limited by.
THEOREM RetryAfterHolds == Spec => RetryAfterSuffices
<1> DEFINE Suffices ==
        \A r \in Requests :
           req[r].phase = "asking" /\ req'[r].phase = "limited" =>
              req[r].payload.at + req'[r].retryAfter * TicksPerSecond
                 >= window'[req[r].who].resetAt
<1>1. ASSUME IInv, [Next]_vars PROVE Suffices
  <2> SUFFICES ASSUME NEW r \in Requests,
                      req[r].phase = "asking", req'[r].phase = "limited"
               PROVE  req[r].payload.at + req'[r].retryAfter * TicksPerSecond
                         >= window'[req[r].who].resetAt
    OBVIOUS
  <2> DEFINE i == req[r].who
             p == req[r].payload
             w == window[i]
  <2>1. i \in Identities /\ p \in Payloads /\ w \in Windows
    BY <1>1 DEF IInv, TypeOK
  <2>2. Decide(r)
    <3>1. ASSUME NEW s \in Requests, Ask(s) PROVE FALSE
      <4>1. req'[r].phase = "asking"
        BY <1>1, <3>1 DEF Ask, IInv, TypeOK
      <4>2. QED
        BY <4>1
    <3>2. ASSUME NEW s \in Requests, LoseAnswer(s) \/ FailToAsk(s) PROVE FALSE
      <4>1. Finish(s, "unavailable", 0)
        BY <3>2 DEF LoseAnswer, FailToAsk
      <4>2. req'[r].phase \in {"asking", "unavailable"}
        BY <1>1, <4>1 DEF Finish, IInv, TypeOK
      <4>3. QED
        BY <4>2
    <3>3. ASSUME NEW s \in Requests, Decide(s), s # r PROVE FALSE
      <4>1. req'[r] = req[r]
        BY <1>1, <3>3 DEF Decide, Finish, IInv, TypeOK
      <4>2. QED
        BY <4>1
    <3>4. CASE Deploy \/ Tick \/ UNCHANGED vars
      BY <3>4 DEF Deploy, Tick, vars
    <3>5. QED
      BY <1>1, <3>1, <3>2, <3>3, <3>4 DEF Next
  <2>3. ~Allowed(w, p) /\ req'[r].retryAfter = RetryAfter(w, p)
    <3>1. Finish(r, IF Allowed(w, p) THEN "allowed" ELSE "limited",
                    IF Allowed(w, p) THEN 0 ELSE RetryAfter(w, p))
      BY <2>2 DEF Decide
    <3>2. req'[r] = [phase |-> IF Allowed(w, p) THEN "allowed" ELSE "limited",
                     who |-> req[r].who, payload |-> <<>>, sentAt |-> 0,
                     retryAfter |-> IF Allowed(w, p) THEN 0 ELSE RetryAfter(w, p)]
      BY <1>1, <3>1 DEF Finish, IInv, TypeOK
    <3>3. QED
      BY <3>2
  <2>4. /\ ~Expired(w, p)
        /\ RetryAfter(w, p) = SecondsUntil(w.resetAt, p.at)
    BY <2>3 DEF Allowed, RetryAfter
  <2>5. window'[i].resetAt = w.resetAt
    <3>1. window'[i] = NextWindow(w, p)
      BY <1>1, <2>1, <2>2 DEF Decide, Evaluate, IInv, TypeOK
    <3>2. QED
      BY <2>1, <2>4, <3>1, NextWindowType
  <2> DEFINE s == CeilSeconds(w.resetAt - p.at)
             n == SecondsUntil(w.resetAt, p.at)
  <2>6. s \in Int /\ s * TicksPerSecond >= w.resetAt - p.at
    BY <2>1, CeilSecondsCovers DEF Windows, Payloads
  <2>7. n \in Int /\ n * TicksPerSecond >= s * TicksPerSecond
    <3>1. CASE s > 1
      BY <2>6, <3>1, ClockAssumption DEF SecondsUntil
    <3>2. CASE ~(s > 1)
      <4>1. n = 1 /\ s <= 1
        BY <2>6, <3>2 DEF SecondsUntil
      <4>2. \A x \in Int : x <= 1 => 1 * TicksPerSecond >= x * TicksPerSecond
        BY ClockAssumption
      <4>3. QED
        BY <2>6, <4>1, <4>2
    <3>3. QED
      BY <3>1, <3>2
  <2>8. n * TicksPerSecond \in Int /\ s * TicksPerSecond \in Int
    BY <2>6, <2>7, ClockAssumption
  <2>9. p.at + n * TicksPerSecond >= w.resetAt
    <3> HIDE DEF n, s
    <3>1. w.resetAt \in Int /\ p.at \in Int
      BY <2>1 DEF Windows, Payloads
    <3>2. QED
      BY <2>6, <2>7, <2>8, <3>1
  <2>10. QED
    BY <2>3, <2>4, <2>5, <2>9
<1>2. QED
  BY <1>1, Invariance, PTL DEF Spec, RetryAfterSuffices
=============================================================================
