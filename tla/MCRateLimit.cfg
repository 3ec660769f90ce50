\* Two versions, skewed clocks, a token and an address, payloads under way for
\* a tick: everything that disturbs the windows at once.
SPECIFICATION Spec
CONSTANTS
    Requests = {r1, r2, r3}
    Tokens = {t1}
    Addresses = {a1}
    NoToken = NoToken
    Configs <- TwoConfigs
    TicksPerSecond = 2
    MaxSkew = 1
    MaxDelay = 1
    MaxTime = 6
SYMMETRY RequestSymmetry
INVARIANTS TypeOK AdmittedWithinLimit LockoutBounded
PROPERTIES RetryAfterSuffices WindowsSpaced
CHECK_DEADLOCK FALSE
