\* Two requests of one isolate while keys are rotated and tokens revoked.
SPECIFICATION Spec
CONSTANTS
    k1 = k1
    Requests = {r1, r2}
    NoRequest = NoRequest
    Credentials <- SomeCredentials
    Deployments <- SomeDeployments
    Keys = {k1}
    NoKey = NoKey
    Scopes = {"aws:read", "aws:more"}
    Ttl = 2
    Cooldown = 1
    MaxWork = 1
    MaxTime = 3
    MaxChanges = 1
SYMMETRY RequestSymmetry
INVARIANTS TypeOK SessionsServed
PROPERTIES AdmissionKept WithdrawnKeysExpire PublishedKeysAccepted RevokedRefused
CHECK_DEADLOCK FALSE
