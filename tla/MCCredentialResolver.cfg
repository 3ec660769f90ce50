\* Three calls in one or two HTTP requests, through a lifetime of a session.
SPECIFICATION Spec
CONSTANTS
    c1 = c1
    c2 = c2
    c3 = c3
    r1 = r1
    r2 = r2
    default = default
    role = role
    malformed = malformed
    noId = noId
    id = id
    Calls = {c1, c2, c3}
    Resolvers = {r1, r2}
    Roles = {default, role, malformed}
    DefaultRole = default
    ValidRoles = {role}
    Ids = {noId, id}
    NoId = noId
    Margin = 1
    Timeout = 1
    Lifetime = 3
    MaxSkew = 1
    MaxTime = 4
SYMMETRY Symmetry
INVARIANTS TypeOK OwnRole Usable
PROPERTIES SessionsReused SessionsKept
CHECK_DEADLOCK FALSE
