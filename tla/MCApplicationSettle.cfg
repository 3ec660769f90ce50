\* A call of each tool, the overview with up to six sections at a time, any of which
\* may fail.
SPECIFICATION FairSpec
CONSTANTS
    c1 = c1
    c2 = c2
    c3 = c3
    default = default
    roleA = roleA
    roleB = roleB
    none = none
    Calls = {c1}
    Profile <- FullProfiles
    Requests <- FullRequests
    Roles = {default, roleA, roleB}
    DefaultRole = default
    NoAuth = none
    Ttl = 1
    MaxDuration = 0
    MaxTime = 0
PROPERTIES CallsAnswered SectionsAdvance
CHECK_DEADLOCK FALSE
