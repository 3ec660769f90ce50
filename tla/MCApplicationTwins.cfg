\* Two profiles that use the same names in two accounts.
SPECIFICATION Spec
CONSTANTS
    c1 = c1
    c2 = c2
    c3 = c3
    default = default
    roleA = roleA
    roleB = roleB
    none = none
    Calls = {c1, c2}
    Profile <- TwinProfiles
    Requests <- TwinRequests
    Roles = {default, roleA, roleB}
    DefaultRole = default
    NoAuth = none
    Ttl = 1
    MaxDuration = 1
    MaxTime = 1
SYMMETRY Symmetry
INVARIANTS OwnProfile
CHECK_DEADLOCK FALSE
