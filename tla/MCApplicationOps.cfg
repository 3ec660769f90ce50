\* Calls for profiles of two accounts and two regions, and direct tools, through
\* several lives of the cached answers.
SPECIFICATION Spec
CONSTANTS
    c1 = c1
    c2 = c2
    c3 = c3
    default = default
    roleA = roleA
    roleB = roleB
    none = none
    Calls = {c1, c2}
    Profile <- SectionProfiles
    Requests <- SectionRequests
    Roles = {default, roleA, roleB}
    DefaultRole = default
    NoAuth = none
    Ttl = 1
    MaxDuration = 1
    MaxTime = 3
SYMMETRY Symmetry
INVARIANTS TypeOK OwnAnswers OwnResource SectionsComplete AgeBounded
CHECK_DEADLOCK FALSE
