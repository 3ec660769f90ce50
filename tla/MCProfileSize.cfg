\* Entries so large that MaxCount of them exceed MaxBytes.
SPECIFICATION Spec
CONSTANTS
    p1 = p1
    p2 = p2
    c1 = c1
    c2 = c2
    r1 = r1
    Profiles = {p1, p2}
    MaxVersion = 2
    MaxCount = 2
    EntryBytes = 2
    MaxBytes = 3
    Commands = {c1, c2}
    Kinds = {"put", "delete"}
    Requests = {}
    Published <- Nothing
    Late = FALSE
    Edits = {}
    MaxEdits = 0
INVARIANTS StaysModifiable
CHECK_DEADLOCK FALSE
