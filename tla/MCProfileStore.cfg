\* Concurrent CLI runs that may break off, a tool call that may read old values, and
\* an operator who edits a key by hand.
SPECIFICATION Spec
CONSTANTS
    p1 = p1
    p2 = p2
    c1 = c1
    c2 = c2
    r1 = r1
    Profiles = {p1, p2}
    MaxVersion = 2
    MaxCount = 2
    EntryBytes = 1
    MaxBytes = 2
    Commands = {c1, c2}
    Kinds = {"put", "delete"}
    Requests = {r1}
    Published <- NoneOrAll
    Late = TRUE
    Edits = {"damage", "spoil", "toggle"}
    MaxEdits = 1
SYMMETRY Symmetry
INVARIANTS TypeOK StoreConsistent RequestsServed
PROPERTIES CorruptKept CatalogKept
CHECK_DEADLOCK FALSE
