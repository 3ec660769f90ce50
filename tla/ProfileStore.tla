----------------------------- MODULE ProfileStore ------------------------------
(***************************************************************************)
(* The application profiles in the AWS_MCP_APP_CONFIG namespace: an index  *)
(* of entries under one KV key and one document per profile under its own  *)
(* key.  The profile CLI changes them in two writes without a transaction, *)
(* operators edit keys by hand, any step may be the last one of a CLI run, *)
(* and the Worker reads the keys through KV, where an older value stays    *)
(* visible for a while.                                                    *)
(***************************************************************************)
EXTENDS Integers, FiniteSets

CONSTANTS
    Profiles,    \* the profile ids
    MaxVersion,  \* bound: the documents of a profile are versions 1..MaxVersion
    MaxCount,    \* APP_PROFILE_MAX_COUNT
    EntryBytes,  \* the size of an index entry as the CLI writes it
    MaxBytes,    \* APP_PROFILE_MAX_JSON_BYTES
    Commands,    \* the runs of the CLI
    Kinds,       \* the commands they run, among "put" and "delete"
    Requests,    \* the tool calls that name a profile
    Late,        \* bound: whether KV shows Workers old values for a while
    Published,   \* the sets of profiles that may be published at the start
    Edits,       \* what operators do by hand: "toggle", "damage", "spoil"
    MaxEdits     \* bound: the number of such edits

ASSUME ProfilesAssumption ==
    /\ MaxVersion \in Nat \ {0} /\ MaxCount \in Nat /\ MaxEdits \in Nat
    /\ EntryBytes \in Nat /\ MaxBytes \in Nat
    /\ Kinds \subseteq {"put", "delete"}
    /\ Published \subseteq {ids \in SUBSET Profiles :
                              /\ Cardinality(ids) <= MaxCount
                              /\ Cardinality(ids) * EntryBytes <= MaxBytes}
    /\ Late \in BOOLEAN
    /\ Edits \subseteq {"toggle", "damage", "spoil"}

VARIABLES
    index,      \* the value of the index key
    docs,       \* the document of each profile
    seenIndex,  \* the index values a Worker may still read
    seenDocs,   \* the documents a Worker may still read
    cmd,        \* the CLI runs
    req,        \* the tool calls
    edits,      \* the number of edits made by hand
    overtaken,  \* history: the runs whose index was written by others since they
                \* read it, or whose document was written since they wrote it
    disturbed,  \* history: the index was written by an overtaken run or damaged
    torn,       \* history: the profiles left after one of the two writes
    published   \* history: the profiles published at the start

store == <<index, docs, seenIndex, seenDocs>>
history == <<overtaken, disturbed, torn>>
vars == <<store, cmd, req, edits, history, published>>

-----------------------------------------------------------------------------
(* Data.                                                                   *)

Versions == 1..MaxVersion
NoDoc == 0
BadDoc == -1     \* a document that does not parse or does not validate

\* Of an entry's metadata only the version it was taken from matters.
Entries == [version : Versions, enabled : BOOLEAN]
EntryMaps == UNION {[ids -> Entries] : ids \in SUBSET Profiles}
NoEntries == [p \in {} |-> 0]

\* "blank" is an empty text, "corrupt" any other text that does not parse or
\* does not validate.
IndexStates == {"absent", "blank", "corrupt", "valid"}
Indexes == [state : IndexStates, entries : EntryMaps]
Index(state, entries) == [state |-> state, entries |-> entries]

\* readKvIndex and validateProfileIndexDocument in the Worker: the status of
\* the store is "invalid".
Unreadable(ix) == ix.state \in {"blank", "corrupt"}

\* readValidatedIndex in the CLI.  wrangler prints an empty value like a
\* missing one, and the size limit is checked here and nowhere else.
TooLarge(entries) == Cardinality(DOMAIN entries) * EntryBytes > MaxBytes

RefusedNever(ix) == TooLarge(ix.entries)

Refused(ix) == ix.state = "corrupt" \/ TooLarge(ix.entries)

\* mergeProfileIntoIndex, removeProfileFromIndex.
MergedEnabled(entries, p, v) ==
    [q \in DOMAIN entries \cup {p} |->
       IF q = p THEN [version |-> v, enabled |-> TRUE] ELSE entries[q]]

Merged(entries, p, v) ==
    [q \in DOMAIN entries \cup {p} |->
       IF q = p THEN [version |-> v,
                      enabled |-> p \in DOMAIN entries => entries[p].enabled]
       ELSE entries[q]]

RemovedNothing(entries, p) == entries

Removed(entries, p) == [q \in DOMAIN entries \ {p} |-> entries[q]]

\* assertValidIndex: the merge and the removal keep the entries valid and the
\* ids distinct, so the count is what can fail.
Acceptable(entries) == Cardinality(DOMAIN entries) <= MaxCount

Listed(ix, p) == p \in DOMAIN ix.entries

-----------------------------------------------------------------------------
CommandPhases == {"ready", "read", "midway", "done", "refused", "broken"}
CommandStates ==
    [phase : CommandPhases, kind : {"put", "delete"}, profile : Profiles,
     version : Versions, base : EntryMaps]

RequestPhases == {"idle", "listed", "loading", "served", "failed", "unavailable"}
RequestStates == [phase : RequestPhases, profile : Profiles, doc : {NoDoc} \cup Versions]

\* Published profiles are enabled and their documents in place.
InitialStore(ids) ==
    /\ index = Index(IF ids = {} THEN "absent" ELSE "valid",
                     [p \in ids |-> [version |-> 1, enabled |-> TRUE]])
    /\ docs = [p \in Profiles |-> IF p \in ids THEN 1 ELSE NoDoc]

Init ==
    /\ published \in Published
    /\ InitialStore(published)
    /\ seenIndex = {index}
    /\ seenDocs = [p \in Profiles |-> {docs[p]}]
    /\ cmd \in [Commands -> {[phase |-> "ready", kind |-> k, profile |-> p,
                              version |-> MaxVersion, base |-> NoEntries] :
                             k \in Kinds, p \in Profiles}]
    /\ req \in [Requests -> {[phase |-> "idle", profile |-> p, doc |-> NoDoc] :
                             p \in Profiles}]
    /\ edits = 0
    /\ overtaken = {}
    /\ disturbed = FALSE
    /\ torn = {}

\* A Worker may go on reading what a write has replaced.
PutDoc(p, d) ==
    /\ docs' = [docs EXCEPT ![p] = d]
    /\ seenDocs' = [seenDocs EXCEPT ![p] = IF Late THEN @ \cup {d} ELSE {d}]
    /\ UNCHANGED <<index, seenIndex>>

PutIndex(ix) ==
    /\ index' = ix
    /\ seenIndex' = IF Late THEN seenIndex \cup {ix} ELSE {ix}
    /\ UNCHANGED <<docs, seenDocs>>

Unfinished == {c \in Commands : cmd[c].phase \in {"read", "midway"}}

-----------------------------------------------------------------------------
(* The CLI: putProfileToKv and deleteProfileFromKv.                        *)

NextEntries(c) ==
    IF cmd[c].kind = "put" THEN Merged(cmd[c].base, cmd[c].profile, cmd[c].version)
    ELSE Removed(cmd[c].base, cmd[c].profile)

\* Reading the index, and every check: nothing has been written when the run
\* is refused.  A delete without --yes ends here too.
ReadIndex(c) ==
    /\ cmd[c].phase = "ready"
    /\ \E v \in Versions :
          LET base == index.entries
              p == cmd[c].profile
              next == IF cmd[c].kind = "put" THEN Merged(base, p, v) ELSE Removed(base, p)
              refused == \/ Refused(index)
                         \/ cmd[c].kind = "delete" /\ p \notin DOMAIN base
                         \/ ~Acceptable(next)
          IN cmd' = [cmd EXCEPT ![c] =
                       [phase |-> IF refused THEN "refused" ELSE "read",
                        kind |-> cmd[c].kind, profile |-> p, version |-> v,
                        base |-> IF refused THEN NoEntries ELSE base]]
    /\ UNCHANGED <<store, req, edits, history>>

\* What a run has read is of no use once it has ended.
SetPhase(c, phase) ==
    cmd' = [cmd EXCEPT ![c] =
              [phase |-> phase, kind |-> cmd[c].kind, profile |-> cmd[c].profile,
               version |-> cmd[c].version,
               base |-> IF phase = "midway" THEN cmd[c].base ELSE NoEntries]]

\* The runs that are between their two writes of p.
Midway(p) == {c \in Commands : cmd[c].phase = "midway" /\ cmd[c].profile = p}

NewDocBumped(c) == IF cmd[c].kind = "put" THEN cmd[c].version + 1 ELSE NoDoc

NewDoc(c) == IF cmd[c].kind = "put" THEN cmd[c].version ELSE NoDoc

\* The document is written, or deleted, first.
WriteDocCleared(c) ==
    /\ cmd[c].phase = "read"
    /\ IF docs[cmd[c].profile] = NoDoc
       THEN PutDoc(cmd[c].profile, NewDoc(c)) /\ SetPhase(c, "midway")
       ELSE PutDoc(cmd[c].profile, NoDoc) /\ UNCHANGED cmd
    /\ overtaken' = overtaken \cup Midway(cmd[c].profile)
    /\ UNCHANGED <<req, edits, disturbed, torn>>

WriteDoc(c) ==
    /\ cmd[c].phase = "read"
    /\ PutDoc(cmd[c].profile, NewDoc(c))
    /\ SetPhase(c, "midway")
    /\ overtaken' = overtaken \cup Midway(cmd[c].profile)
    /\ UNCHANGED <<req, edits, disturbed, torn>>

\* Then the index.  wrangler may report a failure of a write that was applied.
WriteIndex(c) ==
    /\ cmd[c].phase = "midway"
    /\ PutIndex(Index("valid", NextEntries(c)))
    /\ \E phase \in {"done", "broken"} : SetPhase(c, phase)
    /\ overtaken' = (overtaken \cup Unfinished) \ {c}
    /\ disturbed' = (disturbed \/ c \in overtaken)
    /\ torn' = torn \ {cmd[c].profile}
    /\ UNCHANGED <<req, edits>>

\* wrangler fails, or the run is interrupted.
BreakOff(c) ==
    /\ c \in Unfinished
    /\ SetPhase(c, "broken")
    /\ torn' = IF cmd[c].phase = "midway" THEN torn \cup {cmd[c].profile} ELSE torn
    /\ overtaken' = overtaken \ {c}
    /\ UNCHANGED <<store, req, edits, disturbed>>

-----------------------------------------------------------------------------
(* Operators editing keys by hand.                                         *)

\* A profile is enabled or disabled in the index.
Toggle(p) ==
    /\ "toggle" \in Edits /\ edits < MaxEdits
    /\ index.state = "valid" /\ Listed(index, p)
    /\ PutIndex(Index("valid", [q \in DOMAIN index.entries |->
                                  IF q = p THEN [version |-> index.entries[p].version,
                                                 enabled |-> ~index.entries[p].enabled]
                                  ELSE index.entries[q]]))
    /\ edits' = edits + 1
    /\ overtaken' = overtaken \cup Unfinished
    /\ UNCHANGED <<cmd, req, disturbed, torn>>

\* The index is left empty or broken.
Damage ==
    /\ "damage" \in Edits /\ edits < MaxEdits
    /\ \E state \in {"blank", "corrupt"} : PutIndex(Index(state, NoEntries))
    /\ edits' = edits + 1
    /\ overtaken' = overtaken \cup Unfinished
    /\ disturbed' = TRUE
    /\ UNCHANGED <<cmd, req, torn>>

\* A document is left broken.
Spoil(p) ==
    /\ "spoil" \in Edits /\ edits < MaxEdits
    /\ docs[p] # NoDoc
    /\ PutDoc(p, BadDoc)
    /\ edits' = edits + 1
    /\ overtaken' = overtaken \cup Midway(p)
    /\ UNCHANGED <<cmd, req, disturbed, torn>>

-----------------------------------------------------------------------------
(* The Worker: resolveApplicationProfileForTool.                           *)

Answer(r, phase, d) ==
    req' = [req EXCEPT ![r] = [phase |-> phase, profile |-> req[r].profile, doc |-> d]]

\* A KV read that throws.
Unavailable(r) ==
    /\ req[r].phase \in {"idle", "listed", "loading"}
    /\ Answer(r, "unavailable", NoDoc)
    /\ UNCHANGED <<store, cmd, edits, history>>

\* listApplicationProfiles, then the entry has to be there and enabled.
FindEntry(r) ==
    /\ req[r].phase = "idle"
    /\ \E ix \in seenIndex :
          Answer(r, IF /\ ~Unreadable(ix)
                       /\ Listed(ix, req[r].profile)
                       /\ ix.entries[req[r].profile].enabled
                    THEN "listed" ELSE "failed", NoDoc)
    /\ UNCHANGED <<store, cmd, edits, history>>

\* loadApplicationProfile reads the index once more, and looks only at whether
\* it is valid.
LoadIndex(r) ==
    /\ req[r].phase = "listed"
    /\ \E ix \in seenIndex :
          Answer(r, IF Unreadable(ix) THEN "failed" ELSE "loading", NoDoc)
    /\ UNCHANGED <<store, cmd, edits, history>>

LoadDoc(r) ==
    /\ req[r].phase = "loading"
    /\ \E d \in seenDocs[req[r].profile] :
          IF d \in Versions THEN Answer(r, "served", d) ELSE Answer(r, "failed", NoDoc)
    /\ UNCHANGED <<store, cmd, edits, history>>

\* The current values reach every Worker.
Propagate ==
    /\ Late
    /\ seenIndex' = {index}
    /\ seenDocs' = [p \in Profiles |-> {docs[p]}]
    /\ UNCHANGED <<index, docs, cmd, req, edits, history>>

Step ==
    \/ \E c \in Commands : ReadIndex(c) \/ WriteDoc(c) \/ WriteIndex(c) \/ BreakOff(c)
    \/ \E p \in Profiles : Toggle(p) \/ Spoil(p)
    \/ Damage
    \/ \E r \in Requests : Unavailable(r) \/ FindEntry(r) \/ LoadIndex(r) \/ LoadDoc(r)
    \/ Propagate

Next == Step /\ UNCHANGED published

Spec == Init /\ [][Next]_vars
-----------------------------------------------------------------------------
(* Properties.                                                             *)

StateOK ==
    /\ index \in Indexes
    /\ docs \in [Profiles -> {NoDoc, BadDoc} \cup Versions]
    /\ index \in seenIndex /\ seenIndex \subseteq Indexes
    /\ seenDocs \in [Profiles -> SUBSET ({NoDoc, BadDoc} \cup Versions)]
    /\ cmd \in [Commands -> CommandStates]
    /\ req \in [Requests -> RequestStates]
    /\ edits \in 0..MaxEdits
    /\ overtaken \subseteq Unfinished
    /\ disturbed \in BOOLEAN
    /\ torn \subseteq Profiles

\* What every state looks like.
TypeOK == StateOK /\ published \in Published

\* A profile is listed exactly when it has a document, and its entry was taken
\* from that document.
Matching(p) ==
    /\ Listed(index, p) <=> docs[p] # NoDoc
    /\ Listed(index, p) /\ docs[p] # BadDoc => index.entries[p].version = docs[p]

\* Unless runs of the CLI overtake one another or the index is damaged by hand,
\* the index and the documents agree on every profile except those a run is
\* just changing or has left half changed; running a command on such a profile
\* to its end repairs it (putProfileToKv, deleteProfileFromKv).
StoreConsistent ==
    ~disturbed => \A p \in Profiles : Matching(p) \/ p \in torn \/ Midway(p) # {}

\* The runs that write the index in a step.
Writing == {c \in Commands : cmd[c].phase = "midway" /\ index' # index /\ cmd'[c] # cmd[c]}

\* A run that has not been overtaken changes the entry of its own profile and
\* leaves it enabled or disabled as it was: aliases, capabilities and enabled
\* are the operator's (buildIndexEntryFromProfile).
KeepsOthers ==
    \A c \in Writing \ overtaken :
        /\ DOMAIN index.entries \ {cmd[c].profile} = DOMAIN index'.entries \ {cmd[c].profile}
        /\ \A q \in DOMAIN index.entries :
              /\ q # cmd[c].profile => index'.entries[q] = index.entries[q]
              /\ q \in DOMAIN index'.entries =>
                    index'.entries[q].enabled = index.entries[q].enabled

OthersKept == [][KeepsOthers]_vars

\* A run writes over a corrupt index only when the damage came after the run
\* had read it.
SparesCorrupt == index.state = "corrupt" => Writing \subseteq overtaken

CorruptKept == [][SparesCorrupt]_vars

\* "Publish profiles without editing KV manually": an index the CLI has written
\* is one the CLI can change.
StaysModifiable == ~disturbed => ~Refused(index)

\* Republishing profiles that are published and enabled never makes a tool call
\* fail, whatever stage the CLI runs are at, whichever of them break off, and
\* however late KV shows what they wrote: only a profile that was not there, a
\* delete or an edit by hand does.
RequestsServed ==
    \A r \in Requests :
        req[r].phase = "failed" =>
            \/ req[r].profile \notin published
            \/ edits > 0
            \/ \E c \in Commands : cmd[c].kind = "delete" /\ cmd[c].phase # "ready"

-----------------------------------------------------------------------------
(* The table that index and documents are together.                        *)

\* What is offered under p: its document if it is listed.
SeenRow(p) ==
    IF Listed(index, p) THEN [doc |-> docs[p], enabled |-> index.entries[p].enabled]
    ELSE [doc |-> NoDoc, enabled |-> TRUE]

SeenCatalog == [p \in Profiles |-> SeenRow(p)]

SeenPhase(phase) ==
    CASE phase = "read" -> "started" [] phase = "midway" -> "written" [] OTHER -> phase

SeenRun(c) ==
    [phase |-> SeenPhase(cmd[c].phase), kind |-> cmd[c].kind, profile |-> cmd[c].profile,
     version |-> cmd[c].version]

SeenRuns == [c \in Commands |-> SeenRun(c)]

Catalog == INSTANCE ProfileCatalog WITH
    Runs <- Commands, catalog <- SeenCatalog, run <- SeenRuns, sound <- ~disturbed

\* The two writes of a run look like one: what is offered under a profile is what
\* a run or an operator has put there, and never what is between the writes of a
\* run, even of one that breaks off there; a run that ends well has put what it
\* was to put; and it leaves the other profiles alone (putProfileToKv and
\* deleteProfileFromKv, the document first and then the index).
CatalogKept == Catalog!Spec
=============================================================================
