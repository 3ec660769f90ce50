-------------------------- MODULE ProfileStoreProofs ---------------------------
(***************************************************************************)
(* The index and the documents agree, for any number of profiles, CLI runs *)
(* and Workers, as long as no run writes over what another has written     *)
(* since.                                                                  *)
(***************************************************************************)
EXTENDS ProfileStore, TLAPS, FiniteSetTheorems

\* A run that has not been overtaken still knows the index.
BaseCurrent == \A c \in Unfinished \ overtaken : cmd[c].base = index.entries

\* And its document is still the one it wrote.
DocCurrent ==
    \A c \in Commands \ overtaken :
        cmd[c].phase = "midway" => docs[cmd[c].profile] = NewDoc(c)

\* Only runs that read the index before it was corrupted go on.
CorruptNotRead == index.state = "corrupt" => Unfinished \subseteq overtaken

IInv ==
    /\ StateOK
    /\ BaseCurrent
    /\ DocCurrent
    /\ CorruptNotRead
    /\ StoreConsistent

Docs == {NoDoc, BadDoc} \cup Versions

-----------------------------------------------------------------------------
(* Entry maps.                                                             *)

\* The entry maps are the functions from some of the profiles to entries.
LEMMA EntryMapDomain ==
    ASSUME NEW f \in EntryMaps
    PROVE  DOMAIN f \subseteq Profiles /\ f \in [DOMAIN f -> Entries]
BY DEF EntryMaps

LEMMA EntryMapIntro ==
    ASSUME NEW ids \in SUBSET Profiles, NEW f \in [ids -> Entries]
    PROVE  f \in EntryMaps
BY DEF EntryMaps

LEMMA NoEntriesType == NoEntries \in EntryMaps
<1>1. NoEntries \in [{} -> Entries]
  BY DEF NoEntries
<1>2. QED
  BY <1>1, EntryMapIntro

\* A merge touches one entry, keeps whether it is enabled, and gives it the
\* version of the document.
LEMMA MergedEntries ==
    ASSUME NEW f \in EntryMaps, NEW p \in Profiles, NEW v \in Versions
    PROVE  /\ Merged(f, p, v) \in EntryMaps
           /\ DOMAIN Merged(f, p, v) = DOMAIN f \cup {p}
           /\ Merged(f, p, v)[p].version = v
           /\ p \in DOMAIN f => Merged(f, p, v)[p].enabled = f[p].enabled
           /\ \A q \in DOMAIN f : q # p => Merged(f, p, v)[q] = f[q]
<1> DEFINE g == Merged(f, p, v)
<1>1. DOMAIN f \subseteq Profiles /\ f \in [DOMAIN f -> Entries]
  BY EntryMapDomain
<1>2. DOMAIN g = DOMAIN f \cup {p}
  BY DEF Merged
<1>3. g[p] = [version |-> v, enabled |-> p \in DOMAIN f => f[p].enabled]
  BY DEF Merged
<1>4. \A q \in DOMAIN f : q # p => g[q] = f[q]
  BY DEF Merged
<1>5. (p \in DOMAIN f => f[p].enabled) \in BOOLEAN
  OBVIOUS
<1>6. g[p] \in Entries
  BY <1>3, <1>5 DEF Entries
<1>7. g \in [DOMAIN f \cup {p} -> Entries]
  <2>1. \A q \in DOMAIN f \cup {p} : g[q] \in Entries
    BY <1>1, <1>4, <1>6
  <2>2. g = [q \in DOMAIN f \cup {p} |-> g[q]]
    BY DEF Merged
  <2>3. QED
    BY <2>1, <2>2
<1>8. g \in EntryMaps
  BY <1>1, <1>7, EntryMapIntro
<1>9. p \in DOMAIN f => f[p].enabled \in BOOLEAN
  BY <1>1 DEF Entries
<1>10. QED
  BY <1>2, <1>3, <1>4, <1>8, <1>9

\* A removal touches no other entry.
LEMMA RemovedEntries ==
    ASSUME NEW f \in EntryMaps, NEW p \in Profiles
    PROVE  /\ Removed(f, p) \in EntryMaps
           /\ DOMAIN Removed(f, p) = DOMAIN f \ {p}
           /\ \A q \in DOMAIN f : q # p => Removed(f, p)[q] = f[q]
<1>1. DOMAIN f \subseteq Profiles /\ f \in [DOMAIN f -> Entries]
  BY EntryMapDomain
<1>2. Removed(f, p) \in [DOMAIN f \ {p} -> Entries]
  BY <1>1 DEF Removed
<1>3. Removed(f, p) \in EntryMaps
  BY <1>1, <1>2, EntryMapIntro
<1>4. QED
  BY <1>3 DEF Removed

-----------------------------------------------------------------------------
(* Initial states and effects.                                             *)

LEMMA InitIInv == Init => IInv
<1> SUFFICES ASSUME Init PROVE IInv
  OBVIOUS
<1>0. published \in Published /\ InitialStore(published)
  BY DEF Init
<1>1. /\ index = Index(IF published = {} THEN "absent" ELSE "valid",
                       [p \in published |-> [version |-> 1, enabled |-> TRUE]])
      /\ docs = [p \in Profiles |-> IF p \in published THEN 1 ELSE NoDoc]
  BY <1>0 DEF InitialStore
<1>2. published \subseteq Profiles /\ 1 \in Versions /\ MaxVersion \in Versions
  BY <1>0, ProfilesAssumption DEF Versions
<1> DEFINE entries == [p \in published |-> [version |-> 1, enabled |-> TRUE]]
<1>3. entries \in [published -> Entries]
  BY <1>2 DEF Entries
<1>4. entries \in EntryMaps
  BY <1>2, <1>3, EntryMapIntro
<1>5. /\ index.entries = entries /\ index.state \in {"absent", "valid"}
      /\ index \in Indexes
  BY <1>1, <1>4 DEF Index, Indexes, IndexStates
<1>6. docs \in [Profiles -> Docs]
  BY <1>1, <1>2 DEF Docs
<1>7. cmd \in [Commands -> CommandStates] /\ \A c \in Commands : cmd[c].phase = "ready"
  <2> DEFINE Ready == {[phase |-> "ready", kind |-> k, profile |-> p,
                        version |-> MaxVersion, base |-> NoEntries] :
                       k \in Kinds, p \in Profiles}
  <2>1. \A x \in Ready : x \in CommandStates /\ x.phase = "ready"
    BY <1>2, NoEntriesType, ProfilesAssumption DEF CommandStates, CommandPhases
  <2>2. cmd \in [Commands -> Ready]
    BY DEF Init
  <2>3. QED
    BY <2>1, <2>2
<1>8. req \in [Requests -> RequestStates]
  <2> DEFINE Idle == {[phase |-> "idle", profile |-> p, doc |-> NoDoc] : p \in Profiles}
  <2>1. \A x \in Idle : x \in RequestStates
    BY DEF RequestStates, RequestPhases
  <2>2. req \in [Requests -> Idle]
    BY DEF Init
  <2>3. QED
    BY <2>1, <2>2
<1>9. Unfinished = {} /\ overtaken = {} /\ torn = {} /\ disturbed = FALSE /\ edits = 0
  BY <1>7 DEF Init, Unfinished
<1>10. seenIndex = {index} /\ seenDocs = [p \in Profiles |-> {docs[p]}]
  BY DEF Init
<1>11. seenDocs \in [Profiles -> SUBSET Docs]
  BY <1>6, <1>10
<1>12. StateOK
  <2>1. index \in seenIndex /\ seenIndex \subseteq Indexes
    BY <1>5, <1>10
  <2>2. /\ overtaken \subseteq Unfinished /\ torn \subseteq Profiles
        /\ disturbed \in BOOLEAN
    BY <1>9
  <2>a. edits \in 0..MaxEdits
    BY <1>9, ProfilesAssumption
  <2>3. QED
    BY <1>5, <1>6, <1>7, <1>8, <1>11, <2>1, <2>2, <2>a DEF StateOK, Docs
<1>13. BaseCurrent /\ CorruptNotRead
  BY <1>5, <1>9 DEF BaseCurrent, CorruptNotRead
<1>14. DocCurrent
  BY <1>7 DEF DocCurrent
<1>15. \A p \in Profiles : Matching(p)
  <2> SUFFICES ASSUME NEW p \in Profiles PROVE Matching(p)
    OBVIOUS
  <2>1. docs[p] = IF p \in published THEN 1 ELSE NoDoc
    BY <1>1
  <2>2. p \in published => index.entries[p].version = 1
    BY <1>5
  <2>3. QED
    BY <1>5, <2>1, <2>2 DEF Matching, Listed, NoDoc
<1>16. StoreConsistent
  BY <1>15 DEF StoreConsistent
<1>17. QED
  BY <1>12, <1>13, <1>14, <1>16 DEF IInv

\* What a write of a document changes.
LEMMA PutDocEffect ==
    ASSUME StateOK, NEW p \in Profiles, NEW d \in Docs, PutDoc(p, d)
    PROVE  /\ docs' \in [Profiles -> Docs]
           /\ seenDocs' \in [Profiles -> SUBSET Docs]
           /\ docs'[p] = d
           /\ \A q \in Profiles : q # p => docs'[q] = docs[q]
           /\ index' = index /\ seenIndex' = seenIndex
<1>1. docs \in [Profiles -> Docs] /\ seenDocs \in [Profiles -> SUBSET Docs]
  BY DEF StateOK, Docs
<1>2. docs' = [docs EXCEPT ![p] = d]
  BY DEF PutDoc
<1>3. seenDocs' = [seenDocs EXCEPT ![p] = IF Late THEN seenDocs[p] \cup {d} ELSE {d}]
  BY DEF PutDoc
<1>4. seenDocs' \in [Profiles -> SUBSET Docs]
  BY <1>1, <1>3
<1>5. QED
  BY <1>1, <1>2, <1>4 DEF PutDoc

\* What a write of the index changes.
LEMMA PutIndexEffect ==
    ASSUME StateOK, NEW state \in IndexStates, NEW f \in EntryMaps, PutIndex(Index(state, f))
    PROVE  /\ index'.state = state /\ index'.entries = f /\ index' \in Indexes
           /\ index' \in seenIndex' /\ seenIndex' \subseteq Indexes
           /\ docs' = docs /\ seenDocs' = seenDocs
<1>1. index' = [state |-> state, entries |-> f]
  BY DEF PutIndex, Index
<1>2. index' \in Indexes
  BY <1>1 DEF Indexes
<1>3. seenIndex' = IF Late THEN seenIndex \cup {index'} ELSE {index'}
  BY DEF PutIndex
<1>4. QED
  BY <1>1, <1>2, <1>3 DEF PutIndex, StateOK

\* What a run's change of phase leaves as it was.
LEMMA SetPhaseEffect ==
    ASSUME StateOK, NEW c \in Commands, NEW phase \in CommandPhases, SetPhase(c, phase)
    PROVE  /\ cmd' \in [Commands -> CommandStates]
           /\ cmd'[c].phase = phase
           /\ cmd'[c].profile = cmd[c].profile /\ cmd'[c].kind = cmd[c].kind
           /\ cmd'[c].version = cmd[c].version
           /\ phase = "midway" => cmd'[c].base = cmd[c].base
           /\ \A d \in Commands : d # c => cmd'[d] = cmd[d]
<1> DEFINE new == [phase |-> phase, kind |-> cmd[c].kind, profile |-> cmd[c].profile,
                   version |-> cmd[c].version,
                   base |-> IF phase = "midway" THEN cmd[c].base ELSE NoEntries]
<1>1. cmd' = [cmd EXCEPT ![c] = new]
  BY DEF SetPhase
<1>2. cmd \in [Commands -> CommandStates] /\ cmd[c] \in CommandStates
  BY DEF StateOK
<1>3. new \in CommandStates
  BY <1>2, NoEntriesType DEF CommandStates
<1>4. cmd' \in [Commands -> CommandStates] /\ cmd'[c] = new
        /\ \A d \in Commands : d # c => cmd'[d] = cmd[d]
  BY <1>1, <1>2, <1>3
<1>5. QED
  BY <1>4

\* The parts of a run's state.
LEMMA CommandParts ==
    ASSUME StateOK, NEW c \in Commands
    PROVE  /\ cmd[c].profile \in Profiles /\ cmd[c].version \in Versions
           /\ cmd[c].base \in EntryMaps /\ cmd[c].kind \in {"put", "delete"}
           /\ NewDoc(c) \in Docs
BY DEF StateOK, CommandStates, NewDoc, Docs

-----------------------------------------------------------------------------
(* The steps.                                                              *)

LEMMA ReadIndexIInv ==
    ASSUME IInv, NEW c \in Commands, ReadIndex(c)
    PROVE  IInv'
<1>1. StateOK
  BY DEF IInv
<1>2. PICK v \in Versions, refused \in BOOLEAN :
        /\ cmd' = [cmd EXCEPT ![c] =
                     [phase |-> IF refused THEN "refused" ELSE "read",
                      kind |-> cmd[c].kind, profile |-> cmd[c].profile, version |-> v,
                      base |-> IF refused THEN NoEntries ELSE index.entries]]
        /\ index.state = "corrupt" => refused
  BY DEF ReadIndex, Refused
<1>3. cmd[c].phase = "ready" /\ UNCHANGED <<index, docs, seenIndex, seenDocs>>
        /\ UNCHANGED <<req, edits, overtaken, disturbed, torn>>
  BY DEF ReadIndex, store, history
<1> DEFINE new == [phase |-> IF refused THEN "refused" ELSE "read",
                   kind |-> cmd[c].kind, profile |-> cmd[c].profile, version |-> v,
                   base |-> IF refused THEN NoEntries ELSE index.entries]
<1>4. index.entries \in EntryMaps
  BY <1>1 DEF StateOK, Indexes
<1>5. new \in CommandStates
  BY <1>1, <1>4, NoEntriesType, CommandParts DEF CommandStates, CommandPhases
<1>6. /\ cmd' \in [Commands -> CommandStates] /\ cmd'[c] = new
      /\ \A d \in Commands : d # c => cmd'[d] = cmd[d]
  BY <1>1, <1>2, <1>5 DEF StateOK
<1>7. /\ Unfinished' = IF refused THEN Unfinished ELSE Unfinished \cup {c}
      /\ c \notin Unfinished
  BY <1>3, <1>6 DEF Unfinished
<1>8. StateOK'
  BY <1>1, <1>3, <1>6, <1>7 DEF StateOK
<1>9. BaseCurrent'
  <2> SUFFICES ASSUME NEW d \in Unfinished', d \notin overtaken
               PROVE  cmd'[d].base = index.entries
    BY <1>3 DEF BaseCurrent
  <2>1. CASE d = c
    BY <1>6, <1>7, <2>1
  <2>2. CASE d # c
    BY <1>6, <1>7, <2>2 DEF IInv, BaseCurrent, Unfinished
  <2>3. QED
    BY <2>1, <2>2
<1>10. \A d \in Commands : cmd'[d].phase = "midway" => d # c /\ cmd'[d] = cmd[d]
  BY <1>6
<1>11. DocCurrent'
  BY <1>3, <1>10 DEF IInv, DocCurrent, NewDoc
<1>12. CorruptNotRead'
  BY <1>2, <1>3, <1>7 DEF IInv, CorruptNotRead
<1>13. \A p \in Profiles : Midway(p)' = Midway(p)
  BY <1>3, <1>6 DEF Midway
<1>14. StoreConsistent'
  BY <1>3, <1>13 DEF IInv, StoreConsistent, Matching, Listed
<1>15. QED
  BY <1>8, <1>9, <1>11, <1>12, <1>14 DEF IInv

LEMMA WriteDocIInv ==
    ASSUME IInv, NEW c \in Commands, WriteDoc(c)
    PROVE  IInv'
<1> DEFINE p == cmd[c].profile
<1>1. StateOK
  BY DEF IInv
<1>2. p \in Profiles /\ NewDoc(c) \in Docs
  BY <1>1, CommandParts
<1>3. /\ cmd[c].phase = "read" /\ PutDoc(p, NewDoc(c)) /\ SetPhase(c, "midway")
      /\ overtaken' = overtaken \cup Midway(p)
      /\ UNCHANGED <<req, edits, disturbed, torn>>
  BY DEF WriteDoc
<1>4. /\ docs' \in [Profiles -> Docs] /\ seenDocs' \in [Profiles -> SUBSET Docs]
      /\ docs'[p] = NewDoc(c) /\ \A q \in Profiles : q # p => docs'[q] = docs[q]
      /\ index' = index /\ seenIndex' = seenIndex
  BY <1>1, <1>2, <1>3, PutDocEffect
<1>5. /\ cmd' \in [Commands -> CommandStates]
      /\ cmd'[c].phase = "midway"
      /\ cmd'[c].profile = cmd[c].profile /\ cmd'[c].kind = cmd[c].kind
      /\ cmd'[c].version = cmd[c].version /\ cmd'[c].base = cmd[c].base
      /\ \A d \in Commands : d # c => cmd'[d] = cmd[d]
  BY <1>1, <1>3, SetPhaseEffect DEF CommandPhases
<1>6. Unfinished' = Unfinished /\ c \in Unfinished
  BY <1>3, <1>5 DEF Unfinished
<1>7. Midway(p) \subseteq Unfinished
  BY DEF Midway, Unfinished
<1>8. StateOK'
  BY <1>1, <1>3, <1>4, <1>5, <1>6, <1>7 DEF StateOK, Docs
<1>9. BaseCurrent'
  <2> SUFFICES ASSUME NEW d \in Unfinished, d \notin overtaken
               PROVE  cmd'[d].base = index.entries
    BY <1>3, <1>4, <1>6 DEF BaseCurrent
  <2>1. cmd[d].base = index.entries /\ d \in Commands
    BY DEF IInv, BaseCurrent, Unfinished
  <2>2. QED
    BY <1>5, <2>1
<1>10. DocCurrent'
  <2> SUFFICES ASSUME NEW d \in Commands, d \notin overtaken', cmd'[d].phase = "midway"
               PROVE  docs'[cmd'[d].profile] = NewDoc(d)'
    BY DEF DocCurrent
  <2>1. CASE d = c
    BY <1>4, <1>5, <2>1 DEF NewDoc
  <2>2. CASE d # c
    <3>1. cmd'[d] = cmd[d] /\ d \notin overtaken /\ d \notin Midway(p)
      BY <1>3, <1>5, <2>2
    <3>2. cmd[d].profile # p /\ cmd[d].profile \in Profiles
      BY <1>1, <3>1, CommandParts DEF Midway
    <3>3. docs[cmd[d].profile] = NewDoc(d)
      BY <3>1 DEF IInv, DocCurrent
    <3>4. NewDoc(d)' = NewDoc(d)
      BY <3>1 DEF NewDoc
    <3>5. QED
      BY <1>4, <3>1, <3>2, <3>3, <3>4
  <2>3. QED
    BY <2>1, <2>2
<1>11. CorruptNotRead'
  BY <1>3, <1>4, <1>6 DEF IInv, CorruptNotRead
<1>12. StoreConsistent'
  <2> SUFFICES ASSUME ~disturbed, NEW q \in Profiles
               PROVE  Matching(q)' \/ q \in torn \/ Midway(q)' # {}
    BY <1>3 DEF StoreConsistent
  <2>1. CASE q = p
    BY <1>5, <2>1 DEF Midway
  <2>2. CASE q # p
    <3>1. Matching(q)' <=> Matching(q)
      BY <1>4, <2>2 DEF Matching, Listed
    <3>2. Midway(q) \subseteq Midway(q)'
      BY <1>3, <1>5 DEF Midway
    <3>3. QED
      BY <3>1, <3>2 DEF IInv, StoreConsistent
  <2>3. QED
    BY <2>1, <2>2
<1>13. QED
  BY <1>8, <1>9, <1>10, <1>11, <1>12 DEF IInv

\* What a run that has not been overtaken writes into the index.
LEMMA NextEntriesEffect ==
    ASSUME StateOK, NEW c \in Commands
    PROVE  /\ NextEntries(c) \in EntryMaps
           /\ DOMAIN NextEntries(c) \ {cmd[c].profile}
                = DOMAIN cmd[c].base \ {cmd[c].profile}
           /\ \A q \in DOMAIN cmd[c].base :
                 q # cmd[c].profile => NextEntries(c)[q] = cmd[c].base[q]
           /\ cmd[c].profile \in DOMAIN NextEntries(c) <=> cmd[c].kind = "put"
           /\ cmd[c].kind = "put" =>
                 /\ NextEntries(c)[cmd[c].profile].version = cmd[c].version
                 /\ cmd[c].profile \in DOMAIN cmd[c].base =>
                       NextEntries(c)[cmd[c].profile].enabled
                         = cmd[c].base[cmd[c].profile].enabled
<1> DEFINE p == cmd[c].profile
           f == cmd[c].base
           v == cmd[c].version
<1>1. p \in Profiles /\ f \in EntryMaps /\ v \in Versions /\ cmd[c].kind \in {"put", "delete"}
  BY CommandParts
<1>2. CASE cmd[c].kind = "put"
  <2> HIDE DEF p, f, v
  <2>1. /\ Merged(f, p, v) \in EntryMaps
        /\ DOMAIN Merged(f, p, v) = DOMAIN f \cup {p}
        /\ Merged(f, p, v)[p].version = v
        /\ p \in DOMAIN f => Merged(f, p, v)[p].enabled = f[p].enabled
        /\ \A q \in DOMAIN f : q # p => Merged(f, p, v)[q] = f[q]
    BY <1>1, MergedEntries
  <2>2. NextEntries(c) = Merged(f, p, v)
    BY <1>2 DEF NextEntries, p, f, v
  <2>3. QED
    BY <1>2, <2>1, <2>2 DEF p, f, v
<1>3. CASE cmd[c].kind = "delete"
  <2> HIDE DEF p, f, v
  <2>1. /\ Removed(f, p) \in EntryMaps
        /\ DOMAIN Removed(f, p) = DOMAIN f \ {p}
        /\ \A q \in DOMAIN f : q # p => Removed(f, p)[q] = f[q]
    BY <1>1, RemovedEntries
  <2>2. NextEntries(c) = Removed(f, p)
    BY <1>3 DEF NextEntries, p, f, v
  <2>3. QED
    BY <1>3, <2>1, <2>2 DEF p, f, v
<1>4. QED
  BY <1>1, <1>2, <1>3

LEMMA WriteIndexIInv ==
    ASSUME IInv, NEW c \in Commands, WriteIndex(c)
    PROVE  IInv'
<1> DEFINE p == cmd[c].profile
           next == NextEntries(c)
<1>1. StateOK
  BY DEF IInv
<1>2. /\ cmd[c].phase = "midway" /\ PutIndex(Index("valid", next))
      /\ overtaken' = (overtaken \cup Unfinished) \ {c}
      /\ disturbed' = (disturbed \/ c \in overtaken)
      /\ torn' = torn \ {p}
      /\ UNCHANGED <<req, edits>>
  BY DEF WriteIndex
<1>3. PICK phase \in {"done", "broken"} : SetPhase(c, phase)
  BY DEF WriteIndex
<1>4. next \in EntryMaps
  BY <1>1, NextEntriesEffect
<1>5. /\ index'.state = "valid" /\ index'.entries = next /\ index' \in Indexes
      /\ index' \in seenIndex' /\ seenIndex' \subseteq Indexes
      /\ docs' = docs /\ seenDocs' = seenDocs
  <2> HIDE DEF next
  <2>1. "valid" \in IndexStates
    BY DEF IndexStates
  <2>2. QED
    BY <1>1, <1>2, <1>4, <2>1, PutIndexEffect
<1>6. /\ cmd' \in [Commands -> CommandStates]
      /\ cmd'[c].phase = phase /\ cmd'[c].profile = p
      /\ \A d \in Commands : d # c => cmd'[d] = cmd[d]
  BY <1>1, <1>3, SetPhaseEffect DEF CommandPhases
<1>7. Unfinished' = Unfinished \ {c} /\ overtaken' = Unfinished'
  BY <1>1, <1>2, <1>6 DEF Unfinished, StateOK
<1>8. disturbed' \in BOOLEAN
  BY <1>2
<1>9. StateOK'
  BY <1>1, <1>2, <1>5, <1>6, <1>7, <1>8 DEF StateOK
<1>10. BaseCurrent' /\ CorruptNotRead'
  BY <1>7 DEF BaseCurrent, CorruptNotRead
<1>11. DocCurrent'
  BY <1>7 DEF DocCurrent, Unfinished
<1>12. StoreConsistent'
  <2> SUFFICES ASSUME ~disturbed', NEW q \in Profiles
               PROVE  Matching(q)' \/ q \in torn' \/ Midway(q)' # {}
    BY DEF StoreConsistent
  <2>1. ~disturbed /\ c \notin overtaken
    BY <1>2
  <2>2. cmd[c].base = index.entries /\ docs[p] = NewDoc(c)
    BY <1>2, <2>1 DEF IInv, BaseCurrent, DocCurrent, Unfinished
  <2>3. CASE q = p
    <3>1. p \in DOMAIN next <=> cmd[c].kind = "put"
      BY <1>1, NextEntriesEffect
    <3>2. cmd[c].kind = "put" => next[p].version = cmd[c].version
      BY <1>1, NextEntriesEffect
    <3>3. cmd[c].version # NoDoc
      BY <1>1, CommandParts DEF Versions, NoDoc
    <3>4. QED
      BY <1>5, <2>2, <2>3, <3>1, <3>2, <3>3 DEF Matching, Listed, NewDoc
  <2>4. CASE q # p
    <3>1. q \in DOMAIN next <=> q \in DOMAIN index.entries
      BY <1>1, <2>2, <2>4, NextEntriesEffect
    <3>2. q \in DOMAIN index.entries => next[q] = index.entries[q]
      BY <1>1, <2>2, <2>4, NextEntriesEffect
    <3>3. Matching(q)' <=> Matching(q)
      BY <1>5, <3>1, <3>2 DEF Matching, Listed
    <3>4. Midway(q) \subseteq Midway(q)'
      BY <1>6, <2>4 DEF Midway
    <3>5. q \in torn => q \in torn'
      BY <1>2, <2>4
    <3>6. QED
      BY <2>1, <3>3, <3>4, <3>5 DEF IInv, StoreConsistent
  <2>5. QED
    BY <2>3, <2>4
<1>13. QED
  BY <1>9, <1>10, <1>11, <1>12 DEF IInv

LEMMA BreakOffIInv ==
    ASSUME IInv, NEW c \in Commands, BreakOff(c)
    PROVE  IInv'
<1> DEFINE p == cmd[c].profile
<1>1. StateOK /\ p \in Profiles
  BY CommandParts DEF IInv
<1>2. /\ c \in Unfinished /\ SetPhase(c, "broken")
      /\ torn' = IF cmd[c].phase = "midway" THEN torn \cup {p} ELSE torn
      /\ overtaken' = overtaken \ {c}
      /\ UNCHANGED <<index, docs, seenIndex, seenDocs, req, edits, disturbed>>
  BY DEF BreakOff, store
<1>3. /\ cmd' \in [Commands -> CommandStates]
      /\ cmd'[c].phase = "broken"
      /\ \A d \in Commands : d # c => cmd'[d] = cmd[d]
  BY <1>1, <1>2, SetPhaseEffect DEF CommandPhases
<1>4. Unfinished' = Unfinished \ {c}
  BY <1>3 DEF Unfinished
<1>5. StateOK'
  BY <1>1, <1>2, <1>3, <1>4 DEF StateOK
<1>6. BaseCurrent'
  BY <1>2, <1>3, <1>4 DEF IInv, BaseCurrent, Unfinished
<1>7. CorruptNotRead'
  BY <1>2, <1>4 DEF IInv, CorruptNotRead
<1>8. DocCurrent'
  BY <1>2, <1>3 DEF IInv, DocCurrent, NewDoc
<1>9. StoreConsistent'
  <2> SUFFICES ASSUME ~disturbed, NEW q \in Profiles
               PROVE  Matching(q)' \/ q \in torn' \/ Midway(q)' # {}
    BY <1>2 DEF StoreConsistent
  <2>1. Matching(q)' <=> Matching(q)
    BY <1>2 DEF Matching, Listed
  <2>2. torn \subseteq torn'
    BY <1>2
  <2>3. Midway(q) \subseteq Midway(q)' \/ q \in torn'
    BY <1>2, <1>3 DEF Midway
  <2>4. QED
    BY <2>1, <2>2, <2>3 DEF IInv, StoreConsistent
<1>10. QED
  BY <1>5, <1>6, <1>7, <1>8, <1>9 DEF IInv

\* An operator changes whether a profile is enabled.
LEMMA ToggleIInv ==
    ASSUME IInv, NEW p \in Profiles, Toggle(p)
    PROVE  IInv'
<1> DEFINE f == [q \in DOMAIN index.entries |->
                   IF q = p THEN [version |-> index.entries[p].version,
                                  enabled |-> ~index.entries[p].enabled]
                   ELSE index.entries[q]]
<1>1. StateOK
  BY DEF IInv
<1>2. /\ edits < MaxEdits /\ Listed(index, p)
      /\ PutIndex(Index("valid", f))
      /\ edits' = edits + 1
      /\ overtaken' = overtaken \cup Unfinished
      /\ UNCHANGED <<cmd, req, disturbed, torn>>
  BY DEF Toggle
<1>3. /\ DOMAIN index.entries \subseteq Profiles
      /\ index.entries \in [DOMAIN index.entries -> Entries]
  BY <1>1, EntryMapDomain DEF StateOK, Indexes
<1>4. \A q \in DOMAIN index.entries : f[q] \in Entries /\ f[q].version = index.entries[q].version
  BY <1>3 DEF Entries
<1>5. f \in [DOMAIN index.entries -> Entries]
  BY <1>4
<1>6. f \in EntryMaps /\ DOMAIN f = DOMAIN index.entries
  BY <1>3, <1>5, EntryMapIntro
<1>7. /\ index'.state = "valid" /\ index'.entries = f /\ index' \in Indexes
      /\ index' \in seenIndex' /\ seenIndex' \subseteq Indexes
      /\ docs' = docs /\ seenDocs' = seenDocs
  <2> HIDE DEF f
  <2>1. "valid" \in IndexStates
    BY DEF IndexStates
  <2>2. QED
    BY <1>1, <1>2, <1>6, <2>1, PutIndexEffect
<1>8. Unfinished' = Unfinished /\ overtaken' = Unfinished
  BY <1>1, <1>2 DEF Unfinished, StateOK
<1>9. edits' \in 0..MaxEdits
  BY <1>1, <1>2, ProfilesAssumption DEF StateOK
<1>10. StateOK'
  BY <1>1, <1>2, <1>7, <1>8, <1>9 DEF StateOK
<1>11. BaseCurrent' /\ CorruptNotRead'
  BY <1>8 DEF BaseCurrent, CorruptNotRead
<1>12. DocCurrent'
  BY <1>2, <1>8 DEF DocCurrent, Unfinished
<1>13. StoreConsistent'
  <2> SUFFICES ASSUME ~disturbed, NEW q \in Profiles
               PROVE  Matching(q)' \/ q \in torn \/ Midway(q)' # {}
    BY <1>2 DEF StoreConsistent
  <2>1. Matching(q)' <=> Matching(q)
    BY <1>4, <1>6, <1>7 DEF Matching, Listed
  <2>2. Midway(q)' = Midway(q)
    BY <1>2 DEF Midway
  <2>3. QED
    BY <2>1, <2>2 DEF IInv, StoreConsistent
<1>14. QED
  BY <1>10, <1>11, <1>12, <1>13 DEF IInv

\* An operator damages the index: every run that has read it is overtaken.
LEMMA DamageIInv ==
    ASSUME IInv, Damage
    PROVE  IInv'
<1>1. StateOK
  BY DEF IInv
<1>2. /\ edits < MaxEdits /\ edits' = edits + 1
      /\ overtaken' = overtaken \cup Unfinished /\ disturbed' = TRUE
      /\ UNCHANGED <<cmd, req, torn>>
  BY DEF Damage
<1>3. PICK state \in {"blank", "corrupt"} : PutIndex(Index(state, NoEntries))
  BY DEF Damage
<1>4. /\ index' \in Indexes
      /\ index' \in seenIndex' /\ seenIndex' \subseteq Indexes
      /\ docs' = docs /\ seenDocs' = seenDocs
  <2>1. state \in IndexStates
    BY DEF IndexStates
  <2>2. QED
    BY <1>1, <1>3, <2>1, NoEntriesType, PutIndexEffect
<1>5. Unfinished' = Unfinished /\ overtaken' = Unfinished
  BY <1>1, <1>2 DEF Unfinished, StateOK
<1>6. edits' \in 0..MaxEdits
  BY <1>1, <1>2, ProfilesAssumption DEF StateOK
<1>7. StateOK'
  BY <1>1, <1>2, <1>4, <1>5, <1>6 DEF StateOK
<1>8. BaseCurrent' /\ CorruptNotRead' /\ StoreConsistent'
  BY <1>2, <1>5 DEF BaseCurrent, CorruptNotRead, StoreConsistent
<1>9. DocCurrent'
  BY <1>2, <1>5 DEF DocCurrent, Unfinished
<1>10. QED
  BY <1>7, <1>8, <1>9 DEF IInv

\* An operator damages a document.
LEMMA SpoilIInv ==
    ASSUME IInv, NEW p \in Profiles, Spoil(p)
    PROVE  IInv'
<1>1. StateOK /\ BadDoc \in Docs
  BY DEF IInv, Docs
<1>2. /\ edits < MaxEdits /\ edits' = edits + 1 /\ docs[p] # NoDoc
      /\ PutDoc(p, BadDoc)
      /\ overtaken' = overtaken \cup Midway(p)
      /\ UNCHANGED <<cmd, req, disturbed, torn>>
  BY DEF Spoil
<1>3. /\ docs' \in [Profiles -> Docs] /\ seenDocs' \in [Profiles -> SUBSET Docs]
      /\ docs'[p] = BadDoc /\ \A q \in Profiles : q # p => docs'[q] = docs[q]
      /\ index' = index /\ seenIndex' = seenIndex
  BY <1>1, <1>2, PutDocEffect
<1>4. Unfinished' = Unfinished /\ Midway(p) \subseteq Unfinished
  BY <1>2 DEF Unfinished, Midway
<1>5. edits' \in 0..MaxEdits
  BY <1>1, <1>2, ProfilesAssumption DEF StateOK
<1>6. StateOK'
  BY <1>1, <1>2, <1>3, <1>4, <1>5 DEF StateOK, Docs
<1>7. BaseCurrent' /\ CorruptNotRead'
  BY <1>2, <1>3, <1>4 DEF IInv, BaseCurrent, CorruptNotRead
<1>8. DocCurrent'
  <2> SUFFICES ASSUME NEW d \in Commands, d \notin overtaken, d \notin Midway(p),
                      cmd[d].phase = "midway"
               PROVE  docs'[cmd[d].profile] = NewDoc(d)
    BY <1>2 DEF DocCurrent, NewDoc
  <2>1. cmd[d].profile # p /\ cmd[d].profile \in Profiles
    BY <1>1, CommandParts DEF Midway
  <2>2. docs[cmd[d].profile] = NewDoc(d)
    BY DEF IInv, DocCurrent
  <2>3. QED
    BY <1>3, <2>1, <2>2
<1>9. StoreConsistent'
  <2> SUFFICES ASSUME ~disturbed, NEW q \in Profiles
               PROVE  Matching(q)' \/ q \in torn \/ Midway(q)' # {}
    BY <1>2 DEF StoreConsistent
  <2>1. Matching(q) => Matching(q)'
    BY <1>2, <1>3 DEF Matching, Listed, NoDoc, BadDoc
  <2>2. Midway(q)' = Midway(q)
    BY <1>2 DEF Midway
  <2>3. QED
    BY <2>1, <2>2 DEF IInv, StoreConsistent
<1>10. QED
  BY <1>6, <1>7, <1>8, <1>9 DEF IInv

\* The Worker only reads.
LEMMA ReaderIInv ==
    ASSUME IInv, req' \in [Requests -> RequestStates],
           UNCHANGED <<index, docs, seenIndex, seenDocs, cmd, edits,
                       overtaken, disturbed, torn>>
    PROVE  IInv'
<1>1. Unfinished' = Unfinished /\ \A p \in Profiles : Midway(p)' = Midway(p)
  BY DEF Unfinished, Midway
<1>2. StateOK'
  BY <1>1 DEF IInv, StateOK
<1>3. BaseCurrent' /\ DocCurrent' /\ CorruptNotRead'
  BY <1>1 DEF IInv, BaseCurrent, DocCurrent, CorruptNotRead, NewDoc
<1>4. StoreConsistent'
  BY <1>1 DEF IInv, StoreConsistent, Matching, Listed
<1>5. QED
  BY <1>2, <1>3, <1>4 DEF IInv

\* An answer keeps the tool calls well-typed.
LEMMA AnswerType ==
    ASSUME StateOK, NEW r \in Requests, NEW phase \in RequestPhases,
           NEW d \in {NoDoc} \cup Versions, Answer(r, phase, d)
    PROVE  req' \in [Requests -> RequestStates]
<1>1. req[r].profile \in Profiles
  BY DEF StateOK, RequestStates
<1>2. [phase |-> phase, profile |-> req[r].profile, doc |-> d] \in RequestStates
  BY <1>1 DEF RequestStates
<1>3. QED
  BY <1>2 DEF StateOK, Answer

LEMMA PropagateIInv ==
    ASSUME IInv, Propagate
    PROVE  IInv'
<1>1. /\ seenIndex' = {index} /\ seenDocs' = [p \in Profiles |-> {docs[p]}]
      /\ UNCHANGED <<index, docs, cmd, req, edits, overtaken, disturbed, torn>>
  BY DEF Propagate, history
<1>2. Unfinished' = Unfinished /\ \A p \in Profiles : Midway(p)' = Midway(p)
  BY <1>1 DEF Unfinished, Midway
<1>3. seenDocs' \in [Profiles -> SUBSET Docs]
  BY <1>1 DEF IInv, StateOK, Docs
<1>4. StateOK'
  BY <1>1, <1>2, <1>3 DEF IInv, StateOK, Docs
<1>5. BaseCurrent' /\ DocCurrent' /\ CorruptNotRead'
  BY <1>1, <1>2 DEF IInv, BaseCurrent, DocCurrent, CorruptNotRead, NewDoc
<1>6. StoreConsistent'
  BY <1>1, <1>2 DEF IInv, StoreConsistent, Matching, Listed
<1>7. QED
  BY <1>4, <1>5, <1>6 DEF IInv

LEMMA NextIInv == IInv /\ [Next]_vars => IInv'
<1> SUFFICES ASSUME IInv, [Next]_vars PROVE IInv'
  OBVIOUS
<1>1. ASSUME NEW c \in Commands,
             ReadIndex(c) \/ WriteDoc(c) \/ WriteIndex(c) \/ BreakOff(c)
      PROVE  IInv'
  BY <1>1, ReadIndexIInv, WriteDocIInv, WriteIndexIInv, BreakOffIInv
<1>2. ASSUME NEW p \in Profiles, Toggle(p) \/ Spoil(p)
      PROVE  IInv'
  BY <1>2, ToggleIInv, SpoilIInv
<1>3. CASE Damage
  BY <1>3, DamageIInv
<1>4. ASSUME NEW r \in Requests,
             Unavailable(r) \/ FindEntry(r) \/ LoadIndex(r) \/ LoadDoc(r)
      PROVE  IInv'
  <2>1. UNCHANGED <<index, docs, seenIndex, seenDocs, cmd, edits,
                    overtaken, disturbed, torn>>
    BY <1>4 DEF Unavailable, FindEntry, LoadIndex, LoadDoc, store, history
  <2>2. PICK phase \in RequestPhases, d \in {NoDoc} \cup Versions : Answer(r, phase, d)
    <3>1. CASE Unavailable(r)
      BY <3>1 DEF Unavailable, RequestPhases
    <3>2. CASE FindEntry(r)
      BY <3>2 DEF FindEntry, RequestPhases
    <3>3. CASE LoadIndex(r)
      BY <3>3 DEF LoadIndex, RequestPhases
    <3>4. CASE LoadDoc(r)
      BY <3>4 DEF LoadDoc, RequestPhases
    <3>5. QED
      BY <1>4, <3>1, <3>2, <3>3, <3>4
  <2>3. StateOK
    BY DEF IInv
  <2>4. req' \in [Requests -> RequestStates]
    BY <2>2, <2>3, AnswerType
  <2>5. QED
    BY <2>1, <2>4, ReaderIInv
<1>5. CASE Propagate
  BY <1>5, PropagateIInv
<1>6. CASE UNCHANGED vars
  <2>1. req' \in [Requests -> RequestStates]
    BY <1>6 DEF vars, IInv, StateOK
  <2>2. QED
    BY <1>6, <2>1, ReaderIInv DEF vars, store, history
<1>7. QED
  BY <1>1, <1>2, <1>3, <1>4, <1>5, <1>6 DEF Next, Step

-----------------------------------------------------------------------------
(* The theorems.                                                           *)

\* The inductive invariant holds in every state.
THEOREM Invariance == Spec => []IInv
<1>1. Init => IInv
  BY InitIInv
<1>2. IInv /\ [Next]_vars => IInv'
  BY NextIInv
<1>3. QED
  BY <1>1, <1>2, PTL DEF Spec

\* Every state is well-typed.
THEOREM TypeCorrect == Spec => []TypeOK
<1> DEFINE Initially == published \in Published
<1>1. Init => Initially
  BY DEF Init
<1>2. Initially /\ [Next]_vars => Initially'
  BY DEF Next, vars
<1>3. IInv /\ Initially => TypeOK
  BY DEF IInv, TypeOK
<1> HIDE DEF Initially
<1>4. QED
  BY <1>1, <1>2, <1>3, Invariance, PTL DEF Spec

\* putProfileToKv and deleteProfileFromKv keep the index and the documents in
\* agreement unless they overtake one another, crashes included.
THEOREM Consistency == Spec => []StoreConsistent
<1>1. IInv => StoreConsistent
  BY DEF IInv
<1>2. QED
  BY <1>1, Invariance, PTL

\* The index and a run's state change together only when the run writes the
\* index.
LEMMA WritingIsWriteIndex ==
    ASSUME StateOK, Next, NEW c \in Writing
    PROVE  WriteIndex(c)
<1>1. c \in Commands /\ index' # index /\ cmd'[c] # cmd[c]
  BY DEF Writing
<1>2. ASSUME NEW d \in Commands, ReadIndex(d) \/ BreakOff(d) PROVE FALSE
  BY <1>1, <1>2 DEF ReadIndex, BreakOff, store
<1>3. ASSUME NEW d \in Commands, WriteDoc(d) PROVE FALSE
  BY <1>1, <1>3 DEF WriteDoc, PutDoc
<1>4. ASSUME NEW d \in Commands, WriteIndex(d) PROVE d = c
  <2>1. PICK phase \in CommandPhases : SetPhase(d, phase)
    BY <1>4 DEF WriteIndex, CommandPhases
  <2>2. d # c => cmd'[c] = cmd[c]
    BY <1>1, <2>1, SetPhaseEffect
  <2>3. QED
    BY <1>1, <2>2
<1>5. ASSUME NEW p \in Profiles, Toggle(p) \/ Spoil(p) PROVE FALSE
  BY <1>1, <1>5 DEF Toggle, Spoil
<1>6. ASSUME Damage PROVE FALSE
  BY <1>1, <1>6 DEF Damage
<1>7. ASSUME NEW r \in Requests,
             Unavailable(r) \/ FindEntry(r) \/ LoadIndex(r) \/ LoadDoc(r)
      PROVE  FALSE
  BY <1>1, <1>7 DEF Unavailable, FindEntry, LoadIndex, LoadDoc
<1>8. ASSUME Propagate PROVE FALSE
  BY <1>1, <1>8 DEF Propagate
<1>9. QED
  BY <1>2, <1>3, <1>4, <1>5, <1>6, <1>7, <1>8 DEF Next, Step

\* A run that has not been overtaken changes one entry and never enables or
\* disables a profile (mergeProfileIntoIndex, removeProfileFromIndex).
THEOREM OthersAreKept == Spec => OthersKept
<1>1. ASSUME IInv, [Next]_vars PROVE [KeepsOthers]_vars
  <2> SUFFICES ASSUME Next, NEW c \in Writing \ overtaken
               PROVE  /\ DOMAIN index.entries \ {cmd[c].profile}
                           = DOMAIN index'.entries \ {cmd[c].profile}
                      /\ \A q \in DOMAIN index.entries :
                            /\ q # cmd[c].profile => index'.entries[q] = index.entries[q]
                            /\ q \in DOMAIN index'.entries =>
                                  index'.entries[q].enabled = index.entries[q].enabled
    BY <1>1 DEF KeepsOthers
  <2>1. StateOK /\ c \in Commands /\ cmd[c].phase = "midway"
    BY <1>1 DEF IInv, Writing
  <2>2. WriteIndex(c)
    BY <2>1, WritingIsWriteIndex
  <2>3. cmd[c].base = index.entries
    BY <1>1, <2>1 DEF IInv, BaseCurrent, Unfinished
  <2>4. index'.entries = NextEntries(c)
    BY <2>2 DEF WriteIndex, PutIndex, Index
  <2>5. /\ DOMAIN NextEntries(c) \ {cmd[c].profile}
             = DOMAIN index.entries \ {cmd[c].profile}
        /\ \A q \in DOMAIN index.entries :
              q # cmd[c].profile => NextEntries(c)[q] = index.entries[q]
        /\ cmd[c].profile \in DOMAIN NextEntries(c) <=> cmd[c].kind = "put"
        /\ cmd[c].kind = "put" /\ cmd[c].profile \in DOMAIN index.entries =>
              NextEntries(c)[cmd[c].profile].enabled
                = index.entries[cmd[c].profile].enabled
    BY <2>1, <2>3, NextEntriesEffect
  <2>6. QED
    BY <2>4, <2>5
<1>2. QED
  BY <1>1, Invariance, PTL DEF Spec, OthersKept

\* A run that goes on over a corrupt index had read it before the damage
\* (readValidatedIndex).
THEOREM CorruptIsKept == Spec => CorruptKept
<1>1. ASSUME IInv, [Next]_vars PROVE [SparesCorrupt]_vars
  BY <1>1 DEF IInv, CorruptNotRead, SparesCorrupt, Writing, Unfinished
<1>2. QED
  BY <1>1, Invariance, PTL DEF Spec, CorruptKept

-----------------------------------------------------------------------------
(* Tool calls during republication.                                        *)

\* Nothing has been edited by hand, and only puts have begun.
Quiet == edits = 0 /\ \A c \in Commands : cmd[c].phase # "ready" => cmd[c].kind = "put"

\* The profiles published at the start are there and enabled.
Keeps(entries) == \A p \in published : p \in DOMAIN entries /\ entries[p].enabled

Shows(ix) == ~Unreadable(ix) /\ Keeps(ix.entries)

\* They are in all that Workers may see and in all that runs go by.
Undisturbed ==
    /\ \A ix \in seenIndex : Shows(ix)
    /\ \A p \in published : docs[p] \in Versions /\ seenDocs[p] \subseteq Versions
    /\ \A c \in Unfinished : Keeps(cmd[c].base)
    /\ \A r \in Requests : req[r].phase = "failed" => req[r].profile \notin published

Serving == published \subseteq Profiles /\ (Quiet => Undisturbed)

LEMMA InitServing == Init => Serving
<1> SUFFICES ASSUME Init PROVE Serving
  OBVIOUS
<1>0. published \in Published /\ InitialStore(published)
  BY DEF Init
<1> DEFINE entries == [p \in published |-> [version |-> 1, enabled |-> TRUE]]
<1>1. /\ index = Index(IF published = {} THEN "absent" ELSE "valid", entries)
      /\ docs = [p \in Profiles |-> IF p \in published THEN 1 ELSE NoDoc]
  BY <1>0 DEF InitialStore
<1>2. published \subseteq Profiles /\ 1 \in Versions
  BY <1>0, ProfilesAssumption DEF Versions
<1>3. index.entries = entries /\ index.state \in {"absent", "valid"}
  BY <1>1 DEF Index
<1>4. Shows(index)
  BY <1>3 DEF Shows, Keeps, Unreadable
<1>5. seenIndex = {index} /\ seenDocs = [p \in Profiles |-> {docs[p]}]
  BY DEF Init
<1>6. \A p \in published : docs[p] \in Versions /\ seenDocs[p] \subseteq Versions
  BY <1>1, <1>2, <1>5
<1>7. \A c \in Commands : cmd[c].phase = "ready"
  BY DEF Init
<1>8. \A r \in Requests : req[r].phase = "idle"
  BY DEF Init
<1>9. Undisturbed
  BY <1>4, <1>5, <1>6, <1>7, <1>8 DEF Undisturbed, Unfinished
<1> QED
  BY <1>2, <1>9 DEF Serving

LEMMA ReadIndexServing ==
    ASSUME StateOK, Serving, NEW c \in Commands, ReadIndex(c), published' = published, Quiet'
    PROVE  Undisturbed'
<1>1. cmd[c].phase = "ready" /\ UNCHANGED <<index, docs, seenIndex, seenDocs, req, edits>>
  BY DEF ReadIndex, store
<1>2. PICK v \in Versions, refused \in BOOLEAN :
          cmd' = [cmd EXCEPT ![c] =
                    [phase |-> IF refused THEN "refused" ELSE "read",
                     kind |-> cmd[c].kind, profile |-> cmd[c].profile, version |-> v,
                     base |-> IF refused THEN NoEntries ELSE index.entries]]
  BY DEF ReadIndex
<1>3. cmd \in [Commands -> CommandStates]
  BY DEF StateOK
<1>4. \A d \in Commands : d # c => cmd'[d] = cmd[d]
  BY <1>2, <1>3
<1>5. cmd'[c].phase = "read" => cmd'[c].base = index.entries
  BY <1>2, <1>3
<1>6. cmd'[c].phase \in {"read", "refused"}
  BY <1>2, <1>3
<1>7. Quiet
  BY <1>1, <1>4 DEF Quiet
<1>8. Undisturbed /\ index \in seenIndex
  BY <1>7 DEF Serving, StateOK
<1>9. Keeps(index.entries)
  BY <1>8 DEF Undisturbed, Shows
<1>10. ASSUME NEW d \in Unfinished' PROVE Keeps(cmd'[d].base)
  <2>1. CASE d = c
    BY <2>1, <1>5, <1>6, <1>9, <1>10 DEF Unfinished
  <2>2. CASE d # c
    <3>1. d \in Unfinished
      BY <2>2, <1>4, <1>10 DEF Unfinished
    <3> QED
      BY <2>2, <3>1, <1>4, <1>8, <1>10 DEF Undisturbed, Unfinished
  <2> QED
    BY <2>1, <2>2
<1> QED
  BY <1>1, <1>8, <1>10 DEF Undisturbed, Keeps, Shows

LEMMA WriteDocServing ==
    ASSUME StateOK, Serving, NEW c \in Commands, WriteDoc(c), published' = published, Quiet'
    PROVE  Undisturbed'
<1> DEFINE p == cmd[c].profile
<1>1. /\ cmd[c].phase = "read" /\ PutDoc(p, NewDoc(c)) /\ SetPhase(c, "midway")
      /\ UNCHANGED <<index, seenIndex, req, edits>>
  BY DEF WriteDoc, PutDoc
<1>2. /\ cmd'[c].phase = "midway" /\ cmd'[c].kind = cmd[c].kind /\ cmd'[c].base = cmd[c].base
      /\ \A d \in Commands : d # c => cmd'[d] = cmd[d]
  BY <1>1, SetPhaseEffect DEF CommandPhases
<1>3. cmd[c].kind = "put"
  BY <1>2 DEF Quiet
<1>4. Quiet
  BY <1>1, <1>2, <1>3 DEF Quiet
<1>5. Undisturbed
  BY <1>4 DEF Serving
<1>6. p \in Profiles /\ NewDoc(c) \in Versions
  BY <1>3, CommandParts DEF NewDoc
<1>7. docs \in [Profiles -> Docs] /\ seenDocs \in [Profiles -> SUBSET Docs]
  BY DEF StateOK, Docs
<1>8. /\ docs' = [docs EXCEPT ![p] = NewDoc(c)]
      /\ seenDocs' = [seenDocs EXCEPT ![p] = IF Late THEN seenDocs[p] \cup {NewDoc(c)}
                                             ELSE {NewDoc(c)}]
  BY <1>1 DEF PutDoc
<1>9. published \subseteq Profiles
  BY DEF Serving
<1>10. \A q \in published : docs'[q] \in Versions /\ seenDocs'[q] \subseteq Versions
  <2> HIDE DEF p
  <2> SUFFICES ASSUME NEW q \in published
               PROVE  docs'[q] \in Versions /\ seenDocs'[q] \subseteq Versions
    OBVIOUS
  <2>1. docs[q] \in Versions /\ seenDocs[q] \subseteq Versions /\ q \in Profiles
    BY <1>5, <1>9 DEF Undisturbed
  <2>2. CASE q = p
    BY <2>1, <2>2, <1>6, <1>7, <1>8
  <2>3. CASE q # p
    BY <2>1, <2>3, <1>7, <1>8
  <2> QED
    BY <2>2, <2>3
<1>11. \A d \in Unfinished' : d \in Unfinished /\ cmd'[d].base = cmd[d].base
  BY <1>1, <1>2 DEF Unfinished
<1> QED
  BY <1>1, <1>5, <1>10, <1>11 DEF Undisturbed, Keeps, Shows

LEMMA WriteIndexServing ==
    ASSUME StateOK, Serving, NEW c \in Commands, WriteIndex(c), published' = published, Quiet'
    PROVE  Undisturbed'
<1> DEFINE next == NextEntries(c)
<1>1. /\ cmd[c].phase = "midway" /\ PutIndex(Index("valid", next))
      /\ UNCHANGED <<docs, seenDocs, req, edits>>
  BY DEF WriteIndex, PutIndex
<1>2. PICK phase \in {"done", "broken"} : SetPhase(c, phase)
  BY DEF WriteIndex
<1>3. /\ cmd'[c].phase \in {"done", "broken"} /\ cmd'[c].kind = cmd[c].kind
      /\ \A d \in Commands : d # c => cmd'[d] = cmd[d]
  BY <1>2, SetPhaseEffect DEF CommandPhases
<1>4. cmd[c].kind = "put"
  BY <1>3 DEF Quiet
<1>5. Quiet
  BY <1>1, <1>3, <1>4 DEF Quiet
<1>6. Undisturbed
  BY <1>5 DEF Serving
<1>7. Keeps(cmd[c].base)
  BY <1>1, <1>6 DEF Undisturbed, Unfinished
<1>8. Keeps(next)
  <2> SUFFICES ASSUME NEW q \in published PROVE q \in DOMAIN next /\ next[q].enabled
    BY DEF Keeps
  <2>1. q \in DOMAIN cmd[c].base /\ cmd[c].base[q].enabled
    BY <1>7 DEF Keeps
  <2>2. CASE q = cmd[c].profile
    BY <2>1, <2>2, <1>4, NextEntriesEffect
  <2>3. CASE q # cmd[c].profile
    BY <2>1, <2>3, NextEntriesEffect
  <2> QED
    BY <2>2, <2>3
<1> HIDE DEF next
<1>9. index'.state = "valid" /\ index'.entries = next
  BY <1>1 DEF PutIndex, Index
<1>10. seenIndex' \subseteq seenIndex \cup {index'}
  BY <1>1 DEF PutIndex
<1>11. \A ix \in seenIndex' : ~Unreadable(ix) /\ Keeps(ix.entries)
  BY <1>6, <1>8, <1>9, <1>10 DEF Undisturbed, Shows, Unreadable
<1>12. \A d \in Unfinished' : d \in Unfinished /\ cmd'[d].base = cmd[d].base
  BY <1>3 DEF Unfinished
<1> QED
  BY <1>1, <1>6, <1>11, <1>12 DEF Undisturbed, Keeps, Shows

LEMMA BreakOffServing ==
    ASSUME StateOK, Serving, NEW c \in Commands, BreakOff(c), published' = published, Quiet'
    PROVE  Undisturbed'
<1>1. /\ cmd[c].phase \in {"read", "midway"} /\ SetPhase(c, "broken")
      /\ UNCHANGED <<index, docs, seenIndex, seenDocs, req, edits>>
  BY DEF BreakOff, Unfinished, store
<1>2. /\ cmd'[c].phase = "broken" /\ cmd'[c].kind = cmd[c].kind
      /\ \A d \in Commands : d # c => cmd'[d] = cmd[d]
  BY <1>1, SetPhaseEffect DEF CommandPhases
<1>3. Quiet
  BY <1>1, <1>2 DEF Quiet
<1>4. \A d \in Unfinished' : d \in Unfinished /\ cmd'[d].base = cmd[d].base
  BY <1>2 DEF Unfinished
<1> QED
  BY <1>1, <1>3, <1>4 DEF Serving, Undisturbed, Keeps, Shows

\* A tool call for a profile published at the start does not fail.
LEMMA ReaderServing ==
    ASSUME StateOK, Serving, NEW r \in Requests,
           Unavailable(r) \/ FindEntry(r) \/ LoadIndex(r) \/ LoadDoc(r),
           published' = published, Quiet'
    PROVE  Undisturbed'
<1>1. UNCHANGED <<index, docs, seenIndex, seenDocs, cmd, edits>>
  BY DEF Unavailable, FindEntry, LoadIndex, LoadDoc, store
<1>2. Undisturbed
  BY <1>1 DEF Quiet, Serving
<1>3. req \in [Requests -> RequestStates]
  BY DEF StateOK
<1>4. /\ \A q \in Requests : q # r => req'[q] = req[q]
      /\ req'[r].profile = req[r].profile
      /\ req'[r].phase = "failed" => req[r].profile \notin published
  <2>1. ASSUME NEW phase, NEW d, Answer(r, phase, d)
        PROVE  /\ \A q \in Requests : q # r => req'[q] = req[q]
               /\ req'[r].profile = req[r].profile /\ req'[r].phase = phase
    BY <2>1, <1>3 DEF Answer
  <2>2. CASE Unavailable(r)
    BY <2>1, <2>2 DEF Unavailable
  <2>3. CASE FindEntry(r)
    <3>1. PICK ix \in seenIndex :
              Answer(r, IF /\ ~Unreadable(ix)
                           /\ Listed(ix, req[r].profile)
                           /\ ix.entries[req[r].profile].enabled
                        THEN "listed" ELSE "failed", NoDoc)
      BY <2>3 DEF FindEntry
    <3>2. Shows(ix)
      BY <1>2 DEF Undisturbed
    <3> QED
      BY <2>1, <3>1, <3>2 DEF Shows, Keeps, Listed
  <2>4. CASE LoadIndex(r)
    <3>1. PICK ix \in seenIndex :
              Answer(r, IF Unreadable(ix) THEN "failed" ELSE "loading", NoDoc)
      BY <2>4 DEF LoadIndex
    <3>2. ~Unreadable(ix)
      BY <1>2 DEF Undisturbed, Shows
    <3> QED
      BY <2>1, <3>1, <3>2
  <2>5. CASE LoadDoc(r)
    <3>1. PICK d \in seenDocs[req[r].profile] :
              IF d \in Versions THEN Answer(r, "served", d) ELSE Answer(r, "failed", NoDoc)
      BY <2>5 DEF LoadDoc
    <3>2. req[r].profile \in published => d \in Versions
      BY <1>2 DEF Undisturbed
    <3> QED
      BY <2>1, <3>1, <3>2
  <2> QED
    BY <2>2, <2>3, <2>4, <2>5
<1>5. Unfinished' = Unfinished
  BY <1>1 DEF Unfinished
<1> QED
  BY <1>1, <1>2, <1>4, <1>5 DEF Undisturbed, Keeps, Shows

LEMMA PropagateServing ==
    ASSUME StateOK, Serving, Propagate, published' = published, Quiet'
    PROVE  Undisturbed'
<1>1. /\ seenIndex' = {index} /\ seenDocs' = [p \in Profiles |-> {docs[p]}]
      /\ UNCHANGED <<index, docs, cmd, req, edits>>
  BY DEF Propagate
<1>2. Undisturbed
  BY <1>1 DEF Quiet, Serving
<1>3. index \in seenIndex /\ published \subseteq Profiles
  BY DEF StateOK, Serving
<1>4. Unfinished' = Unfinished
  BY <1>1 DEF Unfinished
<1> QED
  BY <1>1, <1>2, <1>3, <1>4 DEF Undisturbed, Keeps, Shows

LEMMA NextServing == IInv /\ Serving /\ [Next]_vars => Serving'
<1> SUFFICES ASSUME StateOK, Serving, [Next]_vars PROVE Serving'
  BY DEF IInv
<1>1. published' = published
  BY DEF Next, vars
<1>2. ASSUME Quiet' PROVE Undisturbed'
  <2>1. ASSUME NEW c \in Commands, ReadIndex(c) \/ WriteDoc(c) \/ WriteIndex(c) \/ BreakOff(c)
        PROVE  Undisturbed'
    BY <1>1, <1>2, <2>1, ReadIndexServing, WriteDocServing, WriteIndexServing, BreakOffServing
  <2>2. ASSUME Damage \/ \E p \in Profiles : Toggle(p) \/ Spoil(p)
        PROVE  FALSE
    <3>1. edits' = edits + 1 /\ edits \in 0..MaxEdits
      BY <2>2 DEF Damage, Toggle, Spoil, StateOK
    <3> QED
      BY <3>1, <1>2 DEF Quiet
  <2>3. ASSUME NEW r \in Requests,
               Unavailable(r) \/ FindEntry(r) \/ LoadIndex(r) \/ LoadDoc(r)
        PROVE  Undisturbed'
    BY <1>1, <1>2, <2>3, ReaderServing
  <2>4. CASE Propagate
    BY <1>1, <1>2, <2>4, PropagateServing
  <2>5. CASE UNCHANGED vars
    BY <1>2, <2>5
       DEF vars, store, Serving, Quiet, Undisturbed, Keeps, Shows, Unfinished
  <2> QED
    BY <2>1, <2>2, <2>3, <2>4, <2>5 DEF Next, Step
<1> QED
  BY <1>1, <1>2 DEF Serving

\* Republishing profiles makes no tool call for them fail, whichever runs of the
\* CLI break off and however late KV is (putProfileToKv,
\* resolveApplicationProfileForTool).
THEOREM CallsAreServed == Spec => []RequestsServed
<1>1. IInv /\ Serving => RequestsServed
  <2> SUFFICES ASSUME IInv, Serving, NEW r \in Requests, req[r].phase = "failed",
                      req[r].profile \in published, ~(edits > 0),
                      ~\E c \in Commands : cmd[c].kind = "delete" /\ cmd[c].phase # "ready"
               PROVE  FALSE
    BY DEF RequestsServed
  <2>1. edits = 0
    BY DEF IInv, StateOK
  <2>2. \A c \in Commands : cmd[c].kind \in {"put", "delete"}
    BY CommandParts DEF IInv
  <2>3. Quiet
    BY <2>1, <2>2 DEF Quiet
  <2> QED
    BY <2>3 DEF Serving, Undisturbed
<1>2. Init => Serving
  BY InitServing
<1>3. IInv /\ Serving /\ [Next]_vars => Serving'
  BY NextServing
<1> QED
  BY <1>1, <1>2, <1>3, Invariance, PTL DEF Spec

-----------------------------------------------------------------------------
(* An index the CLI has written is one it can change, if as many entries as *)
(* there may be are no larger than an index may be.                         *)

RoomForAll == MaxCount * EntryBytes <= MaxBytes

\* The index never has more entries than it may have, nor does a run that is
\* under way write more; and it is corrupt only by hand.
Bounded ==
    /\ Acceptable(index.entries)
    /\ \A c \in Unfinished : Acceptable(NextEntries(c))
    /\ index.state = "corrupt" => disturbed

LEMMA InitBounded == Init => Bounded
<1> SUFFICES ASSUME Init PROVE Bounded
  OBVIOUS
<1>1. InitialStore(published) /\ published \in Published
  BY DEF Init
<1>2. DOMAIN index.entries = published /\ index.state # "corrupt"
  BY <1>1 DEF InitialStore, Index
<1>3. Cardinality(published) <= MaxCount
  BY <1>1, ProfilesAssumption
<1>4. Unfinished = {}
  <2>1. \A c \in Commands : cmd[c].phase = "ready"
    BY DEF Init
  <2>2. QED
    BY <2>1 DEF Unfinished
<1>5. QED
  BY <1>2, <1>3, <1>4 DEF Bounded, Acceptable

\* What a run is about to write was settled when it read the index.
LEMMA ReadIndexBounded ==
    ASSUME StateOK, Bounded, NEW c \in Commands, ReadIndex(c)
    PROVE  Bounded'
<1>1. UNCHANGED <<index, disturbed>>
  BY DEF ReadIndex, store, history
<1>2. PICK v \in Versions, refused \in BOOLEAN :
        /\ cmd' = [cmd EXCEPT ![c] =
                     [phase |-> IF refused THEN "refused" ELSE "read",
                      kind |-> cmd[c].kind, profile |-> cmd[c].profile, version |-> v,
                      base |-> IF refused THEN NoEntries ELSE index.entries]]
        /\ refused \/ Acceptable(IF cmd[c].kind = "put"
                                 THEN Merged(index.entries, cmd[c].profile, v)
                                 ELSE Removed(index.entries, cmd[c].profile))
  BY DEF ReadIndex
<1> DEFINE new == [phase |-> IF refused THEN "refused" ELSE "read",
                   kind |-> cmd[c].kind, profile |-> cmd[c].profile, version |-> v,
                   base |-> IF refused THEN NoEntries ELSE index.entries]
<1>3. cmd'[c] = new /\ \A d \in Commands : d # c => cmd'[d] = cmd[d]
  BY <1>2 DEF StateOK
<1>4. ASSUME NEW d \in Unfinished' PROVE Acceptable(NextEntries(d))'
  <2>1. d \in Commands /\ cmd'[d].phase \in {"read", "midway"}
    BY <1>4 DEF Unfinished
  <2>2. CASE d = c
    <3>1. ~refused
      BY <1>3, <2>1, <2>2
    <3>2. NextEntries(c)' = IF cmd[c].kind = "put"
                            THEN Merged(index.entries, cmd[c].profile, v)
                            ELSE Removed(index.entries, cmd[c].profile)
      BY <1>3, <3>1 DEF NextEntries, Merged, Removed
    <3>3. QED
      BY <1>2, <2>2, <3>1, <3>2 DEF Acceptable
  <2>3. CASE d # c
    BY <1>3, <2>1, <2>3 DEF Bounded, Unfinished, NextEntries, Acceptable, Merged, Removed
  <2>4. QED
    BY <2>2, <2>3
<1>5. QED
  BY <1>1, <1>4 DEF Bounded, Acceptable

\* A change of phase starts no run and changes none that goes on.
LEMMA SetPhaseBounded ==
    ASSUME StateOK, Bounded, NEW c \in Commands, NEW phase \in CommandPhases,
           phase # "read", c \in Unfinished, SetPhase(c, phase)
    PROVE  \A d \in Unfinished' : Acceptable(NextEntries(d))'
<1>1. /\ cmd'[c].phase = phase
      /\ cmd'[c].profile = cmd[c].profile /\ cmd'[c].kind = cmd[c].kind
      /\ cmd'[c].version = cmd[c].version
      /\ phase = "midway" => cmd'[c].base = cmd[c].base
      /\ \A d \in Commands : d # c => cmd'[d] = cmd[d]
  BY SetPhaseEffect
<1>2. QED
  <2> SUFFICES ASSUME NEW d \in Unfinished' PROVE Acceptable(NextEntries(d))'
    OBVIOUS
  <2>1. d \in Commands /\ cmd'[d].phase \in {"read", "midway"}
    BY DEF Unfinished
  <2>2. CASE d = c /\ phase = "midway"
    BY <1>1, <2>2 DEF Bounded, NextEntries, Acceptable, Merged, Removed
  <2>3. CASE d # c
    BY <1>1, <2>1, <2>3 DEF Bounded, Unfinished, NextEntries, Acceptable, Merged, Removed
  <2>4. QED
    BY <1>1, <2>1, <2>2, <2>3

\* The runs stay as they are.
LEMMA CommandsBounded ==
    ASSUME Bounded, UNCHANGED cmd
    PROVE  \A d \in Unfinished' : Acceptable(NextEntries(d))'
BY DEF Bounded, Unfinished, NextEntries, Acceptable, Merged, Removed

LEMMA NextBounded == ASSUME IsFiniteSet(Profiles) PROVE IInv /\ Bounded /\ [Next]_vars => Bounded'
<1> SUFFICES ASSUME IInv, Bounded, [Next]_vars PROVE Bounded'
  OBVIOUS
<1>1. StateOK
  BY DEF IInv
<1>2. ASSUME NEW c \in Commands, ReadIndex(c) PROVE Bounded'
  BY <1>1, <1>2, ReadIndexBounded
<1>3. ASSUME NEW c \in Commands, WriteDoc(c) PROVE Bounded'
  <2>1. UNCHANGED <<index, disturbed>> /\ SetPhase(c, "midway") /\ c \in Unfinished
    BY <1>3 DEF WriteDoc, PutDoc, Unfinished
  <2>2. \A d \in Unfinished' : Acceptable(NextEntries(d))'
    BY <1>1, <2>1, SetPhaseBounded DEF CommandPhases
  <2>3. QED
    BY <2>1, <2>2 DEF Bounded, Acceptable
<1>4. ASSUME NEW c \in Commands, WriteIndex(c) PROVE Bounded'
  <2>1. PICK phase \in {"done", "broken"} : SetPhase(c, phase)
    BY <1>4 DEF WriteIndex
  <2>2. c \in Unfinished /\ index' = Index("valid", NextEntries(c))
    BY <1>4 DEF WriteIndex, PutIndex, Unfinished
  <2>3. \A d \in Unfinished' : Acceptable(NextEntries(d))'
    BY <1>1, <2>1, <2>2, SetPhaseBounded DEF CommandPhases
  <2>4. index'.state = "valid" /\ index'.entries = NextEntries(c)
    BY <2>2 DEF Index
  <2>5. QED
    BY <2>2, <2>3, <2>4 DEF Bounded, Acceptable
<1>5. ASSUME NEW c \in Commands, BreakOff(c) PROVE Bounded'
  <2>1. UNCHANGED <<index, disturbed>> /\ SetPhase(c, "broken") /\ c \in Unfinished
    BY <1>5 DEF BreakOff, store
  <2>2. \A d \in Unfinished' : Acceptable(NextEntries(d))'
    BY <1>1, <2>1, SetPhaseBounded DEF CommandPhases
  <2>3. QED
    BY <2>1, <2>2 DEF Bounded, Acceptable
<1>6. ASSUME NEW p \in Profiles, Toggle(p) PROVE Bounded'
  <2>1. DOMAIN index'.entries = DOMAIN index.entries /\ index'.state = "valid"
    BY <1>6 DEF Toggle, PutIndex, Index
  <2>2. \A d \in Unfinished' : Acceptable(NextEntries(d))'
    BY <1>6, CommandsBounded DEF Toggle
  <2>3. QED
    BY <2>1, <2>2 DEF Bounded, Acceptable
<1>7. CASE Damage
  <2>1. PICK state \in {"blank", "corrupt"} : index' = Index(state, NoEntries)
    BY <1>7 DEF Damage, PutIndex
  <2>2. index'.entries = NoEntries /\ disturbed'
    BY <1>7, <2>1 DEF Damage, Index
  <2>3. Cardinality(DOMAIN NoEntries) <= MaxCount
    BY FS_EmptySet, ProfilesAssumption DEF NoEntries
  <2>4. \A d \in Unfinished' : Acceptable(NextEntries(d))'
    BY <1>7, CommandsBounded DEF Damage
  <2>5. QED
    BY <2>2, <2>3, <2>4 DEF Bounded, Acceptable
<1>8. CASE UNCHANGED <<index, cmd, disturbed>>
  <2>1. \A d \in Unfinished' : Acceptable(NextEntries(d))'
    BY <1>8, CommandsBounded
  <2>2. QED
    BY <1>8, <2>1 DEF Bounded, Acceptable
<1>9. ASSUME NEW p \in Profiles, Spoil(p) PROVE UNCHANGED <<index, cmd, disturbed>>
  BY <1>9 DEF Spoil, PutDoc
<1>10. ASSUME NEW r \in Requests,
              Unavailable(r) \/ FindEntry(r) \/ LoadIndex(r) \/ LoadDoc(r)
       PROVE  UNCHANGED <<index, cmd, disturbed>>
  BY <1>10 DEF Unavailable, FindEntry, LoadIndex, LoadDoc, store, history
<1>11. Propagate \/ UNCHANGED vars => UNCHANGED <<index, cmd, disturbed>>
  BY DEF Propagate, vars, store, history
<1>12. QED
  BY <1>2, <1>3, <1>4, <1>5, <1>6, <1>7, <1>8, <1>9, <1>10, <1>11 DEF Next, Step

\* No more entries than MaxCount are larger than all of MaxCount.
LEMMA FewAreSmall ==
    ASSUME NEW n \in Nat, n <= MaxCount, RoomForAll
    PROVE  ~(n * EntryBytes > MaxBytes)
<1>1. MaxCount \in Nat /\ EntryBytes \in Nat /\ MaxBytes \in Nat
  BY ProfilesAssumption
<1>2. PICK d \in Nat : MaxCount = n + d
  <2>1. MaxCount - n \in Nat /\ MaxCount = n + (MaxCount - n)
    BY <1>1
  <2>2. QED
    BY <2>1
<1>3. MaxCount * EntryBytes = n * EntryBytes + d * EntryBytes
  BY <1>1, <1>2
<1>4. d * EntryBytes \in Nat /\ n * EntryBytes \in Nat
  BY <1>1
<1>5. QED
  BY <1>1, <1>3, <1>4 DEF RoomForAll

\* If MaxCount entries fit, an index the CLI has written is one it can change,
\* whatever runs overlap and break off: the limit of the size, which is applied to
\* the index a run reads and to none it writes (readValidatedIndex,
\* assertValidIndex), is then implied by the limit of the count.
THEOREM ModifiableIfSmall ==
    ASSUME IsFiniteSet(Profiles), RoomForAll
    PROVE  Spec => []StaysModifiable
<1>1. IInv /\ Bounded => StaysModifiable
  <2> SUFFICES ASSUME IInv, Bounded, ~disturbed PROVE ~Refused(index)
    BY DEF StaysModifiable
  <2>1. DOMAIN index.entries \subseteq Profiles
    BY EntryMapDomain DEF IInv, StateOK, Indexes
  <2>2. Cardinality(DOMAIN index.entries) \in Nat
    BY <2>1, FS_Subset, FS_CardinalityType
  <2>3. Cardinality(DOMAIN index.entries) <= MaxCount
    BY DEF Bounded, Acceptable
  <2>4. ~TooLarge(index.entries)
    BY <2>2, <2>3, FewAreSmall DEF TooLarge
  <2>5. QED
    BY <2>4 DEF Bounded, Refused
<1>2. Init => Bounded
  BY InitBounded
<1>3. IInv /\ Bounded /\ [Next]_vars => Bounded'
  BY NextBounded
<1>4. QED
  BY <1>1, <1>2, <1>3, Invariance, PTL DEF Spec
=============================================================================
