------------------------- MODULE ProfileCatalogProofs --------------------------
(***************************************************************************)
(* The index and the documents are one table, for any number of profiles   *)
(* and runs of the CLI: every step of ProfileStore is one of               *)
(* ProfileCatalog, or changes nothing that it speaks of.                   *)
(***************************************************************************)
EXTENDS ProfileStoreProofs

-----------------------------------------------------------------------------
(* What a step changes of the table and of the runs.                       *)

LEMMA OneRow ==
    ASSUME NEW p \in Profiles, NEW row, SeenRow(p)' = row,
           \A q \in Profiles : q # p => SeenRow(q)' = SeenRow(q)
    PROVE  SeenCatalog' = [SeenCatalog EXCEPT ![p] = row]
<1>1. SeenCatalog' = [q \in Profiles |-> SeenRow(q)']
  BY DEF SeenCatalog
<1>2. [SeenCatalog EXCEPT ![p] = row] = [q \in Profiles |-> IF q = p THEN row ELSE SeenRow(q)]
  BY DEF SeenCatalog
<1> HIDE DEF SeenRow
<1>3. QED
  BY <1>1, <1>2

LEMMA SameRows ==
    ASSUME \A q \in Profiles : SeenRow(q)' = SeenRow(q)
    PROVE  SeenCatalog' = SeenCatalog
BY DEF SeenCatalog

\* A document that is written shows if its profile is listed.
LEMMA PutDocShows ==
    ASSUME StateOK, NEW p \in Profiles, NEW d \in Docs, PutDoc(p, d)
    PROVE  /\ Listed(index, p) =>
                SeenCatalog' = [SeenCatalog EXCEPT ![p] = [doc |-> d, enabled |-> SeenRow(p).enabled]]
           /\ ~Listed(index, p) => SeenRow(p).doc = NoDoc /\ SeenCatalog' = SeenCatalog
<1>1. /\ docs'[p] = d /\ index' = index
      /\ \A q \in Profiles : q # p => docs'[q] = docs[q]
  BY PutDocEffect
<1>2. \A q \in Profiles : q # p => SeenRow(q)' = SeenRow(q)
  BY <1>1 DEF SeenRow, Listed
<1>3. CASE Listed(index, p)
  <2>1. SeenRow(p)' = [doc |-> d, enabled |-> SeenRow(p).enabled]
    BY <1>1, <1>3 DEF SeenRow, Listed
  <2>2. QED
    BY <1>2, <1>3, <2>1, OneRow
<1>4. CASE ~Listed(index, p)
  <2>1. SeenRow(p)' = SeenRow(p) /\ SeenRow(p).doc = NoDoc
    BY <1>1, <1>4 DEF SeenRow, Listed
  <2>2. QED
    BY <1>2, <1>4, <2>1, SameRows
<1>5. QED
  BY <1>3, <1>4

LEMMA RunOf ==
    ASSUME NEW c \in Commands
    PROVE  /\ SeenRuns[c] = SeenRun(c)
           /\ SeenRuns[c].phase = SeenPhase(cmd[c].phase)
           /\ SeenRuns[c].kind = cmd[c].kind
           /\ SeenRuns[c].profile = cmd[c].profile
           /\ SeenRuns[c].version = cmd[c].version
           /\ Catalog!NewDoc(c) = NewDoc(c)
BY DEF SeenRuns, SeenRun, Catalog!NewDoc, NewDoc

LEMMA RowOf ==
    ASSUME StateOK, NEW c \in Commands
    PROVE  Catalog!Row(c) = SeenRow(cmd[c].profile)
BY RunOf, CommandParts DEF Catalog!Row, SeenCatalog

LEMMA OneRun ==
    ASSUME NEW c \in Commands, NEW r, SeenRun(c)' = r,
           \A d \in Commands : d # c => cmd'[d] = cmd[d]
    PROVE  SeenRuns' = [SeenRuns EXCEPT ![c] = r]
<1>1. \A d \in Commands : d # c => SeenRun(d)' = SeenRun(d)
  BY DEF SeenRun
<1>2. SeenRuns' = [d \in Commands |-> SeenRun(d)']
  BY DEF SeenRuns
<1>3. [SeenRuns EXCEPT ![c] = r] = [d \in Commands |-> IF d = c THEN r ELSE SeenRun(d)]
  BY DEF SeenRuns
<1> HIDE DEF SeenRun
<1>4. QED
  BY <1>1, <1>2, <1>3

\* A run that goes on.
LEMMA SetPhaseShows ==
    ASSUME StateOK, NEW c \in Commands, NEW phase \in CommandPhases, SetPhase(c, phase),
           NEW before, NEW after, SeenPhase(cmd[c].phase) \in before, SeenPhase(phase) \in after
    PROVE  Catalog!Becomes(c, before, after)
<1>1. /\ cmd'[c].phase = phase
      /\ cmd'[c].profile = cmd[c].profile /\ cmd'[c].kind = cmd[c].kind
      /\ cmd'[c].version = cmd[c].version
      /\ \A d \in Commands : d # c => cmd'[d] = cmd[d]
  BY SetPhaseEffect
<1>2. SeenRun(c)' = [SeenRun(c) EXCEPT !.phase = SeenPhase(phase)]
  BY <1>1 DEF SeenRun
<1>3. SeenRuns' = [SeenRuns EXCEPT ![c] = [SeenRun(c) EXCEPT !.phase = SeenPhase(phase)]]
  BY <1>1, <1>2, OneRun
<1>4. SeenRuns' = [SeenRuns EXCEPT ![c].phase = SeenPhase(phase)]
  BY <1>3, RunOf
<1>5. QED
  BY <1>4, RunOf DEF Catalog!Becomes

-----------------------------------------------------------------------------
(* The steps of a run.                                                     *)

LEMMA ReadIndexStarts ==
    ASSUME IInv, NEW c \in Commands, ReadIndex(c)
    PROVE  Catalog!Start(c)
<1>1. StateOK /\ cmd \in [Commands -> CommandStates]
  BY DEF IInv, StateOK
<1>2. PICK v \in Versions, refused \in BOOLEAN :
        cmd' = [cmd EXCEPT ![c] =
                  [phase |-> IF refused THEN "refused" ELSE "read",
                   kind |-> cmd[c].kind, profile |-> cmd[c].profile, version |-> v,
                   base |-> IF refused THEN NoEntries ELSE index.entries]]
  BY DEF ReadIndex
<1>3. cmd[c].phase = "ready" /\ UNCHANGED <<index, docs, disturbed>>
  BY DEF ReadIndex, store, history
<1> DEFINE phase == IF refused THEN "refused" ELSE "started"
<1>4. /\ cmd'[c].phase = IF refused THEN "refused" ELSE "read"
      /\ cmd'[c].kind = cmd[c].kind /\ cmd'[c].profile = cmd[c].profile /\ cmd'[c].version = v
      /\ \A d \in Commands : d # c => cmd'[d] = cmd[d]
  BY <1>1, <1>2
<1> DEFINE new == [phase |-> phase, kind |-> cmd[c].kind, profile |-> cmd[c].profile, version |-> v]
<1>5. SeenRun(c)' = new
  <2>1. SeenPhase(cmd'[c].phase) = phase
    BY <1>4 DEF SeenPhase
  <2>2. QED
    BY <1>4, <2>1 DEF SeenRun
<1> HIDE DEF new
<1>6. SeenRuns' = [SeenRuns EXCEPT ![c] = new]
  BY <1>4, <1>5, OneRun
<1>7. new = [phase |-> phase, kind |-> SeenRuns[c].kind, profile |-> SeenRuns[c].profile, version |-> v]
  BY RunOf DEF new
<1>8. SeenRuns[c].phase = "ready"
  BY <1>3, RunOf DEF SeenPhase
<1>9. UNCHANGED <<SeenCatalog, ~disturbed>>
  BY <1>3 DEF SeenCatalog, SeenRow, Listed
<1> HIDE DEF phase
<1>10. phase \in {"started", "refused"}
  BY DEF phase
<1>11. QED
  BY <1>6, <1>7, <1>8, <1>9, <1>10 DEF Catalog!Start

LEMMA WriteDocWrites ==
    ASSUME IInv, NEW c \in Commands, WriteDoc(c)
    PROVE  Catalog!Write(c)
<1>1. StateOK
  BY DEF IInv
<1>2. PICK p \in Profiles : p = cmd[c].profile
  BY <1>1, CommandParts
<1>3. /\ cmd[c].phase = "read" /\ PutDoc(p, NewDoc(c)) /\ SetPhase(c, "midway")
      /\ disturbed' = disturbed
  BY <1>2 DEF WriteDoc
<1>4. Catalog!Becomes(c, {"started"}, {"written"})
  BY <1>1, <1>3, SetPhaseShows DEF SeenPhase, CommandPhases
<1>5. CASE Listed(index, p)
  <2>1. SeenCatalog' = [SeenCatalog EXCEPT ![p] = [doc |-> NewDoc(c), enabled |-> SeenRow(p).enabled]]
    BY <1>1, <1>3, <1>5, CommandParts, PutDocShows
  <2>2. Catalog!SetRow(c, Catalog!NewDoc(c), Catalog!Row(c).enabled)
    BY <1>1, <1>2, <2>1, RunOf, RowOf DEF Catalog!SetRow
  <2>3. QED
    BY <1>3, <1>4, <2>2 DEF Catalog!Write
<1>6. CASE ~Listed(index, p)
  <2>1. SeenRow(p).doc = NoDoc /\ SeenCatalog' = SeenCatalog
    BY <1>1, <1>3, <1>6, CommandParts, PutDocShows
  <2>2. Catalog!Row(c).doc = NoDoc
    BY <1>1, <1>2, <2>1, RowOf
  <2>3. QED
    BY <1>3, <1>4, <2>1, <2>2 DEF Catalog!Write
<1>7. QED
  BY <1>5, <1>6

LEMMA BreakOffBreaks ==
    ASSUME IInv, NEW c \in Commands, BreakOff(c)
    PROVE  Catalog!BreakOff(c)
<1>1. StateOK
  BY DEF IInv
<1>2. cmd[c].phase \in {"read", "midway"} /\ SetPhase(c, "broken")
        /\ UNCHANGED <<index, docs, disturbed>>
  BY DEF BreakOff, Unfinished, store
<1>3. Catalog!Becomes(c, {"started", "written"}, {"broken"})
  BY <1>1, <1>2, SetPhaseShows DEF SeenPhase, CommandPhases
<1>4. UNCHANGED <<SeenCatalog, ~disturbed>>
  BY <1>2 DEF SeenCatalog, SeenRow, Listed
<1>5. QED
  BY <1>3, <1>4 DEF Catalog!BreakOff

\* What a merge gives a profile that was not listed.
LEMMA MergedNew ==
    ASSUME NEW c \in Commands, cmd[c].kind = "put", cmd[c].profile \notin DOMAIN cmd[c].base
    PROVE  NextEntries(c)[cmd[c].profile].enabled = TRUE
BY DEF NextEntries, Merged

\* A run that has not been overtaken lists its profile, or does no longer, under
\* the document it has written.
LEMMA WriteIndexEnds ==
    ASSUME IInv, NEW c \in Commands, WriteIndex(c), c \notin overtaken
    PROVE  Catalog!End(c)
<1>1. StateOK /\ disturbed \in BOOLEAN
  BY DEF IInv, StateOK
<1>0. PICK p \in Profiles : p = cmd[c].profile
  BY <1>1, CommandParts
<1>2. PICK phase \in {"done", "broken"} : SetPhase(c, phase)
  BY DEF WriteIndex
<1>3. /\ cmd[c].phase = "midway" /\ disturbed' = disturbed
      /\ index'.entries = NextEntries(c) /\ docs' = docs
  <2>1. cmd[c].phase = "midway" /\ PutIndex(Index("valid", NextEntries(c)))
    BY DEF WriteIndex
  <2>2. disturbed' = (disturbed \/ c \in overtaken)
    BY DEF WriteIndex
  <2>3. disturbed' = disturbed
    BY <1>1, <2>2
  <2>4. QED
    BY <2>1, <2>3 DEF PutIndex, Index
<1>4. Catalog!Becomes(c, {"written"}, {"done", "broken"})
  BY <1>1, <1>2, <1>3, SetPhaseShows DEF SeenPhase, CommandPhases
<1>5. cmd[c].base = index.entries
  BY <1>3 DEF IInv, BaseCurrent, Unfinished
<1>6. docs[p] = NewDoc(c)
  BY <1>0, <1>3 DEF IInv, DocCurrent
<1>7. /\ DOMAIN NextEntries(c) \ {p} = DOMAIN index.entries \ {p}
      /\ \A q \in DOMAIN index.entries : q # p => NextEntries(c)[q] = index.entries[q]
      /\ p \in DOMAIN NextEntries(c) <=> cmd[c].kind = "put"
      /\ cmd[c].kind = "put" /\ p \in DOMAIN index.entries =>
            NextEntries(c)[p].enabled = index.entries[p].enabled
  BY <1>0, <1>1, <1>5, NextEntriesEffect
<1>8. ASSUME NEW q \in Profiles, q # p PROVE SeenRow(q)' = SeenRow(q)
  <2>1. q \in DOMAIN NextEntries(c) <=> q \in DOMAIN index.entries
    BY <1>7, <1>8
  <2>2. QED
    BY <1>3, <1>7, <1>8, <2>1 DEF SeenRow, Listed
<1>9. SeenRow(p).doc \in {NoDoc, NewDoc(c)}
  BY <1>6 DEF SeenRow
<1>10. SeenRow(p)' = [doc |-> NewDoc(c), enabled |-> cmd[c].kind = "delete" \/ SeenRow(p).enabled]
  <2>1. CASE cmd[c].kind = "put"
    <3>1. SeenRow(p)' = [doc |-> NewDoc(c), enabled |-> NextEntries(c)[p].enabled]
      BY <1>3, <1>6, <1>7, <2>1 DEF SeenRow, Listed
    <3>2. CASE p \in DOMAIN index.entries
      <4>1. SeenRow(p).enabled = index.entries[p].enabled
        BY <3>2 DEF SeenRow, Listed
      <4>2. index.entries[p].enabled \in BOOLEAN
        BY <1>1, <3>2, EntryMapDomain DEF StateOK, Indexes, Entries
      <4>3. QED
        BY <1>7, <2>1, <3>1, <3>2, <4>1, <4>2
    <3>3. CASE p \notin DOMAIN index.entries
      <4>1. SeenRow(p).enabled = TRUE
        BY <3>3 DEF SeenRow, Listed
      <4>2. NextEntries(c)[p].enabled = TRUE
        BY <1>0, <1>5, <2>1, <3>3, MergedNew
      <4>3. QED
        BY <2>1, <3>1, <4>1, <4>2
    <3>4. QED
      BY <3>2, <3>3
  <2>2. CASE cmd[c].kind = "delete"
    <3>1. SeenRow(p)' = [doc |-> NoDoc, enabled |-> TRUE]
      BY <1>3, <1>7, <2>2 DEF SeenRow, Listed
    <3>2. NewDoc(c) = NoDoc
      BY <2>2 DEF NewDoc
    <3>3. QED
      BY <2>2, <3>1, <3>2
  <2>3. QED
    BY <1>1, <2>1, <2>2, CommandParts
<1>11. SeenCatalog' =
         [SeenCatalog EXCEPT ![p] =
            [doc |-> NewDoc(c), enabled |-> cmd[c].kind = "delete" \/ SeenRow(p).enabled]]
  <2> DEFINE row == [doc |-> NewDoc(c), enabled |-> cmd[c].kind = "delete" \/ SeenRow(p).enabled]
  <2>1. SeenRow(p)' = row
    BY <1>10
  <2> HIDE DEF row
  <2>2. SeenCatalog' = [SeenCatalog EXCEPT ![p] = row]
    BY <1>1, <1>8, <2>1, OneRow
  <2>3. QED
    BY <2>2 DEF row
<1>12. Catalog!SetRow(c, Catalog!NewDoc(c), SeenRuns[c].kind = "delete" \/ Catalog!Row(c).enabled)
  BY <1>1, <1>11, <1>0, RunOf, RowOf DEF Catalog!SetRow
<1>13. Catalog!Row(c).doc \in {NoDoc, Catalog!NewDoc(c)}
  BY <1>1, <1>9, <1>0, RunOf, RowOf
<1>14. QED
  BY <1>3, <1>4, <1>12, <1>13 DEF Catalog!End

LEMMA WriteIndexUndoes ==
    ASSUME IInv, NEW c \in Commands, WriteIndex(c), c \in overtaken
    PROVE  Catalog!Undo(c)
<1>1. StateOK
  BY DEF IInv
<1>2. PICK phase \in {"done", "broken"} : SetPhase(c, phase)
  BY DEF WriteIndex
<1>3. cmd[c].phase = "midway" /\ disturbed' = TRUE
  BY DEF WriteIndex
<1>4. Catalog!Becomes(c, {"written"}, {"done", "broken"})
  BY <1>1, <1>2, <1>3, SetPhaseShows DEF SeenPhase, CommandPhases
<1>5. QED
  BY <1>3, <1>4 DEF Catalog!Undo

-----------------------------------------------------------------------------
(* The steps of operators.                                                 *)

LEMMA ToggleEdits ==
    ASSUME IInv, NEW p \in Profiles, Toggle(p)
    PROVE  Catalog!Edit(p)
<1>1. /\ Listed(index, p) /\ docs' = docs /\ cmd' = cmd /\ disturbed' = disturbed
      /\ index'.entries = [q \in DOMAIN index.entries |->
                             IF q = p THEN [version |-> index.entries[p].version,
                                            enabled |-> ~index.entries[p].enabled]
                             ELSE index.entries[q]]
  BY DEF Toggle, PutIndex, Index
<1> DEFINE e == index.entries[p].enabled
           after == ~e
<1>2. SeenRow(p)' = [doc |-> docs[p], enabled |-> after]
  BY <1>1 DEF SeenRow, Listed
<1>3. \A q \in Profiles : q # p => SeenRow(q)' = SeenRow(q)
  BY <1>1 DEF SeenRow, Listed
<1>4. SeenCatalog[p] = [doc |-> docs[p], enabled |-> e]
  BY <1>1 DEF SeenCatalog, SeenRow
<1>5. after \in BOOLEAN
  OBVIOUS
<1> HIDE DEF after
<1>6. SeenCatalog' = [SeenCatalog EXCEPT ![p].enabled = after]
  <2>1. SeenCatalog' = [SeenCatalog EXCEPT ![p] = [doc |-> docs[p], enabled |-> after]]
    BY <1>2, <1>3, OneRow
  <2>2. [SeenCatalog[p] EXCEPT !.enabled = after] = [doc |-> docs[p], enabled |-> after]
    BY <1>4
  <2>3. QED
    BY <2>1, <2>2
<1>7. SeenRuns' = SeenRuns
  BY <1>1 DEF SeenRuns, SeenRun
<1>8. QED
  BY <1>1, <1>5, <1>6, <1>7 DEF Catalog!Edit

LEMMA SpoilEdits ==
    ASSUME IInv, NEW p \in Profiles, Spoil(p)
    PROVE  Catalog!Edit(p) \/ UNCHANGED Catalog!vars
<1>1. StateOK /\ docs[p] # NoDoc /\ PutDoc(p, BadDoc) /\ cmd' = cmd /\ disturbed' = disturbed
  BY DEF Spoil, IInv
<1>2. BadDoc \in Docs
  BY DEF Docs
<1>3. SeenRuns' = SeenRuns
  BY <1>1 DEF SeenRuns, SeenRun
<1>4. CASE Listed(index, p)
  <2>1. SeenCatalog' = [SeenCatalog EXCEPT ![p] = [doc |-> BadDoc, enabled |-> SeenRow(p).enabled]]
    BY <1>1, <1>2, <1>4, PutDocShows
  <2>2. SeenCatalog[p] = [doc |-> docs[p], enabled |-> SeenRow(p).enabled]
    BY <1>4 DEF SeenCatalog, SeenRow
  <2>3. [SeenCatalog[p] EXCEPT !.doc = BadDoc] = [doc |-> BadDoc, enabled |-> SeenRow(p).enabled]
    BY <2>2
  <2>4. SeenCatalog' = [SeenCatalog EXCEPT ![p].doc = BadDoc]
    BY <2>1, <2>3
  <2>5. QED
    BY <1>1, <1>3, <2>2, <2>4 DEF Catalog!Edit
<1>5. CASE ~Listed(index, p)
  <2>1. SeenCatalog' = SeenCatalog
    BY <1>1, <1>2, <1>5, PutDocShows
  <2>2. QED
    BY <1>1, <1>3, <2>1 DEF Catalog!vars
<1>6. QED
  BY <1>4, <1>5

LEMMA DamageDamages ==
    ASSUME Damage
    PROVE  Catalog!Damage
BY DEF Damage, Catalog!Damage, SeenRuns, SeenRun

-----------------------------------------------------------------------------
(* The refinement.                                                         *)

\* A step that leaves the store and the runs alone is not seen.
LEMMA Unseen ==
    ASSUME UNCHANGED <<index, docs, cmd, disturbed>>
    PROVE  UNCHANGED Catalog!vars
BY DEF Catalog!vars, SeenCatalog, SeenRow, Listed, SeenRuns, SeenRun

LEMMA StepIsOne ==
    ASSUME IInv, [Next]_vars
    PROVE  Catalog!Next \/ UNCHANGED Catalog!vars
<1>1. ASSUME NEW c \in Commands,
             ReadIndex(c) \/ WriteDoc(c) \/ WriteIndex(c) \/ BreakOff(c)
      PROVE  Catalog!Next
  <2>1. \/ Catalog!Start(c) \/ Catalog!Write(c) \/ Catalog!End(c)
        \/ Catalog!BreakOff(c) \/ Catalog!Undo(c)
    BY <1>1, ReadIndexStarts, WriteDocWrites, WriteIndexEnds, WriteIndexUndoes, BreakOffBreaks
  <2>2. QED
    BY <2>1 DEF Catalog!Next
<1>2. ASSUME NEW p \in Profiles, Toggle(p) \/ Spoil(p)
      PROVE  Catalog!Next \/ UNCHANGED Catalog!vars
  <2>1. Catalog!Edit(p) \/ UNCHANGED Catalog!vars
    BY <1>2, ToggleEdits, SpoilEdits
  <2>2. QED
    BY <2>1 DEF Catalog!Next
<1>3. CASE Damage
  BY <1>3, DamageDamages DEF Catalog!Next
<1>4. CASE \/ \E r \in Requests :
                Unavailable(r) \/ FindEntry(r) \/ LoadIndex(r) \/ LoadDoc(r)
           \/ Propagate \/ UNCHANGED vars
  <2>1. UNCHANGED <<index, docs, cmd, disturbed>>
    BY <1>4 DEF Unavailable, FindEntry, LoadIndex, LoadDoc, Propagate, vars, store, history
  <2>2. QED
    BY <2>1, Unseen
<1>5. QED
  BY <1>1, <1>2, <1>3, <1>4 DEF Next, Step

LEMMA InitIsOne == Init => Catalog!Init
<1> SUFFICES ASSUME Init PROVE Catalog!Init
  OBVIOUS
<1>1. IInv
  BY InitIInv
<1>2. /\ index = Index(IF published = {} THEN "absent" ELSE "valid",
                       [p \in published |-> [version |-> 1, enabled |-> TRUE]])
      /\ docs = [p \in Profiles |-> IF p \in published THEN 1 ELSE NoDoc]
      /\ disturbed = FALSE
  BY DEF Init, InitialStore
<1>3. ASSUME NEW p \in Profiles
      PROVE  SeenRow(p) \in [doc : Versions \cup {NoDoc}, enabled : {TRUE}]
  <2>1. CASE p \in published
    <3>1. SeenRow(p) = [doc |-> 1, enabled |-> TRUE]
      BY <1>2, <2>1 DEF SeenRow, Listed, Index
    <3>2. QED
      BY <3>1, ProfilesAssumption DEF Versions
  <2>2. CASE p \notin published
    <3>1. SeenRow(p) = [doc |-> NoDoc, enabled |-> TRUE]
      BY <1>2, <2>2 DEF SeenRow, Listed, Index
    <3>2. QED
      BY <3>1
  <2>3. QED
    BY <2>1, <2>2
<1>4. ASSUME NEW c \in Commands
      PROVE  SeenRun(c) \in [phase : {"ready"}, kind : {"put", "delete"}, profile : Profiles,
                             version : Versions]
  <2>1. cmd[c].phase = "ready"
    BY DEF Init
  <2>2. QED
    BY <1>1, <2>1, CommandParts DEF IInv, SeenRun, SeenPhase
<1>5. QED
  BY <1>2, <1>3, <1>4 DEF Catalog!Init, SeenCatalog, SeenRuns

\* putProfileToKv and deleteProfileFromKv make two writes, and any of them may
\* be the last: what is offered under a profile changes as if each run made one,
\* for any number of runs that interleave, until one that was overtaken writes
\* the index.
THEOREM CatalogIsKept == Spec => CatalogKept
<1>1. Init => Catalog!Init
  BY InitIsOne
<1>2. IInv /\ [Next]_vars => [Catalog!Next]_Catalog!vars
  BY StepIsOne
<1>3. QED
  BY <1>1, <1>2, Invariance, PTL DEF Spec, CatalogKept, Catalog!Spec
=============================================================================
