---------------------------- MODULE ProfileCatalog -----------------------------
(***************************************************************************)
(* What the store of application profiles promises, as if it were one      *)
(* atomic table: what is offered under each profile id.  A run of the CLI  *)
(* writes to the row of its own profile only, a row goes from what was     *)
(* offered to what the run offers without a state in between, and a run    *)
(* that ends well leaves its row as it was asked to.  A run that breaks    *)
(* off leaves the row as it was or as it was to be.  The promise ends when *)
(* an overtaken run writes, or when the table is damaged.                  *)
(***************************************************************************)
CONSTANTS
    Profiles,
    Versions,  \* the documents that may be put
    NoDoc,     \* no document: the profile is not offered
    BadDoc,    \* a document that an operator has broken
    Runs       \* the runs of the CLI

VARIABLES
    catalog,  \* the row of each profile
    run,      \* the runs
    sound     \* whether the promise holds

vars == <<catalog, run, sound>>

Rows == [doc : Versions \cup {NoDoc, BadDoc}, enabled : BOOLEAN]

\* What is under way is known of a run: nothing is written, or its row is; and
\* what has become of it.
Phases == {"ready", "started", "written", "done", "refused", "broken"}

\* The published profiles are enabled; so is, when it comes, one that is not there.
Init ==
    /\ catalog \in [Profiles -> [doc : Versions \cup {NoDoc}, enabled : {TRUE}]]
    /\ run \in [Runs -> [phase : {"ready"}, kind : {"put", "delete"}, profile : Profiles,
                         version : Versions]]
    /\ sound = TRUE

\* A run goes on.
Becomes(c, before, after) ==
    /\ run[c].phase \in before
    /\ \E phase \in after : run' = [run EXCEPT ![c].phase = phase]

NewDoc(c) == IF run[c].kind = "put" THEN run[c].version ELSE NoDoc

Row(c) == catalog[run[c].profile]

\* The row of a run, and no other, becomes this.
SetRow(c, doc, enabled) ==
    catalog' = [catalog EXCEPT ![run[c].profile] = [doc |-> doc, enabled |-> enabled]]

-----------------------------------------------------------------------------
\* What the run is to put has been read and found valid.
Start(c) ==
    /\ run[c].phase = "ready"
    /\ \E v \in Versions, phase \in {"started", "refused"} :
          run' = [run EXCEPT ![c] = [phase |-> phase, kind |-> run[c].kind,
                                     profile |-> run[c].profile, version |-> v]]
    /\ UNCHANGED <<catalog, sound>>

\* What is offered is replaced or withdrawn at once.  What was not offered may
\* wait for the end of the run.
Write(c) ==
    /\ Becomes(c, {"started"}, {"written"})
    /\ sound => \/ SetRow(c, NewDoc(c), Row(c).enabled)
                \/ Row(c).doc = NoDoc /\ UNCHANGED catalog
    /\ UNCHANGED sound

\* The run has done what it was asked to, even if it is told otherwise.  What it
\* offers was offered since it has written, or is now; and a profile that is
\* withdrawn leaves no trace.
End(c) ==
    /\ Becomes(c, {"written"}, {"done", "broken"})
    /\ sound => /\ Row(c).doc \in {NoDoc, NewDoc(c)}
                /\ SetRow(c, NewDoc(c), run[c].kind = "delete" \/ Row(c).enabled)
    /\ UNCHANGED sound

\* The run stops half way, and changes nothing by it.
BreakOff(c) ==
    /\ Becomes(c, {"started", "written"}, {"broken"})
    /\ UNCHANGED <<catalog, sound>>

\* An operator enables or disables a profile, or breaks its document.
Edit(p) ==
    /\ sound => \/ \E enabled \in BOOLEAN : catalog' = [catalog EXCEPT ![p].enabled = enabled]
                \/ catalog[p].doc # NoDoc /\ catalog' = [catalog EXCEPT ![p].doc = BadDoc]
    /\ UNCHANGED <<run, sound>>

\* A run that was overtaken ends, and undoes what others have done.
Undo(c) ==
    /\ Becomes(c, {"written"}, {"done", "broken"})
    /\ sound' = FALSE

\* The table is damaged.
Damage ==
    /\ sound' = FALSE
    /\ UNCHANGED run

Next ==
    \/ \E c \in Runs : Start(c) \/ Write(c) \/ End(c) \/ BreakOff(c) \/ Undo(c)
    \/ \E p \in Profiles : Edit(p)
    \/ Damage

Spec == Init /\ [][Next]_vars
=============================================================================
