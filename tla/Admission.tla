------------------------------- MODULE Admission -------------------------------
(***************************************************************************)
(* What the gateway promises of /mcp, whatever the order of its checks:    *)
(* a request reaches the tools only after it was metered (where metering   *)
(* is in force), only if its credential entitles it, and only under a      *)
(* sound configuration; and which settings are wrong is told to nobody     *)
(* but a caller whose credential was accepted.                             *)
(***************************************************************************)
CONSTANT Requests

VARIABLES
    rules,      \* whether metering is in force and the configuration is sound
    entitled,   \* the requests under way whose credential is one the gateway is to accept
    metered,    \* the requests the rate limiter has let through, while under way
    granted,    \* the requests whose credential was accepted
    outcome     \* what has become of each request

vars == <<rules, entitled, metered, granted, outcome>>

Outcomes == {"none", "arrived", "handled", "explained", "closed"}

Init ==
    /\ rules \in [metering : BOOLEAN, sound : BOOLEAN]
    /\ entitled = {}
    /\ metered = {}
    /\ granted = {}
    /\ outcome = [r \in Requests |-> "none"]

Becomes(r, before, after) ==
    /\ outcome[r] = before
    /\ outcome' = [outcome EXCEPT ![r] = after]

Arrive(r) ==
    /\ Becomes(r, "none", "arrived")
    /\ entitled' \in {entitled, entitled \cup {r}}
    /\ UNCHANGED <<rules, metered, granted>>

\* The request is not one for the tools, or comes while the rules do not let
\* any be looked at.
Dismiss(r) ==
    /\ Becomes(r, "none", "closed")
    /\ UNCHANGED <<rules, entitled, metered, granted>>

Meter(r) ==
    /\ outcome[r] = "arrived"
    /\ metered' = metered \cup {r}
    /\ UNCHANGED <<rules, entitled, granted, outcome>>

Grant(r) ==
    /\ outcome[r] = "arrived"
    /\ r \in entitled
    /\ rules.metering => r \in metered
    /\ granted' = granted \cup {r}
    /\ UNCHANGED <<rules, entitled, metered, outcome>>

\* The request is answered, and forgotten but for its outcome.
End(r, how) ==
    /\ Becomes(r, "arrived", how)
    /\ entitled' = entitled \ {r}
    /\ metered' = metered \ {r}
    /\ granted' = granted \ {r}
    /\ UNCHANGED rules

Handle(r) == r \in granted /\ rules.sound /\ End(r, "handled")

\* The answer names the settings that are wrong.
Explain(r) == r \in granted /\ ~rules.sound /\ End(r, "explained")

\* The request is limited or denied.
Close(r) == End(r, "closed")

Next ==
    \E r \in Requests :
        Arrive(r) \/ Dismiss(r) \/ Meter(r) \/ Grant(r) \/ Handle(r) \/ Explain(r) \/ Close(r)

Spec == Init /\ [][Next]_vars
=============================================================================
