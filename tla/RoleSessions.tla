------------------------------ MODULE RoleSessions ------------------------------
(***************************************************************************)
(* What a resolver of credentials promises, and the sections of an         *)
(* application-ops tool rely on.  A call is answered once and for good.    *)
(* Who asks for the gateway's own credentials is given them; who asks for  *)
(* a role is refused, or given a session that STS has granted for that     *)
(* role and external id in the same HTTP request, and that lasts.  How     *)
(* sessions are kept, and when they are asked for again, is not said.      *)
(***************************************************************************)
EXTENDS Integers

CONSTANTS
    Calls,        \* the calls of resolve()
    Resolvers,    \* the resolvers, one per HTTP request
    Roles,        \* the roles, among them DefaultRole for the gateway's own credentials
    DefaultRole,
    Ids,          \* the external ids, among them NoId
    NoId,
    Life,         \* a session that is given lasts longer than this
    Times         \* the times a session may expire at

VARIABLES
    now,      \* the time
    asked,    \* what each call asks for, and which resolver
    granted,  \* the sessions STS has granted to each resolver
    got       \* what has become of each call

vars == <<now, asked, granted, got>>

Session(role, id, expires) == [role |-> role, id |-> id, expires |-> expires]

\* The gateway's own credentials do not expire.
Own == Session(DefaultRole, NoId, 0)

Init ==
    /\ now = 0
    /\ asked \in [Calls -> [role : Roles, id : Ids, resolver : Resolvers]]
    /\ granted = [r \in Resolvers |-> {}]
    /\ got = [c \in Calls |-> [outcome |-> "waiting", session |-> Own]]

\* A call that waits is answered.
Answer(c, outcome, session) ==
    /\ got[c].outcome = "waiting"
    /\ got' = [got EXCEPT ![c] = [outcome |-> outcome, session |-> session]]

\* The session is of the role and the id that are asked for, and lasts.
Suits(c, k) ==
    /\ k.role = asked[c].role /\ k.id = asked[c].id
    /\ k.expires - now > Life

-----------------------------------------------------------------------------
GiveOwn(c) ==
    /\ asked[c].role = DefaultRole
    /\ Answer(c, "given", Own)
    /\ UNCHANGED <<now, asked, granted>>

\* STS grants a session.
Grant(c) ==
    /\ asked[c].role # DefaultRole
    /\ \E expires \in Times :
          LET k == Session(asked[c].role, asked[c].id, expires) IN
          /\ Suits(c, k)
          /\ granted' = [granted EXCEPT ![asked[c].resolver] = @ \cup {k}]
          /\ Answer(c, "given", k)
    /\ UNCHANGED <<now, asked>>

\* A session of the same HTTP request is used again.
Reuse(c) ==
    /\ asked[c].role # DefaultRole
    /\ \E k \in granted[asked[c].resolver] : Suits(c, k) /\ Answer(c, "given", k)
    /\ UNCHANGED <<now, asked, granted>>

Refuse(c) ==
    /\ asked[c].role # DefaultRole
    /\ Answer(c, "refused", Own)
    /\ UNCHANGED <<now, asked, granted>>

Pass ==
    /\ now' = now + 1
    /\ UNCHANGED <<asked, granted, got>>

Next ==
    \/ \E c \in Calls : GiveOwn(c) \/ Grant(c) \/ Reuse(c) \/ Refuse(c)
    \/ Pass

Spec == Init /\ [][Next]_vars
=============================================================================
