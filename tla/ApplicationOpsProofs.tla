-------------------------- MODULE ApplicationOpsProofs --------------------------
(***************************************************************************)
(* Proofs about ApplicationOps: what sections report was read as their     *)
(* role, of their resource, completely, and not too long ago.              *)
(*                                                                         *)
(* An answer goes from the request that reads it into the cache, from      *)
(* there into a section or into a comparison of images, and from that into *)
(* the cache again.  The invariant says of the answer at each place who    *)
(* may have read it, of what, and how old it may be.                       *)
(***************************************************************************)
EXTENDS ApplicationOps, TLAPS

\* How long an entry of the cache may have been under way and then kept.
Span == Ttl + MaxDuration

\* How old an answer to a read may be.
Life(read) == IF read = "compare" THEN Span + Span ELSE Span

\* Some read of the resource is made as the role.
ReaderOf(p, read, role) ==
    \E q \in Requests : \E s \in q.sections : \E i \in DOMAIN PlanOf(q, s) :
        /\ SameResource(p, q.profile, read)
        /\ ReadsOf(PlanOf(q, s)[i].read) \cap ReadsOf(read) # {}
        /\ PlanOf(q, s)[i].role = role

\* The roles an answer to a read of a section may have been read as.
RolesFine(q, s, item, roles) ==
    /\ roles # {}
    /\ \A role \in roles : ReaderOf(q.profile, item.read, role)
    /\ SesOfOwnRole(q.profile, s) => roles = {item.role}

\* The profiles an answer to a read for p may have been read for.
SourcesFine(p, read, profiles) ==
    profiles # {} /\ \A p2 \in profiles : SameResource(p, p2, read)

\* An answer a section has had.
AnswerFine(q, s, i, a) ==
    /\ RolesFine(q, s, PlanOf(q, s)[i], a.answer.roles)
    /\ SourcesFine(q.profile, PlanOf(q, s)[i].read, a.answer.profiles)
    /\ a.at - a.answer.oldest <= Life(PlanOf(q, s)[i].read)

\* An entry of the cache, by the parts of its key.
EntryFine(p, read, keyRole, e) ==
    /\ e.answer.roles # {}
    /\ \A role \in e.answer.roles : ReaderOf(p, read, role)
    /\ read = "ses" /\ keyRole # NoAuth => e.answer.roles = {keyRole}
    /\ SourcesFine(p, read, e.answer.profiles)
    /\ e.expires <= e.answer.oldest + Life(read)

\* An answer that a request of a call started at st has just read.
JustRead(q, item, answer, st) ==
    /\ answer.roles = {item.role} /\ answer.profiles = {q.profile}
    /\ answer.oldest >= st

\* The answer a section is making for a read.
MakingFine(q, s, item, j, st) ==
    /\ j.at \in {"innerLookup", "innerAws", "innerStore"} =>
          item.read = "compare" /\ JustRead(q, item, j.making, st)
    /\ j.at = "innerStore" => JustRead(q, item, j.inner, st)
    /\ j.at = "store" =>
          /\ RolesFine(q, s, item, j.making.roles)
          /\ SourcesFine(q.profile, item.read, j.making.profiles)
          /\ item.read # "compare" => JustRead(q, item, j.making, st)
          /\ item.read = "compare" => j.making.oldest >= st - Span

\* A section that is running or ok.
JobFine(q, s, j, st) ==
    /\ s \in q.sections
    /\ \A i \in 1..Len(j.answers) : AnswerFine(q, s, i, j.answers[i])
    /\ j.status = "ok" => Len(j.answers) = Len(PlanOf(q, s)) /\ j.label = Label(q, s)
    /\ j.status = "running" =>
          /\ Len(j.answers) < Len(PlanOf(q, s))
          /\ MakingFine(q, s, PlanOf(q, s)[Len(j.answers) + 1], j, st)

InTime ==
    \A c \in Calls :
        call[c].phase = "running" =>
            call[c].started <= now /\ now <= call[c].started + MaxDuration

KvFine ==
    /\ \A k \in AllKeys : \A e \in kv[k] : now <= e.expires
    /\ \A p \in Profiles, read \in Reads, keyRole \in Auths :
          \A e \in kv[Key(p, read, keyRole)] : EntryFine(p, read, keyRole, e)

JobsFine ==
    \A c \in Calls, s \in Sections :
        job[c][s].status \in {"running", "ok"} =>
            /\ call[c].phase = "running"
            /\ JobFine(call[c].request, s, job[c][s], call[c].started)

IInv == TypeOK /\ InTime /\ KvFine /\ JobsFine

-----------------------------------------------------------------------------
(* Plans.                                                                  *)

\* A read a profile may give rise to.
ItemFine(p, x) ==
    /\ x.read \in Reads /\ x.role \in Roles
    /\ \E keyRole \in Auths :
          /\ x.key = Key(p, x.read, keyRole)
          /\ keyRole # NoAuth => x.read = "ses" /\ x.role = keyRole

\* The reads of a profile, and all there is to say of one.
ItemsFine(p, items) == \A i \in 1..Len(items) : ItemFine(p, items[i])

LEMMA RoleType ==
    ASSUME NEW p \in Profiles, NEW auth \in Auths
    PROVE  Role(p, auth) \in Roles
BY ProfilesAssumption DEF Role, Auths

LEMMA ItemIsFine ==
    ASSUME NEW p \in Profiles, NEW read \in Reads, NEW auth \in Auths,
           read = "ses" => auth = BlockAuth(p, "ses")
    PROVE  ItemFine(p, Item(p, read, Role(p, auth)))
<1>1. Role(p, auth) \in Roles
  BY RoleType
<1>2. BlockAuth(p, "ses") \in Auths
  BY ProfilesAssumption DEF BlockAuth, Blocks
<1>3. KeyRole(p, read) \in Auths
  BY <1>2 DEF KeyRole, Auths
<1>4. ASSUME KeyRole(p, read) # NoAuth PROVE read = "ses" /\ Role(p, auth) = KeyRole(p, read)
  BY <1>4 DEF KeyRole, Role
<1> QED
  BY <1>1, <1>3, <1>4 DEF Item, ItemFine

\* Of a plan it is enough to know that it is a sequence, and what its reads are.
IsPlan(p, items) == (\E S : items \in Seq(S)) /\ ItemsFine(p, items)

LEMMA NoItems == ASSUME NEW p PROVE IsPlan(p, <<>>)
<1>1. <<>> \in Seq({})
  OBVIOUS
<1> QED
  BY <1>1 DEF IsPlan, ItemsFine

LEMMA OneItem == ASSUME NEW p, NEW x, ItemFine(p, x) PROVE IsPlan(p, <<x>>)
<1>1. <<x>> \in Seq({x}) /\ Len(<<x>>) = 1 /\ <<x>>[1] = x
  OBVIOUS
<1>2. ItemsFine(p, <<x>>)
  BY <1>1 DEF ItemsFine
<1>3. \E S : <<x>> \in Seq(S)
  BY <1>1
<1> QED
  BY <1>2, <1>3 DEF IsPlan

LEMMA ItemsTogether ==
    ASSUME NEW p, NEW a, NEW b, IsPlan(p, a), IsPlan(p, b)
    PROVE  IsPlan(p, a \o b)
<1>1. PICK S : a \in Seq(S)
  BY DEF IsPlan
<1>2. PICK T : b \in Seq(T)
  BY DEF IsPlan
<1>3. a \in Seq(S \cup T) /\ b \in Seq(S \cup T)
  BY <1>1, <1>2
<1>4. a \o b \in Seq(S \cup T) /\ Len(a \o b) = Len(a) + Len(b)
  BY <1>3
<1>5. ASSUME NEW i \in 1..Len(a \o b) PROVE ItemFine(p, (a \o b)[i])
  <2>1. CASE i <= Len(a)
    <3>1. i \in 1..Len(a) /\ (a \o b)[i] = a[i]
      BY <2>1, <1>3, <1>4
    <3> QED
      BY <3>1 DEF IsPlan, ItemsFine
  <2>2. CASE i > Len(a)
    <3>1. i - Len(a) \in 1..Len(b) /\ (a \o b)[i] = b[i - Len(a)]
      BY <2>2, <1>3, <1>4
    <3> QED
      BY <3>1 DEF IsPlan, ItemsFine
  <2> QED
    BY <2>1, <2>2, <1>3, <1>4
<1> QED
  BY <1>4, <1>5 DEF IsPlan, ItemsFine

LEMMA ItemsOfFine ==
    ASSUME NEW p \in Profiles, NEW b \in Blocks, NEW read \in Reads, read = "ses" => b = "ses"
    PROVE  IsPlan(p, ItemsOf(p, b, read))
<1>1. BlockAuth(p, b) \in Auths
  BY ProfilesAssumption DEF BlockAuth
<1>2. ItemFine(p, Item(p, read, Role(p, BlockAuth(p, b))))
  BY <1>1, ItemIsFine
<1> QED
  BY <1>2, NoItems, OneItem DEF ItemsOf

LEMMA PlanIsFine ==
    ASSUME NEW p \in Profiles, NEW s \in ApplicationSections
    PROVE  IsPlan(p, Plan(p, s))
<1>1. \A b \in Blocks, read \in Reads \ {"ses"} : IsPlan(p, ItemsOf(p, b, read))
  BY ItemsOfFine
<1>2. IsPlan(p, ItemsOf(p, "ses", "ses"))
  BY ItemsOfFine DEF Blocks, Reads
<1>3. IsPlan(p, ItemsOf(p, "ecs", "service") \o ItemsOf(p, "ecs", "tasks"))
  BY <1>1, ItemsTogether DEF Blocks, Reads
<1>4. IsPlan(p, <<Item(p, "alarms", Role(p, NoAuth))>>)
  BY ItemIsFine, OneItem DEF Reads, Auths
<1>5. IsPlan(p, <<Item(p, "alarms", Role(p, NoAuth))>> \o ItemsOf(p, "sns", "topic"))
  BY <1>1, <1>4, ItemsTogether DEF Blocks, Reads
<1>6. IsPlan(p, <<Item(p, "alarms", Role(p, NoAuth))>> \o ItemsOf(p, "sns", "topic")
                   \o ItemsOf(p, "eventbridge", "rules"))
  <2>1. IsPlan(p, ItemsOf(p, "eventbridge", "rules"))
    BY <1>1 DEF Blocks, Reads
  <2> QED
    BY <2>1, <1>5, ItemsTogether
<1>7. ArtifactAuth(p) \in Auths
  BY ProfilesAssumption DEF ArtifactAuth, BlockAuth, Blocks
<1>8. IsPlan(p, <<Item(p, "compare", Role(p, ArtifactAuth(p)))>>)
  BY <1>7, ItemIsFine, OneItem DEF Reads
<1>9. IsPlan(p, <<Item(p, "image", Role(p, ArtifactAuth(p)))>>)
  BY <1>7, ItemIsFine, OneItem DEF Reads
<1>10. CASE s = "compute"
  BY <1>10, <1>3 DEF Plan, buildComputeStatus
<1>11. CASE s = "alerting"
  BY <1>11, <1>6 DEF Plan, buildAlertingStatus
<1>12. CASE s = "artifacts"
  BY <1>12, <1>8, <1>9, NoItems DEF Plan, buildArtifactStatus
<1>13. CASE s = "ses"
  BY <1>13, <1>2 DEF Plan, buildSesStatus
<1>14. CASE s = "logs"
  <2>1. IsPlan(p, ItemsOf(p, "ecs", "logs"))
    BY <1>1 DEF Blocks, Reads
  <2> QED
    BY <2>1, <1>14, NoItems DEF Plan, buildApplicationLogs
<1>15. CASE s \in {"database", "ssm", "s3"}
  <2>1. /\ IsPlan(p, ItemsOf(p, "rds", "rds")) /\ IsPlan(p, ItemsOf(p, "ssm", "ssm"))
        /\ IsPlan(p, ItemsOf(p, "s3", "posture"))
    BY <1>1 DEF Blocks, Reads
  <2> QED
    BY <2>1, <1>15 DEF Plan, buildDatabaseStatus, buildSecretInventory, buildS3Posture
<1>16. CASE s = "budget"
  <2>1. IsPlan(p, ItemsOf(p, "budget", "budget"))
    BY <1>1 DEF Blocks, Reads
  <2> QED
    BY <2>1, <1>16, NoItems DEF Plan, buildCostStatus
<1> QED
  BY <1>10, <1>11, <1>12, <1>13, <1>14, <1>15, <1>16 DEF ApplicationSections

LEMMA PlanOfIs ==
    ASSUME NEW q \in Requests, NEW s \in q.sections
    PROVE  PlanOf(q, s) = IF s = "direct" THEN DirectPlan(q) ELSE Plan(q.profile, s)
BY DEF PlanOf, Plans

LEMMA SectionsAre ==
    ASSUME NEW q \in Requests
    PROVE  /\ q.profile \in Profiles
           /\ q.sections \subseteq Sections
           /\ \A s \in q.sections : s = "direct" => q.read \in Reads
<1>1. "direct" \notin ApplicationSections
  BY DEF ApplicationSections
<1> QED
  BY <1>1, RequestsAssumption DEF ToolSections, Sections

\* Every plan is made of reads of its profile.
LEMMA PlansAreFine ==
    ASSUME NEW q \in Requests, NEW s \in q.sections
    PROVE  IsPlan(q.profile, PlanOf(q, s))
<1>1. q.profile \in Profiles
  BY SectionsAre
<1>2. CASE s = "direct"
  <2>1. q.read \in Reads
    BY <1>2, SectionsAre
  <2>2. ItemFine(q.profile,
                 [read |-> q.read, role |-> DefaultRole, key |-> Key(q.profile, q.read, NoAuth)])
    BY <2>1, ProfilesAssumption DEF ItemFine, Auths
  <2>3. PlanOf(q, s) = DirectPlan(q)
    BY <1>2, PlanOfIs
  <2> QED
    BY <2>2, <2>3, OneItem DEF DirectPlan
<1>3. CASE s # "direct"
  <2>1. s \in ApplicationSections
    BY <1>3, SectionsAre DEF Sections
  <2>2. PlanOf(q, s) = Plan(q.profile, s)
    BY <1>3, PlanOfIs
  <2> QED
    BY <1>1, <2>1, <2>2, PlanIsFine
<1> QED
  BY <1>2, <1>3

LEMMA PlanLength ==
    ASSUME NEW q \in Requests, NEW s \in q.sections
    PROVE  /\ Len(PlanOf(q, s)) \in Nat
           /\ DOMAIN PlanOf(q, s) = 1..Len(PlanOf(q, s))
           /\ PlanOf(q, s) # <<>> => Len(PlanOf(q, s)) > 0
           /\ \A i \in 1..Len(PlanOf(q, s)) : ItemFine(q.profile, PlanOf(q, s)[i])
<1>1. PICK S : PlanOf(q, s) \in Seq(S)
  BY PlansAreFine DEF IsPlan
<1>2. Len(PlanOf(q, s)) \in Nat /\ DOMAIN PlanOf(q, s) = 1..Len(PlanOf(q, s))
  BY <1>1
<1>3. PlanOf(q, s) # <<>> => Len(PlanOf(q, s)) > 0
  BY <1>1
<1> QED
  BY <1>2, <1>3, PlansAreFine DEF IsPlan, ItemsFine

\* The one read of an SES block with a role of its own is made as that role and
\* has a key with it.
LEMMA SesItem ==
    ASSUME NEW q \in Requests, NEW s \in q.sections, SesOfOwnRole(q.profile, s),
           NEW i \in 1..Len(PlanOf(q, s))
    PROVE  LET x == PlanOf(q, s)[i]
           IN x.read = "ses" /\ x.role # NoAuth /\ x.key = Key(q.profile, "ses", x.role)
<1> DEFINE p == q.profile
           own == BlockAuth(p, "ses")
           x == Item(p, "ses", Role(p, own))
<1>1. s = "ses" /\ own \notin {NoAuth, DefaultRole}
  BY DEF SesOfOwnRole
<1>2. PlanOf(q, s) \in {<<>>, <<x>>}
  BY <1>1, PlanOfIs DEF Plan, buildSesStatus, ItemsOf
<1>3. x.read = "ses" /\ x.role = own /\ x.key = Key(p, "ses", own)
  BY <1>1 DEF Item, Role, KeyRole
<1> HIDE DEF x
<1>4. PlanOf(q, s)[i] = x
  BY <1>2
<1> QED
  BY <1>1, <1>3, <1>4

-----------------------------------------------------------------------------
(* Keys and readers.                                                       *)

LEMMA KeyInKeys ==
    ASSUME NEW p \in Profiles, NEW read \in Reads, NEW keyRole \in Auths
    PROVE  Key(p, read, keyRole) \in AllKeys
BY DEF AllKeys

\* Equal keys are of the same read of the same resource.
LEMMA KeyTells ==
    ASSUME NEW p, NEW read, NEW keyRole, NEW p2, NEW read2, NEW keyRole2,
           Key(p, read, keyRole) = Key(p2, read2, keyRole2)
    PROVE  read = read2 /\ keyRole = keyRole2 /\ SameResource(p, p2, read)
BY DEF Key, SameResource

LEMMA ReaderElsewhere ==
    ASSUME NEW p, NEW p2, NEW read, NEW role, SameResource(p, p2, read), ReaderOf(p2, read, role)
    PROVE  ReaderOf(p, read, role)
BY DEF ReaderOf, SameResource

LEMMA SourcesElsewhere ==
    ASSUME NEW p, NEW p2, NEW read, NEW profiles,
           SameResource(p, p2, read), SourcesFine(p2, read, profiles)
    PROVE  SourcesFine(p, read, profiles)
BY DEF SourcesFine, SameResource

\* An image and its comparison are the same resource.
LEMMA SourcesOfImage ==
    ASSUME NEW p, NEW profiles, SourcesFine(p, "image", profiles)
    PROVE  SourcesFine(p, "compare", profiles)
BY DEF SourcesFine, SameResource

LEMMA OwnSource == \A p, read : SourcesFine(p, read, {p})
BY DEF SourcesFine, SameResource

\* Who reads an image may be the reader of a comparison, and the other way round.
LEMMA ReaderOfImage ==
    ASSUME NEW p, NEW role
    PROVE  ReaderOf(p, "image", role) => ReaderOf(p, "compare", role)
<1>1. \A p2 : SameResource(p, p2, "image") <=> SameResource(p, p2, "compare")
  BY DEF SameResource
<1>2. \A read : ReadsOf(read) \cap ReadsOf("image") # {}
                   => ReadsOf(read) \cap ReadsOf("compare") # {}
  BY DEF ReadsOf
<1> QED
  BY <1>1, <1>2 DEF ReaderOf

\* The read itself is one.
LEMMA OwnReader ==
    ASSUME NEW q \in Requests, NEW s \in q.sections, NEW i \in 1..Len(PlanOf(q, s))
    PROVE  LET x == PlanOf(q, s)[i]
           IN /\ ReaderOf(q.profile, x.read, x.role)
              /\ x.read = "compare" => ReaderOf(q.profile, "image", x.role)
<1> DEFINE x == PlanOf(q, s)[i]
<1>1. i \in DOMAIN PlanOf(q, s)
  BY PlanLength
<1>2. \A read : SameResource(q.profile, q.profile, read)
  BY DEF SameResource
<1>3. ReadsOf(x.read) \cap ReadsOf(x.read) # {}
  BY DEF ReadsOf
<1>4. x.read = "compare" => ReadsOf(x.read) \cap ReadsOf("image") # {}
  BY DEF ReadsOf
<1> QED
  BY <1>1, <1>2, <1>3, <1>4 DEF ReaderOf

LEMMA EntryElsewhere ==
    ASSUME NEW p, NEW read, NEW keyRole, NEW p2, NEW read2, NEW keyRole2, NEW e,
           Key(p, read, keyRole) = Key(p2, read2, keyRole2), EntryFine(p2, read2, keyRole2, e)
    PROVE  EntryFine(p, read, keyRole, e)
<1>1. read = read2 /\ keyRole = keyRole2 /\ SameResource(p, p2, read)
  BY KeyTells
<1>2. \A role \in e.answer.roles : ReaderOf(p, read, role)
  BY <1>1, ReaderElsewhere DEF EntryFine
<1>3. SourcesFine(p, read, e.answer.profiles)
  BY <1>1, SourcesElsewhere DEF EntryFine
<1> QED
  BY <1>1, <1>2, <1>3 DEF EntryFine

LEMMA OwnRolesFine ==
    ASSUME NEW q \in Requests, NEW s \in q.sections, NEW i \in 1..Len(PlanOf(q, s))
    PROVE  RolesFine(q, s, PlanOf(q, s)[i], {PlanOf(q, s)[i].role})
BY OwnReader DEF RolesFine

\* What is found under the key of a read is an answer to it.
LEMMA HitRolesFine ==
    ASSUME NEW q \in Requests, NEW s \in q.sections, NEW i \in 1..Len(PlanOf(q, s)),
           KvFine, NEW e \in kv[PlanOf(q, s)[i].key]
    PROVE  /\ RolesFine(q, s, PlanOf(q, s)[i], e.answer.roles)
           /\ SourcesFine(q.profile, PlanOf(q, s)[i].read, e.answer.profiles)
           /\ now <= e.expires /\ e.expires <= e.answer.oldest + Life(PlanOf(q, s)[i].read)
           /\ PlanOf(q, s)[i].key \in AllKeys
<1> DEFINE x == PlanOf(q, s)[i]
           p == q.profile
<1>0. p \in Profiles
  BY SectionsAre
<1>1. ItemFine(p, x)
  BY PlanLength
<1>2. PICK keyRole \in Auths : x.key = Key(p, x.read, keyRole)
  BY <1>1 DEF ItemFine
<1>3. x.read \in Reads
  BY <1>1 DEF ItemFine
<1>4. x.key \in AllKeys
  BY <1>0, <1>2, <1>3, KeyInKeys
<1>5. EntryFine(p, x.read, keyRole, e)
  BY <1>0, <1>2, <1>3 DEF KvFine
<1>6. now <= e.expires
  BY <1>4 DEF KvFine
<1>7. ASSUME SesOfOwnRole(p, s) PROVE e.answer.roles = {x.role}
  <2>1. x.read = "ses" /\ x.role # NoAuth /\ x.key = Key(p, "ses", x.role)
    BY <1>7, SesItem
  <2>2. keyRole = x.role
    BY <2>1, <1>2, KeyTells
  <2> QED
    BY <2>1, <2>2, <1>5 DEF EntryFine
<1> QED
  BY <1>4, <1>5, <1>6, <1>7 DEF EntryFine, RolesFine

-----------------------------------------------------------------------------
(* Facts about states.                                                     *)

LEMMA LifeBounds ==
    /\ Span \in Nat /\ Ttl \in Nat \ {0} /\ MaxDuration \in Nat /\ MaxTime \in Nat
    /\ \A read : Life(read) \in Nat /\ Span <= Life(read)
    /\ Life("compare") = Span + Span
    /\ Span = Ttl + MaxDuration
BY TimesAssumption DEF Life, Span

\* A section that runs: its call, its plan and the read it is at.
LEMMA RunningFacts ==
    ASSUME IInv, NEW c \in Calls, NEW s \in Sections, Running(c, s)
    PROVE  /\ Request(c) \in Requests /\ s \in Request(c).sections
           /\ call[c].request = Request(c) /\ call[c].phase = "running"
           /\ call[c].started \in Nat /\ call[c].started <= now
           /\ now <= call[c].started + MaxDuration
           /\ job[c][s] \in JobStates
           /\ now \in 0..MaxTime
           /\ Len(job[c][s].answers) + 1 \in 1..Len(PlanOf(Request(c), s))
           /\ Current(c, s) = PlanOf(Request(c), s)[Len(job[c][s].answers) + 1]
           /\ JobFine(Request(c), s, job[c][s], call[c].started)
           /\ MakingFine(Request(c), s, Current(c, s), job[c][s], call[c].started)
           /\ Request(c).profile \in Profiles
           /\ ItemFine(Request(c).profile, Current(c, s))
<1>1. Request(c) \in Requests /\ call[c].request = Request(c) /\ call[c].started \in 0..MaxTime
  BY DEF IInv, TypeOK, CallStates, Request
<1>2. call[c].phase = "running" /\ JobFine(Request(c), s, job[c][s], call[c].started)
  BY <1>1 DEF IInv, JobsFine, Running
<1>3. call[c].started <= now /\ now <= call[c].started + MaxDuration
  BY <1>2 DEF IInv, InTime
<1>4. job[c][s] \in JobStates /\ now \in 0..MaxTime
  BY DEF IInv, TypeOK
<1>5. Len(job[c][s].answers) \in Nat
  BY <1>4 DEF JobStates
<1>6. s \in Request(c).sections /\ Len(job[c][s].answers) < Len(PlanOf(Request(c), s))
  BY <1>2 DEF JobFine, Running
<1>7. Len(PlanOf(Request(c), s)) \in Nat
  BY <1>1, <1>6, PlanLength
<1>8. Len(job[c][s].answers) + 1 \in 1..Len(PlanOf(Request(c), s))
  BY <1>5, <1>6, <1>7
<1>9. Current(c, s) = PlanOf(Request(c), s)[Len(job[c][s].answers) + 1]
  BY DEF Current
<1>10. MakingFine(Request(c), s, Current(c, s), job[c][s], call[c].started)
  BY <1>2, <1>9 DEF JobFine, Running
<1>11. Request(c).profile \in Profiles
  BY <1>1, SectionsAre
<1>12. ItemFine(Request(c).profile, Current(c, s))
  BY <1>1, <1>6, <1>8, <1>9, PlanLength
<1>13. call[c].started \in Nat
  BY <1>1, TimesAssumption
<1> QED
  BY <1>1, <1>2, <1>3, <1>4, <1>6, <1>8, <1>9, <1>10, <1>11, <1>12, <1>13

\* A step of one section leaves the others as they were.
LEMMA OneJob ==
    ASSUME IInv, NEW c \in Calls, NEW s \in Sections, Running(c, s), NEW j \in JobStates,
           SetJob(c, s, j), UNCHANGED call,
           j.status \in {"running", "ok"} => JobFine(Request(c), s, j, call[c].started)
    PROVE  job' \in [Calls -> [Sections -> JobStates]] /\ JobsFine'
<1>1. job \in [Calls -> [Sections -> JobStates]]
  BY DEF IInv, TypeOK
<1>2. job' \in [Calls -> [Sections -> JobStates]]
  BY <1>1 DEF SetJob
<1>3. ASSUME NEW d \in Calls, NEW t \in Sections, job'[d][t].status \in {"running", "ok"}
      PROVE  call'[d].phase = "running" /\ JobFine(call'[d].request, t, job'[d][t], call'[d].started)
  <2>1. CASE d = c /\ t = s
    <3>1. job'[d][t] = j
      BY <2>1, <1>1 DEF SetJob
    <3>2. call[c].phase = "running" /\ call[c].request = Request(c)
      BY RunningFacts
    <3> QED
      BY <2>1, <3>1, <3>2, <1>3
  <2>2. CASE ~(d = c /\ t = s)
    <3>1. job'[d][t] = job[d][t]
      BY <2>2, <1>1 DEF SetJob
    <3> QED
      BY <3>1, <1>3 DEF IInv, JobsFine
  <2> QED
    BY <2>1, <2>2
<1> QED
  BY <1>2, <1>3 DEF JobsFine

\* The cache after a put that fits its key.
LEMMA PutFine ==
    ASSUME IInv, NEW p \in Profiles, NEW read \in Reads, NEW keyRole \in Auths,
           NEW answer \in Answers, Put(Key(p, read, keyRole), answer) \/ UNCHANGED kv,
           now' = now,
           EntryFine(p, read, keyRole, [answer |-> answer, expires |-> now + Ttl])
    PROVE  kv' \in [AllKeys -> SUBSET Entries] /\ KvFine'
<1> DEFINE k == Key(p, read, keyRole)
           new == [answer |-> answer, expires |-> now + Ttl]
<1>1. kv \in [AllKeys -> SUBSET Entries] /\ now \in 0..MaxTime /\ KvFine
  BY DEF IInv, TypeOK
<1>2. k \in AllKeys
  BY KeyInKeys
<1>3. now + Ttl \in Nat /\ now <= now + Ttl
  BY <1>1, TimesAssumption
<1>4. new \in Entries
  BY <1>3 DEF Entries
<1>5. new.expires = now + Ttl
  OBVIOUS
<1>6. CASE UNCHANGED kv
  BY <1>6, <1>1 DEF KvFine
<1>7. CASE Put(k, answer)
  <2>1. kv' = [kv EXCEPT ![k] = @ \cup {new}]
    BY <1>7 DEF Put
  <2>2. EntryFine(p, read, keyRole, new)
    OBVIOUS
  <2> HIDE DEF new, k
  <2>3. kv' \in [AllKeys -> SUBSET Entries]
    BY <2>1, <1>1, <1>2, <1>4
  <2>4. \A k2 \in AllKeys : \A e \in kv'[k2] : e \in kv[k2] \/ (k2 = k /\ e = new)
    BY <2>1, <1>1
  <2>5. \A k2 \in AllKeys : \A e \in kv'[k2] : now' <= e.expires
    BY <2>4, <1>1, <1>3, <1>5 DEF KvFine
  <2>6. ASSUME NEW p2 \in Profiles, NEW read2 \in Reads, NEW keyRole2 \in Auths,
               NEW e \in kv'[Key(p2, read2, keyRole2)]
        PROVE  EntryFine(p2, read2, keyRole2, e)
    <3>1. Key(p2, read2, keyRole2) \in AllKeys
      BY KeyInKeys
    <3>2. CASE e \in kv[Key(p2, read2, keyRole2)]
      BY <3>2, <1>1 DEF KvFine
    <3>3. CASE Key(p2, read2, keyRole2) = k /\ e = new
      BY <3>3, <2>2, EntryElsewhere DEF k
    <3> QED
      BY <3>1, <3>2, <3>3, <2>4
  <2> QED
    BY <2>3, <2>5, <2>6 DEF KvFine
<1> QED
  BY <1>6, <1>7

\* The next state of a section that has had an answer.
Taken(q, s, j, answer, t) ==
    LET answers == Append(j.answers, [answer |-> answer, at |-> t])
        done == Len(answers) = Len(PlanOf(q, s))
    IN [status |-> IF done THEN "ok" ELSE "running",
        at |-> IF done \/ s = "alerting" THEN "resolve" ELSE "lookup",
        label |-> IF done THEN Label(q, s) ELSE "none",
        answers |-> answers, making |-> NoAnswer, inner |-> NoAnswer]

LEMMA NoAnswerType == NoAnswer \in Answers
BY TimesAssumption DEF NoAnswer, Answers

LEMMA TakenFine ==
    ASSUME NEW q \in Requests, NEW s \in q.sections, NEW j \in JobStates, NEW st,
           JobFine(q, s, j, st), j.status = "running",
           NEW answer \in Answers, NEW t \in 0..MaxTime,
           RolesFine(q, s, PlanOf(q, s)[Len(j.answers) + 1], answer.roles),
           SourcesFine(q.profile, PlanOf(q, s)[Len(j.answers) + 1].read, answer.profiles),
           t - answer.oldest <= Life(PlanOf(q, s)[Len(j.answers) + 1].read)
    PROVE  Taken(q, s, j, answer, t) \in JobStates /\ JobFine(q, s, Taken(q, s, j, answer, t), st)
<1> DEFINE a == [answer |-> answer, at |-> t]
           answers == Append(j.answers, a)
           T == [answer : Answers, at : 0..MaxTime]
           new == Taken(q, s, j, answer, t)
<1>1. a \in T /\ a.answer = answer /\ a.at = t
  OBVIOUS
<1>2. j.answers \in Seq(T)
  BY DEF JobStates
<1> HIDE DEF a, T
<1>3. /\ answers \in Seq(T) /\ Len(answers) = Len(j.answers) + 1 /\ Len(j.answers) \in Nat
      /\ \A i \in 1..Len(j.answers) : answers[i] = j.answers[i]
      /\ answers[Len(j.answers) + 1] = a
  BY <1>1, <1>2
<1>4. AnswerFine(q, s, Len(j.answers) + 1, a)
  BY <1>1 DEF AnswerFine
<1>5. \A i \in 1..Len(answers) : AnswerFine(q, s, i, answers[i])
  BY <1>3, <1>4 DEF JobFine
<1>6. /\ new.answers = answers /\ new.making = NoAnswer /\ new.inner = NoAnswer
      /\ new.status = IF Len(answers) = Len(PlanOf(q, s)) THEN "ok" ELSE "running"
      /\ new.at \in {"resolve", "lookup"}
      /\ new.label = IF Len(answers) = Len(PlanOf(q, s)) THEN Label(q, s) ELSE "none"
  BY DEF Taken, a
<1>7. Label(q, s) \in {"default", "assume-role"}
  BY DEF Label
<1>8. new \in JobStates
  BY <1>3, <1>7, NoAnswerType DEF Taken, JobStates, Statuses, Places, T, a
<1>9. Len(PlanOf(q, s)) \in Nat /\ Len(j.answers) < Len(PlanOf(q, s))
  BY PlanLength DEF JobFine
<1> HIDE DEF answers, new
<1>10. new.status = "running" => Len(new.answers) < Len(PlanOf(q, s))
  BY <1>3, <1>6, <1>9
<1>11. \A x : MakingFine(q, s, x, new, st)
  BY <1>6 DEF MakingFine
<1>12. new.status = "ok" => Len(new.answers) = Len(PlanOf(q, s)) /\ new.label = Label(q, s)
  BY <1>6
<1>13. JobFine(q, s, new, st)
  BY <1>5, <1>6, <1>10, <1>11, <1>12 DEF JobFine
<1> QED
  BY <1>8, <1>13 DEF new

\* A section that takes an answer to the read it is at.
LEMMA TakeFine ==
    ASSUME IInv, NEW c \in Calls, NEW s \in Sections, Running(c, s), NEW answer \in Answers,
           Take(c, s, answer), UNCHANGED call,
           RolesFine(Request(c), s, Current(c, s), answer.roles),
           SourcesFine(Request(c).profile, Current(c, s).read, answer.profiles),
           now - answer.oldest <= Life(Current(c, s).read)
    PROVE  job' \in [Calls -> [Sections -> JobStates]] /\ JobsFine'
<1> DEFINE new == Taken(Request(c), s, job[c][s], answer, now)
<1>1. SetJob(c, s, new)
  BY DEF Take, Taken
<1>2. job[c][s].status = "running"
  BY DEF Running
<1>3. new \in JobStates /\ JobFine(Request(c), s, new, call[c].started)
  BY <1>2, RunningFacts, TakenFine
<1> HIDE DEF new
<1> QED
  BY <1>1, <1>3, OneJob

\* A section that goes to another place of the same read.
LEMMA MoveFine ==
    ASSUME IInv, NEW c \in Calls, NEW s \in Sections, Running(c, s), NEW at \in Places,
           NEW making \in Answers, NEW inner \in Answers,
           Move(c, s, at, making, inner), UNCHANGED call,
           \A j : j.at = at /\ j.making = making /\ j.inner = inner =>
                     MakingFine(Request(c), s, Current(c, s), j, call[c].started)
    PROVE  job' \in [Calls -> [Sections -> JobStates]] /\ JobsFine'
<1> DEFINE new == [status |-> "running", at |-> at, label |-> "none",
                   answers |-> job[c][s].answers, making |-> making, inner |-> inner]
<1>1. SetJob(c, s, new)
  BY DEF Move
<1>2. job[c][s] \in JobStates /\ JobFine(Request(c), s, job[c][s], call[c].started)
  BY RunningFacts
<1>3. new \in JobStates
  BY <1>2 DEF JobStates, Statuses
<1>4. /\ new.status = "running" /\ new.at = at /\ new.making = making /\ new.inner = inner
      /\ new.answers = job[c][s].answers
  OBVIOUS
<1> HIDE DEF new
<1>5. MakingFine(Request(c), s, Current(c, s), new, call[c].started)
  BY <1>4
<1>6. JobFine(Request(c), s, new, call[c].started)
  BY <1>2, <1>4, <1>5 DEF JobFine, Current, Running
<1> QED
  BY <1>1, <1>3, <1>6, OneJob

LEMMA ErrorFine ==
    ASSUME IInv, NEW c \in Calls, NEW s \in Sections, Running(c, s),
           SetJob(c, s, Error), UNCHANGED call
    PROVE  job' \in [Calls -> [Sections -> JobStates]] /\ JobsFine'
<1>1. Error.status = "error"
  BY DEF Error
<1>2. <<>> \in Seq([answer : Answers, at : 0..MaxTime])
  OBVIOUS
<1>3. Error \in JobStates
  BY <1>2, NoAnswerType DEF Error, JobStates, Statuses, Places
<1> QED
  BY <1>1, <1>3, OneJob

LEMMA TogetherType ==
    ASSUME NEW a \in Answers, NEW b \in Answers
    PROVE  /\ Together(a, b) \in Answers
           /\ Together(a, b).roles = a.roles \cup b.roles
           /\ Together(a, b).profiles = a.profiles \cup b.profiles
           /\ Together(a, b).oldest \in {a.oldest, b.oldest}
BY DEF Together, Answers

\* The roles of a comparison made of an image that was read as any role.
LEMMA ComparedRolesFine ==
    ASSUME NEW q \in Requests, NEW s \in q.sections, NEW i \in 1..Len(PlanOf(q, s)),
           PlanOf(q, s)[i].read = "compare", NEW roles,
           \A role \in roles : ReaderOf(q.profile, "image", role)
    PROVE  RolesFine(q, s, PlanOf(q, s)[i], {PlanOf(q, s)[i].role} \cup roles)
<1>1. ~SesOfOwnRole(q.profile, s)
  BY SesItem
<1>2. ReaderOf(q.profile, "compare", PlanOf(q, s)[i].role)
  BY OwnReader
<1>3. \A role \in roles : ReaderOf(q.profile, "compare", role)
  BY ReaderOfImage
<1> QED
  BY <1>1, <1>2, <1>3 DEF RolesFine

\* What a running call keeps when neither time, calls nor cache change.
LEMMA Unmoved ==
    ASSUME IInv, UNCHANGED <<now, call>>, kv' \in [AllKeys -> SUBSET Entries], KvFine',
           job' \in [Calls -> [Sections -> JobStates]], JobsFine'
    PROVE  IInv'
<1>1. now' \in 0..MaxTime /\ call' \in [Calls -> CallStates]
  BY DEF IInv, TypeOK
<1>2. InTime'
  BY DEF IInv, InTime
<1> QED
  BY <1>1, <1>2 DEF IInv, TypeOK

LEMMA SameCache ==
    ASSUME IInv, UNCHANGED <<now, kv>>
    PROVE  kv' \in [AllKeys -> SUBSET Entries] /\ KvFine'
BY DEF IInv, TypeOK, KvFine

LEMMA NowInTime == ASSUME IInv PROVE now \in 0..MaxTime /\ KvFine
BY DEF IInv, TypeOK

-----------------------------------------------------------------------------
(* The steps of a section.                                                 *)

LEMMA ResolveKeeps ==
    ASSUME IInv, NEW c \in Calls, NEW s \in Sections, Resolve(c, s)
    PROVE  IInv'
<1>1. Running(c, s) /\ UNCHANGED <<now, kv, call>>
  BY DEF Resolve
<1>2. CASE Move(c, s, "lookup", NoAnswer, NoAnswer)
  <2>1. \A j : j.at = "lookup" => MakingFine(Request(c), s, Current(c, s), j, call[c].started)
    BY DEF MakingFine
  <2> QED
    BY <1>1, <1>2, <2>1, NoAnswerType, MoveFine, SameCache, Unmoved DEF Places
<1>3. CASE SetJob(c, s, Error)
  BY <1>1, <1>3, ErrorFine, SameCache, Unmoved
<1> QED
  BY <1>2, <1>3 DEF Resolve

LEMMA MissKeeps ==
    ASSUME IInv, NEW c \in Calls, NEW s \in Sections, Miss(c, s)
    PROVE  IInv'
<1>1. Running(c, s) /\ UNCHANGED <<now, kv, call>> /\ Move(c, s, "aws", NoAnswer, NoAnswer)
  BY DEF Miss
<1>2. \A j : j.at = "aws" => MakingFine(Request(c), s, Current(c, s), j, call[c].started)
  BY DEF MakingFine
<1> QED
  BY <1>1, <1>2, NoAnswerType, MoveFine, SameCache, Unmoved DEF Places

LEMMA HitKeeps ==
    ASSUME IInv, NEW c \in Calls, NEW s \in Sections, Hit(c, s)
    PROVE  IInv'
<1>1. Running(c, s) /\ UNCHANGED <<now, kv, call>>
  BY DEF Hit
<1>2. PICK e \in kv[Current(c, s).key] : Take(c, s, e.answer)
  BY DEF Hit
<1>3. /\ RolesFine(Request(c), s, Current(c, s), e.answer.roles)
      /\ SourcesFine(Request(c).profile, Current(c, s).read, e.answer.profiles)
      /\ now <= e.expires /\ e.expires <= e.answer.oldest + Life(Current(c, s).read)
      /\ Current(c, s).key \in AllKeys
  <2> DEFINE q == Request(c)
             i == Len(job[c][s].answers) + 1
  <2>1. q \in Requests /\ s \in q.sections /\ i \in 1..Len(PlanOf(q, s))
    BY <1>1, RunningFacts
  <2>2. Current(c, s) = PlanOf(q, s)[i]
    BY <1>1, RunningFacts
  <2>3. KvFine
    BY NowInTime
  <2> HIDE DEF q, i
  <2>4. e \in kv[PlanOf(q, s)[i].key]
    BY <2>2
  <2> QED
    BY <2>1, <2>2, <2>3, <2>4, HitRolesFine DEF q
<1>4. e \in Entries
  BY <1>3 DEF IInv, TypeOK
<1>5. e.answer \in Answers /\ e.expires \in Nat /\ e.answer.oldest \in 0..MaxTime
  BY <1>4 DEF Entries, Answers
<1>6. now - e.answer.oldest <= Life(Current(c, s).read)
  BY <1>3, <1>5, NowInTime, LifeBounds
<1> QED
  BY <1>1, <1>2, <1>3, <1>5, <1>6, TakeFine, SameCache, Unmoved

\* What is read now, was.
LEMMA OwnFacts ==
    ASSUME IInv, NEW c \in Calls, NEW s \in Sections, Running(c, s)
    PROVE  /\ Own(c, s) \in Answers
           /\ JustRead(Request(c), Current(c, s), Own(c, s), call[c].started)
           /\ RolesFine(Request(c), s, Current(c, s), Own(c, s).roles)
           /\ SourcesFine(Request(c).profile, Current(c, s).read, Own(c, s).profiles)
<1>1. Current(c, s).role \in Roles
  BY RunningFacts DEF ItemFine
<1>2. /\ Own(c, s) \in Answers /\ Own(c, s).roles = {Current(c, s).role} /\ Own(c, s).oldest = now
      /\ Own(c, s).profiles = {Request(c).profile}
  BY <1>1, RunningFacts DEF Own, Answers
<1>3. RolesFine(Request(c), s, Current(c, s), {Current(c, s).role})
  BY RunningFacts, OwnRolesFine
<1>4. now >= call[c].started
  BY RunningFacts
<1> QED
  BY <1>2, <1>3, <1>4, OwnSource DEF JustRead

LEMMA AskKeeps ==
    ASSUME IInv, NEW c \in Calls, NEW s \in Sections, Ask(c, s)
    PROVE  IInv'
<1>1. Running(c, s) /\ UNCHANGED <<now, kv, call>>
  BY DEF Ask
<1>2. CASE Current(c, s).read = "compare"
  <2>1. Move(c, s, "innerLookup", Own(c, s), NoAnswer)
    BY <1>2 DEF Ask
  <2>2. \A j : j.at = "innerLookup" /\ j.making = Own(c, s) =>
            MakingFine(Request(c), s, Current(c, s), j, call[c].started)
    BY <1>1, <1>2, OwnFacts DEF MakingFine
  <2> QED
    BY <1>1, <2>1, <2>2, OwnFacts, NoAnswerType, MoveFine, SameCache, Unmoved DEF Places
<1>3. CASE Current(c, s).read # "compare"
  <2>1. Move(c, s, "store", Own(c, s), NoAnswer)
    BY <1>3 DEF Ask
  <2>2. \A j : j.at = "store" /\ j.making = Own(c, s) =>
            MakingFine(Request(c), s, Current(c, s), j, call[c].started)
    BY <1>1, <1>3, OwnFacts DEF MakingFine
  <2> QED
    BY <1>1, <2>1, <2>2, OwnFacts, NoAnswerType, MoveFine, SameCache, Unmoved DEF Places
<1> QED
  BY <1>2, <1>3

\* A section within a comparison of images.
LEMMA InnerFacts ==
    ASSUME IInv, NEW c \in Calls, NEW s \in Sections, Running(c, s),
           job[c][s].at \in {"innerLookup", "innerAws", "innerStore"}
    PROVE  /\ Current(c, s).read = "compare"
           /\ job[c][s].making \in Answers /\ job[c][s].inner \in Answers
           /\ JustRead(Request(c), Current(c, s), job[c][s].making, call[c].started)
BY RunningFacts DEF MakingFine, JobStates

LEMMA InnerMissKeeps ==
    ASSUME IInv, NEW c \in Calls, NEW s \in Sections, InnerMiss(c, s)
    PROVE  IInv'
<1>1. /\ Running(c, s) /\ UNCHANGED <<now, kv, call>> /\ job[c][s].at = "innerLookup"
      /\ Move(c, s, "innerAws", job[c][s].making, NoAnswer)
  BY DEF InnerMiss
<1>2. \A j : j.at = "innerAws" /\ j.making = job[c][s].making =>
          MakingFine(Request(c), s, Current(c, s), j, call[c].started)
  BY <1>1, InnerFacts DEF MakingFine
<1> QED
  BY <1>1, <1>2, InnerFacts, NoAnswerType, MoveFine, SameCache, Unmoved DEF Places

LEMMA InnerAskKeeps ==
    ASSUME IInv, NEW c \in Calls, NEW s \in Sections, InnerAsk(c, s)
    PROVE  IInv'
<1>1. /\ Running(c, s) /\ UNCHANGED <<now, kv, call>> /\ job[c][s].at = "innerAws"
      /\ Move(c, s, "innerStore", job[c][s].making, Own(c, s))
  BY DEF InnerAsk
<1>2. \A j : j.at = "innerStore" /\ j.making = job[c][s].making /\ j.inner = Own(c, s) =>
          MakingFine(Request(c), s, Current(c, s), j, call[c].started)
  BY <1>1, InnerFacts, OwnFacts DEF MakingFine
<1> QED
  BY <1>1, <1>2, InnerFacts, OwnFacts, MoveFine, SameCache, Unmoved DEF Places

\* A comparison made of an image's status that is no older than a life.
LEMMA ComparedFine ==
    ASSUME IInv, NEW c \in Calls, NEW s \in Sections, Running(c, s),
           job[c][s].at \in {"innerLookup", "innerStore"}, NEW answer \in Answers,
           \A role \in answer.roles : ReaderOf(Request(c).profile, "image", role),
           SourcesFine(Request(c).profile, "image", answer.profiles),
           answer.oldest >= call[c].started - Span
    PROVE  /\ Together(job[c][s].making, answer) \in Answers
           /\ \A j : j.at = "store" /\ j.making = Together(job[c][s].making, answer) =>
                 MakingFine(Request(c), s, Current(c, s), j, call[c].started)
<1> DEFINE made == Together(job[c][s].making, answer)
           x == Current(c, s)
<1>1. /\ made \in Answers /\ made.roles = job[c][s].making.roles \cup answer.roles
      /\ made.profiles = job[c][s].making.profiles \cup answer.profiles
      /\ made.oldest \in {job[c][s].making.oldest, answer.oldest}
  BY InnerFacts, TogetherType
<1>2. /\ job[c][s].making.roles = {x.role} /\ job[c][s].making.oldest >= call[c].started
      /\ job[c][s].making.profiles = {Request(c).profile}
      /\ x.read = "compare"
  BY InnerFacts DEF JustRead
<1>3. RolesFine(Request(c), s, x, made.roles)
  <2> DEFINE q == Request(c)
             i == Len(job[c][s].answers) + 1
  <2>1. q \in Requests /\ s \in q.sections /\ i \in 1..Len(PlanOf(q, s))
    BY RunningFacts
  <2>2. x = PlanOf(q, s)[i]
    BY RunningFacts
  <2>3. \A role \in answer.roles : ReaderOf(q.profile, "image", role)
    OBVIOUS
  <2>4. made.roles = {x.role} \cup answer.roles
    BY <1>1, <1>2
  <2> HIDE DEF q, i, x, made
  <2>5. PlanOf(q, s)[i].read = "compare"
    BY <1>2, <2>2 DEF x
  <2>6. RolesFine(q, s, PlanOf(q, s)[i], {PlanOf(q, s)[i].role} \cup answer.roles)
    BY <2>1, <2>3, <2>5, ComparedRolesFine
  <2> QED
    BY <2>2, <2>4, <2>6 DEF q
<1>4. job[c][s].making.oldest \in 0..MaxTime
  BY InnerFacts DEF Answers
<1>5. job[c][s].making.oldest >= call[c].started - Span
  BY <1>2, <1>4, RunningFacts, LifeBounds
<1>6. made.oldest >= call[c].started - Span
  BY <1>1, <1>5
<1>7. SourcesFine(Request(c).profile, x.read, made.profiles)
  <2>1. /\ SourcesFine(Request(c).profile, "compare", answer.profiles)
        /\ SourcesFine(Request(c).profile, "compare", {Request(c).profile})
    BY SourcesOfImage, OwnSource
  <2>2. made.profiles = {Request(c).profile} \cup answer.profiles
    BY <1>1, <1>2
  <2> HIDE DEF made
  <2> QED
    BY <1>2, <2>1, <2>2 DEF SourcesFine
<1> HIDE DEF made
<1> QED
  BY <1>1, <1>2, <1>3, <1>6, <1>7 DEF MakingFine, made

LEMMA InnerHitKeeps ==
    ASSUME IInv, NEW c \in Calls, NEW s \in Sections, InnerHit(c, s)
    PROVE  IInv'
<1> DEFINE p == Request(c).profile
<1>1. Running(c, s) /\ UNCHANGED <<now, kv, call>> /\ job[c][s].at = "innerLookup"
  BY DEF InnerHit
<1>2. PICK e \in kv[InnerKey(c)] :
          Move(c, s, "store", Together(job[c][s].making, e.answer), NoAnswer)
  BY DEF InnerHit
<1>3. InnerKey(c) = Key(p, "image", NoAuth) /\ p \in Profiles
  BY <1>1, RunningFacts DEF InnerKey
<1>4. "image" \in Reads /\ NoAuth \in Auths
  BY DEF Reads, Auths
<1>5. InnerKey(c) \in AllKeys
  BY <1>3, <1>4, KeyInKeys
<1>6. EntryFine(p, "image", NoAuth, e) /\ now <= e.expires
  BY <1>3, <1>4, <1>5, NowInTime DEF KvFine
<1>7. e.answer \in Answers /\ e.expires \in Nat /\ e.answer.oldest \in 0..MaxTime
  BY <1>5 DEF IInv, TypeOK, Entries, Answers
<1>8. e.answer.oldest >= call[c].started - Span
  <2>1. Life("image") = Span
    BY DEF Life
  <2>2. e.expires <= e.answer.oldest + Span
    BY <1>6, <2>1 DEF EntryFine
  <2>3. call[c].started <= now /\ call[c].started \in Nat /\ now \in 0..MaxTime
    BY <1>1, RunningFacts
  <2> QED
    BY <1>6, <1>7, <2>2, <2>3, LifeBounds
<1>9. /\ \A role \in e.answer.roles : ReaderOf(p, "image", role)
      /\ SourcesFine(p, "image", e.answer.profiles)
  BY <1>6 DEF EntryFine
<1>10. /\ Together(job[c][s].making, e.answer) \in Answers
       /\ \A j : j.at = "store" /\ j.making = Together(job[c][s].making, e.answer) =>
             MakingFine(Request(c), s, Current(c, s), j, call[c].started)
  BY <1>1, <1>7, <1>8, <1>9, ComparedFine
<1> QED
  BY <1>1, <1>2, <1>10, NoAnswerType, MoveFine, SameCache, Unmoved DEF Places

LEMMA InnerStoreKeeps ==
    ASSUME IInv, NEW c \in Calls, NEW s \in Sections, InnerStore(c, s)
    PROVE  IInv'
<1> DEFINE p == Request(c).profile
           x == Current(c, s)
           image == job[c][s].inner
           new == [answer |-> image, expires |-> now + Ttl]
<1>1. /\ Running(c, s) /\ UNCHANGED <<now, call>> /\ job[c][s].at = "innerStore"
      /\ Put(InnerKey(c), image) \/ UNCHANGED kv
      /\ Move(c, s, "store", Together(job[c][s].making, image), NoAnswer)
  BY DEF InnerStore
<1>2. p \in Profiles /\ "image" \in Reads /\ NoAuth \in Auths /\ InnerKey(c) = Key(p, "image", NoAuth)
  BY <1>1, RunningFacts DEF InnerKey, Reads, Auths
<1>3. /\ image \in Answers /\ image.roles = {x.role} /\ image.profiles = {p}
      /\ image.oldest >= call[c].started
  BY <1>1, InnerFacts, RunningFacts DEF MakingFine, JustRead
<1>4. x.read = "compare"
  BY <1>1, InnerFacts
<1>5. ReaderOf(p, "image", x.role)
  BY <1>1, <1>4, RunningFacts, OwnReader
<1>6. image.oldest \in 0..MaxTime
  BY <1>3 DEF Answers
<1>7. EntryFine(p, "image", NoAuth, new)
  <2>1. new.answer = image /\ new.expires = now + Ttl
    OBVIOUS
  <2>2. Life("image") = Span
    BY DEF Life
  <2>3. now + Ttl <= image.oldest + Span
    BY <1>1, <1>3, <1>6, RunningFacts, LifeBounds
  <2> HIDE DEF new
  <2> QED
    BY <1>3, <1>5, <2>1, <2>2, <2>3, OwnSource DEF EntryFine
<1>8. kv' \in [AllKeys -> SUBSET Entries] /\ KvFine'
  BY <1>1, <1>2, <1>3, <1>7, PutFine
<1>9. image.oldest >= call[c].started - Span
  BY <1>1, <1>3, <1>6, RunningFacts, LifeBounds
<1>10. /\ Together(job[c][s].making, image) \in Answers
       /\ \A j : j.at = "store" /\ j.making = Together(job[c][s].making, image) =>
             MakingFine(Request(c), s, Current(c, s), j, call[c].started)
  BY <1>1, <1>3, <1>5, <1>9, OwnSource, ComparedFine
<1>11. job' \in [Calls -> [Sections -> JobStates]] /\ JobsFine'
  BY <1>1, <1>10, NoAnswerType, MoveFine DEF Places
<1> QED
  BY <1>1, <1>8, <1>11, Unmoved

LEMMA FailKeeps ==
    ASSUME IInv, NEW c \in Calls, NEW s \in Sections, Fail(c, s)
    PROVE  IInv'
<1>1. Running(c, s) /\ UNCHANGED <<now, kv, call>> /\ SetJob(c, s, Error)
  BY DEF Fail
<1> QED
  BY <1>1, ErrorFine, SameCache, Unmoved

\* What is no older than its life, less the time it is to be kept, outlives that.
LEMMA StillAlive ==
    ASSUME NEW time \in Nat, NEW oldest \in Nat, NEW life \in Nat, NEW kept \in Nat,
           time <= oldest + life - kept
    PROVE  time + kept <= oldest + life /\ time - oldest <= life
OBVIOUS

LEMMA StoreKeeps ==
    ASSUME IInv, NEW c \in Calls, NEW s \in Sections, Store(c, s)
    PROVE  IInv'
<1> DEFINE p == Request(c).profile
           x == Current(c, s)
           made == job[c][s].making
           new == [answer |-> made, expires |-> now + Ttl]
<1>1. /\ Running(c, s) /\ UNCHANGED <<now, call>> /\ job[c][s].at = "store"
      /\ Put(x.key, made) \/ UNCHANGED kv
      /\ Take(c, s, made)
  BY DEF Store
<1>2. /\ RolesFine(Request(c), s, x, made.roles)
      /\ SourcesFine(p, x.read, made.profiles)
      /\ x.read # "compare" => JustRead(Request(c), x, made, call[c].started)
      /\ x.read = "compare" => made.oldest >= call[c].started - Span
  BY <1>1, RunningFacts DEF MakingFine
<1>3. made \in Answers /\ made.oldest \in 0..MaxTime
  BY <1>1, RunningFacts DEF JobStates, Answers
<1>4. now \in Nat /\ made.oldest \in Nat /\ Ttl \in Nat
  BY <1>1, <1>3, RunningFacts, LifeBounds
<1>5. Life(x.read) \in Nat
  BY LifeBounds
<1>6. now <= made.oldest + Life(x.read) - Ttl
  <2>1. CASE x.read = "compare"
    <3>1. made.oldest >= call[c].started - Span
      BY <1>2, <2>1
    <3>2. Life(x.read) = Span + Span
      BY <2>1, LifeBounds
    <3> QED
      BY <1>1, <1>3, <3>1, <3>2, RunningFacts, LifeBounds
  <2>2. CASE x.read # "compare"
    <3>1. made.oldest >= call[c].started
      BY <1>2, <2>2 DEF JustRead
    <3>2. Life(x.read) = Span
      BY <2>2 DEF Life
    <3> QED
      BY <1>1, <1>3, <3>1, <3>2, RunningFacts, LifeBounds
  <2> QED
    BY <2>1, <2>2
<1>7. p \in Profiles /\ ItemFine(p, x)
  BY <1>1, RunningFacts
<1>8. PICK keyRole \in Auths :
          /\ x.key = Key(p, x.read, keyRole)
          /\ keyRole # NoAuth => x.read = "ses" /\ x.role = keyRole
  BY <1>7 DEF ItemFine
<1>9. EntryFine(p, x.read, keyRole, new)
  <2>1. new.answer = made /\ new.expires = now + Ttl
    OBVIOUS
  <2> HIDE DEF new
  <2>2. now + Ttl <= made.oldest + Life(x.read)
    BY <1>4, <1>5, <1>6, StillAlive
  <2>3. made.roles # {} /\ \A role \in made.roles : ReaderOf(p, x.read, role)
    BY <1>2 DEF RolesFine
  <2>4. x.read = "ses" /\ keyRole # NoAuth => made.roles = {keyRole}
    BY <1>2, <1>8 DEF JustRead
  <2> QED
    BY <1>2, <2>1, <2>2, <2>3, <2>4 DEF EntryFine
<1>10. x.read \in Reads
  BY <1>7 DEF ItemFine
<1>11. kv' \in [AllKeys -> SUBSET Entries] /\ KvFine'
  BY <1>1, <1>3, <1>7, <1>8, <1>9, <1>10, PutFine
<1>12. now - made.oldest <= Life(x.read)
  BY <1>4, <1>5, <1>6, StillAlive
<1>13. job' \in [Calls -> [Sections -> JobStates]] /\ JobsFine'
  BY <1>1, <1>2, <1>3, <1>12, TakeFine
<1> QED
  BY <1>1, <1>11, <1>13, Unmoved

-----------------------------------------------------------------------------
(* The steps of a call, and time.                                          *)

LEMMA LaunchKeeps ==
    ASSUME IInv, NEW c \in Calls, Launch(c)
    PROVE  IInv'
<1> DEFINE q == Request(c)
           J(s) == IF s \notin q.sections THEN NoJob
                   ELSE IF s = "budget" /\ Has(q.profile, "budget")
                           /\ ~Has(q.profile, "accountId")
                   THEN Error
                   ELSE [status |-> IF PlanOf(q, s) = <<>> THEN "skipped" ELSE "running",
                         at |-> "resolve", label |-> "none", answers |-> <<>>,
                         making |-> NoAnswer, inner |-> NoAnswer]
           started == [phase |-> "running", request |-> q, started |-> now]
<1>1. /\ call[c].phase = "idle" /\ UNCHANGED <<now, kv>>
      /\ call' = [call EXCEPT ![c] = started]
      /\ job' = [job EXCEPT ![c] = [s \in Sections |-> J(s)]]
  BY DEF Launch
<1>2. /\ now \in 0..MaxTime /\ call \in [Calls -> CallStates]
      /\ job \in [Calls -> [Sections -> JobStates]] /\ q \in Requests
  BY DEF IInv, TypeOK, CallStates, Request
<1>3. started \in CallStates
  BY <1>2 DEF CallStates
<1>4. started.phase = "running" /\ started.request = q /\ started.started = now
  OBVIOUS
<1>5. <<>> \in Seq([answer : Answers, at : 0..MaxTime]) /\ Len(<<>>) = 0
  OBVIOUS
<1>6. NoJob \in JobStates /\ Error \in JobStates /\ NoJob.status = "none" /\ Error.status = "error"
  BY <1>5, NoAnswerType DEF NoJob, Error, JobStates, Statuses, Places
<1>7. ASSUME NEW s \in Sections
      PROVE  /\ J(s) \in JobStates
             /\ J(s).status \in {"running", "ok"} => JobFine(q, s, J(s), now)
  <2>1. CASE s \notin q.sections \/ (s = "budget" /\ Has(q.profile, "budget")
                                      /\ ~Has(q.profile, "accountId"))
    <3>1. J(s) \in {NoJob, Error}
      BY <2>1
    <3> HIDE DEF J
    <3> QED
      BY <3>1, <1>6
  <2>2. CASE ~(s \notin q.sections \/ (s = "budget" /\ Has(q.profile, "budget")
                                        /\ ~Has(q.profile, "accountId")))
    <3> DEFINE status == IF PlanOf(q, s) = <<>> THEN "skipped" ELSE "running"
               j == [status |-> status, at |-> "resolve", label |-> "none", answers |-> <<>>,
                     making |-> NoAnswer, inner |-> NoAnswer]
    <3>1. J(s) = j /\ s \in q.sections
      BY <2>2
    <3>2. status \in {"skipped", "running"} /\ (status = "running" => PlanOf(q, s) # <<>>)
      OBVIOUS
    <3> HIDE DEF status, J
    <3>3. j \in JobStates
      BY <1>5, <3>2, NoAnswerType DEF JobStates, Statuses, Places
    <3>4. j.status = status /\ j.at = "resolve" /\ j.answers = <<>>
      OBVIOUS
    <3> HIDE DEF j
    <3>5. Len(j.answers) = 0
      BY <3>4, <1>5
    <3>6. j.status = "running" => Len(j.answers) < Len(PlanOf(q, s))
      BY <1>2, <3>1, <3>2, <3>4, <3>5, PlanLength
    <3>7. \A x : MakingFine(q, s, x, j, now)
      BY <3>4 DEF MakingFine
    <3>8. \A i \in 1..Len(j.answers) : AnswerFine(q, s, i, j.answers[i])
      BY <3>5
    <3>9. j.status # "ok"
      BY <3>2, <3>4
    <3>10. JobFine(q, s, j, now) \/ j.status # "running"
      BY <3>1, <3>6, <3>7, <3>8, <3>9 DEF JobFine
    <3> QED
      BY <3>1, <3>3, <3>9, <3>10
  <2> QED
    BY <2>1, <2>2
<1> HIDE DEF J, started
<1>8. call' \in [Calls -> CallStates] /\ job' \in [Calls -> [Sections -> JobStates]]
  BY <1>1, <1>2, <1>3, <1>7
<1>9. InTime'
  <2>1. ASSUME NEW d \in Calls, call'[d].phase = "running"
        PROVE  call'[d].started <= now /\ now <= call'[d].started + MaxDuration
    <3>1. CASE d = c
      BY <3>1, <1>1, <1>2, <1>4, LifeBounds
    <3>2. CASE d # c
      BY <3>2, <2>1, <1>1, <1>2 DEF IInv, InTime
    <3> QED
      BY <3>1, <3>2
  <2> QED
    BY <2>1, <1>1 DEF InTime
<1>10. JobsFine'
  <2>1. ASSUME NEW d \in Calls, NEW s \in Sections, job'[d][s].status \in {"running", "ok"}
        PROVE  call'[d].phase = "running" /\ JobFine(call'[d].request, s, job'[d][s], call'[d].started)
    <3>1. CASE d = c
      <4>1. call'[d] = started /\ job'[d][s] = J(s)
        BY <3>1, <1>1, <1>2
      <4> QED
        BY <4>1, <2>1, <1>4, <1>7
    <3>2. CASE d # c
      <4>1. call'[d] = call[d] /\ job'[d] = job[d]
        BY <3>2, <1>1, <1>2
      <4> QED
        BY <4>1, <2>1 DEF IInv, JobsFine
    <3> QED
      BY <3>1, <3>2
  <2> QED
    BY <2>1 DEF JobsFine
<1> QED
  BY <1>1, <1>2, <1>8, <1>9, <1>10, SameCache DEF IInv, TypeOK

LEMMA RefuseKeeps ==
    ASSUME IInv, NEW c \in Calls, Refuse(c)
    PROVE  IInv'
<1> DEFINE failed == [phase |-> "failed", request |-> Request(c), started |-> 0]
<1>1. call[c].phase = "idle" /\ UNCHANGED <<now, kv, job>> /\ call' = [call EXCEPT ![c] = failed]
  BY DEF Refuse
<1>2. now \in 0..MaxTime /\ call \in [Calls -> CallStates] /\ Request(c) \in Requests
  BY DEF IInv, TypeOK, CallStates, Request
<1>3. failed \in CallStates /\ failed.phase = "failed"
  BY <1>2, TimesAssumption DEF CallStates
<1> HIDE DEF failed
<1>4. call' \in [Calls -> CallStates] /\ InTime'
  BY <1>1, <1>2, <1>3 DEF IInv, InTime
<1>5. JobsFine'
  <2>1. \A s \in Sections : job[c][s].status \notin {"running", "ok"}
    BY <1>1 DEF IInv, JobsFine
  <2>2. \A d \in Calls : d # c => call'[d] = call[d]
    BY <1>1, <1>2
  <2> QED
    BY <1>1, <2>1, <2>2 DEF IInv, JobsFine
<1> QED
  BY <1>1, <1>2, <1>4, <1>5, SameCache DEF IInv, TypeOK

LEMMA ReplyKeeps ==
    ASSUME IInv, NEW c \in Calls, Reply(c)
    PROVE  IInv'
<1> DEFINE answered == [phase |-> "answered", request |-> Request(c), started |-> 0]
<1>1. /\ UNCHANGED <<now, kv>> /\ call' = [call EXCEPT ![c] = answered]
      /\ job' = [job EXCEPT ![c] = [s \in Sections |-> NoJob]]
  BY DEF Reply
<1>2. /\ now \in 0..MaxTime /\ call \in [Calls -> CallStates] /\ Request(c) \in Requests
      /\ job \in [Calls -> [Sections -> JobStates]]
  BY DEF IInv, TypeOK, CallStates, Request
<1>3. answered \in CallStates /\ answered.phase = "answered"
  BY <1>2, TimesAssumption DEF CallStates
<1>4. <<>> \in Seq([answer : Answers, at : 0..MaxTime])
  OBVIOUS
<1>5. NoJob \in JobStates /\ NoJob.status = "none"
  BY <1>4, NoAnswerType DEF NoJob, JobStates, Statuses, Places
<1> HIDE DEF answered
<1>6. call' \in [Calls -> CallStates] /\ InTime'
  BY <1>1, <1>2, <1>3 DEF IInv, InTime
<1>7. job' \in [Calls -> [Sections -> JobStates]]
  BY <1>1, <1>2, <1>5
<1>8. JobsFine'
  <2>1. \A s \in Sections : job'[c][s] = NoJob
    BY <1>1, <1>2
  <2>2. \A d \in Calls : d # c => call'[d] = call[d] /\ job'[d] = job[d]
    BY <1>1, <1>2
  <2> QED
    BY <1>5, <2>1, <2>2 DEF IInv, JobsFine
<1> QED
  BY <1>1, <1>2, <1>6, <1>7, <1>8, SameCache DEF IInv, TypeOK

LEMMA TickKeeps ==
    ASSUME IInv, Tick
    PROVE  IInv'
<1>1. /\ now < MaxTime /\ now' = now + 1 /\ UNCHANGED <<call, job>>
      /\ \A c \in Calls : call[c].phase = "running" => now < call[c].started + MaxDuration
      /\ kv' = [k \in AllKeys |-> {e \in kv[k] : e.expires >= now + 1}]
  BY DEF Tick
<1>2. /\ now \in 0..MaxTime /\ call \in [Calls -> CallStates] /\ kv \in [AllKeys -> SUBSET Entries]
      /\ job \in [Calls -> [Sections -> JobStates]]
  BY DEF IInv, TypeOK
<1>3. now' \in 0..MaxTime
  BY <1>1, <1>2, TimesAssumption
<1>4. InTime'
  <2>1. ASSUME NEW c \in Calls, call[c].phase = "running"
        PROVE  call[c].started <= now + 1 /\ now + 1 <= call[c].started + MaxDuration
    <3>1. call[c].started <= now /\ now < call[c].started + MaxDuration
      BY <1>1, <2>1 DEF IInv, InTime
    <3>2. call[c].started \in 0..MaxTime
      BY <1>2 DEF CallStates
    <3> QED
      BY <3>1, <3>2, <1>2, TimesAssumption
  <2> QED
    BY <2>1, <1>1 DEF InTime
<1>5. \A k \in AllKeys : kv'[k] \subseteq kv[k] /\ \A e \in kv'[k] : e.expires >= now + 1
  BY <1>1
<1>6. kv' \in [AllKeys -> SUBSET Entries]
  BY <1>1, <1>2
<1>7. KvFine'
  <2>1. \A k \in AllKeys : \A e \in kv'[k] : e.expires \in Nat
    BY <1>2, <1>5 DEF Entries
  <2>2. \A k \in AllKeys : \A e \in kv'[k] : now' <= e.expires
    BY <1>1, <1>2, <1>5, <2>1
  <2>3. \A p \in Profiles, read \in Reads, keyRole \in Auths :
           \A e \in kv'[Key(p, read, keyRole)] : EntryFine(p, read, keyRole, e)
    BY <1>5, KeyInKeys DEF IInv, KvFine
  <2> QED
    BY <2>2, <2>3 DEF KvFine
<1>8. JobsFine'
  BY <1>1 DEF IInv, JobsFine
<1> QED
  BY <1>1, <1>2, <1>3, <1>4, <1>6, <1>7, <1>8 DEF IInv, TypeOK

-----------------------------------------------------------------------------
(* The invariant.                                                          *)

LEMMA InitIInv == Init => IInv
<1> SUFFICES ASSUME Init PROVE IInv
  OBVIOUS
<1>1. /\ now = 0 /\ kv = [k \in AllKeys |-> {}]
      /\ call \in [Calls -> {[phase |-> "idle", request |-> q, started |-> 0] : q \in Requests}]
      /\ job = [c \in Calls |-> [s \in Sections |-> NoJob]]
  BY DEF Init
<1>2. \A q \in Requests :
          /\ [phase |-> "idle", request |-> q, started |-> 0] \in CallStates
          /\ [phase |-> "idle", request |-> q, started |-> 0].phase = "idle"
  BY TimesAssumption DEF CallStates
<1>3. call \in [Calls -> CallStates] /\ \A c \in Calls : call[c].phase = "idle"
  BY <1>1, <1>2
<1>4. <<>> \in Seq([answer : Answers, at : 0..MaxTime])
  OBVIOUS
<1>5. NoJob \in JobStates /\ NoJob.status = "none"
  BY <1>4, NoAnswerType DEF NoJob, JobStates, Statuses, Places
<1>6. TypeOK
  BY <1>1, <1>3, <1>5, TimesAssumption DEF TypeOK
<1>7. KvFine
  BY <1>1, KeyInKeys DEF KvFine
<1>8. InTime /\ JobsFine
  BY <1>1, <1>3, <1>5 DEF InTime, JobsFine
<1> QED
  BY <1>6, <1>7, <1>8 DEF IInv

LEMMA NextIInv == IInv /\ [Next]_vars => IInv'
<1> SUFFICES ASSUME IInv, [Next]_vars PROVE IInv'
  OBVIOUS
<1>1. ASSUME NEW c \in Calls, Launch(c) \/ Refuse(c) \/ Reply(c) PROVE IInv'
  BY <1>1, LaunchKeeps, RefuseKeeps, ReplyKeeps
<1>2. ASSUME NEW c \in Calls, NEW s \in Sections, SectionStep(c, s) PROVE IInv'
  BY <1>2, ResolveKeeps, MissKeeps, HitKeeps, AskKeeps, InnerMissKeeps, InnerHitKeeps,
     InnerAskKeeps, InnerStoreKeeps, FailKeeps, StoreKeeps DEF SectionStep
<1>3. ASSUME Tick PROVE IInv'
  BY <1>3, TickKeeps
<1>4. ASSUME UNCHANGED vars PROVE IInv'
  BY <1>4 DEF vars, IInv, TypeOK, InTime, KvFine, JobsFine
<1> QED
  BY <1>1, <1>2, <1>3, <1>4 DEF Next

\* The inductive invariant holds: every answer, wherever it is kept, was read as a
\* role some reader of the resource has, and not too long ago.
THEOREM Invariance == Spec => []IInv
BY InitIInv, NextIInv, PTL DEF Spec

\* The cache, the calls and their sections keep their types, for any profiles and
\* requests.
THEOREM TypeCorrect == Spec => []TypeOK
<1>1. IInv => TypeOK
  BY DEF IInv
<1> QED
  BY <1>1, Invariance, PTL

\* A section that is ok, and what it has of each read.
LEMMA OkFacts ==
    ASSUME IInv, NEW c \in Calls, NEW s \in Sections, Ok(c, s)
    PROVE  /\ Request(c) \in Requests /\ s \in Request(c).sections
           /\ job[c][s].label = Label(Request(c), s)
           /\ Len(job[c][s].answers) = Len(PlanOf(Request(c), s))
           /\ DOMAIN job[c][s].answers = 1..Len(job[c][s].answers)
           /\ \A i \in 1..Len(job[c][s].answers) :
                 AnswerFine(Request(c), s, i, job[c][s].answers[i])
<1>1. Request(c) \in Requests /\ call[c].request = Request(c) /\ job[c][s] \in JobStates
  BY DEF IInv, TypeOK, CallStates, Request
<1>2. JobFine(Request(c), s, job[c][s], call[c].started)
  BY <1>1 DEF IInv, JobsFine, Ok
<1>3. job[c][s].answers \in Seq([answer : Answers, at : 0..MaxTime])
  BY <1>1 DEF JobStates
<1>4. DOMAIN job[c][s].answers = 1..Len(job[c][s].answers)
  BY <1>3
<1> QED
  BY <1>1, <1>2, <1>4 DEF JobFine, Ok

\* A section that is ok has an answer to each of its reads, and says whether it
\* assumed a role (buildComputeStatus and its like, resolveAlertingAuthStrategy).
THEOREM SectionsAreComplete == Spec => []SectionsComplete
<1>1. ASSUME IInv, NEW c \in Calls, NEW s \in Sections, Ok(c, s)
      PROVE  /\ Len(job[c][s].answers) = Len(PlanOf(Request(c), s))
             /\ \A i \in DOMAIN job[c][s].answers : job[c][s].answers[i].answer # NoAnswer
             /\ job[c][s].label = "assume-role" <=>
                   \E i \in DOMAIN PlanOf(Request(c), s) :
                       PlanOf(Request(c), s)[i].role # DefaultRole
  <2>1. NoAnswer.roles = {}
    BY DEF NoAnswer
  <2>2. ASSUME NEW i \in DOMAIN job[c][s].answers
        PROVE  job[c][s].answers[i].answer # NoAnswer
    <3>1. AnswerFine(Request(c), s, i, job[c][s].answers[i])
      BY <1>1, OkFacts
    <3>2. job[c][s].answers[i].answer.roles # {}
      BY <3>1 DEF AnswerFine, RolesFine
    <3> QED
      BY <2>1, <3>2
  <2>3. job[c][s].label = Label(Request(c), s)
    BY <1>1, OkFacts
  <2> DEFINE Assumes == \E i \in DOMAIN PlanOf(Request(c), s) :
                            PlanOf(Request(c), s)[i].role # DefaultRole
  <2>4. Label(Request(c), s) = IF Assumes THEN "assume-role" ELSE "default"
    BY DEF Label
  <2> HIDE DEF Assumes
  <2>5. job[c][s].label = "assume-role" <=> Assumes
    BY <2>3, <2>4
  <2>6. Len(job[c][s].answers) = Len(PlanOf(Request(c), s))
    BY <1>1, OkFacts
  <2> QED
    BY <2>2, <2>5, <2>6 DEF Assumes
<1>2. IInv => SectionsComplete
  BY <1>1 DEF SectionsComplete
<1> QED
  BY <1>2, Invariance, PTL

\* No answer is older than a cached answer may be, and no comparison of images
\* older than twice that (cacheSet, compareServiceImageWithEcr).
THEOREM AgeIsBounded == Spec => []AgeBounded
<1>1. ASSUME IInv, NEW c \in Calls, NEW s \in Sections, Ok(c, s),
             NEW i \in DOMAIN job[c][s].answers
      PROVE  LET a == job[c][s].answers[i]
             IN a.at - a.answer.oldest
                   <= Depth(PlanOf(Request(c), s)[i].read) * (Ttl + MaxDuration)
  <2> DEFINE a == job[c][s].answers[i]
             read == PlanOf(Request(c), s)[i].read
  <2>1. a.at - a.answer.oldest <= Life(read)
    BY <1>1, OkFacts DEF AnswerFine
  <2>2. Life(read) = Depth(read) * (Ttl + MaxDuration)
    <3>1. CASE read = "compare"
      BY <3>1, LifeBounds DEF Life, Depth
    <3>2. CASE read # "compare"
      BY <3>2, LifeBounds DEF Life, Depth
    <3> QED
      BY <3>1, <3>2
  <2> QED
    BY <2>1, <2>2
<1>2. IInv => AgeBounded
  BY <1>1 DEF AgeBounded
<1> QED
  BY <1>2, Invariance, PTL

\* What a section reports was read of the resource its profile names, whoever had
\* it read (buildCacheKey, cacheGet).
THEOREM ResourcesAreOwn == Spec => []OwnResource
<1>1. ASSUME IInv, NEW c \in Calls, NEW s \in Sections, Ok(c, s),
             NEW i \in DOMAIN job[c][s].answers,
             NEW p2 \in job[c][s].answers[i].answer.profiles
      PROVE  SameResource(Request(c).profile, p2, PlanOf(Request(c), s)[i].read)
  BY <1>1, OkFacts DEF AnswerFine, SourcesFine
<1>2. IInv => OwnResource
  BY <1>1 DEF OwnResource
<1> QED
  BY <1>2, Invariance, PTL

\* No two profiles use a name in the same region that one of them is asked about.
Apart ==
    \A q \in Requests : \A s \in q.sections : \A i \in DOMAIN PlanOf(q, s) :
        \A p2 \in Profiles :
            SameResource(q.profile, p2, PlanOf(q, s)[i].read) => p2 = q.profile

\* Where the profiles use names of their own, what a call reports was read for the
\* profile it names (docs/application-profiles.md); else it need not be, as two
\* profiles of the same names show.
THEOREM ProfilesAreOwn == ASSUME Apart PROVE Spec => []OwnProfile
<1>1. ASSUME IInv, NEW c \in Calls, NEW s \in ApplicationSections, Ok(c, s),
             NEW i \in DOMAIN job[c][s].answers
      PROVE  job[c][s].answers[i].answer.profiles = {Request(c).profile}
  <2> DEFINE q == Request(c)
             profiles == job[c][s].answers[i].answer.profiles
  <2>1. s \in Sections
    BY DEF Sections
  <2>2. q \in Requests /\ s \in q.sections /\ i \in 1..Len(PlanOf(q, s))
    BY <1>1, <2>1, OkFacts
  <2>3. SourcesFine(q.profile, PlanOf(q, s)[i].read, profiles)
    BY <1>1, <2>1, OkFacts DEF AnswerFine
  <2>4. profiles \subseteq Profiles
    <3> DEFINE T == [answer : Answers, at : 0..MaxTime]
    <3>1. job[c][s].answers \in Seq(T)
      BY <1>1, <2>1 DEF IInv, TypeOK, JobStates
    <3>2. i \in 1..Len(job[c][s].answers)
      BY <1>1, <2>1, OkFacts
    <3> HIDE DEF T
    <3>3. job[c][s].answers[i] \in T
      BY <3>1, <3>2
    <3> QED
      BY <3>3 DEF T, Answers
  <2>5. i \in DOMAIN PlanOf(q, s)
    BY <2>2, PlanLength
  <2> HIDE DEF q, profiles
  <2>6. \A p2 \in profiles : p2 = q.profile
    BY <2>2, <2>3, <2>4, <2>5 DEF SourcesFine, Apart
  <2>7. profiles # {}
    BY <2>3 DEF SourcesFine
  <2> QED
    BY <2>6, <2>7 DEF q, profiles
<1>2. IInv => OwnProfile
  BY <1>1 DEF OwnProfile
<1> QED
  BY <1>2, Invariance, PTL

\* What a running section has before it is a natural number.
LEMMA LeftIsNatural ==
    ASSUME IInv, NEW c \in Calls, NEW s \in Sections, Running(c, s)
    PROVE  Left(c, s) \in Nat
<1> DEFINE m == Len(PlanOf(Request(c), s))
           n == Len(job[c][s].answers)
           r == Rank[job[c][s].at]
<1>1. m \in Nat /\ n \in Nat /\ n + 1 \in 1..m /\ job[c][s].at \in Places
  BY RunningFacts, PlanLength DEF JobStates
<1>2. r \in Nat
  BY <1>1 DEF Rank, Places
<1> HIDE DEF m, n, r
<1>3. 8 * (m - n) + r \in Nat
  BY <1>1, <1>2
<1> QED
  BY <1>3 DEF Left, m, n, r

\* A step of a section that moves to a later place of the same read.
LEMMA MoveAdvances ==
    ASSUME IInv, NEW c \in Calls, NEW s \in Sections, Running(c, s), UNCHANGED call,
           NEW at \in Places, NEW making, NEW inner, Move(c, s, at, making, inner),
           Rank[at] < Rank[job[c][s].at]
    PROVE  Left(c, s)' < Left(c, s)
<1>1. job \in [Calls -> [Sections -> JobStates]]
  BY DEF IInv, TypeOK
<1>2. job'[c][s].at = at /\ job'[c][s].answers = job[c][s].answers
  BY <1>1 DEF Move, SetJob
<1>3. Len(job[c][s].answers) \in Nat /\ Len(PlanOf(Request(c), s)) \in Nat
      /\ job[c][s].at \in Places
  BY RunningFacts, PlanLength DEF JobStates
<1>4. \A place \in Places : Rank[place] \in Nat
  BY DEF Rank, Places
<1>5. Left(c, s)' = 8 * (Len(PlanOf(Request(c), s)) - Len(job[c][s].answers)) + Rank[at]
  BY <1>2 DEF Left, Request
<1> QED
  BY <1>3, <1>4, <1>5 DEF Left

\* A section that takes an answer has one read less to go.
LEMMA TakeAdvances ==
    ASSUME IInv, NEW c \in Calls, NEW s \in Sections, Running(c, s), UNCHANGED call,
           NEW answer, Take(c, s, answer)
    PROVE  Left(c, s)' < Left(c, s)
<1> DEFINE new == Taken(Request(c), s, job[c][s], answer, now)
<1>1. job \in [Calls -> [Sections -> JobStates]]
  BY DEF IInv, TypeOK
<1>2. SetJob(c, s, new)
  BY DEF Take, Taken
<1>3. /\ new.answers = Append(job[c][s].answers, [answer |-> answer, at |-> now])
      /\ new.at \in {"resolve", "lookup"}
  BY DEF Taken
<1> HIDE DEF new
<1>4. job'[c][s] = new
  BY <1>1, <1>2 DEF SetJob
<1>5. /\ Len(job[c][s].answers) \in Nat /\ Len(PlanOf(Request(c), s)) \in Nat
      /\ job[c][s].at \in Places
  BY RunningFacts, PlanLength DEF JobStates
<1>6. \A T : job[c][s].answers \in Seq(T) =>
               Len(Append(job[c][s].answers, [answer |-> answer, at |-> now]))
                  = Len(job[c][s].answers) + 1
  OBVIOUS
<1>7. Len(new.answers) = Len(job[c][s].answers) + 1
  <2>1. job[c][s].answers \in Seq([answer : Answers, at : 0..MaxTime])
    BY RunningFacts DEF JobStates
  <2> QED
    BY <1>3, <1>6, <2>1
<1>8. Rank[job[c][s].at] \in Nat /\ Rank[job[c][s].at] >= 1 /\ Rank[new.at] \in {6, 7}
  <2>1. \A at \in Places : Rank[at] \in Nat /\ Rank[at] >= 1
    BY DEF Rank, Places
  <2>2. Rank["resolve"] \in {6, 7} /\ Rank["lookup"] \in {6, 7}
    BY DEF Rank
  <2>3. Rank[new.at] \in {6, 7}
    BY <1>3, <2>2, Zenon
  <2> QED
    BY <1>5, <2>1, <2>3, Zenon
<1>9. Left(c, s)' = 8 * (Len(PlanOf(Request(c), s)) - Len(new.answers)) + Rank[new.at]
  BY <1>4 DEF Left, Request
<1>10. Left(c, s) = 8 * (Len(PlanOf(Request(c), s)) - Len(job[c][s].answers))
                      + Rank[job[c][s].at]
  BY DEF Left
<1> DEFINE m == Len(PlanOf(Request(c), s))
           n == Len(job[c][s].answers)
           r == Rank[job[c][s].at]
           r2 == Rank[new.at]
           before == Left(c, s)
           after == Left(c, s)'
<1>11. after = 8 * (m - (n + 1)) + r2 /\ before = 8 * (m - n) + r
  BY <1>7, <1>9, <1>10
<1>12. m \in Nat /\ n \in Nat /\ r \in Nat /\ r >= 1 /\ r2 \in {6, 7}
  BY <1>5, <1>8
<1> HIDE DEF m, n, r, r2, before, after
<1>13. after < before
  BY <1>11, <1>12
<1> QED
  BY <1>13 DEF before, after

\* What a step does to the section that takes it, and that it is the only one.
LEMMA StepAdvances ==
    ASSUME IInv, NEW c \in Calls, NEW s \in Sections, SectionStep(c, s)
    PROVE  /\ \E j : SetJob(c, s, j)
           /\ job'[c][s].status = "error" \/ Left(c, s)' < Left(c, s)
<1> DEFINE Ends == job'[c][s].status = "error" \/ Left(c, s)' < Left(c, s)
<1>1. job \in [Calls -> [Sections -> JobStates]]
  BY DEF IInv, TypeOK
<1>2. ASSUME SetJob(c, s, Error) PROVE Ends
  BY <1>1, <1>2 DEF SetJob, Error
<1>3. Running(c, s) /\ UNCHANGED call
  BY DEF SectionStep, Resolve, Miss, Hit, Ask, InnerMiss, InnerHit, InnerAsk, InnerStore,
         Fail, Store
<1>4. CASE Resolve(c, s)
  BY <1>2, <1>3, <1>4, MoveAdvances DEF Resolve, Move, Places, Rank
<1>5. CASE Miss(c, s)
  BY <1>3, <1>5, MoveAdvances DEF Miss, Move, Places, Rank
<1>6. CASE Hit(c, s)
  BY <1>3, <1>6, TakeAdvances DEF Hit, Take
<1>7. CASE Ask(c, s)
  BY <1>3, <1>7, MoveAdvances DEF Ask, Move, Places, Rank
<1>8. CASE InnerMiss(c, s)
  BY <1>3, <1>8, MoveAdvances DEF InnerMiss, Move, Places, Rank
<1>9. CASE InnerHit(c, s)
  BY <1>3, <1>9, MoveAdvances DEF InnerHit, Move, Places, Rank
<1>10. CASE InnerAsk(c, s)
  BY <1>3, <1>10, MoveAdvances DEF InnerAsk, Move, Places, Rank
<1>11. CASE InnerStore(c, s)
  BY <1>3, <1>11, MoveAdvances DEF InnerStore, Move, Places, Rank
<1>12. CASE Fail(c, s)
  BY <1>2, <1>12 DEF Fail
<1>13. CASE Store(c, s)
  BY <1>3, <1>13, TakeAdvances DEF Store, Take
<1> QED
  BY <1>4, <1>5, <1>6, <1>7, <1>8, <1>9, <1>10, <1>11, <1>12, <1>13 DEF SectionStep

\* No section goes round in circles (buildEnvironmentOverview, cacheGet): what
\* remains of it is a natural number that each of its steps makes smaller.  With
\* the fairness of the runtime that is why every call is answered.
THEOREM SectionsDoAdvance == Spec => SectionsAdvance
<1> DEFINE Advance == \A c \in Calls, s \in Sections :
                   Running(c, s) /\ job'[c][s] # job[c][s] =>
                      /\ Left(c, s) \in Nat
                      /\ job'[c][s].status # "running" \/ Left(c, s)' < Left(c, s)
<1>1. ASSUME IInv, Next, NEW c \in Calls, NEW s \in Sections, Running(c, s),
             job'[c][s] # job[c][s]
      PROVE  job'[c][s].status # "running" \/ Left(c, s)' < Left(c, s)
  <2>1. job \in [Calls -> [Sections -> JobStates]]
    BY <1>1 DEF IInv, TypeOK
  <2>2. ASSUME NEW d \in Calls, NEW t \in Sections, SectionStep(d, t)
        PROVE  job'[c][s].status # "running" \/ Left(c, s)' < Left(c, s)
    <3>1. PICK j : SetJob(d, t, j)
      BY <1>1, <2>2, StepAdvances
    <3>2. d = c /\ t = s
      BY <1>1, <2>1, <3>1 DEF SetJob
    <3> QED
      BY <1>1, <2>2, <3>2, StepAdvances
  <2>3. ASSUME NEW d \in Calls, Launch(d) \/ Refuse(d) \/ Reply(d) PROVE FALSE
    <3>1. call[c].phase = "running"
      BY <1>1, RunningFacts
    <3>2. d # c
      BY <1>1, <2>3, <3>1 DEF Launch, Refuse, Reply
    <3> QED
      BY <1>1, <2>1, <2>3, <3>2 DEF Launch, Refuse, Reply
  <2>4. ASSUME Tick PROVE FALSE
    BY <1>1, <2>4 DEF Tick
  <2> QED
    BY <1>1, <2>2, <2>3, <2>4 DEF Next
<1>2. IInv /\ [Next]_vars => [Advance]_vars
  BY <1>1, LeftIsNatural
<1> QED
  BY <1>2, Invariance, PTL DEF Spec, SectionsAdvance

\* What a section reports was read as its own role, where nobody reads the same
\* resource as another one, and for SES with its own role wherever
\* (resolveSectionCredentials, buildCacheKey).
THEOREM AnswersAreOwn == Spec => []OwnAnswers
<1>1. ASSUME IInv, NEW c \in Calls, NEW s \in Sections, Ok(c, s),
             NEW i \in DOMAIN job[c][s].answers,
             ~Contended(Request(c).profile, PlanOf(Request(c), s)[i].read,
                        PlanOf(Request(c), s)[i].role)
                \/ SesOfOwnRole(Request(c).profile, s)
      PROVE  job[c][s].answers[i].answer.roles = {PlanOf(Request(c), s)[i].role}
  <2> DEFINE q == Request(c)
             x == PlanOf(q, s)[i]
             roles == job[c][s].answers[i].answer.roles
  <2>1. q \in Requests /\ s \in q.sections /\ i \in 1..Len(PlanOf(q, s)) /\ RolesFine(q, s, x, roles)
    BY <1>1, OkFacts DEF AnswerFine
  <2>2. CASE SesOfOwnRole(q.profile, s)
    BY <2>1, <2>2 DEF RolesFine
  <2>3. CASE ~Contended(q.profile, x.read, x.role)
    <3>1. q.profile \in Profiles /\ x.read \in Reads /\ x.role \in Roles
      BY <2>1, SectionsAre, PlanLength DEF ItemFine
    <3>2. x.role \notin
             {role \in Roles :
                \E r \in Requests : \E t \in r.sections : \E k \in DOMAIN PlanOf(r, t) :
                   /\ SameResource(q.profile, r.profile, x.read)
                   /\ ReadsOf(PlanOf(r, t)[k].read) \cap ReadsOf(x.read) # {}
                   /\ PlanOf(r, t)[k].role # role}
      <4> HIDE DEF x, q
      <4> QED
        BY <2>3, <3>1 DEF Contended, Contests
    <3>3. ASSUME NEW role, ReaderOf(q.profile, x.read, role) PROVE role = x.role
      <4> HIDE DEF x, q
      <4> QED
        BY <3>1, <3>2, <3>3 DEF ReaderOf
    <3> QED
      BY <2>1, <3>3 DEF RolesFine
  <2> QED
    BY <1>1, <2>2, <2>3
<1>2. IInv => OwnAnswers
  BY <1>1 DEF OwnAnswers
<1> QED
  BY <1>2, Invariance, PTL
=============================================================================
