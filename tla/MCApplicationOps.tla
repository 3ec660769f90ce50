---------------------------- MODULE MCApplicationOps ----------------------------
(***************************************************************************)
(* Instances of ApplicationOps for TLC: profiles of two accounts and two   *)
(* regions that use the same names.                                        *)
(***************************************************************************)
EXTENDS ApplicationOps, TLC

CONSTANTS c1, c2, c3, default, roleA, roleB, none

NoBlockAuth == [b \in Blocks |-> none]

\* The block b has an auth of its own.
BlockWith(b, role) == [x \in Blocks |-> IF x = b THEN role ELSE none]

AProfile(region, auth, blocks, blockAuth) ==
    [region |-> region, name |-> "shop", auth |-> auth, blocks |-> blocks, blockAuth |-> blockAuth]

\* "east" and "mail" share a region, "east" and "west" have the same names; the
\* images of "pics" are compared and looked at.
SectionProfiles ==
    [east |-> AProfile("us-east-1", roleA, {"ecs", "sns"}, BlockWith("sns", roleB)),
     west |-> AProfile("us-west-2", none, {"ecs", "budget"}, NoBlockAuth),
     mail |-> AProfile("us-east-1", none, {"ses"}, BlockWith("ses", roleB)),
     pics |-> [AProfile("us-east-1", none, {"ecs", "ecr"}, NoBlockAuth) EXCEPT !.name = "pics"]]

ToolOf(p, sections) == [profile |-> p, sections |-> sections, read |-> "service"]
Direct(p, read) == [profile |-> p, sections |-> {"direct"}, read |-> read]

SectionRequests ==
    {ToolOf("east", {"compute"}), ToolOf("east", {"alerting"}), ToolOf("west", {"compute"}),
     ToolOf("west", {"budget"}), ToolOf("mail", ApplicationSections), Direct("east", "ses"),
     ToolOf("pics", {"artifacts"}), Direct("pics", "image")}

\* A profile with every block, for the tools of one section; and three for the
\* overview, each with sections that run at the same time: five, six, and three
\* beside a budget without an account, which has failed when the others begin.
FullProfiles ==
    [shop |-> AProfile("us-east-1", roleA, Blocks, BlockWith("ecr", roleB)),
     web  |-> AProfile("us-east-1", roleA, {"ecs", "logGroup", "ecr", "rds"}, NoBlockAuth),
     data |-> AProfile("us-east-1", none, {"rds", "ssm", "s3", "ses", "budget", "accountId"},
                       BlockWith("ses", roleB)),
     news |-> AProfile("us-east-1", none, {"sns", "eventbridge", "ssm", "s3", "budget"},
                       BlockWith("sns", roleB))]

FullRequests ==
    {ToolOf("shop", {s}) : s \in ApplicationSections \ {"s3", "ses"}}
        \cup {ToolOf(p, ApplicationSections) : p \in {"web", "data", "news"}}
        \cup {Direct("shop", "alarms")}

\* Two accounts, the same names.
TwinProfiles ==
    [prod |-> AProfile("us-east-1", roleA, {"ecs"}, NoBlockAuth),
     test |-> AProfile("us-east-1", roleB, {"ecs"}, NoBlockAuth)]

TwinRequests ==
    {ToolOf("prod", {"compute"}), ToolOf("test", {"compute"}), Direct("prod", "service")}

Symmetry == Permutations(Calls)

=============================================================================
