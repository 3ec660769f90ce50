---------------------------- MODULE MCGatewayRequest ----------------------------
(***************************************************************************)
(* Instances of GatewayRequest for TLC.                                    *)
(***************************************************************************)
EXTENDS GatewayRequest, TLC

CONSTANT k1

Right == [issuer |-> "ours", audience |-> TRUE, scopes |-> Scopes, timed |-> TRUE]

ACredential(kind, key) ==
    [kind |-> kind, key |-> key, claims |-> Right, known |-> TRUE, answer |-> Right,
     expires |-> MaxTime + 1]

Jwt == ACredential("jwt", k1)

\* A good JWT, which the server says is of another issuer; one of another issuer that
\* the server vouches for without naming issuer or expiry; and the secret, which to
\* OAuth is an opaque token: it expires, and has one of two scopes.
SomeCredentials ==
    {NoCredential,
     [Jwt EXCEPT !.answer.issuer = "other"],
     [Jwt EXCEPT !.claims.issuer = "other", !.answer.issuer = "none", !.answer.timed = FALSE],
     [ACredential("secret", NoKey) EXCEPT !.expires = MaxTime - 1,
                                          !.answer.scopes = {"aws:read"}]}

Complete ==
    [mode |-> "oauth", validation |-> "jwks", limiter |-> TRUE,
     present |-> Settings, malformed |-> {}, sameAudience |-> TRUE, regionAllowed |-> TRUE,
     required |-> {"aws:read"}]

Local == [Complete EXCEPT !.mode = "local-bearer"]

\* Complete in each mode, and incomplete in the ways each check finds first.
SomeDeployments ==
    {Complete, [Complete EXCEPT !.validation = "introspection", !.present = @ \ {"jwks"},
                         !.required = Scopes],
     [Complete EXCEPT !.validation = "hybrid"],
     [Complete EXCEPT !.limiter = FALSE], [Complete EXCEPT !.sameAudience = FALSE],
     [Complete EXCEPT !.mode = "invalid"],
     [Local EXCEPT !.limiter = FALSE, !.present = @ \ {"resource"}],
     [Local EXCEPT !.malformed = {"exposure"}]}

RequestSymmetry == Permutations(Requests)
=============================================================================
