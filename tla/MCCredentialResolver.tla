-------------------------- MODULE MCCredentialResolver --------------------------
(***************************************************************************)
(* Instances of CredentialResolver for TLC.                                *)
(***************************************************************************)
EXTENDS CredentialResolver, TLC

CONSTANTS c1, c2, c3, r1, r2, default, role, malformed, noId, id

Symmetry == Permutations(Calls) \cup Permutations(Resolvers)

=============================================================================
