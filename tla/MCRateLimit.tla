----------------------------- MODULE MCRateLimit ------------------------------
(***************************************************************************)
(* Instances of RateLimit for TLC.                                         *)
(***************************************************************************)
EXTENDS RateLimit, TLC

\* Two deployed versions: a strict one with a long window and a generous one
\* with a short window.
TwoConfigs == {[maxRequests |-> 1, windowSeconds |-> 3],
               [maxRequests |-> 2, windowSeconds |-> 2]}

\* Requests are interchangeable: they differ only in what happens to them.
RequestSymmetry == Permutations(Requests)
=============================================================================
