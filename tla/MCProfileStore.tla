---------------------------- MODULE MCProfileStore -----------------------------
(***************************************************************************)
(* Instances of ProfileStore for TLC.                                      *)
(***************************************************************************)
EXTENDS ProfileStore, TLC

CONSTANTS p1, p2, c1, c2, r1

\* Nothing or everything is published at the start.
NoneOrAll == {{}, Profiles}

\* Nothing is.
Nothing == {{}}

Symmetry == Permutations(Commands)

=============================================================================
