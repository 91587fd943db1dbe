---------------------------- MODULE MCRootClaim ----------------------------
(* Two acquisitions of one repository's root; they differ in nothing but their
   token. *)
EXTENDS RootClaim, TLC

CONSTANTS w1, w2

MCWriters == {w1, w2}
Symmetry == Permutations(MCWriters)
=============================================================================
