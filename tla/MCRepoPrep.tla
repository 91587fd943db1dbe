----------------------------- MODULE MCRepoPrep -----------------------------
(* One complete and two Retry clicks, two job slots. *)
EXTENDS RepoPrep

CONSTANTS first, r1, r2, x1, x2

MCPosts == {first, r1, r2}
MCSlots == {x1, x2}
=============================================================================
