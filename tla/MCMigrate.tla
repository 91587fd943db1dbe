----------------------------- MODULE MCMigrate -----------------------------
(* Two runners of successive versions, or of two branches; file 2 runs without
   a transaction and drops a table of the baseline. *)
EXTENDS Migrate, TLC

CONSTANTS A, B

(* B's code is one version behind A's. *)
MCSuccessive == (A :> (0 :> "a" @@ 1 :> "b" @@ 2 :> "c")) @@ (B :> (0 :> "a" @@ 1 :> "b"))

(* Two branches that also differ in the text of a file. *)
MCBranches == (A :> (0 :> "a" @@ 1 :> "b" @@ 3 :> "d")) @@ (B :> (0 :> "a" @@ 2 :> "c" @@ 3 :> "e"))

MCStarts == [base : {"none", "part", "old", "all"}, table : {"none", "foreign"},
             corpus : {MCSuccessive, MCBranches}]
=============================================================================
