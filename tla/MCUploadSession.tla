-------------------------- MODULE MCUploadSession --------------------------
(* Two completes and two chunks of one session; a cancel may take the place of
   one of the requests. *)
EXTENDS UploadSession

CONSTANTS c1, c2, p1, p2

MCCompletes == {c1, c2}
MCChunks == {p1, p2}
=============================================================================
