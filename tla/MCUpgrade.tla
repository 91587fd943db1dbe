----------------------------- MODULE MCUpgrade -----------------------------
(* One install and a piece of work.  Updaters that never overlap are
   one updater started again and again. *)
EXTENDS Upgrade

CONSTANTS u1, u2, t1

MCUpdater == {u1}
MCUpdaters == {u1, u2}
OneTask == {t1}
=============================================================================
