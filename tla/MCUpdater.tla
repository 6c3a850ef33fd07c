------------------------------- MODULE MCUpdater -------------------------------
(* Small instances of the hot update.                                        *)
EXTENDS Updater, TLC

CONSTANTS u1, u2
Updates == {u1, u2}
===============================================================================
