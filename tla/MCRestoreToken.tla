--------------------------- MODULE MCRestoreToken ---------------------------
(* Four sessions and two resets per process: a reset can fall before, between *)
(* and after the two halves of a Start and of a save, with an older grant     *)
(* still to be saved, and a restart can follow each.                          *)
EXTENDS RestoreToken
=============================================================================
