----------------------------- MODULE MCNightLight -----------------------------
(* Three inhibitions: one a failed release leaves behind, and two more.       *)
EXTENDS NightLight
=============================================================================
