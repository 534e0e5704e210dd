----------------------------- MODULE MCGamingSync -----------------------------
(* One or two D-Bus handlers, and callbacks and supervisors enough for two to *)
(* be under way at once.                                                      *)
EXTENDS GamingSync, TLC

MCCallers == Users \cup Callbacks \cup Contexts
GamingSymmetry == Permutations(Callbacks) \cup Permutations(Contexts) \cup Permutations(Detectors)
=============================================================================
