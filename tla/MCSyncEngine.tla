----------------------------- MODULE MCSyncEngine -----------------------------
(* Goroutines calling the engine, and sessions enough for one to be replaced *)
(* while an older loop is still on its way out.                               *)
EXTENDS SyncEngine
=============================================================================
