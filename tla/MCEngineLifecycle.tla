------------------------- MODULE MCEngineLifecycle -------------------------
(* Three engine threads, two stops, two requests.                           *)
EXTENDS EngineLifecycle

CONSTANTS r1, r2
=============================================================================
