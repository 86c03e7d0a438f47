--------------------------- MODULE MCOutputQueue ---------------------------
(* One request's stream through a queue shorter than the output.            *)
EXTENDS OutputQueue
=============================================================================
