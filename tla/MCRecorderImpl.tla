--------------------------- MODULE MCRecorderImpl ---------------------------
(* Small instances of RecorderImpl for TLC. *)
EXTENDS RecorderImpl

CONSTANTS b1, b2, none

TwoBuffers == {b1, b2}

AllFaults == {"prepare", "sink start", "sink stop", "audio start", "audio stop"}
=============================================================================
