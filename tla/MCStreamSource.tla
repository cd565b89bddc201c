---------------------------- MODULE MCStreamSource ----------------------------
(* A small instance of StreamSource for TLC. *)
EXTENDS StreamSource

CONSTANTS b1, b2, nb

TwoBuffers == {b1, b2}
OneOrTwo   == {1, 2}
=============================================================================
