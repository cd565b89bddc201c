---------------------------- MODULE MCAudioPlayer ----------------------------
(* A small instance of AudioPlayer for TLC. *)
EXTENDS AudioPlayer

TwoEnders  == {"e1", "e2"}
SomeFaults == {"SetSource", "Prepare", "Play"}
NoFaults   == {}
=============================================================================
