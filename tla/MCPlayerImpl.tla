---------------------------- MODULE MCPlayerImpl ----------------------------
(* Small instances of PlayerImpl for TLC. *)
EXTENDS PlayerImpl

CONSTANTS aud, vid

BothTracks  == {aud, vid}
NoPicture   == {FALSE}
AnyFile     == BOOLEAN
NoPositions == {}
EndPosition == {1}
AllPositions == {0, 1}
ThreePositions == {0, 1, 2}
DoubleSpeed == {2}
NoRates     == {}
NoFaults    == {}
SomeFaults  == {"prepare", "start", "seek"}
SwitchFault == {"switch"}
=============================================================================
