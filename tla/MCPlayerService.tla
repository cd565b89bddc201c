--------------------------- MODULE MCPlayerService ---------------------------
(* A small instance of PlayerService for TLC: all requests, two processes. *)
EXTENDS PlayerService

CONSTANTS c1, c2

TwoClients == {c1, c2}
SomeFaults == {"SetSource", "Prepare", "Play", "SetPlaybackSpeed"}

AllRequests ==
  ({"SetSource", "Prepare", "Play", "IsPlaying", "Pause", "Stop", "Rewind", "SetSurface",
    "IsSingleLooping", "GetTime", "GetVideoSize", "GetPlayerState", "GetPlaybackSpeed",
    "GetAudioStreamType", "Reset", "Release", "SetPlayerCallback"} \X {0})
  \cup {<<"SetVolume", 100>>, <<"SetVolume", 301>>, <<"SetLoop", TRUE>>,
        <<"SetPlaybackSpeed", 2>>, <<"SetAudioStreamType", 1>>, <<"SetParameter", TRUE>>}

Intrusions == {<<"Reset", 0>>, <<"Release", 0>>}

EveryRequest == [c \in TwoClients |-> IF c = c1 THEN AllRequests ELSE Intrusions]
=============================================================================
