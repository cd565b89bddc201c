--------------------------- MODULE MCMediaPipeline ---------------------------
(* Small instances of MediaPipeline for TLC. *)
EXTENDS MediaPipeline

A(t) == [kind |-> "audio", ts |-> t]
V(t) == [kind |-> "video", ts |-> t]

\* Both tracks end together, interleaved or with the sound in front; or there
\* is only one track.
EvenFiles == {<<V(0), A(0), V(1), A(1)>>, <<A(0), A(1), V(0), V(1)>>,
              <<V(0), V(1), V(2)>>, <<A(0), A(1)>>}

AnyMode == {"normal", "pauseAfterPlay"}
=============================================================================
