------------------------- MODULE MCRecorderService -------------------------
(* A small instance of RecorderService for TLC.  A second client could only  *)
(* be turned away, as the first is when its call comes at the wrong time.    *)
EXTENDS RecorderService

OneClient  == {"p"}
TwoThreads == {"t1", "t2"}
SecondFile == {2}
TwoKinds   == {"video", "audio"}
SomeFaults == {"create", "track", "start", "stop", "destroy"}
=============================================================================
