--------------------------- MODULE RecorderProofs ---------------------------
(***************************************************************************)
(* Proofs about RecorderImpl, for every set of buffers, every bound on     *)
(* spurious wakeups, every set of library calls that fail, and with or     *)
(* without Start being called while paused.  What relates the threads to   *)
(* the status holds until a start or a stop has ended half-way: IInv says  *)
(* it of the states where lapsed is FALSE.                                 *)
(***************************************************************************)
EXTENDS RecorderImpl, TLAPS

-----------------------------------------------------------------------------
(* The inductive invariant *)

\* Which source threads exist, by where the call in progress is.
HasVideo ==
  \/ ApiIdle /\ st \in {"recording", "paused"}
  \/ at \in {"start audio", "pause sink", "resume sources", "notify", "join video"}

HasAudio ==
  \/ ApiIdle /\ st \in {"recording", "paused"}
  \/ at \in {"pause sink", "resume sources", "notify", "join video", "stop audio",
             "join audio"}

\* The statuses a call is made in, kept until its last step.
CallControl ==
  \/ ApiIdle
  \/ /\ op = "start" /\ at \in {"start video", "start audio"}
     /\ st \in {"prepared", "stopped"}
  \/ op = "pause" /\ at = "pause sink" /\ st = "recording"
  \/ op = "resume" /\ at = "resume sources" /\ st = "paused"
  \/ /\ op \in {"stop", "reset", "release"}
     /\ at \in {"notify", "join video", "stop audio", "join audio", "stop sink"}
     /\ st \in {"recording", "paused"}
  \/ op \in {"reset", "release"} /\ at = "finish" /\ st = "stopped"

ThreadControl ==
  /\ pc["video"] # "none" <=> HasVideo
  /\ pc["audio"] # "none" <=> HasAudio

Equipped == st \in {"prepared", "recording", "paused", "stopped"} => sources /\ prepared

\* A thread that waits was given no frame it could have taken.
WaitsForFrame == pc["video"] = "wait" => count <= 0

\* The threads are as the status and the call in progress say.
InStep == CallControl /\ ThreadControl /\ Equipped

IInv ==
  /\ TypeOK
  /\ ~lapsed => InStep
  /\ FramesCounted /\ WaitsForFrame

-----------------------------------------------------------------------------
(* Types *)

\* TypeOK in two parts: the Boolean variables, and the others.
ValuesOK ==
  /\ queue \in Seq(Buffers) /\ held \subseteq Buffers
  /\ count \in Int /\ empty \in Nat
  /\ acq \in Buffers \cup {NoBuffer} /\ reading \in Buffers \cup {NoBuffer}
  /\ camera \in {"idle", "called", "drain", "notify"}
  /\ pc \in [Kinds -> SourcePlaces]
  /\ pc["audio"] \in {"none", "loop", "got", "check", "mux", "exited"}
  /\ st \in {"initialized", "prepared", "recording", "paused", "stopped", "released"}
  /\ op \in Operations /\ at \in Places

FlagsOK ==
  /\ started \in BOOLEAN
  /\ sources \in BOOLEAN /\ prepared \in BOOLEAN /\ running \in BOOLEAN
  /\ lapsed \in BOOLEAN
  /\ flag \in [Kinds -> BOOLEAN] /\ paused \in [Kinds -> BOOLEAN]

LEMMA TypeParts == TypeOK <=> ValuesOK /\ FlagsOK
BY DEF TypeOK, SourceTypeOK, ValuesOK, FlagsOK

LEMMA KindsAre == "video" \in Kinds /\ "audio" \in Kinds
BY DEF Kinds

LEMMA ValueInit == Init => ValuesOK
BY KindsAre DEF Init, SourceInit, ValuesOK, SourcePlaces, Operations, Places

LEMMA FlagInit == Init => FlagsOK
BY DEF Init, SourceInit, FlagsOK, None

LEMMA SurfaceTypes ==
  ASSUME ValuesOK, SurfaceAcquire
  PROVE  /\ queue' \in Seq(Buffers) /\ held' \subseteq Buffers
         /\ acq' \in Buffers \cup {NoBuffer} /\ empty' \in Nat
BY DEF ValuesOK, SurfaceAcquire

Statuses == {"initialized", "prepared", "recording", "paused", "stopped", "released"}

\* A step that only moves the call in progress and the status.
LEMMA ControlMoves ==
  ASSUME ValuesOK, UNCHANGED <<queue, held, count, empty, acq, reading, camera, pc>>,
         st' \in Statuses, op' \in Operations, at' \in Places
  PROVE  ValuesOK'
BY DEF ValuesOK, Statuses

\* A step that puts the video source into its initial state.
LEMMA SourceMadeNew ==
  ASSUME ValuesOK,
         queue' = <<>>, held' = {}, empty' = 0, count' = 0,
         acq' = NoBuffer, reading' = NoBuffer, camera' = "idle",
         UNCHANGED pc, st' \in Statuses, op' \in Operations, at' \in Places
  PROVE  ValuesOK'
<1>1. queue' \in Seq(Buffers) /\ held' \subseteq Buffers
  OBVIOUS
<1>2. count' \in Int /\ empty' \in Nat
  OBVIOUS
<1> QED
  BY <1>1, <1>2 DEF ValuesOK, Statuses

LEMMA ValueStep ==
  ASSUME ValuesOK, [Next]_vars
  PROVE  ValuesOK'
<1> USE KindsAre DEF ValuesOK, sourceVars, implVars
<1>1. CASE UNCHANGED vars
  BY <1>1 DEF vars
<1>2. CASE Calls
  <2> USE DEF Operations, Places, Begin, Return, api, None, SourceFresh
  <2>1. CASE SetSources
    <3>1. UNCHANGED <<queue, held, count, empty, acq, reading, camera, pc>>
      BY <2>1 DEF SetSources
    <3>2. st' \in Statuses /\ op' \in Operations /\ at' \in Places
      BY <2>1 DEF SetSources, Statuses
    <3> QED
      BY <3>1, <3>2, ControlMoves
  <2>2. CASE Prepare
    <3>1. UNCHANGED <<queue, held, count, empty, acq, reading, camera, pc>>
      BY <2>2 DEF Prepare, SinkPrepares, PrepareFails
    <3>2. st' \in Statuses /\ op' \in Operations /\ at' \in Places
      BY <2>2 DEF Prepare, Statuses, SinkPrepares, PrepareFails
    <3> QED
      BY <3>1, <3>2, ControlMoves
  <2>3. CASE StartSink
    <3>1. UNCHANGED <<queue, held, count, empty, acq, reading, camera, pc>>
      BY <2>3 DEF StartSink
    <3>2. st' \in Statuses /\ op' \in Operations /\ at' \in Places
      BY <2>3 DEF StartSink, Statuses
    <3> QED
      BY <3>1, <3>2, ControlMoves
  <2>4. CASE Pause
    BY <2>4 DEF Pause
  <2>5. CASE Resume
    <3>1. UNCHANGED <<queue, held, count, empty, acq, reading, camera, pc>>
      BY <2>5 DEF Resume
    <3>2. st' \in Statuses /\ op' \in Operations /\ at' \in Places
      BY <2>5 DEF Resume, Statuses
    <3> QED
      BY <3>1, <3>2, ControlMoves
  <2>6. CASE StopVideoSource
    BY <2>6 DEF StopVideoSource
  <2>7. CASE Reset
    <3>1. UNCHANGED pc /\ st' \in Statuses /\ op' \in Operations /\ at' \in Places
      BY <2>7 DEF Reset, Statuses, SinkReleases, GoOn
    <3>2. CASE UNCHANGED sourceVars
      BY <3>1, <3>2, ControlMoves
    <3>3. CASE SourceFresh
      BY <3>1, <3>3, SourceMadeNew
    <3> QED
      BY <2>7, <3>2, <3>3 DEF Reset
  <2>8. CASE Release
    BY <2>8 DEF Release, SinkReleases
  <2>9. CASE NewRecorder
    <3>1. UNCHANGED pc /\ st' \in Statuses /\ op' \in Operations /\ at' \in Places
      BY <2>9 DEF NewRecorder, GoOn, Statuses
    <3>2. CASE UNCHANGED sourceVars
      BY <3>1, <3>2, ControlMoves
    <3>3. CASE SourceFresh
      BY <3>1, <3>3, SourceMadeNew
    <3> QED
      BY <2>9, <3>2, <3>3 DEF NewRecorder
  <2> QED
    BY <1>2, <2>1, <2>2, <2>3, <2>4, <2>5, <2>6, <2>7, <2>8, <2>9 DEF Calls
<1>3. CASE Steps
  <2> USE DEF Operations, Places, GoOn, Return, None, SourcePlaces, Goto
  <2>1. CASE StartVideoSource
    <3>1. UNCHANGED <<queue, held, count, empty, acq, reading, camera>>
      BY <2>1 DEF StartVideoSource
    <3>2. st' = st /\ op' \in Operations /\ at' \in Places
      BY <2>1 DEF StartVideoSource, Spawn
    <3>3. pc' = pc \/ pc' = [pc EXCEPT !["video"] = "loop"]
      BY <2>1 DEF StartVideoSource, Spawn
    <3> QED
      BY <3>1, <3>2, <3>3
  <2>2. CASE StartAudioSource
    <3>1. UNCHANGED <<queue, held, count, empty, acq, reading, camera>>
      BY <2>2 DEF StartAudioSource
    <3>2. st' \in Statuses /\ op' \in Operations /\ at' \in Places
      BY <2>2 DEF StartAudioSource, Spawn, Statuses
    <3>3. pc' = pc \/ pc' = [pc EXCEPT !["audio"] = "loop"]
      BY <2>2 DEF StartAudioSource, Spawn
    <3> QED
      BY <3>1, <3>2, <3>3 DEF Statuses
  <2>3. CASE PauseSink
    BY <2>3 DEF PauseSink, SinkStops
  <2>4. CASE ResumeSources
    BY <2>4 DEF ResumeSources
  <2>5. CASE StopNotifies
    <3>1. UNCHANGED <<queue, held, count, empty, acq, reading, camera, st>>
      BY <2>5 DEF StopNotifies
    <3>2. op' \in Operations /\ at' \in Places
      BY <2>5 DEF StopNotifies
    <3>3. pc' = pc \/ pc' = [pc EXCEPT !["video"] = "woken"]
      BY <2>5 DEF StopNotifies, Wake
    <3> QED
      BY <3>1, <3>2, <3>3
  <2>6. CASE JoinVideo
    <3>1. UNCHANGED <<queue, held, count, empty, acq, reading, camera, st>>
      BY <2>6 DEF JoinVideo
    <3>2. op' \in Operations /\ at' \in Places
      BY <2>6 DEF JoinVideo, Join
    <3>3. pc' = pc \/ pc' = [pc EXCEPT !["video"] = "none"]
      BY <2>6 DEF JoinVideo, Join
    <3> QED
      BY <3>1, <3>2, <3>3
  <2>7. CASE StopAudioSource
    <3>1. UNCHANGED <<queue, held, count, empty, acq, reading, camera, pc>>
      BY <2>7 DEF StopAudioSource
    <3>2. st' \in Statuses /\ op' \in Operations /\ at' \in Places
      BY <2>7 DEF StopAudioSource, Statuses
    <3> QED
      BY <3>1, <3>2, ControlMoves
  <2>8. CASE JoinAudio
    <3>1. UNCHANGED <<queue, held, count, empty, acq, reading, camera, st>>
      BY <2>8 DEF JoinAudio
    <3>2. op' \in Operations /\ at' \in Places
      BY <2>8 DEF JoinAudio, Join
    <3>3. pc' = pc \/ pc' = [pc EXCEPT !["audio"] = "none"]
      BY <2>8 DEF JoinAudio, Join
    <3> QED
      BY <3>1, <3>2, <3>3
  <2>9. CASE StopSink
    BY <2>9 DEF StopSink, SinkStops
  <2> QED
    BY <1>3, <2>1, <2>2, <2>3, <2>4, <2>5, <2>6, <2>7, <2>8, <2>9 DEF Steps
<1>4. CASE VideoThread
  <2> USE DEF SourcePlaces, Goto
  <2>1. CASE VideoLoop
    BY <2>1 DEF VideoLoop
  <2>2. CASE AcquireChecks /\ UNCHANGED implVars
    BY <2>2 DEF AcquireChecks
  <2>3. CASE AcquireLocks /\ UNCHANGED implVars
    BY <2>3 DEF AcquireLocks
  <2>4. CASE AcquireWakes /\ UNCHANGED implVars
    BY <2>4 DEF AcquireWakes
  <2>5. CASE AcquireTakes /\ UNCHANGED implVars
    BY <2>5, SurfaceTypes DEF AcquireTakes
  <2>6. CASE ReleaseBuffer /\ UNCHANGED implVars
    BY <2>6 DEF ReleaseBuffer, SurfaceRelease
  <2>7. CASE Deliver("video") \/ CheckStarted("video") \/ WriteFrame("video")
    BY <2>7 DEF Deliver, CheckStarted, WriteFrame, Written
  <2> QED
    BY <1>4, <2>1, <2>2, <2>3, <2>4, <2>5, <2>6, <2>7 DEF VideoThread, Acquire
<1>5. CASE AudioThread
  BY <1>5 DEF AudioThread, AudioLoop, Deliver, CheckStarted, WriteFrame, Written, Goto,
     SourcePlaces
<1>6. CASE CameraFlushes
  BY <1>6 DEF CameraFlushes, Flush
<1>7. CASE CameraCallback
  <2>1. CASE CallbackFindsStarted
    BY <1>7, <2>1 DEF CameraCallback, CallbackFindsStarted
  <2>2. CASE CallbackDrains
    BY <1>7, <2>2, SurfaceTypes DEF CameraCallback, CallbackDrains
  <2>3. CASE CallbackReleases
    BY <1>7, <2>3 DEF CameraCallback, CallbackReleases, SurfaceRelease
  <2>4. CASE CallbackNotifies
    BY <1>7, <2>4 DEF CameraCallback, CallbackNotifies, Wake, Goto, SourcePlaces
  <2> QED
    BY <1>7, <2>1, <2>2, <2>3, <2>4 DEF CameraCallback, Camera
<1>8. CASE ~Over /\ SpuriousWakeup /\ UNCHANGED implVars
  BY <1>8 DEF SpuriousWakeup, Goto, SourcePlaces
<1> QED
  BY <1>1, <1>2, <1>3, <1>4, <1>5, <1>6, <1>7, <1>8 DEF Next

LEMMA FlagStep ==
  ASSUME FlagsOK, [Next]_vars
  PROVE  FlagsOK'
<1> USE DEF FlagsOK
<1>1. CASE UNCHANGED vars
  BY <1>1 DEF vars, sourceVars, implVars
<1>2. CASE Calls
  BY <1>2 DEF Calls, SetSources, Prepare, StartSink, Pause, Resume, StopVideoSource, Reset,
     Release, NewRecorder, SourceFresh, SinkStarts, None, sourceVars,
     SinkPrepares, PrepareFails, SinkReleases
<1>3. CASE Steps
  BY <1>3 DEF Steps, StartVideoSource, StartAudioSource, PauseSink, ResumeSources, StopNotifies,
     JoinVideo, StopAudioSource, JoinAudio, StopSink, Spawn, None, sourceVars, SinkStops, Lapse
<1>4. CASE VideoThread
  BY <1>4 DEF VideoThread, VideoLoop, Acquire, AcquireChecks, AcquireLocks, AcquireWakes,
     AcquireTakes, ReleaseBuffer, Deliver, CheckStarted, WriteFrame, sourceVars, implVars
<1>5. CASE AudioThread
  BY <1>5 DEF AudioThread, AudioLoop, Deliver, CheckStarted, WriteFrame, sourceVars, implVars
<1>6. CASE CameraFlushes \/ CameraCallback \/ (~Over /\ SpuriousWakeup /\ UNCHANGED implVars)
  BY <1>6 DEF CameraFlushes, Flush, CameraCallback, Camera, CallbackFindsStarted,
     CallbackDrains, CallbackReleases, CallbackNotifies, SpuriousWakeup, sourceVars, implVars
<1> QED
  BY <1>1, <1>2, <1>3, <1>4, <1>5, <1>6 DEF Next

-----------------------------------------------------------------------------
(* Calls, statuses and threads *)

\* The steps of the source threads and of the camera: no thread begins or ends its life.
LEMMA WorkKeepsThreads ==
  ASSUME ValuesOK,
         VideoThread \/ AudioThread \/ CameraFlushes \/ CameraCallback
           \/ (~Over /\ SpuriousWakeup /\ UNCHANGED implVars)
  PROVE  \A k \in Kinds : pc'[k] = "none" <=> pc[k] = "none"
<1> USE KindsAre DEF ValuesOK, Goto
<1>1. CASE VideoThread
  BY <1>1 DEF VideoThread, VideoLoop, Acquire, AcquireChecks, AcquireLocks, AcquireWakes,
     AcquireTakes, ReleaseBuffer, Deliver, CheckStarted, WriteFrame, Written
<1>2. CASE AudioThread
  BY <1>2 DEF AudioThread, AudioLoop, Deliver, CheckStarted, WriteFrame, Written
<1>3. CASE CameraFlushes
  BY <1>3 DEF CameraFlushes, Flush
<1>4. CASE CameraCallback
  BY <1>4 DEF CameraCallback, Camera, CallbackFindsStarted, CallbackDrains, CallbackReleases,
     CallbackNotifies, Wake
<1>5. CASE ~Over /\ SpuriousWakeup /\ UNCHANGED implVars
  BY <1>5 DEF SpuriousWakeup
<1> QED
  BY <1>1, <1>2, <1>3, <1>4, <1>5

LEMMA WorkKeepsCalls ==
  ASSUME VideoThread \/ AudioThread \/ CameraFlushes \/ CameraCallback
           \/ (~Over /\ SpuriousWakeup /\ UNCHANGED implVars)
  PROVE  UNCHANGED implVars
BY DEF VideoThread, VideoLoop, AudioThread, AudioLoop, Deliver, CheckStarted, WriteFrame,
   CameraFlushes, CameraCallback

LEMMA ControlStep ==
  ASSUME ValuesOK, CallControl, ThreadControl, [Next]_vars, ~lapsed'
  PROVE  CallControl' /\ ThreadControl'
<1> USE KindsAre DEF ValuesOK, CallControl, ThreadControl, HasVideo, HasAudio, ApiIdle
<1>1. CASE UNCHANGED vars
  BY <1>1 DEF vars, implVars
<1>2. CASE Calls
  <2> USE DEF Begin, Return, api
  <2>1. CASE SetSources
    BY <2>1 DEF SetSources
  <2>2. CASE Prepare
    BY <2>2 DEF Prepare, SinkPrepares, PrepareFails
  <2>3. CASE StartSink
    <3>1. st # "paused" \/ UNCHANGED <<api, st, pc>>
      BY <2>3 DEF StartSink
    <3> QED
      BY <2>3, <3>1 DEF StartSink
  <2>4. CASE Pause
    BY <2>4 DEF Pause
  <2>5. CASE Resume
    BY <2>5 DEF Resume
  <2>6. CASE StopVideoSource
    BY <2>6 DEF StopVideoSource
  <2>7. CASE Reset
    <3>1. pc["video"] = "none" /\ pc["audio"] = "none"
      BY <2>7 DEF Reset, Finishing, At
    <3>2. ~ThreadsRun
      BY <3>1 DEF ThreadsRun, Kinds
    <3> QED
      BY <2>7, <3>1, <3>2 DEF Reset
  <2>8. CASE Release
    BY <2>8 DEF Release, Finishing, At, SinkReleases
  <2>9. CASE NewRecorder
    <3>1. \A k \in Kinds : pc[k] = "none"
      BY <2>9 DEF NewRecorder, Kinds
    <3> QED
      BY <2>9, <3>1 DEF NewRecorder
  <2> QED
    BY <1>2, <2>1, <2>2, <2>3, <2>4, <2>5, <2>6, <2>7, <2>8, <2>9 DEF Calls
<1>3. CASE Steps
  <2> USE DEF GoOn, Return, Goto, At, Lapse
  <2>1. CASE StartVideoSource
    BY <2>1 DEF StartVideoSource, Spawn
  <2>2. CASE StartAudioSource
    BY <2>2 DEF StartAudioSource, Spawn
  <2>3. CASE PauseSink
    BY <2>3 DEF PauseSink, SinkStops
  <2>4. CASE ResumeSources
    BY <2>4 DEF ResumeSources
  <2>5. CASE StopNotifies
    BY <2>5 DEF StopNotifies, Wake
  <2>6. CASE JoinVideo
    BY <2>6 DEF JoinVideo, Join
  <2>7. CASE StopAudioSource
    BY <2>7 DEF StopAudioSource
  <2>8. CASE JoinAudio
    BY <2>8 DEF JoinAudio, Join
  <2>9. CASE StopSink
    BY <2>9 DEF StopSink, SinkStops
  <2> QED
    BY <1>3, <2>1, <2>2, <2>3, <2>4, <2>5, <2>6, <2>7, <2>8, <2>9 DEF Steps
<1>4. CASE VideoThread \/ AudioThread \/ CameraFlushes \/ CameraCallback
             \/ (~Over /\ SpuriousWakeup /\ UNCHANGED implVars)
  <2>1. \A k \in Kinds : pc'[k] = "none" <=> pc[k] = "none"
    BY <1>4, WorkKeepsThreads
  <2>2. UNCHANGED <<st, op, at>>
    BY <1>4, WorkKeepsCalls DEF implVars
  <2> QED
    BY <2>1, <2>2
<1> QED
  BY <1>1, <1>2, <1>3, <1>4 DEF Next

LEMMA EquippedStep ==
  ASSUME CallControl, ThreadControl, Equipped, [Next]_vars, ~lapsed'
  PROVE  Equipped'
<1> USE DEF Equipped
<1>1. CASE UNCHANGED vars
  BY <1>1 DEF vars, implVars
<1>2. CASE Calls
  BY <1>2 DEF Calls, SetSources, Prepare, StartSink, Pause, Resume, StopVideoSource, Reset,
     Release, NewRecorder, SinkPrepares, PrepareFails, SinkReleases, ThreadControl, HasVideo,
     HasAudio, ThreadsRun, Finishing, ApiIdle, At, CallControl, Kinds
<1>3. CASE Steps
  BY <1>3 DEF Steps, StartVideoSource, StartAudioSource, PauseSink, ResumeSources, StopNotifies,
     JoinVideo, StopAudioSource, JoinAudio, StopSink, Spawn, CallControl, ApiIdle, At, SinkStops
<1>4. CASE VideoThread \/ AudioThread \/ CameraFlushes \/ CameraCallback
             \/ (~Over /\ SpuriousWakeup /\ UNCHANGED implVars)
  BY <1>4, WorkKeepsCalls DEF implVars
<1> QED
  BY <1>1, <1>2, <1>3, <1>4 DEF Next

-----------------------------------------------------------------------------
(* Frames *)

LEMMA SurfaceCounts ==
  ASSUME ValuesOK, SurfaceAcquire
  PROVE  Len(queue') + empty + 1 = Len(queue) + empty'
<1>1. CASE queue = <<>>
  BY <1>1 DEF SurfaceAcquire, ValuesOK
<1>2. CASE queue # <<>>
  <2>1. queue' = Tail(queue) /\ empty' = empty
    BY <1>2 DEF SurfaceAcquire
  <2>2. Len(Tail(queue)) = Len(queue) - 1 /\ Len(queue) \in Nat
    BY <1>2 DEF ValuesOK
  <2>3. PICK n \in Int, e \in Int : n = Len(queue) /\ e = empty
    BY <2>2 DEF ValuesOK
  <2>4. Len(queue') = n - 1 /\ empty' = e
    BY <2>1, <2>2, <2>3
  <2>5. (n - 1) + e + 1 = n + e
    OBVIOUS
  <2> QED
    BY <2>3, <2>4, <2>5
<1> QED
  BY <1>1, <1>2

\* A step that touches neither the queue nor a count nor the two places that matter.
LEMMA FramesUntouched ==
  ASSUME ValuesOK, FramesCounted, WaitsForFrame,
         UNCHANGED <<queue, count, empty, camera>>,
         pc["video"] # "take", pc'["video"] \notin {"take", "wait"}
  PROVE  FramesCounted' /\ WaitsForFrame'
BY DEF FramesCounted, WaitsForFrame, One

LEMMA FramesStep ==
  ASSUME ValuesOK, FramesCounted, WaitsForFrame, [Next]_vars
  PROVE  FramesCounted' /\ WaitsForFrame'
<1> USE KindsAre DEF ValuesOK
<1> DEFINE Same == UNCHANGED <<queue, count, empty, camera>> /\ pc'["video"] = pc["video"]
<1>0. ASSUME Same PROVE FramesCounted' /\ WaitsForFrame'
  BY <1>0 DEF FramesCounted, WaitsForFrame, One
<1>1. CASE UNCHANGED vars
  BY <1>1, <1>0 DEF vars, sourceVars
<1>2. CASE Calls
  <2>1. CASE SetSources \/ Prepare \/ StartSink \/ Pause \/ Resume \/ StopVideoSource \/ Release
    <3>1. Same
      BY <2>1 DEF SetSources, Prepare, StartSink, Pause, Resume, StopVideoSource, Release,
         SinkPrepares, PrepareFails, SinkReleases,
         sourceVars
    <3> QED
      BY <3>1, <1>0
  <2>2. CASE Reset \/ NewRecorder
    <3>1. CASE UNCHANGED <<sourceVars, pc>>
      BY <3>1, <1>0 DEF sourceVars
    <3>2. CASE SourceFresh /\ pc' = pc /\ pc["video"] \in {"none", "exited"}
      BY <3>2 DEF SourceFresh, FramesCounted, WaitsForFrame, One
    <3> QED
      BY <2>2, <3>1, <3>2 DEF Reset, NewRecorder, ThreadsRun
  <2> QED
    BY <1>2, <2>1, <2>2 DEF Calls
<1>3. CASE Steps
  <2> USE DEF Goto
  <2>1. CASE StartVideoSource
    <3>1. UNCHANGED <<queue, count, empty, camera>>
      BY <2>1 DEF StartVideoSource
    <3>2. pc' = pc \/ (pc["video"] = "none" /\ pc'["video"] = "loop")
      BY <2>1 DEF StartVideoSource, Spawn
    <3> QED
      BY <3>1, <3>2, <1>0, FramesUntouched
  <2>2. CASE StartAudioSource \/ PauseSink \/ ResumeSources \/ StopAudioSource \/ JoinAudio
              \/ StopSink
    <3>1. Same
      BY <2>2 DEF StartAudioSource, Spawn, PauseSink, ResumeSources, StopAudioSource, JoinAudio,
         Join, StopSink, sourceVars, SinkStops
    <3> QED
      BY <3>1, <1>0
  <2>3. CASE StopNotifies
    <3>1. UNCHANGED <<queue, count, empty, camera>>
      BY <2>3 DEF StopNotifies, sourceVars
    <3>2. pc' = pc \/ (pc["video"] = "wait" /\ pc'["video"] = "woken")
      BY <2>3 DEF StopNotifies, Wake
    <3> QED
      BY <3>1, <3>2, <1>0, FramesUntouched
  <2>4. CASE JoinVideo
    <3>1. UNCHANGED <<queue, count, empty, camera>>
      BY <2>4 DEF JoinVideo, sourceVars
    <3>2. pc' = pc \/ (pc["video"] = "exited" /\ pc'["video"] = "none")
      BY <2>4 DEF JoinVideo, Join
    <3> QED
      BY <3>1, <3>2, <1>0, FramesUntouched
  <2> QED
    BY <1>3, <2>1, <2>2, <2>3, <2>4 DEF Steps
<1>4. CASE VideoThread
  <2> USE DEF Goto
  <2>1. CASE VideoLoop
    <3>1. /\ UNCHANGED <<queue, count, empty, camera>>
          /\ pc["video"] # "take" /\ pc'["video"] \notin {"take", "wait"}
      BY <2>1 DEF VideoLoop, sourceVars
    <3> QED
      BY <3>1, FramesUntouched
  <2>2. CASE AcquireChecks
    <3>1. /\ UNCHANGED <<queue, count, empty, camera>>
          /\ pc["video"] # "take" /\ pc'["video"] \notin {"take", "wait"}
      BY <2>2 DEF AcquireChecks, sourceVars
    <3> QED
      BY <3>1, FramesUntouched
  <2>3. CASE AcquireLocks
    BY <2>3 DEF AcquireLocks, FramesCounted, WaitsForFrame, One
  <2>4. CASE AcquireWakes
    <3>1. CASE started
      BY <2>4, <3>1 DEF AcquireWakes, FramesCounted, WaitsForFrame, One
    <3>2. CASE ~started
      BY <2>4, <3>2 DEF AcquireWakes, FramesCounted, WaitsForFrame, One
    <3> QED
      BY <3>1, <3>2
  <2>5. CASE AcquireTakes
    <3>1. Len(queue') + empty + 1 = Len(queue) + empty'
      BY <2>5, SurfaceCounts DEF AcquireTakes
    <3>2. queue' \in Seq(Buffers) /\ empty' \in Nat
      BY <2>5, SurfaceTypes DEF AcquireTakes
    <3>3. UNCHANGED <<count, camera>> /\ pc["video"] = "take" /\ pc'["video"] \in {"loop", "got"}
      BY <2>5 DEF AcquireTakes
    <3>4. Len(queue') \in Int /\ Len(queue) \in Int
      BY <3>2
    <3>5. Len(queue) = count + empty + One(camera \in {"called", "notify"}) + 1
      BY <3>3 DEF FramesCounted, One
    <3>6. One(camera \in {"called", "notify"}) \in Int
      BY DEF One
    <3>7. Len(queue') = count' + empty' + One(camera' \in {"called", "notify"})
      <4>1. PICK c \in Int, e \in Int, f \in Int, l \in Int, m \in Int, k \in Int :
              /\ c = count /\ e = empty /\ f = empty'
              /\ l = Len(queue) /\ m = Len(queue') /\ k = One(camera \in {"called", "notify"})
        BY <3>2, <3>4, <3>6
      <4>2. m + e + 1 = l + f /\ l = c + e + 1 + k
        BY <3>1, <3>5, <4>1
      <4>3. m = c + f + k
        BY <4>2
      <4>4. count' = c /\ One(camera' \in {"called", "notify"}) = k
        BY <3>3, <4>1
      <4> QED
        BY <4>1, <4>3, <4>4
    <3> QED
      BY <3>3, <3>6, <3>7 DEF FramesCounted, WaitsForFrame, One
  <2>6. CASE ReleaseBuffer
    <3>1. /\ UNCHANGED <<queue, count, empty, camera>>
          /\ pc["video"] # "take" /\ pc'["video"] \notin {"take", "wait"}
      BY <2>6 DEF ReleaseBuffer
    <3> QED
      BY <3>1, FramesUntouched
  <2>7. CASE Deliver("video") \/ CheckStarted("video") \/ WriteFrame("video")
    <3>1. /\ UNCHANGED <<queue, count, empty, camera>>
          /\ pc["video"] # "take" /\ pc'["video"] \notin {"take", "wait"}
      BY <2>7 DEF Deliver, CheckStarted, WriteFrame, Written, sourceVars
    <3> QED
      BY <3>1, FramesUntouched
  <2> QED
    BY <1>4, <2>1, <2>2, <2>3, <2>4, <2>5, <2>6, <2>7 DEF VideoThread, Acquire
<1>5. CASE AudioThread
  <2>1. Same
    BY <1>5 DEF AudioThread, AudioLoop, Deliver, CheckStarted, WriteFrame, Goto, sourceVars
  <2> QED
    BY <2>1, <1>0
<1>6. CASE CameraFlushes
  <2>1. PICK b \in Buffers : queue' = Append(queue, b)
    BY <1>6 DEF CameraFlushes, Flush
  <2>2. Len(queue') = Len(queue) + 1
    BY <2>1
  <2>3. UNCHANGED <<count, empty, pc>> /\ camera = "idle" /\ camera' = "called"
    BY <1>6 DEF CameraFlushes, Flush
  <2> QED
    BY <2>2, <2>3 DEF FramesCounted, WaitsForFrame, One
<1>7. CASE CameraCallback
  <2>1. CASE CallbackFindsStarted
    BY <2>1 DEF CallbackFindsStarted, FramesCounted, WaitsForFrame, One
  <2>2. CASE CallbackDrains
    <3>1. Len(queue') + empty + 1 = Len(queue) + empty'
      BY <2>2, SurfaceCounts DEF CallbackDrains
    <3>2. queue' \in Seq(Buffers) /\ empty' \in Nat
      BY <2>2, SurfaceTypes DEF CallbackDrains
    <3>3. UNCHANGED <<count, pc>> /\ camera = "called" /\ camera' \in {"idle", "drain"}
      BY <2>2 DEF CallbackDrains
    <3>4. Len(queue') \in Int /\ Len(queue) \in Int
      BY <3>2
    <3>5. Len(queue) = count + empty + 1 + One(pc["video"] = "take")
      BY <3>3 DEF FramesCounted, One
    <3>6. One(pc["video"] = "take") \in Int
      BY DEF One
    <3>7. Len(queue') = count' + empty' + One(pc'["video"] = "take")
      <4>1. PICK c \in Int, e \in Int, f \in Int, l \in Int, m \in Int, k \in Int :
              /\ c = count /\ e = empty /\ f = empty'
              /\ l = Len(queue) /\ m = Len(queue') /\ k = One(pc["video"] = "take")
        BY <3>2, <3>4, <3>6
      <4>2. m + e + 1 = l + f /\ l = c + e + 1 + k
        BY <3>1, <3>5, <4>1
      <4>3. m = c + f + k
        BY <4>2
      <4>4. count' = c /\ One(pc'["video"] = "take") = k
        BY <3>3, <4>1
      <4> QED
        BY <4>1, <4>3, <4>4
    <3>8. One(camera' \in {"called", "notify"}) = 0
      BY <3>3 DEF One
    <3>9. FramesCounted'
      BY <3>2, <3>3, <3>6, <3>7, <3>8 DEF FramesCounted
    <3> QED
      BY <3>3, <3>9 DEF WaitsForFrame
  <2>3. CASE CallbackReleases
    BY <2>3 DEF CallbackReleases, FramesCounted, WaitsForFrame, One
  <2>4. CASE CallbackNotifies
    <3>1. /\ UNCHANGED <<queue, empty>>
          /\ camera = "notify" /\ camera' = "idle" /\ count' = count + 1
      BY <2>4 DEF CallbackNotifies
    <3>2. CASE count = 0 /\ pc["video"] = "wait"
      <4>1. pc'["video"] = "woken"
        BY <2>4, <3>2 DEF CallbackNotifies, Wake, Goto
      <4> QED
        BY <3>1, <3>2, <4>1 DEF FramesCounted, WaitsForFrame, One
    <3>3. CASE ~(count = 0 /\ pc["video"] = "wait")
      <4>1. pc' = pc
        BY <2>4, <3>3 DEF CallbackNotifies, Wake
      <4> QED
        BY <3>1, <3>3, <4>1 DEF FramesCounted, WaitsForFrame, One
    <3> QED
      BY <3>2, <3>3
  <2> QED
    BY <1>7, <2>1, <2>2, <2>3, <2>4 DEF CameraCallback, Camera
<1>8. CASE SpuriousWakeup
  <2>1. /\ UNCHANGED <<queue, count, empty, camera>>
        /\ pc["video"] # "take" /\ pc'["video"] \notin {"take", "wait"}
    BY <1>8 DEF SpuriousWakeup, Goto, sourceVars
  <2> QED
    BY <2>1, FramesUntouched
<1> QED
  BY <1>1, <1>2, <1>3, <1>4, <1>5, <1>6, <1>7, <1>8 DEF Next

-----------------------------------------------------------------------------
(* The theorems *)

\* Only a new recorder, made when no thread is left, starts afresh.
LEMMA LapseEnds ==
  ASSUME ValuesOK, [Next]_vars, lapsed, ~lapsed'
  PROVE  InStep'
<1>1. CASE NewRecorder
  <2>1. \A k \in Kinds : pc[k] = "none"
    BY <1>1 DEF NewRecorder
  <2>2. /\ UNCHANGED <<api, pc>> /\ at = "none" /\ st' = "initialized"
    BY <1>1 DEF NewRecorder, ApiIdle
  <2> QED
    BY <2>1, <2>2, KindsAre
       DEF InStep, CallControl, ThreadControl, Equipped, HasVideo, HasAudio, ApiIdle, api
<1>2. CASE Next /\ ~NewRecorder
  <2>1. CASE Calls
    BY <1>2, <2>1 DEF Calls, SetSources, Prepare, StartSink, Pause, Resume, StopVideoSource,
       Reset, Release
  <2>2. CASE Steps
    BY <2>2 DEF Steps, StartVideoSource, StartAudioSource, PauseSink, ResumeSources,
       StopNotifies, JoinVideo, StopAudioSource, JoinAudio, StopSink, Lapse
  <2>3. CASE VideoThread \/ AudioThread \/ CameraFlushes \/ CameraCallback
               \/ (~Over /\ SpuriousWakeup /\ UNCHANGED implVars)
    BY <2>3, WorkKeepsCalls DEF implVars
  <2> QED
    BY <1>2, <2>1, <2>2, <2>3 DEF Next
<1>3. CASE UNCHANGED vars
  BY <1>3 DEF vars, implVars
<1> QED
  BY <1>1, <1>2, <1>3

LEMMA Inductive == Spec => []IInv
<1>1. Init => IInv
  BY ValueInit, FlagInit, TypeParts, KindsAre
     DEF Init, SourceInit, IInv, InStep, CallControl, ThreadControl, HasVideo, HasAudio, ApiIdle,
         Equipped, FramesCounted, WaitsForFrame, One
<1>2. IInv /\ [Next]_vars => IInv'
  <2> SUFFICES ASSUME IInv, [Next]_vars PROVE IInv'
    OBVIOUS
  <2>1. ValuesOK /\ FlagsOK
    BY TypeParts DEF IInv
  <2>2. ValuesOK' /\ FlagsOK'
    BY <2>1, ValueStep, FlagStep
  <2>3. TypeOK'
    BY <2>2 DEF TypeOK, SourceTypeOK, ValuesOK, FlagsOK
  <2>4. ~lapsed' => InStep'
    <3>1. CASE ~lapsed
      BY <3>1, <2>1, ControlStep, EquippedStep DEF IInv, InStep
    <3>2. CASE lapsed /\ ~lapsed'
      BY <3>2, <2>1, LapseEnds
    <3> QED
      BY <3>1, <3>2
  <2>5. FramesCounted' /\ WaitsForFrame'
    BY <2>1, FramesStep DEF IInv
  <2> QED
    BY <2>3, <2>4, <2>5 DEF IInv
<1> QED
  BY <1>1, <1>2, PTL DEF Spec

\* Whatever the camera, the source threads and the calls interleave to, and however
\* often the condition variable wakes for nothing, frameAvailableCount_ accounts for
\* every buffer in the surface.
THEOREM CountIsExact == Spec => []FramesCounted
<1>1. IInv => FramesCounted
  BY DEF IInv
<1> QED
  BY <1>1, Inductive, PTL

\* The notification in OnBufferAvailable, sent only when the count was zero, is enough:
\* a waiting video thread leaves no frame behind but those it forfeited itself.
THEOREM NotificationSuffices == Spec => []NoFrameMissed
<1>1. IInv => NoFrameMissed
  <2> SUFFICES ASSUME IInv, pc["video"] = "wait", camera \in {"idle", "drain"}
               PROVE  Len(queue) <= empty
    BY DEF NoFrameMissed
  <2>1. count <= 0 /\ Len(queue) = count + empty
    BY TypeParts DEF IInv, FramesCounted, WaitsForFrame, One, ValuesOK
  <2> QED
    BY <2>1, TypeParts DEF IInv, ValuesOK
<1> QED
  BY <1>1, Inductive, PTL

\* Every variable keeps its type.
THEOREM TypeCorrect == Spec => []TypeOK
<1>1. IInv => TypeOK
  BY DEF IInv
<1> QED
  BY <1>1, Inductive, PTL

\* The source threads exist between calls exactly while the recorder records or is
\* paused, whatever the muxer refuses, until a start or a stop has ended half-way.
THEOREM ThreadsAreJoined == Spec => []ThreadsFollowStatus
<1>1. IInv => ThreadsFollowStatus
  BY DEF IInv, InStep, ThreadsFollowStatus, ThreadControl, HasVideo, HasAudio, ApiIdle, Kinds
<1> QED
  BY <1>1, Inductive, PTL

\* A call joins a thread that is not there or replaces one that still runs, which ends
\* the process, only after the capturer's start or stop or the muxer's stop has failed in
\* the middle of an earlier call, or after Start was called while paused.
THEOREM NoCallTerminates == Spec => []NeverTerminated
<1>1. IInv => NeverTerminated
  BY DEF IInv, InStep, NeverTerminated, CallControl, ApiIdle, At
<1> QED
  BY <1>1, Inductive, PTL

\* The sources and the muxer are destroyed only when no thread is left that uses them,
\* until a start or a stop has ended half-way.
THEOREM NothingUsedAfterFree == Spec => []SinkOutlivesThreads
<1>1. IInv => SinkOutlivesThreads
  <2> SUFFICES ASSUME IInv, ~lapsed, NEW k \in Kinds, pc[k] # "none"
               PROVE  sources /\ prepared
    BY DEF SinkOutlivesThreads, ThreadsRun
  <2>1. st \in {"prepared", "recording", "paused", "stopped"}
    BY DEF IInv, InStep, ThreadControl, HasVideo, HasAudio, CallControl, ApiIdle, Kinds
  <2> QED
    BY <2>1 DEF IInv, InStep, Equipped
<1> QED
  BY <1>1, Inductive, PTL

-----------------------------------------------------------------------------
(* acquireBuffer_, whatever fails and whatever is called *)

HasBuffer == {"got", "check", "mux", "release"}

\* The buffer that acquireBuffer_ names is out of the surface only while the video thread
\* uses it or the callback drains it.
AcquiredIsUsed == acq \in held => camera = "drain" \/ pc["video"] \in HasBuffer

\* A step that neither takes nor gives a buffer.
SurfaceQuiet ==
  /\ UNCHANGED <<held, acq>>
  /\ camera' = camera \/ camera # "drain"
  /\ pc["video"] \in HasBuffer => pc'["video"] \in HasBuffer

\* The step of BuffersLostOnlyByDraining.
LosesByDraining == Lost' \subseteq Lost \/ camera = "drain" \/ (camera = "called" /\ ~started)

LEMMA QuietLosesNothing ==
  ASSUME AcquiredIsUsed, SurfaceQuiet
  PROVE  AcquiredIsUsed' /\ LosesByDraining
BY DEF AcquiredIsUsed, SurfaceQuiet, LosesByDraining, Lost

LEMMA ThreadGoes ==
  ASSUME ValuesOK, NEW k \in Kinds, NEW place, Goto(k, place)
  PROVE  pc'["video"] = IF k = "video" THEN place ELSE pc["video"]
BY KindsAre DEF Goto, ValuesOK

LEMMA SurfaceStep ==
  ASSUME ValuesOK, AcquiredIsUsed, [Next]_vars
  PROVE  AcquiredIsUsed' /\ LosesByDraining
<1> USE KindsAre
<1>1. CASE UNCHANGED vars
  BY <1>1, QuietLosesNothing DEF vars, sourceVars, SurfaceQuiet
<1>2. CASE Reset \/ NewRecorder
  <2>1. CASE SourceFresh
    BY <2>1 DEF SourceFresh, AcquiredIsUsed, LosesByDraining, Lost
  <2>2. CASE UNCHANGED <<sourceVars, pc>>
    BY <2>2, QuietLosesNothing DEF sourceVars, SurfaceQuiet
  <2> QED
    BY <1>2, <2>1, <2>2 DEF Reset, NewRecorder
<1>3. CASE SetSources \/ Prepare \/ StartSink \/ Pause \/ Resume \/ StopVideoSource \/ Release
           \/ PauseSink \/ ResumeSources \/ StopAudioSource \/ StopSink
  <2>1. UNCHANGED <<held, acq, camera, pc>>
    BY <1>3 DEF SetSources, Prepare, StartSink, Pause, Resume, StopVideoSource, Release,
       PauseSink, ResumeSources, StopAudioSource, StopSink, sourceVars
  <2> QED BY <2>1, QuietLosesNothing DEF SurfaceQuiet
<1>4. CASE StartVideoSource \/ StartAudioSource
  <2>1. UNCHANGED <<held, acq, camera>>
    BY <1>4 DEF StartVideoSource, StartAudioSource, sourceVars
  <2>2. PICK k \in Kinds : UNCHANGED pc \/ (pc[k] = "none" /\ Goto(k, "loop"))
    BY <1>4 DEF StartVideoSource, StartAudioSource, Spawn
  <2>3. pc["video"] \in HasBuffer => pc'["video"] = pc["video"]
    BY <2>2, ThreadGoes DEF HasBuffer
  <2> QED BY <2>1, <2>3, QuietLosesNothing DEF SurfaceQuiet
<1>5. CASE JoinVideo \/ JoinAudio
  <2>1. UNCHANGED <<held, acq, camera>>
    BY <1>5 DEF JoinVideo, JoinAudio, sourceVars
  <2>2. PICK k \in Kinds : UNCHANGED pc \/ (pc[k] = "exited" /\ Goto(k, "none"))
    BY <1>5 DEF JoinVideo, JoinAudio, Join
  <2>3. pc["video"] \in HasBuffer => pc'["video"] = pc["video"]
    BY <2>2, ThreadGoes DEF HasBuffer
  <2> QED BY <2>1, <2>3, QuietLosesNothing DEF SurfaceQuiet
<1>6. ASSUME Wake
      PROVE  pc["video"] \in HasBuffer => pc'["video"] = pc["video"]
  BY <1>6, ThreadGoes DEF Wake, HasBuffer
<1>7. CASE StopNotifies
  <2>1. UNCHANGED <<held, acq, camera>> /\ Wake
    BY <1>7 DEF StopNotifies, sourceVars
  <2> QED BY <1>6, <2>1, QuietLosesNothing DEF SurfaceQuiet
<1>8. CASE VideoLoop \/ AudioLoop
  <2>1. UNCHANGED <<held, acq, camera>>
    BY <1>8 DEF VideoLoop, AudioLoop, sourceVars
  <2>2. PICK k \in Kinds, place \in {"acquire", "got", "exited"} : pc[k] = "loop" /\ Goto(k, place)
    BY <1>8 DEF VideoLoop, AudioLoop
  <2>3. pc["video"] \in HasBuffer => pc'["video"] = pc["video"]
    BY <2>2, ThreadGoes DEF HasBuffer
  <2> QED BY <2>1, <2>3, QuietLosesNothing DEF SurfaceQuiet
<1>9. ASSUME NEW k \in Kinds, Deliver(k) \/ CheckStarted(k) \/ WriteFrame(k)
      PROVE  AcquiredIsUsed' /\ LosesByDraining
  <2>1. UNCHANGED <<held, acq, camera>>
    BY <1>9 DEF Deliver, CheckStarted, WriteFrame, sourceVars
  <2>2. PICK place : Goto(k, place) /\ place \in {"check", "mux", Written(k)}
    BY <1>9 DEF Deliver, CheckStarted, WriteFrame
  <2>3. k = "video" => place \in HasBuffer
    BY <2>2 DEF HasBuffer, Written
  <2> QED BY <2>1, <2>2, <2>3, ThreadGoes, QuietLosesNothing DEF SurfaceQuiet
<1>10. CASE AcquireChecks \/ AcquireLocks \/ AcquireWakes \/ SpuriousWakeup
  <2>1. UNCHANGED <<held, acq, camera>>
    BY <1>10 DEF AcquireChecks, AcquireLocks, AcquireWakes, SpuriousWakeup, sourceVars
  <2>2. pc["video"] \notin HasBuffer
    BY <1>10 DEF AcquireChecks, AcquireLocks, AcquireWakes, SpuriousWakeup, HasBuffer
  <2> QED BY <2>1, <2>2, QuietLosesNothing DEF SurfaceQuiet
<1>11. CASE AcquireTakes
  <2>1. /\ pc["video"] = "take" /\ SurfaceAcquire /\ UNCHANGED camera
        /\ Goto("video", IF acq' = NoBuffer THEN "loop" ELSE "got")
    BY <1>11 DEF AcquireTakes
  <2>2. pc'["video"] = IF acq' = NoBuffer THEN "loop" ELSE "got"
    BY <2>1, ThreadGoes
  <2>3. held' \subseteq Buffers
    BY <2>1, SurfaceTypes
  <2>4. NoBuffer \notin held'
    BY <2>3, SourceConstants
  <2>5. AcquiredIsUsed'
    BY <2>2, <2>4 DEF AcquiredIsUsed, HasBuffer
  <2>6. camera # "drain" => acq \notin held
    BY <2>1 DEF AcquiredIsUsed, HasBuffer
  <2>7. held' \ {acq'} \subseteq held
    BY <2>1 DEF SurfaceAcquire
  <2> QED BY <2>5, <2>6, <2>7 DEF LosesByDraining, Lost
<1>12. CASE ReleaseBuffer
  <2>1. held' = held \ {acq} /\ acq' = acq
    BY <1>12 DEF ReleaseBuffer, SurfaceRelease
  <2> QED BY <2>1 DEF AcquiredIsUsed, LosesByDraining, Lost
<1>13. CASE Flush \/ CallbackFindsStarted
  <2>1. UNCHANGED <<held, acq, pc>> /\ camera # "drain"
    BY <1>13 DEF Flush, CallbackFindsStarted
  <2> QED BY <2>1, QuietLosesNothing DEF SurfaceQuiet
<1>14. CASE CallbackNotifies
  <2>1. UNCHANGED <<held, acq>> /\ camera # "drain" /\ (Wake \/ UNCHANGED pc)
    BY <1>14 DEF CallbackNotifies
  <2> QED BY <1>6, <2>1, QuietLosesNothing DEF SurfaceQuiet
<1>15. CASE CallbackDrains
  <2>1. /\ camera = "called" /\ ~started /\ SurfaceAcquire
        /\ camera' = IF acq' = NoBuffer THEN "idle" ELSE "drain"
    BY <1>15 DEF CallbackDrains
  <2>2. held' \subseteq Buffers
    BY <2>1, SurfaceTypes
  <2>3. NoBuffer \notin held'
    BY <2>2, SourceConstants
  <2> QED BY <2>1, <2>3 DEF AcquiredIsUsed, LosesByDraining
<1>16. CASE CallbackReleases
  <2>1. camera = "drain" /\ held' = held \ {acq} /\ acq' = acq
    BY <1>16 DEF CallbackReleases, SurfaceRelease
  <2> QED BY <2>1 DEF AcquiredIsUsed, LosesByDraining
<1> QED
  BY <1>1, <1>2, <1>3, <1>4, <1>5, <1>7, <1>8, <1>9, <1>10, <1>11, <1>12, <1>13, <1>14,
     <1>15, <1>16
     DEF Next, Calls, Steps, VideoThread, AudioThread, CameraFlushes, CameraCallback, Camera,
         Acquire

\* A buffer of the surface is lost for good only when the callback drains a frame nobody
\* asked for: whatever fails and whatever is called, the pointer the video thread and
\* the callback share is otherwise never overwritten while it names a buffer to give
\* back.
THEOREM OnlyDrainingLoses == Spec => BuffersLostOnlyByDraining
<1>1. Init => ValuesOK /\ AcquiredIsUsed
  BY ValueInit DEF Init, SourceInit, AcquiredIsUsed
<1>2. ValuesOK /\ AcquiredIsUsed /\ [Next]_vars => (ValuesOK /\ AcquiredIsUsed)'
  BY ValueStep, SurfaceStep
<1>3. ValuesOK /\ AcquiredIsUsed /\ [Next]_vars => [LosesByDraining]_vars
  BY SurfaceStep
<1>4. [LosesByDraining]_vars =>
        [Lost' \subseteq Lost \/ camera = "drain" \/ (camera = "called" /\ ~started)]_vars
  BY DEF LosesByDraining
<1> QED
  BY <1>1, <1>2, <1>3, <1>4, PTL DEF Spec, BuffersLostOnlyByDraining

=============================================================================
