---------------------------- MODULE RecorderImpl ----------------------------
(***************************************************************************)
(* The recorder (recorder_impl.cpp): one video source on a surface, one    *)
(* audio source, a thread for each, and the sink they write to.            *)
(*                                                                         *)
(* Every API function holds mutex_ from start to end, so calls run one at  *)
(* a time: op says which one and at where it is.  Beside it run the source *)
(* threads VideoSourceProcess and AudioSourceProcess, which read the       *)
(* started and paused flags of sourceManager_ without the mutex, and the   *)
(* camera.  The muxer and the audio capturer are libraries.                *)
(***************************************************************************)
EXTENDS RecorderVideoSource

CONSTANTS
  Faults,         \* the library calls that may fail
  StartsPaused    \* the application may call Start while paused

ASSUME RecorderConstants ==
  /\ Faults \subseteq {"prepare", "sink start", "sink stop", "audio start", "audio stop"}
  /\ StartsPaused \in BOOLEAN

VARIABLES
  st,        \* status_
  op,        \* the API call in progress, "none" between calls
  at,        \* where it is; "terminated": std::terminate; "freed": its source was
             \* deleted under a thread, and what happens then is undefined
  sources,   \* videoSource and audioSource of sourceManager_ exist
  flag,      \* videoSourceStarted, audioSourceStarted
  paused,    \* videoSourcePaused, audioSourcePaused
  prepared,  \* the sink's prepared_: its muxer exists
  running,   \* the sink's started_
  lapsed     \* a start or a stop ended half-way, its threads not as status_ says, or
             \* Start was called while paused (history)

api == <<op, at>>
implVars == <<st, op, at, sources, flag, paused, prepared, running, lapsed>>
vars == <<sourceVars, pc, implVars>>

-----------------------------------------------------------------------------
ApiIdle == at = "none"
At(place) == at = place
GoOn(place) == at' = place /\ UNCHANGED op
Begin(name, place) == op' = name /\ at' = place
Return == op' = "none" /\ at' = "none"

Lapse == lapsed' = TRUE

None == [k \in Kinds |-> FALSE]

Init ==
  /\ SourceInit
  /\ pc = [k \in Kinds |-> "none"]
  /\ st = "initialized" /\ op = "none" /\ at = "none" /\ sources = FALSE
  /\ flag = None /\ paused = None
  /\ prepared = FALSE /\ running = FALSE /\ lapsed = FALSE

\* SetVideoSource and SetAudioSource
SetSources ==
  /\ ApiIdle /\ st = "initialized" /\ ~sources
  /\ sources' = TRUE
  /\ UNCHANGED <<sourceVars, pc, st, api, flag, paused, prepared, running, lapsed>>

SinkPrepares == prepared' = TRUE

\* A source has no valid configuration, or the muxer refuses its track: the sink stays
\* prepared.
PrepareFails == "prepare" \in Faults /\ st' = st

Prepare ==
  /\ ApiIdle /\ st = "initialized" /\ sources
  /\ SinkPrepares
  /\ st' = "prepared" \/ PrepareFails
  /\ UNCHANGED <<sourceVars, pc, api, sources, flag, paused, running, lapsed>>

-----------------------------------------------------------------------------
(* Start: the sink, the video source, the audio source *)

SinkStarts == prepared /\ running' = TRUE
SinkStops  == running' = FALSE

StartSink ==
  /\ ApiIdle
  /\ st \in {"prepared", "stopped"} \cup (IF StartsPaused THEN {"paused"} ELSE {})
  /\ \/ SinkStarts /\ Begin("start", "start video") /\ lapsed' = (lapsed \/ st = "paused")
     \/ /\ ~prepared \/ ("sink start" \in Faults /\ ~running)
        /\ UNCHANGED <<running, api, lapsed>>
  /\ UNCHANGED <<sourceVars, pc, st, sources, flag, paused, prepared>>

\* Assigning a std::thread over one that was not joined ends the process.
Spawn(kind, next) ==
  /\ flag' = [flag EXCEPT ![kind] = TRUE]
  /\ IF pc[kind] = "none"
     THEN Goto(kind, "loop") /\ next
     ELSE UNCHANGED <<pc, st>> /\ GoOn("terminated")

StartVideoSource ==
  /\ At("start video")
  /\ started' = TRUE
  /\ Spawn("video", GoOn("start audio") /\ UNCHANGED st)
  /\ UNCHANGED <<queue, held, empty, count, acq, reading, camera, sources, paused, prepared,
                 running, lapsed>>

\* When the capturer does not start, Start returns and the video thread goes on.
StartAudioSource ==
  /\ At("start audio")
  /\ \/ Spawn("audio", Return /\ st' = "recording") /\ UNCHANGED lapsed
     \/ "audio start" \in Faults /\ Return /\ Lapse /\ UNCHANGED <<pc, st, flag>>
  /\ UNCHANGED <<sourceVars, sources, paused, prepared, running>>

-----------------------------------------------------------------------------
(* Pause and Resume; the sources' own Pause and Resume do nothing *)

Pause ==
  /\ ApiIdle /\ st = "recording"
  /\ paused' = [k \in Kinds |-> TRUE]
  /\ Begin("pause", "pause sink")
  /\ UNCHANGED <<sourceVars, pc, st, sources, flag, prepared, running, lapsed>>

PauseSink ==
  /\ At("pause sink")
  /\ \/ SinkStops /\ st' = "paused"
     \/ "sink stop" \in Faults /\ running /\ UNCHANGED <<running, st>>
  /\ Return
  /\ UNCHANGED <<sourceVars, pc, sources, flag, paused, prepared, lapsed>>

Resume ==
  /\ ApiIdle /\ st = "paused"
  /\ \/ SinkStarts /\ Begin("resume", "resume sources")
     \/ "sink start" \in Faults /\ UNCHANGED <<running, api>>
  /\ UNCHANGED <<sourceVars, pc, st, sources, flag, paused, prepared, lapsed>>

ResumeSources ==
  /\ At("resume sources")
  /\ paused' = None
  /\ st' = "recording" /\ Return
  /\ UNCHANGED <<sourceVars, pc, sources, flag, prepared, running, lapsed>>

-----------------------------------------------------------------------------
(* StopInternal: called by Stop, Reset and Release *)

\* videoSourceStarted, then RecorderVideoSource::Stop up to lock_
StopVideoSource ==
  /\ ApiIdle /\ st \in {"recording", "paused"}
  /\ \E name \in {"stop", "reset", "release"} : Begin(name, "notify")
  /\ flag' = [flag EXCEPT !["video"] = FALSE]
  /\ started' = FALSE
  /\ UNCHANGED <<queue, held, empty, count, acq, reading, camera, pc, st, sources, paused,
                 prepared, running, lapsed>>

StopNotifies ==
  /\ At("notify")
  /\ Wake
  /\ GoOn("join video")
  /\ UNCHANGED <<sourceVars, st, sources, flag, paused, prepared, running, lapsed>>

\* join waits for the thread; joining no thread throws out of the call.
Join(kind, place) ==
  \/ pc[kind] = "exited" /\ Goto(kind, "none") /\ GoOn(place)
  \/ pc[kind] = "none" /\ GoOn("terminated") /\ UNCHANGED pc

JoinVideo ==
  /\ At("join video")
  /\ Join("video", "stop audio")
  /\ UNCHANGED <<sourceVars, st, sources, flag, paused, prepared, running, lapsed>>

StopAudioSource ==
  /\ At("stop audio")
  /\ flag' = [flag EXCEPT !["audio"] = FALSE]
  /\ \/ GoOn("join audio") /\ UNCHANGED lapsed
     \/ "audio stop" \in Faults /\ Return /\ Lapse
  /\ UNCHANGED <<sourceVars, pc, st, sources, paused, prepared, running>>

MutJoinAudioForgotten ==
  /\ At("join audio")
  /\ GoOn("stop sink")
  /\ UNCHANGED <<sourceVars, pc, st, sources, flag, paused, prepared, running, lapsed>>
JoinAudio ==
  /\ At("join audio")
  /\ Join("audio", "stop sink")
  /\ UNCHANGED <<sourceVars, st, sources, flag, paused, prepared, running, lapsed>>

MutStopKeepsStatus ==
  /\ At("stop sink")
  /\ \/ /\ running' = FALSE
        /\ IF op = "stop" THEN Return ELSE GoOn("finish")
        /\ UNCHANGED lapsed
     \/ "sink stop" \in Faults /\ running /\ Return /\ Lapse /\ UNCHANGED running
  /\ UNCHANGED <<sourceVars, pc, st, sources, flag, paused, prepared>>
StopSink ==
  /\ At("stop sink")
  /\ \/ /\ SinkStops /\ st' = "stopped"
        /\ IF op = "stop" THEN Return ELSE GoOn("finish")
        /\ UNCHANGED lapsed
     \/ "sink stop" \in Faults /\ running /\ Return /\ Lapse /\ UNCHANGED <<running, st>>
  /\ UNCHANGED <<sourceVars, pc, sources, flag, paused, prepared>>

-----------------------------------------------------------------------------
(* Reset and Release, behind StopInternal or without it *)

\* RecorderSink::Reset and Release stop the muxer and destroy it.
SinkReleases == prepared' = FALSE /\ running' = FALSE

MutFinishPaused(name) ==
  \/ ApiIdle /\ st \in {"initialized", "prepared", "paused", "stopped"}
  \/ op = name /\ At("finish")
Finishing(name) ==
  \/ ApiIdle /\ st \in {"initialized", "prepared", "stopped"}
  \/ op = name /\ At("finish")

ThreadsRun == \E k \in Kinds : pc[k] \notin {"none", "exited"}

\* The surface is taken to let a running callback end before its listener is deleted.
Reset ==
  /\ Finishing("reset")
  /\ camera = "idle"
  /\ SinkReleases
  /\ sources' = FALSE
  /\ \/ /\ ~ThreadsRun
        /\ flag' = None /\ paused' = None
        /\ SourceFresh
        /\ st' = "initialized" /\ Return
     \/ ThreadsRun /\ GoOn("freed") /\ UNCHANGED <<sourceVars, flag, paused, st>>
  /\ UNCHANGED <<pc, lapsed>>

Release ==
  /\ Finishing("release")
  /\ SinkReleases
  /\ st' = "released" /\ Return
  /\ UNCHANGED <<sourceVars, pc, sources, flag, paused, lapsed>>

\* The destructor of a released recorder, and a new one: destroying a std::thread that
\* was not joined ends the process.
NewRecorder ==
  /\ ApiIdle /\ st = "released"
  /\ camera = "idle"
  /\ \/ /\ \A k \in Kinds : pc[k] = "none"
        /\ SourceFresh
        /\ sources' = FALSE /\ flag' = None /\ paused' = None
        /\ st' = "initialized" /\ lapsed' = FALSE
        /\ UNCHANGED api
     \/ /\ \E k \in Kinds : pc[k] # "none"
        /\ GoOn("terminated")
        /\ UNCHANGED <<sourceVars, st, sources, flag, paused, lapsed>>
  /\ UNCHANGED <<pc, prepared, running>>

-----------------------------------------------------------------------------
(* The source threads *)

VideoLoop ==
  /\ pc["video"] = "loop"
  /\ Goto("video", IF flag["video"] THEN "acquire" ELSE "exited")
  /\ UNCHANGED <<sourceVars, implVars>>

\* AudioCapturer::Read does not block; a failed one goes round the loop again.
AudioLoop ==
  /\ pc["audio"] = "loop"
  /\ Goto("audio", IF flag["audio"] THEN "got" ELSE "exited")
  /\ UNCHANGED <<sourceVars, implVars>>

Written(kind) == IF kind = "video" THEN "release" ELSE "loop"

\* videoSourcePaused: the frame is dropped.
MutDeliverSkipsRelease(kind) ==
  /\ pc[kind] = "got"
  /\ Goto(kind, IF paused[kind] THEN "loop" ELSE "check")
  /\ UNCHANGED <<sourceVars, implVars>>
Deliver(kind) ==
  /\ pc[kind] = "got"
  /\ Goto(kind, IF paused[kind] THEN Written(kind) ELSE "check")
  /\ UNCHANGED <<sourceVars, implVars>>

\* WriteData of the sink: started_, then the muxer.
CheckStarted(kind) ==
  /\ pc[kind] = "check"
  /\ Goto(kind, IF running THEN "mux" ELSE Written(kind))
  /\ UNCHANGED <<sourceVars, implVars>>

WriteFrame(kind) ==
  /\ pc[kind] = "mux"
  /\ Goto(kind, Written(kind))
  /\ UNCHANGED <<sourceVars, implVars>>

-----------------------------------------------------------------------------
Calls == SetSources \/ Prepare \/ StartSink \/ Pause \/ Resume \/ StopVideoSource
           \/ Reset \/ Release \/ NewRecorder

Steps == StartVideoSource \/ StartAudioSource \/ PauseSink \/ ResumeSources
           \/ StopNotifies \/ JoinVideo \/ StopAudioSource \/ JoinAudio \/ StopSink

\* The process has ended, or what its threads do is undefined.
Over == at \in {"terminated", "freed"}

VideoThread ==
  /\ ~Over
  /\ \/ VideoLoop
     \/ (Acquire \/ ReleaseBuffer) /\ UNCHANGED implVars
     \/ Deliver("video") \/ CheckStarted("video") \/ WriteFrame("video")

AudioThread ==
  /\ ~Over
  /\ AudioLoop \/ Deliver("audio") \/ CheckStarted("audio") \/ WriteFrame("audio")

CameraFlushes == ~Over /\ sources /\ Flush /\ UNCHANGED implVars
CameraCallback == ~Over /\ Camera /\ UNCHANGED implVars

Next ==
  \/ Calls \/ Steps \/ VideoThread \/ AudioThread
  \/ CameraFlushes \/ CameraCallback
  \/ ~Over /\ SpuriousWakeup /\ UNCHANGED implVars

Spec == Init /\ [][Next]_vars

\* Threads are scheduled and calls go on; nobody has to make a call or flush a frame.
FairSpec ==
  /\ Spec
  /\ WF_vars(Steps \/ (At("finish") /\ (Reset \/ Release)))
  /\ WF_vars(VideoThread) /\ WF_vars(AudioThread) /\ WF_vars(CameraCallback)

-----------------------------------------------------------------------------
Operations == {"none", "start", "pause", "resume", "stop", "reset", "release"}
Places == {"none", "start video", "start audio", "pause sink", "resume sources", "notify",
           "join video", "stop audio", "join audio", "stop sink", "finish", "terminated", "freed"}

TypeOK ==
  /\ SourceTypeOK
  /\ pc["audio"] \in {"none", "loop", "got", "check", "mux", "exited"}
  /\ st \in {"initialized", "prepared", "recording", "paused", "stopped", "released"}
  /\ op \in Operations /\ at \in Places
  /\ sources \in BOOLEAN /\ prepared \in BOOLEAN /\ running \in BOOLEAN
  /\ lapsed \in BOOLEAN
  /\ flag \in [Kinds -> BOOLEAN] /\ paused \in [Kinds -> BOOLEAN]

\* The next three hold until a start or a stop ends half-way: the capturer does not
\* start behind the video thread, or does not stop, or the muxer does not stop behind
\* the joined threads - or Start is called while paused.

\* Between calls a source thread exists exactly while the recorder records or is paused.
ThreadsFollowStatus ==
  ApiIdle /\ ~lapsed => \A k \in Kinds : pc[k] # "none" <=> st \in {"recording", "paused"}

\* The sources and the muxer outlive every thread that uses them: the frames are read
\* from a source that exists, and none is written to a muxer that was destroyed.
SinkOutlivesThreads == ThreadsRun /\ ~lapsed => sources /\ prepared

\* A call ends the process, which joins or replaces a thread it must not, only after
\* such a lapse; whatever else fails is a status the later calls can handle.
NeverTerminated == At("terminated") => lapsed

\* acquireBuffer_ belongs to the video thread except while the callback drains an unwanted
\* frame: only then can a buffer be dropped that the surface never gets back.
BuffersLostOnlyByDraining ==
  [][Lost' \subseteq Lost \/ camera = "drain" \/ (camera = "called" /\ ~started)]_vars

\* While recording, a frame in the surface is taken, whatever it arrived in the middle of,
\* if no spurious wakeup has made the video thread count a frame it did not get and
\* no stop has ended half-way.
EveryFrameTaken ==
  \A b \in Buffers :
    (b \in Queued /\ st = "recording" /\ ApiIdle /\ empty = 0 /\ ~lapsed)
      ~> (b \notin Queued \/ ~ApiIdle \/ empty > 0)
=============================================================================
