------------------------ MODULE RecorderVideoSource ------------------------
(***************************************************************************)
(* The hand-over of frames from the camera to the recorder's video thread  *)
(* (recorder_video_source.cpp).  The camera flushes a buffer into the      *)
(* surface and the surface calls OnBufferAvailable on the camera's thread; *)
(* the video thread waits in AcquireBuffer for frameAvailableCount_, takes *)
(* the oldest buffer of the surface and gives it back with ReleaseBuffer.  *)
(* lock_ is only held inside single actions; the wait gives it up.         *)
(*                                                                         *)
(* started_ and acquireBuffer_ are shared without the lock, and            *)
(* acquireBuffer_ is used by both threads.  The surface is a library: a    *)
(* bounded set of buffers, a queue of the flushed ones, and the set of     *)
(* those a consumer has acquired; releasing any other buffer is refused.   *)
(***************************************************************************)
EXTENDS Integers, Sequences, FiniteSets

CONSTANTS
  Buffers,  \* the buffers of the surface
  NoBuffer, \* nullptr
  MaxEmpty  \* bound: spurious wakeups happen while fewer acquires found no buffer

ASSUME SourceConstants ==
  /\ IsFiniteSet(Buffers) /\ Buffers # {}
  /\ NoBuffer \notin Buffers
  /\ MaxEmpty \in Nat

VARIABLES
  queue,    \* surface: the flushed buffers, oldest first
  held,     \* surface: the buffers acquired and not released
  empty,    \* surface: how often a consumer found no buffer in the queue (history)
  started,  \* started_
  count,    \* frameAvailableCount_
  acq,      \* acquireBuffer_
  reading,  \* the buffer the video thread's RecorderSourceBuffer points into
  camera,   \* where the camera's thread is in OnBufferAvailable
  pc        \* where each source thread is

sourceVars == <<queue, held, empty, started, count, acq, reading, camera>>

Kinds == {"video", "audio"}

SourceFresh ==
  /\ queue' = <<>> /\ held' = {} /\ empty' = 0
  /\ started' = FALSE /\ count' = 0
  /\ acq' = NoBuffer /\ reading' = NoBuffer
  /\ camera' = "idle"

SourceInit ==
  /\ queue = <<>> /\ held = {} /\ empty = 0
  /\ started = FALSE /\ count = 0
  /\ acq = NoBuffer /\ reading = NoBuffer
  /\ camera = "idle"

Goto(kind, place) == pc' = [pc EXCEPT ![kind] = place]

-----------------------------------------------------------------------------
(* The surface *)

Queued == {queue[i] : i \in 1 .. Len(queue)}

SurfaceAcquire ==
  \/ /\ queue = <<>>
     /\ acq' = NoBuffer /\ empty' = empty + 1
     /\ UNCHANGED <<queue, held>>
  \/ /\ queue # <<>>
     /\ acq' = Head(queue) /\ queue' = Tail(queue)
     /\ held' = held \cup {Head(queue)}
     /\ UNCHANGED empty

SurfaceRelease == held' = held \ {acq}

-----------------------------------------------------------------------------
(* The camera's thread *)

Flush ==
  /\ camera = "idle"
  /\ \E b \in Buffers \ (held \cup Queued) : queue' = Append(queue, b)
  /\ camera' = "called"
  /\ UNCHANGED <<held, empty, started, count, acq, reading, pc>>

CallbackFindsStarted ==
  /\ camera = "called" /\ started
  /\ camera' = "notify"
  /\ UNCHANGED <<queue, held, empty, started, count, acq, reading, pc>>

\* A frame nobody asked for: the callback takes a buffer out itself.
CallbackDrains ==
  /\ camera = "called" /\ ~started
  /\ SurfaceAcquire
  /\ camera' = IF acq' = NoBuffer THEN "idle" ELSE "drain"
  /\ UNCHANGED <<started, count, reading, pc>>

CallbackReleases ==
  /\ camera = "drain"
  /\ SurfaceRelease
  /\ camera' = "idle"
  /\ UNCHANGED <<queue, empty, started, count, acq, reading, pc>>

Wake == IF pc["video"] = "wait" THEN Goto("video", "woken") ELSE UNCHANGED pc

MutNotifyNeverWakes ==
  /\ camera = "notify"
  /\ IF count = 1 THEN Wake ELSE UNCHANGED pc
  /\ count' = count + 1
  /\ camera' = "idle"
  /\ UNCHANGED <<queue, held, empty, started, acq, reading>>
CallbackNotifies ==
  /\ camera = "notify"
  /\ IF count = 0 THEN Wake ELSE UNCHANGED pc
  /\ count' = count + 1
  /\ camera' = "idle"
  /\ UNCHANGED <<queue, held, empty, started, acq, reading>>

Camera ==
  \/ CallbackFindsStarted \/ CallbackDrains \/ CallbackReleases \/ CallbackNotifies

-----------------------------------------------------------------------------
(* AcquireBuffer and ReleaseBuffer, on the video thread *)

\* started_ is read before lock_ is taken.
AcquireChecks ==
  /\ pc["video"] = "acquire"
  /\ Goto("video", IF started THEN "lock" ELSE "loop")
  /\ UNCHANGED sourceVars

MutLocksWaitsWithOne ==
  /\ pc["video"] = "lock"
  /\ IF count <= 1
     THEN Goto("video", "wait") /\ UNCHANGED count
     ELSE Goto("video", "take") /\ count' = count - 1
  /\ UNCHANGED <<queue, held, empty, started, acq, reading, camera>>
AcquireLocks ==
  /\ pc["video"] = "lock"
  /\ IF count <= 0
     THEN Goto("video", "wait") /\ UNCHANGED count
     ELSE Goto("video", "take") /\ count' = count - 1
  /\ UNCHANGED <<queue, held, empty, started, acq, reading, camera>>

SpuriousWakeup ==
  /\ empty < MaxEmpty
  /\ pc["video"] = "wait"
  /\ Goto("video", "woken")
  /\ UNCHANGED sourceVars

\* count is not looked at again.
MutWakesCountingAlways ==
  /\ pc["video"] = "woken"
  /\ Goto("video", IF started THEN "take" ELSE "loop")
  /\ count' = count - 1
  /\ UNCHANGED <<queue, held, empty, started, acq, reading, camera>>
AcquireWakes ==
  /\ pc["video"] = "woken"
  /\ IF started
     THEN Goto("video", "take") /\ count' = count - 1
     ELSE Goto("video", "loop") /\ UNCHANGED count
  /\ UNCHANGED <<queue, held, empty, started, acq, reading, camera>>

AcquireTakes ==
  /\ pc["video"] = "take"
  /\ SurfaceAcquire
  /\ reading' = acq'
  /\ Goto("video", IF acq' = NoBuffer THEN "loop" ELSE "got")
  /\ UNCHANGED <<started, count, camera>>

ReleaseBuffer ==
  /\ pc["video"] = "release"
  /\ SurfaceRelease
  /\ reading' = NoBuffer
  /\ Goto("video", "loop")
  /\ UNCHANGED <<queue, empty, started, count, acq, camera>>

Acquire == AcquireChecks \/ AcquireLocks \/ AcquireWakes \/ AcquireTakes

-----------------------------------------------------------------------------
SourcePlaces == {"none", "loop", "acquire", "lock", "wait", "woken", "take", "got",
                 "check", "mux", "release", "exited"}

SourceTypeOK ==
  /\ queue \in Seq(Buffers)
  /\ held \subseteq Buffers
  /\ started \in BOOLEAN
  /\ count \in Int /\ empty \in Nat
  /\ acq \in Buffers \cup {NoBuffer} /\ reading \in Buffers \cup {NoBuffer}
  /\ camera \in {"idle", "called", "drain", "notify"}
  /\ pc \in [Kinds -> SourcePlaces]

One(condition) == IF condition THEN 1 ELSE 0

\* frameAvailableCount_ and the surface's queue are changed by different threads under
\* different locks and are never compared by the code.  They agree all the same: the
\* queue holds one buffer for every frame counted, for the one whose callback has not
\* counted or drained it yet, for the one the video thread has counted off and not yet
\* taken - and one for every acquire that came too early and found nothing.
FramesCounted ==
  Len(queue) = count + empty + One(camera \in {"called", "notify"})
                             + One(pc["video"] = "take")

\* A waiting video thread has missed no frame: once the callback is through, the surface
\* holds no buffer but the ones that spurious wakeups have forfeited, one each.
NoFrameMissed ==
  pc["video"] = "wait" /\ camera \in {"idle", "drain"} => Len(queue) <= empty

\* The buffers nobody will release any more: acquireBuffer_ is the only pointer kept.
Lost == held \ {acq}

=============================================================================
