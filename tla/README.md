# Verification of multimedia_media_lite

TLA+ models, model-checking runs and machine-checked proofs for the player and the
recorder of this repository. Paths below are relative to `src/`; `PROJECT.json` maps every
definition to the lines it models.

## 1. The system

An application plays or records through `Player` and `Recorder`
(`interfaces/kits`, `frameworks`). With the binder build the two classes are proxies of a
server process, with the passthrough build they own the implementation directly. The
implementation is the part with threads, locks and callbacks.

    JavaScript ── AudioPlayer ─┐                                     (JS audio module)
                               ▼
    application ── Player ── PlayerClient ~~~ PlayerServer           (binder: own process)
                               │                │  thread: streamProcess
                               ▼                ▼  thread: IdleBufferProcess
                           PlayerImpl ── PlayerControl ── demuxer, decoders, sinks, sync
                           (adapter)      (engine)         thread: DataSchProcess
                               ▲             │
                               └─ callbacks ─┘   state machine + message looper

    application ── Recorder ── RecorderClient ~~~ RecorderClientMng  (one client)
                                   RecorderImpl ── RecorderSink ── muxer (library)
                                   │ threads: sources     thread: MessageThread
                     camera ── surface ── RecorderVideoSource

### Components

| Component | State it keeps | Operations | Correct when |
|---|---|---|---|
| **Message looper** (`player/fsm/src`) | pool of message cells (free, busy), queue sorted by due time, the looper thread, handler mutex | Init, Start, Stop, Deinit, Post with delay, Send, RemoveMessage | no cell leaks or is in two places; delivery by due time, FIFO among equals; Stop joins; nothing queued is forgotten |
| **Playback engine** (`liteplayer.cpp`, `liteplayer_state_machine.cpp`) | state machine, `paused_`, `schThreadExit_`, `seekTabel_`, cached packet, ends | Play, Pause, TPlay, Stop, Seek; thread `DataSchProcess` | no seek is lost; a refused message changes no state; every packet reaches a sink once and in order; the end is reported once |
| **Player adapter** (`player_impl.cpp`) | `currentState_`, `speed_`, `rewindPosition_`, `extraRewind_`, loop and pause-after-play flags | SetSource, Prepare, Play, Pause, Stop, Rewind, SetPlaybackSpeed, Reset, Release; the engine's callbacks; ReadData | its state agrees with the engine's; the newest rewind wins; every call returns |
| **Sinks and synchronisation** (`sink/`) | frame queues, running, paused, render mode, anchors of the clocks | Start, Stop, Pause, Resume, Reset, RenderFrame, RenderEos | frames in order, each played or dropped once |
| **Decoder** (`decoder/`) | codec handle, buffers in flight | queue, dequeue, flush | a wrapper: no packet lost when it is full |
| **Source and demuxer** (`source/`) | read position, end of stream | Init, ReadFrame, Seek | a wrapper: the packets follow the position |
| **Buffer source** (`buffersource/`) | idle and filled buffers of a stream | queue and dequeue idle and filled buffers, size | every buffer is in one place |
| **Player server** (`player_lite/server`) | the one player, the listener's proxy, the stream and its thread | dispatch, SetStreamSource, SetPlayerCallback, Release | an answer is what was done; the thread ends before its stream |
| **Player client and API** (`frameworks/player_lite`) | proxy, listener | marshal a call, wait for the answer | answers mean what the service did; a lost one can be asked again |
| **Recorder** (`recorder_impl.cpp`, `recorder_sink.cpp`) | `status_`, sources with their configuration and tracks, threads; muxer, descriptors, message thread | SetVideoSource … SetRecorderCallback, Prepare, Start, Pause, Resume, Stop, Reset, Release | threads exist exactly while recording or paused; descriptors are closed once; messages are handed on |
| **Recorder sources** (`recorder_*_source.cpp`) | `started_`, `frameAvailableCount_`, `acquireBuffer_`, the surface | OnBufferAvailable, AcquireBuffer, ReleaseBuffer, Start, Stop | every frame is counted once and taken; every buffer is released |
| **Recorder service and client** | the one client admitted | AcceptClient, DropClient, dispatch | only its client can use the recorder |
| **JS audio module** | a player, source, status, the UpdateTime thread | play, pause, stop, setters, onended, ontimeupdate | the end is always reported; a player that is listened to is always there again |

### Interaction and what is hard about it

* **Player.** Every API function of the adapter holds `lock_` for its whole length, and
  every message to the engine is handled on the caller's thread under the looper's handler
  mutex. The engine's thread takes neither when it reads, renders and reports: it calls
  back into the adapter (`PlayerControlEventCb`) without `lock_`, and writes
  `currentState_`, `rewindPosition_` and `extraRewind_` beside a call in progress. The
  thread shares `schMutex_`, `seekTabel_` and the sinks with the callers, not always under
  the mutex.
* **Pipeline.** One thread reads, decodes and renders in turn, and nothing may block it: a
  full decoder, a full device or a frame that is not due is tried again next round, with
  what was read kept in `formatPacket_` and what was decoded in the sink.
* **Streams.** Three threads pass buffers round and hold raw pointers to objects the
  service's thread frees.
* **Looper.** Posting threads compute the due time before they lock the queue, the
  looper's sleep is timed, and a new earliest message does not wake it
  (`message_looper.cpp:292` compares with the wrong iterator), so only the timeout saves
  delivery.
* **Recorder.** Calls hold `mutex_` and join the source threads while they hold it. The
  source threads read flags without a lock. The camera's callback and the video thread share
  `started_` and `acquireBuffer_` without a lock, and one counter with one, beside the
  surface, which has a lock of its own. The message thread sets up its own semaphore, and
  closes descriptors without a lock.
* **Processes.** The player's service has one player for all processes, and the recorder's
  admits one. An answer may get lost after the request was served.
* **JavaScript.** The script's thread, a thread per finished playback and the UpdateTime
  thread share `player_`; the first takes no lock.
* **Failure.** A library call may refuse (prepare, start, seek, speed change, muxer, audio
  capturer) in the middle of an operation that has already changed state, and the
  application may try again.

`PROJECT.json` lists the hazards at their lines with the properties that watch them.

## 2. Modules

| Module | Models | Extends |
|---|---|---|
| `MessageLooper` | looper, pool, `HiStateMachine` Post/Start/Stop | |
| `PlayerControl` | engine: commands, `seekTabel_`, `DataSchProcess` | |
| `PlayerImpl` | adapter and its callbacks, on that engine | `PlayerControl` |
| `PlayerSync` | when a frame is played, dropped or tried again | |
| `MediaPipeline` | packets through demuxer, decoders, sinks | `PlayerSync` |
| `ByteStream` | abstract: what a stream source promises | |
| `StreamSource` | surface, `streamProcess`, `BufferSource`, `ReadData`; implements `ByteStream` | |
| `PlayerServer` | what each request does in the service | |
| `PlayerService` | clients, requests, replies, losses | `PlayerServer` |
| `AudioPlayer` | the JS audio module on that player | `PlayerServer` |
| `RecorderVideoSource` | surface, camera callback, AcquireBuffer/ReleaseBuffer | |
| `RecorderImpl` | recorder's life cycle and source threads | `RecorderVideoSource` |
| `RecorderSink` | muxer, descriptors, message thread | |
| `RecorderService` | the one client, sources, configuration, tracks | `RecorderSink` |
| `MC…` | the small instances | |
| `MessageLooperProofs`, `PlayerImplProofs`, `MediaPipelineProofs`, `StreamSourceProofs`, `PlayerServiceProofs`, `AudioPlayerProofs`, `RecorderProofs`, `RecorderServiceProofs` | theorems, each about the module it is named after (`RecorderProofs`: `RecorderImpl`) | that module |

The engine is modelled twice because two questions are asked of it: `PlayerControl` has
every interleaving of commands with the render thread and abstracts packets to a position;
`MediaPipeline` has the packets and lets commands come between rounds, which is where
`schMutex_` lets them in. Likewise `PlayerServer` is the adapter as its callers see it,
one step a call, and `RecorderService` sees the source threads only as started and joined.

An operator `Mut…` is a plausible bug in the operator behind it. No specification uses it;
replacing the definition by it shows that a property of a run can fail.

### MessageLooper

A step is one critical section of the queue, pool or handler mutex. `PostBegin` is
`HiStateMachine::Post` up to the queue lock (the cell is taken and the due time computed),
`PostInsert` is `InsertQueue`. `RemoveBegin`/`RemovePut`, `SendLock`/`SendUnlock` and
`StopBegin`/`StopJoin` are the two halves of the calls that give a lock up in between.
`LooperSleep`, `LooperWake`, `LooperPop`, `LooperLock`, `LooperUnlock`, `LooperPut` and
`LooperExit` are the body of `QueueHandlr`. `seq` numbers insertions and exists for the
FIFO part of `DeliveryOrder` only. Stop leaves the queue as it is, as the code does, so a
restarted looper still delivers the messages of its previous run.

### PlayerControl and PlayerImpl

`cmd[t]` is the message a thread is sending and where its handler is. `Enter` takes the
handler mutex, the middle actions are the steps of `DoPlay`, `DoPause`, `DoTPlay` and `DoStop`
between which the render thread can run, and `Answer` makes the transition of the state
machine and gives the mutex up. `sch` is the program counter of the render thread. A file
is `FileEnd` frames; `Reads` and `Renders` are how far one pass may read and what it may
show: one frame more at normal speed, any later frame in fast play, where
`TPlayBeforeFrameRead` seeks on before each read.

What is one step and why:

* An iteration that renders is one step: it holds `schMutex_`, and a caller can change neither
  `paused_` nor the sinks while the thread renders under it.
* `AyncSeek` is one step. The reset of the sinks and the seek of the source both come
  before its callback, and both orders with respect to a resume of the caller are covered
  by the steps around it.
* `SetSource`, `Prepare`, `SetParameter` are one step each, because no render thread
  exists in the states that allow them.
* The failures of `DoPause` and of the resets inside `AyncSeek` are unreachable: the sink
  manager refuses a pause only if it was not started, a resume only if it was not paused,
  and never a reset.
* `PLAYERCONTROL_MSG_ERROR` is never handled successfully, so the engine's error state has
  no transition.

`DoStop` leaves `seekTabel_`, `paused_` and `schThreadExit_` as they are, and `Deinit`
destroys the engine whatever `Stop` answered; both are modelled.

Left out: volume, surfaces, audio types and progress reports; backward
play, which the adapter's speeds (all positive) never ask for; and the handling of lost
frames (`TPlayCheckContinueLost`), whose event no sink raises. The application does not
call the player from inside its callbacks.

### RecorderVideoSource and RecorderImpl

One video source, one audio source and their threads. `op` and `at` are the API call in
progress and where in it the call is; between two calls both are `"none"`. `Reset` and
`Release` share the steps of `StopInternal` with `Stop` and go on from `"finish"`.
`"terminated"` means that the code has called `std::terminate`: a `std::thread` was
assigned or destroyed while joinable, or joined when it was not. `"freed"` means that
`Reset` has deleted the sources under a running thread. Both end the model (`Over`): the
process is gone, or what its threads do is undefined. Every library call of the recorder may
fail (`Faults`). Where a start or a stop returns half-way with the threads not as `status_`
says, because the capturer did not start or stop, or the muxer did not stop behind the joined
threads, the history variable `lapsed` is set, as it is by Start while paused
(`StartsPaused`); the calls go on from there, and the properties about threads say what
holds until then. A new recorder clears it.

A step of the source is one section under `lock_` or one access to the surface. The
video thread's `AcquireChecks` (line 112), `AcquireLocks` (117) and `AcquireWakes` (119)
are apart because `started_` is read outside the lock. Assumptions and abstractions:

* The surface, the muxer, the capturer and the condition variable are libraries, modelled
  by what this code relies on. Releasing a buffer that was not acquired changes nothing,
  and a wait may end without a notification while fewer than `MaxEmpty` acquires have
  found no buffer (each such wakeup costs one).
* `UnregisterConsumerListener` is assumed to wait for a callback that is running: `Reset`
  and `NewRecorder` delete the source only while the camera is idle.
* The flags of the two sources are set in one step. Each thread reads only its own.
* The capturer's read is one step; a read that fails goes round the loop again.
* `NewRecorder` is the destructor of a released recorder followed by a constructor.

The data source repeats the hand-over of the video source and is not modelled.

### PlayerSync and MediaPipeline

A round of `DataSchProcess` is four steps: `ReadPacketAndPushToDecoder`, `RenderAudioFrame`,
`RenderVideoFrame`, `EndOfRound`. The decoders work beside it. A packet is a kind and a
time stamp; its way is `pos` (demuxer), `cached` (`formatPacket_`), `input`, `output`
(decoder), `cache` (sink), `handled` (played or dropped, history). A clock is reduced to what a
comparison with it says of the frame at hand: early, due or late; comparisons of two time stamps
are kept. `Pause` resets the clocks the way `SinkManager::Pause` does, not the frames.

Files are short, but every place a packet can wait in has room for one or two, so each is
full and empty in turn. `EosFits` says that a decoder that is full still takes the end; it
is TRUE in the run, see section 5. The trick play of the pipeline is left out.

### StreamSource and ByteStream

Bytes are numbered, so a lost, repeated or stale byte shows. `idler` is the place of
`IdleBufferProcess`, `proc` that of `streamProcess`, whose `readLen` is uninitialised at
first and survives a round (`player_server.cpp:217`). `Reset`, `Release`, `Stop` and a new
source come at any time. Raw pointers to freed objects are not followed: the step that
would use one sets `wild`, and the model stops there. `IsByteStream` is the refinement:
the four variables of `ByteStream` are variables of `StreamSource`, and every step maps to
one of its actions or a stutter until the program runs wild. Stop of a player that refuses
it is left out of the run (`RefusedStops`, section 5).

### PlayerServer, PlayerService and AudioPlayer

A request is a function from the player's record to a set of outcomes; one that SetSource
refuses has run `ResetInner`. In `PlayerService` a
call is `Begin`, `Handle`, `Return`, `Finish`, with `Lose` in between; every function of
`PlayerClient` has these steps, and `Unmarshal` is its `Callback`. Items of a reply keep the type they
are written in, so that reading another type shows. Stream sources are in `StreamSource`.

In `AudioPlayer` a call of the player is one step and every step of `DestoryPlayer`,
`CreatePlayer` and `ResetPlayer` is its own, on whichever thread runs them. A step through
the null `player_` sets `wild`. The two builds differ in `Passthrough`.

### RecorderSink and RecorderService

The functions of the sink are called under `mutex_` and are functions of its record; the
message threads take no lock and have a step for each of their accesses. A start creates the
message thread before it starts the muxer. When the muxer does not start (at most
`MaxFailures` times) the thread stays, and the next start creates another and overwrites
`threadId`: `failures` counts such starts, `retried` says that there was one more start after
one. The destructor cancels the thread of `threadId`; any other becomes `"stray"` and is not
followed, because it uses deleted memory. A thread's `sem_init` of a semaphore another one
waits on is undefined; here it sets the value to 0. When `pthread_create` fails nothing has changed. Descriptors are
numbered as they arrive and never reused, so a second close shows; the record of the files
says which were refused, replaced or cannot be closed (`forsaken`) and which had a part in a change of files of
the muxer (`switched`), the two ways in which the code is known not to account for them
(section 5). `CloseFd` closes a descriptor through a stream to read from, which
`fdopen` refuses for a write-only one (`WriteOnly`): it returns, and neither descriptor is
closed. A part in a change has also the next file when the recording ends between the thread's close of the first
and its change to the second: `CloseFd` gets no stream for the closed one and returns
before it comes to the other. The build is the service's.
`Prompt` lets a message thread that was created or told to end get to its loop, or out of
it, before the next call; without it two exist on one semaphore even if no start fails
(section 5).

## 3. What is checked

Bounds are in the configurations and the MC modules. Every property of a passing run has
a mutant in `PROJECT.json` that breaks it.

| Run | Instance | Shows | States |
|---|---|---|---|
| `looper` | 2 cells, 2 clients, 1 kind, 3 posts, delays 0 and 1 | the pool's partition, no leak or alias, delivery order; what is queued is taken, Stop returns | 68 000 |
| `player_calls` | 2 frames, 2 tracks, double speed, rewinds to 0, 1, 2, failing prepares, starts and seeks | the newest rewind wins, adapter and engine agree, no seek is lost, a paused player stays paused | 798 000 |
| `player_live` | 1 frame, 2 tracks, rewinds to 0, 1, double speed | calls return, rewinds complete, playback completes | 41 000 |
| `player_modes` | 1 frame, rewinds to 1, loop, pause-after-play, JPEG or not, failing switch back from fast play | no seek is lost when the render thread itself rewinds and pauses | 307 000 |
| `player_deadlock` | 1 frame, pause-after-play | violation: Stop against the first frame | |
| `pipeline` | 4 files of 2 to 4 packets, decoders with 1 input and 2 output buffers, 2 pauses or seeks, pause-after-play | frames in order, the end once and last, playback completes | 28 000 |
| `stream` | 2 buffers of 2 bytes, a surface of 1 chunk, 4 bytes, 2 sources | no buffer lost, a byte stream (refinement), everything sent is read, Release returns, a played-out source can go | 44 000 |
| `service` | 2 processes, every request, an intruder that resets and releases, 4 kinds of refusal, 1 loss | answers are true, calls can be repeated | 1 237 000 |
| `audio` | 2 threads of finished playbacks, 2 sources, passthrough, 3 kinds of refusal | ends are reported, the timer is safe, the module comes to rest ready | 145 000 |
| `audio_binder` | the same in the service's build, 1 source | violation: a listener set before the source is lost | |
| `rec_calls` | 2 buffers, 1 spurious wakeup, prepares, starts and stops that fail in the muxer or the capturer | frames counted and taken; until a start or stop has ended half-way, threads joined, nothing used after free, no termination | 204 000 |
| `rec_service` | 1 client, a video and an audio source, 2 descriptors, one of them write-only, 2 message threads, 1 message, every fault of the muxer, its start failing once | messages handed on, no thread outlives its sink but after a failed and repeated start, tracks match, descriptors closed once | 717 000 |

**Why the bounds are enough.** Two cells and two clients make the pool run dry, two events
fall due at once and a removal meet a delivery; three posts fill the queue again behind a
free cell. Three rewind targets let a request be merged into one that is being sought and
differ from both ends, and the two slots of `seekTabel_` be full. Two frames let a seek
fall between the first and the last; liveness needs only one. Two recorder buffers let the queue
hold one frame while another is acquired. The code sets a queue size of three
(`SURFACE_QUEUE_SIZE`); with three buffers the same properties hold (737 000 states, too
slow for the regular run). One spurious wakeup makes the counter negative, and `MaxEmpty`
is arbitrary in the proofs. In the pipeline a decoder with one input buffer is full after
one packet, so that the packet of the other track waits behind the cached one. Two stream
buffers let one be read while the other is filled, chunks of one and two bytes are read in
pieces that do not match, and the second source finds what the first left. One loss is
enough for a repeated call, and the intruder for a call in between. Two threads of finished
playbacks can wait for each other. Two descriptors are a file and a next file, or a file
and its replacement, and are enough for a change of files that closes one twice or leaves
one open, the two exceptions of `DescriptorsAccounted`; a third, set while the message
thread changes from the first to the second, adds nothing to them (checked by hand with
one source, 478 000 states, and proved for any number). A message
thread and one that a failed start left are two threads on one semaphore, and one message is
enough for the wrong one to wake. A second recorder client would only be turned away.
`rec_calls` leaves Start while paused out (`StartsPaused` FALSE) to stay short: with it the
same properties hold (670 000 states), and the proofs cover both.

**Which properties are demanding.** `NoLeakNoAlias` relates five places a cell can be in
across three threads. `NoSeekLost` is the unlocked write of a slot against the one that
empties it. `LastRewindWins` relates what the application asked to what it was told over
any number of merged rewinds. `StatesAgree` compares two state machines between calls.
`FramesInOrder` follows every packet through five queues across seeks.
`IsByteStream` is the tour through three threads and three queues against an abstract
specification that knows none of them, and `PlayedOutIsSafe` says why freeing a stream
under its thread usually goes well. `RepeatedCallsSucceed` compares an action with an
earlier one. `ReadyAgain` and `EndIsReported` hold whatever the script calls between the
steps of a re-creation. `FramesCounted` compares a counter and a queue that different
threads change under different locks. `BuffersLostOnlyByDraining` says when the shared
`acquireBuffer_` loses a buffer. `NeverTerminated` says
after which failures a later call misuses a `std::thread`, and that no other failure leads there.
`DescriptorsAccounted` holds over any order of nine calls and two threads.

**Deadlock** is checked except where the system really stops: `player_modes` and
`player_deadlock` (the deadlock of section 5), `pipeline` (stopped), `stream` (no source
left, or wild), the two runs of the JS module (terminated, or wild) and `rec_calls` (`Over`). `PauseHolds` is not
in `player_modes`, because Pause of a prepared player legitimately plays up to the first frame.

### Fairness

* Looper: the looper thread, a call in progress and the clock go on (WF). The handler
  mutex does not starve the looper (SF): clients take it for the length of one handler.
* Player: the render thread and the return of a call are weakly fair. A handler that waits
  for `schMutex_` or the handler mutex is strongly fair: the render thread gives
  `schMutex_` up in each iteration, and a mutex that starved a waiter for ever would stop
  the real player as well.
* Pipeline: the thread and the decoders are weakly fair. Strongly fair are reading (a stream has data
  again and again), a frame becoming due and the audio device emptying: a clock that runs.
* Stream: both threads and a call that was begun are weakly fair, and so is the demuxer of a started
  player while there is something to read.
* JS module: each thread is weakly fair, a thread that waits for `lock_` strongly, because
  the UpdateTime thread gives it up whenever it waits.
* Recorder: the steps of a call, both source threads, a running camera callback and the message
  thread are weakly fair.
* Nobody has to make a call, post a message, send or flush data, report from a muxer or be
  woken spuriously.

`RewindCompletes` is checked without failing seeks: a source that refuses a seek for ever
is asked again for ever (`liteplayer.cpp:1923`), and that loop is what the code does.

## 4. What is proved

TLAPS checks these for every value of the constants that the assumptions of the modules
admit. Each invariant a run checks is a theorem, and so is each action property; so is the one
refinement. None of the invariants is inductive alone; what is added to it is named below,
was checked by TLC on the instances of section 3 first, and is preserved with one lemma or
step per action.

**MessageLooperProofs** needs only `LooperAssumption`.
`TypeCorrect`, `PoolSafe`, `NoCellLeaksOrAliases` and `QueueOrdered` are
`Spec => []TypeOK`, `[]PoolPartition`, `[]NoLeakNoAlias` and `[]DeliveryOrder`. The invariant adds that a client holds a cell exactly in the places where
its call does, the looper thread in the places where its body does, that an uninitialised looper has an
empty queue and idle clients, and that the insertion numbers in the queue are below
`posted`. Two lemmas give `InsertAt` and `RemoveAt` element by element.

**PlayerImplProofs**

| Theorem | Statement | Assumes |
|---|---|---|
| `NewestRewindWins` | `[]LastRewindWins` | |
| `NoRewindDropped` | `NoSeekLost` | |
| `StatesFollowEngine` | `[]StatesAgree` | `~PauseAfterPlay`, no `"switch"` fault |
| `PauseIsKept` | `PauseHolds` | the same |

The invariant has three parts. `EngineInv` says which messages may be under way in which state
of the call, that before a start there is no thread to disturb, and that a
rewind that is sent is the one the application waits for. `SeekInv` is about the seek
table: at most one slot is live (`OneLive`: the one that `DoSeekIfNeed` has sought and is
about to empty no longer counts), and while one is live the position to go to next is the one
asked for last. That is why neither a merged rewind nor the unlocked write of a slot loses
one: `Seek` writes a slot that is free, and the thread empties the one it has just sought. `StatesInv` says for each place of a
call and of the callbacks how far adapter and engine may be apart. The two assumptions
exclude what the code really does (section 5): the engine's own thread pauses it behind the
adapter's back, and a switch back to normal speed that failed is recorded as made, so that a
Pause after it is refused by the engine and recorded by the adapter.

**MediaPipelineProofs** needs no assumption beyond `PipelineConstants`: any files, any number of
buffers in the decoders, any render mode, whether or not a full decoder takes the end.
`NoFrameOvertakes` is `[]FramesInOrder`, `EndIsToldOnce` is `[]CompleteIsComplete`. The invariant
`Line(k)` says that what was handled, what the sink keeps, what the decoder has ready and
what it was given are, one behind the other, one run of the track from the start on, as
long as the number of packets of the track that were pushed (`Between`); `LineDecode`,
`LinePush`, `LineTake` and `LineRelease` say that a run stays one when a frame moves on. `End`
says that the end follows from place to place and overtakes nothing, and `Told` that it is
reported where it has come out of every track. `Track` and `Between` are defined by
counting instead of filtering, so that `TrackHas` (the place of a packet in its track is the
number of those before it) needs no induction over the file.

**StreamSourceProofs**: `NoBufferLost` (`[]BuffersPartition`), `TakenDownSafely`
(`PlayedOutIsSafe`) and the refinement `StreamImplementsBytes` (`IsByteStream`), the last under
`StopsAccepted` (`RefusedStops = FALSE`; without it TLC finds it violated, section 5). The
invariant ties each thread's place to the buffer in its hand, says which of the calls may be
in progress beside which thread, and that nothing is queued behind the end. For the
refinement it adds `Flows`: what was read, what is filled or being filled and what the surface
holds are together the bytes sent, in order; then `ReadDelivers` shows that a read takes the
next bytes of the stream or its end, and every other step is a stutter or a step of the sender.

**PlayerServiceProofs**: `AnswersTellTheTruth` (`[]AnswersAreTrue`) and `RepetitionSucceeds`
(`RepeatedCallsSucceed`, if the engine never refuses a Rewind; every other refusal may come).
The invariant relates every reply under way to what the service did for it, and `SuccessLasts`
says of a call whose answer got lost that the player still accepts it as long as nobody
else has called. `RequestsAreCalls` says what a request is: a function of the service's
table and an argument of its type.

**AudioPlayerProofs**: `TimerIsKeptSafe` (`[]TimerIsSafe`, both builds) and `PlayerIsReadyAgain`
(`[]ReadyAgain`, with `Passthrough`; in the service's build the listener may be lost, section 5).
`Locked` says who is inside `lock_`; `PlayerIsNear` and `ListenerIsNear` say that a
missing player or listener is always some thread's next step but a few, however many threads
take part in re-creating it.

**RecorderServiceProofs**: `TracksAreSources` (`[]TracksMatch`, for any processes and
kinds of sources), and, with `Prompt`, `DescriptorsClosedOnce` (`[]DescriptorsAccounted`) and
`ThreadsGoWithTheirSink` (`NoThreadOutlivesSink`, an action property), for any number of
message threads and failing starts. The invariant books each descriptor as one of the two
fields, closed once, forsaken or switched (`DescriptorsBooked`). `ThreadsControlled` says of
the threads: while the muxer is started the thread of `threadId` is there and runs or begins
(`ThreadServes`); a thread that begins finds others only where a start failed before, and they
run or wait (`ThreadBeginsAlone`); what a failed start leaves has nothing to do
(`ThreadsIdle`); and without a repeated start there is no thread but that of `threadId`
(`OneThread`), which is what the theorem needs when the sink is deleted. The others
make it inductive, and keep a thread that a failed start left from changing files
(`DescriptorsBooked`). The
attempt to prove it showed that an earlier `DescriptorsAccounted` was true of two
descriptors and false of three.

**RecorderProofs** needs no assumption beyond those of the modules: any of the library calls
may fail, and the application may call Start while paused. What the code does then (section 5)
is in the statements, through `lapsed`.

| Theorem | Statement |
|---|---|
| `TypeCorrect` | `[]TypeOK` |
| `CountIsExact` | `[]FramesCounted`: counter and surface agree in every state |
| `NotificationSuffices` | `[]NoFrameMissed`: notifying only when the count was zero is enough |
| `ThreadsAreJoined` | `[]ThreadsFollowStatus`: until a lapse, threads exist exactly while recording or paused |
| `NoCallTerminates` | `[]NeverTerminated`: a call ends the process only after a lapse |
| `NothingUsedAfterFree` | `[]SinkOutlivesThreads`: until a lapse, no source or muxer is destroyed under a thread |
| `OnlyDrainingLoses` | `BuffersLostOnlyByDraining`, whatever fails |

The invariant is `TypeOK /\ (~lapsed => InStep) /\ FramesCounted /\ WaitsForFrame`, where
`InStep` is `CallControl /\ ThreadControl /\ Equipped`. The counter and the queue agree
whatever lapses; for the rest `LapseEnds` says that only a new recorder, which has no
threads, ends a lapse. `CallControl` ties a call's place to the status it began in;
`ThreadControl` says for every place which threads exist, because a call that joins or starts
threads passes through places where one exists and the other does not; `Equipped` says that
the sources and the muxer exist from prepared to stopped; `WaitsForFrame` says that a
waiting thread sees no positive count, and with `FramesCounted` this gives `NoFrameMissed`.

For `OnlyDrainingLoses` the types and `AcquiredIsUsed` suffice: the pointer the two share
names a buffer only while the video thread is on its way from acquiring it to releasing it.

**Only model-checked.** All liveness properties (`EventuallyTaken`, `StopReturns`,
`CallsReturn`, `RewindCompletes`, the two `PlaybackCompletes`, `EverySentIsRead`,
`ReleaseReturns`, `EndIsReported`, `EveryFrameTaken`, `EveryMessageTaken`): TLAPS proves
nothing about fairness or ENABLED. No theorem rests on induction over data or on a
RECURSIVE operator; the modules have none.

## 5. Where the code and its documentation part

Two runs show a disagreement (`PROJECT.json`, findings):

1. `player_deadlock`: with pause-after-play, Stop joins the render thread under the mutex
   that thread waits for (`player.h:233` lets Stop return).
2. `audio_binder`: a listener set before the first SetSource is never told anything by the
   service (`player.h:358`, `player_server.cpp:585`).

The others were seen while modelling. Those marked † are in the models and were found or
confirmed by TLC; the rest are outside what the models tell apart.

**Player**

* A file that ends before Play has returned leaves the player "playing"
  (`player_impl.cpp:373` against 912; `player.h:215`).†
* A rewind sought while `paused_` is still true leaves the sinks paused although Play has
  returned 0 (`liteplayer.cpp:1895`; `player.h:206`).†
* A Rewind accepted just before the end of the file is sought and played on in
  `PLAYER_PLAYBACK_COMPLETE` (`player_impl.cpp:501`, 912).†
* Play of a player at another speed returns 0 and does nothing (`player_impl.cpp:353`),
  while `player.h:203` lets Play restore normal speed.†
* SetParameter before SetSource is never passed on to the engine (`player_impl.cpp:1241`).†
* With pause-after-play the first frame pauses the engine while the adapter says
  started, and Play then does nothing.†
* The refusal of a speed for a JPEG is recorded as that speed (`player_impl.cpp:720`).†
* A switch back to normal speed that fails is recorded as made (`player_impl.cpp:709`). The
  engine then refuses a Pause in fast play, whose answer is not looked at (`player_impl.cpp:418`):
  the player says paused and goes on.†
* A refused seek leaves `rewindPosition_` set; later rewinds succeed without being sought
  (`player_impl.cpp:471`).†
* Play that failed half-way and is retried makes a sink manager without a sink for the
  track that was already marked started (`liteplayer.cpp:864`): Play returns 0 and one
  track is not rendered.†
* The end of a looping file withdraws the answer owed for a rewind accepted a moment
  before (`player_impl.cpp:922`).†
* `DoInvoke` reads pause-after-play, a `bool` of the adapter, as four bytes
  (`liteplayer.cpp:2041`): `extraRewind_` and padding follow it, and what they hold can
  keep the engine's `pauseMode_` set when the application turns the mode off. The model
  allows both outcomes.†

**Pipeline**

* After Pause and Play a first sound that is later than the last picture waits for ever
  (`player_sync.cpp:401`): a sound track that outlasts the pictures never completes.†
  The files of the run end with both tracks.
* The end of the stream is pushed into a decoder once and its answer is ignored
  (`liteplayer.cpp:1336`): if the decoder was full, that track never ends (`EosFits`).†
* A badly interleaved file stalls: while the packet of a full decoder is cached no packet
  of the other track is read, and the full one may be waiting for the other's clock.†
* A failing `DequeInputBuffer` leaves a packet cached that was queued, and it is queued twice
  (`liteplayer.cpp:1251`).
* `eosSended_` of the video sink is set once and never reset.

**Streams**

* Stop ends the stream's thread even if the player refuses it (`player_server.cpp:414`):
  playback goes on and the demuxer is told that the stream is over
  (with `RefusedStops` TRUE `IsByteStream` is violated).†
* Reset neither stops nor joins the stream's thread, and Release frees the buffers before
  it joins: unless the stream was played out the thread may write through a pointer to freed
  memory. A second Release joins a thread that was joined (`wild` is where this happens).†
* A refused SetSource leaves `stream_` behind; the next Release joins a thread that does
  not exist.†

**Service and clients**

* `OnVideoSizeChanged` is sent as `ON_INFO` (`player_server.cpp:763`).
* GetAudioStreamType is written as a float and read as an integer
  (`player_server.cpp:700`, `player_client.cpp:193`).†
* SetLoop's refusal is written as a bool: the client returns 1, not -1
  (`player_server.cpp:481`).†
* SetSource and Release that are repeated after a lost answer are refused.†
* One player serves all processes; nobody notices a client's death; the client keeps the
  raw pointer of its listener after Release.
* A Prepare whose `GetFileInfo` failed returns an error and leaves the state PREPARED.†

**JS module**

* Calls of the script while a finished playback is being handled use a null or freed
  `player_`.† `status_` may say "play" although the playback has just ended.†
* Play signals `condition_` without `lock_`, so the signal can be lost, and
  `StopUpdateTimeThread` wakes nobody.†
* A Play between `CreatePlayer` and its `SetPlayerCallback` plays to an end that is not
  reported.†
* `SetMuted(false)` asks for `volume * 1000`, more than the player takes; mute and volume
  are not applied again to a re-created player, which refuses them when idle. Listeners are
  deleted while work for them is queued.

**Recorder**

* Stop notifies between the video thread's look at `started_` and its wait; without a
  further frame it joins for ever (`recorder_video_source.cpp:112`, 118, 158;
  `recorder.h:564`).†
* Pause, Stop, Start gives a recorder that records nothing (`recorder_impl.cpp:1329`, 1313,
  1220; `recorder.h:527`).†
* Start while paused assigns a thread over a running one: `std::terminate`
  (`recorder_impl.cpp:1221`; the constant `StartsPaused`).†
* Start that fails in the audio capturer and is retried, and Stop that fails in the
  capturer or the muxer and is retried, assign over a running thread or join one that was
  joined (`recorder_impl.cpp:1284`, 1154): the process ends. Reset or the destructor
  instead of the retry deletes the source, or the thread, while it runs. The faults are in
  the run; the properties except what follows them (`lapsed`).†
* A buffer the video thread has acquired is lost when the camera's callback drains a frame
  at the same time (`recorder_video_source.cpp:87`); `BuffersLostOnlyByDraining` says that
  this is the only way.†
* A data source stopped while it waits returns SUCCESS without a buffer
  (`recorder_data_source.cpp:103`).
* After the muxer went on to the next file `outputFd_` and `outputNextFd_` are the same
  descriptor, closed twice, and the message thread changes them beside `CloseFd`
  (`recorder_sink.cpp:237`).†
* Descriptors that are refused or replaced, or whose recorder is released without Prepare,
  are not closed; Pause closes them before Resume. `SetOutputFile` after Stop is accepted, but the muxer gets a
  file only in Prepare.†
* A descriptor that is open for writing only, which a file to record to may well be, is
  accepted (`recorder_impl.cpp:680`) and never closed: `fdopen(fd, "r")` refuses it, and
  `CloseFd` returns before it comes to the next file (`recorder_sink.cpp:380`).†
* A muxer whose start fails and is tried again leaves two message threads on one semaphore,
  of which the destructor cancels one; the other goes on with deleted memory
  (`recorder_sink.cpp:359`, 366; `retried`).†
* Without `Prompt` Pause and Resume in a row do the same, and a Stop may come before the
  thread has set `threadRunning`.† Messages left at Stop are handed on after the next Start, or
  lost when the semaphore is initialised again (`stale`).†
* A Prepare that failed half-way leaves its tracks in the muxer; the retry adds them twice
  (`half`).†
* `VIDEO_DEFAULT` is accepted by the setter and refused by Prepare; `AUDIO_DEFAULT` is the
  reverse. A setter for a video source, given an index that only an audio source has,
  dereferences a null `videoSource` (`recorder_impl.cpp:295`, 394).
* A second process is refused without being told, and a second `Recorder` in one process
  shares the first's; a client that died is never dropped (`recorder_service.cpp`).†

## 6. Plan

Done: every component of the two services that keeps state is modelled at least in the part
its hazards are in, and every safety property the runs check is proved. What is left, in
this order:

1. **An abstract player**: the application's view (state, position owed, answers) as a
   specification of a few actions, and `PlayerImpl` shown to implement it.
2. **An abstract playback** that `MediaPipeline` implements: the frames of a file come out one
   by one, and then the end.
3. Trick play through the pipeline; the data source.

## 7. Not modelled, and why

The demuxer, codec, muxer, capturer, display and surface are libraries; their answers are
the nondeterminism of the models. Volume, surfaces, progress, the recorder's limits, file
splitting and free-form parameters, and the getters of the script change nothing the
properties tell apart. The registration of the services and the layout of a request are I/O.
`hi_fsm.cpp` and the histreamer variant of the API are not used by this player. The data
source of the recorder is a second copy of the video source. The tests in `test/` exercise
the API on real media files.
