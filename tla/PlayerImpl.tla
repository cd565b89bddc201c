----------------------------- MODULE PlayerImpl -----------------------------
(***************************************************************************)
(* The player adapter (player_impl.cpp) on top of the engine it owns.      *)
(*                                                                         *)
(* Every API function takes lock_ first, so calls run one at a time: they  *)
(* are the operations of the one thread "api", from the call to the return *)
(* of lock_.  What runs beside them is the engine's sch thread, which      *)
(* calls back into the adapter without lock_: PlayerControlEventCb with    *)
(* its NotifyPlaybackComplete and NotifySeekComplete.  rewindLock_ is held *)
(* only inside single actions here.                                        *)
(***************************************************************************)
EXTENDS PlayerControl

CONSTANTS
  Targets,        \* positions the application rewinds to
  Looping,        \* the application may turn loop playback on
  PauseAfterPlay  \* the application may turn pause-after-play on

ASSUME AdapterConstants ==
  /\ Targets \subseteq 0 .. FileEnd
  /\ Looping \in BOOLEAN /\ PauseAfterPlay \in BOOLEAN

VARIABLES
  st,         \* currentState_; "released": PLAYER_STATE_ERROR with released_
  speed,      \* speed_
  loop,       \* isSingleLoop_
  pauseAfter, \* pauseAfterPlay_
  rewindPos,  \* rewindPosition_
  extra,      \* extraRewind_
  app,        \* the API call in progress: [op, arg]
  hist        \* what the application was told: [wanted, answered, owed]

adapterVars == <<st, speed, loop, pauseAfter, rewindPos, extra, app, hist>>
vars == <<engineVars, adapterVars>>

-----------------------------------------------------------------------------
NoCall == [op |-> "none", arg |-> 0]
NoHist == [wanted |-> NoPos, answered |-> NoPos, owed |-> FALSE]
ApiIdle == app.op = "none"
SchQuiet == sch \in {"none", "exited"}

\* The fields ResetInner and the constructor give their initial values; st apart.
Fresh ==
  /\ speed' = 1 /\ loop' = FALSE /\ pauseAfter' = FALSE
  /\ rewindPos' = NoPos /\ extra' = FALSE
  /\ app' = NoCall /\ hist' = NoHist

Init ==
  /\ EngineNone
  /\ st = "idle" /\ speed = 1 /\ loop = FALSE /\ pauseAfter = FALSE
  /\ rewindPos = NoPos /\ extra = FALSE
  /\ app = NoCall /\ hist = NoHist

\* A call that has passed its guards and sends op to the engine.
Call(name, arg, op, r) ==
  /\ app' = [op |-> name, arg |-> arg]
  /\ Send("api", op, r)
  /\ UNCHANGED <<fsm, handler, mutex, sch, paused, exiting, sink, data, seek, rate,
                 pauseMode>>

Answered  == cmd["api"].at \in {"ok", "failed"}
Succeeded == cmd["api"].at = "ok"

\* The call returns; the engine is left alone.
Back(name) ==
  /\ app.op = name /\ Answered
  /\ app' = NoCall
  /\ cmd' = [cmd EXCEPT !["api"] = NoCmd]
  /\ UNCHANGED <<fsm, handler, mutex, sch, paused, exiting, sink, data, seek, rate,
                 pauseMode>>

-----------------------------------------------------------------------------
(* Calls that find no sch thread and touch nothing it uses *)

SetSource ==
  /\ ApiIdle /\ st = "idle"
  /\ \/ /\ st' = "initialized" /\ SetDataSource
        /\ UNCHANGED <<speed, loop, pauseAfter, rewindPos, extra, app, hist>>
     \/ /\ "prepare" \in Faults        \* ResetInner
        /\ st' = "idle" /\ fsm' = "none"
        /\ Fresh
  /\ UNCHANGED <<handler, mutex, cmd, sch, paused, exiting, sink, data, seek, rate,
                 pauseMode>>

\* A failed Prepare puts currentState_ back to initialized.
Prepare ==
  /\ ApiIdle /\ st = "initialized"
  /\ st' = "prepared" /\ DoPrepare
  /\ UNCHANGED <<speed, loop, pauseAfter, rewindPos, extra, app, hist, handler, mutex,
                 cmd, sch, paused, exiting, sink, seek, rate, pauseMode>>

\* The engine hears of pause-after-play only if it exists already.
SetParameter ==
  /\ PauseAfterPlay
  /\ ApiIdle /\ st \in {"idle", "initialized"}
  /\ pauseAfter' = ~pauseAfter
  /\ EnablePauseAfterPlay(pauseAfter')
  /\ UNCHANGED <<st, speed, loop, rewindPos, extra, app, hist, fsm, handler, mutex,
                 cmd, sch, paused, exiting, sink, data, seek, rate>>

SetLoop ==
  /\ Looping
  /\ ApiIdle /\ st \notin {"stopped", "complete", "idle", "released"}
  /\ loop' = ~loop
  /\ UNCHANGED <<st, speed, pauseAfter, rewindPos, extra, app, hist, engineVars>>

\* A released player only refuses; the application makes another one.
NewPlayer ==
  /\ ApiIdle /\ st = "released"
  /\ st' = "idle" /\ Fresh
  /\ UNCHANGED engineVars

-----------------------------------------------------------------------------
(* Calls that send a message to the engine *)

Play ==
  /\ ApiIdle /\ st \in {"prepared", "paused"}
  /\ Call("play", 0, "play", 1)
  /\ UNCHANGED <<st, speed, loop, pauseAfter, rewindPos, extra, hist>>

PlayReturns ==
  /\ Back("play")
  /\ st' = IF Succeeded THEN "started" ELSE st
  /\ UNCHANGED <<speed, loop, pauseAfter, rewindPos, extra, hist>>

\* Play while started returns 0 at once, at whatever speed.
PlayAgain ==
  /\ ApiIdle /\ st = "started"
  /\ app' = [op |-> "again", arg |-> 0]
  /\ UNCHANGED <<st, speed, loop, pauseAfter, rewindPos, extra, hist, engineVars>>

PlayAgainReturns ==
  /\ app.op = "again"
  /\ app' = NoCall
  /\ UNCHANGED <<st, speed, loop, pauseAfter, rewindPos, extra, hist, engineVars>>

MutPauseAtAnySpeed ==
  /\ ApiIdle /\ st = "started"
  /\ Call("pause", 0, "pause", 1)
  /\ UNCHANGED <<st, speed, loop, pauseAfter, rewindPos, extra, hist>>
Pause ==
  /\ ApiIdle /\ st = "started" /\ speed = 1
  /\ Call("pause", 0, "pause", 1)
  /\ UNCHANGED <<st, speed, loop, pauseAfter, rewindPos, extra, hist>>

\* The engine's result is not looked at.
PauseReturns ==
  /\ Back("pause")
  /\ st' = "paused"
  /\ UNCHANGED <<speed, loop, pauseAfter, rewindPos, extra, hist>>

\* Pause of a prepared player with pause-after-play: play up to the first frame.
PauseFromPrepared ==
  /\ ApiIdle /\ pauseAfter /\ st = "prepared"
  /\ Call("first", 0, "play", 1)
  /\ UNCHANGED <<st, speed, loop, pauseAfter, rewindPos, extra, hist>>

PauseFromPreparedReturns ==
  /\ Back("first")
  /\ st' = IF Succeeded THEN "paused" ELSE st
  /\ UNCHANGED <<speed, loop, pauseAfter, rewindPos, extra, hist>>

Stop ==
  /\ ApiIdle /\ st \in {"started", "paused", "complete"}
  /\ Call("stop", 0, "stop", 1)
  /\ UNCHANGED <<st, speed, loop, pauseAfter, rewindPos, extra, hist>>

StopReturns ==
  /\ Back("stop")
  /\ st' = "stopped"
  /\ UNCHANGED <<speed, loop, pauseAfter, rewindPos, extra, hist>>

SetPlaybackSpeed(r) ==
  /\ ApiIdle /\ st = "started" /\ r # speed
  /\ Call("speed", r, IF r = 1 THEN "play" ELSE "tplay", r)
  /\ UNCHANGED <<st, speed, loop, pauseAfter, rewindPos, extra, hist>>

\* CHECK_FAILED_PRINT: a failure of the engine is logged and the speed recorded.
SetPlaybackSpeedReturns ==
  /\ Back("speed")
  /\ speed' = app.arg
  /\ UNCHANGED <<st, loop, pauseAfter, rewindPos, extra, hist>>

\* Reset and Release run ResetInner, which stops the engine unless Stop did.
ResetInner(name) ==
  /\ ApiIdle /\ st # "released"
  /\ name = "reset" => st # "idle"
  /\ loop' = FALSE
  /\ IF st \in {"idle", "stopped"}
     THEN app' = [op |-> name, arg |-> 0] /\ UNCHANGED engineVars
     ELSE Call(name, 0, "stop", 1)
  /\ UNCHANGED <<st, speed, pauseAfter, rewindPos, extra, hist>>

\* Deinit destroys the engine, whatever Stop answered.
ResetReturns(name, to) ==
  /\ app.op = name
  /\ cmd["api"] = NoCmd \/ Answered
  /\ Deinit
  /\ st' = to /\ Fresh

-----------------------------------------------------------------------------
(* Rewind *)

\* RewindInner while another rewind is under way only replaces the position; the
\* engine is asked once the position is free.
RewindAccepted(p) ==
  /\ rewindPos' = p
  /\ IF rewindPos # NoPos THEN UNCHANGED seek
     ELSE ~data.jpeg /\ fsm \in ValidIn.seek /\ seek' = WithSeek(p)

\* Seek refused: rewindPosition_ stays set.
RewindRefused(p) ==
  /\ rewindPos' = p
  /\ rewindPos = NoPos /\ (data.jpeg \/ fsm \notin ValidIn.seek)
  /\ UNCHANGED seek

\* The state is checked first; the end of the file may be reported before the
\* position is set.
Rewind(p) ==
  /\ ApiIdle /\ st \in {"started", "paused", "prepared"} /\ speed = 1
  /\ app' = [op |-> "rewind", arg |-> p]
  /\ UNCHANGED <<st, speed, loop, pauseAfter, rewindPos, extra, hist, engineVars>>

RewindReturns ==
  /\ app.op = "rewind"
  /\ app' = NoCall
  /\ \/ /\ RewindAccepted(app.arg)
        /\ extra' = TRUE
        /\ hist' = [hist EXCEPT !.wanted = app.arg, !.owed = TRUE]
     \/ /\ RewindRefused(app.arg)
        /\ UNCHANGED <<extra, hist>>
  /\ UNCHANGED <<st, speed, loop, pauseAfter, fsm, handler, mutex, cmd, sch, paused,
                 exiting, sink, data, rate, pauseMode>>

-----------------------------------------------------------------------------
(* PlayerControlEventCb, on the sch thread *)

\* PLAYERCONTROL_FIRST_VIDEO_FRAME: the engine is paused from its own thread.
FirstFrameEvent ==
  /\ sch = "event"
  /\ IF pauseAfter THEN Send("sch", "pause", 1) /\ sch' = "await"
                   ELSE UNCHANGED cmd /\ sch' = "top"
  /\ UNCHANGED <<adapterVars, fsm, handler, mutex, paused, exiting, sink, data, seek, rate,
                 pauseMode>>

FirstFrameHandled ==
  /\ sch = "await" /\ cmd["sch"].at \in {"ok", "failed"}
  /\ cmd' = [cmd EXCEPT !["sch"] = NoCmd]
  /\ sch' = "top"
  /\ UNCHANGED <<adapterVars, fsm, handler, mutex, paused, exiting, sink, data, seek, rate,
                 pauseMode>>

\* NotifyPlaybackComplete, without lock_; looping starts over instead.
NotifyPlaybackComplete ==
  /\ sch = "eof"
  /\ data' = [data EXCEPT !.end = FALSE]
  /\ sch' = "top"
  /\ IF loop
     THEN /\ \/ RewindAccepted(0) /\ hist' = [hist EXCEPT !.wanted = 0]
             \/ RewindRefused(0) /\ UNCHANGED hist
          /\ extra' = FALSE
          /\ UNCHANGED st
     ELSE /\ st' = "complete"
          /\ UNCHANGED <<rewindPos, extra, hist, seek>>
  /\ UNCHANGED <<speed, loop, pauseAfter, app, fsm, handler, mutex, cmd, paused, exiting,
                 sink, rate, pauseMode>>

\* NotifySeekComplete: a position set meanwhile is sought next; otherwise the
\* application is told, if it asked.
MutNotifySeekForgetsNewer ==
  /\ sch = "sought"
  /\ sch' = "clear"
  /\ rewindPos' = NoPos /\ extra' = FALSE
  /\ hist' = [hist EXCEPT !.answered = seek.said, !.owed = @ /\ ~extra]
  /\ UNCHANGED <<seek, st, speed, loop, pauseAfter, app, fsm, handler, mutex, cmd, paused,
                 exiting, sink, data, rate, pauseMode>>
MutNotifySeekAlwaysAgain ==
  /\ sch = "sought"
  /\ sch' = "clear"
  /\ seek' = IF rewindPos # NoPos THEN WithSeek(rewindPos) ELSE seek
  /\ hist' = [hist EXCEPT !.answered = seek.said]
  /\ UNCHANGED <<rewindPos, extra, st, speed, loop, pauseAfter, app, fsm, handler, mutex, cmd,
                 paused, exiting, sink, data, rate, pauseMode>>
NotifySeekComplete ==
  /\ sch = "sought"
  /\ sch' = "clear"
  /\ IF rewindPos # NoPos /\ rewindPos # seek.said
     THEN /\ seek' = WithSeek(rewindPos)
          /\ hist' = [hist EXCEPT !.answered = seek.said]
          /\ UNCHANGED <<rewindPos, extra>>
     ELSE /\ rewindPos' = NoPos /\ extra' = FALSE
          /\ hist' = [hist EXCEPT !.answered = seek.said, !.owed = @ /\ ~extra]
          /\ UNCHANGED seek
  /\ UNCHANGED <<st, speed, loop, pauseAfter, app, fsm, handler, mutex, cmd, paused,
                 exiting, sink, data, rate, pauseMode>>

-----------------------------------------------------------------------------
Calls ==
  \/ SetSource \/ Prepare \/ SetParameter \/ SetLoop \/ NewPlayer
  \/ Play \/ PlayAgain \/ Pause \/ PauseFromPrepared \/ Stop
  \/ \E r \in Rates \cup {1} : SetPlaybackSpeed(r)
  \/ \E p \in Targets : Rewind(p)
  \/ ResetInner("reset") \/ ResetInner("release")

Returns ==
  \/ PlayReturns \/ PlayAgainReturns \/ PauseReturns \/ PauseFromPreparedReturns
  \/ StopReturns
  \/ SetPlaybackSpeedReturns \/ RewindReturns
  \/ ResetReturns("reset", "idle") \/ ResetReturns("release", "released")

Engine(t) == Handle(t) /\ UNCHANGED adapterVars

Callbacks ==
  \/ FirstFrameEvent \/ FirstFrameHandled \/ NotifyPlaybackComplete \/ NotifySeekComplete

Sch == (SchStep /\ UNCHANGED adapterVars) \/ Callbacks

Next == Calls \/ Returns \/ Engine("api") \/ Engine("sch") \/ Sch

Spec == Init /\ [][Next]_vars

\* Threads run, and the two mutexes are fair: a thread that finds one free again
\* and again gets it.  Nothing forces the application to make a call.
FairSpec ==
  /\ Spec
  /\ WF_vars(Returns) /\ WF_vars(Sch)
  /\ SF_vars(Engine("api")) /\ SF_vars(Engine("sch"))

-----------------------------------------------------------------------------
(* Properties *)

\* DoSeekIfNeed empties a slot only after it has been sought; the slot it skips as
\* empty is still empty when it writes -1 to it.
NoSeekLost ==
  [][\A i \in Slots :
       seek.tab[i] # NoPos /\ seek'.tab[i] = NoPos =>
         fsm' = "none" \/ (sch = "clear" /\ i = seek.idx /\ seek.cnt > 0)]_vars

\* Rewinds that meet are merged, and the newest wins: once no rewind is under way,
\* the last position reported is the last position asked for.
LastRewindWins ==
  rewindPos = NoPos /\ hist.wanted # NoPos => hist.answered = hist.wanted

\* Between calls the state the application sees is the state the engine is in.
StatesAgree ==
  ApiIdle =>
    /\ st \in {"idle", "released"} => fsm = "none"
    /\ st = "initialized" => fsm = "init"
    /\ st = "prepared"    => fsm = "prepare"
    /\ st = "started"     => fsm \in {"play", "tplay"}
    /\ st = "paused"      => fsm = "pause" /\ paused
    /\ st = "stopped"     => fsm = "idle"
    /\ st = "complete"    => fsm \in {"play", "tplay", "pause"}

\* After Pause has returned nothing is rendered until the application resumes; only
\* a rewind moves the position.
PauseHolds ==
  [][st = "paused" /\ ApiIdle /\ app'.op = "none" => data'.pos = data.pos \/ sch = "seek"]_vars

\* Every call returns, the ones that wait for the handler mutex, schMutex_ and the
\* end of the sch thread included.
CallsReturn == app.op # "none" ~> ApiIdle

\* A rewind accepted while playing is reported complete, unless playing stops or the
\* application rewinds again: merged rewinds may chase each other for ever.
RewindCompletes ==
  (hist.owed /\ st = "started") ~> (~hist.owed \/ st # "started" \/ app.op = "rewind")

\* Playback with running sinks comes to its end and the application is told, unless it
\* makes a call that acts on the engine.
PlaybackCompletes ==
  (st = "started" /\ ApiIdle /\ sink.on = "running" /\ ~data.eos)
    ~> (st = "complete" \/ app.op \notin {"none", "again"})
=============================================================================
