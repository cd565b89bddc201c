--------------------------- MODULE PlayerControl ---------------------------
(***************************************************************************)
(* The playback engine: liteplayer.cpp driven by the state machine of      *)
(* liteplayer_state_machine.cpp.                                           *)
(*                                                                         *)
(* An operator named Mut... is a plausible bug in the operator it precedes;*)
(* no specification uses it, it shows that a property can fail.            *)
(*                                                                         *)
(* Two threads run engine code.  "api" is the caller that the adapter      *)
(* (PlayerImpl) lets in one at a time; "sch" is the thread PlaySch created *)
(* by DoPlay, which reads, decodes and renders.  They share                *)
(*   handler    m_handlerMutex of the message looper: Send holds it while  *)
(*              a message is handled, transition included                  *)
(*   mutex      schMutex_: paused_, schThreadExit_ and one iteration       *)
(*   seek.tab   seekTabel_, which Seek writes without a lock.              *)
(*                                                                         *)
(* The two threads' operations are actions with a program counter; the     *)
(* adapter in PlayerImpl supplies the commands and the event callbacks.    *)
(* A media file is the frames 1..FileEnd; position p means that p frames   *)
(* have been rendered.                                                     *)
(***************************************************************************)
EXTENDS Integers, FiniteSets

CONSTANTS
  FileEnd,   \* frames in the file; positions are 0..FileEnd
  Tracks,    \* the selected tracks (audio, video), each with a decoder and a sink
  Rates,     \* playback speeds above normal
  Pictures,  \* whether a file may be (TRUE), may not be (FALSE) a JPEG picture
  Faults     \* the operations that may fail: "prepare", "start", "seek", "switch"

ASSUME EngineConstants ==
  /\ FileEnd \in Nat \ {0}
  /\ Tracks # {}
  /\ Rates \subseteq Nat \ {0, 1}
  /\ Pictures \subseteq BOOLEAN /\ Pictures # {}
  /\ Faults \subseteq {"prepare", "start", "seek", "switch"}

VARIABLES
  fsm,      \* current state of the PlayerControlStateMachine; "none": no engine
  handler,  \* the thread that holds m_handlerMutex, or Free
  mutex,    \* TRUE while "sch" holds schMutex_ from one action to the next
  cmd,      \* the message each thread is sending: [op, at, rate]
  sch,      \* program counter of the sch thread
  paused,   \* paused_
  exiting,  \* schThreadExit_
  sink,     \* the SinkManager: [on, held, shown, tracks, started]
  data,     \* the file: [jpeg, read, pos, eos, end]; a JPEG has no seek, no trick play
  seek,     \* seekTabel_ and DoSeekIfNeed: [tab, idx, cnt, said]
  rate,     \* tplayAttr_.speed
  pauseMode \* pauseMode_: pause after the first frame

engineVars == <<fsm, handler, mutex, cmd, sch, paused, exiting, sink, data,
                seek, rate, pauseMode>>

-----------------------------------------------------------------------------
Threads == {"api", "sch"}
Free    == "free"
NoPos   == -1          \* an empty slot of seekTabel_, INVALID_MEDIA_POSITION
Positions == 0 .. FileEnd
States  == {"idle", "init", "prepare", "play", "tplay", "pause"}
Ops     == {"play", "pause", "tplay", "stop"}
NoCmd   == [op |-> "none", at |-> "none", rate |-> 1]

\* LITEPLAY_STATE: the states in which a message is valid.
ValidIn == [play  |-> {"prepare", "play", "tplay", "pause"},
            pause |-> {"play", "pause"},
            tplay |-> {"play", "tplay"},
            stop  |-> States,
            seek  |-> {"prepare", "play", "tplay", "pause"}]

\* The transitions that CreateStates/Init add, for the messages modelled here.
\* PLAYERCONTROL_MSG_ERROR is never handled successfully, so "error" is
\* unreachable.
Transitions ==
  [play  |-> [s \in {"prepare", "tplay", "pause"} |-> "play"],
   pause |-> [s \in {"play"} |-> "pause"],
   tplay |-> [s \in {"play"} |-> "tplay"],
   stop  |-> [s \in States \ {"idle"} |-> "idle"]]

After(op) == IF fsm \in DOMAIN Transitions[op] THEN Transitions[op][fsm] ELSE fsm

Least(a, b) == IF a < b THEN a ELSE b

NoSink == [on |-> "none", held |-> FALSE, shown |-> FALSE, tracks |-> {}, started |-> {}]
NoData == [jpeg |-> FALSE, read |-> 0, pos |-> 0, eos |-> FALSE, end |-> FALSE]
NoSeek == [tab |-> <<NoPos, NoPos>>, idx |-> 1, cnt |-> 0, said |-> NoPos]

\* No PlayerControl object exists: the adapter's player_ is nullptr.
EngineNone ==
  /\ fsm = "none" /\ handler = Free /\ mutex = FALSE
  /\ cmd = [t \in Threads |-> NoCmd]
  /\ sch = "none" /\ paused = FALSE /\ exiting = FALSE
  /\ sink = NoSink /\ data = NoData /\ seek = NoSeek
  /\ rate = 1 /\ pauseMode = FALSE

\* Deinit and the destructor: the object and everything it owned are gone.
Deinit ==
  /\ fsm' = "none" /\ handler' = Free /\ mutex' = FALSE
  /\ cmd' = [t \in Threads |-> NoCmd]
  /\ sch' = "none" /\ paused' = FALSE /\ exiting' = FALSE
  /\ sink' = NoSink /\ data' = NoData /\ seek' = NoSeek
  /\ rate' = 1 /\ pauseMode' = FALSE

\* SetDataSource leaves idle as soon as the engine exists.
SetDataSource == fsm' = "init"

\* The new PlayerSource has parsed the file.
SyncPrepare == \E jpeg \in Pictures : data' = [data EXCEPT !.jpeg = jpeg]

DoPrepare == fsm' = "prepare" /\ SyncPrepare

\* INVOKE_ENABLE_PAUSE_AFTER_PLAYER; without an engine nobody hears it.  The flag is a
\* bool that DoInvoke reads as four bytes: what lies behind it may make FALSE look TRUE.
EnablePauseAfterPlay(enable) ==
  IF fsm \in {"idle", "init"} THEN pauseMode' \in {enable, TRUE} ELSE UNCHANGED pauseMode

-----------------------------------------------------------------------------
(* Sending a message: MessageLooper::Send handles it on the caller's thread *)

At(t, op, pc)  == cmd[t].op = op /\ cmd[t].at = pc
Goto(t, pc)    == cmd' = [cmd EXCEPT ![t].at = pc]
Send(t, op, r) == cmd' = [cmd EXCEPT ![t] = [op |-> op, at |-> "send", rate |-> r]]

\* HandleMessage reports the result and the handler mutex is released; only a
\* message that succeeded makes the transition.
MutAnswerAlwaysMoves(t, ok) ==
  /\ handler' = Free
  /\ Goto(t, IF ok THEN "ok" ELSE "failed")
  /\ fsm' = After(cmd[t].op)
Answer(t, ok) ==
  /\ handler' = Free
  /\ Goto(t, IF ok THEN "ok" ELSE "failed")
  /\ fsm' = IF ok THEN After(cmd[t].op) ELSE fsm

Enter(t) ==
  /\ cmd[t].at = "send"
  /\ handler = Free
  /\ IF fsm \in ValidIn[cmd[t].op]
     THEN handler' = t /\ Goto(t, "body")
     ELSE handler' = handler /\ Goto(t, "failed")
  /\ UNCHANGED <<fsm, mutex, sch, paused, exiting, sink, data, seek, rate, pauseMode>>

\* CHECK_STATE_SAME of DoPlay, DoPause and DoStop, and IsRepeatTplayReq: the
\* engine is already there and nothing is done.
SameState(t) ==
  CASE cmd[t].op = "play"  -> fsm = "play"
    [] cmd[t].op = "pause" -> fsm = "pause"
    [] cmd[t].op = "stop"  -> fsm = "idle"
    [] OTHER               -> fsm = "tplay" /\ cmd[t].rate = rate

AlreadyThere(t) ==
  /\ cmd[t].at = "body"
  /\ SameState(t) /\ ~(cmd[t].op = "tplay" /\ data.jpeg)
  /\ Answer(t, TRUE)
  /\ UNCHANGED <<mutex, sch, paused, exiting, sink, data, seek, rate, pauseMode>>

-----------------------------------------------------------------------------
(* DoPlay *)

\* SinkStart makes a new SinkManager with the sinks of the tracks got, which are
\* marked started.
SinkStart(got) ==
  [on |-> "running", held |-> pauseMode, shown |-> FALSE,
   tracks |-> got, started |-> sink.started \cup got]

\* Decoders, sinks and source are started before the thread exists.  Sinks are added
\* for the tracks that are not yet marked started.
StartMedia(t) ==
  /\ At(t, "play", "body")
  /\ fsm = "prepare"
  /\ sink' = SinkStart(Tracks \ sink.started)
  /\ paused' = TRUE
  /\ sch' = "top"
  /\ Goto(t, "unpause")
  /\ UNCHANGED <<fsm, handler, mutex, exiting, data, seek, rate, pauseMode>>

\* The media are not supported, or a decoder does not start.
DecoderFails(t) ==
  /\ "start" \in Faults
  /\ At(t, "play", "body")
  /\ fsm = "prepare"
  /\ Answer(t, FALSE)
  /\ UNCHANGED <<mutex, sch, paused, exiting, sink, data, seek, rate, pauseMode>>

\* What was done is left: the sinks added so far, all of them when the source or the
\* thread fails, and paused_ when the thread fails.
SinkFails(t) ==
  /\ "start" \in Faults
  /\ At(t, "play", "body")
  /\ fsm = "prepare"
  /\ \E got \in SUBSET (Tracks \ sink.started) :
       /\ sink' = SinkStart(got)
       /\ \/ UNCHANGED paused
          \/ got = Tracks \ sink.started /\ paused' = TRUE
  /\ Answer(t, FALSE)
  /\ UNCHANGED <<mutex, sch, exiting, data, seek, rate, pauseMode>>

\* The last lines of DoPlay from prepare and of PauseResume: paused_ = false
\* under schMutex_, and the signal.
MutUnpauseForgotten(t) ==
  /\ At(t, "play", "unpause")
  /\ ~mutex
  /\ Answer(t, TRUE)
  /\ UNCHANGED <<mutex, sch, paused, exiting, sink, data, seek, rate, pauseMode>>
Unpause(t) ==
  /\ At(t, "play", "unpause")
  /\ ~mutex
  /\ paused' = FALSE
  /\ Answer(t, TRUE)
  /\ UNCHANGED <<mutex, sch, exiting, sink, data, seek, rate, pauseMode>>

\* PauseResume: the sinks are resumed before schMutex_ is taken.
ResumeSinks(t) ==
  /\ At(t, "play", "body")
  /\ fsm = "pause"
  /\ sink' = IF sink.on = "paused" THEN [sink EXCEPT !.on = "running", !.held = FALSE]
                                   ELSE sink
  /\ Goto(t, "unpause")
  /\ UNCHANGED <<fsm, handler, mutex, sch, paused, exiting, data, seek, rate, pauseMode>>

\* OnSwitchTPlay2Play.  Unless the fast mode played every frame (full) the source
\* goes back to the position shown and the end-of-stream marks are cleared; the
\* source may refuse that.
SwitchToPlay(t) ==
  /\ At(t, "play", "body")
  /\ fsm = "tplay"
  /\ ~mutex
  /\ \/ \E full \in BOOLEAN :
          /\ data' = IF full THEN data ELSE [data EXCEPT !.read = data.pos, !.eos = FALSE]
          /\ sink' = [sink EXCEPT !.on = "running", !.held = FALSE]
          /\ Answer(t, TRUE)
     \/ /\ "switch" \in Faults
        /\ Answer(t, FALSE)
        /\ UNCHANGED <<data, sink>>
  /\ UNCHANGED <<mutex, sch, paused, exiting, seek, rate, pauseMode>>

(* DoPause: paused_ under schMutex_, then the sinks without it *)

SetPaused(t) ==
  /\ At(t, "pause", "body")
  /\ fsm = "play"
  /\ ~mutex
  /\ paused' = TRUE
  /\ Goto(t, "sinks")
  /\ UNCHANGED <<fsm, handler, mutex, sch, exiting, sink, data, seek, rate, pauseMode>>

PauseSinks(t) ==
  /\ At(t, "pause", "sinks")
  /\ sink' = [sink EXCEPT !.on = "paused"]
  /\ Answer(t, TRUE)
  /\ UNCHANGED <<mutex, sch, paused, exiting, data, seek, rate, pauseMode>>

(* DoTPlay *)

\* A picture is refused; otherwise decoders and sinks are flushed, the sinks run
\* at the new speed and the end-of-stream marks are cleared.
DoTPlay(t) ==
  /\ At(t, "tplay", "body")
  /\ data.jpeg \/ ~SameState(t)
  /\ IF data.jpeg
     THEN Answer(t, FALSE) /\ UNCHANGED <<data, sink, rate>>
     ELSE /\ ~mutex
          /\ \E p \in {data.pos, Least(data.read, FileEnd)} :
               data' = [data EXCEPT !.read = p, !.pos = p, !.eos = FALSE]
          /\ sink' = [sink EXCEPT !.on = "running", !.held = FALSE]
          /\ rate' = cmd[t].rate
          /\ Answer(t, TRUE)
  /\ UNCHANGED <<mutex, sch, paused, exiting, seek, pauseMode>>

(* DoStop *)

MutSignalExitOnlyWhenPaused(t) ==
  /\ At(t, "stop", "body")
  /\ fsm # "idle"
  /\ IF sch = "none"
     THEN UNCHANGED exiting
     ELSE ~mutex /\ exiting' = paused
  /\ Goto(t, "join")
  /\ UNCHANGED <<fsm, handler, mutex, sch, paused, sink, data, seek, rate, pauseMode>>
SignalExit(t) ==
  /\ At(t, "stop", "body")
  /\ fsm # "idle"
  /\ IF sch = "none"
     THEN UNCHANGED exiting
     ELSE ~mutex /\ exiting' = TRUE
  /\ Goto(t, "join")
  /\ UNCHANGED <<fsm, handler, mutex, sch, paused, sink, data, seek, rate, pauseMode>>

StopSinkAndDecoder == sink' = NoSink

\* After pthread_join.  DoStop leaves seekTabel_, paused_ and schThreadExit_ as they are.
TearDown(t) ==
  /\ At(t, "stop", "join")
  /\ sch \in {"none", "exited"}
  /\ StopSinkAndDecoder
  /\ data' = NoData
  /\ Answer(t, TRUE)
  /\ UNCHANGED <<mutex, sch, paused, exiting, seek, rate, pauseMode>>

Handle(t) ==
  \/ Enter(t) \/ AlreadyThere(t)
  \/ StartMedia(t) \/ DecoderFails(t) \/ SinkFails(t)
  \/ Unpause(t) \/ ResumeSinks(t) \/ SwitchToPlay(t)
  \/ SetPaused(t) \/ PauseSinks(t) \/ DoTPlay(t)
  \/ SignalExit(t) \/ TearDown(t)

-----------------------------------------------------------------------------
(* Seek: called on either thread, takes no lock *)

Slots == 1 .. 2
Pending == {i \in Slots : seek.tab[i] # NoPos}

\* Both slots taken: Seek returns success and the request is gone.
WithSeek(p) ==
  IF seek.tab[1] = NoPos THEN [seek EXCEPT !.tab[1] = p]
  ELSE IF seek.tab[2] = NoPos THEN [seek EXCEPT !.tab[2] = p]
  ELSE seek

-----------------------------------------------------------------------------
(* DataSchProcess *)

\* ReadPacketAndPushToDecoder: reading needs a playing state.
CanRead == fsm \in {"play", "tplay"}

\* A fast read seeks on by curSeekOffset_ first, to some later frame or to the end.
FastReads == data.read .. FileEnd + 1

\* A read gets the next frame or the end packet, or nothing: the source has no data, the
\* decoder is full.
Reads ==
  IF ~CanRead THEN {data.read}
  ELSE IF fsm = "tplay" THEN FastReads
  ELSE data.read .. Least(data.read + 1, FileEnd + 1)

\* Rendering needs running sinks, and sinks that hold after the first frame
\* (RENDER_MODE_PAUSE_AFTER_PLAY) render nothing more.
CanRender == sink.on = "running" /\ ~(sink.held /\ sink.shown)

\* The position shown after a pass that has read up to r: decoder and sink hold frames
\* back, and show the frames that were read, one at a time or those a fast read chose.
Renders(r) ==
  {p \in data.pos .. Least(r, FileEnd) :
     p = data.pos \/ (CanRender /\ (fsm = "tplay" \/ p = data.pos + 1))}

\* hasRender*Eos_ and isPlayEnd_: the last frame and the end packet are through.
EndRendered ==
  ~data.eos /\ sink.on = "running" /\ ~sink.held /\ data.read > FileEnd /\ data.pos = FileEnd

\* EVNET_FIRST_VIDEO_REND: the first frame of a file played in pause mode.
FirstFrame == pauseMode /\ ~sink.shown /\ data'.pos > data.pos

\* One pass of reading and rendering under schMutex_.
Render ==
  /\ \E r \in Reads, end \in BOOLEAN :
       \E p \in Renders(r) :
         /\ end => EndRendered
         /\ data' = [data EXCEPT !.read = r, !.pos = p, !.eos = @ \/ end, !.end = end]
  /\ mutex' = FALSE
  /\ sink' = [sink EXCEPT !.shown = @ \/ FirstFrame]
  /\ sch' = CASE FirstFrame -> "event"
              [] data'.end  -> "eof"
              [] OTHER      -> "top"

\* The exit flag is looked at first; without a seek to do and without paused_ the
\* whole iteration is one step, because it happens under schMutex_.  A paused
\* iteration only waits on schCond_ and comes back.
SchExit ==
  /\ sch = "top" /\ exiting
  /\ sch' = "exited"
  /\ UNCHANGED <<fsm, handler, mutex, cmd, paused, exiting, sink, data, seek, rate, pauseMode>>

SchRender ==
  /\ sch = "top" /\ ~exiting /\ Pending = {} /\ ~paused
  /\ Render
  /\ UNCHANGED <<fsm, handler, cmd, paused, exiting, seek, rate, pauseMode>>

\* DoSeekIfNeed, first slot first; an empty first slot is skipped.
SchSeekBegin ==
  /\ sch = "top" /\ ~exiting /\ Pending # {}
  /\ mutex' = TRUE
  /\ seek' = [seek EXCEPT !.idx = 1, !.cnt = 0]
  /\ sch' = IF seek.tab[1] # NoPos THEN "seek" ELSE "clear"
  /\ UNCHANGED <<fsm, handler, cmd, paused, exiting, sink, data, rate, pauseMode>>

\* The sinks are paused and emptied, and resumed only if paused_ is FALSE.
DecoderAndSinkReset ==
  IF paused THEN [sink EXCEPT !.on = "paused"]
            ELSE [sink EXCEPT !.on = "running", !.held = FALSE]

\* AyncSeek.  When the source refuses, the position reported is the one shown.
SchSeek ==
  /\ sch = "seek"
  /\ sink' = DecoderAndSinkReset
  /\ LET to == seek.tab[seek.idx]
         on == Least(data.read, FileEnd)
     IN \/ /\ data' = [data EXCEPT !.read = to, !.pos = to]
           /\ seek' = [seek EXCEPT !.cnt = @ + 1, !.said = to]
        \/ /\ "seek" \in Faults
           /\ data' = [data EXCEPT !.read = on, !.pos = on]
           /\ seek' = [seek EXCEPT !.cnt = @ + 1, !.said = data.pos]
  /\ sch' = "sought"
  /\ UNCHANGED <<fsm, handler, mutex, cmd, paused, exiting, rate, pauseMode>>

\* The slot is emptied; the loop goes on while a slot is taken and fewer than two
\* seeks were done.
MutSchClearBoth ==
  /\ sch = "clear"
  /\ seek' = [seek EXCEPT !.tab = <<NoPos, NoPos>>, !.said = NoPos]
  /\ sch' = "sought all"
  /\ UNCHANGED <<fsm, handler, mutex, cmd, paused, exiting, sink, data, rate, pauseMode>>
SchClear ==
  /\ sch = "clear"
  /\ LET tab  == [seek.tab EXCEPT ![seek.idx] = NoPos]
         next == 3 - seek.idx
     IN IF tab[next] = NoPos \/ seek.cnt >= 2
        THEN seek' = [seek EXCEPT !.tab = tab, !.said = NoPos] /\ sch' = "sought all"
        ELSE /\ seek' = [seek EXCEPT !.tab = tab, !.idx = next, !.said = NoPos]
             /\ sch' = "seek"
  /\ UNCHANGED <<fsm, handler, mutex, cmd, paused, exiting, sink, data, rate, pauseMode>>

\* The marks are cleared and the iteration goes on where SchRender does.
SchSeekEnd ==
  /\ sch = "sought all"
  /\ data' = [data EXCEPT !.read = Least(@, FileEnd), !.eos = FALSE, !.end = FALSE]
  /\ sch' = IF paused THEN "top" ELSE "render"
  /\ mutex' = ~paused
  /\ UNCHANGED <<fsm, handler, cmd, paused, exiting, sink, seek, rate, pauseMode>>

SchRenderAfterSeek ==
  /\ sch = "render"
  /\ Render
  /\ UNCHANGED <<fsm, handler, cmd, paused, exiting, seek, rate, pauseMode>>

SchStep ==
  \/ SchExit \/ SchRender \/ SchSeekBegin \/ SchSeek \/ SchClear
  \/ SchSeekEnd \/ SchRenderAfterSeek
=============================================================================
