---------------------------- MODULE AudioPlayer ----------------------------
(***************************************************************************)
(* The audio module of JavaScript applications (audio_player.cpp,          *)
(* audio_module.cpp) on the player of PlayerServer.tla.                    *)
(*                                                                         *)
(* Three kinds of threads share one AudioPlayer: the JavaScript thread,    *)
(* which calls it without a lock; a thread forked at every end of a        *)
(* playback, which destroys and re-creates the player under lock_ and then *)
(* triggers onended; and the UpdateTime thread, which looks every second   *)
(* whether the player is playing and waits on condition_ while it is not.  *)
(* The UpdateTime thread holds lock_ except while it waits.                *)
(*                                                                         *)
(* The player is either the application's own (passthrough/liteplayer) or  *)
(* the one of the service (binder).  A call of it is one step.  A call     *)
(* through the null pointer player_ is recorded in wild, with the thread   *)
(* that made it; nothing is said of the program after it.  Volume, mute    *)
(* and the other listeners leave no trace in the modelled state.           *)
(***************************************************************************)
EXTENDS PlayerServer, FiniteSets

CONSTANTS
  Passthrough,  \* the build: the player in the process, or the service's
  Enders,       \* bound: the forked threads that may be at work at a time
  MaxSources    \* bound: how often a source is set

ASSUME AudioConstants ==
  /\ Passthrough \in BOOLEAN /\ IsFiniteSet(Enders) /\ MaxSources \in Nat
  /\ Enders \cap {"js", "timer", "free", "no"} = {}

VARIABLES
  object,     \* player_ is set
  src,        \* src_ is set
  status,     \* status_
  autoPlay,   \* autoPlay_
  isRunning,  \* isRunning_
  lock,       \* the holder of lock_, or "free"
  at,         \* at[t]: where thread t is and where it goes after a subroutine
  timer,      \* where the UpdateTime thread is
  owed,       \* ends of playback for which onended was not triggered (history)
  sources,    \* how many sources were set (bound)
  wild        \* the thread that used a player that was not there, or "no"

jsVars    == <<src, status, autoPlay, isRunning>>
vars == <<serverVars, object, jsVars, lock, at, timer, owed, sources, wild>>

Threads == {"js"} \cup Enders
Calm == wild = "no"

\* InitAudioModule begins: the player is created, then the thread is forked.
Init ==
  /\ player = NoPlayer /\ playerCallback = Nobody /\ object = FALSE
  /\ src = FALSE /\ status = "stop" /\ autoPlay = FALSE /\ isRunning = FALSE
  /\ lock = "free" /\ timer = "off"
  /\ at = [t \in Threads |-> IF t = "js" THEN [pc |-> "new", then |-> "fork"]
                             ELSE [pc |-> "idle", then |-> "idle"]]
  /\ owed = 0 /\ sources = 0 /\ wild = "no"

Goto(t, pc) == at' = [at EXCEPT ![t].pc = pc]
GotoThen(t, pc, then) == at' = [at EXCEPT ![t] = [pc |-> pc, then |-> then]]
Back(t) == Goto(t, at[t].then)

\* A call of the player that goes on to ok or to failed.
Call(t, f, arg, ok, failed) ==
  IF ~object
  THEN wild' = t /\ UNCHANGED <<serverVars, at>>
  ELSE /\ IF Passthrough /\ player.state = "none"
          THEN Goto(t, failed) /\ UNCHANGED serverVars
          ELSE \E o \in Served(f, arg) : Serve(f, arg, o) /\ Goto(t, IF o.ret = 0 THEN ok ELSE failed)
       /\ UNCHANGED wild

\* IsPlaying, answered with yes or no.
Ask(t, yes, no) ==
  IF ~object
  THEN wild' = t /\ UNCHANGED <<serverVars, at>>
  ELSE Goto(t, IF player.state = "started" THEN yes ELSE no) /\ UNCHANGED <<serverVars, wild>>

-----------------------------------------------------------------------------
(* DestoryPlayer and CreatePlayer, on any thread *)

DestroyCheck(t) ==
  /\ at[t].pc = "destroy" /\ Goto(t, IF object THEN "asked" ELSE "forget")
  /\ UNCHANGED <<serverVars, object, src, status, wild>>

DestroyCalls(t) ==
  /\ \/ at[t].pc = "asked"    /\ Ask(t, "stopping", "resetting")
     \/ at[t].pc = "stopping" /\ Call(t, "Stop", 0, "resetting", "resetting")
     \/ at[t].pc = "resetting" /\ Call(t, "Reset", 0, "releasing", "releasing")
     \/ at[t].pc = "releasing" /\ Call(t, "Release", 0, "delete", "delete")
  /\ UNCHANGED <<object, src, status>>

Delete(t) ==
  /\ at[t].pc = "delete" /\ object' = FALSE /\ Goto(t, "forget")
  /\ UNCHANGED <<serverVars, src, status, wild>>

\* ReleaseSrc and status_.
ForgetSource(t) ==
  /\ at[t].pc = "forget" /\ src' = FALSE /\ status' = "stop" /\ Back(t)
  /\ UNCHANGED <<serverVars, object, wild>>

\* In the binder build a Player is a proxy of what the service has.
New(t) ==
  /\ at[t].pc = "new" /\ object' = TRUE /\ Goto(t, "listen")
  /\ player' = IF Passthrough THEN Fresh ELSE player
  /\ UNCHANGED <<playerCallback, src, status, wild>>

MutListenOnce(t) ==
  /\ at[t].pc = "listen"
  /\ IF ~object THEN wild' = t /\ UNCHANGED <<serverVars, at>>
     ELSE /\ IF playerCallback = Nobody THEN ServeListener("js") ELSE UNCHANGED serverVars
          /\ Back(t) /\ UNCHANGED wild
  /\ UNCHANGED <<object, src, status>>

\* SetVolume, which no new player accepts, and SetPlayerCallback.
Listen(t) ==
  /\ at[t].pc = "listen"
  /\ IF ~object THEN wild' = t /\ UNCHANGED <<serverVars, at>>
     ELSE ServeListener("js") /\ Back(t) /\ UNCHANGED wild
  /\ UNCHANGED <<object, src, status>>

Recreate(t) ==
  /\ DestroyCheck(t) \/ DestroyCalls(t) \/ Delete(t) \/ ForgetSource(t) \/ New(t) \/ Listen(t)
  /\ UNCHANGED <<autoPlay, isRunning, lock, timer, owed, sources>>

-----------------------------------------------------------------------------
(* The JavaScript thread: a call begins *)

Idle == at["js"].pc = "idle"

BeginPlay == Idle /\ GotoThen("js", "play", "idle")
BeginPause == Idle /\ GotoThen("js", "pause", "idle")
MutBeginStop == Idle /\ GotoThen("js", "destroy", "idle")
BeginStop == Idle /\ GotoThen("js", "destroy", "new again")
BeginTerminate == Idle /\ GotoThen("js", "destroy", "terminate")

\* A new source replaces the old one together with the player.
BeginSetSrc ==
  /\ Idle /\ sources < MaxSources
  /\ IF src THEN GotoThen("js", "destroy", "new for source") ELSE GotoThen("js", "source", "idle")

Begin ==
  /\ BeginPlay \/ BeginPause \/ BeginStop \/ BeginTerminate \/ BeginSetSrc
  /\ UNCHANGED <<serverVars, object, jsVars, lock, timer, owed, sources, wild>>

\* The setters that make one call and keep nothing: loop, volume and mute, time.
Setters ==
  /\ Idle
  /\ \E request \in {<<"SetLoop", TRUE>>, <<"SetLoop", FALSE>>, <<"SetVolume", 0>>, <<"Rewind", 0>>} :
       Call("js", request[1], request[2], "idle", "idle")
  /\ UNCHANGED <<object, jsVars, lock, timer, owed, sources>>

\* SetAutoPlay; setting it plays a source that was stopped.
SetAutoPlay ==
  /\ Idle
  /\ \E on \in BOOLEAN :
       /\ autoPlay' = on
       /\ IF on /\ src /\ status = "stop" THEN GotoThen("js", "play", "idle") ELSE UNCHANGED at
  /\ UNCHANGED <<serverVars, object, src, status, isRunning, lock, timer, owed, sources, wild>>

-----------------------------------------------------------------------------
(* The JavaScript thread: a call goes on *)

\* The destroyed player is created again, for Stop or for a source.
JsAgain ==
  /\ \/ at["js"].pc = "new again" /\ GotoThen("js", "new", "idle")
     \/ at["js"].pc = "new for source" /\ GotoThen("js", "new", "source")
  /\ UNCHANGED <<serverVars, object, jsVars, timer, sources, wild>>

\* SetSource, and src_ when it was taken.
JsSource ==
  /\ at["js"].pc = "source" /\ Call("js", "SetSource", 0, "keep", "idle")
  /\ sources' = sources + 1
  /\ UNCHANGED <<object, jsVars, timer>>

JsKeep ==
  /\ at["js"].pc = "keep" /\ src' = TRUE /\ Goto("js", "prepare")
  /\ UNCHANGED <<serverVars, object, status, autoPlay, isRunning, timer, sources, wild>>

JsPrepare ==
  /\ at["js"].pc = "prepare"
  /\ Call("js", "Prepare", 0, IF autoPlay THEN "play" ELSE "idle", "idle")
  /\ UNCHANGED <<object, jsVars, timer, sources>>

\* Play needs a source; condition_ is signalled without lock_.
JsPlay ==
  /\ \/ at["js"].pc = "play" /\ Ask("js", "idle", IF src THEN "start" ELSE "idle")
     \/ at["js"].pc = "start" /\ Call("js", "Play", 0, "signal", "idle")
  /\ UNCHANGED <<object, jsVars, timer, sources>>

JsSignal ==
  /\ at["js"].pc = "signal" /\ Goto("js", "played")
  /\ timer' = IF timer \in {"wait", "timed wait"} THEN "wake" ELSE timer
  /\ UNCHANGED <<serverVars, object, jsVars, sources, wild>>

JsPause ==
  /\ \/ at["js"].pc = "pause" /\ Ask("js", "halt", "idle")
     \/ at["js"].pc = "halt" /\ Call("js", "Pause", 0, "paused", "idle")
  /\ UNCHANGED <<object, jsVars, timer, sources>>

JsStatus ==
  /\ \/ at["js"].pc = "played" /\ status' = "play"
     \/ at["js"].pc = "paused" /\ status' = "pause"
  /\ GotoThen("js", "idle", "idle")
  /\ UNCHANGED <<serverVars, object, src, autoPlay, isRunning, timer, sources, wild>>

\* ForkUpdateTimeThread, and StopUpdateTimeThread, which wakes nobody.
JsFork ==
  /\ at["js"].pc = "fork" /\ isRunning' = TRUE /\ timer' = "check" /\ GotoThen("js", "idle", "idle")
  /\ UNCHANGED <<serverVars, object, src, status, autoPlay, sources, wild>>

JsTerminate ==
  /\ at["js"].pc = "terminate" /\ isRunning' = FALSE /\ Goto("js", "off")
  /\ UNCHANGED <<serverVars, object, src, status, autoPlay, timer, sources, wild>>

Js ==
  \/ Recreate("js")
  \/ /\ JsAgain \/ JsSource \/ JsKeep \/ JsPrepare \/ JsPlay \/ JsSignal \/ JsPause \/ JsStatus
        \/ JsFork \/ JsTerminate
     /\ UNCHANGED <<lock, owed>>

-----------------------------------------------------------------------------
(* The end of a playback *)

\* OnPlaybackComplete forks a thread.
Fork(e) == at[e].pc = "idle" /\ GotoThen(e, "lock", "new")

\* The file has been played; the listener of the player is told.  An end is
\* owed to the application, except that of a player JavaScript took up
\* between its creation by another thread and that thread's SetPlayerCallback.
Ends ==
  /\ CanComplete(player) /\ owed < Cardinality(Enders)
  /\ player' = Completed(player)
  /\ owed' = IF player.listener = Nobody /\ \E e \in Enders : at[e].pc = "listen"
             THEN owed ELSE owed + 1
  /\ IF player.listener = Nobody THEN UNCHANGED at
     ELSE \E e \in Enders : Fork(e)
  /\ UNCHANGED <<playerCallback, object, jsVars, lock, timer, sources, wild>>

MutEnderLock(e) ==
  /\ at[e].pc = "lock" /\ GotoThen(e, "destroy", "new")
  /\ UNCHANGED <<serverVars, object, jsVars, lock, timer, owed, sources, wild>>

\* PlaybackCompleteHandler and ResetPlayer.
EnderLock(e) ==
  /\ at[e].pc = "lock" /\ lock = "free" /\ lock' = e /\ GotoThen(e, "destroy", "new")
  /\ UNCHANGED <<serverVars, object, jsVars, timer, owed, sources, wild>>

\* The player was destroyed; when it is created, unlock.
EnderListens(e) ==
  /\ at[e] = [pc |-> "listen", then |-> "new"]
  /\ at' = [at EXCEPT ![e].then = "unlock"]
  /\ UNCHANGED <<serverVars, object, jsVars, lock, timer, owed, sources, wild>>

EnderUnlock(e) ==
  /\ at[e].pc = "unlock" /\ lock' = (IF lock = e THEN "free" ELSE lock)
  /\ GotoThen(e, "idle", "idle") /\ owed' = owed - 1
  /\ UNCHANGED <<serverVars, object, jsVars, timer, sources, wild>>

Ender(e) ==
  \/ EnderListens(e) \/ EnderUnlock(e)
  \/ at[e] # [pc |-> "listen", then |-> "new"] /\ Recreate(e)

-----------------------------------------------------------------------------
(* UpdateTimeHandler *)

TimerCheck ==
  /\ timer = "check" /\ timer' = IF isRunning THEN "lock" ELSE "off"
  /\ UNCHANGED <<lock, wild>>

\* pthread_mutex_lock, at the top of the loop or on the way out of the wait.
TimerLock ==
  /\ timer \in {"lock", "wake"} /\ lock = "free" /\ lock' = "timer"
  /\ timer' = IF timer = "lock" THEN "test" ELSE "unlock"
  /\ UNCHANGED wild

\* IsPlaying looks whether there is a player, then asks it.
TimerTest ==
  /\ timer = "test" /\ timer' = IF object THEN "ask" ELSE "wait"
  /\ lock' = IF object THEN lock ELSE "free"
  /\ UNCHANGED wild

TimerAsk ==
  /\ timer = "ask"
  /\ IF ~object THEN wild' = "timer" /\ UNCHANGED <<timer, lock>>
     ELSE /\ timer' = IF player.state = "started" THEN "timed wait" ELSE "wait"
          /\ lock' = "free" /\ UNCHANGED wild

\* A second has passed: ontimeupdate.
TimerTimeout ==
  /\ timer = "timed wait" /\ timer' = "wake"
  /\ UNCHANGED <<lock, wild>>

TimerUnlock ==
  /\ timer = "unlock" /\ timer' = "check" /\ lock' = "free"
  /\ UNCHANGED wild

Timer ==
  /\ TimerCheck \/ TimerLock \/ TimerTest \/ TimerAsk \/ TimerTimeout \/ TimerUnlock
  /\ UNCHANGED <<serverVars, object, jsVars, at, owed, sources>>

-----------------------------------------------------------------------------
Next ==
  /\ Calm
  /\ \/ Begin \/ Setters \/ SetAutoPlay \/ Js
     \/ Ends
     \/ \E e \in Enders : EnderLock(e) \/ Ender(e)
     \/ Timer

Spec == Init /\ [][Next]_vars

\* Every thread is scheduled, a mutex is not withheld from a thread for ever.
FairSpec ==
  /\ Spec
  /\ WF_vars(Calm /\ Js) /\ WF_vars(Calm /\ Timer)
  /\ \A e \in Enders : WF_vars(Calm /\ Ender(e)) /\ SF_vars(Calm /\ EnderLock(e))

-----------------------------------------------------------------------------
(* Properties *)

\* Every playback that comes to its end triggers onended, also when JavaScript
\* stops, replaces or terminates the player meanwhile - unless a thread ran
\* into the player another one had just destroyed.
EndIsReported == (owed > 0) ~> (owed = 0 \/ ~Calm)

\* Re-creating the player at the end of a playback never pulls it from under
\* the UpdateTime thread: lock_ keeps them apart.  Only the JavaScript thread,
\* which destroys it without lock_, can.
TimerIsSafe == wild = "timer" => at["js"].pc \in {"forget", "new again", "new for source", "new",
                                                  "terminate", "off"}

\* Whatever was called and however the ends of playbacks fell between the
\* calls: when everything has come to rest the module has a player, of whose
\* end it will hear.
ReadyAgain ==
  (Calm /\ Idle /\ \A e \in Enders : at[e].pc = "idle") => object /\ player.listener = "js"
=============================================================================
