---------------------------- MODULE PlayerServer ----------------------------
(***************************************************************************)
(* What a request does in the player's service: the guards and effects of  *)
(* PlayerImpl as its callers see them (player_impl.cpp), and PlayerServer, *)
(* which owns the one player of the service and the proxy of the listener  *)
(* (player_server.cpp).                                                    *)
(*                                                                         *)
(* A request has a function and an argument.  The result of one is a set   *)
(* of outcomes, because the engine, the file and the surface may refuse:   *)
(* the player afterwards, the code it returns (0 or -1) and the value it   *)
(* hands out.  The engine behind PlayerImpl is PlayerControl.tla.          *)
(***************************************************************************)
EXTENDS Integers

CONSTANTS
  Nobody,     \* no listener
  Videos,     \* whether the files have pictures: a set of Booleans
  Faults      \* the functions that may fail although the state allows them

ASSUME ServerConstants == Videos \subseteq BOOLEAN

VARIABLES
  player,         \* player_, with no player a record of state "none"
  playerCallback  \* playerCallback_

serverVars == <<player, playerCallback>>

MaxVolume == 300   \* MAX_MEDIA_VOLUME

\* A new PlayerImpl.
Fresh == [state |-> "idle", loop |-> FALSE, speed |-> 1, type |-> 0,
          video |-> FALSE, pauseAfterPlay |-> FALSE, listener |-> Nobody]
NoPlayer == [Fresh EXCEPT !.state = "none"]

Outcome(p, ret, value) == [player |-> p, ret |-> ret, value |-> value]
Ok(p)      == {Outcome(p, 0, 0)}
Refused(p) == {Outcome(p, -1, 0)}
Tell(p, v) == {Outcome(p, 0, v)}

\* A step that the engine may refuse.
Attempt(f, p, q) == IF f \in Faults THEN Ok(q) \cup Refused(p) ELSE Ok(q)

To(p, state) == [p EXCEPT !.state = state]
Started(p) == p.state \in {"prepared", "started", "paused", "stopped", "complete"}

-----------------------------------------------------------------------------
(* PlayerImpl *)

\* Forgets everything but the listener and the stream's type.
ResetInner(p) == [Fresh EXCEPT !.type = p.type, !.listener = p.listener]

\* A source that cannot be read, or that the engine does not take, resets the
\* player; without an engine the player stays as it is.
SetSource(p) ==
  IF p.state # "idle" THEN Refused(p)
  ELSE Attempt("SetSource", p, To(p, "initialized"))
         \cup (IF "SetSource" \in Faults THEN Refused(ResetInner(p)) ELSE {})

\* The engine may be prepared although the file's description cannot be read.
Prepare(p) ==
  IF p.state = "prepared" THEN Ok(p)
  ELSE IF p.state # "initialized" THEN Refused(p)
  ELSE (UNION {Attempt("Prepare", p, [To(p, "prepared") EXCEPT !.video = v]) : v \in Videos})
         \cup (IF "Prepare" \in Faults THEN Refused(To(p, "prepared")) ELSE {})

MutPlayNotTwice(p) ==
  IF p.state \in {"prepared", "paused"} THEN Attempt("Play", p, To(p, "started"))
  ELSE Refused(p)

Play(p) ==
  IF p.state = "started" THEN Ok(p)
  ELSE IF p.state \in {"prepared", "paused"} THEN Attempt("Play", p, To(p, "started"))
  ELSE Refused(p)

IsPlaying(p) == Tell(p, p.state = "started")

\* Pause does not look at the engine's answer, unless it has to start it.
Pause(p) ==
  IF p.state = "paused" THEN Ok(p)
  ELSE IF p.state = "prepared" /\ p.pauseAfterPlay THEN Attempt("Play", p, To(p, "paused"))
  ELSE IF p.state = "started" /\ p.speed = 1 THEN Ok(To(p, "paused"))
  ELSE Refused(p)

Stop(p) ==
  IF p.state \in {"started", "paused", "complete", "stopped"} THEN Ok(To(p, "stopped"))
  ELSE Refused(p)

Rewind(p) ==
  IF p.state \in {"started", "paused", "prepared"} /\ p.speed = 1
  THEN Attempt("Rewind", p, p) ELSE Refused(p)

\* The volume goes to the engine and is never asked for.
SetVolume(p, volume) ==
  IF p.state \in {"initialized", "prepared", "started", "paused"} /\ volume \in 0 .. MaxVolume
  THEN Ok(p) ELSE Refused(p)

SetSurface(p) == IF p.state \in {"initialized", "prepared"} THEN Ok(p) ELSE Refused(p)

SetLoop(p, loop) ==
  IF p.state \in {"idle", "stopped", "complete"} THEN Refused(p) ELSE Ok([p EXCEPT !.loop = loop])

IsSingleLooping(p) == Tell(p, p.loop)

\* The position and the duration are not modelled: they are always told.
GetTime(p) == Ok(p)

\* The width and the height, which a file without pictures has not.
GetVideoSize(p) == IF Started(p) /\ p.video THEN Ok(p) ELSE Refused(p)

GetPlayerState(p) == Tell(p, p.state)

SetPlaybackSpeed(p, speed) ==
  IF p.state # "started" THEN Refused(p)
  ELSE IF speed = p.speed THEN Ok(p)
  ELSE IF ~p.video THEN Refused(p)
  ELSE Attempt("SetPlaybackSpeed", p, [p EXCEPT !.speed = speed])

GetPlaybackSpeed(p) == Tell(p, IF p.state = "paused" THEN 0 ELSE p.speed)

SetAudioStreamType(p, type) ==
  IF p.state \in {"idle", "initialized"} THEN Ok([p EXCEPT !.type = type]) ELSE Refused(p)

GetAudioStreamType(p) == Tell(p, p.type)

SetParameter(p, enable) ==
  IF p.state \in {"idle", "initialized"} THEN Ok([p EXCEPT !.pauseAfterPlay = enable])
  ELSE Refused(p)

\* An idle player is not touched.
Reset(p) == IF p.state = "idle" THEN Ok(p) ELSE Ok(ResetInner(p))

\* Everything a player that was not released does with a request.
Impl(f, arg, p) ==
  CASE f = "SetSource" -> SetSource(p)
    [] f = "Prepare" -> Prepare(p)
    [] f = "Play" -> Play(p)
    [] f = "IsPlaying" -> IsPlaying(p)
    [] f = "Pause" -> Pause(p)
    [] f = "Stop" -> Stop(p)
    [] f = "Rewind" -> Rewind(p)
    [] f = "SetVolume" -> SetVolume(p, arg)
    [] f = "SetSurface" -> SetSurface(p)
    [] f = "SetLoop" -> SetLoop(p, arg)
    [] f = "IsSingleLooping" -> IsSingleLooping(p)
    [] f = "GetTime" -> GetTime(p)
    [] f = "GetVideoSize" -> GetVideoSize(p)
    [] f = "GetPlayerState" -> GetPlayerState(p)
    [] f = "SetPlaybackSpeed" -> SetPlaybackSpeed(p, arg)
    [] f = "GetPlaybackSpeed" -> GetPlaybackSpeed(p)
    [] f = "SetAudioStreamType" -> SetAudioStreamType(p, arg)
    [] f = "GetAudioStreamType" -> GetAudioStreamType(p)
    [] f = "SetParameter" -> SetParameter(p, arg)
    [] f = "Reset" -> Reset(p)

\* NotifyPlaybackComplete: the end of the file, unless it is played in a loop.
CanComplete(p) == p.state = "started" /\ ~p.loop
Completed(p) == To(p, "complete")

-----------------------------------------------------------------------------
(* PlayerServer *)

\* Without a player every request is refused: a query tells its default.
Default(f) == CASE f \in {"IsPlaying", "IsSingleLooping"} -> Outcome(NoPlayer, 0, FALSE)
                [] f = "GetPlayerState" -> Outcome(NoPlayer, -1, "none")
                [] f = "GetPlaybackSpeed" -> Outcome(NoPlayer, -1, 1)
                [] OTHER -> Outcome(NoPlayer, -1, 0)

\* A source is what creates the player; a listener set before is not given to it.
Served(f, arg) ==
  IF f = "SetSource" /\ player.state = "none" THEN SetSource(Fresh)
  ELSE IF player.state = "none" THEN {Default(f)}
  ELSE IF f = "Release" THEN Ok(NoPlayer)
  ELSE Impl(f, arg, player)

\* Release drops the player and the proxy of the listener.
Serve(f, arg, outcome) ==
  /\ outcome \in Served(f, arg)
  /\ player' = outcome.player
  /\ playerCallback' = IF f = "Release" /\ player.state # "none" THEN Nobody ELSE playerCallback

\* SetPlayerCallback answers nothing.
ServeListener(who) ==
  /\ playerCallback' = who
  /\ player' = IF player.state = "none" THEN player ELSE [player EXCEPT !.listener = who]
=============================================================================
