----------------------------- MODULE PlayerSync -----------------------------
(***************************************************************************)
(* When a decoded frame is shown: player_sync.cpp, at normal speed and with*)
(* the audio as the reference.  A frame is played, dropped or repeated,    *)
(* that is tried again later.                                              *)
(*                                                                         *)
(* Clocks are abstracted to what the comparison with them says of a frame: *)
(* it is "early" (or a bounded wait is not over), "due", or "late".  Which *)
(* one is chosen freely; that early does not last for ever is a fairness   *)
(* assumption of the pipeline.  Comparisons of time stamps are kept.       *)
(***************************************************************************)
EXTENDS Integers

CONSTANT MaxLost \* MAX_VID_LOST_FRAMENUM

ASSUME SyncConstants == MaxLost \in Nat \ {0}

VARIABLES
  isVidEnable, isAudEnable,     \* the channels were started
  isFristVidFrame,              \* no picture was played since the last Reset
  isFristAudFrame,              \* no sound was played since the last Reset
  lastVideoTs,                  \* the time stamp of the last picture, or Invalid
  continousVidLost              \* how many pictures were dropped in a row

syncVars == <<isVidEnable, isAudEnable, isFristVidFrame, isFristAudFrame,
              lastVideoTs, continousVidLost>>

Invalid == -1 \* AV_INVALID_PTS
Clocks == {"early", "due", "late"}

SyncInit ==
  /\ isVidEnable = FALSE /\ isAudEnable = FALSE
  /\ isFristVidFrame = TRUE /\ isFristAudFrame = TRUE
  /\ lastVideoTs = Invalid /\ continousVidLost = 0

\* Start of the channels a file has.
SyncStart(video, audio) ==
  /\ isVidEnable' = video /\ isAudEnable' = audio
  /\ UNCHANGED <<isFristVidFrame, isFristAudFrame, lastVideoTs, continousVidLost>>

\* Reset of the video channel, of the audio channel, or of both.
SyncReset(video, audio) ==
  /\ isFristVidFrame' = (video \/ isFristVidFrame)
  /\ lastVideoTs' = IF video THEN Invalid ELSE lastVideoTs
  /\ continousVidLost' = IF video THEN 0 ELSE continousVidLost
  /\ isFristAudFrame' = (audio \/ isFristAudFrame)
  /\ UNCHANGED <<isVidEnable, isAudEnable>>

SyncStop ==
  /\ isVidEnable' = FALSE /\ isAudEnable' = FALSE
  /\ isFristVidFrame' = TRUE /\ isFristAudFrame' = TRUE
  /\ lastVideoTs' = Invalid /\ continousVidLost' = 0

\* After MaxLost dropped pictures the next one is played whatever its time.
CheckAVDiff(clock) ==
  CASE continousVidLost >= MaxLost \/ clock = "due" -> "play"
    [] clock = "late"  -> "drop"
    [] OTHER -> "repeat"

LostAfter(clock) ==
  CASE continousVidLost >= MaxLost \/ clock = "due" -> 0
    [] clock = "late"  -> continousVidLost + 1
    [] OTHER -> continousVidLost

\* The first picture is played at once, without audio after a short wait.
VidResult(clock) ==
  CASE ~isFristVidFrame -> CheckAVDiff(clock)
    [] isFristVidFrame /\ ~isAudEnable /\ clock = "early" -> "repeat"
    [] OTHER -> "play"

ProcVidFrame(ts, clock) ==
  /\ lastVideoTs' = IF isFristVidFrame /\ VidResult(clock) = "repeat" THEN lastVideoTs ELSE ts
  /\ isFristVidFrame' = (isFristVidFrame /\ VidResult(clock) = "repeat")
  /\ continousVidLost' = IF isFristVidFrame THEN continousVidLost ELSE LostAfter(clock)
  /\ UNCHANGED <<isVidEnable, isAudEnable, isFristAudFrame>>

\* Sound waits for the first picture, for a limited time, and the first sound
\* then waits until the pictures have come up to it, without a limit.
AudResult(ts, clock) ==
  IF \/ isFristVidFrame /\ isVidEnable /\ clock = "early"
     \/ isFristAudFrame /\ lastVideoTs # Invalid /\ lastVideoTs < ts
  THEN "repeat" ELSE "play"

ProcAudFrame(ts, clock) ==
  /\ isFristAudFrame' = (isFristAudFrame /\ AudResult(ts, clock) = "repeat")
  /\ UNCHANGED <<isVidEnable, isAudEnable, isFristVidFrame, lastVideoTs, continousVidLost>>
=============================================================================
