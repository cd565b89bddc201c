--------------------------- MODULE PlayerService ---------------------------
(***************************************************************************)
(* Applications that call the player's service (binder/player.cpp,         *)
(* player_client.cpp, samgr_player_server.cpp, player_server.cpp): every   *)
(* process has one PlayerClient, which writes a request, waits for the     *)
(* reply and reads it into the answer.  The service runs in one task and   *)
(* serves a request at a time; there is one player for all processes.      *)
(*                                                                         *)
(* A reply is a sequence of typed items.  The IPC library is external: an  *)
(* item read as another type than it was written is converted as it lies   *)
(* in memory, and an Invoke may fail before or after the request was       *)
(* served.  Then the answer is the client's default, and the application   *)
(* may call again.                                                         *)
(***************************************************************************)
EXTENDS PlayerServer, Sequences, FiniteSets

CONSTANTS
  Clients,    \* the processes that use the player
  Requests,   \* Requests[c]: the requests c makes, pairs of a function and an argument
  MaxLosses   \* bound: how many Invokes fail

ASSUME ServiceConstants == Nobody \notin Clients /\ MaxLosses \in Nat

VARIABLES
  call,    \* call[c]: where c's call is, its request, and the reply to it
  answer,  \* answer[c]: what the call of c returned
  served,  \* served[c]: what the service did for c's call and whether the
           \* player is still as that left it (history)
  missed,  \* missed[c]: c's last call, if it succeeded unnoticed and the
           \* player is still as it left it (history)
  losses   \* how many Invokes failed (bound)

vars == <<serverVars, call, answer, served, missed, losses>>

NoCall == [pc |-> "idle", request |-> <<>>, reply |-> <<>>]
Nothing == [ret |-> -1, value |-> 0]
NotServed == [ret |-> -1, value |-> 0, last |-> FALSE]

Init ==
  /\ player = NoPlayer /\ playerCallback = Nobody
  /\ call = [c \in Clients |-> NoCall] /\ answer = [c \in Clients |-> Nothing]
  /\ served = [c \in Clients |-> NotServed] /\ missed = [c \in Clients |-> <<>>]
  /\ losses = 0

-----------------------------------------------------------------------------
(* The layout of the replies *)

Flags  == {"IsPlaying", "IsSingleLooping"}
Values == {"GetTime", "GetVideoSize", "GetPlayerState", "GetPlaybackSpeed", "GetAudioStreamType"}

\* PlayerServerFuncId.
Functions ==
  Flags \cup Values
    \cup {"SetSource", "Prepare", "Play", "Pause", "Stop", "Rewind", "SetVolume", "SetSurface",
          "SetLoop", "SetPlaybackSpeed", "SetAudioStreamType", "SetParameter", "Reset", "Release",
          "SetPlayerCallback"}

ASSUME RequestsAreCalls ==
  \A c \in Clients : \A r \in Requests[c] :
    r = <<r[1], r[2]>> /\ r[1] \in Functions
      /\ r[2] \in IF r[1] \in {"SetLoop", "SetParameter"} THEN BOOLEAN ELSE Int

Item(type, value) == [type |-> type, value |-> value]

\* The type in which a query's value is written, and the one it is read in.
Written(f) == CASE f = "GetTime" -> "int64"
                [] f \in {"GetPlaybackSpeed", "GetAudioStreamType"} -> "float"
                [] OTHER -> "int32"
Expected(f) == IF f = "GetAudioStreamType" THEN "int32" ELSE Written(f)

MutReplyValueFirst(f, o) ==
  IF f \in Flags THEN <<Item("bool", o.value)>>
  ELSE IF f \in Values THEN <<Item(Written(f), o.value), Item("int32", o.ret)>>
  ELSE <<Item("int32", o.ret)>>

\* What the service writes: the code SetLoop returns is written as a bool.
Reply(f, o) ==
  IF f \in Flags THEN <<Item("bool", o.value)>>
  ELSE IF f = "SetLoop" /\ o.player.state # "none" THEN <<Item("bool", o.ret # 0)>>
  ELSE IF f \in Values THEN <<Item("int32", o.ret), Item(Written(f), o.value)>>
  ELSE <<Item("int32", o.ret)>>

\* A bool read as a number is 0 or 1; a float other than 0 is some other number.
Read(type, item) ==
  IF type = item.type THEN item.value
  ELSE IF item.type = "bool" THEN (IF item.value THEN 1 ELSE 0)
  ELSE IF item.value = 0 THEN 0 ELSE "bits"

\* What the client makes of it: IsSingleLooping reads a number into its flag.
Unmarshal(f, reply) ==
  IF f = "IsPlaying" THEN [ret |-> 0, value |-> Read("bool", reply[1])]
  ELSE IF f = "IsSingleLooping" THEN [ret |-> 0, value |-> Read("int32", reply[1]) # 0]
  ELSE IF f \in Values
       THEN [ret |-> Read("int32", reply[1]), value |-> Read(Expected(f), reply[2])]
  ELSE [ret |-> Read("int32", reply[1]), value |-> 0]

-----------------------------------------------------------------------------
(* A call *)

Begin(c) ==
  /\ call[c].pc = "idle"
  /\ \E request \in Requests[c] :
       call' = [call EXCEPT ![c] = [pc |-> "sent", request |-> request, reply |-> <<>>]]
  /\ UNCHANGED <<serverVars, answer, served, missed, losses>>

\* The histories after a step that may have changed the player.
Forget(others) ==
  IF player' = player THEN served ELSE
    [d \in Clients |-> IF d \in others THEN [served[d] EXCEPT !.last = FALSE] ELSE served[d]]
ForgetMissed(others) ==
  [d \in Clients |-> IF player' = player /\ d \in others THEN missed[d] ELSE <<>>]

\* The service's task takes the request.
Handle(c) ==
  /\ call[c].pc = "sent"
  /\ LET f == call[c].request[1]
         arg == call[c].request[2]
     IN  IF f = "SetPlayerCallback"
         THEN /\ ServeListener(c)
              /\ call' = [call EXCEPT ![c] = NoCall]
              /\ served' = Forget(Clients)
         ELSE \E o \in Served(f, arg) :
                /\ Serve(f, arg, o)
                /\ served' = [Forget(Clients) EXCEPT ![c] =
                                [ret |-> o.ret, value |-> o.value, last |-> TRUE]]
                /\ call' = [call EXCEPT ![c].pc = "served", ![c].reply = Reply(f, o)]
  /\ missed' = ForgetMissed(Clients \ {c})
  /\ UNCHANGED <<answer, losses>>

Return(c) ==
  /\ call[c].pc = "served"
  /\ answer' = [answer EXCEPT ![c] = Unmarshal(call[c].request[1], call[c].reply)]
  /\ call' = [call EXCEPT ![c].pc = "done"]
  /\ UNCHANGED <<serverVars, served, missed, losses>>

\* The request or its reply gets lost: the answer is -1 (-10 of SetSource).
Lose(c) ==
  /\ call[c].pc \in {"sent", "served"} /\ losses < MaxLosses
  /\ losses' = losses + 1
  /\ answer' = [answer EXCEPT ![c] = Nothing]
  /\ call' = [call EXCEPT ![c] = NoCall]
  /\ missed' = [missed EXCEPT ![c] =
       IF call[c].pc = "served" /\ served[c].ret = 0 /\ served[c].last
       THEN call[c].request ELSE <<>>]
  /\ served' = [served EXCEPT ![c] = NotServed]
  /\ UNCHANGED serverVars

\* The application takes note of the answer.
Finish(c) ==
  /\ call[c].pc = "done"
  /\ call' = [call EXCEPT ![c] = NoCall]
  /\ answer' = [answer EXCEPT ![c] = Nothing] /\ served' = [served EXCEPT ![c] = NotServed]
  /\ UNCHANGED <<serverVars, missed, losses>>

\* The end of the file.
Complete ==
  /\ CanComplete(player) /\ player' = Completed(player)
  /\ served' = Forget(Clients) /\ missed' = ForgetMissed(Clients)
  /\ UNCHANGED <<playerCallback, call, answer, losses>>

Next ==
  \/ \E c \in Clients : Begin(c) \/ Handle(c) \/ Return(c) \/ Lose(c) \/ Finish(c)
  \/ Complete

Spec == Init /\ [][Next]_vars

-----------------------------------------------------------------------------
(* Properties *)

\* The answer an application gets is what the service did for its own call,
\* whatever other processes had done in between: success only when its request
\* was accepted, and the value the player had.  A stream type other than the
\* default is exempt: it is written as a float and read as an integer.
AnswersAreTrue ==
  \A c \in Clients :
    call[c].pc = "done" =>
      LET f == call[c].request[1] IN
      /\ (answer[c].ret = 0) = (served[c].ret = 0)
      /\ f \in Flags \cup (Values \ {"GetAudioStreamType"}) => answer[c].value = served[c].value
      /\ f = "GetAudioStreamType" /\ served[c].value = 0 => answer[c].value = 0

\* An application whose answer got lost may call again: what had succeeded
\* unnoticed succeeds again while nobody else touched the player.  Only
\* SetSource and Release are refused the second time.
RepeatedCallsSucceed ==
  [][\A c \in Clients :
       (/\ call[c].pc = "sent" /\ call'[c].pc = "served"
        /\ call[c].request = missed[c]
        /\ call[c].request[1] \notin {"SetSource", "Release"})
       => served'[c].ret = 0]_vars
=============================================================================
