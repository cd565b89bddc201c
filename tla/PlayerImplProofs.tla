-------------------------- MODULE PlayerImplProofs --------------------------
(***************************************************************************)
(* Proofs about the player adapter on its engine: the newest rewind wins   *)
(* and no seek is lost, for every file, track, speed and fault; and, while *)
(* nobody asks to pause after playing, the state the application sees is   *)
(* the state the engine is in and a pause holds.                           *)
(***************************************************************************)
EXTENDS PlayerImpl, TLAPS

CmdPlaces == {"none", "send", "body", "unpause", "sinks", "join", "ok", "failed"}
SchPlaces == {"none", "top", "seek", "sought", "clear", "sought all", "render",
              "event", "await", "eof", "exited"}
NoEngineYet == {"idle", "initialized", "released"}
Command == [op : Ops \cup {"none"}, at : CmdPlaces, rate : Rates \cup {1}]
Api == cmd["api"]

-----------------------------------------------------------------------------
(* Where the two threads can be, whatever they do to the seek table *)

Commands ==
  /\ cmd \in [Threads -> Command]
  /\ cmd["sch"].op \in {"none", "pause"}
  /\ \A t \in Threads : cmd[t].op = "none" => cmd[t].at = "none"
  /\ Api.at = "unpause" => Api.op = "play"
  /\ app.op \in {"none", "again", "rewind"} => Api = NoCmd

\* The sch thread begins with a play from prepare, and only then.
Starting ==
  /\ sch \in SchPlaces
  /\ fsm \in {"none", "init"} => sch = "none"
  /\ fsm = "prepare" => sch = "none" \/ Api.at = "unpause"

\* Nobody plays or rewinds before there is a prepared engine.
Unborn ==
  st \in NoEngineYet =>
    /\ sch = "none"
    /\ \A i \in Slots : seek.tab[i] = NoPos
    /\ Api.op # "play" /\ app.op # "rewind"

RewindsToTarget == app.op = "rewind" => app.arg \in Targets

EngineInv == Commands /\ Starting /\ Unborn /\ RewindsToTarget

-----------------------------------------------------------------------------
(* The seek table *)

SeekRecord ==
  /\ seek = [tab |-> seek.tab, idx |-> seek.idx, cnt |-> seek.cnt, said |-> seek.said]
  /\ seek.tab \in [Slots -> Positions \cup {NoPos}]
  /\ seek.idx \in Slots /\ seek.cnt \in Nat
  /\ hist = [wanted |-> hist.wanted, answered |-> hist.answered, owed |-> hist.owed]
  /\ rewindPos \in Positions \cup {NoPos}

\* A slot holds a request that is still to be done, or being done; the one that
\* DoSeekIfNeed is about to empty does not count.
Live(i) == seek.tab[i] # NoPos /\ ~(sch = "clear" /\ i = seek.idx)

SlotsInOrder ==
  /\ sch \in {"seek", "sought"} => seek.tab[seek.idx] # NoPos
  /\ sch = "sought" => seek.cnt > 0
  /\ sch = "clear" => (seek.cnt > 0 <=> seek.tab[seek.idx] # NoPos)
  /\ sch = "clear" /\ seek.cnt = 0 => seek.tab[3 - seek.idx] # NoPos

\* At most one request is on its way, and while it is, the position to go to next is
\* the one the application asked for last.
OneLive ==
  \A i \in Slots : Live(i) => rewindPos # NoPos /\ hist.wanted = rewindPos /\ ~Live(3 - i)

SeekInv == SeekRecord /\ SlotsInOrder /\ OneLive /\ LastRewindWins

\* A step that leaves the rewinds alone.
SeekQuiet ==
  /\ UNCHANGED <<seek, rewindPos, hist>>
  /\ sch' = sch \/ {sch, sch'} \cap {"seek", "sought", "clear"} = {}

LEMMA QuietStep ==
  ASSUME SeekInv, SeekQuiet
  PROVE  SeekInv'
<1>1. UNCHANGED <<seek, rewindPos, hist>>
  BY DEF SeekQuiet
<1>2. SlotsInOrder'
  BY <1>1 DEF SeekInv, SeekQuiet, SlotsInOrder
<1>3. \A i \in Slots : Live(i)' <=> Live(i)
  BY <1>1 DEF SeekQuiet, Live
<1>4. OneLive'
  <2>1. ASSUME NEW i \in Slots
        PROVE  3 - i \in Slots
    BY DEF Slots
  <2> QED BY <1>1, <1>3, <2>1 DEF SeekInv, OneLive
<1> QED BY <1>1, <1>2, <1>4 DEF SeekInv, SeekRecord, LastRewindWins

-----------------------------------------------------------------------------
(* Commands *)

\* Answering or moving on changes where one thread's command is.
LEMMA GotoMoves ==
  ASSUME cmd \in [Threads -> Command], NEW t \in Threads, NEW pc \in CmdPlaces,
         Goto(t, pc)
  PROVE  /\ cmd' \in [Threads -> Command]
         /\ cmd'[t].at = pc /\ cmd'[t].op = cmd[t].op /\ cmd'[t].rate = cmd[t].rate
         /\ \A u \in Threads \ {t} : cmd'[u] = cmd[u]
BY DEF Goto, Command

LEMMA SendStarts ==
  ASSUME cmd \in [Threads -> Command], NEW t \in Threads, NEW op \in Ops,
         NEW r \in Rates \cup {1}, Send(t, op, r)
  PROVE  /\ cmd' \in [Threads -> Command]
         /\ cmd'[t].at = "send" /\ cmd'[t].op = op /\ cmd'[t].rate = r
         /\ \A u \in Threads \ {t} : cmd'[u] = cmd[u]
BY DEF Send, Command, CmdPlaces

LEMMA BackToNone ==
  ASSUME cmd \in [Threads -> Command], NEW t \in Threads,
         cmd' = [cmd EXCEPT ![t] = NoCmd]
  PROVE  /\ cmd' \in [Threads -> Command]
         /\ cmd'[t] = NoCmd
         /\ \A u \in Threads \ {t} : cmd'[u] = cmd[u]
BY DEF Command, CmdPlaces, NoCmd

LEMMA NoCommands ==
  ASSUME cmd' = [t \in Threads |-> NoCmd]
  PROVE  /\ cmd' \in [Threads -> Command]
         /\ cmd'["api"] = NoCmd /\ cmd'["sch"] = NoCmd
BY DEF Command, CmdPlaces, NoCmd, Threads

LEMMA NoCmdFields == NoCmd.op = "none" /\ NoCmd.at = "none" /\ NoCmd.rate = 1
BY DEF NoCmd

-----------------------------------------------------------------------------
(* What the engine does while it handles a message *)

HandleShape(t) ==
  /\ UNCHANGED seek
  /\ \E pc \in CmdPlaces \ {"none"} :
       /\ Goto(t, pc)
       /\ pc = "unpause" => cmd[t].op = "play"
       /\ \/ sch' = sch
          \/ /\ cmd[t].op = "play" /\ cmd[t].at = "body" /\ fsm = "prepare"
             /\ pc = "unpause" /\ sch' = "top"
  /\ fsm' \in {fsm, "play", "tplay", "pause", "idle"}
  /\ cmd[t].at = "unpause" => fsm' # "prepare"

LEMMA AfterMoves ==
  ASSUME NEW op \in Ops
  PROVE  /\ After(op) \in {fsm, "play", "tplay", "pause", "idle"}
         /\ op = "play" => After(op) # "prepare"
<1>1. CASE op = "play"
  BY <1>1 DEF After, Transitions
<1>2. CASE op = "pause"
  BY <1>2 DEF After, Transitions
<1>3. CASE op = "tplay"
  BY <1>3 DEF After, Transitions
<1>4. CASE op = "stop"
  BY <1>4 DEF After, Transitions, States
<1> QED BY <1>1, <1>2, <1>3, <1>4 DEF Ops

LEMMA AnswerMoves ==
  ASSUME NEW t \in Threads, NEW ok \in BOOLEAN, cmd[t].op \in Ops, Answer(t, ok),
         cmd[t].at # "unpause" \/ (ok /\ cmd[t].op = "play"),
         UNCHANGED <<seek, sch>>
  PROVE  HandleShape(t)
<1>1. fsm' \in {fsm, "play", "tplay", "pause", "idle"}
  BY AfterMoves DEF Answer
<1>2. cmd[t].at = "unpause" => fsm' # "prepare"
  BY AfterMoves DEF Answer
<1>3. CASE ok
  <2>1. Goto(t, "ok")
    BY <1>3 DEF Answer
  <2> QED BY <1>1, <1>2, <2>1 DEF HandleShape, CmdPlaces
<1>4. CASE ~ok
  <2>1. Goto(t, "failed")
    BY <1>4 DEF Answer
  <2> QED BY <1>1, <1>2, <2>1 DEF HandleShape, CmdPlaces
<1> QED BY <1>3, <1>4

LEMMA HandleHasShape ==
  ASSUME Commands, NEW t \in Threads, Handle(t)
  PROVE  HandleShape(t)
<1>1. cmd[t].at # "none" => cmd[t].op \in Ops
  BY DEF Commands, Command
<1>2. CASE Enter(t)
  BY <1>2 DEF Enter, HandleShape, CmdPlaces
<1>3. CASE AlreadyThere(t)
  BY <1>1, <1>3, AnswerMoves DEF AlreadyThere
<1>4. CASE StartMedia(t)
  BY <1>4 DEF StartMedia, At, HandleShape, CmdPlaces
<1>5. CASE DecoderFails(t)
  BY <1>1, <1>5, AnswerMoves DEF DecoderFails, At
<1>6. CASE SinkFails(t)
  BY <1>1, <1>6, AnswerMoves DEF SinkFails, At
<1>7. CASE Unpause(t)
  BY <1>1, <1>7, AnswerMoves DEF Unpause, At
<1>8. CASE ResumeSinks(t)
  BY <1>8 DEF ResumeSinks, At, HandleShape, CmdPlaces
<1>9. CASE SwitchToPlay(t)
  BY <1>1, <1>9, AnswerMoves DEF SwitchToPlay, At
<1>10. CASE SetPaused(t)
  BY <1>10 DEF SetPaused, At, HandleShape, CmdPlaces
<1>11. CASE PauseSinks(t)
  BY <1>1, <1>11, AnswerMoves DEF PauseSinks, At
<1>12. CASE DoTPlay(t)
  BY <1>1, <1>12, AnswerMoves DEF DoTPlay, At
<1>13. CASE SignalExit(t)
  BY <1>13 DEF SignalExit, At, HandleShape, CmdPlaces
<1>14. CASE TearDown(t)
  BY <1>1, <1>14, AnswerMoves DEF TearDown, At
<1> QED
  BY <1>2, <1>3, <1>4, <1>5, <1>6, <1>7, <1>8, <1>9, <1>10, <1>11, <1>12, <1>13, <1>14
     DEF Handle

LEMMA EngineHandles ==
  ASSUME EngineInv, NEW t \in Threads, Engine(t)
  PROVE  EngineInv' /\ SeekQuiet
<1>1. HandleShape(t) /\ UNCHANGED adapterVars
  BY HandleHasShape DEF EngineInv, Engine
<1>2. PICK pc \in CmdPlaces \ {"none"} :
        /\ Goto(t, pc)
        /\ pc = "unpause" => cmd[t].op = "play"
        /\ \/ sch' = sch
           \/ /\ cmd[t].op = "play" /\ cmd[t].at = "body" /\ fsm = "prepare"
              /\ pc = "unpause" /\ sch' = "top"
  BY <1>1 DEF HandleShape
<1>3. /\ cmd' \in [Threads -> Command]
      /\ cmd'[t].at = pc /\ cmd'[t].op = cmd[t].op
      /\ \A u \in Threads \ {t} : cmd'[u] = cmd[u]
  BY <1>2, GotoMoves DEF EngineInv, Commands
<1>4. cmd[t].at # "none" /\ cmd[t].op # "none"
  BY NoCmdFields DEF Engine, EngineInv, Commands, Handle, Enter, AlreadyThere, StartMedia,
     DecoderFails, SinkFails, Unpause, ResumeSinks, SwitchToPlay, SetPaused, PauseSinks,
     DoTPlay, SignalExit, TearDown, At
<1>5. UNCHANGED <<app, st, seek, rewindPos, hist>>
  BY <1>1 DEF adapterVars, HandleShape
<1>6. Commands'
  BY <1>2, <1>3, <1>4, <1>5, NoCmdFields DEF EngineInv, Commands, Api, Threads
<1>7. sch' # sch => sch = "none" /\ t = "api"
  BY <1>2, <1>3 DEF EngineInv, Commands, Starting, Api, Threads
<1>8. Starting'
  BY <1>1, <1>2, <1>3, <1>7 DEF EngineInv, Commands, Starting, Api, Threads, HandleShape,
     SchPlaces
<1>9. Unborn'
  BY <1>2, <1>3, <1>5 DEF EngineInv, Commands, Unborn, Api, Threads
<1>10. SeekQuiet
  BY <1>2, <1>5, <1>7 DEF SeekQuiet
<1> QED BY <1>5, <1>6, <1>8, <1>9, <1>10 DEF EngineInv, RewindsToTarget

-----------------------------------------------------------------------------
(* The calls *)

LEMMA FreshTable ==
  ASSUME seek' \in {seek, NoSeek}, SeekRecord, rewindPos' = NoPos, hist' = NoHist,
         sch' = "none", \A i \in Slots : seek'.tab[i] = NoPos
  PROVE  SeekInv'
<1>1. SeekRecord'
  <2>1. NoSeek.tab \in [Slots -> Positions \cup {NoPos}]
    BY DEF NoSeek, Slots
  <2> QED BY <2>1 DEF SeekRecord, NoSeek, NoHist, Slots
<1>2. SlotsInOrder'
  BY DEF SlotsInOrder
<1>3. OneLive'
  BY DEF OneLive, Live
<1>4. LastRewindWins'
  BY DEF LastRewindWins, NoHist
<1> QED BY <1>1, <1>2, <1>3, <1>4 DEF SeekInv

\* A call that sends its message to the engine, and one that sends none.
LEMMA CallGoesOut ==
  ASSUME EngineInv, NEW op \in Ops, NEW r \in Rates \cup {1}, NEW arg,
         NEW name \in {"play", "first", "pause", "stop", "speed", "reset", "release"},
         ApiIdle, Call(name, arg, op, r), op = "play" => st \notin NoEngineYet,
         UNCHANGED <<st, rewindPos, hist>>
  PROVE  EngineInv' /\ SeekQuiet
<1>1. Send("api", op, r) /\ app'.op = name /\ UNCHANGED <<sch, fsm, seek>>
  BY DEF Call
<1>2. /\ cmd' \in [Threads -> Command]
      /\ Api'.at = "send" /\ Api'.op = op
      /\ cmd'["sch"] = cmd["sch"]
  BY <1>1, SendStarts DEF EngineInv, Commands, Threads, Api
<1>3. op # "none"
  BY DEF Ops
<1>4. Commands'
  BY <1>1, <1>2, <1>3 DEF EngineInv, Commands, Threads, Api
<1>5. Api = NoCmd
  BY DEF EngineInv, Commands, ApiIdle
<1>6. Starting'
  BY <1>1, <1>5, NoCmdFields DEF EngineInv, Starting
<1>7. Unborn'
  BY <1>1, <1>2 DEF EngineInv, Unborn
<1> QED BY <1>1, <1>4, <1>6, <1>7 DEF EngineInv, RewindsToTarget, SeekQuiet

LEMMA CallStaysHere ==
  ASSUME EngineInv, NEW op, ApiIdle, app'.op = op, op # "rewind",
         UNCHANGED <<cmd, sch, fsm, seek, st, rewindPos, hist>>
  PROVE  EngineInv' /\ SeekQuiet
<1>1. Api = NoCmd
  BY DEF EngineInv, Commands, ApiIdle
<1>2. Commands'
  BY <1>1 DEF EngineInv, Commands, Api
<1>3. Starting' /\ Unborn'
  BY DEF EngineInv, Starting, Unborn, Api
<1> QED BY <1>2, <1>3 DEF EngineInv, RewindsToTarget, SeekQuiet

LEMMA SpeedSent ==
  ASSUME NEW r \in Rates \cup {1}
  PROVE  (IF r = 1 THEN "play" ELSE "tplay") \in Ops
BY DEF Ops

LEMMA CallsKeep ==
  ASSUME EngineInv, SeekInv, Calls
  PROVE  EngineInv' /\ SeekInv'
<1> SUFFICES ASSUME ~(EngineInv' /\ SeekQuiet)
             PROVE  EngineInv' /\ SeekInv'
  BY QuietStep
<1>1. CASE SetSource
  <2>1. /\ ApiIdle /\ st = "idle" /\ sch = "none" /\ Api = NoCmd
        /\ \A i \in Slots : seek.tab[i] = NoPos
    BY <1>1 DEF SetSource, EngineInv, Unborn, Commands, NoEngineYet, ApiIdle
  <2>2. /\ UNCHANGED <<cmd, sch, seek>>
        /\ st' \in NoEngineYet /\ fsm' \in {"init", "none"}
        /\ app' = app \/ app' = NoCall
    BY <1>1 DEF SetSource, SetDataSource, Fresh, NoEngineYet
  <2>3. app'.op = "none"
    BY <2>1, <2>2 DEF ApiIdle, NoCall
  <2>4. EngineInv'
    BY <2>1, <2>2, <2>3, NoCmdFields
       DEF EngineInv, Commands, Starting, Unborn, RewindsToTarget, Api
  <2>5. CASE UNCHANGED <<rewindPos, hist>>
    BY <2>2, <2>4, <2>5 DEF SeekQuiet
  <2>6. CASE Fresh
    BY <2>1, <2>2, <2>4, <2>6, FreshTable DEF Fresh, SeekInv
  <2> QED BY <1>1, <2>5, <2>6 DEF SetSource
<1>2. CASE Prepare
  <2>1. ApiIdle /\ st = "initialized" /\ sch = "none" /\ Api = NoCmd
    BY <1>2 DEF Prepare, EngineInv, Unborn, Commands, NoEngineYet, ApiIdle
  <2>2. /\ UNCHANGED <<cmd, sch, seek, app, rewindPos, hist>>
        /\ st' = "prepared" /\ fsm' = "prepare"
    BY <1>2 DEF Prepare, DoPrepare
  <2> QED
    BY <2>1, <2>2 DEF EngineInv, Commands, Starting, Unborn, RewindsToTarget, Api, SeekQuiet,
       NoEngineYet
<1>3. CASE SetParameter
  <2>1. UNCHANGED <<cmd, sch, fsm, seek, st, rewindPos, hist, app>> /\ ApiIdle
    BY <1>3 DEF SetParameter
  <2> QED BY <2>1, CallStaysHere DEF ApiIdle
<1>4. CASE SetLoop
  <2>1. UNCHANGED <<cmd, sch, fsm, seek, st, rewindPos, hist, app>> /\ ApiIdle
    BY <1>4 DEF SetLoop, engineVars
  <2> QED BY <2>1, CallStaysHere DEF ApiIdle
<1>5. CASE NewPlayer
  <2>1. /\ ApiIdle /\ st = "released" /\ sch = "none" /\ Api = NoCmd
        /\ \A i \in Slots : seek.tab[i] = NoPos
    BY <1>5 DEF NewPlayer, EngineInv, Unborn, Commands, NoEngineYet, ApiIdle
  <2>2. /\ UNCHANGED <<cmd, sch, seek, fsm>> /\ st' = "idle" /\ app'.op = "none" /\ Fresh
    BY <1>5 DEF NewPlayer, engineVars, Fresh, NoCall
  <2>3. EngineInv'
    BY <2>1, <2>2, NoCmdFields
       DEF EngineInv, Commands, Starting, Unborn, RewindsToTarget, Api
  <2> QED BY <2>1, <2>2, <2>3, FreshTable DEF Fresh, SeekInv
<1>6. CASE Play
  BY <1>6, CallGoesOut DEF Play, Ops, NoEngineYet
<1>7. CASE PlayAgain
  <2>1. UNCHANGED <<cmd, sch, fsm, seek, st, rewindPos, hist>> /\ ApiIdle /\ app'.op = "again"
    BY <1>7 DEF PlayAgain, engineVars
  <2> QED BY <2>1, CallStaysHere
<1>8. CASE Pause
  BY <1>8, CallGoesOut DEF Pause, Ops, NoEngineYet
<1>9. CASE PauseFromPrepared
  BY <1>9, CallGoesOut DEF PauseFromPrepared, Ops, NoEngineYet
<1>10. CASE Stop
  BY <1>10, CallGoesOut DEF Stop, Ops, NoEngineYet
<1>11. ASSUME NEW r \in Rates \cup {1}, SetPlaybackSpeed(r)
       PROVE  FALSE
  <2>1. ApiIdle /\ st = "started" /\ UNCHANGED <<st, rewindPos, hist>>
        /\ Call("speed", r, IF r = 1 THEN "play" ELSE "tplay", r)
    BY <1>11 DEF SetPlaybackSpeed
  <2> DEFINE op == IF r = 1 THEN "play" ELSE "tplay"
  <2>2. op \in Ops
    BY SpeedSent
  <2> QED BY <2>1, <2>2, CallGoesOut DEF NoEngineYet
<1>12. ASSUME NEW p \in Targets, Rewind(p)
       PROVE  FALSE
  <2>1. /\ UNCHANGED <<cmd, sch, fsm, seek, st, rewindPos, hist>> /\ ApiIdle
        /\ app'.op = "rewind" /\ app'.arg = p /\ st \notin NoEngineYet
    BY <1>12 DEF Rewind, engineVars, NoEngineYet
  <2> QED
    BY <2>1 DEF EngineInv, Commands, Starting, Unborn, RewindsToTarget, Api, SeekQuiet, ApiIdle
<1>13. ASSUME NEW name \in {"reset", "release"}, ResetInner(name)
       PROVE  FALSE
  <2>1. ApiIdle /\ UNCHANGED <<st, rewindPos, hist>>
    BY <1>13 DEF ResetInner
  <2>2. CASE app' = [op |-> name, arg |-> 0] /\ UNCHANGED engineVars
    <3>1. UNCHANGED <<cmd, sch, fsm, seek>> /\ app'.op = name
      BY <2>2 DEF engineVars
    <3> QED BY <2>1, <3>1, CallStaysHere
  <2>3. CASE Call(name, 0, "stop", 1)
    BY <2>1, <2>3, CallGoesOut DEF Ops
  <2> QED BY <1>13, <2>2, <2>3 DEF ResetInner
<1> QED
  BY <1>1, <1>2, <1>3, <1>4, <1>5, <1>6, <1>7, <1>8, <1>9, <1>10, <1>11, <1>12, <1>13
     DEF Calls

-----------------------------------------------------------------------------
(* Rewinding *)

\* Seek takes the one empty slot, or the first of two.
LEMMA SeekTakesSlot ==
  ASSUME SeekRecord, NEW p \in Positions, NEW j \in Slots, seek.tab[j] = NoPos,
         j = 1 \/ seek.tab[1] # NoPos, seek' = WithSeek(p)
  PROVE  /\ seek' = [tab |-> seek'.tab, idx |-> seek'.idx, cnt |-> seek'.cnt,
                     said |-> seek'.said]
         /\ seek'.tab \in [Slots -> Positions \cup {NoPos}]
         /\ seek'.tab[j] = p /\ seek'.tab[3 - j] = seek.tab[3 - j]
         /\ seek'.idx = seek.idx /\ seek'.cnt = seek.cnt
<1> DEFINE tab == seek.tab  idx == seek.idx  cnt == seek.cnt  said == seek.said
<1>1. /\ seek = [tab |-> tab, idx |-> idx, cnt |-> cnt, said |-> said]
      /\ tab \in [Slots -> Positions \cup {NoPos}]
  BY DEF SeekRecord
<1>2. seek' = [tab |-> [tab EXCEPT ![j] = p], idx |-> idx, cnt |-> cnt, said |-> said]
  <2>1. CASE j = 1
    <3>1. WithSeek(p) = [seek EXCEPT !.tab[1] = p]
      BY <2>1 DEF WithSeek
    <3> HIDE DEF tab, idx, cnt, said
    <3> QED BY <1>1, <2>1, <3>1
  <2>2. CASE j = 2
    <3>1. WithSeek(p) = [seek EXCEPT !.tab[2] = p]
      BY <2>2 DEF WithSeek
    <3> HIDE DEF tab, idx, cnt, said
    <3> QED BY <1>1, <2>2, <3>1
  <2> QED BY <2>1, <2>2 DEF Slots
<1> HIDE DEF tab, idx, cnt, said
<1>3. /\ seek'.tab = [tab EXCEPT ![j] = p] /\ seek'.idx = idx /\ seek'.cnt = cnt
      /\ seek'.said = said
  BY <1>2
<1>4. 3 - j \in Slots /\ 3 - j # j
  BY DEF Slots
<1>5. /\ seek'.tab \in [Slots -> Positions \cup {NoPos}]
      /\ seek'.tab[j] = p /\ seek'.tab[3 - j] = tab[3 - j]
  BY <1>1, <1>3, <1>4
<1> QED BY <1>2, <1>3, <1>5 DEF tab, idx, cnt

\* With no rewind under way no slot is live; what DoSeekIfNeed is about to empty is
\* then a slot that has been sought.
LEMMA NoneUnderWay ==
  ASSUME SeekInv, rewindPos = NoPos
  PROVE  /\ \A i \in Slots : ~Live(i)
         /\ sch \notin {"seek", "sought"}
         /\ sch # "clear" => \A i \in Slots : seek.tab[i] = NoPos
         /\ sch = "clear" => seek.tab[seek.idx] # NoPos /\ seek.tab[3 - seek.idx] = NoPos
<1>1. \A i \in Slots : ~Live(i)
  BY DEF SeekInv, OneLive
<1>2. seek.idx \in Slots /\ 3 - seek.idx \in Slots /\ 3 - seek.idx # seek.idx
  BY DEF SeekInv, SeekRecord, Slots
<1>3. seek.cnt \in Nat /\ (seek.cnt # 0 <=> seek.cnt > 0)
  BY DEF SeekInv, SeekRecord
<1> QED BY <1>1, <1>2, <1>3 DEF SeekInv, SlotsInOrder, Live

LEMMA AcceptKeeps ==
  ASSUME SeekInv, NEW p \in Positions, RewindAccepted(p), hist'.wanted = p,
         hist' = [wanted |-> hist'.wanted, answered |-> hist'.answered, owed |-> hist'.owed],
         sch' = sch \/ {sch, sch'} \cap {"seek", "sought", "clear"} = {}
  PROVE  SeekInv'
<1>1. p # NoPos /\ rewindPos' = p
  BY EngineConstants DEF RewindAccepted, Positions, NoPos
<1>2. LastRewindWins'
  BY <1>1 DEF LastRewindWins
<1>3. CASE rewindPos # NoPos
  <2>1. UNCHANGED seek
    BY <1>3 DEF RewindAccepted
  <2>2. SeekRecord' /\ SlotsInOrder'
    BY <1>1, <2>1 DEF SeekInv, SeekRecord, SlotsInOrder
  <2>3. \A i \in Slots : Live(i)' <=> Live(i)
    BY <2>1 DEF Live
  <2>4. \A i \in Slots : 3 - i \in Slots
    BY DEF Slots
  <2>5. OneLive'
    BY <1>1, <2>3, <2>4 DEF SeekInv, OneLive
  <2> QED BY <1>2, <2>2, <2>5 DEF SeekInv
<1>4. CASE rewindPos = NoPos
  <2>1. seek' = WithSeek(p)
    BY <1>4 DEF RewindAccepted
  <2>2. /\ sch \notin {"seek", "sought"}
        /\ sch # "clear" => \A i \in Slots : seek.tab[i] = NoPos
        /\ sch = "clear" => seek.tab[seek.idx] # NoPos /\ seek.tab[3 - seek.idx] = NoPos
    BY <1>4, NoneUnderWay
  <2>3. SeekRecord /\ seek.idx \in Slots
    BY DEF SeekInv, SeekRecord
  <2>4. PICK j \in Slots : /\ seek.tab[j] = NoPos /\ (j = 1 \/ seek.tab[1] # NoPos)
                           /\ sch = "clear" => j = 3 - seek.idx
                           /\ sch # "clear" => seek.tab[3 - j] = NoPos
    <3>1. CASE sch = "clear"
      BY <2>2, <2>3, <3>1 DEF Slots
    <3>2. CASE sch # "clear"
      <4>1. 1 \in Slots /\ 3 - 1 \in Slots
        BY DEF Slots
      <4> QED BY <2>2, <3>2, <4>1
    <3> QED BY <3>1, <3>2
  <2>5. /\ seek' = [tab |-> seek'.tab, idx |-> seek'.idx, cnt |-> seek'.cnt,
                    said |-> seek'.said]
        /\ seek'.tab \in [Slots -> Positions \cup {NoPos}]
        /\ seek'.tab[j] = p /\ seek'.tab[3 - j] = seek.tab[3 - j]
        /\ seek'.idx = seek.idx /\ seek'.cnt = seek.cnt
    BY <2>1, <2>3, <2>4, SeekTakesSlot
  <2>6. SeekRecord'
    BY <1>1, <2>5 DEF SeekInv, SeekRecord
  <2>7. 3 - (3 - seek.idx) = seek.idx /\ \A i \in Slots : i # j => i = 3 - j
    BY <2>3, <2>4 DEF Slots
  <2>8. SlotsInOrder'
    BY <1>1, <2>2, <2>4, <2>5, <2>7 DEF SeekInv, SlotsInOrder
  <2>9. \A i \in Slots : i # j => ~Live(i)'
    <3>1. CASE sch = "clear"
      <4>1. sch' = "clear" /\ seek'.idx = seek.idx /\ j = 3 - seek.idx
        BY <2>4, <2>5, <3>1
      <4>2. \A i \in Slots : i # j => i = seek'.idx
        BY <2>7, <4>1
      <4> QED BY <4>1, <4>2 DEF Live
    <3>2. CASE sch # "clear"
      <4>1. \A i \in Slots : i # j => seek'.tab[i] = NoPos
        BY <2>4, <2>5, <2>7, <3>2
      <4> QED BY <4>1 DEF Live
    <3> QED BY <3>1, <3>2
  <2>10. \A i \in Slots : 3 - i \in Slots /\ 3 - i # i
    BY DEF Slots
  <2>11. OneLive'
    BY <1>1, <2>9, <2>10 DEF OneLive
  <2> QED BY <1>2, <2>6, <2>8, <2>11 DEF SeekInv
<1> QED BY <1>3, <1>4

\* A refused rewind happens only while no slot is live.
LEMMA RefuseKeeps ==
  ASSUME SeekInv, NEW p \in Positions, RewindRefused(p), UNCHANGED hist,
         sch' = sch \/ {sch, sch'} \cap {"seek", "sought", "clear"} = {}
  PROVE  SeekInv'
<1>1. p # NoPos /\ rewindPos' = p /\ rewindPos = NoPos /\ UNCHANGED seek
  BY EngineConstants DEF RewindRefused, Positions, NoPos
<1>2. \A i \in Slots : ~Live(i)
  BY <1>1, NoneUnderWay
<1>3. \A i \in Slots : Live(i)' <=> Live(i)
  BY <1>1 DEF Live
<1>4. SeekRecord' /\ SlotsInOrder'
  BY <1>1 DEF SeekInv, SeekRecord, SlotsInOrder
<1>5. OneLive'
  BY <1>2, <1>3 DEF OneLive
<1> QED BY <1>1, <1>4, <1>5 DEF SeekInv, LastRewindWins

-----------------------------------------------------------------------------
(* The returns *)

LEMMA BackKeeps ==
  ASSUME EngineInv, NEW name, Back(name), UNCHANGED <<rewindPos, hist>>,
         st' = st \/ st' \notin NoEngineYet
  PROVE  EngineInv' /\ SeekQuiet
<1>1. UNCHANGED <<sch, fsm, seek>> /\ app'.op = "none" /\ Api.at \in {"ok", "failed"}
  BY DEF Back, NoCall, Answered, Api
<1>2. /\ cmd' \in [Threads -> Command] /\ Api' = NoCmd /\ cmd'["sch"] = cmd["sch"]
  BY BackToNone DEF Back, EngineInv, Commands, Threads, Api
<1>3. Commands'
  BY <1>1, <1>2, NoCmdFields DEF EngineInv, Commands, Threads, Api
<1>4. Starting'
  BY <1>1 DEF EngineInv, Starting
<1>5. Unborn' /\ RewindsToTarget'
  BY <1>1, <1>2, NoCmdFields DEF EngineInv, Unborn, RewindsToTarget
<1> QED BY <1>1, <1>3, <1>4, <1>5 DEF EngineInv, SeekQuiet

\* Deinit leaves nothing of the engine.
LEMMA DeinitKeeps ==
  ASSUME EngineInv, SeekInv, Deinit, Fresh
  PROVE  EngineInv' /\ SeekInv'
<1>1. /\ cmd' \in [Threads -> Command] /\ cmd'["api"] = NoCmd /\ cmd'["sch"] = NoCmd
  BY NoCommands DEF Deinit
<1>2. seek' = NoSeek /\ sch' = "none" /\ fsm' = "none" /\ app'.op = "none"
      /\ rewindPos' = NoPos /\ hist' = NoHist
  BY DEF Deinit, Fresh, NoCall
<1>3. \A i \in Slots : seek'.tab[i] = NoPos
  BY <1>2 DEF NoSeek, Slots
<1>4. EngineInv'
  BY <1>1, <1>2, <1>3, NoCmdFields
     DEF EngineInv, Commands, Starting, Unborn, RewindsToTarget, Api, Threads, SchPlaces
<1> QED BY <1>2, <1>3, <1>4, FreshTable DEF SeekInv

LEMMA ReturnsKeep ==
  ASSUME EngineInv, SeekInv, Returns
  PROVE  EngineInv' /\ SeekInv'
<1> SUFFICES ASSUME ~(EngineInv' /\ SeekQuiet)
             PROVE  EngineInv' /\ SeekInv'
  BY QuietStep
<1>1. CASE PlayReturns
  BY <1>1, BackKeeps DEF PlayReturns, NoEngineYet
<1>2. CASE PlayAgainReturns
  <2>1. UNCHANGED <<cmd, sch, fsm, seek, st, rewindPos, hist>>
        /\ app.op = "again" /\ app'.op = "none"
    BY <1>2 DEF PlayAgainReturns, engineVars, NoCall
  <2> QED
    BY <2>1 DEF EngineInv, Commands, Starting, Unborn, RewindsToTarget, Api, SeekQuiet
<1>3. CASE PauseReturns
  BY <1>3, BackKeeps DEF PauseReturns, NoEngineYet
<1>4. CASE PauseFromPreparedReturns
  BY <1>4, BackKeeps DEF PauseFromPreparedReturns, NoEngineYet
<1>5. CASE StopReturns
  BY <1>5, BackKeeps DEF StopReturns, NoEngineYet
<1>6. CASE SetPlaybackSpeedReturns
  BY <1>6, BackKeeps DEF SetPlaybackSpeedReturns
<1>7. CASE RewindReturns
  <2>1. /\ app.op = "rewind" /\ app'.op = "none" /\ UNCHANGED <<st, fsm, cmd, sch>>
        /\ app.arg \in Targets
    BY <1>7 DEF RewindReturns, NoCall, EngineInv, RewindsToTarget
  <2>2. app.arg \in Positions
    BY <2>1, AdapterConstants DEF Positions
  <2>3. EngineInv'
    BY <2>1 DEF EngineInv, Commands, Starting, Unborn, RewindsToTarget, Api
  <2>4. CASE RewindAccepted(app.arg) /\ hist' = [hist EXCEPT !.wanted = app.arg, !.owed = TRUE]
    <3> DEFINE arg == app.arg  w == hist.wanted  a == hist.answered  o == hist.owed
    <3>1. hist = [wanted |-> w, answered |-> a, owed |-> o]
      BY DEF SeekInv, SeekRecord
    <3>2. hist' = [hist EXCEPT !.wanted = arg, !.owed = TRUE]
      BY <2>4
    <3>3. /\ hist'.wanted = arg
          /\ hist' = [wanted |-> hist'.wanted, answered |-> hist'.answered,
                      owed |-> hist'.owed]
      <4> HIDE DEF w, a, o, arg
      <4>1. hist' = [wanted |-> arg, answered |-> a, owed |-> TRUE]
        BY <3>1, <3>2
      <4> QED BY <4>1
    <3> QED BY <2>1, <2>2, <2>3, <2>4, <3>3, AcceptKeeps
  <2>5. CASE RewindRefused(app.arg) /\ UNCHANGED hist
    BY <2>1, <2>2, <2>3, <2>5, RefuseKeeps
  <2> QED BY <1>7, <2>4, <2>5 DEF RewindReturns
<1>8. ASSUME NEW name, NEW to, ResetReturns(name, to)
      PROVE  EngineInv' /\ SeekInv'
  BY <1>8, DeinitKeeps DEF ResetReturns
<1> QED BY <1>1, <1>2, <1>3, <1>4, <1>5, <1>6, <1>7, <1>8 DEF Returns

-----------------------------------------------------------------------------
(* The sch thread *)

\* The thread moves; nothing of the adapter does.
LEMMA SchMoves ==
  ASSUME EngineInv, sch # "none", sch' \in SchPlaces,
         UNCHANGED <<fsm, cmd, app, st>>
  PROVE  EngineInv'
<1>1. Commands' /\ RewindsToTarget'
  BY DEF EngineInv, Commands, Api, RewindsToTarget
<1>2. Starting'
  BY DEF EngineInv, Starting, Api
<1>3. Unborn'
  BY DEF EngineInv, Unborn
<1> QED BY <1>1, <1>2, <1>3 DEF EngineInv

\* What stays the same when only the place in the iteration and its marks change.
LEMMA RecordChanges ==
  ASSUME SeekRecord, NEW tab \in [Slots -> Positions \cup {NoPos}], NEW idx \in Slots,
         NEW cnt \in Nat, NEW said, UNCHANGED <<rewindPos, hist>>,
         seek' = [tab |-> tab, idx |-> idx, cnt |-> cnt, said |-> said]
  PROVE  SeekRecord' /\ seek'.tab = tab /\ seek'.idx = idx /\ seek'.cnt = cnt
                     /\ seek'.said = said
BY DEF SeekRecord

LEMMA SlotAndOther ==
  ASSUME NEW i \in Slots
  PROVE  3 - i \in Slots /\ 3 - i # i /\ 3 - (3 - i) = i
         /\ \A j \in Slots : j = i \/ j = 3 - i
BY DEF Slots

\* DoSeekIfNeed looks at the first slot.
LEMMA SeekBeginKeeps ==
  ASSUME SeekInv, SchSeekBegin, UNCHANGED adapterVars
  PROVE  SeekInv'
<1> DEFINE tab == seek.tab  idx == seek.idx  cnt == seek.cnt  said == seek.said
<1>1. /\ sch = "top" /\ Pending # {}
      /\ seek' = [seek EXCEPT !.idx = 1, !.cnt = 0]
      /\ sch' = IF seek.tab[1] # NoPos THEN "seek" ELSE "clear"
      /\ UNCHANGED <<rewindPos, hist>>
  BY DEF SchSeekBegin, adapterVars
<1>2. /\ seek = [tab |-> tab, idx |-> idx, cnt |-> cnt, said |-> said]
      /\ tab \in [Slots -> Positions \cup {NoPos}]
  BY DEF SeekInv, SeekRecord
<1>3. seek' = [tab |-> tab, idx |-> 1, cnt |-> 0, said |-> said]
  <2> HIDE DEF tab, idx, cnt, said
  <2> QED BY <1>1, <1>2
<1>4. SeekRecord' /\ seek'.tab = tab /\ seek'.idx = 1 /\ seek'.cnt = 0
  <2>1. 1 \in Slots /\ 0 \in Nat /\ SeekRecord
    BY DEF Slots, SeekInv
  <2> HIDE DEF tab, idx, cnt, said
  <2> QED BY <1>1, <1>2, <1>3, <2>1, RecordChanges
<1>5. SlotsInOrder'
  <2>1. tab[1] = NoPos => tab[2] # NoPos
    BY <1>1 DEF Pending, Slots
  <2> QED BY <1>1, <1>4, <2>1 DEF SlotsInOrder
<1>6. \A i \in Slots : Live(i)' <=> Live(i)
  BY <1>1, <1>4 DEF Live
<1>7. OneLive'
  BY <1>1, <1>6, SlotAndOther DEF SeekInv, OneLive
<1> QED BY <1>1, <1>4, <1>5, <1>7 DEF SeekInv, LastRewindWins

LEMMA SeekKeeps ==
  ASSUME SeekInv, SchSeek, UNCHANGED adapterVars
  PROVE  SeekInv'
<1> DEFINE tab == seek.tab  idx == seek.idx  cnt == seek.cnt
<1>1. /\ sch = "seek" /\ sch' = "sought" /\ UNCHANGED <<rewindPos, hist>>
      /\ \/ seek' = [seek EXCEPT !.cnt = @ + 1, !.said = tab[idx]]
         \/ seek' = [seek EXCEPT !.cnt = @ + 1, !.said = data.pos]
  BY DEF SchSeek, adapterVars
<1>2. /\ seek = [tab |-> tab, idx |-> idx, cnt |-> cnt, said |-> seek.said]
      /\ tab \in [Slots -> Positions \cup {NoPos}] /\ idx \in Slots /\ cnt \in Nat
  BY DEF SeekInv, SeekRecord
<1>3. PICK to : seek' = [seek EXCEPT !.cnt = @ + 1, !.said = to]
  BY <1>1
<1>4. seek' = [tab |-> tab, idx |-> idx, cnt |-> cnt + 1, said |-> to]
  <2> DEFINE said == seek.said
  <2> HIDE DEF tab, idx, cnt, said
  <2>1. seek = [tab |-> tab, idx |-> idx, cnt |-> cnt, said |-> said]
    BY <1>2 DEF said
  <2> QED BY <1>3, <2>1
<1>5. SeekRecord' /\ seek'.tab = tab /\ seek'.idx = idx /\ seek'.cnt = cnt + 1
  <2>1. SeekRecord /\ cnt + 1 \in Nat
    BY <1>2 DEF SeekInv
  <2> HIDE DEF tab, idx, cnt
  <2> QED BY <1>1, <1>2, <1>4, <2>1, RecordChanges
<1>6. SlotsInOrder'
  BY <1>1, <1>2, <1>5 DEF SeekInv, SlotsInOrder
<1>7. \A i \in Slots : Live(i)' <=> Live(i)
  BY <1>1, <1>5 DEF Live
<1>8. OneLive'
  BY <1>1, <1>7, SlotAndOther DEF SeekInv, OneLive
<1> QED BY <1>1, <1>5, <1>6, <1>8 DEF SeekInv, LastRewindWins

\* The slot that was sought is emptied; it was not live any more.
LEMMA ClearKeeps ==
  ASSUME SeekInv, SchClear, UNCHANGED adapterVars
  PROVE  SeekInv'
<1> DEFINE old == seek.tab  idx == seek.idx  cnt == seek.cnt
           tab == [old EXCEPT ![idx] = NoPos]  next == 3 - idx
<1>1. /\ sch = "clear" /\ UNCHANGED <<rewindPos, hist>>
      /\ IF tab[next] = NoPos \/ cnt >= 2
         THEN seek' = [seek EXCEPT !.tab = tab, !.said = NoPos] /\ sch' = "sought all"
         ELSE /\ seek' = [seek EXCEPT !.tab = tab, !.idx = next, !.said = NoPos]
              /\ sch' = "seek"
  BY DEF SchClear, adapterVars
<1>2. /\ seek = [tab |-> old, idx |-> idx, cnt |-> cnt, said |-> seek.said]
      /\ old \in [Slots -> Positions \cup {NoPos}] /\ idx \in Slots /\ cnt \in Nat
  BY DEF SeekInv, SeekRecord
<1>3. next \in Slots /\ next # idx /\ \A j \in Slots : j = idx \/ j = next
  BY <1>2, SlotAndOther
<1>4. /\ tab \in [Slots -> Positions \cup {NoPos}]
      /\ tab[idx] = NoPos /\ tab[next] = old[next]
  <2> HIDE DEF old, idx, next
  <2> QED BY <1>2, <1>3
<1>5. PICK at \in Slots : /\ seek' = [tab |-> tab, idx |-> at, cnt |-> cnt, said |-> NoPos]
                          /\ \/ sch' = "sought all"
                             \/ sch' = "seek" /\ at = next /\ tab[next] # NoPos
  <2> DEFINE said == seek.said
  <2>0. seek = [tab |-> old, idx |-> idx, cnt |-> cnt, said |-> said]
    BY <1>2 DEF said
  <2>1. CASE tab[next] = NoPos \/ cnt >= 2
    <3>1. seek' = [seek EXCEPT !.tab = tab, !.said = NoPos] /\ sch' = "sought all"
      BY <1>1, <2>1
    <3> HIDE DEF old, idx, cnt, tab, next, said
    <3> QED BY <1>2, <2>0, <3>1
  <2>2. CASE ~(tab[next] = NoPos \/ cnt >= 2)
    <3>1. seek' = [seek EXCEPT !.tab = tab, !.idx = next, !.said = NoPos] /\ sch' = "seek"
      BY <1>1, <2>2
    <3> HIDE DEF old, idx, cnt, tab, next, said
    <3> QED BY <1>3, <2>0, <2>2, <3>1
  <2> QED BY <2>1, <2>2
<1>6. SeekRecord' /\ seek'.tab = tab /\ seek'.idx = at
  <2> HIDE DEF old, idx, cnt, tab
  <2> QED BY <1>1, <1>2, <1>4, <1>5, RecordChanges DEF SeekInv
<1>7. SlotsInOrder'
  BY <1>5, <1>6 DEF SlotsInOrder
<1>8. ASSUME NEW i \in Slots
      PROVE  Live(i)' <=> (i = next /\ Live(i))
  <2> DEFINE nextTo == next
  <2>1. sch' # "clear" /\ (i = idx \/ i = nextTo) /\ nextTo # idx
    BY <1>3, <1>5
  <2>2. Live(i)' <=> tab[i] # NoPos
    BY <1>6, <2>1 DEF Live
  <2>3. Live(i) <=> old[i] # NoPos /\ i # idx
    BY <1>1 DEF Live
  <2> HIDE DEF old, idx, tab
  <2> QED BY <1>4, <2>1, <2>2, <2>3
<1>9. OneLive'
  <2>1. 3 - next # next
    BY <1>2, <1>3, SlotAndOther
  <2>2. ASSUME NEW i \in Slots, Live(i)'
        PROVE  rewindPos' # NoPos /\ hist'.wanted = rewindPos' /\ ~Live(3 - i)'
    <3>1. i = next /\ Live(i) /\ 3 - i \in Slots /\ 3 - i # next
      BY <1>8, <2>1, <2>2, SlotAndOther
    <3>2. ~Live(3 - i)'
      BY <1>8, <3>1
    <3> QED BY <1>1, <3>1, <3>2 DEF SeekInv, OneLive
  <2> QED BY <2>2 DEF OneLive
<1> QED BY <1>1, <1>6, <1>7, <1>9 DEF SeekInv, LastRewindWins

\* A position asked for meanwhile goes to the other slot; otherwise the rewind is over,
\* and the position reported is the one asked for.
LEMMA NotifyKeeps ==
  ASSUME SeekInv, NotifySeekComplete
  PROVE  SeekInv'
<1> DEFINE idx == seek.idx  w == hist.wanted  a == hist.answered  o == hist.owed
<1>1. sch = "sought" /\ sch' = "clear"
  BY DEF NotifySeekComplete
<1>2. /\ idx \in Slots /\ seek.cnt \in Nat /\ seek.cnt > 0 /\ seek.tab[idx] # NoPos
      /\ hist = [wanted |-> w, answered |-> a, owed |-> o]
      /\ rewindPos \in Positions \cup {NoPos}
  BY <1>1 DEF SeekInv, SeekRecord, SlotsInOrder
<1>3. /\ 3 - idx \in Slots /\ 3 - idx # idx /\ 3 - (3 - idx) = idx
      /\ \A j \in Slots : j = idx \/ j = 3 - idx
  BY <1>2, SlotAndOther
<1>4. rewindPos # NoPos /\ w = rewindPos /\ seek.tab[3 - idx] = NoPos
  <2>1. \A i \in Slots : Live(i) <=> seek.tab[i] # NoPos
    BY <1>1 DEF Live
  <2> QED BY <1>2, <1>3, <2>1 DEF SeekInv, OneLive
<1>5. CASE rewindPos # seek.said
  <2> DEFINE said == seek.said
  <2>1. /\ seek' = WithSeek(rewindPos) /\ UNCHANGED rewindPos
        /\ hist' = [hist EXCEPT !.answered = said]
    BY <1>4, <1>5 DEF NotifySeekComplete
  <2>2. /\ hist'.wanted = w
        /\ hist' = [wanted |-> hist'.wanted, answered |-> hist'.answered, owed |-> hist'.owed]
    <3> HIDE DEF w, a, o, said
    <3>1. hist' = [wanted |-> w, answered |-> said, owed |-> o]
      BY <1>2, <2>1
    <3> QED BY <3>1
  <2>3. PICK j \in Slots : j = 3 - idx
    BY <1>3
  <2>4. seek.tab[j] = NoPos /\ (j = 1 \/ seek.tab[1] # NoPos) /\ SeekRecord
        /\ rewindPos \in Positions
    BY <1>2, <1>3, <1>4, <2>3 DEF Slots, SeekInv
  <2>5. /\ seek' = [tab |-> seek'.tab, idx |-> seek'.idx, cnt |-> seek'.cnt,
                    said |-> seek'.said]
        /\ seek'.tab \in [Slots -> Positions \cup {NoPos}]
        /\ seek'.tab[j] = rewindPos /\ seek'.tab[3 - j] = seek.tab[3 - j]
        /\ seek'.idx = idx /\ seek'.cnt = seek.cnt
    BY <2>1, <2>4, SeekTakesSlot
  <2>6. SeekRecord'
    BY <1>2, <2>1, <2>2, <2>5 DEF SeekRecord
  <2>7. SlotsInOrder'
    BY <1>1, <1>2, <1>3, <2>3, <2>5 DEF SlotsInOrder
  <2>8. ASSUME NEW i \in Slots
        PROVE  Live(i)' => i = j
    BY <1>1, <1>3, <2>3, <2>5 DEF Live
  <2>9. OneLive'
    BY <1>4, <2>1, <2>2, <2>8, SlotAndOther DEF OneLive
  <2>10. LastRewindWins'
    BY <1>4, <2>1 DEF LastRewindWins
  <2> QED BY <2>6, <2>7, <2>9, <2>10 DEF SeekInv
<1>6. CASE rewindPos = seek.said
  <2> DEFINE said == seek.said  owed == o /\ ~extra
  <2>1. /\ rewindPos' = NoPos /\ UNCHANGED seek
        /\ hist' = [hist EXCEPT !.answered = said, !.owed = @ /\ ~extra]
    BY <1>6 DEF NotifySeekComplete
  <2>2. /\ hist'.wanted = w /\ hist'.answered = said
        /\ hist' = [wanted |-> hist'.wanted, answered |-> hist'.answered, owed |-> hist'.owed]
    <3> HIDE DEF w, a, o, said
    <3>1. hist' = [wanted |-> w, answered |-> said, owed |-> owed]
      BY <1>2, <2>1
    <3> HIDE DEF owed
    <3> QED BY <3>1
  <2>3. SeekRecord'
    BY <2>1, <2>2 DEF SeekInv, SeekRecord
  <2>4. SlotsInOrder'
    BY <1>1, <1>2, <2>1 DEF SlotsInOrder
  <2>5. ASSUME NEW i \in Slots
        PROVE  ~Live(i)'
    BY <1>1, <1>3, <1>4, <2>1 DEF Live
  <2>6. OneLive'
    BY <2>5 DEF OneLive
  <2>7. LastRewindWins'
    BY <1>4, <1>6, <2>2 DEF LastRewindWins
  <2> QED BY <2>3, <2>4, <2>6, <2>7 DEF SeekInv
<1> QED BY <1>5, <1>6

\* Looping asks for the beginning like an application would.
LEMMA CompleteKeeps ==
  ASSUME SeekInv, NotifyPlaybackComplete
  PROVE  SeekInv'
<1>1. sch = "eof" /\ sch' = "top"
  BY DEF NotifyPlaybackComplete
<1>2. 0 \in Positions
  BY EngineConstants DEF Positions
<1>3. CASE ~loop
  BY <1>1, <1>3, QuietStep DEF NotifyPlaybackComplete, SeekQuiet
<1>4. CASE RewindAccepted(0) /\ hist' = [hist EXCEPT !.wanted = 0]
  <2> DEFINE w == hist.wanted  a == hist.answered  o == hist.owed
  <2>1. hist = [wanted |-> w, answered |-> a, owed |-> o]
    BY DEF SeekInv, SeekRecord
  <2>2. /\ hist'.wanted = 0
        /\ hist' = [wanted |-> hist'.wanted, answered |-> hist'.answered, owed |-> hist'.owed]
    <3>1. hist' = [hist EXCEPT !.wanted = 0]
      BY <1>4
    <3> HIDE DEF w, a, o
    <3>2. hist' = [wanted |-> 0, answered |-> a, owed |-> o]
      BY <2>1, <3>1
    <3> QED BY <3>2
  <2> QED BY <1>1, <1>2, <1>4, <2>2, AcceptKeeps
<1>5. CASE RewindRefused(0) /\ UNCHANGED hist
  BY <1>1, <1>2, <1>5, RefuseKeeps
<1> QED BY <1>3, <1>4, <1>5 DEF NotifyPlaybackComplete

LEMMA SchKeeps ==
  ASSUME EngineInv, SeekInv, Sch
  PROVE  EngineInv' /\ SeekInv'
<1>1. CASE SchExit /\ UNCHANGED adapterVars
  BY <1>1, SchMoves, QuietStep DEF SchExit, adapterVars, SchPlaces, SeekQuiet
<1>2. ASSUME Render, sch \in {"top", "render"},
             UNCHANGED <<fsm, handler, cmd, paused, exiting, seek, rate, pauseMode>>,
             UNCHANGED adapterVars
      PROVE  EngineInv' /\ SeekInv'
  <2>1. sch' \in {"event", "eof", "top"}
    BY <1>2 DEF Render
  <2> QED BY <1>2, <2>1, SchMoves, QuietStep DEF adapterVars, SchPlaces, SeekQuiet
<1>3. CASE SchRender /\ UNCHANGED adapterVars
  BY <1>2, <1>3 DEF SchRender
<1>4. CASE SchSeekBegin /\ UNCHANGED adapterVars
  <2>1. EngineInv'
    BY <1>4, SchMoves DEF SchSeekBegin, adapterVars, SchPlaces
  <2> QED BY <1>4, <2>1, SeekBeginKeeps
<1>5. CASE SchSeek /\ UNCHANGED adapterVars
  <2>1. EngineInv'
    BY <1>5, SchMoves DEF SchSeek, adapterVars, SchPlaces
  <2> QED BY <1>5, <2>1, SeekKeeps
<1>6. CASE SchClear /\ UNCHANGED adapterVars
  <2>1. sch' \in {"sought all", "seek"}
    BY <1>6 DEF SchClear
  <2>2. EngineInv'
    BY <1>6, <2>1, SchMoves DEF SchClear, adapterVars, SchPlaces
  <2> QED BY <1>6, <2>2, ClearKeeps
<1>7. CASE SchSeekEnd /\ UNCHANGED adapterVars
  BY <1>7, SchMoves, QuietStep DEF SchSeekEnd, adapterVars, SchPlaces, SeekQuiet
<1>8. CASE SchRenderAfterSeek /\ UNCHANGED adapterVars
  BY <1>2, <1>8 DEF SchRenderAfterSeek
<1>9. CASE FirstFrameEvent
  <2>1. UNCHANGED <<fsm, st, app, seek, rewindPos, hist>> /\ sch = "event"
        /\ sch' \in {"await", "top"}
    BY <1>9 DEF FirstFrameEvent, adapterVars
  <2>2. UNCHANGED cmd \/ Send("sch", "pause", 1)
    BY <1>9 DEF FirstFrameEvent
  <2>3. /\ cmd' \in [Threads -> Command] /\ Api' = Api
        /\ cmd'["sch"].op \in {"none", "pause"}
        /\ cmd'["sch"].op = "none" => cmd'["sch"].at = "none"
    BY <2>2, SendStarts DEF EngineInv, Commands, Threads, Ops, Api
  <2>4. Commands'
    BY <2>1, <2>3 DEF EngineInv, Commands, Threads, Api
  <2>5. EngineInv'
    BY <2>1, <2>3, <2>4 DEF EngineInv, Starting, Unborn, RewindsToTarget, SchPlaces
  <2> QED BY <2>1, <2>5, QuietStep DEF SeekQuiet
<1>10. CASE FirstFrameHandled
  <2>1. UNCHANGED <<fsm, st, app, seek, rewindPos, hist>> /\ sch = "await" /\ sch' = "top"
        /\ cmd' = [cmd EXCEPT !["sch"] = NoCmd]
    BY <1>10 DEF FirstFrameHandled, adapterVars
  <2>2. cmd' \in [Threads -> Command] /\ Api' = Api /\ cmd'["sch"] = NoCmd
    BY <2>1, BackToNone DEF EngineInv, Commands, Threads, Api
  <2>3. Commands'
    BY <2>1, <2>2, NoCmdFields DEF EngineInv, Commands, Threads, Api
  <2>4. EngineInv'
    BY <2>1, <2>2, <2>3 DEF EngineInv, Starting, Unborn, RewindsToTarget, SchPlaces
  <2> QED BY <2>1, <2>4, QuietStep DEF SeekQuiet
<1>11. CASE NotifyPlaybackComplete
  <2>1. UNCHANGED <<fsm, cmd, app>> /\ sch = "eof" /\ sch' = "top" /\ st' \in {st, "complete"}
    BY <1>11 DEF NotifyPlaybackComplete
  <2>2. EngineInv'
    BY <2>1 DEF EngineInv, Commands, Starting, Unborn, RewindsToTarget, SchPlaces, Api,
       NoEngineYet
  <2> QED BY <1>11, <2>2, CompleteKeeps
<1>12. CASE NotifySeekComplete
  <2>1. EngineInv'
    BY <1>12, SchMoves DEF NotifySeekComplete, SchPlaces
  <2> QED BY <1>12, <2>1, NotifyKeeps
<1> QED
  BY <1>1, <1>3, <1>4, <1>5, <1>6, <1>7, <1>8, <1>9, <1>10, <1>11, <1>12
     DEF Sch, SchStep, Callbacks

-----------------------------------------------------------------------------
LEMMA SeekInvariant == Spec => [](EngineInv /\ SeekInv)
<1>1. Init => EngineInv /\ SeekInv
  <2> SUFFICES ASSUME Init
               PROVE  EngineInv /\ SeekInv
    OBVIOUS
  <2>1. /\ cmd \in [Threads -> Command] /\ cmd["api"] = NoCmd /\ cmd["sch"] = NoCmd
    BY DEF Init, EngineNone, Command, CmdPlaces, NoCmd, Threads
  <2>2. /\ seek = NoSeek /\ sch = "none" /\ fsm = "none" /\ app.op = "none"
        /\ rewindPos = NoPos /\ hist = NoHist
    BY DEF Init, EngineNone, NoCall
  <2>3. \A i \in Slots : seek.tab[i] = NoPos
    BY <2>2 DEF NoSeek, Slots
  <2>4. EngineInv
    BY <2>1, <2>2, <2>3, NoCmdFields
       DEF EngineInv, Commands, Starting, Unborn, RewindsToTarget, Api, Threads, SchPlaces
  <2>5. SeekRecord
    BY <2>2 DEF SeekRecord, NoSeek, NoHist, Slots
  <2>6. SlotsInOrder /\ OneLive /\ LastRewindWins
    BY <2>2, <2>3 DEF SlotsInOrder, OneLive, Live, LastRewindWins, NoHist
  <2> QED BY <2>4, <2>5, <2>6 DEF SeekInv
<1>2. EngineInv /\ SeekInv /\ [Next]_vars => (EngineInv /\ SeekInv)'
  <2> SUFFICES ASSUME EngineInv, SeekInv, [Next]_vars
               PROVE  (EngineInv /\ SeekInv)'
    OBVIOUS
  <2>1. CASE Calls
    BY <2>1, CallsKeep
  <2>2. CASE Returns
    BY <2>2, ReturnsKeep
  <2>3. ASSUME NEW t \in Threads, Engine(t)
        PROVE  (EngineInv /\ SeekInv)'
    BY <2>3, EngineHandles, QuietStep
  <2>4. CASE Sch
    BY <2>4, SchKeeps
  <2>5. CASE UNCHANGED vars
    <3>1. UNCHANGED <<fsm, cmd, sch, app, st, seek, rewindPos, hist>>
      BY <2>5 DEF vars, engineVars, adapterVars
    <3>2. EngineInv'
      BY <3>1 DEF EngineInv, Commands, Starting, Unborn, RewindsToTarget, Api
    <3> QED BY <3>1, <3>2, QuietStep DEF SeekQuiet
  <2> QED BY <2>1, <2>2, <2>3, <2>4, <2>5 DEF Next, Threads
<1> QED BY <1>1, <1>2, PTL DEF Spec

\* Rewinds that meet are merged and the newest wins: whatever calls, faults, pictures
\* and loops there are, once no rewind is under way the last position reported by
\* NotifySeekComplete is the last position Rewind accepted.
THEOREM NewestRewindWins == Spec => []LastRewindWins
<1>1. SeekInv => LastRewindWins
  BY DEF SeekInv
<1> QED BY <1>1, SeekInvariant, PTL

\* Seek fills slots and empties none.
LEMMA SeekKeepsSlots ==
  ASSUME SeekRecord, NEW p \in Positions, RewindAccepted(p) \/ seek' = WithSeek(p),
         NEW i \in Slots, seek.tab[i] # NoPos
  PROVE  seek'.tab[i] # NoPos
<1>1. CASE UNCHANGED seek
  BY <1>1
<1>2. CASE seek' = WithSeek(p) /\ \A j \in Slots : seek.tab[j] # NoPos
  <2>1. seek' = seek
    BY <1>2 DEF WithSeek, Slots
  <2> QED BY <2>1
<1>3. ASSUME seek' = WithSeek(p), NEW k \in Slots, seek.tab[k] = NoPos
      PROVE  seek'.tab[i] # NoPos
  <2>1. PICK j \in Slots : seek.tab[j] = NoPos /\ (j = 1 \/ seek.tab[1] # NoPos)
    BY <1>3 DEF Slots
  <2>2. seek'.tab[3 - j] = seek.tab[3 - j]
    BY <1>3, <2>1, SeekTakesSlot
  <2>3. i = 3 - j
    BY <2>1, SlotAndOther
  <2> QED BY <2>2, <2>3
<1> QED BY <1>1, <1>2, <1>3 DEF RewindAccepted

\* The step of NoSeekLost.
SeekHeld(i) ==
  seek.tab[i] # NoPos /\ seek'.tab[i] = NoPos =>
    fsm' = "none" \/ (sch = "clear" /\ i = seek.idx /\ seek.cnt > 0)

LEMMA SlotsHeld ==
  ASSUME EngineInv, SeekInv, [Next]_vars, NEW i \in Slots
  PROVE  SeekHeld(i)
<1> SUFFICES ASSUME seek' # seek
             PROVE  SeekHeld(i)
  BY DEF SeekHeld
<1>1. ~Calls
  BY DEF Calls, SetSource, Prepare, SetParameter, SetLoop, NewPlayer, Play, PlayAgain, Pause,
     PauseFromPrepared, Stop, SetPlaybackSpeed, Rewind, ResetInner, Call, engineVars
<1>2. CASE Returns
  <2>1. CASE RewindReturns
    <3>1. app.arg \in Positions
      BY <2>1, AdapterConstants DEF RewindReturns, EngineInv, RewindsToTarget, Positions
    <3>2. RewindAccepted(app.arg)
      BY <2>1 DEF RewindReturns, RewindRefused
    <3> QED BY <3>1, <3>2, SeekKeepsSlots DEF SeekHeld, SeekInv
  <2>2. ASSUME NEW name, NEW to, ResetReturns(name, to)
        PROVE  SeekHeld(i)
    BY <2>2 DEF ResetReturns, Deinit, SeekHeld
  <2> QED
    BY <1>2, <2>1, <2>2 DEF Returns, PlayReturns, PlayAgainReturns, PauseReturns,
       PauseFromPreparedReturns, StopReturns, SetPlaybackSpeedReturns, Back, engineVars
<1>3. ASSUME NEW t \in Threads, Engine(t)
      PROVE  FALSE
  BY <1>3, EngineHandles DEF SeekQuiet
<1>4. CASE Sch
  <2>1. CASE NotifyPlaybackComplete
    <3>1. RewindAccepted(0) /\ 0 \in Positions
      BY <2>1, EngineConstants DEF NotifyPlaybackComplete, RewindRefused, Positions
    <3> QED BY <3>1, SeekKeepsSlots DEF SeekHeld, SeekInv
  <2>2. CASE NotifySeekComplete
    <3>1. seek' = WithSeek(rewindPos) /\ rewindPos # NoPos
      BY <2>2 DEF NotifySeekComplete
    <3>2. rewindPos \in Positions
      BY <3>1 DEF SeekInv, SeekRecord
    <3> QED BY <3>1, <3>2, SeekKeepsSlots DEF SeekHeld, SeekInv
  <2>3. CASE SchSeekBegin
    <3>1. seek' = [seek EXCEPT !.idx = 1, !.cnt = 0]
      BY <2>3 DEF SchSeekBegin
    <3>2. seek'.tab = seek.tab
      BY <3>1
    <3> QED BY <3>2 DEF SeekHeld
  <2>4. CASE SchSeek
    <3>1. PICK to : seek' = [seek EXCEPT !.cnt = @ + 1, !.said = to]
      BY <2>4 DEF SchSeek
    <3>2. seek'.tab = seek.tab
      <4> DEFINE more == seek.cnt + 1
      <4>1. seek' = [seek EXCEPT !.cnt = more, !.said = to]
        BY <3>1
      <4>2. seek = [tab |-> seek.tab, idx |-> seek.idx, cnt |-> seek.cnt,
                    said |-> seek.said]
        BY DEF SeekInv, SeekRecord
      <4> HIDE DEF more
      <4> QED BY <4>1, <4>2
    <3> QED BY <3>2 DEF SeekHeld
  <2>5. CASE SchClear
    <3> DEFINE old == seek.tab  idx == seek.idx  tab == [old EXCEPT ![idx] = NoPos]
    <3>1. /\ sch = "clear" /\ idx \in Slots /\ old \in [Slots -> Positions \cup {NoPos}]
          /\ seek.tab[idx] # NoPos => seek.cnt > 0
      BY <2>5 DEF SchClear, SeekInv, SeekRecord, SlotsInOrder
    <3>2. seek'.tab = tab
      <4>1. \/ seek' = [seek EXCEPT !.tab = tab, !.said = NoPos]
            \/ seek' = [seek EXCEPT !.tab = tab, !.idx = 3 - idx, !.said = NoPos]
        BY <2>5 DEF SchClear
      <4>2. seek = [tab |-> seek.tab, idx |-> seek.idx, cnt |-> seek.cnt,
                    said |-> seek.said]
        BY DEF SeekInv, SeekRecord
      <4> HIDE DEF tab
      <4> QED BY <4>1, <4>2
    <3>3. i # idx => tab[i] = old[i]
      <4> HIDE DEF old, idx
      <4> QED BY <3>1
    <3> QED BY <3>1, <3>2, <3>3 DEF SeekHeld
  <2> QED
    BY <1>4, <2>1, <2>2, <2>3, <2>4, <2>5 DEF Sch, SchStep, Callbacks, SchExit, SchRender,
       SchSeekEnd, SchRenderAfterSeek, FirstFrameEvent, FirstFrameHandled
<1> QED BY <1>1, <1>2, <1>3, <1>4 DEF Next, vars, engineVars, Threads

\* No rewind is dropped from the seek table, although Seek writes it without a lock
\* while the sch thread empties it: a slot is emptied only after it has been sought.
THEOREM NoRewindDropped == Spec => NoSeekLost
<1>1. EngineInv /\ SeekInv /\ [Next]_vars => [\A i \in Slots : SeekHeld(i)]_vars
  BY SlotsHeld
<1>2. [\A i \in Slots : SeekHeld(i)]_vars =>
        [\A i \in Slots : seek.tab[i] # NoPos /\ seek'.tab[i] = NoPos =>
           fsm' = "none" \/ (sch = "clear" /\ i = seek.idx /\ seek.cnt > 0)]_vars
  BY DEF SeekHeld
<1> QED BY <1>1, <1>2, SeekInvariant, PTL DEF Spec, NoSeekLost

-----------------------------------------------------------------------------
(* The states of the adapter and of the engine, without pause-after-play   *)

Seeking == {"seek", "sought", "clear", "sought all"}
Playing == {"play", "tplay", "pause"}
AdapterStates == {"idle", "initialized", "prepared", "started", "paused", "stopped",
                  "complete", "released"}

\* Without pause-after-play the engine's own thread sends it nothing.
Calm ==
  /\ pauseAfter = FALSE /\ cmd["sch"] = NoCmd /\ sch # "await"
  /\ st \in AdapterStates
  /\ fsm \in States \cup {"none"}

\* The message that belongs to the call in progress.
OnItsWay ==
  /\ app.op \in {"none", "again", "rewind", "play", "pause", "stop", "speed", "reset",
                 "release"}
  /\ app.op \in {"play", "pause", "stop"} => Api.op = app.op
  /\ app.op = "speed" => Api.op = (IF app.arg = 1 THEN "play" ELSE "tplay")
  /\ app.op \in {"reset", "release"} => Api = NoCmd \/ Api.op = "stop"
  /\ Api.op # "none" => Api.at # "none"
  /\ Api.at = "unpause" => fsm \in {"prepare", "pause"}
  /\ Api.at = "sinks" => Api.op = "pause" /\ paused
  /\ Api.at = "join" => Api.op = "stop"

Agree ==
  /\ st \in {"idle", "released"} => fsm = "none"
  /\ st = "initialized" => fsm = "init"
  /\ st = "prepared"    => fsm = "prepare"
  /\ st = "started"     => fsm \in {"play", "tplay"}
  /\ st = "paused"      => fsm = "pause"
  /\ st = "stopped"     => fsm = "idle"
  /\ st = "complete"    => fsm \in Playing

\* The two agree except while an answer is on its way back to the adapter, and each
\* call finds the engine in a state that lets its message succeed.
Progress ==
  /\ Api.at # "ok" => Agree
  /\ app.op # "speed" /\ speed = 1 => fsm # "tplay"
  /\ app.op = "play" =>
       IF Api.at = "ok" THEN fsm = "play"
       ELSE st \in {"prepared", "paused", "complete"} /\ fsm \in {"prepare", "pause"}
  /\ app.op = "pause" =>
       /\ IF Api.at = "ok" THEN fsm = "pause" ELSE fsm = "play" /\ Api.at # "failed"
       /\ st \in {"started", "complete"}
  /\ app.op = "stop" =>
       IF Api.at = "ok" THEN fsm = "idle" ELSE fsm \in Playing /\ Api.at # "failed"
  /\ app.op = "speed" =>
       /\ Agree /\ fsm \in {"play", "tplay"}
       /\ app.arg = 1 => Api.at # "failed" /\ (Api.at = "ok" => fsm = "play")

\* What the sch thread may be doing in which state.
RunsInState ==
  /\ fsm = "pause" => paused
  /\ fsm = "prepare" =>
       sch = "none" \/ (paused /\ sch \in Seeking \cup {"top", "exited"})
  /\ sch \notin {"none", "exited"} => fsm \in Playing \cup {"prepare"}
  /\ sch \in Seeking \cup {"render"} => mutex
  /\ sch = "render" => ~paused

StatesInv == Calm /\ OnItsWay /\ Progress /\ RunsInState

LEMMA AfterValues ==
  /\ fsm \in {"prepare", "play", "tplay", "pause"} => After("play") = "play"
  /\ fsm \in {"play", "pause"} => After("pause") = "pause"
  /\ fsm \in {"play", "tplay"} => After("tplay") = "tplay"
  /\ fsm \in States => After("stop") = "idle"
  /\ fsm = "none" => After("stop") = "none"
<1>1. /\ fsm \in {"prepare", "play", "tplay", "pause"} => After("play") = "play"
      /\ fsm \in {"play", "pause"} => After("pause") = "pause"
      /\ fsm \in {"play", "tplay"} => After("tplay") = "tplay"
  BY DEF After, Transitions
<1>2. /\ fsm \in States => After("stop") = "idle"
      /\ fsm = "none" => After("stop") = "none"
  BY DEF After, Transitions, States
<1> QED BY <1>1, <1>2

LEMMA ApiGoes ==
  ASSUME EngineInv, Calm, NEW pc \in CmdPlaces, Goto("api", pc)
  PROVE  Api'.at = pc /\ Api'.op = Api.op /\ cmd'["sch"] = NoCmd
BY GotoMoves DEF EngineInv, Commands, Calm, Threads, Api

LEMMA ApiAnswers ==
  ASSUME EngineInv, Calm, NEW ok \in BOOLEAN, Answer("api", ok)
  PROVE  /\ Api'.at = (IF ok THEN "ok" ELSE "failed")
         /\ Api'.op = Api.op /\ cmd'["sch"] = NoCmd
         /\ fsm' = IF ok THEN After(Api.op) ELSE fsm
<1>1. (IF ok THEN "ok" ELSE "failed") \in CmdPlaces
  BY DEF CmdPlaces
<1> QED BY <1>1, ApiGoes DEF Answer, Api

\* The message of the call in progress, once it has been sent.
LEMMA WhoseMessage ==
  ASSUME EngineInv, StatesInv, Api.at # "none"
  PROVE  /\ Api.op = "play"  => app.op = "play" \/ (app.op = "speed" /\ app.arg = 1)
         /\ Api.op = "tplay" => app.op = "speed" /\ app.arg # 1
         /\ Api.op = "pause" => app.op = "pause"
         /\ Api.op = "stop"  => app.op \in {"stop", "reset", "release"}
         /\ app.op \notin {"none", "again", "rewind"}
BY NoCmdFields DEF EngineInv, Commands, StatesInv, OnItsWay

LEMMA ApiHandles ==
  ASSUME "switch" \notin Faults, EngineInv, StatesInv, Engine("api")
  PROVE  StatesInv'
<1>1. UNCHANGED <<st, speed, pauseAfter, app>>
  BY DEF Engine, adapterVars
<1>2. Api.at # "none"
  BY DEF Engine, Handle, Enter, AlreadyThere, StartMedia, DecoderFails, SinkFails, Unpause,
     ResumeSinks, SwitchToPlay, SetPaused, PauseSinks, DoTPlay, SignalExit, TearDown, At, Api
<1>3. /\ Api.op = "play"  => app.op = "play" \/ (app.op = "speed" /\ app.arg = 1)
      /\ Api.op = "tplay" => app.op = "speed" /\ app.arg # 1
      /\ Api.op = "pause" => app.op = "pause"
      /\ Api.op = "stop"  => app.op \in {"stop", "reset", "release"}
      /\ app.op \notin {"none", "again", "rewind"}
  BY <1>2, WhoseMessage
<1>4. Calm
  BY DEF StatesInv
<1> DEFINE Rest == UNCHANGED <<sch, paused, mutex>>
<1>5. CASE Enter("api")
  <2>1. Rest /\ UNCHANGED fsm /\ Api.at = "send"
    BY <1>5 DEF Enter, Api
  <2>2. CASE fsm \in ValidIn[Api.op] /\ Goto("api", "body")
    <3>1. Api'.at = "body" /\ Api'.op = Api.op /\ cmd'["sch"] = NoCmd
      BY <1>4, <2>2, ApiGoes DEF CmdPlaces
    <3> QED
      BY <1>1, <1>3, <2>1, <3>1, NoCmdFields
         DEF StatesInv, Calm, OnItsWay, Progress, Agree, RunsInState
  <2>3. CASE fsm \notin ValidIn[Api.op] /\ Goto("api", "failed")
    <3>1. Api'.at = "failed" /\ Api'.op = Api.op /\ cmd'["sch"] = NoCmd
      BY <1>4, <2>3, ApiGoes DEF CmdPlaces
    <3>2. app.op \in {"reset", "release"}
      BY <1>3, <2>1, <2>3 DEF ValidIn, StatesInv, OnItsWay, Progress, Playing, States
    <3> QED
      BY <1>1, <1>3, <2>1, <3>1, <3>2, NoCmdFields
         DEF StatesInv, Calm, OnItsWay, Progress, Agree, RunsInState
  <2> QED BY <1>5, <2>2, <2>3 DEF Enter, Api
<1>6. CASE AlreadyThere("api")
  <2>1. Rest /\ Answer("api", TRUE) /\ Api.at = "body" /\ SameState("api")
    BY <1>6 DEF AlreadyThere, Api
  <2>2. /\ Api'.at = "ok" /\ Api'.op = Api.op /\ cmd'["sch"] = NoCmd
        /\ fsm' = After(Api.op)
    BY <1>4, <2>1, ApiAnswers
  <2>3. /\ Api.op = "play" => fsm = "play"
        /\ Api.op = "pause" => fsm = "pause"
        /\ Api.op = "stop" => fsm = "idle"
        /\ Api.op = "tplay" => fsm = "tplay"
    BY <2>1 DEF SameState, Api
  <2>4. Api.op \in {"play", "pause", "stop", "tplay"}
    BY <1>2 DEF EngineInv, Commands, Command, Ops, Api, Threads
  <2>5. fsm' = fsm
    BY <2>2, <2>3, <2>4, AfterValues DEF States
  <2> QED
    BY <1>1, <1>3, <2>1, <2>2, <2>3, <2>4, <2>5
       DEF StatesInv, Calm, OnItsWay, Progress, Agree, RunsInState, Playing
<1>7. CASE StartMedia("api")
  <2>1. /\ Api.op = "play" /\ Api.at = "body" /\ fsm = "prepare" /\ UNCHANGED fsm
        /\ Goto("api", "unpause") /\ paused' = TRUE /\ sch' = "top"
    BY <1>7 DEF StartMedia, At, Api
  <2>2. Api'.at = "unpause" /\ Api'.op = Api.op /\ cmd'["sch"] = NoCmd
    BY <1>4, <2>1, ApiGoes DEF CmdPlaces
  <2> QED
    BY <1>1, <1>3, <2>1, <2>2
       DEF StatesInv, Calm, OnItsWay, Progress, Agree, RunsInState, Seeking
<1>8. CASE DecoderFails("api") \/ SinkFails("api")
  <2>1. /\ Api.op = "play" /\ Api.at = "body" /\ fsm = "prepare"
        /\ Answer("api", FALSE) /\ UNCHANGED <<sch, mutex>>
        /\ paused' = paused \/ paused' = TRUE
    BY <1>8 DEF DecoderFails, SinkFails, At, Api
  <2>2. /\ Api'.at = "failed" /\ Api'.op = Api.op /\ cmd'["sch"] = NoCmd /\ fsm' = fsm
    BY <1>4, <2>1, ApiAnswers
  <2>3. sch = "none"
    BY <2>1 DEF EngineInv, Starting
  <2> QED
    BY <1>1, <1>3, <2>1, <2>2, <2>3
       DEF StatesInv, Calm, OnItsWay, Progress, Agree, RunsInState, Seeking
<1>9. CASE Unpause("api")
  <2>1. /\ Api.op = "play" /\ Api.at = "unpause" /\ paused' = FALSE
        /\ Answer("api", TRUE) /\ UNCHANGED <<sch, mutex>>
    BY <1>9 DEF Unpause, At, Api
  <2>2. fsm \in {"prepare", "pause"}
    BY <2>1 DEF StatesInv, OnItsWay
  <2>3. /\ Api'.at = "ok" /\ Api'.op = Api.op /\ cmd'["sch"] = NoCmd /\ fsm' = "play"
    BY <1>4, <2>1, <2>2, ApiAnswers, AfterValues
  <2> QED
    BY <1>1, <1>3, <2>1, <2>2, <2>3
       DEF StatesInv, Calm, OnItsWay, Progress, Agree, RunsInState, Playing, States
<1>10. CASE ResumeSinks("api")
  <2>1. /\ Api.op = "play" /\ Api.at = "body" /\ fsm = "pause" /\ UNCHANGED fsm
        /\ Goto("api", "unpause") /\ Rest
    BY <1>10 DEF ResumeSinks, At, Api
  <2>2. Api'.at = "unpause" /\ Api'.op = Api.op /\ cmd'["sch"] = NoCmd
    BY <1>4, <2>1, ApiGoes DEF CmdPlaces
  <2> QED
    BY <1>1, <1>3, <2>1, <2>2
       DEF StatesInv, Calm, OnItsWay, Progress, Agree, RunsInState
<1>11. CASE SwitchToPlay("api")
  <2>1. /\ Api.op = "play" /\ Api.at = "body" /\ fsm = "tplay" /\ Rest
        /\ Answer("api", TRUE)
    BY <1>11 DEF SwitchToPlay, At, Api
  <2>2. /\ Api'.at = "ok" /\ Api'.op = Api.op /\ cmd'["sch"] = NoCmd /\ fsm' = "play"
    BY <1>4, <2>1, ApiAnswers, AfterValues
  <2> QED
    BY <1>1, <1>3, <2>1, <2>2
       DEF StatesInv, Calm, OnItsWay, Progress, Agree, RunsInState, Playing, States
<1>12. CASE SetPaused("api")
  <2>1. /\ Api.op = "pause" /\ Api.at = "body" /\ fsm = "play" /\ UNCHANGED <<fsm, sch, mutex>>
        /\ Goto("api", "sinks") /\ paused' = TRUE /\ ~mutex
    BY <1>12 DEF SetPaused, At, Api
  <2>2. Api'.at = "sinks" /\ Api'.op = Api.op /\ cmd'["sch"] = NoCmd
    BY <1>4, <2>1, ApiGoes DEF CmdPlaces
  <2> QED
    BY <1>1, <1>3, <2>1, <2>2
       DEF StatesInv, Calm, OnItsWay, Progress, Agree, RunsInState
<1>13. CASE PauseSinks("api")
  <2>1. /\ Api.op = "pause" /\ Api.at = "sinks" /\ Rest /\ Answer("api", TRUE)
    BY <1>13 DEF PauseSinks, At, Api
  <2>2. fsm = "play" /\ paused
    BY <1>3, <2>1 DEF StatesInv, OnItsWay, Progress
  <2>3. /\ Api'.at = "ok" /\ Api'.op = Api.op /\ cmd'["sch"] = NoCmd /\ fsm' = "pause"
    BY <1>4, <2>1, <2>2, ApiAnswers, AfterValues
  <2> QED
    BY <1>1, <1>3, <2>1, <2>2, <2>3
       DEF StatesInv, Calm, OnItsWay, Progress, Agree, RunsInState, Playing, States
<1>14. CASE DoTPlay("api")
  <2>1. /\ Api.op = "tplay" /\ Api.at = "body" /\ Rest
        /\ Answer("api", TRUE) \/ Answer("api", FALSE)
    BY <1>14 DEF DoTPlay, At, Api
  <2>2. app.op = "speed" /\ app.arg # 1 /\ fsm \in {"play", "tplay"}
    BY <1>3, <2>1 DEF StatesInv, Progress
  <2>3. /\ Api'.at \in {"ok", "failed"} /\ Api'.op = Api.op /\ cmd'["sch"] = NoCmd
        /\ fsm' \in {fsm, "tplay"}
    BY <1>4, <2>1, <2>2, ApiAnswers, AfterValues
  <2> QED
    BY <1>1, <1>3, <2>1, <2>2, <2>3
       DEF StatesInv, Calm, OnItsWay, Progress, Agree, RunsInState, Playing, States
<1>15. CASE SignalExit("api")
  <2>1. /\ Api.op = "stop" /\ Api.at = "body" /\ Rest /\ UNCHANGED fsm
        /\ Goto("api", "join")
    BY <1>15 DEF SignalExit, At, Api
  <2>2. Api'.at = "join" /\ Api'.op = Api.op /\ cmd'["sch"] = NoCmd
    BY <1>4, <2>1, ApiGoes DEF CmdPlaces
  <2> QED
    BY <1>1, <1>3, <2>1, <2>2
       DEF StatesInv, Calm, OnItsWay, Progress, Agree, RunsInState
<1>16. CASE TearDown("api")
  <2>1. /\ Api.op = "stop" /\ Api.at = "join" /\ Rest /\ sch \in {"none", "exited"}
        /\ Answer("api", TRUE)
    BY <1>16 DEF TearDown, At, Api
  <2>2. /\ Api'.at = "ok" /\ Api'.op = Api.op /\ cmd'["sch"] = NoCmd
        /\ fsm' = After("stop")
    BY <1>4, <2>1, ApiAnswers
  <2>3. fsm' \in {"idle", "none"} /\ (fsm \in States => fsm' = "idle")
    BY <1>4, <2>2, AfterValues DEF Calm
  <2> QED
    BY <1>1, <1>3, <2>1, <2>2, <2>3
       DEF StatesInv, Calm, OnItsWay, Progress, Agree, RunsInState, Playing, States, Seeking
<1> QED
  BY <1>5, <1>6, <1>7, <1>8, <1>9, <1>10, <1>11, <1>12, <1>13, <1>14, <1>15, <1>16
     DEF Engine, Handle

\* A call that sends a message the engine is in the right state for.
LEMMA CallFits ==
  ASSUME EngineInv, StatesInv, NEW op \in Ops, NEW r \in Rates \cup {1}, NEW arg,
         NEW name \in {"play", "pause", "stop", "speed", "reset", "release"},
         ApiIdle, Call(name, arg, op, r), UNCHANGED <<st, speed, pauseAfter>>,
         name \in {"play", "pause", "stop"} => op = name,
         name = "speed" => op = (IF arg = 1 THEN "play" ELSE "tplay"),
         name \in {"reset", "release"} => op = "stop",
         name = "play" => st \in {"prepared", "paused"},
         name = "pause" => st = "started" /\ speed = 1,
         name = "stop" => st \in {"started", "paused", "complete"},
         name = "speed" => st = "started"
  PROVE  StatesInv'
<1>1. Send("api", op, r) /\ app'.op = name /\ app'.arg = arg
      /\ UNCHANGED <<sch, fsm, paused, mutex>>
  BY DEF Call
<1>2. Api'.at = "send" /\ Api'.op = op /\ cmd'["sch"] = cmd["sch"]
  BY <1>1, SendStarts DEF EngineInv, Commands, Threads, Api
<1>3. Api = NoCmd /\ app.op = "none"
  BY DEF EngineInv, Commands, ApiIdle
<1> QED
  BY <1>1, <1>2, <1>3, NoCmdFields
     DEF StatesInv, Calm, OnItsWay, Progress, Agree, RunsInState, Playing

LEMMA CallsAgree ==
  ASSUME ~PauseAfterPlay, EngineInv, StatesInv, Calls
  PROVE  StatesInv'
<1>0. /\ ApiIdle => Api = NoCmd
      /\ st \in NoEngineYet => sch = "none"
  BY DEF EngineInv, Commands, Unborn, ApiIdle
<1>1. CASE SetSource
  <2>1. /\ ApiIdle /\ UNCHANGED <<cmd, sch, paused, mutex>>
        /\ \/ st' = "initialized" /\ fsm' = "init"
           \/ st' = "idle" /\ fsm' = "none"
        /\ app' = app \/ app' = NoCall
        /\ pauseAfter' = pauseAfter \/ pauseAfter' = FALSE
        /\ st = "idle"
    BY <1>1 DEF SetSource, SetDataSource, Fresh
  <2>2. app'.op = "none" /\ app.op = "none"
    BY <2>1 DEF ApiIdle, NoCall
  <2>3. sch = "none" /\ Api = NoCmd
    BY <1>0, <2>1 DEF NoEngineYet
  <2> QED
    BY <2>1, <2>2, <2>3, NoCmdFields DEF StatesInv, Calm, OnItsWay, Progress, Agree, RunsInState,
       AdapterStates, States, Api, Seeking
<1>2. CASE Prepare
  <2>1. /\ ApiIdle /\ UNCHANGED <<cmd, sch, paused, mutex, app, pauseAfter>>
        /\ st' = "prepared" /\ fsm' = "prepare" /\ st = "initialized"
    BY <1>2 DEF Prepare, DoPrepare
  <2>2. sch = "none" /\ Api = NoCmd /\ app.op = "none"
    BY <1>0, <2>1 DEF NoEngineYet, ApiIdle
  <2> QED
    BY <2>1, <2>2, NoCmdFields DEF StatesInv, Calm, OnItsWay, Progress, Agree, RunsInState,
       AdapterStates, States, Api, Seeking
<1>3. ~SetParameter /\ ~PauseFromPrepared
  BY DEF SetParameter, PauseFromPrepared, StatesInv, Calm
<1>4. CASE SetLoop
  <2>1. UNCHANGED <<cmd, sch, fsm, paused, mutex, app, st, speed, pauseAfter>>
    BY <1>4 DEF SetLoop, engineVars
  <2> QED
    BY <2>1 DEF StatesInv, Calm, OnItsWay, Progress, Agree, RunsInState, Api
<1>5. CASE NewPlayer
  <2>1. /\ UNCHANGED <<cmd, sch, fsm, paused, mutex>> /\ ApiIdle /\ app'.op = "none"
        /\ st' = "idle" /\ pauseAfter' = FALSE /\ st = "released"
    BY <1>5 DEF NewPlayer, engineVars, Fresh, NoCall
  <2>2. Api = NoCmd /\ app.op = "none"
    BY <1>0, <2>1 DEF ApiIdle
  <2> QED
    BY <2>1, <2>2, NoCmdFields DEF StatesInv, Calm, OnItsWay, Progress, Agree, RunsInState,
       AdapterStates, Api
<1>6. CASE Play
  BY <1>6, CallFits DEF Play, Ops
<1>7. ASSUME UNCHANGED engineVars, ApiIdle, UNCHANGED <<st, speed, pauseAfter>>,
             app'.op \in {"again", "rewind", "reset", "release"}
      PROVE  StatesInv'
  <2>1. UNCHANGED <<cmd, sch, fsm, paused, mutex>>
    BY <1>7 DEF engineVars
  <2>2. Api = NoCmd /\ app.op = "none"
    BY <1>0, <1>7 DEF ApiIdle
  <2> QED
    BY <1>7, <2>1, <2>2, NoCmdFields
       DEF StatesInv, Calm, OnItsWay, Progress, Agree, RunsInState, Api
<1>8. CASE PlayAgain
  BY <1>7, <1>8 DEF PlayAgain
<1>9. CASE Pause
  BY <1>9, CallFits DEF Pause, Ops
<1>10. CASE Stop
  BY <1>10, CallFits DEF Stop, Ops
<1>11. ASSUME NEW r \in Rates \cup {1}, SetPlaybackSpeed(r)
       PROVE  StatesInv'
  <2> DEFINE op == IF r = 1 THEN "play" ELSE "tplay"
  <2>1. ApiIdle /\ st = "started" /\ UNCHANGED <<st, speed, pauseAfter>>
        /\ Call("speed", r, op, r)
    BY <1>11 DEF SetPlaybackSpeed
  <2>2. op \in Ops
    BY SpeedSent
  <2> QED BY <2>1, <2>2, CallFits
<1>12. ASSUME NEW p \in Targets, Rewind(p)
       PROVE  StatesInv'
  BY <1>7, <1>12 DEF Rewind
<1>13. ASSUME NEW name \in {"reset", "release"}, ResetInner(name)
       PROVE  StatesInv'
  <2>1. ApiIdle /\ UNCHANGED <<st, speed, pauseAfter>>
    BY <1>13 DEF ResetInner
  <2>2. CASE app' = [op |-> name, arg |-> 0] /\ UNCHANGED engineVars
    BY <1>7, <2>1, <2>2
  <2>3. CASE Call(name, 0, "stop", 1)
    BY <2>1, <2>3, CallFits DEF Ops
  <2> QED BY <1>13, <2>2, <2>3 DEF ResetInner
<1> QED
  BY <1>1, <1>2, <1>3, <1>4, <1>5, <1>6, <1>8, <1>9, <1>10, <1>11, <1>12, <1>13 DEF Calls

\* A call returns with the answer of the engine.
LEMMA ReturnsAgree ==
  ASSUME EngineInv, StatesInv, Returns
  PROVE  StatesInv'
<1>1. ASSUME NEW name, Back(name)
      PROVE  /\ app.op = name /\ Api.at \in {"ok", "failed"} /\ app'.op = "none"
             /\ Api'.at = "none" /\ Api'.op = "none" /\ cmd'["sch"] = cmd["sch"]
             /\ UNCHANGED <<fsm, sch, paused, mutex>>
  <2>1. app.op = name /\ Answered /\ app'.op = "none" /\ cmd' = [cmd EXCEPT !["api"] = NoCmd]
        /\ UNCHANGED <<fsm, sch, paused, mutex>>
    BY <1>1 DEF Back, NoCall
  <2>2. Api' = NoCmd /\ cmd'["sch"] = cmd["sch"]
    BY <2>1, BackToNone DEF EngineInv, Commands, Threads, Api
  <2> QED BY <2>1, <2>2, NoCmdFields DEF Answered, Api
<1>2. CASE PlayReturns
  <2>1. /\ Back("play") /\ UNCHANGED <<speed, pauseAfter>>
        /\ st' = IF Api.at = "ok" THEN "started" ELSE st
    BY <1>2 DEF PlayReturns, Succeeded, Api
  <2> QED
    BY <1>1, <2>1
       DEF StatesInv, Calm, OnItsWay, Progress, Agree, RunsInState, AdapterStates
<1>3. CASE PlayAgainReturns
  <2>1. /\ UNCHANGED <<cmd, sch, fsm, paused, mutex, st, speed, pauseAfter>>
        /\ app.op = "again" /\ app'.op = "none"
    BY <1>3 DEF PlayAgainReturns, engineVars, NoCall
  <2> QED
    BY <2>1 DEF StatesInv, Calm, OnItsWay, Progress, Agree, RunsInState, Api
<1>4. CASE PauseReturns
  <2>1. Back("pause") /\ UNCHANGED <<speed, pauseAfter>> /\ st' = "paused"
    BY <1>4 DEF PauseReturns
  <2> QED
    BY <1>1, <2>1
       DEF StatesInv, Calm, OnItsWay, Progress, Agree, RunsInState, AdapterStates
<1>5. ~PauseFromPreparedReturns
  BY DEF PauseFromPreparedReturns, Back, StatesInv, OnItsWay
<1>6. CASE StopReturns
  <2>1. Back("stop") /\ UNCHANGED <<speed, pauseAfter>> /\ st' = "stopped"
    BY <1>6 DEF StopReturns
  <2> QED
    BY <1>1, <2>1
       DEF StatesInv, Calm, OnItsWay, Progress, Agree, RunsInState, AdapterStates
<1>7. CASE SetPlaybackSpeedReturns
  <2>1. Back("speed") /\ UNCHANGED <<st, pauseAfter>> /\ speed' = app.arg
    BY <1>7 DEF SetPlaybackSpeedReturns
  <2> QED
    BY <1>1, <2>1
       DEF StatesInv, Calm, OnItsWay, Progress, Agree, RunsInState, AdapterStates
<1>8. CASE RewindReturns
  <2>1. /\ UNCHANGED <<cmd, sch, fsm, paused, mutex, st, speed, pauseAfter>>
        /\ app.op = "rewind" /\ app'.op = "none"
    BY <1>8 DEF RewindReturns, NoCall
  <2> QED
    BY <2>1 DEF StatesInv, Calm, OnItsWay, Progress, Agree, RunsInState, Api
<1>9. ASSUME NEW name, NEW to \in {"idle", "released"}, ResetReturns(name, to)
      PROVE  StatesInv'
  <2>1. /\ fsm' = "none" /\ sch' = "none" /\ paused' = FALSE /\ app'.op = "none"
        /\ pauseAfter' = FALSE /\ st' = to
        /\ cmd' = [t \in Threads |-> NoCmd]
    BY <1>9 DEF ResetReturns, Deinit, Fresh, NoCall
  <2>2. Api' = NoCmd /\ cmd'["sch"] = NoCmd
    BY <2>1, NoCommands DEF Api
  <2> QED
    BY <2>1, <2>2, NoCmdFields DEF StatesInv, Calm, OnItsWay, Progress, Agree, RunsInState,
       AdapterStates, Seeking
<1> QED BY <1>2, <1>3, <1>4, <1>5, <1>6, <1>7, <1>8, <1>9 DEF Returns

LEMMA SchAgrees ==
  ASSUME EngineInv, StatesInv, Sch
  PROVE  StatesInv'
<1>1. ASSUME sch' # "await", sch # "none",
             UNCHANGED <<cmd, fsm, paused, app, st, speed, pauseAfter>>,
             fsm = "prepare" => sch' \in Seeking \cup {"top", "exited"},
             sch' \notin {"none", "exited"} => sch # "exited",
             sch' \in Seeking \cup {"render"} => mutex',
             sch' = "render" => ~paused
      PROVE  StatesInv'
  BY <1>1 DEF StatesInv, Calm, OnItsWay, Progress, Agree, RunsInState, Api
<1>2. ASSUME Render, (sch = "top" /\ ~paused) \/ sch = "render",
             UNCHANGED <<fsm, handler, cmd, paused, exiting, seek, rate, pauseMode>>,
             UNCHANGED adapterVars
      PROVE  StatesInv'
  <2>1. sch' \in {"event", "eof", "top"}
    BY <1>2 DEF Render
  <2>2. fsm # "prepare"
    BY <1>2 DEF StatesInv, RunsInState, Seeking
  <2> QED BY <1>1, <1>2, <2>1, <2>2 DEF adapterVars, Seeking
<1>3. CASE SchExit /\ UNCHANGED adapterVars
  BY <1>1, <1>3 DEF SchExit, adapterVars, Seeking
<1>4. CASE SchRender /\ UNCHANGED adapterVars
  BY <1>2, <1>4 DEF SchRender
<1>5. CASE SchSeekBegin /\ UNCHANGED adapterVars
  BY <1>1, <1>5 DEF SchSeekBegin, adapterVars, Seeking
<1>7. CASE SchSeek /\ UNCHANGED adapterVars
  BY <1>1, <1>7 DEF SchSeek, adapterVars, Seeking, StatesInv, RunsInState
<1>8. CASE SchClear /\ UNCHANGED adapterVars
  <2>1. sch' \in {"sought all", "seek"}
    BY <1>8 DEF SchClear
  <2> QED
    BY <1>1, <1>8, <2>1 DEF SchClear, adapterVars, Seeking, StatesInv, RunsInState
<1>9. CASE SchSeekEnd /\ UNCHANGED adapterVars
  <2>1. /\ sch = "sought all" /\ UNCHANGED <<fsm, cmd, paused>>
        /\ IF paused THEN sch' = "top" ELSE sch' = "render" /\ mutex'
    BY <1>9 DEF SchSeekEnd
  <2> QED
    BY <1>1, <1>9, <2>1 DEF adapterVars, Seeking, StatesInv, RunsInState
<1>10. CASE SchRenderAfterSeek /\ UNCHANGED adapterVars
  BY <1>2, <1>10 DEF SchRenderAfterSeek
<1>11. CASE FirstFrameEvent
  BY <1>1, <1>11 DEF FirstFrameEvent, adapterVars, Seeking, StatesInv, Calm
<1>12. ~FirstFrameHandled
  BY DEF FirstFrameHandled, StatesInv, Calm
<1>13. CASE NotifyPlaybackComplete
  <2>1. /\ sch = "eof" /\ sch' = "top" /\ st' \in {st, "complete"}
        /\ UNCHANGED <<cmd, fsm, paused, mutex, app, speed, pauseAfter>>
    BY <1>13 DEF NotifyPlaybackComplete
  <2>2. fsm \in Playing
    BY <2>1 DEF StatesInv, RunsInState, Seeking
  <2> QED
    BY <2>1, <2>2 DEF StatesInv, Calm, OnItsWay, Progress, Agree, RunsInState, AdapterStates,
       Seeking, Playing, Api
<1>14. CASE NotifySeekComplete
  BY <1>1, <1>14 DEF NotifySeekComplete, Seeking, StatesInv, RunsInState
<1> QED
  BY <1>3, <1>4, <1>5, <1>7, <1>8, <1>9, <1>10, <1>11, <1>12, <1>13, <1>14
     DEF Sch, SchStep, Callbacks

LEMMA StatesInvariant ==
  ASSUME ~PauseAfterPlay, "switch" \notin Faults
  PROVE  Spec => []StatesInv
<1>1. Init => StatesInv
  <2> SUFFICES ASSUME Init
               PROVE  StatesInv
    OBVIOUS
  <2>1. /\ fsm = "none" /\ sch = "none" /\ paused = FALSE /\ st = "idle" /\ app.op = "none"
        /\ pauseAfter = FALSE /\ Api = NoCmd /\ cmd["sch"] = NoCmd
    BY DEF Init, EngineNone, NoCall, Threads, Api
  <2> QED
    BY <2>1, NoCmdFields DEF StatesInv, Calm, OnItsWay, Progress, Agree, RunsInState,
       AdapterStates, Seeking
<1>2. EngineInv /\ StatesInv /\ [Next]_vars => StatesInv'
  <2> SUFFICES ASSUME EngineInv, StatesInv, [Next]_vars
               PROVE  StatesInv'
    OBVIOUS
  <2>1. CASE Calls
    BY <2>1, CallsAgree
  <2>2. CASE Returns
    BY <2>2, ReturnsAgree
  <2>3. CASE Engine("api")
    BY <2>3, ApiHandles
  <2>4. ~Engine("sch")
    BY NoCmdFields DEF StatesInv, Calm, Engine, Handle, Enter, AlreadyThere, StartMedia,
       DecoderFails, SinkFails, Unpause, ResumeSinks, SwitchToPlay, SetPaused, PauseSinks,
       DoTPlay, SignalExit, TearDown, At
  <2>5. CASE Sch
    BY <2>5, SchAgrees
  <2>6. CASE UNCHANGED vars
    <3>1. UNCHANGED <<fsm, cmd, sch, paused, mutex, app, st, speed, pauseAfter>>
      BY <2>6 DEF vars, engineVars, adapterVars
    <3> QED
      BY <3>1 DEF StatesInv, Calm, OnItsWay, Progress, Agree, RunsInState, Api
  <2> QED BY <2>1, <2>2, <2>3, <2>4, <2>5, <2>6 DEF Next
<1>3. EngineInv /\ SeekInv => EngineInv
  OBVIOUS
<1> QED BY <1>1, <1>2, <1>3, SeekInvariant, PTL DEF Spec

LEMMA IdleAgrees ==
  ASSUME EngineInv, StatesInv, ApiIdle
  PROVE  Api = NoCmd /\ Agree
<1>1. Api = NoCmd
  BY DEF EngineInv, Commands, ApiIdle
<1> QED BY <1>1, NoCmdFields DEF StatesInv, Progress

\* Between calls the state the adapter reports is the state the engine is in, for every
\* file, fault of preparing, starting and seeking, and order of calls, end of the file
\* and returns.  Two things the code really does are excluded: the pause that the
\* engine's own thread makes behind the adapter, and a switch back to normal speed that
\* fails, after which Pause records a state the engine never entered.
THEOREM StatesFollowEngine ==
  ASSUME ~PauseAfterPlay, "switch" \notin Faults
  PROVE  Spec => []StatesAgree
<1>1. EngineInv /\ SeekInv /\ StatesInv => StatesAgree
  <2> SUFFICES ASSUME EngineInv, StatesInv, ApiIdle
               PROVE  StatesAgree
    BY DEF StatesAgree
  <2>1. Agree
    BY IdleAgrees
  <2> QED BY <2>1 DEF StatesAgree, Agree, StatesInv, RunsInState, Playing
<1> QED BY <1>1, SeekInvariant, StatesInvariant, PTL

\* The step of PauseHolds.
Held ==
  st = "paused" /\ ApiIdle /\ app'.op = "none" => data'.pos = data.pos \/ sch = "seek"

LEMMA PausedIsStill ==
  ASSUME EngineInv, StatesInv, [Next]_vars
  PROVE  Held
<1> SUFFICES ASSUME st = "paused", ApiIdle, app'.op = "none", sch # "seek", data' # data
             PROVE  data'.pos = data.pos
  BY DEF Held
<1>1. /\ Api = NoCmd /\ fsm = "pause" /\ paused /\ sch # "render" /\ cmd["sch"] = NoCmd
  BY IdleAgrees DEF Agree, StatesInv, RunsInState, Calm
<1>2. ~Calls
  BY DEF Calls, SetSource, Prepare, SetParameter, SetLoop, NewPlayer, Play, PlayAgain, Pause,
     PauseFromPrepared, Stop, SetPlaybackSpeed, Rewind, ResetInner, Call, engineVars
<1>3. ~Returns
  BY DEF ApiIdle, Returns, PlayReturns, PlayAgainReturns, PauseReturns,
     PauseFromPreparedReturns, StopReturns, SetPlaybackSpeedReturns, RewindReturns,
     ResetReturns, Back
<1>4. ASSUME NEW t \in Threads
      PROVE  ~Engine(t)
  <2>1. cmd[t] = NoCmd
    BY <1>1 DEF Threads, Api
  <2> QED
    BY <2>1, NoCmdFields DEF Engine, Handle, Enter, AlreadyThere, StartMedia, DecoderFails,
       SinkFails, Unpause, ResumeSinks, SwitchToPlay, SetPaused, PauseSinks, DoTPlay,
       SignalExit, TearDown, At
<1>5. CASE SchSeekEnd
  <2> DEFINE last == Least(data.read, FileEnd)
  <2>1. data' = [data EXCEPT !.read = last, !.eos = FALSE, !.end = FALSE]
    BY <1>5 DEF SchSeekEnd
  <2> HIDE DEF last
  <2> QED BY <2>1
<1>6. CASE NotifyPlaybackComplete
  <2>1. data' = [data EXCEPT !.end = FALSE]
    BY <1>6 DEF NotifyPlaybackComplete
  <2> QED BY <2>1
<1>7. CASE Sch
  BY <1>1, <1>5, <1>6, <1>7 DEF Sch, SchStep, Callbacks, SchExit, SchRender, SchSeekBegin,
     SchSeek, SchClear, SchRenderAfterSeek, FirstFrameEvent, FirstFrameHandled,
     NotifySeekComplete
<1> QED
  BY <1>2, <1>3, <1>4, <1>7 DEF Next, Threads, vars, engineVars

\* Once Pause has returned nothing is rendered until the application acts: no iteration
\* that had looked at paused_ before is still on its way, and only a rewind moves the
\* position.
THEOREM PauseIsKept ==
  ASSUME ~PauseAfterPlay, "switch" \notin Faults
  PROVE  Spec => PauseHolds
<1>1. EngineInv /\ SeekInv /\ StatesInv /\ [Next]_vars => [Held]_vars
  BY PausedIsStill
<1>2. [Held]_vars =>
        [st = "paused" /\ ApiIdle /\ app'.op = "none" =>
           data'.pos = data.pos \/ sch = "seek"]_vars
  BY DEF Held
<1> QED BY <1>1, <1>2, SeekInvariant, StatesInvariant, PTL DEF Spec, PauseHolds

=============================================================================
