------------------------ MODULE PlayerServiceProofs ------------------------
(***************************************************************************)
(* Proofs about PlayerService, for every set of processes, every choice of *)
(* their requests, every set of files and every number of lost calls: what *)
(* an application is told is what the service did for it, and a call whose *)
(* answer got lost may be repeated.                                        *)
(***************************************************************************)
EXTENDS PlayerService, TLAPS

-----------------------------------------------------------------------------
(* The inductive invariant *)

States == {"none", "idle", "initialized", "prepared", "started", "paused", "stopped", "complete"}
Players ==
  [state : States, loop : BOOLEAN, speed : Int, type : Int, video : BOOLEAN,
   pauseAfterPlay : BOOLEAN, listener : Clients \cup {Nobody}]

Told     == BOOLEAN \cup Int \cup States
Outcomes == [player : Players, ret : {0, -1}, value : Told]
Items    == [type : {"bool", "int32", "int64", "float"}, value : Told]
Asked    == UNION {Requests[c] : c \in Clients}
Calls    == [pc : {"idle", "sent", "served", "done"}, request : Asked \cup {<<>>}, reply : Seq(Items)]
Services == [ret : {0, -1}, value : Told, last : BOOLEAN]

TypeOK ==
  /\ player \in Players
  /\ call \in [Clients -> Calls] /\ served \in [Clients -> Services]
  /\ DOMAIN answer = Clients /\ DOMAIN missed = Clients
  /\ \A c \in Clients : call[c].pc # "idle" => call[c].request \in Asked

\* A request with an argument of its function's type.
Legal(f, arg) ==
  f \in Functions /\ arg \in IF f \in {"SetLoop", "SetParameter"} THEN BOOLEAN ELSE Int

\* The answer a tells what the service s did for a request of the function f.
Truly(f, a, s) ==
  /\ (a.ret = 0) = (s.ret = 0)
  /\ f \in Flags \cup (Values \ {"GetAudioStreamType"}) => a.value = s.value
  /\ f = "GetAudioStreamType" /\ s.value = 0 => a.value = 0

RepliesAreTrue ==
  \A c \in Clients :
    /\ call[c].pc = "served" =>
         Truly(call[c].request[1], Unmarshal(call[c].request[1], call[c].reply), served[c])
    /\ call[c].pc = "done" => Truly(call[c].request[1], answer[c], served[c])

\* What the service does with a request when it has the player p.
ServedBy(p, f, arg) ==
  IF f = "SetSource" /\ p.state = "none" THEN SetSource(Fresh)
  ELSE IF p.state = "none" THEN {Default(f)}
  ELSE IF f = "Release" THEN Ok(NoPlayer)
  ELSE Impl(f, arg, p)

\* A request that may be repeated is accepted, whatever the outcome is.
Accepts(p, r) ==
  r[1] \notin {"SetSource", "Release"} => \A o \in ServedBy(p, r[1], r[2]) : o.ret = 0

SuccessLasts ==
  \A c \in Clients :
    /\ missed[c] # <<>> => Accepts(player, missed[c])
    /\ call[c].pc = "served" /\ served[c].ret = 0 /\ served[c].last => Accepts(player, call[c].request)

-----------------------------------------------------------------------------
(* What a request does *)

LEMMA FreshType ==
  Fresh \in Players /\ NoPlayer \in Players /\ Fresh.state = "idle" /\ NoPlayer.state = "none"
<1>1. Fresh \in Players /\ Fresh.state = "idle"
  BY DEF Fresh, Players, States
<1>2. NoPlayer \in Players /\ NoPlayer.state = "none"
  BY <1>1 DEF NoPlayer, Players, States
<1> QED
  BY <1>1, <1>2

LEMMA OutcomesOf ==
  ASSUME NEW p \in Players, NEW q \in Players
  PROVE  /\ Ok(q) \subseteq Outcomes /\ Refused(p) \subseteq Outcomes
         /\ \A v \in Told : Tell(p, v) \subseteq Outcomes
         /\ \A f : Attempt(f, p, q) \subseteq Outcomes
<1>1. 0 \in Told
  BY DEF Told
<1>2. ASSUME NEW r \in Players, NEW ret \in {0, -1}, NEW v \in Told
      PROVE  Outcome(r, ret, v) \in Outcomes
  BY DEF Outcome, Outcomes
<1>3. Ok(q) \subseteq Outcomes /\ Refused(p) \subseteq Outcomes
  BY <1>1, <1>2 DEF Ok, Refused
<1>4. \A v \in Told : Tell(p, v) \subseteq Outcomes
  BY <1>2 DEF Tell
<1> QED
  BY <1>3, <1>4 DEF Attempt

LEMMA ToState ==
  ASSUME NEW p \in Players, NEW s \in States
  PROVE  /\ To(p, s) \in Players /\ To(p, s).state = s /\ To(p, s).speed = p.speed
         /\ To(p, s).video = p.video /\ To(p, s).pauseAfterPlay = p.pauseAfterPlay
BY DEF To, Players

LEMMA ResetInnerType ==
  ASSUME NEW p \in Players
  PROVE  /\ ResetInner(p) \in Players /\ ResetInner(p).state = "idle"
         /\ Ok(ResetInner(p)) \subseteq Outcomes /\ Refused(ResetInner(p)) \subseteq Outcomes
<1>1. ResetInner(p) \in Players /\ ResetInner(p).state = "idle"
  BY FreshType DEF ResetInner, Players
<1> QED
  BY <1>1, OutcomesOf

LEMMA SetSourceOutcomes ==
  ASSUME NEW p \in Players
  PROVE  SetSource(p) \subseteq Outcomes
<1>1. To(p, "initialized") \in Players
  BY ToState DEF States
<1>2. /\ Attempt("SetSource", p, To(p, "initialized")) \subseteq Outcomes
      /\ Refused(p) \subseteq Outcomes
  BY <1>1, OutcomesOf
<1> QED
  BY <1>2, ResetInnerType DEF SetSource

LEMMA ImplOutcomes ==
  ASSUME NEW f, NEW arg, Legal(f, arg), f \notin {"Release", "SetPlayerCallback"}, NEW p \in Players
  PROVE  Impl(f, arg, p) \subseteq Outcomes
<1>t. /\ p.state \in States /\ p.loop \in BOOLEAN /\ p.speed \in Int /\ p.type \in Int
      /\ p.video \in BOOLEAN /\ p.pauseAfterPlay \in BOOLEAN /\ p.listener \in Clients \cup {Nobody}
  BY DEF Players
<1>s. ASSUME NEW s \in States
      PROVE  To(p, s) \in Players /\ Ok(To(p, s)) \subseteq Outcomes
             /\ \A g : Attempt(g, p, To(p, s)) \subseteq Outcomes
  BY ToState, OutcomesOf
<1>o. /\ Ok(p) \subseteq Outcomes /\ Refused(p) \subseteq Outcomes
      /\ \A v \in Told : Tell(p, v) \subseteq Outcomes
      /\ \A g : Attempt(g, p, p) \subseteq Outcomes
  BY OutcomesOf
<1>1. SetSource(p) \subseteq Outcomes /\ Play(p) \subseteq Outcomes /\ Pause(p) \subseteq Outcomes
      /\ Stop(p) \subseteq Outcomes
  BY <1>s, <1>o, SetSourceOutcomes DEF Play, Pause, Stop, States
<1>2. Prepare(p) \subseteq Outcomes
  <2>1. ASSUME NEW v \in Videos
        PROVE  Attempt("Prepare", p, [To(p, "prepared") EXCEPT !.video = v]) \subseteq Outcomes
    <3>1. To(p, "prepared") \in Players /\ v \in BOOLEAN
      BY <1>s, ServerConstants DEF States
    <3>2. [To(p, "prepared") EXCEPT !.video = v] \in Players
      BY <3>1 DEF Players
    <3> QED
      BY <3>2, OutcomesOf
  <2>2. Refused(To(p, "prepared")) \subseteq Outcomes
    BY <1>s, OutcomesOf DEF States
  <2>3. UNION {Attempt("Prepare", p, [To(p, "prepared") EXCEPT !.video = v]) : v \in Videos} \subseteq Outcomes
    BY <2>1
  <2>4. CASE p.state = "initialized"
    <3> SUFFICES ASSUME NEW o \in Prepare(p) PROVE o \in Outcomes
      OBVIOUS
    <3>1. p.state # "prepared"
      BY <2>4
    <3>2. \/ o \in UNION {Attempt("Prepare", p, [To(p, "prepared") EXCEPT !.video = v]) : v \in Videos}
          \/ o \in Refused(To(p, "prepared"))
      BY <2>4, <3>1, Zenon DEF Prepare
    <3> QED
      BY <2>2, <2>3, <3>2, Zenon
  <2>5. CASE p.state # "initialized"
    BY <1>o, <2>5 DEF Prepare
  <2> QED
    BY <2>4, <2>5
<1>3. IsPlaying(p) \subseteq Outcomes /\ IsSingleLooping(p) \subseteq Outcomes
      /\ GetPlayerState(p) \subseteq Outcomes /\ GetPlaybackSpeed(p) \subseteq Outcomes
      /\ GetAudioStreamType(p) \subseteq Outcomes
  <2>1. BOOLEAN \subseteq Told /\ Int \subseteq Told /\ States \subseteq Told
    BY DEF Told
  <2>2. ASSUME NEW b \in BOOLEAN PROVE Tell(p, b) \subseteq Outcomes
    BY <1>o, <2>1
  <2>3. IsPlaying(p) \subseteq Outcomes /\ IsSingleLooping(p) \subseteq Outcomes
    BY <1>t, <2>2, Zenon DEF IsPlaying, IsSingleLooping
  <2>4. 0 \in Told /\ p.speed \in Told /\ p.type \in Told /\ p.state \in Told
    BY <1>t, <2>1
  <2> QED
    BY <1>o, <2>3, <2>4 DEF GetPlayerState, GetPlaybackSpeed, GetAudioStreamType
<1>4. Rewind(p) \subseteq Outcomes /\ SetVolume(p, arg) \subseteq Outcomes /\ SetSurface(p) \subseteq Outcomes
      /\ GetTime(p) \subseteq Outcomes /\ GetVideoSize(p) \subseteq Outcomes
  BY <1>o DEF Rewind, SetVolume, SetSurface, GetTime, GetVideoSize
<1>5. ASSUME arg \in BOOLEAN PROVE SetLoop(p, arg) \subseteq Outcomes /\ SetParameter(p, arg) \subseteq Outcomes
  <2>1. [p EXCEPT !.loop = arg] \in Players /\ [p EXCEPT !.pauseAfterPlay = arg] \in Players
    BY <1>5 DEF Players
  <2> QED
    BY <1>o, <2>1, OutcomesOf DEF SetLoop, SetParameter
<1>6. ASSUME arg \in Int
      PROVE  SetPlaybackSpeed(p, arg) \subseteq Outcomes /\ SetAudioStreamType(p, arg) \subseteq Outcomes
  <2>1. [p EXCEPT !.speed = arg] \in Players /\ [p EXCEPT !.type = arg] \in Players
    BY <1>6 DEF Players
  <2> QED
    BY <1>o, <2>1, OutcomesOf DEF SetPlaybackSpeed, SetAudioStreamType
<1>7. Reset(p) \subseteq Outcomes
  BY <1>o, ResetInnerType DEF Reset
<1> QED
  BY <1>1, <1>2, <1>3, <1>4, <1>5, <1>6, <1>7 DEF Impl, Legal, Functions, Flags, Values

LEMMA ServedOutcomes ==
  ASSUME NEW f, NEW arg, Legal(f, arg), f # "SetPlayerCallback", NEW p \in Players
  PROVE  ServedBy(p, f, arg) \subseteq Outcomes
<1>1. SetSource(Fresh) \subseteq Outcomes
  BY FreshType, SetSourceOutcomes
<1>2. Default(f) \in Outcomes
  BY FreshType DEF Default, Outcome, Outcomes, Told, States
<1>3. Ok(NoPlayer) \subseteq Outcomes
  BY FreshType, OutcomesOf
<1> QED
  BY <1>1, <1>2, <1>3, ImplOutcomes DEF ServedBy

\* A query succeeds whether or not there is a player.
LEMMA FlagsAreTold ==
  ASSUME NEW f \in Flags, NEW arg, NEW p \in Players, NEW o \in ServedBy(p, f, arg)
  PROVE  o.ret = 0 /\ o.value \in BOOLEAN
<1>1. ASSUME NEW b \in BOOLEAN, o \in Tell(p, b) PROVE o.ret = 0 /\ o.value \in BOOLEAN
  BY <1>1 DEF Tell, Outcome
<1>2. CASE p.state = "none"
  <2>1. o = Default(f)
    BY <1>2 DEF ServedBy, Flags
  <2>2. Default(f) = Outcome(NoPlayer, 0, FALSE)
    BY DEF Default, Flags
  <2> QED
    BY <2>1, <2>2 DEF Outcome
<1>3. CASE p.state # "none" /\ f = "IsPlaying"
  <2>1. o \in IsPlaying(p)
    BY <1>3 DEF ServedBy, Impl
  <2> QED
    BY <1>1, <2>1, Zenon DEF IsPlaying
<1>4. CASE p.state # "none" /\ f = "IsSingleLooping"
  <2>1. o \in IsSingleLooping(p) /\ p.loop \in BOOLEAN
    BY <1>4 DEF ServedBy, Impl, Players
  <2> QED
    BY <1>1, <2>1, Zenon DEF IsSingleLooping
<1> QED
  BY <1>2, <1>3, <1>4 DEF Flags

\* What the client reads is what the service wrote.
LEMMA ReplyIsRead ==
  ASSUME NEW f, NEW arg, Legal(f, arg), f # "SetPlayerCallback", NEW p \in Players,
         NEW o \in ServedBy(p, f, arg)
  PROVE  Reply(f, o) \in Seq(Items) /\ Truly(f, Unmarshal(f, Reply(f, o)), o)
<1>1. o.player \in Players /\ o.ret \in {0, -1} /\ o.value \in Told
  BY ServedOutcomes DEF Outcomes
<1>2. ASSUME NEW type \in {"bool", "int32", "int64", "float"}, NEW v \in Told
      PROVE  Item(type, v) \in Items /\ Item(type, v).type = type /\ Item(type, v).value = v
             /\ Read(type, Item(type, v)) = v
  BY DEF Item, Items, Read
<1>3. CASE f \in Flags
  <2>1. o.ret = 0 /\ o.value \in BOOLEAN
    BY <1>3, FlagsAreTold
  <2>2. Reply(f, o) = <<Item("bool", o.value)>>
    BY <1>3 DEF Reply
  <2>3. Read("int32", Item("bool", o.value)) = IF o.value THEN 1 ELSE 0
    BY DEF Read, Item
  <2>4. Truly(f, Unmarshal(f, Reply(f, o)), o)
    BY <1>1, <1>2, <1>3, <2>1, <2>2, <2>3 DEF Truly, Unmarshal, Flags, Values
  <2> QED
    BY <1>1, <1>2, <2>2, <2>4
<1>4. CASE f \in Values
  <2>1. Reply(f, o) = <<Item("int32", o.ret), Item(Written(f), o.value)>>
    BY <1>4 DEF Reply, Flags, Values
  <2>2. Written(f) \in {"bool", "int32", "int64", "float"} /\ o.ret \in Told
    BY <1>1 DEF Written, Told
  <2>3. f # "GetAudioStreamType" => Expected(f) = Written(f)
    BY DEF Expected
  <2>4. f = "GetAudioStreamType" /\ o.value = 0 => Read(Expected(f), Item(Written(f), o.value)) = 0
    BY DEF Expected, Written, Read, Item
  <2>5. Truly(f, Unmarshal(f, Reply(f, o)), o)
    BY <1>1, <1>2, <1>4, <2>1, <2>2, <2>3, <2>4 DEF Truly, Unmarshal, Flags, Values
  <2> QED
    BY <1>1, <1>2, <2>1, <2>2, <2>5
<1>5. CASE f \notin Flags \cup Values
  <2>1. o.ret \in Told /\ (o.ret # 0) \in Told
    BY <1>1 DEF Told
  <2>2. PICK item \in Items : Reply(f, o) = <<item>> /\ (Read("int32", item) = 0) = (o.ret = 0)
    <3>1. CASE f = "SetLoop" /\ o.player.state # "none"
      <4>1. Reply(f, o) = <<Item("bool", o.ret # 0)>>
        BY <1>5, <3>1 DEF Reply
      <4>2. (Read("int32", Item("bool", o.ret # 0)) = 0) = (o.ret = 0)
        <5>1. ASSUME NEW b \in BOOLEAN PROVE (Read("int32", Item("bool", b)) = 0) <=> ~b
          BY DEF Read, Item
        <5>2. (Read("int32", Item("bool", o.ret # 0)) = 0) <=> (o.ret = 0)
          BY <5>1, Zenon
        <5> QED
          BY <5>2, Zenon
      <4> QED
        BY <1>2, <2>1, <4>1, <4>2
    <3>2. CASE ~(f = "SetLoop" /\ o.player.state # "none")
      <4>1. Reply(f, o) = <<Item("int32", o.ret)>>
        BY <1>5, <3>2 DEF Reply
      <4> QED
        BY <1>2, <2>1, <4>1
    <3> QED
      BY <3>1, <3>2
  <2>3. Unmarshal(f, Reply(f, o)) = [ret |-> Read("int32", item), value |-> 0]
    BY <1>5, <2>2 DEF Unmarshal, Flags
  <2>4. Truly(f, Unmarshal(f, Reply(f, o)), o)
    BY <1>5, <2>2, <2>3 DEF Truly, Values
  <2> QED
    BY <2>2, <2>4
<1> QED
  BY <1>3, <1>4, <1>5

\* A request that succeeded succeeds again in the player it left, also a Rewind
\* unless the engine refuses that.
LEMMA AcceptedAgain ==
  ASSUME "Rewind" \notin Faults, NEW f, NEW arg, Legal(f, arg),
         f \notin {"SetSource", "Release", "SetPlayerCallback"},
         NEW p \in Players, NEW o \in ServedBy(p, f, arg), o.ret = 0,
         NEW q \in ServedBy(o.player, f, arg)
  PROVE  q.ret = 0
<1>o. o.player \in Players
  BY ServedOutcomes DEF Outcomes
<1>r. /\ \A r, s, v : Outcome(r, s, v).player = r /\ Outcome(r, s, v).ret = s
      /\ \A r : \A x \in Refused(r) : x.ret = -1
      /\ \A r : \A x \in Ok(r) : x.ret = 0 /\ x.player = r
      /\ \A r, v : \A x \in Tell(r, v) : x.ret = 0 /\ x.player = r
      /\ \A g, r, s : \A x \in Attempt(g, r, s) : x.ret = 0 => x.player = s
  BY DEF Outcome, Refused, Ok, Tell, Attempt
<1>1. CASE p.state = "none"
  <2>1. o = Default(f)
    BY <1>1 DEF ServedBy
  <2>2. \E s, v : Default(f) = Outcome(NoPlayer, s, v)
    BY Zenon DEF Default
  <2>3. o.player = NoPlayer
    BY <1>r, <2>1, <2>2
  <2>4. q = Default(f)
    BY <2>3, FreshType DEF ServedBy
  <2> QED
    BY <2>1, <2>4
<1>2. CASE p.state # "none"
  <2> DEFINE Again(x) == x.state # "none" /\ \A y \in Impl(f, arg, x) : y.ret = 0
  <2>o. o \in Impl(f, arg, p)
    BY <1>2 DEF ServedBy
  <2> SUFFICES Again(o.player)
    BY DEF ServedBy
  <2>s. \A r, s : To(r, s) = [r EXCEPT !.state = s]
    BY DEF To
  <2>1. CASE f = "Prepare"
    <3>1. \A r : r.state = "prepared" => \A x \in Prepare(r) : x.ret = 0
      BY <1>r DEF Prepare
    <3>2. o.player.state = "prepared"
      <4>1. CASE p.state = "prepared"
        BY <1>r, <2>1, <2>o, <4>1 DEF Impl, Prepare
      <4>2. CASE p.state # "prepared"
        <5>1. p.state = "initialized"
          BY <1>r, <2>1, <2>o, <4>2 DEF Impl, Prepare
        <5>2. \/ o \in UNION {Attempt("Prepare", p, [To(p, "prepared") EXCEPT !.video = v]) : v \in Videos}
              \/ o \in Refused(To(p, "prepared"))
          BY <2>1, <2>o, <4>2, <5>1, Zenon DEF Impl, Prepare
        <5>n. o \notin Refused(To(p, "prepared"))
          BY <1>r
        <5>3. PICK v \in Videos : o \in Attempt("Prepare", p, [To(p, "prepared") EXCEPT !.video = v])
          BY <5>2, <5>n, Zenon
        <5>4. o.player = [To(p, "prepared") EXCEPT !.video = v]
          BY <1>r, <5>3
        <5>5. To(p, "prepared") \in Players /\ To(p, "prepared").state = "prepared"
          BY ToState DEF States
        <5> QED
          BY <5>4, <5>5 DEF Players
      <4> QED
        BY <4>1, <4>2
    <3> QED
      BY <2>1, <3>1, <3>2 DEF Impl
  <2>2. CASE f = "Play"
    <3>1. o.player.state = "started"
      BY <1>r, <2>2, <2>o, ToState DEF Impl, Play, States
    <3> QED
      BY <1>r, <2>2, <3>1 DEF Impl, Play
  <2>3. CASE f = "Pause"
    <3>1. o.player.state = "paused"
      BY <1>r, <2>3, <2>o, ToState DEF Impl, Pause, States
    <3> QED
      BY <1>r, <2>3, <3>1 DEF Impl, Pause
  <2>4. CASE f = "Stop"
    <3>1. o.player.state = "stopped"
      BY <1>r, <2>4, <2>o, ToState DEF Impl, Stop, States
    <3> QED
      BY <1>r, <2>4, <3>1 DEF Impl, Stop
  <2>5. CASE f \in {"IsPlaying", "IsSingleLooping", "GetTime", "GetPlayerState", "GetPlaybackSpeed", "GetAudioStreamType"}
    <3>1. \A r : \A x \in Impl(f, arg, r) : x.ret = 0 /\ x.player = r
      BY <1>r, <2>5 DEF Impl, IsPlaying, IsSingleLooping, GetTime, GetPlayerState, GetPlaybackSpeed, GetAudioStreamType
    <3> QED
      BY <1>2, <2>o, <3>1
  <2>6. CASE f = "GetVideoSize"
    <3>1. o.player = p /\ Started(p) /\ p.video
      BY <1>r, <2>6, <2>o DEF Impl, GetVideoSize
    <3> QED
      BY <1>2, <1>r, <2>6, <3>1 DEF Impl, GetVideoSize
  <2>7. CASE f \in {"SetVolume", "SetSurface"}
    <3>1. o.player = p /\ \A x \in Impl(f, arg, p) : x.ret = 0
      BY <1>r, <2>7, <2>o DEF Impl, SetVolume, SetSurface
    <3> QED
      BY <1>2, <3>1
  <2>8. CASE f = "Rewind"
    <3>1. o.player = p /\ \A x \in Impl(f, arg, p) : x.ret = 0
      BY <1>r, <2>8, <2>o DEF Impl, Rewind, Attempt
    <3> QED
      BY <1>2, <3>1
  <2>9. CASE f \in {"SetLoop", "SetAudioStreamType", "SetParameter"}
    <3>1. o.player.state = p.state /\ \A r \in Players : r.state = p.state => \A x \in Impl(f, arg, r) : x.ret = 0
      <4>1. /\ [p EXCEPT !.loop = arg].state = p.state /\ [p EXCEPT !.type = arg].state = p.state
            /\ [p EXCEPT !.pauseAfterPlay = arg].state = p.state
        BY DEF Players
      <4> DEFINE l == [p EXCEPT !.loop = arg]
                 t == [p EXCEPT !.type = arg]
                 e == [p EXCEPT !.pauseAfterPlay = arg]
      <4>2. l.state = p.state /\ t.state = p.state /\ e.state = p.state
        BY <4>1
      <4>3. /\ SetLoop(p, arg) \in {Refused(p), Ok(l)} /\ SetAudioStreamType(p, arg) \in {Refused(p), Ok(t)}
            /\ SetParameter(p, arg) \in {Refused(p), Ok(e)}
        BY DEF SetLoop, SetAudioStreamType, SetParameter
      <4> HIDE DEF l, t, e
      <4>4. CASE f = "SetLoop"
        <5>1. p.state \notin {"idle", "stopped", "complete"} /\ o.player = l
          BY <1>r, <2>o, <4>3, <4>4 DEF Impl, SetLoop
        <5> QED
          BY <1>r, <4>2, <4>4, <5>1 DEF Impl, SetLoop
      <4>5. CASE f = "SetAudioStreamType"
        <5>1. p.state \in {"idle", "initialized"} /\ o.player = t
          BY <1>r, <2>o, <4>3, <4>5 DEF Impl, SetAudioStreamType
        <5> QED
          BY <1>r, <4>2, <4>5, <5>1 DEF Impl, SetAudioStreamType
      <4>6. CASE f = "SetParameter"
        <5>1. p.state \in {"idle", "initialized"} /\ o.player = e
          BY <1>r, <2>o, <4>3, <4>6 DEF Impl, SetParameter
        <5> QED
          BY <1>r, <4>2, <4>6, <5>1 DEF Impl, SetParameter
      <4> QED
        BY <2>9, <4>4, <4>5, <4>6
    <3> QED
      BY <1>2, <1>o, <3>1
  <2>10. CASE f = "SetPlaybackSpeed"
    <3>1. o.player.state = "started" /\ o.player.speed = arg
      <4>1. [p EXCEPT !.speed = arg].state = p.state /\ [p EXCEPT !.speed = arg].speed = arg
        BY DEF Players
      <4> DEFINE e == [p EXCEPT !.speed = arg]
      <4>2. o \in SetPlaybackSpeed(p, arg)
        BY <2>10, <2>o DEF Impl
      <4>3. p.state = "started" /\ (arg = p.speed \/ o \in Attempt("SetPlaybackSpeed", p, e))
        BY <1>r, <4>2 DEF SetPlaybackSpeed
      <4>4. e.state = p.state /\ e.speed = arg
        BY <4>1
      <4> HIDE DEF e
      <4>5. arg = p.speed => o.player = p
        BY <1>r, <4>2, <4>3 DEF SetPlaybackSpeed
      <4> QED
        BY <1>r, <4>3, <4>4, <4>5
    <3> QED
      BY <1>r, <2>10, <3>1 DEF Impl, SetPlaybackSpeed
  <2>11. CASE f = "Reset"
    <3>1. o.player.state = "idle"
      <4>1. ResetInner(p).state = "idle"
        BY ResetInnerType
      <4> QED
        BY <1>r, <2>11, <2>o, <4>1 DEF Impl, Reset
    <3> QED
      BY <1>r, <2>11, <3>1 DEF Impl, Reset
  <2> QED
    BY <2>1, <2>2, <2>3, <2>4, <2>5, <2>6, <2>7, <2>8, <2>9, <2>10, <2>11 DEF Legal, Functions, Flags, Values
<1> QED
  BY <1>1, <1>2

-----------------------------------------------------------------------------
(* The invariant is inductive *)

LEMMA AskedAreLegal ==
  ASSUME NEW r \in Asked
  PROVE  r # <<>> /\ Legal(r[1], r[2])
BY RequestsAreCalls DEF Asked, Legal

LEMMA ServedIsServedBy ==
  ASSUME NEW f, NEW arg
  PROVE  Served(f, arg) = ServedBy(player, f, arg)
BY DEF Served, ServedBy

\* What the histories keep when the player may have changed.
LEMMA ForgetFacts ==
  ASSUME served \in [Clients -> Services], NEW others \in SUBSET Clients
  PROVE  /\ Forget(others) \in [Clients -> Services]
         /\ \A d \in Clients :
              /\ Forget(others)[d].ret = served[d].ret /\ Forget(others)[d].value = served[d].value
              /\ Forget(others)[d].last => served[d].last /\ (d \in others => player' = player)
         /\ DOMAIN ForgetMissed(others) = Clients
         /\ \A d \in Clients : ForgetMissed(others)[d] # <<>> =>
              d \in others /\ player' = player /\ ForgetMissed(others)[d] = missed[d]
<1>1. ASSUME NEW d \in Clients
      PROVE  /\ [served[d] EXCEPT !.last = FALSE] \in Services
             /\ [served[d] EXCEPT !.last = FALSE].ret = served[d].ret
             /\ [served[d] EXCEPT !.last = FALSE].value = served[d].value
             /\ ~[served[d] EXCEPT !.last = FALSE].last
  BY DEF Services
<1>2. CASE player' = player
  BY <1>2 DEF Forget, ForgetMissed
<1>3. CASE player' # player
  <2> DEFINE g == [d \in Clients |-> IF d \in others THEN [served[d] EXCEPT !.last = FALSE] ELSE served[d]]
  <2>1. Forget(others) = g
    BY <1>3 DEF Forget
  <2>2. g \in [Clients -> Services]
    BY <1>1
  <2>3. \A d \in Clients : g[d].ret = served[d].ret /\ g[d].value = served[d].value
                           /\ (g[d].last => served[d].last /\ d \notin others)
    BY <1>1
  <2> HIDE DEF g
  <2> QED
    BY <1>3, <2>1, <2>2, <2>3 DEF ForgetMissed
<1> QED
  BY <1>2, <1>3

Inv == TypeOK /\ RepliesAreTrue

LEMMA InvInit == Init => Inv /\ SuccessLasts
<1> SUFFICES ASSUME Init PROVE Inv /\ SuccessLasts
  OBVIOUS
<1>1. NoCall \in Calls /\ NoCall.pc = "idle"
  BY DEF NoCall, Calls
<1>2. NotServed \in Services
  BY DEF NotServed, Services, Told
<1>3. TypeOK
  BY <1>1, <1>2, FreshType DEF Init, TypeOK
<1> QED
  BY <1>1, <1>3 DEF Init, Inv, RepliesAreTrue, SuccessLasts

\* A step that serves no request.
LEMMA QuietStep ==
  ASSUME Inv, NEW c \in Clients, Begin(c) \/ Return(c) \/ Lose(c) \/ Finish(c)
  PROVE  Inv' /\ (SuccessLasts => SuccessLasts')
<1>0. /\ player \in Players /\ call \in [Clients -> Calls] /\ served \in [Clients -> Services]
      /\ DOMAIN answer = Clients /\ DOMAIN missed = Clients /\ player' = player
      /\ \A d \in Clients : call[d].pc # "idle" => call[d].request \in Asked
  BY DEF Inv, TypeOK, Begin, Return, Lose, Finish, serverVars
<1>n. NoCall \in Calls /\ NoCall.pc = "idle" /\ NotServed \in Services
  BY DEF NoCall, Calls, NotServed, Services, Told
<1>1. CASE Begin(c)
  <2>1. PICK r \in Requests[c] : call' = [call EXCEPT ![c] = [pc |-> "sent", request |-> r, reply |-> <<>>]]
    BY <1>1 DEF Begin
  <2> DEFINE k == [pc |-> "sent", request |-> r, reply |-> <<>>]
  <2>2. k \in Calls /\ k.pc = "sent" /\ k.request \in Asked
    BY DEF Calls, Asked
  <2>3. call' = [call EXCEPT ![c] = k] /\ UNCHANGED <<player, answer, served, missed>>
    BY <1>1, <2>1 DEF Begin, serverVars
  <2> HIDE DEF k
  <2>4. TypeOK'
    BY <1>0, <2>2, <2>3 DEF TypeOK
  <2>5. RepliesAreTrue'
    BY <1>0, <2>2, <2>3 DEF Inv, RepliesAreTrue
  <2>6. SuccessLasts => SuccessLasts'
    BY <1>0, <2>2, <2>3 DEF SuccessLasts
  <2> QED
    BY <2>4, <2>5, <2>6 DEF Inv
<1>2. CASE Return(c)
  <2> DEFINE a == Unmarshal(call[c].request[1], call[c].reply)
             k == [call[c] EXCEPT !.pc = "done"]
  <2>1. /\ call[c].pc = "served" /\ UNCHANGED <<player, served, missed>>
        /\ answer' = [answer EXCEPT ![c] = a] /\ call' = [call EXCEPT ![c] = k]
    BY <1>2 DEF Return, serverVars
  <2>2. Truly(call[c].request[1], a, served[c])
    BY <2>1 DEF Inv, RepliesAreTrue
  <2>3. k \in Calls /\ k.pc = "done" /\ k.request = call[c].request
    BY <1>0 DEF Calls
  <2> HIDE DEF a, k
  <2>4. TypeOK'
    BY <1>0, <2>1, <2>3 DEF TypeOK
  <2>5. RepliesAreTrue'
    BY <1>0, <2>1, <2>2, <2>3 DEF Inv, RepliesAreTrue
  <2>6. SuccessLasts => SuccessLasts'
    BY <1>0, <2>1, <2>3 DEF SuccessLasts
  <2> QED
    BY <2>4, <2>5, <2>6 DEF Inv
<1>3. CASE Lose(c)
  <2> DEFINE m == IF call[c].pc = "served" /\ served[c].ret = 0 /\ served[c].last
                  THEN call[c].request ELSE <<>>
  <2>1. /\ UNCHANGED player /\ answer' = [answer EXCEPT ![c] = Nothing]
        /\ call' = [call EXCEPT ![c] = NoCall] /\ missed' = [missed EXCEPT ![c] = m]
        /\ served' = [served EXCEPT ![c] = NotServed]
    BY <1>3 DEF Lose, serverVars
  <2>2. SuccessLasts /\ m # <<>> => Accepts(player, m)
    BY DEF SuccessLasts
  <2> HIDE DEF m
  <2>4. TypeOK'
    BY <1>0, <1>n, <2>1 DEF TypeOK
  <2>5. RepliesAreTrue'
    BY <1>0, <1>n, <2>1 DEF Inv, RepliesAreTrue
  <2>6. SuccessLasts => SuccessLasts'
    BY <1>0, <1>n, <2>1, <2>2 DEF SuccessLasts
  <2> QED
    BY <2>4, <2>5, <2>6 DEF Inv
<1>4. CASE Finish(c)
  <2>1. /\ UNCHANGED <<player, missed>> /\ answer' = [answer EXCEPT ![c] = Nothing]
        /\ call' = [call EXCEPT ![c] = NoCall] /\ served' = [served EXCEPT ![c] = NotServed]
    BY <1>4 DEF Finish, serverVars
  <2>4. TypeOK'
    BY <1>0, <1>n, <2>1 DEF TypeOK
  <2>5. RepliesAreTrue'
    BY <1>0, <1>n, <2>1 DEF Inv, RepliesAreTrue
  <2>6. SuccessLasts => SuccessLasts'
    BY <1>0, <1>n, <2>1 DEF SuccessLasts
  <2> QED
    BY <2>4, <2>5, <2>6 DEF Inv
<1> QED
  BY <1>1, <1>2, <1>3, <1>4

\* The histories of the other processes after a step that may change the player.
LEMMA OthersKeep ==
  ASSUME Inv, NEW c, NEW others \in SUBSET Clients, Clients \ {c} \subseteq others,
         NEW g \in [Clients -> Services],
         \A d \in Clients \ {c} :
           g[d].ret = served[d].ret /\ g[d].value = served[d].value
           /\ (g[d].last => served[d].last /\ player' = player),
         NEW k \in [Clients -> Calls], \A d \in Clients \ {c} : k[d] = call[d],
         served' = g, call' = k, UNCHANGED answer, missed' = ForgetMissed(others)
  PROVE  \A d \in Clients \ {c} :
           /\ call'[d].pc = "served" =>
                Truly(call'[d].request[1], Unmarshal(call'[d].request[1], call'[d].reply), served'[d])
           /\ call'[d].pc = "done" => Truly(call'[d].request[1], answer'[d], served'[d])
           /\ SuccessLasts =>
                /\ missed'[d] # <<>> => Accepts(player', missed'[d])
                /\ call'[d].pc = "served" /\ served'[d].ret = 0 /\ served'[d].last =>
                     Accepts(player', call'[d].request)
<1>1. served \in [Clients -> Services]
  BY DEF Inv, TypeOK
<1> SUFFICES ASSUME NEW d \in Clients \ {c}
             PROVE  /\ call[d].pc = "served" =>
                         Truly(call[d].request[1], Unmarshal(call[d].request[1], call[d].reply), g[d])
                    /\ call[d].pc = "done" => Truly(call[d].request[1], answer[d], g[d])
                    /\ SuccessLasts =>
                         /\ missed'[d] # <<>> => Accepts(player', missed'[d])
                         /\ call[d].pc = "served" /\ g[d].ret = 0 /\ g[d].last =>
                              Accepts(player', call[d].request)
  OBVIOUS
<1>2. \A f, a : Truly(f, a, served[d]) => Truly(f, a, g[d])
  BY DEF Truly
<1>3. missed'[d] # <<>> => player' = player /\ missed'[d] = missed[d]
  BY <1>1, ForgetFacts
<1>4. g[d].last => served[d].last /\ player' = player
  OBVIOUS
<1>5. /\ call[d].pc = "served" =>
           Truly(call[d].request[1], Unmarshal(call[d].request[1], call[d].reply), g[d])
      /\ call[d].pc = "done" => Truly(call[d].request[1], answer[d], g[d])
  BY <1>2 DEF Inv, RepliesAreTrue
<1>6. ASSUME SuccessLasts, missed'[d] # <<>> PROVE Accepts(player', missed'[d])
  BY <1>3, <1>6 DEF SuccessLasts
<1>7. ASSUME SuccessLasts, call[d].pc = "served", g[d].ret = 0, g[d].last
      PROVE  Accepts(player', call[d].request)
  BY <1>4, <1>7 DEF SuccessLasts
<1> QED
  BY <1>5, <1>6, <1>7

\* The service serves the request, whose reply and whose success are noted.
LEMMA HandleStep ==
  ASSUME Inv, NEW c \in Clients, Handle(c)
  PROVE  Inv' /\ ("Rewind" \notin Faults /\ SuccessLasts => SuccessLasts')
<1>0. /\ player \in Players /\ call \in [Clients -> Calls] /\ served \in [Clients -> Services]
      /\ DOMAIN answer = Clients /\ DOMAIN missed = Clients
      /\ \A d \in Clients : call[d].pc # "idle" => call[d].request \in Asked
  BY DEF Inv, TypeOK
<1> DEFINE r == call[c].request
           f == r[1]
           arg == r[2]
<1>1. call[c].pc = "sent" /\ missed' = ForgetMissed(Clients \ {c}) /\ UNCHANGED answer
  BY DEF Handle
<1>2. r \in Asked /\ Legal(f, arg)
  BY <1>0, <1>1, AskedAreLegal
<1>m. DOMAIN missed' = Clients /\ missed'[c] = <<>>
  BY <1>0, <1>1, ForgetFacts
<1>n. NoCall \in Calls /\ NoCall.pc = "idle"
  BY DEF NoCall, Calls
<1>3. CASE f = "SetPlayerCallback"
  <2>1. ServeListener(c) /\ call' = [call EXCEPT ![c] = NoCall] /\ served' = Forget(Clients)
    BY <1>3 DEF Handle
  <2>2. player' \in Players
    BY <1>0, <2>1 DEF ServeListener, Players
  <2>3. /\ served' \in [Clients -> Services]
        /\ \A d \in Clients :
             /\ served'[d].ret = served[d].ret /\ served'[d].value = served[d].value
             /\ served'[d].last => served[d].last /\ player' = player
    BY <1>0, <2>1, ForgetFacts
  <2>4. call' \in [Clients -> Calls] /\ call'[c].pc = "idle" /\ \A d \in Clients \ {c} : call'[d] = call[d]
    BY <1>0, <1>n, <2>1
  <2>5. TypeOK'
    BY <1>0, <1>1, <1>m, <2>2, <2>3, <2>4 DEF TypeOK
  <2>6. \A d \in Clients \ {c} :
           /\ call'[d].pc = "served" =>
                Truly(call'[d].request[1], Unmarshal(call'[d].request[1], call'[d].reply), served'[d])
           /\ call'[d].pc = "done" => Truly(call'[d].request[1], answer'[d], served'[d])
           /\ SuccessLasts =>
                /\ missed'[d] # <<>> => Accepts(player', missed'[d])
                /\ call'[d].pc = "served" /\ served'[d].ret = 0 /\ served'[d].last =>
                     Accepts(player', call'[d].request)
    BY <1>1, <2>3, <2>4, OthersKeep
  <2>7. RepliesAreTrue'
    BY <2>4, <2>6 DEF RepliesAreTrue
  <2>8. SuccessLasts => SuccessLasts'
    BY <1>m, <2>4, <2>6 DEF SuccessLasts
  <2> QED
    BY <2>5, <2>7, <2>8 DEF Inv
<1>4. CASE f # "SetPlayerCallback"
  <2>1. PICK o \in ServedBy(player, f, arg) :
          /\ Serve(f, arg, o)
          /\ served' = [Forget(Clients) EXCEPT ![c] = [ret |-> o.ret, value |-> o.value, last |-> TRUE]]
          /\ call' = [call EXCEPT ![c].pc = "served", ![c].reply = Reply(f, o)]
    BY <1>4, ServedIsServedBy DEF Handle
  <2> DEFINE s == [ret |-> o.ret, value |-> o.value, last |-> TRUE]
             reply == Reply(f, o)
             k == [call[c] EXCEPT !.pc = "served", !.reply = reply]
             g == Forget(Clients)
  <2>2. o \in Outcomes
    BY <1>0, <1>2, <1>4, ServedOutcomes
  <2>3. player' = o.player /\ o.player \in Players
    BY <2>1, <2>2 DEF Serve, Outcomes
  <2>4. s \in Services /\ s.ret = o.ret /\ s.value = o.value
    BY <2>2 DEF Outcomes, Services
  <2>5. reply \in Seq(Items) /\ Truly(f, Unmarshal(f, reply), o)
    BY <1>0, <1>2, <1>4, ReplyIsRead
  <2>6. Truly(f, Unmarshal(f, reply), s)
    BY <2>4, <2>5 DEF Truly
  <2>7. /\ g \in [Clients -> Services]
        /\ \A d \in Clients :
             /\ g[d].ret = served[d].ret /\ g[d].value = served[d].value
             /\ g[d].last => served[d].last /\ player' = player
    BY <1>0, ForgetFacts
  <2>8. served' = [g EXCEPT ![c] = s]
    BY <2>1
  <2>9. "Rewind" \notin Faults /\ o.ret = 0 => Accepts(player', r)
    BY <1>0, <1>2, <1>4, <2>3, AcceptedAgain DEF Accepts
  <2> HIDE DEF s, reply, g
  <2>10. k \in Calls /\ k.pc = "served" /\ k.request = r /\ k.reply = reply
    BY <1>0, <2>5 DEF Calls
  <2>11. call' = [call EXCEPT ![c] = k]
    BY <1>0, <2>1 DEF Calls, reply
  <2> HIDE DEF k
  <2>12. /\ served' \in [Clients -> Services] /\ served'[c] = s
         /\ \A d \in Clients \ {c} : served'[d] = g[d]
    BY <2>4, <2>7, <2>8
  <2>13. /\ call' \in [Clients -> Calls] /\ call'[c] = k /\ \A d \in Clients \ {c} : call'[d] = call[d]
    BY <1>0, <2>10, <2>11
  <2>14. TypeOK'
    <3>1. \A d \in Clients : call'[d].pc # "idle" => call'[d].request \in Asked
      BY <1>0, <1>2, <2>10, <2>13
    <3> QED
      BY <1>0, <1>1, <1>m, <2>3, <2>12, <2>13, <3>1 DEF TypeOK
  <2>15. \A d \in Clients \ {c} :
           /\ call'[d].pc = "served" =>
                Truly(call'[d].request[1], Unmarshal(call'[d].request[1], call'[d].reply), served'[d])
           /\ call'[d].pc = "done" => Truly(call'[d].request[1], answer'[d], served'[d])
           /\ SuccessLasts =>
                /\ missed'[d] # <<>> => Accepts(player', missed'[d])
                /\ call'[d].pc = "served" /\ served'[d].ret = 0 /\ served'[d].last =>
                     Accepts(player', call'[d].request)
    <3>1. \A d \in Clients \ {c} :
            /\ served'[d].ret = served[d].ret /\ served'[d].value = served[d].value
            /\ served'[d].last => served[d].last /\ player' = player
      BY <2>7, <2>12
    <3> QED
      BY <1>1, <2>12, <2>13, <3>1, OthersKeep
  <2>16. RepliesAreTrue'
    BY <2>6, <2>10, <2>12, <2>13, <2>15 DEF RepliesAreTrue
  <2>17. ASSUME "Rewind" \notin Faults, SuccessLasts PROVE SuccessLasts'
    <3>1. /\ missed'[c] # <<>> => Accepts(player', missed'[c])
          /\ call'[c].pc = "served" /\ served'[c].ret = 0 /\ served'[c].last =>
               Accepts(player', call'[c].request)
      BY <1>m, <2>4, <2>9, <2>10, <2>12, <2>13, <2>17
    <3> QED
      BY <2>15, <2>17, <3>1 DEF SuccessLasts
  <2> QED
    BY <2>14, <2>16, <2>17 DEF Inv
<1> QED
  BY <1>3, <1>4

LEMMA CompleteStep ==
  ASSUME Inv, Complete
  PROVE  Inv' /\ (SuccessLasts => SuccessLasts')
<1>0. /\ player \in Players /\ call \in [Clients -> Calls] /\ served \in [Clients -> Services]
      /\ DOMAIN answer = Clients /\ DOMAIN missed = Clients
  BY DEF Inv, TypeOK
<1>1. /\ player' = To(player, "complete") /\ served' = Forget(Clients) /\ missed' = ForgetMissed(Clients)
      /\ UNCHANGED <<call, answer>>
  BY DEF Complete, Completed
<1>2. player' \in Players
  BY <1>0, <1>1, ToState DEF States
<1>3. /\ served' \in [Clients -> Services] /\ DOMAIN missed' = Clients
      /\ \A d \in Clients :
           /\ served'[d].ret = served[d].ret /\ served'[d].value = served[d].value
           /\ served'[d].last => served[d].last /\ player' = player
           /\ missed'[d] # <<>> => player' = player /\ missed'[d] = missed[d]
  BY <1>0, <1>1, ForgetFacts
<1>4. TypeOK'
  BY <1>1, <1>2, <1>3 DEF Inv, TypeOK
<1>5. RepliesAreTrue'
  BY <1>1, <1>3 DEF Inv, RepliesAreTrue, Truly
<1>6. SuccessLasts => SuccessLasts'
  BY <1>1, <1>3 DEF SuccessLasts
<1> QED
  BY <1>4, <1>5, <1>6 DEF Inv

LEMMA InvStep ==
  ASSUME Inv, [Next]_vars
  PROVE  Inv' /\ ("Rewind" \notin Faults /\ SuccessLasts => SuccessLasts')
<1>1. CASE UNCHANGED vars
  BY <1>1 DEF vars, serverVars, Inv, TypeOK, RepliesAreTrue, SuccessLasts
<1>2. CASE Complete
  BY <1>2, CompleteStep
<1>3. ASSUME NEW c \in Clients, Begin(c) \/ Handle(c) \/ Return(c) \/ Lose(c) \/ Finish(c)
      PROVE  Inv' /\ ("Rewind" \notin Faults /\ SuccessLasts => SuccessLasts')
  BY <1>3, QuietStep, HandleStep
<1> QED
  BY <1>1, <1>2, <1>3 DEF Next

\* What an application is told is what the service did for its own call.
THEOREM AnswersTellTheTruth == Spec => []AnswersAreTrue
<1>1. Inv => AnswersAreTrue
  BY DEF Inv, RepliesAreTrue, Truly, AnswersAreTrue
<1>2. Init => Inv
  BY InvInit
<1>3. Inv /\ [Next]_vars => Inv'
  BY InvStep
<1> QED
  BY <1>1, <1>2, <1>3, PTL DEF Spec

\* A call whose answer got lost succeeds when it is repeated, if the engine
\* refuses no Rewind.
THEOREM RepetitionSucceeds ==
  ASSUME "Rewind" \notin Faults
  PROVE  Spec => RepeatedCallsSucceed
<1> DEFINE Repeated ==
      \A c \in Clients :
       (/\ call[c].pc = "sent" /\ call'[c].pc = "served"
        /\ call[c].request = missed[c]
        /\ call[c].request[1] \notin {"SetSource", "Release"})
       => served'[c].ret = 0
<1>1. Init => Inv /\ SuccessLasts
  BY InvInit
<1>2. Inv /\ SuccessLasts /\ [Next]_vars => Inv' /\ SuccessLasts'
  BY InvStep
<1>3. Inv /\ SuccessLasts /\ [Next]_vars => [Repeated]_vars
  <2> SUFFICES ASSUME Inv, SuccessLasts, Next, NEW c \in Clients, call[c].pc = "sent",
                      call'[c].pc = "served", call[c].request = missed[c],
                      call[c].request[1] \notin {"SetSource", "Release"}
               PROVE  served'[c].ret = 0
    OBVIOUS
  <2>0. call \in [Clients -> Calls] /\ served \in [Clients -> Services] /\ call[c].request \in Asked
    BY DEF Inv, TypeOK
  <2>1. Handle(c)
    <3>1. ~Complete
      BY DEF Complete
    <3>2. PICK d \in Clients : Begin(d) \/ Handle(d) \/ Return(d) \/ Lose(d) \/ Finish(d)
      BY <3>1 DEF Next
    <3>3. ~Begin(d)
      BY <2>0 DEF Begin
    <3>4. ~Return(d)
      BY <2>0 DEF Return
    <3>5. ~Lose(d) /\ ~Finish(d)
      BY <2>0 DEF Lose, Finish, NoCall
    <3>6. d = c
      BY <2>0, <3>2, <3>3, <3>4, <3>5 DEF Handle, NoCall
    <3> QED
      BY <3>2, <3>3, <3>4, <3>5, <3>6
  <2>2. call[c].request # <<>>
    BY <2>0, AskedAreLegal
  <2>3. call[c].request[1] # "SetPlayerCallback"
    BY <2>0, <2>1 DEF Handle, NoCall
  <2>4. PICK o \in ServedBy(player, call[c].request[1], call[c].request[2]) :
          served' = [Forget(Clients) EXCEPT ![c] = [ret |-> o.ret, value |-> o.value, last |-> TRUE]]
    BY <2>1, <2>3, ServedIsServedBy DEF Handle
  <2>5. o.ret = 0
    BY <2>2 DEF SuccessLasts, Accepts
  <2>6. DOMAIN Forget(Clients) = Clients
    BY <2>0, ForgetFacts
  <2> QED
    BY <2>4, <2>5, <2>6
<1> QED
  BY <1>1, <1>2, <1>3, PTL DEF Spec, RepeatedCallsSucceed

=============================================================================
