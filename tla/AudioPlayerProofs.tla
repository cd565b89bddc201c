------------------------- MODULE AudioPlayerProofs -------------------------
(***************************************************************************)
(* Proofs about AudioPlayer, for every number of threads that end a        *)
(* playback and of sources: lock_ keeps them apart from the UpdateTime     *)
(* thread, and with a player of its own the module is always ready again.  *)
(***************************************************************************)
EXTENDS AudioPlayer, TLAPS

-----------------------------------------------------------------------------
(* The inductive invariant *)

States == {"none", "idle", "initialized", "prepared", "started", "paused", "stopped", "complete"}
Players ==
  [state : States, loop : BOOLEAN, speed : Int, type : Int, video : BOOLEAN,
   pauseAfterPlay : BOOLEAN, listener : {"js", Nobody}]

Destroying == {"destroy", "asked", "stopping", "resetting", "releasing", "delete", "forget"}

\* Where a thread is from the deletion of a player to the creation of the next.
Gone == {"forget", "new again", "new for source", "new", "terminate", "off"}

Places ==
  Destroying \cup Gone
    \cup {"idle", "lock", "unlock", "listen", "fork", "source", "keep", "prepare",
          "play", "start", "signal", "played", "pause", "halt", "paused"}
Spots  == [pc : Places, then : Places]
TypeOK == at \in [Threads -> Spots] /\ object \in BOOLEAN

\* A player that is destroyed is created again, except at the end.
JsAims(spot) ==
  /\ spot.pc \in Destroying => spot.then \in {"new again", "new for source", "terminate"}
  /\ spot.pc \in {"new", "listen"} => spot.then \in {"fork", "idle", "source"}
EnderAims(spot) ==
  /\ spot.pc \in Destroying \cup {"new"} => spot.then = "new"
  /\ spot.pc = "listen" => spot.then \in {"new", "unlock"}
Recreated == JsAims(at["js"]) /\ \A e \in Enders : EnderAims(at[e])

\* Who holds lock_.
Locked ==
  /\ timer \in {"test", "ask", "unlock"} => lock = "timer"
  /\ \A e \in Enders : at[e].pc \notin {"idle", "lock"} => lock = e

\* The player is there, or a thread is between its deletion and its creation; the
\* UpdateTime thread, which saw it, knows that of the JavaScript thread.
PlayerIsNear ==
  /\ timer = "ask" => object \/ at["js"].pc \in Gone
  /\ ~object => \E t \in Threads : at[t].pc \in Gone

Inv == TypeOK /\ Recreated /\ Locked /\ PlayerIsNear

\* The engine is there and has the listener, or a thread is on its way to that.
ListenerIsNear ==
  /\ player \in Players
  /\ player.state = "none" => \E t \in Threads : at[t].pc \in Gone \cup {"delete"}
  /\ player.listener # "js" => \E t \in Threads : at[t].pc \in Gone \cup {"delete", "listen"}

-----------------------------------------------------------------------------
(* What the calls of the player leave alone *)

LEMMA FreshType ==
  /\ Fresh \in Players /\ Fresh.state = "idle" /\ Fresh.listener = Nobody
  /\ NoPlayer \in Players /\ NoPlayer.state = "none"
<1>1. Fresh \in Players /\ Fresh.state = "idle" /\ Fresh.listener = Nobody
  BY DEF Fresh, Players, States
<1> QED
  BY <1>1 DEF NoPlayer, Players, States

\* The player q is p in another state, or with other settings.
Alike(p, q) == q \in Players /\ q.listener = p.listener /\ q.state # "none"

LEMMA OutcomesOf ==
  /\ \A r, s, v : Outcome(r, s, v).player = r
  /\ \A r : \A x \in Refused(r) : x.player = r
  /\ \A r : \A x \in Ok(r) : x.player = r
  /\ \A g, r, s : \A x \in Attempt(g, r, s) : x.player \in {r, s}
BY DEF Outcome, Refused, Ok, Attempt

LEMMA ToState ==
  ASSUME NEW p \in Players, NEW s \in States \ {"none"}
  PROVE  Alike(p, To(p, s))
BY DEF To, Players, Alike

Settings == {"SetSource", "Prepare", "Play", "Pause", "Stop", "Rewind", "SetVolume", "SetLoop", "Reset"}

LEMMA CallsKeepListener ==
  ASSUME NEW p \in Players, p.state # "none", NEW f \in Settings, NEW arg,
         f = "SetLoop" => arg \in BOOLEAN, NEW o \in Impl(f, arg, p)
  PROVE  Alike(p, o.player)
<1>p. Alike(p, p)
  BY DEF Alike
<1>r. Alike(p, ResetInner(p))
  BY FreshType DEF ResetInner, Alike, Players
<1>1. CASE f = "SetSource"
  <2> DEFINE e == ResetInner(p)
             q == To(p, "initialized")
  <2>1. Alike(p, e) /\ Alike(p, q)
    BY <1>r, ToState DEF States
  <2>2. o \in SetSource(p)
    BY <1>1 DEF Impl
  <2>3. o.player \in {p, q, e}
    BY <2>2, OutcomesOf DEF SetSource
  <2> HIDE DEF e, q
  <2> QED
    BY <1>p, <2>1, <2>3
<1>2. CASE f = "Prepare"
  <2>1. Alike(p, To(p, "prepared"))
    BY ToState DEF States
  <2>2. CASE p.state # "initialized"
    BY <1>2, <1>p, <2>2, OutcomesOf DEF Impl, Prepare
  <2>3. CASE p.state = "initialized"
    <3>1. p.state # "prepared"
      BY <2>3
    <3>2. \/ o \in UNION {Attempt("Prepare", p, [To(p, "prepared") EXCEPT !.video = v]) : v \in Videos}
          \/ o \in Refused(To(p, "prepared"))
      BY <1>2, <2>3, <3>1, Zenon DEF Impl, Prepare
    <3>3. CASE o \in Refused(To(p, "prepared"))
      BY <2>1, <3>3, OutcomesOf
    <3>4. CASE o \in UNION {Attempt("Prepare", p, [To(p, "prepared") EXCEPT !.video = v]) : v \in Videos}
      <4>1. PICK v \in Videos : o \in Attempt("Prepare", p, [To(p, "prepared") EXCEPT !.video = v])
        BY <3>4
      <4>2. v \in BOOLEAN
        BY ServerConstants
      <4> DEFINE q == To(p, "prepared")
                 e == [q EXCEPT !.video = v]
      <4>3. Alike(p, e)
        <5>1. Alike(p, q)
          BY <2>1
        <5> HIDE DEF q
        <5> QED
          BY <4>2, <5>1 DEF Alike, Players
      <4>4. o.player \in {p, e}
        BY <4>1, OutcomesOf
      <4> HIDE DEF e
      <4> QED
        BY <1>p, <4>3, <4>4
    <3> QED
      BY <3>2, <3>3, <3>4
  <2> QED
    BY <2>2, <2>3
<1>3. CASE f \in {"Play", "Pause", "Stop"}
  <2>1. \A s \in {"started", "paused", "stopped"} : Alike(p, To(p, s))
    BY ToState DEF States
  <2> QED
    BY <1>3, <1>p, <2>1, OutcomesOf DEF Impl, Play, Pause, Stop
<1>4. CASE f \in {"Rewind", "SetVolume"}
  BY <1>4, <1>p, OutcomesOf DEF Impl, Rewind, SetVolume
<1>5. CASE f = "SetLoop"
  <2> DEFINE e == [p EXCEPT !.loop = arg]
  <2>1. Alike(p, e)
    BY <1>5 DEF Alike, Players
  <2>2. o \in SetLoop(p, arg)
    BY <1>5 DEF Impl
  <2> HIDE DEF e
  <2> QED
    BY <1>p, <2>1, <2>2, OutcomesOf DEF SetLoop, e
<1>6. CASE f = "Reset"
  <2> DEFINE e == ResetInner(p)
  <2>1. Alike(p, e)
    BY <1>r
  <2>2. o \in Reset(p)
    BY <1>6 DEF Impl
  <2> HIDE DEF e
  <2> QED
    BY <1>p, <2>1, <2>2, OutcomesOf DEF Reset, e
<1> QED
  BY <1>1, <1>2, <1>3, <1>4, <1>5, <1>6 DEF Settings

-----------------------------------------------------------------------------
(* A step of one thread *)

\* The thread t, and no other, moves, within what it may do without lock_.
Moves(t) ==
  /\ at' \in [Threads -> Spots] /\ \A u \in Threads \ {t} : at'[u] = at[u]
  /\ t = "js" => JsAims(at'[t])
  /\ t \in Enders => EnderAims(at'[t]) /\ (at'[t].pc \notin {"idle", "lock"} => lock = t)

\* The player's object stays, is created, or is deleted and missed by t.
ObjectStep(t) ==
  /\ object' \in BOOLEAN /\ UNCHANGED lock
  /\ timer' = timer \/ timer' \notin {"test", "ask", "unlock"}
  /\ \/ object'
     \/ object' = object /\ (at[t].pc \in Gone => at'[t].pc \in Gone)
     \/ at'[t].pc \in Gone /\ (t \in Enders => lock = t)

\* The engine and its listener stay, are set up, or t sees to it.
EngineStep(t) ==
  /\ player' \in Players
  /\ \/ player'.state # "none"
     \/ player.state = "none" /\ (at[t].pc \in Gone \cup {"delete"} => at'[t].pc \in Gone \cup {"delete"})
     \/ at'[t].pc \in Gone \cup {"delete"}
  /\ \/ player'.listener = "js"
     \/ player'.state = "none"
     \/ /\ player.listener # "js"
        /\ at[t].pc \in Gone \cup {"delete", "listen"} => at'[t].pc \in Gone \cup {"delete", "listen"}
     \/ at'[t].pc \in Gone \cup {"delete", "listen"}

LEMMA JsIsAThread == "js" \in Threads /\ "js" \notin Enders /\ "timer" \notin Enders
BY AudioConstants DEF Threads

LEMMA StepOfThread ==
  ASSUME Inv, NEW t \in Threads, Moves(t), ObjectStep(t)
  PROVE  Inv' /\ (ListenerIsNear /\ EngineStep(t) => ListenerIsNear')
<1>0. at \in [Threads -> Spots] /\ at' \in [Threads -> Spots]
  BY DEF Inv, TypeOK, Spots, Moves
<1>1. TypeOK'
  BY DEF TypeOK, Moves, ObjectStep, Spots
<1>2. Recreated'
  BY JsIsAThread DEF Inv, Recreated, Moves, Threads
<1>3. Locked'
  <2>1. lock' = lock /\ (timer' \in {"test", "ask", "unlock"} => timer' = timer)
    BY DEF ObjectStep
  <2>2. ASSUME NEW e \in Enders, at'[e].pc \notin {"idle", "lock"} PROVE lock = e
    BY <2>2 DEF Inv, Locked, Moves, Threads
  <2> QED
    BY <2>1, <2>2 DEF Inv, Locked
<1>4. timer' = "ask" => object' \/ at'["js"].pc \in Gone
  <2> SUFFICES ASSUME timer' = "ask", ~object' PROVE at'["js"].pc \in Gone
    OBVIOUS
  <2>1. timer = "ask" /\ lock = "timer"
    BY DEF ObjectStep, Inv, Locked
  <2>2. t \in Enders => lock # t
    BY <2>1, JsIsAThread
  <2>3. object \/ at["js"].pc \in Gone
    BY <2>1 DEF Inv, PlayerIsNear
  <2>4. CASE t = "js"
    BY <2>3, <2>4 DEF ObjectStep
  <2>5. CASE t \in Enders
    <3>1. at'["js"] = at["js"]
      BY <2>5, JsIsAThread DEF Moves
    <3>2. object' = object
      BY <2>2, <2>5 DEF ObjectStep
    <3> QED
      BY <2>3, <3>1, <3>2
  <2> QED
    BY <2>4, <2>5 DEF Threads
<1>5. ~object' => \E u \in Threads : at'[u].pc \in Gone
  <2> SUFFICES ASSUME ~object', at'[t].pc \notin Gone PROVE \E u \in Threads : at'[u].pc \in Gone
    OBVIOUS
  <2>1. ~object /\ at[t].pc \notin Gone
    BY DEF ObjectStep
  <2>2. PICK u \in Threads : at[u].pc \in Gone
    BY <2>1 DEF Inv, PlayerIsNear
  <2> QED
    BY <2>1, <2>2 DEF Moves
<1>6. ASSUME ListenerIsNear, EngineStep(t) PROVE ListenerIsNear'
  <2>1. player'.state = "none" => \E u \in Threads : at'[u].pc \in Gone \cup {"delete"}
    <3> SUFFICES ASSUME player'.state = "none", at'[t].pc \notin Gone \cup {"delete"}
                 PROVE  \E u \in Threads : at'[u].pc \in Gone \cup {"delete"}
      OBVIOUS
    <3>1. player.state = "none" /\ at[t].pc \notin Gone \cup {"delete"}
      BY <1>6 DEF EngineStep
    <3>2. PICK u \in Threads : at[u].pc \in Gone \cup {"delete"}
      BY <1>6, <3>1 DEF ListenerIsNear
    <3> QED
      BY <3>1, <3>2 DEF Moves
  <2>2. player'.listener # "js" => \E u \in Threads : at'[u].pc \in Gone \cup {"delete", "listen"}
    <3> SUFFICES ASSUME player'.listener # "js", player'.state # "none",
                        at'[t].pc \notin Gone \cup {"delete", "listen"}
                 PROVE  \E u \in Threads : at'[u].pc \in Gone \cup {"delete", "listen"}
      BY <2>1
    <3>1. player.listener # "js" /\ at[t].pc \notin Gone \cup {"delete", "listen"}
      BY <1>6 DEF EngineStep
    <3>2. PICK u \in Threads : at[u].pc \in Gone \cup {"delete", "listen"}
      BY <1>6, <3>1 DEF ListenerIsNear
    <3> QED
      BY <3>1, <3>2 DEF Moves
  <2> QED
    BY <1>6, <2>1, <2>2 DEF EngineStep, ListenerIsNear
<1> QED
  BY <1>1, <1>2, <1>3, <1>4, <1>5, <1>6 DEF Inv, PlayerIsNear

\* Where Goto and GotoThen bring a thread.
LEMMA GotoFacts ==
  ASSUME at \in [Threads -> Spots], NEW t \in Threads, NEW place \in Places, NEW then \in Places
  PROVE  /\ Goto(t, place) =>
              /\ at' \in [Threads -> Spots] /\ \A u \in Threads \ {t} : at'[u] = at[u]
              /\ at'[t].pc = place /\ at'[t].then = at[t].then
         /\ GotoThen(t, place, then) =>
              /\ at' \in [Threads -> Spots] /\ \A u \in Threads \ {t} : at'[u] = at[u]
              /\ at'[t].pc = place /\ at'[t].then = then
BY DEF Goto, GotoThen, Spots

\* A call of the player other than Release.
LEMMA CallFacts ==
  ASSUME at \in [Threads -> Spots], NEW t \in Threads, NEW f \in Settings, NEW arg,
         f = "SetLoop" => arg \in BOOLEAN,
         NEW ok \in Places, NEW failed \in Places, Call(t, f, arg, ok, failed), Calm
  PROVE  /\ (at' = at /\ wild' = t) \/ (wild' = "no" /\ (Goto(t, ok) \/ Goto(t, failed)))
         /\ Passthrough /\ player \in Players =>
              player' \in Players /\ player'.listener = player.listener
              /\ (player'.state = "none" <=> player.state = "none")
<1>1. CASE ~object
  BY <1>1 DEF Call, serverVars
<1>2. CASE object
  <2>1. wild' = "no" /\ (Goto(t, ok) \/ Goto(t, failed))
    BY <1>2 DEF Call, Calm
  <2>2. ASSUME Passthrough, player \in Players
        PROVE  player' \in Players /\ player'.listener = player.listener
               /\ (player'.state = "none" <=> player.state = "none")
    <3>1. CASE player.state = "none"
      BY <1>2, <2>2, <3>1 DEF Call, serverVars
    <3>2. CASE player.state # "none"
      <4>1. PICK o \in Impl(f, arg, player) : player' = o.player
        BY <1>2, <2>2, <3>2 DEF Call, Served, Serve, Settings
      <4>2. Alike(player, o.player)
        BY <2>2, <3>2, CallsKeepListener
      <4> QED
        BY <3>2, <4>1, <4>2 DEF Alike
    <3> QED
      BY <3>1, <3>2
  <2> QED
    BY <2>1, <2>2
<1> QED
  BY <1>1, <1>2

-----------------------------------------------------------------------------
(* DestoryPlayer and CreatePlayer *)

\* A thread that waits, or used a player that was not there.
LEMMA StaysPut ==
  ASSUME Inv, NEW t \in Threads, at' = at
  PROVE  Moves(t)
BY JsIsAThread DEF Inv, TypeOK, Recreated, Locked, Moves

LEMMA RecreateStep ==
  ASSUME Inv, Calm, NEW t \in Threads, Recreate(t),
         t \in Enders => at[t] # [pc |-> "listen", then |-> "new"]
  PROVE  /\ Moves(t) /\ ObjectStep(t) /\ wild' \in {"no", t}
         /\ Passthrough /\ ListenerIsNear => EngineStep(t)
<1>0. /\ at \in [Threads -> Spots] /\ object \in BOOLEAN /\ UNCHANGED <<lock, timer>>
      /\ at[t].pc \in Places /\ at[t].then \in Places
  BY DEF Inv, TypeOK, Recreate, Spots
<1>a. /\ t = "js" => JsAims(at[t])
      /\ t \in Enders => EnderAims(at[t]) /\ (at[t].pc \notin {"idle", "lock"} => lock = t)
      /\ t = "js" \/ t \in Enders
  BY DEF Inv, Recreated, Locked, Threads
<1>w. Calm => wild = "no"
  BY DEF Calm
<1>c. UNCHANGED player /\ at[t].pc \notin Gone \cup {"delete", "listen"} /\ ListenerIsNear => EngineStep(t)
  BY DEF EngineStep, ListenerIsNear
\* A thread that goes on with its destruction.
<1>g. ASSUME at[t].pc \in Destroying, NEW place \in Destroying, Goto(t, place) PROVE Moves(t)
  <2>1. /\ at' \in [Threads -> Spots] /\ \A u \in Threads \ {t} : at'[u] = at[u]
        /\ at'[t].pc = place /\ at'[t].then = at[t].then
    <3>1. place \in Places
      BY <1>g DEF Places
    <3> QED
      BY <1>0, <1>g, <3>1, GotoFacts
  <2> QED
    BY <1>a, <1>g, <2>1 DEF Moves, JsAims, EnderAims, Destroying
<1>h. ASSUME NEW place \in Places, Goto(t, place) PROVE at'[t].pc = place
  BY <1>0, <1>h, GotoFacts
<1>1. CASE DestroyCheck(t)
  <2>1. at[t].pc = "destroy" /\ UNCHANGED <<player, object, wild>> /\ (Goto(t, "asked") \/ Goto(t, "forget"))
    BY <1>1 DEF DestroyCheck, serverVars
  <2>2. Moves(t)
    BY <1>g, <2>1 DEF Destroying
  <2> QED
    BY <1>0, <1>c, <1>w, <2>1, <2>2 DEF ObjectStep, Gone
<1>2. CASE DestroyCalls(t)
  <2>0. UNCHANGED object
    BY <1>2 DEF DestroyCalls
  <2>1. CASE at[t].pc = "asked" /\ Ask(t, "stopping", "resetting")
    <3>1. /\ UNCHANGED player /\ wild' \in {"no", t}
          /\ at' = at \/ Goto(t, "stopping") \/ Goto(t, "resetting")
      BY <1>w, <2>1 DEF Ask, serverVars
    <3>2. Moves(t)
      BY <1>g, <2>1, <3>1, StaysPut DEF Destroying
    <3> QED
      BY <1>0, <1>c, <2>0, <2>1, <3>1, <3>2 DEF ObjectStep, Gone
  <2>2. ASSUME NEW f \in {"Stop", "Reset"}, NEW next \in {"resetting", "releasing"},
               at[t].pc \in {"stopping", "resetting"}, Call(t, f, 0, next, next)
        PROVE  /\ Moves(t) /\ ObjectStep(t) /\ wild' \in {"no", t}
               /\ Passthrough /\ ListenerIsNear => EngineStep(t)
    <3>1. /\ (at' = at /\ wild' = t) \/ (wild' = "no" /\ Goto(t, next))
          /\ Passthrough /\ player \in Players =>
               player' \in Players /\ player'.listener = player.listener
               /\ (player'.state = "none" <=> player.state = "none")
      <4>1. f \in Settings /\ f # "SetLoop" /\ next \in Places
        BY <2>2 DEF Settings, Places, Destroying
      <4> QED
        BY <1>0, <2>2, <4>1, CallFacts
    <3>2. Moves(t)
      BY <1>g, <2>2, <3>1, StaysPut DEF Destroying
    <3>3. Passthrough /\ ListenerIsNear => EngineStep(t)
      BY <2>2, <3>1 DEF EngineStep, ListenerIsNear, Gone
    <3> QED
      BY <1>0, <2>0, <2>2, <3>1, <3>2, <3>3 DEF ObjectStep, Gone
  <2>3. CASE at[t].pc = "releasing" /\ Call(t, "Release", 0, "delete", "delete")
    <3>1. (at' = at /\ wild' = t /\ UNCHANGED player) \/ (wild' = "no" /\ Goto(t, "delete"))
      BY <1>w, <2>3 DEF Call, serverVars
    <3>2. Moves(t)
      BY <1>g, <2>3, <3>1, StaysPut DEF Destroying
    <3>3. ASSUME Passthrough, ListenerIsNear, Goto(t, "delete"), wild' = "no" PROVE EngineStep(t)
      <4>1. player' = player \/ player' = NoPlayer
        BY <2>3, <3>3, OutcomesOf DEF Call, Served, Serve, serverVars
      <4>2. at'[t].pc = "delete"
        <5>1. "delete" \in Places
          BY DEF Places, Destroying
        <5> QED
          BY <1>h, <3>3, <5>1
      <4> QED
        BY <3>3, <4>1, <4>2, FreshType DEF EngineStep, ListenerIsNear
    <3> QED
      BY <1>0, <1>c, <2>0, <2>3, <3>1, <3>2, <3>3 DEF ObjectStep, Gone
  <2> QED
    BY <1>2, <2>1, <2>2, <2>3 DEF DestroyCalls
<1>3. CASE Delete(t)
  <2>1. at[t].pc = "delete" /\ ~object' /\ Goto(t, "forget") /\ UNCHANGED <<player, wild>>
    BY <1>3 DEF Delete, serverVars
  <2>2. Moves(t)
    BY <1>g, <2>1 DEF Destroying
  <2>3. at'[t].pc = "forget" /\ object' \in BOOLEAN
    <3>1. "forget" \in Places
      BY DEF Places, Destroying
    <3> QED
      BY <1>h, <1>3, <2>1, <3>1 DEF Delete
  <2> QED
    BY <1>0, <1>a, <1>w, <2>1, <2>2, <2>3 DEF ObjectStep, EngineStep, ListenerIsNear, Gone
<1>4. CASE ForgetSource(t)
  <2>1. at[t].pc = "forget" /\ Goto(t, at[t].then) /\ UNCHANGED <<player, object, wild>>
    BY <1>4 DEF ForgetSource, Back, serverVars
  <2>2. /\ at' \in [Threads -> Spots] /\ \A u \in Threads \ {t} : at'[u] = at[u]
        /\ at'[t].pc = at[t].then /\ at'[t].then = at[t].then
    BY <1>0, <2>1, GotoFacts
  <2>3. /\ t = "js" => at[t].then \in {"new again", "new for source", "terminate"}
        /\ t \in Enders => at[t].then = "new" /\ lock = t
    BY <1>a, <2>1 DEF JsAims, EnderAims, Destroying
  <2>4. Moves(t)
    BY <1>a, <2>2, <2>3, JsIsAThread DEF Moves, JsAims, EnderAims, Destroying
  <2> QED
    BY <1>0, <1>a, <1>w, <2>1, <2>2, <2>3, <2>4 DEF ObjectStep, EngineStep, ListenerIsNear, Gone
<1>5. CASE New(t)
  <2>1. /\ at[t].pc = "new" /\ object' /\ object' \in BOOLEAN /\ Goto(t, "listen") /\ UNCHANGED wild
        /\ Passthrough => player' = Fresh
    BY <1>5 DEF New
  <2>2. /\ at' \in [Threads -> Spots] /\ \A u \in Threads \ {t} : at'[u] = at[u]
        /\ at'[t].pc = "listen" /\ at'[t].then = at[t].then
    <3>1. "listen" \in Places
      BY DEF Places
    <3> QED
      BY <1>0, <2>1, <3>1, GotoFacts
  <2>3. Moves(t)
    BY <1>a, <2>1, <2>2, JsIsAThread DEF Moves, JsAims, EnderAims, Destroying
  <2> QED
    BY <1>0, <1>w, <2>1, <2>2, <2>3, FreshType DEF ObjectStep, EngineStep
<1>6. CASE Listen(t)
  <2>0. at[t].pc = "listen" /\ UNCHANGED object
    BY <1>6 DEF Listen
  <2>1. CASE ~object
    <3>1. wild' = t /\ at' = at /\ UNCHANGED player
      BY <1>6, <2>1 DEF Listen, serverVars
    <3>2. Moves(t)
      BY <3>1, StaysPut
    <3> QED
      BY <1>0, <2>0, <3>1, <3>2 DEF ObjectStep, EngineStep, ListenerIsNear
  <2>2. CASE object
    <3>1. ServeListener("js") /\ Goto(t, at[t].then) /\ UNCHANGED wild
      BY <1>6, <2>2 DEF Listen, Back
    <3>2. /\ at' \in [Threads -> Spots] /\ \A u \in Threads \ {t} : at'[u] = at[u]
          /\ at'[t].pc = at[t].then /\ at'[t].then = at[t].then
      BY <1>0, <3>1, GotoFacts
    <3>3. /\ t = "js" => at[t].then \in {"fork", "idle", "source"}
          /\ t \in Enders => at[t].then = "unlock" /\ lock = t
      <4>1. t \in Enders => at[t].then # "new"
        BY <1>0, <2>0 DEF Spots
      <4> QED
        BY <1>a, <2>0, <4>1 DEF JsAims, EnderAims
    <3>4. Moves(t)
      BY <1>a, <3>2, <3>3, JsIsAThread DEF Moves, JsAims, EnderAims, Destroying
    <3>5. ASSUME player \in Players
          PROVE  /\ player' \in Players /\ (player'.state = "none" <=> player.state = "none")
                 /\ player'.state # "none" => player'.listener = "js"
      BY <3>1, <3>5 DEF ServeListener, Players
    <3>6. Passthrough /\ ListenerIsNear => EngineStep(t)
      BY <2>0, <3>5 DEF EngineStep, ListenerIsNear, Gone
    <3> QED
      BY <1>0, <1>w, <2>0, <3>1, <3>4, <3>6 DEF ObjectStep, Gone
  <2> QED
    BY <1>0, <2>1, <2>2
<1> QED
  BY <1>1, <1>2, <1>3, <1>4, <1>5, <1>6 DEF Recreate

-----------------------------------------------------------------------------
(* The JavaScript thread *)

Step(t) ==
  /\ Moves(t) /\ ObjectStep(t) /\ wild' \in {"no", t}
  /\ Passthrough /\ ListenerIsNear => EngineStep(t)

\* Places where neither the player nor what follows is at stake.
Plain == Places \ (Destroying \cup Gone \cup {"listen"})

LEMMA PlainMove ==
  ASSUME Inv, NEW place \in Plain, NEW then \in Places,
         Goto("js", place) \/ GotoThen("js", place, then)
  PROVE  Moves("js") /\ at'["js"].pc = place
<1>1. place \in Places /\ place \notin Destroying \cup {"new", "listen"} /\ at \in [Threads -> Spots]
  BY DEF Plain, Gone, Inv, TypeOK
<1>2. /\ at' \in [Threads -> Spots] /\ \A u \in Threads \ {"js"} : at'[u] = at[u] /\ at'["js"].pc = place
  BY <1>1, GotoFacts, JsIsAThread
<1>3. at'["js"].pc = place /\ \A u \in Threads \ {"js"} : at'[u] = at[u]
  BY <1>1, GotoFacts, JsIsAThread
<1>4. at' \in [Threads -> Spots]
  BY <1>1, GotoFacts, JsIsAThread
<1> QED
  BY <1>1, <1>3, <1>4, JsIsAThread DEF Moves, JsAims

\* A step that leaves the player, and goes from a place like that.
LEMMA PlainStep ==
  ASSUME Inv, Calm, Moves("js"), at["js"].pc \in Plain, UNCHANGED <<player, object, lock>>,
         timer' = timer \/ timer' \notin {"test", "ask", "unlock"}, wild' \in {"no", "js"}
  PROVE  Step("js")
<1>1. at["js"].pc \notin Gone \cup {"delete", "listen"}
  BY DEF Plain, Destroying
<1>2. ObjectStep("js")
  BY <1>1 DEF ObjectStep, Inv, TypeOK
<1>3. ListenerIsNear => EngineStep("js")
  BY <1>1 DEF EngineStep, ListenerIsNear
<1> QED
  BY <1>2, <1>3 DEF Step

LEMMA PlainCall ==
  ASSUME Inv, Calm, NEW f \in Settings, NEW arg, f = "SetLoop" => arg \in BOOLEAN,
         NEW ok \in Plain, NEW failed \in Plain, Call("js", f, arg, ok, failed),
         at["js"].pc \in Plain, UNCHANGED <<object, lock, timer>>
  PROVE  Step("js")
<1>0. at \in [Threads -> Spots] /\ object \in BOOLEAN /\ ok \in Places /\ failed \in Places
  BY DEF Inv, TypeOK, Plain
<1>1. /\ (at' = at /\ wild' = "js") \/ (wild' = "no" /\ (Goto("js", ok) \/ Goto("js", failed)))
      /\ Passthrough /\ player \in Players =>
           player' \in Players /\ player'.listener = player.listener
           /\ (player'.state = "none" <=> player.state = "none")
  BY <1>0, CallFacts, JsIsAThread
<1>2. Moves("js")
  BY <1>0, <1>1, PlainMove, StaysPut, JsIsAThread
<1>3. Passthrough /\ ListenerIsNear => EngineStep("js")
  BY <1>1 DEF EngineStep, ListenerIsNear, Plain, Destroying
<1> QED
  BY <1>0, <1>1, <1>2, <1>3 DEF Step, ObjectStep, Plain

LEMMA PlainAsk ==
  ASSUME Inv, Calm, NEW yes \in Plain, NEW no \in Plain, Ask("js", yes, no),
         at["js"].pc \in Plain, UNCHANGED <<object, lock, timer>>
  PROVE  Step("js")
<1>1. /\ UNCHANGED player /\ wild' \in {"no", "js"}
      /\ at' = at \/ Goto("js", yes) \/ Goto("js", no)
  BY DEF Ask, serverVars, Calm
<1>2. Moves("js")
  <2>1. yes \in Places
    BY DEF Plain
  <2> QED
    BY <1>1, <2>1, PlainMove, StaysPut, JsIsAThread
<1> QED
  BY <1>1, <1>2, PlainStep

\* JavaScript begins to destroy the player.
LEMMA DestroyMove ==
  ASSUME Inv, NEW then \in {"new again", "new for source", "terminate"}, GotoThen("js", "destroy", then)
  PROVE  Moves("js")
<1>1. then \in Places /\ "destroy" \in Places /\ at \in [Threads -> Spots]
  BY DEF Places, Gone, Destroying, Inv, TypeOK
<1>2. /\ at' \in [Threads -> Spots] /\ \A u \in Threads \ {"js"} : at'[u] = at[u]
      /\ at'["js"].pc = "destroy" /\ at'["js"].then = then
  BY <1>1, GotoFacts, JsIsAThread
<1> QED
  BY <1>2, JsIsAThread DEF Moves, JsAims, Destroying

LEMMA BeginStep ==
  ASSUME Inv, Calm, Begin \/ Setters \/ SetAutoPlay
  PROVE  Step("js")
<1>p. {"idle", "play", "pause", "source"} \subseteq Plain /\ "idle" \in Places
  BY DEF Plain, Places, Gone, Destroying
<1>0. at["js"].pc \in Plain
  BY <1>p DEF Begin, BeginPlay, BeginPause, BeginStop, BeginTerminate, BeginSetSrc, Setters, SetAutoPlay, Idle
<1>1. CASE Begin
  <2>0. UNCHANGED <<player, object, lock, timer, wild>>
    BY <1>1 DEF Begin, serverVars
  <2>1. \/ \E place \in {"play", "pause", "source"} : GotoThen("js", place, "idle")
        \/ \E then \in {"new again", "new for source", "terminate"} : GotoThen("js", "destroy", then)
    BY <1>1 DEF Begin, BeginPlay, BeginPause, BeginStop, BeginTerminate, BeginSetSrc
  <2>2. Moves("js")
    BY <1>p, <2>1, PlainMove, DestroyMove
  <2> QED
    BY <1>0, <2>0, <2>2, PlainStep DEF Calm
<1>2. CASE Setters
  <2>1. UNCHANGED <<object, lock, timer>>
    BY <1>2 DEF Setters
  <2>2. PICK request \in {<<"SetLoop", TRUE>>, <<"SetLoop", FALSE>>, <<"SetVolume", 0>>, <<"Rewind", 0>>} :
          Call("js", request[1], request[2], "idle", "idle")
    BY <1>2 DEF Setters
  <2>3. request[1] \in Settings /\ (request[1] = "SetLoop" => request[2] \in BOOLEAN)
    <3>1. \E f \in Settings : \E arg : request = <<f, arg>> /\ (f = "SetLoop" => arg \in BOOLEAN)
      BY Zenon DEF Settings
    <3> QED
      BY <3>1
  <2>4. "idle" \in Plain
    BY <1>p
  <2> QED
    BY <1>0, <2>1, <2>2, <2>3, <2>4, PlainCall
<1>3. CASE SetAutoPlay
  <2>0. UNCHANGED <<player, object, lock, timer, wild>>
    BY <1>3 DEF SetAutoPlay, serverVars
  <2>1. at' = at \/ GotoThen("js", "play", "idle")
    BY <1>3 DEF SetAutoPlay
  <2>2. Moves("js")
    BY <1>p, <2>1, PlainMove, StaysPut, JsIsAThread
  <2> QED
    BY <1>0, <2>0, <2>2, PlainStep DEF Calm
<1> QED
  BY <1>1, <1>2, <1>3

LEMMA JsStep ==
  ASSUME Inv, Calm, Js
  PROVE  Step("js")
<1>p. {"idle", "play", "source", "keep", "prepare", "start", "signal", "played", "pause", "halt",
       "paused", "fork"} \subseteq Plain /\ "idle" \in Places
  BY DEF Plain, Places, Gone, Destroying
<1>0. at \in [Threads -> Spots] /\ object \in BOOLEAN
  BY DEF Inv, TypeOK
<1>1. CASE Recreate("js")
  BY <1>1, RecreateStep, JsIsAThread DEF Step
<1>2. CASE JsAgain
  <2>0. UNCHANGED <<player, object, lock, timer, wild>>
    BY <1>2 DEF Js, JsAgain, serverVars, Recreate
  <2>1. PICK then \in {"idle", "source"} : GotoThen("js", "new", then)
    BY <1>2 DEF JsAgain
  <2>2. then \in Places /\ "new" \in Places
    BY DEF Places, Gone
  <2>3. /\ at' \in [Threads -> Spots] /\ \A u \in Threads \ {"js"} : at'[u] = at[u]
        /\ at'["js"].pc = "new" /\ at'["js"].then = then
    BY <1>0, <2>1, <2>2, GotoFacts, JsIsAThread
  <2>4. Moves("js")
    BY <2>3, JsIsAThread DEF Moves, JsAims, Destroying
  <2> QED
    BY <1>0, <2>0, <2>3, <2>4 DEF Step, ObjectStep, EngineStep, ListenerIsNear, Gone, Calm
<1>u. ASSUME ~Recreate("js") PROVE UNCHANGED lock
  BY <1>u DEF Js
<1>3. ASSUME ~Recreate("js"), JsSource \/ JsPrepare PROVE Step("js")
  <2>1. PICK f \in {"SetSource", "Prepare"}, ok \in {"keep", "play", "idle"} : Call("js", f, 0, ok, "idle")
    BY <1>3 DEF JsSource, JsPrepare
  <2>2. f \in Settings /\ f # "SetLoop" /\ ok \in Plain /\ "idle" \in Plain
    BY <1>p DEF Settings
  <2>3. at["js"].pc \in Plain /\ UNCHANGED <<object, lock, timer>>
    BY <1>p, <1>u, <1>3 DEF JsSource, JsPrepare, jsVars
  <2> QED
    BY <2>1, <2>2, <2>3, PlainCall
<1>4. ASSUME ~Recreate("js"), JsPlay \/ JsPause PROVE Step("js")
  <2>1. at["js"].pc \in Plain /\ UNCHANGED <<object, lock, timer>>
    BY <1>p, <1>u, <1>4 DEF JsPlay, JsPause
  <2>2. \/ \E yes \in {"idle", "halt"}, no \in {"start", "idle"} : Ask("js", yes, no)
        \/ \E f \in {"Play", "Pause"}, ok \in {"signal", "paused"} : Call("js", f, 0, ok, "idle")
    BY <1>4 DEF JsPlay, JsPause
  <2>3. ASSUME NEW yes \in {"idle", "halt"}, NEW no \in {"start", "idle"}, Ask("js", yes, no)
        PROVE  Step("js")
    <3>1. yes \in Plain /\ no \in Plain
      BY <1>p
    <3> QED
      BY <2>1, <2>3, <3>1, PlainAsk
  <2>4. ASSUME NEW f \in {"Play", "Pause"}, NEW ok \in {"signal", "paused"}, Call("js", f, 0, ok, "idle")
        PROVE  Step("js")
    <3>1. f \in Settings /\ f # "SetLoop" /\ ok \in Plain /\ "idle" \in Plain
      BY <1>p DEF Settings
    <3> QED
      BY <2>1, <2>4, <3>1, PlainCall
  <2> QED
    BY <2>2, <2>3, <2>4
<1>5. ASSUME ~Recreate("js"), JsKeep \/ JsSignal \/ JsStatus \/ JsFork PROVE Step("js")
  <2>1. /\ at["js"].pc \in Plain /\ UNCHANGED <<player, object, lock, wild>>
        /\ timer' = timer \/ timer' \notin {"test", "ask", "unlock"}
    BY <1>p, <1>u, <1>5 DEF JsKeep, JsSignal, JsStatus, JsFork, serverVars
  <2>2. PICK place \in {"prepare", "played", "idle"} : Goto("js", place) \/ GotoThen("js", place, "idle")
    BY <1>5 DEF JsKeep, JsSignal, JsStatus, JsFork
  <2>3. Moves("js")
    BY <1>p, <2>2, PlainMove
  <2> QED
    BY <2>1, <2>3, PlainStep DEF Calm
<1>6. ASSUME ~Recreate("js"), JsTerminate PROVE Step("js")
  <2>1. Goto("js", "off") /\ UNCHANGED <<player, object, lock, timer, wild>>
    BY <1>u, <1>6 DEF JsTerminate, serverVars
  <2>2. "off" \in Places
    BY DEF Places, Gone
  <2>3. /\ at' \in [Threads -> Spots] /\ \A u \in Threads \ {"js"} : at'[u] = at[u] /\ at'["js"].pc = "off"
    BY <1>0, <2>1, <2>2, GotoFacts, JsIsAThread
  <2>4. at'["js"].pc = "off"
    BY <1>0, <2>1, <2>2, GotoFacts, JsIsAThread
  <2>5. Moves("js")
    BY <2>3, <2>4, JsIsAThread DEF Moves, JsAims, Destroying
  <2>6. ObjectStep("js")
    BY <1>0, <2>1, <2>4 DEF ObjectStep, Gone
  <2>7. ListenerIsNear => EngineStep("js")
    BY <2>1, <2>4 DEF EngineStep, ListenerIsNear, Gone
  <2> QED
    BY <2>1, <2>5, <2>6, <2>7 DEF Step, Calm
<1> QED
  BY <1>1, <1>2, <1>3, <1>4, <1>5, <1>6 DEF Js

-----------------------------------------------------------------------------
(* The threads that end a playback, and the UpdateTime thread *)

\* The thread e goes from one place outside the destruction to another.
LEMMA EnderMove ==
  ASSUME Inv, NEW e \in Enders, NEW place \in {"idle", "lock"}, NEW then \in {"idle", "new"},
         GotoThen(e, place, then)
  PROVE  Moves(e) /\ at'[e].pc = place
<1>1. place \in Places /\ then \in Places /\ at \in [Threads -> Spots] /\ e \in Threads /\ e # "js"
  BY JsIsAThread DEF Places, Gone, Inv, TypeOK, Threads
<1>2. /\ at' \in [Threads -> Spots] /\ \A u \in Threads \ {e} : at'[u] = at[u]
      /\ at'[e].pc = place /\ at'[e].then = then
  BY <1>1, GotoFacts
<1> QED
  BY <1>1, <1>2 DEF Moves, EnderAims, Destroying

LEMMA EndsStep ==
  ASSUME Inv, Calm, Ends
  PROVE  \E t \in Threads : Step(t)
<1>1. player.state = "started" /\ player' = To(player, "complete") /\ UNCHANGED <<object, lock, timer, wild>>
  BY DEF Ends, CanComplete, Completed
<1>2. player \in Players => Alike(player, player')
  BY <1>1, ToState DEF States
<1>3. ASSUME NEW t \in Threads, Moves(t), at[t].pc \in Gone => at'[t].pc \in Gone,
             at[t].pc \in {"delete", "listen"} => at'[t].pc = at[t].pc
      PROVE  Step(t)
  <2>1. ObjectStep(t)
    BY <1>1, <1>3 DEF ObjectStep, Inv, TypeOK
  <2>2. ListenerIsNear => EngineStep(t)
    BY <1>2, <1>3 DEF EngineStep, ListenerIsNear, Alike
  <2> QED
    BY <1>1, <1>3, <2>1, <2>2 DEF Step, Calm
<1>4. CASE at' = at
  BY <1>3, <1>4, StaysPut, JsIsAThread
<1>5. ASSUME NEW e \in Enders, Fork(e) PROVE Step(e)
  <2>1. Moves(e) /\ at[e].pc = "idle" /\ e \in Threads
    BY <1>5, EnderMove DEF Fork, Threads
  <2> QED
    BY <1>3, <2>1 DEF Gone
<1> QED
  BY <1>4, <1>5, JsIsAThread DEF Ends, Threads

LEMMA EnderStep ==
  ASSUME Inv, Calm, NEW e \in Enders, Ender(e)
  PROVE  Inv' /\ wild' # "timer" /\ (Passthrough /\ ListenerIsNear => ListenerIsNear')
<1>0. /\ at \in [Threads -> Spots] /\ object \in BOOLEAN /\ e \in Threads /\ e # "js"
  BY JsIsAThread DEF Inv, TypeOK, Threads
<1>s. ASSUME Step(e) PROVE Inv' /\ wild' # "timer" /\ (Passthrough /\ ListenerIsNear => ListenerIsNear')
  BY <1>0, <1>s, StepOfThread, JsIsAThread DEF Step
<1>1. CASE EnderListens(e)
  <2>1. /\ at[e].pc = "listen" /\ at[e].then = "new" /\ at' = [at EXCEPT ![e].then = "unlock"]
        /\ UNCHANGED <<player, object, lock, timer, wild>>
    BY <1>1 DEF EnderListens, serverVars
  <2>2. "unlock" \in Places
    BY DEF Places
  <2>3. /\ at' \in [Threads -> Spots] /\ \A u \in Threads \ {e} : at'[u] = at[u]
        /\ at'[e].pc = "listen" /\ at'[e].then = "unlock"
    BY <1>0, <2>1, <2>2 DEF Spots
  <2>4. Moves(e)
    BY <1>0, <2>1, <2>3 DEF Moves, EnderAims, Destroying, Inv, Locked
  <2>5. Step(e)
    BY <1>0, <2>1, <2>3, <2>4 DEF Step, ObjectStep, EngineStep, ListenerIsNear, Calm
  <2> QED
    BY <1>s, <2>5
<1>2. CASE EnderUnlock(e)
  <2>1. /\ at[e].pc = "unlock" /\ lock' = (IF lock = e THEN "free" ELSE lock) /\ GotoThen(e, "idle", "idle")
        /\ UNCHANGED <<player, object, timer, wild>>
    BY <1>2 DEF EnderUnlock, serverVars
  <2>2. lock = e /\ lock' = "free" /\ e # "timer"
    BY <2>1, JsIsAThread DEF Inv, Locked
  <2>3. Moves(e) /\ at'[e].pc = "idle"
    BY <2>1, EnderMove
  <2>4. /\ at' \in [Threads -> Spots] /\ \A u \in Threads \ {e} : at'[u] = at[u] /\ EnderAims(at'[e])
    BY <2>3 DEF Moves
  <2>5. TypeOK' /\ Recreated'
    BY <1>0, <2>1, <2>3, JsIsAThread DEF Inv, TypeOK, Recreated, Moves, Threads
  <2>6. Locked'
    BY <2>1, <2>2, <2>3 DEF Inv, Locked, Moves, Threads
  <2>7. PlayerIsNear'
    <3>1. \A u \in Threads : at[u].pc \in Gone => at'[u].pc \in Gone
      BY <2>1, <2>3 DEF Moves, Gone
    <3> QED
      BY <2>1, <3>1, JsIsAThread DEF Inv, PlayerIsNear
  <2>8. ListenerIsNear => ListenerIsNear'
    <3>1. \A u \in Threads : at[u].pc \in Gone \cup {"delete", "listen"} => at'[u].pc = at[u].pc
      BY <2>1, <2>3 DEF Moves, Gone
    <3> QED
      BY <2>1, <3>1 DEF ListenerIsNear
  <2> QED
    BY <2>1, <2>5, <2>6, <2>7, <2>8 DEF Inv, Calm
<1>3. CASE at[e] # [pc |-> "listen", then |-> "new"] /\ Recreate(e)
  BY <1>0, <1>3, <1>s, RecreateStep DEF Step
<1> QED
  BY <1>1, <1>2, <1>3 DEF Ender

\* With lock_ in hand the thread is alone with the player, but for JavaScript.
LEMMA EnderLockStep ==
  ASSUME Inv, Calm, NEW e \in Enders, EnderLock(e)
  PROVE  Inv' /\ wild' # "timer" /\ (Passthrough /\ ListenerIsNear => ListenerIsNear')
<1>0. /\ at \in [Threads -> Spots] /\ object \in BOOLEAN /\ e \in Threads /\ e # "js"
      /\ "destroy" \in Places /\ "new" \in Places
  BY JsIsAThread DEF Inv, TypeOK, Threads, Places, Destroying, Gone
<1>1. /\ at[e].pc = "lock" /\ lock = "free" /\ lock' = e /\ GotoThen(e, "destroy", "new")
      /\ UNCHANGED <<player, object, timer, wild>>
  BY DEF EnderLock, serverVars
<1>2. /\ at' \in [Threads -> Spots] /\ \A u \in Threads \ {e} : at'[u] = at[u]
      /\ at'[e].pc = "destroy" /\ at'[e].then = "new"
  BY <1>0, <1>1, GotoFacts
<1>3. TypeOK' /\ Recreated'
  BY <1>0, <1>1, <1>2, JsIsAThread DEF Inv, TypeOK, Recreated, EnderAims, Threads
<1>4. "free" \notin Enders
  BY AudioConstants
<1>5. timer \notin {"test", "ask", "unlock"} /\ \A u \in Enders : at[u].pc \in {"idle", "lock"}
  BY <1>1, <1>4 DEF Inv, Locked
<1>6. Locked'
  BY <1>1, <1>2, <1>5 DEF Locked, Threads
<1>7. PlayerIsNear'
  <2>1. \A u \in Threads : at[u].pc \in Gone => at'[u].pc \in Gone
    BY <1>1, <1>2 DEF Gone
  <2> QED
    BY <1>1, <1>5, <2>1 DEF Inv, PlayerIsNear
<1>8. ListenerIsNear => ListenerIsNear'
  <2>1. \A u \in Threads : at[u].pc \in Gone \cup {"delete", "listen"} => at'[u].pc = at[u].pc
    BY <1>1, <1>2 DEF Gone
  <2> QED
    BY <1>1, <2>1 DEF ListenerIsNear
<1> QED
  BY <1>1, <1>3, <1>6, <1>7, <1>8 DEF Inv, Calm

\* The UpdateTime thread asks the player it saw, unless JavaScript deleted it.
LEMMA TimerStep ==
  ASSUME Inv, Calm, Timer
  PROVE  /\ Inv' /\ (wild' = "timer" => at'["js"].pc \in Gone)
         /\ ListenerIsNear => ListenerIsNear'
<1>1. UNCHANGED <<player, object, at>>
  BY DEF Timer, serverVars
<1>2. TypeOK' /\ Recreated' /\ (ListenerIsNear => ListenerIsNear')
  BY <1>1 DEF Inv, TypeOK, Recreated, ListenerIsNear
<1>n. "free" \notin Enders /\ "timer" \notin Enders
  BY AudioConstants
<1>3. Locked'
  BY <1>1, <1>n DEF Inv, Locked, Timer, TimerCheck, TimerLock, TimerTest, TimerAsk, TimerTimeout, TimerUnlock
<1>4. PlayerIsNear'
  <2>1. timer' = "ask" => timer = "ask" \/ object
    BY DEF Timer, TimerCheck, TimerLock, TimerTest, TimerAsk, TimerTimeout, TimerUnlock
  <2> QED
    BY <1>1, <2>1 DEF Inv, PlayerIsNear
<1>5. wild' = "timer" => at'["js"].pc \in Gone
  <2>1. wild' = "timer" => timer = "ask" /\ ~object
    BY DEF Calm, Timer, TimerCheck, TimerLock, TimerTest, TimerAsk, TimerTimeout, TimerUnlock
  <2> QED
    BY <1>1, <2>1 DEF Inv, PlayerIsNear
<1> QED
  BY <1>2, <1>3, <1>4, <1>5 DEF Inv

-----------------------------------------------------------------------------
(* The theorems *)

LEMMA InvInit == Init => Inv /\ ListenerIsNear
<1> SUFFICES ASSUME Init PROVE Inv /\ ListenerIsNear
  OBVIOUS
<1>1. {"new", "fork", "idle"} \subseteq Places
  BY DEF Places, Gone
<1>2. /\ at \in [Threads -> Spots] /\ at["js"].pc = "new" /\ at["js"].then = "fork"
      /\ \A e \in Enders : at[e].pc = "idle" /\ at[e].then = "idle"
  BY <1>1, JsIsAThread DEF Init, Threads, Spots
<1>3. TypeOK /\ Recreated /\ Locked
  BY <1>2 DEF Init, TypeOK, Recreated, Locked, JsAims, EnderAims, Destroying
<1>4. PlayerIsNear
  BY <1>2, JsIsAThread DEF Init, PlayerIsNear, Gone
<1>5. ListenerIsNear
  BY <1>2, JsIsAThread, FreshType DEF Init, ListenerIsNear, Gone
<1> QED
  BY <1>3, <1>4, <1>5 DEF Inv

JsIsToBlame == wild = "timer" => at["js"].pc \in Gone

LEMMA InvStep ==
  ASSUME Inv, [Next]_vars
  PROVE  Inv' /\ (JsIsToBlame => JsIsToBlame') /\ (Passthrough /\ ListenerIsNear => ListenerIsNear')
<1>1. CASE UNCHANGED vars
  BY <1>1 DEF vars, serverVars, Inv, TypeOK, Recreated, Locked, PlayerIsNear, JsIsToBlame, ListenerIsNear
<1>2. CASE Next
  <2>0. Calm
    BY <1>2 DEF Next
  <2>1. ASSUME NEW t \in Threads, Step(t)
        PROVE  Inv' /\ JsIsToBlame' /\ (Passthrough /\ ListenerIsNear => ListenerIsNear')
    <3>1. wild' # "timer"
      BY <2>1, JsIsAThread DEF Step, Threads
    <3> QED
      BY <2>1, <3>1, StepOfThread DEF Step, JsIsToBlame
  <2>2. CASE Begin \/ Setters \/ SetAutoPlay
    BY <2>0, <2>1, <2>2, BeginStep, JsIsAThread
  <2>3. CASE Js
    BY <2>0, <2>1, <2>3, JsStep, JsIsAThread
  <2>4. CASE Ends
    BY <2>0, <2>1, <2>4, EndsStep
  <2>5. ASSUME NEW e \in Enders, EnderLock(e) \/ Ender(e)
        PROVE  Inv' /\ JsIsToBlame' /\ (Passthrough /\ ListenerIsNear => ListenerIsNear')
    BY <2>0, <2>5, EnderLockStep, EnderStep DEF JsIsToBlame
  <2>6. CASE Timer
    BY <2>0, <2>6, TimerStep DEF JsIsToBlame
  <2> QED
    BY <1>2, <2>2, <2>3, <2>4, <2>5, <2>6 DEF Next
<1> QED
  BY <1>1, <1>2

\* In both builds lock_ keeps the threads that end a playback from the player
\* the UpdateTime thread looks at; only JavaScript deletes it there.
THEOREM TimerIsKeptSafe == Spec => []TimerIsSafe
<1>1. Init => Inv /\ JsIsToBlame
  BY InvInit DEF Init, JsIsToBlame
<1>2. Inv /\ JsIsToBlame /\ [Next]_vars => Inv' /\ JsIsToBlame'
  BY InvStep
<1>3. JsIsToBlame => TimerIsSafe
  BY DEF JsIsToBlame, TimerIsSafe, Gone
<1> QED
  BY <1>1, <1>2, <1>3, PTL DEF Spec

\* With a player of its own the module has one with a listener whenever it has
\* come to rest.
THEOREM PlayerIsReadyAgain ==
  ASSUME Passthrough
  PROVE  Spec => []ReadyAgain
<1>1. Init => Inv /\ ListenerIsNear
  BY InvInit
<1>2. Inv /\ ListenerIsNear /\ [Next]_vars => Inv' /\ ListenerIsNear'
  BY InvStep
<1>3. Inv /\ ListenerIsNear => ReadyAgain
  <2> SUFFICES ASSUME Inv, ListenerIsNear, Idle, \A e \in Enders : at[e].pc = "idle"
               PROVE  object /\ player.listener = "js"
    BY DEF ReadyAgain
  <2>1. \A t \in Threads : at[t].pc = "idle"
    BY DEF Idle, Threads
  <2> QED
    BY <2>1 DEF Inv, PlayerIsNear, ListenerIsNear, Gone
<1> QED
  BY <1>1, <1>2, <1>3, PTL DEF Spec

=============================================================================
