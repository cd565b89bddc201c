---------------------------- MODULE MediaPipeline ----------------------------
(***************************************************************************)
(* The way of the packets of a file to the screen and the loudspeaker, at  *)
(* normal speed: DataSchProcess of liteplayer.cpp reads a packet, pushes it*)
(* into the decoder of its track and lets both sinks render, one round     *)
(* after the other; the sinks (player_audio_sink.cpp, player_video_sink.   *)
(* cpp, player_sink_manager.cpp) keep the decoded frames until PlayerSync  *)
(* lets them go and then give their buffers back to the decoder.           *)
(*                                                                         *)
(* The decoders and the demuxer are plug-ins.  A decoder takes up to       *)
(* InputRoom packets, has OutputRoom output buffers, of which the sinks    *)
(* hold some, and answers CODEC_RECEIVE_EOS once the end was queued and    *)
(* every frame was taken; it works on a thread of its own.                 *)
(*                                                                         *)
(* A round holds schMutex_, and Pause, Seek and Stop come between rounds.  *)
(* Trick play is not modelled here.                                        *)
(***************************************************************************)
EXTENDS PlayerSync, FiniteSets, Sequences, SequencesExt

CONSTANTS
  Files,       \* the files: sequences of packets [kind, ts] in the order they are read
  InputRoom,   \* how many packets a decoder holds
  OutputRoom,  \* how many output buffers a decoder has
  EosFits,     \* a decoder takes the end of the stream even when it is full
  RenderModes, \* "normal", "pauseAfterPlay": what SetRenderMode was given
  MaxControls  \* bound: pauses and seeks

Kinds == {"audio", "video"}

ASSUME PipelineConstants ==
  /\ Files \subseteq Seq([kind : Kinds, ts : Nat])
  /\ InputRoom \in Nat \ {0} /\ OutputRoom \in Nat \ {0} /\ MaxControls \in Nat
  /\ EosFits \in BOOLEAN /\ RenderModes \subseteq {"normal", "pauseAfterPlay"}

VARIABLES
  file, pos,    \* the demuxer: the file, and the index of the next packet
  cached,       \* formatPacket_ while cachedPacket_, else <<>>
  strmReadEnd,  \* strmReadEnd_
  input,        \* per decoder: the packets queued; 0 - 1 stands for the end
  output,       \* per decoder: the decoded frames not yet taken
  decoded,      \* per decoder: it has met the end
  cache,        \* per sink: frameCacheQue_
  receivedEos,  \* per sink: receivedEos_
  hasRenderEos, \* hasRenderAudioEos_, hasRenderVideoEos_
  renderMode,   \* renderMode_ of the sinks
  pictures,     \* renderFrameCnt_ of the video sink: none, or some
  playEnd,      \* isPlayEnd_
  state,        \* "prepared", "playing", "paused" (paused_) or "stopped"
  at,           \* where the thread is in its round
  controls,     \* pauses and seeks so far (bound)
  start,        \* the packet the playing started at (history)
  handled,      \* per track: the frames played or dropped since then (history)
  completions   \* how often DealPlayEnd ran since then (history)

demuxVars == <<file, pos, cached, strmReadEnd>>
codecVars == <<input, output, decoded>>
sinkVars  == <<cache, receivedEos, renderMode, pictures>>
endVars   == <<hasRenderEos, playEnd>>
history   == <<start, handled, completions>>
vars == <<demuxVars, codecVars, sinkVars, endVars, syncVars, state, at, controls, history>>

Eos == Invalid
Nowhere == [k \in Kinds |-> <<>>]
Never == [k \in Kinds |-> FALSE]

\* How many packets of a track there are from the i-th packet on, before the j-th.
Between(kind, i, j) == Cardinality({x \in i .. j - 1 : file[x].kind = kind})

\* The time stamps of a track from the i-th packet on, and the tracks there are.
Track(kind, i) ==
  [m \in 1 .. Between(kind, i, Len(file) + 1) |->
     file[CHOOSE x \in i .. Len(file) :
            file[x].kind = kind /\ Between(kind, i, x) = m - 1].ts]
Has(kind) == Track(kind, 1) # <<>>
Main == IF Has("video") THEN "video" ELSE "audio"

Init ==
  /\ file \in Files /\ pos = 1 /\ cached = <<>> /\ strmReadEnd = FALSE
  /\ input = Nowhere /\ output = Nowhere /\ decoded = Never
  /\ cache = Nowhere /\ receivedEos = Never /\ hasRenderEos = Never
  /\ renderMode = "normal" /\ pictures = FALSE /\ playEnd = FALSE
  /\ SyncInit
  /\ state = "prepared" /\ at = "read" /\ controls = 0
  /\ start = 1 /\ handled = Nowhere /\ completions = 0

Running(place) == state = "playing" /\ at = place

-----------------------------------------------------------------------------
(* The decoders, external *)

Decode(kind) ==
  /\ input[kind] # <<>>
  /\ \/ /\ Head(input[kind]) = Eos
        /\ decoded' = [decoded EXCEPT ![kind] = TRUE]
        /\ UNCHANGED output
     \/ /\ Head(input[kind]) # Eos
        /\ Len(output[kind]) + Len(cache[kind]) < OutputRoom
        /\ output' = [output EXCEPT ![kind] = Append(@, Head(input[kind]))]
        /\ UNCHANGED decoded
  /\ input' = [input EXCEPT ![kind] = Tail(@)]
  /\ UNCHANGED <<demuxVars, sinkVars, endVars, syncVars, state, at, controls, history>>

-----------------------------------------------------------------------------
(* ReadPacketAndPushToDecoder *)

Full(kind) == Len(input[kind]) >= InputRoom

\* The packet at hand: the cached one, or the next one of the demuxer.
Packet == IF cached # <<>> THEN cached ELSE <<file[pos]>>

\* PushPacketToADecoder, PushPacketToVDecoder: a full decoder leaves the packet
\* cached, for the next round.
PushPacket(p) ==
  IF Full(p.kind) THEN cached' = <<p>> /\ UNCHANGED input
  ELSE cached' = <<>> /\ input' = [input EXCEPT ![p.kind] = Append(@, p.ts)]

ReadAndPush ==
  /\ ~strmReadEnd /\ (cached # <<>> \/ pos =< Len(file))
  /\ pos' = IF cached # <<>> THEN pos ELSE pos + 1
  /\ PushPacket(Packet[1])
  /\ UNCHANGED strmReadEnd

\* The end of the file goes to both decoders, once.
PushEos ==
  /\ ~strmReadEnd /\ cached = <<>> /\ pos > Len(file)
  /\ input' = [k \in Kinds |-> IF Has(k) /\ (EosFits \/ ~Full(k))
                               THEN Append(input[k], Eos) ELSE input[k]]
  /\ strmReadEnd' = TRUE
  /\ UNCHANGED <<pos, cached>>

\* Nothing more to read, or nothing yet: HI_RET_NODATA of a stream, a failed
\* read, or the round that isNeedPause_ leaves out.
ReadNothing ==
  /\ strmReadEnd \/ cached = <<>>
  /\ UNCHANGED <<pos, cached, strmReadEnd, input>>

ReadPacketAndPushToDecoder ==
  /\ Running("read") /\ at' = "audio"
  /\ ReadAndPush \/ PushEos \/ ReadNothing
  /\ UNCHANGED <<file, output, decoded, sinkVars, endVars, syncVars, state, controls, history>>

-----------------------------------------------------------------------------
(* RenderAudioFrame and RenderVideoFrame *)

\* The frame DequeueOutputBuffer gives, if any, and what the sink then holds.
Dequeued(kind) == IF output[kind] = <<>> THEN <<>> ELSE <<Head(output[kind])>>
Offered(kind)  == cache[kind] \o Dequeued(kind)

\* RenderEos: the decoder has nothing and says that nothing will come; for the
\* audio the demuxer must be at its end too.
EosReceived(kind) ==
  \/ receivedEos[kind]
  \/ output[kind] = <<>> /\ decoded[kind] /\ (kind = "audio" => strmReadEnd)

\* The sink keeps its frames: SINK_RENDER_DELAY, SINK_RENDER_FULL, or held.
Keep(kind) ==
  /\ cache' = [cache EXCEPT ![kind] = Offered(kind)]
  /\ UNCHANGED handled

\* ReleaseQueHeadFrame and ReleaseXDecoderOutputFrame: the oldest frame was
\* played or dropped and its buffer is the decoder's again.
Release(kind) ==
  /\ cache' = [cache EXCEPT ![kind] = Tail(Offered(kind))]
  /\ handled' = [handled EXCEPT ![kind] = Append(@, Head(Offered(kind)))]

\* IsPlayEos
PlayEosWith(eos) == \A k \in Kinds : Has(k) => eos[k]

MutRenderEosAlone(kind) ==
  LET eos == [hasRenderEos EXCEPT ![kind] = TRUE] IN
  /\ hasRenderEos' = eos
  /\ playEnd' = TRUE

\* SINK_RENDER_EOS: the end was received and no frame is left.
RenderEos(kind) ==
  LET eos == [hasRenderEos EXCEPT ![kind] = TRUE] IN
  /\ hasRenderEos' = eos
  /\ playEnd' = (playEnd \/ PlayEosWith(eos))

Skip(kind) ==
  /\ ~Has(kind) \/ hasRenderEos[kind]
  /\ UNCHANGED <<codecVars, sinkVars, endVars, syncVars, handled>>

Take(kind) ==
  /\ Has(kind) /\ ~hasRenderEos[kind]
  /\ output' = [output EXCEPT ![kind] = IF @ = <<>> THEN <<>> ELSE Tail(@)]
  /\ receivedEos' = [receivedEos EXCEPT ![kind] = EosReceived(kind)]
  /\ UNCHANGED <<input, decoded, renderMode>>

\* No frame to render: the end, if it was received, or SINK_QUE_EMPTY.
NoFrame(kind) ==
  /\ Offered(kind) = <<>>
  /\ Keep(kind) /\ UNCHANGED <<syncVars, pictures>>
  /\ IF EosReceived(kind) THEN RenderEos(kind) ELSE UNCHANGED endVars

AudioHeld == renderMode = "pauseAfterPlay"
VideoHeld == renderMode = "pauseAfterPlay" /\ pictures

\* A held sink queues the frame and asks nobody; in the end it asks nothing
\* of the end of the stream either.
Held(kind) == Keep(kind) /\ UNCHANGED <<syncVars, endVars, pictures>>

\* The audio device may be full, although the sync has let the frame go.
AudioFrame(clock) ==
  LET ts == Head(Offered("audio")) IN
  /\ Offered("audio") # <<>>
  /\ ProcAudFrame(ts, clock)
  /\ \/ AudResult(ts, clock) = "play" /\ Release("audio")
     \/ Keep("audio")
  /\ UNCHANGED <<endVars, pictures>>

VideoFrame(clock) ==
  LET ts == Head(Offered("video"))
      result == VidResult(clock)
  IN  /\ Offered("video") # <<>>
      /\ ProcVidFrame(ts, clock)
      /\ IF result = "repeat" THEN Keep("video") ELSE Release("video")
      /\ pictures' = (pictures \/ result = "play")
      /\ UNCHANGED endVars

RenderAudioFrame(clock) ==
  /\ Running("audio") /\ at' = "video"
  /\ \/ Skip("audio")
     \/ Take("audio") /\ IF AudioHeld THEN Held("audio")
                         ELSE NoFrame("audio") \/ AudioFrame(clock)
  /\ UNCHANGED <<demuxVars, state, controls, start, completions>>

RenderVideoFrame(clock) ==
  /\ Running("video") /\ at' = "end"
  /\ \/ Skip("video")
     \/ Take("video") /\ IF VideoHeld THEN Held("video")
                         ELSE NoFrame("video") \/ VideoFrame(clock)
  /\ UNCHANGED <<demuxVars, state, controls, start, completions>>

\* The rest of the round: DealPlayEnd when both tracks are over.
EndOfRound ==
  /\ Running("end") /\ at' = "read"
  /\ completions' = IF playEnd THEN completions + 1 ELSE completions
  /\ playEnd' = FALSE
  /\ UNCHANGED <<demuxVars, codecVars, sinkVars, hasRenderEos, syncVars, state, controls,
                 start, handled>>

-----------------------------------------------------------------------------
(* Play, Pause, Seek and Stop *)

\* The first Play: SinkStart and the thread.
Play ==
  /\ state = "prepared" /\ state' = "playing"
  /\ renderMode' \in RenderModes
  /\ SyncStart(Has("video"), Has("audio"))
  /\ UNCHANGED <<demuxVars, codecVars, cache, receivedEos, pictures, endVars, at, controls,
                 history>>

\* SinkManager::Pause: with sound the video keeps its clock.
Pause ==
  /\ Running("read") /\ controls < MaxControls
  /\ controls' = controls + 1 /\ state' = "paused"
  /\ SyncReset(~Has("audio") \/ receivedEos["audio"], Has("audio"))
  /\ UNCHANGED <<demuxVars, codecVars, sinkVars, endVars, at, history>>

\* PauseResume and SinkManager::Resume
Resume ==
  /\ state = "paused" /\ state' = "playing" /\ renderMode' = "normal"
  /\ UNCHANGED <<demuxVars, codecVars, cache, receivedEos, pictures, endVars, syncVars,
                 at, controls, history>>

MutSeekKeepsCached ==
  /\ cache' = Nowhere /\ receivedEos' = Never
  /\ renderMode' = IF state = "playing" THEN "normal" ELSE renderMode
  /\ input' = Nowhere /\ output' = Nowhere /\ decoded' = Never
  /\ SyncReset(TRUE, TRUE)
  /\ UNCHANGED <<pictures, cached>>

\* DecoderAndSinkReset and ClearCachePacket: the sinks give their frames back,
\* the decoders are flushed; sinks that run are paused and resumed on the way.
Flush ==
  /\ cache' = Nowhere /\ receivedEos' = Never
  /\ renderMode' = IF state = "playing" THEN "normal" ELSE renderMode
  /\ input' = Nowhere /\ output' = Nowhere /\ decoded' = Never
  /\ SyncReset(TRUE, TRUE)
  /\ cached' = <<>>
  /\ UNCHANGED pictures

MutSeekKeepsReadEnd ==
  /\ state \in {"playing", "paused"} /\ at = "read" /\ controls < MaxControls
  /\ controls' = controls + 1
  /\ Flush
  /\ pos' \in {i \in 1 .. Len(file) : file[i].kind = Main} \cup {pos}
  /\ hasRenderEos' = Never /\ playEnd' = FALSE
  /\ start' = pos' /\ handled' = Nowhere /\ completions' = 0
  /\ UNCHANGED <<file, strmReadEnd, state, at>>

\* DoSeekIfNeed and AyncSeek, at the top of a round, paused or not: to a packet
\* of the main track, or, when the demuxer fails, to nowhere.
Seek ==
  /\ state \in {"playing", "paused"} /\ at = "read" /\ controls < MaxControls
  /\ controls' = controls + 1
  /\ Flush
  /\ pos' \in {i \in 1 .. Len(file) : file[i].kind = Main} \cup {pos}
  /\ strmReadEnd' = FALSE /\ hasRenderEos' = Never /\ playEnd' = FALSE
  /\ start' = pos' /\ handled' = Nowhere /\ completions' = 0
  /\ UNCHANGED <<file, state, at>>

\* DoStop joins the thread and drops everything.
Stop ==
  /\ state \in {"playing", "paused"} /\ at = "read" /\ state' = "stopped"
  /\ cache' = Nowhere /\ input' = Nowhere /\ output' = Nowhere /\ decoded' = Never
  /\ pictures' = FALSE /\ cached' = <<>> /\ strmReadEnd' = FALSE
  /\ hasRenderEos' = Never /\ playEnd' = FALSE
  /\ SyncStop
  /\ UNCHANGED <<file, pos, receivedEos, renderMode, at, controls, history>>

-----------------------------------------------------------------------------
Next ==
  \/ \E k \in Kinds : Decode(k)
  \/ ReadPacketAndPushToDecoder
  \/ \E c \in Clocks : RenderAudioFrame(c) \/ RenderVideoFrame(c)
  \/ EndOfRound
  \/ Play \/ Pause \/ Resume \/ Seek \/ Stop

Spec == Init /\ [][Next]_vars

\* The thread and the decoders run; a stream has data again and again, a frame
\* that waits becomes due, and a full audio device empties.
FairSpec ==
  /\ Spec
  /\ \A k \in Kinds : WF_vars(Decode(k))
  /\ WF_vars(ReadPacketAndPushToDecoder) /\ WF_vars(EndOfRound)
  /\ SF_vars(ReadPacketAndPushToDecoder /\ (ReadAndPush \/ PushEos))
  /\ \A c \in Clocks : WF_vars(RenderAudioFrame(c)) /\ WF_vars(RenderVideoFrame(c))
  /\ SF_vars(RenderVideoFrame("due"))
  /\ SF_vars(RenderAudioFrame("due") /\ cache'["audio"] # Offered("audio"))

-----------------------------------------------------------------------------
(* Properties *)

\* Between two seeks the frames of each track are played or dropped one after
\* the other, from the packet that was sought on: none is left out, repeated
\* or overtaken, in the cached packet, the decoder's queues or the sink's, and
\* none of before the seek appears after it.
FramesInOrder == \A k \in Kinds : IsPrefix(handled[k], Track(k, start))

\* The playback is reported complete once, and only when every frame of both
\* tracks was played or dropped.
CompleteIsComplete ==
  /\ completions =< 1
  /\ completions = 1 => \A k \in Kinds : handled[k] = Track(k, start)

\* A player that plays comes to the end of the file, unless it is paused,
\* stopped, sent elsewhere or told to pause after its first picture.
PlaybackCompletes ==
  (state = "playing") ~> (completions = 1 \/ state # "playing" \/ renderMode # "normal")
=============================================================================
