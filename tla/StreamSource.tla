---------------------------- MODULE StreamSource ----------------------------
(***************************************************************************)
(* The way of a media stream from the application to the demuxer, in the   *)
(* player's service (player_server.cpp, player_impl.cpp, buffer_source.cpp)*)
(*                                                                         *)
(* The application writes chunks into a surface.  QUEUE_SIZE buffers go    *)
(* round: IdleBufferProcess takes an idle one and announces it to the      *)
(* ServerStreamSource; streamProcess takes an announced one, copies the    *)
(* next chunk of the surface into it and queues it as filled; ReadData,    *)
(* called by the demuxer, takes filled ones, reads them in pieces and      *)
(* makes them idle again.  A chunk without bytes is the end of the stream. *)
(*                                                                         *)
(* The caller's thread of the service sets the source, stops, resets and   *)
(* releases while the two threads run.  The threads hold raw pointers: the *)
(* steps that would use freed memory or join a thread that is not there    *)
(* are recorded in wild, after which nothing is said of the program.       *)
(*                                                                         *)
(* The surface and the demuxer are libraries.  A chunk is at most READ_LEN *)
(* bytes, which fits into a buffer.                                        *)
(***************************************************************************)
EXTENDS Integers, Sequences, FiniteSets, SequencesExt

CONSTANTS
  Buffers,      \* the buffers of BufferSource, QUEUE_SIZE of them
  NoBuffer,     \* index -1
  Sizes,        \* the sizes of chunks and of reads
  BufferSize,   \* BUFFER_SIZE
  Slots,        \* how many chunks the surface holds
  MaxBytes,     \* bound: the bytes of one stream
  MaxSources,   \* bound: how often a source is set
  RefusedStops  \* Stop is called even of a player that will refuse it

ASSUME StreamConstants ==
  /\ IsFiniteSet(Buffers) /\ NoBuffer \notin Buffers
  /\ BufferSize \in Nat /\ Sizes \subseteq 1 .. BufferSize /\ Slots \in Nat \ {0}
  /\ MaxBytes \in Nat /\ MaxSources \in Nat
  /\ RefusedStops \in BOOLEAN

VARIABLES
  sent, ended,           \* the application: bytes sent, end sent
  received, receivedEos, \* the demuxer: bytes read, end seen (history)
  surface,     \* the chunks flushed and not acquired, oldest first
  memory,      \* memory[b]: the bytes in buffer b
  idle,        \* idleBuffer_
  available,   \* availableBuffer of the ServerStreamSource
  filled,      \* filledBuffer_: buffer, offset, size and flag
  buffer,      \* buffer_ of PlayerImpl, the filled buffer being read
  isRunning,   \* isRunning_ of AdapterStreamCallback
  idler,       \* IdleBufferProcess: where it is and its buffer
  threadRuning,\* threadRuning of ServerStreamSource
  proc,        \* streamProcess: where it is, its buffer and readLen
  handle,      \* g_streamThreadControl: no thread, a thread, or one joined
  source,      \* the BufferSource: none, live or freed
  stream,      \* stream_ is set
  player,      \* player_ and its currentState_
  api,         \* where the service's thread is
  sources,     \* how many sources were set (bound)
  wild         \* the undefined behaviour that was reached, or "no"

appVars    == <<sent, ended>>
demuxVars  == <<received, receivedEos>>
bufferVars == <<memory, idle, available, filled, buffer>>
idlerVars  == <<isRunning, idler>>
procVars   == <<threadRuning, proc, handle>>
apiVars    == <<source, stream, player, api, sources>>
vars == <<appVars, demuxVars, surface, bufferVars, idlerVars, procVars, apiVars, wild>>

Calm == wild = "no"

Nothing == [buf |-> NoBuffer, offset |-> 0, size |-> 0, eos |-> FALSE]
Garbage == [i \in 1 .. BufferSize |-> 0]
Resting(place) == [pc |-> place, buf |-> NoBuffer, readLen |-> 0]

Init ==
  /\ sent = 0 /\ ended = FALSE /\ received = <<>> /\ receivedEos = FALSE
  /\ surface = <<>> /\ memory = [b \in Buffers |-> Garbage]
  /\ idle = <<>> /\ available = <<>> /\ filled = <<>> /\ buffer = Nothing
  /\ isRunning = FALSE /\ idler = [pc |-> "off", buf |-> NoBuffer]
  /\ threadRuning = FALSE /\ proc = Resting("off") /\ handle = "none"
  /\ source = "none" /\ stream = FALSE /\ player = "none" /\ api = "ready"
  /\ sources = 0 /\ wild = "no"

-----------------------------------------------------------------------------
(* The application *)

\* A chunk of n bytes, numbered on from the last, or none at all: the end.
SendChunk(n) ==
  /\ handle = "live" /\ stream /\ ~ended /\ Len(surface) < Slots
  /\ sent + n =< MaxBytes
  /\ surface' = Append(surface, [i \in 1 .. n |-> sent + i])
  /\ sent' = sent + n /\ ended' = (n = 0)
  /\ UNCHANGED <<demuxVars, bufferVars, idlerVars, procVars, apiVars, wild>>

-----------------------------------------------------------------------------
(* IdleBufferProcess *)

MutIdlerTakeKeeps ==
  /\ idler.pc = "check" /\ isRunning /\ idle # <<>>
  /\ idler' = [pc |-> "offer", buf |-> Head(idle)]
  /\ UNCHANGED <<isRunning, bufferVars>>

IdlerTake ==
  /\ idler.pc = "check" /\ isRunning /\ idle # <<>>
  /\ idler' = [pc |-> "offer", buf |-> Head(idle)]
  /\ idle' = Tail(idle)
  /\ UNCHANGED <<isRunning, memory, available, filled, buffer>>

IdlerOffer ==
  /\ idler.pc = "offer"
  /\ available' = Append(available, idler.buf)
  /\ idler' = [pc |-> "check", buf |-> NoBuffer]
  /\ UNCHANGED <<isRunning, memory, idle, filled, buffer>>

IdlerExit ==
  /\ idler.pc = "check" /\ ~isRunning
  /\ idler' = [idler EXCEPT !.pc = "done"]
  /\ UNCHANGED <<isRunning, bufferVars>>

Idler ==
  /\ IdlerTake \/ IdlerOffer \/ IdlerExit
  /\ UNCHANGED <<appVars, demuxVars, surface, procVars, apiVars, wild>>

-----------------------------------------------------------------------------
(* streamProcess *)

\* The top of the loop: stop, or take the oldest announced buffer, if any.
ProcCheck ==
  /\ proc.pc = "check"
  /\ \/ /\ ~threadRuning
        /\ proc' = [proc EXCEPT !.pc = "done"]
        /\ UNCHANGED available
     \/ /\ threadRuning /\ available # <<>>
        /\ proc' = [proc EXCEPT !.pc = "address", !.buf = Head(available)]
        /\ available' = Tail(available)
  /\ UNCHANGED <<surface, memory, filled, wild>>

\* GetBufferAddress fails once the callback object is gone.
ProcAddress ==
  /\ proc.pc = "address"
  /\ proc' = IF source = "live" THEN [proc EXCEPT !.pc = "fill"] ELSE Resting("done")
  /\ UNCHANGED <<surface, memory, available, filled, wild>>

\* A chunk overwrites the front of the buffer and leaves the rest.
Overwrite(old, chunk) == chunk \o SubSeq(old, Len(chunk) + 1, Len(old))

\* The inner loop: give up when told to stop, with readLen as it is, or copy
\* the next chunk through the address taken before.
ProcFill ==
  /\ proc.pc = "fill"
  /\ \/ /\ ~threadRuning
        /\ proc' = [proc EXCEPT !.pc = "queue"]
        /\ UNCHANGED <<surface, memory, wild>>
     \/ /\ threadRuning /\ surface # <<>>
        /\ LET chunk == Head(surface) IN
           /\ wild' = IF source # "live" /\ chunk # <<>> THEN "freed" ELSE wild
           /\ memory' = [memory EXCEPT ![proc.buf] = Overwrite(@, chunk)]
           /\ proc' = [proc EXCEPT !.pc = "queue", !.readLen = Len(chunk)]
        /\ surface' = Tail(surface)
  /\ UNCHANGED <<available, filled>>

MutQueueNeverLast ==
  /\ proc.pc = "queue"
  /\ filled' = IF source # "live" THEN filled
               ELSE Append(filled, [buf |-> proc.buf, offset |-> 0, size |-> proc.readLen,
                                    eos |-> proc.readLen = 0])
  /\ proc' = [pc |-> "check", buf |-> NoBuffer, readLen |-> proc.readLen]
  /\ UNCHANGED <<surface, memory, available, wild>>

\* QueueBuffer, which does nothing without a callback; readLen 0 is the end.
ProcQueue ==
  /\ proc.pc = "queue"
  /\ filled' = IF source # "live" THEN filled
               ELSE Append(filled, [buf |-> proc.buf, offset |-> 0, size |-> proc.readLen,
                                    eos |-> proc.readLen = 0])
  /\ proc' = [pc |-> IF proc.readLen > 0 THEN "check" ELSE "done",
              buf |-> NoBuffer, readLen |-> proc.readLen]
  /\ UNCHANGED <<surface, memory, available, wild>>

Proc ==
  /\ ProcCheck \/ ProcAddress \/ ProcFill \/ ProcQueue
  /\ UNCHANGED <<appVars, demuxVars, idle, buffer, idlerVars, threadRuning, handle, apiVars>>

-----------------------------------------------------------------------------
(* The demuxer, from Prepare until Stop *)

MutDataSizeBare == FoldLeft(LAMBDA n, q : n + q.size, 0, filled)

\* GetFilledQueDataSize: the end alone counts as some bytes, and the buffer
\* being read does not count.
GetFilledQueDataSize ==
  LET bytes == FoldLeft(LAMBDA n, q : n + q.size, 0, filled)
  IN  IF Len(filled) = 1 /\ filled[1].size = 0 /\ filled[1].eos THEN 4 ELSE bytes

\* The buffer ReadData reads from: the one at hand, or the oldest filled one.
Reading == IF buffer.buf # NoBuffer THEN buffer ELSE Head(filled)

MutReadKeepsOffset(q, n) == [q EXCEPT !.size = @ - n]

\* The rest of a buffer of which n bytes were read.
Rest(q, n) == [q EXCEPT !.offset = @ + n, !.size = @ - n]

\* ReadData and ReadDataPro with room for n bytes.  A buffer that is read to
\* its end goes back to the idle ones.
ReadData(n) ==
  /\ player \in {"prepared", "started"} /\ source = "live"
  /\ buffer.buf # NoBuffer \/ filled # <<>>
  /\ filled' = IF buffer.buf # NoBuffer THEN filled ELSE Tail(filled)
  /\ LET q == Reading
         k == IF q.size =< n THEN q.size ELSE n
     IN  /\ received' = received \o SubSeq(memory[q.buf], q.offset + 1, q.offset + k)
         /\ receivedEos' = (receivedEos \/ (q.eos /\ q.size = 0))
         /\ buffer' = IF q.size =< n THEN Nothing ELSE Rest(q, k)
         /\ idle' = IF q.size =< n THEN Append(idle, q.buf) ELSE idle
  /\ UNCHANGED <<appVars, surface, memory, available, idlerVars, procVars, apiVars, wild>>

-----------------------------------------------------------------------------
(* The service's thread *)

ProcGone == proc.pc \in {"off", "done"}

\* A stream source is only taken by an idle player, or by none yet.  The old
\* ServerStreamSource is freed under a thread that may still use it.  When the
\* engine refuses the source everything is undone but stream_.
SetStreamSource ==
  /\ api = "ready" /\ player \in {"none", "idle"} /\ sources < MaxSources
  /\ sources' = sources + 1 /\ stream' = TRUE
  /\ wild' = IF ProcGone THEN "no" ELSE "reused"
  /\ sent' = 0 /\ ended' = FALSE /\ received' = <<>> /\ receivedEos' = FALSE
  /\ surface' = <<>> /\ available' = <<>> /\ filled' = <<>> /\ buffer' = Nothing
  /\ memory' = [b \in Buffers |-> Garbage]
  /\ \/ /\ player' = "initialized" /\ source' = "live"
        /\ idle' = SetToSeq(Buffers)
        /\ isRunning' = TRUE /\ idler' = [pc |-> "check", buf |-> NoBuffer]
        /\ threadRuning' = TRUE /\ handle' = "live"
        /\ \E garbage \in {0} \cup Sizes :
             proc' = [pc |-> "check", buf |-> NoBuffer, readLen |-> garbage]
     \/ /\ player' = "idle" /\ source' = "freed" /\ idle' = <<>>
        /\ isRunning' = FALSE /\ idler' = [pc |-> "done", buf |-> NoBuffer]
        /\ threadRuning' = FALSE /\ UNCHANGED <<proc, handle>>
  /\ UNCHANGED api

Advance(from, to) ==
  /\ api = "ready" /\ player = from /\ player' = to
  /\ UNCHANGED <<appVars, demuxVars, surface, bufferVars, idlerVars, procVars,
                 source, stream, api, sources, wild>>

Prepare == Advance("initialized", "prepared")
Play == Advance("prepared", "started")

\* Stop ends the stream's thread whatever the player answers.
Stop ==
  /\ api = "ready" /\ player # "none"
  /\ player \in {"started", "stopped"} \/ RefusedStops
  /\ player' = IF player = "started" THEN "stopped" ELSE player
  /\ threadRuning' = FALSE
  /\ UNCHANGED <<appVars, demuxVars, surface, bufferVars, idlerVars, proc, handle,
                 source, stream, api, sources, wild>>

\* ResetInner: the engine is gone and stops reading, DeInit of the callback
\* object tells its thread to end and joins it.
ResetBegin(next) ==
  /\ api = "ready" /\ player # "none"
  /\ next = "reset" => player # "idle"
  /\ api' = next /\ player' = "closing" /\ isRunning' = FALSE
  /\ UNCHANGED <<appVars, demuxVars, surface, bufferVars, idler, procVars,
                 source, stream, sources, wild>>

ResetEnd ==
  /\ api \in {"reset", "release"} /\ idler.pc \in {"off", "done"}
  /\ api' = IF api = "release" THEN "drop" ELSE "ready"
  /\ player' = "idle" /\ source' = IF source = "live" THEN "freed" ELSE source
  /\ buffer' = Nothing /\ idle' = <<>> /\ filled' = <<>>
  /\ UNCHANGED <<appVars, demuxVars, surface, memory, available, idlerVars, procVars,
                 stream, sources, wild>>

MutDropNotTold ==
  /\ api = "drop"
  /\ api' = IF stream THEN "join" ELSE "ready"
  /\ player' = IF stream THEN player ELSE "none"
  /\ wild' = IF stream /\ handle # "live" THEN "unjoined" ELSE wild
  /\ UNCHANGED <<appVars, demuxVars, surface, bufferVars, idlerVars, procVars,
                 source, stream, sources>>

\* Release goes on to the stream: its thread is told to stop and joined.
DropStream ==
  /\ api = "drop"
  /\ api' = IF stream THEN "join" ELSE "ready"
  /\ player' = IF stream THEN player ELSE "none"
  /\ threadRuning' = (threadRuning /\ ~stream)
  /\ wild' = IF stream /\ handle # "live" THEN "unjoined" ELSE wild
  /\ UNCHANGED <<appVars, demuxVars, surface, bufferVars, idlerVars, proc, handle,
                 source, stream, sources>>

JoinStream ==
  /\ api = "join" /\ ProcGone
  /\ api' = "ready" /\ player' = "none" /\ stream' = FALSE /\ handle' = "joined"
  /\ UNCHANGED <<appVars, demuxVars, surface, bufferVars, idlerVars, threadRuning, proc,
                 source, sources, wild>>

Api == ResetEnd \/ DropStream \/ JoinStream

-----------------------------------------------------------------------------
Next ==
  /\ Calm
  /\ \/ \E n \in {0} \cup Sizes : SendChunk(n)
     \/ Idler \/ Proc
     \/ \E n \in Sizes : ReadData(n)
     \/ SetStreamSource \/ Prepare \/ Play \/ Stop
     \/ \E next \in {"reset", "release"} : ResetBegin(next)
     \/ Api

Spec == Init /\ [][Next]_vars

\* The two threads are scheduled, the service finishes the calls it has begun,
\* and the engine of a started player reads as long as there is something to read.
FairSpec ==
  /\ Spec
  /\ WF_vars(Calm /\ Idler) /\ WF_vars(Calm /\ Proc) /\ WF_vars(Calm /\ Api)
  /\ \A n \in Sizes : WF_vars(Calm /\ player = "started" /\ GetFilledQueDataSize > 0
                              /\ ReadData(n))

-----------------------------------------------------------------------------
(* Properties *)

\* How many buffers b a thread has in hand: one or none.
Holds(holder, b) == IF holder.buf = b THEN 1 ELSE 0

\* While a source lives, each of its buffers is in exactly one place: idle, on
\* its way to the stream, announced, being filled, filled or being read.  None
\* is lost on the tour between three threads and three queues, none is used
\* twice.
BuffersPartition ==
  (Calm /\ source = "live") =>
    \A b \in Buffers :
      Cardinality({i \in DOMAIN idle : idle[i] = b})
        + Cardinality({i \in DOMAIN available : available[i] = b})
        + Cardinality({i \in DOMAIN filled : filled[i].buf = b})
        + Holds(idler, b) + Holds(proc, b) + Holds(buffer, b) = 1

\* The tour through the buffers implements the byte stream: what the demuxer
\* reads, in whatever pieces and while the stream is stopped, reset, released
\* or replaced, is what was sent, in order, and then the end.
Bytes == INSTANCE ByteStream WITH
           sent <- sent, ended <- ended, received <- received, receivedEos <- receivedEos
IsByteStream == Bytes!Spec

\* Once the end was sent to a started player it is read, unless the player is
\* stopped, reset or released or the program ran wild; no buffer is forgotten
\* and the empty last buffer is not overlooked (GetFilledQueDataSize).
EverySentIsRead ==
  (ended /\ player = "started") ~> (receivedEos \/ player # "started" \/ ~Calm)

\* Release, which joins both threads, comes back.
ReleaseReturns == (api = "release") ~> (api = "ready" \/ ~Calm)

\* Once the end of the stream was read its thread holds no pointer any more:
\* resetting, releasing or replacing the source is then safe, although Reset
\* neither stops nor joins that thread and Release frees the buffers first.
PlayedOutIsSafe == [][receivedEos => Calm']_vars
=============================================================================
