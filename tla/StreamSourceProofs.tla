------------------------- MODULE StreamSourceProofs -------------------------
(***************************************************************************)
(* Proofs about StreamSource, for every set of buffers, every size of      *)
(* chunks and reads and every bound: the buffers stay a partition, the     *)
(* stream that was played out is safe to take down, and the tour through   *)
(* the buffers implements ByteStream, if the application only stops a      *)
(* player that accepts it.                                                 *)
(***************************************************************************)
EXTENDS StreamSource, SequenceTheorems, FiniteSetTheorems, TLAPS

-----------------------------------------------------------------------------
(* The inductive invariant *)

\* A piece of stream: the bytes after the a-th up to the b-th.
Run(a, b) == [i \in 1 .. b - a |-> a + i]

\* The pieces of s follow each other from a to b.
Tiles(s, a, b) ==
  \E cut \in [1 .. Len(s) + 1 -> a .. b] :
    /\ cut[1] = a /\ cut[Len(s) + 1] = b
    /\ \A i, j \in 1 .. Len(s) + 1 : i =< j => cut[i] =< cut[j]
    /\ \A i \in 1 .. Len(s) : s[i] = Run(cut[i], cut[i + 1])

Lengths == 0 .. BufferSize
Memory  == {m \in Seq(Nat) : Len(m) = BufferSize}
Chunks  == {c \in Seq(Nat) : Len(c) =< BufferSize}
FilledBuffers ==
  {q \in [buf : Buffers, offset : Lengths, size : Lengths, eos : BOOLEAN] :
     q.offset + q.size =< BufferSize}

\* A thread that is not at work on a buffer has none.
TypeOK ==
  /\ sent \in Nat /\ received \in Seq(Nat)
  /\ surface \in Seq(Chunks) /\ memory \in [Buffers -> Memory]
  /\ idle \in Seq(Buffers) /\ available \in Seq(Buffers)
  /\ filled \in Seq(FilledBuffers) /\ buffer \in FilledBuffers \cup {Nothing}
  /\ idler \in [pc : {"off", "check", "done"}, buf : {NoBuffer}]
                 \cup [pc : {"offer"}, buf : Buffers]
  /\ proc \in [pc : {"off", "check", "done"}, buf : {NoBuffer}, readLen : Lengths]
                \cup [pc : {"address", "fill", "queue"}, buf : Buffers, readLen : Lengths]
  /\ handle \in {"none", "live", "joined"} /\ source \in {"none", "live", "freed"}
  /\ player \in {"none", "idle", "initialized", "prepared", "started", "stopped", "closing"}
  /\ api \in {"ready", "reset", "release", "drop", "join"}

\* The service's thread: a player with a source has a stream and its thread,
\* and a call that takes them down is what stands between the two.
Control ==
  /\ player = "closing" <=> api \in {"reset", "release"}
  /\ api \in {"drop", "join"} => player = "idle"
  /\ player \in {"initialized", "prepared", "started", "stopped"} =>
       source = "live" /\ stream /\ handle = "live"
  /\ player \in {"none", "idle"} => source # "live"

\* The end of the stream is the last thing streamProcess queues.
EndIsLast ==
  /\ \A i \in 1 .. Len(filled) : filled[i].eos => proc.pc = "done"
  /\ buffer # Nothing => buffer.size > 0
  /\ receivedEos => ProcGone /\ (stream => handle = "live")

\* The bytes of a filled buffer that were not read yet.
Content(q) == SubSeq(memory[q.buf], q.offset + 1, q.offset + q.size)
FilledBytes == [i \in 1 .. Len(filled) |-> Content(filled[i])]

\* From the demuxer back to the application the stream has no gap: in the
\* buffer being read, up to r; in the filled ones, up to f; in the one about to
\* be queued, up to c; in the surface.
Stretches(r, f, c) ==
  /\ IF buffer = Nothing THEN r = Len(received) ELSE Content(buffer) = Run(Len(received), r)
  /\ Tiles(FilledBytes, r, f)
  /\ IF proc.pc = "queue" THEN SubSeq(memory[proc.buf], 1, proc.readLen) = Run(f, c)
     ELSE c = f
  /\ Tiles(surface, c, sent)

Flows ==
  /\ received = Run(0, Len(received)) /\ Len(received) =< sent
  /\ \E r, f, c \in Len(received) .. sent : r =< f /\ f =< c /\ Stretches(r, f, c)

\* An empty piece is the end: nothing comes behind it.
EndsOnce ==
  /\ \A i \in 1 .. Len(surface) : surface[i] = <<>> => i = Len(surface) /\ ended
  /\ (proc.pc = "queue" /\ proc.readLen = 0) => surface = <<>> /\ ended
  /\ \A i \in 1 .. Len(filled) :
       /\ filled[i].eos <=> filled[i].size = 0
       /\ filled[i].eos => i = Len(filled) /\ surface = <<>> /\ ended
  /\ receivedEos => /\ surface = <<>> /\ filled = <<>> /\ buffer = Nothing /\ ended

\* The demuxer may read, or will without a new source.
Flowing == player \in {"initialized", "prepared", "started"}
Intact == Flowing => threadRuning /\ Flows /\ EndsOnce

IInv == TypeOK /\ (Calm => Control /\ EndIsLast /\ BuffersPartition)
StopsAccepted == RefusedStops = FALSE

-----------------------------------------------------------------------------
(* Types *)

LEMMA ChunkFits ==
  ASSUME NEW n \in {0} \cup Sizes, sent \in Nat
  PROVE  [i \in 1 .. n |-> sent + i] \in Chunks
<1>1. n \in Nat /\ n =< BufferSize
  BY StreamConstants
<1>2. [i \in 1 .. n |-> sent + i] \in Seq(Nat)
  BY <1>1
<1> QED
  BY <1>1, <1>2 DEF Chunks

\* A chunk overwrites the front of a buffer and leaves its length.
LEMMA OverwriteFront ==
  ASSUME NEW old \in Memory, NEW chunk \in Chunks
  PROVE  /\ Overwrite(old, chunk) \in Memory
         /\ SubSeq(Overwrite(old, chunk), 1, Len(chunk)) = chunk
<1> DEFINE rest == SubSeq(old, Len(chunk) + 1, Len(old))
<1>1. /\ chunk \in Seq(Nat) /\ Len(chunk) \in Nat /\ Len(chunk) =< BufferSize
      /\ old \in Seq(Nat) /\ Len(old) = BufferSize
      /\ \A i \in 1 .. Len(old) : old[i] \in Nat
  BY DEF Memory, Chunks
<1>2. rest \in Seq(Nat) /\ Len(rest) = BufferSize - Len(chunk)
  BY <1>1, SubSeqProperties, StreamConstants
<1> HIDE DEF rest
<1>3. /\ chunk \o rest \in Seq(Nat) /\ Len(chunk \o rest) = BufferSize
      /\ \A i \in 1 .. Len(chunk) : (chunk \o rest)[i] = chunk[i]
  BY <1>1, <1>2, ConcatProperties, StreamConstants
<1>4. /\ SubSeq(chunk \o rest, 1, Len(chunk)) \in Seq(Nat)
      /\ Len(SubSeq(chunk \o rest, 1, Len(chunk))) = Len(chunk)
      /\ \A i \in 1 .. Len(chunk) : SubSeq(chunk \o rest, 1, Len(chunk))[i] = chunk[i]
  BY <1>1, <1>2, <1>3, SubSeqProperties
<1>5. SubSeq(chunk \o rest, 1, Len(chunk)) = chunk
  BY <1>1, <1>4, SeqEqual
<1> QED
  BY <1>3, <1>5 DEF Overwrite, Memory, rest

LEMMA FreshMemory == [b \in Buffers |-> Garbage] \in [Buffers -> Memory]
BY StreamConstants DEF Garbage, Memory

\* SetToSeq lists the elements of a finite set, each once.
LEMMA SetToSeqLists ==
  ASSUME NEW S, IsFiniteSet(S)
  PROVE  /\ SetToSeq(S) \in Seq(S)
         /\ \A x \in S : \E i \in DOMAIN SetToSeq(S) : SetToSeq(S)[i] = x
         /\ \A i, j \in DOMAIN SetToSeq(S) : SetToSeq(S)[i] = SetToSeq(S)[j] => i = j
<1>1. Cardinality(S) \in Nat /\ ExistsBijection(1 .. Cardinality(S), S)
  BY FS_CardinalityType
<1>2. PICK f \in Bijection(1 .. Cardinality(S), S) : TRUE
  BY <1>1 DEF ExistsBijection
<1>3. f \in [1 .. Cardinality(S) -> S] /\ IsInjective(f)
  BY <1>2 DEF Bijection, Injection, IsInjective
<1>4. SetToSeq(S) \in [1 .. Cardinality(S) -> S] /\ IsInjective(SetToSeq(S))
  BY <1>3 DEF SetToSeq
<1>5. SetToSeq(S) \in Injection(1 .. Cardinality(S), S)
  BY <1>4 DEF Injection, IsInjective
<1>6. IsFiniteSet(1 .. Cardinality(S)) /\ Cardinality(1 .. Cardinality(S)) = Cardinality(S)
  BY <1>1, FS_Interval
<1>7. SetToSeq(S) \in Surjection(1 .. Cardinality(S), S)
  BY <1>5, <1>6, FS_Injection
<1> QED
  BY <1>1, <1>4, <1>7 DEF Surjection, IsInjective

LEMMA TypeInit == Init => TypeOK
BY FreshMemory, StreamConstants DEF Init, TypeOK, Resting, Lengths, Nothing

\* What a read takes from the buffer at hand and what it leaves.
LEMMA ReadTypes ==
  ASSUME NEW q \in FilledBuffers, NEW n \in Sizes, memory \in [Buffers -> Memory]
  PROVE  /\ q.size > n => Rest(q, n) \in FilledBuffers
         /\ \A k \in 0 .. q.size :
              SubSeq(memory[q.buf], q.offset + 1, q.offset + k) \in Seq(Nat)
<1>1. /\ q.buf \in Buffers /\ q.offset \in Nat /\ q.size \in Nat
      /\ q.offset + q.size =< BufferSize /\ n \in Nat /\ BufferSize \in Nat
  BY StreamConstants DEF FilledBuffers, Lengths
<1>2. ASSUME q.size > n PROVE Rest(q, n) \in FilledBuffers
  <2>1. q \in [buf : Buffers, offset : Lengths, size : Lengths, eos : BOOLEAN]
    BY DEF FilledBuffers
  <2>2. q.offset + n \in Lengths /\ q.size - n \in Lengths
    BY <1>1, <1>2 DEF Lengths
  <2>3. /\ Rest(q, n) \in [buf : Buffers, offset : Lengths, size : Lengths, eos : BOOLEAN]
        /\ Rest(q, n).offset = q.offset + n /\ Rest(q, n).size = q.size - n
    BY <2>1, <2>2 DEF Rest
  <2>4. q.offset + n + (q.size - n) =< BufferSize
    BY <1>1
  <2> QED
    BY <2>3, <2>4 DEF FilledBuffers
<1>3. ASSUME NEW k \in 0 .. q.size
      PROVE  SubSeq(memory[q.buf], q.offset + 1, q.offset + k) \in Seq(Nat)
  <2>1. memory[q.buf] \in Seq(Nat) /\ Len(memory[q.buf]) = BufferSize
    BY <1>1 DEF Memory
  <2>2. \A i \in q.offset + 1 .. q.offset + k : i \in 1 .. Len(memory[q.buf])
    BY <1>1, <1>3, <2>1
  <2>3. \A i \in q.offset + 1 .. q.offset + k : memory[q.buf][i] \in Nat
    BY <2>1, <2>2, ElementOfSeq
  <2> QED
    BY <1>1, <1>3, <2>3, SubSeqProperties
<1> QED
  BY <1>2, <1>3

LEMMA ReadingType ==
  ASSUME TypeOK, buffer.buf # NoBuffer \/ filled # <<>>
  PROVE  Reading \in FilledBuffers
<1>1. filled \in Seq(FilledBuffers) /\ buffer \in FilledBuffers \cup {Nothing}
  BY DEF TypeOK
<1> QED
  BY <1>1 DEF Reading, Nothing

LEMMA TypeStep ==
  ASSUME TypeOK, [Next]_vars
  PROVE  TypeOK'
<1> USE StreamConstants DEF appVars, demuxVars, bufferVars, idlerVars, procVars, apiVars
<1>1. ASSUME NEW n \in {0} \cup Sizes, SendChunk(n) PROVE TypeOK'
  <2>1. [i \in 1 .. n |-> sent + i] \in Chunks /\ n \in Nat
    BY ChunkFits DEF TypeOK
  <2>2. surface' \in Seq(Chunks) /\ sent' \in Nat
    BY <1>1, <2>1 DEF SendChunk, TypeOK
  <2> QED
    BY <1>1, <2>2 DEF SendChunk, TypeOK
<1>2. CASE Idler
  <2>i. /\ idle \in Seq(Buffers) /\ available \in Seq(Buffers)
        /\ idler.pc = "offer" => idler.buf \in Buffers
        /\ idler.pc = "check" => idler = [pc |-> "check", buf |-> NoBuffer]
    BY DEF TypeOK
  <2>u. /\ idler' \in [pc : {"off", "check", "done"}, buf : {NoBuffer}]
                       \cup [pc : {"offer"}, buf : Buffers]
        /\ idle' \in Seq(Buffers) /\ available' \in Seq(Buffers)
        /\ UNCHANGED <<memory, filled, buffer>>
    <3>1. CASE IdlerTake
      <4>1. Head(idle) \in Buffers /\ Tail(idle) \in Seq(Buffers)
        BY <3>1, <2>i DEF IdlerTake
      <4> QED
        BY <3>1, <4>1, <2>i DEF IdlerTake
    <3>2. CASE IdlerOffer
      BY <3>2, <2>i DEF IdlerOffer
    <3>3. CASE IdlerExit
      <4>1. idler' = [pc |-> "done", buf |-> NoBuffer]
        BY <3>3, <2>i DEF IdlerExit
      <4> QED
        BY <3>3, <4>1, <2>i DEF IdlerExit
    <3> QED
      BY <1>2, <3>1, <3>2, <3>3 DEF Idler
  <2>v. UNCHANGED <<sent, received, surface, proc, handle, source, player, api>>
    BY <1>2 DEF Idler
  <2> QED
    BY <2>u, <2>v DEF TypeOK
<1>3. CASE Proc
  <2>t. /\ proc.readLen \in Lengths
        /\ proc.pc \in {"address", "fill", "queue"} => proc.buf \in Buffers
        /\ proc.pc \in {"off", "check", "done"} => proc.buf = NoBuffer
        /\ proc = [pc |-> proc.pc, buf |-> proc.buf, readLen |-> proc.readLen]
    BY DEF TypeOK
  <2>s. surface \in Seq(Chunks) /\ available \in Seq(Buffers) /\ filled \in Seq(FilledBuffers)
        /\ memory \in [Buffers -> Memory]
    BY DEF TypeOK
  <2>u. /\ proc' \in [pc : {"off", "check", "done"}, buf : {NoBuffer}, readLen : Lengths]
                      \cup [pc : {"address", "fill", "queue"}, buf : Buffers, readLen : Lengths]
        /\ surface' \in Seq(Chunks) /\ available' \in Seq(Buffers)
        /\ filled' \in Seq(FilledBuffers) /\ memory' \in [Buffers -> Memory]
    <3>1. CASE ProcCheck
      <4>1. CASE ~threadRuning
        <5>1. proc' = [pc |-> "done", buf |-> NoBuffer, readLen |-> proc.readLen]
          BY <3>1, <4>1, <2>t DEF ProcCheck
        <5> QED
          BY <3>1, <4>1, <5>1, <2>t, <2>s DEF ProcCheck
      <4>2. CASE threadRuning
        <5>1. proc' = [pc |-> "address", buf |-> Head(available), readLen |-> proc.readLen]
          BY <3>1, <4>2, <2>t DEF ProcCheck
        <5>2. Head(available) \in Buffers /\ Tail(available) \in Seq(Buffers)
          BY <3>1, <4>2, <2>s DEF ProcCheck
        <5> QED
          BY <3>1, <4>2, <5>1, <5>2, <2>t, <2>s DEF ProcCheck
      <4> QED
        BY <4>1, <4>2
    <3>2. CASE ProcAddress
      <4>1. \/ proc' = [pc |-> "fill", buf |-> proc.buf, readLen |-> proc.readLen]
            \/ proc' = [pc |-> "done", buf |-> NoBuffer, readLen |-> 0]
        BY <3>2, <2>t DEF ProcAddress, Resting
      <4> QED
        BY <3>2, <4>1, <2>t, <2>s DEF ProcAddress, Lengths
    <3>3. CASE ProcFill
      <4>1. CASE ~threadRuning
        <5>1. proc' = [pc |-> "queue", buf |-> proc.buf, readLen |-> proc.readLen]
          BY <3>3, <4>1, <2>t DEF ProcFill
        <5> QED
          BY <3>3, <4>1, <5>1, <2>t, <2>s DEF ProcFill
      <4>2. CASE threadRuning
        <5>1. Head(surface) \in Chunks /\ Tail(surface) \in Seq(Chunks)
          BY <3>3, <4>2, <2>s DEF ProcFill
        <5>2. Len(Head(surface)) \in Lengths
          BY <5>1 DEF Chunks, Lengths
        <5>3. proc' = [pc |-> "queue", buf |-> proc.buf, readLen |-> Len(Head(surface))]
          BY <3>3, <4>2, <2>t DEF ProcFill
        <5>4. memory' = [memory EXCEPT ![proc.buf] = Overwrite(memory[proc.buf], Head(surface))]
          BY <3>3, <4>2 DEF ProcFill
        <5>5. proc.buf \in Buffers /\ memory[proc.buf] \in Memory
          BY <3>3, <2>t, <2>s DEF ProcFill
        <5>6. Overwrite(memory[proc.buf], Head(surface)) \in Memory
          BY <5>1, <5>5, OverwriteFront
        <5>7. memory' \in [Buffers -> Memory]
          BY <5>4, <5>6, <2>s
        <5> QED
          BY <3>3, <4>2, <5>1, <5>2, <5>3, <5>5, <5>7, <2>s DEF ProcFill
      <4> QED
        BY <4>1, <4>2
    <3>4. CASE ProcQueue
      <4> DEFINE q == [buf |-> proc.buf, offset |-> 0, size |-> proc.readLen,
                       eos |-> proc.readLen = 0]
      <4>1. q \in FilledBuffers
        BY <3>4, <2>t DEF ProcQueue, FilledBuffers, Lengths
      <4>2. filled' \in {filled, Append(filled, q)}
        BY <3>4 DEF ProcQueue
      <4> HIDE DEF q
      <4>3. filled' \in Seq(FilledBuffers)
        <5>1. Append(filled, q) \in Seq(FilledBuffers)
          BY <4>1, <2>s
        <5> QED
          BY <4>2, <5>1, <2>s
      <4>4. \/ proc' = [pc |-> "check", buf |-> NoBuffer, readLen |-> proc.readLen]
            \/ proc' = [pc |-> "done", buf |-> NoBuffer, readLen |-> proc.readLen]
        BY <3>4 DEF ProcQueue
      <4> QED
        BY <3>4, <4>3, <4>4, <2>t, <2>s DEF ProcQueue
    <3> QED
      BY <1>3, <3>1, <3>2, <3>3, <3>4 DEF Proc
  <2> QED
    BY <1>3, <2>u DEF Proc, TypeOK
<1>4. ASSUME NEW n \in Sizes, ReadData(n) PROVE TypeOK'
  <2> DEFINE q == Reading
             k == IF q.size =< n THEN q.size ELSE n
  <2>1. q \in FilledBuffers
    BY <1>4, ReadingType DEF ReadData
  <2>2. q.buf \in Buffers /\ q.size \in Nat /\ n \in Nat
    BY <2>1 DEF FilledBuffers, Lengths
  <2>3. SubSeq(memory[q.buf], q.offset + 1, q.offset + k) \in Seq(Nat)
    <3>1. k \in 0 .. q.size
      BY <2>2
    <3> HIDE DEF k, q
    <3> QED
      BY <2>1, <3>1, ReadTypes DEF TypeOK
  <2>4. q.size > n => Rest(q, k) \in FilledBuffers
    <3>1. q.size > n => k = n
      BY <2>2
    <3> HIDE DEF k, q
    <3> QED
      BY <2>1, <3>1, ReadTypes DEF TypeOK
  <2>5. received' = received \o SubSeq(memory[q.buf], q.offset + 1, q.offset + k)
    BY <1>4 DEF ReadData
  <2>6. buffer' = (IF q.size =< n THEN Nothing ELSE Rest(q, k))
        /\ idle' = (IF q.size =< n THEN Append(idle, q.buf) ELSE idle)
    BY <1>4 DEF ReadData
  <2>7. filled' = (IF buffer.buf # NoBuffer THEN filled ELSE Tail(filled))
        /\ (buffer.buf # NoBuffer \/ filled # <<>>)
    BY <1>4 DEF ReadData
  <2>8. filled' \in Seq(FilledBuffers)
    BY <2>7 DEF TypeOK
  <2> HIDE DEF q, k
  <2>9. received' \in Seq(Nat)
    BY <2>3, <2>5, ConcatProperties DEF TypeOK
  <2>10. idle' \in Seq(Buffers) /\ buffer' \in FilledBuffers \cup {Nothing}
    BY <2>2, <2>4, <2>6 DEF TypeOK
  <2> QED
    BY <1>4, <2>8, <2>9, <2>10 DEF ReadData, TypeOK
<1>5. CASE SetStreamSource
  <2>1. memory' \in [Buffers -> Memory]
    BY <1>5, FreshMemory DEF SetStreamSource
  <2>2. idle' \in Seq(Buffers)
    <3>1. SetToSeq(Buffers) \in Seq(Buffers)
      BY SetToSeqLists
    <3> QED
      <4>1. idle' = SetToSeq(Buffers) \/ idle' = <<>>
        BY <1>5 DEF SetStreamSource
      <4> QED
        BY <3>1, <4>1, EmptySeq
  <2>3. \/ UNCHANGED proc
        \/ proc' \in [pc : {"off", "check", "done"}, buf : {NoBuffer}, readLen : Lengths]
    BY <1>5 DEF SetStreamSource, Lengths
  <2>4. idler' \in [pc : {"off", "check", "done"}, buf : {NoBuffer}]
    BY <1>5 DEF SetStreamSource
  <2>5. handle' \in {"none", "live", "joined"} /\ source' \in {"none", "live", "freed"}
        /\ player' \in {"idle", "initialized"}
    BY <1>5 DEF SetStreamSource, TypeOK
  <2> QED
    BY <1>5, <2>1, <2>2, <2>3, <2>4, <2>5 DEF SetStreamSource, TypeOK
<1>6. CASE Prepare \/ Play \/ Stop
  BY <1>6 DEF Prepare, Play, Stop, Advance, TypeOK
<1>7. ASSUME NEW next \in {"reset", "release"}, ResetBegin(next) PROVE TypeOK'
  BY <1>7 DEF ResetBegin, TypeOK
<1>8. CASE Api
  <2>1. CASE ResetEnd
    BY <2>1 DEF ResetEnd, TypeOK
  <2>2. CASE DropStream
    BY <2>2 DEF DropStream, TypeOK
  <2>3. CASE JoinStream
    BY <2>3 DEF JoinStream, TypeOK
  <2> QED
    BY <1>8, <2>1, <2>2, <2>3 DEF Api
<1>9. CASE UNCHANGED vars
  BY <1>9 DEF vars, TypeOK
<1> QED
  BY <1>1, <1>2, <1>3, <1>4, <1>5, <1>6, <1>7, <1>8, <1>9 DEF Next

-----------------------------------------------------------------------------
(* Counting the elements of a sequence that lie in a set *)

Times(s, P) == Cardinality({i \in DOMAIN s : s[i] \in P})

LEMMA TimesEmpty ==
  ASSUME NEW P
  PROVE  Times(<<>>, P) = 0
<1>1. {i \in DOMAIN <<>> : <<>>[i] \in P} = {}
  OBVIOUS
<1> QED
  BY <1>1, FS_EmptySet DEF Times

LEMMA TimesFinite ==
  ASSUME NEW S, NEW s \in Seq(S), NEW P
  PROVE  IsFiniteSet({i \in DOMAIN s : s[i] \in P}) /\ Times(s, P) \in Nat
<1>1. DOMAIN s = 1 .. Len(s) /\ Len(s) \in Nat
  OBVIOUS
<1>2. IsFiniteSet(1 .. Len(s))
  BY <1>1, FS_Interval
<1>3. {i \in DOMAIN s : s[i] \in P} \in SUBSET (1 .. Len(s))
  BY <1>1
<1> HIDE DEF Times
<1>4. IsFiniteSet({i \in DOMAIN s : s[i] \in P})
  BY <1>2, <1>3, FS_Subset
<1> QED
  BY <1>4, FS_CardinalityType DEF Times

LEMMA TimesAppend ==
  ASSUME NEW S, NEW s \in Seq(S), NEW e \in S, NEW P
  PROVE  Times(Append(s, e), P) = Times(s, P) + (IF e \in P THEN 1 ELSE 0)
<1> DEFINE old == {i \in DOMAIN s : s[i] \in P}
           new == {i \in DOMAIN Append(s, e) : Append(s, e)[i] \in P}
<1>1. /\ DOMAIN s = 1 .. Len(s) /\ Len(s) \in Nat
      /\ DOMAIN Append(s, e) = 1 .. Len(s) + 1
      /\ \A i \in 1 .. Len(s) : Append(s, e)[i] = s[i]
      /\ Append(s, e)[Len(s) + 1] = e
  OBVIOUS
<1>2. new = IF e \in P THEN old \cup {Len(s) + 1} ELSE old
  BY <1>1
<1>3. Len(s) + 1 \notin old
  BY <1>1
<1>4. IsFiniteSet(old) /\ Cardinality(old) \in Nat
  BY TimesFinite DEF Times
<1> HIDE DEF old, new
<1>5. Cardinality(old \cup {Len(s) + 1}) = Cardinality(old) + 1
  BY <1>3, <1>4, FS_AddElement
<1>6. Cardinality(new) = Cardinality(old) + (IF e \in P THEN 1 ELSE 0)
  BY <1>2, <1>4, <1>5
<1> QED
  BY <1>6 DEF Times, old, new

LEMMA TimesTail ==
  ASSUME NEW S, NEW s \in Seq(S), s # <<>>, NEW P
  PROVE  Times(s, P) = Times(Tail(s), P) + (IF Head(s) \in P THEN 1 ELSE 0)
<1> DEFINE old == {i \in DOMAIN s : s[i] \in P}
           new == {i \in DOMAIN Tail(s) : Tail(s)[i] \in P}
           shifted == {i \in old : i # 1}
           up == [i \in new |-> i + 1]
<1>1. /\ DOMAIN s = 1 .. Len(s) /\ Len(s) \in Nat \ {0}
      /\ DOMAIN Tail(s) = 1 .. Len(s) - 1
      /\ Head(s) = s[1]
  OBVIOUS
<1>2. \A i \in 1 .. Len(s) - 1 : Tail(s)[i] = s[i + 1]
  OBVIOUS
<1>3. Tail(s) \in Seq(S)
  OBVIOUS
<1>4. IsFiniteSet(new) /\ Cardinality(new) \in Nat
  BY <1>3, TimesFinite DEF Times
<1>5. up \in Bijection(new, shifted)
  <2>1. \A i \in new : i + 1 \in shifted
    BY <1>1, <1>2
  <2>2. \A j \in shifted : j - 1 \in new /\ up[j - 1] = j
    BY <1>1, <1>2
  <2>3. \A i, j \in new : up[i] = up[j] => i = j
    BY <1>1
  <2>4. up \in [new -> shifted]
    BY <2>1
  <2>5. \A j \in shifted : \E i \in new : up[i] = j
    BY <2>2
  <2> HIDE DEF new, shifted, up
  <2> QED
    BY <2>3, <2>4, <2>5 DEF Bijection, Injection, Surjection, IsInjective
<1>6. 1 \notin shifted /\ old = IF Head(s) \in P THEN shifted \cup {1} ELSE shifted
  BY <1>1
<1> HIDE DEF old, new, shifted, up
<1>7. IsFiniteSet(shifted) /\ Cardinality(shifted) = Cardinality(new)
  BY <1>4, <1>5, FS_Bijection DEF ExistsBijection
<1>8. Cardinality(shifted \cup {1}) = Cardinality(new) + 1
  BY <1>6, <1>7, FS_AddElement
<1>9. Cardinality(old) = Cardinality(new) + (IF Head(s) \in P THEN 1 ELSE 0)
  BY <1>4, <1>6, <1>7, <1>8
<1> QED
  BY <1>9 DEF Times, old, new

\* A listed set has each of its elements once.
LEMMA TimesOfList ==
  ASSUME NEW S, IsFiniteSet(S), NEW x \in S
  PROVE  Times(SetToSeq(S), {x}) = 1
<1>1. PICK i \in DOMAIN SetToSeq(S) : SetToSeq(S)[i] = x
  BY SetToSeqLists
<1>2. {j \in DOMAIN SetToSeq(S) : SetToSeq(S)[j] \in {x}} = {i}
  BY <1>1, SetToSeqLists
<1> QED
  BY <1>2, FS_Singleton DEF Times

-----------------------------------------------------------------------------
(* Buffers, ends and the service's thread *)

\* The filled buffers that are buffer b.
Of(b) == {q \in FilledBuffers : q.buf = b}

\* BuffersPartition, counted by Times.
Once(b) ==
  Times(idle, {b}) + Times(available, {b}) + Times(filled, Of(b))
    + Holds(idler, b) + Holds(proc, b) + Holds(buffer, b) = 1

LEMMA PartitionByTimes ==
  TypeOK => (BuffersPartition <=> ((Calm /\ source = "live") => \A b \in Buffers : Once(b)))
<1> SUFFICES ASSUME TypeOK
             PROVE  BuffersPartition <=> ((Calm /\ source = "live") => \A b \in Buffers : Once(b))
  OBVIOUS
<1>1. ASSUME NEW b \in Buffers
      PROVE  /\ Times(idle, {b}) = Cardinality({i \in DOMAIN idle : idle[i] = b})
             /\ Times(available, {b}) = Cardinality({i \in DOMAIN available : available[i] = b})
             /\ Times(filled, Of(b)) = Cardinality({i \in DOMAIN filled : filled[i].buf = b})
  <2>1. {i \in DOMAIN idle : idle[i] \in {b}} = {i \in DOMAIN idle : idle[i] = b}
    OBVIOUS
  <2>2. {i \in DOMAIN available : available[i] \in {b}} = {i \in DOMAIN available : available[i] = b}
    OBVIOUS
  <2>3. \A i \in DOMAIN filled : filled[i] \in FilledBuffers
    BY DEF TypeOK
  <2>4. {i \in DOMAIN filled : filled[i] \in Of(b)} = {i \in DOMAIN filled : filled[i].buf = b}
    BY <2>3 DEF Of
  <2> QED
    BY <2>1, <2>2, <2>4 DEF Times
<1> QED
  BY <1>1 DEF BuffersPartition, Once

LEMMA ControlInit == Init => Control /\ EndIsLast
BY DEF Init, Control, EndIsLast, ProcGone, Resting, Nothing

LEMMA ControlStep ==
  ASSUME IInv, [Next]_vars, Calm'
  PROVE  Control'
<1>0. Calm /\ Control
  BY DEF Next, vars, Calm, IInv
<1> USE <1>0 DEF Control, appVars, demuxVars, bufferVars, idlerVars, procVars, apiVars
<1>1. ASSUME NEW n \in {0} \cup Sizes, SendChunk(n) PROVE Control'
  BY <1>1 DEF SendChunk
<1>2. CASE Idler
  BY <1>2 DEF Idler
<1>3. CASE Proc
  BY <1>3 DEF Proc
<1>4. ASSUME NEW n \in Sizes, ReadData(n) PROVE Control'
  BY <1>4 DEF ReadData
<1>5. CASE SetStreamSource
  BY <1>5 DEF SetStreamSource
<1>6. CASE Prepare \/ Play \/ Stop
  BY <1>6 DEF Prepare, Play, Stop, Advance
<1>7. ASSUME NEW next \in {"reset", "release"}, ResetBegin(next) PROVE Control'
  BY <1>7 DEF ResetBegin
<1>8. CASE ResetEnd
  BY <1>8 DEF ResetEnd
<1>9. CASE DropStream
  BY <1>9 DEF DropStream
<1>10. CASE JoinStream
  BY <1>10 DEF JoinStream
<1>11. CASE UNCHANGED vars
  BY <1>11 DEF vars
<1> QED
  BY <1>1, <1>2, <1>3, <1>4, <1>5, <1>6, <1>7, <1>8, <1>9, <1>10, <1>11 DEF Next, Api

LEMMA EndStep ==
  ASSUME IInv, [Next]_vars, Calm'
  PROVE  EndIsLast'
<1>0. Calm /\ Control /\ EndIsLast /\ TypeOK
  BY DEF Next, vars, Calm, IInv
<1>t. /\ filled \in Seq(FilledBuffers) /\ buffer \in FilledBuffers \cup {Nothing}
      /\ NoBuffer \notin Buffers
  BY <1>0, StreamConstants DEF TypeOK
<1> USE <1>0 DEF EndIsLast, ProcGone, appVars, demuxVars, bufferVars, idlerVars, procVars, apiVars
<1>1. ASSUME NEW n \in {0} \cup Sizes, SendChunk(n) PROVE EndIsLast'
  BY <1>1 DEF SendChunk
<1>2. CASE Idler
  BY <1>2 DEF Idler, IdlerTake, IdlerOffer, IdlerExit
<1>3. CASE Proc
  <2>1. CASE ProcCheck \/ ProcAddress \/ ProcFill
    BY <1>3, <2>1 DEF Proc, ProcCheck, ProcAddress, ProcFill
  <2>2. CASE ProcQueue
    <3> DEFINE q == [buf |-> proc.buf, offset |-> 0, size |-> proc.readLen,
                     eos |-> proc.readLen = 0]
    <3>1. filled' = filled \/ filled' = Append(filled, q)
      BY <2>2 DEF ProcQueue
    <3>2. proc.pc = "queue" /\ (q.eos => proc'.pc = "done")
      <4>1. proc.pc = "queue" /\ (proc.readLen = 0 => proc'.pc = "done")
        BY <2>2 DEF ProcQueue
      <4>2. q.eos = (proc.readLen = 0)
        OBVIOUS
      <4> HIDE DEF q
      <4> QED
        BY <4>1, <4>2
    <3>3. UNCHANGED <<buffer, receivedEos, stream, handle>>
      BY <1>3 DEF Proc
    <3> HIDE DEF q
    <3>4. \A i \in 1 .. Len(filled) : ~filled[i].eos
      BY <3>2
    <3>5. \A i \in 1 .. Len(filled') : filled'[i].eos => proc'.pc = "done"
      <4>1. CASE filled' = filled
        BY <3>4, <4>1
      <4>2. CASE filled' = Append(filled, q)
        <5>1. Len(filled') = Len(filled) + 1 /\ filled'[Len(filled) + 1] = q
              /\ \A i \in 1 .. Len(filled) : filled'[i] = filled[i]
          BY <4>2, <1>t
        <5> QED
          BY <5>1, <3>2, <3>4, <1>t
      <4> QED
        BY <3>1, <4>1, <4>2
    <3>6. ~receivedEos
      BY <3>2
    <3> QED
      BY <3>3, <3>5, <3>6
  <2> QED
    BY <1>3, <2>1, <2>2 DEF Proc
<1>4. ASSUME NEW n \in Sizes, ReadData(n) PROVE EndIsLast'
  <2>1. n \in Nat /\ \A q \in FilledBuffers : q.size \in Nat /\ q.buf # NoBuffer
    BY StreamConstants DEF FilledBuffers, Lengths
  <2>2. Reading \in FilledBuffers
    BY <1>4, ReadingType DEF ReadData
  <2>3. buffer' # Nothing => buffer'.size > 0
    <3>1. CASE Reading.size =< n
      BY <1>4, <3>1 DEF ReadData
    <3>2. CASE ~(Reading.size =< n)
      <4>1. buffer' = Rest(Reading, n)
        BY <1>4, <3>2 DEF ReadData
      <4>2. Reading \in [buf : Buffers, offset : Lengths, size : Lengths, eos : BOOLEAN]
        BY <2>2 DEF FilledBuffers
      <4>3. buffer'.size = Reading.size - n
        BY <4>1, <4>2 DEF Rest
      <4> QED
        BY <2>1, <2>2, <3>2, <4>3
    <3> QED
      BY <3>1, <3>2
  <2>4. \A i \in 1 .. Len(filled') : filled'[i].eos => proc'.pc = "done"
    <3>1. CASE buffer.buf # NoBuffer
      BY <1>4, <3>1 DEF ReadData
    <3>2. CASE buffer.buf = NoBuffer
      <4>1. filled # <<>> /\ filled' = Tail(filled) /\ UNCHANGED proc
        BY <1>4, <3>2 DEF ReadData
      <4>2. \A i \in 1 .. Len(filled') : i + 1 \in 1 .. Len(filled) /\ filled'[i] = filled[i + 1]
        BY <4>1, <1>t
      <4> QED
        BY <4>1, <4>2
    <3> QED
      BY <3>1, <3>2
  <2>5. receivedEos' => ProcGone' /\ (stream' => handle' = "live")
    <3>1. stream /\ handle = "live" /\ UNCHANGED <<stream, handle, proc>>
      BY <1>4 DEF ReadData, Control
    <3>2. receivedEos' => receivedEos \/ (Reading.eos /\ Reading.size = 0)
      BY <1>4 DEF ReadData
    <3>3. ASSUME Reading.eos, Reading.size = 0 PROVE proc.pc = "done"
      <4>1. buffer.buf = NoBuffer
        BY <1>t, <2>1, <3>3 DEF Reading, Nothing
      <4>2. Reading = filled[1] /\ 1 \in 1 .. Len(filled)
        BY <1>4, <1>t, <4>1 DEF Reading, ReadData
      <4> QED
        BY <3>3, <4>2
    <3> QED
      BY <3>1, <3>2, <3>3
  <2> QED
    BY <2>3, <2>4, <2>5
<1>5. CASE SetStreamSource
  BY <1>5 DEF SetStreamSource
<1>6. CASE Prepare \/ Play \/ Stop
  BY <1>6 DEF Prepare, Play, Stop, Advance
<1>7. ASSUME NEW next \in {"reset", "release"}, ResetBegin(next) PROVE EndIsLast'
  BY <1>7 DEF ResetBegin
<1>8. CASE ResetEnd
  BY <1>8 DEF ResetEnd
<1>9. CASE DropStream
  BY <1>9 DEF DropStream
<1>10. CASE JoinStream
  BY <1>10 DEF JoinStream
<1>11. CASE UNCHANGED vars
  BY <1>11 DEF vars
<1> QED
  BY <1>1, <1>2, <1>3, <1>4, <1>5, <1>6, <1>7, <1>8, <1>9, <1>10, <1>11 DEF Next, Api

LEMMA PartitionInit == Init => BuffersPartition
BY DEF Init, BuffersPartition

\* One step of the tour takes a buffer from one place to the next.
LEMMA OnceStep ==
  ASSUME IInv, [Next]_vars, Calm', source' = "live", NEW b \in Buffers
  PROVE  Once(b)'
<1>0. Calm /\ Control /\ TypeOK
  BY DEF Next, vars, Calm, IInv
<1>o. source = "live" => Once(b)
  BY <1>0, PartitionByTimes DEF IInv
<1>b. NoBuffer \notin Buffers /\ b # NoBuffer
  BY StreamConstants
<1>t. /\ idle \in Seq(Buffers) /\ available \in Seq(Buffers) /\ filled \in Seq(FilledBuffers)
      /\ buffer \in FilledBuffers \cup {Nothing} /\ b \in Buffers
      /\ idler.pc = "offer" => idler.buf \in Buffers
      /\ idler.pc \in {"off", "check", "done"} => idler.buf = NoBuffer
      /\ proc.pc \in {"address", "fill", "queue"} => proc.buf \in Buffers
      /\ proc.pc \in {"off", "check", "done"} => proc.buf = NoBuffer
  BY <1>0 DEF TypeOK
<1>n. /\ Times(idle, {b}) \in Nat /\ Times(available, {b}) \in Nat /\ Times(filled, Of(b)) \in Nat
      /\ Holds(idler, b) \in {0, 1} /\ Holds(proc, b) \in {0, 1} /\ Holds(buffer, b) \in {0, 1}
  BY <1>t, TimesFinite DEF Holds
<1> USE DEF appVars, demuxVars, bufferVars, idlerVars, procVars, apiVars
<1>same. ASSUME source = "live", UNCHANGED <<idle, available, filled, buffer>>,
                idler'.buf = idler.buf, proc'.buf = proc.buf
         PROVE  Once(b)'
  BY <1>o, <1>same DEF Once, Holds
<1>1. ASSUME NEW n \in {0} \cup Sizes, SendChunk(n) PROVE Once(b)'
  BY <1>1, <1>same DEF SendChunk
<1>2. CASE Idler
  <2>0. source = "live" /\ Once(b) /\ UNCHANGED <<proc, source>>
    BY <1>2, <1>o DEF Idler
  <2>1. CASE IdlerTake
    <3>1. Times(idle, {b}) = Times(idle', {b}) + Holds(idler', b)
      BY <2>1, <1>t, TimesTail DEF IdlerTake, Holds
    <3>2. Holds(idler, b) = 0
      BY <2>1, <1>t, <1>b DEF IdlerTake, Holds
    <3>3. /\ Times(available', {b}) = Times(available, {b}) /\ Times(filled', Of(b)) = Times(filled, Of(b))
          /\ Holds(proc', b) = Holds(proc, b) /\ Holds(buffer', b) = Holds(buffer, b)
      BY <2>0, <2>1 DEF IdlerTake
    <3>4. idle' \in Seq(Buffers)
      BY <2>1, <1>t DEF IdlerTake
    <3>5. Times(idle', {b}) \in Nat /\ Holds(idler', b) \in {0, 1}
      BY <3>4, TimesFinite DEF Holds
    <3>6. Holds(idler, b)' = Holds(idler', b) /\ Holds(proc, b)' = Holds(proc', b) /\ Holds(buffer, b)' = Holds(buffer', b)
      BY DEF Holds
    <3> QED
      BY <2>0, <1>n, <3>1, <3>2, <3>3, <3>5, <3>6 DEF Once
  <2>2. CASE IdlerOffer
    <3>1. Times(available', {b}) = Times(available, {b}) + Holds(idler, b)
      BY <2>2, <1>t, TimesAppend DEF IdlerOffer, Holds
    <3>2. Holds(idler', b) = 0
      BY <2>2, <1>b DEF IdlerOffer, Holds
    <3>3. UNCHANGED <<idle, filled, buffer, proc>>
      BY <2>0, <2>2 DEF IdlerOffer
    <3> QED
      BY <2>0, <1>n, <3>1, <3>2, <3>3 DEF Once, Holds
  <2>3. CASE IdlerExit
    <3>1. idler'.buf = idler.buf
      BY <2>3, <1>0 DEF IdlerExit, TypeOK
    <3> QED
      BY <2>0, <2>3, <3>1, <1>same DEF IdlerExit
  <2> QED
    BY <1>2, <2>1, <2>2, <2>3 DEF Idler
<1>3. CASE Proc
  <2>0. source = "live" /\ Once(b) /\ UNCHANGED <<idle, buffer, idler, source>>
    BY <1>3, <1>o DEF Proc
  <2>p. proc = [pc |-> proc.pc, buf |-> proc.buf, readLen |-> proc.readLen]
    BY <1>0 DEF TypeOK
  <2>1. CASE ProcCheck
    <3>1. CASE ~threadRuning
      <4>1. UNCHANGED <<available, filled>> /\ proc'.buf = proc.buf
        BY <2>1, <2>p, <3>1 DEF ProcCheck
      <4> QED
        BY <2>0, <4>1, <1>same
    <3>2. CASE threadRuning
      <4>0. available # <<>> /\ available' = Tail(available) /\ proc'.buf = Head(available)
            /\ proc.buf = NoBuffer /\ UNCHANGED filled
        BY <2>1, <2>p, <3>2, <1>t DEF ProcCheck
      <4>1. Times(available, {b}) = Times(available', {b}) + Holds(proc', b)
        BY <4>0, <1>t, TimesTail DEF Holds
      <4>2. Holds(proc, b) = 0
        BY <4>0, <1>b DEF Holds
      <4>3. available' \in Seq(Buffers)
        BY <4>0, <1>t
      <4>4. Times(available', {b}) \in Nat /\ Holds(proc', b) \in {0, 1}
        BY <4>3, TimesFinite DEF Holds
      <4>5. Holds(idler, b)' = Holds(idler, b) /\ Holds(proc, b)' = Holds(proc', b)
            /\ Holds(buffer, b)' = Holds(buffer, b)
            /\ Times(idle', {b}) = Times(idle, {b}) /\ Times(filled', Of(b)) = Times(filled, Of(b))
        BY <2>0, <4>0 DEF Holds
      <4> QED
        BY <2>0, <1>n, <4>1, <4>2, <4>4, <4>5 DEF Once
    <3> QED
      BY <3>1, <3>2
  <2>2. CASE ProcAddress
    <3>1. UNCHANGED <<available, filled>> /\ proc'.buf = proc.buf
      BY <2>0, <2>2, <2>p DEF ProcAddress
    <3> QED
      BY <2>0, <3>1, <1>same
  <2>3. CASE ProcFill
    <3>1. UNCHANGED <<available, filled>> /\ proc'.buf = proc.buf
      BY <2>3, <2>p DEF ProcFill
    <3> QED
      BY <2>0, <3>1, <1>same
  <2>4. CASE ProcQueue
    <3> DEFINE q == [buf |-> proc.buf, offset |-> 0, size |-> proc.readLen,
                     eos |-> proc.readLen = 0]
    <3>1. q \in FilledBuffers
      <4>1. proc.buf \in Buffers /\ proc.readLen \in Lengths /\ BufferSize \in Nat
        BY <2>4, <1>0, StreamConstants DEF ProcQueue, TypeOK
      <4> QED
        BY <4>1 DEF FilledBuffers, Lengths
    <3>2. filled' = Append(filled, q) /\ q.buf = proc.buf /\ proc'.buf = NoBuffer /\ UNCHANGED available
      BY <2>0, <2>4 DEF ProcQueue
    <3> HIDE DEF q
    <3>3. q \in Of(b) <=> proc.buf = b
      BY <3>1, <3>2 DEF Of
    <3>4. Times(filled', Of(b)) = Times(filled, Of(b)) + Holds(proc, b)
      BY <3>1, <3>2, <3>3, <1>t, TimesAppend DEF Holds
    <3>5. Holds(proc', b) = 0
      BY <3>2, <1>b DEF Holds
    <3> QED
      BY <2>0, <1>n, <3>2, <3>4, <3>5 DEF Once, Holds
  <2> QED
    BY <1>3, <2>1, <2>2, <2>3, <2>4 DEF Proc
<1>4. ASSUME NEW n \in Sizes, ReadData(n) PROVE Once(b)'
  <2> DEFINE q == Reading
  <2>0. source = "live" /\ Once(b) /\ UNCHANGED <<available, idler, proc>>
    BY <1>4, <1>o DEF ReadData
  <2>1. q \in FilledBuffers
    BY <1>4, <1>0, ReadingType DEF ReadData
  <2>2. q.buf \in Buffers /\ (q \in Of(b) <=> q.buf = b)
    BY <2>1 DEF FilledBuffers, Of
  \* The buffer at hand, and the filled ones without it.
  <2>3. Times(filled, Of(b)) + Holds(buffer, b) = Times(filled', Of(b)) + Holds(q, b)
        /\ Times(filled', Of(b)) \in Nat
    <3>1. CASE buffer.buf # NoBuffer
      BY <1>4, <1>n, <3>1 DEF ReadData, Reading
    <3>2. CASE buffer.buf = NoBuffer
      <4>1. filled # <<>> /\ filled' = Tail(filled) /\ q = Head(filled)
        BY <1>4, <3>2 DEF ReadData, Reading
      <4> HIDE DEF q
      <4>2. Times(filled, Of(b)) = Times(filled', Of(b)) + Holds(q, b)
        BY <4>1, <2>2, <1>t, TimesTail DEF Holds
      <4>3. Holds(buffer, b) = 0
        BY <3>2, <1>b DEF Holds
      <4>4. filled' \in Seq(FilledBuffers)
        BY <4>1, <1>t
      <4> QED
        <5>1. Times(filled', Of(b)) \in Nat /\ Holds(q, b) \in {0, 1}
          BY <4>4, TimesFinite DEF Holds
        <5> QED
          BY <4>2, <4>3, <5>1, <1>n
    <3> QED
      BY <3>1, <3>2
  \* It is kept in hand or goes back to the idle ones.
  <2>4. Times(idle', {b}) + Holds(buffer', b) = Times(idle, {b}) + Holds(q, b)
        /\ Times(idle', {b}) \in Nat
    <3>1. CASE q.size =< n
      <4>1. idle' = Append(idle, q.buf) /\ buffer' = Nothing
        BY <1>4, <3>1 DEF ReadData
      <4> HIDE DEF q
      <4>2. Times(idle', {b}) = Times(idle, {b}) + Holds(q, b)
        BY <4>1, <2>2, <1>t, TimesAppend DEF Holds
      <4>3. Holds(buffer', b) = 0
        BY <4>1, <1>b DEF Holds, Nothing
      <4> QED
        BY <4>2, <4>3, <1>n DEF Holds
    <3>2. CASE ~(q.size =< n)
      <4>1. idle' = idle /\ buffer' = Rest(q, n)
        BY <1>4, <3>2 DEF ReadData
      <4>2. q \in [buf : Buffers, offset : Lengths, size : Lengths, eos : BOOLEAN]
        BY <2>1 DEF FilledBuffers
      <4> HIDE DEF q
      <4>3. buffer'.buf = q.buf
        BY <4>1, <4>2 DEF Rest
      <4> QED
        BY <4>1, <4>3, <1>n DEF Holds
    <3> QED
      BY <3>1, <3>2
  <2> HIDE DEF q
  <2>5. Holds(buffer, b)' = Holds(buffer', b) /\ Holds(idler, b)' = Holds(idler, b)
        /\ Holds(proc, b)' = Holds(proc, b) /\ Holds(q, b) \in {0, 1} /\ Holds(buffer', b) \in {0, 1}
        /\ Times(available', {b}) = Times(available, {b})
    BY <2>0 DEF Holds
  <2> QED
    BY <2>0, <1>n, <2>3, <2>4, <2>5 DEF Once
<1>5. CASE SetStreamSource
  <2>1. /\ idle' = SetToSeq(Buffers) /\ available' = <<>> /\ filled' = <<>> /\ buffer' = Nothing
        /\ idler'.buf = NoBuffer /\ proc'.buf = NoBuffer
    BY <1>5 DEF SetStreamSource
  <2>2. Times(SetToSeq(Buffers), {b}) = 1
    BY TimesOfList, StreamConstants
  <2>3. Times(<<>>, {b}) = 0 /\ Times(<<>>, Of(b)) = 0
    BY TimesEmpty
  <2> QED
    BY <2>1, <2>2, <2>3, <1>b DEF Once, Holds, Nothing
<1>6. CASE Prepare \/ Play \/ Stop
  BY <1>6, <1>same DEF Prepare, Play, Stop, Advance
<1>7. ASSUME NEW next \in {"reset", "release"}, ResetBegin(next) PROVE Once(b)'
  BY <1>7, <1>same DEF ResetBegin
<1>8. CASE Api
  BY <1>8, <1>same DEF Api, ResetEnd, DropStream, JoinStream
<1>9. CASE UNCHANGED vars
  BY <1>9, <1>same DEF vars
<1> QED
  BY <1>1, <1>2, <1>3, <1>4, <1>5, <1>6, <1>7, <1>8, <1>9 DEF Next

LEMMA PartitionStep ==
  ASSUME IInv, [Next]_vars
  PROVE  BuffersPartition'
<1>1. TypeOK'
  BY TypeStep DEF IInv
<1>2. ASSUME Calm', source' = "live" PROVE \A b \in Buffers : Once(b)'
  BY <1>2, OnceStep
<1>3. (TypeOK => (BuffersPartition <=> ((Calm /\ source = "live") => \A b \in Buffers : Once(b))))'
  BY PartitionByTimes, PTL
<1> QED
  BY <1>1, <1>2, <1>3

LEMMA InvariantHolds == Spec => []IInv
<1>1. Init => IInv
  BY TypeInit, ControlInit, PartitionInit DEF IInv
<1>2. IInv /\ [Next]_vars => IInv'
  BY TypeStep, ControlStep, EndStep, PartitionStep DEF IInv
<1> QED
  BY <1>1, <1>2, PTL DEF Spec

\* No buffer is lost or used twice while a source lives, for any number of
\* buffers, chunks, sources and calls of the service.
THEOREM NoBufferLost == Spec => []BuffersPartition
<1>1. IInv => BuffersPartition
  BY DEF IInv, BuffersPartition
<1> QED
  BY <1>1, InvariantHolds, PTL

\* A stream whose end was read can be reset, released or replaced: the thread
\* that filled its buffers is gone and has to be joined only once.
THEOREM TakenDownSafely == Spec => PlayedOutIsSafe
<1>1. IInv /\ [Next]_vars => [receivedEos => Calm']_vars
  <2> SUFFICES ASSUME IInv, Next, receivedEos PROVE Calm'
    OBVIOUS
  <2>0. Calm /\ ProcGone /\ (stream => handle = "live")
    BY DEF IInv, Next, EndIsLast
  <2> USE DEF Calm, ProcGone, appVars, demuxVars, bufferVars, idlerVars, procVars, apiVars
  <2>1. CASE \E n \in {0} \cup Sizes : SendChunk(n)
    BY <2>0, <2>1 DEF SendChunk
  <2>2. CASE Idler \/ Proc
    BY <2>0, <2>2 DEF Idler, Proc, ProcCheck, ProcAddress, ProcFill, ProcQueue
  <2>3. CASE (\E n \in Sizes : ReadData(n)) \/ SetStreamSource
    BY <2>0, <2>3 DEF ReadData, SetStreamSource
  <2>4. CASE Prepare \/ Play \/ Stop \/ \E next \in {"reset", "release"} : ResetBegin(next)
    BY <2>0, <2>4 DEF Prepare, Play, Stop, Advance, ResetBegin
  <2>5. CASE Api
    BY <2>0, <2>5 DEF Api, ResetEnd, DropStream, JoinStream
  <2> QED
    BY <2>1, <2>2, <2>3, <2>4, <2>5 DEF Next
<1> QED
  BY <1>1, InvariantHolds, PTL DEF Spec, PlayedOutIsSafe

-----------------------------------------------------------------------------
(* Runs of consecutive bytes *)

LEMMA RunProperties ==
  ASSUME NEW a \in Nat, NEW b \in Nat, a =< b
  PROVE  /\ Run(a, b) \in Seq(Nat) /\ Len(Run(a, b)) = b - a
         /\ \A i \in 1 .. b - a : Run(a, b)[i] = a + i
         /\ Run(a, b) = <<>> <=> a = b
<1>1. b - a \in Nat
  OBVIOUS
<1>2. Run(a, b) \in [1 .. b - a -> Nat]
  BY <1>1 DEF Run
<1>3. Run(a, b) \in Seq(Nat) /\ Len(Run(a, b)) = b - a
  BY <1>1, <1>2
<1> QED
  BY <1>1, <1>3 DEF Run

LEMMA RunIs ==
  ASSUME NEW a \in Nat, NEW b \in Nat, a =< b, NEW s \in Seq(Nat), Len(s) = b - a,
         \A i \in 1 .. b - a : s[i] = a + i
  PROVE  s = Run(a, b)
<1>1. /\ Run(a, b) \in Seq(Nat) /\ Len(Run(a, b)) = Len(s)
      /\ \A i \in 1 .. Len(s) : s[i] = Run(a, b)[i]
  <2>1. /\ Run(a, b) \in Seq(Nat) /\ Len(Run(a, b)) = b - a
        /\ \A i \in 1 .. b - a : Run(a, b)[i] = a + i
    BY RunProperties
  <2> QED
    BY <2>1
<1> QED
  BY <1>1, SeqEqual

LEMMA RunJoin ==
  ASSUME NEW a \in Nat, NEW b \in Nat, NEW c \in Nat, a =< b, b =< c
  PROVE  Run(a, b) \o Run(b, c) = Run(a, c)
<1>1. /\ Run(a, b) \in Seq(Nat) /\ Len(Run(a, b)) = b - a
      /\ \A i \in 1 .. b - a : Run(a, b)[i] = a + i
  BY RunProperties
<1>2. /\ Run(b, c) \in Seq(Nat) /\ Len(Run(b, c)) = c - b
      /\ \A i \in 1 .. c - b : Run(b, c)[i] = b + i
  BY RunProperties
<1> DEFINE s == Run(a, b) \o Run(b, c)
<1>3. /\ s \in Seq(Nat) /\ Len(s) = Len(Run(a, b)) + Len(Run(b, c))
      /\ \A i \in 1 .. Len(Run(a, b)) + Len(Run(b, c)) :
           s[i] = IF i =< Len(Run(a, b)) THEN Run(a, b)[i] ELSE Run(b, c)[i - Len(Run(a, b))]
  BY <1>1, <1>2, ConcatProperties
<1> HIDE DEF s
<1>4. Len(s) = c - a
  BY <1>1, <1>2, <1>3
<1>5. ASSUME NEW i \in 1 .. c - a PROVE s[i] = a + i
  <2>1. s[i] = IF i =< b - a THEN Run(a, b)[i] ELSE Run(b, c)[i - (b - a)]
    BY <1>1, <1>2, <1>3
  <2>2. CASE i =< b - a
    BY <1>1, <2>1, <2>2
  <2>3. CASE i > b - a
    <3>1. i - (b - a) \in 1 .. c - b
      BY <2>3
    <3> QED
      BY <1>2, <2>1, <2>3, <3>1
  <2> QED
    BY <2>2, <2>3
<1>6. s = Run(a, c)
  BY <1>3, <1>4, <1>5, RunIs
<1> QED
  BY <1>6 DEF s

\* In memory m, behind offset o, lie the z bytes from a to b.
Holding(m, o, z, a, b) == SubSeq(m, o + 1, o + z) = Run(a, b)

\* Bytes that are held, cut after k of them.
LEMMA HoldingCut ==
  ASSUME NEW m \in Seq(Nat), NEW o \in Nat, NEW z \in Nat, NEW k \in 0 .. z,
         o + z =< Len(m), NEW a \in Nat, NEW b \in Nat, a =< b, Holding(m, o, z, a, b)
  PROVE  z = b - a /\ Holding(m, o, k, a, a + k) /\ Holding(m, o + k, z - k, a + k, b)
<1>0. SubSeq(m, o + 1, o + z) = Run(a, b)
  BY DEF Holding
<1> USE <1>0
<1>1. \A i \in 1 .. Len(m) : m[i] \in Nat
  OBVIOUS
<1>2. \A i \in o + 1 .. o + z : m[i] \in Nat
  BY <1>1
<1>3. /\ Len(SubSeq(m, o + 1, o + z)) = z
      /\ \A i \in 1 .. z : SubSeq(m, o + 1, o + z)[i] = m[o + i]
  <2>1. /\ Len(SubSeq(m, o + 1, o + z)) = IF o + 1 <= o + z THEN o + z - (o + 1) + 1 ELSE 0
        /\ \A i \in 1 .. o + z - (o + 1) + 1 : SubSeq(m, o + 1, o + z)[i] = m[o + 1 + i - 1]
    BY <1>2, SubSeqProperties
  <2>2. o + z - (o + 1) + 1 = z /\ \A i \in 1 .. z : o + 1 + i - 1 = o + i
    OBVIOUS
  <2> QED
    BY <2>1, <2>2
<1>4. z = b - a
  BY <1>3, RunProperties
<1>5. \A i \in 1 .. z : m[o + i] = a + i
  <2>1. \A i \in 1 .. b - a : Run(a, b)[i] = a + i
    BY RunProperties
  <2> QED
    BY <1>3, <1>4, <2>1
<1>6. SubSeq(m, o + 1, o + k) = Run(a, a + k)
  <2> DEFINE s == SubSeq(m, o + 1, o + k)
  <2>1. \A i \in o + 1 .. o + k : m[i] \in Nat
    BY <1>2
  <2>2. /\ s \in Seq(Nat) /\ Len(s) = IF o + 1 <= o + k THEN o + k - (o + 1) + 1 ELSE 0
        /\ \A i \in 1 .. o + k - (o + 1) + 1 : s[i] = m[o + 1 + i - 1]
    BY <2>1, SubSeqProperties
  <2>3. /\ o + k - (o + 1) + 1 = k /\ a + k - a = k /\ a =< a + k /\ a + k \in Nat
        /\ \A i \in 1 .. k : o + 1 + i - 1 = o + i /\ i \in 1 .. z
    OBVIOUS
  <2> HIDE DEF s
  <2>4. Len(s) = a + k - a
    BY <2>2, <2>3
  <2>5. \A i \in 1 .. a + k - a : s[i] = a + i
    BY <1>5, <2>2, <2>3
  <2> DEFINE e == a + k
  <2>6. e \in Nat /\ a =< e /\ Len(s) = e - a /\ \A i \in 1 .. e - a : s[i] = a + i
    BY <2>3, <2>4, <2>5
  <2> HIDE DEF e
  <2>7. s = Run(a, e)
    BY <2>2, <2>6, RunIs
  <2> QED
    BY <2>7 DEF s, e
<1>7. SubSeq(m, o + k + 1, o + z) = Run(a + k, b)
  <2> DEFINE s == SubSeq(m, o + k + 1, o + z)
             e == a + k
  <2>1. \A i \in o + k + 1 .. o + z : m[i] \in Nat
    BY <1>2
  <2>2. o + k + 1 \in Int /\ o + z \in Int
    OBVIOUS
  <2>3. /\ s \in Seq(Nat) /\ Len(s) = IF o + k + 1 <= o + z THEN o + z - (o + k + 1) + 1 ELSE 0
        /\ \A i \in 1 .. o + z - (o + k + 1) + 1 : s[i] = m[o + k + 1 + i - 1]
    BY <2>1, <2>2, SubSeqProperties
  <2>4. o + z - (o + k + 1) + 1 = z - k /\ b - e = z - k /\ e =< b /\ e \in Nat
    BY <1>4
  <2>5. ASSUME NEW i \in 1 .. z - k PROVE s[i] = e + i
    <3>1. o + k + 1 + i - 1 = o + (k + i) /\ k + i \in 1 .. z /\ a + (k + i) = e + i
      OBVIOUS
    <3>2. s[i] = m[o + (k + i)]
      BY <2>3, <2>4, <3>1
    <3>3. m[o + (k + i)] = a + (k + i)
      BY <1>5, <3>1
    <3> QED
      BY <3>1, <3>2, <3>3
  <2> HIDE DEF s, e
  <2>6. Len(s) = b - e /\ \A i \in 1 .. b - e : s[i] = e + i
    <3>1. Len(s) = z - k
      BY <2>3
    <3> QED
      BY <2>4, <2>5, <3>1
  <2>7. s = Run(e, b)
    BY <2>3, <2>4, <2>6, RunIs
  <2> QED
    BY <2>7 DEF s, e
<1>8. o + k + (z - k) = o + z
  OBVIOUS
<1> QED
  BY <1>4, <1>6, <1>7, <1>8 DEF Holding

-----------------------------------------------------------------------------
(* Sequences of runs *)

LEMMA TilesNone ==
  ASSUME NEW a \in Nat
  PROVE  Tiles(<<>>, a, a)
<1> DEFINE cut == [i \in 1 .. 1 |-> a]
<1>1. cut \in [1 .. 1 -> a .. a] /\ cut[1] = a
  OBVIOUS
<1>2. \A i, j \in 1 .. 1 : i =< j => cut[i] =< cut[j]
  OBVIOUS
<1>3. Len(<<>>) = 0 /\ Len(<<>>) + 1 = 1 /\ 1 .. Len(<<>>) = {}
  OBVIOUS
<1> HIDE DEF cut
<1> QED
  BY <1>1, <1>2, <1>3 DEF Tiles

LEMMA TilesEmpty ==
  ASSUME NEW a, NEW b, Tiles(<<>>, a, b)
  PROVE  a = b
BY DEF Tiles

LEMMA TilesAppend ==
  ASSUME NEW S, NEW s \in Seq(S), NEW a \in Nat, NEW b \in Nat, NEW c \in Nat,
         a =< b, b =< c, Tiles(s, a, b), NEW e \in S, e = Run(b, c)
  PROVE  Tiles(Append(s, e), a, c)
<1> DEFINE n == Len(s)
<1>1. PICK cut \in [1 .. n + 1 -> a .. b] :
        /\ cut[1] = a /\ cut[n + 1] = b
        /\ \A i, j \in 1 .. n + 1 : i =< j => cut[i] =< cut[j]
        /\ \A i \in 1 .. n : s[i] = Run(cut[i], cut[i + 1])
  BY DEF Tiles
<1> DEFINE new == [i \in 1 .. n + 2 |-> IF i = n + 2 THEN c ELSE cut[i]]
<1>2. n \in Nat /\ Len(Append(s, e)) = n + 1 /\ Append(s, e)[n + 1] = e
      /\ \A i \in 1 .. n : Append(s, e)[i] = s[i]
  OBVIOUS
<1> HIDE DEF n
<1>3. \A i \in 1 .. n + 1 : cut[i] \in a .. b
  OBVIOUS
<1>4. new \in [1 .. n + 2 -> a .. c]
  BY <1>2, <1>3
<1>5. new[1] = a /\ new[n + 2] = c /\ new[n + 1] = b
  BY <1>1, <1>2
<1>6. \A i, j \in 1 .. n + 2 : i =< j => new[i] =< new[j]
  BY <1>1, <1>2, <1>3
<1>7. \A i \in 1 .. n : new[i] = cut[i] /\ new[i + 1] = cut[i + 1]
  BY <1>2
<1> HIDE DEF new
<1>8. \A i \in 1 .. n + 1 : Append(s, e)[i] = Run(new[i], new[i + 1])
  <2> SUFFICES ASSUME NEW i \in 1 .. n + 1 PROVE Append(s, e)[i] = Run(new[i], new[i + 1])
    OBVIOUS
  <2>1. CASE i \in 1 .. n
    BY <1>1, <1>2, <1>7, <2>1
  <2>2. CASE i = n + 1
    <3>1. i + 1 = n + 2
      BY <1>2, <2>2
    <3> QED
      BY <1>2, <1>5, <2>2, <3>1
  <2> QED
    BY <1>2, <2>1, <2>2
<1> DEFINE t == Append(s, e)
<1>9. /\ Len(t) = n + 1 /\ Len(t) + 1 = n + 2
      /\ \A i \in 1 .. n + 1 : t[i] = Run(new[i], new[i + 1])
  BY <1>2, <1>8
<1> HIDE DEF t
<1>10. Tiles(t, a, c)
  BY <1>4, <1>5, <1>6, <1>9 DEF Tiles
<1> QED
  BY <1>10 DEF t

LEMMA TilesTail ==
  ASSUME NEW S, NEW s \in Seq(S), s # <<>>, NEW a \in Nat, NEW b \in Nat, Tiles(s, a, b)
  PROVE  \E m \in a .. b : Head(s) = Run(a, m) /\ Tiles(Tail(s), m, b)
<1> DEFINE n == Len(s)
<1>1. PICK cut \in [1 .. n + 1 -> a .. b] :
        /\ cut[1] = a /\ cut[n + 1] = b
        /\ \A i, j \in 1 .. n + 1 : i =< j => cut[i] =< cut[j]
        /\ \A i \in 1 .. n : s[i] = Run(cut[i], cut[i + 1])
  BY DEF Tiles
<1> DEFINE new == [i \in 1 .. n |-> cut[i + 1]]
<1>2. n \in Nat \ {0} /\ Len(Tail(s)) = n - 1 /\ Head(s) = s[1]
      /\ \A i \in 1 .. n - 1 : Tail(s)[i] = s[i + 1]
  OBVIOUS
<1> HIDE DEF n
<1>3. \A i \in 1 .. n + 1 : cut[i] \in a .. b
  OBVIOUS
<1>4. Head(s) = Run(a, cut[2]) /\ cut[2] \in a .. b
  <2>1. 1 \in 1 .. n /\ 2 \in 1 .. n + 1 /\ 1 + 1 = 2
    BY <1>2
  <2> QED
    BY <1>1, <1>2, <1>3, <2>1
<1>5. \A i \in 1 .. n : i + 1 \in 1 .. n + 1 /\ 2 \in 1 .. n + 1 /\ 2 =< i + 1
  BY <1>2
<1>6. \A i \in 1 .. n : cut[i + 1] \in cut[2] .. b
  BY <1>1, <1>3, <1>4, <1>5
<1>7. new \in [1 .. n -> cut[2] .. b]
  BY <1>6
<1>8. new[1] = cut[2] /\ new[n] = b
  BY <1>1, <1>2
<1>9. \A i, j \in 1 .. n : i =< j => new[i] =< new[j]
  BY <1>1, <1>5
<1>10. \A i \in 1 .. n - 1 : Tail(s)[i] = Run(new[i], new[i + 1])
  <2> SUFFICES ASSUME NEW i \in 1 .. n - 1 PROVE Tail(s)[i] = Run(new[i], new[i + 1])
    OBVIOUS
  <2>1. i \in 1 .. n /\ i + 1 \in 1 .. n
    BY <1>2
  <2>2. new[i] = cut[i + 1] /\ new[i + 1] = cut[i + 1 + 1]
    BY <2>1
  <2> QED
    BY <1>1, <1>2, <2>1, <2>2
<1> HIDE DEF new
<1>11. Len(Tail(s)) + 1 = n
  BY <1>2
<1>12. Tiles(Tail(s), cut[2], b)
  BY <1>2, <1>7, <1>8, <1>9, <1>10, <1>11 DEF Tiles
<1> QED
  BY <1>4, <1>12

-----------------------------------------------------------------------------
(* The stream has no gap *)

LEMMA OnlyOne ==
  ASSUME NEW a \in Nat, NEW b \in Nat, NEW c \in Nat, NEW d \in Nat, NEW e \in Nat,
         a + b + c + d + 1 + e = 1
  PROVE  c = 0 /\ e = 0
OBVIOUS

\* The buffer streamProcess fills is none that waits to be read.
LEMMA FillsAlone ==
  ASSUME IInv, Calm, source = "live", proc.buf \in Buffers
  PROVE  /\ \A i \in 1 .. Len(filled) : filled[i].buf # proc.buf
         /\ buffer.buf # proc.buf
<1> DEFINE b == proc.buf
<1>0. TypeOK /\ Once(b)
  BY PartitionByTimes DEF IInv
<1>1. filled \in Seq(FilledBuffers) /\ idle \in Seq(Buffers) /\ available \in Seq(Buffers)
  BY <1>0 DEF TypeOK
<1>2. /\ Times(idle, {b}) \in Nat /\ Times(available, {b}) \in Nat /\ Times(filled, Of(b)) \in Nat
      /\ Holds(idler, b) \in {0, 1} /\ Holds(proc, b) = 1 /\ Holds(buffer, b) \in {0, 1}
  BY <1>1, TimesFinite DEF Holds
<1>3. Times(filled, Of(b)) = 0 /\ Holds(buffer, b) = 0
  <2> DEFINE i == Times(idle, {b})
             a == Times(available, {b})
             f == Times(filled, Of(b))
             d == Holds(idler, b)
             p == Holds(proc, b)
             u == Holds(buffer, b)
  <2>1. i + a + f + d + p + u = 1
    BY <1>0 DEF Once
  <2>2. i \in Nat /\ a \in Nat /\ f \in Nat /\ d \in Nat /\ p = 1 /\ u \in Nat
    BY <1>2
  <2> HIDE DEF i, a, f, d, p, u
  <2>3. i + a + f + d + 1 + u = 1
    BY <2>1, <2>2
  <2> QED
    BY <2>2, <2>3, OnlyOne DEF f, u
<1>4. IsFiniteSet({i \in DOMAIN filled : filled[i] \in Of(b)})
  BY <1>1, TimesFinite
<1>5. {i \in DOMAIN filled : filled[i] \in Of(b)} = {}
  BY <1>3, <1>4, FS_EmptySet DEF Times
<1>6. \A i \in 1 .. Len(filled) : i \in DOMAIN filled /\ filled[i] \in FilledBuffers
  BY <1>1
<1> QED
  BY <1>3, <1>5, <1>6 DEF Of, Holds, b

\* What is at hand for the demuxer, and what lies behind it.
FilledAfter == IF buffer.buf # NoBuffer THEN filled ELSE Tail(filled)
BytesAfter  == [i \in 1 .. Len(FilledAfter) |-> Content(FilledAfter[i])]

BehindReading(r, f, c) ==
  /\ Content(Reading) = Run(Len(received), r)
  /\ Tiles(BytesAfter, r, f)
  /\ IF proc.pc = "queue" THEN SubSeq(memory[proc.buf], 1, proc.readLen) = Run(f, c)
     ELSE c = f
  /\ Tiles(surface, c, sent)

LEMMA ReadingStretch ==
  ASSUME TypeOK, Flows, buffer.buf # NoBuffer \/ filled # <<>>
  PROVE  \E r, f, c \in Len(received) .. sent : r =< f /\ f =< c /\ BehindReading(r, f, c)
<1>1. PICK r, f, c \in Len(received) .. sent : r =< f /\ f =< c /\ Stretches(r, f, c)
  BY DEF Flows
<1>t. /\ Len(received) \in Nat /\ sent \in Nat /\ filled \in Seq(FilledBuffers)
      /\ buffer \in FilledBuffers \cup {Nothing} /\ NoBuffer \notin Buffers
  BY StreamConstants DEF TypeOK
<1>n. buffer = Nothing <=> buffer.buf = NoBuffer
  BY <1>t DEF Nothing, FilledBuffers
<1>2. CASE buffer.buf # NoBuffer
  <2>1. Reading = buffer /\ FilledAfter = filled /\ BytesAfter = FilledBytes
    BY <1>2 DEF Reading, FilledAfter, BytesAfter, FilledBytes
  <2>2. BehindReading(r, f, c)
    BY <1>1, <1>2, <1>n, <2>1 DEF Stretches, BehindReading
  <2> QED
    BY <1>1, <2>2
<1>3. CASE buffer.buf = NoBuffer
  <2>0. /\ filled # <<>> /\ Reading = filled[1] /\ FilledAfter = Tail(filled)
        /\ Len(filled) \in Nat \ {0} /\ Len(Tail(filled)) = Len(filled) - 1
        /\ \A i \in 1 .. Len(filled) - 1 : Tail(filled)[i] = filled[i + 1]
    BY <1>3, <1>t DEF Reading, FilledAfter
  <2> DEFINE T == {Content(filled[i]) : i \in 1 .. Len(filled)}
  <2>1. FilledBytes \in [1 .. Len(filled) -> T]
    BY DEF FilledBytes
  <2>2. FilledBytes \in Seq(T) /\ Len(FilledBytes) = Len(filled) /\ FilledBytes # <<>>
    <3> HIDE DEF T
    <3>1. FilledBytes \in Seq(T) /\ Len(FilledBytes) = Len(filled)
      BY <2>0, <2>1
    <3> QED
      BY <2>0, <3>1
  <2>3. Head(FilledBytes) = Content(Reading)
    BY <2>0, <2>2 DEF FilledBytes
  <2>4. Tail(FilledBytes) = BytesAfter
    <3>1. /\ Tail(FilledBytes) \in Seq(T) /\ Len(Tail(FilledBytes)) = Len(filled) - 1
          /\ \A i \in 1 .. Len(filled) - 1 : Tail(FilledBytes)[i] = FilledBytes[i + 1]
      BY <2>0, <2>2
    <3>2. \A i \in 1 .. Len(filled) - 1 : FilledBytes[i + 1] = Content(filled[i + 1])
      BY <2>0 DEF FilledBytes
    <3>3. BytesAfter = [i \in 1 .. Len(filled) - 1 |-> Content(filled[i + 1])]
      BY <2>0 DEF BytesAfter
    <3> DEFINE u == Tail(FilledBytes)
               cont(i) == Content(filled[i + 1])
    <3>0. \A v, l : v \in Seq(T) /\ l \in Nat /\ Len(v) = l => v = [i \in 1 .. l |-> v[i]]
      OBVIOUS
    <3>4. u = [i \in 1 .. Len(filled) - 1 |-> u[i]]
      <4>1. Len(filled) - 1 \in Nat /\ u \in Seq(T) /\ Len(u) = Len(filled) - 1
        BY <2>0, <3>1
      <4> HIDE DEF u, T
      <4> QED
        BY <3>0, <4>1
    <3>5. \A i \in 1 .. Len(filled) - 1 : u[i] = cont(i)
      BY <3>1, <3>2
    <3> HIDE DEF u, cont
    <3>6. u = [i \in 1 .. Len(filled) - 1 |-> cont(i)]
      BY <3>4, <3>5
    <3> QED
      BY <3>3, <3>6 DEF u, cont
  <2>5. r = Len(received) /\ Tiles(FilledBytes, r, f)
    BY <1>1, <1>3, <1>n DEF Stretches
  <2>6. r \in Nat /\ f \in Nat
    BY <1>t
  <2> HIDE DEF T
  <2>7. PICK m \in r .. f : Head(FilledBytes) = Run(r, m) /\ Tiles(Tail(FilledBytes), m, f)
    BY <2>2, <2>5, <2>6, TilesTail
  <2>8. m \in Len(received) .. sent /\ m =< f
    BY <1>t, <2>5, <2>6, <2>7
  <2>9. BehindReading(m, f, c)
    BY <1>1, <2>3, <2>4, <2>5, <2>7 DEF Stretches, BehindReading
  <2> QED
    BY <1>1, <2>8, <2>9
<1> QED
  BY <1>2, <1>3

\* What a read delivers: the next bytes, and the end only after the last.
LEMMA ReadDelivers ==
  ASSUME TypeOK, Flows, EndsOnce, EndIsLast, receivedEos \in BOOLEAN, NEW n \in Sizes, ReadData(n)
  PROVE  \E k \in 0 .. sent - Len(received) :
           /\ received' = received \o Run(Len(received), Len(received) + k)
           /\ received' = Run(0, Len(received) + k) /\ Len(received') = Len(received) + k
           /\ \/ k > 0 /\ receivedEos' = receivedEos
              \/ k = 0 /\ receivedEos' = TRUE /\ ~receivedEos /\ ended /\ Len(received) = sent
                 /\ filled' = <<>> /\ surface' = <<>> /\ buffer' = Nothing
           /\ Flows'
<1> DEFINE q == Reading
           k == IF q.size =< n THEN q.size ELSE n
           L == Len(received)
<1>0. /\ buffer.buf # NoBuffer \/ filled # <<>>
      /\ received' = received \o SubSeq(memory[q.buf], q.offset + 1, q.offset + k)
      /\ receivedEos' = (receivedEos \/ (q.eos /\ q.size = 0))
      /\ buffer' = IF q.size =< n THEN Nothing ELSE Rest(q, k)
      /\ filled' = FilledAfter
      /\ UNCHANGED <<sent, ended, surface, memory, proc>>
  BY DEF ReadData, FilledAfter, appVars, procVars
<1>t. /\ L \in Nat /\ sent \in Nat /\ filled \in Seq(FilledBuffers) /\ memory \in [Buffers -> Memory]
      /\ buffer \in FilledBuffers \cup {Nothing} /\ NoBuffer \notin Buffers /\ n \in Nat \ {0}
      /\ received \in Seq(Nat)
  BY StreamConstants DEF TypeOK
<1>q. q \in FilledBuffers
  BY <1>0, ReadingType
<1>qr. q \in [buf : Buffers, offset : Lengths, size : Lengths, eos : BOOLEAN]
  BY <1>q DEF FilledBuffers
<1>qt. /\ q.buf \in Buffers /\ q.offset \in Nat /\ q.size \in Nat /\ q.offset + q.size =< BufferSize
       /\ BufferSize \in Nat
  BY <1>q, StreamConstants DEF FilledBuffers, Lengths
<1>m. memory[q.buf] \in Seq(Nat) /\ Len(memory[q.buf]) = BufferSize
  BY <1>t, <1>qt DEF Memory
<1>1. PICK r, f, c \in L .. sent : r =< f /\ f =< c /\ BehindReading(r, f, c)
  BY <1>0, ReadingStretch
<1>k. k \in 0 .. q.size /\ (q.size > n => k = n) /\ (q.size =< n => k = q.size)
  BY <1>t, <1>qt
<1>rest. q.size > n => /\ Rest(q, k).buf = q.buf /\ Rest(q, k).offset = q.offset + k
                       /\ Rest(q, k).size = q.size - k /\ Rest(q, k) # Nothing
  <2>1. Rest(q, k).buf = q.buf /\ Rest(q, k).offset = q.offset + k /\ Rest(q, k).size = q.size - k
    BY <1>qr DEF Rest
  <2> QED
    BY <2>1, <1>qt, <1>t DEF Nothing
<1> HIDE DEF q, k, L
<1>2. Content(q) = Run(L, r)
  BY <1>1 DEF BehindReading, q, L
<1>3. /\ q.size = r - L
      /\ SubSeq(memory[q.buf], q.offset + 1, q.offset + k) = Run(L, L + k)
      /\ SubSeq(memory[q.buf], q.offset + k + 1, q.offset + q.size) = Run(L + k, r)
  <2>1. SubSeq(memory[q.buf], q.offset + 1, q.offset + q.size) = Run(L, r)
    BY <1>2 DEF Content
  <2> DEFINE m == memory[q.buf]
             o == q.offset
             z == q.size
  <2>2. /\ m \in Seq(Nat) /\ o \in Nat /\ z \in Nat /\ k \in 0 .. z /\ o + z =< Len(m)
        /\ L \in Nat /\ r \in Nat /\ L =< r /\ Holding(m, o, z, L, r)
    BY <1>t, <1>qt, <1>m, <1>k, <2>1 DEF Holding
  <2> HIDE DEF m, o, z
  <2>3. z = r - L /\ Holding(m, o, k, L, L + k) /\ Holding(m, o + k, z - k, L + k, r)
    BY <2>2, HoldingCut
  <2>4. o + k + (z - k) = o + z
    BY <2>2
  <2> QED
    BY <2>3, <2>4 DEF Holding, m, o, z
<1>4. k \in 0 .. sent - L /\ L + k =< r /\ k \in Nat /\ L + k \in Nat /\ L + k =< sent
  BY <1>t, <1>qt, <1>k, <1>3
<1>5. received' = received \o Run(L, L + k)
  BY <1>0, <1>3
<1>6. received' = Run(0, L + k)
  <2>1. received = Run(0, L)
    BY DEF Flows, L
  <2>2. 0 =< L /\ L =< L + k
    BY <1>t, <1>4
  <2> QED
    BY <1>5, <1>4, <1>t, <2>1, <2>2, RunJoin
<1>7. Len(received') = L + k
  <2>1. Len(Run(0, L + k)) = L + k - 0
    BY <1>4, RunProperties
  <2> QED
    BY <1>4, <1>6, <2>1
<1>8. \/ k > 0 /\ receivedEos' = receivedEos
      \/ k = 0 /\ receivedEos' = TRUE /\ ~receivedEos /\ ended /\ L = sent
         /\ filled' = <<>> /\ surface' = <<>> /\ buffer' = Nothing
  <2>1. CASE q.size > 0
    <3>1. k > 0
      BY <1>k, <1>t, <1>qt, <2>1
    <3>2. ~(q.size = 0)
      BY <1>qt, <2>1
    <3>3. receivedEos' = receivedEos
      BY <1>0, <3>2, Zenon
    <3> QED
      BY <3>1, <3>3, Zenon
  <2>2. CASE q.size = 0
    <3>1. buffer = Nothing /\ buffer.buf = NoBuffer
      <4>1. CASE buffer.buf # NoBuffer
        BY <4>1, <2>2 DEF EndIsLast, q, Reading, Nothing
      <4> QED
        BY <4>1, <1>t DEF FilledBuffers, Nothing
    <3>2. q = filled[1] /\ 1 \in 1 .. Len(filled) /\ filled' = Tail(filled) /\ filled # <<>>
      BY <1>0, <1>t, <3>1 DEF q, Reading, FilledAfter
    <3>3. filled[1].eos /\ 1 = Len(filled) /\ surface = <<>> /\ ended /\ proc.pc = "done"
      BY <2>2, <3>2 DEF EndsOnce, EndIsLast
    <3>4. ~receivedEos
      BY <3>2 DEF EndsOnce
    <3>5. filled' = <<>>
      BY <1>t, <3>2, <3>3
    <3>6. k = 0 /\ receivedEos' = TRUE /\ buffer' = Nothing
      <4>1. k = 0 /\ 0 =< n
        BY <1>k, <1>t, <2>2
      <4>2. q.eos
        BY <3>2, <3>3
      <4>3. receivedEos' = TRUE
        BY <1>0, <2>2, <4>2, Zenon
      <4> QED
        BY <1>0, <2>2, <4>1, <4>3, Zenon
    <3>7. BytesAfter = <<>>
      BY <1>0, <3>5 DEF BytesAfter
    <3>8. r = f /\ c = f /\ c = sent
      BY <1>1, <3>3, <3>7, TilesEmpty DEF BehindReading
    <3>9. L = sent
      BY <1>3, <1>t, <2>2, <3>8
    <3>10. surface' = <<>>
      BY <1>0, <3>3
    <3> QED
      BY <3>3, <3>4, <3>5, <3>6, <3>9, <3>10, Zenon
  <2>3. q.size > 0 \/ q.size = 0
    BY <1>qt
  <2> QED
    BY <2>1, <2>2, <2>3, Zenon
<1>9. Flows'
  <2> DEFINE s == IF q.size =< n THEN L + k ELSE r
  <2>1. s = r /\ s \in L + k .. sent /\ f \in L + k .. sent /\ c \in L + k .. sent
    <3>1. L \in Nat /\ r \in L .. sent /\ f \in L .. sent /\ c \in L .. sent
          /\ r =< f /\ f =< c
      BY <1>t, <1>1 DEF L
    <3>2. q.size =< n => L + k = r
      BY <1>t, <1>qt, <1>k, <1>3, <3>1
    <3>3. s = r
      BY <3>2
    <3> QED
      BY <1>4, <1>t, <3>1, <3>3
  <2>2. IF buffer' = Nothing THEN r = Len(received') ELSE Content(buffer)' = Run(Len(received'), r)
    <3>1. CASE q.size =< n
      BY <1>0, <1>7, <2>1, <3>1
    <3>2. CASE q.size > n
      <4>1. buffer' = Rest(q, k) /\ buffer' # Nothing
        BY <1>0, <1>rest, <1>t, <1>qt, <3>2
      <4>2. Content(buffer)' = SubSeq(memory[q.buf], q.offset + k + 1, q.offset + k + (q.size - k))
        BY <1>0, <1>rest, <3>2, <4>1 DEF Content
      <4>3. q.offset + k + (q.size - k) = q.offset + q.size
        BY <1>qt, <1>4
      <4> QED
        BY <1>3, <1>7, <4>1, <4>2, <4>3
    <3> QED
      BY <1>t, <1>qt, <3>1, <3>2
  <2>3. FilledBytes' = BytesAfter
    BY <1>0 DEF FilledBytes, BytesAfter, Content
  <2>4. /\ Tiles(FilledBytes', r, f)
        /\ IF proc'.pc = "queue" THEN SubSeq(memory'[proc'.buf], 1, proc'.readLen) = Run(f, c)
           ELSE c = f
        /\ Tiles(surface', c, sent')
    BY <1>0, <1>1, <2>3 DEF BehindReading
  <2>5. Stretches(r, f, c)'
    BY <2>2, <2>4 DEF Stretches
  <2>6. received' = Run(0, Len(received')) /\ Len(received') =< sent'
    BY <1>0, <1>4, <1>6, <1>7
  <2>7. r \in Len(received') .. sent' /\ f \in Len(received') .. sent' /\ c \in Len(received') .. sent'
    BY <1>0, <1>7, <2>1
  <2> HIDE DEF s
  <2> QED
    BY <1>1, <2>5, <2>6, <2>7 DEF Flows
<1> QED
  BY <1>4, <1>5, <1>6, <1>7, <1>8, <1>9 DEF L

\* While a player that may read refuses no Stop, the stream stays intact.
LEMMA IntactStep ==
  ASSUME StopsAccepted, IInv, Intact, receivedEos \in BOOLEAN, [Next]_vars, Calm'
  PROVE  Intact'
<1>0. Calm /\ Control /\ EndIsLast /\ TypeOK /\ TypeOK'
  BY TypeStep DEF Next, vars, Calm, IInv
<1>f. Flowing => threadRuning /\ Flows /\ EndsOnce /\ source = "live"
  BY <1>0 DEF Intact, Flowing, Control
<1>t. /\ sent \in Nat /\ surface \in Seq(Chunks) /\ memory \in [Buffers -> Memory]
      /\ filled \in Seq(FilledBuffers) /\ buffer \in FilledBuffers \cup {Nothing}
      /\ Len(received) \in Nat
  BY <1>0 DEF TypeOK
<1>p. proc = [pc |-> proc.pc, buf |-> proc.buf, readLen |-> proc.readLen] /\ proc.readLen \in Lengths
  BY <1>0 DEF TypeOK
<1> USE DEF appVars, demuxVars, bufferVars, idlerVars, procVars, apiVars
<1>same. ASSUME Flowing' => Flowing,
                UNCHANGED <<sent, ended, received, receivedEos, surface, memory, filled, buffer,
                            threadRuning>>,
                UNCHANGED proc \/ (proc.pc # "queue" /\ proc'.pc # "queue")
         PROVE  Intact'
  <2> SUFFICES ASSUME Flowing' PROVE threadRuning' /\ Flows' /\ EndsOnce'
    BY DEF Intact
  <2>1. threadRuning /\ Flows /\ EndsOnce
    BY <1>f, <1>same
  <2>2. PICK r, f, c \in Len(received) .. sent : r =< f /\ f =< c /\ Stretches(r, f, c)
    BY <2>1 DEF Flows
  <2>3. FilledBytes' = FilledBytes /\ Content(buffer)' = Content(buffer)
    BY <1>same DEF FilledBytes, Content
  <2>4. Stretches(r, f, c)'
    BY <1>same, <2>2, <2>3 DEF Stretches
  <2>5. Flows'
    BY <1>same, <2>1, <2>2, <2>4 DEF Flows
  <2> QED
    BY <1>same, <2>1, <2>5 DEF EndsOnce
<1>1. ASSUME NEW n \in {0} \cup Sizes, SendChunk(n) PROVE Intact'
  <2> SUFFICES ASSUME Flowing' PROVE threadRuning' /\ Flows' /\ EndsOnce'
    BY DEF Intact
  <2> DEFINE e == [i \in 1 .. n |-> sent + i]
             total == sent + n
  <2>0. /\ ~ended /\ surface' = Append(surface, e) /\ sent' = total /\ ended' = (n = 0)
        /\ UNCHANGED <<received, receivedEos, memory, filled, buffer, threadRuning, proc, player>>
    BY <1>1 DEF SendChunk
  <2>1. threadRuning /\ Flows /\ EndsOnce
    BY <1>f, <2>0 DEF Flowing
  <2>n. n \in Nat /\ total \in Nat /\ sent =< total
    BY <1>t, StreamConstants
  <2>e. e \in Chunks /\ e = Run(sent, total)
    <3>1. total - sent = n
      BY <1>t, <2>n
    <3> QED
      BY <1>t, <3>1, ChunkFits DEF Run
  <2>2. PICK r, f, c \in Len(received) .. sent : r =< f /\ f =< c /\ Stretches(r, f, c)
    BY <2>1 DEF Flows
  <2>3. FilledBytes' = FilledBytes /\ Content(buffer)' = Content(buffer)
    BY <2>0 DEF FilledBytes, Content
  <2> HIDE DEF e, total
  <2>4. c \in Nat /\ c =< sent /\ Tiles(surface, c, sent)
    BY <1>t, <2>2 DEF Stretches
  <2>5. Tiles(surface', c, total)
    BY <1>t, <2>0, <2>n, <2>e, <2>4, TilesAppend
  <2>6. Stretches(r, f, c)'
    BY <2>0, <2>2, <2>3, <2>5 DEF Stretches
  <2>7. r \in Len(received) .. total /\ f \in Len(received) .. total /\ c \in Len(received) .. total
    BY <1>t, <2>n
  <2>8. Flows'
    BY <1>t, <2>0, <2>1, <2>2, <2>6, <2>7, <2>n DEF Flows
  <2>9. EndsOnce'
    <3>1. /\ \A i \in 1 .. Len(surface) : surface[i] # <<>>
          /\ ~(proc.pc = "queue" /\ proc.readLen = 0) /\ ~receivedEos
          /\ \A i \in 1 .. Len(filled) : ~filled[i].eos /\ ~(filled[i].size = 0)
      BY <2>0, <2>1 DEF EndsOnce
    <3>2. /\ Len(surface') = Len(surface) + 1 /\ surface'[Len(surface) + 1] = e
          /\ \A i \in 1 .. Len(surface) : surface'[i] = surface[i]
      BY <1>t, <2>0, <2>e
    <3>3. e = <<>> => n = 0
      BY <2>e, <2>n, <1>t, RunProperties DEF total
    <3>4. e = <<>> => ended'
      BY <2>0, <3>3
    <3>5. ASSUME NEW i \in 1 .. Len(surface'), surface'[i] = <<>> PROVE i = Len(surface') /\ ended'
      BY <1>t, <3>1, <3>2, <3>4, <3>5
    <3> QED
      BY <2>0, <3>1, <3>5 DEF EndsOnce
  <2> QED
    BY <2>0, <2>1, <2>8, <2>9
<1>2. CASE Idler
  BY <1>2, <1>same DEF Idler, IdlerTake, IdlerOffer, IdlerExit, Flowing
<1>3. CASE Proc
  <2>0. UNCHANGED <<sent, ended, received, receivedEos, buffer, threadRuning, player>>
    BY <1>3 DEF Proc
  <2> SUFFICES ASSUME Flowing' PROVE Intact'
    BY DEF Intact
  <2>l. threadRuning /\ Flows /\ EndsOnce /\ source = "live"
    BY <1>f, <2>0 DEF Flowing
  <2>2. PICK r, f, c \in Len(received) .. sent : r =< f /\ f =< c /\ Stretches(r, f, c)
    BY <2>l DEF Flows
  <2>n. r \in Nat /\ f \in Nat /\ c \in Nat
    BY <1>t
  <2>3. CASE ProcCheck \/ ProcAddress
    <3>1. /\ proc.pc # "queue" /\ proc'.pc # "queue"
          /\ UNCHANGED <<surface, memory, filled>>
      BY <1>p, <2>3, <2>l DEF ProcCheck, ProcAddress
    <3> QED
      BY <1>same, <2>0, <3>1 DEF Flowing
  <2>4. CASE ProcFill
    <3> DEFINE chunk == Head(surface)
    <3>0. /\ proc.pc = "fill" /\ surface # <<>> /\ UNCHANGED filled /\ surface' = Tail(surface)
          /\ memory' = [memory EXCEPT ![proc.buf] = Overwrite(memory[proc.buf], chunk)]
          /\ proc'.pc = "queue" /\ proc'.buf = proc.buf /\ proc'.readLen = Len(chunk)
      BY <1>p, <2>4, <2>l DEF ProcFill
    <3>1. proc.buf \in Buffers
      BY <1>0, <3>0 DEF TypeOK
    <3>2. chunk \in Chunks /\ memory[proc.buf] \in Memory /\ chunk = surface[1] /\ 1 \in 1 .. Len(surface)
      BY <1>t, <3>0, <3>1
    <3> HIDE DEF chunk
    <3>3. SubSeq(memory'[proc'.buf], 1, proc'.readLen) = chunk
      BY <1>t, <3>0, <3>1, <3>2, OverwriteFront
    <3>4. \A b \in Buffers : b # proc.buf => memory'[b] = memory[b]
      BY <1>t, <3>0
    <3>5. /\ \A i \in 1 .. Len(filled) : filled[i].buf \in Buffers /\ filled[i].buf # proc.buf
          /\ buffer.buf # proc.buf
      BY <1>0, <1>t, <2>l, <3>1, FillsAlone DEF FilledBuffers
    <3>6. FilledBytes' = FilledBytes
      <4>1. \A i \in 1 .. Len(filled) : Content(filled[i])' = Content(filled[i])
        BY <3>0, <3>4, <3>5 DEF Content
      <4> QED
        BY <3>0, <4>1 DEF FilledBytes
    <3>7. buffer = Nothing \/ Content(buffer)' = Content(buffer)
      BY <1>t, <2>0, <3>4, <3>5 DEF Content, FilledBuffers
    <3>8. c = f /\ Tiles(surface, c, sent)
      BY <2>2, <3>0 DEF Stretches
    <3>9. PICK m \in c .. sent : chunk = Run(c, m) /\ Tiles(surface', m, sent)
      BY <1>t, <2>n, <3>0, <3>8, TilesTail DEF chunk
    <3>10. Stretches(r, f, m)'
      BY <2>0, <2>2, <3>0, <3>3, <3>6, <3>7, <3>8, <3>9 DEF Stretches
    <3>11. m \in Len(received) .. sent /\ f =< m
      BY <1>t, <2>n, <3>8
    <3>12. Flows'
      BY <2>0, <2>l, <2>2, <3>10, <3>11 DEF Flows
    <3>13. EndsOnce'
      <4>1. ~receivedEos /\ \A i \in 1 .. Len(filled) : ~filled[i].eos /\ (filled[i].eos <=> filled[i].size = 0)
        BY <1>0, <2>l, <3>0 DEF EndsOnce, EndIsLast
      <4>2. /\ Len(surface) \in Nat \ {0} /\ Len(surface') = Len(surface) - 1
            /\ \A i \in 1 .. Len(surface') : surface'[i] = surface[i + 1]
        BY <1>t, <3>0
      <4>3. ASSUME NEW i \in 1 .. Len(surface'), surface'[i] = <<>> PROVE i = Len(surface') /\ ended
        <5>1. i + 1 \in 1 .. Len(surface) /\ surface[i + 1] = <<>>
          BY <4>2, <4>3
        <5> QED
          BY <2>l, <4>2, <5>1 DEF EndsOnce
      <4>4. Len(chunk) = 0 => surface' = <<>> /\ ended
        <5>1. Len(chunk) = 0 => chunk = <<>>
          BY <3>2, EmptySeq DEF Chunks
        <5>2. Len(chunk) = 0 => Len(surface) = 1 /\ ended
          BY <2>l, <3>2, <5>1 DEF EndsOnce
        <5> QED
          BY <1>t, <3>0, <5>2
      <4> QED
        BY <2>0, <3>0, <4>1, <4>3, <4>4 DEF EndsOnce
    <3> QED
      BY <2>0, <2>l, <3>12, <3>13 DEF Intact
  <2>5. CASE ProcQueue
    <3> DEFINE q == [buf |-> proc.buf, offset |-> 0, size |-> proc.readLen,
                     eos |-> proc.readLen = 0]
    <3>0. /\ proc.pc = "queue" /\ filled' = Append(filled, q) /\ proc'.pc # "queue"
          /\ UNCHANGED <<surface, memory>>
      BY <2>5, <2>l DEF ProcQueue
    <3>1. q \in FilledBuffers /\ q.buf = proc.buf /\ q.offset = 0 /\ q.size = proc.readLen
          /\ (q.eos <=> q.size = 0)
      <4>1. proc.buf \in Buffers /\ proc.readLen \in Lengths /\ BufferSize \in Nat
        BY <1>0, <3>0, StreamConstants DEF TypeOK
      <4>2. q.buf = proc.buf /\ q.offset = 0 /\ q.size = proc.readLen
        OBVIOUS
      <4>3. q.eos <=> q.size = 0
        OBVIOUS
      <4>4. q \in FilledBuffers
        BY <4>1 DEF FilledBuffers, Lengths
      <4> QED
        BY <4>2, <4>3, <4>4
    <3> HIDE DEF q
    <3>2. /\ Len(filled') = Len(filled) + 1 /\ Len(filled) \in Nat /\ filled'[Len(filled) + 1] = q
          /\ \A i \in 1 .. Len(filled) : filled'[i] = filled[i]
      BY <1>t, <3>0, <3>1
    <3>3. Content(q) = Run(f, c)
      <4>1. 0 + 1 = 1 /\ 0 + proc.readLen = proc.readLen
        BY <1>p, StreamConstants DEF Lengths
      <4>2. SubSeq(memory[proc.buf], 1, proc.readLen) = Run(f, c)
        BY <2>2, <3>0 DEF Stretches
      <4>3. Content(q) = SubSeq(memory[proc.buf], 1, proc.readLen)
        BY <3>1, <4>1 DEF Content
      <4> QED
        BY <4>2, <4>3
    <3> DEFINE T == {Content(filled[i]) : i \in 1 .. Len(filled)} \cup {Content(q)}
               piece(i) == Content(filled[i])
               longer == Append(FilledBytes, Content(q))
    <3>4. FilledBytes \in Seq(T) /\ Content(q) \in T /\ Len(FilledBytes) = Len(filled)
      BY <3>2 DEF FilledBytes
    <3>5. FilledBytes' = longer
      <4>1. /\ longer \in Seq(T) /\ Len(longer) = Len(filled) + 1
            /\ longer[Len(filled) + 1] = Content(q)
            /\ \A i \in 1 .. Len(filled) : longer[i] = FilledBytes[i]
        BY <3>2, <3>4
      <4>2. \A i \in 1 .. Len(filled) : FilledBytes[i] = Content(filled[i])
        BY DEF FilledBytes
      <4>3. FilledBytes' = [i \in 1 .. Len(filled) + 1 |-> Content(filled'[i])]
        BY <3>0, <3>2 DEF FilledBytes, Content
      <4> DEFINE new(i) == Content(filled'[i])
      <4>4. \A i \in 1 .. Len(filled) + 1 : longer[i] = new(i)
        BY <3>2, <4>1, <4>2
      <4>5. \A v, l : v \in Seq(T) /\ l \in Nat /\ Len(v) = l => v = [i \in 1 .. l |-> v[i]]
        OBVIOUS
      <4>6. Len(filled) + 1 \in Nat
        BY <3>2
      <4> HIDE DEF T, longer, new
      <4>7. longer = [i \in 1 .. Len(filled) + 1 |-> longer[i]]
        BY <4>1, <4>5, <4>6
      <4>8. longer = [i \in 1 .. Len(filled) + 1 |-> new(i)]
        BY <4>4, <4>7
      <4> QED
        BY <4>3, <4>8 DEF new
    <3> HIDE DEF T, longer
    <3>6. Tiles(FilledBytes', r, c)
      BY <2>2, <2>n, <3>3, <3>4, <3>5, TilesAppend DEF Stretches, longer
    <3>7. Content(buffer)' = Content(buffer)
      BY <2>0, <3>0 DEF Content
    <3>8. Stretches(r, c, c)'
      BY <2>0, <2>2, <3>0, <3>6, <3>7 DEF Stretches
    <3>9. Flows'
      BY <2>0, <2>l, <2>2, <2>n, <3>8 DEF Flows
    <3>10. EndsOnce'
      <4>1. ~receivedEos /\ \A i \in 1 .. Len(filled) : ~filled[i].eos /\ (filled[i].eos <=> filled[i].size = 0)
        BY <1>0, <2>l, <3>0 DEF EndsOnce, EndIsLast, ProcGone
      <4>2. q.eos => surface = <<>> /\ ended
        BY <2>l, <3>0, <3>1 DEF EndsOnce
      <4>3. ASSUME NEW i \in 1 .. Len(filled')
            PROVE  /\ filled'[i].eos <=> filled'[i].size = 0
                   /\ filled'[i].eos => i = Len(filled') /\ surface' = <<>> /\ ended'
        <5>1. CASE i = Len(filled) + 1
          BY <2>0, <3>0, <3>1, <3>2, <4>2, <5>1
        <5>2. CASE i \in 1 .. Len(filled)
          BY <3>2, <4>1, <5>2
        <5> QED
          BY <3>2, <5>1, <5>2
      <4> QED
        BY <2>0, <2>l, <3>0, <4>1, <4>3 DEF EndsOnce
    <3> QED
      BY <2>0, <2>l, <3>9, <3>10 DEF Intact
  <2> QED
    BY <1>3, <2>3, <2>4, <2>5 DEF Proc
<1>4. ASSUME NEW n \in Sizes, ReadData(n) PROVE Intact'
  <2>0. /\ UNCHANGED <<ended, surface, proc, threadRuning, player>>
        /\ buffer.buf # NoBuffer \/ filled # <<>>
        /\ filled' = filled \/ (filled # <<>> /\ filled' = Tail(filled))
    BY <1>4 DEF ReadData
  <2> SUFFICES ASSUME Flowing' PROVE threadRuning' /\ Flows' /\ EndsOnce'
    BY DEF Intact
  <2>1. threadRuning /\ Flows /\ EndsOnce
    BY <1>f, <2>0 DEF Flowing
  <2>2. /\ Flows'
        /\ \/ receivedEos' = receivedEos
           \/ ended /\ filled' = <<>> /\ surface' = <<>> /\ buffer' = Nothing
    BY <1>0, <1>4, <2>1, ReadDelivers
  <2>3. ~receivedEos
    BY <2>0, <2>1 DEF EndsOnce, Nothing
  <2>4. receivedEos' => ended' /\ filled' = <<>> /\ surface' = <<>> /\ buffer' = Nothing
    BY <2>0, <2>2, <2>3
  <2>5. ASSUME NEW i \in 1 .. Len(filled')
        PROVE  /\ filled'[i].eos <=> filled'[i].size = 0
               /\ filled'[i].eos => i = Len(filled') /\ surface' = <<>> /\ ended'
    <3>1. CASE filled' = filled
      BY <2>0, <2>1, <3>1 DEF EndsOnce
    <3>2. CASE filled # <<>> /\ filled' = Tail(filled)
      <4>1. Len(filled) \in Nat \ {0} /\ Len(filled') = Len(filled) - 1 /\ filled'[i] = filled[i + 1]
            /\ i + 1 \in 1 .. Len(filled)
        BY <1>t, <3>2
      <4> QED
        BY <2>0, <2>1, <4>1 DEF EndsOnce
    <3> QED
      BY <2>0, <3>1, <3>2
  <2> QED
    BY <2>0, <2>1, <2>2, <2>4, <2>5 DEF EndsOnce
<1>5. CASE SetStreamSource
  <2> SUFFICES ASSUME Flowing' PROVE threadRuning' /\ Flows' /\ EndsOnce'
    BY DEF Intact
  <2>0. /\ threadRuning' /\ proc'.pc = "check" /\ sent' = 0 /\ received' = <<>> /\ ~receivedEos'
        /\ surface' = <<>> /\ filled' = <<>> /\ buffer' = Nothing
    BY <1>5 DEF SetStreamSource, Flowing
  <2>1. FilledBytes' = <<>>
    BY <2>0 DEF FilledBytes
  <2>2. Tiles(<<>>, 0, 0) /\ Run(0, 0) = <<>> /\ Len(<<>>) = 0
    BY TilesNone DEF Run
  <2>3. Stretches(0, 0, 0)'
    BY <2>0, <2>1, <2>2 DEF Stretches
  <2>4. Flows'
    BY <2>0, <2>2, <2>3 DEF Flows
  <2>5. EndsOnce'
    BY <2>0 DEF EndsOnce
  <2> QED
    BY <2>0, <2>4, <2>5
<1>6. CASE Prepare \/ Play
  BY <1>6, <1>same DEF Prepare, Play, Advance, Flowing
<1>7. CASE Stop
  <2>1. ~Flowing'
    BY <1>7 DEF Stop, Flowing, StopsAccepted
  <2> QED
    BY <2>1 DEF Intact
<1>8. ASSUME NEW next \in {"reset", "release"}, ResetBegin(next) PROVE Intact'
  BY <1>8 DEF ResetBegin, Intact, Flowing
<1>9. CASE Api
  <2>1. ~Flowing'
    BY <1>0, <1>9 DEF Api, ResetEnd, DropStream, JoinStream, Flowing, Control
  <2> QED
    BY <2>1 DEF Intact
<1>10. CASE UNCHANGED vars
  BY <1>10, <1>same DEF vars, Flowing
<1> QED
  BY <1>1, <1>2, <1>3, <1>4, <1>5, <1>6, <1>7, <1>8, <1>9, <1>10 DEF Next

-----------------------------------------------------------------------------
(* The tour through the buffers implements the byte stream *)

Flags == ended \in BOOLEAN /\ receivedEos \in BOOLEAN

StreamInv == IInv /\ Flags /\ (Calm => Intact)

LEMMA FlagsStep ==
  ASSUME Flags, [Next]_vars
  PROVE  Flags'
<1> USE DEF Flags, appVars, demuxVars
<1>1. ASSUME NEW n \in {0} \cup Sizes, SendChunk(n) PROVE Flags'
  BY <1>1 DEF SendChunk
<1>2. CASE Idler \/ Proc
  BY <1>2 DEF Idler, Proc
<1>3. ASSUME NEW n \in Sizes, ReadData(n) PROVE Flags'
  <2>1. receivedEos' \in BOOLEAN
    BY <1>3, Zenon DEF ReadData
  <2>2. UNCHANGED ended
    BY <1>3 DEF ReadData
  <2> QED
    BY <2>1, <2>2
<1>4. CASE SetStreamSource \/ Prepare \/ Play \/ Stop
  BY <1>4 DEF SetStreamSource, Prepare, Play, Stop, Advance
<1>5. CASE Api \/ \E next \in {"reset", "release"} : ResetBegin(next)
  BY <1>5 DEF Api, ResetEnd, DropStream, JoinStream, ResetBegin
<1>6. CASE UNCHANGED vars
  BY <1>6 DEF vars
<1> QED
  BY <1>1, <1>2, <1>3, <1>4, <1>5, <1>6 DEF Next

LEMMA StreamInvariant ==
  ASSUME StopsAccepted
  PROVE  Spec => []StreamInv
<1>1. Init => StreamInv
  BY TypeInit, ControlInit, PartitionInit DEF IInv, StreamInv, Flags, Init, Intact, Flowing
<1>2. StreamInv /\ [Next]_vars => StreamInv'
  <2> SUFFICES ASSUME StreamInv, [Next]_vars PROVE StreamInv'
    OBVIOUS
  <2>1. IInv'
    BY TypeStep, ControlStep, EndStep, PartitionStep DEF IInv, StreamInv
  <2>2. Flags'
    BY FlagsStep DEF StreamInv
  <2>3. ASSUME Calm' PROVE Calm
    BY <2>3 DEF Next, vars, Calm
  <2>4. Calm' => Intact'
    BY <2>3, IntactStep DEF StreamInv, Flags
  <2> QED
    BY <2>1, <2>2, <2>4 DEF StreamInv
<1> QED
  BY <1>1, <1>2, PTL DEF Spec

ByteStep == Bytes!Send \/ Bytes!End \/ Bytes!Receive \/ Bytes!ReceiveEos \/ Bytes!Open

\* Every step of the service is one of the byte stream or none at all.
LEMMA StepIsByteStep ==
  ASSUME StreamInv, [Next]_vars
  PROVE  ByteStep \/ UNCHANGED <<sent, ended, received, receivedEos>>
<1> USE DEF ByteStep, appVars, demuxVars
<1>0. TypeOK /\ Flags
  BY DEF StreamInv, IInv
<1>1. ASSUME NEW n \in {0} \cup Sizes, SendChunk(n)
      PROVE  Bytes!Send \/ Bytes!End
  <2>0. n \in Nat /\ sent \in Nat /\ ended = FALSE
    BY <1>0, <1>1, StreamConstants DEF SendChunk, TypeOK, Flags
  <2>1. sent' = sent + n /\ ended' = (n = 0) /\ UNCHANGED <<received, receivedEos>>
    BY <1>1 DEF SendChunk
  <2>2. CASE n = 0
    <3>1. ended' = TRUE
      BY <2>1, <2>2, Zenon
    <3>2. sent' = sent
      BY <2>0, <2>1, <2>2
    <3> QED
      BY <2>0, <2>1, <3>1, <3>2 DEF Bytes!End
  <2>3. CASE n # 0
    <3>1. ended' = FALSE
      BY <2>1, <2>3, Zenon
    <3>2. sent' \in Nat /\ sent' > sent
      BY <2>0, <2>1, <2>3
    <3>3. ended' = ended
      BY <2>0, <3>1
    <3> QED
      BY <2>0, <2>1, <3>2, <3>3 DEF Bytes!Send
  <2> QED
    BY <2>2, <2>3
<1>2. CASE Idler \/ Proc
  BY <1>2 DEF Idler, Proc
<1>3. ASSUME NEW n \in Sizes, ReadData(n), Calm PROVE Bytes!Receive \/ Bytes!ReceiveEos
  <2>0. /\ Flows /\ EndsOnce /\ EndIsLast /\ receivedEos \in BOOLEAN
        /\ Len(received) \in Nat /\ sent \in Nat
    BY <1>0, <1>3 DEF StreamInv, IInv, Intact, Flowing, Flags, ReadData, TypeOK
  <2>1. UNCHANGED <<sent, ended>>
    BY <1>3 DEF ReadData
  <2>2. PICK k \in 0 .. sent - Len(received) :
          /\ received' = received \o Run(Len(received), Len(received) + k)
          /\ \/ k > 0 /\ receivedEos' = receivedEos
             \/ k = 0 /\ receivedEos' = TRUE /\ ~receivedEos /\ ended /\ Len(received) = sent
    BY <1>0, <1>3, <2>0, ReadDelivers
  <2>3. Len(received) + k - Len(received) = k
    BY <2>0
  <2>4. received' = received \o [i \in 1 .. k |-> Len(received) + i]
    BY <2>2, <2>3 DEF Run
  <2>5. CASE k > 0 /\ receivedEos' = receivedEos
    <3>1. k \in 1 .. sent - Len(received)
      BY <2>0, <2>5
    <3> QED
      BY <2>1, <2>4, <2>5, <3>1 DEF Bytes!Receive
  <2>6. CASE k = 0 /\ receivedEos' = TRUE /\ ~receivedEos /\ ended /\ Len(received) = sent
    <3>1. [i \in 1 .. 0 |-> Len(received) + i] = <<>>
      OBVIOUS
    <3>2. received \in Seq(Nat)
      BY <1>0 DEF TypeOK
    <3>3. received' = received
      BY <2>4, <2>6, <3>1, <3>2
    <3> QED
      BY <2>1, <2>6, <3>3 DEF Bytes!ReceiveEos
  <2> QED
    BY <2>2, <2>5, <2>6
<1>4. CASE SetStreamSource
  BY <1>4 DEF SetStreamSource, Bytes!Open, Bytes!Empty
<1>5. CASE Prepare \/ Play \/ Stop
  BY <1>5 DEF Prepare, Play, Stop, Advance
<1>6. CASE Api \/ \E next \in {"reset", "release"} : ResetBegin(next)
  BY <1>6 DEF Api, ResetEnd, DropStream, JoinStream, ResetBegin
<1>7. CASE UNCHANGED vars
  BY <1>7 DEF vars
<1> QED
  BY <1>1, <1>2, <1>3, <1>4, <1>5, <1>6, <1>7 DEF Next

\* What the demuxer reads is what was sent, in order and then the end, for any
\* number and size of buffers, chunks and reads and any number of sources, as
\* long as Stop is only called of a player that accepts it.
THEOREM StreamImplementsBytes ==
  ASSUME StopsAccepted
  PROVE  Spec => IsByteStream
<1>1. Init => Bytes!Empty
  BY DEF Init, Bytes!Empty
<1>2. StreamInv /\ [Next]_vars =>
        [Bytes!Send \/ Bytes!End \/ Bytes!Receive \/ Bytes!ReceiveEos \/ Bytes!Open]_Bytes!streamVars
  BY StepIsByteStep DEF ByteStep, Bytes!streamVars
<1> QED
  BY <1>1, <1>2, StreamInvariant, PTL DEF Spec, IsByteStream, Bytes!Spec

=============================================================================
