------------------------ MODULE MediaPipelineProofs ------------------------
(***************************************************************************)
(* Proofs about the pipeline, for every set of files, every size of the    *)
(* decoders, every render mode and whether or not a full decoder takes the *)
(* end of the stream: the frames of each track are rendered in the order   *)
(* of the file and none is lost, and the playback is reported complete     *)
(* only once and only when every frame was rendered.                       *)
(***************************************************************************)
EXTENDS MediaPipeline, SequenceTheorems, FiniteSetTheorems, TLAPS

-----------------------------------------------------------------------------
(* The packets of a track *)

FileOK == file \in Seq([kind : Kinds, ts : Nat])

LEMMA PacketTypes ==
  ASSUME FileOK
  PROVE  /\ Len(file) \in Nat
         /\ \A x \in 1 .. Len(file) : file[x].kind \in Kinds /\ file[x].ts \in Nat
<1> DEFINE Packets == [kind : Kinds, ts : Nat]
<1>1. file \in Seq(Packets)
  BY DEF FileOK
<1>2. \A x \in 1 .. Len(file) : file[x] \in Packets
  <2> HIDE DEF Packets
  <2> QED BY <1>1, ElementOfSeq
<1>3. Len(file) \in Nat
  <2> HIDE DEF Packets
  <2> QED BY <1>1, LenProperties
<1> QED BY <1>2, <1>3

LEMMA BetweenNat ==
  ASSUME NEW k, NEW i \in Int, NEW j \in Int
  PROVE  /\ IsFiniteSet({x \in i .. j - 1 : file[x].kind = k})
         /\ Between(k, i, j) \in Nat
<1>1. IsFiniteSet(i .. j - 1)
  BY FS_Interval
<1>2. IsFiniteSet({x \in i .. j - 1 : file[x].kind = k})
  BY <1>1, FS_Subset
<1> QED BY <1>2, FS_CardinalityType DEF Between

LEMMA BetweenNone ==
  ASSUME NEW k, NEW i \in Int
  PROVE  Between(k, i, i) = 0
<1>1. {x \in i .. i - 1 : file[x].kind = k} = {}
  OBVIOUS
<1> QED BY <1>1, FS_EmptySet DEF Between

LEMMA BetweenNext ==
  ASSUME NEW k, NEW i \in Int, NEW j \in Int, i <= j
  PROVE  Between(k, i, j + 1) = Between(k, i, j) + (IF file[j].kind = k THEN 1 ELSE 0)
<1> DEFINE S == {x \in i .. j - 1 : file[x].kind = k}
           R == {x \in i .. (j + 1) - 1 : file[x].kind = k}
<1>1. IsFiniteSet(S) /\ Between(k, i, j) = Cardinality(S) /\ Cardinality(S) \in Nat
  BY BetweenNat DEF Between
<1>2. Between(k, i, j + 1) = Cardinality(R)
  BY DEF Between
<1>3. CASE file[j].kind = k
  <2>1. R = S \cup {j} /\ j \notin S
    BY <1>3
  <2> HIDE DEF R, S
  <2>2. Cardinality(R) = Cardinality(S) + 1
    BY <1>1, <2>1, FS_AddElement
  <2> QED BY <1>1, <1>2, <1>3, <2>2
<1>4. CASE file[j].kind # k
  <2>1. R = S
    BY <1>4
  <2> HIDE DEF R, S
  <2> QED BY <1>1, <1>2, <1>4, <2>1
<1> QED BY <1>3, <1>4

LEMMA BetweenGrows ==
  ASSUME NEW k, NEW i \in Int, NEW h \in Int, NEW j \in Int, NEW l \in Int, h <= i, j <= l
  PROVE  Between(k, i, j) <= Between(k, h, l)
<1> DEFINE S == {x \in i .. j - 1 : file[x].kind = k}
           R == {x \in h .. l - 1 : file[x].kind = k}
<1>1. S \subseteq R
  OBVIOUS
<1>2. IsFiniteSet(R)
  BY BetweenNat
<1>3. Cardinality(S) <= Cardinality(R)
  <2> HIDE DEF R, S
  <2> QED BY <1>1, <1>2, FS_Subset
<1> QED BY <1>3 DEF Between

LEMMA TrackLength ==
  ASSUME FileOK, NEW k, NEW i \in Nat
  PROVE  /\ DOMAIN Track(k, i) = 1 .. Between(k, i, Len(file) + 1)
         /\ Between(k, i, Len(file) + 1) \in Nat
<1>1. Len(file) + 1 \in Int /\ i \in Int
  BY PacketTypes
<1> QED BY <1>1, BetweenNat DEF Track

\* The place of a packet in its track is the number of packets of the track before it.
LEMMA TrackHas ==
  ASSUME FileOK, NEW k \in Kinds, NEW i \in 1 .. Len(file) + 1, NEW x \in i .. Len(file),
         file[x].kind = k
  PROVE  /\ Between(k, i, x) + 1 \in 1 .. Between(k, i, Len(file) + 1)
         /\ Track(k, i)[Between(k, i, x) + 1] = file[x].ts
<1> DEFINE n == Between(k, i, x)  N == Between(k, i, Len(file) + 1)
           Here(y) == file[y].kind = k /\ Between(k, i, y) = (n + 1) - 1
<1>1. Len(file) \in Nat
  BY PacketTypes
<1>2. n \in Nat /\ N \in Nat
  <2>1. Len(file) + 1 \in Int /\ i \in Int /\ x \in Int
    BY <1>1
  <2> QED BY <2>1, BetweenNat
<1>3. Between(k, i, x + 1) = n + 1
  BY <1>1, BetweenNext
<1>4. n + 1 <= N
  BY <1>1, <1>3, BetweenGrows
<1>5. Here(x)
  BY <1>2
<1>6. ASSUME NEW y \in i .. Len(file), Here(y)
      PROVE  y = x
  <2>1. Between(k, i, y) = n /\ Between(k, i, y + 1) = n + 1
    <3>1. Between(k, i, y) = n
      BY <1>2, <1>6
    <3>2. file[y].kind = k
      BY <1>6
    <3> HIDE DEF n, N, Here
    <3>3. Between(k, i, y + 1) = Between(k, i, y) + 1
      BY <1>1, <3>2, BetweenNext
    <3> QED BY <3>1, <3>3
  <2>2. ~(y < x)
    <3>1. y < x => Between(k, i, y + 1) <= n
      BY <1>1, BetweenGrows
    <3> HIDE DEF n
    <3> QED BY <1>2, <2>1, <3>1
  <2>3. ~(x < y)
    <3>1. x < y => Between(k, i, x + 1) <= Between(k, i, y)
      BY <1>1, BetweenGrows
    <3> HIDE DEF n
    <3> QED BY <1>2, <1>3, <2>1, <3>1
  <2> QED BY <1>1, <2>2, <2>3
<1>7. (CHOOSE y \in i .. Len(file) : Here(y)) = x
  BY <1>5, <1>6
<1>8. n + 1 \in 1 .. N
  BY <1>2, <1>4
<1>9. Track(k, i)[n + 1] = file[CHOOSE y \in i .. Len(file) : Here(y)].ts
  BY <1>8 DEF Track
<1> QED BY <1>7, <1>8, <1>9

-----------------------------------------------------------------------------
(* Frames on their way: what was handled, what the sink keeps, what the decoder has     *)
(* ready and what it has been given are, one behind the other, one run of a track.      *)

Runs(s, T, b) == \A i \in 1 .. Len(s) : s[i] = T[b + i]

\* The queue of a decoder: packets, and in the end perhaps the end of the stream.
Packets(q) == IF q # <<>> /\ q[Len(q)] = Eos THEN Len(q) - 1 ELSE Len(q)
InputRuns(q, T, b) ==
  \A i \in 1 .. Len(q) : IF q[i] = Eos THEN i = Len(q) ELSE q[i] = T[b + i]
NoEos(q) == \A i \in 1 .. Len(q) : q[i] # Eos

\* n frames of track T: h handled, c in the sink, o decoded, q queued.
InLine(T, n, h, c, o, q) ==
  /\ h \in Seq(Int) /\ c \in Seq(Int) /\ o \in Seq(Int) /\ q \in Seq(Int)
  /\ Runs(h, T, 0)
  /\ Runs(c, T, Len(h))
  /\ Runs(o, T, Len(h) + Len(c))
  /\ InputRuns(q, T, Len(h) + Len(c) + Len(o))
  /\ Len(h) + Len(c) + Len(o) + Packets(q) = n

LEMMA AppendFacts ==
  ASSUME NEW s \in Seq(Int), NEW e \in Int
  PROVE  /\ Append(s, e) \in Seq(Int) /\ Len(Append(s, e)) = Len(s) + 1 /\ Len(s) \in Nat
         /\ \A i \in 1 .. Len(s) : Append(s, e)[i] = s[i]
         /\ Append(s, e)[Len(s) + 1] = e /\ Append(s, e) # <<>>
BY AppendProperties, LenProperties

LEMMA TailFacts ==
  ASSUME NEW s \in Seq(Int), s # <<>>
  PROVE  /\ Tail(s) \in Seq(Int) /\ Len(Tail(s)) = Len(s) - 1
         /\ Len(s) \in Nat /\ Len(s) >= 1
         /\ Head(s) \in Int /\ Head(s) = s[1]
         /\ \A i \in 1 .. Len(s) - 1 : Tail(s)[i] = s[i + 1]
BY HeadTailProperties, LenProperties, EmptySeq

LEMMA RunsAppend ==
  ASSUME NEW T, NEW b \in Nat, NEW s \in Seq(Int), NEW e \in Int, Runs(s, T, b),
         e = T[b + (Len(s) + 1)]
  PROVE  Runs(Append(s, e), T, b)
<1>1. /\ Len(Append(s, e)) = Len(s) + 1 /\ Len(s) \in Nat
      /\ \A i \in 1 .. Len(s) : Append(s, e)[i] = s[i]
      /\ Append(s, e)[Len(s) + 1] = e
  BY AppendFacts
<1>2. ASSUME NEW i \in 1 .. Len(s) + 1
      PROVE  Append(s, e)[i] = T[b + i]
  <2>1. CASE i = Len(s) + 1
    BY <1>1, <2>1
  <2>2. CASE i \in 1 .. Len(s)
    BY <1>1, <2>2 DEF Runs
  <2> QED BY <1>1, <2>1, <2>2
<1> QED BY <1>1, <1>2 DEF Runs

LEMMA RunsTail ==
  ASSUME NEW T, NEW b \in Nat, NEW s \in Seq(Int), s # <<>>, Runs(s, T, b)
  PROVE  Head(s) = T[b + 1] /\ Runs(Tail(s), T, b + 1)
<1> DEFINE n == Len(s)  t == Tail(s)
<1>1. /\ Len(t) = n - 1 /\ n \in Nat /\ n >= 1 /\ Head(s) = s[1]
      /\ \A i \in 1 .. n - 1 : t[i] = s[i + 1]
  BY TailFacts
<1>2. \A i \in 1 .. n : s[i] = T[b + i]
  BY DEF Runs
<1>3. Head(s) = T[b + 1]
  BY <1>1, <1>2
<1>4. ASSUME NEW i \in 1 .. n - 1
      PROVE  t[i] = T[(b + 1) + i]
  <2>1. i + 1 \in 1 .. n /\ b + (i + 1) = (b + 1) + i
    BY <1>1
  <2> HIDE DEF t, n
  <2> QED BY <1>1, <1>2, <2>1
<1>5. Runs(t, T, b + 1)
  BY <1>1, <1>4 DEF Runs
<1> QED BY <1>3, <1>5

LEMMA InputTail ==
  ASSUME NEW T, NEW b \in Nat, NEW q \in Seq(Int), q # <<>>, InputRuns(q, T, b)
  PROVE  /\ Head(q) # Eos => /\ Head(q) = T[b + 1]
                             /\ InputRuns(Tail(q), T, b + 1)
                             /\ Packets(Tail(q)) = Packets(q) - 1
         /\ Head(q) = Eos => Tail(q) = <<>> /\ Packets(q) = 0
<1> DEFINE n == Len(q)  t == Tail(q)
<1>1. /\ t \in Seq(Int) /\ Len(t) = n - 1 /\ n \in Nat /\ n >= 1 /\ Head(q) = q[1]
      /\ \A i \in 1 .. n - 1 : t[i] = q[i + 1]
  BY TailFacts
<1>2. \A i \in 1 .. n : IF q[i] = Eos THEN i = n ELSE q[i] = T[b + i]
  BY DEF InputRuns
<1>3. t # <<>> <=> n # 1
  BY <1>1, EmptySeq
<1>4. /\ q[1] = Eos => 1 = n
      /\ q[1] # Eos => q[1] = T[b + 1]
  <2>1. 1 \in 1 .. n
    BY <1>1
  <2> HIDE DEF n
  <2> QED BY <1>2, <2>1
<1>5. ASSUME Head(q) # Eos
      PROVE  Head(q) = T[b + 1] /\ InputRuns(t, T, b + 1) /\ Packets(t) = Packets(q) - 1
  <2>1. Head(q) = T[b + 1]
    BY <1>1, <1>4, <1>5
  <2>2. ASSUME NEW i \in 1 .. n - 1
        PROVE  IF t[i] = Eos THEN i = n - 1 ELSE t[i] = T[(b + 1) + i]
    <3> DEFINE j == i + 1
    <3>1. j \in 1 .. n /\ b + j = (b + 1) + i /\ (j = n => i = n - 1)
      <4>1. n \in Nat
        BY <1>1
      <4> HIDE DEF n
      <4> QED BY <4>1
    <3>2. t[i] = q[j]
      <4> HIDE DEF t, n
      <4> QED BY <1>1
    <3>3. IF q[j] = Eos THEN j = n ELSE q[j] = T[b + j]
      <4> HIDE DEF j, n
      <4> QED BY <1>2, <3>1
    <3> HIDE DEF t, n, j
    <3> QED BY <3>1, <3>2, <3>3
  <2>3. InputRuns(t, T, b + 1)
    BY <1>1, <2>2 DEF InputRuns
  <2>4. Packets(t) = Packets(q) - 1
    <3>1. CASE n = 1
      BY <1>1, <1>3, <1>5, <3>1, EmptySeq DEF Packets
    <3>2. CASE n # 1
      <4>1. n - 1 \in 1 .. n - 1 /\ t[n - 1] = q[(n - 1) + 1] /\ (n - 1) + 1 = n
        BY <1>1, <3>2
      <4>2. t[Len(t)] = q[n] /\ t # <<>>
        BY <1>1, <1>3, <3>2, <4>1
      <4> HIDE DEF t
      <4> QED BY <1>1, <4>2 DEF Packets
    <3> QED BY <3>1, <3>2
  <2> QED BY <2>1, <2>3, <2>4
<1>6. ASSUME Head(q) = Eos
      PROVE  t = <<>> /\ Packets(q) = 0
  <2>1. n = 1
    BY <1>1, <1>4, <1>6
  <2> QED BY <1>1, <1>3, <1>6, <2>1 DEF Packets
<1> QED BY <1>5, <1>6

LEMMA InputAppend ==
  ASSUME NEW T, NEW b \in Nat, NEW q \in Seq(Int), NEW e \in Int, InputRuns(q, T, b),
         NoEos(q), e # Eos => e = T[b + (Len(q) + 1)]
  PROVE  /\ InputRuns(Append(q, e), T, b)
         /\ Packets(q) = Len(q)
         /\ Packets(Append(q, e)) = IF e = Eos THEN Len(q) ELSE Len(q) + 1
<1> DEFINE n == Len(q)  t == Append(q, e)
<1>1. /\ Len(t) = n + 1 /\ n \in Nat /\ t # <<>>
      /\ \A i \in 1 .. n : t[i] = q[i]
      /\ t[n + 1] = e
  BY AppendFacts
<1>2. \A i \in 1 .. n : q[i] # Eos /\ q[i] = T[b + i]
  BY DEF InputRuns, NoEos
<1>3. ASSUME NEW i \in 1 .. n + 1
      PROVE  IF t[i] = Eos THEN i = n + 1 ELSE t[i] = T[b + i]
  <2>1. CASE i = n + 1
    BY <1>1, <2>1
  <2>2. CASE i \in 1 .. n
    BY <1>1, <1>2, <2>2
  <2> QED BY <1>1, <2>1, <2>2
<1>4. InputRuns(t, T, b)
  BY <1>1, <1>3 DEF InputRuns
<1>5. Packets(t) = IF e = Eos THEN n ELSE n + 1
  <2> HIDE DEF t
  <2> QED BY <1>1 DEF Packets
<1>6. Packets(q) = n
  <2>1. q # <<>> => n \in 1 .. n
    BY <1>1, EmptySeq
  <2> QED BY <1>2, <2>1 DEF Packets
<1> QED BY <1>4, <1>5, <1>6

LEMMA LineTypes ==
  ASSUME NEW T, NEW n, NEW h, NEW c, NEW o, NEW q, InLine(T, n, h, c, o, q)
  PROVE  /\ Len(h) \in Nat /\ Len(c) \in Nat /\ Len(o) \in Nat /\ Len(q) \in Nat
         /\ Packets(q) \in Nat /\ n \in Nat
         /\ h \in Seq(Int) /\ c \in Seq(Int) /\ o \in Seq(Int) /\ q \in Seq(Int)
<1>1. Len(h) \in Nat /\ Len(c) \in Nat /\ Len(o) \in Nat /\ Len(q) \in Nat
  BY LenProperties DEF InLine
<1>2. q # <<>> => Len(q) >= 1
  BY <1>1, EmptySeq DEF InLine
<1>3. Packets(q) \in Nat
  BY <1>1, <1>2 DEF Packets
<1> QED BY <1>1, <1>3 DEF InLine

\* A decoder turns its oldest packet into a frame, or meets the end.
LEMMA LineDecode ==
  ASSUME NEW T, NEW n, NEW h, NEW c, NEW o, NEW q, InLine(T, n, h, c, o, q), q # <<>>
  PROVE  /\ Head(q) # Eos => InLine(T, n, h, c, Append(o, Head(q)), Tail(q))
         /\ Head(q) = Eos => InLine(T, n, h, c, o, Tail(q)) /\ Tail(q) = <<>>
<1> DEFINE b == Len(h) + Len(c)  l == Len(o)
<1>1. /\ b \in Nat /\ l \in Nat /\ Packets(q) \in Nat
      /\ o \in Seq(Int) /\ q \in Seq(Int)
  BY LineTypes
<1>2. /\ Runs(o, T, b) /\ InputRuns(q, T, b + l) /\ b + l + Packets(q) = n
      /\ h \in Seq(Int) /\ c \in Seq(Int) /\ Runs(h, T, 0) /\ Runs(c, T, Len(h))
  BY DEF InLine
<1>3. Tail(q) \in Seq(Int) /\ Head(q) \in Int
  BY <1>1, TailFacts
<1>4. CASE Head(q) # Eos
  <2> DEFINE p == Append(o, Head(q))
  <2>1. Head(q) = T[(b + l) + 1] /\ InputRuns(Tail(q), T, (b + l) + 1)
        /\ Packets(Tail(q)) = Packets(q) - 1
    <3>1. b + l \in Nat
      BY <1>1
    <3> HIDE DEF b, l
    <3> QED BY <1>1, <1>2, <1>4, <3>1, InputTail
  <2>2. Head(q) = T[b + (l + 1)]
    <3>1. (b + l) + 1 = b + (l + 1)
      BY <1>1
    <3> QED BY <2>1, <3>1
  <2>3. Runs(p, T, b)
    <3> HIDE DEF b
    <3> QED BY <1>1, <1>2, <1>3, <2>2, RunsAppend
  <2>4. p \in Seq(Int) /\ Len(p) = l + 1
    BY <1>1, <1>3, AppendFacts
  <2>5. b + Len(p) = (b + l) + 1 /\ b + Len(p) + Packets(Tail(q)) = n
    <3> HIDE DEF b, l, p
    <3> QED BY <1>1, <1>2, <2>1, <2>4
  <2>6. InputRuns(Tail(q), T, b + Len(p))
    <3> HIDE DEF p
    <3> QED BY <2>1, <2>5
  <2> HIDE DEF p
  <2>7. InLine(T, n, h, c, p, Tail(q))
    BY <1>2, <1>3, <2>3, <2>4, <2>5, <2>6 DEF InLine
  <2> QED BY <1>4, <2>7 DEF p
<1>5. CASE Head(q) = Eos
  <2>1. Tail(q) = <<>> /\ Packets(q) = 0
    <3>1. b + l \in Nat
      BY <1>1
    <3> HIDE DEF b, l
    <3> QED BY <1>1, <1>2, <1>5, <3>1, InputTail
  <2>2. InputRuns(<<>>, T, b + l) /\ Packets(<<>>) = 0
    BY DEF InputRuns, Packets
  <2>3. InLine(T, n, h, c, o, <<>>)
    BY <1>1, <1>2, <1>3, <2>1, <2>2 DEF InLine
  <2> QED BY <1>5, <2>1, <2>3
<1> QED BY <1>4, <1>5

\* A packet is pushed: the next one of the track, or the end of the stream.
LEMMA LinePush ==
  ASSUME NEW T, NEW n, NEW h, NEW c, NEW o, NEW q, InLine(T, n, h, c, o, q), NoEos(q)
  PROVE  /\ \A e \in Nat : e = T[n + 1] => InLine(T, n + 1, h, c, o, Append(q, e))
         /\ InLine(T, n, h, c, o, Append(q, Eos))
<1> DEFINE b == Len(h) + Len(c) + Len(o)
<1>1. b \in Nat /\ Packets(q) \in Nat /\ Len(q) \in Nat /\ q \in Seq(Int)
  BY LineTypes
<1>2. /\ Runs(o, T, Len(h) + Len(c)) /\ InputRuns(q, T, b) /\ b + Packets(q) = n
      /\ h \in Seq(Int) /\ c \in Seq(Int) /\ o \in Seq(Int)
      /\ Runs(h, T, 0) /\ Runs(c, T, Len(h))
  BY DEF InLine
<1>3. ASSUME NEW e \in Int, e # Eos => e = T[b + (Len(q) + 1)]
      PROVE  /\ InputRuns(Append(q, e), T, b)
             /\ Packets(q) = Len(q)
             /\ Packets(Append(q, e)) = IF e = Eos THEN Len(q) ELSE Len(q) + 1
             /\ Append(q, e) \in Seq(Int)
  <2>1. Append(q, e) \in Seq(Int)
    BY <1>1, AppendFacts
  <2> HIDE DEF b
  <2> QED BY <1>1, <1>2, <1>3, <2>1, InputAppend
<1>4. Eos \in Int /\ \A e \in Nat : e # Eos
  BY DEF Eos, Invalid
<1>5. InLine(T, n, h, c, o, Append(q, Eos))
  <2>1. /\ InputRuns(Append(q, Eos), T, b) /\ Packets(q) = Len(q)
        /\ Packets(Append(q, Eos)) = Len(q) /\ Append(q, Eos) \in Seq(Int)
    BY <1>3, <1>4
  <2>2. b + Packets(Append(q, Eos)) = n
    BY <1>2, <2>1
  <2> QED BY <1>2, <2>1, <2>2 DEF InLine
<1>6. ASSUME NEW e \in Nat, e = T[n + 1]
      PROVE  InLine(T, n + 1, h, c, o, Append(q, e))
  <2>1. Packets(q) = Len(q)
    BY <1>3, <1>4
  <2>2. e = T[b + (Len(q) + 1)]
    <3>1. b + (Len(q) + 1) = n + 1
      <4> HIDE DEF b
      <4> QED BY <1>1, <1>2, <2>1
    <3> QED BY <1>6, <3>1
  <2>3. /\ InputRuns(Append(q, e), T, b) /\ Packets(Append(q, e)) = Len(q) + 1
        /\ Append(q, e) \in Seq(Int)
    BY <1>3, <1>4, <2>2
  <2>4. b + Packets(Append(q, e)) = n + 1
    <3> HIDE DEF b
    <3> QED BY <1>1, <1>2, <2>1, <2>3
  <2> QED BY <1>2, <2>3, <2>4 DEF InLine
<1> QED BY <1>5, <1>6

\* The sink takes the decoder's oldest frame, and gives its own oldest one back.
LEMMA LineTake ==
  ASSUME NEW T, NEW n, NEW h, NEW c, NEW o, NEW q, InLine(T, n, h, c, o, q), o # <<>>
  PROVE  InLine(T, n, h, Append(c, Head(o)), Tail(o), q)
<1> DEFINE b == Len(h)  d == Append(c, Head(o))
<1>1. /\ b \in Nat /\ Len(c) \in Nat /\ Len(o) \in Nat /\ Packets(q) \in Nat
      /\ c \in Seq(Int) /\ o \in Seq(Int)
  BY LineTypes
<1>2. /\ Runs(c, T, b) /\ Runs(o, T, b + Len(c)) /\ InputRuns(q, T, b + Len(c) + Len(o))
      /\ b + Len(c) + Len(o) + Packets(q) = n
      /\ h \in Seq(Int) /\ q \in Seq(Int) /\ Runs(h, T, 0)
  BY DEF InLine
<1>3. /\ Tail(o) \in Seq(Int) /\ Len(Tail(o)) = Len(o) - 1 /\ Head(o) \in Int
  BY <1>1, TailFacts
<1>4. Head(o) = T[(b + Len(c)) + 1] /\ Runs(Tail(o), T, (b + Len(c)) + 1)
  <2> DEFINE a == b + Len(c)
  <2>1. a \in Nat /\ Runs(o, T, a)
    BY <1>1, <1>2
  <2> HIDE DEF a
  <2>2. Head(o) = T[a + 1] /\ Runs(Tail(o), T, a + 1)
    BY <1>1, <2>1, RunsTail
  <2> QED BY <2>2 DEF a
<1>5. Len(d) = Len(c) + 1 /\ d \in Seq(Int)
  BY <1>1, <1>3, AppendFacts
<1>6. Runs(d, T, b)
  <2>1. Head(o) = T[b + (Len(c) + 1)]
    <3>1. (b + Len(c)) + 1 = b + (Len(c) + 1)
      BY <1>1
    <3> QED BY <1>4, <3>1
  <2> HIDE DEF b
  <2> QED BY <1>1, <1>2, <1>3, <2>1, RunsAppend
<1>7. /\ b + Len(d) = (b + Len(c)) + 1
      /\ b + Len(d) + Len(Tail(o)) = b + Len(c) + Len(o)
      /\ b + Len(d) + Len(Tail(o)) + Packets(q) = n
  <2> HIDE DEF b, d
  <2> QED BY <1>1, <1>2, <1>3, <1>5
<1>8. Runs(Tail(o), T, b + Len(d)) /\ InputRuns(q, T, b + Len(d) + Len(Tail(o)))
  <2> HIDE DEF b, d
  <2> QED BY <1>2, <1>4, <1>7
<1>9. InLine(T, n, h, d, Tail(o), q)
  <2> HIDE DEF d
  <2> QED BY <1>2, <1>3, <1>5, <1>6, <1>7, <1>8 DEF InLine
<1> QED BY <1>9

LEMMA LineRelease ==
  ASSUME NEW T, NEW n, NEW h, NEW c, NEW o, NEW q, InLine(T, n, h, c, o, q), c # <<>>
  PROVE  InLine(T, n, Append(h, Head(c)), Tail(c), o, q)
<1> DEFINE d == Append(h, Head(c))
<1>1. /\ Len(h) \in Nat /\ Len(c) \in Nat /\ Len(o) \in Nat /\ Packets(q) \in Nat
      /\ h \in Seq(Int) /\ c \in Seq(Int)
  BY LineTypes
<1>2. /\ Runs(h, T, 0) /\ Runs(c, T, Len(h)) /\ Runs(o, T, Len(h) + Len(c))
      /\ InputRuns(q, T, Len(h) + Len(c) + Len(o))
      /\ Len(h) + Len(c) + Len(o) + Packets(q) = n
      /\ o \in Seq(Int) /\ q \in Seq(Int)
  BY DEF InLine
<1>3. /\ Tail(c) \in Seq(Int) /\ Len(Tail(c)) = Len(c) - 1 /\ Head(c) \in Int
  BY <1>1, TailFacts
<1>4. Head(c) = T[Len(h) + 1] /\ Runs(Tail(c), T, Len(h) + 1)
  BY <1>1, <1>2, RunsTail
<1>5. Len(d) = Len(h) + 1 /\ d \in Seq(Int)
  BY <1>1, <1>3, AppendFacts
<1>6. Runs(d, T, 0)
  <2>1. Head(c) = T[0 + (Len(h) + 1)]
    <3>1. 0 + (Len(h) + 1) = Len(h) + 1
      BY <1>1
    <3> QED BY <1>4, <3>1
  <2> QED BY <1>1, <1>2, <1>3, <2>1, RunsAppend
<1>7. /\ Len(d) + Len(Tail(c)) = Len(h) + Len(c)
      /\ Len(d) + Len(Tail(c)) + Len(o) = Len(h) + Len(c) + Len(o)
  <2> HIDE DEF d
  <2> QED BY <1>1, <1>3, <1>5
<1>8. InLine(T, n, d, Tail(c), o, q)
  <2> HIDE DEF d
  <2> QED BY <1>2, <1>3, <1>4, <1>5, <1>6, <1>7 DEF InLine
<1> QED BY <1>8

LEMMA LineEmpty ==
  ASSUME NEW T
  PROVE  InLine(T, 0, <<>>, <<>>, <<>>, <<>>)
<1>1. Len(<<>>) = 0 /\ <<>> \in Seq(Int)
  OBVIOUS
<1>2. \A b : Runs(<<>>, T, b) /\ InputRuns(<<>>, T, b)
  BY <1>1 DEF Runs, InputRuns
<1>3. Packets(<<>>) = 0
  BY DEF Packets
<1> QED BY <1>1, <1>2, <1>3 DEF InLine

\* A run from the first frame of a track on is a prefix of it, or all of it.
LEMMA RunIsPrefix ==
  ASSUME NEW S, NEW N \in Nat, NEW t \in [1 .. N -> S], NEW s \in Seq(Int),
         Runs(s, t, 0), Len(s) <= N
  PROVE  /\ IsPrefix(s, t)
         /\ Len(s) = N => s = t
<1> DEFINE n == Len(s)  R == S \cup Int
<1>1. n \in Nat /\ DOMAIN s = 1 .. n
  BY LenProperties
<1>2. \A i \in 1 .. n : s[i] = t[i]
  <2>1. \A i \in 1 .. n : s[i] = t[0 + i]
    BY DEF Runs
  <2>2. \A i \in 1 .. n : 0 + i = i
    BY <1>1
  <2> HIDE DEF n
  <2> QED BY <2>1, <2>2
<1>3. t \in [1 .. N -> R]
  OBVIOUS
<1>4. t \in Seq(R)
  <2> HIDE DEF R
  <2> QED BY <1>3, SeqDef
<1>5. Len(t) = N
  <2> HIDE DEF R
  <2>1. Len(t) \in Nat /\ DOMAIN t = 1 .. Len(t)
    BY <1>4, LenProperties
  <2> QED BY <2>1
<1>6. s \in Seq(R)
  <2>1. Int \subseteq R
    OBVIOUS
  <2> HIDE DEF R
  <2> QED BY <2>1, SeqMonotonic
<1>7. n <= Len(t)
  BY <1>5
<1>8. SubSeq(s, 1, n) = SubSeq(t, 1, n)
  <2>1. SubSeq(s, 1, n) = s
    BY <1>6, SubSeqFull
  <2> DEFINE v == SubSeq(t, 1, n)
  <2>2. v \in Seq(R) /\ Len(v) = n /\ \A i \in 1 .. n : v[i] = t[i]
    <3>1. n \in 0 .. Len(t)
      BY <1>1, <1>7
    <3> HIDE DEF n, R
    <3>2. v = Restrict(t, 1 .. n)
      BY <1>4, <3>1, SubSeqRestrict
    <3>3. DOMAIN v = 1 .. n /\ \A i \in 1 .. n : v[i] = t[i]
      BY <3>2 DEF Restrict
    <3>4. \A i \in 1 .. n : t[i] \in R
      BY <1>4, <3>1, ElementOfSeq
    <3>5. v \in Seq(R)
      BY <1>1, <3>4, SubSeqProperties
    <3>6. Len(v) = n
      <4> HIDE DEF v
      <4>1. Len(v) \in Nat /\ DOMAIN v = 1 .. Len(v)
        BY <3>5, LenProperties
      <4> QED BY <1>1, <3>3, <4>1
    <3> QED BY <3>3, <3>5, <3>6
  <2>3. v = s
    <3> HIDE DEF v
    <3>1. Len(v) = Len(s) /\ \A i \in 1 .. Len(v) : v[i] = s[i]
      BY <1>2, <2>2
    <3> HIDE DEF R
    <3> QED BY <1>6, <2>2, <3>1, SeqEqual
  <2> QED BY <2>1, <2>3
<1>9. IsPrefix(s, t)
  <2> HIDE DEF R
  <2> QED BY <1>7, <1>8 DEF IsPrefix
<1>10. ASSUME n = N PROVE s = t
  <2>1. Len(s) = Len(t) /\ \A i \in 1 .. Len(s) : s[i] = t[i]
    BY <1>2, <1>5, <1>10
  <2> HIDE DEF R
  <2> QED BY <1>4, <1>6, <2>1, SeqEqual
<1> QED BY <1>9, <1>10

-----------------------------------------------------------------------------
(* The inductive invariant *)

\* The first packet that was not pushed into a decoder.
Pushed == IF cached = <<>> THEN pos ELSE pos - 1

Places ==
  /\ FileOK /\ pos \in 1 .. Len(file) + 1 /\ start \in 1 .. Pushed
  /\ cached = <<>> \/ (Pushed \in 1 .. Len(file) /\ cached = <<file[Pushed]>>)

Flags ==
  /\ input \in [Kinds -> Seq(Int)] /\ output \in [Kinds -> Seq(Int)]
  /\ cache \in [Kinds -> Seq(Int)] /\ handled \in [Kinds -> Seq(Int)]
  /\ decoded \in [Kinds -> BOOLEAN] /\ receivedEos \in [Kinds -> BOOLEAN]
  /\ hasRenderEos \in [Kinds -> BOOLEAN]
  /\ strmReadEnd \in BOOLEAN /\ playEnd \in BOOLEAN

\* Every packet pushed since the start is on its way or handled, in order.
Line(k) ==
  InLine(Track(k, start), Between(k, start, Pushed), handled[k], cache[k], output[k], input[k])

\* The end follows the last packet from place to place.
ReadEnd == strmReadEnd => cached = <<>> /\ pos = Len(file) + 1
End(k) ==
  /\ ~strmReadEnd => NoEos(input[k])
  /\ decoded[k] => strmReadEnd /\ input[k] = <<>>
  /\ receivedEos[k] => output[k] = <<>> /\ decoded[k]
  /\ hasRenderEos[k] => receivedEos[k] /\ cache[k] = <<>>

\* It is told when it has come out everywhere, and once.
Told ==
  /\ completions \in {0, 1}
  /\ completions = 1 => ~playEnd /\ PlayEosWith(hasRenderEos)
  /\ playEnd => PlayEosWith(hasRenderEos)

Sound == Places /\ Flags /\ (\A k \in Kinds : Line(k) /\ End(k)) /\ ReadEnd /\ Told

PInv ==
  /\ state # "stopped" => Sound
  /\ FramesInOrder /\ CompleteIsComplete

LEMMA PlacesTypes ==
  ASSUME Places
  PROVE  /\ Len(file) \in Nat /\ pos \in Int /\ Pushed \in Nat /\ start \in Nat
         /\ start \in 1 .. Len(file) + 1 /\ start <= Pushed /\ Pushed <= Len(file) + 1
         /\ FileOK
<1>1. Len(file) \in Nat
  BY PacketTypes DEF Places
<1> QED BY <1>1 DEF Places, Pushed

\* What the invariant says of what was handled.
LEMMA SoundIsRight ==
  ASSUME Sound
  PROVE  FramesInOrder /\ CompleteIsComplete
<1>1. ASSUME NEW k \in Kinds
      PROVE  /\ IsPrefix(handled[k], Track(k, start))
             /\ Len(handled[k]) = Between(k, start, Len(file) + 1) => handled[k] = Track(k, start)
             /\ Between(k, start, Len(file) + 1) \in Nat
             /\ Len(handled[k]) \in Nat /\ Len(handled[k]) <= Between(k, start, Len(file) + 1)
             /\ Line(k) /\ End(k)
  <2> DEFINE T == Track(k, start)  N == Between(k, start, Len(file) + 1)
             n == Between(k, start, Pushed)  h == handled[k]  S == {T[m] : m \in 1 .. N}
  <2>1. Line(k) /\ End(k) /\ Places
    BY DEF Sound
  <2>2. DOMAIN T = 1 .. N /\ N \in Nat
    BY <2>1, PlacesTypes, TrackLength
  <2>3. T \in [1 .. N -> S]
    BY DEF Track
  <2>4. InLine(T, n, h, cache[k], output[k], input[k])
    BY <2>1 DEF Line
  <2>5. n <= N
    BY <2>1, PlacesTypes, BetweenGrows
  <2> HIDE DEF T, n, N, h, S
  <2>6. /\ Len(h) \in Nat /\ Len(cache[k]) \in Nat /\ Len(output[k]) \in Nat
        /\ Packets(input[k]) \in Nat /\ h \in Seq(Int) /\ n \in Nat
    BY <2>4, LineTypes
  <2>7. Len(h) <= N
    <3> DEFINE l == Len(h)  c == Len(cache[k])  o == Len(output[k])  p == Packets(input[k])
    <3>1. l + c + o + p = n
      BY <2>4 DEF InLine
    <3>2. l \in Nat /\ c \in Nat /\ o \in Nat /\ p \in Nat /\ n \in Nat /\ N \in Nat
      BY <2>2, <2>6
    <3> HIDE DEF l, c, o, p
    <3>3. l <= N
      BY <2>5, <3>1, <3>2
    <3> QED BY <3>3 DEF l
  <2>8. Runs(h, T, 0)
    BY <2>4 DEF InLine
  <2>9. IsPrefix(h, T) /\ (Len(h) = N => h = T)
    <3>1. N \in Nat /\ h \in Seq(Int)
      BY <2>2, <2>6
    <3> QED BY <2>3, <2>7, <2>8, <3>1, RunIsPrefix
  <2> QED BY <2>1, <2>2, <2>6, <2>7, <2>9 DEF T, N, h
<1>2. ASSUME completions = 1, NEW k \in Kinds
      PROVE  handled[k] = Track(k, start)
  <2>1. CASE Has(k)
    <3>1. hasRenderEos[k]
      BY <1>2, <2>1 DEF Sound, Told, PlayEosWith
    <3>2. cache[k] = <<>> /\ output[k] = <<>> /\ input[k] = <<>> /\ strmReadEnd
      BY <1>1, <3>1 DEF End
    <3>3. Pushed = Len(file) + 1
      BY <3>2 DEF Sound, ReadEnd, Pushed
    <3>4. InLine(Track(k, start), Between(k, start, Len(file) + 1), handled[k], <<>>, <<>>, <<>>)
      BY <1>1, <3>2, <3>3 DEF Line
    <3>5. Len(handled[k]) = Between(k, start, Len(file) + 1)
      <4>1. Len(<<>>) = 0 /\ Packets(<<>>) = 0
        BY DEF Packets
      <4>2. Len(handled[k]) + 0 + 0 + 0 = Between(k, start, Len(file) + 1)
        BY <3>4, <4>1 DEF InLine
      <4> QED BY <1>1, <4>2
    <3> QED BY <1>1, <3>5
  <2>2. CASE ~Has(k)
    <3>1. Places /\ Len(file) + 1 \in Int
      BY PlacesTypes DEF Sound
    <3>2. Between(k, 1, Len(file) + 1) \in Nat /\ DOMAIN Track(k, 1) = 1 .. Between(k, 1, Len(file) + 1)
      BY <3>1, PlacesTypes, TrackLength
    <3>3. DOMAIN Track(k, 1) = 1 .. 0
      BY <2>2 DEF Has
    <3>4. Between(k, 1, Len(file) + 1) = 0
      BY <3>2, <3>3
    <3>5. Between(k, start, Len(file) + 1) <= Between(k, 1, Len(file) + 1)
      BY <3>1, PlacesTypes, BetweenGrows
    <3> QED BY <1>1, <3>4, <3>5
  <2> QED BY <2>1, <2>2
<1>3. FramesInOrder
  BY <1>1 DEF FramesInOrder
<1>4. CompleteIsComplete
  BY <1>2 DEF CompleteIsComplete, Sound, Told
<1> QED BY <1>3, <1>4

-----------------------------------------------------------------------------
(* The steps *)

LEMMA LineAfter ==
  ASSUME NEW k \in Kinds, file' = file, start' = start, NEW n, NEW p, Pushed' = p,
         Between(k, start, p) = n,
         InLine(Track(k, start), n, handled'[k], cache'[k], output'[k], input'[k])
  PROVE  Line(k)'
<1>1. Track(k, start)' = Track(k, start)
  BY DEF Track, Between
<1>2. Between(k, start, Pushed)' = n
  BY DEF Between
<1> QED BY <1>1, <1>2 DEF Line

LEMMA LineStill ==
  ASSUME NEW k \in Kinds, file' = file, start' = start, Pushed' = Pushed, Line(k),
         handled'[k] = handled[k], cache'[k] = cache[k], output'[k] = output[k],
         input'[k] = input[k]
  PROVE  Line(k)'
<1>1. InLine(Track(k, start), Between(k, start, Pushed),
             handled'[k], cache'[k], output'[k], input'[k])
  BY DEF Line
<1> QED BY <1>1, LineAfter

LEMMA SameTracks ==
  ASSUME file' = file, NEW k \in Kinds
  PROVE  Has(k)' = Has(k)
<1>1. Track(k, 1)' = Track(k, 1)
  BY DEF Track, Between
<1> QED BY <1>1 DEF Has

\* A step that leaves the packets, the frames and the ends alone.
LEMMA QuietStep ==
  ASSUME Sound, UNCHANGED <<demuxVars, codecVars, cache, receivedEos, endVars, history>>
  PROVE  Sound'
<1>1. UNCHANGED <<file, pos, cached, strmReadEnd, input, output, decoded, cache, receivedEos,
                  hasRenderEos, playEnd, start, handled, completions>>
  BY DEF demuxVars, codecVars, endVars, history
<1>2. Pushed' = Pushed
  BY <1>1 DEF Pushed
<1>3. Places' /\ Flags' /\ ReadEnd'
  BY <1>1, <1>2 DEF Sound, Places, FileOK, Flags, ReadEnd
<1>4. ASSUME NEW k \in Kinds PROVE Line(k)' /\ End(k)'
  <2>1. Line(k)'
    BY <1>1, <1>2, LineStill DEF Sound
  <2>2. End(k)'
    BY <1>1 DEF Sound, End
  <2> QED BY <2>1, <2>2
<1>5. Told'
  BY <1>1, SameTracks DEF Sound, Told, PlayEosWith
<1> QED BY <1>3, <1>4, <1>5 DEF Sound

LEMMA DecodeStep ==
  ASSUME Sound, NEW k \in Kinds, Decode(k)
  PROVE  Sound'
<1>1. UNCHANGED <<file, pos, cached, strmReadEnd, cache, receivedEos,
                  hasRenderEos, playEnd, start, handled, completions>>
  BY DEF Decode, demuxVars, sinkVars, endVars, history
<1>2. Pushed' = Pushed
  BY <1>1 DEF Pushed
<1>3. /\ input[k] \in Seq(Int) /\ output[k] \in Seq(Int) /\ input[k] # <<>>
      /\ Line(k) /\ End(k)
  BY DEF Sound, Flags, Decode
<1>4. /\ Tail(input[k]) \in Seq(Int) /\ Head(input[k]) \in Int
      /\ Head(input[k]) = input[k][1] /\ 1 \in 1 .. Len(input[k])
  BY <1>3, TailFacts
<1>5. /\ input' = [input EXCEPT ![k] = Tail(input[k])]
      /\ \/ /\ Head(input[k]) = Eos
            /\ decoded' = [decoded EXCEPT ![k] = TRUE] /\ output' = output
         \/ /\ Head(input[k]) # Eos /\ decoded' = decoded
            /\ output' = [output EXCEPT ![k] = Append(output[k], Head(input[k]))]
  BY DEF Decode
<1>6. Append(output[k], Head(input[k])) \in Seq(Int)
  BY <1>3, <1>4, AppendFacts
<1>7. Places' /\ ReadEnd'
  BY <1>1, <1>2 DEF Sound, Places, FileOK, ReadEnd
<1>8. Flags'
  <2> DEFINE q == Tail(input[k])  o == Append(output[k], Head(input[k]))
  <2>1. q \in Seq(Int) /\ o \in Seq(Int)
    BY <1>4, <1>6
  <2>2. input' \in [Kinds -> Seq(Int)]
    <3>1. input' = [input EXCEPT ![k] = q]
      BY <1>5
    <3> HIDE DEF q, o
    <3> QED BY <2>1, <3>1 DEF Sound, Flags
  <2>3. output' \in [Kinds -> Seq(Int)] /\ decoded' \in [Kinds -> BOOLEAN]
    <3>1. output' = output \/ output' = [output EXCEPT ![k] = o]
      BY <1>5
    <3>2. decoded' = decoded \/ decoded' = [decoded EXCEPT ![k] = TRUE]
      BY <1>5
    <3> HIDE DEF q, o
    <3> QED BY <2>1, <3>1, <3>2 DEF Sound, Flags
  <2> QED BY <1>1, <2>2, <2>3 DEF Sound, Flags
<1>9. ASSUME NEW j \in Kinds PROVE Line(j)' /\ End(j)'
  <2>1. CASE j # k
    <3>1. input'[j] = input[j] /\ output'[j] = output[j] /\ decoded'[j] = decoded[j]
      BY <1>5, <2>1 DEF Sound, Flags
    <3>2. Line(j)'
      BY <1>1, <1>2, <3>1, LineStill DEF Sound
    <3>3. End(j)'
      BY <1>1, <3>1 DEF Sound, End
    <3> QED BY <3>2, <3>3
  <2>2. CASE j = k
    <3>1. input'[k] = Tail(input[k])
      BY <1>5 DEF Sound, Flags
    <3>2. /\ Head(input[k]) = Eos => decoded'[k] = TRUE /\ output'[k] = output[k]
          /\ Head(input[k]) # Eos =>
               decoded'[k] = decoded[k] /\ output'[k] = Append(output[k], Head(input[k]))
      BY <1>5 DEF Sound, Flags
    <3>3. InLine(Track(k, start), Between(k, start, Pushed), handled[k], cache[k],
                 output[k], input[k])
      BY <1>3 DEF Line
    <3>4. InLine(Track(k, start), Between(k, start, Pushed), handled'[k], cache'[k],
                 output'[k], input'[k])
      <4> DEFINE T == Track(k, start)  n == Between(k, start, Pushed)  q == input[k]  o == output[k]
      <4>1. q # <<>> /\ InLine(T, n, handled[k], cache[k], o, q)
        BY <1>3, <3>3
      <4> HIDE DEF T, n
      <4>2. CASE Head(q) = Eos
        <5>1. InLine(T, n, handled[k], cache[k], o, Tail(q))
          BY <4>1, <4>2, LineDecode
        <5> QED BY <1>1, <3>1, <3>2, <4>2, <5>1 DEF T, n
      <4>3. CASE Head(q) # Eos
        <5>1. InLine(T, n, handled[k], cache[k], Append(o, Head(q)), Tail(q))
          BY <4>1, <4>3, LineDecode
        <5> QED BY <1>1, <3>1, <3>2, <4>3, <5>1 DEF T, n
      <4> QED BY <4>2, <4>3
    <3>5. Line(k)'
      BY <1>1, <1>2, <3>4, LineAfter
    <3>6. ~decoded[k] /\ ~receivedEos[k] /\ ~hasRenderEos[k]
      BY <1>3 DEF End
    <3>7. Head(input[k]) = Eos => strmReadEnd /\ Tail(input[k]) = <<>>
      <4>1. Head(input[k]) = Eos => Tail(input[k]) = <<>>
        BY <1>3, <3>3, LineDecode
      <4>2. Head(input[k]) = Eos => strmReadEnd
        BY <1>3, <1>4 DEF End, NoEos
      <4> QED BY <4>1, <4>2
    <3>8. ~strmReadEnd => NoEos(Tail(input[k]))
      <4> SUFFICES ASSUME ~strmReadEnd, NEW i \in 1 .. Len(Tail(input[k]))
                   PROVE  Tail(input[k])[i] # Eos
        BY DEF NoEos
      <4>1. i + 1 \in 1 .. Len(input[k]) /\ Tail(input[k])[i] = input[k][i + 1]
        BY <1>3, TailFacts
      <4> QED BY <1>3, <4>1 DEF End, NoEos
    <3>9. End(k)'
      BY <1>1, <3>1, <3>2, <3>6, <3>7, <3>8 DEF End
    <3> QED BY <2>2, <3>5, <3>9
  <2> QED BY <2>1, <2>2
<1>10. Told'
  BY <1>1, SameTracks DEF Sound, Told, PlayEosWith
<1> QED BY <1>7, <1>8, <1>9, <1>10 DEF Sound

LEMMA ReadAndPushStep ==
  ASSUME Sound, Running("read"), ReadAndPush,
         UNCHANGED <<file, output, decoded, sinkVars, endVars, history>>
  PROVE  Sound'
<1> DEFINE x == Pushed  p == file[x]
<1>1. UNCHANGED <<file, output, decoded, strmReadEnd, cache, receivedEos, hasRenderEos, playEnd,
                  start, handled, completions>> /\ ~strmReadEnd
  BY DEF ReadAndPush, sinkVars, endVars, history
<1>2. Places /\ Flags /\ ReadEnd /\ Told
  BY DEF Sound
<1>3. /\ Len(file) \in Nat /\ pos \in 1 .. Len(file) + 1 /\ start \in 1 .. Len(file) + 1
      /\ start \in 1 .. x /\ FileOK
      /\ cached = <<>> \/ (x \in 1 .. Len(file) /\ cached = <<p>>)
  BY <1>2, PlacesTypes DEF Places
<1>4. /\ x \in 1 .. Len(file)
      /\ x = IF cached = <<>> THEN pos ELSE pos - 1
      /\ Packet[1] = p
  BY <1>3 DEF ReadAndPush, Pushed, Packet
<1>5. p.kind \in Kinds /\ p.ts \in Nat
  BY <1>3, <1>4, PacketTypes
<1>6. pos' = x + 1 /\ <<p>> # <<>>
  BY <1>3, <1>4 DEF ReadAndPush
<1>7. \/ Full(p.kind) /\ cached' = <<p>> /\ input' = input
      \/ ~Full(p.kind) /\ cached' = <<>>
         /\ input' = [input EXCEPT ![p.kind] = Append(input[p.kind], p.ts)]
  BY <1>4 DEF ReadAndPush, PushPacket
<1>8. ReadEnd' /\ Told'
  BY <1>1, <1>2, SameTracks DEF ReadEnd, Told, PlayEosWith
<1>9. CASE Full(p.kind) /\ cached' = <<p>> /\ input' = input
  <2>1. Pushed' = x
    BY <1>4, <1>3, <1>6, <1>9 DEF Pushed
  <2>2. Places' /\ Flags'
    <3>1. FileOK' /\ Flags'
      BY <1>1, <1>2, <1>9 DEF Places, FileOK, Flags
    <3>2. cached' = <<file'[Pushed']>> /\ Pushed' \in 1 .. Len(file')
      BY <1>1, <1>4, <1>9, <2>1
    <3>3. pos' \in 1 .. Len(file') + 1 /\ start' \in 1 .. Pushed'
      BY <1>1, <1>3, <1>4, <1>6, <2>1
    <3> QED BY <3>1, <3>2, <3>3 DEF Places
  <2>3. \A k \in Kinds : Line(k)' /\ End(k)'
    BY <1>1, <1>9, <2>1, LineStill DEF Sound, End
  <2> QED BY <1>8, <2>2, <2>3 DEF Sound
<1>10. CASE ~Full(p.kind) /\ cached' = <<>>
            /\ input' = [input EXCEPT ![p.kind] = Append(input[p.kind], p.ts)]
  <2>1. Pushed' = x + 1
    BY <1>6, <1>10 DEF Pushed
  <2>2. Append(input[p.kind], p.ts) \in Seq(Int)
    <3>1. input[p.kind] \in Seq(Int) /\ p.ts \in Int
      BY <1>2, <1>5 DEF Flags
    <3> HIDE DEF p
    <3> QED BY <3>1, AppendFacts
  <2>3. Places' /\ Flags'
    <3>1. FileOK' /\ pos' \in 1 .. Len(file') + 1 /\ start' \in 1 .. Pushed'
      BY <1>1, <1>2, <1>3, <1>4, <1>6, <2>1 DEF Places, FileOK
    <3>2. input' \in [Kinds -> Seq(Int)]
      <4> DEFINE q == Append(input[p.kind], p.ts)  j == p.kind
      <4>1. q \in Seq(Int) /\ input' = [input EXCEPT ![j] = q]
        BY <1>10, <2>2
      <4> HIDE DEF q, j
      <4> QED BY <1>2, <4>1 DEF Flags
    <3>3. Flags'
      BY <1>1, <1>2, <3>2 DEF Flags
    <3> QED BY <1>10, <3>1, <3>3 DEF Places
  <2>4. ASSUME NEW k \in Kinds PROVE Line(k)' /\ End(k)'
    <3> DEFINE T == Track(k, start)  n == Between(k, start, x)
    <3>1. Line(k) /\ End(k)
      BY DEF Sound
    <3>2. Between(k, start, x + 1) = n + (IF p.kind = k THEN 1 ELSE 0) /\ n \in Nat
      <4>1. start \in Int /\ x \in Int /\ start <= x
        BY <1>3, <1>4
      <4> HIDE DEF x
      <4> QED BY <4>1, BetweenNext, BetweenNat DEF p
    <3>3. InLine(T, n, handled[k], cache[k], output[k], input[k])
      BY <3>1 DEF Line
    <3>4. NoEos(input[k]) /\ ~decoded[k] /\ ~receivedEos[k] /\ ~hasRenderEos[k]
      BY <1>1, <3>1 DEF End
    <3>5. CASE p.kind = k
      <4>1. input'[k] = Append(input[k], p.ts)
        BY <1>2, <1>10, <3>5 DEF Flags
      <4>2. p.ts = T[n + 1]
        <5>1. x \in start .. Len(file) /\ file[x].kind = k
          BY <1>3, <1>4, <3>5
        <5> HIDE DEF x
        <5> QED BY <1>3, <5>1, TrackHas DEF p
      <4>3. InLine(T, n + 1, handled[k], cache[k], output[k], Append(input[k], p.ts))
        <5> DEFINE e == p.ts
        <5>1. e \in Nat /\ e = T[n + 1]
          BY <1>5, <4>2
        <5> HIDE DEF T, n, e
        <5>2. InLine(T, n + 1, handled[k], cache[k], output[k], Append(input[k], e))
          BY <3>3, <3>4, <5>1, LinePush
        <5> QED BY <5>2 DEF e
      <4>4. InLine(T, n + 1, handled'[k], cache'[k], output'[k], input'[k])
        BY <1>1, <4>1, <4>3
      <4>5. Line(k)'
        BY <1>1, <2>1, <3>2, <3>5, <4>4, LineAfter
      <4>6. NoEos(input[k]) => NoEos(Append(input[k], p.ts))
        <5> DEFINE q == input[k]  e == p.ts
        <5>1. q \in Seq(Int) /\ e \in Nat
          BY <1>2, <1>5 DEF Flags
        <5> HIDE DEF q, e
        <5>2. /\ Len(Append(q, e)) = Len(q) + 1 /\ Len(q) \in Nat
              /\ \A i \in 1 .. Len(q) : Append(q, e)[i] = q[i]
              /\ Append(q, e)[Len(q) + 1] = e
          BY <5>1, AppendFacts
        <5>3. e # Eos
          BY <5>1 DEF Eos, Invalid
        <5>4. NoEos(q) => NoEos(Append(q, e))
          <6> SUFFICES ASSUME NoEos(q), NEW i \in 1 .. Len(q) + 1
                       PROVE  Append(q, e)[i] # Eos
            BY <5>2 DEF NoEos
          <6>1. CASE i = Len(q) + 1
            BY <5>2, <5>3, <6>1
          <6>2. CASE i \in 1 .. Len(q)
            BY <5>2, <6>2 DEF NoEos
          <6> QED BY <5>2, <6>1, <6>2
        <5> QED BY <5>4 DEF q, e
      <4>7. End(k)'
        BY <1>1, <3>4, <4>1, <4>6 DEF End
      <4> QED BY <4>5, <4>7
    <3>6. CASE p.kind # k
      <4>1. input'[k] = input[k]
        BY <1>2, <1>10, <3>6 DEF Flags
      <4>2. InLine(T, n, handled'[k], cache'[k], output'[k], input'[k])
        BY <1>1, <3>3, <4>1
      <4>3. Between(k, start, x + 1) = n
        BY <3>2, <3>6
      <4>4. Line(k)'
        BY <1>1, <2>1, <4>2, <4>3, LineAfter
      <4>5. End(k)'
        BY <1>1, <3>1, <4>1 DEF End
      <4> QED BY <4>4, <4>5
    <3> QED BY <3>5, <3>6
  <2> QED BY <1>8, <2>3, <2>4 DEF Sound
<1> QED BY <1>7, <1>9, <1>10

LEMMA PushEosStep ==
  ASSUME Sound, PushEos, UNCHANGED <<file, output, decoded, sinkVars, endVars, history>>
  PROVE  Sound'
<1>1. UNCHANGED <<file, pos, cached, output, decoded, cache, receivedEos, hasRenderEos, playEnd,
                  start, handled, completions>>
      /\ ~strmReadEnd /\ strmReadEnd' = TRUE /\ cached = <<>> /\ pos > Len(file)
  BY DEF PushEos, sinkVars, endVars, history
<1>2. Places /\ Flags /\ Told
  BY DEF Sound
<1>3. Pushed' = Pushed
  BY <1>1 DEF Pushed
<1>4. Places'
  BY <1>1, <1>2, <1>3 DEF Places, FileOK
<1>5. ReadEnd'
  <2>1. pos = Len(file) + 1
    BY <1>1, <1>2, PlacesTypes DEF Places
  <2> QED BY <1>1, <2>1 DEF ReadEnd
<1>6. Told'
  BY <1>1, <1>2, SameTracks DEF Told, PlayEosWith
<1>7. Eos \in Int
  BY DEF Eos, Invalid
<1>8. ASSUME NEW k \in Kinds
      PROVE  /\ input'[k] \in {input[k], Append(input[k], Eos)} /\ input'[k] \in Seq(Int)
  <2>1. input[k] \in Seq(Int)
    BY <1>2 DEF Flags
  <2>2. Append(input[k], Eos) \in Seq(Int)
    BY <1>7, <2>1, AppendFacts
  <2> QED BY <2>1, <2>2 DEF PushEos
<1>9. Flags'
  <2>1. input' \in [Kinds -> Seq(Int)]
    <3>1. input' = [k \in Kinds |-> input'[k]]
      BY DEF PushEos
    <3> QED BY <1>8, <3>1
  <2> QED BY <1>1, <1>2, <2>1 DEF Flags
<1>10. ASSUME NEW k \in Kinds PROVE Line(k)' /\ End(k)'
  <2> DEFINE T == Track(k, start)  n == Between(k, start, Pushed)
  <2>1. Line(k) /\ End(k)
    BY DEF Sound
  <2>2. InLine(T, n, handled[k], cache[k], output[k], input[k]) /\ NoEos(input[k])
    BY <1>1, <2>1 DEF Line, End
  <2>3. InLine(T, n, handled[k], cache[k], output[k], Append(input[k], Eos))
    <3> HIDE DEF T, n
    <3> QED BY <2>2, LinePush
  <2>4. InLine(T, n, handled'[k], cache'[k], output'[k], input'[k])
    BY <1>1, <1>8, <2>2, <2>3
  <2>5. Line(k)'
    BY <1>1, <1>3, <2>4, LineAfter
  <2>6. End(k)'
    BY <1>1, <2>1 DEF End
  <2> QED BY <2>5, <2>6
<1> QED BY <1>4, <1>5, <1>6, <1>9, <1>10 DEF Sound

LEMMA EndOfRoundStep ==
  ASSUME Sound, EndOfRound
  PROVE  Sound'
<1>1. UNCHANGED <<file, pos, cached, strmReadEnd, input, output, decoded, cache, receivedEos,
                  hasRenderEos, start, handled>>
  BY DEF EndOfRound, demuxVars, codecVars, sinkVars
<1>2. Pushed' = Pushed
  BY <1>1 DEF Pushed
<1>3. playEnd' = FALSE /\ completions' = IF playEnd THEN completions + 1 ELSE completions
  BY DEF EndOfRound
<1>4. Places' /\ Flags' /\ ReadEnd'
  BY <1>1, <1>2, <1>3 DEF Sound, Places, FileOK, Flags, ReadEnd
<1>5. ASSUME NEW k \in Kinds PROVE Line(k)' /\ End(k)'
  <2>1. Line(k)'
    BY <1>1, <1>2, LineStill DEF Sound
  <2>2. End(k)'
    BY <1>1 DEF Sound, End
  <2> QED BY <2>1, <2>2
<1>6. Told'
  <2>1. PlayEosWith(hasRenderEos)' <=> PlayEosWith(hasRenderEos)
    BY <1>1, SameTracks DEF PlayEosWith
  <2> QED BY <1>3, <2>1 DEF Sound, Told
<1> QED BY <1>4, <1>5, <1>6 DEF Sound

LEMMA SeekStep ==
  ASSUME Sound, Seek
  PROVE  Sound'
<1>1. /\ file' = file /\ cached' = <<>> /\ strmReadEnd' = FALSE /\ playEnd' = FALSE
      /\ input' = Nowhere /\ output' = Nowhere /\ decoded' = Never /\ cache' = Nowhere
      /\ receivedEos' = Never /\ hasRenderEos' = Never
      /\ start' = pos' /\ handled' = Nowhere /\ completions' = 0
      /\ pos' \in {i \in 1 .. Len(file) : file[i].kind = Main} \cup {pos}
  BY DEF Seek, Flush
<1>2. Pushed' = pos' /\ pos' \in 1 .. Len(file) + 1 /\ FileOK
  BY <1>1, PlacesTypes DEF Sound, Places, Pushed
<1>3. Places' /\ ReadEnd'
  BY <1>1, <1>2 DEF Places, FileOK, ReadEnd
<1>4. Flags'
  <2>1. <<>> \in Seq(Int)
    OBVIOUS
  <2>2. Nowhere \in [Kinds -> Seq(Int)] /\ Never \in [Kinds -> BOOLEAN]
    BY <2>1 DEF Nowhere, Never
  <2> QED BY <1>1, <2>2 DEF Flags
<1>5. ASSUME NEW k \in Kinds PROVE Line(k)' /\ End(k)'
  <2>1. pos' \in Int
    BY <1>2, PacketTypes
  <2>2. Between(k, pos', pos') = 0
    BY <2>1, BetweenNone
  <2>3. (Between(k, start, Pushed) = 0)'
    BY <1>1, <1>2, <2>2 DEF Between
  <2>4. \A T : InLine(T, 0, handled'[k], cache'[k], output'[k], input'[k])
    BY <1>1, LineEmpty DEF Nowhere
  <2>5. Line(k)'
    BY <2>3, <2>4 DEF Line
  <2>6. End(k)'
    BY <1>1 DEF End, NoEos, Nowhere, Never
  <2> QED BY <2>5, <2>6
<1>6. Told'
  BY <1>1 DEF Told
<1> QED BY <1>3, <1>4, <1>5, <1>6 DEF Sound

LEMMA OfferedLine ==
  ASSUME NEW T, NEW n, NEW h, NEW c, NEW o, NEW q, InLine(T, n, h, c, o, q),
         NEW d, d = c \o (IF o = <<>> THEN <<>> ELSE <<Head(o)>>),
         NEW p, p = IF o = <<>> THEN <<>> ELSE Tail(o)
  PROVE  /\ InLine(T, n, h, d, p, q)
         /\ d # <<>> => InLine(T, n, Append(h, Head(d)), Tail(d), p, q)
<1>1. c \in Seq(Int) /\ o \in Seq(Int)
  BY LineTypes
<1>2. InLine(T, n, h, d, p, q)
  <2>1. CASE o = <<>>
    <3>1. d = c /\ p = o
      BY <1>1, <2>1, ConcatEmptySeq
    <3> QED BY <3>1
  <2>2. CASE o # <<>>
    <3>1. Head(o) \in Int
      BY <1>1, <2>2, TailFacts
    <3>2. d = Append(c, Head(o)) /\ p = Tail(o)
      BY <1>1, <2>2, <3>1, AppendIsConcat
    <3>3. InLine(T, n, h, Append(c, Head(o)), Tail(o), q)
      BY <2>2, LineTake
    <3> QED BY <3>2, <3>3
  <2> QED BY <2>1, <2>2
<1>3. ASSUME d # <<>> PROVE InLine(T, n, Append(h, Head(d)), Tail(d), p, q)
  BY <1>2, <1>3, LineRelease
<1> QED BY <1>2, <1>3

\* What a sink does in its part of a round.
Rendered(kind) ==
  /\ Take(kind)
  /\ \/ Keep(kind) /\ UNCHANGED endVars
     \/ Keep(kind) /\ Offered(kind) = <<>> /\ EosReceived(kind) /\ RenderEos(kind)
     \/ Release(kind) /\ Offered(kind) # <<>> /\ UNCHANGED endVars

LEMMA RenderStep ==
  ASSUME Sound, NEW k \in Kinds, Rendered(k), UNCHANGED <<demuxVars, start, completions>>
  PROVE  Sound'
<1> DEFINE T == Track(k, start)  n == Between(k, start, Pushed)
           d == Offered(k)  p == IF output[k] = <<>> THEN <<>> ELSE Tail(output[k])
<1>1. /\ UNCHANGED <<file, pos, cached, strmReadEnd, input, decoded, start, completions>>
      /\ Has(k) /\ ~hasRenderEos[k]
      /\ output' = [output EXCEPT ![k] = p]
      /\ receivedEos' = [receivedEos EXCEPT ![k] = EosReceived(k)]
  BY DEF Rendered, Take, demuxVars
<1>2. Pushed' = Pushed
  BY <1>1 DEF Pushed
<1>3. Line(k) /\ End(k) /\ Flags /\ Told /\ EosReceived(k) \in BOOLEAN
  BY DEF Sound, EosReceived, Flags
<1>4. InLine(T, n, handled[k], cache[k], output[k], input[k])
  BY <1>3 DEF Line
<1>5. /\ InLine(T, n, handled[k], d, p, input[k])
      /\ d # <<>> => InLine(T, n, Append(handled[k], Head(d)), Tail(d), p, input[k])
  <2>1. d = cache[k] \o (IF output[k] = <<>> THEN <<>> ELSE <<Head(output[k])>>)
    BY DEF Offered, Dequeued
  <2> HIDE DEF T, n, d, p
  <2> QED BY <1>4, <2>1, OfferedLine DEF p
<1>6. /\ p \in Seq(Int) /\ d \in Seq(Int)
      /\ d # <<>> => Append(handled[k], Head(d)) \in Seq(Int) /\ Tail(d) \in Seq(Int)
  <2> HIDE DEF T, n, d, p
  <2> QED BY <1>5, LineTypes
<1>7. \/ /\ cache' = [cache EXCEPT ![k] = d] /\ handled' = handled
      \/ /\ d # <<>>
         /\ cache' = [cache EXCEPT ![k] = Tail(d)]
         /\ handled' = [handled EXCEPT ![k] = Append(handled[k], Head(d))]
  BY DEF Rendered, Keep, Release
<1>8. \/ UNCHANGED endVars
      \/ /\ d = <<>> /\ EosReceived(k) /\ cache' = [cache EXCEPT ![k] = d]
         /\ hasRenderEos' = [hasRenderEos EXCEPT ![k] = TRUE]
         /\ playEnd' = (playEnd \/ PlayEosWith(hasRenderEos'))
  BY DEF Rendered, Keep, RenderEos
<1>9. Places' /\ ReadEnd'
  BY <1>1, <1>2 DEF Sound, Places, FileOK, ReadEnd
<1>10. Flags'
  <2>1. output' \in [Kinds -> Seq(Int)] /\ receivedEos' \in [Kinds -> BOOLEAN]
    <3> DEFINE e == EosReceived(k)
    <3>1. /\ e \in BOOLEAN /\ p \in Seq(Int)
          /\ output' = [output EXCEPT ![k] = p] /\ receivedEos' = [receivedEos EXCEPT ![k] = e]
      BY <1>1, <1>3, <1>6
    <3> HIDE DEF p, e
    <3> QED BY <1>3, <3>1 DEF Flags
  <2>2. cache' \in [Kinds -> Seq(Int)] /\ handled' \in [Kinds -> Seq(Int)]
    <3> DEFINE c == Tail(d)  h == Append(handled[k], Head(d))
    <3>1. /\ d \in Seq(Int) /\ (d # <<>> => h \in Seq(Int) /\ c \in Seq(Int))
          /\ \/ cache' = [cache EXCEPT ![k] = d] /\ handled' = handled
             \/ /\ d # <<>> /\ cache' = [cache EXCEPT ![k] = c]
                /\ handled' = [handled EXCEPT ![k] = h]
      BY <1>6, <1>7
    <3> HIDE DEF c, d, h
    <3> QED BY <1>3, <3>1 DEF Flags
  <2>3. hasRenderEos' \in [Kinds -> BOOLEAN] /\ playEnd' \in BOOLEAN
    BY <1>3, <1>8 DEF Flags, endVars, PlayEosWith
  <2> QED BY <1>1, <1>3, <2>1, <2>2, <2>3 DEF Flags
<1>11. ASSUME NEW j \in Kinds PROVE Line(j)' /\ End(j)'
  <2>1. CASE j # k
    <3>1. /\ output'[j] = output[j] /\ receivedEos'[j] = receivedEos[j]
          /\ cache'[j] = cache[j] /\ handled'[j] = handled[j]
          /\ hasRenderEos'[j] = hasRenderEos[j] /\ input'[j] = input[j]
      <4>1. output'[j] = output[j] /\ receivedEos'[j] = receivedEos[j] /\ input'[j] = input[j]
        BY <1>1, <1>3, <2>1 DEF Flags
      <4>2. cache'[j] = cache[j] /\ handled'[j] = handled[j]
        BY <1>3, <1>7, <2>1 DEF Flags
      <4>3. hasRenderEos'[j] = hasRenderEos[j]
        BY <1>3, <1>8, <2>1 DEF Flags, endVars
      <4> QED BY <4>1, <4>2, <4>3
    <3>2. Line(j)'
      BY <1>1, <1>2, <3>1, LineStill DEF Sound
    <3>3. End(j)'
      BY <1>1, <3>1 DEF Sound, End
    <3> QED BY <3>2, <3>3
  <2>2. CASE j = k
    <3>1. output'[k] = p /\ receivedEos'[k] = EosReceived(k)
      BY <1>1, <1>3 DEF Flags
    <3>2. InLine(T, n, handled'[k], cache'[k], output'[k], input'[k])
      <4>1. CASE cache' = [cache EXCEPT ![k] = d] /\ handled' = handled
        <5>1. cache'[k] = d /\ handled'[k] = handled[k]
          BY <1>3, <4>1 DEF Flags
        <5> HIDE DEF T, n, d, p
        <5> QED BY <1>1, <1>5, <3>1, <5>1
      <4>2. CASE /\ d # <<>> /\ cache' = [cache EXCEPT ![k] = Tail(d)]
                 /\ handled' = [handled EXCEPT ![k] = Append(handled[k], Head(d))]
        <5>1. cache'[k] = Tail(d) /\ handled'[k] = Append(handled[k], Head(d))
          BY <1>3, <4>2 DEF Flags
        <5> HIDE DEF T, n, d, p
        <5> QED BY <1>1, <1>5, <3>1, <4>2, <5>1
      <4> QED BY <1>7, <4>1, <4>2
    <3>3. Line(k)'
      BY <1>1, <1>2, <3>2, LineAfter
    <3>4. EosReceived(k) => output'[k] = <<>> /\ decoded[k]
      BY <1>3, <3>1 DEF EosReceived, End
    <3>5. hasRenderEos'[k] => EosReceived(k) /\ cache'[k] = <<>>
      <4>1. CASE UNCHANGED endVars
        BY <1>1, <4>1 DEF endVars
      <4>2. CASE d = <<>> /\ EosReceived(k) /\ cache' = [cache EXCEPT ![k] = d]
        BY <1>3, <4>2 DEF Flags
      <4> QED BY <1>8, <4>1, <4>2
    <3>6. End(k)'
      BY <1>1, <1>3, <3>1, <3>4, <3>5 DEF End
    <3> QED BY <2>2, <3>3, <3>6
  <2> QED BY <2>1, <2>2
<1>12. Told'
  <2>1. ~PlayEosWith(hasRenderEos)
    BY <1>1 DEF PlayEosWith
  <2>2. completions = 0 /\ playEnd = FALSE
    BY <1>3, <2>1 DEF Told, Flags
  <2>3. PlayEosWith(hasRenderEos)' <=> PlayEosWith(hasRenderEos')
    BY <1>1, SameTracks DEF PlayEosWith
  <2>4. playEnd' => PlayEosWith(hasRenderEos')
    BY <1>8, <2>2 DEF endVars
  <2> QED BY <1>1, <2>2, <2>3, <2>4 DEF Told
<1> QED BY <1>9, <1>10, <1>11, <1>12 DEF Sound

-----------------------------------------------------------------------------
(* The theorems *)

LEMMA InitPInv ==
  ASSUME PipelineConstants, Init
  PROVE  PInv
<1>1. FileOK
  BY DEF PipelineConstants, Init, FileOK
<1>2. Len(file) \in Nat
  BY <1>1, PacketTypes
<1>3. Pushed = 1 /\ cached = <<>> /\ pos = 1 /\ start = 1
  BY DEF Init, Pushed
<1>4. Places /\ ReadEnd /\ Told
  BY <1>1, <1>2, <1>3 DEF Init, Places, ReadEnd, Told
<1>5. Flags
  <2>1. <<>> \in Seq(Int)
    OBVIOUS
  <2>2. Nowhere \in [Kinds -> Seq(Int)] /\ Never \in [Kinds -> BOOLEAN]
    BY <2>1 DEF Nowhere, Never
  <2> QED BY <2>2 DEF Init, Flags
<1>6. ASSUME NEW k \in Kinds PROVE Line(k) /\ End(k)
  <2>1. Between(k, start, Pushed) = 0
    BY <1>3, BetweenNone
  <2>2. \A T : InLine(T, 0, handled[k], cache[k], output[k], input[k])
    BY LineEmpty DEF Init, Nowhere
  <2>3. Line(k)
    BY <2>1, <2>2 DEF Line
  <2>4. End(k)
    BY DEF Init, End, NoEos, Nowhere, Never
  <2> QED BY <2>3, <2>4
<1>7. Sound
  BY <1>4, <1>5, <1>6 DEF Sound
<1> QED BY <1>7, SoundIsRight DEF PInv

\* A step that leaves the file, the start and what was handled alone.
LEMMA ResultStays ==
  ASSUME FramesInOrder, CompleteIsComplete, UNCHANGED <<file, start, handled, completions>>
  PROVE  FramesInOrder' /\ CompleteIsComplete'
<1>1. \A k \in Kinds : Track(k, start)' = Track(k, start)
  BY DEF Track, Between
<1> QED BY <1>1 DEF FramesInOrder, CompleteIsComplete

\* A sink renders, is left out, or is held.
LEMMA SinkSteps ==
  ASSUME Sound, NEW clock \in Clocks
  PROVE  /\ RenderAudioFrame(clock) => Sound'
         /\ RenderVideoFrame(clock) => Sound'
<1>1. ASSUME NEW k \in Kinds, Skip(k), UNCHANGED <<demuxVars, start, completions>> PROVE Sound'
  <2>1. UNCHANGED <<demuxVars, codecVars, cache, receivedEos, endVars, history>>
    BY <1>1 DEF Skip, sinkVars, history
  <2> QED BY <2>1, QuietStep
<1>2. ASSUME NEW k \in Kinds, Take(k), Held(k) \/ NoFrame(k),
             UNCHANGED <<demuxVars, start, completions>>
      PROVE  Sound'
  <2>1. Rendered(k)
    BY <1>2 DEF Rendered, Held, NoFrame
  <2> QED BY <1>2, <2>1, RenderStep
<1>3. ASSUME RenderAudioFrame(clock) PROVE Sound'
  <2>1. UNCHANGED <<demuxVars, start, completions>> /\ "audio" \in Kinds
    BY <1>3 DEF RenderAudioFrame, Kinds
  <2>2. \/ Skip("audio")
        \/ Take("audio") /\ (Held("audio") \/ NoFrame("audio") \/ AudioFrame(clock))
    BY <1>3 DEF RenderAudioFrame
  <2>3. ASSUME Take("audio"), AudioFrame(clock) PROVE Rendered("audio")
    BY <2>3 DEF Rendered, AudioFrame
  <2> QED BY <1>1, <1>2, <2>1, <2>2, <2>3, RenderStep
<1>4. ASSUME RenderVideoFrame(clock) PROVE Sound'
  <2>1. UNCHANGED <<demuxVars, start, completions>> /\ "video" \in Kinds
    BY <1>4 DEF RenderVideoFrame, Kinds
  <2>2. \/ Skip("video")
        \/ Take("video") /\ (Held("video") \/ NoFrame("video") \/ VideoFrame(clock))
    BY <1>4 DEF RenderVideoFrame
  <2>3. ASSUME Take("video"), VideoFrame(clock) PROVE Rendered("video")
    BY <2>3 DEF Rendered, VideoFrame
  <2> QED BY <1>1, <1>2, <2>1, <2>2, <2>3, RenderStep
<1> QED BY <1>3, <1>4

LEMMA NextPInv ==
  ASSUME PInv, [Next]_vars
  PROVE  PInv'
<1> USE DEF PInv
<1>1. CASE state = "stopped"
  <2>1. /\ UNCHANGED <<file, start, handled, completions>>
        /\ state' = state
    <3>1. ASSUME NEW k \in Kinds, Decode(k)
          PROVE  UNCHANGED <<file, start, handled, completions, state>>
      BY <3>1 DEF Decode, demuxVars, history
    <3>2. ~ReadPacketAndPushToDecoder /\ ~EndOfRound /\ ~Play /\ ~Pause /\ ~Resume /\ ~Seek /\ ~Stop
      BY <1>1 DEF ReadPacketAndPushToDecoder, EndOfRound, Running, Play, Pause, Resume, Seek, Stop
    <3>3. \A c \in Clocks : ~RenderAudioFrame(c) /\ ~RenderVideoFrame(c)
      BY <1>1 DEF RenderAudioFrame, RenderVideoFrame, Running
    <3>4. UNCHANGED vars => UNCHANGED <<file, start, handled, completions, state>>
      BY DEF vars, demuxVars, history
    <3> QED BY <3>1, <3>2, <3>3, <3>4 DEF Next
  <2>2. FramesInOrder' /\ CompleteIsComplete'
    BY <2>1, ResultStays
  <2> QED BY <1>1, <2>1, <2>2
<1>2. CASE state # "stopped" /\ ~Stop
  <2>1. Sound
    BY <1>2
  <2>2. ASSUME NEW k \in Kinds, Decode(k) PROVE Sound'
    BY <2>1, <2>2, DecodeStep
  <2>3. ASSUME ReadPacketAndPushToDecoder PROVE Sound'
    <3>1. /\ Running("read")
          /\ UNCHANGED <<file, output, decoded, sinkVars, endVars, history>>
          /\ ReadAndPush \/ PushEos \/ ReadNothing
      BY <2>3 DEF ReadPacketAndPushToDecoder
    <3>2. ReadNothing => Sound'
      <4>1. ReadNothing => UNCHANGED <<demuxVars, codecVars, cache, receivedEos, endVars, history>>
        BY <3>1 DEF ReadNothing, demuxVars, codecVars, sinkVars
      <4> QED BY <2>1, <4>1, QuietStep
    <3> QED BY <2>1, <3>1, <3>2, ReadAndPushStep, PushEosStep
  <2>4. ASSUME NEW c \in Clocks, RenderAudioFrame(c) \/ RenderVideoFrame(c) PROVE Sound'
    BY <2>1, <2>4, SinkSteps
  <2>5. ASSUME Play \/ Pause \/ Resume \/ UNCHANGED vars PROVE Sound'
    <3>1. UNCHANGED <<demuxVars, codecVars, cache, receivedEos, endVars, history>>
      BY <2>5 DEF Play, Pause, Resume, vars, sinkVars
    <3> QED BY <2>1, <3>1, QuietStep
  <2>6. Sound'
    BY <1>2, <2>1, <2>2, <2>3, <2>4, <2>5, EndOfRoundStep, SeekStep DEF Next
  <2>7. FramesInOrder' /\ CompleteIsComplete'
    BY <2>6, SoundIsRight, PTL
  <2> QED BY <2>6, <2>7
<1>3. CASE Stop
  <2>1. UNCHANGED <<file, start, handled, completions>> /\ state' = "stopped"
    BY <1>3 DEF Stop, history
  <2> QED BY <2>1, ResultStays
<1> QED BY <1>1, <1>2, <1>3

LEMMA PipelineInvariant == Spec => []PInv
<1>1. Init => PInv
  BY PipelineConstants, InitPInv
<1> QED BY <1>1, NextPInv, PTL DEF Spec

\* Between two seeks the frames of each track are played or dropped in the order
\* of the file, none left out, for every file, size of the decoders, render mode
\* and any number of pauses and seeks: this is FramesInOrder.
THEOREM NoFrameOvertakes == Spec => []FramesInOrder
<1>1. PInv => FramesInOrder
  BY DEF PInv
<1> QED BY <1>1, PipelineInvariant, PTL

\* The listener hears of the end of a playback once, and not before the last
\* frame of both tracks was played or dropped, whether or not a full decoder
\* takes the end of the stream: this is CompleteIsComplete.
THEOREM EndIsToldOnce == Spec => []CompleteIsComplete
<1>1. PInv => CompleteIsComplete
  BY DEF PInv
<1> QED BY <1>1, PipelineInvariant, PTL

=============================================================================
