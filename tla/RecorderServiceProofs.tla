----------------------- MODULE RecorderServiceProofs -----------------------
(***************************************************************************)
(* Proofs about RecorderService, for every set of clients, kinds of        *)
(* sources, faults of the muxer and every number of descriptors, messages  *)
(* and message threads: the tracks are the sources, and, as long as a      *)
(* message thread gets where it was told before the next call, each        *)
(* descriptor is closed once and no thread outlives its sink but after a   *)
(* start of the muxer that failed and was tried again.                     *)
(***************************************************************************)
EXTENDS RecorderService, WellFoundedInduction, TLAPS

-----------------------------------------------------------------------------
(* The inductive invariant *)

FileBooks == [open : SUBSET (Nat \ {0}), twice : SUBSET Nat, given : Nat, forsaken : SUBSET Nat,
              switched : SUBSET Nat]
Sinks ==
  [prepared : BOOLEAN, started : BOOLEAN, fd : Nat, next : Nat, listener : BOOLEAN,
   queue : Seq(Messages), sem : Nat, threadRunning : BOOLEAN, threadId : Slots \cup {NoThread},
   muxNext : BOOLEAN, posts : Nat, stale : BOOLEAN, failures : Nat, retried : BOOLEAN,
   files : FileBooks]
Places == {"none", "new", "loop", "wait", "got", "closed", "stray"}

Statuses == {"none", "initialized", "prepared", "recording", "paused", "stopped", "released"}
Recorders ==
  [status : Statuses, sources : SUBSET Ids, config : [Ids -> Configs],
   tracks : SUBSET (Ids \X Configs), half : BOOLEAN]

TypeOK ==
  /\ sink \in Sinks /\ pc \in [Slots -> Places] /\ hand \in [Slots -> Messages \cup {"none"}]
  /\ client \in Processes \cup {NoClient}

\* Tracks are added by Prepare, to a recorder that has none.
TracksAdded ==
  ~rec.half =>
    /\ rec.status = "initialized" => rec.tracks = {}
    /\ rec.status \notin {"none", "initialized", "released"} => rec.tracks = Tracks(rec.sources)

\* The descriptors of a sink: what is open is held or accounted for, and the
\* next file is open and not the current one, or was part of a change.
Booked(s) ==
  LET f == s.files IN
  /\ s.fd <= f.given /\ s.next <= f.given
  /\ f.twice \subseteq f.switched
  /\ f.open \subseteq {s.fd, s.next} \cup f.forsaken \cup f.switched
  /\ s.next # 0 => s.next \in f.switched \/ (s.next \in f.open /\ s.next # s.fd)

\* Nothing that is only held is open.
Cleared(s) == s.files.open \subseteq {0} \cup s.files.forsaken \cup s.files.switched

DescriptorsBooked ==
  /\ Booked(sink)
  /\ rec.status = "released" => Cleared(sink)
  /\ \A t \in Slots : pc[t] = "closed" => sink.fd \in {0} \cup sink.files.switched

\* While the muxer is started, the thread of threadId is there and runs or begins.
ThreadServes ==
  sink.started => /\ sink.threadId \in Slots /\ Alive(sink.threadId)
                  /\ pc[sink.threadId] = "new" \/ sink.threadRunning

\* A thread that begins finds others only where a start failed before: they run, or
\* wait for a post that does not come.
ThreadBeginsAlone ==
  \A t \in Slots : pc[t] = "new" =>
    t = sink.threadId /\ (sink.threadRunning \/ \A u \in Slots \ {t} : Alive(u) => Waits(u))

\* What a failed start leaves: threads that have nothing to do.
ThreadsIdle ==
  ~sink.started /\ sink.threadRunning =>
    sink.sem = 0 /\ \A t \in Slots : Alive(t) => pc[t] \in {"new", "loop", "wait"}

\* Without a failed start there is no thread but that of threadId, and without a muxer
\* that is started it is on its way out.
OneThread ==
  /\ ~sink.retried => \A t \in Slots : Alive(t) => t = sink.threadId
  /\ sink.failures = 0 /\ ~sink.started =>
       ~sink.threadRunning /\ \A t \in Slots : Alive(t) => pc[t] # "new" /\ ~Waits(t)

ThreadsControlled ==
  /\ sink.started <=> rec.status = "recording"
  /\ sink.retried => sink.failures > 0
  /\ ThreadServes /\ ThreadBeginsAlone /\ ThreadsIdle /\ OneThread
  /\ client = NoClient => rec.status = "none" /\ \A t \in Slots : ~Alive(t)

TracksInv == rec \in Recorders /\ TracksAdded
SinkInv   == TypeOK /\ ThreadsControlled /\ DescriptorsBooked

-----------------------------------------------------------------------------
(* The functions of the sink *)

\* The sink r differs from s in other things than the muxer and its thread.
SameThread(s, r) ==
  /\ r.started = s.started /\ r.threadId = s.threadId /\ r.threadRunning = s.threadRunning
  /\ r.sem = s.sem /\ r.failures = s.failures /\ r.retried = s.retried

LEMMA ForsakeType ==
  ASSUME NEW s \in Sinks, NEW fds \in SUBSET Nat
  PROVE  /\ Forsake(s, fds) \in Sinks
         /\ Forsake(s, fds).files.forsaken = s.files.forsaken \cup Real(fds)
         /\ Forsake(s, fds).files.open = s.files.open
         /\ Forsake(s, fds).files.twice = s.files.twice
         /\ Forsake(s, fds).files.given = s.files.given
         /\ Forsake(s, fds).files.switched = s.files.switched
         /\ Forsake(s, fds).fd = s.fd /\ Forsake(s, fds).next = s.next
         /\ SameThread(s, Forsake(s, fds))
BY DEF SameThread, Forsake, Real, Sinks, FileBooks

LEMMA SwitchType ==
  ASSUME NEW s \in Sinks, NEW fds \in SUBSET Nat
  PROVE  /\ Switch(s, fds) \in Sinks
         /\ Switch(s, fds).files.switched = s.files.switched \cup Real(fds)
         /\ Switch(s, fds).files.open = s.files.open
         /\ Switch(s, fds).files.twice = s.files.twice
         /\ Switch(s, fds).files.given = s.files.given
         /\ Switch(s, fds).files.forsaken = s.files.forsaken
         /\ Switch(s, fds).fd = s.fd /\ Switch(s, fds).next = s.next
         /\ SameThread(s, Switch(s, fds))
BY DEF SameThread, Switch, Real, Sinks, FileBooks

LEMMA CloseType ==
  ASSUME NEW s \in Sinks, NEW fd \in Nat
  PROVE  /\ Close(s, fd) \in Sinks
         /\ Close(s, fd).files.open = s.files.open \ {fd}
         /\ Close(s, fd).files.twice = IF fd \in s.files.open THEN s.files.twice
                                       ELSE s.files.twice \cup {fd}
         /\ Close(s, fd).files.given = s.files.given
         /\ Close(s, fd).files.forsaken = s.files.forsaken
         /\ Close(s, fd).files.switched = s.files.switched
         /\ Close(s, fd).fd = s.fd /\ Close(s, fd).next = s.next
         /\ SameThread(s, Close(s, fd))
BY DEF SameThread, Close, Sinks, FileBooks

\* CloseFd, whose early return leaves a descriptor that had part in a change, or two
\* the first of which cannot be read from.
LEMMA CloseFdBooks ==
  ASSUME NEW s \in Sinks, Booked(s)
  PROVE  /\ CloseFd(s) \in Sinks /\ Booked(CloseFd(s)) /\ Cleared(CloseFd(s))
         /\ SameThread(s, CloseFd(s)) /\ CloseFd(s).fd \in {0, s.fd}
         /\ CloseFd(s).prepared = s.prepared
         /\ s.files.switched \subseteq CloseFd(s).files.switched
<1>t. s.fd \in Nat /\ s.next \in Nat /\ s.files \in FileBooks
  BY DEF Sinks
<1>1. CASE s.fd \notin s.files.open \cup {0}
  <2>1. CloseFd(s) = Switch(s, {s.next})
    BY <1>1 DEF CloseFd
  <2>2. Switch(s, {s.next}).prepared = s.prepared
    BY DEF Switch, Sinks
  <2> QED
    BY <1>1, <1>t, <2>1, <2>2, SwitchType DEF Booked, Cleared, Real
<1>2. CASE s.fd \in s.files.open \cup {0} /\ s.fd \in WriteOnly
  <2> DEFINE fds == {s.fd, s.next}
             r == Forsake(s, fds)
  <2>1. CloseFd(s) = r
    BY <1>2 DEF CloseFd
  <2>2. r.prepared = s.prepared
    BY DEF Forsake, Sinks
  <2>3. fds \in SUBSET Nat
    BY <1>t
  <2>4. /\ r \in Sinks /\ r.files.forsaken = s.files.forsaken \cup Real(fds)
        /\ r.files.open = s.files.open /\ r.files.twice = s.files.twice
        /\ r.files.given = s.files.given /\ r.files.switched = s.files.switched
        /\ r.fd = s.fd /\ r.next = s.next /\ SameThread(s, r)
    BY <2>3, ForsakeType
  <2> HIDE DEF r
  <2>5. Booked(r) /\ Cleared(r)
    BY <2>4 DEF Booked, Cleared, Real
  <2> QED
    BY <2>1, <2>2, <2>4, <2>5
<1>3. CASE s.fd \in s.files.open \cup {0} /\ s.fd \notin WriteOnly
  <2> DEFINE c == Close(s, s.fd)
             one == IF s.fd = 0 THEN s ELSE [c EXCEPT !.fd = 0]
             d == Close(one, one.next)
  <2>0. CloseFd(s) = IF s.next = 0 THEN one ELSE [d EXCEPT !.next = 0]
    <3>1. one.next = s.next
      BY <1>t, CloseType DEF Sinks
    <3> QED
      BY <1>3, <3>1 DEF CloseFd
  <2>1. /\ c \in Sinks /\ c.files.open = s.files.open \ {s.fd}
        /\ s.fd # 0 => c.files.twice = s.files.twice
        /\ c.files.given = s.files.given /\ c.files.forsaken = s.files.forsaken
        /\ c.files.switched = s.files.switched /\ c.next = s.next /\ SameThread(s, c)
        /\ c.prepared = s.prepared
    <3>1. c.prepared = s.prepared
      BY DEF Close, Sinks
    <3> QED
      BY <1>3, <1>t, <3>1, CloseType
  <2> HIDE DEF c
  <2>2. /\ one \in Sinks /\ one.fd = 0 /\ one.next = s.next
        /\ one.files.open \cup {0} = (s.files.open \ {s.fd}) \cup {0}
        /\ one.files.twice = s.files.twice
        /\ one.files.given = s.files.given /\ one.files.forsaken = s.files.forsaken
        /\ one.files.switched = s.files.switched /\ SameThread(s, one)
        /\ one.prepared = s.prepared
        /\ s.fd = 0 => one.files.open = s.files.open
        /\ s.fd # 0 => one.files.open = s.files.open \ {s.fd}
    <3>1. CASE s.fd = 0
      BY <3>1 DEF SameThread
    <3>2. CASE s.fd # 0
      <4> DEFINE e == [c EXCEPT !.fd = 0]
      <4>1. e \in Sinks /\ e.fd = 0 /\ e.next = c.next /\ e.files = c.files /\ SameThread(c, e)
            /\ e.prepared = c.prepared
        BY <2>1 DEF Sinks, SameThread
      <4> HIDE DEF e
      <4>2. one = e
        BY <3>2 DEF e
      <4> QED
        BY <2>1, <3>2, <4>1, <4>2 DEF SameThread
    <3> QED
      BY <3>1, <3>2
  <2> HIDE DEF one
  <2>3. CASE s.next = 0
    BY <1>t, <2>0, <2>2, <2>3 DEF Booked, Cleared
  <2>4. CASE s.next # 0
    <3>1. /\ d \in Sinks /\ d.files.open = one.files.open \ {s.next}
          /\ d.files.twice = IF s.next \in one.files.open THEN s.files.twice
                             ELSE s.files.twice \cup {s.next}
          /\ d.files.given = s.files.given /\ d.files.forsaken = s.files.forsaken
          /\ d.files.switched = s.files.switched /\ d.fd = 0 /\ SameThread(s, d)
          /\ d.prepared = s.prepared
      <4>1. d.prepared = one.prepared
        BY <2>2 DEF Close, Sinks
      <4>2. d = Close(one, s.next)
        BY <2>2
      <4>c. /\ Close(one, s.next) \in Sinks /\ SameThread(one, Close(one, s.next))
            /\ Close(one, s.next).files.open = one.files.open \ {s.next}
            /\ Close(one, s.next).files.twice = IF s.next \in one.files.open THEN one.files.twice
                                                ELSE one.files.twice \cup {s.next}
            /\ Close(one, s.next).files.given = one.files.given
            /\ Close(one, s.next).files.forsaken = one.files.forsaken
            /\ Close(one, s.next).files.switched = one.files.switched
            /\ Close(one, s.next).fd = one.fd
        <5>1. one \in Sinks /\ s.next \in Nat
          BY <1>t, <2>2
        <5> DEFINE n == s.next
        <5> HIDE DEF n
        <5>2. one \in Sinks /\ n \in Nat
          BY <5>1 DEF n
        <5>3. /\ Close(one, n) \in Sinks /\ SameThread(one, Close(one, n))
              /\ Close(one, n).files.open = one.files.open \ {n}
              /\ Close(one, n).files.twice = IF n \in one.files.open THEN one.files.twice
                                             ELSE one.files.twice \cup {n}
              /\ Close(one, n).files.given = one.files.given
              /\ Close(one, n).files.forsaken = one.files.forsaken
              /\ Close(one, n).files.switched = one.files.switched
              /\ Close(one, n).fd = one.fd
          BY <5>2, CloseType
        <5> QED
          BY <5>3, Zenon DEF n
      <4>3. SameThread(s, d)
        BY <2>2, <4>2, <4>c DEF SameThread
      <4> HIDE DEF d
      <4> QED
        BY <2>2, <4>1, <4>2, <4>3, <4>c
    <3> HIDE DEF d
    <3> DEFINE e == [d EXCEPT !.next = 0]
    <3>2. e \in Sinks /\ e.fd = 0 /\ e.next = 0 /\ e.files = d.files /\ SameThread(d, e)
          /\ e.prepared = d.prepared
      BY <3>1 DEF Sinks, SameThread
    <3> HIDE DEF e
    <3>3. CloseFd(s) = e
      BY <2>0, <2>4 DEF e
    <3>4. SameThread(s, e)
      BY <3>1, <3>2 DEF SameThread
    <3>5. s.next \in one.files.open \/ s.next \in s.files.switched
      BY <2>2, <2>4 DEF Booked
    <3>6. Booked(e) /\ Cleared(e)
      <4> DEFINE f == e.files
      <4>1. f.open \subseteq s.files.open \ {s.next} /\ (s.fd # 0 => f.open \subseteq s.files.open \ {s.fd})
        BY <2>2, <3>1, <3>2
      <4>2. f.given = s.files.given /\ f.forsaken = s.files.forsaken /\ f.switched = s.files.switched
        BY <3>1, <3>2
      <4>3. f.twice \subseteq f.switched
        BY <3>1, <3>2, <3>5, <4>2 DEF Booked
      <4>4. f.open \subseteq {0} \cup f.forsaken \cup f.switched
        BY <4>1, <4>2 DEF Booked
      <4>5. f.given \in Nat
        BY <1>t, <4>2 DEF FileBooks
      <4> QED
        BY <3>2, <4>3, <4>4, <4>5 DEF Booked, Cleared
    <3> QED
      BY <3>1, <3>2, <3>3, <3>4, <3>6
  <2> QED
    BY <2>3, <2>4
<1> QED
  BY <1>1, <1>2, <1>3

\* What the functions that end something do: the descriptors are let go and a
\* thread whose muxer is stopped is told to end.
Ended(s, r) ==
  /\ r \in Sinks /\ Booked(r) /\ Cleared(r) /\ r.threadId = s.threadId /\ ~r.started
  /\ r.failures = s.failures /\ r.retried = s.retried
  /\ IF s.started THEN s.threadId = NoThread \/ (~r.threadRunning /\ r.sem > 0)
     ELSE r.threadRunning = s.threadRunning /\ r.sem = s.sem
  /\ r.fd \in {0, s.fd} /\ s.files.switched \subseteq r.files.switched

LEMMA EndedTwice ==
  ASSUME NEW s \in Sinks, NEW r, NEW q, Ended(s, r), Ended(r, q)
  PROVE  Ended(s, q)
BY DEF Ended

LEMMA SameBooks ==
  ASSUME NEW s, NEW r, r.fd = s.fd, r.next = s.next, r.files = s.files
  PROVE  (Booked(s) => Booked(r)) /\ (Cleared(s) => Cleared(r))
BY DEF Booked, Cleared

LEMMA CloseFdEnds ==
  ASSUME NEW s \in Sinks, Booked(s), ~s.started
  PROVE  Ended(s, CloseFd(s)) /\ CloseFd(s).prepared = s.prepared
BY CloseFdBooks DEF Ended, SameThread

LEMMA SinkStopEnds ==
  ASSUME NEW s \in Sinks, Booked(s)
  PROVE  Ended(s, SinkStop(s)) /\ SinkStop(s).prepared = s.prepared
<1>1. CASE ~s.started
  BY <1>1, CloseFdEnds DEF SinkStop
<1>2. CASE s.started
  <2> DEFINE told == IF s.threadId = NoThread THEN s
                     ELSE [s EXCEPT !.threadRunning = FALSE, !.sem = s.sem + 1]
             shut == CloseFd(told)
             end == [shut EXCEPT !.started = FALSE]
  <2>1. /\ told \in Sinks /\ told.fd = s.fd /\ told.next = s.next /\ told.files = s.files
        /\ told.threadId = s.threadId /\ told.prepared = s.prepared
        /\ told.failures = s.failures /\ told.retried = s.retried
        /\ s.threadId = NoThread \/ (~told.threadRunning /\ told.sem > 0)
    <3>1. CASE s.threadId = NoThread
      BY <3>1
    <3>2. CASE s.threadId # NoThread
      <4> DEFINE n == s.sem + 1
                 e == [s EXCEPT !.threadRunning = FALSE, !.sem = n]
      <4>1. n \in Nat /\ n > 0
        BY DEF Sinks
      <4> HIDE DEF n
      <4>2. /\ e \in Sinks /\ e.fd = s.fd /\ e.next = s.next /\ e.files = s.files
            /\ e.threadId = s.threadId /\ e.prepared = s.prepared /\ ~e.threadRunning
            /\ e.failures = s.failures /\ e.retried = s.retried /\ e.sem = n
        BY <4>1 DEF Sinks
      <4>3. told = e
        BY <3>2 DEF n
      <4> QED
        BY <4>1, <4>2, <4>3
    <3> QED
      BY <3>1, <3>2
  <2>2. Booked(told)
    BY <2>1, SameBooks
  <2>3. SinkStop(s) = end
    BY <1>2 DEF SinkStop
  <2> HIDE DEF told
  <2>4. /\ shut \in Sinks /\ Booked(shut) /\ Cleared(shut) /\ SameThread(told, shut)
        /\ shut.fd \in {0, s.fd} /\ shut.prepared = s.prepared
        /\ s.files.switched \subseteq shut.files.switched
    BY <2>1, <2>2, CloseFdBooks
  <2> HIDE DEF shut
  <2>5. /\ end \in Sinks /\ end.fd = shut.fd /\ end.next = shut.next /\ end.files = shut.files
        /\ end.threadId = shut.threadId /\ end.prepared = shut.prepared /\ ~end.started
        /\ end.threadRunning = shut.threadRunning /\ end.sem = shut.sem
        /\ end.failures = shut.failures /\ end.retried = shut.retried
    BY <2>4 DEF Sinks
  <2> HIDE DEF end
  <2>6. Booked(end) /\ Cleared(end)
    BY <2>4, <2>5, SameBooks
  <2>7. s.threadId = NoThread \/ (~end.threadRunning /\ end.sem > 0)
    BY <2>1, <2>4, <2>5 DEF SameThread
  <2>8. end.threadId = s.threadId /\ end.failures = s.failures /\ end.retried = s.retried
    BY <2>1, <2>4, <2>5 DEF SameThread
  <2> QED
    BY <1>2, <2>3, <2>4, <2>5, <2>6, <2>7, <2>8 DEF Ended
<1> QED
  BY <1>1, <1>2

\* SinkRelease and SinkReset of a sink that records end it, too, but the
\* callers have stopped it before, except when the recorder is deleted.
LEMMA SinkReleaseEnds ==
  ASSUME NEW s \in Sinks, Booked(s)
  PROVE  /\ Cleared(SinkRelease(s)) /\ SinkRelease(s).files \in FileBooks
         /\ SinkRelease(s).files.twice \subseteq SinkRelease(s).files.switched
         /\ ~s.started => Ended(s, SinkRelease(s))
<1>1. CASE ~s.prepared
  <2> DEFINE r == Forsake(s, {s.fd, s.next})
  <2>0. {s.fd, s.next} \in SUBSET Nat /\ SinkRelease(s) = r /\ s.files \in FileBooks
    BY <1>1 DEF SinkRelease, Sinks
  <2>1. /\ r \in Sinks /\ r.files.forsaken = s.files.forsaken \cup Real({s.fd, s.next})
        /\ r.files.open = s.files.open /\ r.files.twice = s.files.twice
        /\ r.files.given = s.files.given /\ r.files.switched = s.files.switched
        /\ r.fd = s.fd /\ r.next = s.next /\ SameThread(s, r)
    BY <2>0, ForsakeType
  <2> HIDE DEF r
  <2>2. Booked(r) /\ Cleared(r)
    BY <2>1 DEF Booked, Cleared, Real
  <2>3. r.files \in FileBooks /\ r.files.twice \subseteq r.files.switched
    BY <2>1, <2>2 DEF Booked, Sinks
  <2> QED
    BY <2>0, <2>1, <2>2, <2>3 DEF Ended, SameThread
<1>2. CASE s.prepared
  <2> DEFINE stopped == IF s.started THEN SinkStop(s) ELSE s
             shut == CloseFd(stopped)
             r == [shut EXCEPT !.prepared = FALSE, !.muxNext = FALSE]
  <2>1. SinkRelease(s) = r
    BY <1>2 DEF SinkRelease
  <2>2. stopped \in Sinks /\ Booked(stopped) /\ ~stopped.started /\ (~s.started => stopped = s)
    BY SinkStopEnds DEF Ended
  <2> HIDE DEF stopped
  <2>3. Ended(stopped, shut)
    BY <2>2, CloseFdEnds
  <2> HIDE DEF shut
  <2>4. /\ r \in Sinks /\ r.fd = shut.fd /\ r.next = shut.next /\ r.files = shut.files
        /\ r.threadId = shut.threadId /\ ~r.started /\ r.threadRunning = shut.threadRunning
        /\ r.sem = shut.sem /\ r.failures = shut.failures /\ r.retried = shut.retried
    BY <2>3 DEF Ended, Sinks
  <2> HIDE DEF r
  <2>5. Booked(r) /\ Cleared(r)
    BY <2>3, <2>4, SameBooks DEF Ended
  <2>6. Ended(stopped, r)
    BY <2>3, <2>4, <2>5 DEF Ended
  <2>7. r.files \in FileBooks /\ r.files.twice \subseteq r.files.switched
    BY <2>4, <2>5 DEF Booked, Sinks
  <2> QED
    BY <2>1, <2>2, <2>4, <2>5, <2>6, <2>7
<1> QED
  BY <1>1, <1>2

LEMMA SinkResetEnds ==
  ASSUME NEW s \in Sinks, Booked(s), ~s.started
  PROVE  Ended(s, SinkReset(s))
<1> DEFINE released == IF s.prepared THEN SinkRelease(s) ELSE s
           shut == CloseFd(released)
           r == [shut EXCEPT !.prepared = FALSE]
<1>1. SinkReset(s) = r
  BY DEF SinkReset
<1>2. released \in Sinks /\ Booked(released) /\ ~released.started /\ (released = s \/ Ended(s, released))
  BY SinkReleaseEnds DEF Ended
<1> HIDE DEF released
<1>3. Ended(released, shut)
  BY <1>2, CloseFdEnds
<1> HIDE DEF shut
<1>4. /\ r \in Sinks /\ r.fd = shut.fd /\ r.next = shut.next /\ r.files = shut.files
      /\ r.threadId = shut.threadId /\ ~r.started /\ r.threadRunning = shut.threadRunning
      /\ r.sem = shut.sem /\ r.failures = shut.failures /\ r.retried = shut.retried
  BY <1>3 DEF Ended, Sinks
<1> HIDE DEF r
<1>5. Booked(r) /\ Cleared(r)
  BY <1>3, <1>4, SameBooks DEF Ended
<1>6. Ended(released, r)
  BY <1>3, <1>4, <1>5 DEF Ended
<1>7. Ended(s, r)
  BY <1>2, <1>6, EndedTwice
<1> QED
  BY <1>1, <1>7

-----------------------------------------------------------------------------
(* The tracks *)

LEMMA Least ==
  ASSUME NEW T, T \subseteq Nat, T # {}
  PROVE  \E x \in T : \A y \in T : x <= y
<1> DEFINE R == OpToRel(<, Nat)
<1>1. IsWellFoundedOn(R, Nat)
  BY NatLessThanWellFounded
<1>2. \A x, y \in Nat : y < x => <<y, x>> \in R
  BY DEF OpToRel
<1> HIDE DEF R
<1>3. PICK x \in T : \A y \in T : ~(<<y, x>> \in R)
  BY <1>1, WFMin
<1>4. \A y \in T : ~(y < x)
  BY <1>2, <1>3
<1>5. \A y \in T : x \in Nat /\ y \in Nat
  OBVIOUS
<1> QED
  BY <1>4, <1>5

LEMMA FreshRecorderType ==
  /\ FreshRecorder \in Recorders /\ NoRecorder \in Recorders /\ ReleasedRecorder \in Recorders
  /\ FreshRecorder.status = "initialized" /\ FreshRecorder.tracks = {}
  /\ NoRecorder.status = "none" /\ ReleasedRecorder.status = "released"
BY DEF FreshRecorder, NoRecorder, ReleasedRecorder, Recorders, Statuses, Configs

LEMMA TracksInit == Init => TracksInv
BY FreshRecorderType DEF Init, TracksInv, TracksAdded

\* A change of the status of a recorder that was prepared.
LEMMA ToKeepsTracks ==
  ASSUME TracksInv, NEW status \in Statuses \ {"initialized"}, IsPrepared,
         rec.status \notin {"none", "released"} \/ status = "released", To(status)
  PROVE  TracksInv'
<1>1. /\ rec' \in Recorders /\ rec'.status = status /\ rec'.sources = rec.sources
      /\ rec'.config = rec.config /\ rec'.tracks = rec.tracks /\ (rec'.half <=> rec.half)
  BY DEF TracksInv, To, Recorders
<1>2. Tracks(rec.sources)' = Tracks(rec.sources)
  BY <1>1 DEF Tracks
<1> QED
  BY <1>1, <1>2 DEF TracksInv, TracksAdded, IsPrepared

LEMMA TracksStep ==
  ASSUME TracksInv, [Next]_vars
  PROVE  TracksInv'
<1>t. /\ rec \in Recorders /\ rec.sources \subseteq Ids /\ rec.config \in [Ids -> Configs]
      /\ rec.tracks \subseteq Ids \X Configs
  BY DEF TracksInv, Recorders
<1>same. ASSUME UNCHANGED rec PROVE TracksInv'
  BY <1>same DEF TracksInv, TracksAdded, Tracks
<1>fresh. ASSUME rec' = FreshRecorder \/ rec' = NoRecorder \/ rec' = ReleasedRecorder
          PROVE  TracksInv'
  BY <1>fresh, FreshRecorderType DEF TracksInv, TracksAdded
\* The settings of a recorder that is not prepared.
<1>set. ASSUME ~IsPrepared, rec' \in Recorders, rec'.status = rec.status, rec'.tracks = rec.tracks,
               rec'.half <=> rec.half
        PROVE  TracksInv'
  BY <1>set DEF TracksInv, TracksAdded, IsPrepared
<1>keep. ASSUME NEW id \in Ids, NEW config \in Configs, Keep(id, config), ~IsPrepared
         PROVE  TracksInv'
  <2>1. /\ rec' \in Recorders /\ rec'.status = rec.status /\ rec'.tracks = rec.tracks
        /\ (rec'.half <=> rec.half)
    BY <1>t, <1>keep DEF Keep, Recorders
  <2> QED
    BY <1>keep, <1>set, <2>1
<1>1. ASSUME NEW p \in Processes, Session(p) PROVE TracksInv'
  BY <1>1, <1>fresh DEF Session, Connect, Disconnect
<1>2. ASSUME NEW p \in Processes, Setting(p) PROVE TracksInv'
  <2>1. ASSUME NEW kind \in Kinds, SetSource(p, kind) PROVE TracksInv'
    <3> DEFINE new == <<kind, FreeIndex(kind)>>
    <3>1. new \in Ids
      <4>1. \E i \in FreeIndices(kind) : \A j \in FreeIndices(kind) : i <= j
        <5>1. FreeIndices(kind) \subseteq Nat
          <6>1. 0..SourceMax - 1 \subseteq Nat
            BY ServiceConstants
          <6> QED
            BY <6>1 DEF FreeIndices
        <5>2. FreeIndices(kind) # {}
          BY <2>1 DEF SetSource
        <5> QED
          BY <5>1, <5>2, Least
      <4> QED
        BY <4>1 DEF FreeIndex, FreeIndices, Ids
    <3>2. rec' = [rec EXCEPT !.sources = rec.sources \cup {new}]
      BY <2>1 DEF SetSource
    <3> HIDE DEF new
    <3>3. /\ rec' \in Recorders /\ rec'.status = rec.status /\ rec'.tracks = rec.tracks
          /\ (rec'.half <=> rec.half)
      BY <1>t, <3>1, <3>2 DEF Recorders
    <3> QED
      BY <1>set, <2>1, <3>3 DEF SetSource
  <2>2. ASSUME NEW id \in Ids, Configure(p, id) PROVE TracksInv'
    BY <2>2, <1>keep DEF Configure, Configs
  <2>3. ASSUME NEW id \in Ids, SetVideoEncoder(p, id) PROVE TracksInv'
    BY <2>3, <1>keep DEF SetVideoEncoder, Configs
  <2> QED
    BY <1>2, <2>1, <2>2, <2>3 DEF Setting
<1>3. ASSUME NEW p \in Processes, Files(p) PROVE TracksInv'
  BY <1>3, <1>same DEF Files, SetOutputFile, SetNextOutputFile, SetRecorderCallback
<1>4. ASSUME NEW p \in Processes, Recording(p) PROVE TracksInv'
  <2>1. CASE Prepare(p)
    <3>1. CASE UNCHANGED rec
      BY <1>same, <3>1
    <3>2. CASE PrepareSources
      <4>0. rec.status = "initialized"
        BY <2>1 DEF Prepare, IsPrepared
      <4>t. \A ids \in SUBSET rec.sources : Tracks(ids) \subseteq Ids \X Configs
        BY <1>t DEF Tracks
      <4>1. ASSUME rec' = [rec EXCEPT !.status = "prepared", !.tracks = rec.tracks \cup Tracks(rec.sources)]
            PROVE  TracksInv'
        <5> DEFINE T == rec.tracks \cup Tracks(rec.sources)
        <5>1. T \subseteq Ids \X Configs /\ rec' = [rec EXCEPT !.status = "prepared", !.tracks = T]
          BY <1>t, <4>1, <4>t
        <5> HIDE DEF T
        <5>2. /\ rec' \in Recorders /\ rec'.status = "prepared" /\ rec'.tracks = T
              /\ rec'.sources = rec.sources /\ rec'.config = rec.config /\ (rec'.half <=> rec.half)
          BY <1>t, <5>1 DEF Recorders, Statuses
        <5>3. Tracks(rec.sources)' = Tracks(rec.sources)
          BY <5>2 DEF Tracks
        <5>4. ~rec.half => T = Tracks(rec.sources)
          BY <4>0 DEF TracksInv, TracksAdded, T
        <5> QED
          BY <5>2, <5>3, <5>4 DEF TracksInv, TracksAdded
      <4>2. ASSUME NEW added \in SUBSET rec.sources,
                   rec' = [rec EXCEPT !.tracks = rec.tracks \cup Tracks(added),
                                      !.half = rec.half \/ added # {}]
            PROVE  TracksInv'
        <5> DEFINE T == rec.tracks \cup Tracks(added)
                   h == rec.half \/ added # {}
        <5>1. T \subseteq Ids \X Configs /\ h \in BOOLEAN
          BY <1>t, <4>t
        <5>2. ~h => added = {} /\ ~rec.half
          OBVIOUS
        <5>3. rec' = [rec EXCEPT !.tracks = T, !.half = h]
          BY <4>2
        <5>4. ~h => T = {}
          BY <4>0, <5>2 DEF TracksInv, TracksAdded, Tracks
        <5> HIDE DEF T, h
        <5>5. rec' \in Recorders /\ rec'.status = rec.status /\ rec'.tracks = T /\ (rec'.half <=> h)
          BY <1>t, <5>1, <5>3 DEF Recorders
        <5> QED
          BY <4>0, <5>4, <5>5 DEF TracksInv, TracksAdded
      <4>3. ASSUME NEW source \in rec.sources,
                   rec' = [rec EXCEPT !.tracks = rec.tracks \cup Tracks({q \in rec.sources : Earlier(q, source)}),
                                      !.half = rec.half \/ {q \in rec.sources : Earlier(q, source)} # {}]
            PROVE  TracksInv'
        <5> DEFINE added == {q \in rec.sources : Earlier(q, source)}
        <5>1. rec' = [rec EXCEPT !.tracks = rec.tracks \cup Tracks(added), !.half = rec.half \/ added # {}]
          BY <4>3, Zenon
        <5>2. added \in SUBSET rec.sources
          OBVIOUS
        <5> HIDE DEF added
        <5> QED
          BY <4>2, <5>1, <5>2, Zenon
      <4> QED
        BY <3>2, <4>1, <4>3, Zenon DEF PrepareSources
    <3> QED
      BY <2>1, <3>1, <3>2 DEF Prepare
  <2>2. CASE Start(p)
    <3>1. UNCHANGED rec \/ To("recording")
      BY <2>2 DEF Start
    <3> QED
      BY <2>2, <3>1, <1>same, ToKeepsTracks DEF Start, IsPrepared, Statuses
  <2>3. CASE Stop(p)
    BY <2>3, ToKeepsTracks DEF Stop, IsPrepared, Statuses
  <2>4. ASSUME rec.status # "released", To(IF Active THEN "stopped" ELSE rec.status) PROVE TracksInv'
    <3>1. CASE Active
      BY <2>4, <3>1, ToKeepsTracks DEF Active, IsPrepared, Statuses
    <3>2. CASE ~Active
      <4>1. rec' = rec
        BY <1>t, <2>4, <3>2 DEF To, Recorders
      <4> QED
        BY <1>same, <4>1
    <3> QED
      BY <3>1, <3>2
  <2>5. CASE Reset(p)
    BY <2>5, <2>4, <1>fresh DEF Reset
  <2>6. CASE Release(p)
    BY <2>6, <2>4, <1>fresh DEF Release
  <2> QED
    BY <1>4, <2>1, <2>2, <2>3, <2>5, <2>6 DEF Recording
<1>5. CASE Below
  BY <1>5, <1>same DEF Below
<1>6. CASE UNCHANGED vars
  BY <1>6, <1>same DEF vars
<1> QED
  BY <1>1, <1>2, <1>3, <1>4, <1>5, <1>6 DEF Next, Call

\* From a Prepare on the file has a track for each source, in its configuration.
THEOREM TracksAreSources == Spec => []TracksMatch
<1>1. TracksInv => TracksMatch
  BY DEF TracksInv, TracksAdded, TracksMatch, IsPrepared
<1> QED
  BY <1>1, TracksInit, TracksStep, PTL DEF Spec

-----------------------------------------------------------------------------
(* The descriptors and the message threads *)

LEMMA FreshSinkFacts ==
  ASSUME NEW f \in FileBooks
  PROVE  /\ FreshSink(f) \in Sinks /\ FreshSink(f).fd = 0 /\ FreshSink(f).next = 0
         /\ FreshSink(f).files = f /\ ~FreshSink(f).started /\ FreshSink(f).threadId = NoThread
         /\ ~FreshSink(f).threadRunning /\ FreshSink(f).failures = 0 /\ ~FreshSink(f).retried
BY DEF FreshSink, Sinks, Messages

LEMMA SinkInvInit == Init => SinkInv
<1> SUFFICES ASSUME Init PROVE SinkInv
  OBVIOUS
<1>1. NoFiles \in FileBooks /\ NoFiles.open = {} /\ NoFiles.twice = {}
  BY DEF NoFiles, FileBooks
<1>2. /\ sink = FreshSink(NoFiles) /\ pc = [t \in Slots |-> "none"] /\ hand = [t \in Slots |-> "none"]
      /\ client = NoClient /\ rec.status = "none"
  BY FreshRecorderType DEF Init, SinkInit
<1>3. /\ sink \in Sinks /\ sink.fd = 0 /\ sink.next = 0 /\ sink.files = NoFiles /\ ~sink.started
  BY <1>1, <1>2, FreshSinkFacts
<1>4. TypeOK
  BY <1>2, <1>3 DEF TypeOK, Places
<1>5. ThreadsControlled
  BY <1>1, <1>2, FreshSinkFacts
     DEF ThreadsControlled, ThreadServes, ThreadBeginsAlone, ThreadsIdle, OneThread, Alive
<1>6. DescriptorsBooked
  <2>1. NoFiles.given = 0
    BY DEF NoFiles
  <2> QED
    BY <1>1, <1>2, <1>3, <2>1 DEF DescriptorsBooked, Booked
<1> QED
  BY <1>4, <1>5, <1>6 DEF SinkInv

\* A step that leaves the threads alone.
LEMMA ThreadsKept ==
  ASSUME ThreadsControlled, SameThread(sink, sink'), UNCHANGED <<pc, client>>,
         rec'.status = "recording" <=> rec.status = "recording",
         client = NoClient => rec'.status = rec.status
  PROVE  ThreadsControlled'
BY DEF ThreadsControlled, ThreadServes, ThreadBeginsAlone, ThreadsIdle, OneThread, SameThread,
   Alive, Waits

\* The muxer's reports are queued and change nothing else.
LEMMA MuxerReportsStep ==
  ASSUME Prompt, SinkInv, MuxerReports, Below
  PROVE  SinkInv'
<1>1. PICK m \in Messages :
        sink' = [sink EXCEPT !.queue = Append(sink.queue, m), !.sem = sink.sem + 1,
                             !.posts = sink.posts + 1,
                             !.muxNext = sink.muxNext /\ m # "next file"]
  BY DEF MuxerReports, Messages
<1> DEFINE q == Append(sink.queue, m)
           n == sink.sem + 1
           k == sink.posts + 1
           b == sink.muxNext /\ m # "next file"
<1>2. sink \in Sinks /\ q \in Seq(Messages) /\ n \in Nat /\ k \in Nat /\ b \in BOOLEAN
  BY DEF SinkInv, TypeOK, Sinks
<1>3. sink' = [sink EXCEPT !.queue = q, !.sem = n, !.posts = k, !.muxNext = b]
  BY <1>1
<1> HIDE DEF q, n, k, b
<1>4. /\ sink' \in Sinks /\ sink'.fd = sink.fd /\ sink'.next = sink.next /\ sink'.files = sink.files
      /\ sink'.threadId = sink.threadId /\ (sink'.started <=> sink.started)
      /\ (sink'.threadRunning <=> sink.threadRunning)
      /\ sink'.failures = sink.failures /\ (sink'.retried <=> sink.retried)
  BY <1>2, <1>3 DEF Sinks
<1>5. UNCHANGED <<pc, hand, client, rec>>
  BY DEF MuxerReports, Below
<1>6. TypeOK'
  BY <1>4, <1>5 DEF SinkInv, TypeOK
<1>7. ThreadsControlled'
  <2>1. sink.started /\ \A t \in Slots : pc[t] # "new"
    BY DEF MuxerReports, Settled, Alive
  <2> QED
    BY <1>4, <1>5, <2>1
       DEF SinkInv, ThreadsControlled, ThreadServes, ThreadBeginsAlone, ThreadsIdle, OneThread,
           Alive
<1>8. DescriptorsBooked'
  BY <1>4, <1>5 DEF SinkInv, DescriptorsBooked, Booked, Cleared
<1> QED
  BY <1>6, <1>7, <1>8 DEF SinkInv

\* A thread goes on, which is not in the way of one that begins.
LEMMA ThreadMoves ==
  ASSUME ThreadsControlled, sink.sem \in Nat, pc \in [Slots -> Places], NEW t \in Slots, NEW place,
         Goto(t, place), UNCHANGED <<client, rec>>,
         sink'.threadId = sink.threadId, sink'.started <=> sink.started,
         sink'.threadRunning <=> sink.threadRunning,
         sink'.failures = sink.failures, sink'.retried <=> sink.retried,
         \/ pc[t] = "loop" /\ place = "wait" /\ sink.threadRunning /\ sink'.sem = sink.sem
         \/ /\ pc[t] = "wait" /\ place \in {"loop", "got"}
            /\ sink.sem > 0 /\ sink'.sem = sink.sem - 1
         \/ pc[t] \in {"got", "closed"} /\ place \in {"loop", "closed"} /\ sink'.sem = sink.sem
  PROVE  ThreadsControlled'
<1>1. pc'[t] = place /\ \A u \in Slots \ {t} : pc'[u] = pc[u]
  BY DEF Goto
<1>2. /\ Alive(t) /\ pc[t] # "new" /\ place \notin {"none", "new", "stray"}
      /\ ~Waits(t)
  BY DEF Alive, Waits
<1>3. \A u \in Slots : Alive(u)' <=> Alive(u)
  BY <1>1, <1>2 DEF Alive
<1>4. ThreadServes' /\ ThreadsIdle'
  BY <1>1, <1>2, <1>3 DEF ThreadsControlled, ThreadServes, ThreadsIdle
<1>5. ThreadBeginsAlone'
  BY <1>1, <1>2 DEF ThreadsControlled, ThreadBeginsAlone
<1>6. OneThread'
  <2>1. ASSUME sink.failures = 0, ~sink.started
        PROVE  ~sink.threadRunning /\ \A u \in Slots : Alive(u) => u = t
    BY <2>1, <1>2 DEF ThreadsControlled, OneThread
  <2>2. ASSUME sink.failures = 0, ~sink.started
        PROVE  pc'[t] \notin {"new", "wait"}
    BY <1>1, <1>2, <2>1, <2>2
  <2> QED
    BY <1>3, <2>1, <2>2 DEF ThreadsControlled, OneThread, Waits
<1> QED
  BY <1>3, <1>4, <1>5, <1>6 DEF ThreadsControlled

LEMMA MessageThreadStep ==
  ASSUME SinkInv, NEW t \in Slots, MessageThread(t), Below
  PROVE  SinkInv'
<1>0. /\ sink \in Sinks /\ pc \in [Slots -> Places] /\ hand \in [Slots -> Messages \cup {"none"}]
      /\ client \in Processes \cup {NoClient} /\ UNCHANGED <<client, rec>> /\ sink.sem \in Nat
  BY DEF SinkInv, TypeOK, Below, Sinks
<1>a. Alive(t)
  BY DEF MessageThread, ThreadBegins, ThreadLoops, ThreadTakes, ThreadReports, ThreadSwitches, Alive
<1>b. client # NoClient
  BY <1>a DEF SinkInv, ThreadsControlled
<1>n. NoThread \notin Slots
  BY SinkConstants
\* A step that leaves the descriptors alone.
<1>books. ASSUME NEW place \in Places \ {"closed"}, Goto(t, place), sink' \in Sinks,
                 hand' \in [Slots -> Messages \cup {"none"}],
                 sink'.fd = sink.fd, sink'.next = sink.next, sink'.files = sink.files
          PROVE  TypeOK' /\ DescriptorsBooked'
  <2>1. pc' \in [Slots -> Places] /\ pc'[t] = place /\ \A u \in Slots \ {t} : pc'[u] = pc[u]
    BY <1>0, <1>books DEF Goto
  <2>2. TypeOK'
    BY <1>0, <1>books, <2>1 DEF TypeOK
  <2>3. DescriptorsBooked'
    BY <1>0, <1>books, <2>1 DEF SinkInv, DescriptorsBooked, Booked, Cleared
  <2> QED
    BY <2>2, <2>3
<1>1. CASE ThreadBegins(t)
  <2> DEFINE st == sink.stale \/ sink.queue # <<>>
  <2>1. st \in BOOLEAN /\ pc[t] = "new" /\ Goto(t, "loop") /\ UNCHANGED hand
        /\ sink' = [sink EXCEPT !.threadRunning = TRUE, !.sem = 0, !.stale = st]
    BY <1>0, <1>1 DEF ThreadBegins, Sinks
  <2> HIDE DEF st
  <2>2. /\ sink' \in Sinks /\ sink'.fd = sink.fd /\ sink'.next = sink.next /\ sink'.files = sink.files
        /\ sink'.threadId = sink.threadId /\ (sink'.started <=> sink.started) /\ sink'.threadRunning
        /\ sink'.failures = sink.failures /\ (sink'.retried <=> sink.retried) /\ sink'.sem = 0
    BY <1>0, <2>1 DEF Sinks
  <2>3. pc'[t] = "loop" /\ \A u \in Slots \ {t} : pc'[u] = pc[u]
    BY <1>0, <2>1 DEF Goto
  <2>4. \A u \in Slots \ {t} : pc[u] # "new"
    BY <2>1 DEF SinkInv, ThreadsControlled, ThreadBeginsAlone
  <2>5. ~sink.started => sink.failures # 0
    BY <1>a, <2>1 DEF SinkInv, ThreadsControlled, OneThread
  <2>6. ThreadServes' /\ ThreadBeginsAlone'
    BY <2>2, <2>3, <2>4 DEF SinkInv, ThreadsControlled, ThreadServes, ThreadBeginsAlone, Alive
  <2>7. ThreadsIdle'
    BY <2>1, <2>2, <2>3
       DEF SinkInv, ThreadsControlled, ThreadBeginsAlone, ThreadsIdle, Alive, Waits
  <2>8. OneThread'
    BY <1>a, <2>2, <2>3, <2>5 DEF SinkInv, ThreadsControlled, OneThread, Alive
  <2>9. ThreadsControlled'
    BY <1>0, <1>b, <2>2, <2>6, <2>7, <2>8 DEF SinkInv, ThreadsControlled
  <2> QED
    BY <1>0, <1>books, <2>1, <2>2, <2>9 DEF SinkInv, Places
<1>2. CASE ThreadLoops(t)
  <2>0. pc[t] = "loop" /\ UNCHANGED hand
    BY <1>2 DEF ThreadLoops
  <2>1. CASE sink.threadRunning
    <3>1. UNCHANGED sink /\ Goto(t, "wait")
      BY <1>2, <2>1 DEF ThreadLoops
    <3>2. ThreadsControlled'
      BY <1>0, <2>0, <2>1, <3>1, ThreadMoves DEF SinkInv
    <3> QED
      BY <1>0, <1>books, <2>0, <3>1, <3>2 DEF SinkInv, Places
  <2>2. CASE ~sink.threadRunning
    <3>1. pc' = [pc EXCEPT ![t] = "none"] /\ sink' = [sink EXCEPT !.threadId = NoThread]
      BY <1>2, <2>2 DEF ThreadLoops, Goto
    <3>2. /\ sink' \in Sinks /\ sink'.fd = sink.fd /\ sink'.next = sink.next /\ sink'.files = sink.files
          /\ (sink'.started <=> sink.started) /\ (sink'.threadRunning <=> sink.threadRunning)
          /\ sink'.failures = sink.failures /\ (sink'.retried <=> sink.retried)
          /\ sink'.sem = sink.sem
      BY <1>0, <3>1 DEF Sinks
    <3>3. pc'[t] = "none" /\ \A u \in Slots \ {t} : pc'[u] = pc[u]
      BY <1>0, <3>1
    <3>4. \A u \in Slots : pc[u] # "new"
      <4> SUFFICES ASSUME NEW u \in Slots, pc[u] = "new" PROVE FALSE
        OBVIOUS
      <4>1. Alive(t) => Waits(t)
        BY <2>0, <2>2 DEF SinkInv, ThreadsControlled, ThreadBeginsAlone
      <4> QED
        BY <1>a, <2>0, <4>1 DEF Waits
    <3>5. ~sink.started
      BY <2>2, <3>4 DEF SinkInv, ThreadsControlled, ThreadServes
    <3>6. ThreadServes' /\ ThreadBeginsAlone' /\ ThreadsIdle'
      BY <2>2, <3>2, <3>3, <3>4, <3>5 DEF ThreadServes, ThreadBeginsAlone, ThreadsIdle
    <3>7. OneThread'
      BY <1>a, <2>2, <3>2, <3>3, <3>4 DEF SinkInv, ThreadsControlled, OneThread, Alive, Waits
    <3>8. ThreadsControlled'
      BY <1>0, <1>b, <3>2, <3>6, <3>7 DEF SinkInv, ThreadsControlled
    <3> QED
      BY <1>0, <1>books, <2>0, <3>1, <3>2, <3>8 DEF SinkInv, Places, Goto
  <2> QED
    BY <2>1, <2>2
<1>3. CASE ThreadTakes(t)
  <2> DEFINE n == sink.sem - 1
  <2>0. n \in Nat /\ pc[t] = "wait" /\ sink.sem > 0
    BY <1>0, <1>3 DEF ThreadTakes, Sinks
  <2>1. CASE sink.queue = <<>>
    <3>1. sink' = [sink EXCEPT !.sem = n] /\ Goto(t, "loop") /\ UNCHANGED hand
      BY <1>3, <2>1 DEF ThreadTakes
    <3> HIDE DEF n
    <3>2. /\ sink' \in Sinks /\ sink'.fd = sink.fd /\ sink'.next = sink.next /\ sink'.files = sink.files
          /\ sink'.threadId = sink.threadId /\ (sink'.started <=> sink.started)
          /\ (sink'.threadRunning <=> sink.threadRunning) /\ sink'.sem = n
          /\ sink'.failures = sink.failures /\ (sink'.retried <=> sink.retried)
      BY <1>0, <2>0, <3>1 DEF Sinks
    <3>3. ThreadsControlled'
      BY <1>0, <2>0, <3>1, <3>2, ThreadMoves DEF SinkInv, n
    <3> QED
      BY <1>0, <1>books, <3>1, <3>2, <3>3 DEF SinkInv, Places
  <2>2. CASE sink.queue # <<>>
    <3> DEFINE q == Tail(sink.queue)
               m == Head(sink.queue)
    <3>1. /\ sink' = [sink EXCEPT !.sem = n, !.queue = q] /\ Goto(t, "got")
          /\ hand' = [hand EXCEPT ![t] = m]
      BY <1>3, <2>2 DEF ThreadTakes
    <3>2. q \in Seq(Messages) /\ m \in Messages
      BY <1>0, <2>2 DEF Sinks
    <3> HIDE DEF n, q, m
    <3>3. /\ sink' \in Sinks /\ sink'.fd = sink.fd /\ sink'.next = sink.next /\ sink'.files = sink.files
          /\ sink'.threadId = sink.threadId /\ (sink'.started <=> sink.started)
          /\ (sink'.threadRunning <=> sink.threadRunning) /\ sink'.sem = n
          /\ sink'.failures = sink.failures /\ (sink'.retried <=> sink.retried)
      BY <1>0, <2>0, <3>1, <3>2 DEF Sinks
    <3>4. hand' \in [Slots -> Messages \cup {"none"}]
      BY <1>0, <3>1, <3>2
    <3>5. ThreadsControlled'
      BY <1>0, <2>0, <3>1, <3>3, ThreadMoves DEF SinkInv, n
    <3> QED
      BY <1>books, <3>1, <3>3, <3>4, <3>5 DEF SinkInv, Places
  <2> QED
    BY <2>1, <2>2
<1>4. CASE ThreadReports(t)
  <2>0. pc[t] = "got"
    BY <1>4 DEF ThreadReports
  <2>1. CASE sink.listener /\ hand[t] = "next file" /\ sink.fd # 0 /\ sink.next # 0
    <3> DEFINE c == Close(sink, sink.fd)
    <3>1. /\ sink' = Switch(c, {sink.fd, sink.next}) /\ pc' = [pc EXCEPT ![t] = "closed"]
          /\ UNCHANGED hand
      BY <1>4, <2>1 DEF ThreadReports, Goto
    <3>2. sink.fd \in Nat /\ sink.next \in Nat /\ sink.files \in FileBooks
      BY <1>0 DEF Sinks
    <3>3. /\ c \in Sinks /\ c.files.open = sink.files.open \ {sink.fd}
          /\ c.files.twice \subseteq sink.files.twice \cup {sink.fd}
          /\ c.files.given = sink.files.given /\ c.files.forsaken = sink.files.forsaken
          /\ c.files.switched = sink.files.switched /\ c.fd = sink.fd /\ c.next = sink.next
          /\ SameThread(sink, c)
      BY <1>0, <3>2, CloseType
    <3> HIDE DEF c
    <3>4. /\ sink' \in Sinks /\ sink'.files.open = c.files.open /\ sink'.files.twice = c.files.twice
          /\ sink'.files.switched = c.files.switched \cup {sink.fd, sink.next}
          /\ sink'.files.given = c.files.given /\ sink'.files.forsaken = c.files.forsaken
          /\ sink'.fd = c.fd /\ sink'.next = c.next /\ SameThread(c, sink')
      <4> DEFINE fds == {sink.fd, sink.next}
                 r == Switch(c, fds)
      <4>1. fds \in SUBSET Nat /\ Real(fds) = fds
        BY <2>1, <3>2 DEF Real
      <4> HIDE DEF fds
      <4>2. /\ r \in Sinks /\ r.files.open = c.files.open /\ r.files.twice = c.files.twice
            /\ r.files.switched = c.files.switched \cup Real(fds)
            /\ r.files.given = c.files.given /\ r.files.forsaken = c.files.forsaken
            /\ r.fd = c.fd /\ r.next = c.next /\ SameThread(c, r)
        BY <3>3, <4>1, SwitchType
      <4>3. sink' = r
        BY <3>1 DEF fds
      <4> HIDE DEF r
      <4> QED
        BY <4>1, <4>2, <4>3, Zenon DEF fds
    <3>5. SameThread(sink, sink')
      BY <3>3, <3>4 DEF SameThread
    <3>6. pc' \in [Slots -> Places] /\ pc'[t] = "closed" /\ \A u \in Slots \ {t} : pc'[u] = pc[u]
      BY <1>0, <3>1 DEF Places
    <3>7. TypeOK'
      BY <1>0, <3>1, <3>4, <3>6 DEF TypeOK
    <3>10. ThreadsControlled'
      BY <1>0, <2>0, <3>1, <3>5, ThreadMoves DEF SinkInv, SameThread, Goto
    <3>8. Booked(sink)'
      BY <3>3, <3>4 DEF SinkInv, DescriptorsBooked, Booked
    <3>9. DescriptorsBooked'
      BY <1>0, <3>3, <3>4, <3>6, <3>8 DEF SinkInv, DescriptorsBooked, Cleared
    <3> QED
      BY <3>7, <3>9, <3>10 DEF SinkInv
  <2>2. CASE ~(sink.listener /\ hand[t] = "next file" /\ sink.fd # 0 /\ sink.next # 0)
    <3>1. UNCHANGED sink /\ Goto(t, "loop") /\ hand' = [hand EXCEPT ![t] = "none"]
      BY <1>4, <2>2 DEF ThreadReports
    <3>2. ThreadsControlled'
      BY <1>0, <2>0, <3>1, ThreadMoves DEF SinkInv
    <3> QED
      BY <1>0, <1>books, <3>1, <3>2 DEF SinkInv, Places
  <2> QED
    BY <2>1, <2>2
<1>5. CASE ThreadSwitches(t)
  <2> DEFINE c == Switch(sink, {sink.next})
  <2>1. /\ sink' = [c EXCEPT !.fd = sink.next] /\ pc[t] = "closed" /\ pc' = [pc EXCEPT ![t] = "loop"]
        /\ hand' = [hand EXCEPT ![t] = "none"]
    BY <1>5 DEF ThreadSwitches, Goto
  <2>2. sink.next \in Nat /\ sink.files \in FileBooks /\ sink.fd \in Nat
    BY <1>0 DEF Sinks
  <2>3. /\ c \in Sinks /\ c.files.open = sink.files.open /\ c.files.twice = sink.files.twice
        /\ c.files.switched = sink.files.switched \cup Real({sink.next})
        /\ c.files.given = sink.files.given /\ c.files.forsaken = sink.files.forsaken
        /\ c.next = sink.next /\ SameThread(sink, c)
    BY <1>0, <2>2, SwitchType
  <2> HIDE DEF c
  <2>4. /\ sink' \in Sinks /\ sink'.fd = sink.next /\ sink'.next = c.next /\ sink'.files = c.files
        /\ SameThread(c, sink')
    BY <2>1, <2>2, <2>3 DEF Sinks, SameThread
  <2>5. SameThread(sink, sink')
    BY <2>3, <2>4 DEF SameThread
  <2>6. pc' \in [Slots -> Places] /\ pc'[t] = "loop" /\ \A u \in Slots \ {t} : pc'[u] = pc[u]
    BY <1>0, <2>1 DEF Places
  <2>7. hand' \in [Slots -> Messages \cup {"none"}]
    BY <1>0, <2>1
  <2>8. TypeOK'
    BY <1>0, <2>4, <2>6, <2>7 DEF TypeOK
  <2>12. ThreadsControlled'
    BY <1>0, <2>1, <2>5, ThreadMoves DEF SinkInv, SameThread, Goto
  <2>9. sink.fd \in {0} \cup sink.files.switched
    BY <2>1 DEF SinkInv, DescriptorsBooked
  <2>10. Booked(sink)'
    <3> DEFINE f == sink.files
               g == sink'.files
    <3>1. Booked(sink)
      BY DEF SinkInv, DescriptorsBooked
    <3>2. /\ g.open = f.open /\ g.twice = f.twice /\ g.given = f.given /\ g.forsaken = f.forsaken
          /\ g.switched = f.switched \cup Real({sink.next})
      BY <2>3, <2>4
    <3>3. sink'.fd = sink.next /\ sink'.next = sink.next
      BY <2>3, <2>4
    <3>4. sink.next # 0 => sink.next \in g.switched
      BY <3>2 DEF Real
    <3>5. f.switched \subseteq g.switched
      BY <3>2
    <3>6. g.twice \subseteq g.switched
      BY <3>1, <3>2, <3>5 DEF Booked
    <3>7. g.open \subseteq {sink.fd, sink.next} \cup g.forsaken \cup g.switched
      BY <3>1, <3>2, <3>5 DEF Booked
    <3>8. g.open \subseteq {sink.next, sink.next} \cup g.forsaken \cup g.switched
      <4>1. CASE sink.fd \in f.switched
        BY <3>5, <3>7, <4>1
      <4>2. CASE sink.fd = 0
        <5>1. sink.fd \notin g.open
          BY <2>2, <3>2, <4>2 DEF FileBooks
        <5> QED
          BY <3>7, <5>1
      <4> QED
        BY <2>9, <4>1, <4>2
    <3>9. sink'.next <= g.given
      BY <3>1, <3>2, <3>3 DEF Booked
    <3> HIDE DEF f, g
    <3>10. Booked(sink')
      BY <3>3, <3>4, <3>6, <3>8, <3>9 DEF Booked, g
    <3> QED
      BY <3>10 DEF Booked
  <2>11. DescriptorsBooked'
    BY <1>0, <2>3, <2>4, <2>6, <2>10 DEF SinkInv, DescriptorsBooked, Cleared, Real
  <2> QED
    BY <2>8, <2>11, <2>12 DEF SinkInv
<1> QED
  BY <1>1, <1>2, <1>3, <1>4, <1>5 DEF MessageThread

\* Between calls no thread begins, and without a muxer that is started none changes
\* files; without a failed start there is none then.
LEMMA SettledThread ==
  ASSUME Prompt, SinkInv, Settled
  PROVE  /\ \A t \in Slots : pc[t] # "new"
         /\ ~sink.started => \A t \in Slots : pc[t] # "closed"
         /\ ~sink.started /\ ~sink.threadRunning => \A t \in Slots : Alive(t) => Waits(t)
         /\ ~sink.started /\ sink.failures = 0 => \A t \in Slots : ~Alive(t)
<1>1. \A t \in Slots : pc[t] # "new"
  BY DEF Settled, Alive
<1>2. ~sink.threadRunning => \A t \in Slots : Alive(t) => Waits(t)
  BY DEF Settled
<1>3. ~sink.started => \A t \in Slots : pc[t] # "closed"
  BY <1>2 DEF SinkInv, ThreadsControlled, ThreadsIdle, Alive, Waits
<1>4. ~sink.started /\ sink.failures = 0 => \A t \in Slots : ~Alive(t)
  BY <1>2 DEF SinkInv, ThreadsControlled, OneThread
<1> QED
  BY <1>1, <1>2, <1>3, <1>4

\* A call that leaves the descriptors and the threads alone.
LEMMA QuietStep ==
  ASSUME SinkInv, client # NoClient, UNCHANGED <<pc, hand, client>>, sink' \in Sinks,
         sink'.fd = sink.fd, sink'.next = sink.next, sink'.files = sink.files,
         SameThread(sink, sink'),
         rec'.status = "recording" <=> rec.status = "recording",
         rec'.status = "released" => rec.status = "released"
  PROVE  SinkInv'
<1>1. TypeOK'
  BY DEF SinkInv, TypeOK
<1>2. ThreadsControlled'
  BY ThreadsKept DEF SinkInv
<1>3. DescriptorsBooked'
  BY DEF SinkInv, DescriptorsBooked, Booked, Cleared
<1> QED
  BY <1>1, <1>2, <1>3 DEF SinkInv

\* A call that ends the recording.
LEMMA EndingStep ==
  ASSUME Prompt, SinkInv, Settled, client # NoClient, UNCHANGED <<pc, hand, client>>,
         Ended(sink, sink'), rec'.status # "recording"
  PROVE  SinkInv'
<1>1. TypeOK'
  BY DEF SinkInv, TypeOK, Ended
<1>2. ThreadsControlled'
  <2>1. /\ sink'.threadId = sink.threadId /\ ~sink'.started
        /\ sink'.failures = sink.failures /\ sink'.retried = sink.retried
    BY DEF Ended
  <2>2. \A t \in Slots : pc[t] # "new"
    BY SettledThread
  <2>3. CASE sink.started
    <3>1. sink.threadId # NoThread
      BY <2>3, SinkConstants DEF SinkInv, ThreadsControlled, ThreadServes
    <3>2. ~sink'.threadRunning /\ sink'.sem > 0
      BY <2>3, <3>1 DEF Ended
    <3>3. sink'.sem # 0
      BY <3>2, <1>1 DEF TypeOK, Sinks
    <3> QED
      BY <2>1, <2>2, <3>2, <3>3
         DEF SinkInv, ThreadsControlled, ThreadServes, ThreadBeginsAlone, ThreadsIdle, OneThread,
             Alive, Waits
  <2>4. CASE ~sink.started
    <3>1. sink'.threadRunning = sink.threadRunning /\ sink'.sem = sink.sem
      BY <2>4 DEF Ended
    <3> QED
      BY <2>1, <2>2, <2>4, <3>1
         DEF SinkInv, ThreadsControlled, ThreadServes, ThreadBeginsAlone, ThreadsIdle, OneThread,
             Alive, Waits
  <2> QED
    BY <2>3, <2>4
<1>3. DescriptorsBooked'
  BY DEF SinkInv, DescriptorsBooked, Ended, Booked, Cleared
<1> QED
  BY <1>1, <1>2, <1>3 DEF SinkInv

LEMMA ConnectStep ==
  ASSUME SinkInv, NEW p \in Processes, Connect(p)
  PROVE  SinkInv'
<1>1. /\ client = NoClient /\ client' = p /\ rec'.status = "initialized" /\ UNCHANGED <<sink, hand>>
      /\ pc' = [t \in Slots |-> "none"]
  BY FreshRecorderType DEF Connect
<1>2. client' # NoClient
  BY <1>1, ServiceConstants
<1>3. ~sink.started
  BY <1>1 DEF SinkInv, ThreadsControlled
<1>4. TypeOK'
  BY <1>1 DEF SinkInv, TypeOK, Places
<1>5. \A t \in Slots : pc'[t] = "none" /\ ~Alive(t)'
  BY <1>1 DEF Alive
<1>6. sink.failures = 0 => ~sink.threadRunning
  BY <1>3 DEF SinkInv, ThreadsControlled, OneThread
<1>7. ThreadsControlled'
  <2>1. sink.threadRunning => sink.sem = 0
    BY <1>3 DEF SinkInv, ThreadsControlled, ThreadsIdle
  <2> QED
    BY <1>1, <1>2, <1>3, <1>5, <1>6, <2>1
       DEF SinkInv, ThreadsControlled, ThreadServes, ThreadBeginsAlone, ThreadsIdle, OneThread
<1>8. DescriptorsBooked'
  BY <1>1, <1>5 DEF SinkInv, DescriptorsBooked, Booked
<1> QED
  BY <1>4, <1>7, <1>8 DEF SinkInv

\* The sink goes, its thread is cancelled, and no descriptor is forgotten.
LEMMA DisconnectStep ==
  ASSUME SinkInv, NEW p \in Processes, Disconnect(p)
  PROVE  SinkInv'
<1>0. /\ sink \in Sinks /\ pc \in [Slots -> Places] /\ hand \in [Slots -> Messages \cup {"none"}]
      /\ Booked(sink) /\ sink.files \in FileBooks /\ {sink.fd, sink.next} \in SUBSET Nat
  BY DEF SinkInv, TypeOK, DescriptorsBooked, Sinks
<1>1. /\ pc' = [t \in Slots |-> IF t \in Killed(sink) THEN "none"
                               ELSE IF Alive(t) THEN "stray" ELSE pc[t]]
      /\ client' = NoClient /\ rec'.status = "none" /\ hand' = [t \in Slots |-> "none"]
  BY FreshRecorderType DEF Disconnect
<1> DEFINE AllHeld(f) == /\ f \in FileBooks /\ f.twice \subseteq f.switched
                         /\ f.open \subseteq {0} \cup f.forsaken \cup f.switched
<1>2. PICK f : AllHeld(f) /\ sink' = FreshSink(f)
  <2>1. AllHeld(Forsake(sink, {sink.fd, sink.next}).files)
    <3> DEFINE r == Forsake(sink, {sink.fd, sink.next})
    <3>1. /\ r.files \in FileBooks /\ r.files.forsaken = sink.files.forsaken \cup Real({sink.fd, sink.next})
          /\ r.files.open = sink.files.open /\ r.files.twice = sink.files.twice
          /\ r.files.switched = sink.files.switched
      <4>1. r \in Sinks
        BY <1>0, ForsakeType
      <4>2. r.files \in FileBooks
        BY <4>1 DEF Sinks
      <4> QED
        BY <1>0, <4>2, ForsakeType
    <3> HIDE DEF r
    <3>2. AllHeld(r.files)
      BY <1>0, <3>1 DEF Booked, Real
    <3> QED
      BY <3>2 DEF r
  <2>2. AllHeld(SinkRelease(sink).files)
    BY <1>0, SinkReleaseEnds DEF Cleared
  <2>3. ASSUME rec.status = "released" PROVE AllHeld(sink.files)
    BY <1>0, <2>3 DEF SinkInv, DescriptorsBooked, Booked, Cleared
  <2> HIDE DEF AllHeld
  <2> QED
    BY <2>1, <2>2, <2>3 DEF Disconnect
<1>3. /\ sink' \in Sinks /\ sink'.fd = 0 /\ sink'.next = 0 /\ sink'.files = f /\ ~sink'.started
      /\ ~sink'.threadRunning /\ ~sink'.retried
  BY <1>2, FreshSinkFacts
<1>4. \A t \in Slots : pc'[t] \in {"none", "stray"} /\ ~Alive(t)'
  BY <1>1 DEF Alive
<1>5. pc' \in [Slots -> Places]
  BY <1>0, <1>1 DEF Places
<1>6. TypeOK' /\ ThreadsControlled'
  BY <1>0, <1>1, <1>3, <1>4, <1>5
     DEF TypeOK, ThreadsControlled, ThreadServes, ThreadBeginsAlone, ThreadsIdle, OneThread
<1>7. DescriptorsBooked'
  <2>1. f \in FileBooks /\ f.twice \subseteq f.switched /\ f.open \subseteq {0} \cup f.forsaken \cup f.switched
    BY <1>2
  <2>2. f.given \in Nat
    BY <2>1 DEF FileBooks
  <2> QED
    BY <1>1, <1>3, <1>4, <2>1, <2>2 DEF DescriptorsBooked, Booked
<1> QED
  BY <1>6, <1>7 DEF SinkInv

LEMMA SettingStep ==
  ASSUME SinkInv, rec \in Recorders, NEW p \in Processes, Setting(p)
  PROVE  SinkInv'
<1>0. sink \in Sinks /\ NoClient \notin Processes
  BY ServiceConstants DEF SinkInv, TypeOK
<1>1. client # NoClient /\ UNCHANGED <<sink, pc, hand, client>>
  BY <1>0 DEF Setting, SetSource, Configure, SetVideoEncoder, Asks, sinkVars
<1>2. rec'.status = rec.status
  BY DEF Setting, SetSource, Configure, SetVideoEncoder, Keep, Recorders
<1> QED
  BY <1>0, <1>1, <1>2, QuietStep DEF SameThread

\* A descriptor that arrives is a new one.
LEMMA ReceivedFacts ==
  ASSUME sink \in Sinks, NEW fd, fd = sink.files.given + 1
  PROVE  /\ fd \in Nat \ {0} /\ Received(fd) \in Sinks
         /\ Received(fd).fd = sink.fd /\ Received(fd).next = sink.next
         /\ Received(fd).files.open = sink.files.open \cup {fd}
         /\ Received(fd).files.twice = sink.files.twice /\ Received(fd).files.given = fd
         /\ Received(fd).files.forsaken = sink.files.forsaken
         /\ Received(fd).files.switched = sink.files.switched
         /\ SameThread(sink, Received(fd))
<1>1. fd \in Nat \ {0}
  BY DEF Sinks, FileBooks
<1> DEFINE n == fd
<1> HIDE DEF n
<1>2. n \in Nat \ {0}
  BY <1>1 DEF n
<1>3. /\ Received(n) \in Sinks
      /\ Received(n).fd = sink.fd /\ Received(n).next = sink.next
      /\ Received(n).files.open = sink.files.open \cup {n}
      /\ Received(n).files.twice = sink.files.twice /\ Received(n).files.given = n
      /\ Received(n).files.forsaken = sink.files.forsaken
      /\ Received(n).files.switched = sink.files.switched
      /\ SameThread(sink, Received(n))
  BY <1>2 DEF Received, Sinks, FileBooks, SameThread
<1> QED
  BY <1>1, <1>3, Zenon DEF n

\* Of a new descriptor that is refused nothing but the books knows.
LEMMA RefusedStep ==
  ASSUME SinkInv, client # NoClient, UNCHANGED <<pc, hand, client, rec>>,
         sink' = Forsake(Received(sink.files.given + 1), {sink.files.given + 1})
  PROVE  SinkInv'
<1> DEFINE fd == sink.files.given + 1
           r == Received(fd)
<1>0. sink \in Sinks /\ sink.files \in FileBooks /\ Booked(sink) /\ sink.fd \in Nat /\ sink.next \in Nat
  BY DEF SinkInv, TypeOK, DescriptorsBooked, Sinks
<1>1. /\ fd \in Nat \ {0} /\ r \in Sinks /\ r.fd = sink.fd /\ r.next = sink.next
      /\ r.files.open = sink.files.open \cup {fd} /\ r.files.twice = sink.files.twice
      /\ r.files.given = fd /\ r.files.forsaken = sink.files.forsaken
      /\ r.files.switched = sink.files.switched /\ SameThread(sink, r)
  BY <1>0, ReceivedFacts
<1>2. sink' = Forsake(r, {fd})
  OBVIOUS
<1>3. sink.files.given <= fd
  BY <1>0 DEF FileBooks
<1>4. sink.files.given \in Nat
  BY <1>0 DEF FileBooks
<1> HIDE DEF r, fd
<1>5. /\ sink' \in Sinks /\ sink'.fd = sink.fd /\ sink'.next = sink.next
      /\ sink'.files.open = sink.files.open \cup {fd} /\ sink'.files.twice = sink.files.twice
      /\ sink'.files.given = fd /\ sink'.files.forsaken = sink.files.forsaken \cup {fd}
      /\ sink'.files.switched = sink.files.switched /\ SameThread(r, sink')
  <2> DEFINE fds == {fd}
             q == Forsake(r, fds)
  <2>1. fds \in SUBSET Nat /\ Real(fds) = fds
    BY <1>1 DEF Real
  <2> HIDE DEF fds
  <2>2. /\ q \in Sinks /\ q.fd = r.fd /\ q.next = r.next
        /\ q.files.open = r.files.open /\ q.files.twice = r.files.twice
        /\ q.files.given = r.files.given /\ q.files.forsaken = r.files.forsaken \cup fds
        /\ q.files.switched = r.files.switched /\ SameThread(r, q)
    BY <1>1, <2>1, ForsakeType
  <2>3. sink' = q
    BY <1>2 DEF fds
  <2> HIDE DEF q
  <2> QED
    BY <1>1, <2>2, <2>3 DEF fds
<1>6. SameThread(sink, sink')
  BY <1>1, <1>5 DEF SameThread
<1>7. TypeOK' /\ ThreadsControlled'
  BY <1>5, <1>6, ThreadsKept DEF SinkInv, TypeOK
<1>8. Booked(sink')
  <2> DEFINE f == sink.files
             g == sink'.files
  <2>1. sink.fd <= fd /\ sink.next <= fd
    BY <1>0, <1>1, <1>3, <1>4 DEF Booked
  <2>2. g.open \subseteq {sink.fd, sink.next} \cup g.forsaken \cup g.switched
    BY <1>0, <1>5 DEF Booked
  <2>3. g.twice \subseteq g.switched
    BY <1>0, <1>5 DEF Booked
  <2>4. sink.next # 0 => sink.next \in g.switched \/ (sink.next \in g.open /\ sink.next # sink.fd)
    BY <1>0, <1>5 DEF Booked
  <2> QED
    BY <1>5, <2>1, <2>2, <2>3, <2>4 DEF Booked
<1>9. DescriptorsBooked'
  BY <1>5, <1>8 DEF SinkInv, DescriptorsBooked, Booked, Cleared
<1> QED
  BY <1>7, <1>9 DEF SinkInv

\* The file is set while the muxer is stopped, when no message thread changes files.
LEMMA SetOutputFileStep ==
  ASSUME Prompt, SinkInv, NEW p \in Processes, SetOutputFile(p)
  PROVE  SinkInv'
<1> DEFINE fd == sink.files.given + 1
           r == Received(fd)
           q == Forsake(r, {r.fd})
<1>0. sink \in Sinks /\ sink.files \in FileBooks /\ Booked(sink) /\ sink.fd \in Nat /\ sink.next \in Nat
  BY DEF SinkInv, TypeOK, DescriptorsBooked, Sinks
<1>1. client # NoClient /\ Settled /\ UNCHANGED <<pc, hand, client, rec>>
  BY DEF SetOutputFile
<1>2. CASE client = p /\ rec.status \in {"initialized", "stopped"}
  <2>1. sink' = [q EXCEPT !.fd = fd]
    BY <1>2 DEF SetOutputFile, SinkSetOutputFile
  <2>2. \A t \in Slots : pc[t] # "closed"
    BY <1>1, <1>2, SettledThread DEF SinkInv, ThreadsControlled
  <2>3. /\ fd \in Nat \ {0} /\ r \in Sinks /\ r.fd = sink.fd /\ r.next = sink.next
        /\ r.files.open = sink.files.open \cup {fd} /\ r.files.twice = sink.files.twice
        /\ r.files.given = fd /\ r.files.forsaken = sink.files.forsaken
        /\ r.files.switched = sink.files.switched /\ SameThread(sink, r)
    BY <1>0, ReceivedFacts
  <2>4. sink.files.given < fd /\ sink.files.given \in Nat
    BY <1>0 DEF FileBooks
  <2> HIDE DEF r, fd
  <2>5. /\ q \in Sinks /\ q.next = r.next
        /\ q.files.open = r.files.open /\ q.files.twice = r.files.twice
        /\ q.files.given = r.files.given /\ q.files.forsaken = r.files.forsaken \cup Real({r.fd})
        /\ q.files.switched = r.files.switched /\ SameThread(r, q)
    <3> DEFINE fds == {r.fd}
    <3>1. fds \in SUBSET Nat
      BY <1>0, <2>3
    <3> HIDE DEF fds
    <3> DEFINE e == Forsake(r, fds)
    <3>2. /\ e \in Sinks /\ e.next = r.next
          /\ e.files.open = r.files.open /\ e.files.twice = r.files.twice
          /\ e.files.given = r.files.given /\ e.files.forsaken = r.files.forsaken \cup Real(fds)
          /\ e.files.switched = r.files.switched /\ SameThread(r, e)
      BY <2>3, <3>1, ForsakeType
    <3> QED
      BY <3>2, Zenon DEF fds
  <2> HIDE DEF q
  <2>6. /\ sink' \in Sinks /\ sink'.fd = fd /\ sink'.next = q.next /\ sink'.files = q.files
        /\ SameThread(q, sink')
    BY <2>1, <2>3, <2>5 DEF Sinks, SameThread
  <2>7. SameThread(sink, sink')
    BY <2>3, <2>5, <2>6 DEF SameThread
  <2>8. TypeOK' /\ ThreadsControlled'
    BY <1>1, <2>6, <2>7, ThreadsKept DEF SinkInv, TypeOK
  <2>9. Booked(sink')
    <3> DEFINE f == sink.files
               g == sink'.files
    <3>1. /\ g.open = f.open \cup {fd} /\ g.twice = f.twice /\ g.given = fd
          /\ g.forsaken = f.forsaken \cup Real({sink.fd}) /\ g.switched = f.switched
      BY <2>3, <2>5, <2>6
    <3>2. sink'.next = sink.next /\ sink'.fd = fd
      BY <2>3, <2>5, <2>6
    <3>3. 0 \notin f.open
      BY <1>0 DEF FileBooks
    <3>4. g.open \subseteq {fd, sink.next} \cup g.forsaken \cup g.switched
      BY <1>0, <3>1, <3>3 DEF Booked, Real
    <3>5. sink.next <= fd /\ sink.next # fd
      BY <1>0, <2>3, <2>4 DEF Booked
    <3>6. sink.next # 0 => sink.next \in g.switched \/ (sink.next \in g.open /\ sink.next # fd)
      BY <1>0, <3>1, <3>5 DEF Booked
    <3>7. g.twice \subseteq g.switched
      BY <1>0, <3>1 DEF Booked
    <3> QED
      BY <2>3, <3>1, <3>2, <3>4, <3>5, <3>6, <3>7 DEF Booked
  <2>10. DescriptorsBooked'
    BY <1>1, <1>2, <2>2, <2>9 DEF DescriptorsBooked
  <2> QED
    BY <2>8, <2>10 DEF SinkInv
<1>3. CASE ~(client = p /\ rec.status \in {"initialized", "stopped"})
  <2>1. sink' = Forsake(r, {fd})
    BY <1>3 DEF SetOutputFile
  <2> QED
    BY <1>1, <2>1, RefusedStep
<1> QED
  BY <1>2, <1>3

LEMMA SetNextOutputFileStep ==
  ASSUME SinkInv, NEW p \in Processes, SetNextOutputFile(p)
  PROVE  SinkInv'
<1> DEFINE fd == sink.files.given + 1
           r == Received(fd)
           q == Forsake(r, {r.next} \ {r.fd})
<1>0. sink \in Sinks /\ sink.files \in FileBooks /\ Booked(sink) /\ sink.fd \in Nat /\ sink.next \in Nat
  BY DEF SinkInv, TypeOK, DescriptorsBooked, Sinks
<1>1. client # NoClient /\ UNCHANGED <<pc, hand, client, rec>>
  BY DEF SetNextOutputFile
<1>2. CASE client = p /\ rec.status # "released" /\ sink.prepared
  <2>1. sink' = [q EXCEPT !.next = fd, !.muxNext = TRUE]
    BY <1>2 DEF SetNextOutputFile, SinkSetNextOutputFile
  <2>3. /\ fd \in Nat \ {0} /\ r \in Sinks /\ r.fd = sink.fd /\ r.next = sink.next
        /\ r.files.open = sink.files.open \cup {fd} /\ r.files.twice = sink.files.twice
        /\ r.files.given = fd /\ r.files.forsaken = sink.files.forsaken
        /\ r.files.switched = sink.files.switched /\ SameThread(sink, r)
    BY <1>0, ReceivedFacts
  <2>4. sink.files.given < fd /\ sink.files.given \in Nat
    BY <1>0 DEF FileBooks
  <2> HIDE DEF r, fd
  <2>5. /\ q \in Sinks /\ q.fd = r.fd
        /\ q.files.open = r.files.open /\ q.files.twice = r.files.twice
        /\ q.files.given = r.files.given
        /\ q.files.forsaken = r.files.forsaken \cup Real({r.next} \ {r.fd})
        /\ q.files.switched = r.files.switched /\ SameThread(r, q)
    <3> DEFINE fds == {r.next} \ {r.fd}
    <3>1. fds \in SUBSET Nat
      BY <1>0, <2>3
    <3> HIDE DEF fds
    <3> DEFINE e == Forsake(r, fds)
    <3>2. /\ e \in Sinks /\ e.fd = r.fd
          /\ e.files.open = r.files.open /\ e.files.twice = r.files.twice
          /\ e.files.given = r.files.given /\ e.files.forsaken = r.files.forsaken \cup Real(fds)
          /\ e.files.switched = r.files.switched /\ SameThread(r, e)
      BY <2>3, <3>1, ForsakeType
    <3> QED
      BY <3>2, Zenon DEF fds
  <2> HIDE DEF q
  <2>6. /\ sink' \in Sinks /\ sink'.fd = q.fd /\ sink'.next = fd /\ sink'.files = q.files
        /\ SameThread(q, sink')
    BY <2>1, <2>3, <2>5 DEF Sinks, SameThread
  <2>7. SameThread(sink, sink')
    BY <2>3, <2>5, <2>6 DEF SameThread
  <2>8. TypeOK' /\ ThreadsControlled'
    BY <1>1, <2>6, <2>7, ThreadsKept DEF SinkInv, TypeOK
  <2> DEFINE f == sink.files
             g == sink'.files
  <2>a. /\ g.open = f.open \cup {fd} /\ g.twice = f.twice /\ g.given = fd
        /\ g.forsaken = f.forsaken \cup Real({sink.next} \ {sink.fd}) /\ g.switched = f.switched
    BY <2>3, <2>5, <2>6
  <2>b. sink'.next = fd /\ sink'.fd = sink.fd
    BY <2>3, <2>5, <2>6
  <2>9. Booked(sink')
    <3>3. 0 \notin f.open
      BY <1>0 DEF FileBooks
    <3>4. g.open \subseteq {sink.fd, fd} \cup g.forsaken \cup g.switched
      BY <1>0, <2>a, <3>3 DEF Booked, Real
    <3>5. sink.fd <= fd /\ sink.fd # fd
      BY <1>0, <2>3, <2>4 DEF Booked
    <3>6. fd \in g.open
      BY <2>a
    <3>7. g.twice \subseteq g.switched
      BY <1>0, <2>a DEF Booked
    <3> QED
      BY <2>3, <2>a, <2>b, <3>4, <3>5, <3>6, <3>7 DEF Booked
  <2>10. DescriptorsBooked'
    BY <1>1, <1>2, <2>9, <2>a, <2>b DEF SinkInv, DescriptorsBooked
  <2> QED
    BY <2>8, <2>10 DEF SinkInv
<1>3. CASE ~(client = p /\ rec.status # "released" /\ sink.prepared)
  <2>1. sink' = Forsake(r, {fd})
    BY <1>3 DEF SetNextOutputFile
  <2> QED
    BY <1>1, <2>1, RefusedStep
<1> QED
  BY <1>2, <1>3

LEMMA FilesStep ==
  ASSUME Prompt, SinkInv, NEW p \in Processes, Files(p)
  PROVE  SinkInv'
<1>1. CASE SetRecorderCallback(p)
  <2>1. client # NoClient /\ sink' = [sink EXCEPT !.listener = TRUE] /\ UNCHANGED <<pc, hand, client, rec>>
    BY <1>1, ServiceConstants DEF SetRecorderCallback, Asks
  <2>2. sink \in Sinks
    BY DEF SinkInv, TypeOK
  <2>3. /\ sink' \in Sinks /\ sink'.fd = sink.fd /\ sink'.next = sink.next /\ sink'.files = sink.files
        /\ SameThread(sink, sink')
    BY <2>1, <2>2 DEF Sinks, SameThread
  <2> QED
    BY <2>1, <2>3, QuietStep
<1> QED
  BY <1>1, SetOutputFileStep, SetNextOutputFileStep DEF Files

LEMMA PrepareStep ==
  ASSUME SinkInv, rec \in Recorders, NEW p \in Processes, Prepare(p)
  PROVE  SinkInv'
<1>1. client # NoClient /\ UNCHANGED <<pc, hand, client>> /\ rec.status = "initialized"
  BY ServiceConstants DEF Prepare, Asks, IsPrepared
<1>2. sink \in Sinks
  BY DEF SinkInv, TypeOK
<1>3. /\ sink' \in Sinks /\ sink'.fd = sink.fd /\ sink'.next = sink.next /\ sink'.files = sink.files
      /\ SameThread(sink, sink')
  BY <1>2 DEF Prepare, SinkPrepare, Sinks, SameThread
<1>4. rec'.status \in {"initialized", "prepared"}
  BY <1>1 DEF Prepare, PrepareSources, Recorders
<1> QED
  BY <1>1, <1>3, <1>4, QuietStep

\* A new thread finds none but those of starts that failed before, which run or wait.
LEMMA StartStep ==
  ASSUME Prompt, SinkInv, rec \in Recorders, NEW p \in Processes, Start(p)
  PROVE  SinkInv'
<1> DEFINE t == FreeSlot
<1>1. /\ client # NoClient /\ Settled /\ UNCHANGED <<hand, client>>
      /\ rec.status \notin {"recording", "released"} /\ pc' = [pc EXCEPT ![t] = "new"]
  BY ServiceConstants DEF Start, Asks, Goto
<1>2. t \in Slots /\ pc[t] = "none"
  <2>1. \E u \in FreeSlots : TRUE
    BY DEF Start
  <2>2. t \in FreeSlots
    BY <2>1 DEF FreeSlot
  <2> QED
    BY <2>2 DEF FreeSlots
<1>3. PICK ok \in BOOLEAN : /\ sink' = SinkStart(sink, t, ok)
                            /\ ok => To("recording")
                            /\ ~ok => UNCHANGED rec
  BY DEF Start
<1> HIDE DEF t
<1>4. /\ sink \in Sinks /\ pc \in [Slots -> Places] /\ ~sink.started
  BY <1>1 DEF SinkInv, TypeOK, ThreadsControlled
<1>5. rec'.status = "recording" <=> ok
  BY <1>1, <1>3 DEF To, Recorders
<1>6. rec'.status # "released"
  BY <1>1, <1>3 DEF To, Recorders
<1>7. /\ sink' \in Sinks /\ sink'.fd = sink.fd /\ sink'.next = sink.next /\ sink'.files = sink.files
      /\ sink'.threadId = t /\ (sink'.started <=> ok) /\ sink'.threadRunning = sink.threadRunning
      /\ sink'.sem = sink.sem /\ (sink'.retried <=> sink.retried \/ sink.failures > 0)
      /\ sink'.failures = IF ok THEN sink.failures ELSE sink.failures + 1
  <2> DEFINE n == IF ok THEN sink.failures ELSE sink.failures + 1
             again == sink.retried \/ sink.failures > 0
  <2>1. n \in Nat /\ again \in BOOLEAN
    BY <1>4 DEF Sinks
  <2>2. sink' = [sink EXCEPT !.threadId = t, !.started = ok, !.retried = again, !.failures = n]
    BY <1>3 DEF SinkStart
  <2> HIDE DEF n, again
  <2>3. /\ sink' \in Sinks /\ sink'.fd = sink.fd /\ sink'.next = sink.next /\ sink'.files = sink.files
        /\ sink'.threadId = t /\ (sink'.started <=> ok) /\ sink'.threadRunning = sink.threadRunning
        /\ sink'.sem = sink.sem /\ (sink'.retried <=> again) /\ sink'.failures = n
    BY <1>2, <1>4, <2>1, <2>2 DEF Sinks
  <2> QED
    BY <2>3 DEF n, again
<1>8. pc' \in [Slots -> Places] /\ pc'[t] = "new" /\ \A u \in Slots \ {t} : pc'[u] = pc[u]
  BY <1>1, <1>2, <1>4 DEF Places
<1>9. TypeOK'
  BY <1>1, <1>7, <1>8 DEF SinkInv, TypeOK
<1>10. sink.failures \in Nat
  BY <1>4 DEF Sinks
<1>11. ThreadServes' /\ ThreadsIdle'
  BY <1>2, <1>4, <1>7, <1>8 DEF SinkInv, ThreadsControlled, ThreadServes, ThreadsIdle, Alive
<1>12. ThreadBeginsAlone'
  BY <1>1, <1>4, <1>7, <1>8, SettledThread DEF ThreadBeginsAlone, Alive, Waits
<1>13. OneThread'
  <2>1. sink'.failures = 0 => ok
    BY <1>7, <1>10
  <2>2. ~sink'.retried => \A u \in Slots : ~Alive(u)
    BY <1>1, <1>4, <1>7, <1>10, SettledThread
  <2> QED
    BY <1>7, <1>8, <2>1, <2>2 DEF OneThread, Alive
<1>14. sink'.retried => sink'.failures > 0
  BY <1>7, <1>10 DEF SinkInv, ThreadsControlled
<1>15. ThreadsControlled'
  BY <1>1, <1>5, <1>7, <1>11, <1>12, <1>13, <1>14 DEF ThreadsControlled
<1>16. DescriptorsBooked'
  BY <1>6, <1>7, <1>8 DEF SinkInv, DescriptorsBooked, Booked
<1> QED
  BY <1>9, <1>15, <1>16 DEF SinkInv

\* Stop, Reset and Release, and what is left of them when the muxer cannot be
\* destroyed.
LEMMA HaltStep ==
  ASSUME Prompt, SinkInv, rec \in Recorders, NEW p \in Processes, Stop(p) \/ Reset(p) \/ Release(p)
  PROVE  SinkInv'
<1>0. sink \in Sinks /\ Booked(sink)
  BY DEF SinkInv, TypeOK, DescriptorsBooked
<1>1. client # NoClient /\ Settled /\ UNCHANGED <<pc, hand, client>>
  BY ServiceConstants DEF Stop, Reset, Release, Asks
<1>2. Halted \in Sinks /\ Booked(Halted) /\ ~Halted.started /\ (Halted = sink \/ Ended(sink, Halted))
  <2>1. CASE Active
    BY <1>0, <2>1, SinkStopEnds DEF Halted, Ended
  <2>2. CASE ~Active
    BY <1>0, <2>2 DEF Halted, Active, SinkInv, ThreadsControlled
  <2> QED
    BY <2>1, <2>2
<1>3. ASSUME NEW r, Ended(Halted, r) PROVE Ended(sink, r)
  BY <1>0, <1>2, <1>3, EndedTwice
<1>4. CASE Stop(p)
  <2>1. rec'.status # "recording"
    BY <1>4 DEF Stop, To, Recorders
  <2>2. Ended(sink, sink')
    BY <1>0, <1>4, SinkStopEnds DEF Stop
  <2> QED
    BY <1>1, <2>1, <2>2, EndingStep
<1>5. ASSUME sink' = CloseFd(Halted), To(IF Active THEN "stopped" ELSE rec.status)
      PROVE  SinkInv'
  <2>1. rec'.status # "recording"
    BY <1>5 DEF To, Active, Recorders
  <2>2. Ended(sink, sink')
    BY <1>2, <1>3, <1>5, CloseFdEnds
  <2> QED
    BY <1>1, <2>1, <2>2, EndingStep
<1>6. CASE sink' = SinkReset(Halted) /\ rec' = FreshRecorder
  <2>1. Ended(sink, sink')
    BY <1>2, <1>3, <1>6, SinkResetEnds
  <2> QED
    BY <1>1, <1>6, <2>1, EndingStep, FreshRecorderType
<1>7. CASE sink' = SinkRelease(Halted) /\ rec' = ReleasedRecorder
  <2>1. Ended(sink, sink')
    BY <1>2, <1>3, <1>7, SinkReleaseEnds
  <2>2. rec'.status # "recording"
    BY <1>7, FreshRecorderType
  <2> QED
    BY <1>1, <2>1, <2>2, EndingStep
<1> QED
  BY <1>4, <1>5, <1>6, <1>7 DEF Reset, Release

LEMMA SinkInvStep ==
  ASSUME Prompt, rec \in Recorders, SinkInv, [Next]_vars
  PROVE  SinkInv'
<1>1. ASSUME NEW p \in Processes, Call(p) PROVE SinkInv'
  BY <1>1, ConnectStep, DisconnectStep, SettingStep, FilesStep, PrepareStep, StartStep, HaltStep
  DEF Call, Session, Recording
<1>2. CASE MuxerReports /\ Below
  BY <1>2, MuxerReportsStep
<1>3. ASSUME NEW t \in Slots, MessageThread(t) /\ Below PROVE SinkInv'
  BY <1>3, MessageThreadStep
<1>4. CASE UNCHANGED vars
  <2>1. TypeOK' /\ DescriptorsBooked'
    BY <1>4 DEF vars, sinkVars, SinkInv, TypeOK, DescriptorsBooked
  <2>2. ThreadsControlled'
    BY <1>4, ThreadsKept DEF vars, sinkVars, SinkInv, SameThread
  <2> QED
    BY <2>1, <2>2 DEF SinkInv
<1> QED
  BY <1>1, <1>2, <1>3, <1>4 DEF Next

LEMMA SinkInvariant ==
  ASSUME Prompt
  PROVE  Spec => []SinkInv
<1>1. SinkInv /\ TracksInv /\ [Next]_vars => SinkInv'
  BY SinkInvStep DEF TracksInv
<1> QED
  BY <1>1, SinkInvInit, TracksInit, TracksStep, PTL DEF Spec

\* A descriptor the recorder took is closed exactly once, for every number of
\* descriptors, of calls and of messages, if it was not replaced or unused and had
\* no part in a change of files.
THEOREM DescriptorsClosedOnce ==
  ASSUME Prompt
  PROVE  Spec => []DescriptorsAccounted
<1>1. SinkInv => DescriptorsAccounted
  BY DEF SinkInv, DescriptorsBooked, Booked, DescriptorsAccounted
<1> QED
  BY <1>1, SinkInvariant, PTL

\* Deleting the sink leaves no message thread behind, whatever the calls, the messages
\* and the threads interleave to, unless a start of its muxer failed and was tried
\* again; and a thread goes astray at no other step.
THEOREM ThreadsGoWithTheirSink ==
  ASSUME Prompt
  PROVE  Spec => NoThreadOutlivesSink
<1> DEFINE NoneLeft == \A t \in Slots : pc'[t] = "stray" => pc[t] = "stray" \/ sink.retried
<1>1. SinkInv /\ [Next]_vars => [NoneLeft]_vars
  <2> SUFFICES ASSUME SinkInv, Next PROVE NoneLeft
    OBVIOUS
  <2>0. pc \in [Slots -> Places] /\ NoThread \notin Slots
    BY SinkConstants DEF SinkInv, TypeOK
  <2>1. ASSUME NEW p \in Processes, Disconnect(p) PROVE NoneLeft
    <3>1. \A t \in Slots : Alive(t) => t \in Killed(sink) \/ sink.retried
      BY <2>0 DEF SinkInv, ThreadsControlled, OneThread, Killed
    <3>2. pc' = [t \in Slots |-> IF t \in Killed(sink) THEN "none"
                                ELSE IF Alive(t) THEN "stray" ELSE pc[t]]
      BY <2>1 DEF Disconnect
    <3> QED
      BY <3>1, <3>2
  <2>2. ASSUME NEW p \in Processes, Call(p), ~Disconnect(p) PROVE NoneLeft
    <3>1. \/ UNCHANGED pc \/ pc' = [t \in Slots |-> "none"] \/ Goto(FreeSlot, "new")
      BY <2>2 DEF Call, Session, Setting, Files, Recording, Connect, SetSource, Configure,
         SetVideoEncoder, SetOutputFile, SetNextOutputFile, SetRecorderCallback, Prepare, Start,
         Stop, Reset, Release, sinkVars
    <3> QED
      BY <2>0, <3>1 DEF Goto
  <2>3. CASE MuxerReports /\ Below
    BY <2>3 DEF MuxerReports
  <2>4. ASSUME NEW t \in Slots, MessageThread(t) /\ Below PROVE NoneLeft
    <3>1. PICK place \in {"none", "loop", "wait", "got", "closed"} : Goto(t, place)
      BY <2>4 DEF MessageThread, ThreadBegins, ThreadLoops, ThreadTakes, ThreadReports,
         ThreadSwitches
    <3> QED
      BY <2>0, <3>1 DEF Goto
  <2> QED
    BY <2>1, <2>2, <2>3, <2>4 DEF Next
<1> QED
  BY <1>1, SinkInvariant, PTL DEF Spec, NoThreadOutlivesSink

=============================================================================
