---------------------------- MODULE RecorderSink ----------------------------
(***************************************************************************)
(* The sink of a recorder (recorder_sink.cpp): the muxer, the file         *)
(* descriptors it writes to, and the message thread, which hands what the  *)
(* muxer reports to the application's listener.                            *)
(*                                                                         *)
(* The functions of the sink are called under the recorder's mutex_; here  *)
(* each is a function from one state of the sink to the next.  The message *)
(* thread and the muxer's callbacks run beside them and take no lock.      *)
(* This is the service's build: in the passthrough build CloseFd and the   *)
(* change of files in SendCallbackInfo are left out.                       *)
(***************************************************************************)
EXTENDS Naturals, Sequences, FiniteSets

CONSTANTS
  Slots,     \* bound: the message threads that may exist at a time
  NoThread,  \* threadId_ of a sink without a message thread
  MaxFiles,  \* bound: how many descriptors are handed to the service
  WriteOnly, \* the descriptors that cannot be read from
  MaxPosts,  \* bound: how many messages a muxer reports
  MaxFailures, \* bound: how many starts of a muxer fail
  Prompt     \* a message thread that was created or told to end has got
             \* there before the recorder's next call or the next message

ASSUME SinkConstants ==
  IsFiniteSet(Slots) /\ NoThread \notin Slots /\ MaxFiles \in Nat /\ MaxPosts \in Nat
    /\ MaxFailures \in Nat /\ WriteOnly \subseteq 1..MaxFiles /\ Prompt \in BOOLEAN

VARIABLES
  sink,   \* the fields of RecorderSink, and the descriptors of the process
  pc,     \* pc[t]: where message thread t is, "none" if there is no such thread,
          \* "stray" if its sink has been deleted: what it does then is undefined
  hand    \* hand[t]: the message it has popped

sinkVars == <<sink, pc, hand>>

Messages == {"info", "next file"}

\* A new sink in a process that has the descriptors of files; 0 is none.
FreshSink(files) ==
  [prepared |-> FALSE, started |-> FALSE, fd |-> 0, next |-> 0, listener |-> FALSE,
   queue |-> <<>>, sem |-> 0, threadRunning |-> FALSE, threadId |-> NoThread,
   muxNext |-> FALSE, posts |-> 0,   \* the muxer: has a next file; messages (bound)
   stale |-> FALSE,                  \* messages of an earlier recording were left (history)
   failures |-> 0, retried |-> FALSE, \* starts of the muxer that failed (bound), and whether
                                     \* there was another after one (history)
   files |-> files]

\* open: not closed yet.  twice: closed again.  given: how many there were.
\* forsaken: refused, replaced, never used, or not to be closed through a stream.
\* switched: it had part in a change of files.
NoFiles == [open |-> {}, twice |-> {}, given |-> 0, forsaken |-> {}, switched |-> {}]

SinkInit ==
  /\ sink = FreshSink(NoFiles)
  /\ pc = [t \in Slots |-> "none"] /\ hand = [t \in Slots |-> "none"]

Real(fds) == fds \ {0}
Forsake(s, fds) == [s EXCEPT !.files.forsaken = @ \cup Real(fds)]
Close(s, fd) ==
  [s EXCEPT !.files.open = @ \ {fd},
            !.files.twice = IF fd \in s.files.open THEN @ ELSE @ \cup {fd}]

Switch(s, fds) == [s EXCEPT !.files.switched = @ \cup Real(fds)]

-----------------------------------------------------------------------------
(* The functions of RecorderSink *)

MutCloseKeepsFd(s) ==
  LET one == IF s.fd = 0 THEN s ELSE Close(s, s.fd)
  IN IF s.next = 0 THEN one ELSE [Close(one, s.next) EXCEPT !.next = 0]

\* The first fd is closed through a stream to read from; where that cannot be
\* had, when the message thread is about to change files or the descriptor is
\* write-only, both stay as they are.
CloseFd(s) ==
  LET one == IF s.fd = 0 THEN s ELSE [Close(s, s.fd) EXCEPT !.fd = 0]
  IN IF s.fd \notin s.files.open \cup {0} THEN Switch(s, {s.next})
     ELSE IF s.fd \in WriteOnly THEN Forsake(s, {s.fd, s.next})
     ELSE IF s.next = 0 THEN one
     ELSE [Close(one, s.next) EXCEPT !.next = 0]

SinkSetOutputFile(s, fd) == [Forsake(s, {s.fd}) EXCEPT !.fd = fd]

\* Needs a prepared sink.
SinkSetNextOutputFile(s, fd) ==
  [Forsake(s, {s.next} \ {s.fd}) EXCEPT !.next = fd, !.muxNext = TRUE]

SinkPrepare(s) == [s EXCEPT !.prepared = TRUE]

\* The message thread is created before the muxer is started, and stays when
\* that fails.  (When it cannot be created nothing has changed.)
SinkStart(s, t, ok) ==
  [s EXCEPT !.threadId = t, !.started = ok,
            !.retried = @ \/ s.failures > 0, !.failures = IF ok THEN @ ELSE @ + 1]

\* FormatMuxerStop, then the message thread is told to end and the files are
\* closed; the thread is not joined and the queue is not emptied.
SinkStop(s) ==
  IF ~s.started THEN CloseFd(s)
  ELSE LET told == IF s.threadId = NoThread THEN s
                   ELSE [s EXCEPT !.threadRunning = FALSE, !.sem = @ + 1]
       IN [CloseFd(told) EXCEPT !.started = FALSE]

\* The muxer is destroyed; without one the descriptors stay as they are.
SinkRelease(s) ==
  IF ~s.prepared THEN Forsake(s, {s.fd, s.next})
  ELSE LET stopped == IF s.started THEN SinkStop(s) ELSE s
       IN [CloseFd(stopped) EXCEPT !.prepared = FALSE, !.muxNext = FALSE]

SinkReset(s) ==
  LET stopped  == IF s.started THEN SinkStop(s) ELSE s
      released == IF stopped.prepared THEN SinkRelease(stopped) ELSE stopped
  IN [CloseFd(released) EXCEPT !.prepared = FALSE]

\* The destructor cancels the thread of threadId_, no other.
MutKillsNobody(s) == {}
Killed(s) == {s.threadId} \ {NoThread}

-----------------------------------------------------------------------------
(* SinkOnInfo and SinkOnError, called by the muxer *)

Alive(t) == pc[t] \notin {"none", "stray"}

\* A thread whose wake-up another one took waits until something is posted again.
Waits(t) == pc[t] = "wait" /\ sink.sem = 0
Settled ==
  Prompt => \A t \in Slots : Alive(t) => pc[t] # "new" /\ (sink.threadRunning \/ Waits(t))

\* NEXT_OUTPUT_FILE_STARTED comes when a next file was set, once.
MuxerReports ==
  /\ Settled
  /\ sink.started /\ sink.posts < MaxPosts
  /\ \E m \in IF sink.muxNext THEN Messages ELSE {"info"} :
       sink' = [sink EXCEPT !.queue = Append(@, m), !.sem = @ + 1, !.posts = @ + 1,
                            !.muxNext = @ /\ m # "next file"]
  /\ UNCHANGED <<pc, hand>>

-----------------------------------------------------------------------------
(* MessageThread *)

Goto(t, place) == pc' = [pc EXCEPT ![t] = place]

\* The semaphore is initialised by the thread: what was posted before is lost.
\* (Undefined when another thread waits for it, and so is destroying it: here it
\* is set to 0 and left alone.)
MutThreadForgetsRunning(t) ==
  /\ pc[t] = "new" /\ Goto(t, "loop")
  /\ sink' = [sink EXCEPT !.sem = 0, !.stale = @ \/ sink.queue # <<>>]
  /\ UNCHANGED hand
ThreadBegins(t) ==
  /\ pc[t] = "new" /\ Goto(t, "loop")
  /\ sink' = [sink EXCEPT !.threadRunning = TRUE, !.sem = 0, !.stale = @ \/ sink.queue # <<>>]
  /\ UNCHANGED hand

\* sem_destroy and threadId, or sem_wait.
ThreadLoops(t) ==
  /\ pc[t] = "loop"
  /\ IF sink.threadRunning THEN Goto(t, "wait") /\ UNCHANGED sink
     ELSE Goto(t, "none") /\ sink' = [sink EXCEPT !.threadId = NoThread]
  /\ UNCHANGED hand

ThreadTakes(t) ==
  /\ pc[t] = "wait" /\ sink.sem > 0
  /\ IF sink.queue = <<>>
     THEN Goto(t, "loop") /\ sink' = [sink EXCEPT !.sem = @ - 1] /\ UNCHANGED hand
     ELSE /\ hand' = [hand EXCEPT ![t] = Head(sink.queue)]
          /\ sink' = [sink EXCEPT !.sem = @ - 1, !.queue = Tail(@)]
          /\ Goto(t, "got")

\* SendCallbackInfo: without a listener nothing is done.  The file that is
\* finished is closed when both descriptors are set.
ThreadReports(t) ==
  /\ pc[t] = "got"
  /\ IF sink.listener /\ hand[t] = "next file" /\ sink.fd # 0 /\ sink.next # 0
     THEN /\ sink' = Switch(Close(sink, sink.fd), {sink.fd, sink.next})
          /\ Goto(t, "closed") /\ UNCHANGED hand
     ELSE Goto(t, "loop") /\ hand' = [hand EXCEPT ![t] = "none"] /\ UNCHANGED sink

\* outputNextFd_ keeps its value.
ThreadSwitches(t) ==
  /\ pc[t] = "closed" /\ Goto(t, "loop")
  /\ sink' = [Switch(sink, {sink.next}) EXCEPT !.fd = sink.next] /\ hand' = [hand EXCEPT ![t] = "none"]

MessageThread(t) ==
  ThreadBegins(t) \/ ThreadLoops(t) \/ ThreadTakes(t) \/ ThreadReports(t) \/ ThreadSwitches(t)
=============================================================================
