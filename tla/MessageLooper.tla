--------------------------- MODULE MessageLooper ---------------------------
(***************************************************************************)
(* The message looper of the player's state machine: MessageLooper with    *)
(* its MMessagePool, driven through HiStateMachine.  One thread (the       *)
(* looper) takes posted messages in order of due time and hands them to    *)
(* the handler; clients post, remove and send; the owner starts, stops and *)
(* destroys the looper.                                                    *)
(*                                                                         *)
(* A step is one critical section of m_queueLock, m_listLock or            *)
(* m_handlerMutex, with the unlocked reads that precede it: these only     *)
(* read m_running, m_isThreadRunning and the clock.  A call that fails     *)
(* without changing anything (post to a stopped looper, no free message,   *)
(* nothing to remove, thread creation refused) is a stuttering step.       *)
(***************************************************************************)
EXTENDS Naturals, FiniteSets, Sequences, SequencesExt

CONSTANTS
  Msgs,          \* the MsgInfo cells of the pool
  Whats,         \* message identifiers (MsgInfo.what)
  Clients,       \* threads that post, remove and send
  LooperThread,  \* the thread running QueueHandlr
  None,
  Delays,        \* the delays clients pass to Post
  EmptyWait,     \* MSGLOOPER_EMPTY_WAIT_TIME_US
  MaxTime,       \* bound: no message falls due later than this
  MaxPosts       \* bound: number of messages posted

ASSUME LooperAssumption ==
  /\ None \notin Msgs \cup Clients \cup Whats
  /\ LooperThread \notin Clients \cup {None}
  /\ Delays \subseteq Nat
  /\ EmptyWait \in Nat \ {0}
  /\ MaxTime \in Nat
  /\ MaxPosts \in Nat

VARIABLES
  inited,     \* MessageLooper.m_isInited
  smRunning,  \* HiStateMachine.m_running
  running,    \* MessageLooper.m_isThreadRunning
  free,       \* m_msgFreeList (which free cell is handed out is immaterial)
  busy,       \* m_msgBusyList
  what,       \* MsgInfo.what of every cell
  queue,      \* m_eventQueue; seq, the insertion number, is history
  posted,     \* history: number of insertions so far
  looper,     \* where the looper thread is
  cur,        \* the message the looper thread has taken off the queue
  wake,       \* deadline of its timed wait on m_queueCondition
  signalled,  \* m_queueCondition was signalled during that wait
  handler,    \* owner of m_handlerMutex
  client,     \* where each client is: idle, insert, put or sending
  slot,       \* the message each client holds
  due,        \* the whenUs a posting client has computed
  owner,      \* idle, or join: inside MessageLooper::Stop
  now         \* the monotonic clock

pool    == <<free, busy, what>>
events  == <<queue, posted>>
thread  == <<looper, cur, wake, signalled>>
callers == <<client, slot, due>>
control == <<inited, smRunning, running, owner>>
vars    == <<pool, events, thread, callers, control, handler, now>>

Event    == [msg : Msgs, when : Nat, seq : Nat]
LooperPC == {"none", "loop", "wait", "deliver", "handle", "put", "exited"}
ClientPC == {"idle", "insert", "put", "sending"}

Queued(m) == \E i \in DOMAIN queue : queue[i].msg = m

TypeOK ==
  /\ inited \in BOOLEAN /\ smRunning \in BOOLEAN /\ running \in BOOLEAN
  /\ free \subseteq Msgs
  /\ busy \subseteq Msgs
  /\ what \in [Msgs -> Whats \cup {None}]
  /\ queue \in Seq(Event)
  /\ posted \in Nat
  /\ looper \in LooperPC
  /\ cur \in Msgs \cup {None}
  /\ wake \in Nat
  /\ signalled \in BOOLEAN
  /\ handler \in Clients \cup {None, LooperThread}
  /\ client \in [Clients -> ClientPC]
  /\ slot \in [Clients -> Msgs \cup {None}]
  /\ due \in [Clients -> Nat]
  /\ owner \in {"idle", "join"}
  /\ now \in Nat

Init ==
  /\ inited = FALSE /\ smRunning = FALSE /\ running = FALSE
  /\ free = {} /\ busy = {}
  /\ what = [m \in Msgs |-> None]
  /\ queue = <<>> /\ posted = 0
  /\ looper = "none" /\ cur = None /\ wake = 0 /\ signalled = FALSE
  /\ handler = None
  /\ client = [c \in Clients |-> "idle"]
  /\ slot = [c \in Clients |-> None]
  /\ due = [c \in Clients |-> 0]
  /\ owner = "idle"
  /\ now = 0

-----------------------------------------------------------------------------
(* The message pool. *)

\* Mutant: the cell is not erased from m_msgFreeList.
MutGetMsgKeepsFree(m, w) ==
  /\ m \in free
  /\ busy' = busy \cup {m}
  /\ what' = [what EXCEPT ![m] = w]
  /\ UNCHANGED free

GetMsg(m, w) ==
  /\ m \in free
  /\ free' = free \ {m}
  /\ busy' = busy \cup {m}
  /\ what' = [what EXCEPT ![m] = w]

PutMsg(m) ==
  IF m \in busy
  THEN /\ busy' = busy \ {m}
       /\ free' = free \cup {m}
       /\ what' = [what EXCEPT ![m] = None]
  ELSE UNCHANGED pool

-----------------------------------------------------------------------------
(* The clients. *)

\* HiStateMachine::Post, MessageLooper::Post up to the lock of InsertQueue.
PostBegin(c, w, d) ==
  /\ client[c] = "idle"
  /\ smRunning /\ running
  /\ now + d <= MaxTime
  /\ posted + Cardinality({e \in Clients : client[e] = "insert"}) < MaxPosts
  /\ \E m \in free :
       /\ GetMsg(m, w)
       /\ slot' = [slot EXCEPT ![c] = m]
  /\ due' = [due EXCEPT ![c] = now + d]
  /\ client' = [client EXCEPT ![c] = "insert"]
  /\ UNCHANGED <<events, thread, control, handler, now>>

\* Mutant: the scan stops at an event due at the same time.
MutInsertBeforeEqual(p, t) ==
  /\ p \in 1 .. Len(queue) + 1
  /\ \A i \in 1 .. p - 1 : queue[i].when < t
  /\ p <= Len(queue) => queue[p].when >= t

\* The scan of InsertQueue stops before the first event due later than t.
InsertPoint(p, t) ==
  /\ p \in 1 .. Len(queue) + 1
  /\ \A i \in 1 .. p - 1 : queue[i].when <= t
  /\ p <= Len(queue) => queue[p].when > t

\* Mutant: the caller's reference is dropped before the event is built.
MutPostInsertAfterReset(c) ==
  /\ client[c] = "insert"
  /\ slot' = [slot EXCEPT ![c] = None]
  /\ \E p \in 1 .. Len(queue) + 1 :
       /\ InsertPoint(p, due[c])
       /\ queue' = InsertAt(queue, p, [msg |-> slot'[c], when |-> due[c], seq |-> posted])
  /\ posted' = posted + 1
  /\ client' = [client EXCEPT ![c] = "idle"]
  /\ UNCHANGED <<pool, thread, due, control, handler, now>>

\* InsertQueue.  The signal is sent when the queue was empty.  In a queue
\* that was not, "it" is the element after the new one and is compared with
\* begin(), so a new earliest event does not wake the sleeping looper.
PostInsert(c) ==
  /\ client[c] = "insert"
  /\ \E p \in 1 .. Len(queue) + 1 :
       /\ InsertPoint(p, due[c])
       /\ queue' = InsertAt(queue, p, [msg |-> slot[c], when |-> due[c], seq |-> posted])
  /\ posted' = posted + 1
  /\ signalled' = (signalled \/ (queue = <<>> /\ looper = "wait"))
  /\ slot' = [slot EXCEPT ![c] = None]
  /\ client' = [client EXCEPT ![c] = "idle"]
  /\ UNCHANGED <<pool, looper, cur, wake, due, control, handler, now>>

\* Mutant: the event found is not erased from the queue.
MutRemoveKeepsEvent(c, w) ==
  /\ client[c] = "idle"
  /\ smRunning
  /\ \E i \in DOMAIN queue :
       /\ what[queue[i].msg] = w
       /\ slot' = [slot EXCEPT ![c] = queue[i].msg]
  /\ client' = [client EXCEPT ![c] = "put"]
  /\ UNCHANGED <<pool, events, thread, due, control, handler, now>>

\* HiStateMachine::RemoveEvent: RemoveMessage takes the first match.
RemoveBegin(c, w) ==
  /\ client[c] = "idle"
  /\ smRunning
  /\ \E i \in DOMAIN queue :
       /\ what[queue[i].msg] = w
       /\ \A j \in 1 .. i - 1 : what[queue[j].msg] # w
       /\ queue' = RemoveAt(queue, i)
       /\ slot' = [slot EXCEPT ![c] = queue[i].msg]
  /\ client' = [client EXCEPT ![c] = "put"]
  /\ UNCHANGED <<pool, posted, thread, due, control, handler, now>>

RemovePut(c) ==
  /\ client[c] = "put"
  /\ PutMsg(slot[c])
  /\ slot' = [slot EXCEPT ![c] = None]
  /\ client' = [client EXCEPT ![c] = "idle"]
  /\ UNCHANGED <<events, thread, due, control, handler, now>>

\* MessageLooper::Send runs the handler on the caller's thread.
SendLock(c) ==
  /\ client[c] = "idle"
  /\ inited
  /\ handler = None
  /\ handler' = c
  /\ client' = [client EXCEPT ![c] = "sending"]
  /\ UNCHANGED <<pool, events, thread, slot, due, control, now>>

SendUnlock(c) ==
  /\ client[c] = "sending"
  /\ handler' = None
  /\ client' = [client EXCEPT ![c] = "idle"]
  /\ UNCHANGED <<pool, events, thread, slot, due, control, now>>

-----------------------------------------------------------------------------
(* The looper thread: QueueHandlr. *)

LooperExit ==
  /\ looper = "loop"
  /\ ~running
  /\ looper' = "exited"
  /\ UNCHANGED <<pool, events, cur, wake, signalled, callers, control, handler, now>>

\* Both timed waits: on an empty queue, and for the head to fall due.
LooperSleep ==
  /\ looper = "loop"
  /\ running
  /\ \/ queue = <<>> /\ wake' = now + EmptyWait
     \/ queue # <<>> /\ queue[1].when > now /\ wake' = queue[1].when
  /\ looper' = "wait"
  /\ signalled' = FALSE
  /\ UNCHANGED <<pool, events, cur, callers, control, handler, now>>

\* Mutant: the waits have no timeout.
MutWakeOnlySignalled ==
  /\ looper = "wait"
  /\ signalled
  /\ looper' = "loop"
  /\ UNCHANGED <<pool, events, cur, wake, signalled, callers, control, handler, now>>

LooperWake ==
  /\ looper = "wait"
  /\ signalled \/ now >= wake
  /\ looper' = "loop"
  /\ UNCHANGED <<pool, events, cur, wake, signalled, callers, control, handler, now>>

LooperPop ==
  /\ looper = "loop"
  /\ running
  /\ queue # <<>>
  /\ queue[1].when <= now
  /\ cur' = queue[1].msg
  /\ queue' = Tail(queue)
  /\ looper' = "deliver"
  /\ UNCHANGED <<pool, posted, wake, signalled, callers, control, handler, now>>

LooperLock ==
  /\ looper = "deliver"
  /\ handler = None
  /\ handler' = LooperThread
  /\ looper' = "handle"
  /\ UNCHANGED <<pool, events, cur, wake, signalled, callers, control, now>>

LooperUnlock ==
  /\ looper = "handle"
  /\ handler' = None
  /\ looper' = "put"
  /\ UNCHANGED <<pool, events, cur, wake, signalled, callers, control, now>>

LooperPut ==
  /\ looper = "put"
  /\ PutMsg(cur)
  /\ cur' = None
  /\ looper' = "loop"
  /\ UNCHANGED <<events, wake, signalled, callers, control, handler, now>>

-----------------------------------------------------------------------------
(* The owner. *)

\* HiStateMachine::Init, MessageLooper::Init, MMessagePool::Init.
LooperInit ==
  /\ ~inited
  /\ inited' = TRUE
  /\ free' = Msgs
  /\ busy' = {}
  /\ what' = [m \in Msgs |-> None]
  /\ UNCHANGED <<events, thread, callers, smRunning, running, owner, handler, now>>

\* HiStateMachine::Start, MessageLooper::Start.  A previous run's events are
\* still queued: Stop does not discard them.
Start ==
  /\ inited /\ owner = "idle"
  /\ ~smRunning
  /\ smRunning' = TRUE
  /\ running' = TRUE
  /\ looper' = "loop"
  /\ UNCHANGED <<pool, events, cur, wake, signalled, callers, inited, owner, handler, now>>

\* Mutant: Stop joins without clearing m_isThreadRunning.
MutStopKeepsRunning ==
  /\ inited /\ owner = "idle"
  /\ smRunning
  /\ signalled' = (signalled \/ looper = "wait")
  /\ owner' = "join"
  /\ UNCHANGED <<pool, events, looper, cur, wake, callers, inited, smRunning, running,
                 handler, now>>

\* HiStateMachine::Stop, MessageLooper::Stop up to the join.
StopBegin ==
  /\ inited /\ owner = "idle"
  /\ smRunning
  /\ running' = FALSE
  /\ signalled' = (signalled \/ looper = "wait")
  /\ owner' = "join"
  /\ UNCHANGED <<pool, events, looper, cur, wake, callers, inited, smRunning, handler, now>>

StopJoin ==
  /\ owner = "join"
  /\ looper = "exited"
  /\ looper' = "none"
  /\ smRunning' = FALSE
  /\ owner' = "idle"
  /\ UNCHANGED <<pool, events, cur, wake, signalled, callers, inited, running, handler, now>>

\* HiStateMachine::Deinit after Stop.  Destroying the looper under a client
\* that is inside a call is the caller's error and is left out.
Deinit ==
  /\ inited /\ owner = "idle"
  /\ ~smRunning
  /\ \A c \in Clients : client[c] = "idle"
  /\ inited' = FALSE
  /\ queue' = <<>>
  /\ free' = {} /\ busy' = {}
  /\ what' = [m \in Msgs |-> None]
  /\ UNCHANGED <<posted, thread, callers, smRunning, running, owner, handler, now>>

\* The clock runs long enough for every wait to time out.
Tick ==
  /\ now < MaxTime + EmptyWait
  /\ now' = now + 1
  /\ UNCHANGED <<pool, events, thread, callers, control, handler>>

-----------------------------------------------------------------------------
Client(c) ==
  \/ \E w \in Whats, d \in Delays : PostBegin(c, w, d)
  \/ PostInsert(c)
  \/ \E w \in Whats : RemoveBegin(c, w)
  \/ RemovePut(c)
  \/ SendLock(c)
  \/ SendUnlock(c)

Looper ==
  \/ LooperExit \/ LooperSleep \/ LooperWake \/ LooperPop
  \/ LooperLock \/ LooperUnlock \/ LooperPut

Owner == LooperInit \/ Start \/ StopBegin \/ StopJoin \/ Deinit

Next == (\E c \in Clients : Client(c)) \/ Looper \/ Owner \/ Tick

Spec == Init /\ [][Next]_vars

\* Threads keep running, a call that has begun completes, time passes.  The
\* looper competes with senders for m_handlerMutex, which is assumed not to
\* starve a waiter.
Fairness ==
  /\ WF_vars(Looper) /\ SF_vars(LooperLock)
  /\ WF_vars(StopJoin) /\ WF_vars(Tick)
  /\ \A c \in Clients : WF_vars(PostInsert(c) \/ RemovePut(c) \/ SendUnlock(c))

FairSpec == Spec /\ Fairness

-----------------------------------------------------------------------------
(* What the looper guarantees. *)

\* MMessagePool: every cell is on exactly one of the two lists, whatever the
\* interleaving of posts, removals and deliveries.
PoolPartition ==
  inited => (free \cup busy = Msgs /\ free \cap busy = {})

\* A busy cell is in exactly one place: one event of the queue, the looper
\* thread, or one client between taking it and queueing or returning it.  So
\* none leaks, none is delivered twice and none is freed while still queued.
NoLeakNoAlias ==
  /\ \A m \in busy : Queued(m) \/ m = cur \/ \E c \in Clients : slot[c] = m
  /\ \A i, j \in DOMAIN queue : queue[i].msg = queue[j].msg => i = j
  /\ \A i \in DOMAIN queue : queue[i].msg \in busy
  /\ cur # None => cur \in busy /\ ~Queued(cur)
  /\ \A c \in Clients : slot[c] # None =>
        /\ slot[c] \in busy
        /\ ~Queued(slot[c])
        /\ slot[c] # cur
        /\ \A d \in Clients \ {c} : slot[d] # slot[c]

\* The queue is ordered by due time, and by order of insertion among events
\* due at the same time: what QueueHandlr relies on when it looks only at the
\* head, although whenUs is computed before the queue is locked.
DeliveryOrder ==
  \A i, j \in DOMAIN queue : i < j =>
    \/ queue[i].when < queue[j].when
    \/ queue[i].when = queue[j].when /\ queue[i].seq < queue[j].seq

\* A message in the queue of a running looper is taken out or the looper is
\* stopped: the wake-up that InsertQueue omits only costs delay.
EventuallyTaken ==
  \A m \in Msgs : Queued(m) ~> (~Queued(m) \/ ~running)

\* Stop joins the looper thread: it cannot miss the broadcast and sleep on,
\* nor wait for m_handlerMutex for ever.
StopReturns == owner = "join" ~> owner = "idle"
=============================================================================
