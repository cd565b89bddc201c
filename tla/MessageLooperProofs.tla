------------------------ MODULE MessageLooperProofs ------------------------
(* Proofs of the safety properties of MessageLooper, for every pool, every *)
(* set of clients and every bound.                                         *)
EXTENDS MessageLooper, SequenceTheorems, TLAPS

-----------------------------------------------------------------------------
(* The two list operations on m_eventQueue, element by element. *)

\* Inserting at p shifts the elements from p on and keeps the others.
LEMMA InsertAtElements ==
  ASSUME NEW S, NEW s \in Seq(S), NEW e \in S, NEW p \in 1 .. Len(s) + 1
  PROVE  /\ InsertAt(s, p, e) \in Seq(S)
         /\ Len(InsertAt(s, p, e)) = Len(s) + 1
         /\ \A i \in 1 .. Len(s) + 1 :
              /\ i < p => InsertAt(s, p, e)[i] = s[i]
              /\ i = p => InsertAt(s, p, e)[i] = e
              /\ i > p => InsertAt(s, p, e)[i] = s[i - 1]
<1> DEFINE a == SubSeq(s, 1, p - 1)
           b == a \o <<e>>
           z == SubSeq(s, p, Len(s))
<1>1. /\ a \in Seq(S) /\ Len(a) = p - 1
      /\ \A i \in 1 .. p - 1 : a[i] = s[i]
  BY SubSeqProperties
<1> DEFINE u == <<e>>
<1>2. /\ b \in Seq(S) /\ Len(b) = p
      /\ \A i \in 1 .. p : /\ i < p => b[i] = s[i]
                           /\ i = p => b[i] = e
  <2>1. u \in Seq(S) /\ Len(u) = 1 /\ u[1] = e
    OBVIOUS
  <2> HIDE DEF a, u
  <2>2. /\ a \o u \in Seq(S) /\ Len(a \o u) = Len(a) + Len(u)
        /\ \A i \in 1 .. Len(a) + Len(u) :
             (a \o u)[i] = IF i <= Len(a) THEN a[i] ELSE u[i - Len(a)]
    BY <1>1, <2>1, ConcatProperties
  <2>3. Len(a) + Len(u) = p /\ b = a \o u
    BY <1>1, <2>1 DEF u
  <2>4. ASSUME NEW i \in 1 .. p, i < p PROVE (a \o u)[i] = s[i]
    BY <1>1, <2>2, <2>3, <2>4
  <2>5. (a \o u)[p] = e
    BY <1>1, <2>1, <2>2, <2>3
  <2> QED BY <2>2, <2>3, <2>4, <2>5
<1>3. /\ z \in Seq(S) /\ Len(z) = Len(s) - p + 1
      /\ \A i \in 1 .. Len(s) - p + 1 : z[i] = s[p + i - 1]
  BY SubSeqProperties
<1> HIDE DEF a, b, z
<1>4. /\ b \o z \in Seq(S) /\ Len(b \o z) = Len(b) + Len(z)
      /\ \A i \in 1 .. Len(b) + Len(z) :
           (b \o z)[i] = IF i <= Len(b) THEN b[i] ELSE z[i - Len(b)]
  BY <1>2, <1>3, ConcatProperties
<1>5. Len(b) = p /\ Len(b) + Len(z) = Len(s) + 1
  BY <1>2, <1>3
<1>6. InsertAt(s, p, e) = b \o z
  BY DEF InsertAt, a, b, z
<1>7. ASSUME NEW i \in 1 .. Len(s) + 1, i <= p PROVE (b \o z)[i] = b[i]
  BY <1>4, <1>5, <1>7
<1>8. ASSUME NEW i \in 1 .. Len(s) + 1, i > p PROVE (b \o z)[i] = s[i - 1]
  <2>1. (b \o z)[i] = z[i - p]
    BY <1>4, <1>5, <1>8
  <2>2. i - p \in 1 .. Len(s) - p + 1 /\ p + (i - p) - 1 = i - 1
    BY <1>8
  <2> QED BY <1>3, <2>1, <2>2
<1> QED BY <1>2, <1>4, <1>5, <1>6, <1>7, <1>8

\* Removing at p shifts the elements after p and keeps the others.
LEMMA RemoveAtElements ==
  ASSUME NEW S, NEW s \in Seq(S), NEW p \in 1 .. Len(s)
  PROVE  /\ RemoveAt(s, p) \in Seq(S)
         /\ Len(RemoveAt(s, p)) = Len(s) - 1
         /\ \A i \in 1 .. Len(s) - 1 :
              /\ i < p => RemoveAt(s, p)[i] = s[i]
              /\ i >= p => RemoveAt(s, p)[i] = s[i + 1]
<1> DEFINE a == SubSeq(s, 1, p - 1)
           z == SubSeq(s, p + 1, Len(s))
<1>1. /\ a \in Seq(S) /\ Len(a) = p - 1
      /\ \A i \in 1 .. p - 1 : a[i] = s[i]
  BY SubSeqProperties
<1>2. /\ z \in Seq(S) /\ Len(z) = Len(s) - p
      /\ \A i \in 1 .. Len(s) - p : z[i] = s[p + i]
  BY SubSeqProperties
<1> HIDE DEF a, z
<1>3. /\ a \o z \in Seq(S) /\ Len(a \o z) = Len(a) + Len(z)
      /\ \A i \in 1 .. Len(a) + Len(z) :
           (a \o z)[i] = IF i <= Len(a) THEN a[i] ELSE z[i - Len(a)]
  BY <1>1, <1>2, ConcatProperties
<1>4. Len(a) + Len(z) = Len(s) - 1
  BY <1>1, <1>2
<1>5. RemoveAt(s, p) = a \o z
  BY DEF RemoveAt, a, z
<1>6. ASSUME NEW i \in 1 .. Len(s) - 1
      PROVE  /\ i < p => (a \o z)[i] = s[i]
             /\ i >= p => (a \o z)[i] = s[i + 1]
  <2>1. ASSUME i < p PROVE (a \o z)[i] = s[i]
    BY <1>1, <1>3, <1>4, <2>1
  <2>2. ASSUME i >= p PROVE (a \o z)[i] = s[i + 1]
    <3>1. (a \o z)[i] = z[i - (p - 1)]
      BY <1>1, <1>3, <1>4, <2>2
    <3>2. i - (p - 1) \in 1 .. Len(s) - p /\ p + (i - (p - 1)) = i + 1
      BY <2>2
    <3> QED BY <1>2, <2>2, <3>1, <3>2
  <2> QED BY <2>1, <2>2
<1> QED BY <1>3, <1>4, <1>5, <1>6

-----------------------------------------------------------------------------
(* The inductive invariant.  The control part relates the program counters *)
(* to the variables: who holds a message, and when there is a thread.      *)

Control ==
  /\ ~inited => /\ ~smRunning /\ owner = "idle" /\ queue = <<>>
                /\ \A c \in Clients : client[c] = "idle"
  /\ smRunning <=> looper # "none"
  /\ cur # None <=> looper \in {"deliver", "handle", "put"}
  /\ \A c \in Clients : slot[c] # None <=> client[c] \in {"insert", "put"}
  /\ \A i \in DOMAIN queue : queue[i].seq < posted

IInv ==
  /\ TypeOK
  /\ Control
  /\ PoolPartition
  /\ NoLeakNoAlias
  /\ DeliveryOrder

-----------------------------------------------------------------------------
(* What the three steps that change the queue do to it. *)

LEMMA InsertQueue ==
  ASSUME TypeOK, Control, NEW c \in Clients, PostInsert(c)
  PROVE  \E p \in 1 .. Len(queue) + 1, ev \in Event :
           /\ ev = [msg |-> slot[c], when |-> due[c], seq |-> posted]
           /\ InsertPoint(p, due[c])
           /\ slot[c] \in Msgs
           /\ queue' \in Seq(Event)
           /\ Len(queue') = Len(queue) + 1
           /\ \A i \in 1 .. Len(queue) + 1 :
                /\ i < p => queue'[i] = queue[i]
                /\ i = p => queue'[i] = ev
                /\ i > p => queue'[i] = queue[i - 1]
<1> DEFINE ev == [msg |-> slot[c], when |-> due[c], seq |-> posted]
<1>1. slot[c] \in Msgs
  BY DEF TypeOK, Control, PostInsert
<1>2. ev \in Event
  BY <1>1 DEF TypeOK, Event
<1>3. PICK p \in 1 .. Len(queue) + 1 :
        InsertPoint(p, due[c]) /\ queue' = InsertAt(queue, p, ev)
  BY DEF PostInsert
<1>4. queue \in Seq(Event)
  BY DEF TypeOK
<1> HIDE DEF ev
<1> DEFINE t == InsertAt(queue, p, ev)
<1>5. /\ t \in Seq(Event)
      /\ Len(t) = Len(queue) + 1
      /\ \A i \in 1 .. Len(queue) + 1 :
           /\ i < p => t[i] = queue[i]
           /\ i = p => t[i] = ev
           /\ i > p => t[i] = queue[i - 1]
  <2>1. p \in 1 .. Len(queue) + 1
    OBVIOUS
  <2>2. t \in Seq(Event)
    BY <1>2, <2>1, <1>4, InsertAtElements
  <2>3. Len(t) = Len(queue) + 1
    BY <1>2, <2>1, <1>4, InsertAtElements
  <2>4. ASSUME NEW i \in 1 .. Len(queue) + 1, i < p
        PROVE  t[i] = queue[i]
    BY <1>2, <2>1, <2>4, <1>4, InsertAtElements
  <2>5. t[p] = ev
    BY <1>2, <2>1, <1>4, InsertAtElements
  <2>6. ASSUME NEW i \in 1 .. Len(queue) + 1, i > p
        PROVE  t[i] = queue[i - 1]
    BY <1>2, <2>1, <1>4, <2>6, InsertAtElements
  <2> QED BY <2>2, <2>3, <2>4, <2>5, <2>6
<1> HIDE DEF t
<1>6. queue' = t
  BY <1>3 DEF t
<1> WITNESS p \in 1 .. Len(queue) + 1, ev \in Event
<1>7. ev = [msg |-> slot[c], when |-> due[c], seq |-> posted]
  BY DEF ev
<1> QED BY <1>1, <1>3, <1>5, <1>6, <1>7

LEMMA RemoveQueue ==
  ASSUME TypeOK, NEW c \in Clients, NEW w \in Whats, RemoveBegin(c, w)
  PROVE  \E p \in 1 .. Len(queue) :
           /\ slot' = [slot EXCEPT ![c] = queue[p].msg]
           /\ queue[p].msg \in Msgs
           /\ queue' \in Seq(Event)
           /\ Len(queue') = Len(queue) - 1
           /\ \A i \in 1 .. Len(queue) - 1 :
                /\ i < p => queue'[i] = queue[i]
                /\ i >= p => queue'[i] = queue[i + 1]
<1>1. queue \in Seq(Event)
  BY DEF TypeOK
<1>2. DOMAIN queue = 1 .. Len(queue)
  BY <1>1
<1>3. PICK p \in 1 .. Len(queue) : /\ queue' = RemoveAt(queue, p)
                                   /\ slot' = [slot EXCEPT ![c] = queue[p].msg]
  BY <1>2 DEF RemoveBegin
<1>4. queue[p] \in Event
  BY <1>1
<1>5. queue[p].msg \in Msgs
  BY <1>4 DEF Event
<1> QED BY <1>1, <1>3, <1>5, RemoveAtElements

LEMMA PopQueue ==
  ASSUME TypeOK, LooperPop
  PROVE  /\ cur' = queue[1].msg
         /\ cur' \in Msgs
         /\ queue' \in Seq(Event)
         /\ Len(queue) >= 1
         /\ Len(queue') = Len(queue) - 1
         /\ \A i \in 1 .. Len(queue) - 1 : queue'[i] = queue[i + 1]
<1>1. queue \in Seq(Event) /\ queue # <<>> /\ queue' = Tail(queue) /\ cur' = queue[1].msg
  BY DEF TypeOK, LooperPop
<1>2. Len(queue) >= 1
  BY <1>1
<1>3. queue[1] \in Event
  BY <1>1, <1>2
<1> QED BY <1>1, <1>2, <1>3 DEF Event

-----------------------------------------------------------------------------
(* Types. *)

LEMMA TypeStep == IInv /\ [Next]_vars => TypeOK'
<1> USE LooperAssumption
<1> SUFFICES ASSUME IInv, [Next]_vars PROVE TypeOK'
  OBVIOUS
<1> USE DEF IInv, TypeOK, ClientPC, LooperPC, events, thread, callers, control, pool
<1>1. ASSUME NEW c \in Clients, NEW w \in Whats, NEW d \in Delays, PostBegin(c, w, d)
      PROVE  TypeOK'
  <2>1. PICK m \in free : GetMsg(m, w) /\ slot' = [slot EXCEPT ![c] = m]
    BY <1>1 DEF PostBegin
  <2>2. now + d \in Nat
    OBVIOUS
  <2> QED BY <1>1, <2>1, <2>2 DEF PostBegin, GetMsg
<1>2. ASSUME NEW c \in Clients, PostInsert(c) PROVE TypeOK'
  <2>1. queue' \in Seq(Event)
    BY <1>2, InsertQueue
  <2> QED BY <1>2, <2>1 DEF PostInsert
<1>3. ASSUME NEW c \in Clients, NEW w \in Whats, RemoveBegin(c, w) PROVE TypeOK'
  <2>1. queue' \in Seq(Event) /\ slot' \in [Clients -> Msgs \cup {None}]
    BY <1>3, RemoveQueue
  <2> QED BY <1>3, <2>1 DEF RemoveBegin
<1>4. ASSUME NEW c \in Clients, RemovePut(c) PROVE TypeOK'
  BY <1>4 DEF RemovePut, PutMsg
<1>5. ASSUME NEW c \in Clients, SendLock(c) \/ SendUnlock(c) PROVE TypeOK'
  BY <1>5 DEF SendLock, SendUnlock
<1>6. CASE LooperExit \/ LooperSleep \/ LooperWake
  <2>1. LooperSleep => wake' \in Nat
    <3> SUFFICES ASSUME queue # <<>> PROVE queue[1].when \in Nat
      BY DEF LooperSleep
    <3>1. queue[1] \in Event
      <4>1. queue \in Seq(Event) /\ Len(queue) >= 1
        OBVIOUS
      <4> QED BY <4>1
    <3> QED BY <3>1 DEF Event
  <2> QED BY <1>6, <2>1 DEF LooperExit, LooperSleep, LooperWake
<1>7. CASE LooperPop
  BY <1>7, PopQueue DEF LooperPop
<1>8. CASE LooperLock \/ LooperUnlock
  BY <1>8 DEF LooperLock, LooperUnlock
<1>9. CASE LooperPut
  BY <1>9 DEF LooperPut, PutMsg
<1>10. CASE Owner
  <2>1. CASE LooperInit
    BY <2>1 DEF LooperInit
  <2>2. CASE Start \/ StopBegin \/ StopJoin
    BY <2>2 DEF Start, StopBegin, StopJoin
  <2>3. CASE Deinit
    <3>1. <<>> \in Seq(Event)
      OBVIOUS
    <3> QED BY <2>3, <3>1 DEF Deinit
  <2> QED BY <1>10, <2>1, <2>2, <2>3 DEF Owner
<1>11. CASE Tick \/ UNCHANGED vars
  BY <1>11 DEF Tick, vars
<1> QED BY <1>1, <1>2, <1>3, <1>4, <1>5, <1>6, <1>7, <1>8, <1>9, <1>10, <1>11
        DEF Next, Client, Looper
-----------------------------------------------------------------------------
(* Control. *)

LEMMA ControlStep == IInv /\ [Next]_vars => Control'
<1> USE LooperAssumption
<1> SUFFICES ASSUME IInv, [Next]_vars PROVE Control'
  OBVIOUS
<1>q. queue \in Seq(Event) /\ DOMAIN queue = 1 .. Len(queue)
      /\ posted \in Nat /\ client \in [Clients -> ClientPC]
      /\ slot \in [Clients -> Msgs \cup {None}]
  BY DEF IInv, TypeOK
<1>c. Control
  BY DEF IInv
<1> USE DEF Control, events, thread, callers, control, pool
<1>1. ASSUME NEW c \in Clients, NEW w \in Whats, NEW d \in Delays, PostBegin(c, w, d)
      PROVE  Control'
  <2>1. PICK m \in free : slot' = [slot EXCEPT ![c] = m]
    BY <1>1 DEF PostBegin
  <2>2. m # None
    BY DEF IInv, TypeOK
  <2> QED BY <1>1, <1>q, <1>c, <2>1, <2>2 DEF PostBegin
<1>2. ASSUME NEW c \in Clients, PostInsert(c) PROVE Control'
  <2>1. PICK p \in 1 .. Len(queue) + 1, ev \in Event :
          /\ ev = [msg |-> slot[c], when |-> due[c], seq |-> posted]
          /\ queue' \in Seq(Event)
          /\ Len(queue') = Len(queue) + 1
          /\ \A i \in 1 .. Len(queue) + 1 :
               /\ i < p => queue'[i] = queue[i]
               /\ i = p => queue'[i] = ev
               /\ i > p => queue'[i] = queue[i - 1]
    BY <1>2, InsertQueue DEF IInv
  <2>2. ASSUME NEW i \in DOMAIN queue' PROVE queue'[i].seq < posted'
    <3>0. i \in 1 .. Len(queue) + 1 /\ posted' = posted + 1
      BY <1>2, <2>1 DEF PostInsert
    <3>1. CASE i < p
      <4>1. i \in DOMAIN queue /\ queue[i] \in Event /\ queue'[i] = queue[i]
        BY <1>q, <2>1, <3>0, <3>1
      <4> QED BY <1>q, <1>c, <3>0, <4>1 DEF Event
    <3>2. CASE i = p
      BY <1>q, <2>1, <3>0, <3>2
    <3>3. CASE i > p
      <4>1. i - 1 \in DOMAIN queue /\ queue[i - 1] \in Event /\ queue'[i] = queue[i - 1]
        BY <1>q, <2>1, <3>0, <3>3
      <4> QED BY <1>q, <1>c, <3>0, <4>1 DEF Event
    <3> QED BY <3>0, <3>1, <3>2, <3>3
  <2>3. \A e \in Clients : slot'[e] # None <=> client'[e] \in {"insert", "put"}
    BY <1>2, <1>q, <1>c DEF PostInsert
  <2>4. inited'
    BY <1>2, <1>c DEF PostInsert
  <2> QED BY <1>2, <1>c, <2>2, <2>3, <2>4 DEF PostInsert
<1>3. ASSUME NEW c \in Clients, NEW w \in Whats, RemoveBegin(c, w) PROVE Control'
  <2>1. PICK p \in 1 .. Len(queue) :
           /\ slot' = [slot EXCEPT ![c] = queue[p].msg]
           /\ queue[p].msg \in Msgs
           /\ queue' \in Seq(Event)
           /\ Len(queue') = Len(queue) - 1
           /\ \A i \in 1 .. Len(queue) - 1 :
                /\ i < p => queue'[i] = queue[i]
                /\ i >= p => queue'[i] = queue[i + 1]
    BY <1>3, RemoveQueue DEF IInv
  <2>2. ASSUME NEW i \in DOMAIN queue' PROVE queue'[i].seq < posted'
    <3>0. i \in 1 .. Len(queue) - 1 /\ posted' = posted
      BY <1>3, <2>1 DEF RemoveBegin
    <3>1. i \in DOMAIN queue /\ i + 1 \in DOMAIN queue
      BY <1>q, <3>0
    <3> QED BY <1>c, <2>1, <3>0, <3>1
  <2>3. \A e \in Clients : slot'[e] # None <=> client'[e] \in {"insert", "put"}
    BY <1>3, <1>q, <1>c, <2>1 DEF RemoveBegin
  <2>4. inited'
    BY <1>3, <1>c DEF RemoveBegin
  <2> QED BY <1>3, <1>c, <2>2, <2>3, <2>4 DEF RemoveBegin
<1>4. ASSUME NEW c \in Clients, RemovePut(c) PROVE Control'
  BY <1>4, <1>q, <1>c DEF RemovePut
<1>5. ASSUME NEW c \in Clients, SendLock(c) \/ SendUnlock(c) PROVE Control'
  BY <1>5, <1>q, <1>c DEF SendLock, SendUnlock
<1>6. CASE LooperExit \/ LooperSleep \/ LooperWake \/ LooperLock \/ LooperUnlock \/ LooperPut
  BY <1>6, <1>c DEF LooperExit, LooperSleep, LooperWake, LooperLock, LooperUnlock, LooperPut
<1>7. CASE LooperPop
  <2>1. /\ cur' \in Msgs
        /\ queue' \in Seq(Event)
        /\ Len(queue') = Len(queue) - 1
        /\ \A i \in 1 .. Len(queue) - 1 : queue'[i] = queue[i + 1]
    BY <1>7, PopQueue DEF IInv
  <2>2. ASSUME NEW i \in DOMAIN queue' PROVE queue'[i].seq < posted'
    <3>1. i + 1 \in DOMAIN queue /\ queue'[i] = queue[i + 1] /\ posted' = posted
      BY <1>7, <1>q, <2>1 DEF LooperPop
    <3> QED BY <1>c, <3>1
  <2>3. inited'
    BY <1>7, <1>c DEF LooperPop
  <2> QED BY <1>7, <1>c, <2>1, <2>2, <2>3 DEF LooperPop
<1>10. CASE Owner
  <2>1. CASE LooperInit \/ Start \/ StopBegin \/ StopJoin
    BY <1>c, <2>1 DEF LooperInit, Start, StopBegin, StopJoin
  <2>2. CASE Deinit
    BY <1>c, <2>2 DEF Deinit
  <2> QED BY <1>10, <2>1, <2>2 DEF Owner
<1>11. CASE Tick \/ UNCHANGED vars
  BY <1>11, <1>c DEF Tick, vars
<1> QED BY <1>1, <1>2, <1>3, <1>4, <1>5, <1>6, <1>7, <1>10, <1>11
        DEF Next, Client, Looper
-----------------------------------------------------------------------------
(* The pool. *)

LEMMA PoolStep == IInv /\ [Next]_vars => PoolPartition'
<1> SUFFICES ASSUME IInv, [Next]_vars PROVE PoolPartition'
  OBVIOUS
<1>t. free \subseteq Msgs /\ busy \subseteq Msgs
  BY DEF IInv, TypeOK
<1>p. inited => (free \cup busy = Msgs /\ free \cap busy = {})
  BY DEF IInv, PoolPartition
<1> USE DEF PoolPartition, events, thread, callers, control, pool
<1>1. ASSUME NEW c \in Clients, NEW w \in Whats, NEW d \in Delays, PostBegin(c, w, d)
      PROVE  PoolPartition'
  BY <1>1, <1>t, <1>p DEF PostBegin, GetMsg
<1>2. ASSUME NEW c \in Clients, NEW w \in Whats, PostInsert(c) \/ RemoveBegin(c, w)
      PROVE  PoolPartition'
  BY <1>2, <1>p DEF PostInsert, RemoveBegin
<1>3. ASSUME NEW c \in Clients, RemovePut(c) PROVE PoolPartition'
  BY <1>3, <1>t, <1>p DEF RemovePut, PutMsg
<1>4. ASSUME NEW c \in Clients, PostInsert(c) \/ SendLock(c) \/ SendUnlock(c)
      PROVE PoolPartition'
  BY <1>4, <1>p DEF PostInsert, SendLock, SendUnlock
<1>5. CASE LooperPut
  BY <1>5, <1>t, <1>p DEF LooperPut, PutMsg
<1>6. CASE \/ LooperExit \/ LooperSleep \/ LooperWake
           \/ LooperPop \/ LooperLock \/ LooperUnlock
  BY <1>6, <1>p DEF LooperExit, LooperSleep, LooperWake, LooperPop, LooperLock, LooperUnlock
<1>7. CASE Owner
  BY <1>7, <1>p DEF Owner, LooperInit, Start, StopBegin, StopJoin, Deinit
<1>8. CASE Tick \/ UNCHANGED vars
  BY <1>8, <1>p DEF Tick, vars
<1> QED BY <1>1, <1>2, <1>3, <1>4, <1>5, <1>6, <1>7, <1>8 DEF Next, Client, Looper

-----------------------------------------------------------------------------
(* The order of the queue. *)

\* The step that matters is the insertion: the event goes behind every event
\* due no later, and it carries the largest insertion number.
LEMMA OrderStep == IInv /\ [Next]_vars => DeliveryOrder'
<1> SUFFICES ASSUME IInv, [Next]_vars PROVE DeliveryOrder'
  OBVIOUS
<1>q. queue \in Seq(Event) /\ DOMAIN queue = 1 .. Len(queue)
  BY DEF IInv, TypeOK
<1>d. DeliveryOrder
  BY DEF IInv
<1>e. \A i \in 1 .. Len(queue) : queue[i].when \in Nat /\ queue[i].seq \in Nat
  <2> SUFFICES ASSUME NEW i \in 1 .. Len(queue)
               PROVE  queue[i].when \in Nat /\ queue[i].seq \in Nat
    OBVIOUS
  <2>1. queue[i] \in Event
    BY <1>q
  <2> QED BY <2>1 DEF Event
<1>u. UNCHANGED queue => DeliveryOrder'
  BY <1>d DEF DeliveryOrder
<1>1. ASSUME NEW c \in Clients, PostInsert(c) PROVE DeliveryOrder'
  <2>1. PICK p \in 1 .. Len(queue) + 1, ev \in Event :
          /\ ev = [msg |-> slot[c], when |-> due[c], seq |-> posted]
          /\ InsertPoint(p, due[c])
          /\ queue' \in Seq(Event)
          /\ Len(queue') = Len(queue) + 1
          /\ \A i \in 1 .. Len(queue) + 1 :
               /\ i < p => queue'[i] = queue[i]
               /\ i = p => queue'[i] = ev
               /\ i > p => queue'[i] = queue[i - 1]
    BY <1>1, InsertQueue DEF IInv
  <2>2. due[c] \in Nat /\ posted \in Nat
    BY DEF IInv, TypeOK
  <2>3. \A i \in 1 .. Len(queue) : queue[i].seq < posted
    BY <1>q DEF IInv, Control
  <2>4. queue'[p].when = due[c] /\ queue'[p].seq = posted
    BY <2>1
  <2>5. \A i \in 1 .. p - 1 : queue[i].when <= due[c]
    BY <2>1 DEF InsertPoint
  <2>6. \A i \in p .. Len(queue) : queue[i].when > due[c]
    <3> SUFFICES ASSUME NEW i \in p .. Len(queue) PROVE queue[i].when > due[c]
      OBVIOUS
    <3>1. p \in 1 .. Len(queue) /\ i \in 1 .. Len(queue) /\ queue[p].when > due[c]
      BY <1>q, <2>1 DEF InsertPoint
    <3>2. i = p \/ queue[p].when <= queue[i].when
      BY <1>q, <1>d, <1>e, <3>1 DEF DeliveryOrder
    <3> QED BY <1>e, <2>2, <3>1, <3>2
  <2>7. ASSUME NEW i \in 1 .. Len(queue) + 1, NEW j \in 1 .. Len(queue) + 1, i < j
        PROVE  \/ queue'[i].when < queue'[j].when
               \/ queue'[i].when = queue'[j].when /\ queue'[i].seq < queue'[j].seq
    <3>1. CASE i < p /\ j < p
      <4>1. i \in DOMAIN queue /\ j \in DOMAIN queue
        BY <1>q, <3>1
      <4> QED BY <1>d, <2>1, <2>7, <3>1, <4>1 DEF DeliveryOrder
    <3>2. CASE i < p /\ j = p
      <4>1. i \in 1 .. Len(queue) /\ i \in 1 .. p - 1 /\ queue'[i] = queue[i]
        BY <1>q, <2>1, <3>2
      <4> QED BY <1>e, <2>2, <2>3, <2>4, <2>5, <3>2, <4>1
    <3>3. CASE i < p /\ j > p
      <4>1. i \in DOMAIN queue /\ j - 1 \in DOMAIN queue /\ i < j - 1
        BY <1>q, <3>3
      <4>2. queue'[i] = queue[i] /\ queue'[j] = queue[j - 1]
        BY <2>1, <3>3
      <4> QED BY <1>d, <4>1, <4>2 DEF DeliveryOrder
    <3>4. CASE i = p /\ j > p
      <4>1. j - 1 \in p .. Len(queue) /\ queue'[j] = queue[j - 1]
        BY <1>q, <2>1, <3>4
      <4> QED BY <2>4, <2>6, <3>4, <4>1
    <3>5. CASE i > p
      <4>1. i - 1 \in DOMAIN queue /\ j - 1 \in DOMAIN queue /\ i - 1 < j - 1
        BY <1>q, <2>7, <3>5
      <4>2. queue'[i] = queue[i - 1] /\ queue'[j] = queue[j - 1]
        BY <2>1, <2>7, <3>5
      <4> QED BY <1>d, <4>1, <4>2 DEF DeliveryOrder
    <3> QED BY <2>7, <3>1, <3>2, <3>3, <3>4, <3>5
  <2>8. DOMAIN queue' = 1 .. Len(queue) + 1
    BY <2>1
  <2> QED BY <2>7, <2>8 DEF DeliveryOrder
<1>2. ASSUME NEW c \in Clients, NEW w \in Whats, RemoveBegin(c, w) PROVE DeliveryOrder'
  <2>1. PICK p \in 1 .. Len(queue) :
           /\ queue' \in Seq(Event)
           /\ Len(queue') = Len(queue) - 1
           /\ \A i \in 1 .. Len(queue) - 1 :
                /\ i < p => queue'[i] = queue[i]
                /\ i >= p => queue'[i] = queue[i + 1]
    BY <1>2, RemoveQueue DEF IInv
  <2>2. ASSUME NEW i \in 1 .. Len(queue) - 1, NEW j \in 1 .. Len(queue) - 1, i < j
        PROVE  \/ queue'[i].when < queue'[j].when
               \/ queue'[i].when = queue'[j].when /\ queue'[i].seq < queue'[j].seq
    <3>1. /\ i \in DOMAIN queue /\ i + 1 \in DOMAIN queue
          /\ j \in DOMAIN queue /\ j + 1 \in DOMAIN queue
          /\ i < j + 1 /\ i + 1 < j + 1
      BY <1>q, <2>2
    <3>2. CASE j < p
      <4>1. queue'[i] = queue[i] /\ queue'[j] = queue[j]
        BY <2>1, <2>2, <3>2
      <4> QED BY <1>d, <2>2, <3>1, <4>1 DEF DeliveryOrder
    <3>3. CASE i < p /\ j >= p
      <4>1. queue'[i] = queue[i] /\ queue'[j] = queue[j + 1]
        BY <2>1, <3>3
      <4> QED BY <1>d, <3>1, <4>1 DEF DeliveryOrder
    <3>4. CASE i >= p
      <4>1. queue'[i] = queue[i + 1] /\ queue'[j] = queue[j + 1]
        BY <2>1, <2>2, <3>4
      <4> QED BY <1>d, <3>1, <4>1 DEF DeliveryOrder
    <3> QED BY <3>2, <3>3, <3>4
  <2>3. DOMAIN queue' = 1 .. Len(queue) - 1
    BY <2>1
  <2> QED BY <2>2, <2>3 DEF DeliveryOrder
<1>3. CASE LooperPop
  <2>1. /\ queue' \in Seq(Event)
        /\ Len(queue') = Len(queue) - 1
        /\ \A i \in 1 .. Len(queue) - 1 : queue'[i] = queue[i + 1]
    BY <1>3, PopQueue DEF IInv
  <2>2. \A i \in DOMAIN queue' : i + 1 \in DOMAIN queue /\ queue'[i] = queue[i + 1]
    BY <1>q, <2>1
  <2>3. \A i, j \in DOMAIN queue' : i < j => i + 1 < j + 1
    BY <2>1
  <2> QED BY <1>d, <2>2, <2>3 DEF DeliveryOrder
<1>4. CASE Deinit
  <2>1. DOMAIN queue' = {}
    BY <1>4 DEF Deinit
  <2> QED BY <2>1 DEF DeliveryOrder
<1>5. ASSUME NEW c \in Clients, NEW w \in Whats, NEW d \in Delays,
             PostBegin(c, w, d) \/ RemovePut(c) \/ SendLock(c) \/ SendUnlock(c)
      PROVE  DeliveryOrder'
  BY <1>5, <1>u DEF PostBegin, RemovePut, SendLock, SendUnlock, events
<1>6. ASSUME NEW c \in Clients, RemovePut(c) \/ SendLock(c) \/ SendUnlock(c)
      PROVE  DeliveryOrder'
  BY <1>6, <1>u DEF RemovePut, SendLock, SendUnlock, events
<1>7. CASE \/ LooperExit \/ LooperSleep \/ LooperWake
           \/ LooperLock \/ LooperUnlock \/ LooperPut
  BY <1>7, <1>u DEF LooperExit, LooperSleep, LooperWake, LooperLock, LooperUnlock, LooperPut,
                    events
<1>8. CASE LooperInit \/ Start \/ StopBegin \/ StopJoin
  BY <1>8, <1>u DEF LooperInit, Start, StopBegin, StopJoin, events
<1>9. CASE Tick \/ UNCHANGED vars
  BY <1>9, <1>u DEF Tick, vars, events
<1> QED BY <1>1, <1>2, <1>3, <1>4, <1>5, <1>6, <1>7, <1>8, <1>9
        DEF Next, Client, Looper, Owner
-----------------------------------------------------------------------------
(* Where the busy cells are.  The queue enters NoLeakNoAlias through the   *)
(* set of its messages and their being distinct.                           *)

QueuedMsgs == {queue[i].msg : i \in DOMAIN queue}
Distinct   == \A i, j \in DOMAIN queue : queue[i].msg = queue[j].msg => i = j

Places ==
  /\ \A m \in busy : m \in QueuedMsgs \/ m = cur \/ \E c \in Clients : slot[c] = m
  /\ Distinct
  /\ QueuedMsgs \subseteq busy
  /\ cur # None => cur \in busy /\ cur \notin QueuedMsgs
  /\ \A c \in Clients : slot[c] # None =>
        /\ slot[c] \in busy
        /\ slot[c] \notin QueuedMsgs
        /\ slot[c] # cur
        /\ \A d \in Clients \ {c} : slot[d] # slot[c]

LEMMA PlacesEquiv == NoLeakNoAlias <=> Places
<1>1. \A m : Queued(m) <=> m \in QueuedMsgs
  BY DEF Queued, QueuedMsgs
<1>2. QueuedMsgs \subseteq busy <=> \A i \in DOMAIN queue : queue[i].msg \in busy
  BY DEF QueuedMsgs
<1> QED BY <1>1, <1>2 DEF NoLeakNoAlias, Places, Distinct

\* The insertion adds the client's message, which was not in the queue.
LEMMA InsertPlaces ==
  ASSUME TypeOK, Control, Distinct, NEW c \in Clients, PostInsert(c),
         slot[c] \notin QueuedMsgs
  PROVE  QueuedMsgs' = QueuedMsgs \cup {slot[c]} /\ Distinct'
<1>q. queue \in Seq(Event) /\ DOMAIN queue = 1 .. Len(queue)
  BY DEF TypeOK
<1>1. PICK p \in 1 .. Len(queue) + 1, ev \in Event :
        /\ ev = [msg |-> slot[c], when |-> due[c], seq |-> posted]
        /\ queue' \in Seq(Event)
        /\ Len(queue') = Len(queue) + 1
        /\ \A i \in 1 .. Len(queue) + 1 :
             /\ i < p => queue'[i] = queue[i]
             /\ i = p => queue'[i] = ev
             /\ i > p => queue'[i] = queue[i - 1]
  BY InsertQueue
<1>2. DOMAIN queue' = 1 .. Len(queue) + 1
  BY <1>1
<1>3. queue'[p].msg = slot[c]
  BY <1>1
<1>4. \A i \in 1 .. Len(queue) + 1 : i < p =>
        i \in DOMAIN queue /\ queue'[i] = queue[i]
  BY <1>q, <1>1
<1>5. \A i \in 1 .. Len(queue) + 1 : i > p =>
        i - 1 \in DOMAIN queue /\ queue'[i] = queue[i - 1]
  BY <1>q, <1>1
<1>6. \A i \in DOMAIN queue : queue[i].msg # slot[c]
  BY DEF QueuedMsgs
<1>7. QueuedMsgs' = QueuedMsgs \cup {slot[c]}
  <2>1. ASSUME NEW i \in DOMAIN queue' PROVE queue'[i].msg \in QueuedMsgs \cup {slot[c]}
    <3>1. i < p \/ i = p \/ i > p
      BY <1>2
    <3> QED BY <1>2, <1>3, <1>4, <1>5, <3>1 DEF QueuedMsgs
  <2>2. ASSUME NEW i \in DOMAIN queue PROVE queue[i].msg \in QueuedMsgs'
    <3>1. CASE i < p
      <4>1. i \in DOMAIN queue' /\ queue'[i] = queue[i]
        BY <1>q, <1>2, <1>4, <3>1
      <4> QED BY <4>1 DEF QueuedMsgs
    <3>2. CASE i >= p
      <4>1. i + 1 \in DOMAIN queue' /\ i + 1 > p /\ (i + 1) - 1 = i
        BY <1>q, <1>2, <3>2
      <4>2. queue'[i + 1] = queue[i]
        BY <1>2, <1>5, <4>1
      <4> QED BY <4>1, <4>2 DEF QueuedMsgs
    <3> QED BY <1>q, <3>1, <3>2
  <2>3. slot[c] \in QueuedMsgs'
    <3>1. p \in DOMAIN queue'
      BY <1>2
    <3> QED BY <1>3, <3>1 DEF QueuedMsgs
  <2> QED BY <2>1, <2>2, <2>3 DEF QueuedMsgs
<1>8. ASSUME NEW i \in DOMAIN queue', NEW j \in DOMAIN queue', i < j
      PROVE  queue'[i].msg # queue'[j].msg
  <2>1. CASE j < p
    BY <1>2, <1>4, <1>8, <2>1 DEF Distinct
  <2>2. CASE i < p /\ j = p
    BY <1>2, <1>3, <1>4, <1>6, <2>2
  <2>3. CASE i < p /\ j > p
    <3>1. i \in DOMAIN queue /\ j - 1 \in DOMAIN queue /\ i # j - 1
      BY <1>2, <1>4, <1>5, <2>3
    <3> QED BY <1>2, <1>4, <1>5, <2>3, <3>1 DEF Distinct
  <2>4. CASE i = p /\ j > p
    BY <1>2, <1>3, <1>5, <1>6, <2>4
  <2>5. CASE i > p
    <3>1. i - 1 \in DOMAIN queue /\ j - 1 \in DOMAIN queue /\ i - 1 # j - 1
      BY <1>2, <1>5, <1>8, <2>5
    <3> QED BY <1>2, <1>5, <1>8, <2>5, <3>1 DEF Distinct
  <2> QED BY <1>2, <1>8, <2>1, <2>2, <2>3, <2>4, <2>5
<1>9. \A i, j \in DOMAIN queue' : i < j \/ i = j \/ j < i
  BY <1>2
<1> QED BY <1>7, <1>8, <1>9 DEF Distinct

\* Taking position p out of a queue of distinct messages removes its message.
LEMMA RemovePlaces ==
  ASSUME queue \in Seq(Event), queue' \in Seq(Event), Distinct,
         NEW p \in 1 .. Len(queue),
         Len(queue') = Len(queue) - 1,
         \A i \in 1 .. Len(queue) - 1 :
           /\ i < p => queue'[i] = queue[i]
           /\ i >= p => queue'[i] = queue[i + 1]
  PROVE  QueuedMsgs' = QueuedMsgs \ {queue[p].msg} /\ Distinct'
<1>1. DOMAIN queue = 1 .. Len(queue) /\ DOMAIN queue' = 1 .. Len(queue) - 1
  OBVIOUS
<1> DEFINE old(i) == IF i < p THEN i ELSE i + 1
<1>2. ASSUME NEW i \in DOMAIN queue'
      PROVE  old(i) \in DOMAIN queue /\ old(i) # p /\ queue'[i] = queue[old(i)]
  BY <1>1
<1>3. \A i, j \in DOMAIN queue' : old(i) = old(j) => i = j
  BY <1>1
<1>4. ASSUME NEW k \in DOMAIN queue, k # p
      PROVE  \E i \in DOMAIN queue' : old(i) = k
  <2>1. CASE k < p
    <3>1. k \in DOMAIN queue' /\ old(k) = k
      BY <1>1, <2>1
    <3> QED BY <3>1
  <2>2. CASE k > p
    <3>1. k - 1 \in DOMAIN queue' /\ old(k - 1) = k
      BY <1>1, <2>2
    <3> QED BY <3>1
  <2> QED BY <1>1, <1>4, <2>1, <2>2
<1> HIDE DEF old
<1>5. p \in DOMAIN queue
  BY <1>1
<1>6. QueuedMsgs' \subseteq QueuedMsgs \ {queue[p].msg}
  BY <1>2, <1>5 DEF QueuedMsgs, Distinct
<1>7. QueuedMsgs \ {queue[p].msg} \subseteq QueuedMsgs'
  <2> SUFFICES ASSUME NEW k \in DOMAIN queue, k # p PROVE queue[k].msg \in QueuedMsgs'
    BY <1>5 DEF QueuedMsgs
  <2>1. PICK i \in DOMAIN queue' : old(i) = k
    BY <1>4
  <2> QED BY <1>2, <2>1 DEF QueuedMsgs
<1>8. Distinct'
  BY <1>2, <1>3 DEF Distinct
<1> QED BY <1>6, <1>7, <1>8

LEMMA PlacesStep == IInv /\ [Next]_vars => NoLeakNoAlias'
<1> USE LooperAssumption
<1> SUFFICES ASSUME IInv, [Next]_vars PROVE NoLeakNoAlias'
  OBVIOUS
<1> SUFFICES Places'
  <2>1. NoLeakNoAlias' <=> Places'
    BY PlacesEquiv, PTL
  <2> QED BY <2>1
<1>t. /\ TypeOK /\ Control
      /\ busy \subseteq Msgs /\ free \subseteq Msgs /\ None \notin Msgs
      /\ slot \in [Clients -> Msgs \cup {None}] /\ cur \in Msgs \cup {None}
      /\ queue \in Seq(Event) /\ DOMAIN queue = 1 .. Len(queue)
  BY DEF IInv, TypeOK
<1>p. Places
  BY PlacesEquiv DEF IInv
<1>f. inited => free \cap busy = {}
  BY DEF IInv, PoolPartition
<1>c. /\ smRunning => inited
      /\ ~smRunning => cur = None
      /\ cur # None <=> looper \in {"deliver", "handle", "put"}
      /\ \A c \in Clients : slot[c] # None <=> client[c] \in {"insert", "put"}
  BY <1>t DEF Control
<1>u. UNCHANGED queue => QueuedMsgs' = QueuedMsgs /\ (Distinct' <=> Distinct)
  BY DEF QueuedMsgs, Distinct
<1>v. UNCHANGED <<queue, busy, slot, cur>> => Places'
  BY <1>p, <1>u DEF Places
<1>m. \A i \in DOMAIN queue : queue[i].msg \in QueuedMsgs
  BY DEF QueuedMsgs
<1> USE DEF events, thread, callers, control, pool
<1>1. ASSUME NEW c \in Clients, NEW w \in Whats, NEW d \in Delays, PostBegin(c, w, d)
      PROVE  Places'
  <2>1. PICK m \in free : busy' = busy \cup {m} /\ slot' = [slot EXCEPT ![c] = m]
    BY <1>1 DEF PostBegin, GetMsg
  <2>2. m \notin busy /\ m \in Msgs
    BY <1>1, <1>c, <1>f, <1>t DEF PostBegin
  <2>3. slot[c] = None
    BY <1>1, <1>c DEF PostBegin
  <2>4. UNCHANGED <<queue, cur>>
    BY <1>1 DEF PostBegin
  <2> QED BY <1>p, <1>t, <1>u, <2>1, <2>2, <2>3, <2>4 DEF Places
<1>2. ASSUME NEW c \in Clients, PostInsert(c) PROVE Places'
  <2>1. slot[c] # None
    BY <1>2, <1>c DEF PostInsert
  <2>2. QueuedMsgs' = QueuedMsgs \cup {slot[c]} /\ Distinct'
    BY <1>2, <1>p, <1>t, <2>1, InsertPlaces DEF Places
  <2>3. slot' = [slot EXCEPT ![c] = None] /\ UNCHANGED <<busy, cur>>
    BY <1>2 DEF PostInsert
  <2> QED BY <1>p, <1>t, <2>1, <2>2, <2>3 DEF Places
<1>3. ASSUME NEW c \in Clients, NEW w \in Whats, RemoveBegin(c, w) PROVE Places'
  <2>1. PICK p \in 1 .. Len(queue) :
           /\ slot' = [slot EXCEPT ![c] = queue[p].msg]
           /\ queue[p].msg \in Msgs
           /\ queue' \in Seq(Event)
           /\ Len(queue') = Len(queue) - 1
           /\ \A i \in 1 .. Len(queue) - 1 :
                /\ i < p => queue'[i] = queue[i]
                /\ i >= p => queue'[i] = queue[i + 1]
    BY <1>3, <1>t, RemoveQueue
  <2>2. QueuedMsgs' = QueuedMsgs \ {queue[p].msg} /\ Distinct'
    BY <1>p, <1>t, <2>1, RemovePlaces DEF Places
  <2>3. slot[c] = None /\ UNCHANGED <<busy, cur>>
    BY <1>3, <1>c DEF RemoveBegin
  <2>4. queue[p].msg \in QueuedMsgs
    BY <1>m, <1>t
  <2> QED BY <1>p, <1>t, <2>1, <2>2, <2>3, <2>4 DEF Places
<1>4. ASSUME NEW c \in Clients, RemovePut(c) PROVE Places'
  <2>1. slot[c] # None
    BY <1>4, <1>c DEF RemovePut
  <2>2. /\ busy' = busy \ {slot[c]}
        /\ slot' = [slot EXCEPT ![c] = None] /\ UNCHANGED <<queue, cur>>
    BY <1>4, <1>p, <2>1 DEF RemovePut, PutMsg, Places
  <2> QED BY <1>p, <1>t, <1>u, <2>1, <2>2 DEF Places
<1>5. CASE LooperPop
  <2>1. /\ cur' = queue[1].msg
        /\ cur' \in Msgs
        /\ queue' \in Seq(Event)
        /\ Len(queue) >= 1
        /\ Len(queue') = Len(queue) - 1
        /\ \A i \in 1 .. Len(queue) - 1 : queue'[i] = queue[i + 1]
    BY <1>5, <1>t, PopQueue
  <2>2. 1 \in 1 .. Len(queue)
    BY <1>t, <2>1
  <2>3. QueuedMsgs' = QueuedMsgs \ {queue[1].msg} /\ Distinct'
    <3>1. \A i \in 1 .. Len(queue) - 1 :
             /\ i < 1 => queue'[i] = queue[i]
             /\ i >= 1 => queue'[i] = queue[i + 1]
      BY <2>1
    <3> QED BY <1>p, <1>t, <2>1, <2>2, <3>1, RemovePlaces DEF Places
  <2>4. cur = None /\ UNCHANGED <<busy, slot>>
    BY <1>5, <1>c DEF LooperPop
  <2>5. queue[1].msg \in QueuedMsgs
    BY <1>m, <1>t, <2>2
  <2> QED BY <1>p, <1>t, <2>1, <2>3, <2>4, <2>5 DEF Places
<1>6. CASE LooperPut
  <2>1. cur # None
    BY <1>6, <1>c DEF LooperPut
  <2>2. busy' = busy \ {cur} /\ cur' = None /\ UNCHANGED <<queue, slot>>
    BY <1>6, <1>p, <2>1 DEF LooperPut, PutMsg, Places
  <2> QED BY <1>p, <1>t, <1>u, <2>1, <2>2 DEF Places
<1>7. CASE LooperInit
  <2>1. busy' = {} /\ queue = <<>> /\ cur = None /\ UNCHANGED <<queue, slot, cur>>
    BY <1>7, <1>t DEF LooperInit, Control
  <2>2. \A c \in Clients : slot[c] = None
    BY <1>7, <1>c, <1>t DEF LooperInit, Control
  <2>3. QueuedMsgs = {}
    BY <2>1 DEF QueuedMsgs
  <2> QED BY <1>p, <1>u, <2>1, <2>2, <2>3 DEF Places
<1>8. CASE Deinit
  <2>1. /\ busy' = {} /\ queue' = <<>> /\ UNCHANGED <<slot, cur>>
        /\ cur = None
        /\ \A c \in Clients : slot[c] = None
    BY <1>8, <1>c DEF Deinit
  <2>2. QueuedMsgs' = {} /\ Distinct'
    BY <2>1 DEF QueuedMsgs, Distinct
  <2> QED BY <2>1, <2>2 DEF Places
<1>9. ASSUME NEW c \in Clients, SendLock(c) \/ SendUnlock(c) PROVE Places'
  BY <1>9, <1>v DEF SendLock, SendUnlock
<1>10. CASE LooperExit \/ LooperSleep \/ LooperWake \/ LooperLock \/ LooperUnlock
  BY <1>10, <1>v DEF LooperExit, LooperSleep, LooperWake, LooperLock, LooperUnlock
<1>11. CASE Start \/ StopBegin \/ StopJoin
  BY <1>11, <1>v DEF Start, StopBegin, StopJoin
<1>12. CASE Tick \/ UNCHANGED vars
  BY <1>12, <1>v DEF Tick, vars
<1> QED BY <1>1, <1>2, <1>3, <1>4, <1>5, <1>6, <1>7, <1>8, <1>9, <1>10, <1>11, <1>12
        DEF Next, Client, Looper, Owner

-----------------------------------------------------------------------------
(* The theorems. *)

LEMMA InitIInv == Init => IInv
<1> SUFFICES ASSUME Init PROVE IInv
  OBVIOUS
<1>1. <<>> \in Seq(Event)
  OBVIOUS
<1>2. DOMAIN queue = {}
  BY DEF Init
<1>3. TypeOK
  BY <1>1 DEF Init, TypeOK, LooperPC, ClientPC
<1>4. Control
  BY <1>2 DEF Init, Control
<1>5. PoolPartition
  BY DEF Init, PoolPartition
<1>6. NoLeakNoAlias
  BY <1>2 DEF Init, NoLeakNoAlias
<1>7. DeliveryOrder
  BY <1>2 DEF DeliveryOrder
<1> QED BY <1>3, <1>4, <1>5, <1>6, <1>7 DEF IInv

\* The invariant is inductive: no step of a client, the looper or the owner
\* breaks it.
THEOREM Inductive == Spec => []IInv
<1>1. IInv /\ [Next]_vars => IInv'
  BY TypeStep, ControlStep, PoolStep, PlacesStep, OrderStep DEF IInv
<1> QED BY <1>1, InitIInv, PTL DEF Spec

\* Every variable of the looper, its pool and its clients keeps its type.
THEOREM TypeCorrect == Spec => []TypeOK
<1>1. IInv => TypeOK
  BY DEF IInv
<1> QED BY <1>1, Inductive, PTL

\* The free and the busy list of the message pool partition its cells,
\* however posts, removals and deliveries interleave.
THEOREM PoolSafe == Spec => []PoolPartition
<1>1. IInv => PoolPartition
  BY DEF IInv
<1> QED BY <1>1, Inductive, PTL

\* No message cell leaks, is queued twice, is delivered while still queued or
\* is shared by two threads.
THEOREM NoCellLeaksOrAliases == Spec => []NoLeakNoAlias
<1>1. IInv => NoLeakNoAlias
  BY DEF IInv
<1> QED BY <1>1, Inductive, PTL

\* The event queue stays sorted by due time, first in first out among equals,
\* although posters compute due times before they lock it.
THEOREM QueueOrdered == Spec => []DeliveryOrder
<1>1. IInv => DeliveryOrder
  BY DEF IInv
<1> QED BY <1>1, Inductive, PTL
=============================================================================
