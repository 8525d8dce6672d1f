---------------------------- MODULE BlockQueue ----------------------------
(***************************************************************************)
(* QUEUE_T of recpt1: enqueue() and dequeue() of recpt1.c, statement by     *)
(* statement between the points where another thread can interfere.  The    *)
(* critical sections are two steps each, so that it is the mutex and not    *)
(* the grain of the model that keeps them apart.                            *)
(*                                                                         *)
(* A thread's pc:                                                           *)
(*   idle -> lock -> test -> count -> signal -> idle                        *)
(*                   test -> wait -> relock -> test | idle                  *)
(* where "wait" is pthread_cond_timedwait with the mutex released and       *)
(* "relock" is the same call after it was woken, before it owns the mutex.  *)
(***************************************************************************)
EXTENDS Naturals

CONSTANTS Producers,   \* threads that call enqueue (main)
          Consumers,   \* threads that call dequeue (the reader thread)
          Item,        \* BUFSZ pointers
          Null,        \* the NULL pointer, which is enqueued as an end mark
          NoCall,      \* argument register of a producer outside a call
          Free,        \* owner of an unlocked mutex
          Size,        \* MAX_QUEUE
          MaxRetry     \* 60: waits of about a second each

ASSUME QueueAssumption ==
  /\ Size \in Nat \ {0}
  /\ MaxRetry \in Nat
  /\ Null \in Item
  /\ NoCall \notin Item
  /\ Producers \cap Consumers = {}
  /\ Free \notin Producers \cup Consumers

Threads == Producers \cup Consumers

VARIABLES in, out, num_avail, num_used, buffer,   \* QUEUE_T
          mutex,                                  \* its owner
          f_exit,                                 \* the program's exit flag
          pc, retry_count,                        \* of each thread
          call,                                   \* data of a running enqueue
          got,                                    \* result of the last dequeue
          cleaner                                 \* progress of cleanup()

ring == <<in, out, num_avail, num_used, buffer>>
vars == <<ring, mutex, f_exit, pc, retry_count, call, got, cleaner>>

create_queue ==
  /\ in = 0 /\ out = 0
  /\ num_avail = Size /\ num_used = 0
  /\ buffer = [i \in 0 .. Size-1 |-> Null]

Init ==
  /\ create_queue
  /\ mutex = Free
  /\ f_exit = FALSE
  /\ pc = [t \in Threads |-> "idle"]
  /\ retry_count = [t \in Threads |-> 0]
  /\ call = [p \in Producers |-> NoCall]
  /\ got = [c \in Consumers |-> Null]
  /\ cleaner = "none"

Goto(t, l) == pc' = [pc EXCEPT ![t] = l]

\* pthread_cond_signal: wakes one of the waiters, if there is one.
CondSignal(waiters, cont) ==
  IF \E w \in waiters : cont[w] = "wait"
    THEN \E w \in waiters : cont[w] = "wait" /\ pc' = [cont EXCEPT ![w] = "relock"]
    ELSE pc' = cont

-----------------------------------------------------------------------------
(* What both calls do with the mutex. *)

Lock(t) ==
  /\ pc[t] = "lock" /\ mutex = Free
  /\ mutex' = t
  /\ Goto(t, "test")
  /\ UNCHANGED <<ring, f_exit, retry_count, call, got, cleaner>>

\* num_avail == 0 for a producer, num_used == 0 for a consumer
MustWaitEmpty(t) == t \notin Producers /\ num_used = 0   \* mutant: never full
MustWait(t) == IF t \in Producers THEN num_avail = 0 ELSE num_used = 0

Wait(t) ==
  /\ pc[t] = "test" /\ MustWait(t)
  /\ mutex' = Free
  /\ Goto(t, "wait")
  /\ UNCHANGED <<ring, f_exit, retry_count, call, got, cleaner>>

WakeTo(t, l) ==
  /\ pc[t] = "wait"
  /\ Goto(t, l)
  /\ UNCHANGED <<ring, mutex, f_exit, retry_count, call, got, cleaner>>

\* The second is over, or the wake-up is spurious.
TimeOutInside(t) == WakeTo(t, "test")   \* mutant: without the mutex
TimeOut(t) == WakeTo(t, "relock")

NotCounted(n) == n   \* mutant: retry_count++ is missing
Counted(n) == n + 1

\* Woken, with the mutex again: one more retry, which may be one too many.
Relock(t) ==
  /\ pc[t] = "relock" /\ mutex = Free
  /\ retry_count' = [retry_count EXCEPT ![t] = Counted(@)]
  /\ f_exit' = (f_exit \/ retry_count'[t] > MaxRetry)
  /\ IF f_exit'
       THEN /\ Goto(t, "idle")
            /\ call' = IF t \in Producers THEN [call EXCEPT ![t] = NoCall] ELSE call
            /\ got' = IF t \in Consumers THEN [got EXCEPT ![t] = Null] ELSE got
            /\ UNCHANGED mutex
       ELSE /\ Goto(t, "test")
            /\ mutex' = t
            /\ UNCHANGED <<call, got>>
  /\ UNCHANGED <<ring, cleaner>>

-----------------------------------------------------------------------------
(* enqueue *)

EnqueueCall(p, b) ==
  /\ pc[p] = "idle"
  /\ call' = [call EXCEPT ![p] = b]
  /\ retry_count' = [retry_count EXCEPT ![p] = 0]
  /\ Goto(p, "lock")
  /\ UNCHANGED <<ring, mutex, f_exit, got, cleaner>>

EnqueueStore(p) ==
  /\ pc[p] = "test" /\ ~MustWait(p)
  /\ buffer' = [buffer EXCEPT ![in] = call[p]]
  /\ in' = (in + 1) % Size
  /\ Goto(p, "count")
  /\ UNCHANGED <<out, num_avail, num_used, mutex, f_exit, retry_count, call, got, cleaner>>

CountOne(p, avail) ==
  /\ pc[p] = "count"
  /\ num_avail' = avail
  /\ num_used' = num_used + 1
  /\ mutex' = Free
  /\ call' = [call EXCEPT ![p] = NoCall]
  /\ Goto(p, "signal")
  /\ UNCHANGED <<in, out, buffer, f_exit, retry_count, got, cleaner>>

EnqueueCountUsed(p) == CountOne(p, num_avail)   \* mutant: num_avail-- is missing
EnqueueCount(p) == CountOne(p, num_avail - 1)

EnqueueNoSignal(p) ==   \* mutant: pthread_cond_signal is missing
  /\ pc[p] = "signal"
  /\ Goto(p, "idle")
  /\ UNCHANGED <<ring, mutex, f_exit, retry_count, call, got, cleaner>>

EnqueueSignal(p) ==
  /\ pc[p] = "signal"
  /\ CondSignal(Consumers, [pc EXCEPT ![p] = "idle"])
  /\ UNCHANGED <<ring, mutex, f_exit, retry_count, call, got, cleaner>>

-----------------------------------------------------------------------------
(* dequeue *)

DequeueCall(c) ==
  /\ pc[c] = "idle"
  /\ retry_count' = [retry_count EXCEPT ![c] = 0]
  /\ Goto(c, "lock")
  /\ UNCHANGED <<ring, mutex, f_exit, call, got, cleaner>>

TakeFrom(c, slot) ==
  /\ pc[c] = "test" /\ ~MustWait(c)
  /\ got' = [got EXCEPT ![c] = buffer[slot]]
  /\ out' = (out + 1) % Size
  /\ Goto(c, "count")
  /\ UNCHANGED <<in, num_avail, num_used, buffer, mutex, f_exit, retry_count, call, cleaner>>

DequeueTakeIn(c) == TakeFrom(c, in)   \* mutant: the wrong index
DequeueTake(c) == TakeFrom(c, out)

DequeueCount(c) ==
  /\ pc[c] = "count"
  /\ num_avail' = num_avail + 1
  /\ num_used' = num_used - 1
  /\ mutex' = Free
  /\ Goto(c, "signal")
  /\ UNCHANGED <<in, out, buffer, f_exit, retry_count, call, got, cleaner>>

DequeueSignal(c) ==
  /\ pc[c] = "signal"
  /\ CondSignal(Producers, [pc EXCEPT ![c] = "idle"])
  /\ UNCHANGED <<ring, mutex, f_exit, retry_count, call, got, cleaner>>

-----------------------------------------------------------------------------
(* cleanup(), run by the signal thread without the mutex.  f_exit is also    *)
(* raised by main and by the ipc thread; they raise it as the first step     *)
(* here does, without the signals.                                           *)

CleanupRaise ==
  /\ cleaner = "none"
  /\ f_exit' = TRUE
  /\ cleaner' = "avail"
  /\ UNCHANGED <<ring, mutex, pc, retry_count, call, got>>

CleanupSignalAvail ==
  /\ cleaner = "avail"
  /\ cleaner' = "used"
  /\ CondSignal(Producers, pc)
  /\ UNCHANGED <<ring, mutex, f_exit, retry_count, call, got>>

CleanupSignalUsed ==
  /\ cleaner = "used"
  /\ cleaner' = "done"
  /\ CondSignal(Consumers, pc)
  /\ UNCHANGED <<ring, mutex, f_exit, retry_count, call, got>>

-----------------------------------------------------------------------------
Enqueue(p) == EnqueueStore(p) \/ EnqueueCount(p) \/ EnqueueSignal(p)
Dequeue(c) == DequeueTake(c) \/ DequeueCount(c) \/ DequeueSignal(c)
Mutex(t)   == Lock(t) \/ Wait(t) \/ TimeOut(t) \/ Relock(t)
Cleanup    == CleanupRaise \/ CleanupSignalAvail \/ CleanupSignalUsed

Next ==
  \/ \E t \in Threads : Mutex(t)
  \/ \E p \in Producers : Enqueue(p) \/ \E b \in Item : EnqueueCall(p, b)
  \/ \E c \in Consumers : Dequeue(c) \/ DequeueCall(c)
  \/ Cleanup

Spec == Init /\ [][Next]_vars

\* A running call goes on, a timed wait ends, and a thread that keeps finding
\* the mutex free gets it.  Nobody has to call, and no signal has to arrive.
Fairness ==
  /\ \A t \in Threads : SF_vars(Lock(t) \/ Relock(t)) /\ WF_vars(Wait(t) \/ TimeOut(t))
  /\ \A p \in Producers : WF_vars(Enqueue(p))
  /\ \A c \in Consumers : WF_vars(Dequeue(c))

FairSpec == Spec /\ Fairness

-----------------------------------------------------------------------------
(* Properties *)

Labels == {"idle", "lock", "test", "wait", "relock", "count", "signal"}
InCritical(t) == pc[t] \in {"test", "count"}
Filling  == \E p \in Producers : pc[p] = "count"
Draining == \E c \in Consumers : pc[c] = "count"

\* The registers of the queue and of its callers have the values their C types
\* and the code allow; num_avail and num_used are unsigned.
TypeOK ==
  /\ in \in 0 .. Size-1 /\ out \in 0 .. Size-1
  /\ num_avail \in 0 .. Size /\ num_used \in 0 .. Size
  /\ buffer \in [0 .. Size-1 -> Item]
  /\ mutex \in Threads \cup {Free}
  /\ f_exit \in BOOLEAN
  /\ pc \in [Threads -> Labels]
  /\ retry_count \in [Threads -> Nat]
  /\ call \in [Producers -> Item \cup {NoCall}]
  /\ got \in [Consumers -> Item]
  /\ cleaner \in {"none", "avail", "used", "done"}

\* Exactly the thread that owns the mutex is between its lock and its unlock.
MutexHeld == \A t \in Threads : InCritical(t) <=> mutex = t

\* The unsigned counters never pass 0 or Size, and in, out and num_used
\* describe the same stretch of the ring whenever nobody is changing them.
RingConsistent ==
  /\ num_avail + num_used = Size
  /\ Filling => num_avail > 0
  /\ Draining => num_used > 0
  /\ LET len == num_used + (IF Filling THEN 1 ELSE 0) - (IF Draining THEN 1 ELSE 0)
     IN  in = (out + len) % Size

\* Nobody sleeps out his second beside something he is waiting for: if a
\* consumer sleeps while blocks are queued, the signal that wakes one is still
\* to be sent, or another consumer is awake to take them; and likewise for a
\* producer and free slots.
NoLostWakeUp ==
  /\ (\E c \in Consumers : pc[c] = "wait") /\ num_used > 0 =>
       \/ \E p \in Producers : pc[p] = "signal"
       \/ \E c \in Consumers : pc[c] \notin {"idle", "wait"}
  /\ (\E p \in Producers : pc[p] = "wait") /\ num_avail > 0 =>
       \/ \E c \in Consumers : pc[c] = "signal"
       \/ \E p \in Producers : pc[p] \notin {"idle", "wait"}

\* The queue's content: a block is in from the moment its counters say so, and
\* out from the moment a consumer has moved the out index past it.
Content ==
  [i \in 1 .. (IF Draining THEN num_used - 1 ELSE num_used) |->
     buffer[(out + i - 1) % Size]]

Fifo == INSTANCE BlockFifo WITH fifo <- Content

\* enqueue and dequeue are operations of a bounded FIFO: blocks come out in the
\* order in which they were counted in, each once.
ImplementsFifo == Fifo!FifoSpec

\* No call blocks for ever, not even with nobody at the other end: after
\* MaxRetry waits it raises the exit flag and returns.
CallsReturn == \A t \in Threads : pc[t] # "idle" ~> pc[t] = "idle"
=============================================================================
