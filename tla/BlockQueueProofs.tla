------------------------- MODULE BlockQueueProofs -------------------------
(***************************************************************************)
(* Proofs about BlockQueue for every set of producers and consumers, every  *)
(* capacity and every retry limit: the mutex is held by exactly the thread  *)
(* inside, the counters and the two indices agree, and the queue is a FIFO. *)
(***************************************************************************)
EXTENDS BlockQueue, Integers, Sequences, TLAPS

\* What an enqueue that has stored but not counted has left in the ring, and
\* when a producer has a block in its hands.
HandOver ==
  /\ \A p \in Producers : call[p] = NoCall <=> pc[p] \in {"idle", "signal"}
  /\ \A p \in Producers : pc[p] = "count" => buffer[(out + num_used) % Size] = call[p]

IInv == TypeOK /\ MutexHeld /\ RingConsistent /\ HandOver

-----------------------------------------------------------------------------
(* Arithmetic of the ring. *)

\* A remainder is an index of the ring.
LEMMA ModRange ==
  ASSUME NEW n \in Nat \ {0}, NEW x \in Nat
  PROVE  x % n \in 0 .. n-1
  BY SMT

\* Inside the ring the remainder changes nothing,
LEMMA ModSmall ==
  ASSUME NEW n \in Nat \ {0}, NEW x \in 0 .. n-1
  PROVE  x % n = x
  BY SMT

\* and beyond its end it takes one round off.
LEMMA ModWrap ==
  ASSUME NEW n \in Nat \ {0}, NEW x \in n .. 2*n-1
  PROVE  x % n = x - n
  BY SMT

\* Position k of a stretch that starts at o, with or without the wrap.
LEMMA ModCases ==
  ASSUME NEW n \in Nat \ {0}, NEW o \in 0 .. n-1, NEW k \in 0 .. n
  PROVE  (o + k) % n = IF o + k < n THEN o + k ELSE o + k - n
<1>1. CASE o + k < n
  BY <1>1, ModSmall
<1>2. CASE o + k >= n
  <2>1. o + k \in n .. 2*n-1  BY <1>2
  <2>2. (o + k) % n = o + k - n  BY <2>1, ModWrap
  <2> QED  BY <1>2, <2>2
<1> QED  BY <1>1, <1>2

\* Moving an index one on is moving one further from where it was counted.
LEMMA ModNext ==
  ASSUME NEW n \in Nat \ {0}, NEW o \in 0 .. n-1, NEW k \in 0 .. n-1
  PROVE  (((o + k) % n) + 1) % n = (o + (k + 1)) % n
<1> DEFINE a == (o + k) % n
<1>0. k \in 0 .. n /\ k + 1 \in 0 .. n /\ 1 \in 0 .. n  OBVIOUS
<1>1. a = IF o + k < n THEN o + k ELSE o + k - n  BY <1>0, ModCases
<1>2. a \in 0 .. n-1  BY <1>1
<1>3. (a + 1) % n = IF a + 1 < n THEN a + 1 ELSE a + 1 - n
  BY <1>0, <1>2, ModCases
<1>4. (o + (k + 1)) % n = IF o + (k + 1) < n THEN o + (k + 1) ELSE o + (k + 1) - n
  BY <1>0, ModCases
<1> HIDE DEF a
<1>5. (a + 1) % n = (o + (k + 1)) % n  BY <1>1, <1>3, <1>4
<1> QED  BY <1>5 DEF a

\* ... and moving the start on leaves one less to the same end.
LEMMA ModShift ==
  ASSUME NEW n \in Nat \ {0}, NEW o \in 0 .. n-1, NEW k \in 1 .. n
  PROVE  (((o + 1) % n) + (k - 1)) % n = (o + k) % n
<1> DEFINE a == (o + 1) % n
<1>0. k - 1 \in 0 .. n /\ k \in 0 .. n /\ 1 \in 0 .. n  OBVIOUS
<1>1. a = IF o + 1 < n THEN o + 1 ELSE o + 1 - n  BY <1>0, ModCases
<1>2. a \in 0 .. n-1  BY <1>1
<1>3. (a + (k - 1)) % n = IF a + (k - 1) < n THEN a + (k - 1) ELSE a + (k - 1) - n
  BY <1>0, <1>2, ModCases
<1>4. (o + k) % n = IF o + k < n THEN o + k ELSE o + k - n  BY <1>0, ModCases
<1> HIDE DEF a
<1>5. (a + (k - 1)) % n = (o + k) % n  BY <1>1, <1>3, <1>4
<1> QED  BY <1>5 DEF a

\* Two positions less than a full ring apart are two slots.
LEMMA ModInjective ==
  ASSUME NEW n \in Nat \ {0}, NEW o \in 0 .. n-1,
         NEW j \in 0 .. n-1, NEW k \in 0 .. n-1, j # k
  PROVE  (o + j) % n # (o + k) % n
<1>0. j \in 0 .. n /\ k \in 0 .. n  OBVIOUS
<1>1. (o + j) % n = IF o + j < n THEN o + j ELSE o + j - n  BY <1>0, ModCases
<1>2. (o + k) % n = IF o + k < n THEN o + k ELSE o + k - n  BY <1>0, ModCases
<1> QED  BY <1>1, <1>2

-----------------------------------------------------------------------------
(* The inductive invariant. *)

\* pthread_cond_signal moves at most one waiter, and moves it to "relock".
LEMMA SignalEffect ==
  ASSUME NEW W, W \subseteq Threads, NEW cont \in [Threads -> Labels], CondSignal(W, cont)
  PROVE  /\ pc' \in [Threads -> Labels]
         /\ \A t \in Threads : pc'[t] # cont[t] => cont[t] = "wait" /\ pc'[t] = "relock"
<1>1. CASE \E w \in W : cont[w] = "wait"
  <2>1. PICK w \in W : cont[w] = "wait" /\ pc' = [cont EXCEPT ![w] = "relock"]
    BY <1>1 DEF CondSignal
  <2> QED  BY <2>1 DEF Labels
<1>2. CASE ~ \E w \in W : cont[w] = "wait"
  BY <1>2 DEF CondSignal
<1> QED  BY <1>1, <1>2

\* create_queue sets up a ring whose counters and indices agree.
LEMMA InitInv == Init => IInv
<1> SUFFICES ASSUME Init PROVE IInv  OBVIOUS
<1> USE QueueAssumption
<1>1. TypeOK
  <2>1. /\ in \in 0 .. Size-1 /\ out \in 0 .. Size-1
        /\ num_avail \in 0 .. Size /\ num_used \in 0 .. Size
    BY DEF Init, create_queue
  <2>2. buffer \in [0 .. Size-1 -> Item]  BY DEF Init, create_queue
  <2>3. pc \in [Threads -> Labels] /\ retry_count \in [Threads -> Nat]
    BY DEF Init, Labels
  <2>4. call \in [Producers -> Item \cup {NoCall}] /\ got \in [Consumers -> Item]
    BY DEF Init
  <2> QED  BY <2>1, <2>2, <2>3, <2>4 DEF Init, TypeOK
<1>2. MutexHeld  BY DEF Init, MutexHeld, InCritical, Threads
<1>3. RingConsistent
  <2>1. ~Filling /\ ~Draining  BY DEF Init, Filling, Draining, Threads
  <2>2. 0 \in 0 .. Size-1 /\ 0 % Size = 0  BY ModSmall
  <2> QED  BY <2>1, <2>2 DEF Init, create_queue, RingConsistent
<1>4. HandOver  BY DEF Init, HandOver, Threads
<1> QED  BY <1>1, <1>2, <1>3, <1>4 DEF IInv

\* Two threads are never inside together.
LEMMA Exclusion ==
  ASSUME MutexHeld, NEW t \in Threads, NEW u \in Threads, InCritical(t), InCritical(u)
  PROVE  t = u
  BY DEF MutexHeld

\* Taking the mutex moves nobody into or out of the ring.
LEMMA LockInv ==
  ASSUME IInv, NEW t \in Threads, Lock(t)
  PROVE  IInv'
<1> USE QueueAssumption DEF IInv
<1>1. TypeOK'
  BY DEF TypeOK, Lock, Goto, ring, Threads, Labels
<1>2. MutexHeld'
  BY DEF TypeOK, MutexHeld, InCritical, Lock, Goto, ring, Threads, Labels
<1>3. RingConsistent'
  BY DEF TypeOK, MutexHeld, InCritical, RingConsistent, Filling, Draining,
         Lock, Goto, ring, Threads, Labels
<1>4. HandOver'
  BY DEF TypeOK, HandOver, Lock, Goto, ring, Threads, Labels
<1> QED  BY <1>1, <1>2, <1>3, <1>4

\* Going to sleep gives the mutex back.
LEMMA WaitInv ==
  ASSUME IInv, NEW t \in Threads, Wait(t)
  PROVE  IInv'
<1> USE QueueAssumption DEF IInv
<1>1. TypeOK'
  BY DEF TypeOK, Wait, Goto, ring, Threads, Labels
<1>2. MutexHeld'
  BY DEF TypeOK, MutexHeld, InCritical, Wait, Goto, ring, Threads, Labels
<1>3. RingConsistent'
  BY DEF TypeOK, MutexHeld, InCritical, RingConsistent, Filling, Draining,
         Wait, Goto, ring, Threads, Labels
<1>4. HandOver'
  BY DEF TypeOK, HandOver, Wait, Goto, ring, Threads, Labels
<1> QED  BY <1>1, <1>2, <1>3, <1>4

\* Waking up does not take the mutex.
LEMMA TimeOutInv ==
  ASSUME IInv, NEW t \in Threads, TimeOut(t)
  PROVE  IInv'
<1> USE QueueAssumption DEF IInv
<1>1. TypeOK'
  BY DEF TypeOK, TimeOut, WakeTo, Goto, ring, Threads, Labels
<1>2. MutexHeld'
  BY DEF TypeOK, MutexHeld, InCritical, TimeOut, WakeTo, Goto, ring, Threads, Labels
<1>3. RingConsistent'
  BY DEF TypeOK, MutexHeld, InCritical, RingConsistent, Filling, Draining,
         TimeOut, WakeTo, Goto, ring, Threads, Labels
<1>4. HandOver'
  BY DEF TypeOK, HandOver, TimeOut, WakeTo, Goto, ring, Threads, Labels
<1> QED  BY <1>1, <1>2, <1>3, <1>4

\* A retry goes back inside, or leaves without having been inside.
LEMMA RelockInv ==
  ASSUME IInv, NEW t \in Threads, Relock(t)
  PROVE  IInv'
<1> USE QueueAssumption DEF IInv
<1>1. TypeOK'
  <2>1. retry_count' \in [Threads -> Nat]
    BY DEF TypeOK, Relock, Counted
  <2>2. f_exit' \in BOOLEAN
    <3>1. (retry_count'[t] > MaxRetry) \in BOOLEAN  BY <2>1
    <3> QED  BY <3>1, Zenon DEF TypeOK, Relock, Counted
  <2>3. pc' \in [Threads -> Labels] /\ mutex' \in Threads \cup {Free}
    BY DEF TypeOK, Relock, Counted, Goto, Labels
  <2>4. call' \in [Producers -> Item \cup {NoCall}] /\ got' \in [Consumers -> Item]
    BY DEF TypeOK, Relock, Counted
  <2> QED  BY <2>1, <2>2, <2>3, <2>4 DEF TypeOK, Relock, Counted, ring
<1>2. MutexHeld'
  BY DEF TypeOK, MutexHeld, InCritical, Relock, Counted, Goto, ring, Threads, Labels
<1>3. RingConsistent'
  BY DEF TypeOK, MutexHeld, InCritical, RingConsistent, Filling, Draining,
         Relock, Counted, Goto, ring, Threads, Labels
<1>4. HandOver'
  BY DEF TypeOK, HandOver, Relock, Counted, Goto, ring, Threads, Labels
<1> QED  BY <1>1, <1>2, <1>3, <1>4

\* A call starts outside.
LEMMA EnqueueCallInv ==
  ASSUME IInv, NEW p \in Producers, NEW b \in Item, EnqueueCall(p, b)
  PROVE  IInv'
<1> USE QueueAssumption DEF IInv
<1>1. TypeOK'
  BY DEF TypeOK, EnqueueCall, Goto, ring, Threads, Labels
<1>2. MutexHeld'
  BY DEF TypeOK, MutexHeld, InCritical, EnqueueCall, Goto, ring, Threads, Labels
<1>3. RingConsistent'
  BY DEF TypeOK, MutexHeld, InCritical, RingConsistent, Filling, Draining,
         EnqueueCall, Goto, ring, Threads, Labels
<1>4. HandOver'
  BY DEF TypeOK, HandOver, EnqueueCall, Goto, ring, Threads, Labels
<1> QED  BY <1>1, <1>2, <1>3, <1>4

\* A call starts outside.
LEMMA DequeueCallInv ==
  ASSUME IInv, NEW c \in Consumers, DequeueCall(c)
  PROVE  IInv'
<1> USE QueueAssumption DEF IInv
<1>1. TypeOK'
  BY DEF TypeOK, DequeueCall, Goto, ring, Threads, Labels
<1>2. MutexHeld'
  BY DEF TypeOK, MutexHeld, InCritical, DequeueCall, Goto, ring, Threads, Labels
<1>3. RingConsistent'
  BY DEF TypeOK, MutexHeld, InCritical, RingConsistent, Filling, Draining,
         DequeueCall, Goto, ring, Threads, Labels
<1>4. HandOver'
  BY DEF TypeOK, HandOver, DequeueCall, Goto, ring, Threads, Labels
<1> QED  BY <1>1, <1>2, <1>3, <1>4

\* The slot after the content is free, and the in index moves past it.
LEMMA EnqueueStoreInv ==
  ASSUME IInv, NEW p \in Producers, EnqueueStore(p)
  PROVE  IInv'
<1> USE QueueAssumption DEF IInv
<1>0. /\ ~Filling /\ ~Draining
      /\ num_avail > 0 /\ num_used \in 0 .. Size-1
      /\ in = (out + num_used) % Size
  <2>1. ~Filling /\ ~Draining
    BY Exclusion DEF EnqueueStore, Filling, Draining, InCritical, Threads
  <2>2. num_avail > 0 /\ num_used \in 0 .. Size-1
    BY DEF EnqueueStore, MustWait, TypeOK, RingConsistent
  <2> QED  BY <2>1, <2>2 DEF RingConsistent, TypeOK
<1>1. TypeOK'
  <2>1. in' \in 0 .. Size-1
    <3>1. in + 1 \in Nat /\ in' = (in + 1) % Size  BY DEF TypeOK, EnqueueStore
    <3> QED  BY <3>1, ModRange
  <2>2. call[p] \in Item
    BY DEF HandOver, EnqueueStore, TypeOK
  <2>3. buffer' \in [0 .. Size-1 -> Item]
    BY <2>2 DEF TypeOK, EnqueueStore
  <2>4. pc' \in [Threads -> Labels]
    BY DEF TypeOK, EnqueueStore, Goto, Labels
  <2> QED  BY <2>1, <2>3, <2>4 DEF TypeOK, EnqueueStore
<1>2. MutexHeld'
  BY DEF TypeOK, MutexHeld, InCritical, EnqueueStore, Goto, ring, Threads, Labels
<1>3. RingConsistent'
  <2>1. Filling' /\ ~Draining'
    BY <1>0 DEF TypeOK, Filling, Draining, EnqueueStore, Goto, ring, Threads, Labels
  <2>2. in' = (out + (num_used + 1)) % Size
    BY <1>0, ModNext DEF TypeOK, EnqueueStore
  <2> QED  BY <1>0, <2>1, <2>2 DEF TypeOK, RingConsistent, EnqueueStore
<1>4. HandOver'
  <2>1. \A q \in Producers : pc'[q] = "count" => q = p
    BY <1>0 DEF TypeOK, Filling, EnqueueStore, Goto, ring, Threads, Labels
  <2>2. buffer'[(out + num_used) % Size] = call[p]
    BY <1>0 DEF TypeOK, EnqueueStore
  <2>3. \A q \in Producers : call'[q] = NoCall <=> pc'[q] \in {"idle", "signal"}
    BY DEF TypeOK, HandOver, EnqueueStore, Goto, ring, Threads, Labels
  <2> QED  BY <2>1, <2>2, <2>3 DEF HandOver, EnqueueStore
<1> QED  BY <1>1, <1>2, <1>3, <1>4

\* Counting the stored block closes the gap between in and the counters.
LEMMA EnqueueCountInv ==
  ASSUME IInv, NEW p \in Producers, EnqueueCount(p)
  PROVE  IInv'
<1> USE QueueAssumption DEF IInv
<1>0. /\ Filling /\ ~Draining
      /\ num_avail \in 1 .. Size /\ num_used \in 0 .. Size-1
      /\ in = (out + (num_used + 1)) % Size
  <2>1. Filling /\ ~Draining
    BY Exclusion DEF EnqueueCount, CountOne, Filling, Draining, InCritical, Threads
  <2> QED  BY <2>1 DEF RingConsistent, TypeOK
<1>1. TypeOK'
  <2>1. num_avail' \in 0 .. Size /\ num_used' \in 0 .. Size
    BY <1>0 DEF EnqueueCount, CountOne
  <2>2. pc' \in [Threads -> Labels]
    BY DEF TypeOK, EnqueueCount, CountOne, Goto, Labels
  <2> QED  BY <2>1, <2>2 DEF TypeOK, EnqueueCount, CountOne
<1>2. MutexHeld'
  BY DEF TypeOK, MutexHeld, InCritical, EnqueueCount, CountOne, Goto, ring, Threads, Labels
<1>3. ~Filling' /\ ~Draining'
  <2>1. \A t \in Threads : pc'[t] # "count"
    BY <1>0, Exclusion DEF TypeOK, InCritical, EnqueueCount, CountOne, Goto, ring, Threads, Labels
  <2> QED  BY <2>1 DEF Filling, Draining, Threads
<1>4. RingConsistent'
  BY <1>0, <1>3 DEF TypeOK, RingConsistent, EnqueueCount, CountOne
<1>5. HandOver'
  <2>1. \A q \in Producers : call'[q] = NoCall <=> pc'[q] \in {"idle", "signal"}
    BY DEF TypeOK, HandOver, EnqueueCount, CountOne, Goto, ring, Threads, Labels
  <2> QED  BY <1>3, <2>1 DEF HandOver, Filling
<1> QED  BY <1>1, <1>2, <1>4, <1>5

\* The out index moves past the oldest block, which still counts as used.
LEMMA DequeueTakeInv ==
  ASSUME IInv, NEW c \in Consumers, DequeueTake(c)
  PROVE  IInv'
<1> USE QueueAssumption DEF IInv
<1>0. /\ ~Filling /\ ~Draining
      /\ num_used \in 1 .. Size
      /\ in = (out + num_used) % Size
  <2>1. ~Filling /\ ~Draining
    BY Exclusion DEF DequeueTake, TakeFrom, Filling, Draining, InCritical, Threads
  <2>2. num_used \in 1 .. Size
    BY DEF DequeueTake, TakeFrom, MustWait, TypeOK
  <2> QED  BY <2>1, <2>2 DEF RingConsistent, TypeOK
<1>1. TypeOK'
  <2>1. out' \in 0 .. Size-1
    <3>1. out + 1 \in Nat /\ out' = (out + 1) % Size  BY DEF TypeOK, DequeueTake, TakeFrom
    <3> QED  BY <3>1, ModRange
  <2>2. got' \in [Consumers -> Item]
    BY DEF TypeOK, DequeueTake, TakeFrom
  <2>3. pc' \in [Threads -> Labels]
    BY DEF TypeOK, DequeueTake, TakeFrom, Goto, Labels
  <2> QED  BY <2>1, <2>2, <2>3 DEF TypeOK, DequeueTake, TakeFrom
<1>2. MutexHeld'
  BY DEF TypeOK, MutexHeld, InCritical, DequeueTake, TakeFrom, Goto, ring, Threads, Labels
<1>3. ~Filling' /\ Draining'
  BY <1>0 DEF TypeOK, Filling, Draining, DequeueTake, TakeFrom, Goto, ring, Threads, Labels
<1>4. RingConsistent'
  <2>1. in = (out' + (num_used - 1)) % Size
    BY <1>0, ModShift DEF TypeOK, DequeueTake, TakeFrom
  <2>2. UNCHANGED <<in, num_avail, num_used>>
    BY DEF DequeueTake, TakeFrom
  <2>3. (out' + (num_used' + 0 - 1)) % Size = in'
    BY <1>0, <2>1, <2>2
  <2> QED  BY <1>0, <1>3, <2>2, <2>3 DEF RingConsistent
<1>5. HandOver'
  <2>1. \A q \in Producers : call'[q] = NoCall <=> pc'[q] \in {"idle", "signal"}
    BY DEF TypeOK, HandOver, DequeueTake, TakeFrom, Goto, ring, Threads, Labels
  <2> QED  BY <1>3, <2>1 DEF HandOver, Filling
<1> QED  BY <1>1, <1>2, <1>4, <1>5

\* Counting the taken block closes the gap between out and the counters.
LEMMA DequeueCountInv ==
  ASSUME IInv, NEW c \in Consumers, DequeueCount(c)
  PROVE  IInv'
<1> USE QueueAssumption DEF IInv
<1>0. /\ ~Filling /\ Draining
      /\ num_used \in 1 .. Size /\ num_avail \in 0 .. Size-1
      /\ in = (out + (num_used - 1)) % Size
  <2>1. ~Filling /\ Draining
    BY Exclusion DEF DequeueCount, Filling, Draining, InCritical, Threads
  <2> QED  BY <2>1 DEF RingConsistent, TypeOK
<1>1. TypeOK'
  <2>1. num_avail' \in 0 .. Size /\ num_used' \in 0 .. Size
    BY <1>0 DEF DequeueCount
  <2>2. pc' \in [Threads -> Labels]
    BY DEF TypeOK, DequeueCount, Goto, Labels
  <2> QED  BY <2>1, <2>2 DEF TypeOK, DequeueCount
<1>2. MutexHeld'
  BY DEF TypeOK, MutexHeld, InCritical, DequeueCount, Goto, ring, Threads, Labels
<1>3. ~Filling' /\ ~Draining'
  <2>1. \A t \in Threads : pc'[t] # "count"
    BY <1>0, Exclusion DEF TypeOK, InCritical, DequeueCount, Goto, ring, Threads, Labels
  <2> QED  BY <2>1 DEF Filling, Draining, Threads
<1>4. RingConsistent'
  BY <1>0, <1>3 DEF TypeOK, RingConsistent, DequeueCount
<1>5. HandOver'
  <2>1. \A q \in Producers : call'[q] = NoCall <=> pc'[q] \in {"idle", "signal"}
    BY DEF TypeOK, HandOver, DequeueCount, Goto, ring, Threads, Labels
  <2> QED  BY <1>3, <2>1 DEF HandOver, Filling
<1> QED  BY <1>1, <1>2, <1>4, <1>5

\* A signal, from whichever thread, changes the label of one sleeper.
LEMMA SignalInv ==
  ASSUME IInv, NEW W, W \subseteq Threads, NEW cont \in [Threads -> Labels],
         CondSignal(W, cont), cleaner' \in {"none", "avail", "used", "done"},
         \A t \in Threads : pc[t] # cont[t] => pc[t] = "signal" /\ cont[t] = "idle",
         UNCHANGED <<ring, mutex, f_exit, retry_count, call, got>>
  PROVE  IInv'
<1> USE QueueAssumption DEF IInv
<1>0. /\ pc' \in [Threads -> Labels]
      /\ \A t \in Threads : pc'[t] # cont[t] => cont[t] = "wait" /\ pc'[t] = "relock"
  BY SignalEffect
<1>1. TypeOK'  BY <1>0 DEF TypeOK, ring
<1>2. MutexHeld'  BY <1>0 DEF TypeOK, MutexHeld, InCritical
<1>3. RingConsistent'
  <2>1. Filling' = Filling /\ Draining' = Draining
    BY <1>0 DEF Filling, Draining, Threads
  <2> QED  BY <2>1 DEF RingConsistent, ring
<1>4. HandOver'  BY <1>0 DEF HandOver, ring, Threads
<1> QED  BY <1>1, <1>2, <1>3, <1>4

\* No step of any thread, and none of cleanup(), breaks the invariant.
LEMMA StepInv == IInv /\ [Next]_vars => IInv'
<1> SUFFICES ASSUME IInv, [Next]_vars PROVE IInv'  OBVIOUS
<1> USE DEF Threads
<1>1. CASE \E t \in Threads : Mutex(t)
  BY <1>1, LockInv, WaitInv, TimeOutInv, RelockInv DEF Mutex
<1>2. ASSUME NEW p \in Producers, \E b \in Item : EnqueueCall(p, b) PROVE IInv'
  BY <1>2, EnqueueCallInv
<1>3. ASSUME NEW p \in Producers, Enqueue(p) PROVE IInv'
  <2>1. CASE EnqueueSignal(p)
    <3> DEFINE cont == [pc EXCEPT ![p] = "idle"]
    <3>1. cont \in [Threads -> Labels]  BY DEF IInv, TypeOK, Labels
    <3>2. \A t \in Threads : pc[t] # cont[t] => pc[t] = "signal" /\ cont[t] = "idle"
      BY <2>1 DEF IInv, TypeOK, EnqueueSignal
    <3>3. Consumers \subseteq Threads  OBVIOUS
    <3>4. cleaner' \in {"none", "avail", "used", "done"}
      BY <2>1 DEF IInv, TypeOK, EnqueueSignal
    <3> HIDE DEF cont, Threads
    <3>5. CondSignal(Consumers, cont)  BY <2>1 DEF EnqueueSignal, cont
    <3> QED  BY <2>1, <3>1, <3>2, <3>3, <3>4, <3>5, SignalInv DEF EnqueueSignal
  <2> QED  BY <1>3, <2>1, EnqueueStoreInv, EnqueueCountInv DEF Enqueue
<1>4. ASSUME NEW c \in Consumers, DequeueCall(c) PROVE IInv'
  BY <1>4, DequeueCallInv
<1>5. ASSUME NEW c \in Consumers, Dequeue(c) PROVE IInv'
  <2>1. CASE DequeueSignal(c)
    <3> DEFINE cont == [pc EXCEPT ![c] = "idle"]
    <3>1. cont \in [Threads -> Labels]  BY DEF IInv, TypeOK, Labels
    <3>2. \A t \in Threads : pc[t] # cont[t] => pc[t] = "signal" /\ cont[t] = "idle"
      BY <2>1 DEF IInv, TypeOK, DequeueSignal
    <3>3. Producers \subseteq Threads  OBVIOUS
    <3>4. cleaner' \in {"none", "avail", "used", "done"}
      BY <2>1 DEF IInv, TypeOK, DequeueSignal
    <3> HIDE DEF cont, Threads
    <3>5. CondSignal(Producers, cont)  BY <2>1 DEF DequeueSignal, cont
    <3> QED  BY <2>1, <3>1, <3>2, <3>3, <3>4, <3>5, SignalInv DEF DequeueSignal
  <2> QED  BY <1>5, <2>1, DequeueTakeInv, DequeueCountInv DEF Dequeue
<1>6. CASE Cleanup
  <2>1. CASE CleanupRaise
    BY <2>1 DEF CleanupRaise, IInv, TypeOK, MutexHeld, InCritical, RingConsistent,
                Filling, Draining, HandOver, ring
  <2>2. CASE CleanupSignalAvail \/ CleanupSignalUsed
    <3>1. pc \in [Threads -> Labels]  BY DEF IInv, TypeOK
    <3>2. cleaner' \in {"none", "avail", "used", "done"}
      BY <2>2 DEF CleanupSignalAvail, CleanupSignalUsed
    <3>3. PICK W : W \subseteq Threads /\ CondSignal(W, pc)
      BY <2>2 DEF CleanupSignalAvail, CleanupSignalUsed
    <3>4. UNCHANGED <<ring, mutex, f_exit, retry_count, call, got>>
      BY <2>2 DEF CleanupSignalAvail, CleanupSignalUsed
    <3> HIDE DEF Threads
    <3> QED  BY <3>1, <3>2, <3>3, <3>4, SignalInv
  <2> QED  BY <1>6, <2>1, <2>2 DEF Cleanup
<1>7. CASE UNCHANGED vars
  BY <1>7 DEF vars, ring, IInv, TypeOK, MutexHeld, InCritical, RingConsistent,
              Filling, Draining, HandOver
<1> QED  BY <1>1, <1>2, <1>3, <1>4, <1>5, <1>6, <1>7 DEF Next

\* TypeOK of BlockQueue, for every instance.
THEOREM Typing == Spec => []TypeOK
<1>1. Spec => []IInv  BY InitInv, StepInv, PTL DEF Spec
<1> QED  BY <1>1, PTL DEF IInv

\* pthread_mutex_lock and pthread_mutex_unlock bracket every access to the ring.
THEOREM MutualExclusion == Spec => []MutexHeld
<1>1. Spec => []IInv  BY InitInv, StepInv, PTL DEF Spec
<1> QED  BY <1>1, PTL DEF IInv

\* The indices and the unsigned counters of QUEUE_T never disagree or wrap.
THEOREM RingSafety == Spec => []RingConsistent
<1>1. Spec => []IInv  BY InitInv, StepInv, PTL DEF Spec
<1> QED  BY <1>1, PTL DEF IInv

-----------------------------------------------------------------------------
(* The ring is a FIFO. *)

ContentLen == IF Draining THEN num_used - 1 ELSE num_used

\* A sequence is given by its length and its elements.
LEMMA SeqIsFunction ==
  ASSUME NEW S, NEW s \in Seq(S)
  PROVE  s = [i \in 1 .. Len(s) |-> s[i]]
  BY SMT

\* The content is a sequence of items, as long as the counters say.
LEMMA ContentIsSeq ==
  ASSUME IInv
  PROVE  /\ ContentLen \in 0 .. Size
         /\ Content \in Seq(Item) /\ Len(Content) = ContentLen
         /\ \A i \in 1 .. ContentLen : Content[i] = buffer[(out + i - 1) % Size]
<1> USE QueueAssumption DEF IInv
<1>1. ContentLen \in 0 .. Size
  BY DEF TypeOK, RingConsistent, ContentLen
<1>2. Content = [i \in 1 .. ContentLen |-> buffer[(out + i - 1) % Size]]
  BY DEF Content, ContentLen
<1>3. ASSUME NEW i \in 1 .. ContentLen PROVE buffer[(out + i - 1) % Size] \in Item
  <2>1. out + i - 1 \in Nat  BY <1>1 DEF TypeOK
  <2>2. (out + i - 1) % Size \in 0 .. Size-1  BY <2>1, ModRange
  <2> QED  BY <2>2 DEF TypeOK
<1> HIDE DEF Content, IInv
<1>4. Content \in [1 .. ContentLen -> Item]  BY <1>2, <1>3
<1>5. Content \in Seq(Item) /\ Len(Content) = ContentLen  BY <1>1, <1>4
<1> QED  BY <1>1, <1>2, <1>5

\* A step that leaves the ring alone leaves its content alone.
LEMMA ContentKept ==
  ASSUME IInv, UNCHANGED ring, Draining' = Draining
  PROVE  Content' = Content
  BY DEF Content, ring

\* Storing a block before it is counted writes outside the content.
LEMMA StoreOutside ==
  ASSUME IInv, NEW p \in Producers, EnqueueStore(p), IInv'
  PROVE  Content' = Content
<1> USE QueueAssumption
<1>1. /\ ~Filling /\ ~Draining /\ ~Draining'
      /\ num_used \in 0 .. Size-1
      /\ in = (out + num_used) % Size
  <2>1. ~Filling /\ ~Draining
    BY Exclusion DEF IInv, EnqueueStore, Filling, Draining, InCritical, Threads
  <2>2. num_used \in 0 .. Size-1
    BY DEF IInv, EnqueueStore, MustWait, TypeOK, RingConsistent
  <2>3. ~Draining'
    BY <2>1 DEF IInv, TypeOK, Draining, EnqueueStore, Goto, Threads
  <2> QED  BY <2>1, <2>2, <2>3 DEF IInv, RingConsistent, TypeOK
<1>2. ASSUME NEW i \in 1 .. num_used PROVE (out + i - 1) % Size # in
  <2>1. i - 1 \in 0 .. Size-1 /\ i - 1 # num_used  BY <1>1
  <2>2. (out + (i - 1)) % Size # (out + num_used) % Size
    BY <1>1, <2>1, ModInjective DEF IInv, TypeOK
  <2>3. out + (i - 1) = out + i - 1  BY <1>1 DEF IInv, TypeOK
  <2> QED  BY <1>1, <2>2, <2>3
<1>3. ASSUME NEW i \in 1 .. num_used
      PROVE  buffer'[(out + i - 1) % Size] = buffer[(out + i - 1) % Size]
  <2>1. out + i - 1 \in Nat  BY <1>1 DEF IInv, TypeOK
  <2>2. (out + i - 1) % Size \in 0 .. Size-1  BY <2>1, ModRange
  <2> QED  BY <1>2, <2>2 DEF EnqueueStore, IInv, TypeOK
<1>4. num_used' = num_used /\ out' = out  BY DEF EnqueueStore
<1> QED  BY <1>1, <1>3, <1>4 DEF Content

\* The counters take the stored block in at the end.
LEMMA CountAppends ==
  ASSUME IInv, NEW p \in Producers, EnqueueCount(p), IInv'
  PROVE  /\ Len(Content) < Size
         /\ Content' = Append(Content, call[p])
<1> USE QueueAssumption
<1>1. /\ ~Draining /\ ~Draining'
      /\ num_used \in 0 .. Size-1 /\ num_used' = num_used + 1
      /\ buffer[(out + num_used) % Size] = call[p]
      /\ UNCHANGED <<out, buffer>>
  <2>1. Filling /\ ~Draining
    BY Exclusion DEF IInv, EnqueueCount, CountOne, Filling, Draining, InCritical, Threads
  <2>2. ~Draining'
    BY <2>1 DEF IInv, TypeOK, Draining, EnqueueCount, CountOne, Goto, Threads
  <2> QED  BY <2>1, <2>2 DEF IInv, RingConsistent, TypeOK, HandOver, EnqueueCount, CountOne
<1>2. ContentLen = num_used /\ ContentLen' = num_used + 1
  BY <1>1 DEF ContentLen
<1>3. Content \in Seq(Item) /\ Len(Content) = num_used
  BY <1>2, ContentIsSeq
<1>4. /\ Content' = [i \in 1 .. num_used + 1 |-> buffer[(out + i - 1) % Size]]
      /\ Content = [i \in 1 .. num_used |-> buffer[(out + i - 1) % Size]]
  BY <1>1 DEF Content
<1>5. (out + (num_used + 1) - 1) % Size = (out + num_used) % Size
  <2>1. out + (num_used + 1) - 1 = out + num_used  BY <1>1 DEF IInv, TypeOK
  <2> QED  BY <2>1
<1>6. call[p] = Content'[num_used + 1]  BY <1>1, <1>4, <1>5
<1>7. \A i \in 1 .. num_used : Content'[i] = Content[i]  BY <1>1, <1>4
<1>8. Append(Content, call[p]) =
        [i \in 1 .. num_used + 1 |-> IF i = num_used + 1 THEN call[p] ELSE Content[i]]
  BY <1>1, <1>3
<1>9. \A i \in 1 .. num_used + 1 : i # num_used + 1 => i \in 1 .. num_used
  BY <1>1
<1> HIDE DEF Content
<1>10. Content' = [i \in 1 .. num_used + 1 |-> Content'[i]]  BY <1>4
<1> QED  BY <1>1, <1>3, <1>6, <1>7, <1>8, <1>9, <1>10

\* Moving the out index takes the oldest block off the front.
LEMMA TakeRemoves ==
  ASSUME IInv, NEW c \in Consumers, DequeueTake(c), IInv'
  PROVE  /\ Content # <<>>
         /\ got'[c] = Head(Content)
         /\ Content' = Tail(Content)
<1> USE QueueAssumption
<1>1. /\ ~Draining /\ Draining'
      /\ num_used \in 1 .. Size
      /\ out \in 0 .. Size-1 /\ out' = (out + 1) % Size
      /\ got'[c] = buffer[out]
      /\ UNCHANGED <<num_used, buffer>>
  <2>1. ~Filling /\ ~Draining
    BY Exclusion DEF IInv, DequeueTake, TakeFrom, Filling, Draining, InCritical, Threads
  <2>2. Draining'
    BY <2>1 DEF IInv, TypeOK, Draining, DequeueTake, TakeFrom, Goto, Threads
  <2> QED  BY <2>1, <2>2 DEF IInv, RingConsistent, TypeOK, DequeueTake, TakeFrom, MustWait
<1>2. ContentLen = num_used  BY <1>1 DEF ContentLen
<1>3. Content \in Seq(Item) /\ Len(Content) = num_used
  BY <1>2, ContentIsSeq
<1>4. /\ Content' = [i \in 1 .. num_used - 1 |-> buffer[(out' + i - 1) % Size]]
      /\ Content = [i \in 1 .. num_used |-> buffer[(out + i - 1) % Size]]
  BY <1>1 DEF Content
<1>5. (out + 1 - 1) % Size = out
  <2>1. out + 1 - 1 = out  BY <1>1
  <2> QED  BY <1>1, <2>1, ModSmall
<1>6. Head(Content) = buffer[out]
  <2>1. 1 \in 1 .. num_used  BY <1>1
  <2> QED  BY <1>3, <1>4, <1>5, <2>1
<1>7. ASSUME NEW i \in 1 .. num_used - 1
      PROVE  (out' + i - 1) % Size = (out + (i + 1) - 1) % Size
  <2>1. i \in 1 .. Size  BY <1>1
  <2>2. (out' + (i - 1)) % Size = (out + i) % Size  BY <1>1, <2>1, ModShift
  <2>3. out' \in Nat  BY DEF IInv, TypeOK
  <2>4. out' + (i - 1) = out' + i - 1 /\ out + (i + 1) - 1 = out + i
    BY <1>1, <2>1, <2>3
  <2> QED  BY <2>2, <2>4
<1> HIDE DEF Content
<1>8. Tail(Content) \in Seq(Item) /\ Len(Tail(Content)) = num_used - 1
  BY <1>1, <1>3
<1>9. \A i \in 1 .. num_used - 1 : Tail(Content)[i] = Content[i + 1]
  BY <1>1, <1>3
<1>10. \A i \in 1 .. num_used - 1 : i + 1 \in 1 .. num_used  BY <1>1
<1>11. \A i \in 1 .. num_used - 1 : Content[i + 1] = buffer[(out + (i + 1) - 1) % Size]
  BY <1>4, <1>10
<1>12. \A i \in 1 .. num_used - 1 : Content'[i] = Tail(Content)[i]
  BY <1>4, <1>7, <1>9, <1>11
<1>13. Tail(Content) = [i \in 1 .. num_used - 1 |-> Tail(Content)[i]]
  <2>1. Tail(Content) = [i \in 1 .. Len(Tail(Content)) |-> Tail(Content)[i]]
    BY <1>8, SeqIsFunction
  <2> QED  BY <1>8, <2>1
<1>14. Content' = [i \in 1 .. num_used - 1 |-> Content'[i]]  BY <1>4
<1>15. Content' = Tail(Content)  BY <1>12, <1>13, <1>14
<1>16. Content # <<>>  BY <1>1, <1>3
<1> QED  BY <1>1, <1>6, <1>15, <1>16

\* The counters follow without changing the content.
LEMMA CountKeeps ==
  ASSUME IInv, NEW c \in Consumers, DequeueCount(c), IInv'
  PROVE  Content' = Content
<1>1. Draining
  BY DEF Draining, DequeueCount
<1>2. ~Draining'
  BY Exclusion DEF IInv, TypeOK, Draining, DequeueCount, InCritical, Goto, Threads
<1> QED  BY <1>1, <1>2 DEF Content, DequeueCount

\* A step that keeps the content and the calls is a stutter of the FIFO, or
\* raises its exit flag.
LEMMA Stutter ==
  ASSUME IInv, UNCHANGED ring, Draining' = Draining,
         UNCHANGED <<call, got>>, f_exit' = f_exit \/ f_exit' = TRUE
  PROVE  [Fifo!FifoNext]_(Fifo!fifoVars)
<1>1. Content' = Content  BY ContentKept
<1> HIDE DEF Content
<1>2. CASE f_exit' = f_exit
  BY <1>1, <1>2 DEF Fifo!fifoVars
<1>3. CASE f_exit' = TRUE
  BY <1>1, <1>3 DEF Fifo!FifoNext, Fifo!RaiseExit
<1> QED  BY <1>2, <1>3

\* Labels outside "count" moving among themselves leave Draining alone.
LEMMA DrainingKept ==
  ASSUME IInv, NEW t \in Threads, pc[t] # "count", pc'[t] # "count",
         \A u \in Threads : u # t => (pc'[u] = "count" <=> pc[u] = "count")
  PROVE  Draining' = Draining
  BY DEF Draining, Threads

\* A signal moves a sleeper, never a thread between take and count.
LEMMA SignalKeepsDraining ==
  ASSUME IInv, NEW W, W \subseteq Threads, NEW cont \in [Threads -> Labels],
         CondSignal(W, cont),
         \A t \in Threads : pc[t] # cont[t] => pc[t] = "signal" /\ cont[t] = "idle"
  PROVE  Draining' = Draining
<1>1. \A t \in Threads : pc'[t] # cont[t] => cont[t] = "wait" /\ pc'[t] = "relock"
  BY SignalEffect
<1> QED  BY <1>1 DEF Draining, Threads

\* Waiting for the mutex or for a condition is invisible to the FIFO, and
\* giving up is its GiveUpPut or GiveUpTake.
LEMMA MutexImplements ==
  ASSUME IInv, IInv', NEW t \in Threads, Mutex(t)
  PROVE  [Fifo!FifoNext]_(Fifo!fifoVars)
<1> USE QueueAssumption
<1>1. UNCHANGED ring  BY DEF Mutex, Lock, Wait, TimeOut, WakeTo, Relock, Counted
<1>2. Draining' = Draining
  <2>1. /\ pc[t] # "count" /\ pc'[t] # "count"
        /\ \A u \in Threads : u # t => pc'[u] = pc[u]
    BY DEF IInv, TypeOK, Mutex, Lock, Wait, TimeOut, WakeTo, Relock, Counted, Goto
  <2> QED  BY <2>1, DrainingKept
<1>3. CASE Lock(t) \/ Wait(t) \/ TimeOut(t)
  BY <1>1, <1>2, <1>3, Stutter DEF Lock, Wait, TimeOut, WakeTo
<1>4. CASE Relock(t)
  <2>1. CASE ~f_exit'
    <3>1. UNCHANGED <<call, got>> /\ f_exit' = f_exit
      BY <1>4, <2>1 DEF Relock, Counted, IInv, TypeOK
    <3> QED  BY <1>1, <1>2, <3>1, Stutter
  <2>2. CASE f_exit' /\ t \in Producers
    <3>1. call' = [call EXCEPT ![t] = NoCall] /\ got' = got
      BY <1>4, <2>2 DEF Relock, Counted
    <3>2. Content' = Content  BY <1>1, <1>2, ContentKept
    <3> HIDE DEF Content
    <3> QED  BY <2>2, <3>1, <3>2 DEF Fifo!FifoNext, Fifo!GiveUpPut
  <2>3. CASE f_exit' /\ t \in Consumers
    <3>1. got' = [got EXCEPT ![t] = Null] /\ call' = call
      BY <1>4, <2>3 DEF Relock, Counted
    <3>2. Content' = Content  BY <1>1, <1>2, ContentKept
    <3> HIDE DEF Content
    <3> QED  BY <2>3, <3>1, <3>2 DEF Fifo!FifoNext, Fifo!GiveUpTake
  <2> QED  BY <2>1, <2>2, <2>3 DEF Threads
<1> QED  BY <1>3, <1>4 DEF Mutex

\* An enqueue takes effect in the FIFO where it counts its block.
LEMMA EnqueueImplements ==
  ASSUME IInv, IInv', NEW p \in Producers,
         Enqueue(p) \/ \E b \in Item : EnqueueCall(p, b)
  PROVE  [Fifo!FifoNext]_(Fifo!fifoVars)
<1> USE QueueAssumption
<1>1. CASE EnqueueStore(p)
  <2>1. Content' = Content  BY <1>1, StoreOutside
  <2>2. UNCHANGED <<f_exit, call, got>>  BY <1>1 DEF EnqueueStore
  <2> HIDE DEF Content
  <2> QED  BY <2>1, <2>2 DEF Fifo!fifoVars
<1>2. CASE EnqueueCount(p)
  <2>1. Len(Content) < Size /\ Content' = Append(Content, call[p])
    BY <1>2, CountAppends
  <2>2. call[p] # NoCall  BY <1>2 DEF IInv, HandOver, EnqueueCount, CountOne
  <2>3. call' = [call EXCEPT ![p] = NoCall] /\ UNCHANGED <<f_exit, got>>
    BY <1>2 DEF EnqueueCount, CountOne
  <2> HIDE DEF Content
  <2> QED  BY <2>1, <2>2, <2>3 DEF Fifo!FifoNext, Fifo!Put
<1>3. CASE EnqueueSignal(p)
  <2> DEFINE cont == [pc EXCEPT ![p] = "idle"]
  <2>1. cont \in [Threads -> Labels]  BY DEF IInv, TypeOK, Labels
  <2>2. \A t \in Threads : pc[t] # cont[t] => pc[t] = "signal" /\ cont[t] = "idle"
    BY <1>3 DEF IInv, TypeOK, EnqueueSignal, Threads
  <2>3. CondSignal(Consumers, cont)  BY <1>3 DEF EnqueueSignal
  <2>4. Consumers \subseteq Threads  BY DEF Threads
  <2> HIDE DEF cont
  <2>5. Draining' = Draining  BY <2>1, <2>2, <2>3, <2>4, SignalKeepsDraining
  <2> QED  BY <1>3, <2>5, Stutter DEF EnqueueSignal
<1>4. ASSUME NEW b \in Item, EnqueueCall(p, b) PROVE [Fifo!FifoNext]_(Fifo!fifoVars)
  <2>1. UNCHANGED ring  BY <1>4 DEF EnqueueCall
  <2>2. p \in Threads  BY DEF Threads
  <2>3. Draining' = Draining
    <3>1. /\ pc[p] # "count" /\ pc'[p] # "count"
          /\ \A u \in Threads : u # p => pc'[u] = pc[u]
      BY <1>4, <2>2 DEF IInv, TypeOK, EnqueueCall, Goto
    <3> QED  BY <2>2, <3>1, DrainingKept
  <2>4. Content' = Content  BY <2>1, <2>3, ContentKept
  <2>5. call[p] = NoCall  BY <1>4 DEF IInv, HandOver, EnqueueCall
  <2>6. call' = [call EXCEPT ![p] = b] /\ UNCHANGED <<f_exit, got>>
    BY <1>4 DEF EnqueueCall
  <2> HIDE DEF Content
  <2> QED  BY <2>4, <2>5, <2>6 DEF Fifo!FifoNext, Fifo!Call
<1> QED  BY <1>1, <1>2, <1>3, <1>4 DEF Enqueue

\* A dequeue takes effect in the FIFO where it moves the out index.
LEMMA DequeueImplements ==
  ASSUME IInv, IInv', NEW c \in Consumers, Dequeue(c) \/ DequeueCall(c)
  PROVE  [Fifo!FifoNext]_(Fifo!fifoVars)
<1> USE QueueAssumption
<1>1. CASE DequeueTake(c)
  <2>1. Content # <<>> /\ got'[c] = Head(Content) /\ Content' = Tail(Content)
    BY <1>1, TakeRemoves
  <2>2. got' = [got EXCEPT ![c] = got'[c]] /\ UNCHANGED <<f_exit, call>>
    BY <1>1 DEF DequeueTake, TakeFrom, IInv, TypeOK
  <2> HIDE DEF Content
  <2>3. Fifo!Take(c)  BY <2>1, <2>2 DEF Fifo!Take
  <2> QED  BY <2>3 DEF Fifo!FifoNext
<1>2. CASE DequeueCount(c)
  <2>1. Content' = Content  BY <1>2, CountKeeps
  <2>2. UNCHANGED <<f_exit, call, got>>  BY <1>2 DEF DequeueCount
  <2> HIDE DEF Content
  <2> QED  BY <2>1, <2>2 DEF Fifo!fifoVars
<1>3. CASE DequeueSignal(c)
  <2> DEFINE cont == [pc EXCEPT ![c] = "idle"]
  <2>1. cont \in [Threads -> Labels]  BY DEF IInv, TypeOK, Labels
  <2>2. \A t \in Threads : pc[t] # cont[t] => pc[t] = "signal" /\ cont[t] = "idle"
    BY <1>3 DEF IInv, TypeOK, DequeueSignal, Threads
  <2>3. CondSignal(Producers, cont)  BY <1>3 DEF DequeueSignal
  <2>4. Producers \subseteq Threads  BY DEF Threads
  <2> HIDE DEF cont
  <2>5. Draining' = Draining  BY <2>1, <2>2, <2>3, <2>4, SignalKeepsDraining
  <2> QED  BY <1>3, <2>5, Stutter DEF DequeueSignal
<1>4. CASE DequeueCall(c)
  <2>1. UNCHANGED ring  BY <1>4 DEF DequeueCall
  <2>2. c \in Threads  BY DEF Threads
  <2>3. Draining' = Draining
    <3>1. /\ pc[c] # "count" /\ pc'[c] # "count"
          /\ \A u \in Threads : u # c => pc'[u] = pc[u]
      BY <1>4, <2>2 DEF IInv, TypeOK, DequeueCall, Goto
    <3> QED  BY <2>2, <3>1, DrainingKept
  <2> QED  BY <1>4, <2>1, <2>3, Stutter DEF DequeueCall
<1> QED  BY <1>1, <1>2, <1>3, <1>4 DEF Dequeue

\* cleanup() raises the exit flag, and is invisible otherwise.
LEMMA CleanupImplements ==
  ASSUME IInv, IInv', Cleanup
  PROVE  [Fifo!FifoNext]_(Fifo!fifoVars)
<1>1. CASE CleanupRaise
  <2>1. Draining' = Draining  BY <1>1 DEF CleanupRaise, Draining
  <2> QED  BY <1>1, <2>1, Stutter DEF CleanupRaise
<1>2. CASE CleanupSignalAvail \/ CleanupSignalUsed
  <2>1. PICK W : W \subseteq Threads /\ CondSignal(W, pc)
    BY <1>2 DEF CleanupSignalAvail, CleanupSignalUsed, Threads
  <2>2. pc \in [Threads -> Labels]  BY DEF IInv, TypeOK
  <2>3. Draining' = Draining  BY <2>1, <2>2, SignalKeepsDraining
  <2> QED  BY <1>2, <2>3, Stutter DEF CleanupSignalAvail, CleanupSignalUsed
<1> QED  BY <1>1, <1>2 DEF Cleanup

\* A fresh ring is an empty FIFO.
LEMMA InitImplements == Init => Fifo!FifoInit
<1> SUFFICES ASSUME Init PROVE Fifo!FifoInit  OBVIOUS
<1>1. ~Draining  BY DEF Init, Draining, Threads
<1>2. Content = <<>>
  BY <1>1 DEF Init, create_queue, Content
<1> HIDE DEF Content
<1> QED  BY <1>2 DEF Init, Fifo!FifoInit

\* enqueue and dequeue, with their mutex, condition variables and modular
\* indices, are the operations of a bounded FIFO: every block handed over comes
\* out once, in order, unless its own call gave up with the exit flag raised.
THEOREM QueueRefinement == Spec => ImplementsFifo
<1>1. IInv /\ IInv' /\ [Next]_vars => [Fifo!FifoNext]_(Fifo!fifoVars)
  <2> SUFFICES ASSUME IInv, IInv', [Next]_vars PROVE [Fifo!FifoNext]_(Fifo!fifoVars)
    OBVIOUS
  <2>1. CASE \E t \in Threads : Mutex(t)  BY <2>1, MutexImplements
  <2>2. CASE \E p \in Producers : Enqueue(p) \/ \E b \in Item : EnqueueCall(p, b)
    BY <2>2, EnqueueImplements
  <2>3. CASE \E c \in Consumers : Dequeue(c) \/ DequeueCall(c)
    BY <2>3, DequeueImplements
  <2>4. CASE Cleanup  BY <2>4, CleanupImplements
  <2>5. CASE UNCHANGED vars
    <3>1. UNCHANGED ring /\ Draining' = Draining  BY <2>5 DEF vars, Draining
    <3> QED  BY <2>5, <3>1, Stutter DEF vars
  <2> QED  BY <2>1, <2>2, <2>3, <2>4, <2>5 DEF Next
<1>2. Spec => []IInv  BY InitInv, StepInv, PTL DEF Spec
<1> QED  BY <1>1, <1>2, InitImplements, PTL DEF Spec, ImplementsFifo, Fifo!FifoSpec

-----------------------------------------------------------------------------
(* No wake-up is lost between recpt1's one producer and one consumer,       *)
(* although pthread_cond_signal is called after the mutex was released.     *)

\* Whoever sleeps beside what he waits for has the other's signal coming.
SignalComing(p, c) ==
  /\ pc[c] = "wait" /\ num_used > 0 => pc[p] = "signal"
  /\ pc[p] = "wait" /\ num_avail > 0 => pc[c] = "signal"

\* Nobody falls asleep beside what he waits for, and nobody leaves "signal"
\* without signalling.
LEMMA SignalComingStep ==
  ASSUME NEW p, NEW c, Producers = {p}, Consumers = {c},
         IInv, SignalComing(p, c), [Next]_vars
  PROVE  SignalComing(p, c)'
<1> USE QueueAssumption
<1>1. p \in Threads /\ c \in Threads /\ p # c /\ Threads = {p, c}
  BY DEF Threads
<1>2. ASSUME NEW t \in Threads, Mutex(t) PROVE SignalComing(p, c)'
  <2>1. CASE Lock(t)
    BY <1>1, <2>1 DEF Lock, Goto, SignalComing, IInv, TypeOK, ring
  <2>2. CASE Wait(t)
    BY <1>1, <2>2 DEF Wait, MustWait, Goto, SignalComing, IInv, TypeOK, ring
  <2>3. CASE TimeOut(t)
    BY <1>1, <2>3 DEF TimeOut, WakeTo, Goto, SignalComing, IInv, TypeOK, ring
  <2>4. CASE Relock(t)
    <3>1. \E l \in {"idle", "test"} : pc' = [pc EXCEPT ![t] = l]
      BY <2>4 DEF Relock, Counted, Goto
    <3>2. UNCHANGED <<num_used, num_avail>> /\ pc[t] = "relock"
      BY <2>4 DEF Relock, Counted, ring
    <3> QED  BY <1>1, <3>1, <3>2 DEF SignalComing, IInv, TypeOK
  <2> QED  BY <1>2, <2>1, <2>2, <2>3, <2>4 DEF Mutex
<1>3. CASE Enqueue(p)
  <2>1. CASE EnqueueStore(p)
    BY <1>1, <2>1 DEF EnqueueStore, Goto, SignalComing, IInv, TypeOK
  <2>2. CASE EnqueueCount(p)
    BY <1>1, <2>2 DEF EnqueueCount, CountOne, Goto, SignalComing, IInv, TypeOK
  <2>3. CASE EnqueueSignal(p)
    <3>1. pc'[p] = "idle" /\ pc'[c] # "wait"
      BY <1>1, <2>3 DEF EnqueueSignal, CondSignal, IInv, TypeOK
    <3> QED  BY <3>1 DEF SignalComing
  <2> QED  BY <1>3, <2>1, <2>2, <2>3 DEF Enqueue
<1>4. ASSUME NEW b \in Item, EnqueueCall(p, b) PROVE SignalComing(p, c)'
  BY <1>1, <1>4 DEF EnqueueCall, Goto, SignalComing, IInv, TypeOK, ring
<1>5. CASE Dequeue(c)
  <2>1. CASE DequeueTake(c)
    BY <1>1, <2>1 DEF DequeueTake, TakeFrom, Goto, SignalComing, IInv, TypeOK
  <2>2. CASE DequeueCount(c)
    BY <1>1, <2>2 DEF DequeueCount, Goto, SignalComing, IInv, TypeOK
  <2>3. CASE DequeueSignal(c)
    <3>1. pc'[c] = "idle" /\ pc'[p] # "wait"
      BY <1>1, <2>3 DEF DequeueSignal, CondSignal, IInv, TypeOK
    <3> QED  BY <3>1 DEF SignalComing
  <2> QED  BY <1>5, <2>1, <2>2, <2>3 DEF Dequeue
<1>6. CASE DequeueCall(c)
  BY <1>1, <1>6 DEF DequeueCall, Goto, SignalComing, IInv, TypeOK, ring
<1>7. CASE Cleanup
  <2>1. CASE CleanupRaise
    BY <2>1 DEF CleanupRaise, SignalComing, ring
  <2>2. CASE CleanupSignalAvail \/ CleanupSignalUsed
    <3>1. PICK W : W \subseteq Threads /\ CondSignal(W, pc)
      BY <2>2 DEF CleanupSignalAvail, CleanupSignalUsed, Threads
    <3>2. \A t \in Threads : pc'[t] # pc[t] => pc[t] = "wait" /\ pc'[t] = "relock"
      BY <3>1, SignalEffect DEF IInv, TypeOK
    <3>3. UNCHANGED <<num_used, num_avail>>
      BY <2>2 DEF CleanupSignalAvail, CleanupSignalUsed, ring
    <3> QED  BY <1>1, <3>2, <3>3 DEF SignalComing
  <2> QED  BY <1>7, <2>1, <2>2 DEF Cleanup
<1>8. CASE UNCHANGED vars
  BY <1>8 DEF vars, ring, SignalComing
<1> QED  BY <1>2, <1>3, <1>4, <1>5, <1>6, <1>7, <1>8 DEF Next

\* Between recpt1's main thread and its reader thread no signal gets lost.
THEOREM WakeUpSafety ==
  ASSUME NEW p, NEW c, Producers = {p}, Consumers = {c}
  PROVE  Spec => []NoLostWakeUp
<1>1. Init => SignalComing(p, c)
  BY QueueAssumption DEF Init, SignalComing, Threads
<1>2. Spec => []IInv  BY InitInv, StepInv, PTL DEF Spec
<1>3. IInv /\ SignalComing(p, c) /\ [Next]_vars => SignalComing(p, c)'
  BY SignalComingStep
<1>4. SignalComing(p, c) => NoLostWakeUp
  BY DEF SignalComing, NoLostWakeUp
<1> QED  BY <1>1, <1>2, <1>3, <1>4, PTL DEF Spec
=============================================================================
