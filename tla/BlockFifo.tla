---------------------------- MODULE BlockFifo ----------------------------
(***************************************************************************)
(* What recpt1's queue promises the threads that call it: blocks come out   *)
(* in the order their calls took effect, each at most once, never more than *)
(* Size of them inside, and a call gives up only once the exit flag is up.  *)
(*                                                                         *)
(* call[p] is the block producer p is trying to hand over (NoCall: none),   *)
(* got[c] the result of the last dequeue of c.  BlockQueue implements this  *)
(* with a mutex, two condition variables and a ring of pointers.            *)
(***************************************************************************)
EXTENDS Naturals, Sequences

CONSTANTS Producers, Consumers,  \* threads that enqueue, threads that dequeue
          Item,                  \* what can be queued; Null is one of them
          Null,                  \* the NULL pointer: end mark, and "nothing"
          NoCall,                \* not an element
          Size                   \* capacity

VARIABLES fifo,     \* the elements, oldest first
          f_exit,   \* "everybody stop"
          call, got

fifoVars == <<fifo, f_exit, call, got>>

FifoInit ==
  /\ fifo = <<>>
  /\ f_exit = FALSE
  /\ call = [p \in Producers |-> NoCall]
  /\ got = [c \in Consumers |-> Null]

Call(p, b) ==
  /\ call[p] = NoCall
  /\ call' = [call EXCEPT ![p] = b]
  /\ UNCHANGED <<fifo, f_exit, got>>

Put(p) ==
  /\ call[p] # NoCall
  /\ Len(fifo) < Size
  /\ fifo' = Append(fifo, call[p])
  /\ call' = [call EXCEPT ![p] = NoCall]
  /\ UNCHANGED <<f_exit, got>>

Take(c) ==
  /\ fifo # <<>>
  /\ got' = [got EXCEPT ![c] = Head(fifo)]
  /\ fifo' = Tail(fifo)
  /\ UNCHANGED <<f_exit, call>>

\* A call that gives up has seen, or has itself raised, the exit flag.
GiveUpPut(p) ==
  /\ f_exit'
  /\ call' = [call EXCEPT ![p] = NoCall]
  /\ UNCHANGED <<fifo, got>>

GiveUpTake(c) ==
  /\ f_exit'
  /\ got' = [got EXCEPT ![c] = Null]
  /\ UNCHANGED <<fifo, call>>

RaiseExit ==
  /\ f_exit' = TRUE
  /\ UNCHANGED <<fifo, call, got>>

FifoNext ==
  \/ \E p \in Producers : (\E b \in Item : Call(p, b)) \/ Put(p) \/ GiveUpPut(p)
  \/ \E c \in Consumers : Take(c) \/ GiveUpTake(c)
  \/ RaiseExit

FifoSpec == FifoInit /\ [][FifoNext]_fifoVars
=============================================================================
