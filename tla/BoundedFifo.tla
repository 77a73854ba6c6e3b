---------------------------- MODULE BoundedFifo ----------------------------
(* What the queues of causm-concurrency promise their callers: a FIFO that *)
(* never holds more than N items, from which every item leaves once.       *)
(* SpscQueue, MpmcQueue and BoundedChannel are shown to implement it.      *)
EXTENDS Naturals, Sequences

CONSTANTS N,          \* capacity, the const generic N of the queues
          Values,     \* the payloads
          Consumers,  \* the threads that pop
          NoValue     \* "nothing popped yet"

VARIABLES items,      \* the queue's contents, oldest first
          got         \* what each consumer's latest successful pop returned

vars == <<items, got>>

Init == items = <<>> /\ got = [c \in Consumers |-> NoValue]

Put(v) == /\ Len(items) < N
          /\ items' = Append(items, v)
          /\ UNCHANGED got

Take(c) == /\ items # <<>>
           /\ got' = [got EXCEPT ![c] = Head(items)]
           /\ items' = Tail(items)

(* dropping the queue drops what is left in it *)
Drain == items # <<>> /\ items' = <<>> /\ UNCHANGED got

Next == (\E v \in Values : Put(v)) \/ (\E c \in Consumers : Take(c)) \/ Drain

Spec == Init /\ [][Next]_vars
=============================================================================
