----------------------------- MODULE MpmcQueue -----------------------------
(* queue/mpmc.rs: the bounded queue with a sequence number per cell, used  *)
(* by any number of producers and consumers.  One action per atomic access *)
(* or cell access.  A relaxed load of a stale counter is the same load     *)
(* done earlier, and the window between each load and its use is explicit. *)
EXTENDS Integers, Sequences, FiniteSets

CONSTANTS N,          \* capacity
          Producers, Consumers,  \* the threads calling try_push and try_pop
          Values, NoValue,
          MaxPush     \* bound: successful pushes in one behaviour

(* the assertion of MpmcQueue::new *)
ASSUME MpmcAssumption == /\ N \in Nat \ {0} /\ \E k \in 0 .. N : N = 2 ^ k
                         /\ MaxPush \in Nat
                         /\ NoValue \notin Values
                         /\ Producers \cap Consumers = {}

Threads == Producers \cup Consumers

VARIABLES enqueue_pos, dequeue_pos,
          sequence,   \* cell -> its sequence number
          buffer,     \* cell -> its value, NoValue when it holds none
          pc, pos,    \* each thread's program point and local position
          value,      \* each producer's argument
          got         \* what each consumer's latest successful try_pop read

cells == <<sequence, buffer>>
vars  == <<enqueue_pos, dequeue_pos, cells, pc, pos, value, got>>

Slot(p) == p % N

Init == /\ enqueue_pos = 0 /\ dequeue_pos = 0
        /\ sequence = [i \in 0 .. N - 1 |-> i]
        /\ buffer = [i \in 0 .. N - 1 |-> NoValue]
        /\ pc = [t \in Threads |-> "idle"]
        /\ pos = [t \in Threads |-> 0]
        /\ value = [t \in Producers |-> NoValue]
        /\ got = [t \in Consumers |-> NoValue]

(* The three outcomes of comparing the cell's sequence with the one the    *)
(* thread wants: "cas" on it, reload a position that moved, or give up.    *)
Compare(t, wanted) ==
  LET seq == sequence[Slot(pos[t])] IN
    pc' = [pc EXCEPT ![t] = IF seq = wanted THEN "cas"
                            ELSE IF seq < wanted THEN "idle" ELSE "reload"]

(***************************************************************************)
(* try_push                                                                *)
(***************************************************************************)
PushStart(t, v) == /\ pc[t] = "idle" /\ enqueue_pos < MaxPush
                   /\ value' = [value EXCEPT ![t] = v]
                   /\ pos' = [pos EXCEPT ![t] = enqueue_pos]
                   /\ pc' = [pc EXCEPT ![t] = "loadSeq"]
                   /\ UNCHANGED <<enqueue_pos, dequeue_pos, cells, got>>

PushLoadSeq(t) == /\ pc[t] = "loadSeq"
                  /\ Compare(t, pos[t])
                  /\ UNCHANGED <<enqueue_pos, dequeue_pos, cells, pos, value, got>>

PushReload(t) == /\ pc[t] = "reload"
                 /\ pos' = [pos EXCEPT ![t] = enqueue_pos]
                 /\ pc' = [pc EXCEPT ![t] = "loadSeq"]
                 /\ UNCHANGED <<enqueue_pos, dequeue_pos, cells, value, got>>

PushCas(t) == /\ pc[t] = "cas" /\ enqueue_pos = pos[t]
              /\ enqueue_pos' = pos[t] + 1
              /\ pc' = [pc EXCEPT ![t] = "write"]
              /\ UNCHANGED <<dequeue_pos, cells, pos, value, got>>

(* compare_exchange_weak fails when another producer moved enqueue_pos,    *)
(* and may fail for no reason.                                             *)
PushCasFail(t) == /\ pc[t] = "cas"
                  /\ pos' = [pos EXCEPT ![t] = enqueue_pos]
                  /\ pc' = [pc EXCEPT ![t] = "loadSeq"]
                  /\ UNCHANGED <<enqueue_pos, dequeue_pos, cells, value, got>>

PushWrite(t) == /\ pc[t] = "write"
                /\ buffer' = [buffer EXCEPT ![Slot(pos[t])] = value[t]]
                /\ pc' = [pc EXCEPT ![t] = "publish"]
                /\ UNCHANGED <<enqueue_pos, dequeue_pos, sequence, pos, value, got>>

PushPublish(t) == /\ pc[t] = "publish"
                  /\ sequence' = [sequence EXCEPT ![Slot(pos[t])] = pos[t] + 1]
                  /\ pc' = [pc EXCEPT ![t] = "idle"]
                  /\ UNCHANGED <<enqueue_pos, dequeue_pos, buffer, pos, value, got>>

(***************************************************************************)
(* try_pop                                                                 *)
(***************************************************************************)
PopStart(t) == /\ pc[t] = "idle"
               /\ pos' = [pos EXCEPT ![t] = dequeue_pos]
               /\ pc' = [pc EXCEPT ![t] = "loadSeq"]
               /\ UNCHANGED <<enqueue_pos, dequeue_pos, cells, value, got>>

PopLoadSeq(t) == /\ pc[t] = "loadSeq"
                 /\ Compare(t, pos[t] + 1)
                 /\ UNCHANGED <<enqueue_pos, dequeue_pos, cells, pos, value, got>>

PopReload(t) == /\ pc[t] = "reload"
                /\ pos' = [pos EXCEPT ![t] = dequeue_pos]
                /\ pc' = [pc EXCEPT ![t] = "loadSeq"]
                /\ UNCHANGED <<enqueue_pos, dequeue_pos, cells, value, got>>

PopStore(t) == /\ pc[t] = "cas"                                  \* mutant
               /\ dequeue_pos' = pos[t] + 1
               /\ pc' = [pc EXCEPT ![t] = "read"]
               /\ UNCHANGED <<enqueue_pos, cells, pos, value, got>>

PopCas(t) == /\ pc[t] = "cas" /\ dequeue_pos = pos[t]
             /\ dequeue_pos' = pos[t] + 1
             /\ pc' = [pc EXCEPT ![t] = "read"]
             /\ UNCHANGED <<enqueue_pos, cells, pos, value, got>>

PopCasFail(t) == /\ pc[t] = "cas"
                 /\ pos' = [pos EXCEPT ![t] = dequeue_pos]
                 /\ pc' = [pc EXCEPT ![t] = "loadSeq"]
                 /\ UNCHANGED <<enqueue_pos, dequeue_pos, cells, value, got>>

PopRead(t) == /\ pc[t] = "read"
              /\ got' = [got EXCEPT ![t] = buffer[Slot(pos[t])]]
              /\ buffer' = [buffer EXCEPT ![Slot(pos[t])] = NoValue]
              /\ pc' = [pc EXCEPT ![t] = "release"]
              /\ UNCHANGED <<enqueue_pos, dequeue_pos, sequence, pos, value>>

ReleaseWith(t, seq) == /\ pc[t] = "release"
                       /\ sequence' = [sequence EXCEPT ![Slot(pos[t])] = seq]
                       /\ pc' = [pc EXCEPT ![t] = "idle"]
                       /\ UNCHANGED <<enqueue_pos, dequeue_pos, buffer, pos, value, got>>

ReleaseShort(t) == ReleaseWith(t, pos[t] + (N - 1))              \* mutant

PopRelease(t) == ReleaseWith(t, pos[t] + (N - 1) + 1)

(* Drop runs when no thread is in a call any more; it pops what is left.   *)
Drop == /\ \A t \in Threads : pc[t] = "idle"
        /\ dequeue_pos' = enqueue_pos
        /\ sequence' = [i \in 0 .. N - 1 |->
             IF buffer[i] = NoValue THEN sequence[i] ELSE sequence[i] + N - 1]
        /\ buffer' = [i \in 0 .. N - 1 |-> NoValue]
        /\ pc' = [t \in Threads |-> "dropped"]
        /\ UNCHANGED <<enqueue_pos, pos, value, got>>

Push(t) == \/ \E v \in Values : PushStart(t, v)
           \/ PushLoadSeq(t) \/ PushReload(t) \/ PushCas(t) \/ PushCasFail(t)
           \/ PushWrite(t) \/ PushPublish(t)

Pop(t) == \/ PopStart(t) \/ PopLoadSeq(t) \/ PopReload(t) \/ PopCas(t)
          \/ PopCasFail(t) \/ PopRead(t) \/ PopRelease(t)

Next == (\E t \in Producers : Push(t)) \/ (\E t \in Consumers : Pop(t)) \/ Drop

Spec == Init /\ [][Next]_vars

(***************************************************************************)
(* Properties                                                              *)
(***************************************************************************)
(* Every variable has its type.                                            *)
TypeOK == /\ enqueue_pos \in Nat /\ dequeue_pos \in Nat
          /\ sequence \in [0 .. N - 1 -> Nat]
          /\ buffer \in [0 .. N - 1 -> Values \cup {NoValue}]
          /\ pc \in [Threads -> {"idle", "loadSeq", "reload", "cas", "write",
                                 "publish", "read", "release", "dropped"}]
          /\ pos \in [Threads -> Nat]
          /\ value \in [Producers -> Values \cup {NoValue}]
          /\ got \in [Consumers -> Values \cup {NoValue}]

(* Between its compare-exchange and its sequence store a thread owns its   *)
(* cell.                                                                   *)
Owns(t) == pc[t] \in {"write", "publish", "read", "release"}

(* A rejected push found the queue full, or the cell it needs still being  *)
(* emptied by a consumer; a pop that returns None found it empty, or the   *)
(* cell still being filled by a producer.  Nothing else blocks either.     *)
RejectionsJustified ==
  [][/\ \A t \in Producers : pc[t] = "loadSeq" /\ pc'[t] = "idle" =>
          \/ enqueue_pos - dequeue_pos >= N
          \/ \E c \in Consumers : Owns(c) /\ Slot(pos[c]) = Slot(pos[t])
     /\ \A t \in Consumers : pc[t] = "loadSeq" /\ pc'[t] = "idle" =>
          \/ enqueue_pos = dequeue_pos
          \/ \E p \in Producers : Owns(p) /\ pos[p] = pos[t]]_vars

(* The queue implements the bounded FIFO: an item is in it from the        *)
(* producer's compare-exchange, when its value may still be in the         *)
(* producer's hands, to the consumer's.                                    *)
Item(p) == IF \E t \in Producers : pc[t] = "write" /\ pos[t] = p
           THEN value[CHOOSE t \in Producers : pc[t] = "write" /\ pos[t] = p]
           ELSE buffer[Slot(p)]
Contents == [i \in 1 .. enqueue_pos - dequeue_pos |-> Item(dequeue_pos + i - 1)]
Popped == [t \in Consumers |-> IF pc[t] = "read" THEN buffer[Slot(pos[t])] ELSE got[t]]
Fifo == INSTANCE BoundedFifo WITH items <- Contents, got <- Popped
ImplementsFifo == Fifo!Spec
=============================================================================
