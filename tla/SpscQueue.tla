----------------------------- MODULE SpscQueue -----------------------------
(* queue/spsc.rs: the lock-free single-producer single-consumer ring.  One *)
(* action per atomic access; the producer and the consumer are the two     *)
(* halves of SpscQueue::split.  Acquire/Release pairs make the interleaved *)
(* accesses the only outcomes; a value loaded early is used late.          *)
EXTENDS Integers, Sequences

CONSTANTS N,        \* capacity
          Values,   \* payloads
          NoValue,  \* an uninitialised or moved-out cell
          MaxPush   \* bound: successful pushes in one behaviour

ASSUME SpscAssumption == /\ N \in Nat \ {0}
                         /\ MaxPush \in Nat
                         /\ NoValue \notin Values

VARIABLES head, tail,   \* the two AtomicUsize
          buffer,       \* cell -> value, NoValue when it holds none
          pcP, pTail, pHead, pVal,  \* the producer's program point and locals
          pFull,        \* its latest is_full answer; TRUE when out of date
          pcC, cHead, cTail, cVal,  \* the consumer's
          cEmpty,       \* its latest is_empty answer; TRUE when out of date
          got           \* what its latest successful try_pop returned

shared == <<head, tail, buffer>>
pvars  == <<pcP, pTail, pHead, pVal, pFull>>
cvars  == <<pcC, cHead, cTail, cVal, cEmpty, got>>
vars   == <<shared, pvars, cvars>>

Slot(i) == i % N

Init == /\ head = 0 /\ tail = 0
        /\ buffer = [i \in 0 .. N - 1 |-> NoValue]
        /\ pcP = "idle" /\ pTail = 0 /\ pHead = 0 /\ pVal = NoValue
        /\ pcC = "idle" /\ cHead = 0 /\ cTail = 0 /\ cVal = NoValue
        /\ pFull = TRUE /\ cEmpty = TRUE /\ got = NoValue

(***************************************************************************)
(* try_push and is_full, called through the SpscProducer                   *)
(***************************************************************************)
FullOffByOne(t, h) == t - h > N                                  \* mutant

Full(t, h) == t - h >= N

PushLoadTail(v) == /\ pcP = "idle" /\ tail < MaxPush
                   /\ pTail' = tail /\ pVal' = v /\ pcP' = "loadHead"
                   /\ UNCHANGED <<shared, pHead, pFull, cvars>>

PushLoadHead == /\ pcP = "loadHead"
                /\ pHead' = head
                /\ pcP' = IF Full(pTail, head) THEN "idle" ELSE "write"
                /\ pFull' = TRUE
                /\ UNCHANGED <<shared, pTail, pVal, cvars>>

PushWrite == /\ pcP = "write"
             /\ buffer' = [buffer EXCEPT ![Slot(pTail)] = pVal]
             /\ pcP' = "publish"
             /\ UNCHANGED <<head, tail, pTail, pHead, pVal, pFull, cvars>>

PushPublish == /\ pcP = "publish"
               /\ tail' = pTail + 1
               /\ pcP' = "idle"
               /\ UNCHANGED <<head, buffer, pTail, pHead, pVal, pFull, cvars>>

IsFullLoadHead == /\ pcP = "idle"
                  /\ pHead' = head /\ pcP' = "isFull"
                  /\ UNCHANGED <<shared, pTail, pVal, pFull, cvars>>

IsFullStaleTail == /\ pcP = "isFull"                             \* mutant
                   /\ pFull' = Full(pTail, pHead) /\ pcP' = "idle"
                   /\ UNCHANGED <<shared, pTail, pHead, pVal, cvars>>

IsFullLoadTail == /\ pcP = "isFull"
                  /\ pFull' = Full(tail, pHead) /\ pcP' = "idle"
                  /\ UNCHANGED <<shared, pTail, pHead, pVal, cvars>>

(***************************************************************************)
(* try_pop and is_empty, called through the SpscConsumer                   *)
(***************************************************************************)
EmptyOffByOne(h, t) == h > t                                     \* mutant
EmptyLeavesLast(h, t) == h + 1 >= t                              \* mutant

Empty(h, t) == h >= t

PopLoadHead == /\ pcC = "idle"
               /\ cHead' = head /\ pcC' = "loadTail"
               /\ UNCHANGED <<shared, pvars, cTail, cVal, cEmpty, got>>

PopLoadTail == /\ pcC = "loadTail"
               /\ cTail' = tail
               /\ pcC' = IF Empty(cHead, tail) THEN "idle" ELSE "read"
               /\ cEmpty' = TRUE
               /\ UNCHANGED <<shared, pvars, cHead, cVal, got>>

(* assume_init_read moves the value out of the cell *)
PopRead == /\ pcC = "read"
           /\ cVal' = buffer[Slot(cHead)]
           /\ buffer' = [buffer EXCEPT ![Slot(cHead)] = NoValue]
           /\ pcC' = "release"
           /\ UNCHANGED <<head, tail, pvars, cHead, cTail, cEmpty, got>>

ReleaseAll == /\ pcC = "release"                                 \* mutant
              /\ head' = cTail /\ got' = cVal /\ pcC' = "idle"
              /\ UNCHANGED <<tail, buffer, pvars, cHead, cTail, cVal, cEmpty>>

PopRelease == /\ pcC = "release"
              /\ head' = cHead + 1
              /\ got' = cVal
              /\ pcC' = "idle"
              /\ UNCHANGED <<tail, buffer, pvars, cHead, cTail, cVal, cEmpty>>

IsEmptyLoadHead == /\ pcC = "idle"
                   /\ cHead' = head /\ pcC' = "isEmpty"
                   /\ UNCHANGED <<shared, pvars, cTail, cVal, cEmpty, got>>

IsEmptyLoadTail == /\ pcC = "isEmpty"
                   /\ cTail' = tail /\ cEmpty' = Empty(cHead, tail)
                   /\ pcC' = "idle"
                   /\ UNCHANGED <<shared, pvars, cHead, cVal, got>>

(***************************************************************************)
(* Each half may be dropped between calls; the Arc drops the queue with    *)
(* the second one, and Drop pops whatever is left.                         *)
(***************************************************************************)
DropProducer == /\ pcP = "idle" /\ pcP' = "dropped"
                /\ UNCHANGED <<shared, pTail, pHead, pVal, pFull, cvars>>

DropConsumer == /\ pcC = "idle" /\ pcC' = "dropped"
                /\ UNCHANGED <<shared, pvars, cHead, cTail, cVal, cEmpty, got>>

DropQueue == /\ pcP = "dropped" /\ pcC = "dropped" /\ head < tail
             /\ head' = tail
             /\ buffer' = [i \in 0 .. N - 1 |-> NoValue]
             /\ UNCHANGED <<tail, pvars, cvars>>

Producer == \/ \E v \in Values : PushLoadTail(v)
            \/ PushLoadHead \/ PushWrite \/ PushPublish
            \/ IsFullLoadHead \/ IsFullLoadTail

Consumer == \/ PopLoadHead \/ PopLoadTail \/ PopRead \/ PopRelease
            \/ IsEmptyLoadHead \/ IsEmptyLoadTail

Next == Producer \/ Consumer \/ DropProducer \/ DropConsumer \/ DropQueue

Spec == Init /\ [][Next]_vars

Pops == PopLoadTail \/ PopRead \/ PopRelease \/ IsEmptyLoadTail

(* try_push and try_pop contain no loop, so a thread that is scheduled     *)
(* leaves the call it is in (WF); SF is a consumer that keeps polling, as  *)
(* the consumer loop of concurrency_tests.rs does.                         *)
LiveSpec == Spec /\ WF_vars(Pops) /\ SF_vars(PopLoadHead)

(***************************************************************************)
(* Properties                                                              *)
(***************************************************************************)
(* Every variable has its type.                                            *)
TypeOK == /\ head \in 0 .. MaxPush /\ tail \in 0 .. MaxPush
          /\ buffer \in [0 .. N - 1 -> Values \cup {NoValue}]
          /\ pcP \in {"idle", "loadHead", "write", "publish", "isFull", "dropped"}
          /\ pTail \in 0 .. MaxPush /\ pHead \in 0 .. MaxPush
          /\ pVal \in Values \cup {NoValue} /\ pFull \in BOOLEAN
          /\ pcC \in {"idle", "loadTail", "read", "release", "isEmpty", "dropped"}
          /\ cHead \in 0 .. MaxPush /\ cTail \in 0 .. MaxPush
          /\ cVal \in Values \cup {NoValue} /\ cEmpty \in BOOLEAN
          /\ got \in Values \cup {NoValue}

(* The unsafe accesses of try_push and try_pop to the cells never meet:    *)
(* when the producer is about to write and the consumer about to read, it  *)
(* is in different cells, although each decided on a stale counter.        *)
NoDataRace == ~ /\ pcP = "write" /\ pcC = "read"
                /\ Slot(pTail) = Slot(cHead)

(* try_push never writes over a value nobody popped (it would leak it, or  *)
(* lose it), and try_pop never reads an uninitialised or moved-out cell.   *)
CellsUsedOnce == /\ pcP = "write" => buffer[Slot(pTail)] = NoValue
                 /\ pcC = "read"  => buffer[Slot(cHead)] # NoValue

(* is_full answering "no" is a promise to the only producer: its next      *)
(* try_push is not rejected, however the consumer moves in between;        *)
(* likewise an is_empty "no" and the consumer's next try_pop.              *)
AnswersHold == /\ ~pFull => ~Full(tail, head)
               /\ ~cEmpty /\ pcC # "dropped" => ~Empty(head, tail)

(* An accepted item is popped as long as the consumer keeps polling,       *)
(* whatever the producer does meanwhile.                                   *)
EveryItemPopped == \A k \in 1 .. MaxPush : tail >= k ~> head >= k \/ pcC = "dropped"

(* The ring implements the bounded FIFO: an item is in the queue from the  *)
(* store of tail to the store of head.                                     *)
Contents == [i \in 1 .. tail - head |->
               IF i = 1 /\ pcC = "release" THEN cVal
                                           ELSE buffer[Slot(head + i - 1)]]
Fifo == INSTANCE BoundedFifo WITH Consumers <- {"consumer"}, items <- Contents,
                                  got <- [c \in {"consumer"} |-> got]
ImplementsFifo == Fifo!Spec
=============================================================================
