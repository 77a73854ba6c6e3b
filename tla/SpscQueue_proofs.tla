-------------------------- MODULE SpscQueue_proofs --------------------------
(* Proofs about SpscQueue, for every capacity, bound and set of values.    *)
EXTENDS SpscQueue, TLAPS

(* Two positions of the ring less than N apart use the same cell only when *)
(* they are equal.                                                         *)
LEMMA SlotType == ASSUME NEW i \in Nat PROVE Slot(i) \in 0 .. N - 1
  BY SpscAssumption, SMT DEF Slot

LEMMA MulLess == ASSUME NEW n \in Nat \ {0}, NEW a \in Int, NEW b \in Int, a < b
                 PROVE  n * b - n * a >= n
<1>1. n * (b - a) = n * b - n * a
  BY SMT
<1>2. b - a >= 1
  BY SMT
<1>3. \A k \in Int : k >= 1 => n * k >= n
  BY SMT
<1> QED BY <1>1, <1>2, <1>3, SMT

LEMMA SlotInjective ==
  ASSUME NEW i \in Nat, NEW j \in Nat, i < j, j < i + N
  PROVE  Slot(i) # Slot(j)
<1> DEFINE a == i \div N
           b == j \div N
<1>1. /\ i = N * a + (i % N) /\ a \in Int
      /\ j = N * b + (j % N) /\ b \in Int
  BY SpscAssumption, SMT
<1>2. SUFFICES ASSUME i % N = j % N PROVE FALSE
  BY DEF Slot
<1> HIDE DEF a, b
<1>3. N * a \in Int /\ N * b \in Int /\ i % N \in Int
  BY <1>1, SpscAssumption, SMT
<1>4. j - i = N * b - N * a
  BY <1>1, <1>2, <1>3, SMT
<1>5. CASE a < b
  BY <1>1, <1>4, <1>5, MulLess, SpscAssumption, SMT
<1>6. CASE b < a
  <2>1. N * a - N * b >= N
    BY <1>1, <1>6, MulLess, SpscAssumption
  <2> QED BY <2>1, <1>3, <1>4, SpscAssumption, SMT
<1>7. CASE a = b
  BY <1>3, <1>4, <1>7, SMT
<1> QED BY <1>1, <1>5, <1>6, <1>7, SMT

LEMMA SlotWrap == ASSUME NEW i \in Nat PROVE Slot(i + N) = Slot(i)
<1> DEFINE a == i \div N
           b == (i + N) \div N
<1>1. /\ i = N * a + (i % N) /\ a \in Int /\ i % N \in 0 .. N - 1
      /\ i + N = N * b + ((i + N) % N) /\ b \in Int /\ (i + N) % N \in 0 .. N - 1
  BY SpscAssumption, SMT
<1> HIDE DEF a, b
<1>2. N * a \in Int /\ N * b \in Int /\ N * (a + 1) = N * a + N /\ a + 1 \in Int
  BY <1>1, SpscAssumption, SMT
<1>3. CASE b < a + 1
  <2>1. N * (a + 1) - N * b >= N
    BY <1>1, <1>2, <1>3, MulLess, SpscAssumption
  <2> QED BY <2>1, <1>1, <1>2, SpscAssumption, SMT
<1>4. CASE a + 1 < b
  <2>1. N * b - N * (a + 1) >= N
    BY <1>1, <1>2, <1>4, MulLess, SpscAssumption
  <2> QED BY <2>1, <1>1, <1>2, SpscAssumption, SMT
<1>5. CASE b = a + 1
  <2>1. N * b = N * a + N
    BY <1>2, <1>5
  <2>2. (i + N) % N = i % N
    BY <2>1, <1>1, <1>2, SpscAssumption, SMT
  <2> QED BY <2>2 DEF Slot
<1> QED BY <1>1, <1>3, <1>4, <1>5, SMT

(***************************************************************************)
(* The inductive invariant                                                 *)
(***************************************************************************)
(* The counters never drift more than N apart, and each side's locals are  *)
(* as fresh as its use of them needs: its own counter is exact, the other  *)
(* side's only errs towards "full" or "empty".                             *)
CounterInv ==
  /\ head <= tail /\ tail <= head + N
  /\ pcP \in {"loadHead", "write", "publish"} => pTail = tail /\ tail < MaxPush
  /\ pcP \in {"loadHead", "write", "publish"} => pVal \in Values
  /\ pcP \in {"write", "publish"} => tail < head + N /\ pFull
  /\ pcP = "isFull" => pHead <= head
  /\ ~pFull => tail < head + N
  /\ pcC \in {"loadTail", "read", "release", "isEmpty"} => cHead = head
  /\ pcC \in {"read", "release"} => head < tail /\ cEmpty
  /\ ~cEmpty /\ pcC # "dropped" => head < tail

(* The cells of the positions head .. tail - 1 hold a value, the others    *)
(* none, but for the one each side is in the middle of using.              *)
CellInv ==
  /\ \A i \in Nat : head <= i /\ i < tail /\ ~(i = head /\ pcC = "release")
        => buffer[Slot(i)] # NoValue
  /\ \A i \in Nat : tail <= i /\ i < head + N /\ ~(i = tail /\ pcP = "publish")
        => buffer[Slot(i)] = NoValue
  /\ pcP = "publish" => buffer[Slot(tail)] = pVal
  /\ pcC = "release" => buffer[Slot(head)] = NoValue /\ cVal # NoValue

IInv == TypeOK /\ CounterInv /\ CellInv

LEMMA InitIInv == Init => IInv
<1> SUFFICES ASSUME Init PROVE IInv
  OBVIOUS
<1>1. TypeOK
  BY SpscAssumption, SMT DEF Init, TypeOK
<1>2. CounterInv
  BY SpscAssumption, SMT DEF Init, CounterInv
<1>3. CellInv
  BY SlotType, SpscAssumption, SMT DEF Init, CellInv
<1> QED BY <1>1, <1>2, <1>3 DEF IInv

LEMMA NextIInv == IInv /\ [Next]_vars => IInv'
<1> SUFFICES ASSUME IInv, [Next]_vars PROVE IInv'
  OBVIOUS
<1> USE SpscAssumption DEF IInv
<1>1. ASSUME NEW v \in Values, PushLoadTail(v) PROVE IInv'
  <2>1. TypeOK'
    BY <1>1, SMT DEF PushLoadTail, TypeOK, CounterInv, shared, pvars, cvars
  <2>2. CounterInv'
    BY <1>1, SMT DEF PushLoadTail, TypeOK, CounterInv, shared, pvars, cvars
  <2>3. CellInv'
    BY <1>1, SMT DEF PushLoadTail, TypeOK, CounterInv, CellInv, shared, pvars, cvars
  <2> QED BY <2>1, <2>2, <2>3
<1>2. CASE PushLoadHead
  <2>1. TypeOK'
    BY <1>2, SMT DEF PushLoadHead, Full, TypeOK, CounterInv, shared, pvars, cvars
  <2>2. CounterInv'
    BY <1>2, SMT DEF PushLoadHead, Full, TypeOK, CounterInv, shared, pvars, cvars
  <2>3. CellInv'
    BY <1>2, SMT DEF PushLoadHead, Full, TypeOK, CounterInv, CellInv, shared, pvars, cvars
  <2> QED BY <2>1, <2>2, <2>3
<1>3. CASE IsFullLoadHead
  <2>1. TypeOK'
    BY <1>3, SMT DEF IsFullLoadHead, Full, TypeOK, CounterInv, shared, pvars, cvars
  <2>2. CounterInv'
    BY <1>3, SMT DEF IsFullLoadHead, Full, TypeOK, CounterInv, shared, pvars, cvars
  <2>3. CellInv'
    BY <1>3, SMT DEF IsFullLoadHead, Full, TypeOK, CounterInv, CellInv, shared, pvars, cvars
  <2> QED BY <2>1, <2>2, <2>3
<1>4. CASE IsFullLoadTail
  <2>1. TypeOK'
    BY <1>4, SMT DEF IsFullLoadTail, Full, TypeOK, CounterInv, shared, pvars, cvars
  <2>2. CounterInv'
    BY <1>4, SMT DEF IsFullLoadTail, Full, TypeOK, CounterInv, shared, pvars, cvars
  <2>3. CellInv'
    BY <1>4, SMT DEF IsFullLoadTail, Full, TypeOK, CounterInv, CellInv, shared, pvars, cvars
  <2> QED BY <2>1, <2>2, <2>3
<1>5. CASE PopLoadHead
  <2>1. TypeOK'
    BY <1>5, SMT DEF PopLoadHead, TypeOK, CounterInv, shared, pvars, cvars
  <2>2. CounterInv'
    BY <1>5, SMT DEF PopLoadHead, TypeOK, CounterInv, shared, pvars, cvars
  <2>3. CellInv'
    BY <1>5, SMT DEF PopLoadHead, TypeOK, CounterInv, CellInv, shared, pvars, cvars
  <2> QED BY <2>1, <2>2, <2>3
<1>6. CASE PopLoadTail
  <2>1. TypeOK'
    BY <1>6, SMT DEF PopLoadTail, Empty, TypeOK, CounterInv, shared, pvars, cvars
  <2>2. CounterInv'
    BY <1>6, SMT DEF PopLoadTail, Empty, TypeOK, CounterInv, shared, pvars, cvars
  <2>3. CellInv'
    BY <1>6, SMT DEF PopLoadTail, Empty, TypeOK, CounterInv, CellInv, shared, pvars, cvars
  <2> QED BY <2>1, <2>2, <2>3
<1>7. CASE IsEmptyLoadHead
  <2>1. TypeOK'
    BY <1>7, SMT DEF IsEmptyLoadHead, Empty, TypeOK, CounterInv, shared, pvars, cvars
  <2>2. CounterInv'
    BY <1>7, SMT DEF IsEmptyLoadHead, Empty, TypeOK, CounterInv, shared, pvars, cvars
  <2>3. CellInv'
    BY <1>7, SMT DEF IsEmptyLoadHead, Empty, TypeOK, CounterInv, CellInv, shared, pvars, cvars
  <2> QED BY <2>1, <2>2, <2>3
<1>8. CASE IsEmptyLoadTail
  <2>1. TypeOK'
    BY <1>8, SMT DEF IsEmptyLoadTail, Empty, TypeOK, CounterInv, shared, pvars, cvars
  <2>2. CounterInv'
    BY <1>8, SMT DEF IsEmptyLoadTail, Empty, TypeOK, CounterInv, shared, pvars, cvars
  <2>3. CellInv'
    BY <1>8, SMT DEF IsEmptyLoadTail, Empty, TypeOK, CounterInv, CellInv, shared, pvars, cvars
  <2> QED BY <2>1, <2>2, <2>3
<1>9. CASE DropProducer
  <2>1. TypeOK'
    BY <1>9, SMT DEF DropProducer, TypeOK, CounterInv, shared, pvars, cvars
  <2>2. CounterInv'
    BY <1>9, SMT DEF DropProducer, TypeOK, CounterInv, shared, pvars, cvars
  <2>3. CellInv'
    BY <1>9, SMT DEF DropProducer, TypeOK, CounterInv, CellInv, shared, pvars, cvars
  <2> QED BY <2>1, <2>2, <2>3
<1>10. CASE DropConsumer
  <2>1. TypeOK'
    BY <1>10, SMT DEF DropConsumer, TypeOK, CounterInv, shared, pvars, cvars
  <2>2. CounterInv'
    BY <1>10, SMT DEF DropConsumer, TypeOK, CounterInv, shared, pvars, cvars
  <2>3. CellInv'
    BY <1>10, SMT DEF DropConsumer, TypeOK, CounterInv, CellInv, shared, pvars, cvars
  <2> QED BY <2>1, <2>2, <2>3
<1>11. CASE PushWrite
  <2>1. TypeOK'
    BY <1>11, SlotType, SMT DEF PushWrite, TypeOK, CounterInv, shared, pvars, cvars
  <2>2. CounterInv'
    BY <1>11, SMT DEF PushWrite, TypeOK, CounterInv, shared, pvars, cvars
  <2>3. CellInv'
    <3>1. Slot(tail) \in 0 .. N - 1 /\ buffer' = [buffer EXCEPT ![Slot(tail)] = pVal]
      BY <1>11, SlotType, SMT DEF PushWrite, TypeOK, CounterInv
    <3>2. \A i \in Nat : head <= i /\ i < head + N /\ i # tail => Slot(i) # Slot(tail)
      BY <1>11, SlotInjective, SMT DEF PushWrite, TypeOK, CounterInv
    <3>3. \A i \in Nat : Slot(i) \in 0 .. N - 1
      BY SlotType
    <3>4. \A i \in Nat : head <= i /\ i < head + N /\ i # tail
             => buffer'[Slot(i)] = buffer[Slot(i)]
      BY <3>1, <3>2, <3>3, SMT DEF TypeOK
    <3>5. buffer'[Slot(tail)] = pVal
      BY <3>1, SMT DEF TypeOK
    <3> QED BY <1>11, <3>4, <3>5, SMT
            DEF PushWrite, TypeOK, CounterInv, CellInv, cvars
  <2> QED BY <2>1, <2>2, <2>3
<1>12. CASE PushPublish
  <2>1. TypeOK'
    BY <1>12, SMT DEF PushPublish, TypeOK, CounterInv, shared, pvars, cvars
  <2>2. CounterInv'
    BY <1>12, SMT DEF PushPublish, TypeOK, CounterInv, shared, pvars, cvars
  <2>3. CellInv'
    BY <1>12, SMT DEF PushPublish, TypeOK, CounterInv, CellInv, cvars
  <2> QED BY <2>1, <2>2, <2>3
<1>13. CASE PopRead
  <2>1. TypeOK'
    BY <1>13, SlotType, SMT DEF PopRead, TypeOK, CounterInv, shared, pvars, cvars
  <2>2. CounterInv'
    BY <1>13, SMT DEF PopRead, TypeOK, CounterInv, shared, pvars, cvars
  <2>3. CellInv'
    <3>1. Slot(head) \in 0 .. N - 1 /\ buffer' = [buffer EXCEPT ![Slot(head)] = NoValue]
      BY <1>13, SlotType, SMT DEF PopRead, TypeOK, CounterInv
    <3>2. \A i \in Nat : head < i /\ i < head + N => Slot(i) # Slot(head)
      BY <1>13, SlotInjective, SMT DEF PopRead, TypeOK, CounterInv
    <3>3. \A i \in Nat : Slot(i) \in 0 .. N - 1
      BY SlotType
    <3>4. \A i \in Nat : head < i /\ i < head + N => buffer'[Slot(i)] = buffer[Slot(i)]
      BY <3>1, <3>2, <3>3, SMT DEF TypeOK
    <3>5. buffer'[Slot(head)] = NoValue /\ cVal' = buffer[Slot(head)]
      BY <1>13, <3>1, SMT DEF PopRead, TypeOK, CounterInv
    <3> QED BY <1>13, <3>4, <3>5, SMT
            DEF PopRead, TypeOK, CounterInv, CellInv, pvars
  <2> QED BY <2>1, <2>2, <2>3
<1>14. CASE PopRelease
  <2>1. TypeOK'
    BY <1>14, SMT DEF PopRelease, TypeOK, CounterInv, shared, pvars, cvars
  <2>2. CounterInv'
    BY <1>14, SMT DEF PopRelease, TypeOK, CounterInv, shared, pvars, cvars
  <2>3. CellInv'
    <3>1. Slot(head + N) = Slot(head)
      BY SlotWrap, SMT DEF TypeOK
    <3>2. \A i \in Nat : i < head + 1 + N => i < head + N \/ i = head + N
      BY SMT DEF TypeOK
    <3> QED BY <1>14, <3>1, <3>2, SMT
            DEF PopRelease, TypeOK, CounterInv, CellInv, pvars
  <2> QED BY <2>1, <2>2, <2>3
<1>15. CASE DropQueue
  <2>1. TypeOK'
    BY <1>15, SMT DEF DropQueue, TypeOK, CounterInv, shared, pvars, cvars
  <2>2. CounterInv'
    BY <1>15, SMT DEF DropQueue, TypeOK, CounterInv, shared, pvars, cvars
  <2>3. CellInv'
    BY <1>15, SlotType, SMT DEF DropQueue, TypeOK, CounterInv, CellInv, pvars, cvars
  <2> QED BY <2>1, <2>2, <2>3
<1>16. CASE UNCHANGED vars
  BY <1>16, SMT DEF vars, shared, pvars, cvars, TypeOK, CounterInv, CellInv
<1> QED BY <1>1, <1>2, <1>3, <1>4, <1>5, <1>6, <1>7, <1>8, <1>9, <1>10, <1>11, <1>12, <1>13, <1>14, <1>15, <1>16
        , Zenon DEF Next, Producer, Consumer

(* The invariant holds throughout every execution.                         *)
THEOREM Invariance == Spec => []IInv
<1>1. Init => IInv
  BY InitIInv
<1>2. IInv /\ [Next]_vars => IInv'
  BY NextIInv
<1> QED BY <1>1, <1>2, PTL DEF Spec

(* The counters, the cached answers and the cells stay of their types, for  *)
(* every capacity and however the two halves interleave.                   *)
THEOREM TypeCorrect == Spec => []TypeOK
<1>1. IInv => TypeOK
  BY DEF IInv
<1> QED BY <1>1, Invariance, PTL

(* The ring never reads or writes a cell the other side is using: the two  *)
(* unsafe blocks of try_push and try_pop are race free.                    *)
THEOREM RaceFreedom == Spec => []NoDataRace
<1>1. IInv => NoDataRace
  BY SlotInjective, SMT DEF IInv, TypeOK, CounterInv, NoDataRace
<1> QED BY <1>1, Invariance, PTL

(* No value is overwritten before it is popped, none is read twice or      *)
(* before it is written.                                                   *)
THEOREM CellSafety == Spec => []CellsUsedOnce
<1>1. IInv => CellsUsedOnce
  BY SpscAssumption, SMT DEF IInv, TypeOK, CounterInv, CellInv, CellsUsedOnce
<1> QED BY <1>1, Invariance, PTL

(* A "not full" or "not empty" answer is still true when its caller acts.  *)
THEOREM AnswerSafety == Spec => []AnswersHold
<1>1. IInv => AnswersHold
  BY SpscAssumption, SMT DEF IInv, TypeOK, CounterInv, AnswersHold, Full, Empty
<1> QED BY <1>1, Invariance, PTL

(***************************************************************************)
(* Refinement                                                              *)
(***************************************************************************)
ContentsOK == /\ Contents \in Seq(Values)
              /\ Len(Contents) = tail - head
              /\ \A i \in 1 .. tail - head :
                   Contents[i] = IF i = 1 /\ pcC = "release"
                                 THEN cVal ELSE buffer[Slot(head + i - 1)]

LEMMA ContentsSeq == IInv => ContentsOK
<1> SUFFICES ASSUME IInv PROVE ContentsOK
  OBVIOUS
<1>1. tail - head \in Nat
  BY SpscAssumption, SMT DEF IInv, TypeOK, CounterInv
<1>2. ASSUME NEW i \in 1 .. tail - head
      PROVE  (IF i = 1 /\ pcC = "release" THEN cVal ELSE buffer[Slot(head + i - 1)])
               \in Values
  <2>1. head + i - 1 \in Nat /\ head <= head + i - 1 /\ head + i - 1 < tail
    BY SMT DEF IInv, TypeOK
  <2>2. Slot(head + i - 1) \in 0 .. N - 1
    BY <2>1, SlotType
  <2>3. CASE i = 1 /\ pcC = "release"
    BY <2>3 DEF IInv, TypeOK, CellInv
  <2>4. CASE ~(i = 1 /\ pcC = "release")
    <3>1. ~(head + i - 1 = head /\ pcC = "release")
      BY <2>4, SMT DEF IInv, TypeOK
    <3>2. buffer[Slot(head + i - 1)] # NoValue
      BY <2>1, <3>1 DEF IInv, CellInv
    <3> QED BY <2>2, <2>4, <3>2, SMT DEF IInv, TypeOK
  <2> QED BY <2>3, <2>4
<1> QED BY <1>1, <1>2, SMT DEF Contents, ContentsOK

(* Every execution of the ring is one of the bounded FIFO: its items leave *)
(* in the order they were accepted, each exactly once, never more than N   *)
(* at a time.                                                              *)
THEOREM Refinement == Spec => ImplementsFifo
<1>1. Init => Fifo!Init
  <2> SUFFICES ASSUME Init PROVE Fifo!Init
    OBVIOUS
  <2>1. Contents = <<>>
    BY InitIInv, ContentsSeq, SMT DEF Init, ContentsOK
  <2> QED BY <2>1 DEF Init, Fifo!Init
<1>2. IInv /\ IInv' /\ [Next]_vars => [Fifo!Next]_(Fifo!vars)
  <2> SUFFICES ASSUME IInv, IInv', [Next]_vars PROVE [Fifo!Next]_(Fifo!vars)
    OBVIOUS
  <2>1. ContentsOK /\ ContentsOK'
    BY ContentsSeq, PTL
  <2>2. ASSUME head' = head, tail' = tail, got' = got, 
               \A i \in 1 .. tail - head : Contents'[i] = Contents[i]
        PROVE  UNCHANGED Fifo!vars
    <3>1. Contents' = Contents
      BY <2>1, <2>2, SMT DEF ContentsOK
    <3> QED BY <3>1, <2>2 DEF Fifo!vars
  <2>3. ASSUME UNCHANGED <<shared, got>>, pcC = "release" <=> pcC' = "release",
               pcC = "release" => cVal' = cVal
        PROVE  UNCHANGED Fifo!vars
    BY <2>1, <2>2, <2>3, SMT DEF ContentsOK, shared
  <2>4. ASSUME NEW v \in Values, PushLoadTail(v) PROVE UNCHANGED Fifo!vars
    BY <2>3, <2>4, Zenon DEF PushLoadTail, cvars
  <2>5. CASE PushPublish
    <3>1. Contents' = Append(Contents, pVal) /\ Len(Contents) < N /\ pVal \in Values
      <4>1. /\ tail' = tail + 1 /\ tail < head + N /\ pVal \in Values
            /\ buffer[Slot(tail)] = pVal /\ (pcC = "release" => head < tail)
            /\ head \in Nat /\ tail \in Nat /\ head <= tail
        BY <2>5, SMT DEF PushPublish, IInv, TypeOK, CounterInv, CellInv
      <4>2. UNCHANGED <<head, buffer, pcC, cVal>>
        BY <2>5 DEF PushPublish, cvars
      <4>3. head + (tail - head + 1) - 1 = tail
        BY <4>1, SMT
      <4>4. Contents'[tail - head + 1] = pVal
        <5>1. tail - head + 1 \in 1 .. tail' - head'
          BY <4>1, <4>2, SMT
        <5>2. ~(tail - head + 1 = 1 /\ pcC' = "release")
          BY <4>1, <4>2, SMT
        <5>3. Contents'[tail - head + 1] = buffer'[Slot(head' + (tail - head + 1) - 1)]
          BY <2>1, <5>1, <5>2, Zenon DEF ContentsOK
        <5> QED BY <5>3, <4>1, <4>2, <4>3
      <4>5. \A i \in 1 .. tail - head : Contents'[i] = Contents[i]
        BY <2>1, <4>1, <4>2, SMT DEF ContentsOK
      <4>6. /\ Len(Contents) = tail - head /\ Len(Contents') = tail - head + 1
            /\ Contents \in Seq(Values) /\ Contents' \in Seq(Values)
        BY <2>1, <4>1, <4>2, SMT DEF ContentsOK
      <4>7. Len(Contents) < N
        BY <4>1, <4>6, SpscAssumption, SMT
      <4> QED BY <4>1, <4>4, <4>5, <4>6, <4>7, SMT
    <3> QED BY <3>1, <2>5 DEF PushPublish, cvars, Fifo!Next, Fifo!Put
  <2>6. CASE PopRelease
    <3>1. Contents # <<>> /\ Head(Contents) = cVal
      BY <2>1, <2>6, SpscAssumption, SMT
         DEF PopRelease, ContentsOK, IInv, TypeOK, CounterInv
    <3>2. Contents' = Tail(Contents)
      BY <2>1, <2>6, SpscAssumption, SMT
         DEF PopRelease, ContentsOK, IInv, TypeOK, CounterInv, pvars
    <3> QED BY <3>1, <3>2, <2>6 DEF PopRelease, Fifo!Next, Fifo!Take
  <2>7. CASE DropQueue
    <3>1. Contents # <<>> /\ Contents' = <<>>
      BY <2>1, <2>7, SMT DEF DropQueue, ContentsOK, IInv, TypeOK
    <3> QED BY <3>1, <2>7 DEF DropQueue, cvars, Fifo!Next, Fifo!Drain
  <2>8. CASE PushLoadHead
    BY <2>3, <2>8, SMT DEF PushLoadHead, shared, pvars, cvars
  <2>9. CASE PushWrite
    <3>1. ASSUME NEW i \in 1 .. tail - head PROVE Contents'[i] = Contents[i]
      <4>1. head + i - 1 \in Nat /\ head + i - 1 < tail /\ tail < head + i - 1 + N
        BY <2>9, SpscAssumption, SMT DEF PushWrite, IInv, TypeOK, CounterInv
      <4>2. Slot(head + i - 1) # Slot(tail) /\ pTail = tail
        BY <4>1, <2>9, SlotInjective, SMT DEF PushWrite, IInv, TypeOK, CounterInv
      <4>3. Slot(head + i - 1) \in 0 .. N - 1
        BY <4>1, SlotType
      <4>4. buffer'[Slot(head + i - 1)] = buffer[Slot(head + i - 1)]
        BY <2>9, <4>2, <4>3, SMT DEF PushWrite, IInv, TypeOK
      <4> QED BY <2>1, <2>9, <4>4, SMT DEF ContentsOK, PushWrite, cvars
    <3> QED BY <2>2, <2>9, <3>1 DEF PushWrite, cvars
  <2>10. CASE IsFullLoadHead
    BY <2>3, <2>10, SMT DEF IsFullLoadHead, shared, pvars, cvars
  <2>11. CASE IsFullLoadTail
    BY <2>3, <2>11, SMT DEF IsFullLoadTail, shared, pvars, cvars
  <2>12. CASE PopLoadHead
    BY <2>3, <2>12, SMT DEF PopLoadHead, shared, pvars, cvars
  <2>13. CASE PopLoadTail
    BY <2>3, <2>13, SMT DEF PopLoadTail, shared, pvars, cvars
  <2>14. CASE PopRead
    <3>1. ASSUME NEW i \in 1 .. tail - head PROVE Contents'[i] = Contents[i]
      <4>1. CASE i = 1
        <5>1. cVal' = buffer[Slot(head)] /\ head + 1 - 1 = head
          BY <2>14, SMT DEF PopRead, IInv, TypeOK, CounterInv
        <5> QED BY <2>1, <2>14, <4>1, <5>1, SMT DEF ContentsOK, PopRead
      <4>2. CASE i # 1
        <5>1. head + i - 1 \in Nat /\ head < head + i - 1 /\ head + i - 1 < head + N
          BY <2>14, <4>2, SpscAssumption, SMT DEF PopRead, IInv, TypeOK, CounterInv
        <5>2. Slot(head + i - 1) # Slot(head) /\ cHead = head
          BY <5>1, <2>14, SlotInjective, SMT DEF PopRead, IInv, TypeOK, CounterInv
        <5>3. Slot(head + i - 1) \in 0 .. N - 1
          BY <5>1, SlotType
        <5>4. buffer'[Slot(head + i - 1)] = buffer[Slot(head + i - 1)]
          BY <2>14, <5>2, <5>3, SMT DEF PopRead, IInv, TypeOK
        <5> QED BY <2>1, <2>14, <4>2, <5>4, SMT DEF ContentsOK, PopRead
      <4> QED BY <4>1, <4>2
    <3> QED BY <2>2, <2>14, <3>1 DEF PopRead
  <2>15. CASE IsEmptyLoadHead
    BY <2>3, <2>15, SMT DEF IsEmptyLoadHead, shared, pvars, cvars
  <2>16. CASE IsEmptyLoadTail
    BY <2>3, <2>16, SMT DEF IsEmptyLoadTail, shared, pvars, cvars
  <2>17. CASE DropProducer
    BY <2>3, <2>17, SMT DEF DropProducer, shared, pvars, cvars
  <2>18. CASE DropConsumer
    BY <2>3, <2>18, SMT DEF DropConsumer, shared, pvars, cvars
  <2>19. CASE UNCHANGED vars
    BY <2>3, <2>19, SMT DEF vars, shared, cvars
  <2> QED BY <2>4, <2>5, <2>6, <2>7, <2>8, <2>9, <2>10, <2>11, <2>12, <2>13, <2>14, <2>15, <2>16, <2>17, <2>18, <2>19, Zenon
          DEF Next, Producer, Consumer
<1> QED BY <1>1, <1>2, Invariance, PTL DEF Spec, ImplementsFifo, Fifo!Spec
=============================================================================
