-------------------------- MODULE MpmcQueue_proofs --------------------------
(* Safety of MpmcQueue for every capacity from two on, any number of       *)
(* producers and consumers and every set of values.                        *)
EXTENDS MpmcQueue, TLAPS

PushSteps == {"loadSeq", "reload", "cas", "write", "publish"}
PopSteps == {"loadSeq", "reload", "cas", "read", "release"}

(* The counters are at most N apart, no thread's position is ahead of the  *)
(* counter it was loaded from, and each thread runs its own operation.     *)
CounterInv ==
  /\ dequeue_pos <= enqueue_pos /\ enqueue_pos <= dequeue_pos + N
  /\ \A t \in Producers : /\ pos[t] <= enqueue_pos
                          /\ pc[t] \in PushSteps \cup {"idle", "dropped"}
                          /\ pc[t] \in PushSteps => value[t] \in Values
  /\ \A t \in Consumers : /\ pos[t] <= dequeue_pos
                          /\ pc[t] \in PopSteps \cup {"idle", "dropped"}

(* A producer that owns a cell has a position in the queue, a consumer one *)
(* that has left it and that no producer has lapped; two producers or two  *)
(* consumers never own the same position.                                  *)
OwnerInv ==
  /\ \A t \in Producers : Owns(t) =>
       /\ dequeue_pos <= pos[t] /\ pos[t] < enqueue_pos
       /\ sequence[Slot(pos[t])] = pos[t]
       /\ pc[t] = "publish" => buffer[Slot(pos[t])] # NoValue
  /\ \A t \in Consumers : Owns(t) =>
       /\ pos[t] < dequeue_pos /\ enqueue_pos <= pos[t] + N
       /\ sequence[Slot(pos[t])] = pos[t] + 1
       /\ pc[t] = "read" <=> buffer[Slot(pos[t])] # NoValue
  /\ \A t, u \in Producers : Owns(t) /\ Owns(u) /\ pos[t] = pos[u] => t = u
  /\ \A t, u \in Consumers : Owns(t) /\ Owns(u) /\ pos[t] = pos[u] => t = u

(* The cell of a position in the queue is published or its producer's, the *)
(* cell of one of the next positions is free or its consumer's, and the    *)
(* cells of past positions are past them.                                  *)
CellInv ==
  /\ \A p \in Nat : dequeue_pos <= p /\ p < enqueue_pos =>
       \/ sequence[Slot(p)] = p + 1 /\ buffer[Slot(p)] # NoValue
       \/ \E t \in Producers : Owns(t) /\ pos[t] = p
  /\ \A p \in Nat : enqueue_pos <= p /\ p < dequeue_pos + N =>
       \/ sequence[Slot(p)] = p /\ buffer[Slot(p)] = NoValue
       \/ \E t \in Consumers : Owns(t) /\ pos[t] + N = p
  /\ \A p \in Nat : p < dequeue_pos => sequence[Slot(p)] > p

(* Who is about to exchange a counter that has not moved still sees what   *)
(* it saw in the cell.                                                     *)
CasInv ==
  /\ \A t \in Producers : pc[t] = "cas" /\ pos[t] = enqueue_pos
                            => sequence[Slot(enqueue_pos)] = enqueue_pos
  /\ \A t \in Consumers : pc[t] = "cas" /\ pos[t] = dequeue_pos
                            => sequence[Slot(dequeue_pos)] = dequeue_pos + 1

IInv == TypeOK /\ CounterInv /\ OwnerInv /\ CellInv /\ CasInv

-----------------------------------------------------------------------------
(* The ring                                                                *)

(* The capacity is a positive integer.                                     *)
LEMMA NType == N \in Nat /\ N >= 1
  BY MpmcAssumption

(* A slot is one of the ring's cells.                                      *)
LEMMA SlotType == ASSUME NEW p \in Nat PROVE Slot(p) \in 0 .. N - 1
  BY NType, SMT DEF Slot

(* Multiples of n that differ, differ by n at least.                       *)
LEMMA MulLess == ASSUME NEW n \in Nat \ {0}, NEW a \in Int, NEW b \in Int, a < b
                 PROVE  n * b - n * a >= n
<1>1. n * (b - a) = n * b - n * a
  BY SMT
<1>2. b - a >= 1
  BY SMT
<1>3. \A k \in Int : k >= 1 => n * k >= n
  BY SMT
<1> QED BY <1>1, <1>2, <1>3, SMT

(* Positions of one cell are the same or a lap apart.                      *)
LEMMA SlotInjective ==
  ASSUME NEW p \in Nat, NEW q \in Nat, p < q, q < p + N
  PROVE  Slot(p) # Slot(q)
<1> DEFINE a == p \div N
           b == q \div N
<1>1. /\ p = N * a + (p % N) /\ a \in Int
      /\ q = N * b + (q % N) /\ b \in Int
  BY NType, SMT
<1>2. SUFFICES ASSUME p % N = q % N PROVE FALSE
  BY DEF Slot
<1> HIDE DEF a, b
<1>3. N * a \in Int /\ N * b \in Int /\ p % N \in Int
  BY <1>1, NType, SMT
<1>4. q - p = N * b - N * a
  BY <1>1, <1>2, <1>3, SMT
<1>5. CASE a < b
  BY <1>1, <1>4, <1>5, MulLess, NType, SMT
<1>6. CASE b < a
  <2>1. N * a - N * b >= N
    BY <1>1, <1>6, MulLess, NType
  <2> QED BY <2>1, <1>3, <1>4, NType, SMT
<1>7. CASE a = b
  BY <1>3, <1>4, <1>7, SMT
<1> QED BY <1>1, <1>5, <1>6, <1>7, SMT

(* A lap later the cell is the same.                                       *)
LEMMA SlotWrap == ASSUME NEW p \in Nat PROVE Slot(p + N) = Slot(p)
<1>1. Slot(p) \in 0 .. N - 1 /\ Slot(p + N) \in 0 .. N - 1
  BY SlotType, NType, SMT
<1> DEFINE a == p \div N
           b == (p + N) \div N
<1>2. /\ p = N * a + Slot(p) /\ a \in Int
      /\ p + N = N * b + Slot(p + N) /\ b \in Int
  BY NType, SMT DEF Slot
<1> HIDE DEF a, b
<1>3. N * a \in Int /\ N * b \in Int /\ N * (a + 1) = N * a + N /\ a + 1 \in Int
  BY <1>2, NType, SMT
<1>4. CASE b < a + 1
  <2>1. N * (a + 1) - N * b >= N
    BY <1>2, <1>3, <1>4, MulLess, NType
  <2> QED BY <2>1, <1>1, <1>2, <1>3, NType, SMT
<1>5. CASE a + 1 < b
  <2>1. N * b - N * (a + 1) >= N
    BY <1>2, <1>3, <1>5, MulLess, NType
  <2> QED BY <2>1, <1>1, <1>2, <1>3, NType, SMT
<1>6. CASE b = a + 1
  BY <1>1, <1>2, <1>3, <1>6, NType, SMT
<1> QED BY <1>2, <1>4, <1>5, <1>6, SMT

-----------------------------------------------------------------------------
(* The invariant is inductive                                              *)

(* The invariant holds of a new queue.                                     *)
LEMMA InitIInv == Init => IInv
<1> SUFFICES ASSUME Init PROVE IInv
  OBVIOUS
<1>1. TypeOK
  BY NType, SMT DEF Init, TypeOK
<1>2. CounterInv
  BY NType, SMT DEF Init, CounterInv, PushSteps, PopSteps, Threads
<1>3. \A t \in Threads : ~Owns(t) /\ pc[t] = "idle"
  BY DEF Init, Owns
<1>4. \A p \in Nat : p < N => Slot(p) = p
  BY NType, SMT DEF Slot
<1>5. OwnerInv /\ CellInv /\ CasInv
  BY <1>3, <1>4, NType, SMT DEF Init, OwnerInv, CellInv, CasInv, Threads
<1> QED BY <1>1, <1>2, <1>5 DEF IInv

(* A step that only moves a thread about, before it owns a cell, keeps the *)
(* invariant when its position and what it saw are right.                  *)
LEMMA MovesKeep ==
  ASSUME IInv, NEW t \in Threads, ~Owns(t), ~Owns(t)', UNCHANGED <<enqueue_pos, dequeue_pos, cells, got>>,
         \E p \in Nat, l \in {"idle", "loadSeq", "reload", "cas"} :
            /\ pos' = [pos EXCEPT ![t] = p] /\ pc' = [pc EXCEPT ![t] = l]
            /\ t \in Producers => p <= enqueue_pos
            /\ t \in Consumers => p <= dequeue_pos
            /\ l = "cas" => sequence[Slot(p)] = IF t \in Producers THEN p ELSE p + 1,
         value' \in [Producers -> Values \cup {NoValue}],
         \A u \in Producers : u # t => value'[u] = value[u],
         t \in Producers => value'[t] \in Values
  PROVE  IInv'
<1>1. PICK p \in Nat, l \in {"idle", "loadSeq", "reload", "cas"} :
         /\ pos' = [pos EXCEPT ![t] = p] /\ pc' = [pc EXCEPT ![t] = l]
         /\ t \in Producers => p <= enqueue_pos
         /\ t \in Consumers => p <= dequeue_pos
         /\ l = "cas" => sequence[Slot(p)] = IF t \in Producers THEN p ELSE p + 1
  OBVIOUS
<1>2. TypeOK'
  BY <1>1, SMT DEF IInv, TypeOK, cells
<1>3. \A u \in Threads : u # t => pos'[u] = pos[u] /\ pc'[u] = pc[u]
  BY <1>1, SMT DEF IInv, TypeOK
<1>4. pos'[t] = p /\ pc'[t] = l
  BY <1>1, SMT DEF IInv, TypeOK
<1>5. \A u \in Threads : Owns(u)' <=> Owns(u)
  BY <1>3, <1>4 DEF Owns
<1>6. \A u \in Threads : Owns(u) => u # t /\ pos'[u] = pos[u] /\ pc'[u] = pc[u]
  BY <1>3
<1>7. CounterInv'
  BY <1>1, <1>3, <1>4, SMT DEF IInv, CounterInv, PushSteps, PopSteps, Threads, TypeOK
<1>8. OwnerInv'
  BY <1>5, <1>6, SMT DEF IInv, OwnerInv, cells, Threads
<1>9. CellInv'
  BY <1>5, <1>6, SMT DEF IInv, CellInv, cells, Threads
<1>10. CasInv'
  <2>1. \A u \in Producers : u \notin Consumers
    BY MpmcAssumption
  <2>2. UNCHANGED <<enqueue_pos, dequeue_pos, sequence>>
    BY DEF cells
  <2>3. ASSUME NEW u \in Producers, pc'[u] = "cas", pos'[u] = enqueue_pos
        PROVE  sequence[Slot(enqueue_pos)] = enqueue_pos
    <3>1. CASE u = t
      BY <1>1, <1>4, <2>3, <3>1
    <3>2. CASE u # t
      BY <1>3, <2>3, <3>2 DEF IInv, CasInv, Threads
    <3> QED BY <3>1, <3>2
  <2>4. ASSUME NEW u \in Consumers, pc'[u] = "cas", pos'[u] = dequeue_pos
        PROVE  sequence[Slot(dequeue_pos)] = dequeue_pos + 1
    <3>1. CASE u = t
      BY <1>1, <1>4, <2>1, <2>4, <3>1
    <3>2. CASE u # t
      BY <1>3, <2>4, <3>2 DEF IInv, CasInv, Threads
    <3> QED BY <3>1, <3>2
  <2> QED BY <2>2, <2>3, <2>4 DEF CasInv
<1> QED BY <1>2, <1>7, <1>8, <1>9, <1>10 DEF IInv

(* What the steps of an owner cite of the ring.                            *)
LEMMA SlotFacts == /\ \A p \in Nat : Slot(p) \in 0 .. N - 1
                   /\ \A p, q \in Nat : p < q /\ q < p + N => Slot(p) # Slot(q)
                   /\ \A p \in Nat : Slot(p + N) = Slot(p)
  BY SlotType, SlotInjective, SlotWrap

(* A producer that wins the exchange finds a free cell: the queue is not   *)
(* full, and no consumer is still emptying the cell.                       *)
LEMMA WonPush ==
  ASSUME N >= 2, IInv, NEW t \in Producers, PushCas(t)
  PROVE  /\ enqueue_pos < dequeue_pos + N
         /\ sequence[Slot(enqueue_pos)] = enqueue_pos
         /\ buffer[Slot(enqueue_pos)] = NoValue
         /\ \A u \in Consumers : Owns(u) => enqueue_pos < pos[u] + N
<1>1. /\ enqueue_pos \in Nat /\ dequeue_pos \in Nat /\ N \in Nat
      /\ pos[t] = enqueue_pos /\ \A u \in Threads : pos[u] \in Nat
      /\ dequeue_pos <= enqueue_pos /\ enqueue_pos <= dequeue_pos + N
  BY NType DEF IInv, TypeOK, CounterInv, PushCas
<1>2. sequence[Slot(enqueue_pos)] = enqueue_pos
  BY <1>1 DEF IInv, CasInv, PushCas
<1>3. enqueue_pos < dequeue_pos + N
  <2>1. SUFFICES ASSUME enqueue_pos = dequeue_pos + N PROVE FALSE
    BY <1>1, SMT
  <2>2. Slot(enqueue_pos) = Slot(dequeue_pos)
    BY <1>1, <2>1, SlotFacts
  <2>3. \/ sequence[Slot(dequeue_pos)] = dequeue_pos + 1
        \/ \E u \in Producers : Owns(u) /\ pos[u] = dequeue_pos
    BY <1>1, <2>1, SMT DEF IInv, CellInv
  <2>4. sequence[Slot(dequeue_pos)] \in {dequeue_pos, dequeue_pos + 1}
    BY <2>3, SMT DEF IInv, OwnerInv
  <2> QED BY <1>1, <1>2, <2>1, <2>2, <2>4, SMT
<1>4. \A u \in Consumers : Owns(u) => enqueue_pos < pos[u] + N
  <2>1. SUFFICES ASSUME NEW u \in Consumers, Owns(u), enqueue_pos = pos[u] + N
                 PROVE  FALSE
    BY <1>1, SMT DEF IInv, OwnerInv, Threads
  <2>2. Slot(enqueue_pos) = Slot(pos[u]) /\ sequence[Slot(pos[u])] = pos[u] + 1
    BY <1>1, <2>1, SlotFacts DEF IInv, OwnerInv, Threads
  <2> QED BY <1>1, <1>2, <2>1, <2>2, SMT DEF Threads
<1>5. buffer[Slot(enqueue_pos)] = NoValue
  BY <1>1, <1>3, <1>4, SMT DEF IInv, CellInv, Threads
<1> QED BY <1>2, <1>3, <1>4, <1>5

(* A consumer that wins the exchange finds a published cell.               *)
LEMMA WonPop ==
  ASSUME N >= 2, IInv, NEW t \in Consumers, PopCas(t)
  PROVE  /\ dequeue_pos < enqueue_pos
         /\ sequence[Slot(dequeue_pos)] = dequeue_pos + 1
         /\ buffer[Slot(dequeue_pos)] # NoValue
         /\ \A u \in Producers : Owns(u) => dequeue_pos < pos[u]
<1>1. /\ enqueue_pos \in Nat /\ dequeue_pos \in Nat /\ N \in Nat
      /\ pos[t] = dequeue_pos /\ \A u \in Threads : pos[u] \in Nat
      /\ dequeue_pos <= enqueue_pos /\ enqueue_pos <= dequeue_pos + N
  BY NType DEF IInv, TypeOK, CounterInv, PopCas
<1>2. sequence[Slot(dequeue_pos)] = dequeue_pos + 1
  BY <1>1 DEF IInv, CasInv, PopCas
<1>3. dequeue_pos < enqueue_pos
  <2>1. SUFFICES ASSUME enqueue_pos = dequeue_pos PROVE FALSE
    BY <1>1, SMT
  <2>2. CASE sequence[Slot(dequeue_pos)] = dequeue_pos
    BY <1>1, <1>2, <2>2, SMT
  <2>3. CASE \E u \in Consumers : Owns(u) /\ pos[u] + N = dequeue_pos
    <3>1. PICK u \in Consumers : Owns(u) /\ pos[u] + N = dequeue_pos
      BY <2>3
    <3>2. Slot(dequeue_pos) = Slot(pos[u]) /\ sequence[Slot(pos[u])] = pos[u] + 1
      BY <1>1, <3>1, SlotFacts DEF IInv, OwnerInv, Threads
    <3> QED BY <1>1, <1>2, <3>1, <3>2, SMT DEF Threads
  <2> QED BY <1>1, <2>1, <2>2, <2>3, SMT DEF IInv, CellInv
<1>4. \A u \in Producers : Owns(u) => dequeue_pos < pos[u]
  <2>1. SUFFICES ASSUME NEW u \in Producers, Owns(u), pos[u] = dequeue_pos
                 PROVE  FALSE
    BY <1>1, SMT DEF IInv, OwnerInv, Threads
  <2> QED BY <1>1, <1>2, <2>1, SMT DEF IInv, OwnerInv
<1>5. buffer[Slot(dequeue_pos)] # NoValue
  BY <1>1, <1>3, <1>4, SMT DEF IInv, CellInv, Threads
<1> QED BY <1>2, <1>3, <1>4, <1>5

(* Winning the exchange makes the producer the owner of the cell.          *)
LEMMA PushCasKeeps ==
  ASSUME N >= 2, IInv, NEW t \in Producers, PushCas(t)
  PROVE  IInv'
<1>1. /\ enqueue_pos \in Nat /\ dequeue_pos \in Nat /\ N \in Nat
      /\ \A u \in Threads : pos[u] \in Nat
      /\ t \in Threads /\ t \notin Consumers
      /\ pos[t] = enqueue_pos /\ enqueue_pos' = enqueue_pos + 1
      /\ UNCHANGED <<dequeue_pos, sequence, buffer, pos, value>>
  BY NType, MpmcAssumption DEF IInv, TypeOK, PushCas, Threads, cells
<1>2. pc'[t] = "write" /\ \A u \in Threads : u # t => pc'[u] = pc[u]
  BY <1>1, SMT DEF IInv, TypeOK, PushCas
<1>3. Owns(t)' /\ \A u \in Threads : u # t => (Owns(u)' <=> Owns(u))
  BY <1>2 DEF Owns
<1>4. /\ enqueue_pos < dequeue_pos + N
      /\ sequence[Slot(enqueue_pos)] = enqueue_pos
      /\ \A u \in Consumers : Owns(u) => enqueue_pos < pos[u] + N
  BY WonPush
<1>5. TypeOK'
  BY <1>1, SMT DEF IInv, TypeOK, PushCas, cells
<1>6. CounterInv'
  BY <1>1, <1>2, <1>4, SMT DEF IInv, CounterInv, PushSteps, PopSteps, Threads, PushCas
<1>7. OwnerInv'
  <2>1. ASSUME NEW u \in Producers, Owns(u)'
        PROVE  /\ dequeue_pos <= pos[u] /\ pos[u] < enqueue_pos + 1
               /\ sequence[Slot(pos[u])] = pos[u]
               /\ pc'[u] = "publish" => buffer[Slot(pos[u])] # NoValue
    BY <1>1, <1>2, <1>3, <1>4, <2>1, SMT DEF IInv, OwnerInv, CounterInv, Threads
  <2>2. ASSUME NEW u \in Consumers, Owns(u)'
        PROVE  /\ pos[u] < dequeue_pos /\ enqueue_pos + 1 <= pos[u] + N
               /\ sequence[Slot(pos[u])] = pos[u] + 1
               /\ pc'[u] = "read" <=> buffer[Slot(pos[u])] # NoValue
    BY <1>1, <1>2, <1>3, <1>4, <2>2, SMT DEF IInv, OwnerInv, Threads
  <2>3. ASSUME NEW u \in Producers, NEW w \in Producers,
               Owns(u)', Owns(w)', pos[u] = pos[w]
        PROVE  u = w
    BY <1>1, <1>3, <2>3, SMT DEF IInv, OwnerInv, Threads
  <2>4. ASSUME NEW u \in Consumers, NEW w \in Consumers,
               Owns(u)', Owns(w)', pos[u] = pos[w]
        PROVE  u = w
    BY <1>1, <1>3, <2>4, SMT DEF IInv, OwnerInv, Threads
  <2> QED BY <1>1, <2>1, <2>2, <2>3, <2>4 DEF OwnerInv
<1>8. CellInv'
  <2>1. ASSUME NEW p \in Nat, dequeue_pos <= p, p < enqueue_pos + 1
        PROVE  \/ sequence[Slot(p)] = p + 1 /\ buffer[Slot(p)] # NoValue
               \/ \E u \in Producers : Owns(u)' /\ pos[u] = p
    BY <1>1, <1>3, <2>1, SMT DEF IInv, CellInv, Threads
  <2>2. ASSUME NEW p \in Nat, enqueue_pos + 1 <= p, p < dequeue_pos + N
        PROVE  \/ sequence[Slot(p)] = p /\ buffer[Slot(p)] = NoValue
               \/ \E u \in Consumers : Owns(u)' /\ pos[u] + N = p
    BY <1>1, <1>3, <2>2, SMT DEF IInv, CellInv, Threads
  <2> QED BY <1>1, <2>1, <2>2 DEF IInv, CellInv
<1>9. CasInv'
  <2>1. ASSUME NEW u \in Producers, pc'[u] = "cas", pos[u] = enqueue_pos + 1
        PROVE  FALSE
    BY <1>1, <2>1, SMT DEF IInv, CounterInv
  <2>2. ASSUME NEW u \in Consumers, pc'[u] = "cas", pos[u] = dequeue_pos
        PROVE  sequence[Slot(dequeue_pos)] = dequeue_pos + 1
    BY <1>1, <1>2, <2>2 DEF IInv, CasInv, Threads
  <2> QED BY <1>1, <2>1, <2>2 DEF CasInv
<1> QED BY <1>5, <1>6, <1>7, <1>8, <1>9 DEF IInv

(* Winning the exchange makes the consumer the owner of the cell.          *)
LEMMA PopCasKeeps ==
  ASSUME N >= 2, IInv, NEW t \in Consumers, PopCas(t)
  PROVE  IInv'
<1>1. /\ enqueue_pos \in Nat /\ dequeue_pos \in Nat /\ N \in Nat
      /\ \A u \in Threads : pos[u] \in Nat
      /\ t \in Threads /\ t \notin Producers
      /\ pos[t] = dequeue_pos /\ dequeue_pos' = dequeue_pos + 1
      /\ UNCHANGED <<enqueue_pos, sequence, buffer, pos, value>>
  BY NType, MpmcAssumption DEF IInv, TypeOK, PopCas, Threads, cells
<1>2. pc'[t] = "read" /\ \A u \in Threads : u # t => pc'[u] = pc[u]
  BY <1>1, SMT DEF IInv, TypeOK, PopCas
<1>3. Owns(t)' /\ \A u \in Threads : u # t => (Owns(u)' <=> Owns(u))
  BY <1>2 DEF Owns
<1>4. /\ dequeue_pos < enqueue_pos /\ enqueue_pos <= dequeue_pos + N
      /\ sequence[Slot(dequeue_pos)] = dequeue_pos + 1
      /\ buffer[Slot(dequeue_pos)] # NoValue
      /\ \A u \in Producers : Owns(u) => dequeue_pos < pos[u]
  BY WonPop DEF IInv, CounterInv
<1>5. TypeOK'
  BY <1>1, SMT DEF IInv, TypeOK, PopCas, cells
<1>6. CounterInv'
  BY <1>1, <1>2, <1>4, SMT DEF IInv, CounterInv, PushSteps, PopSteps, Threads, PopCas
<1>7. OwnerInv'
  <2>1. ASSUME NEW u \in Producers, Owns(u)'
        PROVE  /\ dequeue_pos + 1 <= pos[u] /\ pos[u] < enqueue_pos
               /\ sequence[Slot(pos[u])] = pos[u]
               /\ pc'[u] = "publish" => buffer[Slot(pos[u])] # NoValue
    BY <1>1, <1>2, <1>3, <1>4, <2>1, SMT DEF IInv, OwnerInv, Threads
  <2>2. ASSUME NEW u \in Consumers, Owns(u)'
        PROVE  /\ pos[u] < dequeue_pos + 1 /\ enqueue_pos <= pos[u] + N
               /\ sequence[Slot(pos[u])] = pos[u] + 1
               /\ pc'[u] = "read" <=> buffer[Slot(pos[u])] # NoValue
    BY <1>1, <1>2, <1>3, <1>4, <2>2, SMT DEF IInv, OwnerInv, Threads
  <2>3. ASSUME NEW u \in Producers, NEW w \in Producers,
               Owns(u)', Owns(w)', pos[u] = pos[w]
        PROVE  u = w
    BY <1>1, <1>3, <2>3, SMT DEF IInv, OwnerInv, Threads
  <2>4. ASSUME NEW u \in Consumers, NEW w \in Consumers,
               Owns(u)', Owns(w)', pos[u] = pos[w]
        PROVE  u = w
    BY <1>1, <1>3, <2>4, SMT DEF IInv, OwnerInv, Threads
  <2> QED BY <1>1, <2>1, <2>2, <2>3, <2>4 DEF OwnerInv
<1>8. CellInv'
  <2>1. ASSUME NEW p \in Nat, dequeue_pos + 1 <= p, p < enqueue_pos
        PROVE  \/ sequence[Slot(p)] = p + 1 /\ buffer[Slot(p)] # NoValue
               \/ \E u \in Producers : Owns(u)' /\ pos[u] = p
    BY <1>1, <1>3, <2>1, SMT DEF IInv, CellInv, Threads
  <2>2. ASSUME NEW p \in Nat, enqueue_pos <= p, p < dequeue_pos + 1 + N
        PROVE  \/ sequence[Slot(p)] = p /\ buffer[Slot(p)] = NoValue
               \/ \E u \in Consumers : Owns(u)' /\ pos[u] + N = p
    BY <1>1, <1>3, <2>2, SMT DEF IInv, CellInv, Threads
  <2>3. ASSUME NEW p \in Nat, p < dequeue_pos + 1 PROVE sequence[Slot(p)] > p
    BY <1>1, <1>4, <2>3, SMT DEF IInv, CellInv
  <2> QED BY <1>1, <2>1, <2>2, <2>3 DEF CellInv
<1>9. CasInv'
  <2>1. ASSUME NEW u \in Consumers, pc'[u] = "cas", pos[u] = dequeue_pos + 1
        PROVE  FALSE
    BY <1>1, <2>1, SMT DEF IInv, CounterInv
  <2>2. ASSUME NEW u \in Producers, pc'[u] = "cas", pos[u] = enqueue_pos
        PROVE  sequence[Slot(enqueue_pos)] = enqueue_pos
    BY <1>1, <1>2, <2>2 DEF IInv, CasInv, Threads
  <2> QED BY <1>1, <2>1, <2>2 DEF CasInv
<1> QED BY <1>5, <1>6, <1>7, <1>8, <1>9 DEF IInv

(* The value goes into the cell of the producer alone.                     *)
LEMMA PushWriteKeeps ==
  ASSUME N >= 2, IInv, NEW t \in Producers, PushWrite(t)
  PROVE  IInv'
<1>1. /\ enqueue_pos \in Nat /\ dequeue_pos \in Nat /\ N \in Nat
      /\ \A u \in Threads : pos[u] \in Nat
      /\ t \in Threads /\ t \notin Consumers
      /\ UNCHANGED <<enqueue_pos, dequeue_pos, pos, value>>
  BY NType, MpmcAssumption DEF IInv, TypeOK, PushWrite, Threads
<1>2. /\ pc[t] = "write" /\ pc'[t] = "publish"
      /\ \A u \in Threads : u # t => pc'[u] = pc[u]
  BY <1>1, SMT DEF IInv, TypeOK, PushWrite
<1>3. Owns(t) /\ Owns(t)' /\ \A u \in Threads : u # t => (Owns(u)' <=> Owns(u))
  BY <1>2 DEF Owns
<1>4. /\ dequeue_pos <= pos[t] /\ pos[t] < enqueue_pos
      /\ enqueue_pos <= dequeue_pos + N /\ sequence[Slot(pos[t])] = pos[t] /\ value[t] \in Values
  BY <1>1, <1>2, <1>3 DEF IInv, OwnerInv, CounterInv, PushSteps
<1>5. /\ sequence'[Slot(pos[t])] = sequence[Slot(pos[t])] /\ buffer'[Slot(pos[t])] = value[t]
      /\ \A p \in Nat : Slot(p) # Slot(pos[t]) =>
           sequence'[Slot(p)] = sequence[Slot(p)] /\ buffer'[Slot(p)] = buffer[Slot(p)]
  <2>1. \A p \in Nat : Slot(p) \in 0 .. N - 1
    BY SlotFacts
  <2>2. sequence \in [0 .. N - 1 -> Nat] /\ buffer \in [0 .. N - 1 -> Values \cup {NoValue}]
    BY DEF IInv, TypeOK
  <2> QED BY <1>1, <2>1, <2>2 DEF PushWrite
<1>6. \A p \in Nat : p # pos[t] /\ p < pos[t] + N /\ pos[t] < p + N =>
           Slot(p) # Slot(pos[t])
  BY <1>1, SlotFacts, SMT
<1>7. TypeOK'
  <2>1. Slot(pos[t]) \in 0 .. N - 1
    BY <1>1, SlotFacts
  <2>2. sequence' \in [0 .. N - 1 -> Nat]
    BY <1>1, <1>4, <2>1, SMT DEF IInv, TypeOK, PushWrite
  <2>3. buffer' \in [0 .. N - 1 -> Values \cup {NoValue}]
    BY <1>1, <1>4, <2>1 DEF IInv, TypeOK, PushWrite
  <2>4. pc' \in [Threads -> {"idle", "loadSeq", "reload", "cas", "write",
                           "publish", "read", "release", "dropped"}]
    BY <1>1 DEF IInv, TypeOK, PushWrite
  <2>5. got' \in [Consumers -> Values \cup {NoValue}]
    BY <1>1, <2>1 DEF IInv, TypeOK, PushWrite
  <2> QED BY <1>1, <2>2, <2>3, <2>4, <2>5 DEF IInv, TypeOK
<1>8. CounterInv'
  BY <1>1, <1>2, SMT DEF IInv, CounterInv, PushSteps, PopSteps, Threads
<1>9. OwnerInv'
  <2>1. ASSUME NEW u \in Producers, Owns(u)'
        PROVE  /\ dequeue_pos <= pos[u] /\ pos[u] < enqueue_pos
               /\ sequence'[Slot(pos[u])] = pos[u]
               /\ pc'[u] = "publish" => buffer'[Slot(pos[u])] # NoValue
    <3>1. CASE u = t
      BY <1>1, <1>2, <1>3, <1>4, <1>5, <2>1, <3>1, MpmcAssumption DEF Owns
    <3>2. CASE u # t
      <4>1. Owns(u) /\ pos[u] \in Nat /\ pos[u] # pos[t] /\ pc'[u] = pc[u]
        BY <1>1, <1>2, <1>3, <2>1, <3>2 DEF IInv, OwnerInv, Threads
      <4>2. dequeue_pos <= pos[u] /\ pos[u] < enqueue_pos
        BY <4>1 DEF IInv, OwnerInv
      <4>3. Slot(pos[u]) # Slot(pos[t])
        BY <1>1, <1>4, <1>6, <4>1, <4>2, SMT
      <4> QED BY <1>5, <4>1, <4>2, <4>3 DEF IInv, OwnerInv
    <3> QED BY <3>1, <3>2
  <2>2. ASSUME NEW u \in Consumers, Owns(u)'
        PROVE  /\ pos[u] < dequeue_pos /\ enqueue_pos <= pos[u] + N
               /\ sequence'[Slot(pos[u])] = pos[u] + 1
               /\ pc'[u] = "read" <=> buffer'[Slot(pos[u])] # NoValue
    <3>1. Owns(u) /\ pos[u] \in Nat /\ pc'[u] = pc[u]
      BY <1>1, <1>2, <1>3, <2>2 DEF Threads
    <3>2. pos[u] < dequeue_pos /\ enqueue_pos <= pos[u] + N
      BY <3>1 DEF IInv, OwnerInv
    <3>3. Slot(pos[u]) # Slot(pos[t])
      BY <1>1, <1>4, <1>6, <3>1, <3>2, SMT
    <3> QED BY <1>5, <3>1, <3>2, <3>3 DEF IInv, OwnerInv
  <2>3. ASSUME NEW u \in Threads, Owns(u)' PROVE Owns(u)
    BY <1>3, <2>3
  <2> QED BY <1>1, <2>1, <2>2, <2>3, SMT DEF IInv, OwnerInv, Threads
<1>10. CellInv'
  <2>1. ASSUME NEW p \in Nat, dequeue_pos <= p, p < enqueue_pos
        PROVE  \/ sequence'[Slot(p)] = p + 1 /\ buffer'[Slot(p)] # NoValue
               \/ \E u \in Producers : Owns(u)' /\ pos[u] = p
    <3>1. CASE p = pos[t]
      BY <1>3, <3>1
    <3>2. CASE ~(p = pos[t])
      <4>1. Slot(p) # Slot(pos[t])
        BY <1>1, <1>4, <1>6, <2>1, <3>2, SMT
      <4>2. \A u \in Producers : Owns(u) /\ pos[u] = p => Owns(u)'
        BY <1>1, <1>3, <3>2 DEF Threads
      <4> QED BY <1>1, <1>5, <2>1, <4>1, <4>2 DEF IInv, CellInv
    <3> QED BY <3>1, <3>2
  <2>2. ASSUME NEW p \in Nat, enqueue_pos <= p, p < dequeue_pos + N
        PROVE  \/ sequence'[Slot(p)] = p /\ buffer'[Slot(p)] = NoValue
               \/ \E u \in Consumers : Owns(u)' /\ pos[u] + N = p
    <3>1. Slot(p) # Slot(pos[t])
      BY <1>1, <1>4, <1>6, <2>2, SMT
    <3> QED BY <1>1, <1>3, <1>5, <2>2, <3>1 DEF IInv, CellInv, Threads
  <2>3. ASSUME NEW p \in Nat, p < dequeue_pos PROVE sequence'[Slot(p)] > p
    BY <1>1, <2>3 DEF IInv, CellInv, PushWrite
  <2> QED BY <1>1, <2>1, <2>2, <2>3 DEF CellInv
<1>11. CasInv'
  <2>1. sequence' = sequence
    BY DEF PushWrite
  <2> QED BY <1>1, <1>2, <2>1 DEF IInv, CasInv, Threads
<1> QED BY <1>7, <1>8, <1>9, <1>10, <1>11 DEF IInv

(* The sequence number hands the filled cell over to the consumers.        *)
LEMMA PushPublishKeeps ==
  ASSUME N >= 2, IInv, NEW t \in Producers, PushPublish(t)
  PROVE  IInv'
<1>1. /\ enqueue_pos \in Nat /\ dequeue_pos \in Nat /\ N \in Nat
      /\ \A u \in Threads : pos[u] \in Nat
      /\ t \in Threads /\ t \notin Consumers
      /\ UNCHANGED <<enqueue_pos, dequeue_pos, pos, value>>
  BY NType, MpmcAssumption DEF IInv, TypeOK, PushPublish, Threads
<1>2. /\ pc[t] = "publish" /\ pc'[t] = "idle"
      /\ \A u \in Threads : u # t => pc'[u] = pc[u]
  BY <1>1, SMT DEF IInv, TypeOK, PushPublish
<1>3. Owns(t) /\ ~Owns(t)' /\ \A u \in Threads : u # t => (Owns(u)' <=> Owns(u))
  BY <1>2 DEF Owns
<1>4. /\ dequeue_pos <= pos[t] /\ pos[t] < enqueue_pos
      /\ enqueue_pos <= dequeue_pos + N /\ sequence[Slot(pos[t])] = pos[t] /\ buffer[Slot(pos[t])] # NoValue
  BY <1>1, <1>2, <1>3 DEF IInv, OwnerInv, CounterInv
<1>5. /\ sequence'[Slot(pos[t])] = pos[t] + 1 /\ buffer'[Slot(pos[t])] = buffer[Slot(pos[t])]
      /\ \A p \in Nat : Slot(p) # Slot(pos[t]) =>
           sequence'[Slot(p)] = sequence[Slot(p)] /\ buffer'[Slot(p)] = buffer[Slot(p)]
  <2>1. \A p \in Nat : Slot(p) \in 0 .. N - 1
    BY SlotFacts
  <2>2. sequence \in [0 .. N - 1 -> Nat] /\ buffer \in [0 .. N - 1 -> Values \cup {NoValue}]
    BY DEF IInv, TypeOK
  <2> QED BY <1>1, <2>1, <2>2 DEF PushPublish
<1>6. \A p \in Nat : p # pos[t] /\ p < pos[t] + N /\ pos[t] < p + N =>
           Slot(p) # Slot(pos[t])
  BY <1>1, SlotFacts, SMT
<1>7. TypeOK'
  <2>1. Slot(pos[t]) \in 0 .. N - 1
    BY <1>1, SlotFacts
  <2>2. sequence' \in [0 .. N - 1 -> Nat]
    BY <1>1, <2>1, SMT DEF IInv, TypeOK, PushPublish
  <2>3. buffer' \in [0 .. N - 1 -> Values \cup {NoValue}]
    BY <1>1, <2>1 DEF IInv, TypeOK, PushPublish
  <2>4. pc' \in [Threads -> {"idle", "loadSeq", "reload", "cas", "write",
                           "publish", "read", "release", "dropped"}]
    BY <1>1 DEF IInv, TypeOK, PushPublish
  <2>5. got' \in [Consumers -> Values \cup {NoValue}]
    BY <1>1, <2>1 DEF IInv, TypeOK, PushPublish
  <2> QED BY <1>1, <2>2, <2>3, <2>4, <2>5 DEF IInv, TypeOK
<1>8. CounterInv'
  BY <1>1, <1>2, SMT DEF IInv, CounterInv, PushSteps, PopSteps, Threads
<1>9. OwnerInv'
  <2>1. ASSUME NEW u \in Producers, Owns(u)'
        PROVE  /\ dequeue_pos <= pos[u] /\ pos[u] < enqueue_pos
               /\ sequence'[Slot(pos[u])] = pos[u]
               /\ pc'[u] = "publish" => buffer'[Slot(pos[u])] # NoValue
    <3>1. CASE u = t
      BY <1>3, <2>1, <3>1
    <3>2. CASE u # t
      <4>1. Owns(u) /\ pos[u] \in Nat /\ pos[u] # pos[t] /\ pc'[u] = pc[u]
        BY <1>1, <1>2, <1>3, <2>1, <3>2 DEF IInv, OwnerInv, Threads
      <4>2. dequeue_pos <= pos[u] /\ pos[u] < enqueue_pos
        BY <4>1 DEF IInv, OwnerInv
      <4>3. Slot(pos[u]) # Slot(pos[t])
        BY <1>1, <1>4, <1>6, <4>1, <4>2, SMT
      <4> QED BY <1>5, <4>1, <4>2, <4>3 DEF IInv, OwnerInv
    <3> QED BY <3>1, <3>2
  <2>2. ASSUME NEW u \in Consumers, Owns(u)'
        PROVE  /\ pos[u] < dequeue_pos /\ enqueue_pos <= pos[u] + N
               /\ sequence'[Slot(pos[u])] = pos[u] + 1
               /\ pc'[u] = "read" <=> buffer'[Slot(pos[u])] # NoValue
    <3>1. Owns(u) /\ pos[u] \in Nat /\ pc'[u] = pc[u]
      BY <1>1, <1>2, <1>3, <2>2 DEF Threads
    <3>2. pos[u] < dequeue_pos /\ enqueue_pos <= pos[u] + N
      BY <3>1 DEF IInv, OwnerInv
    <3>3. Slot(pos[u]) # Slot(pos[t])
      BY <1>1, <1>4, <1>6, <3>1, <3>2, SMT
    <3> QED BY <1>5, <3>1, <3>2, <3>3 DEF IInv, OwnerInv
  <2>3. ASSUME NEW u \in Threads, Owns(u)' PROVE Owns(u)
    BY <1>3, <2>3
  <2> QED BY <1>1, <2>1, <2>2, <2>3, SMT DEF IInv, OwnerInv, Threads
<1>10. CellInv'
  <2>1. ASSUME NEW p \in Nat, dequeue_pos <= p, p < enqueue_pos
        PROVE  \/ sequence'[Slot(p)] = p + 1 /\ buffer'[Slot(p)] # NoValue
               \/ \E u \in Producers : Owns(u)' /\ pos[u] = p
    <3>1. CASE p = pos[t]
      BY <1>1, <1>4, <1>5, <3>1
    <3>2. CASE ~(p = pos[t])
      <4>1. Slot(p) # Slot(pos[t])
        BY <1>1, <1>4, <1>6, <2>1, <3>2, SMT
      <4>2. \A u \in Producers : Owns(u) /\ pos[u] = p => Owns(u)'
        BY <1>1, <1>3, <3>2 DEF Threads
      <4> QED BY <1>1, <1>5, <2>1, <4>1, <4>2 DEF IInv, CellInv
    <3> QED BY <3>1, <3>2
  <2>2. ASSUME NEW p \in Nat, enqueue_pos <= p, p < dequeue_pos + N
        PROVE  \/ sequence'[Slot(p)] = p /\ buffer'[Slot(p)] = NoValue
               \/ \E u \in Consumers : Owns(u)' /\ pos[u] + N = p
    <3>1. Slot(p) # Slot(pos[t])
      BY <1>1, <1>4, <1>6, <2>2, SMT
    <3> QED BY <1>1, <1>3, <1>5, <2>2, <3>1 DEF IInv, CellInv, Threads
  <2>3. ASSUME NEW p \in Nat, p < dequeue_pos PROVE sequence'[Slot(p)] > p
    <3>1. CASE Slot(p) = Slot(pos[t])
      BY <1>1, <1>4, <1>5, <2>3, <3>1, SMT
    <3>2. CASE Slot(p) # Slot(pos[t])
      BY <1>5, <2>3, <3>2 DEF IInv, CellInv
    <3> QED BY <3>1, <3>2
  <2> QED BY <1>1, <2>1, <2>2, <2>3 DEF CellInv
<1>11. CasInv'
  <2>1. ASSUME NEW u \in Producers, pc'[u] = "cas", pos[u] = enqueue_pos
        PROVE  sequence'[Slot(enqueue_pos)] = enqueue_pos
    <3>1. sequence[Slot(enqueue_pos)] = enqueue_pos
      BY <1>1, <1>2, <2>1 DEF IInv, CasInv, Threads
    <3>2. Slot(enqueue_pos) # Slot(pos[t])
      BY <1>1, <1>4, <3>1, SMT
    <3> QED BY <1>1, <1>5, <3>1, <3>2
  <2>2. ASSUME NEW u \in Consumers, pc'[u] = "cas", pos[u] = dequeue_pos
        PROVE  sequence'[Slot(dequeue_pos)] = dequeue_pos + 1
    <3>1. sequence[Slot(dequeue_pos)] = dequeue_pos + 1
      BY <1>1, <1>2, <2>2 DEF IInv, CasInv, Threads
    <3>2. Slot(dequeue_pos) # Slot(pos[t])
      BY <1>1, <1>4, <1>6, <3>1, SMT
    <3> QED BY <1>1, <1>5, <3>1, <3>2
  <2> QED BY <1>1, <2>1, <2>2 DEF CasInv
<1> QED BY <1>7, <1>8, <1>9, <1>10, <1>11 DEF IInv

(* The value leaves the cell of the consumer alone.                        *)
LEMMA PopReadKeeps ==
  ASSUME N >= 2, IInv, NEW t \in Consumers, PopRead(t)
  PROVE  IInv'
<1>1. /\ enqueue_pos \in Nat /\ dequeue_pos \in Nat /\ N \in Nat
      /\ \A u \in Threads : pos[u] \in Nat
      /\ t \in Threads /\ t \notin Producers
      /\ UNCHANGED <<enqueue_pos, dequeue_pos, pos, value>>
  BY NType, MpmcAssumption DEF IInv, TypeOK, PopRead, Threads
<1>2. /\ pc[t] = "read" /\ pc'[t] = "release"
      /\ \A u \in Threads : u # t => pc'[u] = pc[u]
  BY <1>1, SMT DEF IInv, TypeOK, PopRead
<1>3. Owns(t) /\ Owns(t)' /\ \A u \in Threads : u # t => (Owns(u)' <=> Owns(u))
  BY <1>2 DEF Owns
<1>4. /\ pos[t] < dequeue_pos /\ enqueue_pos <= pos[t] + N
      /\ dequeue_pos <= enqueue_pos /\ sequence[Slot(pos[t])] = pos[t] + 1
  BY <1>1, <1>2, <1>3 DEF IInv, OwnerInv, CounterInv
<1>5. /\ sequence'[Slot(pos[t])] = sequence[Slot(pos[t])] /\ buffer'[Slot(pos[t])] = NoValue
      /\ \A p \in Nat : Slot(p) # Slot(pos[t]) =>
           sequence'[Slot(p)] = sequence[Slot(p)] /\ buffer'[Slot(p)] = buffer[Slot(p)]
  <2>1. \A p \in Nat : Slot(p) \in 0 .. N - 1
    BY SlotFacts
  <2>2. sequence \in [0 .. N - 1 -> Nat] /\ buffer \in [0 .. N - 1 -> Values \cup {NoValue}]
    BY DEF IInv, TypeOK
  <2> QED BY <1>1, <2>1, <2>2 DEF PopRead
<1>6. \A p \in Nat : p # pos[t] /\ p < pos[t] + N /\ pos[t] < p + N =>
           Slot(p) # Slot(pos[t])
  BY <1>1, SlotFacts, SMT
<1>7. TypeOK'
  <2>1. Slot(pos[t]) \in 0 .. N - 1
    BY <1>1, SlotFacts
  <2>2. sequence' \in [0 .. N - 1 -> Nat]
    BY <1>1, <2>1, SMT DEF IInv, TypeOK, PopRead
  <2>3. buffer' \in [0 .. N - 1 -> Values \cup {NoValue}]
    BY <1>1, <2>1 DEF IInv, TypeOK, PopRead
  <2>4. pc' \in [Threads -> {"idle", "loadSeq", "reload", "cas", "write",
                           "publish", "read", "release", "dropped"}]
    BY <1>1 DEF IInv, TypeOK, PopRead
  <2>5. got' \in [Consumers -> Values \cup {NoValue}]
    BY <1>1, <2>1 DEF IInv, TypeOK, PopRead
  <2> QED BY <1>1, <2>2, <2>3, <2>4, <2>5 DEF IInv, TypeOK
<1>8. CounterInv'
  BY <1>1, <1>2, SMT DEF IInv, CounterInv, PushSteps, PopSteps, Threads
<1>9. OwnerInv'
  <2>1. ASSUME NEW u \in Producers, Owns(u)'
        PROVE  /\ dequeue_pos <= pos[u] /\ pos[u] < enqueue_pos
               /\ sequence'[Slot(pos[u])] = pos[u]
               /\ pc'[u] = "publish" => buffer'[Slot(pos[u])] # NoValue
    <3>1. Owns(u) /\ pos[u] \in Nat /\ pc'[u] = pc[u]
      BY <1>1, <1>2, <1>3, <2>1 DEF Threads
    <3>2. dequeue_pos <= pos[u] /\ pos[u] < enqueue_pos
      BY <3>1 DEF IInv, OwnerInv
    <3>3. Slot(pos[u]) # Slot(pos[t])
      BY <1>1, <1>4, <1>6, <3>1, <3>2, SMT
    <3> QED BY <1>5, <3>1, <3>2, <3>3 DEF IInv, OwnerInv
  <2>2. ASSUME NEW u \in Consumers, Owns(u)'
        PROVE  /\ pos[u] < dequeue_pos /\ enqueue_pos <= pos[u] + N
               /\ sequence'[Slot(pos[u])] = pos[u] + 1
               /\ pc'[u] = "read" <=> buffer'[Slot(pos[u])] # NoValue
    <3>1. CASE u = t
      BY <1>1, <1>2, <1>3, <1>4, <1>5, <2>2, <3>1, SMT
    <3>2. CASE u # t
      <4>1. Owns(u) /\ pos[u] \in Nat /\ pos[u] # pos[t] /\ pc'[u] = pc[u]
        BY <1>1, <1>2, <1>3, <2>2, <3>2 DEF IInv, OwnerInv, Threads
      <4>2. pos[u] < dequeue_pos /\ enqueue_pos <= pos[u] + N
        BY <4>1 DEF IInv, OwnerInv
      <4>3. Slot(pos[u]) # Slot(pos[t])
        BY <1>1, <1>4, <1>6, <4>1, <4>2, SMT
      <4> QED BY <1>5, <4>1, <4>2, <4>3 DEF IInv, OwnerInv
    <3> QED BY <3>1, <3>2
  <2>3. ASSUME NEW u \in Threads, Owns(u)' PROVE Owns(u)
    BY <1>3, <2>3
  <2> QED BY <1>1, <2>1, <2>2, <2>3, SMT DEF IInv, OwnerInv, Threads
<1>10. CellInv'
  <2>1. ASSUME NEW p \in Nat, dequeue_pos <= p, p < enqueue_pos
        PROVE  \/ sequence'[Slot(p)] = p + 1 /\ buffer'[Slot(p)] # NoValue
               \/ \E u \in Producers : Owns(u)' /\ pos[u] = p
    <3>1. Slot(p) # Slot(pos[t])
      BY <1>1, <1>4, <1>6, <2>1, SMT
    <3> QED BY <1>1, <1>3, <1>5, <2>1, <3>1 DEF IInv, CellInv, Threads
  <2>2. ASSUME NEW p \in Nat, enqueue_pos <= p, p < dequeue_pos + N
        PROVE  \/ sequence'[Slot(p)] = p /\ buffer'[Slot(p)] = NoValue
               \/ \E u \in Consumers : Owns(u)' /\ pos[u] + N = p
    <3>1. CASE p = pos[t] + N
      BY <1>1, <1>3, <3>1
    <3>2. CASE ~(p = pos[t] + N)
      <4>1. Slot(p) # Slot(pos[t])
        <5>1. pos[t] + N \in Nat /\ Slot(pos[t] + N) = Slot(pos[t])
          BY <1>1, SlotFacts, SMT
        <5>2. \/ p < pos[t] + N /\ pos[t] + N < p + N
              \/ pos[t] + N < p /\ p < pos[t] + N + N
          BY <1>1, <1>4, <2>2, <3>2, SMT
        <5> QED BY <5>1, <5>2, SlotFacts
      <4>2. \A u \in Consumers : Owns(u) /\ pos[u] + N = p => Owns(u)'
        BY <1>1, <1>3, <3>2 DEF Threads
      <4> QED BY <1>1, <1>5, <2>2, <4>1, <4>2 DEF IInv, CellInv
    <3> QED BY <3>1, <3>2
  <2>3. ASSUME NEW p \in Nat, p < dequeue_pos PROVE sequence'[Slot(p)] > p
    BY <1>1, <2>3 DEF IInv, CellInv, PopRead
  <2> QED BY <1>1, <2>1, <2>2, <2>3 DEF CellInv
<1>11. CasInv'
  <2>1. sequence' = sequence
    BY DEF PopRead
  <2> QED BY <1>1, <1>2, <2>1 DEF IInv, CasInv, Threads
<1> QED BY <1>7, <1>8, <1>9, <1>10, <1>11 DEF IInv

(* The sequence number hands the empty cell over to the next lap.          *)
LEMMA PopReleaseKeeps ==
  ASSUME N >= 2, IInv, NEW t \in Consumers, PopRelease(t)
  PROVE  IInv'
<1>1. /\ enqueue_pos \in Nat /\ dequeue_pos \in Nat /\ N \in Nat
      /\ \A u \in Threads : pos[u] \in Nat
      /\ t \in Threads /\ t \notin Producers
      /\ UNCHANGED <<enqueue_pos, dequeue_pos, pos, value>>
  BY NType, MpmcAssumption DEF IInv, TypeOK, PopRelease, ReleaseWith, Threads
<1>2. /\ pc[t] = "release" /\ pc'[t] = "idle"
      /\ \A u \in Threads : u # t => pc'[u] = pc[u]
  BY <1>1, SMT DEF IInv, TypeOK, PopRelease, ReleaseWith
<1>3. Owns(t) /\ ~Owns(t)' /\ \A u \in Threads : u # t => (Owns(u)' <=> Owns(u))
  BY <1>2 DEF Owns
<1>4. /\ pos[t] < dequeue_pos /\ enqueue_pos <= pos[t] + N
      /\ dequeue_pos <= enqueue_pos /\ sequence[Slot(pos[t])] = pos[t] + 1 /\ buffer[Slot(pos[t])] = NoValue
  BY <1>1, <1>2, <1>3 DEF IInv, OwnerInv, CounterInv
<1>5. /\ sequence'[Slot(pos[t])] = pos[t] + N /\ buffer'[Slot(pos[t])] = buffer[Slot(pos[t])]
      /\ \A p \in Nat : Slot(p) # Slot(pos[t]) =>
           sequence'[Slot(p)] = sequence[Slot(p)] /\ buffer'[Slot(p)] = buffer[Slot(p)]
  <2>1. \A p \in Nat : Slot(p) \in 0 .. N - 1
    BY SlotFacts
  <2>2. sequence \in [0 .. N - 1 -> Nat] /\ buffer \in [0 .. N - 1 -> Values \cup {NoValue}]
    BY DEF IInv, TypeOK
  <2>3. pos[t] + (N - 1) + 1 = pos[t] + N
    BY <1>1, SMT
  <2> QED BY <1>1, <2>1, <2>2, <2>3 DEF PopRelease, ReleaseWith
<1>6. \A p \in Nat : p # pos[t] /\ p < pos[t] + N /\ pos[t] < p + N =>
           Slot(p) # Slot(pos[t])
  BY <1>1, SlotFacts, SMT
<1>7. TypeOK'
  <2>1. Slot(pos[t]) \in 0 .. N - 1
    BY <1>1, SlotFacts
  <2>2. sequence' \in [0 .. N - 1 -> Nat]
    BY <1>1, <2>1, SMT DEF IInv, TypeOK, PopRelease, ReleaseWith
  <2>3. buffer' \in [0 .. N - 1 -> Values \cup {NoValue}]
    BY <1>1, <2>1 DEF IInv, TypeOK, PopRelease, ReleaseWith
  <2>4. pc' \in [Threads -> {"idle", "loadSeq", "reload", "cas", "write",
                           "publish", "read", "release", "dropped"}]
    BY <1>1 DEF IInv, TypeOK, PopRelease, ReleaseWith
  <2>5. got' \in [Consumers -> Values \cup {NoValue}]
    BY <1>1, <2>1 DEF IInv, TypeOK, PopRelease, ReleaseWith
  <2> QED BY <1>1, <2>2, <2>3, <2>4, <2>5 DEF IInv, TypeOK
<1>8. CounterInv'
  BY <1>1, <1>2, SMT DEF IInv, CounterInv, PushSteps, PopSteps, Threads
<1>9. OwnerInv'
  <2>1. ASSUME NEW u \in Producers, Owns(u)'
        PROVE  /\ dequeue_pos <= pos[u] /\ pos[u] < enqueue_pos
               /\ sequence'[Slot(pos[u])] = pos[u]
               /\ pc'[u] = "publish" => buffer'[Slot(pos[u])] # NoValue
    <3>1. Owns(u) /\ pos[u] \in Nat /\ pc'[u] = pc[u]
      BY <1>1, <1>2, <1>3, <2>1 DEF Threads
    <3>2. dequeue_pos <= pos[u] /\ pos[u] < enqueue_pos
      BY <3>1 DEF IInv, OwnerInv
    <3>3. Slot(pos[u]) # Slot(pos[t])
      BY <1>1, <1>4, <1>6, <3>1, <3>2, SMT
    <3> QED BY <1>5, <3>1, <3>2, <3>3 DEF IInv, OwnerInv
  <2>2. ASSUME NEW u \in Consumers, Owns(u)'
        PROVE  /\ pos[u] < dequeue_pos /\ enqueue_pos <= pos[u] + N
               /\ sequence'[Slot(pos[u])] = pos[u] + 1
               /\ pc'[u] = "read" <=> buffer'[Slot(pos[u])] # NoValue
    <3>1. CASE u = t
      BY <1>3, <2>2, <3>1
    <3>2. CASE u # t
      <4>1. Owns(u) /\ pos[u] \in Nat /\ pos[u] # pos[t] /\ pc'[u] = pc[u]
        BY <1>1, <1>2, <1>3, <2>2, <3>2 DEF IInv, OwnerInv, Threads
      <4>2. pos[u] < dequeue_pos /\ enqueue_pos <= pos[u] + N
        BY <4>1 DEF IInv, OwnerInv
      <4>3. Slot(pos[u]) # Slot(pos[t])
        BY <1>1, <1>4, <1>6, <4>1, <4>2, SMT
      <4> QED BY <1>5, <4>1, <4>2, <4>3 DEF IInv, OwnerInv
    <3> QED BY <3>1, <3>2
  <2>3. ASSUME NEW u \in Threads, Owns(u)' PROVE Owns(u)
    BY <1>3, <2>3
  <2> QED BY <1>1, <2>1, <2>2, <2>3, SMT DEF IInv, OwnerInv, Threads
<1>10. CellInv'
  <2>1. ASSUME NEW p \in Nat, dequeue_pos <= p, p < enqueue_pos
        PROVE  \/ sequence'[Slot(p)] = p + 1 /\ buffer'[Slot(p)] # NoValue
               \/ \E u \in Producers : Owns(u)' /\ pos[u] = p
    <3>1. Slot(p) # Slot(pos[t])
      BY <1>1, <1>4, <1>6, <2>1, SMT
    <3> QED BY <1>1, <1>3, <1>5, <2>1, <3>1 DEF IInv, CellInv, Threads
  <2>2. ASSUME NEW p \in Nat, enqueue_pos <= p, p < dequeue_pos + N
        PROVE  \/ sequence'[Slot(p)] = p /\ buffer'[Slot(p)] = NoValue
               \/ \E u \in Consumers : Owns(u)' /\ pos[u] + N = p
    <3>1. CASE p = pos[t] + N
      BY <1>1, <1>4, <1>5, <3>1, SlotFacts
    <3>2. CASE ~(p = pos[t] + N)
      <4>1. Slot(p) # Slot(pos[t])
        <5>1. pos[t] + N \in Nat /\ Slot(pos[t] + N) = Slot(pos[t])
          BY <1>1, SlotFacts, SMT
        <5>2. \/ p < pos[t] + N /\ pos[t] + N < p + N
              \/ pos[t] + N < p /\ p < pos[t] + N + N
          BY <1>1, <1>4, <2>2, <3>2, SMT
        <5> QED BY <5>1, <5>2, SlotFacts
      <4>2. \A u \in Consumers : Owns(u) /\ pos[u] + N = p => Owns(u)'
        BY <1>1, <1>3, <3>2 DEF Threads
      <4> QED BY <1>1, <1>5, <2>2, <4>1, <4>2 DEF IInv, CellInv
    <3> QED BY <3>1, <3>2
  <2>3. ASSUME NEW p \in Nat, p < dequeue_pos PROVE sequence'[Slot(p)] > p
    <3>1. CASE Slot(p) = Slot(pos[t])
      BY <1>1, <1>4, <1>5, <2>3, <3>1, SMT
    <3>2. CASE Slot(p) # Slot(pos[t])
      BY <1>5, <2>3, <3>2 DEF IInv, CellInv
    <3> QED BY <3>1, <3>2
  <2> QED BY <1>1, <2>1, <2>2, <2>3 DEF CellInv
<1>11. CasInv'
  <2>1. ASSUME NEW u \in Producers, pc'[u] = "cas", pos[u] = enqueue_pos
        PROVE  sequence'[Slot(enqueue_pos)] = enqueue_pos
    <3>1. sequence[Slot(enqueue_pos)] = enqueue_pos
      BY <1>1, <1>2, <2>1 DEF IInv, CasInv, Threads
    <3>2. Slot(enqueue_pos) # Slot(pos[t])
      BY <1>1, <1>4, <1>6, <3>1, SMT
    <3> QED BY <1>1, <1>5, <3>1, <3>2
  <2>2. ASSUME NEW u \in Consumers, pc'[u] = "cas", pos[u] = dequeue_pos
        PROVE  sequence'[Slot(dequeue_pos)] = dequeue_pos + 1
    <3>1. sequence[Slot(dequeue_pos)] = dequeue_pos + 1
      BY <1>1, <1>2, <2>2 DEF IInv, CasInv, Threads
    <3>2. Slot(dequeue_pos) # Slot(pos[t])
      BY <1>1, <1>4, <3>1, SMT
    <3> QED BY <1>1, <1>5, <3>1, <3>2
  <2> QED BY <1>1, <2>1, <2>2 DEF CasInv
<1> QED BY <1>7, <1>8, <1>9, <1>10, <1>11 DEF IInv

(* Dropping an idle queue empties it and leaves every cell free for the    *)
(* position a lap later.                                                   *)
LEMMA DropKeeps ==
  ASSUME N >= 2, IInv, Drop
  PROVE  IInv'
<1>1. /\ enqueue_pos \in Nat /\ dequeue_pos \in Nat /\ N \in Nat
      /\ dequeue_pos <= enqueue_pos /\ enqueue_pos <= dequeue_pos + N
      /\ dequeue_pos' = enqueue_pos /\ UNCHANGED <<enqueue_pos, pos, value, got>>
  BY NType DEF IInv, TypeOK, CounterInv, Drop
<1>2. \A t \in Threads : pc'[t] = "dropped" /\ ~Owns(t) /\ ~Owns(t)'
  BY DEF Drop, Owns
<1>3. \A i \in 0 .. N - 1 :
        /\ buffer'[i] = NoValue
        /\ buffer[i] = NoValue => sequence'[i] = sequence[i]
        /\ buffer[i] # NoValue => sequence'[i] = sequence[i] + N - 1
  BY DEF Drop
<1>4. \A i \in 0 .. N - 1 : sequence[i] \in Nat
  BY DEF IInv, TypeOK
<1>5. \A p \in Nat : dequeue_pos <= p /\ p < enqueue_pos =>
        sequence[Slot(p)] = p + 1 /\ buffer[Slot(p)] # NoValue
  BY <1>2 DEF IInv, CellInv, Threads
<1>6. \A p \in Nat : enqueue_pos <= p /\ p < dequeue_pos + N =>
        sequence[Slot(p)] = p /\ buffer[Slot(p)] = NoValue
  BY <1>2 DEF IInv, CellInv, Threads
<1>7. TypeOK'
  <2>1. sequence' \in [0 .. N - 1 -> Nat]
    BY <1>1, <1>4, SMT DEF Drop
  <2> QED BY <1>1, <2>1, SMT DEF IInv, TypeOK, Drop
<1>8. CounterInv'
  BY <1>1, <1>2, SMT DEF IInv, CounterInv, TypeOK, PushSteps, PopSteps, Threads
<1>9. OwnerInv' /\ CasInv'
  BY <1>2 DEF OwnerInv, CasInv, Threads
<1>10. CellInv'
  <2>1. ASSUME NEW p \in Nat, enqueue_pos <= p, p < enqueue_pos + N
        PROVE  sequence'[Slot(p)] = p /\ buffer'[Slot(p)] = NoValue
    <3>1. CASE p < dequeue_pos + N
      BY <1>3, <1>6, <2>1, <3>1, SlotFacts
    <3>2. CASE p >= dequeue_pos + N
      <4>1. p - N \in Nat /\ dequeue_pos <= p - N /\ p - N < enqueue_pos /\ p - N + N = p
        BY <1>1, <2>1, <3>2, SMT
      <4>2. Slot(p) = Slot(p - N) /\ Slot(p) \in 0 .. N - 1
        BY <4>1, SlotFacts
      <4>3. sequence[Slot(p)] = p - N + 1 /\ buffer[Slot(p)] # NoValue
        BY <1>5, <4>1, <4>2
      <4> QED BY <1>1, <1>3, <4>1, <4>2, <4>3, SMT
    <3> QED BY <1>1, <3>1, <3>2, SMT
  <2>2. ASSUME NEW p \in Nat, p < enqueue_pos PROVE sequence'[Slot(p)] > p
    <3>1. Slot(p) \in 0 .. N - 1 /\ sequence[Slot(p)] \in Nat
      BY <1>4, SlotFacts
    <3>2. sequence[Slot(p)] > p
      BY <1>1, <1>5, <2>2, SMT DEF IInv, CellInv
    <3> QED BY <1>1, <1>3, <3>1, <3>2, SMT
  <2> QED BY <1>1, <2>1, <2>2, SMT DEF CellInv
<1> QED BY <1>7, <1>8, <1>9, <1>10 DEF IInv

(* Every step of a queue of two cells or more keeps the invariant.         *)
LEMMA NextKeeps == N >= 2 /\ IInv /\ [Next]_vars => IInv'
<1> SUFFICES ASSUME N >= 2, IInv, [Next]_vars PROVE IInv'
  OBVIOUS
<1>1. /\ enqueue_pos \in Nat /\ dequeue_pos \in Nat
      /\ pos \in [Threads -> Nat]
      /\ value \in [Producers -> Values \cup {NoValue}]
      /\ \A t \in Producers : t \in Threads /\ t \notin Consumers
      /\ \A t \in Consumers : t \in Threads /\ t \notin Producers
  BY MpmcAssumption DEF IInv, TypeOK, Threads
<1>2. /\ \A t \in Producers : pos[t] <= enqueue_pos
      /\ \A t \in Consumers : pos[t] <= dequeue_pos
      /\ \A t \in Producers : pc[t] \in PushSteps => value[t] \in Values
  BY DEF IInv, CounterInv
<1>3. ASSUME NEW t \in Threads, NEW l \in {"idle", "loadSeq", "reload", "cas"},
             pc[t] \in {"idle", "loadSeq", "reload", "cas"},
             pc' = [pc EXCEPT ![t] = l]
      PROVE  ~Owns(t) /\ ~Owns(t)'
  BY <1>3 DEF Owns, IInv, TypeOK
<1>4. ASSUME NEW t \in Producers, NEW v \in Values, PushStart(t, v) PROVE IInv'
  <2>1. ~Owns(t) /\ ~Owns(t)'
    BY <1>1, <1>3, <1>4 DEF PushStart
  <2>2. /\ value' \in [Producers -> Values \cup {NoValue}]
        /\ value'[t] \in Values
        /\ \A u \in Producers : u # t => value'[u] = value[u]
    BY <1>1, <1>4 DEF PushStart
  <2>3. \E p \in Nat, l \in {"idle", "loadSeq", "reload", "cas"} :
          /\ pos' = [pos EXCEPT ![t] = p] /\ pc' = [pc EXCEPT ![t] = l]
          /\ p <= enqueue_pos /\ l # "cas"
    <3>1. enqueue_pos <= enqueue_pos /\ enqueue_pos \in Nat
      BY <1>1, SMT
    <3> USE <3>1
    <3> WITNESS enqueue_pos \in Nat, "loadSeq" \in {"idle", "loadSeq", "reload", "cas"}
    <3> QED BY <1>4, <3>1, Zenon DEF PushStart
  <2>4. UNCHANGED <<enqueue_pos, dequeue_pos, cells, got>>
    BY <1>4 DEF PushStart
  <2> QED BY <1>1, <2>1, <2>2, <2>3, <2>4, MovesKeep, Zenon
<1>5. ASSUME NEW t \in Producers, PushLoadSeq(t) PROVE IInv'
  <2>1. PICK l \in {"idle", "reload", "cas"} :
          pc' = [pc EXCEPT ![t] = l] /\ (l = "cas" => sequence[Slot(pos[t])] = pos[t])
    BY <1>5 DEF PushLoadSeq, Compare
  <2>2. ~Owns(t) /\ ~Owns(t)'
    BY <1>1, <1>3, <1>5, <2>1 DEF PushLoadSeq
  <2>3. value[t] \in Values /\ pos' = [pos EXCEPT ![t] = pos[t]] /\ pos[t] \in Nat
    BY <1>1, <1>2, <1>5 DEF PushLoadSeq, PushSteps
  <2> QED BY <1>1, <1>2, <1>5, <2>1, <2>2, <2>3, MovesKeep DEF PushLoadSeq
<1>6. ASSUME NEW t \in Producers, PushReload(t) \/ PushCasFail(t) PROVE IInv'
  <2>1. ~Owns(t) /\ ~Owns(t)'
    BY <1>1, <1>3, <1>6 DEF PushReload, PushCasFail
  <2>2. value[t] \in Values
    BY <1>2, <1>6 DEF PushReload, PushCasFail, PushSteps
  <2> QED BY <1>1, <1>6, <2>1, <2>2, MovesKeep, SMT DEF PushReload, PushCasFail
<1>7. ASSUME NEW t \in Consumers, PopStart(t) \/ PopReload(t) \/ PopCasFail(t) PROVE IInv'
  <2>1. ~Owns(t) /\ ~Owns(t)'
    BY <1>1, <1>3, <1>7 DEF PopStart, PopReload, PopCasFail
  <2> QED BY <1>1, <1>7, <2>1, MovesKeep, SMT DEF PopStart, PopReload, PopCasFail
<1>8. ASSUME NEW t \in Consumers, PopLoadSeq(t) PROVE IInv'
  <2>1. PICK l \in {"idle", "reload", "cas"} :
          pc' = [pc EXCEPT ![t] = l] /\ (l = "cas" => sequence[Slot(pos[t])] = pos[t] + 1)
    BY <1>8 DEF PopLoadSeq, Compare
  <2>2. ~Owns(t) /\ ~Owns(t)'
    BY <1>1, <1>3, <1>8, <2>1 DEF PopLoadSeq
  <2>3. pos' = [pos EXCEPT ![t] = pos[t]] /\ pos[t] \in Nat
    BY <1>1, <1>8 DEF PopLoadSeq
  <2> QED BY <1>1, <1>2, <1>8, <2>1, <2>2, <2>3, MovesKeep DEF PopLoadSeq
<1>9. CASE UNCHANGED vars
  BY <1>9 DEF vars, cells, IInv, TypeOK, CounterInv, OwnerInv, CellInv, CasInv, Owns
<1> QED
  BY <1>4, <1>5, <1>6, <1>7, <1>8, <1>9, PushCasKeeps, PushWriteKeeps, PushPublishKeeps,
     PopCasKeeps, PopReadKeeps, PopReleaseKeeps, DropKeeps
  DEF Next, Push, Pop

(* The invariant holds in every state of a queue of two cells or more.     *)
THEOREM Invariance == N >= 2 /\ Spec => []IInv
<1> SUFFICES ASSUME N >= 2 PROVE Spec => []IInv
  OBVIOUS
<1>1. IInv /\ [Next]_vars => IInv'
  BY NextKeeps
<1> QED BY <1>1, InitIInv, PTL DEF Spec

-----------------------------------------------------------------------------
(* What callers rely on                                                    *)

(* A rejected push found the queue full or its cell still being emptied,   *)
(* and a pop that returned None found the queue empty or its cell still    *)
(* being filled (the comparisons of try_push and try_pop).                 *)
THEOREM Rejections == N >= 2 /\ Spec => RejectionsJustified
<1> SUFFICES ASSUME N >= 2 PROVE Spec => RejectionsJustified
  OBVIOUS
<1> DEFINE Justified ==
     /\ \A t \in Producers : pc[t] = "loadSeq" /\ pc'[t] = "idle" =>
          \/ enqueue_pos - dequeue_pos >= N
          \/ \E c \in Consumers : Owns(c) /\ Slot(pos[c]) = Slot(pos[t])
     /\ \A t \in Consumers : pc[t] = "loadSeq" /\ pc'[t] = "idle" =>
          \/ enqueue_pos = dequeue_pos
          \/ \E p \in Producers : Owns(p) /\ pos[p] = pos[t]
<1>1. IInv /\ [Next]_vars => [Justified]_vars
  <2> SUFFICES ASSUME IInv, Next PROVE Justified
    OBVIOUS
  <2>1. /\ enqueue_pos \in Nat /\ dequeue_pos \in Nat /\ N \in Nat
        /\ \A u \in Threads : pos[u] \in Nat
        /\ dequeue_pos <= enqueue_pos /\ enqueue_pos <= dequeue_pos + N
        /\ \A u \in Producers : pos[u] <= enqueue_pos
        /\ \A u \in Consumers : pos[u] <= dequeue_pos
        /\ \A u \in Producers : u \notin Consumers
    BY NType, MpmcAssumption DEF IInv, TypeOK, CounterInv
  <2>2. ASSUME NEW t \in Producers, pc[t] = "loadSeq", pc'[t] = "idle"
        PROVE  sequence[Slot(pos[t])] < pos[t]
    BY <2>1, <2>2, Zenon DEF IInv, TypeOK, Next, Push, Pop, Threads, Compare, Drop,
       PushStart, PushLoadSeq, PushReload, PushCas, PushCasFail, PushWrite, PushPublish,
       PopStart, PopLoadSeq, PopReload, PopCas, PopCasFail, PopRead, PopRelease, ReleaseWith
  <2>3. ASSUME NEW t \in Consumers, pc[t] = "loadSeq", pc'[t] = "idle"
        PROVE  sequence[Slot(pos[t])] < pos[t] + 1
    BY <2>1, <2>3, Zenon DEF IInv, TypeOK, Next, Push, Pop, Threads, Compare, Drop,
       PushStart, PushLoadSeq, PushReload, PushCas, PushCasFail, PushWrite, PushPublish,
       PopStart, PopLoadSeq, PopReload, PopCas, PopCasFail, PopRead, PopRelease, ReleaseWith
  <2>4. ASSUME NEW t \in Producers, pc[t] = "loadSeq", pc'[t] = "idle",
               enqueue_pos - dequeue_pos < N
        PROVE  \E c \in Consumers : Owns(c) /\ Slot(pos[c]) = Slot(pos[t])
    <3>1. pos[t] \in Nat /\ pos[t] <= enqueue_pos /\ sequence[Slot(pos[t])] < pos[t]
          /\ sequence[Slot(pos[t])] \in Nat
      BY <2>1, <2>2, <2>4, SlotFacts DEF Threads, IInv, TypeOK
    <3>2. ~(pos[t] < dequeue_pos)
      BY <2>1, <3>1, SMT DEF IInv, CellInv
    <3>3. ~(dequeue_pos <= pos[t] /\ pos[t] < enqueue_pos)
      <4> SUFFICES ASSUME dequeue_pos <= pos[t], pos[t] < enqueue_pos PROVE FALSE
        OBVIOUS
      <4>1. \/ sequence[Slot(pos[t])] = pos[t] + 1
            \/ \E u \in Producers : Owns(u) /\ pos[u] = pos[t]
        BY <3>1 DEF IInv, CellInv
      <4>2. sequence[Slot(pos[t])] \in {pos[t], pos[t] + 1}
        BY <4>1 DEF IInv, OwnerInv
      <4> QED BY <3>1, <4>2, SMT
    <3>4. pos[t] = enqueue_pos /\ pos[t] < dequeue_pos + N
      BY <2>1, <2>4, <3>1, <3>2, <3>3, SMT
    <3>5. PICK c \in Consumers : Owns(c) /\ pos[c] + N = pos[t]
      <4>1. sequence[Slot(pos[t])] # pos[t]
        BY <3>1, SMT
      <4>2. enqueue_pos <= pos[t]
        BY <2>1, <3>4, SMT
      <4> QED BY <3>1, <3>4, <4>1, <4>2 DEF IInv, CellInv
    <3> QED BY <2>1, <3>5, SlotFacts DEF Threads
  <2>5. ASSUME NEW t \in Consumers, pc[t] = "loadSeq", pc'[t] = "idle",
               enqueue_pos # dequeue_pos
        PROVE  \E p \in Producers : Owns(p) /\ pos[p] = pos[t]
    <3>1. pos[t] \in Nat /\ pos[t] <= dequeue_pos /\ sequence[Slot(pos[t])] < pos[t] + 1
          /\ sequence[Slot(pos[t])] \in Nat
      BY <2>1, <2>3, <2>5, SlotFacts DEF Threads, IInv, TypeOK
    <3>2. ~(pos[t] < dequeue_pos)
      BY <2>1, <3>1, SMT DEF IInv, CellInv
    <3>3. dequeue_pos <= pos[t] /\ pos[t] < enqueue_pos
      BY <2>1, <2>5, <3>1, <3>2, SMT
    <3>4. sequence[Slot(pos[t])] # pos[t] + 1
      BY <3>1, SMT
    <3> QED BY <3>1, <3>3, <3>4 DEF IInv, CellInv
  <2> QED BY <2>1, <2>4, <2>5, SMT
<1> HIDE DEF Justified
<1>2. Spec => [][Justified]_vars
  BY <1>1, Invariance, PTL DEF Spec
<1> QED BY <1>2 DEF Justified, RejectionsJustified

(* Every variable keeps its type.                                          *)
THEOREM TypeCorrect == N >= 2 /\ Spec => []TypeOK
<1>1. IInv => TypeOK
  BY DEF IInv
<1> QED BY <1>1, Invariance, PTL

-----------------------------------------------------------------------------
(* The queue is a bounded FIFO                                             *)

(* A position in the queue whose producer has not written yet holds that   *)
(* producer's value, any other what is in its cell.                        *)
ItemOK ==
  \A p \in Nat :
    /\ \A t \in Producers : pc[t] = "write" /\ pos[t] = p => Item(p) = value[t]
    /\ (\A t \in Producers : pc[t] = "write" => pos[t] # p) => Item(p) = buffer[Slot(p)]

LEMMA ItemIs == IInv => ItemOK
<1> SUFFICES ASSUME IInv, NEW p \in Nat
             PROVE  /\ \A t \in Producers : pc[t] = "write" /\ pos[t] = p => Item(p) = value[t]
                    /\ (\A t \in Producers : pc[t] = "write" => pos[t] # p)
                          => Item(p) = buffer[Slot(p)]
  BY DEF ItemOK
<1>1. ASSUME NEW t \in Producers, pc[t] = "write", pos[t] = p
      PROVE  Item(p) = value[t]
  <2>1. \A u \in Producers : pc[u] = "write" /\ pos[u] = p => u = t
    BY <1>1 DEF IInv, OwnerInv, Owns
  <2>2. (CHOOSE u \in Producers : pc[u] = "write" /\ pos[u] = p) = t
    BY <1>1, <2>1
  <2> QED BY <1>1, <2>2 DEF Item
<1>2. ASSUME \A t \in Producers : pc[t] = "write" => pos[t] # p
      PROVE  Item(p) = buffer[Slot(p)]
  BY <1>2 DEF Item
<1> QED BY <1>1, <1>2

(* Every item in the queue is a value that was pushed.                     *)
LEMMA ItemType ==
  ASSUME IInv, NEW p \in Nat, dequeue_pos <= p, p < enqueue_pos
  PROVE  Item(p) \in Values
<1>1. CASE \E t \in Producers : pc[t] = "write" /\ pos[t] = p
  BY <1>1, ItemIs DEF ItemOK, IInv, CounterInv, PushSteps
<1>2. CASE \A t \in Producers : pc[t] = "write" => pos[t] # p
  <2>1. buffer[Slot(p)] # NoValue
    <3>1. CASE \E t \in Producers : Owns(t) /\ pos[t] = p
      BY <1>2, <3>1 DEF IInv, OwnerInv, CounterInv, Owns, PushSteps
    <3>2. CASE ~ \E t \in Producers : Owns(t) /\ pos[t] = p
      BY <3>2 DEF IInv, CellInv
    <3> QED BY <3>1, <3>2
  <2>2. Item(p) = buffer[Slot(p)]
    BY <1>2, ItemIs DEF ItemOK
  <2>3. Slot(p) \in 0 .. N - 1 /\ buffer \in [0 .. N - 1 -> Values \cup {NoValue}]
    BY SlotFacts DEF IInv, TypeOK
  <2> QED BY <2>1, <2>2, <2>3
<1> QED BY <1>1, <1>2

(* The contents as a sequence.                                             *)
ContentsOK == /\ Contents \in Seq(Values)
              /\ Len(Contents) = enqueue_pos - dequeue_pos
              /\ \A i \in 1 .. enqueue_pos - dequeue_pos :
                   Contents[i] = Item(dequeue_pos + i - 1)

LEMMA ContentsSeq == IInv => ContentsOK
<1> SUFFICES ASSUME IInv PROVE ContentsOK
  OBVIOUS
<1>1. enqueue_pos - dequeue_pos \in Nat /\ enqueue_pos \in Nat /\ dequeue_pos \in Nat
  BY NType, SMT DEF IInv, TypeOK, CounterInv
<1>2. ASSUME NEW i \in 1 .. enqueue_pos - dequeue_pos
      PROVE  Item(dequeue_pos + i - 1) \in Values
  <2>1. /\ dequeue_pos + i - 1 \in Nat
        /\ dequeue_pos <= dequeue_pos + i - 1 /\ dequeue_pos + i - 1 < enqueue_pos
    BY <1>1, SMT
  <2> QED BY <2>1, ItemType
<1> QED BY <1>1, <1>2, SMT DEF Contents, ContentsOK

(* A step that moves no counter, and changes no item and no value read,    *)
(* leaves the FIFO alone.                                                  *)
LEMMA Stutter ==
  ASSUME IInv, IInv', UNCHANGED <<enqueue_pos, dequeue_pos>>, Popped' = Popped,
         \A p \in Nat : dequeue_pos <= p /\ p < enqueue_pos => Item(p)' = Item(p)
  PROVE  UNCHANGED Fifo!vars
<1>1. ContentsOK /\ ContentsOK'
  BY ContentsSeq, PTL
<1>2. enqueue_pos \in Nat /\ dequeue_pos \in Nat
  BY DEF IInv, TypeOK
<1>3. \A i \in 1 .. enqueue_pos - dequeue_pos : Contents'[i] = Contents[i]
  <2> TAKE i \in 1 .. enqueue_pos - dequeue_pos
  <2>1. /\ dequeue_pos + i - 1 \in Nat
        /\ dequeue_pos <= dequeue_pos + i - 1 /\ dequeue_pos + i - 1 < enqueue_pos
    BY <1>2, SMT
  <2>2. Item(dequeue_pos + i - 1)' = Item(dequeue_pos + i - 1)
    BY <2>1
  <2>3. dequeue_pos' = dequeue_pos /\ enqueue_pos' = enqueue_pos
    OBVIOUS
  <2> QED BY <1>1, <2>2, <2>3 DEF ContentsOK
<1>4. Contents' = Contents
  BY <1>1, <1>3, SMT DEF ContentsOK
<1> QED BY <1>4 DEF Fifo!vars

(* An item stays when its cell does and its producer stays or leaves.      *)
LEMMA ItemKept ==
  ASSUME IInv, IInv', NEW p \in Nat,
         \A t \in Producers : pc'[t] = "write" /\ pos'[t] = p
                               <=> pc[t] = "write" /\ pos[t] = p,
         \A t \in Producers : pc[t] = "write" => value'[t] = value[t],
         buffer'[Slot(p)] = buffer[Slot(p)]
  PROVE  Item(p)' = Item(p)
<1>1. ItemOK /\ ItemOK'
  BY ItemIs, PTL
<1>2. CASE \E t \in Producers : pc[t] = "write" /\ pos[t] = p
  BY <1>1, <1>2 DEF ItemOK
<1>3. CASE ~ \E t \in Producers : pc[t] = "write" /\ pos[t] = p
  BY <1>1, <1>3 DEF ItemOK
<1> QED BY <1>2, <1>3

(* Moves before a cell is owned change nothing the FIFO shows.             *)
LEMMA MovesStutter ==
  ASSUME IInv, IInv', NEW t \in Threads,
         UNCHANGED <<enqueue_pos, dequeue_pos, buffer, got>>,
         \A u \in Threads : u # t => pc'[u] = pc[u] /\ pos'[u] = pos[u],
         pc[t] \notin {"write", "read"}, pc'[t] \notin {"write", "read"},
         \A u \in Producers : u # t => value'[u] = value[u]
  PROVE  UNCHANGED Fifo!vars
<1>1. Popped' = Popped
  <2>1. ASSUME NEW c \in Consumers
        PROVE  (IF pc'[c] = "read" THEN buffer'[Slot(pos'[c])] ELSE got'[c])
                 = (IF pc[c] = "read" THEN buffer[Slot(pos[c])] ELSE got[c])
    BY DEF Threads
  <2> QED BY <2>1 DEF Popped
<1>2. ASSUME NEW p \in Nat PROVE Item(p)' = Item(p)
  <2>1. \A u \in Producers : pc'[u] = "write" /\ pos'[u] = p
                               <=> pc[u] = "write" /\ pos[u] = p
    BY DEF Threads
  <2> QED BY <2>1, ItemKept
<1> QED BY <1>1, <1>2, Stutter

(* A producer's exchange appends its value.                                *)
LEMMA PushCasPuts ==
  ASSUME N >= 2, IInv, IInv', NEW t \in Producers, PushCas(t)
  PROVE  Fifo!Put(value[t]) /\ value[t] \in Values
<1>1. ContentsOK /\ ContentsOK' /\ ItemOK /\ ItemOK'
  BY ContentsSeq, ItemIs, PTL
<1>2. /\ enqueue_pos \in Nat /\ dequeue_pos \in Nat /\ N \in Nat
      /\ dequeue_pos <= enqueue_pos /\ enqueue_pos < dequeue_pos + N
      /\ pos[t] = enqueue_pos /\ enqueue_pos' = enqueue_pos + 1
      /\ UNCHANGED <<dequeue_pos, buffer, pos, value, got>>
      /\ t \in Threads /\ t \notin Consumers /\ value[t] \in Values
  BY NType, WonPush, MpmcAssumption
     DEF IInv, TypeOK, CounterInv, PushCas, Threads, cells, PushSteps
<1>3. pc'[t] = "write" /\ pc[t] = "cas" /\ \A u \in Threads : u # t => pc'[u] = pc[u]
  BY <1>2 DEF IInv, TypeOK, PushCas
<1>4. Popped' = Popped
  <2>1. ASSUME NEW c \in Consumers
        PROVE  (IF pc'[c] = "read" THEN buffer'[Slot(pos'[c])] ELSE got'[c])
                 = (IF pc[c] = "read" THEN buffer[Slot(pos[c])] ELSE got[c])
    BY <1>2, <1>3 DEF Threads
  <2> QED BY <2>1 DEF Popped
<1>5. ASSUME NEW p \in Nat, p < enqueue_pos PROVE Item(p)' = Item(p)
  <2>1. \A u \in Producers : pc'[u] = "write" /\ pos'[u] = p
                               <=> pc[u] = "write" /\ pos[u] = p
    <3> TAKE u \in Producers
    <3>1. CASE u = t
      BY <1>2, <1>3, <1>5, <3>1, SMT
    <3>2. CASE u # t
      BY <1>2, <1>3, <3>2 DEF Threads
    <3> QED BY <3>1, <3>2
  <2> QED BY <1>2, <2>1, ItemKept
<1>6. \A p \in Nat : p = enqueue_pos => Item(p)' = value[t]
  BY <1>1, <1>2, <1>3 DEF ItemOK
<1>7. \A i \in 1 .. enqueue_pos - dequeue_pos : Contents'[i] = Contents[i]
  <2> TAKE i \in 1 .. enqueue_pos - dequeue_pos
  <2>1. /\ dequeue_pos + i - 1 \in Nat /\ dequeue_pos + i - 1 < enqueue_pos
        /\ i \in 1 .. enqueue_pos' - dequeue_pos'
    BY <1>2, SMT
  <2> QED BY <1>1, <1>2, <1>5, <2>1 DEF ContentsOK
<1>8. Contents'[enqueue_pos - dequeue_pos + 1] = value[t]
  <2>1. /\ enqueue_pos - dequeue_pos + 1 \in 1 .. enqueue_pos' - dequeue_pos'
        /\ dequeue_pos + (enqueue_pos - dequeue_pos + 1) - 1 = enqueue_pos
    BY <1>2, SMT
  <2> QED BY <1>1, <1>2, <1>6, <2>1 DEF ContentsOK
<1>9. Contents' = Append(Contents, value[t]) /\ Len(Contents) < N
  <2>1. /\ Contents \in Seq(Values) /\ Contents' \in Seq(Values)
        /\ Len(Contents) = enqueue_pos - dequeue_pos
        /\ Len(Contents') = enqueue_pos - dequeue_pos + 1
    BY <1>1, <1>2, SMT DEF ContentsOK
  <2> QED BY <1>2, <1>7, <1>8, <2>1, SMT
<1> QED BY <1>2, <1>4, <1>9 DEF Fifo!Put

(* A consumer's exchange takes the oldest item.                            *)
LEMMA PopCasTakes ==
  ASSUME N >= 2, IInv, IInv', NEW t \in Consumers, PopCas(t)
  PROVE  Fifo!Take(t)
<1>1. ContentsOK /\ ContentsOK' /\ ItemOK
  BY ContentsSeq, ItemIs, PTL
<1>2. /\ enqueue_pos \in Nat /\ dequeue_pos \in Nat /\ N \in Nat
      /\ dequeue_pos < enqueue_pos
      /\ pos[t] = dequeue_pos /\ dequeue_pos' = dequeue_pos + 1
      /\ UNCHANGED <<enqueue_pos, buffer, pos, value, got>>
      /\ t \in Threads /\ t \notin Producers
      /\ \A u \in Producers : Owns(u) => pos[u] # dequeue_pos
  <2>1. ASSUME NEW u \in Producers, Owns(u) PROVE pos[u] # dequeue_pos
    BY <2>1, WonPop, SMT DEF IInv, TypeOK, Threads
  <2> QED BY <2>1, NType, WonPop, MpmcAssumption DEF IInv, TypeOK, PopCas, Threads, cells
<1>3. pc'[t] = "read" /\ \A u \in Threads : u # t => pc'[u] = pc[u]
  BY <1>2 DEF IInv, TypeOK, PopCas
<1>4. \A p \in Nat : p = dequeue_pos => Item(p) = buffer[Slot(p)]
  BY <1>1, <1>2 DEF ItemOK, Owns
<1>5. Contents[1] = buffer[Slot(dequeue_pos)]
  <2>1. 1 \in 1 .. enqueue_pos - dequeue_pos /\ dequeue_pos + 1 - 1 = dequeue_pos
    BY <1>2, SMT
  <2> QED BY <1>1, <1>2, <1>4, <2>1 DEF ContentsOK
<1>6. Popped' = [Popped EXCEPT ![t] = buffer[Slot(dequeue_pos)]]
  <2>1. ASSUME NEW c \in Consumers
        PROVE  (IF pc'[c] = "read" THEN buffer'[Slot(pos'[c])] ELSE got'[c])
                 = IF c = t THEN buffer[Slot(dequeue_pos)]
                   ELSE IF pc[c] = "read" THEN buffer[Slot(pos[c])] ELSE got[c]
    BY <1>2, <1>3 DEF Threads
  <2> DEFINE P == Popped
  <2>2. P = [c \in Consumers |-> P[c]] /\ Popped' = [c \in Consumers |-> Popped'[c]]
    BY DEF Popped
  <2>3. \A c \in Consumers :
          Popped'[c] = IF c = t THEN buffer[Slot(dequeue_pos)] ELSE P[c]
    BY <2>1 DEF Popped
  <2> HIDE DEF P
  <2>4. Popped' = [P EXCEPT ![t] = buffer[Slot(dequeue_pos)]]
    BY <2>2, <2>3
  <2> QED BY <2>4 DEF P
<1>7. ASSUME NEW p \in Nat PROVE Item(p)' = Item(p)
  <2>1. \A u \in Producers : pc'[u] = "write" /\ pos'[u] = p
                               <=> pc[u] = "write" /\ pos[u] = p
    BY <1>2, <1>3 DEF Threads
  <2> QED BY <1>2, <2>1, ItemKept
<1>8. \A i \in 1 .. enqueue_pos' - dequeue_pos' : Contents'[i] = Contents[i + 1]
  <2> TAKE i \in 1 .. enqueue_pos' - dequeue_pos'
  <2>1. /\ dequeue_pos' + i - 1 \in Nat
        /\ dequeue_pos' + i - 1 = dequeue_pos + (i + 1) - 1
        /\ i + 1 \in 1 .. enqueue_pos - dequeue_pos
    BY <1>2, SMT
  <2>2. \A p \in Nat : p = dequeue_pos' + i - 1 => Contents'[i] = Item(p)'
    BY <1>1 DEF ContentsOK
  <2> QED BY <1>1, <1>7, <2>1, <2>2 DEF ContentsOK
<1>9. /\ Contents \in Seq(Values) /\ Contents' \in Seq(Values)
      /\ Len(Contents) = enqueue_pos - dequeue_pos
      /\ Len(Contents') = enqueue_pos - dequeue_pos - 1
  BY <1>1, <1>2, SMT DEF ContentsOK
<1>10. Contents # <<>> /\ Head(Contents) = Contents[1] /\ Contents' = Tail(Contents)
  BY <1>2, <1>8, <1>9, SMT
<1> QED BY <1>5, <1>6, <1>10 DEF Fifo!Take

(* The value of a producer that writes it into its cell stays the item.    *)
LEMMA PushWriteStutters ==
  ASSUME IInv, IInv', NEW t \in Producers, PushWrite(t)
  PROVE  UNCHANGED Fifo!vars
<1>1. ItemOK /\ ItemOK'
  BY ItemIs, PTL
<1>2. /\ enqueue_pos \in Nat /\ dequeue_pos \in Nat /\ N \in Nat
      /\ enqueue_pos <= dequeue_pos + N
      /\ \A u \in Threads : pos[u] \in Nat
      /\ t \in Threads /\ t \notin Consumers /\ Owns(t)
      /\ dequeue_pos <= pos[t] /\ pos[t] < enqueue_pos
      /\ UNCHANGED <<enqueue_pos, dequeue_pos, pos, value, got>>
  BY NType, MpmcAssumption
     DEF IInv, TypeOK, CounterInv, OwnerInv, Owns, PushWrite, Threads
<1>3. /\ pc[t] = "write" /\ pc'[t] = "publish"
      /\ \A u \in Threads : u # t => pc'[u] = pc[u]
  BY <1>2 DEF IInv, TypeOK, PushWrite
<1>4. /\ buffer'[Slot(pos[t])] = value[t]
      /\ \A p \in Nat : Slot(p) # Slot(pos[t]) => buffer'[Slot(p)] = buffer[Slot(p)]
  BY <1>2, SlotFacts DEF IInv, TypeOK, PushWrite
<1>5. Popped' = Popped
  <2>1. ASSUME NEW c \in Consumers
        PROVE  (IF pc'[c] = "read" THEN buffer'[Slot(pos'[c])] ELSE got'[c])
                 = (IF pc[c] = "read" THEN buffer[Slot(pos[c])] ELSE got[c])
    <3>1. pc'[c] = pc[c] /\ pos'[c] = pos[c] /\ pos[c] \in Nat
      BY <1>2, <1>3 DEF Threads
    <3>2. CASE pc[c] = "read"
      <4>1. pos[c] < dequeue_pos /\ enqueue_pos <= pos[c] + N
        BY <3>2 DEF IInv, OwnerInv, Owns
      <4>2. pos[c] < pos[t] /\ pos[t] < pos[c] + N
        BY <1>2, <3>1, <4>1, SMT
      <4> QED BY <1>2, <1>4, <3>1, <4>2, SlotFacts
    <3>3. CASE pc[c] # "read"
      BY <1>2, <3>1, <3>3
    <3> QED BY <3>2, <3>3
  <2> QED BY <2>1 DEF Popped
<1>6. ASSUME NEW p \in Nat, dequeue_pos <= p, p < enqueue_pos PROVE Item(p)' = Item(p)
  <2>1. CASE p = pos[t]
    <3>1. Item(p) = value[t]
      BY <1>1, <1>3, <2>1 DEF ItemOK
    <3>2. \A u \in Producers : pc'[u] = "write" => pos'[u] # p
      <4> SUFFICES ASSUME NEW u \in Producers, pc'[u] = "write", pos'[u] = p PROVE FALSE
        OBVIOUS
      <4>1. u # t /\ Owns(u) /\ pos[u] = pos[t]
        BY <1>2, <1>3, <2>1 DEF Threads, Owns
      <4> QED BY <1>2, <4>1 DEF IInv, OwnerInv
    <3>3. Item(p)' = buffer'[Slot(p)]
      BY <1>1, <3>2 DEF ItemOK
    <3> QED BY <1>4, <2>1, <3>1, <3>3
  <2>2. CASE p # pos[t]
    <3>1. \/ p < pos[t] /\ pos[t] < p + N
          \/ pos[t] < p /\ p < pos[t] + N
      BY <1>2, <1>6, <2>2, SMT
    <3>2. Slot(p) # Slot(pos[t])
      BY <1>2, <3>1, SlotFacts
    <3>3. \A u \in Producers : pc'[u] = "write" /\ pos'[u] = p
                                 <=> pc[u] = "write" /\ pos[u] = p
      BY <1>2, <1>3, <2>2 DEF Threads
    <3> QED BY <1>2, <1>4, <3>2, <3>3, ItemKept
  <2> QED BY <2>1, <2>2
<1> QED BY <1>2, <1>5, <1>6, Stutter

(* What a consumer reads out of its cell is what its exchange took.        *)
LEMMA PopReadStutters ==
  ASSUME IInv, IInv', NEW t \in Consumers, PopRead(t)
  PROVE  UNCHANGED Fifo!vars
<1>1. /\ enqueue_pos \in Nat /\ dequeue_pos \in Nat /\ N \in Nat
      /\ dequeue_pos <= enqueue_pos
      /\ \A u \in Threads : pos[u] \in Nat
      /\ t \in Threads /\ t \notin Producers /\ Owns(t)
      /\ pos[t] < dequeue_pos /\ enqueue_pos <= pos[t] + N
      /\ UNCHANGED <<enqueue_pos, dequeue_pos, pos, value>>
  BY NType, MpmcAssumption
     DEF IInv, TypeOK, CounterInv, OwnerInv, Owns, PopRead, Threads
<1>2. /\ pc[t] = "read" /\ pc'[t] = "release"
      /\ \A u \in Threads : u # t => pc'[u] = pc[u]
      /\ got'[t] = buffer[Slot(pos[t])]
      /\ \A u \in Consumers : u # t => got'[u] = got[u]
  BY <1>1 DEF IInv, TypeOK, PopRead
<1>3. \A p \in Nat : Slot(p) # Slot(pos[t]) => buffer'[Slot(p)] = buffer[Slot(p)]
  BY <1>1, SlotFacts DEF IInv, TypeOK, PopRead
<1>4. Popped' = Popped
  <2>1. ASSUME NEW c \in Consumers
        PROVE  (IF pc'[c] = "read" THEN buffer'[Slot(pos'[c])] ELSE got'[c])
                 = (IF pc[c] = "read" THEN buffer[Slot(pos[c])] ELSE got[c])
    <3>1. CASE c = t
      BY <1>2, <3>1
    <3>2. CASE c # t /\ pc[c] = "read"
      <4>1. /\ pc'[c] = pc[c] /\ pos'[c] = pos[c] /\ pos[c] \in Nat
            /\ pos[c] < dequeue_pos /\ enqueue_pos <= pos[c] + N /\ pos[c] # pos[t]
        BY <1>1, <1>2, <3>2 DEF IInv, OwnerInv, Owns, Threads
      <4>2. \/ pos[c] < pos[t] /\ pos[t] < pos[c] + N
            \/ pos[t] < pos[c] /\ pos[c] < pos[t] + N
        BY <1>1, <4>1, SMT
      <4>3. Slot(pos[c]) # Slot(pos[t])
        BY <1>1, <4>1, <4>2, SlotFacts
      <4> QED BY <1>3, <3>2, <4>1, <4>3
    <3>3. CASE c # t /\ pc[c] # "read"
      BY <1>2, <3>3 DEF Threads
    <3> QED BY <3>1, <3>2, <3>3
  <2> QED BY <2>1 DEF Popped
<1>5. ASSUME NEW p \in Nat, dequeue_pos <= p, p < enqueue_pos PROVE Item(p)' = Item(p)
  <2>1. pos[t] < p /\ p < pos[t] + N
    BY <1>1, <1>5, SMT
  <2>2. Slot(p) # Slot(pos[t])
    BY <1>1, <2>1, SlotFacts
  <2>3. \A u \in Producers : pc'[u] = "write" /\ pos'[u] = p
                               <=> pc[u] = "write" /\ pos[u] = p
    BY <1>1, <1>2 DEF Threads
  <2> QED BY <1>1, <1>3, <2>2, <2>3, ItemKept
<1> QED BY <1>1, <1>4, <1>5, Stutter

(* Dropping the queue drains it.                                           *)
LEMMA DropDrains ==
  ASSUME IInv, IInv', Drop
  PROVE  Fifo!Drain \/ UNCHANGED Fifo!vars
<1>1. ContentsOK /\ ContentsOK'
  BY ContentsSeq, PTL
<1>2. /\ enqueue_pos \in Nat /\ dequeue_pos' = enqueue_pos /\ enqueue_pos' = enqueue_pos
      /\ got' = got
      /\ \A c \in Consumers : pc[c] = "idle" /\ pc'[c] = "dropped"
  BY DEF IInv, TypeOK, Drop, Threads
<1>3. Popped' = Popped
  <2>1. ASSUME NEW c \in Consumers
        PROVE  (IF pc'[c] = "read" THEN buffer'[Slot(pos'[c])] ELSE got'[c])
                 = (IF pc[c] = "read" THEN buffer[Slot(pos[c])] ELSE got[c])
    BY <1>2
  <2> QED BY <2>1 DEF Popped
<1>4. Contents' = <<>>
  <2>1. Contents' \in Seq(Values) /\ Len(Contents') = 0
    BY <1>1, <1>2, SMT DEF ContentsOK
  <2> QED BY <2>1, SMT
<1> QED BY <1>3, <1>4 DEF Fifo!Drain, Fifo!vars

(* Every execution of the queue is one of the bounded FIFO, in the order   *)
(* of the exchanges: each pushed value is popped at most once, in order,   *)
(* and never more than N are in the queue.                                 *)
THEOREM Refinement == N >= 2 /\ Spec => ImplementsFifo
<1> SUFFICES ASSUME N >= 2 PROVE Spec => ImplementsFifo
  OBVIOUS
<1>1. Init => Fifo!Init
  <2> SUFFICES ASSUME Init PROVE Fifo!Init
    OBVIOUS
  <2>1. Contents = <<>>
    BY InitIInv, ContentsSeq, SMT DEF Init, ContentsOK
  <2>2. Popped = [c \in Consumers |-> NoValue]
    BY DEF Init, Popped, Threads
  <2> QED BY <2>1, <2>2 DEF Fifo!Init
<1>2. IInv /\ IInv' /\ [Next]_vars => [Fifo!Next]_(Fifo!vars)
  <2> SUFFICES ASSUME IInv, IInv', [Next]_vars PROVE [Fifo!Next]_(Fifo!vars)
    OBVIOUS
  <2>1. /\ \A t \in Producers : t \in Threads
        /\ \A t \in Consumers : t \in Threads
        /\ pc \in [Threads -> {"idle", "loadSeq", "reload", "cas", "write",
                                "publish", "read", "release", "dropped"}]
        /\ pos \in [Threads -> Nat]
        /\ value \in [Producers -> Values \cup {NoValue}]
    BY DEF Threads, IInv, TypeOK
  <2>2. ASSUME NEW t \in Producers,
               \/ \E v \in Values : PushStart(t, v)
               \/ PushLoadSeq(t) \/ PushReload(t) \/ PushCasFail(t) \/ PushPublish(t)
        PROVE  UNCHANGED Fifo!vars
    <3>1. /\ UNCHANGED <<enqueue_pos, dequeue_pos, buffer, got>>
          /\ \A u \in Producers : u # t => value'[u] = value[u]
      BY <2>1, <2>2 DEF PushStart, PushLoadSeq, PushReload, PushCasFail, PushPublish, cells
    <3>2. /\ pc[t] \notin {"write", "read"} /\ pc'[t] \notin {"write", "read"}
          /\ \A u \in Threads : u # t => pc'[u] = pc[u] /\ pos'[u] = pos[u]
      BY <2>1, <2>2
         DEF PushStart, PushLoadSeq, PushReload, PushCasFail, PushPublish, Compare
    <3> QED BY <2>1, <3>1, <3>2, MovesStutter
  <2>3. ASSUME NEW t \in Consumers,
               PopStart(t) \/ PopLoadSeq(t) \/ PopReload(t) \/ PopCasFail(t) \/ PopRelease(t)
        PROVE  UNCHANGED Fifo!vars
    <3>1. UNCHANGED <<enqueue_pos, dequeue_pos, buffer, got, value>>
      BY <2>3 DEF PopStart, PopLoadSeq, PopReload, PopCasFail, PopRelease, ReleaseWith, cells
    <3>2. /\ pc[t] \notin {"write", "read"} /\ pc'[t] \notin {"write", "read"}
          /\ \A u \in Threads : u # t => pc'[u] = pc[u] /\ pos'[u] = pos[u]
      BY <2>1, <2>3
         DEF PopStart, PopLoadSeq, PopReload, PopCasFail, PopRelease, ReleaseWith, Compare
    <3> QED BY <2>1, <3>1, <3>2, MovesStutter
  <2>4. CASE UNCHANGED vars
    BY <2>4 DEF vars, cells, Fifo!vars, Contents, Popped, Item
  <2> QED
    BY <2>2, <2>3, <2>4, PushCasPuts, PushWriteStutters, PopCasTakes, PopReadStutters, DropDrains
    DEF Next, Push, Pop, Fifo!Next
<1> QED BY <1>1, <1>2, Invariance, PTL DEF Spec, ImplementsFifo, Fifo!Spec
=============================================================================
