-------------------------- MODULE Concurrency_proofs --------------------------
(* Mailboxes, pool and channel of causm-concurrency.  The mailboxes keep   *)
(* their bound, their messages and the order they were sent in, whatever   *)
(* the policies are and become; the pool that schedules the owners of      *)
(* mailboxes forgets none of them; the channel is a bounded FIFO.  For     *)
(* every capacity, set of mailboxes, actors or threads and number of       *)
(* messages.                                                               *)
EXTENDS Mailboxes, ActorPool, BoundedChannel, FiniteSetTheorems, TLAPS

Buffers == {s \in Seq(Nat) : Len(s) <= capacity}
Mailbox == [buffer : Buffers, capacity : {capacity}, policy : BoxPolicies]

BoxInv == /\ box \in [Boxes -> Mailbox] /\ popped \in [Boxes -> Seq(Nat)]
          /\ sent \in Nat

(* The sequence operations mailboxes are made of: types and lengths.       *)
LEMMA SubSeqType ==
  ASSUME NEW s \in Seq(Nat), NEW m \in Nat \ {0}, NEW n \in 0 .. Len(s)
  PROVE  /\ SubSeq(s, m, n) \in Seq(Nat)
         /\ Len(SubSeq(s, m, n)) = IF m <= n THEN n - m + 1 ELSE 0
BY SMT

LEMMA ConcatType == ASSUME NEW s \in Seq(Nat), NEW t \in Seq(Nat)
                    PROVE  s \o t \in Seq(Nat) /\ Len(s \o t) = Len(s) + Len(t)
BY SMT

(* A cut of a sequence that is no longer than the capacity is a buffer.   *)
LEMMA CutType ==
  ASSUME NEW s \in Seq(Nat), NEW m \in Nat \ {0}, NEW n \in 0 .. Len(s),
         n < m + capacity
  PROVE  SubSeq(s, m, n) \in Buffers
BY SubSeqType, MailboxAssumption, SMT DEF Buffers

(* A mailbox holding another buffer is a mailbox.                         *)
LEMMA HoldingType == ASSUME NEW mb \in Mailbox, NEW s \in Buffers
                     PROVE  Holding(mb, s) \in Mailbox
BY SMT DEF Mailbox, Holding

(* What the operations use of a mailbox.                                   *)
LEMMA MailboxType == ASSUME NEW mb \in Mailbox
                     PROVE  /\ mb.buffer \in Seq(Nat) /\ Len(mb.buffer) \in 0 .. capacity
                            /\ mb.capacity = capacity
BY MailboxAssumption, SMT DEF Mailbox, Buffers

(* push: a full mailbox gives up its oldest message or refuses.            *)
LEMMA PushType == ASSUME NEW mb \in Mailbox, NEW m \in Nat
                  PROVE  Push(mb, m).box \in Mailbox
<1>1. CASE HasRoom(mb)
  <2>1. Append(mb.buffer, m) \in Buffers
    BY <1>1, MailboxType, MailboxAssumption, SMT DEF HasRoom, Buffers
  <2> QED BY <1>1, <2>1, HoldingType DEF Push, Outcome
<1>2. CASE ~HasRoom(mb) /\ mb.policy \in Evicting
  <2>1. Append(Tail(mb.buffer), m) \in Buffers
    BY <1>2, MailboxType, MailboxAssumption, SMT DEF HasRoom, Buffers
  <2> QED BY <1>2, <2>1, HoldingType DEF Push, Outcome
<1>3. CASE ~HasRoom(mb) /\ mb.policy \notin Evicting
  BY <1>3 DEF Push, Outcome
<1> QED BY <1>1, <1>2, <1>3

(* try_push refuses when it is full, under every policy.                   *)
LEMMA TryPushType == ASSUME NEW mb \in Mailbox, NEW m \in Nat
                     PROVE  TryPush(mb, m).box \in Mailbox
<1>1. CASE HasRoom(mb)
  <2>1. Append(mb.buffer, m) \in Buffers
    BY <1>1, MailboxType, MailboxAssumption, SMT DEF HasRoom, Buffers
  <2> QED BY <1>1, <2>1, HoldingType DEF TryPush, Outcome
<1>2. CASE ~HasRoom(mb)
  BY <1>2 DEF TryPush, Outcome
<1> QED BY <1>1, <1>2

(* push_front: a full mailbox gives up its newest message or refuses.      *)
LEMMA PushFrontType == ASSUME NEW mb \in Mailbox, NEW m \in Nat
                       PROVE  PushFront(mb, m).box \in Mailbox
<1>1. CASE HasRoom(mb)
  <2>1. <<m>> \o mb.buffer \in Buffers
    BY <1>1, MailboxType, MailboxAssumption, SMT DEF HasRoom, Buffers
  <2> QED BY <1>1, <2>1, HoldingType DEF PushFront, Outcome
<1>2. CASE ~HasRoom(mb) /\ mb.policy \in Evicting
  <2>1. Len(mb.buffer) = capacity
    BY <1>2, MailboxType, MailboxAssumption, SMT DEF HasRoom
  <2>2. Front(mb.buffer) \in Seq(Nat) /\ Len(Front(mb.buffer)) = capacity - 1
    BY <2>1, MailboxType, MailboxAssumption, SubSeqType, SMT DEF Front
  <2>3. <<m>> \o Front(mb.buffer) \in Buffers
    BY <2>2, MailboxAssumption, SMT DEF Buffers
  <2> QED BY <1>2, <2>3, HoldingType DEF PushFront, Outcome
<1>3. CASE ~HasRoom(mb) /\ mb.policy \notin Evicting
  BY <1>3 DEF PushFront, Outcome
<1> QED BY <1>1, <1>2, <1>3

(* append: what does not fit is evicted from the front, or stays behind.   *)
LEMMA AppendType == ASSUME NEW mb \in Mailbox, NEW other \in Mailbox
                    PROVE  /\ AppendBoth(mb, other).self \in Mailbox
                           /\ AppendBoth(mb, other).other \in Mailbox
<1> DEFINE all == mb.buffer \o other.buffer
           room == mb.capacity - Len(mb.buffer)
           over == Len(all) - mb.capacity
<1>1. /\ mb.buffer \in Seq(Nat) /\ Len(mb.buffer) \in 0 .. capacity /\ mb.capacity = capacity
      /\ other.buffer \in Seq(Nat) /\ Len(other.buffer) \in 0 .. capacity
  BY MailboxType
<1>2. all \in Seq(Nat) /\ Len(all) = Len(mb.buffer) + Len(other.buffer)
  BY <1>1, ConcatType
<1>3. over = Len(all) - capacity /\ room = capacity - Len(mb.buffer) /\ capacity \in Nat
  BY <1>1, MailboxAssumption
<1>4. AppendBoth(mb, other) =
        IF over <= 0 THEN [self |-> Holding(mb, all), other |-> Holding(other, <<>>),
                           evicted |-> {}]
        ELSE IF mb.policy \in Evicting
             THEN [self |-> Holding(mb, SubSeq(all, over + 1, Len(all))),
                   other |-> Holding(other, <<>>),
                   evicted |-> {all[i] : i \in 1 .. over}]
             ELSE [self |-> Holding(mb, SubSeq(all, 1, mb.capacity)),
                   other |-> Holding(other, SubSeq(other.buffer, room + 2, Len(other.buffer))),
                   evicted |-> {}]
  BY DEF AppendBoth
<1> HIDE DEF all, room, over
<1> DEFINE had == Len(mb.buffer)
           more == Len(other.buffer)
           size == Len(all)
<1>5. /\ had \in 0 .. capacity /\ more \in 0 .. capacity /\ size = had + more
      /\ over = size - capacity /\ room = capacity - had
  BY <1>1, <1>2, <1>3
<1> HIDE DEF had, more, size
<1>6. /\ had \in Nat /\ more \in Nat /\ size \in Nat /\ over \in Int /\ room \in Nat
      /\ had <= capacity /\ more <= capacity
  BY <1>3, <1>5, SMT
<1>7. <<>> \in Buffers
  BY <1>3, SMT DEF Buffers
<1>8. CASE over <= 0
  <2>1. size <= capacity
    BY <1>5, <1>6, <1>8, <1>3, SMT
  <2>2. all \in Buffers
    BY <1>2, <2>1 DEF Buffers, size
  <2>3. AppendBoth(mb, other) = [self |-> Holding(mb, all), other |-> Holding(other, <<>>),
                                 evicted |-> {}]
    BY <1>4, <1>8
  <2> QED BY <1>7, <2>2, <2>3, HoldingType
<1>9. CASE ~(over <= 0) /\ mb.policy \in Evicting
  <2>1. over + 1 \in Nat \ {0} /\ size \in 0 .. size /\ size < over + 1 + capacity
    BY <1>5, <1>6, <1>3, <1>9, SMT
  <2>2. SubSeq(all, over + 1, Len(all)) \in Buffers
    BY <1>2, <2>1, CutType DEF size
  <2>3. AppendBoth(mb, other) = [self |-> Holding(mb, SubSeq(all, over + 1, Len(all))),
                                 other |-> Holding(other, <<>>),
                                 evicted |-> {all[i] : i \in 1 .. over}]
    BY <1>4, <1>9
  <2> QED BY <1>7, <2>2, <2>3, HoldingType
<1>10. CASE ~(over <= 0) /\ mb.policy \notin Evicting
  <2> DEFINE rest == SubSeq(other.buffer, room + 2, Len(other.buffer))
  <2>1. capacity \in 0 .. size /\ capacity < 1 + capacity /\ 1 \in Nat \ {0}
    BY <1>5, <1>6, <1>3, <1>10, SMT
  <2>2. SubSeq(all, 1, capacity) \in Buffers
    BY <1>2, <2>1, CutType DEF size
  <2>3. room + 2 \in Nat \ {0} /\ more \in 0 .. more /\ more < room + 2 + capacity
    BY <1>5, <1>6, <1>3, SMT
  <2>4. rest \in Buffers
    BY <1>1, <2>3, CutType DEF more
  <2>5. AppendBoth(mb, other) = [self |-> Holding(mb, SubSeq(all, 1, capacity)),
                                 other |-> Holding(other, rest), evicted |-> {}]
    BY <1>1, <1>4, <1>10
  <2> QED BY <2>2, <2>4, <2>5, HoldingType
<1> QED BY <1>8, <1>9, <1>10

(* remove: taking a message out of a buffer leaves a buffer.               *)
LEMMA RemoveType == ASSUME NEW s \in Buffers, NEW i \in 1 .. Len(s)
                    PROVE  RemoveAt(s, i) \in Buffers
<1>1. s \in Seq(Nat) /\ Len(s) \in Nat /\ Len(s) <= capacity
  BY SMT DEF Buffers
<1>2. /\ SubSeq(s, 1, i - 1) \in Seq(Nat) /\ Len(SubSeq(s, 1, i - 1)) = i - 1
      /\ SubSeq(s, i + 1, Len(s)) \in Seq(Nat)
      /\ Len(SubSeq(s, i + 1, Len(s))) = Len(s) - i
  BY <1>1, SubSeqType, SMT
<1>3. /\ RemoveAt(s, i) \in Seq(Nat)
      /\ Len(RemoveAt(s, i)) = (i - 1) + (Len(s) - i)
  BY <1>2, ConcatType DEF RemoveAt
<1>4. (i - 1) + (Len(s) - i) <= capacity
  BY <1>1, MailboxAssumption, SMT
<1> QED BY <1>3, <1>4 DEF Buffers

(* pop: what it takes and what it leaves.                                  *)
LEMMA TailType == ASSUME NEW s \in Buffers, s # <<>>
                  PROVE  Tail(s) \in Buffers /\ Head(s) \in Nat
BY MailboxAssumption, SMT DEF Buffers

(* The invariant holds of new mailboxes.                                   *)
LEMMA InitInv == Init => BoxInv
<1> SUFFICES ASSUME Init PROVE BoxInv
  OBVIOUS
<1>1. <<>> \in Buffers /\ <<>> \in Seq(Nat) /\ sent \in Nat
  BY MailboxAssumption, SMT DEF Init, Buffers
<1>2. \A p \in BoxPolicies : New(capacity, p) \in Mailbox
  BY <1>1 DEF New, Mailbox
<1>3. box \in [Boxes -> Mailbox]
  BY <1>2 DEF Init
<1> QED BY <1>1, <1>3 DEF Init, BoxInv

(* Every operation of every caller keeps the invariant.                    *)
LEMMA NextInv == BoxInv /\ [Next]_vars => BoxInv'
<1> SUFFICES ASSUME BoxInv, [Next]_vars PROVE BoxInv'
  OBVIOUS
<1> USE DEF BoxInv
<1>0. \A b \in Boxes : /\ box[b] \in Mailbox /\ box[b].buffer \in Buffers
                        /\ popped[b] \in Seq(Nat)
  BY DEF Mailbox
<1>1. ASSUME NEW b \in Boxes, DoPush(b) PROVE BoxInv'
  <2>1. Push(box[b], sent + 1).box \in Mailbox /\ sent + 1 \in Nat
    BY <1>0, PushType, SMT
  <2> QED BY <1>1, <2>1 DEF DoPush, SendWith, Apply
<1>2. ASSUME NEW b \in Boxes, DoTryPush(b) PROVE BoxInv'
  <2>1. TryPush(box[b], sent + 1).box \in Mailbox /\ sent + 1 \in Nat
    BY <1>0, TryPushType, SMT
  <2> QED BY <1>2, <2>1 DEF DoTryPush, SendWith, Apply
<1>3. ASSUME NEW b \in Boxes, DoPop(b) PROVE BoxInv'
  <2>1. Tail(box[b].buffer) \in Buffers /\ Head(box[b].buffer) \in Nat
    BY <1>0, <1>3, TailType DEF DoPop
  <2>2. [box[b] EXCEPT !.buffer = Tail(box[b].buffer)] \in Mailbox
    BY <1>0, <2>1, HoldingType DEF Holding
  <2>3. Append(popped[b], Head(box[b].buffer)) \in Seq(Nat)
    BY <1>0, <2>1, SMT
  <2> QED BY <1>3, <2>2, <2>3 DEF DoPop
<1>4. ASSUME NEW b \in Boxes, UnPop(b) PROVE BoxInv'
  <2> DEFINE last == Len(popped[b])
  <2>1. last \in Nat \ {0} /\ popped[b][last] \in Nat
    BY <1>0, <1>4, SMT DEF UnPop
  <2>2. PushFront(box[b], popped[b][last]).box \in Mailbox
    BY <1>0, <2>1, PushFrontType
  <2>3. SubSeq(popped[b], 1, last - 1) \in Seq(Nat)
    BY <1>0, <2>1, SubSeqType, SMT
  <2> QED BY <1>4, <2>2, <2>3 DEF UnPop, Apply
<1>5. ASSUME NEW b \in Boxes, NEW o \in Boxes, DoAppend(b, o) PROVE BoxInv'
  <2>1. /\ AppendBoth(box[b], box[o]).self \in Mailbox
        /\ AppendBoth(box[b], box[o]).other \in Mailbox
    BY <1>0, AppendType
  <2> QED BY <1>5, <2>1 DEF DoAppend
<1>6. ASSUME NEW b \in Boxes, DoRemove(b) PROVE BoxInv'
  <2>1. PICK i \in 1 .. Len(box[b].buffer) :
           /\ box' = [box EXCEPT ![b] = [box[b] EXCEPT !.buffer = RemoveAt(box[b].buffer, i)]]
           /\ UNCHANGED <<sent, popped>>
    BY <1>6 DEF DoRemove
  <2>2. [box[b] EXCEPT !.buffer = RemoveAt(box[b].buffer, i)] \in Mailbox
    BY <1>0, RemoveType, HoldingType DEF Holding
  <2> QED BY <2>1, <2>2
<1>7. ASSUME NEW b \in Boxes, DoClear(b) PROVE BoxInv'
  <2>1. [box[b] EXCEPT !.buffer = <<>>] \in Mailbox
    <3>1. <<>> \in Buffers
      BY MailboxAssumption, SMT DEF Buffers
    <3> QED BY <1>0, <3>1, HoldingType DEF Holding
  <2> QED BY <1>7, <2>1 DEF DoClear
<1>8. ASSUME NEW b \in Boxes, SetPolicy(b) PROVE BoxInv'
  <2>1. PICK p \in BoxPolicies : /\ box' = [box EXCEPT ![b] = [box[b] EXCEPT !.policy = p]]
                                 /\ UNCHANGED <<sent, popped>>
    BY <1>8 DEF SetPolicy
  <2>2. [box[b] EXCEPT !.policy = p] \in Mailbox
    <3>1. box[b] \in Mailbox
      BY <1>0
    <3> QED BY <3>1 DEF Mailbox
  <2> QED BY <2>1, <2>2
<1>9. CASE UNCHANGED vars
  BY <1>9 DEF vars
<1> QED BY <1>1, <1>2, <1>3, <1>4, <1>5, <1>6, <1>7, <1>8, <1>9 DEF Next

(* No mailbox ever holds more than its capacity.                           *)
THEOREM NeverOverfull == Spec => []WithinCapacity
<1>1. BoxInv => WithinCapacity
  BY MailboxType, MailboxAssumption, SMT DEF BoxInv, WithinCapacity
<1> QED BY <1>1, InitInv, NextInv, PTL DEF Spec
-----------------------------------------------------------------------------
(* What the sequence operations do to the messages of a sequence           *)

Elems(s) == {s[i] : i \in 1 .. Len(s)}
Distinct(s) == \A i, j \in 1 .. Len(s) : s[i] = s[j] => i = j
Sorted(s) == \A i, j \in 1 .. Len(s) : i < j => s[i] < s[j]

(* Nothing is in the empty sequence.                                       *)
LEMMA EmptyElems == Elems(<<>>) = {} /\ Distinct(<<>>) /\ Sorted(<<>>)
  BY SMT DEF Elems, Distinct, Sorted

(* Append adds its message.                                                *)
LEMMA AppendElems ==
  ASSUME NEW s \in Seq(Nat), NEW m \in Nat
  PROVE  /\ Elems(Append(s, m)) = Elems(s) \cup {m}
         /\ m \notin Elems(s) /\ Distinct(s) => Distinct(Append(s, m))
         /\ (\A x \in Elems(s) : x < m) /\ Sorted(s) => Sorted(Append(s, m))
<1> DEFINE t == Append(s, m)
<1>1. /\ Len(t) = Len(s) + 1 /\ Len(s) \in Nat
      /\ \A i \in 1 .. Len(s) : t[i] = s[i]
      /\ t[Len(s) + 1] = m
  BY SMT
<1> HIDE DEF t
<1>2. \A i \in 1 .. Len(t) : i \in 1 .. Len(s) \/ i = Len(s) + 1
  BY <1>1, SMT
<1>3. Len(s) + 1 \in 1 .. Len(t) /\ \A i \in 1 .. Len(s) : i \in 1 .. Len(t)
  BY <1>1, SMT
<1>4. Elems(t) = Elems(s) \cup {m}
  BY <1>1, <1>2, <1>3 DEF Elems
<1>5. m \notin Elems(s) /\ Distinct(s) => Distinct(t)
  BY <1>1, <1>2, <1>3 DEF Elems, Distinct
<1>6. (\A x \in Elems(s) : x < m) /\ Sorted(s) => Sorted(t)
  BY <1>1, <1>2, <1>3, SMT DEF Elems, Sorted
<1> QED BY <1>4, <1>5, <1>6 DEF t

(* A cut of a sequence has the messages between its ends.                  *)
LEMMA CutElems ==
  ASSUME NEW s \in Seq(Nat), NEW a \in Nat \ {0}, NEW z \in 0 .. Len(s)
  PROVE  /\ Elems(SubSeq(s, a, z)) = {s[i] : i \in a .. z}
         /\ Distinct(s) => Distinct(SubSeq(s, a, z))
         /\ Sorted(s) => Sorted(SubSeq(s, a, z))
<1> DEFINE t == SubSeq(s, a, z)
<1>1. /\ Len(t) \in Nat /\ Len(s) \in Nat
      /\ Len(t) = IF a <= z THEN z - a + 1 ELSE 0
      /\ \A i \in 1 .. Len(t) : t[i] = s[a + i - 1]
  BY SMT
<1> HIDE DEF t
<1>2. \A i \in 1 .. Len(t) : a + i - 1 \in a .. z /\ a + i - 1 \in 1 .. Len(s)
  BY <1>1, SMT
<1>3. \A i \in a .. z : /\ i - a + 1 \in 1 .. Len(t) /\ a + (i - a + 1) - 1 = i
                         /\ i \in 1 .. Len(s)
  BY <1>1, SMT
<1>4. Elems(t) = {s[i] : i \in a .. z}
  <2>1. ASSUME NEW x \in Elems(t) PROVE x \in {s[i] : i \in a .. z}
    BY <1>1, <1>2, <2>1 DEF Elems
  <2>2. ASSUME NEW i \in a .. z PROVE s[i] \in Elems(t)
    <3>1. s[i] = t[i - a + 1]
      BY <1>1, <1>3
    <3> QED BY <1>3, <3>1 DEF Elems
  <2> QED BY <2>1, <2>2
<1>5. Distinct(s) => Distinct(t)
  <2> SUFFICES ASSUME Distinct(s), NEW i \in 1 .. Len(t), NEW j \in 1 .. Len(t), t[i] = t[j]
               PROVE  i = j
    BY DEF Distinct
  <2>1. a + i - 1 = a + j - 1
    BY <1>1, <1>2 DEF Distinct
  <2> QED BY <1>1, <2>1, SMT
<1>6. Sorted(s) => Sorted(t)
  <2> SUFFICES ASSUME Sorted(s), NEW i \in 1 .. Len(t), NEW j \in 1 .. Len(t), i < j
               PROVE  t[i] < t[j]
    BY DEF Sorted
  <2>1. a + i - 1 < a + j - 1
    BY <1>1, SMT
  <2> QED BY <1>1, <1>2, <2>1 DEF Sorted
<1> QED BY <1>4, <1>5, <1>6 DEF t

(* A concatenation has the messages of both sequences.                     *)
LEMMA ConcatElems ==
  ASSUME NEW s \in Seq(Nat), NEW t \in Seq(Nat)
  PROVE  /\ Elems(s \o t) = Elems(s) \cup Elems(t)
         /\ Distinct(s) /\ Distinct(t) /\ Elems(s) \cap Elems(t) = {} => Distinct(s \o t)
         /\ Sorted(s) /\ Sorted(t) /\ (\A x \in Elems(s), y \in Elems(t) : x < y)
              => Sorted(s \o t)
<1> DEFINE u == s \o t
<1>1. /\ Len(u) = Len(s) + Len(t) /\ Len(s) \in Nat /\ Len(t) \in Nat
      /\ \A i \in 1 .. Len(s) : u[i] = s[i]
      /\ \A i \in 1 .. Len(t) : u[Len(s) + i] = t[i]
  BY SMT
<1> HIDE DEF u
<1>2. \A i \in 1 .. Len(u) : i \in 1 .. Len(s) \/
         (i > Len(s) /\ i - Len(s) \in 1 .. Len(t) /\ Len(s) + (i - Len(s)) = i)
  BY <1>1, SMT
<1>3. /\ \A i \in 1 .. Len(s) : i \in 1 .. Len(u)
      /\ \A i \in 1 .. Len(t) : Len(s) + i \in 1 .. Len(u)
  BY <1>1, SMT
<1>4. Elems(u) = Elems(s) \cup Elems(t)
  <2>1. ASSUME NEW i \in 1 .. Len(u) PROVE u[i] \in Elems(s) \cup Elems(t)
    BY <1>1, <1>2 DEF Elems
  <2>2. ASSUME NEW i \in 1 .. Len(s) PROVE s[i] \in Elems(u)
    BY <1>1, <1>3 DEF Elems
  <2>3. ASSUME NEW i \in 1 .. Len(t) PROVE t[i] \in Elems(u)
    BY <1>1, <1>3 DEF Elems
  <2> QED BY <2>1, <2>2, <2>3 DEF Elems
<1>5. \A i \in 1 .. Len(u) : \/ i \in 1 .. Len(s) /\ u[i] = s[i] /\ u[i] \in Elems(s)
                            \/ /\ i > Len(s) /\ i - Len(s) \in 1 .. Len(t)
                               /\ u[i] = t[i - Len(s)] /\ u[i] \in Elems(t)
  <2> TAKE i \in 1 .. Len(u)
  <2>1. CASE i \in 1 .. Len(s)
    BY <1>1, <2>1 DEF Elems
  <2>2. CASE i > Len(s) /\ i - Len(s) \in 1 .. Len(t) /\ Len(s) + (i - Len(s)) = i
    <3>1. u[Len(s) + (i - Len(s))] = t[i - Len(s)]
      BY <1>1, <2>2
    <3> QED BY <2>2, <3>1 DEF Elems
  <2> QED BY <1>2, <2>1, <2>2
<1>6. ASSUME Distinct(s), Distinct(t), Elems(s) \cap Elems(t) = {} PROVE Distinct(u)
  <2> SUFFICES ASSUME NEW i \in 1 .. Len(u), NEW j \in 1 .. Len(u), u[i] = u[j]
               PROVE  i = j
    BY DEF Distinct
  <2>1. \/ i \in 1 .. Len(s) /\ j \in 1 .. Len(s) /\ s[i] = s[j]
        \/ /\ i - Len(s) \in 1 .. Len(t) /\ j - Len(s) \in 1 .. Len(t)
           /\ t[i - Len(s)] = t[j - Len(s)]
    BY <1>5, <1>6
  <2>2. i = j \/ i - Len(s) = j - Len(s)
    BY <1>6, <2>1 DEF Distinct
  <2> QED BY <1>1, <2>2, SMT
<1>7. ASSUME Sorted(s), Sorted(t), \A x \in Elems(s), y \in Elems(t) : x < y
      PROVE  Sorted(u)
  <2> SUFFICES ASSUME NEW i \in 1 .. Len(u), NEW j \in 1 .. Len(u), i < j
               PROVE  u[i] < u[j]
    BY DEF Sorted
  <2>1. CASE i \in 1 .. Len(s) /\ j \in 1 .. Len(s)
    BY <1>1, <1>7, <2>1 DEF Sorted
  <2>2. CASE u[i] \in Elems(s) /\ u[j] \in Elems(t)
    BY <1>7, <2>2
  <2>3. CASE i > Len(s) /\ j > Len(s)
    <3>1. i - Len(s) < j - Len(s)
      BY <1>1, SMT
    <3>2. /\ i - Len(s) \in 1 .. Len(t) /\ j - Len(s) \in 1 .. Len(t)
          /\ u[i] = t[i - Len(s)] /\ u[j] = t[j - Len(s)]
      BY <1>1, <1>5, <2>3, SMT
    <3> QED BY <1>7, <3>1, <3>2 DEF Sorted
  <2>4. ~(i > Len(s) /\ j \in 1 .. Len(s))
    BY <1>1, SMT
  <2> QED BY <1>5, <2>1, <2>2, <2>3, <2>4
<1> QED BY <1>4, <1>6, <1>7 DEF u

(* The second sequence follows the first.                                  *)
LEMMA ConcatAt ==
  ASSUME NEW s \in Seq(Nat), NEW t \in Seq(Nat), NEW j \in 1 .. Len(t)
  PROVE  (s \o t)[Len(s) + j] = t[j] /\ Len(s) + j \in 1 .. Len(s \o t)
  BY SMT

(* A sequence without repetitions has as many messages as its length.      *)
LEMMA DistinctCount ==
  ASSUME NEW s \in Seq(Nat), Distinct(s)
  PROVE  Cardinality(Elems(s)) = Len(s)
<1>1. Len(s) \in Nat
  BY SMT
<1> DEFINE f == [i \in 1 .. Len(s) |-> s[i]]
<1>2. f \in Bijection(1 .. Len(s), Elems(s))
  BY DEF Bijection, Injection, Surjection, IsInjective, Elems, Distinct
<1>3. ExistsBijection(1 .. Len(s), Elems(s))
  BY <1>2 DEF ExistsBijection
<1>4. IsFiniteSet(1 .. Len(s)) /\ Cardinality(1 .. Len(s)) = Len(s)
  <2>1. /\ IsFiniteSet(1 .. Len(s))
        /\ Cardinality(1 .. Len(s)) = IF 1 > Len(s) THEN 0 ELSE Len(s) - 1 + 1
    BY <1>1, FS_Interval
  <2> QED BY <1>1, <2>1, SMT
<1> QED BY <1>3, <1>4, FS_Bijection

(* Tail takes the first message out.                                       *)
LEMMA TailElems ==
  ASSUME NEW s \in Seq(Nat), s # <<>>
  PROVE  /\ Tail(s) \in Seq(Nat) /\ Head(s) \in Nat
         /\ Elems(s) = {Head(s)} \cup Elems(Tail(s))
         /\ Distinct(s) => Head(s) \notin Elems(Tail(s)) /\ Distinct(Tail(s))
         /\ Sorted(s) => /\ \A x \in Elems(Tail(s)) : Head(s) < x
                         /\ Sorted(Tail(s))
<1>1. /\ Tail(s) = SubSeq(s, 2, Len(s)) /\ Head(s) = s[1] /\ 1 \in 1 .. Len(s)
      /\ Tail(s) \in Seq(Nat) /\ Head(s) \in Nat /\ Len(s) \in 0 .. Len(s)
      /\ 2 \in Nat \ {0}
  BY SMT
<1>2. \A i \in 1 .. Len(s) : i = 1 \/ i \in 2 .. Len(s)
  BY <1>1, SMT
<1>3. \A i \in 2 .. Len(s) : i \in 1 .. Len(s) /\ i # 1 /\ 1 < i
  BY <1>1, SMT
<1>4. /\ Elems(Tail(s)) = {s[i] : i \in 2 .. Len(s)}
      /\ Distinct(s) => Distinct(Tail(s))
      /\ Sorted(s) => Sorted(Tail(s))
  BY <1>1, CutElems
<1>5. Elems(s) = {Head(s)} \cup Elems(Tail(s))
  BY <1>1, <1>2, <1>3, <1>4 DEF Elems
<1>6. Distinct(s) => Head(s) \notin Elems(Tail(s))
  BY <1>1, <1>3, <1>4 DEF Distinct
<1>7. Sorted(s) => \A x \in Elems(Tail(s)) : Head(s) < x
  BY <1>1, <1>3, <1>4 DEF Sorted
<1> QED BY <1>1, <1>4, <1>5, <1>6, <1>7

(* Front takes the last message out.                                       *)
LEMMA FrontElems ==
  ASSUME NEW s \in Seq(Nat), s # <<>>
  PROVE  /\ Front(s) \in Seq(Nat) /\ s[Len(s)] \in Nat
         /\ Front(s) = SubSeq(s, 1, Len(s) - 1)
         /\ Elems(s) = {s[Len(s)]} \cup Elems(Front(s))
         /\ Distinct(s) => s[Len(s)] \notin Elems(Front(s)) /\ Distinct(Front(s))
         /\ Sorted(s) => /\ \A x \in Elems(Front(s)) : x < s[Len(s)]
                         /\ Sorted(Front(s))
<1>1. /\ Front(s) = SubSeq(s, 1, Len(s) - 1) /\ Len(s) \in 1 .. Len(s)
      /\ Front(s) \in Seq(Nat) /\ s[Len(s)] \in Nat /\ Len(s) - 1 \in 0 .. Len(s)
  BY SMT DEF Front
<1>2. \A i \in 1 .. Len(s) : i = Len(s) \/ i \in 1 .. Len(s) - 1
  BY <1>1, SMT
<1>3. \A i \in 1 .. Len(s) - 1 : i \in 1 .. Len(s) /\ i # Len(s) /\ i < Len(s)
  BY <1>1, SMT
<1>4. /\ Elems(Front(s)) = {s[i] : i \in 1 .. Len(s) - 1}
      /\ Distinct(s) => Distinct(Front(s))
      /\ Sorted(s) => Sorted(Front(s))
  BY <1>1, CutElems, 1 \in Nat \ {0}
<1>5. Elems(s) = {s[Len(s)]} \cup Elems(Front(s))
  BY <1>1, <1>2, <1>3, <1>4 DEF Elems
<1>6. Distinct(s) => s[Len(s)] \notin Elems(Front(s))
  BY <1>1, <1>3, <1>4 DEF Distinct
<1>7. Sorted(s) => \A x \in Elems(Front(s)) : x < s[Len(s)]
  BY <1>1, <1>3, <1>4 DEF Sorted
<1> QED BY <1>1, <1>4, <1>5, <1>6, <1>7

(* A message put in front.                                                 *)
LEMMA ConsElems ==
  ASSUME NEW s \in Seq(Nat), NEW m \in Nat
  PROVE  /\ <<m>> \o s \in Seq(Nat) /\ Elems(<<m>> \o s) = {m} \cup Elems(s)
         /\ m \notin Elems(s) /\ Distinct(s) => Distinct(<<m>> \o s)
         /\ (\A x \in Elems(s) : m < x) /\ Sorted(s) => Sorted(<<m>> \o s)
<1>1. <<m>> \in Seq(Nat) /\ Len(<<m>>) = 1 /\ <<m>>[1] = m
  BY SMT
<1>2. Elems(<<m>>) = {m} /\ Distinct(<<m>>) /\ Sorted(<<m>>)
  BY <1>1, SMT DEF Elems, Distinct, Sorted
<1> QED BY <1>1, <1>2, ConcatElems, ConcatType

(* RemoveAt takes one message out and keeps the order of the others.       *)
LEMMA RemoveElems ==
  ASSUME NEW s \in Seq(Nat), NEW k \in 1 .. Len(s)
  PROVE  /\ RemoveAt(s, k) \in Seq(Nat)
         /\ Elems(s) = {s[k]} \cup Elems(RemoveAt(s, k))
         /\ Distinct(s) => s[k] \notin Elems(RemoveAt(s, k)) /\ Distinct(RemoveAt(s, k))
         /\ Sorted(s) => Sorted(RemoveAt(s, k))
<1> DEFINE l == SubSeq(s, 1, k - 1)
           r == SubSeq(s, k + 1, Len(s))
<1>1. /\ Len(s) \in 0 .. Len(s) /\ k - 1 \in 0 .. Len(s) /\ k + 1 \in Nat \ {0}
      /\ 1 \in Nat \ {0} /\ l \in Seq(Nat) /\ r \in Seq(Nat)
  BY SMT
<1>2. /\ Elems(l) = {s[i] : i \in 1 .. k - 1} /\ Elems(r) = {s[i] : i \in k + 1 .. Len(s)}
      /\ Distinct(s) => Distinct(l) /\ Distinct(r)
      /\ Sorted(s) => Sorted(l) /\ Sorted(r)
  BY <1>1, CutElems
<1>3. RemoveAt(s, k) = l \o r /\ RemoveAt(s, k) \in Seq(Nat)
  BY <1>1, ConcatType DEF RemoveAt
<1> HIDE DEF l, r
<1>4. /\ Elems(l \o r) = Elems(l) \cup Elems(r)
      /\ Distinct(l) /\ Distinct(r) /\ Elems(l) \cap Elems(r) = {} => Distinct(l \o r)
      /\ Sorted(l) /\ Sorted(r) /\ (\A x \in Elems(l), y \in Elems(r) : x < y)
           => Sorted(l \o r)
  BY <1>1, ConcatElems
<1>5. \A i \in 1 .. Len(s) : i = k \/ i \in 1 .. k - 1 \/ i \in k + 1 .. Len(s)
  BY SMT
<1>6. /\ \A i \in 1 .. k - 1 : i \in 1 .. Len(s) /\ i # k
      /\ \A i \in k + 1 .. Len(s) : i \in 1 .. Len(s) /\ i # k
      /\ \A i \in 1 .. k - 1, j \in k + 1 .. Len(s) : i < j /\ i # j
  BY SMT
<1>7. Elems(s) = {s[k]} \cup Elems(l \o r)
  BY <1>2, <1>4, <1>5, <1>6 DEF Elems
<1>8. Distinct(s) => s[k] \notin Elems(l \o r) /\ Distinct(l \o r)
  <2> SUFFICES ASSUME Distinct(s) PROVE s[k] \notin Elems(l \o r) /\ Distinct(l \o r)
    OBVIOUS
  <2>1. s[k] \notin Elems(l) /\ s[k] \notin Elems(r)
    BY <1>2, <1>6 DEF Distinct
  <2>2. Elems(l) \cap Elems(r) = {}
    BY <1>2, <1>6 DEF Distinct
  <2> QED BY <1>2, <1>4, <2>1, <2>2
<1>9. Sorted(s) => Sorted(l \o r)
  <2> SUFFICES ASSUME Sorted(s) PROVE Sorted(l \o r)
    OBVIOUS
  <2>1. \A x \in Elems(l), y \in Elems(r) : x < y
    BY <1>2, <1>6 DEF Sorted
  <2> QED BY <1>2, <1>4, <2>1
<1> QED BY <1>3, <1>7, <1>8, <1>9
-----------------------------------------------------------------------------
(* What the operations do to the messages of a mailbox                     *)

(* Nothing of what a mailbox held and was given is lost or duplicated: it  *)
(* is in the mailbox, evicted or returned.                                 *)
Keeps(held, out) ==
  /\ Elems(out.box.buffer) \cup out.evicted \cup out.returned = held
  /\ Elems(out.box.buffer) \cap (out.evicted \cup out.returned) = {}
  /\ out.evicted \cap out.returned = {}
  /\ Distinct(out.box.buffer)

(* The fields of an outcome.                                               *)
LEMMA OutcomeIs ==
  ASSUME NEW mb \in Mailbox, NEW s, NEW e, NEW r
  PROVE  /\ Outcome(Holding(mb, s), e, r).box.buffer = s
         /\ Outcome(mb, e, r).box = mb
         /\ Outcome(Holding(mb, s), e, r).evicted = e /\ Outcome(mb, e, r).evicted = e
         /\ Outcome(Holding(mb, s), e, r).returned = r /\ Outcome(mb, e, r).returned = r
  BY DEF Outcome, Holding, Mailbox

(* push and try_push of a message that is newer than those in the mailbox. *)
LEMMA PushFlow ==
  ASSUME NEW mb \in Mailbox, NEW m \in Nat, m \notin Elems(mb.buffer), Distinct(mb.buffer),
         NEW out \in {Push(mb, m), TryPush(mb, m)}
  PROVE  /\ Keeps(Elems(mb.buffer) \cup {m}, out)
         /\ Sorted(mb.buffer) /\ (\A x \in Elems(mb.buffer) : x < m) => Sorted(out.box.buffer)
<1> DEFINE s == mb.buffer
<1>1. s \in Seq(Nat) /\ Len(s) \in 0 .. capacity /\ mb.capacity = capacity
  BY MailboxType
<1>2. CASE HasRoom(mb)
  <2>1. out = Outcome(Holding(mb, Append(s, m)), {}, {})
    BY <1>2 DEF Push, TryPush
  <2> QED BY <1>1, <2>1, OutcomeIs, AppendElems DEF Keeps
<1>3. CASE ~HasRoom(mb) /\ mb.policy \in Evicting /\ out = Push(mb, m)
  <2>1. out = Outcome(Holding(mb, Append(Tail(s), m)), {Head(s)}, {}) /\ s # <<>>
    <3>1. out = Outcome(Holding(mb, Append(Tail(s), m)), {Head(s)}, {})
      BY <1>3 DEF Push
    <3> QED BY <3>1, <1>1, <1>3, MailboxAssumption, SMT DEF HasRoom
  <2>2. /\ Tail(s) \in Seq(Nat) /\ Elems(s) = {Head(s)} \cup Elems(Tail(s))
        /\ Head(s) \notin Elems(Tail(s)) /\ Distinct(Tail(s))
        /\ Sorted(s) => Sorted(Tail(s))
    BY <1>1, <2>1, TailElems
  <2>3. /\ Elems(Append(Tail(s), m)) = Elems(Tail(s)) \cup {m}
        /\ Distinct(Append(Tail(s), m))
        /\ (\A x \in Elems(Tail(s)) : x < m) /\ Sorted(Tail(s)) => Sorted(Append(Tail(s), m))
    BY <2>2, AppendElems
  <2> QED BY <2>1, <2>2, <2>3, OutcomeIs DEF Keeps
<1>4. CASE ~HasRoom(mb) /\ ~(mb.policy \in Evicting /\ out = Push(mb, m))
  <2>1. out = Outcome(mb, {}, {m})
    BY <1>4 DEF Push, TryPush
  <2> QED BY <2>1, OutcomeIs DEF Keeps
<1> QED BY <1>2, <1>3, <1>4

(* push_front of a message that is older than those in the mailbox.        *)
LEMMA PushFrontFlow ==
  ASSUME NEW mb \in Mailbox, NEW m \in Nat, m \notin Elems(mb.buffer), Distinct(mb.buffer)
  PROVE  /\ Keeps(Elems(mb.buffer) \cup {m}, PushFront(mb, m))
         /\ Sorted(mb.buffer) /\ (\A x \in Elems(mb.buffer) : m < x)
              => Sorted(PushFront(mb, m).box.buffer)
<1> DEFINE s == mb.buffer
<1>1. s \in Seq(Nat) /\ Len(s) \in 0 .. capacity /\ mb.capacity = capacity
  BY MailboxType
<1>2. CASE HasRoom(mb)
  <2>1. PushFront(mb, m) = Outcome(Holding(mb, <<m>> \o s), {}, {})
    BY <1>2 DEF PushFront
  <2> QED BY <1>1, <2>1, OutcomeIs, ConsElems DEF Keeps
<1>3. CASE ~HasRoom(mb) /\ mb.policy \in Evicting
  <2>1. PushFront(mb, m) = Outcome(Holding(mb, <<m>> \o Front(s)), {s[Len(s)]}, {})
    BY <1>3 DEF PushFront
  <2>2. s # <<>>
    BY <1>1, <1>3, MailboxAssumption, SMT DEF HasRoom
  <2>3. /\ Front(s) \in Seq(Nat) /\ Elems(s) = {s[Len(s)]} \cup Elems(Front(s))
        /\ s[Len(s)] \notin Elems(Front(s)) /\ Distinct(Front(s))
        /\ Sorted(s) => Sorted(Front(s))
    BY <1>1, <2>2, FrontElems
  <2>4. /\ Elems(<<m>> \o Front(s)) = {m} \cup Elems(Front(s))
        /\ Distinct(<<m>> \o Front(s))
        /\ (\A x \in Elems(Front(s)) : m < x) /\ Sorted(Front(s)) => Sorted(<<m>> \o Front(s))
    BY <2>3, ConsElems
  <2> QED BY <2>1, <2>3, <2>4, OutcomeIs DEF Keeps
<1>4. CASE ~HasRoom(mb) /\ mb.policy \notin Evicting
  <2>1. PushFront(mb, m) = Outcome(mb, {}, {m})
    BY <1>4 DEF PushFront
  <2> QED BY <2>1, OutcomeIs DEF Keeps
<1> QED BY <1>2, <1>3, <1>4

(* append: everything in the end was in one of the mailboxes and is still  *)
(* in one place; under a policy that evicts nothing is lost on the way.    *)
Moves(mb, other, out) ==
  /\ Elems(out.self.buffer) \subseteq Elems(mb.buffer) \cup Elems(other.buffer)
  /\ Elems(out.other.buffer) \subseteq Elems(other.buffer)
  /\ Sorted(other.buffer) => Sorted(out.other.buffer)
  /\ /\ Distinct(mb.buffer) /\ Distinct(other.buffer)
     /\ Elems(mb.buffer) \cap Elems(other.buffer) = {}
     => /\ out.evicted \subseteq Elems(mb.buffer) \cup Elems(other.buffer)
        /\ Elems(out.self.buffer) \cap Elems(out.other.buffer) = {}
        /\ out.evicted \cap (Elems(out.self.buffer) \cup Elems(out.other.buffer)) = {}
        /\ Distinct(out.self.buffer) /\ Distinct(out.other.buffer)
  /\ mb.policy \in Evicting
     => Elems(out.self.buffer) \cup Elems(out.other.buffer) \cup out.evicted
          = Elems(mb.buffer) \cup Elems(other.buffer)

(* What append does is such a move.                                        *)
LEMMA AppendFlow ==
  ASSUME NEW mb \in Mailbox, NEW other \in Mailbox
  PROVE  Moves(mb, other, AppendBoth(mb, other))
<1> DEFINE out == AppendBoth(mb, other)
<1> SUFFICES Moves(mb, other, out)
  OBVIOUS
<1> DEFINE all == mb.buffer \o other.buffer
           room == mb.capacity - Len(mb.buffer)
           over == Len(all) - mb.capacity
           rest == SubSeq(other.buffer, room + 2, Len(other.buffer))
<1>1. /\ mb.buffer \in Seq(Nat) /\ other.buffer \in Seq(Nat) /\ all \in Seq(Nat)
      /\ mb.capacity = capacity /\ capacity \in Nat /\ Len(all) \in Nat
      /\ Len(mb.buffer) \in 0 .. capacity /\ Len(other.buffer) \in Nat
  <2>1. /\ mb.buffer \in Seq(Nat) /\ other.buffer \in Seq(Nat)
        /\ mb.capacity = capacity /\ capacity \in Nat /\ Len(mb.buffer) \in 0 .. capacity
    BY MailboxType, MailboxAssumption
  <2>2. all \in Seq(Nat)
    BY <2>1, ConcatType
  <2> HIDE DEF all
  <2> QED BY <2>1, <2>2, SMT
<1>2. /\ Elems(all) = Elems(mb.buffer) \cup Elems(other.buffer)
      /\ Distinct(mb.buffer) /\ Distinct(other.buffer)
         /\ Elems(mb.buffer) \cap Elems(other.buffer) = {} => Distinct(all)
  BY <1>1, ConcatElems
<1>3. out = IF over <= 0 THEN [self |-> Holding(mb, all), other |-> Holding(other, <<>>),
                               evicted |-> {}]
            ELSE IF mb.policy \in Evicting
                 THEN [self |-> Holding(mb, SubSeq(all, over + 1, Len(all))),
                       other |-> Holding(other, <<>>),
                       evicted |-> {all[i] : i \in 1 .. over}]
                 ELSE [self |-> Holding(mb, SubSeq(all, 1, mb.capacity)),
                       other |-> Holding(other, rest), evicted |-> {}]
  BY DEF AppendBoth
<1>4. \A s : Holding(mb, s).buffer = s /\ Holding(other, s).buffer = s
  BY DEF Holding, Mailbox
<1>len. Len(all) = Len(mb.buffer) + Len(other.buffer)
  BY <1>1, ConcatType
<1> HIDE DEF all, out
<1>5. CASE over <= 0
  <2>1. out = [self |-> Holding(mb, all), other |-> Holding(other, <<>>), evicted |-> {}]
    BY <1>3, <1>5
  <2>2. out.self.buffer = all /\ out.other.buffer = <<>> /\ out.evicted = {}
    BY <1>4, <2>1
  <2> QED BY <1>2, <2>2, EmptyElems DEF Moves
<1>6. CASE ~(over <= 0) /\ mb.policy \in Evicting
  <2> DEFINE kept == SubSeq(all, over + 1, Len(all))
  <2>1. out = [self |-> Holding(mb, kept), other |-> Holding(other, <<>>),
               evicted |-> {all[i] : i \in 1 .. over}]
    BY <1>3, <1>6
  <2> HIDE DEF kept
  <2>2. /\ out.self.buffer = kept /\ out.other.buffer = <<>>
        /\ out.evicted = {all[i] : i \in 1 .. over}
    BY <1>4, <2>1
  <2>3. over + 1 \in Nat \ {0} /\ Len(all) \in 0 .. Len(all)
    BY <1>1, <1>6, SMT
  <2>4. /\ Elems(kept) = {all[i] : i \in over + 1 .. Len(all)}
        /\ Distinct(all) => Distinct(kept)
    BY <1>1, <2>3, CutElems DEF kept
  <2>5. /\ \A i \in 1 .. Len(all) : i \in 1 .. over \/ i \in over + 1 .. Len(all)
        /\ \A i \in 1 .. over : i \in 1 .. Len(all)
        /\ \A i \in over + 1 .. Len(all) : i \in 1 .. Len(all)
        /\ \A i \in 1 .. over, j \in over + 1 .. Len(all) : i # j
    BY <1>1, <1>6, SMT
  <2>6. Elems(kept) \cup out.evicted = Elems(all)
    BY <2>2, <2>4, <2>5 DEF Elems
  <2>7. Distinct(all) => Elems(kept) \cap out.evicted = {}
    BY <2>2, <2>4, <2>5 DEF Distinct
  <2> QED BY <1>2, <2>2, <2>4, <2>6, <2>7, EmptyElems DEF Moves
<1>7. CASE ~(over <= 0) /\ mb.policy \notin Evicting
  <2> DEFINE kept == SubSeq(all, 1, mb.capacity)
  <2>1. out = [self |-> Holding(mb, kept), other |-> Holding(other, rest), evicted |-> {}]
    BY <1>3, <1>7
  <2> HIDE DEF kept, rest
  <2>2. out.self.buffer = kept /\ out.other.buffer = rest /\ out.evicted = {}
    BY <1>4, <2>1
  <2>3. /\ 1 \in Nat \ {0} /\ mb.capacity \in 0 .. Len(all)
        /\ room + 2 \in Nat \ {0} /\ Len(other.buffer) \in 0 .. Len(other.buffer)
    BY <1>1, <1>7, SMT
  <2>4. /\ Elems(kept) = {all[i] : i \in 1 .. mb.capacity}
        /\ Elems(rest) = {other.buffer[i] : i \in room + 2 .. Len(other.buffer)}
        /\ Distinct(all) => Distinct(kept)
        /\ Distinct(other.buffer) => Distinct(rest)
        /\ Sorted(other.buffer) => Sorted(rest)
    BY <1>1, <2>3, CutElems DEF kept, rest
  <2>5. /\ \A i \in 1 .. mb.capacity : i \in 1 .. Len(all)
        /\ \A i \in room + 2 .. Len(other.buffer) : i \in 1 .. Len(other.buffer)
    BY <1>1, <2>3, SMT
  <2>6. Elems(kept) \subseteq Elems(all) /\ Elems(rest) \subseteq Elems(other.buffer)
    BY <2>4, <2>5 DEF Elems
  <2>7. ASSUME Distinct(all) PROVE Elems(kept) \cap Elems(rest) = {}
    <3> SUFFICES ASSUME NEW i \in 1 .. mb.capacity, NEW j \in room + 2 .. Len(other.buffer),
                        all[i] = other.buffer[j]
                 PROVE  FALSE
      BY <2>4
    <3>0. /\ j \in 1 .. Len(other.buffer) /\ i \in 1 .. Len(all)
          /\ i <= mb.capacity /\ room + 2 <= j
      BY <1>1, <2>3, <2>5, SMT DEF rest
    <3>1. /\ other.buffer[j] = all[Len(mb.buffer) + j]
          /\ Len(mb.buffer) + j \in 1 .. Len(all)
      BY <1>1, <3>0, ConcatAt DEF all
    <3>2. i # Len(mb.buffer) + j
      <4>1. \A h, c, k, l \in Nat : k <= c /\ c - h + 2 <= l => k # h + l
        BY SMT
      <4>2. /\ Len(mb.buffer) \in Nat /\ mb.capacity \in Nat
            /\ i \in Nat /\ j \in Nat
        BY <1>1, <3>0
      <4>3. mb.capacity - Len(mb.buffer) + 2 <= j
        BY <3>0
      <4> QED BY <3>0, <4>1, <4>2, <4>3, Zenon
    <3> QED BY <2>7, <3>0, <3>1, <3>2 DEF Distinct
  <2> QED BY <1>2, <1>7, <2>2, <2>4, <2>6, <2>7 DEF Moves
<1> QED BY <1>5, <1>6, <1>7
-----------------------------------------------------------------------------
(* Each message is in one place                                            *)

(* Every message accounted for was sent, and is in one place only.         *)
UniqueInv ==
  /\ Accounted \subseteq 1 .. sent
  /\ \A b \in Boxes : Distinct(box[b].buffer) /\ Distinct(popped[b])
  /\ \A b \in Boxes : Held(b) \cap Popped(b) = {}
  /\ \A b, o \in Boxes : b # o =>
       (Held(b) \cup Popped(b)) \cap (Held(o) \cup Popped(o)) = {}
  /\ \A b \in Boxes : (Held(b) \cup Popped(b)) \cap Gone = {}
  /\ evicted \cap returned = {} /\ evicted \cap discarded = {}
  /\ returned \cap discarded = {}

(* Every message that was sent is accounted for.                           *)
Complete == 1 .. sent \subseteq Accounted

(* A step at one mailbox that accepts the messages M and lets go of those  *)
(* in E, R and D.                                                          *)
Flows(b, M, E, R, D) ==
  /\ 1 .. sent' = 1 .. sent \cup M /\ M \cap 1 .. sent = {}
  /\ evicted' = evicted \cup E /\ returned' = returned \cup R
  /\ discarded' = discarded \cup D
  /\ \A o \in Boxes : o # b => box'[o] = box[o] /\ popped'[o] = popped[o]
  /\ Held(b)' \cup Popped(b)' \cup E \cup R \cup D = Held(b) \cup Popped(b) \cup M
  /\ Held(b)' \cap Popped(b)' = {}
  /\ (Held(b)' \cup Popped(b)') \cap (E \cup R \cup D) = {}
  /\ E \cap R = {} /\ E \cap D = {} /\ R \cap D = {}
  /\ Distinct(box'[b].buffer) /\ Distinct(popped'[b])

(* Such a step leaves every message in one place.                          *)
LEMMA Flow ==
  ASSUME UniqueInv, NEW b \in Boxes, NEW M, NEW E, NEW R, NEW D, Flows(b, M, E, R, D)
  PROVE  UniqueInv' /\ (Complete => Complete')
<1> USE DEF Flows
<1> DEFINE Own(o) == Held(o) \cup Popped(o)
           own == Own(b)
           next == Held(b)' \cup Popped(b)'
<1>1. \A o \in Boxes : o # b => Held(o)' = Held(o) /\ Popped(o)' = Popped(o)
  BY DEF Held, Popped
<1>2. /\ \A o \in Boxes : Own(o) \subseteq 1 .. sent
      /\ Gone \subseteq 1 .. sent
  BY DEF UniqueInv, Accounted
<1>3. Gone' = Gone \cup E \cup R \cup D
  BY DEF Gone
<1>4. M \cap Gone = {} /\ \A o \in Boxes : M \cap Own(o) = {}
  BY <1>2
<1>5. next \cup E \cup R \cup D = own \cup M /\ next \cap (E \cup R \cup D) = {}
  OBVIOUS
<1>6. own \cap Gone = {} /\ \A o \in Boxes : o # b => own \cap Own(o) = {} /\ Own(o) \cap Gone = {}
  BY DEF UniqueInv
<1>7. \A o \in Boxes : o # b => next \cap Own(o) = {} /\ Own(o) \cap (E \cup R \cup D) = {}
  BY <1>4, <1>5, <1>6
<1>8. (E \cup R \cup D) \cap Gone = {} /\ next \cap Gone = {}
  BY <1>4, <1>5, <1>6
<1>9. Accounted' \subseteq 1 .. sent'
  <2>1. \A o \in Boxes : Held(o)' \cup Popped(o)' \subseteq 1 .. sent'
    BY <1>1, <1>2, <1>5
  <2>2. Gone' \subseteq 1 .. sent'
    BY <1>2, <1>3, <1>5
  <2> QED BY <2>1, <2>2 DEF Accounted
<1>10. \A o \in Boxes : Held(o)' \cap Popped(o)' = {}
  BY <1>1 DEF UniqueInv
<1>11. \A c, o \in Boxes : c # o =>
         (Held(c)' \cup Popped(c)') \cap (Held(o)' \cup Popped(o)') = {}
  BY <1>1, <1>7 DEF UniqueInv
<1>12. \A o \in Boxes : (Held(o)' \cup Popped(o)') \cap Gone' = {}
  BY <1>1, <1>3, <1>5, <1>6, <1>7, <1>8
<1>13. evicted' \cap returned' = {} /\ evicted' \cap discarded' = {}
       /\ returned' \cap discarded' = {}
  BY <1>8 DEF Gone, UniqueInv
<1>14. \A o \in Boxes : Distinct(box'[o].buffer) /\ Distinct(popped'[o])
  BY DEF UniqueInv
<1>15. Complete => Complete'
  <2> SUFFICES ASSUME Complete, NEW m \in 1 .. sent' PROVE m \in Accounted'
    BY DEF Complete
  <2>1. CASE m \in M \/ m \in own
    BY <1>3, <1>5, <2>1 DEF Accounted
  <2>2. CASE m \in 1 .. sent /\ m \notin own
    <3>1. m \in Gone \/ \E o \in Boxes : o # b /\ m \in Own(o)
      BY <2>2 DEF Complete, Accounted
    <3>2. CASE m \in Gone
      BY <1>3, <3>2 DEF Accounted
    <3>3. CASE \E o \in Boxes : o # b /\ m \in Own(o)
      BY <1>1, <3>3 DEF Accounted
    <3> QED BY <3>1, <3>2, <3>3
  <2> QED BY <2>1, <2>2
<1> QED BY <1>9, <1>10, <1>11, <1>12, <1>13, <1>14, <1>15 DEF UniqueInv
(* What is in a mailbox and what was popped from it, as sequences.         *)
LEMMA SequencesAre ==
  ASSUME BoxInv, NEW b \in Boxes
  PROVE  /\ box[b] \in Mailbox /\ box[b].buffer \in Seq(Nat) /\ popped[b] \in Seq(Nat)
         /\ Held(b) = Elems(box[b].buffer) /\ Popped(b) = Elems(popped[b])
<1>1. box[b] \in Mailbox /\ popped[b] \in Seq(Nat)
  BY DEF BoxInv
<1> QED BY <1>1, MailboxType DEF Held, Popped, Elems

(* The order of what is in a mailbox nothing was appended to, and of what  *)
(* was popped from it before.                                              *)
OrderInv == \A b \in Boxes \ mixed :
  /\ Sorted(popped[b]) /\ Sorted(box[b].buffer)
  /\ \A x \in Popped(b), y \in Held(b) : x < y

(* What a step must keep besides the types.                                *)
Kept == UniqueInv' /\ OrderInv' /\ (AppendPolicies \subseteq Evicting /\ Complete => Complete')

(* A message that is sent is new to every mailbox.                         *)
LEMMA SendKeeps ==
  ASSUME BoxInv, UniqueInv, OrderInv, NEW b \in Boxes, DoPush(b) \/ DoTryPush(b)
  PROVE  Kept
<1> DEFINE m == sent + 1
<1>1. PICK out \in {Push(box[b], m), TryPush(box[b], m)} : SendWith(b, out)
  BY DEF DoPush, DoTryPush
<1>2. /\ box' = [box EXCEPT ![b] = out.box] /\ sent' = m
      /\ evicted' = evicted \cup out.evicted /\ returned' = returned \cup out.returned
      /\ UNCHANGED <<popped, mixed, discarded>>
  BY <1>1 DEF SendWith, Apply
<1>3. /\ m \in Nat /\ 1 .. sent' = 1 .. sent \cup {m} /\ {m} \cap 1 .. sent = {}
      /\ \A x \in 1 .. sent : x < m
  BY <1>2, SMT DEF BoxInv
<1>4. Held(b) \cup Popped(b) \subseteq 1 .. sent
  BY DEF UniqueInv, Accounted
<1>5. /\ box[b] \in Mailbox /\ Held(b) = Elems(box[b].buffer)
      /\ Distinct(box[b].buffer) /\ Distinct(popped[b])
  BY SequencesAre DEF UniqueInv
<1>6. /\ Keeps(Elems(box[b].buffer) \cup {m}, out)
      /\ Sorted(box[b].buffer) /\ (\A x \in Elems(box[b].buffer) : x < m)
           => Sorted(out.box.buffer)
  <2>1. m \notin Elems(box[b].buffer)
    BY <1>3, <1>4, <1>5
  <2> QED BY <1>1, <1>3, <1>5, <2>1, PushFlow
<1> HIDE DEF m
<1>7. /\ box'[b] = out.box /\ popped'[b] = popped[b]
      /\ \A o \in Boxes : o # b => box'[o] = box[o] /\ popped'[o] = popped[o]
      /\ Held(b)' = Elems(out.box.buffer) /\ Popped(b)' = Popped(b)
  BY <1>2 DEF BoxInv, Held, Popped, Elems
<1>8. UniqueInv' /\ (Complete => Complete')
  <2>1. Flows(b, {m}, out.evicted, out.returned, {})
    <3>1. Held(b)' \cup Popped(b)' \cup out.evicted \cup out.returned \cup {}
            = Held(b) \cup Popped(b) \cup {m}
      BY <1>5, <1>6, <1>7 DEF Keeps
    <3>2. /\ Held(b)' \cap Popped(b)' = {}
          /\ (Held(b)' \cup Popped(b)') \cap (out.evicted \cup out.returned \cup {}) = {}
      BY <1>3, <1>4, <1>5, <1>6, <1>7 DEF Keeps, UniqueInv
    <3>3. /\ out.evicted \cap out.returned = {} /\ Distinct(box'[b].buffer)
          /\ Distinct(popped'[b]) /\ discarded' = discarded \cup {}
          /\ out.evicted \cap {} = {} /\ out.returned \cap {} = {}
      BY <1>2, <1>5, <1>6, <1>7 DEF Keeps
    <3> QED BY <1>2, <1>3, <1>7, <3>1, <3>2, <3>3, Zenon DEF Flows
  <2> QED BY <2>1, Flow
<1>9. OrderInv'
  <2> SUFFICES ASSUME NEW o \in Boxes \ mixed
               PROVE  /\ Sorted(popped'[o]) /\ Sorted(box'[o].buffer)
                      /\ \A x \in Popped(o)', y \in Held(o)' : x < y
    BY <1>2 DEF OrderInv
  <2>1. CASE o # b
    BY <1>7, <2>1 DEF OrderInv, Held, Popped
  <2>2. CASE o = b
    <3>1. \A y \in Held(b)' : y \in Held(b) \/ y = m
      BY <1>5, <1>6, <1>7 DEF Keeps
    <3>2. Sorted(out.box.buffer)
      BY <1>3, <1>4, <1>5, <1>6, <2>2 DEF OrderInv
    <3> QED BY <1>3, <1>4, <1>7, <2>2, <3>1, <3>2 DEF OrderInv
  <2> QED BY <2>1, <2>2
<1> QED BY <1>8, <1>9 DEF Kept

(* A pop moves the oldest message of the mailbox to the end of what was    *)
(* popped.                                                                 *)
LEMMA PopKeeps ==
  ASSUME BoxInv, UniqueInv, OrderInv, NEW b \in Boxes, DoPop(b)
  PROVE  Kept
<1> DEFINE s == box[b].buffer
           h == Head(s)
<1>1. /\ box' = [box EXCEPT ![b] = [box[b] EXCEPT !.buffer = Tail(s)]]
      /\ popped' = [popped EXCEPT ![b] = Append(popped[b], h)] /\ s # <<>>
      /\ UNCHANGED <<sent, evicted, returned, mixed, discarded>>
  BY DEF DoPop
<1>2. /\ box[b] \in Mailbox /\ s \in Seq(Nat) /\ popped[b] \in Seq(Nat)
      /\ Held(b) = Elems(s) /\ Popped(b) = Elems(popped[b])
      /\ Distinct(s) /\ Distinct(popped[b]) /\ Held(b) \cap Popped(b) = {}
  BY SequencesAre DEF UniqueInv
<1>3. /\ h \in Nat /\ Elems(s) = {h} \cup Elems(Tail(s))
      /\ h \notin Elems(Tail(s)) /\ Distinct(Tail(s))
      /\ Sorted(s) => (\A x \in Elems(Tail(s)) : h < x) /\ Sorted(Tail(s))
  BY <1>1, <1>2, TailElems
<1>4. /\ Elems(Append(popped[b], h)) = Elems(popped[b]) \cup {h}
      /\ Distinct(Append(popped[b], h))
      /\ (\A x \in Elems(popped[b]) : x < h) /\ Sorted(popped[b])
           => Sorted(Append(popped[b], h))
  BY <1>2, <1>3, AppendElems
<1> HIDE DEF h
<1>5. /\ box'[b].buffer = Tail(s) /\ popped'[b] = Append(popped[b], h)
      /\ \A o \in Boxes : o # b => box'[o] = box[o] /\ popped'[o] = popped[o]
      /\ Held(b)' = Elems(Tail(s)) /\ Popped(b)' = Popped(b) \cup {h}
  <2>1. box'[b].buffer = Tail(s)
    BY <1>1, <1>2 DEF BoxInv, Mailbox
  <2>2. /\ popped'[b] = Append(popped[b], h)
        /\ \A o \in Boxes : o # b => box'[o] = box[o] /\ popped'[o] = popped[o]
    BY <1>1 DEF BoxInv
  <2>3. Held(b)' = Elems(box'[b].buffer) /\ Popped(b)' = Elems(popped'[b])
    BY DEF Held, Popped, Elems
  <2> QED BY <1>2, <1>4, <2>1, <2>2, <2>3
<1>6. UniqueInv' /\ (Complete => Complete')
  <2>1. Flows(b, {}, {}, {}, {})
    BY <1>1, <1>2, <1>3, <1>4, <1>5 DEF Flows
  <2> QED BY <2>1, Flow
<1>7. OrderInv'
  <2> SUFFICES ASSUME NEW o \in Boxes \ mixed
               PROVE  /\ Sorted(popped'[o]) /\ Sorted(box'[o].buffer)
                      /\ \A x \in Popped(o)', y \in Held(o)' : x < y
    BY <1>1 DEF OrderInv
  <2>1. CASE o # b
    BY <1>5, <2>1 DEF OrderInv, Held, Popped
  <2>2. CASE o = b
    <3>1. /\ Sorted(popped[b]) /\ Sorted(s)
          /\ \A x \in Elems(popped[b]), y \in Elems(s) : x < y
      BY <1>2, <2>2 DEF OrderInv
    <3>2. Sorted(Tail(s)) /\ Sorted(Append(popped[b], h))
      BY <1>3, <1>4, <3>1
    <3>3. ASSUME NEW x \in Popped(b)', NEW y \in Held(b)' PROVE x < y
      BY <1>2, <1>3, <1>5, <3>1, <3>3
    <3> QED BY <1>5, <2>2, <3>2, <3>3
  <2> QED BY <2>1, <2>2
<1> QED BY <1>6, <1>7 DEF Kept
(* Undoing the latest pop puts its message back in front.                  *)
LEMMA UnPopKeeps ==
  ASSUME BoxInv, UniqueInv, OrderInv, NEW b \in Boxes, UnPop(b)
  PROVE  Kept
<1> DEFINE q == popped[b]
           m == q[Len(q)]
           out == PushFront(box[b], m)
<1>1. /\ box' = [box EXCEPT ![b] = out.box] /\ q # <<>>
      /\ popped' = [popped EXCEPT ![b] = SubSeq(q, 1, Len(q) - 1)]
      /\ evicted' = evicted \cup out.evicted /\ returned' = returned \cup out.returned
      /\ UNCHANGED <<sent, mixed, discarded>>
  <2>1. q \in Seq(Nat) /\ Len(q) > 0
    BY SequencesAre DEF UnPop
  <2>2. q # <<>>
    BY <2>1, SMT
  <2> QED BY <2>2 DEF UnPop, Apply
<1>2. /\ box[b] \in Mailbox /\ q \in Seq(Nat)
      /\ Held(b) = Elems(box[b].buffer) /\ Popped(b) = Elems(q)
      /\ Distinct(box[b].buffer) /\ Distinct(q) /\ Held(b) \cap Popped(b) = {}
  BY SequencesAre DEF UniqueInv
<1>3. /\ m \in Nat /\ Elems(q) = {m} \cup Elems(SubSeq(q, 1, Len(q) - 1))
      /\ m \notin Elems(SubSeq(q, 1, Len(q) - 1)) /\ Distinct(SubSeq(q, 1, Len(q) - 1))
      /\ Sorted(q) => /\ \A x \in Elems(SubSeq(q, 1, Len(q) - 1)) : x < m
                      /\ Sorted(SubSeq(q, 1, Len(q) - 1))
  <2>1. SubSeq(q, 1, Len(q) - 1) = Front(q)
    BY <1>1, <1>2, FrontElems
  <2>2. /\ m \in Nat /\ Elems(q) = {m} \cup Elems(Front(q))
        /\ m \notin Elems(Front(q)) /\ Distinct(Front(q))
        /\ Sorted(q) => /\ \A x \in Elems(Front(q)) : x < m
                        /\ Sorted(Front(q))
    BY <1>1, <1>2, FrontElems
  <2> HIDE DEF m
  <2> QED BY <2>1, <2>2
<1> DEFINE r == SubSeq(q, 1, Len(q) - 1)
<1> HIDE DEF m, r
<1>4. /\ Keeps(Elems(box[b].buffer) \cup {m}, out)
      /\ Sorted(box[b].buffer) /\ (\A x \in Elems(box[b].buffer) : m < x)
           => Sorted(out.box.buffer)
  <2>1. m \notin Elems(box[b].buffer)
    BY <1>2, <1>3
  <2> QED BY <1>2, <1>3, <2>1, PushFrontFlow
<1>5. /\ box'[b] = out.box /\ popped'[b] = r
      /\ \A o \in Boxes : o # b => box'[o] = box[o] /\ popped'[o] = popped[o]
      /\ Held(b)' = Elems(out.box.buffer) /\ Popped(b)' = Elems(r)
  <2>1. /\ box'[b] = out.box /\ popped'[b] = r
        /\ \A o \in Boxes : o # b => box'[o] = box[o] /\ popped'[o] = popped[o]
    BY <1>1 DEF BoxInv, r
  <2> QED BY <2>1 DEF Held, Popped, Elems
<1> HIDE DEF out
<1>6. UniqueInv' /\ (Complete => Complete')
  <2>1. Flows(b, {}, out.evicted, out.returned, {})
    <3>1. Held(b)' \cup Popped(b)' \cup out.evicted \cup out.returned \cup {}
            = Held(b) \cup Popped(b) \cup {}
      BY <1>2, <1>3, <1>4, <1>5 DEF Keeps, r
    <3>2. /\ Held(b)' \cap Popped(b)' = {}
          /\ (Held(b)' \cup Popped(b)') \cap (out.evicted \cup out.returned \cup {}) = {}
      BY <1>2, <1>3, <1>4, <1>5 DEF Keeps, r
    <3>3. /\ out.evicted \cap out.returned = {} /\ Distinct(box'[b].buffer)
          /\ Distinct(popped'[b]) /\ discarded' = discarded \cup {}
          /\ out.evicted \cap {} = {} /\ out.returned \cap {} = {}
          /\ 1 .. sent' = 1 .. sent \cup {} /\ {} \cap 1 .. sent = {}
      BY <1>1, <1>3, <1>4, <1>5 DEF Keeps, r
    <3> QED BY <1>1, <1>5, <3>1, <3>2, <3>3, Zenon DEF Flows
  <2> QED BY <2>1, Flow
<1>7. OrderInv'
  <2> SUFFICES ASSUME NEW o \in Boxes \ mixed
               PROVE  /\ Sorted(popped'[o]) /\ Sorted(box'[o].buffer)
                      /\ \A x \in Popped(o)', y \in Held(o)' : x < y
    BY <1>1 DEF OrderInv
  <2>1. CASE o # b
    BY <1>5, <2>1 DEF OrderInv, Held, Popped
  <2>2. CASE o = b
    <3>1. /\ Sorted(q) /\ Sorted(box[b].buffer)
          /\ \A x \in Elems(q), y \in Elems(box[b].buffer) : x < y
      BY <1>2, <2>2 DEF OrderInv
    <3>2. Sorted(r) /\ Sorted(out.box.buffer)
      BY <1>3, <1>4, <3>1 DEF r
    <3>3. ASSUME NEW x \in Popped(b)', NEW y \in Held(b)' PROVE x < y
      <4>1. y = m \/ y \in Elems(box[b].buffer)
        BY <1>4, <1>5, <3>3 DEF Keeps
      <4>2. x < m /\ x \in Elems(q)
        BY <1>3, <1>5, <3>1, <3>3 DEF r
      <4> QED BY <3>1, <4>1, <4>2
    <3> QED BY <1>5, <2>2, <3>2, <3>3
  <2> QED BY <2>1, <2>2
<1> QED BY <1>6, <1>7 DEF Kept

(* Taking messages out of a mailbox, one or all, and dropping them.        *)
LEMMA DiscardKeeps ==
  ASSUME BoxInv, UniqueInv, OrderInv, NEW b \in Boxes, DoRemove(b) \/ DoClear(b)
  PROVE  Kept
<1> DEFINE s == box[b].buffer
<1>1. /\ box[b] \in Mailbox /\ s \in Seq(Nat)
      /\ Held(b) = Elems(s) /\ Popped(b) = Elems(popped[b])
      /\ Distinct(s) /\ Distinct(popped[b]) /\ Held(b) \cap Popped(b) = {}
  BY SequencesAre DEF UniqueInv
<1>2. PICK r, D : /\ box' = [box EXCEPT ![b] = [box[b] EXCEPT !.buffer = r]]
                  /\ discarded' = discarded \cup D
                  /\ UNCHANGED <<sent, popped, evicted, returned, mixed>>
                  /\ Elems(s) = Elems(r) \cup D /\ Elems(r) \cap D = {}
                  /\ Distinct(r) /\ (Sorted(s) => Sorted(r))
  <2>1. CASE DoRemove(b)
    <3>1. PICK i \in 1 .. Len(s) :
            /\ box' = [box EXCEPT ![b] = [box[b] EXCEPT !.buffer = RemoveAt(s, i)]]
            /\ discarded' = discarded \cup {s[i]}
            /\ UNCHANGED <<sent, popped, evicted, returned, mixed>>
      BY <2>1 DEF DoRemove
    <3>2. /\ Elems(s) = {s[i]} \cup Elems(RemoveAt(s, i))
          /\ s[i] \notin Elems(RemoveAt(s, i)) /\ Distinct(RemoveAt(s, i))
          /\ Sorted(s) => Sorted(RemoveAt(s, i))
      BY <1>1, RemoveElems
    <3>3. /\ Elems(s) = Elems(RemoveAt(s, i)) \cup {s[i]}
          /\ Elems(RemoveAt(s, i)) \cap {s[i]} = {}
      BY <3>2
    <3> WITNESS RemoveAt(s, i), {s[i]}
    <3> QED BY <3>1, <3>2, <3>3
  <2>2. CASE DoClear(b)
    <3>1. /\ box' = [box EXCEPT ![b] = [box[b] EXCEPT !.buffer = <<>>]]
          /\ discarded' = discarded \cup Elems(s)
          /\ UNCHANGED <<sent, popped, evicted, returned, mixed>>
      BY <2>2 DEF DoClear, Elems
    <3>2. Elems(s) = Elems(<<>>) \cup Elems(s) /\ Elems(<<>>) \cap Elems(s) = {}
      BY EmptyElems
    <3> WITNESS <<>>, Elems(s)
    <3> QED BY <3>1, <3>2, EmptyElems
  <2> QED BY <2>1, <2>2
<1>3. /\ box'[b].buffer = r /\ popped'[b] = popped[b]
      /\ \A o \in Boxes : o # b => box'[o] = box[o] /\ popped'[o] = popped[o]
      /\ Held(b)' = Elems(r) /\ Popped(b)' = Popped(b)
  <2>1. /\ box'[b].buffer = r
        /\ \A o \in Boxes : o # b => box'[o] = box[o]
    BY <1>1, <1>2 DEF BoxInv, Mailbox
  <2> QED BY <1>2, <2>1 DEF Held, Popped, Elems
<1>4. UniqueInv' /\ (Complete => Complete')
  <2>1. Flows(b, {}, {}, {}, D)
    <3>1. /\ Held(b)' \cup Popped(b)' \cup {} \cup {} \cup D = Held(b) \cup Popped(b) \cup {}
          /\ Held(b)' \cap Popped(b)' = {}
          /\ (Held(b)' \cup Popped(b)') \cap ({} \cup {} \cup D) = {}
      BY <1>1, <1>2, <1>3
    <3>2. /\ {} \cap {} = {} /\ {} \cap D = {}
          /\ evicted' = evicted \cup {} /\ returned' = returned \cup {}
          /\ 1 .. sent' = 1 .. sent \cup {} /\ {} \cap 1 .. sent = {}
      BY <1>2
    <3> QED BY <1>1, <1>2, <1>3, <3>1, <3>2, Zenon DEF Flows
  <2> QED BY <2>1, Flow
<1>5. OrderInv'
  <2> SUFFICES ASSUME NEW o \in Boxes \ mixed
               PROVE  /\ Sorted(popped'[o]) /\ Sorted(box'[o].buffer)
                      /\ \A x \in Popped(o)', y \in Held(o)' : x < y
    BY <1>2 DEF OrderInv
  <2>1. CASE o # b
    BY <1>3, <2>1 DEF OrderInv, Held, Popped
  <2>2. CASE o = b
    BY <1>1, <1>2, <1>3, <2>2 DEF OrderInv
  <2> QED BY <2>1, <2>2
<1> QED BY <1>4, <1>5 DEF Kept
(* append moves messages from one mailbox to another.                      *)
LEMMA AppendKeeps ==
  ASSUME BoxInv, UniqueInv, OrderInv, NEW b \in Boxes, NEW o \in Boxes, DoAppend(b, o)
  PROVE  Kept
<1> DEFINE out == AppendBoth(box[b], box[o])
           all == Held(b) \cup Held(o)
<1>1. /\ b # o /\ box[b].policy \in AppendPolicies
      /\ box' = [box EXCEPT ![b] = out.self, ![o] = out.other]
      /\ evicted' = evicted \cup out.evicted /\ mixed' = mixed \cup {b}
      /\ UNCHANGED <<sent, popped, returned, discarded>>
  BY DEF DoAppend
<1>2. /\ box[b] \in Mailbox /\ Held(b) = Elems(box[b].buffer) /\ Distinct(box[b].buffer)
      /\ box[o] \in Mailbox /\ Held(o) = Elems(box[o].buffer) /\ Distinct(box[o].buffer)
      /\ Held(b) \cap Held(o) = {} /\ Held(b) \cap Popped(b) = {} /\ Held(o) \cap Popped(o) = {}
      /\ Held(b) \cap Popped(o) = {} /\ Held(o) \cap Popped(b) = {}
      /\ \A a \in Boxes : a # b /\ a # o => all \cap (Held(a) \cup Popped(a)) = {}
      /\ all \cap Gone = {} /\ all \subseteq 1 .. sent
  <2>1. \A a, c \in Boxes : a # c => (Held(a) \cup Popped(a)) \cap (Held(c) \cup Popped(c)) = {}
    BY DEF UniqueInv
  <2>2. \A a \in Boxes : (Held(a) \cup Popped(a)) \cap Gone = {} /\ Held(a) \subseteq 1 .. sent
    BY DEF UniqueInv, Accounted
  <2> QED BY <1>1, <2>1, <2>2, SequencesAre DEF UniqueInv
<1>3. /\ Elems(out.self.buffer) \subseteq all /\ out.evicted \subseteq all
      /\ Elems(out.other.buffer) \subseteq Held(o)
      /\ Sorted(box[o].buffer) => Sorted(out.other.buffer)
      /\ Elems(out.self.buffer) \cap Elems(out.other.buffer) = {}
      /\ out.evicted \cap (Elems(out.self.buffer) \cup Elems(out.other.buffer)) = {}
      /\ Distinct(out.self.buffer) /\ Distinct(out.other.buffer)
      /\ box[b].policy \in Evicting
           => Elems(out.self.buffer) \cup Elems(out.other.buffer) \cup out.evicted = all
  <2>1. Elems(box[b].buffer) \cap Elems(box[o].buffer) = {}
    BY <1>2
  <2>2. out = AppendBoth(box[b], box[o])
    OBVIOUS
  <2> HIDE DEF out
  <2> DEFINE x == Elems(box[b].buffer)
             y == Elems(box[o].buffer)
  <2>3. /\ Elems(out.self.buffer) \subseteq x \cup y /\ Elems(out.other.buffer) \subseteq y
        /\ Sorted(box[o].buffer) => Sorted(out.other.buffer)
        /\ Distinct(box[b].buffer) /\ Distinct(box[o].buffer) /\ x \cap y = {}
             => /\ out.evicted \subseteq x \cup y
                /\ Elems(out.self.buffer) \cap Elems(out.other.buffer) = {}
                /\ out.evicted \cap (Elems(out.self.buffer) \cup Elems(out.other.buffer)) = {}
                /\ Distinct(out.self.buffer) /\ Distinct(out.other.buffer)
        /\ box[b].policy \in Evicting
             => Elems(out.self.buffer) \cup Elems(out.other.buffer) \cup out.evicted = x \cup y
    BY <1>2, <2>2, AppendFlow DEF Moves
  <2> HIDE DEF x, y
  <2>4. x = Held(b) /\ y = Held(o) /\ x \cap y = {}
    BY <1>2, <2>1 DEF x, y
  <2> QED BY <1>2, <2>3, <2>4
<1> HIDE DEF out
<1>4. /\ box'[b] = out.self /\ box'[o] = out.other
      /\ \A a \in Boxes : a # b /\ a # o => box'[a] = box[a]
      /\ \A a \in Boxes : Popped(a)' = Popped(a)
      /\ Held(b)' = Elems(out.self.buffer) /\ Held(o)' = Elems(out.other.buffer)
      /\ \A a \in Boxes : a # b /\ a # o => Held(a)' = Held(a)
  <2>1. /\ box'[b] = out.self /\ box'[o] = out.other
        /\ \A a \in Boxes : a # b /\ a # o => box'[a] = box[a]
    BY <1>1 DEF BoxInv
  <2> QED BY <1>1, <2>1 DEF Held, Popped, Elems
<1>5. Gone' = Gone \cup out.evicted
  BY <1>1 DEF Gone
<1>6. UniqueInv'
  <2>1. \A a \in Boxes : Held(a)' \cap Popped(a)' = {}
    BY <1>2, <1>3, <1>4 DEF UniqueInv
  <2>2. \A a \in Boxes : Distinct(box'[a].buffer) /\ Distinct(popped'[a])
    BY <1>1, <1>3, <1>4 DEF UniqueInv
  <2>3. \A a \in Boxes : (Held(a)' \cup Popped(a)') \cap Gone' = {}
    <3> TAKE a \in Boxes
    <3>1. Held(a)' \subseteq all \cup Held(a) /\ Popped(a)' = Popped(a)
      BY <1>3, <1>4
    <3>2. (Held(a) \cup Popped(a)) \cap Gone = {} /\ all \cap Gone = {}
      BY <1>2 DEF UniqueInv
    <3>3. Held(a)' \cap out.evicted = {} /\ Popped(a) \cap out.evicted = {}
      BY <1>2, <1>3, <1>4
    <3> QED BY <1>5, <3>1, <3>2, <3>3
  <2>4. ASSUME NEW a \in Boxes, NEW c \in Boxes, a # c
        PROVE  (Held(a)' \cup Popped(a)') \cap (Held(c)' \cup Popped(c)') = {}
    <3>1. (Held(a) \cup Popped(a)) \cap (Held(c) \cup Popped(c)) = {}
      BY <2>4 DEF UniqueInv
    <3>2. CASE a \notin {b, o} /\ c \notin {b, o}
      BY <1>4, <3>1, <3>2
    <3>3. CASE a \in {b, o} /\ c \in {b, o}
      BY <1>2, <1>3, <1>4, <2>4, <3>1, <3>3
    <3>4. CASE a \in {b, o} /\ c \notin {b, o}
      BY <1>2, <1>3, <1>4, <3>1, <3>4
    <3>5. CASE a \notin {b, o} /\ c \in {b, o}
      BY <1>2, <1>3, <1>4, <3>1, <3>5
    <3> QED BY <3>2, <3>3, <3>4, <3>5
  <2>5. Accounted' \subseteq 1 .. sent'
    <3>1. \A a \in Boxes : Held(a) \cup Popped(a) \subseteq 1 .. sent
      BY DEF UniqueInv, Accounted
    <3>2. \A a \in Boxes : Held(a)' \cup Popped(a)' \subseteq 1 .. sent'
      BY <1>1, <1>2, <1>3, <1>4, <3>1
    <3>3. Gone' \subseteq 1 .. sent'
      BY <1>1, <1>2, <1>3, <1>5 DEF UniqueInv, Accounted
    <3> QED BY <3>2, <3>3 DEF Accounted
  <2>6. evicted' \cap returned' = {} /\ evicted' \cap discarded' = {}
        /\ returned' \cap discarded' = {}
    BY <1>1, <1>2, <1>3 DEF UniqueInv, Gone
  <2> QED BY <2>1, <2>2, <2>3, <2>4, <2>5, <2>6 DEF UniqueInv
<1>7. ASSUME AppendPolicies \subseteq Evicting, Complete PROVE Complete'
  <2> SUFFICES ASSUME NEW m \in 1 .. sent' PROVE m \in Accounted'
    BY DEF Complete
  <2>1. m \in Gone \/ \E a \in Boxes : m \in Held(a) \cup Popped(a)
    BY <1>1, <1>7 DEF Complete, Accounted
  <2>2. CASE m \in Gone
    BY <1>5, <2>2 DEF Accounted
  <2>3. CASE \E a \in Boxes : m \in Popped(a)
    BY <1>4, <2>3 DEF Accounted
  <2>4. CASE \E a \in Boxes : a # b /\ a # o /\ m \in Held(a)
    BY <1>4, <2>4 DEF Accounted
  <2>5. CASE m \in all
    <3>1. m \in Held(b)' \/ m \in Held(o)' \/ m \in out.evicted
      BY <1>1, <1>3, <1>4, <1>7, <2>5
    <3> QED BY <1>5, <3>1 DEF Accounted
  <2> QED BY <2>1, <2>2, <2>3, <2>4, <2>5
<1>8. OrderInv'
  <2> SUFFICES ASSUME NEW a \in Boxes \ mixed, a # b
               PROVE  /\ Sorted(popped'[a]) /\ Sorted(box'[a].buffer)
                      /\ \A x \in Popped(a)', y \in Held(a)' : x < y
    BY <1>1 DEF OrderInv
  <2>1. CASE a # o
    BY <1>1, <1>4, <2>1 DEF OrderInv
  <2>2. CASE a = o
    BY <1>1, <1>3, <1>4, <2>2 DEF OrderInv
  <2> QED BY <2>1, <2>2
<1> QED BY <1>6, <1>7, <1>8 DEF Kept

(* Every step keeps each message in one place and the order of sending.    *)
LEMMA NextKept == BoxInv /\ UniqueInv /\ OrderInv /\ [Next]_vars => Kept
<1> SUFFICES ASSUME BoxInv, UniqueInv, OrderInv, [Next]_vars PROVE Kept
  OBVIOUS
<1>1. ASSUME \A b \in Boxes : box'[b].buffer = box[b].buffer,
             UNCHANGED <<sent, popped, evicted, returned, mixed, discarded>>
      PROVE  Kept
  <2>1. /\ \A b \in Boxes : Held(b)' = Held(b) /\ Popped(b)' = Popped(b)
        /\ Gone' = Gone /\ Accounted' = Accounted
    BY <1>1 DEF Held, Popped, Gone, Accounted
  <2> QED BY <1>1, <2>1 DEF Kept, UniqueInv, OrderInv, Complete
<1>2. ASSUME NEW b \in Boxes, SetPolicy(b) PROVE Kept
  <2>1. PICK p : /\ box' = [box EXCEPT ![b] = [box[b] EXCEPT !.policy = p]]
                 /\ UNCHANGED <<sent, popped, evicted, returned, mixed, discarded>>
    BY <1>2 DEF SetPolicy
  <2>2. \A a \in Boxes : box'[a].buffer = box[a].buffer
    BY <2>1 DEF BoxInv, Mailbox
  <2> QED BY <1>1, <2>1, <2>2
<1>3. CASE UNCHANGED vars
  BY <1>1, <1>3 DEF vars
<1> QED BY <1>2, <1>3, SendKeeps, PopKeeps, UnPopKeeps, AppendKeeps, DiscardKeeps DEF Next

(* New mailboxes are empty.                                                *)
LEMMA InitKept == Init => UniqueInv /\ OrderInv /\ Complete
<1> SUFFICES ASSUME Init PROVE UniqueInv /\ OrderInv /\ Complete
  OBVIOUS
<1>1. \A b \in Boxes : box[b].buffer = <<>> /\ popped[b] = <<>>
  BY DEF Init, New
<1>2. \A b \in Boxes : Held(b) = {} /\ Popped(b) = {}
  BY <1>1, EmptyElems DEF Held, Popped, Elems
<1>3. Gone = {} /\ Accounted = {} /\ 1 .. sent = {}
  <2>1. 1 .. sent = {}
    BY SMT DEF Init
  <2> QED BY <1>2, <2>1 DEF Init, Gone, Accounted
<1> QED BY <1>1, <1>2, <1>3, EmptyElems DEF Init, UniqueInv, OrderInv, Complete

(* Whatever the policies, no message is ever in two places.                *)
THEOREM NeverTwice == Spec => [](BoxInv /\ UniqueInv /\ OrderInv)
<1>1. BoxInv /\ UniqueInv /\ OrderInv /\ [Next]_vars => UniqueInv' /\ OrderInv'
  BY NextKept DEF Kept
<1> QED BY <1>1, InitInv, NextInv, InitKept, PTL DEF Spec

(* No message disappears or is duplicated, as long as append is called     *)
(* under a policy that evicts; under another it drops the message it       *)
(* cannot place.                                                           *)
THEOREM EachOnce == AppendPolicies \subseteq Evicting /\ Spec => []EachMessageOnce
<1> SUFFICES ASSUME AppendPolicies \subseteq Evicting PROVE Spec => []EachMessageOnce
  OBVIOUS
<1>1. BoxInv /\ UniqueInv /\ OrderInv /\ Complete /\ [Next]_vars => Complete'
  BY NextKept DEF Kept
<1>2. BoxInv /\ UniqueInv /\ Complete => EachMessageOnce
  <2> SUFFICES ASSUME BoxInv, UniqueInv, Complete PROVE EachMessageOnce
    OBVIOUS
  <2>1. \A b \in Boxes : Cardinality(Held(b)) + Cardinality(Popped(b)) = Places[b]
    BY SequencesAre, DistinctCount DEF UniqueInv, Places
  <2> QED BY <2>1 DEF EachMessageOnce, UniqueInv, Complete
<1> QED BY <1>1, <1>2, NeverTwice, InitKept, PTL DEF Spec

(* A mailbox nothing was appended to gives out what it holds in the order  *)
(* it was sent, also after pops were undone and under every policy.        *)
THEOREM SendOrderKept == Spec => []SendOrder
<1>1. BoxInv /\ OrderInv => SendOrder
  <2> SUFFICES ASSUME BoxInv, OrderInv, NEW b \in Boxes \ mixed
               PROVE  Increasing(popped[b] \o box[b].buffer)
    BY DEF SendOrder
  <2> DEFINE s == popped[b] \o box[b].buffer
  <2>1. s \in Seq(Nat) /\ Sorted(s)
    BY SequencesAre, ConcatElems, ConcatType DEF OrderInv
  <2> HIDE DEF s
  <2>2. Increasing(s)
    BY <2>1, SMT DEF Sorted, Increasing
  <2> QED BY <2>2 DEF s
<1> QED BY <1>1, NeverTwice, PTL

-----------------------------------------------------------------------------
(* The pool: it forgets no actor that has mail and is fair by turns, for   *)
(* every set of actors, mailbox capacity, policy and number of messages.   *)

PoolBoxes == [buffer : Seq(Nat), capacity : {box_capacity}, policy : {box_policy}]

(* What the two properties need: names are queued and taken only once      *)
(* registered.                                                             *)
PoolInv ==
  /\ registered \subseteq Actors /\ running \subseteq registered
  /\ mailbox \in [Actors -> PoolBoxes]
  /\ ready_queue \in Seq(registered)
  /\ sends \in Nat /\ replaced \in BOOLEAN

PoolSafe == PoolInv /\ NoActorForgotten /\ OneTurnPerRound

(* An empty mailbox of the pool's capacity and policy is one of its boxes. *)
LEMMA PoolNewType == /\ New(box_capacity, box_policy) \in PoolBoxes
                     /\ New(box_capacity, box_policy).buffer = <<>>
BY PoolAssumption, SMT DEF New, PoolBoxes

(* A box of the pool holding another buffer is a box of the pool.          *)
LEMMA PoolHoldingType == ASSUME NEW mb \in PoolBoxes, NEW s \in Seq(Nat)
                         PROVE  [mb EXCEPT !.buffer = s] \in PoolBoxes
BY SMT DEF PoolBoxes

(* A push leaves the capacity and the policy alone, and a mailbox whose    *)
(* message was handed back as it was.                                      *)
LEMMA PoolPushType ==
  ASSUME NEW mb \in PoolBoxes, NEW m \in Nat
  PROVE  /\ Push(mb, m).box \in PoolBoxes
         /\ Push(mb, m).returned # {} => Push(mb, m).box = mb
<1> DEFINE pushed == [mb EXCEPT !.buffer = Append(mb.buffer, m)]
           shifted == [mb EXCEPT !.buffer = Append(Tail(mb.buffer), m)]
<1>1. /\ Append(mb.buffer, m) \in Seq(Nat)
      /\ mb.buffer # <<>> => Append(Tail(mb.buffer), m) \in Seq(Nat)
  BY SMT DEF PoolBoxes
<1>2. pushed \in PoolBoxes /\ (mb.buffer # <<>> => shifted \in PoolBoxes)
  BY <1>1, PoolHoldingType
<1>3. CASE HasRoom(mb)
  <2>1. Push(mb, m) = [box |-> pushed, evicted |-> {}, returned |-> {}]
    BY <1>3 DEF Push, Outcome, Holding
  <2> QED BY <1>2, <2>1
<1>4. CASE ~HasRoom(mb) /\ mb.policy \in Evicting
  <2>1. Push(mb, m) = [box |-> shifted, evicted |-> {Head(mb.buffer)}, returned |-> {}]
    BY <1>4 DEF Push, Outcome, Holding
  <2>2. mb.buffer # <<>>
    BY <1>4, PoolAssumption, SMT DEF HasRoom, PoolBoxes
  <2> QED BY <1>2, <2>1, <2>2
<1>5. CASE ~HasRoom(mb) /\ mb.policy \notin Evicting
  <2>1. Push(mb, m) = [box |-> mb, evicted |-> {}, returned |-> {m}]
    BY <1>5 DEF Push, Outcome
  <2> QED BY <2>1
<1> QED BY <1>3, <1>4, <1>5

(* Putting a name in the ready queue unless it is there leaves it there,   *)
(* once, and the others where they are.                                    *)
LEMMA EnqueueOnce ==
  ASSUME PoolInv, NEW a \in registered, Enqueue(a)
  PROVE  /\ ready_queue' \in Seq(registered)
         /\ Queued(a)'
         /\ \A b : Queued(b) => Queued(b)'
         /\ OneTurnPerRound => (~replaced => \A i, j \in 1 .. Len(ready_queue') :
                                  i # j => ready_queue'[i] # ready_queue'[j])
<1>1. CASE Queued(a)
  BY <1>1, SMT DEF Enqueue, PoolInv, Queued, OneTurnPerRound
<1>2. CASE ~Queued(a)
  <2>1. ready_queue' = Append(ready_queue, a)
    BY <1>2 DEF Enqueue
  <2>2. /\ ready_queue' \in Seq(registered)
        /\ Len(ready_queue') = Len(ready_queue) + 1
        /\ ready_queue'[Len(ready_queue) + 1] = a
        /\ \A i \in 1 .. Len(ready_queue) : ready_queue'[i] = ready_queue[i]
        /\ Len(ready_queue) \in Nat
    BY <2>1, SMT DEF PoolInv
  <2> QED BY <1>2, <2>2, SMT DEF Queued, OneTurnPerRound
<1> QED BY <1>1, <1>2

(* The invariant holds of the empty pool.                                  *)
LEMMA PoolInitSafe == PoolInit => PoolSafe
<1> SUFFICES ASSUME PoolInit PROVE PoolSafe
  OBVIOUS
<1>1. mailbox \in [Actors -> PoolBoxes]
  BY PoolNewType DEF PoolInit
<1>2. ready_queue \in Seq(registered) /\ sends \in Nat
  BY SMT DEF PoolInit
<1>3. PoolInv
  BY <1>1, <1>2 DEF PoolInit, PoolInv
<1>4. NoActorForgotten /\ OneTurnPerRound
  BY SMT DEF PoolInit, NoActorForgotten, OneTurnPerRound
<1> QED BY <1>3, <1>4 DEF PoolSafe

(* Every operation of the pool and every step of a turn keeps it.          *)
LEMMA PoolNextSafe == PoolSafe /\ [PoolNext]_poolVars => PoolSafe'
<1> SUFFICES ASSUME PoolSafe, [PoolNext]_poolVars PROVE PoolSafe'
  OBVIOUS
<1> USE DEF PoolSafe
<1>1. ASSUME NEW a \in Actors, Register(a) PROVE PoolSafe'
  <2>1. PoolInv'
    BY <1>1, PoolNewType, SMT DEF Register, PoolInv
  <2>2. /\ \A i \in 1 .. Len(ready_queue) : ready_queue'[i] = ready_queue[i]
        /\ Len(ready_queue') = Len(ready_queue) + 1 /\ Len(ready_queue) \in Nat
        /\ ready_queue'[Len(ready_queue) + 1] = a
    BY <1>1, SMT DEF Register, PoolInv
  <2>3. NoActorForgotten'
    BY <1>1, <2>2, SMT DEF Register, PoolInv, NoActorForgotten, Queued
  <2>4. OneTurnPerRound'
    <3> SUFFICES ASSUME ~replaced'
                 PROVE  \A i, j \in 1 .. Len(ready_queue') :
                           i # j => ready_queue'[i] # ready_queue'[j]
      BY DEF OneTurnPerRound
    <3>1. ~replaced /\ a \notin registered
      BY <1>1 DEF Register
    <3>2. \A i \in 1 .. Len(ready_queue) : ready_queue[i] # a
      BY <3>1, SMT DEF PoolInv
    <3>3. \A i, j \in 1 .. Len(ready_queue) : i # j => ready_queue[i] # ready_queue[j]
      BY <3>1 DEF OneTurnPerRound
    <3> QED BY <2>2, <3>2, <3>3, SMT
  <2> QED BY <2>1, <2>3, <2>4
<1>2. ASSUME NEW a \in Actors, SendTo(a) PROVE PoolSafe'
  <2> DEFINE out == Push(mailbox[a], sends)
  <2>1. mailbox[a] \in PoolBoxes /\ out.box \in PoolBoxes
        /\ (out.returned # {} => out.box = mailbox[a])
    BY PoolPushType, SMT DEF PoolInv
  <2>2. /\ a \in registered /\ sends' = sends + 1
        /\ mailbox' = [mailbox EXCEPT ![a] = out.box]
        /\ UNCHANGED <<registered, running, replaced>>
    BY <1>2 DEF SendTo
  <2> HIDE DEF out
  <2>3. CASE out.returned = {}
    <3>1. Enqueue(a)
      BY <1>2, <2>3 DEF SendTo, out
    <3>2. PoolInv' /\ OneTurnPerRound'
      BY <2>1, <2>2, <3>1, EnqueueOnce, SMT DEF PoolInv, OneTurnPerRound
    <3>3. NoActorForgotten'
      BY <2>1, <2>2, <3>1, EnqueueOnce, SMT DEF PoolInv, NoActorForgotten
    <3> QED BY <3>2, <3>3
  <2>4. CASE out.returned # {}
    <3>1. UNCHANGED ready_queue /\ mailbox' = mailbox
      BY <1>2, <2>1, <2>2, <2>4, SMT DEF SendTo, out, PoolInv
    <3> QED BY <2>2, <3>1, SMT DEF PoolInv, NoActorForgotten, OneTurnPerRound, Queued
  <2> QED BY <2>3, <2>4
<1>3. CASE NextReady
  <2>1. /\ Head(ready_queue) \in registered /\ Len(ready_queue) \in Nat \ {0}
        /\ ready_queue' \in Seq(registered)
        /\ Head(ready_queue) = ready_queue[1]
        /\ Len(ready_queue') = Len(ready_queue) - 1
        /\ \A i \in 1 .. Len(ready_queue') : ready_queue'[i] = ready_queue[i + 1]
    BY <1>3, SMT DEF NextReady, PoolInv
  <2>2. PoolInv'
    BY <1>3, <2>1, SMT DEF NextReady, PoolInv
  <2>3. ASSUME NEW b, Queued(b), b # Head(ready_queue) PROVE Queued(b)'
    <3>1. PICK i \in 1 .. Len(ready_queue) : ready_queue[i] = b
      BY <2>3 DEF Queued
    <3>2. i - 1 \in 1 .. Len(ready_queue') /\ ready_queue'[i - 1] = b
      BY <2>1, <2>3, <3>1, SMT
    <3> QED BY <3>2 DEF Queued
  <2>4. NoActorForgotten'
    BY <1>3, <2>3 DEF NextReady, NoActorForgotten
  <2>5. OneTurnPerRound'
    BY <1>3, <2>1, SMT DEF NextReady, OneTurnPerRound
  <2> QED BY <2>2, <2>4, <2>5
<1>4. ASSUME NEW a \in Actors, HandleMessage(a) PROVE PoolSafe'
  <2>1. /\ mailbox[a] \in PoolBoxes /\ mailbox[a].buffer # <<>>
        /\ mailbox' = [mailbox EXCEPT ![a] = [mailbox[a] EXCEPT !.buffer = Tail(mailbox[a].buffer)]]
    BY <1>4 DEF HandleMessage, PoolInv
  <2>2. Tail(mailbox[a].buffer) \in Seq(Nat)
    BY <2>1, SMT DEF PoolBoxes
  <2>3. PoolInv'
    <3>1. [mailbox[a] EXCEPT !.buffer = Tail(mailbox[a].buffer)] \in PoolBoxes
      BY <2>1, <2>2, PoolHoldingType
    <3>2. mailbox' \in [Actors -> PoolBoxes]
      BY <2>1, <3>1 DEF PoolInv
    <3> QED BY <1>4, <3>2 DEF HandleMessage, PoolInv
  <2>4. NoActorForgotten'
    BY <1>4, <2>1, SMT DEF HandleMessage, PoolInv, NoActorForgotten, Queued
  <2>5. OneTurnPerRound'
    BY <1>4, SMT DEF HandleMessage, OneTurnPerRound
  <2> QED BY <2>3, <2>4, <2>5
<1>5. ASSUME NEW a \in Actors, EndEmpty(a) PROVE PoolSafe'
  BY <1>5, SMT DEF EndEmpty, PoolInv, NoActorForgotten, OneTurnPerRound, Queued
<1>6. ASSUME NEW a \in Actors, Requeue(a) PROVE PoolSafe'
  <2>1. a \in registered /\ Enqueue(a)
    BY <1>6 DEF Requeue, PoolInv
  <2>2. PoolInv' /\ OneTurnPerRound'
    BY <1>6, <2>1, EnqueueOnce, SMT DEF Requeue, PoolInv, OneTurnPerRound
  <2>3. NoActorForgotten'
    BY <1>6, <2>1, EnqueueOnce, SMT DEF Requeue, PoolInv, NoActorForgotten
  <2> QED BY <2>2, <2>3
<1>7. CASE UNCHANGED poolVars
  BY <1>7, SMT DEF poolVars, PoolInv, NoActorForgotten, OneTurnPerRound, Queued
<1> QED BY <1>1, <1>2, <1>3, <1>4, <1>5, <1>6, <1>7 DEF PoolNext

(* The invariant holds throughout every execution of the pool.             *)
THEOREM PoolInvariance == PoolSpec => []PoolSafe
<1> QED BY PoolInitSafe, PoolNextSafe, PTL DEF PoolSpec

(* Whatever sends, turns and requeues interleave, an actor with mail is    *)
(* queued or in a turn.                                                    *)
THEOREM NobodyForgotten == PoolSpec => []NoActorForgotten
<1>1. PoolSafe => NoActorForgotten
  BY DEF PoolSafe
<1> QED BY <1>1, PoolInvariance, PTL

(* While every name is registered once no actor is queued twice.           *)
THEOREM RoundRobin == PoolSpec => []OneTurnPerRound
<1>1. PoolSafe => OneTurnPerRound
  BY DEF PoolSafe
<1> QED BY <1>1, PoolInvariance, PTL

(***************************************************************************)
(* The channel, for every capacity and every set of senders and receivers: *)
(* the bounded FIFO, and None is final.  Both rest on what a thread may    *)
(* believe while it holds the lock, although close() stores its flag       *)
(* without it.                                                             *)
(***************************************************************************)

(* who holds the lock, and what each kind of thread can be doing            *)
LockInv ==
  /\ \A t \in Threads : pc[t] \in {"check", "wait", "commit"} => mutex = t
  /\ \A t \in Senders : pc[t] # "gotNone" /\ (pc[t] # "idle" => value[t] \in Values)
  /\ \A t \in Receivers : pc[t] # "commit"

(* a sender about to push has room, unless the channel was closed meanwhile *)
RoomInv == \A t \in Senders : pc[t] = "commit" => closed \/ Len(buffer) < channel_capacity

(* a receiver was told None when the buffer was empty and the flag set      *)
NoneInv == \A r \in Receivers : pc[r] = "gotNone" => closed /\ buffer = <<>>

ChannelInv == TypeOK /\ LockInv /\ RoomInv /\ NoneInv

-----------------------------------------------------------------------------

(* The invariant holds of a new channel.                                    *)
LEMMA ChannelInitInv == ChannelInit => ChannelInv
<1> SUFFICES ASSUME ChannelInit PROVE ChannelInv
  OBVIOUS
<1>0. buffer \in Seq(Values)
  BY SMT DEF ChannelInit
<1>1. closed \in BOOLEAN /\ mutex \in Threads \cup {Nobody} /\ waiting \subseteq Threads
  BY Zenon DEF ChannelInit
<1>2. /\ pc \in [Threads -> {"idle", "lock", "check", "wait", "commit", "gotNone"}]
      /\ value \in [Senders -> Values \cup {NoValue}]
      /\ got \in [Receivers -> Values \cup {NoValue}]
  BY DEF ChannelInit
<1>3. started \in 0 .. MaxSends /\ closing \in {"before", "notify", "done"}
  BY ChannelAssumption DEF ChannelInit
<1>4. TypeOK
  BY <1>0, <1>1, <1>2, <1>3 DEF TypeOK
<1>5. \A t \in Threads : pc[t] = "idle"
  BY DEF ChannelInit
<1>6. LockInv /\ RoomInv /\ NoneInv
  BY <1>5 DEF LockInv, RoomInv, NoneInv, Threads
<1>. QED BY <1>4, <1>6 DEF ChannelInv

(* A notification only takes threads out of the wait set.                   *)
LEMMA ChannelNotifyType == ASSUME waiting \subseteq Threads, NotifyOne PROVE waiting' \subseteq Threads
  BY DEF NotifyOne

(* Every step keeps the types.                                              *)
LEMMA ChannelTypeStep == ASSUME TypeOK, LockInv, [ChannelNext]_channelVars PROVE TypeOK'
<1> USE ChannelAssumption DEF TypeOK, Threads, Goto
<1>1. ASSUME NEW t \in Senders, NEW v \in Values, Send(t, v) PROVE TypeOK'
  BY <1>1, SMT DEF Send
<1>2. ASSUME NEW t \in Senders, SendCheck(t) PROVE TypeOK'
  BY <1>2, SMT DEF SendCheck
<1>3. ASSUME NEW t \in Senders, SendCommit(t) PROVE TypeOK'
  <2>1. waiting' \subseteq Threads
    BY <1>3, ChannelNotifyType DEF SendCommit
  <2>2. buffer' \in Seq(Values)
    BY <1>3, SMTT(30) DEF SendCommit, LockInv
  <2>. QED BY <1>3, <2>1, <2>2, SMT DEF SendCommit
<1>4. ASSUME NEW t \in Receivers, Recv(t) PROVE TypeOK'
  BY <1>4, SMT DEF Recv
<1>5. ASSUME NEW t \in Receivers, RecvPop(t) PROVE TypeOK'
  <2>1. waiting' \subseteq Threads
    BY <1>5, ChannelNotifyType DEF RecvPop
  <2>2. buffer' \in Seq(Values) /\ Head(buffer) \in Values
    BY <1>5, SMT DEF RecvPop
  <2>. QED BY <1>5, <2>1, <2>2, SMT DEF RecvPop
<1>6. ASSUME NEW t \in Receivers, RecvCheckClosed(t) PROVE TypeOK'
  BY <1>6, SMT DEF RecvCheckClosed
<1>7. ASSUME NEW t \in Threads, Lock(t) \/ Wait(t) \/ Spurious(t) PROVE TypeOK'
  <2>1. CASE Lock(t)
    BY <2>1, SMT DEF Lock
  <2>2. CASE Wait(t)
    <3>1. waiting' \subseteq Threads /\ mutex' = Nobody
      BY <2>2 DEF Wait
    <3>2. pc' \in [Threads -> {"idle", "lock", "check", "wait", "commit", "gotNone"}]
      BY <2>2 DEF Wait
    <3>. QED BY <2>2, <3>1, <3>2 DEF Wait
  <2>3. CASE Spurious(t)
    <3>1. waiting' \subseteq Threads
      BY <2>3 DEF Spurious
    <3>. QED BY <2>3, <3>1 DEF Spurious
  <2>. QED BY <1>7, <2>1, <2>2, <2>3
<1>8. CASE CloseStore \/ CloseNotify
  <2>1. closed' \in BOOLEAN /\ waiting' \subseteq Threads
    BY <1>8, Zenon DEF CloseStore, CloseNotify
  <2>2. UNCHANGED <<buffer, mutex, pc, value, got, started>>
    BY <1>8 DEF CloseStore, CloseNotify
  <2>3. closing' \in {"before", "notify", "done"}
    BY <1>8 DEF CloseStore, CloseNotify
  <2>. QED BY <2>1, <2>2, <2>3
<1>9. CASE UNCHANGED channelVars
  BY <1>9, SMT DEF channelVars
<1>. QED BY <1>1, <1>2, <1>3, <1>4, <1>5, <1>6, <1>7, <1>8, <1>9 DEF ChannelNext, Sender, Receiver

(* Every step keeps the rest of the invariant: only the holder of the lock  *)
(* changes the buffer, and nobody appends once the flag is set.             *)
LEMMA ChannelInvStep == ASSUME ChannelInv, [ChannelNext]_channelVars PROVE ChannelInv'
<1>0. TypeOK'
  BY ChannelTypeStep DEF ChannelInv
<1> USE ChannelAssumption DEF ChannelInv, LockInv, RoomInv, NoneInv, TypeOK, Threads, Goto
<1>1. ASSUME NEW t \in Senders, NEW v \in Values, Send(t, v) PROVE ChannelInv'
  BY <1>0, <1>1, SMT DEF Send
<1>2. ASSUME NEW t \in Senders, SendCheck(t) PROVE ChannelInv'
  BY <1>0, <1>2, SMT DEF SendCheck, Full
<1>3. ASSUME NEW t \in Senders, SendCommit(t) PROVE ChannelInv'
  BY <1>0, <1>3, SMT DEF SendCommit
<1>4. ASSUME NEW t \in Receivers, Recv(t) PROVE ChannelInv'
  BY <1>0, <1>4, SMT DEF Recv
<1>5. ASSUME NEW t \in Receivers, RecvPop(t) PROVE ChannelInv'
  BY <1>0, <1>5, SMT DEF RecvPop
<1>6. ASSUME NEW t \in Receivers, RecvCheckClosed(t) PROVE ChannelInv'
  BY <1>0, <1>6, SMT DEF RecvCheckClosed
<1>7. ASSUME NEW t \in Threads, Lock(t) \/ Wait(t) \/ Spurious(t) PROVE ChannelInv'
  BY <1>0, <1>7, SMT DEF Lock, Wait, Spurious
<1>8. CASE CloseStore \/ CloseNotify
  BY <1>0, <1>8, SMT DEF CloseStore, CloseNotify
<1>9. CASE UNCHANGED channelVars
  BY <1>0, <1>9, SMT DEF channelVars
<1>. QED BY <1>1, <1>2, <1>3, <1>4, <1>5, <1>6, <1>7, <1>8, <1>9 DEF ChannelNext, Sender, Receiver

(* The invariant holds throughout every execution.                          *)
LEMMA ChannelInvariance == ChannelSpec => []ChannelInv
<1>. QED BY ChannelInitInv, ChannelInvStep, PTL DEF ChannelSpec

(* The channel keeps its types, for every capacity and set of threads.      *)
THEOREM ChannelTypes == ChannelSpec => []TypeOK
<1>1. ChannelInv => TypeOK
  BY DEF ChannelInv
<1>. QED BY <1>1, ChannelInvariance, PTL

(* Once a receiver has been told None, nothing is ever in the channel again *)
(* although close() takes no lock.                                          *)
THEOREM NoneForGood == ChannelSpec => []NoneIsFinal
<1>1. ChannelInv => NoneIsFinal
  BY DEF ChannelInv, NoneInv, NoneIsFinal
<1>. QED BY <1>1, ChannelInvariance, PTL

-----------------------------------------------------------------------------

(* Every execution of the channel is one of the bounded FIFO.               *)
THEOREM ChannelRefinement == ChannelSpec => ImplementsFifo
<1>1. ChannelInit => Fifo!Init
  BY DEF ChannelInit, Fifo!Init
<1>2. ASSUME ChannelInv, [ChannelNext]_channelVars PROVE [Fifo!Next]_(Fifo!vars)
  <2>1. ASSUME NEW t \in Senders, SendCommit(t) PROVE [Fifo!Next]_(Fifo!vars)
    <3>1. CASE closed
      BY <2>1, <3>1 DEF SendCommit, Fifo!vars
    <3>2. CASE ~closed
      <4>1. Len(buffer) < channel_capacity /\ value[t] \in Values
        BY <1>2, <2>1, <3>2 DEF SendCommit, ChannelInv, RoomInv, LockInv
      <4>2. buffer' = Append(buffer, value[t]) /\ UNCHANGED got
        BY <2>1, <3>2 DEF SendCommit
      <4>. QED BY <4>1, <4>2 DEF Fifo!Next, Fifo!Put
    <3>. QED BY <3>1, <3>2
  <2>2. ASSUME NEW t \in Receivers, RecvPop(t) PROVE [Fifo!Next]_(Fifo!vars)
    BY <2>2 DEF RecvPop, Fifo!Next, Fifo!Take
  <2>3. ASSUME UNCHANGED <<buffer, got>> PROVE [Fifo!Next]_(Fifo!vars)
    BY <2>3 DEF Fifo!vars
  <2>. QED BY <1>2, <2>1, <2>2, <2>3
       DEF ChannelNext, Sender, Receiver, Send, SendCheck, Recv, RecvCheckClosed, Lock, Wait, Spurious,
           CloseStore, CloseNotify, channelVars
<1>. QED BY <1>1, <1>2, ChannelInvariance, PTL DEF ChannelSpec, ImplementsFifo, Fifo!Spec
=============================================================================
