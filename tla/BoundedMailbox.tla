--------------------------- MODULE BoundedMailbox ---------------------------
(* mailbox/bounded.rs: the operations of a mailbox, as functions from a    *)
(* mailbox to the mailbox they leave and what became of the messages.  The *)
(* actor pool and the TVM's channels are built from them.                  *)
EXTENDS Integers, SequencesExt

Policies == {"RingBuffer", "EvictDecayed", "Throttle", "FailFast"}
Evicting == {"RingBuffer", "EvictDecayed"}

New(capacity, policy) == [buffer |-> <<>>, capacity |-> capacity, policy |-> policy]

HasRoomOffByOne(mb) == Len(mb.buffer) <= mb.capacity             \* mutant
HasRoom(mb) == Len(mb.buffer) < mb.capacity

Holding(mb, buffer) == [mb EXCEPT !.buffer = buffer]

(* box: the mailbox afterwards; evicted: dropped to make room; returned:   *)
(* handed back to the caller in Err(Full(_))                               *)
Outcome(box, evicted, returned) ==
  [box |-> box, evicted |-> evicted, returned |-> returned]

PushDropNewest(mb, m) ==                                         \* mutant
  IF HasRoom(mb) THEN Outcome(Holding(mb, Append(mb.buffer, m)), {}, {})
  ELSE Outcome(mb, {}, {})

Push(mb, m) ==
  IF HasRoom(mb) THEN Outcome(Holding(mb, Append(mb.buffer, m)), {}, {})
  ELSE IF mb.policy \in Evicting
       THEN Outcome(Holding(mb, Append(Tail(mb.buffer), m)), {Head(mb.buffer)}, {})
       ELSE Outcome(mb, {}, {m})

TryPush(mb, m) ==
  IF HasRoom(mb) THEN Outcome(Holding(mb, Append(mb.buffer, m)), {}, {})
  ELSE Outcome(mb, {}, {m})

PushFrontAsBack(mb, m) ==                                        \* mutant
  IF HasRoom(mb) THEN Outcome(Holding(mb, Append(mb.buffer, m)), {}, {})
  ELSE Outcome(mb, {}, {m})

(* on overflow it is the back, the newest message, that goes               *)
PushFront(mb, m) ==
  LET last == Len(mb.buffer)
      kept == Front(mb.buffer)
  IN IF HasRoom(mb) THEN Outcome(Holding(mb, <<m>> \o mb.buffer), {}, {})
     ELSE IF mb.policy \in Evicting
          THEN Outcome(Holding(mb, <<m>> \o kept), {mb.buffer[last]}, {})
          ELSE Outcome(mb, {}, {m})

(* self.append(other): messages move one by one until other is empty or,   *)
(* under a rejecting policy, until one is refused; that one was already    *)
(* taken out of other.                                                     *)
AppendBoth(mb, other) ==
  LET all  == mb.buffer \o other.buffer
      room == mb.capacity - Len(mb.buffer)
      over == Len(all) - mb.capacity
  IN IF over <= 0 THEN [self |-> Holding(mb, all), other |-> Holding(other, <<>>),
                        evicted |-> {}]
     ELSE IF mb.policy \in Evicting
          THEN [self |-> Holding(mb, SubSeq(all, over + 1, Len(all))),
                other |-> Holding(other, <<>>),
                evicted |-> {all[i] : i \in 1 .. over}]
          ELSE [self |-> Holding(mb, SubSeq(all, 1, mb.capacity)),
                other |-> Holding(other, SubSeq(other.buffer, room + 2, Len(other.buffer))),
                evicted |-> {}]
=============================================================================
