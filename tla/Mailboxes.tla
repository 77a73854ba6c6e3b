------------------------------ MODULE Mailboxes ------------------------------
(* Two mailboxes and a caller that uses every operation of bounded.rs.  A  *)
(* message is its number in send order.                                    *)
EXTENDS BoundedMailbox, FiniteSets

CONSTANTS Boxes,
          capacity,
          BoxPolicies,     \* the policies the boxes may have
          AppendPolicies,  \* the policies under which append is called
          MaxMsg           \* bound: messages sent

ASSUME MailboxAssumption == /\ capacity \in Nat \ {0} /\ MaxMsg \in Nat
                            /\ BoxPolicies \subseteq Policies
                            /\ AppendPolicies \subseteq Policies

VARIABLES box,        \* the mailboxes
          sent,       \* messages sent so far
          popped,     \* box -> the messages popped from it, latest last
          evicted,    \* dropped to make room
          returned,   \* handed back by Err(Full(_))
          mixed,      \* the mailboxes messages were ever appended to
          discarded   \* dropped by the caller through remove and clear

vars == <<box, sent, popped, evicted, returned, mixed, discarded>>

Init == /\ box \in [Boxes -> {New(capacity, p) : p \in BoxPolicies}]
        /\ sent = 0
        /\ popped = [b \in Boxes |-> <<>>]
        /\ evicted = {} /\ returned = {} /\ discarded = {} /\ mixed = {}

Apply(b, out) == /\ box' = [box EXCEPT ![b] = out.box]
                 /\ evicted' = evicted \cup out.evicted
                 /\ returned' = returned \cup out.returned

SendWith(b, out) == /\ sent < MaxMsg /\ sent' = sent + 1
                    /\ Apply(b, out)
                    /\ UNCHANGED <<popped, mixed, discarded>>

DoPush(b) == SendWith(b, Push(box[b], sent + 1))

DoTryPush(b) == SendWith(b, TryPush(box[b], sent + 1))

DoPop(b) == /\ box[b].buffer # <<>>
            /\ box' = [box EXCEPT ![b].buffer = Tail(@)]
            /\ popped' = [popped EXCEPT ![b] = Append(@, Head(box[b].buffer))]
            /\ UNCHANGED <<sent, evicted, returned, mixed, discarded>>

(* A caller undoes its latest pop, as the TVM's rollback of a ChanRecv.    *)
UnPop(b) == LET last == Len(popped[b]) IN
            /\ last > 0
            /\ Apply(b, PushFront(box[b], popped[b][last]))
            /\ popped' = [popped EXCEPT ![b] = SubSeq(@, 1, last - 1)]
            /\ UNCHANGED <<sent, mixed, discarded>>

DoAppend(b, o) == LET out == AppendBoth(box[b], box[o]) IN
                  /\ b # o /\ box[b].policy \in AppendPolicies
                  /\ box' = [box EXCEPT ![b] = out.self, ![o] = out.other]
                  /\ evicted' = evicted \cup out.evicted
                  /\ mixed' = mixed \cup {b}
                  /\ UNCHANGED <<sent, popped, returned, discarded>>

DoRemove(b) == \E i \in 1 .. Len(box[b].buffer) :
                 /\ box' = [box EXCEPT ![b].buffer = RemoveAt(@, i)]
                 /\ discarded' = discarded \cup {box[b].buffer[i]}
                 /\ UNCHANGED <<sent, popped, evicted, returned, mixed>>

DoClear(b) == /\ box[b].buffer # <<>>
              /\ box' = [box EXCEPT ![b].buffer = <<>>]
              /\ discarded' = discarded \cup {box[b].buffer[i] : i \in 1 .. Len(box[b].buffer)}
              /\ UNCHANGED <<sent, popped, evicted, returned, mixed>>

SetPolicy(b) == /\ \E p \in BoxPolicies \ {box[b].policy} :
                     box' = [box EXCEPT ![b].policy = p]
                /\ UNCHANGED <<sent, popped, evicted, returned, mixed, discarded>>

Next == \E b \in Boxes :
          \/ DoPush(b) \/ DoTryPush(b) \/ DoPop(b) \/ UnPop(b)
          \/ \E o \in Boxes : DoAppend(b, o)
          \/ DoRemove(b) \/ DoClear(b) \/ SetPolicy(b)

Spec == Init /\ [][Next]_vars

(* A mailbox never holds more than its capacity, whatever is pushed,       *)
(* pushed back or appended, and under whichever policy at the time.        *)
WithinCapacity == \A b \in Boxes : Len(box[b].buffer) <= capacity

Held(b) == {box[b].buffer[i] : i \in 1 .. Len(box[b].buffer)}
Popped(b) == {popped[b][i] : i \in 1 .. Len(popped[b])}

(* No message is duplicated, and none disappears: each one sent is in one  *)
(* place of one mailbox, or was popped from one, or was evicted by a       *)
(* policy that evicts, handed back in an error or discarded by the caller, *)
(* and only one of these.                                                  *)
Places == [b \in Boxes |-> Len(box[b].buffer) + Len(popped[b])]
Gone == evicted \cup returned \cup discarded
Accounted == Gone \cup UNION {Held(b) \cup Popped(b) : b \in Boxes}
EachMessageOnce ==
  /\ Accounted = 1 .. sent
  /\ \A b \in Boxes : Cardinality(Held(b)) + Cardinality(Popped(b)) = Places[b]
  /\ \A b, o \in Boxes : b # o =>
       (Held(b) \cup Popped(b)) \cap (Held(o) \cup Popped(o)) = {}
  /\ \A b \in Boxes : Held(b) \cap Popped(b) = {}
  /\ \A b \in Boxes : (Held(b) \cup Popped(b)) \cap Gone = {}
  /\ evicted \cap returned = {} /\ evicted \cap discarded = {}
  /\ returned \cap discarded = {}

(* A mailbox nothing was appended to is a FIFO: what is in it is in send   *)
(* order, also after pops are undone and evictions at either end.          *)
Increasing(s) == \A i \in 1 .. Len(s) - 1 : s[i] < s[i + 1]
SendOrder == \A b \in Boxes \ mixed : Increasing(popped[b] \o box[b].buffer)
=============================================================================
