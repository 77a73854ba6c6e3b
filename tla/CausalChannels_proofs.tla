----------------------- MODULE CausalChannels_proofs -----------------------
(* Messages are conserved, isolated by ticks and unsent without a trace,   *)
(* for any timelines, channels, capacities and length of a run.            *)
EXTENDS CausalChannels, FiniteSetTheorems, WellFoundedInduction, TLAPS

-----------------------------------------------------------------------------
(* The messages of a sequence, and those that are in it once at most       *)

Elems(s) == {s[i] : i \in 1 .. Len(s)}
Single(s, x) == \A i, j \in 1 .. Len(s) : s[i] = x /\ s[j] = x => i = j

(* Append adds its message.                                                *)
LEMMA AppendElems ==
  ASSUME NEW S, NEW s \in Seq(S), NEW m \in S
  PROVE  /\ Append(s, m) \in Seq(S)
         /\ Elems(Append(s, m)) = Elems(s) \cup {m}
         /\ \A x : Single(s, x) /\ (x = m => x \notin Elems(s)) => Single(Append(s, m), x)
<1> DEFINE t == Append(s, m)
<1>1. /\ Len(t) = Len(s) + 1 /\ Len(s) \in Nat /\ t \in Seq(S)
      /\ \A i \in 1 .. Len(s) : t[i] = s[i]
      /\ t[Len(s) + 1] = m
  BY SMT
<1> HIDE DEF t
<1>2. \A i \in 1 .. Len(t) : i \in 1 .. Len(s) \/ i = Len(s) + 1
  BY <1>1, SMT
<1>3. Len(s) + 1 \in 1 .. Len(t) /\ \A i \in 1 .. Len(s) : i \in 1 .. Len(t)
  BY <1>1, SMT
<1>4. Elems(t) = Elems(s) \cup {m}
  BY <1>1, <1>2, <1>3 DEF Elems
<1>5. ASSUME NEW x, Single(s, x), x = m => x \notin Elems(s) PROVE Single(t, x)
  BY <1>1, <1>2, <1>3, <1>5 DEF Elems, Single
<1> QED BY <1>1, <1>4, <1>5 DEF t

(* A cut of a sequence has the messages between its ends.                  *)
LEMMA CutElems ==
  ASSUME NEW S, NEW s \in Seq(S), NEW a \in Nat \ {0}, NEW z \in 0 .. Len(s)
  PROVE  /\ SubSeq(s, a, z) \in Seq(S)
         /\ Elems(SubSeq(s, a, z)) = {s[i] : i \in a .. z}
         /\ \A x : Single(s, x) => Single(SubSeq(s, a, z), x)
<1> DEFINE t == SubSeq(s, a, z)
<1>1. /\ Len(t) \in Nat /\ Len(s) \in Nat /\ t \in Seq(S)
      /\ Len(t) = IF a <= z THEN z - a + 1 ELSE 0
      /\ \A i \in 1 .. Len(t) : t[i] = s[a + i - 1]
  BY SMT
<1> HIDE DEF t
<1>2. \A i \in 1 .. Len(t) : a + i - 1 \in a .. z /\ a + i - 1 \in 1 .. Len(s)
  BY <1>1, SMT
<1>3. \A i \in a .. z : /\ i - a + 1 \in 1 .. Len(t) /\ a + (i - a + 1) - 1 = i
                         /\ i \in 1 .. Len(s)
  BY <1>1, SMT
<1>4. Elems(t) = {s[i] : i \in a .. z}
  <2>1. ASSUME NEW x \in Elems(t) PROVE x \in {s[i] : i \in a .. z}
    BY <1>1, <1>2, <2>1 DEF Elems
  <2>2. ASSUME NEW i \in a .. z PROVE s[i] \in Elems(t)
    <3>1. s[i] = t[i - a + 1]
      BY <1>1, <1>3
    <3> QED BY <1>3, <3>1 DEF Elems
  <2> QED BY <2>1, <2>2
<1>5. ASSUME NEW x, Single(s, x) PROVE Single(t, x)
  <2> SUFFICES ASSUME NEW i \in 1 .. Len(t), NEW j \in 1 .. Len(t), t[i] = x, t[j] = x
               PROVE  i = j
    BY DEF Single
  <2>1. a + i - 1 = a + j - 1
    BY <1>1, <1>2, <1>5 DEF Single
  <2> QED BY <1>1, <2>1, SMT
<1> QED BY <1>1, <1>4, <1>5 DEF t

(* A concatenation has the messages of both sequences.                     *)
LEMMA ConcatElems ==
  ASSUME NEW S, NEW s \in Seq(S), NEW t \in Seq(S)
  PROVE  /\ s \o t \in Seq(S)
         /\ Elems(s \o t) = Elems(s) \cup Elems(t)
         /\ \A x : Single(s, x) /\ Single(t, x) /\ ~(x \in Elems(s) /\ x \in Elems(t))
                     => Single(s \o t, x)
<1> DEFINE u == s \o t
<1>1. /\ Len(u) = Len(s) + Len(t) /\ Len(s) \in Nat /\ Len(t) \in Nat /\ u \in Seq(S)
      /\ \A i \in 1 .. Len(s) : u[i] = s[i]
      /\ \A i \in 1 .. Len(t) : u[Len(s) + i] = t[i]
  BY SMT
<1> HIDE DEF u
<1>2. \A i \in 1 .. Len(u) : i \in 1 .. Len(s) \/
         (i > Len(s) /\ i - Len(s) \in 1 .. Len(t) /\ Len(s) + (i - Len(s)) = i)
  BY <1>1, SMT
<1>3. /\ \A i \in 1 .. Len(s) : i \in 1 .. Len(u)
      /\ \A i \in 1 .. Len(t) : Len(s) + i \in 1 .. Len(u)
  BY <1>1, SMT
<1>4. Elems(u) = Elems(s) \cup Elems(t)
  <2>1. ASSUME NEW i \in 1 .. Len(u) PROVE u[i] \in Elems(s) \cup Elems(t)
    BY <1>1, <1>2 DEF Elems
  <2>2. ASSUME NEW i \in 1 .. Len(s) PROVE s[i] \in Elems(u)
    BY <1>1, <1>3 DEF Elems
  <2>3. ASSUME NEW i \in 1 .. Len(t) PROVE t[i] \in Elems(u)
    BY <1>1, <1>3 DEF Elems
  <2> QED BY <2>1, <2>2, <2>3 DEF Elems
<1>5. \A i \in 1 .. Len(u) : \/ i \in 1 .. Len(s) /\ u[i] = s[i] /\ u[i] \in Elems(s)
                            \/ /\ i > Len(s) /\ i - Len(s) \in 1 .. Len(t)
                               /\ u[i] = t[i - Len(s)] /\ u[i] \in Elems(t)
  <2> TAKE i \in 1 .. Len(u)
  <2>1. CASE i \in 1 .. Len(s)
    BY <1>1, <2>1 DEF Elems
  <2>2. CASE i > Len(s) /\ i - Len(s) \in 1 .. Len(t) /\ Len(s) + (i - Len(s)) = i
    <3>1. u[Len(s) + (i - Len(s))] = t[i - Len(s)]
      BY <1>1, <2>2
    <3> QED BY <2>2, <3>1 DEF Elems
  <2> QED BY <1>2, <2>1, <2>2
<1>6. ASSUME NEW x, Single(s, x), Single(t, x), ~(x \in Elems(s) /\ x \in Elems(t))
      PROVE  Single(u, x)
  <2> SUFFICES ASSUME NEW i \in 1 .. Len(u), NEW j \in 1 .. Len(u), u[i] = x, u[j] = x
               PROVE  i = j
    BY DEF Single
  <2>1. \/ i \in 1 .. Len(s) /\ j \in 1 .. Len(s) /\ s[i] = x /\ s[j] = x
        \/ /\ i - Len(s) \in 1 .. Len(t) /\ j - Len(s) \in 1 .. Len(t)
           /\ t[i - Len(s)] = x /\ t[j - Len(s)] = x
    BY <1>5, <1>6
  <2>2. i = j \/ i - Len(s) = j - Len(s)
    BY <1>6, <2>1 DEF Single
  <2> QED BY <1>1, <2>2, SMT
<1> QED BY <1>1, <1>4, <1>6 DEF u

(* What is left of a sequence once its element i is taken out of it.       *)
Less(s, i, t) ==
  /\ Elems(s) = Elems(t) \cup {s[i]}
  /\ \A x : Single(s, x) => Single(t, x)
  /\ Single(s, s[i]) => s[i] \notin Elems(t)

(* Tail takes out the first.                                               *)
LEMMA TailElems ==
  ASSUME NEW S, NEW s \in Seq(S), s # <<>>
  PROVE  /\ Tail(s) \in Seq(S) /\ Head(s) = s[1] /\ 1 \in 1 .. Len(s) /\ s[1] \in S
         /\ Less(s, 1, Tail(s))
<1>1. /\ Tail(s) = SubSeq(s, 2, Len(s)) /\ Len(s) \in 0 .. Len(s) /\ Len(s) \in Nat \ {0}
      /\ 1 \in 1 .. Len(s) /\ Head(s) = s[1] /\ s[1] \in S /\ 2 \in Nat \ {0}
  BY SMT
<1>2. /\ Tail(s) \in Seq(S) /\ Elems(Tail(s)) = {s[i] : i \in 2 .. Len(s)}
      /\ \A x : Single(s, x) => Single(Tail(s), x)
  <2>1. /\ SubSeq(s, 2, Len(s)) \in Seq(S)
        /\ Elems(SubSeq(s, 2, Len(s))) = {s[i] : i \in 2 .. Len(s)}
        /\ \A x : Single(s, x) => Single(SubSeq(s, 2, Len(s)), x)
    BY <1>1, CutElems
  <2> QED BY <1>1, <2>1
<1>3. /\ \A i \in 1 .. Len(s) : i = 1 \/ i \in 2 .. Len(s)
      /\ \A i \in 2 .. Len(s) : i # 1 /\ i \in 1 .. Len(s)
  BY <1>1, SMT
<1>4. Elems(s) = Elems(Tail(s)) \cup {s[1]}
  BY <1>1, <1>2, <1>3 DEF Elems
<1>5. Single(s, s[1]) => s[1] \notin Elems(Tail(s))
  BY <1>1, <1>2, <1>3 DEF Single
<1> QED BY <1>1, <1>2, <1>4, <1>5 DEF Less

(* Front takes out the last.                                               *)
LEMMA FrontElems ==
  ASSUME NEW S, NEW s \in Seq(S), s # <<>>
  PROVE  /\ Front(s) \in Seq(S) /\ Len(s) \in 1 .. Len(s) /\ s[Len(s)] \in S
         /\ Less(s, Len(s), Front(s))
<1>1. /\ Len(s) - 1 \in 0 .. Len(s) /\ Len(s) \in Nat \ {0} /\ Len(s) \in 1 .. Len(s)
      /\ s[Len(s)] \in S /\ 1 \in Nat \ {0}
  BY SMT
<1>2. /\ Front(s) \in Seq(S) /\ Elems(Front(s)) = {s[i] : i \in 1 .. Len(s) - 1}
      /\ \A x : Single(s, x) => Single(Front(s), x)
  <2>1. /\ SubSeq(s, 1, Len(s) - 1) \in Seq(S)
        /\ Elems(SubSeq(s, 1, Len(s) - 1)) = {s[i] : i \in 1 .. Len(s) - 1}
        /\ \A x : Single(s, x) => Single(SubSeq(s, 1, Len(s) - 1), x)
    BY <1>1, CutElems
  <2> QED BY <2>1 DEF Front
<1>3. /\ \A i \in 1 .. Len(s) : i = Len(s) \/ i \in 1 .. Len(s) - 1
      /\ \A i \in 1 .. Len(s) - 1 : i # Len(s) /\ i \in 1 .. Len(s)
  BY <1>1, SMT
<1>4. Elems(s) = Elems(Front(s)) \cup {s[Len(s)]}
  BY <1>1, <1>2, <1>3 DEF Elems
<1>5. Single(s, s[Len(s)]) => s[Len(s)] \notin Elems(Front(s))
  BY <1>1, <1>2, <1>3 DEF Single
<1> QED BY <1>1, <1>2, <1>4, <1>5 DEF Less

(* RemoveAt takes out the one it names.                                    *)
LEMMA RemoveElems ==
  ASSUME NEW S, NEW s \in Seq(S), NEW i \in 1 .. Len(s)
  PROVE  RemoveAt(s, i) \in Seq(S) /\ s[i] \in S /\ Less(s, i, RemoveAt(s, i))
<1> DEFINE u == SubSeq(s, 1, i - 1)
           v == SubSeq(s, i + 1, Len(s))
<1>1. /\ i - 1 \in 0 .. Len(s) /\ Len(s) \in 0 .. Len(s) /\ 1 \in Nat \ {0} /\ i + 1 \in Nat \ {0}
      /\ s[i] \in S /\ i \in Nat /\ Len(s) \in Nat
  BY SMT
<1>2. /\ u \in Seq(S) /\ Elems(u) = {s[j] : j \in 1 .. i - 1}
      /\ \A x : Single(s, x) => Single(u, x)
  <2> DEFINE z == i - 1
  <2>1. z \in 0 .. Len(s)
    BY <1>1
  <2> HIDE DEF z
  <2>2. /\ SubSeq(s, 1, z) \in Seq(S) /\ Elems(SubSeq(s, 1, z)) = {s[j] : j \in 1 .. z}
        /\ \A x : Single(s, x) => Single(SubSeq(s, 1, z), x)
    BY <1>1, <2>1, CutElems
  <2> QED BY <2>2 DEF z
<1>3. /\ v \in Seq(S) /\ Elems(v) = {s[j] : j \in i + 1 .. Len(s)}
      /\ \A x : Single(s, x) => Single(v, x)
  BY <1>1, CutElems
<1>4. RemoveAt(s, i) = u \o v
  BY DEF RemoveAt
<1> HIDE DEF u, v
<1>5. /\ \A j \in 1 .. Len(s) : j = i \/ j \in 1 .. i - 1 \/ j \in i + 1 .. Len(s)
      /\ \A j \in 1 .. i - 1 : j \in 1 .. Len(s) /\ j # i
      /\ \A j \in i + 1 .. Len(s) : j \in 1 .. Len(s) /\ j # i
      /\ \A j \in 1 .. i - 1 : \A k \in i + 1 .. Len(s) : j # k
  BY <1>1, SMT
<1>6. ASSUME NEW x, Single(s, x) PROVE ~(x \in Elems(u) /\ x \in Elems(v))
  BY <1>2, <1>3, <1>5, <1>6 DEF Single
<1>7. /\ u \o v \in Seq(S) /\ Elems(u \o v) = Elems(u) \cup Elems(v)
      /\ \A x : Single(u, x) /\ Single(v, x) /\ ~(x \in Elems(u) /\ x \in Elems(v))
                  => Single(u \o v, x)
  BY <1>2, <1>3, ConcatElems
<1>8. \A x : Single(s, x) => Single(u \o v, x)
  BY <1>2, <1>3, <1>6, <1>7
<1>9. Elems(s) = Elems(u \o v) \cup {s[i]}
  BY <1>2, <1>3, <1>5, <1>7 DEF Elems
<1>10. Single(s, s[i]) => s[i] \notin Elems(u \o v)
  BY <1>2, <1>3, <1>5, <1>7 DEF Single
<1> QED BY <1>1, <1>4, <1>7, <1>8, <1>9, <1>10 DEF Less

(* Putting a message before a sequence adds it.                            *)
LEMMA ConsElems ==
  ASSUME NEW S, NEW s \in Seq(S), NEW m \in S
  PROVE  /\ <<m>> \o s \in Seq(S)
         /\ Elems(<<m>> \o s) = Elems(s) \cup {m}
         /\ \A x : Single(s, x) /\ (x = m => x \notin Elems(s)) => Single(<<m>> \o s, x)
<1>1. <<m>> \in Seq(S) /\ Len(<<m>>) = 1 /\ <<m>>[1] = m /\ 1 .. 1 = {1}
  BY SMT
<1>2. Elems(<<m>>) = {m} /\ \A x : Single(<<m>>, x)
  BY <1>1 DEF Elems, Single
<1>3. /\ <<m>> \o s \in Seq(S) /\ Elems(<<m>> \o s) = Elems(<<m>>) \cup Elems(s)
      /\ \A x : Single(<<m>>, x) /\ Single(s, x) /\ ~(x \in Elems(<<m>>) /\ x \in Elems(s))
                   => Single(<<m>> \o s, x)
  BY <1>1, ConcatElems
<1> QED BY <1>2, <1>3

-----------------------------------------------------------------------------
(* The operations of a channel's mailbox                                   *)

Mails(mb) == Elems(mb.buffer)

(* What is used of a mailbox; it can hold another buffer.                  *)
LEMMA MailboxIs ==
  ASSUME NEW mb \in Mailboxes
  PROVE  /\ mb.buffer \in Seq(Messages) /\ mb.capacity \in Nat \ {0}
         /\ mb.policy = "RingBuffer" /\ mb.policy \in Evicting
         /\ \A s \in Seq(Messages) : /\ Holding(mb, s) \in Mailboxes /\ Holding(mb, s).buffer = s
                                     /\ [mb EXCEPT !.buffer = s] = Holding(mb, s)
<1>1. mb.buffer \in Seq(Messages) /\ mb.capacity \in Nat \ {0} /\ mb.policy = "RingBuffer"
  BY DEF Mailboxes
<1>2. "RingBuffer" \in Evicting
  BY DEF Evicting
<1>3. ASSUME NEW s \in Seq(Messages)
      PROVE  /\ Holding(mb, s) \in Mailboxes /\ Holding(mb, s).buffer = s
             /\ [mb EXCEPT !.buffer = s] = Holding(mb, s)
  BY DEF Mailboxes, Holding
<1> QED BY <1>1, <1>2, <1>3

(* A mailbox that is mb with another buffer.                               *)
LEMMA HeldIs ==
  ASSUME NEW mb \in Mailboxes, NEW s, NEW b, s \in Seq(Messages), b = Holding(mb, s)
  PROVE  b \in Mailboxes /\ b.buffer = s
BY MailboxIs

(* The parts of an outcome.                                                *)
LEMMA OutcomeIs ==
  ASSUME NEW b, NEW e, NEW r, NEW out, out = Outcome(b, e, r)
  PROVE  out.box = b /\ out.evicted = e
BY DEF Outcome

(* A new mailbox is empty.                                                 *)
LEMMA NewIs ==
  ASSUME NEW n \in Nat \ {0}
  PROVE  New(n, "RingBuffer") \in Mailboxes /\ Mails(New(n, "RingBuffer")) = {}
<1>1. <<>> \in Seq(Messages) /\ 1 .. Len(<<>>) = {}
  BY SMT
<1>2. New(n, "RingBuffer") \in Mailboxes /\ New(n, "RingBuffer").buffer = <<>>
  BY <1>1 DEF New, Mailboxes
<1> QED BY <1>1, <1>2 DEF Mails, Elems

(* What a mailbox becomes that takes in a message: what it does not hold   *)
(* any more it has evicted, and it was full.                               *)
TakesIn(mb, m, out) ==
  /\ out.box \in Mailboxes
  /\ Mails(out.box) \subseteq Mails(mb) \cup {m}
  /\ Mails(mb) \cup {m} \subseteq Mails(out.box) \cup out.evicted
  /\ out.evicted \subseteq Mails(mb)
  /\ \A x : Single(mb.buffer, x) /\ (x = m => x \notin Mails(mb)) => Single(out.box.buffer, x)

(* A full mailbox is not empty.                                            *)
LEMMA FullIs ==
  ASSUME NEW mb \in Mailboxes, ~HasRoom(mb)
  PROVE  mb.buffer # <<>>
BY MailboxIs, SMT DEF HasRoom

(* push takes the message in.                                              *)
LEMMA PushFlow ==
  ASSUME NEW mb \in Mailboxes, NEW m \in Messages
  PROVE  TakesIn(mb, m, Push(mb, m))
<1> DEFINE s == mb.buffer
<1>1. s \in Seq(Messages) /\ mb.policy \in Evicting
  BY MailboxIs
<1>2. CASE HasRoom(mb)
  <2>1. Push(mb, m) = Outcome(Holding(mb, Append(s, m)), {}, {})
    BY <1>2 DEF Push
  <2>2. Push(mb, m).box = Holding(mb, Append(s, m)) /\ Push(mb, m).evicted = {}
    BY <2>1, OutcomeIs
  <2>3. /\ Append(s, m) \in Seq(Messages) /\ Elems(Append(s, m)) = Elems(s) \cup {m}
        /\ \A x : Single(s, x) /\ (x = m => x \notin Elems(s)) => Single(Append(s, m), x)
    BY <1>1, AppendElems
  <2>4. Push(mb, m).box \in Mailboxes /\ Push(mb, m).box.buffer = Append(s, m)
    BY <2>2, <2>3, MailboxIs
  <2> QED BY <2>2, <2>3, <2>4 DEF TakesIn, Mails
<1>3. CASE ~HasRoom(mb)
  <2> DEFINE r == Tail(s)
  <2>1. Push(mb, m) = Outcome(Holding(mb, Append(r, m)), {Head(s)}, {})
    BY <1>1, <1>3 DEF Push
  <2>2. Push(mb, m).box = Holding(mb, Append(r, m)) /\ Push(mb, m).evicted = {Head(s)}
    BY <2>1, OutcomeIs
  <2>3. s # <<>>
    BY <1>3, FullIs
  <2>4. r \in Seq(Messages) /\ Head(s) = s[1] /\ s[1] \in Messages /\ Less(s, 1, r)
    BY <1>1, <2>3, TailElems
  <2> HIDE DEF r
  <2>5. /\ Append(r, m) \in Seq(Messages) /\ Elems(Append(r, m)) = Elems(r) \cup {m}
        /\ \A x : Single(r, x) /\ (x = m => x \notin Elems(r)) => Single(Append(r, m), x)
    BY <2>4, AppendElems
  <2>6. Push(mb, m).box \in Mailboxes /\ Push(mb, m).box.buffer = Append(r, m)
    BY <2>2, <2>5, HeldIs
  <2>7. Elems(s) = Elems(r) \cup {s[1]} /\ \A x : Single(s, x) => Single(r, x)
    BY <2>4 DEF Less
  <2> QED BY <2>2, <2>4, <2>5, <2>6, <2>7 DEF TakesIn, Mails
<1> QED BY <1>2, <1>3

(* So does push_front.                                                     *)
LEMMA PushFrontFlow ==
  ASSUME NEW mb \in Mailboxes, NEW m \in Messages
  PROVE  TakesIn(mb, m, PushFront(mb, m))
<1> DEFINE s == mb.buffer
<1>1. s \in Seq(Messages) /\ mb.policy \in Evicting
  BY MailboxIs
<1>2. CASE HasRoom(mb)
  <2>1. PushFront(mb, m) = Outcome(Holding(mb, <<m>> \o s), {}, {})
    BY <1>2 DEF PushFront
  <2>2. PushFront(mb, m).box = Holding(mb, <<m>> \o s) /\ PushFront(mb, m).evicted = {}
    BY <2>1, OutcomeIs
  <2>3. /\ <<m>> \o s \in Seq(Messages) /\ Elems(<<m>> \o s) = Elems(s) \cup {m}
        /\ \A x : Single(s, x) /\ (x = m => x \notin Elems(s)) => Single(<<m>> \o s, x)
    BY <1>1, ConsElems
  <2>4. PushFront(mb, m).box \in Mailboxes /\ PushFront(mb, m).box.buffer = <<m>> \o s
    BY <2>2, <2>3, MailboxIs
  <2> QED BY <2>2, <2>3, <2>4 DEF TakesIn, Mails
<1>3. CASE ~HasRoom(mb)
  <2> DEFINE r == Front(s)
             z == s[Len(s)]
  <2>1. PushFront(mb, m) = Outcome(Holding(mb, <<m>> \o r), {z}, {})
    BY <1>1, <1>3 DEF PushFront
  <2>2. PushFront(mb, m).box = Holding(mb, <<m>> \o r) /\ PushFront(mb, m).evicted = {z}
    BY <2>1, OutcomeIs
  <2>3. s # <<>>
    BY <1>3, FullIs
  <2>4. r \in Seq(Messages) /\ z \in Messages /\ Less(s, Len(s), r)
    BY <1>1, <2>3, FrontElems
  <2>5. Elems(s) = Elems(r) \cup {z} /\ \A x : Single(s, x) => Single(r, x)
    BY <2>4 DEF Less
  <2> HIDE DEF r, z
  <2>6. /\ <<m>> \o r \in Seq(Messages) /\ Elems(<<m>> \o r) = Elems(r) \cup {m}
        /\ \A x : Single(r, x) /\ (x = m => x \notin Elems(r)) => Single(<<m>> \o r, x)
    BY <2>4, ConsElems
  <2>7. PushFront(mb, m).box \in Mailboxes /\ PushFront(mb, m).box.buffer = <<m>> \o r
    BY <2>2, <2>6, HeldIs
  <2>8. \A x : Single(s, x) /\ (x = m => x \notin Elems(s)) => Single(<<m>> \o r, x)
    BY <2>5, <2>6
  <2>9. Mails(PushFront(mb, m).box) = Elems(r) \cup {m} /\ Mails(mb) = Elems(r) \cup {z}
    BY <2>5, <2>6, <2>7 DEF Mails
  <2> QED BY <2>2, <2>7, <2>8, <2>9 DEF TakesIn, Mails
<1> QED BY <1>2, <1>3

(* A tick's shadow buffer moves over, whole.                               *)
MovesOver(mb, other, out) ==
  /\ out.self \in Mailboxes /\ out.other = Holding(other, <<>>)
  /\ Mails(out.self) \subseteq Mails(mb) \cup Mails(other)
  /\ Mails(mb) \cup Mails(other) \subseteq Mails(out.self) \cup out.evicted
  /\ out.evicted \subseteq Mails(mb) \cup Mails(other)
  /\ \A x : Single(mb.buffer, x) /\ Single(other.buffer, x)
              /\ ~(x \in Mails(mb) /\ x \in Mails(other)) => Single(out.self.buffer, x)

(* append moves the whole shadow buffer.                                   *)
LEMMA AppendFlow ==
  ASSUME NEW mb \in Mailboxes, NEW other \in Mailboxes
  PROVE  MovesOver(mb, other, AppendBoth(mb, other))
<1> DEFINE all == mb.buffer \o other.buffer
           over == Len(all) - mb.capacity
           out == AppendBoth(mb, other)
<1>1. /\ mb.buffer \in Seq(Messages) /\ other.buffer \in Seq(Messages)
      /\ mb.policy \in Evicting /\ mb.capacity \in Nat \ {0}
  BY MailboxIs
<1>2. /\ all \in Seq(Messages) /\ Elems(all) = Mails(mb) \cup Mails(other)
      /\ \A x : Single(mb.buffer, x) /\ Single(other.buffer, x)
                  /\ ~(x \in Mails(mb) /\ x \in Mails(other)) => Single(all, x)
  BY <1>1, ConcatElems DEF Mails
<1>3. CASE over <= 0
  <2>1. out = [self |-> Holding(mb, all), other |-> Holding(other, <<>>), evicted |-> {}]
    BY <1>3 DEF AppendBoth
  <2>2. /\ out.self = Holding(mb, all) /\ out.other = Holding(other, <<>>) /\ out.evicted = {}
    BY <2>1
  <2> HIDE DEF all, out, over
  <2>3. out.self \in Mailboxes /\ out.self.buffer = all
    BY <1>2, <2>2, HeldIs
  <2>4. Mails(out.self) = Mails(mb) \cup Mails(other)
    BY <1>2, <2>3 DEF Mails
  <2> QED BY <1>2, <2>2, <2>3, <2>4 DEF MovesOver, out
<1>4. CASE ~(over <= 0)
  <2> DEFINE cut == SubSeq(all, over + 1, Len(all))
             lost == {all[i] : i \in 1 .. over}
  <2>1. out = [self |-> Holding(mb, cut), other |-> Holding(other, <<>>), evicted |-> lost]
    BY <1>1, <1>4 DEF AppendBoth
  <2> HIDE DEF out, cut, lost
  <2>2. /\ out.self = Holding(mb, cut) /\ out.other = Holding(other, <<>>)
        /\ out.evicted = lost
    BY <2>1
  <2> USE DEF out, cut, lost
  <2> HIDE DEF all, out
  <2>3. Len(all) \in Nat /\ Len(all) \in 0 .. Len(all)
    BY <1>2, SMT
  <2>4. over + 1 \in Nat \ {0} /\ over \in Nat /\ over <= Len(all)
    BY <1>1, <1>4, <2>3, SMT
  <2> HIDE DEF over
  <2>5. /\ cut \in Seq(Messages) /\ Elems(cut) = {all[i] : i \in over + 1 .. Len(all)}
        /\ \A x : Single(all, x) => Single(cut, x)
    BY <1>2, <2>3, <2>4, CutElems
  <2>6. /\ \A i \in 1 .. Len(all) : i \in 1 .. over \/ i \in over + 1 .. Len(all)
        /\ \A i \in 1 .. over : i \in 1 .. Len(all)
        /\ \A i \in over + 1 .. Len(all) : i \in 1 .. Len(all)
    BY <2>3, <2>4, SMT
  <2>7. Elems(all) = Elems(cut) \cup lost
    BY <2>5, <2>6 DEF Elems
  <2> HIDE DEF cut, lost
  <2>8. out.self \in Mailboxes /\ out.self.buffer = cut
    BY <2>2, <2>5, HeldIs
  <2>9. Mails(mb) \cup Mails(other) = Mails(out.self) \cup lost
    BY <1>2, <2>7, <2>8 DEF Mails
  <2>10. \A x : Single(mb.buffer, x) /\ Single(other.buffer, x)
                  /\ ~(x \in Mails(mb) /\ x \in Mails(other)) => Single(cut, x)
    BY <1>2, <2>5
  <2> QED BY <2>2, <2>8, <2>9, <2>10 DEF MovesOver, out
<1> QED BY <1>3, <1>4

-----------------------------------------------------------------------------
(* The invariant.  Its parts are about a history h, the events u of it     *)
(* that are undone, the mailboxes chs and pnd, and timelines tls.          *)

Events == [op : {"send", "recv"}, branch : Branches, chan : Chans, msg : Messages]
Arenas == SUBSET (1 .. MaxSend)
Snapshots == [history_index : Nat, arena : Arenas, depth : 0 .. MaxSpec,
              block : 0 .. MaxBlocks, undone : SUBSET Nat]
AnchorMaps == UNION {[A -> Snapshots] : A \in SUBSET AnchorNames}
Lines == [slice : BOOLEAN, arena : Arenas, anchors : AnchorMaps, depth : 0 .. MaxSpec]
Contexts == [start : Lines, block : 0 .. MaxBlocks, commit_executed : BOOLEAN,
             history_start_index : Nat]

(* an anchor is of the past                                                *)
Past(h, u, tl) ==
  \A a \in DOMAIN tl.anchors :
    tl.anchors[a].history_index <= Len(h) /\ tl.anchors[a].undone \subseteq u
Boxed(chs, pnd) ==
  /\ DOMAIN chs \subseteq Chans /\ DOMAIN pnd = DOMAIN chs
  /\ \A c \in DOMAIN chs : chs[c] \in Mailboxes /\ pnd[c] \in Mailboxes

Typed ==
  /\ Boxed(channels, pending)
  /\ next_payload_id \in 1 .. MaxSend + 1
  /\ causal_history \in Seq(Events)
  /\ timeline \in [Branches -> Lines]
  /\ \A b \in Branches : Past(causal_history, undone, timeline[b])
  /\ speculation_stack \in Seq(Contexts)
  /\ \A k \in 1 .. Len(speculation_stack) :
       Past(causal_history, undone, speculation_stack[k].start)
  /\ speculative_commit_mode \in Modes /\ running \in Branches
  /\ block \in 0 .. MaxBlocks /\ ticks \in [Branches -> 0 .. MaxTicks]
  /\ gone \subseteq 1 .. MaxSend /\ undone \subseteq 1 .. Len(causal_history)

(* the mail of a channel, its shadow buffer's too; a message that is in    *)
(* one place of it at most; the messages that some channel has             *)
Mail(chs, pnd, c) == IF c \in DOMAIN chs THEN Mails(chs[c]) \cup Mails(pnd[c]) ELSE {}
LoneAt(mb, pb, m) == /\ Single(mb.buffer, m) /\ Single(pb.buffer, m)
                     /\ ~(m \in Mails(mb) /\ m \in Mails(pb))
Lone(chs, pnd, c, m) == c \in DOMAIN chs => LoneAt(chs[c], pnd[c], m)
Carried(chs, pnd, id) == \E c \in Chans : \E m \in Mail(chs, pnd, c) : m.id = id

(* a message is sent once, and received from where it was sent             *)
Sends(h) == {i \in 1 .. Len(h) : h[i].op = "send"}
Recvs(h) == {i \in 1 .. Len(h) : h[i].op = "recv"}
Sent(h, m, c) == \E i \in Sends(h) : h[i].chan = c /\ h[i].msg = m
Taken(h, id) == \E i \in Recvs(h) : h[i].msg.id = id
Numbered(h, n) ==
  /\ \A i \in Sends(h) : h[i].msg.id < n
  /\ \A i, j \in Sends(h) : h[i].msg.id = h[j].msg.id => i = j
  /\ \A i \in Recvs(h) :
       \E j \in Sends(h) : j < i /\ h[j].chan = h[i].chan /\ h[j].msg = h[i].msg
Addressed(h, chs) == \A i \in 1 .. Len(h) : h[i].chan \in DOMAIN chs
Posted(h, chs, pnd) == \A c \in Chans : \A m \in Mail(chs, pnd, c) : Sent(h, m, c)

(* who has a message in registers, or goes back to having it               *)
Recalls(tl, id) == id \in tl.arena \/ \E a \in DOMAIN tl.anchors : id \in tl.anchors[a].arena
Remembered(tls, stack, id) == \/ \E b \in Branches : Recalls(tls[b], id)
                              \/ \E k \in 1 .. Len(stack) : Recalls(stack[k].start, id)
Known(n, tls, stack) == \A id : Remembered(tls, stack, id) => id < n

(* a message that was never received is in one place                       *)
Untouched(h, chs, pnd, tls, stack) ==
  \A c \in Chans : \A m \in Mail(chs, pnd, c) :
     ~Taken(h, m.id) => Lone(chs, pnd, c, m) /\ ~Remembered(tls, stack, m.id)

(* receivable only after a tick that began later than the send             *)
Ripe(t, m) == m.iso => \E b \in Branches : t[b] > m.born[b]
Ripened(t, chs) == \A c \in DOMAIN chs : \A m \in Mails(chs[c]) : Ripe(t, m)
Unripe(t, pnd) == \A c \in DOMAIN pnd : \A m \in Mails(pnd[c]) :
                     \A b \in Branches : m.born[b] <= t[b]
Isolated(h, t, chs, pnd) == /\ Ripened(t, chs) /\ Unripe(t, pnd)
                            /\ \A i \in Recvs(h) : Ripe(t, h[i].msg)

(* receipts that stand; every message sent is accounted for                *)
Standing(h, u) == Recvs(h) \ u
Receipt(h, u, id) == \E i \in Standing(h, u) : h[i].msg.id = id
Accounted(h, u, chs, pnd, lost) ==
  \A i \in Sends(h) : \/ Carried(chs, pnd, h[i].msg.id) \/ Receipt(h, u, h[i].msg.id)
                      \/ h[i].msg.id \in lost

(* While every rewind was orderly: what was received is in no channel, and *)
(* what a timeline has, or goes back to having, it has received, or nobody *)
(* else has.                                                               *)
Mine(h, b) == {i \in 1 .. Len(h) : h[i].branch = b}
Safe(h, u, chs, pnd, b, id, n) ==
  \/ \E i \in Mine(h, b) \cap Standing(h, u) : i <= n /\ h[i].msg.id = id
  \/ ~Carried(chs, pnd, id) /\ ~Receipt(h, u, id)
Current(h, u, b, anchor) ==
  \A i \in Mine(h, b) \cap u : i <= anchor.history_index /\ i \in anchor.undone
LineSafe(h, u, chs, pnd, b, tl) ==
  /\ \A id \in tl.arena : Safe(h, u, chs, pnd, b, id, Len(h))
  /\ \A a \in DOMAIN tl.anchors : Current(h, u, b, tl.anchors[a]) =>
       \A id \in tl.anchors[a].arena : Safe(h, u, chs, pnd, b, id, tl.anchors[a].history_index)
Distinct(h, u, chs, pnd) ==
  /\ \A c \in Chans : \A m \in Mail(chs, pnd, c) : Lone(chs, pnd, c, m)
  /\ \A i \in Standing(h, u) : \A c \in Chans : h[i].msg \notin Mail(chs, pnd, c)
  /\ \A i, j \in Standing(h, u) : h[i].msg.id = h[j].msg.id => i = j
LinesSafe(h, u, chs, pnd, tls) == \A b \in Branches : LineSafe(h, u, chs, pnd, b, tls[b])

(* the speculate blocks: Main's below, then those of the timeline it       *)
(* handed control to                                                       *)
Owner(tls, run, k) == IF k <= tls[Main].depth THEN Main ELSE run
Below(tls, k) == IF k <= tls[Main].depth THEN 0 ELSE tls[Main].depth
Stacked(tls, stack, run, blk) ==
  /\ Len(stack) = tls[Main].depth + (IF run = Main THEN 0 ELSE tls[run].depth)
  /\ \A b \in Branches \ {Main, run} : tls[b].depth = 0
  /\ \A k \in 1 .. Len(stack) :
       /\ stack[k].start.depth = k - 1 - Below(tls, k)
       /\ Owner(tls, run, k) # Main => stack[k].block = blk
StackSafe(h, u, chs, pnd, tls, stack, run) ==
  \A k \in 1 .. Len(stack) : LineSafe(h, u, chs, pnd, Owner(tls, run, k), stack[k].start)

Sound ==
  /\ Numbered(causal_history, next_payload_id)
  /\ Posted(causal_history, channels, pending)
  /\ Addressed(causal_history, channels)
  /\ Untouched(causal_history, channels, pending, timeline, speculation_stack)
  /\ Known(next_payload_id, timeline, speculation_stack)
  /\ Accounted(causal_history, undone, channels, pending, gone)
Exact ==
  /\ Distinct(causal_history, undone, channels, pending)
  /\ LinesSafe(causal_history, undone, channels, pending, timeline)
  /\ StackSafe(causal_history, undone, channels, pending, timeline, speculation_stack, running)
  /\ Stacked(timeline, speculation_stack, running, block)

ChannelsInv == /\ Typed /\ Isolated(causal_history, ticks, channels, pending)
               /\ fault = "none" => Sound /\ (orderly => Exact)

-----------------------------------------------------------------------------
(* What an operation does to the mail of the channels                      *)

(* Mail goes nowhere: new enters channel c, what leaves is in out, and a   *)
(* message in one place stays in one, unless it enters where it already is. *)
Flows(chs, pnd, chs2, pnd2, c, new, out) ==
  /\ Boxed(chs2, pnd2)
  /\ \A d \in Chans : \A m \in Mail(chs2, pnd2, d) : m \in Mail(chs, pnd, d) \/ (d = c /\ m \in new)
  /\ \A d \in Chans : \A m \in Mail(chs, pnd, d) : m \in Mail(chs2, pnd2, d) \/ m.id \in out
  /\ \A m \in new : m \in Mail(chs2, pnd2, c) \/ m.id \in out
  /\ \A d \in Chans : \A m \in Mail(chs2, pnd2, d) :
       Lone(chs, pnd, d, m) /\ (d = c /\ m \in new => m \notin Mail(chs, pnd, d))
         => Lone(chs2, pnd2, d, m)

(* The same of the two mailboxes of one channel.                           *)
FlowsAt(mb, pb, mb2, pb2, new, out) ==
  /\ mb2 \in Mailboxes /\ pb2 \in Mailboxes
  /\ Mails(mb2) \cup Mails(pb2) \subseteq Mails(mb) \cup Mails(pb) \cup new
  /\ \A m \in Mails(mb) \cup Mails(pb) \cup new : m \in Mails(mb2) \cup Mails(pb2) \/ m.id \in out
  /\ \A m : LoneAt(mb, pb, m) /\ (m \in new => m \notin Mails(mb) \cup Mails(pb))
              => LoneAt(mb2, pb2, m)

(* An operation that concerns one open channel.                            *)
LEMMA FlowOne ==
  ASSUME NEW chs, NEW pnd, NEW chs2, NEW pnd2, NEW c, NEW new, NEW out,
         Boxed(chs, pnd), c \in DOMAIN chs,
         DOMAIN chs2 = DOMAIN chs, DOMAIN pnd2 = DOMAIN pnd,
         \A d \in DOMAIN chs : d # c => chs2[d] = chs[d] /\ pnd2[d] = pnd[d],
         FlowsAt(chs[c], pnd[c], chs2[c], pnd2[c], new, out)
  PROVE  Flows(chs, pnd, chs2, pnd2, c, new, out)
<1>1. c \in Chans /\ DOMAIN pnd = DOMAIN chs
  BY DEF Boxed
<1>2. Boxed(chs2, pnd2)
  BY <1>1 DEF Boxed, FlowsAt
<1>3. \A d \in Chans : d # c =>
         /\ Mail(chs2, pnd2, d) = Mail(chs, pnd, d)
         /\ \A m : Lone(chs, pnd, d, m) => Lone(chs2, pnd2, d, m)
  BY <1>1 DEF Mail, Lone
<1>4. /\ Mail(chs, pnd, c) = Mails(chs[c]) \cup Mails(pnd[c])
      /\ Mail(chs2, pnd2, c) = Mails(chs2[c]) \cup Mails(pnd2[c])
      /\ \A m : /\ Lone(chs, pnd, c, m) <=> LoneAt(chs[c], pnd[c], m)
                /\ Lone(chs2, pnd2, c, m) <=> LoneAt(chs2[c], pnd2[c], m)
  BY <1>1 DEF Mail, Lone
<1>5. /\ \A m \in Mail(chs2, pnd2, c) : m \in Mail(chs, pnd, c) \/ m \in new
      /\ \A m \in Mail(chs, pnd, c) : m \in Mail(chs2, pnd2, c) \/ m.id \in out
      /\ \A m \in new : m \in Mail(chs2, pnd2, c) \/ m.id \in out
      /\ \A m : Lone(chs, pnd, c, m) /\ (m \in new => m \notin Mail(chs, pnd, c))
                  => Lone(chs2, pnd2, c, m)
  BY <1>4 DEF FlowsAt
<1>6. /\ \A d \in Chans : \A m \in Mail(chs2, pnd2, d) : m \in Mail(chs, pnd, d) \/ (d = c /\ m \in new)
      /\ \A d \in Chans : \A m \in Mail(chs, pnd, d) : m \in Mail(chs2, pnd2, d) \/ m.id \in out
  BY <1>3, <1>5
<1>7. \A d \in Chans : \A m \in Mail(chs2, pnd2, d) :
       Lone(chs, pnd, d, m) /\ (d = c /\ m \in new => m \notin Mail(chs, pnd, d))
         => Lone(chs2, pnd2, d, m)
  BY <1>3, <1>5
<1> QED BY <1>2, <1>5, <1>6, <1>7 DEF Flows

(* A mailbox that lost one message, its companion kept.                    *)
LEMMA LessFlows ==
  ASSUME NEW mb \in Mailboxes, NEW pb \in Mailboxes, NEW mb2 \in Mailboxes,
         NEW i \in 1 .. Len(mb.buffer), Less(mb.buffer, i, mb2.buffer)
  PROVE  /\ FlowsAt(mb, pb, mb2, pb, {}, {mb.buffer[i].id})
         /\ FlowsAt(pb, mb, pb, mb2, {}, {mb.buffer[i].id})
         /\ mb.buffer[i] \in Mails(mb)
         /\ LoneAt(mb, pb, mb.buffer[i]) => mb.buffer[i] \notin Mails(mb2) \cup Mails(pb)
         /\ LoneAt(pb, mb, mb.buffer[i]) => mb.buffer[i] \notin Mails(pb) \cup Mails(mb2)
<1> DEFINE x == mb.buffer[i]
<1>1. /\ Mails(mb) = Mails(mb2) \cup {x}
      /\ \A m : Single(mb.buffer, m) => Single(mb2.buffer, m)
      /\ Single(mb.buffer, x) => x \notin Mails(mb2)
  BY DEF Less, Mails
<1> HIDE DEF x
<1>2. FlowsAt(mb, pb, mb2, pb, {}, {x.id})
  BY <1>1 DEF FlowsAt, LoneAt
<1>3. FlowsAt(pb, mb, pb, mb2, {}, {x.id})
  BY <1>1 DEF FlowsAt, LoneAt
<1>4. x \in Mails(mb) /\ (LoneAt(mb, pb, x) => x \notin Mails(mb2) \cup Mails(pb))
      /\ (LoneAt(pb, mb, x) => x \notin Mails(pb) \cup Mails(mb2))
  BY <1>1 DEF LoneAt
<1> QED BY <1>2, <1>3, <1>4 DEF x

(* A mailbox that takes in a message, its companion kept.                  *)
LEMMA TakesInFlows ==
  ASSUME NEW mb \in Mailboxes, NEW pb \in Mailboxes, NEW m, NEW out, TakesIn(mb, m, out)
  PROVE  /\ FlowsAt(mb, pb, out.box, pb, {m}, IdsOf(out.evicted))
         /\ FlowsAt(pb, mb, pb, out.box, {m}, IdsOf(out.evicted))
<1>1. \A x \in out.evicted : x.id \in IdsOf(out.evicted)
  BY DEF IdsOf
<1>2. FlowsAt(mb, pb, out.box, pb, {m}, IdsOf(out.evicted))
  BY <1>1 DEF FlowsAt, LoneAt, TakesIn
<1>3. FlowsAt(pb, mb, pb, out.box, {m}, IdsOf(out.evicted))
  BY <1>1 DEF FlowsAt, LoneAt, TakesIn
<1> QED BY <1>2, <1>3

(* A receive takes the first message of its channel.                       *)
LEMMA PopFlow ==
  ASSUME Boxed(channels, pending), NEW c, ~Empty(c), Pop(c), UNCHANGED pending
  PROVE  /\ Flows(channels, pending, channels', pending', c, {}, {Head(channels[c].buffer).id})
         /\ c \in Chans /\ Head(channels[c].buffer) \in Mails(channels[c]) \cap Messages
         /\ Head(channels[c].buffer) \in Mail(channels, pending, c)
         /\ Lone(channels, pending, c, Head(channels[c].buffer))
              => Head(channels[c].buffer) \notin Mail(channels', pending', c)
         /\ DOMAIN channels' = DOMAIN channels
         /\ \A d \in DOMAIN channels' : Mails(channels'[d]) \subseteq Mails(channels[d])
<1> DEFINE mb == channels[c]
           pb == pending[c]
           m == Head(mb.buffer)
<1>1. c \in DOMAIN channels /\ mb.buffer # <<>>
  BY DEF Empty, Opened
<1>2. mb \in Mailboxes /\ pb \in Mailboxes /\ c \in Chans
  BY <1>1 DEF Boxed
<1>3. mb.buffer \in Seq(Messages)
  BY <1>2, MailboxIs
<1>4. /\ Tail(mb.buffer) \in Seq(Messages) /\ m = mb.buffer[1] /\ 1 \in 1 .. Len(mb.buffer)
      /\ mb.buffer[1] \in Messages /\ Less(mb.buffer, 1, Tail(mb.buffer))
  BY <1>1, <1>3, TailElems
<1>5. /\ channels' = [channels EXCEPT ![c] = [mb EXCEPT !.buffer = Tail(mb.buffer)]]
  BY DEF Pop
<1>6. /\ DOMAIN channels' = DOMAIN channels
      /\ channels'[c] = Holding(mb, Tail(mb.buffer))
      /\ \A d \in DOMAIN channels : d # c => channels'[d] = channels[d]
  BY <1>1, <1>5 DEF Holding
<1>7. channels'[c] \in Mailboxes /\ channels'[c].buffer = Tail(mb.buffer)
  <2> DEFINE mb2 == channels'[c]
             rest == Tail(mb.buffer)
  <2>1. mb2 = Holding(mb, rest) /\ mb \in Mailboxes /\ rest \in Seq(Messages)
    BY <1>2, <1>4, <1>6
  <2> HIDE DEF mb, mb2, rest
  <2>2. mb2 \in Mailboxes /\ mb2.buffer = rest
    BY <2>1, HeldIs
  <2> QED BY <2>2 DEF mb2, rest
<1>8. /\ FlowsAt(mb, pb, channels'[c], pb, {}, {m.id}) /\ m \in Mails(mb)
      /\ LoneAt(mb, pb, m) => m \notin Mails(channels'[c]) \cup Mails(pb)
  <2> DEFINE mb2 == channels'[c]
  <2>1. Less(mb.buffer, 1, mb2.buffer) /\ mb2 \in Mailboxes
    BY <1>4, <1>7
  <2> HIDE DEF mb, pb, mb2
  <2>2. /\ FlowsAt(mb, pb, mb2, pb, {}, {mb.buffer[1].id}) /\ mb.buffer[1] \in Mails(mb)
        /\ LoneAt(mb, pb, mb.buffer[1]) => mb.buffer[1] \notin Mails(mb2) \cup Mails(pb)
    BY <1>2, <1>4, <2>1, LessFlows
  <2> QED BY <1>4, <2>2 DEF mb2
<1> HIDE DEF m
<1>9. Flows(channels, pending, channels', pending', c, {}, {m.id})
  <2>1. /\ DOMAIN pending' = DOMAIN pending /\ pending'[c] = pb
        /\ \A d \in DOMAIN channels : pending'[d] = pending[d]
    OBVIOUS
  <2> QED BY <1>1, <1>6, <1>8, <2>1, FlowOne
<1>10. m \in Mail(channels, pending, c)
       /\ (Lone(channels, pending, c, m) => m \notin Mail(channels', pending', c))
  BY <1>1, <1>6, <1>8 DEF Mail, Lone
<1>11. \A d \in DOMAIN channels' : Mails(channels'[d]) \subseteq Mails(channels[d])
  <2>1. Mails(channels'[c]) \subseteq Mails(mb)
    BY <1>4, <1>7 DEF Less, Mails
  <2> QED BY <1>6, <2>1
<1>12. m \in Messages
  BY <1>4
<1> QED BY <1>2, <1>6, <1>8, <1>9, <1>10, <1>11, <1>12 DEF m

(* The ids of a buffer are those of its messages.                          *)
LEMMA IdsAre ==
  ASSUME NEW mb \in Mailboxes
  PROVE  Ids(mb.buffer) = {m.id : m \in Mails(mb)}
<1>1. DOMAIN mb.buffer = 1 .. Len(mb.buffer)
  BY MailboxIs, SMT
<1> QED BY <1>1 DEF Ids, Mails, Elems

(* Opening a channel drops what it held.                                   *)
LEMMA OpenFlow ==
  ASSUME Boxed(channels, pending), NEW b, NEW c \in Chans, NEW n \in Capacities,
         OpenChan(b, c, n)
  PROVE  /\ Flows(channels, pending, channels', pending', c, {}, gone')
         /\ \A d \in DOMAIN channels' :
              /\ Mails(channels'[d]) = {} \/ (d \in DOMAIN channels /\ channels'[d] = channels[d])
              /\ Mails(pending'[d]) = {} \/ (d \in DOMAIN pending /\ pending'[d] = pending[d])
         /\ gone' \subseteq gone \cup {m.id : m \in Mail(channels, pending, c)}
         /\ gone \subseteq gone' /\ DOMAIN channels \subseteq DOMAIN channels'
<1> DEFINE cap == IF n = 0 THEN 1 ELSE n
           lost == IF c \in Opened THEN Ids(channels[c].buffer) \cup Ids(pending[c].buffer) ELSE {}
           mb == New(cap, "RingBuffer")
<1>1. mb \in Mailboxes /\ Mails(mb) = {}
  <2>1. cap \in Nat \ {0}
    BY ChannelAssumption, SMT
  <2> HIDE DEF cap
  <2> QED BY <2>1, NewIs
<1>2. /\ channels' = Bind(channels, c, mb) /\ pending' = Bind(pending, c, mb)
      /\ gone' = gone \cup lost
  BY DEF OpenChan
<1>3. lost = {m.id : m \in Mail(channels, pending, c)}
  <2>1. CASE c \in Opened
    <3>1. channels[c] \in Mailboxes /\ pending[c] \in Mailboxes
      BY <2>1 DEF Boxed, Opened
    <3>2. /\ Ids(channels[c].buffer) = {m.id : m \in Mails(channels[c])}
          /\ Ids(pending[c].buffer) = {m.id : m \in Mails(pending[c])}
      BY <3>1, IdsAre
    <3>3. Mail(channels, pending, c) = Mails(channels[c]) \cup Mails(pending[c])
      BY <2>1 DEF Mail, Opened
    <3>4. lost = {m.id : m \in Mails(channels[c])} \cup {m.id : m \in Mails(pending[c])}
      BY <2>1, <3>2
    <3> QED BY <3>3, <3>4
  <2>2. CASE c \notin Opened
    BY <2>2 DEF Mail, Opened
  <2> QED BY <2>1, <2>2
<1> HIDE DEF mb, lost
<1>4. /\ DOMAIN channels' = DOMAIN channels \cup {c} /\ DOMAIN pending' = DOMAIN channels'
      /\ channels'[c] = mb /\ pending'[c] = mb
      /\ \A d \in DOMAIN channels' : d # c => /\ d \in DOMAIN channels /\ channels'[d] = channels[d]
                                              /\ d \in DOMAIN pending /\ pending'[d] = pending[d]
  BY <1>2 DEF Bind, Boxed
<1>5. Boxed(channels', pending')
  BY <1>1, <1>4 DEF Boxed
<1>6. Mail(channels', pending', c) = {}
  BY <1>1, <1>4 DEF Mail
<1>7. \A d \in Chans : d # c => /\ Mail(channels', pending', d) = Mail(channels, pending, d)
                                /\ \A m : Lone(channels, pending, d, m) => Lone(channels', pending', d, m)
  BY <1>4 DEF Mail, Lone
<1>8. Flows(channels, pending, channels', pending', c, {}, gone')
  BY <1>2, <1>3, <1>5, <1>6, <1>7 DEF Flows
<1>9. \A d \in DOMAIN channels' :
        /\ Mails(channels'[d]) = {} \/ (d \in DOMAIN channels /\ channels'[d] = channels[d])
        /\ Mails(pending'[d]) = {} \/ (d \in DOMAIN pending /\ pending'[d] = pending[d])
  BY <1>1, <1>4
<1> QED BY <1>2, <1>3, <1>4, <1>8, <1>9

(* A tick's commit moves every shadow buffer into its channel.             *)
LEMMA TickFlow ==
  ASSUME Boxed(channels, pending), NEW c, CommitTickBuffers
  PROVE  /\ Flows(channels, pending, channels', pending', c, {}, gone')
         /\ DOMAIN channels' = DOMAIN channels
         /\ \A d \in DOMAIN channels :
              /\ Mails(channels'[d]) \subseteq Mails(channels[d]) \cup Mails(pending[d])
              /\ Mails(pending'[d]) = {}
         /\ gone' \subseteq gone \cup
              UNION {{m.id : m \in Mail(channels, pending, d)} : d \in DOMAIN channels}
         /\ gone \subseteq gone'
<1> DEFINE merged == [d \in Opened |-> AppendBoth(channels[d], pending[d])]
           lost == UNION {IdsOf(merged[d].evicted) : d \in Opened}
<1>1. /\ channels' = [d \in Opened |-> merged[d].self] /\ pending' = [d \in Opened |-> merged[d].other]
      /\ gone' = gone \cup lost
  BY DEF CommitTickBuffers
<1>2. \A d \in Opened : merged[d] = AppendBoth(channels[d], pending[d])
  OBVIOUS
<1> HIDE DEF merged
<1>3. /\ DOMAIN channels = Opened /\ DOMAIN pending = Opened
      /\ DOMAIN channels' = Opened /\ DOMAIN pending' = Opened
  BY <1>1 DEF Opened, Boxed
<1>4. \A d \in Opened : channels[d] \in Mailboxes /\ pending[d] \in Mailboxes /\ d \in Chans
  BY <1>3 DEF Boxed
<1>5. \A d \in Opened : MovesOver(channels[d], pending[d], merged[d])
  BY <1>2, <1>4, AppendFlow
<1>6. \A d \in Opened : channels'[d] = merged[d].self /\ pending'[d] = merged[d].other
  BY <1>1
<1>7. \A d \in Opened : /\ pending'[d] \in Mailboxes /\ pending'[d].buffer = <<>>
                        /\ channels'[d] \in Mailboxes
  <2>1. <<>> \in Seq(Messages)
    BY SMT
  <2> TAKE d \in Opened
  <2>2. pending'[d] = Holding(pending[d], <<>>) /\ channels'[d] \in Mailboxes
    BY <1>5, <1>6 DEF MovesOver
  <2>3. pending'[d] \in Mailboxes /\ pending'[d].buffer = <<>>
    BY <1>4, <2>1, <2>2, HeldIs
  <2> QED BY <2>2, <2>3
<1>8. \A d \in Opened : /\ Mails(pending'[d]) = {}
                        /\ \A m : Single(pending'[d].buffer, m)
  <2>1. 1 .. Len(<<>>) = {}
    BY SMT
  <2> QED BY <1>7, <2>1 DEF Mails, Elems, Single
<1>9. \A d \in Opened :
        /\ Mails(channels'[d]) \subseteq Mails(channels[d]) \cup Mails(pending[d])
        /\ \A m \in Mails(channels[d]) \cup Mails(pending[d]) :
             m \in Mails(channels'[d]) \/ m.id \in lost
        /\ IdsOf(merged[d].evicted) \subseteq {m.id : m \in Mails(channels[d]) \cup Mails(pending[d])}
        /\ \A m : LoneAt(channels[d], pending[d], m) => LoneAt(channels'[d], pending'[d], m)
  <2> TAKE d \in Opened
  <2> DEFINE mb == channels[d]
             pb == pending[d]
             mb2 == channels'[d]
             pb2 == pending'[d]
             out == merged[d]
  <2>1. MovesOver(mb, pb, out) /\ mb2 = out.self /\ out.evicted \subseteq out.evicted
    BY <1>5, <1>6
  <2>2. Mails(pb2) = {} /\ \A m : Single(pb2.buffer, m)
    BY <1>8
  <2>3. IdsOf(out.evicted) \subseteq lost
    OBVIOUS
  <2> HIDE DEF mb, pb, mb2, pb2, out, lost
  <2>4. \A m \in out.evicted : m.id \in lost
    BY <2>3 DEF IdsOf
  <2>5. /\ Mails(mb2) \subseteq Mails(mb) \cup Mails(pb)
        /\ \A m \in Mails(mb) \cup Mails(pb) : m \in Mails(mb2) \/ m.id \in lost
    BY <2>1, <2>4 DEF MovesOver
  <2>6. IdsOf(out.evicted) \subseteq {m.id : m \in Mails(mb) \cup Mails(pb)}
    BY <2>1 DEF MovesOver, IdsOf
  <2>7. \A m : LoneAt(mb, pb, m) => LoneAt(mb2, pb2, m)
    BY <2>1, <2>2 DEF MovesOver, LoneAt
  <2> QED BY <2>5, <2>6, <2>7 DEF mb, pb, mb2, pb2, out
<1> HIDE DEF lost
<1>10. \A d \in Opened : /\ Mail(channels, pending, d) = Mails(channels[d]) \cup Mails(pending[d])
                         /\ Mail(channels', pending', d) = Mails(channels'[d])
  BY <1>3, <1>8 DEF Mail
<1>11. \A d \in Chans \ Opened : /\ Mail(channels, pending, d) = {}
                                 /\ Mail(channels', pending', d) = {}
  BY <1>3 DEF Mail
<1>12. Boxed(channels', pending')
  BY <1>3, <1>4, <1>7 DEF Boxed
<1>13. /\ \A d \in Chans : \A m \in Mail(channels', pending', d) : m \in Mail(channels, pending, d)
       /\ \A d \in Chans : \A m \in Mail(channels, pending, d) :
            m \in Mail(channels', pending', d) \/ m.id \in gone'
  <2>1. \A d \in Opened :
          /\ \A m \in Mail(channels', pending', d) : m \in Mail(channels, pending, d)
          /\ \A m \in Mail(channels, pending, d) :
               m \in Mail(channels', pending', d) \/ m.id \in lost
    BY <1>9, <1>10
  <2> QED BY <1>1, <1>11, <2>1
<1>14. \A d \in Chans : \A m \in Mail(channels', pending', d) :
         Lone(channels, pending, d, m) => Lone(channels', pending', d, m)
  BY <1>3, <1>9 DEF Lone
<1>15. Flows(channels, pending, channels', pending', c, {}, gone')
  BY <1>12, <1>13, <1>14 DEF Flows
<1>16. lost \subseteq UNION {{m.id : m \in Mail(channels, pending, d)} : d \in Opened}
  <2>1. \A d \in Opened : IdsOf(merged[d].evicted) \subseteq {m.id : m \in Mail(channels, pending, d)}
    BY <1>9, <1>10
  <2> QED BY <2>1 DEF lost
<1> QED BY <1>1, <1>3, <1>8, <1>9, <1>15, <1>16

(* A send puts its message in the channel, or in its shadow buffer.        *)
LEMMA SendFlow ==
  ASSUME Boxed(channels, pending), NEW c \in Opened, NEW m \in Messages, NEW iso \in BOOLEAN,
         NEW out, out = Push(IF iso THEN pending[c] ELSE channels[c], m),
         pending' = (IF iso THEN [pending EXCEPT ![c] = out.box] ELSE pending),
         channels' = (IF iso THEN channels ELSE [channels EXCEPT ![c] = out.box])
  PROVE  /\ Flows(channels, pending, channels', pending', c, {m}, IdsOf(out.evicted))
         /\ DOMAIN channels' = DOMAIN channels /\ c \in Chans
         /\ \A d \in DOMAIN channels :
              /\ \A x \in Mails(channels'[d]) : x \in Mails(channels[d]) \/ (~iso /\ x = m)
              /\ \A x \in Mails(pending'[d]) : x \in Mails(pending[d]) \/ (iso /\ x = m)
         /\ out.evicted \subseteq Mail(channels, pending, c)
<1>1. c \in DOMAIN channels /\ c \in Chans /\ DOMAIN pending = DOMAIN channels
  BY DEF Opened, Boxed
<1>2. channels[c] \in Mailboxes /\ pending[c] \in Mailboxes
  BY <1>1 DEF Boxed
<1>3. CASE iso
  <2>1. out = Push(pending[c], m) /\ channels' = channels
        /\ pending' = [pending EXCEPT ![c] = out.box]
    BY <1>3
  <2>2. TakesIn(pending[c], m, out)
    BY <1>2, <2>1, PushFlow
  <2>3. FlowsAt(channels[c], pending[c], channels[c], out.box, {m}, IdsOf(out.evicted))
    BY <1>2, <2>2, TakesInFlows
  <2>4. /\ DOMAIN channels' = DOMAIN channels /\ DOMAIN pending' = DOMAIN pending
        /\ channels'[c] = channels[c] /\ pending'[c] = out.box
        /\ \A d \in DOMAIN channels : d # c => channels'[d] = channels[d] /\ pending'[d] = pending[d]
    BY <1>1, <2>1
  <2>5. Flows(channels, pending, channels', pending', c, {m}, IdsOf(out.evicted))
    BY <1>1, <2>3, <2>4, FlowOne
  <2>6. Mails(out.box) \subseteq Mails(pending[c]) \cup {m} /\ out.evicted \subseteq Mails(pending[c])
    BY <2>2 DEF TakesIn
  <2>7. out.evicted \subseteq Mail(channels, pending, c)
    BY <1>1, <2>6 DEF Mail
  <2>8. \A d \in DOMAIN channels :
          /\ \A x \in Mails(channels'[d]) : x \in Mails(channels[d])
          /\ \A x \in Mails(pending'[d]) : x \in Mails(pending[d]) \/ x = m
    BY <2>4, <2>6
  <2> QED BY <1>1, <1>3, <2>4, <2>5, <2>7, <2>8
<1>4. CASE ~iso
  <2>1. out = Push(channels[c], m) /\ pending' = pending
        /\ channels' = [channels EXCEPT ![c] = out.box]
    BY <1>4
  <2>2. TakesIn(channels[c], m, out)
    BY <1>2, <2>1, PushFlow
  <2>3. FlowsAt(channels[c], pending[c], out.box, pending[c], {m}, IdsOf(out.evicted))
    BY <1>2, <2>2, TakesInFlows
  <2>4. /\ DOMAIN channels' = DOMAIN channels /\ DOMAIN pending' = DOMAIN pending
        /\ pending'[c] = pending[c] /\ channels'[c] = out.box
        /\ \A d \in DOMAIN channels : d # c => channels'[d] = channels[d] /\ pending'[d] = pending[d]
    BY <1>1, <2>1
  <2>5. Flows(channels, pending, channels', pending', c, {m}, IdsOf(out.evicted))
    BY <1>1, <2>3, <2>4, FlowOne
  <2>6. Mails(out.box) \subseteq Mails(channels[c]) \cup {m} /\ out.evicted \subseteq Mails(channels[c])
    BY <2>2 DEF TakesIn
  <2>7. out.evicted \subseteq Mail(channels, pending, c)
    BY <1>1, <2>6 DEF Mail
  <2>8. \A d \in DOMAIN channels :
          /\ \A x \in Mails(channels'[d]) : x \in Mails(channels[d]) \/ x = m
          /\ \A x \in Mails(pending'[d]) : x \in Mails(pending[d])
    BY <2>4, <2>6
  <2> QED BY <1>1, <1>4, <2>4, <2>5, <2>7, <2>8
<1> QED BY <1>3, <1>4

-----------------------------------------------------------------------------
(* The parts of the invariant from a state to a later one                  *)

(* A channel's mail is messages.                                           *)
LEMMA MailType ==
  ASSUME NEW chs, NEW pnd, Boxed(chs, pnd), NEW c, NEW m \in Mail(chs, pnd, c)
  PROVE  m \in Messages /\ m.id \in 1 .. MaxSend /\ c \in DOMAIN chs /\ c \in Chans
<1>1. c \in DOMAIN chs /\ c \in Chans
  BY DEF Mail, Boxed
<1>2. chs[c].buffer \in Seq(Messages) /\ pnd[c].buffer \in Seq(Messages)
  BY <1>1, MailboxIs DEF Boxed
<1>3. \A s \in Seq(Messages) : \A x \in Elems(s) : x \in Messages
  BY SMT DEF Elems
<1>4. m \in Messages
  BY <1>1, <1>2, <1>3 DEF Mail, Mails
<1>5. m.id \in 1 .. MaxSend
  BY <1>4 DEF Messages
<1> QED BY <1>1, <1>4, <1>5

(* The events of a history.                                                *)
LEMMA EventIs ==
  ASSUME NEW h \in Seq(Events)
  PROVE  /\ \A i \in 1 .. Len(h) : /\ h[i] \in Events /\ h[i].msg \in Messages
                                  /\ h[i].msg.id \in 1 .. MaxSend /\ h[i].chan \in Chans
         /\ DOMAIN h = 1 .. Len(h) /\ Len(h) \in Nat
<1>1. /\ \A i \in 1 .. Len(h) : h[i] \in Events
      /\ DOMAIN h = 1 .. Len(h) /\ Len(h) \in Nat
  BY SMT
<1>2. \A e \in Events : e.msg \in Messages /\ e.chan \in Chans
  BY DEF Events
<1>3. \A m \in Messages : m.id \in 1 .. MaxSend
  BY DEF Messages
<1> QED BY <1>1, <1>2, <1>3

(* A message's number tells it, and the channel it was sent on.            *)
LEMMA SentOnce ==
  ASSUME NEW h, NEW n, Numbered(h, n), NEW m, NEW x, NEW c, NEW d,
         Sent(h, m, c), Sent(h, x, d), m.id = x.id
  PROVE  m = x /\ c = d
<1>1. PICK i \in Sends(h) : h[i].chan = c /\ h[i].msg = m
  BY DEF Sent
<1>2. PICK j \in Sends(h) : h[j].chan = d /\ h[j].msg = x
  BY DEF Sent
<1>3. i = j
  BY <1>1, <1>2 DEF Numbered
<1> QED BY <1>1, <1>2, <1>3

(* What is received was sent.                                              *)
LEMMA ReceivedSent ==
  ASSUME NEW h, NEW n, Numbered(h, n), NEW i \in Recvs(h)
  PROVE  Sent(h, h[i].msg, h[i].chan)
BY DEF Numbered, Sent

(* A history that goes on from h.                                          *)
Extends(h, h2) == /\ Len(h) \in Nat /\ Len(h2) \in Nat /\ Len(h) <= Len(h2)
                  /\ \A i \in 1 .. Len(h) : h2[i] = h[i]

(* What happened has happened.                                             *)
LEMMA HappenedIs ==
  ASSUME NEW h, NEW h2, Extends(h, h2)
  PROVE  /\ Sends(h) \subseteq Sends(h2) /\ Recvs(h) \subseteq Recvs(h2)
         /\ \A b : Mine(h, b) \subseteq Mine(h2, b)
         /\ \A m, c : Sent(h, m, c) => Sent(h2, m, c)
         /\ \A i \in 1 .. Len(h) : h2[i] = h[i] /\ i \in 1 .. Len(h2) /\ i <= Len(h)
         /\ \A i \in 1 .. Len(h2) : i <= Len(h) => i \in 1 .. Len(h)
<1>1. /\ \A i \in 1 .. Len(h) : h2[i] = h[i] /\ i \in 1 .. Len(h2) /\ i <= Len(h)
      /\ \A i \in 1 .. Len(h2) : i <= Len(h) => i \in 1 .. Len(h)
  BY SMT DEF Extends
<1>2. Sends(h) \subseteq Sends(h2) /\ Recvs(h) \subseteq Recvs(h2)
  BY <1>1 DEF Sends, Recvs
<1>3. \A b : Mine(h, b) \subseteq Mine(h2, b)
  BY <1>1 DEF Mine
<1>4. \A m, c : Sent(h, m, c) => Sent(h2, m, c)
  BY <1>1, <1>2 DEF Sent, Sends
<1> QED BY <1>1, <1>2, <1>3, <1>4

(* An event is added at the end.                                           *)
Adds(h, e, h2, n) == /\ h \in Seq(Events) /\ e \in Events
                     /\ h2 = Append(h, e) /\ n = Len(h) + 1

(* The history after it, and what is new in it.                            *)
LEMMA Recorded ==
  ASSUME NEW h, NEW e, NEW h2, NEW n, Adds(h, e, h2, n)
  PROVE  /\ h2 \in Seq(Events) /\ Extends(h, h2) /\ h2[n] = e /\ n \notin 1 .. Len(h)
         /\ n <= Len(h2) /\ (\A i \in 1 .. Len(h) : i < n)
         /\ (e.op = "recv" => Sends(h2) = Sends(h) /\ Recvs(h2) = Recvs(h) \cup {n})
         /\ (e.op = "send" => Sends(h2) = Sends(h) \cup {n} /\ Recvs(h2) = Recvs(h))
         /\ n \in Mine(h2, e.branch)
<1> USE DEF Adds
<1>1. /\ h2 \in Seq(Events) /\ Len(h2) = n /\ Len(h) \in Nat /\ n \in 1 .. Len(h2)
      /\ \A i \in 1 .. Len(h) : h2[i] = h[i] /\ i < n /\ i \in 1 .. Len(h2)
      /\ h2[n] = e /\ \A i \in 1 .. Len(h2) : i = n \/ i \in 1 .. Len(h)
      /\ n \notin 1 .. Len(h) /\ n <= Len(h2)
  BY SMT
<1> HIDE DEF Adds
<1>2. Extends(h, h2)
  BY <1>1, SMT DEF Extends
<1>3. e.op = "recv" => Sends(h2) = Sends(h) /\ Recvs(h2) = Recvs(h) \cup {n}
  BY <1>1 DEF Sends, Recvs
<1>4. e.op = "send" => Sends(h2) = Sends(h) \cup {n} /\ Recvs(h2) = Recvs(h)
  BY <1>1 DEF Sends, Recvs
<1>5. n \in Mine(h2, e.branch)
  BY <1>1 DEF Mine
<1> QED BY <1>1, <1>2, <1>3, <1>4, <1>5

(* What nobody has still nobody has.                                       *)
Spared(h, u, chs, pnd, h2, u2, chs2, pnd2, id) ==
  ~Carried(chs, pnd, id) /\ ~Receipt(h, u, id)
    => ~Carried(chs2, pnd2, id) /\ ~Receipt(h2, u2, id)

(* A timeline whose receipts still stand is as safe as it was, and so is   *)
(* every anchor of it.                                                     *)
LEMMA LineStep ==
  ASSUME NEW h, NEW u, NEW chs, NEW pnd, NEW h2, NEW u2, NEW chs2, NEW pnd2, NEW b, NEW tl,
         Extends(h, h2), u \subseteq u2,
         Mine(h, b) \cap Standing(h, u) \subseteq Standing(h2, u2),
         \A id : Recalls(tl, id) => Spared(h, u, chs, pnd, h2, u2, chs2, pnd2, id),
         LineSafe(h, u, chs, pnd, b, tl)
  PROVE  LineSafe(h2, u2, chs2, pnd2, b, tl)
<1>1. /\ Mine(h, b) \subseteq Mine(h2, b)
      /\ \A i \in 1 .. Len(h) : h2[i] = h[i]
  BY HappenedIs
<1>2. Mine(h, b) \subseteq 1 .. Len(h)
  BY DEF Mine
<1>3. ASSUME NEW id, NEW n, Recalls(tl, id), Safe(h, u, chs, pnd, b, id, n)
      PROVE  Safe(h2, u2, chs2, pnd2, b, id, n)
  <2>1. CASE \E i \in Mine(h, b) \cap Standing(h, u) : i <= n /\ h[i].msg.id = id
    <3>1. PICK i \in Mine(h, b) \cap Standing(h, u) : i <= n /\ h[i].msg.id = id
      BY <2>1
    <3>2. i \in Mine(h2, b) \cap Standing(h2, u2) /\ h2[i] = h[i]
      BY <1>1, <1>2
    <3> QED BY <3>1, <3>2 DEF Safe
  <2>2. CASE ~Carried(chs, pnd, id) /\ ~Receipt(h, u, id)
    BY <1>3, <2>2 DEF Safe, Spared
  <2> QED BY <1>3, <2>1, <2>2 DEF Safe
<1>4. ASSUME NEW id \in tl.arena PROVE Safe(h2, u2, chs2, pnd2, b, id, Len(h2))
  <2>1. Recalls(tl, id) /\ Safe(h, u, chs, pnd, b, id, Len(h))
    BY <1>4 DEF Recalls, LineSafe
  <2>2. Safe(h2, u2, chs2, pnd2, b, id, Len(h))
    BY <1>3, <2>1
  <2>3. \A i \in Mine(h2, b) : i <= Len(h2)
    BY SMT DEF Mine, Extends
  <2> QED BY <2>2, <2>3 DEF Safe
<1>5. ASSUME NEW a \in DOMAIN tl.anchors, Current(h2, u2, b, tl.anchors[a]),
             NEW id \in tl.anchors[a].arena
      PROVE  Safe(h2, u2, chs2, pnd2, b, id, tl.anchors[a].history_index)
  <2>1. Current(h, u, b, tl.anchors[a]) /\ Recalls(tl, id)
    BY <1>1, <1>5 DEF Current, Recalls
  <2>2. Safe(h, u, chs, pnd, b, id, tl.anchors[a].history_index)
    BY <2>1 DEF LineSafe
  <2> QED BY <1>3, <2>1, <2>2
<1> QED BY <1>4, <1>5 DEF LineSafe

(* The same of every timeline and every context of the stack.              *)
LEMMA LinesStep ==
  ASSUME NEW h, NEW u, NEW chs, NEW pnd, NEW h2, NEW u2, NEW chs2, NEW pnd2,
         NEW tls, NEW stack, NEW run, run \in Branches,
         Extends(h, h2), u \subseteq u2, Standing(h, u) \subseteq Standing(h2, u2),
         \A id : Remembered(tls, stack, id) => Spared(h, u, chs, pnd, h2, u2, chs2, pnd2, id)
  PROVE  /\ LinesSafe(h, u, chs, pnd, tls) => LinesSafe(h2, u2, chs2, pnd2, tls)
         /\ StackSafe(h, u, chs, pnd, tls, stack, run)
              => StackSafe(h2, u2, chs2, pnd2, tls, stack, run)
<1>1. \A b : Mine(h, b) \cap Standing(h, u) \subseteq Standing(h2, u2)
  OBVIOUS
<1>2. ASSUME NEW b \in Branches, LineSafe(h, u, chs, pnd, b, tls[b])
      PROVE  LineSafe(h2, u2, chs2, pnd2, b, tls[b])
  <2>1. \A id : Recalls(tls[b], id) => Spared(h, u, chs, pnd, h2, u2, chs2, pnd2, id)
    BY DEF Remembered
  <2> QED BY <1>1, <1>2, <2>1, LineStep
<1>3. ASSUME NEW k \in 1 .. Len(stack), NEW b, LineSafe(h, u, chs, pnd, b, stack[k].start)
      PROVE  LineSafe(h2, u2, chs2, pnd2, b, stack[k].start)
  <2>1. \A id : Recalls(stack[k].start, id) => Spared(h, u, chs, pnd, h2, u2, chs2, pnd2, id)
    BY DEF Remembered
  <2> QED BY <1>1, <1>3, <2>1, LineStep
<1> QED BY <1>2, <1>3 DEF LinesSafe, StackSafe

(* No mail comes in, nothing is received or undone: no harm.               *)
LEMMA ShrinkStep ==
  ASSUME NEW h, NEW n, NEW u, NEW chs, NEW pnd, NEW chs2, NEW pnd2, NEW c, NEW out,
         Flows(chs, pnd, chs2, pnd2, c, {}, out)
  PROVE  /\ \A d \in Chans : Mail(chs2, pnd2, d) \subseteq Mail(chs, pnd, d)
         /\ \A id : Carried(chs2, pnd2, id) => Carried(chs, pnd, id)
         /\ \A id : Carried(chs, pnd, id) => Carried(chs2, pnd2, id) \/ id \in out
         /\ \A id : Spared(h, u, chs, pnd, h, u, chs2, pnd2, id)
         /\ Posted(h, chs, pnd) => Posted(h, chs2, pnd2)
         /\ Distinct(h, u, chs, pnd) => Distinct(h, u, chs2, pnd2)
         /\ \A tls, stack : Untouched(h, chs, pnd, tls, stack) => Untouched(h, chs2, pnd2, tls, stack)
         /\ \A lost : Accounted(h, u, chs, pnd, lost) => Accounted(h, u, chs2, pnd2, lost \cup out)
<1>1. /\ \A d \in Chans : Mail(chs2, pnd2, d) \subseteq Mail(chs, pnd, d)
      /\ \A d \in Chans : \A m \in Mail(chs, pnd, d) : m \in Mail(chs2, pnd2, d) \/ m.id \in out
      /\ \A d \in Chans : \A m \in Mail(chs2, pnd2, d) : Lone(chs, pnd, d, m) => Lone(chs2, pnd2, d, m)
  BY DEF Flows
<1>2. /\ \A id : Carried(chs2, pnd2, id) => Carried(chs, pnd, id)
      /\ \A id : Carried(chs, pnd, id) => Carried(chs2, pnd2, id) \/ id \in out
  BY <1>1 DEF Carried
<1>3. \A id : Spared(h, u, chs, pnd, h, u, chs2, pnd2, id)
  BY <1>2 DEF Spared
<1>4. Posted(h, chs, pnd) => Posted(h, chs2, pnd2)
  BY <1>1 DEF Posted
<1>5. Distinct(h, u, chs, pnd) => Distinct(h, u, chs2, pnd2)
  BY <1>1 DEF Distinct
<1>6. \A tls, stack : Untouched(h, chs, pnd, tls, stack) => Untouched(h, chs2, pnd2, tls, stack)
  BY <1>1 DEF Untouched
<1>7. \A lost : Accounted(h, u, chs, pnd, lost) => Accounted(h, u, chs2, pnd2, lost \cup out)
  BY <1>2 DEF Accounted
<1> QED BY <1>1, <1>2, <1>3, <1>4, <1>5, <1>6, <1>7

-----------------------------------------------------------------------------
(* The operations on channels                                              *)

(* Mail may leave a channel if the history of losses says so.              *)
LEMMA ShrinkKeeps ==
  ASSUME Typed, Sound, NEW c, NEW out, DOMAIN channels \subseteq DOMAIN channels',
         Flows(channels, pending, channels', pending', c, {}, out), gone' = gone \cup out,
         UNCHANGED <<causal_history, undone, next_payload_id, timeline, speculation_stack,
                     running, block>>
  PROVE  Sound' /\ (Exact => Exact')
<1> DEFINE h == causal_history
           u == undone
<1>1. /\ \A id : Spared(h, u, channels, pending, h, u, channels', pending', id)
      /\ Posted(h, channels, pending) => Posted(h, channels', pending')
      /\ Distinct(h, u, channels, pending) => Distinct(h, u, channels', pending')
      /\ \A tls, stack : Untouched(h, channels, pending, tls, stack)
                           => Untouched(h, channels', pending', tls, stack)
      /\ \A lost : Accounted(h, u, channels, pending, lost)
                     => Accounted(h, u, channels', pending', lost \cup out)
  BY ShrinkStep
<1>2. Extends(h, h) /\ u \subseteq u /\ Standing(h, u) \subseteq Standing(h, u) /\ running \in Branches
  BY SMT DEF Extends, Typed
<1>3. /\ LinesSafe(h, u, channels, pending, timeline) => LinesSafe(h, u, channels', pending', timeline)
      /\ StackSafe(h, u, channels, pending, timeline, speculation_stack, running)
           => StackSafe(h, u, channels', pending', timeline, speculation_stack, running)
  BY <1>1, <1>2, LinesStep
<1>4. Sound'
  <2>1. Addressed(h, channels')
    BY DEF Sound, Addressed
  <2> QED BY <1>1, <2>1 DEF Sound
<1>5. Exact => Exact'
  BY <1>1, <1>3 DEF Exact
<1> QED BY <1>4, <1>5

(* A longer history keeps the anchors of the past.                         *)
LEMMA PastStep ==
  ASSUME NEW h, NEW h2, NEW u, NEW u2, NEW tl, Extends(h, h2), u \subseteq u2, tl \in Lines,
         Past(h, u, tl)
  PROVE  Past(h2, u2, tl)
<1>1. \A a \in DOMAIN tl.anchors : tl.anchors[a].history_index \in Nat
  BY DEF Lines, AnchorMaps, Snapshots
<1>2. \A k \in Nat : k <= Len(h) => k <= Len(h2)
  BY SMT DEF Extends
<1> QED BY <1>1, <1>2 DEF Past

(* open_chan                                                               *)
LEMMA OpenKeeps ==
  ASSUME ChannelsInv, fault = "none", NEW b, NEW c \in Chans, NEW n \in Capacities,
         OpenChan(b, c, n)
  PROVE  ChannelsInv'
<1>1. Typed /\ Sound /\ (orderly => Exact) /\ Boxed(channels, pending)
      /\ Isolated(causal_history, ticks, channels, pending)
  BY DEF ChannelsInv, Typed
<1>2. /\ Flows(channels, pending, channels', pending', c, {}, gone')
      /\ \A d \in DOMAIN channels' :
           /\ Mails(channels'[d]) = {} \/ (d \in DOMAIN channels /\ channels'[d] = channels[d])
           /\ Mails(pending'[d]) = {} \/ (d \in DOMAIN pending /\ pending'[d] = pending[d])
      /\ gone' \subseteq gone \cup {m.id : m \in Mail(channels, pending, c)}
      /\ gone \subseteq gone' /\ DOMAIN channels \subseteq DOMAIN channels'
  BY <1>1, OpenFlow
<1>3. /\ UNCHANGED <<causal_history, undone, next_payload_id, timeline, speculation_stack,
                     running, block>>
      /\ UNCHANGED <<speculative_commit_mode, ticks, fault, orderly>>
  BY DEF OpenChan, Speculation, Control
<1>4. gone' = gone \cup gone' /\ Boxed(channels', pending') /\ DOMAIN pending' = DOMAIN channels'
  BY <1>2 DEF Flows, Boxed
<1>5. Sound' /\ (Exact => Exact')
  BY <1>1, <1>2, <1>3, <1>4, ShrinkKeeps
<1>6. gone' \subseteq 1 .. MaxSend
  BY <1>1, <1>2, MailType DEF Typed
<1>7. Typed'
  BY <1>1, <1>3, <1>4, <1>6 DEF Typed
<1>8. Isolated(causal_history, ticks, channels', pending')
  BY <1>1, <1>2, <1>4 DEF Isolated, Ripened, Unripe
<1> QED BY <1>1, <1>3, <1>5, <1>7, <1>8 DEF ChannelsInv

(* loop_tick, with the commit of every shadow buffer                       *)
LEMMA TickKeeps ==
  ASSUME ChannelsInv, fault = "none", NEW b \in Branches, LoopTick(b)
  PROVE  ChannelsInv'
<1>1. Typed /\ Sound /\ (orderly => Exact) /\ Boxed(channels, pending)
      /\ Isolated(causal_history, ticks, channels, pending)
  BY DEF ChannelsInv, Typed
<1>2. /\ Flows(channels, pending, channels', pending', Main, {}, gone')
      /\ DOMAIN channels' = DOMAIN channels
      /\ \A d \in DOMAIN channels :
           /\ Mails(channels'[d]) \subseteq Mails(channels[d]) \cup Mails(pending[d])
           /\ Mails(pending'[d]) = {}
      /\ gone' \subseteq gone \cup
           UNION {{m.id : m \in Mail(channels, pending, d)} : d \in DOMAIN channels}
      /\ gone \subseteq gone'
  BY <1>1, TickFlow DEF LoopTick
<1>3. /\ UNCHANGED <<causal_history, undone, next_payload_id, timeline, speculation_stack,
                     running, block>>
      /\ UNCHANGED <<speculative_commit_mode, orderly>>
      /\ ticks[b] < MaxTicks /\ ticks' = [ticks EXCEPT ![b] = ticks[b] + 1]
  BY DEF LoopTick, Speculation, Control
<1>4. gone' = gone \cup gone' /\ Boxed(channels', pending')
  BY <1>2 DEF Flows
<1>5. Sound' /\ (Exact => Exact')
  BY <1>1, <1>2, <1>3, <1>4, ShrinkKeeps
<1>6. gone' \subseteq 1 .. MaxSend
  BY <1>1, <1>2, MailType DEF Typed
<1>7. /\ ticks' \in [Branches -> 0 .. MaxTicks]
      /\ \A d \in Branches : ticks[d] <= ticks'[d] /\ ticks[d] \in Nat /\ ticks'[d] \in Nat
      /\ ticks'[b] > ticks[b]
  <2>1. ticks \in [Branches -> 0 .. MaxTicks] /\ MaxTicks \in Nat
    BY <1>1, ChannelAssumption DEF Typed
  <2> QED BY <1>3, <2>1, SMT
<1>8. Typed'
  BY <1>1, <1>3, <1>4, <1>6, <1>7 DEF Typed
<1>9. \A m \in Messages : m.born \in [Branches -> 0 .. MaxTicks]
  BY DEF Messages
<1>10. \A m \in Messages : Ripe(ticks, m) => Ripe(ticks', m)
  <2> SUFFICES ASSUME NEW m \in Messages, NEW d \in Branches, ticks[d] > m.born[d]
               PROVE  ticks'[d] > m.born[d]
    BY DEF Ripe
  <2>1. m.born[d] \in 0 .. MaxTicks
    BY <1>9
  <2> QED BY <1>7, <2>1, ChannelAssumption, SMT
<1>11. \A m \in Messages : (\A d \in Branches : m.born[d] <= ticks[d]) => Ripe(ticks', m)
  <2> SUFFICES ASSUME NEW m \in Messages, m.born[b] <= ticks[b]
               PROVE  ticks'[b] > m.born[b]
    BY DEF Ripe
  <2>1. m.born[b] \in 0 .. MaxTicks
    BY <1>9
  <2> QED BY <1>7, <2>1, ChannelAssumption, SMT
<1>12. \A d \in DOMAIN channels : /\ d \in DOMAIN pending
                                  /\ Mails(channels[d]) \subseteq Messages
                                  /\ Mails(pending[d]) \subseteq Messages
  <2> TAKE d \in DOMAIN channels
  <2>1. d \in DOMAIN pending /\ Mail(channels, pending, d) = Mails(channels[d]) \cup Mails(pending[d])
    BY <1>1 DEF Boxed, Mail
  <2> QED BY <1>1, <2>1, MailType
<1>13. Ripened(ticks', channels')
  BY <1>1, <1>2, <1>10, <1>11, <1>12 DEF Isolated, Ripened, Unripe
<1>14. Unripe(ticks', pending')
  BY <1>2, <1>4 DEF Unripe, Boxed
<1>15. \A i \in Recvs(causal_history) : Ripe(ticks', causal_history[i].msg)
  <2>1. \A i \in Recvs(causal_history) : causal_history[i].msg \in Messages
    BY <1>1, EventIs DEF Typed, Recvs
  <2> QED BY <1>1, <1>10, <2>1 DEF Isolated
<1>16. Isolated(causal_history, ticks', channels', pending')
  BY <1>13, <1>14, <1>15 DEF Isolated
<1> QED BY <1>1, <1>3, <1>5, <1>8, <1>16 DEF ChannelsInv

(* A handler that fails and has changed nothing leaves a run that is over. *)
LEMMA FailKeeps ==
  ASSUME ChannelsInv, fault' # "none",
         UNCHANGED <<channels, pending, causal_history, timeline, speculation_stack,
                     speculative_commit_mode, running, block, ticks, gone, undone>>,
         next_payload_id' \in 1 .. MaxSend + 1
  PROVE  ChannelsInv'
<1>1. Typed'
  BY DEF ChannelsInv, Typed
<1>2. Isolated(causal_history, ticks, channels, pending)'
  BY DEF ChannelsInv
<1> QED BY <1>1, <1>2 DEF ChannelsInv

(* A set of numbers that is not empty has a least one.                     *)
LEMMA Least ==
  ASSUME NEW T, T \subseteq Nat, T # {}
  PROVE  \E x \in T : \A y \in T : x <= y
<1> DEFINE R == OpToRel(<, Nat)
<1>1. \A x, y \in Nat : ~(<<y, x>> \in R) => x <= y
  <2>1. \A x, y \in Nat : <<y, x>> \in Nat \X Nat /\ <<y, x>>[1] = y /\ <<y, x>>[2] = x
    OBVIOUS
  <2>2. \A x, y \in Nat : ~(<<y, x>> \in R) => ~(y < x)
    BY <2>1 DEF OpToRel
  <2>3. \A x, y \in Nat : ~(y < x) => x <= y
    BY SMT
  <2> QED BY <2>2, <2>3
<1>2. IsWellFoundedOn(R, Nat)
  BY NatLessThanWellFounded
<1> HIDE DEF R
<1>3. \E x \in T : \A y \in T : ~(<<y, x>> \in R)
  BY <1>2, WFMin
<1> QED BY <1>1, <1>3

(* The first case with mail has mail.                                      *)
LEMMA ReadyIs ==
  ASSUME NEW cases, SelectInSeq(cases, LAMBDA c : ~Empty(c)) # 0
  PROVE  ~Empty(cases[SelectInSeq(cases, LAMBDA c : ~Empty(c))])
<1> DEFINE I == {i \in 1 .. Len(cases) : ~Empty(cases[i])}
           ready == SelectInSeq(cases, LAMBDA c : ~Empty(c))
<1>1. ready = IF I # {} THEN Min(I) ELSE 0
  BY DEF SelectInSeq
<1>2. I # {} /\ ready = Min(I)
  BY <1>1
<1>3. I \subseteq Nat
  BY SMT
<1> HIDE DEF ready
<1>4. Min(I) \in I
  <2> HIDE DEF I
  <2>1. \E x \in I : \A y \in I : x <= y
    BY <1>2, <1>3, Least
  <2>2. (CHOOSE x \in I : \A y \in I : x =< y) \in I
    BY <2>1
  <2> QED BY <2>2 DEF Min
<1> QED BY <1>2, <1>4 DEF ready

(* A timeline takes a message into its registers.                          *)
LEMMA HoldIs ==
  ASSUME timeline \in [Branches -> Lines], NEW b \in Branches, NEW m, m.id \in 1 .. MaxSend,
         Hold(b, m)
  PROVE  /\ timeline' \in [Branches -> Lines]
         /\ \A d \in Branches : /\ timeline'[d].anchors = timeline[d].anchors
                                /\ timeline'[d].depth = timeline[d].depth
                                /\ d # b => timeline'[d] = timeline[d]
         /\ timeline'[b].arena = timeline[b].arena \cup {m.id}
         /\ \A stack, id : Remembered(timeline', stack, id)
                             => Remembered(timeline, stack, id) \/ id = m.id
<1>1. timeline' = [timeline EXCEPT ![b] = [timeline[b] EXCEPT !.arena = timeline[b].arena \cup {m.id}]]
  BY DEF Hold
<1>2. timeline[b] \in Lines /\ timeline[b].arena \cup {m.id} \in Arenas
  BY DEF Lines, Arenas
<1>3. [timeline[b] EXCEPT !.arena = timeline[b].arena \cup {m.id}] \in Lines
  BY <1>2 DEF Lines
<1>4. timeline' \in [Branches -> Lines] /\ \A d \in Branches : d # b => timeline'[d] = timeline[d]
  BY <1>1, <1>3
<1>5. /\ timeline'[b].arena = timeline[b].arena \cup {m.id}
      /\ timeline'[b].anchors = timeline[b].anchors /\ timeline'[b].depth = timeline[b].depth
  BY <1>1, <1>2 DEF Lines
<1>6. \A stack, id : Remembered(timeline', stack, id) => Remembered(timeline, stack, id) \/ id = m.id
  BY <1>4, <1>5 DEF Remembered, Recalls
<1> QED BY <1>4, <1>5, <1>6

(* More in the registers: as safe, if what is more is.                     *)
LEMMA LineHolds ==
  ASSUME NEW h, NEW u, NEW chs, NEW pnd, NEW b, NEW tl, NEW tl2,
         LineSafe(h, u, chs, pnd, b, tl), tl2.anchors = tl.anchors,
         \A id \in tl2.arena : id \in tl.arena \/ Safe(h, u, chs, pnd, b, id, Len(h))
  PROVE  LineSafe(h, u, chs, pnd, b, tl2)
BY DEF LineSafe

(* Speculation sees the depths of timelines only.                          *)
LEMMA SameDepths ==
  ASSUME NEW tls, NEW tls2, \A b \in Branches : tls2[b].depth = tls[b].depth,
         NEW stack, NEW run \in Branches
  PROVE  /\ \A blk : Stacked(tls, stack, run, blk) => Stacked(tls2, stack, run, blk)
         /\ \A h, u, chs, pnd : StackSafe(h, u, chs, pnd, tls, stack, run)
                                  => StackSafe(h, u, chs, pnd, tls2, stack, run)
<1>1. Main \in Branches /\ tls2[Main].depth = tls[Main].depth /\ tls2[run].depth = tls[run].depth
  BY DEF Branches
<1>2. \A k : Owner(tls2, run, k) = Owner(tls, run, k) /\ Below(tls2, k) = Below(tls, k)
  BY <1>1 DEF Owner, Below
<1>3. \A blk : Stacked(tls, stack, run, blk) => Stacked(tls2, stack, run, blk)
  BY <1>1, <1>2 DEF Stacked
<1>4. \A h, u, chs, pnd : StackSafe(h, u, chs, pnd, tls, stack, run)
                             => StackSafe(h, u, chs, pnd, tls2, stack, run)
  BY <1>2 DEF StackSafe
<1> QED BY <1>3, <1>4

(* A message that was in one place and is taken from there is in none.     *)
LEMMA TakenAway ==
  ASSUME NEW h, NEW n, Numbered(h, n), NEW chs, NEW pnd, NEW chs2, NEW pnd2, NEW c \in Chans, NEW out,
         Posted(h, chs, pnd), Flows(chs, pnd, chs2, pnd2, c, {}, out), NEW m \in Mail(chs, pnd, c),
         m \notin Mail(chs2, pnd2, c)
  PROVE  ~Carried(chs2, pnd2, m.id)
<1> SUFFICES ASSUME NEW d \in Chans, NEW x \in Mail(chs2, pnd2, d), x.id = m.id PROVE FALSE
  BY DEF Carried
<1>1. x \in Mail(chs, pnd, d)
  BY DEF Flows
<1>2. Sent(h, x, d) /\ Sent(h, m, c)
  BY <1>1 DEF Posted
<1>3. x = m /\ d = c
  BY <1>2, SentOnce
<1> QED BY <1>3

(* A receipt that stands of a message in a channel is not of it.           *)
LEMMA NoReceipt ==
  ASSUME NEW h, NEW n, NEW u, Numbered(h, n), NEW chs, NEW pnd, NEW c \in Chans,
         Posted(h, chs, pnd), Distinct(h, u, chs, pnd), NEW m \in Mail(chs, pnd, c)
  PROVE  ~Receipt(h, u, m.id)
<1> SUFFICES ASSUME NEW i \in Standing(h, u), h[i].msg.id = m.id PROVE FALSE
  BY DEF Receipt
<1>1. i \in Recvs(h)
  BY DEF Standing
<1>2. Sent(h, h[i].msg, h[i].chan) /\ Sent(h, m, c)
  BY <1>1, ReceivedSent DEF Posted
<1>3. h[i].msg = m
  BY <1>2, SentOnce
<1> QED BY <1>3 DEF Distinct

(* chan_recv                                                               *)
LEMMA RecvKeeps ==
  ASSUME ChannelsInv, fault = "none", NEW b \in Branches, NEW c \in Chans, ChanRecv(b, c)
  PROVE  ChannelsInv'
<1> DEFINE h == causal_history
           u == undone
           n == next_payload_id
           m == Head(channels[c].buffer)
           e == [op |-> "recv", branch |-> b, chan |-> c, msg |-> m]
           N == Len(h) + 1
<1>1. Typed /\ Sound /\ (orderly => Exact) /\ Boxed(channels, pending)
      /\ Isolated(h, ticks, channels, pending)
  BY DEF ChannelsInv, Typed
<1>2. CASE Empty(c) /\ Fails("ChannelFault") /\ UNCHANGED ChannelState
  BY <1>1, <1>2, FailKeeps DEF Fails, ChannelState, Speculation, Control, Ghosts, Typed
<1>3. ASSUME ~Empty(c), Pop(c), UNCHANGED pending
      PROVE  /\ Flows(channels, pending, channels', pending', c, {}, {m.id})
             /\ m \in Mails(channels[c]) \cap Messages /\ m \in Mail(channels, pending, c)
             /\ Lone(channels, pending, c, m) => m \notin Mail(channels', pending', c)
             /\ Boxed(channels', pending') /\ m.id \in 1 .. MaxSend
             /\ Ripened(ticks, channels') /\ Unripe(ticks, pending') /\ Ripe(ticks, m)
  <2>1. /\ Flows(channels, pending, channels', pending', c, {}, {m.id})
        /\ m \in Mails(channels[c]) \cap Messages /\ m \in Mail(channels, pending, c)
        /\ Lone(channels, pending, c, m) => m \notin Mail(channels', pending', c)
        /\ DOMAIN channels' = DOMAIN channels
        /\ \A d \in DOMAIN channels' : Mails(channels'[d]) \subseteq Mails(channels[d])
    BY <1>1, <1>3, PopFlow
  <2>2. c \in DOMAIN channels
    BY <1>3 DEF Empty, Opened
  <2>3. Boxed(channels', pending') /\ m.id \in 1 .. MaxSend
    BY <1>1, <2>1, MailType DEF Flows
  <2>4. Ripened(ticks, channels') /\ Unripe(ticks, pending') /\ Ripe(ticks, m)
    BY <1>1, <1>3, <2>1, <2>2 DEF Isolated, Ripened, Unripe
  <2> QED BY <2>1, <2>3, <2>4
<1>4. CASE /\ ~Empty(c) /\ Fails("MemoryFault") /\ Pop(c)
           /\ UNCHANGED <<pending, next_payload_id, causal_history>>
  <2>1. /\ UNCHANGED <<timeline, speculation_stack, speculative_commit_mode, running, block,
                       ticks, gone, undone>> /\ fault' # "none"
    BY <1>4 DEF Fails, Speculation, Control, Ghosts
  <2>2. Boxed(channels', pending') /\ Ripened(ticks, channels') /\ Unripe(ticks, pending')
    BY <1>3, <1>4
  <2>3. Typed'
    BY <1>1, <1>4, <2>1, <2>2 DEF Typed
  <2>4. Isolated(h, ticks, channels, pending)'
    BY <1>1, <1>4, <2>1, <2>2 DEF Isolated
  <2> QED BY <2>1, <2>3, <2>4 DEF ChannelsInv
<1>5. CASE /\ ~Empty(c) /\ Pop(c) /\ Hold(b, m) /\ Record("recv", b, c, m)
           /\ UNCHANGED <<pending, next_payload_id, Speculation, Control, fault, Ghosts>>
  <2>1. /\ UNCHANGED <<pending, next_payload_id, speculation_stack, speculative_commit_mode,
                       running, block, fault, ticks, gone, undone, orderly>>
        /\ causal_history' = Append(h, e)
    BY <1>5 DEF Speculation, Control, Ghosts, Record
  <2>2. /\ Flows(channels, pending, channels', pending', c, {}, {m.id})
        /\ m \in Messages /\ m \in Mail(channels, pending, c) /\ m.id \in 1 .. MaxSend
        /\ Lone(channels, pending, c, m) => m \notin Mail(channels', pending', c)
        /\ Boxed(channels', pending')
        /\ Ripened(ticks, channels') /\ Unripe(ticks, pending') /\ Ripe(ticks, m)
    BY <1>3, <1>5, <2>1
  <2>3. h \in Seq(Events) /\ u \subseteq 1 .. Len(h) /\ timeline \in [Branches -> Lines]
        /\ running \in Branches
    BY <1>1 DEF Typed
  <2>4. e \in Events /\ e.op = "recv" /\ e.branch = b /\ e.chan = c /\ e.msg = m
    BY <2>2 DEF Events
  <2> DEFINE h2 == causal_history'
  <2> HIDE DEF m, e, h2
  <2>5. /\ h2 \in Seq(Events) /\ Extends(h, h2) /\ h2[N] = e /\ N \notin 1 .. Len(h)
        /\ N <= Len(h2) /\ \A i \in 1 .. Len(h) : i < N
        /\ Sends(h2) = Sends(h) /\ Recvs(h2) = Recvs(h) \cup {N}
        /\ N \in Mine(h2, b)
    <3>1. h2 = Append(h, e)
      BY <2>1 DEF h2
    <3>2. /\ h2 \in Seq(Events) /\ Extends(h, h2) /\ h2[N] = e /\ N \notin 1 .. Len(h)
          /\ N <= Len(h2) /\ \A i \in 1 .. Len(h) : i < N
          /\ e.op = "recv" => Sends(h2) = Sends(h) /\ Recvs(h2) = Recvs(h) \cup {N}
          /\ N \in Mine(h2, e.branch)
      <4>1. Adds(h, e, h2, N)
        BY <2>3, <2>4, <3>1 DEF Adds
      <4> QED BY <4>1, Recorded
    <3> QED BY <2>4, <3>2
  <2> HIDE DEF N
  <2>6. /\ \A i \in 1 .. Len(h) : h2[i] = h[i]
        /\ Sends(h) \subseteq 1 .. Len(h) /\ Recvs(h) \subseteq 1 .. Len(h)
        /\ \A x, d : Sent(h, x, d) => Sent(h2, x, d)
    BY <2>5, HappenedIs DEF Sends, Recvs
  <2>7. /\ timeline' \in [Branches -> Lines]
        /\ \A d \in Branches : /\ timeline'[d].anchors = timeline[d].anchors
                               /\ timeline'[d].depth = timeline[d].depth
                               /\ d # b => timeline'[d] = timeline[d]
        /\ timeline'[b].arena = timeline[b].arena \cup {m.id}
        /\ \A stack, id : Remembered(timeline', stack, id)
                            => Remembered(timeline, stack, id) \/ id = m.id
    BY <1>5, <2>2, <2>3, HoldIs DEF m
  <2>8. /\ Numbered(h, n) /\ Posted(h, channels, pending)
        /\ Untouched(h, channels, pending, timeline, speculation_stack)
        /\ Known(n, timeline, speculation_stack) /\ Addressed(h, channels)
        /\ Accounted(h, u, channels, pending, gone)
    BY <1>1 DEF Sound
  <2>9. Sent(h, m, c)
    BY <2>2, <2>8 DEF Posted
  <2>10. m.id < n
    BY <2>8, <2>9 DEF Sent, Numbered
  <2>11. Typed'
    <3>1. \A d \in Branches : Past(h2, u, timeline'[d])
      <4> TAKE d \in Branches
      <4>1. Past(h, u, timeline[d]) /\ timeline[d] \in Lines
        BY <1>1, <2>3 DEF Typed
      <4>2. Past(h2, u, timeline[d])
        BY <2>5, <4>1, PastStep
      <4> QED BY <2>7, <4>2 DEF Past
    <3>2. \A k \in 1 .. Len(speculation_stack) : Past(h2, u, speculation_stack[k].start)
      <4> TAKE k \in 1 .. Len(speculation_stack)
      <4>1. speculation_stack[k] \in Contexts
        BY <1>1, SMT DEF Typed
      <4>2. speculation_stack[k].start \in Lines /\ Past(h, u, speculation_stack[k].start)
        BY <1>1, <4>1 DEF Typed, Contexts
      <4> QED BY <2>5, <4>2, PastStep
    <3>3. u \subseteq 1 .. Len(h2)
      BY <2>3, <2>5, SMT DEF Extends
    <3> QED BY <1>1, <2>1, <2>2, <2>5, <2>7, <3>1, <3>2, <3>3 DEF Typed, h2
  <2>12. Isolated(h2, ticks, channels', pending')
    BY <1>1, <2>2, <2>4, <2>5, <2>6 DEF Isolated
  <2>13. Numbered(h2, n)
    <3>1. /\ \A i \in Sends(h2) : h2[i].msg.id < n
          /\ \A i, j \in Sends(h2) : h2[i].msg.id = h2[j].msg.id => i = j
      BY <2>5, <2>6, <2>8 DEF Numbered
    <3>2. ASSUME NEW i \in Recvs(h)
          PROVE  \E j \in Sends(h2) : j < i /\ h2[j].chan = h2[i].chan /\ h2[j].msg = h2[i].msg
      BY <2>5, <2>6, <2>8 DEF Numbered
    <3>3. \E j \in Sends(h2) : j < N /\ h2[j].chan = h2[N].chan /\ h2[j].msg = h2[N].msg
      BY <2>4, <2>5, <2>6, <2>9 DEF Sent
    <3> QED BY <2>5, <3>1, <3>2, <3>3 DEF Numbered
  <2>14. /\ \A d \in Chans : Mail(channels', pending', d) \subseteq Mail(channels, pending, d)
         /\ \A id : Carried(channels', pending', id) => Carried(channels, pending, id)
         /\ \A id : Carried(channels, pending, id) => Carried(channels', pending', id) \/ id \in {m.id}
         /\ Posted(h, channels', pending')
         /\ Distinct(h, u, channels, pending) => Distinct(h, u, channels', pending')
         /\ Untouched(h, channels', pending', timeline, speculation_stack)
    BY <2>2, <2>8, ShrinkStep
  <2>15. Posted(h2, channels', pending')
    BY <2>6, <2>14 DEF Posted
  <2>16. \A id : Taken(h2, id) <=> Taken(h, id) \/ id = m.id
    BY <2>4, <2>5, <2>6 DEF Taken
  <2>17. Untouched(h2, channels', pending', timeline', speculation_stack)
    BY <2>7, <2>14, <2>16 DEF Untouched
  <2>18. Known(n, timeline', speculation_stack)
    BY <2>7, <2>8, <2>10 DEF Known
  <2>19. /\ Standing(h2, u) = Standing(h, u) \cup {N} /\ Standing(h, u) \subseteq 1 .. Len(h)
         /\ \A id : Receipt(h2, u, id) <=> Receipt(h, u, id) \/ id = m.id
    <3>1. N \notin u
      BY <2>3, <2>5
    <3>2. Standing(h2, u) = Standing(h, u) \cup {N} /\ Standing(h, u) \subseteq 1 .. Len(h)
      BY <2>5, <2>6, <3>1 DEF Standing
    <3> QED BY <2>4, <2>5, <2>6, <3>2 DEF Receipt
  <2>20. Accounted(h2, u, channels', pending', gone)
    <3> SUFFICES ASSUME NEW i \in Sends(h), ~Receipt(h2, u, h[i].msg.id), h[i].msg.id \notin gone
                 PROVE  Carried(channels', pending', h[i].msg.id)
      BY <2>5, <2>6 DEF Accounted
    <3>1. ~Receipt(h, u, h[i].msg.id) /\ h[i].msg.id # m.id
      BY <2>19
    <3>2. Carried(channels, pending, h[i].msg.id)
      BY <2>8, <3>1 DEF Accounted
    <3> QED BY <2>14, <3>1, <3>2
  <2>21. Sound'
    <3>1. Addressed(h2, channels')
      <4>1. DOMAIN channels' = DOMAIN channels /\ c \in DOMAIN channels
        BY <1>1, <1>5, <2>2, <2>1, PopFlow, MailType
      <4>2. \A i \in 1 .. Len(h2) : i \in 1 .. Len(h) \/ i = N
        BY <2>1, <2>3, SMT DEF h2, N
      <4> QED BY <2>4, <2>5, <2>6, <2>8, <4>1, <4>2 DEF Addressed
    <3> QED BY <3>1, <2>1, <2>13, <2>15, <2>17, <2>18, <2>20 DEF Sound, h2
  <2>22. ASSUME Exact PROVE Exact'
    <3>1. /\ Distinct(h, u, channels, pending) /\ LinesSafe(h, u, channels, pending, timeline)
          /\ StackSafe(h, u, channels, pending, timeline, speculation_stack, running)
          /\ Stacked(timeline, speculation_stack, running, block)
      BY <2>22 DEF Exact
    <3>2. m \notin Mail(channels', pending', c)
      BY <2>2, <3>1 DEF Distinct
    <3>3. ~Carried(channels', pending', m.id) /\ ~Receipt(h, u, m.id)
      BY <2>2, <2>8, <3>1, <3>2, TakenAway, NoReceipt
    <3>4. Distinct(h2, u, channels', pending')
      <4>1. \A d \in Chans : m \notin Mail(channels', pending', d)
        BY <3>3 DEF Carried
      <4>2. \A i \in Standing(h, u) : h[i].msg.id # m.id
        BY <3>3 DEF Receipt
      <4>3. \A i \in Standing(h2, u) : \A d \in Chans : h2[i].msg \notin Mail(channels', pending', d)
        BY <2>4, <2>5, <2>6, <2>14, <2>19, <3>1, <4>1 DEF Distinct
      <4>4. \A i, j \in Standing(h2, u) : h2[i].msg.id = h2[j].msg.id => i = j
        BY <2>4, <2>5, <2>6, <2>19, <3>1, <4>2 DEF Distinct
      <4> QED BY <2>14, <3>1, <4>3, <4>4 DEF Distinct
    <3>5. \A id : Spared(h, u, channels, pending, h2, u, channels', pending', id)
      <4> SUFFICES ASSUME NEW id, ~Carried(channels, pending, id), ~Receipt(h, u, id)
                   PROVE  ~Carried(channels', pending', id) /\ ~Receipt(h2, u, id)
        BY DEF Spared
      <4>1. id # m.id
        BY <2>2 DEF Carried
      <4> QED BY <2>14, <2>19, <4>1
    <3>6. Standing(h, u) \subseteq Standing(h2, u) /\ u \subseteq u
      BY <2>19
    <3>7. /\ LinesSafe(h2, u, channels', pending', timeline)
          /\ StackSafe(h2, u, channels', pending', timeline, speculation_stack, running)
      BY <2>3, <2>5, <3>1, <3>5, <3>6, LinesStep
    <3>8. Safe(h2, u, channels', pending', b, m.id, Len(h2))
      BY <2>4, <2>5, <2>19 DEF Safe
    <3>9. LinesSafe(h2, u, channels', pending', timeline')
      <4> SUFFICES ASSUME NEW d \in Branches
                   PROVE  LineSafe(h2, u, channels', pending', d, timeline'[d])
        BY DEF LinesSafe
      <4>1. LineSafe(h2, u, channels', pending', d, timeline[d])
        BY <3>7 DEF LinesSafe
      <4>2. CASE d # b
        BY <2>7, <4>1, <4>2
      <4>3. CASE d = b
        <5>1. \A id \in timeline'[b].arena :
                id \in timeline[b].arena \/ Safe(h2, u, channels', pending', b, id, Len(h2))
          BY <2>7, <3>8
        <5>2. timeline'[b].anchors = timeline[b].anchors
          BY <2>7
        <5> QED BY <4>1, <4>3, <5>1, <5>2, LineHolds
      <4> QED BY <4>2, <4>3
    <3>10. /\ StackSafe(h2, u, channels', pending', timeline', speculation_stack, running)
           /\ Stacked(timeline', speculation_stack, running, block)
      BY <2>3, <2>7, <3>1, <3>7, SameDepths
    <3> QED BY <2>1, <3>4, <3>9, <3>10 DEF Exact, h2
  <2> QED BY <1>1, <2>1, <2>11, <2>12, <2>21, <2>22 DEF ChannelsInv, h2
<1> QED BY <1>2, <1>4, <1>5 DEF ChanRecv

(* select                                                                  *)
LEMMA SelectKeeps ==
  ASSUME ChannelsInv, fault = "none", NEW b \in Branches, NEW cases, Select(b, cases)
  PROVE  ChannelsInv'
<1> DEFINE h == causal_history
           u == undone
           n == next_payload_id
           c == cases[SelectInSeq(cases, LAMBDA d : ~Empty(d))]
           m == Head(channels[c].buffer)
<1>1. Typed /\ Sound /\ (orderly => Exact) /\ Boxed(channels, pending)
      /\ Isolated(h, ticks, channels, pending)
  BY DEF ChannelsInv, Typed
<1>2. /\ SelectInSeq(cases, LAMBDA d : ~Empty(d)) # 0
      /\ Pop(c) /\ UNCHANGED <<pending, next_payload_id, causal_history>>
      /\ \/ /\ Hold(b, m) /\ gone' = gone \cup {m.id}
            /\ UNCHANGED <<Speculation, Control, fault, ticks, undone, orderly>>
         \/ Fails("MemoryFault")
  BY DEF Select
<1>3. ~Empty(c)
  BY <1>2, ReadyIs
<1> HIDE DEF c
<1>4. /\ Flows(channels, pending, channels', pending', c, {}, {m.id})
      /\ c \in Chans /\ m \in Mails(channels[c]) \cap Messages /\ m \in Mail(channels, pending, c)
      /\ Lone(channels, pending, c, m) => m \notin Mail(channels', pending', c)
      /\ DOMAIN channels' = DOMAIN channels
      /\ \A d \in DOMAIN channels' : Mails(channels'[d]) \subseteq Mails(channels[d])
  BY <1>1, <1>2, <1>3, PopFlow
<1> HIDE DEF m
<1>5. Boxed(channels', pending') /\ m.id \in 1 .. MaxSend
  BY <1>1, <1>4, MailType DEF Flows
<1>6. Isolated(h, ticks, channels', pending')
  BY <1>1, <1>2, <1>4 DEF Isolated, Ripened, Unripe
<1>7. CASE Fails("MemoryFault")
  <2>1. /\ UNCHANGED <<timeline, speculation_stack, speculative_commit_mode, running, block,
                       ticks, gone, undone>> /\ fault' # "none"
    BY <1>7 DEF Fails, Speculation, Control, Ghosts
  <2>2. Typed'
    BY <1>1, <1>2, <1>5, <2>1 DEF Typed
  <2> QED BY <1>2, <1>6, <2>1, <2>2 DEF ChannelsInv
<1>8. CASE /\ Hold(b, m) /\ gone' = gone \cup {m.id}
           /\ UNCHANGED <<Speculation, Control, fault, ticks, undone, orderly>>
  <2>1. UNCHANGED <<causal_history, next_payload_id, speculation_stack, speculative_commit_mode,
                    running, block, fault, ticks, undone, orderly>>
    BY <1>2, <1>8 DEF Speculation, Control
  <2>2. u \subseteq 1 .. Len(h) /\ timeline \in [Branches -> Lines] /\ running \in Branches
    BY <1>1 DEF Typed
  <2>3. /\ timeline' \in [Branches -> Lines]
        /\ \A d \in Branches : /\ timeline'[d].anchors = timeline[d].anchors
                               /\ timeline'[d].depth = timeline[d].depth
                               /\ d # b => timeline'[d] = timeline[d]
        /\ timeline'[b].arena = timeline[b].arena \cup {m.id}
        /\ \A stack, id : Remembered(timeline', stack, id)
                            => Remembered(timeline, stack, id) \/ id = m.id
    BY <1>5, <1>8, <2>2, HoldIs
  <2>4. /\ Numbered(h, n) /\ Posted(h, channels, pending)
        /\ Untouched(h, channels, pending, timeline, speculation_stack)
        /\ Known(n, timeline, speculation_stack) /\ Addressed(h, channels)
        /\ Accounted(h, u, channels, pending, gone)
    BY <1>1 DEF Sound
  <2>5. m.id < n
    BY <1>4, <2>4 DEF Sent, Numbered, Posted
  <2>6. Typed'
    <3>1. \A d \in Branches : Past(h, u, timeline'[d])
      BY <1>1, <2>3 DEF Typed, Past
    <3>2. gone' \subseteq 1 .. MaxSend
      BY <1>1, <1>5, <1>8 DEF Typed
    <3> QED BY <1>1, <1>5, <2>1, <2>3, <3>1, <3>2 DEF Typed
  <2>7. /\ \A id : Spared(h, u, channels, pending, h, u, channels', pending', id)
        /\ Posted(h, channels', pending')
        /\ Distinct(h, u, channels, pending) => Distinct(h, u, channels', pending')
        /\ Untouched(h, channels', pending', timeline, speculation_stack)
        /\ Accounted(h, u, channels', pending', gone \cup {m.id})
    BY <1>4, <2>4, ShrinkStep
  <2>8. Untouched(h, channels', pending', timeline', speculation_stack)
    <3> SUFFICES ASSUME NEW d \in Chans, NEW x \in Mail(channels', pending', d), ~Taken(h, x.id)
                 PROVE  Lone(channels', pending', d, x)
                        /\ ~Remembered(timeline', speculation_stack, x.id)
      BY DEF Untouched
    <3>1. Lone(channels', pending', d, x) /\ ~Remembered(timeline, speculation_stack, x.id)
      BY <2>7 DEF Untouched
    <3>2. ASSUME x.id = m.id PROVE FALSE
      <4>1. Lone(channels, pending, c, m)
        BY <1>4, <2>4, <3>2 DEF Untouched
      <4>2. ~Carried(channels', pending', m.id)
        BY <1>4, <2>4, <4>1, TakenAway
      <4> QED BY <3>2, <4>2 DEF Carried
    <3> QED BY <2>3, <3>1, <3>2
  <2>9. Known(n, timeline', speculation_stack)
    BY <2>3, <2>4, <2>5 DEF Known
  <2>10. Sound'
    <3>1. Addressed(h, channels')
      BY <1>4, <2>4 DEF Addressed
    <3> QED BY <3>1, <1>8, <2>1, <2>4, <2>7, <2>8, <2>9 DEF Sound
  <2>11. ASSUME Exact PROVE Exact'
    <3>1. /\ Distinct(h, u, channels, pending) /\ LinesSafe(h, u, channels, pending, timeline)
          /\ StackSafe(h, u, channels, pending, timeline, speculation_stack, running)
          /\ Stacked(timeline, speculation_stack, running, block)
      BY <2>11 DEF Exact
    <3>2. m \notin Mail(channels', pending', c)
      BY <1>4, <3>1 DEF Distinct
    <3>3. ~Carried(channels', pending', m.id) /\ ~Receipt(h, u, m.id)
      BY <1>4, <2>4, <3>1, <3>2, TakenAway, NoReceipt
    <3>4. Extends(h, h) /\ u \subseteq u /\ Standing(h, u) \subseteq Standing(h, u)
      BY <1>1, SMT DEF Extends, Typed
    <3>5. /\ LinesSafe(h, u, channels', pending', timeline)
          /\ StackSafe(h, u, channels', pending', timeline, speculation_stack, running)
      BY <2>2, <2>7, <3>1, <3>4, LinesStep
    <3>6. LinesSafe(h, u, channels', pending', timeline')
      <4> SUFFICES ASSUME NEW d \in Branches
                   PROVE  LineSafe(h, u, channels', pending', d, timeline'[d])
        BY DEF LinesSafe
      <4>1. LineSafe(h, u, channels', pending', d, timeline[d])
        BY <3>5 DEF LinesSafe
      <4>2. CASE d # b
        BY <2>3, <4>1, <4>2
      <4>3. CASE d = b
        <5>1. \A id \in timeline'[b].arena :
                id \in timeline[b].arena \/ Safe(h, u, channels', pending', b, id, Len(h))
          BY <2>3, <3>3 DEF Safe
        <5>2. timeline'[b].anchors = timeline[b].anchors
          BY <2>3
        <5> QED BY <4>1, <4>3, <5>1, <5>2, LineHolds
      <4> QED BY <4>2, <4>3
    <3>7. /\ StackSafe(h, u, channels', pending', timeline', speculation_stack, running)
          /\ Stacked(timeline', speculation_stack, running, block)
      BY <2>2, <2>3, <3>1, <3>5, SameDepths
    <3> QED BY <2>1, <2>7, <3>1, <3>6, <3>7 DEF Exact
  <2> QED BY <1>1, <1>2, <1>6, <2>1, <2>6, <2>10, <2>11 DEF ChannelsInv
<1> QED BY <1>2, <1>7, <1>8

(* A message that is nowhere in a channel is in one place at most.         *)
LEMMA AbsentLone ==
  ASSUME NEW chs, NEW pnd, NEW c, NEW m, m \notin Mail(chs, pnd, c)
  PROVE  Lone(chs, pnd, c, m)
BY DEF Lone, LoneAt, Mail, Mails, Elems, Single

(* chan_send                                                               *)
LEMMA SendKeeps ==
  ASSUME ChannelsInv, fault = "none", NEW b \in Branches, NEW c \in Chans, ChanSend(b, c)
  PROVE  ChannelsInv'
<1> DEFINE h == causal_history
           u == undone
           n == next_payload_id
           iso == timeline[b].slice
           m == [id |-> n, sender |-> b, iso |-> iso, born |-> ticks]
           out == Push(IF iso THEN pending[c] ELSE channels[c], m)
           e == [op |-> "send", branch |-> b, chan |-> c, msg |-> m]
           N == Len(h) + 1
           h2 == causal_history'
           sent == IdsOf(out.evicted)
<1>1. Typed /\ Sound /\ (orderly => Exact) /\ Boxed(channels, pending)
      /\ Isolated(h, ticks, channels, pending)
  BY DEF ChannelsInv, Typed
<1>2. n \in 1 .. MaxSend /\ n' = n + 1 /\ n' \in 1 .. MaxSend + 1 /\ n \in Nat
  <2>1. n <= MaxSend /\ n' = n + 1
    BY DEF ChanSend
  <2> QED BY <1>1, <2>1, ChannelAssumption, SMT DEF Typed
<1>3. CASE Fails("ChannelFault") /\ UNCHANGED <<channels, pending, causal_history>>
  BY <1>2, <1>3, FailKeeps DEF Fails, Speculation, Control, Ghosts
<1>4. CASE /\ c \in Opened
           /\ pending' = IF iso THEN [pending EXCEPT ![c] = out.box] ELSE pending
           /\ channels' = IF iso THEN channels ELSE [channels EXCEPT ![c] = out.box]
           /\ gone' = gone \cup IdsOf(out.evicted)
           /\ Record("send", b, c, m)
           /\ UNCHANGED <<timeline, Speculation, Control, fault, ticks, undone, orderly>>
  <2>1. /\ UNCHANGED <<timeline, speculation_stack, speculative_commit_mode, running, block,
                       fault, ticks, undone, orderly>>
        /\ gone' = gone \cup sent /\ h2 = Append(h, e)
    BY <1>4 DEF Speculation, Control, Record
  <2>2. /\ h \in Seq(Events) /\ u \subseteq 1 .. Len(h) /\ timeline \in [Branches -> Lines]
        /\ running \in Branches /\ ticks \in [Branches -> 0 .. MaxTicks]
    BY <1>1 DEF Typed
  <2>3. iso \in BOOLEAN /\ m \in Messages
    <3>1. iso \in BOOLEAN
      BY <2>2 DEF Lines
    <3> QED BY <1>2, <2>2, <3>1 DEF Messages
  <2>4. m.id = n /\ m.iso = iso /\ m.born = ticks
    OBVIOUS
  <2>5. e \in Events /\ e.op = "send" /\ e.branch = b /\ e.chan = c /\ e.msg = m
    BY <2>3 DEF Events
  <2> HIDE DEF iso, m
  <2>6. /\ Flows(channels, pending, channels', pending', c, {m}, sent)
        /\ DOMAIN channels' = DOMAIN channels
        /\ \A d \in DOMAIN channels :
             /\ \A x \in Mails(channels'[d]) : x \in Mails(channels[d]) \/ (~iso /\ x = m)
             /\ \A x \in Mails(pending'[d]) : x \in Mails(pending[d]) \/ (iso /\ x = m)
        /\ out.evicted \subseteq Mail(channels, pending, c)
    BY <1>1, <1>4, <2>3, SendFlow
  <2> HIDE DEF e, out
  <2>7. /\ h2 \in Seq(Events) /\ Extends(h, h2) /\ h2[N] = e /\ N \notin 1 .. Len(h)
        /\ N <= Len(h2) /\ (\A i \in 1 .. Len(h) : i < N)
        /\ Sends(h2) = Sends(h) \cup {N} /\ Recvs(h2) = Recvs(h)
    <3>1. Adds(h, e, h2, N)
      BY <2>1, <2>2, <2>5 DEF Adds
    <3> QED BY <2>5, <3>1, Recorded
  <2> HIDE DEF N, h2
  <2>8. /\ \A i \in 1 .. Len(h) : h2[i] = h[i]
        /\ Sends(h) \subseteq 1 .. Len(h) /\ Recvs(h) \subseteq 1 .. Len(h)
        /\ \A x, d : Sent(h, x, d) => Sent(h2, x, d)
    BY <2>7, HappenedIs DEF Sends, Recvs
  <2>9. /\ Numbered(h, n) /\ Posted(h, channels, pending)
        /\ Untouched(h, channels, pending, timeline, speculation_stack)
        /\ Known(n, timeline, speculation_stack) /\ Addressed(h, channels)
        /\ Accounted(h, u, channels, pending, gone)
    BY <1>1 DEF Sound
  <2>10. Boxed(channels', pending')
    BY <2>6 DEF Flows
  <2>11. Typed'
    <3>1. \A d \in Branches : Past(h2, u, timeline[d])
      <4> TAKE d \in Branches
      <4>1. Past(h, u, timeline[d]) /\ timeline[d] \in Lines
        BY <1>1, <2>2 DEF Typed
      <4> QED BY <2>7, <4>1, PastStep
    <3>2. \A k \in 1 .. Len(speculation_stack) : Past(h2, u, speculation_stack[k].start)
      <4> TAKE k \in 1 .. Len(speculation_stack)
      <4>1. speculation_stack[k] \in Contexts
        BY <1>1, SMT DEF Typed
      <4>2. speculation_stack[k].start \in Lines /\ Past(h, u, speculation_stack[k].start)
        BY <1>1, <4>1 DEF Typed, Contexts
      <4> QED BY <2>7, <4>2, PastStep
    <3>3. u \subseteq 1 .. Len(h2)
      BY <2>2, <2>7, SMT DEF Extends
    <3>4. gone' \subseteq 1 .. MaxSend
      <4>1. sent \subseteq 1 .. MaxSend
        BY <1>1, <2>6, MailType DEF IdsOf
      <4> QED BY <1>1, <2>1, <4>1 DEF Typed
    <3> QED BY <1>1, <1>2, <2>1, <2>7, <2>10, <3>1, <3>2, <3>3, <3>4 DEF Typed, h2
  <2>12. Isolated(h2, ticks, channels', pending')
    <3>1. Ripened(ticks, channels')
      BY <1>1, <2>4, <2>6 DEF Isolated, Ripened, Ripe
    <3>2. Unripe(ticks, pending')
      <4>1. DOMAIN pending' = DOMAIN channels /\ DOMAIN pending = DOMAIN channels
        BY <1>1, <2>6, <2>10 DEF Boxed
      <4>2. \A d \in Branches : m.born[d] <= ticks[d]
        <5>1. \A d \in Branches : ticks[d] \in 0 .. MaxTicks
          BY <2>2
        <5> QED BY <2>4, <5>1, ChannelAssumption, SMT
      <4> QED BY <1>1, <2>6, <4>1, <4>2 DEF Isolated, Unripe
    <3> QED BY <1>1, <2>7, <2>8, <3>1, <3>2 DEF Isolated
  <2>13. Numbered(h2, n')
    <3>1. \A i \in Sends(h) : h[i].msg.id < n /\ h[i].msg.id \in Nat
      <4>1. \A i \in Sends(h) : h[i].msg.id \in 1 .. MaxSend
        BY <2>2, <2>8, EventIs
      <4> QED BY <2>9, <4>1, SMT DEF Numbered
    <3>2. \A i \in Sends(h2) : h2[i].msg.id < n'
      <4>1. \A k \in Nat : k < n => k < n'
        BY <1>2, SMT
      <4>2. n < n'
        BY <1>2, SMT
      <4> QED BY <2>4, <2>5, <2>7, <2>8, <3>1, <4>1, <4>2
    <3>3. \A i \in Sends(h) : h[i].msg.id # n
      BY <1>2, <3>1, SMT
    <3>4. \A i, j \in Sends(h2) : h2[i].msg.id = h2[j].msg.id => i = j
      BY <2>4, <2>5, <2>7, <2>8, <2>9, <3>3 DEF Numbered
    <3>5. \A i \in Recvs(h2) :
            \E j \in Sends(h2) : j < i /\ h2[j].chan = h2[i].chan /\ h2[j].msg = h2[i].msg
      BY <2>7, <2>8, <2>9 DEF Numbered
    <3> QED BY <3>2, <3>4, <3>5 DEF Numbered
  <2>14. \A d \in Chans : \A x \in Mail(channels, pending, d) : x.id # n
    <3>1. \A i \in Sends(h) : h[i].msg.id # n
      BY <1>2, <2>2, <2>8, <2>9, EventIs, SMT DEF Numbered
    <3> QED BY <2>9, <3>1 DEF Posted, Sent
  <2>15. \A d \in Chans : \A x \in Mail(channels', pending', d) :
           x \in Mail(channels, pending, d) \/ (d = c /\ x = m)
    BY <2>6 DEF Flows
  <2>16. Sent(h2, m, c)
    BY <2>5, <2>7 DEF Sent
  <2>17. Posted(h2, channels', pending')
    BY <2>8, <2>9, <2>15, <2>16 DEF Posted
  <2>18. \A d \in Chans : \A x \in Mail(channels', pending', d) :
           Lone(channels, pending, d, x) => Lone(channels', pending', d, x)
    BY <2>4, <2>6, <2>14 DEF Flows
  <2>19. Lone(channels, pending, c, m)
    BY <2>4, <2>14, AbsentLone
  <2>20. \A id : Remembered(timeline, speculation_stack, id) => id # n
    BY <1>2, <2>9, SMT DEF Known
  <2>21. \A id : Taken(h2, id) <=> Taken(h, id)
    BY <2>7, <2>8 DEF Taken
  <2>22. Untouched(h2, channels', pending', timeline, speculation_stack)
    BY <2>4, <2>9, <2>15, <2>18, <2>19, <2>20, <2>21 DEF Untouched
  <2>23. Known(n', timeline, speculation_stack)
    <3>1. \A id : Remembered(timeline, speculation_stack, id) => id \in 1 .. MaxSend
      <4>1. \A tl \in Lines : \A id : Recalls(tl, id) => id \in 1 .. MaxSend
        <5>1. \A tl \in Lines : tl.arena \in Arenas /\ tl.anchors \in AnchorMaps
          BY DEF Lines
        <5>2. \A f \in AnchorMaps : \A a \in DOMAIN f : f[a].arena \in Arenas
          BY DEF AnchorMaps, Snapshots
        <5> QED BY <5>1, <5>2 DEF Recalls, Arenas
      <4>2. \A k \in 1 .. Len(speculation_stack) : speculation_stack[k].start \in Lines
        <5>1. \A k \in 1 .. Len(speculation_stack) : speculation_stack[k] \in Contexts
          BY <1>1, SMT DEF Typed
        <5> QED BY <5>1 DEF Contexts
      <4> QED BY <2>2, <4>1, <4>2 DEF Remembered
    <3>2. \A id \in 1 .. MaxSend : id < n => id < n'
      BY <1>2, SMT
    <3> QED BY <2>9, <3>1, <3>2 DEF Known
  <2>24. /\ Standing(h2, u) = Standing(h, u) /\ Standing(h, u) \subseteq 1 .. Len(h)
         /\ \A id : Receipt(h2, u, id) <=> Receipt(h, u, id)
    <3>1. Standing(h2, u) = Standing(h, u) /\ Standing(h, u) \subseteq 1 .. Len(h)
      BY <2>7, <2>8 DEF Standing
    <3> QED BY <2>8, <3>1 DEF Receipt
  <2>25. /\ \A id : Carried(channels, pending, id) => Carried(channels', pending', id) \/ id \in sent
         /\ Carried(channels', pending', n) \/ n \in sent
         /\ \A id : Carried(channels', pending', id) => Carried(channels, pending, id) \/ id = n
    <3>1. /\ \A d \in Chans : \A x \in Mail(channels, pending, d) :
               x \in Mail(channels', pending', d) \/ x.id \in sent
          /\ m \in Mail(channels', pending', c) \/ m.id \in sent
      BY <2>6 DEF Flows
    <3> QED BY <2>4, <2>15, <3>1 DEF Carried
  <2>26. Accounted(h2, u, channels', pending', gone')
    BY <2>1, <2>4, <2>5, <2>7, <2>8, <2>9, <2>24, <2>25 DEF Accounted
  <2>27. Sound'
    <3>1. Addressed(h2, channels')
      <4>1. c \in DOMAIN channels
        BY <1>4 DEF Opened
      <4>2. \A i \in 1 .. Len(h2) : i \in 1 .. Len(h) \/ i = N
        BY <2>1, <2>2, SMT DEF h2, N
      <4> QED BY <2>5, <2>6, <2>7, <2>8, <2>9, <4>1, <4>2 DEF Addressed
    <3> QED BY <3>1, <2>1, <2>13, <2>17, <2>22, <2>23, <2>26 DEF Sound, h2
  <2>28. ASSUME Exact PROVE Exact'
    <3>1. /\ Distinct(h, u, channels, pending) /\ LinesSafe(h, u, channels, pending, timeline)
          /\ StackSafe(h, u, channels, pending, timeline, speculation_stack, running)
          /\ Stacked(timeline, speculation_stack, running, block)
      BY <2>28 DEF Exact
    <3>2. \A i \in Standing(h, u) : h[i].msg.id # n
      <4>1. \A i \in Recvs(h) : \E j \in Sends(h) : h[j].msg = h[i].msg
        BY <2>9 DEF Numbered
      <4>2. \A j \in Sends(h) : h[j].msg.id # n
        BY <1>2, <2>2, <2>8, <2>9, EventIs, SMT DEF Numbered
      <4>3. \A i \in Recvs(h) : h[i].msg.id # n
        BY <4>1, <4>2
      <4> QED BY <4>3 DEF Standing
    <3>3. Distinct(h2, u, channels', pending')
      <4>1. \A d \in Chans : \A x \in Mail(channels', pending', d) : Lone(channels', pending', d, x)
        BY <2>15, <2>18, <2>19, <3>1 DEF Distinct
      <4>2. \A i \in Standing(h2, u) : h2[i] = h[i] /\ i \in Standing(h, u)
        BY <2>8, <2>24
      <4>3. \A i \in Standing(h2, u) : \A d \in Chans : h2[i].msg \notin Mail(channels', pending', d)
        BY <2>4, <2>15, <3>1, <3>2, <4>2 DEF Distinct
      <4>4. \A i, j \in Standing(h2, u) : h2[i].msg.id = h2[j].msg.id => i = j
        BY <3>1, <4>2 DEF Distinct
      <4> QED BY <4>1, <4>3, <4>4 DEF Distinct
    <3>4. \A id : Remembered(timeline, speculation_stack, id)
                    => Spared(h, u, channels, pending, h2, u, channels', pending', id)
      BY <2>20, <2>24, <2>25 DEF Spared
    <3>5. Standing(h, u) \subseteq Standing(h2, u) /\ u \subseteq u
      BY <2>24
    <3>6. /\ LinesSafe(h2, u, channels', pending', timeline)
          /\ StackSafe(h2, u, channels', pending', timeline, speculation_stack, running)
      BY <2>2, <2>7, <3>1, <3>4, <3>5, LinesStep
    <3> QED BY <2>1, <3>1, <3>3, <3>6 DEF Exact, h2
  <2> QED BY <1>1, <2>1, <2>11, <2>12, <2>27, <2>28 DEF ChannelsInv, h2
<1> QED BY <1>3, <1>4 DEF ChanSend

-----------------------------------------------------------------------------
(* Blocks, anchors and speculation: no mail moves, nothing is recorded     *)

(* A timeline of which nothing is recalled that was not.                   *)
LEMMA LineIs ==
  ASSUME NEW tl \in Lines
  PROVE  /\ tl.arena \in Arenas /\ tl.anchors \in AnchorMaps /\ tl.depth \in 0 .. MaxSpec
         /\ tl.depth \in Nat /\ tl.slice \in BOOLEAN
         /\ [tl EXCEPT !.slice = TRUE] \in Lines
         /\ [tl EXCEPT !.slice = TRUE].arena = tl.arena
         /\ [tl EXCEPT !.slice = TRUE].anchors = tl.anchors
         /\ [tl EXCEPT !.slice = TRUE].depth = tl.depth
         /\ \A d \in 0 .. MaxSpec : /\ [tl EXCEPT !.depth = d] \in Lines
                                    /\ [tl EXCEPT !.depth = d].arena = tl.arena
                                    /\ [tl EXCEPT !.depth = d].anchors = tl.anchors
                                    /\ [tl EXCEPT !.depth = d].depth = d
<1>1. tl.depth \in 0 .. MaxSpec /\ tl.arena \in Arenas /\ tl.anchors \in AnchorMaps /\ tl.slice \in BOOLEAN
  BY DEF Lines
<1>2. tl.depth \in Nat
  BY <1>1, SMT
<1>3. /\ [tl EXCEPT !.slice = TRUE] \in Lines
      /\ [tl EXCEPT !.slice = TRUE].arena = tl.arena
      /\ [tl EXCEPT !.slice = TRUE].anchors = tl.anchors
      /\ [tl EXCEPT !.slice = TRUE].depth = tl.depth
  BY DEF Lines
<1>4. ASSUME NEW d \in 0 .. MaxSpec
      PROVE  /\ [tl EXCEPT !.depth = d] \in Lines
             /\ [tl EXCEPT !.depth = d].arena = tl.arena
             /\ [tl EXCEPT !.depth = d].anchors = tl.anchors
             /\ [tl EXCEPT !.depth = d].depth = d
  BY DEF Lines
<1> QED BY <1>1, <1>2, <1>3, <1>4

(* Putting another line in a timeline's place.                             *)
LEMMA PutIs ==
  ASSUME timeline \in [Branches -> Lines], NEW b \in Branches, NEW tl \in Lines,
         timeline' = [timeline EXCEPT ![b] = tl]
  PROVE  /\ timeline' \in [Branches -> Lines] /\ timeline'[b] = tl
         /\ \A d \in Branches : d # b => timeline'[d] = timeline[d]
OBVIOUS

(* A line with the registers and anchors of another.                       *)
Like(tl, tl2) == tl2.arena = tl.arena /\ tl2.anchors = tl.anchors

(* It recalls the same, is as safe and of the same past.                   *)
LEMMA LikeIs ==
  ASSUME NEW tl, NEW tl2, Like(tl, tl2)
  PROVE  /\ \A id : Recalls(tl2, id) <=> Recalls(tl, id)
         /\ \A h, u : Past(h, u, tl) => Past(h, u, tl2)
         /\ \A h, u, chs, pnd, b : LineSafe(h, u, chs, pnd, b, tl) => LineSafe(h, u, chs, pnd, b, tl2)
<1>1. \A id : Recalls(tl2, id) <=> Recalls(tl, id)
  BY DEF Like, Recalls
<1>2. \A h, u : Past(h, u, tl) => Past(h, u, tl2)
  BY DEF Like, Past
<1>3. \A h, u, chs, pnd, b : LineSafe(h, u, chs, pnd, b, tl) => LineSafe(h, u, chs, pnd, b, tl2)
  BY DEF Like, LineSafe
<1> QED BY <1>1, <1>2, <1>3

(* What such a handler has to show.                                        *)
LEMMA ControlKeeps ==
  ASSUME ChannelsInv, fault = "none",
         UNCHANGED <<channels, pending, next_payload_id, causal_history, fault, ticks,
                     gone, undone, orderly>>,
         timeline' \in [Branches -> Lines],
         \A b \in Branches : Past(causal_history, undone, timeline'[b]),
         speculation_stack' \in Seq(Contexts),
         \A k \in 1 .. Len(speculation_stack') :
            Past(causal_history, undone, speculation_stack'[k].start),
         speculative_commit_mode' \in Modes, running' \in Branches, block' \in 0 .. MaxBlocks,
         \A id : Remembered(timeline', speculation_stack', id)
                   => Remembered(timeline, speculation_stack, id),
         Exact => /\ LinesSafe(causal_history, undone, channels, pending, timeline')
                  /\ StackSafe(causal_history, undone, channels, pending, timeline',
                               speculation_stack', running')
                  /\ Stacked(timeline', speculation_stack', running', block')
  PROVE  ChannelsInv'
<1>1. Typed'
  BY DEF ChannelsInv, Typed
<1>2. Isolated(causal_history, ticks, channels, pending)'
  BY DEF ChannelsInv
<1>3. Untouched(causal_history, channels, pending, timeline', speculation_stack')
  BY DEF ChannelsInv, Sound, Untouched
<1>4. Known(next_payload_id, timeline', speculation_stack')
  BY DEF ChannelsInv, Sound, Known
<1>5. Sound'
  BY <1>3, <1>4 DEF ChannelsInv, Sound
<1>6. Exact => Exact'
  BY DEF Exact
<1> QED BY <1>1, <1>2, <1>5, <1>6 DEF ChannelsInv

(* What the invariant says of the stack.                                   *)
LEMMA StackIs ==
  ASSUME Typed
  PROVE  /\ speculation_stack \in Seq(Contexts) /\ Len(speculation_stack) \in Nat
         /\ \A k \in 1 .. Len(speculation_stack) :
              /\ speculation_stack[k] \in Contexts
              /\ speculation_stack[k].start \in Lines
              /\ speculation_stack[k].block \in 0 .. MaxBlocks
              /\ Past(causal_history, undone, speculation_stack[k].start)
         /\ timeline \in [Branches -> Lines] /\ running \in Branches /\ Main \in Branches
         /\ \A b \in Branches : /\ timeline[b] \in Lines /\ timeline[b].depth \in Nat
                                /\ Past(causal_history, undone, timeline[b])
         /\ speculative_commit_mode \in Modes /\ block \in 0 .. MaxBlocks
<1>1. speculation_stack \in Seq(Contexts) /\ Len(speculation_stack) \in Nat
      /\ \A k \in 1 .. Len(speculation_stack) : speculation_stack[k] \in Contexts
  BY SMT DEF Typed
<1>2. \A x \in Contexts : x.start \in Lines /\ x.block \in 0 .. MaxBlocks
  BY DEF Contexts
<1>3. \A b \in Branches : timeline[b] \in Lines
  BY DEF Typed
<1>4. \A b \in Branches : timeline[b].depth \in Nat
  BY <1>3, LineIs
<1> QED BY <1>1, <1>2, <1>3, <1>4 DEF Typed, Branches

(* A timeline of which only the slice is set anew.                         *)
LEMMA SliceKeeps ==
  ASSUME ChannelsInv, fault = "none", NEW b \in Branches, Slice(b)
  PROVE  ChannelsInv'
<1> DEFINE tl == [timeline[b] EXCEPT !.slice = TRUE]
<1>1. Typed
  BY DEF ChannelsInv
<1>2. timeline \in [Branches -> Lines] /\ timeline[b] \in Lines
  BY <1>1, StackIs
<1>3. tl \in Lines /\ tl.arena = timeline[b].arena /\ tl.anchors = timeline[b].anchors
      /\ tl.depth = timeline[b].depth
  BY <1>2, LineIs
<1>4. timeline' = [timeline EXCEPT ![b] = tl]
  BY DEF Slice
<1>5. /\ UNCHANGED <<channels, pending, next_payload_id, causal_history, fault, ticks,
                     gone, undone, orderly>>
      /\ UNCHANGED <<speculation_stack, speculative_commit_mode, running, block>>
  BY DEF Slice, ChannelState, Speculation, Control, Ghosts
<1>6. Like(timeline[b], tl)
  BY <1>3 DEF Like
<1> HIDE DEF tl
<1>7. /\ timeline' \in [Branches -> Lines] /\ timeline'[b] = tl
      /\ \A d \in Branches : d # b => timeline'[d] = timeline[d]
  BY <1>2, <1>3, <1>4, PutIs
<1>8. \A d \in Branches : Past(causal_history, undone, timeline'[d])
  BY <1>1, <1>6, <1>7, LikeIs, StackIs
<1>9. \A id : Remembered(timeline', speculation_stack, id) => Remembered(timeline, speculation_stack, id)
  BY <1>6, <1>7, LikeIs DEF Remembered
<1>10. ASSUME Exact
       PROVE  /\ LinesSafe(causal_history, undone, channels, pending, timeline')
              /\ StackSafe(causal_history, undone, channels, pending, timeline',
                           speculation_stack, running)
              /\ Stacked(timeline', speculation_stack, running, block)
  <2>1. LinesSafe(causal_history, undone, channels, pending, timeline')
    BY <1>6, <1>7, <1>10, LikeIs DEF Exact, LinesSafe
  <2>2. \A d \in Branches : timeline'[d].depth = timeline[d].depth
    BY <1>3, <1>7
  <2>3. running \in Branches
    BY <1>1, StackIs
  <2> QED BY <1>10, <2>1, <2>2, <2>3, SameDepths DEF Exact
<1> QED BY <1>1, <1>5, <1>7, <1>8, <1>9, <1>10, ControlKeeps, StackIs

(* Main hands control to w.                                                *)
LEMMA EnterKeeps ==
  ASSUME ChannelsInv, fault = "none", NEW w \in Others, EnterBlock(w)
  PROVE  ChannelsInv'
<1>1. Typed /\ w \in Branches /\ w # Main
  BY ChannelAssumption DEF ChannelsInv, Branches
<1>2. /\ UNCHANGED <<channels, pending, next_payload_id, causal_history, fault, ticks,
                     gone, undone, orderly>>
      /\ UNCHANGED <<timeline, speculation_stack, speculative_commit_mode>>
      /\ running = Main /\ running' = w /\ block' = block + 1 /\ block < MaxBlocks
  BY DEF EnterBlock, ChannelState, Speculation, Ghosts
<1>3. block' \in 0 .. MaxBlocks
  BY <1>1, <1>2, ChannelAssumption, SMT DEF Typed
<1>4. ASSUME Exact
      PROVE  /\ StackSafe(causal_history, undone, channels, pending, timeline, speculation_stack, w)
             /\ Stacked(timeline, speculation_stack, w, block')
  <2>1. /\ Len(speculation_stack) = timeline[Main].depth + 0
        /\ \A d \in Branches \ {Main} : timeline[d].depth = 0
        /\ \A k \in 1 .. Len(speculation_stack) :
             /\ LineSafe(causal_history, undone, channels, pending,
                         Owner(timeline, Main, k), speculation_stack[k].start)
             /\ speculation_stack[k].start.depth = k - 1 - Below(timeline, k)
    BY <1>2, <1>4 DEF Exact, Stacked, StackSafe
  <2>2. timeline[Main].depth \in Nat /\ timeline[w].depth = 0
    BY <1>1, <2>1, StackIs
  <2>3. Len(speculation_stack) = timeline[Main].depth
    BY <2>1, <2>2, SMT
  <2>4. \A k \in 1 .. Len(speculation_stack) : k <= timeline[Main].depth
    BY <2>2, <2>3, SMT
  <2>5. \A k \in 1 .. Len(speculation_stack) :
           Owner(timeline, w, k) = Main /\ Owner(timeline, Main, k) = Main
    BY <2>4 DEF Owner
  <2> QED BY <1>1, <2>1, <2>2, <2>5 DEF StackSafe, Stacked
<1>5. LinesSafe(causal_history, undone, channels, pending, timeline) \/ ~Exact
  BY DEF Exact
<1> QED BY <1>1, <1>2, <1>3, <1>4, <1>5, ControlKeeps, StackIs

(* The end of a block hands control back.                                  *)
LEMMA LeaveKeeps ==
  ASSUME ChannelsInv, fault = "none", NEW w \in Others, LeaveBlock(w)
  PROVE  ChannelsInv'
<1>1. Typed /\ w \in Branches /\ w # Main /\ Main \in Branches
  BY ChannelAssumption DEF ChannelsInv, Branches
<1>2. /\ UNCHANGED <<channels, pending, next_payload_id, causal_history, fault, ticks,
                     gone, undone, orderly>>
      /\ UNCHANGED <<timeline, speculation_stack, speculative_commit_mode, block>>
      /\ running = w /\ running' = Main /\ timeline[w].depth = 0
  BY DEF LeaveBlock, ChannelState, Speculation, Ghosts
<1>3. ASSUME Exact
      PROVE  /\ StackSafe(causal_history, undone, channels, pending, timeline, speculation_stack, Main)
             /\ Stacked(timeline, speculation_stack, Main, block)
  <2>1. /\ Len(speculation_stack) = timeline[Main].depth + 0
        /\ \A d \in Branches \ {Main, w} : timeline[d].depth = 0
        /\ \A k \in 1 .. Len(speculation_stack) :
             /\ LineSafe(causal_history, undone, channels, pending,
                         Owner(timeline, w, k), speculation_stack[k].start)
             /\ speculation_stack[k].start.depth = k - 1 - Below(timeline, k)
    BY <1>1, <1>2, <1>3 DEF Exact, Stacked, StackSafe
  <2>2. timeline[Main].depth \in Nat
    BY <1>1, StackIs
  <2>3. Len(speculation_stack) = timeline[Main].depth
    BY <2>1, <2>2, SMT
  <2>4. \A k \in 1 .. Len(speculation_stack) : k <= timeline[Main].depth
    BY <2>2, <2>3, SMT
  <2>5. \A k \in 1 .. Len(speculation_stack) :
           Owner(timeline, w, k) = Main /\ Owner(timeline, Main, k) = Main
    BY <2>4 DEF Owner
  <2> QED BY <1>2, <2>1, <2>5 DEF StackSafe, Stacked
<1>4. LinesSafe(causal_history, undone, channels, pending, timeline) \/ ~Exact
  BY DEF Exact
<1> QED BY <1>1, <1>2, <1>3, <1>4, ControlKeeps, StackIs

(* The stack grows by a context of the timeline that runs, or loses it.    *)
Deepens(tls, tls2, b) ==
  /\ tls[Main].depth \in Nat /\ tls[b].depth \in Nat /\ tls2[b].depth = tls[b].depth + 1
  /\ \A d \in Branches : d # b => tls2[d].depth = tls[d].depth
Rises(tls, tls2, b) ==
  /\ tls[Main].depth \in Nat /\ tls[b].depth \in Nat /\ tls[b].depth > 0
  /\ tls2[b].depth = tls[b].depth - 1
  /\ \A d \in Branches : d # b => tls2[d].depth = tls[d].depth
Grows(stack, stack2, depth, blk) ==
  /\ Len(stack) \in Nat /\ Len(stack2) = Len(stack) + 1
  /\ \A k \in 1 .. Len(stack) : stack2[k] = stack[k]
  /\ stack2[Len(stack) + 1].start.depth = depth /\ stack2[Len(stack) + 1].block = blk
Shortens(stack, stack2) ==
  /\ Len(stack) \in Nat /\ Len(stack2) = Len(stack) - 1
  /\ \A k \in 1 .. Len(stack2) : stack2[k] = stack[k] /\ k \in 1 .. Len(stack)

(* A push of the running timeline's context.                               *)
LEMMA PushedOn ==
  ASSUME NEW tls, NEW stack, NEW b \in Branches, NEW blk, Stacked(tls, stack, b, blk),
         NEW tls2, NEW stack2, Deepens(tls, tls2, b), Grows(stack, stack2, tls[b].depth, blk)
  PROVE  /\ Stacked(tls2, stack2, b, blk)
         /\ \A k \in 1 .. Len(stack) : Owner(tls2, b, k) = Owner(tls, b, k)
         /\ Owner(tls2, b, Len(stack) + 1) = b
<1> USE DEF Deepens, Grows
<1> DEFINE L == Len(stack)
           n == L + 1
           dM == tls[Main].depth
           d == tls[b].depth
<1>1. Main \in Branches
  BY DEF Branches
<1>2. \A k \in 1 .. Len(stack2) : k = n \/ k \in 1 .. L
  BY SMT
<1>3. /\ L = dM + (IF b = Main THEN 0 ELSE d)
      /\ \A x \in Branches \ {Main, b} : tls[x].depth = 0
      /\ \A k \in 1 .. L : /\ stack[k].start.depth = k - 1 - Below(tls, k)
                           /\ Owner(tls, b, k) # Main => stack[k].block = blk
  BY DEF Stacked
<1>4. CASE b = Main
  <2>1. tls2[Main].depth = dM + 1 /\ L = dM /\ n <= tls2[Main].depth /\ n = tls2[Main].depth + 0
        /\ d = n - 1 - 0
    BY <1>3, <1>4, SMT
  <2>2. \A k \in 1 .. L : k <= dM /\ k <= tls2[Main].depth
    BY <2>1, SMT
  <2>3. /\ \A k \in 1 .. L : /\ Owner(tls2, b, k) = Main /\ Owner(tls, b, k) = Main
                             /\ Below(tls2, k) = 0 /\ Below(tls, k) = 0
        /\ Owner(tls2, b, n) = Main /\ Below(tls2, n) = 0
    BY <2>1, <2>2 DEF Owner, Below
  <2>4. \A k \in 1 .. n : /\ stack2[k].start.depth = k - 1 - Below(tls2, k)
                          /\ Owner(tls2, b, k) # Main => stack2[k].block = blk
    <3>1. \A k \in 1 .. L : stack2[k].start.depth = k - 1 - Below(tls2, k)
      BY <1>3, <2>3
    <3>2. stack2[n].start.depth = n - 1 - Below(tls2, n)
      BY <2>1, <2>3
    <3> QED BY <1>2, <2>3, <3>1, <3>2
  <2>5. \A x \in Branches \ {Main, b} : tls2[x].depth = 0
    BY <1>3
  <2> QED BY <1>4, <2>1, <2>3, <2>4, <2>5 DEF Stacked
<1>5. CASE b # Main
  <2>1. tls2[Main].depth = dM /\ L = dM + d /\ ~(n <= dM) /\ n = dM + (d + 1)
        /\ d = n - 1 - dM
    BY <1>1, <1>3, <1>5, SMT
  <2>2. /\ \A k : Owner(tls2, b, k) = Owner(tls, b, k) /\ Below(tls2, k) = Below(tls, k)
        /\ Owner(tls2, b, n) = b /\ Below(tls2, n) = dM
    BY <2>1 DEF Owner, Below
  <2>3. \A k \in 1 .. n : /\ stack2[k].start.depth = k - 1 - Below(tls2, k)
                          /\ Owner(tls2, b, k) # Main => stack2[k].block = blk
    <3>1. \A k \in 1 .. L : stack2[k].start.depth = k - 1 - Below(tls2, k)
      BY <1>3, <2>2
    <3>2. stack2[n].start.depth = n - 1 - Below(tls2, n)
      BY <2>1, <2>2
    <3> QED BY <1>2, <1>3, <2>2, <3>1, <3>2
  <2>4. \A x \in Branches \ {Main, b} : tls2[x].depth = 0
    BY <1>3
  <2> QED BY <1>5, <2>1, <2>2, <2>3, <2>4 DEF Stacked
<1> QED BY <1>4, <1>5

(* The context on top is of the timeline that runs.                        *)
LEMMA TopIs ==
  ASSUME NEW tls, NEW stack, NEW b \in Branches, NEW blk, Stacked(tls, stack, b, blk),
         Len(stack) \in Nat, tls[Main].depth \in Nat, tls[b].depth \in Nat, tls[b].depth > 0
  PROVE  /\ Owner(tls, b, Len(stack)) = b
         /\ stack[Len(stack)].start.depth = tls[b].depth - 1
         /\ b # Main => stack[Len(stack)].block = blk
<1> DEFINE L == Len(stack)
           dM == tls[Main].depth
           d == tls[b].depth
<1>1. /\ L = dM + (IF b = Main THEN 0 ELSE d)
      /\ \A k \in 1 .. L : /\ stack[k].start.depth = k - 1 - Below(tls, k)
                           /\ Owner(tls, b, k) # Main => stack[k].block = blk
  BY DEF Stacked
<1>2. L \in 1 .. L
  BY <1>1, SMT
<1>3. CASE b = Main
  <2>1. L <= dM /\ L - 1 - 0 = d - 1
    BY <1>1, <1>3, SMT
  <2>2. Owner(tls, b, L) = b /\ Below(tls, L) = 0
    BY <1>3, <2>1 DEF Owner, Below
  <2> QED BY <1>1, <1>2, <1>3, <2>1, <2>2
<1>4. CASE b # Main
  <2>1. ~(L <= dM) /\ L - 1 - dM = d - 1
    BY <1>1, <1>4, SMT
  <2>2. Owner(tls, b, L) = b /\ Below(tls, L) = dM
    BY <2>1 DEF Owner, Below
  <2> QED BY <1>1, <1>2, <1>4, <2>1, <2>2
<1> QED BY <1>3, <1>4

(* A pop of the running timeline's context.                                *)
LEMMA PoppedOff ==
  ASSUME NEW tls, NEW stack, NEW b \in Branches, NEW blk, Stacked(tls, stack, b, blk),
         NEW tls2, NEW stack2, Rises(tls, tls2, b), Shortens(stack, stack2)
  PROVE  /\ Stacked(tls2, stack2, b, blk)
         /\ \A k \in 1 .. Len(stack2) : Owner(tls2, b, k) = Owner(tls, b, k)
<1> USE DEF Rises, Shortens
<1> DEFINE L == Len(stack)
           L2 == Len(stack2)
           dM == tls[Main].depth
           d == tls[b].depth
<1>1. Main \in Branches
  BY DEF Branches
<1>2. /\ L = dM + (IF b = Main THEN 0 ELSE d)
      /\ \A x \in Branches \ {Main, b} : tls[x].depth = 0
      /\ \A k \in 1 .. L : /\ stack[k].start.depth = k - 1 - Below(tls, k)
                           /\ Owner(tls, b, k) # Main => stack[k].block = blk
  BY DEF Stacked
<1>3. CASE b = Main
  <2>1. tls2[Main].depth = dM - 1 /\ L2 = dM - 1 /\ L2 = tls2[Main].depth + 0
    BY <1>2, <1>3, SMT
  <2>2. \A k \in 1 .. L2 : k <= dM /\ k <= tls2[Main].depth
    BY <2>1, SMT
  <2>3. \A k \in 1 .. L2 : /\ Owner(tls2, b, k) = Main /\ Owner(tls, b, k) = Main
                           /\ Below(tls2, k) = 0 /\ Below(tls, k) = 0
    BY <1>3, <2>2 DEF Owner, Below
  <2>4. \A k \in 1 .. L2 : /\ stack2[k].start.depth = k - 1 - Below(tls2, k)
                           /\ Owner(tls2, b, k) # Main => stack2[k].block = blk
    BY <1>2, <2>3
  <2>5. \A x \in Branches \ {Main, b} : tls2[x].depth = 0
    BY <1>2
  <2> QED BY <1>3, <2>1, <2>3, <2>4, <2>5 DEF Stacked
<1>4. CASE b # Main
  <2>1. tls2[Main].depth = dM /\ L2 = dM + (d - 1)
    BY <1>1, <1>2, <1>4, SMT
  <2>2. \A k : Owner(tls2, b, k) = Owner(tls, b, k) /\ Below(tls2, k) = Below(tls, k)
    BY <2>1 DEF Owner, Below
  <2>3. \A k \in 1 .. L2 : /\ stack2[k].start.depth = k - 1 - Below(tls2, k)
                           /\ Owner(tls2, b, k) # Main => stack2[k].block = blk
    BY <1>2, <2>2
  <2>4. \A x \in Branches \ {Main, b} : tls2[x].depth = 0
    BY <1>2
  <2> QED BY <1>4, <2>1, <2>2, <2>3, <2>4 DEF Stacked
<1> QED BY <1>3, <1>4

(* Setting an anchor.                                                      *)
LEMMA BindIs ==
  ASSUME NEW f \in AnchorMaps, NEW a \in AnchorNames, NEW v \in Snapshots
  PROVE  /\ Bind(f, a, v) \in AnchorMaps
         /\ \A x \in DOMAIN Bind(f, a, v) : \/ x = a /\ Bind(f, a, v)[x] = v
                                            \/ x \in DOMAIN f /\ Bind(f, a, v)[x] = f[x]
<1> DEFINE g == Bind(f, a, v)
           D == DOMAIN f \cup {a}
<1>1. PICK A \in SUBSET AnchorNames : f \in [A -> Snapshots]
  BY DEF AnchorMaps
<1>2. D \subseteq AnchorNames
  BY <1>1
<1>3. g = [x \in D |-> IF x = a THEN v ELSE f[x]]
  BY DEF Bind
<1>4. \A x \in D : x = a \/ (x \in DOMAIN f /\ f[x] \in Snapshots)
  BY <1>1
<1>5. g \in [D -> Snapshots]
  BY <1>3, <1>4
<1>6. \A x \in D : (x = a /\ g[x] = v) \/ (x \in DOMAIN f /\ g[x] = f[x])
  BY <1>3, <1>4
<1> QED BY <1>2, <1>5, <1>6 DEF AnchorMaps

(* anchor: it recalls what the timeline has, as safe as there              *)
LEMMA AnchorKeeps ==
  ASSUME ChannelsInv, fault = "none", NEW b \in Branches, NEW a \in AnchorNames, Anchor(b, a)
  PROVE  ChannelsInv'
<1> DEFINE h == causal_history
           old == timeline[b]
           snapshot == [history_index |-> Len(h), arena |-> old.arena,
                        depth |-> old.depth, block |-> block, undone |-> undone]
           new == Bind(old.anchors, a, snapshot)
           tl == [old EXCEPT !.anchors = new]
<1>1. Typed
  BY DEF ChannelsInv
<1>2. /\ timeline \in [Branches -> Lines] /\ old \in Lines /\ running \in Branches
      /\ Past(h, undone, old) /\ block \in 0 .. MaxBlocks
  BY <1>1, StackIs
<1>3. old.arena \in Arenas /\ old.anchors \in AnchorMaps /\ old.depth \in 0 .. MaxSpec
  BY <1>2, LineIs
<1>4. snapshot \in Snapshots
  <2>1. Len(h) \in Nat /\ undone \subseteq Nat
    BY <1>1, SMT DEF Typed
  <2> QED BY <1>2, <1>3, <2>1 DEF Snapshots
<1>5. /\ snapshot.history_index = Len(h) /\ snapshot.arena = old.arena
      /\ snapshot.undone = undone
  OBVIOUS
<1> HIDE DEF snapshot
<1>6. /\ new \in AnchorMaps
      /\ \A x \in DOMAIN new : \/ x = a /\ new[x] = snapshot
                               \/ x \in DOMAIN old.anchors /\ new[x] = old.anchors[x]
  BY <1>3, <1>4, BindIs
<1>7. timeline' = [timeline EXCEPT ![b] = tl]
  BY DEF Anchor, snapshot
<1> HIDE DEF new
<1>8. /\ UNCHANGED <<channels, pending, next_payload_id, causal_history, fault, ticks,
                     gone, undone, orderly>>
      /\ UNCHANGED <<speculation_stack, speculative_commit_mode, running, block>>
  BY DEF Anchor, ChannelState, Speculation, Control, Ghosts
<1>9. tl \in Lines /\ tl.anchors = new /\ tl.arena = old.arena /\ tl.depth = old.depth
  BY <1>2, <1>6 DEF Lines
<1> HIDE DEF tl, old
<1>10. /\ timeline' \in [Branches -> Lines] /\ timeline'[b] = tl
       /\ \A d \in Branches : d # b => timeline'[d] = timeline[d]
  BY <1>2, <1>7, <1>9, PutIs
<1>11. \A d \in Branches : Past(h, undone, timeline'[d])
  <2>1. Past(h, undone, tl)
    <3>1. Len(h) <= Len(h) /\ undone \subseteq undone
      BY <1>1, SMT DEF Typed
    <3> QED BY <1>2, <1>5, <1>6, <1>9, <3>1 DEF Past
  <2> QED BY <1>1, <1>10, <2>1, StackIs
<1>12. \A id : Remembered(timeline', speculation_stack, id) => Remembered(timeline, speculation_stack, id)
  <2>1. \A id : Recalls(tl, id) => Recalls(old, id)
    BY <1>5, <1>6, <1>9 DEF Recalls
  <2> QED BY <1>10, <2>1 DEF Remembered, old
<1>13. ASSUME Exact
       PROVE  /\ LinesSafe(h, undone, channels, pending, timeline')
              /\ StackSafe(h, undone, channels, pending, timeline', speculation_stack, running)
              /\ Stacked(timeline', speculation_stack, running, block)
  <2>1. LineSafe(h, undone, channels, pending, b, tl)
    <3>1. LineSafe(h, undone, channels, pending, b, old)
      BY <1>13 DEF Exact, LinesSafe, old
    <3> QED BY <1>5, <1>6, <1>9, <3>1 DEF LineSafe
  <2>2. LinesSafe(h, undone, channels, pending, timeline')
    BY <1>10, <1>13, <2>1 DEF Exact, LinesSafe
  <2>3. \A d \in Branches : timeline'[d].depth = timeline[d].depth
    BY <1>9, <1>10 DEF old
  <2> QED BY <1>2, <1>13, <2>2, <2>3, SameDepths DEF Exact
<1> QED BY <1>1, <1>8, <1>10, <1>11, <1>12, <1>13, ControlKeeps, StackIs

(* commit marks the context on top, no more                                *)
LEMMA CommitKeeps ==
  ASSUME ChannelsInv, fault = "none", NEW b \in Branches, Commit(b)
  PROVE  ChannelsInv'
<1> DEFINE L == Len(speculation_stack)
           x == speculation_stack[L]
           y == [x EXCEPT !.commit_executed = TRUE]
           stack2 == speculation_stack'
<1>1. Typed
  BY DEF ChannelsInv
<1>2. /\ UNCHANGED <<channels, pending, next_payload_id, causal_history, fault, ticks,
                     gone, undone, orderly>>
      /\ UNCHANGED <<timeline, speculative_commit_mode, running, block>>
      /\ speculation_stack # <<>> /\ stack2 = [speculation_stack EXCEPT ![L] = y]
  BY DEF Commit, ChannelState, Control, Ghosts
<1>3. /\ speculation_stack \in Seq(Contexts)
      /\ \A k \in 1 .. L : /\ speculation_stack[k] \in Contexts
                           /\ Past(causal_history, undone, speculation_stack[k].start)
      /\ running \in Branches
  BY <1>1, StackIs
<1>4. L \in 1 .. L /\ DOMAIN speculation_stack = 1 .. L /\ L \in Nat
  BY <1>2, <1>3, SMT
<1>5. y \in Contexts /\ y.start = x.start /\ y.block = x.block
  BY <1>3, <1>4 DEF Contexts
<1> HIDE DEF y
<1>6. stack2 \in Seq(Contexts) /\ Len(stack2) = L
  BY <1>2, <1>3, <1>4, <1>5, SMT
<1>7. \A k \in 1 .. L : /\ stack2[k].start = speculation_stack[k].start
                        /\ stack2[k].block = speculation_stack[k].block
  BY <1>2, <1>4, <1>5
<1> HIDE DEF L, stack2
<1>8. \A id : Remembered(timeline, stack2, id) => Remembered(timeline, speculation_stack, id)
  BY <1>6, <1>7 DEF Remembered, L
<1>9. ASSUME Exact
      PROVE  /\ LinesSafe(causal_history, undone, channels, pending, timeline)
             /\ StackSafe(causal_history, undone, channels, pending, timeline, stack2, running)
             /\ Stacked(timeline, stack2, running, block)
  <2>1. Stacked(timeline, stack2, running, block)
    BY <1>6, <1>7, <1>9 DEF Exact, Stacked, L
  <2>2. StackSafe(causal_history, undone, channels, pending, timeline, stack2, running)
    BY <1>6, <1>7, <1>9 DEF Exact, StackSafe, L
  <2> QED BY <1>9, <2>1, <2>2 DEF Exact
<1>10. \A k \in 1 .. Len(stack2) : Past(causal_history, undone, stack2[k].start)
  BY <1>3, <1>6, <1>7
<1> QED BY <1>1, <1>2, <1>6, <1>8, <1>9, <1>10, ControlKeeps, StackIs DEF stack2

(* speculation_mode                                                        *)
LEMMA ModeKeeps ==
  ASSUME ChannelsInv, fault = "none", NEW b \in Branches, NEW mode \in Modes,
         SpeculationMode(b, mode)
  PROVE  ChannelsInv'
<1>1. Typed
  BY DEF ChannelsInv
<1>2. /\ UNCHANGED <<channels, pending, next_payload_id, causal_history, fault, ticks,
                     gone, undone, orderly>>
      /\ UNCHANGED <<timeline, speculation_stack, running, block>>
      /\ speculative_commit_mode' \in Modes
  BY DEF SpeculationMode, ChannelState, Control, Ghosts
<1>3. Exact => /\ LinesSafe(causal_history, undone, channels, pending, timeline)
               /\ StackSafe(causal_history, undone, channels, pending, timeline,
                            speculation_stack, running)
               /\ Stacked(timeline, speculation_stack, running, block)
  BY DEF Exact
<1> QED BY <1>1, <1>2, <1>3, ControlKeeps, StackIs

(* speculate: the context has the timeline as it is                        *)
LEMMA SpeculateKeeps ==
  ASSUME ChannelsInv, fault = "none", NEW b \in Branches, b = running, Speculate(b)
  PROVE  ChannelsInv'
<1> DEFINE h == causal_history
           L == Len(speculation_stack)
           old == timeline[b]
           x == [start |-> old, block |-> block, commit_executed |-> FALSE,
                 history_start_index |-> Len(h)]
           tl == [old EXCEPT !.depth = old.depth + 1]
           stack2 == speculation_stack'
<1>1. Typed
  BY DEF ChannelsInv
<1>2. /\ timeline \in [Branches -> Lines] /\ old \in Lines /\ Past(h, undone, old)
      /\ block \in 0 .. MaxBlocks /\ speculation_stack \in Seq(Contexts)
      /\ \A k \in 1 .. L : Past(h, undone, speculation_stack[k].start)
      /\ \A d \in Branches : timeline[d].depth \in Nat
      /\ Main \in Branches
  BY <1>1, StackIs
<1>3. /\ UNCHANGED <<channels, pending, next_payload_id, causal_history, fault, ticks,
                     gone, undone, orderly>>
      /\ UNCHANGED <<speculative_commit_mode, running, block>>
      /\ old.depth < MaxSpec /\ stack2 = Append(speculation_stack, x)
      /\ timeline' = [timeline EXCEPT ![b] = tl]
  BY DEF Speculate, ChannelState, Control, Ghosts
<1>4. old.depth + 1 \in 0 .. MaxSpec
  BY <1>2, <1>3, ChannelAssumption, SMT
<1>5. /\ tl \in Lines /\ tl.arena = old.arena /\ tl.anchors = old.anchors
      /\ tl.depth = old.depth + 1
  <2> DEFINE d == old.depth + 1
  <2>1. d \in 0 .. MaxSpec
    BY <1>4
  <2> HIDE DEF d
  <2>2. [old EXCEPT !.depth = d] \in Lines /\ [old EXCEPT !.depth = d].arena = old.arena
        /\ [old EXCEPT !.depth = d].anchors = old.anchors /\ [old EXCEPT !.depth = d].depth = d
    BY <1>2, <2>1, LineIs
  <2> QED BY <2>2 DEF d
<1>6. Like(old, tl)
  BY <1>5 DEF Like
<1>7. x \in Contexts /\ x.start = old /\ x.block = block
  <2>1. Len(h) \in Nat
    BY <1>1, SMT DEF Typed
  <2> QED BY <1>2, <2>1 DEF Contexts
<1> HIDE DEF x, tl
<1>8. /\ stack2 \in Seq(Contexts) /\ Len(stack2) = L + 1 /\ L \in Nat /\ stack2[L + 1] = x
      /\ \A k \in 1 .. L : stack2[k] = speculation_stack[k]
      /\ \A k \in 1 .. Len(stack2) : k \in 1 .. L \/ k = L + 1
  BY <1>2, <1>3, <1>7, SMT
<1> HIDE DEF stack2, L, old
<1>9. /\ timeline' \in [Branches -> Lines] /\ timeline'[b] = tl
      /\ \A d \in Branches : d # b => timeline'[d] = timeline[d]
  BY <1>2, <1>3, <1>5, PutIs
<1>10. \A d \in Branches : Past(h, undone, timeline'[d])
  BY <1>1, <1>2, <1>6, <1>9, LikeIs, StackIs
<1>11. \A k \in 1 .. Len(stack2) : Past(h, undone, stack2[k].start)
  BY <1>2, <1>7, <1>8
<1>12. \A id : Remembered(timeline', stack2, id) => Remembered(timeline, speculation_stack, id)
  <2>1. \A id : Recalls(tl, id) => Recalls(timeline[b], id)
    BY <1>6, LikeIs DEF old
  <2>2. \A d \in Branches : \A id : Recalls(timeline'[d], id) => Recalls(timeline[d], id)
    BY <1>9, <2>1
  <2>3. \A k \in 1 .. Len(stack2) : \A id : Recalls(stack2[k].start, id)
           => Recalls(timeline[b], id) \/ (k \in 1 .. L /\ Recalls(speculation_stack[k].start, id))
    BY <1>7, <1>8 DEF old
  <2> QED BY <2>2, <2>3 DEF Remembered, L
<1>13. ASSUME Exact
       PROVE  /\ LinesSafe(h, undone, channels, pending, timeline')
              /\ StackSafe(h, undone, channels, pending, timeline', stack2, b)
              /\ Stacked(timeline', stack2, b, block)
  <2>1. LinesSafe(h, undone, channels, pending, timeline) /\ LineSafe(h, undone, channels, pending, b, old)
    BY <1>13 DEF Exact, LinesSafe, old
  <2>2. LinesSafe(h, undone, channels, pending, timeline')
    BY <1>6, <1>9, <2>1, LikeIs DEF LinesSafe
  <2>3. /\ Stacked(timeline', stack2, b, block)
        /\ \A k \in 1 .. L : Owner(timeline', b, k) = Owner(timeline, b, k)
        /\ Owner(timeline', b, L + 1) = b
    <3>1. Stacked(timeline, speculation_stack, b, block)
      BY <1>13 DEF Exact
    <3>2. timeline'[b].depth = timeline[b].depth + 1
      BY <1>5, <1>9 DEF old
    <3>3. \A d \in Branches : d # b => timeline'[d].depth = timeline[d].depth
      BY <1>9
    <3>4. stack2[L + 1].start.depth = timeline[b].depth /\ stack2[L + 1].block = block
      BY <1>7, <1>8 DEF old
    <3>5. Deepens(timeline, timeline', b)
      BY <1>2, <3>2, <3>3 DEF Deepens
    <3>6. Grows(speculation_stack, stack2, timeline[b].depth, block)
      BY <1>8, <3>4 DEF Grows, L
    <3> QED BY <3>1, <3>5, <3>6, PushedOn DEF L
  <2>4. StackSafe(h, undone, channels, pending, timeline', stack2, b)
    <3>1. \A k \in 1 .. L : LineSafe(h, undone, channels, pending, Owner(timeline, b, k),
                                     speculation_stack[k].start)
      BY <1>13 DEF Exact, StackSafe, L
    <3> QED BY <1>7, <1>8, <2>1, <2>3, <3>1 DEF StackSafe
  <2> QED BY <2>2, <2>3, <2>4
<1> QED BY <1>1, <1>3, <1>8, <1>9, <1>10, <1>11, <1>12, <1>13, ControlKeeps, StackIs DEF stack2

(* Taking the context on top off the stack, with the timeline as it is or  *)
(* as it was at the start of the block.                                    *)
Pops(b, tl) ==
  /\ speculation_stack # <<>> /\ PopContext
  /\ tl \in Lines /\ timeline' = [timeline EXCEPT ![b] = tl]
  /\ Like(timeline[b], tl) \/ Like(Last(speculation_stack).start, tl)
  /\ UNCHANGED <<channels, pending, next_payload_id, causal_history, fault, ticks,
                 gone, undone, orderly, speculative_commit_mode, block>>

(* The stack without its top.                                              *)
LEMMA FrontIs ==
  ASSUME NEW s \in Seq(Contexts), s # <<>>
  PROVE  /\ Front(s) \in Seq(Contexts) /\ Shortens(s, Front(s))
         /\ Last(s) = s[Len(s)] /\ Len(s) \in 1 .. Len(s)
<1> DEFINE z == Len(s) - 1
           t == SubSeq(s, 1, z)
<1>1. Front(s) = t /\ Last(s) = s[Len(s)]
  BY DEF Front, Last
<1>2. Len(s) \in Nat /\ Len(s) \in 1 .. Len(s) /\ z \in 0 .. Len(s) /\ z = Len(s) - 1
  BY SMT
<1> HIDE DEF z
<1>3. /\ t \in Seq(Contexts) /\ Len(t) = z
      /\ \A k \in 1 .. Len(t) : t[k] = s[k]
  BY <1>2, SMT
<1> HIDE DEF t
<1>4. \A k \in 1 .. Len(t) : k \in 1 .. Len(s)
  BY <1>2, <1>3, SMT
<1> QED BY <1>1, <1>2, <1>3, <1>4 DEF Shortens

(* A pop of the context on top keeps the invariant.                        *)
LEMMA PopKeeps ==
  ASSUME ChannelsInv, fault = "none", NEW b \in Branches, b = running, timeline[b].depth > 0,
         NEW tl, Pops(b, tl), running' \in Branches,
         Exact => tl.depth = timeline[b].depth - 1 /\ running' = running
  PROVE  ChannelsInv'
<1> DEFINE h == causal_history
           stack == speculation_stack
           stack2 == speculation_stack'
           top == stack[Len(stack)].start
<1>1. Typed
  BY DEF ChannelsInv
<1>2. /\ timeline \in [Branches -> Lines] /\ timeline[b] \in Lines
      /\ stack \in Seq(Contexts)
      /\ \A k \in 1 .. Len(stack) : Past(h, undone, stack[k].start)
      /\ \A d \in Branches : timeline[d].depth \in Nat /\ Past(h, undone, timeline[d])
      /\ Main \in Branches /\ speculative_commit_mode \in Modes /\ block \in 0 .. MaxBlocks
  BY <1>1, StackIs
<1>3. /\ UNCHANGED <<channels, pending, next_payload_id, causal_history, fault, ticks,
                     gone, undone, orderly>>
      /\ UNCHANGED <<speculative_commit_mode, block>>
      /\ stack # <<>> /\ stack2 = Front(stack)
      /\ tl \in Lines /\ timeline' = [timeline EXCEPT ![b] = tl]
      /\ Like(timeline[b], tl) \/ Like(Last(stack).start, tl)
  BY DEF Pops, PopContext
<1>4. /\ stack2 \in Seq(Contexts) /\ Shortens(stack, stack2)
      /\ Last(stack) = stack[Len(stack)] /\ Len(stack) \in 1 .. Len(stack)
  BY <1>2, <1>3, FrontIs
<1>5. \A k \in 1 .. Len(stack2) : stack2[k] = stack[k] /\ k \in 1 .. Len(stack)
  BY <1>4 DEF Shortens
<1>6. /\ timeline' \in [Branches -> Lines] /\ timeline'[b] = tl
      /\ \A d \in Branches : d # b => timeline'[d] = timeline[d]
  BY <1>2, <1>3, PutIs
<1> HIDE DEF stack2, stack
<1>7. Like(timeline[b], tl) \/ Like(top, tl)
  BY <1>3, <1>4
<1>8. \A d \in Branches : Past(h, undone, timeline'[d])
  <2>1. Past(h, undone, timeline[b]) /\ Past(h, undone, top)
    BY <1>2, <1>4
  <2>2. Past(h, undone, tl)
    BY <1>7, <2>1, LikeIs
  <2> QED BY <1>2, <1>6, <2>2
<1>9. \A k \in 1 .. Len(stack2) : Past(h, undone, stack2[k].start)
  BY <1>2, <1>5
<1>10. \A id : Remembered(timeline', stack2, id) => Remembered(timeline, stack, id)
  <2>1. \A id : Recalls(tl, id) => Recalls(timeline[b], id) \/ Recalls(top, id)
    BY <1>7, LikeIs
  <2>2. \A id : Recalls(tl, id) => Remembered(timeline, stack, id)
    BY <1>4, <2>1 DEF Remembered
  <2> QED BY <1>5, <1>6, <2>2 DEF Remembered
<1>11. ASSUME Exact
       PROVE  /\ LinesSafe(h, undone, channels, pending, timeline')
              /\ StackSafe(h, undone, channels, pending, timeline', stack2, b)
              /\ Stacked(timeline', stack2, b, block)
  <2>1. /\ LinesSafe(h, undone, channels, pending, timeline)
        /\ StackSafe(h, undone, channels, pending, timeline, stack, b)
        /\ Stacked(timeline, stack, b, block)
    BY <1>11 DEF Exact, stack
  <2>2. Len(stack) \in Nat /\ timeline[Main].depth \in Nat /\ timeline[b].depth \in Nat
    BY <1>2, <1>4 DEF Shortens
  <2>3. Owner(timeline, b, Len(stack)) = b
    BY <2>1, <2>2, TopIs
  <2>4. LineSafe(h, undone, channels, pending, b, top)
    BY <1>4, <2>1, <2>3 DEF StackSafe
  <2>5. LineSafe(h, undone, channels, pending, b, timeline[b])
    BY <2>1 DEF LinesSafe
  <2>6. LineSafe(h, undone, channels, pending, b, tl)
    BY <1>7, <2>4, <2>5, LikeIs
  <2>7. LinesSafe(h, undone, channels, pending, timeline')
    BY <1>6, <2>1, <2>6 DEF LinesSafe
  <2>8. Rises(timeline, timeline', b)
    BY <1>6, <1>11, <2>2 DEF Rises
  <2>9. /\ Stacked(timeline', stack2, b, block)
        /\ \A k \in 1 .. Len(stack2) : Owner(timeline', b, k) = Owner(timeline, b, k)
    BY <1>4, <2>1, <2>8, PoppedOff
  <2>10. StackSafe(h, undone, channels, pending, timeline', stack2, b)
    BY <1>5, <2>1, <2>9 DEF StackSafe
  <2> QED BY <2>7, <2>9, <2>10
<1> QED BY <1>2, <1>3, <1>4, <1>6, <1>8, <1>9, <1>10, <1>11, ControlKeeps DEF stack, stack2

(* Depths one less.                                                        *)
LEMMA OneLess ==
  ASSUME Typed, NEW b \in Branches, timeline[b].depth > 0
  PROVE  timeline[b].depth - 1 \in 0 .. MaxSpec
<1>1. timeline[b].depth \in 0 .. MaxSpec
  BY LineIs DEF Typed
<1> QED BY <1>1, ChannelAssumption, SMT

(* end_speculate                                                           *)
LEMMA EndSpeculateKeeps ==
  ASSUME ChannelsInv, fault = "none", NEW b \in Branches, b = running, EndSpeculate(b)
  PROVE  ChannelsInv'
<1>1. Typed /\ timeline[b].depth > 0
  BY DEF ChannelsInv, EndSpeculate
<1>2. CASE Fails("EvalError") /\ UNCHANGED ChannelState
  BY <1>1, <1>2, FailKeeps DEF Fails, ChannelState, Speculation, Control, Ghosts, Typed
<1>3. CASE /\ speculation_stack # <<>>
           /\ PopContext
           /\ LET context == Last(speculation_stack)
                  tl == IF ~context.commit_executed /\ speculative_commit_mode = "Selective"
                        THEN context.start ELSE timeline[b]
              IN timeline' = [timeline EXCEPT ![b] = [tl EXCEPT !.depth = timeline[b].depth - 1]]
           /\ UNCHANGED <<ChannelState, speculative_commit_mode, Control, fault, Ghosts>>
  <2> DEFINE context == Last(speculation_stack)
             from == IF ~context.commit_executed /\ speculative_commit_mode = "Selective"
                     THEN context.start ELSE timeline[b]
             d == timeline[b].depth - 1
             tl == [from EXCEPT !.depth = d]
  <2>1. /\ UNCHANGED <<channels, pending, next_payload_id, causal_history, fault, ticks,
                       gone, undone, orderly, speculative_commit_mode, block>>
        /\ running' = running /\ timeline' = [timeline EXCEPT ![b] = tl]
        /\ speculation_stack # <<>> /\ PopContext
    BY <1>3 DEF ChannelState, Control, Ghosts
  <2>2. from = context.start \/ from = timeline[b]
    OBVIOUS
  <2>3. context.start \in Lines /\ timeline[b] \in Lines
    <3>1. context = speculation_stack[Len(speculation_stack)]
          /\ Len(speculation_stack) \in 1 .. Len(speculation_stack)
      BY <1>1, <2>1, FrontIs, StackIs
    <3> QED BY <1>1, <3>1, StackIs
  <2>4. d \in 0 .. MaxSpec /\ from \in Lines
    BY <1>1, <2>2, <2>3, OneLess
  <2> HIDE DEF d, from
  <2>5. tl \in Lines /\ tl.depth = d /\ tl.arena = from.arena /\ tl.anchors = from.anchors
    BY <2>4, LineIs
  <2>6. Like(timeline[b], tl) \/ Like(context.start, tl)
    BY <2>2, <2>5 DEF Like
  <2> HIDE DEF tl
  <2>7. Pops(b, tl)
    BY <2>1, <2>5, <2>6 DEF Pops
  <2> QED BY <1>1, <2>1, <2>5, <2>7, PopKeeps DEF d
<1> QED BY <1>2, <1>3 DEF EndSpeculate

(* collapse                                                                *)
LEMMA CollapseKeeps ==
  ASSUME ChannelsInv, fault = "none", NEW b \in Branches, b = running, Collapse(b)
  PROVE  ChannelsInv'
<1>1. Typed /\ timeline[b].depth > 0
  BY DEF ChannelsInv, Collapse
<1>2. CASE Fails("EvalError") /\ UNCHANGED ChannelState
  BY <1>1, <1>2, FailKeeps DEF Fails, ChannelState, Speculation, Control, Ghosts, Typed
<1>3. CASE /\ speculation_stack # <<>>
           /\ PopContext
           /\ Land(b, Last(speculation_stack).block, Last(speculation_stack).start)
           /\ UNCHANGED <<ChannelState, speculative_commit_mode, fault, Ghosts>>
  <2> DEFINE L == Len(speculation_stack)
             context == speculation_stack[L]
             start == context.start
             out == JumpsOut(b, context.block)
             tl == IF out THEN [start EXCEPT !.depth = 0] ELSE start
  <2>1. /\ Last(speculation_stack) = context /\ L \in 1 .. L
        /\ start \in Lines /\ Main \in Branches /\ L \in Nat
        /\ timeline[Main].depth \in Nat /\ timeline[b].depth \in Nat
    BY <1>1, <1>3, FrontIs, StackIs
  <2>2. /\ UNCHANGED <<channels, pending, next_payload_id, causal_history, fault, ticks,
                       gone, undone, orderly, speculative_commit_mode, block>>
        /\ timeline' = [timeline EXCEPT ![b] = tl]
        /\ running' = (IF out THEN Main ELSE b)
    BY <1>3, <2>1 DEF ChannelState, Ghosts, Land
  <2>3. 0 \in 0 .. MaxSpec
    BY ChannelAssumption, SMT
  <2>4. tl \in Lines /\ Like(start, tl)
    BY <2>1, <2>3, LineIs DEF Like
  <2>5. ASSUME Exact PROVE tl.depth = timeline[b].depth - 1 /\ running' = running
    <3>1. Stacked(timeline, speculation_stack, b, block)
      BY <2>5 DEF Exact
    <3>2. start.depth = timeline[b].depth - 1 /\ (b # Main => context.block = block)
      BY <1>1, <2>1, <3>1, TopIs
    <3> QED BY <2>2, <3>2 DEF JumpsOut
  <2>6. Pops(b, tl)
    <3> HIDE DEF tl
    <3> QED BY <1>3, <2>1, <2>2, <2>4 DEF Pops
  <2> HIDE DEF tl, out
  <2>7. running' \in Branches
    BY <2>1, <2>2
  <2> QED BY <1>1, <2>5, <2>6, <2>7, PopKeeps
<1> QED BY <1>2, <1>3 DEF Collapse

(* A loop tick that awaits a channel.                                      *)
LEMMA TickOnKeeps ==
  ASSUME ChannelsInv, fault = "none", NEW b \in Branches, NEW c \in Chans, LoopTickOn(b, c)
  PROVE  ChannelsInv'
<1>1. Typed
  BY DEF ChannelsInv
<1>2. CASE Fails("ChannelFault") /\ UNCHANGED ChannelState
  BY <1>1, <1>2, FailKeeps DEF Fails, ChannelState, Speculation, Control, Ghosts, Typed
<1>3. CASE LoopTick(b)
  BY <1>3, TickKeeps
<1> QED BY <1>2, <1>3 DEF LoopTickOn

-----------------------------------------------------------------------------
(* Rewinding: what undoing one event does                                  *)

(* the place of a message in a buffer                                      *)
LEMMA PositionIs ==
  ASSUME NEW mb \in Mailboxes, NEW id
  PROVE  /\ Position(mb, id) \in Nat
         /\ Position(mb, id) # 0 => /\ Position(mb, id) \in 1 .. Len(mb.buffer)
                                    /\ mb.buffer[Position(mb, id)].id = id
<1> DEFINE s == mb.buffer
           I == {i \in 1 .. Len(s) : s[i].id = id}
           p == Position(mb, id)
<1>1. p = IF I # {} THEN Min(I) ELSE 0
  BY DEF Position, SelectInSeq
<1>2. I \subseteq Nat
  BY SMT
<1> HIDE DEF p
<1>3. I # {} => Min(I) \in I
  <2> HIDE DEF I
  <2> SUFFICES ASSUME I # {} PROVE Min(I) \in I
    OBVIOUS
  <2>1. \E x \in I : \A y \in I : x <= y
    BY <1>2, Least
  <2>2. (CHOOSE x \in I : \A y \in I : x =< y) \in I
    BY <2>1
  <2> QED BY <2>2 DEF Min
<1>4. p = 0 \/ p \in I
  BY <1>1, <1>3
<1>5. 0 \in Nat
  BY SMT
<1> QED BY <1>2, <1>4, <1>5 DEF p

(* The channels in the course of a rollback.                               *)
Shape(st) == st = [channels |-> st.channels, pending |-> st.pending,
                   gone |-> st.gone, ok |-> st.ok]

(* A send undone: its message is out of its channel.                       *)
Unsends(st, st2, c, id) ==
  /\ Shape(st2) /\ st2.ok = st.ok /\ st2.gone = st.gone \cup {id}
  /\ Flows(st.channels, st.pending, st2.channels, st2.pending, c, {}, {id})
  /\ DOMAIN st2.channels = DOMAIN st.channels
  /\ \A d \in DOMAIN st.channels : /\ Mails(st2.channels[d]) \subseteq Mails(st.channels[d])
                                   /\ Mails(st2.pending[d]) \subseteq Mails(st.pending[d])
  /\ \E x \in Mail(st.channels, st.pending, c) :
       /\ x.id = id
       /\ Lone(st.channels, st.pending, c, x) => x \notin Mail(st2.channels, st2.pending, c)

(* A receive undone: its message is in its channel again.                  *)
Rereceives(st, st2, c, m) ==
  /\ Shape(st2) /\ st2.ok = st.ok /\ st.gone \subseteq st2.gone
  /\ st2.gone \subseteq st.gone \cup {x.id : x \in Mail(st.channels, st.pending, c)}
  /\ Flows(st.channels, st.pending, st2.channels, st2.pending, c, {m}, st2.gone)
  /\ DOMAIN st2.channels = DOMAIN st.channels
  /\ \A d \in DOMAIN st.channels : /\ Mails(st2.channels[d]) \subseteq Mails(st.channels[d]) \cup {m}
                                   /\ st2.pending[d] = st.pending[d]

(* Taking a message out of a mailbox.                                      *)
LEMMA TakenOut ==
  ASSUME NEW mb \in Mailboxes, NEW pb \in Mailboxes, NEW p \in 1 .. Len(mb.buffer)
  PROVE  /\ [mb EXCEPT !.buffer = RemoveAt(mb.buffer, p)] \in Mailboxes
         /\ Mails([mb EXCEPT !.buffer = RemoveAt(mb.buffer, p)]) \subseteq Mails(mb)
         /\ LET mb2 == [mb EXCEPT !.buffer = RemoveAt(mb.buffer, p)]
                x == mb.buffer[p]
            IN /\ FlowsAt(mb, pb, mb2, pb, {}, {x.id}) /\ FlowsAt(pb, mb, pb, mb2, {}, {x.id})
               /\ x \in Mails(mb)
               /\ LoneAt(mb, pb, x) => x \notin Mails(mb2) \cup Mails(pb)
               /\ LoneAt(pb, mb, x) => x \notin Mails(pb) \cup Mails(mb2)
<1> DEFINE s == RemoveAt(mb.buffer, p)
           mb2 == [mb EXCEPT !.buffer = s]
<1>1. mb.buffer \in Seq(Messages)
  BY MailboxIs
<1>2. s \in Seq(Messages) /\ Less(mb.buffer, p, s)
  BY <1>1, RemoveElems
<1> HIDE DEF s
<1>3. mb2 = Holding(mb, s)
  BY <1>2, MailboxIs
<1> HIDE DEF mb2
<1>4. mb2 \in Mailboxes /\ mb2.buffer = s
  BY <1>2, <1>3, HeldIs
<1>5. Less(mb.buffer, p, mb2.buffer)
  BY <1>2, <1>4
<1>6. /\ FlowsAt(mb, pb, mb2, pb, {}, {mb.buffer[p].id})
      /\ FlowsAt(pb, mb, pb, mb2, {}, {mb.buffer[p].id})
      /\ mb.buffer[p] \in Mails(mb)
      /\ LoneAt(mb, pb, mb.buffer[p]) => mb.buffer[p] \notin Mails(mb2) \cup Mails(pb)
      /\ LoneAt(pb, mb, mb.buffer[p]) => mb.buffer[p] \notin Mails(pb) \cup Mails(mb2)
  BY <1>4, <1>5, LessFlows
<1>7. Mails(mb2) \subseteq Mails(mb)
  BY <1>5 DEF Less, Mails
<1> QED BY <1>4, <1>6, <1>7 DEF mb2, s

(* Undoing a send stops the rollback, or takes the message out.            *)
LEMMA UndoSendIs ==
  ASSUME NEW st, Shape(st), Boxed(st.channels, st.pending), NEW i,
         causal_history[i].chan \in DOMAIN st.channels
  PROVE  \/ UndoSend(st, i) = [st EXCEPT !.ok = FALSE]
         \/ /\ ~ReceivedAfter(i)
            /\ Unsends(st, UndoSend(st, i), causal_history[i].chan, causal_history[i].msg.id)
<1> DEFINE c == causal_history[i].chan
           id == causal_history[i].msg.id
           mb == st.channels[c]
           pb == st.pending[c]
           there == Position(mb, id)
           shadow == Position(pb, id)
           st2 == UndoSend(st, i)
           mb2 == [mb EXCEPT !.buffer = RemoveAt(mb.buffer, there)]
           pb2 == [pb EXCEPT !.buffer = RemoveAt(pb.buffer, shadow)]
<1>1. /\ mb \in Mailboxes /\ pb \in Mailboxes /\ c \in Chans /\ c \in DOMAIN st.channels
      /\ DOMAIN st.pending = DOMAIN st.channels
  BY DEF Boxed
<1>2. there \in Nat /\ shadow \in Nat
      /\ (there # 0 => there \in 1 .. Len(mb.buffer) /\ mb.buffer[there].id = id)
      /\ (shadow # 0 => shadow \in 1 .. Len(pb.buffer) /\ pb.buffer[shadow].id = id)
  BY <1>1, PositionIs
<1>3. there = 0 /\ shadow = 0 => there + shadow = 0
  BY SMT
<1>4. /\ Mail(st.channels, st.pending, c) = Mails(mb) \cup Mails(pb)
      /\ \A x : Lone(st.channels, st.pending, c, x) => LoneAt(mb, pb, x) /\ LoneAt(pb, mb, x)
  BY <1>1 DEF Mail, Lone, LoneAt
<1>5. CASE ReceivedAfter(i) \/ there + shadow = 0
  BY <1>5 DEF UndoSend
<1>6. CASE ~(ReceivedAfter(i) \/ there + shadow = 0) /\ there # 0
  <2>1. st2 = [[st EXCEPT !.gone = st.gone \cup {id}]
                  EXCEPT !.channels[c].buffer = RemoveAt(mb.buffer, there)]
    BY <1>6 DEF UndoSend, Shape
  <2>2. st2 = [channels |-> [st.channels EXCEPT ![c] = mb2], pending |-> st.pending,
               gone |-> st.gone \cup {id}, ok |-> st.ok]
    BY <2>1 DEF Shape
  <2> HIDE DEF st2, there
  <2>3. /\ st2.channels = [st.channels EXCEPT ![c] = mb2] /\ st2.pending = st.pending
        /\ st2.gone = st.gone \cup {id} /\ st2.ok = st.ok /\ Shape(st2)
    BY <2>2 DEF Shape
  <2>4. /\ mb2 \in Mailboxes /\ Mails(mb2) \subseteq Mails(mb)
        /\ FlowsAt(mb, pb, mb2, pb, {}, {id})
        /\ mb.buffer[there] \in Mails(mb) /\ mb.buffer[there].id = id
        /\ LoneAt(mb, pb, mb.buffer[there]) => mb.buffer[there] \notin Mails(mb2) \cup Mails(pb)
    <3> HIDE DEF mb, pb
    <3> QED BY <1>1, <1>2, <1>6, TakenOut
  <2> HIDE DEF mb2
  <2>5. /\ DOMAIN st2.channels = DOMAIN st.channels
        /\ st2.channels[c] = mb2 /\ st2.pending[c] = pb
        /\ \A d \in DOMAIN st.channels : d # c => st2.channels[d] = st.channels[d]
        /\ \A d : st2.pending[d] = st.pending[d]
    BY <1>1, <2>3
  <2>6. Flows(st.channels, st.pending, st2.channels, st2.pending, c, {}, {id})
    BY <1>1, <2>3, <2>4, <2>5, FlowOne
  <2>7. Mail(st2.channels, st2.pending, c) = Mails(mb2) \cup Mails(pb)
    BY <1>1, <2>5 DEF Mail
  <2>8. \A d \in DOMAIN st.channels : /\ Mails(st2.channels[d]) \subseteq Mails(st.channels[d])
                                      /\ Mails(st2.pending[d]) \subseteq Mails(st.pending[d])
    BY <2>4, <2>5
  <2>9. \E x \in Mail(st.channels, st.pending, c) :
          /\ x.id = id
          /\ Lone(st.channels, st.pending, c, x) => x \notin Mail(st2.channels, st2.pending, c)
    BY <1>4, <2>4, <2>7
  <2>10. Unsends(st, st2, c, id)
    <3> HIDE DEF c, id
    <3> QED BY <2>3, <2>5, <2>6, <2>8, <2>9 DEF Unsends
  <2> QED BY <1>6, <2>10 DEF st2
<1>7. CASE ~(ReceivedAfter(i) \/ there + shadow = 0) /\ there = 0
  <2>1. st2 = [[st EXCEPT !.gone = st.gone \cup {id}]
                  EXCEPT !.pending[c].buffer = RemoveAt(pb.buffer, shadow)]
    BY <1>7 DEF UndoSend, Shape
  <2>2. st2 = [channels |-> st.channels, pending |-> [st.pending EXCEPT ![c] = pb2],
               gone |-> st.gone \cup {id}, ok |-> st.ok]
    BY <2>1 DEF Shape
  <2>0. shadow # 0
    BY <1>3, <1>7
  <2> HIDE DEF st2, there, shadow
  <2>3. /\ st2.pending = [st.pending EXCEPT ![c] = pb2] /\ st2.channels = st.channels
        /\ st2.gone = st.gone \cup {id} /\ st2.ok = st.ok /\ Shape(st2)
    BY <2>2 DEF Shape
  <2>4. /\ pb2 \in Mailboxes /\ Mails(pb2) \subseteq Mails(pb)
        /\ FlowsAt(mb, pb, mb, pb2, {}, {id})
        /\ pb.buffer[shadow] \in Mails(pb) /\ pb.buffer[shadow].id = id
        /\ LoneAt(mb, pb, pb.buffer[shadow]) => pb.buffer[shadow] \notin Mails(mb) \cup Mails(pb2)
    <3> HIDE DEF mb, pb
    <3> QED BY <1>1, <1>2, <2>0, TakenOut
  <2> HIDE DEF pb2
  <2>5. /\ DOMAIN st2.channels = DOMAIN st.channels /\ DOMAIN st2.pending = DOMAIN st.pending
        /\ st2.channels[c] = mb /\ st2.pending[c] = pb2
        /\ \A d \in DOMAIN st.channels : d # c => st2.pending[d] = st.pending[d]
        /\ \A d : st2.channels[d] = st.channels[d]
    BY <1>1, <2>3
  <2>6. Flows(st.channels, st.pending, st2.channels, st2.pending, c, {}, {id})
    BY <1>1, <2>3, <2>4, <2>5, FlowOne
  <2>7. Mail(st2.channels, st2.pending, c) = Mails(mb) \cup Mails(pb2)
    BY <1>1, <2>5 DEF Mail
  <2>8. \A d \in DOMAIN st.channels : /\ Mails(st2.channels[d]) \subseteq Mails(st.channels[d])
                                      /\ Mails(st2.pending[d]) \subseteq Mails(st.pending[d])
    BY <2>4, <2>5
  <2>9. \E x \in Mail(st.channels, st.pending, c) :
          /\ x.id = id
          /\ Lone(st.channels, st.pending, c, x) => x \notin Mail(st2.channels, st2.pending, c)
    BY <1>4, <2>4, <2>7
  <2>10. Unsends(st, st2, c, id)
    <3> HIDE DEF c, id
    <3> QED BY <2>3, <2>5, <2>6, <2>8, <2>9 DEF Unsends
  <2> QED BY <1>7, <2>10 DEF st2
<1> QED BY <1>5, <1>6, <1>7

(* Undoing a receive puts the message back.                                *)
LEMMA UndoRecvIs ==
  ASSUME NEW st, Shape(st), Boxed(st.channels, st.pending), NEW i,
         causal_history[i].chan \in DOMAIN st.channels, causal_history[i].msg \in Messages
  PROVE  Rereceives(st, UndoRecv(st, i), causal_history[i].chan, causal_history[i].msg)
<1> DEFINE c == causal_history[i].chan
           m == causal_history[i].msg
           mb == st.channels[c]
           pb == st.pending[c]
           out == PushFront(mb, m)
           lost == IdsOf(out.evicted)
           st2 == UndoRecv(st, i)
<1>1. /\ mb \in Mailboxes /\ pb \in Mailboxes /\ c \in Chans /\ c \in DOMAIN st.channels
      /\ DOMAIN st.pending = DOMAIN st.channels
  BY DEF Boxed
<1>2. st2 = [channels |-> [st.channels EXCEPT ![c] = out.box], pending |-> st.pending,
             gone |-> st.gone \cup lost, ok |-> st.ok]
  <2>1. st2 = [st EXCEPT !.channels[c] = out.box, !.gone = st.gone \cup lost]
    BY DEF UndoRecv
  <2> HIDE DEF st2, out, lost
  <2>2. \A x, y : [st EXCEPT !.channels[c] = y, !.gone = x]
                = [channels |-> [st.channels EXCEPT ![c] = y], pending |-> st.pending,
                   gone |-> x, ok |-> st.ok]
    <3> TAKE x, y
    <3> DEFINE mid == [st EXCEPT !.channels[c] = y]
    <3>1. mid = [channels |-> [st.channels EXCEPT ![c] = y], pending |-> st.pending,
                 gone |-> st.gone, ok |-> st.ok]
      BY DEF Shape
    <3>2. [st EXCEPT !.channels[c] = y, !.gone = x] = [mid EXCEPT !.gone = x]
      OBVIOUS
    <3> HIDE DEF mid
    <3>3. [mid EXCEPT !.gone = x] = [channels |-> [st.channels EXCEPT ![c] = y],
             pending |-> st.pending, gone |-> x, ok |-> st.ok]
      BY <3>1
    <3> QED BY <3>2, <3>3
  <2> QED BY <2>1, <2>2
<1> HIDE DEF st2
<1>3. /\ st2.channels = [st.channels EXCEPT ![c] = out.box] /\ st2.pending = st.pending
      /\ st2.gone = st.gone \cup lost /\ st2.ok = st.ok /\ Shape(st2)
  BY <1>2 DEF Shape
<1>4. TakesIn(mb, m, out)
  <2> HIDE DEF mb
  <2> QED BY <1>1, PushFrontFlow
<1> HIDE DEF out
<1>5. FlowsAt(mb, pb, out.box, pb, {m}, lost)
  <2> HIDE DEF mb, pb
  <2> QED BY <1>1, <1>4, TakesInFlows
<1>6. /\ Mails(out.box) \subseteq Mails(mb) \cup {m}
      /\ lost \subseteq {x.id : x \in Mails(mb)}
  BY <1>4 DEF TakesIn, IdsOf
<1> HIDE DEF lost
<1>7. /\ DOMAIN st2.channels = DOMAIN st.channels
      /\ st2.channels[c] = out.box /\ st2.pending[c] = pb
      /\ \A d \in DOMAIN st.channels : d # c => st2.channels[d] = st.channels[d]
      /\ \A d : st2.pending[d] = st.pending[d]
  BY <1>1, <1>3
<1>8. Flows(st.channels, st.pending, st2.channels, st2.pending, c, {m}, lost)
  BY <1>1, <1>3, <1>5, <1>7, FlowOne
<1>9. Flows(st.channels, st.pending, st2.channels, st2.pending, c, {m}, st2.gone)
  BY <1>3, <1>8 DEF Flows
<1>10. lost \subseteq {x.id : x \in Mail(st.channels, st.pending, c)}
  BY <1>1, <1>6 DEF Mail
<1>11. \A d \in DOMAIN st.channels : /\ Mails(st2.channels[d]) \subseteq Mails(st.channels[d]) \cup {m}
                                     /\ st2.pending[d] = st.pending[d]
  BY <1>6, <1>7
<1> HIDE DEF c, m
<1>12. Rereceives(st, st2, c, m)
  BY <1>3, <1>7, <1>9, <1>10, <1>11 DEF Rereceives
<1> QED BY <1>12 DEF st2, c, m

-----------------------------------------------------------------------------
(* The rollback, event by event.  P are the events undone so far.          *)

(* what stays true of the mailboxes                                        *)
RolledBox(st) ==
  /\ Shape(st) /\ st.ok \in BOOLEAN
  /\ Boxed(st.channels, st.pending) /\ DOMAIN st.channels = DOMAIN channels
  /\ gone \subseteq st.gone /\ st.gone \subseteq 1 .. MaxSend
  /\ Ripened(ticks, st.channels) /\ Unripe(ticks, st.pending)

(* mail was there, or its receive is undone; never received, it is alone   *)
Returned(h, P, m, c) == \E j \in P \cap Recvs(h) : h[j].chan = c /\ h[j].msg = m
RolledMail(h, chs, pnd, P, st) ==
  /\ \A c \in Chans : \A m \in Mail(st.channels, st.pending, c) :
       m \in Mail(chs, pnd, c) \/ Returned(h, P, m, c)
  /\ \A c \in Chans : \A m \in Mail(st.channels, st.pending, c) :
       ~Taken(h, m.id) => Lone(st.channels, st.pending, c, m)

(* until an event stops it, nothing is lost, and what is unsent is nowhere *)
RolledAll(h, chs, pnd, P, st) ==
  /\ \A c \in Chans : \A m \in Mail(chs, pnd, c) :
       m \in Mail(st.channels, st.pending, c) \/ m.id \in st.gone
  /\ \A j \in P \cap Recvs(h) :
       h[j].msg \in Mail(st.channels, st.pending, h[j].chan) \/ h[j].msg.id \in st.gone
  /\ \A j \in P \cap Sends(h) :
       /\ ~Taken(h, h[j].msg.id) /\ Carried(chs, pnd, h[j].msg.id)
       /\ ~Carried(st.channels, st.pending, h[j].msg.id)

(* if every receive it undoes stands, no message is in two places          *)
RolledExact(h, u, chs, pnd, P, st) ==
  Distinct(h, u, chs, pnd) /\ P \cap Recvs(h) \subseteq Standing(h, u) =>
    /\ \A c \in Chans : \A m \in Mail(st.channels, st.pending, c) :
         Lone(st.channels, st.pending, c, m)
    /\ \A i \in Standing(h, u) \ P : \A c \in Chans :
         h[i].msg \notin Mail(st.channels, st.pending, c)

Rolled(h, u, chs, pnd, P, st) ==
  /\ RolledMail(h, chs, pnd, P, st) /\ RolledExact(h, u, chs, pnd, P, st)
  /\ st.ok => RolledAll(h, chs, pnd, P, st)
Settled(h, n, chs, pnd) == Numbered(h, n) /\ Posted(h, chs, pnd)

(* The mail in the course of a rollback was sent where it is.              *)
LEMMA RolledPosted ==
  ASSUME NEW h, NEW n, NEW chs, NEW pnd, NEW P, NEW st, Settled(h, n, chs, pnd),
         RolledMail(h, chs, pnd, P, st)
  PROVE  Posted(h, st.channels, st.pending)
<1> SUFFICES ASSUME NEW c \in Chans, NEW m \in Mail(st.channels, st.pending, c)
             PROVE  Sent(h, m, c)
  BY DEF Posted
<1>1. CASE m \in Mail(chs, pnd, c)
  BY <1>1 DEF Settled, Posted
<1>2. CASE Returned(h, P, m, c)
  BY <1>2, ReceivedSent DEF Returned, Settled
<1> QED BY <1>1, <1>2 DEF RolledMail

(* A send undone.                                                          *)
LEMMA RolledSend ==
  ASSUME NEW h, NEW n, NEW u, NEW chs, NEW pnd, NEW P, NEW st, NEW st2,
         Settled(h, n, chs, pnd), Rolled(h, u, chs, pnd, P, st), st.ok,
         NEW j \in Sends(h), h[j].chan \in Chans, ~Taken(h, h[j].msg.id),
         Unsends(st, st2, h[j].chan, h[j].msg.id)
  PROVE  Rolled(h, u, chs, pnd, P \cup {j}, st2)
<1> DEFINE c == h[j].chan
           m == h[j].msg
           Q == P \cup {j}
<1>1. /\ RolledMail(h, chs, pnd, P, st) /\ RolledExact(h, u, chs, pnd, P, st)
      /\ RolledAll(h, chs, pnd, P, st) /\ Numbered(h, n) /\ Posted(h, chs, pnd)
  BY DEF Rolled, Settled
<1>2. Q \cap Recvs(h) = P \cap Recvs(h) /\ Q \cap Sends(h) = (P \cap Sends(h)) \cup {j}
  BY DEF Recvs, Sends
<1>3. Posted(h, st.channels, st.pending) /\ Sent(h, m, c)
  BY <1>1, RolledPosted DEF Sent, Settled
<1> HIDE DEF Q, c, m
<1>4. /\ Flows(st.channels, st.pending, st2.channels, st2.pending, c, {}, {m.id})
      /\ st2.gone = st.gone \cup {m.id} /\ st2.ok = st.ok
  BY DEF Unsends, c, m
<1>5. PICK x \in Mail(st.channels, st.pending, c) :
        /\ x.id = m.id
        /\ Lone(st.channels, st.pending, c, x) => x \notin Mail(st2.channels, st2.pending, c)
  BY DEF Unsends, c, m
<1>6. c \in Chans /\ ~Taken(h, m.id)
  BY DEF c, m
<1>7. Sent(h, x, c)
  BY <1>3, <1>6 DEF Posted
<1>8. x \notin Mail(st2.channels, st2.pending, c)
  BY <1>1, <1>5, <1>6 DEF RolledMail
<1>9. ~Carried(st2.channels, st2.pending, m.id)
  <2>1. ~Carried(st2.channels, st2.pending, x.id)
    BY <1>1, <1>3, <1>4, <1>6, <1>8, TakenAway
  <2> QED BY <1>5, <2>1
<1>10. Carried(chs, pnd, m.id)
  <2>1. ~Returned(h, P, x, c)
    BY <1>5, <1>6 DEF Returned, Taken
  <2>2. x \in Mail(chs, pnd, c)
    BY <1>1, <1>6, <2>1 DEF RolledMail
  <2> QED BY <1>5, <1>6, <2>2 DEF Carried
<1>11. /\ \A d \in Chans : Mail(st2.channels, st2.pending, d) \subseteq Mail(st.channels, st.pending, d)
       /\ \A d \in Chans : \A y \in Mail(st.channels, st.pending, d) :
            y \in Mail(st2.channels, st2.pending, d) \/ y.id = m.id
       /\ \A d \in Chans : \A y \in Mail(st2.channels, st2.pending, d) :
            Lone(st.channels, st.pending, d, y) => Lone(st2.channels, st2.pending, d, y)
       /\ \A id : Carried(st2.channels, st2.pending, id) => Carried(st.channels, st.pending, id)
  BY <1>4 DEF Flows, Carried
<1>12. RolledMail(h, chs, pnd, Q, st2)
  <2>1. \A d \in Chans : \A y \in Mail(st2.channels, st2.pending, d) :
          y \in Mail(chs, pnd, d) \/ Returned(h, Q, y, d)
    BY <1>1, <1>2, <1>11 DEF RolledMail, Returned
  <2>2. \A d \in Chans : \A y \in Mail(st2.channels, st2.pending, d) :
          ~Taken(h, y.id) => Lone(st2.channels, st2.pending, d, y)
    BY <1>1, <1>11 DEF RolledMail
  <2> QED BY <2>1, <2>2 DEF RolledMail
<1>13. RolledAll(h, chs, pnd, Q, st2)
  <2>1. \A d \in Chans : \A y \in Mail(chs, pnd, d) :
          y \in Mail(st2.channels, st2.pending, d) \/ y.id \in st2.gone
    BY <1>1, <1>4, <1>11 DEF RolledAll
  <2>2. \A i \in P \cap Recvs(h) : h[i].chan \in Chans \/ h[i].msg.id \in st.gone
    BY <1>1 DEF RolledAll, Numbered, Mail, Flows, Unsends, Boxed
  <2>3. \A i \in Q \cap Recvs(h) :
          h[i].msg \in Mail(st2.channels, st2.pending, h[i].chan) \/ h[i].msg.id \in st2.gone
    BY <1>1, <1>2, <1>4, <1>11, <2>2 DEF RolledAll
  <2>4. \A i \in Q \cap Sends(h) :
          /\ ~Taken(h, h[i].msg.id) /\ Carried(chs, pnd, h[i].msg.id)
          /\ ~Carried(st2.channels, st2.pending, h[i].msg.id)
    BY <1>1, <1>2, <1>6, <1>9, <1>10, <1>11 DEF RolledAll, m
  <2> QED BY <2>1, <2>3, <2>4 DEF RolledAll
<1>14. RolledExact(h, u, chs, pnd, Q, st2)
  <2> SUFFICES ASSUME Distinct(h, u, chs, pnd), Q \cap Recvs(h) \subseteq Standing(h, u)
               PROVE  /\ \A d \in Chans : \A y \in Mail(st2.channels, st2.pending, d) :
                           Lone(st2.channels, st2.pending, d, y)
                      /\ \A i \in Standing(h, u) \ Q : \A d \in Chans :
                           h[i].msg \notin Mail(st2.channels, st2.pending, d)
    BY DEF RolledExact
  <2>1. /\ \A d \in Chans : \A y \in Mail(st.channels, st.pending, d) :
             Lone(st.channels, st.pending, d, y)
        /\ \A i \in Standing(h, u) \ P : \A d \in Chans :
             h[i].msg \notin Mail(st.channels, st.pending, d)
    BY <1>1, <1>2 DEF RolledExact
  <2> QED BY <1>11, <2>1 DEF Q
<1> QED BY <1>12, <1>13, <1>14 DEF Rolled, Q

(* A receive undone.                                                       *)
LEMMA RolledRecv ==
  ASSUME NEW h, NEW n, NEW u, NEW chs, NEW pnd, NEW P, NEW st, NEW st2,
         Settled(h, n, chs, pnd), Rolled(h, u, chs, pnd, P, st), st.ok,
         NEW j \in Recvs(h), j \notin P, h \in Seq(Events),
         Rereceives(st, st2, h[j].chan, h[j].msg)
  PROVE  Rolled(h, u, chs, pnd, P \cup {j}, st2)
<1> DEFINE c == h[j].chan
           m == h[j].msg
           Q == P \cup {j}
<1>1. /\ RolledMail(h, chs, pnd, P, st) /\ RolledExact(h, u, chs, pnd, P, st)
      /\ RolledAll(h, chs, pnd, P, st)
  BY DEF Rolled
<1>2. Q \cap Recvs(h) = (P \cap Recvs(h)) \cup {j} /\ Q \cap Sends(h) = P \cap Sends(h)
  BY DEF Recvs, Sends
<1>3. Taken(h, m.id)
  BY DEF Taken
<1>4. \A i \in Recvs(h) : h[i].chan \in Chans
  BY EventIs DEF Recvs
<1>5. \A P2, y, d : Returned(h, P2, y, d) => Taken(h, y.id)
  BY DEF Returned, Taken
<1>6. Returned(h, Q, m, c) /\ \A y, d : Returned(h, P, y, d) => Returned(h, Q, y, d)
  BY DEF Returned
<1> HIDE DEF Q, c, m
<1>7. /\ Flows(st.channels, st.pending, st2.channels, st2.pending, c, {m}, st2.gone)
      /\ st.gone \subseteq st2.gone /\ st2.ok = st.ok
  BY DEF Rereceives, c, m
<1>8. /\ \A d \in Chans : \A y \in Mail(st2.channels, st2.pending, d) :
           y \in Mail(st.channels, st.pending, d) \/ (d = c /\ y = m)
      /\ \A d \in Chans : \A y \in Mail(st.channels, st.pending, d) :
           y \in Mail(st2.channels, st2.pending, d) \/ y.id \in st2.gone
      /\ m \in Mail(st2.channels, st2.pending, c) \/ m.id \in st2.gone
      /\ \A d \in Chans : \A y \in Mail(st2.channels, st2.pending, d) :
           /\ Lone(st.channels, st.pending, d, y)
           /\ d = c /\ y = m => y \notin Mail(st.channels, st.pending, d)
           => Lone(st2.channels, st2.pending, d, y)
  BY <1>7 DEF Flows
<1>9. RolledMail(h, chs, pnd, Q, st2)
  <2>1. \A d \in Chans : \A y \in Mail(st2.channels, st2.pending, d) :
          y \in Mail(chs, pnd, d) \/ Returned(h, Q, y, d)
    BY <1>1, <1>6, <1>8 DEF RolledMail
  <2>2. \A d \in Chans : \A y \in Mail(st2.channels, st2.pending, d) :
          ~Taken(h, y.id) => Lone(st2.channels, st2.pending, d, y)
    BY <1>1, <1>3, <1>8 DEF RolledMail
  <2> QED BY <2>1, <2>2 DEF RolledMail
<1>10. RolledAll(h, chs, pnd, Q, st2)
  <2>1. \A d \in Chans : \A y \in Mail(chs, pnd, d) :
          y \in Mail(st2.channels, st2.pending, d) \/ y.id \in st2.gone
    BY <1>1, <1>7, <1>8 DEF RolledAll
  <2>2. \A i \in Q \cap Recvs(h) :
          h[i].msg \in Mail(st2.channels, st2.pending, h[i].chan) \/ h[i].msg.id \in st2.gone
    BY <1>1, <1>2, <1>4, <1>7, <1>8 DEF RolledAll, c, m
  <2>3. \A i \in Q \cap Sends(h) :
          /\ ~Taken(h, h[i].msg.id) /\ Carried(chs, pnd, h[i].msg.id)
          /\ ~Carried(st2.channels, st2.pending, h[i].msg.id)
    BY <1>1, <1>2, <1>3, <1>8 DEF RolledAll, Carried
  <2> QED BY <2>1, <2>2, <2>3 DEF RolledAll
<1>11. RolledExact(h, u, chs, pnd, Q, st2)
  <2> SUFFICES ASSUME Distinct(h, u, chs, pnd), Q \cap Recvs(h) \subseteq Standing(h, u)
               PROVE  /\ \A d \in Chans : \A y \in Mail(st2.channels, st2.pending, d) :
                           Lone(st2.channels, st2.pending, d, y)
                      /\ \A i \in Standing(h, u) \ Q : \A d \in Chans :
                           h[i].msg \notin Mail(st2.channels, st2.pending, d)
    BY DEF RolledExact
  <2>1. /\ \A d \in Chans : \A y \in Mail(st.channels, st.pending, d) :
             Lone(st.channels, st.pending, d, y)
        /\ \A i \in Standing(h, u) \ P : \A d \in Chans :
             h[i].msg \notin Mail(st.channels, st.pending, d)
    BY <1>1, <1>2 DEF RolledExact
  <2>2. j \in Standing(h, u) \ P /\ c \in Chans
    BY <1>2, <1>4 DEF c
  <2>3. \A d \in Chans : m \notin Mail(st.channels, st.pending, d)
    BY <2>1, <2>2 DEF m
  <2>4. Lone(st.channels, st.pending, c, m)
    BY <2>2, <2>3, AbsentLone
  <2>5. \A d \in Chans : \A y \in Mail(st2.channels, st2.pending, d) :
          Lone(st2.channels, st2.pending, d, y)
    BY <1>8, <2>1, <2>3, <2>4
  <2>6. \A i \in Standing(h, u) \ Q : h[i].msg # m
    BY <2>2 DEF Distinct, Q, m
  <2>7. \A i \in Standing(h, u) \ Q : i \in Standing(h, u) \ P
    BY DEF Q
  <2>8. \A i \in Standing(h, u) \ Q : \A d \in Chans :
          h[i].msg \notin Mail(st2.channels, st2.pending, d)
    BY <1>8, <2>1, <2>6, <2>7
  <2> QED BY <2>5, <2>8
<1> QED BY <1>9, <1>10, <1>11 DEF Rolled, Q

(* An event that is not undone any more.                                   *)
LEMMA RolledSkip ==
  ASSUME NEW h, NEW u, NEW chs, NEW pnd, NEW P, NEW j, NEW st, NEW st2,
         Rolled(h, u, chs, pnd, P, st), ~st2.ok,
         st2.channels = st.channels, st2.pending = st.pending
  PROVE  Rolled(h, u, chs, pnd, P \cup {j}, st2)
<1> DEFINE Q == P \cup {j}
<1>1. \A y, d : Returned(h, P, y, d) => Returned(h, Q, y, d)
  BY DEF Returned
<1>2. RolledMail(h, chs, pnd, Q, st2)
  BY <1>1 DEF Rolled, RolledMail
<1>3. RolledExact(h, u, chs, pnd, Q, st2)
  BY DEF Rolled, RolledExact
<1> QED BY <1>2, <1>3 DEF Rolled

(* A message not received after it was sent was not received.              *)
LEMMA NotTaken ==
  ASSUME causal_history \in Seq(Events), NEW n, Numbered(causal_history, n),
         NEW i \in Sends(causal_history), ~ReceivedAfter(i)
  PROVE  ~Taken(causal_history, causal_history[i].msg.id)
<1> DEFINE h == causal_history
<1> SUFFICES ASSUME NEW k \in Recvs(h), h[k].msg.id = h[i].msg.id PROVE FALSE
  BY DEF Taken
<1>1. PICK j \in Sends(h) : j < k /\ h[j].chan = h[k].chan /\ h[j].msg = h[k].msg
  BY DEF Numbered
<1>2. j = i
  BY <1>1 DEF Numbered
<1>3. k \in i + 1 .. Len(h)
  BY <1>1, <1>2, SMT DEF Sends, Recvs
<1>4. h[k].op = "recv"
  BY DEF Recvs
<1> QED BY <1>1, <1>2, <1>3, <1>4 DEF ReceivedAfter

(* Mailboxes with less in them are as much in order.                       *)
LEMMA BoxesStay ==
  ASSUME NEW st, NEW st2, NEW c, NEW id, RolledBox(st), id \in 1 .. MaxSend,
         Unsends(st, st2, c, id)
  PROVE  RolledBox(st2)
<1>1. /\ Shape(st2) /\ st2.ok = st.ok /\ st2.gone = st.gone \cup {id}
      /\ Boxed(st2.channels, st2.pending) /\ DOMAIN st2.channels = DOMAIN st.channels
      /\ \A d \in DOMAIN st.channels : /\ Mails(st2.channels[d]) \subseteq Mails(st.channels[d])
                                       /\ Mails(st2.pending[d]) \subseteq Mails(st.pending[d])
  BY DEF Unsends, Flows
<1>2. DOMAIN st2.pending = DOMAIN st.channels
  BY <1>1 DEF Boxed
<1>3. Ripened(ticks, st2.channels) /\ Unripe(ticks, st2.pending)
  BY <1>1, <1>2 DEF RolledBox, Ripened, Unripe, Boxed
<1> QED BY <1>1, <1>3 DEF RolledBox

(* So are mailboxes with a ripe message more.                              *)
LEMMA BoxesTake ==
  ASSUME NEW st, NEW st2, NEW c, NEW m, RolledBox(st), Ripe(ticks, m), Rereceives(st, st2, c, m)
  PROVE  RolledBox(st2)
<1>1. /\ Shape(st2) /\ st2.ok = st.ok /\ st.gone \subseteq st2.gone
      /\ st2.gone \subseteq st.gone \cup {x.id : x \in Mail(st.channels, st.pending, c)}
      /\ Boxed(st2.channels, st2.pending) /\ DOMAIN st2.channels = DOMAIN st.channels
      /\ \A d \in DOMAIN st.channels : /\ Mails(st2.channels[d]) \subseteq Mails(st.channels[d]) \cup {m}
                                       /\ st2.pending[d] = st.pending[d]
  BY DEF Rereceives, Flows
<1>2. DOMAIN st2.pending = DOMAIN st.channels
  BY <1>1 DEF Boxed
<1>3. Ripened(ticks, st2.channels) /\ Unripe(ticks, st2.pending)
  BY <1>1, <1>2 DEF RolledBox, Ripened, Unripe, Boxed
<1>4. st2.gone \subseteq 1 .. MaxSend /\ gone \subseteq st2.gone
  BY <1>1, MailType DEF RolledBox
<1> QED BY <1>1, <1>3, <1>4 DEF RolledBox

(* what happened, and where the channels are, when a rollback begins       *)
Rewindable == /\ Typed /\ Sound /\ Isolated(causal_history, ticks, channels, pending)

(* One event.                                                              *)
LEMMA UndoOne ==
  ASSUME Rewindable, NEW b, NEW i \in 1 .. Len(causal_history), NEW P, i \notin P, NEW st,
         RolledBox(st), Rolled(causal_history, undone, channels, pending, P, st)
  PROVE  /\ RolledBox(UndoEvent(b, st, i))
         /\ Rolled(causal_history, undone, channels, pending,
                   IF causal_history[i].branch = b THEN P \cup {i} ELSE P, UndoEvent(b, st, i))
<1> DEFINE h == causal_history
           n == next_payload_id
           c == h[i].chan
           m == h[i].msg
           st2 == UndoEvent(b, st, i)
           Q == IF h[i].branch = b THEN P \cup {i} ELSE P
<1>1. /\ Settled(h, n, channels, pending) /\ Numbered(h, n) /\ h \in Seq(Events)
      /\ Addressed(h, channels) /\ Isolated(h, ticks, channels, pending)
  BY DEF Rewindable, Sound, Settled, Typed
<1>2. /\ h[i] \in Events /\ m \in Messages /\ m.id \in 1 .. MaxSend /\ c \in Chans
  BY <1>1, EventIs
<1>3. /\ Shape(st) /\ Boxed(st.channels, st.pending) /\ c \in DOMAIN st.channels
      /\ st.ok \in BOOLEAN
  BY <1>1 DEF RolledBox, Addressed
<1>4. CASE h[i].branch # b
  <2>1. st2 = st /\ Q = P
    BY <1>4 DEF UndoEvent
  <2> QED BY <2>1
<1>5. CASE h[i].branch = b /\ ~st.ok
  <2>1. st2 = st /\ Q = P \cup {i}
    BY <1>5 DEF UndoEvent
  <2>2. Rolled(h, undone, channels, pending, P \cup {i}, st)
    BY <1>5, RolledSkip
  <2> QED BY <2>1, <2>2
<1>6. CASE h[i].branch = b /\ st.ok /\ h[i].op = "send"
  <2>1. st2 = UndoSend(st, i) /\ Q = P \cup {i} /\ i \in Sends(h)
    BY <1>6 DEF UndoEvent, Sends
  <2>2. CASE st2 = [st EXCEPT !.ok = FALSE]
    <3>1. /\ st2.ok = FALSE /\ st2.channels = st.channels /\ st2.pending = st.pending
          /\ st2.gone = st.gone /\ Shape(st2)
      BY <1>3, <2>2 DEF Shape
    <3> HIDE DEF st2
    <3>2. Rolled(h, undone, channels, pending, P \cup {i}, st2)
      BY <3>1, RolledSkip
    <3>3. RolledBox(st2)
      BY <3>1 DEF RolledBox
    <3> QED BY <2>1, <3>2, <3>3 DEF st2
  <2>3. CASE ~ReceivedAfter(i) /\ Unsends(st, st2, c, m.id)
    <3>1. ~Taken(h, m.id)
      BY <1>1, <2>1, <2>3, NotTaken
    <3> HIDE DEF st2
    <3>2. Rolled(h, undone, channels, pending, P \cup {i}, st2)
      BY <1>1, <1>2, <1>6, <2>1, <2>3, <3>1, RolledSend
    <3>3. RolledBox(st2)
      BY <1>2, <2>3, BoxesStay
    <3> QED BY <2>1, <3>2, <3>3 DEF st2
  <2> QED BY <1>3, <2>1, <2>2, <2>3, UndoSendIs
<1>7. CASE h[i].branch = b /\ st.ok /\ h[i].op = "recv"
  <2>1. st2 = UndoRecv(st, i) /\ Q = P \cup {i} /\ i \in Recvs(h)
    BY <1>7 DEF UndoEvent, Recvs
  <2>2. Rereceives(st, st2, c, m)
    BY <1>2, <1>3, <2>1, UndoRecvIs
  <2> HIDE DEF st2
  <2>3. Rolled(h, undone, channels, pending, P \cup {i}, st2)
    BY <1>1, <1>7, <2>1, <2>2, RolledRecv
  <2>4. Ripe(ticks, m)
    BY <1>1, <2>1 DEF Isolated
  <2>5. RolledBox(st2)
    BY <2>2, <2>4, BoxesTake
  <2> QED BY <2>1, <2>3, <2>5 DEF st2
<1>8. h[i].op \in {"send", "recv"}
  BY <1>2 DEF Events
<1> QED BY <1>3, <1>4, <1>5, <1>6, <1>7, <1>8

(* What is undone so far, as a function of how many events.                *)
Present == [channels |-> channels, pending |-> pending, gone |-> gone, ok |-> TRUE]
Rolling(b, from, n, g) ==
  g = [k \in 0 .. n |-> IF k = 0 THEN Present
                        ELSE UndoEvent(b, g[k - 1], EventsToUndo(from)[k])]

(* There is such a function, for a least length without one follows one    *)
(* that has it.                                                            *)
LEMMA RollingThere ==
  ASSUME NEW b, NEW from, NEW n \in Nat
  PROVE  \E g : Rolling(b, from, n, g)
<1> DEFINE F(m, g) == Rolling(b, from, m, g)
           T == {m \in Nat : ~ \E g : F(m, g)}
           Step(x, k) == UndoEvent(b, x, EventsToUndo(from)[k])
<1> SUFFICES ASSUME T # {} PROVE FALSE
  OBVIOUS
<1>1. PICK m \in T : \A k \in T : m <= k
  <2> HIDE DEF F
  <2>1. T \subseteq Nat /\ T # {}
    OBVIOUS
  <2> HIDE DEF T
  <2> QED BY <2>1, Least
<1>2. m \in Nat /\ ~ \E g : F(m, g)
  BY DEF T
<1> HIDE DEF Step
<1>3. \A k, g : F(k, g) <=> g = [i \in 0 .. k |-> IF i = 0 THEN Present ELSE Step(g[i - 1], i)]
  BY DEF Rolling, Step
<1>4. CASE m = 0
  <2> DEFINE h == [i \in 0 .. 0 |-> Present]
  <2>1. h = [i \in 0 .. 0 |-> IF i = 0 THEN Present ELSE Step(h[i - 1], i)]
    <3>1. \A i \in 0 .. 0 : i = 0
      BY SMT
    <3> QED BY <3>1, Zenon
  <2> HIDE DEF F
  <2> QED BY <1>2, <1>3, <1>4, <2>1
<1>5. CASE m # 0
  <2>1. m - 1 \in Nat /\ ~(m <= m - 1)
    BY <1>2, <1>5, SMT
  <2>2. PICK h : F(m - 1, h)
    BY <1>1, <2>1 DEF T
  <2> HIDE DEF F
  <2> DEFINE g == [i \in 0 .. m |-> IF i = m THEN Step(h[m - 1], m) ELSE h[i]]
  <2>3. \A i \in 0 .. m - 1 : h[i] = IF i = 0 THEN Present ELSE Step(h[i - 1], i)
    BY <1>3, <2>2
  <2>4. \A i \in 0 .. m : /\ i # 0 => i - 1 \in 0 .. m /\ i - 1 # m
                          /\ i # m => i \in 0 .. m - 1
    BY <1>2, SMT
  <2>5. \A i \in 0 .. m : i # 0 => g[i - 1] = h[i - 1]
    BY <2>4
  <2>6. \A i \in 0 .. m : g[i] = IF i = 0 THEN Present ELSE Step(g[i - 1], i)
    <3> SUFFICES ASSUME NEW i \in 0 .. m
                 PROVE  g[i] = IF i = 0 THEN Present ELSE Step(g[i - 1], i)
      OBVIOUS
    <3>1. CASE i = m
      <4>1. g[i] = Step(h[i - 1], i)
        BY <3>1
      <4> QED BY <1>5, <2>5, <3>1, <4>1
    <3>2. CASE i # m
      <4>1. g[i] = h[i]
        BY <3>2
      <4> QED BY <2>3, <2>4, <2>5, <3>2, <4>1
    <3> QED BY <3>1, <3>2
  <2>7. g = [i \in 0 .. m |-> g[i]]
    OBVIOUS
  <2> HIDE DEF g
  <2>8. F(m, g)
    BY <1>3, <2>6, <2>7
  <2> QED BY <1>2, <2>8
<1> QED BY <1>4, <1>5

(* The function, of all the events after the anchor.                        *)
RollOf(b, from) == CHOOSE g : Rolling(b, from, Len(EventsToUndo(from)), g)

(* The rollback is that function of all the events after the anchor.       *)
LEMMA RollbackIs ==
  ASSUME NEW b, NEW from, Len(EventsToUndo(from)) \in Nat
  PROVE  /\ Rolling(b, from, Len(EventsToUndo(from)), RollOf(b, from))
         /\ CausalRollback(b, from) = RollOf(b, from)[Len(EventsToUndo(from))]
<1>1. \E g : Rolling(b, from, Len(EventsToUndo(from)), g)
  BY RollingThere
<1>2. Rolling(b, from, Len(EventsToUndo(from)), RollOf(b, from))
  BY <1>1 DEF RollOf
<1>3. CausalRollback(b, from) = RollOf(b, from)[Len(EventsToUndo(from))]
  BY DEF CausalRollback, RollOf, Rolling, Present
<1> QED BY <1>2, <1>3

(* Nothing is undone at first.                                             *)
LEMMA RollStart ==
  ASSUME Rewindable
  PROVE  RolledBox(Present) /\ Rolled(causal_history, undone, channels, pending, {}, Present)
<1> DEFINE h == causal_history
<1>1. /\ Present.channels = channels /\ Present.pending = pending /\ Present.gone = gone
      /\ Present.ok = TRUE /\ Shape(Present)
  BY DEF Present, Shape
<1>2. RolledBox(Present)
  BY <1>1 DEF RolledBox, Rewindable, Typed, Isolated
<1>3. RolledMail(h, channels, pending, {}, Present)
  BY <1>1 DEF RolledMail, Rewindable, Sound, Untouched
<1>4. RolledAll(h, channels, pending, {}, Present)
  BY <1>1 DEF RolledAll
<1>5. RolledExact(h, undone, channels, pending, {}, Present)
  BY <1>1 DEF RolledExact, Distinct
<1> QED BY <1>2, <1>3, <1>4, <1>5 DEF Rolled

(* The events that a rewind undoes.                                        *)
After(b, from) == {j \in Mine(causal_history, b) : j > from}

(* The latest k events, those of them that are the timeline's              *)
Latest(b, k) == {j \in Mine(causal_history, b) : j > Len(causal_history) - k}

(* The rollback, event by event: what one event of it keeps stays.         *)
LEMMA RolledSoFar ==
  ASSUME Rewindable, NEW b, NEW from \in Nat, from <= Len(causal_history)
  PROVE  LET N == Len(causal_history) - from
             g == RollOf(b, from)
         IN  /\ N \in Nat /\ CausalRollback(b, from) = g[N] /\ g[0] = Present
             /\ Latest(b, 0) = {} /\ Latest(b, N) = After(b, from)
             /\ \A k \in 1 .. N :
                  LET i == Len(causal_history) + 1 - k
                  IN  /\ i \in 1 .. Len(causal_history) /\ g[k] = UndoEvent(b, g[k - 1], i)
                      /\ Latest(b, k) = (IF causal_history[i].branch = b
                                         THEN Latest(b, k - 1) \cup {i} ELSE Latest(b, k - 1))
                      /\ \A j \in Latest(b, k - 1) : i < j
             /\ \A k \in 0 .. N : RolledBox(g[k])
                  /\ Rolled(causal_history, undone, channels, pending, Latest(b, k), g[k])
<1> DEFINE h == causal_history
           last == Len(h)
           events == EventsToUndo(from)
           N == last - from
           g == RollOf(b, from)
           Good(k) == RolledBox(g[k]) /\ Rolled(h, undone, channels, pending, Latest(b, k), g[k])
           T == {k \in 0 .. N : ~Good(k)}
<1>1. last \in Nat /\ N \in Nat
  BY SMT DEF Rewindable, Typed
<1>2. /\ events = [k \in 1 .. N |-> last + 1 - k] /\ Len(events) = N
      /\ \A k \in 1 .. N : events[k] = last + 1 - k
  BY <1>1, SMT DEF EventsToUndo
<1>3. /\ Rolling(b, from, N, g) /\ CausalRollback(b, from) = g[N]
  BY <1>1, <1>2, RollbackIs
<1> HIDE DEF g
<1>4. \A k \in 0 .. N : g[k] = IF k = 0 THEN Present ELSE UndoEvent(b, g[k - 1], events[k])
  BY <1>3 DEF Rolling
<1> HIDE DEF events, N, last
<1>5. /\ 0 \in 0 .. N
      /\ \A j \in 1 .. last : ~(j > last - 0)
      /\ \A k \in 1 .. N : /\ k - 1 \in 0 .. N /\ ~(k <= k - 1) /\ k \in 0 .. N /\ k # 0
                           /\ last + 1 - k \in 1 .. last
                           /\ ~(last + 1 - k > last - (k - 1))
                           /\ \A j \in 1 .. last : j > last - k <=> j = last + 1 - k \/ j > last - (k - 1)
                           /\ \A j \in 1 .. last : j > last - (k - 1) => last + 1 - k < j
      /\ \A k \in 0 .. N : k = 0 \/ k \in 1 .. N
      /\ N \in 0 .. N
  BY <1>1, SMT DEF N
<1>6. \A k : Latest(b, k) = {j \in Mine(h, b) : j > last - k}
  BY DEF Latest, last
<1>7. \A j \in Mine(h, b) : j \in 1 .. last /\ h[j].branch = b
  BY DEF Mine, last
<1>8. Latest(b, 0) = {}
  BY <1>5, <1>6, <1>7
<1>9. Good(0)
  BY <1>4, <1>5, <1>8, RollStart
<1>10. ASSUME NEW k \in 1 .. N
       PROVE  LET i == last + 1 - k
              IN  /\ i \in 1 .. last /\ g[k] = UndoEvent(b, g[k - 1], i)
                  /\ Latest(b, k) = (IF h[i].branch = b
                                     THEN Latest(b, k - 1) \cup {i} ELSE Latest(b, k - 1))
                  /\ \A j \in Latest(b, k - 1) : i < j
  <2> DEFINE i == last + 1 - k
             Q == IF h[i].branch = b THEN Latest(b, k - 1) \cup {i} ELSE Latest(b, k - 1)
  <2>1. i \in 1 .. last /\ \A j \in Latest(b, k - 1) : i < j
    BY <1>5, <1>6, <1>7
  <2>2. Latest(b, k) = Q
    <3>1. h[i].branch = b => i \in Mine(h, b)
      BY <2>1 DEF Mine, last
    <3>2. \A j \in Latest(b, k) : j \in Q
      BY <1>5, <1>6, <1>7
    <3>3. \A j \in Q : j \in Latest(b, k)
      BY <1>5, <1>6, <1>7, <3>1
    <3> QED BY <3>2, <3>3
  <2>3. g[k] = UndoEvent(b, g[k - 1], i)
    BY <1>2, <1>4, <1>5
  <2> QED BY <2>1, <2>2, <2>3
<1>11. ASSUME NEW k \in 1 .. N, Good(k - 1) PROVE Good(k)
  <2> DEFINE i == last + 1 - k
             P == Latest(b, k - 1)
             Q == IF h[i].branch = b THEN P \cup {i} ELSE P
  <2>1. i \in 1 .. last /\ i \notin P /\ Latest(b, k) = Q /\ g[k] = UndoEvent(b, g[k - 1], i)
    BY <1>5, <1>6, <1>10
  <2>2. RolledBox(g[k - 1]) /\ Rolled(h, undone, channels, pending, P, g[k - 1])
    BY <1>11
  <2> HIDE DEF i, P
  <2>3. /\ RolledBox(UndoEvent(b, g[k - 1], i))
        /\ Rolled(h, undone, channels, pending, Q, UndoEvent(b, g[k - 1], i))
    BY <2>1, <2>2, UndoOne DEF last
  <2> QED BY <2>1, <2>3
<1>12. T = {}
  <2> SUFFICES ASSUME T # {} PROVE FALSE
    OBVIOUS
  <2> HIDE DEF Good
  <2>1. T \subseteq Nat
    BY <1>1, SMT DEF N
  <2>2. PICK k \in T : \A y \in T : k <= y
    <3> HIDE DEF T
    <3> QED BY <2>1, Least
  <2>3. k \in 0 .. N /\ ~Good(k)
    OBVIOUS
  <2>4. k # 0
    BY <1>9, <2>3
  <2>5. k \in 1 .. N
    BY <1>5, <2>3, <2>4
  <2>6. k - 1 \in 0 .. N /\ ~(k <= k - 1)
    BY <1>5, <2>5
  <2>7. Good(k - 1)
    BY <2>2, <2>6
  <2> QED BY <1>11, <2>3, <2>5, <2>7
<1>13. \A k \in 0 .. N : Good(k)
  <2> HIDE DEF Good
  <2> QED BY <1>12
<1>14. Latest(b, N) = After(b, from)
  <2>1. last - N = from
    BY <1>1, SMT DEF N
  <2> QED BY <1>6, <2>1 DEF After
<1>15. g[0] = Present
  BY <1>4, <1>5
<1> QED BY <1>1, <1>3, <1>8, <1>10, <1>13, <1>14, <1>15 DEF last, N, g

(* So the whole rollback keeps it.                                         *)
LEMMA RolledBack ==
  ASSUME Rewindable, NEW b, NEW from \in Nat, from <= Len(causal_history)
  PROVE  /\ RolledBox(CausalRollback(b, from))
         /\ Rolled(causal_history, undone, channels, pending, After(b, from),
                   CausalRollback(b, from))
<1> DEFINE N == Len(causal_history) - from
           g == RollOf(b, from)
<1>1. /\ N \in Nat /\ CausalRollback(b, from) = g[N] /\ Latest(b, N) = After(b, from)
      /\ \A k \in 0 .. N : RolledBox(g[k])
           /\ Rolled(causal_history, undone, channels, pending, Latest(b, k), g[k])
  BY RolledSoFar
<1> HIDE DEF N, g
<1>2. N \in 0 .. N
  BY <1>1, SMT
<1> QED BY <1>1, <1>2

-----------------------------------------------------------------------------
(* rewind_to                                                               *)

(* What a rewind that succeeds does, st being what the rollback leaves and *)
(* tl the timeline as the anchor has it.                                   *)
Back(b, anchor, st, tl) ==
  /\ anchor.history_index \in Nat /\ anchor.history_index <= Len(causal_history)
  /\ \E a \in DOMAIN timeline[b].anchors : timeline[b].anchors[a] = anchor
  /\ st.ok /\ RolledBox(st)
  /\ Rolled(causal_history, undone, channels, pending, After(b, anchor.history_index), st)
  /\ channels' = st.channels /\ pending' = st.pending /\ gone' = st.gone
  /\ undone' = undone \cup After(b, anchor.history_index)
  /\ orderly' = (orderly /\ Orderly(b, anchor))
  /\ tl \in Lines /\ tl.arena = anchor.arena /\ tl.anchors = timeline[b].anchors
  /\ anchor.depth = 0 => tl.depth = 0
  /\ timeline' = [timeline EXCEPT ![b] = tl] /\ running' \in {Main, b}
  /\ UNCHANGED <<next_payload_id, causal_history, speculation_stack,
                 speculative_commit_mode, block, fault, ticks>>

(* An anchor is a snapshot of the past.                                    *)
LEMMA AnchorIs ==
  ASSUME Typed, NEW b \in Branches, NEW a \in DOMAIN timeline[b].anchors
  PROVE  /\ timeline[b].anchors[a] \in Snapshots
         /\ timeline[b].anchors[a].history_index \in Nat
         /\ timeline[b].anchors[a].history_index <= Len(causal_history)
         /\ timeline[b].anchors[a].undone \subseteq undone
         /\ timeline[b].anchors[a].arena \in Arenas
         /\ timeline[b].anchors[a].depth \in 0 .. MaxSpec
<1>1. timeline[b] \in Lines /\ Past(causal_history, undone, timeline[b])
  BY StackIs
<1>2. timeline[b].anchors \in AnchorMaps
  BY <1>1, LineIs
<1>3. timeline[b].anchors[a] \in Snapshots
  BY <1>2 DEF AnchorMaps
<1>4. \A x \in Snapshots : x.history_index \in Nat /\ x.arena \in Arenas /\ x.depth \in 0 .. MaxSpec
  BY DEF Snapshots
<1> QED BY <1>1, <1>3, <1>4 DEF Past

(* A rewind fails, or goes back.                                           *)
LEMMA RewindIs ==
  ASSUME ChannelsInv, fault = "none", NEW b \in Branches, NEW a, Rewind(b, a)
  PROVE  \/ fault' # "none" /\ ChannelsInv'
         \/ /\ a \in DOMAIN timeline[b].anchors
            /\ \E tl : Back(b, timeline[b].anchors[a],
                            CausalRollback(b, timeline[b].anchors[a].history_index), tl)
<1> DEFINE h == causal_history
           anchor == timeline[b].anchors[a]
           from == anchor.history_index
           st == CausalRollback(b, from)
<1>1. Typed /\ Rewindable
  BY DEF ChannelsInv, Rewindable
<1>2. CASE Fails("AnchorNotFound") /\ UNCHANGED ChannelState
  <2>1. fault' # "none"
    BY <1>2 DEF Fails
  <2>2. ChannelsInv'
    BY <1>1, <1>2, FailKeeps DEF Fails, ChannelState, Speculation, Control, Ghosts, Typed
  <2> QED BY <2>1, <2>2
<1>3. CASE /\ a \in DOMAIN timeline[b].anchors
           /\ channels' = st.channels /\ pending' = st.pending
           /\ UNCHANGED <<next_payload_id, causal_history, Speculation, ticks>>
           /\ \/ /\ st.ok
                 /\ Land(b, anchor.block, [timeline[b] EXCEPT !.arena = anchor.arena,
                                                              !.depth = anchor.depth])
                 /\ gone' = st.gone
                 /\ undone' = undone \cup {i \in Own(b) : i > from}
                 /\ orderly' = (orderly /\ Orderly(b, anchor))
                 /\ UNCHANGED fault
              \/ /\ ~st.ok /\ fault' = "Paradox"
                 /\ UNCHANGED <<timeline, Control, gone, undone, orderly>>
  <2>1. from \in Nat /\ from <= Len(h) /\ anchor.arena \in Arenas /\ anchor.depth \in 0 .. MaxSpec
    BY <1>1, <1>3, AnchorIs
  <2>2. RolledBox(st) /\ Rolled(h, undone, channels, pending, After(b, from), st)
    BY <1>1, <2>1, RolledBack
  <2>3. UNCHANGED <<next_payload_id, causal_history, speculation_stack, speculative_commit_mode, ticks>>
        /\ channels' = st.channels /\ pending' = st.pending
    BY <1>3 DEF Speculation
  <2> HIDE DEF st
  <2>4. CASE fault' = "Paradox" /\ UNCHANGED <<timeline, Control, gone, undone, orderly>>
    <3>1. UNCHANGED <<timeline, running, block, gone, undone, orderly>> /\ fault' # "none"
      BY <2>4 DEF Control
    <3>2. Typed'
      BY <1>1, <2>2, <2>3, <3>1 DEF Typed, RolledBox
    <3>3. Isolated(h, ticks, channels, pending)'
      BY <1>1, <2>2, <2>3, <3>1 DEF Rewindable, Isolated, RolledBox
    <3> QED BY <3>1, <3>2, <3>3 DEF ChannelsInv
  <2>5. CASE /\ st.ok
             /\ Land(b, anchor.block, [timeline[b] EXCEPT !.arena = anchor.arena,
                                                          !.depth = anchor.depth])
             /\ gone' = st.gone
             /\ undone' = undone \cup {i \in Own(b) : i > from}
             /\ orderly' = (orderly /\ Orderly(b, anchor))
             /\ UNCHANGED fault
    <3> DEFINE base == [timeline[b] EXCEPT !.arena = anchor.arena, !.depth = anchor.depth]
               out == JumpsOut(b, anchor.block)
               tl == IF out THEN [base EXCEPT !.depth = 0] ELSE base
    <3>1. /\ timeline' = [timeline EXCEPT ![b] = tl]
          /\ running' = (IF out THEN Main ELSE b) /\ UNCHANGED block
      BY <2>5 DEF Land
    <3>2. timeline[b] \in Lines
      BY <1>1, StackIs
    <3>3. /\ base \in Lines /\ base.arena = anchor.arena /\ base.anchors = timeline[b].anchors
          /\ base.depth = anchor.depth
      BY <2>1, <3>2 DEF Lines
    <3>4. 0 \in 0 .. MaxSpec
      BY ChannelAssumption, SMT
    <3> HIDE DEF base, out
    <3>5. /\ tl \in Lines /\ tl.arena = anchor.arena /\ tl.anchors = timeline[b].anchors
          /\ (anchor.depth = 0 => tl.depth = 0)
      BY <3>3, <3>4, LineIs
    <3> HIDE DEF tl
    <3>6. {i \in Own(b) : i > from} = After(b, from)
      <4>1. DOMAIN h = 1 .. Len(h)
        BY <1>1, EventIs DEF Typed
      <4> QED BY <4>1 DEF Own, After, Mine
    <3> HIDE DEF anchor
    <3>7. \E x \in DOMAIN timeline[b].anchors : timeline[b].anchors[x] = anchor
      BY <1>3 DEF anchor
    <3>8. Back(b, anchor, st, tl)
      BY <2>1, <2>2, <2>3, <2>5, <3>1, <3>5, <3>6, <3>7 DEF Back
    <3> QED BY <1>3, <3>8 DEF anchor, st
  <2> QED BY <1>3, <2>4, <2>5 DEF st
<1> QED BY <1>2, <1>3 DEF Rewind

(* The depths are kept, and the timeline has no block of its own open.     *)
Level(tls, tls2, stack, b) ==
  /\ Len(stack) \in Nat /\ tls[Main].depth \in Nat /\ tls[b].depth = 0
  /\ \A d \in Branches : tls2[d].depth = tls[d].depth

(* Main has opened every block that is open.                               *)
OfMain(tls, run, stack) == \A k \in 1 .. Len(stack) : Owner(tls, run, k) = Main

(* With no block of its own open, the running timeline hands control back, *)
(* or does not.                                                            *)
LEMMA HandedBack ==
  ASSUME NEW tls, NEW stack, NEW b \in Branches, NEW blk, Stacked(tls, stack, b, blk),
         NEW tls2, Level(tls, tls2, stack, b), NEW run \in {Main, b}
  PROVE  /\ Stacked(tls2, stack, run, blk)
         /\ OfMain(tls2, run, stack) /\ OfMain(tls, b, stack)
         /\ \A k \in 1 .. Len(stack) : b # Main
<1>0. /\ Len(stack) \in Nat /\ tls[Main].depth \in Nat /\ tls[b].depth = 0
      /\ \A d \in Branches : tls2[d].depth = tls[d].depth
  BY DEF Level
<1>1. Main \in Branches /\ tls2[Main].depth = tls[Main].depth
  BY <1>0 DEF Branches
<1>2. /\ Len(stack) = tls[Main].depth + (IF b = Main THEN 0 ELSE 0)
      /\ \A d \in Branches \ {Main} : tls[d].depth = 0
      /\ \A k \in 1 .. Len(stack) : stack[k].start.depth = k - 1 - Below(tls, k)
  BY <1>0 DEF Stacked
<1>3. Len(stack) = tls[Main].depth
  BY <1>0, <1>2, SMT
<1>4. \A k \in 1 .. Len(stack) : k <= tls[Main].depth
  BY <1>0, <1>3, SMT
<1>5. \A k \in 1 .. Len(stack) : /\ Owner(tls2, run, k) = Main /\ Owner(tls, b, k) = Main
                                 /\ Below(tls2, k) = Below(tls, k)
  BY <1>1, <1>4 DEF Owner, Below
<1>6. b = Main => 1 .. Len(stack) = {}
  BY <1>0, <1>3, SMT
<1>7. Len(stack) = tls2[Main].depth + (IF run = Main THEN 0 ELSE tls2[run].depth)
  <2>1. run # Main => tls2[run].depth = 0
    BY <1>0
  <2> QED BY <1>0, <1>1, <1>3, <2>1, SMT
<1>8. Stacked(tls2, stack, run, blk)
  BY <1>0, <1>2, <1>5, <1>7 DEF Stacked
<1> QED BY <1>5, <1>6, <1>8 DEF OfMain

(* Nothing is recalled after a rewind that was not before.                 *)
LEMMA BackRecalls ==
  ASSUME Typed, NEW b \in Branches, NEW anchor, NEW st, NEW tl, Back(b, anchor, st, tl)
  PROVE  /\ timeline' \in [Branches -> Lines] /\ timeline'[b] = tl
         /\ \A d \in Branches : d # b => timeline'[d] = timeline[d]
         /\ \A id : Remembered(timeline', speculation_stack, id)
                      => Remembered(timeline, speculation_stack, id)
<1>1. /\ timeline' \in [Branches -> Lines] /\ timeline'[b] = tl
      /\ \A d \in Branches : d # b => timeline'[d] = timeline[d]
  BY PutIs DEF Back, Typed
<1>2. ASSUME NEW id, Recalls(tl, id) PROVE Recalls(timeline[b], id)
  BY <1>2 DEF Back, Recalls
<1>3. ASSUME NEW id, Remembered(timeline', speculation_stack, id)
      PROVE  Remembered(timeline, speculation_stack, id)
  BY <1>1, <1>2, <1>3 DEF Remembered
<1> QED BY <1>1, <1>3

(* The types, after a rewind.                                              *)
LEMMA BackTyped ==
  ASSUME Typed, NEW b \in Branches, b = running, NEW anchor, NEW st, NEW tl,
         Back(b, anchor, st, tl)
  PROVE  Typed'
<1> DEFINE h == causal_history
           P == After(b, anchor.history_index)
<1>1. /\ h' = h /\ undone' = undone \cup P /\ h \in Seq(Events)
      /\ speculation_stack' = speculation_stack /\ tl \in Lines /\ tl.anchors = timeline[b].anchors
  BY DEF Back, Typed
<1>2. Extends(h, h)
  BY <1>1, SMT DEF Extends
<1>3. P \subseteq 1 .. Len(h)
  BY DEF After, Mine
<1> HIDE DEF P
<1>4. \A x \in Lines : Past(h, undone, x) => Past(h, undone', x)
  <2> TAKE x \in Lines
  <2>1. undone \subseteq undone'
    BY <1>1
  <2> QED BY <1>2, <2>1, PastStep
<1>5. timeline' \in [Branches -> Lines] /\ timeline'[b] = tl
      /\ \A d \in Branches : d # b => timeline'[d] = timeline[d]
  BY BackRecalls
<1>6. Past(h, undone, tl)
  <2>1. Past(h, undone, timeline[b])
    BY DEF Typed
  <2> QED BY <1>1, <2>1 DEF Past
<1>7. \A d \in Branches : Past(h, undone', timeline'[d])
  BY <1>1, <1>4, <1>5, <1>6, StackIs
<1>8. \A k \in 1 .. Len(speculation_stack) : Past(h, undone', speculation_stack[k].start)
  BY <1>4, StackIs
<1>9. Boxed(channels', pending') /\ gone' \subseteq 1 .. MaxSend
  BY DEF Back, RolledBox
<1>10. undone' \subseteq 1 .. Len(h)
  BY <1>1, <1>3 DEF Typed
<1>11. running' \in Branches
  BY DEF Back, Branches
<1>12. UNCHANGED <<next_payload_id, speculative_commit_mode, block, ticks>>
  BY DEF Back
<1> HIDE DEF h
<1>13. /\ speculation_stack' \in Seq(Contexts)
       /\ \A k \in 1 .. Len(speculation_stack') :
            Past(causal_history', undone', speculation_stack'[k].start)
  BY <1>1, <1>8 DEF h, Typed
<1>14. /\ causal_history' \in Seq(Events) /\ undone' \subseteq 1 .. Len(causal_history')
       /\ \A d \in Branches : Past(causal_history', undone', timeline'[d])
  BY <1>1, <1>7, <1>10 DEF h
<1> QED BY <1>5, <1>9, <1>11, <1>12, <1>13, <1>14 DEF Typed

(* What was sent, received and lost, after a rewind.                       *)
LEMMA BackSound ==
  ASSUME Rewindable, NEW b \in Branches, NEW anchor, NEW st, NEW tl, Back(b, anchor, st, tl)
  PROVE  Sound'
<1> DEFINE h == causal_history
           P == After(b, anchor.history_index)
           C(id) == Carried(channels, pending, id)
           C2(id) == Carried(channels', pending', id)
<1>1. /\ h' = h /\ undone' = undone \cup P
      /\ channels' = st.channels /\ pending' = st.pending /\ gone' = st.gone
      /\ UNCHANGED <<next_payload_id, speculation_stack>>
      /\ RolledMail(h, channels, pending, P, st) /\ RolledAll(h, channels, pending, P, st)
      /\ gone \subseteq gone' /\ DOMAIN channels' = DOMAIN channels
  BY DEF Back, Rolled, RolledBox
<1> HIDE DEF P
<1>2. Typed /\ Sound /\ h \in Seq(Events)
  BY DEF Rewindable, Typed
<1>3. Posted(h, channels', pending')
  <2>1. Settled(h, next_payload_id, channels, pending)
    BY <1>2 DEF Sound, Settled
  <2> QED BY <1>1, <2>1, RolledPosted
<1>4. \A id : Remembered(timeline', speculation_stack, id)
                => Remembered(timeline, speculation_stack, id)
  BY <1>2, BackRecalls
<1>5. Untouched(h, channels', pending', timeline', speculation_stack)
  <2> SUFFICES ASSUME NEW c \in Chans, NEW m \in Mail(channels', pending', c), ~Taken(h, m.id)
               PROVE  /\ Lone(channels', pending', c, m)
                      /\ ~Remembered(timeline', speculation_stack, m.id)
    BY DEF Untouched
  <2>1. Lone(channels', pending', c, m)
    BY <1>1 DEF RolledMail
  <2>2. m \in Mail(channels, pending, c) \/ Returned(h, P, m, c)
    BY <1>1 DEF RolledMail
  <2>3. ~Returned(h, P, m, c)
    BY DEF Returned, Taken
  <2>4. ~Remembered(timeline, speculation_stack, m.id)
    BY <1>2, <2>2, <2>3 DEF Sound, Untouched
  <2> QED BY <1>4, <2>1, <2>4
<1>6. \A id : C(id) => C2(id) \/ id \in gone'
  BY <1>1 DEF RolledAll, Carried
<1>7. \A j \in P \cap Recvs(h) : C2(h[j].msg.id) \/ h[j].msg.id \in gone'
  <2> TAKE j \in P \cap Recvs(h)
  <2>1. h[j].chan \in Chans
    BY <1>2, EventIs DEF Recvs
  <2> QED BY <1>1, <2>1 DEF RolledAll, Carried
<1>8. Accounted(h, undone', channels', pending', gone')
  <2> SUFFICES ASSUME NEW i \in Sends(h)
               PROVE  \/ C2(h[i].msg.id) \/ Receipt(h, undone', h[i].msg.id)
                      \/ h[i].msg.id \in gone'
    BY DEF Accounted
  <2>1. C(h[i].msg.id) \/ Receipt(h, undone, h[i].msg.id) \/ h[i].msg.id \in gone
    BY <1>2 DEF Sound, Accounted
  <2>2. CASE Receipt(h, undone, h[i].msg.id)
    <3>1. PICK j \in Recvs(h) \ undone : h[j].msg.id = h[i].msg.id
      BY <2>2 DEF Receipt, Standing
    <3>2. CASE j \in P
      BY <1>7, <3>1, <3>2
    <3>3. CASE j \notin P
      BY <1>1, <3>1, <3>3 DEF Receipt, Standing
    <3> QED BY <3>2, <3>3
  <2> QED BY <1>1, <1>6, <2>1, <2>2
<1>9. Known(next_payload_id, timeline', speculation_stack)
  BY <1>2, <1>4 DEF Sound, Known
<1>10. Numbered(h, next_payload_id) /\ Addressed(h, channels')
  BY <1>1, <1>2 DEF Sound, Addressed
<1> HIDE DEF h
<1>11. causal_history' = causal_history /\ next_payload_id' = next_payload_id
       /\ speculation_stack' = speculation_stack
  BY <1>1 DEF h
<1> QED BY <1>3, <1>5, <1>8, <1>9, <1>10, <1>11 DEF Sound, h

(* The place of every message, after an orderly rewind.                    *)
LEMMA BackExact ==
  ASSUME Rewindable, Exact, NEW b \in Branches, b = running, NEW anchor, NEW st, NEW tl,
         Back(b, anchor, st, tl), Orderly(b, anchor)
  PROVE  Exact'
<1> DEFINE h == causal_history
           hi == anchor.history_index
           P == After(b, hi)
           S == Standing(h, undone)
           S2 == Standing(h, undone')
           Was(d, id, n) == Safe(h, undone, channels, pending, d, id, n)
           Is(d, id, n) == Safe(h, undone', channels', pending', d, id, n)
           LineWas(d, x) == LineSafe(h, undone, channels, pending, d, x)
           LineIsNow(d, x) == LineSafe(h, undone', channels', pending', d, x)
<1>1. /\ h' = h /\ undone' = undone \cup P
      /\ channels' = st.channels /\ pending' = st.pending
      /\ UNCHANGED <<next_payload_id, speculation_stack, block>>
      /\ RolledMail(h, channels, pending, P, st) /\ RolledExact(h, undone, channels, pending, P, st)
      /\ tl \in Lines /\ tl.arena = anchor.arena /\ tl.anchors = timeline[b].anchors
      /\ anchor.depth = 0 => tl.depth = 0
      /\ running' \in {Main, b} /\ hi \in Nat /\ hi <= Len(h)
  BY DEF Back, Rolled
<1>2. /\ Typed /\ Sound /\ h \in Seq(Events) /\ DOMAIN h = 1 .. Len(h) /\ Len(h) \in Nat
  BY EventIs DEF Rewindable, Typed
<1>3. /\ timeline[b].depth = 0 /\ tl.depth = 0 /\ Current(h, undone, b, anchor)
  BY <1>1, <1>2 DEF Orderly, Own, Current, Mine
<1>4. \A j \in P : j \in Mine(h, b) /\ j \notin undone /\ ~(j <= hi)
  <2> TAKE j \in P
  <2>1. j \in Mine(h, b) /\ j > hi /\ j \in Nat
    BY <1>2, SMT DEF After, Mine
  <2>2. ~(j <= hi)
    BY <1>1, <2>1, SMT
  <2> QED BY <1>3, <2>1, <2>2 DEF Current
<1>5. timeline' \in [Branches -> Lines] /\ timeline'[b] = tl
      /\ \A d \in Branches : d # b => timeline'[d] = timeline[d]
  BY <1>2, BackRecalls
<1> HIDE DEF P, hi
<1>6. /\ Distinct(h, undone, channels, pending) /\ P \cap Recvs(h) \subseteq S
      /\ S2 = S \ P
  BY <1>1, <1>4 DEF Exact, Standing
<1>7. Distinct(h, undone', channels', pending')
  <2>1. /\ \A c \in Chans : \A m \in Mail(channels', pending', c) : Lone(channels', pending', c, m)
        /\ \A i \in S \ P : \A c \in Chans : h[i].msg \notin Mail(channels', pending', c)
    BY <1>1, <1>6 DEF RolledExact
  <2> QED BY <1>6, <2>1 DEF Distinct
<1>8. \A id : Spared(h, undone, channels, pending, h, undone', channels', pending', id)
  <2> SUFFICES ASSUME NEW id, ~Carried(channels, pending, id), ~Receipt(h, undone, id)
               PROVE  ~Carried(channels', pending', id) /\ ~Receipt(h, undone', id)
    BY DEF Spared
  <2>1. ~Receipt(h, undone', id)
    BY <1>6 DEF Receipt
  <2>2. ASSUME NEW c \in Chans, NEW m \in Mail(channels', pending', c), m.id = id PROVE FALSE
    <3>1. m \notin Mail(channels, pending, c)
      BY <2>2 DEF Carried
    <3>2. PICK j \in P \cap Recvs(h) : h[j].msg = m
      BY <1>1, <3>1 DEF RolledMail, Returned
    <3> QED BY <1>6, <2>2, <3>2 DEF Receipt
  <2> QED BY <2>1, <2>2 DEF Carried
<1>9. Extends(h, h) /\ undone \subseteq undone'
  BY <1>1, <1>2, SMT DEF Extends
<1>10. ASSUME NEW d \in Branches, d # b, NEW x, LineWas(d, x) PROVE LineIsNow(d, x)
  <2>1. Mine(h, d) \cap S \subseteq S2
    BY <1>4, <1>6, <1>10 DEF Mine
  <2> HIDE DEF h
  <2> QED BY <1>8, <1>9, <1>10, <2>1, LineStep
<1>11. ASSUME NEW id, NEW n, NEW k, Was(b, id, n),
              \A i \in Mine(h, b) \cap S : i <= n => i \notin P /\ i <= k
       PROVE  Is(b, id, k)
  BY <1>6, <1>8, <1>11 DEF Safe, Spared
<1>12. LineWas(b, timeline[b])
  BY DEF Exact, LinesSafe
<1>13. LineIsNow(b, tl)
  <2>1. ASSUME NEW id \in tl.arena PROVE Is(b, id, Len(h))
    <3>1. PICK a \in DOMAIN timeline[b].anchors : timeline[b].anchors[a] = anchor
      BY DEF Back
    <3>2. Was(b, id, hi)
      BY <1>1, <1>3, <1>12, <2>1, <3>1 DEF LineSafe, hi
    <3>3. \A i \in Mine(h, b) \cap S : i <= hi => i \notin P /\ i <= Len(h)
      <4>1. \A i \in Mine(h, b) : i <= Len(h)
        BY <1>2, SMT DEF Mine
      <4> QED BY <1>4, <4>1
    <3> HIDE DEF Was, Is
    <3> QED BY <1>11, <3>2, <3>3
  <2>2. ASSUME NEW a \in DOMAIN tl.anchors, Current(h, undone', b, tl.anchors[a]),
               NEW id \in tl.anchors[a].arena
        PROVE  Is(b, id, tl.anchors[a].history_index)
    <3> DEFINE x == tl.anchors[a]
    <3>1. Current(h, undone, b, x)
      BY <1>9, <2>2 DEF Current
    <3>2. Was(b, id, x.history_index)
      BY <1>1, <1>12, <2>2, <3>1 DEF LineSafe
    <3>3. x.undone \subseteq undone
      BY <1>1, <1>2, <2>2, AnchorIs
    <3>4. \A i \in P : FALSE
      BY <1>1, <1>4, <2>2, <3>3 DEF Current
    <3> HIDE DEF Was, Is
    <3> QED BY <1>11, <3>2, <3>4
  <2> QED BY <2>1, <2>2 DEF LineSafe
<1>14. LinesSafe(h, undone', channels', pending', timeline')
  <2> SUFFICES ASSUME NEW d \in Branches PROVE LineIsNow(d, timeline'[d])
    BY DEF LinesSafe
  <2>1. CASE d = b
    BY <1>5, <1>13, <2>1
  <2>2. CASE d # b
    <3>1. LineWas(d, timeline[d])
      BY DEF Exact, LinesSafe
    <3> HIDE DEF LineWas, LineIsNow
    <3> QED BY <1>5, <1>10, <2>2, <3>1
  <2> QED BY <2>1, <2>2
<1>15. /\ Stacked(timeline', speculation_stack, running', block)
       /\ \A k \in 1 .. Len(speculation_stack) :
            /\ Owner(timeline', running', k) = Main /\ Owner(timeline, b, k) = Main /\ b # Main
  <2>1. \A d \in Branches : timeline'[d].depth = timeline[d].depth
    BY <1>3, <1>5
  <2>2. Stacked(timeline, speculation_stack, b, block)
    BY DEF Exact
  <2>3. Len(speculation_stack) \in Nat /\ timeline[Main].depth \in Nat
    BY <1>2, StackIs
  <2>4. Level(timeline, timeline', speculation_stack, b) /\ running' \in {Main, b}
    BY <1>1, <1>3, <2>1, <2>3 DEF Level
  <2>5. /\ Stacked(timeline', speculation_stack, running', block)
        /\ OfMain(timeline', running', speculation_stack)
        /\ OfMain(timeline, b, speculation_stack)
        /\ \A k \in 1 .. Len(speculation_stack) : b # Main
    BY <2>2, <2>4, HandedBack, Zenon
  <2> QED BY <2>5 DEF OfMain
<1>16. StackSafe(h, undone', channels', pending', timeline', speculation_stack, running')
  <2> SUFFICES ASSUME NEW k \in 1 .. Len(speculation_stack)
               PROVE  LineIsNow(Owner(timeline', running', k), speculation_stack[k].start)
    BY DEF StackSafe
  <2>1. LineWas(Main, speculation_stack[k].start)
    BY <1>15 DEF Exact, StackSafe
  <2>2. Main \in Branches /\ Main # b
    BY <1>15 DEF Branches
  <2> HIDE DEF LineWas, LineIsNow
  <2> QED BY <1>10, <1>15, <2>1, <2>2
<1> HIDE DEF h
<1>17. causal_history' = h /\ speculation_stack' = speculation_stack /\ block' = block
  BY <1>1 DEF h
<1> QED BY <1>7, <1>14, <1>15, <1>16, <1>17 DEF Exact

(* rewind_to                                                               *)
LEMMA RewindKeeps ==
  ASSUME ChannelsInv, fault = "none", NEW b \in Branches, b = running, NEW a, Rewind(b, a)
  PROVE  ChannelsInv'
<1>1. Rewindable /\ Typed /\ (orderly => Exact)
  BY DEF ChannelsInv, Rewindable
<1>2. CASE fault' # "none" /\ ChannelsInv'
  BY <1>2
<1>3. ASSUME NEW anchor, NEW st, NEW tl, Back(b, anchor, st, tl) PROVE ChannelsInv'
  <2>1. Typed' /\ Sound'
    BY <1>1, <1>3, BackTyped, BackSound
  <2>2. orderly' => Exact'
    <3>1. orderly' = (orderly /\ Orderly(b, anchor))
      BY <1>3 DEF Back
    <3> QED BY <1>1, <1>3, <3>1, BackExact
  <2>3. Isolated(causal_history, ticks, channels, pending)'
    BY <1>1, <1>3 DEF Back, RolledBox, Isolated, Rewindable
  <2> QED BY <2>1, <2>2, <2>3 DEF ChannelsInv
<1> QED BY <1>2, <1>3, RewindIs

-----------------------------------------------------------------------------
(* The invariant                                                           *)

(* It holds at first: there are no channels and nothing has happened.      *)
LEMMA InitInv ==
  ASSUME Init
  PROVE  ChannelsInv
<1> DEFINE tl == [slice |-> FALSE, arena |-> {}, anchors |-> <<>>, depth |-> 0]
<1>1. /\ 1 .. 0 = {} /\ Len(<<>>) = 0 /\ DOMAIN <<>> = {} /\ 0 \in Nat
      /\ \A S : <<>> \in Seq(S)
  BY SMT
<1>2. /\ 1 \in 1 .. MaxSend + 1 /\ 0 \in 0 .. MaxSpec /\ 0 \in 0 .. MaxBlocks
      /\ 0 \in 0 .. MaxTicks
  BY ChannelAssumption, SMT
<1>3. <<>> \in AnchorMaps
  <2>1. <<>> \in [{} -> Snapshots]
    BY SMT
  <2>2. {} \in SUBSET AnchorNames
    OBVIOUS
  <2> QED BY <2>1, <2>2, Zenon DEF AnchorMaps
<1>4. tl \in Lines /\ tl.arena = {} /\ DOMAIN tl.anchors = {} /\ tl.depth = 0
  BY <1>1, <1>2, <1>3 DEF Lines, Arenas
<1> HIDE DEF tl
<1>5. /\ timeline = [b \in Branches |-> tl] /\ Main \in Branches
  BY DEF Init, tl, Branches
<1>6. /\ channels = <<>> /\ pending = <<>> /\ causal_history = <<>> /\ speculation_stack = <<>>
      /\ next_payload_id = 1 /\ speculative_commit_mode = "Selective" /\ running = Main
      /\ block = 0 /\ ticks = [b \in Branches |-> 0] /\ gone = {} /\ undone = {}
  BY DEF Init
<1>7. 1 .. Len(causal_history) = {} /\ 1 .. Len(speculation_stack) = {}
      /\ DOMAIN channels = {} /\ DOMAIN pending = {} /\ Len(speculation_stack) = 0
  BY <1>1, <1>6
<1>8. \A c : Mail(channels, pending, c) = {}
  BY <1>7 DEF Mail
<1>9. \A b \in Branches : timeline[b] = tl
  BY <1>5
<1>10. \A id : ~Remembered(timeline, speculation_stack, id)
  BY <1>4, <1>7, <1>9 DEF Remembered, Recalls
<1>11. /\ Sends(causal_history) = {} /\ Recvs(causal_history) = {}
       /\ Standing(causal_history, undone) = {}
  BY <1>7 DEF Sends, Recvs, Standing
<1>12. Typed
  <2>1. Boxed(channels, pending)
    BY <1>7 DEF Boxed
  <2>2. /\ next_payload_id \in 1 .. MaxSend + 1 /\ speculative_commit_mode \in Modes
        /\ running \in Branches /\ block \in 0 .. MaxBlocks
        /\ ticks \in [Branches -> 0 .. MaxTicks] /\ gone \subseteq 1 .. MaxSend
        /\ undone \subseteq 1 .. Len(causal_history)
    BY <1>2, <1>5, <1>6 DEF Modes
  <2>3. causal_history \in Seq(Events) /\ speculation_stack \in Seq(Contexts)
    BY <1>1, <1>6
  <2>4. timeline \in [Branches -> Lines]
    BY <1>4, <1>5
  <2>5. \A b \in Branches : Past(causal_history, undone, timeline[b])
    BY <1>4, <1>9 DEF Past
  <2> QED BY <1>7, <2>1, <2>2, <2>3, <2>4, <2>5 DEF Typed
<1>13. Isolated(causal_history, ticks, channels, pending)
  BY <1>7, <1>11 DEF Isolated, Ripened, Unripe
<1>14. Sound
  BY <1>7, <1>8, <1>10, <1>11
  DEF Sound, Numbered, Posted, Addressed, Untouched, Known, Accounted
<1>15. Exact
  <2>1. Distinct(causal_history, undone, channels, pending)
    BY <1>8, <1>11 DEF Distinct
  <2>2. LinesSafe(causal_history, undone, channels, pending, timeline)
    BY <1>4, <1>9 DEF LinesSafe, LineSafe
  <2>3. StackSafe(causal_history, undone, channels, pending, timeline, speculation_stack, running)
    BY <1>7 DEF StackSafe
  <2>4. Stacked(timeline, speculation_stack, running, block)
    <3>1. \A b \in Branches : timeline[b].depth = 0
      BY <1>4, <1>9
    <3>2. Len(speculation_stack) = timeline[Main].depth + 0
      BY <1>5, <1>7, <3>1, SMT
    <3> QED BY <1>6, <1>7, <3>1, <3>2 DEF Stacked
  <2> QED BY <2>1, <2>2, <2>3, <2>4 DEF Exact
<1> QED BY <1>12, <1>13, <1>14, <1>15 DEF ChannelsInv

(* Every handler keeps it.                                                 *)
LEMMA NextInv ==
  ASSUME ChannelsInv, [Next]_vars
  PROVE  ChannelsInv'
<1>1. running \in Branches
  BY DEF ChannelsInv, Typed
<1>2. ASSUME fault = "none", ChannelStep(running) PROVE ChannelsInv'
  <2>1. \A c \in Chans : \A n \in Capacities : OpenChan(running, c, n) => ChannelsInv'
    BY <1>2, OpenKeeps
  <2>2. \A c \in Chans : ChanSend(running, c) => ChannelsInv'
    BY <1>1, <1>2, SendKeeps
  <2>3. \A c \in Chans : ChanRecv(running, c) => ChannelsInv'
    BY <1>1, <1>2, RecvKeeps
  <2>4. \A c \in Chans : LoopTickOn(running, c) => ChannelsInv'
    BY <1>1, <1>2, TickOnKeeps
  <2>5. \A cases : Select(running, cases) => ChannelsInv'
    BY <1>1, <1>2, SelectKeeps
  <2>6. (Slice(running) => ChannelsInv') /\ (LoopTick(running) => ChannelsInv')
    BY <1>1, <1>2, SliceKeeps, TickKeeps
  <2> QED BY <1>2, <2>1, <2>2, <2>3, <2>4, <2>5, <2>6 DEF ChannelStep
<1>3. ASSUME fault = "none", TimeTravelStep(running) PROVE ChannelsInv'
  <2>1. \A a \in AnchorNames : Anchor(running, a) => ChannelsInv'
    BY <1>1, <1>3, AnchorKeeps
  <2>2. \A a \in AnchorNames : Rewind(running, a) => ChannelsInv'
    BY <1>1, <1>3, RewindKeeps
  <2>3. /\ Speculate(running) => ChannelsInv'
        /\ EndSpeculate(running) => ChannelsInv'
        /\ Collapse(running) => ChannelsInv'
        /\ Commit(running) => ChannelsInv'
    BY <1>1, <1>3, SpeculateKeeps, EndSpeculateKeeps, CollapseKeeps, CommitKeeps
  <2>4. \A mode \in Modes : SpeculationMode(running, mode) => ChannelsInv'
    BY <1>1, <1>3, ModeKeeps
  <2> QED BY <1>3, <2>1, <2>2, <2>3, <2>4 DEF TimeTravelStep
<1>4. ASSUME fault = "none", NEW w \in Others, EnterBlock(w) \/ LeaveBlock(w) PROVE ChannelsInv'
  BY <1>4, EnterKeeps, LeaveKeeps
<1>5. ASSUME UNCHANGED vars PROVE ChannelsInv'
  <2>1. UNCHANGED <<channels, pending, next_payload_id, causal_history, timeline,
                    speculation_stack, speculative_commit_mode, running, block, fault,
                    ticks, gone, undone, orderly>>
    BY <1>5 DEF vars
  <2>2. Typed' /\ Isolated(causal_history, ticks, channels, pending)'
    BY <2>1 DEF ChannelsInv, Typed
  <2>3. (fault = "none" => Sound /\ (orderly => Exact))'
    BY <2>1 DEF ChannelsInv, Sound, Exact
  <2> QED BY <2>2, <2>3 DEF ChannelsInv
<1> QED BY <1>2, <1>3, <1>4, <1>5 DEF Next

(* The invariant, of every run.                                            *)
THEOREM Invariance == Spec => []ChannelsInv
<1>1. Init => ChannelsInv
  BY InitInv
<1>2. ChannelsInv /\ [Next]_vars => ChannelsInv'
  BY NextInv
<1> QED BY <1>1, <1>2, PTL DEF Spec

(* What the handlers work on keeps its type.                               *)
THEOREM TypeCorrect == Spec => []TypeOK
<1>1. ASSUME Typed PROVE TypeOK
  <2>1. /\ Opened \subseteq Chans /\ DOMAIN pending = Opened
        /\ \A c \in Opened : {channels[c], pending[c]} \subseteq Mailboxes
    BY <1>1 DEF Typed, Boxed, Opened
  <2>2. causal_history \in Seq([op : {"send", "recv"}, branch : Branches,
                                chan : Chans, msg : Messages])
    BY <1>1 DEF Typed, Events
  <2>3. DOMAIN causal_history = 1 .. Len(causal_history)
    BY <1>1, EventIs DEF Typed
  <2>4. ASSUME NEW b \in Branches
        PROVE  /\ timeline[b].slice \in BOOLEAN
               /\ timeline[b].arena \subseteq 1 .. MaxSend
               /\ DOMAIN timeline[b].anchors \subseteq AnchorNames
               /\ timeline[b].depth \in 0 .. MaxSpec
    <3>1. timeline[b] \in Lines
      BY <1>1, StackIs
    <3>2. \A f \in AnchorMaps : DOMAIN f \subseteq AnchorNames
      BY DEF AnchorMaps
    <3> QED BY <3>1, <3>2, LineIs DEF Arenas
  <2> QED BY <1>1, <2>1, <2>2, <2>3, <2>4 DEF TypeOK, Typed
<1>2. ChannelsInv => TypeOK
  BY <1>1 DEF ChannelsInv
<1> QED BY <1>2, Invariance, PTL

(* What a tick's slice sends is receivable after a later tick.             *)
THEOREM Isolation == Spec => []TickIsolation
<1>1. ASSUME ChannelsInv PROVE TickIsolation
  <2>1. /\ Boxed(channels, pending) /\ Ripened(ticks, channels)
    BY <1>1 DEF ChannelsInv, Typed, Isolated
  <2>2. ASSUME NEW m \in AllMail PROVE Ripe(ticks, m)
    <3>1. PICK c \in Opened : \E i \in DOMAIN channels[c].buffer : channels[c].buffer[i] = m
      BY <2>2 DEF AllMail
    <3>2. channels[c].buffer \in Seq(Messages)
      BY <2>1, <3>1, MailboxIs DEF Boxed, Opened
    <3>3. DOMAIN channels[c].buffer = 1 .. Len(channels[c].buffer)
      BY <3>2, SMT
    <3> QED BY <2>1, <3>1, <3>3 DEF Ripened, Mails, Elems, Opened
  <2> QED BY <2>2 DEF TickIsolation, Ripe
<1> QED BY <1>1, Invariance, PTL

-----------------------------------------------------------------------------
(* Where the messages are                                                  *)

(* The ids in the buffers are those that some channel carries.             *)
LEMMA BuffersAre ==
  ASSUME NEW chs, NEW pnd, Boxed(chs, pnd)
  PROVE  \A id : id \in UNION {Ids(chs[c].buffer) \cup Ids(pnd[c].buffer) : c \in DOMAIN chs}
                   <=> Carried(chs, pnd, id)
<1>1. ASSUME NEW c \in DOMAIN chs
      PROVE  /\ c \in Chans
             /\ Ids(chs[c].buffer) \cup Ids(pnd[c].buffer) = {m.id : m \in Mail(chs, pnd, c)}
  <2>1. chs[c] \in Mailboxes /\ pnd[c] \in Mailboxes /\ c \in Chans
    BY DEF Boxed
  <2>2. /\ Ids(chs[c].buffer) = {m.id : m \in Mails(chs[c])}
        /\ Ids(pnd[c].buffer) = {m.id : m \in Mails(pnd[c])}
    BY <2>1, IdsAre
  <2> QED BY <2>1, <2>2 DEF Mail
<1>2. \A c : c \notin DOMAIN chs => Mail(chs, pnd, c) = {}
  BY DEF Mail
<1> QED BY <1>1, <1>2 DEF Carried

(* So are those in the buffers of the state.                               *)
LEMMA InBuffersAre ==
  Boxed(channels, pending) => \A id : id \in InBuffers <=> Carried(channels, pending, id)
BY BuffersAre DEF InBuffers, Opened

(* A message in two places of the channels is one message in one channel.  *)
LEMMA OnePlace ==
  ASSUME Typed, Sound, NEW c \in Opened, NEW d \in Opened,
         NEW m \in Mail(channels, pending, c), NEW x \in Mail(channels, pending, d), m.id = x.id
  PROVE  m = x /\ c = d
<1>1. c \in Chans /\ d \in Chans
  BY DEF Typed, Boxed, Opened
<1>2. Sent(causal_history, m, c) /\ Sent(causal_history, x, d)
  BY <1>1 DEF Sound, Posted
<1> QED BY <1>2, SentOnce DEF Sound

(* A buffer of different messages has as many ids as messages.             *)
LEMMA IdCount ==
  ASSUME NEW mb \in Mailboxes, \A m \in Mails(mb) : Single(mb.buffer, m),
         \A m, x \in Mails(mb) : m.id = x.id => m = x
  PROVE  Cardinality(Ids(mb.buffer)) = Len(mb.buffer)
<1> DEFINE s == mb.buffer
           f == [i \in 1 .. Len(s) |-> s[i].id]
<1>1. s \in Seq(Messages) /\ Len(s) \in Nat /\ DOMAIN s = 1 .. Len(s)
  BY MailboxIs, SMT
<1>2. \A i \in 1 .. Len(s) : s[i] \in Mails(mb)
  BY DEF Mails, Elems
<1>3. \A i, j \in 1 .. Len(s) : s[i].id = s[j].id => i = j
  BY <1>2 DEF Single
<1>4. Ids(s) = {s[i].id : i \in 1 .. Len(s)}
  BY <1>1 DEF Ids
<1>5. f \in Bijection(1 .. Len(s), Ids(s))
  BY <1>3, <1>4 DEF Bijection, Injection, Surjection, IsInjective
<1>6. ExistsBijection(1 .. Len(s), Ids(s))
  BY <1>5 DEF ExistsBijection
<1>7. IsFiniteSet(1 .. Len(s)) /\ Cardinality(1 .. Len(s)) = Len(s)
  <2>1. /\ IsFiniteSet(1 .. Len(s))
        /\ Cardinality(1 .. Len(s)) = IF 1 > Len(s) THEN 0 ELSE Len(s) - 1 + 1
    BY <1>1, FS_Interval
  <2> QED BY <1>1, <2>1, SMT
<1> QED BY <1>6, <1>7, FS_Bijection

(* What a timeline has in its registers no channel carries.                *)
LEMMA HeldNowhereElse ==
  ASSUME Typed, Sound, Exact, NEW b \in Branches, NEW id \in timeline[b].arena
  PROVE  ~Carried(channels, pending, id)
<1> DEFINE h == causal_history
<1>1. Safe(h, undone, channels, pending, b, id, Len(h))
  BY DEF Exact, LinesSafe, LineSafe
<1>2. ASSUME Receipt(h, undone, id), NEW c \in Chans, NEW m \in Mail(channels, pending, c), m.id = id
      PROVE  FALSE
  <2>1. ~Receipt(h, undone, m.id)
    BY NoReceipt DEF Sound, Exact
  <2> QED BY <1>2, <2>1
<1>3. Receipt(h, undone, id) \/ ~Carried(channels, pending, id)
  BY <1>1 DEF Safe, Receipt
<1> QED BY <1>2, <1>3 DEF Carried

(* Nothing is anywhere twice.                                              *)
LEMMA NothingTwice ==
  ASSUME ChannelsInv
  PROVE  NowhereTwice
<1> SUFFICES ASSUME orderly, fault = "none"
             PROVE  /\ \A c, d \in Opened : Ids(channels[c].buffer) \cap Ids(pending[d].buffer) = {}
                    /\ \A c, d \in Opened : c # d =>
                         /\ Ids(channels[c].buffer) \cap Ids(channels[d].buffer) = {}
                         /\ Ids(pending[c].buffer) \cap Ids(pending[d].buffer) = {}
                    /\ \A c \in Opened : /\ Cardinality(Ids(channels[c].buffer)) = Len(channels[c].buffer)
                                         /\ Cardinality(Ids(pending[c].buffer)) = Len(pending[c].buffer)
                    /\ \A b \in Branches : timeline[b].arena \cap InBuffers = {}
  BY Zenon DEF NowhereTwice
<1>1. Typed /\ Sound /\ Exact /\ Boxed(channels, pending)
  BY DEF ChannelsInv, Typed
<1>2. ASSUME NEW c \in Opened
      PROVE  /\ c \in Chans /\ channels[c] \in Mailboxes /\ pending[c] \in Mailboxes
             /\ Ids(channels[c].buffer) = {m.id : m \in Mails(channels[c])}
             /\ Ids(pending[c].buffer) = {m.id : m \in Mails(pending[c])}
             /\ Mail(channels, pending, c) = Mails(channels[c]) \cup Mails(pending[c])
             /\ \A m \in Mails(channels[c]) \cup Mails(pending[c]) : LoneAt(channels[c], pending[c], m)
  <2>1. c \in Chans /\ channels[c] \in Mailboxes /\ pending[c] \in Mailboxes
    BY <1>1 DEF Boxed, Opened
  <2>2. Mail(channels, pending, c) = Mails(channels[c]) \cup Mails(pending[c])
    BY DEF Mail, Opened
  <2>3. \A m \in Mails(channels[c]) \cup Mails(pending[c]) : LoneAt(channels[c], pending[c], m)
    BY <1>1, <2>1, <2>2 DEF Exact, Distinct, Lone, Opened
  <2> QED BY <2>1, <2>2, <2>3, IdsAre
<1>3. \A c, d \in Opened : \A m \in Mail(channels, pending, c) : \A x \in Mail(channels, pending, d) :
         m.id = x.id => m = x /\ c = d
  BY <1>1, OnePlace
<1>4. \A c, d \in Opened : Ids(channels[c].buffer) \cap Ids(pending[d].buffer) = {}
  BY <1>2, <1>3 DEF LoneAt
<1>5. \A c, d \in Opened : c # d => /\ Ids(channels[c].buffer) \cap Ids(channels[d].buffer) = {}
                                    /\ Ids(pending[c].buffer) \cap Ids(pending[d].buffer) = {}
  BY <1>2, <1>3
<1>6. \A c \in Opened : /\ Cardinality(Ids(channels[c].buffer)) = Len(channels[c].buffer)
                        /\ Cardinality(Ids(pending[c].buffer)) = Len(pending[c].buffer)
  <2> TAKE c \in Opened
  <2>1. /\ \A m \in Mails(channels[c]) : Single(channels[c].buffer, m)
        /\ \A m \in Mails(pending[c]) : Single(pending[c].buffer, m)
    BY <1>2 DEF LoneAt
  <2>2. /\ \A m, x \in Mails(channels[c]) : m.id = x.id => m = x
        /\ \A m, x \in Mails(pending[c]) : m.id = x.id => m = x
    BY <1>2, <1>3
  <2> QED BY <1>2, <2>1, <2>2, IdCount
<1>7. \A b \in Branches : timeline[b].arena \cap InBuffers = {}
  BY <1>1, InBuffersAre, HeldNowhereElse
<1> QED BY <1>4, <1>5, <1>6, <1>7

(* A message is in one place, and none vanishes.                           *)
THEOREM Conservation == Spec => []MessagesConserved
<1>1. ASSUME ChannelsInv PROVE MessagesConserved
  <2>1. ASSUME fault = "none", NEW id \in SentIds PROVE id \in InBuffers \cup Received \cup gone
    <3>1. Sound /\ Boxed(channels, pending) /\ DOMAIN causal_history = 1 .. Len(causal_history)
      BY <1>1, <2>1, EventIs DEF ChannelsInv, Typed
    <3>2. PICK i \in Sends(causal_history) : causal_history[i].msg.id = id
      BY <2>1, <3>1 DEF SentIds, Sends
    <3>3. Receipt(causal_history, undone, id) => id \in Received
      BY <3>1 DEF Receipt, Standing, Recvs, Received
    <3> QED BY <3>1, <3>2, <3>3, InBuffersAre DEF Sound, Accounted
  <2> QED BY <1>1, <2>1, NothingTwice DEF MessagesConserved
<1> QED BY <1>1, Invariance, PTL

(* A rewind that succeeds leaves no trace of what it unsent.               *)
THEOREM Untraced == Spec => RewindLeavesNoTrace
<1> DEFINE Gone(b, a) ==
      Rewinds(b, a) =>
        LET unsent == SentSince(b, timeline[b].anchors[a].history_index)
        IN unsent \cap (InBuffers' \cup UNION {timeline'[o].arena : o \in Branches \ {b}}) = {}
<1>1. ASSUME ChannelsInv, ChannelsInv', Next, NEW b \in Branches, NEW a \in AnchorNames
      PROVE  Gone(b, a)
  <2> DEFINE h == causal_history
             from == timeline[b].anchors[a].history_index
             st == CausalRollback(b, from)
             P == After(b, from)
  <2> SUFFICES ASSUME Rewinds(b, a), NEW id \in SentSince(b, from)
               PROVE  /\ id \notin InBuffers'
                      /\ \A o \in Branches \ {b} : id \notin timeline'[o].arena
    OBVIOUS
  <2>1. Typed /\ Sound /\ Boxed(channels, pending) /\ DOMAIN h = 1 .. Len(h) /\ fault = "none"
    BY <1>1, EventIs DEF ChannelsInv, Typed, Next
  <2>2. PICK tl : Back(b, timeline[b].anchors[a], st, tl)
    BY <1>1, <2>1, RewindIs DEF Rewinds
  <2>3. /\ RolledAll(h, channels, pending, P, st) /\ channels' = st.channels /\ pending' = st.pending
        /\ \A o \in Branches : o # b => timeline'[o] = timeline[o]
    BY <2>1, <2>2, BackRecalls DEF Back, Rolled
  <2>4. PICK j \in P \cap Sends(h) : h[j].msg.id = id
    BY <2>1 DEF SentSince, Own, After, Mine, Sends
  <2> HIDE DEF P, st
  <2>5. ~Taken(h, id) /\ Carried(channels, pending, id) /\ ~Carried(channels', pending', id)
    BY <2>3, <2>4 DEF RolledAll
  <2>6. id \notin InBuffers'
    <3>1. Boxed(channels', pending')
      BY <1>1 DEF ChannelsInv, Typed
    <3> QED BY <2>5, <3>1, BuffersAre DEF InBuffers, Opened
  <2>7. ~Remembered(timeline, speculation_stack, id)
    BY <2>1, <2>5 DEF Sound, Untouched, Carried
  <2> QED BY <2>3, <2>6, <2>7 DEF Remembered, Recalls
<1>2. ChannelsInv /\ ChannelsInv' /\ [Next]_vars
        => [\A b \in Branches, a \in AnchorNames : Gone(b, a)]_vars
  BY <1>1
<1>3. [][\A b \in Branches, a \in AnchorNames : Gone(b, a)]_vars <=> RewindLeavesNoTrace
  BY DEF RewindLeavesNoTrace
<1> QED BY <1>2, <1>3, Invariance, PTL DEF Spec

-----------------------------------------------------------------------------
(* Two sequences with the same elements at the same places.                *)
LEMMA SameSeq ==
  ASSUME NEW S, NEW s \in Seq(S), NEW t \in Seq(S), Len(s) = Len(t),
         \A i \in 1 .. Len(s) : s[i] = t[i]
  PROVE  s = t
<1>1. s = [i \in 1 .. Len(s) |-> s[i]] /\ t = [i \in 1 .. Len(t) |-> t[i]]
  BY SMT
<1> QED BY <1>1

(* Where the elements of an Append, of a concatenation, of a RemoveAt are. *)
LEMMA AppendIs ==
  ASSUME NEW S, NEW s \in Seq(S), NEW m \in S
  PROVE  /\ Append(s, m) \in Seq(S) /\ Len(s) \in Nat /\ Len(Append(s, m)) = Len(s) + 1
         /\ \A i \in 1 .. Len(s) : Append(s, m)[i] = s[i] /\ s[i] \in S
         /\ Append(s, m)[Len(s) + 1] = m
BY SMT

LEMMA ConcatIs ==
  ASSUME NEW S, NEW s \in Seq(S), NEW t \in Seq(S)
  PROVE  /\ s \o t \in Seq(S) /\ Len(s) \in Nat /\ Len(t) \in Nat
         /\ Len(s \o t) = Len(s) + Len(t)
         /\ \A i \in 1 .. Len(s) + Len(t) :
              (s \o t)[i] = IF i <= Len(s) THEN s[i] ELSE t[i - Len(s)]
BY SMT

LEMMA RemoveIs ==
  ASSUME NEW S, NEW s \in Seq(S), NEW p \in 1 .. Len(s)
  PROVE  /\ RemoveAt(s, p) \in Seq(S) /\ Len(s) \in Nat /\ Len(RemoveAt(s, p)) = Len(s) - 1
         /\ \A i \in 1 .. Len(s) - 1 : RemoveAt(s, p)[i] = IF i < p THEN s[i] ELSE s[i + 1]
<1> DEFINE u == SubSeq(s, 1, p - 1)
           v == SubSeq(s, p + 1, Len(s))
<1>1. /\ u \in Seq(S) /\ Len(u) = p - 1 /\ \A i \in 1 .. p - 1 : u[i] = s[i]
      /\ v \in Seq(S) /\ Len(v) = Len(s) - p /\ \A i \in 1 .. Len(s) - p : v[i] = s[p + i]
      /\ Len(s) \in Nat /\ p \in Nat
  BY SMT
<1>2. RemoveAt(s, p) = u \o v
  BY DEF RemoveAt
<1> HIDE DEF u, v
<1>3. /\ u \o v \in Seq(S) /\ Len(u \o v) = Len(u) + Len(v)
      /\ \A i \in 1 .. Len(u) + Len(v) :
           (u \o v)[i] = IF i <= Len(u) THEN u[i] ELSE v[i - Len(u)]
  BY <1>1, ConcatIs
<1>4. ASSUME NEW i \in 1 .. Len(s) - 1
      PROVE  (u \o v)[i] = IF i < p THEN s[i] ELSE s[i + 1]
  <2>1. i \in 1 .. Len(u) + Len(v)
    BY <1>1, SMT
  <2>2. CASE i < p
    <3>1. i <= Len(u) /\ i \in 1 .. p - 1
      BY <1>1, <2>2, SMT
    <3> QED BY <1>1, <1>3, <2>1, <2>2, <3>1
  <2>3. CASE ~(i < p)
    <3>1. ~(i <= Len(u)) /\ i - Len(u) \in 1 .. Len(s) - p /\ p + (i - Len(u)) = i + 1
      BY <1>1, <2>3, SMT
    <3> QED BY <1>1, <1>3, <2>1, <2>3, <3>1
  <2> QED BY <2>2, <2>3
<1>5. Len(u) + Len(v) = Len(s) - 1
  BY <1>1, SMT
<1> QED BY <1>1, <1>2, <1>3, <1>4, <1>5

(* Taking one out before something is appended, or the one appended.       *)
LEMMA RemoveAppend ==
  ASSUME NEW S, NEW s \in Seq(S), NEW m \in S
  PROVE  /\ \A p \in 1 .. Len(s) : RemoveAt(Append(s, m), p) = Append(RemoveAt(s, p), m)
         /\ RemoveAt(Append(s, m), Len(s) + 1) = s
<1> DEFINE t == Append(s, m)
<1>1. /\ t \in Seq(S) /\ Len(s) \in Nat /\ Len(t) = Len(s) + 1
      /\ \A i \in 1 .. Len(s) : t[i] = s[i]
      /\ t[Len(s) + 1] = m
  BY AppendIs
<1> HIDE DEF t
<1>2. ASSUME NEW p \in 1 .. Len(s) PROVE RemoveAt(t, p) = Append(RemoveAt(s, p), m)
  <2> DEFINE r == RemoveAt(s, p)
             x == RemoveAt(t, p)
             y == Append(r, m)
  <2>0. p \in 1 .. Len(t) /\ p \in Nat
    BY <1>1, SMT
  <2>1. /\ r \in Seq(S) /\ Len(r) = Len(s) - 1
        /\ \A i \in 1 .. Len(s) - 1 : r[i] = IF i < p THEN s[i] ELSE s[i + 1]
    BY RemoveIs
  <2>2. /\ x \in Seq(S) /\ Len(x) = Len(t) - 1
        /\ \A i \in 1 .. Len(t) - 1 : x[i] = IF i < p THEN t[i] ELSE t[i + 1]
    BY <1>1, <2>0, RemoveIs
  <2> HIDE DEF r, x
  <2>3. /\ y \in Seq(S) /\ Len(y) = Len(r) + 1
        /\ \A i \in 1 .. Len(r) : y[i] = r[i]
        /\ y[Len(r) + 1] = m
    BY <2>1, AppendIs
  <2> HIDE DEF y
  <2>4. ASSUME NEW i \in 1 .. Len(x) PROVE x[i] = y[i]
    <3>1. CASE i = Len(s)
      <4>1. ~(i < p) /\ i = Len(r) + 1 /\ i \in 1 .. Len(t) - 1
        BY <1>1, <2>0, <2>1, <3>1, SMT
      <4>2. x[i] = t[Len(s) + 1]
        BY <2>2, <3>1, <4>1
      <4> QED BY <1>1, <2>3, <4>1, <4>2
    <3>2. CASE i # Len(s)
      <4>1. /\ i \in 1 .. Len(t) - 1 /\ i \in 1 .. Len(s) - 1 /\ i \in 1 .. Len(r)
            /\ i \in 1 .. Len(s) /\ i + 1 \in 1 .. Len(s)
        BY <1>1, <2>0, <2>1, <2>2, <3>2, SMT
      <4> QED BY <1>1, <2>1, <2>2, <2>3, <4>1
    <3> QED BY <3>1, <3>2
  <2>5. Len(x) = Len(y)
    BY <1>1, <2>1, <2>2, <2>3, SMT
  <2>6. x = y
    BY <2>2, <2>3, <2>4, <2>5, SameSeq
  <2> QED BY <2>6 DEF x, y, r
<1>3. RemoveAt(t, Len(s) + 1) = s
  <2> DEFINE x == RemoveAt(t, Len(s) + 1)
             p == Len(s) + 1
  <2>0. p \in 1 .. Len(t)
    BY <1>1, SMT
  <2>1. /\ x \in Seq(S) /\ Len(x) = Len(t) - 1
        /\ \A i \in 1 .. Len(t) - 1 : x[i] = IF i < p THEN t[i] ELSE t[i + 1]
    BY <1>1, <2>0, RemoveIs
  <2> HIDE DEF x
  <2>2. Len(x) = Len(s) /\ \A i \in 1 .. Len(x) : i < p /\ i \in 1 .. Len(t) - 1 /\ i \in 1 .. Len(s)
    BY <1>1, <2>1, SMT
  <2>3. \A i \in 1 .. Len(x) : x[i] = s[i]
    BY <1>1, <2>1, <2>2
  <2>4. x = s
    BY <2>1, <2>2, <2>3, SameSeq
  <2> QED BY <2>4 DEF x
<1> QED BY <1>2, <1>3 DEF t

(* Taking one out of the second part of a concatenation.                   *)
LEMMA RemoveConcat ==
  ASSUME NEW S, NEW x \in Seq(S), NEW k \in Seq(S), NEW q \in 1 .. Len(k)
  PROVE  RemoveAt(x \o k, Len(x) + q) = x \o RemoveAt(k, q)
<1> DEFINE t == x \o k
           p == Len(x) + q
           r == RemoveAt(k, q)
           u == RemoveAt(t, p)
           v == x \o r
<1>1. /\ t \in Seq(S) /\ Len(x) \in Nat /\ Len(k) \in Nat /\ Len(t) = Len(x) + Len(k)
      /\ \A i \in 1 .. Len(x) + Len(k) : t[i] = IF i <= Len(x) THEN x[i] ELSE k[i - Len(x)]
  BY ConcatIs
<1> HIDE DEF t
<1>2. p \in 1 .. Len(t) /\ q \in Nat /\ q >= 1 /\ q <= Len(k)
  BY <1>1, SMT
<1>3. /\ r \in Seq(S) /\ Len(r) = Len(k) - 1
      /\ \A i \in 1 .. Len(k) - 1 : r[i] = IF i < q THEN k[i] ELSE k[i + 1]
  BY RemoveIs
<1>4. /\ u \in Seq(S) /\ Len(u) = Len(t) - 1
      /\ \A i \in 1 .. Len(t) - 1 : u[i] = IF i < p THEN t[i] ELSE t[i + 1]
  <2> HIDE DEF p
  <2> QED BY <1>1, <1>2, RemoveIs
<1> HIDE DEF r, u
<1>5. /\ v \in Seq(S) /\ Len(v) = Len(x) + Len(r)
      /\ \A i \in 1 .. Len(x) + Len(r) : v[i] = IF i <= Len(x) THEN x[i] ELSE r[i - Len(x)]
  BY <1>3, ConcatIs
<1> HIDE DEF v
<1>6. Len(u) = Len(v)
  BY <1>1, <1>3, <1>4, <1>5, SMT
<1>7. ASSUME NEW i \in 1 .. Len(u) PROVE u[i] = v[i]
  <2>0. i \in 1 .. Len(t) - 1 /\ i \in 1 .. Len(x) + Len(r) /\ i \in Nat
    BY <1>1, <1>3, <1>4, SMT
  <2>1. CASE i <= Len(x)
    <3>1. i < p /\ i \in 1 .. Len(x) + Len(k)
      BY <1>1, <1>2, <2>0, <2>1, SMT
    <3>2. u[i] = t[i] /\ v[i] = x[i] /\ t[i] = x[i]
      BY <1>1, <1>4, <1>5, <2>0, <2>1, <3>1
    <3> QED BY <3>2
  <2>2. CASE ~(i <= Len(x))
    <3> DEFINE j == i - Len(x)
    <3>1. /\ j \in 1 .. Len(k) - 1 /\ i \in 1 .. Len(x) + Len(k) /\ i + 1 \in 1 .. Len(x) + Len(k)
          /\ ~(i + 1 <= Len(x)) /\ i + 1 - Len(x) = j + 1 /\ (i < p <=> j < q)
      BY <1>1, <1>2, <1>3, <2>0, <2>2, SMT
    <3>2. v[i] = IF j < q THEN k[j] ELSE k[j + 1]
      BY <1>3, <1>5, <2>0, <2>2, <3>1
    <3>3. t[i] = k[j] /\ t[i + 1] = k[j + 1]
      BY <1>1, <2>2, <3>1
    <3> QED BY <1>4, <2>0, <3>1, <3>2, <3>3
  <2> QED BY <2>1, <2>2
<1>8. u = v
  BY <1>4, <1>5, <1>6, <1>7, SameSeq
<1> QED BY <1>8 DEF u, v, r, t

(* Concatenations associate; an Append is one.                             *)
LEMMA ConcatAll ==
  ASSUME NEW S, NEW s \in Seq(S), NEW t \in Seq(S), NEW u \in Seq(S)
  PROVE  s \o (t \o u) = (s \o t) \o u
<1> DEFINE x == s \o (t \o u)
           y == (s \o t) \o u
           tu == t \o u
           st == s \o t
<1>1. /\ tu \in Seq(S) /\ Len(s) \in Nat /\ Len(t) \in Nat /\ Len(u) \in Nat
      /\ Len(tu) = Len(t) + Len(u)
      /\ \A i \in 1 .. Len(t) + Len(u) : tu[i] = IF i <= Len(t) THEN t[i] ELSE u[i - Len(t)]
  BY ConcatIs
<1>2. /\ st \in Seq(S) /\ Len(st) = Len(s) + Len(t)
      /\ \A i \in 1 .. Len(s) + Len(t) : st[i] = IF i <= Len(s) THEN s[i] ELSE t[i - Len(s)]
  BY ConcatIs
<1>3. x = s \o tu /\ y = st \o u
  OBVIOUS
<1> HIDE DEF tu, st, x, y
<1>4. /\ x \in Seq(S) /\ Len(x) = Len(s) + Len(tu)
      /\ \A i \in 1 .. Len(s) + Len(tu) : x[i] = IF i <= Len(s) THEN s[i] ELSE tu[i - Len(s)]
  <2>0. tu \in Seq(S)
    BY <1>1
  <2>1. /\ s \o tu \in Seq(S) /\ Len(s \o tu) = Len(s) + Len(tu)
        /\ \A i \in 1 .. Len(s) + Len(tu) :
             (s \o tu)[i] = IF i <= Len(s) THEN s[i] ELSE tu[i - Len(s)]
    BY <2>0, ConcatIs
  <2> QED BY <1>3, <2>1, Zenon
<1>5. /\ y \in Seq(S) /\ Len(y) = Len(st) + Len(u)
      /\ \A i \in 1 .. Len(st) + Len(u) : y[i] = IF i <= Len(st) THEN st[i] ELSE u[i - Len(st)]
  <2>0. st \in Seq(S)
    BY <1>2
  <2>1. /\ st \o u \in Seq(S) /\ Len(st \o u) = Len(st) + Len(u)
        /\ \A i \in 1 .. Len(st) + Len(u) :
             (st \o u)[i] = IF i <= Len(st) THEN st[i] ELSE u[i - Len(st)]
    BY <2>0, ConcatIs
  <2> QED BY <1>3, <2>1, Zenon
<1>6. Len(x) = Len(y)
  BY <1>1, <1>2, <1>4, <1>5, SMT
<1>7. ASSUME NEW i \in 1 .. Len(x) PROVE x[i] = y[i]
  <2>0. i \in 1 .. Len(s) + Len(tu) /\ i \in 1 .. Len(st) + Len(u)
    BY <1>4, <1>5, <1>6, SMT
  <2>1. CASE i <= Len(s)
    <3>1. i <= Len(st) /\ i \in 1 .. Len(s) + Len(t)
      BY <1>1, <1>2, <2>0, <2>1, SMT
    <3> QED BY <1>2, <1>4, <1>5, <2>0, <2>1, <3>1
  <2>2. CASE ~(i <= Len(s)) /\ i <= Len(st)
    <3>1. i \in 1 .. Len(s) + Len(t) /\ i - Len(s) \in 1 .. Len(t) + Len(u) /\ i - Len(s) <= Len(t)
      BY <1>1, <1>2, <2>0, <2>2, SMT
    <3>2. x[i] = t[i - Len(s)]
      BY <1>1, <1>4, <2>0, <2>2, <3>1
    <3>3. y[i] = t[i - Len(s)]
      BY <1>2, <1>5, <2>0, <2>2, <3>1
    <3> QED BY <3>2, <3>3
  <2>3. CASE ~(i <= Len(st))
    <3>1. /\ ~(i <= Len(s)) /\ i - Len(s) \in 1 .. Len(t) + Len(u) /\ ~(i - Len(s) <= Len(t))
          /\ i - Len(s) - Len(t) = i - Len(st)
      BY <1>1, <1>2, <2>0, <2>3, SMT
    <3>2. x[i] = u[i - Len(st)]
      BY <1>1, <1>4, <2>0, <3>1
    <3> QED BY <1>5, <2>0, <2>3, <3>2
  <2> QED BY <2>1, <2>2, <2>3
<1>8. x = y
  BY <1>4, <1>5, <1>6, <1>7, SameSeq
<1> QED BY <1>8 DEF x, y

LEMMA AppendConcat ==
  ASSUME NEW S, NEW s \in Seq(S), NEW m \in S
  PROVE  Append(s, m) = s \o <<m>> /\ <<m>> \in Seq(S) /\ <<m>> \o <<>> = <<m>> /\ <<>> \o s = s
<1>1. /\ <<m>> \in Seq(S) /\ Len(<<m>>) = 1 /\ <<m>>[1] = m /\ <<>> \in Seq(S) /\ Len(<<>>) = 0
      /\ Len(s) \in Nat
  BY SMT
<1>2. /\ s \o <<m>> \in Seq(S) /\ Len(s \o <<m>>) = Len(s) + 1
      /\ \A i \in 1 .. Len(s) + 1 : (s \o <<m>>)[i] = IF i <= Len(s) THEN s[i] ELSE <<m>>[i - Len(s)]
  BY <1>1, ConcatIs
<1>3. /\ Append(s, m) \in Seq(S) /\ Len(Append(s, m)) = Len(s) + 1
      /\ \A i \in 1 .. Len(s) : Append(s, m)[i] = s[i]
      /\ Append(s, m)[Len(s) + 1] = m
  BY AppendIs
<1>4. ASSUME NEW i \in 1 .. Len(s) + 1 PROVE Append(s, m)[i] = (s \o <<m>>)[i]
  <2>1. CASE i = Len(s) + 1
    <3>1. ~(i <= Len(s)) /\ i - Len(s) = 1
      BY <1>1, <2>1, SMT
    <3> QED BY <1>1, <1>2, <1>3, <2>1, <3>1
  <2>2. CASE i # Len(s) + 1
    <3>1. i <= Len(s) /\ i \in 1 .. Len(s)
      BY <1>1, <2>2, SMT
    <3> QED BY <1>2, <1>3, <3>1
  <2> QED BY <2>1, <2>2
<1>5. Append(s, m) = s \o <<m>>
  <2> DEFINE x == Append(s, m)
             y == s \o <<m>>
  <2>1. x \in Seq(S) /\ y \in Seq(S) /\ Len(x) = Len(y) /\ \A i \in 1 .. Len(x) : x[i] = y[i]
    BY <1>2, <1>3, <1>4
  <2> HIDE DEF x, y
  <2>2. x = y
    BY <2>1, SameSeq
  <2> QED BY <2>2 DEF x, y
<1>6. ASSUME NEW t \in Seq(S) PROVE <<>> \o t = t /\ t \o <<>> = t
  BY SMT
<1> QED BY <1>1, <1>5, <1>6

(* What holds of 0 and, with every number below n, of the next, holds up   *)
(* to n.                                                                   *)
LEMMA Upward ==
  ASSUME NEW n \in Nat, NEW T, T \subseteq 0 .. n, 0 \in T,
         \A k \in 1 .. n : k - 1 \in T => k \in T
  PROVE  \A k \in 0 .. n : k \in T
<1> DEFINE U == {k \in 0 .. n : k \notin T}
<1> SUFFICES ASSUME U # {} PROVE FALSE
  OBVIOUS
<1>1. U \subseteq Nat
  BY SMT
<1>2. PICK k \in U : \A y \in U : k <= y
  <2> HIDE DEF U
  <2> QED BY <1>1, Least
<1>3. k \in 1 .. n /\ k - 1 \in 0 .. n /\ ~(k <= k - 1)
  BY SMT
<1>4. k - 1 \in T
  BY <1>2, <1>3
<1> QED BY <1>3, <1>4

(* What is picked of the first k elements                                  *)
Picks(s, I, n, g) ==
  g = [k \in 0 .. n |-> IF k = 0 THEN <<>> ELSE IF k \in I THEN Append(g[k - 1], s[k]) ELSE g[k - 1]]
PickOf(s, I) == CHOOSE g : Picks(s, I, Len(s), g)

LEMMA PicksThere ==
  ASSUME NEW s, NEW I, NEW n \in Nat
  PROVE  \E g : Picks(s, I, n, g)
<1> DEFINE F(m, g) == Picks(s, I, m, g)
           Step(x, k) == IF k \in I THEN Append(x, s[k]) ELSE x
           T == {m \in 0 .. n : \E g : F(m, g)}
<1>1. \A k, g : F(k, g) <=> g = [i \in 0 .. k |-> IF i = 0 THEN <<>> ELSE Step(g[i - 1], i)]
  BY DEF Picks
<1>2. 0 \in T
  <2> DEFINE h == [i \in 0 .. 0 |-> <<>>]
  <2>1. h = [i \in 0 .. 0 |-> IF i = 0 THEN <<>> ELSE Step(h[i - 1], i)]
    <3>1. \A i \in 0 .. 0 : i = 0
      BY SMT
    <3> QED BY <3>1, Zenon
  <2> HIDE DEF F, h
  <2>2. F(0, h)
    BY <1>1, <2>1
  <2>3. 0 \in 0 .. n
    BY SMT
  <2> QED BY <2>2, <2>3
<1> HIDE DEF Step
<1>3. ASSUME NEW m \in 1 .. n, m - 1 \in T PROVE m \in T
  <2>1. PICK h : F(m - 1, h)
    BY <1>3
  <2> HIDE DEF F
  <2> DEFINE g == [i \in 0 .. m |-> IF i = m THEN Step(h[m - 1], m) ELSE h[i]]
  <2>2. \A i \in 0 .. m - 1 : h[i] = IF i = 0 THEN <<>> ELSE Step(h[i - 1], i)
    BY <1>1, <2>1
  <2>3. /\ \A i \in 0 .. m : /\ i # 0 => i - 1 \in 0 .. m /\ i - 1 # m
                             /\ i # m => i \in 0 .. m - 1
        /\ m # 0 /\ m \in 0 .. n
    BY SMT
  <2>4. \A i \in 0 .. m : i # 0 => g[i - 1] = h[i - 1]
    BY <2>3
  <2>5. \A i \in 0 .. m : g[i] = IF i = 0 THEN <<>> ELSE Step(g[i - 1], i)
    <3> SUFFICES ASSUME NEW i \in 0 .. m
                 PROVE  g[i] = IF i = 0 THEN <<>> ELSE Step(g[i - 1], i)
      OBVIOUS
    <3>1. CASE i = m
      <4>1. g[i] = Step(h[i - 1], i)
        BY <3>1
      <4> QED BY <2>3, <2>4, <3>1, <4>1
    <3>2. CASE i # m
      <4>1. g[i] = h[i]
        BY <3>2
      <4> QED BY <2>2, <2>3, <2>4, <3>2, <4>1
    <3> QED BY <3>1, <3>2
  <2>6. g = [i \in 0 .. m |-> g[i]]
    OBVIOUS
  <2> HIDE DEF g
  <2>7. F(m, g)
    BY <1>1, <2>5, <2>6
  <2> QED BY <2>3, <2>7
<1>4. T \subseteq 0 .. n /\ n \in 0 .. n
  BY SMT
<1> HIDE DEF T
<1>5. n \in T
  BY <1>2, <1>3, <1>4, Upward
<1> QED BY <1>5 DEF T

LEMMA PickedIs ==
  ASSUME NEW s, NEW I, Len(s) \in Nat
  PROVE  /\ Picked(s, I) = PickOf(s, I)[Len(s)]
         /\ PickOf(s, I)[0] = <<>>
         /\ \A k \in 1 .. Len(s) :
              /\ k \in I => PickOf(s, I)[k] = Append(PickOf(s, I)[k - 1], s[k])
              /\ k \notin I => PickOf(s, I)[k] = PickOf(s, I)[k - 1]
<1>1. Picks(s, I, Len(s), PickOf(s, I))
  BY PicksThere DEF PickOf
<1>2. Picked(s, I) = PickOf(s, I)[Len(s)]
  BY DEF Picked, PickOf, Picks
<1> DEFINE g == PickOf(s, I)
<1> HIDE DEF g
<1>3. g = [k \in 0 .. Len(s) |-> IF k = 0 THEN <<>>
                                 ELSE IF k \in I THEN Append(g[k - 1], s[k]) ELSE g[k - 1]]
  BY <1>1 DEF Picks, g
<1>4. 0 \in 0 .. Len(s) /\ \A k \in 1 .. Len(s) : k \in 0 .. Len(s) /\ k # 0
  BY SMT
<1>5. g[0] = <<>> /\ \A k \in 1 .. Len(s) : /\ k \in I => g[k] = Append(g[k - 1], s[k])
                                            /\ k \notin I => g[k] = g[k - 1]
  BY <1>3, <1>4
<1> QED BY <1>2, <1>5 DEF g

(* They are a sequence of elements of s at positions in I.                 *)
LEMMA PickedType ==
  ASSUME NEW S, NEW s \in Seq(S), NEW I
  PROVE  /\ \A k \in 0 .. Len(s) : PickOf(s, I)[k] \in Seq(S)
         /\ Picked(s, I) \in Seq(S)
<1> DEFINE g == PickOf(s, I)
           T == {k \in 0 .. Len(s) : g[k] \in Seq(S)}
<1>1. Len(s) \in Nat /\ \A k \in 1 .. Len(s) : s[k] \in S /\ k \in 0 .. Len(s)
  BY SMT
<1>2. /\ Picked(s, I) = g[Len(s)] /\ g[0] = <<>>
      /\ \A k \in 1 .. Len(s) : /\ k \in I => g[k] = Append(g[k - 1], s[k])
                                /\ k \notin I => g[k] = g[k - 1]
  BY <1>1, PickedIs
<1> HIDE DEF g
<1>3. 0 \in T
  <2>1. <<>> \in Seq(S) /\ 0 \in 0 .. Len(s)
    BY <1>1, SMT
  <2> QED BY <1>2, <2>1
<1>4. ASSUME NEW k \in 1 .. Len(s), k - 1 \in T PROVE k \in T
  <2>1. g[k - 1] \in Seq(S) /\ s[k] \in S
    BY <1>1, <1>4
  <2>2. Append(g[k - 1], s[k]) \in Seq(S)
    BY <2>1, AppendIs
  <2> QED BY <1>1, <1>2, <2>1, <2>2
<1>5. \A k \in 0 .. Len(s) : k \in T
  <2>1. T \subseteq 0 .. Len(s)
    OBVIOUS
  <2> HIDE DEF T
  <2> QED BY <1>1, <1>3, <1>4, <2>1, Upward
<1>6. Len(s) \in 0 .. Len(s)
  BY <1>1, SMT
<1> QED BY <1>2, <1>5, <1>6 DEF g

(* The same are picked where the same positions are asked for.             *)
LEMMA PickedSame ==
  ASSUME NEW s, NEW I, NEW J, Len(s) \in Nat, NEW n \in 0 .. Len(s),
         \A i \in 1 .. n : i \in I <=> i \in J
  PROVE  PickOf(s, I)[n] = PickOf(s, J)[n]
<1> DEFINE f == PickOf(s, I)
           g == PickOf(s, J)
           T == {k \in 0 .. n : f[k] = g[k]}
<1>1. /\ f[0] = <<>> /\ g[0] = <<>>
      /\ \A k \in 1 .. Len(s) : /\ k \in I => f[k] = Append(f[k - 1], s[k])
                                /\ k \notin I => f[k] = f[k - 1]
                                /\ k \in J => g[k] = Append(g[k - 1], s[k])
                                /\ k \notin J => g[k] = g[k - 1]
  BY PickedIs
<1> HIDE DEF f, g
<1>2. /\ n \in Nat /\ 0 \in 0 .. n /\ n \in 0 .. n
      /\ \A k \in 1 .. n : k \in 1 .. Len(s) /\ k \in 0 .. n
  BY SMT
<1>3. 0 \in T
  BY <1>1, <1>2
<1>4. ASSUME NEW k \in 1 .. n, k - 1 \in T PROVE k \in T
  BY <1>1, <1>2, <1>4
<1>5. T \subseteq 0 .. n
  OBVIOUS
<1> HIDE DEF T
<1>6. n \in T
  BY <1>2, <1>3, <1>4, <1>5, Upward
<1> QED BY <1>6 DEF T, f, g

LEMMA PickedAlike ==
  ASSUME NEW s, NEW I, NEW J, Len(s) \in Nat, \A i \in 1 .. Len(s) : i \in I <=> i \in J
  PROVE  Picked(s, I) = Picked(s, J)
<1>1. Len(s) \in 0 .. Len(s)
  BY SMT
<1> QED BY <1>1, PickedIs, PickedSame

(* Of fewer positions no more are picked.                                  *)
LEMMA PickedFewer ==
  ASSUME NEW S, NEW s \in Seq(S), NEW I, NEW J, \A i \in 1 .. Len(s) : i \in I => i \in J
  PROVE  Len(Picked(s, I)) <= Len(Picked(s, J))
<1> DEFINE f == PickOf(s, I)
           g == PickOf(s, J)
           n == Len(s)
           T == {k \in 0 .. n : Len(f[k]) <= Len(g[k])}
<1>0. n \in Nat /\ 0 \in 0 .. n /\ n \in 0 .. n /\ \A k \in 1 .. n : k \in 0 .. n /\ k - 1 \in 0 .. n
  BY SMT
<1>1. /\ f[0] = <<>> /\ g[0] = <<>> /\ Picked(s, I) = f[n] /\ Picked(s, J) = g[n]
      /\ \A k \in 1 .. n : /\ k \in I => f[k] = Append(f[k - 1], s[k])
                           /\ k \notin I => f[k] = f[k - 1]
                           /\ k \in J => g[k] = Append(g[k - 1], s[k])
                           /\ k \notin J => g[k] = g[k - 1]
  BY <1>0, PickedIs
<1>2. /\ \A k \in 0 .. n : f[k] \in Seq(S) /\ g[k] \in Seq(S)
      /\ \A k \in 1 .. n : s[k] \in S
  BY PickedType
<1> HIDE DEF f, g
<1>3. 0 \in T
  <2>1. Len(f[0]) <= Len(g[0])
    BY <1>1, SMT
  <2> QED BY <1>0, <2>1
<1>4. ASSUME NEW k \in 1 .. n, k - 1 \in T PROVE k \in T
  <2> DEFINE a == f[k - 1]
             b == g[k - 1]
  <2>1. a \in Seq(S) /\ b \in Seq(S) /\ Len(a) <= Len(b) /\ s[k] \in S
    BY <1>0, <1>2, <1>4
  <2>2. /\ f[k] = a \/ f[k] = Append(a, s[k])
        /\ g[k] = b \/ g[k] = Append(b, s[k])
        /\ f[k] = Append(a, s[k]) => f[k] = a \/ g[k] = Append(b, s[k])
    BY <1>1
  <2> HIDE DEF a, b
  <2>3. /\ Len(a) \in Nat /\ Len(Append(a, s[k])) = Len(a) + 1
        /\ Len(b) \in Nat /\ Len(Append(b, s[k])) = Len(b) + 1
    BY <2>1, AppendIs
  <2>4. Len(f[k]) <= Len(g[k])
    <3>1. CASE f[k] = a
      <4>1. Len(g[k]) = Len(b) \/ Len(g[k]) = Len(b) + 1
        BY <2>2, <2>3
      <4>2. Len(f[k]) = Len(a)
        BY <3>1
      <4> QED BY <2>1, <2>3, <4>1, <4>2, SMT
    <3>2. CASE f[k] # a
      <4>1. Len(g[k]) = Len(b) + 1 /\ Len(f[k]) = Len(a) + 1
        BY <2>2, <2>3, <3>2
      <4> QED BY <2>1, <2>3, <4>1, SMT
    <3> QED BY <3>1, <3>2
  <2> QED BY <1>0, <2>4
<1>5. T \subseteq 0 .. n
  OBVIOUS
<1> HIDE DEF T
<1>6. n \in T
  <2> HIDE DEF n
  <2> QED BY <1>0, <1>3, <1>4, <1>5, Upward
<1> QED BY <1>1, <1>6 DEF T

(* What is picked of the first k is at a position in I up to k.            *)
LEMMA PickedFrom ==
  ASSUME NEW S, NEW s \in Seq(S), NEW I
  PROVE  \A q \in 1 .. Len(Picked(s, I)) :
            \E i \in 1 .. Len(s) : i \in I /\ Picked(s, I)[q] = s[i]
<1> DEFINE f == PickOf(s, I)
           n == Len(s)
           From(k) == \A q \in 1 .. Len(f[k]) : \E i \in 1 .. n : i \in I /\ f[k][q] = s[i]
           T == {k \in 0 .. n : From(k)}
<1>0. n \in Nat /\ 0 \in 0 .. n /\ n \in 0 .. n /\ \A k \in 1 .. n : k \in 0 .. n /\ k - 1 \in 0 .. n
  BY SMT
<1>1. /\ f[0] = <<>> /\ Picked(s, I) = f[n]
      /\ \A k \in 1 .. n : /\ k \in I => f[k] = Append(f[k - 1], s[k])
                           /\ k \notin I => f[k] = f[k - 1]
  BY <1>0, PickedIs
<1>2. /\ \A k \in 0 .. n : f[k] \in Seq(S)
      /\ \A k \in 1 .. n : s[k] \in S
  BY PickedType
<1> HIDE DEF f
<1>3. 0 \in T
  <2>1. 1 .. Len(f[0]) = {}
    BY <1>1, SMT
  <2> QED BY <1>0, <2>1
<1>4. ASSUME NEW k \in 1 .. n, k - 1 \in T PROVE k \in T
  <2>1. From(k - 1) /\ f[k - 1] \in Seq(S) /\ s[k] \in S
    BY <1>0, <1>2, <1>4
  <2>2. CASE k \in I
    <3> DEFINE a == f[k - 1]
    <3>1. f[k] = Append(a, s[k])
      BY <1>1, <2>2
    <3>2. /\ Len(f[k]) = Len(a) + 1 /\ Len(a) \in Nat /\ f[k][Len(a) + 1] = s[k]
          /\ \A q \in 1 .. Len(a) : f[k][q] = a[q]
      <4> HIDE DEF a
      <4> QED BY <2>1, <3>1, AppendIs DEF a
    <3> HIDE DEF a
    <3>3. \A q \in 1 .. Len(f[k]) : q \in 1 .. Len(a) \/ q = Len(a) + 1
      BY <3>2, SMT
    <3>4. From(k)
      BY <2>1, <2>2, <3>2, <3>3 DEF a
    <3> QED BY <1>0, <3>4
  <2>3. CASE k \notin I
    BY <1>0, <1>1, <2>1, <2>3
  <2> QED BY <2>2, <2>3
<1>5. T \subseteq 0 .. n
  OBVIOUS
<1> HIDE DEF T
<1>6. n \in T
  <2> HIDE DEF n
  <2> QED BY <1>0, <1>3, <1>4, <1>5, Upward
<1> QED BY <1>1, <1>6 DEF T

(* All, or none.                                                           *)
LEMMA PickedAll ==
  ASSUME NEW S, NEW s \in Seq(S), NEW I, \A i \in 1 .. Len(s) : i \in I
  PROVE  Picked(s, I) = s
<1> DEFINE f == PickOf(s, I)
           n == Len(s)
           Whole(k) == Len(f[k]) = k /\ \A i \in 1 .. k : f[k][i] = s[i]
           T == {k \in 0 .. n : Whole(k)}
<1>0. n \in Nat /\ 0 \in 0 .. n /\ n \in 0 .. n
      /\ \A k \in 1 .. n : /\ k \in 0 .. n /\ k - 1 \in 0 .. n /\ k - 1 + 1 = k
                           /\ \A i \in 1 .. k : i \in 1 .. k - 1 \/ i = k
  BY SMT
<1>1. /\ f[0] = <<>> /\ Picked(s, I) = f[n]
      /\ \A k \in 1 .. n : f[k] = Append(f[k - 1], s[k])
  BY <1>0, PickedIs
<1>2. /\ \A k \in 0 .. n : f[k] \in Seq(S)
      /\ \A k \in 1 .. n : s[k] \in S
  BY PickedType
<1> HIDE DEF f
<1>3. 0 \in T
  <2>1. Len(f[0]) = 0 /\ 1 .. 0 = {}
    BY <1>1, SMT
  <2> QED BY <1>0, <2>1
<1>4. ASSUME NEW k \in 1 .. n, k - 1 \in T PROVE k \in T
  <2> DEFINE a == f[k - 1]
  <2>1. Len(a) = k - 1 /\ (\A i \in 1 .. k - 1 : a[i] = s[i]) /\ a \in Seq(S) /\ s[k] \in S
    BY <1>0, <1>2, <1>4
  <2>2. f[k] = Append(a, s[k])
    BY <1>1
  <2> HIDE DEF a
  <2>3. /\ Len(f[k]) = Len(a) + 1 /\ f[k][Len(a) + 1] = s[k]
        /\ \A q \in 1 .. Len(a) : f[k][q] = a[q]
    BY <2>1, <2>2, AppendIs
  <2>4. Whole(k)
    BY <1>0, <2>1, <2>3
  <2> QED BY <1>0, <2>4
<1>5. T \subseteq 0 .. n
  OBVIOUS
<1> HIDE DEF T
<1>6. n \in T
  <2> HIDE DEF n
  <2> QED BY <1>0, <1>3, <1>4, <1>5, Upward
<1>7. Whole(n) /\ f[n] \in Seq(S)
  BY <1>0, <1>2, <1>6 DEF T
<1>8. f[n] = s
  BY <1>7, SameSeq
<1> QED BY <1>1, <1>8

LEMMA PickedNone ==
  ASSUME NEW s, NEW I, Len(s) \in Nat, \A i \in 1 .. Len(s) : i \notin I
  PROVE  \A k \in 0 .. Len(s) : PickOf(s, I)[k] = <<>>
<1> DEFINE f == PickOf(s, I)
           T == {k \in 0 .. Len(s) : f[k] = <<>>}
<1>1. f[0] = <<>> /\ \A k \in 1 .. Len(s) : f[k] = f[k - 1]
  BY PickedIs
<1> HIDE DEF f
<1>2. 0 \in 0 .. Len(s) /\ \A k \in 1 .. Len(s) : k \in 0 .. Len(s)
  BY SMT
<1>3. 0 \in T
  BY <1>1, <1>2
<1>4. \A k \in 1 .. Len(s) : k - 1 \in T => k \in T
  BY <1>1, <1>2
<1>5. T \subseteq 0 .. Len(s)
  OBVIOUS
<1> HIDE DEF T
<1>6. \A k \in 0 .. Len(s) : k \in T
  BY <1>3, <1>4, <1>5, Upward
<1> QED BY <1>6 DEF T, f

(* Taking one out of what is picked is not picking it.                     *)
LEMMA PickedLess ==
  ASSUME NEW S, NEW s \in Seq(S), NEW I
  PROVE  \A q \in 1 .. Len(Picked(s, I)) :
            \E p \in 1 .. Len(s) : /\ p \in I /\ Picked(s, I)[q] = s[p]
                                   /\ RemoveAt(Picked(s, I), q) = Picked(s, I \ {p})
<1> DEFINE f == PickOf(s, I)
           h(p) == PickOf(s, I \ {p})
           n == Len(s)
           Cut(k) == \A q \in 1 .. Len(f[k]) :
                        \E p \in 1 .. k : /\ p \in I /\ f[k][q] = s[p]
                                          /\ RemoveAt(f[k], q) = h(p)[k]
           T == {k \in 0 .. n : Cut(k)}
<1>0. n \in Nat /\ 0 \in 0 .. n /\ n \in 0 .. n
      /\ \A k \in 1 .. n : /\ k \in 0 .. n /\ k - 1 \in 0 .. n /\ k \in 1 .. k
                           /\ \A p \in 1 .. k - 1 : p \in 1 .. k /\ p # k
  BY SMT
<1>1. /\ f[0] = <<>> /\ Picked(s, I) = f[n]
      /\ \A k \in 1 .. n : /\ k \in I => f[k] = Append(f[k - 1], s[k])
                           /\ k \notin I => f[k] = f[k - 1]
  BY <1>0, PickedIs
<1>2. ASSUME NEW p
      PROVE  /\ Picked(s, I \ {p}) = h(p)[n]
             /\ \A k \in 1 .. n : /\ k \in I \ {p} => h(p)[k] = Append(h(p)[k - 1], s[k])
                                  /\ k \notin I \ {p} => h(p)[k] = h(p)[k - 1]
  BY <1>0, PickedIs
<1>3. /\ \A k \in 0 .. n : f[k] \in Seq(S)
      /\ \A k \in 1 .. n : s[k] \in S
  BY PickedType
<1>4. \A k \in 1 .. n : h(k)[k - 1] = f[k - 1]
  <2> TAKE k \in 1 .. n
  <2>1. \A i \in 1 .. k - 1 : i \in I \ {k} <=> i \in I
    BY <1>0
  <2>2. k - 1 \in 0 .. Len(s)
    BY <1>0
  <2> QED BY <1>0, <2>1, <2>2, PickedSame
<1> HIDE DEF f, h
<1>5. 0 \in T
  <2>1. 1 .. Len(f[0]) = {}
    BY <1>1, SMT
  <2> QED BY <1>0, <2>1
<1>6. ASSUME NEW k \in 1 .. n, k - 1 \in T PROVE k \in T
  <2>1. Cut(k - 1) /\ f[k - 1] \in Seq(S) /\ s[k] \in S
    BY <1>0, <1>3, <1>6
  <2>2. CASE k \in I
    <3> DEFINE a == f[k - 1]
    <3>1. f[k] = Append(a, s[k]) /\ a \in Seq(S)
      BY <1>1, <2>1, <2>2
    <3> HIDE DEF a
    <3>2. /\ Len(f[k]) = Len(a) + 1 /\ Len(a) \in Nat /\ f[k][Len(a) + 1] = s[k]
          /\ \A q \in 1 .. Len(a) : f[k][q] = a[q]
      BY <2>1, <3>1, AppendIs
    <3>3. /\ \A q \in 1 .. Len(a) : RemoveAt(f[k], q) = Append(RemoveAt(a, q), s[k])
          /\ RemoveAt(f[k], Len(a) + 1) = a
      BY <2>1, <3>1, RemoveAppend
    <3>4. \A q \in 1 .. Len(f[k]) : q \in 1 .. Len(a) \/ q = Len(a) + 1
      BY <3>2, SMT
    <3>5. ASSUME NEW q \in 1 .. Len(a)
          PROVE  \E p \in 1 .. k : p \in I /\ f[k][q] = s[p] /\ RemoveAt(f[k], q) = h(p)[k]
      <4>1. PICK p \in 1 .. k - 1 : p \in I /\ a[q] = s[p] /\ RemoveAt(a, q) = h(p)[k - 1]
        BY <2>1 DEF a
      <4>2. p \in 1 .. k /\ k \in I \ {p}
        BY <1>0, <2>2
      <4>3. h(p)[k] = Append(h(p)[k - 1], s[k])
        BY <1>2, <4>2
      <4> QED BY <3>2, <3>3, <4>1, <4>2, <4>3
    <3>6. h(k)[k] = a
      BY <1>2, <1>4 DEF a
    <3>7. k \in 1 .. k
      BY <1>0
    <3>8. Cut(k)
      BY <2>2, <3>2, <3>3, <3>4, <3>5, <3>6, <3>7
    <3> QED BY <1>0, <3>8
  <2>3. CASE k \notin I
    <3>1. f[k] = f[k - 1] /\ \A p : h(p)[k] = h(p)[k - 1]
      BY <1>1, <1>2, <2>3
    <3>2. Cut(k)
      BY <1>0, <2>1, <3>1
    <3> QED BY <1>0, <3>2
  <2> QED BY <2>2, <2>3
<1>7. T \subseteq 0 .. n
  OBVIOUS
<1> HIDE DEF T
<1>8. n \in T
  <2> HIDE DEF n
  <2> QED BY <1>0, <1>5, <1>6, <1>7, Upward
<1>9. Cut(n)
  BY <1>8 DEF T
<1>10. \A p \in 1 .. n : Picked(s, I \ {p}) = h(p)[n]
  BY <1>2
<1> HIDE DEF n
<1>11. \A q \in 1 .. Len(Picked(s, I)) :
          \E p \in 1 .. n : /\ p \in I /\ Picked(s, I)[q] = s[p]
                           /\ RemoveAt(Picked(s, I), q) = Picked(s, I \ {p})
  BY <1>1, <1>9, <1>10
<1> QED BY <1>11 DEF n

(* A position before all the others is picked first.                       *)
LEMMA PickedFirst ==
  ASSUME NEW S, NEW s \in Seq(S), NEW I, NEW p \in 1 .. Len(s),
         \A i \in 1 .. Len(s) : i \in I => p < i
  PROVE  Picked(s, I \cup {p}) = <<s[p]>> \o Picked(s, I)
<1> DEFINE J == I \cup {p}
           f == PickOf(s, I)
           g == PickOf(s, J)
           n == Len(s)
           T == {k \in 0 .. n : IF k < p THEN f[k] = <<>> /\ g[k] = <<>>
                                ELSE g[k] = <<s[p]>> \o f[k]}
<1>0. n \in Nat /\ 0 \in 0 .. n /\ n \in 0 .. n /\ 0 < p /\ ~(n < p) /\ p \in Nat
      /\ \A k \in 1 .. n : k \in 0 .. n /\ k - 1 \in 0 .. n
  BY SMT
<1>1. /\ f[0] = <<>> /\ g[0] = <<>> /\ Picked(s, I) = f[n] /\ Picked(s, J) = g[n]
      /\ \A k \in 1 .. n : /\ k \in I => f[k] = Append(f[k - 1], s[k])
                           /\ k \notin I => f[k] = f[k - 1]
                           /\ k \in J => g[k] = Append(g[k - 1], s[k])
                           /\ k \notin J => g[k] = g[k - 1]
  <2> HIDE DEF J
  <2> QED BY <1>0, PickedIs
<1>2. /\ \A k \in 0 .. n : f[k] \in Seq(S)
      /\ \A k \in 1 .. n : s[k] \in S
  BY PickedType
<1> HIDE DEF f, g
<1>3. 0 \in T
  BY <1>0, <1>1
<1>4. ASSUME NEW k \in 1 .. n, k - 1 \in T PROVE k \in T
  <2>1. CASE k < p
    <3>1. k - 1 < p /\ k \notin I /\ k # p
      BY <1>0, <2>1, SMT
    <3> QED BY <1>0, <1>1, <1>4, <2>1, <3>1
  <2>2. CASE k = p
    <3>1. k - 1 < p /\ k \notin I /\ ~(k < p)
      BY <1>0, <2>2, SMT
    <3>2. f[k] = <<>> /\ g[k] = Append(<<>>, s[p])
      BY <1>1, <1>4, <2>2, <3>1
    <3>3. Append(<<>>, s[p]) = <<s[p]>> \o <<>>
      <4>1. Append(<<>>, s[p]) = <<>> \o <<s[p]>> /\ <<s[p]>> \o <<>> = <<s[p]>>
            /\ <<s[p]>> \in Seq(S)
        <5>1. <<>> \in Seq(S) /\ s[p] \in S
          BY <1>2, SMT
        <5> QED BY <5>1, AppendConcat
      <4>2. <<>> \o <<s[p]>> = <<s[p]>>
        BY <1>2, <4>1, AppendConcat
      <4> QED BY <4>1, <4>2
    <3> QED BY <1>0, <3>1, <3>2, <3>3
  <2>3. CASE ~(k < p) /\ k # p
    <3>1. ~(k - 1 < p)
      BY <1>0, <2>3, SMT
    <3>2. g[k - 1] = <<s[p]>> \o f[k - 1]
      BY <1>4, <3>1
    <3>3. k \in J <=> k \in I
      BY <2>3
    <3>4. f[k - 1] \in Seq(S) /\ s[k] \in S /\ s[p] \in S
      BY <1>0, <1>2
    <3>5. Append(<<s[p]>> \o f[k - 1], s[k]) = <<s[p]>> \o Append(f[k - 1], s[k])
      <4> DEFINE a == f[k - 1]
                 x == s[p]
                 y == s[k]
      <4>1. a \in Seq(S) /\ x \in S /\ y \in S
        BY <3>4
      <4> HIDE DEF a, x, y
      <4>2. <<x>> \in Seq(S) /\ <<y>> \in Seq(S) /\ Append(a, y) = a \o <<y>>
        BY <4>1, AppendConcat
      <4>3. <<x>> \o a \in Seq(S)
        BY <4>1, <4>2, ConcatIs
      <4>4. Append(<<x>> \o a, y) = (<<x>> \o a) \o <<y>>
        BY <4>1, <4>3, AppendConcat
      <4>5. <<x>> \o (a \o <<y>>) = (<<x>> \o a) \o <<y>>
        BY <4>1, <4>2, ConcatAll
      <4>6. Append(<<x>> \o a, y) = <<x>> \o Append(a, y)
        BY <4>2, <4>4, <4>5
      <4> QED BY <4>6 DEF a, x, y
    <3>6. g[k] = <<s[p]>> \o f[k]
      <4>1. CASE k \in I
        BY <1>1, <3>2, <3>3, <3>5, <4>1
      <4>2. CASE k \notin I
        BY <1>1, <3>2, <3>3, <4>2
      <4> QED BY <4>1, <4>2
    <3> QED BY <1>0, <2>3, <3>6
  <2> QED BY <2>1, <2>2, <2>3
<1>5. T \subseteq 0 .. n
  OBVIOUS
<1> HIDE DEF T
<1>6. n \in T
  <2> HIDE DEF n
  <2> QED BY <1>0, <1>3, <1>4, <1>5, Upward
<1> QED BY <1>0, <1>1, <1>6 DEF T

-----------------------------------------------------------------------------
(* The channels that undoing an event leaves, part by part                 *)

With(mb, s) == [mb EXCEPT !.buffer = s]

LEMMA SendUndone ==
  ASSUME NEW st, Shape(st), Boxed(st.channels, st.pending), NEW i,
         causal_history[i].chan \in DOMAIN st.channels
  PROVE  LET c == causal_history[i].chan
             id == causal_history[i].msg.id
             there == Position(st.channels[c], id)
             shadow == Position(st.pending[c], id)
             st2 == UndoSend(st, i)
         IN  \/ st2 = [st EXCEPT !.ok = FALSE]
             \/ /\ ~ReceivedAfter(i) /\ there # 0
                /\ st2.channels = [st.channels EXCEPT ![c] =
                                     With(st.channels[c], RemoveAt(st.channels[c].buffer, there))]
                /\ st2.pending = st.pending
             \/ /\ ~ReceivedAfter(i) /\ there = 0 /\ shadow # 0
                /\ st2.pending = [st.pending EXCEPT ![c] =
                                    With(st.pending[c], RemoveAt(st.pending[c].buffer, shadow))]
                /\ st2.channels = st.channels
<1> DEFINE c == causal_history[i].chan
           id == causal_history[i].msg.id
           mb == st.channels[c]
           pb == st.pending[c]
           there == Position(mb, id)
           shadow == Position(pb, id)
           st2 == UndoSend(st, i)
<1>1. there \in Nat /\ shadow \in Nat
  BY PositionIs DEF Boxed
<1>2. there = 0 /\ shadow = 0 => there + shadow = 0
  BY SMT
<1>3. CASE ReceivedAfter(i) \/ there + shadow = 0
  BY <1>3 DEF UndoSend
<1>4. CASE ~(ReceivedAfter(i) \/ there + shadow = 0) /\ there # 0
  <2>1. st2 = [[st EXCEPT !.gone = st.gone \cup {id}]
                  EXCEPT !.channels[c].buffer = RemoveAt(mb.buffer, there)]
    BY <1>4 DEF UndoSend, Shape
  <2>2. st2 = [channels |-> [st.channels EXCEPT ![c] = With(mb, RemoveAt(mb.buffer, there))],
               pending |-> st.pending, gone |-> st.gone \cup {id}, ok |-> st.ok]
    BY <2>1 DEF Shape, With
  <2> HIDE DEF st2
  <2>3. /\ st2.channels = [st.channels EXCEPT ![c] = With(mb, RemoveAt(mb.buffer, there))]
        /\ st2.pending = st.pending
    BY <2>2
  <2> QED BY <1>4, <2>3 DEF st2
<1>5. CASE ~(ReceivedAfter(i) \/ there + shadow = 0) /\ there = 0
  <2>1. st2 = [[st EXCEPT !.gone = st.gone \cup {id}]
                  EXCEPT !.pending[c].buffer = RemoveAt(pb.buffer, shadow)]
    BY <1>5 DEF UndoSend, Shape
  <2>2. st2 = [channels |-> st.channels,
               pending |-> [st.pending EXCEPT ![c] = With(pb, RemoveAt(pb.buffer, shadow))],
               gone |-> st.gone \cup {id}, ok |-> st.ok]
    BY <2>1 DEF Shape, With
  <2>3. shadow # 0
    BY <1>2, <1>5
  <2> HIDE DEF st2
  <2>4. /\ st2.pending = [st.pending EXCEPT ![c] = With(pb, RemoveAt(pb.buffer, shadow))]
        /\ st2.channels = st.channels
    BY <2>2
  <2> QED BY <1>5, <2>3, <2>4 DEF st2
<1> QED BY <1>3, <1>4, <1>5

LEMMA RecvUndone ==
  ASSUME NEW st, Shape(st), NEW i
  PROVE  LET c == causal_history[i].chan
         IN  /\ UndoRecv(st, i).channels =
                  [st.channels EXCEPT ![c] = PushFront(st.channels[c], causal_history[i].msg).box]
             /\ UndoRecv(st, i).pending = st.pending
             /\ UndoRecv(st, i).ok = st.ok
<1> DEFINE c == causal_history[i].chan
           out == PushFront(st.channels[c], causal_history[i].msg)
           lost == IdsOf(out.evicted)
           box == out.box
           st2 == UndoRecv(st, i)
<1>1. st2 = [st EXCEPT !.channels[c] = box, !.gone = st.gone \cup lost]
  BY DEF UndoRecv
<1> HIDE DEF st2, out, lost, box
<1>2. \A x, y : LET z == [st EXCEPT !.channels[c] = y, !.gone = x]
                IN  /\ z.channels = [st.channels EXCEPT ![c] = y]
                    /\ z.pending = st.pending /\ z.ok = st.ok
  <2> TAKE x, y
  <2> DEFINE mid == [st EXCEPT !.channels[c] = y]
  <2>1. mid = [channels |-> [st.channels EXCEPT ![c] = y], pending |-> st.pending,
               gone |-> st.gone, ok |-> st.ok]
    BY DEF Shape
  <2>2. [st EXCEPT !.channels[c] = y, !.gone = x] = [mid EXCEPT !.gone = x]
    OBVIOUS
  <2> HIDE DEF mid
  <2>3. [mid EXCEPT !.gone = x] = [channels |-> [st.channels EXCEPT ![c] = y],
           pending |-> st.pending, gone |-> x, ok |-> st.ok]
    BY <2>1
  <2> QED BY <2>2, <2>3
<1> QED BY <1>1, <1>2 DEF st2, box, out

-----------------------------------------------------------------------------
(* What a rollback leaves of the buffers, P being the events undone        *)

Posts == [i \in DOMAIN causal_history |-> causal_history[i].msg]
UnsentIds(P) == {causal_history[j].msg.id : j \in P \cap Sends(causal_history)}
ReceivedOn(c, P) == {j \in P \cap Recvs(causal_history) : causal_history[j].chan = c}
Kept(s, P) == Picked(s, {k \in DOMAIN s : s[k].id \notin UnsentIds(P)})
PutBack(c, P) == Picked(Posts, ReceivedOn(c, P))
Restored(st, P, c) ==
  /\ st.channels[c].capacity = channels[c].capacity
  /\ st.channels[c].buffer = PutBack(c, P) \o Kept(channels[c].buffer, P)
  /\ st.pending[c].buffer = Kept(pending[c].buffer, P)

LEMMA PostsAre ==
  ASSUME causal_history \in Seq(Events)
  PROVE  /\ Posts \in Seq(Messages) /\ Len(Posts) = Len(causal_history)
         /\ \A i \in 1 .. Len(causal_history) : Posts[i] = causal_history[i].msg
<1> DEFINE n == Len(causal_history)
<1>1. /\ DOMAIN causal_history = 1 .. n /\ n \in Nat
      /\ \A i \in 1 .. n : causal_history[i].msg \in Messages
  BY EventIs
<1>2. Posts = [i \in 1 .. n |-> causal_history[i].msg]
  BY <1>1 DEF Posts
<1> HIDE DEF n
<1>3. [i \in 1 .. n |-> causal_history[i].msg] \in Seq(Messages)
  BY <1>1, SMT
<1>4. Len([i \in 1 .. n |-> causal_history[i].msg]) = n
  BY <1>1, SMT
<1> QED BY <1>2, <1>3, <1>4 DEF n

(* Events that unsend nothing the buffer has keep it.                      *)
LEMMA KeptSame ==
  ASSUME NEW s \in Seq(Messages), NEW P, NEW Q,
         \A k \in 1 .. Len(s) : s[k].id \in UnsentIds(P) <=> s[k].id \in UnsentIds(Q)
  PROVE  Kept(s, P) = Kept(s, Q)
<1>1. Len(s) \in Nat /\ DOMAIN s = 1 .. Len(s)
  BY SMT
<1> QED BY <1>1, PickedAlike DEF Kept

(* Unsending one message takes it out.                                     *)
LEMMA KeptLess ==
  ASSUME NEW s \in Seq(Messages), NEW P, NEW i \in Sends(causal_history),
         \A j, k \in 1 .. Len(s) : s[j].id = causal_history[i].msg.id
                                   /\ s[k].id = causal_history[i].msg.id => j = k,
         NEW q \in 1 .. Len(Kept(s, P)), Kept(s, P)[q].id = causal_history[i].msg.id
  PROVE  RemoveAt(Kept(s, P), q) = Kept(s, P \cup {i})
<1> DEFINE id == causal_history[i].msg.id
           I == {k \in DOMAIN s : s[k].id \notin UnsentIds(P)}
           J == {k \in DOMAIN s : s[k].id \notin UnsentIds(P \cup {i})}
<1>1. Len(s) \in Nat /\ DOMAIN s = 1 .. Len(s)
  BY SMT
<1>2. PICK p \in 1 .. Len(s) : /\ p \in I /\ Picked(s, I)[q] = s[p]
                               /\ RemoveAt(Picked(s, I), q) = Picked(s, I \ {p})
  <2>1. q \in 1 .. Len(Picked(s, I))
    BY DEF Kept
  <2> HIDE DEF I
  <2>2. \A r \in 1 .. Len(Picked(s, I)) :
          \E p \in 1 .. Len(s) : /\ p \in I /\ Picked(s, I)[r] = s[p]
                                 /\ RemoveAt(Picked(s, I), r) = Picked(s, I \ {p})
    BY PickedLess
  <2> QED BY <2>1, <2>2
<1>3. s[p].id = id
  BY <1>2 DEF Kept
<1>4. UnsentIds(P \cup {i}) = UnsentIds(P) \cup {id}
  BY DEF UnsentIds
<1>5. \A k \in 1 .. Len(s) : k \in J <=> k \in I \ {p}
  BY <1>1, <1>3, <1>4
<1> HIDE DEF I, J
<1>6. Picked(s, J) = Picked(s, I \ {p})
  BY <1>1, <1>5, PickedAlike
<1> QED BY <1>2, <1>6 DEF Kept, I, J

(* A message sent, and not received since, is in one place of one channel. *)
LEMMA UnsentLone ==
  ASSUME Rewindable, NEW i \in Sends(causal_history), ~ReceivedAfter(i)
  PROVE  LET id == causal_history[i].msg.id
         IN  \A c \in DOMAIN channels :
               /\ \A j, k \in 1 .. Len(channels[c].buffer) :
                    channels[c].buffer[j].id = id /\ channels[c].buffer[k].id = id => j = k
               /\ \A j, k \in 1 .. Len(pending[c].buffer) :
                    pending[c].buffer[j].id = id /\ pending[c].buffer[k].id = id => j = k
               /\ \A j \in 1 .. Len(channels[c].buffer) : \A k \in 1 .. Len(pending[c].buffer) :
                    ~(channels[c].buffer[j].id = id /\ pending[c].buffer[k].id = id)
               /\ c # causal_history[i].chan =>
                    /\ \A j \in 1 .. Len(channels[c].buffer) : channels[c].buffer[j].id # id
                    /\ \A j \in 1 .. Len(pending[c].buffer) : pending[c].buffer[j].id # id
<1> DEFINE h == causal_history
           m == h[i].msg
<1>1. /\ Numbered(h, next_payload_id) /\ Posted(h, channels, pending) /\ h \in Seq(Events)
      /\ Untouched(h, channels, pending, timeline, speculation_stack)
      /\ Boxed(channels, pending)
  BY DEF Rewindable, Sound, Typed
<1>2. ~Taken(h, m.id) /\ Sent(h, m, h[i].chan)
  BY <1>1, NotTaken DEF Sent
<1>3. ASSUME NEW c \in DOMAIN channels, NEW x \in Mail(channels, pending, c), x.id = m.id
      PROVE  x = m /\ c = h[i].chan
  <2>1. c \in Chans
    BY <1>1 DEF Boxed
  <2>2. Sent(h, x, c)
    BY <1>1, <2>1 DEF Posted
  <2> QED BY <1>1, <1>2, <1>3, <2>2, SentOnce
<1>4. ASSUME NEW c \in DOMAIN channels, NEW x \in Mail(channels, pending, c), x.id = m.id
      PROVE  LoneAt(channels[c], pending[c], x)
  <2>1. c \in Chans
    BY <1>1 DEF Boxed
  <2> QED BY <1>1, <1>2, <1>4, <2>1 DEF Untouched, Lone
<1> HIDE DEF m
<1> SUFFICES ASSUME NEW c \in DOMAIN channels
             PROVE  LET s == channels[c].buffer
                        t == pending[c].buffer
                    IN  /\ \A j, k \in 1 .. Len(s) : s[j].id = m.id /\ s[k].id = m.id => j = k
                        /\ \A j, k \in 1 .. Len(t) : t[j].id = m.id /\ t[k].id = m.id => j = k
                        /\ \A j \in 1 .. Len(s) : \A k \in 1 .. Len(t) :
                             ~(s[j].id = m.id /\ t[k].id = m.id)
                        /\ c # h[i].chan => /\ \A j \in 1 .. Len(s) : s[j].id # m.id
                                            /\ \A j \in 1 .. Len(t) : t[j].id # m.id
  BY DEF m
<1> DEFINE s == channels[c].buffer
           t == pending[c].buffer
<1>5. /\ \A j \in 1 .. Len(s) : s[j] \in Mails(channels[c]) /\ s[j] \in Mail(channels, pending, c)
      /\ \A j \in 1 .. Len(t) : t[j] \in Mails(pending[c]) /\ t[j] \in Mail(channels, pending, c)
  BY DEF Mail, Mails, Elems
<1>6. /\ \A j \in 1 .. Len(s) : s[j].id = m.id =>
           /\ s[j] = m /\ c = h[i].chan /\ LoneAt(channels[c], pending[c], m)
      /\ \A j \in 1 .. Len(t) : t[j].id = m.id =>
           /\ t[j] = m /\ c = h[i].chan /\ LoneAt(channels[c], pending[c], m)
  BY <1>3, <1>4, <1>5
<1>7. ASSUME LoneAt(channels[c], pending[c], m)
      PROVE  /\ \A j, k \in 1 .. Len(s) : s[j] = m /\ s[k] = m => j = k
             /\ \A j, k \in 1 .. Len(t) : t[j] = m /\ t[k] = m => j = k
             /\ ~(m \in Mails(channels[c]) /\ m \in Mails(pending[c]))
  BY <1>7 DEF LoneAt, Single
<1> HIDE DEF s, t
<1>8. /\ \A j, k \in 1 .. Len(s) : s[j].id = m.id /\ s[k].id = m.id => j = k
      /\ \A j, k \in 1 .. Len(t) : t[j].id = m.id /\ t[k].id = m.id => j = k
  BY <1>6, <1>7
<1>9. \A j \in 1 .. Len(s) : \A k \in 1 .. Len(t) : ~(s[j].id = m.id /\ t[k].id = m.id)
  BY <1>5, <1>6, <1>7
<1>10. c # h[i].chan => /\ \A j \in 1 .. Len(s) : s[j].id # m.id
                        /\ \A j \in 1 .. Len(t) : t[j].id # m.id
  BY <1>6
<1> QED BY <1>8, <1>9, <1>10 DEF s, t

(* What an event leaves that does not touch the channel.                   *)
LEMMA RestoredSame ==
  ASSUME NEW st, NEW st2, NEW c, NEW P, NEW Q, Restored(st, P, c), Boxed(channels, pending),
         c \in DOMAIN channels, Posts \in Seq(Messages),
         st2.channels[c] = st.channels[c], st2.pending[c] = st.pending[c],
         ReceivedOn(c, P) = ReceivedOn(c, Q),
         \A k \in 1 .. Len(channels[c].buffer) :
           channels[c].buffer[k].id \in UnsentIds(P) <=> channels[c].buffer[k].id \in UnsentIds(Q),
         \A k \in 1 .. Len(pending[c].buffer) :
           pending[c].buffer[k].id \in UnsentIds(P) <=> pending[c].buffer[k].id \in UnsentIds(Q)
  PROVE  Restored(st2, Q, c)
<1>1. channels[c].buffer \in Seq(Messages) /\ pending[c].buffer \in Seq(Messages)
  BY MailboxIs DEF Boxed
<1>2. Kept(channels[c].buffer, P) = Kept(channels[c].buffer, Q)
  BY <1>1, KeptSame
<1>3. Kept(pending[c].buffer, P) = Kept(pending[c].buffer, Q)
  BY <1>1, KeptSame
<1>4. PutBack(c, P) = PutBack(c, Q)
  BY DEF PutBack
<1> QED BY <1>2, <1>3, <1>4 DEF Restored

(* Of a buffer no more is kept than it has.                                *)
LEMMA KeptType ==
  ASSUME NEW s \in Seq(Messages), NEW P
  PROVE  /\ Kept(s, P) \in Seq(Messages) /\ Len(Kept(s, P)) <= Len(s)
         /\ \A q \in 1 .. Len(Kept(s, P)) : \E k \in 1 .. Len(s) : Kept(s, P)[q] = s[k]
<1> DEFINE I == {k \in DOMAIN s : s[k].id \notin UnsentIds(P)}
<1>1. Len(s) \in Nat /\ DOMAIN s = 1 .. Len(s)
  BY SMT
<1>2. Kept(s, P) = Picked(s, I)
  BY DEF Kept
<1>3. \A k \in 1 .. Len(s) : k \in I => k \in 1 .. Len(s)
  OBVIOUS
<1> HIDE DEF I
<1>4. Picked(s, I) \in Seq(Messages) /\ Picked(s, 1 .. Len(s)) = s
  BY PickedType, PickedAll
<1>5. Len(Picked(s, I)) <= Len(Picked(s, 1 .. Len(s)))
  BY <1>3, PickedFewer
<1>6. \A q \in 1 .. Len(Picked(s, I)) : \E k \in 1 .. Len(s) : k \in I /\ Picked(s, I)[q] = s[k]
  BY PickedFrom
<1> QED BY <1>2, <1>4, <1>5, <1>6

LEMMA PutBackType ==
  ASSUME causal_history \in Seq(Events), NEW c, NEW P
  PROVE  /\ PutBack(c, P) \in Seq(Messages)
         /\ \A q \in 1 .. Len(PutBack(c, P)) :
              \E j \in ReceivedOn(c, P) : PutBack(c, P)[q] = causal_history[j].msg
<1> DEFINE I == ReceivedOn(c, P)
<1> HIDE DEF I
<1>1. /\ Posts \in Seq(Messages) /\ Len(Posts) = Len(causal_history)
      /\ \A i \in 1 .. Len(causal_history) : Posts[i] = causal_history[i].msg
  BY PostsAre
<1>2. Picked(Posts, I) \in Seq(Messages)
  BY <1>1, PickedType
<1>3. \A q \in 1 .. Len(Picked(Posts, I)) :
        \E k \in 1 .. Len(Posts) : k \in I /\ Picked(Posts, I)[q] = Posts[k]
  BY <1>1, PickedFrom
<1>4. PutBack(c, P) = Picked(Posts, I)
  BY DEF PutBack, I
<1>5. \A q \in 1 .. Len(Picked(Posts, I)) : \E j \in I : Picked(Posts, I)[q] = causal_history[j].msg
  BY <1>1, <1>3
<1> QED BY <1>2, <1>4, <1>5 DEF I

(* A send undone.                                                          *)
LEMMA RestoredSend ==
  ASSUME Rewindable, NEW i \in Sends(causal_history), NEW P, \A j \in P : i < j, NEW st,
         RolledBox(st), NEW c \in DOMAIN channels, Restored(st, P, c), UndoSend(st, i).ok
  PROVE  Restored(UndoSend(st, i), P \cup {i}, c)
<1> DEFINE h == causal_history
           d == h[i].chan
           id == h[i].msg.id
           st2 == UndoSend(st, i)
           mb == st.channels[d]
           pb == st.pending[d]
           there == Position(mb, id)
           shadow == Position(pb, id)
           s == channels[c].buffer
           t == pending[c].buffer
           Q == P \cup {i}
<1>1. /\ h \in Seq(Events) /\ Addressed(h, channels) /\ Boxed(channels, pending)
      /\ Shape(st) /\ Boxed(st.channels, st.pending) /\ DOMAIN st.channels = DOMAIN channels
      /\ i \in 1 .. Len(h) /\ h[i].op = "send"
  BY DEF Rewindable, Sound, Typed, RolledBox, Sends
<1>2. d \in DOMAIN st.channels /\ d \in DOMAIN channels
      /\ s \in Seq(Messages) /\ t \in Seq(Messages) /\ Posts \in Seq(Messages)
      /\ mb \in Mailboxes /\ pb \in Mailboxes /\ DOMAIN st.pending = DOMAIN st.channels
  BY <1>1, MailboxIs, PostsAre DEF Addressed, Boxed
<1>3. ReceivedOn(c, P) = ReceivedOn(c, Q) /\ UnsentIds(Q) = UnsentIds(P) \cup {id}
  BY <1>1 DEF ReceivedOn, UnsentIds, Recvs
<1>4. \/ /\ ~ReceivedAfter(i) /\ there # 0
         /\ st2.channels = [st.channels EXCEPT ![d] = With(mb, RemoveAt(mb.buffer, there))]
         /\ st2.pending = st.pending
      \/ /\ ~ReceivedAfter(i) /\ there = 0 /\ shadow # 0
         /\ st2.pending = [st.pending EXCEPT ![d] = With(pb, RemoveAt(pb.buffer, shadow))]
         /\ st2.channels = st.channels
  <2>1. st2 # [st EXCEPT !.ok = FALSE]
    BY <1>1 DEF Shape
  <2> QED BY <1>1, <1>2, <2>1, SendUndone
<1>5. /\ \A j, k \in 1 .. Len(s) : s[j].id = id /\ s[k].id = id => j = k
      /\ \A j, k \in 1 .. Len(t) : t[j].id = id /\ t[k].id = id => j = k
      /\ \A j \in 1 .. Len(s) : \A k \in 1 .. Len(t) : ~(s[j].id = id /\ t[k].id = id)
      /\ c # d => /\ \A j \in 1 .. Len(s) : s[j].id # id
                  /\ \A j \in 1 .. Len(t) : t[j].id # id
  BY <1>4, UnsentLone
<1>6. /\ there # 0 => there \in 1 .. Len(mb.buffer) /\ mb.buffer[there].id = id
      /\ shadow # 0 => shadow \in 1 .. Len(pb.buffer) /\ pb.buffer[shadow].id = id
  BY <1>2, PositionIs
<1> DEFINE mc == st.channels[c]
           pc == st.pending[c]
<1>7. /\ mc.capacity = channels[c].capacity /\ mc.buffer = PutBack(c, P) \o Kept(s, P)
      /\ pc.buffer = Kept(t, P) /\ (c = d => mc = mb /\ pc = pb)
      /\ c \in DOMAIN st.channels /\ c \in DOMAIN st.pending
  BY <1>1, <1>2 DEF Restored
<1>8. \A u : /\ With(mb, u).buffer = u /\ With(mb, u).capacity = mb.capacity
            /\ With(pb, u).buffer = u
  BY <1>2 DEF With, Mailboxes
<1> HIDE DEF st2, there, shadow
<1>9. \/ /\ ~ReceivedAfter(i) /\ there # 0 /\ st2.pending[c] = pc
         /\ c # d => st2.channels[c] = mc
         /\ c = d => st2.channels[c] = With(mb, RemoveAt(mb.buffer, there))
      \/ /\ ~ReceivedAfter(i) /\ there = 0 /\ shadow # 0 /\ st2.channels[c] = mc
         /\ c # d => st2.pending[c] = pc
         /\ c = d => st2.pending[c] = With(pb, RemoveAt(pb.buffer, shadow))
  BY <1>4, <1>7
<1>10. PutBack(c, Q) = PutBack(c, P)
  BY <1>3 DEF PutBack
<1>11. ASSUME \A n \in 1 .. Len(s) : s[n].id # id
       PROVE  Kept(s, P) = Kept(s, Q)
  <2>1. \A n \in 1 .. Len(s) : s[n].id \in UnsentIds(P) <=> s[n].id \in UnsentIds(Q)
    BY <1>3, <1>11
  <2> HIDE DEF Q, s
  <2> QED BY <1>2, <2>1, KeptSame
<1>12. ASSUME \A n \in 1 .. Len(t) : t[n].id # id
       PROVE  Kept(t, P) = Kept(t, Q)
  <2>1. \A n \in 1 .. Len(t) : t[n].id \in UnsentIds(P) <=> t[n].id \in UnsentIds(Q)
    BY <1>3, <1>12
  <2> HIDE DEF Q, t
  <2> QED BY <1>2, <2>1, KeptSame
<1>13. /\ \A q \in 1 .. Len(Kept(s, P)) : Kept(s, P)[q].id = id =>
             RemoveAt(Kept(s, P), q) = Kept(s, Q)
       /\ \A q \in 1 .. Len(Kept(t, P)) : Kept(t, P)[q].id = id =>
             RemoveAt(Kept(t, P), q) = Kept(t, Q)
  <2> HIDE DEF s, t
  <2> QED BY <1>2, <1>5, KeptLess
<1>14. /\ Kept(s, P) \in Seq(Messages) /\ Kept(t, P) \in Seq(Messages)
       /\ \A q \in 1 .. Len(Kept(s, P)) : \E j \in 1 .. Len(s) : Kept(s, P)[q] = s[j]
       /\ \A q \in 1 .. Len(Kept(t, P)) : \E j \in 1 .. Len(t) : Kept(t, P)[q] = t[j]
  <2> HIDE DEF s, t
  <2> QED BY <1>2, KeptType
<1>15. ASSUME c = d, ~ReceivedAfter(i), NEW j \in ReceivedOn(c, P), h[j].msg.id = id PROVE FALSE
  <2>1. j \in 1 .. Len(h) /\ h[j].op = "recv" /\ h[j].chan = d /\ i < j
    BY <1>15 DEF ReceivedOn, Recvs
  <2>2. j \in i + 1 .. Len(h)
    BY <1>1, <2>1, SMT
  <2> QED BY <1>15, <2>1, <2>2 DEF ReceivedAfter
<1> HIDE DEF mb, pb, mc, pc, s, t, Q
<1>16. Restored(st2, Q, c) <=> /\ st2.channels[c].capacity = mc.capacity
                               /\ st2.channels[c].buffer = PutBack(c, P) \o Kept(s, Q)
                               /\ st2.pending[c].buffer = Kept(t, Q)
  BY <1>7, <1>10 DEF Restored, s, t
<1>17. CASE c # d
  <2>1. st2.channels[c] = mc /\ st2.pending[c] = pc
    BY <1>9, <1>17
  <2>2. Kept(s, P) = Kept(s, Q) /\ Kept(t, P) = Kept(t, Q)
    BY <1>5, <1>11, <1>12, <1>17
  <2> QED BY <1>7, <1>16, <2>1, <2>2 DEF st2, Q
<1>18. CASE c = d /\ there # 0
  <2> DEFINE x == PutBack(c, P)
             k == Kept(s, P)
             q == there - Len(x)
  <2>1. /\ x \in Seq(Messages) /\ mb.buffer = x \o k
        /\ \A n \in 1 .. Len(x) : \E j \in ReceivedOn(c, P) : x[n] = h[j].msg
    BY <1>1, <1>7, <1>18, PutBackType
  <2>2. ~ReceivedAfter(i) /\ there \in 1 .. Len(mb.buffer) /\ mb.buffer[there].id = id
        /\ st2.channels[c] = With(mb, RemoveAt(mb.buffer, there)) /\ st2.pending[c] = pc
    BY <1>6, <1>9, <1>18
  <2>3. k \in Seq(Messages) /\ (\A n \in 1 .. Len(k) : \E j \in 1 .. Len(s) : k[n] = s[j])
        /\ \A n \in 1 .. Len(k) : k[n].id = id => RemoveAt(k, n) = Kept(s, Q)
    BY <1>13, <1>14
  <2> HIDE DEF x, k
  <2>4. /\ Len(x) \in Nat /\ Len(k) \in Nat /\ Len(x \o k) = Len(x) + Len(k)
        /\ \A n \in 1 .. Len(x) + Len(k) :
             (x \o k)[n] = IF n <= Len(x) THEN x[n] ELSE k[n - Len(x)]
    BY <2>1, <2>3, ConcatIs
  <2>5. there \in 1 .. Len(x) + Len(k)
    BY <2>1, <2>2, <2>4
  <2>6. ~(there <= Len(x))
    <3> SUFFICES ASSUME there <= Len(x) PROVE FALSE
      OBVIOUS
    <3>1. there \in 1 .. Len(x)
      BY <2>4, <2>5, SMT
    <3>2. x[there].id = id
      BY <2>1, <2>2, <2>4, <2>5
    <3>3. PICK j \in ReceivedOn(c, P) : x[there] = h[j].msg
      BY <2>1, <3>1
    <3> QED BY <1>15, <1>18, <2>2, <3>2, <3>3
  <2>7. q \in 1 .. Len(k) /\ Len(x) + q = there
    BY <2>4, <2>5, <2>6, SMT
  <2>8. k[q].id = id
    BY <2>1, <2>2, <2>4, <2>5, <2>6
  <2> HIDE DEF q
  <2>9. RemoveAt(mb.buffer, there) = x \o Kept(s, Q)
    <3>1. RemoveAt(x \o k, Len(x) + q) = x \o RemoveAt(k, q)
      BY <2>1, <2>3, <2>7, RemoveConcat
    <3>2. RemoveAt(k, q) = Kept(s, Q)
      BY <2>3, <2>7, <2>8
    <3> QED BY <2>1, <2>7, <3>1, <3>2
  <2>10. Kept(t, P) = Kept(t, Q)
    <3>1. PICK j \in 1 .. Len(s) : k[q] = s[j]
      BY <2>3, <2>7
    <3>2. \A n \in 1 .. Len(t) : t[n].id # id
      BY <1>5, <2>8, <3>1
    <3> QED BY <1>12, <3>2
  <2>11. /\ st2.channels[c].capacity = mb.capacity
         /\ st2.channels[c].buffer = RemoveAt(mb.buffer, there)
    BY <1>8, <2>2
  <2>12. mb = mc /\ st2.pending[c].buffer = Kept(t, Q)
    BY <1>7, <1>18, <2>2, <2>10
  <2>13. Restored(st2, Q, c)
    BY <1>16, <2>9, <2>11, <2>12 DEF x
  <2> QED BY <2>13 DEF st2, Q
<1>19. CASE c = d /\ there = 0
  <2>1. /\ shadow \in 1 .. Len(Kept(t, P)) /\ Kept(t, P)[shadow].id = id
        /\ st2.pending[c] = With(pb, RemoveAt(Kept(t, P), shadow)) /\ st2.channels[c] = mc
    BY <1>6, <1>7, <1>9, <1>19
  <2>2. RemoveAt(Kept(t, P), shadow) = Kept(t, Q)
    BY <1>13, <2>1
  <2>3. Kept(s, P) = Kept(s, Q)
    <3>1. PICK j \in 1 .. Len(t) : Kept(t, P)[shadow] = t[j]
      BY <1>14, <2>1
    <3>2. \A n \in 1 .. Len(s) : s[n].id # id
      BY <1>5, <2>1, <3>1
    <3> QED BY <1>11, <3>2
  <2> QED BY <1>7, <1>8, <1>16, <2>1, <2>2, <2>3 DEF st2, Q
<1> QED BY <1>17, <1>18, <1>19

(* A receive undone, where there is room.                                  *)
LEMMA RestoredRecv ==
  ASSUME Rewindable, NEW i \in Recvs(causal_history), NEW P, \A j \in P : i < j, NEW st,
         RolledBox(st), NEW c \in DOMAIN channels, Restored(st, P, c),
         Len(PutBack(c, P \cup {i})) + Len(channels[c].buffer) <= channels[c].capacity
  PROVE  Restored(UndoRecv(st, i), P \cup {i}, c)
<1> DEFINE h == causal_history
           d == h[i].chan
           m == h[i].msg
           st2 == UndoRecv(st, i)
           mb == st.channels[c]
           s == channels[c].buffer
           t == pending[c].buffer
           Q == P \cup {i}
<1>1. /\ h \in Seq(Events) /\ Addressed(h, channels) /\ Boxed(channels, pending)
      /\ Shape(st) /\ Boxed(st.channels, st.pending) /\ DOMAIN st.channels = DOMAIN channels
      /\ i \in 1 .. Len(h) /\ h[i].op = "recv" /\ m \in Messages
  BY EventIs DEF Rewindable, Sound, Typed, RolledBox, Recvs
<1>2. /\ c \in DOMAIN st.channels /\ d \in DOMAIN st.channels
      /\ s \in Seq(Messages) /\ t \in Seq(Messages) /\ Posts \in Seq(Messages)
      /\ Len(Posts) = Len(h) /\ Posts[i] = m
      /\ mb \in Mailboxes /\ channels[c].capacity \in Nat
  BY <1>1, MailboxIs, PostsAre DEF Addressed, Boxed
<1>3. UnsentIds(Q) = UnsentIds(P)
  BY <1>1 DEF UnsentIds, Sends
<1>4. /\ st2.channels = [st.channels EXCEPT ![d] = PushFront(st.channels[d], m).box]
      /\ st2.pending = st.pending
  BY <1>1, RecvUndone
<1>5. Kept(s, Q) = Kept(s, P) /\ Kept(t, Q) = Kept(t, P)
  BY <1>3 DEF Kept
<1> DEFINE x == PutBack(c, P)
           k == Kept(s, P)
<1>6. /\ mb.capacity = channels[c].capacity /\ mb.buffer = x \o k
      /\ st.pending[c].buffer = Kept(t, P)
  BY DEF Restored
<1>7. x \in Seq(Messages)
  BY <1>1, PutBackType
<1>8. k \in Seq(Messages) /\ Len(k) <= Len(s)
  <2> HIDE DEF s
  <2> QED BY <1>2, KeptType
<1> HIDE DEF st2, k, x, t
<1>9. CASE c # d
  <2>1. ReceivedOn(c, Q) = ReceivedOn(c, P)
    BY <1>9 DEF ReceivedOn
  <2>2. PutBack(c, Q) = x
    BY <2>1 DEF PutBack, x
  <2>3. st2.channels[c] = mb /\ st2.pending[c] = st.pending[c]
    BY <1>4, <1>9
  <2> HIDE DEF Q, mb
  <2>4. Restored(st2, Q, c)
    BY <1>5, <1>6, <2>2, <2>3 DEF Restored, k, t
  <2> QED BY <2>4 DEF st2, Q
<1>10. CASE c = d
  <2> DEFINE I == ReceivedOn(c, P)
  <2>1. ReceivedOn(c, Q) = I \cup {i}
    BY <1>1, <1>10 DEF ReceivedOn, Recvs
  <2>2. \A j \in 1 .. Len(Posts) : j \in I => i < j
    BY DEF ReceivedOn
  <2> HIDE DEF I
  <2>3. Picked(Posts, I \cup {i}) = <<m>> \o Picked(Posts, I)
    BY <1>1, <1>2, <2>2, PickedFirst
  <2>4. PutBack(c, Q) = <<m>> \o x
    BY <2>1, <2>3 DEF PutBack, x, I
  <2> HIDE DEF Q, m, mb, s
  <2>5. <<m>> \in Seq(Messages) /\ Len(<<m>>) = 1
    BY <1>1, SMT
  <2>6. /\ Len(<<m>> \o x) = 1 + Len(x) /\ Len(x) \in Nat /\ <<m>> \o x \in Seq(Messages)
        /\ Len(x \o k) = Len(x) + Len(k) /\ Len(k) \in Nat /\ x \o k \in Seq(Messages)
    BY <1>7, <1>8, <2>5, ConcatIs
  <2>7. Len(s) \in Nat
    BY <1>2, SMT
  <2>8. Len(<<m>> \o x) + Len(s) <= channels[c].capacity
    BY <2>4 DEF Q, s
  <2>9. Len(x \o k) < channels[c].capacity
    <3> DEFINE lx == Len(x)
               lk == Len(k)
               ls == Len(s)
               cap == channels[c].capacity
    <3>1. lx \in Nat /\ lk \in Nat /\ ls \in Nat /\ cap \in Nat /\ lk <= ls /\ 1 + lx + ls <= cap
      BY <1>2, <1>8, <2>6, <2>7, <2>8
    <3> HIDE DEF lx, lk, ls, cap
    <3>2. lx + lk < cap
      BY <3>1, SMT
    <3> QED BY <2>6, <3>2 DEF lx, lk, cap
  <2>10. HasRoom(mb)
    BY <1>6, <2>9 DEF HasRoom
  <2>11. PushFront(mb, m) = Outcome(Holding(mb, <<m>> \o mb.buffer), {}, {})
    BY <2>10 DEF PushFront
  <2>12. PushFront(mb, m).box = Holding(mb, <<m>> \o mb.buffer)
    BY <2>11, OutcomeIs
  <2>13. <<m>> \o (x \o k) = (<<m>> \o x) \o k
    BY <1>7, <1>8, <2>5, ConcatAll
  <2>14. st2.channels[c] = Holding(mb, <<m>> \o mb.buffer) /\ st2.pending[c] = st.pending[c]
    BY <1>2, <1>4, <1>10, <2>12 DEF mb, m
  <2>15. \A u : Holding(mb, u).buffer = u /\ Holding(mb, u).capacity = mb.capacity
    BY <1>2 DEF Holding, Mailboxes
  <2>16. /\ st2.channels[c].capacity = channels[c].capacity
         /\ st2.channels[c].buffer = PutBack(c, Q) \o k
    BY <1>6, <2>4, <2>13, <2>14, <2>15
  <2>17. Restored(st2, Q, c)
    BY <1>5, <1>6, <2>14, <2>16 DEF Restored, k, t, s
  <2> QED BY <2>17 DEF st2, Q
<1> QED BY <1>9, <1>10

(* One event.                                                              *)
LEMMA RestoredOne ==
  ASSUME Rewindable, NEW b, NEW i \in 1 .. Len(causal_history), NEW P, \A j \in P : i < j,
         NEW st, RolledBox(st), NEW c \in DOMAIN channels, st.ok => Restored(st, P, c),
         NEW Q, Q = (IF causal_history[i].branch = b THEN P \cup {i} ELSE P),
         Len(PutBack(c, Q)) + Len(channels[c].buffer) <= channels[c].capacity,
         UndoEvent(b, st, i).ok
  PROVE  Restored(UndoEvent(b, st, i), Q, c)
<1> DEFINE h == causal_history
<1>1. h[i].op \in {"send", "recv"} /\ Shape(st)
  <2>1. h \in Seq(Events) /\ Shape(st)
    BY DEF Rewindable, Typed, RolledBox
  <2>2. h[i] \in Events
    BY <2>1, EventIs
  <2> QED BY <2>1, <2>2 DEF Events
<1>2. CASE h[i].branch # b
  <2>1. UndoEvent(b, st, i) = st /\ Q = P
    BY <1>2 DEF UndoEvent
  <2> QED BY <2>1
<1>3. CASE h[i].branch = b
  <2>1. st.ok /\ Q = P \cup {i} /\ Restored(st, P, c)
    <3>1. ~st.ok => UndoEvent(b, st, i) = st
      BY DEF UndoEvent
    <3> QED BY <1>3, <3>1
  <2>2. CASE h[i].op = "send"
    <3>1. UndoEvent(b, st, i) = UndoSend(st, i) /\ i \in Sends(h)
      BY <1>3, <2>1, <2>2 DEF UndoEvent, Sends
    <3> QED BY <2>1, <3>1, RestoredSend
  <2>3. CASE h[i].op = "recv"
    <3>1. UndoEvent(b, st, i) = UndoRecv(st, i) /\ i \in Recvs(h)
      BY <1>3, <2>1, <2>3 DEF UndoEvent, Recvs
    <3> QED BY <2>1, <3>1, RestoredRecv
  <2> QED BY <1>1, <2>2, <2>3
<1> QED BY <1>2, <1>3

(* At first nothing is put back and all is kept.                           *)
LEMMA RestoredStart ==
  ASSUME Rewindable, NEW c \in DOMAIN channels
  PROVE  Restored(Present, {}, c)
<1> DEFINE s == channels[c].buffer
           t == pending[c].buffer
<1>1. /\ s \in Seq(Messages) /\ t \in Seq(Messages)
      /\ Posts \in Seq(Messages)
  BY MailboxIs, PostsAre DEF Rewindable, Typed, Boxed
<1>2. Present.channels = channels /\ Present.pending = pending
  BY DEF Present
<1>3. ASSUME NEW u \in Seq(Messages) PROVE Kept(u, {}) = u
  <2> DEFINE I == {k \in DOMAIN u : u[k].id \notin UnsentIds({})}
  <2>1. UnsentIds({}) = {}
    BY DEF UnsentIds
  <2>2. \A k \in 1 .. Len(u) : k \in I
    <3>1. DOMAIN u = 1 .. Len(u)
      BY SMT
    <3> QED BY <2>1, <3>1
  <2> HIDE DEF I
  <2>3. Picked(u, I) = u
    BY <2>2, PickedAll
  <2> QED BY <2>3 DEF Kept, I
<1>4. PutBack(c, {}) = <<>>
  <2>1. ReceivedOn(c, {}) = {}
    BY DEF ReceivedOn
  <2>2. Len(Posts) \in Nat /\ Len(Posts) \in 0 .. Len(Posts)
    BY <1>1, SMT
  <2>3. Picked(Posts, {}) = <<>>
    <3>1. \A k \in 0 .. Len(Posts) : PickOf(Posts, {})[k] = <<>>
      BY <2>2, PickedNone
    <3> QED BY <2>2, <3>1, PickedIs
  <2> QED BY <2>1, <2>3 DEF PutBack
<1> HIDE DEF s, t
<1>5. <<>> \o s = s
  BY <1>1, SMT
<1>6. Kept(s, {}) = s /\ Kept(t, {}) = t
  BY <1>1, <1>3
<1>7. channels[c].buffer = PutBack(c, {}) \o Kept(s, {}) /\ t = Kept(t, {})
  BY <1>4, <1>5, <1>6 DEF s
<1> QED BY <1>2, <1>7 DEF Restored, s, t

(* A rollback that succeeds restores every channel with room.              *)
LEMMA RollbackRestores ==
  ASSUME Rewindable, NEW b, NEW from \in Nat, from <= Len(causal_history),
         CausalRollback(b, from).ok, NEW c \in DOMAIN channels,
         Len(PutBack(c, After(b, from))) + Len(channels[c].buffer) <= channels[c].capacity
  PROVE  Restored(CausalRollback(b, from), After(b, from), c)
<1> DEFINE h == causal_history
           N == Len(h) - from
           g == RollOf(b, from)
           T == {k \in 0 .. N : g[k].ok => Restored(g[k], Latest(b, k), c)}
<1>1. /\ N \in Nat /\ CausalRollback(b, from) = g[N] /\ g[0] = Present
      /\ Latest(b, 0) = {} /\ Latest(b, N) = After(b, from)
      /\ \A k \in 1 .. N :
           LET i == Len(h) + 1 - k
           IN  /\ i \in 1 .. Len(h) /\ g[k] = UndoEvent(b, g[k - 1], i)
               /\ Latest(b, k) = (IF h[i].branch = b THEN Latest(b, k - 1) \cup {i}
                                  ELSE Latest(b, k - 1))
               /\ \A j \in Latest(b, k - 1) : i < j
      /\ \A k \in 0 .. N : RolledBox(g[k])
           /\ Rolled(h, undone, channels, pending, Latest(b, k), g[k])
  BY RolledSoFar
<1>2. /\ h \in Seq(Events) /\ Posts \in Seq(Messages)
      /\ channels[c].buffer \in Seq(Messages) /\ channels[c].capacity \in Nat
  BY MailboxIs, PostsAre DEF Rewindable, Typed, Boxed
<1>3. ASSUME NEW k \in 0 .. N
      PROVE  Len(PutBack(c, Latest(b, k))) + Len(channels[c].buffer) <= channels[c].capacity
  <2>1. \A j \in 1 .. Len(h) : j > Len(h) - k => j > from
    BY <1>1, SMT
  <2>2. Latest(b, k) \subseteq After(b, from)
    BY <2>1 DEF Latest, After, Mine
  <2> DEFINE I == ReceivedOn(c, Latest(b, k))
             J == ReceivedOn(c, After(b, from))
             x == Len(Picked(Posts, I))
             y == Len(Picked(Posts, J))
             z == Len(channels[c].buffer)
             cap == channels[c].capacity
  <2>3. \A i \in 1 .. Len(Posts) : i \in I => i \in J
    BY <2>2 DEF ReceivedOn
  <2> HIDE DEF I, J
  <2>4. x <= y
    BY <1>2, <2>3, PickedFewer
  <2>5. y + z <= cap
    BY DEF PutBack, J
  <2>6. Picked(Posts, I) \in Seq(Messages) /\ Picked(Posts, J) \in Seq(Messages)
    BY <1>2, PickedType
  <2>7. x \in Nat /\ y \in Nat /\ z \in Nat /\ cap \in Nat
    BY <1>2, <2>6
  <2> HIDE DEF x, y, z, cap
  <2>8. x + z <= cap
    BY <2>4, <2>5, <2>7, SMT
  <2> QED BY <2>8 DEF x, z, cap, I, PutBack
<1> HIDE DEF g, N
<1>4. /\ N \in 0 .. N /\ 0 \in 0 .. N
      /\ \A k \in 1 .. N : k \in 0 .. N /\ k - 1 \in 0 .. N
  BY <1>1, SMT
<1>5. 0 \in T
  BY <1>1, <1>4, RestoredStart
<1>6. ASSUME NEW k \in 1 .. N, k - 1 \in T PROVE k \in T
  <2> DEFINE i == Len(h) + 1 - k
             P == Latest(b, k - 1)
             Q == Latest(b, k)
             st == g[k - 1]
  <2>1. /\ i \in 1 .. Len(h) /\ g[k] = UndoEvent(b, st, i)
        /\ Q = (IF h[i].branch = b THEN P \cup {i} ELSE P)
        /\ \A j \in P : i < j
    BY <1>1
  <2>2. RolledBox(st) /\ (st.ok => Restored(st, P, c))
    BY <1>1, <1>4, <1>6
  <2>3. Len(PutBack(c, Q)) + Len(channels[c].buffer) <= channels[c].capacity
    BY <1>3, <1>4
  <2> HIDE DEF i, P, Q, st
  <2>4. UndoEvent(b, st, i).ok => Restored(UndoEvent(b, st, i), Q, c)
    BY <2>1, <2>2, <2>3, RestoredOne
  <2> QED BY <1>4, <2>1, <2>4 DEF Q
<1>7. T \subseteq 0 .. N
  OBVIOUS
<1> HIDE DEF T
<1>8. N \in T
  BY <1>1, <1>4, <1>5, <1>6, <1>7, Upward
<1> QED BY <1>1, <1>8 DEF T

(* A rewind that succeeds puts back what the timeline received since the   *)
(* anchor and takes out what it sent, and nothing else moves.              *)
THEOREM Restoration == Spec => RewindRestoresChannels
<1> DEFINE Restores(b, a) ==
      Rewinds(b, a) =>
        LET from == timeline[b].anchors[a].history_index
            messages == [i \in DOMAIN causal_history |-> causal_history[i].msg]
            Returns(c) == Picked(messages, ReceivedSince(b, c, from))
            Stays(buffer) == Picked(buffer, {i \in DOMAIN buffer :
                                               buffer[i].id \notin SentSince(b, from)})
        IN \A c \in Opened :
             (Len(Returns(c)) + Len(channels[c].buffer) <= channels[c].capacity)
               => /\ channels[c].buffer' = Returns(c) \o Stays(channels[c].buffer)
                  /\ pending[c].buffer' = Stays(pending[c].buffer)
<1>1. ASSUME ChannelsInv, Next, NEW b \in Branches, NEW a \in AnchorNames
      PROVE  Restores(b, a)
  <2> DEFINE h == causal_history
             from == timeline[b].anchors[a].history_index
             st == CausalRollback(b, from)
             P == After(b, from)
             messages == [i \in DOMAIN causal_history |-> causal_history[i].msg]
             Returns(c) == Picked(messages, ReceivedSince(b, c, from))
             Stays(buffer) == Picked(buffer, {i \in DOMAIN buffer :
                                                buffer[i].id \notin SentSince(b, from)})
  <2> SUFFICES ASSUME Rewinds(b, a), NEW c \in Opened,
                      Len(Returns(c)) + Len(channels[c].buffer) <= channels[c].capacity
               PROVE  /\ channels[c].buffer' = Returns(c) \o Stays(channels[c].buffer)
                      /\ pending[c].buffer' = Stays(pending[c].buffer)
    OBVIOUS
  <2>1. Rewindable /\ Typed /\ DOMAIN h = 1 .. Len(h) /\ fault = "none"
    BY <1>1, EventIs DEF ChannelsInv, Typed, Next, Rewindable
  <2>2. from \in Nat /\ from <= Len(h)
    BY <2>1, AnchorIs DEF Rewinds
  <2>3. PICK tl : Back(b, timeline[b].anchors[a], st, tl)
    BY <1>1, <2>1, RewindIs DEF Rewinds
  <2>4. st.ok /\ channels' = st.channels /\ pending' = st.pending
    BY <2>3 DEF Back
  <2>5. messages = Posts
    BY DEF Posts
  <2>6. ReceivedSince(b, c, from) = ReceivedOn(c, P)
    BY <2>1 DEF ReceivedSince, ReceivedOn, Own, After, Mine, Recvs
  <2>7. SentSince(b, from) = UnsentIds(P)
    BY <2>1 DEF SentSince, UnsentIds, Own, After, Mine, Sends
  <2> HIDE DEF st, P, messages
  <2>8. Returns(c) = PutBack(c, P)
    BY <2>5, <2>6 DEF PutBack
  <2>9. \A s : Stays(s) = Kept(s, P)
    BY <2>7 DEF Kept
  <2> HIDE DEF Returns, Stays
  <2>10. Restored(st, P, c)
    BY <2>1, <2>2, <2>4, <2>8, RollbackRestores DEF st, P, Opened
  <2> QED BY <2>4, <2>8, <2>9, <2>10 DEF Restored
<1>2. ChannelsInv /\ ChannelsInv' /\ [Next]_vars
        => [\A b \in Branches, a \in AnchorNames : Restores(b, a)]_vars
  BY <1>1
<1>3. [][\A b \in Branches, a \in AnchorNames : Restores(b, a)]_vars <=> RewindRestoresChannels
  BY DEF RewindRestoresChannels
<1> QED BY <1>2, <1>3, Invariance, PTL DEF Spec
=============================================================================
