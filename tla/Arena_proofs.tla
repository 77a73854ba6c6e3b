---------------------------- MODULE Arena_proofs ----------------------------
(* The count of bytes in use of a timeline's arena, for any number of       *)
(* registers, any capacity, any depth of calls and any policies: it covers  *)
(* what every frame holds, and what a frame holds fits the capacity.        *)
EXTENDS Arena, WellFoundedInduction, TLAPS

-----------------------------------------------------------------------------
(* States of registers                                                      *)

FieldMaps == UNION {[D -> {"Valid", "Decayed", "Consumed"}] : D \in SUBSET Fields}

(* What a register holds itself, and what it may hold                       *)
Owned == {Number, Text} \union {Struct(f) : f \in FieldMaps} \union {Decayed(f) : f \in FieldMaps}
States == Owned \union {Consumed} \union {Leased(s) : s \in Owned}

(* A structure weighs what its fields do.                                   *)
LEMMA FieldsWeigh == ASSUME NEW f \in FieldMaps PROVE FieldsWeight(f) \in Nat
<1>1. \A x \in DOMAIN f : f[x] \in {"Valid", "Decayed", "Consumed"}
  BY DEF FieldMaps
<1>2. \A x \in DOMAIN f : FieldWeight(f[x]) \in Nat
  BY <1>1 DEF FieldWeight
<1>3. /\ (IF "f" \in DOMAIN f THEN FieldWeight(f["f"]) ELSE 0) \in Nat
      /\ (IF "g" \in DOMAIN f THEN FieldWeight(f["g"]) ELSE 0) \in Nat
  BY <1>2
<1>. QED BY <1>3, SMT DEF FieldsWeight

(* The kinds of what a register holds.                                      *)
LEMMA OwnedKinds ==
  ASSUME NEW s \in Owned
  PROVE  /\ s.state \in {"Valid", "Decayed"}
         /\ s.state = "Decayed" => s.kind = "left" /\ s.fields \in FieldMaps /\ s = Decayed(s.fields)
         /\ s.state = "Valid" => s.kind \in {"int", "text", "struct"}
         /\ s.state = "Valid" /\ s.kind = "struct" => s.fields \in FieldMaps /\ s = Struct(s.fields)
         /\ s.kind = "left" => s.state = "Decayed"
         /\ s.kind = "struct" => s.state = "Valid"
  BY DEF Owned, Number, Text, Struct, Decayed

(* What a register holds weighs at least what its marker does.              *)
LEMMA OwnWeighs == ASSUME NEW s \in Owned PROVE OwnWeight(s) \in Nat /\ OwnWeight(s) >= 8
<1>1. CASE s.state = "Decayed"
  <2>1. FieldsWeight(s.fields) \in Nat
    BY <1>1, OwnedKinds, FieldsWeigh
  <2>. QED BY <1>1, <2>1, OwnedKinds DEF OwnWeight
<1>2. CASE s.state = "Valid" /\ s.kind = "struct"
  <2>1. FieldsWeight(s.fields) \in Nat
    BY <1>2, OwnedKinds, FieldsWeigh
  <2>. QED BY <1>2, <2>1, OwnedKinds DEF OwnWeight
<1>3. CASE s.state = "Valid" /\ s.kind # "struct"
  BY <1>3, OwnedKinds DEF OwnWeight
<1>. QED BY <1>1, <1>2, <1>3, OwnedKinds

(* A state is one of those, a marker, or a lease on one of those.           *)
LEMMA StateKinds ==
  ASSUME NEW s \in States
  PROVE  /\ s.state \in {"Valid", "Decayed", "Consumed", "Leased"}
         /\ s.state \in {"Valid", "Decayed"} => s \in Owned
         /\ s.state = "Consumed" => s = Consumed
         /\ s.state = "Leased" => s.original \in Owned /\ s.kind = s.original.kind
         /\ s \in Owned => s.state \in {"Valid", "Decayed"}
<1>1. CASE s \in Owned
  BY <1>1, OwnedKinds
<1>2. CASE s = Consumed
  BY <1>2, OwnedKinds DEF Consumed
<1>3. CASE \E o \in Owned : s = Leased(o)
  <2>1. PICK o \in Owned : s = Leased(o)
    BY <1>3
  <2>2. s.state = "Leased" /\ s.original = o /\ s.kind = o.kind
    BY <2>1 DEF Leased
  <2>3. s \notin Owned
    BY <2>2, OwnedKinds
  <2>. QED BY <2>2, <2>3
<1>. QED BY <1>1, <1>2, <1>3 DEF States

(* A consumed register weighs eight bytes.                                  *)
LEMMA ConsumedWeighs == Consumed \in States /\ Weight(Consumed) = 8
  BY DEF States, Consumed, Weight, OwnWeight

(* Every state weighs at least what the marker of a consumed register does. *)
LEMMA Weighs == \A s \in States : Weight(s) \in Nat /\ Weight(s) >= 8
<1> SUFFICES ASSUME NEW s \in States PROVE Weight(s) \in Nat /\ Weight(s) >= 8
  OBVIOUS
<1>1. CASE s.state = "Leased"
  <2>1. OwnWeight(s.original) \in Nat /\ OwnWeight(s.original) >= 8
    BY <1>1, StateKinds, OwnWeighs
  <2>. QED BY <1>1, <2>1 DEF Weight
<1>2. CASE s.state = "Consumed"
  BY <1>2, StateKinds, ConsumedWeighs
<1>3. CASE s.state \in {"Valid", "Decayed"}
  BY <1>3, StateKinds, OwnWeighs DEF Weight
<1>. QED BY <1>1, <1>2, <1>3, StateKinds

(* What the instructions write.                                             *)
LEMMA Written ==
  /\ Number \in Owned /\ Text \in Owned /\ NewStruct \in Owned /\ Owned \subseteq States
  /\ \A s \in Owned : Leased(s) \in States
  /\ \A f \in FieldMaps : Struct(f) \in Owned /\ Decayed(f) \in Owned
<1>1. NewStruct \in Owned
  BY DEF Owned, NewStruct, FieldMaps
<1>. QED BY <1>1 DEF Owned, States

(* What a structure becomes when fields of it are consumed, decay or are    *)
(* written.                                                                 *)
LEMMA FieldsChange ==
  ASSUME NEW f \in FieldMaps
  PROVE  /\ <<>> \in FieldMaps
         /\ \A x : [f EXCEPT ![x] = "Consumed"] \in FieldMaps
         /\ [x \in DOMAIN f |-> IF f[x] = "Valid" THEN "Decayed" ELSE f[x]] \in FieldMaps
         /\ \A x \in Fields : [y \in DOMAIN f \union {x} |-> IF y = x THEN "Valid" ELSE f[y]] \in FieldMaps
<1> DEFINE V == {"Valid", "Decayed", "Consumed"}
<1>1. DOMAIN f \in SUBSET Fields /\ f \in [DOMAIN f -> V]
  BY DEF FieldMaps
<1>2. \A g : DOMAIN g \in SUBSET Fields /\ g \in [DOMAIN g -> V] => g \in FieldMaps
  BY DEF FieldMaps
<1>3. <<>> \in FieldMaps
  <2>1. DOMAIN <<>> = {} /\ <<>> \in [{} -> V]
    BY SMT
  <2>. QED BY <1>2, <2>1
<1>4. ASSUME NEW x PROVE [f EXCEPT ![x] = "Consumed"] \in FieldMaps
  BY <1>1, <1>2
<1>5. [x \in DOMAIN f |-> IF f[x] = "Valid" THEN "Decayed" ELSE f[x]] \in FieldMaps
  BY <1>1, <1>2
<1>6. ASSUME NEW x \in Fields
      PROVE  [y \in DOMAIN f \union {x} |-> IF y = x THEN "Valid" ELSE f[y]] \in FieldMaps
  BY <1>1, <1>2
<1>. QED BY <1>3, <1>4, <1>5, <1>6

-----------------------------------------------------------------------------
(* What registers weigh together                                            *)

(* A set of numbers that is not empty has a least one.                      *)
LEMMA Least ==
  ASSUME NEW T, T \subseteq Nat, T # {}
  PROVE  \E x \in T : \A y \in T : x <= y
<1> DEFINE R == OpToRel(<, Nat)
<1>1. \A x, y \in Nat : ~(<<y, x>> \in R) => x <= y
  <2>1. \A x, y \in Nat : <<y, x>> \in Nat \X Nat /\ <<y, x>>[1] = y /\ <<y, x>>[2] = x
    OBVIOUS
  <2>2. \A x, y \in Nat : ~(<<y, x>> \in R) => ~(y < x)
    BY <2>1 DEF OpToRel
  <2>3. \A x, y \in Nat : ~(y < x) => x <= y
    BY SMT
  <2>. QED BY <2>2, <2>3
<1>2. IsWellFoundedOn(R, Nat)
  BY NatLessThanWellFounded
<1> HIDE DEF R
<1>3. \E x \in T : \A y \in T : ~(<<y, x>> \in R)
  BY <1>2, WFMin
<1>. QED BY <1>1, <1>3

(* What holds of 0 and, with every number below n, of the next, holds up    *)
(* to n.                                                                    *)
LEMMA Upward ==
  ASSUME NEW n \in Nat, NEW T, T \subseteq 0 .. n, 0 \in T,
         \A k \in 1 .. n : k - 1 \in T => k \in T
  PROVE  \A k \in 0 .. n : k \in T
<1> DEFINE U == {k \in 0 .. n : k \notin T}
<1> SUFFICES ASSUME U # {} PROVE FALSE
  OBVIOUS
<1>1. U \subseteq Nat
  BY SMT
<1>2. PICK k \in U : \A y \in U : k <= y
  <2> HIDE DEF U
  <2>. QED BY <1>1, Least
<1>3. k \in 1 .. n /\ k - 1 \in 0 .. n /\ ~(k <= k - 1)
  BY SMT
<1>4. k - 1 \in T
  BY <1>2, <1>3
<1>. QED BY <1>3, <1>4

(* The weights of the first k registers, added up                           *)
Adds(regs, n, g) == g = [k \in 0 .. n |-> IF k = 0 THEN 0 ELSE g[k - 1] + Weight(regs[k])]
Upto(regs) == CHOOSE g : Adds(regs, Len(regs), g)

(* They can be added up, of registers as many as one likes.                 *)
LEMMA AddsThere ==
  ASSUME NEW regs, NEW n \in Nat
  PROVE  \E g : Adds(regs, n, g)
<1> DEFINE T == {m \in 0 .. n : \E g : Adds(regs, m, g)}
<1>1. 0 \in T
  <2> DEFINE h == [k \in 0 .. 0 |-> 0]
  <2>1. h = [k \in 0 .. 0 |-> IF k = 0 THEN 0 ELSE h[k - 1] + Weight(regs[k])]
    <3>1. \A k \in 0 .. 0 : k = 0
      BY SMT
    <3>. QED BY <3>1, Zenon
  <2>2. Adds(regs, 0, h)
    BY <2>1 DEF Adds
  <2>. QED BY <2>2, 0 \in 0 .. n
<1>2. ASSUME NEW m \in 1 .. n, m - 1 \in T PROVE m \in T
  <2>1. PICK h : Adds(regs, m - 1, h)
    BY <1>2
  <2> DEFINE w(k) == Weight(regs[k])
             g == [k \in 0 .. m |-> IF k = m THEN h[m - 1] + w(m) ELSE h[k]]
  <2> HIDE DEF w
  <2>2. \A k \in 0 .. m - 1 : h[k] = IF k = 0 THEN 0 ELSE h[k - 1] + w(k)
    BY <2>1 DEF Adds, w
  <2>3. /\ m # 0 /\ m \in 0 .. n
        /\ \A k \in 0 .. m : /\ k # 0 => k - 1 \in 0 .. m /\ k - 1 # m
                             /\ k # m => k \in 0 .. m - 1
    BY <1>2, SMT
  <2>4. \A k \in 0 .. m : k # 0 => g[k - 1] = h[k - 1]
    BY <2>3
  <2>5. ASSUME NEW k \in 0 .. m PROVE g[k] = IF k = 0 THEN 0 ELSE g[k - 1] + w(k)
    <3>1. CASE k = m
      <4>1. g[k] = h[k - 1] + w(k)
        BY <3>1
      <4>. QED BY <2>3, <2>4, <3>1, <4>1
    <3>2. CASE k # m
      <4>1. g[k] = h[k]
        BY <3>2
      <4>. QED BY <2>2, <2>3, <2>4, <3>2, <4>1
    <3>. QED BY <3>1, <3>2
  <2>6. g = [k \in 0 .. m |-> g[k]]
    OBVIOUS
  <2> HIDE DEF g
  <2>7. g = [k \in 0 .. m |-> IF k = 0 THEN 0 ELSE g[k - 1] + w(k)]
    BY <2>5, <2>6
  <2>8. Adds(regs, m, g)
    BY <2>7 DEF Adds, w
  <2>. QED BY <2>3, <2>8
<1>3. T \subseteq 0 .. n
  OBVIOUS
<1> HIDE DEF T
<1>4. n \in T
  BY <1>1, <1>2, <1>3, Upward, n \in 0 .. n
<1>. QED BY <1>4 DEF T

(* The weight of all registers is added up register by register.            *)
LEMMA UptoIs ==
  ASSUME NEW regs, Len(regs) \in Nat
  PROVE  /\ Weigh(regs) = Upto(regs)[Len(regs)]
         /\ Upto(regs)[0] = 0
         /\ \A k \in 1 .. Len(regs) : Upto(regs)[k] = Upto(regs)[k - 1] + Weight(regs[k])
<1>1. Adds(regs, Len(regs), Upto(regs))
  BY AddsThere DEF Upto
<1>2. Weigh(regs) = Upto(regs)[Len(regs)]
  BY DEF Weigh, Upto, Adds
<1> DEFINE g == Upto(regs)
<1> HIDE DEF g
<1>3. g = [k \in 0 .. Len(regs) |-> IF k = 0 THEN 0 ELSE g[k - 1] + Weight(regs[k])]
  BY <1>1 DEF Adds, g
<1>4. g[0] = 0
  BY <1>3, 0 \in 0 .. Len(regs)
<1>5. \A k \in 1 .. Len(regs) : k \in 0 .. Len(regs) /\ k # 0
  BY SMT
<1>6. \A k \in 1 .. Len(regs) : g[k] = g[k - 1] + Weight(regs[k])
  BY <1>3, <1>5
<1>. QED BY <1>2, <1>4, <1>6 DEF g

(* Registers weigh eight bytes each at least, and more than any one of them *)
(* by as much for each of the others.                                       *)
LEMMA WeighType ==
  ASSUME NEW regs \in Seq(States)
  PROVE  /\ Weigh(regs) \in Nat /\ Weigh(regs) >= 8 * Len(regs)
         /\ \A k \in 0 .. Len(regs) : Upto(regs)[k] \in Nat /\ Upto(regs)[k] >= 8 * k
<1> DEFINE g == Upto(regs)
           T == {k \in 0 .. Len(regs) : g[k] \in Nat /\ g[k] >= 8 * k}
<1>1. Len(regs) \in Nat /\ \A k \in 1 .. Len(regs) : Weight(regs[k]) \in Nat /\ Weight(regs[k]) >= 8
  BY Weighs
<1>2. 0 \in T
  BY <1>1, UptoIs
<1>3. ASSUME NEW k \in 1 .. Len(regs), k - 1 \in T PROVE k \in T
  <2>1. g[k] = g[k - 1] + Weight(regs[k])
    BY <1>1, UptoIs
  <2> HIDE DEF g
  <2>. QED BY <1>1, <1>3, <2>1, SMT
<1>4. T \subseteq 0 .. Len(regs)
  OBVIOUS
<1>5. \A k \in 0 .. Len(regs) : k \in T
  <2> HIDE DEF T
  <2>. QED BY <1>1, <1>2, <1>3, <1>4, Upward
<1>6. Weigh(regs) = g[Len(regs)] /\ Len(regs) \in 0 .. Len(regs)
  BY <1>1, UptoIs
<1>. QED BY <1>5, <1>6

(* A new arena weighs nothing but its markers, and an empty one nothing.    *)
LEMMA WeighMarkers ==
  ASSUME NEW n \in Nat
  PROVE  Weigh([r \in 1 .. n |-> Consumed]) = 8 * n
<1> DEFINE regs == [r \in 1 .. n |-> Consumed]
           g == Upto(regs)
           T == {k \in 0 .. n : g[k] = 8 * k}
<1>1. Len(regs) = n /\ \A k \in 1 .. n : Weight(regs[k]) = 8
  BY ConsumedWeighs
<1>2. /\ Weigh(regs) = g[n] /\ g[0] = 0
      /\ \A k \in 1 .. n : g[k] = g[k - 1] + Weight(regs[k])
  BY <1>1, UptoIs
<1> HIDE DEF regs, g
<1>3. 0 \in T
  BY <1>2
<1>4. \A k \in 1 .. n : k - 1 \in T => k \in T
  BY <1>1, <1>2, SMT
<1>5. T \subseteq 0 .. n
  OBVIOUS
<1>6. n \in T
  <2> HIDE DEF T
  <2>. QED BY <1>3, <1>4, <1>5, Upward, n \in 0 .. n
<1>. QED BY <1>2, <1>6 DEF regs

(* One register that is replaced changes the weight by the difference.      *)
LEMMA WeighReplaced ==
  ASSUME NEW regs \in Seq(States), NEW r \in 1 .. Len(regs), NEW s \in States
  PROVE  Weigh([regs EXCEPT ![r] = s]) = Weigh(regs) - Weight(regs[r]) + Weight(s)
<1> DEFINE n == Len(regs)
           new == [regs EXCEPT ![r] = s]
           g == Upto(regs)
           h == Upto(new)
           d == Weight(s) - Weight(regs[r])
           T == {k \in 0 .. n : h[k] = IF k < r THEN g[k] ELSE g[k] + d}
<1>1. n \in Nat /\ Len(new) = n
  OBVIOUS
<1>2. /\ Weigh(regs) = g[n] /\ g[0] = 0
      /\ \A k \in 1 .. n : g[k] = g[k - 1] + Weight(regs[k])
  BY <1>1, UptoIs
<1>3. /\ Weigh(new) = h[n] /\ h[0] = 0
      /\ \A k \in 1 .. n : h[k] = h[k - 1] + Weight(new[k])
  BY <1>1, UptoIs
<1>4. /\ \A k \in 1 .. n : k # r => new[k] = regs[k]
      /\ new[r] = s
  OBVIOUS
<1>5. /\ \A k \in 0 .. n : g[k] \in Nat
      /\ \A k \in 1 .. n : Weight(regs[k]) \in Nat
      /\ Weight(s) \in Nat
  BY WeighType, Weighs
<1> HIDE DEF g, h, new, n
<1>6. 0 \in T
  BY <1>1, <1>2, <1>3, SMT
<1>7. ASSUME NEW k \in 1 .. n, k - 1 \in T PROVE k \in T
  <2>1. g[k] = g[k - 1] + Weight(regs[k]) /\ h[k] = h[k - 1] + Weight(new[k])
    BY <1>2, <1>3
  <2>2. k - 1 \in 0 .. n /\ k \in 0 .. n /\ g[k - 1] \in Nat /\ g[k] \in Nat
    BY <1>1, <1>5, SMT
  <2>3. h[k - 1] = IF k - 1 < r THEN g[k - 1] ELSE g[k - 1] + d
    BY <1>7
  <2>4. r \in 1 .. n /\ r \in Nat /\ k \in Nat
    BY <1>1 DEF n
  <2>5. CASE k = r
    <3>1. h[k] = g[k] + d
      BY <1>4, <1>5, <2>1, <2>2, <2>3, <2>4, <2>5, SMT
    <3>. QED BY <2>2, <2>4, <2>5, <3>1, SMT
  <2>6. CASE k # r
    <3>1. new[k] = regs[k] /\ Weight(regs[k]) \in Nat
      BY <1>4, <1>5, <2>6
    <3>2. CASE k < r
      <4>1. h[k] = g[k]
        BY <2>1, <2>2, <2>3, <2>4, <3>1, <3>2, SMT
      <4>. QED BY <2>2, <3>2, <4>1
    <3>3. CASE ~(k < r)
      <4>1. h[k] = g[k] + d
        BY <1>5, <2>1, <2>2, <2>3, <2>4, <2>6, <3>1, <3>3, SMT
      <4>. QED BY <2>2, <3>3, <4>1
    <3>. QED BY <3>2, <3>3
  <2>. QED BY <2>5, <2>6
<1>8. T \subseteq 0 .. n
  OBVIOUS
<1>9. n \in T
  <2> HIDE DEF T
  <2>. QED BY <1>1, <1>6, <1>7, <1>8, Upward, n \in 0 .. n
<1>10. ~(n < r) /\ r \in 1 .. n
  BY <1>1, SMT DEF n
<1>11. h[n] = g[n] + d
  BY <1>9, <1>10
<1>12. g[n] \in Nat /\ Weight(regs[r]) \in Nat
  BY <1>1, <1>5, <1>10, n \in 0 .. n
<1>13. g[n] + d = g[n] - Weight(regs[r]) + Weight(s)
  BY <1>5, <1>12, SMT
<1>. QED BY <1>2, <1>3, <1>11, <1>13 DEF new

(* Markers that are added weigh eight bytes each.                           *)
LEMMA WeighLonger ==
  ASSUME NEW regs \in Seq(States), NEW m \in Nat
  PROVE  Weigh(regs \o [i \in 1 .. m |-> Consumed]) = Weigh(regs) + 8 * m
<1> DEFINE n == Len(regs)
           new == regs \o [i \in 1 .. m |-> Consumed]
           g == Upto(regs)
           h == Upto(new)
           T == {k \in 0 .. n + m : h[k] = IF k <= n THEN g[k] ELSE g[n] + 8 * (k - n)}
<1>1. n \in Nat /\ Len(new) = n + m /\ Len(new) \in Nat
  OBVIOUS
<1>2. /\ Weigh(regs) = g[n] /\ g[0] = 0
      /\ \A k \in 1 .. n : g[k] = g[k - 1] + Weight(regs[k])
  BY <1>1, UptoIs
<1>3. /\ Weigh(new) = h[n + m] /\ h[0] = 0
      /\ \A k \in 1 .. n + m : h[k] = h[k - 1] + Weight(new[k])
  <2> HIDE DEF new, n
  <2>. QED BY <1>1, UptoIs
<1>4. /\ \A k \in 1 .. n : new[k] = regs[k]
      /\ \A k \in n + 1 .. n + m : new[k] = Consumed
  <2> DEFINE more == [i \in 1 .. m |-> Consumed]
  <2>1. more \in Seq(States) /\ Len(more) = m /\ \A i \in 1 .. m : more[i] = Consumed
    BY ConsumedWeighs
  <2> HIDE DEF more
  <2>2. /\ \A k \in 1 .. n : (regs \o more)[k] = regs[k]
        /\ \A k \in n + 1 .. n + m : (regs \o more)[k] = more[k - n] /\ k - n \in 1 .. m
    BY <1>1, <2>1, SMT
  <2>. QED BY <2>1, <2>2 DEF more
<1>5. \A k \in 0 .. n : g[k] \in Nat
  BY WeighType
<1>6. Weight(Consumed) = 8
  BY ConsumedWeighs
<1> HIDE DEF g, h, new, n
<1>7. 0 \in T
  BY <1>1, <1>2, <1>3, SMT
<1>8. ASSUME NEW k \in 1 .. n + m, k - 1 \in T PROVE k \in T
  <2>1. h[k] = h[k - 1] + Weight(new[k])
    BY <1>3
  <2>2. k - 1 \in 0 .. n + m /\ k \in 0 .. n + m /\ k \in Nat
    BY <1>1, SMT
  <2>3. h[k - 1] = IF k - 1 <= n THEN g[k - 1] ELSE g[n] + 8 * (k - 1 - n)
    BY <1>8
  <2>4. CASE k <= n
    <3>1. k \in 1 .. n /\ k - 1 <= n
      BY <1>1, <2>4, SMT
    <3>2. h[k] = g[k]
      BY <1>2, <1>4, <2>1, <2>3, <3>1
    <3>. QED BY <2>2, <2>4, <3>2
  <2>5. CASE ~(k <= n)
    <3>1. k \in n + 1 .. n + m /\ g[n] \in Nat
      BY <1>1, <1>5, <2>5, SMT
    <3>2. h[k] = h[k - 1] + 8
      BY <1>4, <1>6, <2>1, <3>1
    <3>3. h[k] = g[n] + 8 * (k - n)
      BY <1>1, <2>2, <2>3, <2>5, <3>1, <3>2, SMT
    <3>. QED BY <2>2, <2>5, <3>3
  <2>. QED BY <2>4, <2>5
<1>9. T \subseteq 0 .. n + m
  OBVIOUS
<1>10. n + m \in Nat /\ n + m \in 0 .. n + m
  BY <1>1, SMT
<1>11. n + m \in T
  <2> HIDE DEF T
  <2>. QED BY <1>7, <1>8, <1>9, <1>10, Upward
<1>12. h[n + m] = g[n] + 8 * m
  <2>1. CASE m = 0
    BY <1>1, <1>5, <1>11, <2>1, SMT
  <2>2. CASE m # 0
    BY <1>1, <1>5, <1>11, <2>2, SMT
  <2>. QED BY <2>1, <2>2
<1>. QED BY <1>2, <1>3, <1>12 DEF new
-----------------------------------------------------------------------------
(* Evicting what has decayed                                                *)

(* The count x once register k has been looked at                           *)
Gone(a) == {r \in Regs(a) : a.regs[r].state = "Decayed"}
Evicted(a, k, x) == IF k \in Gone(a) THEN Minus(x, Weight(a.regs[k])) + Weight(Consumed) ELSE x
Evicts(a, n, g) == g = [k \in 0 .. n |-> IF k = 0 THEN a.used ELSE Evicted(a, k, g[k - 1])]
UsedUpto(a) == CHOOSE g : Evicts(a, Len(a.regs), g)

(* It can be worked out, for registers as many as one likes.                *)
LEMMA EvictsThere ==
  ASSUME NEW a, NEW n \in Nat
  PROVE  \E g : Evicts(a, n, g)
<1> DEFINE T == {m \in 0 .. n : \E g : Evicts(a, m, g)}
<1>1. 0 \in T
  <2> DEFINE h == [k \in 0 .. 0 |-> a.used]
  <2>1. h = [k \in 0 .. 0 |-> IF k = 0 THEN a.used ELSE Evicted(a, k, h[k - 1])]
    <3>1. \A k \in 0 .. 0 : k = 0
      BY SMT
    <3>. QED BY <3>1, Zenon
  <2>2. Evicts(a, 0, h)
    BY <2>1 DEF Evicts
  <2>. QED BY <2>2, 0 \in 0 .. n
<1>2. ASSUME NEW m \in 1 .. n, m - 1 \in T PROVE m \in T
  <2>1. PICK h : Evicts(a, m - 1, h)
    BY <1>2
  <2> DEFINE w(x, k) == Evicted(a, k, x)
             g == [k \in 0 .. m |-> IF k = m THEN w(h[m - 1], m) ELSE h[k]]
  <2> HIDE DEF w
  <2>2. \A k \in 0 .. m - 1 : h[k] = IF k = 0 THEN a.used ELSE w(h[k - 1], k)
    BY <2>1 DEF Evicts, w
  <2>3. /\ m # 0 /\ m \in 0 .. n
        /\ \A k \in 0 .. m : /\ k # 0 => k - 1 \in 0 .. m /\ k - 1 # m
                             /\ k # m => k \in 0 .. m - 1
    BY <1>2, SMT
  <2>4. \A k \in 0 .. m : k # 0 => g[k - 1] = h[k - 1]
    BY <2>3
  <2>5. ASSUME NEW k \in 0 .. m PROVE g[k] = IF k = 0 THEN a.used ELSE w(g[k - 1], k)
    <3>1. CASE k = m
      <4>1. g[k] = w(h[k - 1], k)
        BY <3>1
      <4>. QED BY <2>3, <2>4, <3>1, <4>1
    <3>2. CASE k # m
      <4>1. g[k] = h[k]
        BY <3>2
      <4>. QED BY <2>2, <2>3, <2>4, <3>2, <4>1
    <3>. QED BY <3>1, <3>2
  <2>6. g = [k \in 0 .. m |-> g[k]]
    OBVIOUS
  <2> HIDE DEF g
  <2>7. g = [k \in 0 .. m |-> IF k = 0 THEN a.used ELSE w(g[k - 1], k)]
    BY <2>5, <2>6
  <2>8. Evicts(a, m, g)
    BY <2>7 DEF Evicts, w
  <2>. QED BY <2>3, <2>8
<1>3. T \subseteq 0 .. n
  OBVIOUS
<1> HIDE DEF T
<1>4. n \in T
  BY <1>1, <1>2, <1>3, Upward, n \in 0 .. n
<1>. QED BY <1>4 DEF T

(* What is evicted becomes a marker; the count goes down register by        *)
(* register.                                                                *)
LEMMA EvictIs ==
  ASSUME NEW a, Len(a.regs) \in Nat
  PROVE  LET g == UsedUpto(a)
             b == EvictDecayed(a)
         IN  /\ g[0] = a.used
             /\ \A k \in 1 .. Len(a.regs) : g[k] = Evicted(a, k, g[k - 1])
             /\ b = [a EXCEPT !.regs = [r \in Regs(a) |-> IF r \in Gone(a) THEN Consumed ELSE a.regs[r]],
                              !.timed = @ \ Gone(a),
                              !.used = g[Len(a.regs)]]
<1>1. Evicts(a, Len(a.regs), UsedUpto(a))
  BY EvictsThere DEF UsedUpto
<1>2. EvictDecayed(a) =
        [a EXCEPT !.regs = [r \in Regs(a) |-> IF r \in Gone(a) THEN Consumed ELSE a.regs[r]],
                  !.timed = @ \ Gone(a),
                  !.used = UsedUpto(a)[Len(a.regs)]]
  BY DEF EvictDecayed, UsedUpto, Evicts, Evicted, Gone
<1> DEFINE g == UsedUpto(a)
<1> HIDE DEF g
<1>3. g = [k \in 0 .. Len(a.regs) |-> IF k = 0 THEN a.used ELSE Evicted(a, k, g[k - 1])]
  BY <1>1 DEF Evicts, g
<1>4. g[0] = a.used
  BY <1>3, 0 \in 0 .. Len(a.regs)
<1>5. \A k \in 1 .. Len(a.regs) : k \in 0 .. Len(a.regs) /\ k # 0
  BY SMT
<1>6. \A k \in 1 .. Len(a.regs) : g[k] = Evicted(a, k, g[k - 1])
  BY <1>3, <1>5
<1>. QED BY <1>2, <1>4, <1>6 DEF g

-----------------------------------------------------------------------------
(* Arenas and what their operations keep                                    *)

Arenas == [regs : Seq(States), timed : SUBSET Nat, used : Nat, baseUsed : Nat, baseRegs : Nat]
Typed(a) == a \in Arenas /\ a.timed \subseteq Regs(a)

(* What is held beyond the markers, by an arena or by the frame of a caller *)
Held(a) == Total(a) - 8 * Len(a.regs)
Covers(a) == Held(a) <= a.used
Within(a, leak) == a.used <= Total(a) + leak

(* b is a with another count, or other states in its registers              *)
Keeps(a, b) ==
  /\ Typed(b) /\ b.baseUsed = a.baseUsed /\ b.baseRegs = a.baseRegs
  /\ Len(b.regs) >= Len(a.regs)
  /\ Covers(a) => Covers(b)
  /\ \A leak \in Nat : Within(a, leak) => Within(b, leak)

(* What is kept by a step and by the next is kept by both.                  *)
LEMMA KeepsBoth == ASSUME NEW a, NEW b, NEW c, Typed(a), Keeps(a, b), Keeps(b, c) PROVE Keeps(a, c)
<1>1. Len(a.regs) \in Nat /\ Len(b.regs) \in Nat /\ Len(c.regs) \in Nat
  BY DEF Typed, Keeps, Arenas
<1>. QED BY <1>1 DEF Keeps

(* The metadata is no matter to the count.                                  *)
LEMMA KeepsTimed ==
  ASSUME NEW a, Typed(a), NEW T \in SUBSET Regs(a)
  PROVE  LET b == [a EXCEPT !.timed = T] IN Keeps(a, b) /\ Held(b) = Held(a) /\ b.regs = a.regs
<1> DEFINE b == [a EXCEPT !.timed = T]
<1>1. /\ b.regs = a.regs /\ b.used = a.used /\ b.timed = T
      /\ b.baseUsed = a.baseUsed /\ b.baseRegs = a.baseRegs
  BY DEF Typed, Arenas
<1>2. Regs(a) \subseteq Nat /\ Len(a.regs) \in Nat
  BY DEF Typed, Arenas, Regs
<1>3. b \in Arenas
  BY <1>2 DEF Typed, Arenas
<1>4. Typed(b)
  BY <1>1, <1>3 DEF Typed, Regs
<1>5. Total(b) = Total(a)
  BY <1>1 DEF Total
<1> HIDE DEF b
<1>. QED BY <1>1, <1>2, <1>4, <1>5 DEF Keeps, Covers, Within, Held, b

(* The registers of an arena and what they weigh.                           *)
LEMMA TypedIs ==
  ASSUME NEW a, Typed(a)
  PROVE  /\ a.regs \in Seq(States) /\ Len(a.regs) \in Nat /\ Regs(a) = 1 .. Len(a.regs)
         /\ a.used \in Nat /\ a.baseUsed \in Nat /\ a.baseRegs \in Nat
         /\ Total(a) \in Nat /\ Total(a) >= 8 * Len(a.regs)
         /\ \A r \in Regs(a) : a.regs[r] \in States
<1>1. /\ a.regs \in Seq(States) /\ Len(a.regs) \in Nat /\ Regs(a) = 1 .. Len(a.regs)
      /\ a.used \in Nat /\ a.baseUsed \in Nat /\ a.baseRegs \in Nat
  BY DEF Typed, Arenas, Regs
<1>2. Total(a) \in Nat /\ Total(a) >= 8 * Len(a.regs)
  BY <1>1, WeighType DEF Total
<1>. QED BY <1>1, <1>2

(* What is missing for register r to be there.                              *)
LEMMA Missing ==
  ASSUME NEW n \in Nat, NEW r \in Nat \ {0}
  PROVE  /\ Minus(r, n) \in Nat
         /\ r \in 1 .. n => Minus(r, n) = 0
         /\ r \notin 1 .. n => n + Minus(r, n) = r /\ Minus(r, n) # 0
  BY SMT DEF Minus

(* Registers after registers.                                               *)
LEMMA Joined ==
  ASSUME NEW s \in Seq(States), NEW t \in Seq(States)
  PROVE  /\ s \o t \in Seq(States) /\ Len(s \o t) = Len(s) + Len(t)
         /\ \A k \in 1 .. Len(s) : (s \o t)[k] = s[k]
         /\ \A k \in 1 .. Len(t) : (s \o t)[Len(s) + k] = t[k]
<1>1. /\ s \o t \in Seq(States) /\ Len(s \o t) = Len(s) + Len(t)
      /\ \A k \in 1 .. Len(s) : (s \o t)[k] = s[k]
  BY SMT
<1>2. ASSUME NEW k \in 1 .. Len(t) PROVE (s \o t)[Len(s) + k] = t[k]
  BY SMT
<1>. QED BY <1>1, <1>2

(* A register that is there now is a marker, if it was not before.          *)
LEMMA EnsureKeeps ==
  ASSUME NEW a, Typed(a), NEW r \in Nat \ {0}
  PROVE  LET b == EnsureRegister(a, r)
         IN  /\ Keeps(a, b) /\ Held(b) = Held(a) /\ b.used = a.used /\ b.timed = a.timed
             /\ r \in Regs(b) /\ b.regs[r] = State(a, r) /\ State(a, r) \in States
<1> DEFINE m == Minus(r, Len(a.regs))
           more == [i \in 1 .. m |-> Consumed]
           b == EnsureRegister(a, r)
<1>1. /\ a.regs \in Seq(States) /\ Len(a.regs) \in Nat /\ Regs(a) = 1 .. Len(a.regs)
      /\ a.used \in Nat /\ a.baseUsed \in Nat /\ a.baseRegs \in Nat
      /\ \A k \in Regs(a) : a.regs[k] \in States
  BY TypedIs
<1>2. m \in Nat /\ (r \in Regs(a) => m = 0) /\ (r \notin Regs(a) => Len(a.regs) + m = r /\ m # 0)
  BY <1>1, Missing
<1> HIDE DEF m
<1>3. more \in Seq(States) /\ Len(more) = m /\ \A i \in 1 .. m : more[i] = Consumed
  BY <1>2, ConsumedWeighs
<1>4. /\ b.regs = a.regs \o more /\ b.used = a.used /\ b.timed = a.timed
      /\ b.baseUsed = a.baseUsed /\ b.baseRegs = a.baseRegs
  BY DEF EnsureRegister, Typed, Arenas, m
<1>5. Weigh(a.regs \o more) = Weigh(a.regs) + 8 * m
  BY <1>1, <1>2, WeighLonger
<1> HIDE DEF more
<1>6. /\ a.regs \o more \in Seq(States) /\ Len(a.regs \o more) = Len(a.regs) + m
      /\ \A k \in 1 .. Len(a.regs) : (a.regs \o more)[k] = a.regs[k]
      /\ \A k \in 1 .. m : (a.regs \o more)[Len(a.regs) + k] = more[k]
  BY <1>1, <1>3, Joined
<1>7. b = [a EXCEPT !.regs = a.regs \o more]
  BY DEF EnsureRegister, more, m
<1>8. b \in Arenas
  BY <1>6, <1>7 DEF Typed, Arenas
<1>9. Len(b.regs) = Len(a.regs) + m /\ Regs(b) = 1 .. Len(a.regs) + m
  BY <1>4, <1>6 DEF Regs
<1>10. Typed(b)
  BY <1>1, <1>2, <1>4, <1>8, <1>9, SMT DEF Typed
<1>11. Total(b) = Total(a) + 8 * m
  BY <1>4, <1>5 DEF Total
<1>12. Total(a) \in Nat
  BY TypedIs
<1>13. Held(b) = Held(a)
  BY <1>1, <1>2, <1>9, <1>11, <1>12, SMT DEF Held
<1> HIDE DEF b
<1>14. \A leak \in Nat : Within(a, leak) => Within(b, leak)
  BY <1>1, <1>2, <1>4, <1>11, <1>12, SMT DEF Within
<1>15. Len(b.regs) >= Len(a.regs)
  BY <1>1, <1>2, <1>9, SMT
<1>16. Keeps(a, b)
  BY <1>4, <1>10, <1>13, <1>14, <1>15 DEF Keeps, Covers
<1>17. r \in Regs(b) /\ b.regs[r] = State(a, r) /\ State(a, r) \in States
  <2>1. CASE r \in Regs(a)
    <3>1. r \in 1 .. Len(a.regs) /\ r \in 1 .. Len(a.regs) + m
      BY <1>1, <1>2, <2>1, SMT
    <3>. QED BY <1>1, <1>4, <1>6, <1>9, <2>1, <3>1 DEF State
  <2>2. CASE r \notin Regs(a)
    <3>1. r = Len(a.regs) + m /\ m \in 1 .. m /\ r \in 1 .. Len(a.regs) + m
      BY <1>1, <1>2, <2>2, SMT
    <3>2. b.regs[r] = Consumed
      BY <1>3, <1>4, <1>6, <3>1
    <3>. QED BY <1>9, <2>2, <3>1, <3>2, ConsumedWeighs DEF State
  <2>. QED BY <2>1, <2>2
<1>. QED BY <1>4, <1>13, <1>16, <1>17 DEF b

(* A subtraction that saturates.                                            *)
LEMMA MinusIs ==
  ASSUME NEW x \in Nat, NEW y \in Nat
  PROVE  Minus(x, y) \in Nat /\ Minus(x, y) >= x - y /\ (Minus(x, y) = x - y \/ Minus(x, y) = 0)
  BY SMT DEF Minus

(* A register that is overwritten: the count follows its weight.            *)
LEMMA PutKeeps ==
  ASSUME NEW a, Typed(a), NEW r \in Regs(a), NEW s \in States
  PROVE  LET b == Put(a, r, s)
         IN  /\ Keeps(a, b) /\ b.timed = a.timed
             /\ b.used = Minus(a.used, Weight(a.regs[r])) + Weight(s)
             /\ Held(b) = Held(a) - Weight(a.regs[r]) + Weight(s)
             /\ Regs(b) = Regs(a)
<1> DEFINE b == Put(a, r, s)
           w == Weight(a.regs[r])
<1>1. /\ a.regs \in Seq(States) /\ Len(a.regs) \in Nat /\ Regs(a) = 1 .. Len(a.regs)
      /\ a.used \in Nat /\ a.baseUsed \in Nat /\ a.baseRegs \in Nat
      /\ Total(a) \in Nat /\ Total(a) >= 8 * Len(a.regs) /\ a.regs[r] \in States
  BY TypedIs
<1>2. w \in Nat /\ Weight(s) \in Nat /\ Minus(a.used, w) \in Nat /\ Minus(a.used, w) >= a.used - w
      /\ (Minus(a.used, w) = a.used - w \/ Minus(a.used, w) = 0)
  BY <1>1, Weighs, MinusIs
<1>3. Total(b) = Total(a) - w + Weight(s)
  <2>1. b.regs = [a.regs EXCEPT ![r] = s]
    BY DEF Put, Typed, Arenas
  <2>. QED BY <1>1, <2>1, WeighReplaced DEF Total
<1>4. b = [a EXCEPT !.regs = [a.regs EXCEPT ![r] = s], !.used = Minus(a.used, w) + Weight(s)]
  BY DEF Put
<1>5. [a.regs EXCEPT ![r] = s] \in Seq(States) /\ Minus(a.used, w) + Weight(s) \in Nat
      /\ Len([a.regs EXCEPT ![r] = s]) = Len(a.regs)
  BY <1>1, <1>2, SMT
<1>6. b \in Arenas
  BY <1>4, <1>5 DEF Typed, Arenas
<1>7. /\ b.timed = a.timed /\ b.baseUsed = a.baseUsed /\ b.baseRegs = a.baseRegs
      /\ b.regs = [a.regs EXCEPT ![r] = s] /\ b.used = Minus(a.used, w) + Weight(s)
  BY <1>4 DEF Typed, Arenas
<1> HIDE DEF b, w
<1>8. Len(b.regs) = Len(a.regs) /\ Regs(b) = Regs(a)
  BY <1>1, <1>5, <1>7 DEF Regs
<1>9. Typed(b)
  BY <1>6, <1>7, <1>8 DEF Typed
<1>10. Total(b) \in Nat /\ Total(b) >= 8 * Len(b.regs)
  BY <1>9, TypedIs
<1>11. Held(b) = Held(a) - w + Weight(s)
  BY <1>1, <1>2, <1>3, <1>8, SMT DEF Held
<1>12. Covers(a) => Covers(b)
  <2> DEFINE h == Held(a)
             u == a.used
             v == Weight(s)
             m == Minus(a.used, w)
  <2>1. /\ h \in Int /\ u \in Nat /\ v \in Nat /\ w \in Nat /\ m \in Nat /\ m >= u - w
        /\ Held(b) = h - w + v /\ b.used = m + v
    BY <1>1, <1>2, <1>7, <1>11, SMT DEF Held
  <2> HIDE DEF h, u, v, m
  <2>2. h <= u => h - w + v <= m + v
    BY <2>1, SMT
  <2>. QED BY <2>1, <2>2, Zenon DEF Covers, h, u
<1>13. Total(b) >= Weight(s)
  <2>1. Total(a) - w \in Nat
    <3>1. Weigh([a.regs EXCEPT ![r] = Consumed]) = Weigh(a.regs) - Weight(a.regs[r]) + Weight(Consumed)
      BY <1>1, WeighReplaced, ConsumedWeighs
    <3>2. /\ Weigh([a.regs EXCEPT ![r] = Consumed]) \in Nat
          /\ Weigh([a.regs EXCEPT ![r] = Consumed]) >= 8 * Len([a.regs EXCEPT ![r] = Consumed])
      <4>1. [a.regs EXCEPT ![r] = Consumed] \in Seq(States)
        BY <1>1, ConsumedWeighs
      <4>. QED BY <4>1, WeighType
    <3>3. Len([a.regs EXCEPT ![r] = Consumed]) = Len(a.regs) /\ Len(a.regs) >= 1
      BY <1>1, SMT
    <3>. QED BY <1>1, <1>2, <3>1, <3>2, <3>3, ConsumedWeighs, SMTT(30) DEF Total, w
  <2>. QED BY <1>1, <1>2, <1>3, <2>1, SMT
<1>14. ASSUME NEW leak \in Nat, Within(a, leak) PROVE Within(b, leak)
  <2>1. b.used = Minus(a.used, w) + Weight(s) /\ a.used <= Total(a) + leak
    BY <1>7, <1>14 DEF Within
  <2>2. b.used <= Total(b) + leak
    BY <1>1, <1>2, <1>3, <1>10, <1>13, <2>1, SMTT(30)
  <2>. QED BY <2>2 DEF Within
<1>15. Keeps(a, b)
  BY <1>1, <1>7, <1>8, <1>9, <1>12, <1>14 DEF Keeps
<1>. QED BY <1>7, <1>8, <1>11, <1>15 DEF b, w
(* An insertion: the count follows, and what fits stays within the capacity. *)
LEMMA InsertKeeps ==
  ASSUME NEW a, Typed(a), NEW r \in Nat \ {0}, NEW s \in States
  PROVE  LET b == Insert(a, r, s)
         IN  /\ Keeps(a, b) /\ r \in Regs(b) /\ State(a, r) \in States
             /\ Covers(a) /\ Fits(a, r, s) => Held(b) <= Capacity
<1> DEFINE e == EnsureRegister(a, r)
           p == Put(e, r, s)
           b == Insert(a, r, s)
<1>1. /\ Keeps(a, e) /\ Held(e) = Held(a) /\ e.used = a.used
      /\ r \in Regs(e) /\ e.regs[r] = State(a, r) /\ State(a, r) \in States
  BY EnsureKeeps
<1>2. Typed(e)
  BY <1>1 DEF Keeps
<1> HIDE DEF e
<1>3. /\ Keeps(e, p) /\ Held(p) = Held(e) - Weight(e.regs[r]) + Weight(s)
      /\ p.used = Minus(e.used, Weight(e.regs[r])) + Weight(s) /\ Regs(p) = Regs(e)
  BY <1>1, <1>2, PutKeeps
<1>4. Typed(p)
  BY <1>3 DEF Keeps
<1>5. b = [p EXCEPT !.timed = p.timed \ {r}]
  BY DEF Insert, e
<1> HIDE DEF p
<1>6. Keeps(p, b) /\ Held(b) = Held(p) /\ b.regs = p.regs
  <2>1. p.timed \ {r} \in SUBSET Regs(p)
    BY <1>4 DEF Typed
  <2> HIDE DEF b
  <2>. QED BY <1>4, <1>5, <2>1, KeepsTimed
<1> HIDE DEF b
<1>7. Keeps(a, b)
  <2>1. Keeps(a, p)
    BY <1>1, <1>3, KeepsBoth
  <2>. QED BY <1>6, <2>1, KeepsBoth
<1>8. r \in Regs(b)
  BY <1>1, <1>3, <1>6 DEF Regs
<1>9. ASSUME Covers(a), Fits(a, r, s) PROVE Held(b) <= Capacity
  <2> DEFINE w == Weight(State(a, r))
  <2>1. w \in Nat /\ Weight(s) \in Nat /\ a.used \in Nat /\ Minus(a.used, w) \in Nat
        /\ Minus(a.used, w) >= a.used - w
    BY <1>1, Weighs, TypedIs, MinusIs
  <2>2. Held(b) = Held(a) - w + Weight(s)
    BY <1>1, <1>3, <1>6
  <2>3. Held(a) <= a.used /\ Minus(a.used, w) + Weight(s) <= Capacity
    BY <1>9 DEF Covers, Fits
  <2>4. Held(a) \in Int
    BY TypedIs DEF Held
  <2> HIDE DEF w
  <2>5. Capacity \in Nat
    BY ArenaAssumption
  <2>. QED BY <2>1, <2>2, <2>3, <2>4, <2>5, SMT
<1>. QED BY <1>1, <1>7, <1>8, <1>9 DEF b

(* Consuming: the count follows, less is held.                              *)
LEMMA ConsumeKeeps ==
  ASSUME NEW a, Typed(a), NEW r \in Nat \ {0}
  PROVE  Keeps(a, ConsumeReg(a, r)) /\ Held(ConsumeReg(a, r)) <= Held(a)
<1>0. Held(a) \in Int
  BY TypedIs DEF Held
<1>1. CASE State(a, r).state = "Valid"
  <2> DEFINE p == Put(a, r, Consumed)
             b == ConsumeReg(a, r)
  <2>1. r \in Regs(a) /\ a.regs[r] \in States
    <3>1. r \in Regs(a)
      BY <1>1 DEF State, Consumed
    <3>. QED BY <3>1, TypedIs
  <2>2. /\ Keeps(a, p) /\ Held(p) = Held(a) - Weight(a.regs[r]) + Weight(Consumed)
    BY <2>1, PutKeeps, ConsumedWeighs
  <2>3. Typed(p)
    BY <2>2 DEF Keeps
  <2>4. b = [p EXCEPT !.timed = p.timed \ {r}]
    BY <1>1 DEF ConsumeReg
  <2> HIDE DEF p
  <2>5. Keeps(p, b) /\ Held(b) = Held(p)
    <3>1. p.timed \ {r} \in SUBSET Regs(p)
      BY <2>3 DEF Typed
    <3> HIDE DEF b
    <3>. QED BY <2>3, <2>4, <3>1, KeepsTimed
  <2>6. Weight(a.regs[r]) >= 8 /\ Weight(a.regs[r]) \in Nat /\ Weight(Consumed) = 8
    BY <2>1, Weighs, ConsumedWeighs
  <2>7. Held(b) <= Held(a)
    BY <1>0, <2>2, <2>5, <2>6, SMT
  <2>. QED BY <2>2, <2>5, <2>7, KeepsBoth
<1>2. CASE State(a, r).state # "Valid"
  <2>1. ConsumeReg(a, r) = EnsureRegister(a, r)
    BY <1>2 DEF ConsumeReg
  <2>2. Keeps(a, EnsureRegister(a, r)) /\ Held(EnsureRegister(a, r)) = Held(a)
    BY EnsureKeeps
  <2>. QED BY <1>0, <2>1, <2>2, SMT
<1>. QED BY <1>1, <1>2

(* Counting again: the count is what the registers weigh.                   *)
LEMMA CompactKeeps ==
  ASSUME NEW a, Typed(a)
  PROVE  LET b == CompactConsumed(a)
         IN  /\ Typed(b) /\ b.baseUsed = a.baseUsed /\ b.baseRegs = a.baseRegs
             /\ b.regs = a.regs /\ Covers(b) /\ \A leak \in Nat : Within(b, leak)
<1> DEFINE b == CompactConsumed(a)
<1>1. Total(a) \in Nat /\ Len(a.regs) \in Nat
  BY TypedIs
<1>2. b = [a EXCEPT !.used = Total(a)]
  BY DEF CompactConsumed
<1>3. /\ b \in Arenas /\ b.regs = a.regs /\ b.used = Total(a) /\ b.timed = a.timed
      /\ b.baseUsed = a.baseUsed /\ b.baseRegs = a.baseRegs
  BY <1>1, <1>2 DEF Typed, Arenas
<1> HIDE DEF b
<1>4. Typed(b)
  BY <1>3 DEF Typed, Regs
<1>5. Total(b) = Total(a) /\ Held(b) = Total(a) - 8 * Len(a.regs)
  BY <1>3 DEF Total, Held
<1>6. Covers(b)
  BY <1>1, <1>3, <1>5, SMT DEF Covers
<1>7. \A leak \in Nat : Within(b, leak)
  BY <1>1, <1>3, <1>5, SMT DEF Within
<1>. QED BY <1>3, <1>4, <1>6, <1>7 DEF b

(* The count follows one eviction, or is less than what is left.            *)
LEMMA EvictsOne ==
  ASSUME NEW used \in Nat, NEW x \in Nat, NEW g \in Nat, NEW h \in Nat, NEW w \in Nat, w >= 8,
         h <= g, used - x <= g - h, used - x >= g - h \/ x <= h
  PROVE  /\ Minus(x, w) + 8 \in Nat /\ h + 8 <= g + w
         /\ used - (Minus(x, w) + 8) <= g + w - (h + 8)
         /\ used - (Minus(x, w) + 8) >= g + w - (h + 8) \/ Minus(x, w) + 8 <= h + 8
<1>1. CASE x > w
  BY <1>1, SMT DEF Minus
<1>2. CASE ~(x > w)
  BY <1>2, SMT DEF Minus
<1>. QED BY <1>1, <1>2

(* The same where nothing is evicted.                                       *)
LEMMA PassesOne ==
  ASSUME NEW used \in Nat, NEW x \in Nat, NEW g \in Nat, NEW h \in Nat, NEW w \in Nat,
         h <= g, used - x <= g - h, used - x >= g - h \/ x <= h
  PROVE  /\ h + w <= g + w /\ used - x <= g + w - (h + w)
         /\ used - x >= g + w - (h + w) \/ x <= h + w
BY SMT

(* Eviction: register by register the count follows, or is already less     *)
(* than what the registers so far weigh.                                    *)
LEMMA EvictKeeps ==
  ASSUME NEW a, Typed(a)
  PROVE  Keeps(a, EvictDecayed(a)) /\ Held(EvictDecayed(a)) <= Held(a)
<1> DEFINE n == Len(a.regs)
           b == EvictDecayed(a)
           new == [r \in Regs(a) |-> IF r \in Gone(a) THEN Consumed ELSE a.regs[r]]
           u == UsedUpto(a)
           g == Upto(a.regs)
           h == Upto(new)
           Follows(k) == /\ u[k] \in Nat /\ h[k] <= g[k]
                         /\ a.used - u[k] <= g[k] - h[k]
                         /\ a.used - u[k] >= g[k] - h[k] \/ u[k] <= h[k]
           T == {k \in 0 .. n : Follows(k)}
<1>1. /\ a.regs \in Seq(States) /\ n \in Nat /\ Regs(a) = 1 .. n
      /\ a.used \in Nat /\ a.baseUsed \in Nat /\ a.baseRegs \in Nat
      /\ \A r \in Regs(a) : a.regs[r] \in States
  BY TypedIs
<1>2. /\ u[0] = a.used
      /\ \A k \in 1 .. n : u[k] = Evicted(a, k, u[k - 1])
      /\ b = [a EXCEPT !.regs = new, !.timed = a.timed \ Gone(a), !.used = u[n]]
  BY <1>1, EvictIs
<1>3. new \in Seq(States) /\ Len(new) = n
  BY <1>1, ConsumedWeighs
<1>4. /\ Weigh(a.regs) = g[n] /\ g[0] = 0
      /\ \A k \in 1 .. n : g[k] = g[k - 1] + Weight(a.regs[k])
  BY <1>1, UptoIs
<1>5. /\ Weigh(new) = h[n] /\ h[0] = 0
      /\ \A k \in 1 .. n : h[k] = h[k - 1] + Weight(new[k])
  BY <1>1, <1>3, UptoIs
<1>6. /\ \A k \in 1 .. n : k \in Gone(a) => new[k] = Consumed
      /\ \A k \in 1 .. n : k \notin Gone(a) => new[k] = a.regs[k]
  BY <1>1
<1>7. /\ \A k \in 0 .. n : g[k] \in Nat
      /\ \A k \in 0 .. n : h[k] \in Nat
      /\ \A k \in 1 .. n : Weight(a.regs[k]) \in Nat /\ Weight(a.regs[k]) >= 8
      /\ Weight(Consumed) = 8
  BY <1>1, <1>3, WeighType, Weighs, ConsumedWeighs
<1> HIDE DEF n, u, g, h, new, b
<1>8. 0 \in T
  BY <1>1, <1>2, <1>4, <1>5, SMT
<1>9. ASSUME NEW k \in 1 .. n, k - 1 \in T PROVE k \in T
  <2>1. /\ g[k] = g[k - 1] + Weight(a.regs[k]) /\ h[k] = h[k - 1] + Weight(new[k])
        /\ u[k] = Evicted(a, k, u[k - 1])
    BY <1>2, <1>4, <1>5
  <2>2. k \in 0 .. n /\ k - 1 \in 0 .. n
    BY <1>1, SMT
  <2>3. g[k - 1] \in Nat /\ h[k - 1] \in Nat /\ Follows(k - 1)
    BY <1>7, <1>9, <2>2
  <2> DEFINE w == Weight(a.regs[k])
  <2>4. w \in Nat /\ w >= 8
    BY <1>7
  <2>5. CASE k \in Gone(a)
    <3>1. u[k] = Minus(u[k - 1], w) + 8
      BY <1>7, <2>1, <2>5 DEF Evicted
    <3>2. h[k] = h[k - 1] + 8
      BY <1>6, <1>7, <2>1, <2>5
    <3>3. Minus(u[k - 1], w) \in Nat /\ Minus(u[k - 1], w) >= u[k - 1] - w
          /\ (Minus(u[k - 1], w) = u[k - 1] - w \/ Minus(u[k - 1], w) = 0)
      BY <2>3, <2>4, MinusIs
    <3> HIDE DEF w
    <3>4. g[k] = g[k - 1] + w
      BY <2>1 DEF w
    <3>5. Follows(k)
      <4> DEFINE x == u[k - 1]
                 p == g[k - 1]
                 q == h[k - 1]
                 v == Minus(x, w) + 8
      <4>1. /\ x \in Nat /\ p \in Nat /\ q \in Nat /\ q <= p
            /\ a.used - x <= p - q /\ (a.used - x >= p - q \/ x <= q)
        BY <2>3
      <4> HIDE DEF x, p, q
      <4>2. /\ v \in Nat /\ q + 8 <= p + w /\ a.used - v <= p + w - (q + 8)
            /\ a.used - v >= p + w - (q + 8) \/ v <= q + 8
        BY <1>1, <2>4, <4>1, EvictsOne
      <4>3. u[k] = v /\ h[k] = q + 8 /\ g[k] = p + w
        BY <3>1, <3>2, <3>4 DEF x, p, q
      <4>4. v \in Nat /\ q \in Nat /\ p \in Nat /\ a.used \in Nat /\ w \in Nat
        BY <1>1, <2>4, <4>1, <4>2
      <4> HIDE DEF v
      <4>. QED BY <4>2, <4>3, <4>4, SMT
    <3>. QED BY <2>2, <3>5
  <2>6. CASE k \notin Gone(a)
    <3>1. u[k] = u[k - 1] /\ h[k] = h[k - 1] + w /\ g[k] = g[k - 1] + w
      BY <1>6, <2>1, <2>6 DEF Evicted
    <3> HIDE DEF w
    <3>2. Follows(k)
      <4> DEFINE x == u[k - 1]
                 p == g[k - 1]
                 q == h[k - 1]
      <4>1. /\ x \in Nat /\ p \in Nat /\ q \in Nat /\ q <= p /\ a.used \in Nat
            /\ a.used - x <= p - q /\ (a.used - x >= p - q \/ x <= q)
        BY <1>1, <2>3
      <4>2. u[k] = x /\ h[k] = q + w /\ g[k] = p + w
        BY <3>1
      <4> HIDE DEF x, p, q
      <4>3. /\ q + w <= p + w /\ a.used - x <= p + w - (q + w)
            /\ a.used - x >= p + w - (q + w) \/ x <= q + w
        BY <2>4, <4>1, PassesOne
      <4>4. x \in Nat /\ q \in Nat /\ p \in Nat /\ a.used \in Nat /\ w \in Nat
        BY <2>4, <4>1
      <4>. QED BY <4>2, <4>3, <4>4, SMTT(30)
    <3>. QED BY <2>2, <3>2
  <2>. QED BY <2>5, <2>6
<1>10. T \subseteq 0 .. n
  OBVIOUS
<1>11. Follows(n)
  <2>1. n \in T
    <3> HIDE DEF T
    <3>. QED BY <1>1, <1>8, <1>9, <1>10, Upward, n \in 0 .. n
  <2>. QED BY <2>1
<1>12. /\ b.regs = new /\ b.used = u[n] /\ b.timed = a.timed \ Gone(a)
       /\ b.baseUsed = a.baseUsed /\ b.baseRegs = a.baseRegs /\ b \in Arenas
  BY <1>2, <1>3, <1>11 DEF Typed, Arenas
<1>13. Len(b.regs) = n /\ Regs(b) = Regs(a)
  BY <1>1, <1>3, <1>12 DEF Regs
<1>14. Typed(b)
  BY <1>12, <1>13 DEF Typed
<1>15. Total(a) = g[n] /\ Total(b) = h[n] /\ g[n] \in Nat /\ h[n] \in Nat
  BY <1>1, <1>4, <1>5, <1>7, <1>12, n \in 0 .. n DEF Total
<1>16. Held(b) <= Held(a) /\ (Covers(a) => Covers(b))
  <2>1. Held(a) = g[n] - 8 * n /\ Held(b) = h[n] - 8 * n
    BY <1>13, <1>15 DEF Held, n
  <2>. QED BY <1>1, <1>11, <1>12, <1>15, <2>1, SMTT(30) DEF Covers
<1>17. ASSUME NEW leak \in Nat, Within(a, leak) PROVE Within(b, leak)
  <2>1. a.used <= g[n] + leak
    BY <1>15, <1>17 DEF Within
  <2>2. u[n] <= h[n] + leak
    BY <1>1, <1>11, <1>15, <2>1, SMT
  <2>. QED BY <1>12, <1>15, <2>2 DEF Within
<1>18. Keeps(a, b)
  BY <1>1, <1>12, <1>13, <1>14, <1>16, <1>17 DEF Keeps, n
<1>. QED BY <1>16, <1>18 DEF b

(* A reset forgets the registers after the watermark and takes its count.   *)
LEMMA ResetIs ==
  ASSUME NEW a, Typed(a)
  PROVE  LET b == ResetToBaseWatermark(a)
         IN  /\ Typed(b) /\ b.baseUsed = a.baseUsed /\ b.baseRegs = a.baseRegs /\ b.used = a.baseUsed
             /\ Len(a.regs) >= a.baseRegs => Len(b.regs) = a.baseRegs
<1> DEFINE b == ResetToBaseWatermark(a)
           new == IF Len(a.regs) > a.baseRegs THEN SubSeq(a.regs, 1, a.baseRegs) ELSE a.regs
<1>1. /\ a.regs \in Seq(States) /\ Len(a.regs) \in Nat /\ Regs(a) = 1 .. Len(a.regs)
      /\ a.baseUsed \in Nat /\ a.baseRegs \in Nat
  BY TypedIs
<1>2. /\ new \in Seq(States)
      /\ Len(new) = IF Len(a.regs) > a.baseRegs THEN a.baseRegs ELSE Len(a.regs)
  BY <1>1, SMT
<1>3. b = [a EXCEPT !.regs = new, !.timed = {r \in a.timed : r <= a.baseRegs}, !.used = a.baseUsed]
  BY DEF ResetToBaseWatermark
<1> HIDE DEF new
<1>4. /\ b \in Arenas /\ b.regs = new /\ b.used = a.baseUsed
      /\ b.timed = {r \in a.timed : r <= a.baseRegs}
      /\ b.baseUsed = a.baseUsed /\ b.baseRegs = a.baseRegs
  BY <1>1, <1>2, <1>3 DEF Typed, Arenas
<1> HIDE DEF b
<1>5. Regs(b) = 1 .. Len(new)
  BY <1>2, <1>4 DEF Regs
<1>6. b.timed \subseteq Regs(b)
  <2> SUFFICES ASSUME NEW r \in a.timed, r <= a.baseRegs PROVE r \in 1 .. Len(new)
    BY <1>4, <1>5
  <2>1. r \in 1 .. Len(a.regs)
    BY <1>1 DEF Typed
  <2>. QED BY <1>1, <1>2, <2>1, SMT
<1>7. Len(a.regs) >= a.baseRegs => Len(b.regs) = a.baseRegs
  BY <1>1, <1>2, <1>4, SMT
<1>. QED BY <1>4, <1>6, <1>7 DEF Typed, b
-----------------------------------------------------------------------------
(* The inductive invariant                                                  *)

Statuses == {"running", "done", "fault"}
Frozen == [frame : Nat, sum : Nat]
Pasts == [leaked : Seq(Nat), loose : SUBSET Nat, grown : SUBSET Nat, base : Frozen]
CallFrames == [regs : Seq(States), timed : SUBSET Nat, used : Nat, mode : Modes,
               arg : Nat \ {0}, dest : Nat \ {0}]

TypesOK ==
  /\ Typed(arena) /\ calls \in Seq(CallFrames) /\ past \in Pasts /\ status \in Statuses
  /\ \A i \in 1 .. Len(calls) : calls[i].timed \subseteq DOMAIN calls[i].regs
  /\ Len(past.leaked) = Here /\ past.loose \union past.grown \subseteq 1 .. Here
  /\ past.base.frame \in 0 .. Here

(* The frame that runs is loose once it has been reset to each of R         *)
Off(a) == past.base # [frame |-> Here, sum |-> Total(ResetToBaseWatermark(a))]
Loosened(R) == Here \in past.loose \/ \E a \in R : Off(a)

(* What the frame that runs keeps, with arena a: in a fault, and before     *)
Covered(a, R) ==
  /\ Typed(a) /\ a.baseUsed = arena.baseUsed /\ a.baseRegs = arena.baseRegs
  /\ past.base.frame = Here => Len(a.regs) >= a.baseRegs
  /\ ~Loosened(R) => Covers(a) /\ (Here \notin past.grown => Held(a) <= Capacity)
True(a, R) == Covered(a, R) /\ (~Loosened(R) => Within(a, past.leaked[Here]))

(* What a frame that waits keeps                                            *)
Waits(i) ==
  LET f == calls[i]
  IN  /\ past.base.frame = i => Len(f.regs) >= arena.baseRegs
      /\ i \notin past.loose => Covers(f) /\ Within(f, past.leaked[i])
      /\ i \notin past.loose \union past.grown => Held(f) <= Capacity

(* What the watermark of a frame keeps                                      *)
Marked(i) ==
  LET held == past.base.sum - 8 * arena.baseRegs
  IN  /\ held <= arena.baseUsed /\ arena.baseUsed <= past.base.sum + past.leaked[i]
      /\ i \notin past.loose \union past.grown => held <= Capacity

ArenaInv ==
  /\ TypesOK
  /\ \A i \in 1 .. Len(calls) : Waits(i)
  /\ \A i \in 1 .. Here : past.base.frame = i => Marked(i)
  /\ Covered(arena, {})
  /\ status # "fault" => True(arena, {})

-----------------------------------------------------------------------------

(* The numbers of the frames.                                               *)
LEMMA FramesAre ==
  ASSUME TypesOK
  PROVE  /\ Len(calls) \in Nat /\ Here \in Nat \ {0} /\ Here = Len(calls) + 1 /\ Here \in 1 .. Here
         /\ \A i \in 1 .. Len(calls) : i \in 1 .. Here /\ i # Here
         /\ \A i \in 1 .. Here : i = Here \/ i \in 1 .. Len(calls)
         /\ \A i \in 1 .. Here : past.leaked[i] \in Nat
<1>1. Len(calls) \in Nat
  BY DEF TypesOK
<1>2. past.leaked \in Seq(Nat) /\ Len(past.leaked) = Here
  BY DEF TypesOK, Pasts
<1>3. \A i \in 1 .. Here : past.leaked[i] \in Nat
  BY <1>2
<1>. QED BY <1>1, <1>3, SMT DEF Here

(* An arena that keeps what the frame's arena does serves as well.          *)
LEMMA CoveredKeeps ==
  ASSUME TypesOK, NEW a, NEW b, NEW R, Covered(a, R), Keeps(a, b),
         Held(b) <= Held(a) \/ Held(b) <= Capacity \/ Loosened(R)
  PROVE  Covered(b, R) /\ (True(a, R) => True(b, R))
<1>1. /\ Len(a.regs) \in Nat /\ Len(b.regs) \in Nat /\ b.baseRegs = a.baseRegs /\ a.baseRegs \in Nat
      /\ Held(a) \in Int /\ Held(b) \in Int
  <2>1. Typed(a) /\ Typed(b)
    BY DEF Covered, Keeps
  <2>2. Total(a) \in Nat /\ Total(b) \in Nat /\ Len(a.regs) \in Nat /\ Len(b.regs) \in Nat
        /\ a.baseRegs \in Nat
    BY <2>1, TypedIs
  <2>. QED BY <2>2, SMTT(30) DEF Held, Keeps
<1>2. past.base.frame = Here => Len(b.regs) >= b.baseRegs
  BY <1>1, SMT DEF Covered, Keeps
<1>3. Capacity \in Nat
  BY ArenaAssumption
<1>4. ~Loosened(R) => Covers(b) /\ (Here \notin past.grown => Held(b) <= Capacity)
  BY <1>1, <1>3, SMT DEF Covered, Keeps
<1>5. Covered(b, R)
  BY <1>2, <1>4 DEF Covered, Keeps
<1>6. past.leaked[Here] \in Nat
  BY FramesAre
<1>. QED BY <1>5, <1>6 DEF True, Keeps

(* The more resets, the less there is to keep.                              *)
LEMMA CoveredMore ==
  ASSUME NEW a, NEW R, NEW S, R \subseteq S
  PROVE  /\ Covered(a, R) => Covered(a, S)
         /\ True(a, R) => True(a, S)
<1>1. Loosened(R) => Loosened(S)
  BY DEF Loosened
<1>. QED BY <1>1 DEF Covered, True

(* An insertion that fits.                                                  *)
LEMMA CoveredInsert ==
  ASSUME TypesOK, NEW a, NEW R, Covered(a, R), NEW r \in Nat \ {0}, NEW s \in States, Fits(a, r, s)
  PROVE  LET b == Insert(a, r, s)
         IN Covered(b, R) /\ (True(a, R) => True(b, R)) /\ r \in Regs(b)
<1> DEFINE b == Insert(a, r, s)
<1>1. Typed(a) /\ (~Loosened(R) => Covers(a))
  BY DEF Covered
<1>2. Keeps(a, b) /\ r \in Regs(b) /\ (Covers(a) /\ Fits(a, r, s) => Held(b) <= Capacity)
  BY <1>1, InsertKeeps
<1> HIDE DEF b
<1>3. Held(b) <= Capacity \/ Loosened(R)
  BY <1>1, <1>2
<1>. QED BY <1>2, <1>3, CoveredKeeps DEF b

(* Metadata of registers that are there.                                    *)
LEMMA CoveredTimed ==
  ASSUME TypesOK, NEW a, NEW R, Covered(a, R), NEW T \in SUBSET Regs(a)
  PROVE  LET b == [a EXCEPT !.timed = T]
         IN  Covered(b, R) /\ (True(a, R) => True(b, R)) /\ Typed(b) /\ Regs(b) = Regs(a)
<1> DEFINE b == [a EXCEPT !.timed = T]
<1>1. Typed(a)
  BY DEF Covered
<1>2. Keeps(a, b) /\ Held(b) = Held(a) /\ b.regs = a.regs
  BY <1>1, KeepsTimed
<1>3. Held(a) \in Int
  BY <1>1, TypedIs DEF Held
<1> HIDE DEF b
<1>4. Held(b) <= Held(a)
  BY <1>2, <1>3
<1>5. Covered(b, R) /\ (True(a, R) => True(b, R))
  BY <1>2, <1>4, CoveredKeeps
<1>. QED BY <1>2, <1>5 DEF Keeps, Regs, b

(* A reset, counted among the resets.                                       *)
LEMMA CoveredReset ==
  ASSUME ArenaInv, NEW a, NEW R, Covered(a, R), a \in R
  PROVE  True(ResetToBaseWatermark(a), R)
<1> DEFINE b == ResetToBaseWatermark(a)
<1>1. Typed(a) /\ a.baseUsed = arena.baseUsed /\ a.baseRegs = arena.baseRegs
      /\ (past.base.frame = Here => Len(a.regs) >= a.baseRegs)
  BY DEF Covered
<1>2. /\ Typed(b) /\ b.baseUsed = a.baseUsed /\ b.baseRegs = a.baseRegs /\ b.used = a.baseUsed
      /\ Len(a.regs) >= a.baseRegs => Len(b.regs) = a.baseRegs
  BY <1>1, ResetIs
<1>3. /\ a.baseRegs \in Nat /\ a.baseUsed \in Nat /\ Total(b) \in Nat /\ Capacity \in Nat
  BY <1>1, <1>2, TypedIs, ArenaAssumption
<1>4. past.base.frame = Here => Len(b.regs) >= b.baseRegs
  BY <1>1, <1>2, <1>3, SMT
<1>5. ASSUME ~Loosened(R)
      PROVE  /\ Covers(b) /\ Within(b, past.leaked[Here])
             /\ Here \notin past.grown => Held(b) <= Capacity
  <2>1. past.base = [frame |-> Here, sum |-> Total(b)] /\ Here \notin past.loose
    BY <1>5 DEF Loosened, Off
  <2>2. past.base.frame = Here /\ past.base.sum = Total(b)
    BY <2>1
  <2>3. Marked(Here) /\ past.leaked[Here] \in Nat
    BY <2>2, FramesAre DEF ArenaInv
  <2> HIDE DEF b
  <2>4. Held(b) = past.base.sum - 8 * arena.baseRegs
    BY <1>1, <1>2, <2>2 DEF Held
  <2>5. Covers(b) /\ Within(b, past.leaked[Here])
    BY <1>1, <1>2, <2>2, <2>3, <2>4 DEF Covers, Within, Marked
  <2>6. Here \notin past.grown => Held(b) <= Capacity
    BY <2>1, <2>3, <2>4 DEF Marked
  <2>. QED BY <2>5, <2>6
<1>. QED BY <1>1, <1>2, <1>4, <1>5 DEF Covered, True

(* What a policy makes room with.                                           *)
LEMMA CoveredRoom ==
  ASSUME ArenaInv, NEW a, NEW R, True(a, R), NEW r, NEW s
  PROVE  True(Room(a, r, s), R \union Resets(a, r, s))
<1> DEFINE S == R \union Resets(a, r, s)
<1>1. True(a, S)
  BY CoveredMore
<1>2. CASE Fits(a, r, s)
  BY <1>1, <1>2 DEF Room
<1>3. CASE ~Fits(a, r, s) /\ policy \in {"EvictDecayed", "Throttle"}
  <2>1. Room(a, r, s) = EvictDecayed(a)
    BY <1>3 DEF Room, AfterSaturation
  <2>2. Keeps(a, EvictDecayed(a)) /\ Held(EvictDecayed(a)) <= Held(a)
    BY <1>1, EvictKeeps DEF True, Covered
  <2> HIDE DEF S
  <2>3. True(EvictDecayed(a), S)
    BY <1>1, <2>2, CoveredKeeps DEF ArenaInv, True
  <2>. QED BY <2>1, <2>3 DEF S
<1>4. CASE ~Fits(a, r, s) /\ policy = "RingBuffer"
  <2>1. Room(a, r, s) = ResetToBaseWatermark(a) /\ a \in S
    BY <1>4 DEF Room, AfterSaturation, Resets
  <2> HIDE DEF S
  <2>2. True(ResetToBaseWatermark(a), S)
    BY <1>1, <2>1, CoveredReset DEF True
  <2>. QED BY <2>1, <2>2 DEF S
<1>5. CASE ~Fits(a, r, s) /\ policy \notin {"EvictDecayed", "Throttle", "RingBuffer"}
  <2>1. Room(a, r, s) = a
    BY <1>5 DEF Room, AfterSaturation
  <2>. QED BY <1>1, <2>1
<1>. QED BY <1>2, <1>3, <1>4, <1>5

(* A write under the policy: what fits is written, or there is a fault.     *)
LEMMA InsertRegIs ==
  ASSUME ArenaInv, NEW a, NEW R, True(a, R), NEW r \in Nat \ {0}, NEW s \in States, NEW timed,
         InsertReg(a, r, s, timed)
  PROVE  LET S == R \union Resets(a, r, s)
         IN  \/ status' = "running" /\ True(arena', S)
             \/ status' = "fault" /\ Covered(arena', S)
<1> DEFINE S == R \union Resets(a, r, s)
           b == Room(a, r, s)
<1>1. True(b, S)
  BY CoveredRoom
<1>2. CASE Fits(b, r, s)
  <2> DEFINE c == Insert(b, r, s)
             T == IF timed THEN c.timed \union {r} ELSE c.timed
  <2>1. status' = "running" /\ arena' = [c EXCEPT !.timed = T]
    BY <1>2 DEF InsertReg, Step
  <2> HIDE DEF S, b
  <2>2. True(c, S) /\ r \in Regs(c)
    BY <1>1, <1>2, CoveredInsert DEF ArenaInv, True
  <2> HIDE DEF c
  <2>3. T \in SUBSET Regs(c)
    BY <2>2 DEF True, Covered, Typed
  <2> HIDE DEF T
  <2>4. True([c EXCEPT !.timed = T], S)
    BY <2>2, <2>3, CoveredTimed DEF ArenaInv, True
  <2>. QED BY <2>1, <2>4 DEF S
<1>3. CASE ~Fits(b, r, s)
  <2>1. status' = "fault" /\ arena' = b
    BY <1>3 DEF InsertReg, Fault
  <2>. QED BY <1>1, <2>1 DEF True
<1>. QED BY <1>2, <1>3
-----------------------------------------------------------------------------
(* Every step keeps the invariant                                           *)

(* At the start nothing is held.                                            *)
LEMMA ArenaInit == Init => ArenaInv
<1> SUFFICES ASSUME Init PROVE ArenaInv
  OBVIOUS
<1>1. /\ arena = NewArena /\ calls = <<>> /\ status = "running"
      /\ past = [leaked |-> <<0>>, loose |-> {}, grown |-> {}, base |-> [frame |-> 0, sum |-> 0]]
  BY DEF Init
<1>2. Here = 1 /\ Len(calls) = 0
  BY <1>1 DEF Here
<1>3. Initial \in Nat /\ Capacity \in Nat
  BY ArenaAssumption
<1> DEFINE regs == [r \in 1 .. Initial |-> Consumed]
<1>4. regs \in Seq(States) /\ Len(regs) = Initial
  BY <1>3, ConsumedWeighs
<1>5. Weigh(regs) = 8 * Initial
  BY <1>3, WeighMarkers
<1>6. /\ arena.regs = regs /\ arena.used = 0 /\ arena.timed = {}
      /\ arena.baseUsed = 0 /\ arena.baseRegs = 0
  BY <1>1 DEF NewArena
<1>7. arena \in Arenas
  BY <1>1, <1>4 DEF NewArena, Arenas
<1> HIDE DEF regs
<1>8. Typed(arena)
  BY <1>6, <1>7 DEF Typed
<1>9. Total(arena) = 8 * Initial /\ Held(arena) = 0
  BY <1>3, <1>4, <1>5, <1>6, SMT DEF Total, Held
<1>10. past \in Pasts
  BY <1>1 DEF Pasts, Frozen
<1>11. past.leaked[Here] = 0 /\ past.base.frame = 0 /\ past.base.frame # Here
  BY <1>1, <1>2
<1>12. TypesOK
  BY <1>1, <1>2, <1>8, <1>10, <1>11, 0 \in 0 .. 1 DEF TypesOK, Statuses
<1>13. Covers(arena) /\ Within(arena, 0) /\ Held(arena) <= Capacity
  BY <1>3, <1>6, <1>9, SMT DEF Covers, Within
<1>14. Covered(arena, {}) /\ True(arena, {})
  BY <1>8, <1>11, <1>13 DEF Covered, True
<1>15. \A i \in 1 .. Here : past.base.frame # i
  BY <1>1, <1>2
<1>16. \A i \in 1 .. Len(calls) : FALSE
  BY <1>2
<1>. QED BY <1>12, <1>14, <1>15, <1>16 DEF ArenaInv

(* A step of the frame that runs, with the resets R.                        *)
LEMMA LocalStep ==
  ASSUME ArenaInv, calls' = calls, NEW R, Mark(R), Covered(arena', R), status' \in Statuses,
         status' # "fault" => True(arena', R)
  PROVE  ArenaInv'
<1> DEFINE off == \E a \in R : Off(a)
<1>1. past' = IF off THEN [past EXCEPT !.loose = past.loose \union {Here}] ELSE past
  BY DEF Mark, Off
<1> HIDE DEF off
<1>2. TypesOK /\ past \in Pasts
  BY DEF ArenaInv, TypesOK
<1>3. /\ past'.leaked = past.leaked /\ past'.base = past.base /\ past'.grown = past.grown
      /\ past'.loose = IF off THEN past.loose \union {Here} ELSE past.loose
  BY <1>1, <1>2 DEF Pasts
<1>4. Here' = Here
  BY DEF Here
<1>5. /\ Len(calls) \in Nat /\ Here \in Nat \ {0} /\ Here \in 1 .. Here
      /\ \A i \in 1 .. Len(calls) : i \in 1 .. Here /\ i # Here
  BY <1>2, FramesAre
<1>6. past' \in Pasts
  BY <1>1, <1>2, <1>5 DEF Pasts
<1>7. Typed(arena') /\ arena'.baseUsed = arena.baseUsed /\ arena'.baseRegs = arena.baseRegs
  BY DEF Covered
<1>8. TypesOK'
  BY <1>2, <1>3, <1>4, <1>5, <1>6, <1>7 DEF TypesOK
<1>9. ASSUME NEW i \in 1 .. Len(calls') PROVE Waits(i)'
  <2>1. Waits(i) /\ i # Here /\ calls'[i] = calls[i]
    BY <1>5 DEF ArenaInv
  <2>2. i \in past'.loose <=> i \in past.loose
    BY <1>3, <2>1
  <2>. QED BY <1>3, <1>7, <2>1, <2>2 DEF Waits
<1>10. ASSUME NEW i \in 1 .. Here', past'.base.frame = i PROVE Marked(i)'
  <2>1. Marked(i)
    BY <1>3, <1>4, <1>10 DEF ArenaInv
  <2>2. i \notin past'.loose => i \notin past.loose
    BY <1>3
  <2>. QED BY <1>3, <1>7, <2>1, <2>2 DEF Marked
<1>11. Here \in past'.loose <=> Loosened(R)
  BY <1>3 DEF Loosened, off
<1>12. Covered(arena, {})'
  BY <1>3, <1>4, <1>7, <1>11 DEF Covered, Loosened
<1>13. status' # "fault" => True(arena, {})'
  BY <1>3, <1>4, <1>11, <1>12 DEF True, Loosened
<1>. QED BY <1>8, <1>9, <1>10, <1>12, <1>13 DEF ArenaInv

(* One without a reset, that leaves the arena with another count.           *)
LEMMA QuietStep ==
  ASSUME ArenaInv, status # "fault", calls' = calls, past' = past, status' \in Statuses,
         Keeps(arena, arena'), Held(arena') <= Held(arena) \/ Held(arena') <= Capacity
  PROVE  ArenaInv'
<1>1. Mark({})
  BY DEF Mark
<1>2. True(arena, {}) /\ TypesOK
  BY DEF ArenaInv
<1>3. True(arena', {})
  BY <1>2, CoveredKeeps DEF True
<1>. QED BY <1>1, <1>3, LocalStep DEF True

(* A literal, a structure or a copy is written.                             *)
LEMMA WriteKeeps ==
  ASSUME ArenaInv, NEW r \in 1 .. MaxRegs, NEW s \in {Number, NewStruct}, NEW timed \in BOOLEAN,
         Write(r, s, timed)
  PROVE  ArenaInv'
<1>1. s \in States /\ r \in Nat \ {0}
  BY Written, SMT
<1>2. True(arena, {})
  BY DEF Write, Running, ArenaInv
<1>3. InsertReg(arena, r, s, timed) /\ Mark(Resets(arena, r, s)) /\ calls' = calls
  BY DEF Write, Frame
<1>4. \/ status' = "running" /\ True(arena', Resets(arena, r, s))
      \/ status' = "fault" /\ Covered(arena', Resets(arena, r, s))
  <2>1. {} \union Resets(arena, r, s) = Resets(arena, r, s)
    OBVIOUS
  <2>. QED BY <1>1, <1>2, <1>3, <2>1, InsertRegIs
<1>. QED BY <1>3, <1>4, LocalStep DEF True, Statuses

(* A register is consumed.                                                  *)
LEMMA ConsumeStep ==
  ASSUME ArenaInv, NEW r \in 1 .. MaxRegs, Consume(r)
  PROVE  ArenaInv'
<1>1. r \in Nat \ {0}
  BY SMT
<1>2. /\ status = "running" /\ status' = "running" /\ calls' = calls /\ past' = past
      /\ arena' = ConsumeReg(arena, r)
  BY DEF Consume, Running, Step, Frame
<1>3. Keeps(arena, arena') /\ Held(arena') <= Held(arena)
  BY <1>1, <1>2, ConsumeKeeps DEF ArenaInv, TypesOK
<1>. QED BY <1>2, <1>3, QuietStep DEF Statuses

(* A structure weighs less without a field.                                 *)
LEMMA FieldsLighter ==
  ASSUME NEW f \in FieldMaps, NEW x \in DOMAIN f
  PROVE  FieldsWeight([f EXCEPT ![x] = "Consumed"]) <= FieldsWeight(f)
<1> DEFINE h == [f EXCEPT ![x] = "Consumed"]
<1>1. \A y \in DOMAIN f : f[y] \in {"Valid", "Decayed", "Consumed"}
  BY DEF FieldMaps
<1>2. DOMAIN h = DOMAIN f /\ \A y \in DOMAIN f : h[y] = IF y = x THEN "Consumed" ELSE f[y]
  OBVIOUS
<1> HIDE DEF h
<1>3. \A y \in DOMAIN f : /\ FieldWeight(f[y]) \in Nat /\ FieldWeight(h[y]) \in Nat
                          /\ FieldWeight(h[y]) <= FieldWeight(f[y])
  BY <1>1, <1>2, SMT DEF FieldWeight
<1> DEFINE fw(y) == IF y \in DOMAIN f THEN FieldWeight(f[y]) ELSE 0
           hw(y) == IF y \in DOMAIN h THEN FieldWeight(h[y]) ELSE 0
<1>4. \A y : fw(y) \in Nat /\ hw(y) \in Nat /\ hw(y) <= fw(y)
  BY <1>2, <1>3, SMT
<1>5. FieldsWeight(f) = fw("f") + fw("g") /\ FieldsWeight(h) = hw("f") + hw("g")
  BY DEF FieldsWeight
<1> HIDE DEF fw, hw
<1>. QED BY <1>4, <1>5, SMT DEF h
(* A structure that was written whole.                                      *)
LEMMA NewFields == [x \in Fields |-> "Valid"] \in FieldMaps
  BY DEF FieldMaps

(* A field is consumed: what is left weighs less.                           *)
LEMMA ConsumeFieldStep ==
  ASSUME ArenaInv, NEW r \in 1 .. MaxRegs, NEW x \in Fields, ConsumeField(r, x)
  PROVE  ArenaInv'
<1> DEFINE s == State(arena, r)
           has == s.kind \in {"struct", "left"} /\ s.state # "Leased" /\ x \in DOMAIN s.fields
           new == Decayed([s.fields EXCEPT ![x] = "Consumed"])
<1>1. r \in Nat \ {0} /\ Typed(arena)
  BY SMT DEF ArenaInv, TypesOK
<1>2. /\ status = "running" /\ status' = "running" /\ calls' = calls /\ past' = past
      /\ arena' = IF has THEN Put(arena, r, new) ELSE EnsureRegister(arena, r)
  BY DEF ConsumeField, Running, Step, Frame
<1>3. Held(arena) \in Int
  BY <1>1, TypedIs DEF Held
<1>4. CASE has
  <2>1. s \in States
    BY <1>1, EnsureKeeps
  <2>2. s # Consumed
    BY <1>4 DEF Consumed
  <2>3. r \in Regs(arena) /\ s = arena.regs[r]
    BY <2>2 DEF State
  <2>4. s \in Owned
    BY <1>4, <2>1, <2>2, StateKinds
  <2> HIDE DEF s
  <2>5. s.fields \in FieldMaps /\ x \in DOMAIN s.fields
    BY <1>4, <2>4, OwnedKinds
  <2>6. [s.fields EXCEPT ![x] = "Consumed"] \in FieldMaps
    BY <2>5, FieldsChange
  <2>7. new \in Owned /\ new \in States
    BY <2>6, Written
  <2>8. /\ FieldsWeight(s.fields) \in Nat /\ FieldsWeight([s.fields EXCEPT ![x] = "Consumed"]) \in Nat
        /\ FieldsWeight([s.fields EXCEPT ![x] = "Consumed"]) <= FieldsWeight(s.fields)
    BY <2>5, <2>6, FieldsWeigh, FieldsLighter
  <2>9. Weight(new) = FieldsWeight([s.fields EXCEPT ![x] = "Consumed"]) + 32
    BY DEF Weight, OwnWeight, Decayed
  <2>10. Weight(s) = FieldsWeight(s.fields) + 64 \/ Weight(s) = FieldsWeight(s.fields) + 32
    <3>1. CASE s.state = "Decayed"
      BY <2>4, <2>8, <3>1, OwnedKinds DEF Weight, OwnWeight
    <3>2. CASE s.state = "Valid" /\ s.kind = "struct"
      BY <2>8, <3>2, SMT DEF Weight, OwnWeight
    <3>. QED BY <1>4, <2>4, <3>1, <3>2, OwnedKinds
  <2>11. Keeps(arena, arena') /\ Held(arena') = Held(arena) - Weight(s) + Weight(new)
    <3> HIDE DEF new, has
    <3>1. arena' = Put(arena, r, new)
      BY <1>2, <1>4
    <3>. QED BY <1>1, <2>3, <2>7, <3>1, PutKeeps
  <2>12. Held(arena') <= Held(arena)
    BY <1>3, <2>8, <2>9, <2>10, <2>11, SMT
  <2>. QED BY <1>2, <2>11, <2>12, QuietStep DEF Statuses
<1>5. CASE ~has
  <2> HIDE DEF has
  <2>1. Keeps(arena, arena') /\ Held(arena') = Held(arena)
    BY <1>1, <1>2, <1>5, EnsureKeeps
  <2>2. Held(arena') <= Held(arena)
    BY <1>3, <2>1
  <2>. QED BY <1>2, <2>1, <2>2, QuietStep DEF Statuses
<1>. QED BY <1>4, <1>5

(* What decays was valid, and is held still.                                *)
LEMMA Decays == ASSUME NEW s \in Owned, s.state = "Valid" PROVE DecayRecursive(s) \in States
<1>1. CASE s.kind = "struct"
  <2>1. [x \in DOMAIN s.fields |-> IF s.fields[x] = "Valid" THEN "Decayed" ELSE s.fields[x]] \in FieldMaps
    BY <1>1, OwnedKinds, FieldsChange
  <2>. QED BY <1>1, <2>1, Written DEF DecayRecursive
<1>2. CASE s.kind # "struct"
  <2>1. <<>> \in FieldMaps
    BY NewFields, FieldsChange
  <2>. QED BY <1>2, <2>1, Written DEF DecayRecursive
<1>. QED BY <1>1, <1>2

(* A register decays and everything is counted again: the count is true,    *)
(* though it may exceed the capacity.                                       *)
LEMMA DecayStep ==
  ASSUME ArenaInv, NEW r \in 1 .. MaxRegs, Decay(r)
  PROVE  ArenaInv'
<1> DEFINE d == [arena EXCEPT !.regs[r] = DecayRecursive(arena.regs[r])]
<1>1. /\ r \in arena.timed /\ arena.regs[r].state = "Valid"
      /\ status = "running" /\ status' = "running" /\ calls' = calls
      /\ arena' = CompactConsumed(d)
      /\ past' = [past EXCEPT !.loose = @ \ {Here}, !.grown = @ \union {Here}]
  BY DEF Decay, Running, Step, Frame
<1>2. TypesOK /\ Typed(arena) /\ past \in Pasts
  BY DEF ArenaInv, TypesOK
<1>3. /\ arena.regs \in Seq(States) /\ r \in 1 .. Len(arena.regs) /\ Regs(arena) = 1 .. Len(arena.regs)
      /\ arena.regs[r] \in States
  BY <1>1, <1>2, TypedIs DEF Typed
<1>4. DecayRecursive(arena.regs[r]) \in States
  BY <1>1, <1>3, StateKinds, Decays
<1>5. Typed(d) /\ d.baseUsed = arena.baseUsed /\ d.baseRegs = arena.baseRegs
      /\ Len(d.regs) = Len(arena.regs)
  <2> DEFINE new == [arena.regs EXCEPT ![r] = DecayRecursive(arena.regs[r])]
  <2>1. new \in Seq(States) /\ Len(new) = Len(arena.regs) /\ DOMAIN new = 1 .. Len(arena.regs)
    BY <1>3, <1>4
  <2>2. d = [arena EXCEPT !.regs = new]
    BY <1>2 DEF Typed, Arenas
  <2> HIDE DEF new
  <2>3. /\ d \in Arenas /\ d.regs = new /\ d.timed = arena.timed
        /\ d.baseUsed = arena.baseUsed /\ d.baseRegs = arena.baseRegs
    BY <1>2, <2>1, <2>2 DEF Typed, Arenas
  <2>. QED BY <1>2, <1>3, <2>1, <2>3 DEF Typed, Regs
<1> HIDE DEF d
<1>6. /\ Typed(arena') /\ arena'.baseUsed = arena.baseUsed /\ arena'.baseRegs = arena.baseRegs
      /\ Len(arena'.regs) = Len(arena.regs) /\ Covers(arena') /\ \A leak \in Nat : Within(arena', leak)
  BY <1>1, <1>5, CompactKeeps
<1>7. Here' = Here
  BY <1>1 DEF Here
<1>8. /\ Len(calls) \in Nat /\ Here \in Nat \ {0} /\ Here \in 1 .. Here
      /\ \A i \in 1 .. Len(calls) : i \in 1 .. Here /\ i # Here
      /\ \A i \in 1 .. Here : past.leaked[i] \in Nat
  BY <1>2, FramesAre
<1>9. /\ past'.leaked = past.leaked /\ past'.base = past.base
      /\ past'.loose = past.loose \ {Here} /\ past'.grown = past.grown \union {Here}
      /\ past' \in Pasts
  BY <1>1, <1>2, <1>8 DEF Pasts
<1>10. TypesOK'
  BY <1>1, <1>2, <1>6, <1>7, <1>8, <1>9 DEF TypesOK, Statuses
<1>11. ASSUME NEW i \in 1 .. Len(calls') PROVE Waits(i)'
  <2>1. Waits(i) /\ i # Here /\ calls'[i] = calls[i]
    BY <1>1, <1>8 DEF ArenaInv
  <2>2. i \in past'.loose <=> i \in past.loose
    BY <1>9, <2>1
  <2>. QED BY <1>6, <1>9, <2>1, <2>2 DEF Waits
<1>12. ASSUME NEW i \in 1 .. Here', past'.base.frame = i PROVE Marked(i)'
  <2>1. Marked(i)
    BY <1>7, <1>9, <1>12 DEF ArenaInv
  <2>2. i \notin past'.loose \union past'.grown => i \notin past.loose \union past.grown
    BY <1>9
  <2>. QED BY <1>6, <1>9, <2>1, <2>2 DEF Marked
<1>13. True(arena, {})'
  <2>1. past.base.frame = Here => Len(arena.regs) >= arena.baseRegs
    BY DEF ArenaInv, Covered
  <2>. QED BY <1>6, <1>7, <1>8, <1>9, <2>1 DEF True, Covered
<1>. QED BY <1>10, <1>11, <1>12, <1>13 DEF ArenaInv, True

(* A register is taken out without being counted.                           *)
LEMMA TakeOut ==
  ASSUME NEW a, Typed(a), NEW r \in Regs(a)
  PROVE  LET new == [a.regs EXCEPT ![r] = Consumed]
             b == [a EXCEPT !.regs[r] = Consumed]
         IN  /\ new \in Seq(States) /\ Len(new) = Len(a.regs) /\ DOMAIN new = DOMAIN a.regs
             /\ Weigh(new) = Total(a) - Weight(a.regs[r]) + 8
             /\ b = [a EXCEPT !.regs = new]
             /\ Typed(b) /\ b.regs = new /\ b.used = a.used
             /\ b.baseUsed = a.baseUsed /\ b.baseRegs = a.baseRegs
             /\ Held(b) <= Held(a)
<1> DEFINE new == [a.regs EXCEPT ![r] = Consumed]
           b == [a EXCEPT !.regs[r] = Consumed]
<1>1. /\ a.regs \in Seq(States) /\ Len(a.regs) \in Nat /\ r \in 1 .. Len(a.regs)
      /\ Total(a) \in Nat /\ a.regs[r] \in States
  BY TypedIs
<1>2. new \in Seq(States) /\ Len(new) = Len(a.regs) /\ DOMAIN new = DOMAIN a.regs
  BY <1>1, ConsumedWeighs
<1>3. Weigh(new) = Total(a) - Weight(a.regs[r]) + 8
  <2>1. Weigh([a.regs EXCEPT ![r] = Consumed]) = Weigh(a.regs) - Weight(a.regs[r]) + Weight(Consumed)
    BY <1>1, WeighReplaced, ConsumedWeighs
  <2>. QED BY <2>1, ConsumedWeighs DEF Total
<1>4. b = [a EXCEPT !.regs = new]
  BY DEF Typed, Arenas
<1> HIDE DEF new
<1>5. /\ b \in Arenas /\ b.regs = new /\ b.timed = a.timed /\ b.used = a.used
      /\ b.baseUsed = a.baseUsed /\ b.baseRegs = a.baseRegs
  BY <1>2, <1>4 DEF Typed, Arenas
<1> HIDE DEF b
<1>6. Typed(b)
  BY <1>2, <1>5 DEF Typed, Regs
<1>7. Weight(a.regs[r]) \in Nat /\ Weight(a.regs[r]) >= 8
  BY <1>1, Weighs
<1>8. Held(b) <= Held(a)
  BY <1>1, <1>2, <1>3, <1>5, <1>7, SMT DEF Held, Total
<1>. QED BY <1>2, <1>3, <1>4, <1>5, <1>6, <1>8 DEF new, b

(* A register that is overwritten by what fits.                             *)
LEMMA PutFits ==
  ASSUME NEW a, Typed(a), NEW r \in Regs(a), NEW s \in States, Covers(a), Fits(a, r, s)
  PROVE  Held(Put(a, r, s)) <= Capacity
<1> DEFINE w == Weight(a.regs[r])
<1>1. w \in Nat /\ Weight(s) \in Nat /\ a.used \in Nat /\ Held(a) \in Int /\ Capacity \in Nat
  <2>1. /\ a.regs[r] \in States /\ a.used \in Nat /\ Total(a) \in Nat /\ Len(a.regs) \in Nat
    BY TypedIs
  <2>. QED BY <2>1, Weighs, ArenaAssumption, SMTT(30) DEF Held
<1>2. Held(Put(a, r, s)) = Held(a) - w + Weight(s)
  BY PutKeeps
<1>3. Minus(a.used, w) >= a.used - w /\ Minus(a.used, w) \in Nat
  BY <1>1, MinusIs
<1>4. Held(a) <= a.used /\ Minus(a.used, w) + Weight(s) <= Capacity
  BY DEF Covers, Fits, State
<1> HIDE DEF w
<1>. QED BY <1>1, <1>2, <1>3, <1>4, SMT

(* A field is written, or the register stays consumed.                      *)
LEMMA UpdateFieldStep ==
  ASSUME ArenaInv, NEW r \in 1 .. MaxRegs, NEW x \in Fields, UpdateField(r, x)
  PROVE  ArenaInv'
<1> DEFINE s == State(arena, r)
           fields == [y \in DOMAIN s.fields \union {x} |-> IF y = x THEN "Valid" ELSE s.fields[y]]
           new == [s EXCEPT !.fields = fields]
           bad == s.state = "Leased" \/ s.kind \notin {"struct", "left"}
<1>1. /\ status = "running" /\ calls' = calls /\ past' = past /\ status' \in Statuses
      /\ bad => arena' = EnsureRegister(arena, r) /\ status' = "fault"
      /\ ~bad /\ Fits(arena, r, new) => arena' = Put(arena, r, new) /\ status' = "running"
      /\ ~bad /\ ~Fits(arena, r, new)
           => arena' = [arena EXCEPT !.regs[r] = Consumed] /\ status' = "fault"
  BY DEF UpdateField, Running, Step, Fault, Frame, Statuses
<1>2. r \in Nat \ {0} /\ Typed(arena) /\ True(arena, {})
  BY <1>1, SMT DEF ArenaInv, TypesOK
<1>3. Held(arena) \in Int
  BY <1>2, TypedIs DEF Held
<1>4. CASE bad
  <2> HIDE DEF bad
  <2>1. Keeps(arena, arena') /\ Held(arena') = Held(arena)
    BY <1>1, <1>2, <1>4, EnsureKeeps
  <2>2. Held(arena') <= Held(arena)
    BY <1>3, <2>1
  <2>. QED BY <1>1, <2>1, <2>2, QuietStep
<1>5. CASE ~bad
  <2>1. s \in States
    BY <1>2, EnsureKeeps
  <2>2. s # Consumed
    BY <1>5 DEF Consumed
  <2>3. r \in Regs(arena) /\ s = arena.regs[r]
    BY <2>2 DEF State
  <2>4. s \in Owned
    BY <1>5, <2>1, <2>2, StateKinds
  <2> HIDE DEF s
  <2>5. s.fields \in FieldMaps
    BY <1>5, <2>4, OwnedKinds
  <2>6. fields \in FieldMaps
    BY <2>5, FieldsChange
  <2> HIDE DEF fields
  <2>7. new \in Owned /\ new \in States
    <3>1. CASE s.state = "Decayed"
      <4>1. s = Decayed(s.fields)
        BY <2>4, <3>1, OwnedKinds
      <4>2. new = Decayed(fields)
        BY <4>1 DEF Decayed
      <4>. QED BY <2>6, <4>2, Written
    <3>2. CASE s.state = "Valid"
      <4>1. s = Struct(s.fields)
        BY <1>5, <2>4, <3>2, OwnedKinds
      <4>2. new = Struct(fields)
        BY <4>1 DEF Struct
      <4>. QED BY <2>6, <4>2, Written
    <3>. QED BY <2>4, <3>1, <3>2, OwnedKinds
  <2> HIDE DEF new
  <2>8. CASE Fits(arena, r, new)
    <3>1. arena' = Put(arena, r, new)
      BY <1>1, <1>5, <2>8
    <3>2. Keeps(arena, arena')
      BY <1>2, <2>3, <2>7, <3>1, PutKeeps
    <3>3. ~Loosened({}) => Held(arena') <= Capacity
      BY <1>2, <2>3, <2>7, <2>8, <3>1, PutFits DEF True, Covered
    <3>4. True(arena', {})
      BY <1>2, <3>2, <3>3, CoveredKeeps DEF ArenaInv, True
    <3>5. Mark({})
      BY <1>1 DEF Mark
    <3>. QED BY <1>1, <3>4, <3>5, LocalStep DEF True
  <2>9. CASE ~Fits(arena, r, new)
    <3>1. arena' = [arena EXCEPT !.regs[r] = Consumed] /\ status' = "fault"
      BY <1>1, <1>5, <2>9
    <3>2. /\ Typed(arena') /\ arena'.used = arena.used /\ Len(arena'.regs) = Len(arena.regs)
          /\ arena'.baseUsed = arena.baseUsed /\ arena'.baseRegs = arena.baseRegs
          /\ Held(arena') <= Held(arena)
      BY <1>2, <2>3, <3>1, TakeOut, ZenonT(30)
    <3>3. Held(arena') \in Int /\ arena.used \in Nat /\ Capacity \in Nat
      BY <1>2, <3>2, TypedIs, ArenaAssumption DEF Held
    <3>4. Covered(arena', {})
      BY <1>2, <1>3, <3>2, <3>3, SMT DEF Covered, True, Covers
    <3>5. Mark({})
      BY <1>1 DEF Mark
    <3>. QED BY <1>1, <3>1, <3>4, <3>5, LocalStep
  <2>. QED BY <2>8, <2>9
<1>. QED BY <1>4, <1>5
(* What a reader gets of what is held.                                      *)
LEMMA PeekIs == ASSUME NEW s \in States, s.state # "Consumed" PROVE Peek(s) \in Owned
<1> DEFINE o == IF s.state = "Leased" THEN s.original ELSE s
<1>1. o \in Owned
  BY StateKinds
<1>2. Peek(s) = IF o.state = "Decayed" THEN Struct(o.fields) ELSE o
  BY DEF Peek
<1> HIDE DEF o
<1>. QED BY <1>1, <1>2, OwnedKinds, Written

(* b is what a makes of insertions that fit, or less.                       *)
Bears(a, b) == Keeps(a, b) /\ (Held(b) <= Held(a) \/ (Covers(a) => Held(b) <= Capacity))

(* An arena bears itself.                                                   *)
LEMMA BearsSelf == ASSUME NEW a, Typed(a) PROVE Bears(a, a)
<1>1. Len(a.regs) \in Nat /\ Held(a) \in Int
  BY TypedIs DEF Held
<1>. QED BY <1>1 DEF Bears, Keeps

(* What fits is inserted, with or without metadata.                         *)
LEMMA BearsInsert ==
  ASSUME NEW a, Typed(a), NEW r \in Nat \ {0}, NEW s \in States, NEW timed, Fits(a, r, s)
  PROVE  LET b == Insert(a, r, s)
             c == [b EXCEPT !.timed = IF timed THEN @ \union {r} ELSE @]
         IN  Keeps(a, c) /\ (Covers(a) => Held(c) <= Capacity)
<1> DEFINE b == Insert(a, r, s)
           T == IF timed THEN b.timed \union {r} ELSE b.timed
           c == [b EXCEPT !.timed = T]
<1>1. /\ Keeps(a, b) /\ r \in Regs(b) /\ (Covers(a) => Held(b) <= Capacity)
  BY InsertKeeps
<1> HIDE DEF b
<1>2. Typed(b) /\ T \in SUBSET Regs(b)
  BY <1>1 DEF Keeps, Typed
<1> HIDE DEF T
<1>3. Keeps(b, c) /\ Held(c) = Held(b)
  BY <1>2, KeepsTimed
<1> HIDE DEF c
<1>4. Keeps(a, c)
  BY <1>1, <1>3, KeepsBoth
<1>. QED BY <1>1, <1>3, <1>4 DEF b, T, c

(* The same in the frame that runs.                                         *)
LEMMA TrueInsert ==
  ASSUME ArenaInv, NEW a, NEW R, True(a, R), NEW r \in Nat \ {0}, NEW s \in States, NEW timed,
         Fits(a, r, s)
  PROVE  True([Insert(a, r, s) EXCEPT !.timed = IF timed THEN @ \union {r} ELSE @], R)
<1> DEFINE c == [Insert(a, r, s) EXCEPT !.timed = IF timed THEN @ \union {r} ELSE @]
<1>1. Typed(a) /\ (~Loosened(R) => Covers(a))
  BY DEF True, Covered
<1>2. Keeps(a, c) /\ (Covers(a) => Held(c) <= Capacity)
  BY <1>1, BearsInsert
<1> HIDE DEF c
<1>3. True(c, R)
  BY <1>1, <1>2, CoveredKeeps DEF ArenaInv, True
<1>. QED BY <1>3 DEF c

(* A lease: the view is written, then the source is leased.                 *)
LEMMA LeaseStep ==
  ASSUME ArenaInv, NEW r \in 1 .. MaxRegs, NEW view \in 1 .. MaxRegs, Lease(view, r)
  PROVE  ArenaInv'
<1> DEFINE s == State(arena, r)
           timed == r \in arena.timed
           a == IF timed THEN arena ELSE Room(arena, view, s)
           b == [Insert(a, view, s) EXCEPT !.timed = IF timed THEN @ \union {view} ELSE @]
           first == IF timed THEN {} ELSE Resets(arena, view, s)
           S == first \union Resets(b, r, Leased(s))
<1>1. /\ status = "running" /\ calls' = calls
      /\ s.state \in {"Leased", "Consumed"} => arena' = arena /\ status' = "fault" /\ past' = past
      /\ s.state \notin {"Leased", "Consumed"} =>
           /\ ~Fits(a, view, s) => arena' = a /\ status' = "fault" /\ Mark(first)
           /\ Fits(a, view, s) /\ timed =>
                /\ past' = past
                /\ Fits(b, r, Leased(s)) =>
                     /\ arena' = [Insert(b, r, Leased(s)) EXCEPT !.timed = @ \union {r}]
                     /\ status' = "running"
                /\ ~Fits(b, r, Leased(s)) => arena' = b /\ status' = "fault"
           /\ Fits(a, view, s) /\ ~timed => InsertReg(b, r, Leased(s), FALSE) /\ Mark(S)
  BY DEF Lease, Running, Step, Fault, Frame
<1>2. r \in Nat \ {0} /\ view \in Nat \ {0} /\ Typed(arena) /\ True(arena, {})
  BY <1>1, SMT DEF ArenaInv, TypesOK
<1>3. s \in States
  BY <1>2, EnsureKeeps
<1>4. past' = past => Mark({})
  BY DEF Mark
<1> HIDE DEF s, timed
<1>5. CASE s.state \in {"Leased", "Consumed"}
  BY <1>1, <1>2, <1>4, <1>5, LocalStep DEF True, Statuses
<1>6. CASE s.state \notin {"Leased", "Consumed"}
  <2>1. s \in Owned /\ Leased(s) \in States
    BY <1>3, <1>6, StateKinds, Written
  <2>2. True(a, first)
    <3>1. {} \union Resets(arena, view, s) = Resets(arena, view, s)
      OBVIOUS
    <3>. QED BY <1>2, <3>1, CoveredRoom
  <2> HIDE DEF a, first
  <2>3. CASE ~Fits(a, view, s)
    BY <1>1, <1>6, <2>2, <2>3, LocalStep DEF True, Statuses
  <2>4. CASE Fits(a, view, s)
    <3>1. True(b, first)
      BY <1>2, <1>3, <2>2, <2>4, TrueInsert
    <3> HIDE DEF b
    <3>2. CASE timed /\ Fits(b, r, Leased(s))
      <4>1. True([Insert(b, r, Leased(s)) EXCEPT !.timed = IF TRUE THEN @ \union {r} ELSE @], first)
        BY <1>2, <2>1, <3>1, <3>2, TrueInsert
      <4>2. True(arena', first)
        BY <1>1, <1>6, <2>4, <3>2, <4>1
      <4>3. first = {}
        BY <3>2 DEF first
      <4>. QED BY <1>1, <1>4, <1>6, <2>4, <3>2, <4>2, <4>3, LocalStep DEF True, Statuses
    <3>3. CASE timed /\ ~Fits(b, r, Leased(s))
      <4>1. first = {}
        BY <3>3 DEF first
      <4>. QED BY <1>1, <1>4, <1>6, <2>4, <3>1, <3>3, <4>1, LocalStep DEF True, Statuses
    <3>4. CASE ~timed
      <4>1. InsertReg(b, r, Leased(s), FALSE) /\ Mark(S)
        BY <1>1, <1>6, <2>4, <3>4
      <4>2. \/ status' = "running" /\ True(arena', S)
            \/ status' = "fault" /\ Covered(arena', S)
        BY <1>2, <2>1, <3>1, <4>1, InsertRegIs
      <4> HIDE DEF S
      <4>. QED BY <1>1, <4>1, <4>2, LocalStep DEF True, Statuses
    <3>. QED BY <3>2, <3>3, <3>4
  <2>. QED BY <2>3, <2>4
<1>. QED BY <1>5, <1>6

(* The end of a lease: what was leased is written back.                     *)
LEMMA EndLeaseStep ==
  ASSUME ArenaInv, NEW r \in 1 .. MaxRegs, EndLease(r)
  PROVE  ArenaInv'
<1> DEFINE s == State(arena, r)
           S == Resets(arena, r, s.original)
<1>1. /\ status = "running" /\ calls' = calls
      /\ s.state # "Leased" => arena' = arena /\ status' = "fault" /\ past' = past
      /\ s.state = "Leased" /\ r \in arena.timed =>
           /\ past' = past
           /\ Fits(arena, r, s.original) =>
                /\ arena' = [Insert(arena, r, s.original) EXCEPT !.timed = @ \union {r}]
                /\ status' = "running"
           /\ ~Fits(arena, r, s.original) => arena' = arena /\ status' = "fault"
      /\ s.state = "Leased" /\ r \notin arena.timed =>
           InsertReg(arena, r, s.original, FALSE) /\ Mark(S)
  BY DEF EndLease, Running, Step, Fault, Frame
<1>2. r \in Nat \ {0} /\ Typed(arena) /\ True(arena, {})
  BY <1>1, SMT DEF ArenaInv, TypesOK
<1>3. s \in States
  BY <1>2, EnsureKeeps
<1>4. past' = past => Mark({})
  BY DEF Mark
<1> HIDE DEF s
<1>5. CASE s.state # "Leased"
  BY <1>1, <1>2, <1>4, <1>5, LocalStep DEF True, Statuses
<1>6. CASE s.state = "Leased" /\ r \in arena.timed
  <2>1. s.original \in States
    BY <1>3, <1>6, StateKinds, Written
  <2>2. CASE Fits(arena, r, s.original)
    <3>1. True([Insert(arena, r, s.original) EXCEPT !.timed = IF TRUE THEN @ \union {r} ELSE @], {})
      BY <1>2, <2>1, <2>2, TrueInsert
    <3>2. True(arena', {})
      BY <1>1, <1>6, <2>2, <3>1
    <3>. QED BY <1>1, <1>4, <1>6, <2>2, <3>2, LocalStep DEF True, Statuses
  <2>3. CASE ~Fits(arena, r, s.original)
    BY <1>1, <1>2, <1>4, <1>6, <2>3, LocalStep DEF True, Statuses
  <2>. QED BY <2>2, <2>3
<1>7. CASE s.state = "Leased" /\ r \notin arena.timed
  <2>1. s.original \in States
    BY <1>3, <1>7, StateKinds, Written
  <2>2. {} \union S = S /\ {} \union Resets(arena, r, s.original) = S
    OBVIOUS
  <2>3. InsertReg(arena, r, s.original, FALSE)
    BY <1>1, <1>7
  <2>4. \/ status' = "running" /\ True(arena', {} \union Resets(arena, r, s.original))
        \/ status' = "fault" /\ Covered(arena', {} \union Resets(arena, r, s.original))
    BY <1>2, <2>1, <2>3, InsertRegIs
  <2> HIDE DEF S
  <2>5. \/ status' = "running" /\ True(arena', S)
        \/ status' = "fault" /\ Covered(arena', S)
    BY <2>2, <2>4
  <2>. QED BY <1>1, <1>7, <2>5, LocalStep DEF True, Statuses
<1>. QED BY <1>5, <1>6, <1>7

(* An epoch is reset, or ended.                                             *)
LEMMA ResetStep == ASSUME ArenaInv, Reset PROVE ArenaInv'
<1>1. /\ status = "running" /\ status' = "running" /\ calls' = calls
      /\ arena' = ResetToBaseWatermark(arena) /\ Mark({arena})
  BY DEF Reset, Running, Step, Frame
<1>2. Covered(arena, {arena})
  BY CoveredMore DEF ArenaInv
<1>3. True(arena', {arena})
  BY <1>1, <1>2, CoveredReset
<1>. QED BY <1>1, <1>3, LocalStep DEF True, Statuses

(* What a routine returns.                                                  *)
LEMMA ReturnedIs ==
  ASSUME NEW a, Typed(a), NEW r \in 0 .. MaxRegs
  PROVE  Returned(a, r) \in States
<1>1. CASE r = 0
  BY <1>1, Written DEF Returned
<1>2. CASE r # 0
  <2>1. r \in Nat \ {0}
    BY <1>2, SMT
  <2>2. State(a, r) \in States
    BY <2>1, EnsureKeeps
  <2>3. State(a, r).state # "Consumed" => Peek(State(a, r)) \in States
    BY <2>2, PeekIs, Written
  <2>. QED BY <1>2, <2>3, Written DEF Returned
<1>. QED BY <1>1, <1>2

(* The program ends with its result in the first register, or in a fault.   *)
LEMMA RootReturnStep ==
  ASSUME ArenaInv, NEW r \in 0 .. MaxRegs, RootReturn(r)
  PROVE  ArenaInv'
<1> DEFINE result == Returned(arena, r)
<1>1. /\ status = "running" /\ calls' = calls /\ past' = past
      /\ arena' = IF Fits(arena, 1, result) THEN Insert(arena, 1, result) ELSE arena
      /\ status' \in Statuses
  BY DEF RootReturn, Running, Frame, Statuses
<1>2. Typed(arena) /\ True(arena, {}) /\ TypesOK
  BY <1>1 DEF ArenaInv, TypesOK
<1>3. result \in States
  BY <1>2, ReturnedIs
<1>4. Mark({})
  BY <1>1 DEF Mark
<1> HIDE DEF result
<1>5. True(arena', {})
  <2>1. CASE Fits(arena, 1, result)
    <3>1. True(Insert(arena, 1, result), {})
      BY <1>2, <1>3, <2>1, 1 \in Nat \ {0}, CoveredInsert DEF True
    <3>. QED BY <1>1, <2>1, <3>1
  <2>2. CASE ~Fits(arena, 1, result)
    BY <1>1, <1>2, <2>2
  <2>. QED BY <2>1, <2>2
<1>. QED BY <1>1, <1>4, <1>5, LocalStep DEF True
(* An epoch is frozen: what the frame holds and its count are what the      *)
(* watermark keeps.                                                         *)
LEMMA FreezeStep == ASSUME ArenaInv, Freeze PROVE ArenaInv'
<1> DEFINE base == [frame |-> IF Here \in past.loose THEN 0 ELSE Here, sum |-> Total(arena)]
<1>1. /\ status = "running" /\ status' = "running" /\ calls' = calls
      /\ arena' = [arena EXCEPT !.baseUsed = arena.used, !.baseRegs = Len(arena.regs)]
      /\ past' = [past EXCEPT !.base = base]
  BY DEF Freeze, Running, Step, Frame, FreezeBaseWatermark
<1>2. TypesOK /\ Typed(arena) /\ past \in Pasts /\ True(arena, {})
  BY <1>1 DEF ArenaInv, TypesOK
<1>3. Here' = Here
  BY <1>1 DEF Here
<1>4. /\ Here \in Nat \ {0} /\ Here \in 1 .. Here /\ {0, Here} \subseteq 0 .. Here
      /\ \A i \in 1 .. Len(calls) : i \in 1 .. Here /\ i # Here /\ i # 0
      /\ \A i \in 1 .. Here : i # 0
  BY <1>2, FramesAre, SMT
<1>5. /\ Len(arena.regs) \in Nat /\ arena.used \in Nat /\ Total(arena) \in Nat
  BY <1>2, TypedIs
<1>6. base \in Frozen /\ base.frame \in {0, Here} /\ base.sum = Total(arena)
      /\ (base.frame = Here => Here \notin past.loose)
  BY <1>4, <1>5 DEF Frozen
<1> HIDE DEF base
<1>7. /\ past'.leaked = past.leaked /\ past'.base = base
      /\ past'.loose = past.loose /\ past'.grown = past.grown /\ past' \in Pasts
  BY <1>1, <1>2, <1>6 DEF Pasts
<1>8. /\ Typed(arena') /\ arena'.regs = arena.regs /\ arena'.used = arena.used
      /\ arena'.baseUsed = arena.used /\ arena'.baseRegs = Len(arena.regs)
  <2>1. /\ arena' \in Arenas /\ arena'.regs = arena.regs /\ arena'.timed = arena.timed
        /\ arena'.used = arena.used
        /\ arena'.baseUsed = arena.used /\ arena'.baseRegs = Len(arena.regs)
    BY <1>1, <1>2, <1>5 DEF Typed, Arenas
  <2>. QED BY <1>2, <2>1 DEF Typed, Regs
<1>9. Held(arena') = Held(arena) /\ Total(arena') = Total(arena)
  BY <1>8 DEF Held, Total
<1>10. Loosened({}) <=> Here \in past.loose
  BY DEF Loosened
<1>11. TypesOK'
  BY <1>1, <1>2, <1>3, <1>4, <1>6, <1>7, <1>8 DEF TypesOK, Statuses
<1>12. ASSUME NEW i \in 1 .. Len(calls') PROVE Waits(i)'
  <2>1. Waits(i) /\ i # Here /\ i # 0 /\ calls'[i] = calls[i]
    BY <1>1, <1>4 DEF ArenaInv
  <2>2. past'.base.frame # i
    BY <1>6, <1>7, <2>1
  <2>. QED BY <1>7, <2>1, <2>2 DEF Waits
<1>13. ASSUME NEW i \in 1 .. Here', past'.base.frame = i PROVE Marked(i)'
  <2>1. i = Here /\ Here \notin past.loose
    BY <1>3, <1>4, <1>6, <1>7, <1>13
  <2>2. /\ Covers(arena) /\ Within(arena, past.leaked[Here])
        /\ Here \notin past.grown => Held(arena) <= Capacity
    BY <1>2, <1>10, <2>1 DEF True, Covered
  <2>3. past'.base.sum - 8 * arena'.baseRegs = Held(arena)
    BY <1>6, <1>7, <1>8 DEF Held
  <2>. QED BY <1>6, <1>7, <1>8, <2>1, <2>2, <2>3 DEF Marked, Covers, Within
<1>14. True(arena, {})'
  <2>1. Loosened({})' <=> Loosened({})
    BY <1>3, <1>7 DEF Loosened
  <2>2. Len(arena'.regs) >= arena'.baseRegs
    BY <1>5, <1>8
  <2>. QED BY <1>2, <1>3, <1>7, <1>8, <1>9, <2>1, <2>2 DEF True, Covered, Covers, Within
<1>. QED BY <1>11, <1>12, <1>13, <1>14 DEF ArenaInv, True
(* The arena a callee starts with: its argument and nothing else.           *)
LEMMA CalleeIs ==
  ASSUME NEW a, Typed(a), NEW s \in States, NEW timed
  PROVE  LET e == Callee(a)
             c == [Insert(e, 1, s) EXCEPT !.timed = IF timed THEN {1} ELSE {}]
             Bare(x) == /\ Typed(x) /\ x.baseUsed = a.baseUsed /\ x.baseRegs = a.baseRegs
                        /\ Covers(x) /\ Within(x, 0) /\ Held(x) <= Capacity
         IN  Bare(e) /\ (Fits(e, 1, s) => Bare(c))
<1> DEFINE e == Callee(a)
           b == Insert(e, 1, s)
           T == IF timed THEN {1} ELSE {}
           c == [b EXCEPT !.timed = T]
<1>1. /\ e \in Arenas /\ e.regs = <<>> /\ e.timed = {} /\ e.used = 0
      /\ e.baseUsed = a.baseUsed /\ e.baseRegs = a.baseRegs
  <2>1. e = [a EXCEPT !.regs = <<>>, !.timed = {}, !.used = 0]
    BY DEF Callee
  <2>2. <<>> \in Seq(States) /\ {} \in SUBSET Nat /\ 0 \in Nat
    OBVIOUS
  <2> HIDE DEF e
  <2>. QED BY <2>1, <2>2 DEF Typed, Arenas
<1> HIDE DEF e
<1>2. Typed(e)
  BY <1>1 DEF Typed
<1>3. Len(e.regs) = 0 /\ Capacity \in Nat
  BY <1>1, ArenaAssumption
<1>4. Weigh(e.regs) = 0
  BY <1>3, UptoIs, 0 \in Nat
<1>5. Covers(e) /\ Within(e, 0) /\ Held(e) = 0 /\ Held(e) <= Capacity
  BY <1>1, <1>3, <1>4, SMT DEF Covers, Within, Held, Total
<1>6. ASSUME Fits(e, 1, s)
      PROVE  /\ Typed(c) /\ c.baseUsed = a.baseUsed /\ c.baseRegs = a.baseRegs
             /\ Covers(c) /\ Within(c, 0) /\ Held(c) <= Capacity
  <2>1. Keeps(e, b) /\ 1 \in Regs(b) /\ Held(b) <= Capacity
    BY <1>2, <1>5, <1>6, 1 \in Nat \ {0}, InsertKeeps
  <2> HIDE DEF b
  <2>2. Typed(b) /\ T \in SUBSET Regs(b)
    BY <2>1 DEF Keeps
  <2> HIDE DEF T
  <2>3. Keeps(b, c) /\ Held(c) = Held(b)
    BY <2>2, KeepsTimed
  <2> HIDE DEF c
  <2>4. Keeps(e, c)
    BY <1>2, <2>1, <2>3, KeepsBoth
  <2>. QED BY <1>1, <1>5, <2>1, <2>3, <2>4, 0 \in Nat DEF Keeps
<1>. QED BY <1>1, <1>2, <1>5, <1>6 DEF e, b, T, c

(* What the calls took, with one more call.                                 *)
LEMMA LeakedIs ==
  ASSUME NEW q \in Seq(Nat), NEW n \in Nat \ {0}, Len(q) = n, NEW k \in Nat,
         NEW t, t = Append([q EXCEPT ![n] = q[n] + k], 0)
  PROVE  /\ t \in Seq(Nat) /\ Len(t) = n + 1 /\ t[n + 1] = 0 /\ t[n] = q[n] + k
         /\ \A i \in 1 .. n : t[i] \in Nat /\ t[i] >= q[i] /\ (i # n => t[i] = q[i])
<1> DEFINE p == [q EXCEPT ![n] = q[n] + k]
<1>1. n \in 1 .. n /\ q[n] \in Nat /\ q[n] + k \in Nat /\ \A i \in 1 .. n : q[i] \in Nat
  BY SMT
<1>2. /\ p \in Seq(Nat) /\ Len(p) = n /\ p[n] = q[n] + k
      /\ \A i \in 1 .. n : i # n => p[i] = q[i]
  BY <1>1
<1> HIDE DEF p
<1>3. /\ Append(p, 0) \in Seq(Nat) /\ Len(Append(p, 0)) = n + 1 /\ Append(p, 0)[n + 1] = 0
      /\ \A i \in 1 .. n : Append(p, 0)[i] = p[i]
  BY <1>2, SMT
<1>4. ASSUME NEW i \in 1 .. n
      PROVE  Append(p, 0)[i] \in Nat /\ Append(p, 0)[i] >= q[i] /\ (i # n => Append(p, 0)[i] = q[i])
  <2>1. Append(p, 0)[i] = p[i] /\ q[i] \in Nat
    BY <1>1, <1>3
  <2>2. CASE i = n
    BY <1>1, <1>2, <2>1, <2>2, SMT
  <2>3. CASE i # n
    BY <1>2, <2>1, <2>3
  <2>. QED BY <2>2, <2>3
<1>. QED BY <1>1, <1>2, <1>3, <1>4 DEF p

(* What the frame of a caller holds: no more than its arena did, and lighter *)
(* by what consuming the argument took.                                     *)
LEMMA CallFrameIs ==
  ASSUME NEW a, Typed(a), NEW mode \in Modes, NEW r \in Regs(a), NEW dest \in Nat \ {0},
         a.regs[r].state # "Consumed"
  PROVE  LET f == CallFrame(a, mode, r, dest)
             k == IF mode = "Consume" THEN Weight(a.regs[r]) - 8 ELSE 0
         IN  /\ f \in CallFrames /\ f.timed \subseteq DOMAIN f.regs
             /\ Len(f.regs) = Len(a.regs) /\ k \in Nat
             /\ f.used = a.used /\ Held(f) <= Held(a) /\ Total(f) + k = Total(a)
<1> DEFINE f == CallFrame(a, mode, r, dest)
           new == [a.regs EXCEPT ![r] = Consumed]
           k == IF mode = "Consume" THEN Weight(a.regs[r]) - 8 ELSE 0
<1>1. /\ a.regs \in Seq(States) /\ Len(a.regs) \in Nat /\ Total(a) \in Nat /\ a.used \in Nat
      /\ Regs(a) = 1 .. Len(a.regs) /\ a.regs[r] \in States
      /\ a.timed \subseteq DOMAIN a.regs /\ a.timed \in SUBSET Nat
  BY TypedIs DEF Typed, Arenas, Regs
<1>2. Weight(a.regs[r]) \in Nat /\ Weight(a.regs[r]) >= 8 /\ r \in Nat \ {0}
  BY <1>1, Weighs, SMT
<1>3. new \in Seq(States) /\ Len(new) = Len(a.regs) /\ DOMAIN new = DOMAIN a.regs
      /\ Weigh(new) = Total(a) - Weight(a.regs[r]) + 8
  BY TakeOut
<1> HIDE DEF new
<1>4. /\ f.regs = IF mode = "Consume" THEN new ELSE a.regs
      /\ f.timed = a.timed /\ f.used = a.used /\ f.mode = mode /\ f.arg = r /\ f.dest = dest
  BY DEF CallFrame, new
<1>5. f.regs \in Seq(States) /\ Len(f.regs) = Len(a.regs) /\ DOMAIN f.regs = DOMAIN a.regs
  BY <1>1, <1>3, <1>4
<1>6. f \in CallFrames
  <2>1. f = [regs |-> f.regs, timed |-> f.timed, used |-> f.used, mode |-> f.mode,
             arg |-> f.arg, dest |-> f.dest]
    BY DEF CallFrame
  <2> HIDE DEF f
  <2>2. f.regs \in Seq(States) /\ f.timed \in SUBSET Nat /\ f.used \in Nat /\ f.mode \in Modes
        /\ f.arg \in Nat \ {0} /\ f.dest \in Nat \ {0}
    BY <1>1, <1>2, <1>4, <1>5
  <2> DEFINE frs == f.regs ft == f.timed fu == f.used fm == f.mode fa == f.arg fd == f.dest
  <2>3. f = [regs |-> frs, timed |-> ft, used |-> fu, mode |-> fm, arg |-> fa, dest |-> fd]
    BY <2>1
  <2> HIDE DEF frs, ft, fu, fm, fa, fd
  <2>. QED BY <2>2, <2>3 DEF CallFrames, frs, ft, fu, fm, fa, fd
<1> HIDE DEF f
<1>7. CASE mode = "Consume"
  <2>1. Total(f) = Total(a) - Weight(a.regs[r]) + 8 /\ k = Weight(a.regs[r]) - 8
    BY <1>3, <1>4, <1>7 DEF Total
  <2> HIDE DEF k
  <2>2. k \in Nat /\ Total(f) <= Total(a) /\ Total(f) + k = Total(a) /\ Total(f) \in Int
    <3> DEFINE t == Total(a)
               w == Weight(a.regs[r])
               tf == Total(f)
    <3>1. t \in Nat /\ w \in Nat /\ w >= 8 /\ tf = t - w + 8 /\ k = w - 8
      BY <1>1, <1>2, <2>1
    <3> HIDE DEF t, w, tf
    <3>2. k \in Nat /\ tf <= t /\ tf + k = t /\ tf \in Int
      BY <3>1, SMT
    <3>. QED BY <3>2 DEF t, tf
  <2>3. Held(f) <= Held(a)
    BY <1>1, <1>5, <2>2, SMT DEF Held
  <2>4. f.timed \subseteq DOMAIN f.regs
    BY <1>1, <1>4, <1>5
  <2>5. f.used = a.used /\ Len(f.regs) = Len(a.regs)
    BY <1>4, <1>5
  <2>. QED BY <1>6, <2>2, <2>3, <2>4, <2>5, Zenon DEF f, k
<1>8. CASE mode # "Consume"
  <2>1. Total(f) = Total(a) /\ k = 0
    BY <1>4, <1>8 DEF Total
  <2>. QED BY <1>1, <1>4, <1>5, <1>6, <2>1, SMTT(30) DEF Held, f
<1>. QED BY <1>7, <1>8
(* A call: the frame of the caller waits, and the callee starts with what   *)
(* it was handed.                                                           *)
LEMMA CallStep ==
  ASSUME ArenaInv, NEW mode \in Modes, NEW r \in 1 .. MaxRegs, NEW dest \in 1 .. MaxRegs,
         Call(mode, r, dest)
  PROVE  ArenaInv'
<1> DEFINE s == State(arena, r)
           inside == Callee(arena)
           argument == Peek(s)
           timed == r \in arena.timed
           k == IF mode = "Consume" THEN Weight(s) - 8 ELSE 0
           refused == s.state = "Consumed" \/ Len(calls) >= MaxDepth
           f == CallFrame(arena, mode, r, dest)
           leaked == Append([past.leaked EXCEPT ![Here] = past.leaked[Here] + k], 0)
           c == [Insert(inside, 1, argument) EXCEPT !.timed = IF timed THEN {1} ELSE {}]
<1>1. /\ status = "running"
      /\ refused => arena' = arena /\ status' = "fault" /\ calls' = calls /\ past' = past
      /\ ~refused => /\ calls' = Append(calls, f)
                     /\ past' = [past EXCEPT !.leaked = leaked]
                     /\ Fits(inside, 1, argument) => arena' = c /\ status' = "running"
                     /\ ~Fits(inside, 1, argument) => arena' = inside /\ status' = "fault"
  <2>1. /\ Running
        /\ IF refused THEN Fault(arena) /\ UNCHANGED <<calls, past>>
           ELSE /\ calls' = Append(calls, f)
                /\ past' = [past EXCEPT !.leaked = leaked]
                /\ IF Fits(inside, 1, argument) THEN Step(c) ELSE Fault(inside)
    BY DEF Call
  <2> HIDE DEF refused, f, leaked, inside, argument, c
  <2>. QED BY <2>1 DEF Running, Step, Fault
<1>2. r \in Nat \ {0} /\ dest \in Nat \ {0} /\ Typed(arena) /\ True(arena, {}) /\ TypesOK
  BY <1>1, SMT DEF ArenaInv, TypesOK
<1>3. CASE refused
  <2>1. Mark({})
    BY <1>1, <1>3 DEF Mark
  <2>. QED BY <1>1, <1>2, <1>3, <2>1, LocalStep DEF True, Statuses
<1>4. CASE ~refused
  <2>1. s \in States /\ s.state # "Consumed"
    BY <1>2, <1>4, EnsureKeeps
  <2>2. r \in Regs(arena) /\ s = arena.regs[r]
    BY <2>1 DEF State, Consumed
  <2>3. argument \in States
    BY <2>1, PeekIs, Written
  <2>4. /\ f \in CallFrames /\ f.timed \subseteq DOMAIN f.regs
        /\ Len(f.regs) = Len(arena.regs) /\ k \in Nat
        /\ f.used = arena.used /\ Held(f) <= Held(arena) /\ Total(f) + k = Total(arena)
    <3>1. /\ CallFrame(arena, mode, r, dest) \in CallFrames
          /\ CallFrame(arena, mode, r, dest).timed \subseteq DOMAIN CallFrame(arena, mode, r, dest).regs
          /\ Len(CallFrame(arena, mode, r, dest).regs) = Len(arena.regs)
          /\ (IF mode = "Consume" THEN Weight(arena.regs[r]) - 8 ELSE 0) \in Nat
          /\ CallFrame(arena, mode, r, dest).used = arena.used
          /\ Held(CallFrame(arena, mode, r, dest)) <= Held(arena)
          /\ Total(CallFrame(arena, mode, r, dest))
               + (IF mode = "Consume" THEN Weight(arena.regs[r]) - 8 ELSE 0) = Total(arena)
      BY <1>2, <2>1, <2>2, CallFrameIs
    <3>. QED BY <2>2, <3>1
  <2>5. /\ Typed(arena') /\ arena'.baseUsed = arena.baseUsed /\ arena'.baseRegs = arena.baseRegs
        /\ Covers(arena') /\ Within(arena', 0) /\ Held(arena') <= Capacity
    <3>1. /\ Typed(inside) /\ inside.baseUsed = arena.baseUsed /\ inside.baseRegs = arena.baseRegs
          /\ Covers(inside) /\ Within(inside, 0) /\ Held(inside) <= Capacity
      BY <1>2, <2>3, CalleeIs
    <3>2. Fits(inside, 1, argument) =>
            /\ Typed(c) /\ c.baseUsed = arena.baseUsed /\ c.baseRegs = arena.baseRegs
            /\ Covers(c) /\ Within(c, 0) /\ Held(c) <= Capacity
      <4> HIDE DEF argument, timed
      <4>. QED BY <1>2, <2>3, CalleeIs
    <3> HIDE DEF inside, c
    <3>. QED BY <1>1, <1>4, <3>1, <3>2
  <2>6. calls' = Append(calls, f) /\ past' = [past EXCEPT !.leaked = leaked] /\ status' \in Statuses
    BY <1>1, <1>4 DEF Statuses
  <2> HIDE DEF s, inside, argument, timed, k, f, c
  <2>7. /\ Len(calls) \in Nat /\ Here \in Nat \ {0} /\ Here \in 1 .. Here /\ Here = Len(calls) + 1
        /\ \A i \in 1 .. Len(calls) : i \in 1 .. Here /\ i # Here
        /\ \A i \in 1 .. Here : i = Here \/ i \in 1 .. Len(calls)
        /\ \A i \in 1 .. Here : past.leaked[i] \in Nat
    BY <1>2, FramesAre
  <2>8. calls \in Seq(CallFrames) /\ past \in Pasts /\ past.leaked \in Seq(Nat) /\ Len(past.leaked) = Here
    BY <1>2 DEF TypesOK, Pasts
  <2>9. /\ leaked \in Seq(Nat) /\ Len(leaked) = Here + 1 /\ leaked[Here + 1] = 0
        /\ leaked[Here] = past.leaked[Here] + k
        /\ \A i \in 1 .. Here : leaked[i] \in Nat /\ leaked[i] >= past.leaked[i]
                                /\ (i # Here => leaked[i] = past.leaked[i])
    <3> DEFINE h == Here
               q == past.leaked
    <3>1. h \in Nat \ {0} /\ q \in Seq(Nat) /\ Len(q) = h
      BY <2>7, <2>8
    <3>2. leaked = Append([q EXCEPT ![h] = q[h] + k], 0)
      OBVIOUS
    <3> HIDE DEF h, q, leaked
    <3>3. /\ leaked \in Seq(Nat) /\ Len(leaked) = h + 1 /\ leaked[h + 1] = 0
          /\ leaked[h] = q[h] + k
          /\ \A i \in 1 .. h : leaked[i] \in Nat /\ leaked[i] >= q[i]
                               /\ (i # h => leaked[i] = q[i])
      BY <2>4, <3>1, <3>2, LeakedIs, SMTT(30)
    <3>. QED BY <3>3 DEF h, q
  <2> HIDE DEF leaked
  <2>10. /\ past'.leaked = leaked /\ past'.base = past.base
         /\ past'.loose = past.loose /\ past'.grown = past.grown /\ past' \in Pasts
    BY <2>6, <2>8, <2>9 DEF Pasts
  <2>11. /\ calls' \in Seq(CallFrames) /\ Len(calls') = Here /\ calls'[Here] = f
         /\ \A i \in 1 .. Len(calls) : calls'[i] = calls[i]
    BY <2>4, <2>6, <2>7, <2>8
  <2>12. Here' = Here + 1 /\ Here + 1 \in Nat /\ 1 .. Here' = (1 .. Here) \union {Here'}
         /\ Here' \notin 1 .. Here /\ 0 .. Here \subseteq 0 .. Here' /\ Here' \notin 0 .. Here
    <3>1. Here' = Here + 1
      BY <2>11 DEF Here
    <3>. QED BY <2>7, <3>1, SMT
  <2>13. past.loose \union past.grown \subseteq 1 .. Here /\ past.base.frame \in 0 .. Here
    BY <1>2 DEF TypesOK
  <2>14. TypesOK'
    <3>1. ASSUME NEW i \in 1 .. Len(calls') PROVE calls'[i].timed \subseteq DOMAIN calls'[i].regs
      <4>1. CASE i = Here
        BY <2>4, <2>11, <4>1
      <4>2. CASE i # Here
        BY <1>2, <2>7, <2>11, <4>2 DEF TypesOK
      <4>. QED BY <4>1, <4>2
    <3>2. past'.loose \union past'.grown \subseteq 1 .. Here'
      BY <2>10, <2>12, <2>13
    <3>3. Len(past'.leaked) = Here' /\ past'.base.frame \in 0 .. Here'
      BY <2>9, <2>10, <2>12, <2>13
    <3>. QED BY <2>5, <2>6, <2>10, <2>11, <3>1, <3>2, <3>3 DEF TypesOK
  <2>15. ASSUME NEW i \in 1 .. Len(calls') PROVE Waits(i)'
    <3>1. CASE i = Here
      <4>1. Loosened({}) <=> Here \in past.loose
        BY DEF Loosened
      <4>2. /\ past.base.frame = Here => Len(arena.regs) >= arena.baseRegs
            /\ Here \notin past.loose => Covers(arena) /\ Within(arena, past.leaked[Here])
            /\ Here \notin past.loose \union past.grown => Held(arena) <= Capacity
        BY <1>2, <4>1 DEF True, Covered
      <4>3. /\ Held(arena) \in Int /\ Total(arena) \in Nat /\ arena.used \in Nat /\ Capacity \in Nat
            /\ Total(f) \in Int /\ Held(f) \in Int
        <5>1. Total(arena) \in Nat /\ Len(arena.regs) \in Nat /\ arena.used \in Nat
          BY <1>2, TypedIs
        <5>2. f.regs \in Seq(States)
          BY <2>4 DEF CallFrames
        <5>3. Total(f) \in Nat /\ Len(f.regs) \in Nat
          BY <5>2, WeighType DEF Total
        <5>4. Held(arena) \in Int
          BY <5>1 DEF Held
        <5>5. Held(f) \in Int
          BY <5>3 DEF Held
        <5>. QED BY <5>1, <5>3, <5>4, <5>5, ArenaAssumption
      <4>4. ASSUME Here \notin past.loose
            PROVE  Covers(f) /\ Within(f, past.leaked[Here] + k)
        <5>1. Held(arena) <= arena.used /\ arena.used <= Total(arena) + past.leaked[Here]
          BY <4>2, <4>4 DEF Covers, Within
        <5>2. k \in Nat /\ past.leaked[Here] \in Nat /\ Held(f) <= Held(arena)
              /\ Total(f) + k = Total(arena)
          BY <2>4, <2>7
        <5>3. Held(f) <= arena.used /\ arena.used <= Total(f) + (past.leaked[Here] + k)
          BY <4>3, <5>1, <5>2, SMTT(30)
        <5>. QED BY <2>4, <5>3 DEF Covers, Within
      <4>5. Here \notin past.loose \union past.grown => Held(f) <= Capacity
        BY <2>4, <4>2, <4>3, SMT
      <4>. QED BY <2>4, <2>5, <2>9, <2>10, <2>11, <3>1, <4>2, <4>4, <4>5 DEF Waits
    <3>2. CASE i # Here
      <4>1. i \in 1 .. Len(calls) /\ i \in 1 .. Here
        BY <2>7, <2>11, <3>2
      <4>2. Waits(i) /\ calls'[i] = calls[i] /\ leaked[i] = past.leaked[i]
        BY <2>9, <2>11, <3>2, <4>1 DEF ArenaInv
      <4>. QED BY <2>5, <2>10, <4>2 DEF Waits
    <3>. QED BY <3>1, <3>2
  <2>16. ASSUME NEW i \in 1 .. Here', past'.base.frame = i PROVE Marked(i)'
    <3>1. i \in 1 .. Here /\ past.base.frame = i
      BY <2>10, <2>12, <2>13, <2>16
    <3>2. Marked(i) /\ leaked[i] \in Nat /\ past.leaked[i] \in Nat /\ leaked[i] >= past.leaked[i]
      BY <2>7, <2>9, <3>1 DEF ArenaInv
    <3>3. arena.baseUsed \in Nat /\ past.base.sum \in Nat
      BY <1>2, <2>8, TypedIs DEF Pasts, Frozen
    <3>4. arena.baseUsed <= past.base.sum + leaked[i]
      <4>1. arena.baseUsed <= past.base.sum + past.leaked[i]
        BY <3>2 DEF Marked
      <4>. QED BY <3>2, <3>3, <4>1, SMT
    <3>. QED BY <2>5, <2>10, <3>2, <3>4 DEF Marked
  <2>17. True(arena, {})'
    <3>1. Here' \notin past'.loose /\ past'.base.frame # Here' /\ past'.leaked[Here'] = 0
      BY <2>9, <2>10, <2>12, <2>13
    <3>. QED BY <2>5, <3>1 DEF True, Covered
  <2>. QED BY <2>14, <2>15, <2>16, <2>17 DEF ArenaInv, True
<1>. QED BY <1>3, <1>4
(* What fits an arena is borne by what bore the arena.                      *)
LEMMA BearsNext ==
  ASSUME NEW a, NEW b, Typed(a), Bears(a, b), NEW r \in Nat \ {0}, NEW s \in States, NEW timed,
         Fits(b, r, s)
  PROVE  Bears(a, [Insert(b, r, s) EXCEPT !.timed = IF timed THEN @ \union {r} ELSE @])
<1> DEFINE c == [Insert(b, r, s) EXCEPT !.timed = IF timed THEN @ \union {r} ELSE @]
<1>1. Typed(b) /\ Keeps(a, b)
  BY DEF Bears, Keeps
<1>2. Keeps(b, c) /\ (Covers(b) => Held(c) <= Capacity)
  BY <1>1, BearsInsert
<1> HIDE DEF c
<1>3. Keeps(a, c)
  BY <1>1, <1>2, KeepsBoth
<1>4. Covers(a) => Held(c) <= Capacity
  BY <1>1, <1>2 DEF Keeps
<1>. QED BY <1>3, <1>4 DEF Bears, c

(* The frame of the caller goes on: its registers and its count come back.  *)
LEMMA RestoredIs ==
  ASSUME NEW a, Typed(a), NEW f \in CallFrames, f.timed \subseteq DOMAIN f.regs
  PROVE  LET b == Restored(a, f)
         IN  /\ Typed(b) /\ b.regs = f.regs /\ b.used = f.used
             /\ b.baseUsed = a.baseUsed /\ b.baseRegs = a.baseRegs
             /\ Held(b) = Held(f) /\ Total(b) = Total(f)
<1> DEFINE b == Restored(a, f)
<1>1. b = [a EXCEPT !.regs = f.regs, !.timed = f.timed, !.used = f.used]
  BY DEF Restored
<1>2. f.regs \in Seq(States) /\ f.timed \in SUBSET Nat /\ f.used \in Nat
  BY DEF CallFrames
<1> HIDE DEF b
<1>3. /\ b \in Arenas /\ b.regs = f.regs /\ b.used = f.used /\ b.timed = f.timed
      /\ b.baseUsed = a.baseUsed /\ b.baseRegs = a.baseRegs
  BY <1>1, <1>2 DEF Typed, Arenas
<1>4. Typed(b)
  BY <1>3 DEF Typed, Regs
<1>5. Held(b) = Held(f) /\ Total(b) = Total(f)
  BY <1>3 DEF Held, Total
<1>. QED BY <1>3, <1>4, <1>5 DEF b

(* What a return leaves is borne by what the caller had.                    *)
LEMMA ReturnBears ==
  ASSUME ArenaInv, NEW r \in 0 .. MaxRegs, Return(r)
  PROVE  /\ calls # <<>> /\ Typed(Restored(arena, calls[Len(calls)]))
         /\ Bears(Restored(arena, calls[Len(calls)]), arena') /\ status' \in Statuses
<1> DEFINE f == calls[Len(calls)]
           out == Restored(arena, f)
           child == arena.regs
           goes == GoesBack(f, child)
           kept == BackTimed(f, arena.timed)
           put == [Insert(out, f.arg, child[1]) EXCEPT
                     !.timed = IF kept THEN @ \union {f.arg} ELSE @]
           back == IF goes THEN put ELSE out
           result == Returned(arena, r)
           timed == r \in arena.timed
           final == [Insert(back, f.dest, result) EXCEPT
                       !.timed = IF timed THEN @ \union {f.dest} ELSE @]
<1>1. /\ calls # <<>>
      /\ IF goes /\ ~Fits(out, f.arg, child[1]) THEN Fault(out)
         ELSE IF ~Fits(back, f.dest, result) THEN Fault(back)
         ELSE Step(final)
  BY DEF Return, Last
<1>2. TypesOK /\ Typed(arena) /\ calls \in Seq(CallFrames)
  BY DEF ArenaInv, TypesOK
<1>3. Len(calls) \in 1 .. Len(calls)
  <2>1. calls # <<>>
    BY <1>1
  <2> HIDE DEF goes, kept, out, put, back, result, timed, final
  <2>. QED BY <1>2, <2>1, SMTT(30)
<1>4. f \in CallFrames /\ f.timed \subseteq DOMAIN f.regs
  BY <1>2, <1>3 DEF TypesOK
<1>5. f.arg \in Nat \ {0} /\ f.dest \in Nat \ {0}
  BY <1>4 DEF CallFrames
<1>6. result \in States
  BY <1>2, ReturnedIs
<1>7. goes => child[1] \in States
  <2> SUFFICES ASSUME goes PROVE child[1] \in States
    OBVIOUS
  <2>1. child # <<>> /\ child \in Seq(States)
    BY <1>2, TypedIs DEF GoesBack
  <2>. QED BY <2>1, SMT
<1> HIDE DEF f, goes, kept, child, result, timed
<1>8. Typed(out)
  BY <1>2, <1>4, RestoredIs
<1> HIDE DEF out
<1>9. Bears(out, out)
  BY <1>8, BearsSelf
<1>10. goes /\ Fits(out, f.arg, child[1]) => Bears(out, put)
  BY <1>5, <1>7, <1>8, <1>9, BearsNext
<1> HIDE DEF put
<1>11. CASE goes /\ ~Fits(out, f.arg, child[1])
  BY <1>1, <1>8, <1>9, <1>11 DEF Fault, Statuses, out, f
<1>12. CASE ~(goes /\ ~Fits(out, f.arg, child[1]))
  <2>1. Bears(out, back)
    BY <1>9, <1>10, <1>12
  <2> HIDE DEF back
  <2>2. Fits(back, f.dest, result) => Bears(out, final)
    BY <1>5, <1>6, <1>8, <2>1, BearsNext
  <2> HIDE DEF final
  <2>3. Bears(out, arena') /\ status' \in Statuses
    BY <1>1, <1>12, <2>1, <2>2 DEF Fault, Step, Statuses
  <2>. QED BY <1>1, <1>8, <2>3 DEF out, f
<1>. QED BY <1>11, <1>12

(* A sequence without its last element.                                     *)
LEMMA FrontIs ==
  ASSUME NEW S, NEW q \in Seq(S), NEW n \in Nat \ {0}, Len(q) = n
  PROVE  /\ Front(q) \in Seq(S) /\ Len(Front(q)) = n - 1
         /\ \A i \in 1 .. n - 1 : Front(q)[i] = q[i]
<1>1. Front(q) = SubSeq(q, 1, n - 1) /\ n - 1 \in Nat
  BY DEF Front
<1>2. SubSeq(q, 1, n - 1) \in Seq(S)
  BY <1>1, SMT
<1>3. Len(SubSeq(q, 1, n - 1)) = n - 1
  BY <1>1, SMT
<1>4. \A i \in 1 .. n - 1 : SubSeq(q, 1, n - 1)[i] = q[i]
  BY <1>1, SMT
<1>. QED BY <1>1, <1>2, <1>3, <1>4

(* A return: the frame that waited runs on.                                 *)
LEMMA ReturnStep ==
  ASSUME ArenaInv, NEW r \in 0 .. MaxRegs, Return(r)
  PROVE  ArenaInv'
<1> DEFINE n == Len(calls)
           f == calls[n]
           out == Restored(arena, f)
           base == [past.base EXCEPT !.frame = IF past.base.frame = Here THEN 0 ELSE past.base.frame]
<1>1. /\ calls # <<>> /\ Typed(out) /\ Bears(out, arena') /\ status' \in Statuses
  BY ReturnBears
<1>2. /\ calls' = Front(calls)
      /\ past' = [past EXCEPT !.leaked = Front(past.leaked), !.loose = past.loose \ {Here},
                              !.grown = past.grown \ {Here},
                              !.base.frame = IF past.base.frame = Here THEN 0 ELSE past.base.frame]
  BY DEF Return
<1>3. TypesOK /\ Typed(arena) /\ calls \in Seq(CallFrames) /\ past \in Pasts
      /\ past.leaked \in Seq(Nat) /\ Len(past.leaked) = Here
      /\ past.loose \union past.grown \subseteq 1 .. Here /\ past.base.frame \in 0 .. Here
  BY DEF ArenaInv, TypesOK, Pasts
<1>4. n \in Nat \ {0} /\ Here = n + 1 /\ Here \in Nat /\ n \in 1 .. n
      /\ Here \notin 1 .. n /\ 1 .. Here = (1 .. n) \union {Here} /\ 0 .. Here = (0 .. n) \union {Here}
      /\ 0 \in 0 .. n /\ 0 \notin 1 .. n
  BY <1>1, <1>3, SMT DEF Here
<1>5. /\ calls' \in Seq(CallFrames) /\ Len(calls') = n - 1
      /\ \A i \in 1 .. n - 1 : calls'[i] = calls[i]
  <2>1. calls \in Seq(CallFrames) /\ n \in Nat \ {0} /\ Len(calls) = n
    BY <1>3, <1>4
  <2> HIDE DEF n
  <2>. QED BY <1>2, <2>1, FrontIs
<1>6. Here' = n
  BY <1>4, <1>5, SMT DEF Here
<1>7. \A i \in 1 .. n - 1 : i \in 1 .. n /\ i # n
  BY <1>4, SMT
<1>8. /\ Front(past.leaked) \in Seq(Nat) /\ Len(Front(past.leaked)) = n
      /\ \A i \in 1 .. n : Front(past.leaked)[i] = past.leaked[i] /\ past.leaked[i] \in Nat
  BY <1>3, <1>4, SMTT(30) DEF Front
<1>9. base \in Frozen /\ base.sum = past.base.sum /\ base.frame \in 0 .. n
      /\ \A i \in 1 .. n : base.frame = i => past.base.frame = i
  BY <1>3, <1>4 DEF Pasts, Frozen
<1>10. past' = [past EXCEPT !.leaked = Front(past.leaked), !.loose = past.loose \ {Here},
                            !.grown = past.grown \ {Here}, !.base = base]
  BY <1>2, <1>3 DEF Pasts
<1> DEFINE leaked == Front(past.leaked)
<1> HIDE DEF base, leaked
<1>11. /\ past'.leaked = leaked /\ past'.base = base
       /\ past'.loose = past.loose \ {Here} /\ past'.grown = past.grown \ {Here} /\ past' \in Pasts
  BY <1>3, <1>8, <1>9, <1>10 DEF Pasts, leaked
<1>12. \A i \in 1 .. n : /\ i \in past'.loose <=> i \in past.loose
                         /\ i \in past'.grown <=> i \in past.grown
                         /\ past'.leaked[i] = past.leaked[i]
  BY <1>4, <1>8, <1>11 DEF leaked
<1> HIDE DEF n
<1>13. /\ f \in CallFrames /\ f.timed \subseteq DOMAIN f.regs /\ Waits(n)
  BY <1>3, <1>4 DEF ArenaInv, TypesOK, n
<1> HIDE DEF f
<1>14. /\ out.regs = f.regs /\ out.used = f.used
       /\ out.baseUsed = arena.baseUsed /\ out.baseRegs = arena.baseRegs
       /\ Held(out) = Held(f) /\ Total(out) = Total(f)
  BY <1>3, <1>13, RestoredIs
<1> HIDE DEF out
<1>15. /\ Typed(arena') /\ arena'.baseUsed = arena.baseUsed /\ arena'.baseRegs = arena.baseRegs
  BY <1>1, <1>14 DEF Bears, Keeps
<1>16. TypesOK'
  <2>1. \A i \in 1 .. Len(calls') : calls'[i].timed \subseteq DOMAIN calls'[i].regs
    BY <1>3, <1>5, <1>7 DEF TypesOK, n
  <2>2. past'.loose \union past'.grown \subseteq 1 .. Here'
    BY <1>3, <1>4, <1>6, <1>11
  <2>3. Len(past'.leaked) = Here' /\ past'.base.frame \in 0 .. Here'
    BY <1>6, <1>8, <1>9, <1>11 DEF leaked
  <2>. QED BY <1>1, <1>5, <1>11, <1>15, <2>1, <2>2, <2>3 DEF TypesOK
<1>17. ASSUME NEW i \in 1 .. Len(calls') PROVE Waits(i)'
  <2>1. i \in 1 .. n /\ calls'[i] = calls[i] /\ i \in 1 .. Len(calls)
    BY <1>5, <1>7 DEF n
  <2>2. Waits(i)
    BY <2>1 DEF ArenaInv
  <2>3. past'.base.frame = i => past.base.frame = i
    BY <1>9, <1>11, <2>1
  <2>. QED BY <1>12, <1>15, <2>1, <2>2, <2>3 DEF Waits
<1>18. ASSUME NEW i \in 1 .. Here', past'.base.frame = i PROVE Marked(i)'
  <2>1. i \in 1 .. n /\ i \in 1 .. Here /\ past.base.frame = i /\ past'.base.sum = past.base.sum
    BY <1>4, <1>6, <1>9, <1>11, <1>18
  <2>2. Marked(i)
    BY <2>1 DEF ArenaInv
  <2>. QED BY <1>12, <1>15, <2>1, <2>2 DEF Marked
<1>19. True(arena, {})'
  <2>1. Loosened({})' <=> n \in past.loose
    BY <1>4, <1>6, <1>12 DEF Loosened
  <2>2. /\ Typed(arena') /\ Keeps(out, arena')
        /\ Held(arena') <= Held(out) \/ (Covers(out) => Held(arena') <= Capacity)
    BY <1>1, <1>15 DEF Bears
  <2>3. /\ Held(arena') \in Int /\ Held(out) \in Int /\ Capacity \in Nat
        /\ Len(arena'.regs) \in Nat /\ Len(out.regs) \in Nat /\ arena.baseRegs \in Nat
        /\ past.leaked[n] \in Nat
    <3>1. \A a : Typed(a) => Held(a) \in Int /\ Len(a.regs) \in Nat /\ a.baseRegs \in Nat
      BY TypedIs DEF Held
    <3>. QED BY <1>1, <1>3, <1>4, <1>8, <1>15, <3>1, ArenaAssumption
  <2>4. past'.base.frame = Here' => Len(arena'.regs) >= arena'.baseRegs
    <3> SUFFICES ASSUME past'.base.frame = n PROVE Len(arena'.regs) >= arena.baseRegs
      BY <1>6, <1>15
    <3>1. past.base.frame = n
      BY <1>4, <1>9, <1>11
    <3>2. Len(out.regs) >= arena.baseRegs
      BY <1>13, <1>14, <3>1 DEF Waits, f
    <3>3. Len(arena'.regs) >= Len(out.regs)
      BY <2>2 DEF Keeps
    <3>. QED BY <2>3, <3>2, <3>3, SMT
  <2>5. ASSUME n \notin past.loose
        PROVE  /\ Covers(arena') /\ Within(arena', past.leaked[n])
               /\ n \notin past.grown => Held(arena') <= Capacity
    <3>1. Covers(out) /\ Within(out, past.leaked[n]) /\ (n \notin past.grown => Held(out) <= Capacity)
      BY <1>13, <1>14, <2>5 DEF Waits, Covers, Within, f
    <3>2. Covers(arena') /\ Within(arena', past.leaked[n])
      BY <2>2, <2>3, <3>1 DEF Keeps
    <3>3. n \notin past.grown => Held(arena') <= Capacity
      BY <2>2, <2>3, <3>1, SMT
    <3>. QED BY <3>2, <3>3
  <2>6. past'.leaked[Here'] = past.leaked[n] /\ (Here' \in past'.grown <=> n \in past.grown)
    BY <1>4, <1>6, <1>12
  <2>. QED BY <1>15, <2>1, <2>4, <2>5, <2>6 DEF True, Covered
<1>. QED BY <1>16, <1>17, <1>18, <1>19 DEF ArenaInv, True
-----------------------------------------------------------------------------

(* Every step of the system keeps the invariant, a stutter too.             *)
LEMMA NextInv == ArenaInv /\ [Next]_vars => ArenaInv'
<1> SUFFICES ASSUME ArenaInv, [Next]_vars PROVE ArenaInv'
  OBVIOUS
<1>1. ASSUME NEW r \in 1 .. MaxRegs, NEW s \in {Number, NewStruct}, NEW timed \in BOOLEAN,
             Write(r, s, timed)
      PROVE  ArenaInv'
  BY <1>1, WriteKeeps
<1>2. ASSUME NEW r \in 1 .. MaxRegs, Consume(r) \/ Decay(r) \/ EndLease(r) PROVE ArenaInv'
  BY <1>2, ConsumeStep, DecayStep, EndLeaseStep
<1>3. ASSUME NEW r \in 1 .. MaxRegs, NEW x \in Fields, ConsumeField(r, x) \/ UpdateField(r, x)
      PROVE  ArenaInv'
  BY <1>3, ConsumeFieldStep, UpdateFieldStep
<1>4. ASSUME NEW r \in 1 .. MaxRegs, NEW view \in 1 .. MaxRegs, Lease(view, r) PROVE ArenaInv'
  BY <1>4, LeaseStep
<1>5. ASSUME NEW r \in 1 .. MaxRegs, NEW mode \in Modes, NEW dest \in 1 .. MaxRegs, Call(mode, r, dest)
      PROVE  ArenaInv'
  BY <1>5, CallStep
<1>6. ASSUME NEW r \in 0 .. MaxRegs, Return(r) \/ RootReturn(r) PROVE ArenaInv'
  BY <1>6, ReturnStep, RootReturnStep
<1>7. CASE Freeze \/ Reset
  BY <1>7, FreezeStep, ResetStep
<1>8. CASE UNCHANGED vars
  BY <1>8 DEF vars, ArenaInv, TypesOK, Waits, Marked, Covered, True, Loosened, Off, Here
<1>. QED BY <1>1, <1>2, <1>3, <1>4, <1>5, <1>6, <1>7, <1>8 DEF Next

(* The inductive invariant holds of every run, for any number of registers, *)
(* any capacity, any depth of calls and any set of policies.                *)
THEOREM Invariance == Spec => []ArenaInv
<1>. QED BY ArenaInit, NextInv, PTL DEF Spec

-----------------------------------------------------------------------------
(* What the runs check follows from it                                      *)

(* What a frame counts and what it holds, in the terms of the invariant.    *)
LEMMA FrameKeeps ==
  ASSUME ArenaInv, NEW i \in Frames
  PROVE  /\ i \notin past.loose => Live(i) <= Count(i)
         /\ i \notin past.loose /\ status # "fault" => Count(i) <= Sum(i) + past.leaked[i]
         /\ i \notin past.loose \union past.grown => Live(i) <= Capacity
<1>1. TypesOK
  BY DEF ArenaInv
<1>2. CASE i = Here
  <2>1. Count(i) = arena.used /\ Sum(i) = Total(arena) /\ Live(i) = Held(arena)
    BY <1>2 DEF Count, Sum, Live, Registers, Held, Total
  <2>2. Loosened({}) <=> i \in past.loose
    BY <1>2 DEF Loosened
  <2>. QED BY <1>2, <2>1, <2>2 DEF ArenaInv, True, Covered, Covers, Within
<1>3. CASE i # Here
  <2>1. i \in 1 .. Len(calls)
    BY <1>1, <1>3, FramesAre DEF Frames
  <2>2. Waits(i)
    BY <2>1 DEF ArenaInv
  <2>3. Count(i) = calls[i].used /\ Sum(i) = Total(calls[i]) /\ Live(i) = Held(calls[i])
    BY <1>3 DEF Count, Sum, Live, Registers, Held, Total
  <2>. QED BY <2>2, <2>3 DEF Waits, Covers, Within
<1>. QED BY <1>2, <1>3

(* The variables have their types: registers with metadata are there, and   *)
(* each frame has its place in the history.                                 *)
THEOREM TypeCorrect == Spec => []TypeOK
<1>1. ArenaInv => TypeOK
  BY DEF ArenaInv, TypesOK, TypeOK, Typed, Arenas, Statuses, Here
<1>. QED BY <1>1, Invariance, PTL

(* The count of bytes in use is true, in the frame that runs and in every   *)
(* frame that waits.                                                        *)
THEOREM CountTrue == Spec => []CountIsTrue
<1>1. ArenaInv => CountIsTrue
  BY FrameKeeps DEF CountIsTrue
<1>. QED BY <1>1, Invariance, PTL

(* What a frame holds fits the capacity, after a fault as before.           *)
THEOREM WithinCapacity == Spec => []LiveWithinCapacity
<1>1. ArenaInv => LiveWithinCapacity
  BY FrameKeeps DEF LiveWithinCapacity
<1>. QED BY <1>1, Invariance, PTL
=============================================================================
