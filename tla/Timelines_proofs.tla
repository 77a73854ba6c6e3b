-------------------------- MODULE Timelines_proofs --------------------------
(* Proofs about Timelines, for any registers, names and reconcile clauses:  *)
(* entangled values are used once, and a priority rule prevails.  A value   *)
(* that was never leased stays in its register, whatever timeline it is     *)
(* copied to, and the slots of the values of a bond stay linked in every    *)
(* timeline there is, because a split puts the child beside its parent.     *)
EXTENDS Timelines, WellFoundedInduction, TLAPS

-----------------------------------------------------------------------------
(* The invariant                                                           *)

Vals == 1 .. MaxValues
Left == {Consumed, Decayed}
Snapshots == [regs : Registers, block : 0 .. MaxBlocks]

(* a timeline: its registers and its anchors                               *)
LineOK(line) ==
  /\ DOMAIN line = {"regs", "anchors"}
  /\ line.regs \in Registers
  /\ DOMAIN line.anchors \subseteq AnchorNames
  /\ \A a \in DOMAIN line.anchors : line.anchors[a] \in Snapshots
Shaped(lines) ==
  Main \in DOMAIN lines /\ DOMAIN lines \subseteq Names /\ \A b \in DOMAIN lines : LineOK(lines[b])

(* a timeline, or a snapshot of one, has the state s in the register r     *)
Now(lines, r, s) == \E b \in DOMAIN lines : lines[b].regs[r] = s
Saved(lines, r, s) ==
  \E b \in DOMAIN lines : \E a \in DOMAIN lines[b].anchors : lines[b].anchors[a].regs[r] = s
Kept(lines, r, s) == Now(lines, r, s) \/ Saved(lines, r, s)
Has(lines, r, v) == \E s \in States : s.val = v /\ Kept(lines, r, s)

(* every set of slots with s that is closed under the entanglement sets    *)
(* has q                                                                   *)
Closed(es, S) == \A i \in DOMAIN es : es[i] \cap S # {} => es[i] \subseteq S
Linked(es, s, q) == \A S \in SUBSET Slots : s \in S /\ Closed(es, S) => q \in S

(* a value is in one register, the same in every timeline and snapshot     *)
AtHome(lines, lost) ==
  \A v \in Vals \ lost : \A r, q \in Regs : Has(lines, r, v) /\ Has(lines, q, v) => r = q
(* what is leased was lent                                                 *)
LeasesKnown(lines, lost) ==
  \A r \in Regs, s \in States : s.st = "LeasedValid" /\ Kept(lines, r, s) => s.val \in lost
(* the registers that the values of a bond are in are linked, in Main and  *)
(* in every other timeline                                                 *)
Tied(lines, es, B, lost) ==
  \A u, v \in B \ lost : \A r, q \in Regs :
    Has(lines, r, u) /\ Has(lines, q, v) => Linked(es, <<Main, r>>, <<Main, q>>)
Spread(lines, es, B, lost) ==
  \A u \in B \ lost : \A r \in Regs : Has(lines, r, u) =>
    \A c \in DOMAIN lines : /\ Linked(es, <<Main, r>>, <<c, r>>)
                            /\ \E i \in DOMAIN es : <<c, r>> \in es[i]
UsedOnce(lines, used) ==
  \A r \in Regs, s \in States : s.st = "Valid" /\ Now(lines, r, s) => s.val \notin used

Booked ==
  /\ entanglements \in Seq(SUBSET Slots)
  /\ running \in Names /\ (fault = "none" => running \in Active)
  /\ block \in 0 .. MaxBlocks /\ values \in 0 .. MaxValues
  /\ spent \subseteq Bonded /\ revived \subseteq spent
  /\ Bonded \cup (lent \ {0}) \subseteq 1 .. values
Placed ==
  /\ AtHome(timeline, lent) /\ LeasesKnown(timeline, lent)
  /\ \A r \in Regs, v \in Vals : Has(timeline, r, v) => v <= values
Bound ==
  \A B \in bonds : Tied(timeline, entanglements, B, lent) /\ Spread(timeline, entanglements, B, lent)
Once == UsedOnce(timeline, spent \ (lent \cup revived))

TimelinesInv == Shaped(timeline) /\ Booked /\ Placed /\ Bound /\ Once

-----------------------------------------------------------------------------
(* Links                                                                   *)

(* What is linked to a slot is linked to what that is linked to.           *)
LEMMA LinkedTwice ==
  ASSUME NEW es, NEW s, NEW q, NEW t, Linked(es, s, q), Linked(es, q, t)
  PROVE  Linked(es, s, t)
BY DEF Linked

(* Links go both ways: what is outside a closed set is closed too.         *)
LEMMA LinkedBack ==
  ASSUME NEW es, \A i \in DOMAIN es : es[i] \subseteq Slots,
         NEW s \in Slots, NEW q \in Slots, Linked(es, s, q)
  PROVE  Linked(es, q, s)
<1> SUFFICES ASSUME NEW S \in SUBSET Slots, q \in S, Closed(es, S), s \notin S
             PROVE  FALSE
  BY DEF Linked
<1> DEFINE T == Slots \ S
<1>1. Closed(es, T)
  BY DEF Closed
<1>2. s \in T /\ T \in SUBSET Slots
  OBVIOUS
<1>3. q \in T
  BY <1>1, <1>2 DEF Linked
<1> QED BY <1>3

(* Two slots of one set are linked.                                        *)
LEMMA LinkedBeside ==
  ASSUME NEW es, NEW i \in DOMAIN es, NEW s \in es[i], NEW q \in es[i]
  PROVE  Linked(es, s, q)
BY DEF Linked, Closed

(* Sets only grow.                                                         *)
Grows(es, fs) == DOMAIN es \subseteq DOMAIN fs /\ \A i \in DOMAIN es : es[i] \subseteq fs[i]

(* What is linked stays linked when sets grow.                             *)
LEMMA LinkedStill ==
  ASSUME NEW es, NEW fs, Grows(es, fs), NEW s, NEW q, Linked(es, s, q)
  PROVE  Linked(fs, s, q)
<1>1. \A S : Closed(fs, S) => Closed(es, S)
  BY DEF Closed, Grows
<1> QED BY <1>1 DEF Linked

(* Reached is what is linked.                                              *)
LEMMA ReachedIs ==
  ASSUME NEW s, NEW q \in Slots
  PROVE  q \in Reached(s) <=> Linked(entanglements, s, q)
<1>1. \A S : (\A g \in ToSet(entanglements) : g \cap S # {} => g \subseteq S)
               <=> Closed(entanglements, S)
  BY DEF ToSet, Closed
<1> QED BY <1>1 DEF Reached, Linked

-----------------------------------------------------------------------------
(* States of registers                                                     *)

(* What there is to know of a state.                                       *)
StateOK(s) ==
  /\ s.val \in Vals \cup {0} /\ (s.val \in Vals <=> s.st \in {"Valid", "LeasedValid"})
  /\ s.st = "Valid" => s = Valid(s.val)
  /\ s.st = "Decayed" => s = Decayed
  /\ s.st \in {"Valid", "Decayed"} =>
       Leased(s) \in States /\ Leased(s).val = s.val /\ Leased(s).st # "Valid"
  /\ Original(s) \in States /\ Original(s).st # "LeasedValid"
  /\ IF s.st = "LeasedValid" THEN Original(s) = Valid(s.val) ELSE Original(s) = Decayed

(* The states there are, and their values.                                 *)
LEMMA StatesAre ==
  /\ Left \subseteq States /\ ~(0 \in Vals)
  /\ \A s \in States : StateOK(s)
  /\ \A s \in Left : s.val = 0 /\ s.st # "Valid" /\ s.st # "LeasedValid"
  /\ \A v \in Vals : Valid(v) \in States /\ Valid(v).st = "Valid" /\ Valid(v).val = v
<1>1. MaxValues \in Nat
  BY TimelinesAssumption
<1>2. ~(0 \in Vals)
  BY <1>1, SMT DEF Vals
<1>3. States = {Consumed, Decayed, Leased(Decayed)}
                \cup {Valid(v) : v \in Vals} \cup {Leased(Valid(v)) : v \in Vals}
  BY DEF States, Vals
<1> HIDE DEF Vals
<1>4. Leased(Decayed) = [st |-> "LeasedDecayed", val |-> 0]
  BY DEF Leased, Decayed
<1>5. \A v : Leased(Valid(v)) = [st |-> "LeasedValid", val |-> v]
  BY DEF Leased, Valid
<1>6. StateOK(Consumed)
  BY <1>2, <1>3 DEF StateOK, Consumed, Valid, Decayed, Original
<1>7. StateOK(Decayed)
  BY <1>2, <1>3, <1>4 DEF StateOK, Consumed, Valid, Decayed, Original
<1>8. StateOK(Leased(Decayed))
  BY <1>2, <1>3, <1>4 DEF StateOK, Consumed, Valid, Decayed, Original
<1>9. ASSUME NEW v \in Vals PROVE StateOK(Valid(v)) /\ StateOK(Leased(Valid(v)))
  <2>1. /\ Valid(v) = [st |-> "Valid", val |-> v] /\ Leased(Valid(v)) = [st |-> "LeasedValid", val |-> v]
        /\ Valid(v) \in States /\ Leased(Valid(v)) \in States /\ Decayed \in States
    BY <1>3, <1>5 DEF Valid
  <2>2. Original(Valid(v)) = Decayed /\ Original(Leased(Valid(v))) = Valid(v)
    BY <2>1 DEF Original
  <2>3. Decayed.st = "Decayed"
    BY DEF Decayed
  <2> QED BY <1>2, <2>1, <2>2, <2>3 DEF StateOK
<1>10. \A s \in States : StateOK(s)
  BY <1>3, <1>6, <1>7, <1>8, <1>9
<1>11. \A s \in Left : s.val = 0 /\ s.st # "Valid" /\ s.st # "LeasedValid"
  BY DEF Left, Consumed, Decayed
<1>12. \A v \in Vals : Valid(v) \in States /\ Valid(v).st = "Valid" /\ Valid(v).val = v
  BY <1>3 DEF Valid
<1> QED BY <1>2, <1>3, <1>10, <1>11, <1>12 DEF Left
-----------------------------------------------------------------------------
(* Steps that move states about                                            *)

(* Steps after which a value that was never leased is where it was, but    *)
(* for one that is new, keep what is said of places and links.             *)
LEMMA Stays ==
  ASSUME TimelinesInv, Booked', NEW d \in Regs \cup {Main}, values' \in {values, values + 1},
         \A q \in Regs, v \in Vals \ lent' :
            Has(timeline', q, v) => Has(timeline, q, v) \/ (q = d /\ v = values' /\ values' # values),
         \A q \in Regs, v \in Vals : Has(timeline', q, v) => v <= values',
         LeasesKnown(timeline', lent'),
         Active' \subseteq Active, Grows(entanglements, entanglements'),
         bonds' = bonds, lent \subseteq lent'
  PROVE  Placed' /\ Bound'
<1>1. values \in Nat /\ Bonded \cup (lent \ {0}) \subseteq 1 .. values
  BY DEF TimelinesInv, Booked
<1>2. \A v \in Vals : v <= values => v # values + 1
  BY <1>1, SMT DEF Vals
<1>3. \A q \in Regs, v \in Vals : Has(timeline, q, v) => v <= values
  BY DEF TimelinesInv, Placed
<1>4. AtHome(timeline, lent) /\ Bound
  BY DEF TimelinesInv, Placed
<1>5. ASSUME NEW v \in Vals \ lent', NEW r \in Regs, NEW q \in Regs,
             Has(timeline', r, v), Has(timeline', q, v)
      PROVE  r = q
  BY <1>2, <1>3, <1>4, <1>5 DEF AtHome
<1>6. \A B \in bonds : \A u \in B : u \in Vals /\ u <= values
  <2>1. \A u \in 1 .. values : u \in 1 .. MaxValues /\ u <= values
    BY <1>1, TimelinesAssumption, SMT DEF TimelinesInv, Booked
  <2> QED BY <1>1, <2>1 DEF Bonded, Vals
<1>7. \A B \in bonds : \A u \in B \ lent' : \A r \in Regs :
         Has(timeline', r, u) => Has(timeline, r, u)
  BY <1>2, <1>6
<1>8. ASSUME NEW B \in bonds' PROVE Tied(timeline', entanglements', B, lent')
  <2>1. Tied(timeline, entanglements, B, lent)
    BY <1>4 DEF Bound
  <2> QED BY <1>7, <2>1, LinkedStill DEF Tied
<1>9. ASSUME NEW B \in bonds' PROVE Spread(timeline', entanglements', B, lent')
  <2>1. Spread(timeline, entanglements, B, lent)
    BY <1>4 DEF Bound
  <2>2. ASSUME NEW u \in B \ lent', NEW r \in Regs, Has(timeline', r, u), NEW c \in Active'
        PROVE  /\ Linked(entanglements', <<Main, r>>, <<c, r>>)
               /\ \E i \in DOMAIN entanglements' : <<c, r>> \in entanglements'[i]
    <3>1. /\ Linked(entanglements, <<Main, r>>, <<c, r>>)
          /\ \E i \in DOMAIN entanglements : <<c, r>> \in entanglements[i]
      BY <1>7, <2>1, <2>2 DEF Spread, Active
    <3> QED BY <3>1, LinkedStill DEF Grows
  <2> QED BY <2>2 DEF Spread, Active
<1> QED BY <1>5, <1>8, <1>9 DEF Placed, Bound, AtHome

(* Copies in the same register, and states of no value, are such steps.    *)
LEMMA CopiesStay ==
  ASSUME TimelinesInv, Booked', NEW d \in Regs \cup {Main}, values' \in {values, values + 1},
         \A q \in Regs, s \in States :
            Kept(timeline', q, s) =>
              s \in Left \/ Kept(timeline, q, s) \/ (q = d /\ s = Valid(values') /\ values' # values),
         Active' \subseteq Active, Grows(entanglements, entanglements'),
         bonds' = bonds, lent \subseteq lent'
  PROVE  Placed' /\ Bound'
<1>1. /\ \A q \in Regs, v \in Vals : Has(timeline, q, v) => v <= values
      /\ LeasesKnown(timeline, lent)
  BY DEF TimelinesInv, Placed
<1>2. values \in Nat /\ values' \in Nat /\ values' \in 0 .. MaxValues
  BY DEF TimelinesInv, Booked
<1>3. \A v \in Vals : v <= values => v <= values'
  BY <1>2, SMT DEF Vals
<1>4. values' # values => values' \in Vals /\ values' <= values'
  BY <1>2, SMT DEF Vals
<1>5. values' # values => Valid(values').val = values' /\ Valid(values').st # "LeasedValid"
  BY DEF Valid
<1>6. ASSUME NEW q \in Regs, NEW v \in Vals, Has(timeline', q, v)
      PROVE  Has(timeline, q, v) \/ (q = d /\ v = values' /\ values' # values)
  <2>1. PICK s \in States : s.val = v /\ Kept(timeline', q, s)
    BY <1>6 DEF Has
  <2>2. s \notin Left
    BY <2>1, StatesAre
  <2> QED BY <1>5, <2>1, <2>2 DEF Has
<1>7. \A q \in Regs, v \in Vals : Has(timeline', q, v) => v <= values'
  BY <1>1, <1>3, <1>4, <1>6
<1>8. LeasesKnown(timeline', lent')
  BY <1>1, <1>5, StatesAre DEF LeasesKnown
<1> QED BY <1>6, <1>7, <1>8, Stays

(* No value becomes whole again.                                           *)
LEMMA OnceStill ==
  ASSUME TimelinesInv, spent' = spent, lent \subseteq lent', revived \subseteq revived',
         \A r \in Regs, s \in States : s.st = "Valid" /\ Now(timeline', r, s) =>
            \/ Now(timeline, r, s)
            \/ s.val \notin spent \ (lent' \cup revived')
  PROVE  Once'
BY DEF TimelinesInv, Once, UsedOnce
-----------------------------------------------------------------------------
(* Writing to timelines                                                    *)

(* Other registers, or other anchors, leave a timeline one.                *)
LEMMA LineIs ==
  ASSUME NEW line, LineOK(line)
  PROVE  /\ \A regs \in Registers :
              /\ LineOK([line EXCEPT !.regs = regs])
              /\ [line EXCEPT !.regs = regs].regs = regs
              /\ [line EXCEPT !.regs = regs].anchors = line.anchors
         /\ \A anchors :
              /\ [line EXCEPT !.anchors = anchors].regs = line.regs
              /\ [line EXCEPT !.anchors = anchors].anchors = anchors
              /\ DOMAIN [line EXCEPT !.anchors = anchors] = {"regs", "anchors"}
BY DEF LineOK

Swapped(lines, b, line) == [lines EXCEPT ![b] = line]

(* Where the states of a timeline that is replaced come from.              *)
LEMMA Replaced ==
  ASSUME NEW lines, Shaped(lines), NEW b \in DOMAIN lines, NEW line, LineOK(line)
  PROVE  /\ Shaped(Swapped(lines, b, line)) /\ DOMAIN Swapped(lines, b, line) = DOMAIN lines
         /\ Swapped(lines, b, line)[b] = line
         /\ \A c \in DOMAIN lines \ {b} : Swapped(lines, b, line)[c] = lines[c]
         /\ line.anchors = lines[b].anchors =>
              \A q, s : Saved(Swapped(lines, b, line), q, s) => Saved(lines, q, s)
<1> DEFINE new == Swapped(lines, b, line)
<1>1. /\ DOMAIN new = DOMAIN lines
      /\ new[b] = line /\ \A c \in DOMAIN lines \ {b} : new[c] = lines[c]
  BY DEF Swapped
<1> HIDE DEF new
<1>2. Shaped(new)
  BY <1>1 DEF Shaped
<1>3. ASSUME line.anchors = lines[b].anchors, NEW q, NEW s, Saved(new, q, s)
      PROVE  Saved(lines, q, s)
  <2>1. \A c \in DOMAIN lines : new[c].anchors = lines[c].anchors
    BY <1>1, <1>3
  <2> QED BY <1>1, <1>3, <2>1 DEF Saved
<1> QED BY <1>1, <1>2, <1>3 DEF new

WrittenTo(lines, b, r, s) == [lines EXCEPT ![b].regs[r] = s]
WriteOK(lines, b, r, s, new) ==
  /\ Shaped(new) /\ DOMAIN new = DOMAIN lines
  /\ new[b].regs = [lines[b].regs EXCEPT ![r] = s]
  /\ \A q \in Regs : \A x : Now(new, q, x) => Now(lines, q, x) \/ (q = r /\ x = s)
  /\ \A q \in Regs : \A x : Saved(new, q, x) => Saved(lines, q, x)

(* A state written in a register.                                          *)
LEMMA Written ==
  ASSUME NEW lines, Shaped(lines), NEW b \in DOMAIN lines, NEW r \in Regs, NEW s \in States
  PROVE  WriteOK(lines, b, r, s, WrittenTo(lines, b, r, s))
<1> DEFINE new == WrittenTo(lines, b, r, s)
<1> DEFINE regs == [lines[b].regs EXCEPT ![r] = s]
           line == [lines[b] EXCEPT !.regs = regs]
<1>1. LineOK(lines[b])
  BY DEF Shaped
<1>2. regs \in Registers
  BY <1>1 DEF LineOK, Registers
<1>3. new = Swapped(lines, b, line)
  BY DEF Swapped, WrittenTo
<1>4. \A q \in Regs : regs[q] = IF q = r THEN s ELSE lines[b].regs[q]
  BY <1>1 DEF LineOK, Registers
<1> HIDE DEF regs
<1>5. LineOK(line) /\ line.regs = regs /\ line.anchors = lines[b].anchors
  BY <1>1, <1>2, LineIs
<1> HIDE DEF line, new
<1>6. /\ Shaped(new) /\ DOMAIN new = DOMAIN lines /\ new[b] = line
      /\ \A c \in DOMAIN lines \ {b} : new[c] = lines[c]
      /\ \A q, x : Saved(new, q, x) => Saved(lines, q, x)
  <2>1. /\ Shaped(Swapped(lines, b, line)) /\ DOMAIN Swapped(lines, b, line) = DOMAIN lines
        /\ Swapped(lines, b, line)[b] = line
        /\ \A c \in DOMAIN lines \ {b} : Swapped(lines, b, line)[c] = lines[c]
    BY <1>5, Replaced
  <2>2. \A q, x : Saved(Swapped(lines, b, line), q, x) => Saved(lines, q, x)
    BY <1>5, Replaced
  <2> QED BY <1>3, <2>1, <2>2
<1>7. ASSUME NEW q \in Regs, NEW x, Now(new, q, x)
      PROVE  Now(lines, q, x) \/ (q = r /\ x = s)
  <2>1. PICK c \in DOMAIN lines : new[c].regs[q] = x
    BY <1>6, <1>7 DEF Now
  <2>2. CASE c = b
    BY <1>4, <1>5, <1>6, <2>1, <2>2 DEF Now
  <2>3. CASE c # b
    BY <1>6, <2>1, <2>3 DEF Now
  <2> QED BY <2>2, <2>3
<1> QED BY <1>5, <1>6, <1>7 DEF regs, new, WriteOK

(* The same, of timelines given by their change.                           *)
LEMMA Writes ==
  ASSUME NEW lines, Shaped(lines), NEW b \in DOMAIN lines, NEW r \in Regs, NEW s \in States,
         NEW new, new = [lines EXCEPT ![b].regs[r] = s]
  PROVE  WriteOK(lines, b, r, s, new)
BY Written DEF WrittenTo

SwapOK(lines, b, regs, new) ==
  /\ Shaped(new) /\ DOMAIN new = DOMAIN lines
  /\ new[b].regs = regs /\ new[b].anchors = lines[b].anchors
  /\ \A c \in DOMAIN lines \ {b} : new[c] = lines[c]
  /\ \A q \in Regs : \A x : Now(new, q, x) => Now(lines, q, x) \/ x = regs[q]
  /\ \A q \in Regs : \A x : Saved(new, q, x) => Saved(lines, q, x)

(* All registers of a timeline replaced.                                   *)
LEMMA Swaps ==
  ASSUME NEW lines, Shaped(lines), NEW b \in DOMAIN lines, NEW regs \in Registers,
         NEW new, new = [lines EXCEPT ![b].regs = regs]
  PROVE  SwapOK(lines, b, regs, new)
<1> DEFINE line == [lines[b] EXCEPT !.regs = regs]
<1>1. new = Swapped(lines, b, line)
  BY DEF Swapped
<1>2. LineOK(line) /\ line.regs = regs /\ line.anchors = lines[b].anchors
  BY LineIs DEF Shaped
<1> HIDE DEF line
<1>3. /\ Shaped(Swapped(lines, b, line)) /\ DOMAIN Swapped(lines, b, line) = DOMAIN lines
      /\ Swapped(lines, b, line)[b] = line
      /\ \A c \in DOMAIN lines \ {b} : Swapped(lines, b, line)[c] = lines[c]
  BY <1>2, Replaced
<1>4. \A q, x : Saved(Swapped(lines, b, line), q, x) => Saved(lines, q, x)
  BY <1>2, Replaced
<1>5. ASSUME NEW q \in Regs, NEW x, Now(new, q, x)
      PROVE  Now(lines, q, x) \/ x = regs[q]
  <2>1. PICK c \in DOMAIN lines : new[c].regs[q] = x
    BY <1>1, <1>3, <1>5 DEF Now
  <2>2. c # b => new[c].regs[q] = lines[c].regs[q]
    BY <1>1, <1>3, <2>1
  <2>3. c = b => new[c].regs[q] = regs[q]
    BY <1>1, <1>2, <1>3
  <2> QED BY <2>1, <2>2, <2>3 DEF Now
<1> QED BY <1>1, <1>2, <1>3, <1>4, <1>5 DEF SwapOK

(* What is taken is left in its state, what is not stays.                  *)
LEMMA TakenIs ==
  ASSUME TimelinesInv, NEW slots, NEW left \in Left
  PROVE  /\ Shaped(Taken(slots, left)) /\ DOMAIN Taken(slots, left) = Active
         /\ \A c \in Active, q \in Regs :
              Taken(slots, left)[c].regs[q]
                = IF <<c, q>> \in slots /\ Takable(c, q) THEN left ELSE Reg(c, q)
         /\ \A q \in Regs : \A x : Now(Taken(slots, left), q, x) => x = left \/ Now(timeline, q, x)
         /\ \A q \in Regs : \A x : Saved(Taken(slots, left), q, x) => Saved(timeline, q, x)
<1> DEFINE new == Taken(slots, left)
           regs(c) == [q \in Regs |-> IF <<c, q>> \in slots /\ Takable(c, q) THEN left ELSE Reg(c, q)]
<1>1. DOMAIN new = Active /\ \A c \in Active : new[c] = [timeline[c] EXCEPT !.regs = regs(c)]
  BY DEF Taken
<1>2. Shaped(timeline) /\ \A c \in Active : LineOK(timeline[c])
  BY DEF TimelinesInv, Shaped, Active
<1>3. \A c \in Active : regs(c) \in Registers
  BY <1>2, StatesAre DEF LineOK, Registers, Reg
<1>4. \A c \in Active, q \in Regs :
         regs(c)[q] = IF <<c, q>> \in slots /\ Takable(c, q) THEN left ELSE Reg(c, q)
  OBVIOUS
<1> HIDE DEF regs, new
<1>5. \A c \in Active : LineOK(new[c]) /\ new[c].regs = regs(c) /\ new[c].anchors = timeline[c].anchors
  BY <1>1, <1>2, <1>3, LineIs
<1>6. Shaped(new)
  BY <1>1, <1>2, <1>5 DEF Shaped, Active
<1>7. ASSUME NEW q \in Regs, NEW x, Now(new, q, x) PROVE x = left \/ Now(timeline, q, x)
  <2>1. PICK c \in Active : new[c].regs[q] = x
    BY <1>1, <1>7 DEF Now
  <2>2. x = left \/ x = Reg(c, q)
    BY <1>4, <1>5, <2>1
  <2> QED BY <2>1, <2>2 DEF Now, Active, Reg
<1>8. \A q \in Regs : \A x : Saved(new, q, x) => Saved(timeline, q, x)
  BY <1>1, <1>5 DEF Saved, Active
<1> QED BY <1>1, <1>4, <1>5, <1>6, <1>7, <1>8 DEF new
-----------------------------------------------------------------------------
(* Registers                                                               *)

(* A value that is new is a value, and in no bond.                         *)
LEMMA NewValue ==
  ASSUME TimelinesInv, values < MaxValues, values' = values + 1
  PROVE  /\ values' \in Vals /\ values' \in 0 .. MaxValues /\ values' # values
         /\ Valid(values') \in States /\ Valid(values').val = values'
         /\ values' \notin Bonded /\ \A v \in 1 .. values : v \in 1 .. values'
<1>1. /\ values' \in Vals /\ values' \in 0 .. MaxValues /\ values' # values
      /\ values' \notin 1 .. values /\ \A v \in 1 .. values : v \in 1 .. values'
  BY TimelinesAssumption, SMT DEF Vals, TimelinesInv, Booked
<1>2. Bonded \subseteq 1 .. values
  BY DEF TimelinesInv, Booked
<1> QED BY <1>1, <1>2, StatesAre

(* A literal, a result, a copy.                                            *)
LEMMA LoadKeeps ==
  ASSUME TimelinesInv, NEW b \in Active, NEW r \in Regs, Load(b, r)
  PROVE  TimelinesInv'
<1>1. /\ values < MaxValues /\ values' = values + 1
      /\ timeline' = [timeline EXCEPT ![b].regs[r] = Valid(values')]
      /\ UNCHANGED <<entanglements, Control, Fates>>
  BY DEF Load
<1>2. /\ values' \in Vals /\ values' \in 0 .. MaxValues /\ values' # values
      /\ Valid(values') \in States /\ Valid(values').val = values'
      /\ values' \notin Bonded /\ \A v \in 1 .. values : v \in 1 .. values'
  BY <1>1, NewValue
<1>3. /\ Shaped(timeline') /\ Active' = Active
      /\ \A q \in Regs : \A x : Now(timeline', q, x) => Now(timeline, q, x) \/ (q = r /\ x = Valid(values'))
      /\ \A q \in Regs : \A x : Saved(timeline', q, x) => Saved(timeline, q, x)
  <2> DEFINE s == Valid(values')
  <2>1. timeline' = [timeline EXCEPT ![b].regs[r] = s] /\ s \in States
    BY <1>1, <1>2
  <2>2. Shaped(timeline) /\ b \in DOMAIN timeline
    BY DEF TimelinesInv, Active
  <2> HIDE DEF s
  <2>3. /\ Shaped(timeline') /\ DOMAIN timeline' = DOMAIN timeline
        /\ \A q \in Regs : \A x : Now(timeline', q, x) => Now(timeline, q, x) \/ (q = r /\ x = s)
        /\ \A q \in Regs : \A x : Saved(timeline', q, x) => Saved(timeline, q, x)
    <3>1. WriteOK(timeline, b, r, s, WrittenTo(timeline, b, r, s))
      BY <2>1, <2>2, Written
    <3>2. timeline' = WrittenTo(timeline, b, r, s)
      BY <2>1 DEF WrittenTo
    <3> QED BY <3>1, <3>2 DEF WriteOK
  <2> QED BY <2>3 DEF s, Active
<1>4. Booked'
  <2>1. Booked
    BY DEF TimelinesInv
  <2> QED BY <1>1, <1>2, <1>3, <2>1 DEF Booked, Bonded, Control, Fates
<1>5. bonds' = bonds /\ lent' = lent /\ spent' = spent /\ revived' = revived
      /\ Grows(entanglements, entanglements')
  BY <1>1 DEF Fates, Grows
<1>6. Placed' /\ Bound'
  <2>1. \A q \in Regs, s \in States :
            Kept(timeline', q, s) =>
              s \in Left \/ Kept(timeline, q, s) \/ (q = r /\ s = Valid(values') /\ values' # values)
    BY <1>2, <1>3 DEF Kept
  <2>2. r \in Regs \cup {Main} /\ values' \in {values, values + 1}
    BY <1>1
  <2> QED BY <1>3, <1>4, <1>5, <2>1, <2>2, CopiesStay
<1>7. Once'
  <2>1. values' \notin spent
    BY <1>2 DEF TimelinesInv, Booked
  <2> QED BY <1>2, <1>3, <1>5, <2>1, OnceStill
<1> QED BY <1>3, <1>4, <1>6, <1>7 DEF TimelinesInv

(* Everything linked to a bonded slot is taken with it.                    *)
LEMMA ConsumeKeeps ==
  ASSUME TimelinesInv, NEW b \in Active, NEW r \in Regs, NEW left \in Left, ConsumeAs(b, r, left)
  PROVE  TimelinesInv'
<1> DEFINE slots == Reached(<<b, r>>)
           F == Followed({<<b, r>>})
<1>1. /\ timeline' = Taken(slots, left)
      /\ spent' = spent \cup UNION {B \in bonds : B \cap F # {}}
      /\ UNCHANGED <<entanglements, Control, values, bonds, lent, revived, reads>>
  BY DEF ConsumeAs
<1>2. /\ Shaped(timeline') /\ Active' = Active
      /\ \A c \in Active, q \in Regs :
           timeline'[c].regs[q] = IF <<c, q>> \in slots /\ Takable(c, q) THEN left ELSE Reg(c, q)
      /\ \A q \in Regs : \A x : Now(timeline', q, x) => x = left \/ Now(timeline, q, x)
      /\ \A q \in Regs : \A x : Saved(timeline', q, x) => Saved(timeline, q, x)
  BY <1>1, TakenIs DEF Active
<1>3. Booked'
  <2>1. Booked
    BY DEF TimelinesInv
  <2> HIDE DEF F
  <2> QED BY <1>1, <1>2, <2>1 DEF Booked, Bonded, Control
<1>4. bonds' = bonds /\ lent' = lent /\ revived' = revived /\ Grows(entanglements, entanglements')
  BY <1>1 DEF Grows
<1>5. Placed' /\ Bound'
  BY <1>1, <1>2, <1>3, <1>4, CopiesStay DEF Kept
<1>6. F = IF Takable(b, r) /\ Reg(b, r).val \notin lent THEN {Reg(b, r).val} ELSE {}
  <2>1. <<b, r>>[1] = b /\ <<b, r>>[2] = r
    OBVIOUS
  <2>2. Held({<<b, r>>}) = IF Takable(b, r) THEN {Reg(b, r).val} ELSE {}
    BY <2>1 DEF Held
  <2> QED BY <2>2 DEF Followed
<1> HIDE DEF slots, F
<1>7. ASSUME NEW q \in Regs, NEW s \in States, s.st = "Valid", Now(timeline', q, s),
             s.val \in spent' \ (lent \cup revived)
      PROVE  FALSE
  <2>1. PICK c \in Active : timeline'[c].regs[q] = s
    BY <1>2, <1>7 DEF Now, Active
  <2>2. s # left
    BY <1>7, StatesAre
  <2>3. s = Reg(c, q) /\ ~(<<c, q>> \in slots /\ Takable(c, q))
    BY <1>2, <2>1, <2>2
  <2>4. <<c, q>> \notin slots
    BY <1>7, <2>3 DEF Takable
  <2>5. Now(timeline, q, s)
    BY <2>3 DEF Now, Reg, Active
  <2>6. s.val \notin spent
    BY <1>7, <2>5 DEF TimelinesInv, Once, UsedOnce
  <2>7. PICK B \in bonds : s.val \in B /\ B \cap F # {}
    BY <1>1, <1>7, <2>6
  <2>8. Takable(b, r) /\ Reg(b, r).val \in B \ lent
    BY <1>6, <2>7
  <2>9. Reg(b, r) \in States
    BY DEF TimelinesInv, Shaped, LineOK, Registers, Reg, Active
  <2>10. Has(timeline, r, Reg(b, r).val) /\ Has(timeline, q, s.val)
    BY <2>5, <2>9 DEF Has, Kept, Now, Reg, Active
  <2>11. Tied(timeline, entanglements, B, lent) /\ Spread(timeline, entanglements, B, lent)
    BY DEF TimelinesInv, Bound
  <2>12. s.val \in B \ lent
    BY <1>7, <2>7
  <2>13. Linked(entanglements, <<Main, r>>, <<Main, q>>)
    BY <2>8, <2>10, <2>11, <2>12 DEF Tied
  <2>14. Linked(entanglements, <<Main, r>>, <<b, r>>) /\ Linked(entanglements, <<Main, q>>, <<c, q>>)
    BY <2>1, <2>8, <2>10, <2>11, <2>12 DEF Spread, Active
  <2>15. /\ <<Main, r>> \in Slots /\ <<b, r>> \in Slots /\ <<c, q>> \in Slots
         /\ \A i \in DOMAIN entanglements : entanglements[i] \subseteq Slots
    BY DEF TimelinesInv, Shaped, Booked, Slots, Active
  <2>16. Linked(entanglements, <<b, r>>, <<Main, r>>)
    BY <2>14, <2>15, LinkedBack
  <2>17. Linked(entanglements, <<b, r>>, <<c, q>>)
    BY <2>13, <2>14, <2>16, LinkedTwice
  <2> QED BY <2>4, <2>15, <2>17, ReachedIs DEF slots
<1>8. Once'
  BY <1>4, <1>7 DEF Once, UsedOnce
<1> QED BY <1>2, <1>3, <1>5, <1>8 DEF TimelinesInv

(* Steps that only copy, or leave nothing, and make no value whole again.  *)
LEMMA Copies ==
  ASSUME TimelinesInv, Booked', Shaped(timeline'), values' = values,
         \A q \in Regs, s \in States : Kept(timeline', q, s) => s \in Left \/ Kept(timeline, q, s),
         Active' \subseteq Active, Grows(entanglements, entanglements'),
         bonds' = bonds, lent' = lent, spent' = spent, revived \subseteq revived',
         \A q \in Regs, s \in States : s.st = "Valid" /\ Now(timeline', q, s) =>
            \/ Now(timeline, q, s)
            \/ s.val \notin spent \ (lent' \cup revived')
  PROVE  TimelinesInv'
<1>1. Placed' /\ Bound'
  BY CopiesStay
<1>2. Once'
  BY OnceStill
<1> QED BY <1>1, <1>2 DEF TimelinesInv

(* A handler that returns an error changes nothing else.                   *)
LEMMA FailsKeeps ==
  ASSUME TimelinesInv, fault = "none", NEW error, Fails(error)
  PROVE  TimelinesInv'
<1>1. UNCHANGED <<timeline, entanglements, running, block, values, bonds, spent, lent, revived>>
  BY DEF Fails, Fates
<1> QED BY <1>1 DEF TimelinesInv, Booked, Bonded, Active, Placed, Bound, Once

(* The others of the register's sets are taken, and the field is a value   *)
(* of its own.                                                             *)
LEMMA FieldAccessKeeps ==
  ASSUME TimelinesInv, fault = "none", NEW b \in Active, NEW d \in Regs, NEW r \in Regs,
         FieldAccess(b, d, r)
  PROVE  TimelinesInv'
<1> DEFINE others == UNION {g \in ToSet(entanglements) : <<b, r>> \in g} \ {<<b, r>>}
           mid == Taken(others, Decayed)
           s == Valid(values')
<1>1. CASE Fails("MemoryFault")
  BY <1>1, FailsKeeps
<1>2. CASE /\ values < MaxValues /\ values' = values + 1
           /\ timeline' = [mid EXCEPT ![b].regs[d] = s]
           /\ UNCHANGED <<entanglements, Control, bonds, spent, lent, revived>>
  <2>1. /\ values' \in Vals /\ values' \in 0 .. MaxValues /\ values' # values
        /\ s \in States /\ s.val = values'
        /\ values' \notin Bonded /\ \A v \in 1 .. values : v \in 1 .. values'
    BY <1>2, NewValue
  <2>2. Decayed \in Left
    BY DEF Left
  <2>3. /\ Shaped(mid) /\ DOMAIN mid = Active
        /\ \A q \in Regs : \A x : Now(mid, q, x) => x = Decayed \/ Now(timeline, q, x)
        /\ \A q \in Regs : \A x : Saved(mid, q, x) => Saved(timeline, q, x)
    BY <2>2, TakenIs
  <2> HIDE DEF mid, s
  <2>4. WriteOK(mid, b, d, s, timeline')
    BY <1>2, <2>1, <2>3, Writes
  <2>5. /\ Shaped(timeline') /\ Active' = Active
        /\ \A q \in Regs : \A x : Now(timeline', q, x) =>
             x = Decayed \/ Now(timeline, q, x) \/ (q = d /\ x = s)
        /\ \A q \in Regs : \A x : Saved(timeline', q, x) => Saved(timeline, q, x)
    BY <2>3, <2>4 DEF WriteOK, Active
  <2>6. Booked'
    <3>1. Booked
      BY DEF TimelinesInv
    <3> QED BY <1>2, <2>1, <2>5, <3>1 DEF Booked, Bonded, Control
  <2>7. bonds' = bonds /\ lent' = lent /\ spent' = spent /\ revived' = revived
        /\ Grows(entanglements, entanglements')
    BY <1>2 DEF Grows
  <2>8. Placed' /\ Bound'
    <3>1. \A q \in Regs, x \in States :
              Kept(timeline', q, x) =>
                x \in Left \/ Kept(timeline, q, x) \/ (q = d /\ x = Valid(values') /\ values' # values)
      BY <2>1, <2>2, <2>5 DEF Kept, s
    <3>2. d \in Regs \cup {Main} /\ values' \in {values, values + 1}
      BY <1>2
    <3> QED BY <2>5, <2>6, <2>7, <3>1, <3>2, CopiesStay
  <2>9. Once'
    <3>1. s.val \notin spent
      BY <2>1 DEF TimelinesInv, Booked
    <3>2. Decayed.st # "Valid"
      BY DEF Decayed
    <3> QED BY <2>5, <2>7, <3>1, <3>2, OnceStill
  <2> QED BY <2>5, <2>6, <2>8, <2>9 DEF TimelinesInv
<1> QED BY <1>1, <1>2 DEF FieldAccess
-----------------------------------------------------------------------------
(* Leases                                                                  *)

(* A register's state is a state, and its value is kept.                   *)
LEMMA RegIs ==
  ASSUME TimelinesInv, NEW b \in Active, NEW r \in Regs
  PROVE  /\ Reg(b, r) \in States /\ StateOK(Reg(b, r)) /\ Now(timeline, r, Reg(b, r))
         /\ Kept(timeline, r, Reg(b, r)) /\ Has(timeline, r, Reg(b, r).val)
         /\ Reg(b, r).val \in Vals => Reg(b, r).val <= values /\ Reg(b, r).val \in 1 .. values
<1>1. Reg(b, r) \in States
  BY DEF TimelinesInv, Shaped, LineOK, Registers, Reg, Active
<1>2. Now(timeline, r, Reg(b, r))
  BY DEF Now, Reg, Active
<1>3. Has(timeline, r, Reg(b, r).val)
  BY <1>1, <1>2 DEF Has, Kept
<1>4. Reg(b, r).val \in Vals => Reg(b, r).val <= values
  BY <1>3 DEF TimelinesInv, Placed
<1>5. Reg(b, r).val \in Vals => Reg(b, r).val \in 1 .. values
  BY <1>4, SMT DEF Vals, TimelinesInv, Booked
<1> QED BY <1>1, <1>2, <1>3, <1>4, <1>5, StatesAre DEF Kept

(* A value that is leased is followed no more.                             *)
LEMMA LeaseKeeps ==
  ASSUME TimelinesInv, fault = "none", NEW b \in Active, NEW view \in Regs, NEW src \in Regs,
         Lease(b, view, src)
  PROVE  TimelinesInv'
<1> DEFINE s == Reg(b, src)
           mid == [timeline EXCEPT ![b].regs[view] = s]
<1>1. CASE Fails("MemoryFault") \/ Fails("LeaseViolation")
  BY <1>1, FailsKeeps
<1>2. CASE /\ s.st \in {"Valid", "Decayed"}
           /\ timeline' = [timeline EXCEPT ![b].regs[view] = s, ![b].regs[src] = Leased(s)]
           /\ lent' = lent \cup {s.val}
           /\ UNCHANGED <<entanglements, Control, values, bonds, spent, revived, reads>>
  <2>1. /\ s \in States /\ StateOK(s) /\ Now(timeline, src, s) /\ Has(timeline, src, s.val)
        /\ s.val \in Vals => s.val <= values /\ s.val \in 1 .. values
    BY RegIs
  <2>2. /\ Leased(s) \in States /\ Leased(s).val = s.val /\ Leased(s).st # "Valid"
        /\ s.st # "LeasedValid" /\ s.val \in Vals \cup {0}
    BY <1>2, <2>1 DEF StateOK
  <2>3. timeline' = [mid EXCEPT ![b].regs[src] = Leased(s)]
    BY <1>2
  <2>4. Shaped(timeline) /\ b \in DOMAIN timeline
    BY DEF TimelinesInv, Active
  <2> HIDE DEF s
  <2>5. WriteOK(timeline, b, view, s, mid)
    BY <2>1, <2>4, Writes
  <2> HIDE DEF mid
  <2>6. Shaped(mid) /\ b \in DOMAIN mid
    BY <2>4, <2>5 DEF WriteOK
  <2>7. WriteOK(mid, b, src, Leased(s), timeline')
    BY <2>2, <2>3, <2>6, Writes
  <2>8. /\ Shaped(timeline') /\ Active' = Active
        /\ \A q \in Regs : \A x : Now(timeline', q, x) =>
             Now(timeline, q, x) \/ x = s \/ (q = src /\ x = Leased(s))
        /\ \A q \in Regs : \A x : Kept(timeline', q, x) =>
             Kept(timeline, q, x) \/ x = s \/ (q = src /\ x = Leased(s))
    BY <2>5, <2>7 DEF WriteOK, Active, Kept
  <2>9. Booked'
    <3>1. Booked
      BY DEF TimelinesInv
    <3>2. lent' \ {0} \subseteq 1 .. values
      BY <1>2, <2>1, <2>2, <3>1 DEF Booked
    <3> QED BY <1>2, <2>8, <3>1, <3>2 DEF Booked, Bonded, Control
  <2>10. ASSUME NEW q \in Regs, NEW v \in Vals, Has(timeline', q, v)
         PROVE  Has(timeline, q, v) \/ v = s.val
    BY <2>2, <2>8, <2>10 DEF Has
  <2>11. /\ s.val \in lent' /\ lent \subseteq lent' /\ values' = values /\ bonds' = bonds
         /\ Grows(entanglements, entanglements') /\ spent' = spent /\ revived' = revived
    BY <1>2 DEF Grows
  <2>12. Placed' /\ Bound'
    <3>1. \A q \in Regs, v \in Vals : Has(timeline', q, v) => v <= values'
      BY <2>1, <2>10, <2>11 DEF TimelinesInv, Placed
    <3>2. \A q \in Regs, v \in Vals \ lent' : Has(timeline', q, v) => Has(timeline, q, v)
      BY <2>10, <2>11
    <3>3. LeasesKnown(timeline', lent')
      BY <2>2, <2>8, <2>11 DEF LeasesKnown, TimelinesInv, Placed
    <3>4. src \in Regs \cup {Main} /\ values' \in {values, values + 1}
      BY <2>11
    <3> QED BY <2>8, <2>9, <2>11, <3>1, <3>2, <3>3, <3>4, Stays
  <2>13. Once'
    BY <2>2, <2>8, <2>11, OnceStill
  <2> QED BY <2>8, <2>9, <2>12, <2>13 DEF TimelinesInv
<1> QED BY <1>1, <1>2 DEF Lease

(* What comes back whole from a lease was lent.                            *)
LEMMA EndLeaseKeeps ==
  ASSUME TimelinesInv, fault = "none", NEW b \in Active, NEW src \in Regs, EndLease(b, src)
  PROVE  TimelinesInv'
<1> DEFINE s == Original(Reg(b, src))
<1>1. CASE Fails("LeaseViolation")
  BY <1>1, FailsKeeps
<1>2. CASE /\ timeline' = [timeline EXCEPT ![b].regs[src] = Original(@)]
           /\ UNCHANGED <<entanglements, Control, values, Fates>>
  <2>1. /\ StateOK(Reg(b, src)) /\ Reg(b, src) \in States /\ Kept(timeline, src, Reg(b, src))
        /\ Has(timeline, src, Reg(b, src).val)
    BY RegIs
  <2>2. s \in States /\ s.st # "LeasedValid"
    BY <2>1 DEF StateOK
  <2>3. \/ s \in Left
        \/ s.val \in lent /\ Has(timeline, src, s.val)
    <3>1. CASE Reg(b, src).st = "LeasedValid"
      <4>1. s = Valid(Reg(b, src).val) /\ s.val = Reg(b, src).val
        BY <2>1, <3>1 DEF StateOK, Valid
      <4>2. Reg(b, src).val \in lent
        BY <2>1, <3>1 DEF TimelinesInv, Placed, LeasesKnown
      <4> QED BY <2>1, <4>1, <4>2
    <3>2. CASE Reg(b, src).st # "LeasedValid"
      BY <2>1, <3>2 DEF StateOK, Left
    <3> QED BY <3>1, <3>2
  <2>4. timeline' = [timeline EXCEPT ![b].regs[src] = s]
    BY <1>2 DEF Reg
  <2>5. Shaped(timeline) /\ b \in DOMAIN timeline
    BY DEF TimelinesInv, Active
  <2> HIDE DEF s
  <2>6. WriteOK(timeline, b, src, s, timeline')
    BY <2>2, <2>4, <2>5, Writes
  <2>7. /\ Shaped(timeline') /\ Active' = Active
        /\ \A q \in Regs : \A x : Now(timeline', q, x) => Now(timeline, q, x) \/ x = s
        /\ \A q \in Regs : \A x : Kept(timeline', q, x) => Kept(timeline, q, x) \/ (q = src /\ x = s)
    BY <2>6 DEF WriteOK, Active, Kept
  <2>8. Booked'
    <3>1. Booked
      BY DEF TimelinesInv
    <3> QED BY <1>2, <2>7, <3>1 DEF Booked, Bonded, Control, Fates
  <2>9. /\ lent' = lent /\ values' = values /\ bonds' = bonds
        /\ Grows(entanglements, entanglements') /\ spent' = spent /\ revived' = revived
    BY <1>2 DEF Grows, Fates
  <2>10. Placed' /\ Bound'
    <3>1. \A q \in Regs, v \in Vals : Has(timeline', q, v) => Has(timeline, q, v)
      BY <2>3, <2>7, StatesAre DEF Has
    <3>2. LeasesKnown(timeline', lent')
      BY <2>2, <2>7, <2>9 DEF LeasesKnown, TimelinesInv, Placed
    <3>3. \A q \in Regs, v \in Vals : Has(timeline', q, v) => v <= values'
      BY <2>9, <3>1 DEF TimelinesInv, Placed
    <3>4. src \in Regs \cup {Main} /\ values' \in {values, values + 1}
      BY <2>9
    <3> QED BY <2>7, <2>8, <2>9, <3>1, <3>2, <3>3, <3>4, Stays
  <2>11. Once'
    BY <2>3, <2>7, <2>9, StatesAre, OnceStill
  <2> QED BY <2>7, <2>8, <2>10, <2>11 DEF TimelinesInv
<1> QED BY <1>1, <1>2 DEF EndLease
-----------------------------------------------------------------------------
(* Blocks, anchors and rewinds                                             *)

(* Entering a block only says who runs.                                    *)
LEMMA EnterBlockKeeps ==
  ASSUME TimelinesInv, fault = "none", NEW w \in Others, EnterBlock(w)
  PROVE  TimelinesInv'
<1>1. CASE Fails("BranchNotFound")
  BY <1>1, FailsKeeps
<1>2. CASE /\ w \in Active /\ block < MaxBlocks
           /\ running' = w /\ block' = block + 1
           /\ UNCHANGED <<timeline, entanglements, fault, values, Fates>>
  <2>1. block' \in 0 .. MaxBlocks /\ running' \in Names
    BY <1>2, TimelinesAssumption, SMT DEF TimelinesInv, Booked, Names
  <2> QED BY <1>2, <2>1 DEF TimelinesInv, Booked, Bonded, Active, Placed, Bound, Once, Fates
<1> QED BY <1>1, <1>2 DEF EnterBlock

(* The end of a block copies registers to the same registers of Main.      *)
LEMMA SyncedIs ==
  ASSUME NEW lines, Shaped(lines), NEW w \in DOMAIN lines
  PROVE  /\ Shaped(Synced(lines, w)) /\ DOMAIN Synced(lines, w) = DOMAIN lines
         /\ \A q \in Regs : \A x : Now(Synced(lines, w), q, x) => Now(lines, q, x)
         /\ \A q \in Regs : \A x : Saved(Synced(lines, w), q, x) => Saved(lines, q, x)
<1> DEFINE regs == [r \in Regs |-> IF lines[w].regs[r] = Consumed THEN lines[Main].regs[r]
                                   ELSE lines[w].regs[r]]
           new == Synced(lines, w)
<1>1. Main \in DOMAIN lines /\ LineOK(lines[Main]) /\ LineOK(lines[w])
  BY DEF Shaped
<1>2. regs \in Registers
  BY <1>1 DEF LineOK, Registers
<1>3. new = [lines EXCEPT ![Main].regs = regs]
  BY <1>1 DEF Synced
<1>4. \A q \in Regs : Now(lines, q, regs[q])
  BY <1>1 DEF Now
<1> HIDE DEF regs, new
<1>5. SwapOK(lines, Main, regs, new)
  BY <1>1, <1>2, <1>3, Swaps
<1> QED BY <1>4, <1>5 DEF SwapOK, new

(* Leaving a block.                                                        *)
LEMMA LeaveBlockKeeps ==
  ASSUME TimelinesInv, fault = "none", NEW w, LeaveBlock(w)
  PROVE  TimelinesInv'
<1>1. /\ timeline' = Synced(timeline, w) /\ running' = Main /\ running = w
      /\ UNCHANGED <<entanglements, block, fault, values, Fates>>
  BY DEF LeaveBlock
<1>2. w \in DOMAIN timeline /\ Shaped(timeline) /\ Main \in Active /\ Main \in Names
  BY <1>1 DEF TimelinesInv, Booked, Active, Shaped, Names
<1>3. /\ Shaped(timeline') /\ Active' = Active
      /\ \A q \in Regs : \A x : Now(timeline', q, x) => Now(timeline, q, x)
      /\ \A q \in Regs : \A x : Saved(timeline', q, x) => Saved(timeline, q, x)
  BY <1>1, <1>2, SyncedIs DEF Active
<1>4. Booked'
  <2>1. Booked
    BY DEF TimelinesInv
  <2> QED BY <1>1, <1>2, <1>3, <2>1 DEF Booked, Bonded, Fates
<1>5. /\ lent' = lent /\ values' = values /\ bonds' = bonds
      /\ Grows(entanglements, entanglements') /\ spent' = spent /\ revived' = revived
  BY <1>1 DEF Grows, Fates
<1> QED BY <1>3, <1>4, <1>5, Copies DEF Kept

(* Where a step lands, the states are those of the lines it lands with.    *)
LEMMA LandIs ==
  ASSUME NEW b \in Names, NEW blk, NEW lines, Shaped(lines), b \in DOMAIN lines, running = b,
         Land(b, blk, lines)
  PROVE  /\ Shaped(timeline') /\ Active' = DOMAIN lines /\ running' \in {b, Main}
         /\ \A q \in Regs : \A x : Now(timeline', q, x) => Now(lines, q, x)
         /\ \A q \in Regs : \A x : Saved(timeline', q, x) => Saved(lines, q, x)
<1>1. CASE timeline' = Synced(lines, b) /\ running' = Main
  BY <1>1, SyncedIs DEF Active
<1>2. CASE timeline' = lines /\ UNCHANGED running
  BY <1>2 DEF Active
<1> QED BY <1>1, <1>2 DEF Land

(* A snapshot brings back what it holds; what was spent is revived.        *)
LEMMA RestoreKeeps ==
  ASSUME TimelinesInv, fault = "none", NEW b, b = running, NEW o \in Active,
         NEW a \in DOMAIN timeline[o].anchors, Restore(b, o, a)
  PROVE  TimelinesInv'
<1> DEFINE regs == timeline[o].anchors[a].regs
           lines == [timeline EXCEPT ![o].regs = regs]
           blk == timeline[o].anchors[a].block
<1>1. /\ o = b => Land(b, blk, lines)
      /\ o # b => timeline' = lines /\ UNCHANGED running
      /\ revived' = revived \cup (spent \cap {regs[r].val : r \in Regs})
      /\ UNCHANGED <<entanglements, block, fault, values, bonds, spent, lent, reads>>
  BY DEF Restore
<1>2. Shaped(timeline) /\ o \in DOMAIN timeline /\ b \in Active /\ b \in Names /\ Main \in Active
  BY DEF TimelinesInv, Booked, Active, Shaped
<1>3. regs \in Registers
  BY <1>2 DEF Shaped, LineOK, Snapshots
<1>4. \A q \in Regs : Saved(timeline, q, regs[q])
  BY <1>2 DEF Saved
<1> HIDE DEF regs, blk
<1>5. SwapOK(timeline, o, regs, lines)
  BY <1>2, <1>3, Swaps
<1> HIDE DEF lines
<1>6. Shaped(lines) /\ DOMAIN lines = Active /\ b \in DOMAIN lines
  BY <1>2, <1>5 DEF SwapOK, Active
<1>7. /\ Shaped(timeline') /\ Active' = DOMAIN lines /\ running' \in {b, Main}
      /\ \A q \in Regs : \A x : Now(timeline', q, x) => Now(lines, q, x)
      /\ \A q \in Regs : \A x : Saved(timeline', q, x) => Saved(lines, q, x)
  <2>1. CASE o = b
    BY <1>1, <1>2, <1>6, <2>1, LandIs
  <2>2. CASE o # b
    BY <1>1, <1>6, <2>2 DEF Active
  <2> QED BY <2>1, <2>2
<1>8. /\ \A q \in Regs : \A x : Now(timeline', q, x) => Now(timeline, q, x) \/ x = regs[q]
      /\ \A q \in Regs : \A x : Saved(timeline', q, x) => Saved(timeline, q, x)
  BY <1>5, <1>7 DEF SwapOK
<1>9. \A q \in Regs, x \in States : Kept(timeline', q, x) => Kept(timeline, q, x)
  BY <1>4, <1>8 DEF Kept
<1>10. Booked'
  <2>1. Booked
    BY DEF TimelinesInv
  <2>2. running' \in Active' /\ running' \in Names
    BY <1>2, <1>6, <1>7 DEF Names
  <2> QED BY <1>1, <2>1, <2>2 DEF Booked, Bonded
<1>11. /\ lent' = lent /\ values' = values /\ bonds' = bonds /\ revived \subseteq revived'
       /\ Grows(entanglements, entanglements') /\ spent' = spent
  BY <1>1 DEF Grows
<1>12. \A q \in Regs, x \in States : x.st = "Valid" /\ Now(timeline', q, x) =>
            \/ Now(timeline, q, x)
            \/ x.val \notin spent \ (lent' \cup revived')
  BY <1>1, <1>8
<1> QED BY <1>6, <1>7, <1>9, <1>10, <1>11, <1>12, Copies

(* An anchor saves what there is.                                          *)
LEMMA AnchorKeeps ==
  ASSUME TimelinesInv, fault = "none", NEW b \in Active, NEW a \in AnchorNames, Anchor(b, a)
  PROVE  TimelinesInv'
<1> DEFINE snapshot == [regs |-> timeline[b].regs, block |-> block]
           anchors == Bind(timeline[b].anchors, a, snapshot)
           line == [timeline[b] EXCEPT !.anchors = anchors]
<1>1. timeline' = Swapped(timeline, b, line) /\ UNCHANGED <<entanglements, Control, values, Fates>>
  BY DEF Anchor, Swapped
<1>2. Shaped(timeline) /\ b \in DOMAIN timeline /\ LineOK(timeline[b])
  BY DEF TimelinesInv, Shaped, Active
<1>3. snapshot \in Snapshots /\ snapshot.regs = timeline[b].regs
  BY <1>2 DEF LineOK, Snapshots, TimelinesInv, Booked
<1> HIDE DEF snapshot
<1>4. /\ DOMAIN anchors = DOMAIN timeline[b].anchors \cup {a} /\ anchors[a] = snapshot
      /\ \A n \in DOMAIN timeline[b].anchors \ {a} : anchors[n] = timeline[b].anchors[n]
  BY DEF Bind
<1> HIDE DEF anchors
<1>5. /\ line.regs = timeline[b].regs /\ line.anchors = anchors
      /\ DOMAIN line = {"regs", "anchors"}
  BY <1>2, LineIs
<1> HIDE DEF line
<1>6. LineOK(line)
  BY <1>2, <1>3, <1>4, <1>5 DEF LineOK
<1>7. /\ Shaped(timeline') /\ DOMAIN timeline' = DOMAIN timeline /\ timeline'[b] = line
      /\ \A c \in DOMAIN timeline \ {b} : timeline'[c] = timeline[c]
  <2>1. /\ Shaped(Swapped(timeline, b, line))
        /\ DOMAIN Swapped(timeline, b, line) = DOMAIN timeline
        /\ Swapped(timeline, b, line)[b] = line
        /\ \A c \in DOMAIN timeline \ {b} : Swapped(timeline, b, line)[c] = timeline[c]
    BY <1>2, <1>6, Replaced
  <2> QED BY <1>1, <2>1
<1>8. \A q \in Regs : \A x : Now(timeline', q, x) => Now(timeline, q, x)
  BY <1>5, <1>7 DEF Now
<1>9. ASSUME NEW q \in Regs, NEW x, Saved(timeline', q, x) PROVE Kept(timeline, q, x)
  <2>0. PICK c \in DOMAIN timeline :
          \E n \in DOMAIN timeline'[c].anchors : timeline'[c].anchors[n].regs[q] = x
    BY <1>7, <1>9 DEF Saved
  <2>1. PICK n \in DOMAIN timeline'[c].anchors : timeline'[c].anchors[n].regs[q] = x
    BY <2>0
  <2>2. CASE c # b
    BY <1>7, <2>1, <2>2 DEF Kept, Saved
  <2>3. CASE c = b /\ n = a
    BY <1>2, <1>3, <1>4, <1>5, <1>7, <2>1, <2>3 DEF Kept, Now
  <2>4. CASE c = b /\ n # a
    BY <1>2, <1>4, <1>5, <1>7, <2>1, <2>4 DEF Kept, Saved
  <2> QED BY <2>2, <2>3, <2>4
<1>10. Booked'
  <2>1. Booked
    BY DEF TimelinesInv
  <2> QED BY <1>1, <1>7, <2>1 DEF Booked, Bonded, Control, Fates, Active
<1>11. /\ lent' = lent /\ values' = values /\ bonds' = bonds /\ revived' = revived
       /\ Grows(entanglements, entanglements') /\ spent' = spent /\ Active' = Active
  BY <1>1, <1>7 DEF Grows, Fates, Active
<1> QED BY <1>7, <1>8, <1>9, <1>10, <1>11, Copies DEF Kept
-----------------------------------------------------------------------------
(* Entanglement and split                                                  *)

(* A set of numbers that is not empty has a least one.                     *)
LEMMA Least ==
  ASSUME NEW T, T \subseteq Nat, T # {}
  PROVE  \E x \in T : \A y \in T : x <= y
<1> DEFINE R == OpToRel(<, Nat)
<1>1. \A x, y \in Nat : ~(<<y, x>> \in R) => x <= y
  <2>1. \A x, y \in Nat : <<y, x>> \in Nat \X Nat /\ <<y, x>>[1] = y /\ <<y, x>>[2] = x
    OBVIOUS
  <2>2. \A x, y \in Nat : ~(<<y, x>> \in R) => ~(y < x)
    BY <2>1 DEF OpToRel
  <2>3. \A x, y \in Nat : ~(y < x) => x <= y
    BY SMT
  <2> QED BY <2>2, <2>3
<1>2. IsWellFoundedOn(R, Nat)
  BY NatLessThanWellFounded
<1> HIDE DEF R
<1>3. \E x \in T : \A y \in T : ~(<<y, x>> \in R)
  BY <1>2, WFMin
<1> QED BY <1>1, <1>3

Met(es, slots) == SelectInSeq(es, LAMBDA g : g \cap slots # {})

(* What a search in a sequence finds is a place in it, or nothing.         *)
LEMMA MetIs ==
  ASSUME NEW es \in Seq(SUBSET Slots), NEW slots
  PROVE  Met(es, slots) = 0 \/ Met(es, slots) \in 1 .. Len(es)
<1> DEFINE I == {i \in 1 .. Len(es) : es[i] \cap slots # {}}
<1>1. I \subseteq Nat
  OBVIOUS
<1>2. CASE I # {}
  <2>1. \E x \in I : \A y \in I : x <= y
    BY <1>1, <1>2, Least
  <2>2. (CHOOSE x \in I : \A y \in I : x =< y) \in I
    BY <2>1
  <2> QED BY <1>2, <2>2 DEF Met, SelectInSeq, Min
<1>3. CASE I = {}
  BY <1>3 DEF Met, SelectInSeq
<1> QED BY <1>2, <1>3

(* The slots that are entangled are in one set then, and no set shrinks.   *)
LEMMA Entangled ==
  ASSUME TimelinesInv, NEW b \in Active, NEW regs \in SUBSET Regs, Entangle(b, regs)
  PROVE  /\ entanglements' \in Seq(SUBSET Slots) /\ Grows(entanglements, entanglements')
         /\ \E k \in DOMAIN entanglements' : {b} \X regs \subseteq entanglements'[k]
<1> DEFINE slots == {b} \X regs
           es == entanglements
           met == Met(es, slots)
<1>1. es \in Seq(SUBSET Slots) /\ slots \in SUBSET Slots
  BY DEF TimelinesInv, Booked, Slots, Shaped, Active
<1>2. met = 0 \/ met \in 1 .. Len(es)
  BY <1>1, MetIs
<1>3. es' = IF met = 0 THEN Append(es, slots) ELSE [es EXCEPT ![met] = @ \cup slots]
  BY DEF Entangle, Met
<1> HIDE DEF met, slots, es
<1> DEFINE T == SUBSET Slots
<1>4. es \in Seq(T) /\ slots \in T /\ \A x, y \in T : x \cup y \in T
  BY <1>1
<1> HIDE DEF T
<1>5. CASE met = 0
  <2>1. es' = Append(es, slots)
    BY <1>3, <1>5
  <2>2. /\ es' \in Seq(T) /\ DOMAIN es \subseteq DOMAIN es'
        /\ Len(es) + 1 \in DOMAIN es' /\ es'[Len(es) + 1] = slots
        /\ \A i \in DOMAIN es : es'[i] = es[i]
    BY <1>4, <2>1, SMT
  <2> QED BY <2>2 DEF T, es, slots, Grows
<1>6. CASE met # 0
  <2>1. es' = [es EXCEPT ![met] = @ \cup slots] /\ met \in 1 .. Len(es)
    BY <1>2, <1>3, <1>6
  <2>2. DOMAIN es = 1 .. Len(es) /\ es \in [1 .. Len(es) -> T] /\ Len(es) \in Nat
    BY <1>4
  <2>3. es[met] \cup slots \in T
    BY <1>4, <2>1, <2>2
  <2>4. /\ es' \in [1 .. Len(es) -> T] /\ es'[met] = es[met] \cup slots
        /\ \A i \in DOMAIN es : i # met => es'[i] = es[i]
    BY <2>1, <2>2, <2>3
  <2>5. es' \in Seq(T) /\ DOMAIN es' = 1 .. Len(es)
    BY <2>2, <2>4, SMT
  <2> QED BY <2>1, <2>2, <2>4, <2>5 DEF T, es, slots, Grows
<1> QED BY <1>5, <1>6

(* The values entangled in Main are in registers of one set.               *)
LEMMA EntangleKeeps ==
  ASSUME TimelinesInv, NEW b \in Active, NEW regs \in SUBSET Regs, Entangle(b, regs)
  PROVE  TimelinesInv'
<1> DEFINE F == Followed({b} \X regs)
           met == {B \in bonds : B \cap F # {}}
           new == F \cup UNION met
<1>1. /\ bonds' = IF Active = {Main} /\ F # {} THEN (bonds \ met) \cup {new} ELSE bonds
      /\ UNCHANGED <<timeline, Control, values, spent, lent, revived, reads>>
  BY DEF Entangle, Bond
<1>2. /\ entanglements' \in Seq(SUBSET Slots) /\ Grows(entanglements, entanglements')
  BY Entangled
<1>3. PICK k \in DOMAIN entanglements' : {b} \X regs \subseteq entanglements'[k]
  BY Entangled
<1>4. \A i \in DOMAIN entanglements' : entanglements'[i] \subseteq Slots
  BY <1>2
<1>5. /\ Active' = Active /\ Shaped(timeline)' /\ Placed' /\ Main \in Active
  BY <1>1 DEF Active, TimelinesInv, Placed, Control, Shaped
<1>6. ASSUME NEW u \in F
      PROVE  \E h \in regs : /\ u = Reg(b, h).val /\ u \in 1 .. values /\ u \in Vals \ lent
                             /\ Has(timeline, h, u)
  <2>1. PICK h \in regs : Takable(b, h) /\ u = Reg(b, h).val /\ u \notin lent
    <3>1. PICK q \in {b} \X regs : Takable(q[1], q[2]) /\ u = Reg(q[1], q[2]).val /\ u \notin lent
      BY <1>6 DEF Followed, Held
    <3>2. q[1] = b /\ q[2] \in regs
      BY <3>1
    <3> QED BY <3>1, <3>2
  <2>2. h \in Regs
    BY <2>1
  <2>3. StateOK(Reg(b, h)) /\ Has(timeline, h, u) /\ (u \in Vals => u \in 1 .. values)
    BY <2>1, <2>2, RegIs
  <2> QED BY <2>1, <2>3 DEF StateOK, Takable
<1>7. \A B \in bonds : /\ Tied(timeline, entanglements', B, lent)
                       /\ Spread(timeline, entanglements', B, lent)
  <2> SUFFICES ASSUME NEW B \in bonds PROVE /\ Tied(timeline, entanglements', B, lent)
                                            /\ Spread(timeline, entanglements', B, lent)
    OBVIOUS
  <2>1. Tied(timeline, entanglements, B, lent) /\ Spread(timeline, entanglements, B, lent)
    BY DEF TimelinesInv, Bound
  <2>2. Tied(timeline, entanglements', B, lent)
    BY <1>2, <2>1, LinkedStill DEF Tied
  <2>3. ASSUME NEW u \in B \ lent, NEW r \in Regs, Has(timeline, r, u), NEW c \in DOMAIN timeline
        PROVE  /\ Linked(entanglements', <<Main, r>>, <<c, r>>)
               /\ \E i \in DOMAIN entanglements' : <<c, r>> \in entanglements'[i]
    <3>1. /\ Linked(entanglements, <<Main, r>>, <<c, r>>)
          /\ \E i \in DOMAIN entanglements : <<c, r>> \in entanglements[i]
      BY <2>1, <2>3 DEF Spread
    <3> QED BY <1>2, <3>1, LinkedStill DEF Grows
  <2> QED BY <2>2, <2>3 DEF Spread
<1>8. ASSUME Active = {Main}
      PROVE  Tied(timeline, entanglements', new, lent) /\ Spread(timeline, entanglements', new, lent)
  <2>1. b = Main
    BY <1>8
  <2>2. ASSUME NEW u \in new \ lent, NEW r \in Regs, Has(timeline, r, u)
        PROVE  /\ \E h \in regs : Linked(entanglements', <<Main, r>>, <<Main, h>>)
               /\ \E i \in DOMAIN entanglements' : <<Main, r>> \in entanglements'[i]
    <3>1. CASE u \in F
      <4>1. PICK h \in regs : u \in Vals \ lent /\ Has(timeline, h, u)
        BY <1>6, <3>1
      <4>2. r = h
        BY <2>2, <4>1 DEF TimelinesInv, Placed, AtHome
      <4>3. <<Main, r>> \in entanglements'[k]
        BY <1>3, <2>1, <4>1, <4>2
      <4> QED BY <4>1, <4>2, <4>3, LinkedBeside
    <3>2. CASE u \notin F
      <4>1. PICK B \in bonds : u \in B /\ B \cap F # {}
        BY <2>2, <3>2
      <4>2. PICK x : x \in B \cap F
        BY <4>1
      <4>3. PICK h \in regs : x \in Vals \ lent /\ Has(timeline, h, x)
        BY <1>6, <4>2
      <4>4. h \in Regs
        BY <4>3
      <4>5. Tied(timeline, entanglements', B, lent) /\ Spread(timeline, entanglements', B, lent)
        BY <1>7
      <4>6. Linked(entanglements', <<Main, r>>, <<Main, h>>)
        BY <2>2, <4>1, <4>2, <4>3, <4>4, <4>5 DEF Tied
      <4>7. \E i \in DOMAIN entanglements' : <<Main, r>> \in entanglements'[i]
        BY <1>5, <2>2, <4>1, <4>5 DEF Spread, Active
      <4> QED BY <4>3, <4>6, <4>7
    <3> QED BY <3>1, <3>2
  <2>3. ASSUME NEW u \in new \ lent, NEW v \in new \ lent, NEW r \in Regs, NEW q \in Regs,
               Has(timeline, r, u), Has(timeline, q, v)
        PROVE  Linked(entanglements', <<Main, r>>, <<Main, q>>)
    <3>1. PICK h \in regs : Linked(entanglements', <<Main, r>>, <<Main, h>>)
      BY <2>2, <2>3
    <3>2. PICK g \in regs : Linked(entanglements', <<Main, q>>, <<Main, g>>)
      BY <2>2, <2>3
    <3>3. <<Main, h>> \in entanglements'[k] /\ <<Main, g>> \in entanglements'[k]
      BY <1>3, <2>1, <3>1, <3>2
    <3>4. Linked(entanglements', <<Main, h>>, <<Main, g>>)
      BY <3>3, LinkedBeside
    <3>5. <<Main, q>> \in Slots /\ <<Main, g>> \in Slots
      BY <3>2 DEF Slots, Names
    <3>6. Linked(entanglements', <<Main, g>>, <<Main, q>>)
      BY <1>4, <3>2, <3>5, LinkedBack
    <3>7. Linked(entanglements', <<Main, r>>, <<Main, g>>)
      BY <3>1, <3>4, LinkedTwice
    <3> QED BY <3>6, <3>7, LinkedTwice
  <2>4. Tied(timeline, entanglements', new, lent)
    BY <2>3 DEF Tied
  <2>5. \A s : Linked(entanglements', s, s)
    BY DEF Linked
  <2>6. Spread(timeline, entanglements', new, lent)
    BY <1>8, <2>2, <2>5 DEF Spread, Active
  <2> QED BY <2>4, <2>6
<1>9. Bound'
  BY <1>1, <1>7, <1>8 DEF Bound
<1>10. new \subseteq 1 .. values /\ \A B \in bonds : B \subseteq 1 .. values
  BY <1>6 DEF TimelinesInv, Booked, Bonded
<1>11. Bonded \subseteq UNION bonds' /\ UNION bonds' \subseteq 1 .. values
  BY <1>1, <1>10 DEF Bonded
<1>12. Booked'
  <2>1. Booked
    BY DEF TimelinesInv
  <2> QED BY <1>1, <1>2, <1>5, <1>11, <2>1 DEF Booked, Bonded, Control
<1>13. Once'
  BY <1>1 DEF TimelinesInv, Once
<1> QED BY <1>5, <1>9, <1>12, <1>13 DEF TimelinesInv

(* A child gets a place beside its parent in every set.                    *)
LEMMA SplitKeeps ==
  ASSUME TimelinesInv, fault = "none", NEW b, b = running, NEW names \in SUBSET (Others \ {b}),
         Split(b, names)
  PROVE  TimelinesInv'
<1>1. /\ timeline' = Forked(b, names)
      /\ entanglements' = [i \in DOMAIN entanglements |->
           entanglements[i] \cup {s \in names \X Regs : <<b, s[2]>> \in entanglements[i]}]
      /\ UNCHANGED <<Control, values, bonds, spent, lent, revived>>
  BY DEF Split
<1>2. b \in Active /\ Shaped(timeline) /\ LineOK(timeline[b])
  BY DEF TimelinesInv, Booked, Shaped, Active
<1> DEFINE child == [regs |-> timeline[b].regs, anchors |-> <<>>]
<1>3. LineOK(child) /\ child.regs = timeline[b].regs /\ DOMAIN child.anchors = {}
  BY <1>2 DEF LineOK
<1> HIDE DEF child
<1>4. /\ Active' = Active \cup names
      /\ \A n \in names : timeline'[n] = child
      /\ \A n \in Active \ names : timeline'[n] = timeline[n]
  BY <1>1 DEF Forked, Active, child
<1>5. Shaped(timeline')
  BY <1>2, <1>3, <1>4 DEF Shaped, Active, Names
<1>6. ASSUME NEW q \in Regs, NEW x, Now(timeline', q, x) PROVE Now(timeline, q, x)
  BY <1>2, <1>3, <1>4, <1>6 DEF Now, Active
<1>7. ASSUME NEW q \in Regs, NEW x, Saved(timeline', q, x) PROVE Saved(timeline, q, x)
  BY <1>2, <1>3, <1>4, <1>7 DEF Saved, Active
<1>8. entanglements \in Seq(SUBSET Slots) /\ names \X Regs \in SUBSET Slots
  BY DEF TimelinesInv, Booked, Slots, Names
<1>9. entanglements' \in Seq(SUBSET Slots) /\ Grows(entanglements, entanglements')
  <2>1. DOMAIN entanglements = 1 .. Len(entanglements) /\ Len(entanglements) \in Nat
        /\ \A i \in DOMAIN entanglements : entanglements[i] \in SUBSET Slots
    BY <1>8
  <2>2. \A i \in DOMAIN entanglements :
           entanglements[i] \cup {s \in names \X Regs : <<b, s[2]>> \in entanglements[i]}
             \in SUBSET Slots
    BY <1>8, <2>1
  <2>3. entanglements' \in [1 .. Len(entanglements) -> SUBSET Slots]
    BY <1>1, <2>1, <2>2
  <2>4. entanglements' \in Seq(SUBSET Slots)
    BY <2>1, <2>3, SMT
  <2> QED BY <1>1, <2>4 DEF Grows
<1>10. \A i \in DOMAIN entanglements, r \in Regs, c \in names :
          <<b, r>> \in entanglements[i] => <<c, r>> \in entanglements'[i]
  <2>1. \A r \in Regs, c \in names : <<c, r>> \in names \X Regs /\ <<c, r>>[2] = r
    OBVIOUS
  <2> QED BY <1>1, <2>1
<1>11. \A q \in Regs : \A v : Has(timeline', q, v) => Has(timeline, q, v)
  BY <1>6, <1>7 DEF Has, Kept
<1>12. Booked'
  <2>1. Booked
    BY DEF TimelinesInv
  <2> QED BY <1>1, <1>4, <1>9, <2>1 DEF Booked, Bonded, Control
<1>13. Placed'
  BY <1>1, <1>6, <1>7, <1>11 DEF Placed, TimelinesInv, AtHome, LeasesKnown, Kept
<1>14. Once'
  BY <1>1, <1>6 DEF TimelinesInv, Once, UsedOnce
<1>15. ASSUME NEW B \in bonds PROVE Tied(timeline', entanglements', B, lent')
  <2>1. Tied(timeline, entanglements, B, lent)
    BY DEF TimelinesInv, Bound
  <2> QED BY <1>1, <1>9, <1>11, <2>1, LinkedStill DEF Tied
<1>16. ASSUME NEW B \in bonds PROVE Spread(timeline', entanglements', B, lent')
  <2>1. Spread(timeline, entanglements, B, lent)
    BY DEF TimelinesInv, Bound
  <2>2. ASSUME NEW u \in B \ lent, NEW r \in Regs, Has(timeline, r, u), NEW c \in Active
        PROVE  /\ Linked(entanglements', <<Main, r>>, <<c, r>>)
               /\ \E i \in DOMAIN entanglements : <<c, r>> \in entanglements[i]
    BY <1>9, <2>1, <2>2, LinkedStill DEF Spread, Active
  <2>3. ASSUME NEW u \in B \ lent, NEW r \in Regs, Has(timeline, r, u), NEW c \in names
        PROVE  /\ Linked(entanglements', <<Main, r>>, <<c, r>>)
               /\ \E i \in DOMAIN entanglements' : <<c, r>> \in entanglements'[i]
    <3>1. PICK i \in DOMAIN entanglements : <<b, r>> \in entanglements[i]
      BY <1>2, <2>2, <2>3
    <3>2. /\ i \in DOMAIN entanglements'
          /\ <<b, r>> \in entanglements'[i] /\ <<c, r>> \in entanglements'[i]
      BY <1>9, <1>10, <2>3, <3>1 DEF Grows
    <3>3. Linked(entanglements', <<b, r>>, <<c, r>>)
      BY <3>2, LinkedBeside
    <3>4. Linked(entanglements', <<Main, r>>, <<b, r>>)
      BY <1>2, <2>2, <2>3
    <3> QED BY <3>2, <3>3, <3>4, LinkedTwice
  <2>4. \A i \in DOMAIN entanglements : i \in DOMAIN entanglements'
                                        /\ entanglements[i] \subseteq entanglements'[i]
    BY <1>9 DEF Grows
  <2>5. ASSUME NEW u \in B \ lent', NEW r \in Regs, Has(timeline', r, u), NEW c \in DOMAIN timeline'
        PROVE  /\ Linked(entanglements', <<Main, r>>, <<c, r>>)
               /\ \E i \in DOMAIN entanglements' : <<c, r>> \in entanglements'[i]
    <3>1. Has(timeline, r, u) /\ u \in B \ lent /\ (c \in names \/ c \in Active)
      BY <1>1, <1>4, <1>11, <2>5 DEF Active
    <3>2. CASE c \in names
      BY <2>3, <3>1, <3>2
    <3>3. CASE c \in Active
      BY <2>2, <2>4, <3>1, <3>3
    <3> QED BY <3>1, <3>2, <3>3
  <2> QED BY <2>5 DEF Spread
<1> QED BY <1>1, <1>5, <1>12, <1>13, <1>14, <1>15, <1>16 DEF TimelinesInv, Bound
-----------------------------------------------------------------------------
(* Merge                                                                   *)

(* What the branches merged so far give, as a function of how many.        *)
Folded(names, base, rules, n, g) ==
  g = [i \in 0 .. n |-> IF i = 0 THEN base ELSE MergeOne(rules, g[i - 1], names[i])]

(* There is such a function, for a least length without one follows one    *)
(* that has it.                                                            *)
LEMMA FoldThere ==
  ASSUME NEW names, NEW base, NEW rules, NEW n \in Nat
  PROVE  \E g : Folded(names, base, rules, n, g)
<1> DEFINE F(m, g) == Folded(names, base, rules, m, g)
           T == {m \in Nat : ~ \E g : F(m, g)}
<1> SUFFICES ASSUME T # {} PROVE FALSE
  OBVIOUS
<1>1. PICK m \in T : \A k \in T : m <= k
  <2> HIDE DEF F
  <2>1. T \subseteq Nat /\ T # {}
    OBVIOUS
  <2> HIDE DEF T
  <2> QED BY <2>1, Least
<1>2. m \in Nat /\ ~ \E g : F(m, g)
  BY DEF T
<1>3. CASE m = 0
  <2> DEFINE h == [i \in 0 .. 0 |-> base]
  <2>1. h = [i \in 0 .. 0 |-> IF i = 0 THEN base ELSE MergeOne(rules, h[i - 1], names[i])]
    <3>1. \A i \in 0 .. 0 : i = 0
      BY SMT
    <3> QED BY <3>1, Zenon
  <2> QED BY <1>2, <1>3, <2>1 DEF Folded
<1>4. CASE m # 0
  <2>1. m - 1 \in Nat /\ ~(m <= m - 1)
    BY <1>2, <1>4, SMT
  <2>2. PICK h : F(m - 1, h)
    BY <1>1, <2>1 DEF T
  <2> DEFINE g == [i \in 0 .. m |-> IF i = m THEN MergeOne(rules, h[m - 1], names[m]) ELSE h[i]]
  <2>3. \A i \in 0 .. m - 1 : h[i] = IF i = 0 THEN base ELSE MergeOne(rules, h[i - 1], names[i])
    BY <2>2 DEF Folded
  <2>4. \A i \in 0 .. m : /\ i # 0 => i - 1 \in 0 .. m /\ i - 1 # m
                          /\ i # m => i \in 0 .. m - 1
    BY <1>2, SMT
  <2>5. \A i \in 0 .. m : i # 0 => g[i - 1] = h[i - 1]
    BY <2>4
  <2>6. \A i \in 0 .. m : g[i] = IF i = 0 THEN base ELSE MergeOne(rules, g[i - 1], names[i])
    <3> SUFFICES ASSUME NEW i \in 0 .. m
                 PROVE  g[i] = IF i = 0 THEN base ELSE MergeOne(rules, g[i - 1], names[i])
      OBVIOUS
    <3>1. CASE i = m
      <4>1. g[i] = MergeOne(rules, h[i - 1], names[i])
        BY <3>1
      <4> QED BY <1>4, <2>5, <3>1, <4>1
    <3>2. CASE i # m
      <4>1. g[i] = h[i]
        BY <3>2
      <4> QED BY <2>3, <2>4, <2>5, <3>2, <4>1
    <3> QED BY <3>1, <3>2
  <2>7. g = [i \in 0 .. m |-> g[i]]
    OBVIOUS
  <2> HIDE DEF g
  <2>8. F(m, g)
    BY <2>6, <2>7 DEF Folded
  <2> QED BY <1>2, <2>8
<1> QED BY <1>3, <1>4

Seed(target) == IF target \in Active THEN timeline[target].regs ELSE [r \in Regs |-> Consumed]
Base(target) == [regs |-> Seed(target), reversion |-> <<>>]
FoldOf(names, target, rules) ==
  CHOOSE g : Folded(names, Base(target), rules, Len(names), g)

(* What is merged is that function of all the branches.                    *)
LEMMA MergedIs ==
  ASSUME NEW names, Len(names) \in Nat, NEW target, NEW rules
  PROVE  /\ Folded(names, Base(target), rules, Len(names), FoldOf(names, target, rules))
         /\ Merged(names, target, rules) = FoldOf(names, target, rules)[Len(names)]
<1>1. \E g : Folded(names, Base(target), rules, Len(names), g)
  BY FoldThere
<1>2. Folded(names, Base(target), rules, Len(names), FoldOf(names, target, rules))
  BY <1>1 DEF FoldOf
<1>3. Merged(names, target, rules) = FoldOf(names, target, rules)[Len(names)]
  BY DEF Merged, FoldOf, Folded, Base, Seed
<1> QED BY <1>2, <1>3
(* A register gets one of the two states, or none.                         *)
LEMMA ResolvedIs ==
  ASSUME NEW rule \in PlainRules \cup UnionRules, NEW existing, NEW incoming, NEW from
  PROVE  Resolved(rule, existing, incoming, from).state \in {existing, incoming} \cup Left
<1>1. ASSUME NEW plain \in PlainRules, NEW x, NEW y PROVE Pick(plain, x, y, from) \in {x, y, Consumed}
  <2>1. plain.kind \in {"FirstWins", "Priority", "Decay", "Auto"}
    BY DEF PlainRules
  <2> QED BY <2>1 DEF Pick
<1>2. \A x, y : Outcome(x, y).state = x
  BY DEF Outcome
<1>3. Consumed \in Left /\ Decayed \in Left
  BY DEF Left
<1>4. CASE rule.kind = "TopologyUnion"
  <2>1. rule.default \in PlainRules
    BY <1>4 DEF PlainRules, UnionRules
  <2> DEFINE field == Pick(rule.default, Field(existing), Field(incoming), from)
  <2>2. field \in {Field(existing), Field(incoming), Consumed}
    BY <1>1, <2>1
  <2>3. Field(existing) \in {existing, Consumed} /\ Field(incoming) \in {incoming, Consumed}
    BY DEF Field
  <2> HIDE DEF field
  <2>4. field \in {existing, incoming, Consumed}
    BY <2>2, <2>3
  <2>5. Unite(rule, existing, incoming, from).state \in {field, Consumed, Decayed}
    BY <1>2 DEF Unite, field
  <2> QED BY <1>2, <1>3, <1>4, <2>4, <2>5 DEF Resolved
<1>5. CASE rule.kind # "TopologyUnion"
  <2>1. rule \in PlainRules
    BY <1>5 DEF UnionRules
  <2>2. Pick(rule, existing, incoming, from) \in {existing, incoming, Consumed}
    BY <1>1, <2>1
  <2> QED BY <1>2, <1>3, <1>5, <2>2 DEF Resolved
<1> QED BY <1>4, <1>5

(* A register has none, or a state that some timeline has in it.           *)
FromThere(regs) == regs \in Registers /\ \A r \in Regs : regs[r] \in Left \/ Now(timeline, r, regs[r])

(* The merged registers are such.                                          *)
LEMMA MergedThere ==
  ASSUME TimelinesInv, NEW names, Len(names) \in Nat, NEW target, NEW rules \in Resolutions,
         \A i \in 1 .. Len(names) : names[i] \in Active
  PROVE  FromThere(Merged(names, target, rules).regs)
<1> DEFINE L == Len(names)
           g == FoldOf(names, target, rules)
           T == {i \in 0 .. L : ~FromThere(g[i].regs)}
<1>1. /\ Merged(names, target, rules) = g[L]
      /\ \A i \in 0 .. L : g[i] = IF i = 0 THEN Base(target) ELSE MergeOne(rules, g[i - 1], names[i])
  <2>1. Folded(names, Base(target), rules, L, g) /\ Merged(names, target, rules) = g[L]
    BY MergedIs
  <2> HIDE DEF g
  <2> QED BY <2>1 DEF Folded
<1>2. rules \in [Regs -> PlainRules \cup UnionRules]
  BY TimelinesAssumption
<1> HIDE DEF g
<1>3. FromThere(Base(target).regs)
  <2>1. Base(target).regs = Seed(target)
    BY DEF Base
  <2>2. CASE target \in Active
    <3>1. Seed(target) \in Registers
      BY <2>2 DEF Seed, TimelinesInv, Shaped, LineOK, Active
    <3> QED BY <2>1, <2>2, <3>1 DEF FromThere, Seed, Now, Active
  <2>3. CASE target \notin Active
    <3>1. Seed(target) = [r \in Regs |-> Consumed] /\ Consumed \in Left
      BY <2>3 DEF Seed, Left
    <3> QED BY <2>1, <3>1, StatesAre DEF FromThere, Registers
  <2> QED BY <2>2, <2>3
<1>4. ASSUME NEW acc, FromThere(acc.regs), NEW n \in Active
      PROVE  FromThere(MergeOne(rules, acc, n).regs)
  <2> DEFINE new == [r \in Regs |-> Resolved(rules[r], acc.regs[r], Reg(n, r), n).state]
  <2>1. MergeOne(rules, acc, n).regs = new
    BY DEF MergeOne
  <2>2. \A r \in Regs : new[r] \in {acc.regs[r], Reg(n, r)} \cup Left
    BY <1>2, ResolvedIs
  <2>3. \A r \in Regs : Reg(n, r) \in States /\ Now(timeline, r, Reg(n, r))
    BY RegIs
  <2>4. \A r \in Regs : acc.regs[r] \in States
    BY <1>4 DEF FromThere, Registers
  <2>5. new \in Registers
    BY <2>2, <2>3, <2>4, StatesAre DEF Registers
  <2> HIDE DEF new
  <2> QED BY <1>4, <2>1, <2>2, <2>3, <2>5 DEF FromThere
<1>5. T = {}
  <2> SUFFICES ASSUME T # {} PROVE FALSE
    OBVIOUS
  <2>1. PICK m \in T : \A k \in T : m <= k
    <3>1. T \subseteq Nat /\ T # {}
      OBVIOUS
    <3> HIDE DEF T
    <3> QED BY <3>1, Least
  <2>2. m \in 0 .. L /\ ~FromThere(g[m].regs)
    OBVIOUS
  <2>3. m # 0
    BY <1>1, <1>3, <2>2
  <2>4. m - 1 \in 0 .. L /\ m \in 1 .. L /\ ~(m <= m - 1)
    BY <2>2, <2>3, SMT
  <2>5. FromThere(g[m - 1].regs)
    BY <2>1, <2>4
  <2>6. FromThere(MergeOne(rules, g[m - 1], names[m]).regs)
    BY <1>4, <2>4, <2>5
  <2> QED BY <1>1, <2>2, <2>3, <2>6
<1>6. L \in 0 .. L
  BY SMT
<1> QED BY <1>1, <1>5, <1>6
(* The branches of a merge are a sequence in which none comes twice.       *)
LEMMA BranchesAre ==
  ASSUME NEW names \in BranchLists
  PROVE  /\ Len(names) \in Nat /\ DOMAIN names = 1 .. Len(names)
         /\ \A i \in 1 .. Len(names) : names[i] \in Others /\ names[i] \in ToSet(names)
         /\ \A i, j \in 1 .. Len(names) : names[i] = names[j] => i = j
         /\ ToSet(names) \subseteq Others
<1>1. PICK n \in 1 .. Cardinality(Others) : names \in [1 .. n -> Others]
  BY DEF BranchLists
<1>2. IsInjective(names)
  BY DEF BranchLists
<1>3. n \in Nat
  BY SMT
<1>4. names \in Seq(Others) /\ Len(names) = n
  BY <1>1, <1>3, SMT
<1>5. DOMAIN names = 1 .. Len(names)
  BY <1>1, <1>4
<1> QED BY <1>1, <1>2, <1>3, <1>4, <1>5 DEF IsInjective, ToSet

(* A reversion is an error or a restore.                                   *)
LEMMA RevertKeeps ==
  ASSUME TimelinesInv, fault = "none", NEW b, b = running, NEW o, NEW a, Revert(b, o, a)
  PROVE  TimelinesInv'
<1>1. \/ \E error : Fails(error)
      \/ o \in Active /\ a \in DOMAIN timeline[o].anchors /\ Restore(b, o, a)
  BY DEF Revert
<1> QED BY <1>1, FailsKeeps, RestoreKeeps

(* The target gets states that were there, the branches go.                *)
LEMMA MergeKeeps ==
  ASSUME TimelinesInv, fault = "none", NEW b, b = running, NEW names \in BranchLists,
         NEW target \in Names, NEW rules \in Resolutions, Merge(b, names, target, rules)
  PROVE  TimelinesInv'
<1> DEFINE gone == ToSet(names)
           out == Merged(names, target, rules)
<1>1. CASE \E error : Fails(error)
  BY <1>1, FailsKeeps
<1>2. CASE Revert(b, out.reversion[1], out.reversion[2])
  BY <1>2, RevertKeeps
<1>3. CASE /\ gone \subseteq Active /\ target \in Active
           /\ timeline' = [n \in Active \ gone |->
                             IF n = target THEN [timeline[n] EXCEPT !.regs = out.regs]
                             ELSE timeline[n]]
           /\ fault' = IF b \in gone THEN "BranchNotFound" ELSE "none"
           /\ UNCHANGED <<entanglements, running, block, values, Fates>>
  <2>1. FromThere(out.regs)
    BY <1>3, BranchesAre, MergedThere
  <2> HIDE DEF out
  <2>2. Shaped(timeline) /\ b \in Active
    BY DEF TimelinesInv, Booked
  <2>3. /\ LineOK([timeline[target] EXCEPT !.regs = out.regs])
        /\ [timeline[target] EXCEPT !.regs = out.regs].regs = out.regs
        /\ [timeline[target] EXCEPT !.regs = out.regs].anchors = timeline[target].anchors
    <3>1. LineOK(timeline[target]) /\ out.regs \in Registers
      BY <1>3, <2>1, <2>2 DEF Shaped, Active, FromThere
    <3> QED BY <3>1, LineIs
  <2> DEFINE line == [timeline[target] EXCEPT !.regs = out.regs]
  <2>4. /\ Active' = Active \ gone
        /\ \A c \in Active' : timeline'[c] = IF c = target THEN line ELSE timeline[c]
    BY <1>3 DEF Active
  <2> HIDE DEF line
  <2>5. LineOK(line) /\ line.regs = out.regs /\ line.anchors = timeline[target].anchors
    BY <2>3 DEF line
  <2>6. Main \in Active' /\ Active' \subseteq Active
    BY <2>2, <2>4, BranchesAre, TimelinesAssumption DEF Shaped, Active
  <2>7. Shaped(timeline')
    BY <2>2, <2>4, <2>5, <2>6 DEF Shaped, Active
  <2>8. ASSUME NEW q \in Regs, NEW x, Now(timeline', q, x) PROVE x \in Left \/ Now(timeline, q, x)
    <3>1. PICK c \in Active' : timeline'[c].regs[q] = x
      BY <2>8 DEF Now, Active
    <3>2. x = out.regs[q] \/ Now(timeline, q, x)
      BY <2>4, <2>5, <2>6, <3>1 DEF Now, Active
    <3> QED BY <2>1, <3>2 DEF FromThere
  <2>9. ASSUME NEW q \in Regs, NEW x, Saved(timeline', q, x) PROVE Saved(timeline, q, x)
    <3>1. \A c \in Active' : timeline'[c].anchors = timeline[c].anchors
      BY <2>4, <2>5
    <3> QED BY <2>6, <2>9, <3>1 DEF Saved, Active
  <2>10. Booked'
    <3>1. Booked
      BY DEF TimelinesInv
    <3>2. fault' = "none" => running' \in Active'
      BY <1>3, <2>2, <2>4
    <3> QED BY <1>3, <3>1, <3>2 DEF Booked, Bonded, Fates
  <2>11. /\ lent' = lent /\ values' = values /\ bonds' = bonds
         /\ Grows(entanglements, entanglements') /\ spent' = spent /\ revived' = revived
    BY <1>3 DEF Grows, Fates
  <2>12. \A q \in Regs, s \in States : Kept(timeline', q, s) => s \in Left \/ Kept(timeline, q, s)
    BY <2>8, <2>9 DEF Kept
  <2>13. \A q \in Regs, s \in States : s.st = "Valid" /\ Now(timeline', q, s) => Now(timeline, q, s)
    BY <2>8, StatesAre
  <2> QED BY <2>6, <2>7, <2>10, <2>11, <2>12, <2>13, Copies
<1> QED BY <1>1, <1>2, <1>3 DEF Merge
-----------------------------------------------------------------------------
(* The theorems                                                            *)

(* A rewind is an error or a restore.                                      *)
LEMMA RewindKeeps ==
  ASSUME TimelinesInv, fault = "none", NEW b \in Active, b = running, NEW a, Rewind(b, a)
  PROVE  TimelinesInv'
<1>1. Fails("AnchorNotFound") \/ (a \in DOMAIN timeline[b].anchors /\ Restore(b, b, a))
  BY DEF Rewind
<1> QED BY <1>1, FailsKeeps, RestoreKeeps

(* It holds at the start, where nothing has a value.                       *)
LEMMA InitInv == Init => TimelinesInv
<1> SUFFICES ASSUME Init PROVE TimelinesInv
  OBVIOUS
<1> DEFINE line == [regs |-> [r \in Regs |-> Consumed], anchors |-> <<>>]
<1>1. Active = {Main} /\ timeline[Main] = line /\ DOMAIN timeline = {Main}
  BY DEF Init, Active
<1>2. /\ line.regs = [r \in Regs |-> Consumed] /\ DOMAIN line.anchors = {}
      /\ DOMAIN line = {"regs", "anchors"}
  OBVIOUS
<1>3. line.regs \in Registers
  BY <1>2, StatesAre DEF Registers, Left
<1> HIDE DEF line
<1>4. Shaped(timeline)
  BY <1>1, <1>2, <1>3 DEF Shaped, LineOK, Names
<1>5. \A r \in Regs : \A x : Kept(timeline, r, x) => x = Consumed
  BY <1>1, <1>2 DEF Kept, Now, Saved
<1>6. Consumed.val = 0 /\ Consumed.st = "Consumed"
  BY DEF Consumed
<1>7. \A r \in Regs, v \in Vals : ~Has(timeline, r, v)
  BY <1>5, <1>6, StatesAre DEF Has
<1>8. Booked
  <2>1. entanglements = <<>> /\ running = Main /\ block = 0 /\ values = 0
        /\ bonds = {} /\ spent = {} /\ lent = {} /\ revived = {}
    BY DEF Init
  <2>2. 0 \in 0 .. MaxBlocks /\ 0 \in 0 .. MaxValues
    BY TimelinesAssumption, SMT
  <2>3. entanglements \in Seq(SUBSET Slots)
    BY <2>1
  <2> QED BY <1>1, <2>1, <2>2, <2>3 DEF Booked, Bonded, Names
<1>9. Placed
  BY <1>5, <1>6, <1>7 DEF Placed, AtHome, LeasesKnown
<1>10. Bound /\ Once
  BY DEF Init, Bound, Once, UsedOnce
<1> QED BY <1>4, <1>8, <1>9, <1>10 DEF TimelinesInv

(* Every handler keeps it.                                                 *)
LEMMA NextInv == TimelinesInv /\ [Next]_vars => TimelinesInv'
<1> SUFFICES ASSUME TimelinesInv, [Next]_vars PROVE TimelinesInv'
  OBVIOUS
<1> DEFINE b == running
<1>1. CASE UNCHANGED vars
  BY <1>1 DEF vars, TimelinesInv, Booked, Bonded, Active, Placed, Bound, Once
<1>2. CASE Next
  <2>1. fault = "none" /\ b \in Active
    BY <1>2 DEF Next, TimelinesInv, Booked
  <2>2. CASE RegisterStep(b)
    <3>1. PICK r \in Regs : \/ Load(b, r) \/ Consume(b, r) \/ ConsumeField(b, r) \/ EndLease(b, r)
                            \/ \E d \in Regs : FieldAccess(b, d, r) \/ Lease(b, d, r)
      BY <2>2 DEF RegisterStep
    <3>2. CASE Load(b, r)
      BY <2>1, <3>2, LoadKeeps
    <3>3. CASE Consume(b, r) \/ ConsumeField(b, r)
      BY <2>1, <3>3, ConsumeKeeps DEF Consume, ConsumeField, Left
    <3>4. CASE EndLease(b, r)
      BY <2>1, <3>4, EndLeaseKeeps
    <3>5. CASE \E d \in Regs : FieldAccess(b, d, r)
      BY <2>1, <3>5, FieldAccessKeeps
    <3>6. CASE \E d \in Regs : Lease(b, d, r)
      BY <2>1, <3>6, LeaseKeeps
    <3> QED BY <3>1, <3>2, <3>3, <3>4, <3>5, <3>6
  <2>3. CASE \E regs \in SUBSET Regs \ {{}} : Entangle(b, regs)
    BY <2>1, <2>3, EntangleKeeps
  <2>4. CASE \E names \in SUBSET (Others \ {b}) \ {{}} : Split(b, names)
    BY <2>1, <2>4, SplitKeeps
  <2>5. CASE \E names \in BranchLists, target \in Names, rules \in Resolutions :
               Merge(b, names, target, rules)
    BY <2>1, <2>5, MergeKeeps
  <2>6. CASE \E a \in AnchorNames : Anchor(b, a) \/ Rewind(b, a)
    BY <2>1, <2>6, AnchorKeeps, RewindKeeps
  <2>7. CASE \E w \in Others : EnterBlock(w) \/ LeaveBlock(w)
    BY <2>1, <2>7, EnterBlockKeeps, LeaveBlockKeeps
  <2> QED BY <1>2, <2>2, <2>3, <2>4, <2>5, <2>6, <2>7 DEF Next, TimelineStep
<1> QED BY <1>1, <1>2

(* The invariant holds of every behaviour.                                 *)
THEOREM Invariance == Spec => []TimelinesInv
BY InitInv, NextInv, PTL DEF Spec

(* Registers hold entropic states, sets hold slots, Main is always there   *)
(* and so is whoever runs, for any registers, names and clauses            *)
(* (temporal.rs, branching.rs).                                            *)
THEOREM TypeCorrect == Spec => []TypeOK
<1>1. TimelinesInv => TypeOK
  BY DEF TimelinesInv, Shaped, LineOK, Snapshots, Booked, TypeOK, Active
<1> QED BY <1>1, Invariance, PTL

(* Entangled values are used once, in whatever timelines their copies are: *)
(* the consumption that reaches one through the sets (temporal.rs) leaves  *)
(* none of the others whole, but for what was leased or rewound.           *)
THEOREM EntangledOnce == Spec => []EntangledUsedOnce
<1>1. TimelinesInv => EntangledUsedOnce
  BY RegIs DEF TimelinesInv, Once, UsedOnce, EntangledUsedOnce
<1> QED BY <1>1, Invariance, PTL
(* From the place of the named branch on, the merged register is its own.  *)
LEMMA WinnerStays ==
  ASSUME NEW names \in BranchLists, NEW target, NEW rules, NEW r \in Regs,
         NEW p \in ToSet(names), rules[r] = [kind |-> "Priority", winner |-> p],
         Reg(p, r) # Consumed
  PROVE  Merged(names, target, rules).regs[r] = Reg(p, r)
<1> DEFINE L == Len(names)
           g == FoldOf(names, target, rules)
<1>1. /\ L \in Nat /\ DOMAIN names = 1 .. L
      /\ \A i, j \in 1 .. L : names[i] = names[j] => i = j
  BY BranchesAre
<1>2. /\ Merged(names, target, rules) = g[L]
      /\ \A i \in 0 .. L : g[i] = IF i = 0 THEN Base(target) ELSE MergeOne(rules, g[i - 1], names[i])
  <2>1. Folded(names, Base(target), rules, L, g) /\ Merged(names, target, rules) = g[L]
    BY <1>1, MergedIs
  <2> HIDE DEF g
  <2>2. g = [i \in 0 .. L |-> IF i = 0 THEN Base(target) ELSE MergeOne(rules, g[i - 1], names[i])]
    BY <2>1 DEF Folded
  <2> QED BY <2>1, <2>2
<1> HIDE DEF g
<1>3. PICK k \in 1 .. L : names[k] = p
  BY <1>1 DEF ToSet
<1>4. ASSUME NEW acc, NEW n
      PROVE  MergeOne(rules, acc, n).regs[r] = Resolved(rules[r], acc.regs[r], Reg(n, r), n).state
  BY DEF MergeOne
<1>5. rules[r].kind = "Priority" /\ rules[r].winner = p
  OBVIOUS
<1>6. ASSUME NEW existing, NEW incoming, NEW from
      PROVE  Resolved(rules[r], existing, incoming, from).state
               = IF existing = Consumed THEN incoming ELSE IF incoming = Consumed THEN existing
                 ELSE IF from = p THEN incoming ELSE existing
  BY <1>5 DEF Resolved, Pick, Outcome
<1> DEFINE T == {i \in k .. L : g[i].regs[r] # Reg(p, r)}
<1>7. T = {}
  <2> SUFFICES ASSUME T # {} PROVE FALSE
    OBVIOUS
  <2>1. PICK m \in T : \A i \in T : m <= i
    <3>1. T \subseteq Nat /\ T # {}
      BY <1>3, SMT
    <3> HIDE DEF T
    <3> QED BY <3>1, Least
  <2>2. m \in k .. L /\ g[m].regs[r] # Reg(p, r)
    OBVIOUS
  <2>3. m \in 0 .. L /\ m # 0 /\ m \in 1 .. L
    BY <1>3, <2>2, SMT
  <2>4. g[m] = MergeOne(rules, g[m - 1], names[m])
    BY <1>2, <2>3
  <2>5. CASE m = k
    BY <1>3, <1>4, <1>6, <2>2, <2>4, <2>5
  <2>6. CASE m # k
    <3>1. m - 1 \in k .. L /\ ~(m <= m - 1)
      BY <1>3, <2>2, <2>6, SMT
    <3>2. g[m - 1].regs[r] = Reg(p, r)
      BY <2>1, <3>1
    <3>3. names[m] # p
      BY <1>1, <1>3, <2>3, <2>6
    <3> QED BY <1>4, <1>6, <2>2, <2>4, <3>2, <3>3
  <2> QED BY <2>5, <2>6
<1>8. L \in k .. L
  BY <1>1, <1>3, SMT
<1> QED BY <1>2, <1>7, <1>8

(* No restore makes a timeline go.                                         *)
LEMMA RestoreLeaves ==
  ASSUME Shaped(timeline), NEW b, NEW o, NEW a, Restore(b, o, a)
  PROVE  Active' = Active
<1> DEFINE lines == [timeline EXCEPT ![o].regs = timeline[o].anchors[a].regs]
<1>1. Main \in Active /\ DOMAIN lines = Active
  BY DEF Shaped, Active
<1>2. DOMAIN Synced(lines, b) = DOMAIN lines
  BY DEF Synced
<1>3. timeline' = lines \/ timeline' = Synced(lines, b)
  BY DEF Restore, Land
<1> QED BY <1>1, <1>2, <1>3 DEF Active

(* The branch a priority rule names prevails (branching.rs), whatever the  *)
(* order of the branches, their number and the state the target had.       *)
THEOREM PriorityKept == Spec => PriorityPrevails
<1> DEFINE Step == \A p \in Active \ DOMAIN timeline', target \in DOMAIN timeline', r \in Regs :
              (Reg(p, r) # Consumed /\ timeline'[target].regs[r] # Reg(p, r)) =>
                \A names \in BranchLists, rules \in Resolutions :
                   rules[r] = [kind |-> "Priority", winner |-> p]
                     => ~Merge(running, names, target, rules)
<1>1. TimelinesInv => Step
  <2> SUFFICES ASSUME TimelinesInv, NEW p \in Active \ DOMAIN timeline',
                      NEW target \in DOMAIN timeline', NEW r \in Regs, Reg(p, r) # Consumed,
                      NEW names \in BranchLists, NEW rules \in Resolutions,
                      rules[r] = [kind |-> "Priority", winner |-> p],
                      Merge(running, names, target, rules)
               PROVE  timeline'[target].regs[r] = Reg(p, r)
    OBVIOUS
  <2> DEFINE gone == ToSet(names)
             out == Merged(names, target, rules)
  <2>1. Shaped(timeline)
    BY DEF TimelinesInv
  <2>2. Active' # Active
    BY DEF Active
  <2>3. CASE \E error : Fails(error)
    BY <2>2, <2>3 DEF Fails, Active
  <2>4. CASE Revert(running, out.reversion[1], out.reversion[2])
    BY <2>1, <2>2, <2>4, RestoreLeaves DEF Revert, Fails, Active
  <2>5. CASE /\ target \in Active
             /\ timeline' = [n \in Active \ gone |->
                               IF n = target THEN [timeline[n] EXCEPT !.regs = out.regs]
                               ELSE timeline[n]]
    <3>1. p \in gone
      BY <2>5
    <3>2. out.regs[r] = Reg(p, r)
      BY <3>1, WinnerStays
    <3>3. "regs" \in DOMAIN timeline[target]
      BY <2>1, <2>5 DEF Shaped, LineOK, Active
    <3> HIDE DEF out
    <3>4. timeline'[target] = [timeline[target] EXCEPT !.regs = out.regs]
      BY <2>5
    <3> QED BY <3>2, <3>3, <3>4
  <2> QED BY <2>3, <2>4, <2>5 DEF Merge
<1>2. TimelinesInv /\ [Next]_vars => [Step]_vars
  BY <1>1
<1>3. Spec => [][Step]_vars
  BY <1>2, Invariance, PTL DEF Spec
<1> QED BY <1>3 DEF PriorityPrevails
=============================================================================
